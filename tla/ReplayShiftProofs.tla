-------------------------- MODULE ReplayShiftProofs -------------------------
(***************************************************************************)
(* The in-place loops of shift_left compute the shift for every width,    *)
(* word size, vector and amount.                                          *)
(***************************************************************************)
EXTENDS ReplayShift, ReplayBitsProofs

\* What the loops have done so far.  Above the loop variable of the first
\* loop the bits are shifted and below it they are untouched, which is why
\* the loop must run downwards.
LoopInv ==
    /\ TypeOK
    /\ NoTail(original) /\ NoTail(words)
    /\ phase = "enter" => words = original
    /\ phase = "copy" =>
        /\ amount < Width
        /\ index >= amount
        /\ \A j \in 0 .. Width - 1 :
               Get(words, j) <=> IF j > index THEN Get(original, j - amount)
                                              ELSE Get(original, j)
    /\ phase = "clear" =>
        /\ amount < Width
        /\ index < amount
        /\ \A j \in amount .. Width - 1 : Get(words, j) <=> Get(original, j - amount)
        /\ \A j \in 0 .. index - 1 : ~Get(words, j)
    /\ phase = "tail" =>
        \A j \in 0 .. Width - 1 : Get(words, j) <=> amount <= j /\ Get(original, j - amount)
    /\ phase = "done" => words = ShiftLeft(original, amount)

\* shift_left is called on a vector without a tail.
LEMMA ShiftInit == Init => LoopInv
<1> SUFFICES ASSUME Init PROVE LoopInv
    OBVIOUS
<1>1. TypeOK
    BY BitsAssumption DEF Init, TypeOK
<1>2. NoTail(original)
    BY DEF Init, NoTail, Words
<1> QED BY <1>1, <1>2 DEF Init, LoopInv

\* A shift by the whole width or more leaves nothing.
LEMMA FillKeeps == ASSUME LoopInv, Fill PROVE LoopInv'
<1>1. EmptyWords \in Words /\ NoTail(EmptyWords)
    BY DEF EmptyWords, Words, NoTail
<1>2. \A i \in 0 .. Width - 1 : ~Get(EmptyWords, i)
    BY Locate DEF EmptyWords, Get
<1>3. original \in Words /\ amount \in Nat /\ amount >= Width
    BY BitsAssumption DEF LoopInv, TypeOK, Fill
<1>4. /\ ShiftLeft(original, amount) \in Words
      /\ NoTail(ShiftLeft(original, amount))
      /\ \A i \in 0 .. Width - 1 : ~Get(ShiftLeft(original, amount), i)
    BY <1>3, GetAfterShift, BitsAssumption
<1>5. EmptyWords = ShiftLeft(original, amount)
    BY <1>1, <1>2, <1>4, SameBits
<1> QED BY <1>1, <1>5 DEF Fill, LoopInv, TypeOK, NoTail, ShiftLeft, Get

\* The first loop starts at the top bit, with every bit below it untouched.
LEMMA EnterKeeps == ASSUME LoopInv, Enter PROVE LoopInv'
<1>1. /\ amount \in 1 .. Width - 1 /\ index' = Width - 1 /\ index' \in 0 .. Width - 1
      /\ words' = words /\ original' = original /\ amount' = amount /\ phase' = "copy"
    BY BitsAssumption DEF LoopInv, TypeOK, Enter
<1>2. words = original
    BY DEF LoopInv, Enter
<1>3. \A j \in 0 .. Width - 1 : ~(j > index') /\ (Get(words, j)' <=> Get(original, j)')
    BY <1>1, <1>2, BitsAssumption DEF Get
<1>4. TypeOK'
    BY <1>1 DEF LoopInv, TypeOK
<1> QED BY <1>1, <1>3, <1>4, BitsAssumption DEF LoopInv, NoTail

\* One iteration of the first loop moves one bit.
LEMMA CopyKeeps == ASSUME LoopInv, Copy PROVE LoopInv'
<1>1. /\ index \in 0 .. Width - 1 /\ words \in Words /\ original \in Words
      /\ amount \in 1 .. Width - 1 /\ index >= amount
      /\ NoTail(words) /\ NoTail(original)
      /\ words' = CopyBit(words, index) /\ amount' = amount /\ original' = original
    BY BitsAssumption DEF LoopInv, TypeOK, Copy
<1>2. \A j \in 0 .. Width - 1 :
          Get(words, j) <=> IF j > index THEN Get(original, j - amount) ELSE Get(original, j)
    BY DEF LoopInv, Copy
<1>3. Get(words, index - amount) <=> Get(original, index - amount)
    BY <1>1, <1>2, BitsAssumption
<1>4. /\ words' \in Words /\ NoTail(words')
      /\ \A j \in 0 .. Width - 1 :
             Get(words', j) <=> IF j = index THEN Get(words, index - amount) ELSE Get(words, j)
    <2>1. CASE Get(words, index - amount)
        BY <1>1, <2>1, GetAfterSet DEF CopyBit
    <2>2. CASE ~Get(words, index - amount)
        BY <1>1, <2>2, GetAfterClear DEF CopyBit
    <2> QED BY <2>1, <2>2
<1>5. \A j \in 0 .. Width - 1 :
          Get(words', j) <=> IF j >= index THEN Get(original, j - amount) ELSE Get(original, j)
    BY <1>1, <1>2, <1>3, <1>4, BitsAssumption
<1>6. \A j : (Get(words, j)' <=> Get(words', j)) /\ (Get(original, j)' <=> Get(original, j))
    BY <1>1 DEF Get
<1>7. CASE index > amount /\ index' = index - 1 /\ phase' = "copy"
    <2>1. TypeOK'
        BY <1>1, <1>4, <1>7, BitsAssumption DEF LoopInv, TypeOK
    <2>2. \A j \in 0 .. Width - 1 : j > index' <=> j >= index
        BY <1>1, <1>7, BitsAssumption
    <2>3. amount' < Width /\ index' >= amount'
        BY <1>1, <1>7, BitsAssumption
    <2>4. \A j \in 0 .. Width - 1 :
              Get(words, j)' <=> IF j > index' THEN Get(original, j - amount)'
                                               ELSE Get(original, j)'
        BY <1>1, <1>5, <1>6, <2>2
    <2> QED BY <1>1, <1>4, <1>6, <1>7, <2>1, <2>2, <2>3, <2>4 DEF LoopInv, NoTail
<1>8. CASE index = amount /\ index' = 0 /\ phase' = "clear"
    <2>1. TypeOK'
        BY <1>1, <1>4, <1>8, BitsAssumption DEF LoopInv, TypeOK
    <2>2. \A j \in amount .. Width - 1 : Get(words, j)' <=> Get(original, j - amount)'
        BY <1>1, <1>5, <1>6, <1>8, BitsAssumption
    <2>3. amount' < Width /\ index' < amount' /\ 0 .. index' - 1 = {}
        BY <1>1, <1>8, BitsAssumption
    <2> QED BY <1>1, <1>4, <1>8, <2>1, <2>2, <2>3 DEF LoopInv, NoTail
<1> QED BY <1>7, <1>8 DEF Copy

\* One iteration of the second loop clears one vacated bit.
LEMMA ClearKeeps == ASSUME LoopInv, ClearLow PROVE LoopInv'
<1>1. /\ index \in 0 .. Width - 1 /\ words \in Words /\ original \in Words
      /\ amount \in 1 .. Width - 1 /\ index < amount
      /\ NoTail(words) /\ NoTail(original)
      /\ words' = Clear(words, index) /\ amount' = amount /\ original' = original
    BY BitsAssumption DEF LoopInv, TypeOK, ClearLow
<1>2. /\ \A j \in amount .. Width - 1 : Get(words, j) <=> Get(original, j - amount)
      /\ \A j \in 0 .. index - 1 : ~Get(words, j)
    BY DEF LoopInv, ClearLow
<1>3. /\ words' \in Words /\ NoTail(words')
      /\ \A j \in 0 .. Width - 1 : Get(words', j) <=> j # index /\ Get(words, j)
    BY <1>1, GetAfterClear
<1>4. /\ \A j \in amount .. Width - 1 : Get(words', j) <=> Get(original, j - amount)
      /\ \A j \in 0 .. index : ~Get(words', j)
    BY <1>1, <1>2, <1>3, BitsAssumption
<1>5. \A j : (Get(words, j)' <=> Get(words', j)) /\ (Get(original, j)' <=> Get(original, j))
    BY <1>1 DEF Get
<1>6. CASE index < amount - 1 /\ index' = index + 1 /\ phase' = "clear"
    <2>1. TypeOK'
        BY <1>1, <1>3, <1>6, BitsAssumption DEF LoopInv, TypeOK
    <2>2. amount' < Width /\ index' < amount' /\ \A j \in 0 .. index' - 1 : ~Get(words, j)'
        BY <1>1, <1>4, <1>5, <1>6, BitsAssumption
    <2> QED BY <1>1, <1>3, <1>4, <1>5, <1>6, <2>1, <2>2 DEF LoopInv, NoTail
<1>7. CASE index = amount - 1 /\ phase' = "tail" /\ UNCHANGED index
    <2>1. TypeOK'
        BY <1>1, <1>3, <1>7, BitsAssumption DEF LoopInv, TypeOK
    <2>2. \A j \in 0 .. Width - 1 : Get(words', j) <=> amount <= j /\ Get(original, j - amount)
        BY <1>1, <1>4, <1>7, BitsAssumption
    <2> QED BY <1>1, <1>3, <1>5, <1>7, <2>1, <2>2 DEF LoopInv, NoTail
<1> QED BY <1>6, <1>7 DEF ClearLow

\* The mask of clear_unused_tail keeps every bit of the window.
LEMMA TailKeeps == ASSUME LoopInv, ClearUnusedTail PROVE LoopInv'
<1>1. /\ words \in Words /\ original \in Words /\ amount \in Nat
      /\ NoTail(words) /\ NoTail(original)
      /\ amount' = amount /\ original' = original /\ phase' = "done" /\ index' = index
      /\ \A j \in 0 .. Width - 1 : Get(words, j) <=> amount <= j /\ Get(original, j - amount)
    BY BitsAssumption DEF LoopInv, TypeOK, ClearUnusedTail
<1>2. words' = words
    <2>1. CASE Width % WordBits = 0
        BY <2>1 DEF ClearUnusedTail
    <2>2. CASE Width % WordBits # 0
        <3> DEFINE used == Width % WordBits
                   last == WordCount - 1
        <3>1. last \in Nat /\ last * WordBits + used = Width /\ used \in Nat
            <4> DEFINE q == Width \div WordBits
            <4>1. q \in Nat /\ used \in 1 .. WordBits - 1 /\ q * WordBits + used = Width
                BY <2>2, BitsAssumption
            <4>2. Width + WordBits - 1 = (q + 1) * WordBits + (used - 1)
                BY <4>1, BitsAssumption
            <4>3. ((q + 1) * WordBits + (used - 1)) \div WordBits = q + 1
                BY <4>1, BitsAssumption
            <4> HIDE DEF q, used
            <4> QED BY <4>1, <4>2, <4>3, BitsAssumption DEF WordCount
        <3>2. last \in 0 .. WordCount - 1
            BY <3>1 DEF WordCount
        <3>3. last * WordBits \in Nat
            BY <3>1, BitsAssumption
        <3>4. words[last] \subseteq Bits
            BY <1>1, <3>2 DEF Words
        <3>5. ASSUME NEW b \in words[last]
              PROVE  b \in 0 .. used - 1
            <4>1. b \in Nat
                BY <3>4, <3>5, BitsAssumption DEF Bits
            <4>2. last * WordBits + b < Width
                BY <1>1, <3>2, <3>5 DEF NoTail, IndexOf
            <4> QED BY <3>1, <3>3, <4>1, <4>2
        <3>6. words[last] \cap (0 .. used - 1) = words[last]
            BY <3>5
        <3>7. words' = [words EXCEPT ![last] = words[last] \cap (0 .. used - 1)]
            BY <2>2 DEF ClearUnusedTail
        <3> QED BY <1>1, <3>2, <3>6, <3>7 DEF Words
    <2> QED BY <2>1, <2>2
<1>3. words = ShiftLeft(original, amount)
    <2>1. /\ ShiftLeft(original, amount) \in Words
          /\ NoTail(ShiftLeft(original, amount))
          /\ \A i \in 0 .. Width - 1 : Get(ShiftLeft(original, amount), i)
                 <=> amount <= i /\ Get(original, i - amount)
        BY <1>1, GetAfterShift
    <2> QED BY <1>1, <2>1, SameBits
<1>4. TypeOK'
    BY <1>1, <1>2 DEF LoopInv, TypeOK
<1> QED BY <1>1, <1>2, <1>3, <1>4 DEF LoopInv, NoTail, ShiftLeft, Get

\* Every step of shift_left keeps the loop invariant.
LEMMA LoopInvAlways == Spec => []LoopInv
<1>1. LoopInv /\ [Next]_vars => LoopInv'
    <2> SUFFICES ASSUME LoopInv, [Next]_vars PROVE LoopInv'
        OBVIOUS
    <2>1. CASE UNCHANGED vars
        BY <2>1 DEF vars, LoopInv, TypeOK, NoTail, Get, ShiftLeft
    <2> QED BY <2>1, FillKeeps, EnterKeeps, CopyKeeps, ClearKeeps, TailKeeps DEF Next
<1> QED BY <1>1, ShiftInit, PTL DEF Spec

\* No access of shift_left is out of bounds.
THEOREM ShiftTypeCorrect == Spec => []TypeOK
    BY LoopInvAlways, PTL DEF LoopInv

\* When shift_left returns, the vector is the shift of the one it was called
\* with, for every width, vector and amount.
THEOREM ShiftCorrect == Spec => []ShiftsAllBits
<1>1. LoopInv => ShiftsAllBits
    BY DEF LoopInv, ShiftsAllBits
<1> QED BY <1>1, LoopInvAlways, PTL
=============================================================================
