-------------------------- MODULE ReplayBitsProofs --------------------------
(***************************************************************************)
(* What the bit operations of replay.rs do to each bit of the window, for *)
(* every width and word size.                                             *)
(***************************************************************************)
EXTENDS ReplayBits, TLAPS

\* The vector of new has a word for every bit of the window, and the word and
\* the position of a bit determine its index.
LEMMA Locate ==
    ASSUME NEW index \in 0 .. Width - 1
    PROVE  /\ WordOf(index) \in 0 .. WordCount - 1
           /\ BitOf(index) \in Bits
           /\ IndexOf(WordOf(index), BitOf(index)) = index
<1>1. index \in Nat
    BY BitsAssumption
<1>2. index % WordBits \in Bits
    BY <1>1, BitsAssumption DEF Bits
<1>3. index \div WordBits \in 0 .. WordCount - 1
    BY BitsAssumption DEF WordCount
<1>4. (index \div WordBits) * WordBits + (index % WordBits) = index
    BY <1>1, BitsAssumption
<1> QED BY <1>2, <1>3, <1>4 DEF WordOf, BitOf, IndexOf

\* No bit of the vector lies past the width of the window.
NoTail(ws) == \A w \in 0 .. WordCount - 1 : \A b \in ws[w] : IndexOf(w, b) < Width

\* set turns on the bit at its index and no other.
LEMMA GetAfterSet ==
    ASSUME NEW ws \in Words, NEW i \in 0 .. Width - 1
    PROVE  /\ Set(ws, i) \in Words
           /\ \A j \in 0 .. Width - 1 : Get(Set(ws, i), j) <=> j = i \/ Get(ws, j)
           /\ NoTail(ws) => NoTail(Set(ws, i))
<1>0. /\ WordOf(i) \in 0 .. WordCount - 1
      /\ BitOf(i) \in Bits
      /\ IndexOf(WordOf(i), BitOf(i)) = i
    BY Locate
<1>1. Set(ws, i) \in Words
    BY <1>0 DEF Set, Words
<1>2. ASSUME NEW j \in 0 .. Width - 1
      PROVE  Get(Set(ws, i), j) <=> j = i \/ Get(ws, j)
    <2>1. WordOf(j) \in 0 .. WordCount - 1 /\ IndexOf(WordOf(j), BitOf(j)) = j
        BY Locate
    <2>2. Set(ws, i)[WordOf(j)] = IF WordOf(j) = WordOf(i)
                                  THEN ws[WordOf(i)] \cup {BitOf(i)}
                                  ELSE ws[WordOf(j)]
        BY <1>0, <2>1 DEF Set, Words
    <2> QED BY <1>0, <2>1, <2>2 DEF Get
<1>3. NoTail(ws) => NoTail(Set(ws, i))
    <2> SUFFICES ASSUME NoTail(ws), NEW w \in 0 .. WordCount - 1, NEW b \in Set(ws, i)[w]
                 PROVE  IndexOf(w, b) < Width
        BY DEF NoTail
    <2>1. b \in ws[w] \/ (w = WordOf(i) /\ b = BitOf(i))
        BY <1>0 DEF Set, Words
    <2>2. i < Width
        BY BitsAssumption
    <2> QED BY <1>0, <2>1, <2>2 DEF NoTail
<1> QED BY <1>1, <1>2, <1>3

\* shift_left moves every bit up by the amount and clears what it vacates.
LEMMA GetAfterShift ==
    ASSUME NEW ws \in Words, NEW amount \in Nat
    PROVE  /\ ShiftLeft(ws, amount) \in Words
           /\ \A i \in 0 .. Width - 1 :
                  Get(ShiftLeft(ws, amount), i) <=> amount <= i /\ Get(ws, i - amount)
           /\ NoTail(ShiftLeft(ws, amount))
<1>1. ShiftLeft(ws, amount) \in Words
    BY DEF ShiftLeft, Words
<1>2. ASSUME NEW i \in 0 .. Width - 1
      PROVE  Get(ShiftLeft(ws, amount), i) <=> amount <= i /\ Get(ws, i - amount)
    <2>1. /\ WordOf(i) \in 0 .. WordCount - 1
          /\ BitOf(i) \in Bits
          /\ IndexOf(WordOf(i), BitOf(i)) = i
        BY Locate
    <2>2. BitOf(i) \in ShiftLeft(ws, amount)[WordOf(i)] <=>
              amount <= i /\ i < Width /\ Get(ws, i - amount)
        BY <2>1 DEF ShiftLeft
    <2>3. i < Width
        BY BitsAssumption
    <2> QED BY <2>2, <2>3 DEF Get
<1>3. NoTail(ShiftLeft(ws, amount))
    BY DEF NoTail, ShiftLeft
<1> QED BY <1>1, <1>2, <1>3

\* The index of a position determines its word and its bit.
LEMMA LocateBack ==
    ASSUME NEW w \in 0 .. WordCount - 1, NEW b \in Bits, IndexOf(w, b) < Width
    PROVE  /\ IndexOf(w, b) \in 0 .. Width - 1
           /\ WordOf(IndexOf(w, b)) = w
           /\ BitOf(IndexOf(w, b)) = b
<1>1. w \in Nat /\ b \in Nat /\ b < WordBits
    BY BitsAssumption DEF Bits, WordCount
<1>2. w * WordBits \in Nat
    BY <1>1, BitsAssumption
<1>3. (w * WordBits + b) \div WordBits = w /\ (w * WordBits + b) % WordBits = b
    BY <1>1, BitsAssumption
<1> QED BY <1>1, <1>2, <1>3, BitsAssumption DEF IndexOf, WordOf, BitOf

\* Vectors without a tail that agree on every bit of the window are equal.
LEMMA SameBits ==
    ASSUME NEW ws \in Words, NEW vs \in Words, NoTail(ws), NoTail(vs),
           \A i \in 0 .. Width - 1 : Get(ws, i) <=> Get(vs, i)
    PROVE  ws = vs
<1>1. ASSUME NEW w \in 0 .. WordCount - 1, NEW b \in Bits
      PROVE  b \in ws[w] <=> b \in vs[w]
    <2>1. CASE IndexOf(w, b) < Width
        BY <2>1, LocateBack DEF Get
    <2>2. CASE ~(IndexOf(w, b) < Width)
        BY <2>2 DEF NoTail
    <2> QED BY <2>1, <2>2
<1>2. ASSUME NEW w \in 0 .. WordCount - 1
      PROVE  ws[w] = vs[w]
    <2>1. ws[w] \subseteq Bits /\ vs[w] \subseteq Bits
        BY DEF Words
    <2> QED BY <1>1, <2>1
<1>3. /\ ws = [w \in 0 .. WordCount - 1 |-> ws[w]]
      /\ vs = [w \in 0 .. WordCount - 1 |-> vs[w]]
    BY DEF Words
<1>4. [w \in 0 .. WordCount - 1 |-> ws[w]] = [w \in 0 .. WordCount - 1 |-> vs[w]]
    BY <1>2
<1> QED BY <1>3, <1>4

\* Clearing a bit clears no other.
LEMMA GetAfterClear ==
    ASSUME NEW ws \in Words, NEW i \in 0 .. Width - 1
    PROVE  /\ Clear(ws, i) \in Words
           /\ \A j \in 0 .. Width - 1 : Get(Clear(ws, i), j) <=> j # i /\ Get(ws, j)
           /\ NoTail(ws) => NoTail(Clear(ws, i))
<1>0. /\ WordOf(i) \in 0 .. WordCount - 1
      /\ BitOf(i) \in Bits
      /\ IndexOf(WordOf(i), BitOf(i)) = i
    BY Locate
<1>1. Clear(ws, i) \in Words
    BY <1>0 DEF Clear, Words
<1>2. ASSUME NEW j \in 0 .. Width - 1
      PROVE  Get(Clear(ws, i), j) <=> j # i /\ Get(ws, j)
    <2>1. WordOf(j) \in 0 .. WordCount - 1 /\ IndexOf(WordOf(j), BitOf(j)) = j
        BY Locate
    <2>2. Clear(ws, i)[WordOf(j)] = IF WordOf(j) = WordOf(i)
                                    THEN ws[WordOf(i)] \ {BitOf(i)}
                                    ELSE ws[WordOf(j)]
        BY <1>0, <2>1 DEF Clear, Words
    <2> QED BY <1>0, <2>1, <2>2 DEF Get
<1>3. ASSUME NEW w \in 0 .. WordCount - 1
      PROVE  Clear(ws, i)[w] \subseteq ws[w]
    BY <1>0 DEF Clear, Words
<1> QED BY <1>1, <1>2, <1>3 DEF NoTail
=============================================================================
