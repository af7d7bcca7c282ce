---------------------------- MODULE ReplayShift -----------------------------
(***************************************************************************)
(* shift_left of replay.rs, one step per loop iteration.  It moves the    *)
(* bits in place, so the order in which it visits them matters.           *)
(***************************************************************************)
EXTENDS ReplayBits

VARIABLES words,          \* Vec<u64>
          amount,         \* the argument
          phase,          \* the loop the call is in
          index,          \* the loop variable
          original        \* history: the vector at the call

vars == <<words, amount, phase, index, original>>

EmptyWords == [w \in 0 .. WordCount - 1 |-> {}]

\* accept shifts by at least one, and sets no bit past the width.
Init ==
    /\ original \in {ws \in Words : \A w \in DOMAIN ws : \A b \in ws[w] : IndexOf(w, b) < Width}
    /\ words = original
    /\ amount \in 1 .. Width + 1
    /\ phase = "enter"
    /\ index = 0

Fill ==
    /\ phase = "enter"
    /\ amount >= Width
    /\ words' = EmptyWords
    /\ phase' = "done"
    /\ UNCHANGED <<amount, index, original>>

Enter ==
    /\ phase = "enter"
    /\ amount < Width
    /\ index' = Width - 1
    /\ phase' = "copy"
    /\ UNCHANGED <<words, amount, original>>

CopyBit(ws, i) ==
    IF Get(ws, i - amount) THEN Set(ws, i) ELSE Clear(ws, i)

\* Mutant: each iteration goes to the next higher bit.
CopyUpwards ==
    /\ phase = "copy"
    /\ words' = CopyBit(words, amount + (Width - 1 - index))
    /\ \/ index > amount /\ index' = index - 1 /\ phase' = "copy"
       \/ index = amount /\ index' = 0 /\ phase' = "clear"
    /\ UNCHANGED <<amount, original>>

\* One iteration of the first loop, from the top bit down to bit amount.
Copy ==
    /\ phase = "copy"
    /\ words' = CopyBit(words, index)
    /\ \/ index > amount /\ index' = index - 1 /\ phase' = "copy"
       \/ index = amount /\ index' = 0 /\ phase' = "clear"
    /\ UNCHANGED <<amount, original>>

\* One iteration of the second loop, over the bits below amount.
ClearLow ==
    /\ phase = "clear"
    /\ words' = Clear(words, index)
    /\ \/ index < amount - 1 /\ index' = index + 1 /\ phase' = "clear"
       \/ index = amount - 1 /\ phase' = "tail" /\ UNCHANGED index
    /\ UNCHANGED <<amount, original>>

\* clear_unused_tail masks the last word when the width is no multiple of
\* the word size.
ClearUnusedTail ==
    /\ phase = "tail"
    /\ words' = IF Width % WordBits = 0
                THEN words
                ELSE [words EXCEPT ![WordCount - 1] = @ \cap (0 .. (Width % WordBits) - 1)]
    /\ phase' = "done"
    /\ UNCHANGED <<amount, index, original>>

Next == Fill \/ Enter \/ Copy \/ ClearLow \/ ClearUnusedTail

Spec == Init /\ [][Next]_vars
-----------------------------------------------------------------------------
\* The vector keeps its length and the loop variable stays in the vector, so
\* no access of shift_left is out of bounds.
TypeOK ==
    /\ words \in Words
    /\ original \in Words
    /\ amount \in 1 .. Width + 1
    /\ phase \in {"enter", "copy", "clear", "tail", "done"}
    /\ index \in 0 .. Width - 1

\* The in-place loops compute the shift: when shift_left returns, bit i is
\* bit i - amount of the vector it was called with, and nothing else is set.
ShiftsAllBits == phase = "done" => words = ShiftLeft(original, amount)
=============================================================================
