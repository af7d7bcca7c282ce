----------------------------- MODULE ReplayBits -----------------------------
(***************************************************************************)
(* The bit vector under the replay window of replay.rs: a vector of       *)
(* machine words, each the set of the positions of its one bits.          *)
(***************************************************************************)
EXTENDS Integers

CONSTANTS Width,          \* ReplayWindow::width, in bits
          WordBits        \* bits of a word: 64 in the code

ASSUME BitsAssumption ==
    /\ Width \in Nat \ {0}
    /\ WordBits \in Nat \ {0}

Bits == 0 .. WordBits - 1
WordCount == (Width + WordBits - 1) \div WordBits
Words == [0 .. WordCount - 1 -> SUBSET Bits]

\* The word that holds a bit, its position there, and back.
WordOf(index) == index \div WordBits
BitOf(index) == index % WordBits
IndexOf(w, b) == w * WordBits + b

Get(ws, index) == BitOf(index) \in ws[WordOf(index)]

Set(ws, index) ==
    [ws EXCEPT ![WordOf(index)] = @ \cup {BitOf(index)}]

\* Mutant: the bits past the width are not cleared.
ShiftLeftKeepTail(ws, amount) ==
    [w \in 0 .. WordCount - 1 |->
        {b \in Bits : LET index == IndexOf(w, b)
                      IN  amount <= index /\ Get(ws, index - amount)}]

\* Mutant: a jump of a whole window or more leaves the old bits in place.
ShiftLeftWithoutFill(ws, amount) ==
    IF amount >= Width
    THEN ws
    ELSE [w \in 0 .. WordCount - 1 |->
            {b \in Bits : LET index == IndexOf(w, b)
                          IN  /\ amount <= index
                              /\ index < Width
                              /\ Get(ws, index - amount)}]

Clear(ws, index) ==
    [ws EXCEPT ![WordOf(index)] = @ \ {BitOf(index)}]

\* Bit i of the result is bit i - amount of the argument, the low bits are
\* cleared and so are the bits of the last word that lie past the width.
\* ReplayShift shows that the loops of the code compute it.
ShiftLeft(ws, amount) ==
    [w \in 0 .. WordCount - 1 |->
        {b \in Bits : LET index == IndexOf(w, b)
                      IN  /\ amount <= index
                          /\ index < Width
                          /\ Get(ws, index - amount)}]
=============================================================================
