---------------------------- MODULE ReplayWindow ----------------------------
(***************************************************************************)
(* The sliding replay window of replay.rs: the highest packet number      *)
(* accepted and a vector of machine words whose bit i records whether     *)
(* packet number highest - i was accepted.  The operations on the bits    *)
(* are those of ReplayBits.                                               *)
(***************************************************************************)
EXTENDS ReplayFilter, ReplayBits

CONSTANTS PacketNumbers,  \* the packet numbers a peer may present
          None

ASSUME WindowAssumption ==
    /\ PacketNumbers \subseteq Nat
    /\ None \notin Nat

VARIABLES highest,        \* Option<u64>
          words,          \* Vec<u64>
          presented,      \* the argument of the last call of accept
          verdict,        \* what that call returned
          grants          \* history: how often each number was accepted

vars == <<highest, words, presented, verdict, grants>>

accepted == {packet_number \in PacketNumbers : grants[packet_number] > 0}

Init ==
    /\ highest = None
    /\ words = [w \in 0 .. WordCount - 1 |-> {}]
    /\ presented = None
    /\ verdict = "None"
    /\ grants = [packet_number \in PacketNumbers |-> 0]

Record(packet_number) ==
    /\ verdict' = "Ok"
    /\ grants' = [grants EXCEPT ![packet_number] = @ + 1]

Refuse(reason) ==
    /\ verdict' = reason
    /\ UNCHANGED <<highest, words, grants>>

AcceptFirst(packet_number) ==
    /\ highest = None
    /\ highest' = packet_number
    /\ words' = Set(words, 0)
    /\ Record(packet_number)

AcceptNewest(packet_number) ==
    /\ highest # None
    /\ packet_number > highest
    /\ words' = Set(ShiftLeft(words, packet_number - highest), 0)
    /\ highest' = packet_number
    /\ Record(packet_number)

\* Mutant: a packet exactly one window behind is still looked up.
AcceptWithinOffByOne(packet_number) ==
    /\ highest # None
    /\ packet_number <= highest
    /\ LET distance == highest - packet_number
       IN  \/ distance > Width /\ Refuse("TooOld")
           \/ distance <= Width /\ Get(words, distance) /\ Refuse("Duplicate")
           \/ /\ distance <= Width
              /\ ~Get(words, distance)
              /\ words' = Set(words, distance)
              /\ UNCHANGED highest
              /\ Record(packet_number)

\* A number at or below the highest one: distance is its bit position.
AcceptWithin(packet_number) ==
    /\ highest # None
    /\ packet_number <= highest
    /\ LET distance == highest - packet_number
       IN  \/ distance >= Width /\ Refuse("TooOld")
           \/ distance < Width /\ Get(words, distance) /\ Refuse("Duplicate")
           \/ /\ distance < Width
              /\ ~Get(words, distance)
              /\ words' = Set(words, distance)
              /\ UNCHANGED highest
              /\ Record(packet_number)

Accept(packet_number) ==
    /\ presented' = packet_number
    /\ \/ AcceptFirst(packet_number)
       \/ AcceptNewest(packet_number)
       \/ AcceptWithin(packet_number)

Next == \E packet_number \in PacketNumbers : Accept(packet_number)

Spec == Init /\ [][Next]_vars
-----------------------------------------------------------------------------
\* The types of the window's fields.
TypeOK ==
    /\ highest \in PacketNumbers \cup {None}
    /\ words \in Words
    /\ presented \in PacketNumbers \cup {None}
    /\ verdict \in {"None", "Ok", "Duplicate", "TooOld"}
    /\ grants \in [PacketNumbers -> Nat]

\* The window and the history agree: highest is the largest accepted number
\* and, for every position inside the width, the bit is set exactly when the
\* number at that distance below highest was accepted.  No bit lies outside.
WindowMirrorsHistory ==
    /\ highest = None => accepted = {} /\ \A w \in DOMAIN words : words[w] = {}
    /\ highest # None => /\ highest \in accepted
                         /\ \A q \in accepted : q <= highest
                         /\ \A i \in 0 .. Width - 1 :
                                Get(words, i) <=> (highest - i) \in accepted
    /\ \A w \in DOMAIN words : \A b \in words[w] : IndexOf(w, b) < Width

\* accept returns Ok at most once for a packet number, however the numbers
\* are reordered, repeated or spread apart.
NeverAcceptedTwice == \A packet_number \in PacketNumbers : grants[packet_number] <= 1

\* The bit vector implements the abstract filter: every verdict of accept is
\* the one the set of accepted numbers calls for, so a number inside the
\* window that was not seen is never refused either.
Abstract == INSTANCE ReplaySpec
ImplementsFilter == Abstract!Spec
=============================================================================
