---------------------------- MODULE ReplayFilter ----------------------------
(***************************************************************************)
(* What a replay filter of a given width promises, as a function of the   *)
(* set of packet numbers it accepted so far.  ReplayWindow shows that the *)
(* bit vector of replay.rs keeps the promise; the record layer of the     *)
(* tunnel model uses the promise.                                         *)
(***************************************************************************)
EXTENDS Integers

\* A packet number is too old once some accepted number is a whole window
\* ahead of it, and a duplicate when it is still in the window and was
\* accepted before.
FilterVerdict(width, accepted, packet_number) ==
    IF \E q \in accepted : q - packet_number >= width THEN "TooOld"
    ELSE IF packet_number \in accepted THEN "Duplicate"
    ELSE "Ok"

FilterAccept(width, accepted, packet_number) ==
    IF FilterVerdict(width, accepted, packet_number) = "Ok"
    THEN accepted \cup {packet_number}
    ELSE accepted
=============================================================================
