----------------------------- MODULE ReplaySpec -----------------------------
(***************************************************************************)
(* The abstract replay filter as a state machine: it remembers every      *)
(* packet number it accepted and answers each query with the verdict of   *)
(* ReplayFilter.                                                           *)
(***************************************************************************)
EXTENDS ReplayFilter

CONSTANTS Width,          \* ReplayWindow::width
          PacketNumbers,  \* the packet numbers a peer may present
          None

VARIABLES accepted,       \* every packet number accepted so far
          presented,      \* the packet number of the last query
          verdict         \* the answer to it

specVars == <<accepted, presented, verdict>>

SpecInit ==
    /\ accepted = {}
    /\ presented = None
    /\ verdict = "None"

Query(packet_number) ==
    /\ presented' = packet_number
    /\ verdict' = FilterVerdict(Width, accepted, packet_number)
    /\ accepted' = FilterAccept(Width, accepted, packet_number)

SpecNext == \E packet_number \in PacketNumbers : Query(packet_number)

Spec == SpecInit /\ [][SpecNext]_specVars
=============================================================================
