----------------------------- MODULE PacketPipe -----------------------------
(***************************************************************************)
(* What a transport between two ends promises: each end has a bounded     *)
(* queue of packets in the order they were accepted, an end that is       *)
(* closed accepts nothing, and an end that reads gets its packets.        *)
(***************************************************************************)
EXTENDS Naturals, Sequences

CONSTANTS Ends, Frames, Capacity

VARIABLES queue,    \* end -> the packets that wait for it
          stage     \* end -> reading, idle (nobody reads any more), closed

pipeVars == <<queue, stage>>

PipeInit ==
    /\ queue = [e \in Ends |-> <<>>]
    /\ stage = [e \in Ends |-> "reading"]

Write(e, frame) ==
    /\ stage[e] # "closed"
    /\ Len(queue[e]) < Capacity
    /\ queue' = [queue EXCEPT ![e] = Append(@, frame)]
    /\ UNCHANGED stage

Read(e) ==
    /\ stage[e] = "reading"
    /\ queue[e] # <<>>
    /\ queue' = [queue EXCEPT ![e] = Tail(@)]
    /\ stage' \in {stage, [stage EXCEPT ![e] = "idle"]}

Leave(e) ==
    /\ stage[e] = "reading"
    /\ stage' = [stage EXCEPT ![e] = "idle"]
    /\ UNCHANGED queue

Close(e) ==
    /\ stage[e] = "idle"
    /\ stage' = [stage EXCEPT ![e] = "closed"]
    /\ UNCHANGED queue

PipeNext ==
    \E e \in Ends : Read(e) \/ Leave(e) \/ Close(e) \/ \E frame \in Frames : Write(e, frame)

\* No packet waits for ever while somebody reads.
PipeSpec == PipeInit /\ [][PipeNext]_pipeVars /\ \A e \in Ends : WF_pipeVars(Read(e))
=============================================================================
