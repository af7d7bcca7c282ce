-------------------------- MODULE MemoryTransport ---------------------------
(***************************************************************************)
(* The in-memory transport of memory.rs: two queues, each behind a mutex. *)
(* A step is one critical section; the waker a step takes is called by a  *)
(* later one, outside the lock.                                           *)
(***************************************************************************)
EXTENDS Naturals, Sequences

CONSTANT Capacity         \* of each queue

ASSUME TransportAssumption == Capacity \in Nat \ {0}

VARIABLES packets,        \* end -> packets waiting for it
          receiver_waker, \* end -> whether its receiver left a waker
          sender_open,    \* end -> whether packets may still come for it
          receiver_open   \* end -> whether it still accepts packets

transportVars == <<packets, receiver_waker, sender_open, receiver_open>>

Ends == {"service", "peer"}
Other(e) == CHOOSE o \in Ends : o # e

TransportInit ==
    /\ packets = [e \in Ends |-> <<>>]
    /\ receiver_waker = [e \in Ends |-> FALSE]
    /\ sender_open = [e \in Ends |-> TRUE]
    /\ receiver_open = [e \in Ends |-> TRUE]

\* send, for a packet addressed to the other end.
Refused(e) == ~receiver_open[Other(e)] \/ Len(packets[Other(e)]) >= Capacity

Push(e, frame) ==
    /\ ~Refused(e)
    /\ packets' = [packets EXCEPT ![Other(e)] = Append(@, frame)]
    /\ receiver_waker' = [receiver_waker EXCEPT ![Other(e)] = FALSE]
    /\ UNCHANGED <<sender_open, receiver_open>>

\* Mutant: the packet that ends an empty queue does not wake.
TakesWakerLate(e) == receiver_waker[Other(e)] /\ packets[Other(e)] # <<>>

\* Whether Push takes a waker, which has to be called afterwards.
TakesWaker(e) == receiver_waker[Other(e)]

\* poll_receive: a packet, an error, or a waker left behind.
Pop(e) ==
    /\ packets[e] # <<>>
    /\ packets' = [packets EXCEPT ![e] = Tail(@)]
    /\ UNCHANGED <<receiver_waker, sender_open, receiver_open>>

SeesClosed(e) == packets[e] = <<>> /\ ~sender_open[e] /\ UNCHANGED transportVars

\* Mutant: poll_receive returns Pending and leaves no waker.
PendingWithoutWaker(e) == packets[e] = <<>> /\ sender_open[e] /\ UNCHANGED transportVars

LeaveWaker(e) ==
    /\ packets[e] = <<>>
    /\ sender_open[e]
    /\ receiver_waker' = [receiver_waker EXCEPT ![e] = TRUE]
    /\ UNCHANGED <<packets, sender_open, receiver_open>>

\* Drop, in two critical sections.  The first leaves the other end's waker
\* where it is; the second takes the waker of this end's own receiver.
CloseOutgoing(e) ==
    /\ sender_open' = [sender_open EXCEPT ![Other(e)] = FALSE]
    /\ UNCHANGED <<packets, receiver_waker, receiver_open>>

CloseIncoming(e) ==
    /\ receiver_open' = [receiver_open EXCEPT ![e] = FALSE]
    /\ receiver_waker' = [receiver_waker EXCEPT ![e] = FALSE]
    /\ UNCHANGED <<packets, sender_open>>
=============================================================================
