---------------------------- MODULE ServiceTasks ----------------------------
(***************************************************************************)
(* A managed service on the in-memory transport: the select loop of run,  *)
(* the transport poller, the transport sender and the shutdown signal,    *)
(* with an embedding host at the other end of the transport.  What the    *)
(* engine does with an event is left open: it may return a frame, none,   *)
(* or an error.                                                           *)
(***************************************************************************)
EXTENDS MemoryTransport, FiniteSets

CONSTANTS QueueCapacity,  \* of the channels between the tasks
          MaxArrivals,    \* bound: frames the other end sends
          MaxProduced     \* bound: frames the engine produces

ASSUME TasksAssumption == {QueueCapacity, MaxArrivals, MaxProduced} \subseteq Nat \ {0}

VARIABLES main, poller, sender,     \* what each task is doing
          packet_ch, send_ch,       \* the two channels
          notified,                 \* tasks that hold an unread shutdown notice
          aborted,                  \* the loop has aborted the other two tasks
          drop_stage,               \* how far the service's transport is dropped
          peer, peer_waking,        \* the other end, and whether it calls a waker
          signalled,                \* the host has called shutdown
          transport_queue_dropped, transport_errors,
          arrived, produced, handled, forwarded   \* history: frames, by stage

taskVars == <<main, poller, sender, notified, aborted, drop_stage, signalled>>
peerVars == <<peer, peer_waking>>
channels == <<packet_ch, send_ch>>
metrics == <<transport_queue_dropped, transport_errors>>
counts == <<arrived, produced, handled, forwarded>>
vars == <<transportVars, taskVars, peerVars, channels, metrics, counts>>

Init ==
    /\ TransportInit
    /\ main = "busy" /\ poller = "start" /\ sender = "start"
    /\ packet_ch = <<>> /\ send_ch = <<>>
    /\ notified = {} /\ aborted = FALSE /\ drop_stage = "open"
    /\ peer = "polling" /\ peer_waking = FALSE
    /\ signalled = FALSE
    /\ transport_queue_dropped = 0 /\ transport_errors = 0
    /\ arrived = 0 /\ produced = 0 /\ handled = 0 /\ forwarded = 0

MainEnded == main \in {"stopped", "failed"}

\* The tasks that wait in their select, and therefore hear notify_waiters.
Waiters == {task \in {"main", "poller", "sender"} :
    \/ task = "main" /\ main = "select"
    \/ task = "poller" /\ poller \in {"select", "parked"}
    \/ task = "sender" /\ sender = "select"}

Woken(p) == IF p = "parked" THEN "select" ELSE p
-----------------------------------------------------------------------------
\* The loop of run.  It begins busy, with the Start event.

\* The timer or the local socket wins: a notice that was there is lost.
MainEvent ==
    /\ main = "select"
    /\ main' = "busy"
    /\ notified' = notified \ {"main"}
    /\ UNCHANGED <<transportVars, poller, sender, aborted, drop_stage, signalled, peerVars,
                   channels, metrics, counts>>

MainPacket ==
    /\ main = "select"
    /\ packet_ch # <<>>
    /\ packet_ch' = Tail(packet_ch)
    /\ handled' = handled + 1
    /\ main' = "busy"
    /\ notified' = notified \ {"main"}
    /\ UNCHANGED <<transportVars, poller, sender, aborted, drop_stage, signalled, peerVars,
                   send_ch, metrics, arrived, produced, forwarded>>

\* The engine returns no frame.
MainIdle ==
    /\ main = "busy"
    /\ main' = "select"
    /\ UNCHANGED <<transportVars, poller, sender, notified, aborted, drop_stage, signalled,
                   peerVars, channels, metrics, counts>>

\* Mutant: the frame that does not fit is dropped without a word.
EnqueuePacketSilently ==
    /\ main = "busy"
    /\ produced < MaxProduced
    /\ produced' = produced + 1
    /\ main' = "select"
    /\ send_ch' = IF Len(send_ch) < QueueCapacity THEN Append(send_ch, produced') ELSE send_ch
    /\ UNCHANGED <<transportVars, poller, sender, notified, aborted, drop_stage, signalled,
                   peerVars, packet_ch, metrics, arrived, handled, forwarded>>

\* The engine returns a frame: enqueue_packet.
EnqueuePacket ==
    /\ main = "busy"
    /\ produced < MaxProduced
    /\ produced' = produced + 1
    /\ IF sender # "ended" /\ Len(send_ch) < QueueCapacity
       THEN send_ch' = Append(send_ch, produced') /\ main' = "select"
       ELSE UNCHANGED send_ch /\ main' = "counting"
    /\ UNCHANGED <<transportVars, poller, sender, notified, aborted, drop_stage, signalled,
                   peerVars, packet_ch, metrics, arrived, handled, forwarded>>

MainCounts ==
    /\ main = "counting"
    /\ main' = "select"
    /\ transport_queue_dropped' = transport_queue_dropped + 1
    /\ UNCHANGED <<transportVars, poller, sender, notified, aborted, drop_stage, signalled,
                   peerVars, channels, transport_errors, counts>>

\* An error of the engine or of a socket: run returns where it is.
MainFails ==
    /\ main = "busy"
    /\ main' = "failed"
    /\ UNCHANGED <<transportVars, poller, sender, notified, aborted, drop_stage, signalled,
                   peerVars, channels, metrics, counts>>

\* Mutant: the loop waits for ever on a channel without a sender.
MainStopsOnNoticeOnly ==
    /\ main = "select"
    /\ "main" \in notified
    /\ main' = "stopped"
    /\ notified' = Waiters \ {"main"}
    /\ poller' = Woken(poller)
    /\ aborted' = TRUE
    /\ UNCHANGED <<transportVars, sender, drop_stage, signalled, peerVars, channels, metrics,
                   counts>>

\* Mutant: the tasks are notified and not aborted.
MainStopsWithoutAbort ==
    /\ main = "select"
    /\ "main" \in notified \/ (packet_ch = <<>> /\ poller = "ended")
    /\ main' = "stopped"
    /\ notified' = Waiters \ {"main"}
    /\ poller' = Woken(poller)
    /\ UNCHANGED <<transportVars, sender, aborted, drop_stage, signalled, peerVars, channels,
                   metrics, counts>>

\* The loop hears the notice, or finds that the poller is gone.
MainStops ==
    /\ main = "select"
    /\ "main" \in notified \/ (packet_ch = <<>> /\ poller = "ended")
    /\ main' = "stopped"
    /\ notified' = Waiters \ {"main"}
    /\ poller' = Woken(poller)
    /\ aborted' = TRUE
    /\ UNCHANGED <<transportVars, sender, drop_stage, signalled, peerVars, channels, metrics,
                   counts>>

MainTask ==
    MainEvent \/ MainPacket \/ MainIdle \/ EnqueuePacket \/ MainCounts \/ MainFails \/ MainStops
-----------------------------------------------------------------------------
\* spawn_transport_poller.  The transport is behind a mutex, which the
\* sender holds while it calls a waker.

PollerMoves(to) == poller' = to /\ notified' = notified \ {"poller"}

pollerOnly == <<main, sender, aborted, drop_stage, signalled, peerVars, send_ch>>

PollerStarts ==
    /\ poller = "start"
    /\ PollerMoves("select")
    /\ UNCHANGED <<transportVars, pollerOnly, packet_ch, metrics, counts>>

PollerReceives ==
    /\ poller = "select" /\ sender # "waking"
    /\ Pop("service")
    /\ IF MainEnded THEN PollerMoves("ended") /\ UNCHANGED packet_ch
       ELSE IF Len(packet_ch) < QueueCapacity
       THEN PollerMoves("select") /\ packet_ch' = Append(packet_ch, Head(packets["service"]))
       ELSE PollerMoves("counting") /\ UNCHANGED packet_ch
    /\ UNCHANGED <<pollerOnly, metrics, counts>>

PollerCountsDrop ==
    /\ poller = "counting"
    /\ PollerMoves("select")
    /\ transport_queue_dropped' = transport_queue_dropped + 1
    /\ UNCHANGED <<transportVars, pollerOnly, packet_ch, transport_errors, counts>>

PollerFails ==
    /\ poller = "select" /\ sender # "waking"
    /\ SeesClosed("service")
    /\ PollerMoves("failing")
    /\ UNCHANGED <<pollerOnly, packet_ch, metrics, counts>>

PollerCountsError ==
    /\ poller = "failing"
    /\ PollerMoves("ended")
    /\ transport_errors' = transport_errors + 1
    /\ UNCHANGED <<transportVars, pollerOnly, packet_ch, transport_queue_dropped, counts>>

PollerParks ==
    /\ poller = "select" /\ sender # "waking"
    /\ "poller" \notin notified
    /\ LeaveWaker("service")
    /\ PollerMoves("parked")
    /\ UNCHANGED <<pollerOnly, packet_ch, metrics, counts>>

PollerStops ==
    /\ \/ poller = "select" /\ "poller" \in notified
       \/ aborted /\ poller # "ended"
    /\ PollerMoves("ended")
    /\ UNCHANGED <<transportVars, pollerOnly, packet_ch, metrics, counts>>

PollerTask ==
    \/ PollerStarts \/ PollerReceives \/ PollerCountsDrop \/ PollerFails \/ PollerCountsError
    \/ PollerParks \/ PollerStops
-----------------------------------------------------------------------------
\* spawn_transport_sender.

SenderMoves(to) == sender' = to /\ notified' = notified \ {"sender"}

senderOnly == <<main, poller, aborted, drop_stage, signalled, packet_ch>>

SenderStarts ==
    /\ sender = "start"
    /\ SenderMoves("select")
    /\ UNCHANGED <<transportVars, senderOnly, peerVars, send_ch, metrics, counts>>

SenderSends ==
    /\ sender = "select"
    /\ send_ch # <<>>
    /\ send_ch' = Tail(send_ch)
    /\ \/ /\ Push("service", Head(send_ch))
          /\ SenderMoves(IF TakesWaker("service") THEN "waking" ELSE "select")
          /\ forwarded' = forwarded + 1
       \/ /\ Refused("service")
          /\ SenderMoves("counting")
          /\ UNCHANGED <<transportVars, forwarded>>
    /\ UNCHANGED <<senderOnly, peerVars, metrics, arrived, produced, handled>>

SenderWakes ==
    /\ sender = "waking"
    /\ SenderMoves("select")
    /\ peer' = IF peer = "parked" THEN "polling" ELSE peer
    /\ UNCHANGED <<transportVars, senderOnly, peer_waking, send_ch, metrics, counts>>

SenderCounts ==
    /\ sender = "counting"
    /\ SenderMoves("select")
    /\ transport_errors' = transport_errors + 1
    /\ UNCHANGED <<transportVars, senderOnly, peerVars, send_ch, transport_queue_dropped, counts>>

\* The channel is empty and nobody holds its other end, or the task is told.
SenderStops ==
    /\ \/ sender = "select" /\ ("sender" \in notified \/ (send_ch = <<>> /\ MainEnded))
       \/ aborted /\ sender \notin {"waking", "ended"}
    /\ SenderMoves("ended")
    /\ UNCHANGED <<transportVars, senderOnly, peerVars, send_ch, metrics, counts>>

SenderTask == SenderStarts \/ SenderSends \/ SenderWakes \/ SenderCounts \/ SenderStops
-----------------------------------------------------------------------------
\* The last task that ends drops the transport.
DropTransport ==
    /\ poller = "ended" /\ sender = "ended"
    /\ \/ drop_stage = "open" /\ CloseOutgoing("service") /\ drop_stage' = "closing"
       \/ drop_stage = "closing" /\ CloseIncoming("service") /\ drop_stage' = "closed"
    /\ UNCHANGED <<main, poller, sender, notified, aborted, signalled, peerVars, channels,
                   metrics, counts>>

\* ShutdownHandle::shutdown.
Shutdown ==
    /\ ~signalled
    /\ signalled' = TRUE
    /\ notified' = Waiters
    /\ poller' = Woken(poller)
    /\ UNCHANGED <<transportVars, main, sender, aborted, drop_stage, peerVars, channels,
                   metrics, counts>>
-----------------------------------------------------------------------------
\* The embedding host at the other end: one task polls, another sends, and
\* in the end the transport is dropped.

peerOnly == <<main, sender, notified, aborted, drop_stage, signalled, channels, metrics>>

PeerReceives ==
    /\ peer = "polling" /\ ~peer_waking
    /\ \/ Pop("peer") /\ UNCHANGED peer
       \/ SeesClosed("peer") /\ peer' = "refused"
       \/ LeaveWaker("peer") /\ peer' = "parked"
    /\ UNCHANGED <<poller, peerOnly, peer_waking, counts>>

PeerSends ==
    /\ peer \in {"polling", "parked"} /\ ~peer_waking
    /\ arrived < MaxArrivals
    /\ Push("peer", arrived + 1)
    /\ arrived' = arrived + 1
    /\ peer_waking' = TakesWaker("peer")
    /\ UNCHANGED <<poller, peerOnly, peer, produced, handled, forwarded>>

PeerWakes ==
    /\ peer_waking
    /\ peer_waking' = FALSE
    /\ poller' = Woken(poller)
    /\ UNCHANGED <<transportVars, peerOnly, peer, counts>>

PeerDrops ==
    /\ ~peer_waking
    /\ \/ peer \in {"polling", "parked", "refused"} /\ CloseOutgoing("peer") /\ peer' = "closing"
       \/ peer = "closing" /\ CloseIncoming("peer") /\ peer' = "closed"
    /\ UNCHANGED <<poller, peerOnly, peer_waking, counts>>

Next ==
    \/ MainTask \/ PollerTask \/ SenderTask \/ DropTransport \/ Shutdown
    \/ PeerReceives \/ PeerSends \/ PeerWakes \/ PeerDrops

Spec == Init /\ [][Next]_vars

\* The runtime runs every task that is ready, and select! picks at random
\* among the branches that are: a branch that is ready again and again wins.
FairSpec ==
    /\ Spec
    /\ WF_vars(MainIdle \/ EnqueuePacket \/ MainCounts \/ MainFails)
    /\ SF_vars(MainPacket) /\ SF_vars(MainStops)
    /\ WF_vars(PollerTask) /\ WF_vars(SenderTask) /\ WF_vars(DropTransport)
    /\ WF_vars(PeerReceives) /\ WF_vars(PeerWakes)
-----------------------------------------------------------------------------
\* A receiver sleeps only while nothing waits for it, or while the sender
\* that took its waker has still to call it: no interleaving of poll and
\* send loses a wake-up.
NoLostWakeup ==
    /\ poller = "parked" /\ packets["service"] # <<>> => peer_waking
    /\ peer = "parked" /\ packets["peer"] # <<>> => sender = "waking"

\* While the tasks run, every frame that came in or was produced is in a
\* queue, was handled or forwarded, or is counted as dropped or failed (one
\* may be on its way to the counter).
Counting == Cardinality({t \in {"main", "poller", "sender"} :
    \/ t = "main" /\ main = "counting"
    \/ t = "poller" /\ poller = "counting"
    \/ t = "sender" /\ sender = "counting"})
FramesAccountedFor ==
    main # "failed" /\ ~aborted /\ poller # "ended" /\ sender # "ended"
      => arrived + produced =
             Len(packets["service"]) + Len(packet_ch) + handled + Len(send_ch) + forwarded
               + transport_queue_dropped + transport_errors + Counting

\* The transport as its users see it is a bounded FIFO pipe, and a packet
\* for an end that is still read is read in the end.
Pipe == INSTANCE PacketPipe WITH
    Frames <- (1 .. MaxArrivals) \cup (1 .. MaxProduced),
    queue <- packets,
    stage <- [e \in Ends |->
        IF ~receiver_open[e] THEN "closed"
        ELSE IF e = "service" /\ poller # "ended" THEN "reading"
        ELSE IF e = "peer" /\ peer \in {"polling", "parked"} THEN "reading"
        ELSE "idle"]
ImplementsPipe == Pipe!PipeSpec

\* A service never outlives its poller: when the poller has heard the
\* shutdown, or the transport has failed, the loop ends as well.
PollerGoneEndsService == poller = "ended" ~> MainEnded

\* A service that stops without an error stops its tasks and gives up the
\* transport, so that the other end is refused.
StopReleasesTransport == main = "stopped" ~> drop_stage = "closed"
=============================================================================
