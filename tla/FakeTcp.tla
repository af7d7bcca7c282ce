------------------------------ MODULE FakeTcp -------------------------------
(***************************************************************************)
(* The FakeTCP transport of linux.rs: a client and a server, each with a  *)
(* host that calls send and poll_receive and a thread that receives raw   *)
(* segments, on a network that loses, repeats and reorders them.  The     *)
(* client may be restarted on the same address, and the kernel of either  *)
(* machine may send a reset.                                              *)
(*                                                                         *)
(* A raw send is one step with the locked section before it: a delay      *)
(* between the two, or an error of the raw socket, is one of the network. *)
(***************************************************************************)
EXTENDS Maps, SequencesExt

CONSTANTS None,
          Modulus,          \* of sequence numbers, 2^32 in the code
          InitialSequence,  \* end -> the random numbers drawn for its paths, in order
          QueueCapacity,
          MaxFrames,        \* bound: end -> frames its host hands to one path
          MaxResets         \* bound: resets sent by the kernels

Ends == {"client", "server"}
Other(e) == CHOOSE o \in Ends : o # e
FrameLength(frame) == 1 + (frame.number % 2)
Bytes(frames) == FoldLeft(LAMBDA n, frame : n + FrameLength(frame), 0, frames)
wrapping_add(a, b) == (a + b) % Modulus

\* Frames of one path stay within half the space, and two paths of an end
\* draw numbers that are further apart than what they send.
ASSUME FakeTcpAssumption ==
    /\ {Modulus, QueueCapacity, MaxResets} \subseteq Nat
    /\ MaxFrames \in [Ends -> Nat]
    /\ \A e \in Ends : 4 * MaxFrames[e] < Modulus
    /\ \A e \in Ends : \A i, j \in DOMAIN InitialSequence[e] :
           i # j => \A n \in 0 .. 2 * MaxFrames[e] + 1 :
               wrapping_add(InitialSequence[e][i], n) # InitialSequence[e][j]

VARIABLES path,             \* end -> its path to the other end, or None
          incoming,         \* end -> frames waiting for the host
          pending_packets,  \* end -> segments queued for the next call
          receiver_waker,   \* end -> whether the host left a waker
          parked,           \* end -> whether the host waits for it
          call,             \* end -> the call of the host that has flushed
          opened,           \* end -> paths opened so far
          net,              \* every segment ever sent
          resets            \* resets sent so far

ends == <<path, incoming, pending_packets, receiver_waker, parked, call, opened>>
vars == <<ends, net, resets>>

Segment(e, flags, sequence, acknowledgement, frame) ==
    [to |-> Other(e), flags |-> flags, sequence |-> sequence,
     acknowledgement |-> acknowledgement, frame |-> frame]

\* number, sequenced and accepted are history: which path of its end this
\* is, the frames that were given sequence numbers, those that were taken.
NewPath(phase, number, isn, expected) ==
    [phase |-> phase, next_sequence |-> wrapping_add(isn, 1), expected_sequence |-> expected,
     pending_frames |-> <<>>, number |-> number, sequenced |-> <<>>, accepted |-> <<>>]

ClientPath(number) == NewPath("ClientSynSent", number, InitialSequence["client"][number], 0)
Syn(number) == Segment("client", "SYN", InitialSequence["client"][number], 0, None)

\* open, at both ends.
Init ==
    /\ path = [e \in Ends |-> IF e = "client" THEN ClientPath(1) ELSE None]
    /\ incoming = [e \in Ends |-> <<>>]
    /\ pending_packets = [e \in Ends |-> IF e = "client" THEN <<Syn(1)>> ELSE <<>>]
    /\ receiver_waker = [e \in Ends |-> FALSE]
    /\ parked = [e \in Ends |-> FALSE]
    /\ call = [e \in Ends |-> "none"]
    /\ opened = [e \in Ends |-> IF e = "client" THEN 1 ELSE 0]
    /\ net = {}
    /\ resets = 0

\* The client is restarted on the same address.
Reopen ==
    LET number == opened["client"] + 1
    IN  /\ number \in DOMAIN InitialSequence["client"]
        /\ path' = [path EXCEPT !["client"] = ClientPath(number)]
        /\ incoming' = [incoming EXCEPT !["client"] = <<>>]
        /\ pending_packets' = [pending_packets EXCEPT !["client"] = <<Syn(number)>>]
        /\ receiver_waker' = [receiver_waker EXCEPT !["client"] = FALSE]
        /\ parked' = [parked EXCEPT !["client"] = FALSE]
        /\ call' = [call EXCEPT !["client"] = "none"]
        /\ opened' = [opened EXCEPT !["client"] = number]
        /\ UNCHANGED <<net, resets>>
-----------------------------------------------------------------------------
\* The host.  Both calls flush first and then take the lock again; the
\* receiver thread may run in between.

FlushPending(e) ==
    /\ net' = net \cup Range(pending_packets[e])
    /\ pending_packets' = [pending_packets EXCEPT ![e] = <<>>]

BeginSend(e) ==
    /\ call[e] = "none"
    /\ path[e] # None => Len(path[e].sequenced \o path[e].pending_frames) < MaxFrames[e]
    /\ FlushPending(e)
    /\ call' = [call EXCEPT ![e] = "send"]
    /\ UNCHANGED <<path, incoming, receiver_waker, parked, opened, resets>>

NextFrame(p) == [path |-> p.number, number |-> Len(p.sequenced \o p.pending_frames) + 1]

\* Mutant: the number moves by one, as for a flag.
SequencedByOne(p, frames) ==
    [p EXCEPT !.next_sequence = wrapping_add(@, Len(frames)),
              !.sequenced = @ \o frames, !.pending_frames = <<>>]

\* The path after it has given sequence numbers to these frames.
Sequenced(p, frames) ==
    [p EXCEPT !.next_sequence = wrapping_add(@, Bytes(frames)),
              !.sequenced = @ \o frames, !.pending_frames = <<>>]

\* The segments that carry them.
DataSegments(e, p, frames) ==
    [i \in DOMAIN frames |->
        Segment(e, "PSH", wrapping_add(p.next_sequence, Bytes(SubSeq(frames, 1, i - 1))),
                p.expected_sequence, frames[i])]

SendPending(e) ==
    /\ path[e].phase # "Established"
    /\ \/ /\ Len(path[e].pending_frames) < QueueCapacity
          /\ path' = [path EXCEPT ![e].pending_frames = Append(@, NextFrame(path[e]))]
       \/ Len(path[e].pending_frames) >= QueueCapacity /\ UNCHANGED path
    /\ UNCHANGED net

SendEstablished(e) ==
    LET frames == <<NextFrame(path[e])>>
    IN  /\ path[e].phase = "Established"
        /\ path' = [path EXCEPT ![e] = Sequenced(@, frames)]
        /\ net' = net \cup Range(DataSegments(e, path[e], frames))

FinishSend(e) ==
    /\ call[e] = "send"
    /\ call' = [call EXCEPT ![e] = "none"]
    /\ IF path[e] = None THEN UNCHANGED <<path, net>> ELSE SendPending(e) \/ SendEstablished(e)
    /\ UNCHANGED <<incoming, pending_packets, receiver_waker, parked, opened, resets>>

BeginPoll(e) ==
    /\ call[e] = "none" /\ ~parked[e]
    /\ FlushPending(e)
    /\ call' = [call EXCEPT ![e] = "poll"]
    /\ UNCHANGED <<path, incoming, receiver_waker, parked, opened, resets>>

FinishPoll(e) ==
    /\ call[e] = "poll"
    /\ call' = [call EXCEPT ![e] = "none"]
    /\ IF incoming[e] # <<>>
       THEN /\ incoming' = [incoming EXCEPT ![e] = Tail(@)]
            /\ UNCHANGED <<receiver_waker, parked>>
       ELSE /\ receiver_waker' = [receiver_waker EXCEPT ![e] = TRUE]
            /\ parked' = [parked EXCEPT ![e] = TRUE]
            /\ UNCHANGED incoming
    /\ UNCHANGED <<path, pending_packets, opened, net, resets>>
-----------------------------------------------------------------------------
\* handle_incoming, by the receiver thread.

Queue(e, segments) == pending_packets' = [pending_packets EXCEPT ![e] = @ \o segments]

\* The waker is taken and called.
Wake(e) ==
    /\ receiver_waker' = [receiver_waker EXCEPT ![e] = FALSE]
    /\ parked' = [parked EXCEPT ![e] = parked[e] /\ ~receiver_waker[e]]

Ack(e, p) == <<Segment(e, "ACK", p.next_sequence, p.expected_sequence, None)>>

\* A source the server does not know.  (From one it knows a SYN is ignored.)
HandleSyn(segment) ==
    LET number == opened["server"] + 1
        isn == InitialSequence["server"][number]
        expected == wrapping_add(segment.sequence, 1)
    IN  /\ segment.to = "server" /\ segment.flags = "SYN"
        /\ path["server"] = None
        /\ number \in DOMAIN InitialSequence["server"]
        /\ opened' = [opened EXCEPT !["server"] = number]
        /\ path' = [path EXCEPT !["server"] = NewPath("ServerSynAckSent", number, isn, expected)]
        /\ Queue("server", <<Segment("server", "SYN|ACK", isn, expected, None)>>)
        /\ Wake("server")
        /\ UNCHANGED <<incoming, call, net, resets>>

AnswersSyn(p, segment) ==
    /\ p # None
    /\ p.phase = "ClientSynSent"
    /\ segment.flags = "SYN|ACK"
    /\ segment.acknowledgement = p.next_sequence

HandleSynAck(segment) ==
    LET p == [path["client"] EXCEPT !.expected_sequence = wrapping_add(segment.sequence, 1),
                                    !.phase = "Established"]
    IN  /\ segment.to = "client"
        /\ AnswersSyn(path["client"], segment)
        /\ path' = [path EXCEPT !["client"] = Sequenced(p, p.pending_frames)]
        /\ Queue("client", Ack("client", p) \o DataSegments("client", p, p.pending_frames))
        /\ Wake("client")
        /\ UNCHANGED <<incoming, call, opened, net, resets>>

\* A segment that fits the sequence numbers exactly.
InSequence(p, segment) ==
    /\ segment.sequence = p.expected_sequence
    /\ segment.acknowledgement = p.next_sequence

EstablishedServer(p) == Sequenced([p EXCEPT !.phase = "Established"], p.pending_frames)

\* Mutant: any acknowledgement completes the handshake.
AnswersSynAckAny(p, segment) == p # None /\ p.phase = "ServerSynAckSent" /\ segment.flags = "ACK"

AnswersSynAck(p, segment) ==
    /\ p # None
    /\ p.phase = "ServerSynAckSent"
    /\ segment.flags = "ACK"
    /\ InSequence(p, segment)

\* The third segment of the handshake.  The host is not woken.
HandleAck(segment) ==
    LET p == path["server"]
    IN  /\ segment.to = "server"
        /\ AnswersSynAck(p, segment)
        /\ path' = [path EXCEPT !["server"] = EstablishedServer(p)]
        /\ Queue("server", DataSegments("server", p, p.pending_frames))
        /\ UNCHANGED <<incoming, receiver_waker, parked, call, opened, net, resets>>

HandleReset(e, segment) ==
    /\ segment.to = e /\ segment.flags = "RST"
    /\ path[e] # None
    /\ path[e].phase = "Established"
    /\ path' = [path EXCEPT ![e] = None]
    /\ UNCHANGED <<incoming, pending_packets, receiver_waker, parked, call, opened, net, resets>>

\* Mutant: the waker is forgotten.
AcceptDataSilently(e, segment, p) ==
    /\ path' = [path EXCEPT ![e] = p]
    /\ Queue(e, Ack(e, p))
    /\ incoming' = [incoming EXCEPT ![e] = Append(@, segment.frame)]
    /\ UNCHANGED <<receiver_waker, parked>>

AcceptData(e, segment, p) ==
    /\ path' = [path EXCEPT ![e] = p]
    /\ Queue(e, Ack(e, p))
    /\ incoming' = [incoming EXCEPT ![e] = Append(@, segment.frame)]
    /\ Wake(e)

\* Mutant: a repeated segment is taken again.
FitsLoosely(p, segment) == segment.acknowledgement = p.next_sequence

Fits(p, segment) == InSequence(p, segment)

\* Mutant: off by one.
InboundRoomOffByOne(e) == Len(incoming[e]) <= QueueCapacity

InboundRoom(e) == Len(incoming[e]) < QueueCapacity

\* Data in sequence, when there is room; anything else is dropped.
HandleData(e, segment) ==
    /\ segment.to = e /\ segment.flags = "PSH"
    /\ path[e] # None
    /\ path[e].phase = "Established"
    /\ Fits(path[e], segment)
    /\ InboundRoom(e)
    /\ AcceptData(e, segment, [path[e] EXCEPT
           !.expected_sequence = wrapping_add(@, FrameLength(segment.frame)),
           !.accepted = Append(@, segment.frame)])
    /\ UNCHANGED <<call, opened, net, resets>>
-----------------------------------------------------------------------------
\* The kernel behind the other end does not know the connection.
KernelReset(e) ==
    /\ resets < MaxResets
    /\ resets' = resets + 1
    /\ net' = net \cup {Segment(e, "RST", 0, 0, None)}
    /\ UNCHANGED ends

HandleIncoming(segment) ==
    \/ HandleSyn(segment) \/ HandleSynAck(segment) \/ HandleAck(segment)
    \/ \E e \in Ends : HandleReset(e, segment) \/ HandleData(e, segment)

Next ==
    \/ \E e \in Ends : BeginSend(e) \/ FinishSend(e) \/ BeginPoll(e) \/ FinishPoll(e)
    \/ \E segment \in net : HandleIncoming(segment)
    \/ Reopen
    \/ \E e \in Ends : KernelReset(e)

Spec == Init /\ [][Next]_vars
-----------------------------------------------------------------------------
Sequence == 0 .. Modulus - 1

\* The types of the variables, and the bounds of the queues.
TypeOK ==
    /\ \A e \in Ends :
           /\ Len(incoming[e]) <= QueueCapacity
           /\ call[e] \in {"none", "send", "poll"}
           /\ parked[e] => receiver_waker[e]
           /\ path[e] # None =>
                  /\ path[e].phase \in {"ClientSynSent", "ServerSynAckSent", "Established"}
                  /\ {path[e].next_sequence, path[e].expected_sequence} \subseteq Sequence
                  /\ Len(path[e].pending_frames) <= QueueCapacity
    /\ resets \in 0 .. MaxResets

\* On one path the host gets the frames of one path of the other end, from
\* the first one on, in order, without gaps and once each, whatever the
\* network repeats or reorders and across restarts and resets.
FramesInOrder ==
    \A e \in Ends : path[e] # None =>
        \A i \in DOMAIN path[e].accepted :
            /\ path[e].accepted[i].number = i
            /\ path[e].accepted[i].path = path[e].accepted[1].path

\* q is the path the server opened for the SYN of client path p.
OpenedFor(q, p) ==
    /\ p # None /\ q # None
    /\ \E segment \in net :
           /\ segment.flags = "SYN|ACK"
           /\ segment.sequence = InitialSequence["server"][q.number]
           /\ segment.acknowledgement = wrapping_add(InitialSequence["client"][p.number], 1)

\* Between established ends the difference of the sequence numbers is what
\* was sent and not accepted, also where the numbers wrap.
SequencesAgree ==
    LET p == path["client"]
        q == path["server"]
        Agree(x, y) == x.next_sequence = wrapping_add(y.expected_sequence,
                           Bytes(SubSeq(x.sequenced, Len(y.accepted) + 1, Len(x.sequenced))))
    IN  OpenedFor(q, p) /\ q.phase = "Established" => Agree(p, q) /\ Agree(q, p)

\* A host sleeps only while no frame waits for it.
ParkedOnlyWhenEmpty == \A e \in Ends : parked[e] => incoming[e] = <<>>

\* A server considers a path established only if the client of that path
\* does, unless that client has been restarted or reset since.
EstablishedTogether ==
    OpenedFor(path["server"], path["client"]) /\ path["server"].phase = "Established"
        => path["client"].phase = "Established"
=============================================================================
