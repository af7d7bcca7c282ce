---------------------------- MODULE NonceProofs -----------------------------
(***************************************************************************)
(* The server never seals two records with one key and packet number, for *)
(* every configuration and whatever the network delivers.                 *)
(***************************************************************************)
EXTENDS ServerProofs

\* Nonces.  A record belongs to an established session and is older than
\* what its sealer will use next; the acknowledgement kept for repetition
\* is the one that was sent.
NonceInv ==
    /\ \A f \in s2c : f.type \in RecordTypes =>
           /\ f.key.session_id \in 1 .. session_ids /\ f.key.session_id \notin DOMAIN pending
           /\ f.packet_number \in Nat
           /\ f.key.session_id \in DOMAIN sessions
                => f.packet_number < sessions[f.key.session_id].next_packet_number
    /\ \A id \in DOMAIN sessions : HandshakeAck(sessions[id].key) \in s2c
    /\ ServerNonceUnique

\* A step that establishes no session and whose sealers only move forward.
SealersAdvance ==
    /\ session_ids <= session_ids'
    /\ DOMAIN pending' \cap 1 .. session_ids \subseteq DOMAIN pending
    /\ DOMAIN sessions' \subseteq DOMAIN sessions
    /\ \A id \in DOMAIN sessions' :
           /\ sessions'[id].key = sessions[id].key
           /\ sessions[id].next_packet_number <= sessions'[id].next_packet_number

\* It sends N, whose records take distinct packet numbers between the old
\* and the new position of their sealer.
Seals(N) ==
    /\ s2c' = s2c \cup N
    /\ \A f \in N : f.type \in RecordTypes =>
           /\ f.key.session_id \in DOMAIN sessions'
           /\ f.packet_number \in Nat
           /\ sessions[f.key.session_id].next_packet_number <= f.packet_number
           /\ f.packet_number < sessions'[f.key.session_id].next_packet_number
    /\ \A f, g \in N : /\ f.type \in RecordTypes /\ g.type \in RecordTypes
                       /\ f.key = g.key /\ f.packet_number = g.packet_number
                       => f = g

\* Such a step keeps nonces unique.
LEMMA SealedOK ==
    ASSUME ServerInv, ServerInv', NonceInv, SealersAdvance, NEW N, Seals(N)
    PROVE  NonceInv'
<1> USE DEF SealersAdvance, Seals
<1>1. /\ session_ids \in Nat /\ session_ids' \in Nat
      /\ DOMAIN sessions \subseteq 1 .. session_ids
      /\ DOMAIN pending' \cap DOMAIN sessions' = {}
      /\ \A id \in DOMAIN sessions' : /\ sessions[id].next_packet_number \in Nat
                                      /\ sessions'[id].next_packet_number \in Nat
  BY DEF ServerInv, Counters, SessionOK, SessionIdsExclusive
<1>2. ASSUME NEW f \in s2c', f.type \in RecordTypes
      PROVE  /\ f.key.session_id \in 1 .. session_ids' /\ f.key.session_id \notin DOMAIN pending'
             /\ f.packet_number \in Nat
             /\ f.key.session_id \in DOMAIN sessions'
                  => f.packet_number < sessions'[f.key.session_id].next_packet_number
  <2>1. CASE f \in s2c
    <3>1. /\ f.key.session_id \in 1 .. session_ids /\ f.key.session_id \notin DOMAIN pending
          /\ f.packet_number \in Nat
          /\ f.key.session_id \in DOMAIN sessions
               => f.packet_number < sessions[f.key.session_id].next_packet_number
      BY <1>2, <2>1 DEF NonceInv
    <3> QED BY <1>1, <3>1
  <2>2. CASE f \in N
    BY <1>1, <1>2, <2>2
  <2> QED BY <2>1, <2>2
<1>3. ASSUME NEW f \in s2c', NEW g \in s2c', f.type \in RecordTypes, g.type \in RecordTypes,
             f.key = g.key, f.packet_number = g.packet_number
      PROVE  f = g
  <2>1. ASSUME NEW a \in s2c, NEW b \in N, a.type \in RecordTypes, b.type \in RecordTypes,
               a.key = b.key, a.packet_number = b.packet_number
        PROVE  FALSE
    <3>1. /\ b.key.session_id \in DOMAIN sessions' /\ b.packet_number \in Nat
          /\ sessions[b.key.session_id].next_packet_number <= b.packet_number
      BY <2>1
    <3>2. a.packet_number < sessions[a.key.session_id].next_packet_number
      BY <2>1, <3>1 DEF NonceInv
    <3> QED BY <1>1, <2>1, <3>1, <3>2
  <2>2. CASE f \in s2c /\ g \in s2c
    BY <1>3, <2>2 DEF NonceInv, ServerNonceUnique
  <2>3. CASE f \in N /\ g \in N
    BY <1>3, <2>3
  <2>4. CASE f \in s2c /\ g \in N
    BY <1>3, <2>1, <2>4
  <2>5. CASE f \in N /\ g \in s2c
    BY <1>3, <2>1, <2>5
  <2> QED BY <2>2, <2>3, <2>4, <2>5
<1>4. \A id \in DOMAIN sessions' : HandshakeAck(sessions'[id].key) \in s2c'
  BY DEF NonceInv
<1>5. ServerNonceUnique'
  BY <1>3 DEF ServerNonceUnique
<1> QED BY <1>2, <1>4, <1>5 DEF NonceInv

\* The acknowledgement is the first record of its session.
LEMMA AckOK ==
    ASSUME ServerInv, ServerInv', NonceInv, NEW peer, NEW transcript,
           Establish(peer, transcript)
    PROVE  NonceInv'
<1> DEFINE id == transcript.session_id
           old == pending[id].resume_from
           ack == HandshakeAck(transcript)
<1>1. /\ id \in DOMAIN pending /\ id \in 1 .. session_ids
      /\ session_ids' = session_ids
      /\ DOMAIN pending' = DOMAIN pending \ {id}
      /\ s2c' = s2c \cup {ack}
  BY DEF Establish, Without, ToClient, ServerInv
<1>2. /\ sessions' = Put(Without(sessions, {old}), id, NewServerSession(peer, transcript, old))
  BY DEF Establish, SessionsLeft
<1>3. /\ DOMAIN sessions' \subseteq DOMAIN sessions \cup {id}
      /\ sessions'[id].key = transcript /\ sessions'[id].next_packet_number = 1
      /\ \A j \in DOMAIN sessions' : j # id => sessions'[j] = sessions[j]
  BY <1>2 DEF Put, Without, NewServerSession
<1>4. ack.type = "HandshakeAck" /\ ack.key = transcript /\ ack.packet_number = 0
  BY DEF HandshakeAck, Record
<1> HIDE DEF ack
<1>5. \A f \in s2c : f.type \in RecordTypes => f.key.session_id # id
  BY <1>1 DEF NonceInv
<1>6. ASSUME NEW f \in s2c', f.type \in RecordTypes
      PROVE  /\ f.key.session_id \in 1 .. session_ids' /\ f.key.session_id \notin DOMAIN pending'
             /\ f.packet_number \in Nat
             /\ f.key.session_id \in DOMAIN sessions'
                  => f.packet_number < sessions'[f.key.session_id].next_packet_number
  <2>1. CASE f \in s2c
    <3>1. /\ f.key.session_id \in 1 .. session_ids /\ f.key.session_id \notin DOMAIN pending
          /\ f.packet_number \in Nat
          /\ f.key.session_id \in DOMAIN sessions
               => f.packet_number < sessions[f.key.session_id].next_packet_number
      BY <1>6, <2>1 DEF NonceInv
    <3> QED BY <1>1, <1>3, <1>5, <1>6, <2>1, <3>1
  <2>2. CASE f = ack
    BY <1>1, <1>3, <1>4, <2>2
  <2> QED BY <1>1, <2>1, <2>2
<1>7. \A j \in DOMAIN sessions' : HandshakeAck(sessions'[j].key) \in s2c'
  BY <1>1, <1>3 DEF NonceInv, ack
<1>8. ServerNonceUnique'
  BY <1>1, <1>4, <1>5 DEF NonceInv, ServerNonceUnique
<1> QED BY <1>6, <1>7, <1>8 DEF NonceInv
-----------------------------------------------------------------------------
\* The other steps of the server.

\* A step that leaves the sealers alone moves none back.
LEMMA StillAdvance ==
    ASSUME ServerInv, UNCHANGED <<pending, sessions, session_ids>>
    PROVE  SealersAdvance
<1>1. session_ids \in Nat
  BY DEF ServerInv, Counters
<1>2. \A id \in DOMAIN sessions : sessions[id].next_packet_number \in Nat
  BY DEF ServerInv, SessionOK
<1> QED BY <1>1, <1>2 DEF SealersAdvance

\* A step that answers a hello, or does not, seals nothing.
LEMMA HelloSeals ==
    ASSUME ServerInv, ServerInv', NonceInv, NEW peer, NEW hello,
           HandleClientHello(peer, hello)
    PROVE  NonceInv'
<1>0. "HelloRetry" \notin RecordTypes /\ "ServerHello" \notin RecordTypes
  BY DEF RecordTypes
<1>1. CASE SendHelloRetry(peer, hello)
  <2>1. PICK f : f.type = "HelloRetry" /\ s2c' = s2c \cup {f}
    BY <1>1 DEF SendHelloRetry, ToClient, RetryFrame
  <2>2. SealersAdvance
    BY <1>1, StillAdvance DEF SendHelloRetry, HandleClientHello
  <2>3. Seals({f})
    BY <1>0, <2>1 DEF Seals
  <2> QED BY <2>2, <2>3, SealedOK
<1>2. CASE RepeatServerHello(peer, hello)
  <2>1. PICK f : f.type = "ServerHello" /\ s2c' = s2c \cup {f}
    BY <1>2 DEF RepeatServerHello, ToClient, ServerHelloFrame
  <2>2. SealersAdvance
    BY <1>2, StillAdvance DEF RepeatServerHello, HandleClientHello
  <2>3. Seals({f})
    BY <1>0, <2>1 DEF Seals
  <2> QED BY <2>2, <2>3, SealedOK
<1>3. CASE OpenPending(peer, hello)
  <2> DEFINE t == Transcript(hello, session_ids + 1, ResumeFrom(hello.resumption) # None)
             f == ServerHelloFrame(t)
  <2>1. f.type = "ServerHello" /\ s2c' = s2c \cup {f}
    BY <1>3 DEF OpenPending, ToClient, ServerHelloFrame
  <2>2. /\ DOMAIN pending' = DOMAIN pending \cup {session_ids + 1}
        /\ session_ids' = session_ids + 1 /\ session_ids \in Nat
        /\ sessions' = sessions
    BY <1>3 DEF OpenPending, Put, HandleClientHello, ServerInv, Counters
  <2>3. \A id \in DOMAIN sessions : sessions[id].next_packet_number \in Nat
    BY DEF ServerInv, SessionOK
  <2> HIDE DEF f
  <2>4. SealersAdvance
    BY <2>2, <2>3 DEF SealersAdvance
  <2>5. Seals({f})
    BY <1>0, <2>1 DEF Seals
  <2> QED BY <2>4, <2>5, SealedOK
<1>4. CASE ToClient({}) /\ UNCHANGED <<pending, session_ids>>
  <2>1. SealersAdvance
    BY <1>4, StillAdvance DEF HandleClientHello
  <2>2. Seals({})
    BY <1>4 DEF ToClient, Seals
  <2> QED BY <2>1, <2>2, SealedOK
<1> QED BY <1>1, <1>2, <1>3, <1>4 DEF HandleClientHello

\* A repeated finish gets the acknowledgement that was sent before.
LEMMA RepeatAckSeals ==
    ASSUME ServerInv, NonceInv, NEW peer, NEW transcript, RepeatAck(peer, transcript)
    PROVE  NonceInv'
<1>1. s2c' = s2c /\ UNCHANGED <<pending, sessions, session_ids>>
  BY DEF RepeatAck, ToClient, serverState, NonceInv
<1> QED BY <1>1 DEF NonceInv, ServerNonceUnique

\* Opening a record without answering it.
LEMMA QuietRecordSeals ==
    ASSUME ServerInv, ServerInv', NonceInv, NEW peer, NEW frame,
           HandleResumeConversation(peer, frame) \/ RefuseData(peer, frame)
    PROVE  NonceInv'
<1> DEFINE id == frame.key.session_id
           o == Opened(frame)
<1>1. /\ id \in DOMAIN sessions
      /\ \E h : sessions' = [sessions EXCEPT ![id] = [o EXCEPT !.handles = h]]
                \/ sessions' = [sessions EXCEPT ![id] = o]
      /\ UNCHANGED <<pending, session_ids>> /\ s2c' = s2c \cup {}
  BY DEF HandleResumeConversation, RefuseData, ServerOpens, CommitSession, ToClient
<1>2. /\ DOMAIN o = SessionFields
      /\ o.key = sessions[id].key /\ o.next_packet_number = sessions[id].next_packet_number
  BY <1>1, OpenedOK DEF SessionOK
<1> HIDE DEF o, id
<1>3. /\ DOMAIN sessions' = DOMAIN sessions
      /\ \A j \in DOMAIN sessions :
             /\ sessions'[j].key = sessions[j].key
             /\ sessions'[j].next_packet_number = sessions[j].next_packet_number
  BY <1>1, <1>2 DEF SessionFields
<1>4. /\ session_ids \in Nat
      /\ \A j \in DOMAIN sessions : sessions[j].next_packet_number \in Nat
  BY DEF ServerInv, Counters, SessionOK
<1>5. SealersAdvance
  BY <1>1, <1>3, <1>4 DEF SealersAdvance
<1>6. Seals({})
  BY <1>1 DEF Seals
<1> QED BY <1>5, <1>6, SealedOK

\* The credentials take consecutive packet numbers.
LEMMA DeliverSeals ==
    ASSUME ServerInv, ServerInv', NonceInv, NEW peer, NEW frame, DeliverData(peer, frame)
    PROVE  NonceInv'
<1> DEFINE id == frame.key.session_id
           s == Touched(frame)
<1>1. PICK order \in SetToSeqs(ToCredit(frame)) :
          /\ CommitSession(frame, [s EXCEPT
                 !.next_packet_number = @ + Len(order),
                 !.credential_expires_at = IF RefreshDue(s) THEN now + ResumptionLifetime ELSE @])
          /\ ToClient({CredentialRecord(s, order, i) : i \in DOMAIN order})
  BY DEF DeliverData
<1> DEFINE new == [s EXCEPT
                 !.next_packet_number = @ + Len(order),
                 !.credential_expires_at = IF RefreshDue(s) THEN now + ResumptionLifetime ELSE @]
           N == {CredentialRecord(s, order, i) : i \in DOMAIN order}
           n == IF KnowsHandle(frame) THEN server_ids ELSE server_ids + 1
<1>2. /\ id \in DOMAIN sessions /\ sessions' = [sessions EXCEPT ![id] = new]
      /\ UNCHANGED <<pending, session_ids>> /\ s2c' = s2c \cup N
  BY <1>1 DEF DeliverData, ServerOpens, CommitSession, ToClient
<1>3. n \in Nat /\ session_ids \in Nat
  BY DEF ServerInv, Counters
<1>4. /\ SessionOK(id, s, n, now) /\ s.key = sessions[id].key
      /\ s.next_packet_number = sessions[id].next_packet_number
  BY <1>2, <1>3, TouchedOK
<1>5. Len(order) \in Nat /\ DOMAIN order = 1 .. Len(order)
  BY <1>1, <1>3, <1>4, CreditedFinite
<1>6. \A i \in DOMAIN order :
          LET f == CredentialRecord(s, order, i)
          IN  f.key = s.key /\ f.packet_number = s.next_packet_number + i - 1
  BY DEF CredentialRecord, Record
<1> HIDE DEF s, id, n
<1>7. s.next_packet_number \in Nat /\ s.key.session_id = id
  BY <1>4 DEF SessionOK
<1>8. new.key = s.key /\ new.next_packet_number = s.next_packet_number + Len(order)
  BY <1>4 DEF SessionOK, SessionFields
<1> HIDE DEF new
<1>9. /\ DOMAIN sessions' = DOMAIN sessions
      /\ \A j \in DOMAIN sessions :
             /\ sessions'[j].key = sessions[j].key
             /\ sessions[j].next_packet_number \in Nat
             /\ sessions[j].next_packet_number <= sessions'[j].next_packet_number
      /\ sessions'[id].next_packet_number = s.next_packet_number + Len(order)
  <2>1. \A j \in DOMAIN sessions : sessions[j].next_packet_number \in Nat
    BY DEF ServerInv, SessionOK
  <2> QED BY <1>2, <1>4, <1>5, <1>7, <1>8, <2>1
<1>10. \A f \in N : /\ f.key.session_id \in DOMAIN sessions' /\ f.packet_number \in Nat
                    /\ sessions[f.key.session_id].next_packet_number <= f.packet_number
                    /\ f.packet_number < sessions'[f.key.session_id].next_packet_number
  <2> SUFFICES ASSUME NEW i \in 1 .. Len(order)
               PROVE  LET f == CredentialRecord(s, order, i)
                      IN  /\ f.key.session_id \in DOMAIN sessions' /\ f.packet_number \in Nat
                          /\ sessions[f.key.session_id].next_packet_number <= f.packet_number
                          /\ f.packet_number < sessions'[f.key.session_id].next_packet_number
    BY <1>5
  <2>1. /\ CredentialRecord(s, order, i).key.session_id = id
        /\ CredentialRecord(s, order, i).packet_number = s.next_packet_number + i - 1
    BY <1>5, <1>6, <1>7
  <2> QED BY <1>2, <1>4, <1>5, <1>7, <1>9, <2>1
<1>11. \A f, g \in N : f.packet_number = g.packet_number => f = g
  <2> SUFFICES ASSUME NEW i \in 1 .. Len(order), NEW j \in 1 .. Len(order),
                      CredentialRecord(s, order, i).packet_number
                        = CredentialRecord(s, order, j).packet_number
               PROVE  i = j
    BY <1>5
  <2> QED BY <1>5, <1>6, <1>7
<1> HIDE DEF N
<1>12. SealersAdvance
  BY <1>2, <1>3, <1>9 DEF SealersAdvance
<1>13. Seals(N)
  BY <1>2, <1>10, <1>11 DEF Seals
<1> QED BY <1>12, <1>13, SealedOK

\* A datagram from upstream takes the next packet number.
LEMMA UpstreamSeals ==
    ASSUME ServerInv, ServerInv', NonceInv, NEW id \in DOMAIN sessions, NEW c,
           HandleUpstream(id, c)
    PROVE  NonceInv'
<1> DEFINE s == sessions[id]
<1>1. PICK f : /\ f.key = s.key /\ f.packet_number = s.next_packet_number
               /\ s2c' = s2c \cup {f}
  BY DEF HandleUpstream, ToClient, Record
<1>2. /\ \A j \in DOMAIN sessions : DOMAIN sessions[j] = SessionFields
                                     /\ sessions[j].next_packet_number \in Nat
      /\ s.key.session_id = id /\ session_ids \in Nat
  BY DEF ServerInv, Counters, SessionOK
<1>3. /\ sessions' = [sessions EXCEPT ![id].last_activity = now,
                                      ![id].next_packet_number = @ + 1]
      /\ UNCHANGED <<pending, session_ids>>
  BY DEF HandleUpstream
<1>4. /\ DOMAIN sessions' = DOMAIN sessions
      /\ sessions'[id].key = s.key
      /\ sessions'[id].next_packet_number = s.next_packet_number + 1
      /\ \A j \in DOMAIN sessions : j # id => sessions'[j] = sessions[j]
  BY <1>2, <1>3 DEF SessionFields
<1>5. SealersAdvance
  BY <1>2, <1>3, <1>4 DEF SealersAdvance
<1>6. Seals({f})
  BY <1>1, <1>2, <1>4 DEF Seals
<1> QED BY <1>5, <1>6, SealedOK

\* Closing and expiring take sessions and conversations away.
LEMMA ShrinkSeals ==
    ASSUME ServerInv, ServerInv', NonceInv,
           ServerExpire \/ \E id \in DOMAIN sessions : \E c : ServerClose(id, c)
    PROVE  NonceInv'
<1>1. /\ s2c' = s2c \cup {} /\ session_ids' = session_ids /\ session_ids \in Nat
      /\ DOMAIN pending' \subseteq DOMAIN pending
  BY DEF ServerExpire, ServerClose, ToClient, Without, ServerInv, Counters
<1>2. /\ DOMAIN sessions' \subseteq DOMAIN sessions
      /\ \A id \in DOMAIN sessions' :
             /\ sessions'[id].key = sessions[id].key
             /\ sessions'[id].next_packet_number = sessions[id].next_packet_number
  <2>1. CASE ServerExpire
    <3>1. /\ DOMAIN sessions' \subseteq DOMAIN Live
          /\ \A id \in DOMAIN sessions' : sessions'[id] = Live[id]
      BY <2>1 DEF ServerExpire, Without
    <3> QED BY <3>1, LiveOK
  <2>2. ASSUME NEW id \in DOMAIN sessions, NEW c, ServerClose(id, c)
        PROVE  /\ DOMAIN sessions' \subseteq DOMAIN sessions
               /\ \A j \in DOMAIN sessions' :
                      /\ sessions'[j].key = sessions[j].key
                      /\ sessions'[j].next_packet_number = sessions[j].next_packet_number
    <3>1. sessions' = [sessions EXCEPT ![id] = DropConversations(sessions[id], {c})]
      BY <2>2 DEF ServerClose
    <3>2. SessionOK(id, sessions[id], server_ids, now)
      BY DEF ServerInv
    <3>3. LET d == DropConversations(sessions[id], {c})
          IN  /\ d.key = sessions[id].key
              /\ d.next_packet_number = sessions[id].next_packet_number
      BY <3>2, DroppedOK
    <3> QED BY <3>1, <3>3
  <2> QED BY <2>1, <2>2
<1>3. \A id \in DOMAIN sessions : sessions[id].next_packet_number \in Nat
  BY DEF ServerInv, SessionOK
<1>4. SealersAdvance
  BY <1>1, <1>2, <1>3 DEF SealersAdvance
<1>5. Seals({})
  BY <1>1 DEF Seals
<1> QED BY <1>4, <1>5, SealedOK

\* Every step keeps the invariant.
LEMMA NonceStepOK ==
    ASSUME ServerInv, ServerInv', NonceInv, [Next]_vars
    PROVE  NonceInv'
<1>1. CASE ClientStep
  <2>1. s2c' = s2c
    BY <1>1, ClientOnlySends
  <2>2. UNCHANGED <<pending, sessions, session_ids>>
    BY <1>1 DEF ClientStep, serverVars, serverState
  <2> QED BY <2>1, <2>2 DEF NonceInv, ServerNonceUnique
<1>2. CASE NetworkStep \/ UNCHANGED vars
  <2>1. UNCHANGED <<s2c, pending, sessions, session_ids>>
    BY <1>2 DEF NetworkStep, Tick, ChangePath, vars, network, serverVars, serverState
  <2> QED BY <2>1 DEF NonceInv, ServerNonceUnique
<1>3. CASE ServerStep
  <2>1. ASSUME NEW peer, NEW frame, RefreshPanics(peer, frame) PROVE NonceInv'
    <3>1. SealersAdvance
      BY <2>1, StillAdvance DEF RefreshPanics
    <3>2. Seals({})
      BY <2>1 DEF RefreshPanics, ToClient, Seals
    <3> QED BY <3>1, <3>2, SealedOK
  <2> QED BY <1>3, <2>1, HelloSeals, RepeatAckSeals, AckOK, QuietRecordSeals, DeliverSeals,
             UpstreamSeals, ShrinkSeals
          DEF ServerStep, ServerNext, ServerHandleTunnel, HandleClientFinish, HandleRecord
<1> QED BY <1>1, <1>2, <1>3 DEF Next

\* The sealer of a session, the acknowledgement kept for repetition and the
\* replacement of sessions never make ServerEngine use a nonce twice.
THEOREM ServerNonces == Spec => []ServerNonceUnique
<1>1. Init => NonceInv
  BY DEF Init, NetworkInit, ServerInit, NonceInv, ServerNonceUnique, EmptyMap
<1>2. NonceInv => ServerNonceUnique
  BY DEF NonceInv
<1> QED BY <1>1, <1>2, NonceStepOK, ServerInvariance, PTL DEF Spec
=============================================================================
