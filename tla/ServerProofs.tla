---------------------------- MODULE ServerProofs ----------------------------
(***************************************************************************)
(* What ServerEngine keeps, for every configuration and for whatever      *)
(* frames the network delivers to it: nothing here depends on what the    *)
(* client sends.                                                          *)
(***************************************************************************)
EXTENDS Tunnel, FiniteSetTheorems, TLAPS

\* The handles of a session are inverse maps to conversations among ids.
HandlesOK(h, ids) ==
    /\ DOMAIN h = {"by_handle", "by_id", "next_handle"}
    /\ MutuallyInverse(h)
    /\ DOMAIN h.by_id \subseteq ids

SessionFields == {"peer", "key", "next_packet_number", "replay", "conversations",
                  "handles", "resumed_from", "credential_expires_at", "last_activity"}

\* Conversations are generated ids, last used no later than t.
ConversationsOK(conversations, n, t) ==
    /\ DOMAIN conversations \subseteq 1 .. n
    /\ \A id \in DOMAIN conversations : conversations[id] \in Nat /\ conversations[id] <= t

SessionOK(session_id, s, n, t) ==
    /\ DOMAIN s = SessionFields
    /\ s.key.session_id = session_id
    /\ s.next_packet_number \in Nat
    /\ s.last_activity \in Nat /\ s.last_activity <= t
    /\ ConversationsOK(s.conversations, n, s.last_activity)
    /\ HandlesOK(s.handles, DOMAIN s.conversations)

Counters == now \in Nat /\ session_ids \in Nat /\ server_ids \in Nat

ServerInv ==
    /\ Counters
    /\ DOMAIN pending \cup DOMAIN sessions \cup DOMAIN resumable \subseteq 1 .. session_ids
    /\ \A id \in DOMAIN sessions : SessionOK(id, sessions[id], server_ids, now)
    /\ \A id \in DOMAIN resumable :
           ConversationsOK(resumable[id].conversations, server_ids, now)
    /\ SessionIdsExclusive
    /\ ConversationOwnedOnce
    /\ RecoveryWindowUnused
-----------------------------------------------------------------------------
\* A fresh session has no handles.
LEMMA NoHandlesOK == ASSUME NEW ids PROVE HandlesOK(NoHandles, ids)
BY DEF HandlesOK, NoHandles, MutuallyInverse, EmptyMap

\* bind keeps the maps inverse, when both sides are free.
LEMMA BoundOK ==
    ASSUME NEW h, NEW ids, HandlesOK(h, ids), NEW handle, NEW id \in ids,
           CanBind(h, handle, id)
    PROVE  HandlesOK(Bound(h, handle, id), ids)
<1> DEFINE b == Bound(h, handle, id)
<1>1. /\ DOMAIN b = DOMAIN h
      /\ b.by_handle = Put(h.by_handle, handle, id)
      /\ b.by_id = Put(h.by_id, id, handle)
  BY DEF Bound, HandlesOK
<1>2. handle \notin DOMAIN h.by_handle /\ id \notin DOMAIN h.by_id
  BY DEF CanBind
<1>3. /\ DOMAIN b.by_handle = DOMAIN h.by_handle \cup {handle}
      /\ b.by_handle[handle] = id
      /\ \A k \in DOMAIN h.by_handle : b.by_handle[k] = h.by_handle[k]
  BY <1>1, <1>2 DEF Put
<1>4. /\ DOMAIN b.by_id = DOMAIN h.by_id \cup {id}
      /\ b.by_id[id] = handle
      /\ \A k \in DOMAIN h.by_id : b.by_id[k] = h.by_id[k]
  BY <1>1, <1>2 DEF Put
<1> HIDE DEF b
<1>5. MutuallyInverse(b)
  BY <1>2, <1>3, <1>4 DEF HandlesOK, MutuallyInverse
<1> QED BY <1>1, <1>4, <1>5 DEF HandlesOK, b

\* remove keeps the maps inverse, and no handle of a removed id is left.
LEMMA RemovedOK ==
    ASSUME NEW h, NEW ids, HandlesOK(h, ids), NEW gone
    PROVE  HandlesOK(RemoveIds(h, gone), ids \ gone)
<1> DEFINE r == RemoveIds(h, gone)
           handles == {h.by_id[id] : id \in gone \cap DOMAIN h.by_id}
<1>1. /\ DOMAIN r = DOMAIN h
      /\ r.by_handle = Without(h.by_handle, handles)
      /\ r.by_id = Without(h.by_id, gone)
  BY DEF RemoveIds, HandlesOK
<1>2. /\ DOMAIN r.by_handle = DOMAIN h.by_handle \ handles
      /\ \A k \in DOMAIN r.by_handle : r.by_handle[k] = h.by_handle[k]
  BY <1>1 DEF Without
<1>3. /\ DOMAIN r.by_id = DOMAIN h.by_id \ gone
      /\ \A k \in DOMAIN r.by_id : r.by_id[k] = h.by_id[k]
  BY <1>1 DEF Without
<1> HIDE DEF r
<1>4. MutuallyInverse(r)
  BY <1>2, <1>3 DEF HandlesOK, MutuallyInverse
<1> QED BY <1>1, <1>3, <1>4 DEF HandlesOK, r
-----------------------------------------------------------------------------
\* Opening a record touches the session and nothing it owns.
LEMMA OpenedOK ==
    ASSUME ServerInv, NEW frame, frame.key.session_id \in DOMAIN sessions
    PROVE  LET s == sessions[frame.key.session_id]
               o == Opened(frame)
           IN  /\ SessionOK(frame.key.session_id, o, server_ids, now)
               /\ o.conversations = s.conversations /\ o.handles = s.handles
               /\ o.key = s.key /\ o.next_packet_number = s.next_packet_number
               /\ o.last_activity = now
<1> DEFINE s == sessions[frame.key.session_id]
           o == Opened(frame)
<1>1. SessionOK(frame.key.session_id, s, server_ids, now) /\ now \in Nat
  BY DEF ServerInv, Counters
<1>2. /\ DOMAIN o = SessionFields
      /\ o.conversations = s.conversations /\ o.handles = s.handles
      /\ o.key = s.key /\ o.next_packet_number = s.next_packet_number
      /\ o.last_activity = now
  BY <1>1 DEF Opened, MarkOpened, SessionOK, SessionFields
<1> HIDE DEF o, s
<1>3. SessionOK(frame.key.session_id, o, server_ids, now)
  BY <1>1, <1>2 DEF SessionOK, ConversationsOK
<1> QED BY <1>2, <1>3 DEF o, s

\* Replacing one session by a well-formed one that owns the same
\* conversations, fewer, or new ones, keeps the invariant.
LEMMA UpdateOK ==
    ASSUME ServerInv, NEW id \in DOMAIN sessions, NEW new,
           sessions' = [sessions EXCEPT ![id] = new],
           SessionOK(id, new, server_ids', now),
           server_ids' \in Nat, server_ids <= server_ids',
           DOMAIN new.conversations
             \subseteq DOMAIN sessions[id].conversations \cup (server_ids + 1) .. server_ids',
           UNCHANGED <<now, pending, resumable, session_ids>>
    PROVE  ServerInv'
<1>1. /\ DOMAIN sessions' = DOMAIN sessions
      /\ sessions'[id] = new
      /\ \A j \in DOMAIN sessions : j # id => sessions'[j] = sessions[j]
  OBVIOUS
<1>2. Counters'
  BY DEF ServerInv, Counters
<1>3. \A j \in DOMAIN sessions' : SessionOK(j, sessions'[j], server_ids', now')
  <2> SUFFICES ASSUME NEW j \in DOMAIN sessions, j # id
               PROVE  SessionOK(j, sessions'[j], server_ids', now')
    BY <1>1
  <2>1. SessionOK(j, sessions[j], server_ids, now) /\ server_ids \in Nat
    BY DEF ServerInv, Counters
  <2> QED BY <1>1, <2>1 DEF SessionOK, ConversationsOK
<1>4. \A j \in DOMAIN resumable' :
          ConversationsOK(resumable'[j].conversations, server_ids', now')
  BY DEF ServerInv, Counters, ConversationsOK
<1>5. SessionIdsExclusive'
  BY <1>1 DEF ServerInv, SessionIdsExclusive
<1>6. ConversationOwnedOnce'
  <2>1. /\ \A j \in DOMAIN sessions \cup DOMAIN resumable :
               DOMAIN Held(j) \subseteq 1 .. server_ids
        /\ server_ids \in Nat
    BY DEF ServerInv, Counters, SessionOK, ConversationsOK, Held
  <2>2. \A j \in DOMAIN sessions \cup DOMAIN resumable : j # id => Held(j)' = Held(j)
    BY <1>1 DEF Held
  <2>3. /\ Held(id)' = new.conversations
        /\ Held(id) = sessions[id].conversations
    BY <1>1 DEF Held
  <2>4. \A j \in DOMAIN sessions \cup DOMAIN resumable :
            j # id => DOMAIN Held(id)' \cap DOMAIN Held(j)' = {}
    BY <2>1, <2>2, <2>3 DEF ServerInv, ConversationOwnedOnce
  <2> QED BY <1>1, <2>2, <2>4 DEF ServerInv, ConversationOwnedOnce
<1>7. RecoveryWindowUnused'
  BY DEF ServerInv, RecoveryWindowUnused
<1> QED BY <1>1, <1>2, <1>3, <1>4, <1>5, <1>6, <1>7 DEF ServerInv
-----------------------------------------------------------------------------
\* The actions on one session.

LEMMA ResumeConversationOK ==
    ASSUME ServerInv, NEW peer, NEW frame, HandleResumeConversation(peer, frame)
    PROVE  ServerInv'
<1> DEFINE id == frame.key.session_id
           o == Opened(frame)
           new == IF BindsInherited(frame)
                  THEN [o EXCEPT !.handles = Bound(@, frame.handle, frame.body.conversation)]
                  ELSE o
<1>1. /\ id \in DOMAIN sessions
      /\ sessions' = [sessions EXCEPT ![id] = new]
      /\ UNCHANGED <<now, pending, resumable, session_ids, server_ids>>
  BY DEF HandleResumeConversation, ServerOpens, CommitSession, ToClient
<1>2. /\ SessionOK(id, o, server_ids, now) /\ o.conversations = sessions[id].conversations
      /\ server_ids \in Nat
  BY <1>1, OpenedOK DEF ServerInv, Counters
<1>3. SessionOK(id, new, server_ids, now) /\ new.conversations = o.conversations
  <2>1. CASE BindsInherited(frame)
    <3>1. /\ CanBind(o.handles, frame.handle, frame.body.conversation)
          /\ frame.body.conversation \in DOMAIN o.conversations
      BY <2>1 DEF BindsInherited
    <3>2. HandlesOK(o.handles, DOMAIN o.conversations)
      BY <1>2 DEF SessionOK
    <3>3. HandlesOK(Bound(o.handles, frame.handle, frame.body.conversation),
                    DOMAIN o.conversations)
      BY <3>1, <3>2, BoundOK
    <3> HIDE DEF o
    <3>4. /\ DOMAIN new = SessionFields
          /\ new.handles = Bound(o.handles, frame.handle, frame.body.conversation)
          /\ new.key = o.key /\ new.next_packet_number = o.next_packet_number
          /\ new.last_activity = o.last_activity /\ new.conversations = o.conversations
      BY <1>2, <2>1 DEF SessionOK, SessionFields
    <3> HIDE DEF new
    <3> QED BY <1>2, <3>3, <3>4 DEF SessionOK
  <2>2. CASE ~BindsInherited(frame)
    BY <1>2, <2>2
  <2> QED BY <2>1, <2>2
<1> HIDE DEF new, id, o
<1>4. /\ SessionOK(id, new, server_ids', now)
      /\ server_ids' \in Nat /\ server_ids <= server_ids'
      /\ DOMAIN new.conversations
           \subseteq DOMAIN sessions[id].conversations \cup (server_ids + 1) .. server_ids'
  BY <1>1, <1>2, <1>3
<1> QED BY <1>1, <1>4, UpdateOK

LEMMA RefuseDataOK ==
    ASSUME ServerInv, NEW peer, NEW frame, RefuseData(peer, frame)
    PROVE  ServerInv'
<1> DEFINE id == frame.key.session_id
           o == Opened(frame)
<1>1. /\ id \in DOMAIN sessions
      /\ sessions' = [sessions EXCEPT ![id] = o]
      /\ UNCHANGED <<now, pending, resumable, session_ids, server_ids>>
  BY DEF RefuseData, ServerOpens, CommitSession, ToClient
<1>2. /\ SessionOK(id, o, server_ids, now) /\ o.conversations = sessions[id].conversations
      /\ server_ids \in Nat
  BY <1>1, OpenedOK DEF ServerInv, Counters
<1> HIDE DEF id, o
<1>3. /\ SessionOK(id, o, server_ids', now)
      /\ server_ids' \in Nat /\ server_ids <= server_ids'
      /\ DOMAIN o.conversations
           \subseteq DOMAIN sessions[id].conversations \cup (server_ids + 1) .. server_ids'
  BY <1>1, <1>2
<1> QED BY <1>1, <1>3, UpdateOK

\* Data finds the conversation of its handle, or opens the next one.
LEMMA TouchedOK ==
    ASSUME ServerInv, NEW frame, frame.key.session_id \in DOMAIN sessions,
           NEW n \in Nat, n = IF KnowsHandle(frame) THEN server_ids ELSE server_ids + 1
    PROVE  LET id == frame.key.session_id
               s == Touched(frame)
           IN  /\ SessionOK(id, s, n, now)
               /\ DOMAIN s.conversations
                    \subseteq DOMAIN sessions[id].conversations \cup (server_ids + 1) .. n
               /\ s.key = sessions[id].key
               /\ s.next_packet_number = sessions[id].next_packet_number
<1> DEFINE id == frame.key.session_id
           o == Opened(frame)
           c == ConversationOf(frame)
           s == Touched(frame)
<1>1. /\ SessionOK(id, o, server_ids, now) /\ o.conversations = sessions[id].conversations
      /\ o.key = sessions[id].key /\ o.next_packet_number = sessions[id].next_packet_number
      /\ o.last_activity = now
      /\ server_ids \in Nat /\ now \in Nat
  BY OpenedOK DEF ServerInv, Counters
<1>2. /\ DOMAIN s = SessionFields
      /\ s.handles = IF KnowsHandle(frame) THEN o.handles ELSE Bound(o.handles, frame.handle, c)
      /\ s.conversations = Put(o.conversations, c, now)
      /\ s.key = o.key /\ s.next_packet_number = o.next_packet_number
      /\ s.last_activity = o.last_activity
  BY <1>1 DEF Touched, SessionOK, SessionFields
<1>3. /\ DOMAIN s.conversations = DOMAIN o.conversations \cup {c}
      /\ s.conversations[c] = now
      /\ \A k \in DOMAIN o.conversations : k # c => s.conversations[k] = o.conversations[k]
  BY <1>2 DEF Put
<1>4. HandlesOK(o.handles, DOMAIN o.conversations)
  BY <1>1 DEF SessionOK
<1>5. CASE KnowsHandle(frame)
  <2>1. c \in DOMAIN o.conversations /\ n = server_ids
    BY <1>4, <1>5 DEF KnowsHandle, ConversationOf, HandlesOK, MutuallyInverse
  <2> HIDE DEF s, o, c
  <2>2. DOMAIN s.conversations = DOMAIN o.conversations /\ s.handles = o.handles
    BY <1>2, <1>3, <1>5, <2>1
  <2>3. ConversationsOK(s.conversations, n, s.last_activity)
    BY <1>1, <1>2, <1>3, <2>1, <2>2 DEF SessionOK, ConversationsOK
  <2>4. SessionOK(id, s, n, now)
    BY <1>1, <1>2, <1>4, <2>2, <2>3 DEF SessionOK
  <2> QED BY <1>1, <1>2, <2>2, <2>4 DEF s
<1>6. CASE ~KnowsHandle(frame)
  <2>1. c = server_ids + 1 /\ n = server_ids + 1
    BY <1>6 DEF ConversationOf
  <2>2. c \notin DOMAIN o.conversations
    BY <1>1, <2>1 DEF SessionOK, ConversationsOK
  <2>3. frame.handle \notin DOMAIN o.handles.by_handle
    BY <1>6 DEF KnowsHandle
  <2>4. CanBind(o.handles, frame.handle, c)
    BY <1>4, <2>2, <2>3 DEF CanBind, HandlesOK
  <2> HIDE DEF s, o, c
  <2>5. HandlesOK(o.handles, DOMAIN s.conversations)
    BY <1>3, <1>4 DEF HandlesOK
  <2>6. HandlesOK(s.handles, DOMAIN s.conversations)
    BY <1>2, <1>3, <1>6, <2>4, <2>5, BoundOK
  <2>7. ConversationsOK(s.conversations, n, s.last_activity)
    BY <1>1, <1>2, <1>3, <2>1, <2>2 DEF SessionOK, ConversationsOK
  <2>8. SessionOK(id, s, n, now)
    BY <1>1, <1>2, <2>6, <2>7 DEF SessionOK
  <2> QED BY <1>1, <1>2, <1>3, <2>1, <2>8 DEF s
<1> QED BY <1>5, <1>6

\* The credentials to send are finitely many.
LEMMA CreditedFinite ==
    ASSUME NEW frame, NEW id, NEW n \in Nat, NEW t, SessionOK(id, Touched(frame), n, t),
           NEW order \in SetToSeqs(ToCredit(frame))
    PROVE  Len(order) \in Nat /\ DOMAIN order = 1 .. Len(order)
<1> DEFINE S == ToCredit(frame)
<1>1. IsFiniteSet(S)
  <2>1. CASE S = DOMAIN Touched(frame).conversations
    <3>1. S \subseteq 1 .. n
      BY <2>1 DEF SessionOK, ConversationsOK
    <3>2. IsFiniteSet(1 .. n)
      BY FS_Interval
    <3> QED BY <3>1, <3>2, FS_Subset
  <2>2. CASE S = {}
    BY <2>2, FS_EmptySet
  <2>3. CASE S = {ConversationOf(frame)}
    BY <2>3, FS_Singleton
  <2> QED BY <2>1, <2>2, <2>3 DEF ToCredit
<1>2. Cardinality(S) \in Nat
  BY <1>1, FS_CardinalityType
<1>3. order \in [1 .. Cardinality(S) -> S]
  BY DEF SetToSeqs
<1>4. order \in Seq(S) /\ DOMAIN order = 1 .. Cardinality(S)
  BY <1>2, <1>3
<1> QED BY <1>4

LEMMA DeliverDataOK ==
    ASSUME ServerInv, NEW peer, NEW frame, DeliverData(peer, frame)
    PROVE  ServerInv'
<1> DEFINE id == frame.key.session_id
           s == Touched(frame)
<1>1. PICK order \in SetToSeqs(ToCredit(frame)) :
          CommitSession(frame, [s EXCEPT
              !.next_packet_number = @ + Len(order),
              !.credential_expires_at = IF RefreshDue(s) THEN now + ResumptionLifetime ELSE @])
  BY DEF DeliverData
<1> DEFINE new == [s EXCEPT
              !.next_packet_number = @ + Len(order),
              !.credential_expires_at = IF RefreshDue(s) THEN now + ResumptionLifetime ELSE @]
<1>2. /\ id \in DOMAIN sessions
      /\ sessions' = [sessions EXCEPT ![id] = new]
      /\ UNCHANGED <<now, pending, resumable, session_ids>>
      /\ server_ids' = IF KnowsHandle(frame) THEN server_ids ELSE server_ids + 1
  BY <1>1 DEF DeliverData, ServerOpens, CommitSession, ToClient
<1>3. server_ids \in Nat /\ server_ids' \in Nat /\ server_ids <= server_ids'
  BY <1>2 DEF ServerInv, Counters
<1>4. /\ SessionOK(id, s, server_ids', now)
      /\ DOMAIN s.conversations
           \subseteq DOMAIN sessions[id].conversations \cup (server_ids + 1) .. server_ids'
  BY <1>2, <1>3, TouchedOK
<1>5. Len(order) \in Nat
  BY <1>1, <1>4, CreditedFinite
<1> HIDE DEF s, id
<1>6. /\ DOMAIN new = SessionFields
      /\ new.next_packet_number = s.next_packet_number + Len(order)
      /\ new.conversations = s.conversations /\ new.handles = s.handles
      /\ new.key = s.key /\ new.last_activity = s.last_activity
  BY <1>4 DEF SessionOK, SessionFields
<1> HIDE DEF new
<1>7. SessionOK(id, new, server_ids', now)
  BY <1>4, <1>5, <1>6 DEF SessionOK
<1> QED BY <1>2, <1>3, <1>4, <1>6, <1>7, UpdateOK

LEMMA UpstreamOK ==
    ASSUME ServerInv, NEW id \in DOMAIN sessions, NEW c, HandleUpstream(id, c)
    PROVE  ServerInv'
<1> DEFINE s == sessions[id]
           new == [s EXCEPT !.last_activity = now, !.next_packet_number = @ + 1]
<1>1. /\ SessionOK(id, s, server_ids, now) /\ now \in Nat /\ server_ids \in Nat
  BY DEF ServerInv, Counters
<1>2. /\ sessions' = [sessions EXCEPT ![id] = new]
      /\ UNCHANGED <<now, pending, resumable, session_ids, server_ids>>
  BY DEF HandleUpstream, ToClient
<1> HIDE DEF s
<1>3. /\ DOMAIN new = SessionFields
      /\ new.next_packet_number = s.next_packet_number + 1
      /\ new.conversations = s.conversations /\ new.handles = s.handles
      /\ new.key = s.key /\ new.last_activity = now
  BY <1>1 DEF SessionOK, SessionFields
<1> HIDE DEF new
<1>4. SessionOK(id, new, server_ids, now)
  BY <1>1, <1>3 DEF SessionOK, ConversationsOK
<1>5. /\ SessionOK(id, new, server_ids', now)
      /\ server_ids' \in Nat /\ server_ids <= server_ids'
      /\ DOMAIN new.conversations
           \subseteq DOMAIN sessions[id].conversations \cup (server_ids + 1) .. server_ids'
  BY <1>1, <1>2, <1>3, <1>4 DEF s
<1> QED BY <1>2, <1>5, UpdateOK

\* A session without some of its conversations.
LEMMA DroppedOK ==
    ASSUME NEW id, NEW s, NEW n, NEW t, SessionOK(id, s, n, t), NEW gone
    PROVE  LET d == DropConversations(s, gone)
           IN  /\ SessionOK(id, d, n, t)
               /\ DOMAIN d.conversations = DOMAIN s.conversations \ gone
               /\ \A c \in DOMAIN d.conversations : d.conversations[c] = s.conversations[c]
               /\ d.key = s.key /\ d.next_packet_number = s.next_packet_number
               /\ d.last_activity = s.last_activity
<1> DEFINE d == DropConversations(s, gone)
<1>1. /\ DOMAIN d = SessionFields
      /\ d.conversations = Without(s.conversations, gone)
      /\ d.handles = RemoveIds(s.handles, gone)
      /\ d.key = s.key /\ d.next_packet_number = s.next_packet_number
      /\ d.last_activity = s.last_activity
  BY DEF DropConversations, SessionOK, SessionFields
<1>2. /\ DOMAIN d.conversations = DOMAIN s.conversations \ gone
      /\ \A c \in DOMAIN d.conversations : d.conversations[c] = s.conversations[c]
  BY <1>1 DEF Without
<1>3. HandlesOK(d.handles, DOMAIN d.conversations)
  BY <1>1, <1>2, RemovedOK DEF SessionOK
<1> HIDE DEF d
<1>4. SessionOK(id, d, n, t)
  BY <1>1, <1>2, <1>3 DEF SessionOK, ConversationsOK
<1> QED BY <1>1, <1>2, <1>4 DEF d

LEMMA CloseOK ==
    ASSUME ServerInv, NEW id \in DOMAIN sessions, NEW c, ServerClose(id, c)
    PROVE  ServerInv'
<1> DEFINE new == DropConversations(sessions[id], {c})
<1>1. /\ sessions' = [sessions EXCEPT ![id] = new]
      /\ UNCHANGED <<now, pending, resumable, session_ids, server_ids>>
      /\ server_ids \in Nat
  BY DEF ServerClose, ToClient, ServerInv, Counters
<1>2. /\ SessionOK(id, new, server_ids, now)
      /\ DOMAIN new.conversations \subseteq DOMAIN sessions[id].conversations
  BY DroppedOK DEF ServerInv
<1> HIDE DEF new
<1>3. /\ SessionOK(id, new, server_ids', now)
      /\ server_ids' \in Nat /\ server_ids <= server_ids'
      /\ DOMAIN new.conversations
           \subseteq DOMAIN sessions[id].conversations \cup (server_ids + 1) .. server_ids'
  BY <1>1, <1>2
<1> QED BY <1>1, <1>3, UpdateOK
-----------------------------------------------------------------------------
\* The actions on the table of sessions.

LEMMA OpenPendingOK ==
    ASSUME ServerInv, NEW peer, NEW hello, OpenPending(peer, hello),
           UNCHANGED <<sessions, resumable, server_ids>>
    PROVE  ServerInv'
<1> DEFINE id == session_ids + 1
           resume_from == ResumeFrom(hello.resumption)
<1>1. /\ session_ids' = id /\ session_ids \in Nat /\ now' = now
      /\ DOMAIN pending' = DOMAIN pending \cup {id}
      /\ pending'[id].resume_from = resume_from
      /\ \A j \in DOMAIN pending : j # id => pending'[j] = pending[j]
  BY DEF OpenPending, Put, ToClient, ServerInv, Counters
<1>2. id \notin DOMAIN pending \cup DOMAIN sessions \cup DOMAIN resumable
  BY <1>1 DEF ServerInv
<1>3. resume_from = None \/ \A j \in DOMAIN pending : pending[j].resume_from # resume_from
  BY DEF ResumeFrom
<1> HIDE DEF resume_from
<1>4. SessionIdsExclusive'
  <2>1. SessionIdsExclusive
    BY DEF ServerInv
  <2>2. \A i, j \in DOMAIN pending' :
            /\ pending'[i].resume_from # None
            /\ pending'[i].resume_from = pending'[j].resume_from
            => i = j
    BY <1>1, <1>2, <1>3, <2>1 DEF SessionIdsExclusive
  <2> QED BY <1>1, <1>2, <2>1, <2>2 DEF SessionIdsExclusive
<1>5. DOMAIN pending' \cup DOMAIN sessions' \cup DOMAIN resumable' \subseteq 1 .. session_ids'
  BY <1>1 DEF ServerInv
<1>6. ConversationOwnedOnce' /\ RecoveryWindowUnused' /\ Counters'
  BY <1>1 DEF ServerInv, ConversationOwnedOnce, Held, RecoveryWindowUnused, Counters
<1> QED BY <1>1, <1>4, <1>5, <1>6 DEF ServerInv

LEMMA EstablishOK ==
    ASSUME ServerInv, NEW peer, NEW transcript, Establish(peer, transcript)
    PROVE  ServerInv'
<1> DEFINE id == transcript.session_id
           old == pending[id].resume_from
           new == NewServerSession(peer, transcript, old)
<1>1. /\ id \in DOMAIN pending
      /\ sessions' = Put(Without(sessions, {old}), id, new)
      /\ resumable' = IF old \in DOMAIN sessions THEN resumable ELSE Without(resumable, {old})
      /\ pending' = Without(pending, {id})
      /\ UNCHANGED <<now, session_ids, server_ids>>
  BY DEF Establish, SessionsLeft, ToClient
<1>2. /\ now \in Nat /\ server_ids \in Nat
      /\ id \notin DOMAIN sessions /\ id \notin DOMAIN resumable
      /\ DOMAIN sessions \cap DOMAIN resumable = {}
  BY <1>1 DEF ServerInv, Counters, SessionIdsExclusive
<1>3. /\ DOMAIN sessions' = (DOMAIN sessions \ {old}) \cup {id}
      /\ sessions'[id] = new
      /\ \A j \in DOMAIN sessions \ {old} : sessions'[j] = sessions[j]
  BY <1>1, <1>2 DEF Put, Without
<1>4. /\ DOMAIN resumable' = IF old \in DOMAIN sessions THEN DOMAIN resumable
                             ELSE DOMAIN resumable \ {old}
      /\ \A j \in DOMAIN resumable' : resumable'[j] = resumable[j]
  BY <1>1 DEF Without
<1>5. /\ DOMAIN pending' = DOMAIN pending \ {id}
      /\ \A j \in DOMAIN pending' : pending'[j] = pending[j]
  BY <1>1 DEF Without
<1>6. /\ DOMAIN new = SessionFields
      /\ new.key = transcript /\ new.next_packet_number = 1 /\ new.last_activity = now
      /\ new.handles = NoHandles /\ new.conversations = Inherited(old)
  BY DEF NewServerSession, SessionFields
<1> HIDE DEF new, old, id
<1>7. /\ ConversationsOK(Inherited(old), server_ids, now)
      /\ old \in DOMAIN sessions \cup DOMAIN resumable => Inherited(old) = Held(old)
      /\ old \notin DOMAIN sessions \cup DOMAIN resumable => DOMAIN Inherited(old) = {}
  <2>1. CASE old \in DOMAIN sessions
    <3>1. SessionOK(old, sessions[old], server_ids, now)
      BY <2>1 DEF ServerInv
    <3>2. ConversationsOK(sessions[old].conversations, server_ids, now)
      BY <1>2, <3>1 DEF SessionOK, ConversationsOK
    <3> QED BY <2>1, <3>2 DEF Inherited, Held
  <2>2. CASE old \notin DOMAIN sessions /\ old \in DOMAIN resumable
    <3>1. ConversationsOK(resumable[old].conversations, server_ids, now)
      BY <2>2 DEF ServerInv
    <3> QED BY <2>2, <3>1 DEF Inherited, Held
  <2>3. CASE old \notin DOMAIN sessions /\ old \notin DOMAIN resumable
    BY <2>3 DEF Inherited, EmptyMap, ConversationsOK
  <2> QED BY <2>1, <2>2, <2>3
<1>8. SessionOK(id, new, server_ids, now)
  BY <1>2, <1>6, <1>7, NoHandlesOK DEF SessionOK, id
<1>9. \A j \in DOMAIN sessions' : SessionOK(j, sessions'[j], server_ids', now')
  BY <1>1, <1>3, <1>8 DEF ServerInv
<1>10. \A j \in DOMAIN resumable' :
           ConversationsOK(resumable'[j].conversations, server_ids', now')
  BY <1>1, <1>4 DEF ServerInv
<1>11. SessionIdsExclusive'
  <2>1. SessionIdsExclusive
    BY DEF ServerInv
  <2>2. \A i, j \in DOMAIN pending' :
            /\ pending'[i].resume_from # None
            /\ pending'[i].resume_from = pending'[j].resume_from
            => i = j
    BY <1>5, <2>1 DEF SessionIdsExclusive
  <2>3. /\ DOMAIN pending' \cap DOMAIN sessions' = {}
        /\ DOMAIN pending' \cap DOMAIN resumable' = {}
        /\ DOMAIN sessions' \cap DOMAIN resumable' = {}
    BY <1>2, <1>3, <1>4, <1>5, <2>1 DEF SessionIdsExclusive
  <2> QED BY <2>2, <2>3 DEF SessionIdsExclusive
<1>12. ConversationOwnedOnce'
  <2>1. /\ DOMAIN sessions' \cup DOMAIN resumable'
             = ((DOMAIN sessions \cup DOMAIN resumable) \ {old}) \cup {id}
    BY <1>2, <1>3, <1>4
  <2>2. /\ Held(id)' = Inherited(old)
        /\ \A j \in (DOMAIN sessions \cup DOMAIN resumable) \ {old} : Held(j)' = Held(j)
    <3>1. Held(id)' = Inherited(old)
      BY <1>3, <1>6 DEF Held
    <3>2. ASSUME NEW j \in (DOMAIN sessions \cup DOMAIN resumable) \ {old}
          PROVE  Held(j)' = Held(j)
      <4>1. j # id
        BY <1>2
      <4>2. CASE j \in DOMAIN sessions
        BY <4>1, <4>2, <1>3 DEF Held
      <4>3. CASE j \notin DOMAIN sessions
        <5>1. j \notin DOMAIN sessions' /\ j \in DOMAIN resumable'
          BY <4>1, <4>3, <1>3, <1>4
        <5> QED BY <4>3, <5>1, <1>4 DEF Held
      <4> QED BY <4>2, <4>3
    <3> QED BY <3>1, <3>2
  <2>3. \A j \in (DOMAIN sessions \cup DOMAIN resumable) \ {old} :
            DOMAIN Inherited(old) \cap DOMAIN Held(j) = {}
    BY <1>7 DEF ServerInv, ConversationOwnedOnce
  <2>4. \A i, j \in (DOMAIN sessions \cup DOMAIN resumable) \ {old} :
            i # j => DOMAIN Held(i) \cap DOMAIN Held(j) = {}
    BY DEF ServerInv, ConversationOwnedOnce
  <2>5. ASSUME NEW i \in DOMAIN sessions' \cup DOMAIN resumable',
               NEW j \in DOMAIN sessions' \cup DOMAIN resumable', i # j
        PROVE  DOMAIN Held(i)' \cap DOMAIN Held(j)' = {}
    <3>1. CASE i = id
      BY <3>1, <2>1, <2>2, <2>3, <2>5
    <3>2. CASE j = id
      BY <3>2, <2>1, <2>2, <2>3, <2>5
    <3>3. CASE i # id /\ j # id
      BY <3>3, <2>1, <2>2, <2>4, <2>5
    <3> QED BY <3>1, <3>2, <3>3
  <2> QED BY <2>5 DEF ConversationOwnedOnce
<1>13. RecoveryWindowUnused'
  BY <1>4 DEF ServerInv, RecoveryWindowUnused
<1>14. Counters' /\ DOMAIN pending' \cup DOMAIN sessions' \cup DOMAIN resumable'
                      \subseteq 1 .. session_ids'
  BY <1>1, <1>3, <1>4, <1>5 DEF ServerInv, Counters
<1> QED BY <1>9, <1>10, <1>11, <1>12, <1>13, <1>14 DEF ServerInv

\* What expire leaves of the sessions.
LEMMA LiveOK ==
    ASSUME ServerInv
    PROVE  /\ DOMAIN Live = DOMAIN sessions
           /\ \A id \in DOMAIN sessions :
                  /\ SessionOK(id, Live[id], server_ids, now)
                  /\ DOMAIN Live[id].conversations \subseteq DOMAIN sessions[id].conversations
                  /\ Live[id].key = sessions[id].key
                  /\ Live[id].next_packet_number = sessions[id].next_packet_number
                  /\ \A c \in DOMAIN Live[id].conversations :
                         now - Live[id].conversations[c] < ServerConversationIdleTimeout
<1>1. DOMAIN Live = DOMAIN sessions
  BY DEF Live
<1> SUFFICES ASSUME NEW id \in DOMAIN sessions
             PROVE  /\ SessionOK(id, Live[id], server_ids, now)
                    /\ DOMAIN Live[id].conversations \subseteq DOMAIN sessions[id].conversations
                    /\ Live[id].key = sessions[id].key
                    /\ Live[id].next_packet_number = sessions[id].next_packet_number
                    /\ \A c \in DOMAIN Live[id].conversations :
                           now - Live[id].conversations[c] < ServerConversationIdleTimeout
  BY <1>1
<1> DEFINE s == sessions[id]
           gone == IdleConversations(s)
<1>2. SessionOK(id, s, server_ids, now) /\ now \in Nat
  BY DEF ServerInv, Counters
<1>3. Live[id] = DropConversations(s, gone)
  BY DEF Live
<1> HIDE DEF gone, s
<1>4. /\ SessionOK(id, Live[id], server_ids, now)
      /\ DOMAIN Live[id].conversations = DOMAIN s.conversations \ gone
      /\ \A c \in DOMAIN Live[id].conversations : Live[id].conversations[c] = s.conversations[c]
      /\ Live[id].key = s.key
      /\ Live[id].next_packet_number = s.next_packet_number
  BY <1>2, <1>3, DroppedOK
<1>5. \A c \in DOMAIN s.conversations \ gone :
          now - s.conversations[c] < ServerConversationIdleTimeout
  BY <1>2, ServerAssumption DEF gone, IdleConversations, SessionOK, ConversationsOK
<1> QED BY <1>4, <1>5 DEF s

LEMMA ExpireOK ==
    ASSUME ServerInv, ServerExpire
    PROVE  ServerInv'
<1> DEFINE kept == {id \in IdleSessions : DOMAIN Live[id].conversations # {}}
<1>1. /\ DOMAIN pending' \subseteq DOMAIN pending
      /\ \A id \in DOMAIN pending' : pending'[id] = pending[id]
      /\ UNCHANGED <<now, session_ids, server_ids>>
  BY DEF ServerExpire, Without, ToClient
<1>2. /\ DOMAIN sessions' = DOMAIN sessions \ IdleSessions
      /\ \A id \in DOMAIN sessions' : sessions'[id] = Live[id]
      /\ kept \subseteq IdleSessions /\ IdleSessions \subseteq DOMAIN sessions
  BY LiveOK DEF ServerExpire, Without, IdleSessions
<1>3. /\ DOMAIN resumable' \subseteq DOMAIN resumable \cup kept
      /\ \A id \in DOMAIN resumable' :
             resumable'[id].conversations = IF id \in kept THEN Live[id].conversations
                                            ELSE resumable[id].conversations
  BY DEF ServerExpire, Without, Retired
<1>4. \A id \in DOMAIN sessions' : SessionOK(id, sessions'[id], server_ids', now')
  BY <1>1, <1>2, LiveOK
<1>5. \A id \in DOMAIN resumable' :
          ConversationsOK(resumable'[id].conversations, server_ids', now')
  <2> SUFFICES ASSUME NEW id \in DOMAIN resumable'
               PROVE  ConversationsOK(resumable'[id].conversations, server_ids, now)
    BY <1>1
  <2>1. CASE id \in kept
    <3>1. SessionOK(id, Live[id], server_ids, now) /\ now \in Nat
      BY <2>1, <1>2, LiveOK DEF ServerInv, Counters
    <3> QED BY <2>1, <3>1, <1>3 DEF SessionOK, ConversationsOK
  <2>2. CASE id \notin kept
    BY <2>2, <1>3 DEF ServerInv
  <2> QED BY <2>1, <2>2
<1> HIDE DEF kept
<1>6. SessionIdsExclusive'
  <2>1. SessionIdsExclusive
    BY DEF ServerInv
  <2>2. \A i, j \in DOMAIN pending' :
            /\ pending'[i].resume_from # None
            /\ pending'[i].resume_from = pending'[j].resume_from
            => i = j
    BY <1>1, <2>1 DEF SessionIdsExclusive
  <2>3. /\ DOMAIN pending' \cap DOMAIN sessions' = {}
        /\ DOMAIN pending' \cap DOMAIN resumable' = {}
        /\ DOMAIN sessions' \cap DOMAIN resumable' = {}
    BY <1>1, <1>2, <1>3, <2>1 DEF SessionIdsExclusive
  <2> QED BY <2>2, <2>3 DEF SessionIdsExclusive
<1>7. ConversationOwnedOnce'
  <2>1. DOMAIN sessions' \cup DOMAIN resumable' \subseteq DOMAIN sessions \cup DOMAIN resumable
    BY <1>2, <1>3
  <2>2. ASSUME NEW id \in DOMAIN sessions' \cup DOMAIN resumable'
        PROVE  DOMAIN Held(id)' \subseteq DOMAIN Held(id)
    <3>1. DOMAIN sessions \cap DOMAIN resumable = {}
      BY DEF ServerInv, SessionIdsExclusive
    <3>2. CASE id \in DOMAIN sessions'
      BY <3>2, <1>2, LiveOK DEF Held
    <3>3. CASE id \notin DOMAIN sessions' /\ id \in kept
      <4>1. Held(id)' = Live[id].conversations /\ id \in DOMAIN sessions
        BY <3>3, <2>2, <1>2, <1>3 DEF Held
      <4> QED BY <4>1, LiveOK DEF Held
    <3>4. CASE id \notin DOMAIN sessions' /\ id \notin kept
      <4>1. id \in DOMAIN resumable /\ id \notin DOMAIN sessions
        BY <3>4, <3>1, <2>2, <1>3
      <4>2. Held(id)' = resumable[id].conversations
        BY <3>4, <2>2, <1>3 DEF Held
      <4> QED BY <4>1, <4>2 DEF Held
    <3> QED BY <3>2, <3>3, <3>4
  <2>3. \A i, j \in DOMAIN sessions \cup DOMAIN resumable :
            i # j => DOMAIN Held(i) \cap DOMAIN Held(j) = {}
    BY DEF ServerInv, ConversationOwnedOnce
  <2>4. ASSUME NEW i \in DOMAIN sessions' \cup DOMAIN resumable',
               NEW j \in DOMAIN sessions' \cup DOMAIN resumable', i # j
        PROVE  DOMAIN Held(i)' \cap DOMAIN Held(j)' = {}
    <3>1. DOMAIN Held(i)' \subseteq DOMAIN Held(i) /\ DOMAIN Held(j)' \subseteq DOMAIN Held(j)
      BY <2>2
    <3>2. DOMAIN Held(i) \cap DOMAIN Held(j) = {}
      BY <2>1, <2>3, <2>4
    <3> QED BY <3>1, <3>2
  <2> QED BY <2>4 DEF ConversationOwnedOnce
<1>8. RecoveryWindowUnused'
  <2> SUFFICES ASSUME ServerConversationIdleTimeout <= SessionIdleTimeout
               PROVE  DOMAIN resumable' = {}
    BY DEF RecoveryWindowUnused
  <2>1. kept = {}
    <3> SUFFICES ASSUME NEW id \in kept PROVE FALSE
      OBVIOUS
    <3> DEFINE s == Live[id]
    <3>1. /\ id \in DOMAIN sessions
          /\ now - s.last_activity >= SessionIdleTimeout
          /\ DOMAIN s.conversations # {}
      BY <1>2 DEF kept, IdleSessions
    <3>2. /\ SessionOK(id, s, server_ids, now) /\ now \in Nat
          /\ \A c \in DOMAIN s.conversations :
                 now - s.conversations[c] < ServerConversationIdleTimeout
      BY <3>1, LiveOK DEF ServerInv, Counters
    <3> HIDE DEF s
    <3>3. PICK c \in DOMAIN s.conversations : TRUE
      BY <3>1
    <3>4. /\ s.conversations[c] \in Nat /\ s.conversations[c] <= s.last_activity
          /\ s.last_activity \in Nat
      BY <3>2, <3>3 DEF SessionOK, ConversationsOK
    <3> QED BY <3>1, <3>2, <3>3, <3>4, ServerAssumption
  <2>2. DOMAIN resumable = {}
    BY DEF ServerInv, RecoveryWindowUnused
  <2> QED BY <2>1, <2>2, <1>3
<1>9. Counters' /\ DOMAIN pending' \cup DOMAIN sessions' \cup DOMAIN resumable'
                     \subseteq 1 .. session_ids'
  BY <1>1, <1>2, <1>3 DEF ServerInv, Counters
<1> QED BY <1>4, <1>5, <1>6, <1>7, <1>8, <1>9 DEF ServerInv
-----------------------------------------------------------------------------
\* The client only sends: it changes neither the clock nor what the server
\* sent.
LEMMA ClientOnlySends ==
    ASSUME ClientStep
    PROVE  now' = now /\ s2c' = s2c
<1>1. \A F : ToServer(F) => now' = now /\ s2c' = s2c
  BY DEF ToServer
<1>2. \A st, r : BeginHandshake(st, r) => now' = now /\ s2c' = s2c
  BY <1>1 DEF BeginHandshake
<1>3. BeginReconnect => now' = now /\ s2c' = s2c
  BY <1>1, <1>2 DEF BeginReconnect
<1>4. \A out : Commit(out) => now' = now /\ s2c' = s2c
  BY <1>1 DEF Commit
<1>5. \A peer : HandleLocal(peer) => now' = now /\ s2c' = s2c
  BY <1>1, <1>3, <1>4 DEF HandleLocal, LocalOnStaleSession, LocalWhileHandshaking,
                          LocalOnReadySession, LocalRefused
<1>6. \A frame : HandleHandshakeAck(frame) => now' = now /\ s2c' = s2c
  BY <1>4 DEF HandleHandshakeAck
<1>7. \A frame : HandleHelloRetry(frame) \/ HandleServerHello(frame)
                 => now' = now /\ s2c' = s2c
  BY <1>1 DEF HandleHelloRetry, HandleServerHello
<1>8. \A frame : HandleEarlyRecord(frame) \/ HandleReadyRecord(frame)
                 => now' = now /\ s2c' = s2c
  BY <1>1 DEF HandleEarlyRecord, HandleReadyRecord
<1>9. ClientExpire => now' = now /\ s2c' = s2c
  BY <1>1 DEF ClientExpire
<1>10. Start \/ Reconnect \/ (\E id : ClientClose(id)) => now' = now /\ s2c' = s2c
  BY <1>1, <1>2, <1>3 DEF Start, Reconnect, ClientClose
<1> QED BY <1>5, <1>6, <1>7, <1>8, <1>9, <1>10 DEF ClientStep, ClientNext, ClientHandleTunnel

\* Every step keeps the invariant.
LEMMA ServerStepOK ==
    ASSUME ServerInv, [Next]_vars
    PROVE  ServerInv'
<1>1. ASSUME UNCHANGED <<pending, sessions, resumable, session_ids, server_ids>>,
             now' \in Nat, now <= now'
      PROVE  ServerInv'
  <2>1. \A id \in DOMAIN sessions' : SessionOK(id, sessions'[id], server_ids', now')
    BY <1>1 DEF ServerInv, Counters, SessionOK
  <2>2. \A id \in DOMAIN resumable' :
            ConversationsOK(resumable'[id].conversations, server_ids', now')
    BY <1>1 DEF ServerInv, Counters, ConversationsOK
  <2>3. SessionIdsExclusive' /\ ConversationOwnedOnce' /\ RecoveryWindowUnused' /\ Counters'
    BY <1>1 DEF ServerInv, Counters, SessionIdsExclusive, ConversationOwnedOnce, Held,
                RecoveryWindowUnused
  <2> QED BY <1>1, <2>1, <2>2, <2>3 DEF ServerInv
<1>2. now \in Nat
  BY DEF ServerInv, Counters
<1>3. CASE ClientStep
  <2>1. now' = now
    BY <1>3, ClientOnlySends
  <2>2. UNCHANGED <<pending, sessions, resumable, session_ids, server_ids>>
    BY <1>3 DEF ClientStep, serverVars, serverState
  <2> QED BY <1>1, <1>2, <2>1, <2>2
<1>4. CASE NetworkStep
  BY <1>1, <1>2, <1>4 DEF NetworkStep, Tick, ChangePath, serverVars, serverState
<1>5. CASE UNCHANGED vars
  BY <1>1, <1>2, <1>5 DEF vars, network, serverVars, serverState
<1>6. CASE ServerStep
  <2>1. ASSUME NEW peer, NEW hello, HandleClientHello(peer, hello) PROVE ServerInv'
    <3>1. CASE OpenPending(peer, hello)
      BY <2>1, <3>1, OpenPendingOK DEF HandleClientHello
    <3>2. CASE ~OpenPending(peer, hello)
      <4>1. UNCHANGED <<now, pending, sessions, resumable, session_ids, server_ids>>
        BY <2>1, <3>2 DEF HandleClientHello, SendHelloRetry, RepeatServerHello, ToClient
      <4> QED BY <1>1, <1>2, <4>1
    <3> QED BY <3>1, <3>2
  <2>2. ASSUME NEW peer, NEW transcript, HandleClientFinish(peer, transcript) PROVE ServerInv'
    <3>1. CASE Establish(peer, transcript)
      BY <3>1, EstablishOK
    <3>2. CASE RepeatAck(peer, transcript)
      <4>1. UNCHANGED <<now, pending, sessions, resumable, session_ids, server_ids>>
        BY <3>2 DEF RepeatAck, serverState, ToClient
      <4> QED BY <1>1, <1>2, <4>1
    <3> QED BY <2>2, <3>1, <3>2 DEF HandleClientFinish
  <2>3. ASSUME NEW peer, NEW frame, HandleRecord(peer, frame) PROVE ServerInv'
    <3>1. CASE RefreshPanics(peer, frame)
      <4>1. UNCHANGED <<now, pending, sessions, resumable, session_ids, server_ids>>
        BY <3>1 DEF RefreshPanics, ToClient
      <4> QED BY <1>1, <1>2, <4>1
    <3> QED BY <2>3, <3>1, ResumeConversationOK, RefuseDataOK, DeliverDataOK DEF HandleRecord
  <2> QED BY <1>6, <2>1, <2>2, <2>3, UpstreamOK, CloseOK, ExpireOK
          DEF ServerStep, ServerNext, ServerHandleTunnel
<1> QED BY <1>3, <1>4, <1>5, <1>6 DEF Next

\* A server that has just started has nothing to contradict the invariant.
LEMMA ServerInitially == Init => ServerInv
BY DEF Init, NetworkInit, ServerInit, ServerInv, Counters, EmptyMap, SessionIdsExclusive,
       ConversationOwnedOnce, RecoveryWindowUnused

\* The invariant holds throughout.
LEMMA ServerInvariance == Spec => []ServerInv
BY ServerInitially, ServerStepOK, PTL DEF Spec

\* A session id is pending, active or retained and never two of these, and a
\* session is resumed by at most one handshake: handle_client_hello,
\* handle_client_finish and expire keep this for every configuration.
THEOREM IdsAreExclusive == Spec => []SessionIdsExclusive
<1>1. ServerInv => SessionIdsExclusive
  BY DEF ServerInv
<1> QED BY <1>1, ServerInvariance, PTL

\* A conversation has one owner, through resumption and expiry.
THEOREM OwnedOnce == Spec => []ConversationOwnedOnce
<1>1. ServerInv => ConversationOwnedOnce
  BY DEF ServerInv
<1> QED BY <1>1, ServerInvariance, PTL

\* The wire handles of every session of the server are inverse to its
\* conversations.
THEOREM ServerHandles == Spec => []ServerHandlesConsistent
<1>1. ServerInv => ServerHandlesConsistent
  BY DEF ServerInv, SessionOK, HandlesOK, ServerHandlesConsistent
<1> QED BY <1>1, ServerInvariance, PTL

\* With a conversation timeout no longer than the session timeout, expire
\* never retains a session for resumption.
THEOREM WindowUnused == Spec => []RecoveryWindowUnused
<1>1. ServerInv => RecoveryWindowUnused
  BY DEF ServerInv
<1> QED BY <1>1, ServerInvariance, PTL
=============================================================================
