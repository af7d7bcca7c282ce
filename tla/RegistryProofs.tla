--------------------------- MODULE RegistryProofs ---------------------------
(***************************************************************************)
(* The server engine implements SessionRegistry, for every configuration. *)
(* One lemma per handler names the step of the registry that it takes.    *)
(***************************************************************************)
EXTENDS ServerProofs

\* A handshake resumes a session that is older than its own.
ResumesOlder ==
    \A id \in DOMAIN pending :
        pending[id].resume_from # None => pending[id].resume_from \in 1 .. id - 1

RegistryInv ==
    /\ ServerInv
    /\ session_ids <= MaxSessionIds
    /\ ResumesOlder

RegistryUnchanged == UNCHANGED <<Registered, KeptForResumption, server_ids>>
RegistryStep == Registry!RegistryNext \/ RegistryUnchanged
-----------------------------------------------------------------------------
\* The maps of the registry are those of the engine.
LEMMA SameMaps ==
    /\ \A map, key, value : Registry!Put(map, key, value) = Put(map, key, value)
    /\ \A map, keys : Registry!Without(map, keys) = Without(map, keys)
BY DEF Put, Without, Registry!Put, Registry!Without

\* What the registry sees of a session.
LEMMA RegisteredAt ==
    /\ DOMAIN Registered = DOMAIN sessions
    /\ \A id \in DOMAIN sessions :
           /\ Registered[id] = [held |-> DOMAIN sessions[id].conversations,
                                bound |-> DOMAIN sessions[id].handles.by_id]
           /\ Registered[id].held = DOMAIN sessions[id].conversations
           /\ Registered[id].bound = DOMAIN sessions[id].handles.by_id
BY DEF Registered

\* A step on one session that keeps its conversations and handles, and the
\* rest of the state, is none of the registry.
LEMMA SameSession ==
    ASSUME NEW id \in DOMAIN sessions, NEW new,
           sessions' = [sessions EXCEPT ![id] = new],
           DOMAIN new.conversations = DOMAIN sessions[id].conversations,
           DOMAIN new.handles.by_id = DOMAIN sessions[id].handles.by_id,
           UNCHANGED <<resumable, server_ids>>
    PROVE  RegistryUnchanged
<1>1. /\ DOMAIN sessions' = DOMAIN sessions
      /\ sessions'[id] = new
      /\ \A j \in DOMAIN sessions : j # id => sessions'[j] = sessions[j]
  OBVIOUS
<1>2. Registered' = Registered
  BY <1>1 DEF Registered
<1>3. KeptForResumption' = KeptForResumption
  BY DEF KeptForResumption
<1> QED BY <1>2, <1>3 DEF RegistryUnchanged

\* No conversation of one session is held or bound by another.
LEMMA HeldApart ==
    ASSUME ServerInv, NEW i \in DOMAIN sessions, NEW j \in DOMAIN sessions, i # j
    PROVE  /\ Registered[i].held \cap Registered[j].held = {}
           /\ Registered[i].bound \subseteq Registered[i].held
           /\ Registered[j].bound \subseteq Registered[j].held
<1>1. DOMAIN sessions[i].conversations \cap DOMAIN sessions[j].conversations = {}
  BY DEF ServerInv, ConversationOwnedOnce, Held
<1>2. \A s \in DOMAIN sessions :
          DOMAIN sessions[s].handles.by_id \subseteq DOMAIN sessions[s].conversations
  BY DEF ServerInv, SessionOK, HandlesOK
<1> QED BY <1>1, <1>2, RegisteredAt

\* Binding adds one conversation to those with a handle.
LEMMA BoundAdds ==
    ASSUME NEW h, NEW ids, HandlesOK(h, ids), NEW handle, NEW id
    PROVE  DOMAIN Bound(h, handle, id).by_id = DOMAIN h.by_id \cup {id}
<1>1. Bound(h, handle, id).by_id = Put(h.by_id, id, handle)
  BY DEF Bound, HandlesOK
<1> QED BY <1>1 DEF Put
-----------------------------------------------------------------------------
\* A credential binds an inherited conversation, or nothing.
LEMMA ResumeConversationStep ==
    ASSUME RegistryInv, NEW peer, NEW frame, HandleResumeConversation(peer, frame)
    PROVE  RegistryStep
<1> DEFINE id == frame.key.session_id
           o == Opened(frame)
           c == frame.body.conversation
           new == IF BindsInherited(frame)
                  THEN [o EXCEPT !.handles = Bound(@, frame.handle, c)]
                  ELSE o
<1>1. /\ id \in DOMAIN sessions
      /\ sessions' = [sessions EXCEPT ![id] = new]
      /\ UNCHANGED <<resumable, server_ids>>
  BY DEF HandleResumeConversation, ServerOpens, CommitSession
<1>2. /\ SessionOK(id, o, server_ids, now)
      /\ o.conversations = sessions[id].conversations /\ o.handles = sessions[id].handles
  BY <1>1, OpenedOK DEF RegistryInv
<1>3. CASE ~BindsInherited(frame)
  BY <1>1, <1>2, <1>3, SameSession DEF RegistryStep
<1>4. CASE BindsInherited(frame)
  <2>1. c \in DOMAIN o.conversations
    BY <1>4 DEF BindsInherited
  <2> HIDE DEF o, c
  <2>2. new.handles = Bound(o.handles, frame.handle, c) /\ new.conversations = o.conversations
    BY <1>2, <1>4 DEF SessionOK, SessionFields
  <2>3. DOMAIN new.handles.by_id = DOMAIN o.handles.by_id \cup {c}
    BY <2>2, <1>2, BoundAdds DEF SessionOK
  <2> HIDE DEF new
  <2>4. /\ DOMAIN sessions' = DOMAIN sessions
        /\ sessions'[id] = new
        /\ \A j \in DOMAIN sessions : j # id => sessions'[j] = sessions[j]
    BY <1>1
  <2>5. Registered' = [Registered EXCEPT ![id].bound = @ \cup {c}]
    BY <1>1, <1>2, <2>2, <2>3, <2>4 DEF Registered
  <2>6. KeptForResumption' = KeptForResumption /\ server_ids' = server_ids
    BY <1>1 DEF KeptForResumption
  <2>7. id \in DOMAIN Registered /\ c \in Registered[id].held
    BY <1>1, <1>2, <2>1, RegisteredAt
  <2>8. Registry!BindConversation(id, c)
    BY <2>5, <2>6, <2>7 DEF Registry!BindConversation
  <2> QED BY <2>7, <2>8 DEF RegistryStep, Registry!RegistryNext
<1> QED BY <1>3, <1>4

LEMMA RefuseDataStep ==
    ASSUME RegistryInv, NEW peer, NEW frame, RefuseData(peer, frame)
    PROVE  RegistryStep
<1> DEFINE id == frame.key.session_id
<1>1. /\ id \in DOMAIN sessions
      /\ sessions' = [sessions EXCEPT ![id] = Opened(frame)]
      /\ UNCHANGED <<resumable, server_ids>>
  BY DEF RefuseData, ServerOpens, CommitSession
<1>2. /\ Opened(frame).conversations = sessions[id].conversations
      /\ Opened(frame).handles = sessions[id].handles
  BY <1>1, OpenedOK DEF RegistryInv
<1> QED BY <1>1, <1>2, SameSession DEF RegistryStep

\* Data on a known handle changes nothing here; otherwise it opens the next
\* conversation.
LEMMA DeliverDataStep ==
    ASSUME RegistryInv, NEW peer, NEW frame, DeliverData(peer, frame)
    PROVE  RegistryStep
<1> DEFINE id == frame.key.session_id
           o == Opened(frame)
           s == Touched(frame)
           c == ConversationOf(frame)
<1>1. /\ id \in DOMAIN sessions
      /\ resumable' = resumable
      /\ server_ids' = IF KnowsHandle(frame) THEN server_ids ELSE server_ids + 1
  BY DEF DeliverData, ServerOpens
<1>2. /\ SessionOK(id, o, server_ids, now)
      /\ o.conversations = sessions[id].conversations /\ o.handles = sessions[id].handles
      /\ HandlesOK(o.handles, DOMAIN o.conversations)
  BY <1>1, OpenedOK DEF RegistryInv, SessionOK
<1>3. /\ DOMAIN s = SessionFields
      /\ s.handles = IF KnowsHandle(frame) THEN o.handles ELSE Bound(o.handles, frame.handle, c)
      /\ s.conversations = Put(o.conversations, c, now)
  BY <1>2 DEF Touched, SessionOK, SessionFields
<1>4. PICK new :
          /\ sessions' = [sessions EXCEPT ![id] = new]
          /\ new.handles = s.handles /\ new.conversations = s.conversations
  <2>1. PICK order \in SetToSeqs(ToCredit(frame)) :
            CommitSession(frame, [s EXCEPT
                !.next_packet_number = @ + Len(order),
                !.credential_expires_at = IF RefreshDue(s) THEN now + ResumptionLifetime
                                          ELSE @])
    BY DEF DeliverData
  <2> DEFINE new == [s EXCEPT
                !.next_packet_number = @ + Len(order),
                !.credential_expires_at = IF RefreshDue(s) THEN now + ResumptionLifetime
                                          ELSE @]
  <2>2. sessions' = [sessions EXCEPT ![id] = new]
    BY <2>1 DEF CommitSession
  <2> HIDE DEF s
  <2>3. new.handles = s.handles /\ new.conversations = s.conversations
    BY <1>3 DEF SessionFields
  <2> QED BY <2>2, <2>3
<1>5. DOMAIN new.conversations = DOMAIN o.conversations \cup {c}
  BY <1>3, <1>4 DEF Put
<1>6. KeptForResumption' = KeptForResumption
  BY <1>1 DEF KeptForResumption
<1>7. CASE KnowsHandle(frame)
  <2>1. c \in DOMAIN o.conversations
    BY <1>2, <1>7 DEF KnowsHandle, ConversationOf, HandlesOK, MutuallyInverse
  <2> HIDE DEF o, s, c, id
  <2>2. /\ DOMAIN new.conversations = DOMAIN sessions[id].conversations
        /\ DOMAIN new.handles.by_id = DOMAIN sessions[id].handles.by_id
    BY <1>2, <1>3, <1>4, <1>5, <1>7, <2>1
  <2> QED BY <1>1, <1>4, <1>7, <2>2, SameSession DEF RegistryStep
<1>8. CASE ~KnowsHandle(frame)
  <2>1. c = server_ids + 1 /\ server_ids' = c
    BY <1>1, <1>8 DEF ConversationOf
  <2> HIDE DEF o, s, c, id
  <2>2. DOMAIN new.handles.by_id = DOMAIN o.handles.by_id \cup {c}
    BY <1>2, <1>3, <1>4, <1>8, BoundAdds
  <2>3. /\ DOMAIN sessions' = DOMAIN sessions
        /\ sessions'[id] = new
        /\ \A j \in DOMAIN sessions : j # id => sessions'[j] = sessions[j]
    BY <1>1, <1>4
  <2>4. Registered' = [Registered EXCEPT ![id] = [held |-> @.held \cup {c},
                                                  bound |-> @.bound \cup {c}]]
    BY <1>1, <1>2, <1>5, <2>2, <2>3 DEF Registered
  <2>5. id \in DOMAIN Registered
    BY <1>1, RegisteredAt
  <2>6. Registry!OpenConversation(id)
    BY <1>6, <2>1, <2>4, <2>5 DEF Registry!OpenConversation
  <2> QED BY <2>5, <2>6 DEF RegistryStep, Registry!RegistryNext
<1> QED BY <1>7, <1>8

LEMMA UpstreamStep ==
    ASSUME RegistryInv, NEW id \in DOMAIN sessions, NEW c, HandleUpstream(id, c)
    PROVE  RegistryStep
<1>1. PICK new :
          /\ sessions' = [sessions EXCEPT ![id] = new]
          /\ new.handles = sessions[id].handles
          /\ new.conversations = sessions[id].conversations
  <2> DEFINE s == sessions[id]
             new == [s EXCEPT !.last_activity = now, !.next_packet_number = @ + 1]
  <2>1. sessions' = [sessions EXCEPT ![id] = new]
    BY DEF HandleUpstream
  <2>2. DOMAIN s = SessionFields
    BY DEF RegistryInv, ServerInv, SessionOK
  <2> HIDE DEF s
  <2>3. new.handles = s.handles /\ new.conversations = s.conversations
    BY <2>2 DEF SessionFields
  <2> QED BY <2>1, <2>3 DEF s
<1>2. UNCHANGED <<resumable, server_ids>>
  BY DEF HandleUpstream
<1> QED BY <1>1, <1>2, SameSession DEF RegistryStep

\* Dropped conversations are neither held nor bound.
LEMMA DroppedEntry ==
    ASSUME NEW id, NEW s, NEW n, NEW t, SessionOK(id, s, n, t), NEW ids
    PROVE  /\ DOMAIN DropConversations(s, ids).conversations = DOMAIN s.conversations \ ids
           /\ DOMAIN DropConversations(s, ids).handles.by_id = DOMAIN s.handles.by_id \ ids
<1> DEFINE d == DropConversations(s, ids)
<1>1. /\ d.conversations = Without(s.conversations, ids)
      /\ d.handles = RemoveIds(s.handles, ids)
  BY DEF DropConversations, SessionOK, SessionFields
<1>2. d.handles.by_id = Without(s.handles.by_id, ids)
  BY <1>1 DEF RemoveIds, SessionOK, HandlesOK
<1> QED BY <1>1, <1>2 DEF Without

LEMMA CloseStep ==
    ASSUME RegistryInv, NEW id \in DOMAIN sessions, NEW c, ServerClose(id, c)
    PROVE  RegistryStep
<1> DEFINE new == DropConversations(sessions[id], {c})
<1>1. /\ sessions' = [sessions EXCEPT ![id] = new]
      /\ c \in DOMAIN sessions[id].conversations
      /\ UNCHANGED <<resumable, server_ids>>
  BY DEF ServerClose
<1>2. /\ DOMAIN new.conversations = Registered[id].held \ {c}
      /\ DOMAIN new.handles.by_id = Registered[id].bound \ {c}
  BY DroppedEntry, RegisteredAt DEF RegistryInv, ServerInv
<1> HIDE DEF new
<1>3. /\ DOMAIN sessions' = DOMAIN sessions
      /\ sessions'[id] = new
      /\ \A j \in DOMAIN sessions : j # id => sessions'[j] = sessions[j]
  BY <1>1
<1>4. \A j \in DOMAIN sessions : j # id => c \notin Registered[j].held /\ c \notin Registered[j].bound
  BY <1>1, HeldApart, RegisteredAt DEF RegistryInv
<1>5. \A j \in DOMAIN sessions :
          /\ DOMAIN sessions'[j].conversations = Registered[j].held \ {c}
          /\ DOMAIN sessions'[j].handles.by_id = Registered[j].bound \ {c}
  BY <1>2, <1>3, <1>4, RegisteredAt
<1>6. Registered' = [j \in DOMAIN Registered |-> [held |-> Registered[j].held \ {c},
                                                  bound |-> Registered[j].bound \ {c}]]
  <2>1. Registered' = [j \in DOMAIN sessions' |->
                          [held |-> DOMAIN sessions'[j].conversations,
                           bound |-> DOMAIN sessions'[j].handles.by_id]]
    BY DEF Registered
  <2> QED BY <2>1, <1>3, <1>5, RegisteredAt
<1>7. KeptForResumption' = KeptForResumption /\ server_ids' = server_ids
  BY <1>1 DEF KeptForResumption
<1>8. id \in DOMAIN Registered /\ c \in Registered[id].held
  BY <1>1, RegisteredAt
<1>9. Registry!CloseConversation(id, c)
  BY <1>6, <1>7, <1>8 DEF Registry!CloseConversation, Registry!Closed
<1> QED BY <1>8, <1>9 DEF RegistryStep, Registry!RegistryNext
-----------------------------------------------------------------------------
\* An established session starts empty; a resumed one takes over what the
\* old one held, which ends.
LEMMA EstablishStep ==
    ASSUME RegistryInv, NEW peer, NEW transcript, Establish(peer, transcript)
    PROVE  RegistryStep
<1> DEFINE id == transcript.session_id
           old == pending[id].resume_from
           new == NewServerSession(peer, transcript, old)
           held == DOMAIN Inherited(old)
<1>1. /\ id \in DOMAIN pending
      /\ sessions' = Put(Without(sessions, {old}), id, new)
      /\ resumable' = IF old \in DOMAIN sessions THEN resumable ELSE Without(resumable, {old})
      /\ server_ids' = server_ids
  BY DEF Establish, SessionsLeft
<1>2. new.conversations = Inherited(old) /\ DOMAIN new.handles.by_id = {}
  BY DEF NewServerSession, NoHandles, EmptyMap
<1>3. /\ DOMAIN sessions \cap DOMAIN resumable = {}
      /\ id \notin DOMAIN sessions /\ id \notin DOMAIN resumable
      /\ id \in 1 .. MaxSessionIds
      /\ DOMAIN sessions \cup DOMAIN resumable \subseteq Nat
      /\ None \notin Nat
      /\ old # None => old \in 1 .. id - 1
  BY <1>1, ServerAssumption
     DEF RegistryInv, ServerInv, Counters, SessionIdsExclusive, ResumesOlder
<1> HIDE DEF new
<1>4. /\ DOMAIN sessions' = (DOMAIN sessions \ {old}) \cup {id}
      /\ sessions'[id] = new
      /\ \A j \in DOMAIN sessions \ {old} : sessions'[j] = sessions[j]
  BY <1>1, <1>3 DEF Put, Without
<1>5. /\ DOMAIN resumable' = DOMAIN resumable \ {old}
      /\ \A j \in DOMAIN resumable' : resumable'[j] = resumable[j]
  BY <1>1, <1>3 DEF Without
<1>6. Registered' = Put(Without(Registered, {old}), id, [held |-> held, bound |-> {}])
  <2>1. Registered' = [j \in DOMAIN sessions' |->
                          [held |-> DOMAIN sessions'[j].conversations,
                           bound |-> DOMAIN sessions'[j].handles.by_id]]
    BY DEF Registered
  <2> DEFINE R == Put(Without(Registered, {old}), id, [held |-> held, bound |-> {}])
  <2>2. R = [j \in (DOMAIN sessions \ {old}) \cup {id} |->
                IF j = id THEN [held |-> held, bound |-> {}] ELSE Registered[j]]
    BY RegisteredAt DEF Put, Without
  <2> HIDE DEF R, held, old, id
  <2>3. \A j \in DOMAIN sessions' :
            [held |-> DOMAIN sessions'[j].conversations,
             bound |-> DOMAIN sessions'[j].handles.by_id]
            = IF j = id THEN [held |-> held, bound |-> {}] ELSE Registered[j]
    BY <1>2, <1>4, RegisteredAt DEF held
  <2>4. Registered' = R
    BY <1>4, <2>1, <2>2, <2>3
  <2> QED BY <2>4 DEF R
<1>7. KeptForResumption' = Without(KeptForResumption, {old})
  BY <1>5 DEF KeptForResumption, Without
<1>8. id \in 1 .. MaxSessionIds \ (DOMAIN Registered \cup DOMAIN KeptForResumption)
  BY <1>3 DEF Registered, KeptForResumption
<1>9. CASE old = None
  <2>1. /\ held = {}
        /\ Without(Registered, {old}) = Registered
        /\ Without(KeptForResumption, {old}) = KeptForResumption
    BY <1>3, <1>9 DEF Inherited, EmptyMap, Without, Registered, KeptForResumption
  <2> HIDE DEF id, old, held
  <2>2. Registry!EstablishSession(id)
    BY <1>1, <1>6, <1>7, <1>8, <2>1, SameMaps DEF Registry!EstablishSession, Registry!NewId
  <2> QED BY <1>3, <2>2 DEF RegistryStep, Registry!RegistryNext
<1>10. CASE old # None
  <2>1. held = Registry!HeldBy(old)
    BY DEF Registry!HeldBy, Inherited, Registered, KeptForResumption, EmptyMap
  <2> HIDE DEF id, old, held
  <2>2. Registry!ResumeSession(old, id)
    BY <1>1, <1>6, <1>7, <1>8, <2>1, SameMaps DEF Registry!ResumeSession, Registry!NewId
  <2>3. old \in (1 .. MaxSessionIds) \ {id}
    BY <1>3, <1>10, ServerAssumption
  <2> QED BY <1>3, <2>2, <2>3 DEF RegistryStep, Registry!RegistryNext
<1> QED BY <1>9, <1>10

\* One expiry closes idle conversations, then idle sessions, keeps those that
\* still hold something and forgets the ones whose time is over.
LEMMA ExpireStep ==
    ASSUME RegistryInv, ServerExpire
    PROVE  RegistryStep
<1> DEFINE ids == UNION {IdleConversations(sessions[s]) : s \in DOMAIN sessions}
           idle == IdleSessions
           forgotten == {s \in DOMAIN resumable : now >= resumable[s].expires_at}
           retained == {s \in idle : DOMAIN Live[s].conversations # {}}
           C == Registry!Closed(ids)
<1>1. /\ ServerInv /\ now \in Nat /\ DOMAIN sessions \cap DOMAIN resumable = {}
      /\ DOMAIN Live = DOMAIN sessions /\ idle \subseteq DOMAIN sessions
  BY LiveOK DEF RegistryInv, ServerInv, Counters, SessionIdsExclusive, IdleSessions
<1>2. ASSUME NEW s \in DOMAIN sessions
      PROVE  /\ DOMAIN Live[s].conversations = Registered[s].held \ ids
             /\ DOMAIN Live[s].handles.by_id = Registered[s].bound \ ids
  <2> DEFINE gone == IdleConversations(sessions[s])
  <2>1. /\ DOMAIN Live[s].conversations = Registered[s].held \ gone
        /\ DOMAIN Live[s].handles.by_id = Registered[s].bound \ gone
    <3>1. Live[s] = DropConversations(sessions[s], gone)
      BY <1>2 DEF Live
    <3>2. SessionOK(s, sessions[s], server_ids, now)
      BY <1>1, <1>2 DEF ServerInv
    <3> QED BY <1>2, <3>1, <3>2, DroppedEntry, RegisteredAt
  <2>2. gone \subseteq ids
    BY <1>2
  <2>3. ASSUME NEW c \in ids, c \in Registered[s].held
        PROVE  c \in gone
    <3>1. PICK t \in DOMAIN sessions : c \in IdleConversations(sessions[t])
      BY <2>3
    <3>2. c \in Registered[t].held
      BY <3>1, RegisteredAt DEF IdleConversations
    <3>3. t = s
      BY <1>1, <1>2, <2>3, <3>2, HeldApart
    <3> QED BY <3>1, <3>3
  <2>4. Registered[s].bound \subseteq Registered[s].held
    BY <1>1, <1>2, RegisteredAt DEF ServerInv, SessionOK, HandlesOK
  <2> HIDE DEF ids, gone
  <2> QED BY <2>1, <2>2, <2>3, <2>4
<1> HIDE DEF ids
<1>3. /\ DOMAIN C = DOMAIN sessions
      /\ \A s \in DOMAIN sessions :
             C[s] = [held |-> DOMAIN Live[s].conversations,
                     bound |-> DOMAIN Live[s].handles.by_id]
  BY <1>2, RegisteredAt DEF Registry!Closed
<1>4. /\ DOMAIN sessions' = DOMAIN sessions \ idle
      /\ \A s \in DOMAIN sessions' : sessions'[s] = Live[s]
      /\ server_ids' = server_ids
  BY <1>1 DEF ServerExpire, Without
<1>5. /\ DOMAIN resumable' = (DOMAIN resumable \ forgotten) \cup retained
      /\ \A s \in DOMAIN resumable' :
             resumable'[s].conversations = IF s \in retained THEN Live[s].conversations
                                           ELSE resumable[s].conversations
  <2>1. /\ DOMAIN Retired = DOMAIN resumable \cup retained
        /\ \A s \in retained : Retired[s] = [conversations |-> Live[s].conversations,
                                             expires_at |-> now + ResumptionLifetime]
        /\ \A s \in DOMAIN resumable \ retained : Retired[s] = resumable[s]
    BY DEF Retired
  <2>2. retained \cap DOMAIN resumable = {}
    BY <1>1
  <2> HIDE DEF retained
  <2>3. {s \in DOMAIN Retired : now >= Retired[s].expires_at} = forgotten
    <3>1. ASSUME NEW s \in retained PROVE ~(now >= Retired[s].expires_at)
      BY <1>1, <2>1, <3>1, ServerAssumption
    <3> QED BY <2>1, <2>2, <3>1
  <2> HIDE DEF forgotten
  <2>4. resumable' = Without(Retired, forgotten)
    BY <2>3 DEF ServerExpire
  <2>5. forgotten \subseteq DOMAIN resumable
    BY DEF forgotten
  <2>6. DOMAIN resumable' = (DOMAIN resumable \ forgotten) \cup retained
    BY <2>1, <2>2, <2>4, <2>5 DEF Without
  <2>7. \A s \in DOMAIN resumable' : resumable'[s] = Retired[s]
    BY <2>4 DEF Without
  <2>8. \A s \in retained : Retired[s].conversations = Live[s].conversations
    BY <2>1
  <2>9. \A s \in DOMAIN resumable' \ retained : s \in DOMAIN resumable \ retained
    BY <2>6
  <2>10. \A s \in DOMAIN resumable' \ retained :
             Retired[s].conversations = resumable[s].conversations
    BY <2>1, <2>9
  <2> QED BY <2>6, <2>7, <2>8, <2>10
<1>6. Registered' = Without(C, idle)
  <2>1. Registered' = [s \in DOMAIN sessions' |->
                          [held |-> DOMAIN sessions'[s].conversations,
                           bound |-> DOMAIN sessions'[s].handles.by_id]]
    BY DEF Registered
  <2> HIDE DEF C, idle
  <2>2. Without(C, idle) = [s \in DOMAIN sessions \ idle |-> C[s]]
    BY <1>3 DEF Without
  <2> QED BY <1>3, <1>4, <2>1, <2>2
<1>7. retained = {s \in idle : C[s].held # {}}
  BY <1>1, <1>3
<1>8. KeptForResumption' = [s \in (DOMAIN KeptForResumption \ forgotten) \cup retained |->
                               IF s \in retained THEN C[s].held ELSE KeptForResumption[s]]
  <2>1. KeptForResumption' = [s \in DOMAIN resumable' |-> DOMAIN resumable'[s].conversations]
    BY DEF KeptForResumption
  <2>2. /\ DOMAIN KeptForResumption = DOMAIN resumable
        /\ \A s \in DOMAIN resumable : KeptForResumption[s] = DOMAIN resumable[s].conversations
    BY DEF KeptForResumption
  <2>3. retained \subseteq DOMAIN sessions
    BY <1>1
  <2> HIDE DEF C, retained, forgotten
  <2>4. \A s \in retained : C[s].held = DOMAIN Live[s].conversations
    BY <1>3, <2>3
  <2> QED BY <1>5, <2>1, <2>2, <2>4
<1>9. /\ ids \in SUBSET UNION {Registered[s].held : s \in DOMAIN Registered}
      /\ idle \in SUBSET DOMAIN Registered
      /\ forgotten \in SUBSET DOMAIN KeptForResumption
  <2>1. \A s \in DOMAIN sessions : IdleConversations(sessions[s]) \subseteq Registered[s].held
    BY RegisteredAt DEF IdleConversations
  <2>2. ids \subseteq UNION {Registered[s].held : s \in DOMAIN Registered}
    BY <2>1, RegisteredAt DEF ids
  <2> QED BY <1>1, <2>2, RegisteredAt DEF KeptForResumption
<1> HIDE DEF idle, forgotten
<1>10. Registry!ExpireSessions(ids, idle, forgotten)
  <2> HIDE DEF retained
  <2> QED BY <1>4, <1>6, <1>7, <1>8, SameMaps DEF Registry!ExpireSessions
<1> QED BY <1>9, <1>10 DEF RegistryStep, Registry!RegistryNext
-----------------------------------------------------------------------------
\* A new handshake resumes a session that exists, and so has a lower number.
LEMMA OpenPendingOlder ==
    ASSUME RegistryInv, NEW peer, NEW hello, OpenPending(peer, hello)
    PROVE  session_ids' <= MaxSessionIds /\ ResumesOlder'
<1> DEFINE id == session_ids + 1
           old == ResumeFrom(hello.resumption)
<1>1. /\ session_ids \in Nat /\ MaxSessionIds \in Nat
      /\ session_ids < MaxSessionIds /\ session_ids' = id
      /\ pending' = Put(pending, id, [peer |-> peer, created_at |-> now, hello |-> hello,
                                      resume_from |-> old])
  BY ServerAssumption DEF OpenPending, RegistryInv, ServerInv, Counters
<1>2. old # None => old \in DOMAIN sessions \cup DOMAIN resumable
  BY DEF ResumeFrom, HoldsConversation
<1>3. old # None => old \in 1 .. id - 1
  BY <1>1, <1>2 DEF RegistryInv, ServerInv
<1> HIDE DEF id, old
<1>4. /\ DOMAIN pending' = DOMAIN pending \cup {id}
      /\ pending'[id].resume_from = old
      /\ \A j \in DOMAIN pending : j # id => pending'[j] = pending[j]
  BY <1>1 DEF Put
<1>5. ResumesOlder'
  <2> SUFFICES ASSUME NEW j \in DOMAIN pending', pending'[j].resume_from # None
               PROVE  pending'[j].resume_from \in 1 .. j - 1
    BY DEF ResumesOlder
  <2>1. CASE j = id
    BY <1>3, <1>4, <2>1
  <2>2. CASE j # id
    <3>1. j \in DOMAIN pending /\ pending'[j] = pending[j]
      BY <1>4, <2>2
    <3> QED BY <3>1 DEF ResumesOlder, RegistryInv
  <2> QED BY <2>1, <2>2
<1> QED BY <1>1, <1>5 DEF id

\* Every step keeps the invariant and is a step of the registry.
LEMMA RegistryStepOK ==
    ASSUME RegistryInv, [Next]_vars
    PROVE  RegistryInv' /\ RegistryStep
<1>1. ServerInv'
  BY ServerStepOK DEF RegistryInv
<1>2. ASSUME session_ids' = session_ids, DOMAIN pending' \subseteq DOMAIN pending,
             \A id \in DOMAIN pending' : pending'[id] = pending[id]
      PROVE  RegistryInv'
  BY <1>1, <1>2 DEF RegistryInv, ResumesOlder
<1>3. ASSUME UNCHANGED <<pending, sessions, resumable, session_ids, server_ids>>
      PROVE  RegistryInv' /\ RegistryStep
  BY <1>2, <1>3 DEF RegistryStep, RegistryUnchanged, Registered, KeptForResumption
<1>4. CASE ClientStep
  BY <1>3, <1>4 DEF ClientStep, serverVars, serverState
<1>5. CASE NetworkStep
  BY <1>3, <1>5 DEF NetworkStep, serverVars, serverState
<1>6. CASE UNCHANGED vars
  BY <1>3, <1>6 DEF vars, serverVars, serverState
<1>7. CASE ServerStep
  <2>1. ASSUME NEW peer, NEW hello, HandleClientHello(peer, hello)
        PROVE  RegistryInv' /\ RegistryStep
    <3>1. CASE OpenPending(peer, hello)
      <4>1. RegistryInv'
        BY <1>1, <3>1, OpenPendingOlder DEF RegistryInv
      <4>2. UNCHANGED <<sessions, resumable, server_ids>>
        BY <2>1 DEF HandleClientHello
      <4>3. RegistryUnchanged
        BY <4>2 DEF RegistryUnchanged, Registered, KeptForResumption
      <4> QED BY <4>1, <4>3 DEF RegistryStep
    <3>2. CASE ~OpenPending(peer, hello)
      <4>1. UNCHANGED <<pending, sessions, resumable, session_ids, server_ids>>
        BY <2>1, <3>2 DEF HandleClientHello, SendHelloRetry, RepeatServerHello
      <4> QED BY <1>3, <4>1
    <3> QED BY <3>1, <3>2
  <2>2. ASSUME NEW peer, NEW transcript, HandleClientFinish(peer, transcript)
        PROVE  RegistryInv' /\ RegistryStep
    <3>1. CASE Establish(peer, transcript)
      <4>1. RegistryInv'
        BY <1>2, <3>1 DEF Establish, Without
      <4> QED BY <3>1, <4>1, EstablishStep
    <3>2. CASE RepeatAck(peer, transcript)
      BY <1>3, <3>2 DEF RepeatAck, serverState
    <3> QED BY <2>2, <3>1, <3>2 DEF HandleClientFinish
  <2>3. ASSUME NEW peer, NEW frame, HandleRecord(peer, frame)
        PROVE  RegistryInv' /\ RegistryStep
    <3>1. RegistryInv'
      BY <1>2, <2>3 DEF HandleRecord, HandleResumeConversation, RefuseData, DeliverData,
                        RefreshPanics
    <3>2. CASE RefreshPanics(peer, frame)
      BY <1>3, <3>2 DEF RefreshPanics
    <3> QED BY <2>3, <3>1, <3>2, ResumeConversationStep, RefuseDataStep, DeliverDataStep
            DEF HandleRecord
  <2>4. ASSUME NEW id \in DOMAIN sessions, NEW c, HandleUpstream(id, c) \/ ServerClose(id, c)
        PROVE  RegistryInv' /\ RegistryStep
    <3>1. RegistryInv'
      BY <1>2, <2>4 DEF HandleUpstream, ServerClose
    <3> QED BY <2>4, <3>1, UpstreamStep, CloseStep
  <2>5. ASSUME ServerExpire PROVE RegistryInv' /\ RegistryStep
    <3>1. RegistryInv'
      BY <1>2, <2>5 DEF ServerExpire, Without
    <3> QED BY <2>5, <3>1, ExpireStep
  <2> QED BY <1>7, <2>1, <2>2, <2>3, <2>4, <2>5 DEF ServerStep, ServerNext, ServerHandleTunnel
<1> QED BY <1>4, <1>5, <1>6, <1>7 DEF Next

\* The server engine implements SessionRegistry: for every configuration and
\* whatever the client sends, what its host sees of sessions and conversations
\* changes only as the registry allows.
THEOREM EngineImplementsRegistry == Spec => ImplementsRegistry
<1>1. Init => RegistryInv /\ Registry!RegistryInit
  <2>1. Init => session_ids <= MaxSessionIds /\ ResumesOlder
    BY ServerAssumption DEF Init, ServerInit, EmptyMap, ResumesOlder
  <2>2. Init => Registry!RegistryInit
    BY DEF Init, ServerInit, EmptyMap, Registered, KeptForResumption,
           Registry!RegistryInit, Registry!EmptyMap
  <2> QED BY <2>1, <2>2, ServerInitially DEF RegistryInv
<1>2. RegistryInv /\ [Next]_vars => RegistryInv' /\ [Registry!RegistryNext]_(Registry!registryVars)
  BY RegistryStepOK DEF RegistryStep, RegistryUnchanged, Registry!registryVars
<1> QED BY <1>1, <1>2, PTL DEF Spec, ImplementsRegistry, Registry!RegistrySpec
=============================================================================
