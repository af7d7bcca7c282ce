-------------------------- MODULE SessionRegistry ---------------------------
(***************************************************************************)
(* What the server engine promises its host about sessions and            *)
(* conversations, without clock, keys and frames: which conversations a   *)
(* session holds, for which of them it can send (their handle is bound),  *)
(* and which are kept for a session that was closed and may be resumed.   *)
(* Tunnel shows that the engine implements it; UpstreamRoutes runs the    *)
(* managed service on it.                                                 *)
(***************************************************************************)
EXTENDS Integers, Maps

CONSTANT SessionIds

VARIABLES live,    \* session id -> the conversations it holds and has bound
          kept,    \* closed session id -> the conversations kept for it
          opened   \* conversations opened so far, numbered from 1

registryVars == <<live, kept, opened>>

RegistryInit ==
    /\ live = EmptyMap
    /\ kept = EmptyMap
    /\ opened = 0

HeldBy(s) ==
    IF s \in DOMAIN live THEN live[s].held
    ELSE IF s \in DOMAIN kept THEN kept[s]
    ELSE {}

NewId(s) == s \in SessionIds \ (DOMAIN live \cup DOMAIN kept)

EstablishSession(s) ==
    /\ NewId(s)
    /\ live' = Put(live, s, [held |-> {}, bound |-> {}])
    /\ UNCHANGED <<kept, opened>>

\* The new session takes over what the old one holds or what is kept for
\* it, which is nothing if it is gone; no handle is bound yet.
ResumeSession(old, s) ==
    /\ NewId(s)
    /\ live' = Put(Without(live, {old}), s, [held |-> HeldBy(old), bound |-> {}])
    /\ kept' = Without(kept, {old})
    /\ UNCHANGED opened

BindConversation(s, id) ==
    /\ s \in DOMAIN live
    /\ id \in live[s].held
    /\ live' = [live EXCEPT ![s].bound = @ \cup {id}]
    /\ UNCHANGED <<kept, opened>>

\* The id of a new conversation was never used before.
OpenConversation(s) ==
    /\ s \in DOMAIN live
    /\ opened' = opened + 1
    /\ live' = [live EXCEPT ![s] = [held |-> @.held \cup {opened'}, bound |-> @.bound \cup {opened'}]]
    /\ UNCHANGED kept

Closed(ids) ==
    [s \in DOMAIN live |-> [held |-> live[s].held \ ids, bound |-> live[s].bound \ ids]]

CloseConversation(s, id) ==
    /\ s \in DOMAIN live
    /\ id \in live[s].held
    /\ live' = Closed({id})
    /\ UNCHANGED <<kept, opened>>

\* One pass of the timer: conversations are closed, then sessions, of which
\* those that still hold a conversation are kept; kept ones are forgotten.
ExpireSessions(ids, idle, forgotten) ==
    LET retained == {s \in idle : Closed(ids)[s].held # {}}
    IN  /\ live' = Without(Closed(ids), idle)
        /\ kept' = [s \in (DOMAIN kept \ forgotten) \cup retained |->
                       IF s \in retained THEN Closed(ids)[s].held ELSE kept[s]]
        /\ UNCHANGED opened

RegistryNext ==
    \/ \E s \in SessionIds :
           \/ EstablishSession(s)
           \/ \E old \in SessionIds \ {s} : ResumeSession(old, s)
    \/ \E s \in DOMAIN live :
           \/ OpenConversation(s)
           \/ \E id \in live[s].held : BindConversation(s, id) \/ CloseConversation(s, id)
    \/ \E ids \in SUBSET UNION {live[s].held : s \in DOMAIN live},
          idle \in SUBSET DOMAIN live, forgotten \in SUBSET DOMAIN kept :
           ExpireSessions(ids, idle, forgotten)

RegistrySpec == RegistryInit /\ [][RegistryNext]_registryVars
=============================================================================
