------------------------ MODULE ConversationHandles -------------------------
(***************************************************************************)
(* SessionConversationHandles of engine.rs: the two maps between the wire *)
(* handles of one session and the conversation ids of one side.  The      *)
(* client allocates handles, the server binds the ones it is shown.  The  *)
(* exhaustion of the 32-bit allocator is not reached.                     *)
(***************************************************************************)
EXTENDS Wire

NoHandles == [by_handle |-> EmptyMap, by_id |-> EmptyMap, next_handle |-> 1]

Bound(handles, handle, id) ==
    [handles EXCEPT !.by_handle = Put(@, handle, id), !.by_id = Put(@, id, handle)]

\* Mutant: the allocator does not advance.
AllocateSameHandle(handles, id) ==
    IF id \in DOMAIN handles.by_id THEN handles ELSE Bound(handles, handles.next_handle, id)

HandleForOrAllocate(handles, id) ==
    IF id \in DOMAIN handles.by_id
    THEN handles
    ELSE [Bound(handles, handles.next_handle, id) EXCEPT !.next_handle = @ + 1]

CanBind(handles, handle, id) ==
    handle \notin DOMAIN handles.by_handle /\ id \notin DOMAIN handles.by_id

RemoveIds(handles, ids) ==
    [handles EXCEPT
        !.by_handle = Without(@, {handles.by_id[id] : id \in ids \cap DOMAIN handles.by_id}),
        !.by_id = Without(@, ids)]

\* The two maps are inverse to each other.
MutuallyInverse(handles) ==
    /\ \A handle \in DOMAIN handles.by_handle :
           /\ handles.by_handle[handle] \in DOMAIN handles.by_id
           /\ handles.by_id[handles.by_handle[handle]] = handle
    /\ \A id \in DOMAIN handles.by_id :
           /\ handles.by_id[id] \in DOMAIN handles.by_handle
           /\ handles.by_handle[handles.by_id[id]] = id
=============================================================================
