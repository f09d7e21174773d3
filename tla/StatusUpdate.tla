---------------------------- MODULE StatusUpdate ----------------------------
(***************************************************************************)
(* PATCH /agents/{id}/status: UpdateAgentStatusUseCase.execute over        *)
(* PostgresAgentRepository.get_by_id and save.  The agent is read without  *)
(* a lock, changed in memory, and written back by a flush that knows only  *)
(* what its own session loaded; there is no version column.                *)
(***************************************************************************)
EXTENDS AgentStore

Patching(r, stage) ==
    /\ input[r].op = "patch"
    /\ input[r].ok
    /\ pc[r] = stage

(* get_by_id finds the agent and its domain object takes the transition.   *)
Load(r) ==
    /\ Patching(r, "arrived")
    /\ LET row == Row(AgentOf(r)) IN
        /\ row.status # "ABSENT"
        /\ Permits(row, input[r].target)
        /\ base' = [base EXCEPT ![r] = row]
        /\ entity' = [entity EXCEPT ![r] = Transition(row, input[r].target, r)]
    /\ pc' = [pc EXCEPT ![r] = "loaded"]
    /\ UNCHANGED <<tables, input, inserted, reply, before, missed, faults>>

(* get_by_id finds no agent: 404.                                          *)
PatchNotFound(r) ==
    /\ Patching(r, "arrived")
    /\ status[AgentOf(r)] = "ABSENT"
    /\ End(r, "notfound")
    /\ UNCHANGED faults

(* suspend or activate raises InvalidAgentStatusException: 400.            *)
PatchConflict(r) ==
    /\ Patching(r, "arrived")
    /\ status[AgentOf(r)] # "ABSENT"
    /\ ~Permits(Row(AgentOf(r)), input[r].target)
    /\ End(r, "conflict")
    /\ UNCHANGED faults

(* save selects the agent again and copies the domain object over it.  The *)
(* identity map holds instances weakly: if the first one is still alive it  *)
(* keeps the values loaded then, keys included, otherwise a new one carries *)
(* what is committed now.  The copy is what the flush finds different.      *)
Save(r) ==
    /\ Patching(r, "loaded")
    /\ \E kept \in BOOLEAN :
        base' = [base EXCEPT ![r] = IF kept THEN @ ELSE Row(AgentOf(r))]
    /\ pc' = [pc EXCEPT ![r] = "dirty"]
    /\ UNCHANGED <<tables, input, entity, inserted, reply, before, missed, faults>>

(* Two flushes collide when they update the same row.                      *)
Collide(r, q) == /\ AgentOf(r) = AgentOf(q)
                 /\ \/ DirtyAgent(r) /\ DirtyAgent(q)
                    \/ DirtyKeys(r) \cap DirtyKeys(q) # {}

(* flush sends the UPDATEs, agents first and then public_keys by primary   *)
(* key, so they cannot deadlock; they wait for the row locks of others.    *)
Flush(r) ==
    /\ Patching(r, "dirty")
    /\ \A q \in Requests \ {r} : Open(q) => ~Collide(r, q)
    /\ pc' = [pc EXCEPT ![r] = "flushed"]
    /\ UNCHANGED <<tables, session, input, reply, before, missed, faults>>

Patch(r) == Load(r) \/ PatchNotFound(r) \/ PatchConflict(r) \/ Save(r) \/ Flush(r)

=============================================================================
