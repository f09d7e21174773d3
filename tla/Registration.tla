---------------------------- MODULE Registration ----------------------------
(***************************************************************************)
(* POST /agents: RegisterAgentUseCase.execute over                         *)
(* PostgresAgentRepository.save.  The agent row is inserted first, then    *)
(* the key rows in the order of the payload.  key_id is the primary key of *)
(* public_keys: inserting one that another open transaction has inserted   *)
(* waits for that transaction, inserting one that is committed fails.      *)
(***************************************************************************)
EXTENDS AgentStore

Registering(r, stage) ==
    /\ input[r].op = "register"
    /\ input[r].ok
    /\ pc[r] = stage

NextKey(r) == input[r].keys[inserted[r] + 1]

(* r has to wait for q before it can insert its next key.                  *)
WaitsFor(r, q) ==
    /\ Registering(r, "inserting")
    /\ q # r
    /\ NextKey(r) \in Inserted(q)

(* Slip: a key row that is not committed yet counts as a conflict.          *)
TakenByAnyone(r) ==
    owner[NextKey(r)] # NoAgent \/ \E q \in Requests : NextKey(r) \in Inserted(q)

(* Slip: an existing row is taken over, as an upsert would.                 *)
TakenInPayload(r) == NextKey(r) \in Inserted(r)

(* The next key exists, or the payload names it twice: save does not       *)
(* remember in existing_pk_map the rows it adds.                           *)
Taken(r) == owner[NextKey(r)] # NoAgent \/ NextKey(r) \in Inserted(r)

(* save finds no row under the new ULID and inserts the agent.             *)
InsertAgent(r) ==
    /\ Registering(r, "arrived")
    /\ entity' = [entity EXCEPT ![r] = Registered(ToSet(input[r].keys), r)]
    /\ pc' = [pc EXCEPT ![r] = "inserting"]
    /\ UNCHANGED <<tables, input, base, inserted, reply, before, missed, faults>>

(* Slip: the flush is taken for complete one key too early.                *)
InsertKeyStopsEarly(r) ==
    /\ Registering(r, "inserting")
    /\ ~Taken(r)
    /\ \A q \in Requests : ~WaitsFor(r, q)
    /\ inserted' = [inserted EXCEPT ![r] = @ + 1]
    /\ pc' = [pc EXCEPT ![r] = IF inserted[r] + 2 >= Len(input[r].keys)
                                    THEN "flushed" ELSE "inserting"]
    /\ UNCHANGED <<tables, input, entity, base, reply, before, missed, faults>>

(* The next key row goes in; after the last one the flush is complete.     *)
InsertKey(r) ==
    /\ Registering(r, "inserting")
    /\ ~Taken(r)
    /\ \A q \in Requests : ~WaitsFor(r, q)
    /\ inserted' = [inserted EXCEPT ![r] = @ + 1]
    /\ pc' = [pc EXCEPT ![r] = IF inserted[r] + 1 = Len(input[r].keys)
                                    THEN "flushed" ELSE "inserting"]
    /\ UNCHANGED <<tables, input, entity, base, reply, before, missed, faults>>

(* Slip: a conflict is ignored, and the keys after it are not inserted.    *)
InsertConflictIgnored(r) ==
    /\ Registering(r, "inserting")
    /\ Taken(r)
    /\ pc' = [pc EXCEPT ![r] = "flushed"]
    /\ UNCHANGED <<tables, session, input, reply, before, missed, faults>>

(* Slip: a conflict is retried.                                            *)
InsertConflictRetried(r) ==
    /\ Registering(r, "inserting")
    /\ Taken(r)
    /\ Close(r)
    /\ pc' = [pc EXCEPT ![r] = "arrived"]
    /\ UNCHANGED <<tables, input, reply, before, missed, faults>>

(* The unique index refuses the next key: IntegrityError, which no handler *)
(* maps, so the whole registration is rolled back and answered with a 500. *)
InsertConflict(r) ==
    /\ Registering(r, "inserting")
    /\ Taken(r)
    /\ End(r, "error")
    /\ UNCHANGED faults

(* Members of a set in which everyone waits for a member and is waited for *)
(* by one wait for each other in cycles.                                   *)
Deadlocked(r) ==
    \E S \in SUBSET Requests :
        /\ r \in S
        /\ \A p \in S : \E q \in S : WaitsFor(p, q)
        /\ \A q \in S : \E p \in S : WaitsFor(p, q)

(* PostgreSQL breaks a cycle by failing the statement of a member.         *)
DeadlockAbort(r) ==
    /\ Deadlocked(r)
    /\ End(r, "error")
    /\ UNCHANGED faults

Register(r) ==
    InsertAgent(r) \/ InsertKey(r) \/ InsertConflict(r) \/ DeadlockAbort(r)

=============================================================================
