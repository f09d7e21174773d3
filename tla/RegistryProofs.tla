--------------------------- MODULE RegistryProofs ---------------------------
(***************************************************************************)
(* Theorems about Registry, for every workload, every number of requests,  *)
(* agents and keys, every fault bound, and both reply modes.               *)
(***************************************************************************)
EXTENDS Registry, TLAPS

(* What an answer says of the tables, unless it had been sent before: only  *)
(* readers are answered with success, or find nothing, without a commit.   *)
Honest(r, x) ==
    pc[r] # "acked" =>
        /\ x = "ok" => input[r].op \in {"get", "verify"}
        /\ input[r].op = "get" /\ x = "notfound" =>
                status[input[r].agent] = "ABSENT"
        /\ input[r].op = "verify" =>
                LET k == Head(input[r].keys)
                IN /\ x = "notfound" => owner[k] = NoAgent
                   /\ x = "ok" => owner[k] # NoAgent /\ status[owner[k]] = "ACTIVE"

(* The steps that end a request without a commit, whatever their reason.   *)
Ends(r) ==
    \E x \in Replies :
        /\ End(r, x)
        /\ Honest(r, x)
        /\ pc[r] \notin {"idle", "done"}
        /\ x = "refused" => pc[r] = "arrived" \/ reply[r] = "refused"
        /\ faults' \in 0 .. MaxFaults

(* The value of a key verdict is an answer.                                *)
LEMMA VerdictIsReply ==
    ASSUME NEW k PROVE KeyVerdict(k) \in {"ok", "notfound", "conflict"}
BY DEF KeyVerdict

(* Refusals, failed registrations, reads and database faults are all Ends. *)
LEMMA EndingSteps ==
    ASSUME TypeOK, NEW r \in Requests,
           \/ Refuse(r) \/ PatchNotFound(r) \/ PatchConflict(r)
           \/ InsertConflict(r) \/ DeadlockAbort(r) \/ Look(r) \/ DbFault(r)
    PROVE  Ends(r)
<1> USE ModeAssumption DEF TypeOK
<1>1. CASE Refuse(r)
  BY <1>1 DEF Refuse, Ends, Replies, Honest
<1>2. CASE PatchNotFound(r)
  BY <1>2 DEF PatchNotFound, Patching, Ends, Replies, Honest
<1>3. CASE PatchConflict(r)
  BY <1>3 DEF PatchConflict, Patching, Ends, Replies, Honest
<1>4. CASE InsertConflict(r)
  BY <1>4 DEF InsertConflict, Registering, Ends, Replies, Honest
<1>5. CASE DeadlockAbort(r)
  <2>1. pc[r] = "inserting"
    BY <1>5 DEF DeadlockAbort, Deadlocked, WaitsFor, Registering
  <2> QED BY <1>5, <2>1 DEF DeadlockAbort, Ends, Replies, Honest
<1>6. CASE Get(r)
  BY <1>6 DEF Get, Reading, Ends, Replies, Honest
<1>7. CASE Verify(r)
  <2> DEFINE k == Head(input[r].keys)
             x == KeyVerdict(k)
  <2>1. x \in {"ok", "notfound", "conflict"}
    BY VerdictIsReply
  <2>2. End(r, x) /\ pc[r] = "arrived" /\ faults' = faults /\ input[r].op = "verify"
    BY <1>7 DEF Verify, Reading
  <2>3. /\ x = "notfound" => owner[k] = NoAgent
        /\ x = "ok" => owner[k] # NoAgent /\ status[owner[k]] = "ACTIVE"
    BY DEF KeyVerdict
  <2>4. Honest(r, x)
    BY <2>2, <2>3 DEF Honest
  <2> HIDE DEF x
  <2> QED BY <2>1, <2>2, <2>4 DEF Ends, Replies
<1>8. CASE DbFault(r)
  <2> DEFINE x == AnswerOr(r, "error")
  <2>1. End(r, x) /\ pc[r] \notin {"idle", "done"} /\ faults' \in 0 .. MaxFaults
    BY <1>8 DEF DbFault
  <2>2. x \in Replies /\ (x = "refused" => reply[r] = "refused") /\ Honest(r, x)
    BY DEF AnswerOr, Replies, Honest
  <2> HIDE DEF x
  <2> QED BY <2>1, <2>2 DEF Ends
<1> QED BY <1>1, <1>2, <1>3, <1>4, <1>5, <1>6, <1>7, <1>8 DEF Look

(* The steps of the system, by what they do to the state.                  *)
LEMMA StepCases ==
    ASSUME TypeOK, [Next]_vars
    PROVE  \/ UNCHANGED vars
           \/ Crash
           \/ \E r \in Requests :
                \/ Arrive(r) \/ Load(r) \/ Save(r) \/ Flush(r)
                \/ InsertAgent(r) \/ InsertKey(r) \/ Commit(r) \/ Reply(r)
                \/ Ends(r)
<1>1. ASSUME NEW r \in Requests, Serve(r) \/ DbFault(r)
      PROVE  \/ Load(r) \/ Save(r) \/ Flush(r) \/ InsertAgent(r)
             \/ InsertKey(r) \/ Commit(r) \/ Reply(r) \/ Ends(r)
  BY <1>1, EndingSteps DEF Serve, Patch, Register
<1> QED BY <1>1 DEF Next, Quiescent

-----------------------------------------------------------------------------
(* Types.                                                                  *)

(* An unused session holds rows.                                           *)
LEMMA BlankTyped == Blank \in Rows
BY DEF Blank, Rows

(* What an input names exists, and ToSet of its keys are its keys.         *)
LEMMA InputTyped ==
    ASSUME NEW i \in Input
    PROVE  /\ i.agent \in Agents \cup {NoAgent}
           /\ i.target \in Status
           /\ i.keys \in Seq(Keys)
           /\ Len(i.keys) \in Nat
           /\ i.keys # <<>> => Head(i.keys) \in Keys
           /\ \A n \in 1 .. Len(i.keys) : i.keys[n] \in Keys
           /\ ToSet(i.keys) \in SUBSET Keys
           /\ ToSet(i.keys) = {i.keys[n] : n \in 1 .. Len(i.keys)}
BY DEF Input, ToSet

(* A request that has not been sent has an input, too.                     *)
LEMMA NoInputTyped == NoInput \in Input
<1>1. <<>> \in Seq(Keys)
  OBVIOUS
<1> QED BY <1>1 DEF NoInput, Input, Status

(* _to_domain of a stored agent is an agent.                               *)
LEMMA RowTyped ==
    ASSUME TypeOK, NEW a \in Agents PROVE Row(a) \in Rows
BY DEF TypeOK, Row, Rows, KeysOf

(* A transition of a stored agent is one, and exists if the agent did.     *)
LEMMA TransitionTyped ==
    ASSUME NEW row \in Rows, row.status # "ABSENT",
           NEW t \in Status, NEW now \in Requests
    PROVE  /\ Transition(row, t, now) \in Rows
           /\ Transition(row, t, now).status # "ABSENT"
           /\ Transition(row, t, now).live \subseteq row.live
BY DEF Transition, Suspend, Revoke, Activate, Rows, Status

(* Agent.register makes an agent.                                          *)
LEMMA RegisteredTyped ==
    ASSUME NEW S \in SUBSET Keys, NEW now \in Requests
    PROVE  Registered(S, now) \in Rows
BY DEF Registered, Rows, Status

(* The types hold of an empty server over a seeded database.               *)
LEMMA TypeInit == Init => TypeOK
<1> SUFFICES ASSUME Init PROVE TypeOK
  OBVIOUS
<1> USE NamesAssumption, SeedAssumption, ModeAssumption DEF Init
<1>1. status \in [Agents -> Status \cup {"ABSENT"}]
  BY DEF Status
<1>2. input \in [Requests -> Input]
  BY NoInputTyped
<1>3. entity \in [Requests -> Rows] /\ base \in [Requests -> Rows]
  BY BlankTyped
<1>4. owner \in [Keys -> Agents \cup {NoAgent}] /\ live \in SUBSET Keys
  BY DEF Agents
<1> QED BY <1>1, <1>2, <1>3, <1>4 DEF TypeOK, Stages, Replies

(* A request that has arrived is about an agent, if it writes.             *)
LEMMA AgentOfTyped ==
    ASSUME TypeOK, Staged, NEW r \in Requests, pc[r] # "idle",
           input[r].op \in {"patch", "register"}
    PROVE  AgentOf(r) \in Agents
BY WorkloadAssumption DEF Staged, AgentOf, Agents

(* A commit writes values of the columns' types.                           *)
LEMMA CommitTyped ==
    ASSUME TypeOK, Staged, NEW r \in Requests, Commit(r)
    PROVE  TypeOK'
<1> USE DEF TypeOK
<1>1. AgentOf(r) \in Agents
  BY AgentOfTyped DEF Commit, Staged
<1>2. entity[r] \in Rows /\ base[r] \in Rows
  OBVIOUS
<1>3. status' \in [Agents -> Status \cup {"ABSENT"}]
  BY <1>1, <1>2 DEF Commit, Rows
<1>4. updated' \in [Agents -> Requests \cup {NoRequest}]
  BY <1>1, <1>2 DEF Commit, Rows
<1>5. owner' \in [Keys -> Agents \cup {NoAgent}]
  BY <1>1 DEF Commit
<1>6. live' \in SUBSET Keys
  BY <1>2 DEF Commit, WrittenLive, Rows
<1>7. entity' \in [Requests -> Rows] /\ base' \in [Requests -> Rows]
  BY BlankTyped DEF Commit, Close
<1>8. inserted' \in [Requests -> Nat]
  BY DEF Commit, Close
<1>9. missed' \in [Requests -> SUBSET Requests]
  BY DEF Commit
<1>10. pc' \in [Requests -> Stages]
  BY DEF Commit, Stages
<1> QED BY <1>3, <1>4, <1>5, <1>6, <1>7, <1>8, <1>9, <1>10 DEF Commit

(* Every step keeps the types.                                             *)
LEMMA TypeNext == TypeOK /\ Staged /\ [Next]_vars => TypeOK'
<1> SUFFICES ASSUME TypeOK, Staged, [Next]_vars PROVE TypeOK'
  OBVIOUS
<1> USE ModeAssumption DEF TypeOK
<1>1. CASE UNCHANGED vars
  BY <1>1 DEF vars
<1>2. CASE Crash
  <2>1. reply' \in [Requests -> Replies]
    BY <1>2 DEF Crash, AnswerOr, Replies
  <2>2. entity' \in [Requests -> Rows] /\ base' \in [Requests -> Rows]
    BY <1>2, BlankTyped DEF Crash
  <2>3. pc' \in [Requests -> Stages] /\ faults' \in 0 .. MaxFaults
    BY <1>2 DEF Crash, Stages
  <2> QED BY <1>2, <2>1, <2>2, <2>3 DEF Crash, tables
<1>3. ASSUME NEW r \in Requests, Arrive(r) PROVE TypeOK'
  BY <1>3, WorkloadAssumption DEF Arrive, tables, session, Stages
<1>4. ASSUME NEW r \in Requests, Load(r) PROVE TypeOK'
  <2> DEFINE row == Row(AgentOf(r))
             new == Transition(row, input[r].target, r)
  <2>1. row \in Rows
    BY <1>4, AgentOfTyped, RowTyped DEF Load, Patching
  <2>2. row.status # "ABSENT" /\ input[r].target \in Status
    BY <1>4, InputTyped DEF Load
  <2>3. new \in Rows
    BY <2>1, <2>2, TransitionTyped
  <2>4. /\ base' = [base EXCEPT ![r] = row]
        /\ entity' = [entity EXCEPT ![r] = new]
    BY <1>4 DEF Load
  <2> HIDE DEF row, new
  <2> QED BY <1>4, <2>1, <2>3, <2>4 DEF Load, tables, Stages
<1>5. ASSUME NEW r \in Requests, Save(r) PROVE TypeOK'
  <2>1. Row(AgentOf(r)) \in Rows
    BY <1>5, AgentOfTyped, RowTyped DEF Save, Patching
  <2>2. base' \in [Requests -> Rows]
    BY <1>5, <2>1 DEF Save
  <2> QED BY <1>5, <2>2 DEF Save, tables, Stages
<1>6. ASSUME NEW r \in Requests, Flush(r) PROVE TypeOK'
  BY <1>6 DEF Flush, tables, session, Stages
<1>7. ASSUME NEW r \in Requests, InsertAgent(r) PROVE TypeOK'
  <2>1. Registered(ToSet(input[r].keys), r) \in Rows
    BY InputTyped, RegisteredTyped
  <2> QED BY <1>7, <2>1 DEF InsertAgent, tables, Stages
<1>8. ASSUME NEW r \in Requests, InsertKey(r) PROVE TypeOK'
  BY <1>8 DEF InsertKey, tables, Stages
<1>9. ASSUME NEW r \in Requests, Commit(r) PROVE TypeOK'
  BY <1>9, CommitTyped
<1>10. ASSUME NEW r \in Requests, Reply(r) PROVE TypeOK'
  BY <1>10 DEF Reply, tables, session, Stages, Replies
<1>11. ASSUME NEW r \in Requests, Ends(r) PROVE TypeOK'
  BY <1>11, BlankTyped DEF Ends, End, Close, tables, Stages
<1> QED BY <1>1, <1>2, <1>3, <1>4, <1>5, <1>6, <1>7, <1>8, <1>9, <1>10, <1>11, StepCases

-----------------------------------------------------------------------------
(* Stages.                                                                 *)

(* The stages fit the inputs when nothing has been sent.                   *)
LEMMA StagedInit == Init => Staged
BY DEF Init, Staged

(* Every step leaves each request in a stage of its own handler.           *)
LEMMA StagedNext == TypeOK /\ Staged /\ [Next]_vars => Staged'
<1> SUFFICES ASSUME TypeOK, Staged, [Next]_vars PROVE Staged'
  OBVIOUS
<1> USE DEF TypeOK, Staged
<1>1. CASE UNCHANGED vars
  BY <1>1 DEF vars
<1>2. CASE Crash
  BY <1>2 DEF Crash
<1>3. ASSUME NEW r \in Requests, Arrive(r) PROVE Staged'
  BY <1>3 DEF Arrive
<1>4. ASSUME NEW r \in Requests, Load(r) PROVE Staged'
  BY <1>4 DEF Load, Patching
<1>5. ASSUME NEW r \in Requests, Save(r) PROVE Staged'
  BY <1>5 DEF Save, Patching
<1>6. ASSUME NEW r \in Requests, Flush(r) PROVE Staged'
  BY <1>6 DEF Flush, Patching
<1>7. ASSUME NEW r \in Requests, InsertAgent(r) PROVE Staged'
  BY <1>7 DEF InsertAgent, Registering
<1>8. ASSUME NEW r \in Requests, InsertKey(r) PROVE Staged'
  BY <1>8 DEF InsertKey, Registering
<1>9. ASSUME NEW r \in Requests, Commit(r) PROVE Staged'
  BY <1>9 DEF Commit
<1>10. ASSUME NEW r \in Requests, Reply(r) PROVE Staged'
  BY <1>10 DEF Reply
<1>11. ASSUME NEW r \in Requests, Ends(r) PROVE Staged'
  BY <1>11 DEF Ends, End
<1> QED BY <1>1, <1>2, <1>3, <1>4, <1>5, <1>6, <1>7, <1>8, <1>9, <1>10, <1>11, StepCases

(* Whatever the requests do, every column, session and history keeps its   *)
(* type.                                                                    *)
THEOREM TypeCorrect == Spec => [](TypeOK /\ Staged)
BY TypeInit, TypeNext, StagedInit, StagedNext, PTL DEF Spec

-----------------------------------------------------------------------------
(* What open registrations hold.                                           *)

(* Key rows are inserted in the order of the payload, up to its end.       *)
LEMMA InsertsInOrderNext ==
    TypeOK /\ Staged /\ InsertsInOrder /\ [Next]_vars => InsertsInOrder'
<1> SUFFICES ASSUME TypeOK, Staged, InsertsInOrder, [Next]_vars
             PROVE  InsertsInOrder'
  OBVIOUS
<1>0. \A q \in Requests : Len(input[q].keys) \in Nat /\ inserted[q] \in Nat
  BY InputTyped DEF TypeOK
<1> USE DEF InsertsInOrder, Open
<1>1. CASE UNCHANGED vars
  BY <1>1 DEF vars
<1>2. CASE Crash
  BY <1>0, <1>2 DEF Crash, TypeOK
<1>3. ASSUME NEW r \in Requests, Arrive(r) PROVE InsertsInOrder'
  <2>1. inserted[r] = 0
    BY <1>3 DEF Arrive
  <2>2. PICK i \in Workload : input' = [input EXCEPT ![r] = i]
    BY <1>3 DEF Arrive
  <2>3. Len(i.keys) \in Nat
    BY InputTyped, WorkloadAssumption
  <2> QED BY <1>0, <1>3, <2>1, <2>2, <2>3 DEF Arrive, tables, session, TypeOK
<1>4. ASSUME NEW r \in Requests, Load(r) PROVE InsertsInOrder'
  BY <1>0, <1>4 DEF Load, Patching, TypeOK
<1>5. ASSUME NEW r \in Requests, Save(r) PROVE InsertsInOrder'
  BY <1>0, <1>5 DEF Save, Patching, TypeOK
<1>6. ASSUME NEW r \in Requests, Flush(r) PROVE InsertsInOrder'
  BY <1>0, <1>6 DEF Flush, Patching, TypeOK, session
<1>7. ASSUME NEW r \in Requests, InsertAgent(r) PROVE InsertsInOrder'
  <2>1. input[r].keys # <<>> /\ input[r].keys \in Seq(Keys)
    BY <1>7, WorkloadAssumption, InputTyped DEF InsertAgent, Registering, Staged, TypeOK, Payloads
  <2>2. Len(input[r].keys) > 0 /\ inserted[r] = 0
    BY <1>7, <2>1 DEF InsertAgent, Registering
  <2> QED BY <1>0, <1>7, <2>2 DEF InsertAgent, Registering, TypeOK
<1>8. ASSUME NEW r \in Requests, InsertKey(r) PROVE InsertsInOrder'
  BY <1>0, <1>8 DEF InsertKey, Registering, TypeOK
<1>9. ASSUME NEW r \in Requests, Commit(r) PROVE InsertsInOrder'
  BY <1>0, <1>9 DEF Commit, Close, TypeOK
<1>10. ASSUME NEW r \in Requests, Reply(r) PROVE InsertsInOrder'
  BY <1>0, <1>10 DEF Reply, session, TypeOK, Staged
<1>11. ASSUME NEW r \in Requests, Ends(r) PROVE InsertsInOrder'
  BY <1>0, <1>11 DEF Ends, End, Close, TypeOK
<1> QED BY <1>1, <1>2, <1>3, <1>4, <1>5, <1>6, <1>7, <1>8, <1>9, <1>10, <1>11, StepCases

(* The keys a registration holds are keys of its payload; all of them once *)
(* it is flushed, none unless it has begun to write.                        *)
LEMMA InsertedKeys ==
    ASSUME TypeOK, InsertsInOrder, NEW r \in Requests
    PROVE  /\ Inserted(r) \subseteq Keys
           /\ inserted[r] = 0 => Inserted(r) = {}
           /\ inserted[r] = Len(input[r].keys) => Inserted(r) = ToSet(input[r].keys)
<1>1. input[r] \in Input /\ inserted[r] \in Nat /\ inserted[r] <= Len(input[r].keys)
  BY DEF TypeOK, InsertsInOrder
<1>2. /\ Len(input[r].keys) \in Nat
      /\ \A n \in 1 .. Len(input[r].keys) : input[r].keys[n] \in Keys
      /\ ToSet(input[r].keys) = {input[r].keys[n] : n \in 1 .. Len(input[r].keys)}
  BY <1>1, InputTyped
<1>3. inserted[r] = 0 => 1 .. inserted[r] = {}
  OBVIOUS
<1> QED BY <1>1, <1>2, <1>3 DEF Inserted

(* A step that leaves input and inserted of a request alone leaves alone   *)
(* what it holds.                                                           *)
LEMMA InsertedFrame ==
    ASSUME NEW r, input'[r] = input[r], inserted'[r] = inserted[r]
    PROVE  Inserted(r)' = Inserted(r)
BY DEF Inserted

(* The unique index and the waits for it keep uncommitted keys apart.      *)
LEMMA InsertsExclusiveNext ==
    TypeOK /\ Staged /\ InsertsInOrder /\ InsertsExclusive /\ [Next]_vars
        => InsertsExclusive'
<1> SUFFICES ASSUME TypeOK, Staged, InsertsInOrder, InsertsExclusive, [Next]_vars
             PROVE  InsertsExclusive'
  OBVIOUS
<1> USE DEF TypeOK
(* Most steps add nothing to what anyone holds and give no key an owner.   *)
<1>1. ASSUME owner' = owner, \A q \in Requests : Inserted(q)' \subseteq Inserted(q)
      PROVE  InsertsExclusive'
  BY <1>1 DEF InsertsExclusive
<1>2. ASSUME UNCHANGED <<owner, input, inserted>> PROVE InsertsExclusive'
  <2>1. \A q \in Requests : Inserted(q)' = Inserted(q)
    BY <1>2, InsertedFrame
  <2> QED BY <1>1, <1>2, <2>1
<1>3. CASE UNCHANGED vars
  BY <1>2, <1>3 DEF vars
<1>4. CASE Crash
  <2>1. \A q \in Requests : Inserted(q)' = {}
    BY <1>4 DEF Crash, Inserted
  <2> QED BY <1>1, <1>4, <2>1 DEF Crash, tables
<1>5. ASSUME NEW r \in Requests, Arrive(r) PROVE InsertsExclusive'
  <2>1. inserted[r] = 0 /\ inserted' = inserted /\ owner' = owner
    BY <1>5 DEF Arrive, InsertsInOrder, Open, tables, session
  <2>2. Inserted(r)' = {}
    BY <2>1 DEF Inserted
  <2>3. \A q \in Requests \ {r} : Inserted(q)' = Inserted(q)
    BY <1>5, <2>1, InsertedFrame DEF Arrive
  <2> QED BY <1>1, <2>1, <2>2, <2>3
<1>6. ASSUME NEW r \in Requests,
             Load(r) \/ Save(r) \/ Flush(r) \/ InsertAgent(r) \/ Reply(r)
      PROVE  InsertsExclusive'
  BY <1>2, <1>6 DEF Load, Save, Flush, InsertAgent, Reply, tables, session
<1>7. ASSUME NEW r \in Requests, InsertKey(r) PROVE InsertsExclusive'
  <2> DEFINE k == NextKey(r)
  <2>1. owner[k] = NoAgent /\ owner' = owner
    BY <1>7 DEF InsertKey, Taken, tables
  <2>2. \A q \in Requests : k \notin Inserted(q)
    BY <1>7 DEF InsertKey, Taken, WaitsFor
  <2>3. Inserted(r)' = Inserted(r) \cup {k}
    BY <1>7 DEF InsertKey, Inserted, NextKey
  <2>4. \A q \in Requests \ {r} : Inserted(q)' = Inserted(q)
    BY <1>7, InsertedFrame DEF InsertKey
  <2> HIDE DEF k
  <2> QED BY <2>1, <2>2, <2>3, <2>4 DEF InsertsExclusive
<1>8. ASSUME NEW r \in Requests, Commit(r) PROVE InsertsExclusive'
  <2>1. Inserted(r)' = {}
    BY <1>8 DEF Commit, Close, Inserted
  <2>2. \A q \in Requests \ {r} : Inserted(q)' = Inserted(q)
    BY <1>8, InsertedFrame DEF Commit, Close
  <2>3. \A q \in Requests \ {r} : \A k \in Inserted(q) : owner'[k] = owner[k]
    BY <1>8, InsertedKeys DEF Commit, InsertsExclusive
  <2> QED BY <2>1, <2>2, <2>3 DEF InsertsExclusive
<1>9. ASSUME NEW r \in Requests, Ends(r) PROVE InsertsExclusive'
  <2>1. Inserted(r)' = {}
    BY <1>9 DEF Ends, End, Close, Inserted
  <2>2. \A q \in Requests \ {r} : Inserted(q)' = Inserted(q)
    BY <1>9, InsertedFrame DEF Ends, End, Close
  <2> QED BY <1>1, <1>9, <2>1, <2>2 DEF Ends, End, tables
<1> QED BY <1>3, <1>4, <1>5, <1>6, <1>7, <1>8, <1>9, StepCases

-----------------------------------------------------------------------------
(* What becomes visible.                                                   *)

(* What the commit of a registration shows.                                *)
LEMMA CommitRegister ==
    ASSUME IInv, NEW r \in Requests, Commit(r), input[r].op = "register"
    PROVE  LET S == ToSet(input[r].keys) IN
           /\ S # {} /\ S \subseteq Keys
           /\ \A k \in S : owner[k] = NoAgent
           /\ status[r] = "ABSENT"
           /\ KeysOf(r) = {}
           /\ status' = [status EXCEPT ![r] = "ACTIVE"]
           /\ updated' = [updated EXCEPT ![r] = r]
           /\ owner' = [k \in Keys |-> IF k \in S THEN r ELSE owner[k]]
           /\ live' = live \cup S
<1> USE DEF IInv
<1>1. pc[r] \in {"flushed", "acked"}
  BY DEF Commit
<1>2. AgentOf(r) = r /\ r \in Agents
  BY DEF AgentOf, Agents
<1>3. /\ inserted[r] = Len(input[r].keys)
      /\ entity[r] = Registered(ToSet(input[r].keys), r)
      /\ base[r] = Blank
  BY <1>1 DEF InsertsInOrder, Open
<1>4. Inserted(r) = ToSet(input[r].keys) /\ Inserted(r) \subseteq Keys
  BY <1>3, InsertedKeys
<1>5. \A k \in ToSet(input[r].keys) : owner[k] = NoAgent
  BY <1>4 DEF InsertsExclusive
<1>6. ToSet(input[r].keys) # {}
  <2>1. input[r].keys # <<>> /\ input[r].keys \in Seq(Keys)
    BY <1>1, WorkloadAssumption, InputTyped DEF Staged, TypeOK, Payloads
  <2>2. 1 \in DOMAIN input[r].keys
    BY <2>1
  <2> QED BY <2>2 DEF ToSet
<1>7. status[r] = "ABSENT"
  BY <1>1 DEF RowsAppearWhole
<1>8. KeysOf(r) = {}
  BY <1>2, <1>7, NamesAssumption DEF RowsAppearWhole, KeysOf
<1>9. /\ entity[r].status = "ACTIVE" /\ base[r].status = "ABSENT"
      /\ entity[r].updated = r /\ base[r].updated = NoRequest
      /\ entity[r].live = ToSet(input[r].keys) /\ base[r].live = {}
  BY <1>3 DEF Registered, Blank
<1>10. status' = [status EXCEPT ![r] = "ACTIVE"]
  BY <1>2, <1>9 DEF Commit
<1>11. updated' = [updated EXCEPT ![r] = r]
  BY <1>2, <1>9, NamesAssumption DEF Commit
<1>12. live' = live \cup ToSet(input[r].keys)
  BY <1>9 DEF Commit, WrittenLive
<1>13. owner' = [k \in Keys |-> IF k \in ToSet(input[r].keys) THEN r ELSE owner[k]]
  BY <1>2, <1>4 DEF Commit
<1> QED BY <1>4, <1>5, <1>6, <1>7, <1>8, <1>10, <1>11, <1>12, <1>13

(* The commit of a PATCH changes one agent, which stays, and no owner.     *)
LEMMA CommitPatch ==
    ASSUME IInv, NEW r \in Requests, Commit(r), input[r].op # "register"
    PROVE  LET a == AgentOf(r) IN
           /\ input[r].op = "patch" /\ Running(r) /\ a \in Agents
           /\ owner' = owner
           /\ status[a] # "ABSENT" /\ status'[a] # "ABSENT"
           /\ \A b \in Agents \ {a} : status'[b] = status[b] /\ updated'[b] = updated[b]
           /\ \A k \in Keys \ KeysOf(a) : k \in live' <=> k \in live
           /\ entity[r] = base[r] => UNCHANGED tables
<1> USE DEF IInv
<1>1. pc[r] \in {"flushed", "acked"}
  BY DEF Commit
<1>2. input[r].op = "patch" /\ Running(r)
  BY <1>1 DEF Staged, Running
<1>3. AgentOf(r) \in Agents
  BY <1>1, <1>2, AgentOfTyped
<1>4. Inserted(r) = {}
  <2>1. inserted[r] = 0
    BY <1>2 DEF InsertsInOrder, TypeOK
  <2> QED BY <2>1, InsertedKeys
<1>5. owner' = owner
  BY <1>4 DEF Commit, TypeOK
<1>6. LET a == AgentOf(r) IN
        /\ status[a] # "ABSENT"
        /\ entity[r].status # "ABSENT" /\ entity[r].live \subseteq KeysOf(a)
        /\ base[r].live \subseteq KeysOf(a)
  BY <1>2 DEF SessionsFit, SessionFits
<1>7. status'[AgentOf(r)] # "ABSENT"
  BY <1>3, <1>6 DEF Commit, TypeOK
<1>8. \A b \in Agents \ {AgentOf(r)} : status'[b] = status[b] /\ updated'[b] = updated[b]
  BY <1>3 DEF Commit, TypeOK
<1>9. \A k \in Keys \ KeysOf(AgentOf(r)) : k \in live' <=> k \in live
  BY <1>6 DEF Commit, WrittenLive
<1>10. entity[r] = base[r] => UNCHANGED tables
  BY <1>5 DEF Commit, WrittenLive, tables
<1> QED BY <1>2, <1>3, <1>5, <1>6, <1>7, <1>8, <1>9, <1>10

(* The seeded agents are there, and nothing else.                          *)
LEMMA RowsAppearWholeInit == Init => RowsAppearWhole
BY NamesAssumption, SeedAssumption DEF Init, RowsAppearWhole, Agents

(* No step shows a part of a registration.                                 *)
LEMMA RowsAppearWholeNext == IInv /\ [Next]_vars => RowsAppearWhole'
<1> SUFFICES ASSUME IInv, [Next]_vars PROVE RowsAppearWhole'
  OBVIOUS
<1> USE DEF IInv
<1>1. CASE UNCHANGED vars
  BY <1>1 DEF vars, RowsAppearWhole, KeysOf
<1>2. CASE Crash
  BY <1>2 DEF Crash, tables, RowsAppearWhole, KeysOf, AnswerOr, TypeOK
<1>3. ASSUME NEW r \in Requests,
             Arrive(r) \/ Load(r) \/ Save(r) \/ Flush(r) \/ InsertAgent(r)
                \/ InsertKey(r) \/ Reply(r) \/ Ends(r)
      PROVE  RowsAppearWhole'
  <2>1. UNCHANGED tables
    BY <1>3 DEF Arrive, Load, Save, Flush, InsertAgent, InsertKey, Reply, Ends, End
  <2>2. \A q \in Requests : status[q] # "ABSENT" =>
            /\ input'[q] = input[q]
            /\ pc'[q] \in {"committed", "done"}
            /\ reply'[q] # "refused"
    <3>1. CASE Arrive(r)
      BY <3>1 DEF Arrive, RowsAppearWhole, TypeOK
    <3>2. CASE Load(r) \/ Save(r) \/ Flush(r)
      BY <3>2 DEF Load, Save, Flush, Patching, RowsAppearWhole, TypeOK
    <3>3. CASE InsertAgent(r) \/ InsertKey(r)
      BY <3>3 DEF InsertAgent, InsertKey, Registering, RowsAppearWhole, TypeOK
    <3>4. CASE Reply(r)
      BY <3>4 DEF Reply, RowsAppearWhole, TypeOK
    <3>5. CASE Ends(r)
      BY <3>5 DEF Ends, End, RowsAppearWhole, TypeOK
    <3> QED BY <1>3, <3>1, <3>2, <3>3, <3>4, <3>5
  <2> QED BY <2>1, <2>2 DEF RowsAppearWhole, tables, KeysOf
<1>4. ASSUME NEW r \in Requests, Commit(r) PROVE RowsAppearWhole'
  <2>1. /\ input' = input /\ reply' = reply
        /\ pc'[r] \in {"committed", "done"}
        /\ \A q \in Requests \ {r} : pc'[q] = pc[q]
    BY <1>4 DEF Commit, TypeOK
  <2>2. CASE input[r].op = "register"
    <3> DEFINE S == ToSet(input[r].keys)
    <3>1. /\ \A k \in S : owner[k] = NoAgent
          /\ S \subseteq Keys
          /\ KeysOf(r) = {}
          /\ status' = [status EXCEPT ![r] = "ACTIVE"]
          /\ updated' = [updated EXCEPT ![r] = r]
          /\ owner' = [k \in Keys |-> IF k \in S THEN r ELSE owner[k]]
      BY <1>4, <2>2, CommitRegister
    <3>2. KeysOf(r)' = S
      BY <3>1 DEF KeysOf
    <3>3. \A q \in Requests \ {r} : KeysOf(q)' = KeysOf(q)
      BY <3>1, NamesAssumption DEF KeysOf, Agents
    <3>4. reply[r] # "refused"
      BY <1>4 DEF Commit, Staged
    <3> QED BY <2>1, <2>2, <3>1, <3>2, <3>3, <3>4, NamesAssumption
            DEF RowsAppearWhole, TypeOK, Agents
  <2>3. CASE input[r].op # "register"
    <3>0. \A b \in Agents : status[b] = "ABSENT" => updated'[b] = updated[b]
      BY <1>4, <2>3, CommitPatch
    <3>1. \A b \in Agents : status'[b] # "ABSENT" <=> status[b] # "ABSENT"
      BY <1>4, <2>3, CommitPatch
    <3>2. owner' = owner
      BY <1>4, <2>3, CommitPatch
    <3>3. \A a \in Agents : status'[a] = "ABSENT" => updated'[a] = NoRequest
      BY <3>0, <3>1 DEF RowsAppearWhole
    <3>4. \A q \in Requests : status'[q] # "ABSENT" =>
            /\ input'[q].op = "register"
            /\ pc'[q] \in {"committed", "done"}
            /\ reply'[q] # "refused"
            /\ KeysOf(q)' = ToSet(input'[q].keys)
      BY <2>1, <3>1, <3>2 DEF RowsAppearWhole, KeysOf, Agents
    <3>5. \A k \in Keys : owner'[k] # NoAgent => status'[owner'[k]] # "ABSENT"
      BY <3>1, <3>2 DEF RowsAppearWhole, TypeOK
    <3>6. \A a \in SeedAgents : status'[a] # "ABSENT"
      BY <3>1 DEF RowsAppearWhole, Agents
    <3> QED BY <3>3, <3>4, <3>5, <3>6 DEF RowsAppearWhole
  <2> QED BY <2>2, <2>3
<1> QED BY <1>1, <1>2, <1>3, <1>4, StepCases

-----------------------------------------------------------------------------
(* Sessions of status changes.                                             *)

(* What a step has to leave alone so that the session of r stays as good   *)
(* as it was.                                                               *)
LEMMA SessionsFitFrame ==
    ASSUME IInv, NEW r \in Requests, input'[r].op = "patch", Running(r)',
           Running(r), input'[r] = input[r], entity'[r] = entity[r],
           base'[r] = base[r] \/ base'[r] = Row(AgentOf(r)),
           \A b \in Agents : status[b] # "ABSENT" => status'[b] # "ABSENT",
           \A b \in Agents : status[b] # "ABSENT" => KeysOf(b)' = KeysOf(b)
    PROVE  SessionFits(r)'
<1> DEFINE a == AgentOf(r)
<1>1. a \in Agents /\ AgentOf(r)' = a
  BY AgentOfTyped DEF AgentOf, Running, IInv
<1>2. /\ status[a] # "ABSENT"
      /\ entity[r].status # "ABSENT" /\ entity[r].live \subseteq KeysOf(a)
      /\ base[r].status # "ABSENT" /\ base[r].live \subseteq KeysOf(a)
  BY DEF IInv, SessionsFit, SessionFits
<1>3. Row(a).status # "ABSENT" /\ Row(a).live \subseteq KeysOf(a)
  BY <1>2 DEF Row
<1> QED BY <1>1, <1>2, <1>3 DEF SessionFits

(* No step makes an agent disappear or gives an agent that exists other    *)
(* keys.                                                                    *)
LEMMA AgentsStay ==
    ASSUME IInv, [Next]_vars, NEW b \in Agents, status[b] # "ABSENT"
    PROVE  status'[b] # "ABSENT" /\ KeysOf(b)' = KeysOf(b)
<1>1. CASE UNCHANGED tables
  BY <1>1 DEF tables, KeysOf
<1>2. ASSUME NEW r \in Requests, Commit(r), input[r].op = "register"
      PROVE  status'[b] # "ABSENT" /\ KeysOf(b)' = KeysOf(b)
  <2>1. /\ \A k \in ToSet(input[r].keys) : owner[k] = NoAgent
        /\ status[r] = "ABSENT"
        /\ status' = [status EXCEPT ![r] = "ACTIVE"]
        /\ owner' = [k \in Keys |-> IF k \in ToSet(input[r].keys) THEN r ELSE owner[k]]
    BY <1>2, CommitRegister
  <2> QED BY <2>1, NamesAssumption DEF KeysOf, IInv, TypeOK
<1>3. ASSUME NEW r \in Requests, Commit(r), input[r].op # "register"
      PROVE  status'[b] # "ABSENT" /\ KeysOf(b)' = KeysOf(b)
  <2>1. /\ status'[AgentOf(r)] # "ABSENT"
        /\ \A c \in Agents \ {AgentOf(r)} : status'[c] = status[c]
        /\ owner' = owner
    BY <1>3, CommitPatch
  <2> QED BY <2>1 DEF KeysOf
<1>4. ASSUME NEW r \in Requests,
             Arrive(r) \/ Load(r) \/ Save(r) \/ Flush(r) \/ InsertAgent(r)
                \/ InsertKey(r) \/ Reply(r) \/ Ends(r)
      PROVE  UNCHANGED tables
  BY <1>4 DEF Arrive, Load, Save, Flush, InsertAgent, InsertKey, Reply, Ends, End
<1>5. CASE UNCHANGED vars \/ Crash
  BY <1>1, <1>5 DEF vars, Crash, tables
<1> QED BY <1>1, <1>2, <1>3, <1>4, <1>5, StepCases DEF IInv

(* What a step does to the requests other than its own.                    *)
LEMMA OthersStay ==
    ASSUME TypeOK, NEW r \in Requests, NEW q \in Requests \ {r},
           \/ Arrive(r) \/ Load(r) \/ Save(r) \/ Flush(r) \/ InsertAgent(r)
           \/ InsertKey(r) \/ Commit(r) \/ Reply(r) \/ Ends(r)
    PROVE  /\ input'[q] = input[q] /\ pc'[q] = pc[q]
           /\ entity'[q] = entity[q] /\ base'[q] = base[q]
           /\ ~Commit(r) => missed'[q] = missed[q]
<1> USE DEF TypeOK
<1>1. CASE Arrive(r) \/ Load(r) \/ Save(r)
  BY <1>1 DEF Arrive, Load, Save, session
<1>2. CASE Flush(r) \/ InsertAgent(r) \/ InsertKey(r) \/ Reply(r)
  BY <1>2 DEF Flush, InsertAgent, InsertKey, Reply, session
<1>3. CASE Commit(r)
  BY <1>3 DEF Commit, Close
<1>4. CASE Ends(r)
  BY <1>4 DEF Ends, End, Close
<1> QED BY <1>1, <1>2, <1>3, <1>4

(* The session of a PATCH stays about the agent it loaded.                 *)
LEMMA SessionsFitNext == IInv /\ [Next]_vars => SessionsFit'
<1> SUFFICES ASSUME IInv, [Next]_vars,
                    NEW q \in Requests, input'[q].op = "patch", Running(q)'
             PROVE  SessionFits(q)'
  BY DEF SessionsFit
<1> USE DEF IInv
<1>0. /\ \A b \in Agents : status[b] # "ABSENT" => status'[b] # "ABSENT"
      /\ \A b \in Agents : status[b] # "ABSENT" => KeysOf(b)' = KeysOf(b)
  BY AgentsStay
<1>1. CASE UNCHANGED vars
  BY <1>0, <1>1, SessionsFitFrame DEF vars, Running
<1>2. CASE Crash
  BY <1>2 DEF Crash, Running, TypeOK
<1>3. ASSUME NEW r \in Requests \ {q},
             \/ Arrive(r) \/ Load(r) \/ Save(r) \/ Flush(r) \/ InsertAgent(r)
             \/ InsertKey(r) \/ Commit(r) \/ Reply(r) \/ Ends(r)
      PROVE  /\ Running(q) /\ input'[q] = input[q]
             /\ entity'[q] = entity[q] /\ base'[q] = base[q]
  BY <1>3, OthersStay DEF Running
<1>4. CASE Load(q)
  <2> DEFINE row == Row(AgentOf(q))
             new == Transition(row, input[q].target, q)
  <2>1. row \in Rows /\ AgentOf(q) \in Agents
    BY <1>4, AgentOfTyped, RowTyped DEF Load, Patching
  <2>2. row.status # "ABSENT" /\ input[q].target \in Status
    BY <1>4, InputTyped DEF Load, TypeOK
  <2>3. new.status # "ABSENT" /\ new.live \subseteq row.live
    BY <2>1, <2>2, TransitionTyped
  <2>4. base'[q] = row /\ entity'[q] = new /\ UNCHANGED <<tables, input>>
    BY <1>4 DEF Load, TypeOK
  <2>5. row.live \subseteq KeysOf(AgentOf(q)) /\ row.status = status[AgentOf(q)]
    BY DEF Row
  <2>6. AgentOf(q)' = AgentOf(q) /\ \A a : KeysOf(a)' = KeysOf(a)
    BY <2>4 DEF AgentOf, KeysOf, tables
  <2> HIDE DEF row, new
  <2> QED BY <2>2, <2>3, <2>4, <2>5, <2>6 DEF tables, SessionFits
<1>5. CASE Save(q) \/ Flush(q) \/ Reply(q)
  <2>1. /\ input' = input /\ entity' = entity
        /\ base'[q] = base[q] \/ base'[q] = Row(AgentOf(q))
    BY <1>5 DEF Save, Flush, Reply, session, TypeOK
  <2>2. Running(q)
    BY <1>5 DEF Save, Flush, Reply, Patching, Running, TypeOK
  <2> QED BY <1>0, <2>1, <2>2, SessionsFitFrame
<1>6. CASE Arrive(q) \/ InsertAgent(q) \/ InsertKey(q)
  BY <1>6 DEF Arrive, InsertAgent, InsertKey, Registering, Running, TypeOK
<1>7. CASE Commit(q) \/ Ends(q)
  BY <1>7 DEF Commit, Ends, End, Running, TypeOK
<1>8. ASSUME NEW r \in Requests \ {q},
             \/ Arrive(r) \/ Load(r) \/ Save(r) \/ Flush(r) \/ InsertAgent(r)
             \/ InsertKey(r) \/ Commit(r) \/ Reply(r) \/ Ends(r)
      PROVE  SessionFits(q)'
  BY <1>0, <1>3, <1>8, SessionsFitFrame
<1> QED BY <1>1, <1>2, <1>4, <1>5, <1>6, <1>7, <1>8, StepCases

(* A step that changes no column of an agent does not change the agent.    *)
LEMMA RowFrame ==
    ASSUME NEW a, status'[a] = status[a], updated'[a] = updated[a],
           KeysOf(a)' = KeysOf(a), \A k \in KeysOf(a) : k \in live' <=> k \in live
    PROVE  Row(a)' = Row(a)
<1>1. (live \cap KeysOf(a))' = live \cap KeysOf(a)
  OBVIOUS
<1> QED BY <1>1 DEF Row

(* A commit changes no row but that of its own agent.                      *)
LEMMA CommitIsLocal ==
    ASSUME IInv, [Next]_vars, NEW r \in Requests, Commit(r),
           NEW a \in Agents, a # AgentOf(r)
    PROVE  Row(a)' = Row(a)
<1>2. CASE input[r].op = "register"
  <2>1. /\ \A k \in ToSet(input[r].keys) : owner[k] = NoAgent
        /\ status' = [status EXCEPT ![r] = "ACTIVE"]
        /\ updated' = [updated EXCEPT ![r] = r]
        /\ owner' = [k \in Keys |-> IF k \in ToSet(input[r].keys) THEN r ELSE owner[k]]
        /\ live' = live \cup ToSet(input[r].keys)
    BY <1>2, CommitRegister
  <2>2. a # r
    BY <1>2 DEF AgentOf
  <2>3. \A k \in KeysOf(a) : k \notin ToSet(input[r].keys)
    BY <2>1, NamesAssumption DEF KeysOf
  <2>4. status'[a] = status[a] /\ updated'[a] = updated[a]
    BY <2>1, <2>2 DEF IInv, TypeOK
  <2>5. KeysOf(a)' = KeysOf(a)
    BY <2>1, <2>2, NamesAssumption DEF KeysOf
  <2> QED BY <2>1, <2>3, <2>4, <2>5, RowFrame
<1>3. CASE input[r].op # "register"
  <2>1. /\ owner' = owner
        /\ status'[a] = status[a] /\ updated'[a] = updated[a]
        /\ \A k \in Keys \ KeysOf(AgentOf(r)) : k \in live' <=> k \in live
    BY <1>3, CommitPatch
  <2>2. \A k \in KeysOf(a) : k \in Keys \ KeysOf(AgentOf(r))
    BY DEF KeysOf
  <2>3. KeysOf(a)' = KeysOf(a)
    BY <2>1 DEF KeysOf
  <2> QED BY <2>1, <2>2, <2>3, RowFrame
<1> QED BY <1>2, <1>3

(* A PATCH stays fresh while its agent and its session stay, also if save  *)
(* loads the agent again.                                                  *)
LEMMA SessionFreshFrame ==
    ASSUME NEW q, SessionFresh(q), Row(AgentOf(q))' = Row(AgentOf(q)),
           input'[q] = input[q], entity'[q] = entity[q],
           base'[q] = base[q] \/ base'[q] = Row(AgentOf(q))
    PROVE  SessionFresh(q)'
<1>1. AgentOf(q)' = AgentOf(q)
  BY DEF AgentOf
<1> QED BY <1>1 DEF SessionFresh

(* A PATCH is fresh until another commit changes its agent.                *)
LEMMA SessionsFreshNext == IInv /\ [Next]_vars => SessionsFresh'
<1> SUFFICES ASSUME IInv, [Next]_vars, NEW q \in Requests,
                    input'[q].op = "patch", Running(q)', missed'[q] = {}
             PROVE  SessionFresh(q)'
  BY DEF SessionsFresh
<1> USE DEF IInv
<1>0. \A r \in Requests :
        Arrive(r) \/ Load(r) \/ Save(r) \/ Flush(r) \/ InsertAgent(r)
            \/ InsertKey(r) \/ Reply(r) \/ Ends(r) => UNCHANGED tables
  BY DEF Arrive, Load, Save, Flush, InsertAgent, InsertKey, Reply, Ends, End
<1>1. ASSUME UNCHANGED tables PROVE \A a : Row(a)' = Row(a)
  BY <1>1 DEF tables, Row, KeysOf
<1>2. CASE UNCHANGED vars
  <2>1. SessionFresh(q)
    BY <1>2 DEF vars, SessionsFresh, Running
  <2>2. AgentOf(q)' = AgentOf(q) /\ Row(AgentOf(q))' = Row(AgentOf(q))
    BY <1>1, <1>2 DEF vars, tables, AgentOf
  <2> QED BY <1>2, <2>1, <2>2, SessionFreshFrame DEF vars
<1>3. CASE Crash
  BY <1>3 DEF Crash, Running, TypeOK
<1>4. CASE Load(q)
  <2>1. /\ base'[q] = Row(AgentOf(q))
        /\ Permits(Row(AgentOf(q)), input[q].target)
        /\ entity'[q] = Transition(Row(AgentOf(q)), input[q].target, q)
        /\ input' = input
    BY <1>4 DEF Load, TypeOK
  <2>2. AgentOf(q)' = AgentOf(q) /\ Row(AgentOf(q))' = Row(AgentOf(q))
    BY <1>0, <1>1, <1>4, <2>1 DEF AgentOf
  <2> QED BY <2>1, <2>2 DEF SessionFresh
<1>5. CASE Save(q) \/ Flush(q) \/ Reply(q)
  <2>1. /\ input' = input /\ entity' = entity /\ missed' = missed
        /\ base'[q] = base[q] \/ base'[q] = Row(AgentOf(q))
    BY <1>5 DEF Save, Flush, Reply, session, TypeOK
  <2>2. Running(q)
    BY <1>5 DEF Save, Flush, Reply, Patching, Running, TypeOK
  <2>3. SessionFresh(q)
    BY <2>1, <2>2 DEF SessionsFresh
  <2>4. Row(AgentOf(q))' = Row(AgentOf(q))
    BY <1>0, <1>1, <1>5, <2>1 DEF AgentOf
  <2> QED BY <2>1, <2>3, <2>4, SessionFreshFrame
<1>6. CASE Arrive(q) \/ InsertAgent(q) \/ InsertKey(q)
  BY <1>6 DEF Arrive, InsertAgent, InsertKey, Registering, Running, TypeOK
<1>7. CASE Commit(q) \/ Ends(q)
  BY <1>7 DEF Commit, Ends, End, Running, TypeOK
<1>8. ASSUME NEW r \in Requests \ {q},
             \/ Arrive(r) \/ Load(r) \/ Save(r) \/ Flush(r) \/ InsertAgent(r)
             \/ InsertKey(r) \/ Reply(r) \/ Ends(r),
             ~Commit(r)
      PROVE  SessionFresh(q)'
  <2>1. /\ input'[q] = input[q] /\ pc'[q] = pc[q]
        /\ entity'[q] = entity[q] /\ base'[q] = base[q]
    BY <1>8, OthersStay
  <2>3. missed'[q] = missed[q]
    BY <1>8, OthersStay
  <2>4. SessionFresh(q)
    BY <2>1, <2>3 DEF SessionsFresh, Running
  <2>5. Row(AgentOf(q))' = Row(AgentOf(q))
    BY <1>0, <1>1, <1>8, <2>1 DEF AgentOf
  <2> QED BY <2>1, <2>4, <2>5, SessionFreshFrame
<1>9. ASSUME NEW r \in Requests \ {q}, Commit(r) PROVE SessionFresh(q)'
  <2>1. /\ input'[q] = input[q] /\ pc'[q] = pc[q]
        /\ entity'[q] = entity[q] /\ base'[q] = base[q]
    BY <1>9, OthersStay
  <2>2. Running(q) /\ input[q].op = "patch"
    BY <2>1 DEF Running
  <2>3. missed'[q] = IF q \in Bystanders(r) /\ entity[r] # base[r]
                     THEN missed[q] \cup {r} ELSE missed[q]
    BY <1>9 DEF Commit
  <2>4. missed[q] = {} /\ (q \in Bystanders(r) => entity[r] = base[r])
    BY <2>3
  <2>5. SessionFresh(q)
    BY <2>2, <2>4 DEF SessionsFresh
  <2>6. AgentOf(q) \in Agents /\ status[AgentOf(q)] # "ABSENT"
    BY <2>2, AgentOfTyped DEF Running, SessionsFit, SessionFits
  <2>7. Row(AgentOf(q))' = Row(AgentOf(q))
    <3>1. CASE AgentOf(q) # AgentOf(r)
      <4>1. PICK a \in Agents : a = AgentOf(q)
        BY <2>6
      <4>2. Row(a)' = Row(a)
        BY <1>9, <2>6, <3>1, <4>1, CommitIsLocal
      <4>3. AgentOf(q)' = a
        BY <2>1, <4>1 DEF AgentOf
      <4> QED BY <4>1, <4>2, <4>3
    <3>2. CASE AgentOf(q) = AgentOf(r)
      <4>1. q \in Bystanders(r)
        BY <1>9, <2>2, <3>2 DEF Bystanders, Running
      <4>2. input[r].op # "register"
        BY <1>9, <2>6, <3>2, CommitRegister DEF AgentOf
      <4>3. UNCHANGED tables
        BY <1>9, <2>4, <4>1, <4>2, CommitPatch
      <4>4. AgentOf(q)' = AgentOf(q)
        BY <2>1 DEF AgentOf
      <4> QED BY <1>1, <4>3, <4>4
    <3> QED BY <3>1, <3>2
  <2> QED BY <2>1, <2>5, <2>7, SessionFreshFrame
<1> QED BY <1>2, <1>3, <1>4, <1>5, <1>6, <1>7, <1>8, <1>9, StepCases

(* The inductive invariant holds initially.                                *)
LEMMA IInvInit == Init => IInv
<1> SUFFICES ASSUME Init PROVE IInv
  OBVIOUS
<1>1. InsertsInOrder
  BY DEF Init, InsertsInOrder, NoInput, Open
<1>2. InsertsExclusive
  BY DEF Init, InsertsExclusive, Inserted
<1>3. SessionsFit /\ SessionsFresh
  BY DEF Init, SessionsFit, SessionsFresh, Running
<1> QED BY <1>1, <1>2, <1>3, TypeInit, StagedInit, RowsAppearWholeInit DEF IInv

(* The inductive invariant is inductive.                                   *)
LEMMA IInvNext == IInv /\ [Next]_vars => IInv'
BY TypeNext, StagedNext, InsertsInOrderNext, InsertsExclusiveNext,
   RowsAppearWholeNext, SessionsFitNext, SessionsFreshNext DEF IInv

(* The inductive invariant the safety theorems follow from.                *)
THEOREM Inductive == Spec => []IInv
BY IInvInit, IInvNext, PTL DEF Spec

-----------------------------------------------------------------------------
(* The theorems.                                                           *)

(* A registration is stored whole or not at all, whatever it contends with *)
(* and whatever fails.                                                     *)
THEOREM WholeRegistrations == Spec => []RegistrationIsWhole
<1>1. IInv => RegistrationIsWhole
  BY NamesAssumption DEF IInv, RowsAppearWhole, RegistrationIsWhole, KeysOf, Agents
<1> QED BY <1>1, Inductive, PTL

(* Every step of the registry is an enrolment of one agent with all of its *)
(* keys, or changes nothing that the ledger of key owners knows.            *)
THEOREM LedgerImplemented == Spec => KeysNeverChangeHands
<1> DEFINE known == {a \in Agents : status[a] # "ABSENT"}
<1>1. Init => Ledger!Init
  <2> SUFFICES ASSUME Init PROVE known = SeedAgents /\ owner = SeedOwner
    BY DEF Ledger!Init
  <2> QED BY NamesAssumption DEF Init, Agents
<1>2. IInv /\ [Next]_vars => [Ledger!Next]_<<known, owner>>
  <2> SUFFICES ASSUME IInv, [Next]_vars PROVE [Ledger!Next]_<<known, owner>>
    OBVIOUS
  <2>1. CASE UNCHANGED tables
    BY <2>1 DEF tables
  <2>2. ASSUME NEW r \in Requests, Commit(r), input[r].op = "register"
        PROVE  Ledger!Next
    <3> DEFINE S == ToSet(input[r].keys)
    <3>1. /\ S # {} /\ S \in SUBSET Keys
          /\ \A k \in S : owner[k] = NoAgent
          /\ status[r] = "ABSENT"
          /\ status' = [status EXCEPT ![r] = "ACTIVE"]
          /\ owner' = [k \in Keys |-> IF k \in S THEN r ELSE owner[k]]
      BY <2>2, CommitRegister
    <3>2. r \in Agents /\ r \notin known /\ known' = known \cup {r}
      BY <3>1 DEF Agents, IInv, TypeOK
    <3> HIDE DEF S, known
    <3>3. PICK T \in SUBSET Keys : T = S
      BY <3>1
    <3>4. Ledger!Enrol(r, T)
      BY <3>1, <3>2, <3>3 DEF Ledger!Enrol, known
    <3> QED BY <3>2, <3>4 DEF Ledger!Next
  <2>3. ASSUME NEW r \in Requests, Commit(r), input[r].op # "register"
        PROVE  UNCHANGED <<known, owner>>
    <3>1. \A b \in Agents : status'[b] # "ABSENT" <=> status[b] # "ABSENT"
      BY <2>3, CommitPatch
    <3>2. owner' = owner
      BY <2>3, CommitPatch
    <3> QED BY <3>1, <3>2
  <2>4. ASSUME NEW r \in Requests,
               Arrive(r) \/ Load(r) \/ Save(r) \/ Flush(r) \/ InsertAgent(r)
                  \/ InsertKey(r) \/ Reply(r) \/ Ends(r)
        PROVE  UNCHANGED tables
    BY <2>4 DEF Arrive, Load, Save, Flush, InsertAgent, InsertKey, Reply, Ends, End
  <2>5. CASE UNCHANGED vars \/ Crash
    BY <2>1, <2>5 DEF vars, Crash, tables
  <2> HIDE DEF known
  <2> QED BY <2>1, <2>2, <2>3, <2>4, <2>5, StepCases DEF IInv
<1> QED BY <1>1, <1>2, Inductive, PTL DEF Spec, KeysNeverChangeHands, Ledger!Spec

(* A commit that missed nothing stores its domain object.                  *)
LEMMA ExactCommit ==
    ASSUME IInv, [Next]_vars, NEW r \in Requests, Commit(r), missed[r] = {}
    PROVE  Row(AgentOf(r))' = entity[r]
<1> USE DEF IInv
<1>1. AgentOf(r)' = AgentOf(r)
  BY DEF Commit, AgentOf
<1>2. CASE input[r].op = "register"
  <2> DEFINE S == ToSet(input[r].keys)
  <2>1. /\ S \subseteq Keys
        /\ KeysOf(r) = {}
        /\ status' = [status EXCEPT ![r] = "ACTIVE"]
        /\ updated' = [updated EXCEPT ![r] = r]
        /\ owner' = [k \in Keys |-> IF k \in S THEN r ELSE owner[k]]
        /\ live' = live \cup S
    BY <1>2, CommitRegister
  <2>2. KeysOf(r)' = S
    BY <2>1 DEF KeysOf
  <2>3. entity[r] = Registered(S, r)
    BY <1>2 DEF Commit, InsertsInOrder, Open
  <2>4. (live \cap KeysOf(r))' = S
    BY <2>1, <2>2
  <2>5. status'[r] = "ACTIVE" /\ updated'[r] = r
    BY <2>1 DEF Agents, TypeOK
  <2>6. AgentOf(r) = r
    BY <1>2 DEF AgentOf
  <2> HIDE DEF S
  <2> QED BY <1>1, <2>3, <2>4, <2>5, <2>6 DEF Row, Registered
<1>3. CASE input[r].op # "register"
  <2> DEFINE a == AgentOf(r)
  <2>1. input[r].op = "patch" /\ Running(r) /\ a \in Agents /\ owner' = owner
    BY <1>3, CommitPatch
  <2>2. base[r] = Row(a) /\ entity[r].live \subseteq KeysOf(a) /\ entity[r] \in Rows
    BY <2>1 DEF SessionsFresh, SessionFresh, SessionsFit, SessionFits, TypeOK
  <2>3. status'[a] = entity[r].status
    BY <2>1, <2>2 DEF Commit, Row, TypeOK
  <2>4. updated'[a] = entity[r].updated
    BY <2>1, <2>2 DEF Commit, Row, TypeOK
  <2>5. KeysOf(a)' = KeysOf(a)
    BY <1>1, <2>1 DEF KeysOf
  <2>6. (live \cap KeysOf(a))' = entity[r].live
    BY <2>2, <2>5 DEF Commit, WrittenLive, Row
  <2>7. entity[r] = [status |-> entity[r].status, updated |-> entity[r].updated,
                     live |-> entity[r].live]
    BY <2>2 DEF Rows
  <2> QED BY <1>1, <2>3, <2>4, <2>6, <2>7 DEF Row
<1> QED BY <1>2, <1>3

(* The diff that save writes is the domain object, if nothing was missed.  *)
THEOREM ExactSaves == Spec => IsolatedSaveIsExact
<1>1. IInv /\ [Next]_vars =>
        [\A r \in Requests :
            Commit(r) /\ missed[r] = {} => Row(AgentOf(r))' = entity[r]]_vars
  BY ExactCommit
<1> QED BY <1>1, Inductive, PTL DEF Spec, IsolatedSaveIsExact

(* Only a commit changes a status, and only of its own agent; a commit that *)
(* missed nothing never takes an agent out of REVOKED.                      *)
LEMMA Revival ==
    ASSUME IInv, [Next]_vars, NEW a \in Agents,
           status[a] = "REVOKED", status'[a] # "REVOKED"
    PROVE  \E r \in Requests : Commit(r) /\ AgentOf(r) = a /\ missed[r] # {}
<1> USE DEF IInv
<1>1. PICK r \in Requests : Commit(r)
  BY StepCases DEF vars, tables, Crash, Arrive, Load, Save, Flush, InsertAgent,
                   InsertKey, Reply, Ends, End
<1>2. input[r].op # "register"
  BY <1>1, CommitRegister DEF TypeOK
<1>3. AgentOf(r) = a /\ input[r].op = "patch" /\ Running(r)
  BY <1>1, <1>2, CommitPatch
<1>4. ASSUME missed[r] = {} PROVE FALSE
  <2>1. SessionFresh(r)
    BY <1>3, <1>4 DEF SessionsFresh
  <2>2. Row(a).status = "REVOKED"
    BY DEF Row
  <2>3. entity[r].status = "REVOKED"
    <3>1. Permits(Row(a), input[r].target) /\ entity[r] = Transition(Row(a), input[r].target, r)
      BY <1>3, <2>1 DEF SessionFresh
    <3>2. input[r].target \notin {"SUSPENDED", "ACTIVE"}
      BY <2>2, <3>1 DEF Permits
    <3>3. Row(a) \in Rows
      BY RowTyped
    <3> QED BY <2>2, <3>1, <3>2, <3>3 DEF Transition, Revoke, Rows
  <2>4. status'[a] = entity[r].status
    <3>1. Row(AgentOf(r))' = entity[r] /\ AgentOf(r)' = a
      BY <1>1, <1>3, <1>4, ExactCommit DEF Commit, AgentOf
    <3> QED BY <3>1 DEF Row
  <2> QED BY <2>3, <2>4
<1> QED BY <1>1, <1>3, <1>4

(* Whatever the requests do, an agent leaves REVOKED only by a commit      *)
(* whose PATCH missed the commit of another one.                           *)
THEOREM RevivalExplained == Spec => RevivalNeedsStaleRead
<1>1. IInv /\ [Next]_vars =>
        [\A a \in Agents :
            status[a] = "REVOKED" /\ status'[a] # "REVOKED" =>
                \E r \in Requests : Commit(r) /\ AgentOf(r) = a /\ missed[r] # {}]_vars
  BY Revival
<1> QED BY <1>1, Inductive, PTL DEF Spec, RevivalNeedsStaleRead

-----------------------------------------------------------------------------
(* Without overlapping status changes.                                     *)

(* With waiting clients no two PATCHes of an agent overlap.                *)
LEMMA PatchesAloneNext ==
    ASSUME SerialPatches, CommitBeforeReply
    PROVE  IInv /\ PatchesAlone /\ [Next]_vars => PatchesAlone'
<1> SUFFICES ASSUME IInv, PatchesAlone, [Next]_vars PROVE PatchesAlone'
  OBVIOUS
<1> USE DEF IInv
<1>1. ASSUME input' = input, \A q \in Requests : pc[q] = "done" => pc'[q] = "done",
             \A q \in Requests : pc'[q] # "acked" /\ missed'[q] = {}
      PROVE  PatchesAlone'
  BY <1>1 DEF PatchesAlone
<1>2. CASE UNCHANGED vars
  BY <1>2 DEF vars, PatchesAlone
<1>3. CASE Crash
  BY <1>1, <1>3 DEF Crash, PatchesAlone, TypeOK
<1>4. ASSUME NEW r \in Requests, Arrive(r) PROVE PatchesAlone'
  <2>1. PICK i \in Workload :
            /\ input' = [input EXCEPT ![r] = i]
            /\ i.op = "patch" =>
                \A q \in Requests : input[q].op = "patch" /\ input[q].agent = i.agent
                                        => Answered(q)
    BY <1>4 DEF Arrive
  <2>2. \A q \in Requests : Answered(q) => pc[q] = "done"
    BY DEF Answered, PatchesAlone
  <2>3. pc' = [pc EXCEPT ![r] = "arrived"] /\ missed' = missed
    BY <1>4 DEF Arrive
  <2>4. \A q \in Requests \ {r} : input'[q] = input[q] /\ pc'[q] = pc[q]
    BY <2>1, <2>3 DEF TypeOK
  <2>5. input'[r] = i
    BY <2>1 DEF TypeOK
  <2> QED BY <2>1, <2>2, <2>3, <2>4, <2>5 DEF PatchesAlone, TypeOK
<1>5. ASSUME NEW r \in Requests, Load(r) \/ Save(r) \/ Flush(r)
      PROVE  PatchesAlone'
  BY <1>1, <1>5 DEF Load, Save, Flush, Patching, PatchesAlone, TypeOK
<1>6. ASSUME NEW r \in Requests, InsertAgent(r) \/ InsertKey(r)
      PROVE  PatchesAlone'
  BY <1>1, <1>6 DEF InsertAgent, InsertKey, Registering, PatchesAlone, TypeOK
<1>7. ASSUME NEW r \in Requests, Reply(r) PROVE PatchesAlone'
  BY <1>1, <1>7 DEF Reply, PatchesAlone, TypeOK
<1>8. ASSUME NEW r \in Requests, Ends(r) PROVE PatchesAlone'
  BY <1>1, <1>8 DEF Ends, End, PatchesAlone, TypeOK
<1>9. ASSUME NEW r \in Requests, Commit(r) PROVE PatchesAlone'
  <2>1. pc[r] = "flushed" /\ pc' = [pc EXCEPT ![r] = "committed"] /\ input' = input
    BY <1>9 DEF Commit
  <2>2. Bystanders(r) = {}
    <3> SUFFICES ASSUME NEW q \in Bystanders(r) PROVE FALSE
      OBVIOUS
    <3>1. q \in Requests /\ q # r /\ AgentOf(q) = AgentOf(r) /\ Running(q)
      BY DEF Bystanders, Running
    <3>2. \A p \in Requests : input[p].op = "patch" /\ Running(p) =>
                                status[AgentOf(p)] # "ABSENT"
      BY DEF SessionsFit, SessionFits
    <3>3. \A p \in Requests : input[p].op = "register" /\ Running(p) =>
                                status[AgentOf(p)] = "ABSENT"
      BY DEF RowsAppearWhole, Running, AgentOf
    <3>4. /\ input[q].op \in {"patch", "register"} /\ input[r].op \in {"patch", "register"}
          /\ Running(r)
      BY <2>1, <3>1 DEF Staged, Running
    <3>5. CASE input[q].op = "patch" /\ input[r].op = "patch"
      BY <2>1, <3>1, <3>5 DEF PatchesAlone, AgentOf, Running
    <3>6. CASE input[q].op = "register" /\ input[r].op = "register"
      BY <3>1, <3>6 DEF AgentOf
    <3> QED BY <3>1, <3>2, <3>3, <3>4, <3>5, <3>6
  <2>3. \A q \in Requests : missed'[q] = {}
    BY <1>9, <2>2 DEF Commit, PatchesAlone
  <2> QED BY <1>1, <2>1, <2>3 DEF PatchesAlone, TypeOK
<1> QED BY <1>2, <1>3, <1>4, <1>5, <1>6, <1>7, <1>8, <1>9, StepCases

(* With waiting clients the two invariants hold together.                  *)
LEMMA PatchesStayAlone ==
    ASSUME SerialPatches, CommitBeforeReply
    PROVE  Spec => [](IInv /\ PatchesAlone)
<1>1. Init => PatchesAlone
  BY DEF Init, PatchesAlone, NoInput
<1> QED BY <1>1, IInvInit, IInvNext, PatchesAloneNext, PTL DEF Spec

(* Clients that wait for the commit of one status change before they send  *)
(* the next one of the same agent never see a revocation undone.            *)
THEOREM SerialRevocationIsTerminal ==
    ASSUME SerialPatches, CommitBeforeReply
    PROVE  Spec => RevokedIsTerminal
<1>1. IInv /\ PatchesAlone /\ [Next]_vars =>
        [\A a \in Agents : status[a] = "REVOKED" => status'[a] = "REVOKED"]_vars
  BY Revival DEF PatchesAlone
<1> QED BY <1>1, PatchesStayAlone, PTL DEF Spec, RevokedIsTerminal

(* The aggregate of the abstract specification is the one the code uses.   *)
LEMMA SameAggregate ==
    /\ Lifecycle!Status = Status
    /\ \A S, now : Lifecycle!Registered(S, now) = Registered(S, now)
    /\ \A row, t, now : /\ Lifecycle!Permits(row, t) = Permits(row, t)
                        /\ Lifecycle!Transition(row, t, now) = Transition(row, t, now)
BY DEF Lifecycle!Status, Lifecycle!Registered, Lifecycle!Permits, Lifecycle!Transition,
       Lifecycle!Suspend, Lifecycle!Revoke, Lifecycle!Activate,
       Status, Registered, Permits, Transition, Suspend, Revoke, Activate

(* For such clients the two tables, written by diff and by separate        *)
(* statements, implement the Agent aggregate.                               *)
THEOREM SerialStoreIsAggregate ==
    ASSUME SerialPatches, CommitBeforeReply
    PROVE  Spec => StoreIsAggregate
<1> DEFINE rows == [a \in Agents |-> Row(a)]
<1>1. Init => Lifecycle!Init
  <2> SUFFICES ASSUME Init
               PROVE  \A a \in Agents : Row(a) =
                        IF a \in SeedAgents
                        THEN Registered({k \in Keys : SeedOwner[k] = a}, NoRequest)
                        ELSE Blank
    BY DEF Lifecycle!Init
  <2> TAKE a \in Agents
  <2>1. status[a] = (IF a \in SeedAgents THEN "ACTIVE" ELSE "ABSENT")
        /\ updated[a] = NoRequest
    BY DEF Init
  <2>2. live \cap KeysOf(a) = {k \in Keys : SeedOwner[k] = a}
    BY NamesAssumption DEF Init, KeysOf
  <2>3. a \notin SeedAgents => {k \in Keys : SeedOwner[k] = a} = {}
    BY SeedAssumption, NamesAssumption
  <2> QED BY <2>1, <2>2, <2>3 DEF Row, Registered, Blank
<1>2. IInv /\ PatchesAlone /\ [Next]_vars => [Lifecycle!Next]_rows
  <2> SUFFICES ASSUME IInv, PatchesAlone, [Next]_vars PROVE [Lifecycle!Next]_rows
    OBVIOUS
  <2>1. ASSUME UNCHANGED tables PROVE UNCHANGED rows
    BY <2>1 DEF tables, Row, KeysOf
  <2>2. ASSUME NEW r \in Requests, Commit(r) PROVE Lifecycle!Next
    <3> DEFINE a == AgentOf(r)
    <3>1. PICK b \in Agents : b = a
      BY <2>2, AgentOfTyped DEF Commit, IInv, Staged
    <3>2. Row(b)' = entity[r]
      <4>1. Row(AgentOf(r))' = entity[r]
        BY <2>2, ExactCommit DEF PatchesAlone
      <4>2. AgentOf(r)' = b
        BY <2>2, <3>1 DEF Commit, AgentOf
      <4> QED BY <4>1, <4>2
    <3>3. \A c \in Agents \ {b} : Row(c)' = Row(c)
      BY <2>2, <3>1, CommitIsLocal
    <3>4. rows' = [rows EXCEPT ![b] = entity[r]]
      BY <3>2, <3>3
    <3>5. CASE input[r].op = "register"
      <4> DEFINE S == ToSet(input[r].keys)
      <4>1. /\ S \in SUBSET Keys
            /\ status[r] = "ABSENT" /\ KeysOf(r) = {}
        BY <2>2, <3>5, CommitRegister
      <4>2. b = r /\ entity[r] = Registered(S, r)
        BY <2>2, <3>1, <3>5 DEF AgentOf, Commit, IInv, InsertsInOrder, Open
      <4>3. rows[r] = Blank
        BY <3>1, <4>1, <4>2 DEF Row, Blank, IInv, RowsAppearWhole
      <4>4. PICK T \in SUBSET Keys : T = S
        BY <4>1
      <4> HIDE DEF S
      <4>5. Lifecycle!Enrol(b, T, r)
        BY <3>4, <4>2, <4>3, <4>4, SameAggregate DEF Lifecycle!Enrol
      <4> QED BY <3>1, <4>5 DEF Lifecycle!Next
    <3>6. CASE input[r].op # "register"
      <4>1. input[r].op = "patch" /\ Running(r) /\ missed[r] = {} /\ status[b] # "ABSENT"
        BY <2>2, <3>1, <3>6, CommitPatch DEF PatchesAlone
      <4>2. /\ Permits(Row(b), input[r].target)
            /\ entity[r] = Transition(Row(b), input[r].target, r)
        BY <3>1, <4>1 DEF IInv, SessionsFresh, SessionFresh
      <4>3. rows[b] # Blank /\ rows[b] = Row(b)
        BY <3>1, <4>1 DEF Row, Blank
      <4>4. PICK t \in Status : t = input[r].target
        BY InputTyped DEF IInv, TypeOK
      <4>5. Lifecycle!Change(b, t, r)
        BY <3>4, <4>2, <4>3, <4>4, SameAggregate DEF Lifecycle!Change
      <4> QED BY <3>1, <4>5, SameAggregate DEF Lifecycle!Next
    <3> QED BY <3>5, <3>6
  <2>3. ASSUME NEW r \in Requests,
               Arrive(r) \/ Load(r) \/ Save(r) \/ Flush(r) \/ InsertAgent(r)
                  \/ InsertKey(r) \/ Reply(r) \/ Ends(r)
        PROVE  UNCHANGED tables
    BY <2>3 DEF Arrive, Load, Save, Flush, InsertAgent, InsertKey, Reply, Ends, End
  <2>4. CASE UNCHANGED vars \/ Crash
    BY <2>1, <2>4 DEF vars, Crash, tables
  <2> HIDE DEF rows
  <2> QED BY <2>1, <2>2, <2>3, <2>4, StepCases DEF IInv
<1> QED BY <1>1, <1>2, PatchesStayAlone, PTL DEF Spec, StoreIsAggregate, Lifecycle!Spec

=============================================================================
