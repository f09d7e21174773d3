---------------------------- MODULE AnswerProofs ----------------------------
(***************************************************************************)
(* What clients may conclude from the answers of the registry, for every   *)
(* workload, every number of requests, agents and keys, and every fault    *)
(* bound: where get_db_session commits before the answer is sent, what an  *)
(* answer promises; in both modes, who wins when registrations contend.    *)
(***************************************************************************)
EXTENDS RegistryProofs, FiniteSetTheorems

(* Nothing is answered before its end, a success stays one, and a          *)
(* registration answered with success is stored.                            *)
Promises ==
    \A r \in Requests :
        /\ pc[r] # "acked"
        /\ reply[r] # "none" => pc[r] = "done"
        /\ pc[r] = "idle" => before[r] = {}
        /\ \A q \in before[r] : q \in Requests /\ reply[q] = "ok"
        /\ input[r].op = "register" /\ (pc[r] = "committed" \/ reply[r] = "ok") =>
                status[r] # "ABSENT"
        /\ input[r].op = "verify" /\ reply[r] = "ok" =>
                owner[Head(input[r].keys)] # NoAgent

(* What every step but a commit, an answer, a client's and a failure keeps. *)
Silent(r) ==
    /\ input' = input /\ reply' = reply /\ before' = before
    /\ UNCHANGED tables
    /\ \A q \in Requests \ {r} : pc'[q] = pc[q]
    /\ pc[r] \notin {"idle", "done", "committed"}
    /\ pc'[r] \in {"loaded", "dirty", "inserting", "flushed"}

(* The work of a handler is silent.                                        *)
LEMMA SilentSteps ==
    ASSUME TypeOK, NEW r \in Requests,
           Load(r) \/ Save(r) \/ Flush(r) \/ InsertAgent(r) \/ InsertKey(r)
    PROVE  Silent(r)
<1> USE DEF TypeOK, Silent
<1>1. CASE Load(r) \/ Save(r) \/ Flush(r)
  BY <1>1 DEF Load, Save, Flush, Patching, session
<1>2. CASE InsertAgent(r) \/ InsertKey(r)
  BY <1>2 DEF InsertAgent, InsertKey, Registering
<1> QED BY <1>1, <1>2

(* Once an agent is there, it stays; once a key has an owner, it keeps it.  *)
LEMMA NothingVanishes ==
    ASSUME IInv, [Next]_vars
    PROVE  /\ \A a \in Agents : status[a] # "ABSENT" => status'[a] # "ABSENT"
           /\ \A k \in Keys : owner[k] # NoAgent => owner'[k] = owner[k]
<1>1. \A a \in Agents : status[a] # "ABSENT" => status'[a] # "ABSENT"
  BY AgentsStay
<1>2. ASSUME NEW k \in Keys, owner[k] # NoAgent PROVE owner'[k] = owner[k]
  <2>1. owner[k] \in Agents /\ status[owner[k]] # "ABSENT"
    BY <1>2 DEF IInv, TypeOK, RowsAppearWhole
  <2>2. PICK a \in Agents : a = owner[k]
    BY <2>1
  <2>3. KeysOf(a)' = KeysOf(a)
    BY <2>1, <2>2, AgentsStay
  <2> QED BY <2>2, <2>3 DEF KeysOf
<1> QED BY <1>1, <1>2

(* A verification names a key.                                             *)
LEMMA VerifiedKey ==
    ASSUME TypeOK, Staged, NEW v \in Requests, input[v].op = "verify"
    PROVE  Head(input[v].keys) \in Keys
<1>1. input[v] \in Workload
  BY DEF TypeOK, Staged, NoInput
<1>2. Len(input[v].keys) = 1 /\ input[v].keys \in Seq(Keys)
  BY <1>1, WorkloadAssumption, InputTyped DEF TypeOK
<1> QED BY <1>2

(* Nothing is promised before anything is sent.                            *)
LEMMA PromisesInit == Init => Promises
BY DEF Init, Promises, NoInput

(* Every step keeps the promises.                                          *)
LEMMA PromisesNext ==
    ASSUME CommitBeforeReply
    PROVE  IInv /\ Promises /\ [Next]_vars => Promises'
<1> SUFFICES ASSUME IInv, Promises, [Next]_vars PROVE Promises'
  OBVIOUS
<1> USE DEF IInv
<1>0. /\ \A r \in Requests : r \in Agents
      /\ \A v \in Requests : input[v].op = "verify" => Head(input[v].keys) \in Keys
  BY VerifiedKey DEF Agents
<1>00. /\ \A r \in Requests : status[r] # "ABSENT" => status'[r] # "ABSENT"
       /\ \A v \in Requests :
            input[v].op = "verify" /\ owner[Head(input[v].keys)] # NoAgent =>
                owner'[Head(input[v].keys)] # NoAgent
  BY <1>0, NothingVanishes
<1>1. CASE UNCHANGED vars
  BY <1>1 DEF vars, Promises
<1>2. CASE Crash
  <2>1. /\ input' = input /\ before' = before
        /\ \A r \in Requests :
              \/ pc'[r] = pc[r] /\ reply'[r] = reply[r]
              \/ pc'[r] = "done" /\ pc[r] # "done" /\ reply'[r] = "lost"
    BY <1>2 DEF Crash, AnswerOr, Promises, TypeOK
  <2> QED BY <1>00, <2>1 DEF Promises
<1>3. ASSUME NEW r \in Requests, Arrive(r) PROVE Promises'
  <2>1. PICK i \in Workload :
            /\ input' = [input EXCEPT ![r] = i]
            /\ before' = [before EXCEPT ![r] =
                 IF i.op \in {"verify", "get"} THEN {q \in Requests : Succeeded(q)} ELSE {}]
    BY <1>3 DEF Arrive
  <2>2. /\ pc[r] = "idle" /\ reply' = reply /\ reply[r] = "none"
        /\ pc' = [pc EXCEPT ![r] = "arrived"]
    BY <1>3 DEF Arrive, Promises
  <2>3. \A q \in before'[r] : q \in Requests /\ reply[q] = "ok"
    BY <2>1 DEF Succeeded, TypeOK
  <2> QED BY <1>00, <2>1, <2>2, <2>3 DEF Promises, TypeOK
<1>4. ASSUME NEW r \in Requests, Silent(r) PROVE Promises'
  BY <1>00, <1>4 DEF Silent, Promises
<1>5. ASSUME NEW r \in Requests, Commit(r) PROVE Promises'
  <2>1. /\ pc[r] = "flushed" /\ pc' = [pc EXCEPT ![r] = "committed"]
        /\ input' = input /\ reply' = reply /\ before' = before
    BY <1>5 DEF Commit
  <2>2. input[r].op = "register" => status'[r] # "ABSENT"
    <3>1. input[r].op = "register" => status' = [status EXCEPT ![r] = "ACTIVE"]
      BY <1>5, CommitRegister
    <3> QED BY <1>0, <3>1 DEF TypeOK
  <2> QED BY <1>00, <2>1, <2>2 DEF Promises, TypeOK
<1>6. ASSUME NEW r \in Requests, Reply(r) PROVE Promises'
  <2>1. /\ pc[r] = "committed" /\ pc' = [pc EXCEPT ![r] = "done"]
        /\ reply' = [reply EXCEPT ![r] = "ok"]
        /\ input' = input /\ before' = before
    BY <1>6 DEF Reply
  <2>2. input[r].op # "verify"
    BY <2>1 DEF Staged
  <2> QED BY <1>00, <2>1, <2>2 DEF Promises, TypeOK
<1>7. ASSUME NEW r \in Requests, Ends(r) PROVE Promises'
  <2>1. PICK x \in Replies : End(r, x) /\ Honest(r, x) /\ pc[r] \notin {"idle", "done"}
    BY <1>7 DEF Ends
  <2>2. /\ input' = input /\ before' = before /\ reply[r] = "none"
        /\ pc' = [pc EXCEPT ![r] = "done"] /\ reply' = [reply EXCEPT ![r] = x]
    BY <2>1 DEF End, Promises
  <2>3. x = "ok" => /\ input[r].op # "register"
                    /\ input[r].op = "verify" => owner[Head(input[r].keys)] # NoAgent
    BY <2>1 DEF Honest, Promises
  <2> QED BY <1>00, <2>2, <2>3 DEF Promises, TypeOK
<1> QED BY <1>1, <1>2, <1>3, <1>4, <1>5, <1>6, <1>7, SilentSteps, StepCases

(* The promises hold in every state.                                       *)
LEMMA PromisesHold ==
    ASSUME CommitBeforeReply PROVE Spec => [](IInv /\ Promises)
BY IInvInit, IInvNext, PromisesInit, PromisesNext, PTL DEF Spec

-----------------------------------------------------------------------------
(* Read your writes.                                                       *)

(* A reader that arrived after a registration was answered is not told that *)
(* there is no such agent or key.                                          *)
LEMMA ReadersFind ==
    ASSUME IInv, Promises, NEW v \in Requests, NEW r \in before[v],
           Ends(v), reply'[v] = "notfound", input[r].op = "register"
    PROVE  /\ ~ (input[v].op = "get" /\ input[v].agent = r)
           /\ ~ (input[v].op = "verify" /\ Head(input[v].keys) \in ToSet(input[r].keys))
<1> USE DEF IInv
<1>1. r \in Requests /\ status[r] # "ABSENT"
  BY DEF Promises
<1>2. KeysOf(r) = ToSet(input[r].keys)
  BY <1>1 DEF RowsAppearWhole
<1>3. Honest(v, "notfound") /\ pc[v] # "acked"
  BY DEF Ends, End, TypeOK, Promises
<1>4. ASSUME input[v].op = "get", input[v].agent = r PROVE FALSE
  BY <1>1, <1>3, <1>4 DEF Honest
<1>5. ASSUME input[v].op = "verify", Head(input[v].keys) \in ToSet(input[r].keys)
      PROVE  FALSE
  <2>1. owner[Head(input[v].keys)] = NoAgent
    BY <1>3, <1>5 DEF Honest
  <2>2. owner[Head(input[v].keys)] = r
    BY <1>2, <1>5 DEF KeysOf
  <2> QED BY <1>1, <2>1, <2>2, NamesAssumption DEF Agents
<1> QED BY <1>4, <1>5

(* Every step keeps what readers may rely on.                              *)
LEMMA ReadsNext ==
    ASSUME CommitBeforeReply
    PROVE  IInv /\ Promises /\ ReadYourRegistration /\ [Next]_vars
                => ReadYourRegistration'
<1> SUFFICES ASSUME IInv, Promises, ReadYourRegistration, [Next]_vars
             PROVE  ReadYourRegistration'
  OBVIOUS
<1> USE DEF IInv
<1>1. ASSUME input' = input, before' = before,
             \A q \in Requests : reply'[q] = "notfound" => reply[q] = "notfound"
      PROVE  ReadYourRegistration'
  BY <1>1 DEF ReadYourRegistration
<1>2. CASE UNCHANGED vars
  BY <1>1, <1>2 DEF vars
<1>3. CASE Crash
  BY <1>1, <1>3 DEF Crash, AnswerOr, Promises, TypeOK
<1>4. ASSUME NEW r \in Requests, Arrive(r) PROVE ReadYourRegistration'
  <2>1. /\ pc[r] = "idle" /\ reply' = reply /\ reply[r] = "none"
        /\ input[r] = NoInput
        /\ \A q \in Requests \ {r} : input'[q] = input[q] /\ before'[q] = before[q]
    BY <1>4 DEF Arrive, Promises, Staged, TypeOK
  <2>2. \A v \in Requests : r \notin before[v]
    BY <2>1 DEF Promises
  <2> QED BY <2>1, <2>2 DEF ReadYourRegistration, Promises
<1>5. ASSUME NEW r \in Requests, Silent(r) \/ Commit(r) \/ Reply(r)
      PROVE  ReadYourRegistration'
  BY <1>1, <1>5 DEF Silent, Commit, Reply, TypeOK
<1>6. ASSUME NEW r \in Requests, Ends(r) PROVE ReadYourRegistration'
  <2>1. /\ input' = input /\ before' = before
        /\ \A q \in Requests \ {r} : reply'[q] = reply[q]
    BY <1>6 DEF Ends, End, TypeOK
  <2>2. \A q \in before[r] : input[q].op = "register" /\ reply'[r] = "notfound" =>
            /\ ~ (input[r].op = "get" /\ input[r].agent = q)
            /\ ~ (input[r].op = "verify" /\ Head(input[r].keys) \in ToSet(input[q].keys))
    BY <1>6, ReadersFind
  <2> QED BY <2>1, <2>2 DEF ReadYourRegistration
<1> QED BY <1>2, <1>3, <1>4, <1>5, <1>6, SilentSteps, StepCases

(* Where the answer follows the commit, whoever was answered 201 finds the  *)
(* agent and its keys, whatever the other requests do and whatever fails.   *)
THEOREM RegistrationsAreRead ==
    ASSUME CommitBeforeReply PROVE Spec => []ReadYourRegistration
<1>1. Init => ReadYourRegistration
  BY DEF Init, ReadYourRegistration
<1> QED BY <1>1, PromisesHold, ReadsNext, PTL DEF Spec

-----------------------------------------------------------------------------
(* Status changes of clients that wait for the answer.                      *)

(* The commit of a PATCH stores the transition of the agent as it is.       *)
LEMMA PatchCommits ==
    ASSUME IInv, PatchesAlone, [Next]_vars, NEW r \in Requests, Commit(r),
           input[r].op # "register", NEW a \in Agents, a = AgentOf(r)
    PROVE  /\ input[r].op = "patch" /\ a = input[r].agent /\ owner' = owner
           /\ Permits(Row(a), input[r].target)
           /\ Row(a)' = Transition(Row(a), input[r].target, r)
<1>1. input[r].op = "patch" /\ Running(r) /\ owner' = owner
  BY CommitPatch
<1>2. a = input[r].agent /\ AgentOf(r)' = a
  BY <1>1 DEF AgentOf, Commit
<1>3. missed[r] = {}
  BY DEF PatchesAlone
<1>4. /\ Permits(Row(a), input[r].target)
      /\ entity[r] = Transition(Row(a), input[r].target, r)
  BY <1>1, <1>3 DEF IInv, SessionsFresh, SessionFresh
<1>5. Row(AgentOf(r))' = entity[r]
  BY <1>3, ExactCommit
<1>6. Row(a)' = entity[r]
  BY <1>2, <1>5
<1> QED BY <1>1, <1>2, <1>4, <1>6

(* For such clients a PATCH to a documented target that commits reaches it. *)
THEOREM TargetsAreReached ==
    ASSUME SerialPatches, CommitBeforeReply
    PROVE  Spec => AcceptedTargetIsReached
<1>1. ASSUME IInv, PatchesAlone, [Next]_vars, NEW r \in Requests, Commit(r),
             input[r].op = "patch", input[r].target # "PENDING_VERIFICATION"
      PROVE  status'[AgentOf(r)] = input[r].target
  <2>1. PICK a \in Agents : a = AgentOf(r)
    BY <1>1, CommitPatch
  <2>2. Row(a)' = Transition(Row(a), input[r].target, r)
    BY <1>1, <2>1, PatchCommits
  <2>3. Row(a) \in Rows /\ input[r].target \in Status
    BY <1>1, RowTyped, InputTyped DEF IInv, TypeOK
  <2>4. Transition(Row(a), input[r].target, r).status = input[r].target
    BY <1>1, <2>3 DEF Transition, Suspend, Revoke, Activate, Rows, Status
  <2>5. Row(a)'.status = status'[a]
    BY DEF Row
  <2> QED BY <2>1, <2>2, <2>4, <2>5
<1>2. IInv /\ PatchesAlone /\ [Next]_vars =>
        [\A r \in Requests :
            Commit(r) /\ input[r].op = "patch" /\ input[r].target # "PENDING_VERIFICATION" =>
                status'[AgentOf(r)] = input[r].target]_vars
  BY <1>1
<1> QED BY <1>2, PatchesStayAlone, PTL DEF Spec, AcceptedTargetIsReached

(* What the aggregate says of the keys of a present agent.                  *)
Whole(row, keys) == row.live = (IF row.status = "REVOKED" THEN {} ELSE keys)

(* A permitted transition keeps keys and status in step.                    *)
LEMMA TransitionsStayWhole ==
    ASSUME NEW row \in Rows, NEW keys, NEW t \in Status, NEW now \in Requests,
           Permits(row, t), Whole(row, keys)
    PROVE  Whole(Transition(row, t, now), keys)
BY DEF Permits, Whole, Transition, Suspend, Revoke, Activate, Rows, Status

(* A commit that missed nothing keeps the key rows of its agent in step.    *)
LEMMA Split ==
    ASSUME IInv, [Next]_vars, NEW a \in Agents, Agrees(a), ~Agrees(a)'
    PROVE  \E r \in Requests : Commit(r) /\ AgentOf(r) = a /\ missed[r] # {}
<1>1. PICK r \in Requests : Commit(r)
  BY StepCases DEF IInv, vars, tables, Crash, Arrive, Load, Save, Flush, InsertAgent,
                   InsertKey, Reply, Ends, End, Agrees, KeysOf
<1>2. CASE status[a] = "ABSENT"
  <2>1. KeysOf(a) = {}
    <3>1. \A k \in Keys : owner[k] # NoAgent => status[owner[k]] # "ABSENT"
      BY DEF IInv, RowsAppearWhole
    <3>2. a # NoAgent
      BY NamesAssumption
    <3> QED BY <1>2, <3>1, <3>2 DEF KeysOf
  <2>2. CASE input[r].op = "register"
    <3>1. /\ KeysOf(r) = {}
          /\ owner' = [k \in Keys |-> IF k \in ToSet(input[r].keys) THEN r ELSE owner[k]]
          /\ live' = live \cup ToSet(input[r].keys)
          /\ status' = [status EXCEPT ![r] = "ACTIVE"]
      BY <1>1, <2>2, CommitRegister
    <3>2. KeysOf(a)' = IF a = r THEN ToSet(input[r].keys) \cap Keys ELSE {}
      BY <2>1, <3>1 DEF KeysOf
    <3>3. a = r => status'[a] = "ACTIVE"
      BY <3>1 DEF IInv, TypeOK
    <3> QED BY <3>1, <3>2, <3>3 DEF Agrees
  <2>3. CASE input[r].op # "register"
    <3>1. owner' = owner
      BY <1>1, <2>3, CommitPatch
    <3>2. KeysOf(a)' = {}
      BY <2>1, <3>1 DEF KeysOf
    <3> QED BY <3>2 DEF Agrees
  <2> QED BY <2>2, <2>3
<1>3. CASE status[a] # "ABSENT"
  <2>1. KeysOf(a)' = KeysOf(a)
    BY <1>3, AgentsStay
  <2>2. AgentOf(r) = a
    <3>1. SUFFICES ASSUME AgentOf(r) # a PROVE FALSE
      OBVIOUS
    <3>2. Row(a)' = Row(a)
      BY <1>1, <3>1, CommitIsLocal
    <3> QED BY <2>1, <3>2 DEF Row, Agrees
  <2>3. input[r].op # "register"
    <3>1. input[r].op = "register" => status[r] = "ABSENT" /\ AgentOf(r) = r
      BY <1>1, CommitRegister DEF AgentOf
    <3> QED BY <1>3, <2>2, <3>1
  <2>4. ASSUME missed[r] = {} PROVE FALSE
    <3>1. /\ Permits(Row(a), input[r].target)
          /\ entity[r] = Transition(Row(a), input[r].target, r)
      BY <1>1, <2>2, <2>3, <2>4, CommitPatch DEF IInv, SessionsFresh, SessionFresh
    <3>2. Row(a)' = entity[r]
      <4>1. Row(AgentOf(r))' = entity[r] /\ AgentOf(r)' = a
        BY <1>1, <2>2, <2>4, ExactCommit DEF Commit, AgentOf
      <4> QED BY <4>1, <2>2
    <3>3. Row(a) \in Rows /\ input[r].target \in Status
      BY RowTyped, InputTyped DEF IInv, TypeOK
    <3>4. Whole(Row(a), KeysOf(a))
      BY DEF Agrees, Whole, Row
    <3>5. Whole(entity[r], KeysOf(a))
      BY <3>1, <3>3, <3>4, TransitionsStayWhole
    <3> QED BY <2>1, <3>2, <3>5 DEF Whole, Row, Agrees
  <2> QED BY <1>1, <2>2, <2>4
<1> QED BY <1>2, <1>3

(* Whatever the requests do, the status and the keys of an agent part only *)
(* by a commit whose PATCH missed the commit of another one.               *)
THEOREM SplitsExplained == Spec => SplitsNeedStaleRead
<1>1. IInv /\ [Next]_vars =>
        [\A a \in Agents :
            Agrees(a) /\ ~Agrees(a)' =>
                \E r \in Requests : Commit(r) /\ AgentOf(r) = a /\ missed[r] # {}]_vars
  BY Split
<1> QED BY <1>1, Inductive, PTL DEF Spec, SplitsNeedStaleRead

(* Every agent that is stored is whole.                                    *)
AgentsWhole == \A a \in Agents : status[a] # "ABSENT" => Whole(Row(a), KeysOf(a))

(* Every step leaves every agent whole, if no PATCH misses another.        *)
LEMMA AgentsWholeNext ==
    IInv /\ PatchesAlone /\ AgentsWhole /\ [Next]_vars => AgentsWhole'
<1> SUFFICES ASSUME IInv, PatchesAlone, AgentsWhole, [Next]_vars,
                    NEW a \in Agents, status'[a] # "ABSENT"
             PROVE  Whole(Row(a)', KeysOf(a)')
  BY DEF AgentsWhole, Whole
<1>1. CASE UNCHANGED tables
  BY <1>1 DEF tables, Row, KeysOf, AgentsWhole, Whole
<1>2. ASSUME NEW r \in Requests, Commit(r) PROVE Whole(Row(a)', KeysOf(a)')
  <2>1. CASE a # AgentOf(r)
    <3>1. Row(a)' = Row(a)
      BY <1>2, <2>1, CommitIsLocal
    <3>2. status'[a] = status[a]
      BY <3>1 DEF Row
    <3>3. KeysOf(a)' = KeysOf(a)
      BY <3>2, AgentsStay
    <3> QED BY <3>1, <3>2, <3>3 DEF AgentsWhole
  <2>2. CASE a = AgentOf(r) /\ input[r].op = "register"
    <3> DEFINE S == ToSet(input[r].keys)
    <3>1. a = r
      BY <2>2 DEF AgentOf
    <3>2. /\ S \subseteq Keys /\ KeysOf(r) = {}
          /\ status' = [status EXCEPT ![r] = "ACTIVE"]
          /\ owner' = [k \in Keys |-> IF k \in S THEN r ELSE owner[k]]
          /\ live' = live \cup S
      BY <1>2, <2>2, CommitRegister
    <3>3. KeysOf(a)' = S
      BY <3>1, <3>2 DEF KeysOf
    <3>4. status'[a] = "ACTIVE"
      BY <3>1, <3>2 DEF IInv, TypeOK
    <3>5. (live \cap KeysOf(a))' = S
      BY <3>2, <3>3
    <3> HIDE DEF S
    <3> QED BY <3>3, <3>4, <3>5 DEF Row, Whole
  <2>3. CASE a = AgentOf(r) /\ input[r].op # "register"
    <3>1. /\ owner' = owner
          /\ Permits(Row(a), input[r].target)
          /\ Row(a)' = Transition(Row(a), input[r].target, r)
      BY <1>2, <2>3, PatchCommits
    <3>2. KeysOf(a)' = KeysOf(a)
      BY <3>1 DEF KeysOf
    <3>3. status[a] # "ABSENT"
      BY <1>2, <2>3, CommitPatch
    <3>4. Row(a) \in Rows /\ input[r].target \in Status
      BY RowTyped, InputTyped DEF IInv, TypeOK
    <3> QED BY <3>1, <3>2, <3>3, <3>4, TransitionsStayWhole DEF AgentsWhole
  <2> QED BY <2>1, <2>2, <2>3
<1>3. ASSUME NEW r \in Requests,
             Arrive(r) \/ Load(r) \/ Save(r) \/ Flush(r) \/ InsertAgent(r)
                \/ InsertKey(r) \/ Reply(r) \/ Ends(r)
      PROVE  UNCHANGED tables
  BY <1>3 DEF Arrive, Load, Save, Flush, InsertAgent, InsertKey, Reply, Ends, End
<1>4. CASE UNCHANGED vars \/ Crash
  BY <1>1, <1>4 DEF vars, Crash, tables
<1> QED BY <1>1, <1>2, <1>3, <1>4, StepCases DEF IInv

(* For such clients the keys of an agent are active exactly while it is not *)
(* revoked, although the two tables are written by separate statements.     *)
THEOREM KeysAgreeWithStatus ==
    ASSUME SerialPatches, CommitBeforeReply
    PROVE  Spec => []KeysFollowStatus
<1>1. Init => AgentsWhole
  <2> SUFFICES ASSUME Init, NEW a \in Agents, status[a] # "ABSENT"
               PROVE  Whole(Row(a), KeysOf(a))
    BY DEF AgentsWhole
  <2>1. status[a] = "ACTIVE"
    BY DEF Init
  <2>2. live \cap KeysOf(a) = KeysOf(a)
    BY NamesAssumption DEF Init, KeysOf
  <2> QED BY <2>1, <2>2 DEF Whole, Row
<1>2. IInv /\ AgentsWhole => KeysFollowStatus
  <2> SUFFICES ASSUME IInv, AgentsWhole, NEW k \in Keys, owner[k] # NoAgent
               PROVE  k \in live <=> status[owner[k]] # "REVOKED"
    BY DEF KeysFollowStatus
  <2>1. PICK a \in Agents : a = owner[k]
    BY DEF IInv, TypeOK
  <2>2. status[a] # "ABSENT" /\ k \in KeysOf(a)
    BY <2>1 DEF IInv, RowsAppearWhole, KeysOf
  <2>3. Whole(Row(a), KeysOf(a))
    BY <2>2 DEF AgentsWhole
  <2> QED BY <2>1, <2>2, <2>3 DEF Whole, Row
<1> QED BY <1>1, <1>2, AgentsWholeNext, PatchesStayAlone, PTL DEF Spec

-----------------------------------------------------------------------------
(* Revocations.                                                            *)

(* An agent whose revocation has committed is revoked.                     *)
Revoked ==
    \A p \in Requests :
        /\ input[p].op = "patch" /\ input[p].target = "REVOKED"
        /\ pc[p] = "committed" \/ reply[p] = "ok"
        => status[input[p].agent] = "REVOKED"

(* A PATCH that has arrived names an agent.                                *)
LEMMA PatchedAgent ==
    ASSUME TypeOK, Staged, NEW p \in Requests, input[p].op = "patch"
    PROVE  input[p].agent \in Agents
<1>1. input[p] \in Workload
  BY DEF TypeOK, Staged, NoInput
<1> QED BY <1>1, WorkloadAssumption

(* REVOKED is final where no PATCH misses another.                          *)
LEMMA RevokedStays ==
    ASSUME IInv, PatchesAlone, [Next]_vars, NEW a \in Agents, status[a] = "REVOKED"
    PROVE  status'[a] = "REVOKED"
BY Revival DEF PatchesAlone

(* Every step leaves committed revocations in force.                       *)
LEMMA RevokedNext ==
    ASSUME CommitBeforeReply
    PROVE  IInv /\ PatchesAlone /\ Promises /\ Revoked /\ [Next]_vars => Revoked'
<1> SUFFICES ASSUME IInv, PatchesAlone, Promises, Revoked, [Next]_vars PROVE Revoked'
  OBVIOUS
<1> USE DEF IInv
<1>0. \A p \in Requests :
        input[p].op = "patch" /\ status[input[p].agent] = "REVOKED" =>
            status'[input[p].agent] = "REVOKED"
  BY PatchedAgent, RevokedStays
<1>1. CASE UNCHANGED vars
  BY <1>1 DEF vars, Revoked
<1>2. CASE Crash
  BY <1>0, <1>2 DEF Crash, AnswerOr, Promises, Revoked, TypeOK
<1>3. ASSUME NEW r \in Requests, Arrive(r) PROVE Revoked'
  <2>1. /\ pc'[r] = "arrived" /\ reply' = reply /\ reply[r] = "none"
        /\ \A q \in Requests \ {r} : input'[q] = input[q] /\ pc'[q] = pc[q]
    BY <1>3 DEF Arrive, Promises, TypeOK
  <2> QED BY <1>0, <2>1 DEF Revoked
<1>4. ASSUME NEW r \in Requests, Silent(r) PROVE Revoked'
  BY <1>0, <1>4 DEF Silent, Revoked
<1>5. ASSUME NEW r \in Requests, Commit(r) PROVE Revoked'
  <2>1. /\ input' = input /\ reply' = reply
        /\ \A q \in Requests \ {r} : pc'[q] = pc[q]
    BY <1>5 DEF Commit, TypeOK
  <2>2. ASSUME input[r].op = "patch", input[r].target = "REVOKED"
        PROVE  status'[input[r].agent] = "REVOKED"
    <3>1. PICK a \in Agents : a = AgentOf(r)
      BY <1>5, <2>2, CommitPatch
    <3>2. a = input[r].agent /\ Row(a)' = Transition(Row(a), "REVOKED", r)
      BY <1>5, <2>2, <3>1, PatchCommits
    <3>3. Row(a) \in Rows
      BY RowTyped
    <3>4. Row(a)'.status = "REVOKED"
      BY <3>2, <3>3 DEF Transition, Revoke, Rows
    <3>5. Row(a)'.status = status'[a]
      BY DEF Row
    <3> QED BY <3>2, <3>4, <3>5
  <2> QED BY <1>0, <2>1, <2>2 DEF Revoked
<1>6. ASSUME NEW r \in Requests, Reply(r) PROVE Revoked'
  <2>1. /\ pc[r] = "committed" /\ input' = input /\ status' = status
        /\ \A q \in Requests \ {r} : pc'[q] = pc[q] /\ reply'[q] = reply[q]
    BY <1>6 DEF Reply, tables, TypeOK
  <2> QED BY <2>1 DEF Revoked
<1>7. ASSUME NEW r \in Requests, Ends(r) PROVE Revoked'
  <2>1. PICK x \in Replies : End(r, x) /\ Honest(r, x)
    BY <1>7 DEF Ends
  <2>2. /\ input' = input /\ status' = status
        /\ pc' = [pc EXCEPT ![r] = "done"] /\ reply' = [reply EXCEPT ![r] = x]
    BY <2>1 DEF End, tables
  <2>3. x = "ok" => input[r].op # "patch"
    BY <2>1 DEF Honest, Promises
  <2> QED BY <2>2, <2>3 DEF Revoked, TypeOK
<1> QED BY <1>1, <1>2, <1>3, <1>4, <1>5, <1>6, <1>7, SilentSteps, StepCases

(* A verification that ends with success after the answer to a revocation   *)
(* is of an agent that was not the one revoked.                             *)
LEMMA VerifiersRefuse ==
    ASSUME IInv, Promises, Revoked, NEW v \in Requests, NEW p \in before[v],
           Ends(v), reply'[v] = "ok", input[v].op = "verify",
           input[p].op = "patch", input[p].target = "REVOKED"
    PROVE  owner[Head(input[v].keys)] # input[p].agent
<1>1. status[input[p].agent] = "REVOKED"
  BY DEF Promises, Revoked
<1>2. Honest(v, "ok") /\ pc[v] # "acked"
  BY DEF Ends, End, IInv, TypeOK, Promises
<1>3. status[owner[Head(input[v].keys)]] = "ACTIVE"
  BY <1>2 DEF Honest
<1> QED BY <1>1, <1>3

(* Every step refuses the keys of agents whose revocation was answered.    *)
LEMMA RefusalsNext ==
    IInv /\ Promises /\ Revoked /\ RevocationIsEffective /\ [Next]_vars
        => RevocationIsEffective'
<1> SUFFICES ASSUME IInv, Promises, Revoked, RevocationIsEffective, [Next]_vars
             PROVE  RevocationIsEffective'
  OBVIOUS
<1> USE DEF IInv
<1>0. \A v \in Requests : input[v].op = "verify" /\ reply[v] = "ok" =>
        owner'[Head(input[v].keys)] = owner[Head(input[v].keys)]
  BY VerifiedKey, NothingVanishes DEF Promises
<1>1. ASSUME input' = input, before' = before,
             \A q \in Requests : input[q].op = "verify" /\ reply'[q] = "ok" => reply[q] = "ok"
      PROVE  RevocationIsEffective'
  BY <1>0, <1>1 DEF RevocationIsEffective
<1>2. CASE UNCHANGED vars
  BY <1>1, <1>2 DEF vars
<1>3. CASE Crash
  BY <1>1, <1>3 DEF Crash, AnswerOr, Promises, TypeOK
<1>4. ASSUME NEW r \in Requests, Arrive(r) PROVE RevocationIsEffective'
  <2>1. /\ pc[r] = "idle" /\ reply' = reply /\ reply[r] = "none" /\ owner' = owner
        /\ \A q \in Requests \ {r} : input'[q] = input[q] /\ before'[q] = before[q]
    BY <1>4 DEF Arrive, Promises, TypeOK, tables
  <2>2. \A v \in Requests : r \notin before[v]
    BY <2>1 DEF Promises
  <2> QED BY <2>1, <2>2 DEF RevocationIsEffective, Promises
<1>5. ASSUME NEW r \in Requests, Silent(r) \/ Commit(r) PROVE RevocationIsEffective'
  BY <1>1, <1>5 DEF Silent, Commit
<1>6. ASSUME NEW r \in Requests, Reply(r) PROVE RevocationIsEffective'
  <2>1. /\ input' = input /\ before' = before
        /\ input[r].op # "verify"
        /\ \A q \in Requests \ {r} : reply'[q] = reply[q]
    BY <1>6 DEF Reply, Staged, TypeOK
  <2> QED BY <1>1, <2>1
<1>7. ASSUME NEW r \in Requests, Ends(r) PROVE RevocationIsEffective'
  <2>1. /\ input' = input /\ before' = before /\ owner' = owner
        /\ \A q \in Requests \ {r} : reply'[q] = reply[q]
    BY <1>7 DEF Ends, End, TypeOK, tables
  <2>2. \A p \in before[r] :
            /\ input[r].op = "verify" /\ reply'[r] = "ok"
            /\ input[p].op = "patch" /\ input[p].target = "REVOKED"
            => owner[Head(input[r].keys)] # input[p].agent
    BY <1>7, VerifiersRefuse
  <2> QED BY <2>1, <2>2 DEF RevocationIsEffective
<1> QED BY <1>2, <1>3, <1>4, <1>5, <1>6, <1>7, SilentSteps, StepCases

(* For clients that wait for the commit, no verification that arrives after *)
(* the 200 of a revocation accepts a key of the revoked agent.              *)
THEOREM RevocationsAreEffective ==
    ASSUME SerialPatches, CommitBeforeReply
    PROVE  Spec => []RevocationIsEffective
<1>1. Init => Revoked /\ RevocationIsEffective
  BY DEF Init, Revoked, RevocationIsEffective, NoInput
<1> QED BY <1>1, PatchesStayAlone, PromisesHold, RevokedNext, RefusalsNext, PTL DEF Spec

-----------------------------------------------------------------------------
(* Contending registrations.                                               *)

(* The ends of requests that nothing failed: only the index and the search *)
(* for deadlocks end a registration that could succeed.                     *)
Denied(r) == /\ Ends(r)
             /\ pc[r] \in {"arrived", "inserting"}
             /\ \/ ~Feasible(r)
                \/ InsertConflict(r)
                \/ DeadlockAbort(r)

Advances(r) == \/ Load(r) \/ Save(r) \/ Flush(r)
               \/ InsertAgent(r) \/ InsertKey(r) \/ Commit(r) \/ Reply(r)

(* The steps of the system, by whether something fails in them.            *)
LEMMA FaultCases ==
    ASSUME TypeOK, [Next]_vars
    PROVE  \/ UNCHANGED vars
           \/ faults' = faults + 1 /\ (Crash \/ \E r \in Requests : Ends(r))
           \/ /\ faults' = faults
              /\ \E r \in Requests : Arrive(r) \/ Advances(r) \/ Denied(r)
<1>1. ASSUME NEW r \in Requests, Refuse(r) \/ PatchNotFound(r) \/ PatchConflict(r) \/ Look(r)
      PROVE  Denied(r) /\ faults' = faults
  <2>1. Ends(r)
    BY <1>1, EndingSteps
  <2>2. faults' = faults /\ pc[r] = "arrived"
    BY <1>1 DEF Refuse, PatchNotFound, PatchConflict, Patching, Look, Get, Verify, Reading
  <2>3. ~Feasible(r)
    BY <1>1 DEF Refuse, PatchNotFound, PatchConflict, Patching, Look, Get, Verify,
                Reading, Feasible
  <2> QED BY <2>1, <2>2, <2>3 DEF Denied
<1>2. ASSUME NEW r \in Requests, InsertConflict(r) \/ DeadlockAbort(r)
      PROVE  Denied(r) /\ faults' = faults
  <2>1. Ends(r)
    BY <1>2, EndingSteps
  <2>2. faults' = faults
    BY <1>2 DEF InsertConflict, DeadlockAbort
  <2>3. pc[r] = "inserting"
    BY <1>2 DEF InsertConflict, DeadlockAbort, Deadlocked, WaitsFor, Registering
  <2> QED BY <1>2, <2>1, <2>2, <2>3 DEF Denied
<1>3. ASSUME NEW r \in Requests, DbFault(r) PROVE Ends(r) /\ faults' = faults + 1
  BY <1>3, EndingSteps DEF DbFault
<1>4. ASSUME NEW r \in Requests, Arrive(r) \/ Advances(r) PROVE faults' = faults
  BY <1>4 DEF Arrive, Advances, Load, Save, Flush, InsertAgent, InsertKey, Commit, Reply
<1>5. ASSUME NEW r \in Requests, Serve(r)
      PROVE  faults' = faults /\ (Advances(r) \/ Denied(r))
  BY <1>1, <1>2, <1>4, <1>5 DEF Serve, Patch, Register, Advances
<1>6. Crash => faults' = faults + 1
  BY DEF Crash
<1> QED BY <1>3, <1>4, <1>5, <1>6 DEF Next, Quiescent

(* What a registration may claim depends on its payload only.              *)
LEMMA ClaimsFrame ==
    ASSUME NEW r, input'[r] = input[r]
    PROVE  Feasible(r)' = Feasible(r) /\ CanBlock(r)' = CanBlock(r)
BY DEF Feasible, CanBlock

(* Nobody has won before anything is sent.                                 *)
LEMMA WinnersInit == Init => WinnersAreFeasible /\ SomeoneInPlay
<1> SUFFICES ASSUME Init PROVE WinnersAreFeasible /\ SomeoneInPlay
  OBVIOUS
<1>1. \A r \in Requests : pc[r] = "idle" /\ inserted[r] = 0 /\ status[r] = "ABSENT"
  BY NamesAssumption DEF Init, Agents
<1>2. \A r \in Requests : \A i \in 1 .. inserted[r] : FALSE
  BY <1>1
<1>3. owner = SeedOwner
  BY DEF Init
<1> QED BY <1>1, <1>2, <1>3 DEF WinnersAreFeasible, SomeoneInPlay, Open

(* What a committed registration was.                                      *)
LEMMA CommitFeasible ==
    ASSUME IInv, WinnersAreFeasible, NEW r \in Requests, Commit(r),
           input[r].op = "register"
    PROVE  Feasible(r)
<1> USE DEF IInv
<1>1. inserted[r] = Len(input[r].keys) /\ input[r].ok
  BY DEF Commit, InsertsInOrder, Open, WinnersAreFeasible
<1>2. input[r].keys \in Seq(Keys)
  BY InputTyped DEF TypeOK
<1>3. \A i, j \in 1 .. Len(input[r].keys) : input[r].keys[i] = input[r].keys[j] => i = j
  BY <1>1 DEF WinnersAreFeasible
<1>4. IsInjective(input[r].keys)
  BY <1>2, <1>3 DEF IsInjective
<1>5. \A k \in ToSet(input[r].keys) : k \in Keys /\ owner[k] = NoAgent
  BY CommitRegister
<1>6. \A k \in ToSet(input[r].keys) : SeedOwner[k] = NoAgent
  BY <1>5 DEF WinnersAreFeasible
<1> QED BY <1>1, <1>4, <1>6 DEF Feasible

(* Every step keeps who can win.                                           *)
LEMMA WinnersNext == IInv /\ WinnersAreFeasible /\ [Next]_vars => WinnersAreFeasible'
<1> SUFFICES ASSUME IInv, WinnersAreFeasible, [Next]_vars PROVE WinnersAreFeasible'
  OBVIOUS
<1> USE DEF IInv
<1>0. \A q \in Requests : q \in Agents /\ inserted[q] \in Nat
  BY DEF Agents, TypeOK
(* It is enough that no table changes, and that of each request what it     *)
(* holds stays or is gone.                                                  *)
<1>1. ASSUME UNCHANGED tables, faults' = 0 => faults = 0,
             \A q \in Requests :
                /\ \/ input'[q] = input[q]
                   \/ status[q] = "ABSENT" /\ inserted'[q] = 0
                /\ inserted'[q] = inserted[q] \/ inserted'[q] = 0
                /\ Open(q)' /\ input'[q].op = "register" => Open(q) /\ input'[q] = input[q]
                /\ status[q] # "ABSENT" /\ pc'[q] = "done" /\ faults' = 0 =>
                        pc[q] = "done" /\ reply'[q] = reply[q]
                /\ pc'[q] = "acked" => pc[q] = "acked" /\ reply'[q] = reply[q]
      PROVE  WinnersAreFeasible'
  <2>1. \A q \in Requests : status'[q] # "ABSENT" => Feasible(q)'
    <3>1. \A q \in Requests : status[q] # "ABSENT" => Feasible(q) /\ input'[q] = input[q]
      BY <1>1 DEF WinnersAreFeasible
    <3> QED BY <1>1, <3>1, ClaimsFrame DEF tables
  <2>2. \A q \in Requests : \A i, j \in 1 .. inserted'[q] :
            input'[q].keys[i] = input'[q].keys[j] => i = j
    <3> TAKE q \in Requests
    <3>1. CASE inserted'[q] = 0
      BY <3>1
    <3>2. CASE inserted'[q] = inserted[q] /\ input'[q] = input[q]
      BY <3>2 DEF WinnersAreFeasible
    <3> QED BY <1>1, <3>1, <3>2
  <2> QED BY <1>1, <2>1, <2>2 DEF WinnersAreFeasible, tables
<1>2. CASE UNCHANGED vars
  BY <1>1, <1>2 DEF vars, tables, Open
<1>3. CASE faults' = faults + 1 /\ (Crash \/ \E r \in Requests : Ends(r))
  <2>0. faults' # 0
    BY <1>3, ModeAssumption DEF TypeOK
  <2>1. CASE Crash
    <3>1. /\ UNCHANGED tables /\ input' = input
          /\ \A q \in Requests : inserted'[q] = 0 /\ pc'[q] \in {"idle", "done"}
      BY <2>1 DEF Crash, TypeOK
    <3> QED BY <1>1, <2>0, <3>1 DEF Open
  <2>2. ASSUME NEW r \in Requests, Ends(r) PROVE WinnersAreFeasible'
    <3>1. /\ UNCHANGED tables /\ input' = input
          /\ inserted'[r] = 0 /\ pc'[r] = "done"
          /\ \A q \in Requests \ {r} : /\ inserted'[q] = inserted[q]
                                       /\ pc'[q] = pc[q] /\ reply'[q] = reply[q]
      BY <2>2 DEF Ends, End, Close, TypeOK
    <3> QED BY <1>1, <2>0, <3>1 DEF Open
  <2> QED BY <1>3, <2>1, <2>2
<1>4. ASSUME NEW r \in Requests, Arrive(r) PROVE WinnersAreFeasible'
  <2>1. /\ UNCHANGED <<tables, inserted, reply, faults>>
        /\ pc[r] = "idle" /\ pc'[r] = "arrived"
        /\ \A q \in Requests \ {r} : input'[q] = input[q] /\ pc'[q] = pc[q]
    BY <1>4 DEF Arrive, session, TypeOK
  <2>2. status[r] = "ABSENT" /\ inserted[r] = 0
    BY <2>1 DEF RowsAppearWhole, InsertsInOrder, Open
  <2> QED BY <1>1, <2>1, <2>2 DEF Open
<1>5. ASSUME NEW r \in Requests, faults' = faults, Denied(r) PROVE WinnersAreFeasible'
  <2>1. /\ UNCHANGED tables /\ input' = input
        /\ inserted'[r] = 0 /\ pc'[r] = "done"
        /\ \A q \in Requests \ {r} : /\ inserted'[q] = inserted[q]
                                     /\ pc'[q] = pc[q] /\ reply'[q] = reply[q]
    BY <1>5 DEF Denied, Ends, End, Close, TypeOK
  <2>2. status[r] = "ABSENT"
    BY <1>5 DEF Denied, RowsAppearWhole
  <2> QED BY <1>1, <1>5, <2>1, <2>2 DEF Open
<1>6. ASSUME NEW r \in Requests, Load(r) \/ Save(r) \/ Flush(r)
      PROVE  WinnersAreFeasible'
  <2>1. /\ UNCHANGED <<tables, input, inserted, reply, faults>>
        /\ input[r].op = "patch" /\ pc'[r] \in {"loaded", "dirty", "flushed"}
        /\ \A q \in Requests \ {r} : pc'[q] = pc[q]
    BY <1>6 DEF Load, Save, Flush, Patching, session, TypeOK
  <2> QED BY <1>1, <2>1 DEF Open
<1>7. ASSUME NEW r \in Requests, InsertAgent(r) \/ InsertKey(r)
      PROVE  WinnersAreFeasible'
  <2>1. /\ UNCHANGED <<tables, input, reply, faults>>
        /\ input[r].ok /\ pc'[r] \in {"inserting", "flushed"}
        /\ \A q \in Requests \ {r} : pc'[q] = pc[q] /\ inserted'[q] = inserted[q]
        /\ \/ inserted'[r] = inserted[r]
           \/ /\ inserted'[r] = inserted[r] + 1
              /\ NextKey(r) \notin Inserted(r)
    BY <1>7 DEF InsertAgent, InsertKey, Registering, Taken, TypeOK
  <2>2. \A i \in 1 .. inserted[r] : input[r].keys[i] \in Inserted(r)
    BY DEF Inserted
  <2>3. \A i, j \in 1 .. inserted'[r] : input[r].keys[i] = input[r].keys[j] => i = j
    <3>1. CASE inserted'[r] = inserted[r]
      BY <3>1 DEF WinnersAreFeasible
    <3>2. CASE inserted'[r] = inserted[r] + 1 /\ NextKey(r) \notin Inserted(r)
      <4> DEFINE n == inserted[r] + 1
      <4>1. \A i \in 1 .. inserted[r] : input[r].keys[i] # input[r].keys[n]
        BY <2>2, <3>2 DEF NextKey
      <4>2. \A i \in 1 .. n : i = n \/ i \in 1 .. inserted[r]
        BY <1>0
      <4> QED BY <3>2, <4>1, <4>2 DEF WinnersAreFeasible
    <3> QED BY <2>1, <3>1, <3>2
  <2>4. \A q \in Requests : Feasible(q)' = Feasible(q)
    BY <2>1, ClaimsFrame
  <2>5. \A q \in Requests \ {r} : Open(q)' = Open(q)
    BY <2>1 DEF Open
  <2>6. status[r] = "ABSENT"
    BY <1>7 DEF InsertAgent, InsertKey, Registering, RowsAppearWhole
  <2> QED BY <2>1, <2>3, <2>4, <2>5, <2>6 DEF WinnersAreFeasible, tables
<1>8. ASSUME NEW r \in Requests, Reply(r) PROVE WinnersAreFeasible'
  <2>1. /\ UNCHANGED <<tables, input, inserted, faults>>
        /\ reply'[r] = "ok"
        /\ (pc[r] = "flushed" /\ pc'[r] = "acked") \/ pc'[r] = "done"
        /\ \A q \in Requests \ {r} : pc'[q] = pc[q] /\ reply'[q] = reply[q]
    BY <1>8 DEF Reply, session, TypeOK
  <2>2. \A q \in Requests : Feasible(q)' = Feasible(q)
    BY <2>1, ClaimsFrame
  <2>3. \A q \in Requests : Open(q)' => Open(q)
    BY <2>1 DEF Open
  <2> QED BY <2>1, <2>2, <2>3 DEF WinnersAreFeasible, tables
<1>9. ASSUME NEW r \in Requests, Commit(r) PROVE WinnersAreFeasible'
  <2>1. /\ UNCHANGED <<input, reply, faults>>
        /\ inserted'[r] = 0
        /\ pc'[r] = "committed" \/ (pc'[r] = "done" /\ pc[r] = "acked")
        /\ \A q \in Requests \ {r} : pc'[q] = pc[q] /\ inserted'[q] = inserted[q]
    BY <1>9 DEF Commit, Close, TypeOK
  <2>2. \A q \in Requests : Feasible(q)' = Feasible(q)
    BY <2>1, ClaimsFrame
  <2>3. \A q \in Requests : Open(q)' => Open(q) /\ q # r
    BY <2>1 DEF Open
  <2>4. \A i \in 1 .. inserted'[r] : FALSE
    BY <2>1
  <2>5. \A q \in Requests : status'[q] # "ABSENT" =>
            status[q] # "ABSENT" \/ (q = r /\ input[r].op = "register")
    <3>1. CASE input[r].op = "register"
      <4>1. status' = [status EXCEPT ![r] = "ACTIVE"]
        BY <1>9, <3>1, CommitRegister
      <4> QED BY <1>0, <3>1, <4>1 DEF TypeOK
    <3>2. CASE input[r].op # "register"
      <4>1. \A b \in Agents : status'[b] # "ABSENT" <=> status[b] # "ABSENT"
        BY <1>9, <3>2, CommitPatch
      <4> QED BY <1>0, <4>1
    <3> QED BY <3>1, <3>2
  <2>6. \A k \in Keys : owner'[k] # owner[k] => SeedOwner[k] = NoAgent /\ owner'[k] = r
    <3>1. CASE input[r].op = "register"
      <4>1. /\ owner' = [k \in Keys |-> IF k \in ToSet(input[r].keys) THEN r ELSE owner[k]]
        BY <1>9, <3>1, CommitRegister
      <4>2. \A k \in ToSet(input[r].keys) : SeedOwner[k] = NoAgent
        BY <1>9, <3>1, CommitFeasible DEF Feasible
      <4> QED BY <4>1, <4>2
    <3>2. CASE input[r].op # "register"
      BY <1>9, <3>2, CommitPatch
    <3> QED BY <3>1, <3>2
  <2>7. input[r].op = "register" => Feasible(r)
    BY <1>9, CommitFeasible
  <2>8. status[r] = "ABSENT" \/ input[r].op = "register"
    BY DEF RowsAppearWhole
  <2> QED BY <2>1, <2>2, <2>3, <2>4, <2>5, <2>6, <2>7, <2>8 DEF WinnersAreFeasible
<1> QED BY <1>2, <1>3, <1>4, <1>5, <1>6, <1>7, <1>8, <1>9, FaultCases DEF Advances

(* A registration that could succeed and meets a taken key has been beaten  *)
(* by one that could succeed and did.                                      *)
LEMMA ConflictHasWinner ==
    ASSUME IInv, WinnersAreFeasible, faults = 0,
           NEW r \in Requests, InsertConflict(r), Feasible(r)
    PROVE  \E q \in Requests \ {r} : Feasible(q) /\ InPlay(q)
<1> USE DEF IInv
<1> DEFINE k == NextKey(r)
<1>1. /\ inserted[r] \in Nat /\ inserted[r] < Len(input[r].keys) /\ pc[r] = "inserting"
      /\ input[r].keys \in Seq(Keys) /\ Len(input[r].keys) \in Nat
  BY InputTyped DEF InsertConflict, Registering, InsertsInOrder, TypeOK
<1>2. k \in Keys /\ k \in ToSet(input[r].keys)
  BY <1>1 DEF NextKey, ToSet
<1>3. k \notin Inserted(r)
  <2>1. \A i \in 1 .. inserted[r] : input[r].keys[i] = input[r].keys[inserted[r] + 1] =>
            i = inserted[r] + 1
    BY <1>1 DEF Feasible, IsInjective
  <2>2. \A i \in 1 .. inserted[r] : input[r].keys[i] # input[r].keys[inserted[r] + 1]
    BY <1>1, <2>1
  <2> QED BY <2>2 DEF Inserted, NextKey
<1>4. owner[k] # NoAgent /\ SeedOwner[k] = NoAgent
  BY <1>2, <1>3 DEF InsertConflict, Taken, Feasible
<1>5. PICK q \in Requests : q = owner[k]
  BY <1>2, <1>4 DEF WinnersAreFeasible
<1>6. status[q] # "ABSENT"
  BY <1>2, <1>4, <1>5 DEF RowsAppearWhole
<1>7. Feasible(q) /\ pc[q] \in {"committed", "done"} /\ (pc[q] = "done" => reply[q] = "ok")
  BY <1>6 DEF WinnersAreFeasible, RowsAppearWhole
<1> QED BY <1>1, <1>7 DEF InPlay

(* Who is aborted in a deadlock waited for another member of it, which     *)
(* holds a key and waits for one.                                          *)
LEMMA DeadlockHasSurvivor ==
    ASSUME IInv, WinnersAreFeasible, NEW r \in Requests, DeadlockAbort(r)
    PROVE  \E q \in Requests \ {r} : CanBlock(q) /\ InPlay(q)
<1> USE DEF IInv
<1>1. PICK S \in SUBSET Requests :
        /\ r \in S
        /\ \A p \in S : \E q \in S : WaitsFor(p, q)
        /\ \A q \in S : \E p \in S : WaitsFor(p, q)
  BY DEF DeadlockAbort, Deadlocked
<1>2. PICK q \in S : WaitsFor(r, q)
  BY <1>1
<1>3. PICK s \in S : WaitsFor(q, s)
  BY <1>1
<1>4. q \in Requests /\ s \in Requests /\ q # r /\ q # s
  BY <1>2, <1>3 DEF WaitsFor
<1>5. input[q].op = "register" /\ input[q].ok /\ pc[q] = "inserting"
  BY <1>3 DEF WaitsFor, Registering
<1> DEFINE keys == input[q].keys
           n == inserted[q]
<1>6. n \in Nat /\ n >= 1 /\ n < Len(keys) /\ keys \in Seq(Keys) /\ Len(keys) \in Nat
  <2>1. NextKey(r) \in Inserted(q)
    BY <1>2 DEF WaitsFor
  <2>2. n \in Nat /\ n < Len(keys) /\ keys \in Seq(Keys) /\ Len(keys) \in Nat
    BY <1>4, <1>5, InputTyped DEF InsertsInOrder, TypeOK
  <2>3. n # 0
    BY <1>4, <2>1, InsertedKeys
  <2> QED BY <2>2, <2>3
<1>7. \A i \in 1 .. n : keys[i] \in Inserted(q)
  BY DEF Inserted
<1>8. \A p \in Requests : \A k \in Inserted(p) : k \in Keys /\ SeedOwner[k] = NoAgent
  <2> TAKE p \in Requests
  <2>1. Inserted(p) \subseteq Keys /\ \A k \in Inserted(p) : owner[k] = NoAgent
    BY InsertedKeys DEF InsertsExclusive
  <2> QED BY <2>1 DEF WinnersAreFeasible
<1>9. keys[n + 1] \in Inserted(s) /\ keys[n + 1] \notin Inserted(q)
  BY <1>3, <1>4 DEF WaitsFor, NextKey, InsertsExclusive
<1>10. keys[1] # keys[2] /\ SeedOwner[keys[1]] = NoAgent /\ SeedOwner[keys[2]] = NoAgent
  <2>1. 1 \in 1 .. n
    BY <1>6
  <2>2. CASE n = 1
    BY <1>4, <1>7, <1>8, <1>9, <2>1, <2>2
  <2>3. CASE n # 1
    <3>1. 2 \in 1 .. n
      BY <1>6, <2>3
    <3>2. keys[1] # keys[2]
      BY <1>4, <2>1, <3>1 DEF WinnersAreFeasible
    <3> QED BY <1>4, <1>7, <1>8, <2>1, <3>1, <3>2
  <2> QED BY <2>2, <2>3
<1>11. CanBlock(q)
  BY <1>5, <1>6, <1>10 DEF CanBlock
<1> QED BY <1>4, <1>5, <1>11 DEF InPlay, Open

(* Every step leaves someone in play.                                      *)
LEMMA SomeoneNext ==
    IInv /\ WinnersAreFeasible /\ SomeoneInPlay /\ [Next]_vars => SomeoneInPlay'
<1> SUFFICES ASSUME IInv, WinnersAreFeasible, SomeoneInPlay, [Next]_vars,
                    faults' = 0,
                    \A r \in Requests : CanBlock(r)' => Feasible(r)',
                    NEW p \in Requests, Feasible(p)', pc'[p] = "done"
             PROVE  \E q \in Requests : Feasible(q)' /\ InPlay(q)'
  BY DEF SomeoneInPlay
<1> USE DEF IInv
<1>1. CASE UNCHANGED vars
  <2>1. \A r \in Requests : /\ Feasible(r)' = Feasible(r) /\ CanBlock(r)' = CanBlock(r)
                            /\ InPlay(r)' = InPlay(r)
    BY <1>1, ClaimsFrame DEF vars, InPlay, Open
  <2>2. faults = 0 /\ pc[p] = "done"
    BY <1>1 DEF vars
  <2> QED BY <2>1, <2>2 DEF SomeoneInPlay
<1>2. CASE faults' = faults + 1
  BY <1>2, ModeAssumption DEF TypeOK
<1>3. ASSUME NEW r \in Requests, faults' = faults, Arrive(r)
      PROVE  \E q \in Requests : Feasible(q)' /\ InPlay(q)'
  <2>1. /\ pc[r] = "idle" /\ pc'[r] = "arrived" /\ reply' = reply
        /\ \A q \in Requests \ {r} : input'[q] = input[q] /\ pc'[q] = pc[q]
    BY <1>3 DEF Arrive, TypeOK
  <2>2. ~Feasible(r) /\ ~CanBlock(r)
    BY <2>1 DEF Staged, NoInput, Feasible, CanBlock
  <2>3. \A q \in Requests \ {r} : /\ Feasible(q)' = Feasible(q)
                                  /\ CanBlock(q)' = CanBlock(q)
                                  /\ InPlay(q)' = InPlay(q)
    BY <2>1, ClaimsFrame DEF InPlay, Open
  <2>4. p # r /\ Feasible(p) /\ pc[p] = "done"
    BY <2>1, <2>3
  <2>5. PICK q \in Requests : Feasible(q) /\ InPlay(q)
    BY <1>3, <2>2, <2>3, <2>4 DEF SomeoneInPlay
  <2> QED BY <2>2, <2>3, <2>5
<1>4. ASSUME NEW r \in Requests, faults' = faults, Advances(r) \/ Denied(r)
      PROVE  \E q \in Requests : Feasible(q)' /\ InPlay(q)'
  <2>1. /\ input' = input
        /\ \A q \in Requests \ {r} : pc'[q] = pc[q] /\ reply'[q] = reply[q]
    BY <1>4 DEF Advances, Load, Save, Flush, InsertAgent, InsertKey, Commit, Reply,
                Denied, Ends, End, TypeOK
  <2>2. \A q \in Requests : Feasible(q)' = Feasible(q) /\ CanBlock(q)' = CanBlock(q)
    BY <2>1, ClaimsFrame
  <2>3. \A q \in Requests \ {r} : InPlay(q)' = InPlay(q)
    BY <2>1 DEF InPlay, Open
  <2>4. faults = 0 /\ \A q \in Requests : CanBlock(q) => Feasible(q)
    BY <1>4, <2>2
  <2>5. p # r => \E q \in Requests : Feasible(q) /\ InPlay(q)
    BY <2>1, <2>2, <2>4 DEF SomeoneInPlay
  <2>6. CASE Advances(r)
    <3>1. Feasible(r) => InPlay(r)'
      <4>1. CASE Load(r) \/ Save(r) \/ Flush(r)
        BY <4>1 DEF Load, Save, Flush, Patching, Feasible
      <4>2. CASE InsertAgent(r) \/ InsertKey(r)
        BY <4>2 DEF InsertAgent, InsertKey, InPlay, Open, TypeOK
      <4>3. CASE Commit(r)
        BY <4>3 DEF Commit, InPlay, WinnersAreFeasible, TypeOK
      <4>4. CASE Reply(r)
        BY <4>4 DEF Reply, InPlay, TypeOK
      <4> QED BY <2>6, <4>1, <4>2, <4>3, <4>4 DEF Advances
    <3> QED BY <2>2, <2>3, <2>5, <3>1
  <2>7. CASE Denied(r) /\ ~Feasible(r)
    BY <2>2, <2>3, <2>5, <2>7
  <2>8. CASE InsertConflict(r) /\ Feasible(r)
    BY <2>2, <2>3, <2>4, <2>8, ConflictHasWinner
  <2>9. CASE DeadlockAbort(r)
    BY <2>2, <2>3, <2>4, <2>9, DeadlockHasSurvivor
  <2> QED BY <1>4, <2>6, <2>7, <2>8, <2>9 DEF Denied
<1> QED BY <1>1, <1>2, <1>3, <1>4, FaultCases

(* However registrations interleave, wait for each other and deadlock, not *)
(* all that could succeed alone fail, if every payload that can hold a key *)
(* while it waits could, and nothing else fails.                           *)
THEOREM ContentionHasWinner == Spec => []ContentionLeavesAWinner
<1>1. SomeoneInPlay => ContentionLeavesAWinner
  <2> SUFFICES ASSUME SomeoneInPlay, \A r \in Requests : pc[r] = "done", faults = 0,
                      \A r \in Requests : CanBlock(r) => Feasible(r),
                      \E r \in Requests : Feasible(r)
               PROVE  \E r \in Requests : Feasible(r) /\ reply[r] = "ok"
    BY DEF ContentionLeavesAWinner
  <2>1. PICK q \in Requests : Feasible(q) /\ InPlay(q)
    BY DEF SomeoneInPlay
  <2> QED BY <2>1 DEF InPlay, Open
<1> QED BY <1>1, WinnersInit, IInvInit, IInvNext, WinnersNext, SomeoneNext, PTL DEF Spec

-----------------------------------------------------------------------------
(* Lock waits.                                                             *)

(* Only finitely many requests have been sent, and nobody waits for an      *)
(* answer or a commit that the mode does not have.                          *)
InOneMode ==
    /\ IsFiniteSet({r \in Requests : pc[r] # "idle"})
    /\ \A r \in Requests : pc[r] # IF CommitBeforeReply THEN "acked" ELSE "committed"

(* Every step keeps to the mode and sends at most one request.             *)
LEMMA InOneModeNext == TypeOK /\ InOneMode /\ [Next]_vars => InOneMode'
<1> SUFFICES ASSUME TypeOK, InOneMode, [Next]_vars PROVE InOneMode'
  OBVIOUS
<1> DEFINE sent == {r \in Requests : pc[r] # "idle"}
<1>1. ASSUME sent' = sent \/ \E r \in Requests : sent' = sent \cup {r},
             \A q \in Requests : pc'[q] \in {"acked", "committed"} =>
                \/ pc'[q] = pc[q]
                \/ pc'[q] = IF CommitBeforeReply THEN "committed" ELSE "acked"
      PROVE  InOneMode'
  <2>1. IsFiniteSet(sent')
    BY <1>1, FS_AddElement DEF InOneMode
  <2> QED BY <1>1, <2>1 DEF InOneMode
<1>2. CASE UNCHANGED vars
  BY <1>1, <1>2 DEF vars
<1>3. CASE Crash
  <2>1. \A q \in Requests : /\ pc'[q] # "idle" <=> pc[q] # "idle"
                            /\ pc'[q] \notin {"acked", "committed"}
    BY <1>3 DEF Crash, TypeOK
  <2>2. sent' = sent
    BY <2>1
  <2> QED BY <1>1, <2>1, <2>2
<1>4. ASSUME NEW r \in Requests, Arrive(r) PROVE InOneMode'
  <2>1. pc[r] = "idle" /\ pc' = [pc EXCEPT ![r] = "arrived"]
    BY <1>4 DEF Arrive
  <2>2. sent' = sent \cup {r}
    BY <2>1 DEF TypeOK
  <2>3. \A q \in Requests : pc'[q] \in {"acked", "committed"} => pc'[q] = pc[q]
    BY <2>1 DEF TypeOK
  <2> QED BY <1>1, <2>2, <2>3
<1>5. ASSUME NEW r \in Requests, Silent(r) PROVE InOneMode'
  <2>1. sent' = sent
    BY <1>5 DEF Silent
  <2>2. \A q \in Requests : pc'[q] \in {"acked", "committed"} => pc'[q] = pc[q]
    BY <1>5 DEF Silent
  <2> QED BY <1>1, <2>1, <2>2
<1>6. ASSUME NEW r \in Requests, Commit(r) \/ Reply(r) \/ Ends(r) PROVE InOneMode'
  <2>1. /\ pc[r] # "idle"
        /\ \/ pc' = [pc EXCEPT ![r] = IF CommitBeforeReply THEN "committed" ELSE "done"]
           \/ pc' = [pc EXCEPT ![r] = IF CommitBeforeReply THEN "done" ELSE "acked"]
           \/ pc' = [pc EXCEPT ![r] = "done"]
    BY <1>6 DEF Commit, Reply, Ends, End
  <2>2. sent' = sent
    BY <2>1 DEF TypeOK
  <2>3. \A q \in Requests : pc'[q] \in {"acked", "committed"} =>
                \/ pc'[q] = pc[q]
                \/ pc'[q] = IF CommitBeforeReply THEN "committed" ELSE "acked"
    BY <2>1 DEF TypeOK
  <2> QED BY <1>1, <2>2, <2>3
<1> QED BY <1>2, <1>3, <1>4, <1>5, <1>6, SilentSteps, StepCases

(* Among finitely many requests that all wait for one of them, some wait in *)
(* a circle: a smallest such set has nobody in it that nobody waits for.   *)
LEMMA WaitsEndInCircles ==
    ASSUME NEW W \in SUBSET Requests, IsFiniteSet(W), W # {},
           \A p \in W : \E q \in W : WaitsFor(p, q)
    PROVE  \E r \in W : Deadlocked(r)
<1> DEFINE Sets == FiniteSubsetsOf(W)
           Closed == {T \in Sets : T # {} /\ \A p \in T : \E q \in T : WaitsFor(p, q)}
<1>1. W \in Closed
  BY DEF FiniteSubsetsOf
<1>2. PICK T \in Closed : \A U \in Closed : <<U, T>> \notin StrictSubsetOrdering(W)
  <2>1. IsWellFoundedOn(StrictSubsetOrdering(W), Sets)
    BY FS_StrictSubsetOrderingWellFounded
  <2>2. Closed \subseteq Sets /\ Closed # {}
    BY <1>1
  <2> HIDE DEF Closed, Sets
  <2> QED BY <2>1, <2>2, WFMin
<1>3. T \subseteq W /\ IsFiniteSet(T) /\ T # {} /\ \A p \in T : \E q \in T : WaitsFor(p, q)
  BY DEF FiniteSubsetsOf
<1>4. ASSUME NEW q \in T, \A p \in T : ~WaitsFor(p, q) PROVE FALSE
  <2> DEFINE U == T \ {q}
  <2>1. \A p \in U : \E s \in U : WaitsFor(p, s)
    BY <1>3, <1>4
  <2>2. PICK s \in T : WaitsFor(q, s)
    BY <1>3
  <2>3. s \in U
    BY <2>2 DEF WaitsFor
  <2>4. IsFiniteSet(U) /\ U \subseteq W /\ T \subseteq W
    BY <1>3, FS_RemoveElement
  <2>5. U \in Closed
    BY <2>1, <2>3, <2>4 DEF FiniteSubsetsOf
  <2>6. <<U, T>> \in StrictSubsetOrdering(W)
    BY <2>4 DEF StrictSubsetOrdering
  <2> QED BY <1>2, <2>5, <2>6
<1>5. PICK r \in T : TRUE
  BY <1>3
<1>6. Deadlocked(r)
  BY <1>3, <1>4, <1>5 DEF Deadlocked
<1> QED BY <1>3, <1>5, <1>6

(* A status change that waits waits for one that has flushed: a             *)
(* registration under way is about an agent that does not exist yet.        *)
LEMMA FlushWaitsForFlushed ==
    ASSUME IInv, NEW r \in Requests, pc[r] = "dirty",
           NEW q \in Requests \ {r}, Open(q), Collide(r, q)
    PROVE  pc[q] \in {"flushed", "acked"}
<1> USE DEF IInv
<1>1. status[AgentOf(r)] # "ABSENT"
  BY DEF Staged, SessionsFit, SessionFits, Running
<1>2. AgentOf(q) = AgentOf(r)
  BY DEF Collide
<1>3. pc[q] # "inserting"
  <2>1. pc[q] = "inserting" => AgentOf(q) = q /\ status[q] = "ABSENT"
    BY DEF Staged, AgentOf, RowsAppearWhole
  <2> QED BY <1>1, <1>2, <2>1
<1> QED BY <1>3 DEF Open

(* In every state that keeps to the mode somebody can go on.               *)
LEMMA SomebodyGoesOn == IInv /\ InOneMode => NobodyIsStuck
<1> SUFFICES ASSUME IInv, InOneMode, \A r \in Requests : ~CanGoOn(r),
                    \E r \in Requests : pc[r] \notin {"idle", "done"}
             PROVE  FALSE
  BY DEF NobodyIsStuck
<1> USE DEF IInv
<1> DEFINE W == {r \in Requests : pc[r] = "inserting"}
<1>1. \A r \in Requests : pc[r] \notin {"arrived", "loaded", "flushed", "acked", "committed"}
  BY DEF CanGoOn, InOneMode
<1>2. \A r \in Requests : pc[r] # "dirty"
  <2> SUFFICES ASSUME NEW r \in Requests, pc[r] = "dirty" PROVE FALSE
    OBVIOUS
  <2>1. PICK q \in Requests \ {r} : Open(q) /\ Collide(r, q)
    BY DEF CanGoOn
  <2> QED BY <1>1, <2>1, FlushWaitsForFlushed
<1>3. \A r \in Requests : pc[r] \in {"idle", "inserting", "done"}
  BY <1>1, <1>2 DEF TypeOK, Stages
<1>4. W # {}
  BY <1>3
<1>5. IsFiniteSet(W)
  BY FS_Subset DEF InOneMode
<1>6. ASSUME NEW p \in W PROVE \E q \in W : WaitsFor(p, q)
  <2>1. PICK q \in Requests : WaitsFor(p, q)
    BY <1>6 DEF CanGoOn
  <2>2. inserted[q] # 0
    BY <2>1, InsertedKeys DEF WaitsFor
  <2>3. q \in W
    BY <1>3, <2>2 DEF InsertsInOrder, Open
  <2> QED BY <2>1, <2>3
<1>7. PICK r \in W : Deadlocked(r)
  BY <1>4, <1>5, <1>6, WaitsEndInCircles
<1> QED BY <1>7 DEF CanGoOn

(* However many requests wait for each other, in chains and in circles of   *)
(* any length, one of them can go on.                                       *)
THEOREM SomeoneCanGoOn == Spec => []NobodyIsStuck
<1>1. Init => InOneMode
  <2> SUFFICES ASSUME Init PROVE InOneMode
    OBVIOUS
  <2>1. {r \in Requests : pc[r] # "idle"} = {}
    BY DEF Init
  <2> QED BY <2>1, FS_EmptySet DEF Init, InOneMode
<1> QED BY <1>1, IInvInit, IInvNext, InOneModeNext, SomebodyGoesOn, PTL DEF Spec, IInv

(* Unless something failed, a registration that has ended with success is   *)
(* stored with all of its keys, in both modes.                              *)
StoredInTheEnd ==
    faults = 0 =>
        \A r \in Requests :
            input[r].op = "register" /\ pc[r] = "done" /\ reply[r] = "ok" =>
                KeysOf(r) = ToSet(input[r].keys)

(* What is committed, or has ended with success, is there.                 *)
CommittedIsThere ==
    faults = 0 =>
        \A r \in Requests :
            /\ input[r].op = "register"
            /\ pc[r] = "committed" \/ (pc[r] = "done" /\ reply[r] = "ok")
            => status[r] # "ABSENT"

(* Every step keeps what is committed.                                     *)
LEMMA CommittedIsThereNext ==
    IInv /\ CommittedIsThere /\ [Next]_vars => CommittedIsThere'
<1> SUFFICES ASSUME IInv, CommittedIsThere, [Next]_vars, faults' = 0,
                    NEW q \in Requests, input'[q].op = "register",
                    pc'[q] = "committed" \/ (pc'[q] = "done" /\ reply'[q] = "ok")
             PROVE  status'[q] # "ABSENT"
  BY DEF CommittedIsThere
<1> USE DEF IInv
<1>0. q \in Agents /\ (status[q] # "ABSENT" => status'[q] # "ABSENT")
  BY NothingVanishes DEF Agents
<1>1. CASE UNCHANGED vars
  BY <1>0, <1>1 DEF vars, CommittedIsThere
<1>2. CASE faults' = faults + 1
  BY <1>2, ModeAssumption DEF TypeOK
<1>3. ASSUME NEW r \in Requests, faults' = faults, Arrive(r) PROVE status'[q] # "ABSENT"
  <2>1. pc'[r] = "arrived" /\ reply' = reply
        /\ \A p \in Requests \ {r} : input'[p] = input[p] /\ pc'[p] = pc[p]
    BY <1>3 DEF Arrive, TypeOK
  <2> QED BY <1>0, <1>3, <2>1 DEF CommittedIsThere
<1>4. ASSUME NEW r \in Requests, faults' = faults, Denied(r) PROVE status'[q] # "ABSENT"
  <2>1. PICK x \in Replies : End(r, x) /\ Honest(r, x)
    BY <1>4 DEF Denied, Ends
  <2>2. /\ input' = input /\ pc[r] # "acked"
        /\ pc' = [pc EXCEPT ![r] = "done"] /\ reply' = [reply EXCEPT ![r] = x]
    BY <1>4, <2>1 DEF Denied, End
  <2>3. q # r
    BY <2>1, <2>2 DEF Honest, TypeOK
  <2>4. pc'[q] = pc[q] /\ reply'[q] = reply[q]
    BY <2>2, <2>3
  <2> QED BY <1>0, <1>4, <2>2, <2>4 DEF CommittedIsThere
<1>5. ASSUME NEW r \in Requests, faults' = faults, Advances(r) PROVE status'[q] # "ABSENT"
  <2>1. CASE Load(r) \/ Save(r) \/ Flush(r) \/ InsertAgent(r) \/ InsertKey(r)
    <3>1. Silent(r)
      BY <2>1, SilentSteps
    <3> QED BY <1>0, <1>5, <3>1 DEF Silent, CommittedIsThere
  <2>2. CASE Commit(r)
    <3>1. input' = input /\ reply' = reply /\ \A p \in Requests \ {r} : pc'[p] = pc[p]
      BY <2>2 DEF Commit
    <3>2. input[r].op = "register" => status' = [status EXCEPT ![r] = "ACTIVE"]
      BY <2>2, CommitRegister
    <3> QED BY <1>0, <1>5, <3>1, <3>2 DEF CommittedIsThere, TypeOK
  <2>3. CASE Reply(r)
    <3>1. /\ input' = input
          /\ (pc[r] = "committed" /\ pc'[r] = "done") \/ pc'[r] = "acked"
          /\ \A p \in Requests \ {r} : pc'[p] = pc[p] /\ reply'[p] = reply[p]
      BY <2>3 DEF Reply, TypeOK
    <3> QED BY <1>0, <1>5, <3>1 DEF CommittedIsThere
  <2> QED BY <1>5, <2>1, <2>2, <2>3 DEF Advances
<1> QED BY <1>1, <1>2, <1>3, <1>4, <1>5, FaultCases

(* The safe part of AcknowledgedIsStored, which EveryRequestEnds completes:  *)
(* without a fault, no registration ends with a success that is not stored. *)
THEOREM SuccessesAreStored == Spec => []StoredInTheEnd
<1>1. Init => CommittedIsThere
  BY DEF Init, CommittedIsThere
<1>2. IInv /\ CommittedIsThere => StoredInTheEnd
  BY DEF IInv, RowsAppearWhole, CommittedIsThere, StoredInTheEnd
<1> QED BY <1>1, <1>2, IInvInit, IInvNext, CommittedIsThereNext, PTL DEF Spec

=============================================================================
