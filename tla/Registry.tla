------------------------------ MODULE Registry ------------------------------
(***************************************************************************)
(* The agent registry: any interleaving of registrations, status changes,  *)
(* reads and verifications over one database, with faults and crashes.     *)
(***************************************************************************)
EXTENDS StatusUpdate, Registration, Lookup

(* The server's part of a request.                                         *)
Serve(r) == Refuse(r) \/ Patch(r) \/ Register(r) \/ Look(r) \/ Commit(r) \/ Reply(r)

(* Every request has been sent and has ended.                              *)
Quiescent == /\ \A r \in Requests : pc[r] = "done"
             /\ UNCHANGED vars

Next == \/ \E r \in Requests : Arrive(r) \/ Serve(r) \/ DbFault(r)
        \/ Crash
        \/ Quiescent

Spec == Init /\ [][Next]_vars

(* One event loop serves all requests and every await returns, PostgreSQL  *)
(* grants locks when their holder ends and looks for deadlocks: a request  *)
(* that can go on does.  Clients need not send, and nothing need fail.      *)
FairSpec == Spec /\ \A r \in Requests : WF_vars(Serve(r))

-----------------------------------------------------------------------------
(* Status changes.                                                         *)

(* A PATCH whose agent no other PATCH changed since it was loaded leaves   *)
(* the agent exactly as its domain object is: the split of save into dirty *)
(* columns and dirty key rows writes neither too little nor too much.      *)
IsolatedSaveIsExact ==
    [][\A r \in Requests :
        Commit(r) /\ missed[r] = {} => Row(AgentOf(r))' = entity[r]]_vars

(* An agent leaves REVOKED only by a PATCH that loaded it before another    *)
(* PATCH of it was committed: no other path around the guards of suspend    *)
(* and activate exists.                                                     *)
RevivalNeedsStaleRead ==
    [][\A a \in Agents :
        status[a] = "REVOKED" /\ status'[a] # "REVOKED" =>
            \E r \in Requests : Commit(r) /\ AgentOf(r) = a /\ missed[r] # {}]_vars

(* The keys of an agent are as its status has them.                        *)
Agrees(a) ==
    live \cap KeysOf(a) = IF status[a] = "REVOKED" THEN {} ELSE KeysOf(a)

(* Key rows and status part only in the same way.  What save finds dirty   *)
(* depends on whether the identity map still has the instance loaded first *)
(* (postgres_agent_repository.py:86); but it takes a PATCH that missed the *)
(* commit of another to leave an agent with the status of one request and  *)
(* the keys of another: not a fault, a crash, or a registration.           *)
SplitsNeedStaleRead ==
    [][\A a \in Agents :
        Agrees(a) /\ ~Agrees(a)' =>
            \E r \in Requests : Commit(r) /\ AgentOf(r) = a /\ missed[r] # {}]_vars

(* README.md: revocation is final.                                         *)
RevokedIsTerminal ==
    [][\A a \in Agents : status[a] = "REVOKED" => status'[a] = "REVOKED"]_vars

(* Of a revoked agent every key is inactive, of any other agent every key  *)
(* is active: the two tables agree although they are written by different   *)
(* statements and a key row is only written when its flag is found dirty.   *)
KeysFollowStatus ==
    \A k \in Keys : owner[k] # NoAgent =>
        (k \in live <=> status[owner[k]] # "REVOKED")

(* A verification that arrives after the revocation of the key's agent was *)
(* answered 200 is refused.                                                *)
RevocationIsEffective ==
    \A v, p \in Requests :
        /\ input[v].op = "verify"
        /\ p \in before[v]
        /\ input[p].op = "patch"
        /\ input[p].target = "REVOKED"
        /\ owner[Head(input[v].keys)] = input[p].agent
        => reply[v] # "ok"

(* A PATCH to one of the three documented targets (AgentStatusUpdateRequest) *)
(* that is answered 200 has given the agent the status it asked for, though *)
(* a flush writes the status only if it differs from what was loaded.       *)
AcceptedTargetIsReached ==
    [][\A r \in Requests :
        Commit(r) /\ input[r].op = "patch" /\ input[r].target # "PENDING_VERIFICATION" =>
            status'[AgentOf(r)] = input[r].target]_vars

(* The same of every target that the schema accepts.                       *)
EveryTargetIsReached ==
    [][\A r \in Requests :
        Commit(r) /\ input[r].op = "patch" => status'[AgentOf(r)] = input[r].target]_vars

Lifecycle == INSTANCE AgentLifecycle WITH
    Stamps <- Requests,
    Absent <- Blank,
    Founding <- [a \in Agents |->
                    IF a \in SeedAgents
                    THEN Registered({k \in Keys : SeedOwner[k] = a}, NoRequest)
                    ELSE Blank],
    agents <- [a \in Agents |-> Row(a)]

(* Without overlapping status changes the stored agents implement the      *)
(* aggregate.                                                              *)
StoreIsAggregate == Lifecycle!Spec

-----------------------------------------------------------------------------
(* Registrations.                                                          *)

Ledger == INSTANCE KeyLedger WITH
    Enrolled <- SeedAgents,
    Holdings <- SeedOwner,
    agents <- {a \in Agents : status[a] # "ABSENT"}

(* However registrations interleave, wait for each other, deadlock, fail   *)
(* or crash, an agent appears with all of its keys in one step and no key   *)
(* ever changes hands.                                                      *)
KeysNeverChangeHands == Ledger!Spec

(* A registration is stored whole or not at all: the agent row is there    *)
(* exactly when every key of the payload is, and none of it is there after  *)
(* a refusal.                                                               *)
RegistrationIsWhole ==
    \A r \in Requests : input[r].op = "register" =>
        /\ status[r] # "ABSENT" => KeysOf(r) = ToSet(input[r].keys)
        /\ status[r] = "ABSENT" => KeysOf(r) = {}
        /\ reply[r] = "refused" => status[r] = "ABSENT"

(* Whoever was answered 201 finds the agent and its keys from then on.     *)
ReadYourRegistration ==
    \A v, r \in Requests :
        /\ r \in before[v]
        /\ input[r].op = "register"
        /\ \/ input[v].op = "get" /\ input[v].agent = r
           \/ input[v].op = "verify" /\ Head(input[v].keys) \in ToSet(input[r].keys)
        => reply[v] # "notfound"

(* A registration that could succeed alone.                                 *)
Feasible(r) == /\ input[r].op = "register"
               /\ input[r].ok
               /\ IsInjective(input[r].keys)
               /\ \A k \in ToSet(input[r].keys) : SeedOwner[k] = NoAgent

(* A registration that can hold one key while it waits for another: its     *)
(* first two keys differ and are free.                                      *)
CanBlock(r) == /\ input[r].op = "register"
               /\ input[r].ok
               /\ Len(input[r].keys) >= 2
               /\ input[r].keys[1] # input[r].keys[2]
               /\ \A i \in 1 .. 2 : SeedOwner[input[r].keys[i]] = NoAgent

(* Registrations that could each succeed alone do not all fail each other: *)
(* lock waits and deadlock aborts leave a winner.  The exception is a       *)
(* payload that is bound to fail, but only at a key behind two free ones: a *)
(* deadlock may be broken in its favour before it fails.                    *)
ContentionLeavesAWinner ==
    /\ \A r \in Requests : pc[r] = "done"
    /\ faults = 0
    /\ \A r \in Requests : CanBlock(r) => Feasible(r)
    /\ \E r \in Requests : Feasible(r)
    => \E r \in Requests : Feasible(r) /\ reply[r] = "ok"

-----------------------------------------------------------------------------

(* What the server can do next for a request: a statement that waits for no *)
(* lock returns, and PostgreSQL fails a statement of a circle of waits.     *)
CanGoOn(r) ==
    \/ pc[r] \in {"arrived", "loaded", "flushed"}
    \/ pc[r] = IF CommitBeforeReply THEN "committed" ELSE "acked"
    \/ pc[r] = "dirty" /\ \A q \in Requests \ {r} : Open(q) => ~Collide(r, q)
    \/ /\ pc[r] = "inserting"
       /\ Taken(r) \/ Deadlocked(r) \/ \A q \in Requests : ~WaitsFor(r, q)

(* These are the guards of Serve.                                          *)
GuardsAreKnown == \A r \in Requests : CanGoOn(r) <=> ENABLED Serve(r)

(* Whatever requests wait for each other, as long as one is under way some  *)
(* request can go on: lock waits of registrations and of status changes     *)
(* lead to one that waits for nobody, or into a circle that is broken.      *)
NobodyIsStuck ==
    (\E r \in Requests : pc[r] \notin {"idle", "done"}) => \E r \in Requests : CanGoOn(r)

(* Every request that reaches the server ends: no lock wait is forever.    *)
EveryRequestEnds == \A r \in Requests : pc[r] = "arrived" ~> pc[r] = "done"

(* Unless a fault intervenes, a registration answered 201 is stored with   *)
(* all of its keys, even where the answer leaves before the commit.         *)
AcknowledgedIsStored ==
    \A r \in Requests :
        input[r].op = "register" /\ reply[r] = "ok"
            ~> KeysOf(r) = ToSet(input[r].keys)


-----------------------------------------------------------------------------
(* What the proofs of RegistryProofs carry from state to state.             *)

Running(r) == pc[r] \in {"loaded", "dirty", "flushed", "acked"}

(* Every stage belongs to the handlers that have it, a request carries an  *)
(* input of the workload once it has arrived, and a refusal is final.       *)
Staged ==
    \A r \in Requests :
        /\ pc[r] = "idle" => input[r] = NoInput
        /\ pc[r] # "idle" => input[r] \in Workload
        /\ pc[r] \in {"loaded", "dirty"} => input[r].op = "patch"
        /\ pc[r] = "inserting" => input[r].op = "register"
        /\ reply[r] = "refused" => pc[r] = "done"
        /\ pc[r] \in {"flushed", "acked", "committed"} => input[r].op \in {"patch", "register"}

(* A registration holds the first `inserted' keys of its payload, all of   *)
(* them once it is flushed, and its session loaded nothing.                 *)
InsertsInOrder ==
    \A r \in Requests :
        /\ inserted[r] <= Len(input[r].keys)
        /\ pc[r] = "inserting" => inserted[r] < Len(input[r].keys)
        /\ pc[r] \in {"idle", "arrived"} => base[r] = Blank
        /\ inserted[r] # 0 => input[r].op = "register" /\ Open(r)
        /\ input[r].op = "register" /\ pc[r] \in {"flushed", "acked"}
                => inserted[r] = Len(input[r].keys)
        /\ input[r].op = "register" /\ Open(r)
                => entity[r] = Registered(ToSet(input[r].keys), r) /\ base[r] = Blank

(* The unique index: an uncommitted key belongs to no agent, and to one     *)
(* registration only.                                                       *)
InsertsExclusive ==
    \A r \in Requests : \A k \in Inserted(r) :
        /\ owner[k] = NoAgent
        /\ \A q \in Requests : k \in Inserted(q) => q = r

(* An agent that is not seeded exists only once its registration has        *)
(* committed; then all of its keys do.                                      *)
RowsAppearWhole ==
    /\ \A a \in SeedAgents : status[a] # "ABSENT"
    /\ \A a \in Agents : status[a] = "ABSENT" => updated[a] = NoRequest
    /\ \A r \in Requests : status[r] # "ABSENT" =>
            /\ input[r].op = "register"
            /\ pc[r] \in {"committed", "done"}
            /\ reply[r] # "refused"
            /\ KeysOf(r) = ToSet(input[r].keys)
    /\ \A k \in Keys : owner[k] # NoAgent => status[owner[k]] # "ABSENT"

(* The session of a PATCH is about an agent that exists, and about no keys  *)
(* but the agent's.                                                         *)
SessionFits(r) ==
    /\ status[AgentOf(r)] # "ABSENT"
    /\ \A row \in {entity[r], base[r]} :
            row.status # "ABSENT" /\ row.live \subseteq KeysOf(AgentOf(r))

SessionsFit == \A r \in Requests : input[r].op = "patch" /\ Running(r) => SessionFits(r)

(* A PATCH that has missed nothing knows the agent as it is.                *)
SessionFresh(r) ==
    LET row == Row(AgentOf(r)) IN
    /\ base[r] = row
    /\ Permits(row, input[r].target)
    /\ entity[r] = Transition(row, input[r].target, r)

SessionsFresh ==
    \A r \in Requests :
        input[r].op = "patch" /\ Running(r) /\ missed[r] = {} => SessionFresh(r)

IInv == /\ TypeOK
        /\ Staged
        /\ InsertsInOrder
        /\ InsertsExclusive
        /\ RowsAppearWhole
        /\ SessionsFit
        /\ SessionsFresh

(* Who can win a contention: a stored registration was feasible and, unless *)
(* something failed, answered so; the keys a registration holds differ, and *)
(* a key that was not seeded is free or a request's.                        *)
WinnersAreFeasible ==
    /\ \A r \in Requests :
        /\ Open(r) /\ input[r].op = "register" => input[r].ok
        /\ \A i, j \in 1 .. inserted[r] :
                input[r].keys[i] = input[r].keys[j] => i = j
        /\ status[r] # "ABSENT" => Feasible(r)
        /\ status[r] # "ABSENT" /\ pc[r] = "done" /\ faults = 0 => reply[r] = "ok"
        /\ pc[r] = "acked" => reply[r] = "ok"
    /\ \A k \in Keys : owner[k] # SeedOwner[k] =>
            SeedOwner[k] = NoAgent /\ owner[k] \in Requests

(* A registration that has begun to write and has not failed.               *)
InPlay(r) == Open(r) \/ pc[r] = "committed" \/ reply[r] = "ok"

(* As long as nothing but contention makes a feasible registration fail,    *)
(* another feasible one is in play.                                         *)
SomeoneInPlay ==
    /\ faults = 0
    /\ \A r \in Requests : CanBlock(r) => Feasible(r)
    /\ \E r \in Requests : Feasible(r) /\ pc[r] = "done"
    => \E r \in Requests : Feasible(r) /\ InPlay(r)

(* Where clients wait for the commit before they send the next PATCH of an  *)
(* agent, a PATCH never misses a change.                                    *)
PatchesAlone ==
    /\ \A r, q \in Requests :
        /\ input[r].op = "patch" /\ pc[r] # "done"
        /\ input[q].op = "patch" /\ pc[q] # "done"
        /\ input[r].agent = input[q].agent
        => r = q
    /\ \A r \in Requests : pc[r] # "acked" /\ missed[r] = {}

=============================================================================
