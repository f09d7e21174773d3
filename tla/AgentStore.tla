----------------------------- MODULE AgentStore -----------------------------
(***************************************************************************)
(* The database of the agent registry and the life of one HTTP request     *)
(* against it: the two tables, the session every request owns (FastAPI     *)
(* dependency get_db_session), the commit at its end, the answer, and the  *)
(* faults that may hit it.  The modules StatusUpdate, Registration and     *)
(* Lookup add the handlers; Registry composes them.                        *)
(*                                                                         *)
(* Every request runs once.  Retries are further requests.  A registration *)
(* names its agent by a fresh ULID, which is modelled by the request       *)
(* itself: agent ids are the seeded agents and the requests.               *)
(***************************************************************************)
EXTENDS AgentEntity, Naturals, Sequences, SequencesExt

CONSTANTS
    Requests,           \* the HTTP requests the clients send
    SeedAgents,         \* agents registered before the model starts
    Keys,               \* public keys, named by their key_id fingerprint
    SeedOwner,          \* the seeded agent each key belongs to, or NoAgent
    Workload,           \* the inputs a request may carry
    CommitBeforeReply,  \* does FastAPI leave get_db_session before it answers?
    SerialPatches,      \* do the clients wait for an answer before they send
                        \* another status change of the same agent?
    MaxFaults,          \* bound on database faults and crashes
    NoAgent, NoRequest

Agents == SeedAgents \cup Requests

(* `ok' is FALSE for a request refused before it reads the database: no or *)
(* a wrong token, a malformed agent id, a body that does not validate, a   *)
(* key that is private or does not parse, an exceeded rate limit, base64   *)
(* that does not decode.                                                   *)
Input == [op : {"none", "register", "patch", "verify", "get"}, ok : BOOLEAN,
          agent : Agents \cup {NoAgent}, target : Status, keys : Seq(Keys)]

NoInput == [op |-> "none", ok |-> FALSE, agent |-> NoAgent,
            target |-> "PENDING_VERIFICATION", keys |-> <<>>]

ASSUME NamesAssumption ==
    /\ SeedAgents \cap Requests = {}
    /\ NoAgent \notin Agents
    /\ NoRequest \notin Requests

ASSUME SeedAssumption == SeedOwner \in [Keys -> SeedAgents \cup {NoAgent}]

(* The public_keys of AgentRegisterRequest: at least one.                  *)
Payloads == Seq(Keys) \ {<<>>}

(* A request goes to one of the four endpoints that use the store; a       *)
(* verification names exactly one key.                                     *)
ASSUME WorkloadAssumption ==
    /\ Workload \subseteq Input
    /\ \A i \in Workload : /\ i.op # "none"
                           /\ i.op = "register" => i.keys \in Payloads
                           /\ i.op = "verify" => Len(i.keys) = 1
                           /\ i.op \in {"patch", "get"} => i.agent \in Agents

ASSUME ModeAssumption ==
    /\ CommitBeforeReply \in BOOLEAN
    /\ SerialPatches \in BOOLEAN
    /\ MaxFaults \in Nat

VARIABLES
    status,     \* agents.status, "ABSENT" while there is no such row
    updated,    \* agents.updated_at, named by the request that set it
    owner,      \* public_keys.agent_id, NoAgent while there is no such row
    live,       \* the keys whose row has is_active
    input,      \* what each request carries
    pc,         \* how far each request is
    entity,     \* the domain object the handler of the request works on
    base,       \* the values the session loaded, against which it finds
                \* what a flush has to write
    inserted,   \* how many key rows a registration has inserted
    reply,      \* what the client was, or is about to be, answered
    before,     \* history: the requests answered 2xx when this one, which
                \* only reads, arrived
    missed,     \* history: the requests that committed changes to the agent
                \* after this one loaded it
    faults      \* how many faults happened

tables  == <<status, updated, owner, live>>
session == <<entity, base, inserted>>
vars == <<status, updated, owner, live, input, pc, entity, base, inserted,
          reply, before, missed, faults>>

-----------------------------------------------------------------------------

Blank == [status |-> "ABSENT", updated |-> NoRequest, live |-> {}]

Rows == [status : Status \cup {"ABSENT"},
         updated : Requests \cup {NoRequest}, live : SUBSET Keys]

Stages == {"idle", "arrived", "loaded", "dirty", "inserting", "flushed",
           "acked", "committed", "done"}

Replies == {"none", "ok", "refused", "notfound", "conflict", "error", "lost"}

(* Each column has its type; there are at most MaxFaults faults.           *)
TypeOK ==
    /\ status \in [Agents -> Status \cup {"ABSENT"}]
    /\ updated \in [Agents -> Requests \cup {NoRequest}]
    /\ owner \in [Keys -> Agents \cup {NoAgent}]
    /\ live \in SUBSET Keys
    /\ input \in [Requests -> Input]
    /\ pc \in [Requests -> Stages]
    /\ entity \in [Requests -> Rows]
    /\ base \in [Requests -> Rows]
    /\ inserted \in [Requests -> Nat]
    /\ reply \in [Requests -> Replies]
    /\ before \in [Requests -> SUBSET Requests]
    /\ missed \in [Requests -> SUBSET Requests]
    /\ faults \in 0 .. MaxFaults

Init ==
    /\ status = [a \in Agents |-> IF a \in SeedAgents THEN "ACTIVE" ELSE "ABSENT"]
    /\ updated = [a \in Agents |-> NoRequest]
    /\ owner = SeedOwner
    /\ live = {k \in Keys : SeedOwner[k] # NoAgent}
    /\ input = [r \in Requests |-> NoInput]
    /\ pc = [r \in Requests |-> "idle"]
    /\ entity = [r \in Requests |-> Blank]
    /\ base = [r \in Requests |-> Blank]
    /\ inserted = [r \in Requests |-> 0]
    /\ reply = [r \in Requests |-> "none"]
    /\ before = [r \in Requests |-> {}]
    /\ missed = [r \in Requests |-> {}]
    /\ faults = 0

-----------------------------------------------------------------------------
(* What a request is about, what it reads and what it holds.               *)

AgentOf(r) == IF input[r].op = "register" THEN r ELSE input[r].agent

KeysOf(a) == {k \in Keys : owner[k] = a}

(* The agent a committed row and its key rows describe: _to_domain.        *)
Row(a) == [status |-> status[a], updated |-> updated[a],
           live |-> live \cap KeysOf(a)]

(* Requests with an open transaction that has written.                     *)
Open(r) == pc[r] \in {"inserting", "flushed", "acked"}

(* What the unit of work finds changed, and therefore what it writes and   *)
(* locks: columns of the agents row, and rows of public_keys.              *)
DirtyAgent(r) == \/ entity[r].status # base[r].status
                 \/ entity[r].updated # base[r].updated
DirtyKeys(r) == SymDiff(entity[r].live, base[r].live)

(* The key rows a registration inserted and has not committed.             *)
Inserted(r) == {input[r].keys[i] : i \in 1 .. inserted[r]}

Answered(r) == pc[r] \in {"acked", "done"}
Succeeded(r) == Answered(r) /\ reply[r] = "ok"

-----------------------------------------------------------------------------

(* Slip: the session is not closed, and its transaction stays open.        *)
CloseLeavingRows(r) ==
    /\ entity' = [entity EXCEPT ![r] = Blank]
    /\ base' = [base EXCEPT ![r] = Blank]
    /\ UNCHANGED inserted

(* The session is closed: whatever it had not committed is rolled back.    *)
Close(r) ==
    /\ entity' = [entity EXCEPT ![r] = Blank]
    /\ base' = [base EXCEPT ![r] = Blank]
    /\ inserted' = [inserted EXCEPT ![r] = 0]

(* The request ends without a commit, with this answer.                    *)
End(r, answer) ==
    /\ Close(r)
    /\ pc' = [pc EXCEPT ![r] = "done"]
    /\ reply' = [reply EXCEPT ![r] = answer]
    /\ missed' = [missed EXCEPT ![r] = {}]
    /\ UNCHANGED <<tables, input, before>>

(* A client sends a request.                                               *)
Arrive(r) ==
    /\ pc[r] = "idle"
    /\ \E i \in Workload :
        /\ input' = [input EXCEPT ![r] = i]
        /\ before' = [before EXCEPT ![r] =
             IF i.op \in {"verify", "get"} THEN {q \in Requests : Succeeded(q)} ELSE {}]
        /\ SerialPatches /\ i.op = "patch" =>
            \A q \in Requests : input[q].op = "patch" /\ input[q].agent = i.agent
                                    => Answered(q)
    /\ pc' = [pc EXCEPT ![r] = "arrived"]
    /\ UNCHANGED <<tables, session, reply, missed, faults>>

(* Authentication, validation, the rate limit or the decoding of the body  *)
(* refuses the request; its session has not been used.                     *)
Refuse(r) ==
    /\ pc[r] = "arrived"
    /\ ~input[r].ok
    /\ End(r, "refused")
    /\ UNCHANGED faults

(* The PATCHes that have loaded the agent of r and not committed.           *)
Bystanders(r) == {q \in Requests \ {r} :
                    /\ AgentOf(q) = AgentOf(r)
                    /\ pc[q] \in {"loaded", "dirty", "flushed", "acked"}}

(* Slip: the flags of existing key rows are not synchronised.              *)
WrittenLiveNewOnly(r) == live \cup (entity[r].live \ base[r].live)

(* The key rows with is_active after r commits: the rows it found dirty    *)
(* take the flag of its domain object, the others keep theirs.             *)
WrittenLive(r) ==
    (live \ (base[r].live \ entity[r].live)) \cup (entity[r].live \ base[r].live)

(* session.commit() after the handler, where the dependency is left: before *)
(* or after the answer is sent.  What becomes visible is what the unit of   *)
(* work found dirty, and nothing else of the row.                           *)
Commit(r) ==
    /\ pc[r] = IF CommitBeforeReply THEN "flushed" ELSE "acked"
    /\ pc' = [pc EXCEPT ![r] = IF CommitBeforeReply THEN "committed" ELSE "done"]
    /\ LET a == AgentOf(r)
           old == base[r]
           new == entity[r]
       IN /\ status' = IF new.status = old.status THEN status
                       ELSE [status EXCEPT ![a] = new.status]
          /\ updated' = IF new.updated = old.updated THEN updated
                        ELSE [updated EXCEPT ![a] = new.updated]
          /\ owner' = [k \in Keys |-> IF k \in Inserted(r) THEN a ELSE owner[k]]
          /\ live' = WrittenLive(r)
          /\ missed' = [q \in Requests |->
                          IF q = r THEN {}
                          ELSE IF q \in Bystanders(r) /\ new # old
                               THEN missed[q] \cup {r} ELSE missed[q]]
    /\ Close(r)
    /\ UNCHANGED <<input, reply, before, faults>>

(* The answer of a handler that wrote: 201 or 200.                         *)
Reply(r) ==
    /\ pc[r] = IF CommitBeforeReply THEN "committed" ELSE "flushed"
    /\ pc' = [pc EXCEPT ![r] = IF CommitBeforeReply THEN "done" ELSE "acked"]
    /\ reply' = [reply EXCEPT ![r] = "ok"]
    /\ UNCHANGED <<tables, session, input, before, missed, faults>>

-----------------------------------------------------------------------------
(* Faults.                                                                 *)

(* Slip: get_db_session does not raise again what the commit raised.       *)
AnswerSwallowed(r, answer) ==
    IF pc[r] \in {"flushed", "acked", "committed"} THEN "ok" ELSE answer

(* An answer that has been sent cannot be taken back.                      *)
AnswerOr(r, answer) == IF pc[r] = "acked" THEN reply[r] ELSE answer

(* A statement, the commit or the connection fails: get_db_session rolls   *)
(* back and the exception becomes a 500.  Of a committed request only the   *)
(* confirmation of the commit is lost.                                     *)
DbFault(r) ==
    /\ faults < MaxFaults
    /\ \/ pc[r] = "arrived" /\ input[r].ok
       \/ pc[r] \notin {"idle", "arrived", "done"}
    /\ faults' = faults + 1
    /\ End(r, AnswerOr(r, "error"))

(* The server process dies and is restarted: PostgreSQL rolls back every   *)
(* open transaction and no pending answer is sent.                         *)
Crash ==
    /\ faults < MaxFaults
    /\ \E r \in Requests : pc[r] \notin {"idle", "done"}
    /\ faults' = faults + 1
    /\ LET hit == {r \in Requests : pc[r] \notin {"idle", "done"}} IN
        /\ pc' = [r \in Requests |-> IF r \in hit THEN "done" ELSE pc[r]]
        /\ reply' = [r \in Requests |-> IF r \in hit THEN AnswerOr(r, "lost")
                                                     ELSE reply[r]]
    /\ entity' = [r \in Requests |-> Blank]
    /\ base' = [r \in Requests |-> Blank]
    /\ inserted' = [r \in Requests |-> 0]
    /\ missed' = [r \in Requests |-> {}]
    /\ UNCHANGED <<tables, input, before>>

=============================================================================
