------------------------------ MODULE Listing ------------------------------
(***************************************************************************)
(* GET /agents: a client walks through the pages while agents are          *)
(* registered and change status.  Every page is a SELECT of its own,       *)
(* ordered by created_at descending, with LIMIT and OFFSET; nothing ties   *)
(* it to the page before.  created_at is read from the clock long before   *)
(* the commit, so rows appear in any order of created_at, and rows with    *)
(* equal created_at have no order at all.                                  *)
(***************************************************************************)
EXTENDS AgentEntity, Integers, FiniteSets

CONSTANTS
    Agents,         \* all agents that are ever registered
    Owner,          \* the organization of each agent
    Taken,          \* the statuses agents take
    Times,          \* values of created_at
    Limits,         \* values of the query parameter `limit'
    Filters,        \* the filters clients use
    All             \* no filter: None, or an empty owner_organization

(* Query(50, ge=1, le=100).                                                *)
ASSUME PagingAssumption ==
    /\ IsFiniteSet(Agents)
    /\ {"ACTIVE"} \subseteq Taken /\ Taken \subseteq Status
    /\ Times \subseteq Nat
    /\ Limits \subseteq 1 .. 100
    /\ \A f \in Filters : f.status \in Status \cup {All}

VARIABLES
    status,     \* agents.status, "ABSENT" while there is no such row
    created,    \* agents.created_at
    query,      \* the filter and the limit of the walk
    phase,      \* of the client: "walking" or "done"
    offset,     \* of the next page
    page,       \* the agents on the last page
    seen,       \* the agents on all pages so far
    first,      \* history: the agents that matched before the first page
    joined,     \* history: those that began to match since
    left        \* history: those that ceased to match since

rows == <<status, created>>
walk == <<query, phase, offset, page, seen, first>>
vars == <<rows, walk, joined, left>>

Visible == {a \in Agents : status[a] # "ABSENT"}

(* deleted_at is never set, so the two optional filters decide.            *)
Matching ==
    {a \in Visible : /\ query.filter.status \in {All, status[a]}
                     /\ query.filter.owner \in {All, Owner[a]}}

(* The order of ties is the database's, and another one for every query.   *)
Ties == {t \in [Agents -> 1 .. Cardinality(Agents)] :
            \A a, b \in Agents : t[a] = t[b] => a = b}

(* Slip: the query has no ORDER BY.                                        *)
Unordered(b, a, tie) == tie[b] < tie[a]

(* Slip: oldest first.                                                     *)
Ascending(b, a, tie) ==
    \/ created[b] < created[a]
    \/ created[b] = created[a] /\ tie[b] < tie[a]

Precedes(b, a, tie) ==
    \/ created[b] > created[a]
    \/ created[b] = created[a] /\ tie[b] < tie[a]

Position(a, tie) == Cardinality({b \in Matching : Precedes(b, a, tie)})

TypeOK ==
    /\ status \in [Agents -> Taken \cup {"ABSENT"}]
    /\ created \in [Agents -> Times]
    /\ query \in [filter : Filters, limit : Limits]
    /\ phase \in {"walking", "done"}
    /\ offset \in Nat
    /\ page \subseteq seen
    /\ seen \subseteq Visible
    /\ first \subseteq Visible
    /\ joined \cup left \subseteq Visible

(* The walk may begin on any table.                                        *)
Init ==
    /\ status \in [Agents -> Taken \cup {"ABSENT"}]
    /\ created \in [Agents -> Times]
    /\ query \in [filter : Filters, limit : Limits]
    /\ phase = "walking"
    /\ offset = 0
    /\ page = {} /\ seen = {} /\ joined = {} /\ left = {}
    /\ first = Matching

(* Another request commits while the client is between two pages.          *)
Commit ==
    /\ phase = "walking"
    /\ UNCHANGED <<created, walk>>
    /\ joined' = joined \cup (Matching' \ Matching)
    /\ left' = left \cup (Matching \ Matching')

(* A registration commits (module Registration).                           *)
Register(a) ==
    /\ status[a] = "ABSENT"
    /\ status' = [status EXCEPT ![a] = "ACTIVE"]
    /\ Commit

(* Slip: suspending an agent deletes its row.                              *)
ChangeStatusDeletes(a, target) ==
    /\ a \in Visible
    /\ status' = [status EXCEPT ![a] = IF target = "ACTIVE" THEN target ELSE "ABSENT"]
    /\ Commit

(* A PATCH commits (module StatusUpdate), overlapping ones included.       *)
ChangeStatus(a, target) ==
    /\ a \in Visible
    /\ status' = [status EXCEPT ![a] = target]
    /\ Commit

(* ListAgentsUseCase.execute.  LIMIT counts agents, not joined key rows:    *)
(* SQLAlchemy wraps the query.  The walk ends with a page that is not full. *)
ReadPage ==
    /\ phase = "walking"
    /\ \E tie \in Ties :
        page' = {a \in Matching :
                    /\ offset <= Position(a, tie)
                    /\ Position(a, tie) < offset + query.limit}
    /\ seen' = seen \cup page'
    /\ phase' = IF Cardinality(Matching) < offset + query.limit THEN "done" ELSE "walking"
    /\ offset' = offset + query.limit
    /\ UNCHANGED <<rows, query, first, joined, left>>

Next == \/ \E a \in Agents : Register(a) \/ \E t \in Taken : ChangeStatus(a, t)
        \/ ReadPage

Spec == Init /\ [][Next]_vars

-----------------------------------------------------------------------------

Tied(a) == \E b \in Visible : b # a /\ created[b] = created[a]

NewerIn(S, a) == \E b \in S : created[b] > created[a]

(* A walk that has ended shows every agent that was there at its first     *)
(* page and matched throughout, unless a newer agent left the filter in    *)
(* the meantime and moved it to a page already read, or unless another     *)
(* agent has the same created_at.  New registrations hide nothing.         *)
MissedOnlyIfMovedUp ==
    phase = "done" =>
        \A a \in first \ (seen \cup left) : Tied(a) \/ NewerIn(left, a)

(* An agent is listed again only if a newer one appeared since the first    *)
(* page and moved it down, if it left the filter and came back, or if       *)
(* another one has the same created_at.                                     *)
RepeatedOnlyIfMovedDown ==
    [][ReadPage =>
        \A a \in (page' \cap seen) \ joined : Tied(a) \/ NewerIn(joined, a)]_vars

-----------------------------------------------------------------------------
(* What the proofs carry from state to state: where the agents not yet and  *)
(* already seen are in the order, relative to the next page.                *)

Rank(a) == Cardinality({b \in Matching : created[b] > created[a]})

Ahead(a) ==
    \/ Tied(a)
    \/ NewerIn(left, a)
    \/ phase = "walking" /\ offset <= Rank(a)

Behind(a) ==
    \/ Tied(a)
    \/ NewerIn(joined, a)
    \/ Rank(a) < offset

UnseenAhead == \A a \in first \ (seen \cup left) : Ahead(a)

SeenBehind == \A a \in (seen \cap Matching) \ joined : Behind(a)

StillMatching == first \ left \subseteq Matching

IInv == TypeOK /\ StillMatching /\ UnseenAhead /\ SeenBehind

=============================================================================
