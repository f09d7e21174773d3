---------------------------- MODULE SessionPool ----------------------------
(***************************************************************************)
(* The connections behind the sessions of database.py, and the requests    *)
(* and health probes that compete for them while the database goes away    *)
(* and comes back.  A session takes a connection with its first statement  *)
(* and keeps it, through every wait for a row lock, until get_db_session   *)
(* closes it.                                                              *)
(***************************************************************************)
EXTENDS Naturals, FiniteSets

CONSTANTS
    Requests,       \* the requests of a run
    Kind,           \* of each: "reader", "writer" or "probe" (the health endpoints)
    Conns,          \* the connections the pool may have: pool_size + max_overflow
    PoolSize,       \* DB_POOL_SIZE: those it keeps when nobody uses them
    Nobody,         \* holds what nobody holds
    MaxOutages      \* bound on the failures of the database

ASSUME PoolAssumption ==
    /\ IsFiniteSet(Requests) /\ IsFiniteSet(Conns)
    /\ Kind \in [Requests -> {"reader", "writer", "probe"}]
    /\ PoolSize \in 1 .. Cardinality(Conns)
    /\ Nobody \notin Requests
    /\ MaxOutages \in Nat

VARIABLES
    pc,         \* how far each request is
    link,       \* of each connection: not open, live, or dead since an outage
    holder,     \* the request whose session has it
    lock,       \* the request with the row lock of the agent
    up,         \* does the database answer?
    outages,    \* how often it has stopped answering
    burnt,      \* history: requests that failed on a dead connection
    answer      \* what each request is answered

vars == <<pc, link, holder, lock, up, outages, burnt, answer>>

Idle == {c \in Conns : link[c] # "none" /\ holder[c] = Nobody}
Unopened == {c \in Conns : link[c] = "none" /\ holder[c] = Nobody}
Of(r) == {c \in Conns : holder[c] = r}

TypeOK ==
    /\ pc \in [Requests -> {"start", "read", "write", "commit", "failed", "done"}]
    /\ link \in [Conns -> {"none", "live", "dead"}]
    /\ holder \in [Conns -> Requests \cup {Nobody}]
    /\ lock \in Requests \cup {Nobody}
    /\ up \in BOOLEAN
    /\ outages \in 0 .. MaxOutages
    /\ burnt \in Nat
    /\ answer \in [Requests -> {"none", "ok", "error", "unhealthy", "lost"}]
    /\ Cardinality(Idle) <= PoolSize

Init ==
    /\ pc = [r \in Requests |-> "start"]
    /\ link = [c \in Conns |-> "none"]
    /\ holder = [c \in Conns |-> Nobody]
    /\ lock = Nobody
    /\ up = TRUE
    /\ outages = 0
    /\ burnt = 0
    /\ answer = [r \in Requests |-> "none"]

database == <<up, outages>>

Goes(r, from, to) == pc[r] = from /\ pc' = [pc EXCEPT ![r] = to]

(* Slip: a statement that failed is repeated in the same session.          *)
RaiseRepeated(r) == UNCHANGED <<pc, answer>>

(* An exception in the handler.  The probes answer the one of their        *)
(* statement with 503; in both cases get_db_session rolls back.            *)
Raise(r) ==
    /\ pc' = [pc EXCEPT ![r] = "failed"]
    /\ answer' = [answer EXCEPT ![r] =
            IF Kind[r] = "probe" /\ pc[r] # "commit" THEN "unhealthy" ELSE "error"]

(* The first statement takes an idle connection, whether it is dead or not *)
(* (the engine has no pool_pre_ping), or else opens one.                   *)
Checkout(r) ==
    /\ Goes(r, "start", "read")
    /\ \E c \in Conns :
        /\ \/ c \in Idle /\ UNCHANGED link
           \/ /\ Idle = {} /\ c \in Unopened /\ up
              /\ link' = [link EXCEPT ![c] = "live"]
        /\ holder' = [holder EXCEPT ![c] = r]
    /\ UNCHANGED <<lock, database, burnt, answer>>

(* Slip: while the database is away, opening a connection is retried.       *)
CheckoutTimesOut(r) ==
    /\ pc[r] = "start"
    /\ Idle = {} /\ Unopened = {}
    /\ Raise(r)
    /\ UNCHANGED <<link, holder, lock, database, burnt>>

(* No connection within the timeout of the pool, or none that opens.       *)
CheckoutFails(r) ==
    /\ pc[r] = "start"
    /\ Idle = {}
    /\ Unopened = {} \/ ~up
    /\ Raise(r)
    /\ UNCHANGED <<link, holder, lock, database, burnt>>

InTransaction(r) == pc[r] \in {"read", "write", "commit"}

Works(r) == up /\ \E c \in Of(r) : link[c] = "live"

(* The SELECT of a reader, the SELECT 1 of a probe, get_by_id of a writer. *)
Read(r) ==
    /\ Works(r)
    /\ Goes(r, "read", IF Kind[r] = "writer" THEN "write" ELSE "commit")
    /\ UNCHANGED <<link, holder, lock, database, burnt, answer>>

(* save and flush: the UPDATE waits for whoever holds the row.             *)
Write(r) ==
    /\ Works(r)
    /\ lock = Nobody
    /\ Goes(r, "write", "commit")
    /\ lock' = r
    /\ UNCHANGED <<link, holder, database, burnt, answer>>

(* Slip: overflow connections are kept like the others.                    *)
KeptOverflow(r) == link

(* The pool keeps the connection, unless it has enough.                    *)
Returned(r) ==
    IF Cardinality(Idle) < PoolSize THEN link
    ELSE [c \in Conns |-> IF holder[c] = r THEN "none" ELSE link[c]]

(* session.close, which also ends the transaction and releases the row.    *)
Close(r) ==
    /\ holder' = [c \in Conns |-> IF holder[c] = r THEN Nobody ELSE holder[c]]
    /\ link' = Returned(r)
    /\ lock' = IF lock = r THEN Nobody ELSE lock

Commit(r) ==
    /\ Works(r)
    /\ Goes(r, "commit", "done")
    /\ answer' = [answer EXCEPT ![r] = "ok"]
    /\ Close(r)
    /\ UNCHANGED <<database, burnt>>

(* SQLAlchemy then takes the connection for lost, and whatever is idle.    *)
Discarded(r) == [c \in Conns |-> IF c \in Idle \cup Of(r) THEN "none" ELSE link[c]]

(* A statement or the commit finds the connection dead: the server has     *)
(* closed it, so that this is noticed at once.                             *)
Fail(r) ==
    /\ InTransaction(r)
    /\ ~Works(r)
    /\ Raise(r)
    /\ link' = Discarded(r)
    /\ burnt' = burnt + 1
    /\ UNCHANGED <<holder, lock, database>>

(* Slip: a session that failed is not closed.                              *)
LeftOpen(r) == Goes(r, "failed", "done") /\ UNCHANGED <<link, holder, lock>>

(* except: rollback; finally: close.                                       *)
Rollback(r) == Goes(r, "failed", "done") /\ Close(r)

Step(r) ==
    \/ Checkout(r) \/ CheckoutFails(r)
    \/ Read(r) \/ Write(r) \/ Commit(r) \/ Fail(r)
    \/ Rollback(r) /\ UNCHANGED <<database, burnt, answer>>

(* The handler raises while its connection works: no such agent, an error  *)
(* of the domain, or a statement PostgreSQL refuses, be it a conflict or   *)
(* the victim of a deadlock.  A writer may hold the row by then.           *)
Reject(r) ==
    /\ Kind[r] # "probe"
    /\ InTransaction(r) /\ Works(r)
    /\ Raise(r)
    /\ UNCHANGED <<link, holder, lock, database, burnt>>

(* The task is cancelled where it waits.  CancelledError is no Exception:  *)
(* only the finally of get_db_session runs, and nobody is answered.        *)
Cancelled(r) ==
    /\ pc' = [pc EXCEPT ![r] = "failed"]
    /\ answer' = [answer EXCEPT ![r] = "lost"]

(* A statement cut short costs the session its connection, and with it the *)
(* transaction; elsewhere the connection stays as it is.                   *)
Cancel(r) ==
    /\ pc[r] = "start" \/ InTransaction(r)
    /\ Cancelled(r)
    /\ \/ UNCHANGED <<link, lock>>
       \/ /\ link' = [c \in Conns |-> IF c \in Of(r) THEN "none" ELSE link[c]]
          /\ lock' = IF lock = r THEN Nobody ELSE lock
    /\ UNCHANGED <<holder, database, burnt>>

(* What no scheduler owes a request.                                       *)
Interrupt(r) == Reject(r) \/ Cancel(r)

(* The database stops.  It ends its transactions, which frees the row,     *)
(* while the sessions and the pool keep their dead connections.            *)
Outage ==
    /\ up /\ outages < MaxOutages
    /\ up' = FALSE
    /\ outages' = outages + 1
    /\ link' = [c \in Conns |-> IF link[c] = "live" THEN "dead" ELSE link[c]]
    /\ lock' = Nobody
    /\ UNCHANGED <<pc, holder, burnt, answer>>

Recover ==
    /\ ~up
    /\ up' = TRUE
    /\ UNCHANGED <<pc, link, holder, lock, outages, burnt, answer>>

Done == (\A r \in Requests : pc[r] = "done") /\ UNCHANGED vars

Next == (\E r \in Requests : Step(r) \/ Interrupt(r)) \/ Outage \/ Recover \/ Done

(* Every coroutine runs on; none need be refused or cancelled.             *)
Spec == Init /\ [][Next]_vars /\ \A r \in Requests : WF_vars(Step(r))

-----------------------------------------------------------------------------

(* What a request took it gives back, whether it commits, is refused on a  *)
(* working connection, loses its connection or is cancelled: connections   *)
(* and the row belong to requests that have still to end, and whoever      *)
(* holds the row has its connection and waits for nobody else.             *)
NothingLeaks ==
    /\ \A c \in Conns : holder[c] # Nobody =>
            pc[holder[c]] \notin {"start", "done"}
    /\ \A c, d \in Conns : holder[c] = holder[d] /\ holder[c] # Nobody => c = d
    /\ lock # Nobody => Of(lock) # {} /\ pc[lock] \in {"commit", "failed"}

(* An outage costs a request for each connection open at the time and no   *)
(* more: the pool does not hand out the same dead connection twice.        *)
OutageIsPaidOnce == burnt <= outages * Cardinality(Conns)

(* Every request ends, whatever the others hold and however the database   *)
(* fails: nobody waits for good on the pool or on a row.                   *)
EveryRequestEnds == \A r \in Requests : <>(pc[r] = "done")

=============================================================================
