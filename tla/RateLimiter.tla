---------------------------- MODULE RateLimiter ----------------------------
(***************************************************************************)
(* The in-memory sliding-window limiter of                                 *)
(* src/core/middleware/rate_limit_middleware.py, shared by POST /auth/token *)
(* and POST /agents/verify-signature.  A caller reads the clock and only    *)
(* then takes the lock of the store; the service calls it from coroutines   *)
(* of one event loop, which do not interleave within a call.                *)
(***************************************************************************)
EXTENDS Integers, Sequences, FiniteSets

CONSTANTS
    Callers,        \* the handlers that may be inside is_allowed
    Clients,        \* the (route_key, client_ip) pairs
    Limit,          \* requests a client may make ...
    Window,         \* ... within this many seconds
    EventLoop,      \* do calls run one after the other?
    MaxTime         \* bound on the clock

ASSUME LimitAssumption ==
    /\ Limit \in Nat \ {0}
    /\ Window \in Nat \ {0}
    /\ EventLoop \in BOOLEAN
    /\ MaxTime \in Nat

VARIABLES
    clock,      \* time.monotonic()
    windows,    \* _windows: the timestamps kept for each client, oldest first
    call,       \* the client each caller asks about, and when it read the clock
    log         \* history: the timestamps of all admitted requests

vars == <<clock, windows, call, log>>

NoCall == [client |-> "none", at |-> 0]
Idle(c) == call[c] = NoCall

(* Timestamps are within the clock, and no deque outgrows the limit: what  *)
(* the store keeps for a client is bounded.                                *)
TypeOK ==
    /\ clock \in 0 .. MaxTime
    /\ \A k \in Clients : /\ windows[k] \in Seq(0 .. MaxTime)
                          /\ Len(windows[k]) <= Limit
                          /\ log[k] \in Seq(0 .. MaxTime)
    /\ \A c \in Callers : Idle(c) \/ call[c] \in [client : Clients, at : 0 .. clock]

Init ==
    /\ clock = 0
    /\ windows = [k \in Clients |-> <<>>]
    /\ call = [c \in Callers |-> NoCall]
    /\ log = [k \in Clients |-> <<>>]

Tick ==
    /\ clock < MaxTime
    /\ clock' = clock + 1
    /\ UNCHANGED <<windows, call, log>>

(* is_allowed reads the clock before it has the lock.                      *)
Sample(c, k) ==
    /\ Idle(c)
    /\ EventLoop => \A d \in Callers : Idle(d)
    /\ call' = [call EXCEPT ![c] = [client |-> k, at |-> clock]]
    /\ UNCHANGED <<clock, windows, log>>

(* Slip: a full deque is refused before anything is evicted from it.       *)
EvictedUnlessFull(dq, cutoff) ==
    SelectSeq(dq, LAMBDA t : Len(dq) >= Limit \/ t >= cutoff)

(* Slip: a timestamp exactly one window old is evicted.                    *)
EvictedTooSoon(dq, cutoff) ==
    LET stale == {n \in 1 .. Len(dq) : \A m \in 1 .. n : dq[m] <= cutoff}
    IN SubSeq(dq, Cardinality(stale) + 1, Len(dq))

(* Eviction pops the head while it is older than the cutoff, and stops at  *)
(* the first timestamp that is not, whatever is behind it.                 *)
Evicted(dq, cutoff) ==
    LET stale == {n \in 1 .. Len(dq) : \A m \in 1 .. n : dq[m] < cutoff}
    IN SubSeq(dq, Cardinality(stale) + 1, Len(dq))

(* Slip: the limit itself is still admitted.                               *)
OneTooMany(dq, now) ==
    IF Len(dq) > Limit THEN dq ELSE Append(dq, now)

(* A full window is left as it is and refuses; otherwise it records now.   *)
Recorded(dq, now) ==
    IF Len(dq) >= Limit THEN dq ELSE Append(dq, now)

(* The part of is_allowed under the lock.                                  *)
Decide(c) ==
    /\ ~Idle(c)
    /\ LET k == call[c].client
           now == call[c].at
           dq == Evicted(windows[k], now - Window)
       IN /\ windows' = [windows EXCEPT ![k] = Recorded(dq, now)]
          /\ log' = IF Recorded(dq, now) = dq THEN log
                    ELSE [log EXCEPT ![k] = Append(@, now)]
    /\ call' = [call EXCEPT ![c] = NoCall]
    /\ UNCHANGED clock

(* The store forgets everything, and the admissions are counted anew.      *)
Forget ==
    /\ windows' = [k \in Clients |-> <<>>]
    /\ log' = [k \in Clients |-> <<>>]
    /\ UNCHANGED clock

Reset == Forget /\ UNCHANGED call

(* The process restarts.  The monotonic clock is the machine's.            *)
Restart == Forget /\ call' = [c \in Callers |-> NoCall]

Next == \/ Tick
        \/ \E c \in Callers : Decide(c) \/ \E k \in Clients : Sample(c, k)
        \/ Reset
        \/ Restart

Spec == Init /\ [][Next]_vars

-----------------------------------------------------------------------------

Admitted(k, from, to) ==
    Cardinality({n \in DOMAIN log[k] : log[k][n] \in from .. to})

(* In no interval one window long has any client been admitted more often  *)
(* than the limit, although the store forgets what it evicts.              *)
NeverOverLimit ==
    \A k \in Clients : \A t \in 0 .. clock : Admitted(k, t, t + Window) <= Limit

(* A request is refused only if the same client used the limit up since    *)
(* the beginning of the window that the request looks at.                  *)
RefusalsAreEarned ==
    [][\A c \in Callers :
        Decide(c) /\ log' = log =>
            Admitted(call[c].client, call[c].at - Window, clock) >= Limit]_vars

=============================================================================
