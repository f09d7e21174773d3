--------------------------- MODULE AuthGateProofs ---------------------------
(***************************************************************************)
(* The limiter on one event loop, for any number of callers and clients,   *)
(* any limit, any window and any time; and the gate, which uses the        *)
(* limiter as RateLimiter describes it, keeps the lifetime of tokens and   *)
(* bounds how many of them are valid, for any lifetime and tick length.    *)
(***************************************************************************)
EXTENDS AuthGate, FiniteSetTheorems, SequenceTheorems, TLAPS

-----------------------------------------------------------------------------
(* The limiter.                                                            *)

(* How many admissions of a client are no longer in its deque.             *)
Gone(k) == Len(log[k]) - Len(windows[k])

Types ==
    /\ clock \in 0 .. MaxTime
    /\ windows \in [Clients -> Seq(0 .. MaxTime)]
    /\ log \in [Clients -> Seq(0 .. MaxTime)]
    /\ call = [c \in Callers |-> call[c]]
    /\ \A c \in Callers : Idle(c) \/ call[c] \in [client : Clients, at : 0 .. clock]
    /\ \A k \in Clients : Len(windows[k]) <= Limit

(* A deque is what is left of the log once its oldest entries are evicted. *)
DequesEndLogs ==
    \A k \in Clients :
        /\ Gone(k) \in Nat
        /\ \A n \in 1 .. Len(windows[k]) : windows[k][n] = log[k][Gone(k) + n]

(* At a reading of the clock, nothing is younger, what is gone is older    *)
(* than a window, and the log is in order.                                 *)
OrderedBefore(t) ==
    \A k \in Clients :
        /\ \A n \in 1 .. Len(log[k]) : log[k][n] <= t
        /\ \A n \in 1 .. Gone(k) : log[k][n] < t - Window

Ordered ==
    /\ OrderedBefore(clock)
    /\ \A c \in Callers : ~Idle(c) => OrderedBefore(call[c].at)
    /\ \A k \in Clients : \A m, n \in 1 .. Len(log[k]) : m <= n => log[k][m] <= log[k][n]

OneAtATime == \A c, d \in Callers : ~Idle(c) /\ ~Idle(d) => c = d

RInv == Types /\ DequesEndLogs /\ Ordered /\ OneAtATime

-----------------------------------------------------------------------------

(* A set of positions that contains what is before its elements is an      *)
(* initial interval, as long as it has elements.                           *)
LEMMA InitialInterval ==
    ASSUME NEW L \in Nat, NEW S \in SUBSET (1 .. L),
           \A n \in S : \A m \in 1 .. n : m \in S
    PROVE  Cardinality(S) \in 0 .. L /\ S = 1 .. Cardinality(S)
<1>1. IsFiniteSet(1 .. L) /\ Cardinality(1 .. L) = L
  BY FS_Interval
<1>2. IsFiniteSet(S) /\ Cardinality(S) <= L
  BY <1>1, FS_Subset
<1>3. Cardinality(S) \in Nat
  BY <1>2, FS_CardinalityType
<1>4. ASSUME NEW n \in S PROVE n <= Cardinality(S)
  <2>1. 1 .. n \in SUBSET S /\ n \in Nat /\ n >= 1
    OBVIOUS
  <2>2. Cardinality(1 .. n) = n
    BY <2>1, FS_Interval
  <2>3. Cardinality(1 .. n) <= Cardinality(S)
    BY <1>2, <2>1, FS_Subset
  <2> QED BY <2>2, <2>3
<1>5. S \in SUBSET (1 .. Cardinality(S))
  BY <1>3, <1>4
<1>6. IsFiniteSet(1 .. Cardinality(S)) /\ Cardinality(1 .. Cardinality(S)) = Cardinality(S)
  BY <1>3, FS_Interval
<1>7. S = 1 .. Cardinality(S)
  BY <1>5, <1>6, FS_Subset
<1> QED BY <1>2, <1>3, <1>7

(* What is left of a sequence without its first p elements.                *)
LEMMA Suffix ==
    ASSUME NEW S, NEW s \in Seq(S), NEW p \in 0 .. Len(s)
    PROVE  /\ SubSeq(s, p + 1, Len(s)) \in Seq(S)
           /\ Len(SubSeq(s, p + 1, Len(s))) = Len(s) - p
           /\ \A n \in 1 .. Len(s) - p : SubSeq(s, p + 1, Len(s))[n] = s[p + n]
<1>1. Len(s) \in Nat /\ \A i \in 1 .. Len(s) : s[i] \in S
  OBVIOUS
<1>2. PICK m \in Int : m = p + 1
  BY <1>1
<1>3. PICK L \in Int : L = Len(s)
  BY <1>1
<1>4. \A i \in m .. L : s[i] \in S
  BY <1>1, <1>2, <1>3
<1>5. PICK q : q = SubSeq(s, m, L)
  OBVIOUS
<1>6. /\ q \in Seq(S)
      /\ Len(q) = IF m <= L THEN L - m + 1 ELSE 0
      /\ \A i \in 1 .. L - m + 1 : q[i] = s[m + i - 1]
  BY <1>4, <1>5, SubSeqProperties
<1>7. Len(q) = Len(s) - p
  BY <1>1, <1>2, <1>3, <1>6
<1>8. ASSUME NEW n \in 1 .. Len(s) - p PROVE q[n] = s[p + n]
  <2>1. n \in 1 .. L - m + 1 /\ m + n - 1 = p + n
    BY <1>1, <1>2, <1>3
  <2> QED BY <2>1, <1>6
<1> QED BY <1>2, <1>3, <1>5, <1>6, <1>7, <1>8

(* Eviction drops p entries older than the cutoff from the front, and stops *)
(* at one that is not.                                                     *)
LEMMA Eviction ==
    ASSUME NEW dq \in Seq(0 .. MaxTime), NEW cutoff \in Int
    PROVE  \E p \in 0 .. Len(dq) :
              /\ Evicted(dq, cutoff) \in Seq(0 .. MaxTime)
              /\ Len(Evicted(dq, cutoff)) = Len(dq) - p
              /\ \A n \in 1 .. Len(dq) - p : Evicted(dq, cutoff)[n] = dq[p + n]
              /\ \A n \in 1 .. p : dq[n] < cutoff
              /\ p < Len(dq) => dq[p + 1] >= cutoff
<1> DEFINE stale == {n \in 1 .. Len(dq) : \A m \in 1 .. n : dq[m] < cutoff}
<1>1. Len(dq) \in Nat /\ \A n \in 1 .. Len(dq) : dq[n] \in Int
  BY LimitAssumption
<1>2. Cardinality(stale) \in 0 .. Len(dq) /\ stale = 1 .. Cardinality(stale)
  <2>1. stale \in SUBSET (1 .. Len(dq)) /\ \A n \in stale : \A m \in 1 .. n : m \in stale
    BY <1>1
  <2> HIDE DEF stale
  <2> QED BY <1>1, <2>1, InitialInterval
<1>3. PICK p \in 0 .. Len(dq) : p = Cardinality(stale) /\ stale = 1 .. p
  BY <1>2
<1>4. Evicted(dq, cutoff) = SubSeq(dq, p + 1, Len(dq))
  BY <1>3 DEF Evicted
<1>5. \A n \in 1 .. p : dq[n] < cutoff
  <2> TAKE n \in 1 .. p
  <2>1. n \in stale /\ n \in 1 .. n
    BY <1>1, <1>3
  <2> QED BY <2>1
<1>6. p < Len(dq) => dq[p + 1] >= cutoff
  <2> SUFFICES ASSUME p < Len(dq), ~(dq[p + 1] >= cutoff) PROVE FALSE
    OBVIOUS
  <2>1. p + 1 \in 1 .. Len(dq) /\ dq[p + 1] < cutoff
    BY <1>1
  <2>2. \A m \in 1 .. p + 1 : dq[m] < cutoff
    BY <1>1, <1>5, <2>1
  <2>3. p + 1 \in stale
    BY <2>1, <2>2
  <2>4. p + 1 \notin 1 .. p
    OBVIOUS
  <2> QED BY <1>3, <2>3, <2>4
<1> HIDE DEF stale
<1>7. /\ SubSeq(dq, p + 1, Len(dq)) \in Seq(0 .. MaxTime)
      /\ Len(SubSeq(dq, p + 1, Len(dq))) = Len(dq) - p
      /\ \A n \in 1 .. Len(dq) - p : SubSeq(dq, p + 1, Len(dq))[n] = dq[p + n]
  BY <1>1, Suffix
<1> QED BY <1>4, <1>5, <1>6, <1>7

-----------------------------------------------------------------------------

(* What a decision for client k at time now does: it drops p timestamps,   *)
(* leaves e, and records the call if e is shorter than the limit.          *)
Decided(c, k, now, p, e) ==
    /\ call[c] = [client |-> k, at |-> now]
    /\ call' = [call EXCEPT ![c] = NoCall]
    /\ clock' = clock
    /\ e \in Seq(0 .. MaxTime)
    /\ Len(e) = Len(windows[k]) - p
    /\ \A n \in 1 .. Len(e) : e[n] = windows[k][p + n]
    /\ \A n \in 1 .. p : windows[k][n] < now - Window
    /\ p < Len(windows[k]) => windows[k][p + 1] >= now - Window
    /\ \/ /\ Len(e) >= Limit
          /\ windows' = [windows EXCEPT ![k] = e]
          /\ log' = log
       \/ /\ Len(e) < Limit
          /\ windows' = [windows EXCEPT ![k] = Append(e, now)]
          /\ log' = [log EXCEPT ![k] = Append(log[k], now)]

(* Every decision has that form.                                           *)
LEMMA Decisions ==
    ASSUME Types, NEW c \in Callers, Decide(c)
    PROVE  \E k \in Clients, now \in 0 .. clock :
              \E p \in 0 .. Len(windows[k]), e \in Seq(0 .. MaxTime) : Decided(c, k, now, p, e)
<1>1. call[c] \in [client : Clients, at : 0 .. clock]
  BY DEF Types, Decide
<1>2. PICK k \in Clients, now \in 0 .. clock : call[c] = [client |-> k, at |-> now]
  BY <1>1
<1>3. windows[k] \in Seq(0 .. MaxTime) /\ now - Window \in Int
  BY LimitAssumption DEF Types
<1>4. PICK e : e = Evicted(windows[k], now - Window)
  OBVIOUS
<1>5. PICK p \in 0 .. Len(windows[k]) :
        /\ e \in Seq(0 .. MaxTime)
        /\ Len(e) = Len(windows[k]) - p
        /\ \A n \in 1 .. Len(windows[k]) - p : e[n] = windows[k][p + n]
        /\ \A n \in 1 .. p : windows[k][n] < now - Window
        /\ p < Len(windows[k]) => windows[k][p + 1] >= now - Window
  BY <1>3, <1>4, Eviction
<1>6. /\ windows' = [windows EXCEPT ![k] = Recorded(e, now)]
      /\ log' = IF Recorded(e, now) = e THEN log ELSE [log EXCEPT ![k] = Append(log[k], now)]
      /\ call' = [call EXCEPT ![c] = NoCall]
      /\ clock' = clock
  BY <1>2, <1>4 DEF Decide
<1>7. CASE Len(e) >= Limit
  BY <1>2, <1>5, <1>6, <1>7 DEF Decided, Recorded
<1>8. CASE ~(Len(e) >= Limit)
  <2>1. Len(e) < Limit /\ Recorded(e, now) = Append(e, now)
    BY <1>5, <1>8, LimitAssumption DEF Recorded
  <2>2. Append(e, now) # e
    <3>1. now \in 0 .. MaxTime
      BY LimitAssumption DEF Types
    <3>2. Len(Append(e, now)) = Len(e) + 1 /\ Len(e) \in Nat
      BY <1>5, <3>1
    <3> QED BY <3>2
  <2> QED BY <1>2, <1>5, <1>6, <2>1, <2>2 DEF Decided
<1> QED BY <1>7, <1>8

(* Types hold at first, and every step keeps them.                         *)
LEMMA InitTypes == Init => Types
<1> SUFFICES ASSUME Init PROVE Types
  OBVIOUS
<1>1. Len(<<>>) = 0 /\ <<>> \in Seq(0 .. MaxTime)
  OBVIOUS
<1> QED BY <1>1, LimitAssumption DEF Init, Types, Idle

(* A step of the clock, of a caller or of the store keeps the types.       *)
LEMMA NextTypes ==
    ASSUME Types, [Next]_vars
    PROVE  Types'
<1> USE LimitAssumption
<1>1. CASE Tick
  BY <1>1 DEF Tick, Types, Idle
<1>2. ASSUME NEW c \in Callers, NEW k \in Clients, Sample(c, k) PROVE Types'
  <2>1. /\ clock' = clock /\ windows' = windows /\ log' = log
        /\ call' = [call EXCEPT ![c] = [client |-> k, at |-> clock]]
    BY <1>2 DEF Sample
  <2>2. \A d \in Callers : call'[d] = NoCall \/ call'[d] \in [client : Clients, at : 0 .. clock']
    BY <2>1 DEF Types, Idle
  <2>3. call' = [d \in Callers |-> call'[d]]
    BY <2>1 DEF Types
  <2> QED BY <2>1, <2>2, <2>3 DEF Types, Idle
<1>3. ASSUME NEW c \in Callers, Decide(c) PROVE Types'
  <2>1. PICK k \in Clients, now \in 0 .. clock : \E p \in 0 .. Len(windows[k]), e \in Seq(0 .. MaxTime) : Decided(c, k, now, p, e)
    BY <1>3, Decisions
  <2>2. PICK p \in 0 .. Len(windows[k]), e \in Seq(0 .. MaxTime) : Decided(c, k, now, p, e)
    BY <2>1
  <2>3. e \in Seq(0 .. MaxTime) /\ now \in 0 .. MaxTime /\ Len(e) <= Limit
    BY <2>2 DEF Decided, Types
  <2>4. /\ Append(e, now) \in Seq(0 .. MaxTime) /\ Len(Append(e, now)) = Len(e) + 1
        /\ Append(log[k], now) \in Seq(0 .. MaxTime)
    BY <2>3 DEF Types
  <2>5. PICK deque \in Seq(0 .. MaxTime) : windows' = [windows EXCEPT ![k] = deque] /\ Len(deque) <= Limit
    <3>1. CASE windows' = [windows EXCEPT ![k] = e]
      BY <2>3, <3>1
    <3>2. CASE Len(e) < Limit /\ windows' = [windows EXCEPT ![k] = Append(e, now)]
      <4>1. Len(e) \in Nat
        BY <2>3
      <4>2. Len(Append(e, now)) <= Limit
        BY <2>4, <3>2, <4>1
      <4> QED BY <2>4, <3>2, <4>2
    <3> QED BY <2>2, <3>1, <3>2 DEF Decided
  <2>6. windows' \in [Clients -> Seq(0 .. MaxTime)] /\ \A j \in Clients : Len(windows'[j]) <= Limit
    BY <2>5 DEF Types
  <2>7. log' \in [Clients -> Seq(0 .. MaxTime)]
    BY <2>2, <2>4 DEF Decided, Types
  <2>8. call' = [call EXCEPT ![c] = NoCall] /\ clock' = clock
    BY <2>2 DEF Decided
  <2>9. call' = [d \in Callers |-> call'[d]]
    BY <2>8 DEF Types
  <2>10. \A d \in Callers : call'[d] = NoCall \/ call'[d] \in [client : Clients, at : 0 .. clock']
    BY <2>8 DEF Types, Idle
  <2> QED BY <2>6, <2>7, <2>8, <2>9, <2>10 DEF Types, Idle
<1>4. CASE Reset \/ Restart
  <2>1. Len(<<>>) = 0 /\ <<>> \in Seq(0 .. MaxTime)
    OBVIOUS
  <2>2. clock' = clock /\ windows' = [j \in Clients |-> <<>>] /\ log' = [j \in Clients |-> <<>>]
    BY <1>4 DEF Reset, Restart, Forget
  <2>3. call' = call \/ call' = [c \in Callers |-> NoCall]
    BY <1>4 DEF Reset, Restart
  <2>4. call' = [c \in Callers |-> call'[c]]
    BY <2>3 DEF Types
  <2>5. \A c \in Callers : call'[c] = NoCall \/ call'[c] \in [client : Clients, at : 0 .. clock']
    BY <2>2, <2>3 DEF Types, Idle
  <2> QED BY <2>1, <2>2, <2>4, <2>5 DEF Types, Idle
<1>5. CASE UNCHANGED vars
  BY <1>5 DEF vars, Types, Idle
<1> QED BY <1>1, <1>2, <1>3, <1>4, <1>5 DEF Next

(* Timestamps are within the clock, and no deque outgrows the limit,       *)
(* whoever calls is_allowed and however the calls interleave.              *)
THEOREM LimiterTypeOK == Spec => []TypeOK
<1>1. Types => TypeOK
  BY DEF Types, TypeOK
<1> QED BY <1>1, InitTypes, NextTypes, PTL DEF Spec

-----------------------------------------------------------------------------

(* Sequences at first: nothing is kept, nothing is gone.                   *)
LEMMA EmptyIsOrdered ==
    ASSUME windows = [k \in Clients |-> <<>>], log = [k \in Clients |-> <<>>]
    PROVE  DequesEndLogs /\ Ordered
<1>1. \A k \in Clients : Len(windows[k]) = 0 /\ Len(log[k]) = 0 /\ Gone(k) = 0
  BY DEF Gone
<1> QED BY <1>1 DEF DequesEndLogs, Ordered, OrderedBefore

(* On one event loop a decision keeps deques the ends of the logs, which   *)
(* stay in order.                                                          *)
LEMMA DecisionKeepsOrder ==
    ASSUME RInv, NEW c \in Callers, Decide(c)
    PROVE  DequesEndLogs' /\ Ordered' /\ OneAtATime'
<1> USE LimitAssumption
<1>1. PICK k \in Clients, now \in 0 .. clock : \E p \in 0 .. Len(windows[k]), e \in Seq(0 .. MaxTime) : Decided(c, k, now, p, e)
  BY Decisions DEF RInv
<1>2. PICK p \in 0 .. Len(windows[k]), e \in Seq(0 .. MaxTime) : Decided(c, k, now, p, e)
  BY <1>1
<1>3. /\ clock' = clock /\ clock \in Nat /\ now \in Nat /\ now <= clock
      /\ call' = [call EXCEPT ![c] = NoCall]
  BY <1>2 DEF Decided, RInv, Types
<1>4. /\ Len(e) \in Nat /\ Len(log[k]) \in Nat /\ Len(windows[k]) \in Nat
      /\ Gone(k) \in Nat /\ Gone(k) = Len(log[k]) - Len(windows[k])
  BY <1>2 DEF Decided, RInv, Types, DequesEndLogs, Gone
<1>5. \A d \in Callers : Idle(d)'
  <2>1. ~Idle(c)
    BY DEF Decide
  <2> QED BY <1>3, <2>1 DEF RInv, OneAtATime, Types, Idle
<1>6. OrderedBefore(now) /\ now < clock + 1
  <2>1. ~Idle(c) /\ call[c].at = now
    BY <1>2 DEF Decide, Decided
  <2> QED BY <1>3, <2>1 DEF RInv, Ordered
<1>7. ASSUME NEW j \in Clients, j # k
      PROVE  windows'[j] = windows[j] /\ log'[j] = log[j] /\ Gone(j)' = Gone(j)
  BY <1>2, <1>7 DEF Decided, RInv, Types, Gone
<1>8. /\ \A n \in 1 .. Gone(k) + p : log[k][n] < now - Window
      /\ \A n \in 1 .. Len(e) : e[n] = log[k][Gone(k) + p + n]
  <2>0. PICK w, l : w = windows[k] /\ l = log[k]
    OBVIOUS
  <2>1. PICK g \in Nat, lw \in Nat, le \in Nat :
          g = Gone(k) /\ lw = Len(windows[k]) /\ le = Len(e) /\ w = windows[k] /\ l = log[k]
    BY <1>4, <2>0
  <2>2. /\ \A n \in 1 .. lw : w[n] = l[g + n]
        /\ \A n \in 1 .. g : l[n] < now - Window
        /\ \A n \in 1 .. p : w[n] < now - Window
        /\ \A n \in 1 .. le : e[n] = w[p + n]
        /\ p \in Nat /\ p <= lw /\ le = lw - p
    <3>1. \A n \in 1 .. lw : w[n] = l[g + n]
      BY <2>1 DEF RInv, DequesEndLogs
    <3>2. \A n \in 1 .. g : l[n] < now - Window
      BY <1>6, <2>1 DEF OrderedBefore
    <3>3. /\ \A n \in 1 .. p : w[n] < now - Window
          /\ \A n \in 1 .. le : e[n] = w[p + n]
          /\ le = lw - p
      BY <1>2, <2>1 DEF Decided
    <3>4. p \in Nat /\ p <= lw
      BY <2>1
    <3> QED BY <3>1, <3>2, <3>3, <3>4
  <2>3. \A n \in 1 .. g + p : l[n] < now - Window
    <3> TAKE n \in 1 .. g + p
    <3>1. CASE n <= g
      BY <2>2, <3>1
    <3>2. CASE n > g
      <4>1. n - g \in 1 .. p /\ n - g \in 1 .. lw /\ g + (n - g) = n
        BY <2>2, <3>2
      <4>2. w[n - g] = l[n]
        BY <2>2, <4>1
      <4> QED BY <2>2, <4>1, <4>2
    <3> QED BY <2>2, <3>1, <3>2
  <2>4. \A n \in 1 .. le : e[n] = l[g + p + n]
    <3> TAKE n \in 1 .. le
    <3>1. p + n \in 1 .. lw /\ g + (p + n) = g + p + n
      BY <2>2
    <3> QED BY <2>2, <3>1
  <2> QED BY <2>1, <2>3, <2>4
<1>9. /\ Gone(k)' = Gone(k) + p
      /\ \A n \in 1 .. Len(windows'[k]) : windows'[k][n] = log'[k][Gone(k) + p + n]
      /\ \A n \in 1 .. Len(log'[k]) : log'[k][n] <= clock
      /\ \A n \in 1 .. Gone(k) + p : log'[k][n] < clock - Window
      /\ \A m, n \in 1 .. Len(log'[k]) : m <= n => log'[k][m] <= log'[k][n]
  <2>1. /\ \A n \in 1 .. Len(log[k]) : log[k][n] <= now /\ log[k][n] \in Nat
        /\ \A m, n \in 1 .. Len(log[k]) : m <= n => log[k][m] <= log[k][n]
    <3>1. log[k] \in Seq(0 .. MaxTime)
      BY DEF RInv, Types
    <3>2. \A n \in 1 .. Len(log[k]) : log[k][n] \in Nat
      BY <3>1
    <3>3. \A n \in 1 .. Len(log[k]) : log[k][n] <= now
      BY <1>6 DEF OrderedBefore
    <3>4. \A m, n \in 1 .. Len(log[k]) : m <= n => log[k][m] <= log[k][n]
      BY DEF RInv, Ordered
    <3> QED BY <3>2, <3>3, <3>4
  <2>2. Len(e) = Len(windows[k]) - p /\ e \in Seq(0 .. MaxTime) /\ now \in 0 .. MaxTime
    BY <1>2 DEF Decided, RInv, Types
  <2>3. CASE windows' = [windows EXCEPT ![k] = e] /\ log' = log
    <3>1. windows'[k] = e /\ log'[k] = log[k]
      BY <2>3 DEF RInv, Types
    <3>2. Gone(k)' = Len(log[k]) - Len(e)
      BY <3>1 DEF Gone
    <3>3. Gone(k)' = Gone(k) + p
      BY <1>4, <2>2, <3>2
    <3>4. \A n \in 1 .. Len(log[k]) : log[k][n] <= clock
      BY <1>3, <2>1
    <3>0. PICK l : l = log[k]
      OBVIOUS
    <3>5. PICK g \in Nat, L \in Nat : g = Gone(k) + p /\ L = Len(log[k]) /\ l = log[k] /\ g <= L
      <4>1. Gone(k) + p \in Nat /\ Gone(k) + p <= Len(log[k])
        BY <1>4, <2>2
      <4> QED BY <1>4, <3>0, <4>1
    <3>6. \A n \in 1 .. g : l[n] < clock - Window
      <4> TAKE n \in 1 .. g
      <4>1. n \in 1 .. L
        BY <3>5
      <4>2. l[n] \in Nat /\ l[n] < now - Window
        BY <1>8, <2>1, <3>5, <4>1
      <4> QED BY <1>3, <4>2
    <3>7. \A n \in 1 .. Len(e) : e[n] = log[k][g + n]
      BY <1>8, <3>5
    <3> QED BY <2>1, <3>1, <3>3, <3>4, <3>5, <3>6, <3>7
  <2>4. CASE /\ windows' = [windows EXCEPT ![k] = Append(e, now)]
             /\ log' = [log EXCEPT ![k] = Append(log[k], now)]
    <3>1. windows'[k] = Append(e, now) /\ log'[k] = Append(log[k], now)
      BY <2>4 DEF RInv, Types
    <3>2. /\ Len(windows'[k]) = Len(e) + 1
          /\ \A n \in 1 .. Len(e) : windows'[k][n] = e[n]
          /\ windows'[k][Len(e) + 1] = now
      <4>1. /\ Len(Append(e, now)) = Len(e) + 1
            /\ \A n \in 1 .. Len(e) : Append(e, now)[n] = e[n]
            /\ Append(e, now)[Len(e) + 1] = now
        BY <2>2, AppendProperties
      <4> QED BY <3>1, <4>1
    <3>3. /\ Len(log'[k]) = Len(log[k]) + 1
          /\ \A n \in 1 .. Len(log[k]) : log'[k][n] = log[k][n]
          /\ log'[k][Len(log[k]) + 1] = now
      BY <2>2, <3>1, AppendProperties DEF RInv, Types
    <3>4. Gone(k)' = Len(log'[k]) - Len(windows'[k])
      BY DEF Gone
    <3>0. PICK l, v : l = log'[k] /\ v = windows'[k]
      OBVIOUS
    <3>5. PICK g \in Nat, L \in Nat, le \in Nat :
            /\ g = Gone(k) + p /\ L = Len(log[k]) /\ le = Len(e)
            /\ l = log'[k] /\ v = windows'[k]
      <4>1. Gone(k) + p \in Nat
        BY <1>4
      <4> QED BY <1>4, <3>0, <4>1
    <3>6. g + le = L
      BY <1>4, <2>2, <3>5
    <3>7. /\ \A n \in 1 .. le : v[n] = l[g + n]
          /\ \A n \in 1 .. L : l[n] <= now /\ l[n] \in Nat
          /\ \A m, n \in 1 .. L : m <= n => l[m] <= l[n]
          /\ \A n \in 1 .. g : l[n] < now - Window
          /\ l[L + 1] = now /\ v[le + 1] = now
      <4>1. /\ \A n \in 1 .. L : l[n] = log[k][n]
            /\ \A n \in 1 .. le : v[n] = e[n]
            /\ l[L + 1] = now /\ v[le + 1] = now
        BY <3>2, <3>3, <3>5
      <4>2. \A n \in 1 .. le : v[n] = l[g + n]
        <5> TAKE n \in 1 .. le
        <5>1. g + n \in 1 .. L
          BY <3>6
        <5>2. e[n] = log[k][g + n]
          BY <1>8, <3>5
        <5> QED BY <4>1, <5>1, <5>2
      <4>3. \A n \in 1 .. g : l[n] < now - Window
        <5> TAKE n \in 1 .. g
        <5>1. n \in 1 .. L
          BY <3>6
        <5>2. log[k][n] < now - Window
          BY <1>8, <3>5
        <5> QED BY <4>1, <5>1, <5>2
      <4>4. /\ \A n \in 1 .. L : l[n] <= now /\ l[n] \in Nat
            /\ \A m, n \in 1 .. L : m <= n => l[m] <= l[n]
        BY <2>1, <3>5, <4>1
      <4> QED BY <4>1, <4>2, <4>3, <4>4
    <3>8. \A n \in 1 .. le + 1 : v[n] = l[g + n]
      <4> TAKE n \in 1 .. le + 1
      <4>1. CASE n = le + 1
        <5>1. g + n = L + 1
          BY <3>6, <4>1
        <5> QED BY <3>7, <4>1, <5>1
      <4>2. CASE n # le + 1
        BY <3>7, <4>2
      <4> QED BY <4>1, <4>2
    <3>9. \A n \in 1 .. L + 1 : l[n] <= now /\ l[n] \in Nat
      BY <1>3, <3>7
    <3>10. \A m, n \in 1 .. L + 1 : m <= n => l[m] <= l[n]
      <4> TAKE m, n \in 1 .. L + 1
      <4>1. CASE n = L + 1
        BY <3>7, <3>9, <4>1
      <4>2. CASE n # L + 1
        BY <3>7, <4>2
      <4> QED BY <4>1, <4>2
    <3>11. Gone(k)' = g
      BY <3>2, <3>3, <3>4, <3>5, <3>6
    <3>12. \A n \in 1 .. L + 1 : l[n] <= clock
      BY <1>3, <3>9
    <3>13. \A n \in 1 .. g : l[n] < clock - Window
      <4> TAKE n \in 1 .. g
      <4>1. n \in 1 .. L + 1
        BY <3>6
      <4> QED BY <1>3, <3>7, <3>9, <4>1
    <3> QED BY <3>2, <3>3, <3>5, <3>8, <3>10, <3>11, <3>12, <3>13
  <2> QED BY <1>2, <2>3, <2>4 DEF Decided
<1>10. DequesEndLogs'
  <2>1. ASSUME NEW j \in Clients
        PROVE  /\ Gone(j)' \in Nat
               /\ \A n \in 1 .. Len(windows'[j]) : windows'[j][n] = log'[j][Gone(j)' + n]
    <3>1. CASE j = k
      <4>1. Gone(k)' \in Nat
        BY <1>4, <1>9
      <4> QED BY <1>9, <3>1, <4>1
    <3>2. CASE j # k
      BY <1>7, <3>2 DEF RInv, DequesEndLogs
    <3> QED BY <3>1, <3>2
  <2> QED BY <2>1 DEF DequesEndLogs
<1>11. OrderedBefore(clock)'
  <2>1. ASSUME NEW j \in Clients
        PROVE  /\ \A n \in 1 .. Len(log'[j]) : log'[j][n] <= clock
               /\ \A n \in 1 .. Gone(j)' : log'[j][n] < clock - Window
    <3>1. CASE j = k
      BY <1>9, <3>1
    <3>2. CASE j # k
      BY <1>3, <1>7, <3>2 DEF RInv, Ordered, OrderedBefore
    <3> QED BY <3>1, <3>2
  <2> QED BY <1>3, <2>1 DEF OrderedBefore
<1>12. \A j \in Clients : \A m, n \in 1 .. Len(log'[j]) : m <= n => log'[j][m] <= log'[j][n]
  BY <1>7, <1>9 DEF RInv, Ordered
<1>13. Ordered'
  BY <1>5, <1>11, <1>12 DEF Ordered
<1>14. OneAtATime'
  BY <1>5 DEF OneAtATime
<1> QED BY <1>10, <1>13, <1>14

(* On one event loop every step keeps the invariant.                       *)
LEMMA NextKeepsOrder ==
    ASSUME EventLoop, RInv, [Next]_vars
    PROVE  RInv'
<1> USE LimitAssumption
<1>1. Types'
  BY NextTypes DEF RInv
<1>2. CASE Tick
  <2>1. windows' = windows /\ log' = log /\ call' = call /\ clock' = clock + 1 /\ clock \in Nat
    BY <1>2 DEF Tick, RInv, Types
  <2>2. DequesEndLogs' /\ OneAtATime'
    BY <2>1 DEF RInv, DequesEndLogs, OneAtATime, Gone, Idle
  <2>3. OrderedBefore(clock)'
    <3>1. \A k \in Clients : \A n \in 1 .. Len(log[k]) : log[k][n] \in Nat
      BY DEF RInv, Types
    <3>2. \A k \in Clients : Gone(k) <= Len(log[k])
      BY DEF RInv, Types, Gone
    <3>3. ASSUME NEW k \in Clients
          PROVE  /\ \A n \in 1 .. Len(log[k]) : log[k][n] <= clock + 1
                 /\ \A n \in 1 .. Gone(k) : log[k][n] < clock + 1 - Window
      <4>0. PICK l : l = log[k]
        OBVIOUS
      <4>1. PICK g \in Nat, L \in Nat : g = Gone(k) /\ L = Len(log[k]) /\ l = log[k]
        <5>1. Len(log[k]) \in Nat
          BY DEF RInv, Types
        <5>2. Gone(k) \in Nat
          BY DEF RInv, DequesEndLogs
        <5> QED BY <4>0, <5>1, <5>2
      <4>2. /\ g <= L /\ \A n \in 1 .. L : l[n] \in Nat /\ l[n] <= clock
            /\ \A n \in 1 .. g : l[n] < clock - Window
        BY <3>1, <3>2, <4>1 DEF RInv, Ordered, OrderedBefore
      <4>3. \A n \in 1 .. g : n \in 1 .. L
        BY <4>2
      <4> QED BY <2>1, <4>1, <4>2, <4>3
    <3> QED BY <2>1, <3>3 DEF OrderedBefore, Gone
  <2>4. Ordered'
    BY <2>1, <2>3 DEF RInv, Ordered, OrderedBefore, Gone, Idle
  <2> QED BY <1>1, <2>2, <2>4 DEF RInv
<1>3. ASSUME NEW c \in Callers, NEW k \in Clients, Sample(c, k) PROVE RInv'
  <2>1. /\ windows' = windows /\ log' = log /\ clock' = clock
        /\ call' = [call EXCEPT ![c] = [client |-> k, at |-> clock]]
        /\ \A d \in Callers : Idle(d)
    BY <1>3 DEF Sample
  <2>2. \A d \in Callers : ~Idle(d)' => d = c /\ call'[d].at = clock
    BY <2>1 DEF RInv, Types, Idle
  <2>3. DequesEndLogs' /\ OneAtATime'
    BY <2>1, <2>2 DEF RInv, DequesEndLogs, OneAtATime, Gone
  <2>4. \A d \in Callers : ~Idle(d)' => OrderedBefore(call[d].at)'
    BY <2>1, <2>2 DEF RInv, Ordered, OrderedBefore, Gone
  <2>5. OrderedBefore(clock)'
    BY <2>1 DEF RInv, Ordered, OrderedBefore, Gone
  <2>6. Ordered'
    BY <2>1, <2>4, <2>5 DEF RInv, Ordered
  <2> QED BY <1>1, <2>3, <2>6 DEF RInv
<1>4. ASSUME NEW c \in Callers, Decide(c) PROVE RInv'
  BY <1>1, <1>4, DecisionKeepsOrder DEF RInv
<1>5. CASE Reset \/ Restart
  <2>1. windows' = [k \in Clients |-> <<>>] /\ log' = [k \in Clients |-> <<>>]
    BY <1>5 DEF Reset, Restart, Forget
  <2>2. \A k \in Clients : Len(windows'[k]) = 0 /\ Len(log'[k]) = 0 /\ Gone(k)' = 0
    BY <2>1 DEF Gone
  <2>3. DequesEndLogs' /\ Ordered'
    BY <2>2 DEF DequesEndLogs, Ordered, OrderedBefore
  <2>4. OneAtATime'
    BY <1>5 DEF Reset, Restart, RInv, OneAtATime, Idle
  <2> QED BY <1>1, <2>3, <2>4 DEF RInv
<1>6. CASE UNCHANGED vars
  <2>1. windows' = windows /\ log' = log /\ call' = call /\ clock' = clock
    BY <1>6 DEF vars
  <2>2. DequesEndLogs' /\ Ordered' /\ OneAtATime'
    BY <2>1 DEF RInv, DequesEndLogs, Ordered, OrderedBefore, OneAtATime, Gone, Idle
  <2> QED BY <1>1, <2>2 DEF RInv
<1> QED BY <1>2, <1>3, <1>4, <1>5, <1>6 DEF Next

(* The inductive invariant: calls come one at a time, so each deque is the *)
(* end of its client's log, in order, and what was evicted is out of the   *)
(* window of every call to come.                                           *)
THEOREM LimiterInductive == EventLoop => (Spec => []RInv)
<1> SUFFICES ASSUME EventLoop PROVE Spec => []RInv
  OBVIOUS
<1>1. Init => RInv
  <2> SUFFICES ASSUME Init PROVE RInv
    OBVIOUS
  <2>1. \A c \in Callers : Idle(c)
    BY DEF Init, Idle
  <2> QED BY <2>1, InitTypes, EmptyIsOrdered DEF Init, RInv, OneAtATime
<1> QED BY <1>1, NextKeepsOrder, PTL DEF Spec

-----------------------------------------------------------------------------

(* The admissions of a client within an interval are finitely many.        *)
LEMMA AdmittedFinite ==
    ASSUME NEW L \in Nat, NEW S \in SUBSET (1 .. L)
    PROVE  IsFiniteSet(S) /\ Cardinality(S) \in Nat
<1>1. IsFiniteSet(1 .. L)
  BY FS_Interval
<1>2. IsFiniteSet(S)
  BY <1>1, FS_Subset
<1> QED BY <1>2, FS_CardinalityType

(* A set of positions between two bounds has no more elements than fit.    *)
LEMMA AtMost ==
    ASSUME NEW a \in Nat, NEW b \in Nat, a <= b, NEW S \in SUBSET (a + 1 .. b)
    PROVE  Cardinality(S) \in Nat /\ Cardinality(S) <= b - a
<1>1. PICK d \in Int : d = a + 1
  OBVIOUS
<1>2. IsFiniteSet(d .. b) /\ Cardinality(d .. b) = IF d > b THEN 0 ELSE b - d + 1
  BY FS_Interval
<1>3. IsFiniteSet(S) /\ Cardinality(S) <= Cardinality(d .. b)
  BY <1>1, <1>2, FS_Subset
<1>4. Cardinality(S) \in Nat
  BY <1>3, FS_CardinalityType
<1>5. Cardinality(d .. b) = b - a
  BY <1>1, <1>2
<1> QED BY <1>3, <1>4, <1>5

(* A set of positions that contains all between two bounds has at least as *)
(* many elements as fit.                                                   *)
LEMMA AtLeast ==
    ASSUME NEW a \in Nat, NEW b \in Nat, a <= b,
           NEW S \in SUBSET (1 .. b), \A n \in a + 1 .. b : n \in S
    PROVE  Cardinality(S) \in Nat /\ Cardinality(S) >= b - a
<1>1. PICK d \in Int : d = a + 1
  OBVIOUS
<1>2. IsFiniteSet(S) /\ Cardinality(S) \in Nat
  BY AdmittedFinite
<1>3. d .. b \in SUBSET S
  BY <1>1
<1>4. Cardinality(d .. b) <= Cardinality(S)
  BY <1>2, <1>3, FS_Subset
<1>5. Cardinality(d .. b) = IF d > b THEN 0 ELSE b - d + 1
  BY FS_Interval
<1>6. Cardinality(d .. b) = b - a
  BY <1>1, <1>5
<1> QED BY <1>2, <1>4, <1>6

(* An admission at time now leaves at most Limit of them in any interval   *)
(* one window long that contains it: all are still in the deque.           *)
LEMMA AdmissionFits ==
    ASSUME RInv, NEW c \in Callers, NEW k \in Clients, NEW now \in 0 .. clock,
           NEW p \in 0 .. Len(windows[k]), NEW e \in Seq(0 .. MaxTime),
           Decided(c, k, now, p, e), ~Idle(c),
           Len(e) < Limit, log' = [log EXCEPT ![k] = Append(log[k], now)],
           NEW t \in Nat, t <= now, now <= t + Window
    PROVE  Admitted(k, t, t + Window)' <= Limit
<1> USE LimitAssumption
<1>1. /\ log[k] \in Seq(0 .. MaxTime) /\ now \in 0 .. MaxTime /\ now \in Nat
      /\ log'[k] = Append(log[k], now)
  BY DEF RInv, Types
<1>0. PICK w, l : w = windows[k] /\ l = log[k]
  OBVIOUS
<1>2. PICK L \in Nat, g \in Nat, lw \in Nat :
        /\ L = Len(log[k]) /\ g = Gone(k) /\ w = windows[k] /\ l = log[k] /\ lw = Len(windows[k])
  <2>1. Len(log[k]) \in Nat /\ Len(windows[k]) \in Nat
    BY DEF RInv, Types
  <2>2. Gone(k) \in Nat
    BY DEF RInv, DequesEndLogs
  <2> QED BY <1>0, <2>1, <2>2
<1>3. /\ \A n \in 1 .. L : l[n] \in Nat
      /\ \A n \in 1 .. g : l[n] < now - Window
      /\ \A n \in 1 .. lw : w[n] = l[g + n]
      /\ g = L - lw
  <2>1. OrderedBefore(now)
    BY DEF RInv, Ordered, Decided
  <2>2. \A n \in 1 .. g : l[n] < now - Window
    BY <1>2, <2>1 DEF OrderedBefore
  <2>3. \A n \in 1 .. lw : w[n] = l[g + n]
    BY <1>2 DEF RInv, DequesEndLogs
  <2>4. g = L - lw
    BY <1>2 DEF Gone
  <2>5. \A n \in 1 .. L : l[n] \in Nat
    BY <1>1, <1>2
  <2> QED BY <2>2, <2>3, <2>4, <2>5
<1>4. /\ \A n \in 1 .. p : w[n] < now - Window
      /\ Len(e) = lw - p
  BY <1>2 DEF Decided
<1>5. /\ Len(log'[k]) = L + 1 /\ DOMAIN log'[k] = 1 .. L + 1
      /\ \A n \in 1 .. L : log'[k][n] = l[n]
  <2>1. /\ Len(Append(log[k], now)) = Len(log[k]) + 1
        /\ \A n \in 1 .. Len(log[k]) : Append(log[k], now)[n] = log[k][n]
        /\ Append(log[k], now) \in Seq(0 .. MaxTime)
    BY <1>1, AppendProperties
  <2>2. DOMAIN Append(log[k], now) = 1 .. Len(log[k]) + 1
    BY <2>1
  <2> QED BY <1>1, <1>2, <2>1, <2>2
<1>6. \A n \in 1 .. g + p : l[n] < now - Window
  <2> TAKE n \in 1 .. g + p
  <2>1. p \in Nat /\ p <= lw
    BY <1>2
  <2>2. CASE n <= g
    BY <1>3, <2>2
  <2>3. CASE n > g
    <3>1. n - g \in 1 .. p /\ n - g \in 1 .. lw /\ g + (n - g) = n
      BY <2>1, <2>3
    <3> QED BY <1>3, <1>4, <3>1
  <2> QED BY <2>1, <2>2, <2>3
<1>7. PICK a \in Nat, b \in Nat : a = g + p /\ b = L + 1 /\ a < b /\ b - a = Len(e) + 1
  <2>1. p \in Nat /\ p <= lw
    BY <1>2
  <2>2. g + p \in Nat /\ L + 1 \in Nat /\ g + p < L + 1 /\ L + 1 - (g + p) = Len(e) + 1
    BY <1>3, <1>4, <2>1
  <2> QED BY <2>2
<1>8. PICK S : S = {n \in DOMAIN log'[k] : log'[k][n] \in t .. t + Window}
  OBVIOUS
<1>9. S \in SUBSET (a + 1 .. b)
  <2>1. ASSUME NEW n \in S PROVE n \in a + 1 .. b
    <3>1. n \in 1 .. L + 1 /\ log'[k][n] \in t .. t + Window
      BY <1>5, <1>8
    <3>2. ~(n <= a)
      <4> SUFFICES ASSUME n <= a PROVE FALSE
        OBVIOUS
      <4>1. n \in 1 .. L /\ n \in 1 .. g + p
        BY <1>7, <3>1
      <4>2. PICK x \in Nat : x = l[n]
        BY <1>3, <4>1
      <4>3. x < now - Window /\ x \in t .. t + Window
        BY <1>5, <1>6, <3>1, <4>1, <4>2
      <4> QED BY <4>2, <4>3
    <3> QED BY <1>7, <3>1, <3>2
  <2> QED BY <2>1
<1>10. Cardinality(S) \in Nat /\ Cardinality(S) <= b - a
  <2>1. a <= b
    BY <1>7
  <2> QED BY <1>9, <2>1, AtMost
<1>11. Len(e) \in Nat /\ Len(e) + 1 <= Limit
  <2>1. PICK le \in Nat : le = Len(e)
    OBVIOUS
  <2> QED BY <2>1
<1>12. Cardinality(S) <= Limit
  BY <1>7, <1>10, <1>11
<1>13. Admitted(k, t, t + Window)' = Cardinality(S)
  BY <1>8 DEF Admitted
<1> QED BY <1>12, <1>13

(* Admissions that nobody adds to or forgets are as many as before.        *)
LEMMA AdmittedUnchanged ==
    ASSUME NEW k \in Clients, log'[k] = log[k], NEW t, NEW u
    PROVE  Admitted(k, t, u)' = Admitted(k, t, u)
<1> DEFINE In(l) == Cardinality({n \in DOMAIN l : l[n] \in t .. u})
<1>1. Admitted(k, t, u) = In(log[k])
  BY DEF Admitted
<1>2. Admitted(k, t, u)' = In(log'[k])
  BY DEF Admitted
<1> HIDE DEF In
<1> QED BY <1>1, <1>2

(* Of nothing, nothing is in the interval.                                 *)
LEMMA NothingAdmitted ==
    ASSUME NEW l, NEW t, NEW u, \A n \in DOMAIN l : ~(l[n] \in t .. u)
    PROVE  Cardinality({n \in DOMAIN l : l[n] \in t .. u}) = 0
<1>1. {n \in DOMAIN l : l[n] \in t .. u} = {}
  OBVIOUS
<1> QED BY <1>1, FS_EmptySet

(* An admission outside an interval leaves as many in it as before.        *)
LEMMA AdmittedElsewhere ==
    ASSUME Types, NEW k \in Clients, NEW now \in Nat, NEW t \in Nat, NEW u \in Nat,
           log' = [log EXCEPT ![k] = Append(log[k], now)], now <= MaxTime,
           ~(t <= now /\ now <= u)
    PROVE  Admitted(k, t, u)' = Admitted(k, t, u)
<1>1. log[k] \in Seq(0 .. MaxTime) /\ now \in 0 .. MaxTime /\ log'[k] = Append(log[k], now)
  BY DEF Types
<1>2. /\ Append(log[k], now) \in Seq(0 .. MaxTime)
      /\ Len(Append(log[k], now)) = Len(log[k]) + 1
      /\ \A n \in 1 .. Len(log[k]) : Append(log[k], now)[n] = log[k][n]
      /\ Append(log[k], now)[Len(log[k]) + 1] = now
  BY <1>1, AppendProperties
<1>3. PICK L \in Nat : L = Len(log[k])
  BY <1>1
<1>4. DOMAIN log[k] = 1 .. L /\ DOMAIN log'[k] = 1 .. L + 1
  BY <1>1, <1>2, <1>3
<1>5. /\ \A n \in 1 .. L : log'[k][n] = log[k][n]
      /\ ~(log'[k][L + 1] \in t .. u)
  BY <1>1, <1>2, <1>3
<1>6. /\ \A n \in 1 .. L + 1 : n = L + 1 \/ n \in 1 .. L
      /\ \A n \in 1 .. L : n \in 1 .. L + 1
  OBVIOUS
<1>7. {n \in 1 .. L + 1 : log'[k][n] \in t .. u} = {n \in 1 .. L : log[k][n] \in t .. u}
  <2>1. PICK before, after, interval : before = log[k] /\ after = log'[k] /\ interval = t .. u
    OBVIOUS
  <2>2. PICK I, J, z : I = 1 .. L /\ J = 1 .. L + 1 /\ z = L + 1
    OBVIOUS
  <2>3. /\ \A n \in J : n = z \/ n \in I
        /\ \A n \in I : n \in J /\ after[n] = before[n]
        /\ ~(after[z] \in interval)
    <3>1. \A n \in J : n = z \/ n \in I
      BY <1>6, <2>2
    <3>2. \A n \in I : n \in J
      BY <1>6, <2>2
    <3>3. \A n \in I : after[n] = before[n]
      BY <1>5, <2>1, <2>2
    <3>4. ~(after[z] \in interval)
      <4>1. after[z] = log'[k][L + 1]
        BY <2>1, <2>2
      <4>2. ~(log'[k][L + 1] \in interval)
        BY <1>5, <2>1, Zenon
      <4> QED BY <4>1, <4>2
    <3> QED BY <3>1, <3>2, <3>3, <3>4
  <2>4. {n \in J : after[n] \in interval} = {n \in I : before[n] \in interval}
    BY <2>3, Zenon
  <2> QED BY <2>1, <2>2, <2>4
<1> QED BY <1>4, <1>7 DEF Admitted

(* In no interval one window long has any client been admitted more often  *)
(* than the limit, if is_allowed is called from one event loop.            *)
THEOREM LimitIsKept == EventLoop => (Spec => []NeverOverLimit)
<1> USE LimitAssumption
<1> SUFFICES ASSUME EventLoop PROVE Spec => []NeverOverLimit
  OBVIOUS
<1>1. Init => NeverOverLimit
  <2> SUFFICES ASSUME Init, NEW k \in Clients, NEW t \in 0 .. clock
               PROVE  Admitted(k, t, t + Window) <= Limit
    BY DEF NeverOverLimit
  <2>1. DOMAIN log[k] = {}
    BY DEF Init
  <2>2. Admitted(k, t, t + Window) = 0
    BY <2>1, NothingAdmitted DEF Admitted
  <2> QED BY <2>2
<1>2. RInv => \A k \in Clients : \A n \in DOMAIN log[k] : log[k][n] <= clock
  <2> SUFFICES ASSUME RInv, NEW k \in Clients, NEW n \in DOMAIN log[k] PROVE log[k][n] <= clock
    OBVIOUS
  <2>1. log[k] \in Seq(0 .. MaxTime)
    BY DEF RInv, Types
  <2>2. n \in 1 .. Len(log[k])
    BY <2>1
  <2> QED BY <2>2 DEF RInv, Ordered, OrderedBefore
<1>3. ASSUME RInv, NeverOverLimit, [Next]_vars PROVE NeverOverLimit'
  <2>1. CASE Tick
    <3>1. clock' = clock + 1 /\ log' = log /\ clock \in Nat
      BY <1>3, <2>1 DEF Tick, RInv, Types
    <3> SUFFICES ASSUME NEW k \in Clients, NEW t \in 0 .. clock + 1
                 PROVE  Admitted(k, t, t + Window)' <= Limit
      BY <3>1 DEF NeverOverLimit
    <3>2. Admitted(k, t, t + Window)' = Admitted(k, t, t + Window)
      BY <3>1, AdmittedUnchanged
    <3>3. CASE t = clock + 1
      <4>1. \A n \in DOMAIN log[k] : log[k][n] \in Nat /\ log[k][n] <= clock
        BY <1>2, <1>3, <3>1 DEF RInv, Types
      <4>2. \A n \in DOMAIN log[k] : ~(log[k][n] \in t .. t + Window)
        BY <3>1, <3>3, <4>1
      <4>3. Admitted(k, t, t + Window) = 0
        BY <4>2, NothingAdmitted DEF Admitted
      <4> QED BY <3>2, <4>3
    <3>4. CASE t # clock + 1
      <4>1. t \in 0 .. clock
        BY <3>1, <3>4
      <4> QED BY <1>3, <3>2, <4>1 DEF NeverOverLimit
    <3> QED BY <3>3, <3>4
  <2>2. ASSUME NEW c \in Callers, Decide(c) PROVE NeverOverLimit'
    <3>1. PICK k \in Clients, now \in 0 .. clock :
            \E p \in 0 .. Len(windows[k]), e \in Seq(0 .. MaxTime) : Decided(c, k, now, p, e)
      BY <1>3, <2>2, Decisions DEF RInv
    <3>2. PICK p \in 0 .. Len(windows[k]), e \in Seq(0 .. MaxTime) : Decided(c, k, now, p, e)
      BY <3>1
    <3>3. clock' = clock /\ ~Idle(c)
      BY <2>2, <3>2 DEF Decided, Decide
    <3>4. ASSUME NEW j \in Clients, NEW t \in 0 .. clock, log'[j] = log[j]
          PROVE  Admitted(j, t, t + Window)' <= Limit
      <4>1. Admitted(j, t, t + Window)' = Admitted(j, t, t + Window)
        BY <3>4, AdmittedUnchanged
      <4> QED BY <1>3, <4>1 DEF NeverOverLimit
    <3>5. ASSUME log' = [log EXCEPT ![k] = Append(log[k], now)], Len(e) < Limit,
                 NEW t \in 0 .. clock
          PROVE  Admitted(k, t, t + Window)' <= Limit
      <4>0. now \in Nat /\ t \in Nat /\ t + Window \in Nat /\ now <= MaxTime
        BY <1>3 DEF RInv, Types
      <4>1. CASE t <= now /\ now <= t + Window
        BY <1>3, <3>2, <3>3, <3>5, <4>0, <4>1, AdmissionFits
      <4>2. CASE ~(t <= now /\ now <= t + Window)
        <5>1. Admitted(k, t, t + Window)' = Admitted(k, t, t + Window)
          BY <1>3, <3>5, <4>0, <4>2, AdmittedElsewhere DEF RInv
        <5> QED BY <1>3, <5>1 DEF NeverOverLimit
      <4> QED BY <4>1, <4>2
    <3>6. ASSUME NEW j \in Clients, NEW t \in 0 .. clock PROVE Admitted(j, t, t + Window)' <= Limit
      <4>1. CASE log'[j] = log[j]
        BY <3>4, <4>1
      <4>2. CASE log'[j] # log[j]
        <5>1. log' = [log EXCEPT ![k] = Append(log[k], now)] /\ Len(e) < Limit
          BY <3>2, <4>2 DEF Decided
        <5>2. j = k
          BY <1>3, <4>2, <5>1 DEF RInv, Types
        <5> QED BY <3>5, <5>1, <5>2
      <4> QED BY <4>1, <4>2
    <3> QED BY <3>3, <3>6 DEF NeverOverLimit
  <2>3. CASE log' = log /\ clock' = clock
    <3> SUFFICES ASSUME NEW k \in Clients, NEW t \in 0 .. clock
                 PROVE  Admitted(k, t, t + Window)' <= Limit
      BY <2>3 DEF NeverOverLimit
    <3>1. Admitted(k, t, t + Window)' = Admitted(k, t, t + Window)
      BY <2>3, AdmittedUnchanged
    <3> QED BY <1>3, <3>1 DEF NeverOverLimit
  <2>4. CASE Reset \/ Restart
    <3> SUFFICES ASSUME NEW k \in Clients, NEW t \in 0 .. clock
                 PROVE  Admitted(k, t, t + Window)' <= Limit
      BY <2>4 DEF Reset, Restart, Forget, NeverOverLimit
    <3>1. DOMAIN log'[k] = {}
      BY <2>4 DEF Reset, Restart, Forget
    <3>2. Admitted(k, t, t + Window)' = 0
      BY <3>1, NothingAdmitted DEF Admitted
    <3> QED BY <3>2
  <2>5. ASSUME NEW c \in Callers, NEW k \in Clients, Sample(c, k) PROVE NeverOverLimit'
    BY <2>3, <2>5 DEF Sample
  <2>6. CASE UNCHANGED vars
    BY <2>3, <2>6 DEF vars
  <2> QED BY <1>3, <2>1, <2>2, <2>4, <2>5, <2>6 DEF Next
<1> QED BY <1>1, <1>3, LimiterInductive, PTL DEF Spec

(* A request is refused only if the same client used the limit up since    *)
(* the beginning of the window that the request looks at.                  *)
THEOREM RefusalsEarned == EventLoop => (Spec => RefusalsAreEarned)
<1> USE LimitAssumption
<1> SUFFICES ASSUME EventLoop PROVE Spec => RefusalsAreEarned
  OBVIOUS
<1>1. ASSUME RInv, NEW c \in Callers, Decide(c), log' = log
      PROVE  Admitted(call[c].client, call[c].at - Window, clock) >= Limit
  <2>1. PICK k \in Clients, now \in 0 .. clock :
          \E p \in 0 .. Len(windows[k]), e \in Seq(0 .. MaxTime) : Decided(c, k, now, p, e)
    BY <1>1, Decisions DEF RInv
  <2>2. PICK p \in 0 .. Len(windows[k]), e \in Seq(0 .. MaxTime) : Decided(c, k, now, p, e)
    BY <2>1
  <2>3. call[c].client = k /\ call[c].at = now
    BY <2>2 DEF Decided
  <2>4. log[k] \in Seq(0 .. MaxTime)
    BY <1>1 DEF RInv, Types
  <2>5. Len(e) >= Limit
    <3>1. CASE log' = [log EXCEPT ![k] = Append(log[k], now)]
      <4>1. log[k] = Append(log[k], now) /\ now \in 0 .. MaxTime
        BY <1>1, <3>1 DEF RInv, Types
      <4>2. Len(Append(log[k], now)) = Len(log[k]) + 1 /\ Len(log[k]) \in Nat
        BY <2>4, <4>1, AppendProperties
      <4>3. Len(Append(log[k], now)) = Len(log[k])
        BY <4>1
      <4> QED BY <4>2, <4>3
    <3> QED BY <2>2, <3>1 DEF Decided
  <2>6. PICK w, l : w = windows[k] /\ l = log[k]
    OBVIOUS
  <2>7. PICK L \in Nat, g \in Nat, lw \in Nat :
          L = Len(log[k]) /\ g = Gone(k) /\ lw = Len(windows[k]) /\ g = L - lw
    <3>1. Len(log[k]) \in Nat /\ Len(windows[k]) \in Nat
      BY <1>1 DEF RInv, Types
    <3>2. Gone(k) \in Nat /\ Gone(k) = Len(log[k]) - Len(windows[k])
      BY <1>1 DEF RInv, DequesEndLogs, Gone
    <3> QED BY <3>1, <3>2
  <2>8. PICK a \in Nat : a = g + p /\ a <= L /\ L - a = Len(e) /\ L - a = lw - p
    <3>1. p \in Nat /\ p <= lw
      BY <2>7
    <3>2. Len(e) = lw - p
      BY <2>2, <2>7 DEF Decided
    <3>3. g + p \in Nat /\ g + p <= L /\ L - (g + p) = Len(e) /\ L - (g + p) = lw - p
      BY <2>7, <3>1, <3>2
    <3> QED BY <3>3
  <2>9. PICK S : S = {n \in DOMAIN log[k] : log[k][n] \in (now - Window) .. clock}
    OBVIOUS
  <2>10. DOMAIN log[k] = 1 .. L /\ S \in SUBSET (1 .. L)
    BY <2>4, <2>7, <2>9
  <2>11. ASSUME NEW n \in a + 1 .. L PROVE n \in S
    <3>1. p + 1 \in 1 .. lw /\ n \in 1 .. L /\ a + 1 \in 1 .. L /\ a + 1 <= n
      <4>1. p \in Nat
        BY <2>7
      <4>2. n \in 1 .. L /\ a + 1 \in 1 .. L /\ a + 1 <= n
        OBVIOUS
      <4>3. L - a >= 1
        BY <4>2
      <4>4. lw - p >= 1
        BY <2>8, <4>3
      <4> QED BY <4>1, <4>2, <4>4
    <3>2. w[p + 1] >= now - Window
      <4>1. p < lw
        BY <3>1
      <4> QED BY <2>2, <2>6, <2>7, <4>1 DEF Decided
    <3>3. w[p + 1] = l[a + 1]
      <4>1. w[p + 1] = l[g + (p + 1)]
        BY <1>1, <2>6, <2>7, <3>1 DEF RInv, DequesEndLogs
      <4>2. g + (p + 1) = a + 1
        BY <2>8
      <4> QED BY <4>1, <4>2
    <3>4. l[a + 1] <= l[n] /\ l[n] <= clock
      BY <1>1, <2>6, <2>7, <3>1 DEF RInv, Ordered, OrderedBefore
    <3>5. l[a + 1] \in Nat /\ l[n] \in Nat
      <4>1. \A m \in 1 .. Len(log[k]) : log[k][m] \in Nat
        BY <2>4
      <4> QED BY <2>6, <2>7, <3>1, <4>1
    <3>6. l[n] \in (now - Window) .. clock
      <4>1. PICK x \in Nat, y \in Nat : x = l[a + 1] /\ y = l[n]
        BY <3>5
      <4>2. clock \in Nat /\ x >= now - Window /\ x <= y /\ y <= clock
        BY <1>1, <3>2, <3>3, <3>4, <4>1 DEF RInv, Types
      <4>3. y \in (now - Window) .. clock
        BY <4>2
      <4> QED BY <4>1, <4>3
    <3> QED BY <2>6, <2>9, <2>10, <3>1, <3>6
  <2>12. Cardinality(S) \in Nat /\ Cardinality(S) >= L - a
    BY <2>8, <2>10, <2>11, AtLeast
  <2>13. Admitted(k, now - Window, clock) = Cardinality(S)
    BY <2>9 DEF Admitted
  <2>14. Cardinality(S) >= Limit
    BY <2>5, <2>8, <2>12
  <2> QED BY <2>3, <2>13, <2>14
<1>2. RInv /\ [Next]_vars =>
        [\A c \in Callers : Decide(c) /\ log' = log =>
            Admitted(call[c].client, call[c].at - Window, clock) >= Limit]_vars
  BY <1>1
<1> QED BY <1>2, LimiterInductive, PTL DEF Spec, RefusalsAreEarned

-----------------------------------------------------------------------------
(* Admissions in intervals of any length.                                  *)

(* What division by a positive number says.                                *)
LEMMA Division ==
    ASSUME NEW x \in Nat, NEW d \in Nat \ {0}
    PROVE  /\ x \div d \in Nat
           /\ (x \div d) * d <= x
           /\ (x \div d) * d > x - d
OBVIOUS

(* Quotients keep the order, and one divisor more is one quotient more.    *)
LEMMA Quotients ==
    ASSUME NEW x \in Nat, NEW y \in Nat, x <= y, NEW d \in Nat \ {0}
    PROVE  /\ x \div d <= y \div d
           /\ x + d <= y => x \div d + 1 <= y \div d
<1>1. PICK q \in Nat : q = x \div d /\ q * d <= x
  BY Division
<1>2. PICK r \in Nat : r = y \div d /\ r * d > y - d
  BY Division
<1>3. ASSUME q >= r + 1 PROVE FALSE
  <2>1. q * d >= (r + 1) * d
    BY <1>3
  <2>2. (r + 1) * d = r * d + d
    OBVIOUS
  <2>3. q * d \in Nat /\ r * d \in Nat
    OBVIOUS
  <2> QED BY <1>1, <1>2, <2>1, <2>2, <2>3
<1>4. ASSUME x + d <= y, q >= r PROVE FALSE
  <2>1. q * d >= r * d
    BY <1>4
  <2>2. q * d \in Nat /\ r * d \in Nat
    OBVIOUS
  <2> QED BY <1>1, <1>2, <1>4, <2>1, <2>2
<1> QED BY <1>1, <1>2, <1>3, <1>4

(* How many windows begin in an interval, if each follows on the last.     *)
WindowsIn(a, b) == (b - a + 1 + Window) \div (Window + 1)

(* An interval has at least one, a longer one no fewer, and one that is a  *)
(* whole window longer has one more.                                       *)
LEMMA WindowCount ==
    ASSUME NEW a \in Nat, NEW b \in Nat, a <= b
    PROVE  /\ WindowsIn(a, b) \in Nat /\ WindowsIn(a, b) >= 1
           /\ \A c \in Nat : b <= c => WindowsIn(a, b) <= WindowsIn(a, c)
           /\ \A c \in Nat : b + Window + 1 <= c => WindowsIn(a, b) + 1 <= WindowsIn(a, c)
<1> USE LimitAssumption
<1>1. PICK d \in Nat \ {0} : d = Window + 1
  OBVIOUS
<1>2. b - a + 1 + Window \in Nat /\ b - a + 1 + Window >= d
  BY <1>1
<1>3. WindowsIn(a, b) \in Nat
  BY <1>1, <1>2, Division DEF WindowsIn
<1>4. WindowsIn(a, b) >= 1
  <2>1. PICK x \in Nat : x = b - a + 1 + Window
    BY <1>2
  <2>2. PICK q \in Nat : q = x \div d /\ q * d > x - d
    BY Division
  <2>3. q # 0
    BY <1>1, <1>2, <2>1, <2>2
  <2> QED BY <1>1, <2>1, <2>2, <2>3 DEF WindowsIn
<1>5. ASSUME NEW c \in Nat, b <= c
      PROVE  /\ WindowsIn(a, b) <= WindowsIn(a, c)
             /\ b + Window + 1 <= c => WindowsIn(a, b) + 1 <= WindowsIn(a, c)
  <2>1. PICK x \in Nat : x = b - a + 1 + Window
    BY <1>2
  <2>2. PICK y \in Nat : y = c - a + 1 + Window /\ x <= y
    BY <1>5, <2>1
  <2>3. b + Window + 1 <= c => x + d <= y
    BY <1>1, <2>1, <2>2
  <2>4. x \div d <= y \div d /\ (x + d <= y => x \div d + 1 <= y \div d)
    BY <2>2, Quotients
  <2>5. WindowsIn(a, b) = x \div d /\ WindowsIn(a, c) = y \div d
    BY <1>1, <2>1, <2>2 DEF WindowsIn
  <2> QED BY <2>3, <2>4, <2>5
<1>6. ASSUME NEW c \in Nat, b + Window + 1 <= c PROVE b <= c
  BY <1>6
<1> QED BY <1>3, <1>4, <1>5, <1>6

(* A budget per window, for more windows and for one more.                 *)
LEMMA Budgets ==
    ASSUME NEW m \in Nat, NEW n \in Nat
    PROVE  /\ Limit * m \in Nat
           /\ m <= n => Limit * m <= Limit * n
           /\ m + 1 <= n => Limit * m + Limit <= Limit * n
<1> USE LimitAssumption
<1>1. Limit * m \in Nat /\ Limit * n \in Nat
  OBVIOUS
<1>2. m <= n => Limit * m <= Limit * n
  OBVIOUS
<1>3. Limit * (m + 1) = Limit * m + Limit
  OBVIOUS
<1>4. m + 1 <= n => Limit * (m + 1) <= Limit * n
  OBVIOUS
<1> QED BY <1>1, <1>2, <1>3, <1>4

(* The entries of a log that are in an interval.                           *)
Entries(l, a, b) == {n \in DOMAIN l : l[n] \in a .. b}

(* Entries of one interval that all are in one of two others.              *)
LEMMA EntriesSplit ==
    ASSUME NEW l \in Seq(0 .. MaxTime), NEW a, NEW b, NEW c, NEW d, NEW x, NEW y,
           \A n \in DOMAIN l : l[n] \in a .. b => l[n] \in c .. d \/ l[n] \in x .. y
    PROVE  /\ Cardinality(Entries(l, a, b)) \in Nat
           /\ Cardinality(Entries(l, c, d)) \in Nat
           /\ Cardinality(Entries(l, x, y)) \in Nat
           /\ Cardinality(Entries(l, a, b)) <=
                Cardinality(Entries(l, c, d)) + Cardinality(Entries(l, x, y))
<1>1. PICK L \in Nat : L = Len(l) /\ DOMAIN l = 1 .. L
  OBVIOUS
<1>2. PICK P, Q, R : P = Entries(l, a, b) /\ Q = Entries(l, c, d) /\ R = Entries(l, x, y)
  OBVIOUS
<1>3. P \in SUBSET (1 .. L) /\ Q \in SUBSET (1 .. L) /\ R \in SUBSET (1 .. L)
  BY <1>1, <1>2 DEF Entries
<1>4. P \in SUBSET (Q \cup R)
  BY <1>2, Zenon DEF Entries
<1>5. /\ IsFiniteSet(P) /\ IsFiniteSet(Q) /\ IsFiniteSet(R)
      /\ Cardinality(P) \in Nat /\ Cardinality(Q) \in Nat /\ Cardinality(R) \in Nat
  BY <1>3, AdmittedFinite
<1>6. /\ IsFiniteSet(Q \cup R)
      /\ Cardinality(Q \cup R) = Cardinality(Q) + Cardinality(R) - Cardinality(Q \cap R)
  BY <1>5, FS_Union
<1>7. Cardinality(Q \cap R) \in Nat
  BY <1>5, FS_Subset, FS_CardinalityType
<1>8. Cardinality(P) <= Cardinality(Q \cup R)
  BY <1>4, <1>6, FS_Subset
<1> QED BY <1>2, <1>5, <1>6, <1>7, <1>8

(* Entries of one interval that all are in another.                        *)
LEMMA EntriesWithin ==
    ASSUME NEW l \in Seq(0 .. MaxTime), NEW a, NEW b, NEW c, NEW d,
           \A n \in DOMAIN l : l[n] \in a .. b => l[n] \in c .. d
    PROVE  /\ Cardinality(Entries(l, a, b)) \in Nat
           /\ Cardinality(Entries(l, c, d)) \in Nat
           /\ Cardinality(Entries(l, a, b)) <= Cardinality(Entries(l, c, d))
<1>1. PICK L \in Nat : L = Len(l) /\ DOMAIN l = 1 .. L
  OBVIOUS
<1>2. PICK P, Q : P = Entries(l, a, b) /\ Q = Entries(l, c, d)
  OBVIOUS
<1>3. P \in SUBSET (1 .. L) /\ Q \in SUBSET (1 .. L)
  BY <1>1, <1>2 DEF Entries
<1>4. P \in SUBSET Q
  BY <1>2, Zenon DEF Entries
<1>5. IsFiniteSet(P) /\ IsFiniteSet(Q) /\ Cardinality(P) \in Nat /\ Cardinality(Q) \in Nat
  BY <1>3, AdmittedFinite
<1>6. Cardinality(P) <= Cardinality(Q)
  BY <1>4, <1>5, FS_Subset
<1> QED BY <1>2, <1>5, <1>6

(* The limit holds for every interval: as many admissions as the limit     *)
(* allows for each window that begins in it.                               *)
AdmissionsAreSpread ==
    \A k \in Clients : \A a, b \in 0 .. clock :
        a <= b => Admitted(k, a, b) <= Limit * WindowsIn(a, b)

(* Counting the entries of a log is counting its admissions.               *)
LEMMA AdmittedEntries ==
    ASSUME NEW k \in Clients, NEW a, NEW b
    PROVE  /\ Admitted(k, a, b) = Cardinality(Entries(log[k], a, b))
           /\ Admitted(k, a, b)' = Cardinality(Entries(log'[k], a, b))
<1>1. Admitted(k, a, b) = Cardinality(Entries(log[k], a, b))
  BY DEF Admitted, Entries
<1>2. Admitted(k, a, b)' = Cardinality(Entries(log'[k], a, b))
  BY DEF Admitted, Entries
<1> QED BY <1>1, <1>2

(* The same for all intervals at once.                                     *)
LEMMA ElsewhereAlways ==
    ASSUME Types, NEW k \in Clients, NEW now \in Nat, now <= MaxTime,
           log' = [log EXCEPT ![k] = Append(log[k], now)]
    PROVE  \A x, y \in Nat :
              ~ (x <= now /\ now <= y) => Admitted(k, x, y)' = Admitted(k, x, y)
<1> TAKE x, y \in Nat
<1> HAVE ~ (x <= now /\ now <= y)
<1> QED BY AdmittedElsewhere

(* Logs hold readings of the clock.                                        *)
LEMMA LogTimes ==
    ASSUME NEW l \in Seq(0 .. MaxTime)
    PROVE  \A n \in DOMAIN l : l[n] \in Nat
BY LimitAssumption

(* An admission: what is in the interval is in its last window, or was     *)
(* there before and is a window older than now.                            *)
LEMMA SpreadByAdmission ==
    ASSUME Types, Types', NeverOverLimit', AdmissionsAreSpread, clock' = clock,
           NEW k \in Clients, NEW now \in 0 .. clock,
           \A n \in 1 .. Len(log[k]) : log[k][n] <= now,
           log' = [log EXCEPT ![k] = Append(log[k], now)],
           NEW a \in 0 .. clock, NEW b \in 0 .. clock, a <= b
    PROVE  Admitted(k, a, b)' <= Limit * WindowsIn(a, b)
<1> USE LimitAssumption
<1>1. PICK l \in Seq(0 .. MaxTime) : l = log'[k]
  BY DEF Types
<1>2. /\ clock \in Nat /\ clock <= MaxTime /\ now \in Nat /\ a \in Nat /\ b \in Nat
      /\ now <= MaxTime /\ a <= clock /\ b <= clock
  <2>1. clock \in Nat /\ clock <= MaxTime
    BY DEF Types
  <2> QED BY <2>1
<1>3. \A n \in DOMAIN l : l[n] \in Nat /\ l[n] <= now
  <2>0. \A n \in DOMAIN l : l[n] \in Nat
    BY LogTimes
  <2>1. log[k] \in Seq(0 .. MaxTime) /\ now \in 0 .. MaxTime /\ l = Append(log[k], now)
    BY <1>1, <1>2 DEF Types
  <2>2. PICK L \in Nat : L = Len(log[k])
    BY <2>1
  <2>3. /\ DOMAIN l = 1 .. L + 1 /\ l[L + 1] = now
        /\ \A n \in 1 .. L : l[n] = log[k][n]
    BY <2>1, <2>2
  <2>4. ASSUME NEW n \in DOMAIN l PROVE l[n] \in Nat /\ l[n] <= now
    <3>1. CASE n = L + 1
      BY <1>2, <2>3, <3>1
    <3>2. CASE n # L + 1
      <4>1. n \in 1 .. L
        BY <2>3, <3>2
      <4>2. l[n] = log[k][n] /\ log[k][n] <= now
        BY <2>2, <2>3, <4>1
      <4>3. l[n] \in Nat
        BY <2>0
      <4> QED BY <4>2, <4>3
    <3> QED BY <3>1, <3>2
  <2> QED BY <2>4
<1>4. WindowsIn(a, b) \in Nat /\ WindowsIn(a, b) >= 1
  BY <1>2, WindowCount
<1>5. Limit <= Limit * WindowsIn(a, b)
  <2>1. PICK w \in Nat : w = WindowsIn(a, b) /\ w >= 1
    BY <1>4
  <2>2. Limit * w >= Limit * 1
    BY <2>1, Budgets
  <2> QED BY <2>1, <2>2
<1>6. Admitted(k, a, b)' = Cardinality(Entries(l, a, b))
  BY <1>1, AdmittedEntries
<1>else. \A x, y \in Nat :
            ~ (x <= now /\ now <= y) => Admitted(k, x, y)' = Admitted(k, x, y)
  BY <1>2, ElsewhereAlways
<1>7. CASE ~ (a <= now /\ now <= b)
  <2>1. Admitted(k, a, b)' = Admitted(k, a, b)
    BY <1>2, <1>7, <1>else
  <2> QED BY <2>1 DEF AdmissionsAreSpread
<1>8. CASE now <= a + Window
  <2>1. \A n \in DOMAIN l : l[n] \in a .. b => l[n] \in a .. a + Window
    BY <1>2, <1>3, <1>8
  <2>2. /\ Cardinality(Entries(l, a, b)) <= Cardinality(Entries(l, a, a + Window))
        /\ Cardinality(Entries(l, a, b)) \in Nat
        /\ Cardinality(Entries(l, a, a + Window)) \in Nat
    BY <2>1, EntriesWithin
  <2>3. Admitted(k, a, a + Window)' <= Limit
    BY DEF NeverOverLimit
  <2>4. Cardinality(Entries(l, a, a + Window)) <= Limit
    BY <1>1, <2>3, AdmittedEntries
  <2> QED BY <1>4, <1>5, <1>6, <2>2, <2>4, Budgets
<1>9. CASE a <= now /\ now <= b /\ ~ (now <= a + Window)
  <2>1. PICK m \in Nat : m = now - Window - 1
    BY <1>2, <1>9
  <2>2. PICK t \in Nat : t = now - Window
    BY <1>2, <1>9
  <2>3. a <= m /\ m + Window + 1 <= b /\ m \in 0 .. clock /\ t \in 0 .. clock /\ now = t + Window
    BY <1>2, <1>9, <2>1, <2>2
  <2>4. \A n \in DOMAIN l : l[n] \in a .. b => l[n] \in a .. m \/ l[n] \in t .. t + Window
    BY <1>2, <1>3, <2>1, <2>2, <2>3
  <2>5. /\ Cardinality(Entries(l, a, b)) \in Nat
        /\ Cardinality(Entries(l, a, m)) \in Nat
        /\ Cardinality(Entries(l, t, t + Window)) \in Nat
        /\ Cardinality(Entries(l, a, b)) <=
             Cardinality(Entries(l, a, m)) + Cardinality(Entries(l, t, t + Window))
    BY <2>4, EntriesSplit
  <2>6. Cardinality(Entries(l, t, t + Window)) <= Limit
    <3>1. Admitted(k, t, t + Window)' <= Limit
      BY <2>3 DEF NeverOverLimit
    <3> QED BY <1>1, <3>1, AdmittedEntries
  <2>7. Cardinality(Entries(l, a, m)) <= Limit * WindowsIn(a, m)
    <3>1. ~ (a <= now /\ now <= m) /\ m \in Nat
      BY <1>2, <2>1
    <3>3. Admitted(k, a, m)' = Admitted(k, a, m)
      BY <1>2, <3>1, <1>else
    <3>2. Admitted(k, a, m) <= Limit * WindowsIn(a, m)
      BY <2>3 DEF AdmissionsAreSpread
    <3> QED BY <1>1, <3>2, <3>3, AdmittedEntries
  <2>8. WindowsIn(a, m) \in Nat /\ WindowsIn(a, m) + 1 <= WindowsIn(a, b)
    BY <1>2, <2>3, WindowCount
  <2>9. PICK v \in Nat, w \in Nat : v = WindowsIn(a, m) /\ w = WindowsIn(a, b) /\ v + 1 <= w
    BY <1>4, <2>8
  <2>10. /\ Limit * v \in Nat /\ Limit * w \in Nat
         /\ Limit * v + Limit <= Limit * w
    BY <2>9, Budgets
  <2>11. PICK x \in Nat, y \in Nat, z \in Nat :
            /\ x = Cardinality(Entries(l, a, b)) /\ y = Cardinality(Entries(l, a, m))
            /\ z = Cardinality(Entries(l, t, t + Window)) /\ x <= y + z
    BY <2>5
  <2>12. x <= Limit * v + Limit
    <3>1. y <= Limit * v
      BY <2>7, <2>9, <2>11
    <3>2. z <= Limit
      BY <2>6, <2>11
    <3>3. PICK f \in Nat : f = Limit * v
      BY <2>10
    <3> QED BY <2>11, <3>1, <3>2, <3>3
  <2>13. x <= Limit * w
    <3>1. PICK f \in Nat, g \in Nat : f = Limit * v /\ g = Limit * w /\ f + Limit <= g
      BY <2>10
    <3> QED BY <2>12, <3>1
  <2> QED BY <1>6, <2>9, <2>11, <2>13
<1> QED BY <1>7, <1>8, <1>9

(* Time passes: nothing is admitted at the instants to come.               *)
LEMMA SpreadByTime ==
    ASSUME RInv, Types', AdmissionsAreSpread, log' = log, clock' = clock \/ clock' = clock + 1,
           NEW k \in Clients, NEW a \in 0 .. clock', NEW b \in 0 .. clock', a <= b
    PROVE  Admitted(k, a, b)' <= Limit * WindowsIn(a, b)
<1> USE LimitAssumption
<1>1. PICK l \in Seq(0 .. MaxTime) : l = log[k]
  BY DEF RInv, Types
<1>2. clock \in Nat /\ a \in Nat /\ b \in Nat /\ clock' <= clock + 1
  BY DEF RInv, Types
<1>3. \A n \in DOMAIN l : l[n] \in Nat /\ l[n] <= clock
  <2>1. DOMAIN l = 1 .. Len(log[k])
    BY <1>1
  <2>2. \A n \in 1 .. Len(log[k]) : log[k][n] <= clock
    BY DEF RInv, Ordered, OrderedBefore
  <2>3. \A n \in DOMAIN l : l[n] \in Nat
    BY <1>1
  <2> QED BY <1>1, <2>1, <2>2, <2>3
<1>4. WindowsIn(a, b) \in Nat /\ Limit * WindowsIn(a, b) \in Nat
  BY <1>2, WindowCount, Budgets
<1>5. Admitted(k, a, b)' = Cardinality(Entries(l, a, b))
  BY <1>1, AdmittedEntries
<1>6. CASE a <= clock
  <2>1. PICK c \in 0 .. clock : c = IF b <= clock THEN b ELSE clock
    BY <1>2
  <2>2. c \in Nat /\ a <= c /\ c <= b
    BY <1>2, <1>6, <2>1
  <2>3. \A n \in DOMAIN l : l[n] \in a .. b => l[n] \in a .. c
    BY <1>2, <1>3, <2>1
  <2>4. /\ Cardinality(Entries(l, a, b)) \in Nat
        /\ Cardinality(Entries(l, a, c)) \in Nat
        /\ Cardinality(Entries(l, a, b)) <= Cardinality(Entries(l, a, c))
    BY <2>3, EntriesWithin
  <2>5. Cardinality(Entries(l, a, c)) <= Limit * WindowsIn(a, c)
    <3>1. Admitted(k, a, c) <= Limit * WindowsIn(a, c)
      BY <1>2, <1>6, <2>1, <2>2 DEF AdmissionsAreSpread
    <3> QED BY <1>1, <3>1, AdmittedEntries
  <2>6. PICK v \in Nat, w \in Nat : v = WindowsIn(a, c) /\ w = WindowsIn(a, b) /\ v <= w
    <3>1. WindowsIn(a, c) \in Nat /\ WindowsIn(a, c) <= WindowsIn(a, b)
      BY <1>2, <2>2, WindowCount
    <3> QED BY <1>4, <3>1
  <2>7. Limit * v \in Nat /\ Limit * w \in Nat /\ Limit * v <= Limit * w
    BY <2>6, Budgets
  <2> QED BY <1>5, <2>4, <2>5, <2>6, <2>7
<1>7. CASE ~ (a <= clock)
  <2>1. \A n \in DOMAIN l : ~ (l[n] \in a .. b)
    BY <1>2, <1>3, <1>7
  <2>2. Cardinality(Entries(l, a, b)) = 0
    BY <2>1, NothingAdmitted DEF Entries
  <2> QED BY <1>4, <1>5, <2>2
<1> QED BY <1>6, <1>7

(* However long a client tries, and over however long a time, it is        *)
(* admitted no more often than the limit allows per window.                *)
THEOREM AdmissionsSpread == EventLoop => (Spec => []AdmissionsAreSpread)
<1> USE LimitAssumption
<1> SUFFICES ASSUME EventLoop PROVE Spec => []AdmissionsAreSpread
  OBVIOUS
<1>1. ASSUME NEW k \in Clients, NEW a \in Nat, NEW b \in Nat, a <= b, log'[k] = <<>>
      PROVE  Admitted(k, a, b)' <= Limit * WindowsIn(a, b)
  <2>1. DOMAIN log'[k] = {}
    BY <1>1
  <2>2. Admitted(k, a, b)' = 0
    BY <2>1, NothingAdmitted DEF Admitted
  <2> QED BY <1>1, <2>2, WindowCount, Budgets
<1>2. Init => AdmissionsAreSpread
  <2> SUFFICES ASSUME Init, NEW k \in Clients, NEW a \in 0 .. clock, NEW b \in 0 .. clock, a <= b
               PROVE  Admitted(k, a, b) <= Limit * WindowsIn(a, b)
    BY DEF AdmissionsAreSpread
  <2>1. DOMAIN log[k] = {} /\ a \in Nat /\ b \in Nat
    BY DEF Init
  <2>2. Admitted(k, a, b) = 0
    BY <2>1, NothingAdmitted DEF Admitted
  <2> QED BY <2>1, <2>2, WindowCount, Budgets
<1>3. ASSUME RInv, NeverOverLimit', AdmissionsAreSpread, [Next]_vars
      PROVE  AdmissionsAreSpread'
  <2>0. Types /\ Types'
    BY <1>3, NextTypes DEF RInv
  <2>1. CASE log' = log /\ (clock' = clock \/ clock' = clock + 1)
    BY <1>3, <2>0, <2>1, SpreadByTime DEF AdmissionsAreSpread
  <2>2. ASSUME NEW c \in Callers, Decide(c) PROVE AdmissionsAreSpread'
    <3>1. PICK k \in Clients, now \in 0 .. clock :
            \E p \in 0 .. Len(windows[k]), e \in Seq(0 .. MaxTime) : Decided(c, k, now, p, e)
      BY <2>0, <2>2, Decisions
    <3>2. /\ clock' = clock /\ call[c].at = now /\ ~Idle(c)
          /\ log' = log \/ log' = [log EXCEPT ![k] = Append(log[k], now)]
      BY <2>2, <3>1 DEF Decided, Decide
    <3>3. CASE log' = log
      BY <2>1, <3>2, <3>3
    <3>4. CASE log' = [log EXCEPT ![k] = Append(log[k], now)]
      <4>1. \A n \in 1 .. Len(log[k]) : log[k][n] <= now
        BY <1>3, <3>2 DEF RInv, Ordered, OrderedBefore
      <4> SUFFICES ASSUME NEW j \in Clients, NEW a \in 0 .. clock, NEW b \in 0 .. clock, a <= b
                   PROVE  Admitted(j, a, b)' <= Limit * WindowsIn(a, b)
        BY <3>2 DEF AdmissionsAreSpread
      <4>2. CASE j = k
        BY <1>3, <2>0, <3>2, <3>4, <4>1, <4>2, SpreadByAdmission
      <4>3. CASE j # k
        <5>1. log'[j] = log[j]
          BY <2>0, <3>4, <4>3 DEF Types
        <5>2. Admitted(j, a, b)' = Admitted(j, a, b)
          BY <5>1, AdmittedUnchanged
        <5> QED BY <1>3, <5>2 DEF AdmissionsAreSpread
      <4> QED BY <4>2, <4>3
    <3> QED BY <3>2, <3>3, <3>4
  <2>3. CASE Reset \/ Restart
    <3> SUFFICES ASSUME NEW k \in Clients, NEW a \in 0 .. clock', NEW b \in 0 .. clock', a <= b
                 PROVE  Admitted(k, a, b)' <= Limit * WindowsIn(a, b)
      BY DEF AdmissionsAreSpread
    <3>1. log'[k] = <<>> /\ a \in Nat /\ b \in Nat
      BY <2>3 DEF Reset, Restart, Forget
    <3> QED BY <1>1, <3>1
  <2>4. CASE Tick
    BY <2>1, <2>4 DEF Tick
  <2>5. ASSUME NEW c \in Callers, NEW k \in Clients, Sample(c, k) PROVE AdmissionsAreSpread'
    BY <2>1, <2>5 DEF Sample
  <2>6. CASE UNCHANGED vars
    BY <2>1, <2>6 DEF vars
  <2> QED BY <1>3, <2>2, <2>3, <2>4, <2>5, <2>6 DEF Next
<1> QED BY <1>2, <1>3, LimiterInductive, LimitIsKept, PTL DEF Spec

-----------------------------------------------------------------------------
(* The gate.                                                               *)

(* Every step of the gate is one of the limiter, or leaves it alone: the   *)
(* endpoints of auth.py and agents.py go through is_allowed only.          *)
THEOREM GateUsesLimiter == GateSpec => Spec
<1>1. GateInit => Init
  BY DEF GateInit
<1>2. [GateNext]_<<vars, gate>> => [Next]_vars
  BY DEF GateNext, Next, Login, VerifySignature, RestartGate, vars, gate
<1> QED BY <1>1, <1>2, PTL DEF GateSpec, Spec

(* The budget of every client holds at the endpoints, too.                  *)
THEOREM GateKeepsLimit == EventLoop => (GateSpec => []NeverOverLimit)
<1> SUFFICES ASSUME EventLoop PROVE GateSpec => []NeverOverLimit
  OBVIOUS
<1> QED BY GateUsesLimiter, LimitIsKept, PTL

-----------------------------------------------------------------------------

(* Rounding down to whole seconds loses less than a second.                *)
LEMMA Rounding ==
    ASSUME NEW t \in Nat
    PROVE  /\ t \div Second \in Int
           /\ (t \div Second) * Second <= t
           /\ (t \div Second) * Second > t - Second
  BY LifetimeAssumption

(* Tokens carry the expiry that belongs to the time of their issue.        *)
TokensFit ==
    /\ clock \in Nat
    /\ \A token \in tokens :
        token.issued \in 0 .. clock /\ token.exp = Expiry(token.issued)

(* TokensFit holds in every state.                                         *)
LEMMA TokensFitAlways == GateSpec => []TokensFit
<1>1. GateInit => TokensFit
  BY DEF GateInit, Init, TokensFit
<1>2. TokensFit /\ [GateNext]_<<vars, gate>> => TokensFit'
  <2> SUFFICES ASSUME TokensFit, [GateNext]_<<vars, gate>> PROVE TokensFit'
    OBVIOUS
  <2>1. clock' \in Nat /\ clock <= clock'
    BY DEF TokensFit, GateNext, Tick, Sample, Login, VerifySignature, Decide, RestartGate,
           Restart, Reset, Forget, vars
  <2>2. tokens' \subseteq tokens \cup {[client |-> call[c].client, user |-> Cardinality(tokens),
                                        issued |-> clock, exp |-> Expiry(clock)] : c \in Callers}
    BY DEF GateNext, Login, VerifySignature, RestartGate, gate
  <2> QED BY <2>1, <2>2 DEF TokensFit, Expiry
<1> QED BY <1>1, <1>2, PTL DEF GateSpec

(* A token is accepted for no longer than it was issued for and refused    *)
(* not before its last second, whatever the length of a tick.              *)
THEOREM LifetimesAreKept == GateSpec => []LifetimeIsKept
<1>1. TokensFit => LifetimeIsKept
  <2> SUFFICES ASSUME TokensFit, NEW token \in tokens
               PROVE  IF Valid(token) THEN clock - token.issued < Lifetime * Second
                      ELSE clock - token.issued > (Lifetime - 1) * Second
    BY DEF LifetimeIsKept
  <2> DEFINE end == token.issued + Lifetime * Second
  <2>1. token.issued \in Nat /\ clock \in Nat /\ Lifetime * Second \in Nat /\ end \in Nat
    BY LifetimeAssumption DEF TokensFit
  <2>2. token.exp = end \div Second
    BY DEF TokensFit, Expiry
  <2>3. /\ token.exp \in Int
        /\ token.exp * Second <= end
        /\ token.exp * Second > end - Second
    BY <2>1, <2>2, Rounding
  <2>4. (Lifetime - 1) * Second = Lifetime * Second - Second
    BY LifetimeAssumption
  <2> QED BY <2>1, <2>3, <2>4, LifetimeAssumption DEF Valid
<1> QED BY <1>1, TokensFitAlways, PTL

-----------------------------------------------------------------------------

(* An expiry is the lifetime after the second of the issue.                *)
LEMMA ExpiryTyped ==
    ASSUME NEW now \in 0 .. MaxTime
    PROVE  Expiry(now) \in 0 .. MaxTime \div Second + Lifetime
<1> DEFINE t == now + Lifetime * Second
           q == t \div Second
           m == MaxTime \div Second
<1>1. Lifetime * Second \in Nat /\ t \in Nat /\ MaxTime \in Nat
  BY LifetimeAssumption, LimitAssumption
<1>2. q \in Int /\ q * Second <= t /\ q * Second > t - Second
  BY <1>1, Rounding
<1>3. m \in Int /\ m * Second > MaxTime - Second
  BY <1>1, Rounding
<1>4. q >= 0 /\ q <= m + Lifetime
  <2> HIDE DEF q, m
  <2>1. q * Second < (m + Lifetime + 1) * Second
    <3>1. (m + Lifetime + 1) * Second = m * Second + Lifetime * Second + Second
      BY <1>3, LifetimeAssumption
    <3>2. m * Second \in Int /\ q * Second \in Int
      BY <1>2, <1>3, LifetimeAssumption
    <3> QED BY <1>1, <1>2, <1>3, <3>1, <3>2, LifetimeAssumption
  <2>2. q * Second > -Second
    <3>1. q * Second \in Int
      BY <1>2, LifetimeAssumption
    <3> QED BY <1>1, <1>2, <3>1, LifetimeAssumption
  <2>3. q < m + Lifetime + 1
    BY <1>2, <1>3, <2>1, LifetimeAssumption
  <2>4. q > -1
    BY <1>2, <2>2, LifetimeAssumption
  <2> QED BY <1>2, <1>3, <2>3, <2>4, LifetimeAssumption
<1> HIDE DEF q, m
<1>5. Expiry(now) = q
  BY DEF Expiry, q
<1> QED BY <1>2, <1>3, <1>4, <1>5, LifetimeAssumption DEF m

(* The types of the gate; there are finitely many tokens.                   *)
LEMMA GateFinite == GateSpec => [](TokenTypes /\ IsFiniteSet(tokens))
<1> DEFINE Inv == TypeOK /\ TokenTypes /\ IsFiniteSet(tokens)
<1>1. GateInit => TokenTypes /\ IsFiniteSet(tokens)
  BY LifetimeAssumption, FS_EmptySet DEF GateInit, TokenTypes
<1>2. Inv /\ [GateNext]_<<vars, gate>> => TokenTypes' /\ IsFiniteSet(tokens)'
  <2> SUFFICES ASSUME Inv, [GateNext]_<<vars, gate>>
               PROVE  TokenTypes' /\ IsFiniteSet(tokens)'
    OBVIOUS
  <2>1. restarts' \in 0 .. MaxRestarts
    BY LifetimeAssumption
    DEF GateNext, Login, VerifySignature, RestartGate, gate, TokenTypes
  <2>2. CASE tokens' = tokens
    BY <2>1, <2>2 DEF TokenTypes
  <2>3. ASSUME NEW c \in Callers, call[c].client \in TokenClients,
               tokens' = tokens \cup {[client |-> call[c].client, user |-> Cardinality(tokens),
                                       issued |-> clock, exp |-> Expiry(clock)]}
        PROVE  TokenTypes' /\ IsFiniteSet(tokens)'
    <3>1. Cardinality(tokens) \in Nat
      BY FS_CardinalityType
    <3>2. clock \in 0 .. MaxTime
      BY DEF TypeOK
    <3>3. Expiry(clock) \in 0 .. MaxTime \div Second + Lifetime
      BY <3>2, ExpiryTyped
    <3>4. tokens' \subseteq Token
      BY <2>3, <3>1, <3>2, <3>3 DEF TokenTypes, Token
    <3>5. IsFiniteSet(tokens)'
      BY <2>3, FS_AddElement
    <3> QED BY <2>1, <3>4, <3>5 DEF TokenTypes
  <2> QED BY <2>2, <2>3 DEF GateNext, Login, VerifySignature, RestartGate, gate
<1>3. GateSpec => []TypeOK
  BY GateUsesLimiter, LimiterTypeOK, PTL
<1> QED BY <1>1, <1>2, <1>3, PTL DEF GateSpec

(* The limiter keeps its types under both endpoints, for threads too,      *)
(* tokens name a client of the endpoint and times within the bounds, and   *)
(* restarts are counted within theirs.                                      *)
THEOREM GateTypes == GateSpec => []GateTypeOK
BY GateFinite, GateUsesLimiter, LimiterTypeOK, PTL DEF GateTypeOK

-----------------------------------------------------------------------------
(* How many tokens a client may hold.                                      *)

(* One more admission counts once in every interval it is in.              *)
LEMMA AppendCounts ==
    ASSUME NEW l \in Seq(0 .. MaxTime), NEW now \in 0 .. MaxTime, NEW a, NEW b, now \in a .. b
    PROVE  Cardinality(Entries(Append(l, now), a, b)) = Cardinality(Entries(l, a, b)) + 1
<1>1. PICK L \in Nat : L = Len(l) /\ DOMAIN l = 1 .. L
  OBVIOUS
<1>2. PICK m : m = Append(l, now)
  OBVIOUS
<1>3. DOMAIN m = 1 .. L + 1 /\ m[L + 1] = now /\ \A n \in 1 .. L : m[n] = l[n]
  BY <1>1, <1>2, AppendProperties
<1>4. PICK z \in Nat : z = L + 1
  OBVIOUS
<1>5. /\ \A n \in DOMAIN m : n = z \/ n \in DOMAIN l
      /\ \A n \in DOMAIN l : n \in DOMAIN m /\ m[n] = l[n] /\ n # z
      /\ z \in DOMAIN m /\ m[z] = now
  BY <1>1, <1>3, <1>4
<1>6. PICK S, T : S = Entries(l, a, b) /\ T = Entries(m, a, b)
  OBVIOUS
<1>7. T = S \cup {z} /\ z \notin S
  BY <1>5, <1>6, Zenon DEF Entries
<1>8. S \in SUBSET (1 .. L)
  BY <1>1, <1>6 DEF Entries
<1>9. IsFiniteSet(S) /\ Cardinality(S) \in Nat
  BY <1>8, AdmittedFinite
<1>10. Cardinality(T) = Cardinality(S) + 1
  <2>1. Cardinality(S \cup {z}) = IF z \in S THEN Cardinality(S) ELSE Cardinality(S) + 1
    BY <1>9, FS_AddElement
  <2> QED BY <1>7, <2>1
<1> QED BY <1>2, <1>6, <1>10

(* Admissions are numbers, and no decision takes one back.                 *)
LEMMA AdmittedGrows ==
    ASSUME Types, NEW c \in Callers, Decide(c), NEW j \in Clients, NEW a \in Nat, NEW b \in Nat
    PROVE  /\ Admitted(j, a, b) \in Nat /\ Admitted(j, a, b)' \in Nat
           /\ Admitted(j, a, b) <= Admitted(j, a, b)'
<1> USE LimitAssumption
<1>1. PICK k \in Clients, now \in 0 .. clock :
        \E p \in 0 .. Len(windows[k]), e \in Seq(0 .. MaxTime) : Decided(c, k, now, p, e)
  BY Decisions
<1>2. log' = log \/ log' = [log EXCEPT ![k] = Append(log[k], now)]
  BY <1>1 DEF Decided
<1>3. now \in 0 .. MaxTime /\ log[j] \in Seq(0 .. MaxTime)
  BY DEF Types
<1>4. Admitted(j, a, b) \in Nat
  <2>1. Cardinality(Entries(log[j], a, b)) \in Nat
    BY <1>3, EntriesWithin
  <2> QED BY <2>1, AdmittedEntries
<1>5. CASE log'[j] = log[j]
  <2>1. Admitted(j, a, b)' = Admitted(j, a, b)
    BY <1>5, AdmittedUnchanged
  <2> QED BY <1>4, <2>1
<1>6. CASE log'[j] = Append(log[j], now)
  <2>1. CASE now \in a .. b
    <3>1. Cardinality(Entries(log'[j], a, b)) = Cardinality(Entries(log[j], a, b)) + 1
      BY <1>3, <1>6, <2>1, AppendCounts
    <3>2. Admitted(j, a, b)' = Admitted(j, a, b) + 1
      BY <3>1, AdmittedEntries
    <3> QED BY <1>4, <3>2
  <2>2. CASE ~ (now \in a .. b)
    <3>1. ~ (a <= now /\ now <= b) /\ now \in Nat /\ now <= MaxTime
      BY <1>3, <2>2
    <3>2. CASE log' = log
      BY <1>5, <3>2
    <3>3. CASE log' = [log EXCEPT ![k] = Append(log[k], now)] /\ j = k
      <4>1. log' = [log EXCEPT ![j] = Append(log[j], now)]
        BY <3>3
      <4>2. \A x, y \in Nat :
              ~ (x <= now /\ now <= y) => Admitted(j, x, y)' = Admitted(j, x, y)
        BY <3>1, <4>1, ElsewhereAlways
      <4>3. Admitted(j, a, b)' = Admitted(j, a, b)
        BY <3>1, <4>2
      <4> QED BY <1>4, <4>3
    <3>4. CASE log' = [log EXCEPT ![k] = Append(log[k], now)] /\ j # k
      <4>1. log'[j] = log[j]
        BY <3>4 DEF Types
      <4> QED BY <1>5, <4>1
    <3> QED BY <1>2, <3>2, <3>3, <3>4
  <2> QED BY <2>1, <2>2
<1>7. log'[j] = log[j] \/ log'[j] = Append(log[j], now)
  BY <1>2 DEF Types
<1> QED BY <1>5, <1>6, <1>7

(* A login that is let through is on the log of its client.                *)
LEMMA LoginsAreLogged ==
    ASSUME Types, NEW c \in Callers, Decide(c), Admits(c)
    PROVE  \E k \in Clients, now \in 0 .. clock :
              /\ call[c] = [client |-> k, at |-> now]
              /\ log'[k] = Append(log[k], now)
<1> USE LimitAssumption
<1>1. call[c] \in [client : Clients, at : 0 .. clock]
  BY DEF Types, Decide
<1>2. PICK k \in Clients, now \in 0 .. clock : call[c] = [client |-> k, at |-> now]
  BY <1>1
<1>3. windows[k] \in Seq(0 .. MaxTime) /\ now - Window \in Int /\ now \in 0 .. MaxTime
  BY DEF Types
<1>4. PICK e \in Seq(0 .. MaxTime) : e = Evicted(windows[k], now - Window)
  BY <1>3, Eviction
<1>5. Len(e) < Limit /\ Len(e) \in Nat
  BY <1>2, <1>4 DEF Admits
<1>6. Recorded(e, now) = Append(e, now)
  BY <1>5 DEF Recorded
<1>7. Append(e, now) # e
  <2>1. Len(Append(e, now)) = Len(e) + 1
    BY <1>3, AppendProperties
  <2> QED BY <1>5, <2>1
<1>8. log' = IF Recorded(e, now) = e THEN log ELSE [log EXCEPT ![k] = Append(log[k], now)]
  BY <1>2, <1>4 DEF Decide
<1>9. log' = [log EXCEPT ![k] = Append(log[k], now)]
  BY <1>6, <1>7, <1>8
<1>10. log'[k] = Append(log[k], now)
  BY <1>9 DEF Types
<1> QED BY <1>2, <1>10

(* The tokens a client got from some time on.                              *)
TokensFrom(k, a) == {token \in tokens : token.client = k /\ token.issued >= a}

(* A call under way began after the last token was issued.                 *)
CallsFollowTokens ==
    \A c \in Callers : ~ Idle(c) => \A token \in tokens : token.issued <= call[c].at

(* Tokens are paid for by admissions: those on the log, those that each    *)
(* restart may have wiped off it, and one by a call that read the clock    *)
(* before the interval and was answered in it.                             *)
TokensArePaid ==
    \A k \in TokenClients : \A a \in 0 .. clock :
        Cardinality(TokensFrom(k, a)) <=
            (Limit * WindowsIn(a, clock)) * restarts + Admitted(k, a, clock) + 1

(* What the accounts are kept from.                                        *)
Books == RInv /\ AdmissionsAreSpread /\ TokenTypes /\ IsFiniteSet(tokens) /\ TokensFit

(* The clock only goes on, one tick at a time.                             *)
LEMMA ClockGoesOn ==
    ASSUME [GateNext]_<<vars, gate>>
    PROVE  clock' = clock \/ (Tick /\ UNCHANGED gate)
<1>1. ASSUME RestartGate PROVE clock' = clock
  <2>1. Forget
    BY <1>1 DEF RestartGate, Restart, Reset
  <2> QED BY <2>1 DEF Forget
<1>2. ASSUME NEW c \in Callers, Decide(c) PROVE clock' = clock
  BY <1>2 DEF Decide
<1>3. ASSUME NEW c \in Callers, NEW k \in Clients, Sample(c, k) PROVE clock' = clock
  BY <1>3 DEF Sample
<1>4. ASSUME UNCHANGED <<vars, gate>> PROVE clock' = clock
  BY <1>4 DEF vars
<1>5. CASE GateNext
  BY <1>1, <1>2, <1>3, <1>5, Zenon DEF GateNext, Login, VerifySignature
<1> QED BY <1>4, <1>5

(* On one event loop no token is issued during another's call.             *)
LEMMA CallsFollowNext ==
    ASSUME EventLoop, RInv, TokensFit, CallsFollowTokens, [GateNext]_<<vars, gate>>
    PROVE  CallsFollowTokens'
<1>1. CASE tokens' = tokens /\ call' = call
  BY <1>1 DEF CallsFollowTokens, Idle
<1>2. ASSUME NEW c \in Callers, Decide(c) PROVE CallsFollowTokens'
  <2>1. ~ Idle(c) /\ call' = [call EXCEPT ![c] = NoCall]
    BY <1>2 DEF Decide
  <2>2. \A d \in Callers : Idle(d)'
    BY <2>1 DEF RInv, OneAtATime, Types, Idle
  <2> QED BY <2>2 DEF CallsFollowTokens
<1>3. ASSUME NEW c \in Callers, NEW k \in Clients, Sample(c, k), UNCHANGED gate
      PROVE  CallsFollowTokens'
  <2>1. /\ tokens' = tokens /\ call' = [call EXCEPT ![c] = [client |-> k, at |-> clock]]
        /\ \A d \in Callers : Idle(d)
    BY <1>3 DEF Sample, gate
  <2>2. call'[c].at = clock /\ \A d \in Callers : d # c => Idle(d)'
    BY <2>1 DEF RInv, Types, Idle
  <2>3. \A token \in tokens : token.issued <= clock
    BY DEF TokensFit
  <2> QED BY <2>1, <2>2, <2>3 DEF CallsFollowTokens
<1>4. CASE RestartGate
  <2>1. tokens' = tokens /\ (call' = call \/ call' = [c \in Callers |-> NoCall])
    BY <1>4 DEF RestartGate, Restart, Reset
  <2> QED BY <1>1, <2>1 DEF CallsFollowTokens, Idle
<1> QED BY <1>1, <1>2, <1>3, <1>4
        DEF GateNext, Tick, Login, VerifySignature, vars, gate

(* The arithmetic of the accounts: t tokens, n admissions on the log, a     *)
(* budget of f per restart.                                                *)
LEMMA Accounts ==
    ASSUME NEW t \in Nat, NEW s \in Nat, NEW n \in Nat, NEW m \in Nat,
           NEW f \in Nat, NEW g \in Nat, NEW r \in Nat,
           t <= f * r + n + 1, f <= g
    PROVE  /\ s <= t /\ n <= m => s <= g * r + m + 1
           /\ s <= t + 1 /\ n + 1 <= m => s <= g * r + m + 1
           /\ s <= t /\ n <= g => s <= g * (r + 1) + m + 1
<1>1. f * r <= g * r /\ f * r \in Nat /\ g * r \in Nat
  OBVIOUS
<1>2. g * (r + 1) = g * r + g
  OBVIOUS
<1>3. PICK x \in Nat, y \in Nat : x = f * r /\ y = g * r /\ x <= y
  BY <1>1
<1> QED BY <1>2, <1>3

(* What the books say about one client and one beginning.                  *)
LEMMA BooksTyped ==
    ASSUME Books, NEW k \in TokenClients, NEW a \in 0 .. clock
    PROVE  /\ a \in Nat /\ clock \in Nat /\ k \in Clients /\ restarts \in Nat
           /\ IsFiniteSet(TokensFrom(k, a)) /\ Cardinality(TokensFrom(k, a)) \in Nat
           /\ Admitted(k, a, clock) \in Nat
           /\ Limit * WindowsIn(a, clock) \in Nat
           /\ Admitted(k, a, clock) <= Limit * WindowsIn(a, clock)
<1> USE LimitAssumption, LifetimeAssumption
<1>1. /\ a \in Nat /\ clock \in Nat /\ a <= clock /\ k \in Clients
      /\ restarts \in Nat /\ log[k] \in Seq(0 .. MaxTime)
  BY DEF Books, RInv, Types, TokenTypes
<1>2. IsFiniteSet(TokensFrom(k, a)) /\ Cardinality(TokensFrom(k, a)) \in Nat
  <2>1. TokensFrom(k, a) \in SUBSET tokens
    BY DEF TokensFrom
  <2> QED BY <2>1, FS_Subset, FS_CardinalityType DEF Books
<1>3. Admitted(k, a, clock) \in Nat
  <2>1. PICK t : t = clock
    OBVIOUS
  <2>2. Cardinality(Entries(log[k], a, t)) \in Nat
    BY <1>1, EntriesWithin
  <2>3. Admitted(k, a, t) \in Nat
    BY <1>1, <2>2, AdmittedEntries
  <2> QED BY <2>1, <2>3
<1>4. Limit * WindowsIn(a, clock) \in Nat
  BY <1>1, WindowCount, Budgets
<1>5. Admitted(k, a, clock) <= Limit * WindowsIn(a, clock)
  BY <1>1 DEF Books, AdmissionsAreSpread
<1> QED BY <1>1, <1>2, <1>3, <1>4, <1>5

(* An issue of a token: it is on the log, or it is the first of the        *)
(* interval.                                                               *)
LEMMA PaidByLogin ==
    ASSUME Books, CallsFollowTokens, TokensArePaid, NEW c \in Callers, Decide(c), Admits(c),
           tokens' = tokens \cup {[client |-> call[c].client, user |-> Cardinality(tokens),
                                   issued |-> clock, exp |-> Expiry(clock)]},
           NEW k \in TokenClients, NEW a \in 0 .. clock,
           Cardinality(TokensFrom(k, a)') \in Nat
    PROVE  Cardinality(TokensFrom(k, a)') <=
              (Limit * WindowsIn(a, clock)) * restarts + Cardinality(Entries(log'[k], a, clock)) + 1
<1> USE LimitAssumption, LifetimeAssumption
<1>1. PICK j \in Clients, now \in 0 .. clock :
        call[c] = [client |-> j, at |-> now] /\ log'[j] = Append(log[j], now)
  BY LoginsAreLogged DEF Books, RInv
<1>2. /\ IsFiniteSet(TokensFrom(k, a)) /\ Cardinality(TokensFrom(k, a)) \in Nat
      /\ a \in Nat /\ clock \in Nat /\ k \in Clients /\ restarts \in Nat
      /\ Admitted(k, a, clock) \in Nat /\ Limit * WindowsIn(a, clock) \in Nat
  BY BooksTyped
<1>3. PICK t, T, f, r, n, l :
        /\ t = clock /\ T = TokensFrom(k, a) /\ f = Limit * WindowsIn(a, clock)
        /\ r = restarts /\ n = Admitted(k, a, clock) /\ l = log'[k]
  OBVIOUS
<1>4. Cardinality(T) <= f * r + n + 1
  BY <1>3 DEF TokensArePaid
<1>5. /\ n = Cardinality(Entries(log[k], a, t))
      /\ Admitted(k, a, t)' = Cardinality(Entries(l, a, t))
  BY <1>2, <1>3, AdmittedEntries
<1>6. PICK m \in Nat : m = Cardinality(Entries(l, a, t)) /\ n <= m
  <2>1. Types /\ t \in Nat
    BY <1>2, <1>3 DEF Books, RInv
  <2>2. Admitted(k, a, t) = n
    BY <1>3
  <2>3. Admitted(k, a, t)' \in Nat /\ Admitted(k, a, t) <= Admitted(k, a, t)'
    BY <1>2, <2>1, AdmittedGrows
  <2> QED BY <1>5, <2>2, <2>3
<1>7. PICK z : TokensFrom(k, a)' \in SUBSET (T \cup {z}) /\ (j # k => TokensFrom(k, a)' = T)
  <2>1. PICK z : z = [client |-> j, user |-> Cardinality(tokens),
                      issued |-> clock, exp |-> Expiry(clock)]
    OBVIOUS
  <2>2. tokens' = tokens \cup {z} /\ z.client = j
    BY <1>1, <2>1
  <2>3. TokensFrom(k, a)' \in SUBSET (T \cup {z})
    BY <1>3, <2>2 DEF TokensFrom
  <2>4. j # k => TokensFrom(k, a)' = T
    BY <1>3, <2>2 DEF TokensFrom
  <2> QED BY <2>3, <2>4
<1>8. PICK s \in Nat : s = Cardinality(TokensFrom(k, a)')
  OBVIOUS
<1>9. s <= Cardinality(T) + 1 /\ (T = {} => s <= 1)
  <2>1. IsFiniteSet(T) /\ Cardinality(T) \in Nat
    BY <1>2, <1>3
  <2>2. /\ IsFiniteSet(T \cup {z}) /\ Cardinality(T \cup {z}) \in Nat
        /\ Cardinality(T \cup {z}) <= Cardinality(T) + 1
    <3>1. /\ IsFiniteSet(T \cup {z})
          /\ Cardinality(T \cup {z}) = IF z \in T THEN Cardinality(T) ELSE Cardinality(T) + 1
      BY <2>1, FS_AddElement
    <3> QED BY <2>1, <3>1
  <2>3. s <= Cardinality(T \cup {z})
    BY <1>7, <1>8, <2>2, FS_Subset
  <2>4. Cardinality({}) = 0
    BY FS_EmptySet
  <2> QED BY <2>1, <2>2, <2>3, <2>4
<1>10. /\ Cardinality(T) \in Nat /\ f \in Nat /\ r \in Nat /\ n \in Nat
  BY <1>2, <1>3
<1>11. s <= f * r + m + 1
  <2>1. CASE j # k
    <3>1. s <= Cardinality(T)
      BY <1>7, <1>8, <2>1
    <3> QED BY <1>4, <1>6, <1>10, <3>1, Accounts
  <2>2. CASE j = k /\ a <= now
    <3>1. log[k] \in Seq(0 .. MaxTime) /\ now \in 0 .. MaxTime
      BY <1>2 DEF Books, RInv, Types
    <3>2. now \in a .. t
      BY <1>2, <1>3, <2>2
    <3>3. m = n + 1
      <4>1. l = Append(log[k], now)
        BY <1>1, <1>3, <2>2
      <4>2. Cardinality(Entries(Append(log[k], now), a, t)) =
              Cardinality(Entries(log[k], a, t)) + 1
        BY <3>1, <3>2, AppendCounts
      <4> QED BY <1>5, <1>6, <4>1, <4>2
    <3> QED BY <1>4, <1>6, <1>9, <1>10, <3>3, Accounts
  <2>3. CASE j = k /\ now < a
    <3>1. T = {}
      <4>1. ~ Idle(c) /\ call[c].at = now
        BY <1>1 DEF Decide
      <4>2. \A token \in tokens : token.issued <= now
        BY <4>1 DEF CallsFollowTokens
      <4>3. \A token \in tokens : token.issued \in Nat
        BY DEF Books, TokensFit
      <4>4. now \in Nat
        BY <1>2
      <4>5. \A token \in tokens : ~ (token.issued >= a)
        BY <1>2, <2>3, <4>2, <4>3, <4>4
      <4> QED BY <1>3, <4>5 DEF TokensFrom
    <3>2. s <= 1
      BY <1>9, <3>1
    <3>3. f * r \in Nat
      BY <1>10
    <3> QED BY <3>2, <3>3
  <2>4. a <= now \/ now < a
    BY <1>2
  <2> QED BY <2>1, <2>2, <2>3, <2>4
<1> QED BY <1>3, <1>6, <1>8, <1>11

(* Every step keeps the accounts.                                          *)
LEMMA TokensPaidNext ==
    ASSUME Books, Books', CallsFollowTokens, TokensArePaid, [GateNext]_<<vars, gate>>
    PROVE  TokensArePaid'
<1> USE LimitAssumption, LifetimeAssumption
<1> SUFFICES ASSUME NEW k \in TokenClients, NEW a \in 0 .. clock'
             PROVE  Cardinality(TokensFrom(k, a)') <=
                      (Limit * WindowsIn(a, clock')) * restarts' + Admitted(k, a, clock)' + 1
  BY DEF TokensArePaid, WindowsIn
<1>1. PICK u, s, m, g, l : /\ u = clock' /\ s = Cardinality(TokensFrom(k, a)')
                           /\ m = Admitted(k, a, clock)' /\ g = Limit * WindowsIn(a, clock')
                           /\ l = log'[k]
  OBVIOUS
<1>2. /\ a \in Nat /\ u \in Nat /\ a <= u /\ s \in Nat /\ m \in Nat /\ g \in Nat
      /\ k \in Clients /\ restarts' \in Nat
  <2>1. /\ a \in Nat /\ clock' \in Nat /\ k \in Clients /\ restarts' \in Nat
        /\ l \in Seq(0 .. MaxTime)
    BY <1>1 DEF Books, RInv, Types, TokenTypes
  <2>2. s \in Nat
    <3>1. TokensFrom(k, a)' \in SUBSET tokens' /\ IsFiniteSet(tokens')
      BY DEF TokensFrom, Books
    <3> QED BY <1>1, <3>1, FS_Subset, FS_CardinalityType
  <2>3. m \in Nat
    <3>1. m = Cardinality(Entries(l, a, u))
      BY <1>1 DEF Admitted, Entries
    <3> QED BY <2>1, <3>1, EntriesWithin
  <2>4. g \in Nat
    <3>1. WindowsIn(a, u) \in Nat
      BY <1>1, <2>1, WindowCount
    <3> QED BY <1>1, <3>1, Budgets
  <2> QED BY <1>1, <2>1, <2>2, <2>3, <2>4
<1>3. m = Cardinality(Entries(l, a, u))
  BY <1>1 DEF Admitted, Entries
<1>4. CASE ~ (a <= clock)
  <2>1. Tick /\ UNCHANGED gate
    BY <1>1, <1>2, <1>4, ClockGoesOn
  <2>2. tokens' = tokens
    BY <2>1 DEF gate
  <2>3. \A token \in tokens : ~ (token.issued >= a)
    BY <1>2, <1>4 DEF Books, TokensFit
  <2>4. TokensFrom(k, a)' = {}
    BY <2>2, <2>3 DEF TokensFrom
  <2>5. s = 0
    BY <1>1, <2>4, FS_EmptySet
  <2>6. PICK x \in Nat : x = g * restarts'
    <3>1. PICK q \in Nat : q = restarts'
      BY <1>2
    <3>2. g * q \in Nat
      BY <1>2
    <3> QED BY <3>1, <3>2
  <2>7. s <= x + m + 1
    BY <1>2, <2>5
  <2> QED BY <1>1, <2>6, <2>7
<1>5. CASE a <= clock
  <2>0. a \in 0 .. clock
    BY <1>2, <1>5
  <2>1. PICK t, n, f, r, v : /\ t = Cardinality(TokensFrom(k, a)) /\ n = Admitted(k, a, clock)
                             /\ f = Limit * WindowsIn(a, clock) /\ r = restarts /\ v = clock
    OBVIOUS
  <2>2. /\ t \in Nat /\ n \in Nat /\ f \in Nat /\ r \in Nat /\ v \in Nat /\ n <= f
        /\ a <= v
    BY <1>5, <2>0, <2>1, BooksTyped
  <2>3. t <= f * r + n + 1
    BY <2>0, <2>1 DEF TokensArePaid
  <2>4. v <= u
    BY <1>1, <1>2, <2>1, <2>2, ClockGoesOn DEF Tick
  <2>5. f <= g
    <3>1. WindowsIn(a, v) \in Nat /\ WindowsIn(a, u) \in Nat /\ WindowsIn(a, v) <= WindowsIn(a, u)
      BY <1>2, <2>2, <2>4, WindowCount
    <3> QED BY <1>1, <2>1, <3>1, Budgets
  <2>6. n = Cardinality(Entries(log[k], a, v))
    BY <2>1 DEF Admitted, Entries
  <2>7. CASE tokens' = tokens /\ restarts' = restarts /\ n <= m
    <3>1. s = t
      BY <1>1, <2>1, <2>7 DEF TokensFrom
    <3> QED BY <1>1, <1>2, <2>1, <2>2, <2>3, <2>5, <2>7, <3>1, Accounts
  <2>8. CASE tokens' = tokens /\ restarts' = restarts /\ log' = log
    <3>1. log[k] \in Seq(0 .. MaxTime)
      BY <1>2 DEF Books, RInv, Types
    <3>2. \A i \in DOMAIN log[k] : log[k][i] \in a .. v => log[k][i] \in a .. u
      BY <1>2, <2>2, <2>4
    <3>3. n <= m
      BY <1>1, <1>3, <2>6, <2>8, <3>1, <3>2, EntriesWithin
    <3> QED BY <2>7, <2>8, <3>3
  <2>9. ASSUME NEW c \in Callers, Decide(c), tokens' = tokens, restarts' = restarts
        PROVE  s <= g * restarts' + m + 1
    <3>1. u = v /\ Types
      BY <1>1, <2>1, <2>9 DEF Decide, Books, RInv
    <3>2. Admitted(k, a, v) <= Admitted(k, a, v)'
      BY <1>2, <2>2, <2>9, <3>1, AdmittedGrows
    <3>3. n <= m
      BY <1>1, <1>2, <1>3, <2>6, <3>1, <3>2, AdmittedEntries
    <3> QED BY <1>1, <2>7, <2>9, <3>3
  <2>10. ASSUME NEW c \in Callers, Decide(c), Admits(c), restarts' = restarts,
                tokens' = tokens \cup {[client |-> call[c].client, user |-> Cardinality(tokens),
                                        issued |-> clock, exp |-> Expiry(clock)]}
         PROVE  s <= g * restarts' + m + 1
    <3>1. clock' = clock
      BY <2>10 DEF Decide
    <3>2. s <= (Limit * WindowsIn(a, clock)) * restarts + Cardinality(Entries(log'[k], a, clock)) + 1
      BY <1>1, <1>2, <2>0, <2>10, PaidByLogin
    <3> QED BY <1>1, <1>3, <2>10, <3>1, <3>2
  <2>11. CASE RestartGate
    <3>1. tokens' = tokens /\ restarts' = restarts + 1
      BY <2>11 DEF RestartGate
    <3>2. s = t
      BY <1>1, <2>1, <3>1 DEF TokensFrom
    <3>3. s <= g * (r + 1) + m + 1
      BY <1>2, <2>2, <2>3, <2>5, <3>2, Accounts
    <3> QED BY <1>1, <2>1, <3>1, <3>3
  <2>12. s <= g * restarts' + m + 1
    <3>1. ASSUME NEW c \in Callers, VerifySignature(c) PROVE s <= g * restarts' + m + 1
      BY <2>9, <3>1 DEF VerifySignature, gate
    <3>2. ASSUME NEW c \in Callers, NEW correct \in BOOLEAN, Login(c, correct)
          PROVE  s <= g * restarts' + m + 1
      BY <2>9, <2>10, <3>2 DEF Login
    <3>3. CASE Tick /\ UNCHANGED gate
      BY <1>1, <2>8, <3>3 DEF Tick, gate
    <3>4. ASSUME NEW c \in Callers, NEW j \in Clients, Sample(c, j), UNCHANGED gate
          PROVE  s <= g * restarts' + m + 1
      BY <1>1, <2>8, <3>4 DEF Sample, gate
    <3>5. CASE UNCHANGED <<vars, gate>>
      BY <1>1, <2>8, <3>5 DEF vars, gate
    <3>6. CASE RestartGate
      BY <1>1, <2>11, <3>6
    <3> QED BY <3>1, <3>2, <3>3, <3>4, <3>5, <3>6 DEF GateNext
  <2> QED BY <1>1, <2>12
<1> QED BY <1>4, <1>5

(* The books are kept on one event loop.                                   *)
LEMMA BooksAreKept == EventLoop => (GateSpec => []Books)
<1> SUFFICES ASSUME EventLoop PROVE GateSpec => []Books
  OBVIOUS
<1>1. RInv /\ AdmissionsAreSpread /\ (TokenTypes /\ IsFiniteSet(tokens)) /\ TokensFit => Books
  BY DEF Books
<1> QED BY <1>1, GateUsesLimiter, LimiterInductive, AdmissionsSpread, GateFinite,
           TokensFitAlways, PTL

(* The inductive invariant of the accounts, on one event loop: every token *)
(* is paid for by an admission, wherever an interval begins.               *)
THEOREM TokensPaid == EventLoop => (GateSpec => [](TokensArePaid /\ CallsFollowTokens))
<1> SUFFICES ASSUME EventLoop PROVE GateSpec => [](TokensArePaid /\ CallsFollowTokens)
  OBVIOUS
<1>1. GateInit /\ Books => TokensArePaid /\ CallsFollowTokens
  <2> SUFFICES ASSUME GateInit, Books PROVE TokensArePaid /\ CallsFollowTokens
    OBVIOUS
  <2>1. tokens = {}
    BY DEF GateInit
  <2>2. CallsFollowTokens
    BY <2>1 DEF CallsFollowTokens
  <2>3. ASSUME NEW k \in TokenClients, NEW a \in 0 .. clock
        PROVE  Cardinality(TokensFrom(k, a)) <=
                 (Limit * WindowsIn(a, clock)) * restarts + Admitted(k, a, clock) + 1
    <3>1. Cardinality(TokensFrom(k, a)) = 0
      BY <2>1, FS_EmptySet DEF TokensFrom
    <3>2. PICK f \in Nat, r \in Nat, n \in Nat :
            f = Limit * WindowsIn(a, clock) /\ r = restarts /\ n = Admitted(k, a, clock)
      BY BooksTyped
    <3>3. f * r \in Nat
      OBVIOUS
    <3> QED BY <3>1, <3>2, <3>3
  <2> QED BY <2>2, <2>3 DEF TokensArePaid
<1>2. ASSUME Books, Books', TokensArePaid, CallsFollowTokens, [GateNext]_<<vars, gate>>
      PROVE  TokensArePaid' /\ CallsFollowTokens'
  <2>1. TokensArePaid'
    BY <1>2, TokensPaidNext
  <2>2. CallsFollowTokens'
    BY <1>2, CallsFollowNext DEF Books
  <2> QED BY <2>1, <2>2
<1> QED BY <1>1, <1>2, BooksAreKept, PTL DEF GateSpec

(* However long a client tries, whatever it sends and whatever restarts,   *)
(* it never holds more valid tokens than the limiter admits logins in the  *)
(* lifetime of one, as many again per restart, and one more.               *)
THEOREM TokensBounded == EventLoop => (GateSpec => []ValidTokensAreBounded)
<1> USE LimitAssumption, LifetimeAssumption
<1> SUFFICES ASSUME EventLoop PROVE GateSpec => []ValidTokensAreBounded
  OBVIOUS
<1>1. ASSUME Books, LifetimeIsKept, TokensArePaid PROVE ValidTokensAreBounded
  <2> SUFFICES ASSUME NEW k \in TokenClients
               PROVE  Cardinality({token \in tokens : token.client = k /\ Valid(token)})
                        <= Limit * WindowsPerLifetime * (1 + restarts) + 1
    BY DEF ValidTokensAreBounded
  <2>1. PICK L \in Nat : L = Lifetime * Second /\ L >= 1
    <3>1. Lifetime * Second \in Nat /\ Lifetime * Second >= 1
      OBVIOUS
    <3> QED BY <3>1
  <2>2. clock \in Nat /\ \A token \in tokens : token.issued \in Nat /\ token.issued <= clock
    BY <1>1 DEF Books, TokensFit
  <2>3. PICK a \in 0 .. clock : a = IF clock >= L THEN clock - L + 1 ELSE 0
    <3>1. clock >= L => clock - L + 1 \in 0 .. clock
      BY <2>1, <2>2
    <3>2. 0 \in 0 .. clock
      BY <2>2
    <3> QED BY <3>1, <3>2
  <2>4. PICK S : S = {token \in tokens : token.client = k /\ Valid(token)}
    OBVIOUS
  <2>5. S \in SUBSET TokensFrom(k, a)
    <3> SUFFICES ASSUME NEW token \in S PROVE token \in TokensFrom(k, a)
      OBVIOUS
    <3>1. token \in tokens /\ token.client = k /\ Valid(token)
      BY <2>4
    <3>2. clock - token.issued < L
      BY <1>1, <2>1, <3>1 DEF LifetimeIsKept
    <3>3. token.issued >= a
      BY <2>1, <2>2, <2>3, <3>1, <3>2
    <3> QED BY <3>1, <3>3 DEF TokensFrom
  <2>6. PICK t \in Nat, n \in Nat, f \in Nat, r \in Nat :
          /\ t = Cardinality(TokensFrom(k, a)) /\ n = Admitted(k, a, clock)
          /\ f = Limit * WindowsIn(a, clock) /\ r = restarts /\ n <= f
    BY <1>1, BooksTyped
  <2>7. t <= f * r + n + 1
    BY <1>1, <2>6 DEF TokensArePaid
  <2>8. Cardinality(S) \in Nat /\ Cardinality(S) <= t
    <3>1. IsFiniteSet(TokensFrom(k, a))
      BY <1>1, BooksTyped
    <3> QED BY <2>5, <2>6, <3>1, FS_Subset, FS_CardinalityType
  <2>9. PICK g \in Nat : g = Limit * WindowsPerLifetime /\ f <= g
    <3>1. PICK x \in Nat, y \in Nat, d \in Nat \ {0} :
            x = clock - a + 1 + Window /\ y = L + Window /\ x <= y /\ d = Window + 1
      <4>1. clock - a + 1 + Window \in Nat /\ clock - a + 1 + Window <= L + Window
        BY <2>1, <2>2, <2>3
      <4>2. L + Window \in Nat /\ Window + 1 \in Nat \ {0}
        BY <2>1
      <4> QED BY <4>1, <4>2
    <3>2. x \div d \in Nat /\ y \div d \in Nat /\ x \div d <= y \div d
      BY <3>1, Division, Quotients
    <3>3. WindowsIn(a, clock) = x \div d /\ WindowsPerLifetime = y \div d
      BY <2>1, <3>1 DEF WindowsIn, WindowsPerLifetime
    <3>4. /\ Limit * (x \div d) <= Limit * (y \div d)
          /\ Limit * (y \div d) \in Nat
      BY <3>2, Budgets
    <3> QED BY <2>6, <3>3, <3>4
  <2>10. f * r + n + 1 <= g * (1 + r) + 1
    <3>1. f * r <= g * r /\ f * r \in Nat /\ g * r \in Nat
      BY <2>9
    <3>2. g * (1 + r) = g * r + g
      OBVIOUS
    <3> QED BY <2>6, <2>9, <3>1, <3>2
  <2>11. g * (1 + r) \in Nat /\ f * r \in Nat
    OBVIOUS
  <2>12. Cardinality(S) <= g * (1 + r) + 1
    BY <2>7, <2>8, <2>10, <2>11
  <2> QED BY <2>4, <2>6, <2>9, <2>12
<1> QED BY <1>1, BooksAreKept, LifetimesAreKept, TokensPaid, PTL

=============================================================================
