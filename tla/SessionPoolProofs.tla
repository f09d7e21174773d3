------------------------- MODULE SessionPoolProofs -------------------------
(***************************************************************************)
(* The safety of SessionPool, for any number of requests, connections and  *)
(* outages.                                                                *)
(***************************************************************************)
EXTENDS SessionPool, FiniteSetTheorems, TLAPS

Types ==
    /\ pc \in [Requests -> {"start", "read", "write", "commit", "failed", "done"}]
    /\ link \in [Conns -> {"none", "live", "dead"}]
    /\ holder \in [Conns -> Requests \cup {Nobody}]
    /\ lock \in Requests \cup {Nobody}
    /\ up \in BOOLEAN
    /\ answer \in [Requests -> {"none", "ok", "error", "unhealthy", "lost"}]

(* Whoever is served has a connection that was opened.                     *)
ServedHaveOne ==
    \A r \in Requests : pc[r] \in {"read", "write", "commit"} =>
        \E c \in Conns : holder[c] = r /\ link[c] # "none"

(* Live connections lead to a database that answers, and the row belongs   *)
(* to a request with a live one.                                           *)
LiveOnes ==
    /\ \A c \in Conns : link[c] = "live" => up
    /\ lock # Nobody => \E c \in Conns : holder[c] = lock /\ link[c] = "live"

Base == Types /\ NothingLeaks /\ ServedHaveOne /\ LiveOnes

Dead == {c \in Conns : link[c] = "dead"}

(* Each dead connection may still cost one request.                        *)
Counts ==
    /\ outages \in 0 .. MaxOutages
    /\ burnt \in Nat
    /\ Cardinality(Idle) <= PoolSize
    /\ burnt + Cardinality(Dead) <= outages * Cardinality(Conns)

SInv == Base /\ Counts

(* No request has a connection in the beginning.                           *)
LEMMA BaseInit == Init => Base
  BY PoolAssumption DEF Init, Base, Types, NothingLeaks, ServedHaveOne, LiveOnes

(* Every step of a request keeps the first half.                            *)
LEMMA BaseStep == ASSUME Base, NEW r \in Requests, Step(r) PROVE Base'
<1> USE PoolAssumption DEF Base
<1>1. CASE Checkout(r)
  <2>1. PICK c \in Conns :
            /\ holder[c] = Nobody
            /\ \/ link[c] # "none" /\ link' = link
               \/ link[c] = "none" /\ up /\ link' = [link EXCEPT ![c] = "live"]
            /\ holder' = [holder EXCEPT ![c] = r]
    BY <1>1 DEF Checkout, Idle, Unopened
  <2>2. pc[r] = "start" /\ pc' = [pc EXCEPT ![r] = "read"] /\ UNCHANGED <<lock, up, answer>>
    BY <1>1 DEF Checkout, Goes, database
  <2>3. Types'
    BY <2>1, <2>2 DEF Types
  <2>4. \A d \in Conns : holder[d] # r
    BY <2>2 DEF NothingLeaks, Types
  <2>5. NothingLeaks'
    BY <2>1, <2>2, <2>4 DEF NothingLeaks, Types, Of
  <2>6. ServedHaveOne'
    BY <2>1, <2>2, <2>4 DEF ServedHaveOne, Types
  <2>7. LiveOnes'
    BY <2>1, <2>2 DEF LiveOnes, Types
  <2> QED BY <2>3, <2>5, <2>6, <2>7
<1>2. CASE CheckoutFails(r)
  <2>1. /\ pc[r] = "start" /\ pc' = [pc EXCEPT ![r] = "failed"]
        /\ UNCHANGED <<link, holder, lock, up>>
    BY <1>2 DEF CheckoutFails, Raise, database
  <2>2. answer' \in [Requests -> {"none", "ok", "error", "unhealthy", "lost"}]
    BY <1>2 DEF CheckoutFails, Raise, Types
  <2>3. Types'
    BY <2>1, <2>2 DEF Types
  <2>4. NothingLeaks' /\ ServedHaveOne' /\ LiveOnes'
    BY <2>1 DEF NothingLeaks, ServedHaveOne, LiveOnes, Types, Of
  <2> QED BY <2>3, <2>4
<1>3. CASE Read(r)
  <2>1. PICK next \in {"write", "commit"} :
            /\ pc[r] = "read" /\ pc' = [pc EXCEPT ![r] = next]
            /\ UNCHANGED <<link, holder, lock, up, answer>>
    BY <1>3 DEF Read, Goes, database
  <2>2. Types'
    BY <2>1 DEF Types
  <2>3. NothingLeaks' /\ ServedHaveOne' /\ LiveOnes'
    BY <2>1 DEF NothingLeaks, ServedHaveOne, LiveOnes, Types, Of
  <2> QED BY <2>2, <2>3
<1>4. CASE Write(r)
  <2>1. /\ pc[r] = "write" /\ pc' = [pc EXCEPT ![r] = "commit"]
        /\ lock = Nobody /\ lock' = r
        /\ UNCHANGED <<link, holder, up, answer>>
        /\ \E c \in Conns : holder[c] = r /\ link[c] = "live"
    BY <1>4 DEF Write, Goes, database, Works, Of
  <2>2. Types'
    BY <2>1 DEF Types
  <2>3. NothingLeaks' /\ ServedHaveOne' /\ LiveOnes'
    BY <2>1 DEF NothingLeaks, ServedHaveOne, LiveOnes, Types, Of
  <2> QED BY <2>2, <2>3
<1>5. ASSUME Close(r), pc' = [pc EXCEPT ![r] = "done"], up' = up,
             answer' \in [Requests -> {"none", "ok", "error", "unhealthy", "lost"}]
      PROVE  Base'
  <2>1. /\ holder' = [c \in Conns |-> IF holder[c] = r THEN Nobody ELSE holder[c]]
        /\ lock' = IF lock = r THEN Nobody ELSE lock
        /\ \A c \in Conns : holder[c] # r => link'[c] = link[c]
        /\ \A c \in Conns : link'[c] = link[c] \/ link'[c] = "none"
        /\ link' \in [Conns -> {"none", "live", "dead"}]
    BY <1>5 DEF Close, Returned, Types
  <2>2. Types'
    BY <1>5, <2>1 DEF Types
  <2>3. NothingLeaks'
    BY <1>5, <2>1 DEF NothingLeaks, Types, Of
  <2>4. ServedHaveOne'
    BY <1>5, <2>1 DEF ServedHaveOne, Types
  <2>5. LiveOnes'
    BY <1>5, <2>1 DEF LiveOnes, Types
  <2> QED BY <2>2, <2>3, <2>4, <2>5
<1>6. CASE Commit(r)
  BY <1>5, <1>6 DEF Commit, Goes, Types, database
<1>7. CASE Rollback(r) /\ UNCHANGED <<database, burnt, answer>>
  BY <1>5, <1>7 DEF Rollback, Goes, Types, database
<1>8. CASE Fail(r)
  <2>1. /\ pc[r] \in {"read", "write", "commit"}
        /\ pc' = [pc EXCEPT ![r] = "failed"]
        /\ answer' \in [Requests -> {"none", "ok", "error", "unhealthy", "lost"}]
        /\ UNCHANGED <<holder, lock, up>>
    BY <1>8 DEF Fail, InTransaction, Raise, database, Types
  <2>2. /\ link' \in [Conns -> {"none", "live", "dead"}]
        /\ \A c \in Conns : link'[c] = link[c] \/ link'[c] = "none"
        /\ \A c \in Conns : holder[c] \notin {r, Nobody} => link'[c] = link[c]
    BY <1>8 DEF Fail, Discarded, Idle, Of, Types
  <2>3. lock # r
    <3>1. ~(\E c \in Conns : holder[c] = r /\ link[c] = "live" /\ up)
      BY <1>8 DEF Fail, Works, Of
    <3> QED BY <3>1 DEF LiveOnes
  <2>4. Types'
    BY <2>1, <2>2 DEF Types
  <2>5. NothingLeaks'
    BY <2>1, <2>2, <2>3 DEF NothingLeaks, Types, Of
  <2>6. ServedHaveOne'
    BY <2>1, <2>2 DEF ServedHaveOne, Types
  <2>7. LiveOnes'
    BY <2>1, <2>2, <2>3 DEF LiveOnes, Types
  <2> QED BY <2>4, <2>5, <2>6, <2>7
<1> QED BY <1>1, <1>2, <1>3, <1>4, <1>6, <1>7, <1>8 DEF Step

(* An exception of the handler leaves the connection and the row to the     *)
(* rollback, and a cancellation at most takes both away at once.            *)
LEMMA BaseInterrupt == ASSUME Base, NEW r \in Requests, Interrupt(r) PROVE Base'
<1> USE PoolAssumption DEF Base
<1>1. CASE Reject(r)
  <2>1. /\ pc[r] \in {"read", "write", "commit"}
        /\ pc' = [pc EXCEPT ![r] = "failed"]
        /\ answer' \in [Requests -> {"none", "ok", "error", "unhealthy", "lost"}]
        /\ UNCHANGED <<link, holder, lock, up>>
    BY <1>1 DEF Reject, InTransaction, Raise, database, Types
  <2>2. Types'
    BY <2>1 DEF Types
  <2>3. NothingLeaks' /\ ServedHaveOne' /\ LiveOnes'
    BY <2>1 DEF NothingLeaks, ServedHaveOne, LiveOnes, Types, Of
  <2> QED BY <2>2, <2>3
<1>2. CASE Cancel(r)
  <2>1. /\ pc[r] \in {"start", "read", "write", "commit"}
        /\ pc' = [pc EXCEPT ![r] = "failed"]
        /\ answer' \in [Requests -> {"none", "ok", "error", "unhealthy", "lost"}]
        /\ UNCHANGED <<holder, up>>
    BY <1>2 DEF Cancel, Cancelled, InTransaction, database, Types
  <2>2. \/ link' = link /\ lock' = lock
        \/ /\ link' = [c \in Conns |-> IF holder[c] = r THEN "none" ELSE link[c]]
           /\ lock' = IF lock = r THEN Nobody ELSE lock
    BY <1>2 DEF Cancel, Of
  <2>3. Types'
    BY <2>1, <2>2 DEF Types
  <2>4. NothingLeaks'
    BY <2>1, <2>2 DEF NothingLeaks, Types, Of
  <2>5. ServedHaveOne'
    BY <2>1, <2>2 DEF ServedHaveOne, Types
  <2>6. LiveOnes'
    BY <2>1, <2>2 DEF LiveOnes, Types
  <2> QED BY <2>3, <2>4, <2>5, <2>6
<1> QED BY <1>1, <1>2 DEF Interrupt

(* So do the steps of the database.                                         *)
LEMMA BaseNext == Base /\ [Next]_vars => Base'
<1> SUFFICES ASSUME Base, [Next]_vars PROVE Base'
  OBVIOUS
<1>1. ASSUME NEW r \in Requests, Step(r) \/ Interrupt(r) PROVE Base'
  BY <1>1, BaseStep, BaseInterrupt
<1>2. CASE Outage
  <2>1. /\ up' = FALSE /\ lock' = Nobody
        /\ UNCHANGED <<pc, holder, answer>>
        /\ link' = [c \in Conns |-> IF link[c] = "live" THEN "dead" ELSE link[c]]
    BY <1>2 DEF Outage
  <2>2. Types'
    BY <2>1 DEF Base, Types
  <2>3. NothingLeaks' /\ ServedHaveOne'
    BY <2>1 DEF Base, NothingLeaks, ServedHaveOne, Types, Of
  <2>4. LiveOnes'
    BY <2>1 DEF Base, LiveOnes, Types
  <2> QED BY <2>2, <2>3, <2>4 DEF Base
<1>3. CASE Recover
  BY <1>3 DEF Recover, Base, Types, NothingLeaks, ServedHaveOne, LiveOnes, Of
<1>4. CASE UNCHANGED vars
  BY <1>4 DEF vars, Base, Types, NothingLeaks, ServedHaveOne, LiveOnes, Of
<1> QED BY <1>1, <1>2, <1>3, <1>4 DEF Next, Done

-----------------------------------------------------------------------------

N == Cardinality(Conns)

(* Sets of connections are finite and ordered by their sizes.              *)
LEMMA SubsetSize ==
    ASSUME NEW T \in SUBSET Conns, NEW S \in SUBSET T
    PROVE  /\ IsFiniteSet(S) /\ IsFiniteSet(T)
           /\ Cardinality(S) \in Nat /\ Cardinality(T) \in Nat /\ N \in Nat
           /\ Cardinality(S) <= Cardinality(T) /\ Cardinality(T) <= N
<1>1. IsFiniteSet(Conns)
  BY PoolAssumption
<1>2. IsFiniteSet(T) /\ Cardinality(T) <= N
  BY <1>1, FS_Subset DEF N
<1>3. IsFiniteSet(S) /\ Cardinality(S) <= Cardinality(T)
  BY <1>2, FS_Subset
<1> QED BY <1>1, <1>2, <1>3, FS_CardinalityType DEF N

(* While nobody fails and the database does not, the counts hold if the    *)
(* pool keeps no more and no connection dies.                              *)
LEMMA CountsKept ==
    ASSUME Counts, UNCHANGED <<outages, burnt>>,
           Cardinality(Idle') <= PoolSize, Dead' \subseteq Dead
    PROVE  Counts'
<1>1. Dead \in SUBSET Conns /\ Dead' \in SUBSET Dead
  BY DEF Dead
<1>2. /\ Cardinality(Dead') <= Cardinality(Dead)
      /\ Cardinality(Dead') \in Nat /\ Cardinality(Dead) \in Nat /\ N \in Nat
  BY <1>1, SubsetSize
<1>3. outages * N \in Int
  BY <1>2 DEF Counts
<1> QED BY <1>2, <1>3 DEF Counts, N

(* Fewer idle connections of a finite pool are fewer in number.            *)
LEMMA IdleSmaller ==
    ASSUME Counts, Idle' \subseteq Idle
    PROVE  Cardinality(Idle') <= PoolSize
<1>1. Idle \in SUBSET Conns /\ Idle' \in SUBSET Idle
  BY DEF Idle
<1>2. PoolSize \in Int
  BY PoolAssumption
<1> QED BY <1>1, <1>2, SubsetSize DEF Counts

(* Nothing is open, dead or idle in the beginning.                         *)
LEMMA CountsInit == Init => Counts
<1> SUFFICES ASSUME Init PROVE Counts
  OBVIOUS
<1>1. Idle = {} /\ Dead = {}
  BY DEF Init, Idle, Dead
<1>2. N \in Nat
  BY SubsetSize DEF N
<1>3. Cardinality(Idle) = 0 /\ Cardinality(Dead) = 0
  BY <1>1, FS_EmptySet
<1>4. PoolSize \in Nat /\ MaxOutages \in Nat
  BY PoolAssumption, <1>2 DEF N
<1>5. outages = 0 /\ burnt = 0
  BY DEF Init
<1> QED BY <1>2, <1>3, <1>4, <1>5 DEF Counts, N

(* A closed session gives one connection back, if there is room.            *)
LEMMA CountsClose ==
    ASSUME Base, Counts, NEW r \in Requests, Close(r), UNCHANGED <<outages, burnt>>
    PROVE  Counts'
<1>1. /\ holder' = [c \in Conns |-> IF holder[c] = r THEN Nobody ELSE holder[c]]
      /\ link' = Returned(r)
  BY DEF Close
<1>2. CASE Cardinality(Idle) < PoolSize
  <2>1. link' = link
    BY <1>1, <1>2 DEF Returned
  <2>2. Dead' \subseteq Dead
    BY <2>1 DEF Dead
  <2>3. CASE \E c \in Conns : holder[c] = r
    <3>1. PICK c \in Conns : holder[c] = r
      BY <2>3
    <3>2. \A d \in Conns : holder[d] = r => d = c
      BY <3>1, PoolAssumption DEF Base, NothingLeaks
    <3>3. Idle' \subseteq Idle \cup {c} /\ Idle \cup {c} \subseteq Conns /\ Idle \subseteq Conns
      BY <1>1, <2>1, <3>1, <3>2 DEF Idle
    <3>4. IsFiniteSet(Idle) /\ Cardinality(Idle) \in Nat
      BY <3>3, SubsetSize
    <3>5. Cardinality(Idle \cup {c}) <= Cardinality(Idle) + 1
      <4>1. c \notin Idle
        BY <3>1, PoolAssumption DEF Idle
      <4>2. Cardinality(Idle \cup {c}) = Cardinality(Idle) + 1
        BY <3>4, <4>1, FS_AddElement
      <4> QED BY <3>4, <4>2
    <3>6. Cardinality(Idle') <= Cardinality(Idle \cup {c})
          /\ Cardinality(Idle') \in Nat /\ Cardinality(Idle \cup {c}) \in Nat
      BY <3>3, SubsetSize
    <3>7. PoolSize \in Int
      BY PoolAssumption
    <3>8. Cardinality(Idle') <= PoolSize
      BY <1>2, <3>4, <3>5, <3>6, <3>7
    <3> QED BY <2>2, <3>8, CountsKept
  <2>4. CASE ~ \E c \in Conns : holder[c] = r
    <3>1. Idle' \subseteq Idle
      BY <1>1, <2>1, <2>4 DEF Idle
    <3> QED BY <2>2, <3>1, IdleSmaller, CountsKept
  <2> QED BY <2>3, <2>4
<1>3. CASE ~(Cardinality(Idle) < PoolSize)
  <2>1. link' = [c \in Conns |-> IF holder[c] = r THEN "none" ELSE link[c]]
    BY <1>1, <1>3 DEF Returned
  <2>2. Idle' \subseteq Idle /\ Dead' \subseteq Dead
    BY <1>1, <2>1 DEF Idle, Dead
  <2> QED BY <2>2, IdleSmaller, CountsKept
<1> QED BY <1>2, <1>3

(* A request that fails while it is served uses a dead connection up.       *)
LEMMA CountsFail == ASSUME Base, Counts, NEW r \in Requests, Fail(r) PROVE Counts'
<1>1. /\ pc[r] \in {"read", "write", "commit"}
      /\ ~ \E c \in Conns : holder[c] = r /\ link[c] = "live" /\ up
      /\ link' = [c \in Conns |-> IF c \in Idle \cup Of(r) THEN "none" ELSE link[c]]
      /\ burnt' = burnt + 1
      /\ UNCHANGED <<holder, outages>>
  BY DEF Fail, InTransaction, Works, Of, Discarded, database
<1>2. PICK c \in Conns : holder[c] = r /\ link[c] = "dead"
  <2>1. PICK c \in Conns : holder[c] = r /\ link[c] # "none"
    BY <1>1 DEF Base, ServedHaveOne
  <2>2. link[c] = "dead"
    BY <1>1, <2>1 DEF Base, Types, LiveOnes
  <2> QED BY <2>1, <2>2
<1>3. c \in Dead /\ Dead \subseteq Conns /\ Dead' \subseteq Dead \ {c}
  BY <1>1, <1>2 DEF Dead, Of
<1>4. Cardinality(Dead \ {c}) = Cardinality(Dead) - 1
  BY <1>3, SubsetSize, FS_RemoveElement
<1>5. /\ Cardinality(Dead') <= Cardinality(Dead \ {c})
      /\ Cardinality(Dead') \in Nat /\ Cardinality(Dead) \in Nat /\ N \in Nat
  BY <1>3, SubsetSize
<1>6. Idle' \subseteq Idle
  BY <1>1 DEF Idle
<1>7. Cardinality(Idle') <= PoolSize
  BY <1>6, IdleSmaller
<1>8. outages * N \in Int
  BY <1>5 DEF Counts
<1> QED BY <1>1, <1>4, <1>5, <1>7, <1>8 DEF Counts, N

(* An outage kills at most every connection.                                *)
LEMMA CountsOutage == ASSUME Base, Counts, Outage PROVE Counts'
<1>1. /\ outages' = outages + 1 /\ outages < MaxOutages
      /\ UNCHANGED <<holder, burnt>>
      /\ link' = [c \in Conns |-> IF link[c] = "live" THEN "dead" ELSE link[c]]
  BY DEF Outage
<1>2. Idle' \subseteq Idle
  BY <1>1 DEF Idle
<1>3. Cardinality(Idle') <= PoolSize
  BY <1>2, IdleSmaller
<1>4. Dead \in SUBSET Conns /\ Dead' \in SUBSET Conns
  BY DEF Dead
<1>5. /\ Cardinality(Dead') <= N /\ N \in Nat
      /\ Cardinality(Dead) \in Nat /\ Cardinality(Dead') \in Nat
  BY <1>4, SubsetSize
<1>6. /\ outages \in Nat /\ MaxOutages \in Nat
  BY PoolAssumption DEF Counts
<1>7. (outages + 1) * N = outages * N + N /\ outages * N \in Int
  BY <1>5, <1>6
<1> QED BY <1>1, <1>3, <1>5, <1>6, <1>7 DEF Counts, N

(* Every step keeps the counts of dead and of idle connections.            *)
LEMMA CountsNext == ASSUME Base, Counts, [Next]_vars PROVE Counts'
<1>1. ASSUME UNCHANGED <<link, holder, outages, burnt>> PROVE Counts'
  BY <1>1 DEF Counts, Idle, Dead
<1>2. ASSUME NEW r \in Requests, Checkout(r) PROVE Counts'
  <2>1. /\ UNCHANGED <<outages, burnt>>
        /\ \E c \in Conns :
                /\ link' = link \/ link' = [link EXCEPT ![c] = "live"]
                /\ link'[c] # link[c] => link[c] = "none"
                /\ holder' = [holder EXCEPT ![c] = r]
    BY <1>2 DEF Checkout, database, Unopened
  <2>2. Idle' \subseteq Idle /\ Dead' \subseteq Dead
    BY <2>1, PoolAssumption DEF Idle, Dead, Base, Types
  <2> QED BY <2>1, <2>2, IdleSmaller, CountsKept
<1>3. ASSUME NEW r \in Requests, Step(r) PROVE Counts'
  <2>1. CASE CheckoutFails(r) \/ Read(r) \/ Write(r)
    BY <1>1, <2>1 DEF CheckoutFails, Read, Write, database
  <2>2. CASE Commit(r) \/ (Rollback(r) /\ UNCHANGED <<database, burnt, answer>>)
    BY <2>2, CountsClose DEF Commit, Rollback, database
  <2> QED BY <1>2, <1>3, <2>1, <2>2, CountsFail DEF Step
<1>4. ASSUME NEW r \in Requests, Interrupt(r) PROVE Counts'
  <2>1. /\ UNCHANGED <<holder, outages, burnt>>
        /\ \/ link' = link
           \/ link' = [c \in Conns |-> IF c \in Of(r) THEN "none" ELSE link[c]]
    BY <1>4 DEF Interrupt, Reject, Cancel, database
  <2>2. Idle' \subseteq Idle /\ Dead' \subseteq Dead
    BY <2>1 DEF Idle, Dead
  <2> QED BY <2>1, <2>2, IdleSmaller, CountsKept
<1>5. CASE Recover \/ Done \/ UNCHANGED vars
  BY <1>1, <1>5 DEF Recover, Done, vars
<1> QED BY <1>3, <1>4, <1>5, CountsOutage DEF Next

-----------------------------------------------------------------------------

(* The inductive invariant of the pool.                                     *)
THEOREM PoolInductive == Spec => []SInv
<1>1. Init => SInv
  BY BaseInit, CountsInit DEF SInv
<1>2. SInv /\ [Next]_vars => SInv'
  BY BaseNext, CountsNext DEF SInv
<1> QED BY <1>1, <1>2, PTL DEF Spec

(* The pool's types, and that it keeps no overflow.                         *)
THEOREM PoolTypeOK == Spec => []TypeOK
<1>1. SInv => TypeOK
  BY DEF SInv, Base, Types, Counts, TypeOK
<1> QED BY <1>1, PoolInductive, PTL

(* Sessions give back their connection and their row, whether they commit, *)
(* raise on a working connection or on a dead one, or are cancelled.       *)
THEOREM NoLeaks == Spec => []NothingLeaks
<1>1. SInv => NothingLeaks
  BY DEF SInv, Base
<1> QED BY <1>1, PoolInductive, PTL

(* No outage costs more requests than there were connections.               *)
THEOREM OutagesArePaidOnce == Spec => []OutageIsPaidOnce
<1>1. SInv => OutageIsPaidOnce
  <2> SUFFICES ASSUME SInv PROVE OutageIsPaidOnce
    OBVIOUS
  <2>1. Dead \in SUBSET Conns
    BY DEF Dead
  <2>2. Cardinality(Dead) \in Nat /\ N \in Nat
    BY <2>1, SubsetSize
  <2>3. outages * N \in Int
    BY <2>2 DEF SInv, Counts
  <2> QED BY <2>2, <2>3 DEF SInv, Counts, OutageIsPaidOnce, N
<1> QED BY <1>1, PoolInductive, PTL

=============================================================================
