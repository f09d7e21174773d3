--------------------------- MODULE ListingProofs ---------------------------
(***************************************************************************)
(* What a walk through the pages of GET /agents misses and repeats, for    *)
(* any number of agents, any page size and any filter.                     *)
(***************************************************************************)
EXTENDS Listing, FiniteSetTheorems, TLAPS

(* There are finitely many agents to list.                                 *)
LEMMA MatchingFinite == IsFiniteSet(Matching) /\ Cardinality(Matching) \in Nat
  BY FS_Subset, FS_CardinalityType, PagingAssumption DEF Matching, Visible

(* The number of newer matching agents is a number, before and after a step.*)
LEMMA RankType == ASSUME NEW a PROVE Rank(a) \in Nat /\ Rank(a)' \in Nat
<1>1. IsFiniteSet(Matching')
  BY FS_Subset, PagingAssumption DEF Matching, Visible
<1> QED
  BY <1>1, MatchingFinite, FS_Subset, FS_CardinalityType DEF Rank

(* No matching agent is behind the last position.                          *)
LEMMA RankInside ==
    ASSUME NEW a \in Matching, TypeOK
    PROVE  Rank(a) < Cardinality(Matching)
<1> DEFINE Newer == {b \in Matching : created[b] > created[a]}
<1>1. created[a] \in Nat
  BY PagingAssumption DEF TypeOK, Matching, Visible
<1>2. Newer \subseteq Matching \ {a}
  BY <1>1
<1>3. /\ IsFiniteSet(Matching \ {a})
      /\ Cardinality(Matching \ {a}) = Cardinality(Matching) - 1
  BY MatchingFinite, FS_RemoveElement
<1>4. Cardinality(Newer) <= Cardinality(Matching \ {a})
  BY <1>2, <1>3, FS_Subset
<1>5. Rank(a) = Cardinality(Newer) /\ Rank(a) \in Nat
  BY RankType DEF Rank
<1> QED
  BY <1>3, <1>4, <1>5, MatchingFinite

(* Without ties the database has no choice.                                *)
LEMMA UntiedPosition ==
    ASSUME NEW a \in Matching, NEW tie \in Ties, TypeOK, ~ Tied(a)
    PROVE  Position(a, tie) = Rank(a)
<1>1. \A b \in Matching : created[b] \in Nat
  BY PagingAssumption DEF TypeOK, Matching, Visible
<1>2. ~ (tie[a] < tie[a])
  <2>1. tie[a] \in 1 .. Cardinality(Agents)
    BY DEF Ties, Matching, Visible
  <2> QED BY <2>1
<1>3. \A b \in Matching : Precedes(b, a, tie) <=> created[b] > created[a]
  BY <1>1, <1>2 DEF Precedes, Tied, Matching
<1>4. {b \in Matching : Precedes(b, a, tie)} = {b \in Matching : created[b] > created[a]}
  BY <1>3
<1> QED
  BY <1>4 DEF Position, Rank

(* Another request's commit moves an agent up only if a newer one leaves,  *)
(* and down only if a newer one joins.                                     *)
LEMMA CommitMoves ==
    ASSUME NEW a, Commit
    PROVE  /\ NewerIn(left, a) => NewerIn(left, a)'
           /\ NewerIn(joined, a) => NewerIn(joined, a)'
           /\ ~ NewerIn(left, a)' => Rank(a) <= Rank(a)'
           /\ ~ NewerIn(joined, a)' => Rank(a)' <= Rank(a)
<1> DEFINE Newer == {b \in Matching : created[b] > created[a]}
<1>1. created' = created
  BY DEF Commit
<1>2. NewerIn(left, a) => NewerIn(left, a)'
  BY <1>1 DEF Commit, NewerIn
<1>3. NewerIn(joined, a) => NewerIn(joined, a)'
  BY <1>1 DEF Commit, NewerIn
<1>4. IsFiniteSet(Newer) /\ IsFiniteSet(Newer')
  <2>1. IsFiniteSet(Matching')
    BY FS_Subset, PagingAssumption DEF Matching, Visible
  <2> QED BY <2>1, MatchingFinite, FS_Subset
<1>5. ASSUME ~ NewerIn(left, a)' PROVE Rank(a) <= Rank(a)'
  <2>1. Newer \subseteq Newer'
    BY <1>1, <1>5 DEF Commit, NewerIn
  <2> QED BY <2>1, <1>4, FS_Subset DEF Rank
<1>6. ASSUME ~ NewerIn(joined, a)' PROVE Rank(a)' <= Rank(a)
  <2>1. Newer' \subseteq Newer
    BY <1>1, <1>6 DEF Commit, NewerIn
  <2> QED BY <2>1, <1>4, FS_Subset DEF Rank
<1> QED
  BY <1>2, <1>3, <1>5, <1>6

-----------------------------------------------------------------------------

(* At the beginning of a walk all that match are ahead of it.              *)
LEMMA InitHolds == ASSUME Init PROVE IInv
<1>1. TypeOK
  BY DEF Init, TypeOK, Matching, Visible
<1>2. StillMatching /\ SeenBehind
  BY DEF Init, StillMatching, SeenBehind
<1>3. UnseenAhead
  BY RankType DEF Init, UnseenAhead, Ahead
<1> QED
  BY <1>1, <1>2, <1>3 DEF IInv

(* Register and ChangeStatus: a commit that hides no agent.                *)
LEMMA CommitCases ==
    ASSUME TypeOK,
           \/ \E a \in Agents : Register(a)
           \/ \E a \in Agents, t \in Taken : ChangeStatus(a, t)
    PROVE  Commit /\ Visible \subseteq Visible' /\ status' \in [Agents -> Taken \cup {"ABSENT"}]
<1>1. "ABSENT" \notin Taken /\ "ACTIVE" \in Taken
  BY PagingAssumption DEF Status
<1>2. CASE \E a \in Agents : Register(a)
  BY <1>1, <1>2 DEF Register, Visible, TypeOK
<1>3. CASE \E a \in Agents, t \in Taken : ChangeStatus(a, t)
  BY <1>1, <1>3 DEF ChangeStatus, Visible, TypeOK
<1> QED
  BY <1>2, <1>3

(* Commits of other requests move agents across the offset only as the     *)
(* history sets record.                                                    *)
LEMMA CommitKeeps ==
    ASSUME IInv, Commit, Visible \subseteq Visible',
           status' \in [Agents -> Taken \cup {"ABSENT"}]
    PROVE  IInv'
<1> USE DEF IInv
<1>1. TypeOK'
  BY DEF TypeOK, Commit, walk, Matching
<1>2. StillMatching'
  BY DEF StillMatching, Commit, walk
<1>3. \A a : Tied(a) => Tied(a)'
  BY DEF Tied, Commit
<1>4. UnseenAhead'
  <2> SUFFICES ASSUME NEW a \in (first \ (seen \cup left))'
               PROVE  Ahead(a)'
    BY DEF UnseenAhead
  <2>1. a \in first \ (seen \cup left)
    BY DEF Commit, walk
  <2>2. CASE Tied(a) \/ NewerIn(left, a)
    BY <2>2, <1>3, CommitMoves DEF Ahead
  <2>3. CASE offset <= Rank(a)
    <3>1. offset' = offset /\ offset \in Nat /\ phase' = "walking"
      BY DEF Commit, walk, TypeOK
    <3>2. Rank(a) \in Nat /\ Rank(a)' \in Nat
      BY RankType
    <3>3. ~ NewerIn(left, a)' => Rank(a) <= Rank(a)'
      BY CommitMoves
    <3> QED BY <2>3, <3>1, <3>2, <3>3 DEF Ahead
  <2> QED
    BY <2>1, <2>2, <2>3 DEF UnseenAhead, Ahead
<1>5. SeenBehind'
  <2> SUFFICES ASSUME NEW a \in ((seen \cap Matching) \ joined)'
               PROVE  Behind(a)'
    BY DEF SeenBehind
  <2>1. a \in (seen \cap Matching) \ joined
    BY DEF Commit, walk
  <2>2. CASE Tied(a) \/ NewerIn(joined, a)
    BY <2>2, <1>3, CommitMoves DEF Behind
  <2>3. CASE Rank(a) < offset
    <3>1. offset' = offset /\ offset \in Nat
      BY DEF Commit, walk, TypeOK
    <3>2. Rank(a) \in Nat /\ Rank(a)' \in Nat
      BY RankType
    <3>3. ~ NewerIn(joined, a)' => Rank(a)' <= Rank(a)
      BY CommitMoves
    <3> QED BY <2>3, <3>1, <3>2, <3>3 DEF Behind
  <2> QED
    BY <2>1, <2>2, <2>3 DEF SeenBehind, Behind
<1> QED
  BY <1>1, <1>2, <1>4, <1>5

(* A page shows exactly the untied agents whose rank it covers.            *)
LEMMA PageCovers ==
    ASSUME TypeOK, ReadPage, NEW a \in Matching, ~ Tied(a)
    PROVE  a \in page' <=> offset <= Rank(a) /\ Rank(a) < offset + query.limit
<1>1. PICK tie \in Ties :
        page' = {b \in Matching : /\ offset <= Position(b, tie)
                                  /\ Position(b, tie) < offset + query.limit}
  BY DEF ReadPage
<1>2. Position(a, tie) = Rank(a)
  BY UntiedPosition
<1> QED
  BY <1>1, <1>2

(* A page takes the agents of its positions from ahead to behind.          *)
LEMMA ReadPageKeeps == ASSUME IInv, ReadPage PROVE IInv'
<1> USE DEF IInv
<1>1. UNCHANGED <<rows, query, first, joined, left>>
  BY DEF ReadPage
<1>2. /\ Matching' = Matching
      /\ Visible' = Visible
      /\ \A a : Rank(a)' = Rank(a) /\ Tied(a)' = Tied(a)
      /\ \A a : NewerIn(left, a)' = NewerIn(left, a)
      /\ \A a : NewerIn(joined, a)' = NewerIn(joined, a)
  BY <1>1 DEF rows, Matching, Visible, Rank, Tied, NewerIn
<1>3. offset \in Nat /\ query.limit \in Nat \ {0} /\ offset' = offset + query.limit
  <2>1. query.limit \in 1 .. 100 /\ offset \in Nat
    BY PagingAssumption DEF TypeOK
  <2>2. offset' = offset + query.limit
    BY DEF ReadPage
  <2> QED BY <2>1, <2>2
<1>4. page' \subseteq Matching /\ seen' = seen \cup page' /\ phase = "walking"
  BY DEF ReadPage
<1>5. TypeOK'
  <2>1. Matching \subseteq Visible
    BY DEF Matching
  <2>2. phase' \in {"walking", "done"}
    BY DEF ReadPage
  <2> QED
    BY <2>1, <2>2, <1>1, <1>2, <1>3, <1>4 DEF TypeOK, rows
<1>6. StillMatching'
  BY <1>1, <1>2 DEF StillMatching
<1>7. UnseenAhead'
  <2> SUFFICES ASSUME NEW a \in (first \ (seen \cup left))'
               PROVE  Ahead(a)'
    BY DEF UnseenAhead
  <2>1. /\ a \in first \ (seen \cup left)
        /\ a \notin page'
        /\ a \in Matching
    BY <1>1, <1>4 DEF StillMatching
  <2>2. CASE Tied(a) \/ NewerIn(left, a)
    BY <2>2, <1>2 DEF Ahead
  <2>3. CASE ~ Tied(a) /\ offset <= Rank(a)
    <3>1. Rank(a) \in Nat /\ Cardinality(Matching) \in Nat
      BY RankType, MatchingFinite
    <3>2. offset + query.limit <= Rank(a)
      BY <2>1, <2>3, <1>3, <3>1, PageCovers
    <3>3. Rank(a) < Cardinality(Matching)
      BY <2>1, RankInside
    <3>4. phase' = "walking"
      BY <3>1, <3>2, <3>3, <1>3 DEF ReadPage
    <3> QED
      BY <3>1, <3>2, <3>4, <1>2, <1>3 DEF Ahead
  <2> QED
    BY <2>1, <2>2, <2>3 DEF UnseenAhead, Ahead
<1>8. SeenBehind'
  <2> SUFFICES ASSUME NEW a \in ((seen \cap Matching) \ joined)'
               PROVE  Behind(a)'
    BY DEF SeenBehind
  <2>1. a \in Matching /\ a \notin joined /\ a \in seen \cup page'
    BY <1>1, <1>2, <1>4
  <2>2. Rank(a) \in Nat
    BY RankType
  <2>3. CASE a \in seen
    BY <2>1, <2>2, <2>3, <1>2, <1>3 DEF SeenBehind, Behind
  <2>4. CASE a \in page'
    BY <2>1, <2>2, <2>4, <1>2, <1>3, PageCovers DEF Behind
  <2> QED
    BY <2>1, <2>3, <2>4
<1> QED
  BY <1>5, <1>6, <1>7, <1>8

(* Every step of the listing keeps the invariant.                          *)
LEMMA NextKeeps == ASSUME IInv, [Next]_vars PROVE IInv'
<1>1. CASE UNCHANGED vars
  BY <1>1 DEF vars, rows, walk, IInv, TypeOK, StillMatching, UnseenAhead, SeenBehind,
              Ahead, Behind, Matching, Visible, Rank, Tied, NewerIn
<1>2. CASE ReadPage
  BY <1>2, ReadPageKeeps
<1>3. CASE \/ \E a \in Agents : Register(a)
           \/ \E a \in Agents, t \in Taken : ChangeStatus(a, t)
  BY <1>3, CommitCases, CommitKeeps DEF IInv
<1> QED
  BY <1>1, <1>2, <1>3 DEF Next

(* Types, the place of every unseen agent ahead of the next page, the place *)
(* of every seen one behind it.                                             *)
THEOREM PagingInductive == Spec => []IInv
  BY InitHolds, NextKeeps, PTL DEF Spec

(* The walk of a client stays within the list: whatever joins and leaves   *)
(* between its pages, they show only agents that are registered.            *)
THEOREM PagingTypeOK == Spec => []TypeOK
<1>1. IInv => TypeOK
  BY DEF IInv
<1> QED BY <1>1, PagingInductive, PTL

(* For any number of agents, any limit and any filter: list() leaves out   *)
(* only what was moved up by a newer agent leaving, or is tied.            *)
THEOREM NothingElseMissed == Spec => []MissedOnlyIfMovedUp
<1>1. ASSUME IInv PROVE MissedOnlyIfMovedUp
  BY <1>1 DEF IInv, UnseenAhead, Ahead, MissedOnlyIfMovedUp
<1> QED
  BY <1>1, PagingInductive, PTL

(* The same for what list() shows twice.                                   *)
THEOREM NothingElseRepeated == Spec => RepeatedOnlyIfMovedDown
<1>1. ASSUME IInv, ReadPage, NEW a \in (page' \cap seen) \ joined
      PROVE  Tied(a) \/ NewerIn(joined, a)
  <2>1. a \in Matching
    BY <1>1 DEF ReadPage
  <2>2. Rank(a) \in Nat /\ offset \in Nat
    BY <1>1, RankType DEF IInv, TypeOK
  <2>3. ~ Tied(a) => offset <= Rank(a)
    BY <1>1, <2>1, PageCovers DEF IInv
  <2> QED
    BY <1>1, <2>1, <2>2, <2>3 DEF IInv, SeenBehind, Behind
<1>2. ASSUME IInv, [Next]_vars
      PROVE  [ReadPage => \A a \in (page' \cap seen) \ joined :
                            Tied(a) \/ NewerIn(joined, a)]_vars
  BY <1>1, <1>2
<1> QED
  BY <1>2, PagingInductive, PTL DEF Spec, RepeatedOnlyIfMovedDown

=============================================================================
