---------------------------- MODULE PagingProofs ----------------------------
(***************************************************************************)
(* Theorems about Paging for any ids and any limit, checked by TLAPS.      *)
(***************************************************************************)
EXTENDS Paging, FiniteSetTheorems, TLAPS

-----------------------------------------------------------------------------
\* Any nonempty set of naturals has a least element.
LEMMA LeastExists ==
  ASSUME NEW S, S \subseteq Nat, S # {}
  PROVE  \E k \in S : \A j \in S : k <= j
  <1>1. \E k \in S : \A j \in S : ~ (<<j, k>> \in OpToRel(<, Nat))
    BY NatLessThanWellFounded, WFMin
  <1>2. PICK k \in S : \A j \in S : ~ (<<j, k>> \in OpToRel(<, Nat))
    BY <1>1
  <1>3. ASSUME NEW j \in S PROVE k <= j
    <2>1. ~ (<<j, k>> \in {ss \in Nat \X Nat : ss[1] < ss[2]})
      BY <1>2 DEF OpToRel
    <2>2. j \in Nat /\ k \in Nat
      OBVIOUS
    <2>3. QED
      BY <2>1, <2>2
  <1>4. QED
    BY <1>3

\* What comes before a member of First(S, n) in S is in First(S, n).
LEMMA FirstIsSegment ==
  ASSUME NEW S, S \subseteq Nat, IsFiniteSet(S), NEW n \in Nat,
         NEW k \in First(S, n), NEW j \in S, j <= k
  PROVE  j \in First(S, n)
  <1> DEFINE before(i) == {x \in S : x < i}
  <1>1. before(j) \subseteq before(k)
    <2>1. k \in S
      BY DEF First
    <2>2. ASSUME NEW x \in S, x < j PROVE x < k
      BY <2>1, <2>2
    <2>3. QED
      BY <2>2
  <1>2. IsFiniteSet(before(k)) /\ Cardinality(before(j)) <= Cardinality(before(k))
    BY <1>1, FS_Subset
  <1>3. Cardinality(before(j)) \in Nat /\ Cardinality(before(k)) \in Nat
    BY <1>1, <1>2, FS_Subset, FS_CardinalityType
  <1>4. Cardinality(before(k)) < n
    BY DEF First
  <1>5. Cardinality(before(j)) < n
    BY <1>2, <1>3, <1>4
  <1>6. QED
    BY <1>5 DEF First

\* First(S, n) has n members if it leaves one of S out.
LEMMA FirstIsFull ==
  ASSUME NEW S, S \subseteq Nat, IsFiniteSet(S), NEW n \in Nat, First(S, n) # S
  PROVE  Cardinality(First(S, n)) >= n
  <1> DEFINE before(i) == {x \in S : x < i}
  <1>1. First(S, n) \subseteq S
    BY DEF First
  <1>2. PICK s \in S \ First(S, n) : \A j \in S \ First(S, n) : s <= j
    BY <1>1, LeastExists
  <1>3. before(s) \subseteq First(S, n)
    <2>1. ASSUME NEW x \in S, x < s PROVE ~ (s <= x)
      BY <1>2, <2>1
    <2>2. QED
      BY <1>2, <2>1
  <1>4. IsFiniteSet(before(s)) /\ IsFiniteSet(First(S, n))
    BY <1>1, <1>3, FS_Subset
  <1>5. /\ Cardinality(before(s)) \in Nat /\ Cardinality(First(S, n)) \in Nat
        /\ Cardinality(before(s)) <= Cardinality(First(S, n))
    BY <1>3, <1>4, FS_Subset, FS_CardinalityType
  <1>6. ~ (Cardinality(before(s)) < n)
    BY <1>2 DEF First
  <1>7. QED
    BY <1>5, <1>6
-----------------------------------------------------------------------------
\* What a chunk is, and what the page is when it has been through it.
LEMMA ChunkFacts ==
  ASSUME TypeOK, pc = "scan"
  PROVE  /\ Chunk \subseteq AfterCursor(at) /\ AfterCursor(at) \subseteq Id
         /\ \A k \in Chunk, j \in AfterCursor(at) : j <= k => j \in Chunk
  <1>1. AfterCursor(at) \subseteq Id /\ AfterCursor(at) \subseteq Nat /\ IsFiniteSet(AfterCursor(at))
    BY IdAssumption, FS_Subset DEF AfterCursor, TypeOK
  <1>2. ASSUME NEW k \in Chunk, NEW j \in AfterCursor(at), j <= k PROVE j \in Chunk
    BY <1>1, <1>2, FirstIsSegment, LimitAssumption DEF Chunk
  <1>3. QED
    BY <1>1, <1>2 DEF Chunk, First

\* The page takes the matches of the chunk in order, and all of them unless that
\* makes it full.
LEMMA FilledFacts ==
  ASSUME TypeOK, pc = "scan", \A k \in page : k <= at
  PROVE  /\ page \subseteq Filled /\ Filled \subseteq Id
         /\ \A k \in Filled : k \in page \/ (k \in Chunk /\ at < k)
         /\ \A k \in Filled, j \in Chunk \cap matching : j <= k /\ at < k => j \in Filled
         /\ ~Full => Chunk \cap matching \subseteq Filled
         /\ IsFiniteSet(Filled) /\ Cardinality(Filled) \in Nat
  <1> DEFINE matches == Chunk \cap matching
             room == Limit - Cardinality(page)
             taken == First(matches, room)
  <1>1. /\ matches \subseteq Id /\ matches \subseteq Nat /\ IsFiniteSet(matches)
        /\ \A k \in matches : at < k
    <2>1. matches \subseteq Id /\ \A k \in matches : at < k
      BY ChunkFacts DEF AfterCursor
    <2>2. QED
      BY <2>1, IdAssumption, FS_Subset
  <1>2. IsFiniteSet(page) /\ Cardinality(page) \in Nat /\ room \in Nat
    <2>1. IsFiniteSet(page) /\ Cardinality(page) \in Nat
      BY IdAssumption, FS_Subset, FS_CardinalityType DEF TypeOK
    <2>2. QED
      BY <2>1, LimitAssumption DEF TypeOK
  <1>3. taken \subseteq matches
    BY DEF First
  <1>4. Filled = page \cup taken
    BY DEF Filled
  <1>5. IsFiniteSet(taken) /\ Cardinality(taken) \in Nat
    BY <1>1, <1>3, FS_Subset, FS_CardinalityType
  <1>6. page \cap taken = {}
    <2>1. ASSUME NEW k \in page, k \in taken PROVE FALSE
      <3>1. k <= at /\ at < k
        BY <1>1, <1>3, <2>1
      <3>2. k \in Nat /\ at \in Nat
        BY IdAssumption DEF TypeOK
      <3>3. QED
        BY <3>1, <3>2
    <2>2. QED
      BY <2>1
  <1>7. IsFiniteSet(Filled) /\ Cardinality(Filled) = Cardinality(page) + Cardinality(taken)
    <2>1. Cardinality(page \cap taken) = 0
      BY <1>6, FS_EmptySet
    <2>2. /\ IsFiniteSet(page \cup taken)
          /\ Cardinality(page \cup taken)
               = Cardinality(page) + Cardinality(taken) - Cardinality(page \cap taken)
      BY <1>2, <1>5, FS_Union
    <2> HIDE DEF taken
    <2>3. QED
      BY <2>1, <2>2, <1>2, <1>4, <1>5
  <1>8. ASSUME NEW k \in Filled, NEW j \in matches, j <= k, at < k PROVE j \in Filled
    <2>1. k \in taken
      <3>1. k \in Nat /\ at \in Nat
        <4>1. k \in Id /\ at \in Id \cup {0}
          BY <1>1, <1>3, <1>4 DEF TypeOK
        <4>2. QED
          BY <4>1, IdAssumption
      <3>2. k \notin page
        BY <1>8, <3>1
      <3>3. QED
        BY <3>2, <1>4
    <2>2. j \in taken
      BY <2>1, <1>1, <1>2, <1>8, FirstIsSegment
    <2>3. QED
      BY <2>2, <1>4
  <1>9. ASSUME ~Full PROVE taken = matches
    <2>1. SUFFICES ASSUME taken # matches PROVE FALSE
      OBVIOUS
    <2>2. Cardinality(taken) >= room
      BY <2>1, <1>1, <1>2, FirstIsFull
    <2>3. Cardinality(Filled) >= Limit
      BY <2>2, <1>2, <1>5, <1>7, LimitAssumption
    <2>4. QED
      BY <2>3, <1>9 DEF Full
  <1>10. ASSUME NEW k \in Filled PROVE k \in page \/ (k \in Chunk /\ at < k)
    BY <1>1, <1>3, <1>4
  <1>11. Filled \subseteq Id /\ page \subseteq Filled
    BY <1>1, <1>3, <1>4 DEF TypeOK
  <1>12. ~Full => Chunk \cap matching \subseteq Filled
    BY <1>4, <1>9
  <1>13. Cardinality(Filled) \in Nat
    BY <1>2, <1>5, <1>7
  <1>14. QED
    BY <1>7, <1>8, <1>10, <1>11, <1>12, <1>13
-----------------------------------------------------------------------------
\* What keeps a walk complete: what matched all along is listed, or in the page, as
\* far as the walk has come; and all that a page has is after what was listed before.
WalkInv ==
  /\ pc = "new" => cursor = 0 /\ listed = {}
  /\ pc = "idle" => /\ \A k \in steady : k <= cursor => k \in listed
                    /\ \A k \in listed : k <= cursor
  /\ pc = "scan" => /\ cursor <= at
                    /\ \A k \in steady : k <= at => k \in listed \cup page
                    /\ \A k \in listed : k <= cursor
                    /\ \A k \in page : cursor < k /\ k <= at
  /\ pc = "end" => steady \subseteq listed

IInv == TypeOK /\ WalkInv

LEMMA InitHolds == Init => IInv
  <1> SUFFICES ASSUME Init PROVE IInv
    OBVIOUS
  <1>1. Cardinality({}) = 0
    BY FS_EmptySet
  <1>2. QED
    BY <1>1, LimitAssumption DEF Init, IInv, TypeOK, WalkInv

\* A step of the scan that reaches the end of the chunk, or of the page.
LEMMA ScanFacts ==
  ASSUME IInv, pc = "scan", NEW k \in steady, k > at
  PROVE  /\ k \in AfterCursor(at)
         /\ \A l \in Filled : k <= l => k \in Filled
         /\ ~Full /\ k \in Chunk => k \in Filled
  <1>1. k \in stored /\ k \in matching /\ k \in Id
    BY DEF IInv, TypeOK
  <1>2. k \in AfterCursor(at)
    BY <1>1 DEF AfterCursor
  <1>3. \A l \in page : l <= at
    BY DEF IInv, WalkInv
  <1>4. TypeOK
    BY DEF IInv
  <1>5. ASSUME NEW l \in Filled, k <= l PROVE k \in Filled
    <2>1. l \in Nat /\ k \in Nat /\ at \in Nat
      <3>1. l \in Id /\ at \in Id \cup {0}
        BY <1>3, <1>4, FilledFacts DEF TypeOK
      <3>2. QED
        BY <3>1, <1>1, IdAssumption
    <2>2. at < l
      BY <2>1, <1>5
    <2>3. l \notin page
      BY <2>1, <2>2, <1>3
    <2>4. l \in Chunk
      BY <2>3, <1>3, <1>4, FilledFacts
    <2>5. k \in Chunk \cap matching
      BY <2>4, <1>1, <1>2, <1>4, <1>5, ChunkFacts
    <2>6. QED
      BY <2>2, <2>5, <1>3, <1>4, <1>5, FilledFacts
  <1>6. ASSUME ~Full, k \in Chunk PROVE k \in Filled
    BY <1>1, <1>3, <1>4, <1>6, FilledFacts
  <1>7. QED
    BY <1>2, <1>5, <1>6

-----------------------------------------------------------------------------
LEMMA TypeStep ==
  ASSUME IInv, [Next]_vars
  PROVE  TypeOK'
  <1>1. TypeOK /\ (pc = "scan" => \A k \in page : k <= at)
    BY DEF IInv, WalkInv
  <1>2. Cardinality({}) < Limit
    BY FS_EmptySet, LimitAssumption
  <1>3. CASE Ask
    BY <1>1, <1>2, <1>3 DEF Ask, TypeOK
  <1>4. CASE NextChunk
    <2>1. pc = "scan" /\ page' = Filled /\ at' \in Chunk
      BY <1>4 DEF NextChunk
    <2>2. page' \subseteq Id /\ at' \in Id
      BY <1>1, <2>1, FilledFacts, ChunkFacts
    <2>3. Cardinality(page') < Limit
      <3>1. Cardinality(Filled) \in Nat /\ ~(Cardinality(Filled) >= Limit)
        BY <1>1, <1>4, <2>1, FilledFacts DEF NextChunk, Full
      <3>2. QED
        BY <2>1, <3>1, LimitAssumption
    <2>4. QED
      BY <1>1, <1>4, <2>2, <2>3 DEF NextChunk, TypeOK
  <1>5. CASE ReturnFull
    <2>1. pc = "scan" /\ Filled \subseteq Id
      BY <1>1, <1>5, FilledFacts DEF ReturnFull
    <2>2. cursor' \in Id \cup {0} /\ pc' \in {"idle", "end"}
      BY <1>5, <2>1 DEF ReturnFull, IsLast
    <2>3. QED
      BY <1>1, <1>2, <1>5, <2>1, <2>2 DEF ReturnFull, Answer, TypeOK
  <1>6. CASE ReturnLast
    <2>1. Filled \subseteq Id
      BY <1>1, <1>6, FilledFacts DEF ReturnLast
    <2>2. QED
      BY <1>1, <1>2, <1>6, <2>1 DEF ReturnLast, Answer, TypeOK
  <1>7. CASE Create
    BY <1>1, <1>7 DEF Create, TypeOK
  <1>8. CASE Change
    BY <1>1, <1>8 DEF Change, TypeOK
  <1>9. CASE UNCHANGED vars
    BY <1>1, <1>9 DEF vars, TypeOK
  <1>10. QED
    BY <1>3, <1>4, <1>5, <1>6, <1>7, <1>8, <1>9 DEF Next, List

LEMMA WalkStep ==
  ASSUME IInv, [Next]_vars
  PROVE  WalkInv'
  <1>1. TypeOK /\ WalkInv
    BY DEF IInv
  <1>2. Id \subseteq Nat /\ steady \subseteq Id /\ listed \subseteq Id /\ page \subseteq Id
    BY <1>1, IdAssumption DEF TypeOK
  <1>3. CASE Ask
    <2>1. /\ pc' = "scan" /\ at' = cursor /\ page' = {}
          /\ cursor' = cursor /\ listed' = listed /\ cursor <= cursor
      BY <1>1, <1>2, <1>3 DEF Ask, TypeOK
    <2>2. CASE pc = "new"
      <3>1. cursor = 0 /\ listed = {}
        BY <1>1, <2>2 DEF WalkInv
      <3>2. steady' = matching /\ \A k \in matching : k \in Nat /\ k > 0
        <4>1. \A k \in Id : k \in Nat /\ k > 0
          BY IdAssumption
        <4>2. QED
          BY <1>1, <1>3, <2>2, <4>1 DEF Ask, TypeOK
      <3>3. \A k \in steady' : ~(k <= 0)
        BY <3>2
      <3>4. QED
        BY <2>1, <3>1, <3>3 DEF WalkInv
    <2>3. CASE pc = "idle"
      <3>1. steady' = steady
        BY <1>3, <2>3 DEF Ask
      <3>2. QED
        BY <1>1, <2>1, <2>3, <3>1 DEF WalkInv
    <2>4. QED
      BY <1>3, <2>2, <2>3 DEF Ask
  <1>4. CASE NextChunk
    <2>1. /\ pc = "scan" /\ pc' = "scan" /\ ~Full /\ page' = Filled
          /\ cursor' = cursor /\ listed' = listed /\ steady' = steady
      BY <1>4 DEF NextChunk
    <2>2. PICK last \in Chunk : IsLast(last, Chunk) /\ at' = last
      BY <1>4 DEF NextChunk
    <2>3. /\ last \in Id /\ at < last
          /\ cursor <= at /\ cursor \in Nat /\ at \in Nat /\ last \in Nat
      <3>1. last \in AfterCursor(at) /\ last \in Id
        BY <1>1, <2>1, <2>2, ChunkFacts
      <3>2. at < last
        BY <3>1 DEF AfterCursor
      <3>3. cursor \in Nat /\ at \in Nat /\ last \in Nat
        BY <1>1, <1>2, <3>1 DEF TypeOK
      <3>4. cursor <= at
        BY <1>1, <2>1 DEF WalkInv
      <3>5. QED
        BY <3>1, <3>2, <3>3, <3>4
    <2>4. ASSUME NEW k \in Filled PROVE cursor < k /\ k <= last
      <3>1. k \in page \/ (k \in Chunk /\ at < k)
        BY <1>1, <2>1, FilledFacts DEF WalkInv
      <3>2. CASE k \in page
        <4>1. cursor < k /\ k <= at /\ k \in Nat
          BY <1>1, <1>2, <2>1, <3>2 DEF WalkInv
        <4>2. QED
          BY <2>3, <4>1
      <3>3. CASE k \in Chunk /\ at < k
        <4>1. k <= last /\ k \in Nat
          BY <1>1, <1>2, <2>1, <2>2, <3>3, ChunkFacts DEF IsLast
        <4>2. QED
          BY <2>3, <3>3, <4>1
      <3>4. QED
        BY <3>1, <3>2, <3>3
    <2>5. ASSUME NEW k \in steady, k <= last PROVE k \in listed \cup Filled
      <3>1. CASE k <= at
        BY <1>1, <2>1, <3>1, FilledFacts DEF WalkInv
      <3>2. CASE k > at
        <4>1. k \in AfterCursor(at)
          BY <2>1, <3>2, ScanFacts
        <4>2. k \in Chunk
          BY <1>1, <2>1, <2>5, <4>1, ChunkFacts
        <4>3. QED
          BY <2>1, <3>2, <4>2, ScanFacts
      <3>3. QED
        BY <1>2, <2>3, <3>1, <3>2
    <2>6. cursor <= last
      BY <2>3
    <2>7. QED
      BY <1>1, <2>1, <2>2, <2>4, <2>5, <2>6 DEF WalkInv
  <1>5. CASE ReturnFull
    <2>1. /\ pc = "scan" /\ listed' = listed \cup Filled
          /\ page' = {} /\ steady' = steady
      BY <1>5 DEF ReturnFull, Answer
    <2>2. PICK l \in Filled :
            /\ IsLast(l, Filled)
            /\ IF More \/ \E k \in Chunk : l < k
                 THEN cursor' = l /\ pc' = "idle"
                 ELSE cursor' = 0 /\ pc' = "end"
      BY <1>5 DEF ReturnFull
    <2>3. /\ l \in Id /\ cursor <= at /\ cursor < l
          /\ cursor \in Nat /\ at \in Nat /\ l \in Nat
      <3>1. l \in Id /\ (l \in page \/ at < l) /\ cursor <= at
        BY <1>1, <2>1, FilledFacts DEF WalkInv
      <3>2. cursor \in Nat /\ at \in Nat /\ l \in Nat
        BY <1>1, <1>2, <3>1 DEF TypeOK
      <3>3. l \in page => cursor < l
        BY <1>1, <2>1 DEF WalkInv
      <3>4. QED
        BY <3>1, <3>2, <3>3
    <2>4. ASSUME NEW k \in steady, k <= l PROVE k \in listed \cup Filled
      <3>1. CASE k <= at
        BY <1>1, <2>1, <3>1, FilledFacts DEF WalkInv
      <3>2. CASE k > at
        BY <2>1, <2>4, <3>2, ScanFacts
      <3>3. QED
        BY <1>2, <2>3, <3>1, <3>2
    <2>5. CASE More \/ \E k \in Chunk : l < k
      <3>1. cursor' = l /\ pc' = "idle"
        BY <2>2, <2>5
      <3>2. \A k \in listed' : k <= l
        BY <1>1, <1>2, <2>1, <2>2, <2>3 DEF WalkInv, IsLast
      <3>3. QED
        BY <2>1, <2>4, <3>1, <3>2 DEF WalkInv
    <2>6. CASE ~More /\ \A k \in Chunk : ~(l < k)
      <3>1. pc' = "end"
        BY <2>2, <2>6
      <3>2. ASSUME NEW k \in steady PROVE k \in listed'
        <4>1. CASE k <= at
          BY <1>1, <2>1, <4>1, FilledFacts DEF WalkInv
        <4>2. CASE k > at
          <5>1. k \in Chunk
            BY <2>1, <2>6, <4>2, ScanFacts DEF More
          <5>2. k <= l
            BY <1>2, <2>3, <2>6, <5>1
          <5>3. QED
            BY <2>1, <2>4, <5>2
        <4>3. QED
          BY <1>2, <2>3, <4>1, <4>2
      <3>3. QED
        BY <2>1, <3>1, <3>2 DEF WalkInv
    <2>7. QED
      BY <2>5, <2>6
  <1>6. CASE ReturnLast
    <2>1. /\ pc = "scan" /\ pc' = "end" /\ ~Full /\ ~More
          /\ listed' = listed \cup Filled /\ steady' = steady
      BY <1>6 DEF ReturnLast, Answer
    <2>2. ASSUME NEW k \in steady PROVE k \in listed'
      <3>1. CASE k <= at
        BY <1>1, <2>1, <3>1, FilledFacts DEF WalkInv
      <3>2. CASE k > at
        BY <2>1, <3>2, ScanFacts DEF More
      <3>3. k \in Nat /\ at \in Nat
        BY <1>1, <1>2 DEF TypeOK
      <3>4. QED
        BY <3>1, <3>2, <3>3
    <2>3. QED
      BY <2>1, <2>2 DEF WalkInv
  <1>7. CASE Create
    BY <1>1, <1>7 DEF Create, WalkInv
  <1>8. CASE Change
    <2>1. steady' \subseteq steady
      BY <1>8 DEF Change
    <2>2. UNCHANGED <<pc, cursor, at, page, listed>>
      BY <1>8 DEF Change
    <2>3. QED
      BY <1>1, <2>1, <2>2 DEF WalkInv
  <1>9. CASE UNCHANGED vars
    BY <1>1, <1>9 DEF vars, WalkInv
  <1>10. QED
    BY <1>3, <1>4, <1>5, <1>6, <1>7, <1>8, <1>9 DEF Next, List

LEMMA Invariance == Spec => []IInv
  <1>1. Init => IInv
    BY InitHolds
  <1>2. IInv /\ [Next]_vars => IInv'
    BY TypeStep, WalkStep DEF IInv
  <1>3. QED
    BY <1>1, <1>2, PTL DEF Spec

\* Types of every variable; a page never grows past the limit before it is returned.
THEOREM TypeCorrect == Spec => []TypeOK
  <1>1. IInv => TypeOK
    BY DEF IInv
  <1>2. QED
    BY <1>1, Invariance, PTL

\* For any limit and any changes meanwhile, list_page lists every activity that
\* matched from the beginning of the walk to its end.
THEOREM WalkIsComplete == Spec => []Complete
  <1>1. IInv => Complete
    BY DEF IInv, WalkInv, Complete
  <1>2. QED
    BY <1>1, Invariance, PTL

\* Pages of list_page come in the order of ids and list nothing twice.
THEOREM WalkIsInOrder == Spec => []InOrder
  <1>1. IInv => InOrder
    <2> SUFFICES ASSUME IInv, pc = "scan", NEW j \in listed, NEW k \in Filled
                 PROVE  j < k
      BY DEF InOrder
    <2>1. /\ TypeOK /\ \A i \in page : cursor < i /\ i <= at
          /\ j <= cursor /\ cursor <= at
      BY DEF IInv, WalkInv
    <2>2. k \in Id /\ (k \in page \/ at < k)
      BY <2>1, FilledFacts
    <2>3. j \in Nat /\ cursor \in Nat /\ at \in Nat /\ k \in Nat
      BY <2>1, <2>2, IdAssumption DEF TypeOK
    <2>4. QED
      BY <2>1, <2>2, <2>3
  <1>2. QED
    BY <1>1, Invariance, PTL
=============================================================================
