------------------------- MODULE ClaimQuery_proofs --------------------------
(***************************************************************************)
(* CLAIM_SQL, for every backlog, lane assignment, cap, limit and exclusion *)
(* list: what the choice of one claim takes and what it leaves behind.     *)
(***************************************************************************)
EXTENDS OperationStore_proofs

-----------------------------------------------------------------------------
(***************************************************************************)
(* Ranks.  Two committed rows never have the same created_at, so Before is *)
(* a strict order on a backlog and row_number() tells its rows apart: at   *)
(* most k of them have a number up to k.                                   *)
(***************************************************************************)
CreatedInOrder ==
  /\ \A o \in Ops : Status(o) = "NONE" <=> operations[o].createdAt = 0
  /\ \A o \in Ops : operations[o].createdAt < Now
  /\ \A o, p \in Ops : operations[o].createdAt = operations[p].createdAt /\ Status(o) # "NONE" => o = p

LEMMA InOrderKept ==
  ASSUME StoreTypeOK, CreatedInOrder,
         \A o \in Ops : operations'[o].createdAt = operations[o].createdAt,
         \A o \in Ops : Status(o) = "NONE" <=> Status(o)' = "NONE"
  PROVE  CreatedInOrder'
<1>1. Now' = Now
  <2>1. {o \in Ops : operations'[o].createdAt > 0} = {o \in Ops : operations[o].createdAt > 0}
    OBVIOUS
  <2> QED
    BY <2>1 DEF Now
<1> HIDE DEF Now
<1> QED
  BY <1>1 DEF CreatedInOrder

LEMMA CreatedInOrderStep ==
  ASSUME StoreTypeOK, PickedVisible, CreatedInOrder, [StoreStep]_storeVars
  PROVE  CreatedInOrder'
<1>1. operations \in [Ops -> Row]
  BY DEF StoreTypeOK
<1> DEFINE Kept == /\ \A o \in Ops : operations'[o].createdAt = operations[o].createdAt
                   /\ \A o \in Ops : Status(o) = "NONE" <=> Status(o)' = "NONE"
<1> USE DEF Status, Row
<1>2. ASSUME NEW o \in Ops, EnqueueBegin(o) PROVE CreatedInOrder'
  <2> DEFINE dated == {p \in Ops : operations[p].createdAt > 0}
  <2>1. operations' = [operations EXCEPT ![o].status = "INSERTING", ![o].createdAt = Now] /\ Status(o) = "NONE"
    BY <1>2 DEF EnqueueBegin
  <2>2. Now \in Nat /\ Now > 0
    <3>1. IsFiniteSet(dated)
      BY OpsFinite, FS_Subset, dated \subseteq Ops
    <3> QED
      BY <3>1, FS_CardinalityType DEF Now
  <2>3. Now' = Now + 1
    <3>1. {p \in Ops : operations'[p].createdAt > 0} = dated \cup {o}
      BY <1>1, <2>1, <2>2
    <3>2. o \notin dated /\ IsFiniteSet(dated)
      BY <2>1, OpsFinite, FS_Subset, dated \subseteq Ops DEF CreatedInOrder
    <3>3. Cardinality(dated \cup {o}) = Cardinality(dated) + 1 /\ Cardinality(dated) \in Nat
      BY <3>2, FS_AddElement, FS_CardinalityType
    <3>4. Now = 1 + Cardinality(dated)
      BY DEF Now
    <3>5. Now' = 1 + Cardinality(dated \cup {o})
      BY <3>1 DEF Now
    <3> HIDE DEF dated
    <3> QED
      BY <3>3, <3>4, <3>5
  <2> HIDE DEF dated
  <2>4. operations'[o].createdAt = Now /\ operations'[o].status = "INSERTING"
    BY <1>1, <2>1, <2>2
  <2>5. \A p \in Ops \ {o} : operations'[p] = operations[p]
    BY <1>1, <2>1
  <2> QED
    BY <1>1, <2>2, <2>3, <2>4, <2>5 DEF CreatedInOrder
<1>3. ASSUME NEW o \in Ops,
             EnqueueCommit(o) \/ TimePasses(o) \/ DeferForReadback(o) \/ Requeue(o)
      PROVE  Kept
  BY <1>1, <1>3 DEF EnqueueCommit, TimePasses, DeferForReadback, Requeue
<1>4. ASSUME NEW o \in Ops, NEW outcome \in Outcomes, Finalize(o, outcome) PROVE Kept
  BY <1>1, <1>4 DEF Finalize, Outcomes, Pending
<1>5. ASSUME NEW c \in Claimers, ClaimCommit(c) PROVE Kept
  <2>1. \A o \in Returned(c) : o \in Ops /\ Status(o) # "NONE"
    BY <1>5 DEF Returned, PickedVisible, StoreTypeOK
  <2>2. operations' = [o \in Ops |-> IF o \in Returned(c)
                                    THEN [operations[o] EXCEPT !.status = "RUNNING", !.elapsed = FALSE]
                                    ELSE operations[o]]
    BY <1>5 DEF ClaimCommit, Claim
  <2> QED
    BY <1>1, <2>1, <2>2
<1>6. ASSUME UNCHANGED operations PROVE Kept
  BY <1>6
<1>7. ASSUME ReapStale PROVE Kept
  BY <1>1, <1>7 DEF ReapStale, Stale
<1>8. ASSUME NEW p \in Partitions, DropPartition(p) PROVE Kept
  <2> DEFINE rows == {o \in Ops : PartitionOf[o] = p /\ Status(o) # "NONE"}
  <2>1. operations' = [o \in Ops |-> IF o \in rows THEN [operations[o] EXCEPT !.status = "DROPPED"]
                                    ELSE operations[o]]
    BY <1>8 DEF DropPartition
  <2>2. \A o \in rows : Status(o) # "NONE"
    OBVIOUS
  <2> HIDE DEF rows
  <2> QED
    BY <1>1, <2>1, <2>2
<1> HIDE DEF Kept, Status, Row
<1>9. Kept \/ \E o \in Ops : EnqueueBegin(o)
  BY <1>3, <1>4, <1>5, <1>6, <1>7, <1>8 DEF StoreStep, ClaimSnapshot, ClaimAbort, storeVars
<1> QED
  BY <1>2, <1>9, InOrderKept DEF Kept

LEMMA RankWithinTable ==
  ASSUME NEW S \in SUBSET Ops, NEW o \in S
  PROVE  RowNumber(o, S) \in 1..Cardinality(Ops)
<1> DEFINE T == {p \in S : p = o \/ Before(p, o)}
<1>1. T \subseteq Ops /\ o \in T
  OBVIOUS
<1>2. IsFiniteSet(T) /\ Cardinality(T) <= Cardinality(Ops)
  BY <1>1, OpsFinite, FS_Subset
<1>3. Cardinality(T) \in Nat /\ Cardinality(Ops) \in Nat /\ Cardinality(T) # 0
  BY <1>1, <1>2, OpsFinite, FS_CardinalityType, FS_EmptySet
<1> QED
  BY <1>2, <1>3 DEF RowNumber

(* The row before another one has the smaller number, and of two rows one *)
(* is before the other.                                                    *)
LEMMA RankFollowsOrder ==
  ASSUME StoreTypeOK, NEW S \in SUBSET Ops, NEW x \in S, NEW y \in S, Before(x, y)
  PROVE  RowNumber(x, S) < RowNumber(y, S)
<1> DEFINE Upto(z) == {q \in S : q = z \/ Before(q, z)}
<1>1. \A q \in Ops : operations[q].createdAt \in Nat
  BY DEF StoreTypeOK, Row
<1>2. Upto(x) \subseteq Upto(y) \ {y}
  <2>1. \A q \in S : Before(q, x) => Before(q, y)
    BY <1>1, ColumnsTyped DEF Before
  <2>2. ~Before(y, x) /\ x # y
    BY <1>1, ColumnsTyped DEF Before
  <2> QED
    BY <2>1, <2>2
<1>3. IsFiniteSet(Upto(y))
  BY OpsFinite, FS_Subset, Upto(y) \subseteq Ops
<1>4. IsFiniteSet(Upto(y) \ {y}) /\ Cardinality(Upto(y) \ {y}) = Cardinality(Upto(y)) - 1
  BY <1>3, FS_RemoveElement
<1>5. IsFiniteSet(Upto(x)) /\ Cardinality(Upto(x)) <= Cardinality(Upto(y) \ {y})
  BY <1>2, <1>4, FS_Subset
<1>6. Cardinality(Upto(x)) \in Nat /\ Cardinality(Upto(y)) \in Nat
  BY <1>3, <1>5, FS_CardinalityType
<1> HIDE DEF Upto
<1>7. Cardinality(Upto(x)) < Cardinality(Upto(y))
  BY <1>4, <1>5, <1>6
<1> QED
  BY <1>7 DEF Upto, RowNumber

LEMMA OneIsBefore ==
  ASSUME StoreTypeOK, CreatedInOrder, NEW o \in Ops, NEW p \in Ops, Status(o) # "NONE", o # p
  PROVE  Before(o, p) \/ Before(p, o)
<1>1. operations[o].createdAt \in Nat /\ operations[p].createdAt \in Nat
  BY DEF StoreTypeOK, Row
<1>2. operations[o].createdAt # operations[p].createdAt
  BY DEF CreatedInOrder
<1> QED
  BY <1>1, <1>2, ColumnsTyped DEF Before

LEMMA RanksDiffer ==
  ASSUME StoreTypeOK, CreatedInOrder, NEW S \in SUBSET Ops, \A o \in S : Status(o) # "NONE",
         NEW o \in S, NEW p \in S, RowNumber(o, S) = RowNumber(p, S)
  PROVE  o = p
<1>1. \A q \in S : RowNumber(q, S) \in Int
  BY RankWithinTable
<1> QED
  BY <1>1, OneIsBefore, RankFollowsOrder

LEMMA RankedAtMost ==
  ASSUME StoreTypeOK, CreatedInOrder, NEW S \in SUBSET Ops, \A o \in S : Status(o) # "NONE",
         NEW k \in Nat, NEW T \in SUBSET S, \A o \in T : RowNumber(o, S) <= k
  PROVE  IsFiniteSet(T) /\ Cardinality(T) <= k
<1> DEFINE rank == [o \in T |-> RowNumber(o, S)]
<1>1. \A o \in T : RowNumber(o, S) \in 1..k
  BY RankWithinTable
<1>2. rank \in Injection(T, 1..k)
  BY <1>1, RanksDiffer DEF Injection, IsInjective
<1>3. IsFiniteSet(1..k) /\ Cardinality(1..k) = k
  BY FS_Interval
<1> HIDE DEF rank
<1> QED
  BY <1>2, <1>3, FS_Injection

(* A row has the number of the rows up to it, in the set and in any part.  *)
LEMMA RankInSet ==
  ASSUME NEW S \in SUBSET Ops, NEW o \in S
  PROVE  RowNumber(o, S) \in 1..Cardinality(S)
<1> DEFINE T == {p \in S : p = o \/ Before(p, o)}
<1>1. T \subseteq S /\ o \in T /\ IsFiniteSet(S)
  BY OpsFinite, FS_Subset
<1>2. IsFiniteSet(T) /\ Cardinality(T) <= Cardinality(S)
  BY <1>1, FS_Subset
<1>3. Cardinality(T) \in Nat /\ Cardinality(S) \in Nat /\ Cardinality(T) # 0
  BY <1>1, <1>2, FS_CardinalityType, FS_EmptySet
<1> QED
  BY <1>2, <1>3 DEF RowNumber

(* Numbers leave no gap: k rows have a number up to k, when there are k.   *)
LEMMA FirstOnes ==
  ASSUME StoreTypeOK, CreatedInOrder, NEW S \in SUBSET Ops, \A o \in S : Status(o) # "NONE",
         NEW k \in Nat, k <= Cardinality(S)
  PROVE  LET first == {o \in S : RowNumber(o, S) <= k}
         IN IsFiniteSet(first) /\ Cardinality(first) = k
<1> DEFINE n == Cardinality(S)
           rank == [o \in S |-> RowNumber(o, S)]
           first == {o \in S : RowNumber(o, S) <= k}
           rankOfFirst == [o \in first |-> RowNumber(o, S)]
<1>1. IsFiniteSet(S) /\ n \in Nat
  BY OpsFinite, FS_Subset, FS_CardinalityType
<1>2. \A o \in S : RowNumber(o, S) \in 1..n
  BY RankInSet
<1>3. \A o, p \in S : RowNumber(o, S) = RowNumber(p, S) => o = p
  BY RanksDiffer
<1>4. IsFiniteSet(1..n) /\ Cardinality(1..n) = n /\ IsFiniteSet(1..k) /\ Cardinality(1..k) = k
  <2> HIDE DEF n
  <2>1. n - 1 + 1 = n /\ k - 1 + 1 = k /\ 1 \in Int /\ n \in Int /\ k \in Int
    BY <1>1
  <2>2. IsFiniteSet(1..n) /\ Cardinality(1..n) = n
    BY <1>1, <2>1, FS_Interval
  <2>3. IsFiniteSet(1..k) /\ Cardinality(1..k) = k
    BY <2>1, FS_Interval
  <2> QED
    BY <2>2, <2>3
<1>5. \A j \in 1..n : \E o \in S : RowNumber(o, S) = j
  <2>1. rank \in Injection(S, 1..n)
    BY <1>2, <1>3 DEF Injection, IsInjective
  <2>2. rank \in Surjection(S, 1..n)
    <3> HIDE DEF rank
    <3> QED
      BY <1>1, <1>4, <2>1, FS_Injection
  <2> QED
    BY <2>2 DEF Surjection
<1>6. rankOfFirst \in Bijection(first, 1..k)
  <2>1. rankOfFirst \in Injection(first, 1..k)
    BY <1>2, <1>3 DEF Injection, IsInjective
  <2>2. \A j \in 1..k : \E o \in first : rankOfFirst[o] = j
    BY <1>1, <1>5
  <2>3. rankOfFirst \in Surjection(first, 1..k)
    BY <2>1, <2>2 DEF Surjection, Injection
  <2> QED
    BY <2>1, <2>3 DEF Bijection
<1>7. IsFiniteSet(first)
  BY <1>1, FS_Subset, first \subseteq S
<1>8. ExistsBijection(first, 1..k)
  BY <1>6 DEF ExistsBijection
<1> HIDE DEF first
<1>9. Cardinality(first) = k
  BY <1>4, <1>7, <1>8, FS_Bijection
<1> QED
  BY <1>7, <1>9 DEF first

(* In a part of the set a row's number is no greater.                      *)
LEMMA RankInPart ==
  ASSUME NEW S \in SUBSET Ops, NEW T \in SUBSET S, NEW o \in T
  PROVE  RowNumber(o, T) <= RowNumber(o, S)
<1> DEFINE all == {p \in S : p = o \/ Before(p, o)}
           part == {p \in T : p = o \/ Before(p, o)}
<1>1. part \subseteq all /\ all \subseteq Ops
  OBVIOUS
<1>2. IsFiniteSet(all)
  BY <1>1, OpsFinite, FS_Subset
<1>3. Cardinality(part) <= Cardinality(all)
  BY <1>1, <1>2, FS_Subset
<1> QED
  BY <1>3 DEF RowNumber

-----------------------------------------------------------------------------
(* A claim takes no more rows of an instance than the caps it was given.   *)
OfInstance(S, i) == {o \in S : InstanceOf[o] = i}
OfBatch(S, i) == {o \in S : InstanceOf[o] = i /\ PriorityOf[o] = "batch"}

LEMMA CapsHold ==
  ASSUME StoreTypeOK, CreatedInOrder, NEW excluded, NEW limit,
         NEW caps \in [Instances -> Availability], NEW i \in Instances
  PROVE  LET chosen == Picked(limit, excluded, caps)
         IN /\ Cardinality(OfInstance(chosen, i)) <= caps[i].totalFree
            /\ Cardinality(OfBatch(chosen, i)) <= caps[i].batchFree
<1> DEFINE leaders == LaneLeaders(excluded, caps)
           peers == {p \in leaders : InstanceOf[p] = i}
           batch == {p \in peers : PriorityOf[p] = "batch"}
           chosen == Picked(limit, excluded, caps)
<1>1. peers \subseteq Ops /\ batch \subseteq peers /\ \A o \in peers : Status(o) # "NONE"
  BY DEF LaneLeaders, Claimable
<1>2. caps[i].totalFree \in Nat /\ caps[i].batchFree \in Nat /\ BatchCap(caps[i]) \in Nat
      /\ BatchCap(caps[i]) <= caps[i].batchFree
  <2>1. caps[i] \in Availability /\ MaxCap \in Nat
    BY BoundsNatural
  <2>2. caps[i].totalFree \in Nat /\ caps[i].batchFree \in Nat
    BY <2>1 DEF Availability
  <2> QED
    BY <2>2 DEF BatchCap
<1>3. OfInstance(chosen, i) \subseteq peers /\ \A o \in OfInstance(chosen, i) : RowNumber(o, peers) <= caps[i].totalFree
  BY DEF OfInstance, Picked, WithinCaps
<1>4. OfBatch(chosen, i) \subseteq batch /\ \A o \in OfBatch(chosen, i) : RowNumber(o, batch) <= BatchCap(caps[i])
  BY DEF OfBatch, Picked, WithinCaps
<1> HIDE DEF leaders, peers, batch, chosen
<1>5. Cardinality(OfInstance(chosen, i)) <= caps[i].totalFree
  BY <1>1, <1>2, <1>3, RankedAtMost
<1>6. IsFiniteSet(OfBatch(chosen, i)) /\ Cardinality(OfBatch(chosen, i)) <= BatchCap(caps[i])
  <2>1. batch \in SUBSET Ops /\ \A o \in batch : Status(o) # "NONE"
    BY <1>1
  <2> QED
    BY <1>2, <1>4, <2>1, RankedAtMost
<1>7. Cardinality(OfBatch(chosen, i)) <= caps[i].batchFree
  BY <1>2, <1>6, FS_CardinalityType
<1> QED
  BY <1>5, <1>7 DEF chosen

-----------------------------------------------------------------------------
(***************************************************************************)
(* What a claim leaves behind.  P stands for the leaders of one instance,  *)
(* t and b for its caps: a leader is cut when t rows are kept, or, a batch *)
(* one, when b batch rows are.  Interactive rows come first, so the cut by *)
(* the batch cap never costs an interactive row its place.                 *)
(***************************************************************************)
BatchOf(S) == {p \in S : PriorityOf[p] = "batch"}

CutTo(P, t, b) ==
  {p \in P : /\ RowNumber(p, P) <= t
             /\ PriorityOf[p] = "batch" =>
                  RowNumber(p, BatchOf(P)) <= BatchCap([totalFree |-> t, batchFree |-> b])}

LEMMA WhyCut ==
  ASSUME StoreTypeOK, CreatedInOrder, NEW P \in SUBSET Ops, \A p \in P : Status(p) # "NONE",
         NEW t \in Nat, NEW b \in Nat, NEW o \in P, o \notin CutTo(P, t, b)
  PROVE  \/ Cardinality(CutTo(P, t, b)) = t
         \/ PriorityOf[o] = "batch" /\ Cardinality(BatchOf(CutTo(P, t, b))) = b
<1> DEFINE B == BatchOf(P)
           K == CutTo(P, t, b)
           F == {p \in P : RowNumber(p, P) <= t}
           cap == IF b < t THEN b ELSE t
<1>1. K = {p \in P : RowNumber(p, P) <= t /\ (PriorityOf[p] = "batch" => RowNumber(p, B) <= cap)}
  BY DEF CutTo, BatchCap
<1>2. B \in SUBSET P /\ B \in SUBSET Ops /\ \A p \in P : p \in B <=> PriorityOf[p] = "batch"
  BY DEF BatchOf
<1>3. \A p \in P : RowNumber(p, P) \in Nat /\ RowNumber(p, P) <= Cardinality(P)
  BY RankInSet
<1>4. \A p \in B : RowNumber(p, B) \in Nat /\ RowNumber(p, B) <= Cardinality(B) /\ RowNumber(p, B) <= RowNumber(p, P)
  BY <1>2, RankInSet, RankInPart
<1>5. Cardinality(P) \in Nat /\ Cardinality(B) \in Nat
  BY <1>2, OpsFinite, FS_Subset, FS_CardinalityType
<1> HIDE DEF B, K
<1>6. CASE F \subseteq K
  <2>1. F = K
    BY <1>1, <1>6
  <2>2. t < RowNumber(o, P)
    BY <1>3, <2>1 DEF K
  <2>3. t <= Cardinality(P)
    BY <1>3, <1>5, <2>2
  <2>4. Cardinality(F) = t
    BY <2>3, FirstOnes
  <2> QED
    BY <2>1, <2>4 DEF K
<1>7. CASE ~(F \subseteq K)
  <2>1. PICK p \in P : RowNumber(p, P) <= t /\ p \notin K
    BY <1>7
  <2>2. p \in B /\ ~(RowNumber(p, B) <= cap)
    BY <1>1, <1>2, <2>1
  <2>3. b < t /\ b < RowNumber(p, B) /\ cap = b
    BY <1>3, <1>4, <2>1, <2>2
  <2> DEFINE G == {q \in B : RowNumber(q, B) <= b}
  <2>4. Cardinality(G) = b
    <3>1. b <= Cardinality(B)
      BY <1>4, <1>5, <2>2, <2>3
    <3> QED
      BY <1>2, <3>1, FirstOnes
  <2>5. ASSUME NEW q \in G PROVE q \in K
    <3>1. q \in B /\ q \in P /\ RowNumber(q, B) < RowNumber(p, B)
      BY <1>2, <1>4, <2>2, <2>3
    <3>2. q # p /\ ~Before(p, q)
      BY <1>2, <1>4, <2>2, <3>1, RankFollowsOrder
    <3>3. Before(q, p)
      BY <1>2, <2>2, <3>1, <3>2, OneIsBefore
    <3>4. RowNumber(q, P) < RowNumber(p, P)
      BY <1>2, <2>2, <3>1, <3>3, RankFollowsOrder
    <3> QED
      BY <1>1, <1>3, <2>1, <2>3, <3>1, <3>4
  <2>6. BatchOf(K) = G
    <3>1. K \subseteq P
      BY <1>1
    <3>2. \A q \in BatchOf(K) : q \in G
      BY <1>1, <1>2, <2>3, <3>1 DEF BatchOf
    <3>3. \A q \in G : q \in BatchOf(K)
      BY <1>2, <2>5 DEF BatchOf
    <3> QED
      BY <3>2, <3>3
  <2>7. PriorityOf[o] = "batch"
    <3> SUFFICES ASSUME PriorityOf[o] # "batch" PROVE FALSE
      OBVIOUS
    <3>1. Before(o, p)
      BY <1>2, <2>2, ColumnsTyped DEF Before
    <3>2. RowNumber(o, P) < RowNumber(p, P)
      BY <1>2, <2>2, <3>1, RankFollowsOrder
    <3> QED
      BY <1>1, <1>3, <2>1, <3>2 DEF K
  <2> QED
    BY <2>4, <2>6, <2>7 DEF K
<1> QED
  BY <1>6, <1>7

(***************************************************************************)
(* ClaimFillsCaps of one choice, conjunct by conjunct.                     *)
(***************************************************************************)
LEMMA ClaimWithinLimit ==
  ASSUME StoreTypeOK, CreatedInOrder, NEW limit \in Nat, NEW excluded, NEW caps
  PROVE  Cardinality(Picked(limit, excluded, caps)) <= limit
<1> DEFINE eligible == WithinCaps(LaneLeaders(excluded, caps), caps)
           chosen == Picked(limit, excluded, caps)
<1>1. eligible \subseteq Ops /\ \A o \in eligible : Status(o) # "NONE"
  BY DEF WithinCaps, LaneLeaders, Claimable
<1>2. chosen \subseteq eligible /\ \A o \in chosen : RowNumber(o, eligible) <= limit
  BY DEF Picked
<1> HIDE DEF eligible, chosen
<1>3. Cardinality(chosen) <= limit
  BY <1>1, <1>2, RankedAtMost
<1> QED
  BY <1>3 DEF chosen

LEMMA OneRowOfALane ==
  ASSUME StoreTypeOK, NEW limit, NEW excluded, NEW caps,
         NEW o \in Picked(limit, excluded, caps), NEW p \in Picked(limit, excluded, caps), SameLane(o, p)
  PROVE  o = p
<1>1. /\ o \in LaneLeaders(excluded, caps) /\ p \in LaneLeaders(excluded, caps)
      /\ SameLane(p, o)
  BY DEF Picked, WithinCaps, SameLane
<1>2. o \in Ops /\ p \in Ops /\ (p # o => Before(o, p) /\ Before(p, o))
  BY <1>1 DEF LaneLeaders
<1> QED
  BY <1>2, OneLeaderPerLane

LEMMA LeftOnlyWhenFull ==
  ASSUME StoreTypeOK, CreatedInOrder, NEW limit \in Nat, NEW excluded,
         NEW caps \in [Instances -> Availability],
         NEW o \in LaneLeaders(excluded, caps), o \notin Picked(limit, excluded, caps)
  PROVE  LET chosen == Picked(limit, excluded, caps)
             i == InstanceOf[o]
         IN \/ Cardinality(chosen) = limit
            \/ Cardinality(OfInstance(chosen, i)) = caps[i].totalFree
            \/ PriorityOf[o] = "batch" /\ Cardinality(OfBatch(chosen, i)) = caps[i].batchFree
<1> DEFINE leaders == LaneLeaders(excluded, caps)
           eligible == WithinCaps(leaders, caps)
           chosen == Picked(limit, excluded, caps)
           i == InstanceOf[o]
           peers == {p \in leaders : InstanceOf[p] = i}
           t == caps[i].totalFree
           b == caps[i].batchFree
<1>1. leaders \subseteq Ops /\ (\A p \in leaders : Status(p) # "NONE") /\ eligible \subseteq leaders
  BY DEF LaneLeaders, Claimable, WithinCaps
<1>2. chosen = {p \in eligible : RowNumber(p, eligible) <= limit}
  BY DEF Picked
<1>3. t \in Nat /\ b \in Nat
  <2>1. InstanceOf[o] \in Instances
    BY <1>1, ColumnsTyped
  <2>2. caps[i] \in Availability
    BY <2>1
  <2> QED
    BY <2>2, BoundsNatural DEF Availability
<1>4. {p \in eligible : InstanceOf[p] = i} = CutTo(peers, t, b)
  BY DEF WithinCaps, CutTo, BatchOf, BatchCap
<1>5. o \in peers /\ peers \subseteq Ops /\ \A p \in peers : Status(p) # "NONE"
  BY <1>1
<1> HIDE DEF leaders, eligible, chosen, peers, t, b
<1>6. CASE chosen = eligible
  <2>1. o \notin CutTo(peers, t, b)
    BY <1>4, <1>6 DEF chosen
  <2>2. \/ Cardinality(CutTo(peers, t, b)) = t
        \/ PriorityOf[o] = "batch" /\ Cardinality(BatchOf(CutTo(peers, t, b))) = b
    BY <1>3, <1>5, <2>1, WhyCut
  <2>3. OfInstance(chosen, i) = CutTo(peers, t, b)
    BY <1>4, <1>6 DEF OfInstance
  <2>4. OfBatch(chosen, i) = BatchOf(CutTo(peers, t, b))
    BY <2>3 DEF OfBatch, OfInstance, BatchOf
  <2> QED
    BY <2>2, <2>3, <2>4 DEF chosen, t, b
<1>7. CASE chosen # eligible
  <2>1. PICK p \in eligible : ~(RowNumber(p, eligible) <= limit)
    BY <1>2, <1>7
  <2>2. eligible \in SUBSET Ops /\ \A q \in eligible : Status(q) # "NONE"
    BY <1>1
  <2>3. RowNumber(p, eligible) \in 1..Cardinality(eligible)
    BY <2>2, RankInSet
  <2>4. Cardinality(eligible) \in Nat
    BY <2>2, OpsFinite, FS_Subset, FS_CardinalityType
  <2>5. limit <= Cardinality(eligible)
    BY <2>1, <2>3, <2>4
  <2>6. Cardinality(chosen) = limit
    BY <1>2, <2>2, <2>5, FirstOnes
  <2> QED
    BY <2>6 DEF chosen
<1> QED
  BY <1>6, <1>7

LEMMA InteractiveGoesFirst ==
  ASSUME StoreTypeOK, CreatedInOrder, NEW limit \in Nat, NEW excluded,
         NEW caps \in [Instances -> Availability],
         NEW o \in LaneLeaders(excluded, caps), o \notin Picked(limit, excluded, caps),
         PriorityOf[o] = "interactive",
         NEW q \in Picked(limit, excluded, caps), PriorityOf[q] = "batch"
  PROVE  InstanceOf[q] # InstanceOf[o]
<1> SUFFICES ASSUME InstanceOf[q] = InstanceOf[o] PROVE FALSE
  OBVIOUS
<1> DEFINE leaders == LaneLeaders(excluded, caps)
           eligible == WithinCaps(leaders, caps)
           peers == {p \in leaders : InstanceOf[p] = InstanceOf[o]}
           t == caps[InstanceOf[o]].totalFree
<1>1. leaders \subseteq Ops /\ eligible \subseteq leaders /\ o \in leaders
  BY DEF LaneLeaders, WithinCaps
<1>2. q \in eligible /\ RowNumber(q, eligible) <= limit /\ (o \in eligible => ~(RowNumber(o, eligible) <= limit))
  BY DEF Picked
<1>3. o \in peers /\ q \in peers /\ peers \in SUBSET Ops
  BY <1>1, <1>2
<1>4. RowNumber(q, peers) <= t /\ (o \notin eligible => ~(RowNumber(o, peers) <= t))
  BY <1>2 DEF WithinCaps
<1>5. t \in Nat
  <2>1. InstanceOf[o] \in Instances
    BY <1>1, ColumnsTyped
  <2>2. caps[InstanceOf[o]] \in Availability
    BY <2>1
  <2> QED
    BY <2>2, BoundsNatural DEF Availability
<1>6. Before(o, q)
  BY DEF Before
<1> HIDE DEF leaders, eligible, peers, t
<1>7. CASE o \in eligible
  <2>1. eligible \in SUBSET Ops
    BY <1>1
  <2>2. RowNumber(o, eligible) < RowNumber(q, eligible)
    BY <1>2, <1>6, <1>7, <2>1, RankFollowsOrder
  <2>3. RowNumber(o, eligible) \in Int /\ RowNumber(q, eligible) \in Int
    BY <1>2, <1>7, <2>1, RankWithinTable
  <2> QED
    BY <1>2, <1>7, <2>2, <2>3
<1>8. CASE o \notin eligible
  <2>1. RowNumber(o, peers) < RowNumber(q, peers)
    BY <1>3, <1>6, RankFollowsOrder
  <2>2. RowNumber(o, peers) \in Int /\ RowNumber(q, peers) \in Int
    BY <1>3, RankWithinTable
  <2> QED
    BY <1>4, <1>5, <1>8, <2>1, <2>2
<1> QED
  BY <1>7, <1>8

(* CLAIM_SQL ranks after collapsing lanes, so in every reachable backlog,  *)
(* for every cap, limit and exclusion list, a claim takes what the caps    *)
(* allow and no more, one row of a lane, interactive rows first, and       *)
(* leaves a leader behind only when a cap or the limit is used up.         *)
THEOREM ClaimsFillTheirCaps == StoreSpecUnbounded => []ClaimFillsCaps
<1>1. StoreInit => CreatedInOrder
  <2> SUFFICES ASSUME StoreInit PROVE CreatedInOrder
    OBVIOUS
  <2>1. \A o \in Ops : Status(o) = "NONE" /\ operations[o].createdAt = 0
    BY DEF StoreInit, Status
  <2>2. {o \in Ops : operations[o].createdAt > 0} = {}
    BY <2>1
  <2>3. Now = 1
    BY <2>2, FS_EmptySet DEF Now
  <2> QED
    BY <2>1, <2>3 DEF CreatedInOrder
<1>2. StoreTypeOK /\ PickedVisible /\ CreatedInOrder /\ [StoreStep]_storeVars => CreatedInOrder'
  BY CreatedInOrderStep
<1>3. StoreTypeOK /\ CreatedInOrder => ClaimFillsCaps
  <2> SUFFICES ASSUME StoreTypeOK, CreatedInOrder,
                      NEW limit \in 1..MaxCap, NEW excluded \in SUBSET Lanes,
                      NEW caps \in [Instances -> {a \in Availability : a.totalFree = 0 => a.batchFree = 0}]
               PROVE  LET chosen == Picked(limit, excluded, caps)
                          Of(i) == {o \in chosen : InstanceOf[o] = i}
                          Batch(S) == {o \in S : PriorityOf[o] = "batch"}
                          LeftOut == LaneLeaders(excluded, caps) \ chosen
                      IN /\ Cardinality(chosen) <= limit
                         /\ \A i \in Instances :
                              /\ Cardinality(Of(i)) <= caps[i].totalFree
                              /\ Cardinality(Batch(Of(i))) <= caps[i].batchFree
                         /\ \A o, p \in chosen : SameLane(o, p) => o = p
                         /\ \A o \in LeftOut :
                              LET i == InstanceOf[o]
                              IN \/ Cardinality(chosen) = limit
                                 \/ Cardinality(Of(i)) = caps[i].totalFree
                                 \/ PriorityOf[o] = "batch" /\ Cardinality(Batch(Of(i))) = caps[i].batchFree
                         /\ \A o \in LeftOut :
                              PriorityOf[o] = "interactive" => Batch(Of(InstanceOf[o])) = {}
    BY Zenon DEF ClaimFillsCaps
  <2> DEFINE chosen == Picked(limit, excluded, caps)
             Of(i) == {o \in chosen : InstanceOf[o] = i}
             Batch(S) == {o \in S : PriorityOf[o] = "batch"}
             LeftOut == LaneLeaders(excluded, caps) \ chosen
  <2>1. caps \in [Instances -> Availability] /\ limit \in Nat
    BY BoundsNatural
  <2>2. \A i : OfInstance(chosen, i) = Of(i) /\ OfBatch(chosen, i) = Batch(Of(i))
    BY DEF OfInstance, OfBatch
  <2>3. Cardinality(chosen) <= limit
    BY <2>1, ClaimWithinLimit
  <2>4. \A o, p \in chosen : SameLane(o, p) => o = p
    BY OneRowOfALane
  <2>5. \A i \in Instances : /\ Cardinality(OfInstance(chosen, i)) <= caps[i].totalFree
                             /\ Cardinality(OfBatch(chosen, i)) <= caps[i].batchFree
    BY <2>1, CapsHold
  <2>6. \A o \in LeftOut :
          \/ Cardinality(chosen) = limit
          \/ Cardinality(OfInstance(chosen, InstanceOf[o])) = caps[InstanceOf[o]].totalFree
          \/ /\ PriorityOf[o] = "batch"
             /\ Cardinality(OfBatch(chosen, InstanceOf[o])) = caps[InstanceOf[o]].batchFree
    BY <2>1, LeftOnlyWhenFull
  <2>7. \A o \in LeftOut : PriorityOf[o] = "interactive" => OfBatch(chosen, InstanceOf[o]) = {}
    <3> SUFFICES ASSUME NEW o \in LeftOut, PriorityOf[o] = "interactive",
                        NEW q \in chosen, InstanceOf[q] = InstanceOf[o], PriorityOf[q] = "batch"
                 PROVE  FALSE
      BY DEF OfBatch
    <3> QED
      BY <2>1, InteractiveGoesFirst
  <2> HIDE DEF chosen, Of, Batch, LeftOut
  <2>8. \A i \in Instances : /\ Cardinality(Of(i)) <= caps[i].totalFree
                             /\ Cardinality(Batch(Of(i))) <= caps[i].batchFree
    BY <2>2, <2>5
  <2>9. \A o \in LeftOut :
          \/ Cardinality(chosen) = limit
          \/ Cardinality(Of(InstanceOf[o])) = caps[InstanceOf[o]].totalFree
          \/ PriorityOf[o] = "batch" /\ Cardinality(Batch(Of(InstanceOf[o]))) = caps[InstanceOf[o]].batchFree
    BY <2>2, <2>6
  <2>10. \A o \in LeftOut : PriorityOf[o] = "interactive" => Batch(Of(InstanceOf[o])) = {}
    BY <2>2, <2>7
  <2> QED
    BY <2>3, <2>4, <2>8, <2>9, <2>10, Zenon DEF chosen, Of, Batch, LeftOut
<1> QED
  BY <1>1, <1>2, <1>3, StoreTyping, ClaimsSeeCommittedRows, PTL DEF StoreSpecUnbounded

=============================================================================
