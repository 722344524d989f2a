------------------------- MODULE Dispatcher_proofs -------------------------
(***************************************************************************)
(* What the claim loops guarantee for every number of replicas, every set  *)
(* of operations and instances, every budget and any number of faults.     *)
(***************************************************************************)
EXTENDS Dispatcher, ClaimQuery_proofs

-----------------------------------------------------------------------------
(***************************************************************************)
(* Every step of the service is a call of the store, or leaves it alone.   *)
(***************************************************************************)

(* claimBatchSize may exceed the backlog, or be zero: what a cycle claims  *)
(* is still something the store offers, or nothing.                        *)
LEMMA ClaimIsAChoice ==
  ASSUME TypeOK, NEW r \in Replicas, NEW excluded \in SUBSET Lanes
  PROVE  \/ Picked(MaxLimit, excluded, available[r]) \in Choices
         \/ Picked(MaxLimit, excluded, available[r]) = {}
<1> DEFINE eligible == WithinCaps(LaneLeaders(excluded, available[r]), available[r])
           n == Cardinality(Ops)
<1>1. available[r] \in [Instances -> Availability]
  BY DEF TypeOK, Replicas
<1>2. eligible \in SUBSET Ops
  BY DEF WithinCaps, LaneLeaders
<1>3. n \in Nat /\ MaxLimit \in Nat
  BY OpsFinite, FS_CardinalityType, BudgetsTyped
<1>4. \A o \in eligible : RowNumber(o, eligible) \in 1..n
  BY <1>2, RankWithinTable
<1>5. \A limit \in Nat :
        Picked(limit, excluded, available[r]) = {o \in eligible : RowNumber(o, eligible) <= limit}
  BY DEF Picked
<1> HIDE DEF eligible, n
<1>6. CASE MaxLimit = 0 \/ n = 0
  BY <1>3, <1>4, <1>5, <1>6
<1>7. ASSUME NEW limit \in 1..n PROVE Picked(limit, excluded, available[r]) \in Choices
  BY <1>1, <1>7 DEF Choices, n
<1>8. CASE MaxLimit \in 1..n
  BY <1>7, <1>8
<1>9. CASE MaxLimit > n /\ n # 0
  <2>1. Picked(MaxLimit, excluded, available[r]) = Picked(n, excluded, available[r])
    BY <1>3, <1>4, <1>5, <1>9
  <2> QED
    BY <1>3, <1>7, <1>9, <2>1
<1> QED
  BY <1>3, <1>6, <1>8, <1>9

(* Whatever handler an attempt runs, it ends with one resolution, and with *)
(* one more effect on the target at most.                                  *)
LEMMA ExecuteResolves ==
  ASSUME NEW a, Execute(a)
  PROVE  \E resolution \in Resolutions \ {"NONE"}, times \in {0, 1} : Resolve(a, resolution, times)
<1>1. BackoffOrGiveUp(a) \in {"INDETERMINATE", "REQUEUE_AFTER_BACKOFF"} /\ MayHaveApplied \subseteq {0, 1}
  BY DEF BackoffOrGiveUp, MayHaveApplied
<1> USE DEF Resolutions, Outcomes
<1>2. CASE AcquireFails(a)
  BY <1>2 DEF AcquireFails
<1>3. CASE AttemptCreate(a)
  BY <1>1, <1>3 DEF AttemptCreate
<1>4. CASE ResumeReadBack(a)
  BY <1>4 DEF ResumeReadBack
<1>5. CASE AttemptUpdate(a)
  BY <1>1, <1>5 DEF AttemptUpdate, AttemptOther
<1>6. CASE AttemptDelete(a)
  BY <1>1, <1>6 DEF AttemptDelete, AttemptOther
<1>7. CASE AttemptDelta(a)
  BY <1>1, <1>7 DEF AttemptDelta, AttemptOther
<1> QED
  BY <1>2, <1>3, <1>4, <1>5, <1>6, <1>7 DEF Execute

(* The write of a resolution is one of the store's three calls.            *)
LEMMA WriteIsAStoreStep ==
  ASSUME TypeOK, NEW a \in attempts, a.resolution # "NONE", WriteResolution(a)
  PROVE  StoreStep
<1>1. a.op \in Ops /\ a.resolution \in Resolutions
  BY DEF TypeOK, Attempt
<1>2. CASE a.resolution = "DEFER_READBACK"
  BY <1>1, <1>2 DEF WriteResolution, StoreStep
<1>3. CASE a.resolution \in {"REQUEUE", "REQUEUE_AFTER_BACKOFF"}
  BY <1>1, <1>3 DEF WriteResolution, StoreStep
<1>4. CASE a.resolution \in Outcomes
  BY <1>1, <1>4 DEF WriteResolution, StoreStep, Outcomes
<1> QED
  BY <1>1, <1>2, <1>3, <1>4 DEF Resolutions

LEMMA StoreView ==
  ASSUME TypeOK, [Next]_vars
  PROVE  [StoreStep]_storeVars
<1>1. ASSUME NEW r \in Replicas, NEW o \in Ops, Submit(r, o) PROVE StoreStep
  BY <1>1 DEF Submit, StoreStep
<1>2. ASSUME NEW r \in Replicas, NEW reaping \in BOOLEAN, BeginCycle(r, reaping)
      PROVE  [StoreStep]_storeVars
  BY <1>2 DEF BeginCycle, StoreStep
<1>3. ASSUME NEW r \in Replicas, SendClaim(r) PROVE [StoreStep]_storeVars
  <2> DEFINE chosen == Picked(MaxLimit, activeLanes[r] \cup laneDeferred[r], available[r])
  <2>1. ClaimSnapshot(r, chosen) /\ r \in Claimers
    BY <1>3 DEF SendClaim, Replicas
  <2>2. chosen \in Choices \/ chosen = {}
    BY ClaimIsAChoice DEF TypeOK, Replicas
  <2>3. CASE chosen \in Choices
    BY <2>1, <2>3 DEF StoreStep, ClaimSnapshot
  <2>4. CASE chosen = {}
    BY <2>1, <2>4 DEF ClaimSnapshot, storeVars, TypeOK, StoreTypeOK
  <2> QED
    BY <2>2, <2>3, <2>4
<1>4. ASSUME NEW r \in Replicas, ReceiveClaim(r) \/ LoseClaim(r) PROVE StoreStep
  BY <1>4 DEF ReceiveClaim, LoseClaim, StoreStep, Replicas
<1>5. ASSUME NEW r \in Replicas, LoseMemory(r) PROVE [StoreStep]_storeVars
  BY <1>5 DEF LoseMemory, StoreStep, Replicas
<1>6. ASSUME NEW o \in Ops, Accept(o) \/ Elapse(o) PROVE StoreStep
  BY <1>6 DEF Accept, Elapse, StoreStep
<1>7. ASSUME NEW a \in attempts, Execute(a) PROVE UNCHANGED storeVars
  BY <1>7, ExecuteResolves DEF Resolve
<1>8. ASSUME NEW a \in attempts, Conclude(a) PROVE StoreStep
  BY <1>8, WriteIsAStoreStep DEF Conclude
<1>9. ASSUME NEW p \in Partitions, MaintainPartition(p) PROVE StoreStep
  BY <1>9 DEF MaintainPartition, StoreStep
<1>10. CASE UNCHANGED vars
  BY <1>10 DEF vars
<1> QED
  BY <1>1, <1>2, <1>3, <1>4, <1>5, <1>6, <1>7, <1>8, <1>9, <1>10
     DEF Next, Ensure, ComputeAvailability, BackoffElapses, Crash, Stop, Exit, Restart, LoseResolution
-----------------------------------------------------------------------------
(***************************************************************************)
(* Types.  An attempt starts from a row its claim has seen, so what the    *)
(* claims have picked belongs to the invariant; and a serial is free       *)
(* because the attempts are finitely many.                                 *)
(***************************************************************************)
DispatcherInv == TypeOK /\ IsFiniteSet(attempts) /\ PickedVisible

LEMMA SerialFresh ==
  ASSUME IsFiniteSet(attempts), NEW r, NEW o
  PROVE  /\ FreshSerial(r, o) \in Nat
         /\ \A a \in attempts : a.replica = r /\ a.op = o => a.serial # FreshSerial(r, o)
<1> DEFINE owned == {a \in AttemptsAt(r) : a.op = o}
           taken == {a.serial : a \in owned}
           n == Cardinality(taken)
<1>1. IsFiniteSet(owned)
  BY FS_Subset, owned \subseteq attempts DEF AttemptsAt
<1>2. IsFiniteSet(taken)
  <2> DEFINE f == [a \in owned |-> a.serial]
  <2>1. f \in Surjection(owned, taken)
    BY DEF Surjection
  <2> QED
    BY <1>1, <2>1, FS_Surjection
<1>3. n \in Nat
  BY <1>2, FS_CardinalityType
<1>4. \E k \in 0..n : k \notin taken
  <2> SUFFICES ASSUME 0..n \subseteq taken PROVE FALSE
    OBVIOUS
  <2>1. Cardinality(0..n) <= n
    BY <1>2, FS_Subset
  <2>2. Cardinality(0..n) = n + 1
    BY <1>3, FS_Interval
  <2> QED
    BY <1>3, <2>1, <2>2
<1>5. FreshSerial(r, o) \in 0..n /\ FreshSerial(r, o) \notin taken
  BY <1>4 DEF FreshSerial
<1> QED
  BY <1>3, <1>5 DEF AttemptsAt

LEMMA FreeSlotsTyped ==
  ASSUME TypeOK, NEW r \in Replicas, NEW i \in Instances
  PROVE  FreeSlots(r, i) \in Availability /\ NothingAvailable[i] \in Availability
<1>1. running[r][i] \in Nat /\ runningBatch[r][i] \in Nat
  BY DEF TypeOK
<1>2. Concurrency[i] \in 0..MaxCap /\ BatchSlots[i] \in 0..MaxCap /\ MaxCap \in Nat
  BY BudgetsTyped, BoundsNatural
<1> QED
  BY <1>1, <1>2 DEF FreeSlots, NothingAvailable, Availability, Smaller

(* The rows a claim returns, and what is launched for them.                *)
LEMMA LaunchedTyped ==
  ASSUME DispatcherInv, NEW r \in Replicas
  PROVE  /\ Returned(r) \subseteq Ops /\ IsFiniteSet(Returned(r))
         /\ \A o \in Returned(r) : Status(o) \in {"PENDING", "AWAITING_READBACK"}
         /\ Launched(r, Returned(r)) \subseteq Attempt
         /\ IsFiniteSet(Launched(r, Returned(r)))
<1>1. Returned(r) \subseteq Ops
  BY DEF Returned, DispatcherInv, TypeOK, StoreTypeOK, Replicas
<1>2. IsFiniteSet(Returned(r))
  BY <1>1, OpsFinite, FS_Subset
<1>3. \A o \in Returned(r) : Status(o) \in {"PENDING", "AWAITING_READBACK"}
  BY <1>1 DEF Returned, StillClaimable, Terminal, DispatcherInv, PickedVisible, TypeOK, StoreTypeOK,
              Status, Row, Statuses, Pending, Replicas
<1>4. \A o \in Ops : operations[o].attemptCount \in Nat
  BY DEF DispatcherInv, TypeOK, StoreTypeOK, Row
<1>5. \A o \in Ops : FreshSerial(r, o) \in Nat
  BY SerialFresh DEF DispatcherInv
<1>6. Launched(r, Returned(r)) \subseteq Attempt
  BY <1>1, <1>3, <1>4, <1>5 DEF Launched, Attempt, Pending, Resolutions
<1>7. IsFiniteSet(Launched(r, Returned(r)))
  <2> DEFINE attempt(o) == [replica |-> r, op |-> o, serial |-> FreshSerial(r, o), priorStatus |-> Status(o),
                            attemptCount |-> operations[o].attemptCount, resolution |-> "NONE"]
             f == [o \in Returned(r) |-> attempt(o)]
  <2>1. Launched(r, Returned(r)) = {attempt(o) : o \in Returned(r)}
    BY DEF Launched
  <2> HIDE DEF attempt
  <2>2. f \in Surjection(Returned(r), {attempt(o) : o \in Returned(r)})
    BY DEF Surjection
  <2> QED
    BY <1>2, <2>1, <2>2, FS_Surjection
<1> QED
  BY <1>1, <1>2, <1>3, <1>6, <1>7

LEMMA DispatcherInvInit == Init => DispatcherInv
<1> SUFFICES ASSUME Init PROVE DispatcherInv
  OBVIOUS
<1>1. StoreTypeOK /\ PickedVisible
  BY DEF Init, StoreInit, StoreTypeOK, PickedVisible, Row, Statuses
<1>2. NothingAvailable \in [Instances -> Availability]
  BY BoundsNatural DEF NothingAvailable, Availability
<1>3. TypeOK
  BY <1>1, <1>2, BudgetsTyped DEF Init, TypeOK, Attempt, Saturated
<1> QED
  BY <1>1, <1>3, FS_EmptySet DEF DispatcherInv, Init

LEMMA DispatcherInvStep ==
  ASSUME DispatcherInv, [Next]_vars
  PROVE  DispatcherInv'
<1>1. StoreTypeOK' /\ PickedVisible'
  BY StoreView, StoreTypeStep, PickedVisibleStep DEF DispatcherInv, TypeOK
<1> DEFINE FieldsTyped ==
      /\ mode \in [Replicas -> {"up", "stopping", "down"}]
      /\ registered \in [Replicas -> SUBSET Instances]
      /\ cycle \in [Replicas -> {"idle", "reaped", "sampling", "claiming"}]
      /\ available \in [Replicas -> [Instances -> Availability]]
      /\ activeLanes \in [Replicas -> SUBSET Lanes]
      /\ running \in [Replicas -> [Instances -> Nat]]
      /\ runningBatch \in [Replicas -> [Instances -> Nat]]
      /\ laneDeferred \in [Replicas -> SUBSET Lanes]
      /\ attempts \subseteq Attempt
      /\ applied \in [Ops -> 0..Saturated]
      /\ faults \in 0..MaxFaults
      /\ IsFiniteSet(attempts)
<1>2. FieldsTyped
  BY DEF DispatcherInv, TypeOK
<1>3. MaxFaults \in Nat
  BY BudgetsTyped
<1>4. NothingAvailable \in [Instances -> Availability]
  BY FreeSlotsTyped, BoundsNatural DEF NothingAvailable, Availability
<1>5. ASSUME NEW r \in Replicas, NEW i \in Instances, Ensure(r, i) PROVE FieldsTyped'
  BY <1>2, <1>5 DEF Ensure, cycleVars, memory
<1>6. ASSUME NEW r \in Replicas, NEW reaping \in BOOLEAN, BeginCycle(r, reaping) PROVE FieldsTyped'
  BY <1>2, <1>6 DEF BeginCycle, memory
<1>7. ASSUME NEW r \in Replicas, NEW outOfTokens \in SUBSET RateLimited, ComputeAvailability(r, outOfTokens)
      PROVE  FieldsTyped'
  <2>1. available' \in [Replicas -> [Instances -> Availability]]
    BY <1>2, <1>7, FreeSlotsTyped DEF ComputeAvailability, DispatcherInv
  <2> QED
    BY <1>2, <1>7, <2>1 DEF ComputeAvailability, memory
<1>8. ASSUME NEW r \in Replicas, SendClaim(r) PROVE FieldsTyped'
  BY <1>2, <1>4, <1>8 DEF SendClaim, memory
<1>9. ASSUME NEW r \in Replicas, ReceiveClaim(r) PROVE FieldsTyped'
  <2> DEFINE claimed == Returned(r)
             batch == {o \in claimed : PriorityOf[o] = "batch"}
             Count(i, S) == Cardinality({o \in S : InstanceOf[o] = i})
  <2>1. claimed \subseteq Ops /\ Launched(r, claimed) \subseteq Attempt /\ IsFiniteSet(Launched(r, claimed))
    BY LaunchedTyped
  <2>2. \A i \in Instances : Count(i, claimed) \in Nat /\ Count(i, batch) \in Nat
    <3> SUFFICES ASSUME NEW S \in SUBSET Ops PROVE Cardinality(S) \in Nat
      BY <2>1
    <3> QED
      BY OpsFinite, FS_Subset, FS_CardinalityType
  <2>3. /\ attempts' = attempts \cup Launched(r, claimed)
        /\ activeLanes' = [activeLanes EXCEPT ![r] = @ \cup {LaneOf[o] : o \in claimed}]
        /\ running' = [running EXCEPT ![r] = [i \in Instances |-> @[i] + Count(i, claimed)]]
        /\ runningBatch' = [runningBatch EXCEPT ![r] = [i \in Instances |-> @[i] + Count(i, batch)]]
        /\ cycle' = [cycle EXCEPT ![r] = "idle"]
        /\ UNCHANGED <<mode, registered, available, laneDeferred, applied, faults>>
    BY <1>9 DEF ReceiveClaim
  <2> HIDE DEF claimed, batch, Count
  <2>4. attempts' \subseteq Attempt /\ IsFiniteSet(attempts')
    BY <1>2, <2>1, <2>3, FS_Union
  <2>5. activeLanes' \in [Replicas -> SUBSET Lanes]
    BY <1>2, <2>1, <2>3, ColumnsTyped
  <2>6. running' \in [Replicas -> [Instances -> Nat]] /\ runningBatch' \in [Replicas -> [Instances -> Nat]]
    BY <1>2, <2>2, <2>3
  <2> QED
    BY <1>2, <2>3, <2>4, <2>5, <2>6
<1>10. ASSUME NEW r \in Replicas, LoseClaim(r) PROVE FieldsTyped'
  BY <1>2, <1>3, <1>10 DEF LoseClaim, memory
<1>11. ASSUME NEW r \in Replicas, NEW lane \in Lanes, BackoffElapses(r, lane) PROVE FieldsTyped'
  BY <1>2, <1>11 DEF BackoffElapses, cycleVars
<1>12. ASSUME NEW r \in Replicas, LoseMemory(r), faults' \in 0..MaxFaults PROVE FieldsTyped'
  <2>1. IsFiniteSet(attempts')
    BY <1>2, <1>12, FS_Subset, attempts' \subseteq attempts DEF LoseMemory
  <2> QED
    BY <1>2, <1>4, <1>12, <2>1 DEF LoseMemory
<1>13. ASSUME NEW r \in Replicas, Stop(r) \/ Restart(r) PROVE FieldsTyped'
  <2>1. mode' \in [Replicas -> {"up", "stopping", "down"}]
    BY <1>2, <1>13 DEF Stop, Restart
  <2>2. faults' \in 0..MaxFaults
    <3>1. CASE Stop(r)
      <4>1. faults < MaxFaults /\ faults' = faults + 1
        BY <3>1 DEF Stop
      <4> QED
        BY <4>1, <1>2, <1>3
    <3>2. CASE Restart(r)
      <4>1. faults' = faults
        BY <3>2 DEF Restart
      <4> QED
        BY <4>1, <1>2
    <3> QED
      BY <1>13, <3>1, <3>2
  <2>3. UNCHANGED <<registered, cycleVars, memory, attempts, applied>>
    BY <1>13 DEF Stop, Restart
  <2> QED
    BY <1>2, <2>1, <2>2, <2>3 DEF cycleVars, memory
<1>14. ASSUME NEW a \in attempts, Execute(a) PROVE FieldsTyped'
  <2>1. PICK resolution \in Resolutions, times \in {0, 1} : Resolve(a, resolution, times)
    BY <1>14, ExecuteResolves
  <2>2. attempts' \subseteq Attempt
    BY <1>2, <2>1 DEF Resolve, Attempt
  <2>3. IsFiniteSet(attempts')
    BY <1>2, <2>1, FS_RemoveElement, FS_AddElement DEF Resolve
  <2>4. applied' \in [Ops -> 0..Saturated]
    <3>1. \A n \in 0..Saturated : Smaller(n + times, Saturated) \in 0..Saturated
      BY DEF Smaller, Saturated
    <3>2. applied' = [applied EXCEPT ![a.op] = Smaller(@ + times, Saturated)]
      BY <2>1 DEF Resolve
    <3> QED
      BY <1>2, <3>1, <3>2 DEF Saturated
  <2> QED
    BY <1>2, <2>1, <2>2, <2>3, <2>4 DEF Resolve, cycleVars, memory
<1>15. ASSUME NEW a \in attempts, Conclude(a) \/ LoseResolution(a) PROVE FieldsTyped'
  <2>1. /\ a.replica \in Replicas /\ a.op \in Ops
        /\ LaneOf[a.op] \in Lanes /\ InstanceOf[a.op] \in Instances
    BY <1>2, ColumnsTyped DEF Attempt
  <2>2. DeferLane(a) /\ Release(a) /\ UNCHANGED <<mode, registered, cycleVars, applied>>
    BY <1>15 DEF Conclude, LoseResolution
  <2>3. faults' \in 0..MaxFaults
    BY <1>2, <1>3, <1>15 DEF Conclude, LoseResolution
  <2>4. IsFiniteSet(attempts') /\ attempts' \subseteq Attempt
    BY <1>2, <2>2, FS_RemoveElement DEF Release
  <2>5. laneDeferred' \in [Replicas -> SUBSET Lanes] /\ activeLanes' \in [Replicas -> SUBSET Lanes]
    BY <1>2, <2>1, <2>2 DEF DeferLane, Release
  <2>6. \A n \in Nat : LessOne(n) \in Nat
    BY DEF LessOne
  <2>7. running' \in [Replicas -> [Instances -> Nat]] /\ runningBatch' \in [Replicas -> [Instances -> Nat]]
    BY <1>2, <2>1, <2>2, <2>6 DEF Release
  <2> QED
    BY <1>2, <2>2, <2>3, <2>4, <2>5, <2>7 DEF cycleVars
<1>16. ASSUME UNCHANGED dispatcherVars PROVE FieldsTyped'
  BY <1>2, <1>16 DEF dispatcherVars, Saturated
<1>17. ASSUME NEW r \in Replicas, Crash(r) \/ Exit(r) PROVE FieldsTyped'
  BY <1>2, <1>3, <1>12, <1>17 DEF Crash, Exit
<1>18. FieldsTyped'
  <2> HIDE DEF FieldsTyped
  <2> QED
    BY <1>5, <1>6, <1>7, <1>8, <1>9, <1>10, <1>11, <1>13, <1>14, <1>15, <1>16, <1>17
       DEF Next, vars, Submit, Accept, Elapse, MaintainPartition
<1> QED
  BY <1>1, <1>18 DEF DispatcherInv, TypeOK

(* Every field of every replica keeps its shape, whatever crashes, stops,  *)
(* lost claims and lost writes the run has.                                *)
THEOREM DispatcherTyping == Spec => []TypeOK
<1>1. DispatcherInv /\ [Next]_vars => DispatcherInv'
  BY DispatcherInvStep
<1>2. DispatcherInv => TypeOK
  BY DEF DispatcherInv
<1> QED
  BY <1>1, <1>2, DispatcherInvInit, PTL DEF Spec

LEMMA AlwaysDispatcherInv == Spec => []DispatcherInv
<1>1. DispatcherInv /\ [Next]_vars => DispatcherInv'
  BY DispatcherInvStep
<1> QED
  BY <1>1, DispatcherInvInit, PTL DEF Spec

-----------------------------------------------------------------------------
(* The replicas use the store as any client may: every behaviour of the    *)
(* service is one of OperationStore, so its theorems are theirs.           *)
THEOREM DispatcherUsesStore == Spec => StoreSpecUnbounded
<1>1. Init => StoreInit
  BY DEF Init
<1>2. TypeOK /\ [Next]_vars => [StoreStep]_storeVars
  BY StoreView
<1> QED
  BY <1>1, <1>2, DispatcherTyping, PTL DEF Spec, StoreSpecUnbounded

(* README.md, the status API: through crashes, late attempts and lost      *)
(* writes a client that polls sees pending, then one outcome, for ever.    *)
THEOREM DispatcherKeepsPromise == Spec => PromiseKept /\ []HistoryAgrees
BY DispatcherUsesStore, StoreKeepsPromise, HistoryCorrect, PTL

=============================================================================
