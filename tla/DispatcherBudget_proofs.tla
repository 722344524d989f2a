---------------------- MODULE DispatcherBudget_proofs ----------------------
(***************************************************************************)
(* The budgets, for every number of replicas, every set of operations and  *)
(* instances, every capacity and any number of faults: the counters the    *)
(* dispatcher keeps are the attempts it has, and no interleaving of a      *)
(* cycle with its attempts takes an instance past its budget.  Attempts    *)
(* that outlive the reaper's threshold are allowed here.                   *)
(***************************************************************************)
EXTENDS InteractiveReserve, Dispatcher_proofs, Scheduling_proofs

-----------------------------------------------------------------------------
(***************************************************************************)
(* Counting attempts.  Live(r, X) are the attempts of replica r at the     *)
(* operations in X; a serial tells apart two attempts at one operation, so *)
(* a launch adds as many attempts as it has rows.                          *)
(***************************************************************************)
Live(r, X) == {a \in attempts : a.replica = r /\ a.op \in X}

Distinct ==
  \A a, b \in attempts : a.replica = b.replica /\ a.op = b.op /\ a.serial = b.serial => a = b

LEMMA LiveFinite ==
  ASSUME DispatcherInv, NEW r, NEW X
  PROVE  IsFiniteSet(Live(r, X)) /\ Cardinality(Live(r, X)) \in Nat
BY FS_Subset, FS_CardinalityType, Live(r, X) \subseteq attempts DEF Live, DispatcherInv

LEMMA LaunchCounts ==
  ASSUME DispatcherInv, Distinct, NEW r \in Replicas, NEW claimed \in SUBSET Ops,
         attempts' = attempts \cup Launched(r, claimed)
  PROVE  /\ Distinct'
         /\ \A X \in SUBSET Ops :
              Cardinality(Live(r, X)') = Cardinality(Live(r, X)) + Cardinality(claimed \cap X)
         /\ \A q \in Replicas \ {r}, X \in SUBSET Ops : Live(q, X)' = Live(q, X)
<1> DEFINE attempt(o) == [replica |-> r, op |-> o, serial |-> FreshSerial(r, o), priorStatus |-> Status(o),
                          attemptCount |-> operations[o].attemptCount, resolution |-> "NONE"]
           new == Launched(r, claimed)
<1>1. new = {attempt(o) : o \in claimed}
  BY DEF Launched
<1>2. \A o : attempt(o).replica = r /\ attempt(o).op = o /\ attempt(o).serial = FreshSerial(r, o)
  OBVIOUS
<1> HIDE DEF attempt, new
<1>3. \A a \in attempts, b \in new : ~(a.replica = b.replica /\ a.op = b.op /\ a.serial = b.serial)
  BY <1>1, <1>2, SerialFresh DEF DispatcherInv
<1>4. \A a, b \in new : a.op = b.op => a = b
  BY <1>1, <1>2
<1>5. attempts' = attempts \cup new
  BY DEF new
<1>6. Distinct'
  BY <1>3, <1>4, <1>5 DEF Distinct
<1>7. ASSUME NEW X \in SUBSET Ops
      PROVE  Cardinality(Live(r, X)') = Cardinality(Live(r, X)) + Cardinality(claimed \cap X)
  <2> DEFINE added == {attempt(o) : o \in claimed \cap X}
             f == [o \in claimed \cap X |-> attempt(o)]
  <2>1. Live(r, X)' = Live(r, X) \cup added
    BY <1>1, <1>2, <1>5 DEF Live
  <2>2. Live(r, X) \cap added = {}
    BY <1>1, <1>3 DEF Live
  <2>3. f \in Injection(claimed \cap X, added) /\ f \in Surjection(claimed \cap X, added)
    BY <1>2 DEF Injection, IsInjective, Surjection
  <2>4. IsFiniteSet(claimed \cap X)
    BY OpsFinite, FS_Subset, claimed \cap X \subseteq Ops
  <2>5. IsFiniteSet(added) /\ Cardinality(added) = Cardinality(claimed \cap X)
    <3> HIDE DEF f, added
    <3>1. IsFiniteSet(added)
      BY <2>3, <2>4, FS_Surjection
    <3> QED
      BY <2>3, <3>1, FS_Injection
  <2>6. Cardinality(added) \in Nat /\ IsFiniteSet(Live(r, X)) /\ Cardinality(Live(r, X)) \in Nat
    BY <2>5, FS_CardinalityType, LiveFinite
  <2> HIDE DEF added
  <2>7. Cardinality(Live(r, X) \cup added) = Cardinality(Live(r, X)) + Cardinality(added) - Cardinality({})
    BY <2>2, <2>5, <2>6, FS_Union
  <2> QED
    BY <2>1, <2>5, <2>6, <2>7, FS_EmptySet
<1>8. ASSUME NEW q \in Replicas \ {r}, NEW X \in SUBSET Ops PROVE Live(q, X)' = Live(q, X)
  BY <1>1, <1>2, <1>5 DEF Live
<1> QED
  BY <1>6, <1>7, <1>8

LEMMA ResolveCounts ==
  ASSUME DispatcherInv, Distinct, NEW a \in attempts, NEW resolution \in Resolutions \ {"NONE"},
         a.resolution = "NONE",
         attempts' = (attempts \ {a}) \cup {[a EXCEPT !.resolution = resolution]}
  PROVE  /\ Distinct'
         /\ \A r \in Replicas, X \in SUBSET Ops : Cardinality(Live(r, X)') = Cardinality(Live(r, X))
<1> DEFINE resolved == [a EXCEPT !.resolution = resolution]
<1>1. /\ resolved.replica = a.replica /\ resolved.op = a.op /\ resolved.serial = a.serial
      /\ resolved.resolution = resolution
  BY DEF DispatcherInv, TypeOK, Attempt
<1>2. attempts' = (attempts \ {a}) \cup {resolved}
  OBVIOUS
<1> HIDE DEF resolved
<1>3. resolved \notin attempts
  BY <1>1 DEF Distinct
<1>4. Distinct'
  BY <1>1, <1>2 DEF Distinct
<1>5. ASSUME NEW r \in Replicas, NEW X \in SUBSET Ops
      PROVE  Cardinality(Live(r, X)') = Cardinality(Live(r, X))
  <2>1. IsFiniteSet(Live(r, X)) /\ Cardinality(Live(r, X)) \in Nat
    BY LiveFinite
  <2>2. CASE a.replica = r /\ a.op \in X
    <3>1. Live(r, X)' = (Live(r, X) \ {a}) \cup {resolved} /\ a \in Live(r, X) /\ resolved \notin Live(r, X) \ {a}
      BY <1>1, <1>2, <1>3, <2>2 DEF Live
    <3>2. IsFiniteSet(Live(r, X) \ {a}) /\ Cardinality(Live(r, X) \ {a}) = Cardinality(Live(r, X)) - 1
      BY <2>1, <3>1, FS_RemoveElement
    <3>3. Cardinality((Live(r, X) \ {a}) \cup {resolved}) = Cardinality(Live(r, X) \ {a}) + 1
      BY <3>1, <3>2, FS_AddElement
    <3> QED
      BY <2>1, <3>1, <3>2, <3>3
  <2>3. CASE ~(a.replica = r /\ a.op \in X)
    <3>1. Live(r, X)' = Live(r, X)
      BY <1>1, <1>2, <2>3 DEF Live
    <3> QED
      BY <3>1
  <2> QED
    BY <2>2, <2>3
<1> QED
  BY <1>4, <1>5

LEMMA ReleaseCounts ==
  ASSUME DispatcherInv, Distinct, NEW a \in attempts, attempts' = attempts \ {a}
  PROVE  /\ Distinct'
         /\ \A r \in Replicas, X \in SUBSET Ops :
              IF a.replica = r /\ a.op \in X
              THEN Cardinality(Live(r, X)') = Cardinality(Live(r, X)) - 1 /\ Cardinality(Live(r, X)) > 0
              ELSE Cardinality(Live(r, X)') = Cardinality(Live(r, X))
<1>1. Distinct'
  BY DEF Distinct
<1>2. ASSUME NEW r \in Replicas, NEW X \in SUBSET Ops
      PROVE  IF a.replica = r /\ a.op \in X
             THEN Cardinality(Live(r, X)') = Cardinality(Live(r, X)) - 1 /\ Cardinality(Live(r, X)) > 0
             ELSE Cardinality(Live(r, X)') = Cardinality(Live(r, X))
  <2>1. IsFiniteSet(Live(r, X)) /\ Cardinality(Live(r, X)) \in Nat
    BY LiveFinite
  <2>2. CASE a.replica = r /\ a.op \in X
    <3>1. Live(r, X)' = Live(r, X) \ {a} /\ a \in Live(r, X)
      BY <2>2 DEF Live
    <3>2. Cardinality(Live(r, X) \ {a}) = Cardinality(Live(r, X)) - 1
      BY <2>1, <3>1, FS_RemoveElement
    <3>3. Cardinality(Live(r, X)) # 0
      BY <2>1, <3>1, FS_EmptySet
    <3> QED
      BY <2>1, <2>2, <3>1, <3>2, <3>3
  <2>3. CASE ~(a.replica = r /\ a.op \in X)
    <3>1. Live(r, X)' = Live(r, X)
      BY <2>3 DEF Live
    <3> QED
      BY <2>3, <3>1
  <2> QED
    BY <2>2, <2>3
<1> QED
  BY <1>1, <1>2

InstanceOps(i) == OfInstance(Ops, i)
BatchOps(i) == OfBatch(Ops, i)

CountersExact ==
  \A r \in Replicas, i \in Instances :
    /\ running[r][i] = Cardinality(Live(r, InstanceOps(i)))
    /\ runningBatch[r][i] = Cardinality(Live(r, BatchOps(i)))

CountInv == DispatcherInv /\ Distinct /\ CountersExact

(* What moves the counters: a claim that returns, an attempt that ends, a  *)
(* process that dies.  Everything else leaves them and the attempts alone. *)
LEMMA CounterSteps ==
  ASSUME [Next]_vars
  PROVE  \/ UNCHANGED <<attempts, running, runningBatch>>
         \/ \E r \in Replicas : ReceiveClaim(r) \/ LoseMemory(r)
         \/ \E a \in attempts : Execute(a) \/ Release(a)
<1>1. ASSUME NEW r \in Replicas,
             \/ \E i \in Instances : Ensure(r, i)
             \/ \E outOfTokens \in SUBSET RateLimited : ComputeAvailability(r, outOfTokens)
             \/ \E reaping \in BOOLEAN : BeginCycle(r, reaping)
             \/ \E lane \in Lanes : BackoffElapses(r, lane)
             \/ SendClaim(r) \/ LoseClaim(r) \/ Stop(r) \/ Restart(r)
      PROVE  UNCHANGED <<attempts, running, runningBatch>>
  BY <1>1 DEF Ensure, ComputeAvailability, BeginCycle, BackoffElapses, SendClaim, LoseClaim, Stop, Restart, memory
<1>2. ASSUME NEW o \in Ops, (\E r \in Replicas : Submit(r, o)) \/ Accept(o) \/ Elapse(o)
      PROVE  UNCHANGED <<attempts, running, runningBatch>>
  BY <1>2 DEF Submit, Accept, Elapse, dispatcherVars
<1>3. ASSUME NEW p \in Partitions, MaintainPartition(p) PROVE UNCHANGED <<attempts, running, runningBatch>>
  BY <1>3 DEF MaintainPartition, dispatcherVars
<1>4. CASE UNCHANGED vars
  BY <1>4 DEF vars, dispatcherVars
<1> QED
  BY <1>1, <1>2, <1>3, <1>4 DEF Next, Crash, Exit, Conclude, LoseResolution

LEMMA CountInvStep ==
  ASSUME CountInv, [Next]_vars
  PROVE  CountInv'
<1>1. DispatcherInv' /\ DispatcherInv
  BY DispatcherInvStep DEF CountInv
<1>2. /\ Distinct /\ CountersExact
      /\ running \in [Replicas -> [Instances -> Nat]] /\ runningBatch \in [Replicas -> [Instances -> Nat]]
      /\ \A a \in attempts : a \in Attempt /\ a.replica \in Replicas /\ a.op \in Ops /\ InstanceOf[a.op] \in Instances
      /\ \A i : InstanceOps(i) \in SUBSET Ops /\ BatchOps(i) \in SUBSET Ops
  BY <1>1, ColumnsTyped
     DEF CountInv, DispatcherInv, TypeOK, Attempt, InstanceOps, BatchOps, OfInstance, OfBatch
<1> SUFFICES Distinct' /\ CountersExact'
  BY <1>1 DEF CountInv
<1>3. CASE UNCHANGED <<attempts, running, runningBatch>>
  BY <1>2, <1>3 DEF Distinct, CountersExact, Live
<1>4. ASSUME NEW r \in Replicas, ReceiveClaim(r) PROVE Distinct' /\ CountersExact'
  <2> DEFINE claimed == Returned(r)
             all(i) == Cardinality(OfInstance(claimed, i))
             batch(i) == Cardinality(OfInstance({o \in claimed : PriorityOf[o] = "batch"}, i))
  <2>1. /\ attempts' = attempts \cup Launched(r, claimed)
        /\ running' = [running EXCEPT ![r] = [i \in Instances |-> @[i] + all(i)]]
        /\ runningBatch' = [runningBatch EXCEPT ![r] = [i \in Instances |-> @[i] + batch(i)]]
    BY <1>4 DEF ReceiveClaim, OfInstance
  <2>2. claimed \in SUBSET Ops
    BY <1>1, LaunchedTyped
  <2>3. \A i \in Instances : /\ OfInstance(claimed, i) = claimed \cap InstanceOps(i)
                             /\ OfInstance({o \in claimed : PriorityOf[o] = "batch"}, i) = claimed \cap BatchOps(i)
    BY <2>2 DEF OfInstance, InstanceOps, BatchOps, OfBatch
  <2>4. \A i \in Instances : all(i) = Cardinality(claimed \cap InstanceOps(i))
                             /\ batch(i) = Cardinality(claimed \cap BatchOps(i))
    BY <2>3
  <2> HIDE DEF claimed, all, batch
  <2>5. /\ Distinct'
        /\ \A X \in SUBSET Ops :
             Cardinality(Live(r, X)') = Cardinality(Live(r, X)) + Cardinality(claimed \cap X)
        /\ \A q \in Replicas \ {r}, X \in SUBSET Ops : Live(q, X)' = Live(q, X)
    BY <1>1, <1>2, <2>1, <2>2, LaunchCounts
  <2>6. ASSUME NEW q \in Replicas, NEW i \in Instances
        PROVE  /\ running'[q][i] = Cardinality(Live(q, InstanceOps(i))')
               /\ runningBatch'[q][i] = Cardinality(Live(q, BatchOps(i))')
    <3>1. CASE q = r
      <4>1. running'[q][i] = running[r][i] + all(i) /\ runningBatch'[q][i] = runningBatch[r][i] + batch(i)
        BY <1>2, <2>1, <3>1
      <4> QED
        BY <1>2, <2>4, <2>5, <3>1, <4>1 DEF CountersExact
    <3>2. CASE q # r
      <4>1. running'[q] = running[q] /\ runningBatch'[q] = runningBatch[q]
        BY <1>2, <2>1, <3>2
      <4> QED
        BY <1>2, <2>5, <3>2, <4>1 DEF CountersExact
    <3> QED
      BY <3>1, <3>2
  <2> QED
    BY <2>5, <2>6 DEF CountersExact, InstanceOps, BatchOps, OfInstance, OfBatch
<1>5. ASSUME NEW r \in Replicas, LoseMemory(r) PROVE Distinct' /\ CountersExact'
  <2>1. /\ attempts' = attempts \ AttemptsAt(r)
        /\ running' = [running EXCEPT ![r] = [i \in Instances |-> 0]]
        /\ runningBatch' = [runningBatch EXCEPT ![r] = [i \in Instances |-> 0]]
    BY <1>5 DEF LoseMemory
  <2>2. \A X : Live(r, X)' = {} /\ \A q \in Replicas \ {r} : Live(q, X)' = Live(q, X)
    BY <2>1 DEF Live, AttemptsAt
  <2>3. Distinct'
    BY <1>2, <2>1 DEF Distinct
  <2>4. ASSUME NEW q \in Replicas, NEW i \in Instances
        PROVE  /\ running'[q][i] = Cardinality(Live(q, InstanceOps(i))')
               /\ runningBatch'[q][i] = Cardinality(Live(q, BatchOps(i))')
    <3>1. CASE q = r
      <4>1. running'[q][i] = 0 /\ runningBatch'[q][i] = 0
        BY <1>2, <2>1, <3>1
      <4> QED
        BY <2>2, <3>1, <4>1, FS_EmptySet
    <3>2. CASE q # r
      <4>1. running'[q] = running[q] /\ runningBatch'[q] = runningBatch[q]
        BY <1>2, <2>1, <3>2
      <4> QED
        BY <1>2, <2>2, <3>2, <4>1 DEF CountersExact
    <3> QED
      BY <3>1, <3>2
  <2> QED
    BY <2>3, <2>4 DEF CountersExact, InstanceOps, BatchOps, OfInstance, OfBatch
<1>6. ASSUME NEW a \in attempts, Execute(a) PROVE Distinct' /\ CountersExact'
  <2>1. PICK resolution \in Resolutions \ {"NONE"}, times \in {0, 1} : Resolve(a, resolution, times)
    BY <1>6, ExecuteResolves
  <2>2. UNCHANGED <<running, runningBatch>>
    BY <2>1 DEF Resolve, memory
  <2>3. Distinct' /\ \A r \in Replicas, X \in SUBSET Ops : Cardinality(Live(r, X)') = Cardinality(Live(r, X))
    BY <1>1, <1>2, <2>1, ResolveCounts DEF Resolve
  <2> QED
    BY <1>2, <2>2, <2>3 DEF CountersExact, InstanceOps, BatchOps, OfInstance, OfBatch
<1>7. ASSUME NEW a \in attempts, Release(a) PROVE Distinct' /\ CountersExact'
  <2> DEFINE r == a.replica
             i == InstanceOf[a.op]
  <2>1. /\ attempts' = attempts \ {a}
        /\ running' = [running EXCEPT ![r][i] = LessOne(@)]
        /\ runningBatch' = IF PriorityOf[a.op] = "batch"
                           THEN [runningBatch EXCEPT ![r][i] = LessOne(@)]
                           ELSE runningBatch
    BY <1>7 DEF Release
  <2>2. r \in Replicas /\ i \in Instances
    BY <1>2
  <2>3. /\ Distinct'
        /\ \A q \in Replicas, X \in SUBSET Ops :
             IF r = q /\ a.op \in X
             THEN Cardinality(Live(q, X)') = Cardinality(Live(q, X)) - 1 /\ Cardinality(Live(q, X)) > 0
             ELSE Cardinality(Live(q, X)') = Cardinality(Live(q, X))
    BY <1>1, <1>2, <2>1, ReleaseCounts
  <2>4. /\ \A j \in Instances : a.op \in InstanceOps(j) <=> j = i
        /\ \A j \in Instances : a.op \in BatchOps(j) <=> j = i /\ PriorityOf[a.op] = "batch"
    BY <1>2 DEF InstanceOps, BatchOps, OfInstance, OfBatch
  <2>5. \A n \in Nat : n > 0 => LessOne(n) = n - 1
    BY DEF LessOne
  <2> HIDE DEF r, i
  <2>6. ASSUME NEW q \in Replicas, NEW j \in Instances
        PROVE  running'[q][j] = Cardinality(Live(q, InstanceOps(j))')
    <3>1. CASE q = r /\ j = i
      BY <1>2, <2>1, <2>2, <2>3, <2>4, <2>5, <3>1 DEF CountersExact
    <3>2. CASE ~(q = r /\ j = i)
      <4>1. running'[q][j] = running[q][j]
        BY <1>2, <2>1, <2>2, <3>2
      <4> QED
        BY <1>2, <2>3, <2>4, <3>2, <4>1 DEF CountersExact
    <3> QED
      BY <3>1, <3>2
  <2>7. ASSUME NEW q \in Replicas, NEW j \in Instances
        PROVE  runningBatch'[q][j] = Cardinality(Live(q, BatchOps(j))')
    <3>1. CASE q = r /\ j = i /\ PriorityOf[a.op] = "batch"
      BY <1>2, <2>1, <2>2, <2>3, <2>4, <2>5, <3>1 DEF CountersExact
    <3>2. CASE ~(q = r /\ j = i /\ PriorityOf[a.op] = "batch")
      <4>1. runningBatch'[q][j] = runningBatch[q][j]
        BY <1>2, <2>1, <2>2, <3>2
      <4> QED
        BY <1>2, <2>3, <2>4, <3>2, <4>1 DEF CountersExact
    <3> QED
      BY <3>1, <3>2
  <2> QED
    BY <2>3, <2>6, <2>7 DEF CountersExact, InstanceOps, BatchOps, OfInstance, OfBatch
<1> QED
  BY <1>3, <1>4, <1>5, <1>6, <1>7, CounterSteps

LEMMA CountInvInit == Init => CountInv
<1> SUFFICES ASSUME Init PROVE CountInv
  OBVIOUS
<1>1. DispatcherInv /\ attempts = {}
  BY DispatcherInvInit DEF Init
<1>2. \A r, X : Live(r, X) = {}
  BY <1>1 DEF Live
<1>3. Cardinality({}) = 0
  BY FS_EmptySet
<1> QED
  BY <1>1, <1>2, <1>3 DEF Init, CountInv, Distinct, CountersExact

LEMMA LiveIsHere ==
  ASSUME TypeOK, NEW r \in Replicas, NEW i \in Instances
  PROVE  LET here == {a \in AttemptsAt(r) : InstanceOf[a.op] = i}
         IN /\ here = Live(r, InstanceOps(i))
            /\ {a \in here : PriorityOf[a.op] = "batch"} = Live(r, BatchOps(i))
<1>1. \A a \in attempts : a.op \in Ops
  BY DEF TypeOK, Attempt
<1> QED
  BY <1>1 DEF AttemptsAt, Live, InstanceOps, BatchOps, OfInstance, OfBatch

(* running and runningBatch, kept on two sides of an await and floored at  *)
(* zero, are the attempts the process has: the floor is never reached.     *)
THEOREM CountersCorrect == Spec => []CountersAgree
<1>1. CountInv /\ [Next]_vars => CountInv'
  BY CountInvStep
<1>2. CountInv => CountersAgree
  BY LiveIsHere DEF CountInv, DispatcherInv, CountersExact, CountersAgree
<1> QED
  BY <1>1, <1>2, CountInvInit, PTL DEF Spec

-----------------------------------------------------------------------------
(***************************************************************************)
(* Budgets.  What a cycle has computed as free, and then what its claim    *)
(* has chosen, is reserved: between the two awaits attempts of the replica *)
(* only end, for only a claim that returns starts one.                     *)
(***************************************************************************)
Reserved(r, i) ==
  /\ Cardinality(OfInstance(picked[r], i)) + running[r][i] <= Concurrency[i]
  /\ Cardinality(OfBatch(picked[r], i)) + runningBatch[r][i] <= BatchSlots[i]
  /\ cycle[r] = "sampling" =>
       /\ available[r][i].totalFree + running[r][i] <= Concurrency[i]
       /\ available[r][i].batchFree + runningBatch[r][i] <= BatchSlots[i]

BudgetInv ==
  /\ CountInv
  /\ CreatedInOrder
  /\ \A r \in Replicas, i \in Instances : Reserved(r, i)

\* No step but these three reserves or starts anything.
Eased(r) ==
  /\ picked'[r] = picked[r] \/ picked'[r] = {}
  /\ cycle'[r] = "sampling" => cycle[r] = "sampling" /\ available'[r] = available[r]
  /\ \A i \in Instances : running'[r][i] <= running[r][i] /\ runningBatch'[r][i] <= runningBatch[r][i]

LEMMA EasedSteps ==
  ASSUME DispatcherInv, [Next]_vars
  PROVE  \/ \A r \in Replicas : Eased(r)
         \/ \E r \in Replicas : \/ \E outOfTokens \in SUBSET RateLimited : ComputeAvailability(r, outOfTokens)
                               \/ SendClaim(r)
                               \/ ReceiveClaim(r)
<1>1. /\ running \in [Replicas -> [Instances -> Nat]] /\ runningBatch \in [Replicas -> [Instances -> Nat]]
      /\ cycle \in [Replicas -> {"idle", "reaped", "sampling", "claiming"}]
      /\ picked \in [Replicas -> SUBSET Ops]
      /\ \A a \in attempts : a.op \in Ops /\ a.replica \in Replicas /\ InstanceOf[a.op] \in Instances
  BY ColumnsTyped DEF DispatcherInv, TypeOK, StoreTypeOK, Attempt, Replicas
<1> DEFINE Gentle == \A r \in Replicas : Eased(r)
<1>2. ASSUME UNCHANGED <<picked, cycle, available, running, runningBatch>> PROVE Gentle
  BY <1>1, <1>2 DEF Eased
<1>3. ASSUME NEW r \in Replicas,
             \/ \E i \in Instances : Ensure(r, i)
             \/ \E lane \in Lanes : BackoffElapses(r, lane)
             \/ Stop(r) \/ Restart(r)
             \/ \E o \in Ops : Submit(r, o)
      PROVE  Gentle
  BY <1>2, <1>3 DEF Ensure, BackoffElapses, Stop, Restart, Submit, EnqueueBegin, storeVars, cycleVars,
                    memory, dispatcherVars
<1>4. ASSUME NEW r \in Replicas, NEW reaping \in BOOLEAN, BeginCycle(r, reaping) PROVE Gentle
  <2>1. UNCHANGED <<picked, available, running, runningBatch>> /\ cycle' = [cycle EXCEPT ![r] = "reaped"]
    BY <1>4 DEF BeginCycle, ReapStale, storeVars, memory
  <2> QED
    BY <1>1, <2>1 DEF Eased
<1>5. ASSUME NEW r \in Replicas, LoseClaim(r) PROVE Gentle
  <2>1. /\ UNCHANGED <<available, running, runningBatch>> /\ cycle' = [cycle EXCEPT ![r] = "idle"]
        /\ picked' = [picked EXCEPT ![r] = {}]
    BY <1>5 DEF LoseClaim, ClaimCommit, ClaimAbort, memory
  <2> QED
    BY <1>1, <2>1 DEF Eased
<1>6. ASSUME NEW r \in Replicas, LoseMemory(r) PROVE Gentle
  <2>1. /\ cycle' = [cycle EXCEPT ![r] = "idle"]
        /\ available' = [available EXCEPT ![r] = NothingAvailable]
        /\ running' = [running EXCEPT ![r] = [i \in Instances |-> 0]]
        /\ runningBatch' = [runningBatch EXCEPT ![r] = [i \in Instances |-> 0]]
    BY <1>6 DEF LoseMemory
  <2>2. picked' = picked \/ picked' = [picked EXCEPT ![r] = {}]
    BY <1>6 DEF LoseMemory, ClaimCommit, ClaimAbort, storeVars
  <2>3. available \in [Replicas -> [Instances -> Availability]]
    BY DEF DispatcherInv, TypeOK
  <2>4. ASSUME NEW q \in Replicas PROVE Eased(q)
    <3>1. CASE q = r
      BY <1>1, <2>1, <2>2, <3>1 DEF Eased
    <3>2. CASE q # r
      <4>1. /\ cycle'[q] = cycle[q] /\ available'[q] = available[q] /\ running'[q] = running[q]
            /\ runningBatch'[q] = runningBatch[q] /\ picked'[q] = picked[q]
        BY <1>1, <2>1, <2>2, <2>3, <3>2
      <4> QED
        BY <1>1, <4>1 DEF Eased
    <3> QED
      BY <3>1, <3>2
  <2> QED
    BY <2>4
<1>7. ASSUME NEW o \in Ops, Accept(o) \/ Elapse(o) PROVE Gentle
  BY <1>2, <1>7 DEF Accept, Elapse, EnqueueCommit, TimePasses, dispatcherVars
<1>8. ASSUME NEW p \in Partitions, MaintainPartition(p) PROVE Gentle
  BY <1>2, <1>8 DEF MaintainPartition, DropPartition, dispatcherVars
<1>9. ASSUME NEW a \in attempts, Execute(a) PROVE Gentle
  <2>1. PICK resolution \in Resolutions, times \in {0, 1} : Resolve(a, resolution, times)
    BY <1>9, ExecuteResolves
  <2> QED
    BY <1>2, <2>1 DEF Resolve, storeVars, cycleVars, memory
<1>10. ASSUME NEW a \in attempts, Conclude(a) \/ LoseResolution(a) PROVE Gentle
  <2> DEFINE r == a.replica
             i == InstanceOf[a.op]
  <2>1. /\ UNCHANGED <<cycle, available>>
        /\ running' = [running EXCEPT ![r][i] = LessOne(@)]
        /\ runningBatch' = IF PriorityOf[a.op] = "batch"
                           THEN [runningBatch EXCEPT ![r][i] = LessOne(@)]
                           ELSE runningBatch
    BY <1>10 DEF Conclude, LoseResolution, Release, cycleVars
  <2>2. UNCHANGED picked
    <3>1. CASE LoseResolution(a)
      BY <3>1 DEF LoseResolution, storeVars
    <3>2. CASE Conclude(a)
      <4>1. WriteResolution(a) /\ a.resolution \in Resolutions \ {"NONE"}
        BY <3>2 DEF Conclude, DispatcherInv, TypeOK, Attempt
      <4> QED
        BY <4>1 DEF WriteResolution, DeferForReadback, Requeue, Finalize, Resolutions, Outcomes
    <3> QED
      BY <1>10, <3>1, <3>2
  <2>3. \A n \in Nat : LessOne(n) <= n
    BY DEF LessOne
  <2>4. r \in Replicas /\ i \in Instances
    BY <1>1
  <2> HIDE DEF r, i
  <2>5. ASSUME NEW q \in Replicas, NEW j \in Instances
        PROVE  running'[q][j] <= running[q][j] /\ runningBatch'[q][j] <= runningBatch[q][j]
    BY <1>1, <2>1, <2>3, <2>4
  <2> QED
    BY <1>1, <2>1, <2>2, <2>5 DEF Eased
<1>11. ASSUME UNCHANGED vars PROVE Gentle
  BY <1>2, <1>11 DEF vars, storeVars, dispatcherVars
<1> HIDE DEF Gentle
<1>12. Gentle \/ \E r \in Replicas : \/ \E outOfTokens \in SUBSET RateLimited : ComputeAvailability(r, outOfTokens)
                                   \/ SendClaim(r)
                                   \/ ReceiveClaim(r)
  BY <1>3, <1>4, <1>5, <1>6, <1>7, <1>8, <1>9, <1>10, <1>11 DEF Next, Crash, Exit
<1> QED
  BY <1>12 DEF Gentle

LEMMA ReservedStep ==
  ASSUME BudgetInv, [Next]_vars
  PROVE  \A q \in Replicas, i \in Instances : Reserved(q, i)'
<1>1. /\ DispatcherInv /\ TypeOK /\ StoreTypeOK /\ CreatedInOrder
      /\ running \in [Replicas -> [Instances -> Nat]] /\ runningBatch \in [Replicas -> [Instances -> Nat]]
      /\ cycle \in [Replicas -> {"idle", "reaped", "sampling", "claiming"}]
      /\ available \in [Replicas -> [Instances -> Availability]]
      /\ picked \in [Replicas -> SUBSET Ops]
  BY DEF BudgetInv, CountInv, DispatcherInv, TypeOK, StoreTypeOK, Replicas
<1>2. \A i \in Instances : Concurrency[i] \in Nat /\ BatchSlots[i] \in Nat
  BY BudgetsTyped, BoundsNatural
<1>3. \A caps \in [Instances -> Availability], i \in Instances :
        caps[i].totalFree \in Nat /\ caps[i].batchFree \in Nat
  BY BoundsNatural DEF Availability
<1>4. ASSUME NEW S \in SUBSET Ops, NEW i
      PROVE  /\ Cardinality(OfInstance(S, i)) \in Nat /\ Cardinality(OfBatch(S, i)) \in Nat
             /\ IsFiniteSet(OfInstance(S, i)) /\ IsFiniteSet(OfBatch(S, i))
  <2>1. OfInstance(S, i) \subseteq Ops /\ OfBatch(S, i) \subseteq Ops
    BY DEF OfInstance, OfBatch
  <2> QED
    BY <2>1, OpsFinite, FS_Subset, FS_CardinalityType
<1>5. \A i : Cardinality(OfInstance({}, i)) = 0 /\ Cardinality(OfBatch({}, i)) = 0
  <2>1. \A i : OfInstance({}, i) = {} /\ OfBatch({}, i) = {}
    BY DEF OfInstance, OfBatch
  <2> QED
    BY <2>1, FS_EmptySet
<1>6. ASSUME NEW r \in Replicas, NEW i \in Instances PROVE Reserved(r, i)
  BY DEF BudgetInv
<1>7. ASSUME NEW r \in Replicas, NEW i \in Instances
      PROVE  /\ running[r][i] \in Nat /\ running[r][i] <= Concurrency[i]
             /\ runningBatch[r][i] \in Nat /\ runningBatch[r][i] <= BatchSlots[i]
  <2>1. Cardinality(OfInstance(picked[r], i)) \in Nat /\ Cardinality(OfBatch(picked[r], i)) \in Nat
    BY <1>1, <1>4
  <2> QED
    BY <1>1, <1>2, <1>6, <2>1 DEF Reserved
<1>8. ASSUME NEW r \in Replicas, Eased(r), NEW i \in Instances,
             running'[r][i] \in Nat, runningBatch'[r][i] \in Nat
      PROVE  Reserved(r, i)'
  <2>1. /\ Cardinality(OfInstance(picked[r], i)) \in Nat /\ Cardinality(OfBatch(picked[r], i)) \in Nat
        /\ available[r][i].totalFree \in Nat /\ available[r][i].batchFree \in Nat
    BY <1>1, <1>3, <1>4
  <2>2. /\ Cardinality(OfInstance(picked'[r], i)) <= Cardinality(OfInstance(picked[r], i))
        /\ Cardinality(OfBatch(picked'[r], i)) <= Cardinality(OfBatch(picked[r], i))
        /\ Cardinality(OfInstance(picked'[r], i)) \in Nat /\ Cardinality(OfBatch(picked'[r], i)) \in Nat
    <3>1. CASE picked'[r] = picked[r]
      BY <2>1, <3>1
    <3>2. CASE picked'[r] = {}
      BY <1>5, <2>1, <3>2
    <3> QED
      BY <1>8, <3>1, <3>2 DEF Eased
  <2>3. running'[r][i] <= running[r][i] /\ runningBatch'[r][i] <= runningBatch[r][i]
    BY <1>8 DEF Eased
  <2>4. cycle'[r] = "sampling" => cycle[r] = "sampling" /\ available'[r] = available[r]
    BY <1>8 DEF Eased
  <2>5. /\ Cardinality(OfInstance(picked[r], i)) + running[r][i] <= Concurrency[i]
        /\ Cardinality(OfBatch(picked[r], i)) + runningBatch[r][i] <= BatchSlots[i]
        /\ cycle[r] = "sampling" =>
             /\ available[r][i].totalFree + running[r][i] <= Concurrency[i]
             /\ available[r][i].batchFree + runningBatch[r][i] <= BatchSlots[i]
    BY <1>6 DEF Reserved
  <2>6. /\ running[r][i] \in Nat /\ runningBatch[r][i] \in Nat
        /\ running'[r][i] \in Nat /\ runningBatch'[r][i] \in Nat
        /\ Concurrency[i] \in Nat /\ BatchSlots[i] \in Nat
    BY <1>2, <1>7, <1>8
  <2>7. /\ Cardinality(OfInstance(picked'[r], i)) + running'[r][i] <= Concurrency[i]
        /\ Cardinality(OfBatch(picked'[r], i)) + runningBatch'[r][i] <= BatchSlots[i]
    BY <2>1, <2>2, <2>3, <2>5, <2>6
  <2>8. cycle'[r] = "sampling" =>
          /\ available'[r][i].totalFree + running'[r][i] <= Concurrency[i]
          /\ available'[r][i].batchFree + runningBatch'[r][i] <= BatchSlots[i]
    BY <2>1, <2>3, <2>4, <2>5, <2>6
  <2> QED
    BY <2>7, <2>8 DEF Reserved, OfInstance, OfBatch
<1>9. running' \in [Replicas -> [Instances -> Nat]] /\ runningBatch' \in [Replicas -> [Instances -> Nat]]
  BY <1>1, DispatcherInvStep DEF DispatcherInv, TypeOK
<1>10. CASE \A r \in Replicas : Eased(r)
  BY <1>8, <1>9, <1>10
<1>11. ASSUME NEW r \in Replicas, NEW outOfTokens \in SUBSET RateLimited, ComputeAvailability(r, outOfTokens),
              NEW q \in Replicas, NEW i \in Instances
       PROVE  Reserved(q, i)'
  <2>1. UNCHANGED <<picked, running, runningBatch>>
    BY <1>11 DEF ComputeAvailability, storeVars, memory
  <2>2. CASE q # r
    <3>1. cycle'[q] = cycle[q] /\ available'[q] = available[q]
      BY <1>1, <1>11, <2>2 DEF ComputeAvailability
    <3> QED
      BY <1>6, <2>1, <3>1 DEF Reserved, OfInstance, OfBatch
  <2>3. CASE q = r
    <3>1. available'[r][i] = IF i \in registered[r] \ outOfTokens THEN FreeSlots(r, i) ELSE NothingAvailable[i]
      BY <1>1, <1>11 DEF ComputeAvailability
    <3>2. /\ NothingAvailable[i].totalFree = 0 /\ NothingAvailable[i].batchFree = 0
      BY DEF NothingAvailable
    <3>3. /\ FreeSlots(r, i).totalFree + running[r][i] <= Concurrency[i]
          /\ FreeSlots(r, i).batchFree + runningBatch[r][i] <= BatchSlots[i]
      BY <1>2, <1>7, <3>2 DEF FreeSlots, Smaller
    <3>4. /\ available'[r][i].totalFree + running[r][i] <= Concurrency[i]
          /\ available'[r][i].batchFree + runningBatch[r][i] <= BatchSlots[i]
      BY <1>2, <1>7, <3>1, <3>2, <3>3
    <3> QED
      BY <1>6, <2>1, <2>3, <3>4 DEF Reserved, OfInstance, OfBatch
  <2> QED
    BY <2>2, <2>3
<1>12. ASSUME NEW r \in Replicas, SendClaim(r), NEW q \in Replicas, NEW i \in Instances PROVE Reserved(q, i)'
  <2> DEFINE excluded == activeLanes[r] \cup laneDeferred[r]
             chosen == Picked(MaxLimit, excluded, available[r])
  <2>1. /\ picked[r] = {} /\ picked' = [picked EXCEPT ![r] = chosen]
        /\ cycle[r] = "sampling" /\ cycle' = [cycle EXCEPT ![r] = IF chosen = {} THEN "idle" ELSE "claiming"]
        /\ available' = [available EXCEPT ![r] = NothingAvailable]
        /\ UNCHANGED <<running, runningBatch>>
    BY <1>12 DEF SendClaim, ClaimSnapshot, memory
  <2>2. /\ Cardinality(OfInstance(chosen, i)) <= available[r][i].totalFree
        /\ Cardinality(OfBatch(chosen, i)) <= available[r][i].batchFree
    BY <1>1, CapsHold
  <2>3. chosen \in SUBSET Ops
    BY DEF Picked, WithinCaps, LaneLeaders
  <2> HIDE DEF chosen
  <2>4. CASE q # r
    <3>1. cycle'[q] = cycle[q] /\ available'[q] = available[q] /\ picked'[q] = picked[q]
      BY <1>1, <2>1, <2>4
    <3> QED
      BY <1>6, <2>1, <3>1 DEF Reserved, OfInstance, OfBatch
  <2>5. CASE q = r
    <3>1. picked'[r] = chosen /\ cycle'[r] # "sampling"
      BY <1>1, <2>1
    <3>2. Cardinality(OfInstance(chosen, i)) \in Nat /\ Cardinality(OfBatch(chosen, i)) \in Nat
          /\ available[r][i].totalFree \in Nat /\ available[r][i].batchFree \in Nat
      BY <1>1, <1>3, <1>4, <2>3
    <3>3. /\ available[r][i].totalFree + running[r][i] <= Concurrency[i]
          /\ available[r][i].batchFree + runningBatch[r][i] <= BatchSlots[i]
      BY <1>6, <2>1 DEF Reserved
    <3>4. /\ Cardinality(OfInstance(chosen, i)) + running[r][i] <= Concurrency[i]
          /\ Cardinality(OfBatch(chosen, i)) + runningBatch[r][i] <= BatchSlots[i]
      BY <1>2, <1>7, <2>2, <3>2, <3>3
    <3> QED
      BY <2>1, <2>5, <3>1, <3>4 DEF Reserved, OfInstance, OfBatch
  <2> QED
    BY <2>4, <2>5
<1>13. ASSUME NEW r \in Replicas, ReceiveClaim(r), NEW q \in Replicas, NEW i \in Instances PROVE Reserved(q, i)'
  <2> DEFINE claimed == Returned(r)
             all(j) == Cardinality(OfInstance(claimed, j))
             batch(j) == Cardinality(OfInstance({o \in claimed : PriorityOf[o] = "batch"}, j))
  <2>1. /\ running' = [running EXCEPT ![r] = [j \in Instances |-> @[j] + all(j)]]
        /\ runningBatch' = [runningBatch EXCEPT ![r] = [j \in Instances |-> @[j] + batch(j)]]
        /\ cycle' = [cycle EXCEPT ![r] = "idle"] /\ UNCHANGED available
        /\ picked' = [picked EXCEPT ![r] = {}]
    BY <1>13 DEF ReceiveClaim, ClaimCommit, OfInstance
  <2>2. claimed \in SUBSET picked[r]
    BY DEF Returned
  <2>3. /\ OfInstance(claimed, i) \subseteq OfInstance(picked[r], i)
        /\ OfInstance({o \in claimed : PriorityOf[o] = "batch"}, i) \subseteq OfBatch(picked[r], i)
    BY <2>2 DEF OfInstance, OfBatch
  <2>4. /\ all(i) \in Nat /\ all(i) <= Cardinality(OfInstance(picked[r], i))
        /\ batch(i) \in Nat /\ batch(i) <= Cardinality(OfBatch(picked[r], i))
    BY <1>1, <1>4, <2>3, FS_Subset, FS_CardinalityType
  <2> HIDE DEF claimed, all, batch
  <2>5. CASE q # r
    <3>1. /\ cycle'[q] = cycle[q] /\ available'[q] = available[q] /\ picked'[q] = picked[q]
          /\ running'[q] = running[q] /\ runningBatch'[q] = runningBatch[q]
      BY <1>1, <2>1, <2>5
    <3> QED
      BY <1>6, <3>1 DEF Reserved, OfInstance, OfBatch
  <2>6. CASE q = r
    <3>1. /\ cycle'[r] # "sampling" /\ picked'[r] = {}
          /\ running'[r][i] = running[r][i] + all(i) /\ runningBatch'[r][i] = runningBatch[r][i] + batch(i)
      BY <1>1, <2>1
    <3>2. Cardinality(OfInstance(picked[r], i)) \in Nat /\ Cardinality(OfBatch(picked[r], i)) \in Nat
      BY <1>1, <1>4
    <3>3. running[r][i] + all(i) <= Concurrency[i] /\ runningBatch[r][i] + batch(i) <= BatchSlots[i]
      BY <1>2, <1>6, <1>7, <2>4, <3>2 DEF Reserved
    <3>4. Cardinality(OfInstance(picked'[r], i)) = 0 /\ Cardinality(OfBatch(picked'[r], i)) = 0
      BY <1>5, <3>1
    <3> QED
      BY <1>2, <1>7, <2>4, <2>6, <3>1, <3>3, <3>4 DEF Reserved, OfInstance, OfBatch
  <2> QED
    BY <2>5, <2>6
<1> QED
  BY <1>1, <1>10, <1>11, <1>12, <1>13, EasedSteps

LEMMA BudgetInvInit == Init => BudgetInv
<1> SUFFICES ASSUME Init PROVE BudgetInv
  OBVIOUS
<1>1. CountInv
  BY CountInvInit
<1>2. CreatedInOrder
  <2>1. {o \in Ops : operations[o].createdAt > 0} = {}
    BY DEF Init, StoreInit
  <2>2. Now = 1
    BY <2>1, FS_EmptySet DEF Now
  <2> QED
    BY <2>2 DEF Init, StoreInit, CreatedInOrder, Status
<1>3. ASSUME NEW r \in Replicas, NEW i \in Instances PROVE Reserved(r, i)
  <2>1. OfInstance(picked[r], i) = {} /\ OfBatch(picked[r], i) = {}
    BY DEF Init, StoreInit, Replicas, OfInstance, OfBatch
  <2>2. Concurrency[i] \in Nat /\ BatchSlots[i] \in Nat
    BY BudgetsTyped, BoundsNatural
  <2> QED
    BY <2>1, <2>2, FS_EmptySet DEF Init, Reserved
<1> QED
  BY <1>1, <1>2, <1>3 DEF BudgetInv

(* No replica ever runs more attempts on an instance than its              *)
(* mutationConcurrency, nor more batch attempts than batchSlots: the free  *)
(* slots computed before two awaits are still free after them.             *)
THEOREM BudgetsHold == Spec => []BudgetRespected
<1>1. BudgetInv /\ [Next]_vars => BudgetInv'
  <2> SUFFICES ASSUME BudgetInv, [Next]_vars PROVE BudgetInv'
    OBVIOUS
  <2>1. CreatedInOrder'
    BY StoreView, CreatedInOrderStep DEF BudgetInv, CountInv, DispatcherInv, TypeOK
  <2> QED
    BY <2>1, CountInvStep, ReservedStep DEF BudgetInv
<1>2. BudgetInv => BudgetRespected
  <2> SUFFICES ASSUME BudgetInv, NEW r \in Replicas, NEW i \in Instances
               PROVE  /\ Cardinality(Live(r, InstanceOps(i))) <= Concurrency[i]
                      /\ Cardinality(Live(r, BatchOps(i))) <= BatchSlots[i]
    BY LiveIsHere DEF BudgetRespected, BudgetInv, CountInv, DispatcherInv
  <2>1. Reserved(r, i) /\ picked[r] \in SUBSET Ops /\ running[r][i] \in Nat /\ runningBatch[r][i] \in Nat
    BY DEF BudgetInv, CountInv, DispatcherInv, TypeOK, StoreTypeOK, Replicas
  <2>2. Concurrency[i] \in Nat /\ BatchSlots[i] \in Nat
    BY BudgetsTyped, BoundsNatural
  <2>3. OfInstance(picked[r], i) \subseteq Ops /\ OfBatch(picked[r], i) \subseteq Ops
    BY <2>1 DEF OfInstance, OfBatch
  <2>4. Cardinality(OfInstance(picked[r], i)) \in Nat /\ Cardinality(OfBatch(picked[r], i)) \in Nat
    BY <2>3, OpsFinite, FS_Subset, FS_CardinalityType
  <2>5. running[r][i] <= Concurrency[i] /\ runningBatch[r][i] <= BatchSlots[i]
    BY <2>1, <2>2, <2>4 DEF Reserved
  <2> QED
    BY <2>5 DEF BudgetInv, CountInv, CountersExact
<1> QED
  BY <1>1, <1>2, BudgetInvInit, PTL DEF Spec

(* The interactive slice under load: the budget that batch attempts stay   *)
(* within is what the least whole number of reserved slots leaves, so they *)
(* never take the share that interactiveSliceFraction reserves, for every  *)
(* fraction and mutationConcurrency.                                       *)
THEOREM ReserveHolds == Spec => []InteractiveShare
<1>1. DispatcherInv /\ BudgetRespected => InteractiveShare
  <2> SUFFICES ASSUME DispatcherInv, BudgetRespected, NEW r \in Replicas, NEW i \in Instances, Concurrency[i] > 1,
                      NEW batch, batch = {a \in AttemptsAt(r) : InstanceOf[a.op] = i /\ PriorityOf[a.op] = "batch"}
               PROVE  SliceDen * Cardinality(batch) <= (SliceDen - SliceNum[i]) * Concurrency[i]
    BY DEF InteractiveShare
  <2> DEFINE n == Concurrency[i]
             num == SliceNum[i]
             slots == ComputeInteractiveSlots(n, num, SliceDen)
             size == Cardinality(batch)
  <2>1. n \in Nat /\ num \in 0..SliceDen /\ SliceDen \in Nat \ {0} /\ Representable(n, num, SliceDen)
    BY BudgetsTyped, BoundsNatural, SliceIsAFraction
  <2>2. slots \in 0..n /\ slots * SliceDen >= n * num
    <3>1. SliceFitsAt(n, num, SliceDen)
      BY <2>1, SliceFits
    <3>2. slots \in 0..n /\ (num > 0 => slots * SliceDen >= n * num)
      BY <3>1 DEF SliceFitsAt
    <3> HIDE DEF slots, n, num
    <3>3. CASE num = 0
      BY <2>1, <3>2, <3>3
    <3> QED
      BY <2>1, <3>2, <3>3
  <2>3. size <= n - slots
    <3>1. batch = {a \in {b \in AttemptsAt(r) : InstanceOf[b.op] = i} : PriorityOf[a.op] = "batch"}
      OBVIOUS
    <3>2. size <= BatchSlots[i]
      BY <3>1 DEF BudgetRespected
    <3>3. BatchSlots[i] = n - slots
      BY SlotsResolved DEF ResolvedSlots, ResolvedBatchSlots
    <3> QED
      BY <3>2, <3>3
  <2>4. size \in Nat
    BY FS_Subset, FS_CardinalityType, batch \subseteq attempts DEF AttemptsAt, DispatcherInv
  <2> HIDE DEF n, num, slots, size
  <2>5. SliceDen * size <= SliceDen * (n - slots)
    BY <2>1, <2>2, <2>3, <2>4
  <2>6. SliceDen * (n - slots) = SliceDen * n - slots * SliceDen /\ (SliceDen - num) * n = SliceDen * n - n * num
    BY <2>1, <2>2
  <2> QED
    BY <2>1, <2>2, <2>4, <2>5, <2>6 DEF n, num, size
<1> QED
  BY <1>1, AlwaysDispatcherInv, BudgetsHold, PTL

=============================================================================
