---------------------- MODULE DispatcherSafety_proofs ----------------------
(***************************************************************************)
(* What the attempts may rely on, for every number of replicas, every set  *)
(* of operations and instances and every budget: who owns a row, what is   *)
(* retried, and how often an operation reaches its target.  Each theorem   *)
(* names the assumption it needs: that no attempt outlives the reaper's    *)
(* threshold, that a retryable error did not reach the target.             *)
(***************************************************************************)
EXTENDS Dispatcher_proofs

-----------------------------------------------------------------------------
(***************************************************************************)
(* The steps, seen from a row.  All but three leave the target alone,      *)
(* launch nothing, and move a row only as the queue itself may.            *)
(***************************************************************************)
Quiet ==
  /\ attempts' \subseteq attempts
  /\ UNCHANGED applied
  /\ \/ UNCHANGED operations
     \/ \E o \in Ops : EnqueueBegin(o) \/ EnqueueCommit(o) \/ Elapse(o)
     \/ ReapStale
     \/ \E p \in Partitions : DropPartition(p)
     \/ \E r \in Replicas : ClaimCommit(r)

LEMMA FourKindsOfSteps ==
  ASSUME [Next]_vars
  PROVE  \/ Quiet
         \/ \E r \in Replicas : ReceiveClaim(r)
         \/ \E a \in attempts : Execute(a)
         \/ \E a \in attempts : Conclude(a)
<1>1. ASSUME NEW r \in Replicas, LoseMemory(r) PROVE Quiet
  BY <1>1 DEF LoseMemory, Quiet, ClaimAbort, storeVars
<1>2. ASSUME NEW r \in Replicas, LoseClaim(r) PROVE Quiet
  BY <1>2 DEF LoseClaim, Quiet, ClaimAbort
<1>3. ASSUME NEW r \in Replicas, NEW reaping \in BOOLEAN, BeginCycle(r, reaping) PROVE Quiet
  BY <1>3 DEF BeginCycle, Quiet, storeVars
<1>4. ASSUME NEW r \in Replicas, SendClaim(r) PROVE Quiet
  BY <1>4 DEF SendClaim, ClaimSnapshot, Quiet
<1>5. ASSUME NEW r \in Replicas,
             \/ \E i \in Instances : Ensure(r, i)
             \/ \E outOfTokens \in SUBSET RateLimited : ComputeAvailability(r, outOfTokens)
             \/ \E lane \in Lanes : BackoffElapses(r, lane)
             \/ Stop(r)
             \/ Restart(r)
      PROVE  Quiet
  BY <1>5 DEF Ensure, ComputeAvailability, BackoffElapses, Stop, Restart, Quiet, storeVars
<1>6. ASSUME NEW r \in Replicas, NEW o \in Ops, Submit(r, o) PROVE Quiet
  BY <1>6 DEF Submit, dispatcherVars, Quiet
<1>7. ASSUME NEW o \in Ops, Accept(o) \/ Elapse(o) PROVE Quiet
  BY <1>7 DEF Accept, Elapse, dispatcherVars, Quiet
<1>8. ASSUME NEW p \in Partitions, MaintainPartition(p) PROVE Quiet
  BY <1>8 DEF MaintainPartition, dispatcherVars, Quiet
<1>9. ASSUME NEW a \in attempts, LoseResolution(a) PROVE Quiet
  BY <1>9 DEF LoseResolution, Release, Quiet, storeVars
<1>10. CASE UNCHANGED vars
  BY <1>10 DEF vars, dispatcherVars, storeVars, Quiet
<1> QED
  BY <1>1, <1>2, <1>3, <1>4, <1>5, <1>6, <1>7, <1>8, <1>9, <1>10 DEF Next, Crash, Exit

(* What finalize writes for a resolution.                                  *)
LEMMA ResolutionWritten ==
  ASSUME TypeOK, NEW a \in attempts, Conclude(a)
  PROVE  /\ a.op \in Ops
         /\ \A o \in Ops \ {a.op} : operations'[o] = operations[o]
         /\ \/ a.resolution = "DEFER_READBACK" /\ DeferForReadback(a.op)
            \/ a.resolution \in {"REQUEUE", "REQUEUE_AFTER_BACKOFF"} /\ Requeue(a.op)
            \/ a.resolution \in Outcomes /\ Finalize(a.op, a.resolution)
<1>1. a.op \in Ops /\ a.resolution \in Resolutions \ {"NONE"} /\ WriteResolution(a)
  BY DEF Conclude, TypeOK, Attempt
<1>2. operations \in [Ops -> Row]
  BY DEF TypeOK, StoreTypeOK
<1>3. CASE a.resolution = "DEFER_READBACK"
  <2>1. DeferForReadback(a.op)
    BY <1>1, <1>3 DEF WriteResolution, Outcomes
  <2> QED
    BY <1>1, <1>2, <1>3, <2>1 DEF DeferForReadback
<1>4. CASE a.resolution \in {"REQUEUE", "REQUEUE_AFTER_BACKOFF"}
  <2>1. Requeue(a.op)
    BY <1>1, <1>4 DEF WriteResolution, Outcomes
  <2> QED
    BY <1>1, <1>2, <1>4, <2>1 DEF Requeue
<1>5. CASE a.resolution \in Outcomes
  <2>1. Finalize(a.op, a.resolution)
    BY <1>1, <1>5 DEF WriteResolution, Outcomes
  <2> QED
    BY <1>1, <1>2, <1>5, <2>1 DEF Finalize
<1> QED
  BY <1>1, <1>3, <1>4, <1>5 DEF Resolutions

(* A claim takes rows that wait, and leaves their attempt count alone.     *)
Untouched(o) == operations'[o] = operations[o]

ClaimedRow(o) ==
  /\ Status(o) \in {"PENDING", "AWAITING_READBACK"}
  /\ operations'[o].status = "RUNNING"
  /\ ~operations'[o].elapsed
  /\ operations'[o].attemptCount = operations[o].attemptCount

LEMMA ClaimMoves ==
  ASSUME DispatcherInv, NEW r \in Replicas, ClaimCommit(r)
  PROVE  /\ \A o \in Ops : IF o \in Returned(r) THEN ClaimedRow(o) ELSE Untouched(o)
         /\ Returned(r) \subseteq Ops
<1>1. Returned(r) \subseteq Ops /\ \A o \in Returned(r) : Status(o) \in {"PENDING", "AWAITING_READBACK"}
  BY LaunchedTyped
<1>2. operations \in [Ops -> Row]
  BY DEF DispatcherInv, TypeOK, StoreTypeOK
<1>3. operations' = [o \in Ops |-> IF o \in Returned(r)
                                  THEN [operations[o] EXCEPT !.status = "RUNNING", !.elapsed = FALSE]
                                  ELSE operations[o]]
  BY DEF ClaimCommit, Claim
<1>4. ASSUME NEW o \in Ops, o \in Returned(r) PROVE ClaimedRow(o)
  <2>1. operations'[o] = [operations[o] EXCEPT !.status = "RUNNING", !.elapsed = FALSE]
    BY <1>3, <1>4
  <2> QED
    BY <1>1, <1>2, <1>4, <2>1 DEF ClaimedRow, Row
<1> QED
  BY <1>1, <1>3, <1>4 DEF Untouched

QuietRow(o) ==
  \/ Untouched(o)
  \/ /\ operations'[o].status = Status(o)
     /\ Status(o) = "RUNNING" /\ Executing(o) => SlowAttempts
     /\ operations'[o].attemptCount = operations[o].attemptCount
  \/ /\ \/ Status(o) = "NONE" /\ operations'[o].status = "INSERTING"
        \/ Status(o) = "INSERTING" /\ operations'[o].status = "PENDING"
        \/ Terminal(o) /\ operations'[o].status = "DROPPED"
        \/ /\ Stale(o)
           /\ operations'[o].status = IF TypeOf[o] = "CREATE" THEN "AWAITING_READBACK" ELSE "PENDING"
     /\ operations'[o].attemptCount = operations[o].attemptCount
  \/ ClaimedRow(o)

LEMMA QuietRows ==
  ASSUME DispatcherInv, Quiet
  PROVE  \A o \in Ops : QuietRow(o)
<1>1. operations \in [Ops -> Row]
  BY DEF DispatcherInv, TypeOK, StoreTypeOK
<1>2. ASSUME NEW p \in Ops, EnqueueBegin(p) \/ EnqueueCommit(p), NEW o \in Ops PROVE QuietRow(o)
  <2>1. CASE o = p
    BY <1>1, <1>2, <2>1 DEF EnqueueBegin, EnqueueCommit, QuietRow, Status, Row
  <2>2. CASE o # p
    BY <1>1, <1>2, <2>2 DEF EnqueueBegin, EnqueueCommit, QuietRow, Untouched
  <2> QED
    BY <2>1, <2>2
<1>3. ASSUME NEW p \in Ops, Elapse(p), NEW o \in Ops PROVE QuietRow(o)
  <2>1. CASE o = p
    BY <1>1, <1>3, <2>1 DEF Elapse, TimePasses, QuietRow, Status, Row
  <2>2. CASE o # p
    BY <1>1, <1>3, <2>2 DEF Elapse, TimePasses, QuietRow, Untouched
  <2> QED
    BY <2>1, <2>2
<1>4. ASSUME ReapStale, NEW o \in Ops PROVE QuietRow(o)
  <2>1. CASE Stale(o)
    BY <1>1, <1>4, <2>1 DEF ReapStale, QuietRow, Row
  <2>2. CASE ~Stale(o)
    BY <1>1, <1>4, <2>2 DEF ReapStale, QuietRow, Untouched
  <2> QED
    BY <2>1, <2>2
<1>5. ASSUME NEW p \in Partitions, DropPartition(p), NEW o \in Ops PROVE QuietRow(o)
  <2> DEFINE rows == {q \in Ops : PartitionOf[q] = p /\ Status(q) # "NONE"}
  <2>1. /\ \A q \in rows : Terminal(q)
        /\ operations' = [q \in Ops |-> IF q \in rows THEN [operations[q] EXCEPT !.status = "DROPPED"]
                                        ELSE operations[q]]
    BY <1>5 DEF DropPartition
  <2> HIDE DEF rows
  <2>2. CASE o \in rows
    BY <1>1, <2>1, <2>2 DEF QuietRow, Row
  <2>3. CASE o \notin rows
    BY <1>1, <2>1, <2>3 DEF QuietRow, Untouched
  <2> QED
    BY <2>2, <2>3
<1>6. ASSUME NEW r \in Replicas, ClaimCommit(r), NEW o \in Ops PROVE QuietRow(o)
  BY <1>6, ClaimMoves DEF QuietRow
<1>7. ASSUME UNCHANGED operations, NEW o \in Ops PROVE QuietRow(o)
  BY <1>7 DEF QuietRow, Untouched
<1> QED
  BY <1>2, <1>3, <1>4, <1>5, <1>6, <1>7 DEF Quiet

-----------------------------------------------------------------------------
(***************************************************************************)
(* Who owns a row.  A row that is RUNNING is claimed by nobody, and until  *)
(* its claim goes stale it is moved by its own attempt only; so the claim  *)
(* of a row someone works on must not have elapsed.                        *)
(***************************************************************************)
OwnerInv ==
  /\ DispatcherInv
  /\ SoleOwner
  /\ \A a \in attempts : ~operations[a.op].elapsed

LEMMA OwnedRowsKept ==
  ASSUME ~SlowAttempts, OwnerInv, Quiet
  PROVE  \A a \in attempts : Untouched(a.op)
<1> SUFFICES ASSUME NEW a \in attempts PROVE Untouched(a.op)
  OBVIOUS
<1>1. a.op \in Ops /\ Executing(a.op)
  BY DEF OwnerInv, DispatcherInv, TypeOK, Attempt, Executing
<1>2. Status(a.op) = "RUNNING" /\ ~operations[a.op].elapsed
  BY DEF OwnerInv, SoleOwner
<1>3. QuietRow(a.op)
  BY <1>1, QuietRows DEF OwnerInv
<1> QED
  BY <1>1, <1>2, <1>3 DEF QuietRow, ClaimedRow, Stale, Terminal, Outcomes

LEMMA OwnerInvStep ==
  ASSUME ~SlowAttempts, OwnerInv, [Next]_vars
  PROVE  OwnerInv'
<1> DEFINE Owned(a) == Status(a.op) = "RUNNING" /\ operations[a.op].attemptCount = a.attemptCount
                       /\ ~operations[a.op].elapsed
           Alone == \A a, b \in attempts : a.op = b.op => a = b
<1>1. DispatcherInv'
  BY DispatcherInvStep DEF OwnerInv
<1>2. (\A a \in attempts : Owned(a)) /\ Alone
  BY DEF OwnerInv, SoleOwner
<1>3. operations \in [Ops -> Row] /\ \A a \in attempts : a.op \in Ops
  BY DEF OwnerInv, DispatcherInv, TypeOK, StoreTypeOK, Attempt
<1>4. ASSUME NEW a \in attempts, Untouched(a.op) PROVE Owned(a)'
  BY <1>2, <1>4 DEF Untouched, Status
<1>5. CASE Quiet
  <2>1. attempts' \subseteq attempts
    BY <1>5 DEF Quiet
  <2>2. (\A a \in attempts : Owned(a)')
    BY <1>4, <1>5, OwnedRowsKept
  <2> QED
    BY <1>1, <1>2, <2>1, <2>2 DEF OwnerInv, SoleOwner
<1>6. ASSUME NEW r \in Replicas, ReceiveClaim(r) PROVE OwnerInv'
  <2> DEFINE new == Launched(r, Returned(r))
  <2>1. ClaimCommit(r) /\ attempts' = attempts \cup new
    BY <1>6 DEF ReceiveClaim
  <2>2. /\ \A o \in Ops : IF o \in Returned(r) THEN ClaimedRow(o) ELSE Untouched(o)
        /\ Returned(r) \subseteq Ops
    BY <2>1, ClaimMoves DEF OwnerInv
  <2>3. \A o \in Returned(r) : Status(o) # "RUNNING"
    BY <2>2 DEF ClaimedRow
  <2>4. ASSUME NEW a \in attempts PROVE Owned(a)'
    BY <1>2, <1>3, <1>4, <2>2, <2>3
  <2>5. ASSUME NEW a \in new PROVE a.op \in Returned(r) /\ Owned(a)'
    <3>1. a.op \in Returned(r) /\ a.attemptCount = operations[a.op].attemptCount
      BY DEF Launched
    <3> QED
      BY <2>2, <3>1 DEF ClaimedRow, Status
  <2>6. \A a, b \in new : a.op = b.op => a = b
    BY DEF Launched
  <2> HIDE DEF new
  <2>7. \A a \in attempts, b \in new : a.op # b.op
    BY <1>2, <2>3, <2>5
  <2>8. Alone'
    BY <1>2, <2>1, <2>6, <2>7
  <2> QED
    BY <1>1, <2>1, <2>4, <2>5, <2>8 DEF OwnerInv, SoleOwner
<1>7. ASSUME NEW a \in attempts, Execute(a) PROVE OwnerInv'
  <2>1. PICK resolution \in Resolutions \ {"NONE"}, times \in {0, 1} : Resolve(a, resolution, times)
    BY <1>7, ExecuteResolves
  <2> DEFINE resolved == [a EXCEPT !.resolution = resolution]
  <2>2. attempts' = (attempts \ {a}) \cup {resolved} /\ UNCHANGED operations
    BY <2>1 DEF Resolve, storeVars
  <2>3. resolved.op = a.op /\ resolved.attemptCount = a.attemptCount
    BY DEF OwnerInv, DispatcherInv, TypeOK, Attempt
  <2> HIDE DEF resolved
  <2>4. \A b \in attempts' : Owned(b)'
    BY <1>2, <2>2, <2>3 DEF Status
  <2>5. Alone'
    BY <1>2, <2>2, <2>3
  <2> QED
    BY <1>1, <2>4, <2>5 DEF OwnerInv, SoleOwner
<1>8. ASSUME NEW a \in attempts, Conclude(a) PROVE OwnerInv'
  <2>1. attempts' = attempts \ {a}
    BY <1>8 DEF Conclude, Release
  <2>2. \A o \in Ops \ {a.op} : Untouched(o)
    BY <1>8, ResolutionWritten DEF OwnerInv, DispatcherInv, Untouched
  <2>3. \A b \in attempts' : b \in attempts /\ b.op # a.op
    BY <1>2, <2>1
  <2> QED
    BY <1>1, <1>2, <1>3, <1>4, <2>2, <2>3 DEF OwnerInv, SoleOwner
<1> QED
  BY <1>5, <1>6, <1>7, <1>8, FourKindsOfSteps

LEMMA AlwaysOwnerInv == ASSUME ~SlowAttempts PROVE Spec => []OwnerInv
<1>1. Init => OwnerInv
  BY DispatcherInvInit DEF Init, OwnerInv, SoleOwner
<1>2. OwnerInv /\ [Next]_vars => OwnerInv'
  BY OwnerInvStep
<1> QED
  BY <1>1, <1>2, PTL DEF Spec

(* README.md: "no risk of double claiming".  However many replicas claim,  *)
(* crash, stop and reap, an operation has one live attempt at most, which  *)
(* works from the row as it stands.                                        *)
THEOREM OneOwner == ASSUME ~SlowAttempts PROVE Spec => []SoleOwner
<1>1. OwnerInv => SoleOwner
  BY DEF OwnerInv
<1> QED
  BY <1>1, AlwaysOwnerInv, PTL

(* README.md: "Two operations that touch the same object ... can never run *)
(* concurrently": on one replica they cannot, through every crash, reap    *)
(* and read-back, because the store holds the lane of every attempt.       *)
THEOREM OneReplicaSerializes == ASSUME OneClaimer, ~SlowAttempts PROVE Spec => []LaneSerialized
<1>1. OwnerInv /\ LaneHeld => LaneSerialized
  <2> SUFFICES ASSUME OwnerInv, LaneHeld, NEW a \in attempts, NEW b \in attempts, SameLane(a.op, b.op)
               PROVE  a.op = b.op
    BY DEF LaneSerialized
  <2>1. a.op \in Ops /\ b.op \in Ops
    BY DEF OwnerInv, DispatcherInv, TypeOK, Attempt
  <2> QED
    BY <2>1 DEF OwnerInv, SoleOwner, LaneHeld
<1> QED
  BY <1>1, AlwaysOwnerInv, DispatcherUsesStore, OneClaimerHoldsLanes, PTL

-----------------------------------------------------------------------------
(***************************************************************************)
(* Retries.  The attempt decided to requeue by the count its claim         *)
(* returned; the row still has that count when the requeue is written.     *)
(***************************************************************************)
RetryDecided(a) ==
  /\ a.resolution = "REQUEUE" => a.attemptCount < 1
  /\ a.resolution = "REQUEUE_AFTER_BACKOFF" => a.attemptCount + 1 < MaxAttempts

RetryInv == OwnerInv /\ RetryBudget /\ \A a \in attempts : RetryDecided(a)

LEMMA ExecuteDecides ==
  ASSUME TypeOK, NEW a \in attempts, Execute(a)
  PROVE  \E resolution \in Resolutions, times \in {0, 1} :
           Resolve(a, resolution, times) /\ RetryDecided([a EXCEPT !.resolution = resolution])
<1>1. a \in Attempt
  BY DEF TypeOK
<1>2. a.attemptCount \in Nat /\ MaxAttempts \in Nat
  BY <1>1, BudgetsTyped DEF Attempt
<1> DEFINE Decided(resolution) == RetryDecided([a EXCEPT !.resolution = resolution])
<1>3. \A resolution \in Resolutions \ {"REQUEUE", "REQUEUE_AFTER_BACKOFF"} : Decided(resolution)
  BY <1>1 DEF RetryDecided, Attempt
<1>4. BackoffOrGiveUp(a) \in Resolutions /\ Decided(BackoffOrGiveUp(a))
  BY <1>1, <1>2 DEF RetryDecided, Attempt, BackoffOrGiveUp, Resolutions, Outcomes
<1>5. a.attemptCount < 1 => Decided("REQUEUE")
  BY <1>1 DEF RetryDecided, Attempt
<1>6. MayHaveApplied \subseteq {0, 1}
  BY DEF MayHaveApplied
<1> HIDE DEF Decided
<1> SUFFICES \E resolution \in Resolutions, times \in {0, 1} :
               Resolve(a, resolution, times) /\ Decided(resolution)
  BY DEF Decided
<1>7. CASE AcquireFails(a)
  BY <1>3, <1>7 DEF AcquireFails, Resolutions, Outcomes
<1>8. CASE AttemptCreate(a)
  BY <1>3, <1>4, <1>6, <1>8 DEF AttemptCreate, Resolutions, Outcomes
<1>9. CASE ResumeReadBack(a)
  BY <1>3, <1>5, <1>9 DEF ResumeReadBack, Resolutions, Outcomes
<1>10. CASE AttemptUpdate(a)
  BY <1>3, <1>4, <1>10 DEF AttemptUpdate, AttemptOther, Resolutions, Outcomes
<1>11. CASE AttemptDelete(a)
  BY <1>3, <1>4, <1>11 DEF AttemptDelete, AttemptOther, Resolutions, Outcomes
<1>12. CASE AttemptDelta(a)
  BY <1>3, <1>4, <1>12 DEF AttemptDelta, AttemptOther, Resolutions, Outcomes
<1> QED
  BY <1>7, <1>8, <1>9, <1>10, <1>11, <1>12 DEF Execute

LEMMA RetryInvStep ==
  ASSUME ~SlowAttempts, RetryInv, [Next]_vars
  PROVE  RetryInv'
<1> DEFINE bound == IF MaxAttempts > 2 THEN MaxAttempts - 1 ELSE 1
<1>1. OwnerInv'
  BY OwnerInvStep DEF RetryInv
<1>2. /\ DispatcherInv /\ TypeOK
      /\ \A o \in Ops : operations[o].attemptCount <= bound
      /\ \A a \in attempts : RetryDecided(a) /\ a \in Attempt /\ operations[a.op].attemptCount = a.attemptCount
  BY DEF RetryInv, OwnerInv, RetryBudget, DispatcherInv, TypeOK, SoleOwner
<1>3. operations \in [Ops -> Row]
  BY <1>2 DEF TypeOK, StoreTypeOK
<1> DEFINE CountKept(o) == operations'[o].attemptCount = operations[o].attemptCount
<1>4. ASSUME \A o \in Ops : CountKept(o) PROVE RetryBudget'
  BY <1>2, <1>4 DEF RetryBudget
<1>5. CASE Quiet
  <2>1. \A o \in Ops : CountKept(o)
    BY <1>2, <1>5, QuietRows DEF QuietRow, Untouched, ClaimedRow
  <2>2. attempts' \subseteq attempts
    BY <1>5 DEF Quiet
  <2>3. \A a \in attempts' : RetryDecided(a)'
    BY <1>2, <2>2 DEF RetryDecided
  <2> QED
    BY <1>1, <1>4, <2>1, <2>3 DEF RetryInv
<1>6. ASSUME NEW r \in Replicas, ReceiveClaim(r) PROVE RetryInv'
  <2>1. ClaimCommit(r) /\ attempts' = attempts \cup Launched(r, Returned(r))
    BY <1>6 DEF ReceiveClaim
  <2>2. \A o \in Ops : CountKept(o)
    BY <1>2, <2>1, ClaimMoves DEF ClaimedRow, Untouched
  <2>3. \A a \in Launched(r, Returned(r)) : a.resolution = "NONE"
    BY DEF Launched
  <2>4. \A a \in attempts' : RetryDecided(a)'
    BY <1>2, <2>1, <2>3 DEF RetryDecided
  <2> QED
    BY <1>1, <1>4, <2>2, <2>4 DEF RetryInv
<1>7. ASSUME NEW a \in attempts, Execute(a) PROVE RetryInv'
  <2>1. PICK resolution \in Resolutions, times \in {0, 1} :
               Resolve(a, resolution, times) /\ RetryDecided([a EXCEPT !.resolution = resolution])
    BY <1>2, <1>7, ExecuteDecides
  <2>2. attempts' = (attempts \ {a}) \cup {[a EXCEPT !.resolution = resolution]} /\ UNCHANGED operations
    BY <2>1 DEF Resolve, storeVars
  <2>3. \A b \in attempts' : RetryDecided(b)'
    BY <1>2, <2>1, <2>2 DEF RetryDecided
  <2> QED
    BY <1>1, <1>4, <2>2, <2>3 DEF RetryInv
<1>8. ASSUME NEW a \in attempts, Conclude(a) PROVE RetryInv'
  <2>1. attempts' = attempts \ {a}
    BY <1>8 DEF Conclude, Release
  <2>2. a.op \in Ops /\ a.attemptCount \in Nat /\ MaxAttempts \in Nat
    BY <1>2, BudgetsTyped DEF Attempt
  <2>3. \A o \in Ops \ {a.op} : CountKept(o)
    BY <1>2, <1>8, ResolutionWritten
  <2>4. RetryBudget'
    <3>1. CASE a.resolution \in {"REQUEUE", "REQUEUE_AFTER_BACKOFF"} /\ Requeue(a.op)
      <4>1. a.attemptCount + 1 <= bound
        BY <1>2, <2>2, <3>1 DEF RetryDecided
      <4>2. operations'[a.op].attemptCount <= bound
        BY <1>2, <1>3, <2>2, <3>1, <4>1 DEF Requeue, Row
      <4> QED
        BY <1>2, <2>3, <4>2 DEF RetryBudget
    <3>2. CASE DeferForReadback(a.op) \/ \E outcome \in Outcomes : Finalize(a.op, outcome)
      <4>1. ASSUME DeferForReadback(a.op) PROVE CountKept(a.op)
        BY <1>3, <2>2, <4>1 DEF DeferForReadback, Row
      <4>2. ASSUME NEW outcome \in Outcomes, Finalize(a.op, outcome) PROVE CountKept(a.op)
        BY <1>3, <2>2, <4>2 DEF Finalize, Row
      <4>3. CountKept(a.op)
        BY <3>2, <4>1, <4>2
      <4> QED
        BY <1>4, <2>3, <4>3
    <3> QED
      BY <1>2, <1>8, <3>1, <3>2, ResolutionWritten
  <2>5. \A b \in attempts' : RetryDecided(b)'
    BY <1>2, <2>1 DEF RetryDecided
  <2> QED
    BY <1>1, <2>4, <2>5 DEF RetryInv
<1> QED
  BY <1>5, <1>6, <1>7, <1>8, FourKindsOfSteps

(* maxAttempts bounds what it is meant to bound: backoff, the read-back    *)
(* retry, reaping and lost writes together never retry an operation more   *)
(* than maxAttempts - 1 times, or once where that is less.                 *)
THEOREM RetriesBounded == ASSUME ~SlowAttempts PROVE Spec => []RetryBudget
<1>1. Init => RetryInv
  <2> SUFFICES ASSUME Init PROVE RetryInv
    OBVIOUS
  <2>1. OwnerInv /\ attempts = {}
    BY DispatcherInvInit DEF Init, OwnerInv, SoleOwner
  <2>2. RetryBudget
    BY BudgetsTyped DEF Init, StoreInit, RetryBudget
  <2> QED
    BY <2>1, <2>2 DEF RetryInv
<1>2. RetryInv /\ [Next]_vars => RetryInv'
  BY RetryInvStep
<1>3. RetryInv => RetryBudget
  BY DEF RetryInv
<1> QED
  BY <1>1, <1>2, <1>3, PTL DEF Spec

-----------------------------------------------------------------------------
(***************************************************************************)
(* Success.  What made an operation succeed is not taken back, so it is    *)
(* enough that an attempt concludes success only when it has been applied, *)
(* or when a search has found an object of its name; and only creates wait *)
(* for a search.                                                           *)
(***************************************************************************)
AppliedOrFound(o) ==
  \/ applied[o] > 0
  \/ TypeOf[o] = "CREATE" /\ NameTaken(o)
  \/ TypeOf[o] = "DELETE"

SuccessInv ==
  /\ DispatcherInv
  /\ SucceededIsApplied
  /\ \A o \in Ops : Status(o) = "AWAITING_READBACK" => TypeOf[o] = "CREATE"
  /\ \A a \in attempts :
       /\ a.priorStatus = "AWAITING_READBACK" \/ a.resolution = "DEFER_READBACK" => TypeOf[a.op] = "CREATE"
       /\ a.resolution = "SUCCEEDED" => AppliedOrFound(a.op)

LEMMA EffectsRemain ==
  ASSUME DispatcherInv, [Next]_vars, NEW o \in Ops
  PROVE  /\ applied[o] \in 0..2 /\ applied'[o] \in Int /\ applied'[o] >= applied[o]
         /\ AppliedOrFound(o) => AppliedOrFound(o)'
<1>1. applied \in [Ops -> 0..2]
  BY DEF DispatcherInv, TypeOK, Saturated
<1>2. ASSUME NEW p \in Ops PROVE applied'[p] \in Int /\ applied'[p] >= applied[p]
  <2>1. CASE UNCHANGED applied
    BY <1>1, <2>1
  <2>2. ASSUME NEW a \in attempts, NEW resolution, NEW times \in {0, 1}, Resolve(a, resolution, times)
        PROVE  applied'[p] \in Int /\ applied'[p] >= applied[p]
    <3>1. \A n \in 0..2 : Smaller(n + times, 2) \in Int /\ Smaller(n + times, 2) >= n
      BY DEF Smaller
    <3>2. applied' = [applied EXCEPT ![a.op] = Smaller(@ + times, 2)]
      BY <2>2 DEF Resolve, Saturated
    <3> QED
      BY <1>1, <3>1, <3>2
  <2>3. \/ UNCHANGED applied
        \/ \E a \in attempts, resolution \in Resolutions, times \in {0, 1} : Resolve(a, resolution, times)
    BY FourKindsOfSteps, ExecuteResolves DEF Quiet, ReceiveClaim, Conclude
  <2> QED
    BY <2>1, <2>2, <2>3
<1>3. AppliedOrFound(o) => AppliedOrFound(o)'
  BY <1>1, <1>2 DEF AppliedOrFound, NameTaken
<1> QED
  BY <1>1, <1>2, <1>3

LEMMA SuccessIsEarned ==
  ASSUME SuccessInv, NEW a \in attempts, Execute(a)
  PROVE  \E resolution \in Resolutions, times \in {0, 1} :
           /\ Resolve(a, resolution, times)
           /\ resolution = "DEFER_READBACK" => TypeOf[a.op] = "CREATE"
           /\ resolution = "SUCCEEDED" => times = 1 \/ AppliedOrFound(a.op)
<1>1. a.op \in Ops
  BY DEF SuccessInv, DispatcherInv, TypeOK, Attempt
<1>2. BackoffOrGiveUp(a) \in {"INDETERMINATE", "REQUEUE_AFTER_BACKOFF"} /\ MayHaveApplied \subseteq {0, 1}
  BY DEF BackoffOrGiveUp, MayHaveApplied
<1>3. CASE AcquireFails(a)
  BY <1>3 DEF AcquireFails, Resolutions, Outcomes
<1>4. CASE AttemptCreate(a)
  BY <1>2, <1>4 DEF AttemptCreate, Resolutions, Outcomes
<1>5. CASE ResumeReadBack(a)
  <2>1. TypeOf[a.op] = "CREATE"
    BY <1>5 DEF ResumeReadBack, SuccessInv
  <2>2. NameTaken(a.op) => AppliedOrFound(a.op)
    BY <2>1 DEF AppliedOrFound
  <2> QED
    BY <1>5, <2>2 DEF ResumeReadBack, Resolutions, Outcomes
<1>6. CASE AttemptUpdate(a)
  BY <1>2, <1>6 DEF AttemptUpdate, AttemptOther, Resolutions, Outcomes
<1>7. CASE AttemptDelete(a)
  <2>1. AppliedOrFound(a.op)
    BY <1>7 DEF AttemptDelete, AppliedOrFound
  <2> QED
    BY <1>2, <1>7, <2>1 DEF AttemptDelete, AttemptOther, Resolutions, Outcomes
<1>8. CASE AttemptDelta(a)
  BY <1>2, <1>8 DEF AttemptDelta, AttemptOther, Resolutions, Outcomes
<1> QED
  BY <1>3, <1>4, <1>5, <1>6, <1>7, <1>8 DEF Execute

LEMMA SuccessInvStep ==
  ASSUME SuccessInv, [Next]_vars
  PROVE  SuccessInv'
<1> DEFINE RowFine(o) == /\ Status(o) = "SUCCEEDED" => AppliedOrFound(o)
                         /\ Status(o) = "AWAITING_READBACK" => TypeOf[o] = "CREATE"
           Fine(a) == /\ a.priorStatus = "AWAITING_READBACK" \/ a.resolution = "DEFER_READBACK"
                           => TypeOf[a.op] = "CREATE"
                      /\ a.resolution = "SUCCEEDED" => AppliedOrFound(a.op)
<1>1. DispatcherInv /\ DispatcherInv'
  BY DispatcherInvStep DEF SuccessInv
<1>2. /\ \A o \in Ops : RowFine(o)
      /\ \A a \in attempts : Fine(a) /\ a \in Attempt
      /\ operations \in [Ops -> Row]
  BY DEF SuccessInv, SucceededIsApplied, AppliedOrFound, DispatcherInv, TypeOK, StoreTypeOK
<1>3. \A o \in Ops : AppliedOrFound(o) => AppliedOrFound(o)'
  BY <1>1, EffectsRemain
<1> SUFFICES (\A o \in Ops : RowFine(o)') /\ (\A a \in attempts' : Fine(a)')
  BY <1>1 DEF SuccessInv, SucceededIsApplied, AppliedOrFound
<1> HIDE DEF SuccessInv
<1>4. ASSUME NEW o \in Ops, operations'[o] = operations[o] PROVE RowFine(o)'
  BY <1>2, <1>3, <1>4 DEF Status
<1>5. ASSUME NEW a \in attempts PROVE Fine(a)'
  BY <1>2, <1>3 DEF Attempt
<1>6. CASE Quiet
  <2>1. ASSUME NEW o \in Ops PROVE RowFine(o)'
    <3>1. QuietRow(o)
      BY <1>1, <1>6, QuietRows
    <3> QED
      BY <1>2, <1>3, <3>1 DEF QuietRow, Untouched, ClaimedRow, Status
  <2> QED
    BY <1>5, <1>6, <2>1 DEF Quiet
<1>7. ASSUME NEW r \in Replicas, ReceiveClaim(r)
      PROVE  (\A o \in Ops : RowFine(o)') /\ (\A a \in attempts' : Fine(a)')
  <2>1. ClaimCommit(r) /\ attempts' = attempts \cup Launched(r, Returned(r))
    BY <1>7 DEF ReceiveClaim
  <2>2. ASSUME NEW o \in Ops PROVE RowFine(o)'
    <3>1. ClaimedRow(o) \/ Untouched(o)
      BY <1>1, <2>1, ClaimMoves
    <3> QED
      BY <1>4, <3>1 DEF ClaimedRow, Untouched, Status
  <2>3. ASSUME NEW a \in Launched(r, Returned(r)) PROVE Fine(a)'
    <3>1. PICK o \in Returned(r) : a.op = o /\ a.priorStatus = Status(o) /\ a.resolution = "NONE"
      BY DEF Launched
    <3> QED
      BY <1>1, <1>2, <3>1, LaunchedTyped
  <2> QED
    BY <1>5, <2>1, <2>2, <2>3
<1>8. ASSUME NEW a \in attempts, Execute(a)
      PROVE  (\A o \in Ops : RowFine(o)') /\ (\A b \in attempts' : Fine(b)')
  <2>1. PICK resolution \in Resolutions, times \in {0, 1} :
               /\ Resolve(a, resolution, times)
               /\ resolution = "DEFER_READBACK" => TypeOf[a.op] = "CREATE"
               /\ resolution = "SUCCEEDED" => times = 1 \/ AppliedOrFound(a.op)
    BY <1>8, SuccessIsEarned
  <2> DEFINE resolved == [a EXCEPT !.resolution = resolution]
  <2>2. attempts' = (attempts \ {a}) \cup {resolved} /\ UNCHANGED operations
    BY <2>1 DEF Resolve, storeVars
  <2>3. times = 1 => AppliedOrFound(a.op)'
    <3>1. a.op \in Ops /\ applied \in [Ops -> 0..2]
      BY <1>1, <1>2 DEF Attempt, DispatcherInv, TypeOK, Saturated
    <3>2. times = 1 => applied'[a.op] > 0
      BY <2>1, <3>1 DEF Resolve, Smaller, Saturated
    <3> QED
      BY <3>2 DEF AppliedOrFound
  <2>4. Fine(resolved)'
    <3>1. /\ resolved.op = a.op /\ resolved.priorStatus = a.priorStatus
          /\ resolved.resolution = resolution /\ a.op \in Ops
      BY <1>2 DEF Attempt
    <3> HIDE DEF resolved
    <3> QED
      BY <1>2, <1>3, <2>1, <2>3, <3>1
  <2> HIDE DEF resolved
  <2> QED
    BY <1>4, <1>5, <2>2, <2>4
<1>9. ASSUME NEW a \in attempts, Conclude(a)
      PROVE  (\A o \in Ops : RowFine(o)') /\ (\A b \in attempts' : Fine(b)')
  <2>1. attempts' = attempts \ {a}
    BY <1>9 DEF Conclude, Release
  <2>2. /\ a.op \in Ops
        /\ \A o \in Ops \ {a.op} : operations'[o] = operations[o]
        /\ \/ a.resolution = "DEFER_READBACK" /\ DeferForReadback(a.op)
           \/ a.resolution \in {"REQUEUE", "REQUEUE_AFTER_BACKOFF"} /\ Requeue(a.op)
           \/ a.resolution \in Outcomes /\ Finalize(a.op, a.resolution)
    BY <1>1, <1>9, ResolutionWritten DEF DispatcherInv
  <2>3. RowFine(a.op)'
    <3>1. CASE operations'[a.op] = operations[a.op]
      BY <1>4, <2>2, <3>1
    <3>2. CASE a.resolution = "DEFER_READBACK" /\ operations'[a.op].status = "AWAITING_READBACK"
      BY <1>2, <3>2 DEF Status
    <3>3. CASE operations'[a.op].status = "PENDING"
      BY <3>3 DEF Status
    <3>4. CASE a.resolution \in Outcomes /\ operations'[a.op].status = a.resolution
      BY <1>2, <1>3, <2>2, <3>4 DEF Status, Outcomes
    <3> QED
      BY <1>2, <2>2, <3>1, <3>2, <3>3, <3>4 DEF DeferForReadback, Requeue, Finalize, Row
  <2> QED
    BY <1>4, <1>5, <2>1, <2>2, <2>3
<1> QED
  BY <1>6, <1>7, <1>8, <1>9, FourKindsOfSteps

(* A row that reports SUCCEEDED was applied, or its read-back found an     *)
(* object of its name: for late attempts and ambiguous errors too.         *)
THEOREM SuccessIsReal == Spec => []SucceededIsApplied
<1>1. Init => SuccessInv
  BY DispatcherInvInit DEF Init, StoreInit, SuccessInv, SucceededIsApplied, Status
<1>2. SuccessInv /\ [Next]_vars => SuccessInv'
  BY SuccessInvStep
<1>3. SuccessInv => SucceededIsApplied
  BY DEF SuccessInv
<1> QED
  BY <1>1, <1>2, <1>3, PTL DEF Spec

-----------------------------------------------------------------------------
(***************************************************************************)
(* Creates.  Once a create has been applied its row never reads PENDING    *)
(* again: whoever works on it next comes by the read-back, which finds the *)
(* object and so never retries.                                            *)
(***************************************************************************)
Requeues == {"REQUEUE", "REQUEUE_AFTER_BACKOFF"}

CreateInv ==
  /\ OwnerInv
  /\ \A o \in Ops : TypeOf[o] = "CREATE" /\ applied[o] > 0 =>
       /\ applied[o] = 1
       /\ Status(o) \notin {"NONE", "INSERTING", "PENDING"}
       /\ \A a \in attempts : a.op = o =>
            /\ a.priorStatus = "AWAITING_READBACK" \/ a.resolution # "NONE"
            /\ a.resolution \notin Requeues

LEMMA CreateExecutes ==
  ASSUME ~AmbiguousErrors, TypeOK, NEW a \in attempts, TypeOf[a.op] = "CREATE", Execute(a)
  PROVE  \E resolution \in Resolutions \ {"NONE"}, times \in {0, 1} :
           /\ Resolve(a, resolution, times)
           /\ times = 1 => a.priorStatus # "AWAITING_READBACK" /\ resolution \notin Requeues
           /\ a.priorStatus = "AWAITING_READBACK" /\ applied[a.op] > 0 => resolution \notin Requeues
<1>1. BackoffOrGiveUp(a) \in {"INDETERMINATE", "REQUEUE_AFTER_BACKOFF"} /\ MayHaveApplied = {0}
  BY DEF BackoffOrGiveUp, MayHaveApplied
<1>2. a.op \in Ops
  BY DEF TypeOK, Attempt
<1>3. applied[a.op] > 0 => NameTaken(a.op)
  BY <1>2 DEF NameTaken, SameLane
<1>4. CASE AcquireFails(a)
  BY <1>4 DEF AcquireFails, Resolutions, Outcomes, Requeues
<1>5. CASE AttemptCreate(a)
  BY <1>1, <1>5 DEF AttemptCreate, Resolutions, Outcomes, Requeues
<1>6. CASE ResumeReadBack(a)
  BY <1>3, <1>6 DEF ResumeReadBack, Resolutions, Outcomes, Requeues
<1> QED
  BY <1>4, <1>5, <1>6 DEF Execute, AttemptUpdate, AttemptDelete, AttemptDelta

LEMMA CreateInvStep ==
  ASSUME ~SlowAttempts, ~AmbiguousErrors, CreateInv, [Next]_vars
  PROVE  CreateInv'
<1> DEFINE Settled(a) == /\ a.priorStatus = "AWAITING_READBACK" \/ a.resolution # "NONE"
                         /\ a.resolution \notin Requeues
<1>1. OwnerInv /\ OwnerInv' /\ DispatcherInv /\ TypeOK
  BY OwnerInvStep DEF CreateInv, OwnerInv, DispatcherInv
<1>2. /\ operations \in [Ops -> Row] /\ applied \in [Ops -> 0..2]
      /\ \A a \in attempts : a \in Attempt /\ a.op \in Ops /\ Status(a.op) = "RUNNING"
      /\ \A a, b \in attempts : a.op = b.op => a = b
  BY <1>1 DEF TypeOK, StoreTypeOK, Saturated, Attempt, OwnerInv, SoleOwner
<1> SUFFICES ASSUME NEW o \in Ops, TypeOf[o] = "CREATE", applied'[o] > 0
             PROVE  /\ applied'[o] = 1
                    /\ Status(o)' \notin {"NONE", "INSERTING", "PENDING"}
                    /\ \A a \in attempts' : a.op = o => Settled(a)
  BY <1>1 DEF CreateInv
<1>3. ASSUME applied[o] > 0
      PROVE  /\ applied[o] = 1 /\ Status(o) \notin {"NONE", "INSERTING", "PENDING"}
             /\ \A a \in attempts : a.op = o => Settled(a)
  BY <1>3 DEF CreateInv
<1>4. CASE Quiet
  <2>1. applied[o] > 0 /\ applied' = applied /\ attempts' \subseteq attempts
    BY <1>4 DEF Quiet
  <2>2. QuietRow(o)
    BY <1>1, <1>4, QuietRows
  <2>3. Status(o)' \notin {"NONE", "INSERTING", "PENDING"}
    BY <1>3, <2>1, <2>2 DEF QuietRow, Untouched, ClaimedRow, Status
  <2> QED
    BY <1>3, <2>1, <2>3
<1>5. ASSUME NEW r \in Replicas, ReceiveClaim(r)
      PROVE  /\ applied'[o] = 1
             /\ Status(o)' \notin {"NONE", "INSERTING", "PENDING"}
             /\ \A a \in attempts' : a.op = o => Settled(a)
  <2>1. ClaimCommit(r) /\ attempts' = attempts \cup Launched(r, Returned(r)) /\ applied' = applied
    BY <1>5 DEF ReceiveClaim
  <2>2. ClaimedRow(o) \/ Untouched(o)
    BY <1>1, <2>1, ClaimMoves
  <2>3. Status(o)' \notin {"NONE", "INSERTING", "PENDING"}
    BY <1>3, <2>1, <2>2 DEF Untouched, ClaimedRow, Status
  <2>4. ASSUME NEW a \in Launched(r, Returned(r)), a.op = o PROVE Settled(a)
    <3>1. a.op \in Returned(r) /\ a.priorStatus = Status(a.op) /\ a.resolution = "NONE"
      BY DEF Launched
    <3>2. Status(o) \in {"PENDING", "AWAITING_READBACK"}
      BY <1>1, <2>4, <3>1, LaunchedTyped
    <3> QED
      BY <1>3, <2>1, <2>4, <3>1, <3>2 DEF Requeues
  <2> QED
    BY <1>3, <2>1, <2>3, <2>4
<1>6. ASSUME NEW a \in attempts, Execute(a)
      PROVE  /\ applied'[o] = 1
             /\ Status(o)' \notin {"NONE", "INSERTING", "PENDING"}
             /\ \A b \in attempts' : b.op = o => Settled(b)
  <2>1. CASE a.op # o
    <3>1. PICK resolution \in Resolutions, times \in {0, 1} : Resolve(a, resolution, times)
      BY <1>6, ExecuteResolves
    <3>2. applied'[o] = applied[o] /\ UNCHANGED operations
      BY <1>2, <2>1, <3>1 DEF Resolve, storeVars
    <3>3. attempts' = (attempts \ {a}) \cup {[a EXCEPT !.resolution = resolution]}
      BY <3>1 DEF Resolve
    <3>4. [a EXCEPT !.resolution = resolution].op # o
      BY <1>2, <2>1 DEF Attempt
    <3> QED
      BY <1>3, <3>2, <3>3, <3>4 DEF Status
  <2>2. CASE a.op = o
    <3>1. PICK resolution \in Resolutions \ {"NONE"}, times \in {0, 1} :
            /\ Resolve(a, resolution, times)
            /\ times = 1 => a.priorStatus # "AWAITING_READBACK" /\ resolution \notin Requeues
            /\ a.priorStatus = "AWAITING_READBACK" /\ applied[o] > 0 => resolution \notin Requeues
      BY <1>1, <1>6, <2>2, CreateExecutes
    <3> DEFINE resolved == [a EXCEPT !.resolution = resolution]
    <3>2. /\ a.resolution = "NONE"
          /\ attempts' = (attempts \ {a}) \cup {resolved}
          /\ applied' = [applied EXCEPT ![o] = Smaller(@ + times, 2)]
          /\ UNCHANGED operations
      BY <2>2, <3>1 DEF Resolve, storeVars, Saturated
    <3>3. applied'[o] = Smaller(applied[o] + times, 2)
      BY <1>2, <3>2
    <3>4. applied[o] > 0 => a.priorStatus = "AWAITING_READBACK"
      BY <1>3, <2>2, <3>2
    <3>5. applied'[o] = 1
      BY <1>2, <1>3, <3>1, <3>3, <3>4 DEF Smaller
    <3>6. times = 1 \/ applied[o] > 0
      BY <1>2, <3>1, <3>3 DEF Smaller
    <3>7. resolution \notin Requeues
      BY <3>1, <3>4, <3>6
    <3>8. resolved.op = o /\ resolved.resolution = resolution
      BY <1>2, <2>2 DEF Attempt
    <3> HIDE DEF resolved
    <3>9. \A b \in attempts' : b.op = o => b = resolved
      BY <1>2, <2>2, <3>2
    <3> QED
      BY <1>2, <2>2, <3>1, <3>2, <3>5, <3>7, <3>8, <3>9 DEF Status
  <2> QED
    BY <2>1, <2>2
<1>7. ASSUME NEW a \in attempts, Conclude(a)
      PROVE  /\ applied'[o] = 1
             /\ Status(o)' \notin {"NONE", "INSERTING", "PENDING"}
             /\ \A b \in attempts' : b.op = o => Settled(b)
  <2>1. attempts' = attempts \ {a} /\ applied' = applied
    BY <1>7 DEF Conclude, Release
  <2>2. /\ \A p \in Ops \ {a.op} : operations'[p] = operations[p]
        /\ \/ a.resolution = "DEFER_READBACK" /\ DeferForReadback(a.op)
           \/ a.resolution \in {"REQUEUE", "REQUEUE_AFTER_BACKOFF"} /\ Requeue(a.op)
           \/ a.resolution \in Outcomes /\ Finalize(a.op, a.resolution)
    BY <1>1, <1>7, ResolutionWritten
  <2>3. Status(o)' \notin {"NONE", "INSERTING", "PENDING"}
    <3>1. CASE a.op # o
      BY <1>3, <2>1, <2>2, <3>1 DEF Status
    <3>2. CASE a.op = o
      <4>1. DeferForReadback(o) \/ \E outcome \in Outcomes : Finalize(o, outcome)
        BY <1>3, <2>1, <2>2, <3>2 DEF Requeues
      <4>2. ASSUME DeferForReadback(o)
            PROVE  operations'[o].status \in {operations[o].status, "AWAITING_READBACK"}
        BY <1>2, <4>2 DEF DeferForReadback, Row
      <4>3. ASSUME NEW outcome \in Outcomes, Finalize(o, outcome)
            PROVE  operations'[o].status \in {operations[o].status} \cup Outcomes
        BY <1>2, <4>3 DEF Finalize, Row
      <4> QED
        BY <1>3, <2>1, <4>1, <4>2, <4>3 DEF Status, Outcomes
    <3> QED
      BY <3>1, <3>2
  <2> QED
    BY <1>3, <2>1, <2>3
<1> QED
  BY <1>4, <1>5, <1>6, <1>7, FourKindsOfSteps

(* "blind retry is exactly how duplicate accounts happen": whatever        *)
(* crashes, whatever write is lost, and however often a create is reaped   *)
(* and searched for, its target gets it once at most.                      *)
THEOREM CreatesOnce == ASSUME ~SlowAttempts, ~AmbiguousErrors PROVE Spec => []CreatedOnce
<1>1. Init => CreateInv
  <2> SUFFICES ASSUME Init PROVE CreateInv
    OBVIOUS
  <2>1. OwnerInv
    BY DispatcherInvInit DEF Init, OwnerInv, SoleOwner
  <2> QED
    BY <2>1 DEF Init, CreateInv
<1>2. CreateInv /\ [Next]_vars => CreateInv'
  BY CreateInvStep
<1>3. CreateInv => CreatedOnce
  <2> SUFFICES ASSUME CreateInv, NEW o \in Ops, TypeOf[o] = "CREATE" PROVE applied[o] <= 1
    BY DEF CreatedOnce
  <2>1. applied[o] \in 0..2
    BY DEF CreateInv, OwnerInv, DispatcherInv, TypeOK, Saturated
  <2> QED
    BY <2>1 DEF CreateInv
<1> QED
  BY <1>1, <1>2, <1>3, PTL DEF Spec

-----------------------------------------------------------------------------
(***************************************************************************)
(* Deltas.  As long as nothing crashes, stops or fails, a RUNNING row has  *)
(* its attempt, so the reaper finds nothing to send round again, and the   *)
(* attempt of a delta its target may count twice never asks for a requeue. *)
(***************************************************************************)
CountedDelta(o) == TypeOf[o] \in {"ADD_VALUES", "REMOVE_VALUES"} /\ InstanceOf[o] \notin IdempotentDelta

DeltaDone(o) ==
  /\ applied[o] = 1
  /\ Status(o) \notin {"NONE", "INSERTING", "PENDING", "AWAITING_READBACK"}
  /\ \A a \in attempts : a.op = o => a.resolution \notin Requeues \cup {"NONE"}

NothingLost ==
  /\ \A r \in Replicas : mode[r] # "stopping"
  /\ \A o \in Ops : Status(o) = "RUNNING" => Executing(o)
  /\ \A o \in Ops : CountedDelta(o) /\ applied[o] > 0 => DeltaDone(o)

DeltaInv == OwnerInv /\ SuccessInv /\ (faults = 0 => NothingLost)

Calm ==
  /\ UNCHANGED attempts
  /\ \A o \in Ops : Status(o)' = "RUNNING" => Status(o) = "RUNNING"

LEMMA FaultlessSteps ==
  ASSUME [Next]_vars, TypeOK, faults' = 0, faults = 0 => NothingLost
  PROVE  /\ faults = 0
         /\ \A r \in Replicas : mode'[r] # "stopping"
         /\ \/ Calm
            \/ \E r \in Replicas : ReceiveClaim(r)
            \/ \E a \in attempts : Execute(a)
            \/ \E a \in attempts : Conclude(a)
<1> DEFINE ModeCalm == faults' = faults /\ \A r \in Replicas : mode'[r] \in {mode[r], "up"}
           Gentle == ModeCalm /\ Calm
<1>1. /\ faults \in Nat /\ operations \in [Ops -> Row]
      /\ mode \in [Replicas -> {"up", "stopping", "down"}]
  BY BudgetsTyped DEF TypeOK, StoreTypeOK
<1>2. ASSUME NEW r \in Replicas, LoseClaim(r) \/ Crash(r) \/ Stop(r) PROVE FALSE
  BY <1>1, <1>2 DEF LoseClaim, Crash, Stop
<1>3. ASSUME NEW a \in attempts, LoseResolution(a) PROVE FALSE
  BY <1>1, <1>3 DEF LoseResolution
<1>4. ASSUME NEW r \in Replicas, Exit(r) PROVE FALSE
  BY <1>1, <1>4 DEF Exit, NothingLost
<1>5. ASSUME NEW r \in Replicas,
             \/ \E i \in Instances : Ensure(r, i)
             \/ \E outOfTokens \in SUBSET RateLimited : ComputeAvailability(r, outOfTokens)
             \/ \E lane \in Lanes : BackoffElapses(r, lane)
             \/ Restart(r)
      PROVE  Gentle
  BY <1>1, <1>5 DEF Ensure, ComputeAvailability, BackoffElapses, Restart, storeVars, Status, Calm
<1>6. ASSUME NEW r \in Replicas, SendClaim(r) PROVE Gentle
  BY <1>6 DEF SendClaim, ClaimSnapshot, Status, Calm
<1>7. ASSUME NEW r \in Replicas, NEW reaping \in BOOLEAN, BeginCycle(r, reaping) PROVE Gentle
  <2>1. ASSUME NEW o \in Ops, Status(o)' = "RUNNING" PROVE Status(o) = "RUNNING"
    <3>1. CASE UNCHANGED operations
      BY <2>1, <3>1 DEF Status
    <3>2. CASE ReapStale
      <4>1. operations'[o].status \in {operations[o].status, "PENDING", "AWAITING_READBACK"}
        BY <1>1, <3>2 DEF ReapStale, Row
      <4> QED
        BY <2>1, <4>1 DEF Status
    <3> QED
      BY <1>7, <3>1, <3>2 DEF BeginCycle, storeVars
  <2> QED
    BY <1>7, <2>1 DEF BeginCycle, Calm
<1>8. ASSUME NEW r \in Replicas, ReceiveClaim(r) PROVE ModeCalm
  BY <1>8 DEF ReceiveClaim
<1>9. ASSUME NEW p \in Ops, (\E r \in Replicas : Submit(r, p)) \/ Accept(p) \/ Elapse(p) PROVE Gentle
  <2>1. ASSUME NEW o \in Ops, Status(o)' = "RUNNING" PROVE Status(o) = "RUNNING"
    BY <1>1, <1>9, <2>1
       DEF Submit, Accept, Elapse, EnqueueBegin, EnqueueCommit, TimePasses, Status, Row
  <2> QED
    BY <1>9, <2>1 DEF Submit, Accept, Elapse, dispatcherVars, Calm
<1>10. ASSUME NEW p \in Partitions, MaintainPartition(p) PROVE Gentle
  <2>1. ASSUME NEW o \in Ops, Status(o)' = "RUNNING" PROVE Status(o) = "RUNNING"
    <3> DEFINE rows == {q \in Ops : PartitionOf[q] = p /\ Status(q) # "NONE"}
    <3>1. operations' = [q \in Ops |-> IF q \in rows THEN [operations[q] EXCEPT !.status = "DROPPED"]
                                       ELSE operations[q]]
      BY <1>10 DEF MaintainPartition, DropPartition
    <3> HIDE DEF rows
    <3> QED
      BY <1>1, <2>1, <3>1 DEF Status, Row
  <2> QED
    BY <1>10, <2>1 DEF MaintainPartition, dispatcherVars, Calm
<1>11. ASSUME NEW a \in attempts, Execute(a) \/ Conclude(a) PROVE ModeCalm
  BY <1>11, ExecuteResolves DEF Resolve, Conclude
<1>12. ASSUME UNCHANGED vars PROVE Gentle
  BY <1>12 DEF vars, dispatcherVars, storeVars, Status, Calm
<1>13. /\ ModeCalm
       /\ \/ Calm
          \/ \E r \in Replicas : ReceiveClaim(r)
          \/ \E a \in attempts : Execute(a)
          \/ \E a \in attempts : Conclude(a)
  <2> HIDE DEF ModeCalm
  <2> QED
    BY <1>2, <1>3, <1>4, <1>5, <1>6, <1>7, <1>8, <1>9, <1>10, <1>11, <1>12 DEF Next
<1>14. faults = 0
  BY <1>13
<1>15. \A r \in Replicas : mode'[r] # "stopping"
  BY <1>13, <1>14 DEF NothingLost
<1> QED
  BY <1>13, <1>14, <1>15

LEMMA DeltaExecutes ==
  ASSUME TypeOK, NEW a \in attempts, CountedDelta(a.op), Execute(a)
  PROVE  \E resolution \in Resolutions \ {"NONE"}, times \in {0, 1} :
           Resolve(a, resolution, times) /\ (times = 1 => resolution \notin Requeues)
<1> USE DEF Requeues, Resolutions, Outcomes
<1>1. CASE AcquireFails(a)
  BY <1>1 DEF AcquireFails
<1>2. CASE ResumeReadBack(a)
  BY <1>2 DEF ResumeReadBack
<1>3. CASE AttemptDelta(a)
  BY <1>3 DEF AttemptDelta, AttemptOther, CountedDelta
<1> QED
  BY <1>1, <1>2, <1>3 DEF Execute, AttemptCreate, AttemptUpdate, AttemptDelete, CountedDelta

LEMMA DeltaInvStep ==
  ASSUME ~SlowAttempts, DeltaInv, [Next]_vars
  PROVE  DeltaInv'
<1>1. OwnerInv' /\ SuccessInv'
  BY OwnerInvStep, SuccessInvStep DEF DeltaInv
<1>2. OwnerInv /\ SuccessInv /\ DispatcherInv /\ TypeOK
  BY DEF DeltaInv, OwnerInv, DispatcherInv
<1> SUFFICES ASSUME faults' = 0 PROVE NothingLost'
  BY <1>1 DEF DeltaInv
<1>3. faults = 0 /\ NothingLost /\ \A r \in Replicas : mode'[r] # "stopping"
  BY <1>2, FaultlessSteps DEF DeltaInv
<1>4. /\ operations \in [Ops -> Row] /\ applied \in [Ops -> 0..2]
      /\ \A a \in attempts : a \in Attempt /\ a.op \in Ops /\ Status(a.op) = "RUNNING" /\ ~operations[a.op].elapsed
      /\ \A a, b \in attempts : a.op = b.op => a = b
  BY <1>2 DEF TypeOK, StoreTypeOK, Saturated, Attempt, OwnerInv, SoleOwner
<1> DEFINE Worked == \A o \in Ops : Status(o) = "RUNNING" => Executing(o)
           Done == \A o \in Ops : CountedDelta(o) /\ applied[o] > 0 => DeltaDone(o)
<1> SUFFICES Worked' /\ Done'
  BY <1>3 DEF NothingLost
<1>5. Worked /\ Done
  BY <1>3 DEF NothingLost
<1>6. ASSUME Quiet, Calm PROVE Worked' /\ Done'
  <2>1. attempts' = attempts /\ applied' = applied
    BY <1>6 DEF Quiet, Calm
  <2>2. Worked'
    BY <1>5, <1>6, <2>1 DEF Calm, Executing
  <2>3. ASSUME NEW o \in Ops, DeltaDone(o) PROVE DeltaDone(o)'
    <3>1. QuietRow(o)
      BY <1>2, <1>6, QuietRows
    <3>2. ~Stale(o)
      BY <1>4, <1>5 DEF Stale, Executing
    <3>3. Status(o)' \notin {"NONE", "INSERTING", "PENDING", "AWAITING_READBACK"}
      BY <2>3, <3>1, <3>2 DEF QuietRow, Untouched, ClaimedRow, Status, DeltaDone
    <3> QED
      BY <2>1, <2>3, <3>3 DEF DeltaDone
  <2> QED
    BY <1>5, <2>1, <2>2, <2>3
<1>7. ASSUME NEW r \in Replicas, ReceiveClaim(r) PROVE Worked' /\ Done'
  <2>1. ClaimCommit(r) /\ attempts' = attempts \cup Launched(r, Returned(r)) /\ applied' = applied
    BY <1>7 DEF ReceiveClaim
  <2>2. \A o \in Ops : IF o \in Returned(r) THEN ClaimedRow(o) ELSE Untouched(o)
    BY <1>2, <2>1, ClaimMoves
  <2>3. \A a \in Launched(r, Returned(r)) : a.op \in Returned(r)
    BY DEF Launched
  <2>4. ASSUME NEW o \in Ops, Status(o)' = "RUNNING" PROVE Executing(o)'
    <3>1. CASE o \in Returned(r)
      <4>1. \E a \in Launched(r, Returned(r)) : a.op = o
        <5> DEFINE a == [replica |-> r, op |-> o, serial |-> FreshSerial(r, o), priorStatus |-> Status(o),
                         attemptCount |-> operations[o].attemptCount, resolution |-> "NONE"]
        <5>1. a \in Launched(r, Returned(r))
          BY <3>1 DEF Launched
        <5>2. a.op = o
          OBVIOUS
        <5> HIDE DEF a
        <5> QED
          BY <5>1, <5>2
      <4> QED
        BY <2>1, <4>1 DEF Executing
    <3>2. CASE o \notin Returned(r)
      BY <1>5, <2>1, <2>2, <2>4, <3>2 DEF Untouched, Status, Executing
    <3> QED
      BY <3>1, <3>2
  <2>5. ASSUME NEW o \in Ops, DeltaDone(o) PROVE DeltaDone(o)'
    <3>1. o \notin Returned(r) /\ Untouched(o)
      BY <2>2, <2>5 DEF ClaimedRow, DeltaDone
    <3> QED
      BY <2>1, <2>3, <2>5, <3>1 DEF DeltaDone, Untouched, Status
  <2> QED
    BY <1>5, <2>1, <2>4, <2>5
<1>8. ASSUME NEW a \in attempts, Execute(a) PROVE Worked' /\ Done'
  <2>1. PICK resolution \in Resolutions \ {"NONE"}, times \in {0, 1} :
          Resolve(a, resolution, times) /\ (CountedDelta(a.op) /\ times = 1 => resolution \notin Requeues)
    BY <1>2, <1>8, ExecuteResolves, DeltaExecutes
  <2> DEFINE resolved == [a EXCEPT !.resolution = resolution]
  <2>2. /\ a.resolution = "NONE"
        /\ attempts' = (attempts \ {a}) \cup {resolved}
        /\ applied' = [applied EXCEPT ![a.op] = Smaller(@ + times, 2)]
        /\ UNCHANGED operations
    BY <2>1 DEF Resolve, storeVars, Saturated
  <2>3. resolved.op = a.op /\ resolved.resolution = resolution
    BY <1>4 DEF Attempt
  <2> HIDE DEF resolved
  <2>4. Worked'
    BY <1>5, <2>2, <2>3 DEF Executing, Status
  <2>5. ASSUME NEW o \in Ops, CountedDelta(o), applied'[o] > 0 PROVE DeltaDone(o)'
    <3>1. CASE o # a.op
      <4>1. applied'[o] = applied[o]
        BY <1>4, <2>2, <3>1
      <4> QED
        BY <1>5, <2>2, <2>3, <2>5, <3>1, <4>1 DEF DeltaDone, Status
    <3>2. CASE o = a.op
      <4>1. ~(applied[o] > 0)
        BY <1>5, <2>2, <2>5, <3>2 DEF DeltaDone
      <4>2. applied'[o] = Smaller(applied[o] + times, 2)
        BY <1>4, <2>2, <3>2
      <4>3. applied'[o] = 1 /\ times = 1
        BY <1>4, <2>1, <2>5, <4>1, <4>2 DEF Smaller
      <4>4. \A b \in attempts' : b.op = o => b = resolved
        BY <1>4, <2>2, <3>2
      <4>5. resolution \notin Requeues \cup {"NONE"}
        BY <2>1, <2>5, <3>2, <4>3
      <4> QED
        BY <1>4, <2>2, <2>3, <3>2, <4>3, <4>4, <4>5 DEF DeltaDone, Status
    <3> QED
      BY <3>1, <3>2
  <2> QED
    BY <2>4, <2>5
<1>9. ASSUME NEW a \in attempts, Conclude(a) PROVE Worked' /\ Done'
  <2>1. attempts' = attempts \ {a} /\ applied' = applied
    BY <1>9 DEF Conclude, Release
  <2>2. /\ a.op \in Ops
        /\ \A o \in Ops \ {a.op} : operations'[o] = operations[o]
        /\ \/ a.resolution = "DEFER_READBACK" /\ DeferForReadback(a.op)
           \/ a.resolution \in {"REQUEUE", "REQUEUE_AFTER_BACKOFF"} /\ Requeue(a.op)
           \/ a.resolution \in Outcomes /\ Finalize(a.op, a.resolution)
    BY <1>2, <1>9, ResolutionWritten
  <2>3. operations'[a.op].status = CASE a.resolution = "DEFER_READBACK" -> "AWAITING_READBACK"
                                     [] a.resolution \in Requeues -> "PENDING"
                                     [] a.resolution \in Outcomes -> a.resolution
    BY <1>4, <2>2 DEF DeferForReadback, Requeue, Finalize, Row, Status, Requeues, Outcomes, Pending
  <2>4. Status(a.op)' # "RUNNING"
    BY <2>2, <2>3 DEF Status, Requeues, Outcomes
  <2>5. ASSUME NEW o \in Ops, Status(o)' = "RUNNING" PROVE Executing(o)'
    <3>1. o # a.op /\ Status(o) = "RUNNING"
      BY <2>2, <2>4, <2>5 DEF Status
    <3> QED
      BY <1>5, <2>1, <3>1 DEF Executing
  <2>6. ASSUME NEW o \in Ops, CountedDelta(o), DeltaDone(o) PROVE DeltaDone(o)'
    <3>1. CASE o # a.op
      BY <2>1, <2>2, <2>6, <3>1 DEF DeltaDone, Status
    <3>2. CASE o = a.op
      <4>1. a.resolution \notin Requeues \cup {"NONE", "DEFER_READBACK"}
        BY <1>2, <2>6, <3>2 DEF DeltaDone, SuccessInv, CountedDelta
      <4>2. Status(o)' \in Outcomes
        BY <2>2, <2>3, <3>2, <4>1 DEF Status, Requeues
      <4> QED
        BY <2>1, <2>6, <4>2 DEF DeltaDone, Outcomes
    <3> QED
      BY <3>1, <3>2
  <2> QED
    BY <1>5, <2>1, <2>5, <2>6
<1> QED
  BY <1>2, <1>3, <1>6, <1>7, <1>8, <1>9, FourKindsOfSteps, FaultlessSteps

(* Dispatcher.ts:761: a delta that its target may count twice is applied   *)
(* once at most while no process dies and no store call fails.             *)
THEOREM DeltasOnceUnlessLost == ASSUME ~SlowAttempts PROVE Spec => []DeltaAppliedOnceUnlessLost
<1>1. Init => DeltaInv
  <2> SUFFICES ASSUME Init PROVE DeltaInv
    OBVIOUS
  <2>1. OwnerInv /\ SuccessInv
    BY DispatcherInvInit DEF Init, StoreInit, OwnerInv, SoleOwner, SuccessInv, SucceededIsApplied, Status
  <2>2. NothingLost
    BY DEF Init, StoreInit, NothingLost, Status
  <2> QED
    BY <2>1, <2>2 DEF DeltaInv
<1>2. DeltaInv /\ [Next]_vars => DeltaInv'
  BY DeltaInvStep
<1>3. DeltaInv => DeltaAppliedOnceUnlessLost
  <2> SUFFICES ASSUME DeltaInv, faults = 0, NEW o \in Ops, CountedDelta(o) PROVE applied[o] <= 1
    BY DEF DeltaAppliedOnceUnlessLost, DeltaAppliedOnce, CountedDelta
  <2>1. applied[o] \in 0..2
    BY DEF DeltaInv, OwnerInv, DispatcherInv, TypeOK, Saturated
  <2> QED
    BY <2>1 DEF DeltaInv, NothingLost, DeltaDone
<1> QED
  BY <1>1, <1>2, <1>3, PTL DEF Spec

-----------------------------------------------------------------------------
(***************************************************************************)
(* Backoff.  excludedLanes is read when the claim is sent, and the lane of *)
(* an attempt can be deferred until the claim commits.  It is not a lane   *)
(* the claim has chosen from: the lane of an attempt is in activeLanes as  *)
(* long as the attempt lives.  That needs lanes that no two instances      *)
(* share, for activeLanes holds a lane once, whoever is on it.             *)
(***************************************************************************)
LanesApart == \A o, p \in Ops : LaneOf[o] = LaneOf[p] => InstanceOf[o] = InstanceOf[p]

LanesKnown(r) ==
  /\ \A a \in attempts : a.replica = r => LaneOf[a.op] \in activeLanes[r]
  /\ \A a, b \in attempts : a.replica = r /\ b.replica = r /\ LaneOf[a.op] = LaneOf[b.op] => a = b
  /\ \A o \in picked[r] : LaneOf[o] \notin activeLanes[r] \cup laneDeferred[r]
  /\ \A o, p \in picked[r] : LaneOf[o] = LaneOf[p] => o = p

BackoffInv == DispatcherInv /\ \A r \in Replicas : LanesKnown(r)

(* A step that only lets go of attempts, deferred lanes or choices.        *)
LEMMA NothingNewKnown ==
  ASSUME NEW r \in Replicas, LanesKnown(r), attempts' \subseteq attempts,
         activeLanes'[r] = activeLanes[r], laneDeferred'[r] \subseteq laneDeferred[r],
         picked'[r] \subseteq picked[r]
  PROVE  LanesKnown(r)'
BY DEF LanesKnown

LEMMA SendClaimKnown ==
  ASSUME LanesApart, BackoffInv, NEW r \in Replicas, SendClaim(r), NEW q \in Replicas
  PROVE  LanesKnown(q)'
<1> DEFINE excluded == activeLanes[r] \cup laneDeferred[r]
           chosen == Picked(MaxLimit, excluded, available[r])
<1>1. /\ picked' = [picked EXCEPT ![r] = chosen]
      /\ UNCHANGED <<attempts, activeLanes, laneDeferred>>
  BY DEF SendClaim, ClaimSnapshot, memory
<1>2. picked \in [Replicas -> SUBSET Ops] /\ LanesKnown(q) /\ LanesKnown(r) /\ StoreTypeOK
  BY DEF BackoffInv, DispatcherInv, TypeOK, StoreTypeOK, Replicas
<1>3. CASE q # r
  BY <1>1, <1>2, <1>3, NothingNewKnown
<1>4. CASE q = r
  <2>1. chosen \subseteq Ops /\ \A o \in chosen : LaneOf[o] \notin excluded
    BY DEF Picked, WithinCaps, LaneLeaders
  <2>2. \A o, p \in chosen : LaneOf[o] = LaneOf[p] => o = p
    <3> SUFFICES ASSUME NEW o \in chosen, NEW p \in chosen, LaneOf[o] = LaneOf[p] PROVE o = p
      OBVIOUS
    <3>1. SameLane(o, p)
      BY <2>1 DEF SameLane, LanesApart
    <3> QED
      BY <1>2, <3>1, OneRowOfALane
  <2> HIDE DEF chosen
  <2>3. picked'[r] = chosen
    BY <1>1, <1>2
  <2> QED
    BY <1>1, <1>2, <1>4, <2>1, <2>2, <2>3 DEF LanesKnown
<1> QED
  BY <1>3, <1>4

LEMMA ReceiveClaimKnown ==
  ASSUME BackoffInv, NEW r \in Replicas, ReceiveClaim(r), NEW q \in Replicas
  PROVE  LanesKnown(q)'
<1> DEFINE claimed == Returned(r)
           new == Launched(r, claimed)
<1>1. /\ picked' = [picked EXCEPT ![r] = {}]
      /\ attempts' = attempts \cup new
      /\ activeLanes' = [activeLanes EXCEPT ![r] = @ \cup {LaneOf[o] : o \in claimed}]
      /\ UNCHANGED laneDeferred
  BY DEF ReceiveClaim, ClaimCommit
<1>2. /\ picked \in [Replicas -> SUBSET Ops] /\ activeLanes \in [Replicas -> SUBSET Lanes]
      /\ LanesKnown(q) /\ LanesKnown(r)
  BY DEF BackoffInv, DispatcherInv, TypeOK, StoreTypeOK, Replicas
<1>3. claimed \subseteq picked[r]
  BY DEF Returned
<1>4. (\A a \in new : a.replica = r /\ a.op \in claimed) /\ (\A a, b \in new : a.op = b.op => a = b)
  BY DEF Launched
<1> HIDE DEF claimed, new
<1>5. CASE q # r
  <2>1. activeLanes'[q] = activeLanes[q] /\ picked'[q] = picked[q] /\ laneDeferred'[q] = laneDeferred[q]
    BY <1>1, <1>2, <1>5
  <2>2. \A a \in attempts' : a.replica = q => a \in attempts
    BY <1>1, <1>4, <1>5
  <2> QED
    BY <1>2, <2>1, <2>2 DEF LanesKnown
<1>6. CASE q = r
  <2>1. activeLanes'[r] = activeLanes[r] \cup {LaneOf[o] : o \in claimed} /\ picked'[r] = {}
    BY <1>1, <1>2
  <2>2. \A a \in attempts' : a.replica = r => LaneOf[a.op] \in activeLanes'[r]
    BY <1>1, <1>2, <1>4, <2>1 DEF LanesKnown
  <2>3. \A a \in attempts, b \in new : a.replica = r => LaneOf[a.op] # LaneOf[b.op]
    BY <1>2, <1>3, <1>4 DEF LanesKnown
  <2>4. \A a, b \in new : LaneOf[a.op] = LaneOf[b.op] => a = b
    BY <1>2, <1>3, <1>4 DEF LanesKnown
  <2>5. \A a, b \in attempts' : a.replica = r /\ b.replica = r /\ LaneOf[a.op] = LaneOf[b.op] => a = b
    BY <1>1, <1>2, <1>4, <2>3, <2>4 DEF LanesKnown
  <2> QED
    BY <1>6, <2>1, <2>2, <2>5 DEF LanesKnown
<1> QED
  BY <1>5, <1>6

(* The attempt that ends takes its lane off activeLanes, and no other's.   *)
LEMMA ReleaseKnown ==
  ASSUME BackoffInv, NEW a \in attempts, DeferLane(a), Release(a), UNCHANGED picked, NEW q \in Replicas
  PROVE  LanesKnown(q)'
<1> DEFINE r == a.replica
           lane == LaneOf[a.op]
<1>1. r \in Replicas /\ LanesKnown(q) /\ LanesKnown(r)
      /\ activeLanes \in [Replicas -> SUBSET Lanes] /\ laneDeferred \in [Replicas -> SUBSET Lanes]
  BY DEF BackoffInv, DispatcherInv, TypeOK, Attempt
<1>2. attempts' = attempts \ {a} /\ activeLanes' = [activeLanes EXCEPT ![r] = @ \ {lane}]
  BY DEF Release
<1>3. laneDeferred' = laneDeferred \/ laneDeferred' = [laneDeferred EXCEPT ![r] = @ \cup {lane}]
  BY DEF DeferLane
<1>4. CASE q # r
  <2>1. activeLanes'[q] = activeLanes[q] /\ laneDeferred'[q] = laneDeferred[q]
    BY <1>1, <1>2, <1>3, <1>4
  <2> QED
    BY <1>1, <1>2, <2>1, NothingNewKnown
<1>5. CASE q = r
  <2>1. activeLanes'[r] = activeLanes[r] \ {lane} /\ laneDeferred'[r] \subseteq laneDeferred[r] \cup {lane}
    BY <1>1, <1>2, <1>3
  <2>2. lane \in activeLanes[r]
    BY <1>1 DEF LanesKnown
  <2>3. \A b \in attempts' : b.replica = r => LaneOf[b.op] \in activeLanes[r] /\ LaneOf[b.op] # lane
    BY <1>1, <1>2 DEF LanesKnown
  <2>4. \A o \in picked[r] : LaneOf[o] \notin activeLanes'[r] \cup laneDeferred'[r]
    BY <1>1, <2>1, <2>2 DEF LanesKnown
  <2> QED
    BY <1>1, <1>2, <1>5, <2>1, <2>3, <2>4 DEF LanesKnown
<1> QED
  BY <1>4, <1>5

LEMMA BackoffInvStep ==
  ASSUME LanesApart, BackoffInv, [Next]_vars
  PROVE  BackoffInv'
<1>1. DispatcherInv'
  BY DispatcherInvStep DEF BackoffInv
<1> SUFFICES ASSUME NEW q \in Replicas PROVE LanesKnown(q)'
  BY <1>1 DEF BackoffInv
<1>2. /\ LanesKnown(q)
      /\ picked \in [Replicas -> SUBSET Ops]
      /\ activeLanes \in [Replicas -> SUBSET Lanes]
      /\ laneDeferred \in [Replicas -> SUBSET Lanes]
      /\ \A a \in attempts : a \in Attempt
  BY DEF BackoffInv, DispatcherInv, TypeOK, StoreTypeOK, Replicas
<1>3. ASSUME UNCHANGED <<picked, attempts, activeLanes, laneDeferred>> PROVE LanesKnown(q)'
  BY <1>2, <1>3, NothingNewKnown
<1>4. ASSUME NEW r \in Replicas, LoseClaim(r) PROVE LanesKnown(q)'
  <2>1. picked' = [picked EXCEPT ![r] = {}] /\ UNCHANGED <<attempts, activeLanes, laneDeferred>>
    BY <1>4 DEF LoseClaim, ClaimCommit, ClaimAbort, memory
  <2> QED
    BY <1>2, <2>1, NothingNewKnown
<1>5. ASSUME NEW r \in Replicas, NEW lane \in Lanes, BackoffElapses(r, lane) PROVE LanesKnown(q)'
  <2>1. laneDeferred' = [laneDeferred EXCEPT ![r] = @ \ {lane}] /\ UNCHANGED <<picked, attempts, activeLanes>>
    BY <1>5 DEF BackoffElapses, storeVars
  <2> QED
    BY <1>2, <2>1, NothingNewKnown
<1>6. ASSUME NEW r \in Replicas, LoseMemory(r) PROVE LanesKnown(q)'
  <2>1. /\ activeLanes' = [activeLanes EXCEPT ![r] = {}]
        /\ laneDeferred' = [laneDeferred EXCEPT ![r] = {}]
        /\ attempts' = attempts \ AttemptsAt(r)
    BY <1>6 DEF LoseMemory
  <2>2. (picked' = picked /\ picked[r] = {}) \/ picked' = [picked EXCEPT ![r] = {}]
    BY <1>6 DEF LoseMemory, ClaimCommit, ClaimAbort, storeVars
  <2>3. CASE q # r
    BY <1>2, <2>1, <2>2, <2>3, NothingNewKnown
  <2>4. CASE q = r
    <3>1. picked'[r] = {} /\ \A a \in attempts' : a.replica # r
      BY <1>2, <2>1, <2>2 DEF AttemptsAt
    <3> QED
      BY <2>4, <3>1 DEF LanesKnown
  <2> QED
    BY <2>3, <2>4
<1>7. ASSUME NEW a \in attempts, Execute(a) PROVE LanesKnown(q)'
  <2>1. PICK resolution \in Resolutions \ {"NONE"}, times \in {0, 1} : Resolve(a, resolution, times)
    BY <1>7, ExecuteResolves
  <2> DEFINE resolved == [a EXCEPT !.resolution = resolution]
  <2>2. /\ attempts' = (attempts \ {a}) \cup {resolved}
        /\ UNCHANGED <<picked, activeLanes, laneDeferred>>
    BY <2>1 DEF Resolve, storeVars, memory
  <2>3. resolved.op = a.op /\ resolved.replica = a.replica
    BY <1>2 DEF Attempt
  <2> HIDE DEF resolved
  <2> QED
    BY <1>2, <2>2, <2>3 DEF LanesKnown
<1>8. ASSUME NEW a \in attempts, Conclude(a) PROVE LanesKnown(q)'
  <2>1. DeferLane(a) /\ Release(a) /\ UNCHANGED picked
    BY <1>8, ResolutionWritten DEF Conclude, DeferForReadback, Requeue, Finalize, BackoffInv, DispatcherInv
  <2> QED
    BY <1>8, <2>1, ReleaseKnown
<1>9. ASSUME NEW a \in attempts, LoseResolution(a) PROVE LanesKnown(q)'
  BY <1>9, ReleaseKnown DEF LoseResolution, storeVars
<1>10. ASSUME NEW r \in Replicas,
              \/ \E i \in Instances : Ensure(r, i)
              \/ \E o \in Ops : Submit(r, o)
              \/ \E reaping \in BOOLEAN : BeginCycle(r, reaping)
              \/ \E outOfTokens \in SUBSET RateLimited : ComputeAvailability(r, outOfTokens)
              \/ Stop(r)
              \/ Restart(r)
       PROVE  UNCHANGED <<picked, attempts, activeLanes, laneDeferred>>
  BY <1>10 DEF Ensure, Submit, EnqueueBegin, BeginCycle, ReapStale, ComputeAvailability, Stop, Restart,
               storeVars, dispatcherVars, memory
<1>11. ASSUME NEW o \in Ops, Accept(o) \/ Elapse(o)
       PROVE  UNCHANGED <<picked, attempts, activeLanes, laneDeferred>>
  BY <1>11 DEF Accept, EnqueueCommit, Elapse, TimePasses, dispatcherVars
<1>12. ASSUME NEW p \in Partitions, MaintainPartition(p)
       PROVE  UNCHANGED <<picked, attempts, activeLanes, laneDeferred>>
  BY <1>12 DEF MaintainPartition, DropPartition, dispatcherVars
<1>13. CASE UNCHANGED vars
  BY <1>3, <1>13 DEF vars, storeVars, dispatcherVars
<1> QED
  BY <1>3, <1>4, <1>5, <1>6, <1>7, <1>8, <1>9, <1>10, <1>11, <1>12, <1>13,
     SendClaimKnown, ReceiveClaimKnown DEF Next, Crash, Exit

(* A row starts to run only in a claim that had chosen it.                 *)
LEMMA OnlyClaimsStart ==
  ASSUME StoreTypeOK, [StoreStep]_storeVars, NEW o \in Ops, Status(o) # "RUNNING", Status(o)' = "RUNNING"
  PROVE  \E c \in Claimers : o \in picked[c]
<1> SUFFICES ASSUME \A c \in Claimers : o \notin picked[c] PROVE FALSE
  OBVIOUS
<1> USE DEF StoreTypeOK, Row, Status
<1>1. ASSUME NEW p \in Ops, EnqueueBegin(p) \/ EnqueueCommit(p) \/ TimePasses(p) \/ DeferForReadback(p) \/ Requeue(p)
      PROVE  FALSE
  BY <1>1 DEF EnqueueBegin, EnqueueCommit, TimePasses, DeferForReadback, Requeue
<1>2. ASSUME NEW p \in Ops, NEW outcome \in Outcomes, Finalize(p, outcome) PROVE FALSE
  BY <1>2 DEF Finalize, Outcomes
<1>3. ASSUME NEW c \in Claimers, ClaimCommit(c) PROVE FALSE
  BY <1>3 DEF ClaimCommit, Claim, Returned
<1>4. ASSUME UNCHANGED operations PROVE FALSE
  BY <1>4
<1>5. ASSUME ReapStale PROVE FALSE
  BY <1>5 DEF ReapStale
<1>6. ASSUME NEW p \in Partitions, DropPartition(p) PROVE FALSE
  BY <1>6 DEF DropPartition
<1> QED
  BY <1>1, <1>2, <1>3, <1>4, <1>5, <1>6 DEF StoreStep, ClaimSnapshot, ClaimAbort, storeVars

(* Dispatcher.ts:166: "Lanes held out of claiming until a backoff elapses":*)
(* on one replica no claim starts a row of a deferred lane, though the     *)
(* claim may have been sent before the lane was deferred.  Attempts that   *)
(* outlive the reaper's threshold are allowed.                             *)
THEOREM BackoffsHonoured == ASSUME OneClaimer, LanesApart PROVE Spec => BackoffHonoured
<1>1. Init => BackoffInv
  <2> SUFFICES ASSUME Init PROVE BackoffInv
    OBVIOUS
  <2>1. DispatcherInv
    BY DispatcherInvInit
  <2> QED
    BY <2>1 DEF Init, StoreInit, BackoffInv, LanesKnown, Replicas
<1>2. BackoffInv /\ [Next]_vars => BackoffInv'
  BY BackoffInvStep
<1>3. BackoffInv /\ [Next]_vars
      => [\A o \in Ops, r \in Replicas :
            Status(o) # "RUNNING" /\ Status(o)' = "RUNNING" => LaneOf[o] \notin laneDeferred[r]]_vars
  <2> SUFFICES ASSUME BackoffInv, [Next]_vars, NEW o \in Ops, NEW r \in Replicas,
                      Status(o) # "RUNNING", Status(o)' = "RUNNING"
               PROVE  LaneOf[o] \notin laneDeferred[r]
    OBVIOUS
  <2>1. StoreTypeOK /\ [StoreStep]_storeVars
    BY StoreView DEF BackoffInv, DispatcherInv, TypeOK
  <2>2. PICK c \in Claimers : o \in picked[c]
    BY <2>1, OnlyClaimsStart
  <2>3. c = r
    BY OneClaimer DEF OneClaimer, Replicas
  <2> QED
    BY <2>2, <2>3 DEF BackoffInv, LanesKnown
<1> QED
  BY <1>1, <1>2, <1>3, PTL DEF Spec, BackoffHonoured

=============================================================================
