----------------------------- MODULE Dispatcher -----------------------------
(***************************************************************************)
(* The claim loops of the replicas, over the store they share.  A replica  *)
(* runs at most one cycle at a time - reap, compute the free slots, claim  *)
(* - and one attempt per row it has claimed.  A claimer of the store is a  *)
(* replica here.                                                           *)
(*                                                                         *)
(* External, modelled from how Dispatcher.ts uses them: the connector      *)
(* facade, whose call either reaches the target or does not and then       *)
(* answers, fails or passes its deadline; the target, kept as the number   *)
(* of times each operation was applied to it; the process around the       *)
(* dispatcher, which stops, dies and is started again.                     *)
(***************************************************************************)
EXTENDS OperationStore

CONSTANTS
  MaxLimit,          \* claimBatchSize
  MaxAttempts,       \* maxAttempts
  Concurrency,       \* mutationConcurrency, per instance
  BatchSlots,        \* batchSlots, per instance: Concurrency less the interactive slice
  RateLimited,       \* instances whose definition carries a rate limit
  NameSearch,        \* instances with the capability equalitySearchOnName
  IdempotentDelta,   \* instances with the capability idempotentDelta
  EnforcesNames,     \* instances whose target refuses a second object of the same name
  AmbiguousErrors,   \* may a retryable error hide a call the target applied?
  SlowAttempts,      \* may an attempt outlive reaperThresholdMs?
  MaxFaults          \* bound on crashes, stops and failed store calls, together

ASSUME BudgetsTyped ==
  /\ MaxLimit \in Nat /\ MaxAttempts \in Nat /\ MaxFaults \in Nat
  /\ Concurrency \in [Instances -> 0..MaxCap]
  /\ BatchSlots \in [Instances -> 0..MaxCap]
  /\ \A i \in Instances : BatchSlots[i] <= Concurrency[i]

VARIABLES
  mode,          \* per replica: "up", "stopping" once stop() has been called, "down"
  registered,    \* per replica: instances in its in-memory registry
  cycle,         \* per replica: where its runCycle is
  available,     \* per replica: the availability its cycle computed
  activeLanes, running, runningBatch, laneDeferred,   \* per replica: the Dispatcher's fields
  attempts,      \* the attempts executing on all replicas
  applied,       \* how often each operation was applied to its target
  faults         \* crashes, stops and failed store calls so far

dispatcherVars == <<mode, registered, cycle, available, activeLanes, running, runningBatch,
                    laneDeferred, attempts, applied, faults>>
vars == <<storeVars, dispatcherVars>>

cycleVars == <<cycle, available>>
memory == <<activeLanes, running, runningBatch, laneDeferred>>

Replicas == Claimers

\* What an attempt concluded; "NONE" while it is still executing.
Resolutions == Outcomes \cup {"NONE", "REQUEUE", "REQUEUE_AFTER_BACKOFF", "DEFER_READBACK"}

\* serial tells apart two attempts of one replica at the same operation.
Attempt == [replica: Replicas, op: Ops, serial: Nat, priorStatus: Pending,
            attemptCount: Nat, resolution: Resolutions]

Saturated == 2   \* `applied` counts to here: zero, one and more than one are all it must tell

NothingAvailable == [i \in Instances |-> [totalFree |-> 0, batchFree |-> 0]]

AttemptsAt(r) == {a \in attempts : a.replica = r}
Executing(o) == \E a \in attempts : a.op = o

Init ==
  /\ StoreInit
  /\ mode = [r \in Replicas |-> "up"]
  /\ registered = [r \in Replicas |-> {}]
  /\ cycle = [r \in Replicas |-> "idle"]
  /\ available = [r \in Replicas |-> NothingAvailable]
  /\ activeLanes = [r \in Replicas |-> {}]
  /\ running = [r \in Replicas |-> [i \in Instances |-> 0]]
  /\ runningBatch = [r \in Replicas |-> [i \in Instances |-> 0]]
  /\ laneDeferred = [r \in Replicas |-> {}]
  /\ attempts = {}
  /\ applied = [o \in Ops |-> 0]
  /\ faults = 0

-----------------------------------------------------------------------------
(***************************************************************************)
(* Requests.                                                               *)
(***************************************************************************)

\* ensureApplication, which runs before every route that names the instance: its first
\* resolution registers it.  (A changed configuration, which drains and registers anew, is left out.)
Ensure(r, i) ==
  /\ mode[r] = "up"
  /\ i \notin registered[r]
  /\ registered' = [registered EXCEPT ![r] = @ \cup {i}]
  /\ UNCHANGED <<storeVars, mode, cycleVars, memory, attempts, applied, faults>>

\* enqueueRoute: a mutation reaches the store through a replica that has registered its instance.
Submit(r, o) ==
  /\ mode[r] = "up"
  /\ InstanceOf[o] \in registered[r]
  /\ EnqueueBegin(o)
  /\ UNCHANGED dispatcherVars

Accept(o) ==
  /\ EnqueueCommit(o)
  /\ UNCHANGED dispatcherVars

-----------------------------------------------------------------------------
(***************************************************************************)
(* runCycle.                                                               *)
(***************************************************************************)

\* runCycle enters unless a cycle is in flight or stop() was called; maybeReap runs the reaper
\* when its interval has passed.  A failed or skipped pass is no reaping.
BeginCycle(r, reaping) ==
  /\ mode[r] = "up"
  /\ cycle[r] = "idle"
  /\ IF reaping THEN ReapStale ELSE UNCHANGED storeVars
  /\ cycle' = [cycle EXCEPT ![r] = "reaped"]
  /\ UNCHANGED <<mode, registered, available, memory, attempts, applied, faults>>

Smaller(x, y) == IF x < y THEN x ELSE y

\* Mutated: batch attempts still running from an earlier cycle are not counted.
FreeSlotsPerCycle(r, i) ==
  LET totalFree == Concurrency[i] - running[r][i]
  IN IF totalFree <= 0 THEN NothingAvailable[i]
     ELSE [totalFree |-> totalFree, batchFree |-> Smaller(BatchSlots[i], totalFree)]

\* Free slots of an instance: none when it is saturated or out of rate-limit tokens.
FreeSlots(r, i) ==
  LET totalFree == Concurrency[i] - running[r][i]
      batchFree == Smaller(BatchSlots[i] - runningBatch[r][i], totalFree)
  IN IF totalFree <= 0 THEN NothingAvailable[i]
     ELSE [totalFree |-> totalFree, batchFree |-> IF batchFree < 0 THEN 0 ELSE batchFree]

ComputeAvailability(r, outOfTokens) ==
  /\ cycle[r] = "reaped"
  /\ outOfTokens \subseteq RateLimited
  /\ available' = [available EXCEPT ![r] =
                     [i \in Instances |-> IF i \in registered[r] \ outOfTokens
                                          THEN FreeSlots(r, i) ELSE NothingAvailable[i]]]
  /\ cycle' = [cycle EXCEPT ![r] = IF available'[r] = NothingAvailable THEN "idle" ELSE "sampling"]
  /\ UNCHANGED <<storeVars, mode, registered, memory, attempts, applied, faults>>

\* Mutated: excludedLanes leaves the deferred lanes out.
SendClaimIgnoringBackoff(r) ==
  LET chosen == Picked(MaxLimit, activeLanes[r], available[r])
  IN /\ cycle[r] = "sampling"
     /\ ClaimSnapshot(r, chosen)
     /\ cycle' = [cycle EXCEPT ![r] = IF chosen = {} THEN "idle" ELSE "claiming"]
     /\ available' = [available EXCEPT ![r] = NothingAvailable]
     /\ UNCHANGED <<mode, registered, memory, attempts, applied, faults>>

\* After sampleBacklog: excludedLanes is read, and the claim statement sent.
SendClaim(r) ==
  LET chosen == Picked(MaxLimit, activeLanes[r] \cup laneDeferred[r], available[r])
  IN /\ cycle[r] = "sampling"
     /\ ClaimSnapshot(r, chosen)
     /\ cycle' = [cycle EXCEPT ![r] = IF chosen = {} THEN "idle" ELSE "claiming"]
     /\ available' = [available EXCEPT ![r] = NothingAvailable]
     /\ UNCHANGED <<mode, registered, memory, attempts, applied, faults>>

\* The least serial no live attempt of r at o uses.
FreshSerial(r, o) ==
  LET taken == {a.serial : a \in {b \in AttemptsAt(r) : b.op = o}}
  IN CHOOSE n \in 0..Cardinality(taken) : n \notin taken

Launched(r, claimed) ==
  {[replica |-> r, op |-> o, serial |-> FreshSerial(r, o), priorStatus |-> Status(o),
    attemptCount |-> operations[o].attemptCount, resolution |-> "NONE"] : o \in claimed}

\* The claim returns: one attempt per row, each counted against its lane and its instance.
ReceiveClaim(r) ==
  LET claimed == Returned(r)
      Count(i, S) == Cardinality({o \in S : InstanceOf[o] = i})
      batch == {o \in claimed : PriorityOf[o] = "batch"}
  IN /\ cycle[r] = "claiming"
     /\ ClaimCommit(r)
     /\ attempts' = attempts \cup Launched(r, claimed)
     /\ activeLanes' = [activeLanes EXCEPT ![r] = @ \cup {LaneOf[o] : o \in claimed}]
     /\ running' = [running EXCEPT ![r] = [i \in Instances |-> @[i] + Count(i, claimed)]]
     /\ runningBatch' = [runningBatch EXCEPT ![r] = [i \in Instances |-> @[i] + Count(i, batch)]]
     /\ cycle' = [cycle EXCEPT ![r] = "idle"]
     /\ UNCHANGED <<mode, registered, available, laneDeferred, applied, faults>>

\* The claim throws: its transaction took effect or it did not, and this process knows of no row.
LoseClaim(r) ==
  /\ cycle[r] = "claiming"
  /\ faults < MaxFaults
  /\ ClaimCommit(r) \/ ClaimAbort(r)
  /\ cycle' = [cycle EXCEPT ![r] = "idle"]
  /\ faults' = faults + 1
  /\ UNCHANGED <<mode, registered, available, memory, attempts, applied>>

-----------------------------------------------------------------------------
(***************************************************************************)
(* One attempt: acquire, call the target, resolve what the answer means.   *)
(***************************************************************************)

\* Attempt a reaches `resolution`, having applied its operation `times` times.
Resolve(a, resolution, times) ==
  /\ a.resolution = "NONE"
  /\ attempts' = (attempts \ {a}) \cup {[a EXCEPT !.resolution = resolution]}
  /\ applied' = [applied EXCEPT ![a.op] = Smaller(@ + times, Saturated)]
  /\ UNCHANGED <<storeVars, mode, registered, cycleVars, memory, faults>>

\* execute: the connector cannot be acquired, or attempt finds the instance unregistered.
AcquireFails(a) == Resolve(a, "REJECTED_PRE_DISPATCH", 0)

\* backoffOrGiveUp.
BackoffOrGiveUp(a) ==
  IF a.attemptCount + 1 >= MaxAttempts THEN "INDETERMINATE" ELSE "REQUEUE_AFTER_BACKOFF"

MayHaveApplied == IF AmbiguousErrors THEN {0, 1} ELSE {0}

\* An object of o's name is on the target.
NameTaken(o) == \E p \in Ops : SameLane(o, p) /\ TypeOf[p] = "CREATE" /\ applied[p] > 0

\* attemptCreate, with resolveCreateAfterDeadline.
AttemptCreate(a) ==
  LET refused == NameTaken(a.op) /\ InstanceOf[a.op] \in EnforcesNames
      afterDeadline == IF InstanceOf[a.op] \in NameSearch THEN "DEFER_READBACK" ELSE "INDETERMINATE"
  IN /\ TypeOf[a.op] = "CREATE"
     /\ a.priorStatus # "AWAITING_READBACK"
     /\ \/ ~refused /\ Resolve(a, "SUCCEEDED", 1)
        \/ Resolve(a, "FAILED_CONFIRMED", 0)
        \/ Resolve(a, afterDeadline, 0)
        \/ ~refused /\ Resolve(a, afterDeadline, 1)
        \/ \E times \in MayHaveApplied : ~(refused /\ times = 1) /\ Resolve(a, BackoffOrGiveUp(a), times)

\* Mutated: an empty search result passes for a hit.
ResumeReadBackTrusting(a) ==
  /\ a.priorStatus = "AWAITING_READBACK"
  /\ Resolve(a, "SUCCEEDED", 0) \/ Resolve(a, "INDETERMINATE", 0)

\* resumeReadBack: search by name; a confirmed miss is retried once.
ResumeReadBack(a) ==
  /\ a.priorStatus = "AWAITING_READBACK"
  /\ \/ NameTaken(a.op) /\ Resolve(a, "SUCCEEDED", 0)
     \/ /\ ~NameTaken(a.op)
        /\ Resolve(a, IF a.attemptCount < 1 THEN "REQUEUE" ELSE "INDETERMINATE", 0)
     \/ Resolve(a, "INDETERMINATE", 0)

\* What the other attempt handlers share: success, refusal, or no usable answer.
AttemptOther(a, onUnknownUid, onNoAnswer) ==
  \/ Resolve(a, "SUCCEEDED", 1)
  \/ Resolve(a, onUnknownUid, 0)
  \/ Resolve(a, "FAILED_CONFIRMED", 0)
  \/ \E times \in {0, 1} : Resolve(a, onNoAnswer, times)   \* its deadline passed

AttemptUpdate(a) ==
  /\ TypeOf[a.op] = "UPDATE"
  /\ AttemptOther(a, "FAILED_CONFIRMED", BackoffOrGiveUp(a))

AttemptDelete(a) ==
  /\ TypeOf[a.op] = "DELETE"
  /\ AttemptOther(a, "SUCCEEDED", BackoffOrGiveUp(a))

\* Mutated: no gate.
AttemptDeltaUngated(a) ==
  /\ TypeOf[a.op] \in {"ADD_VALUES", "REMOVE_VALUES"}
  /\ AttemptOther(a, "FAILED_CONFIRMED", BackoffOrGiveUp(a))

\* attemptDelta replays only where the manifest asserts set semantics.
AttemptDelta(a) ==
  /\ TypeOf[a.op] \in {"ADD_VALUES", "REMOVE_VALUES"}
  /\ AttemptOther(a, "FAILED_CONFIRMED",
                  IF InstanceOf[a.op] \in IdempotentDelta THEN BackoffOrGiveUp(a) ELSE "INDETERMINATE")

Execute(a) ==
  \/ AcquireFails(a)
  \/ AttemptCreate(a)
  \/ ResumeReadBack(a)
  \/ AttemptUpdate(a)
  \/ AttemptDelete(a)
  \/ AttemptDelta(a)

-----------------------------------------------------------------------------
(***************************************************************************)
(* finalize, and the finally of the task runCycle launched.                *)
(***************************************************************************)

\* A REQUEUE with a delay holds the lane in this process's memory.
DeferLane(a) ==
  laneDeferred' = IF a.resolution = "REQUEUE_AFTER_BACKOFF"
                  THEN [laneDeferred EXCEPT ![a.replica] = @ \cup {LaneOf[a.op]}]
                  ELSE laneDeferred

LessOne(n) == IF n > 0 THEN n - 1 ELSE 0

\* Mutated: the batch slot is not given back.
ReleaseKeepingBatch(a) ==
  LET r == a.replica
      i == InstanceOf[a.op]
  IN /\ attempts' = attempts \ {a}
     /\ activeLanes' = [activeLanes EXCEPT ![r] = @ \ {LaneOf[a.op]}]
     /\ running' = [running EXCEPT ![r][i] = LessOne(@)]
     /\ UNCHANGED runningBatch

\* The attempt leaves the process: its lane and its slot are given back.
Release(a) ==
  LET r == a.replica
      i == InstanceOf[a.op]
  IN /\ attempts' = attempts \ {a}
     /\ activeLanes' = [activeLanes EXCEPT ![r] = @ \ {LaneOf[a.op]}]
     /\ running' = [running EXCEPT ![r][i] = LessOne(@)]
     /\ runningBatch' = IF PriorityOf[a.op] = "batch"
                        THEN [runningBatch EXCEPT ![r][i] = LessOne(@)]
                        ELSE runningBatch

WriteResolution(a) ==
  CASE a.resolution = "DEFER_READBACK" -> DeferForReadback(a.op)
    [] a.resolution \in {"REQUEUE", "REQUEUE_AFTER_BACKOFF"} -> Requeue(a.op)
    [] a.resolution \in Outcomes -> Finalize(a.op, a.resolution)

Conclude(a) ==
  /\ a.resolution # "NONE"
  /\ WriteResolution(a)
  /\ DeferLane(a)
  /\ Release(a)
  /\ UNCHANGED <<mode, registered, cycleVars, applied, faults>>

\* The store call throws; the error is logged and the attempt ends as if it had been written.
LoseResolution(a) ==
  /\ a.resolution # "NONE"
  /\ faults < MaxFaults
  /\ UNCHANGED storeVars
  /\ DeferLane(a)
  /\ Release(a)
  /\ faults' = faults + 1
  /\ UNCHANGED <<mode, registered, cycleVars, applied>>

\* excludedLanes drops a lane once its backoff has elapsed.
BackoffElapses(r, lane) ==
  /\ lane \in laneDeferred[r]
  /\ laneDeferred' = [laneDeferred EXCEPT ![r] = @ \ {lane}]
  /\ UNCHANGED <<storeVars, mode, registered, cycleVars, activeLanes, running, runningBatch,
                 attempts, applied, faults>>

-----------------------------------------------------------------------------
(***************************************************************************)
(* The process around the dispatcher, and the passing of time.             *)
(***************************************************************************)

\* Everything r holds in memory is gone.  A claim statement it had sent commits or does not.
LoseMemory(r) ==
  /\ IF picked[r] = {} THEN UNCHANGED storeVars ELSE ClaimCommit(r) \/ ClaimAbort(r)
  /\ mode' = [mode EXCEPT ![r] = "down"]
  /\ registered' = [registered EXCEPT ![r] = {}]
  /\ cycle' = [cycle EXCEPT ![r] = "idle"]
  /\ available' = [available EXCEPT ![r] = NothingAvailable]
  /\ activeLanes' = [activeLanes EXCEPT ![r] = {}]
  /\ running' = [running EXCEPT ![r] = [i \in Instances |-> 0]]
  /\ runningBatch' = [runningBatch EXCEPT ![r] = [i \in Instances |-> 0]]
  /\ laneDeferred' = [laneDeferred EXCEPT ![r] = {}]
  /\ attempts' = attempts \ AttemptsAt(r)
  /\ UNCHANGED applied

Crash(r) ==
  /\ mode[r] # "down"
  /\ faults < MaxFaults
  /\ LoseMemory(r)
  /\ faults' = faults + 1

\* stop(): no further cycle begins; the one in flight and the attempts go on.
Stop(r) ==
  /\ mode[r] = "up"
  /\ faults < MaxFaults
  /\ mode' = [mode EXCEPT ![r] = "stopping"]
  /\ faults' = faults + 1
  /\ UNCHANGED <<storeVars, registered, cycleVars, memory, attempts, applied>>

\* The attempts have settled or the drain budget is spent, and the process exits.
Exit(r) ==
  /\ mode[r] = "stopping"
  /\ LoseMemory(r)
  /\ UNCHANGED faults

Restart(r) ==
  /\ mode[r] = "down"
  /\ mode' = [mode EXCEPT ![r] = "up"]
  /\ UNCHANGED <<storeVars, registered, cycleVars, memory, attempts, applied, faults>>

\* reaperThresholdMs must exceed the longest attempt, so a claim goes stale only once no attempt
\* is left to conclude it - unless SlowAttempts.
Elapse(o) ==
  /\ Status(o) = "RUNNING" /\ Executing(o) => SlowAttempts
  /\ TimePasses(o)
  /\ UNCHANGED dispatcherVars

MaintainPartition(p) ==
  /\ DropPartition(p)
  /\ UNCHANGED dispatcherVars

Next ==
  \/ \E r \in Replicas :
       \/ \E i \in Instances : Ensure(r, i)
       \/ \E o \in Ops : Submit(r, o)
       \/ \E reaping \in BOOLEAN : BeginCycle(r, reaping)
       \/ \E outOfTokens \in SUBSET RateLimited : ComputeAvailability(r, outOfTokens)
       \/ SendClaim(r)
       \/ ReceiveClaim(r)
       \/ LoseClaim(r)
       \/ \E lane \in Lanes : BackoffElapses(r, lane)
       \/ Crash(r)
       \/ Stop(r)
       \/ Exit(r)
       \/ Restart(r)
  \/ \E o \in Ops : Accept(o) \/ Elapse(o)
  \/ \E a \in attempts : Execute(a) \/ Conclude(a) \/ LoseResolution(a)
  \/ \E p \in Partitions : MaintainPartition(p)

Spec == Init /\ [][Next]_vars

(***************************************************************************)
(* Fairness: the interval timer keeps beginning cycles and every await     *)
(* settles, the reaper's interval keeps passing, a process that is up      *)
(* stays scheduled, and clocks run.  Nothing here obliges a client to      *)
(* submit or to name an instance.                                          *)
(***************************************************************************)
AttemptProgress(r, o) ==
  \E a \in attempts : a.replica = r /\ a.op = o /\ (Execute(a) \/ Conclude(a))

Fairness ==
  /\ \A r \in Replicas :
       /\ WF_vars(\E reaping \in BOOLEAN : BeginCycle(r, reaping))
       /\ SF_vars(BeginCycle(r, TRUE))
       /\ WF_vars(ComputeAvailability(r, {}))
       /\ WF_vars(SendClaim(r))
       /\ WF_vars(ReceiveClaim(r))
       /\ WF_vars(Exit(r))
       /\ \A lane \in Lanes : WF_vars(BackoffElapses(r, lane))
       /\ \A o \in Ops : WF_vars(AttemptProgress(r, o))
  /\ \A o \in Ops : WF_vars(Elapse(o))

\* Something above the process starts it again.
Restarts == \A r \in Replicas : WF_vars(Restart(r))

\* The instance is named again at every replica that has lost it: the condition a restart needs.
NamedAgain == \A r \in Replicas, i \in Instances : WF_vars(Ensure(r, i))

FairSpec == Spec /\ Fairness /\ Restarts
FairSpecNamed == FairSpec /\ NamedAgain

(***************************************************************************)
(* Properties                                                              *)
(***************************************************************************)

(* The in-memory fields keep their shape: counters never go negative or    *)
(* past what the claims can have added.                                    *)
TypeOK ==
  /\ StoreTypeOK
  /\ mode \in [Replicas -> {"up", "stopping", "down"}]
  /\ registered \in [Replicas -> SUBSET Instances]
  /\ cycle \in [Replicas -> {"idle", "reaped", "sampling", "claiming"}]
  /\ available \in [Replicas -> [Instances -> Availability]]
  /\ activeLanes \in [Replicas -> SUBSET Lanes]
  /\ running \in [Replicas -> [Instances -> Nat]]
  /\ runningBatch \in [Replicas -> [Instances -> Nat]]
  /\ laneDeferred \in [Replicas -> SUBSET Lanes]
  /\ attempts \subseteq Attempt
  /\ applied \in [Ops -> 0..Saturated]
  /\ faults \in 0..MaxFaults

(* README.md: "no risk of double claiming".  As long as no attempt         *)
(* outlives the reaper's threshold, an operation has at most one live      *)
(* attempt on all replicas together, its row is RUNNING, and the attempt   *)
(* works from the attempt count the row has - through crashes, lost claim  *)
(* responses, lost writes, reaping and racing claim statements.            *)
SoleOwner ==
  \A a \in attempts :
    /\ Status(a.op) = "RUNNING"
    /\ operations[a.op].attemptCount = a.attemptCount
    /\ \A b \in attempts : a.op = b.op => a = b

(* README.md: "Two operations that touch the same object ... can never run *)
(* concurrently, across every replica".                                    *)
LaneSerialized ==
  \A a, b \in attempts : SameLane(a.op, b.op) => a.op = b.op

(* computeAvailability is read before two awaits and used after them, and  *)
(* a claim is counted only when it returns: all the same, no replica ever  *)
(* runs more attempts on an instance than its mutationConcurrency, nor     *)
(* more batch attempts than the interactive slice leaves.                  *)
BudgetRespected ==
  \A r \in Replicas, i \in Instances :
    LET here == {a \in AttemptsAt(r) : InstanceOf[a.op] = i}
    IN /\ Cardinality(here) <= Concurrency[i]
       /\ Cardinality({a \in here : PriorityOf[a.op] = "batch"}) <= BatchSlots[i]

(* running and runningBatch are maintained on two sides of an await and    *)
(* floored at zero: they always equal the attempts this process has live.  *)
CountersAgree ==
  \A r \in Replicas, i \in Instances :
    LET here == {a \in AttemptsAt(r) : InstanceOf[a.op] = i}
    IN /\ running[r][i] = Cardinality(here)
       /\ runningBatch[r][i] = Cardinality({a \in here : PriorityOf[a.op] = "batch"})

(* backoffOrGiveUp and the read-back retry are the only two places that    *)
(* send a row round again, and the reaper, the read-back wait and the lane *)
(* backoff must not spend the budget they count: no operation is retried   *)
(* more than maxAttempts - 1 times, or once where that is zero.            *)
RetryBudget ==
  \A o \in Ops : operations[o].attemptCount <= (IF MaxAttempts > 2 THEN MaxAttempts - 1 ELSE 1)

(* attemptCreate and resumeReadBack: "blind retry is exactly how duplicate *)
(* accounts happen".  No create is applied twice, whatever crashes between *)
(* the target's answer and the row's, as long as a retryable error means   *)
(* the call did not take effect and no attempt outlives the reaper.        *)
CreatedOnce == \A o \in Ops : TypeOf[o] = "CREATE" => applied[o] <= 1

(* A row that reports SUCCEEDED was applied: a create that succeeded by    *)
(* read-back found an object that some create of that name made.           *)
SucceededIsApplied ==
  \A o \in Ops :
    Status(o) = "SUCCEEDED" => \/ applied[o] > 0
                               \/ TypeOf[o] = "CREATE" /\ NameTaken(o)
                               \/ TypeOf[o] = "DELETE"

(* Dispatcher.ts:761: "A delta is only safe to replay if the target        *)
(* applies it with set semantics".  A delta on an instance that does not   *)
(* assert it is never applied twice.                                       *)
DeltaAppliedOnce ==
  \A o \in Ops :
    TypeOf[o] \in {"ADD_VALUES", "REMOVE_VALUES"} /\ InstanceOf[o] \notin IdempotentDelta
      => applied[o] <= 1

(* Without a crash or a lost store call, the gate in attemptDelta is       *)
(* enough: a requeue never replays a delta its target may count twice.     *)
DeltaAppliedOnceUnlessLost == faults = 0 => DeltaAppliedOnce

(* Dispatcher.ts:166: "Lanes held out of claiming until a backoff          *)
(* elapses": excludedLanes is read after two awaits and the claim commits  *)
(* after another, and still no row of a deferred lane is claimed.          *)
BackoffHonoured ==
  [][\A o \in Ops, r \in Replicas :
       Status(o) # "RUNNING" /\ Status(o)' = "RUNNING" => LaneOf[o] \notin laneDeferred[r]]_vars

(* README.md, outcomes: REJECTED_PRE_DISPATCH "Never reached the target."  *)
RejectedNeverReached ==
  \A o \in Ops : Status(o) = "REJECTED_PRE_DISPATCH" => applied[o] = 0

(* README.md: "a crash right after 202 loses nothing".  Every accepted     *)
(* operation is answered, through any finite number of faults.             *)
EveryOperationAnswered == Promise!Answered

=============================================================================
