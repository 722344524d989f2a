# governance-provisioning-service in TLA+

The service accepts mutations over HTTP, stores them in Postgres, and replicas
of one process claim and execute them through the connector framework until each
has one of four terminal outcomes. These modules model the store and its daily
partitions, the way in, the claim loop with every attempt on every replica, and
the life of one process with its connectors; TLC checks them on small instances
and TLAPS proves each of their safety properties for every instance. Source paths below are relative to the repository's root
(`PROJECT.json` prefixes them with `src/`).

## 1. The system

| Component | State it keeps | Operations | Meets the others by |
|---|---|---|---|
| Operation store, `src/ops/OperationStore.ts`, `sql/schema.sql` | tables `operations` (day partitions) and `operations_history` | enqueue, claimBatch, finalize, requeue, deferForReadback, reapStale, pendingCounts, getStatus | one SQL transaction per call; READ COMMITTED, `SKIP LOCKED`, advisory locks |
| Dispatcher, `src/ops/Dispatcher.ts` | activeLanes, running, runningBatch, laneDeferredUntil, limiters, cycleInFlight, stopped, inFlight | runCycle on a timer, one task per claimed row, stop | calls the store, the registry, the facade |
| Wiring and process, `src/provisioning/wiring.ts`, `src/index.ts` | the `running` singleton | start, stop, ensureApplication, signals | builds and tears down the rest |
| Application registrar, `src/config/registerApplication.ts` | registered, inFlight | ensure, drainLeases, re-registration | called by every route that names an instance |
| Partition maintainer, `src/ops/PartitionMaintainer.ts` | a timer; the catalogue | runPass | creates and drops partitions under an advisory lock |
| Admission, `src/ops/admission.ts` | none | lane key, backlog cap, enqueue | between the routes and the store |
| Scheduling, `src/config/scheduling.ts` | none | slice and rate-limit resolution | read by the dispatcher through a cache |
| HTTP, `src/http/` | none | routes, authentication, filters, NDJSON search | admission, store, manager |
| Configuration, `src/config/` | files, a cached token | get a versioned document | the registrar |
| Node client, `clients/node` | a cached token | enqueue, wait for the outcome | HTTP |
| Connector framework (another repository) | registry, leases, connectors | acquire, create, update, delete, add, remove, search | called by the dispatcher, the registrar and the search route |

What is hard in it, and what makes each part correct:

- **Store.** Statements of several sessions interleave. `created_at` is when a
  transaction began, a row is visible when it committed; the claim statement
  chooses rows in a snapshot and rechecks only the row it locks. No call carries
  a claim token, so a superseded attempt still writes. Correct means: a row has
  one outcome for ever, and history has it too; a lane is not run twice at once;
  a claim respects every cap and wastes none.
- **Dispatcher.** Availability is computed before two awaits and used after
  them; counters are raised and lowered on two sides of an await; everything in
  memory goes with the process. Correct means: one live attempt per operation,
  budgets and retry limits kept, no create applied twice, and every accepted
  operation answered.
- **Admission and partitions.** A cap is read in one statement and spent in
  another; a client repeats a request whose answer it has lost, or sends it
  twice; a pass counts live rows, then drops, while its date is that of its
  beginning and other replicas run passes too. Correct means: one operation per
  key within retention, a bounded overshoot, a partition for today, and no live
  row dropped.
- **Registrar and connectors.** Requests share a resolution; the document
  changes while connectors built from the old one are lent out; registry and
  manager each keep their own view. Correct means: no connector disposed under a
  lease, records that agree, and no read that waits for ever.
- **Process.** Crash, stop with attempts in flight, a claim's answer that arrives
  in the middle of stop, restart with an empty registry. Correct means that a
  signal ends the process, and that the store's rows suffice to carry on.
- **Scheduling.** One formula whose rounding decides who may run: the reserve
  must not be less than the fraction asks, nor more than rounding up explains.

`PROJECT.json` lists the hazards one by one, at their lines, with the properties
that cover them.

## 2. Modules

| Module | What it is |
|---|---|
| `OperationPromise` | Abstract: what a polling client is promised. Two variables, two actions, and a liveness formula. |
| `OperationStore` | The two tables and each statement on them. `StoreSpec` lets anyone call anything in any order. |
| `Dispatcher` | EXTENDS `OperationStore`: the cycle and the attempts of every replica, requests, stops, crashes and restarts, the target. Every store change in it is an action of `OperationStore`. |
| `PartitionMaintainer` | The daily partitions and the maintenance passes of all replicas, over rows that come and go. |
| `Admission` | EXTENDS `PartitionMaintainer`: requests, their keys and the backlog cap. |
| `ConnectorManager` | One application's registry entry, live entry, connectors and leases. External, as the service drives it. |
| `ApplicationRegistrar` | EXTENDS `ConnectorManager`: ensure, replacement of a changed document, the lease drain. |
| `Wiring` | EXTENDS `ApplicationRegistrar`: one process from start to exit, its streaming reads, its attempts as borrowers, stop stage by stage. |
| `Scheduling` | The size of the interactive slice. |
| `InteractiveReserve` | EXTENDS `Dispatcher` and `Scheduling`: the claim loop whose `BatchSlots` are the ones `configOf` resolves. |
| `MCOperationStore`, `MCDispatcher`, `MCAdmission`, `MCProcess` | Constants for TLC: small casts of operations, requests and borrowers. |
| `OperationStore_proofs`, `ClaimQuery_proofs` | Theorems about the store; those about the claim query and its ranks are in the second, which extends the first. |
| `Dispatcher_proofs`, `DispatcherSafety_proofs`, `DispatcherBudget_proofs`, `Scheduling_proofs` | Theorems about the claim loops. The second and third extend the first, which rests on the store's. |
| `Admission_proofs` | Theorems about requests, keys, partitions and passes. |
| `Wiring_proofs` | Theorems about connectors, registrar and process. |

Three compositions cover the service. `Dispatcher` over `OperationStore` is the
life of an operation after its insert, `Admission` over `PartitionMaintainer` its
life up to the insert and the life of its partition, and `Wiring` over
`ApplicationRegistrar` over `ConnectorManager` is the process an attempt or a
read runs in. What one of them needs of another is reduced to what it can see:
`Admission` has `Claim`, `GoBack` and `Finish` for everything a dispatcher does to
a row, `Wiring` a cycle that launches any set of attempts, `OperationStore` a
partition drop it may meet at any time past retention.

### OperationStore

`operations[o]` is a row: its status, its attempt_count, the order of its
created_at, and one flag `elapsed`, true when now() has passed what the statements
compare it with (`not_before` of a row AWAITING_READBACK, `claimed_at` plus the
reaper's threshold of a RUNNING one). `TimePasses` sets the flag; the calls that
write those columns clear it. Three statuses are not the column's: NONE (never
submitted), INSERTING (inserted by a transaction still open), DROPPED (partition
dropped). `history[o]` is the history row's status or "NONE". `picked[c]` is what
claimer c's statement has chosen and not yet written.

Transactions are single actions with two exceptions, the windows other sessions
can see: `EnqueueBegin`/`EnqueueCommit`, and `ClaimSnapshot`/`ClaimCommit` (or
`ClaimAbort`). The claim query is one operator per CTE: `Busy` (blocked_lanes),
`LaneLeaders`, `WithinCaps` (ranked and the caps of picked), `Picked` (LIMIT),
`StillClaimable` (locked). `SKIP LOCKED` needs no lock state: a row another claim
has locked is one that claim is about to mark RUNNING, so skipping it shows what
letting that claim commit first shows.

The abstractions: no two rows have the same created_at; a rolled back insert is
one that stays INSERTING; each operation has its own idempotency key, so
enqueue's lookup finds nothing; payloads, results and error codes are left out;
`reapStale`'s two updates are one transaction under one lock, so one action; a
partition is dropped only past retention, when no insert is open in it. Lane keys
come from `laneKeyFor`'s two namespaces, so a create shares its lane with creates
of its name only (`LanesNamespaced`).

### Dispatcher

Per replica: `mode`, `registered` (the registry), `cycle` (idle, reaped,
sampling, claiming: the points at which runCycle awaits), `available`, and the
four fields of the class. `attempts` holds the tasks of all replicas, with what
each read when its row was claimed and, once known, what it concluded. `applied`
counts the times an operation took effect on its target, up to `Saturated` = 2.

| Code | Actions |
|---|---|
| `ensureApplication`, `enqueueRoute`, `enqueue` | `Ensure`, `Submit`, `Accept` |
| `runCycle`: entry and `maybeReap`; `computeAvailability`; `sampleBacklog`, `excludedLanes` and the claim's snapshot; the claim's return; its failure | `BeginCycle`, `ComputeAvailability`, `SendClaim`, `ReceiveClaim`, `LoseClaim` |
| `execute`, `attempt` and the handlers | `Execute`: `AcquireFails`, `AttemptCreate`, `ResumeReadBack`, `AttemptUpdate`, `AttemptDelete`, `AttemptDelta` |
| `finalize`, `safeRequeue`, the task's `finally` | `Conclude`; `LoseResolution` when the store call throws |
| backoff, clocks | `BackoffElapses`, `Elapse` |
| `stop`, process exit, crash, `start` | `Stop`, `Exit`, `Crash`, `Restart` |
| `PartitionMaintainer.runPass` | `MaintainPartition` |

The connector call takes effect, or not, in the step in which the attempt learns
its answer; a deadline or, with `AmbiguousErrors`, a retryable error leaves both
possibilities. `AcquireFails` also stands for `UNKNOWN_INSTANCE` and
`MISSING_UID`. A search by name finds the object if any create of that name was
applied, and may fail. A target in `EnforcesNames` refuses a second object of a
name. Store write and release of slot and lane are one step: in the code the slot
is held a little longer, during which nothing else reads the attempt. Round-robin
order only orders the instances in a set and is left out. `SlowAttempts` says
whether an attempt may outlive the reaper's threshold; OperationStore.ts:587-590
asks that it may not, and nothing enforces it.

### PartitionMaintainer and Admission

`today` is the database's date, days are numbered. `pass[r]` is replica r's
maintenance transaction: `BeginPass` fixes current_date, `CountLiveRows` is the
grant of the advisory lock with the count of each candidate's live rows,
`CommitPass` the creations and drops as others see them, `FailPass` any error,
timeout or death. The interval that begins passes has no guard
(`src/ops/PartitionMaintainer.ts:82`); two passes of one process would meet as two
replicas' passes do, and stand for one replica more. `row[x]` is a row's
status and its created_at's day.

`phase[q]` is how far a request has come. `CountBacklog` is admitAndEnqueue's
check; `BeginEnqueue` to `CommitEnqueue` or `AbortEnqueue` is the transaction of
enqueue, with the wait for the key's lock before `FindPrior` or `InsertRow`. A
commit whose answer is lost leaves the request failed and the row there; a retry
or a concurrent duplicate is another request with the same key.

Two facts about Postgres are used and stated at the definitions. An enqueue that
has read or written `operations` holds a lock on the partitioned table that DDL
on a partition conflicts with, so a pass that changes partitions commits when
none is open (`PassCommits`). `statement_timeout` ends every wait, so a
transaction of enqueue meets one midnight at most (`Midnight`).

### ConnectorManager, ApplicationRegistrar and Wiring

The registry has `definition` (the version registered), `built` and `building`;
the manager has its live `entry`; `holder[h]` is how far a request or an attempt
has come towards its lease, and what it was lent. Code between two awaits is one
action. A connector counts as disposed from the moment its disposal begins: the
facade refuses calls from then on. One application is modelled, for the state of
different applications is disjoint; pooled connectors are left out.

| Code | Actions |
|---|---|
| `acquire`, its factory, `release`, the sweep timer, `shutdown` | `AcquireRefused`, `AcquireLive`, `AcquireBuilt`, `AcquireBuilding`, `BuildSucceeds`, `BuildFails`, `Release`, `Sweep`, `ManagerShutdown` |
| `ensure` and `resolve`: the shared promise, the read, the drain, the disposal, the registration and its rejections | `Ensure`, `ReadConfig`, `ReadFails`, `DisposeOld`, `DrainTimesOut`, `RegisterNew` |
| the operator's edit | `EditConfig` |
| `start`, SIGTERM, `server.close` | `Start`, `StartFails`, `Signal`, `ServerClosed` |
| the streaming search | `Arrive`, `Block`, `SocketDrains`, `SearchEnds`, `SearchTimesOut`, `CloseConnection` |
| the dispatcher's loop and attempts, the maintainer's passes | `BeginCycle`, `ReceiveClaim`, `AttemptEnds`, `PassBegins`, `PassEnds` |
| `stop` | `TimerExpires`, `DispatcherStopped`, `MaintainerStopped`, `DisposeConnectors`, `ConnectorsDisposed`, `Exit` |

Settling a resolution moves every caller that shares it (`Settle`). A rejected
document leaves either no definition or one the registrar has no record of,
depending on which half rejects it (`Rejected`); `spoilt` says so
until a document is accepted. `DisposeOld` begins the disposal in the step that sees
no lease: the code has only microtasks between the two. `awaited` is the list dispatcher.stop() takes, and is not refreshed: an
attempt launched by a late claim answer is seen by the grace window only.

### Scheduling

`ComputeInteractiveSlots` and `ResolvedBatchSlots`, with a fraction as num / den, as
the operator wrote it. The code multiplies the nearest double by the budget, which
rounds again, and applies `Math.ceil`. For n * den up to 2^29 (`Representable`) the
two roundings together are less than 1 / den, so only a product that is whole can
come out wrong, and only by landing above itself: then one slot more is reserved, as
25 * 0.28 gives 8. `RoundsAbove` decides that exactly, from the remainder of
num * 2^k by den (`Excess` is how far the nearest double lies above the fraction), so
in numbers TLC can hold; `ProductsTested` compares the products of the
repository's tests and two that round above, in every run of `MCDispatcher`.
`InteractiveReserve` gives the dispatcher the slots they resolve (`ResolvedSlots`),
for a fraction per instance.

## 3. Properties

| Property | Says |
|---|---|
| `StoreTypeOK`, `TypeOK` | the columns and fields keep their shape |
| `HistoryAgrees` | hot outcome and history row agree; a live row has none; a dropped row has left its own |
| `LaneHeld` | no row runs on a lane another row holds by running or waiting for its read-back |
| `ClaimFillsCaps` | a claim never exceeds a cap or the limit, takes one row of a lane, and leaves a leader behind only when a cap or the limit is used up, never interactive for batch |
| `PromiseKept` | refinement: the client's view is a behaviour of `OperationPromise` |
| `SoleOwner` | an operation has one live attempt at most, on all replicas, and it works from the row's attempt count |
| `LaneSerialized` | live attempts of one lane are attempts at one operation |
| `BudgetRespected`, `CountersAgree` | live attempts per instance and class stay within the budget; the counters equal them |
| `InteractiveShare` | batch attempts never hold more of an instance's slots than the configured reserve leaves |
| `RetryBudget` | attempt_count stays within the limit the two retry paths allow |
| `CreatedOnce` | no create is applied twice |
| `DeltaAppliedOnce`, `DeltaAppliedOnceUnlessLost` | no delta on a target without set semantics is applied twice; the second one claims it only while nothing was lost |
| `SucceededIsApplied` | a success stands for an applied call, an object of the name, or a delete |
| `RejectedNeverReached` | an operation REJECTED_PRE_DISPATCH was never applied |
| `BackoffHonoured` | no row of a lane in backoff is claimed |
| `EveryOperationAnswered` | every accepted operation gets an outcome |
| `KeyRemembered` | two operations under one key are at least the retention apart |
| `OvershootBounded` | the backlog exceeds its cap by no more than the requests in flight and the rows running when it filled |
| `TodayCovered` | today has a partition if any pass committed today or within the lookahead before |
| `NoLiveRowDropped` | no pass takes a live row away, whatever entered its partition after the count |
| `RecordMatchesRegistry` | between resolutions the registrar's record is the registry's definition, unless the last document was rejected; the next one accepted mends it |
| `RegistryCoherent` | what the registry builds and keeps is of the registered version, and nothing left behind refuses the next registration |
| `LeaseNotPulled` | a connector is disposed under a lease only by shutdown, under an attempt past the grace window or a read whose client is gone |
| `LeaseIsCurrent` | a lent connector was built from the registered version |
| `EveryReadEnds` | every streaming read is over in the end |
| `StopCompletes` | a signal ends the process |

## 4. Runs that pass

| Run | Instance | Distinct states | What it shows |
|---|---|---|---|
| `store` | two creates of one name in two partitions, a delete; one claimer, caps to 2, one requeue | 234 thousand | `StoreTypeOK`, `LaneHeld`, `HistoryAgrees`, `PromiseKept` for any caller |
| `claim_query` | four operations on three lanes of two instances, both classes; caps 0 to 2, limits 1 and 2, any exclusion list | 7 thousand | `ClaimFillsCaps` in each backlog |
| `one_replica` | two creates of one name and a delta, budget 2 with one batch slot, rate-limited, one fault | 2.0 million | `TypeOK`, `LaneSerialized`, `BudgetRespected`, `InteractiveShare`, `RetryBudget`, `CreatedOnce`, `DeltaAppliedOnceUnlessLost`, `BackoffHonoured` |
| `two_replicas` | two creates of one name at a target that enforces names, two replicas, one fault, errors that may hide an applied call | 1.6 million | `SoleOwner`, `CountersAgree`, `SucceededIsApplied` |
| `answered` | a create and a delete of two instances, budget 1, two faults | 243 thousand | `EveryOperationAnswered` |
| `intake` | two requests of one key and two of their own, one class, cap 1, one maintaining replica, three days, retention and lookahead of one | 3.0 million | `TypeOK`, `TodayCovered`, `KeyRemembered`, `OvershootBounded`, `NoLiveRowDropped` |
| `process` | two reads and an attempt, three versions of the document of which one is rejected, two edits | 503 thousand | `TypeOK`, `RecordMatchesRegistry`, `RegistryCoherent`, `LeaseNotPulled`, `EveryReadEnds`, `StopCompletes` |

The bounds. Two operations on a lane and one off it are what a lane property
needs; both classes and a batch slot below the budget are what the caps need;
two replicas are enough for every race, for each property relates at most two
attempts or two rows. `MaxFaults` bounds crashes, stops and lost calls together:
one fault at any point, and two where liveness is asked (a crash during the
recovery from another). `MaxAttempts` = 2 lets every retry path be taken once and
refused once. `MaxRequeues` bounds attempt_count in `StoreSpec` only; in
`Dispatcher` it is bounded by the code. `MaxCap` bounds the caps, `MaxLimit` the
claim's batch size (2, so the limit cuts in `claim_query` only).

In `intake`, `MaxDay` = 2 is the first day on which a partition is past a
retention of one, and `KeyRemembered` is tight there: the key of day 0 is used
again on day 2. `MaxInFlight` and `MaxRunning` stand for the callers and the
replicas' budgets and are what the overshoot is measured in; two requests in
flight are the race. One maintaining replica suffices for what `CommitPass` does
while requests go on; that passes of two replicas do not overlap is the advisory
lock. In `process`, `MaxBuilds` = 3 never binds, since a build needs a borrower
that has none yet and there are three; two edits give a change, a rejected
document, and the old document put back. Two reads are needed for one that
shares the other's resolution or keeps the drain waiting.

Where deadlock checking is off the system may rest: all operations are answered
and the fault budget is spent; in `StoreSpec`, every row is terminal and dropped;
in `process`, the process has exited and the edits are spent. It is on in
`one_replica`, `two_replicas` and `intake`.

Fairness of the replicas, `Dispatcher!Fairness`: each cycle action is weakly fair
since the interval timer keeps firing and each await settles; a cycle that reaps
is strongly fair since reaperIntervalMs passes again and again; an attempt's own
steps, a backoff, a clock and a stopping process's exit are weakly fair. Failures,
requests and stops are not fair. `Restarts` says a process that is down is started
again; `NamedAgain` that some request names the instance at a replica that has
lost it. `NamedAgain` is an assumption about clients that nothing in the service
provides: `restart_forgets` drops it.

Fairness of a process, `Wiring!Fairness`: the registrar's awaits settle (a read,
a drain with a deadline, a disposal), the factory answers, an acquire once asked
is made, a search meets its attempt deadline, the claim and the maintenance pass
are statements under statement_timeout, timers fire, stop goes on, and clients
read their answer or leave. That an attempt ends is not assumed, nor that a socket
drains: the drain budget, the grace window and the deadline are there because
they may not. That clients leave is needed: stop begins when server.close calls
back, and that waits for every open connection without a bound of its own
(`src/index.ts:36`).

## 5. Runs that disagree with a document

Each checks one property that a document or a comment states and the code does
not keep; `PROJECT.json` quotes the lines.

| Run | What happens |
|---|---|
| `lane_across_replicas` | Replica 1 chooses a batch create. An interactive create of the same name commits. Replica 2's snapshot still sees the lane free and chooses the second. Both lock different rows and both run. |
| `delta_replayed` | A delta is applied, the write of its outcome is lost, the reaper returns it to PENDING and it is applied again on a target without set semantics. |
| `rejected_after_applied` | A delta on a target with set semantics is applied after its deadline and requeued; the next attempt cannot acquire the connector and the operation ends REJECTED_PRE_DISPATCH. |
| `restart_forgets` | After a crash and a restart no instance is registered, and cycle after cycle offers nothing, though a row is PENDING. |
| `stale_connector` | A document changes; the drain sees no lease, the registry disposes the instance and takes the new version. The manager's live entry is still there, and the next acquire is lent the disposed connector of the old version. |

Seen while modelling, and not stated as a property that a run checks:

- Two creates of one name, the second interactive and queued while the first, batch,
  waits for its read-back. When the wait is over both are claimable, and
  lane_leaders puts the interactive one first (`src/ops/OperationStore.ts:197`; the
  comment at 205-208 says the read-back is not overtaken, which is so of later rows of
  its own class). If the first never reached the target, its read-back finds the second's
  object and reports SUCCEEDED (`src/ops/Dispatcher.ts:668`): two operations answer
  for one object. `SucceededIsApplied` accepts that.
- A document that is rejected after the old instance is gone, or by its scheduling
  half, leaves the registrar's record at the old version. If the operator puts the
  old document back, ensure answers from the record (`src/config/registerApplication.ts:126`),
  while the registry holds no definition or the rejected one; only another version
  mends it. `RecordMatchesRegistry` speaks from there on.
- A lease acquired while a disposal is awaited is of the connector that goes.
  `LeaseIsCurrent` sees it once the new version is registered; `LeaseNotPulled` does
  not, for it counts a connector as disposed from the beginning of its disposal.
- A backoff is known to the process that decided it. requeue writes no not_before,
  so another replica, or the next process, claims the row at once; no document
  promises more. `BackoffHonoured` is checked and proved for one replica.
- `src/ops/PartitionMaintainer.ts:114` awaits `pool.connect()` outside the try, so
  an unreachable database is an unhandled rejection where the comment at 101-107
  promises a log line.
- A sweep disposes an idle connector and leaves it in the registry, where a later
  acquire finds it (`AcquireBuilt`); that is the framework's behaviour, recorded
  here because `LeaseIsCurrent` and the registrar build on it.
- activeLanes and laneDeferredUntil have no instance in their keys, so instances
  whose lanes have one name delay each other, and the end of one
  instance's attempt takes the lane off activeLanes under the other's.

## 6. What is proved

Each theorem about the store and the dispatcher holds for every finite set of
operations, every set of claimers, lanes, instances and partitions, and every
bound; those about admission for every finite set of rows, every set of keys,
classes and replicas, every retention, lookahead and cap, and any number of days;
those about the process for every finite set of borrowers and every set of
document versions, whichever of them are rejected. Those about the store are
stated of `StoreSpecUnbounded`: `StoreSpec` without the bound on requeues that TLC
needs. Where a theorem needs more than the named assumptions of its module, the
table says so; that no attempt outlives the reaper's threshold
(`~SlowAttempts`) is what `src/ops/OperationStore.ts:587-590` asks of a deployment.

| Theorem | Establishes | Needs besides |
|---|---|---|
| `StoreTyping` | `StoreTypeOK` | |
| `HistoryCorrect` | `HistoryAgrees` | |
| `OneClaimerHoldsLanes` | `LaneHeld` | one claimer |
| `StoreKeepsPromise` | `PromiseKept` | |
| `ClaimsFillTheirCaps` | `ClaimFillsCaps` | |
| `SliceFits` | the reserve covers the fraction within the budget, and is the least number of slots that does, or one more where the product is whole and rounds above; batch is left none exactly above (n - 1) / n, or there if it rounds above | n * den at most 2^29 |
| `DispatcherTyping` | `TypeOK` | |
| `DispatcherUsesStore` | every behaviour of the service is one of the store | |
| `DispatcherKeepsPromise` | `PromiseKept`, `HistoryAgrees` of the service | |
| `OneOwner` | `SoleOwner` | `~SlowAttempts` |
| `OneReplicaSerializes` | `LaneSerialized` | one replica, `~SlowAttempts` |
| `RetriesBounded` | `RetryBudget` | `~SlowAttempts` |
| `SuccessIsReal` | `SucceededIsApplied` | |
| `CreatesOnce` | `CreatedOnce` | `~SlowAttempts`, `~AmbiguousErrors` |
| `DeltasOnceUnlessLost` | `DeltaAppliedOnceUnlessLost` | `~SlowAttempts` |
| `CountersCorrect` | `CountersAgree` | |
| `BudgetsHold` | `BudgetRespected` | |
| `BackoffsHonoured` | `BackoffHonoured` | one replica, no lane key used by two instances |
| `ReserveHolds` | `InteractiveShare` | |
| `AdmissionTyping` | `Admission`'s `TypeOK` | |
| `LiveRowsStay` | `NoLiveRowDropped` | |
| `TodayStaysCovered` | `TodayCovered` | |
| `KeysStayRemembered` | `KeyRemembered` | |
| `OvershootStaysBounded` | `OvershootBounded` | |
| `WiringTyping` | `Wiring`'s `TypeOK` | |
| `RecordStaysTrue` | `RecordMatchesRegistry` | |
| `RegistryStaysCoherent` | `RegistryCoherent` | |
| `LeasesRespected` | `LeaseNotPulled` | |

The arguments:

- **Store.** Types and `HistoryAgrees` are inductive, given that `created_at` is a
  number because `Ops` is finite. `LaneHeld` is not: between a claim's snapshot and
  its write the chosen rows are not RUNNING, and something must keep their lanes
  free. `LanesFree` says they are free and of different lanes; `ChoiceSound`
  establishes it at the snapshot, from the claim query's text, and
  `OneLeaderPerLane` uses that the order of a lane is asymmetric. The other calls
  make no row busy (`NoNewBusyRow`). With a second claimer the invariant, and the
  property, fail: `lane_across_replicas`. For the promise, what getStatus reports
  is always what history records (`ReportedIsHistory`), so only a commit and an
  effective finalize change the client's view, and each other call stutters.
- **Dispatcher over store.** Each step of the service is a step of the store or
  leaves it alone: a claim's arguments are ones claimBatch accepts
  (`ClaimIsAChoice`) and each write of an attempt is one of the store's calls
  (`WriteIsAStoreStep`). The store's theorems then hold of the service.
- **`SoleOwner`** is strengthened to `OwnerInv`: the claim of a row that someone
  works on has not elapsed. That keeps the reaper away, and a RUNNING row is
  claimed by nobody, so only its own attempt moves it (`OwnedRowsKept`).
- **`LaneSerialized`** follows from the owner's invariant and the store's `LaneHeld`,
  for a live attempt's row is RUNNING. **`RetryBudget`** needs what an attempt has
  decided to be within the limit (`RetryDecided`).
- **`CreatedOnce`** rests on `CreateInv`: the row of an applied create never reads
  PENDING again, and whoever works on it next came by the read-back, which finds
  the object and so never asks for a retry; the reaper, too, sends a create to
  read-back. Deltas: while no fault has happened a row that runs has its attempt
  (`NothingLost`), so the reaper finds nothing.
- **Budgets.** `CountersAgree` needs that no two attempts are counted as one
  (`Distinct` serials) and that the live ones are those of a running process.
  `BudgetRespected` needs what a cycle may still add: what it was offered, or holds
  chosen, fits beside the attempts there are (`Reserved`), since attempts only end
  while a claim is on its way. That a claim fits its caps is `CapsHold`.
  `InteractiveShare` is `BudgetRespected` with `SliceFits`, of which it needs that
  the reserve covers the fraction: where rounding adds a slot it holds all the more.
- **The claim query.** Rows have different created_at (`CreatedInOrder`), so
  `Before` is a total order on a backlog, ranks differ and follow it
  (`RankFollowsOrder`), at most k rows are numbered up to k (`RankedAtMost`), and
  exactly k where there are k (`FirstOnes`: the rank is an injection into 1..n, so
  a bijection). If the limit cuts anyone, limit rows are taken. If the caps cut a
  leader (`WhyCut`): either every row among the first totalFree of its instance is
  kept, and there are totalFree of them; or one of these fell to the batch cap, and
  then the batch rows before it, batchFree of them, are all kept, and the
  leader is a batch row itself. Interactive rows rank first in both cuts, so none
  is left for a batch row (`InteractiveGoesFirst`).
- **`BackoffHonoured`** needs `LanesKnown`: the lane of a live attempt is in
  activeLanes, so what a claim has chosen is off the lanes that can still be deferred
  before it commits. Only a claim makes a row run (`OnlyClaimsStart`). Both
  hypotheses are needed: another replica knows nothing of the backoff, and where two
  instances share a lane key the end of one attempt takes the key off activeLanes
  under the other. No assumption on slow attempts is.
- **Partitions.** `AdmissionInv` says what a partition that a pass has doomed can no
  longer meet: an enqueue's transaction began today or yesterday (`Fresh`), its row
  is where a partition is (`Placed`), a row is born of its own request (`Unborn`),
  and the doomed days are past retention and have no live row (`DoomedEmpty`). That
  gives `NoLiveRowDropped`. `TodayCovered` needs `KeptAhead`: the whole series of the
  last committed pass is there, because a pass dooms only days past retention.
- **Keys.** `KeyInv`: a key's lock has one holder; what is dropped is past retention;
  and while an inserted row waits for its COMMIT, the other rows of its key are
  dropped and were made the retention or more before it. The step from a lookup that
  finds nothing to the insert is `NoPrior`: among the finitely many rows of a key one
  is the latest, since inclusion of finite sets is well founded.
- **The overshoot.** `LoadBounded` bounds one set, the requests admitted or in their
  transaction and the rows PENDING or RUNNING, by Cap - 1 + MaxInFlight + MaxRunning.
  `LoadSplit` says that its size is the backlog, the running rows and the requests in
  flight together; an admission finds the backlog below Cap and the requests in
  flight below MaxInFlight, with at most MaxRunning rows running, and every later
  step moves a member or takes one out (`LoadSteps`, `RunningSteps`).
- **Connectors and the process.** `WiringInv` joins four parts. `EntryHeld`: a
  construction runs exactly while the manager's entry waits for it, with a caller
  waiting; after the shutdown there is no entry. `LeaseHeld`: each lease is of the
  connector the entry holds, or, after the shutdown, of a disposed one. `Recorded`:
  what the registrar knows of the registry in each phase of a replacement. `Stages`:
  which stage of stop the manager's shutdown and open connections belong to. A drain
  that sees no lease leaves none, since a waiting caller or a lease is in
  the live entry's count.

`KeyInv` and the other strengthenings about admission and the process were checked
by TLC as invariants of `intake` and `process` before they were proved.

Only model-checked: liveness (`EveryOperationAnswered`, `EveryReadEnds`,
`StopCompletes`), which is beyond the prover. Every invariant and every action
property that a passing run checks is proved. A proof is no better than the model:
what it abstracts is in section 2, and the two facts about Postgres that
`Admission` uses (`PassCommits`, `Midnight`) are assumptions of its theorems too.

## 7. Plan

Done, in the order in which the rest rests on them: the promise, the store and its
proofs, the claim query's, the dispatcher and its proofs, admission and partitions
and theirs, connectors, registrar and process and theirs, the slice. Left:

1. Two replicas: what remains of `LaneSerialized` when claims of two replicas race,
   stated and proved (at most one row of a lane per claimer and snapshot).
2. `BackoffHonoured` per instance, without the hypothesis on lane keys.
3. A refinement of `Admission` into an abstract specification of a key's life.

Not modelled, and why. Authentication, filter parsing, error translation, the
validation of documents and requests, metrics, the naming attribute lookup and file
reading keep no state between requests. The outbound token cache is used once, at
boot, by one caller, so neither its expiry nor a concurrent refresh happens in the
program as it is. The node client is a sample: what it polls is `OperationPromise`,
what its retries do is `Admission`'s shared key. The migration and the operator's
scripts run by hand. The limiter's bucket belongs to the framework; the model lets
a token be missing in any cycle. The dispatcher's cached configuration is constant
in the model, so that a changed slice or rate limit is seen late
(`src/ops/Dispatcher.ts:389`) is listed as a hazard without a property.
