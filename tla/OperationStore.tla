--------------------------- MODULE OperationStore ---------------------------
(***************************************************************************)
(* The durable half of the service: the partitioned table `operations`,    *)
(* the permanent table `operations_history`, and the statements of         *)
(* OperationStore.ts that read and write them.  Every transaction is one   *)
(* action, except the two whose inner gap can be seen by another session:  *)
(*                                                                         *)
(*   - enqueue: created_at is now(), the time the transaction BEGAN, while *)
(*     the row becomes visible when it COMMITS;                            *)
(*   - claimBatch: CLAIM_SQL chooses rows in the snapshot its statement    *)
(*     starts from, and re-checks only the row it locks when it writes.    *)
(*                                                                         *)
(* StoreSpec lets any client call anything in any order: it is what the    *)
(* table guarantees whoever uses it.  Dispatcher.tla restricts the callers *)
(* to the ones the service has.                                            *)
(*                                                                         *)
(* A row's timestamps are kept as the facts the statements test: createdAt *)
(* by its order, and one flag, elapsed, that says whether now() has passed *)
(* not_before (AWAITING_READBACK) or claimed_at + the reaper threshold     *)
(* (RUNNING).                                                              *)
(*                                                                         *)
(* An operator whose comment begins "Mutated" is no part of the model: it  *)
(* is the definition after it with a plausible mistake, which a property   *)
(* named in PROJECT.json tells from the real one.                          *)
(***************************************************************************)
EXTENDS Integers, FiniteSets

CONSTANTS
  Ops,          \* operations clients may ever submit, each under its own idempotency key
  Claimers,     \* sessions that call claimBatch: one per dispatcher
  Instances,    \* connector instances
  Lanes,        \* lane keys
  Partitions,   \* daily partitions
  InstanceOf, LaneOf, TypeOf, PriorityOf, PartitionOf,  \* the immutable columns
  MaxCap,       \* bound on the per-instance caps a client passes to claimBatch
  MaxRequeues   \* bound on attempt_count, in StoreSpec alone

OpTypes == {"CREATE", "UPDATE", "DELETE", "ADD_VALUES", "REMOVE_VALUES"}
Outcomes == {"SUCCEEDED", "REJECTED_PRE_DISPATCH", "FAILED_CONFIRMED", "INDETERMINATE"}
Pending == {"PENDING", "RUNNING", "AWAITING_READBACK"}

ASSUME OpsFinite == IsFiniteSet(Ops)
ASSUME ColumnsTyped ==
  /\ InstanceOf \in [Ops -> Instances]
  /\ LaneOf \in [Ops -> Lanes]
  /\ TypeOf \in [Ops -> OpTypes]
  /\ PriorityOf \in [Ops -> {"interactive", "batch"}]
  /\ PartitionOf \in [Ops -> Partitions]
\* laneKeyFor: a create keys on its name, every other operation on its uid, in two namespaces.
ASSUME LanesNamespaced ==
  \A o, p \in Ops : LaneOf[o] = LaneOf[p] => (TypeOf[o] = "CREATE" <=> TypeOf[p] = "CREATE")
ASSUME BoundsNatural == MaxCap \in Nat /\ MaxRequeues \in Nat

VARIABLES
  operations,   \* the hot table: one row per operation
  history,      \* operations_history: the recorded outcome, or "NONE"
  picked        \* the rows CLAIM_SQL chose in its snapshot, per claimer; {} when none is running

storeVars == <<operations, history, picked>>

(***************************************************************************)
(* "NONE": never submitted.  "INSERTING": inserted by a transaction that   *)
(* has not committed, invisible to every other session.  "DROPPED": its    *)
(* partition has been dropped.  The rest are the values of the column.     *)
(***************************************************************************)
Statuses == {"NONE", "INSERTING", "DROPPED"} \cup Pending \cup Outcomes

Row == [status: Statuses, attemptCount: Nat, createdAt: Nat, elapsed: BOOLEAN]

Availability == [totalFree: 0..MaxCap, batchFree: 0..MaxCap]

Status(o) == operations[o].status
Terminal(o) == Status(o) \in Outcomes

SameLane(o, p) == InstanceOf[o] = InstanceOf[p] /\ LaneOf[o] = LaneOf[p]

\* Rows that hold their lane: the blocked_lanes CTE.
Busy(o) ==
  \/ Status(o) = "RUNNING"
  \/ Status(o) = "AWAITING_READBACK" /\ ~operations[o].elapsed

\* The WHERE clause of lane_leaders on the row itself.
Claimable(o) ==
  \/ Status(o) = "PENDING"
  \/ Status(o) = "AWAITING_READBACK" /\ operations[o].elapsed

\* ORDER BY (priority = 'interactive') DESC, created_at.
Before(o, p) ==
  \/ PriorityOf[o] = "interactive" /\ PriorityOf[p] = "batch"
  \/ /\ PriorityOf[o] = PriorityOf[p]
     /\ operations[o].createdAt < operations[p].createdAt

\* row_number() of o when S is ordered by Before.
RowNumber(o, S) == Cardinality({p \in S : p = o \/ Before(p, o)})

-----------------------------------------------------------------------------
(***************************************************************************)
(* CLAIM_SQL, one operator per CTE.  `available` maps every instance to    *)
(* its caps, with totalFree = 0 for an instance absent from the map;       *)
(* `excluded` is the claimer's in-memory list of lane keys.                *)
(***************************************************************************)
\* Mutated: only a RUNNING row blocks its lane, so a create waiting for its read-back does not.
LaneLeadersPastReadBack(excluded, available) ==
  {o \in Ops :
     /\ Claimable(o)
     /\ available[InstanceOf[o]].totalFree > 0
     /\ LaneOf[o] \notin excluded
     /\ \A p \in Ops : SameLane(o, p) => Status(p) # "RUNNING"
     /\ \A p \in Ops : SameLane(o, p) /\ Claimable(p) /\ p # o => Before(o, p)}

\* Mutated: ranks without collapsing lanes.
LaneLeadersUncollapsed(excluded, available) ==
  {o \in Ops :
     /\ Claimable(o)
     /\ available[InstanceOf[o]].totalFree > 0
     /\ LaneOf[o] \notin excluded
     /\ \A p \in Ops : SameLane(o, p) => ~Busy(p)}

LaneLeaders(excluded, available) ==
  {o \in Ops :
     /\ Claimable(o)
     /\ available[InstanceOf[o]].totalFree > 0
     /\ LaneOf[o] \notin excluded
     /\ \A p \in Ops : SameLane(o, p) => ~Busy(p)
     /\ \A p \in Ops : SameLane(o, p) /\ Claimable(p) /\ p # o => Before(o, p)}

BatchCap(cap) == IF cap.batchFree < cap.totalFree THEN cap.batchFree ELSE cap.totalFree

\* Mutated: the batch cap cuts on rn, where interactive rows stand too, not on class_rn.
WithinCapsOneRank(leaders, available) ==
  {o \in leaders :
     LET peers == {p \in leaders : InstanceOf[p] = InstanceOf[o]}
         cap == available[InstanceOf[o]]
     IN RowNumber(o, peers) <= IF PriorityOf[o] = "batch" THEN BatchCap(cap) ELSE cap.totalFree}

WithinCaps(leaders, available) ==
  {o \in leaders :
     LET peers == {p \in leaders : InstanceOf[p] = InstanceOf[o]}
         cap == available[InstanceOf[o]]
     IN /\ RowNumber(o, peers) <= cap.totalFree
        /\ PriorityOf[o] = "batch" =>
             RowNumber(o, {p \in peers : PriorityOf[p] = "batch"}) <= BatchCap(cap)}

Picked(limit, excluded, available) ==
  LET eligible == WithinCaps(LaneLeaders(excluded, available), available)
  IN {o \in eligible : RowNumber(o, eligible) <= limit}

-----------------------------------------------------------------------------
StoreInit ==
  /\ operations = [o \in Ops |-> [status |-> "NONE", attemptCount |-> 0,
                                  createdAt |-> 0, elapsed |-> FALSE]]
  /\ history = [o \in Ops |-> "NONE"]
  /\ picked = [c \in Claimers |-> {}]

\* created_at DEFAULT now(): transactions are numbered in the order they begin.
Now == 1 + Cardinality({o \in Ops : operations[o].createdAt > 0})

\* enqueue up to its INSERT.  A dropped partition is a past day and takes no new row.
EnqueueBegin(o) ==
  /\ Status(o) = "NONE"
  /\ \A p \in Ops : PartitionOf[p] = PartitionOf[o] => Status(p) # "DROPPED"
  /\ operations' = [operations EXCEPT ![o].status = "INSERTING", ![o].createdAt = Now]
  /\ UNCHANGED <<history, picked>>

\* enqueue's COMMIT: the row is visible and the caller gets its 202.
EnqueueCommit(o) ==
  /\ Status(o) = "INSERTING"
  /\ operations' = [operations EXCEPT ![o].status = "PENDING"]
  /\ UNCHANGED <<history, picked>>

\* claimBatch: CLAIM_SQL takes its snapshot and chooses.
ClaimSnapshot(c, chosen) ==
  /\ picked[c] = {}
  /\ picked' = [picked EXCEPT ![c] = chosen]
  /\ UNCHANGED <<operations, history>>

\* Mutated: the lock does not recheck RUNNING.
StillClaimableIfLive(o) == ~Terminal(o) /\ Status(o) # "DROPPED"

\* Mutated: the lock does not recheck that the row is not terminal.
StillClaimableUnlessRunning(o) == Status(o) \notin {"RUNNING", "DROPPED"}

\* The `locked` CTE's recheck, made on the newest version of the row.
StillClaimable(o) == ~Terminal(o) /\ Status(o) \notin {"RUNNING", "DROPPED"}

Claim(claimed) ==
  operations' = [o \in Ops |-> IF o \in claimed
                               THEN [operations[o] EXCEPT !.status = "RUNNING", !.elapsed = FALSE]
                               ELSE operations[o]]

\* The rows the claim running for c would return if it committed now.
Returned(c) == {o \in picked[c] : StillClaimable(o)}

\* CLAIM_SQL locks, writes and returns its rows.  SKIP LOCKED: a row that another claim has
\* locked is one that claim is about to mark RUNNING, so letting it commit first shows the same.
ClaimCommit(c) ==
  /\ picked[c] # {}
  /\ Claim(Returned(c))
  /\ picked' = [picked EXCEPT ![c] = {}]
  /\ UNCHANGED history

\* The claim statement fails, or its session dies before it commits.
ClaimAbort(c) ==
  /\ picked[c] # {}
  /\ picked' = [picked EXCEPT ![c] = {}]
  /\ UNCHANGED <<operations, history>>

\* Mutated: finalize lacks its guard on terminal rows.
FinalizeAgain(o, outcome) ==
  /\ IF Status(o) \in Pending \cup Outcomes
     THEN /\ operations' = [operations EXCEPT ![o].status = outcome, ![o].elapsed = FALSE]
          /\ history' = IF history[o] = "NONE" THEN [history EXCEPT ![o] = outcome] ELSE history
     ELSE UNCHANGED <<operations, history>>
  /\ UNCHANGED picked

\* finalize: any row that is not terminal, whoever claimed it; history in the same transaction,
\* ON CONFLICT DO NOTHING.  A repeated finalize changes nothing.
Finalize(o, outcome) ==
  /\ IF Status(o) \in Pending
     THEN /\ operations' = [operations EXCEPT ![o].status = outcome, ![o].elapsed = FALSE]
          /\ history' = IF history[o] = "NONE" THEN [history EXCEPT ![o] = outcome] ELSE history
     ELSE UNCHANGED <<operations, history>>
  /\ UNCHANGED picked

\* Mutated: attempt_count counts down.
RequeueCountsDown(o) ==
  /\ operations' = IF Status(o) = "RUNNING"
                   THEN [operations EXCEPT ![o].status = "PENDING",
                                           ![o].attemptCount = @ - 1,
                                           ![o].elapsed = FALSE]
                   ELSE operations
  /\ UNCHANGED <<history, picked>>

\* requeue: a RUNNING row only; otherwise it changes nothing.
Requeue(o) ==
  /\ operations' = IF Status(o) = "RUNNING"
                   THEN [operations EXCEPT ![o].status = "PENDING",
                                           ![o].attemptCount = @ + 1,
                                           ![o].elapsed = FALSE]
                   ELSE operations
  /\ UNCHANGED <<history, picked>>

\* Mutated: the read-back wait counts as an attempt.
DeferForReadbackCounted(o) ==
  /\ operations' = IF Status(o) = "RUNNING"
                   THEN [operations EXCEPT ![o].status = "AWAITING_READBACK",
                                           ![o].attemptCount = @ + 1,
                                           ![o].elapsed = FALSE]
                   ELSE operations
  /\ UNCHANGED <<history, picked>>

\* deferForReadback: a RUNNING row only; attempt_count is left alone.
DeferForReadback(o) ==
  /\ operations' = IF Status(o) = "RUNNING"
                   THEN [operations EXCEPT ![o].status = "AWAITING_READBACK", ![o].elapsed = FALSE]
                   ELSE operations
  /\ UNCHANGED <<history, picked>>

Stale(o) == Status(o) = "RUNNING" /\ operations[o].elapsed

\* Mutated: a stale create goes back to PENDING like any other row.
ReapStaleBlindly ==
  /\ operations' = [o \in Ops |-> IF ~Stale(o) THEN operations[o]
                                  ELSE [operations[o] EXCEPT !.status = "PENDING", !.elapsed = FALSE]]
  /\ UNCHANGED <<history, picked>>

\* Mutated: the second UPDATE, for every type but CREATE, is missing.
ReapStaleCreatesOnly ==
  /\ operations' =
       [o \in Ops |->
          IF ~Stale(o) \/ TypeOf[o] # "CREATE" THEN operations[o]
          ELSE [operations[o] EXCEPT !.status = "AWAITING_READBACK", !.elapsed = FALSE]]
  /\ UNCHANGED <<history, picked>>

\* reapStale: creates to the read-back path, every other type back to PENDING.
ReapStale ==
  /\ operations' =
       [o \in Ops |->
          IF ~Stale(o) THEN operations[o]
          ELSE [operations[o] EXCEPT
                  !.status = IF TypeOf[o] = "CREATE" THEN "AWAITING_READBACK" ELSE "PENDING",
                  !.elapsed = FALSE]]
  /\ UNCHANGED <<history, picked>>

\* drop_operations_partition(p), called once p is past retention, so with no insert open in it.
DropPartition(p) ==
  LET rows == {o \in Ops : PartitionOf[o] = p /\ Status(o) # "NONE"}
  IN /\ \A o \in rows : Terminal(o)
     /\ operations' = [o \in Ops |-> IF o \in rows
                                     THEN [operations[o] EXCEPT !.status = "DROPPED"]
                                     ELSE operations[o]]
     /\ UNCHANGED <<history, picked>>

\* Time passes o's not_before, or its claim grows older than the reaper's threshold.
TimePasses(o) ==
  /\ Status(o) \in {"RUNNING", "AWAITING_READBACK"}
  /\ ~operations[o].elapsed
  /\ operations' = [operations EXCEPT ![o].elapsed = TRUE]
  /\ UNCHANGED <<history, picked>>

\* What claimBatch can choose in this state, whatever its arguments.
Choices ==
  {Picked(limit, excluded, available) :
     limit \in 1..Cardinality(Ops), excluded \in SUBSET Lanes, available \in [Instances -> Availability]}

\* Any call a client can make.
StoreStep ==
  \/ \E o \in Ops : \/ EnqueueBegin(o)
                    \/ EnqueueCommit(o)
                    \/ TimePasses(o)
                    \/ DeferForReadback(o)
                    \/ \E outcome \in Outcomes : Finalize(o, outcome)
                    \/ Requeue(o)
  \/ \E c \in Claimers : \/ picked[c] = {} /\ \E chosen \in Choices : ClaimSnapshot(c, chosen)
                         \/ ClaimCommit(c)
                         \/ ClaimAbort(c)
  \/ ReapStale
  \/ \E p \in Partitions : DropPartition(p)

\* For TLC: attempt_count, which nothing in the store bounds, stays below a bound.
StoreNext == StoreStep /\ \A o \in Ops : operations'[o].attemptCount <= MaxRequeues

StoreSpecUnbounded == StoreInit /\ [][StoreStep]_storeVars
StoreSpec == StoreInit /\ [][StoreNext]_storeVars

-----------------------------------------------------------------------------
\* getStatus: the hot row while there is one, the history row after that.
GetStatus(o) == IF Status(o) \in Pending \cup Outcomes THEN Status(o) ELSE history[o]

Accepted == {o \in Ops : Status(o) \notin {"NONE", "INSERTING"}}
ReportedOutcome == [o \in Ops |-> IF GetStatus(o) \in Outcomes THEN GetStatus(o) ELSE "NONE"]

Promise == INSTANCE OperationPromise
             WITH accepted <- Accepted, answer <- ReportedOutcome, NoAnswer <- "NONE"

(***************************************************************************)
(* Properties                                                              *)
(***************************************************************************)

(* Every row keeps the shape schema.sql's columns and checks give it, and  *)
(* the set a claim statement has chosen is a set of rows.                  *)
StoreTypeOK ==
  /\ operations \in [Ops -> Row]
  /\ history \in [Ops -> Outcomes \cup {"NONE"}]
  /\ picked \in [Claimers -> SUBSET Ops]

(* finalize writes the history row in the transaction that makes the row   *)
(* terminal, and drop_operations_partition drops terminal rows only: so a  *)
(* hot outcome always has an equal history row, a row still pending has    *)
(* none, and a dropped row has left its outcome behind - whatever late,    *)
(* repeated or competing finalize, requeue, defer and reap calls arrive.   *)
HistoryAgrees ==
  \A o \in Ops :
    /\ Terminal(o) => history[o] = Status(o)
    /\ Status(o) = "DROPPED" => history[o] \in Outcomes
    /\ ~Terminal(o) /\ Status(o) # "DROPPED" => history[o] = "NONE"

(* README.md: "Two operations that touch the same object share a lane and  *)
(* can never run concurrently."  CLAIM_SQL's blocked_lanes also holds the  *)
(* lane of a create that waits for its read-back.  With one claimer no     *)
(* interleaving of enqueues, claims, reaps and late calls lets a row run   *)
(* on a lane another row holds.                                            *)
LaneHeld ==
  \A o, p \in Ops :
    /\ SameLane(o, p)
    /\ Status(o) = "RUNNING"
    /\ Status(p) = "RUNNING" \/ (Status(p) = "AWAITING_READBACK" /\ ~operations[p].elapsed)
    => o = p

(* The claim query against what its comments ask of it, in every reachable *)
(* backlog and for every cap, limit and exclusion list: it takes no more   *)
(* than each cap allows, at most one row of a lane, never a batch row over *)
(* an interactive one of its instance, and, because it ranks after         *)
(* collapsing lanes, it leaves a leader behind only when a cap or the      *)
(* limit is used up.                                                       *)
ClaimFillsCaps ==
  \A limit \in 1..MaxCap, excluded \in SUBSET Lanes,
     available \in [Instances -> {a \in Availability : a.totalFree = 0 => a.batchFree = 0}] :
    LET chosen == Picked(limit, excluded, available)
        Of(i) == {o \in chosen : InstanceOf[o] = i}
        Batch(S) == {o \in S : PriorityOf[o] = "batch"}
        LeftOut == LaneLeaders(excluded, available) \ chosen
    IN /\ Cardinality(chosen) <= limit
       /\ \A i \in Instances :
            /\ Cardinality(Of(i)) <= available[i].totalFree
            /\ Cardinality(Batch(Of(i))) <= available[i].batchFree
       /\ \A o, p \in chosen : SameLane(o, p) => o = p
       /\ \A o \in LeftOut :
            LET i == InstanceOf[o]
            IN \/ Cardinality(chosen) = limit
               \/ Cardinality(Of(i)) = available[i].totalFree
               \/ PriorityOf[o] = "batch" /\ Cardinality(Batch(Of(i))) = available[i].batchFree
       /\ \A o \in LeftOut :
            PriorityOf[o] = "interactive" => Batch(Of(InstanceOf[o])) = {}

(* A client that polls an accepted operation sees pending until it sees    *)
(* one outcome, and that outcome for ever: OperationPromise's safety part. *)
PromiseKept == Promise!Safe

=============================================================================
