------------------------------ MODULE Admission ------------------------------
(***************************************************************************)
(* The way in: a request reads the backlog of its instance and priority    *)
(* class (admission.ts), then enqueues under its idempotency key           *)
(* (OperationStore.enqueue), over the partitions that the maintenance      *)
(* passes create and drop.  OperationStore.tla gives every operation a key *)
(* of its own and a partition that is there; here requests share keys -    *)
(* concurrent duplicates and a client's retries - and partitions come and  *)
(* go.  What dispatchers do to a row is reduced to what admission can see: *)
(* Claim, GoBack and Finish.                                               *)
(*                                                                         *)
(* A request stands for one HTTP call; a retry is another request of the   *)
(* same key.  The row a request inserts carries the request's name.        *)
(***************************************************************************)
EXTENDS PartitionMaintainer

CONSTANTS
  Keys, KeyOf,      \* idempotency keys, and the key of each request
  Classes, ClassOf, \* instance and priority class, and that of each request
  Cap,              \* the PENDING ceiling, of every class
  MaxInFlight,      \* bound on the requests of a class between their count and their commit
  MaxRunning        \* bound on the rows of a class that run at once: the replicas' budgets

Requests == Rows

ASSUME RequestsTyped == KeyOf \in [Requests -> Keys] /\ ClassOf \in [Requests -> Classes]
ASSUME CapsNatural == Cap \in Nat \ {0} /\ MaxInFlight \in Nat /\ MaxRunning \in Nat

VARIABLES
  phase,   \* phase[q]: how far the request has come
  began,   \* began[q]: the day its transaction began, its row's created_at
  answer   \* answer[q]: the row whose id the request has found or answers with; {} while there is none

requestVars == <<phase, began, answer>>
vars == <<partitionVars, requestVars>>

Phases == {"new", "admitted", "begun", "found", "inserted",
           "accepted", "refused", "failed"}
InTransaction == {"begun", "found", "inserted"}

Init ==
  /\ PartitionInit
  /\ phase = [q \in Requests |-> "new"]
  /\ began = [q \in Requests |-> 0]
  /\ answer = [q \in Requests |-> {}]

\* pendingCounts, for the class of a request.
Depth(c) == Cardinality({x \in Rows : row[x].status = "PENDING" /\ ClassOf[x] = c})
Running(c) == Cardinality({x \in Rows : row[x].status = "RUNNING" /\ ClassOf[x] = c})
InFlight(c) ==
  Cardinality({q \in Requests : phase[q] \in {"admitted"} \cup InTransaction /\ ClassOf[q] = c})

Moves(q, to) == phase' = [phase EXCEPT ![q] = to]

-----------------------------------------------------------------------------
\* Mutated: one more than the cap is admitted.
BacklogFullPastCap(c) == Depth(c) > Cap

BacklogFull(c) == Depth(c) >= Cap

\* admitAndEnqueue: the count, its answer and the decision.
CountBacklog(q) ==
  /\ phase[q] = "new"
  /\ InFlight(ClassOf[q]) < MaxInFlight
  /\ Moves(q, IF BacklogFull(ClassOf[q]) THEN "refused" ELSE "admitted")
  /\ UNCHANGED <<partitionVars, began, answer>>

\* enqueue to its wait for the key's lock: BEGIN fixes now().
BeginEnqueue(q) ==
  /\ phase[q] = "admitted"
  /\ Moves(q, "begun")
  /\ began' = [began EXCEPT ![q] = today]
  /\ UNCHANGED <<partitionVars, answer>>

HoldsKey(q) == phase[q] \in {"found", "inserted"}

\* Mutated: enqueue takes no lock.
LockFreeAlways(q) == TRUE

\* pg_advisory_xact_lock(key): no other transaction has it.
LockFree(q) == \A p \in Requests : KeyOf[p] = KeyOf[q] => ~HoldsKey(p)

\* Rows of the key that the lookup sees, the latest created_at first.
Prior(q) ==
  {x \in Rows : /\ InTable(x) /\ KeyOf[x] = KeyOf[q]
                /\ \A y \in Rows : InTable(y) /\ KeyOf[y] = KeyOf[q] => row[y].day <= row[x].day}

\* The lock is granted and the lookup finds a row: its id is the answer.
FindPrior(q) ==
  /\ phase[q] = "begun"
  /\ LockFree(q)
  /\ \E x \in Prior(q) : answer' = [answer EXCEPT ![q] = {x}]
  /\ Moves(q, "found")
  /\ UNCHANGED <<partitionVars, began>>

\* The lookup finds none and the INSERT goes to the partition of the day the transaction began.
InsertRow(q) ==
  /\ phase[q] = "begun"
  /\ LockFree(q)
  /\ Prior(q) = {}
  /\ began[q] \in partitions
  /\ Moves(q, "inserted")
  /\ UNCHANGED <<partitionVars, began, answer>>

\* COMMIT; the answer may be lost on its way (the 500, or the dead connection, of an accepted request).
CommitEnqueue(q, answered) ==
  /\ HoldsKey(q)
  /\ row' = IF phase[q] = "found" THEN row
            ELSE [row EXCEPT ![q] = [status |-> "PENDING", day |-> began[q]]]
  /\ answer' = [answer EXCEPT ![q] = CASE ~answered -> {}
                                       [] answered /\ phase[q] = "found" -> answer[q]
                                       [] answered /\ phase[q] = "inserted" -> {q}]
  /\ Moves(q, IF answered THEN "accepted" ELSE "failed")
  /\ UNCHANGED <<today, partitions, pass, lastPass, began>>

\* ROLLBACK: the partition is missing, a statement or the lock times out, the pool or the process is gone.
AbortEnqueue(q) ==
  /\ phase[q] \in {"admitted"} \cup InTransaction
  /\ Moves(q, "failed")
  /\ answer' = [answer EXCEPT ![q] = {}]
  /\ UNCHANGED <<partitionVars, began>>

-----------------------------------------------------------------------------
SetStatus(x, to) ==
  /\ row' = [row EXCEPT ![x].status = to]
  /\ UNCHANGED <<today, partitions, pass, lastPass, requestVars>>

\* claimBatch.
Claim(x) == row[x].status = "PENDING" /\ Running(ClassOf[x]) < MaxRunning /\ SetStatus(x, "RUNNING")
\* requeue, deferForReadback and reapStale.
GoBack(x) == row[x].status = "RUNNING" /\ SetStatus(x, "PENDING")
\* finalize.
Finish(x) == row[x].status \in Live /\ SetStatus(x, "TERMINAL")

\* An open transaction that has read or written the table keeps a pass from changing its partitions.
PassCommits(r) ==
  /\ ChangesPartitions(r) => \A q \in Requests : ~HoldsKey(q)
  /\ CommitPass(r)
  /\ UNCHANGED requestVars

\* statement_timeout ends every wait, so an enqueue's transaction meets one midnight at most.
Midnight ==
  /\ \A q \in Requests : phase[q] \in InTransaction => began[q] = today
  /\ NextDay
  /\ UNCHANGED requestVars

MaintenanceNext ==
  \/ Midnight
  \/ \E r \in Replicas : \/ PassCommits(r)
                         \/ (BeginPass(r) \/ CountLiveRows(r) \/ FailPass(r)) /\ UNCHANGED requestVars

Next ==
  \/ \E q \in Requests :
       \/ CountBacklog(q) \/ BeginEnqueue(q) \/ FindPrior(q) \/ InsertRow(q) \/ AbortEnqueue(q)
       \/ \E answered \in BOOLEAN : CommitEnqueue(q, answered)
       \/ Claim(q) \/ GoBack(q) \/ Finish(q)
  \/ MaintenanceNext

Spec == Init /\ [][Next]_vars

-----------------------------------------------------------------------------
\* Requests keep their shape; who holds the id of a row it did not insert found it under its own key.
TypeOK ==
  /\ PartitionTypeOK
  /\ phase \in [Requests -> Phases]
  /\ began \in [Requests -> 0..MaxDay]
  /\ answer \in [Requests -> SUBSET Rows]
  /\ \A q \in Requests : \A x \in answer[q] : KeyOf[x] = KeyOf[q] /\ row[x].status # "NONE"

(* enqueue answers a repeated key with the operation it already made.  The *)
(* lookup sees the hot table only, so a key is remembered for as long as   *)
(* its row's partition stays: two operations under one key lie at least    *)
(* the retention apart, however requests, midnights and passes interleave. *)
KeyRemembered ==
  \A x, y \in Rows :
    /\ x # y /\ KeyOf[x] = KeyOf[y]
    /\ row[x].status # "NONE" /\ row[y].status # "NONE"
    /\ row[x].day <= row[y].day
    => row[x].day + RetentionDays <= row[y].day

(* The cap is checked in one statement and the row inserted in another, so *)
(* the backlog can overshoot it (admission.ts calls that deliberate): by   *)
(* no more than the requests that were in flight and the rows that were    *)
(* running when it filled.                                                 *)
OvershootBounded ==
  \A c \in Classes : Depth(c) + Running(c) + InFlight(c) <= Cap - 1 + MaxInFlight + MaxRunning

=============================================================================
