------------------------- MODULE PartitionMaintainer -------------------------
(***************************************************************************)
(* The daily partitions of the table `operations`, and the pass that keeps *)
(* them: PartitionMaintainer.ts over create_operations_partition and       *)
(* drop_operations_partition.  Every replica runs passes of its own.  A    *)
(* pass is one transaction, so what it creates and drops is seen at its    *)
(* COMMIT; but current_date is the day of its BEGIN, it may wait for the   *)
(* advisory lock past midnight, and between the count of a partition's     *)
(* live rows and its DROP other sessions go on writing.                    *)
(*                                                                         *)
(* Days are numbered.  Rows are the rows any session may insert; who       *)
(* inserts and ends them is the business of the modules that extend this   *)
(* one, which also says when a partition is locked.                        *)
(***************************************************************************)
EXTENDS Integers, FiniteSets

CONSTANTS
  Rows,           \* rows that may ever be inserted
  Replicas,       \* processes that run maintenance passes
  RetentionDays,  \* PARTITION_RETENTION_DAYS, a positive integer (wiring.ts:161)
  LookaheadDays,  \* days past today a partition is kept ready for, 1 by default
  MaxDay          \* bound on the days of a behaviour

ASSUME DaysPositive == RetentionDays \in Nat \ {0} /\ LookaheadDays \in Nat \ {0}
ASSUME MaxDayNatural == MaxDay \in Nat
ASSUME RowsFinite == IsFiniteSet(Rows)

Never == -1

VARIABLES
  today,       \* the database's date
  partitions,  \* the days that have a partition
  row,         \* row[x]: its status and the day of its created_at
  pass,        \* pass[r]: the maintenance transaction of replica r
  lastPass     \* the latest current_date of a pass that has committed, Never before the first

partitionVars == <<today, partitions, row, pass, lastPass>>

Live == {"PENDING", "RUNNING"}   \* NOT terminal; AWAITING_READBACK counts as PENDING everywhere here
RowStatuses == Live \cup {"NONE", "TERMINAL", "DROPPED"}
RowState == [status: RowStatuses, day: Nat]
Idle == [phase |-> "idle", day |-> 0, doomed |-> {}]
PassState == [phase: {"idle", "waiting", "counted"}, day: Nat, doomed: SUBSET Nat]

PartitionInit ==
  /\ today = 0
  /\ partitions = {}
  /\ row = [x \in Rows |-> [status |-> "NONE", day |-> 0]]
  /\ pass = [r \in Replicas |-> Idle]
  /\ lastPass = Never

InTable(x) == row[x].status \notin {"NONE", "DROPPED"}
HasLiveRows(d) == \E x \in Rows : row[x].status \in Live /\ row[x].day = d

-----------------------------------------------------------------------------
\* Mutated: the last day of the series is left out.
EnsuredFromShort(d) == d .. d + LookaheadDays - 1

\* Mutated: one day too many.
EnsuredFromLong(d) == d .. d + LookaheadDays + 1

\* generate_series(current_date, current_date + lookaheadDays).
EnsuredFrom(d) == d .. d + LookaheadDays

\* Mutated: the cut-off day itself counts as past retention.
ExpiredInclusive(d) == {p \in partitions : p <= d - RetentionDays}

\* The candidates: to_date(tablename) < current_date - retentionDays.
Expired(d) == {p \in partitions : p < d - RetentionDays}

\* runPass to its wait for the lock: BEGIN fixes current_date.
BeginPass(r) ==
  /\ pass[r].phase = "idle"
  /\ pass' = [pass EXCEPT ![r] = [phase |-> "waiting", day |-> today, doomed |-> {}]]
  /\ UNCHANGED <<today, partitions, row, lastPass>>

\* The lock is granted, partitions are created and every candidate's live rows are counted.
CountLiveRows(r) ==
  /\ pass[r].phase = "waiting"
  /\ \A q \in Replicas : pass[q].phase # "counted"
  /\ pass' = [pass EXCEPT ![r].phase = "counted",
                          ![r].doomed = {d \in Expired(pass[r].day) : ~HasLiveRows(d)}]
  /\ UNCHANGED <<today, partitions, row, lastPass>>

\* DDL on a partition locks the partitioned table itself, for as long as the pass's transaction lasts.
ChangesPartitions(r) == pass[r].doomed # {} \/ ~(EnsuredFrom(pass[r].day) \subseteq partitions)

\* The DROPs and the COMMIT.
CommitPass(r) ==
  /\ pass[r].phase = "counted"
  /\ partitions' = (partitions \cup EnsuredFrom(pass[r].day)) \ pass[r].doomed
  /\ row' = [x \in Rows |-> IF InTable(x) /\ row[x].day \in pass[r].doomed
                            THEN [row[x] EXCEPT !.status = "DROPPED"] ELSE row[x]]
  /\ lastPass' = IF pass[r].day > lastPass THEN pass[r].day ELSE lastPass
  /\ pass' = [pass EXCEPT ![r] = Idle]
  /\ UNCHANGED today

\* A statement fails, the lock times out or the process dies: ROLLBACK, logged, and the next interval tries again.
FailPass(r) ==
  /\ pass[r].phase # "idle"
  /\ pass' = [pass EXCEPT ![r] = Idle]
  /\ UNCHANGED <<today, partitions, row, lastPass>>

NextDay ==
  /\ today < MaxDay
  /\ today' = today + 1
  /\ UNCHANGED <<partitions, row, pass, lastPass>>

-----------------------------------------------------------------------------
\* Rows and passes keep their shape, and no partition is kept for a day nobody has reached the eve of.
PartitionTypeOK ==
  /\ today \in 0..MaxDay
  /\ partitions \subseteq 0 .. today + LookaheadDays
  /\ row \in [Rows -> RowState]
  /\ \A x \in Rows : InTable(x) => row[x].day \in partitions
  /\ pass \in [Replicas -> PassState]
  /\ \A r \in Replicas : pass[r].day <= today
  /\ lastPass \in Never..today

(* The ensure step is there so that no enqueue ever meets a day without a  *)
(* partition: one pass that commits today or on the days the lookahead     *)
(* spans is enough, whatever other passes fail, wait past midnight or      *)
(* commit late.                                                            *)
TodayCovered ==
  lastPass # Never /\ lastPass + LookaheadDays >= today => today \in partitions

(* A row still in flight is an operation the caller was promised an answer *)
(* for; no pass takes it away, whatever enters the partition after its     *)
(* live rows were counted.                                                 *)
NoLiveRowDropped ==
  [][\A x \in Rows : row[x].status \in Live => row'[x].status # "DROPPED"]_partitionVars

=============================================================================
