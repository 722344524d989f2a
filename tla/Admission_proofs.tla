-------------------------- MODULE Admission_proofs --------------------------
(***************************************************************************)
(* The way in and the partitions, for every set of requests, keys, classes *)
(* and replicas, every retention, lookahead and cap, and any number of     *)
(* days.                                                                   *)
(***************************************************************************)
EXTENDS Admission, FiniteSetTheorems, WellFoundedInduction, TLAPS

(***************************************************************************)
(* What a partition on its way out can no longer meet.  A request's        *)
(* transaction began today or yesterday; a pass dooms days past retention  *)
(* that it found without live rows; a row is inserted where a partition    *)
(* is, by the one request that bears its name.                             *)
(***************************************************************************)
Fresh == \A q \in Requests : phase[q] \in InTransaction => began[q] <= today /\ today <= began[q] + 1

Placed == \A q \in Requests : phase[q] = "inserted" => began[q] \in partitions

Unborn == \A q \in Requests : row[q].status # "NONE" => phase[q] \in {"accepted", "failed"}

DoomedEmpty ==
  \A r \in Replicas : \A d \in pass[r].doomed : d < pass[r].day - RetentionDays /\ ~HasLiveRows(d)

AdmissionInv == TypeOK /\ Fresh /\ Placed /\ Unborn /\ DoomedEmpty

LEMMA AdmissionInvInit == Init => AdmissionInv
<1> SUFFICES ASSUME Init PROVE AdmissionInv
  OBVIOUS
<1> USE DEF Init, PartitionInit
<1>1. PartitionTypeOK
  BY DaysPositive, MaxDayNatural DEF PartitionTypeOK, RowState, RowStatuses, InTable, Idle, PassState, Never
<1>2. TypeOK
  BY <1>1, MaxDayNatural DEF TypeOK, Phases
<1> QED
  BY <1>2 DEF AdmissionInv, Fresh, Placed, Unborn, DoomedEmpty, InTransaction, Idle, Requests

(* A request's own steps touch nothing of the partitions and the passes.   *)
LEMMA RequestSteps ==
  ASSUME AdmissionInv, NEW q \in Requests,
         \/ CountBacklog(q) \/ BeginEnqueue(q) \/ FindPrior(q) \/ InsertRow(q) \/ AbortEnqueue(q)
         \/ \E answered \in BOOLEAN : CommitEnqueue(q, answered)
  PROVE  AdmissionInv'
<1> USE DEF Requests
<1>1. /\ phase \in [Requests -> Phases] /\ began \in [Requests -> 0..MaxDay]
      /\ answer \in [Requests -> SUBSET Rows] /\ row \in [Rows -> RowState]
      /\ today \in 0..MaxDay /\ MaxDay \in Nat
  BY MaxDayNatural DEF AdmissionInv, TypeOK, PartitionTypeOK
<1>2. UNCHANGED <<today, partitions, pass, lastPass>>
  BY DEF CountBacklog, BeginEnqueue, FindPrior, InsertRow, AbortEnqueue, CommitEnqueue, partitionVars
<1>3. PartitionTypeOK /\ Unborn /\ Fresh /\ Placed /\ DoomedEmpty
  BY DEF AdmissionInv, TypeOK
<1>4. \A x \in Requests : \A y \in answer[x] : KeyOf[y] = KeyOf[x] /\ row[y].status # "NONE"
  BY DEF AdmissionInv, TypeOK
<1>5. CASE UNCHANGED row
  <2>1. PartitionTypeOK' /\ DoomedEmpty'
    BY <1>2, <1>3, <1>5 DEF PartitionTypeOK, DoomedEmpty, InTable, HasLiveRows
  <2>2. CASE CountBacklog(q)
    BY <1>1, <1>2, <1>3, <1>4, <1>5, <2>1, <2>2
       DEF CountBacklog, Moves, AdmissionInv, TypeOK, Fresh, Placed, Unborn, InTransaction, Phases
  <2>3. CASE BeginEnqueue(q)
    BY <1>1, <1>2, <1>3, <1>4, <1>5, <2>1, <2>3
       DEF BeginEnqueue, Moves, AdmissionInv, TypeOK, Fresh, Placed, Unborn, InTransaction, Phases
  <2>4. CASE FindPrior(q)
    BY <1>1, <1>2, <1>3, <1>4, <1>5, <2>1, <2>4
       DEF FindPrior, Moves, AdmissionInv, TypeOK, Fresh, Placed, Unborn, InTransaction, Phases, Prior, InTable
  <2>5. CASE InsertRow(q)
    BY <1>1, <1>2, <1>3, <1>4, <1>5, <2>1, <2>5
       DEF InsertRow, Moves, AdmissionInv, TypeOK, Fresh, Placed, Unborn, InTransaction, Phases
  <2>6. CASE AbortEnqueue(q)
    BY <1>1, <1>2, <1>3, <1>4, <1>5, <2>1, <2>6
       DEF AbortEnqueue, Moves, AdmissionInv, TypeOK, Fresh, Placed, Unborn, InTransaction, Phases
  <2>7. ASSUME NEW answered \in BOOLEAN, CommitEnqueue(q, answered) PROVE AdmissionInv'
    <3>1. phase[q] \in {"found", "inserted"} /\ phase' = [phase EXCEPT ![q] = IF answered THEN "accepted" ELSE "failed"]
          /\ UNCHANGED began
      BY <2>7 DEF CommitEnqueue, Moves, HoldsKey
    <3>2. phase[q] = "found"
      <4>1. SUFFICES ASSUME phase[q] = "inserted" PROVE FALSE
        BY <3>1
      <4>2. row'[q].status = "PENDING"
        BY <1>1, <2>7, <4>1 DEF CommitEnqueue
      <4> QED
        BY <1>3, <1>5, <4>1, <4>2 DEF Unborn
    <3>3. answer' = [answer EXCEPT ![q] = IF answered THEN answer[q] ELSE {}]
      BY <1>1, <2>7, <3>2 DEF CommitEnqueue
    <3> QED
      BY <1>1, <1>2, <1>3, <1>4, <1>5, <2>1, <3>1, <3>2, <3>3
         DEF AdmissionInv, TypeOK, Fresh, Placed, Unborn, InTransaction, Phases
  <2> QED
    BY <2>2, <2>3, <2>4, <2>5, <2>6, <2>7
<1>6. ASSUME NEW answered \in BOOLEAN, CommitEnqueue(q, answered), phase[q] = "inserted" PROVE AdmissionInv'
  <2>1. /\ phase' = [phase EXCEPT ![q] = IF answered THEN "accepted" ELSE "failed"]
        /\ row' = [row EXCEPT ![q] = [status |-> "PENDING", day |-> began[q]]]
        /\ answer' = [answer EXCEPT ![q] = IF answered THEN {q} ELSE {}]
        /\ UNCHANGED began
    BY <1>1, <1>6 DEF CommitEnqueue, Moves
  <2>2. began[q] \in partitions /\ began[q] + 1 >= today /\ began[q] \in Nat
    BY <1>1, <1>3, <1>6 DEF Fresh, Placed, InTransaction
  <2>3. PartitionTypeOK'
    <3>1. row' \in [Rows -> RowState]
      BY <1>1, <2>1, <2>2 DEF RowState, RowStatuses, Live
    <3>2. \A x \in Rows : InTable(x)' => row'[x].day \in partitions
      BY <1>1, <1>3, <2>1, <2>2 DEF PartitionTypeOK, InTable
    <3> QED
      BY <1>2, <1>3, <3>1, <3>2 DEF PartitionTypeOK
  <2>4. DoomedEmpty'
    <3> SUFFICES ASSUME NEW r \in Replicas, NEW d \in pass[r].doomed
                 PROVE  d < pass[r].day - RetentionDays /\ ~HasLiveRows(d)'
      BY <1>2 DEF DoomedEmpty
    <3>1. d < pass[r].day - RetentionDays /\ ~HasLiveRows(d) /\ pass[r].day <= today
      BY <1>3 DEF DoomedEmpty, PartitionTypeOK
    <3>2. d # began[q]
      <4>1. d \in Nat /\ pass[r].day \in Nat
        BY <1>3 DEF PartitionTypeOK, PassState
      <4> QED
        BY <1>1, <2>2, <3>1, <4>1, DaysPositive
    <3> QED
      BY <1>1, <2>1, <3>1, <3>2 DEF HasLiveRows
  <2>5. /\ phase' \in [Requests -> Phases] /\ answer' \in [Requests -> SUBSET Rows]
        /\ \A x \in Requests : \A y \in answer'[x] : KeyOf[y] = KeyOf[x] /\ row'[y].status # "NONE"
    BY <1>1, <1>4, <2>1 DEF Phases
  <2>6. Fresh' /\ Placed' /\ Unborn'
    BY <1>1, <1>2, <1>3, <2>1 DEF Fresh, Placed, Unborn, InTransaction
  <2> QED
    BY <1>1, <2>1, <2>3, <2>4, <2>5, <2>6 DEF AdmissionInv, TypeOK
<1> QED
  <2>1. ASSUME NEW answered \in BOOLEAN, CommitEnqueue(q, answered) PROVE UNCHANGED row \/ phase[q] = "inserted"
    BY <2>1 DEF CommitEnqueue, HoldsKey
  <2>2. UNCHANGED row \/ \E answered \in BOOLEAN : CommitEnqueue(q, answered)
    BY DEF CountBacklog, BeginEnqueue, FindPrior, InsertRow, AbortEnqueue, partitionVars
  <2> QED
    BY <1>5, <1>6, <2>1, <2>2

(* What dispatchers do to a row keeps its day and makes no new row live.   *)
LEMMA StatusSteps ==
  ASSUME AdmissionInv, NEW x \in Rows, Claim(x) \/ GoBack(x) \/ Finish(x)
  PROVE  AdmissionInv'
<1>1. PICK to \in {"RUNNING", "PENDING", "TERMINAL"} :
         row[x].status \in Live /\ row' = [row EXCEPT ![x].status = to]
  BY DEF Claim, GoBack, Finish, SetStatus, Live
<1>2. UNCHANGED <<today, partitions, pass, lastPass, requestVars>>
  BY DEF Claim, GoBack, Finish, SetStatus
<1>3. PartitionTypeOK /\ row \in [Rows -> RowState]
  BY DEF AdmissionInv, TypeOK, PartitionTypeOK
<1>4. /\ row' \in [Rows -> RowState]
      /\ \A y \in Rows : row'[y].day = row[y].day /\ (InTable(y)' <=> InTable(y))
                           /\ (row'[y].status = "NONE" <=> row[y].status = "NONE")
                           /\ (row'[y].status \in Live => row[y].status \in Live)
  BY <1>1, <1>3 DEF RowState, RowStatuses, Live, InTable
<1>5. PartitionTypeOK' /\ DoomedEmpty'
  BY <1>2, <1>3, <1>4 DEF PartitionTypeOK, DoomedEmpty, HasLiveRows, AdmissionInv
<1>6. TypeOK'
  BY <1>2, <1>4, <1>5 DEF AdmissionInv, TypeOK, requestVars
<1> QED
  BY <1>2, <1>4, <1>5, <1>6 DEF AdmissionInv, Fresh, Placed, Unborn, requestVars, Requests

(* A pass that commits drops days on which no row is in flight and none    *)
(* can be inserted any more.                                               *)
LEMMA CommitPassStep ==
  ASSUME AdmissionInv, NEW r \in Replicas, PassCommits(r)
  PROVE  /\ AdmissionInv'
         /\ \A x \in Rows : row'[x].day = row[x].day
         /\ \A x \in Rows : row'[x] # row[x] => /\ row[x].status = "TERMINAL" /\ row'[x].status = "DROPPED"
                                                /\ row[x].day < today - RetentionDays
<1>1. /\ partitions' = (partitions \cup EnsuredFrom(pass[r].day)) \ pass[r].doomed
      /\ row' = [x \in Rows |-> IF InTable(x) /\ row[x].day \in pass[r].doomed
                                THEN [row[x] EXCEPT !.status = "DROPPED"] ELSE row[x]]
      /\ lastPass' = IF pass[r].day > lastPass THEN pass[r].day ELSE lastPass
      /\ pass' = [pass EXCEPT ![r] = Idle]
      /\ UNCHANGED <<today, requestVars>>
  BY DEF PassCommits, CommitPass
<1>2. /\ PartitionTypeOK /\ row \in [Rows -> RowState] /\ pass \in [Replicas -> PassState]
      /\ pass[r].day \in Nat /\ pass[r].day <= today /\ today \in 0..MaxDay /\ pass[r].doomed \subseteq Nat
      /\ MaxDay \in Nat
  BY MaxDayNatural DEF AdmissionInv, TypeOK, PartitionTypeOK, PassState
<1>3. \A d \in pass[r].doomed : d < today - RetentionDays /\ ~HasLiveRows(d)
  BY <1>2, DaysPositive DEF AdmissionInv, DoomedEmpty
<1>4. ASSUME NEW x \in Rows, InTable(x), row[x].day \in pass[r].doomed
      PROVE  row[x].status = "TERMINAL" /\ row'[x] = [status |-> "DROPPED", day |-> row[x].day]
  <2>1. row[x].status = "TERMINAL"
    BY <1>2, <1>3, <1>4 DEF HasLiveRows, InTable, RowState, RowStatuses
  <2> QED
    BY <1>1, <1>2, <1>4, <2>1 DEF RowState
<1>5. ASSUME NEW x \in Rows
      PROVE  /\ row'[x] \in RowState /\ row'[x].day = row[x].day
             /\ (row'[x].status = "NONE") <=> (row[x].status = "NONE")
             /\ (row'[x].status \in Live) => (row[x].status \in Live)
             /\ (row'[x].status \notin {"NONE", "DROPPED"}) => (InTable(x) /\ row[x].day \notin pass[r].doomed)
  <2>1. CASE InTable(x) /\ row[x].day \in pass[r].doomed
    <3>1. row[x].status = "TERMINAL" /\ row'[x] = [status |-> "DROPPED", day |-> row[x].day]
      BY <1>4, <2>1
    <3>2. row[x].day \in Nat
      BY <1>2 DEF RowState
    <3> QED
      BY <3>1, <3>2 DEF RowState, RowStatuses, Live
  <2>2. CASE ~(InTable(x) /\ row[x].day \in pass[r].doomed)
    <3>1. row'[x] = row[x]
      BY <1>1, <2>2
    <3> QED
      BY <1>2, <2>2, <3>1 DEF InTable
  <2> QED
    BY <2>1, <2>2
<1>5a. row' \in [Rows -> RowState]
  <2>1. \A x \in Rows : row'[x] \in RowState
    BY <1>5
  <2> QED
    BY <1>1, <2>1
<1>5b. \A x \in Rows : row'[x].day = row[x].day
  BY <1>5
<1>5c. \A x \in Rows : row'[x].status = "NONE" => row[x].status = "NONE"
  BY <1>5
<1>5d. \A x \in Rows : row[x].status = "NONE" => row'[x].status = "NONE"
  BY <1>5
<1>6. PartitionTypeOK'
  <2>1. pass' \in [Replicas -> PassState] /\ \A q \in Replicas : pass'[q].day <= today
    BY <1>1, <1>2 DEF PassState, Idle, PartitionTypeOK
  <2>2. partitions' \subseteq 0 .. today + LookaheadDays
    BY <1>1, <1>2, DaysPositive DEF PartitionTypeOK, EnsuredFrom
  <2>3. lastPass' \in Never..today
    BY <1>1, <1>2 DEF PartitionTypeOK, Never
  <2>4. ASSUME NEW x \in Rows, InTable(x)' PROVE row'[x].day \in partitions'
    <3>1. InTable(x) /\ row[x].day \notin pass[r].doomed /\ row'[x].day = row[x].day
      <4>1. row'[x].status \notin {"NONE", "DROPPED"}
        BY <2>4 DEF InTable
      <4> QED
        BY <1>5, <4>1
    <3> QED
      BY <1>1, <1>2, <3>1 DEF PartitionTypeOK
  <2> QED
    BY <1>1, <1>2, <1>5a, <2>1, <2>2, <2>3, <2>4 DEF PartitionTypeOK
<1>7. DoomedEmpty'
  <2>1. \A q \in Replicas : pass'[q].doomed = {} \/ pass'[q] = pass[q]
    BY <1>1, <1>2 DEF Idle
  <2>2. \A d \in Nat : HasLiveRows(d)' => HasLiveRows(d)
    <3> SUFFICES ASSUME NEW d \in Nat, NEW x \in Rows, row'[x].status \in Live, row'[x].day = d
                 PROVE  HasLiveRows(d)
      BY DEF HasLiveRows
    <3>1. row[x].status \in Live /\ row[x].day = d
      BY <1>5
    <3> QED
      BY <3>1 DEF HasLiveRows
  <2> QED
    BY <1>1, <1>2, <2>1, <2>2 DEF AdmissionInv, DoomedEmpty, PassState
<1>8. Placed'
  <2> SUFFICES ASSUME NEW q \in Requests, phase[q] = "inserted" PROVE began[q] \in partitions'
    BY <1>1 DEF Placed, requestVars
  <2>1. pass[r].doomed = {}
    BY DEF PassCommits, ChangesPartitions, HoldsKey
  <2> QED
    BY <1>1, <2>1 DEF AdmissionInv, Placed
<1>9. TypeOK'
  BY <1>1, <1>5c, <1>6 DEF AdmissionInv, TypeOK, requestVars
<1>10. AdmissionInv'
  <2>1. Unborn' /\ Fresh'
    BY <1>1, <1>5c, <1>5d DEF AdmissionInv, Fresh, Unborn, requestVars, Requests
  <2> QED
    BY <1>7, <1>8, <1>9, <2>1 DEF AdmissionInv
<1>11. ASSUME NEW x \in Rows, row'[x] # row[x]
       PROVE  /\ row[x].status = "TERMINAL" /\ row'[x].status = "DROPPED"
              /\ row[x].day < today - RetentionDays
  <2>1. InTable(x) /\ row[x].day \in pass[r].doomed
    BY <1>1, <1>11
  <2>2. row[x].day \in pass[r].doomed /\ row[x].day < today - RetentionDays
    BY <1>3, <2>1
  <2>3. row[x].status = "TERMINAL" /\ row'[x] = [status |-> "DROPPED", day |-> row[x].day]
    BY <1>4, <2>1
  <2> QED
    BY <2>2, <2>3
<1> QED
  BY <1>5b, <1>10, <1>11

\* s may stand for a pass: what it dooms is past retention and without live rows.
SoundPass(s) ==
  s \in PassState /\ s.day <= today /\ \A d \in s.doomed : d < s.day - RetentionDays /\ ~HasLiveRows(d)

LEMMA OtherMaintenance ==
  ASSUME AdmissionInv,
         \/ Midnight
         \/ \E r \in Replicas : (BeginPass(r) \/ CountLiveRows(r) \/ FailPass(r)) /\ UNCHANGED requestVars
  PROVE  AdmissionInv'
<1>1. /\ PartitionTypeOK /\ pass \in [Replicas -> PassState] /\ today \in 0..MaxDay /\ MaxDay \in Nat
      /\ partitions \subseteq 0 .. today + LookaheadDays /\ lastPass \in Never..today
      /\ TypeOK /\ Fresh /\ Placed /\ Unborn /\ DoomedEmpty
  BY MaxDayNatural DEF AdmissionInv, TypeOK, PartitionTypeOK
<1>2. UNCHANGED <<partitions, row, lastPass, requestVars>>
  BY DEF Midnight, NextDay, BeginPass, CountLiveRows, FailPass
<1>3. CASE Midnight
  <2>1. today' = today + 1 /\ today < MaxDay /\ UNCHANGED pass
        /\ \A q \in Requests : phase[q] \in InTransaction => began[q] = today
    BY <1>3 DEF Midnight, NextDay
  <2>2. PartitionTypeOK'
    <3>1. today' \in 0..MaxDay /\ partitions' \subseteq 0 .. today' + LookaheadDays /\ lastPass' \in Never..today'
      BY <1>1, <1>2, <2>1, DaysPositive DEF Never
    <3>2. \A r \in Replicas : pass'[r].day <= today'
      BY <1>1, <2>1 DEF PartitionTypeOK, PassState
    <3> QED
      BY <1>1, <1>2, <2>1, <3>1, <3>2 DEF PartitionTypeOK, InTable
  <2>3. TypeOK'
    BY <1>1, <1>2, <2>2 DEF TypeOK, requestVars
  <2>4. Fresh' /\ Placed' /\ Unborn' /\ DoomedEmpty'
    BY <1>1, <1>2, <2>1 DEF Fresh, Placed, Unborn, DoomedEmpty, HasLiveRows, requestVars, Requests
  <2> QED
    BY <2>3, <2>4 DEF AdmissionInv
<1>4. ASSUME NEW r \in Replicas, BeginPass(r) \/ CountLiveRows(r) \/ FailPass(r) PROVE AdmissionInv'
  <2>1. UNCHANGED today
    BY <1>4 DEF BeginPass, CountLiveRows, FailPass
  <2>2. PICK s : SoundPass(s) /\ pass' = [pass EXCEPT ![r] = s]
    <3>1. CASE BeginPass(r)
      <4>1. SoundPass([phase |-> "waiting", day |-> today, doomed |-> {}])
        BY <1>1 DEF SoundPass, PassState
      <4> QED
        BY <3>1, <4>1 DEF BeginPass
    <3>2. CASE FailPass(r)
      <4>1. SoundPass(Idle)
        BY <1>1 DEF SoundPass, PassState, Idle
      <4> QED
        BY <3>2, <4>1 DEF FailPass
    <3>3. CASE CountLiveRows(r)
      <4> DEFINE empty == {d \in Expired(pass[r].day) : ~HasLiveRows(d)}
      <4>1. pass[r] \in PassState /\ pass[r].day \in Nat /\ pass[r].day <= today
        BY <1>1 DEF PartitionTypeOK, PassState
      <4>2. /\ empty \subseteq Nat
            /\ \A d \in empty : d < pass[r].day - RetentionDays /\ ~HasLiveRows(d)
        <5>1. partitions \subseteq Nat
          BY <1>1, DaysPositive
        <5> QED
          BY <5>1, <4>1, DaysPositive DEF Expired
      <4>3. pass' = [pass EXCEPT ![r] = [pass[r] EXCEPT !.phase = "counted", !.doomed = empty]]
        BY <1>1, <3>3 DEF CountLiveRows
      <4> HIDE DEF empty
      <4>4. ASSUME NEW s \in PassState, NEW e \in SUBSET Nat
            PROVE  /\ [s EXCEPT !.phase = "counted", !.doomed = e] \in PassState
                   /\ [s EXCEPT !.phase = "counted", !.doomed = e].day = s.day
                   /\ [s EXCEPT !.phase = "counted", !.doomed = e].doomed = e
        BY DEF PassState
      <4> DEFINE s == [pass[r] EXCEPT !.phase = "counted", !.doomed = empty]
      <4>5. s \in PassState /\ s.day = pass[r].day /\ s.doomed = empty /\ pass' = [pass EXCEPT ![r] = s]
        BY <4>1, <4>2, <4>3, <4>4
      <4> HIDE DEF s
      <4>6. SoundPass(s)
        BY <4>1, <4>2, <4>5 DEF SoundPass
      <4> QED
        BY <4>5, <4>6
    <3> QED
      BY <1>4, <3>1, <3>2, <3>3
  <2>3. pass' \in [Replicas -> PassState] /\ \A q \in Replicas : pass'[q].day <= today
    BY <1>1, <2>2 DEF PartitionTypeOK, SoundPass
  <2>4. PartitionTypeOK'
    BY <1>1, <1>2, <2>1, <2>3 DEF PartitionTypeOK, InTable
  <2>5. DoomedEmpty'
    BY <1>1, <1>2, <2>2 DEF DoomedEmpty, HasLiveRows, SoundPass
  <2> QED
    BY <1>1, <1>2, <2>1, <2>4, <2>5 DEF AdmissionInv, TypeOK, Fresh, Placed, Unborn, requestVars, Requests
<1> QED
  BY <1>3, <1>4

LEMMA AdmissionInvStep ==
  ASSUME AdmissionInv, [Next]_vars
  PROVE  AdmissionInv'
<1>1. CASE UNCHANGED vars
  BY <1>1 DEF vars, partitionVars, requestVars, AdmissionInv, TypeOK, PartitionTypeOK, InTable,
              Fresh, Placed, Unborn, DoomedEmpty, HasLiveRows, Requests
<1>2. CASE Next
  BY <1>2, RequestSteps, StatusSteps, CommitPassStep, OtherMaintenance DEF Next, MaintenanceNext, Requests
<1> QED
  BY <1>1, <1>2

LEMMA AlwaysAdmissionInv == Spec => []AdmissionInv
<1> QED
  BY AdmissionInvInit, AdmissionInvStep, PTL DEF Spec

(* Requests, rows, partitions and passes keep their shape (schema.sql,     *)
(* PartitionMaintainer.ts, admission.ts); in particular a row in the table *)
(* lies in a partition that is there.                                      *)
THEOREM AdmissionTyping == Spec => []TypeOK
<1>1. AdmissionInv => TypeOK
  BY DEF AdmissionInv
<1> QED
  BY <1>1, AlwaysAdmissionInv, PTL

(* PartitionMaintainer.runPass: no row still in flight goes with its       *)
(* partition, whatever is inserted or reaped between the count and the     *)
(* DROP.                                                                   *)
THEOREM LiveRowsStay == Spec => NoLiveRowDropped
<1>1. ASSUME AdmissionInv, [Next]_vars
      PROVE  [\A x \in Rows : row[x].status \in Live => row'[x].status # "DROPPED"]_partitionVars
  <2> SUFFICES ASSUME NEW x \in Rows, row[x].status \in Live PROVE row'[x].status # "DROPPED"
    OBVIOUS
  <2>1. row \in [Rows -> RowState]
    BY <1>1 DEF AdmissionInv, TypeOK, PartitionTypeOK
  <2>2. ASSUME NEW r \in Replicas, PassCommits(r) PROVE row'[x].status # "DROPPED"
    BY <1>1, <2>2, CommitPassStep DEF Live
  <2>3. ASSUME NEW q \in Rows, NEW answered \in BOOLEAN, CommitEnqueue(q, answered) PROVE row'[x].status # "DROPPED"
    BY <2>1, <2>3 DEF CommitEnqueue, Live
  <2>4. ASSUME NEW q \in Rows, Claim(q) \/ GoBack(q) \/ Finish(q) PROVE row'[x].status # "DROPPED"
    <3>1. PICK to \in {"RUNNING", "PENDING", "TERMINAL"} : row' = [row EXCEPT ![q].status = to]
      BY <2>4 DEF Claim, GoBack, Finish, SetStatus
    <3> QED
      BY <2>1, <3>1 DEF Live, RowState
  <2>5. ASSUME UNCHANGED row PROVE row'[x].status # "DROPPED"
    BY <2>5 DEF Live
  <2> QED
    BY <1>1, <2>2, <2>3, <2>4, <2>5
       DEF Next, MaintenanceNext, Requests, vars, partitionVars, CountBacklog, BeginEnqueue, FindPrior,
           InsertRow, AbortEnqueue, Midnight, NextDay, BeginPass, CountLiveRows, FailPass
<1> QED
  BY <1>1, AlwaysAdmissionInv, PTL DEF Spec, NoLiveRowDropped

-----------------------------------------------------------------------------
(***************************************************************************)
(* The partitions kept ahead of the days.                                  *)
(***************************************************************************)

\* Every day the latest pass looked ahead to has its partition, from today on.
KeptAhead ==
  lastPass # Never => \A d \in lastPass .. lastPass + LookaheadDays : d >= today => d \in partitions

LEMMA KeptAheadStep ==
  ASSUME AdmissionInv, KeptAhead, [Next]_vars
  PROVE  KeptAhead'
<1>1. /\ today \in 0..MaxDay /\ MaxDay \in Nat /\ lastPass \in Never..today
      /\ pass \in [Replicas -> PassState]
  BY MaxDayNatural DEF AdmissionInv, TypeOK, PartitionTypeOK
<1>2. ASSUME UNCHANGED <<partitions, lastPass>>, today' = today \/ today' = today + 1 PROVE KeptAhead'
  BY <1>1, <1>2 DEF KeptAhead
<1>3. ASSUME NEW r \in Replicas, PassCommits(r) PROVE KeptAhead'
  <2>1. /\ partitions' = (partitions \cup EnsuredFrom(pass[r].day)) \ pass[r].doomed
        /\ lastPass' = IF pass[r].day > lastPass THEN pass[r].day ELSE lastPass
        /\ UNCHANGED today
    BY <1>3 DEF PassCommits, CommitPass
  <2>2. pass[r].day \in Nat /\ pass[r].day <= today
    BY <1>1 DEF AdmissionInv, TypeOK, PartitionTypeOK, PassState
  <2>3. \A d \in pass[r].doomed : d < today
    <3>1. \A d \in pass[r].doomed : d \in Nat /\ d < pass[r].day - RetentionDays
      BY <1>1 DEF AdmissionInv, DoomedEmpty, PassState
    <3> QED
      BY <1>1, <2>2, <3>1, DaysPositive
  <2> SUFFICES ASSUME NEW d \in lastPass' .. lastPass' + LookaheadDays, d >= today
               PROVE  d \in partitions'
    BY <2>1 DEF KeptAhead
  <2>4. d \notin pass[r].doomed
    BY <1>1, <2>1, <2>2, <2>3, DaysPositive DEF Never
  <2>5. d \in partitions \cup EnsuredFrom(pass[r].day)
    BY <1>1, <2>1, <2>2, DaysPositive DEF KeptAhead, EnsuredFrom, Never
  <2> QED
    BY <2>1, <2>4, <2>5
<1>4. (\E r \in Replicas : PassCommits(r)) \/ (UNCHANGED <<partitions, lastPass>> /\ (today' = today \/ today' = today + 1))
  BY DEF Next, MaintenanceNext, Requests, vars, partitionVars, CountBacklog, BeginEnqueue, FindPrior,
         InsertRow, CommitEnqueue, AbortEnqueue, Claim, GoBack, Finish, SetStatus, Midnight, NextDay,
         BeginPass, CountLiveRows, FailPass
<1> QED
  BY <1>2, <1>3, <1>4

(* PartitionMaintainer.ensurePartitions: while the latest pass that has    *)
(* committed still looks ahead to today, today has its partition, whatever *)
(* other passes fail, wait past midnight or commit late.                   *)
THEOREM TodayStaysCovered == Spec => []TodayCovered
<1>1. Init => KeptAhead
  BY DEF Init, PartitionInit, KeptAhead
<1>2. AdmissionInv /\ KeptAhead => TodayCovered
  BY MaxDayNatural, DaysPositive DEF AdmissionInv, TypeOK, PartitionTypeOK, KeptAhead, TodayCovered, Never
<1> QED
  BY <1>1, <1>2, KeptAheadStep, AlwaysAdmissionInv, PTL DEF Spec

-----------------------------------------------------------------------------
(***************************************************************************)
(* What a step may do to a row, and who comes to hold a key.               *)
(***************************************************************************)

\* The row of a request is there from its COMMIT on.
Appears(x) ==
  /\ phase[x] = "inserted" /\ row[x].status = "NONE"
  /\ row'[x] = [status |-> "PENDING", day |-> began[x]]
  /\ phase'[x] \notin {"admitted"} \cup InTransaction

\* A row in flight goes its way.
Progresses(x) ==
  row[x].status \in Live /\ row'[x].status \in Live \cup {"TERMINAL"} /\ row'[x].day = row[x].day

\* A terminal row goes with its partition.
Goes(x) ==
  /\ row[x].status = "TERMINAL" /\ row'[x].status = "DROPPED"
  /\ row'[x].day = row[x].day /\ row[x].day < today - RetentionDays

LEMMA RowSteps ==
  ASSUME AdmissionInv, [Next]_vars, NEW x \in Rows
  PROVE  row'[x] = row[x] \/ Appears(x) \/ Progresses(x) \/ Goes(x)
<1>1. row \in [Rows -> RowState] /\ phase \in [Rows -> Phases]
  BY DEF AdmissionInv, TypeOK, PartitionTypeOK, Requests
<1>2. ASSUME NEW r \in Replicas, PassCommits(r) PROVE row'[x] = row[x] \/ Goes(x)
  BY <1>2, CommitPassStep DEF Goes
<1>3. ASSUME NEW q \in Rows, Claim(q) \/ GoBack(q) \/ Finish(q) PROVE row'[x] = row[x] \/ Progresses(x)
  <2>1. PICK to \in {"RUNNING", "PENDING", "TERMINAL"} :
           row[q].status \in Live /\ row' = [row EXCEPT ![q].status = to]
    BY <1>3 DEF Claim, GoBack, Finish, SetStatus, Live
  <2> QED
    BY <1>1, <2>1 DEF Progresses, Live, RowState
<1>4. ASSUME NEW q \in Rows, NEW answered \in BOOLEAN, CommitEnqueue(q, answered)
      PROVE  row'[x] = row[x] \/ Appears(x)
  <2>1. phase'[q] \notin {"admitted"} \cup InTransaction
    BY <1>1, <1>4 DEF CommitEnqueue, Moves, InTransaction
  <2>2. phase[q] = "found" => row'[x] = row[x]
    BY <1>4 DEF CommitEnqueue
  <2>3. phase[q] = "inserted" => row' = [row EXCEPT ![q] = [status |-> "PENDING", day |-> began[q]]]
    BY <1>4 DEF CommitEnqueue
  <2>4. phase[q] = "inserted" => row[q].status = "NONE"
    BY DEF AdmissionInv, Unborn, Requests
  <2>5. phase[q] \in {"found", "inserted"}
    BY <1>4 DEF CommitEnqueue, HoldsKey
  <2>6. CASE x = q
    BY <1>1, <2>1, <2>2, <2>3, <2>4, <2>5, <2>6 DEF Appears
  <2>7. CASE x # q
    BY <1>1, <2>2, <2>3, <2>5, <2>7
  <2> QED
    BY <2>6, <2>7
<1>5. CASE UNCHANGED row
  BY <1>5
<1> QED
  BY <1>2, <1>3, <1>4, <1>5
     DEF Next, MaintenanceNext, Requests, vars, partitionVars, CountBacklog, BeginEnqueue, FindPrior,
         InsertRow, AbortEnqueue, Midnight, NextDay, BeginPass, CountLiveRows, FailPass

\* q has just been granted its key's lock.
Granted(q) ==
  /\ phase[q] = "begun" /\ LockFree(q) /\ UNCHANGED row
  /\ \A p \in Rows : p # q => phase'[p] = phase[p]
  /\ phase'[q] = "inserted" => Prior(q) = {}

LEMMA HolderSteps ==
  ASSUME AdmissionInv, [Next]_vars, NEW q \in Rows, phase'[q] \in {"found", "inserted"}
  PROVE  began'[q] = began[q] /\ (phase'[q] = phase[q] \/ Granted(q))
<1>1. phase \in [Rows -> Phases] /\ began \in [Rows -> 0..MaxDay]
  BY DEF AdmissionInv, TypeOK, Requests
<1>2. CASE UNCHANGED <<phase, began>>
  BY <1>2
<1>3. ASSUME NEW p \in Rows, CountBacklog(p) \/ BeginEnqueue(p) \/ AbortEnqueue(p)
      PROVE  p # q /\ began'[q] = began[q] /\ phase'[q] = phase[q]
  BY <1>1, <1>3 DEF CountBacklog, BeginEnqueue, AbortEnqueue, Moves
<1>4. ASSUME NEW p \in Rows, NEW answered \in BOOLEAN, CommitEnqueue(p, answered)
      PROVE  p # q /\ began'[q] = began[q] /\ phase'[q] = phase[q]
  BY <1>1, <1>4 DEF CommitEnqueue, Moves
<1>5. ASSUME NEW p \in Rows, FindPrior(p) \/ InsertRow(p)
      PROVE  began'[q] = began[q] /\ (phase'[q] = phase[q] \/ Granted(q))
  <2>1. /\ phase[p] = "begun" /\ LockFree(p) /\ UNCHANGED <<row, began>>
        /\ \E to \in {"found", "inserted"} :
              phase' = [phase EXCEPT ![p] = to] /\ (to = "inserted" => Prior(p) = {})
    BY <1>5 DEF FindPrior, InsertRow, Moves, partitionVars
  <2>2. CASE p = q
    BY <1>1, <2>1, <2>2 DEF Granted
  <2>3. CASE p # q
    BY <1>1, <2>1, <2>3
  <2> QED
    BY <2>2, <2>3
<1> QED
  BY <1>2, <1>3, <1>4, <1>5
     DEF Next, MaintenanceNext, Requests, vars, requestVars, Claim, GoBack, Finish, SetStatus, Midnight,
         PassCommits

-----------------------------------------------------------------------------
(***************************************************************************)
(* One operation to a key, for as long as the key is remembered.           *)
(***************************************************************************)

\* No row of the key is found only if none is there: among finitely many rows one is the latest.
LEMMA NoPrior ==
  ASSUME row \in [Rows -> RowState], NEW q \in Rows, Prior(q) = {}, NEW x \in Rows, KeyOf[x] = KeyOf[q]
  PROVE  ~InTable(x)
<1> DEFINE T == {y \in Rows : InTable(y) /\ KeyOf[y] = KeyOf[q]}
           Later(y) == {z \in T : row[z].day > row[y].day}
           F == {Later(y) : y \in T}
<1>1. SUFFICES ASSUME T # {} PROVE FALSE
  OBVIOUS
<1>2. \A y \in T : row[y].day \in Nat
  BY DEF RowState
<1>3. F \subseteq SUBSET T /\ F # {}
  <2>1. \A y \in T : Later(y) \in SUBSET T
    OBVIOUS
  <2> HIDE DEF T, Later
  <2> QED
    BY <1>1, <2>1
<1>4. IsFiniteSet(T)
  BY RowsFinite, FS_Subset
<1>5. IsWellFoundedOn(StrictSubsetOrdering(T), SUBSET T)
  BY <1>4, FS_FiniteSubsetsOfFinite, FS_StrictSubsetOrderingWellFounded
<1>6. PICK U \in F : \A V \in F : ~(<<V, U>> \in StrictSubsetOrdering(T))
  <2> HIDE DEF F, T
  <2> QED
    BY <1>3, <1>5, WFMin
<1>7. PICK y \in T : U = Later(y)
  OBVIOUS
<1>8. Later(y) = {}
  <2>1. SUFFICES ASSUME NEW z \in Later(y) PROVE FALSE
    OBVIOUS
  <2>2. Later(z) \subseteq Later(y) /\ z \notin Later(z)
    BY <1>2
  <2>3. <<Later(z), Later(y)>> \in StrictSubsetOrdering(T)
    BY <2>1, <2>2 DEF StrictSubsetOrdering
  <2> QED
    BY <1>6, <1>7, <2>1, <2>3
<1>9. y \in Prior(q)
  BY <1>2, <1>8 DEF Prior
<1> QED
  BY <1>9

(***************************************************************************)
(* A key's lock has one holder; what is dropped is past retention; and     *)
(* while a request's row waits for its COMMIT, the rows of its key are     *)
(* gone and were made the retention or more before it.                     *)
(***************************************************************************)
OneHolder == \A p, q \in Rows : HoldsKey(p) /\ HoldsKey(q) /\ KeyOf[p] = KeyOf[q] => p = q

DroppedLate == \A x \in Rows : row[x].status = "DROPPED" => row[x].day + RetentionDays < today

InsertedAlone ==
  \A q, x \in Rows : phase[q] = "inserted" /\ KeyOf[x] = KeyOf[q] /\ row[x].status # "NONE" =>
    row[x].status = "DROPPED" /\ row[x].day + RetentionDays <= began[q]

KeyInv == OneHolder /\ DroppedLate /\ InsertedAlone /\ KeyRemembered

LEMMA KeyInvStep ==
  ASSUME AdmissionInv, KeyInv, [Next]_vars
  PROVE  KeyInv'
<1>1. /\ row \in [Rows -> RowState] /\ began \in [Rows -> 0..MaxDay] /\ phase \in [Rows -> Phases]
      /\ today \in 0..MaxDay /\ MaxDay \in Nat
      /\ OneHolder /\ DroppedLate /\ InsertedAlone /\ KeyRemembered /\ Unborn /\ Fresh
  BY MaxDayNatural DEF AdmissionInv, TypeOK, PartitionTypeOK, Requests, KeyInv
<1>2. \A x \in Rows : row[x].day \in Nat /\ began[x] \in Nat
  BY <1>1 DEF RowState
<1>3. today' = today \/ today' = today + 1
  BY DEF Next, MaintenanceNext, Requests, vars, partitionVars, CountBacklog, BeginEnqueue, FindPrior,
         InsertRow, CommitEnqueue, AbortEnqueue, Claim, GoBack, Finish, SetStatus, Midnight, NextDay,
         PassCommits, CommitPass, BeginPass, CountLiveRows, FailPass
<1>4. OneHolder'
  <2> SUFFICES ASSUME NEW p \in Rows, NEW q \in Rows, p # q, KeyOf[p] = KeyOf[q],
                      phase'[p] \in {"found", "inserted"}, phase'[q] \in {"found", "inserted"}
               PROVE  FALSE
    BY DEF OneHolder, HoldsKey
  <2>1. (phase'[p] = phase[p] \/ Granted(p)) /\ (phase'[q] = phase[q] \/ Granted(q))
    BY HolderSteps
  <2> QED
    BY <1>1, <2>1 DEF OneHolder, HoldsKey, Granted, LockFree, Requests
<1>5. DroppedLate'
  <2> SUFFICES ASSUME NEW x \in Rows, row'[x].status = "DROPPED" PROVE row'[x].day + RetentionDays < today'
    BY DEF DroppedLate
  <2>1. row'[x].day = row[x].day /\ row[x].day + RetentionDays < today
    <3>1. row'[x] = row[x] \/ Appears(x) \/ Progresses(x) \/ Goes(x)
      BY RowSteps
    <3>2. row[x].day \in Nat /\ today \in Nat
      BY <1>1, <1>2
    <3>3. CASE row'[x] = row[x]
      BY <1>1, <3>3 DEF DroppedLate
    <3>4. CASE Goes(x)
      BY <3>2, <3>4, DaysPositive DEF Goes
    <3> QED
      BY <3>1, <3>3, <3>4 DEF Appears, Progresses, Live
  <2> QED
    BY <1>1, <1>2, <1>3, <2>1, DaysPositive
<1>6. InsertedAlone'
  <2> SUFFICES ASSUME NEW q \in Rows, NEW x \in Rows, phase'[q] = "inserted", KeyOf[x] = KeyOf[q],
                      row'[x].status # "NONE"
               PROVE  row'[x].status = "DROPPED" /\ row'[x].day + RetentionDays <= began'[q]
    BY DEF InsertedAlone
  <2>1. began'[q] = began[q] /\ (phase'[q] = phase[q] \/ Granted(q))
    BY HolderSteps
  <2>2. CASE phase[q] = "inserted"
    <3>1. row[x].status = "NONE" \/ (row[x].status = "DROPPED" /\ row[x].day + RetentionDays <= began[q])
      BY <1>1, <2>2 DEF InsertedAlone
    <3>2. CASE row'[x] = row[x]
      BY <2>1, <3>1, <3>2
    <3>3. CASE Appears(x)
      <4>1. x = q
        BY <1>1, <2>2, <3>3 DEF OneHolder, HoldsKey, Appears
      <4> QED
        BY <3>3, <4>1 DEF InTransaction, Appears
    <3> QED
      BY <3>1, <3>2, <3>3, RowSteps DEF Live, Progresses, Goes
  <2>3. CASE Granted(q)
    <3>1. row' = row /\ ~InTable(x) /\ phase[q] = "begun"
      BY <1>1, <2>3, NoPrior DEF Granted
    <3>2. row[x].status = "DROPPED" /\ row[x].day + RetentionDays < today /\ today <= began[q] + 1
      BY <1>1, <3>1 DEF InTable, DroppedLate, Fresh, InTransaction, Requests
    <3> QED
      BY <1>1, <1>2, <2>1, <3>1, <3>2, DaysPositive
  <2> QED
    BY <2>1, <2>2, <2>3
<1>7. KeyRemembered'
  <2> SUFFICES ASSUME NEW x \in Rows, NEW y \in Rows, x # y, KeyOf[x] = KeyOf[y],
                      row'[x].status # "NONE", row'[y].status # "NONE", row'[x].day <= row'[y].day
               PROVE  row'[x].day + RetentionDays <= row'[y].day
    BY DEF KeyRemembered
  <2>1. ASSUME NEW z \in Rows, row'[z].status # "NONE"
        PROVE  \/ row[z].status # "NONE" /\ row'[z].day = row[z].day
               \/ phase[z] = "inserted" /\ row[z].status = "NONE" /\ row'[z].day = began[z]
    <3>1. row'[z] = row[z] \/ Appears(z) \/ Progresses(z) \/ Goes(z)
      BY RowSteps
    <3> QED
      BY <2>1, <3>1 DEF Appears, Progresses, Goes, Live
  <2>2. CASE row[x].status # "NONE" /\ row'[x].day = row[x].day /\ row[y].status # "NONE" /\ row'[y].day = row[y].day
    BY <1>1, <2>2 DEF KeyRemembered
  <2>3. CASE phase[y] = "inserted" /\ row'[y].day = began[y] /\ row[x].status # "NONE" /\ row'[x].day = row[x].day
    BY <1>1, <2>3 DEF InsertedAlone
  <2>4. CASE phase[x] = "inserted" /\ row'[x].day = began[x] /\ row[y].status # "NONE" /\ row'[y].day = row[y].day
    <3>1. row[y].day + RetentionDays <= began[x]
      BY <1>1, <2>4 DEF InsertedAlone
    <3> QED
      BY <1>2, <2>4, <3>1, DaysPositive
  <2>5. CASE phase[x] = "inserted" /\ phase[y] = "inserted"
    BY <1>1, <2>5 DEF OneHolder, HoldsKey
  <2> QED
    BY <2>1, <2>2, <2>3, <2>4, <2>5
<1> QED
  BY <1>4, <1>5, <1>6, <1>7 DEF KeyInv

(* OperationStore.enqueue (the advisory lock, the lookup in the hot table  *)
(* and the INSERT) over the passes that drop partitions: two operations    *)
(* under one key lie at least the retention apart.                         *)
THEOREM KeysStayRemembered == Spec => []KeyRemembered
<1>1. Init => KeyInv
  BY DEF Init, PartitionInit, KeyInv, OneHolder, HoldsKey, DroppedLate, InsertedAlone, KeyRemembered, Requests
<1>2. KeyInv => KeyRemembered
  BY DEF KeyInv
<1> QED
  BY <1>1, <1>2, KeyInvStep, AlwaysAdmissionInv, PTL DEF Spec

-----------------------------------------------------------------------------
(***************************************************************************)
(* The backlog past its cap.                                               *)
(***************************************************************************)

Pending == {"admitted"} \cup InTransaction

\* The rows of a class in flight and the requests on their way to one.
Load(c) == {x \in Rows : ClassOf[x] = c /\ (row[x].status \in Live \/ phase[x] \in Pending)}

LoadBounded ==
  \A c \in Classes : Running(c) <= MaxRunning /\ Cardinality(Load(c)) <= Cap - 1 + MaxInFlight + MaxRunning

\* A request on its way has no row yet, so nothing is counted twice.
LEMMA LoadSplit ==
  ASSUME AdmissionInv, NEW c \in Classes
  PROVE  /\ Depth(c) \in Nat /\ Running(c) \in Nat /\ InFlight(c) \in Nat /\ Cardinality(Load(c)) \in Nat
         /\ Cardinality(Load(c)) = Depth(c) + Running(c) + InFlight(c)
<1> DEFINE D == {x \in Rows : row[x].status = "PENDING" /\ ClassOf[x] = c}
           R == {x \in Rows : row[x].status = "RUNNING" /\ ClassOf[x] = c}
           I == {q \in Requests : phase[q] \in {"admitted"} \cup InTransaction /\ ClassOf[q] = c}
<1>1. IsFiniteSet(D) /\ IsFiniteSet(R) /\ IsFiniteSet(I) /\ IsFiniteSet(Load(c))
  BY RowsFinite, FS_Subset DEF Load, Requests
<1>2. D \cap R = {}
  OBVIOUS
<1>3. (D \cup R) \cap I = {}
  BY DEF AdmissionInv, Unborn, Requests, InTransaction
<1>4. Load(c) = (D \cup R) \cup I
  BY DEF Load, Live, Pending, Requests
<1> HIDE DEF D, R, I
<1>5. IsFiniteSet(D \cup R) /\ Cardinality(D \cup R) = Cardinality(D) + Cardinality(R) - Cardinality(D \cap R)
  BY <1>1, FS_Union
<1>6. Cardinality((D \cup R) \cup I)
        = Cardinality(D \cup R) + Cardinality(I) - Cardinality((D \cup R) \cap I)
  BY <1>1, <1>5, FS_Union
<1>7. /\ Cardinality(D) \in Nat /\ Cardinality(R) \in Nat /\ Cardinality(I) \in Nat
      /\ Cardinality(Load(c)) \in Nat
  BY <1>1, FS_CardinalityType
<1>8. Cardinality(Load(c)) = Cardinality(D) + Cardinality(R) + Cardinality(I)
  <2>1. Cardinality(D \cap R) = 0
    BY <1>2, FS_EmptySet
  <2>2. Cardinality((D \cup R) \cap I) = 0
    BY <1>3, FS_EmptySet
  <2>3. Cardinality(D \cup R) = Cardinality(D) + Cardinality(R)
    BY <1>5, <1>7, <2>1
  <2>4. Cardinality(Load(c)) = Cardinality(D \cup R) + Cardinality(I) - 0
    BY <1>4, <1>6, <2>2
  <2> QED
    BY <1>7, <2>3, <2>4
<1>9. Depth(c) = Cardinality(D) /\ Running(c) = Cardinality(R) /\ InFlight(c) = Cardinality(I)
  BY DEF Depth, Running, InFlight, D, R, I
<1> QED
  BY <1>7, <1>8, <1>9

\* Only a request that the count lets in joins the load.
LEMMA LoadSteps ==
  ASSUME AdmissionInv, [Next]_vars, NEW c \in Classes
  PROVE  \/ Load(c)' \subseteq Load(c)
         \/ \E q \in Requests : /\ ClassOf[q] = c /\ Load(c)' \subseteq Load(c) \cup {q}
                                /\ InFlight(c) < MaxInFlight /\ ~BacklogFull(c)
<1>1. phase \in [Rows -> Phases] /\ row \in [Rows -> RowState]
  BY DEF AdmissionInv, TypeOK, PartitionTypeOK, Requests
<1>2. ASSUME NEW x \in Rows, row'[x].status \in Live
      PROVE  row[x].status \in Live \/ phase[x] \in Pending
  <2>1. row'[x] = row[x] \/ Appears(x) \/ Progresses(x) \/ Goes(x)
    BY RowSteps
  <2> QED
    BY <1>2, <2>1 DEF Appears, Progresses, Goes, Pending, InTransaction, Live
<1>3. ASSUME \A x \in Rows : phase'[x] \in Pending => phase[x] \in Pending
      PROVE  Load(c)' \subseteq Load(c)
  BY <1>2, <1>3 DEF Load
<1>4. ASSUME NEW q \in Requests, CountBacklog(q), phase'[q] = "admitted"
      PROVE  \/ Load(c)' \subseteq Load(c)
             \/ /\ ClassOf[q] = c /\ Load(c)' \subseteq Load(c) \cup {q}
                /\ InFlight(c) < MaxInFlight /\ ~BacklogFull(c)
  <2>1. \A x \in Rows : x # q => phase'[x] = phase[x]
    BY <1>1, <1>4 DEF CountBacklog, Moves
  <2>2. Load(c)' \subseteq Load(c) \cup {q}
    BY <1>2, <2>1 DEF Load
  <2>3. CASE ClassOf[q] # c
    <3>1. q \notin Load(c)'
      BY <2>3 DEF Load
    <3> QED
      BY <2>2, <3>1
  <2>4. InFlight(ClassOf[q]) < MaxInFlight /\ ~BacklogFull(ClassOf[q])
    BY <1>1, <1>4 DEF CountBacklog, Moves, Requests
  <2> QED
    BY <2>2, <2>3, <2>4
<1>5. ASSUME NEW q \in Requests,
             \/ CountBacklog(q) /\ phase'[q] # "admitted"
             \/ BeginEnqueue(q) \/ FindPrior(q) \/ InsertRow(q) \/ AbortEnqueue(q)
             \/ \E answered \in BOOLEAN : CommitEnqueue(q, answered)
      PROVE  \A x \in Rows : phase'[x] \in Pending => phase[x] \in Pending
  <2>1. PICK to : phase' = [phase EXCEPT ![q] = to] /\ (to \in Pending => phase[q] \in Pending)
    <3>1. CASE CountBacklog(q) /\ phase'[q] # "admitted"
      <4>1. phase' = [phase EXCEPT ![q] = "refused"]
        BY <1>1, <3>1 DEF CountBacklog, Moves, Requests
      <4>2. "refused" \notin Pending
        BY DEF Pending, InTransaction
      <4> QED
        BY <4>1, <4>2, Zenon
    <3>2. CASE BeginEnqueue(q)
      BY <3>2 DEF BeginEnqueue, Moves, Pending, InTransaction
    <3>3. CASE FindPrior(q)
      BY <3>3 DEF FindPrior, Moves, Pending, InTransaction
    <3>4. CASE InsertRow(q)
      BY <3>4 DEF InsertRow, Moves, Pending, InTransaction
    <3>5. CASE AbortEnqueue(q)
      BY <3>5 DEF AbortEnqueue, Moves, Pending, InTransaction
    <3>6. ASSUME NEW answered \in BOOLEAN, CommitEnqueue(q, answered)
          PROVE  \E to : phase' = [phase EXCEPT ![q] = to] /\ (to \in Pending => phase[q] \in Pending)
      <4>1. phase' = [phase EXCEPT ![q] = "accepted"] \/ phase' = [phase EXCEPT ![q] = "failed"]
        BY <3>6 DEF CommitEnqueue, Moves
      <4>2. "accepted" \notin Pending /\ "failed" \notin Pending
        BY DEF Pending, InTransaction
      <4> QED
        BY <4>1, <4>2, Zenon
    <3> QED
      BY <1>5, <3>1, <3>2, <3>3, <3>4, <3>5, <3>6
  <2> QED
    BY <1>1, <2>1
<1>6. ASSUME UNCHANGED phase PROVE \A x \in Rows : phase'[x] \in Pending => phase[x] \in Pending
  BY <1>6
<1> QED
  BY <1>3, <1>4, <1>5, <1>6
     DEF Next, MaintenanceNext, Requests, vars, requestVars, Claim, GoBack, Finish, SetStatus, Midnight, PassCommits

\* A row starts to run where the budgets leave room.
LEMMA RunningSteps ==
  ASSUME AdmissionInv, [Next]_vars, NEW c \in Classes, Running(c) <= MaxRunning
  PROVE  Running(c)' <= MaxRunning
<1> DEFINE R == {x \in Rows : row[x].status = "RUNNING" /\ ClassOf[x] = c}
<1>1. row \in [Rows -> RowState]
  BY DEF AdmissionInv, TypeOK, PartitionTypeOK
<1>2. IsFiniteSet(R) /\ Running(c) = Cardinality(R) /\ Running(c)' = Cardinality(R') /\ Cardinality(R) \in Nat
  <2>1. IsFiniteSet(R)
    BY RowsFinite, FS_Subset
  <2> QED
    BY <2>1, FS_CardinalityType DEF Running
<1>3. CASE R' \subseteq R
  <2>1. Cardinality(R') <= Cardinality(R) /\ Cardinality(R') \in Nat
    <3> HIDE DEF R
    <3> QED
      BY <1>2, <1>3, FS_Subset, FS_CardinalityType
  <2> QED
    BY <1>2, <2>1, CapsNatural
<1>4. ASSUME NEW q \in Rows, Claim(q) PROVE R' \subseteq R \/ Running(c)' <= MaxRunning
  <2>1. row' = [row EXCEPT ![q].status = "RUNNING"] /\ Running(ClassOf[q]) < MaxRunning
    BY <1>4 DEF Claim, SetStatus
  <2>2. CASE ClassOf[q] # c
    BY <1>1, <2>1, <2>2
  <2>3. CASE ClassOf[q] = c
    <3>1. R' \subseteq R \cup {q}
      BY <1>1, <2>1
    <3>2. /\ IsFiniteSet(R \cup {q}) /\ Cardinality(R \cup {q}) <= Cardinality(R) + 1
          /\ Cardinality(R \cup {q}) \in Nat
      <4> HIDE DEF R
      <4>1. /\ IsFiniteSet(R \cup {q})
            /\ Cardinality(R \cup {q}) = IF q \in R THEN Cardinality(R) ELSE Cardinality(R) + 1
        BY <1>2, FS_AddElement
      <4> QED
        BY <1>2, <4>1
    <3>3. Cardinality(R') <= Cardinality(R \cup {q}) /\ Cardinality(R') \in Nat
      <4> HIDE DEF R
      <4> QED
        BY <3>1, <3>2, FS_Subset, FS_CardinalityType
    <3> QED
      BY <1>2, <2>1, <2>3, <3>2, <3>3, CapsNatural
  <2> QED
    BY <2>2, <2>3
<1>5. ASSUME NEW q \in Rows, GoBack(q) \/ Finish(q) PROVE R' \subseteq R
  <2>1. PICK to \in {"PENDING", "TERMINAL"} : row' = [row EXCEPT ![q].status = to]
    BY <1>5 DEF GoBack, Finish, SetStatus
  <2> QED
    BY <1>1, <2>1
<1>6. ASSUME NEW q \in Rows, NEW answered \in BOOLEAN, CommitEnqueue(q, answered) PROVE R' \subseteq R
  <2>1. row' = row \/ row' = [row EXCEPT ![q] = [status |-> "PENDING", day |-> began[q]]]
    BY <1>6 DEF CommitEnqueue
  <2> QED
    BY <1>1, <2>1
<1>7. ASSUME NEW r \in Replicas, PassCommits(r) PROVE R' \subseteq R
  BY <1>7, CommitPassStep
<1>8. ASSUME UNCHANGED row PROVE R' \subseteq R
  BY <1>8
<1> HIDE DEF R
<1> QED
  BY <1>3, <1>4, <1>5, <1>6, <1>7, <1>8
     DEF Next, MaintenanceNext, Requests, vars, partitionVars, CountBacklog, BeginEnqueue, FindPrior,
         InsertRow, AbortEnqueue, Midnight, NextDay, BeginPass, CountLiveRows, FailPass

LEMMA LoadBoundedStep ==
  ASSUME AdmissionInv, LoadBounded, [Next]_vars
  PROVE  LoadBounded'
<1> SUFFICES ASSUME NEW c \in Classes
             PROVE  /\ Running(c)' <= MaxRunning
                    /\ Cardinality(Load(c)') <= Cap - 1 + MaxInFlight + MaxRunning
  BY DEF LoadBounded
<1>1. Running(c) <= MaxRunning /\ Cardinality(Load(c)) <= Cap - 1 + MaxInFlight + MaxRunning
  BY DEF LoadBounded
<1>2. /\ Depth(c) \in Nat /\ Running(c) \in Nat /\ InFlight(c) \in Nat /\ Cardinality(Load(c)) \in Nat
      /\ Cardinality(Load(c)) = Depth(c) + Running(c) + InFlight(c)
  BY LoadSplit
<1>3. IsFiniteSet(Load(c))
  BY RowsFinite, FS_Subset DEF Load
<1>4. CASE Load(c)' \subseteq Load(c)
  <2>1. Cardinality(Load(c)') <= Cardinality(Load(c)) /\ Cardinality(Load(c)') \in Nat
    BY <1>3, <1>4, FS_Subset, FS_CardinalityType
  <2> QED
    BY <1>1, <1>2, <2>1, RunningSteps, CapsNatural
<1>5. ASSUME NEW q \in Requests, Load(c)' \subseteq Load(c) \cup {q}, InFlight(c) < MaxInFlight, ~BacklogFull(c)
      PROVE  Cardinality(Load(c)') <= Cap - 1 + MaxInFlight + MaxRunning
  <2>1. Depth(c) < Cap
    BY <1>2, <1>5, CapsNatural DEF BacklogFull
  <2>2. IsFiniteSet(Load(c) \cup {q}) /\ Cardinality(Load(c) \cup {q}) <= Cardinality(Load(c)) + 1
        /\ Cardinality(Load(c) \cup {q}) \in Nat
    <3>1. /\ IsFiniteSet(Load(c) \cup {q})
          /\ Cardinality(Load(c) \cup {q}) = IF q \in Load(c) THEN Cardinality(Load(c)) ELSE Cardinality(Load(c)) + 1
      BY <1>3, FS_AddElement
    <3> QED
      BY <1>2, <3>1
  <2>3. Cardinality(Load(c)') <= Cardinality(Load(c) \cup {q}) /\ Cardinality(Load(c)') \in Nat
    BY <1>5, <2>2, FS_Subset, FS_CardinalityType
  <2> QED
    BY <1>1, <1>2, <1>5, <2>1, <2>2, <2>3, CapsNatural
<1> QED
  BY <1>1, <1>4, <1>5, LoadSteps, RunningSteps

(* admission.ts counts in one statement and enqueue inserts in another:    *)
(* the backlog overshoots its cap by no more than the requests between     *)
(* their count and their COMMIT and the rows that run and may come back.   *)
THEOREM OvershootStaysBounded == Spec => []OvershootBounded
<1>1. Init => LoadBounded
  <2> SUFFICES ASSUME Init, NEW c \in Classes
               PROVE  Running(c) <= MaxRunning /\ Cardinality(Load(c)) <= Cap - 1 + MaxInFlight + MaxRunning
    BY DEF LoadBounded
  <2>1. {x \in Rows : row[x].status = "RUNNING" /\ ClassOf[x] = c} = {} /\ Load(c) = {}
    BY DEF Init, PartitionInit, Load, Live, Pending, InTransaction, Requests
  <2> QED
    BY <2>1, FS_EmptySet, CapsNatural DEF Running
<1>2. AdmissionInv /\ LoadBounded => OvershootBounded
  BY LoadSplit, CapsNatural DEF LoadBounded, OvershootBounded
<1> QED
  BY <1>1, <1>2, LoadBoundedStep, AlwaysAdmissionInv, PTL DEF Spec

=============================================================================
