------------------------ MODULE OperationStore_proofs -----------------------
(***************************************************************************)
(* What the store guarantees for every set of operations, claimers, lanes  *)
(* and instances, whoever calls it and in whatever order.                  *)
(***************************************************************************)
EXTENDS OperationStore, FiniteSetTheorems, TLAPS

(* created_at is a natural number: the table has finitely many rows.       *)
LEMMA NowNatural == Now \in Nat
<1>1. IsFiniteSet({o \in Ops : operations[o].createdAt > 0})
  BY OpsFinite, FS_Subset, {o \in Ops : operations[o].createdAt > 0} \subseteq Ops
<1>2. Cardinality({o \in Ops : operations[o].createdAt > 0}) \in Nat
  BY <1>1, FS_CardinalityType
<1>3. QED
  BY <1>2 DEF Now

(* Whatever claimBatch is asked, it chooses claimable rows, one of a lane  *)
(* at most, on lanes that no row holds.                                    *)
LEMMA ChoiceSound ==
  ASSUME NEW chosen \in Choices
  PROVE  /\ chosen \in SUBSET Ops
         /\ \A o \in chosen : Claimable(o)
         /\ \A o \in chosen, p \in Ops : SameLane(o, p) => ~Busy(p)
         /\ \A o, p \in chosen : SameLane(o, p) /\ p # o => Before(o, p)
<1>1. PICK limit \in 1..Cardinality(Ops), excluded \in SUBSET Lanes,
           available \in [Instances -> Availability] :
        chosen = Picked(limit, excluded, available)
  BY DEF Choices
<1>2. chosen \subseteq LaneLeaders(excluded, available)
  BY <1>1 DEF Picked, WithinCaps
<1>3. QED
  BY <1>2 DEF LaneLeaders

-----------------------------------------------------------------------------
(* Types: every action keeps the columns of schema.sql.                    *)
LEMMA StoreTypeStep ==
  ASSUME StoreTypeOK, [StoreStep]_storeVars
  PROVE  StoreTypeOK'
<1> USE DEF StoreTypeOK, Row, Statuses
<1>1. ASSUME NEW o \in Ops, EnqueueBegin(o) PROVE StoreTypeOK'
  BY <1>1, NowNatural DEF EnqueueBegin
<1>2. ASSUME NEW o \in Ops, EnqueueCommit(o) PROVE StoreTypeOK'
  BY <1>2 DEF EnqueueCommit, Pending
<1>3. ASSUME NEW o \in Ops, TimePasses(o) PROVE StoreTypeOK'
  BY <1>3 DEF TimePasses
<1>4. ASSUME NEW o \in Ops, DeferForReadback(o) PROVE StoreTypeOK'
  BY <1>4 DEF DeferForReadback, Pending
<1>5. ASSUME NEW o \in Ops, NEW outcome \in Outcomes, Finalize(o, outcome) PROVE StoreTypeOK'
  <2>1. CASE Status(o) \in Pending
    <3>1. operations' \in [Ops -> Row] /\ UNCHANGED picked
      BY <1>5, <2>1 DEF Finalize
    <3>2. history' \in [Ops -> Outcomes \cup {"NONE"}]
      BY <1>5, <2>1 DEF Finalize
    <3>3. QED
      BY <3>1, <3>2
  <2>2. CASE Status(o) \notin Pending
    BY <1>5, <2>2 DEF Finalize
  <2>3. QED
    BY <2>1, <2>2
<1>6. ASSUME NEW o \in Ops, Requeue(o) PROVE StoreTypeOK'
  BY <1>6 DEF Requeue, Pending
<1>7. ASSUME NEW c \in Claimers, NEW chosen \in Choices, ClaimSnapshot(c, chosen) PROVE StoreTypeOK'
  BY <1>7, ChoiceSound DEF ClaimSnapshot
<1>8. ASSUME NEW c \in Claimers, ClaimCommit(c) PROVE StoreTypeOK'
  BY <1>8 DEF ClaimCommit, Claim, Pending
<1>9. ASSUME NEW c \in Claimers, ClaimAbort(c) PROVE StoreTypeOK'
  BY <1>9 DEF ClaimAbort
<1>10. CASE ReapStale
  BY <1>10 DEF ReapStale, Pending
<1>11. ASSUME NEW p \in Partitions, DropPartition(p) PROVE StoreTypeOK'
  BY <1>11 DEF DropPartition
<1>12. CASE UNCHANGED storeVars
  BY <1>12 DEF storeVars
<1>13. QED
  BY <1>1, <1>2, <1>3, <1>4, <1>5, <1>6, <1>7, <1>8, <1>9, <1>10, <1>11, <1>12 DEF StoreStep

(* The rows of both tables keep their shape, whoever calls the store.      *)
THEOREM StoreTyping == StoreSpecUnbounded => []StoreTypeOK
<1>1. StoreInit => StoreTypeOK
  BY DEF StoreInit, StoreTypeOK, Row, Statuses
<1>2. StoreTypeOK /\ [StoreStep]_storeVars => StoreTypeOK'
  BY StoreTypeStep
<1>3. QED
  BY <1>1, <1>2, PTL DEF StoreSpecUnbounded

-----------------------------------------------------------------------------
(* The outcome in the hot row and the one in history never part: finalize  *)
(* writes both or neither, every other action keeps off terminal rows, and *)
(* the drop gate lets only terminal rows go.                               *)
THEOREM HistoryCorrect == StoreSpecUnbounded => []HistoryAgrees
<1>1. StoreInit => HistoryAgrees
  BY DEF StoreInit, HistoryAgrees, Terminal, Status, Outcomes
<1>2. StoreTypeOK /\ HistoryAgrees /\ [StoreStep]_storeVars => HistoryAgrees'
  <2> SUFFICES ASSUME StoreTypeOK, HistoryAgrees, [StoreStep]_storeVars
               PROVE  HistoryAgrees'
    OBVIOUS
  <2> USE DEF StoreTypeOK, Row, HistoryAgrees, Terminal, Status, Outcomes
  <2>1. ASSUME NEW o \in Ops, EnqueueBegin(o) PROVE HistoryAgrees'
    BY <2>1 DEF EnqueueBegin
  <2>2. ASSUME NEW o \in Ops, EnqueueCommit(o) PROVE HistoryAgrees'
    BY <2>2 DEF EnqueueCommit
  <2>3. ASSUME NEW o \in Ops, TimePasses(o) PROVE HistoryAgrees'
    BY <2>3 DEF TimePasses
  <2>4. ASSUME NEW o \in Ops, DeferForReadback(o) PROVE HistoryAgrees'
    BY <2>4 DEF DeferForReadback
  <2>5. ASSUME NEW o \in Ops, NEW outcome \in Outcomes, Finalize(o, outcome) PROVE HistoryAgrees'
    <3>1. CASE Status(o) \in Pending
      <4>1. history[o] = "NONE"
        BY <3>1 DEF Pending
      <4>2. /\ operations' = [operations EXCEPT ![o].status = outcome, ![o].elapsed = FALSE]
            /\ history' = [history EXCEPT ![o] = outcome]
        BY <2>5, <3>1, <4>1 DEF Finalize
      <4>3. QED
        BY <4>2
    <3>2. CASE Status(o) \notin Pending
      BY <2>5, <3>2 DEF Finalize
    <3>3. QED
      BY <3>1, <3>2
  <2>6. ASSUME NEW o \in Ops, Requeue(o) PROVE HistoryAgrees'
    BY <2>6 DEF Requeue
  <2>7. ASSUME NEW c \in Claimers, NEW chosen \in Choices, ClaimSnapshot(c, chosen) PROVE HistoryAgrees'
    BY <2>7 DEF ClaimSnapshot
  <2>8. ASSUME NEW c \in Claimers, ClaimCommit(c) PROVE HistoryAgrees'
    BY <2>8 DEF ClaimCommit, Claim, Returned, StillClaimable
  <2>9. ASSUME NEW c \in Claimers, ClaimAbort(c) PROVE HistoryAgrees'
    BY <2>9 DEF ClaimAbort
  <2>10. CASE ReapStale
    BY <2>10 DEF ReapStale, Stale
  <2>11. ASSUME NEW p \in Partitions, DropPartition(p) PROVE HistoryAgrees'
    BY <2>11 DEF DropPartition
  <2>12. CASE UNCHANGED storeVars
    BY <2>12 DEF storeVars
  <2>13. QED
    BY <2>1, <2>2, <2>3, <2>4, <2>5, <2>6, <2>7, <2>8, <2>9, <2>10, <2>11, <2>12 DEF StoreStep
<1>3. QED
  BY <1>1, <1>2, StoreTyping, PTL DEF StoreSpecUnbounded

-----------------------------------------------------------------------------
(***************************************************************************)
(* Lane serialization, with one claimer.  LaneHeld is not inductive: a     *)
(* claim statement holds, between its snapshot and its write, rows chosen  *)
(* from lanes that were free.  The strengthening says they still are, and  *)
(* that the chosen rows are of different lanes.  With a second claimer it  *)
(* is false, and so is LaneHeld.                                           *)
(***************************************************************************)
OneClaimer == \A c, d \in Claimers : c = d

LanesFree ==
  \A c \in Claimers : \A o \in picked[c] :
    /\ \A p \in Ops : SameLane(o, p) => ~Busy(p)
    /\ \A p \in picked[c] : SameLane(o, p) => o = p

LaneInv == LaneHeld /\ LanesFree

(* A step that makes no row busy, and chooses none, keeps the invariant.   *)
LEMMA NoNewBusyRow ==
  ASSUME LaneInv, UNCHANGED picked,
         \A o \in Ops : Busy(o)' => Busy(o),
         \A o \in Ops : (Status(o) = "RUNNING")' => Status(o) = "RUNNING"
  PROVE  LaneInv'
<1> USE DEF LaneInv, LaneHeld, LanesFree, Busy, SameLane
<1>1. LaneHeld'
  BY DEF Status
<1>2. LanesFree'
  OBVIOUS
<1>3. QED
  BY <1>1, <1>2

(* Rows of one lane are never claimed together: Before is asymmetric.      *)
LEMMA OneLeaderPerLane ==
  ASSUME StoreTypeOK, NEW o \in Ops, NEW p \in Ops, Before(o, p), Before(p, o)
  PROVE  FALSE
<1>1. operations[o].createdAt \in Nat /\ operations[p].createdAt \in Nat
  BY DEF StoreTypeOK, Row
<1>2. QED
  BY <1>1 DEF Before

(* Lane serialization for every backlog, lane assignment, cap and order of *)
(* calls, when claims come from one claimer at a time.                     *)
THEOREM OneClaimerHoldsLanes == ASSUME OneClaimer PROVE StoreSpecUnbounded => []LaneHeld
<1>1. StoreInit => LaneInv
  BY DEF StoreInit, LaneInv, LaneHeld, LanesFree, Status
<1>2. StoreTypeOK /\ LaneInv /\ [StoreStep]_storeVars => LaneInv'
  <2> SUFFICES ASSUME StoreTypeOK, LaneInv, [StoreStep]_storeVars
               PROVE  LaneInv'
    OBVIOUS
  <2> USE DEF StoreTypeOK, Row, Status, Busy
  <2>1. ASSUME NEW o \in Ops, EnqueueBegin(o) PROVE LaneInv'
    BY <2>1, NoNewBusyRow DEF EnqueueBegin
  <2>2. ASSUME NEW o \in Ops, EnqueueCommit(o) PROVE LaneInv'
    BY <2>2, NoNewBusyRow DEF EnqueueCommit
  <2>3. ASSUME NEW o \in Ops, TimePasses(o) PROVE LaneInv'
    BY <2>3, NoNewBusyRow DEF TimePasses
  <2>4. ASSUME NEW o \in Ops, DeferForReadback(o) PROVE LaneInv'
    BY <2>4, NoNewBusyRow DEF DeferForReadback
  <2>5. ASSUME NEW o \in Ops, NEW outcome \in Outcomes, Finalize(o, outcome) PROVE LaneInv'
    <3>1. /\ UNCHANGED picked
          /\ \/ operations' = [operations EXCEPT ![o].status = outcome, ![o].elapsed = FALSE]
             \/ operations' = operations
      BY <2>5 DEF Finalize
    <3>2. QED
      BY <3>1, NoNewBusyRow DEF Outcomes
  <2>6. ASSUME NEW o \in Ops, Requeue(o) PROVE LaneInv'
    BY <2>6, NoNewBusyRow DEF Requeue
  <2>7. ASSUME NEW c \in Claimers, NEW chosen \in Choices, ClaimSnapshot(c, chosen) PROVE LaneInv'
    <3>1. LaneHeld'
      BY <2>7 DEF ClaimSnapshot, LaneInv, LaneHeld, SameLane
    <3>2. \A o, p \in chosen : SameLane(o, p) => o = p
      <4> SUFFICES ASSUME NEW o \in chosen, NEW p \in chosen, SameLane(o, p), o # p PROVE FALSE
        OBVIOUS
      <4>1. Before(o, p) /\ Before(p, o)
        BY ChoiceSound DEF SameLane
      <4>2. QED
        BY <4>1, ChoiceSound, OneLeaderPerLane
    <3>3. LanesFree'
      BY <2>7, <3>2, ChoiceSound, OneClaimer DEF OneClaimer, ClaimSnapshot, LanesFree, SameLane
    <3>4. QED
      BY <3>1, <3>3 DEF LaneInv
  <2>8. ASSUME NEW c \in Claimers, ClaimCommit(c) PROVE LaneInv'
    <3>1. /\ picked[c] \subseteq Ops
          /\ \A o \in picked[c], p \in Ops : SameLane(o, p) => ~Busy(p)
          /\ \A o, p \in picked[c] : SameLane(o, p) => o = p
      BY <2>8 DEF LaneInv, LanesFree
    <3>2. \A o \in Ops : /\ (Status(o) = "RUNNING")' => o \in picked[c] \/ Status(o) = "RUNNING"
                         /\ Busy(o)' => o \in picked[c] \/ Busy(o)
      BY <2>8 DEF ClaimCommit, Claim, Returned
    <3>3. LaneHeld'
      <4> SUFFICES ASSUME NEW o \in Ops, NEW p \in Ops, SameLane(o, p),
                          (Status(o) = "RUNNING")', Busy(p)'
                   PROVE  o = p
        BY DEF LaneHeld, SameLane
      <4>1. SameLane(p, o)
        BY DEF SameLane
      <4>2. CASE o \in picked[c]
        BY <3>1, <3>2, <4>2
      <4>3. CASE o \notin picked[c] /\ p \in picked[c]
        BY <3>1, <3>2, <4>1, <4>3
      <4>4. CASE o \notin picked[c] /\ p \notin picked[c]
        BY <3>2, <4>4 DEF LaneInv, LaneHeld
      <4>5. QED
        BY <4>2, <4>3, <4>4
    <3>4. LanesFree'
      BY <2>8, OneClaimer DEF OneClaimer, ClaimCommit, LanesFree
    <3>5. QED
      BY <3>3, <3>4 DEF LaneInv
  <2>9. ASSUME NEW c \in Claimers, ClaimAbort(c) PROVE LaneInv'
    <3>1. LaneHeld'
      BY <2>9 DEF ClaimAbort, LaneInv, LaneHeld, SameLane
    <3>2. LanesFree'
      BY <2>9 DEF ClaimAbort, LaneInv, LanesFree, SameLane
    <3>3. QED
      BY <3>1, <3>2 DEF LaneInv
  <2>10. CASE ReapStale
    BY <2>10, NoNewBusyRow DEF ReapStale, Stale
  <2>11. ASSUME NEW p \in Partitions, DropPartition(p) PROVE LaneInv'
    BY <2>11, NoNewBusyRow DEF DropPartition
  <2>12. CASE UNCHANGED storeVars
    BY <2>12, NoNewBusyRow DEF storeVars
  <2>13. QED
    BY <2>1, <2>2, <2>3, <2>4, <2>5, <2>6, <2>7, <2>8, <2>9, <2>10, <2>11, <2>12 DEF StoreStep
<1>3. LaneInv => LaneHeld
  BY DEF LaneInv
<1>4. QED
  BY <1>1, <1>2, <1>3, StoreTyping, PTL DEF StoreSpecUnbounded

-----------------------------------------------------------------------------
(***************************************************************************)
(* The store keeps the promise.  Because the two tables agree, what        *)
(* getStatus reports of every operation is what history records of it,     *)
(* before and after the row is finalized and before and after its          *)
(* partition is dropped; so only EnqueueCommit and a finalize that takes   *)
(* effect change what a client can see.                                    *)
(***************************************************************************)
LEMMA ReportedIsHistory ==
  StoreTypeOK /\ HistoryAgrees => ReportedOutcome = history
<1> SUFFICES ASSUME StoreTypeOK, HistoryAgrees PROVE ReportedOutcome = history
  OBVIOUS
<1>1. ASSUME NEW o \in Ops PROVE ReportedOutcome[o] = history[o]
  BY DEF ReportedOutcome, GetStatus, StoreTypeOK, HistoryAgrees, Row, Statuses,
         Terminal, Status, Pending, Outcomes
<1>2. QED
  BY <1>1 DEF ReportedOutcome, StoreTypeOK

(* A step after which the same operations are accepted, with the same      *)
(* history, is a stuttering step of the promise.                           *)
LEMMA StutterOfPromise ==
  ASSUME StoreTypeOK, HistoryAgrees, StoreTypeOK', HistoryAgrees',
         UNCHANGED history,
         \A o \in Ops : Status(o)' \in {"NONE", "INSERTING"} <=> Status(o) \in {"NONE", "INSERTING"}
  PROVE  UNCHANGED <<Accepted, ReportedOutcome>>
<1>1. Accepted' = Accepted
  BY DEF Accepted
<1>2. ReportedOutcome = history /\ (ReportedOutcome = history)'
  BY ReportedIsHistory, PTL
<1>3. QED
  BY <1>1, <1>2

(***************************************************************************)
(* A claim statement never holds a row whose insert is open: it chose      *)
(* among the rows its snapshot saw, and a committed insert stays so.       *)
(* Without this a claim could show a client an operation no 202 was given  *)
(* for.                                                                    *)
(***************************************************************************)
PickedVisible ==
  \A c \in Claimers : \A o \in picked[c] : Status(o) \notin {"NONE", "INSERTING"}

LEMMA PickedVisibleStep ==
  ASSUME StoreTypeOK, PickedVisible, [StoreStep]_storeVars
  PROVE  PickedVisible'
<1> USE DEF StoreTypeOK, Row, Status, PickedVisible
<1>1. ASSUME NEW o \in Ops, EnqueueBegin(o) PROVE PickedVisible'
  BY <1>1 DEF EnqueueBegin
<1>2. ASSUME NEW o \in Ops, EnqueueCommit(o) PROVE PickedVisible'
  BY <1>2 DEF EnqueueCommit
<1>3. ASSUME NEW o \in Ops, TimePasses(o) PROVE PickedVisible'
  BY <1>3 DEF TimePasses
<1>4. ASSUME NEW o \in Ops, DeferForReadback(o) PROVE PickedVisible'
  BY <1>4 DEF DeferForReadback
<1>5. ASSUME NEW o \in Ops, NEW outcome \in Outcomes, Finalize(o, outcome) PROVE PickedVisible'
  BY <1>5 DEF Finalize, Outcomes
<1>6. ASSUME NEW o \in Ops, Requeue(o) PROVE PickedVisible'
  BY <1>6 DEF Requeue
<1>7. ASSUME NEW c \in Claimers, NEW chosen \in Choices, ClaimSnapshot(c, chosen) PROVE PickedVisible'
  BY <1>7, ChoiceSound DEF ClaimSnapshot, Claimable
<1>8. ASSUME NEW c \in Claimers, ClaimCommit(c) PROVE PickedVisible'
  <2>1. \A d \in Claimers : picked'[d] \subseteq picked[d]
    BY <1>8 DEF ClaimCommit
  <2>2. \A o \in Ops : Status(o)' = "RUNNING" \/ Status(o)' = Status(o)
    BY <1>8 DEF ClaimCommit, Claim
  <2>3. QED
    BY <2>1, <2>2
<1>9. ASSUME NEW c \in Claimers, ClaimAbort(c) PROVE PickedVisible'
  BY <1>9 DEF ClaimAbort
<1>10. CASE ReapStale
  BY <1>10 DEF ReapStale
<1>11. ASSUME NEW p \in Partitions, DropPartition(p) PROVE PickedVisible'
  BY <1>11 DEF DropPartition
<1>12. CASE UNCHANGED storeVars
  BY <1>12 DEF storeVars
<1>13. QED
  BY <1>1, <1>2, <1>3, <1>4, <1>5, <1>6, <1>7, <1>8, <1>9, <1>10, <1>11, <1>12 DEF StoreStep

LEMMA ClaimsSeeCommittedRows == StoreSpecUnbounded => []PickedVisible
<1>1. StoreInit => PickedVisible
  BY DEF StoreInit, PickedVisible
<1>2. StoreTypeOK /\ PickedVisible /\ [StoreStep]_storeVars => PickedVisible'
  BY PickedVisibleStep
<1>3. QED
  BY <1>1, <1>2, StoreTyping, PTL DEF StoreSpecUnbounded

(* Refinement: OperationStore implements OperationPromise.                 *)
THEOREM StoreKeepsPromise == StoreSpecUnbounded => PromiseKept
<1>1. StoreInit => Promise!Init
  BY DEF StoreInit, Promise!Init, Accepted, ReportedOutcome, GetStatus, Status, Pending, Outcomes
<1>2. StoreTypeOK /\ HistoryAgrees /\ PickedVisible /\ StoreTypeOK' /\ HistoryAgrees' /\ [StoreStep]_storeVars
      => [Promise!Next]_<<Accepted, ReportedOutcome>>
  <2> SUFFICES ASSUME StoreTypeOK, HistoryAgrees, PickedVisible, StoreTypeOK', HistoryAgrees',
                      [StoreStep]_storeVars
               PROVE  [Promise!Next]_<<Accepted, ReportedOutcome>>
    OBVIOUS
  <2>0. ReportedOutcome = history /\ (ReportedOutcome = history)'
    BY ReportedIsHistory, PTL
  <2> USE DEF Status
  <2>1. ASSUME NEW o \in Ops, EnqueueBegin(o) PROVE [Promise!Next]_<<Accepted, ReportedOutcome>>
    BY <2>1, StutterOfPromise DEF EnqueueBegin, StoreTypeOK, Row
  <2>2. ASSUME NEW o \in Ops, EnqueueCommit(o) PROVE [Promise!Next]_<<Accepted, ReportedOutcome>>
    <3>1. o \notin Accepted /\ Accepted' = Accepted \cup {o}
      BY <2>2 DEF EnqueueCommit, Accepted, StoreTypeOK, Row
    <3>2. Promise!Accept(o)
      BY <2>0, <2>2, <3>1 DEF EnqueueCommit, Promise!Accept
    <3>3. QED
      BY <3>2 DEF Promise!Next
  <2>3. ASSUME NEW o \in Ops, TimePasses(o) PROVE [Promise!Next]_<<Accepted, ReportedOutcome>>
    BY <2>3, StutterOfPromise DEF TimePasses, StoreTypeOK, Row
  <2>4. ASSUME NEW o \in Ops, DeferForReadback(o) PROVE [Promise!Next]_<<Accepted, ReportedOutcome>>
    BY <2>4, StutterOfPromise DEF DeferForReadback, StoreTypeOK, Row
  <2>5. ASSUME NEW o \in Ops, NEW outcome \in Outcomes, Finalize(o, outcome)
        PROVE [Promise!Next]_<<Accepted, ReportedOutcome>>
    <3>1. CASE Status(o) \in Pending
      <4>1. history[o] = "NONE" /\ o \in Accepted
        BY <3>1 DEF HistoryAgrees, Terminal, Pending, Outcomes, Accepted
      <4>2. /\ operations' = [operations EXCEPT ![o].status = outcome, ![o].elapsed = FALSE]
            /\ history' = [history EXCEPT ![o] = outcome]
        BY <2>5, <3>1, <4>1 DEF Finalize
      <4>3. Accepted' = Accepted
        BY <3>1, <4>2 DEF Accepted, StoreTypeOK, Row, Pending, Outcomes
      <4>4. Promise!Answer(o, outcome)
        BY <2>0, <4>1, <4>2, <4>3 DEF Promise!Answer
      <4>5. QED
        BY <4>4 DEF Promise!Next
    <3>2. CASE Status(o) \notin Pending
      BY <2>5, <3>2, StutterOfPromise DEF Finalize
    <3>3. QED
      BY <3>1, <3>2
  <2>6. ASSUME NEW o \in Ops, Requeue(o) PROVE [Promise!Next]_<<Accepted, ReportedOutcome>>
    BY <2>6, StutterOfPromise DEF Requeue, StoreTypeOK, Row
  <2>7. ASSUME NEW c \in Claimers, NEW chosen \in Choices, ClaimSnapshot(c, chosen)
        PROVE [Promise!Next]_<<Accepted, ReportedOutcome>>
    BY <2>7, StutterOfPromise DEF ClaimSnapshot
  <2>8. ASSUME NEW c \in Claimers, ClaimCommit(c) PROVE [Promise!Next]_<<Accepted, ReportedOutcome>>
    <3>1. UNCHANGED history
      BY <2>8 DEF ClaimCommit
    <3>2. ASSUME NEW o \in Ops
          PROVE  Status(o)' \in {"NONE", "INSERTING"} <=> Status(o) \in {"NONE", "INSERTING"}
      BY <2>8 DEF ClaimCommit, Claim, Returned, PickedVisible, StoreTypeOK, Row
    <3>3. QED
      BY <3>1, <3>2, StutterOfPromise
  <2>9. ASSUME NEW c \in Claimers, ClaimAbort(c) PROVE [Promise!Next]_<<Accepted, ReportedOutcome>>
    BY <2>9, StutterOfPromise DEF ClaimAbort
  <2>10. CASE ReapStale
    BY <2>10, StutterOfPromise DEF ReapStale, Stale, StoreTypeOK, Row
  <2>11. ASSUME NEW p \in Partitions, DropPartition(p) PROVE [Promise!Next]_<<Accepted, ReportedOutcome>>
    BY <2>11, StutterOfPromise DEF DropPartition, Terminal, Outcomes, StoreTypeOK, Row
  <2>12. CASE UNCHANGED storeVars
    BY <2>12, StutterOfPromise DEF storeVars
  <2>13. QED
    BY <2>1, <2>2, <2>3, <2>4, <2>5, <2>6, <2>7, <2>8, <2>9, <2>10, <2>11, <2>12 DEF StoreStep
<1>3. QED
  BY <1>1, <1>2, StoreTyping, HistoryCorrect, ClaimsSeeCommittedRows, PTL DEF StoreSpecUnbounded, PromiseKept, Promise!Safe
=============================================================================
