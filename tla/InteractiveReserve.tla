------------------------- MODULE InteractiveReserve -------------------------
(***************************************************************************)
(* The dispatcher under the scheduling configuration it resolves: an       *)
(* instance's batch slots are what interactiveSliceFraction leaves of its  *)
(* mutationConcurrency.                                                    *)
(***************************************************************************)
EXTENDS Dispatcher, Scheduling

CONSTANTS
  SliceNum,   \* per instance, interactiveSliceFraction * SliceDen
  SliceDen

\* parseSliceFraction: between 0 and 1 inclusive, and written with few enough digits.
ASSUME SliceIsAFraction ==
  /\ SliceDen \in Nat \ {0}
  /\ SliceNum \in [Instances -> 0..SliceDen]
  /\ \A i \in Instances : Representable(Concurrency[i], SliceNum[i], SliceDen)

\* The products of applicationConfig.test.ts:225-252, and two that a double puts above the
\* whole number they are: 25 * 0.28 and 100 * 0.07.
ASSUME ProductsTested ==
  /\ Ceil(10, 2, 10) = 2
  /\ Ceil(3, 2, 10) = 1
  /\ Ceil(4, 1, 1) = 4
  /\ Ceil(25, 28, 100) = 8
  /\ Ceil(100, 7, 100) = 8

\* configOf.
ResolvedSlots == [i \in Instances |-> ResolvedBatchSlots(Concurrency[i], SliceNum[i], SliceDen)]

ASSUME SlotsResolved == BatchSlots = ResolvedSlots

(* scheduling.ts:154-165 under Dispatcher.ts: the configured fraction of   *)
(* the budget stays out of batch work's reach.  At no moment, whatever is  *)
(* running and however small the fraction, do batch attempts fill more of  *)
(* an instance's slots than the rest, unless it has a single slot.         *)
InteractiveShare ==
  \A r \in Replicas, i \in Instances :
    LET batch == {a \in AttemptsAt(r) : InstanceOf[a.op] = i /\ PriorityOf[a.op] = "batch"}
    IN Concurrency[i] > 1 => SliceDen * Cardinality(batch) <= (SliceDen - SliceNum[i]) * Concurrency[i]

=============================================================================
