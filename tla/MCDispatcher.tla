---------------------------- MODULE MCDispatcher ----------------------------
(***************************************************************************)
(* Constants for TLC.  A configuration picks its operations from a small   *)
(* cast, each with the columns given here, and its faults and target.      *)
(***************************************************************************)
EXTENDS InteractiveReserve

CONSTANTS
  create,       \* batch create on lane l1
  createSoon,   \* interactive create on lane l1: the same name
  update,       \* interactive update on lane l2
  delta,        \* batch add-values on lane l2
  delete,       \* batch delete on lane l3, of a second instance
  i1, i2, l1, l2, l3, d1

MCInstanceOf == [o \in Ops |-> IF o = delete THEN i2 ELSE i1]
MCLaneOf == [o \in Ops |-> CASE o \in {create, createSoon} -> l1
                             [] o \in {update, delta} -> l2
                             [] o = delete -> l3]
MCTypeOf == [o \in Ops |-> CASE o \in {create, createSoon} -> "CREATE"
                             [] o = update -> "UPDATE"
                             [] o = delta -> "ADD_VALUES"
                             [] o = delete -> "DELETE"]
MCPriorityOf == [o \in Ops |-> IF o \in {createSoon, update} THEN "interactive" ELSE "batch"]
MCPartitionOf == [o \in Ops |-> d1]
MCLanes == {MCLaneOf[o] : o \in Ops}
MCInstances == {MCInstanceOf[o] : o \in Ops}
MCConcurrency == [i \in Instances |-> MaxCap]
\* The default interactiveSliceFraction, 0.2: a fifth.
MCSliceNum == [i \in Instances |-> 1]

=============================================================================
