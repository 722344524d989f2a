-------------------------- MODULE MCOperationStore --------------------------
(***************************************************************************)
(* Constants for TLC: a configuration picks its operations from a cast     *)
(* with the columns given here.                                            *)
(***************************************************************************)
EXTENDS OperationStore

CONSTANTS
  create,     \* batch create on lane l1, of day d1
  createSoon, \* interactive create of the same name, so on the same lane, of day d2
  delete,     \* batch delete on lane l2, of day d1
  update,     \* batch update on lane l3, of day d1, of a second instance
  i1, i2, l1, l2, l3, d1, d2

MCInstanceOf == [o \in Ops |-> IF o = update THEN i2 ELSE i1]
MCLaneOf == [o \in Ops |-> CASE o \in {create, createSoon} -> l1 [] o = delete -> l2 [] o = update -> l3]
MCTypeOf == [o \in Ops |-> CASE o \in {create, createSoon} -> "CREATE" [] o = update -> "UPDATE" [] o = delete -> "DELETE"]
MCPriorityOf == [o \in Ops |-> IF o = createSoon THEN "interactive" ELSE "batch"]
MCPartitionOf == [o \in Ops |-> IF o = createSoon THEN d2 ELSE d1]
MCInstances == {MCInstanceOf[o] : o \in Ops}
MCLanes == {MCLaneOf[o] : o \in Ops}
MCPartitions == {MCPartitionOf[o] : o \in Ops}

(***************************************************************************)
(* The backlogs the claim query can meet, reached without the calls that   *)
(* only end or repeat operations: arrivals in every order, claims of one   *)
(* row at a time, read-back waits and their end.                           *)
(***************************************************************************)
BacklogNext ==
  \/ \E o \in Ops : \/ EnqueueBegin(o) \/ EnqueueCommit(o)
                    \/ TypeOf[o] = "CREATE" /\ (TimePasses(o) \/ DeferForReadback(o))
  \/ \E o \in Picked(1, {}, [i \in Instances |-> [totalFree |-> MaxCap, batchFree |-> MaxCap]]) :
       Claim({o}) /\ UNCHANGED <<history, picked>>

BacklogSpec == StoreInit /\ [][BacklogNext]_storeVars
=============================================================================
