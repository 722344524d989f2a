SPECIFICATION StoreSpec
CONSTANTS
  create = create
  createSoon = createSoon
  delete = delete
  update = update
  i1 = i1
  i2 = i2
  l1 = l1
  l2 = l2
  l3 = l3
  d1 = d1
  d2 = d2
  Ops = {create, createSoon, delete}
  Claimers = {c1}
  Instances <- MCInstances
  Lanes <- MCLanes
  Partitions <- MCPartitions
  InstanceOf <- MCInstanceOf
  LaneOf <- MCLaneOf
  TypeOf <- MCTypeOf
  PriorityOf <- MCPriorityOf
  PartitionOf <- MCPartitionOf
  MaxCap = 2
  MaxRequeues = 1
INVARIANTS StoreTypeOK LaneHeld HistoryAgrees
PROPERTIES PromiseKept
CHECK_DEADLOCK FALSE
