SPECIFICATION FairSpecNamed
CONSTANTS
  create = create
  createSoon = createSoon
  update = update
  delta = delta
  delete = delete
  i1 = i1
  i2 = i2
  l1 = l1
  l2 = l2
  l3 = l3
  d1 = d1
  Ops = {create, delete}
  Claimers = {r1}
  Instances <- MCInstances
  Lanes <- MCLanes
  InstanceOf <- MCInstanceOf
  LaneOf <- MCLaneOf
  TypeOf <- MCTypeOf
  PriorityOf <- MCPriorityOf
  PartitionOf <- MCPartitionOf
  Concurrency <- MCConcurrency
  BatchSlots <- ResolvedSlots
  SliceNum <- MCSliceNum
  SliceDen = 5
  Partitions = {d1}
  MaxCap = 1
  MaxRequeues = 2
  MaxLimit = 2
  MaxAttempts = 2
  RateLimited = {}
  NameSearch = {i1, i2}
  IdempotentDelta = {}
  EnforcesNames = {}
  AmbiguousErrors = FALSE
  SlowAttempts = FALSE
  MaxFaults = 2
PROPERTIES EveryOperationAnswered
CHECK_DEADLOCK FALSE
