SPECIFICATION Spec
CONSTANTS
  call = call
  retry = retry
  other1 = other1
  other2 = other2
  batch = batch
  p1 = p1
  p2 = p2
  Rows = {call, retry, other1, other2}
  Keys <- MCKeys
  KeyOf <- MCKeyOf
  Classes = {batch}
  ClassOf <- MCClassOf
  Replicas = {p1}
  RetentionDays = 1
  LookaheadDays = 1
  MaxDay = 2
  Cap = 1
  MaxInFlight = 2
  MaxRunning = 1
INVARIANTS TypeOK TodayCovered KeyRemembered OvershootBounded
PROPERTIES NoLiveRowDropped
SYMMETRY Interchangeable
