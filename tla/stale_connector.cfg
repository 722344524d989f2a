SPECIFICATION Spec
CONSTANTS
  v1 = v1
  v2 = v2
  v3 = v3
  s1 = s1
  s2 = s2
  a1 = a1
  Versions = {v1, v2}
  Searches = {s1, s2}
  Attempts = {a1}
  Holders <- MCHolders
  MaxBuilds = 3
  Bad = {}
  MaxEdits = 1
INVARIANTS LeaseIsCurrent
CHECK_DEADLOCK FALSE
