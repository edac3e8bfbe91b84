CHECK_DEADLOCK FALSE
SPECIFICATION Spec
CONSTANTS
  i1 = i1
  i2 = i2
  c1 = c1
  Ids = {}
  Calls = {c1}
  Arguments <- MCGuidsOnly
INVARIANT
  AckCompletesCall
