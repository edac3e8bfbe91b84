CHECK_DEADLOCK FALSE
SPECIFICATION Spec
CONSTANTS
  a1 = a1
  Apps = {a1}
  Calls = {"Connect"}
  Offered = {}
  PushTypes = {}
  MaxErrors = 0
  MaxInbox = 1
  MaxPushes = 0
INVARIANTS
  OpenedAsExpected
