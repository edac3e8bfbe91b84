CHECK_DEADLOCK FALSE
SPECIFICATION SyncSpec
CONSTANTS
  a1 = a1
  c1 = c1
  Apps = {a1, c1}
  Callers = {c1}
  Calls = {"Connect", "Close", "SendMessage"}
  Offered <- MCOffered
  PushTypes = {"EventAck", "QueryRequestAck"}
  MaxErrors = 0
  MaxInbox = 1
  MaxPushes = 1
  Ids = {}
  Arguments <- MCArguments
INVARIANTS
  AckIsReal
  FailureIsReal
  RefusedOutside
  SyncInv
PROPERTIES
  TableKept
