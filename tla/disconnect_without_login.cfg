SPECIFICATION Spec
CONSTANTS
  a1 = a1
  Apps = {a1}
  Calls = {"Connect", "Close"}
  Offered = {}
  PushTypes = {}
  MaxErrors = 0
  MaxInbox = 1
  MaxPushes = 0
INVARIANTS
  DisconnectAfterLogin
