SPECIFICATION FairSpec
CONSTANTS
  a1 = a1
  Apps = {a1}
  Calls = {"Connect", "Close"}
  Offered = {}
  PushTypes = {}
  MaxErrors = 1
  MaxInbox = 1
  MaxPushes = 0
PROPERTIES
  ConnectAnswered
  FailureTold
  EndTold
