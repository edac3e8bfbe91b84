CHECK_DEADLOCK FALSE
SPECIFICATION Spec
CONSTANTS
  a1 = a1
  a2 = a2
  Apps = {a1, a2}
  Calls = {"Connect", "Dispose", "SendMessage"}
  Offered <- MCOffered
  PushTypes <- MCPushTypes
  MaxErrors = 1
  MaxInbox = 1
  MaxPushes = 1
SYMMETRY Symmetry
INVARIANTS
  TypeOK
  IInv
  LoginEarned
  RejectedStaysOut
  DisconnectHasCause
  DataInOrder
  FailureIsOver
  OrderInv
  OpenedOnce
  SentAfterAccept
PROPERTIES
  StateForward
  ImplementsSession
