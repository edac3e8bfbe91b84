CHECK_DEADLOCK FALSE
SPECIFICATION FairSpec
CONSTANTS
  i1 = i1
  i2 = i2
  c1 = c1
  c2 = c2
  Ids = {i1, i2}
  Calls = {c1, c2}
  Arguments <- MCArguments
INVARIANTS
  TypeOK
  NothingLeftBehind
  OutcomeEarned
  AnswersUsedOnce
  AckFindsCall
  IInv
PROPERTIES
  ImplementsRequests
  EveryCallReturns
