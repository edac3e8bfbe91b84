CHECK_DEADLOCK FALSE
SPECIFICATION LoginSpec
CONSTANTS
  t1 = t1
  n1 = n1
  n2 = n2
  Null = Null
  Blank = blank
  DefaultUser = user
  SecureStringText = s1
  Id = id1
  Version = n1
  Time = n2
  UserNames = {t1}
  Passwords = {p1}
  Intervals = {0, 1}
  Texts = {t1, s1, p1, blank, user, id1}
  Numbers = {n1, n2}
  Messages <- MCMessages
INVARIANTS
  TypeOK
  OneValue
  RoundTrip
  LoginAsBuilt
  LoginInv
