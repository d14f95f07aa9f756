CONSTANTS
  p1 = p1
  p2 = p2
  u1 = u1
  u2 = u2
  c1 = c1
  c2 = c2
  Proc = {p1, p2}
  User = {u1, u2}
  Chain = {c1, c2}
  NoProc = NoProc
  NoUser = NoUser
  NoToken = NoToken
  Ops = {"login", "resolve", "logout", "role"}
  RotationSecret = TRUE
  TTL = 4
  Window = 1
  Grace = 2
  MaxGen = 2
  MaxTime = 4
  TxTime = 1
SPECIFICATION FairSpec
PROPERTIES
  OnlyOwnSessionsAreDeleted
  RequestsFinish
CHECK_DEADLOCK FALSE
