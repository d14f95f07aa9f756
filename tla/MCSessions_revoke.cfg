CONSTANTS
  p1 = p1
  p2 = p2
  u1 = u1
  c1 = c1
  Proc = {p1, p2}
  User = {u1}
  Chain = {c1}
  NoProc = NoProc
  NoUser = NoUser
  NoToken = NoToken
  Ops = {"login", "resolve", "revoke"}
  RotationSecret = TRUE
  TTL = 4
  Window = 2
  Grace = 1
  MaxGen = 2
  MaxTime = 3
  TxTime = 1
SPECIFICATION Spec
SYMMETRY Symmetry
PROPERTIES
  RevokeEndsItsLineages
CHECK_DEADLOCK FALSE
