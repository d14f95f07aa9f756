CONSTANTS
  p1 = p1
  p2 = p2
  p3 = p3
  u1 = u1
  c1 = c1
  Proc = {p1, p2, p3}
  User = {u1}
  Chain = {c1}
  NoProc = NoProc
  NoUser = NoUser
  NoToken = NoToken
  Ops = {"login", "resolve", "logout", "revoke", "reset", "role"}
  RotationSecret = TRUE
  TTL = 4
  Window = 2
  Grace = 1
  MaxGen = 2
  MaxTime = 6
  TxTime = 1
SPECIFICATION Spec
SYMMETRY Symmetry
INVARIANTS
  EndedLineagesStayDead
  OldTokensDie
  InsertNeverConflicts
  NoLogoutDeadlock
PROPERTIES
  HandedOutTokenIsLive
CHECK_DEADLOCK FALSE
