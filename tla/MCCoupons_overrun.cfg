CONSTANTS
  p1 = p1
  p2 = p2
  u1 = u1
  u2 = u2
  k1 = k1
  k2 = k2
  NoUser = NoUser
  NoCode = NoCode
  Proc = {p1, p2}
  User = {u1, u2}
  Code = {k1, k2}
  Limits <- MCLimits
  Edits = {"code"}
  MaxId = 2
SPECIFICATION Spec
SYMMETRY Symmetry
INVARIANTS
  AtMostMaxUses
CHECK_DEADLOCK FALSE
