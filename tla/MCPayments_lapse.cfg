CONSTANTS
  p1 = p1
  o1 = o1
  u1 = u1
  lite = lite
  x1 = x1
  a1 = a1
  Proc = {p1}
  Order = {o1}
  User = {u1}
  Plan = {lite}
  Price = {x1}
  Account = {a1}
  Free = Free
  Grant = Grant
  NoOrder = NoOrder
  NoUser = NoUser
  NoPrice = NoPrice
  NoAccount = NoAccount
  Duration = 1
  Validity = 1
  Ops = {"order", "pay"}
  MaxTime = 2
  MaxSubs = 1
SPECIFICATION Spec
SYMMETRY Symmetry
INVARIANTS
  OnlyUndatedPlansLast
CHECK_DEADLOCK FALSE
