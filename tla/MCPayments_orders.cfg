CONSTANTS
  p1 = p1
  p2 = p2
  o1 = o1
  o2 = o2
  u1 = u1
  lite = lite
  x1 = x1
  a1 = a1
  a2 = a2
  Proc = {p1, p2}
  Order = {o1, o2}
  User = {u1}
  Plan = {lite}
  Price = {x1}
  Account = {a1, a2}
  Free = Free
  Grant = Grant
  NoOrder = NoOrder
  NoUser = NoUser
  NoPrice = NoPrice
  NoAccount = NoAccount
  Duration = 1
  Validity = 1
  Ops = {"order", "pay", "grant", "revoke", "settings", "fail"}
  MaxTime = 1
  MaxSubs = 2
SPECIFICATION Spec
SYMMETRY Symmetry
INVARIANTS
  OrdersBuyOneSubscription
  RevokedUsersAreFree
PROPERTIES
  PaidTimeIsKept
CHECK_DEADLOCK FALSE
