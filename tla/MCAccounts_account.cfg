CONSTANTS
  p1 = p1
  p2 = p2
  u1 = u1
  u2 = u2
  NoUser = NoUser
  Proc = {p1, p2}
  User = {u1, u2}
  Founder = u1
  Client = {u2}
  MaxToken = 3
  MaxKey = 3
  MaxLost = 1
  Scenes <- MCScenes
SPECIFICATION Spec
SYMMETRY Symmetry
INVARIANTS
  AnAdministratorRemains
  UsedTokensAreGone
  AvatarsAreStored
CHECK_DEADLOCK FALSE
