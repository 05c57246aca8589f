CONSTANTS
  x = x
  g = g
  ax = ax
  ag = ag
  r1 = r1
  r2 = r2
  u1 = u1
  u2 = u2
  Users = {u1, u2}
  Accounts = {ax, ag}
  ProviderOf <- MCProviderOf
  Pkce = {x}
  Requests = {r1, r2}
  NoUser = NoUser
  None = None
  MaxState = 3
  MaxCode = 3
  MaxRow = 3
SPECIFICATION Spec
SYMMETRY Symmetry
INVARIANTS
  TypeOK
  PkceBindsState
PROPERTY UnlinkLeavesNone
CHECK_DEADLOCK FALSE
