CONSTANTS
  a1 = a1
  a2 = a2
  p1 = p1
  e1 = e1
  e2 = e2
  Users = {u1, u2}
  Accounts = {a1, a2}
  Providers = {p1}
  ProviderOf <- MCProviderOf
  Emails = {e1, e2}
  EmailOf <- MCEmailOf
  Requests = {r1, r2}
  NoUser = NoUser
  None = None
  MaxState = 1
  MaxRow = 2
SPECIFICATION Spec
SYMMETRY Symmetry
INVARIANTS
  TypeOK
  PasswordlessKeepsProvider
  LoginEndsState
PROPERTIES
  ProfileKeepsOwner
  ProvidersFromCreation
CHECK_DEADLOCK FALSE
