CONSTANTS
  Users = {u1, u2}
  Admins = {}
  Requests = {r1, r2}
  NoUser = NoUser
  NoToken = NoToken
  TempLife = 1
  AccessLife = 1
  RefreshLife = 2
  MaxTime = 0
  MaxJti = 4
  MaxSession = 2
  MaxEdits = 0
SPECIFICATION Spec
SYMMETRY Symmetry
INVARIANTS
  TypeOK
  BareTokenRefused
  SessionOwnsToken
  MfaNotBypassed
CHECK_DEADLOCK FALSE
