CONSTANTS
  Users = {u1}
  Issuer = issuer
  Requests = {r1, r2}
  NoUser = NoUser
  MaxId = 4
SPECIFICATION Spec
SYMMETRY Symmetry
INVARIANTS
  TypeOK
  DisabledIsOff
  EnabledWasTold
  LockHasRequest
PROPERTY OnlyOverlapReplaces
CHECK_DEADLOCK FALSE
