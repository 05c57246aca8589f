CONSTANTS
  Users = {u1}
  Clients = {c1, c2}
  Requests = {r1, r2}
  Perms = {p1}
  NoClient = NoClient
  MaxId = 3
  MaxEdits = 1
SPECIFICATION Spec
SYMMETRY Symmetry
INVARIANTS
  TypeOK
  RevokedStaysRevoked
  RefreshNeedsJwtEdit
PROPERTY ExchangedOnce
CHECK_DEADLOCK FALSE
