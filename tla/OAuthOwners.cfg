CONSTANTS
  Users = {u1, u2}
  Clients = {c1, c2}
  Requests = {r1}
  Perms = {p1}
  NoClient = NoClient
  MaxId = 3
  MaxEdits = 1
SPECIFICATION Spec
SYMMETRY Symmetry
INVARIANTS
  GrantOfItsCode
  NothingOutlivesItsUser
PROPERTY OthersGrantsSurvive
CHECK_DEADLOCK FALSE
