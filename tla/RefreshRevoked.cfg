CONSTANTS
  Users = {u1}
  Admins = {}
  Requests = {r1}
  NoUser = NoUser
  NoToken = NoToken
  TempLife = 1
  AccessLife = 1
  RefreshLife = 2
  MaxTime = 1
  MaxJti = 4
  MaxSession = 1
  MaxEdits = 1
SPECIFICATION Spec
PROPERTY RefreshHonoursRevocation
CHECK_DEADLOCK FALSE
