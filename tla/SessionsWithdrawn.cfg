CONSTANTS
  Users = {u1, u2}
  Admins = {u2}
  Requests = {r1}
  NoUser = NoUser
  NoToken = NoToken
  TempLife = 1
  AccessLife = 1
  RefreshLife = 2
  MaxTime = 2
  MaxJti = 4
  MaxSession = 1
  MaxEdits = 1
SPECIFICATION Spec
INVARIANT CronSparesLiveTokens
PROPERTY AdmittedByLiveSession
CHECK_DEADLOCK FALSE
