CONSTANTS
  Users = {u1, u2}
  Emails = {e1, e2}
  Requests = {r1, r2}
  NoUser = NoUser
  NoEmail = NoEmail
  MaxCode = 2
SPECIFICATION Spec
PROPERTY PasswordKept
CHECK_DEADLOCK FALSE
