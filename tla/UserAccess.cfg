CONSTANTS
  Requests = {r1}
  Servers = {s1}
  Names = {n1}
  AdminEmails = {atDomain}
  AlikeEmails = {atAlike}
  OtherEmails = {endless}
  UnsentLogins = {endless}
  LongPasswords = {long}
  UnsentPasswords = {unsent}
  NoRow = NoRow
  NoPass = NoPass
  MaxId = 2
  MaxFaults = 1
SPECIFICATION Spec
INVARIANTS
  TypeOK
  ServedInSync
PROPERTIES
  RightPasswordRefused
  RolesOnlyStripped
  MasksMatchRoles
  ComesUp
CHECK_DEADLOCK FALSE
