SPECIFICATION FairSessions
CONSTANTS
  u1 = u1
  managers = managers
  manager = manager
  Request = {r1, r2}
  LastKey = 2
  Client = {app}
  Recognised = {app}
  Group = {managers}
  RoleOf <- MCRoleOf
  NoRole = NoRole
  Route <- MCRoutes
  Faults = {"fetch"}
  Visit = {v1}
  User = {u1}
  NoUser = NoUser
  Groups <- MCGroups
  IcId <- MCId
  QsId <- MCId
  InQs = {u1}
  AppClient = app
  SsoClient = app
  Configured = TRUE
  LoginFaults <- MCLoginFaults
INVARIANTS UnknownHasCause EntryIsConsented
PROPERTIES FalseRejectionsStop AskedAgainHasCause
