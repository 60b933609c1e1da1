----------------------------- MODULE MCSessions -----------------------------
\* A small instance of Sessions, and of JwksCache within it, for TLC.
EXTENDS Sessions, TLC

CONSTANTS u1, managers, manager

MCRoleOf == managers :> manager
MCGroups == u1 :> {managers}
MCRoutes == {{manager}}
MCId == u1 :> 1
MCLoginFaults == {"ic", "cognito", "read", "write"}
=============================================================================
