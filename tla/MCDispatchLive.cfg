SPECIFICATION FairSpec
CONSTANTS
    Exec = {e1, e2}
    f = f
    g = g
    o1 = o1
    o2 = o2
    i1 = i1
    i2 = i2
    Fn <- MCFn
    Org <- MCOrg
    Isolate <- MCIsolate
    OrgOf <- MCOrgOf
    RequireAuth <- MCRequireAuth
    Host <- MCHost
    MaxDepth <- MCMaxDepth
    MaxCalls = 1
    MaxClients = 2
    Claims <- MCClaims
    Faults = {"auth", "register", "expire", "vanish", "resolve", "call", "delete"}
    Unknown = Unknown
    NoExec = NoExec
    NoIsolate = NoIsolate
INVARIANTS
    DeniedForCause
PROPERTIES
    CallEnds
CHECK_DEADLOCK FALSE
