SPECIFICATION Spec
CONSTANTS
    Exec = {e1, e2, e3}
    f = f
    g = g
    o1 = o1
    o2 = o2
    i1 = i1
    i2 = i2
    Fn <- MCFn
    Org <- MCOrg
    Isolate <- MCIsolate
    OrgOf <- MCOrgOf
    RequireAuth <- MCRequireAuth
    Host <- MCHost
    MaxDepth <- MCMaxDepth
    MaxCalls = 1
    MaxClients = 2
    Claims <- MCNoClaim
    Faults = {"call"}
    Unknown = Unknown
    NoExec = NoExec
    NoIsolate = NoIsolate
SYMMETRY Symmetry
INVARIANTS
    LineagePreserved
CHECK_DEADLOCK FALSE
