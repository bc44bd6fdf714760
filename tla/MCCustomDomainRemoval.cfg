SPECIFICATION Spec
CONSTANTS
    h = h
    d1 = d1
    d2 = d2
    Domain = {d1, d2}
    Host = {h}
    HostOf <- MCHostOf
    Job = {j1, j2}
    Faults = {}
    NoDomain = NoDomain
SYMMETRY Symmetry
INVARIANTS
    RemovalStopsRouting
CHECK_DEADLOCK FALSE
