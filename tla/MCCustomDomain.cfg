SPECIFICATION Spec
CONSTANTS
    h = h
    d1 = d1
    d2 = d2
    Domain = {d1, d2}
    Host = {h}
    HostOf <- MCHostOf
    Job = {j1, j2}
    Faults = {"cf", "kv", "db", "crash"}
    NoDomain = NoDomain
SYMMETRY Symmetry
INVARIANTS
    TypeOK
    RoutedWasValidated
    ActiveIsRouted
CHECK_DEADLOCK FALSE
