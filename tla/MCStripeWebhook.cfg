SPECIFICATION Spec
CONSTANTS
    Sub = {s1, s2}
    NoSub = NoSub
    MaxVersion = 2
    MaxEvents = 3
    Key <- MCKey
    NoKey = NoKey
    Handler = {h1, h2, h3}
    Faults = {"db", "crash"}
SYMMETRY Symmetry
INVARIANTS
    TypeOK
    NoInvention
    CaughtUp
CHECK_DEADLOCK FALSE
