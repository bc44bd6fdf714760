SPECIFICATION Spec
CONSTANTS
    Sub = {s1, s2}
    NoSub = NoSub
    MaxVersion = 1
    MaxEvents = 2
    Key <- MCKey
    NoKey = NoKey
    Handler = {h1, h2}
    Faults = {"db"}
SYMMETRY Symmetry
INVARIANTS
    ReplayApplies
CHECK_DEADLOCK FALSE
