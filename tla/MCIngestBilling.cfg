SPECIFICATION Spec
CONSTANTS
    e1 = e1
    e2 = e2
    Exec = {e1, e2}
    Key <- MCKey
    NoKey = NoKey
    Handler = {h1, h2, h3}
    Faults = {}
SYMMETRY Symmetry
INVARIANTS
    OneRowPerExecution
CHECK_DEADLOCK FALSE
