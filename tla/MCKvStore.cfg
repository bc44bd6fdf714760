SPECIFICATION Spec
CONSTANTS
    Key = {k1, k2, k3}
    Handler = {h1, h2}
    MaxKeys = 1
    Text = Text
    MaxNumber = 1
    MaxTime = 2
SYMMETRY Symmetry
INVARIANTS
    TypeOK
    QuotaOvershoot
PROPERTIES
    AtomicMap
CHECK_DEADLOCK FALSE
