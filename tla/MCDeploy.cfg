SPECIFICATION PartSpec
CONSTANTS
    \* Deploy
    Fn = {f1, f2}
    Slug = {s1, s2}
    Version = {v1, v2}
    Actor = {a1, a2}
    Visit = {r1}
    None = None
    MaxActive = 1
    Outages = {"db", "edge", "crash"}
    \* InboundMail
    k1 = k1
    k2 = k2
    a = a
    b = b
    Handler = {a1, a2}
    Key = {k1, k2}
    NoKey = NoKey
    Faults = {"db", "crash"}
    Address = {a, b}
    Recipients <- MCRecipients
SYMMETRY Symmetry
INVARIANTS
    PartTypeOK
    StaleIsAccountedFor
    ServedIsUploaded
    FailedIsNotServed
    MailRunsOnce
    ProcessedMailIsHandled
CHECK_DEADLOCK FALSE
