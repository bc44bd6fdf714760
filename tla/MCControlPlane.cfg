SPECIFICATION PartSpec
CONSTANTS
    p1 = p1
    p2 = p2
    p3 = p3
    x1 = x1
    x2 = x2
    x3 = x3
    e1 = e1
    e2 = e2
    sliced = sliced
    tidied = tidied
    a = a
    b = b
    \* Ingest
    Exec = {e1, e2}
    Key <- MCKey
    NoKey = NoKey
    Handler <- MCHandler
    Faults = {"db", "crash"}
    \* Usage
    Event <- Pair
    Report <- Process
    Failing = TRUE
    \* Quota
    Slot <- Process
    DayLimit = 2
    MonthLimit = 2
    MaxReport = 2
    MaxLate = 2
    MaxRaise = 2
    \* RateLimit
    Hit <- Process
    Allowed = 2
    RedisFails = TRUE
    \* Assets
    Path <- Three
    README = x3
    Content = {x3}
    Text = {sliced, tidied}
    Cut <- MCCut
    Tidied <- MCTidied
    Nothing = Nothing
    RowId <- MCRowId
    Request <- Process
    MaxFiles = 1
    \* Integrations
    Task <- Process
    Field = {"token", "picks", "sdkKey"}
    \* Cron
    Wake <- Process
    Cronjob = {a, b}
    LastMinute = 1
    Schedule <- MCSchedule
    \* Draft
    Checkout <- Process
    Code <- Three
    NoCode = NoCode
    Published = x3
    \* Marketplace
    Entry <- Pair
    Txn <- MCHandler
    NoTxn = NoTxn
SYMMETRY PartSymmetry
INVARIANTS
    PartTypeOK
    ProcessedIsComplete
    BilledOnRecord
    MeteredOnce
    DailyOvershoot
    WallOvershoot
    WindowCloses
    FilesOvershoot
    BundleIsSnapshot
    ReadmeShown
    NothingLost
    ConnectionIsWhole
    WakeRunsItsMinute
    AcksTellTheTruth
    PushOverwritesTheSeen
    TallyIsCount
PROPERTIES
    BilledAtMostOnce
    ReconnectIsRace
CHECK_DEADLOCK FALSE
