\* One fill, two detecting processes, two dispatchers, two channels; no symmetry,
\* because of the liveness property.
CONSTANTS
    Trades = {t1}
    Procs = {p1, p2}
    Dispatchers = {d1, d2}
    NoProc = NoProc
    NoTrade = NoTrade
    NumKinds = 2
    BatchLimit = 1
    MaxDetections = 3
    MaxFaults = 2

SPECIFICATION FairSpec
INVARIANTS
    TypeOK
    FanOutOnce
    HistoryIsSilent
    DeliveredAtMostOnce
PROPERTIES
    QueueDrains
    KeepsPromise
