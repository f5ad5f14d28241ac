\* Two fills, three blocks, sweeps of one block, one block behind the tip, and
\* one fault anywhere.
CONSTANTS
    Logs = {l1, l2}
    NoLog = NoLog
    MaxBlock = 3
    ConfirmBlocks = 1
    MaxSpan = 1
    MaxFaults = 1
SPECIFICATION FairSpec
INVARIANTS
    TypeOK
    OneRowPerFill
    SweepLeavesNoHole
PROPERTIES
    CursorNeverFallsBack
    SweepRepairs
