\* Two money callers and two others, two priority slots in a row, two ticks
\* between slots, and a pump that dies once.
CONSTANTS
    Money = {m1, m2}
    Others = {n1, n2}
    Burst = 2
    Interval = 2
    MaxKills = 1
SPECIFICATION FairSpec
INVARIANTS
    TypeOK
    NobodyIsStranded
    StarvationBound
PROPERTIES
    SlotsApart
    ChargedIsServed
    WaitEnds
