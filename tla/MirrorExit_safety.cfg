\* One trade task and the position lane, three shares of his and two of ours:
\* a trim of one share is below the floor, one of two is not, and both trims
\* together are out.  The system stops when he is out by a merge and nothing
\* is left to sell.
CONSTANTS
    Callers = {c1}
    Lane = Lane
    TradeIds = {x1, x2}
    NoTrade = NoTrade
    Bought = 3
    Copied = 2
    MinExit = 40
    FullExit = 95
    MaxOthers = 1
    MaxCrashes = 1

SPECIFICATION FairSpec
CHECK_DEADLOCK FALSE
INVARIANTS
    TypeOK
    OneClaimant
    LedgerAgreesWithVenue
    NotSoldPastTheWhale
PROPERTIES
    NoClaimForever
