\* The reaper releases a row under the call that is selling it; what a comment
\* of execute_copy says is then refuted.
CONSTANTS
    Callers = {c1}
    Lane = Lane
    TradeIds = {x1, x2}
    NoTrade = NoTrade
    Bought = 3
    Copied = 2
    MinExit = 40
    FullExit = 95
    MaxOthers = 1
    MaxCrashes = 1

SPECIFICATION Spec
CHECK_DEADLOCK FALSE
INVARIANT
    RetryCannotDoubleSell
