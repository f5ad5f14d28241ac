\* As CalibrationSend_safety, with an operator who also releases unclaimed approvals.
CONSTANTS
    Sessions = {s1}
    Tickets = {t1, t2}
    Approvers = {a1}
    Bookers = {b1}
    Submitters = {w1, w2}
    MaxPerTrade = 1
    MaxSpend = 2
    ReleaseUnsent = TRUE
    NoSession = NoSession
    NoTicket = NoTicket

SPECIFICATION Spec
SYMMETRY Symmetry
INVARIANTS
    OneUnresolvedAttempt
