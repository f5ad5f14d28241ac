\* One session, two tickets, two submitting processes.
CONSTANTS
    Sessions = {s1}
    Tickets = {t1, t2}
    Approvers = {a1}
    Bookers = {b1}
    Submitters = {w1, w2}
    MaxPerTrade = 1
    MaxSpend = 2
    ReleaseUnsent = FALSE
    NoSession = NoSession
    NoTicket = NoTicket

SPECIFICATION Spec
SYMMETRY Symmetry
INVARIANTS
    SendTypeOK
    OneSendPerApproval
    SendIsRecorded
    OneOrderAtVenue
    OneUnresolvedAttempt
