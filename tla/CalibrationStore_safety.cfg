\* Two sessions and two tickets of one or two units, two requests and two booking
\* processes at once.
CONSTANTS
    Sessions = {s1, s2}
    Tickets = {t1, t2}
    Approvers = {a1, a2}
    Bookers = {b1, b2}
    MaxPerTrade = 1
    MaxSpend = 1
    NoSession = NoSession
    NoTicket = NoTicket

SPECIFICATION StoreSpec
SYMMETRY Symmetry
INVARIANTS
    OneOpenLifecycle
    CashIsCovered
    SpentIsBooked
    
PROPERTIES
    OnlyCrossingLowers
