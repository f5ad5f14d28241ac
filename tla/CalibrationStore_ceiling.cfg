\* One session whose ceiling fits one ticket; one request at a time.
CONSTANTS
    Sessions = {s1}
    Tickets = {t1, t2}
    Approvers = {a1}
    Bookers = {b1}
    MaxPerTrade = 1
    MaxSpend = 1
    NoSession = NoSession
    NoTicket = NoTicket

SPECIFICATION StoreSpec
SYMMETRY Symmetry
INVARIANTS
    CeilingHolds
