\* One session and two of its tickets, booked by two processes at once.
CONSTANTS
    Sessions = {s1}
    Tickets = {t1, t2}
    Approvers = {a1}
    Bookers = {b1, b2}
    MaxPerTrade = 1
    MaxSpend = 2
    NoSession = NoSession
    NoTicket = NoTicket

SPECIFICATION StoreSpec
PROPERTIES
    SpentNeverFalls
