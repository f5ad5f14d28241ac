--------------------------- MODULE CalibrationStore ---------------------------
(***************************************************************************)
(* The calibration budget: calibration_store.py with the arithmetic of     *)
(* calibration.py, over the tables calibration_sessions and                *)
(* calibration_lifecycles (migrations 065 to 067).                         *)
(*                                                                         *)
(* A human approves one ticket at a time; reserve() sets its whole cost    *)
(* aside, the venue takes cash while its order can still fill, book_cash() *)
(* writes the venue's cumulative total down, and release() gives the       *)
(* reserve back.  Several API instances and booking processes run these at *)
(* once: each await is a step of its own, and what a statement cannot see  *)
(* (a snapshot taken before another commit) it does not see.               *)
(*                                                                         *)
(* Money is counted in units.  A ticket whose venue and environment are    *)
(* not its session's is refused with nothing written, as is one that fails *)
(* any other check of its own fields: neither is enumerated.               *)
(***************************************************************************)
EXTENDS Naturals, FiniteSets, Functions

CONSTANTS
    Sessions,     \* calibration_sessions rows: one venue and environment each
    Tickets,      \* client order ids
    Approvers,    \* requests that may run reserve() at the same time
    Bookers,      \* connections that may run book_cash() at the same time
    MaxPerTrade,  \* MAX_ALL_IN_COST_PER_TRADE_LIFECYCLE
    MaxSpend,     \* MAX_SESSION_CUMULATIVE_SPEND
    NoSession, NoTicket

ASSUME LimitsAssumption == MaxPerTrade \in Nat \ {0} /\ MaxSpend \in Nat
ASSUME NoneAssumption == NoSession \notin Sessions /\ NoTicket \notin Tickets

\* A ticket's all-in cost; the dearest is one unit over the limit.
Costs == 1..(MaxPerTrade + 1)

\* SUBMITTED stands for itself and for EXIT_CONSIDERED, EXIT_SUBMITTED and
\* EXIT_FILLED, which every check and the index treat like it.
OpenStates == {"APPROVED", "SUBMITTED"}

VARIABLES
    spent,    \* calibration_sessions.spent_usd
    stopped,  \* calibration_sessions.stopped
    life,     \* calibration_lifecycles, by client_order_id
    order,    \* the ticket's order at the venue
    paid,     \* cash that order has taken out of the account
    req,      \* each approver: the reserve() it is in, and what it has read
    booking,  \* each booker: the book_cash() transaction it is in
    crossed   \* sessions of which a booking committed under another's sum (history)

ledgerVars == <<spent, stopped, life, crossed>>
storeVars == <<ledgerVars, order, paid, req, booking>>

NoRow == [state |-> "absent", session |-> NoSession, cost |-> 0, booked |-> 0]

NoReq == [pc |-> "idle", ticket |-> NoTicket, session |-> NoSession, cost |-> 0,
          spent |-> 0, stopped |-> FALSE]

NoBooking == [pc |-> "idle", ticket |-> NoTicket, total |-> 0, sum |-> 0]

\* ensure_session: the rows exist, with the limits they were opened under.
StoreInit ==
    /\ spent = [s \in Sessions |-> 0]
    /\ stopped = [s \in Sessions |-> FALSE]
    /\ life = [t \in Tickets |-> NoRow]
    /\ order = [t \in Tickets |-> "none"]
    /\ paid = [t \in Tickets |-> 0]
    /\ req = [a \in Approvers |-> NoReq]
    /\ booking = [b \in Bookers |-> NoBooking]
    /\ crossed = {}

IsOpen(t) == life[t].state \in OpenStates
OfSession(s) == {t \in Tickets : life[t].session = s}

\* calibration.reserved: the full reserve of every lifecycle that is open.
Reserved(s) == SumFunctionOnSet([t \in Tickets |-> life[t].cost], {t \in OfSession(s) : IsOpen(t)})

\* Each lifecycle's high-water mark of cash.
Booked == [t \in Tickets |-> life[t].booked]

-----------------------------------------------------------------------------
(* reserve: load() reads the session row and then the lifecycles, in two     *)
(* statements of no common transaction, and the INSERT is a third.           *)

LoadSession(a, t, s, cost) ==
    /\ req[a].pc = "idle"
    /\ req' = [req EXCEPT ![a] = [pc |-> "lifecycles", ticket |-> t, session |-> s,
                                  cost |-> cost, spent |-> spent[s], stopped |-> stopped[s]]]
    /\ UNCHANGED <<ledgerVars, order, paid, booking>>

\* Mutant: the two limits of money are not looked at.
AdmissibleAtAnyCost(r) ==
    /\ ~r.stopped
    /\ \A t \in OfSession(r.session) : ~IsOpen(t)

\* The refusals that depend on the ledger: the stop, the two limits of money
\* (what remains is the ceiling less spent and reserved, never negative) and
\* an open lifecycle of this session.
Admissible(r) ==
    /\ ~r.stopped
    /\ r.cost <= MaxPerTrade
    /\ r.cost + r.spent + Reserved(r.session) <= MaxSpend
    /\ \A t \in OfSession(r.session) : ~IsOpen(t)

LoadLifecycles(a) ==
    /\ req[a].pc = "lifecycles"
    /\ req' = [req EXCEPT ![a] = IF Admissible(@) THEN [@ EXCEPT !.pc = "insert"] ELSE NoReq]
    /\ UNCHANGED <<ledgerVars, order, paid, booking>>

\* Mutant: the table has no calibration_one_open_lifecycle index.
InsertWithoutIndex(a) ==
    /\ req[a].pc = "insert"
    /\ LET r == req[a] IN
       life' = IF life[r.ticket].state = "absent"
               THEN [life EXCEPT ![r.ticket] = [state |-> "APPROVED", session |-> r.session,
                                                cost |-> r.cost, booked |-> 0]]
               ELSE life
    /\ req' = [req EXCEPT ![a] = NoReq]
    /\ UNCHANGED <<spent, stopped, crossed, order, paid, booking>>

\* UNIQUE (client_order_id) and the partial unique index over the open states
\* of all sessions decide; a violation is reported as a refusal.
InsertLifecycle(a) ==
    /\ req[a].pc = "insert"
    /\ LET r == req[a] IN
       life' = IF life[r.ticket].state = "absent" /\ \A t \in Tickets : ~IsOpen(t)
               THEN [life EXCEPT ![r.ticket] = [state |-> "APPROVED", session |-> r.session,
                                                cost |-> r.cost, booked |-> 0]]
               ELSE life
    /\ req' = [req EXCEPT ![a] = NoReq]
    /\ UNCHANGED <<spent, stopped, crossed, order, paid, booking>>

\* The ledger cannot be read or written, or the API instance goes away.
ReserveFails(a) ==
    /\ req[a].pc # "idle"
    /\ req' = [req EXCEPT ![a] = NoReq]
    /\ UNCHANGED <<ledgerVars, order, paid, booking>>

-----------------------------------------------------------------------------
(* The operator                                                             *)

Stop(s) ==
    /\ stopped' = [stopped EXCEPT ![s] = TRUE]
    /\ UNCHANGED <<spent, life, crossed, order, paid, req, booking>>

Resume(s) ==
    /\ stopped' = [stopped EXCEPT ![s] = FALSE]
    /\ UNCHANGED <<spent, life, crossed, order, paid, req, booking>>

\* A row some book_cash transaction holds FOR UPDATE: other updates wait.
Held(t) == \E b \in Bookers : booking[b].pc # "idle" /\ booking[b].ticket = t

\* advance: an UPDATE by client_order_id alone, so only the index restrains
\* it; RECONCILED is not a state it accepts.
Advance(t, state) ==
    /\ state \in OpenStates
    /\ life[t].state # "absent" /\ ~Held(t)
    /\ \A u \in Tickets \ {t} : ~IsOpen(u)
    /\ life' = [life EXCEPT ![t].state = state]
    /\ UNCHANGED <<spent, stopped, crossed, order, paid, req, booking>>

\* release: likewise by client_order_id alone.  That the order is terminal
\* and the fills are reconciled is what the caller attests.
Release(t) ==
    /\ life[t].state # "absent" /\ ~Held(t)
    /\ life' = [life EXCEPT ![t].state = "RECONCILED"]
    /\ UNCHANGED <<spent, stopped, crossed, order, paid, req, booking>>

\* Mutant: a terminal order is enough, whatever was booked of it.
ReconciledByOrder(t) == order[t] # "live"

\* calibration_execute.lifecycle_reconciled: the order is not at the venue
\* any more and every unit it took is booked.
Reconciled(t) == order[t] # "live" /\ life[t].booked = paid[t]

\* "Move a lifecycle forward": the callers of advance never reopen one.
Moves(t) == {state \in OpenStates : life[t].state \in {"APPROVED", state} /\ IsOpen(t)}

-----------------------------------------------------------------------------
(* book_cash: one transaction of three statements.  The row is read FOR      *)
(* UPDATE, the high-water mark is raised, and the session total is           *)
(* recomputed by a statement whose snapshot shows other lifecycles as they   *)
(* were committed when it began (READ COMMITTED).                            *)

\* Mutant: CALIBRATION_CASH_TOTAL_FELL is not checked, and the mark follows.
BookLockAnyTotal(b, t, total) ==
    /\ booking[b].pc = "idle"
    /\ life[t].state # "absent" /\ ~Held(t)
    /\ booking' = [booking EXCEPT ![b] = [pc |-> "locked", ticket |-> t, total |-> total, sum |-> 0]]
    /\ UNCHANGED <<ledgerVars, order, paid, req>>

\* A total below the high-water mark is refused with nothing written.
BookLock(b, t, total) ==
    /\ booking[b].pc = "idle"
    /\ life[t].state # "absent" /\ ~Held(t)
    /\ total >= life[t].booked
    /\ booking' = [booking EXCEPT ![b] = [pc |-> "locked", ticket |-> t, total |-> total, sum |-> 0]]
    /\ UNCHANGED <<ledgerVars, order, paid, req>>

\* Mutant: the sum is over the lifecycles of every session.
BookSumOfAll(b) ==
    /\ booking[b].pc = "locked"
    /\ booking' = [booking EXCEPT
            ![b].pc = "summed",
            ![b].sum = booking[b].total + SumFunctionOnSet(Booked, Tickets \ {booking[b].ticket})]
    /\ UNCHANGED <<ledgerVars, order, paid, req>>

BookSum(b) ==
    /\ booking[b].pc = "locked"
    /\ LET t == booking[b].ticket
           others == OfSession(life[t].session) \ {t}
       IN booking' = [booking EXCEPT
            ![b].pc = "summed",
            ![b].sum = booking[b].total + SumFunctionOnSet(Booked, others)]
    /\ UNCHANGED <<ledgerVars, order, paid, req>>

\* The session of a booking, if another booking of it has computed its sum:
\* that sum does not have this one's cash, and will be written after it.
Overtaken(b) ==
    {s \in {life[booking[b].ticket].session} :
        \E c \in Bookers \ {b} :
            booking[c].pc = "summed" /\ life[booking[c].ticket].session = s}

BookCommit(b) ==
    /\ booking[b].pc = "summed"
    /\ LET t == booking[b].ticket IN
       /\ life' = [life EXCEPT ![t].booked = booking[b].total]
       /\ spent' = [spent EXCEPT ![life[t].session] = booking[b].sum]
    /\ crossed' = crossed \cup Overtaken(b)
    /\ booking' = [booking EXCEPT ![b] = NoBooking]
    /\ UNCHANGED <<stopped, order, paid, req>>

\* The connection is lost: the transaction rolls back.
BookFails(b) ==
    /\ booking[b].pc # "idle"
    /\ booking' = [booking EXCEPT ![b] = NoBooking]
    /\ UNCHANGED <<ledgerVars, order, paid, req>>

-----------------------------------------------------------------------------
(* The venue, as the ledger relies on it: an order is sent for an open       *)
(* lifecycle, takes at most the all-in cost, and ends.                       *)

VenueOpens(t) ==
    /\ order[t] = "none" /\ IsOpen(t)
    /\ order' = [order EXCEPT ![t] = "live"]
    /\ UNCHANGED <<ledgerVars, paid, req, booking>>

VenuePays(t) ==
    /\ order[t] = "live" /\ paid[t] < life[t].cost
    /\ paid' = [paid EXCEPT ![t] = @ + 1]
    /\ UNCHANGED <<ledgerVars, order, req, booking>>

VenueEnds(t) ==
    /\ order[t] = "live"
    /\ order' = [order EXCEPT ![t] = "terminal"]
    /\ UNCHANGED <<ledgerVars, paid, req, booking>>

-----------------------------------------------------------------------------
ApproverNext(a) ==
    \/ \E t \in Tickets, s \in Sessions, cost \in Costs : LoadSession(a, t, s, cost)
    \/ LoadLifecycles(a) \/ InsertLifecycle(a) \/ ReserveFails(a)

OperatorNext ==
    \/ \E s \in Sessions : Stop(s) \/ Resume(s)
    \/ \E t \in Tickets : \E state \in Moves(t) : Advance(t, state)

\* A reading of the venue's cumulative total may be stale, never ahead.
BookerNext(b) ==
    \/ \E t \in Tickets : \E total \in 0..paid[t] : BookLock(b, t, total)
    \/ BookSum(b) \/ BookCommit(b) \/ BookFails(b)

StoreNext ==
    \/ \E a \in Approvers : ApproverNext(a)
    \/ OperatorNext
    \/ \E t \in Tickets : Reconciled(t) /\ Release(t)
    \/ \E b \in Bookers : BookerNext(b)
    \/ \E t \in Tickets : VenueOpens(t) \/ VenuePays(t) \/ VenueEnds(t)

StoreSpec == StoreInit /\ [][StoreNext]_storeVars

-----------------------------------------------------------------------------
(* Properties                                                               *)

\* "ONE OPEN LIFECYCLE": never two at once, in one session or in two, however
\* many instances checked before they inserted.
OneOpenLifecycle == \A t, u \in Tickets : IsOpen(t) /\ IsOpen(u) => t = u

\* An order that can still fill is covered by an open lifecycle's reserve,
\* and so is cash that left the account and is not booked yet.
CashIsCovered ==
    \A t \in Tickets : order[t] = "live" \/ paid[t] > life[t].booked => IsOpen(t)

\* The cash of a session that its lifecycles' marks record.
Marks(s) == SumFunctionOnSet(Booked, OfSession(s))

\* The session total is never more than the sum of the high-water marks of its
\* lifecycles, each booked to the session that owns it; and it is that sum as
\* long as no two bookings of the session crossed.
SpentIsBooked ==
    \A s \in Sessions :
        /\ spent[s] <= Marks(s)
        /\ s \notin crossed => spent[s] = Marks(s)

\* A status read late, again or out of order lowers no total; only a booking
\* that another one of its session overtook does.
OnlyCrossingLowers ==
    [][\A s \in Sessions : spent'[s] < spent[s] => s \in crossed]_storeVars

\* calibration_store.py: "no path can make the cumulative spend go backwards
\* even by accident"; "it is monotone because every term is".
SpentNeverFalls == [][\A s \in Sessions : spent'[s] >= spent[s]]_storeVars

\* What the session has paid or may still pay.
Stake == [t \in Tickets |-> IF IsOpen(t) THEN life[t].cost ELSE paid[t]]
AtStake(s) == SumFunctionOnSet(Stake, OfSession(s))

\* A reserve decided on figures that went stale can pass the ceiling, but by
\* no more than one ticket per request in flight, as long as the figures only
\* went stale and no crossing lost any.
OvershootBounded ==
    \A s \in Sessions \ crossed : AtStake(s) <= MaxSpend + Cardinality(Approvers) * MaxPerTrade

\* calibration.py: MAX_SESSION_CUMULATIVE_SPEND is a cumulative expenditure
\* ceiling, which survives a second API instance.
CeilingHolds == \A s \in Sessions : spent[s] <= MaxSpend
=============================================================================
