----------------------- MODULE CalibrationStore_proofs -----------------------
(***************************************************************************)
(* Proofs about CalibrationStore for every set of sessions, tickets,       *)
(* requests and booking connections and for every limit.                   *)
(*                                                                         *)
(* The first invariant, StoreInv, needs no assumption.  The two about sums *)
(* of money build on it and on the lemmas of FiniteData: that a session's  *)
(* total is the sum of its lifecycles' marks until two bookings of it      *)
(* cross, and never above it, and that a reserve overshoots the ceiling by *)
(* a bounded amount.                                                       *)
(***************************************************************************)
EXTENDS CalibrationStore, FiniteData

USE LimitsAssumption, NoneAssumption

States == OpenStates \cup {"absent", "RECONCILED"}

StoreTyped ==
    /\ spent \in [Sessions -> Nat] /\ stopped \in [Sessions -> BOOLEAN]
    /\ life \in [Tickets -> [state : States, session : Sessions \cup {NoSession},
                             cost : Nat, booked : Nat]]
    /\ \A t \in Tickets : life[t].state # "absent" => life[t].session \in Sessions
    /\ order \in [Tickets -> {"none", "live", "terminal"}]
    /\ paid \in [Tickets -> Nat]
    /\ req \in [Approvers -> [pc : {"idle", "lifecycles", "insert"},
                              ticket : Tickets \cup {NoTicket},
                              session : Sessions \cup {NoSession}, cost : Nat,
                              spent : Nat, stopped : BOOLEAN]]
    /\ \A a \in Approvers : req[a].pc # "idle" =>
            req[a].ticket \in Tickets /\ req[a].session \in Sessions
    /\ booking \in [Bookers -> [pc : {"idle", "locked", "summed"},
                                ticket : Tickets \cup {NoTicket}, total : Nat, sum : Nat]]

\* The table has finitely many rows, though there is no end of order ids, and
\* the ticket of no row is the empty record.
Rows == {t \in Tickets : life[t].session # NoSession}
TableOfRows ==
    /\ IsFiniteSet(Rows)
    /\ \A t \in Tickets : life[t].state = "absent" => life[t] = NoRow

\* A book_cash transaction holds a row of its own, and the total it books is
\* between the high-water mark and what the venue has taken.
BookingsHoldRows ==
    \A b \in Bookers : booking[b].pc # "idle" =>
        LET t == booking[b].ticket IN
        /\ t \in Tickets /\ life[t].state # "absent"
        /\ life[t].booked <= booking[b].total /\ booking[b].total <= paid[t]
        /\ \A c \in Bookers \ {b} : booking[c].pc # "idle" => booking[c].ticket # t

StoreInv ==
    StoreTyped /\ TableOfRows /\ OneOpenLifecycle /\ CashIsCovered /\ BookingsHoldRows

\* A step that changes no ticket's session and empties no row keeps the table.
LEMMA TableStays ==
  ASSUME TableOfRows,
         \A t \in Tickets : \/ life'[t] = life[t]
                            \/ life'[t].session = life[t].session /\ life'[t].state # "absent"
  PROVE  /\ TableOfRows'
         /\ \A s \in Sessions : OfSession(s)' = OfSession(s)
<1>1. Rows' = Rows /\ \A s \in Sessions : OfSession(s)' = OfSession(s)
  BY DEF Rows, OfSession
<1> QED BY <1>1 DEF TableOfRows

\* An INSERT adds a row to it.
LEMMA TableGrows ==
  ASSUME TableOfRows, NEW t \in Tickets, life[t].state = "absent",
         life'[t].session \in Sessions, life'[t].state # "absent",
         \A u \in Tickets \ {t} : life'[u] = life[u]
  PROVE  /\ TableOfRows'
         /\ \A s \in Sessions :
              /\ s = life'[t].session => OfSession(s)' = OfSession(s) \cup {t}
              /\ s # life'[t].session => OfSession(s)' = OfSession(s)
              /\ t \notin OfSession(s)
<1>1. life[t].session = NoSession
  BY DEF TableOfRows, NoRow
<1>2. Rows' = Rows \cup {t}
  BY <1>1 DEF Rows
<1>3. IsFiniteSet(Rows \cup {t})
  BY FS_AddElement DEF TableOfRows
<1> QED BY <1>1, <1>2, <1>3 DEF TableOfRows, OfSession

\* A session's lifecycles are rows, so there are finitely many, and a sum of
\* their money is a sum of naturals.
LEMMA SessionRows ==
  ASSUME StoreInv, NEW s \in Sessions
  PROVE  /\ IsFiniteSet(OfSession(s)) /\ OfSession(s) \subseteq Tickets
         /\ \A t \in OfSession(s) : Booked[t] \in Nat
<1>1. OfSession(s) \subseteq Rows
  BY DEF OfSession, Rows
<1> QED BY <1>1, FS_Subset DEF StoreInv, TableOfRows, OfSession, Booked, StoreTyped

\* The initial state satisfies the invariant: every total is zero.
LEMMA InitStoreInv == StoreInit => StoreInv
<1> SUFFICES ASSUME StoreInit PROVE StoreInv
  OBVIOUS
<1>1. Rows = {}
  BY DEF StoreInit, Rows, NoRow
<1>2. TableOfRows
  BY <1>1, FS_EmptySet DEF TableOfRows, StoreInit
<1>3. StoreTyped
  BY DEF StoreInit, StoreTyped, States, NoRow, NoReq, NoBooking
<1>4. OneOpenLifecycle /\ CashIsCovered /\ BookingsHoldRows
  BY DEF StoreInit, OpenStates, OneOpenLifecycle, CashIsCovered, BookingsHoldRows, IsOpen, NoRow,
         NoBooking
<1> QED BY <1>2, <1>3, <1>4 DEF StoreInv

\* What a step of reserve() does to the invariant.
LEMMA ApproverStep ==
  ASSUME StoreInv, NEW a \in Approvers, ApproverNext(a) PROVE StoreInv'
<1> USE DEF StoreInv
<1>1. ASSUME NEW t \in Tickets, NEW s \in Sessions, NEW cost \in Costs,
             LoadSession(a, t, s, cost)
      PROVE  StoreInv'
  BY <1>1, TableStays DEF LoadSession, ledgerVars, Costs, StoreTyped, OneOpenLifecycle,
     CashIsCovered, BookingsHoldRows, IsOpen
<1>2. CASE LoadLifecycles(a) \/ ReserveFails(a)
  <2>1. req' \in [Approvers -> [pc : {"idle", "lifecycles", "insert"},
                                ticket : Tickets \cup {NoTicket},
                                session : Sessions \cup {NoSession}, cost : Nat,
                                spent : Nat, stopped : BOOLEAN]]
    <3>1. CASE LoadLifecycles(a) /\ Admissible(req[a])
      <4>1. req' = [req EXCEPT ![a] = [req[a] EXCEPT !.pc = "insert"]]
        BY <3>1 DEF LoadLifecycles
      <4> QED BY <4>1 DEF StoreTyped
    <3>2. CASE req' = [req EXCEPT ![a] = NoReq]
      BY <3>2 DEF NoReq, StoreTyped
    <3> QED BY <1>2, <3>1, <3>2 DEF LoadLifecycles, ReserveFails
  <2>2. \A c \in Approvers : req'[c].pc # "idle" =>
            req'[c].ticket \in Tickets /\ req'[c].session \in Sessions
    <3>1. /\ req[a].pc # "idle"
          /\ \/ req' = [req EXCEPT ![a] = [req[a] EXCEPT !.pc = "insert"]]
             \/ req' = [req EXCEPT ![a] = NoReq]
      BY <1>2 DEF LoadLifecycles, ReserveFails
    <3>2. \A c \in Approvers : req[c].pc # "idle" =>
              req[c].ticket \in Tickets /\ req[c].session \in Sessions
      BY DEF StoreTyped
    <3>3. req \in [Approvers -> [pc : {"idle", "lifecycles", "insert"},
                                ticket : Tickets \cup {NoTicket},
                                session : Sessions \cup {NoSession}, cost : Nat,
                                spent : Nat, stopped : BOOLEAN]]
      BY DEF StoreTyped
    <3>4. CASE req' = [req EXCEPT ![a] = [req[a] EXCEPT !.pc = "insert"]]
      BY <3>1, <3>2, <3>3, <3>4
    <3>5. CASE req' = [req EXCEPT ![a] = NoReq]
      BY <3>2, <3>3, <3>5 DEF NoReq
    <3> QED BY <3>1, <3>4, <3>5
  <2>3. UNCHANGED <<ledgerVars, order, paid, booking>>
    BY <1>2 DEF LoadLifecycles, ReserveFails
  <2> QED BY <2>1, <2>2, <2>3, TableStays DEF ledgerVars, StoreTyped,
             OneOpenLifecycle, CashIsCovered, BookingsHoldRows, IsOpen
<1>3. CASE InsertLifecycle(a)
  <2> DEFINE r == req[a]
             row == [state |-> "APPROVED", session |-> r.session, cost |-> r.cost, booked |-> 0]
  <2>1. /\ r.ticket \in Tickets /\ r.session \in Sessions /\ r.cost \in Nat
        /\ UNCHANGED <<spent, stopped, order, paid, booking>>
        /\ req' = [req EXCEPT ![a] = NoReq]
    BY <1>3 DEF InsertLifecycle, StoreTyped
  <2>2. req' \in [Approvers -> [pc : {"idle", "lifecycles", "insert"},
                                ticket : Tickets \cup {NoTicket},
                                session : Sessions \cup {NoSession}, cost : Nat,
                                spent : Nat, stopped : BOOLEAN]]
        /\ \A c \in Approvers : req'[c].pc # "idle" =>
              req'[c].ticket \in Tickets /\ req'[c].session \in Sessions
    BY <2>1 DEF NoReq, StoreTyped
  <2>3. CASE life[r.ticket].state = "absent" /\ \A t \in Tickets : ~IsOpen(t)
    <3>1. life' = [life EXCEPT ![r.ticket] = row]
      BY <1>3, <2>3 DEF InsertLifecycle
    <3>2. /\ life' \in [Tickets -> [state : States, session : Sessions \cup {NoSession},
                                    cost : Nat, booked : Nat]]
          /\ life'[r.ticket] = row
          /\ \A t \in Tickets \ {r.ticket} : life'[t] = life[t]
      BY <2>1, <3>1 DEF StoreTyped, States, OpenStates
    <3>3. StoreTyped'
      BY <2>1, <2>2, <3>2 DEF StoreTyped
    <3>4. OneOpenLifecycle'
      BY <2>3, <3>2 DEF OneOpenLifecycle, IsOpen
    <3>5. CashIsCovered'
      BY <2>1, <3>2 DEF CashIsCovered, IsOpen, OpenStates
    <3>6. BookingsHoldRows'
      BY <2>1, <2>3, <3>2 DEF BookingsHoldRows
    <3>7. TableOfRows'
      BY <2>1, <2>3, <3>2, TableGrows
    <3> QED BY <3>3, <3>4, <3>5, <3>6, <3>7
  <2>4. CASE ~(life[r.ticket].state = "absent" /\ \A t \in Tickets : ~IsOpen(t))
    <3>1. UNCHANGED life
      BY <1>3, <2>4 DEF InsertLifecycle
    <3> QED BY <2>1, <2>2, <3>1, TableStays DEF StoreTyped, OneOpenLifecycle, CashIsCovered,
       BookingsHoldRows, IsOpen
  <2> QED BY <2>3, <2>4
<1> QED BY <1>1, <1>2, <1>3 DEF ApproverNext

\* What the operator's stop, resume and advance do to it.
LEMMA OperatorStep == ASSUME StoreInv, OperatorNext PROVE StoreInv'
<1> USE DEF StoreInv
<1>1. ASSUME NEW s \in Sessions, Stop(s) \/ Resume(s) PROVE StoreInv'
  <2>1. /\ stopped' \in [Sessions -> BOOLEAN]
        /\ UNCHANGED <<spent, life, order, paid, req, booking>>
    BY <1>1 DEF Stop, Resume, StoreTyped
  <2> QED BY <2>1, TableStays DEF StoreTyped, OneOpenLifecycle, CashIsCovered, BookingsHoldRows,
             IsOpen
<1>2. ASSUME NEW t \in Tickets, NEW state \in Moves(t), Advance(t, state) PROVE StoreInv'
  <2>1. /\ life' \in [Tickets -> [state : States, session : Sessions \cup {NoSession},
                                  cost : Nat, booked : Nat]]
        /\ life'[t].state \in OpenStates /\ IsOpen(t)
        /\ life'[t].session = life[t].session /\ life'[t].booked = life[t].booked
        /\ \A u \in Tickets \ {t} : life'[u] = life[u] /\ ~IsOpen(u)
        /\ life[t].state # "absent" /\ life'[t].state # "absent"
        /\ UNCHANGED <<spent, stopped, order, paid, req, booking>>
    BY <1>2 DEF Advance, Moves, StoreTyped, States, OpenStates
  <2>2. StoreTyped'
    BY <2>1 DEF StoreTyped
  <2>3. OneOpenLifecycle'
    BY <2>1 DEF OneOpenLifecycle, IsOpen
  <2>4. CashIsCovered'
    BY <2>1 DEF CashIsCovered, IsOpen
  <2>5. BookingsHoldRows'
    BY <2>1 DEF BookingsHoldRows
  <2>6. TableOfRows'
    BY <2>1, TableStays
  <2> QED BY <2>2, <2>3, <2>4, <2>5, <2>6
<1> QED BY <1>1, <1>2 DEF OperatorNext

\* A release of a reconciled lifecycle: nothing it covered is left.
LEMMA ReleaseStep ==
  ASSUME StoreInv, NEW t \in Tickets, Reconciled(t), Release(t) PROVE StoreInv'
<1> USE DEF StoreInv
<1>1. /\ life' \in [Tickets -> [state : States, session : Sessions \cup {NoSession},
                                cost : Nat, booked : Nat]]
      /\ life'[t].state = "RECONCILED" /\ life[t].state # "absent"
      /\ life'[t].session = life[t].session /\ life'[t].booked = life[t].booked
      /\ \A u \in Tickets \ {t} : life'[u] = life[u]
      /\ UNCHANGED <<spent, stopped, order, paid, req, booking>>
  BY DEF Release, StoreTyped, States
<1>2. StoreTyped'
  BY <1>1 DEF StoreTyped
<1>3. OneOpenLifecycle'
  BY <1>1 DEF OneOpenLifecycle, IsOpen, OpenStates
<1>4. CashIsCovered'
  BY <1>1 DEF CashIsCovered, IsOpen, Reconciled, StoreTyped
<1>5. BookingsHoldRows'
  BY <1>1 DEF BookingsHoldRows
<1>6. TableOfRows'
  BY <1>1, TableStays
<1> QED BY <1>2, <1>3, <1>4, <1>5, <1>6

\* What a step of book_cash does to it: the total it writes is a natural.
LEMMA BookerStep ==
  ASSUME StoreInv, NEW b \in Bookers, BookerNext(b) PROVE StoreInv'
<1> USE DEF StoreInv
<1>1. ASSUME NEW t \in Tickets, NEW total \in 0..paid[t], BookLock(b, t, total)
      PROVE  StoreInv'
  <2>1. /\ total \in Nat /\ total <= paid[t] /\ life[t].booked <= total
        /\ life[t].state # "absent" /\ ~Held(t)
        /\ UNCHANGED <<ledgerVars, order, paid, req>>
        /\ booking' = [booking EXCEPT ![b] = [pc |-> "locked", ticket |-> t,
                                              total |-> total, sum |-> 0]]
    BY <1>1 DEF BookLock, StoreTyped
  <2>2. /\ booking' \in [Bookers -> [pc : {"idle", "locked", "summed"},
                                     ticket : Tickets \cup {NoTicket}, total : Nat, sum : Nat]]
        /\ booking'[b].ticket = t /\ booking'[b].total = total
        /\ \A c \in Bookers \ {b} : booking'[c] = booking[c]
    BY <2>1 DEF StoreTyped
  <2>3. StoreTyped'
    BY <2>1, <2>2 DEF StoreTyped, ledgerVars
  <2>4. BookingsHoldRows'
    BY <2>1, <2>2 DEF BookingsHoldRows, Held, ledgerVars
  <2> QED BY <2>1, <2>3, <2>4, TableStays DEF OneOpenLifecycle, CashIsCovered, IsOpen, ledgerVars
<1>2. CASE BookSum(b)
  <2> DEFINE t == booking[b].ticket
             others == OfSession(life[t].session) \ {t}
  <2>0. PICK n : /\ n = booking[b].total + SumFunctionOnSet(Booked, others)
                 /\ booking' = [booking EXCEPT ![b].pc = "summed", ![b].sum = n]
    BY <1>2 DEF BookSum
  <2>1. /\ t \in Tickets /\ life[t].session \in Sessions /\ booking[b].total \in Nat
        /\ booking[b].pc # "idle"
    BY <1>2 DEF BookSum, BookingsHoldRows, StoreTyped
  <2>2. n \in Nat
    <3>1. IsFiniteSet(others) /\ \A u \in others : Booked[u] \in Nat
      BY <2>1, SessionRows, FS_Subset
    <3> HIDE DEF others
    <3> QED BY <2>0, <2>1, <3>1, SumNat
  <2> HIDE DEF others
  <2>3. UNCHANGED <<ledgerVars, order, paid, req>>
    BY <1>2 DEF BookSum
  <2>4. booking' = [booking EXCEPT ![b].pc = "summed", ![b].sum = n]
    BY <2>0
  <2>5. booking' \in [Bookers -> [pc : {"idle", "locked", "summed"},
                                  ticket : Tickets \cup {NoTicket}, total : Nat, sum : Nat]]
    BY <2>2, <2>4 DEF StoreTyped
  <2>6. StoreTyped' /\ TableOfRows'
    BY <2>3, <2>5, TableStays DEF StoreTyped, ledgerVars
  <2>7. BookingsHoldRows'
    <3>1. /\ booking'[b].ticket = booking[b].ticket /\ booking'[b].total = booking[b].total
          /\ \A c \in Bookers \ {b} : booking'[c] = booking[c]
      BY <2>4 DEF StoreTyped
    <3> QED BY <2>1, <2>3, <3>1 DEF BookingsHoldRows, ledgerVars
  <2> QED BY <2>3, <2>6, <2>7 DEF OneOpenLifecycle, CashIsCovered, IsOpen, ledgerVars
<1>3. CASE BookCommit(b)
  <2> DEFINE t == booking[b].ticket
  <2>1. /\ t \in Tickets /\ life[t].state # "absent" /\ life[t].session \in Sessions
        /\ life[t].booked <= booking[b].total /\ booking[b].total <= paid[t]
        /\ booking[b].total \in Nat /\ booking[b].sum \in Nat
    BY <1>3 DEF BookCommit, BookingsHoldRows, StoreTyped
  <2>2. /\ UNCHANGED <<stopped, order, paid, req>>
        /\ life' = [life EXCEPT ![t].booked = booking[b].total]
        /\ spent' = [spent EXCEPT ![life[t].session] = booking[b].sum]
        /\ booking' = [booking EXCEPT ![b] = NoBooking]
    BY <1>3 DEF BookCommit
  <2>3. /\ life' \in [Tickets -> [state : States, session : Sessions \cup {NoSession},
                                  cost : Nat, booked : Nat]]
        /\ life'[t].booked = booking[b].total
        /\ \A u \in Tickets : /\ life'[u].state = life[u].state
                              /\ life'[u].session = life[u].session
                              /\ u # t => life'[u].booked = life[u].booked
    BY <2>1, <2>2 DEF StoreTyped
  <2>4. /\ booking' \in [Bookers -> [pc : {"idle", "locked", "summed"},
                                     ticket : Tickets \cup {NoTicket}, total : Nat, sum : Nat]]
        /\ booking'[b].pc = "idle"
        /\ \A c \in Bookers \ {b} : booking'[c] = booking[c]
    BY <2>2 DEF StoreTyped, NoBooking
  <2>5. StoreTyped'
    BY <2>1, <2>2, <2>3, <2>4 DEF StoreTyped
  <2>6. OneOpenLifecycle'
    BY <2>3 DEF OneOpenLifecycle, IsOpen
  <2>7. CashIsCovered'
    BY <2>1, <2>2, <2>3 DEF CashIsCovered, IsOpen, StoreTyped
  <2>8. BookingsHoldRows'
    <3> SUFFICES ASSUME NEW c \in Bookers, booking'[c].pc # "idle"
                 PROVE  LET u == booking'[c].ticket IN
                        /\ u \in Tickets /\ life'[u].state # "absent"
                        /\ life'[u].booked <= booking'[c].total
                        /\ booking'[c].total <= paid'[u]
                        /\ \A e \in Bookers \ {c} : booking'[e].pc # "idle" =>
                              booking'[e].ticket # u
      BY DEF BookingsHoldRows
    <3>1. c # b /\ booking'[c] = booking[c]
      BY <2>4
    <3>2. booking[c].ticket \in Tickets /\ booking[c].ticket # t
      BY <1>3, <3>1 DEF BookingsHoldRows, BookCommit
    <3> QED BY <2>2, <2>3, <2>4, <3>1, <3>2 DEF BookingsHoldRows
  <2>9. TableOfRows'
    BY <2>1, <2>2, <2>3, TableStays DEF StoreTyped
  <2> QED BY <2>5, <2>6, <2>7, <2>8, <2>9
<1>4. CASE BookFails(b)
  <2>1. /\ booking' \in [Bookers -> [pc : {"idle", "locked", "summed"},
                                     ticket : Tickets \cup {NoTicket}, total : Nat, sum : Nat]]
        /\ booking'[b].pc = "idle"
        /\ \A c \in Bookers \ {b} : booking'[c] = booking[c]
        /\ UNCHANGED <<ledgerVars, order, paid, req>>
    BY <1>4 DEF BookFails, StoreTyped, NoBooking
  <2> QED BY <2>1, TableStays DEF ledgerVars, StoreTyped, OneOpenLifecycle, CashIsCovered,
             IsOpen, BookingsHoldRows
<1> QED BY <1>1, <1>2, <1>3, <1>4 DEF BookerNext

\* What the venue does to it.
LEMMA VenueStep ==
  ASSUME StoreInv, NEW t \in Tickets, VenueOpens(t) \/ VenuePays(t) \/ VenueEnds(t)
  PROVE  StoreInv'
<1> USE DEF StoreInv
<1>1. CASE VenueOpens(t) \/ VenueEnds(t)
  <2>1. /\ order' \in [Tickets -> {"none", "live", "terminal"}]
        /\ order'[t] = "live" => IsOpen(t)
        /\ \A u \in Tickets \ {t} : order'[u] = order[u]
        /\ UNCHANGED <<ledgerVars, paid, req, booking>>
    BY <1>1 DEF VenueOpens, VenueEnds, StoreTyped
  <2> QED BY <2>1, TableStays DEF ledgerVars, StoreTyped, OneOpenLifecycle, CashIsCovered, IsOpen,
             BookingsHoldRows
<1>2. CASE VenuePays(t)
  <2>1. /\ paid' \in [Tickets -> Nat] /\ paid'[t] = paid[t] + 1 /\ IsOpen(t)
        /\ \A u \in Tickets \ {t} : paid'[u] = paid[u]
        /\ UNCHANGED <<ledgerVars, order, req, booking>>
    BY <1>2 DEF VenuePays, StoreTyped, CashIsCovered
  <2>2. BookingsHoldRows'
    BY <2>1 DEF BookingsHoldRows, StoreTyped, ledgerVars
  <2> QED BY <2>1, <2>2, TableStays DEF StoreTyped, OneOpenLifecycle, CashIsCovered, IsOpen,
             ledgerVars
<1> QED BY <1>1, <1>2

\* The invariant is inductive.
LEMMA StepStoreInv == ASSUME StoreInv, [StoreNext]_storeVars PROVE StoreInv'
<1>1. CASE StoreNext
  BY <1>1, ApproverStep, OperatorStep, ReleaseStep, BookerStep, VenueStep DEF StoreNext
<1>2. CASE UNCHANGED storeVars
  BY <1>2, TableStays DEF storeVars, ledgerVars, StoreInv, StoreTyped, OneOpenLifecycle,
     CashIsCovered, BookingsHoldRows, IsOpen
<1> QED BY <1>1, <1>2

\* Types, a finite table, one open lifecycle, covered cash and rows that their
\* transactions hold, in every reachable state.
THEOREM StoreInvariance == StoreSpec => []StoreInv
  BY InitStoreInv, StepStoreInv, PTL DEF StoreSpec

\* However many instances approve at once, in however many sessions, at most
\* one lifecycle is open.
THEOREM AtMostOneOpen == StoreSpec => []OneOpenLifecycle
  BY StoreInvariance, PTL DEF StoreInv

\* Whatever the venue may still take, or has taken and nobody has booked, is
\* covered by the reserve of an open lifecycle.
THEOREM CashAlwaysCovered == StoreSpec => []CashIsCovered
  BY StoreInvariance, PTL DEF StoreInv

-----------------------------------------------------------------------------
(* The session total                                                        *)

\* The lifecycles of the same session as the one whose cash is being booked.
Siblings(b) == OfSession(life[booking[b].ticket].session) \ {booking[b].ticket}

\* What a statement that recomputes the total would now make of it.
SumNow(b) == booking[b].total + SumFunctionOnSet(Booked, Siblings(b))

\* A total that is about to be written is no more than that, and is that
\* unless another booking of its session overtook it.
SumsAreOfMarks ==
    \A b \in Bookers : booking[b].pc = "summed" =>
        /\ booking[b].sum <= SumNow(b)
        /\ life[booking[b].ticket].session \notin crossed => booking[b].sum = SumNow(b)

TotalsInv == StoreInv /\ SpentIsBooked /\ SumsAreOfMarks

\* A step that leaves the rows' sessions and marks, the totals and every sum
\* alone, and no booking crosses another.
Leaves ==
    /\ \A t \in Tickets : life'[t].session = life[t].session /\ life'[t].booked = life[t].booked
    /\ spent' = spent /\ crossed' = crossed
    /\ \A b \in Bookers : booking'[b].pc = "summed" => booking'[b] = booking[b]

\* The INSERT of an approver that was admitted.
Inserts(a) ==
    /\ InsertLifecycle(a)
    /\ life[req[a].ticket].state = "absent"
    /\ \A t \in Tickets : ~IsOpen(t)

\* Every step but the INSERT and the last two statements of book_cash leaves
\* them alone.
LEMMA WhatMovesTotals ==
  ASSUME StoreInv, [StoreNext]_storeVars
  PROVE  \/ Leaves
         \/ \E a \in Approvers : Inserts(a)
         \/ \E b \in Bookers : BookSum(b) \/ BookCommit(b)
<1> USE DEF Leaves
<1>0. /\ life \in [Tickets -> [state : States, session : Sessions \cup {NoSession},
                               cost : Nat, booked : Nat]]
      /\ booking \in [Bookers -> [pc : {"idle", "locked", "summed"},
                                  ticket : Tickets \cup {NoTicket}, total : Nat, sum : Nat]]
  BY DEF StoreInv, StoreTyped
<1>1. ASSUME NEW a \in Approvers, ApproverNext(a) PROVE Leaves \/ Inserts(a)
  BY <1>1 DEF ApproverNext, LoadSession, LoadLifecycles, ReserveFails, InsertLifecycle, Inserts,
     ledgerVars
<1>2. CASE OperatorNext
  BY <1>0, <1>2 DEF OperatorNext, Stop, Resume, Advance
<1>3. ASSUME NEW t \in Tickets, Release(t) PROVE Leaves
  BY <1>0, <1>3 DEF Release
<1>4. ASSUME NEW b \in Bookers, BookerNext(b) PROVE Leaves \/ BookSum(b) \/ BookCommit(b)
  BY <1>0, <1>4 DEF BookerNext, BookLock, BookFails, NoBooking, ledgerVars
<1>5. ASSUME NEW t \in Tickets, VenueOpens(t) \/ VenuePays(t) \/ VenueEnds(t) PROVE Leaves
  BY <1>5 DEF VenueOpens, VenuePays, VenueEnds, ledgerVars
<1>6. CASE UNCHANGED storeVars
  BY <1>6 DEF storeVars, ledgerVars
<1> QED BY <1>1, <1>2, <1>3, <1>4, <1>5, <1>6 DEF StoreNext

\* What leaves them alone keeps the total a sum of marks.
LEMMA LeavesTotals ==
  ASSUME TotalsInv, Leaves PROVE SpentIsBooked' /\ SumsAreOfMarks'
<1>1. Booked' = Booked
  BY DEF Leaves, Booked
<1>2. \A s \in Sessions : OfSession(s)' = OfSession(s)
  BY DEF Leaves, OfSession
<1>3. SpentIsBooked'
  BY <1>1, <1>2 DEF Leaves, SpentIsBooked, Marks, TotalsInv
<1>4. SumsAreOfMarks'
  <2> SUFFICES ASSUME NEW b \in Bookers, booking'[b].pc = "summed"
               PROVE  /\ booking'[b].sum <= SumNow(b)'
                      /\ life'[booking'[b].ticket].session \notin crossed' =>
                            booking'[b].sum = SumNow(b)'
    BY DEF SumsAreOfMarks
  <2>1. booking'[b] = booking[b] /\ crossed' = crossed
    BY DEF Leaves
  <2>2. booking[b].ticket \in Tickets
    BY <2>1 DEF TotalsInv, StoreInv, BookingsHoldRows
  <2>3. Siblings(b)' = Siblings(b)
    BY <2>1, <2>2 DEF Siblings, OfSession, Leaves
  <2>4. SumNow(b)' = SumNow(b)
    BY <1>1, <2>1, <2>3 DEF SumNow
  <2>5. life'[booking[b].ticket].session = life[booking[b].ticket].session
    BY <2>2 DEF Leaves
  <2> QED BY <2>1, <2>4, <2>5 DEF TotalsInv, SumsAreOfMarks
<1> QED BY <1>3, <1>4

\* The row an INSERT adds, with nothing booked.
LEMMA InsertedRow ==
  ASSUME StoreInv, NEW a \in Approvers, Inserts(a)
  PROVE  /\ req[a].ticket \in Tickets /\ req[a].session \in Sessions /\ req[a].cost \in Nat
         /\ life'[req[a].ticket].state = "APPROVED"
         /\ life'[req[a].ticket].session = req[a].session
         /\ life'[req[a].ticket].cost = req[a].cost
         /\ life'[req[a].ticket].booked = 0
         /\ life[req[a].ticket] = NoRow
         /\ \A t \in Tickets \ {req[a].ticket} : life'[t] = life[t]
         /\ req' = [req EXCEPT ![a] = NoReq]
         /\ UNCHANGED <<spent, stopped, crossed, order, paid, booking>>
  BY DEF Inserts, InsertLifecycle, StoreInv, StoreTyped, TableOfRows

\* It adds nothing to any total.
LEMMA InsertTotals ==
  ASSUME TotalsInv, StoreInv', NEW a \in Approvers, Inserts(a)
  PROVE  SpentIsBooked' /\ SumsAreOfMarks'
<1> DEFINE t == req[a].ticket
           s == req[a].session
<1> USE DEF TotalsInv
<1>1. /\ t \in Tickets /\ s \in Sessions
      /\ life'[t].session = s /\ life'[t].booked = 0 /\ life'[t].state # "absent"
      /\ life[t] = NoRow /\ \A u \in Tickets \ {t} : life'[u] = life[u]
      /\ UNCHANGED <<spent, crossed, booking>>
  BY InsertedRow
<1> HIDE DEF t, s
<1>2. \A r \in Sessions : /\ r = s => OfSession(r)' = OfSession(r) \cup {t}
                          /\ r # s => OfSession(r)' = OfSession(r)
                          /\ t \notin OfSession(r)
  BY <1>1, TableGrows DEF NoRow, StoreInv
<1>3. /\ Booked'[t] = 0 /\ Booked[t] = 0
      /\ \A u \in Tickets : Booked'[u] = Booked[u]
  BY <1>1 DEF Booked, NoRow
<1>4. ASSUME NEW R, IsFiniteSet(R), R \subseteq Tickets, NEW Q, Q = R \/ Q = R \cup {t}, t \notin R,
             \A u \in R : Booked[u] \in Nat
      PROVE  SumFunctionOnSet(Booked', Q) = SumFunctionOnSet(Booked, R)
  <2>1. IsFiniteSet(Q) /\ \A u \in Q : Booked'[u] = Booked[u] /\ Booked'[u] \in Nat
    BY <1>1, <1>3, <1>4, FS_AddElement
  <2>2. SumFunctionOnSet(Booked', Q) = SumFunctionOnSet(Booked, Q)
    BY <2>1, SumAgree
  <2>3. CASE Q = R \cup {t}
    <3>1. Q \ {t} = R /\ t \in Q
      BY <1>4, <2>3
    <3>2. SumFunctionOnSet(Booked, Q) = Booked[t] + SumFunctionOnSet(Booked, R)
      BY <2>1, <3>1, SumRemove
    <3>3. SumFunctionOnSet(Booked, R) \in Nat
      BY <1>4, SumNat
    <3> QED BY <1>3, <2>2, <3>2, <3>3
  <2> QED BY <1>4, <2>2, <2>3
<1>5. SpentIsBooked'
  <2>1. ASSUME NEW r \in Sessions PROVE Marks(r)' = Marks(r)
    BY <1>2, <1>4, SessionRows DEF Marks
  <2> QED BY <1>1, <2>1 DEF SpentIsBooked
<1>6. SumsAreOfMarks'
  <2> SUFFICES ASSUME NEW b \in Bookers, booking'[b].pc = "summed"
               PROVE  /\ booking'[b].sum <= SumNow(b)'
                      /\ life'[booking'[b].ticket].session \notin crossed' =>
                            booking'[b].sum = SumNow(b)'
    BY DEF SumsAreOfMarks
  <2> DEFINE u == booking[b].ticket
             r == life[u].session
  <2>1. /\ booking'[b] = booking[b] /\ u \in Tickets /\ u # t /\ life'[u] = life[u]
        /\ r \in Sessions
    BY <1>1 DEF StoreInv, BookingsHoldRows, StoreTyped, NoRow
  <2>2. Siblings(b) = OfSession(r) \ {u} /\ Siblings(b)' = OfSession(r)' \ {u}
    BY <2>1 DEF Siblings, OfSession
  <2>3. /\ IsFiniteSet(Siblings(b)) /\ Siblings(b) \subseteq Tickets /\ t \notin Siblings(b)
        /\ \A v \in Siblings(b) : Booked[v] \in Nat
    BY <1>2, <2>1, <2>2, SessionRows, FS_Subset
  <2>4. Siblings(b)' = Siblings(b) \/ Siblings(b)' = Siblings(b) \cup {t}
    BY <1>2, <2>1, <2>2
  <2>5. SumFunctionOnSet(Booked', Siblings(b)') = SumFunctionOnSet(Booked, Siblings(b))
    BY <1>4, <2>3, <2>4
  <2>6. SumNow(b)' = SumNow(b)
    BY <2>1, <2>5 DEF SumNow
  <2> QED BY <1>1, <2>1, <2>6 DEF SumsAreOfMarks
<1> QED BY <1>5, <1>6

\* What a booking would make of its session's total is a natural.
LEMMA SumNowIsNat ==
  ASSUME StoreInv, NEW b \in Bookers, booking[b].pc # "idle" PROVE SumNow(b) \in Nat
<1>1. life[booking[b].ticket].session \in Sessions /\ booking[b].total \in Nat
  BY DEF StoreInv, StoreTyped, BookingsHoldRows
<1>2. IsFiniteSet(Siblings(b)) /\ \A u \in Siblings(b) : Booked[u] \in Nat
  BY <1>1, SessionRows, FS_Subset DEF Siblings
<1>3. SumFunctionOnSet(Booked, Siblings(b)) \in Nat
  BY <1>2, SumNat
<1> QED BY <1>1, <1>3 DEF SumNow

\* The second statement of book_cash sums the marks, and writes nothing.
LEMMA BookSumTotals ==
  ASSUME TotalsInv, NEW b \in Bookers, BookSum(b) PROVE SpentIsBooked' /\ SumsAreOfMarks'
<1>1. UNCHANGED <<spent, life, crossed>>
  BY DEF BookSum, ledgerVars
<1>2. Booked' = Booked /\ \A r \in Sessions : OfSession(r)' = OfSession(r)
  BY <1>1 DEF Booked, OfSession
<1>3. SpentIsBooked'
  BY <1>1, <1>2 DEF TotalsInv, SpentIsBooked, Marks
<1>4. SumsAreOfMarks'
  <2> SUFFICES ASSUME NEW c \in Bookers, booking'[c].pc = "summed"
               PROVE  /\ booking'[c].sum <= SumNow(c)'
                      /\ life'[booking'[c].ticket].session \notin crossed' =>
                            booking'[c].sum = SumNow(c)'
    BY DEF SumsAreOfMarks
  <2>1. booking' = [booking EXCEPT ![b].pc = "summed", ![b].sum = SumNow(b)]
    BY DEF BookSum, Siblings, SumNow
  <2>2. /\ booking'[c].ticket = booking[c].ticket /\ booking'[c].total = booking[c].total
        /\ c = b => booking'[c].sum = SumNow(b)
        /\ c # b => booking'[c] = booking[c]
    BY <2>1 DEF TotalsInv, StoreInv, StoreTyped
  <2>3. Siblings(c)' = Siblings(c)
    BY <1>1, <2>2 DEF Siblings, OfSession
  <2>4. SumNow(c)' = SumNow(c)
    BY <1>2, <2>2, <2>3 DEF SumNow
  <2>5. CASE c = b
    <3>1. SumNow(b) \in Nat
      BY SumNowIsNat DEF BookSum, TotalsInv
    <3> QED BY <2>2, <2>4, <2>5, <3>1
  <2>6. CASE c # b
    BY <1>1, <2>2, <2>4, <2>6 DEF TotalsInv, SumsAreOfMarks
  <2> QED BY <2>5, <2>6
<1> QED BY <1>3, <1>4

\* The third writes the mark and the total: no more than the marks after it,
\* and just that, and no less than before, if no other booking overtook it.
LEMMA BookCommitTotals ==
  ASSUME TotalsInv, NEW b \in Bookers, BookCommit(b)
  PROVE  /\ SpentIsBooked' /\ SumsAreOfMarks'
         /\ \A s \in Sessions \ crossed : spent'[s] >= spent[s]
<1> USE DEF TotalsInv
<1>0. PICK t \in Tickets, s \in Sessions, total \in Nat :
        t = booking[b].ticket /\ s = life[t].session /\ total = booking[b].total
  BY DEF BookCommit, StoreInv, StoreTyped, BookingsHoldRows
<1> DEFINE Rest == OfSession(s) \ {t}
           N == total + SumFunctionOnSet(Booked, Rest)
<1>1. /\ t \in Tickets /\ s \in Sessions /\ total \in Nat
      /\ Booked[t] \in Nat /\ Booked[t] <= total
      /\ booking[b].sum \in Nat /\ booking[b].sum <= N
      /\ s \notin crossed => booking[b].sum = N
  BY <1>0 DEF BookCommit, StoreInv, StoreTyped, BookingsHoldRows, Booked, SumsAreOfMarks, SumNow,
     Siblings
<1>2. /\ \A u \in Tickets : life'[u].session = life[u].session
      /\ \A u \in Tickets \ {t} : life'[u].booked = life[u].booked
      /\ life'[t].booked = total
      /\ spent' = [spent EXCEPT ![s] = booking[b].sum]
      /\ booking'[b].pc = "idle" /\ \A c \in Bookers \ {b} : booking'[c] = booking[c]
      /\ crossed' = crossed \cup Overtaken(b)
  BY <1>0, <1>1 DEF BookCommit, NoBooking, StoreInv, StoreTyped
<1>3. \A r \in Sessions : OfSession(r)' = OfSession(r)
  BY <1>2 DEF OfSession
<1>4. /\ Booked'[t] = total /\ \A u \in Tickets \ {t} : Booked'[u] = Booked[u]
  BY <1>1, <1>2 DEF Booked
<1>5. t \in OfSession(s) /\ \A r \in Sessions \ {s} : t \notin OfSession(r)
  BY <1>0 DEF OfSession
<1>6. ASSUME NEW c \in Bookers, booking'[c].pc = "summed"
      PROVE  /\ c # b /\ booking'[c] = booking[c] /\ booking[c].pc = "summed"
             /\ booking[c].ticket \in Tickets \ {t}
             /\ life[booking[c].ticket].session \in Sessions
             /\ life[booking[c].ticket].session = s => s \in crossed'
  <2>1. c # b /\ booking'[c] = booking[c] /\ booking[c].pc = "summed"
    BY <1>2, <1>6
  <2>2. booking[c].ticket \in Tickets \ {t} /\ life[booking[c].ticket].session \in Sessions
    BY <1>0, <2>1 DEF BookCommit, StoreInv, BookingsHoldRows, StoreTyped
  <2> QED BY <1>0, <1>2, <2>1, <2>2 DEF Overtaken
<1>7. ASSUME NEW R, IsFiniteSet(R), R \subseteq Tickets, t \notin R
      PROVE  SumFunctionOnSet(Booked', R) = SumFunctionOnSet(Booked, R)
  BY <1>4, <1>7, SumAgree
<1>8. /\ Marks(s)' = N /\ N \in Nat /\ Marks(s) \in Nat /\ Marks(s) <= N
  <2>1. /\ IsFiniteSet(OfSession(s)) /\ IsFiniteSet(Rest) /\ Rest \subseteq Tickets
        /\ \A u \in OfSession(s) : Booked[u] \in Nat
        /\ \A u \in OfSession(s) : Booked'[u] \in Nat
    <3>1. /\ IsFiniteSet(OfSession(s)) /\ OfSession(s) \subseteq Tickets
          /\ \A u \in OfSession(s) : Booked[u] \in Nat
      BY <1>1, SessionRows
    <3> QED BY <1>1, <1>4, <3>1, FS_Subset
  <2>2. SumFunctionOnSet(Booked, OfSession(s)) = Booked[t] + SumFunctionOnSet(Booked, Rest)
    BY <1>5, <2>1, SumRemove
  <2>3. SumFunctionOnSet(Booked', OfSession(s)) = Booked'[t] + SumFunctionOnSet(Booked', Rest)
    BY <1>5, <2>1, SumRemove
  <2>4. SumFunctionOnSet(Booked', Rest) = SumFunctionOnSet(Booked, Rest)
    BY <1>7, <2>1
  <2>5. SumFunctionOnSet(Booked, Rest) \in Nat
    BY <2>1, SumNat
  <2>6. Marks(s)' = SumFunctionOnSet(Booked', OfSession(s))
    BY <1>1, <1>3 DEF Marks
  <2> HIDE DEF Rest
  <2> QED BY <1>1, <1>4, <2>2, <2>3, <2>4, <2>5, <2>6 DEF Marks
<1> HIDE DEF Rest, N
<1>9. spent \in [Sessions -> Nat] /\ SpentIsBooked /\ crossed \subseteq crossed'
  BY <1>2 DEF StoreInv, StoreTyped
<1>10. SpentIsBooked'
  <2> SUFFICES ASSUME NEW r \in Sessions
               PROVE  /\ spent'[r] <= Marks(r)'
                      /\ r \notin crossed' => spent'[r] = Marks(r)'
    BY DEF SpentIsBooked
  <2>1. CASE r = s
    BY <1>1, <1>2, <1>8, <1>9, <2>1
  <2>2. CASE r # s
    <3>1. Marks(r)' = Marks(r)
      BY <1>3, <1>5, <1>7, <2>2, SessionRows DEF Marks
    <3> QED BY <1>2, <1>9, <2>2, <3>1 DEF SpentIsBooked
  <2> QED BY <2>1, <2>2
<1>11. SumsAreOfMarks'
  <2> SUFFICES ASSUME NEW c \in Bookers, booking'[c].pc = "summed"
               PROVE  /\ booking'[c].sum <= SumNow(c)'
                      /\ life'[booking'[c].ticket].session \notin crossed' =>
                            booking'[c].sum = SumNow(c)'
    BY DEF SumsAreOfMarks
  <2>0. PICK u \in Tickets, q \in Sessions : u = booking[c].ticket /\ q = life[u].session
    BY <1>6
  <2> DEFINE Sib == OfSession(q) \ {u}
  <2>1. /\ c # b /\ booking'[c] = booking[c] /\ booking[c].pc = "summed"
        /\ u # t /\ (q = s => s \in crossed')
        /\ u = booking[c].ticket /\ q = life[u].session /\ life'[u].session = q
    BY <1>2, <1>6, <2>0
  <2>2. /\ Siblings(c) = Sib /\ Siblings(c)' = Sib
    BY <1>3, <2>1 DEF Siblings
  <2>3. /\ IsFiniteSet(Sib) /\ Sib \subseteq Tickets
        /\ \A v \in Sib : Booked[v] \in Nat /\ Booked'[v] \in Nat /\ Booked[v] <= Booked'[v]
    <3>1. /\ IsFiniteSet(Sib) /\ Sib \subseteq Tickets /\ \A v \in Sib : Booked[v] \in Nat
      BY <2>1, SessionRows, FS_Subset
    <3> QED BY <1>1, <1>4, <3>1
  <2>4. /\ SumNow(c) = booking[c].total + SumFunctionOnSet(Booked, Sib)
        /\ SumNow(c)' = booking[c].total + SumFunctionOnSet(Booked', Sib)
    BY <2>1, <2>2 DEF SumNow
  <2>5. /\ booking[c].total \in Nat /\ booking[c].sum \in Nat
        /\ booking[c].sum <= SumNow(c)
        /\ q \notin crossed => booking[c].sum = SumNow(c)
    BY <2>1 DEF SumsAreOfMarks, StoreInv, StoreTyped
  <2>6. CASE q = s
    <3>1. SumFunctionOnSet(Booked, Sib) <= SumFunctionOnSet(Booked', Sib)
      BY <2>3, SumMonotone
    <3>2. SumFunctionOnSet(Booked, Sib) \in Nat /\ SumFunctionOnSet(Booked', Sib) \in Nat
      BY <2>3, SumNat
    <3> HIDE DEF Sib
    <3>3. booking[c].sum <= SumNow(c)'
      BY <2>4, <2>5, <3>1, <3>2
    <3> QED BY <2>1, <2>6, <3>3
  <2>7. CASE q # s
    <3>1. t \notin Sib
      BY <1>5, <2>1, <2>7
    <3>2. SumNow(c)' = SumNow(c)
      BY <1>7, <2>3, <2>4, <3>1
    <3> QED BY <1>9, <2>1, <2>5, <3>2
  <2> QED BY <2>6, <2>7
<1>12. \A r \in Sessions \ crossed : spent'[r] >= spent[r]
  BY <1>1, <1>2, <1>8, <1>9 DEF SpentIsBooked
<1> QED BY <1>10, <1>11, <1>12

\* The totals stay what they are of the marks, and fall only where a booking
\* was overtaken.
LEMMA StepTotals ==
  ASSUME TotalsInv, [StoreNext]_storeVars
  PROVE  TotalsInv' /\ \A s \in Sessions \ crossed : spent'[s] >= spent[s]
<1>1. StoreInv' /\ spent \in [Sessions -> Nat]
  BY StepStoreInv DEF TotalsInv, StoreInv, StoreTyped
<1>2. CASE Leaves
  BY <1>1, <1>2, LeavesTotals DEF TotalsInv, Leaves
<1>3. ASSUME NEW a \in Approvers, Inserts(a)
      PROVE  TotalsInv' /\ \A s \in Sessions \ crossed : spent'[s] >= spent[s]
  BY <1>1, <1>3, InsertTotals, InsertedRow DEF TotalsInv
<1>4. ASSUME NEW b \in Bookers, BookSum(b)
      PROVE  TotalsInv' /\ \A s \in Sessions \ crossed : spent'[s] >= spent[s]
  <2>1. spent' = spent
    BY <1>4 DEF BookSum, ledgerVars
  <2> QED BY <1>1, <1>4, <2>1, BookSumTotals DEF TotalsInv
<1>5. ASSUME NEW b \in Bookers, BookCommit(b)
      PROVE  TotalsInv' /\ \A s \in Sessions \ crossed : spent'[s] >= spent[s]
  BY <1>1, <1>5, BookCommitTotals DEF TotalsInv
<1> QED BY <1>2, <1>3, <1>4, <1>5, WhatMovesTotals DEF TotalsInv

\* Initially nothing is booked in no row.
LEMMA InitTotals == StoreInit => TotalsInv
<1> SUFFICES ASSUME StoreInit PROVE TotalsInv
  OBVIOUS
<1>1. \A s \in Sessions : OfSession(s) = {}
  BY DEF StoreInit, OfSession, NoRow
<1>2. SpentIsBooked
  BY <1>1, SumEmpty DEF StoreInit, SpentIsBooked, Marks
<1>3. SumsAreOfMarks
  BY DEF StoreInit, SumsAreOfMarks, NoBooking
<1> QED BY <1>2, <1>3, InitStoreInv DEF TotalsInv

\* With any number of booking processes, what is written or about to be
\* written as a session's total is bounded by its lifecycles' marks, and equal
\* to their sum until two bookings of that session cross.
THEOREM TotalsInvariance == StoreSpec => []TotalsInv
<1>1. TotalsInv /\ [StoreNext]_storeVars => TotalsInv'
  BY StepTotals
<1> QED BY <1>1, InitTotals, PTL DEF StoreSpec

\* So the total claims no cash that was not booked to the session that owns
\* it, and until then it claims all of it.
THEOREM TotalIsBooked == StoreSpec => []SpentIsBooked
  BY TotalsInvariance, PTL DEF TotalsInv

\* Two bookings that cross are the only way by which the cumulative spend of a
\* session can go backwards.
THEOREM FallsOnlyIfCrossed == StoreSpec => OnlyCrossingLowers
<1>1. TotalsInv /\ [StoreNext]_storeVars =>
        [\A s \in Sessions : spent'[s] < spent[s] => s \in crossed]_storeVars
  <2> SUFFICES ASSUME TotalsInv, [StoreNext]_storeVars, NEW s \in Sessions, spent'[s] < spent[s]
               PROVE  s \in crossed
    OBVIOUS
  <2>1. spent[s] \in Nat /\ spent'[s] \in Nat
    BY StepStoreInv DEF TotalsInv, StoreInv, StoreTyped
  <2> QED BY <2>1, StepTotals
<1> QED BY <1>1, TotalsInvariance, PTL DEF StoreSpec, OnlyCrossingLowers

-----------------------------------------------------------------------------
(* The ceiling                                                              *)

\* A lifecycle never costs more than a ticket may, the venue takes no more
\* than that and no more is booked; an admitted request fitted what it read.
CostsBounded ==
    /\ \A t \in Tickets :
         /\ life[t].cost <= MaxPerTrade
         /\ life[t].booked <= paid[t] /\ paid[t] <= life[t].cost
    /\ \A a \in Approvers : req[a].pc = "insert" =>
         req[a].cost <= MaxPerTrade /\ req[a].spent + req[a].cost <= MaxSpend

\* What each request in flight may still add to a session: the cost of one
\* that can be admitted on the spending it read, whatever is open by then.
InFlight(s) ==
    [a \in Approvers |->
       IF /\ req[a].pc # "idle" /\ req[a].session = s
          /\ req[a].cost <= MaxPerTrade /\ req[a].spent + req[a].cost <= MaxSpend
       THEN req[a].cost ELSE 0]

\* The bound holds of what is at stake and in flight together.
RoomIn(s) ==
    AtStake(s) + SumFunctionOnSet(InFlight(s), Approvers)
        <= MaxSpend + Cardinality(Approvers) * MaxPerTrade

CeilingInv == TotalsInv /\ CostsBounded /\ \A s \in Sessions \ crossed : RoomIn(s)

\* A step keeps the bounds of one lifecycle and of one request.
LEMMA StepCosts ==
  ASSUME StoreInv, CostsBounded, [StoreNext]_storeVars PROVE CostsBounded'
<1> DEFINE Lives == \A t \in Tickets :
                      /\ life[t].cost <= MaxPerTrade
                      /\ life[t].booked <= paid[t] /\ paid[t] <= life[t].cost
           Fits(a) == req[a].pc = "insert" =>
                        req[a].cost <= MaxPerTrade /\ req[a].spent + req[a].cost <= MaxSpend
<1>0. /\ life \in [Tickets -> [state : States, session : Sessions \cup {NoSession},
                               cost : Nat, booked : Nat]]
      /\ paid \in [Tickets -> Nat] /\ Lives
      /\ req \in [Approvers -> [pc : {"idle", "lifecycles", "insert"},
                                ticket : Tickets \cup {NoTicket},
                                session : Sessions \cup {NoSession}, cost : Nat,
                                spent : Nat, stopped : BOOLEAN]]
      /\ \A a \in Approvers : Fits(a)
  BY DEF StoreInv, StoreTyped, CostsBounded
<1> SUFFICES Lives' /\ \A a \in Approvers : Fits(a)'
  BY DEF CostsBounded
<1>1. ASSUME UNCHANGED req PROVE \A a \in Approvers : Fits(a)'
  BY <1>0, <1>1
<1>2. ASSUME UNCHANGED <<life, paid>> PROVE Lives'
  BY <1>0, <1>2
<1>3. ASSUME NEW a \in Approvers, ApproverNext(a) PROVE Lives' /\ \A c \in Approvers : Fits(c)'
  <2>1. ASSUME NEW t \in Tickets, NEW s \in Sessions, NEW cost \in Costs,
               LoadSession(a, t, s, cost)
        PROVE  Lives' /\ \A c \in Approvers : Fits(c)'
    <3>1. /\ req'[a].pc = "lifecycles" /\ \A c \in Approvers \ {a} : req'[c] = req[c]
      BY <1>0, <2>1 DEF LoadSession
    <3> QED BY <1>0, <1>2, <2>1, <3>1 DEF LoadSession, ledgerVars
  <2>2. CASE LoadLifecycles(a) /\ Admissible(req[a])
    <3>1. req' = [req EXCEPT ![a] = [req[a] EXCEPT !.pc = "insert"]] /\ UNCHANGED <<life, paid>>
      BY <2>2 DEF LoadLifecycles, ledgerVars
    <3>2. req[a].session \in Sessions
      BY <2>2 DEF LoadLifecycles, StoreInv, StoreTyped
    <3>3. Reserved(req[a].session) \in Nat
      <4> DEFINE cost == [t \in Tickets |-> life[t].cost]
                 open == {t \in OfSession(req[a].session) : IsOpen(t)}
      <4>1. IsFiniteSet(open) /\ \A t \in open : cost[t] \in Nat
        BY <1>0, <3>2, SessionRows, FS_Subset DEF OfSession
      <4>2. SumFunctionOnSet(cost, open) \in Nat
        <5> HIDE DEF cost, open
        <5> QED BY <4>1, SumNat
      <4> QED BY <4>2 DEF Reserved
    <3>4. req[a].cost <= MaxPerTrade /\ req[a].spent + req[a].cost <= MaxSpend
      <4>1. /\ req[a].cost <= MaxPerTrade
            /\ req[a].cost + req[a].spent + Reserved(req[a].session) <= MaxSpend
        BY <2>2 DEF Admissible
      <4> QED BY <1>0, <3>3, <4>1
    <3>5. /\ req'[a].cost = req[a].cost /\ req'[a].spent = req[a].spent
          /\ \A c \in Approvers \ {a} : req'[c] = req[c]
      BY <1>0, <3>1
    <3> QED BY <1>0, <1>2, <3>1, <3>4, <3>5
  <2>3. ASSUME req' = [req EXCEPT ![a] = NoReq] PROVE \A c \in Approvers : Fits(c)'
    BY <1>0, <2>3 DEF NoReq
  <2>4. CASE \/ LoadLifecycles(a) /\ ~Admissible(req[a])
             \/ ReserveFails(a)
             \/ InsertLifecycle(a) /\ ~Inserts(a)
    <3>1. req' = [req EXCEPT ![a] = NoReq] /\ UNCHANGED <<life, paid>>
      BY <2>4 DEF LoadLifecycles, ReserveFails, InsertLifecycle, Inserts, ledgerVars
    <3> QED BY <1>2, <2>3, <3>1
  <2>5. CASE Inserts(a)
    <3>1. req[a].cost <= MaxPerTrade
      BY <1>0, <2>5 DEF Inserts, InsertLifecycle
    <3>2. paid[req[a].ticket] = 0 /\ req[a].ticket \in Tickets
      BY <1>0, <2>5, InsertedRow DEF NoRow
    <3>3. Lives'
      BY <1>0, <2>5, <3>1, <3>2, InsertedRow
    <3> QED BY <2>3, <2>5, <3>3, InsertedRow
  <2> QED BY <1>3, <2>1, <2>2, <2>4, <2>5 DEF ApproverNext
<1>4. CASE OperatorNext
  BY <1>0, <1>1, <1>4 DEF OperatorNext, Stop, Resume, Advance
<1>5. ASSUME NEW t \in Tickets, Release(t) PROVE Lives' /\ \A a \in Approvers : Fits(a)'
  BY <1>0, <1>1, <1>5 DEF Release
<1>6. ASSUME NEW b \in Bookers, BookerNext(b) PROVE Lives' /\ \A a \in Approvers : Fits(a)'
  <2>1. CASE BookCommit(b)
    <3>1. booking[b].ticket \in Tickets /\ booking[b].total <= paid[booking[b].ticket]
      BY <2>1 DEF BookCommit, StoreInv, BookingsHoldRows
    <3>2. /\ life' = [life EXCEPT ![booking[b].ticket].booked = booking[b].total]
          /\ UNCHANGED <<paid, req>>
      BY <2>1 DEF BookCommit
    <3> QED BY <1>0, <1>1, <3>1, <3>2
  <2>2. CASE ~BookCommit(b)
    BY <1>1, <1>2, <1>6, <2>2 DEF BookerNext, BookLock, BookSum, BookFails, ledgerVars
  <2> QED BY <2>1, <2>2
<1>7. ASSUME NEW t \in Tickets, VenueOpens(t) \/ VenuePays(t) \/ VenueEnds(t)
      PROVE  Lives' /\ \A a \in Approvers : Fits(a)'
  BY <1>0, <1>1, <1>7 DEF VenueOpens, VenuePays, VenueEnds, ledgerVars
<1>8. CASE UNCHANGED storeVars
  BY <1>1, <1>2, <1>8 DEF storeVars, ledgerVars
<1> QED BY <1>3, <1>4, <1>5, <1>6, <1>7, <1>8 DEF StoreNext

\* Stakes and costs are naturals, and no stake is above what a ticket may cost.
LEMMA StakesAreNat ==
  ASSUME StoreInv, NEW s \in Sessions
  PROVE  /\ \A t \in Tickets : Stake[t] \in Nat
         /\ \A a \in Approvers : InFlight(s)[a] \in Nat
         /\ IsFiniteSet(OfSession(s)) /\ OfSession(s) \subseteq Tickets
         /\ AtStake(s) \in Nat
         /\ IsFiniteSet(Approvers) => SumFunctionOnSet(InFlight(s), Approvers) \in Nat
<1>1. /\ \A t \in Tickets : Stake[t] \in Nat
      /\ \A a \in Approvers : InFlight(s)[a] \in Nat
  BY DEF Stake, InFlight, StoreInv, StoreTyped
<1>2. IsFiniteSet(OfSession(s)) /\ OfSession(s) \subseteq Tickets
  BY SessionRows
<1> QED BY <1>1, <1>2, SumNat DEF AtStake

\* What a session of exact total has at stake is what it has spent and at most
\* one ticket more: only the open lifecycle's reserve is above its mark.
LEMMA StakeNearSpent ==
  ASSUME TotalsInv, CostsBounded, NEW s \in Sessions, s \notin crossed
  PROVE  AtStake(s) <= spent[s] + MaxPerTrade
<1> USE DEF TotalsInv
<1> DEFINE S == OfSession(s)
<1>0. /\ IsFiniteSet(S) /\ S \subseteq Tickets
      /\ \A t \in S : Booked[t] \in Nat /\ Stake[t] \in Nat
      /\ spent[s] = SumFunctionOnSet(Booked, S)
  BY SessionRows, StakesAreNat DEF SpentIsBooked, Marks
<1>1. ASSUME NEW t \in S, ~IsOpen(t) PROVE Stake[t] = Booked[t]
  <2>1. /\ t \in Tickets /\ ~(paid[t] > life[t].booked) /\ life[t].booked <= paid[t]
        /\ paid[t] \in Nat /\ life[t].booked \in Nat
    BY <1>0, <1>1 DEF StoreInv, StoreTyped, CashIsCovered, CostsBounded
  <2> QED BY <1>1, <2>1 DEF Stake, Booked
<1>2. ASSUME NEW t \in S, IsOpen(t) PROVE Stake[t] <= MaxPerTrade
  BY <1>0, <1>2 DEF Stake, CostsBounded
<1> HIDE DEF S
<1>3. CASE \A t \in S : ~IsOpen(t)
  <2>1. SumFunctionOnSet(Stake, S) = SumFunctionOnSet(Booked, S)
    BY <1>0, <1>1, <1>3, SumAgree
  <2>2. SumFunctionOnSet(Booked, S) \in Nat
    BY <1>0, SumNat
  <2> QED BY <1>0, <2>1, <2>2 DEF AtStake, S
<1>4. ASSUME NEW t \in S, IsOpen(t) PROVE AtStake(s) <= spent[s] + MaxPerTrade
  <2> DEFINE Rest == S \ {t}
  <2>1. /\ IsFiniteSet(Rest)
        /\ \A u \in Rest : Stake[u] = Booked[u] /\ Booked[u] \in Nat
    BY <1>0, <1>1, <1>4, FS_Subset DEF StoreInv, OneOpenLifecycle
  <2>2. /\ SumFunctionOnSet(Stake, S) = Stake[t] + SumFunctionOnSet(Stake, Rest)
        /\ SumFunctionOnSet(Booked, S) = Booked[t] + SumFunctionOnSet(Booked, Rest)
    BY <1>0, SumRemove
  <2>3. SumFunctionOnSet(Stake, Rest) = SumFunctionOnSet(Booked, Rest)
    BY <2>1, SumAgree
  <2>4. SumFunctionOnSet(Booked, Rest) \in Nat
    BY <2>1, SumNat
  <2> HIDE DEF Rest
  <2>5. Stake[t] \in Nat /\ Booked[t] \in Nat /\ Stake[t] <= MaxPerTrade
    BY <1>0, <1>2, <1>4
  <2> QED BY <1>0, <2>2, <2>3, <2>4, <2>5 DEF AtStake, S
<1> QED BY <1>3, <1>4

\* A step that raises no stake and no request's claim keeps the room.
LEMMA RoomKept ==
  ASSUME StoreInv, StoreInv', IsFiniteSet(Approvers), NEW s \in Sessions, RoomIn(s),
         OfSession(s)' = OfSession(s),
         \A t \in Tickets : Stake'[t] <= Stake[t],
         \A a \in Approvers : InFlight(s)'[a] <= InFlight(s)[a]
  PROVE  RoomIn(s)'
<1>1. /\ \A t \in Tickets : Stake[t] \in Nat /\ Stake'[t] \in Nat
      /\ \A a \in Approvers : InFlight(s)[a] \in Nat /\ InFlight(s)'[a] \in Nat
      /\ IsFiniteSet(OfSession(s)) /\ OfSession(s) \subseteq Tickets
      /\ AtStake(s) \in Nat /\ SumFunctionOnSet(InFlight(s), Approvers) \in Nat
      /\ AtStake(s)' \in Nat /\ SumFunctionOnSet(InFlight(s)', Approvers) \in Nat
  <2>1. /\ \A t \in Tickets : Stake'[t] \in Nat
        /\ \A a \in Approvers : InFlight(s)'[a] \in Nat
    BY DEF Stake, InFlight, StoreInv, StoreTyped
  <2>2. IsFiniteSet(OfSession(s)) /\ OfSession(s) \subseteq Tickets
    BY StakesAreNat
  <2>3. AtStake(s)' \in Nat /\ SumFunctionOnSet(InFlight(s)', Approvers) \in Nat
    BY <2>1, <2>2, SumNat DEF AtStake
  <2> QED BY <2>1, <2>2, <2>3, StakesAreNat
<1>2. SumFunctionOnSet(Stake', OfSession(s)) <= SumFunctionOnSet(Stake, OfSession(s))
  BY <1>1, SumMonotone
<1>3. SumFunctionOnSet(InFlight(s)', Approvers) <= SumFunctionOnSet(InFlight(s), Approvers)
  BY <1>1, SumMonotone
<1>4. AtStake(s)' <= AtStake(s)
  BY <1>2 DEF AtStake
<1>5. Cardinality(Approvers) * MaxPerTrade \in Nat
  BY FS_CardinalityType
<1> DEFINE Limit == MaxSpend + Cardinality(Approvers) * MaxPerTrade
<1>6. AtStake(s) + SumFunctionOnSet(InFlight(s), Approvers) <= Limit /\ Limit \in Nat
  BY <1>5 DEF RoomIn
<1> HIDE DEF Limit
<1>7. AtStake(s)' + SumFunctionOnSet(InFlight(s)', Approvers) <= Limit
  BY <1>1, <1>3, <1>4, <1>6
<1> QED BY <1>7 DEF RoomIn, Limit

\* Only the INSERT raises a stake, and only it and a fresh request what is in
\* flight; the INSERT alone gives a ticket a session.
LEMMA WhatMovesRoom ==
  ASSUME TotalsInv, CostsBounded, [StoreNext]_storeVars, NEW s \in Sessions
  PROVE  \/ \E a \in Approvers : Inserts(a)
         \/ /\ OfSession(s)' = OfSession(s)
            /\ \A t \in Tickets : Stake'[t] <= Stake[t]
            /\ \/ \A a \in Approvers : InFlight(s)'[a] <= InFlight(s)[a]
               \/ /\ \E a \in Approvers, t \in Tickets, r \in Sessions, cost \in Costs :
                       LoadSession(a, t, r, cost)
                  /\ UNCHANGED <<life, paid>>
<1> DEFINE Goal == /\ OfSession(s)' = OfSession(s)
                   /\ \A t \in Tickets : Stake'[t] <= Stake[t]
                   /\ \A a \in Approvers : InFlight(s)'[a] <= InFlight(s)[a]
<1>0. /\ life \in [Tickets -> [state : States, session : Sessions \cup {NoSession},
                               cost : Nat, booked : Nat]]
      /\ paid \in [Tickets -> Nat]
      /\ req \in [Approvers -> [pc : {"idle", "lifecycles", "insert"},
                                ticket : Tickets \cup {NoTicket},
                                session : Sessions \cup {NoSession}, cost : Nat,
                                spent : Nat, stopped : BOOLEAN]]
      /\ \A t \in Tickets : paid[t] <= life[t].cost
      /\ \A t \in Tickets : Stake[t] \in Nat
      /\ \A a \in Approvers : InFlight(s)[a] \in Nat
  BY StakesAreNat DEF TotalsInv, StoreInv, StoreTyped, CostsBounded
<1>1. ASSUME UNCHANGED <<life, paid>>
      PROVE  OfSession(s)' = OfSession(s) /\ \A t \in Tickets : Stake'[t] <= Stake[t]
  BY <1>0, <1>1 DEF OfSession, Stake, IsOpen
<1>2. ASSUME UNCHANGED req PROVE \A a \in Approvers : InFlight(s)'[a] <= InFlight(s)[a]
  BY <1>0, <1>2 DEF InFlight
<1>3. ASSUME NEW a \in Approvers, \/ req' = [req EXCEPT ![a] = NoReq]
                                  \/ /\ req' = [req EXCEPT ![a] = [req[a] EXCEPT !.pc = "insert"]]
                                     /\ req[a].pc # "idle"
      PROVE  \A c \in Approvers : InFlight(s)'[c] <= InFlight(s)[c]
  <2> TAKE c \in Approvers
  <2>1. CASE c # a
    BY <1>0, <1>3, <2>1 DEF InFlight
  <2>2. CASE c = a /\ req' = [req EXCEPT ![a] = NoReq]
    BY <1>0, <2>2 DEF InFlight, NoReq
  <2>3. CASE /\ c = a /\ req[a].pc # "idle"
             /\ req' = [req EXCEPT ![a] = [req[a] EXCEPT !.pc = "insert"]]
    <3>1. /\ req'[a].pc = "insert" /\ req'[a].session = req[a].session
          /\ req'[a].cost = req[a].cost /\ req'[a].spent = req[a].spent
      BY <1>0, <2>3
    <3> QED BY <1>0, <2>3, <3>1 DEF InFlight
  <2> QED BY <1>3, <2>1, <2>2, <2>3
<1>4. ASSUME NEW a \in Approvers, LoadLifecycles(a) \/ ReserveFails(a)
                                    \/ (InsertLifecycle(a) /\ ~Inserts(a))
      PROVE  Goal
  <2>1. UNCHANGED <<life, paid>>
    BY <1>4 DEF LoadLifecycles, ReserveFails, InsertLifecycle, Inserts, ledgerVars
  <2>2. \/ req' = [req EXCEPT ![a] = NoReq]
        \/ /\ req' = [req EXCEPT ![a] = [req[a] EXCEPT !.pc = "insert"]]
           /\ req[a].pc # "idle"
    BY <1>4 DEF LoadLifecycles, ReserveFails, InsertLifecycle
  <2> QED BY <1>1, <1>3, <2>1, <2>2
<1>5. ASSUME OperatorNext PROVE Goal
  <2>1. ASSUME NEW t \in Tickets, NEW state \in Moves(t), Advance(t, state) PROVE Goal
    <3>1. /\ life'[t].state \in OpenStates /\ life[t].state \in OpenStates
          /\ life'[t].session = life[t].session /\ life'[t].cost = life[t].cost
          /\ \A u \in Tickets \ {t} : life'[u] = life[u]
          /\ UNCHANGED <<paid, req>>
      BY <1>0, <2>1 DEF Advance, Moves, IsOpen
    <3> QED BY <1>0, <1>2, <3>1 DEF OfSession, Stake, IsOpen
  <2> QED BY <1>1, <1>2, <1>5, <2>1 DEF OperatorNext, Stop, Resume
<1>6. ASSUME NEW t \in Tickets, Release(t) PROVE Goal
  <2>1. /\ life'[t].session = life[t].session /\ life'[t].state \notin OpenStates
        /\ \A u \in Tickets \ {t} : life'[u] = life[u]
        /\ UNCHANGED <<paid, req>>
    BY <1>0, <1>6 DEF Release, OpenStates
  <2> QED BY <1>0, <1>2, <2>1 DEF OfSession, Stake, IsOpen
<1>7. ASSUME NEW b \in Bookers, BookerNext(b) PROVE Goal
  <2>1. CASE BookCommit(b)
    <3>1. /\ \A u \in Tickets : /\ life'[u].session = life[u].session
                                /\ life'[u].state = life[u].state /\ life'[u].cost = life[u].cost
          /\ UNCHANGED <<paid, req>>
      BY <1>0, <2>1 DEF BookCommit
    <3> QED BY <1>0, <1>2, <3>1 DEF OfSession, Stake, IsOpen
  <2>2. CASE ~BookCommit(b)
    BY <1>1, <1>2, <1>7, <2>2 DEF BookerNext, BookLock, BookSum, BookFails, ledgerVars
  <2> QED BY <2>1, <2>2
<1>8. ASSUME NEW t \in Tickets, VenueOpens(t) \/ VenuePays(t) \/ VenueEnds(t) PROVE Goal
  <2>1. CASE VenuePays(t)
    <3>1. /\ IsOpen(t) /\ \A u \in Tickets \ {t} : paid'[u] = paid[u]
          /\ UNCHANGED <<life, req>>
      BY <1>0, <2>1 DEF VenuePays, ledgerVars, TotalsInv, StoreInv, CashIsCovered
    <3> QED BY <1>0, <1>2, <3>1 DEF OfSession, Stake, IsOpen
  <2>2. CASE VenueOpens(t) \/ VenueEnds(t)
    BY <1>1, <1>2, <2>2 DEF VenueOpens, VenueEnds, ledgerVars
  <2> QED BY <1>8, <2>1, <2>2
<1>9. ASSUME UNCHANGED storeVars PROVE Goal
  BY <1>1, <1>2, <1>9 DEF storeVars, ledgerVars
<1> HIDE DEF Goal
<1>10. ASSUME NEW a \in Approvers, ApproverNext(a)
       PROVE  \/ Goal \/ Inserts(a)
              \/ \E t \in Tickets, r \in Sessions, cost \in Costs : LoadSession(a, t, r, cost)
  BY <1>4, <1>10 DEF ApproverNext
<1> DEFINE Loads == \E a \in Approvers, t \in Tickets, r \in Sessions, cost \in Costs :
                      LoadSession(a, t, r, cost)
<1>11. Goal \/ Loads \/ \E a \in Approvers : Inserts(a)
  <2>1. ASSUME NEW a \in Approvers, ApproverNext(a) PROVE Goal \/ Loads \/ Inserts(a)
    BY <1>10, <2>1, Zenon
  <2> HIDE DEF Loads
  <2> QED BY <1>5, <1>6, <1>7, <1>8, <1>9, <2>1 DEF StoreNext
<1>12. ASSUME Loads PROVE UNCHANGED <<life, paid>>
  <2>1. PICK a \in Approvers, t \in Tickets, r \in Sessions, cost \in Costs :
               LoadSession(a, t, r, cost)
    BY <1>12
  <2> QED BY <2>1 DEF LoadSession, ledgerVars
<1> HIDE DEF Loads
<1>13. CASE Loads
  <2>1. UNCHANGED <<life, paid>>
    BY <1>12, <1>13
  <2>2. OfSession(s)' = OfSession(s) /\ \A t \in Tickets : Stake'[t] <= Stake[t]
    BY <1>1, <2>1
  <2> QED BY <1>13, <2>1, <2>2 DEF Loads
<1> QED BY <1>11, <1>13 DEF Goal

\* A fresh request: it read the session as it is, so what it may add fits
\* beside what is spent, and each other request adds at most one ticket.
LEMMA RoomForRequest ==
  ASSUME TotalsInv, CostsBounded, IsFiniteSet(Approvers),
         NEW s \in Sessions, s \notin crossed, RoomIn(s), StoreInv',
         NEW a \in Approvers, NEW t \in Tickets, NEW r \in Sessions, NEW cost \in Costs,
         LoadSession(a, t, r, cost)
  PROVE  RoomIn(s)'
<1> USE DEF TotalsInv
<1>0. /\ UNCHANGED <<spent, life, paid>>
      /\ req'[a] = [pc |-> "lifecycles", ticket |-> t, session |-> r, cost |-> cost,
                    spent |-> spent[r], stopped |-> stopped[r]]
      /\ \A c \in Approvers \ {a} : req'[c] = req[c]
      /\ cost \in Nat
  BY DEF LoadSession, ledgerVars, StoreInv, StoreTyped, Costs
<1>1. /\ AtStake(s)' = AtStake(s) /\ OfSession(s)' = OfSession(s)
      /\ \A u \in Tickets : Stake'[u] = Stake[u]
  BY <1>0 DEF AtStake, OfSession, Stake, IsOpen
<1>2. \A c \in Approvers \ {a} : InFlight(s)'[c] = InFlight(s)[c]
  BY <1>0 DEF InFlight
<1>3. /\ AtStake(s) \in Nat /\ \A c \in Approvers : InFlight(s)[c] \in Nat
      /\ spent[s] \in Nat
  BY StakesAreNat DEF StoreInv, StoreTyped
<1>4. CASE r = s /\ cost <= MaxPerTrade /\ spent[r] + cost <= MaxSpend
  <2> DEFINE Others == Approvers \ {a}
             n == Cardinality(Others)
  <2>1. InFlight(s)'[a] = cost
    BY <1>0, <1>4 DEF InFlight
  <2>2. \A c \in Approvers : InFlight(s)'[c] \in Nat
    BY <1>0, <1>2, <1>3, <2>1
  <2>3. SumFunctionOnSet(InFlight(s)', Approvers) = cost + SumFunctionOnSet(InFlight(s)', Others)
    BY <2>1, <2>2, SumRemove
  <2>4. /\ IsFiniteSet(Others) /\ n \in Nat /\ Cardinality(Approvers) = n + 1
    <3>1. n = Cardinality(Approvers) - 1 /\ Cardinality(Approvers) \in Nat /\ IsFiniteSet(Others)
      BY FS_RemoveElement, FS_CardinalityType, FS_Subset
    <3>2. n \in Nat
      BY <3>1, FS_CardinalityType
    <3> HIDE DEF n
    <3> QED BY <3>1, <3>2
  <2>5. SumFunctionOnSet(InFlight(s)', Others) <= n * MaxPerTrade
    <3>1. \A c \in Others : InFlight(s)'[c] \in Nat /\ InFlight(s)'[c] <= MaxPerTrade
      BY <1>2, <2>2 DEF InFlight
    <3> QED BY <2>4, <3>1, SumBound
  <2>6. SumFunctionOnSet(InFlight(s)', Others) \in Nat
    BY <2>2, <2>4, SumNat
  <2>7. AtStake(s) <= spent[s] + MaxPerTrade
    BY StakeNearSpent
  <2> HIDE DEF n, Others
  <2>8. Cardinality(Approvers) * MaxPerTrade = n * MaxPerTrade + MaxPerTrade /\ n * MaxPerTrade \in Nat
    BY <2>4
  <2>9. AtStake(s) + (cost + SumFunctionOnSet(InFlight(s)', Others))
          <= MaxSpend + (n * MaxPerTrade + MaxPerTrade)
    BY <1>0, <1>3, <1>4, <2>5, <2>6, <2>7, <2>8
  <2> QED BY <1>1, <2>3, <2>8, <2>9 DEF RoomIn
<1>5. CASE ~(r = s /\ cost <= MaxPerTrade /\ spent[r] + cost <= MaxSpend)
  <2>1. InFlight(s)'[a] = 0
    BY <1>0, <1>5 DEF InFlight
  <2>2. \A c \in Approvers : InFlight(s)'[c] <= InFlight(s)[c]
    BY <1>2, <1>3, <2>1
  <2>3. \A u \in Tickets : Stake'[u] <= Stake[u]
    BY <1>1, StakesAreNat
  <2> QED BY <1>1, <2>2, <2>3, RoomKept
<1> QED BY <1>4, <1>5

\* The INSERT of an admitted request moves its cost from what is in flight to
\* what is at stake.
LEMMA RoomForInsert ==
  ASSUME TotalsInv, CostsBounded, IsFiniteSet(Approvers),
         NEW s \in Sessions, RoomIn(s), StoreInv',
         NEW a \in Approvers, Inserts(a)
  PROVE  RoomIn(s)'
<1> DEFINE t == req[a].ticket
           S == OfSession(s)
<1> USE DEF TotalsInv
<1>1. /\ t \in Tickets /\ req[a].session \in Sessions /\ req[a].cost \in Nat
      /\ life'[t].session = req[a].session /\ life'[t].cost = req[a].cost
      /\ life'[t].state = "APPROVED" /\ life[t].state = "absent"
      /\ \A u \in Tickets \ {t} : life'[u] = life[u]
      /\ req' = [req EXCEPT ![a] = NoReq] /\ UNCHANGED paid
  BY InsertedRow DEF NoRow
<1>2. /\ s = req[a].session => OfSession(s)' = S \cup {t}
      /\ s # req[a].session => OfSession(s)' = S
      /\ t \notin S
  BY <1>1, TableGrows DEF StoreInv
<1>3. /\ Stake'[t] = req[a].cost
      /\ \A u \in Tickets \ {t} : Stake'[u] = Stake[u]
  BY <1>1 DEF Stake, IsOpen, OpenStates
<1>4. /\ InFlight(s)'[a] = 0
      /\ InFlight(s)[a] = IF req[a].session = s THEN req[a].cost ELSE 0
      /\ \A c \in Approvers \ {a} : InFlight(s)'[c] = InFlight(s)[c]
  <2>1. req'[a] = NoReq /\ \A c \in Approvers \ {a} : req'[c] = req[c]
    BY <1>1 DEF StoreInv, StoreTyped
  <2>2. /\ req[a].pc # "idle" /\ req[a].cost <= MaxPerTrade
        /\ req[a].spent + req[a].cost <= MaxSpend
    BY DEF Inserts, InsertLifecycle, CostsBounded
  <2> QED BY <2>1, <2>2 DEF InFlight, NoReq
<1>5. /\ \A u \in Tickets : Stake[u] \in Nat
      /\ \A c \in Approvers : InFlight(s)[c] \in Nat
      /\ IsFiniteSet(S) /\ S \subseteq Tickets
      /\ AtStake(s) \in Nat /\ SumFunctionOnSet(InFlight(s), Approvers) \in Nat
  BY StakesAreNat
<1> HIDE DEF t, S
<1> DEFINE added == IF req[a].session = s THEN req[a].cost ELSE 0
           Others == Approvers \ {a}
<1>6. AtStake(s)' = AtStake(s) + added
  <2>1. SumFunctionOnSet(Stake', S) = SumFunctionOnSet(Stake, S)
    BY <1>2, <1>3, <1>5, SumAgree
  <2>2. AtStake(s)' = SumFunctionOnSet(Stake', OfSession(s)') /\ AtStake(s) = SumFunctionOnSet(Stake, S)
    BY DEF AtStake, S
  <2>3. CASE req[a].session = s
    <3>1. IsFiniteSet(S \cup {t}) /\ (S \cup {t}) \ {t} = S /\ t \in S \cup {t}
      BY <1>2, <1>5, FS_AddElement
    <3>2. \A u \in S \cup {t} : Stake'[u] \in Nat
      BY <1>1, <1>3, <1>5
    <3>3. SumFunctionOnSet(Stake', S \cup {t}) = Stake'[t] + SumFunctionOnSet(Stake', S)
      BY <3>1, <3>2, SumRemove
    <3>4. AtStake(s)' = req[a].cost + AtStake(s)
      <4>1. OfSession(s)' = S \cup {t}
        BY <1>2, <2>3
      <4> QED BY <1>3, <2>1, <2>2, <3>3, <4>1
    <3> QED BY <1>1, <1>5, <2>3, <3>4
  <2>4. CASE req[a].session # s
    BY <1>2, <1>5, <2>1, <2>2, <2>4
  <2> QED BY <2>3, <2>4
<1>7. SumFunctionOnSet(InFlight(s), Approvers) = added + SumFunctionOnSet(InFlight(s)', Approvers)
  <2>1. SumFunctionOnSet(InFlight(s), Approvers) = added + SumFunctionOnSet(InFlight(s), Others)
    BY <1>4, <1>5, SumRemove
  <2>2. \A c \in Approvers : InFlight(s)'[c] \in Nat
    BY <1>4, <1>5
  <2>3. SumFunctionOnSet(InFlight(s)', Approvers)
          = InFlight(s)'[a] + SumFunctionOnSet(InFlight(s)', Others)
    BY <2>2, SumRemove
  <2>4. IsFiniteSet(Others)
    BY FS_Subset
  <2>5. /\ SumFunctionOnSet(InFlight(s)', Others) = SumFunctionOnSet(InFlight(s), Others)
        /\ SumFunctionOnSet(InFlight(s), Others) \in Nat
    BY <1>4, <1>5, <2>4, SumAgree, SumNat
  <2> QED BY <1>4, <2>1, <2>3, <2>5
<1>8. SumFunctionOnSet(InFlight(s)', Approvers) \in Nat /\ added \in Nat
  <2>1. \A c \in Approvers : InFlight(s)'[c] \in Nat
    BY <1>4, <1>5
  <2> QED BY <1>1, <2>1, SumNat
<1> HIDE DEF added
<1>9. AtStake(s)' + SumFunctionOnSet(InFlight(s)', Approvers)
        = AtStake(s) + SumFunctionOnSet(InFlight(s), Approvers)
  BY <1>5, <1>6, <1>7, <1>8
<1> QED BY <1>9 DEF RoomIn

\* A session's total that is once out of step with the marks is so for good.
LEMMA CrossedStays ==
  ASSUME StoreInv, [StoreNext]_storeVars PROVE crossed \subseteq crossed'
<1>1. CASE Leaves
  BY <1>1 DEF Leaves
<1>2. ASSUME NEW a \in Approvers, Inserts(a) PROVE crossed \subseteq crossed'
  BY <1>2, InsertedRow
<1>3. ASSUME NEW b \in Bookers, BookSum(b) \/ BookCommit(b) PROVE crossed \subseteq crossed'
  BY <1>3 DEF BookSum, BookCommit, ledgerVars
<1> QED BY <1>1, <1>2, <1>3, WhatMovesTotals

\* A step keeps the room of a session no booking of which crossed another.
LEMMA StepCeiling ==
  ASSUME IsFiniteSet(Approvers), CeilingInv, [StoreNext]_storeVars PROVE CeilingInv'
<1>1. TotalsInv' /\ CostsBounded'
  BY StepTotals, StepCosts DEF CeilingInv, TotalsInv
<1>2. ASSUME NEW s \in Sessions, s \notin crossed' PROVE RoomIn(s)'
  <2>0. s \notin crossed
    BY <1>2, CrossedStays DEF CeilingInv, TotalsInv
  <2>1. TotalsInv /\ CostsBounded /\ RoomIn(s) /\ StoreInv /\ StoreInv'
    BY <1>1, <2>0 DEF CeilingInv, TotalsInv
  <2>2. CASE \E a \in Approvers : Inserts(a)
    BY <2>1, <2>2, RoomForInsert
  <2>3. CASE \E a \in Approvers, t \in Tickets, r \in Sessions, cost \in Costs :
               LoadSession(a, t, r, cost)
    BY <2>0, <2>1, <2>3, RoomForRequest
  <2>4. CASE /\ OfSession(s)' = OfSession(s)
             /\ \A t \in Tickets : Stake'[t] <= Stake[t]
             /\ \A a \in Approvers : InFlight(s)'[a] <= InFlight(s)[a]
    BY <2>1, <2>4, RoomKept
  <2> QED BY <2>1, <2>2, <2>3, <2>4, WhatMovesRoom
<1> QED BY <1>1, <1>2 DEF CeilingInv

\* Initially there is all the room.
LEMMA InitCeiling == ASSUME IsFiniteSet(Approvers), StoreInit PROVE CeilingInv
<1>1. TotalsInv
  BY InitTotals
<1>2. CostsBounded
  BY DEF StoreInit, CostsBounded, NoRow, NoReq
<1>3. ASSUME NEW s \in Sessions PROVE RoomIn(s)
  <2>1. OfSession(s) = {}
    BY DEF StoreInit, OfSession, NoRow
  <2>2. AtStake(s) = 0
    BY <2>1, SumEmpty DEF AtStake
  <2>3. \A a \in Approvers : InFlight(s)[a] \in Nat /\ InFlight(s)[a] <= 0
    BY DEF StoreInit, InFlight, NoReq
  <2>4. SumFunctionOnSet(InFlight(s), Approvers) <= Cardinality(Approvers) * 0
    BY <2>3, SumBound
  <2>5. SumFunctionOnSet(InFlight(s), Approvers) \in Nat
    BY <2>3, SumNat
  <2>6. Cardinality(Approvers) * 0 = 0 /\ Cardinality(Approvers) * MaxPerTrade \in Nat
    BY FS_CardinalityType
  <2> QED BY <2>2, <2>4, <2>5, <2>6 DEF RoomIn
<1> QED BY <1>1, <1>2, <1>3 DEF CeilingInv

\* What is at stake and what is in flight have room together in every
\* reachable state, with any number of requests and of booking processes, in
\* each session whose bookings did not cross.
THEOREM CeilingInvariance ==
  ASSUME IsFiniteSet(Approvers) PROVE StoreSpec => []CeilingInv
<1>1. CeilingInv /\ [StoreNext]_storeVars => CeilingInv'
  BY StepCeiling
<1> QED BY <1>1, InitCeiling, PTL DEF StoreSpec

\* So a reserve decided on stale figures passes such a session's ceiling by no
\* more than one ticket for each request that runs at once.
THEOREM OvershootIsBounded ==
  ASSUME IsFiniteSet(Approvers) PROVE StoreSpec => []OvershootBounded
<1>1. CeilingInv => OvershootBounded
  <2> SUFFICES ASSUME CeilingInv, NEW s \in Sessions \ crossed
               PROVE  AtStake(s) <= MaxSpend + Cardinality(Approvers) * MaxPerTrade
    BY DEF OvershootBounded
  <2>1. AtStake(s) \in Nat /\ SumFunctionOnSet(InFlight(s), Approvers) \in Nat
    BY StakesAreNat DEF CeilingInv, TotalsInv
  <2>2. Cardinality(Approvers) * MaxPerTrade \in Nat
    BY FS_CardinalityType
  <2> QED BY <2>1, <2>2 DEF CeilingInv, RoomIn
<1> QED BY <1>1, CeilingInvariance, PTL
=============================================================================
