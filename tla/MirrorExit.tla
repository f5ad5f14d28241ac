------------------------------ MODULE MirrorExit ------------------------------
(***************************************************************************)
(* The whale sells, and our copy of his position follows:                  *)
(* live_executor.mirror_exit and its reaper _reap_stale_exiting, called by *)
(* the trade lane (classify_exit under maybe_execute, one task per trade)  *)
(* and by the position lane (workers/whale_exits.py, one loop that diffs   *)
(* his positions against a snapshot).                                      *)
(*                                                                         *)
(* One position is modelled: one row of live_orders that copies one of his *)
(* holdings, on a market where other rows of the account may hold shares   *)
(* too.  A call claims the row by moving it from filled to exiting, sizes  *)
(* the sale from the venue's own position, sends it in a thread that       *)
(* nothing can cancel, and books what was sold.  A call may be refused,    *)
(* fail, be cancelled or die with the process at every await; the reaper   *)
(* resolves rows left in exiting.                                          *)
(***************************************************************************)
EXTENDS Naturals

CONSTANTS
    Callers,    \* tasks of the trade lane
    Lane,       \* the loop of the position lane
    TradeIds,   \* trades by which he leaves his position
    NoTrade,    \* the position lane has no trade
    Bought,     \* shares he bought
    Copied,     \* shares we bought
    MinExit,    \* MIN_EXIT_FRAC, in percent
    FullExit,   \* FULL_EXIT_FRAC, in percent
    MaxOthers,  \* bound: shares other rows hold on the market
    MaxCrashes  \* bound: restarts of the worker process

ASSUME NamesAssumption == Lane \notin Callers /\ NoTrade \notin TradeIds
ASSUME SizesAssumption ==
    /\ Bought \in Nat \ {0} /\ Copied \in Nat \ {0}
    /\ MinExit \in 1..100 /\ FullExit \in MinExit..100
    /\ MaxOthers \in Nat /\ MaxCrashes \in Nat

Exits == Callers \cup {Lane}

VARIABLES
    his,        \* shares he holds
    made,       \* the trades he has made
    shown,      \* shares those trades retired
    prev,       \* the position lane's snapshot of his holding
    status,     \* the row: filled, exiting or cashed_out
    shares,     \* its filled_shares
    orig,       \* its orig_shares; 0: NULL
    old,        \* its placed_at is more than ten minutes ago
    held,       \* the account's position on the market, at the venue
    others,     \* the shares of it that other rows explain
    applied,    \* trades in copy_exit_applied
    recent,     \* copy_exit_applied has the row within EXIT_DEDUP_MINUTES
    at,         \* each call of mirror_exit: the await it is at
    job,        \* each call: what it knows
    reaper,     \* idle, or what it read of the venue: gone or held
    overlapped, \* the reaper resolved a row that a call was still working on (history)
    unheard,    \* shares were sold and no call took the answer (history)
    misread,    \* a sale was sized on a row that had changed since (history)
    crashes

hisVars == <<his, made, shown>>
rowVars == <<status, shares, orig>>
ledgerVars == <<applied, recent>>
vars == <<hisVars, prev, rowVars, old, held, others, ledgerVars, at, job, reaper,
          overlapped, unheard, misread, crashes>>

Smaller(a, b) == IF a <= b THEN a ELSE b
Less(a, b) == IF a >= b THEN a - b ELSE 0

\* He still holds num of every den shares he had; the row was read to have had
\* shares, of base that were bought.
NoJob == [trade |-> NoTrade, num |-> 0, den |-> 1, had |-> 0, base |-> 0, ours |-> 0,
          qty |-> 0, flat |-> FALSE, got |-> 0]

\* A call that owns the row's claim; at cancelled the call is gone and its
\* thread is not.
Owning == {"size", "send", "answer"}
Working(c) == at[c] \in Owning \cup {"cancelled"}

Init ==
    /\ his = Bought /\ made = {} /\ shown = 0 /\ prev = Bought
    /\ status = "filled" /\ shares = Copied /\ orig = 0 /\ old = FALSE
    /\ others \in 0..MaxOthers /\ held = Copied + others
    /\ applied = {} /\ recent = FALSE
    /\ at = [c \in Exits |-> "idle"] /\ job = [c \in Exits |-> NoJob]
    /\ reaper = "idle" /\ overlapped = FALSE /\ unheard = FALSE
    /\ misread = FALSE /\ crashes = 0

-----------------------------------------------------------------------------
(* The whale                                                                *)

\* He closes k shares by a trade that buys the complement.
LeavesByTrade(x, k) ==
    /\ x \notin made /\ k <= his
    /\ his' = his - k /\ made' = made \cup {x} /\ shown' = shown + k
    /\ UNCHANGED <<prev, rowVars, old, held, others, ledgerVars, at, job, reaper,
                   overlapped, unheard, misread, crashes>>

\* He closes k shares by a merge, which no trade feed shows.
LeavesByMerge(k) ==
    /\ k <= his /\ his' = his - k
    /\ UNCHANGED <<made, shown, prev, rowVars, old, held, others, ledgerVars, at, job,
                   reaper, overlapped, unheard, misread, crashes>>

-----------------------------------------------------------------------------
(* The two lanes                                                            *)

\* A trade, fresh or offered again by the sweep.  classify_exit counts every
\* trade known by now, so the fraction is cumulative: Bought - shown is left.
TradeLane(c, x) ==
    /\ at[c] = "idle" /\ x \in made
    /\ at' = [at EXCEPT ![c] = "ledger"]
    /\ job' = [job EXCEPT ![c] = [NoJob EXCEPT !.trade = x, !.num = Bought - shown,
                                               !.den = Bought]]
    /\ UNCHANGED <<hisVars, prev, rowVars, old, held, others, ledgerVars, reaper,
                   overlapped, unheard, misread, crashes>>

\* A cycle that finds his position shrunk saves the snapshot and then acts.
PositionLane ==
    /\ at[Lane] = "idle" /\ his < prev
    /\ prev' = his
    /\ at' = [at EXCEPT ![Lane] = "read"]
    /\ job' = [job EXCEPT ![Lane] = [NoJob EXCEPT !.num = his, !.den = prev]]
    /\ UNCHANGED <<hisVars, rowVars, old, held, others, ledgerVars, reaper,
                   overlapped, unheard, misread, crashes>>

\* mirror_exit returns; the position lane pins the snapshot at the size
\* before the exit when the reason is one of EXIT_PENDING_REASONS.
Return(c, pending) ==
    /\ at' = [at EXCEPT ![c] = "idle"]
    /\ job' = [job EXCEPT ![c] = NoJob]
    /\ prev' = IF c = Lane /\ pending THEN job[c].den ELSE prev

GoOn(c, step) == at' = [at EXCEPT ![c] = step] /\ UNCHANGED <<job, prev>>

-----------------------------------------------------------------------------
(* mirror_exit up to the claim                                              *)

\* No venue, halted, paused, an unreadable ledger, a query that raises:
\* refused before the claim, some reasons pending and some not.
Refused(c) ==
    /\ at[c] \in {"ledger", "read", "dedup", "claim"}
    /\ \E pending \in BOOLEAN : Return(c, pending)
    /\ UNCHANGED <<hisVars, rowVars, old, held, others, ledgerVars, reaper,
                   overlapped, unheard, misread, crashes>>

\* copy_exit_applied by trade id: mx_exit_already_mirrored.
CheckLedger(c) ==
    /\ at[c] = "ledger"
    /\ IF job[c].trade \in applied THEN Return(c, FALSE) ELSE GoOn(c, "read")
    /\ UNCHANGED <<hisVars, rowVars, old, held, others, ledgerVars, reaper,
                   overlapped, unheard, misread, crashes>>

\* What we bought of the row: orig_shares, or filled_shares before the first
\* partial exit.
Base == IF orig = 0 THEN shares ELSE orig

\* The row must be filled and hold shares: mx_no_position_of_ours otherwise.
ReadRow(c) ==
    /\ at[c] = "read"
    /\ IF status = "filled" /\ shares > 0
       THEN /\ at' = [at EXCEPT ![c] = IF c = Lane THEN "dedup" ELSE "claim"]
            /\ job' = [job EXCEPT ![c].had = shares, ![c].base = Base]
            /\ UNCHANGED prev
       ELSE Return(c, FALSE)
    /\ UNCHANGED <<hisVars, rowVars, old, held, others, ledgerVars, reaper,
                   overlapped, unheard, misread, crashes>>

\* The position lane has no trade id; the row's own window stands for it:
\* mx_exit_recently_applied.
CheckRecent ==
    /\ at[Lane] = "dedup"
    /\ IF recent THEN Return(Lane, FALSE) ELSE GoOn(Lane, "claim")
    /\ UNCHANGED <<hisVars, rowVars, old, held, others, ledgerVars, reaper,
                   overlapped, unheard, misread, crashes>>

BelowFloor(c) == 100 * (job[c].den - job[c].num) < MinExit * job[c].den
IsFull(c) == 100 * (job[c].den - job[c].num) >= FullExit * job[c].den

\* Mutant: the claim does not ask for a filled row.
ClaimAnyRow(c) ==
    /\ at[c] = "claim"
    /\ IF BelowFloor(c) THEN Return(c, TRUE) /\ UNCHANGED status
                        ELSE status' = "exiting" /\ GoOn(c, "size")
    /\ UNCHANGED <<hisVars, shares, orig, old, held, others, ledgerVars, reaper,
                   overlapped, unheard, misread, crashes>>

\* The floor, and the atomic claim: mx_below_floor, mx_already_claimed.
Claim(c) ==
    /\ at[c] = "claim"
    /\ IF BelowFloor(c) \/ status # "filled"
       THEN Return(c, TRUE) /\ UNCHANGED status
       ELSE status' = "exiting" /\ GoOn(c, "size")
    /\ UNCHANGED <<hisVars, shares, orig, old, held, others, ledgerVars, reaper,
                   overlapped, unheard, misread, crashes>>

\* Cancelled in the await of the claim, which is outside every handler, after
\* the UPDATE committed.
ClaimUnheard(c) ==
    /\ at[c] = "claim" /\ ~BelowFloor(c) /\ status = "filled"
    /\ status' = "exiting" /\ Return(c, FALSE)
    /\ UNCHANGED <<hisVars, shares, orig, old, held, others, ledgerVars, reaper,
                   overlapped, unheard, misread, crashes>>

-----------------------------------------------------------------------------
(* mirror_exit under the claim                                              *)

\* _release_exit_claim: WHERE status = 'exiting'.
Release == status' = IF status = "exiting" THEN "filled" ELSE status

\* Mutant: the account's position is taken for the row's.
OursOfAccount(had) == held

\* What we hold of a row that was read to have had shares.
Ours(had) == Smaller(had, held)

\* Mutant: a slice of what is left, as the code once sold it.
QtySlice(c, base, ours) ==
    IF IsFull(c) THEN ours
    ELSE (2 * ours * (job[c].den - job[c].num) + job[c].den) \div (2 * job[c].den)

\* The sale that brings ours to the fraction of base he still holds of his
\* own, half a share up; everything when he is out.
Qty(c, base, ours) ==
    IF IsFull(c) THEN ours
    ELSE Smaller(ours, Less(2 * ours * job[c].den + job[c].den, 2 * base * job[c].num)
                           \div (2 * job[c].den))

\* The sale of ours of a row read to have had shares, as a flatten of the
\* market when he is out and nobody else holds it.
SizeOn(c, had, base, ours) ==
    IF Qty(c, base, ours) = 0
    THEN Release /\ Return(c, ours > 1) /\ UNCHANGED misread
    ELSE /\ at' = [at EXCEPT ![c] = "send"]
         /\ job' = [job EXCEPT ![c].had = had, ![c].ours = ours,
                               ![c].qty = Qty(c, base, ours),
                               ![c].flat = IsFull(c) /\ ours >= held]
         /\ misread' = (misread \/ had # shares)
         /\ UNCHANGED <<status, prev>>

\* The row is read again under the claim.  When that read raises, or finds no
\* shares, the figures from before the claim are kept.
Size(c) ==
    /\ at[c] = "size"
    /\ \/ shares > 0 /\ SizeOn(c, shares, Base, Ours(shares))
       \/ SizeOn(c, job[c].had, job[c].base, Ours(job[c].had))
    /\ UNCHANGED <<hisVars, shares, orig, old, held, others, ledgerVars, reaper,
                   overlapped, unheard, crashes>>

\* The venue's position is unreadable, there is no bid for a limit order, or
\* the call is cancelled before anything was sent: released.  Not so when it is
\* cancelled in the second read of the row, which is outside that handler.
AbortUnsent(c) ==
    /\ at[c] = "size"
    /\ \/ Release /\ \E pending \in BOOLEAN : Return(c, pending)
       \/ UNCHANGED status /\ Return(c, FALSE)
    /\ UNCHANGED <<hisVars, shares, orig, old, held, others, ledgerVars, reaper,
                   overlapped, unheard, misread, crashes>>

\* close_position sells what the account holds; submit_fok sells up to qty.
Sellable(c) == IF job[c].flat THEN held ELSE Smaller(job[c].qty, held)

\* The venue executes f shares of the order.
VenueSells(c, f) ==
    /\ at[c] = "send" /\ f <= Sellable(c)
    /\ held' = held - f
    /\ at' = [at EXCEPT ![c] = "answer"]
    /\ job' = [job EXCEPT ![c].got = f]
    /\ UNCHANGED <<hisVars, prev, rowVars, old, others, ledgerVars, reaper,
                   overlapped, unheard, misread, crashes>>

\* Nothing sold, or the answer is lost in an exception: released either way
\* (mx_venue_unfilled, mx_venue_error).
Unfilled(c) ==
    /\ at[c] = "answer"
    /\ Release /\ Return(c, TRUE)
    /\ unheard' = (unheard \/ job[c].got > 0)
    /\ UNCHANGED <<hisVars, shares, orig, old, held, others, ledgerVars, reaper,
                   overlapped, misread, crashes>>

\* The call is cancelled under the venue call: the row stays exiting, marked
\* for reconciliation, and the thread goes on.  So does a row whose sale was
\* answered and could not be booked.
Cancelled(c) ==
    /\ at[c] \in {"send", "answer"}
    /\ IF at[c] = "send"
       THEN at' = [at EXCEPT ![c] = "cancelled"] /\ UNCHANGED <<job, prev, unheard>>
       ELSE /\ \E pending \in {FALSE, job[c].got > 0} : Return(c, pending)
            /\ unheard' = (unheard \/ job[c].got > 0)
    /\ UNCHANGED <<hisVars, rowVars, old, held, others, ledgerVars, reaper,
                   overlapped, misread, crashes>>

ThreadEnds(c, f) ==
    /\ at[c] = "cancelled" /\ f <= Sellable(c)
    /\ held' = held - f
    /\ at' = [at EXCEPT ![c] = "idle"] /\ job' = [job EXCEPT ![c] = NoJob]
    /\ unheard' = (unheard \/ f > 0)
    /\ UNCHANGED <<hisVars, prev, rowVars, old, others, ledgerVars, reaper,
                   overlapped, misread, crashes>>

Booked(c) == Smaller(job[c].got, job[c].ours)
Remaining(c) == Less(job[c].had, Booked(c))

\* Mutant: a full exit retires the row whatever is left of it.
BookByFraction(c) ==
    /\ at[c] = "answer" /\ job[c].got > 0
    /\ IF Remaining(c) > 0 /\ ~IsFull(c)
       THEN /\ status' = "filled"
            /\ orig' = Base
            /\ shares' = Less(shares, Booked(c))
       ELSE status' = "cashed_out" /\ UNCHANGED <<shares, orig>>
    /\ GoOn(c, "record")
    /\ UNCHANGED <<hisVars, old, held, others, ledgerVars, reaper,
                   overlapped, unheard, misread, crashes>>

\* The terminal UPDATE, which asks for no status: the row keeps what is left,
\* or is retired when nothing is.  A full exit that leaves shares is pending
\* and not recorded.
Book(c) ==
    /\ at[c] = "answer" /\ job[c].got > 0
    /\ IF Remaining(c) > 0
       THEN /\ status' = "filled"
            /\ orig' = Base
            /\ shares' = Less(shares, Booked(c))
       ELSE status' = "cashed_out" /\ UNCHANGED <<shares, orig>>
    /\ IF IsFull(c) /\ Remaining(c) > 0 THEN Return(c, TRUE) ELSE GoOn(c, "record")
    /\ UNCHANGED <<hisVars, old, held, others, ledgerVars, reaper,
                   overlapped, unheard, misread, crashes>>

\* The insert into copy_exit_applied, which may fail; a trade that is there
\* already does not renew the window: mx_SOLD.
Record(c) ==
    /\ at[c] = "record"
    /\ \/ UNCHANGED ledgerVars
       \/ /\ recent' = (recent \/ job[c].trade \notin applied)
          /\ applied' = IF c = Lane THEN applied ELSE applied \cup {job[c].trade}
    /\ Return(c, FALSE)
    /\ UNCHANGED <<hisVars, rowVars, old, held, others, reaper, overlapped, unheard,
                   misread, crashes>>

-----------------------------------------------------------------------------
(* _reap_stale_exiting                                                      *)

\* Ten minutes after the row was placed: the account's position, less what
\* other rows explain, or nothing less when that cannot be read.
ReaperReads ==
    /\ reaper = "idle" /\ status = "exiting" /\ old
    /\ \E explained \in {others, 0} :
           reaper' = IF held > explained THEN "held" ELSE "gone"
    /\ UNCHANGED <<hisVars, prev, rowVars, old, held, others, ledgerVars, at, job,
                   overlapped, unheard, misread, crashes>>

\* Mutant: a row whose shares are still there is left for the next pass.
ReaperOnlyRetires ==
    /\ reaper # "idle" /\ reaper' = "idle"
    /\ status' = IF status = "exiting" /\ reaper = "gone" THEN "cashed_out" ELSE status
    /\ overlapped' = (overlapped \/ (status = "exiting" /\ \E c \in Exits : Working(c)))
    /\ UNCHANGED <<hisVars, prev, shares, orig, old, held, others, ledgerVars, at, job,
                   unheard, misread, crashes>>

\* Nothing left: retired.  Otherwise the order never landed: released.
ReaperResolves ==
    /\ reaper # "idle" /\ reaper' = "idle"
    /\ status' = IF status # "exiting" THEN status
                 ELSE IF reaper = "gone" THEN "cashed_out" ELSE "filled"
    /\ overlapped' = (overlapped \/ (status = "exiting" /\ \E c \in Exits : Working(c)))
    /\ UNCHANGED <<hisVars, prev, shares, orig, old, held, others, ledgerVars, at, job,
                   unheard, misread, crashes>>

-----------------------------------------------------------------------------
\* Time: the row passes its tenth minute, the window of an applied exit ends.
RowAges ==
    /\ ~old /\ old' = TRUE
    /\ UNCHANGED <<hisVars, prev, rowVars, held, others, ledgerVars, at, job, reaper,
                   overlapped, unheard, misread, crashes>>

WindowEnds ==
    /\ recent /\ recent' = FALSE
    /\ UNCHANGED <<hisVars, prev, rowVars, old, held, others, applied, at, job, reaper,
                   overlapped, unheard, misread, crashes>>

\* The worker dies: an order that was sent still reaches the venue.
Crash ==
    /\ crashes < MaxCrashes /\ crashes' = crashes + 1
    /\ reaper' = "idle"
    /\ at' = [c \in Exits |-> IF at[c] \in {"send", "cancelled"} THEN "cancelled" ELSE "idle"]
    /\ job' = [c \in Exits |-> IF at[c] \in {"send", "cancelled"} THEN job[c] ELSE NoJob]
    /\ unheard' = (unheard \/ \E c \in Exits : at[c] = "answer" /\ job[c].got > 0)
    /\ UNCHANGED <<hisVars, prev, rowVars, old, held, others, ledgerVars, overlapped,
                   misread>>

ExitStep(c) ==
    \/ CheckLedger(c) \/ ReadRow(c) \/ Claim(c) \/ Size(c)
    \/ Unfilled(c) \/ Book(c) \/ Record(c)
    \/ Refused(c) \/ ClaimUnheard(c) \/ AbortUnsent(c) \/ Cancelled(c)
    \/ \E f \in 0..held : VenueSells(c, f) \/ ThreadEnds(c, f)

ReaperStep == ReaperReads \/ ReaperResolves

Next ==
    \/ \E k \in 1..his : LeavesByMerge(k) \/ \E x \in TradeIds : LeavesByTrade(x, k)
    \/ \E c \in Callers : \E x \in TradeIds : TradeLane(c, x)
    \/ PositionLane \/ CheckRecent
    \/ \E c \in Exits : ExitStep(c)
    \/ ReaperStep \/ RowAges \/ WindowEnds \/ Crash

Spec == Init /\ [][Next]_vars

\* The sweep that reaps comes round for ever and time passes.  Nothing is
\* assumed of the calls themselves: each may hang.
FairSpec == Spec /\ WF_vars(ReaperStep) /\ WF_vars(RowAges)

-----------------------------------------------------------------------------
(* Properties                                                               *)

Steps == {"idle", "ledger", "read", "dedup", "claim", "size", "send", "answer",
          "cancelled", "record"}
Jobs == [trade : TradeIds \cup {NoTrade}, num : 0..Bought, den : 1..Bought,
         had : 0..Copied, base : 0..Copied, ours : 0..Copied, qty : 0..Copied,
         flat : BOOLEAN, got : 0..(Copied + MaxOthers)]

\* Every variable keeps its type; he never holds more than the position lane
\* remembers.
TypeOK ==
    /\ his \in 0..Bought /\ made \subseteq TradeIds /\ shown \in 0..Bought
    /\ his + shown <= Bought /\ prev \in his..Bought
    /\ status \in {"filled", "exiting", "cashed_out"}
    /\ shares \in 0..Copied /\ orig \in 0..Copied /\ old \in BOOLEAN
    /\ others \in 0..MaxOthers /\ held \in 0..(Copied + MaxOthers)
    /\ applied \subseteq TradeIds /\ recent \in BOOLEAN
    /\ at \in [Exits -> Steps] /\ job \in [Exits -> Jobs]
    /\ reaper \in {"idle", "gone", "held"}
    /\ overlapped \in BOOLEAN /\ unheard \in BOOLEAN /\ misread \in BOOLEAN
    /\ crashes \in 0..MaxCrashes

\* mirror_exit, "Exactly one caller gets a row back here": one call at most
\* works on the row, which is exiting for as long, however the lanes, the
\* replays of the sweep, cancellations and restarts interleave; until the
\* reaper resolves a row under a call that is still at work.
OneClaimant ==
    ~overlapped =>
        /\ \A c, d \in Exits : Working(c) /\ Working(d) => c = d
        /\ \A c \in Exits : Working(c) => status = "exiting"

\* "A POSITION IS NEVER RETIRED WHILE SHARES REMAIN", and a live row claims
\* what the venue holds for it, no more and no less, through partial exits,
\* partial fills and full exits on a market that others hold too; as long as
\* no sale went unheard, and none of such a market was sized on a stale row.
LedgerAgreesWithVenue ==
    ~overlapped /\ ~unheard /\ (misread => others = 0) =>
        /\ status = "filled" => shares + others = held
        /\ status = "cashed_out" => held = others

\* We hold at least the fraction of what we bought that he holds of what he
\* bought, to half a share; or he is out.
ProportionKept ==
    \/ 100 * (Bought - his) >= FullExit * Bought
    \/ 2 * Bought * held + Bought >= 2 * Copied * his + 2 * Bought * others

\* The two lanes see one exit twice, the sweep offers it again, a sale whose
\* answer was lost is tried again: none of it sells us further out than he
\* is.  Excepted is a market others hold once a sale went unheard or was sized
\* on a stale row: the row, or the call, then claims shares of theirs.
NotSoldPastTheWhale ==
    ~overlapped /\ (unheard \/ misread => others = 0) => ProportionKept

\* Under FairSpec a row does not stay exiting: whatever became of the call
\* that claimed it, the reaper gets to it.
NoClaimForever == (status = "exiting") ~> (status # "exiting")

\* execute_copy: "A retry cannot double-sell; it can only re-enter a state
\* machine that already refuses duplicates."
RetryCannotDoubleSell == ~unheard /\ ~misread => ProportionKept
=============================================================================
