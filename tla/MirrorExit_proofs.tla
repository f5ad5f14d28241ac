-------------------------- MODULE MirrorExit_proofs --------------------------
(***************************************************************************)
(* Proofs about MirrorExit for any callers, trades, sizes, thresholds and  *)
(* bounds.                                                                 *)
(*                                                                         *)
(* That a live row claims what the venue holds for it is not inductive: it *)
(* says nothing of the row while it is exiting.  Accounts adds what a call *)
(* between its sizing and its booking knows, and that the sale it waits    *)
(* for is all that separates the row from the venue.  It rests on          *)
(* OneClaimant, since two calls at work would each be out of date, and on  *)
(* Reads: a call that sells on what it read before its claim read no less  *)
(* than the row has, and so sells all the row has of a market that is ours *)
(* alone.                                                                  *)
(*                                                                         *)
(* Nor is NotSoldPastTheWhale: FollowInv says what a sale under way leaves *)
(* when all of it is executed.  A call that is sizing one is alone with    *)
(* the row, what it read of him was no less than he holds now, and the     *)
(* rounding of Qty gives away half a share at most (RoundedSale).          *)
(***************************************************************************)
EXTENDS MirrorExit, TLAPS

USE NamesAssumption, SizesAssumption

\* A call of the trade lane has its trade; the position lane has the size at
\* which it would pin its snapshot.
Purpose(c) ==
    at[c] # "idle" => IF c = Lane THEN job[c].den >= his ELSE job[c].trade \in TradeIds

Purposes == \A c \in Exits : Purpose(c)

\* What the reaper has read of an empty position stays true: nothing buys.
GoneStaysGone == reaper = "gone" => held <= others

CallKnows(c) ==
    at[c] \in {"send", "answer", "cancelled"} =>
        /\ shares <= job[c].had /\ job[c].ours = shares /\ job[c].qty <= shares
        /\ job[c].flat => others = 0

SaleCounts(c) == at[c] = "answer" => shares + others = held + job[c].got /\ others <= held

Accounts ==
    ~overlapped /\ ~unheard /\ (misread => others = 0) =>
        /\ status = "filled" => shares + others = held
        /\ status = "cashed_out" => held = others
        /\ status = "exiting" /\ (\A c \in Exits : at[c] # "answer") => shares + others = held
        /\ \A c \in Exits : CallKnows(c) /\ SaleCounts(c)

Inv == TypeOK /\ Purposes /\ GoneStaysGone /\ OneClaimant /\ Accounts

\* A row only loses shares after a call has read it, and what was bought of
\* it stays what it was.
BaseIsCopied == Base = Copied
Read(c) == at[c] \in {"dedup", "claim", "size"}
Reads ==
    /\ BaseIsCopied
    /\ \A c \in Exits : Read(c) => shares <= job[c].had /\ job[c].base = Copied

\* Initially the row is what we bought and nobody works on it.
LEMMA InitInv == Init => Inv
<1> SUFFICES ASSUME Init PROVE Inv
  OBVIOUS
<1>1. NoJob \in Jobs
  BY DEF NoJob, Jobs
<1>2. TypeOK
  <2>1. at \in [Exits -> Steps] /\ job \in [Exits -> Jobs]
    BY <1>1 DEF Init, Steps
  <2>2. others \in 0..MaxOthers /\ held \in 0..(Copied + MaxOthers)
    BY DEF Init
  <2>3. /\ his \in 0..Bought /\ shown \in 0..Bought /\ his + shown <= Bought
        /\ prev \in his..Bought /\ shares \in 0..Copied /\ orig \in 0..Copied
        /\ crashes \in 0..MaxCrashes
    BY DEF Init
  <2>4. /\ made \subseteq TradeIds /\ applied \subseteq TradeIds
        /\ status \in {"filled", "exiting", "cashed_out"}
        /\ reaper \in {"idle", "gone", "held"}
    BY DEF Init
  <2>5. /\ old \in BOOLEAN /\ recent \in BOOLEAN
        /\ overlapped \in BOOLEAN /\ unheard \in BOOLEAN /\ misread \in BOOLEAN
    BY DEF Init
  <2> QED BY <2>1, <2>2, <2>3, <2>4, <2>5 DEF TypeOK
<1>3. Purposes /\ GoneStaysGone /\ OneClaimant
  BY DEF Init, Purposes, Purpose, GoneStaysGone, OneClaimant, Working, Owning
<1>4. Accounts
  BY DEF Init, Accounts, CallKnows, SaleCounts
<1> QED BY <1>2, <1>3, <1>4 DEF Inv

LEMMA InitReads == Init => Reads
  BY DEF Init, Reads, BaseIsCopied, Base, Read

-----------------------------------------------------------------------------
(* Helpers of the calls                                                     *)

\* A call that returns: it is idle, the others are as they were, and the
\* snapshot stays between what he holds and what he bought.
LEMMA ReturnFacts ==
  ASSUME Inv, NEW c \in Exits, at[c] # "idle", NEW pending \in BOOLEAN, Return(c, pending)
  PROVE  /\ at' \in [Exits -> Steps] /\ job' \in [Exits -> Jobs] /\ prev' \in his..Bought
         /\ at'[c] = "idle" /\ \A d \in Exits : d # c => at'[d] = at[d] /\ job'[d] = job[d]
<1>1. NoJob \in Jobs /\ "idle" \in Steps /\ Lane \in Exits
  BY DEF NoJob, Jobs, Steps, Exits
<1>2. /\ at' = [at EXCEPT ![c] = "idle"] /\ job' = [job EXCEPT ![c] = NoJob]
      /\ at \in [Exits -> Steps] /\ job \in [Exits -> Jobs]
  BY DEF Return, Inv, TypeOK
<1>3. prev' \in his..Bought
  <2>1. CASE c = Lane /\ pending
    <3>1. prev' = job[Lane].den /\ job[Lane].den >= his /\ job[Lane] \in Jobs
      BY <2>1, <1>1, <1>2 DEF Return, Inv, Purposes, Purpose
    <3> QED BY <3>1 DEF Jobs, Inv, TypeOK
  <2>2. CASE ~(c = Lane /\ pending)
    BY <2>2 DEF Return, Inv, TypeOK
  <2> QED BY <2>1, <2>2
<1>4. /\ at' \in [Exits -> Steps] /\ job' \in [Exits -> Jobs] /\ at'[c] = "idle"
      /\ \A d \in Exits : d # c => at'[d] = at[d] /\ job'[d] = job[d]
  BY <1>1, <1>2
<1> QED BY <1>3, <1>4

\* A call that goes on keeps what it knows.
LEMMA GoOnFacts ==
  ASSUME Inv, NEW c \in Exits, NEW step \in Steps, GoOn(c, step)
  PROVE  /\ at' \in [Exits -> Steps] /\ job' = job /\ prev' = prev
         /\ at'[c] = step /\ \A d \in Exits : d # c => at'[d] = at[d]
  BY DEF GoOn, Inv, TypeOK

\* Nobody starts to work and no row is taken from a call at work.
LEMMA ClaimantKept ==
  ASSUME Inv, overlapped' = overlapped,
         \A c \in Exits : Working(c)' => Working(c),
         status' = status \/ \A c \in Exits : ~Working(c)'
  PROVE  OneClaimant'
  BY DEF Inv, OneClaimant

\* No call is sent, answered or booked, and the row keeps its status.
LEMMA AccountsKept ==
  ASSUME Inv, UNCHANGED <<status, shares, held, others, overlapped, unheard, misread>>,
         \A c \in Exits : at'[c] = "answer" <=> at[c] = "answer",
         \A c \in Exits : at'[c] \in {"send", "answer", "cancelled"} =>
                              at'[c] = at[c] /\ job'[c] = job[c]
  PROVE  Accounts'
<1> SUFFICES ASSUME ~overlapped, ~unheard, misread => others = 0
             PROVE  Accounts'
  BY DEF Accounts
<1>1. \A c \in Exits : (CallKnows(c) /\ SaleCounts(c))'
  BY DEF Inv, Accounts, CallKnows, SaleCounts
<1> QED BY <1>1 DEF Inv, Accounts

\* What a sale can be sized to.
LEMMA SmallerFacts ==
  ASSUME NEW a \in Nat, NEW b \in Nat
  PROVE  Smaller(a, b) \in Nat /\ Smaller(a, b) <= a /\ Smaller(a, b) <= b
  BY DEF Smaller

LEMMA OursFacts ==
  ASSUME TypeOK, NEW had \in 0..Copied
  PROVE  Ours(had) \in 0..Copied /\ Ours(had) <= had /\ Ours(had) <= held
<1>1. had \in Nat /\ held \in Nat /\ had <= Copied
  BY DEF TypeOK
<1> QED BY <1>1, SmallerFacts DEF Ours

LEMMA QtyFacts ==
  ASSUME TypeOK, NEW c \in Exits, NEW base \in 0..Copied, NEW ours \in 0..Copied
  PROVE  Qty(c, base, ours) \in 0..Copied /\ Qty(c, base, ours) <= ours
<1>1. CASE IsFull(c)
  BY <1>1 DEF Qty
<1>2. CASE ~IsFull(c)
  <2> DEFINE d == job[c].den
             a == 2 * ours * d + d
             b == 2 * base * job[c].num
  <2>1. d \in Nat /\ d > 0 /\ job[c].num \in Nat
    <3>1. job[c] \in Jobs
      BY DEF TypeOK
    <3> QED BY <3>1 DEF Jobs
  <2>2. \A x, y \in Nat : x * y \in Nat
    OBVIOUS
  <2>3. a \in Nat /\ b \in Nat
    <3>1. 2 * ours \in Nat /\ 2 * base \in Nat
      OBVIOUS
    <3>2. (2 * ours) * d \in Nat /\ (2 * base) * job[c].num \in Nat
      BY <3>1, <2>1, <2>2
    <3> QED BY <3>2, <2>1
  <2>4. Less(a, b) \in Nat
    <3> HIDE DEF a, b
    <3> QED BY <2>3 DEF Less
  <2>5. \A x \in Nat, y \in Nat \ {0} : x \div y \in Nat
    OBVIOUS
  <2>6. Less(a, b) \div (2 * d) \in Nat
    <3> HIDE DEF a, b
    <3>1. 2 * d \in Nat \ {0}
      BY <2>1
    <3> QED BY <3>1, <2>4, <2>5
  <2>7. Qty(c, base, ours) = Smaller(ours, Less(a, b) \div (2 * d))
    BY <1>2 DEF Qty
  <2>8. ours \in Nat /\ ours <= Copied
    OBVIOUS
  <2> HIDE DEF a, b, d
  <2> QED BY <2>6, <2>7, <2>8, SmallerFacts
<1> QED BY <1>1, <1>2

-----------------------------------------------------------------------------
(* The whale, the lanes, and the calls that claim nothing                   *)

\* He leaves, by a trade or by a merge: he only holds less.
LEMMA WhaleStep ==
  ASSUME Inv, NEW k \in 1..his,
         LeavesByMerge(k) \/ \E x \in TradeIds : LeavesByTrade(x, k)
  PROVE  Inv'
<1>1. /\ his' \in 0..Bought /\ his' <= his /\ his' + shown' <= Bought /\ shown' \in 0..Bought
      /\ made' \subseteq TradeIds
      /\ UNCHANGED <<prev, rowVars, old, held, others, ledgerVars, at, job, reaper,
                     overlapped, unheard, misread, crashes>>
  BY DEF LeavesByMerge, LeavesByTrade, Inv, TypeOK
<1>2. TypeOK'
  <2>1. /\ old' \in BOOLEAN /\ recent' \in BOOLEAN
        /\ overlapped' \in BOOLEAN /\ unheard' \in BOOLEAN /\ misread' \in BOOLEAN
    BY <1>1 DEF Inv, TypeOK, ledgerVars
  <2>2. /\ prev' \in his'..Bought /\ shares' \in 0..Copied /\ orig' \in 0..Copied
        /\ others' \in 0..MaxOthers /\ held' \in 0..(Copied + MaxOthers)
        /\ crashes' \in 0..MaxCrashes
    BY <1>1 DEF Inv, TypeOK, rowVars
  <2>3. /\ applied' \subseteq TradeIds /\ status' \in {"filled", "exiting", "cashed_out"}
        /\ reaper' \in {"idle", "gone", "held"}
        /\ at' \in [Exits -> Steps] /\ job' \in [Exits -> Jobs]
    BY <1>1 DEF Inv, TypeOK, rowVars, ledgerVars
  <2> QED BY <1>1, <2>1, <2>2, <2>3 DEF TypeOK
<1>3. Purposes'
  <2>1. ASSUME NEW c \in Exits PROVE job[c].den \in Nat
    BY DEF Inv, TypeOK, Jobs
  <2>2. his \in Nat /\ his' \in Nat
    BY <1>1 DEF Inv, TypeOK
  <2> QED BY <1>1, <2>1, <2>2 DEF Inv, Purposes, Purpose
<1>4. GoneStaysGone' /\ OneClaimant' /\ Accounts'
  BY <1>1, AccountsKept, ClaimantKept DEF Inv, GoneStaysGone, Working, Owning, rowVars
<1> QED BY <1>2, <1>3, <1>4 DEF Inv

\* A step that changes only where one call is, that neither works before nor
\* after it, and the snapshot.
LEMMA IdleStep ==
  ASSUME Inv, NEW c \in Exits, ~Working(c),
         at' \in [Exits -> Steps], job' \in [Exits -> Jobs],
         \A d \in Exits : d # c => at'[d] = at[d] /\ job'[d] = job[d],
         at'[c] \in Steps \ {"size", "send", "answer", "cancelled"},
         Purpose(c)',
         prev' \in his..Bought, applied' \subseteq TradeIds, recent' \in BOOLEAN,
         UNCHANGED <<hisVars, rowVars, old, held, others, reaper, overlapped, unheard, misread, crashes>>
  PROVE  Inv'
<1>1. TypeOK'
  <2>1. /\ old' \in BOOLEAN /\ overlapped' \in BOOLEAN /\ unheard' \in BOOLEAN /\ misread' \in BOOLEAN
        /\ his' = his /\ made' = made /\ shown' = shown
        /\ status' = status /\ shares' = shares /\ orig' = orig
        /\ held' = held /\ others' = others /\ reaper' = reaper /\ crashes' = crashes
    BY DEF Inv, TypeOK, hisVars, rowVars
  <2>2. /\ his' \in 0..Bought /\ shown' \in 0..Bought /\ his' + shown' <= Bought
        /\ prev' \in his'..Bought /\ shares' \in 0..Copied /\ orig' \in 0..Copied
        /\ others' \in 0..MaxOthers /\ held' \in 0..(Copied + MaxOthers)
        /\ crashes' \in 0..MaxCrashes
    BY <2>1 DEF Inv, TypeOK
  <2>3. /\ made' \subseteq TradeIds /\ status' \in {"filled", "exiting", "cashed_out"}
        /\ reaper' \in {"idle", "gone", "held"}
    BY <2>1 DEF Inv, TypeOK
  <2> QED BY <2>1, <2>2, <2>3 DEF TypeOK
<1>2. Purposes' /\ GoneStaysGone'
  BY DEF Inv, Purposes, Purpose, GoneStaysGone, hisVars
<1>3. OneClaimant'
  <2>1. \A d \in Exits : Working(d)' => Working(d)
    BY DEF Working, Owning
  <2> QED BY <2>1, ClaimantKept DEF rowVars
<1>4. Accounts'
  <2>1. \A d \in Exits : at'[d] = "answer" <=> at[d] = "answer"
    BY DEF Working, Owning
  <2>2. \A d \in Exits : at'[d] \in {"send", "answer", "cancelled"} =>
                              at'[d] = at[d] /\ job'[d] = job[d]
    OBVIOUS
  <2> QED BY <2>1, <2>2, AccountsKept DEF rowVars
<1> QED BY <1>1, <1>2, <1>3, <1>4 DEF Inv

\* What a call of the trade lane, and one of the position lane, starts with.
LEMMA TradeJob ==
  ASSUME NEW x \in TradeIds, NEW v \in 0..Bought, NEW w \in 1..Bought
  PROVE  /\ [NoJob EXCEPT !.trade = x, !.num = v, !.den = w] \in Jobs
         /\ [NoJob EXCEPT !.trade = x, !.num = v, !.den = w].trade = x
<1>1. NoJob \in Jobs
  BY DEF NoJob, Jobs
<1> QED BY <1>1 DEF Jobs

LEMMA LaneJob ==
  ASSUME NEW v \in 0..Bought, NEW w \in 1..Bought
  PROVE  /\ [NoJob EXCEPT !.num = v, !.den = w] \in Jobs
         /\ [NoJob EXCEPT !.num = v, !.den = w].den = w
<1>1. NoJob \in Jobs
  BY DEF NoJob, Jobs
<1> QED BY <1>1 DEF Jobs

\* Either lane starts a call.
LEMMA LaneStep ==
  ASSUME Inv,
         PositionLane \/ \E c \in Callers, x \in TradeIds : TradeLane(c, x)
  PROVE  Inv'
<1>1. ASSUME NEW c \in Callers, NEW x \in TradeIds, TradeLane(c, x) PROVE Inv'
  <2> DEFINE j == [NoJob EXCEPT !.trade = x, !.num = Bought - shown, !.den = Bought]
  <2>1. j \in Jobs /\ j.trade = x /\ c \in Exits /\ c # Lane /\ "ledger" \in Steps
    <3>1. Bought - shown \in 0..Bought /\ Bought \in 1..Bought
      BY DEF Inv, TypeOK
    <3>2. j \in Jobs /\ j.trade = x
      BY <3>1, TradeJob
    <3> QED BY <3>2 DEF Exits, Steps
  <2>2. /\ at[c] = "idle" /\ at' = [at EXCEPT ![c] = "ledger"]
        /\ job' = [job EXCEPT ![c] = j]
        /\ UNCHANGED <<hisVars, prev, rowVars, old, held, others, ledgerVars, reaper,
                       overlapped, unheard, misread, crashes>>
    BY <1>1 DEF TradeLane
  <2> HIDE DEF j
  <2>3. /\ at' \in [Exits -> Steps] /\ job' \in [Exits -> Jobs] /\ at'[c] = "ledger"
        /\ \A d \in Exits : d # c => at'[d] = at[d] /\ job'[d] = job[d]
    BY <2>1, <2>2 DEF Inv, TypeOK
  <2>4. Purpose(c)'
    BY <2>1, <2>2 DEF Inv, TypeOK, Purpose
  <2>5. prev' \in his..Bought /\ applied' \subseteq TradeIds /\ recent' \in BOOLEAN
    BY <2>2 DEF Inv, TypeOK, ledgerVars
  <2>6. ~Working(c) /\ at'[c] \in Steps \ {"size", "send", "answer", "cancelled"}
    BY <2>2, <2>3 DEF Working, Owning, Steps
  <2> QED BY <2>1, <2>2, <2>3, <2>4, <2>5, <2>6, IdleStep
<1>2. CASE PositionLane
  <2> DEFINE j == [NoJob EXCEPT !.num = his, !.den = prev]
  <2>1. /\ j \in Jobs /\ j.den = prev /\ Lane \in Exits /\ "read" \in Steps
        /\ prev >= his /\ his \in his..Bought
    <3>1. his \in 0..Bought /\ prev \in 1..Bought /\ prev > his
      BY <1>2 DEF PositionLane, Inv, TypeOK
    <3>2. j \in Jobs /\ j.den = prev
      BY <3>1, LaneJob
    <3> QED BY <3>1, <3>2 DEF Exits, Steps
  <2>2. /\ at[Lane] = "idle" /\ at' = [at EXCEPT ![Lane] = "read"]
        /\ job' = [job EXCEPT ![Lane] = j] /\ prev' = his
        /\ UNCHANGED <<hisVars, rowVars, old, held, others, ledgerVars, reaper,
                       overlapped, unheard, misread, crashes>>
    BY <1>2 DEF PositionLane
  <2> HIDE DEF j
  <2>3. /\ at' \in [Exits -> Steps] /\ job' \in [Exits -> Jobs] /\ at'[Lane] = "read"
        /\ job'[Lane] = j
        /\ \A d \in Exits : d # Lane => at'[d] = at[d] /\ job'[d] = job[d]
    BY <2>1, <2>2 DEF Inv, TypeOK
  <2>4. applied' \subseteq TradeIds /\ recent' \in BOOLEAN
    BY <2>2 DEF Inv, TypeOK, ledgerVars
  <2>5. ~Working(Lane) /\ at'[Lane] \in Steps \ {"size", "send", "answer", "cancelled"}
    BY <2>2, <2>3 DEF Working, Owning, Steps
  <2>6. Purpose(Lane)' /\ prev' \in his..Bought
    BY <2>1, <2>2, <2>3 DEF Purpose, hisVars
  <2> QED BY <2>6, <2>1, <2>2, <2>3, <2>4, <2>5, IdleStep
<1> QED BY <1>1, <1>2

\* A call before its claim, or after its booking, that returns or goes on.
LEMMA QuietStep ==
  ASSUME Inv, NEW c \in Exits, at[c] # "idle", ~Working(c),
         \/ \E pending \in BOOLEAN : Return(c, pending)
         \/ \E step \in {"read", "dedup", "claim"} : GoOn(c, step),
         applied' \subseteq TradeIds, recent' \in BOOLEAN,
         UNCHANGED <<hisVars, rowVars, old, held, others, reaper, overlapped, unheard, misread, crashes>>
  PROVE  Inv'
<1>1. ASSUME NEW pending \in BOOLEAN, Return(c, pending) PROVE Inv'
  <2>1. at'[c] = "idle" /\ "idle" \in Steps \ {"size", "send", "answer", "cancelled"}
    BY <1>1, ReturnFacts DEF Steps
  <2>2. Purpose(c)'
    BY <2>1 DEF Purpose
  <2> QED BY <1>1, <2>1, <2>2, ReturnFacts, IdleStep
<1>2. ASSUME NEW step \in {"read", "dedup", "claim"}, GoOn(c, step) PROVE Inv'
  <2>1. step \in Steps \ {"size", "send", "answer", "cancelled"} /\ step \in Steps
    BY DEF Steps
  <2>2. /\ at' \in [Exits -> Steps] /\ job' = job /\ prev' = prev
        /\ at'[c] = step /\ \A d \in Exits : d # c => at'[d] = at[d]
    BY <1>2, <2>1, GoOnFacts
  <2>3. Purpose(c)'
    BY <2>2 DEF Inv, Purposes, Purpose, hisVars
  <2>4. job' \in [Exits -> Jobs] /\ prev' \in his..Bought
    BY <2>2 DEF Inv, TypeOK
  <2> QED BY <2>1, <2>2, <2>3, <2>4, IdleStep
<1> QED BY <1>1, <1>2

\* A call reads the row, and keeps its figures.
LEMMA ReadStep ==
  ASSUME Inv, NEW c \in Exits, ReadRow(c)
  PROVE  Inv'
<1>1. /\ at[c] = "read" /\ at[c] # "idle" /\ ~Working(c)
      /\ UNCHANGED <<hisVars, rowVars, old, held, others, ledgerVars, reaper,
                     overlapped, unheard, misread, crashes>>
  BY DEF ReadRow, Working, Owning
<1>2. applied' \subseteq TradeIds /\ recent' \in BOOLEAN
  BY <1>1 DEF Inv, TypeOK, ledgerVars
<1>3. CASE Return(c, FALSE)
  BY <1>1, <1>2, <1>3, QuietStep
<1>4. CASE ~Return(c, FALSE)
  <2> DEFINE j == [job[c] EXCEPT !.had = shares, !.base = Base]
             step == IF c = Lane THEN "dedup" ELSE "claim"
  <2>1. at' = [at EXCEPT ![c] = step] /\ job' = [job EXCEPT ![c] = j] /\ UNCHANGED prev
    BY <1>4 DEF ReadRow
  <2>2. j \in Jobs /\ j.den = job[c].den /\ j.trade = job[c].trade
    <3>1. job[c] \in Jobs /\ shares \in 0..Copied /\ Base \in 0..Copied
      BY DEF Inv, TypeOK, Base
    <3> QED BY <3>1 DEF Jobs
  <2>3. step \in Steps \ {"idle", "size", "send", "answer", "cancelled"}
    BY DEF Steps
  <2> HIDE DEF j, step
  <2>4. /\ at' \in [Exits -> Steps] /\ job' \in [Exits -> Jobs]
        /\ at'[c] = step /\ job'[c] = j
        /\ \A d \in Exits : d # c => at'[d] = at[d] /\ job'[d] = job[d]
    BY <2>1, <2>2, <2>3 DEF Inv, TypeOK
  <2>5. Purpose(c)'
    BY <1>1, <2>2, <2>4 DEF Inv, Purposes, Purpose, hisVars
  <2>6. prev' \in his..Bought
    BY <2>1 DEF Inv, TypeOK
  <2> QED BY <1>1, <1>2, <2>3, <2>4, <2>5, <2>6, IdleStep
<1> QED BY <1>3, <1>4

\* The other checks before the claim, and the record after the sale.
LEMMA CheckStep ==
  ASSUME Inv, NEW c \in Exits,
         Refused(c) \/ CheckLedger(c) \/ (c = Lane /\ CheckRecent) \/ Record(c)
  PROVE  Inv'
<1>1. at[c] # "idle" /\ ~Working(c)
  BY DEF Refused, CheckLedger, CheckRecent, Record, Working, Owning
<1>2. TRUE \in BOOLEAN /\ FALSE \in BOOLEAN
  OBVIOUS
<1>3. applied \subseteq TradeIds /\ recent \in BOOLEAN /\ job[c].trade \in TradeIds \cup {NoTrade}
  BY DEF Inv, TypeOK, Jobs
<1>4. CASE Refused(c)
  BY <1>1, <1>3, <1>4, QuietStep DEF Refused, ledgerVars
<1>5. CASE CheckLedger(c)
  BY <1>1, <1>2, <1>3, <1>5, QuietStep DEF CheckLedger, ledgerVars
<1>6. CASE c = Lane /\ CheckRecent
  BY <1>1, <1>2, <1>3, <1>6, QuietStep DEF CheckRecent, ledgerVars
<1>7. CASE Record(c)
  <2>1. recent' \in BOOLEAN
    BY <1>3, <1>7 DEF Record, ledgerVars
  <2>2. applied' \subseteq TradeIds
    <3>1. c = Lane \/ job[c].trade \in TradeIds
      BY <1>1 DEF Inv, Purposes, Purpose
    <3> QED BY <1>3, <1>7, <3>1 DEF Record, ledgerVars
  <2> QED BY <1>1, <1>2, <1>7, <2>1, <2>2, QuietStep DEF Record
<1> QED BY <1>4, <1>5, <1>6, <1>7

-----------------------------------------------------------------------------
(* The calls that claim, sell and book                                      *)

\* A step of one call keeps the types if it keeps the row's, and what the
\* reaper has read if the position does not grow.
LEMMA CallTyped ==
  ASSUME Inv, at' \in [Exits -> Steps], job' \in [Exits -> Jobs], prev' \in his..Bought,
         status' \in {"filled", "exiting", "cashed_out"}, shares' \in 0..Copied,
         orig' \in 0..Copied, held' \in 0..held, unheard' \in BOOLEAN,
         misread' \in {misread, TRUE},
         UNCHANGED <<hisVars, old, others, ledgerVars, reaper, overlapped, crashes>>
  PROVE  TypeOK' /\ GoneStaysGone'
<1>1. /\ old' \in BOOLEAN /\ recent' \in BOOLEAN /\ overlapped' \in BOOLEAN
      /\ misread' \in BOOLEAN
      /\ his' = his /\ made' = made /\ shown' = shown /\ others' = others
      /\ reaper' = reaper /\ crashes' = crashes /\ applied' = applied
  BY DEF Inv, TypeOK, hisVars, ledgerVars
<1>2. /\ his' \in 0..Bought /\ shown' \in 0..Bought /\ his' + shown' <= Bought
      /\ prev' \in his'..Bought /\ others' \in 0..MaxOthers
      /\ held' \in 0..(Copied + MaxOthers) /\ crashes' \in 0..MaxCrashes
  BY <1>1 DEF Inv, TypeOK
<1>3. /\ made' \subseteq TradeIds /\ applied' \subseteq TradeIds
      /\ reaper' \in {"idle", "gone", "held"}
  BY <1>1 DEF Inv, TypeOK
<1>4. TypeOK'
  BY <1>1, <1>2, <1>3 DEF TypeOK
<1>5. held \in Nat /\ others \in Nat
  BY DEF Inv, TypeOK
<1>6. GoneStaysGone'
  BY <1>1, <1>5 DEF Inv, GoneStaysGone
<1> QED BY <1>4, <1>6

\* Why a call was made does not change under it.
LEMMA PurposeKept ==
  ASSUME Inv, his' = his,
         \A d \in Exits : at'[d] # "idle" =>
             at[d] # "idle" /\ job'[d].den = job[d].den /\ job'[d].trade = job[d].trade
  PROVE  Purposes'
  BY DEF Inv, Purposes, Purpose

\* A call at work is the only one, and the row is exiting.
LEMMA Alone ==
  ASSUME Inv, ~overlapped, NEW c \in Exits, Working(c)
  PROVE  /\ status = "exiting"
         /\ \A d \in Exits \ {c} : ~Working(d)
  BY DEF Inv, OneClaimant

\* A filled row has no call at work.
LEMMA NobodyWorks ==
  ASSUME Inv, ~overlapped, status # "exiting"
  PROVE  \A d \in Exits : at[d] \notin {"size", "send", "answer", "cancelled"}
  BY DEF Inv, OneClaimant, Working, Owning

\* The claim, heard or not, and its refusal.
LEMMA ClaimStep ==
  ASSUME Inv, NEW c \in Exits, Claim(c) \/ ClaimUnheard(c)
  PROVE  Inv'
<1>1. at[c] = "claim" /\ ~Working(c) /\ at[c] # "idle"
  BY DEF Claim, ClaimUnheard, Working, Owning
<1>2. /\ UNCHANGED <<hisVars, shares, orig, old, held, others, ledgerVars, reaper,
                     overlapped, unheard, misread, crashes>>
      /\ applied' \subseteq TradeIds /\ recent' \in BOOLEAN
  BY DEF Claim, ClaimUnheard, Inv, TypeOK, ledgerVars
<1>3. CASE Return(c, TRUE) /\ UNCHANGED status
  BY <1>1, <1>2, <1>3, QuietStep DEF rowVars
<1>4. ASSUME status = "filled", status' = "exiting",
             GoOn(c, "size") \/ Return(c, FALSE)
      PROVE  Inv'
  <2>1. /\ at' \in [Exits -> Steps] /\ job' \in [Exits -> Jobs] /\ prev' \in his..Bought
        /\ at'[c] \in {"size", "idle"}
        /\ (at'[c] = "idle" \/ job'[c] = job[c])
        /\ \A d \in Exits : d # c => at'[d] = at[d] /\ job'[d] = job[d]
    <3>1. CASE GoOn(c, "size")
      <4>1. "size" \in Steps
        BY DEF Steps
      <4> QED BY <3>1, <4>1, GoOnFacts DEF Inv, TypeOK
    <3>2. CASE Return(c, FALSE)
      BY <1>1, <3>2, ReturnFacts
    <3> QED BY <1>4, <3>1, <3>2
  <2>2. TypeOK' /\ GoneStaysGone'
    <3>1. shares' \in 0..Copied /\ orig' \in 0..Copied /\ held' \in 0..held /\ unheard' \in BOOLEAN
      BY <1>2 DEF Inv, TypeOK
    <3> QED BY <1>2, <1>4, <2>1, <3>1, CallTyped
  <2>3. Purposes'
    BY <1>1, <1>2, <2>1, PurposeKept DEF hisVars
  <2>4. OneClaimant'
    <3> SUFFICES ASSUME ~overlapped PROVE OneClaimant'
      BY <1>2 DEF OneClaimant
    <3>1. \A d \in Exits : Working(d)' => d = c
      BY <1>4, <2>1, NobodyWorks DEF Working, Owning
    <3> QED BY <1>4, <3>1 DEF OneClaimant
  <2>5. Accounts'
    <3> SUFFICES ASSUME ~overlapped, ~unheard, misread => others = 0 PROVE Accounts'
      BY <1>2 DEF Accounts
    <3>1. \A d \in Exits : at'[d] \notin {"send", "answer", "cancelled"}
      <4>1. \A d \in Exits : at[d] \notin {"size", "send", "answer", "cancelled"}
        BY <1>4, NobodyWorks
      <4> QED BY <2>1, <4>1
    <3>2. shares + others = held
      BY <1>4 DEF Inv, Accounts
    <3> QED BY <1>2, <1>4, <3>1, <3>2 DEF Accounts, CallKnows, SaleCounts
  <2> QED BY <2>2, <2>3, <2>4, <2>5 DEF Inv
<1>5. CASE Claim(c)
  BY <1>3, <1>4, <1>5 DEF Claim
<1>6. CASE ClaimUnheard(c)
  BY <1>4, <1>6 DEF ClaimUnheard
<1> QED BY <1>5, <1>6

\* A call that ends with nothing sold gives the row back, or leaves it to the
\* reaper: the row is what it was.
LEMMA ReleaseStep ==
  ASSUME Inv, NEW c \in Exits, Working(c), NEW pending \in BOOLEAN,
         Release \/ UNCHANGED status, Return(c, pending), unheard' \in BOOLEAN, unheard => unheard',
         at[c] = "answer" /\ ~unheard' => job[c].got = 0,
         UNCHANGED <<hisVars, shares, orig, old, held, others, ledgerVars, reaper,
                     overlapped, misread, crashes>>
  PROVE  Inv'
<1>1. at[c] # "idle"
  BY DEF Working, Owning
<1>2. /\ at' \in [Exits -> Steps] /\ job' \in [Exits -> Jobs] /\ prev' \in his..Bought
      /\ at'[c] = "idle" /\ \A d \in Exits : d # c => at'[d] = at[d] /\ job'[d] = job[d]
  BY <1>1, ReturnFacts
<1>3. TypeOK' /\ GoneStaysGone'
  <2>1. status' \in {"filled", "exiting", "cashed_out"}
    BY DEF Release, Inv, TypeOK
  <2>2. shares' \in 0..Copied /\ orig' \in 0..Copied /\ held' \in 0..held
    BY DEF Inv, TypeOK
  <2> QED BY <1>2, <2>1, <2>2, CallTyped
<1>4. Purposes'
  BY <1>2, PurposeKept DEF hisVars
<1>5. ASSUME ~overlapped PROVE \A d \in Exits : ~Working(d)'
  BY <1>2, <1>5, Alone DEF Working, Owning
<1>6. OneClaimant'
  BY <1>5 DEF OneClaimant
<1>7. Accounts'
  <2> SUFFICES ASSUME ~overlapped, ~unheard', misread => others = 0 PROVE Accounts'
    BY DEF Accounts
  <2>1. status = "exiting" /\ status' \in {"filled", "exiting"}
    BY Alone DEF Release
  <2>2. shares + others = held
    <3>1. CASE at[c] = "answer"
      <4>1. shares \in Nat /\ others \in Nat /\ held \in Nat
        BY DEF Inv, TypeOK
      <4> QED BY <3>1, <4>1 DEF Inv, Accounts, SaleCounts
    <3>2. CASE at[c] # "answer"
      <4>1. \A d \in Exits \ {c} : at[d] # "answer"
        BY Alone DEF Working, Owning
      <4>2. \A d \in Exits : at[d] # "answer"
        BY <3>2, <4>1
      <4> QED BY <2>1, <4>2 DEF Inv, Accounts
    <3> QED BY <3>1, <3>2
  <2>3. \A d \in Exits : at'[d] \notin {"send", "answer", "cancelled"}
    BY <1>5 DEF Working, Owning
  <2> QED BY <2>1, <2>2, <2>3 DEF Accounts, CallKnows, SaleCounts
<1> QED BY <1>3, <1>4, <1>6, <1>7 DEF Inv

\* A call that has heard from the venue stays in the type of a job.
LEMMA SoldJob ==
  ASSUME NEW j \in Jobs, NEW f \in 0..(Copied + MaxOthers)
  PROVE  LET k == [j EXCEPT !.got = f]
         IN  /\ k \in Jobs /\ k.got = f /\ k.had = j.had /\ k.ours = j.ours
             /\ k.qty = j.qty /\ k.flat = j.flat /\ k.den = j.den /\ k.trade = j.trade
  BY DEF Jobs

\* A call sizes a sale on the row, or on what it read of it before the claim:
\* on no less than the row has, and on a market of ours on just that.
LEMMA SizeOnStep ==
  ASSUME Inv, NEW c \in Exits, at[c] = "size", NEW had \in 0..Copied, shares <= had,
         NEW base \in 0..Copied, SizeOn(c, had, base, Ours(had)),
         UNCHANGED <<hisVars, shares, orig, old, held, others, ledgerVars, reaper,
                     overlapped, unheard, crashes>>
  PROVE  Inv'
<1>1. Working(c)
  BY DEF Working, Owning
<1>2. unheard' \in BOOLEAN /\ unheard' = unheard
  BY DEF Inv, TypeOK
<1>3. Ours(had) \in 0..Copied /\ Ours(had) <= held
  BY OursFacts DEF Inv
<1> DEFINE o == Ours(had)
           q == Qty(c, base, Ours(had))
           f == IsFull(c) /\ Ours(had) >= held
           j == [job[c] EXCEPT !.had = had, !.ours = o, !.qty = q, !.flat = f]
<1>4. q \in 0..Copied /\ q <= o
  BY <1>3, QtyFacts DEF Inv
<1>5. CASE q = 0
  <2>1. Release /\ Return(c, o > 1) /\ UNCHANGED misread
    BY <1>5 DEF SizeOn
  <2> HIDE DEF o
  <2>2. PICK pending \in BOOLEAN : Return(c, pending)
    <3>1. (o > 1) \in BOOLEAN
      OBVIOUS
    <3> QED BY <2>1, <3>1
  <2>3. at[c] # "answer"
    OBVIOUS
  <2> QED BY <1>1, <1>2, <2>1, <2>2, <2>3, ReleaseStep
<1>6. CASE q # 0
  <2>1. /\ at' = [at EXCEPT ![c] = "send"] /\ job' = [job EXCEPT ![c] = j]
        /\ misread' = (misread \/ had # shares) /\ UNCHANGED <<status, prev>>
    BY <1>6 DEF SizeOn
  <2>2. f \in BOOLEAN /\ (f => o >= held)
    OBVIOUS
  <2>3. o = Smaller(had, held)
    BY DEF Ours
  <2>4. job[c] \in Jobs
    BY DEF Inv, TypeOK
  <2>5. o \in 0..Copied
    BY <1>3
  <2> HIDE DEF f, o, q
  <2>6. /\ j \in Jobs /\ j.had = had /\ j.ours = o /\ j.qty = q /\ j.flat = f
        /\ j.den = job[c].den /\ j.trade = job[c].trade
    <3> DEFINE i == job[c]
    <3>1. i \in Jobs /\ q \in 0..Copied
      BY <1>4, <2>4
    <3> HIDE DEF i
    <3>2. LET k == [i EXCEPT !.had = had, !.ours = o, !.qty = q, !.flat = f]
          IN  /\ k \in Jobs /\ k.had = had /\ k.ours = o /\ k.qty = q /\ k.flat = f
              /\ k.den = i.den /\ k.trade = i.trade /\ k.num = i.num
      BY ONLY had \in 0..Copied, <2>2, <2>5, <3>1 DEF Jobs
    <3> USE DEF i
    <3> QED BY ONLY <3>2, Zenon
  <2> HIDE DEF j
  <2>7. /\ at' \in [Exits -> Steps] /\ job' \in [Exits -> Jobs] /\ at'[c] = "send" /\ job'[c] = j
        /\ \A d \in Exits : d # c => at'[d] = at[d] /\ job'[d] = job[d]
    <3>1. "send" \in Steps
      BY DEF Steps
    <3> QED BY <2>1, <2>6, <3>1 DEF Inv, TypeOK
  <2>8. TypeOK' /\ GoneStaysGone'
    <3>1. /\ prev' \in his..Bought /\ status' \in {"filled", "exiting", "cashed_out"}
          /\ shares' \in 0..Copied /\ orig' \in 0..Copied /\ held' \in 0..held
      BY <2>1 DEF Inv, TypeOK
    <3>2. misread' \in {misread, TRUE}
      <4>1. misread \in BOOLEAN
        BY DEF Inv, TypeOK
      <4> QED BY <2>1, <4>1
    <3> QED BY <1>2, <2>7, <3>1, <3>2, CallTyped
  <2>9. Purposes'
    BY <2>6, <2>7, PurposeKept DEF hisVars
  <2>10. OneClaimant'
    <3>1. \A d \in Exits : Working(d)' => Working(d)
      BY <1>1, <2>7 DEF Working, Owning
    <3> QED BY <2>1, <3>1, ClaimantKept
  <2>11. Accounts'
    <3> SUFFICES ASSUME ~overlapped, ~unheard, misread' => others = 0 PROVE Accounts'
      BY DEF Accounts
    <3>1. status = "exiting" /\ \A d \in Exits \ {c} : ~Working(d)
      BY <1>1, Alone
    <3>2. \A d \in Exits : at[d] # "answer" /\ (d # c => at'[d] \notin {"send", "answer", "cancelled"})
      BY <2>7, <3>1 DEF Working, Owning
    <3>3. shares + others = held
      BY <2>1, <3>1, <3>2 DEF Inv, Accounts
    <3>4. shares \in Nat /\ others \in Nat /\ held \in Nat /\ had \in Nat
      BY DEF Inv, TypeOK
    <3>5. had = shares \/ others = 0
      BY <2>1
    <3>6. o = shares
      BY <2>3, <3>3, <3>4, <3>5 DEF Smaller
    <3>7. q <= shares /\ (f => others = 0)
      BY <1>4, <2>2, <3>3, <3>4, <3>6
    <3>8. CallKnows(c)'
      BY <2>6, <2>7, <3>6, <3>7 DEF CallKnows
    <3>9. \A d \in Exits : CallKnows(d)' /\ SaleCounts(d)'
      BY <3>2, <3>8, <2>7 DEF CallKnows, SaleCounts
    <3> QED BY <2>1, <3>1, <3>3, <3>9 DEF Accounts
  <2> QED BY <2>8, <2>9, <2>10, <2>11 DEF Inv
<1> QED BY <1>5, <1>6

\* The sale is sized on the row or on what was read of it, or nothing is sent.
LEMMA SizeStep ==
  ASSUME Inv, Reads, NEW c \in Exits, Size(c) \/ AbortUnsent(c)
  PROVE  Inv'
<1>1. at[c] = "size" /\ Working(c)
  BY DEF Size, AbortUnsent, Working, Owning
<1>2. /\ UNCHANGED <<hisVars, shares, orig, old, held, others, ledgerVars, reaper,
                     overlapped, unheard, crashes>>
      /\ unheard' \in BOOLEAN /\ unheard' = unheard
  BY DEF Size, AbortUnsent, Inv, TypeOK
<1>3. CASE AbortUnsent(c)
  <2>1. PICK pending \in BOOLEAN : (Release \/ UNCHANGED status) /\ Return(c, pending)
    BY <1>3 DEF AbortUnsent
  <2>2. UNCHANGED misread
    BY <1>3 DEF AbortUnsent
  <2> QED BY <1>1, <1>2, <2>1, <2>2, ReleaseStep
<1>4. CASE Size(c)
  <2>1. shares \in 0..Copied /\ shares <= shares /\ Base \in 0..Copied
    BY DEF Inv, TypeOK, Base
  <2>2. /\ job[c].had \in 0..Copied /\ job[c].base \in 0..Copied /\ shares <= job[c].had
    <3>1. job[c] \in Jobs
      BY DEF Inv, TypeOK
    <3> QED BY <1>1, <3>1 DEF Jobs, Reads, Read
  <2>3. CASE SizeOn(c, shares, Base, Ours(shares))
    BY <1>1, <1>2, <2>1, <2>3, SizeOnStep
  <2>4. CASE SizeOn(c, job[c].had, job[c].base, Ours(job[c].had))
    BY <1>1, <1>2, <2>2, <2>4, SizeOnStep
  <2> QED BY <1>4, <2>3, <2>4 DEF Size
<1> QED BY <1>3, <1>4

\* Nothing sold, an answer lost in an exception, or cancelled with it.
LEMMA UnfilledStep ==
  ASSUME Inv, NEW c \in Exits, Unfilled(c)
  PROVE  Inv'
<1>1. at[c] = "answer" /\ Working(c) /\ Release /\ Return(c, TRUE) /\ TRUE \in BOOLEAN
  BY DEF Unfilled, Working, Owning
<1>2. /\ UNCHANGED <<hisVars, shares, orig, old, held, others, ledgerVars, reaper,
                     overlapped, misread, crashes>>
      /\ unheard' = (unheard \/ job[c].got > 0)
  BY DEF Unfilled
<1>3. unheard' \in BOOLEAN /\ (unheard => unheard')
  BY <1>2
<1>4. ~unheard' => job[c].got = 0
  <2>1. job[c].got \in Nat
    BY DEF Inv, TypeOK, Jobs
  <2>2. ~unheard' => ~(job[c].got > 0)
    BY <1>2
  <2> QED BY <2>1, <2>2
<1> QED BY <1>1, <1>2, <1>3, <1>4, ReleaseStep

\* What a sale can take: never the shares of other rows.
LEMMA SellableFacts ==
  ASSUME Inv, NEW c \in Exits, NEW f \in 0..held, f <= Sellable(c)
  PROVE  /\ held - f \in 0..held /\ f \in 0..(Copied + MaxOthers)
         /\ ~overlapped /\ ~unheard /\ (misread => others = 0)
            /\ at[c] \in {"send", "cancelled"} /\ shares + others = held => others <= held - f
<1>1. /\ held \in 0..(Copied + MaxOthers) /\ shares \in Nat /\ others \in Nat
      /\ Copied \in Nat /\ MaxOthers \in Nat
  BY DEF Inv, TypeOK
<1>2. held - f \in 0..held /\ f \in 0..(Copied + MaxOthers)
  BY <1>1
<1>3. ASSUME ~overlapped, ~unheard, misread => others = 0, at[c] \in {"send", "cancelled"},
             shares + others = held
      PROVE  others <= held - f
  <2>1. job[c].qty <= shares /\ (job[c].flat => others = 0)
    BY <1>3 DEF Inv, Accounts, CallKnows
  <2>2. job[c].qty \in Nat
    BY DEF Inv, TypeOK, Jobs
  <2>3. CASE job[c].flat
    BY <1>1, <2>1, <2>3
  <2>4. CASE ~job[c].flat
    BY <1>1, <1>3, <2>1, <2>2, <2>4 DEF Sellable, Smaller
  <2> QED BY <2>3, <2>4
<1> QED BY <1>2, <1>3

\* The venue executes a sale: what the row claims and the venue no longer
\* holds is what the call has yet to hear.
LEMMA SaleStep ==
  ASSUME Inv, NEW c \in Exits, NEW f \in 0..held, VenueSells(c, f)
  PROVE  Inv'
<1>1. /\ at[c] = "send" /\ Working(c) /\ f <= Sellable(c) /\ held' = held - f
      /\ at' = [at EXCEPT ![c] = "answer"] /\ job' = [job EXCEPT ![c].got = f]
      /\ UNCHANGED <<hisVars, prev, rowVars, old, others, ledgerVars, reaper,
                     overlapped, unheard, misread, crashes>>
  BY DEF VenueSells, Working, Owning
<1>2. held - f \in 0..held /\ f \in 0..(Copied + MaxOthers)
  BY <1>1, SellableFacts
<1> DEFINE j == [job[c] EXCEPT !.got = f]
<1>3. /\ j \in Jobs /\ j.got = f /\ j.had = job[c].had /\ j.ours = job[c].ours
      /\ j.qty = job[c].qty /\ j.flat = job[c].flat /\ j.den = job[c].den
      /\ j.trade = job[c].trade
  <2>1. job[c] \in Jobs
    BY DEF Inv, TypeOK
  <2> QED BY <1>2, <2>1, SoldJob
<1>4. job' = [job EXCEPT ![c] = j]
  BY <1>1
<1> HIDE DEF j
<1>5. /\ at' \in [Exits -> Steps] /\ job' \in [Exits -> Jobs] /\ at'[c] = "answer" /\ job'[c] = j
      /\ \A d \in Exits : d # c => at'[d] = at[d] /\ job'[d] = job[d]
  <2>1. "answer" \in Steps
    BY DEF Steps
  <2> QED BY <1>1, <1>3, <1>4, <2>1 DEF Inv, TypeOK
<1>6. TypeOK' /\ GoneStaysGone'
  <2>1. /\ prev' \in his..Bought /\ status' \in {"filled", "exiting", "cashed_out"}
        /\ shares' \in 0..Copied /\ orig' \in 0..Copied /\ held' \in 0..held /\ unheard' \in BOOLEAN
    BY <1>1, <1>2 DEF Inv, TypeOK, rowVars
  <2> QED BY <1>1, <1>5, <2>1, CallTyped
<1>7. Purposes'
  BY <1>1, <1>3, <1>5, PurposeKept DEF hisVars
<1>8. OneClaimant'
  <2>1. \A d \in Exits : Working(d)' => Working(d)
    BY <1>1, <1>5 DEF Working, Owning
  <2> QED BY <1>1, <2>1, ClaimantKept DEF rowVars
<1>9. Accounts'
  <2> SUFFICES ASSUME ~overlapped, ~unheard, misread => others = 0 PROVE Accounts'
    BY <1>1 DEF Accounts
  <2>1. status = "exiting" /\ \A d \in Exits \ {c} : ~Working(d)
    BY <1>1, Alone
  <2>2. \A d \in Exits : at[d] # "answer" /\ (d # c => at'[d] \notin {"send", "answer", "cancelled"})
    BY <1>1, <1>5, <2>1 DEF Working, Owning
  <2>3. shares + others = held
    BY <2>1, <2>2 DEF Inv, Accounts
  <2>4. others <= held - f
    BY <1>1, <2>3, SellableFacts
  <2>5. shares \in Nat /\ others \in Nat /\ held \in Nat
    BY DEF Inv, TypeOK
  <2>6. CallKnows(c)
    BY <1>1 DEF Inv, Accounts, CallKnows
  <2>7. CallKnows(c)'
    BY <1>1, <1>3, <1>5, <2>6 DEF CallKnows, rowVars
  <2>8. SaleCounts(c)'
    BY <1>1, <1>3, <1>5, <2>3, <2>4, <2>5 DEF SaleCounts, rowVars
  <2>9. \A d \in Exits : CallKnows(d)' /\ SaleCounts(d)'
    BY <2>2, <2>7, <2>8 DEF CallKnows, SaleCounts
  <2> QED BY <1>1, <1>5, <2>1, <2>9 DEF Accounts, rowVars
<1> QED BY <1>6, <1>7, <1>8, <1>9 DEF Inv

\* A call cancelled under the venue call; its thread still knows what it knew.
LEMMA CancelStep ==
  ASSUME Inv, NEW c \in Exits, Cancelled(c)
  PROVE  Inv'
<1>1. /\ at[c] \in {"send", "answer"} /\ Working(c) /\ at[c] # "idle"
      /\ UNCHANGED <<hisVars, rowVars, old, held, others, ledgerVars, reaper,
                     overlapped, misread, crashes>>
  BY DEF Cancelled, Working, Owning
<1>2. shares' \in 0..Copied /\ orig' \in 0..Copied /\ held' \in 0..held
      /\ status' \in {"filled", "exiting", "cashed_out"}
  BY <1>1 DEF Inv, TypeOK, rowVars
<1>3. ASSUME at[c] = "send" PROVE Inv'
  <2>1. at' = [at EXCEPT ![c] = "cancelled"] /\ UNCHANGED <<job, prev, unheard>>
    BY <1>3 DEF Cancelled
  <2>2. /\ at' \in [Exits -> Steps] /\ at'[c] = "cancelled"
        /\ \A d \in Exits : d # c => at'[d] = at[d]
    <3>1. "cancelled" \in Steps
      BY DEF Steps
    <3> QED BY <2>1, <3>1 DEF Inv, TypeOK
  <2>3. job' = job /\ job' \in [Exits -> Jobs] /\ prev' \in his..Bought /\ unheard' \in BOOLEAN
    BY <2>1 DEF Inv, TypeOK
  <2>4. TypeOK' /\ GoneStaysGone'
    BY <1>1, <1>2, <2>2, <2>3, CallTyped
  <2>5. Purposes'
    BY <1>1, <2>2, <2>3, PurposeKept DEF hisVars
  <2>6. OneClaimant'
    <3>1. \A d \in Exits : Working(d)' => Working(d)
      BY <1>3, <2>2 DEF Working, Owning
    <3> QED BY <1>1, <3>1, ClaimantKept DEF rowVars
  <2>7. Accounts'
    <3> SUFFICES ASSUME ~overlapped, ~unheard, misread => others = 0 PROVE Accounts'
      BY <1>1, <2>1 DEF Accounts
    <3>1. \A d \in Exits : at'[d] = "answer" <=> at[d] = "answer"
      BY <1>3, <2>2
    <3>2. \A d \in Exits : CallKnows(d)' /\ SaleCounts(d)'
      BY <1>1, <1>3, <2>2, <2>3 DEF Inv, Accounts, CallKnows, SaleCounts, rowVars
    <3> QED BY <1>1, <3>1, <3>2 DEF Inv, Accounts, rowVars
  <2> QED BY <2>4, <2>5, <2>6, <2>7 DEF Inv
<1>4. ASSUME at[c] = "answer" PROVE Inv'
  <2>1. PICK pending \in BOOLEAN : Return(c, pending)
    <3>1. Return(c, FALSE) \/ Return(c, job[c].got > 0)
      BY <1>4 DEF Cancelled
    <3>2. FALSE \in BOOLEAN /\ (job[c].got > 0) \in BOOLEAN
      OBVIOUS
    <3> QED BY <3>1, <3>2
  <2>2. pending \in BOOLEAN /\ unheard' = (unheard \/ job[c].got > 0)
    BY <1>4 DEF Cancelled
  <2>3. job[c].got \in Nat
    BY DEF Inv, TypeOK, Jobs
  <2>4. unheard' \in BOOLEAN /\ (unheard => unheard')
    BY <2>2
  <2>5. ~unheard' => job[c].got = 0
    <3>1. ~unheard' => ~(job[c].got > 0)
      BY <2>2
    <3> QED BY <2>3, <3>1
  <2> QED BY <1>1, <2>1, <2>4, <2>5, ReleaseStep DEF rowVars
<1> QED BY <1>1, <1>3, <1>4

\* The thread of a cancelled call: what it sells goes unheard.
LEMMA ThreadStep ==
  ASSUME Inv, NEW c \in Exits, NEW f \in 0..held, ThreadEnds(c, f)
  PROVE  Inv'
<1>1. /\ at[c] = "cancelled" /\ Working(c) /\ at[c] # "idle" /\ f <= Sellable(c)
      /\ held' = held - f /\ unheard' = (unheard \/ f > 0)
      /\ at' = [at EXCEPT ![c] = "idle"] /\ job' = [job EXCEPT ![c] = NoJob]
      /\ UNCHANGED <<hisVars, prev, rowVars, old, others, ledgerVars, reaper,
                     overlapped, misread, crashes>>
  BY DEF ThreadEnds, Working, Owning
<1>2. /\ at' \in [Exits -> Steps] /\ job' \in [Exits -> Jobs] /\ at'[c] = "idle"
      /\ \A d \in Exits : d # c => at'[d] = at[d] /\ job'[d] = job[d]
  <2>1. NoJob \in Jobs /\ "idle" \in Steps
    BY DEF NoJob, Jobs, Steps
  <2> QED BY <1>1, <2>1 DEF Inv, TypeOK
<1>3. TypeOK' /\ GoneStaysGone'
  <2>1. /\ prev' \in his..Bought /\ status' \in {"filled", "exiting", "cashed_out"}
        /\ shares' \in 0..Copied /\ orig' \in 0..Copied
    BY <1>1 DEF Inv, TypeOK, rowVars
  <2>2. held' \in 0..held
    BY <1>1, SellableFacts
  <2>3. unheard' \in BOOLEAN
    BY <1>1
  <2> QED BY <1>1, <1>2, <2>1, <2>2, <2>3, CallTyped
<1>4. Purposes'
  BY <1>1, <1>2, PurposeKept DEF hisVars
<1>5. OneClaimant'
  <2>1. \A d \in Exits : Working(d)' => Working(d)
    BY <1>2 DEF Working, Owning
  <2> QED BY <1>1, <2>1, ClaimantKept DEF rowVars
<1>6. Accounts'
  <2> SUFFICES ASSUME ~overlapped, ~unheard', misread => others = 0 PROVE Accounts'
    BY <1>1 DEF Accounts
  <2>1. ~unheard /\ ~(f > 0)
    BY <1>1
  <2>2. held' = held
    <3>1. held \in Nat
      BY DEF Inv, TypeOK
    <3> QED BY <1>1, <2>1, <3>1
  <2>3. status = "exiting" /\ \A d \in Exits \ {c} : ~Working(d)
    BY <1>1, Alone
  <2>4. \A d \in Exits : at[d] # "answer" /\ at'[d] \notin {"send", "answer", "cancelled"}
    BY <1>1, <1>2, <2>3 DEF Working, Owning
  <2>5. shares + others = held
    BY <2>1, <2>3, <2>4 DEF Inv, Accounts
  <2> QED BY <1>1, <2>2, <2>3, <2>4, <2>5 DEF Accounts, CallKnows, SaleCounts, rowVars
<1> QED BY <1>3, <1>4, <1>5, <1>6 DEF Inv

\* The booking: the row gives up what the venue sold, no more and no less.
LEMMA BookStep ==
  ASSUME Inv, NEW c \in Exits, Book(c)
  PROVE  Inv'
<1>1. /\ at[c] = "answer" /\ Working(c) /\ at[c] # "idle" /\ job[c].got > 0
      /\ UNCHANGED <<hisVars, old, held, others, ledgerVars, reaper,
                     overlapped, unheard, misread, crashes>>
  BY DEF Book, Working, Owning
<1>2. /\ at' \in [Exits -> Steps] /\ job' \in [Exits -> Jobs] /\ prev' \in his..Bought
      /\ at'[c] \in {"idle", "record"} /\ (at'[c] = "idle" \/ job'[c] = job[c])
      /\ \A d \in Exits : d # c => at'[d] = at[d] /\ job'[d] = job[d]
  <2>1. Return(c, TRUE) \/ GoOn(c, "record")
    BY DEF Book
  <2>2. CASE Return(c, TRUE)
    BY <1>1, <2>2, ReturnFacts
  <2>3. CASE GoOn(c, "record")
    <3>1. "record" \in Steps
      BY DEF Steps
    <3> QED BY <2>3, <3>1, GoOnFacts DEF Inv, TypeOK
  <2> QED BY <2>1, <2>2, <2>3
<1>3. /\ shares \in 0..Copied /\ orig \in 0..Copied /\ others \in Nat /\ held \in Nat
      /\ Copied \in Nat
  BY DEF Inv, TypeOK
<1>4. job[c].got \in Nat /\ job[c].ours \in Nat /\ job[c].had \in Nat
  BY DEF Inv, TypeOK, Jobs
<1>5. Booked(c) \in Nat
  BY <1>4 DEF Booked, Smaller
<1>6. /\ status' \in {"filled", "cashed_out"}
      /\ IF Remaining(c) > 0 THEN status' = "filled" /\ shares' = Less(shares, Booked(c))
                             ELSE status' = "cashed_out"
  BY DEF Book
<1>7. shares' \in 0..Copied
  <2>1. Less(shares, Booked(c)) \in 0..Copied
    BY <1>3, <1>5 DEF Less
  <2> QED BY <1>3, <2>1 DEF Book
<1>8. orig' \in 0..Copied
  <2>1. Base \in 0..Copied
    BY <1>3 DEF Base
  <2> QED BY <1>3, <2>1 DEF Book
<1>9. TypeOK' /\ GoneStaysGone'
  <2>1. held' \in 0..held /\ unheard' \in BOOLEAN /\ status' \in {"filled", "exiting", "cashed_out"}
    BY <1>1, <1>3, <1>6 DEF Inv, TypeOK
  <2> QED BY <1>1, <1>2, <1>7, <1>8, <2>1, CallTyped
<1>10. Purposes'
  BY <1>1, <1>2, PurposeKept DEF hisVars
<1>11. ASSUME ~overlapped PROVE \A d \in Exits : at'[d] \notin {"size", "send", "answer", "cancelled"}
  <2>1. \A d \in Exits \ {c} : ~Working(d)
    BY <1>1, <1>11, Alone
  <2> QED BY <1>2, <2>1 DEF Working, Owning
<1>12. OneClaimant'
  BY <1>1, <1>11 DEF OneClaimant, Working, Owning
<1>13. Accounts'
  <2> SUFFICES ASSUME ~overlapped, ~unheard, misread => others = 0 PROVE Accounts'
    BY <1>1 DEF Accounts
  <2>1. /\ shares <= job[c].had /\ job[c].ours = shares
        /\ shares + others = held + job[c].got /\ others <= held
    BY <1>1 DEF Inv, Accounts, CallKnows, SaleCounts
  <2>2. Booked(c) = job[c].got /\ job[c].got <= shares
    BY <1>3, <1>4, <2>1 DEF Booked, Smaller
  <2>3. Remaining(c) = job[c].had - job[c].got
    BY <1>3, <1>4, <2>1, <2>2 DEF Remaining, Less
  <2>4. CASE Remaining(c) > 0
    <3>1. status' = "filled" /\ shares' = shares - job[c].got
      BY <1>3, <1>4, <1>6, <2>2, <2>4 DEF Less
    <3>2. shares' + others = held
      BY <1>3, <1>4, <2>1, <3>1
    <3> QED BY <1>1, <1>11, <3>1, <3>2 DEF Accounts, CallKnows, SaleCounts
  <2>5. CASE ~(Remaining(c) > 0)
    <3>1. status' = "cashed_out"
      BY <1>6, <2>5
    <3>2. held = others
      BY <1>3, <1>4, <2>1, <2>2, <2>3, <2>5
    <3> QED BY <1>1, <1>11, <3>1, <3>2 DEF Accounts, CallKnows, SaleCounts
  <2> QED BY <2>4, <2>5
<1> QED BY <1>9, <1>10, <1>12, <1>13 DEF Inv

-----------------------------------------------------------------------------
(* The reaper, time and restarts                                            *)

\* The reaper reads and resolves: on a row that nobody works on, what the
\* venue no longer holds was booked.
LEMMA ReapStep ==
  ASSUME Inv, ReaperStep
  PROVE  Inv'
<1>1. /\ UNCHANGED <<hisVars, prev, shares, orig, old, held, others, ledgerVars, at, job,
                     unheard, misread, crashes>>
      /\ reaper' \in {"idle", "gone", "held"} /\ status' \in {"filled", "exiting", "cashed_out"}
  BY DEF ReaperStep, ReaperReads, ReaperResolves, Inv, TypeOK, rowVars
<1>2. overlapped' \in BOOLEAN /\ (overlapped => overlapped')
  <2>1. CASE ReaperReads
    BY <2>1 DEF ReaperReads, Inv, TypeOK
  <2>2. CASE ReaperResolves
    BY <2>2 DEF ReaperResolves
  <2> QED BY <2>1, <2>2 DEF ReaperStep
<1>3. TypeOK'
  <2>1. /\ his' = his /\ made' = made /\ shown' = shown /\ applied' = applied
        /\ old' \in BOOLEAN /\ recent' \in BOOLEAN /\ unheard' \in BOOLEAN
        /\ misread' \in BOOLEAN
    BY <1>1 DEF Inv, TypeOK, hisVars, ledgerVars
  <2>2. /\ his' \in 0..Bought /\ shown' \in 0..Bought /\ his' + shown' <= Bought
        /\ prev' \in his'..Bought /\ others' \in 0..MaxOthers /\ shares' \in 0..Copied
        /\ orig' \in 0..Copied /\ held' \in 0..(Copied + MaxOthers) /\ crashes' \in 0..MaxCrashes
    BY <1>1, <2>1 DEF Inv, TypeOK
  <2>3. /\ made' \subseteq TradeIds /\ applied' \subseteq TradeIds
        /\ at' \in [Exits -> Steps] /\ job' \in [Exits -> Jobs]
    BY <1>1, <2>1 DEF Inv, TypeOK
  <2> QED BY <1>1, <1>2, <2>1, <2>2, <2>3 DEF TypeOK
<1>4. Purposes'
  BY <1>1, PurposeKept DEF hisVars
<1>5. shares \in Nat /\ others \in Nat /\ held \in Nat
  BY DEF Inv, TypeOK
<1>6. CASE ReaperReads
  <2>1. UNCHANGED <<status, overlapped>> /\ (reaper' = "gone" => held <= others)
    BY <1>5, <1>6 DEF ReaperReads, rowVars
  <2>2. GoneStaysGone' /\ OneClaimant'
    BY <1>1, <2>1, ClaimantKept DEF GoneStaysGone, Working
  <2>3. Accounts'
    BY <1>1, <2>1, AccountsKept
  <2> QED BY <1>3, <1>4, <2>2, <2>3 DEF Inv
<1>7. CASE ReaperResolves
  <2>1. /\ reaper # "idle" /\ reaper' = "idle"
        /\ status # "exiting" => status' = status
        /\ status = "exiting" => status' = IF reaper = "gone" THEN "cashed_out" ELSE "filled"
        /\ overlapped' = (overlapped \/ (status = "exiting" /\ \E c \in Exits : Working(c)))
    BY <1>7 DEF ReaperResolves
  <2>2. ASSUME ~overlapped' PROVE ~overlapped /\ \A c \in Exits : ~Working(c)
    BY <2>1, <2>2 DEF Inv, OneClaimant
  <2>3. GoneStaysGone'
    BY <2>1 DEF GoneStaysGone
  <2>4. OneClaimant'
    BY <1>1, <2>2 DEF OneClaimant, Working
  <2>5. Accounts'
    <3> SUFFICES ASSUME ~overlapped', ~unheard, misread => others = 0 PROVE Accounts'
      BY <1>1 DEF Accounts
    <3>1. ~overlapped /\ \A c \in Exits : at[c] \notin {"send", "answer", "cancelled"}
      BY <2>2 DEF Working, Owning
    <3>2. CASE status = "exiting"
      <4>1. shares + others = held
        BY <3>1, <3>2 DEF Inv, Accounts
      <4>2. reaper = "gone" => held = others
        BY <1>5, <4>1 DEF Inv, GoneStaysGone
      <4> QED BY <1>1, <2>1, <3>1, <3>2, <4>1, <4>2 DEF Accounts, CallKnows, SaleCounts
    <3>3. CASE status # "exiting"
      BY <1>1, <2>1, <3>1, <3>3 DEF Inv, Accounts, CallKnows, SaleCounts
    <3> QED BY <3>2, <3>3
  <2> QED BY <1>3, <1>4, <2>3, <2>4, <2>5 DEF Inv
<1> QED BY <1>6, <1>7 DEF ReaperStep

\* Time passes.
LEMMA TimeStep ==
  ASSUME Inv, RowAges \/ WindowEnds \/ UNCHANGED vars
  PROVE  Inv'
<1>1. /\ UNCHANGED <<hisVars, prev, rowVars, held, others, applied, at, job, reaper,
                     overlapped, unheard, misread, crashes>>
      /\ old' \in BOOLEAN /\ recent' \in BOOLEAN
  BY DEF RowAges, WindowEnds, vars, Inv, TypeOK, ledgerVars
<1>2. TypeOK'
  <2>1. /\ his' = his /\ made' = made /\ shown' = shown /\ status' = status
        /\ shares' = shares /\ orig' = orig
    BY <1>1 DEF hisVars, rowVars
  <2>2. overlapped' \in BOOLEAN /\ unheard' \in BOOLEAN /\ misread' \in BOOLEAN
    BY <1>1 DEF Inv, TypeOK
  <2>3. /\ his' \in 0..Bought /\ shown' \in 0..Bought /\ his' + shown' <= Bought
        /\ prev' \in his'..Bought /\ others' \in 0..MaxOthers /\ shares' \in 0..Copied
        /\ orig' \in 0..Copied /\ held' \in 0..(Copied + MaxOthers) /\ crashes' \in 0..MaxCrashes
    BY <1>1, <2>1 DEF Inv, TypeOK
  <2>4. /\ made' \subseteq TradeIds /\ applied' \subseteq TradeIds
        /\ status' \in {"filled", "exiting", "cashed_out"} /\ reaper' \in {"idle", "gone", "held"}
        /\ at' \in [Exits -> Steps] /\ job' \in [Exits -> Jobs]
    BY <1>1, <2>1 DEF Inv, TypeOK
  <2> QED BY <1>1, <2>2, <2>3, <2>4 DEF TypeOK
<1>3. Purposes'
  BY <1>1, PurposeKept DEF hisVars
<1>4. GoneStaysGone' /\ OneClaimant'
  BY <1>1 DEF Inv, GoneStaysGone, OneClaimant, Working, rowVars
<1>5. Accounts'
  BY <1>1, AccountsKept DEF rowVars
<1> QED BY <1>2, <1>3, <1>4, <1>5 DEF Inv

\* The worker dies: a sale that was answered and not booked goes unheard.
LEMMA CrashStep ==
  ASSUME Inv, Crash
  PROVE  Inv'
<1>1. /\ reaper' = "idle" /\ crashes < MaxCrashes /\ crashes' = crashes + 1
      /\ at' = [c \in Exits |-> IF at[c] \in {"send", "cancelled"} THEN "cancelled" ELSE "idle"]
      /\ job' = [c \in Exits |-> IF at[c] \in {"send", "cancelled"} THEN job[c] ELSE NoJob]
      /\ unheard' = (unheard \/ \E c \in Exits : at[c] = "answer" /\ job[c].got > 0)
      /\ UNCHANGED <<hisVars, prev, rowVars, old, held, others, ledgerVars, overlapped,
                     misread>>
  BY DEF Crash
<1>2. \A c \in Exits : /\ at'[c] \in {"idle", "cancelled"}
                       /\ at'[c] = "cancelled" => at[c] \in {"send", "cancelled"} /\ job'[c] = job[c]
  BY <1>1
<1>3. TypeOK'
  <2>1. /\ his' = his /\ made' = made /\ shown' = shown /\ status' = status
        /\ shares' = shares /\ orig' = orig /\ applied' = applied
    BY <1>1 DEF hisVars, rowVars, ledgerVars
  <2>2. /\ old' \in BOOLEAN /\ recent' \in BOOLEAN /\ overlapped' \in BOOLEAN
        /\ unheard' \in BOOLEAN /\ misread' \in BOOLEAN
    BY <1>1 DEF Inv, TypeOK, ledgerVars
  <2>3. /\ his' \in 0..Bought /\ shown' \in 0..Bought /\ his' + shown' <= Bought
        /\ prev' \in his'..Bought /\ others' \in 0..MaxOthers /\ shares' \in 0..Copied
        /\ orig' \in 0..Copied /\ held' \in 0..(Copied + MaxOthers) /\ crashes' \in 0..MaxCrashes
    BY <1>1, <2>1 DEF Inv, TypeOK
  <2>4. /\ made' \subseteq TradeIds /\ applied' \subseteq TradeIds
        /\ status' \in {"filled", "exiting", "cashed_out"} /\ reaper' \in {"idle", "gone", "held"}
    BY <1>1, <2>1 DEF Inv, TypeOK
  <2>5. at' \in [Exits -> Steps] /\ job' \in [Exits -> Jobs]
    <3>1. NoJob \in Jobs /\ "idle" \in Steps /\ "cancelled" \in Steps
      BY DEF NoJob, Jobs, Steps
    <3>2. job \in [Exits -> Jobs]
      BY DEF Inv, TypeOK
    <3> QED BY <1>1, <3>1, <3>2
  <2> QED BY <2>2, <2>3, <2>4, <2>5 DEF TypeOK
<1>4. Purposes'
  BY <1>1, <1>2, PurposeKept DEF hisVars
<1>5. GoneStaysGone'
  BY <1>1 DEF GoneStaysGone
<1>6. OneClaimant'
  <2>1. \A c \in Exits : Working(c)' => Working(c)
    BY <1>2 DEF Working, Owning
  <2> QED BY <1>1, <2>1, ClaimantKept DEF rowVars
<1>7. Accounts'
  <2> SUFFICES ASSUME ~overlapped, ~unheard', misread => others = 0 PROVE Accounts'
    BY <1>1 DEF Accounts
  <2>1. ~unheard /\ \A c \in Exits : at[c] = "answer" => ~(job[c].got > 0)
    BY <1>1
  <2>2. shares \in Nat /\ others \in Nat /\ held \in Nat /\ \A c \in Exits : job[c].got \in Nat
    BY DEF Inv, TypeOK, Jobs
  <2>3. status = "exiting" => shares + others = held
    <3>1. CASE \A c \in Exits : at[c] # "answer"
      BY <2>1, <3>1 DEF Inv, Accounts
    <3>2. ASSUME NEW c \in Exits, at[c] = "answer" PROVE shares + others = held
      BY <2>1, <2>2, <3>2 DEF Inv, Accounts, SaleCounts
    <3> QED BY <3>1, <3>2
  <2>4. \A c \in Exits : CallKnows(c)' /\ SaleCounts(c)'
    BY <1>1, <1>2, <2>1 DEF Inv, Accounts, CallKnows, SaleCounts, rowVars
  <2> QED BY <1>1, <2>1, <2>3, <2>4 DEF Inv, Accounts, rowVars
<1> QED BY <1>3, <1>4, <1>5, <1>6, <1>7 DEF Inv

-----------------------------------------------------------------------------
(* The theorems                                                             *)

\* What a call has read holds for as long as it keeps it: the row gets no
\* shares.
LEMMA ReadsFollow ==
  ASSUME Inv, Reads,
         UNCHANGED <<shares, orig>> \/ (orig' = Base /\ shares' \in 0..shares),
         \A c \in Exits : Read(c)' =>
             \/ Read(c) /\ job'[c] = job[c]
             \/ job'[c].had = shares /\ job'[c].base = Base /\ shares' = shares
  PROVE  Reads'
<1>1. Base = Copied /\ Copied \in Nat \ {0} /\ shares \in Nat
  BY DEF Reads, BaseIsCopied, Inv, TypeOK
<1>2. BaseIsCopied' /\ shares' \in Nat /\ shares' <= shares
  BY <1>1 DEF BaseIsCopied, Base
<1>3. ASSUME NEW c \in Exits, Read(c)' PROVE shares' <= job'[c].had /\ job'[c].base = Copied
  <2>1. CASE Read(c) /\ job'[c] = job[c]
    <3>1. shares <= job[c].had /\ job[c].base = Copied
      BY <2>1 DEF Reads
    <3>2. job[c].had \in Nat
      BY DEF Inv, TypeOK, Jobs
    <3> QED BY <1>1, <1>2, <2>1, <3>1, <3>2
  <2>2. CASE job'[c].had = shares /\ job'[c].base = Base /\ shares' = shares
    BY <1>1, <2>2
  <2> QED BY <1>3, <2>1, <2>2
<1> QED BY <1>2, <1>3 DEF Reads

\* A call that returns or goes on keeps what it read.
LEMMA MovesFollow ==
  ASSUME Inv, Reads, NEW c \in Exits, at[c] # "idle",
         \/ \E pending \in BOOLEAN : Return(c, pending)
         \/ GoOn(c, "read") \/ GoOn(c, "record")
         \/ Read(c) /\ \E step \in {"claim", "size"} : GoOn(c, step),
         UNCHANGED <<shares, orig>> \/ (orig' = Base /\ shares' \in 0..shares)
  PROVE  Reads'
<1>1. CASE \E pending \in BOOLEAN : Return(c, pending)
  <2>1. at'[c] = "idle" /\ \A d \in Exits : d # c => at'[d] = at[d] /\ job'[d] = job[d]
    BY <1>1, ReturnFacts
  <2>2. \A d \in Exits : Read(d)' => Read(d) /\ job'[d] = job[d]
    BY <2>1 DEF Read
  <2> QED BY <2>2, ReadsFollow
<1>2. ASSUME NEW step \in {"read", "record", "claim", "size"}, GoOn(c, step),
             step \in {"read", "record"} \/ Read(c)
      PROVE  Reads'
  <2>1. job' = job /\ at'[c] = step /\ \A d \in Exits : d # c => at'[d] = at[d]
    <3>1. step \in Steps
      BY DEF Steps
    <3> QED BY <1>2, <3>1, GoOnFacts
  <2>2. \A d \in Exits : Read(d)' => Read(d) /\ job'[d] = job[d]
    BY <1>2, <2>1 DEF Read
  <2> QED BY <2>2, ReadsFollow
<1> QED BY <1>1, <1>2

\* So it is under every step.
LEMMA ReadsKept ==
  ASSUME Inv, Reads, [Next]_vars
  PROVE  Reads'
<1> USE DEF Read
<1>0. at \in [Exits -> Steps] /\ job \in [Exits -> Jobs] /\ shares \in Nat
      /\ TRUE \in BOOLEAN /\ FALSE \in BOOLEAN
  BY DEF Inv, TypeOK
<1>1. ASSUME UNCHANGED <<shares, orig, at, job>> PROVE Reads'
  BY <1>1, ReadsFollow
<1>2. ASSUME NEW k \in 1..his, LeavesByMerge(k) \/ \E x \in TradeIds : LeavesByTrade(x, k)
      PROVE  Reads'
  BY <1>1, <1>2 DEF LeavesByMerge, LeavesByTrade, rowVars
<1>3. ASSUME ReaperStep \/ RowAges \/ WindowEnds \/ UNCHANGED vars PROVE Reads'
  BY <1>1, <1>3 DEF ReaperStep, ReaperReads, ReaperResolves, RowAges, WindowEnds, vars, rowVars
<1>4. ASSUME PositionLane \/ \E c \in Callers : \E x \in TradeIds : TradeLane(c, x)
      PROVE  Reads'
  <2>1. ASSUME NEW c \in Exits, NEW j, NEW step \in {"ledger", "read"},
               at' = [at EXCEPT ![c] = step], job' = [job EXCEPT ![c] = j],
               UNCHANGED <<shares, orig>>
        PROVE  Reads'
    <3>1. \A d \in Exits : Read(d)' => Read(d) /\ job'[d] = job[d]
      BY <1>0, <2>1
    <3> QED BY <2>1, <3>1, ReadsFollow
  <2>2. CASE PositionLane
    BY <2>1, <2>2 DEF PositionLane, rowVars, Exits
  <2>3. ASSUME NEW c \in Callers, NEW x \in TradeIds, TradeLane(c, x) PROVE Reads'
    BY <2>1, <2>3 DEF TradeLane, rowVars, Exits
  <2> QED BY <1>4, <2>2, <2>3
<1>5. ASSUME Crash PROVE Reads'
  <2>1. \A d \in Exits : ~Read(d)'
    BY <1>5 DEF Crash
  <2> QED BY <1>5, <2>1, ReadsFollow DEF Crash, rowVars
<1>6. ASSUME CheckRecent PROVE Reads'
  <2>1. Lane \in Exits /\ at[Lane] # "idle" /\ Read(Lane) /\ UNCHANGED <<shares, orig>>
        /\ (Return(Lane, FALSE) \/ GoOn(Lane, "claim"))
    BY <1>6 DEF CheckRecent, rowVars, Exits
  <2> QED BY <1>0, <2>1, MovesFollow
<1>7. ASSUME NEW c \in Exits, ExitStep(c) PROVE Reads'
  <2>1. CASE Refused(c)
    BY <2>1, MovesFollow DEF Refused, rowVars
  <2>2. CASE CheckLedger(c)
    <3>1. at[c] # "idle" /\ UNCHANGED <<shares, orig>> /\ (Return(c, FALSE) \/ GoOn(c, "read"))
      BY <2>2 DEF CheckLedger, rowVars
    <3> QED BY <1>0, <3>1, MovesFollow
  <2>3. CASE ReadRow(c)
    <3>1. at[c] # "idle" /\ UNCHANGED <<shares, orig>>
      BY <2>3 DEF ReadRow, rowVars
    <3>2. CASE Return(c, FALSE)
      BY <1>0, <3>1, <3>2, MovesFollow
    <3>3. CASE ~Return(c, FALSE)
      <4>1. \E step \in {"dedup", "claim"} : at' = [at EXCEPT ![c] = step]
        BY <2>3, <3>3 DEF ReadRow
      <4>2. job' = [job EXCEPT ![c] = [job[c] EXCEPT !.had = shares, !.base = Base]]
        BY <2>3, <3>3 DEF ReadRow
      <4>3. job'[c].had = shares /\ job'[c].base = Base
        <5>1. job[c] \in Jobs /\ job'[c] = [job[c] EXCEPT !.had = shares, !.base = Base]
          BY <1>0, <4>2
        <5> QED BY <5>1 DEF Jobs
      <4>4. \A d \in Exits : d # c => at'[d] = at[d] /\ job'[d] = job[d]
        BY <1>0, <4>1, <4>2
      <4> QED BY <3>1, <4>3, <4>4, ReadsFollow
    <3> QED BY <3>2, <3>3
  <2>4. CASE Claim(c) \/ ClaimUnheard(c)
    <3>1. at[c] # "idle" /\ Read(c) /\ UNCHANGED <<shares, orig>>
          /\ (Return(c, TRUE) \/ Return(c, FALSE) \/ GoOn(c, "size"))
      BY <2>4 DEF Claim, ClaimUnheard
    <3> QED BY <1>0, <3>1, MovesFollow
  <2>5. ASSUME NEW had, NEW base, NEW ours, at[c] = "size", UNCHANGED <<shares, orig>>,
               SizeOn(c, had, base, ours)
        PROVE  Reads'
    <3>1. CASE Qty(c, base, ours) = 0
      <4>1. Return(c, ours > 1) /\ (ours > 1) \in BOOLEAN
        BY <2>5, <3>1 DEF SizeOn
      <4> QED BY <2>5, <4>1, MovesFollow
    <3>2. CASE Qty(c, base, ours) # 0
      <4> DEFINE j == [job[c] EXCEPT !.had = had, !.ours = ours, !.qty = Qty(c, base, ours),
                                     !.flat = IsFull(c) /\ ours >= held]
      <4>1. at' = [at EXCEPT ![c] = "send"] /\ job' = [job EXCEPT ![c] = j]
        BY <2>5, <3>2 DEF SizeOn
      <4> HIDE DEF j
      <4>2. \A d \in Exits : Read(d)' => Read(d) /\ job'[d] = job[d]
        BY <1>0, <4>1
      <4> QED BY <2>5, <4>2, ReadsFollow
    <3> QED BY <3>1, <3>2
  <2>6. CASE Size(c)
    BY <2>5, <2>6 DEF Size
  <2>7. CASE AbortUnsent(c)
    <3>1. /\ at[c] # "idle" /\ UNCHANGED <<shares, orig>>
          /\ \E pending \in BOOLEAN : Return(c, pending)
      BY <1>0, <2>7 DEF AbortUnsent
    <3> QED BY <3>1, MovesFollow
  <2>8. CASE Unfilled(c)
    BY <1>0, <2>8, MovesFollow DEF Unfilled
  <2>9. CASE Record(c)
    BY <1>0, <2>9, MovesFollow DEF Record, rowVars
  <2>10. CASE Cancelled(c)
    <3>1. UNCHANGED <<shares, orig>> /\ at[c] # "idle"
      BY <2>10 DEF Cancelled, rowVars
    <3>2. CASE at[c] = "send"
      <4>1. at' = [at EXCEPT ![c] = "cancelled"] /\ job' = job
        BY <2>10, <3>2 DEF Cancelled
      <4>2. \A d \in Exits : Read(d)' => Read(d) /\ job'[d] = job[d]
        BY <1>0, <4>1
      <4> QED BY <3>1, <4>2, ReadsFollow
    <3>3. CASE at[c] # "send"
      <4>1. Return(c, FALSE) \/ Return(c, job[c].got > 0)
        BY <2>10, <3>3 DEF Cancelled
      <4>2. (job[c].got > 0) \in BOOLEAN
        OBVIOUS
      <4> QED BY <1>0, <3>1, <4>1, <4>2, MovesFollow
    <3> QED BY <3>2, <3>3
  <2>11. CASE Book(c)
    <3>1. Booked(c) \in Nat
      <4>1. job[c].got \in Nat /\ job[c].ours \in Nat
        BY DEF Inv, TypeOK, Jobs
      <4> QED BY <4>1 DEF Booked, Smaller
    <3>2. Less(shares, Booked(c)) \in 0..shares
      BY <1>0, <3>1 DEF Less
    <3>3. UNCHANGED <<shares, orig>> \/ (orig' = Base /\ shares' \in 0..shares)
      BY <2>11, <3>2 DEF Book
    <3>4. at[c] # "idle" /\ (Return(c, TRUE) \/ GoOn(c, "record"))
      BY <2>11 DEF Book
    <3> QED BY <1>0, <3>3, <3>4, MovesFollow
  <2>12. ASSUME NEW f \in 0..held, VenueSells(c, f) \/ ThreadEnds(c, f) PROVE Reads'
    <3>1. /\ UNCHANGED <<shares, orig>>
          /\ \E step \in {"answer", "idle"} : at' = [at EXCEPT ![c] = step]
          /\ \A d \in Exits : d # c => job'[d] = job[d]
      BY <1>0, <2>12 DEF VenueSells, ThreadEnds, rowVars
    <3>2. \A d \in Exits : Read(d)' => Read(d) /\ job'[d] = job[d]
      BY <1>0, <3>1
    <3> QED BY <3>1, <3>2, ReadsFollow
  <2> QED BY <1>7, <2>1, <2>2, <2>3, <2>4, <2>6, <2>7, <2>8, <2>9, <2>10, <2>11, <2>12
          DEF ExitStep
<1> QED BY <1>2, <1>3, <1>4, <1>5, <1>6, <1>7 DEF Next

\* Every step keeps the invariant.
LEMMA NextInv == Inv /\ Reads /\ [Next]_vars => Inv' /\ Reads'
<1> SUFFICES ASSUME Inv, Reads, [Next]_vars PROVE Inv'
  BY ReadsKept
<1>1. ASSUME NEW k \in 1..his, LeavesByMerge(k) \/ \E x \in TradeIds : LeavesByTrade(x, k)
      PROVE  Inv'
  BY <1>1, WhaleStep
<1>2. ASSUME PositionLane \/ \E c \in Callers : \E x \in TradeIds : TradeLane(c, x)
      PROVE  Inv'
  BY <1>2, LaneStep
<1>3. ASSUME CheckRecent PROVE Inv'
  BY <1>3, CheckStep DEF Exits
<1>4. ASSUME NEW c \in Exits, ExitStep(c) PROVE Inv'
  <2>1. CASE Refused(c) \/ CheckLedger(c) \/ ReadRow(c) \/ Record(c)
    BY <2>1, CheckStep, ReadStep
  <2>2. CASE Claim(c) \/ ClaimUnheard(c)
    BY <2>2, ClaimStep
  <2>3. CASE Size(c) \/ AbortUnsent(c)
    BY <2>3, SizeStep
  <2>4. CASE Unfilled(c)
    BY <2>4, UnfilledStep
  <2>5. CASE Cancelled(c)
    BY <2>5, CancelStep
  <2>6. CASE Book(c)
    BY <2>6, BookStep
  <2>7. CASE \E f \in 0..held : VenueSells(c, f) \/ ThreadEnds(c, f)
    BY <2>7, SaleStep, ThreadStep
  <2> QED BY <1>4, <2>1, <2>2, <2>3, <2>4, <2>5, <2>6, <2>7 DEF ExitStep
<1>5. ASSUME ReaperStep PROVE Inv'
  BY <1>5, ReapStep
<1>6. ASSUME RowAges \/ WindowEnds \/ UNCHANGED vars PROVE Inv'
  BY <1>6, TimeStep
<1>7. ASSUME Crash PROVE Inv'
  BY <1>7, CrashStep
<1> QED BY <1>1, <1>2, <1>3, <1>4, <1>5, <1>6, <1>7 DEF Next

\* The invariant holds of every state a behaviour reaches.
THEOREM Invariance == Spec => [](Inv /\ Reads)
<1>1. Init => Inv /\ Reads
  BY InitInv, InitReads
<1>2. (Inv /\ Reads) /\ [Next]_vars => (Inv /\ Reads)'
  BY NextInv
<1> QED BY <1>1, <1>2, PTL DEF Spec

\* Every variable of the exit machinery keeps its type, and the snapshot of
\* the position lane never falls below what he holds.
THEOREM TypeCorrect == Spec => []TypeOK
<1>1. Inv /\ Reads => TypeOK
  BY DEF Inv
<1> QED BY <1>1, Invariance, PTL

\* The claim of mirror_exit gives the row to one call at a time.
THEOREM OneCallAtWork == Spec => []OneClaimant
<1>1. Inv /\ Reads => OneClaimant
  BY DEF Inv
<1> QED BY <1>1, Invariance, PTL

\* The booking of mirror_exit, the claim that keeps every other call away and
\* the reaper's two answers keep the row at what the venue holds for it; a sale
\* sized on a row that had changed since does so too, on a market of ours alone.
THEOREM LedgerIsTrue == Spec => []LedgerAgreesWithVenue
<1>1. Inv /\ Reads => LedgerAgreesWithVenue
  BY DEF Inv, Accounts, LedgerAgreesWithVenue
<1> QED BY <1>1, Invariance, PTL

-----------------------------------------------------------------------------
(* Sales that leave our fraction                                            *)

\* Products of sizes are sizes and grow with them.
LEMMA Products ==
  ASSUME NEW k \in Nat, NEW m \in Nat, NEW n \in Nat
  PROVE  /\ k * m \in Nat /\ k * n \in Nat /\ k * (m + n) = k * m + k * n
         /\ m <= n => k * m <= k * n
<1>1. \A a, b \in Nat : a * b \in Nat
  BY SMT
<1>2. k * m \in Nat /\ k * n \in Nat /\ k * (m + n) = k * m + k * n
  BY <1>1, SMT
<1>3. ASSUME m <= n PROVE k * m <= k * n
  <2>1. PICK d \in Nat : n = m + d
    <3>1. n - m \in Nat /\ n = m + (n - m)
      BY <1>3
    <3> QED BY <3>1
  <2>2. k * n = k * m + k * d /\ k * d \in Nat /\ k * m \in Nat
    BY <1>1, <2>1, SMT
  <2> QED BY <2>2
<1> QED BY <1>2, <1>3

\* A fraction of part of what he bought, at which he is out, is one of all he
\* bought if he holds no more than its numerator.
LEMMA FullIsOut ==
  ASSUME NEW b \in Nat, NEW t \in 0..100, NEW d \in 0..b, NEW n \in Nat, NEW h \in 0..n,
         100 * (d - n) >= t * d
  PROVE  100 * (b - h) >= t * b
<1> DEFINE y == b - d
<1>1. y \in Nat /\ b = d + y
  OBVIOUS
<1> HIDE DEF y
<1>2. t * b = t * d + t * y /\ t * d \in Nat
  BY <1>1, Products
<1>3. t * y <= 100 * y
  <2>1. y * t <= y * 100
    BY <1>1, Products
  <2> QED BY <1>1, <2>1
<1> QED BY <1>1, <1>2, <1>3

\* The division that rounds a sale.
LEMMA Quotient ==
  ASSUME NEW a \in Nat, NEW m \in Nat \ {0}
  PROVE  a \div m \in Nat /\ m * (a \div m) <= a
  BY SMT

\* A sale of q of o shares sized to n of every d of his leaves us with that
\* fraction of the c we bought, half a share up; and so with the fraction h of
\* the b he bought, if he holds no more than n.
LEMMA RoundedSale ==
  ASSUME NEW b \in Nat, NEW c \in Nat, NEW d \in 1..b, NEW n \in Nat, NEW h \in 0..n,
         NEW o \in Nat, NEW q \in Nat \ {0},
         q = Smaller(o, Less(2 * o * d + d, 2 * c * n) \div (2 * d))
  PROVE  q <= o /\ 2 * b * (o - q) + b >= 2 * c * h
<1> DEFINE a == 2 * o * d + d
           e == 2 * c * n
           s == Less(a, e) \div (2 * d)
<1>1. d \in Nat /\ 2 * d \in Nat \ {0} /\ d <= b
  OBVIOUS
<1>2. (2 * o) * d \in Nat /\ (2 * c) * n \in Nat /\ 2 * o \in Nat /\ 2 * c \in Nat
  <2>1. 2 * o \in Nat /\ 2 * c \in Nat
    OBVIOUS
  <2> QED BY <1>1, <2>1, Products
<1>3. a \in Nat /\ e \in Nat
  BY <1>1, <1>2
<1> HIDE DEF a, e
<1>4. Less(a, e) \in Nat /\ (a >= e => Less(a, e) = a - e) /\ (~(a >= e) => Less(a, e) = 0)
  BY <1>3 DEF Less
<1>5. s \in Nat /\ (2 * d) * s <= Less(a, e)
  BY <1>1, <1>4, Quotient
<1>6. q = Smaller(o, s)
  BY DEF a, e
<1> HIDE DEF s
<1>7. q <= o /\ q <= s
  BY <1>5, <1>6, SmallerFacts
<1>8. (2 * d) * q <= Less(a, e) /\ (2 * d) * q \in Nat
  <2>1. 2 * d \in Nat /\ q \in Nat
    BY <1>1
  <2>2. (2 * d) * q <= (2 * d) * s /\ (2 * d) * q \in Nat /\ (2 * d) * s \in Nat
    BY <1>5, <1>7, <2>1, Products
  <2> QED BY <1>4, <1>5, <2>2
<1>9. (2 * d) * q > 0
  <2>1. (2 * d) * 1 <= (2 * d) * q
    BY <1>1, Products
  <2> QED BY <1>1, <1>8, <2>1
<1>10. (2 * d) * q + e <= a
  BY <1>3, <1>4, <1>8, <1>9
<1> DEFINE r == o - q
<1>11. r \in Nat /\ o = q + r
  BY <1>7
<1> HIDE DEF r
<1>12. a = (2 * d) * q + (2 * d) * r + d
  <2>1. (2 * o) * d = (2 * d) * o
    OBVIOUS
  <2>2. (2 * d) * o = (2 * d) * q + (2 * d) * r
    BY <1>1, <1>11, Products
  <2> QED BY <2>1, <2>2 DEF a
<1>13. (2 * d) * r + d >= e
  <2>1. (2 * d) * r \in Nat
    BY <1>1, <1>11, Products
  <2> QED BY <1>1, <1>3, <1>8, <1>10, <1>12, <2>1
<1>14. (2 * b) * r >= (2 * d) * r
  <2>1. (2 * r) * d <= (2 * r) * b
    BY <1>1, <1>11, Products
  <2> QED BY <1>1, <1>11, <2>1
<1>15. e >= (2 * c) * h /\ (2 * c) * h \in Nat
  BY <1>2, Products DEF e
<1>16. (2 * b) * r + b >= (2 * c) * h
  <2>1. (2 * d) * r \in Nat /\ (2 * b) * r \in Nat
    <3>1. 2 * b \in Nat /\ 2 * d \in Nat
      BY <1>1
    <3> QED BY <1>11, <3>1, Products
  <2> QED BY <1>1, <1>3, <1>13, <1>14, <1>15, <2>1
<1> QED BY <1>7, <1>16 DEF r

\* He holds so much less than he bought that a full exit follows him.
HeIsOut == 100 * (Bought - his) >= FullExit * Bought

\* With q shares fewer we still hold our fraction.
KeepsWithout(q) ==
    2 * Bought * held + Bought >= 2 * Copied * his + 2 * Bought * (others + q)

\* The sales that NotSoldPastTheWhale answers for.
Counted == ~overlapped /\ (unheard \/ misread => others = 0)

\* What a call read of him was no less than he holds; and a sale that is under
\* way leaves our fraction.
Cumulative == \A c \in Exits : at[c] # "idle" => his <= job[c].num
SaleFits(c) ==
    at[c] \in {"send", "cancelled"} => HeIsOut \/ (~job[c].flat /\ KeepsWithout(job[c].qty))
SalesFit == Counted => ProportionKept /\ \A c \in Exits : SaleFits(c)

FollowInv == Inv /\ Reads /\ Cumulative /\ SalesFit

\* The sizes are numbers.
LEMMA SizesTyped ==
  ASSUME Inv
  PROVE  /\ his \in Nat /\ held \in Nat /\ others \in Nat /\ shares \in Nat /\ Bought \in Nat
         /\ Copied \in Nat /\ Bought > 0 /\ Copied > 0 /\ his <= Bought /\ FullExit \in 0..100
         /\ \A c \in Exits : /\ job[c].num \in Nat /\ job[c].den \in 1..Bought
                             /\ job[c].qty \in Nat
<1>1. /\ his \in Nat /\ held \in Nat /\ others \in Nat /\ shares \in Nat /\ his <= Bought
  BY DEF Inv, TypeOK
<1>2. /\ Bought \in Nat /\ Copied \in Nat /\ Bought > 0 /\ Copied > 0 /\ FullExit \in 0..100
  OBVIOUS
<1>3. ASSUME NEW c \in Exits
      PROVE  job[c].num \in Nat /\ job[c].den \in 1..Bought /\ job[c].qty \in Nat
  <2>1. job[c] \in Jobs
    BY DEF Inv, TypeOK
  <2> QED BY <2>1 DEF Jobs
<1> QED BY <1>1, <1>2, <1>3

\* A step that sells nothing leaves us ahead of him, however much he sells.
LEMMA SalesKept ==
  ASSUME Inv, SalesFit, his' \in Nat, his' <= his, held' = held, others' = others,
         overlapped => overlapped', unheard => unheard', misread => misread',
         \A c \in Exits : at'[c] \in {"send", "cancelled"} =>
                              at[c] \in {"send", "cancelled"} /\ job'[c] = job[c]
  PROVE  SalesFit'
<1> SUFFICES ASSUME Counted' PROVE (ProportionKept /\ \A c \in Exits : SaleFits(c))'
  BY DEF SalesFit
<1>1. ProportionKept /\ \A c \in Exits : SaleFits(c)
  BY DEF Counted, SalesFit
<1>2. /\ his \in Nat /\ Bought \in Nat /\ 2 * Copied \in Nat /\ held \in Nat /\ others \in Nat
      /\ FullExit \in Nat /\ his <= Bought
  <2>1. his \in Nat /\ held \in Nat /\ others \in Nat /\ his <= Bought
    BY SizesTyped
  <2> QED BY <2>1
<1>3. ASSUME NEW q \in Nat
      PROVE  /\ HeIsOut => HeIsOut'
             /\ KeepsWithout(q) =>
                   2 * Bought * held + Bought >= 2 * Copied * his' + 2 * Bought * (others + q)
  <2>1. PICK g \in Nat : g = his' /\ g <= his
    OBVIOUS
  <2>6. g <= his
    BY <2>1
  <2> DEFINE r == 2 * Bought * (others + q)
             l == 2 * Bought * held
             t == FullExit * Bought
  <2>2. (2 * Copied) * g <= (2 * Copied) * his
    BY <1>2, <2>1, Products
  <2>3. /\ (2 * Copied) * g \in Nat /\ (2 * Copied) * his \in Nat /\ r \in Nat /\ l \in Nat /\ t \in Nat
    <3>1. 2 * Bought \in Nat /\ others + q \in Nat
      BY <1>2
    <3> QED BY <1>2, <2>1, <3>1, Products
  <2> HIDE DEF r, l, t
  <2>4. 100 * (Bought - his) >= t => 100 * (Bought - g) >= t
    BY ONLY <1>2, <2>6, <2>3
  <2>5. l + Bought >= 2 * Copied * his + r => l + Bought >= 2 * Copied * g + r
    BY ONLY <1>2, <2>2, <2>3
  <2> QED BY <2>1, <2>4, <2>5 DEF HeIsOut, KeepsWithout, r, l, t
<1>4. HeIsOut => HeIsOut'
  BY <1>3
<1>7. ProportionKept'
  <2>1. ProportionKept <=> HeIsOut \/ KeepsWithout(0)
    BY <1>2 DEF ProportionKept, HeIsOut, KeepsWithout
  <2>2. HeIsOut' \/ 2 * Bought * held + Bought >= 2 * Copied * his' + 2 * Bought * (others + 0)
    BY <1>1, <1>3, <1>4, <2>1
  <2>3. others + 0 = others
    BY <1>2
  <2> QED BY <2>2, <2>3 DEF ProportionKept, HeIsOut
<1>8. ASSUME NEW c \in Exits PROVE SaleFits(c)'
  <2>1. SUFFICES ASSUME at'[c] \in {"send", "cancelled"}
                 PROVE  (HeIsOut \/ (~job[c].flat /\ KeepsWithout(job[c].qty)))'
    BY DEF SaleFits
  <2>2. SaleFits(c) /\ at[c] \in {"send", "cancelled"} /\ job'[c] = job[c]
    BY <1>1, <2>1
  <2>3. HeIsOut' \/ (~job'[c].flat /\ KeepsWithout(job'[c].qty))
    BY <1>4, <2>2 DEF SaleFits
  <2>4. KeepsWithout(job'[c].qty) =>
            2 * Bought * held + Bought >= 2 * Copied * his' + 2 * Bought * (others + job'[c].qty)
    BY <1>3, <2>2, SizesTyped
  <2> QED BY <2>3, <2>4 DEF KeepsWithout
<1> QED BY <1>7, <1>8

\* What a call read of him stays true of him when he sells.
LEMMA CumulativeKept ==
  ASSUME Inv, Cumulative, his' \in Nat, his' <= his,
         \A c \in Exits : at'[c] # "idle" => at[c] # "idle" /\ job'[c].num = job[c].num
  PROVE  Cumulative'
  BY SizesTyped DEF Cumulative

\* A call that returns, or goes on without an order, has none under way.
LEMMA CallMoves ==
  ASSUME Inv, NEW c \in Exits, at[c] # "idle",
         \/ \E pending \in BOOLEAN : Return(c, pending)
         \/ \E step \in Steps \ {"idle", "send", "cancelled"} : GoOn(c, step)
  PROVE  \A d \in Exits :
           /\ at'[d] # "idle" => at[d] # "idle" /\ job'[d] = job[d]
           /\ at'[d] \in {"send", "cancelled"} => at[d] \in {"send", "cancelled"}
<1>1. CASE \E pending \in BOOLEAN : Return(c, pending)
  BY <1>1, ReturnFacts
<1>2. CASE \E step \in Steps \ {"idle", "send", "cancelled"} : GoOn(c, step)
  BY <1>2, GoOnFacts
<1> QED BY <1>1, <1>2

\* A step that sells nothing and books nothing, in which no call sends.
LEMMA RestStep ==
  ASSUME FollowInv, UNCHANGED <<his, shares, orig, held, others>>,
         overlapped => overlapped', unheard => unheard', misread => misread',
         \A c \in Exits :
           /\ at'[c] # "idle" => at[c] # "idle" /\ job'[c] = job[c]
           /\ at'[c] \in {"send", "cancelled"} => at[c] \in {"send", "cancelled"}
  PROVE  (Cumulative /\ SalesFit)'
<1>1. Inv /\ Cumulative /\ SalesFit
  BY DEF FollowInv
<1>2. his' \in Nat /\ his' <= his
  BY <1>1, SizesTyped
<1>3. Cumulative'
  BY <1>1, <1>2, CumulativeKept
<1>4. SalesFit'
  BY <1>1, <1>2, SalesKept
<1> QED BY <1>3, <1>4

\* What is left after a sale, all of it or a part; and what is kept out of a
\* position by a sale sized within it.
LEMMA SoldLess ==
  ASSUME NEW b \in Nat, NEW k \in Nat, NEW v \in Nat, NEW o \in Nat, NEW q \in Nat,
         NEW f \in 0..v, f <= q, 2 * b * v + b >= k + 2 * b * (o + q)
  PROVE  2 * b * (v - f) + b >= k + 2 * b * o
<1> DEFINE m == 2 * b
           w == v - f
<1>1. m \in Nat /\ w \in Nat /\ f \in Nat /\ v = w + f
  OBVIOUS
<1> HIDE DEF w
<1>2. m * v = m * w + m * f /\ m * w \in Nat /\ m * f \in Nat
  BY <1>1, Products
<1>3. m * (o + q) = m * o + m * q /\ m * o \in Nat /\ m * q \in Nat /\ m * f <= m * q
  BY <1>1, Products
<1>4. m * v + b >= k + m * (o + q)
  OBVIOUS
<1> HIDE DEF m
<1>5. m * w + b >= k + m * o
  BY ONLY <1>2, <1>3, <1>4, b \in Nat, k \in Nat
<1> QED BY <1>5 DEF m, w

LEMMA KeptOut ==
  ASSUME NEW b \in Nat, NEW k \in Nat, NEW v \in Nat, NEW o \in Nat, NEW s \in Nat,
         NEW q \in 0..s, s + o <= v, 2 * b * (s - q) + b >= k
  PROVE  2 * b * v + b >= k + 2 * b * (o + q)
<1> DEFINE m == 2 * b
           w == s - q
<1>1. m \in Nat /\ w \in Nat /\ q \in Nat /\ w + (o + q) \in Nat /\ w + (o + q) <= v
  OBVIOUS
<1>2. m * w + b >= k
  OBVIOUS
<1> HIDE DEF m, w
<1>3. m * (w + (o + q)) <= m * v /\ m * v \in Nat
  BY <1>1, Products
<1>4. m * (w + (o + q)) = m * w + m * (o + q) /\ m * w \in Nat /\ m * (o + q) \in Nat
  BY <1>1, Products
<1>5. m * v + b >= k + m * (o + q)
  BY ONLY <1>2, <1>3, <1>4, b \in Nat, k \in Nat
<1> QED BY <1>5 DEF m

\* A call that sends: what it sells was sized to leave our fraction, on the row
\* or, where the market is ours, on what it read of it.
LEMMA SaleIsSized ==
  ASSUME FollowInv, NEW c \in Exits, at[c] = "size", Counted,
         NEW had \in 0..Copied, had = shares \/ others = 0,
         Qty(c, Copied, Ours(had)) # 0
  PROVE  HeIsOut \/ (~IsFull(c) /\ KeepsWithout(Qty(c, Copied, Ours(had))))
<1>1. Inv /\ his <= job[c].num /\ TypeOK
  BY DEF FollowInv, Cumulative, Inv
<1>2. /\ his \in Nat /\ held \in Nat /\ others \in Nat /\ shares \in Nat /\ Bought \in Nat
      /\ Copied \in Nat /\ FullExit \in 0..100 /\ job[c].num \in Nat /\ job[c].den \in 1..Bought
  BY <1>1, SizesTyped
<1> DEFINE n == job[c].num
           d == job[c].den
           o == Ours(had)
           q == Qty(c, Copied, o)
<1>3. o \in Nat /\ o <= had /\ o <= held /\ q \in Nat /\ q <= o
  <2>1. o \in 0..Copied /\ o <= had /\ o <= held
    BY <1>1, OursFacts
  <2>2. Copied \in 0..Copied
    BY <1>2
  <2> HIDE DEF o
  <2>3. q \in 0..Copied /\ q <= o
    BY <1>1, <2>1, <2>2, QtyFacts
  <2> QED BY <2>1, <2>3
<1>4. CASE IsFull(c)
  <2>1. 100 * (d - n) >= FullExit * d
    BY <1>4 DEF IsFull
  <2>2. n \in Nat /\ d \in 0..Bought /\ his \in 0..n
    BY <1>1, <1>2
  <2> HIDE DEF n, d
  <2>3. 100 * (Bought - his) >= FullExit * Bought
    BY <1>2, <2>1, <2>2, FullIsOut
  <2> QED BY <2>3 DEF HeIsOut
<1>5. CASE ~IsFull(c)
  <2>1. q = Smaller(o, Less(2 * o * d + d, 2 * Copied * n) \div (2 * d))
    BY <1>5 DEF Qty
  <2>2. o + others <= held
    <3>1. CASE others = 0
      BY <1>2, <1>3, <3>1
    <3>2. CASE others # 0
      <4>1. ~overlapped /\ ~unheard /\ ~misread /\ Working(c) /\ had = shares
        BY <3>2 DEF Counted, Working, Owning
      <4>2. status = "exiting" /\ \A e \in Exits : at[e] # "answer"
        BY <1>1, <4>1, Alone DEF Working, Owning
      <4>3. shares + others = held
        BY <1>1, <4>1, <4>2 DEF Inv, Accounts
      <4> QED BY <1>2, <1>3, <4>1, <4>3
    <3> QED BY <3>1, <3>2
  <2>3. o \in Nat /\ q \in Nat \ {0} /\ d \in 1..Bought /\ n \in Nat /\ his \in 0..n
    BY <1>1, <1>2, <1>3
  <2> HIDE DEF n, d, q, o
  <2>4. q <= o /\ 2 * Bought * (o - q) + Bought >= 2 * Copied * his
    BY <1>2, <2>1, <2>3, RoundedSale
  <2>5. q \in 0..o /\ 2 * Copied * his \in Nat
    <3>1. 2 * Copied \in Nat
      BY <1>2
    <3> QED BY <1>2, <2>3, <2>4, <3>1, Products
  <2>6. 2 * Bought * held + Bought >= 2 * Copied * his + 2 * Bought * (others + q)
    BY <1>2, <2>2, <2>3, <2>4, <2>5, KeptOut
  <2> QED BY <1>5, <2>6 DEF KeepsWithout, q, o
<1> QED BY <1>4, <1>5

\* The venue sells for a call, heard or not: it was the only one that could.
LEMMA SoldStep ==
  ASSUME FollowInv, NEW c \in Exits, at[c] \in {"send", "cancelled"},
         NEW f \in 0..held, f <= Sellable(c), held' = held - f,
         unheard => unheard', UNCHANGED <<his, shares, orig, others, overlapped, misread>>,
         at'[c] \notin {"send", "cancelled"}, at'[c] # "idle" => job'[c].num = job[c].num,
         \A d \in Exits : d # c => at'[d] = at[d] /\ job'[d] = job[d]
  PROVE  (Cumulative /\ SalesFit)'
<1>1. Inv /\ Cumulative /\ SalesFit
  BY DEF FollowInv
<1>2. /\ his \in Nat /\ held \in Nat /\ others \in Nat /\ Bought \in Nat /\ Copied \in Nat
      /\ job[c].qty \in Nat
  BY <1>1, SizesTyped
<1>3. Cumulative'
  BY <1>1 DEF Cumulative
<1>4. ASSUME Counted' PROVE (ProportionKept /\ \A d \in Exits : SaleFits(d))'
  <2>1. Counted /\ ~overlapped /\ Working(c)
    BY <1>4 DEF Counted, Working, Owning
  <2>2. \A d \in Exits : at'[d] \notin {"send", "cancelled"}
    BY <1>1, <2>1, Alone DEF Working, Owning
  <2>3. HeIsOut \/ (~job[c].flat /\ KeepsWithout(job[c].qty))
    BY <1>1, <2>1 DEF SalesFit, SaleFits
  <2>4. ASSUME ~job[c].flat, KeepsWithout(job[c].qty)
        PROVE  2 * Bought * (held - f) + Bought >= 2 * Copied * his + 2 * Bought * others
    <3> DEFINE q == job[c].qty
               k == 2 * Copied * his
    <3>1. f <= q
      <4>1. f <= Smaller(q, held) /\ q \in Nat /\ held \in Nat /\ f \in Nat
        BY <1>2, <2>4 DEF Sellable
      <4>2. Smaller(q, held) \in Nat /\ Smaller(q, held) <= q
        BY <4>1, SmallerFacts
      <4> HIDE DEF q
      <4> QED BY ONLY <4>1, <4>2
    <3>2. k \in Nat
      <4>1. 2 * Copied \in Nat
        BY <1>2
      <4> QED BY <1>2, <4>1, Products
    <3>3. 2 * Bought * held + Bought >= k + 2 * Bought * (others + q)
      BY <2>4 DEF KeepsWithout
    <3>4. q \in Nat
      BY <1>2
    <3> HIDE DEF q, k
    <3>5. 2 * Bought * (held - f) + Bought >= k + 2 * Bought * others
      BY <1>2, <3>1, <3>2, <3>3, <3>4, SoldLess
    <3> QED BY <3>5 DEF k
  <2>5. ProportionKept'
    BY <2>3, <2>4 DEF ProportionKept, HeIsOut
  <2>6. \A d \in Exits : SaleFits(d)'
    BY <2>2 DEF SaleFits
  <2> QED BY <2>5, <2>6
<1>5. SalesFit'
  BY <1>4 DEF SalesFit
<1> QED BY <1>3, <1>5

\* He leaves.
LEMMA WhaleFollowed ==
  ASSUME FollowInv, NEW k \in 1..his,
         LeavesByMerge(k) \/ \E x \in TradeIds : LeavesByTrade(x, k)
  PROVE  (Cumulative /\ SalesFit)'
<1>1. Inv /\ Cumulative /\ SalesFit
  BY DEF FollowInv
<1>2. /\ his' \in Nat /\ his' <= his
      /\ UNCHANGED <<shares, orig, held, others, at, job, overlapped, unheard, misread>>
  BY <1>1 DEF LeavesByMerge, LeavesByTrade, Inv, TypeOK, rowVars
<1>3. Cumulative'
  BY <1>1, <1>2, CumulativeKept
<1>4. SalesFit'
  BY <1>1, <1>2, SalesKept
<1> QED BY <1>3, <1>4

\* A lane starts a call: what it has of him is no less than he holds, since
\* the trades it counts show no more than he sold.
LEMMA LaneFollowed ==
  ASSUME FollowInv,
         PositionLane \/ \E c \in Callers, x \in TradeIds : TradeLane(c, x)
  PROVE  (Cumulative /\ SalesFit)'
<1>1. Inv /\ Cumulative /\ SalesFit
  BY DEF FollowInv
<1>2. his \in Nat /\ shown \in Nat /\ Bought \in Nat /\ his + shown <= Bought
  BY <1>1 DEF Inv, TypeOK
<1>3. ASSUME NEW c \in Exits, NEW j, his <= j.num, NEW step \in {"ledger", "read"},
             at' = [at EXCEPT ![c] = step], job' = [job EXCEPT ![c] = j],
             UNCHANGED <<his, shares, orig, held, others, overlapped, unheard, misread>>
      PROVE  (Cumulative /\ SalesFit)'
  <2>1. /\ at'[c] = step /\ job'[c] = j
        /\ \A d \in Exits : d # c => at'[d] = at[d] /\ job'[d] = job[d]
    BY <1>1, <1>3 DEF Inv, TypeOK
  <2>2. Cumulative'
    BY <1>1, <1>3, <2>1 DEF Cumulative
  <2>3. \A d \in Exits : at'[d] \in {"send", "cancelled"} =>
                             at[d] \in {"send", "cancelled"} /\ job'[d] = job[d]
    BY <2>1
  <2>4. his' \in Nat /\ his' <= his
    BY <1>2, <1>3
  <2>5. SalesFit'
    BY <1>1, <1>3, <2>3, <2>4, SalesKept
  <2> QED BY <2>2, <2>5
<1>4. ASSUME NEW c \in Callers, NEW x \in TradeIds, TradeLane(c, x)
      PROVE  (Cumulative /\ SalesFit)'
  <2> DEFINE j == [NoJob EXCEPT !.trade = x, !.num = Bought - shown, !.den = Bought]
  <2>1. c \in Exits /\ his <= j.num
    BY <1>2 DEF Exits, NoJob
  <2>2. /\ at' = [at EXCEPT ![c] = "ledger"] /\ job' = [job EXCEPT ![c] = j]
        /\ UNCHANGED <<his, shares, orig, held, others, overlapped, unheard, misread>>
    BY <1>4 DEF TradeLane, hisVars, rowVars
  <2> HIDE DEF j
  <2> QED BY <1>3, <2>1, <2>2
<1>5. ASSUME PositionLane PROVE (Cumulative /\ SalesFit)'
  <2> DEFINE j == [NoJob EXCEPT !.num = his, !.den = prev]
  <2>1. Lane \in Exits /\ his <= j.num
    BY <1>2 DEF Exits, NoJob
  <2>2. /\ at' = [at EXCEPT ![Lane] = "read"] /\ job' = [job EXCEPT ![Lane] = j]
        /\ UNCHANGED <<his, shares, orig, held, others, overlapped, unheard, misread>>
    BY <1>5 DEF PositionLane, hisVars, rowVars
  <2> HIDE DEF j
  <2> QED BY <1>3, <2>1, <2>2
<1> QED BY <1>4, <1>5

\* A call returns or goes on: nothing is sent, sold or booked.
Quietly(c) ==
    /\ at[c] # "idle"
    /\ \/ \E pending \in BOOLEAN : Return(c, pending)
       \/ \E step \in Steps \ {"idle", "send", "cancelled"} : GoOn(c, step)
    /\ UNCHANGED <<his, shares, orig, held, others, overlapped, misread>>
    /\ unheard => unheard'

LEMMA QuietFollowed ==
  ASSUME FollowInv, NEW c \in Exits, Quietly(c)
  PROVE  (Cumulative /\ SalesFit)'
<1>1. \A d \in Exits :
        /\ at'[d] # "idle" => at[d] # "idle" /\ job'[d] = job[d]
        /\ at'[d] \in {"send", "cancelled"} => at[d] \in {"send", "cancelled"}
  BY CallMoves DEF FollowInv, Quietly
<1> QED BY <1>1, RestStep DEF Quietly

LEMMA CallsFollow ==
  ASSUME FollowInv, NEW c \in Exits,
         \/ Refused(c) \/ CheckLedger(c) \/ (c = Lane /\ CheckRecent) \/ Record(c)
         \/ Claim(c) \/ ClaimUnheard(c) \/ AbortUnsent(c) \/ Unfilled(c)
  PROVE  (Cumulative /\ SalesFit)'
<1>1. {"read", "dedup", "claim", "size"} \subseteq Steps \ {"idle", "send", "cancelled"}
  BY DEF Steps
<1>2. TRUE \in BOOLEAN /\ FALSE \in BOOLEAN
  OBVIOUS
<1>3. CASE Refused(c) \/ Record(c) \/ AbortUnsent(c)
  <2>1. CASE Refused(c)
    BY <2>1, QuietFollowed DEF Refused, Quietly, hisVars, rowVars
  <2>2. CASE Record(c)
    BY <1>2, <2>2, QuietFollowed DEF Record, Quietly, hisVars, rowVars
  <2>3. CASE AbortUnsent(c)
    BY <2>3, QuietFollowed DEF AbortUnsent, Quietly, hisVars
  <2> QED BY <1>3, <2>1, <2>2, <2>3
<1>4. CASE CheckLedger(c) \/ (c = Lane /\ CheckRecent)
  <2>1. CASE CheckLedger(c)
    BY <1>1, <1>2, <2>1, QuietFollowed DEF CheckLedger, Quietly, hisVars, rowVars
  <2>2. CASE c = Lane /\ CheckRecent
    BY <1>1, <1>2, <2>2, QuietFollowed DEF CheckRecent, Quietly, hisVars, rowVars
  <2> QED BY <1>4, <2>1, <2>2
<1>5. CASE Claim(c) \/ ClaimUnheard(c)
  <2>1. CASE Claim(c)
    BY <1>1, <1>2, <2>1, QuietFollowed DEF Claim, Quietly, hisVars
  <2>2. CASE ClaimUnheard(c)
    BY <1>2, <2>2, QuietFollowed DEF ClaimUnheard, Quietly, hisVars
  <2> QED BY <1>5, <2>1, <2>2
<1>6. CASE Unfilled(c)
  BY <1>2, <1>6, QuietFollowed DEF Unfilled, Quietly, hisVars
<1> QED BY <1>3, <1>4, <1>5, <1>6

\* A call reads the row: nothing it knows of him changes.
LEMMA ReadFollowed ==
  ASSUME FollowInv, NEW c \in Exits, ReadRow(c)
  PROVE  (Cumulative /\ SalesFit)'
<1>1. Inv /\ Cumulative /\ SalesFit /\ at \in [Exits -> Steps] /\ job \in [Exits -> Jobs]
  BY DEF FollowInv, Inv, TypeOK
<1>2. at[c] = "read" /\ UNCHANGED <<his, shares, orig, held, others, overlapped, unheard, misread>>
  BY DEF ReadRow, hisVars, rowVars
<1>3. CASE Return(c, FALSE)
  <2>1. Quietly(c)
    BY <1>2, <1>3 DEF Quietly
  <2> QED BY <2>1, QuietFollowed
<1>4. CASE ~Return(c, FALSE)
  <2>1. \E step \in {"dedup", "claim"} : at' = [at EXCEPT ![c] = step]
    BY <1>4 DEF ReadRow
  <2>2. job' = [job EXCEPT ![c] = [job[c] EXCEPT !.had = shares, !.base = Base]]
    BY <1>4 DEF ReadRow
  <2>3. job'[c].num = job[c].num
    <3>1. job[c] \in Jobs /\ job'[c] = [job[c] EXCEPT !.had = shares, !.base = Base]
      BY <1>1, <2>2
    <3> QED BY <3>1 DEF Jobs
  <2>4. /\ at'[c] \in {"dedup", "claim"}
        /\ \A d \in Exits : d # c => at'[d] = at[d] /\ job'[d] = job[d]
    BY <1>1, <2>1, <2>2
  <2>5. his' \in Nat /\ his' <= his
    BY <1>1, <1>2, SizesTyped
  <2>6. Cumulative'
    <3>1. \A d \in Exits : at'[d] # "idle" => at[d] # "idle" /\ job'[d].num = job[d].num
      BY <1>2, <2>3, <2>4
    <3> QED BY <1>1, <2>5, <3>1, CumulativeKept
  <2>7. SalesFit'
    <3>1. \A d \in Exits : at'[d] \in {"send", "cancelled"} =>
                               at[d] \in {"send", "cancelled"} /\ job'[d] = job[d]
      BY <2>4
    <3> QED BY <1>1, <1>2, <2>5, <3>1, SalesKept
  <2> QED BY <2>6, <2>7
<1> QED BY <1>3, <1>4

\* A call is sized and sends.
LEMMA SizeOnFollowed ==
  ASSUME FollowInv, NEW c \in Exits, at[c] = "size", NEW had \in 0..Copied,
         SizeOn(c, had, Copied, Ours(had)),
         UNCHANGED <<his, shares, orig, held, others, overlapped, unheard>>
  PROVE  (Cumulative /\ SalesFit)'
<1>1. Inv /\ Cumulative /\ SalesFit
  BY DEF FollowInv
<1> DEFINE o == Ours(had)
           q == Qty(c, Copied, Ours(had))
<1>2. CASE q = 0
  <2>1. Return(c, o > 1) /\ (o > 1) \in BOOLEAN /\ UNCHANGED misread
    BY <1>2 DEF SizeOn
  <2>2. Quietly(c)
    <3> HIDE DEF o
    <3> QED BY <2>1 DEF Quietly
  <2> QED BY <2>2, QuietFollowed
<1>3. CASE q # 0
  <2> DEFINE f == IsFull(c) /\ o >= held
             i == job[c]
             j == [i EXCEPT !.had = had, !.ours = o, !.qty = q, !.flat = f]
  <2>1. /\ at' = [at EXCEPT ![c] = "send"] /\ job' = [job EXCEPT ![c] = j]
        /\ misread' = (misread \/ had # shares)
    BY <1>3 DEF SizeOn
  <2>2. i \in Jobs /\ (f => IsFull(c))
    BY <1>1 DEF Inv, TypeOK
  <2>3. j.qty = q /\ j.flat = f /\ j.num = i.num
    <3> HIDE DEF q, f, i, o
    <3> QED BY ONLY <2>2 DEF Jobs
  <2>4. Counted' => Counted /\ (had = shares \/ others = 0)
    BY <2>1 DEF Counted
  <2>5. Counted' => HeIsOut \/ (~IsFull(c) /\ KeepsWithout(q))
    BY <1>3, <2>4, SaleIsSized
  <2> HIDE DEF j, f, q, o
  <2>6. /\ at'[c] = "send" /\ job'[c] = j
        /\ \A d \in Exits : d # c => at'[d] = at[d] /\ job'[d] = job[d]
    BY <1>1, <2>1 DEF Inv, TypeOK
  <2>7. Cumulative'
    BY <1>1, <2>3, <2>6 DEF Cumulative, i
  <2>8. ASSUME Counted' PROVE (ProportionKept /\ \A d \in Exits : SaleFits(d))'
    <3>1. Counted
      BY <2>4, <2>8
    <3>2. ProportionKept'
      BY <1>1, <3>1 DEF SalesFit, ProportionKept
    <3>3. \A d \in Exits : d # c => SaleFits(d)'
      <4>1. SUFFICES ASSUME NEW d \in Exits, d # c, at'[d] \in {"send", "cancelled"}
                     PROVE  (HeIsOut \/ (~job[d].flat /\ KeepsWithout(job[d].qty)))'
        BY DEF SaleFits
      <4>2. HeIsOut \/ (~job[d].flat /\ KeepsWithout(job[d].qty))
        BY <1>1, <2>6, <3>1, <4>1 DEF SalesFit, SaleFits
      <4>3. job'[d] = job[d]
        BY <2>6, <4>1
      <4> QED BY <4>2, <4>3 DEF HeIsOut, KeepsWithout
    <3>4. HeIsOut \/ (~j.flat /\ KeepsWithout(j.qty))
      BY <2>2, <2>3, <2>5, <2>8
    <3>5. SaleFits(c)'
      <4>1. (HeIsOut \/ (~job[c].flat /\ KeepsWithout(job[c].qty)))'
        BY <2>6, <3>4 DEF HeIsOut, KeepsWithout
      <4> QED BY <4>1 DEF SaleFits
    <3> QED BY <3>2, <3>3, <3>5
  <2> QED BY <2>7, <2>8 DEF SalesFit
<1> QED BY <1>2, <1>3

LEMMA SizeFollowed ==
  ASSUME FollowInv, NEW c \in Exits, Size(c)
  PROVE  (Cumulative /\ SalesFit)'
<1>1. /\ at[c] = "size"
      /\ UNCHANGED <<his, shares, orig, held, others, overlapped, unheard>>
  BY DEF Size, hisVars
<1>2. Base = Copied /\ shares \in 0..Copied
  BY DEF FollowInv, Reads, BaseIsCopied, Inv, TypeOK
<1>3. job[c].had \in 0..Copied /\ job[c].base = Copied
  <2>1. job[c] \in Jobs
    BY DEF FollowInv, Inv, TypeOK
  <2> QED BY <1>1, <2>1 DEF Jobs, FollowInv, Reads, Read
<1>4. CASE SizeOn(c, shares, Base, Ours(shares))
  BY <1>1, <1>2, <1>4, SizeOnFollowed
<1>5. CASE SizeOn(c, job[c].had, job[c].base, Ours(job[c].had))
  BY <1>1, <1>3, <1>5, SizeOnFollowed
<1> QED BY <1>4, <1>5 DEF Size

\* What was sold is booked.
LEMMA BookFollowed ==
  ASSUME FollowInv, NEW c \in Exits, Book(c)
  PROVE  (Cumulative /\ SalesFit)'
<1>1. Inv /\ Cumulative /\ SalesFit
  BY DEF FollowInv
<1>2. /\ at[c] = "answer"
      /\ UNCHANGED <<his, held, others, overlapped, unheard, misread>>
      /\ Return(c, TRUE) \/ GoOn(c, "record")
  BY DEF Book, hisVars
<1>3. \A d \in Exits :
        /\ at'[d] # "idle" => at[d] # "idle" /\ job'[d] = job[d]
        /\ at'[d] \in {"send", "cancelled"} => at[d] \in {"send", "cancelled"}
  <2>1. TRUE \in BOOLEAN /\ "record" \in Steps \ {"idle", "send", "cancelled"} /\ at[c] # "idle"
    BY <1>2 DEF Steps
  <2> QED BY <1>1, <1>2, <2>1, CallMoves
<1>4. his' \in Nat /\ his' <= his
  BY <1>1, <1>2, SizesTyped
<1>5. Cumulative'
  BY <1>1, <1>3, <1>4, CumulativeKept
<1>6. SalesFit'
  BY <1>1, <1>2, <1>3, <1>4, SalesKept
<1> QED BY <1>5, <1>6

\* A cancelled call, and what its thread or the venue sells.
LEMMA SaleFollowed ==
  ASSUME FollowInv, NEW c \in Exits,
         Cancelled(c) \/ \E f \in 0..held : VenueSells(c, f) \/ ThreadEnds(c, f)
  PROVE  (Cumulative /\ SalesFit)'
<1>1. Inv /\ Cumulative /\ SalesFit /\ at \in [Exits -> Steps] /\ job \in [Exits -> Jobs]
  BY DEF FollowInv, Inv, TypeOK
<1>2. ASSUME Cancelled(c) PROVE (Cumulative /\ SalesFit)'
  <2>1. UNCHANGED <<his, shares, orig, held, others, overlapped, misread>>
    BY <1>2 DEF Cancelled, hisVars, rowVars
  <2>2. CASE at[c] = "send"
    <3>1. at' = [at EXCEPT ![c] = "cancelled"] /\ UNCHANGED <<job, unheard>>
      BY <1>2, <2>2 DEF Cancelled
    <3>2. \A d \in Exits :
            /\ at'[d] # "idle" => at[d] # "idle" /\ job'[d] = job[d]
            /\ at'[d] \in {"send", "cancelled"} => at[d] \in {"send", "cancelled"}
      BY <1>1, <2>2, <3>1
    <3> QED BY <2>1, <3>1, <3>2, RestStep
  <2>3. CASE at[c] = "answer"
    <3>1. (Return(c, FALSE) \/ Return(c, job[c].got > 0)) /\ (unheard => unheard')
      BY <1>2, <2>3 DEF Cancelled
    <3>2. FALSE \in BOOLEAN /\ (job[c].got > 0) \in BOOLEAN
      OBVIOUS
    <3>3. Quietly(c)
      BY <2>1, <2>3, <3>1, <3>2 DEF Quietly
    <3> QED BY <3>3, QuietFollowed
  <2> QED BY <1>2, <2>2, <2>3 DEF Cancelled
<1>3. ASSUME NEW f \in 0..held, VenueSells(c, f)
      PROVE  (Cumulative /\ SalesFit)'
  <2>1. /\ at[c] = "send" /\ f <= Sellable(c) /\ held' = held - f
        /\ at' = [at EXCEPT ![c] = "answer"] /\ job' = [job EXCEPT ![c].got = f]
        /\ UNCHANGED <<his, shares, orig, others, overlapped, unheard, misread>>
    BY <1>3 DEF VenueSells, hisVars, rowVars
  <2>2. /\ at'[c] = "answer"
        /\ \A d \in Exits : d # c => at'[d] = at[d] /\ job'[d] = job[d]
    BY <1>1, <2>1
  <2>3. job'[c].num = job[c].num
    <3>1. job[c] \in Jobs /\ job'[c] = [job[c] EXCEPT !.got = f]
      BY <1>1, <2>1
    <3> QED BY <3>1 DEF Jobs
  <2> QED BY <2>1, <2>2, <2>3, SoldStep
<1>4. ASSUME NEW f \in 0..held, ThreadEnds(c, f)
      PROVE  (Cumulative /\ SalesFit)'
  <2>1. /\ at[c] = "cancelled" /\ f <= Sellable(c) /\ held' = held - f
        /\ at' = [at EXCEPT ![c] = "idle"] /\ job' = [job EXCEPT ![c] = NoJob]
        /\ (unheard => unheard') /\ UNCHANGED <<his, shares, orig, others, overlapped, misread>>
    BY <1>4 DEF ThreadEnds, hisVars, rowVars
  <2>2. /\ at'[c] = "idle"
        /\ \A d \in Exits : d # c => at'[d] = at[d] /\ job'[d] = job[d]
    BY <1>1, <2>1
  <2> QED BY <2>1, <2>2, SoldStep
<1> QED BY <1>2, <1>3, <1>4

\* The reaper, time, and a restart.
LEMMA RestFollowed ==
  ASSUME FollowInv, ReaperStep \/ RowAges \/ WindowEnds \/ Crash \/ UNCHANGED vars
  PROVE  (Cumulative /\ SalesFit)'
<1>1. CASE ReaperStep \/ RowAges \/ WindowEnds \/ UNCHANGED vars
  <2>1. /\ UNCHANGED <<his, shares, orig, held, others, at, job, unheard, misread>>
        /\ overlapped => overlapped'
    <3>1. CASE ReaperReads
      BY <3>1 DEF ReaperReads, hisVars, rowVars
    <3>2. CASE ReaperResolves
      BY <3>2 DEF ReaperResolves, hisVars
    <3>3. CASE RowAges \/ WindowEnds \/ UNCHANGED vars
      BY <3>3 DEF RowAges, WindowEnds, vars, hisVars, rowVars
    <3> QED BY <1>1, <3>1, <3>2, <3>3 DEF ReaperStep
  <2> QED BY <2>1, RestStep
<1>2. CASE Crash
  <2>1. /\ UNCHANGED <<his, shares, orig, held, others, overlapped, misread>> /\ (unheard => unheard')
        /\ at' = [c \in Exits |-> IF at[c] \in {"send", "cancelled"} THEN "cancelled" ELSE "idle"]
        /\ job' = [c \in Exits |-> IF at[c] \in {"send", "cancelled"} THEN job[c] ELSE NoJob]
    BY <1>2 DEF Crash, hisVars, rowVars
  <2>2. \A c \in Exits :
          /\ at'[c] # "idle" => at[c] # "idle" /\ job'[c] = job[c]
          /\ at'[c] \in {"send", "cancelled"} => at[c] \in {"send", "cancelled"}
    BY <2>1
  <2> QED BY <2>1, <2>2, RestStep
<1> QED BY <1>1, <1>2

\* Initially we hold what we bought, and he what he bought.
LEMMA InitFollows == Init => Cumulative /\ SalesFit
<1> SUFFICES ASSUME Init PROVE Cumulative /\ SalesFit
  OBVIOUS
<1>1. Cumulative /\ \A c \in Exits : SaleFits(c)
  BY DEF Init, Cumulative, SaleFits
<1>2. ProportionKept
  <2>1. /\ his = Bought /\ held = Copied + others /\ others \in Nat /\ Bought \in Nat
        /\ Copied \in Nat
    BY DEF Init
  <2>2. 2 * Bought * (Copied + others) + Bought >= 2 * Copied * Bought + 2 * Bought * others
    <3>1. 2 * Bought \in Nat
      BY <2>1
    <3>2. (2 * Bought) * (Copied + others) = (2 * Bought) * Copied + (2 * Bought) * others
          /\ (2 * Bought) * Copied \in Nat /\ (2 * Bought) * others \in Nat
      BY <2>1, <3>1, Products
    <3>3. (2 * Copied) * Bought = (2 * Bought) * Copied
      BY <2>1
    <3> QED BY <2>1, <3>2, <3>3
  <2> QED BY <2>1, <2>2 DEF ProportionKept
<1> QED BY <1>1, <1>2 DEF SalesFit

\* Every step keeps our fraction.
LEMMA NextFollows == FollowInv /\ [Next]_vars => FollowInv'
<1> SUFFICES ASSUME FollowInv, [Next]_vars PROVE FollowInv'
  OBVIOUS
<1>1. Inv' /\ Reads'
  BY NextInv DEF FollowInv
<1> SUFFICES (Cumulative /\ SalesFit)'
  BY <1>1 DEF FollowInv
<1>2. ASSUME NEW k \in 1..his, LeavesByMerge(k) \/ \E x \in TradeIds : LeavesByTrade(x, k)
      PROVE  (Cumulative /\ SalesFit)'
  BY <1>2, WhaleFollowed
<1>3. ASSUME PositionLane \/ \E c \in Callers : \E x \in TradeIds : TradeLane(c, x)
      PROVE  (Cumulative /\ SalesFit)'
  BY <1>3, LaneFollowed
<1>4. ASSUME CheckRecent PROVE (Cumulative /\ SalesFit)'
  BY <1>4, CallsFollow DEF Exits
<1>5. ASSUME NEW c \in Exits, ExitStep(c) PROVE (Cumulative /\ SalesFit)'
  <2>1. CASE \/ Refused(c) \/ CheckLedger(c) \/ Record(c)
             \/ Claim(c) \/ ClaimUnheard(c) \/ AbortUnsent(c) \/ Unfilled(c)
    BY <2>1, CallsFollow
  <2>2. CASE Size(c)
    BY <2>2, SizeFollowed
  <2>3. CASE Book(c)
    BY <2>3, BookFollowed
  <2>4. CASE Cancelled(c) \/ \E f \in 0..held : VenueSells(c, f) \/ ThreadEnds(c, f)
    BY <2>4, SaleFollowed
  <2>5. CASE ReadRow(c)
    BY <2>5, ReadFollowed
  <2> QED BY <1>5, <2>1, <2>2, <2>3, <2>4, <2>5 DEF ExitStep
<1>6. ASSUME ReaperStep \/ RowAges \/ WindowEnds \/ Crash \/ UNCHANGED vars
      PROVE  (Cumulative /\ SalesFit)'
  BY <1>6, RestFollowed
<1> QED BY <1>2, <1>3, <1>4, <1>5, <1>6 DEF Next

\* What was sold was sized to leave us at least the fraction that he holds:
\* of every state a behaviour reaches.
THEOREM FollowInvariance == Spec => []FollowInv
<1>1. Init => FollowInv
  BY InitInv, InitReads, InitFollows DEF FollowInv
<1>2. FollowInv /\ [Next]_vars => FollowInv'
  BY NextFollows
<1> QED BY <1>1, <1>2, PTL DEF Spec

\* Neither the two lanes, nor a trade offered again, nor a sale tried again
\* after its answer was lost, nor one sized on a row that had changed since,
\* sells us further out than he is; the last two on a market of ours alone.
THEOREM NeverPastTheWhale == Spec => []NotSoldPastTheWhale
<1>1. FollowInv => NotSoldPastTheWhale
  BY DEF FollowInv, SalesFit, Counted, NotSoldPastTheWhale
<1> QED BY <1>1, FollowInvariance, PTL
=============================================================================
