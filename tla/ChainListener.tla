---------------------------- MODULE ChainListener ----------------------------
(***************************************************************************)
(* Path A: fills read from the chain, ingestion/chain.py with              *)
(* claim_registry.py and the emission step of s1_emitter.py.               *)
(*                                                                         *)
(* One process runs three tasks.  The run task catches up from the cursor  *)
(* to the tip, subscribes, and handles what the socket delivers; the sweep *)
(* task re-reads confirmed blocks for logs the socket dropped; the emitter *)
(* decodes the same logs on its own and writes what the receipt path       *)
(* refused.  All three share the process's memory (the transactions seen,  *)
(* the claims, the end of the last sweep), which a restart wipes; the      *)
(* table trades and the cursor chain.last_block stay.                      *)
(*                                                                         *)
(* A log stands for one roster wallet's fill transaction.  The socket may  *)
(* drop a log, a receipt may be missing or undecodable, and a handler may  *)
(* raise; the poller, which is not modelled, carries what this path loses. *)
(***************************************************************************)
EXTENDS Naturals, FiniteSets

CONSTANTS
    Logs,          \* fill transactions
    NoLog,         \* no transaction: a task between two logs
    MaxBlock,      \* bound: blocks mined
    ConfirmBlocks, \* CHAIN_SWEEP_CONFIRM_BLOCKS
    MaxSpan,       \* CHAIN_SWEEP_MAX_BLOCKS
    MaxFaults      \* bound: crashes, lost connections, raising handlers, failed catch-ups

ASSUME NoneAssumption == NoLog \notin Logs
ASSUME ParametersAssumption ==
    MaxBlock \in Nat /\ ConfirmBlocks \in Nat /\ MaxSpan \in Nat \ {0} /\ MaxFaults \in Nat

\* The two tasks that handle logs.
Tasks == {"run", "sweep"}

VARIABLES
    tip,        \* the newest block
    mined,      \* the block of each log; 0: not mined yet
    cursor,     \* chain.last_block; 0: no row
    chainRows,  \* fills written by the receipt path (source = 'chain')
    s1Rows,     \* fills written by the emitter (source = 's1')
    followed,   \* logs whose wallet is in _roster
    phase,      \* the run task: start, catchup, connect or live
    throttled,  \* _last_throttled
    todo,       \* each task: the logs of its eth_getLogs answer still to handle
    upto,       \* each task: the block it saves when it is done
    inbox,      \* logs the socket will deliver
    current,    \* each task: the log it is handling
    at,         \* each task: where in _handle_v3 it is
    seen,       \* _v3_seen
    claim,      \* claim_registry, receipt claims by outcome
    sweeping,   \* the sweep task is between its lock and its end
    broke,      \* a handler raised in this sweep
    sweepEnd,   \* _sweep_end; 0: None
    buffered,   \* the emitter's pending transactions
    emitting,   \* the transaction the emitter has claimed and not finished
    emitAt,     \* where in _emit_group it is
    looked,     \* logs this process has come to, matched or not (a history variable)
    raisedOn,   \* logs a sweep's handler raised on (a history variable)
    since,      \* first block of the contiguous run of sweeps (a history variable)
    faults

runVars   == <<phase, throttled, inbox>>
sweepVars == <<sweeping, broke, sweepEnd, since>>
emitVars  == <<buffered, emitting, emitAt>>
listVars  == <<todo, upto>>
jobVars   == <<current, at>>
vars == <<tip, mined, cursor, chainRows, s1Rows, followed, runVars, listVars, jobVars,
          seen, claim, sweepVars, emitVars, looked, raisedOn, faults>>

Larger(a, b) == IF a >= b THEN a ELSE b
Smaller(a, b) == IF a <= b THEN a ELSE b

\* Logs of the blocks lo..hi, as eth_getLogs returns them.
LogsIn(lo, hi) == {l \in Logs : mined[l] > 0 /\ lo <= mined[l] /\ mined[l] <= hi}

\* The first log of an answer that is still to be handled: block order.
IsNext(l, S) == l \in S /\ \A k \in S : mined[l] <= mined[k]

Fault == faults < MaxFaults /\ faults' = faults + 1

\* What a process that starts has in memory.
FreshMemory ==
    /\ phase' = "start" /\ throttled' = FALSE /\ inbox' = {}
    /\ todo' = [t \in Tasks |-> {}] /\ upto' = [t \in Tasks |-> 0]
    /\ current' = [t \in Tasks |-> NoLog] /\ at' = [t \in Tasks |-> "idle"]
    /\ seen' = {} /\ claim' = [l \in Logs |-> "none"]
    /\ sweeping' = FALSE /\ broke' = FALSE /\ sweepEnd' = 0 /\ since' = 0
    /\ buffered' = {} /\ emitting' = NoLog /\ emitAt' = "idle"
    /\ looked' = {} /\ raisedOn' = {}

Init ==
    /\ tip = 0 /\ mined = [l \in Logs |-> 0] /\ cursor = 0
    /\ chainRows = {} /\ s1Rows = {} /\ followed \in SUBSET Logs
    /\ phase = "start" /\ throttled = FALSE /\ inbox = {}
    /\ todo = [t \in Tasks |-> {}] /\ upto = [t \in Tasks |-> 0]
    /\ current = [t \in Tasks |-> NoLog] /\ at = [t \in Tasks |-> "idle"]
    /\ seen = {} /\ claim = [l \in Logs |-> "none"]
    /\ sweeping = FALSE /\ broke = FALSE /\ sweepEnd = 0 /\ since = 0
    /\ buffered = {} /\ emitting = NoLog /\ emitAt = "idle"
    /\ looked = {} /\ raisedOn = {} /\ faults = 0

-----------------------------------------------------------------------------
(* The chain                                                                *)

\* A block with a set of fills; a live subscription queues those of them it
\* does not drop.
Mine(fills, pushed) ==
    /\ tip < MaxBlock
    /\ tip' = tip + 1
    /\ \A l \in fills : mined[l] = 0
    /\ mined' = [l \in Logs |-> IF l \in fills THEN tip + 1 ELSE mined[l]]
    /\ pushed \subseteq fills /\ (phase # "live" => pushed = {})
    /\ inbox' = inbox \cup pushed
    /\ UNCHANGED <<cursor, chainRows, s1Rows, followed, phase, throttled, listVars,
                   jobVars, seen, claim, sweepVars, emitVars, looked, raisedOn, faults>>

-----------------------------------------------------------------------------
(* _handle_v3: the receipt path, in whichever task calls it                 *)

\* Up to the first await: a transaction seen before is dropped, a wallet
\* that is not on the roster is not matched, and otherwise the transaction
\* is marked seen and claimed.  The caller of a task at rest.
TakeUp(t, l) ==
    /\ current[t] = NoLog
    /\ looked' = looked \cup {l}
    /\ IF l \in followed \ seen
       THEN /\ seen' = seen \cup {l}
            /\ claim' = [claim EXCEPT ![l] = IF @ = "none" THEN "receipt" ELSE @]
            /\ current' = [current EXCEPT ![t] = l]
            /\ at' = [at EXCEPT ![t] = "receipt"]
       ELSE UNCHANGED <<seen, claim, jobVars>>

\* finish: lands only on a claim the receipt path owns.
Finish(l, outcome) ==
    claim' = [claim EXCEPT ![l] = IF @ = "emitter" THEN @ ELSE outcome]

GoTo(t, step) == at' = [at EXCEPT ![t] = step] /\ UNCHANGED current
Rest(t) == /\ current' = [current EXCEPT ![t] = NoLog]
           /\ at' = [at EXCEPT ![t] = "idle"]

\* eth_getTransactionReceipt raises: refused, and back without the cursor.
ReceiptMissing(t) ==
    /\ at[t] = "receipt"
    /\ Finish(current[t], "refused")
    /\ Rest(t)
    /\ UNCHANGED <<tip, mined, cursor, chainRows, s1Rows, followed, runVars, listVars,
                   seen, sweepVars, emitVars, looked, raisedOn, faults>>

\* The receipt does not decode to one fill: refused, the cursor still moves.
ReceiptUndecodable(t) ==
    /\ at[t] = "receipt"
    /\ Finish(current[t], "refused")
    /\ GoTo(t, "cursor")
    /\ UNCHANGED <<tip, mined, cursor, chainRows, s1Rows, followed, runVars, listVars,
                   seen, sweepVars, emitVars, looked, raisedOn, faults>>

\* Mutant: the claim is not read again after the receipt came back.
ReceiptDecodesBlindly(t) ==
    /\ at[t] = "receipt"
    /\ GoTo(t, "probe")
    /\ UNCHANGED <<tip, mined, cursor, chainRows, s1Rows, followed, runVars, listVars,
                   seen, claim, sweepVars, emitVars, looked, raisedOn, faults>>

\* A fill: the path steps back if the emitter holds the claim.
ReceiptDecodes(t) ==
    /\ at[t] = "receipt"
    /\ GoTo(t, IF claim[current[t]] = "emitter" THEN "cursor" ELSE "probe")
    /\ UNCHANGED <<tip, mined, cursor, chainRows, s1Rows, followed, runVars, listVars,
                   seen, claim, sweepVars, emitVars, looked, raisedOn, faults>>

\* The SELECT over trades for a row of either chain source.
Probe(t) ==
    /\ at[t] = "probe"
    /\ LET l == current[t] IN
       IF l \in chainRows \cup s1Rows
       THEN Finish(l, "ingested") /\ GoTo(t, "cursor")
       ELSE GoTo(t, "ingest") /\ UNCHANGED claim
    /\ UNCHANGED <<tip, mined, cursor, chainRows, s1Rows, followed, runVars, listVars,
                   seen, sweepVars, emitVars, looked, raisedOn, faults>>

\* The block's timestamp and ingest_trade_result.
Ingest(t) ==
    /\ at[t] = "ingest"
    /\ chainRows' = chainRows \cup {current[t]}
    /\ Finish(current[t], "ingested")
    /\ GoTo(t, "cursor")
    /\ UNCHANGED <<tip, mined, cursor, s1Rows, followed, runVars, listVars,
                   seen, sweepVars, emitVars, looked, raisedOn, faults>>

\* Mutant: the cursor is overwritten instead of raised to the GREATEST.
OverwriteCursor(t) ==
    /\ at[t] = "cursor"
    /\ cursor' = mined[current[t]]
    /\ Rest(t)
    /\ UNCHANGED <<tip, mined, chainRows, s1Rows, followed, runVars, listVars,
                   seen, claim, sweepVars, emitVars, looked, raisedOn, faults>>

\* _save_cursor of the log's block, which raises the cursor or leaves it.
AdvanceCursor(t) ==
    /\ at[t] = "cursor"
    /\ cursor' = Larger(cursor, mined[current[t]])
    /\ Rest(t)
    /\ UNCHANGED <<tip, mined, chainRows, s1Rows, followed, runVars, listVars,
                   seen, claim, sweepVars, emitVars, looked, raisedOn, faults>>

HandleStep(t) ==
    \/ ReceiptMissing(t) \/ ReceiptUndecodable(t) \/ ReceiptDecodes(t)
    \/ Probe(t) \/ Ingest(t) \/ AdvanceCursor(t)

\* The pool or the RPC raises out of the handler in task t.
Raises(t) == at[t] \in {"probe", "ingest", "cursor"} /\ Fault /\ Rest(t)

-----------------------------------------------------------------------------
(* run: catch up, subscribe, handle what the socket delivers                *)

\* refresh_roster, at the start of a cycle and between two messages.
RefreshRoster(l) ==
    /\ phase \in {"start", "live"} /\ current["run"] = NoLog
    /\ l \notin followed
    /\ followed' = followed \cup {l}
    /\ UNCHANGED <<tip, mined, cursor, chainRows, s1Rows, runVars, listVars, jobVars,
                   seen, claim, sweepVars, emitVars, looked, raisedOn, faults>>

\* No catch-up while throttled, without a cursor, or with nothing new.
SkipCatchUp ==
    /\ phase = "start"
    /\ throttled \/ cursor = 0 \/ tip <= cursor
    /\ phase' = "connect"
    /\ UNCHANGED <<tip, mined, cursor, chainRows, s1Rows, followed, throttled, inbox,
                   listVars, jobVars, seen, claim, sweepVars, emitVars, looked, raisedOn,
                   faults>>

\* Under the lock it shares with the sweep: the logs after the cursor, up to
\* the tip.
OpenCatchUp ==
    /\ phase = "start" /\ ~throttled /\ cursor > 0 /\ tip > cursor
    /\ ~sweeping
    /\ phase' = "catchup"
    /\ todo' = [todo EXCEPT !["run"] = LogsIn(cursor + 1, tip)]
    /\ upto' = [upto EXCEPT !["run"] = tip]
    /\ UNCHANGED <<tip, mined, cursor, chainRows, s1Rows, followed, throttled, inbox,
                   jobVars, seen, claim, sweepVars, emitVars, looked, raisedOn, faults>>

CatchUpNext(l) ==
    /\ phase = "catchup" /\ IsNext(l, todo["run"])
    /\ todo' = [todo EXCEPT !["run"] = @ \ {l}]
    /\ TakeUp("run", l)
    /\ UNCHANGED <<tip, mined, cursor, chainRows, s1Rows, followed, runVars, upto,
                   sweepVars, emitVars, raisedOn, faults>>

CloseCatchUp ==
    /\ phase = "catchup" /\ todo["run"] = {} /\ current["run"] = NoLog
    /\ cursor' = Larger(cursor, upto["run"])
    /\ phase' = "connect" /\ upto' = [upto EXCEPT !["run"] = 0]
    /\ UNCHANGED <<tip, mined, chainRows, s1Rows, followed, throttled, inbox, todo,
                   jobVars, seen, claim, sweepVars, emitVars, looked, raisedOn, faults>>

\* The except branch of a failed catch-up moves the cursor to the tip, past
\* the blocks it has not read, if the tip can be read.
GiveUpCatchUp ==
    /\ phase' = "connect"
    /\ todo' = [todo EXCEPT !["run"] = {}] /\ upto' = [upto EXCEPT !["run"] = 0]
    /\ cursor' \in {cursor, Larger(cursor, tip)}

CatchUpFails ==
    /\ \/ phase = "start" /\ ~throttled
       \/ phase = "catchup"
    /\ current["run"] = NoLog /\ Fault
    /\ GiveUpCatchUp
    /\ UNCHANGED <<tip, mined, chainRows, s1Rows, followed, throttled, inbox,
                   jobVars, seen, claim, sweepVars, emitVars, looked, raisedOn>>

CatchUpRaises ==
    /\ phase = "catchup" /\ Raises("run")
    /\ GiveUpCatchUp
    /\ UNCHANGED <<tip, mined, chainRows, s1Rows, followed, throttled, inbox,
                   seen, claim, sweepVars, emitVars, looked, raisedOn>>

\* Mutant: the throttle is not forgotten when the subscription stands.
ConnectStaysThrottled ==
    /\ phase = "connect"
    /\ phase' = "live"
    /\ UNCHANGED <<tip, mined, cursor, chainRows, s1Rows, followed, throttled, inbox,
                   listVars, jobVars, seen, claim, sweepVars, emitVars, looked, raisedOn,
                   faults>>

\* The subscription is acknowledged.
Connect ==
    /\ phase = "connect"
    /\ phase' = "live" /\ throttled' = FALSE
    /\ UNCHANGED <<tip, mined, cursor, chainRows, s1Rows, followed, inbox, listVars,
                   jobVars, seen, claim, sweepVars, emitVars, looked, raisedOn, faults>>

\* The connection is refused or lost, with a 429 or without: what the socket
\* had not delivered is gone.
Disconnect ==
    /\ phase \in {"connect", "live"} /\ current["run"] = NoLog /\ Fault
    /\ phase' = "start" /\ inbox' = {} /\ throttled' \in BOOLEAN
    /\ UNCHANGED <<tip, mined, cursor, chainRows, s1Rows, followed, listVars, jobVars,
                   seen, claim, sweepVars, emitVars, looked, raisedOn>>

\* A minute without a message: subscribe again, throttled as before.
QuietSocket ==
    /\ phase = "live" /\ current["run"] = NoLog /\ inbox = {}
    /\ phase' = "start"
    /\ UNCHANGED <<tip, mined, cursor, chainRows, s1Rows, followed, throttled, inbox,
                   listVars, jobVars, seen, claim, sweepVars, emitVars, looked, raisedOn,
                   faults>>

\* _handle_log on a delivered log: the emitter buffers it before _handle_v3
\* can drop it.
Deliver(l) ==
    /\ phase = "live" /\ l \in inbox
    /\ inbox' = inbox \ {l}
    /\ buffered' = buffered \cup {l}
    /\ TakeUp("run", l)
    /\ UNCHANGED <<tip, mined, cursor, chainRows, s1Rows, followed, phase, throttled,
                   listVars, sweepVars, emitting, emitAt, raisedOn, faults>>

\* A handler that raises under a live socket ends the connection.
SocketHandlerRaises ==
    /\ phase = "live" /\ Raises("run")
    /\ phase' = "start" /\ inbox' = {} /\ throttled' \in BOOLEAN
    /\ UNCHANGED <<tip, mined, cursor, chainRows, s1Rows, followed, listVars,
                   seen, claim, sweepVars, emitVars, looked, raisedOn>>

-----------------------------------------------------------------------------
(* _sweep_once                                                              *)

\* Mutant: the sweep opens after the cursor, wherever the last one ended.
OpensAfterCursor == cursor + 1

\* The block after the last sweep; the cursor block itself on the first
\* sweep of the process and after a lag beyond MaxSpan.
Contiguous == sweepEnd > 0 /\ cursor <= sweepEnd + MaxSpan
SweepStart == IF Contiguous THEN sweepEnd + 1 ELSE cursor

\* Mutant: the span is not cut at the confirmed tip.
OpenUnconfirmedSweep ==
    /\ phase = "live" /\ ~throttled /\ ~sweeping /\ cursor > 0
    /\ LET end == SweepStart + MaxSpan - 1 IN
       /\ upto' = [upto EXCEPT !["sweep"] = end]
       /\ todo' = [todo EXCEPT !["sweep"] = LogsIn(SweepStart, end)]
    /\ sweeping' = TRUE
    /\ since' = IF Contiguous THEN since ELSE cursor
    /\ UNCHANGED <<tip, mined, cursor, chainRows, s1Rows, followed, runVars, jobVars,
                   seen, claim, broke, sweepEnd, emitVars, looked, raisedOn, faults>>

\* Subscribed, not throttled, and something confirmed to read.
OpenSweep ==
    /\ phase = "live" /\ ~throttled /\ ~sweeping /\ cursor > 0
    /\ LET end == Smaller(tip - ConfirmBlocks, SweepStart + MaxSpan - 1) IN
       /\ tip >= ConfirmBlocks /\ end >= SweepStart
       /\ upto' = [upto EXCEPT !["sweep"] = end]
       /\ todo' = [todo EXCEPT !["sweep"] = LogsIn(SweepStart, end)]
    /\ sweeping' = TRUE
    /\ since' = IF Contiguous THEN since ELSE cursor
    /\ UNCHANGED <<tip, mined, cursor, chainRows, s1Rows, followed, runVars, jobVars,
                   seen, claim, broke, sweepEnd, emitVars, looked, raisedOn, faults>>

SweepNext(l) ==
    /\ sweeping /\ IsNext(l, todo["sweep"])
    /\ todo' = [todo EXCEPT !["sweep"] = @ \ {l}]
    /\ TakeUp("sweep", l)
    /\ UNCHANGED <<tip, mined, cursor, chainRows, s1Rows, followed, runVars, upto,
                   sweepVars, emitVars, raisedOn, faults>>

\* One entry's handler raises: counted, and the sweep goes on.
SweepHandlerRaises ==
    /\ Raises("sweep")
    /\ broke' = TRUE /\ raisedOn' = raisedOn \cup {current["sweep"]}
    /\ UNCHANGED <<tip, mined, cursor, chainRows, s1Rows, followed, runVars, listVars,
                   seen, claim, sweeping, sweepEnd, since, emitVars, looked>>

\* Only a sweep without a raising entry moves the cursor and its own end.
CloseSweep ==
    /\ sweeping /\ todo["sweep"] = {} /\ current["sweep"] = NoLog
    /\ sweeping' = FALSE /\ broke' = FALSE /\ upto' = [upto EXCEPT !["sweep"] = 0]
    /\ IF broke THEN UNCHANGED <<cursor, sweepEnd>>
       ELSE cursor' = Larger(cursor, upto["sweep"]) /\ sweepEnd' = upto["sweep"]
    /\ UNCHANGED <<tip, mined, chainRows, s1Rows, followed, runVars, todo, jobVars,
                   seen, claim, since, emitVars, looked, raisedOn, faults>>

-----------------------------------------------------------------------------
(* The emitter                                                              *)

\* The claim is read and taken without an await: free, refused by the
\* receipt path, or the emitter's own from an earlier attempt.
EmitterClaims(l) ==
    /\ emitting = NoLog /\ l \in buffered \cap followed
    /\ claim[l] \in {"none", "refused", "emitter"}
    /\ claim' = [claim EXCEPT ![l] = "emitter"]
    /\ emitting' = l /\ emitAt' = "probe"
    /\ UNCHANGED <<tip, mined, cursor, chainRows, s1Rows, followed, runVars, listVars,
                   jobVars, seen, sweepVars, buffered, looked, raisedOn, faults>>

\* Ingested by the receipt path, its outcome not known in time, too old, not
\* decodable, not armed: the emitter is done with the transaction.
EmitterAbstains(l) ==
    /\ emitting = NoLog /\ l \in buffered
    /\ buffered' = buffered \ {l}
    /\ UNCHANGED <<tip, mined, cursor, chainRows, s1Rows, followed, runVars, listVars,
                   jobVars, seen, claim, sweepVars, emitting, emitAt, looked, raisedOn,
                   faults>>

\* SQL_PROBE: any row of a chain source ends it.
EmitterProbes ==
    /\ emitAt = "probe"
    /\ IF emitting \in chainRows \cup s1Rows
       THEN /\ buffered' = buffered \ {emitting}
            /\ emitting' = NoLog /\ emitAt' = "idle"
       ELSE emitAt' = "ingest" /\ UNCHANGED <<buffered, emitting>>
    /\ UNCHANGED <<tip, mined, cursor, chainRows, s1Rows, followed, runVars, listVars,
                   jobVars, seen, claim, sweepVars, looked, raisedOn, faults>>

EmitterIngests ==
    /\ emitAt = "ingest"
    /\ s1Rows' = s1Rows \cup {emitting}
    /\ buffered' = buffered \ {emitting}
    /\ emitting' = NoLog /\ emitAt' = "idle"
    /\ UNCHANGED <<tip, mined, cursor, chainRows, followed, runVars, listVars,
                   jobVars, seen, claim, sweepVars, looked, raisedOn, faults>>

\* The probe or the ingest raises: the transaction stays buffered and claimed.
EmitterRetries ==
    /\ emitAt \in {"probe", "ingest"}
    /\ emitting' = NoLog /\ emitAt' = "idle"
    /\ UNCHANGED <<tip, mined, cursor, chainRows, s1Rows, followed, runVars, listVars,
                   jobVars, seen, claim, sweepVars, buffered, looked, raisedOn, faults>>

-----------------------------------------------------------------------------
\* The process dies at any point and starts again with the two tables.
Crash ==
    /\ Fault /\ FreshMemory
    /\ UNCHANGED <<tip, mined, cursor, chainRows, s1Rows, followed>>

RunStep ==
    \/ SkipCatchUp \/ OpenCatchUp \/ CloseCatchUp \/ Connect \/ QuietSocket
    \/ HandleStep("run")
    \/ \E l \in Logs : CatchUpNext(l) \/ Deliver(l)

SweepStep ==
    \/ OpenSweep \/ CloseSweep \/ HandleStep("sweep")
    \/ \E l \in Logs : SweepNext(l)

EmitterStep ==
    \/ EmitterProbes \/ EmitterIngests \/ EmitterRetries
    \/ \E l \in Logs : EmitterClaims(l) \/ EmitterAbstains(l)

FaultStep ==
    \/ CatchUpFails \/ CatchUpRaises \/ Disconnect \/ SocketHandlerRaises
    \/ SweepHandlerRaises \/ Crash

Environment ==
    \/ \E fills \in SUBSET Logs : \E pushed \in SUBSET fills : Mine(fills, pushed)
    \/ \E l \in Logs : RefreshRoster(l)

Next == RunStep \/ SweepStep \/ EmitterStep \/ FaultStep \/ Environment

Spec == Init /\ [][Next]_vars

\* Both loops go round for ever: run catches every exception and _sweep_loop
\* "never dies".  A quiet subscription lasts a minute and the sweep comes
\* every 15 seconds, so the sweep gets its turn under a socket that keeps
\* re-subscribing: strong fairness.
FairSpec == Spec /\ WF_vars(RunStep) /\ SF_vars(SweepStep)

-----------------------------------------------------------------------------
(* Properties                                                               *)

TypeOK ==
    /\ tip \in 0..MaxBlock /\ mined \in [Logs -> 0..tip] /\ cursor \in 0..tip
    /\ chainRows \subseteq Logs /\ s1Rows \subseteq Logs /\ followed \subseteq Logs
    /\ phase \in {"start", "catchup", "connect", "live"} /\ throttled \in BOOLEAN
    /\ inbox \subseteq Logs
    /\ todo \in [Tasks -> SUBSET Logs] /\ upto \in [Tasks -> 0..tip]
    /\ current \in [Tasks -> Logs \cup {NoLog}]
    /\ at \in [Tasks -> {"idle", "receipt", "probe", "ingest", "cursor"}]
    /\ \A t \in Tasks : at[t] # "idle" <=> current[t] # NoLog
    /\ seen \subseteq looked /\ looked \subseteq Logs
    /\ claim \in [Logs -> {"none", "receipt", "refused", "ingested", "emitter"}]
    /\ sweeping \in BOOLEAN /\ broke \in BOOLEAN
    /\ sweepEnd \in 0..tip /\ since \in 0..tip
    /\ buffered \subseteq Logs /\ raisedOn \subseteq looked
    /\ emitting \in Logs \cup {NoLog} /\ emitAt \in {"idle", "probe", "ingest"}
    /\ emitAt # "idle" <=> emitting # NoLog
    /\ faults \in Nat

\* claim_registry.py: "key-DIVERGENT double emission is the catastrophic case
\* (two rows for one fill)".  The receipt path and the emitter never both
\* write a row for one fill, across late receipts, sweeps and restarts.
OneRowPerFill == chainRows \cap s1Rows = {}

\* Socket, sweep and catch-up move the cursor in any order; it never falls
\* back behind a block one of them has saved.
CursorNeverFallsBack == [][cursor' >= cursor]_vars

\* _sweep_once, "the sweep is contiguous with its OWN last end": every log of
\* the blocks swept since the run of sweeps began has been looked at by this
\* process, although the socket moves the cursor past blocks in between.
SweepLeavesNoHole ==
    \A l \in Logs : mined[l] > 0 /\ since <= mined[l] /\ mined[l] <= sweepEnd => l \in looked

\* Under FairSpec a log the socket dropped is looked at once its block is
\* confirmed, unless the process restarts or the sweep falls more than MaxSpan
\* behind the cursor, which is where it gives up its contiguity.
SweepRepairs ==
    \A l \in Logs :
        (mined[l] > sweepEnd /\ sweepEnd > 0 /\ mined[l] + ConfirmBlocks <= tip)
            ~> (l \in looked \/ sweepEnd = 0 \/ cursor > sweepEnd + MaxSpan)

\* _sweep_once: "a handler that raises on one entry -> `failed` + 1 and the
\* cursor is NOT advanced past the span".  A log on which the sweep's handler
\* raised is ahead of the sweep's end until its claim has an outcome or it is
\* being handled again.
RaisedEntryStaysAhead ==
    \A l \in raisedOn :
        mined[l] > sweepEnd \/ claim[l] # "receipt" \/ \E t \in Tasks : current[t] = l
=============================================================================
