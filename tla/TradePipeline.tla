---------------------------- MODULE TradePipeline ----------------------------
(***************************************************************************)
(* One detected fill on its way from a detection path to a push:           *)
(* ingestion/pipeline.py and notifications/dispatcher.py over the tables   *)
(* trades and notification_outbox.                                         *)
(*                                                                         *)
(* Several processes detect the same fill (chain listener, poller,         *)
(* reconciler, s1 emitter).  Each runs ingest_trade_result, whose only     *)
(* durable step is one INSERT ... ON CONFLICT; everything after it         *)
(* (publish, the copy task, the outbox task, the enrichment task) lives in *)
(* the memory of the process whose INSERT was the first, and dies with it. *)
(* The dispatchers take outbox rows by marking them sent before they send. *)
(***************************************************************************)
EXTENDS Naturals, FiniteSets

CONSTANTS
    Trades,         \* dedupe keys: one per fill on the chain
    Procs,          \* the processes that detect fills
    Dispatchers,    \* the running notification dispatchers
    NumKinds,       \* channels, numbered in the order both sides visit them
    BatchLimit,     \* _claim's LIMIT
    NoProc,         \* no process
    NoTrade,        \* no trade: a process between two calls
    MaxDetections,  \* bound: how often a fill is detected, over all of them
    MaxFaults       \* bound: crashes, and claims that raise, together

ASSUME KindsAssumption == NumKinds \in Nat \ {0}
ASSUME LimitAssumption == BatchLimit \in Nat \ {0}
ASSUME NoneAssumption == NoProc \notin Procs /\ NoTrade \notin Trades
ASSUME BoundsAssumption == MaxDetections \in Nat /\ MaxFaults \in Nat

Kinds == 1..NumKinds

VARIABLES
    stored,      \* rows of trades
    meta,        \* rows whose condition_id is filled in
    silent,      \* rows first inserted with notify=False (a history variable)
    call,        \* each process: the ingest_trade_result call it is in
    owner,       \* the process holding a trade's spawned tasks
    announced,   \* CH_TRADES_NEW messages per trade (a history variable)
    copies,      \* execute_copy tasks spawned per trade (a history variable)
    outTask,     \* _write_outbox: the next channel it writes; 0: not running
    enrTask,     \* _enrich: where it is; complete: the event came with metadata
    outbox,      \* rows of notification_outbox: absent, pending or sent
    payload,     \* what a row's payload says: the provisional or full record
    pos,         \* each dispatcher: the channel it is at
    batch,       \* each dispatcher: the trades it claimed and has not handled
    deliveries,  \* pushes per trade and channel (a history variable)
    detections, faults

ingestVars   == <<stored, meta, silent, call, owner, announced, copies, outTask, enrTask>>
dispatchVars == <<pos, batch, deliveries>>
vars == <<ingestVars, outbox, payload, dispatchVars, detections, faults>>

Idle == [pc |-> "idle", trade |-> NoTrade, notify |-> FALSE, enriched |-> FALSE]
Calls == [pc : {"idle", "insert", "publish"}, trade : Trades \cup {NoTrade},
          notify : BOOLEAN, enriched : BOOLEAN]

Init ==
    /\ stored = {} /\ meta = {} /\ silent = {}
    /\ call = [p \in Procs |-> Idle]
    /\ owner = [t \in Trades |-> NoProc]
    /\ announced = [t \in Trades |-> 0]
    /\ copies = [t \in Trades |-> 0]
    /\ outTask = [t \in Trades |-> 0]
    /\ enrTask = [t \in Trades |-> "none"]
    /\ outbox = [t \in Trades |-> [k \in Kinds |-> "absent"]]
    /\ payload = [t \in Trades |-> [k \in Kinds |-> "bare"]]
    /\ pos = [d \in Dispatchers |-> 1]
    /\ batch = [d \in Dispatchers |-> {}]
    /\ deliveries = [t \in Trades |-> [k \in Kinds |-> 0]]
    /\ detections = 0 /\ faults = 0

-----------------------------------------------------------------------------
(* ingest_trade_result                                                      *)

\* A detection path builds a TradeEvent: the poller and the reconciler with
\* the market's metadata, the chain listener without.  notify=False is the
\* deep-history import.
Detect(p, t, notify, enriched) ==
    /\ call[p].pc = "idle"
    /\ detections < MaxDetections
    /\ detections' = detections + 1
    /\ call' = [call EXCEPT ![p] = [pc |-> "insert", trade |-> t,
                                    notify |-> notify, enriched |-> enriched]]
    /\ UNCHANGED <<stored, meta, silent, owner, announced, copies, outTask,
                   enrTask, outbox, payload, dispatchVars, faults>>

\* Mutant: `row is None` as the duplicate test, as under DO NOTHING: the
\* DO UPDATE returns a row for a duplicate too.
InsertRowNotNone(p) ==
    /\ call[p].pc = "insert"
    /\ LET t == call[p].trade IN
       /\ stored' = stored \cup {t}
       /\ meta' = IF call[p].enriched THEN meta \cup {t} ELSE meta
       /\ silent' = IF call[p].notify THEN silent ELSE silent \cup {t}
       /\ call' = [call EXCEPT ![p] =
                     IF call[p].notify THEN [@ EXCEPT !.pc = "publish"] ELSE Idle]
    /\ UNCHANGED <<owner, announced, copies, outTask, enrTask, outbox, payload,
                   dispatchVars, detections, faults>>

\* The single INSERT ... ON CONFLICT (dedupe_key) DO UPDATE.  COALESCE only
\* fills holes; (xmax = 0) says whether this call created the row, and only
\* the call that did, with notify on, goes on to the fan-out.
Insert(p) ==
    /\ call[p].pc = "insert"
    /\ LET t == call[p].trade
           first == t \notin stored
       IN /\ stored' = stored \cup {t}
          /\ meta' = IF call[p].enriched THEN meta \cup {t} ELSE meta
          /\ silent' = IF first /\ ~call[p].notify THEN silent \cup {t} ELSE silent
          /\ call' = [call EXCEPT ![p] =
                        IF first /\ call[p].notify THEN [@ EXCEPT !.pc = "publish"]
                        ELSE Idle]
    /\ UNCHANGED <<owner, announced, copies, outTask, enrTask, outbox, payload,
                   dispatchVars, detections, faults>>

\* get_pool or the statement raises before the row exists: the caller logs it.
InsertFails(p) ==
    /\ call[p].pc = "insert"
    /\ call' = [call EXCEPT ![p] = Idle]
    /\ UNCHANGED <<stored, meta, silent, owner, announced, copies, outTask,
                   enrTask, outbox, payload, dispatchVars, detections, faults>>

\* After the awaited publish nothing else is awaited: the probe and copy
\* tasks (for a fill younger than 600 s), the outbox task and, for a row that
\* came without metadata, the enrichment task are all spawned in one go.
FanOut(p, fresh) ==
    /\ call[p].pc = "publish"
    /\ LET t == call[p].trade IN
       /\ announced' = [announced EXCEPT ![t] = @ + 1]
       /\ copies' = IF fresh THEN [copies EXCEPT ![t] = @ + 1] ELSE copies
       /\ outTask' = [outTask EXCEPT ![t] = 1]
       /\ enrTask' = [enrTask EXCEPT ![t] = IF call[p].enriched THEN "complete" ELSE "lookup"]
       /\ owner' = [owner EXCEPT ![t] = p]
    /\ call' = [call EXCEPT ![p] = Idle]
    /\ UNCHANGED <<stored, meta, silent, outbox, payload, dispatchVars,
                   detections, faults>>

\* Redis is away: publish raises out of the call, with or without the message
\* having gone, and no task is ever spawned for this fill.
PublishFails(p, went) ==
    /\ call[p].pc = "publish"
    /\ announced' = IF went THEN [announced EXCEPT ![call[p].trade] = @ + 1] ELSE announced
    /\ call' = [call EXCEPT ![p] = Idle]
    /\ UNCHANGED <<stored, meta, silent, owner, copies, outTask, enrTask,
                   outbox, payload, dispatchVars, detections, faults>>

-----------------------------------------------------------------------------
(* _write_outbox: one INSERT ... ON CONFLICT (trade_id, kind) DO NOTHING per *)
(* channel, in order, with the provisional payload it was spawned with.      *)

\* A row that cannot be inserted is logged and the next channel is tried.
WriteOutbox(t, inserted) ==
    /\ outTask[t] \in Kinds
    /\ LET k == outTask[t] IN
       /\ outbox' = IF inserted /\ outbox[t][k] = "absent"
                    THEN [outbox EXCEPT ![t][k] = "pending"] ELSE outbox
       /\ payload' = IF inserted /\ outbox[t][k] = "absent" /\ enrTask[t] = "complete"
                     THEN [payload EXCEPT ![t][k] = "full"] ELSE payload
       /\ outTask' = [outTask EXCEPT ![t] = IF k = NumKinds THEN 0 ELSE k + 1]
    /\ UNCHANGED <<stored, meta, silent, call, owner, announced, copies, enrTask,
                   dispatchVars, detections, faults>>

-----------------------------------------------------------------------------
(* _enrich: look the token up, complete the row, announce, patch the queue   *)

EnrichRuns(t) == enrTask[t] \in {"lookup", "announce", "patch"}

\* lookup_token_live answered: the UPDATE rewrites the row's metadata.
EnrichRow(t) ==
    /\ enrTask[t] = "lookup"
    /\ meta' = meta \cup {t}
    /\ enrTask' = [enrTask EXCEPT ![t] = "announce"]
    /\ UNCHANGED <<stored, silent, call, owner, announced, copies, outTask,
                   outbox, payload, dispatchVars, detections, faults>>

\* The awaited publish of CH_TRADES_ENRICHED returned.
EnrichAnnounce(t) ==
    /\ enrTask[t] = "announce"
    /\ enrTask' = [enrTask EXCEPT ![t] = "patch"]
    /\ UNCHANGED <<stored, meta, silent, call, owner, announced, copies, outTask,
                   outbox, payload, dispatchVars, detections, faults>>

\* UPDATE notification_outbox SET payload WHERE trade_id AND NOT sent.
EnrichPatch(t) ==
    /\ enrTask[t] = "patch"
    /\ payload' = [payload EXCEPT ![t] =
                     [k \in Kinds |-> IF outbox[t][k] = "pending" THEN "full" ELSE @[k]]]
    /\ enrTask' = [enrTask EXCEPT ![t] = "done"]
    /\ UNCHANGED <<stored, meta, silent, call, owner, announced, copies, outTask,
                   outbox, dispatchVars, detections, faults>>

\* No metadata for this token, or any await raised: the task ends.
EnrichStops(t) ==
    /\ EnrichRuns(t)
    /\ enrTask' = [enrTask EXCEPT ![t] = "none"]
    /\ UNCHANGED <<stored, meta, silent, call, owner, announced, copies, outTask,
                   outbox, payload, dispatchVars, detections, faults>>

\* The process dies: its call and every task it spawned are gone.
CrashProc(p) ==
    /\ faults < MaxFaults
    /\ faults' = faults + 1
    /\ call' = [call EXCEPT ![p] = Idle]
    /\ outTask' = [t \in Trades |-> IF owner[t] = p THEN 0 ELSE outTask[t]]
    /\ enrTask' = [t \in Trades |-> IF owner[t] = p /\ EnrichRuns(t)
                                    THEN "none" ELSE enrTask[t]]
    /\ UNCHANGED <<stored, meta, silent, owner, announced, copies, outbox,
                   payload, dispatchVars, detections>>

-----------------------------------------------------------------------------
(* Dispatcher: run() visits the channels in order, claiming and then sending *)

\* Mutant: the channel index runs past the last channel.
NextPosNoWrap(k) == k + 1

\* Mutant: a channel ends the tick, as an early return in run() would.
NextPosReturns(k) == 1

Pending(k) == {t \in Trades : outbox[t][k] = "pending"}
NextPos(k) == IF k = NumKinds THEN 1 ELSE k + 1

\* Mutant: the rows are marked sent only after they have been sent.
ClaimBySelect(d, S) ==
    /\ batch[d] = {}
    /\ S \subseteq Pending(pos[d])
    /\ IF Cardinality(Pending(pos[d])) <= BatchLimit THEN S = Pending(pos[d])
       ELSE Cardinality(S) = BatchLimit
    /\ batch' = [batch EXCEPT ![d] = S]
    /\ pos' = [pos EXCEPT ![d] = IF S = {} THEN NextPos(@) ELSE @]
    /\ UNCHANGED <<ingestVars, outbox, payload, deliveries, detections, faults>>

\* _claim: UPDATE ... SET sent = TRUE WHERE id IN (the oldest BatchLimit
\* unsent rows of the channel, SKIP LOCKED) RETURNING.  Which rows are the
\* oldest is left open.  With nothing to send the channel is done.
Claim(d, S) ==
    /\ batch[d] = {}
    /\ S \subseteq Pending(pos[d])
    /\ IF Cardinality(Pending(pos[d])) <= BatchLimit THEN S = Pending(pos[d])
       ELSE Cardinality(S) = BatchLimit
    /\ outbox' = [t \in Trades |-> [k \in Kinds |->
                     IF t \in S /\ k = pos[d] THEN "sent" ELSE outbox[t][k]]]
    /\ batch' = [batch EXCEPT ![d] = S]
    /\ pos' = [pos EXCEPT ![d] = IF S = {} THEN NextPos(@) ELSE @]
    /\ UNCHANGED <<ingestVars, payload, deliveries, detections, faults>>

\* The claimed trades S leave the batch; the last one ends the channel.
Handle(d, S) ==
    /\ S # {} /\ S \subseteq batch[d]
    /\ batch' = [batch EXCEPT ![d] = @ \ S]
    /\ pos' = [pos EXCEPT ![d] = IF S = batch[d] THEN NextPos(@) ELSE @]
    /\ UNCHANGED <<ingestVars, outbox, payload, detections, faults>>

\* A push: one trade on its own, or a whale's trades in one summary.
Send(d, S) ==
    /\ Handle(d, S)
    /\ deliveries' = [t \in Trades |-> [k \in Kinds |->
                        IF t \in S /\ k = pos[d] THEN deliveries[t][k] + 1
                        ELSE deliveries[t][k]]]

\* Not sent: no subscription, refused by the recipient's preferences, not on
\* the channel's watch list, or the push service refused it.
Drop(d, S) == Handle(d, S) /\ UNCHANGED deliveries

\* Mutant: a failed tick puts the claimed rows back.
AbortTickRequeues(d) ==
    /\ batch[d] # {}
    /\ outbox' = [t \in Trades |-> [k \in Kinds |->
                     IF t \in batch[d] /\ k = pos[d] THEN "pending" ELSE outbox[t][k]]]
    /\ batch' = [batch EXCEPT ![d] = {}]
    /\ pos' = [pos EXCEPT ![d] = 1]
    /\ UNCHANGED <<ingestVars, payload, deliveries, detections, faults>>

\* An exception ends the tick (run's except): what was claimed and not sent
\* stays claimed, and the next tick starts at the first channel.
AbortTick(d) ==
    /\ batch[d] # {}
    /\ batch' = [batch EXCEPT ![d] = {}]
    /\ pos' = [pos EXCEPT ![d] = 1]
    /\ UNCHANGED <<ingestVars, outbox, payload, deliveries, detections, faults>>

\* The claim itself raises: nothing was taken, the tick starts over.
ClaimFails(d) ==
    /\ batch[d] = {}
    /\ faults < MaxFaults
    /\ faults' = faults + 1
    /\ pos' = [pos EXCEPT ![d] = 1]
    /\ UNCHANGED <<ingestVars, outbox, payload, batch, deliveries, detections>>

\* A restarted dispatcher knows nothing of what it had claimed.
CrashDispatcher(d) ==
    /\ faults < MaxFaults
    /\ faults' = faults + 1
    /\ batch' = [batch EXCEPT ![d] = {}]
    /\ pos' = [pos EXCEPT ![d] = 1]
    /\ UNCHANGED <<ingestVars, outbox, payload, deliveries, detections>>

-----------------------------------------------------------------------------
ProcNext(p) ==
    \/ \E t \in Trades, notify, enriched \in BOOLEAN : Detect(p, t, notify, enriched)
    \/ Insert(p) \/ InsertFails(p)
    \/ \E fresh \in BOOLEAN : FanOut(p, fresh)
    \/ \E went \in BOOLEAN : PublishFails(p, went)
    \/ CrashProc(p)

TaskNext(t) ==
    \/ \E inserted \in BOOLEAN : WriteOutbox(t, inserted)
    \/ EnrichRow(t) \/ EnrichAnnounce(t) \/ EnrichPatch(t) \/ EnrichStops(t)

\* One iteration step of a running dispatcher.
Tick(d) ==
    \E S \in SUBSET Trades : Claim(d, S) \/ Send(d, S) \/ Drop(d, S)

DispatcherNext(d) == Tick(d) \/ AbortTick(d) \/ ClaimFails(d) \/ CrashDispatcher(d)

Next ==
    \/ \E p \in Procs : ProcNext(p)
    \/ \E t \in Trades : TaskNext(t)
    \/ \E d \in Dispatchers : DispatcherNext(d)

Spec == Init /\ [][Next]_vars

\* Fairness: workers/all.py restarts a loop that ends and run() ticks every
\* second, so a dispatcher with something to claim or send eventually does it.
FairSpec == Spec /\ \A d \in Dispatchers : WF_vars(Tick(d))

-----------------------------------------------------------------------------
(* The invariant behind the properties, in three parts                      *)

\* A process about to publish is the only one to have created the row, and
\* nothing has been fanned out for it.
PublishingIsFirst ==
    \A p \in Procs : call[p].pc = "publish" =>
        LET t == call[p].trade IN
        /\ t \in stored /\ t \notin silent
        /\ announced[t] = 0 /\ copies[t] = 0 /\ outTask[t] = 0
        /\ \A q \in Procs \ {p} : call[q].pc = "publish" => call[q].trade # t

\* Nothing is fanned out for a fill without a row, or one history saw first.
FanOutNeedsLiveRow ==
    \A t \in Trades : t \notin stored \/ t \in silent =>
        /\ announced[t] = 0 /\ copies[t] = 0 /\ outTask[t] = 0 /\ enrTask[t] = "none"
        /\ \A k \in Kinds : outbox[t][k] = "absent"

\* A claimed trade's row is sent, has not been pushed, and is in the batch of
\* one dispatcher; a row that is not sent has never been pushed.
BatchesAreClaims ==
    /\ \A d \in Dispatchers : \A t \in batch[d] :
          /\ outbox[t][pos[d]] = "sent" /\ deliveries[t][pos[d]] = 0
          /\ \A e \in Dispatchers \ {d} : pos[e] = pos[d] => t \notin batch[e]
    /\ \A t \in Trades, k \in Kinds : outbox[t][k] # "sent" => deliveries[t][k] = 0

-----------------------------------------------------------------------------
(* Properties                                                               *)

TypeOK ==
    /\ stored \subseteq Trades /\ meta \subseteq stored /\ silent \subseteq stored
    /\ call \in [Procs -> Calls]
    /\ \A p \in Procs : call[p].pc # "idle" => call[p].trade \in Trades
    /\ owner \in [Trades -> Procs \cup {NoProc}]
    /\ announced \in [Trades -> Nat] /\ copies \in [Trades -> Nat]
    /\ outTask \in [Trades -> 0..NumKinds]
    /\ enrTask \in [Trades -> {"none", "complete", "lookup", "announce", "patch", "done"}]
    /\ outbox \in [Trades -> [Kinds -> {"absent", "pending", "sent"}]]
    /\ payload \in [Trades -> [Kinds -> {"bare", "full"}]]
    /\ pos \in [Dispatchers -> Kinds] /\ batch \in [Dispatchers -> SUBSET Trades]
    /\ deliveries \in [Trades -> [Kinds -> Nat]]
    /\ detections \in Nat /\ faults \in Nat

\* However many processes detect a fill, in whatever order, and whoever
\* crashes, it is announced and handed to the copy executor at most once:
\* the (xmax = 0) test of ingest_trade_result.
FanOutOnce ==
    \A t \in Trades : announced[t] <= 1 /\ copies[t] <= 1

\* A fill that history import saw first is never announced, copied or
\* notified, even when a live path detects it afterwards.
HistoryIsSilent ==
    \A t \in silent : /\ announced[t] = 0 /\ copies[t] = 0
                      /\ \A k \in Kinds : outbox[t][k] = "absent"

\* dispatcher.py: "at-most-once delivery, so replays/restarts can never
\* double-push".
DeliveredAtMostOnce ==
    \A t \in Trades, k \in Kinds : deliveries[t][k] <= 1

\* The notification path keeps the promise of NoticeDelivery.
Stage(t, k) ==
    CASE outbox[t][k] = "absent" -> "absent"
      [] outbox[t][k] = "pending" -> "queued"
      [] OTHER -> IF deliveries[t][k] > 0 THEN "delivered"
                  ELSE IF \E d \in Dispatchers : pos[d] = k /\ t \in batch[d]
                       THEN "taken" ELSE "lost"

Promise == INSTANCE NoticeDelivery WITH
             Notices <- Trades \X Kinds,
             note <- [n \in Trades \X Kinds |-> Stage(n[1], n[2])],
             pushes <- [n \in Trades \X Kinds |-> deliveries[n[1]][n[2]]]

KeepsPromise == Promise!NoticeSpec

\* Under FairSpec no notice waits in the queue for ever: every channel is
\* drained although one tick visits them in turn and may be cut short.
QueueDrains ==
    \A t \in Trades, k \in Kinds :
        outbox[t][k] = "pending" ~> outbox[t][k] = "sent"
=============================================================================
