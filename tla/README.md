# TLA+ models of SportsAssets

SportsAssets watches sports traders on Polymarket, mirrors what they trade and pushes each fill to
subscribers; around that core stand a live executor, a shadow desk and a small real-money
*calibration* instrument. This directory holds TLA+ modules for the parts of it whose correctness
depends on interleavings, crashes and lost answers, the TLC configurations that check them on small
instances, and TLAPS proofs of the properties that matter most, for every value of the constants.
Paths below are relative to `src/backend/sportsassets/` unless they start with `src/`.

    tlc -workers 2 -config TradePipeline_safety.cfg MCTradePipeline
    tlapm TradePipeline_proofs.tla

`PROJECT.json` maps every definition to the lines it models and lists runs, mutants, findings,
hazards and theorems.

## Inventory

| Component | State it keeps | Operations | What makes it hard | What makes it correct |
|---|---|---|---|---|
| Fill ingestion (`ingestion/pipeline.py`) | tables `trades`, `notification_outbox`; spawned tasks in memory | `ingest_trade_result`, `_write_outbox`, `_enrich`, `backfill_unenriched` | four kinds of process detect one fill; everything after the INSERT lives in memory | a fill is fanned out once, history import never is |
| Dispatcher (`notifications/dispatcher.py`) | `notification_outbox.sent`; burst history in memory | `_claim`, push or summarise, health monitor | two dispatchers, aborted ticks, restarts | no push twice, no channel starved |
| Calibration budget (`calibration_store.py`, `calibration.py`, migration 065) | `calibration_sessions`, `calibration_lifecycles` | `reserve`, `advance`, `release`, `stop`, `resume`, `book_cash` | several API instances, statements of different transactions, late venue readings | one open lifecycle, cash always covered, a total that is the sum of its marks, and what can make it less |
| Calibration send (`calibration_execute.py`, migration 066) | `calibration_send_attempts` | `claim_send`, `record_pre_image`, `mark_sent`, `submit`, `resolve_attempt`, `abandon_attempt` | crashes at any step, lost answers, retries, two processes | one send per approval, on record before it happens |
| Chain listener (`ingestion/chain.py`, `claim_registry.py`, the emission step of `s1_emitter.py`) | block cursor in `ingestion_state`, `trades`; sweep end, seen transactions and claims in memory | socket handler, catch-up, sweep, emitter | three tasks move one cursor and two write the same fill under different keys; restarts forget the claims | one row per fill, a cursor that only rises, sweeps without a hole, a dropped log is found |
| Poller, reconciler, s1 emitter, history import | page positions | call `ingest_trade` | paging, decoding | same dedupe key for the same fill |
| Data-API throttle (`ratelimit.py`) | two lanes of waiters, one pump task | `acquire`, cancel, pump | cancellation, priority, a pump that dies | the rate, the starvation bound, nobody waits for ever |
| Live executor, exits (`live_executor.py`: `classify_exit`, `mirror_exit`, `_reap_stale_exiting`; `workers/whale_exits.py`, `workers/copy_sweep.py`) | `live_orders` rows, `copy_exit_applied`, the position lane's snapshot, the venue's position | claim, size, sell, book, release, reap | two lanes and a sweep see one exit; the sale runs in a thread nothing cancels; answers are lost | one call per row, a row that says what the venue holds, never sold past the whale, no claim for ever |
| Live executor, entries (`live_executor.py`) | `live_orders` | copy, add, rest, manual orders, reapers | orders whose answer was lost, restarts, partial fills | one live order per asset claim, no fill without a row |
| Mirror worker (`workers/mirror_live.py`) | `live_orders`, snapshots | reconcile a book towards a target | as the executor, over a whole book | never past the target |
| Execution gate, live control (`execution_gate.py`, `bettor_live_control.py`) | `ingestion_state` rows | `reserve`, `disarm`, `read_budget` | a reservation that times out after its commit | requests sent never exceed the allowance |
| Shadow desk (`bettor_desk.py`, `bettor_desk_loop.py`, `bettor_desk_accounts.py`) | cursor, cash, orders, fills, legs in one transaction; a book in memory; an advisory lock | acquire, restore, cycle, recover, pause, correct | overlapping instances, a lock that outlives its process, ambiguous commits, late rows | the durable book is the evidence up to the durable cursor, each trade once; no commit undoes another |
| Live loop, shadow and experiment stores | append-only journals | record, settle | volume rather than order | a row is never rewritten |
| Observation collector and scheduler (`obs/`) | slots, coverage | plan, observe, skip | shared slots | every planned slot is accounted for |
| Pre-mapping, venue adapters (`premap.py`, `pmus.py`, `pmx.py`) | caches | match names to contracts, HTTP | string data | out of reach of a model checker |
| Analytics and roster | derived tables | replay, rank | floating point | a rebuild gives the same rows |
| API, SSE, frontend, edge engine, broker, research | see `PROJECT.json` | | | |

How they interact: the detecting processes call `ingest_trade_result`, which commits a row, publishes
on Redis and spawns tasks (the rows are also what the shadow desk reads, by id); the tasks write the outbox, hand the fill to the executor and complete
the row's metadata; the dispatcher polls the outbox. A fill of the whale that closes what we copied
reaches `mirror_exit` as a trade (trade lane, replayed by the copy sweep) and as a smaller holding (position
lane). All data-API reads of the process go through the throttle. `workers/all.py` runs all loops as supervised
asyncio tasks in one process, `docker-compose` runs them separately, so a second dispatcher or
poller is an ordinary deployment. The calibration endpoints of `api/app.py` are the approver and the
operator of the budget; a submitting process drives `guarded_submit`. All shared state is in
PostgreSQL, each statement its own READ COMMITTED transaction unless the code opens one.

## Modules

| Module | Models | State and actions |
|---|---|---|
| `NoticeDelivery` | the promise of the notification path, without workers, tables or tasks | a notice is queued, taken, then delivered or lost, each once |
| `TradePipeline` | `pipeline.py` and `dispatcher.py` over their tables | `stored`, `meta`, `outbox`, `payload` are rows; `call` is the `ingest_trade_result` a process is in; `outTask` and `enrTask` the spawned tasks; `pos` and `batch` the dispatcher's channel and what it has claimed; `announced`, `copies`, `deliveries`, `silent` are history |
| `CalibrationStore` | `calibration_store.py` with the arithmetic of `calibration.py` | `spent`, `stopped`, `life` are rows; `req` and `booking` say where a request or a booking transaction is and what it has read; `order` and `paid` are the venue; `crossed` is history |
| `CalibrationSend` | the send attempts and `guarded_submit`; extends `CalibrationStore` | `attempt` is the table, `worker` the process, `sends` counts orders sent; `Send` takes the place of `VenueOpens` |
| `ChainListener` | `chain.py` with `claim_registry.py` and `s1_emitter._emit_group` | `cursor`, `chainRows`, `s1Rows` are rows; `phase`, `todo`, `upto`, `current`, `at` are the run task and the sweep task at their awaits; `seen`, `claim`, `sweepEnd` the memory they share with the emitter; `looked`, `raisedOn`, `since` are history |
| `MirrorExit` | the exit half of `live_executor.py` and the position lane of `whale_exits.py` | `status`, `shares`, `orig` are the row; `held`, `others` the venue; `his`, `shown`, `prev` what the whale holds and what the lanes know of it; `at` and `job` each call of `mirror_exit` and what it has read, before its claim and after it; `overlapped`, `unheard`, `misread` are history |
| `Throttle` | `ratelimit.py` | `lane` the two deques, `state` what became of each caller's future, `pump` the task, `ahead` the clock `_next`; `gap`, `passed`, `front`, `quietly` are history |
| `DeskLoop` | `bettor_desk_loop.py` | `row`, `paused`, `durable` are rows; `owner` the advisory lock; `pc` and `mem` each instance and its desk; `pending` what a lost session may still commit; `behind`, `seed` are history |
| `MC*` | instances for TLC and their symmetry sets | |
| `*_proofs` | theorems and their proofs | |
| `FiniteData` | lemmas the proofs share: induction over finite sets and segments, sums over finite sets | |

Every `await` on the database, on Redis or on the venue ends an action; what a process read before it
is kept in its own record (`call`, `req`, `worker`, `booking`) and may be stale when used. A statement
is atomic and its unique indexes decide: `ON CONFLICT` in `Insert` and `WriteOutbox`, the partial
index over open lifecycles in `InsertLifecycle` and `Advance`, `UNIQUE (client_order_id)` in
`ClaimInsert`, `WHERE status='filled'` in `MirrorExit!Claim`, `GREATEST` in `AdvanceCursor`. In
`Throttle` an action is what the event loop runs between two awaits. `Held` is the row lock of a `book_cash` transaction.

What each model leaves out, on purpose:

- `TradePipeline`. One recipient per channel (web push really goes to several users, each judged on
  its own); a summary push is `Send` of a set of trades; the payload read at the claim is not
  followed; `_shadow_observe` and `_mirror_wake` never raise and change none of this state. A
  publish that fails loses the fan-out of its fill for good: no later detection is the first. The code
  accepts that (the row is in the feed), so it is an action and not a property.
- `CalibrationStore`. Money in units; a ticket refused for its own fields, its venue or its environment
  writes nothing and is not enumerated. `record_spend` is superseded and has no caller.
  `load`'s `LIMIT 500` is not reached. `SUBMITTED` stands for the exit states too, which every check
  treats alike. `advance` has no guard on the current state, so `Moves` is the discipline of its
  callers ("Move a lifecycle forward"); nothing in `src/` calls `advance`, `book_cash` or
  `guarded_submit` outside tests yet. A release is taken to be attested truthfully (`Reconciled`),
  which is what `lifecycle_reconciled` computes. A request that read the row before a stop is still
  admitted after it.
- `CalibrationSend`. The budget read in a claim can only refuse, so it is a free choice; `claim_send`
  does not compare the session it was given with the lifecycle's owner, and neither does the model. `ResolveByHand`
  is a person who looks at the venue after the process that made the attempt has ended. The constant
  `ReleaseUnsent` says whether the operator also releases approvals nobody tried to send.
- `ChainListener`. The poller, which carries in the end what this path loses; reorganisations; ABI
  decoding. One roster wallet per transaction, and a roster that only grows. `CONFIRM_DEPTH` and the debounce
  only delay. A failed `eth_getLogs` of the sweep changes nothing and is a stutter. The reads of the
  cursor and of the tip by the sweep, and by the catch-up with its taking of the lock, are one action each. The seen set is never pruned (512 in the code) and the claims never
  capped (16384): both need more transactions in flight than an instance has.
- `MirrorExit`. One position: one row, one holding of his. The entry is over and he does not buy again;
  rows of the mirror worker, the settlement sweep and the `MIN_SHRINK` band of the diff are left out. The read of the
  row after the claim and the read of the venue are one action, `Size`; a read of the row that raises or returns
  nothing leaves the call with the figures it read before its claim, which is the second disjunct of `Size`. The
  shares of other rows on the market do not move; a venue that cannot be read makes the reaper do nothing.
- `Throttle`. One event loop, as in production. What a caller does with its slot is not followed, so
  `polite_get`'s back-off and its retries are callers that come back when they like. A pump that is cancelled before its
  first step never enters its `try`, so nothing fails its waiters although the docstring says a pump
  never dies quietly; `DieUnstarted` is that step, `quietly` exempts it, and the next arrival repairs it.
- `DeskLoop`. What the desk decides and how it matches a print: a book is how often each trade was stepped into it.
  The account row (created once under the lock), the epoch rows and the desk's `last_price`, which no restart restores.
  The restore reads several statements of no common transaction; under the lock nobody writes between them, so it is one
  action. A row that becomes readable behind a cursor (its id was drawn early and committed late, or enrichment
  completed it after the cursor had passed) is never read, although the comment at `bettor_desk_loop.py:554-557` says
  that a serial id cannot arrive out of order; `behind` names such rows and the properties except them. A restart before the first
  commit starts again from the head of the feed; `seed` is that head. A loop whose connection is lost
  reports a pause for ever (`cut`), and one whose startup raised sleeps on the lock (`halted`): `Unserved`.
  `apply_corrections` commits its run row before the corrections, so a crash in between makes every later start
  conclude that they were applied; they touch nothing of the book and are left out.

## Runs

State counts are distinct states.

| Run | Question | Bounds and why they are enough |
|---|---|---|
| `TradePipeline_safety` | is a fill fanned out once, is history silent, is nothing pushed twice, does every channel drain, is `NoticeDelivery` implemented | one fill, because fills share nothing but a batch, and that batches of any size keep the promise is proved; two processes and three detections, so that a first, a duplicate and a history import meet in every order; two dispatchers, two channels, two faults; no symmetry, because of the liveness; 460,852 states |
| `CalibrationStore_safety` | one open lifecycle, covered cash, a total that is the sum of its marks and what may lower it, bounded overshoot | two sessions, because the one-open rule spans them and a booking of one must not touch the other; two tickets of one or two units under a limit of one; two approvers, so that two requests read "none open" before either inserts; two bookers, so that bookings cross; 2,381,422 states |
| `CalibrationStore_falls` (violation) | does the total never fall | one session, two of its tickets, two bookers |
| `CalibrationStore_ceiling` (violation) | does the ceiling hold | one session, two tickets, one request |
| `CalibrationSend_safety` | one send per approval, recorded, one unresolved attempt, one order at the venue | two processes over two tickets: a claim needs one rival on the same ticket and one on another; 3.2 million states |
| `CalibrationSend_unresolved` (violation) | as above with `ReleaseUnsent` | the same instance |
| `ChainListener_safety` | one row per fill, a cursor that only rises, contiguous sweeps, a dropped log found | two fills, so that one can be handled while the other is dropped, in one block or in two; three blocks, one of confirmation and sweeps of one block (`MaxSpan = 1`), so that within three blocks the sweep can be contiguous, clamped to the tip and left behind; longer spans are covered for safety by `SweepsAreContiguous`, which is proved for any, and for liveness not at all; one fault anywhere; 712,573 states |
| `ChainListener_raised` (violation) | does an entry the sweep's handler raised on stay ahead of it | the same instance |
| `MirrorExit_safety` | one call on the row, a row that agrees with the venue, never sold past the whale, no claim for ever | one trade task and the position lane, which are the two that meet; two trades and any merges out of three shares copied by two, so that a trim falls below the floor, above it, and both together are a full exit; a market nobody else holds and one with a share of others; a row read again or not after each claim; one restart; 2,170,322 states |
| `MirrorExit_doublesell` (violation) | is a retry harmless when the reaper is counted in | the same instance |
| `Throttle_safety` | the rate, the starvation bound, no slot wasted, nobody stranded, every wait ends | two callers per lane, so that both have an order; two priority slots in a row, which two callers that come back exceed; two ticks between slots; one pump that dies; 245,802 states |
| `DeskLoop_safety` | is the durable book what its cursor says, does a commit ever undo another, does intake go on | two instances, so that an old one can outlive its lock while a new one works; three trades read two at a time, so that a batch is full and one trade is left; three faults: a cycle that fails, a connection lost after it, and a crash of the next instance; 588,854 states |

`CHECK_DEADLOCK` is off in the two runs of `MirrorExit` only, where the system really stops: the whale is out and
nothing of ours is left. Elsewhere a dispatcher always has a tick, an operator can always stop or resume a
session, a socket can always be lost or read and a caller can always come back. Bounds that are not in the code:
`MaxDetections` (how often a fill is detected), `MaxFaults` (crashes, raising claims and handlers, failed cycles, lost
connections), `MaxId` (serial ids drawn), `MaxBlock` (blocks mined), `MaxOthers` (shares of others), `MaxCrashes` (restarts) and `MaxKills` (pumps that end
early); `Bought` and `Copied` are the sizes of one position. `ConfirmBlocks`, `MaxSpan`, `MinExit`, `FullExit`, `Burst`,
`Interval` and `Batch` are the code's parameters, small where they count. Tickets, submitters,
and in the budget's own runs sessions, approvers and bookers, are interchangeable and declared symmetric where a run checks no
liveness.

What the runs show:

- `FanOutOnce`, `HistoryIsSilent`: the `(xmax = 0)` test of the upsert is the only gate and it is
  enough, whoever crashes. With `row is not None` in its place both fail.
- `DeliveredAtMostOnce`, `KeepsPromise`: marking rows sent *before* sending is what makes it
  at-most-once; sending first, or putting an aborted tick's rows back, breaks one or the other.
- `QueueDrains`: one tick visits the channels in turn inside one `try`; with faults bounded, and
  `AbortTick` free to cut any batch short, every queued row is still claimed. It says nothing of a channel that
  raises at every tick for ever, which the code lets starve the channels after it.
- `OneOpenLifecycle`, `CashIsCovered`: they rest on the index, which decides between two approvals that both read "none
  open", and on the release attestation.
- `SpentIsBooked`, `OnlyCrossingLowers`: a booking takes `FOR UPDATE` on its own lifecycle and not on the session, so
  bookings of one lifecycle are serial and two of one session are not. The UPDATE that waited for the other's commit
  keeps the snapshot its sub-select began with (READ COMMITTED), so it writes a sum without the other's mark. `crossed`
  names the sessions to which that happened: their total is at most the sum of their marks and may fall
  (`SpentNeverFalls` is refuted); every other total is that sum exactly, and nothing else lowers one. A later booking
  that nothing crosses writes the full sum again.
- `OvershootBounded`: `load` reads the session and the lifecycles in two statements, so a request can
  miss both the spend and the reserve of a ticket that was booked and released in between. The
  ceiling can be passed (`CeilingHolds` is refuted), by at most one ticket per request in flight. A crossed session is
  excepted, since a total that lacks a mark admits more.
- `OneSendPerApproval`, `SendIsRecorded`, `OneOrderAtVenue`, `OneUnresolvedAttempt`: they rest on
  the unique claim and on writing `SENT_OUTCOME_UNKNOWN` before the network call.
- `OneRowPerFill`: in memory the claim keeps the receipt path and the emitter apart; across a restart, which
  forgets it, each path's probe of the other's rows does. Dropping the second look at the claim after the
  receipt breaks it.
- `SweepLeavesNoHole`, `SweepRepairs`: the sweep follows its own last end and not the cursor, which the socket
  moves past blocks it dropped logs of; opening after the cursor leaves a hole. The sweep gives up, and says so,
  when it is more than its span behind.
- `OneClaimant`, `LedgerAgreesWithVenue`: the conditional UPDATE is the only lock. The row stays true
  through partial fills because what is booked is what the venue sold, and through full exits on a shared market
  because the claim is sized from the venue's position less the other rows. A call whose read after the claim failed
  sizes on what it read before: while the shares are ours alone the venue's position still bounds the sale, but on a market others hold it may sell
  theirs (`misread`).
- `NotSoldPastTheWhale`: the two lanes are told of one exit twice and the sweep offers it a third time. The quantity is
  computed from what was bought and not from what is left, so a repetition sells nothing; a slice of what is left
  compounds. The base is the same before and after the claim, so a stale one does no harm; stale shares do, on a market others hold.
- `NoClaimForever`: a claim is outside every handler, so a cancelled or dead call leaves the row in `exiting`;
  the reaper alone brings it back.
- `SlotsApart`, `ChargedIsServed`, `StarvationBound`: picking after the sleep and skipping done futures is what
  keeps a slot from a waiter that is gone; the burst counter bounds overtaking at `Burst` for each normal caller in
  front and for oneself, whoever times out in between.
- `BookIsItsCursor`, `NothingIsUndone`: one lock, one connection for lock and transaction, and a desk that is rebuilt
  together with its cursor after any failed cycle. Rolling back the cursor alone books a trade twice; a loop in every
  instance, without the lock, overwrites what the other committed.
- `IntakeResumes`: `LIMIT` counts readable rows only, so rows without metadata cannot fill a batch for ever.
- `WaitEnds`: under an endless stream of priority callers a normal one is still served.

Disagreements with the text of the repository, each shown by a violation run (`findings` in
`PROJECT.json`): two bookings of one session cross and its total falls (`CalibrationStore_falls`); the ceiling is not
exact under a stale read (`CalibrationStore_ceiling`); two claims can both read "none outstanding" once an
unclaimed approval was released in between (`CalibrationSend_unresolved`); a log whose handler raised is
marked as seen, so the next sweep skips it and moves past it (`ChainListener_raised`); the reaper of exits judges the
age of a claim by the age of the entry, so it releases a row under the call that is selling it and the other lane
sells again (`MirrorExit_doublesell`).

Four more are in the models without a run that asserts the text; the runs are spent on those that move money or lose a fill
for good:

- `ingestion/pipeline.py:606-607` refreshes the queued payload "so the push text carries market names when enrichment beats
  the dispatcher". The UPDATE at 608-613 may also run before the other task has written the rows, and then it
  finds none: the notice goes out with its bare text (`EnrichPatch` before `WriteOutbox`).
- `live_executor.py:1230-1233` says that sizing uses the figures of the claim, "never the stale read"; the handler at
  1254-1255 keeps the stale read (`Size`, `misread`).
- `ratelimit.py:97-102` says that the pump cannot die quietly; one that is cancelled before its first step does
  (`DieUnstarted`, `quietly`), until the next arrival.
- `bettor_desk_loop.py:554-557` says that a serial id cannot arrive out of order; an id drawn early can commit
  late, and without `behind` the model of the desk violates `BookIsItsCursor`.

## Fairness

Every `FairSpec` assumes as little as its liveness property needs; nothing is assumed of detecting processes,
callers, faults or the whale.

- `TradePipeline`: `WF_vars(Tick(d))` for each dispatcher. `Dispatcher.run` ticks every second and survives any
  exception, and `workers/all.py` restarts a loop that ends after five seconds, so a dispatcher that can claim or send
  eventually does. `AbortTick` needs no fairness to be allowed for ever.
- `ChainListener`: `WF_vars(RunStep)` and `SF_vars(SweepStep)`. Both tasks are loops that never end. The sweep
  is strongly fair because what disables it comes and goes: it waits for the lock a catch-up holds and skips while the socket is down,
  and a socket that reconnects for ever lets it through again and again on its own timer.
- `MirrorExit`: `WF_vars(ReaperStep)`, the reaper being called in every pass of a supervised loop, and
  `WF_vars(RowAges)`, which is time.
- `Throttle`: `WF_vars(PumpStep)`, the event loop running a ready task, and `WF_vars(Tick)`, time.
- `DeskLoop`: `WF_vars(Work(i))` for each instance, whose loop goes on after every sleep, and `WF_vars(SessionEnds)`:
  the server ends the session of a client that is gone. Nothing is assumed of deploys, the operator or the feed.

## Proofs

The theorems hold for any sets of trades, processes, dispatchers, channels, sessions, tickets,
approvers, bookers, submitters, logs, instances and callers, and for any sizes, spans, thresholds and bursts, under the named assumptions of
the modules: the none-values are outside their sets, the limits and bounds are natural numbers, there is a channel and
a batch holds a row. Three hypotheses are stated in the theorems that need them: finitely many API instances (`Approvers`),
finitely many callers of the normal lane (`Others`), and an operator who releases only what was sent or given up
(`~ReleaseUnsent`; the run `CalibrationSend_unresolved` shows that it is needed).

**FiniteData.** A sum over a set of lifecycles and what is left of a lane are recursive functions, and the library's
induction theorems take an operator as a parameter, which the provers cannot instantiate. So what is to be proved is
stated as a *set*: `SubsetInduction` (a set of subsets of S that contains a subset whenever it contains it short of each
element contains them all) and `SegmentInduction`, both by a least counterexample in the well-founded order of strict
inclusion (`WFMin`). From them follow that the recursive equation has one solution, that a sum of naturals is a natural, that
it changes by what one term changes, that it is monotone, and that n terms of at most k sum to at most n * k.

**TradePipeline_proofs.** `FanOutOnce` is not inductive: a state in which a second process is about to
publish satisfies it. `PublishingIsFirst` adds that a process about to publish is alone and that nothing went
out yet; `FanOutNeedsLiveRow` that nothing goes out for a row that does not exist or that history created;
`BatchesAreClaims` that a claimed row is sent, not pushed, and in one batch. `Invariance` proves the conjunction
with one lemma per group of actions (processes, tasks, claim, handle, forget); `TypeCorrect`,
`FansOutOnce`, `HistoryStaysSilent` and `NeverDoublePushed` are read off. `ImplementsPromise` maps a
notice to `Stage` and shows that each action is one of the four moves of `NoticeDelivery`, or a stutter.

**CalibrationStore_proofs.** `StoreInvariance` carries types, a table with finitely many rows (`TableOfRows`), the one open
lifecycle, the cover of cash and the row locks of booking transactions; `AtMostOneOpen` and `CashAlwaysCovered` follow.
`SpentIsBooked` is not inductive, since it says nothing of a sum that is computed and not yet written: `SumsAreOfMarks`
adds that such a sum is at most the booked total of its own row plus the marks of the others *as they are now*, and that much
exactly unless another booking of the session has committed since. A commit under another's sum is what puts a session into
`crossed`, so the equality is lost only there, for any number of bookers. `TotalIsBooked` and `FallsOnlyIfCrossed` follow from
`TotalsInvariance`. `OvershootBounded` is not
inductive either: a request that was admitted and has not inserted yet will add to what is at stake. `RoomIn` bounds what is
at stake and what each request in flight may still add (`InFlight`) together, by the ceiling and one ticket per
approver, with `CostsBounded` (nobody pays or books more than a lifecycle costs); an insert moves its cost from one to the
other, and a stale read is only admitted if its cost fitted the ceiling when it read the session. It is claimed of the sessions that were
never crossed. `OvershootIsBounded` follows.

**CalibrationSend_proofs.** In `SendInvariance` a process past its claim owns its ticket and the attempt's state says how
far it got; hence `SentAtMostOnce` and `SentIsOnRecord`. `CoverInvariance` adds, under the assumption that
the operator does not release unclaimed approvals (`~ReleaseUnsent`), that an unresolved attempt and a claim
about to be inserted keep their lifecycle open; with one open lifecycle that gives `UnresolvedBlocksAll` and
`OneLiveOrder`. The violation run shows that the assumption is needed. `SendImplementsStore` proves that under it every step
of the guarded send is a step of `CalibrationStore` or leaves the budget alone: a `Send` is the budget's `VenueOpens`, because
its attempt is unresolved, hence covered by an open lifecycle, and its ticket was never sent, hence has no order
(`OrdersAreSends`). `BudgetUnderSend` carries the budget's theorems over to the composed system.

**ChainListener_proofs.** `OneRowPerFill` is not inductive: each path looks for the other's row before it
writes, and the row may come in between. `Claims` adds that from its probe to its write a path holds the
claim and that the other path does not take it away, that the run task and the sweep never handle one
log together and that a claim is on a transaction marked seen. `Coverage` says what the open sweep has still
to do: every log of its span was looked at or is in its list. `NoSecondRow`, `SweepsAreContiguous`, `CursorOnlyRises` and
`TypeCorrect` follow from `Invariance`.

**MirrorExit_proofs.** That the row agrees with the venue says nothing while the row is exiting. `Accounts` adds what
a call between its sizing and its booking knows (the shares it read are still the row's, nothing else sells) and
that the sale it waits for is all that separates row and venue; it rests on `OneClaimant` and on `GoneStaysGone`,
since nothing buys. A call may size on what it read before its claim: `Reads` adds that such a reading is no less than the
row is now and that its base is what we bought. So a stale reading, cut to the venue's position, is the row wherever nobody else holds
the market, and `misread` excepts the rest. `OneCallAtWork`, `LedgerIsTrue` and `TypeCorrect` follow. `NotSoldPastTheWhale` is inequalities of
products: `FollowInv` adds that what is computed from is what we bought (`BaseIsCopied`, through every partial
booking), that what a call read of him is no less than he holds now (`Cumulative`: trades retire at most what he
sold, and he only sells), and that a sale under way, executed in full, leaves our fraction unless he is out (`SaleFits`).
`RoundedSale` is the arithmetic: flooring to half a share up, from any older and smaller base, gives away half a share at
most; `FullIsOut` that a full exit of part of his position is one of all of it. `NeverPastTheWhale` follows.

**Throttle_proofs.** `SlotsApart` needs what the pump's clock tells of the last slot (`ClockTells`); `NoneStranded` is
nearly inductive. The lanes are filtered by `Keep`, a recursive function over the lane; `KeepKeeps` says what it returns (the kept
elements, each once, in their order), by `SegmentInduction`. So `LanesFit` says that a lane holds the futures of its own
callers, each once, and every waiter, and `EachChargeIsServed` and `TypesHold` follow: the head of a lane is a waiter.
`StarvationBound` is not inductive, since how many slots may still pass a caller depends on its place and on the burst under
way: `WaitsItsTurn` bounds what has passed it by a burst for each caller that was in front and is not any more, plus the
burst that is running.
`StarvationIsBounded` follows for any burst, any priority callers and finitely many normal ones.

**DeskLoop_proofs.** That the durable book is sound says nothing of the desk that is about to be written over it.
`LockIsHeld` says that one instance at most works, `WorkExtends` that its desk is sound and extends the durable one
unless a failed cycle marked it, `GhostExtends` the same of what a lost session may still commit, and `FallsBack`
where a desk without a state row goes back to. `BookAlwaysItsCursor`, `CommitsOnlyAdd` and `TypeCorrect` follow.

Every safety and action property of the passing runs is a theorem. Only model-checked are the liveness properties
`QueueDrains`, `SweepRepairs`, `NoClaimForever`, `WaitEnds` and `IntakeResumes`: they rest on fairness, hence on `ENABLED`,
which the prover does not treat. The five violation runs are counterexamples and have no theorem.

## Plan

Done, in this order: `NoticeDelivery`, `TradePipeline`, `CalibrationStore`, `CalibrationSend`, `ChainListener`, `MirrorExit`,
`Throttle`, `DeskLoop`, and their proofs.

Next, by how much depends on them:

1. `LiveOrder` (the entry half of `live_executor.py`): the life of one copy order from its `submitting` row through
   IOC, resting bid and reaper, with lost answers; composed with `MirrorExit` where an add meets an exit.
2. `LiveControl` (`bettor_live_control.py`): reservations under a row lock with timeouts; requests sent are at
   most units reserved, units reserved at most the cap. To be proved for any number of callers.
3. `VenuePace` (`venue_pace.py`): the two-lane rule of `Throttle` for threads under a condition variable, with interrupted
   claimants and the penalty after a 429, shown to keep the throttle's promises.
4. `MetadataRepair` (`backfill_unenriched`) and `BurstCollapse` (`notifications/collapse.py`) to complete the first two components,
   the latter as a function checked against a reference definition.

## Not modelled

The mirror worker is larger than the rest of the order code together and would repeat `LiveOrder`'s shape. Venue
adapters, pre-mapping, formatting and senders are string data and network I/O. Analytics and roster are replays with
floating-point reports. The journals of the live loop and of the experiments are append-only
and no order depends on them. Edge engine, broker, frontend, research and operations scripts share
no state with what is modelled. `PROJECT.json` lists each with its reason.
