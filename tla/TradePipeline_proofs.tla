------------------------ MODULE TradePipeline_proofs ------------------------
(***************************************************************************)
(* Proofs about TradePipeline for every set of trades, processes and       *)
(* dispatchers and every number of channels, batch limit and bound.        *)
(*                                                                         *)
(* The inductive invariant is Inv: types, and the three facts that make    *)
(* fan-out and delivery happen once.  Each action's proof says which of    *)
(* them it can disturb.                                                    *)
(***************************************************************************)
EXTENDS TradePipeline, TLAPS

Inv == TypeOK /\ PublishingIsFirst /\ FanOutNeedsLiveRow /\ FanOutOnce /\ BatchesAreClaims
       /\ DeliveredAtMostOnce

USE KindsAssumption, NoneAssumption, BoundsAssumption

\* The initial state satisfies the invariant.
LEMMA InitInv == Init => Inv
  BY DEF Init, Inv, TypeOK, PublishingIsFirst, FanOutNeedsLiveRow, FanOutOnce,
         BatchesAreClaims, DeliveredAtMostOnce, Idle, Calls, Kinds

\* The next channel is a channel: run() wraps from the last to the first.
LEMMA NextPosIsKind == ASSUME NEW k \in Kinds PROVE NextPos(k) \in Kinds
  BY DEF NextPos, Kinds

\* What an ingest step or a crash of a process does to the invariant.
LEMMA ProcStep ==
  ASSUME Inv, NEW p \in Procs, ProcNext(p) PROVE Inv'
<1> USE DEF Inv
<1>1. ASSUME NEW t \in Trades, NEW notify \in BOOLEAN, NEW enriched \in BOOLEAN,
             Detect(p, t, notify, enriched)
      PROVE Inv'
  BY <1>1 DEF Detect, dispatchVars, TypeOK, Calls, PublishingIsFirst, FanOutNeedsLiveRow,
              FanOutOnce, BatchesAreClaims, DeliveredAtMostOnce
<1>2. CASE Insert(p)
  <2> DEFINE t == call[p].trade
             first == t \notin stored
  <2>1. t \in Trades /\ call[p] \in Calls
    BY <1>2 DEF Insert, TypeOK
  <2>2. /\ stored' = stored \cup {t}
        /\ meta' \subseteq meta \cup {t} /\ meta \subseteq meta'
        /\ silent' = IF first /\ ~call[p].notify THEN silent \cup {t} ELSE silent
        /\ UNCHANGED <<owner, announced, copies, outTask, enrTask, outbox, payload,
                       pos, batch, deliveries, detections, faults>>
    BY <1>2 DEF Insert, dispatchVars
  <2>3. /\ call' \in [Procs -> Calls]
        /\ \A q \in Procs \ {p} : call'[q] = call[q]
        /\ call'[p].pc = "publish" => first /\ call[p].notify
        /\ call'[p].pc # "idle" => call'[p].trade = t
    BY <1>2, <2>1 DEF Insert, TypeOK, Calls, Idle
  <2>4. TypeOK'
    BY <2>1, <2>2, <2>3 DEF TypeOK
  <2>5. PublishingIsFirst'
    <3> SUFFICES ASSUME NEW q \in Procs, call'[q].pc = "publish"
                 PROVE  /\ call'[q].trade \in stored' /\ call'[q].trade \notin silent'
                        /\ announced[call'[q].trade] = 0 /\ copies[call'[q].trade] = 0
                        /\ outTask[call'[q].trade] = 0
                        /\ \A r \in Procs \ {q} : call'[r].pc = "publish" =>
                                call'[r].trade # call'[q].trade
      BY <2>2 DEF PublishingIsFirst
    <3>1. CASE q = p
      BY <3>1, <2>1, <2>2, <2>3 DEF PublishingIsFirst, FanOutNeedsLiveRow, TypeOK
    <3>2. CASE q # p
      <4> DEFINE u == call[q].trade
      <4>1. call'[q] = call[q] /\ call[q].pc = "publish" /\ u \in Trades
        BY <3>2, <2>3 DEF TypeOK
      <4>2. /\ u \in stored /\ u \notin silent
            /\ announced[u] = 0 /\ copies[u] = 0 /\ outTask[u] = 0
            /\ \A r \in Procs \ {q} : call[r].pc = "publish" => call[r].trade # u
        BY <4>1 DEF PublishingIsFirst
      <4>3. u \in stored' /\ u \notin silent'
        BY <4>2, <2>2
      <4>4. \A r \in Procs \ {q} : call'[r].pc = "publish" => call'[r].trade # u
        BY <4>2, <2>3
      <4> QED BY <4>1, <4>2, <4>3, <4>4
    <3> QED BY <3>1, <3>2
  <2>6. FanOutNeedsLiveRow'
    BY <2>1, <2>2 DEF FanOutNeedsLiveRow
  <2>7. (FanOutOnce /\ BatchesAreClaims /\ DeliveredAtMostOnce)'
    BY <2>2 DEF FanOutOnce, BatchesAreClaims, DeliveredAtMostOnce
  <2> QED BY <2>4, <2>5, <2>6, <2>7
<1>3. CASE InsertFails(p)
  BY <1>3 DEF InsertFails, dispatchVars, TypeOK, Calls, Idle, PublishingIsFirst, FanOutNeedsLiveRow,
              FanOutOnce, BatchesAreClaims, DeliveredAtMostOnce
<1>4. ASSUME NEW fresh \in BOOLEAN, FanOut(p, fresh)
      PROVE Inv'
  BY <1>4 DEF FanOut, dispatchVars, TypeOK, Calls, Idle, PublishingIsFirst, FanOutNeedsLiveRow,
              FanOutOnce, BatchesAreClaims, DeliveredAtMostOnce
<1>5. ASSUME NEW went \in BOOLEAN, PublishFails(p, went)
      PROVE Inv'
  BY <1>5 DEF PublishFails, dispatchVars, TypeOK, Calls, Idle, PublishingIsFirst, FanOutNeedsLiveRow,
              FanOutOnce, BatchesAreClaims, DeliveredAtMostOnce
<1>6. CASE CrashProc(p)
  BY <1>6 DEF CrashProc, EnrichRuns, dispatchVars, TypeOK, Calls, Idle, PublishingIsFirst, FanOutNeedsLiveRow,
              FanOutOnce, BatchesAreClaims, DeliveredAtMostOnce
<1> QED BY <1>1, <1>2, <1>3, <1>4, <1>5, <1>6 DEF ProcNext

\* What a step of a spawned task does to it.
LEMMA TaskStep ==
  ASSUME Inv, NEW t \in Trades, TaskNext(t) PROVE Inv'
<1> USE DEF Inv
<1>1. ASSUME NEW inserted \in BOOLEAN, WriteOutbox(t, inserted)
      PROVE Inv'
  <2> DEFINE k == outTask[t]
  <2>1. k \in Kinds /\ k # 0
    BY <1>1 DEF WriteOutbox, Kinds
  <2>2. /\ outbox' \in [Trades -> [Kinds -> {"absent", "pending", "sent"}]]
        /\ \A u \in Trades : \A j \in Kinds :
              \/ outbox'[u][j] = outbox[u][j]
              \/ u = t /\ outbox[u][j] = "absent" /\ outbox'[u][j] = "pending"
    BY <1>1, <2>1 DEF WriteOutbox, TypeOK
  <2>3. /\ payload' \in [Trades -> [Kinds -> {"bare", "full"}]]
        /\ outTask' \in [Trades -> 0..NumKinds]
        /\ \A u \in Trades : u # t => outTask'[u] = outTask[u]
    BY <1>1, <2>1 DEF WriteOutbox, TypeOK, Kinds
  <2>4. UNCHANGED <<stored, meta, silent, call, owner, announced, copies, enrTask,
                   pos, batch, deliveries, detections, faults>>
    BY <1>1 DEF WriteOutbox, dispatchVars
  <2>5. t \in stored /\ t \notin silent
    BY <2>1 DEF FanOutNeedsLiveRow
  <2>6. TypeOK'
    BY <2>2, <2>3, <2>4 DEF TypeOK
  <2>7. PublishingIsFirst'
    BY <2>1, <2>3, <2>4 DEF PublishingIsFirst, TypeOK
  <2>8. FanOutNeedsLiveRow'
    <3> SUFFICES ASSUME NEW u \in Trades, u \notin stored \/ u \in silent
                 PROVE  /\ announced[u] = 0 /\ copies[u] = 0 /\ outTask'[u] = 0
                        /\ enrTask[u] = "none"
                        /\ \A j \in Kinds : outbox'[u][j] = "absent"
      BY <2>4 DEF FanOutNeedsLiveRow
    <3>1. u # t
      BY <2>5
    <3>2. /\ announced[u] = 0 /\ copies[u] = 0 /\ outTask[u] = 0 /\ enrTask[u] = "none"
          /\ \A j \in Kinds : outbox[u][j] = "absent"
      BY DEF FanOutNeedsLiveRow
    <3>3. outTask'[u] = 0
      BY <3>1, <3>2, <2>3
    <3>4. \A j \in Kinds : outbox'[u][j] = "absent"
      BY <3>1, <3>2, <2>2
    <3> QED BY <3>2, <3>3, <3>4
  <2>9. BatchesAreClaims'
    <3>1. \A u \in Trades : \A j \in Kinds :
            /\ outbox[u][j] = "sent" => outbox'[u][j] = "sent"
            /\ outbox'[u][j] # "sent" => outbox[u][j] # "sent"
      BY <2>2
    <3>2. \A d \in Dispatchers : pos[d] \in Kinds /\ batch[d] \subseteq Trades
      BY DEF TypeOK
    <3> QED BY <3>1, <3>2, <2>4 DEF BatchesAreClaims
  <2> QED BY <2>4, <2>6, <2>7, <2>8, <2>9 DEF FanOutOnce, DeliveredAtMostOnce
<1>2. CASE EnrichRow(t)
  <2>1. t \in stored
    BY <1>2 DEF EnrichRow, FanOutNeedsLiveRow
  <2> QED BY <1>2, <2>1 DEF EnrichRow, dispatchVars, TypeOK, PublishingIsFirst,
              FanOutNeedsLiveRow, FanOutOnce, BatchesAreClaims, DeliveredAtMostOnce
<1>3. CASE EnrichAnnounce(t)
  BY <1>3 DEF EnrichAnnounce, dispatchVars, TypeOK, PublishingIsFirst,
              FanOutNeedsLiveRow, FanOutOnce, BatchesAreClaims, DeliveredAtMostOnce
<1>4. CASE EnrichPatch(t)
  BY <1>4 DEF EnrichPatch, dispatchVars, TypeOK, PublishingIsFirst,
              FanOutNeedsLiveRow, FanOutOnce, BatchesAreClaims, DeliveredAtMostOnce
<1>5. CASE EnrichStops(t)
  BY <1>5 DEF EnrichStops, dispatchVars, TypeOK, PublishingIsFirst,
              FanOutNeedsLiveRow, FanOutOnce, BatchesAreClaims, DeliveredAtMostOnce
<1> QED BY <1>1, <1>2, <1>3, <1>4, <1>5 DEF TaskNext

\* Taking the trades S out of dispatcher d's batch, pushed or not.
LEMMA HandleStep ==
  ASSUME Inv, NEW d \in Dispatchers, NEW S \in SUBSET Trades, Send(d, S) \/ Drop(d, S)
  PROVE  Inv'
<1> USE DEF Inv
<1> DEFINE k == pos[d]
<1>1. k \in Kinds /\ NextPos(k) \in Kinds /\ S \subseteq batch[d]
  BY NextPosIsKind DEF TypeOK, Send, Drop, Handle
<1>2. /\ UNCHANGED <<ingestVars, outbox, payload, detections, faults>>
      /\ batch' = [batch EXCEPT ![d] = @ \ S]
      /\ pos' = [pos EXCEPT ![d] = IF S = batch[d] THEN NextPos(@) ELSE @]
  BY DEF Send, Drop, Handle
<1>3. /\ deliveries' \in [Trades -> [Kinds -> Nat]]
      /\ \A t \in Trades : \A j \in Kinds :
            \/ deliveries'[t][j] = deliveries[t][j]
            \/ t \in S /\ j = k /\ deliveries'[t][j] = deliveries[t][j] + 1
  BY <1>1 DEF Send, Drop, TypeOK
<1>4. \A t \in S : \A e \in Dispatchers \ {d} : pos[e] = k => t \notin batch[e]
  BY <1>1 DEF BatchesAreClaims
<1>5. \A t \in S : outbox[t][k] = "sent" /\ deliveries[t][k] = 0
  BY <1>1 DEF BatchesAreClaims
<1>6. TypeOK'
  BY <1>1, <1>2, <1>3 DEF TypeOK, ingestVars
<1>7. (PublishingIsFirst /\ FanOutNeedsLiveRow /\ FanOutOnce)'
  BY <1>2 DEF ingestVars, PublishingIsFirst, FanOutNeedsLiveRow, FanOutOnce
<1>8. DeliveredAtMostOnce'
  <2> SUFFICES ASSUME NEW t \in Trades, NEW j \in Kinds
               PROVE  deliveries'[t][j] <= 1
    BY DEF DeliveredAtMostOnce
  <2>1. CASE deliveries'[t][j] = deliveries[t][j]
    BY <2>1 DEF DeliveredAtMostOnce
  <2>2. CASE t \in S /\ j = k /\ deliveries'[t][j] = deliveries[t][j] + 1
    BY <2>2, <1>5
  <2> QED BY <2>1, <2>2, <1>3
<1>9. BatchesAreClaims'
  <2>1. ASSUME NEW e \in Dispatchers, NEW t \in batch'[e]
        PROVE  /\ t \in Trades /\ t \in batch[e] /\ pos'[e] = pos[e] /\ pos[e] \in Kinds
               /\ e = d => t \notin S
    BY <2>1, <1>2 DEF TypeOK
  <2>2. ASSUME NEW e \in Dispatchers, NEW t \in batch'[e]
        PROVE  outbox'[t][pos'[e]] = "sent" /\ deliveries'[t][pos'[e]] = 0
    BY <2>1, <2>2, <1>2, <1>3, <1>4 DEF BatchesAreClaims
  <2>3. ASSUME NEW e \in Dispatchers, NEW t \in batch'[e], NEW f \in Dispatchers \ {e},
               pos'[f] = pos'[e]
        PROVE  t \notin batch'[f]
    BY <2>1, <2>3 DEF BatchesAreClaims
  <2>4. ASSUME NEW t \in Trades, NEW j \in Kinds, outbox'[t][j] # "sent"
        PROVE  deliveries'[t][j] = 0
    BY <2>4, <1>2, <1>3, <1>5 DEF BatchesAreClaims
  <2> QED BY <2>2, <2>3, <2>4 DEF BatchesAreClaims
<1> QED BY <1>6, <1>7, <1>8, <1>9

\* Claiming the pending trades S for dispatcher d.
LEMMA ClaimStep ==
  ASSUME Inv, NEW d \in Dispatchers, NEW S \in SUBSET Trades, Claim(d, S)
  PROVE  Inv'
<1> USE DEF Inv
<1> DEFINE k == pos[d]
<1>1. k \in Kinds /\ NextPos(k) \in Kinds
  BY NextPosIsKind DEF TypeOK
<1>2. /\ UNCHANGED <<ingestVars, payload, deliveries, detections, faults>>
      /\ batch' = [batch EXCEPT ![d] = S]
      /\ pos' = [pos EXCEPT ![d] = IF S = {} THEN NextPos(@) ELSE @]
  BY DEF Claim
<1>3. \A t \in S : outbox[t][k] = "pending"
  BY DEF Claim, Pending
<1>4. /\ outbox' \in [Trades -> [Kinds -> {"absent", "pending", "sent"}]]
      /\ \A t \in Trades : \A j \in Kinds :
            IF t \in S /\ j = k THEN outbox'[t][j] = "sent"
            ELSE outbox'[t][j] = outbox[t][j]
  BY DEF Claim, TypeOK
<1>5. \A t \in S : /\ deliveries[t][k] = 0
                   /\ \A e \in Dispatchers : pos[e] = k => t \notin batch[e]
  BY <1>1, <1>3 DEF BatchesAreClaims
<1>6. TypeOK'
  BY <1>1, <1>2, <1>4 DEF TypeOK, ingestVars
<1>7. PublishingIsFirst' /\ FanOutOnce' /\ DeliveredAtMostOnce'
  BY <1>2 DEF ingestVars, PublishingIsFirst, FanOutOnce, DeliveredAtMostOnce
<1>8. FanOutNeedsLiveRow'
  <2> SUFFICES ASSUME NEW t \in Trades, t \notin stored \/ t \in silent, NEW j \in Kinds
               PROVE  outbox'[t][j] = "absent"
    BY <1>2 DEF ingestVars, FanOutNeedsLiveRow
  <2> QED BY <1>1, <1>3, <1>4 DEF FanOutNeedsLiveRow
<1>9. BatchesAreClaims'
  <2>1. ASSUME NEW e \in Dispatchers, NEW t \in batch'[e]
        PROVE  /\ t \in Trades /\ pos'[e] = pos[e] /\ pos[e] \in Kinds
               /\ IF e = d THEN t \in S ELSE t \in batch[e]
    BY <2>1, <1>2 DEF TypeOK
  <2>2. ASSUME NEW e \in Dispatchers, NEW t \in batch'[e]
        PROVE  outbox'[t][pos'[e]] = "sent" /\ deliveries'[t][pos'[e]] = 0
    BY <2>1, <2>2, <1>2, <1>4, <1>5 DEF BatchesAreClaims
  <2>3. ASSUME NEW e \in Dispatchers, NEW t \in batch'[e], NEW f \in Dispatchers \ {e},
               pos'[f] = pos'[e]
        PROVE  t \notin batch'[f]
    BY <2>1, <2>3, <1>5 DEF BatchesAreClaims
  <2>4. ASSUME NEW t \in Trades, NEW j \in Kinds, outbox'[t][j] # "sent"
        PROVE  deliveries'[t][j] = 0
    BY <2>4, <1>2, <1>4 DEF BatchesAreClaims
  <2> QED BY <2>2, <2>3, <2>4 DEF BatchesAreClaims
<1> QED BY <1>6, <1>7, <1>8, <1>9

\* A dispatcher that forgets its batch: an aborted tick, a failed claim, a crash.
LEMMA ForgetStep ==
  ASSUME Inv, NEW d \in Dispatchers, AbortTick(d) \/ ClaimFails(d) \/ CrashDispatcher(d)
  PROVE  Inv'
<1> USE DEF Inv
<1>1. /\ UNCHANGED <<ingestVars, outbox, payload, deliveries, detections>>
      /\ faults' \in Nat
      /\ \A e \in Dispatchers : IF e = d THEN batch'[e] = {} ELSE batch'[e] = batch[e]
      /\ \A e \in Dispatchers \ {d} : pos'[e] = pos[e]
      /\ batch' \in [Dispatchers -> SUBSET Trades]
      /\ pos' \in [Dispatchers -> Kinds]
  <2>1. 1 \in Kinds /\ pos \in [Dispatchers -> Kinds] /\ batch \in [Dispatchers -> SUBSET Trades]
        /\ faults \in Nat
    BY DEF Kinds, TypeOK
  <2>2. /\ UNCHANGED <<ingestVars, outbox, payload, deliveries, detections>>
        /\ faults' \in {faults, faults + 1}
        /\ batch' = [batch EXCEPT ![d] = {}]
        /\ pos' = [pos EXCEPT ![d] = 1]
    BY <2>1 DEF AbortTick, ClaimFails, CrashDispatcher
  <2> QED BY <2>1, <2>2
<1>2. TypeOK'
  BY <1>1 DEF TypeOK, ingestVars
<1>3. (PublishingIsFirst /\ FanOutNeedsLiveRow /\ FanOutOnce /\ DeliveredAtMostOnce)'
  BY <1>1 DEF ingestVars, PublishingIsFirst, FanOutNeedsLiveRow, FanOutOnce,
              DeliveredAtMostOnce
<1>4. BatchesAreClaims'
  BY <1>1 DEF BatchesAreClaims
<1> QED BY <1>2, <1>3, <1>4

\* Stuttering keeps it.
LEMMA StutterStep == ASSUME Inv, UNCHANGED vars PROVE Inv'
  BY DEF Inv, vars, ingestVars, dispatchVars, TypeOK, PublishingIsFirst, FanOutNeedsLiveRow,
         FanOutOnce, BatchesAreClaims, DeliveredAtMostOnce

\* The invariant is inductive: every state the pipeline reaches satisfies it.
THEOREM Invariance == Spec => []Inv
<1>1. ASSUME Inv, [Next]_vars PROVE Inv'
  <2>1. CASE \E p \in Procs : ProcNext(p)
    BY <1>1, <2>1, ProcStep
  <2>2. CASE \E t \in Trades : TaskNext(t)
    BY <1>1, <2>2, TaskStep
  <2>3. CASE \E d \in Dispatchers : DispatcherNext(d)
    BY <1>1, <2>3, ClaimStep, HandleStep, ForgetStep DEF DispatcherNext, Tick
  <2>4. CASE UNCHANGED vars
    BY <1>1, <2>4, StutterStep
  <2> QED BY <1>1, <2>1, <2>2, <2>3, <2>4 DEF Next
<1> QED BY <1>1, InitInv, PTL DEF Spec

\* Every state is well typed.
THEOREM TypeCorrect == Spec => []TypeOK
  BY Invariance, PTL DEF Inv

\* ingest_trade_result announces a fill and hands it to the copy executor at
\* most once, however many processes detect it and whoever crashes.
THEOREM FansOutOnce == Spec => []FanOutOnce
  BY Invariance, PTL DEF Inv

\* A fill that the history import stored first is never announced, copied or
\* notified by a live path that detects it afterwards.
THEOREM HistoryStaysSilent == Spec => []HistoryIsSilent
<1>1. Inv => HistoryIsSilent
  BY DEF Inv, TypeOK, FanOutNeedsLiveRow, HistoryIsSilent
<1> QED BY <1>1, Invariance, PTL

\* However many dispatchers run and whoever restarts, no notice is pushed twice.
THEOREM NeverDoublePushed == Spec => []DeliveredAtMostOnce
  BY Invariance, PTL DEF Inv

-----------------------------------------------------------------------------
(* The refinement: every step moves some notices one stage, or none         *)

\* What Move of NoticeDelivery says of the mapped variable.
LEMMA MoveByStage ==
  ASSUME NEW U \in SUBSET (Trades \X Kinds), NEW from, NEW to,
         \A t \in Trades, k \in Kinds :
            IF <<t, k>> \in U THEN Stage(t, k) = from /\ Stage(t, k)' = to
            ELSE Stage(t, k)' = Stage(t, k)
  PROVE  Promise!Move(U, from, to)
  BY DEF Promise!Move

\* Stages and pushes that do not change are a stutter of NoticeDelivery.
LEMMA SameStages ==
  ASSUME UNCHANGED deliveries,
         \A t \in Trades, k \in Kinds : Stage(t, k)' = Stage(t, k)
  PROVE  UNCHANGED Promise!noticeVars
  BY DEF Promise!noticeVars

\* A step that leaves the outbox and the dispatchers alone.
LEMMA IngestMapsToStutter ==
  ASSUME UNCHANGED <<outbox, pos, batch, deliveries>>
  PROVE  UNCHANGED Promise!noticeVars
<1>1. \A t \in Trades, k \in Kinds : Stage(t, k)' = Stage(t, k)
  BY DEF Stage
<1> QED BY <1>1, SameStages

\* Writing an outbox row queues one notice, or changes nothing.
LEMMA WriteMapsToQueue ==
  ASSUME Inv, NEW u \in Trades, NEW inserted \in BOOLEAN, WriteOutbox(u, inserted)
  PROVE  Promise!NoticeNext \/ UNCHANGED Promise!noticeVars
<1> DEFINE j == outTask[u]
<1>1. j \in Kinds /\ UNCHANGED <<pos, batch, deliveries>>
  BY DEF WriteOutbox, dispatchVars
<1>2. CASE inserted /\ outbox[u][j] = "absent"
  <2>1. \A t \in Trades, k \in Kinds :
          outbox'[t][k] = IF t = u /\ k = j THEN "pending" ELSE outbox[t][k]
    BY <1>1, <1>2 DEF WriteOutbox, Inv, TypeOK
  <2>2. \A t \in Trades, k \in Kinds :
          IF <<t, k>> \in {<<u, j>>} THEN Stage(t, k) = "absent" /\ Stage(t, k)' = "queued"
          ELSE Stage(t, k)' = Stage(t, k)
    BY <1>1, <1>2, <2>1 DEF Stage
  <2>3. {<<u, j>>} \in SUBSET (Trades \X Kinds)
    BY <1>1
  <2>4. Promise!Queue({<<u, j>>})
    BY <1>1, <2>2, <2>3, MoveByStage DEF Promise!Queue
  <2> QED BY <2>3, <2>4 DEF Promise!NoticeNext
<1>3. CASE ~(inserted /\ outbox[u][j] = "absent")
  BY <1>1, <1>3, IngestMapsToStutter DEF WriteOutbox
<1> QED BY <1>2, <1>3

\* A claim takes the notices of the claimed trades on the channel it is at.
LEMMA ClaimMapsToTake ==
  ASSUME Inv, NEW d \in Dispatchers, NEW S \in SUBSET Trades, Claim(d, S)
  PROVE  Promise!NoticeNext \/ UNCHANGED Promise!noticeVars
<1> DEFINE U == S \X {pos[d]}
<1>1. /\ pos[d] \in Kinds /\ UNCHANGED deliveries /\ batch[d] = {}
      /\ \A e \in Dispatchers : batch'[e] = IF e = d THEN S ELSE batch[e]
      /\ \A e \in Dispatchers : batch'[e] # {} => pos'[e] = pos[e]
      /\ \A e \in Dispatchers \ {d} : pos'[e] = pos[e]
  BY DEF Claim, Inv, TypeOK
<1>2. \A t \in Trades, k \in Kinds :
        IF t \in S /\ k = pos[d]
        THEN outbox[t][k] = "pending" /\ outbox'[t][k] = "sent" /\ deliveries[t][k] = 0
        ELSE outbox'[t][k] = outbox[t][k]
  BY DEF Claim, Pending, Inv, BatchesAreClaims
<1>3. ASSUME NEW t \in Trades, NEW k \in Kinds
      PROVE  (\E e \in Dispatchers : pos'[e] = k /\ t \in batch'[e])
             <=> \/ \E e \in Dispatchers : pos[e] = k /\ t \in batch[e]
                 \/ t \in S /\ k = pos[d]
  BY <1>1
<1>4. \A t \in Trades, k \in Kinds :
        IF <<t, k>> \in U THEN Stage(t, k) = "queued" /\ Stage(t, k)' = "taken"
        ELSE Stage(t, k)' = Stage(t, k)
  BY <1>1, <1>2, <1>3 DEF Stage
<1>5. U \in SUBSET (Trades \X Kinds)
  BY <1>1
<1>6. Promise!Take(U)
  BY <1>1, <1>4, <1>5, MoveByStage DEF Promise!Take
<1> QED BY <1>5, <1>6 DEF Promise!NoticeNext

\* The trades S leave d's batch and nobody else's: they were taken, and only
\* they are no longer in a batch.
LEMMA LeavingTheBatch ==
  ASSUME Inv, NEW d \in Dispatchers, NEW S \in SUBSET batch[d],
         \A e \in Dispatchers : batch'[e] = IF e = d THEN batch[d] \ S ELSE batch[e],
         \A e \in Dispatchers : batch'[e] # {} => pos'[e] = pos[e]
  PROVE  /\ pos[d] \in Kinds /\ S \subseteq Trades
         /\ \A t \in S : outbox[t][pos[d]] = "sent" /\ deliveries[t][pos[d]] = 0
         /\ \A t \in Trades, k \in Kinds :
              (\E e \in Dispatchers : pos'[e] = k /\ t \in batch'[e])
              <=> /\ \E e \in Dispatchers : pos[e] = k /\ t \in batch[e]
                  /\ ~(t \in S /\ k = pos[d])
<1>1. pos[d] \in Kinds /\ S \subseteq Trades
  BY DEF Inv, TypeOK
<1>2. \A t \in S : /\ outbox[t][pos[d]] = "sent" /\ deliveries[t][pos[d]] = 0
                   /\ \A e \in Dispatchers \ {d} : pos[e] = pos[d] => t \notin batch[e]
  BY DEF Inv, BatchesAreClaims
<1> QED BY <1>1, <1>2

\* A push delivers what it handles.
LEMMA SendMapsToDeliver ==
  ASSUME Inv, NEW d \in Dispatchers, NEW S \in SUBSET Trades, Send(d, S)
  PROVE  Promise!NoticeNext
<1> DEFINE U == S \X {pos[d]}
<1>1. /\ S \in SUBSET batch[d] /\ UNCHANGED outbox
      /\ \A e \in Dispatchers : batch'[e] = IF e = d THEN batch[d] \ S ELSE batch[e]
      /\ \A e \in Dispatchers : batch'[e] # {} => pos'[e] = pos[e]
  BY DEF Send, Handle, Inv, TypeOK
<1>2. \A t \in Trades, k \in Kinds :
        deliveries'[t][k] = IF t \in S /\ k = pos[d] THEN deliveries[t][k] + 1
                            ELSE deliveries[t][k]
  BY DEF Send
<1>3. /\ pos[d] \in Kinds /\ S \subseteq Trades
      /\ \A t \in S : outbox[t][pos[d]] = "sent" /\ deliveries[t][pos[d]] = 0
      /\ \A t \in Trades, k \in Kinds :
           (\E e \in Dispatchers : pos'[e] = k /\ t \in batch'[e])
           <=> /\ \E e \in Dispatchers : pos[e] = k /\ t \in batch[e]
               /\ ~(t \in S /\ k = pos[d])
  BY <1>1, LeavingTheBatch
<1>4. \A t \in Trades, k \in Kinds :
        IF <<t, k>> \in U THEN Stage(t, k) = "taken" /\ Stage(t, k)' = "delivered"
        ELSE Stage(t, k)' = Stage(t, k)
  BY <1>1, <1>2, <1>3 DEF Stage
<1>5. U \in SUBSET (Trades \X Kinds)
  BY <1>3
<1>6. Promise!Move(U, "taken", "delivered")
  BY <1>4, <1>5, MoveByStage
<1>7. \A n \in Trades \X Kinds :
        deliveries'[n[1]][n[2]] = IF n \in U THEN deliveries[n[1]][n[2]] + 1
                                  ELSE deliveries[n[1]][n[2]]
  BY <1>2
<1> QED BY <1>5, <1>6, <1>7 DEF Promise!NoticeNext, Promise!Deliver

\* What a dispatcher drops or forgets is lost.
LEMMA RestMapsToLose ==
  ASSUME Inv, NEW d \in Dispatchers,
         \/ \E S \in SUBSET Trades : Drop(d, S)
         \/ AbortTick(d) \/ ClaimFails(d) \/ CrashDispatcher(d)
  PROVE  Promise!NoticeNext
<1>1. PICK S \in SUBSET batch[d] :
        /\ UNCHANGED <<outbox, deliveries>>
        /\ \A e \in Dispatchers : batch'[e] = IF e = d THEN batch[d] \ S ELSE batch[e]
        /\ \A e \in Dispatchers : batch'[e] # {} => pos'[e] = pos[e]
  <2>1. ASSUME NEW S \in SUBSET Trades, Drop(d, S)
        PROVE  /\ S \in SUBSET batch[d] /\ UNCHANGED <<outbox, deliveries>>
               /\ \A e \in Dispatchers : batch'[e] = IF e = d THEN batch[d] \ S ELSE batch[e]
               /\ \A e \in Dispatchers : batch'[e] # {} => pos'[e] = pos[e]
    BY <2>1 DEF Drop, Handle, Inv, TypeOK
  <2>2. CASE AbortTick(d) \/ ClaimFails(d) \/ CrashDispatcher(d)
    <3>1. /\ UNCHANGED <<outbox, deliveries>>
          /\ \A e \in Dispatchers : batch'[e] = IF e = d THEN {} ELSE batch[e]
          /\ \A e \in Dispatchers \ {d} : pos'[e] = pos[e]
      BY <2>2 DEF AbortTick, ClaimFails, CrashDispatcher, Inv, TypeOK
    <3> QED BY <3>1
  <2> QED BY <2>1, <2>2
<1> DEFINE U == S \X {pos[d]}
<1>2. /\ pos[d] \in Kinds /\ S \subseteq Trades
      /\ \A t \in S : outbox[t][pos[d]] = "sent" /\ deliveries[t][pos[d]] = 0
      /\ \A t \in Trades, k \in Kinds :
           (\E e \in Dispatchers : pos'[e] = k /\ t \in batch'[e])
           <=> /\ \E e \in Dispatchers : pos[e] = k /\ t \in batch[e]
               /\ ~(t \in S /\ k = pos[d])
  BY <1>1, LeavingTheBatch
<1>3. \A t \in Trades, k \in Kinds :
        IF <<t, k>> \in U THEN Stage(t, k) = "taken" /\ Stage(t, k)' = "lost"
        ELSE Stage(t, k)' = Stage(t, k)
  BY <1>1, <1>2 DEF Stage
<1>4. U \in SUBSET (Trades \X Kinds)
  BY <1>2
<1>5. Promise!Lose(U)
  BY <1>1, <1>3, <1>4, MoveByStage DEF Promise!Lose
<1> QED BY <1>4, <1>5 DEF Promise!NoticeNext

\* The pipeline and its dispatchers implement NoticeDelivery: each notice is
\* queued once, taken by one dispatcher once, and then delivered once or lost.
THEOREM ImplementsPromise == Spec => KeepsPromise
<1>1. Init => Promise!NoticeInit
  BY DEF Init, Promise!NoticeInit, Stage
<1>2. ASSUME Inv, [Next]_vars
      PROVE  Promise!NoticeNext \/ UNCHANGED Promise!noticeVars
  <2>1. ASSUME NEW p \in Procs, ProcNext(p) PROVE UNCHANGED Promise!noticeVars
    <3>1. UNCHANGED <<outbox, pos, batch, deliveries>>
      BY <2>1 DEF ProcNext, Detect, Insert, InsertFails, FanOut, PublishFails, CrashProc,
                  dispatchVars
    <3> QED BY <3>1, IngestMapsToStutter
  <2>2. ASSUME NEW t \in Trades, TaskNext(t)
        PROVE  Promise!NoticeNext \/ UNCHANGED Promise!noticeVars
    <3>1. ASSUME EnrichRow(t) \/ EnrichAnnounce(t) \/ EnrichPatch(t) \/ EnrichStops(t)
          PROVE  UNCHANGED <<outbox, pos, batch, deliveries>>
      BY <3>1 DEF EnrichRow, EnrichAnnounce, EnrichPatch, EnrichStops, dispatchVars
    <3> QED BY <1>2, <2>2, <3>1, IngestMapsToStutter, WriteMapsToQueue DEF TaskNext
  <2>3. ASSUME NEW d \in Dispatchers, DispatcherNext(d)
        PROVE  Promise!NoticeNext \/ UNCHANGED Promise!noticeVars
    BY <1>2, <2>3, ClaimMapsToTake, SendMapsToDeliver, RestMapsToLose DEF DispatcherNext, Tick
  <2>4. CASE UNCHANGED vars
    BY <2>4, IngestMapsToStutter DEF vars, dispatchVars
  <2> QED BY <1>2, <2>1, <2>2, <2>3, <2>4 DEF Next
<1> QED BY <1>1, <1>2, Invariance, PTL DEF Spec, KeepsPromise, Promise!NoticeSpec
=============================================================================
