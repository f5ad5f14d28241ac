------------------------ MODULE CalibrationSend_proofs ------------------------
(***************************************************************************)
(* Proofs about CalibrationSend.                                           *)
(*                                                                         *)
(* That an approval is sent at most once rests on one invariant: a process *)
(* past its claim owns the ticket, and its attempt says how far it got.    *)
(* That two attempts are never unresolved at once rests on the budget: an  *)
(* unresolved attempt keeps its lifecycle open, and one is open at a time. *)
(* The same cover makes every send a step of the budget (VenueOpens), so   *)
(* the guarded send implements CalibrationStore and inherits its theorems. *)
(***************************************************************************)
EXTENDS CalibrationSend, CalibrationStore_proofs

USE ReleaseAssumption

\* A process past its claim.
Owns(w) == worker[w].pc \in {"destination", "record", "mark", "send", "resolve"}

\* What the attempt of a process past its claim says.
AttemptFollows(w) ==
    LET t == OfWorker(w) IN
    /\ worker[w].pc \in {"destination", "record"} => attempt[t] = "CLAIMED"
    /\ worker[w].pc = "mark" => attempt[t] = "PRE_IMAGE_RECORDED"
    /\ worker[w].pc = "send" => attempt[t] = "SENT_OUTCOME_UNKNOWN" /\ sends[t] = 0
    /\ worker[w].pc = "resolve" => attempt[t] = "SENT_OUTCOME_UNKNOWN"

OwnersDiffer ==
    \A v, w \in Submitters : Owns(v) /\ Owns(w) /\ OfWorker(v) = OfWorker(w) => v = w

SendInv ==
    /\ SendTypeOK
    /\ stopped \in [Sessions -> BOOLEAN]
    /\ \A w \in Submitters : AttemptFollows(w)
    /\ OwnersDiffer
    /\ OneSendPerApproval
    /\ SendIsRecorded

\* Initially no process has claimed anything.
LEMMA InitSendInv == Init => SendInv
  BY DEF Init, StoreInit, SendInv, SendTypeOK, AttemptStates, Unresolved, Workers, Resting, Steps,
         AttemptFollows, Owns, OwnersDiffer, OneSendPerApproval, SendIsRecorded, OfWorker

\* A step that leaves the attempts alone and takes one process to a place
\* where it owns nothing preserves the invariant.
LEMMA UnownedStep ==
  ASSUME SendInv, NEW w \in Submitters,
         worker' \in [Submitters -> Workers],
         \A v \in Submitters \ {w} : worker'[v] = worker[v],
         worker'[w].pc \notin {"destination", "record", "mark", "send", "resolve"},
         worker'[w].pc # "idle" => worker'[w].ticket \in Tickets,
         UNCHANGED <<attempt, sends, stopped>>
  PROVE  SendInv'
<1>1. SendTypeOK' /\ stopped' \in [Sessions -> BOOLEAN]
  BY DEF SendInv, SendTypeOK, OfWorker
<1>3. \A v \in Submitters : AttemptFollows(v)'
  BY DEF SendInv, AttemptFollows, OfWorker
<1>4. OwnersDiffer'
  BY DEF SendInv, OwnersDiffer, Owns, OfWorker
<1> QED BY <1>1, <1>3, <1>4 DEF SendInv, OneSendPerApproval, SendIsRecorded

\* A process that only reads, or stops, preserves it.
LEMMA ReadStep ==
  ASSUME SendInv, NEW w \in Submitters,
         \/ \E t \in Tickets, s \in Sessions : ClaimLoadSession(w, t, s)
         \/ ClaimLoadLifecycles(w) \/ ClaimReadAttempts(w) \/ ClaimReadRow(w)
         \/ SubmitterStops(w)
  PROVE  SendInv'
<1> DEFINE old == worker[w]
<1>0. /\ old \in Workers /\ worker \in [Submitters -> Workers]
      /\ old.pc # "idle" => old.ticket \in Tickets
      /\ Resting \in Workers /\ Resting.pc = "idle"
  BY DEF SendInv, SendTypeOK, Workers, Resting, Steps, OfWorker
<1>1. ASSUME worker' = [worker EXCEPT ![w] = Resting], UNCHANGED <<attempt, sends, stopped>>
      PROVE  SendInv'
  BY <1>0, <1>1, UnownedStep
<1>2. ASSUME NEW t \in Tickets, NEW s \in Sessions, ClaimLoadSession(w, t, s) PROVE SendInv'
  <2> DEFINE r == [Resting EXCEPT !.pc = "lifecycles", !.ticket = t, !.session = s,
                                  !.stopped = stopped[s]]
  <2>1. r \in Workers /\ r.pc = "lifecycles" /\ r.ticket = t
    BY DEF SendInv, Workers, Resting, Steps
  <2>2. worker' = [worker EXCEPT ![w] = r] /\ UNCHANGED <<attempt, sends, stopped>>
    BY <1>2 DEF ClaimLoadSession, storeVars, ledgerVars
  <2> HIDE DEF r
  <2>3. /\ worker' \in [Submitters -> Workers]
        /\ \A v \in Submitters \ {w} : worker'[v] = worker[v]
        /\ worker'[w].pc = "lifecycles" /\ worker'[w].ticket \in Tickets
    BY <1>0, <2>1, <2>2
  <2> QED BY <2>2, <2>3, UnownedStep
<1>3. ASSUME NEW pc \in {"attempts", "row", "insert"}, NEW clear \in BOOLEAN,
             old.pc # "idle",
             worker' = [worker EXCEPT ![w].pc = pc, ![w].clear = clear],
             UNCHANGED <<attempt, sends, stopped>>
      PROVE  SendInv'
  <2>1. /\ worker' \in [Submitters -> Workers]
        /\ \A v \in Submitters \ {w} : worker'[v] = worker[v]
        /\ worker'[w].pc = pc /\ worker'[w].ticket \in Tickets
    BY <1>0, <1>3 DEF Workers, Steps
  <2> QED BY <1>3, <2>1, UnownedStep
<1>4. CASE ClaimLoadLifecycles(w)
  <2>1. CASE old.stopped
    BY <1>1, <1>4, <2>1 DEF ClaimLoadLifecycles, Return, storeVars, ledgerVars
  <2>2. CASE ~old.stopped
    <3> DEFINE alone == \A u \in OfSession(old.session) \ {OfWorker(w)} : ~IsOpen(u)
    <3>1. PICK withinBudget \in BOOLEAN :
            worker' = [worker EXCEPT ![w].pc = "attempts", ![w].clear = alone /\ withinBudget]
      BY <1>4, <2>2, Zenon DEF ClaimLoadLifecycles
    <3>2. (alone /\ withinBudget) \in BOOLEAN
      OBVIOUS
    <3>3. old.pc # "idle" /\ UNCHANGED <<attempt, sends, stopped>>
      BY <1>4 DEF ClaimLoadLifecycles, storeVars, ledgerVars
    <3> HIDE DEF alone
    <3> QED BY <1>3, <3>1, <3>2, <3>3
  <2> QED BY <2>1, <2>2
<1>5. ASSUME NEW pc \in {"row", "insert"}, old.pc # "idle", To(w, pc),
             UNCHANGED <<attempt, sends, stopped>>
      PROVE  SendInv'
  <2>1. worker' = [worker EXCEPT ![w].pc = pc, ![w].clear = old.clear] /\ old.clear \in BOOLEAN
    BY <1>0, <1>5 DEF To, Workers
  <2> QED BY <1>3, <1>5, <2>1
<1>6. CASE ClaimReadAttempts(w)
  <2>1. old.pc # "idle" /\ UNCHANGED <<attempt, sends, stopped>>
    BY <1>6 DEF ClaimReadAttempts, storeVars, ledgerVars
  <2>2. Return(w) \/ To(w, "row")
    BY <1>6 DEF ClaimReadAttempts
  <2> QED BY <1>1, <1>5, <2>1, <2>2 DEF Return
<1>7. CASE ClaimReadRow(w)
  <2>1. old.pc # "idle" /\ UNCHANGED <<attempt, sends, stopped>>
    BY <1>7 DEF ClaimReadRow, storeVars, ledgerVars
  <2>2. Return(w) \/ To(w, "insert")
    BY <1>7 DEF ClaimReadRow
  <2> QED BY <1>1, <1>5, <2>1, <2>2 DEF Return
<1>8. CASE SubmitterStops(w)
  BY <1>1, <1>8 DEF SubmitterStops, Return, storeVars, ledgerVars
<1> QED BY <1>2, <1>4, <1>6, <1>7, <1>8

\* A step of a process that alone may own its ticket, and that takes the
\* attempt where the process's next place expects it.
TakesAttempt(w, t) ==
    /\ OfWorker(w) = t
    /\ \A v \in Submitters \ {w} : Owns(v) => OfWorker(v) # t
    /\ attempt' \in [Tickets -> AttemptStates]
    /\ \A u \in Tickets \ {t} : attempt'[u] = attempt[u] /\ sends'[u] = sends[u]
    /\ worker' \in [Submitters -> Workers]
    /\ \A v \in Submitters \ {w} : worker'[v] = worker[v]
    /\ stopped' = stopped
    /\ sends' \in [Tickets -> Nat] /\ sends'[t] <= 1
    /\ sends'[t] > 0 => attempt'[t] \in {"SENT_OUTCOME_UNKNOWN", "RESOLVED"}
    /\ worker'[w].pc # "idle" => worker'[w].ticket = t
    /\ worker'[w].pc \in {"destination", "record"} => attempt'[t] = "CLAIMED"
    /\ worker'[w].pc = "mark" => attempt'[t] = "PRE_IMAGE_RECORDED"
    /\ worker'[w].pc = "send" => attempt'[t] = "SENT_OUTCOME_UNKNOWN" /\ sends'[t] = 0
    /\ worker'[w].pc = "resolve" => attempt'[t] = "SENT_OUTCOME_UNKNOWN"

\* Such a step preserves the invariant.
LEMMA OwnedStep ==
  ASSUME SendInv, NEW w \in Submitters, NEW t \in Tickets, TakesAttempt(w, t) PROVE SendInv'
<1> USE DEF TakesAttempt
<1>2. SendTypeOK' /\ stopped' \in [Sessions -> BOOLEAN]
  BY DEF SendInv, SendTypeOK, OfWorker
<1>3. ASSUME NEW v \in Submitters PROVE AttemptFollows(v)'
  <2>1. CASE v = w
    BY <2>1 DEF AttemptFollows, OfWorker
  <2>2. CASE v # w /\ Owns(v)
    <3>1. worker'[v] = worker[v] /\ worker[v].ticket # t /\ worker[v].ticket \in Tickets
      BY <2>2 DEF SendInv, SendTypeOK, OfWorker, Owns
    <3>2. AttemptFollows(v)
      BY DEF SendInv
    <3> QED BY <3>1, <3>2 DEF AttemptFollows, OfWorker
  <2>3. CASE v # w /\ ~Owns(v)
    BY <2>3 DEF AttemptFollows, Owns
  <2> QED BY <2>1, <2>2, <2>3
<1>4. OwnersDiffer'
  BY DEF SendInv, OwnersDiffer, Owns, OfWorker
<1>5. OneSendPerApproval' /\ SendIsRecorded'
  BY DEF SendInv, OneSendPerApproval, SendIsRecorded
<1> QED BY <1>2, <1>3, <1>4, <1>5 DEF SendInv

\* The claim and every step after it preserve the invariant.
LEMMA SubmitStep ==
  ASSUME SendInv, NEW w \in Submitters,
         ClaimInsert(w) \/ (SubmitNext(w) /\ ~SubmitterStops(w))
  PROVE  SendInv'
<1>0. worker[w].pc # "idle"
  BY DEF ClaimInsert, SubmitNext, CheckDestination, RecordPreImage, MarkSent, RecordFails,
         SubmitRefuses, Send, Resolve
<1>t. PICK t \in Tickets : OfWorker(w) = t
  BY <1>0 DEF SendInv, SendTypeOK
<1> USE <1>t
<1>1. /\ worker \in [Submitters -> Workers] /\ worker[w] \in Workers
      /\ attempt \in [Tickets -> AttemptStates] /\ sends \in [Tickets -> Nat]
      /\ Resting \in Workers /\ Resting.pc = "idle" /\ Resting.ticket = NoTicket
  BY DEF SendInv, SendTypeOK, Workers, Resting, Steps, OfWorker
<1>2. /\ AttemptFollows(w)
      /\ Owns(w) => \A v \in Submitters \ {w} : Owns(v) => OfWorker(v) # t
      /\ sends[t] <= 1
      /\ sends[t] > 0 => attempt[t] \in {"SENT_OUTCOME_UNKNOWN", "RESOLVED"}
  BY DEF SendInv, OwnersDiffer, OneSendPerApproval, SendIsRecorded
<1>3. ASSUME NEW pc \in Steps, pc # "idle", worker[w].pc # "idle", To(w, pc)
      PROVE  /\ worker' \in [Submitters -> Workers]
             /\ \A v \in Submitters \ {w} : worker'[v] = worker[v]
             /\ worker'[w].pc = pc /\ worker'[w].ticket = t
  BY <1>1, <1>3 DEF To, Workers, OfWorker
<1>4. ASSUME Return(w)
      PROVE  /\ worker' \in [Submitters -> Workers]
             /\ \A v \in Submitters \ {w} : worker'[v] = worker[v]
             /\ worker'[w].pc = "idle"
  BY <1>1, <1>4 DEF Return
<1>5. ASSUME Return(w), UNCHANGED <<attempt, sends, stopped>> PROVE SendInv'
  BY <1>4, <1>5, UnownedStep
<1>6. ASSUME NEW pc \in {"destination", "record", "mark", "send"}, NEW state \in AttemptStates,
             worker[w].pc # "idle",
             \A v \in Submitters \ {w} : Owns(v) => OfWorker(v) # t,
             To(w, pc), UNCHANGED <<sends, stopped>>,
             attempt' = [attempt EXCEPT ![t] = state],
             ~(sends[t] > 0),
             state = CASE pc = "mark" -> "PRE_IMAGE_RECORDED"
                       [] pc = "send" -> "SENT_OUTCOME_UNKNOWN"
                       [] OTHER -> "CLAIMED"
      PROVE  SendInv'
  <2>1. sends[t] = 0 /\ pc \in Steps
    BY <1>1, <1>6 DEF Steps
  <2>2. /\ worker' \in [Submitters -> Workers]
        /\ \A v \in Submitters \ {w} : worker'[v] = worker[v]
        /\ worker'[w].pc = pc /\ worker'[w].ticket = t
    BY <1>3, <1>6, <2>1
  <2>3. attempt'[t] = state
    BY <1>1, <1>6
  <2>4. TakesAttempt(w, t)
    BY <1>1, <1>6, <2>1, <2>2, <2>3 DEF TakesAttempt
  <2> QED BY <2>4, OwnedStep
<1>a. ASSUME NEW state \in AttemptStates, Owns(w), Return(w), UNCHANGED <<sends, stopped>>,
             attempt' = [attempt EXCEPT ![t] = state],
             sends[t] > 0 => state \in {"SENT_OUTCOME_UNKNOWN", "RESOLVED"}
      PROVE  SendInv'
  <2>1. \A v \in Submitters \ {w} : Owns(v) => OfWorker(v) # t
    BY <1>2, <1>a
  <2>2. TakesAttempt(w, t)
    BY <1>1, <1>2, <1>4, <1>a, <2>1 DEF TakesAttempt
  <2> QED BY <2>2, OwnedStep
<1>7. CASE ClaimInsert(w)
  <2>1. CASE attempt[t] = "none"
    <3>1. \A v \in Submitters \ {w} : Owns(v) => OfWorker(v) # t
      BY <2>1 DEF SendInv, AttemptFollows, Owns
    <3>2. /\ attempt' = [attempt EXCEPT ![t] = "CLAIMED"] /\ To(w, "destination")
          /\ UNCHANGED <<sends, stopped>> /\ worker[w].pc # "idle"
      BY <1>7, <2>1 DEF ClaimInsert, storeVars, ledgerVars
    <3>3. ~(sends[t] > 0)
      BY <1>1, <1>2, <2>1, <3>2
    <3>4. "CLAIMED" \in AttemptStates
      BY DEF AttemptStates, Unresolved
    <3> QED BY <1>6, <3>1, <3>2, <3>3, <3>4
  <2>2. CASE attempt[t] # "none"
    BY <1>5, <1>7, <2>2 DEF ClaimInsert, storeVars, ledgerVars
  <2> QED BY <2>1, <2>2
<1>8. CASE CheckDestination(w)
  <2>1. /\ worker[w].pc = "destination" /\ Owns(w) /\ attempt[t] = "CLAIMED"
        /\ UNCHANGED <<sends, stopped>>
    BY <1>2, <1>8 DEF CheckDestination, AttemptFollows, Owns, storeVars, ledgerVars
  <2>2. CASE UNCHANGED attempt /\ To(w, "record")
    <3>1. attempt' = [attempt EXCEPT ![t] = "CLAIMED"]
      BY <1>1, <2>1, <2>2
    <3>2. "CLAIMED" \in AttemptStates
      BY DEF AttemptStates, Unresolved
    <3>3. ~(sends[t] > 0)
      BY <1>1, <1>2, <2>1
    <3> QED BY <1>2, <1>6, <2>1, <2>2, <3>1, <3>2, <3>3
  <2>3. CASE attempt' = Abandoned(t) /\ Return(w)
    <3>1. attempt' = [attempt EXCEPT ![t] = "NOT_SENT"]
      BY <2>1, <2>3 DEF Abandoned
    <3>2. "NOT_SENT" \in AttemptStates
      BY DEF AttemptStates
    <3>3. ~(sends[t] > 0)
      BY <1>1, <1>2, <2>1
    <3> QED BY <1>a, <2>1, <2>3, <3>1, <3>2, <3>3
  <2> QED BY <1>8, <2>2, <2>3 DEF CheckDestination
<1>9. CASE RecordPreImage(w) \/ MarkSent(w)
  <2>1. Owns(w) /\ worker[w].pc # "idle" /\ UNCHANGED <<sends, stopped>>
    BY <1>9 DEF RecordPreImage, MarkSent, Owns, storeVars, ledgerVars
  <2>2. attempt[t] \in {"CLAIMED", "PRE_IMAGE_RECORDED"} /\ ~(sends[t] > 0) /\ sends[t] = 0
    BY <1>1, <1>2, <1>9, <2>1 DEF RecordPreImage, MarkSent
  <2>3. "PRE_IMAGE_RECORDED" \in AttemptStates /\ "SENT_OUTCOME_UNKNOWN" \in AttemptStates
    BY DEF AttemptStates, Unresolved
  <2>4. CASE RecordPreImage(w)
    <3>1. attempt' = [attempt EXCEPT ![t] = "PRE_IMAGE_RECORDED"] /\ To(w, "mark")
      BY <2>4 DEF RecordPreImage
    <3> QED BY <1>2, <1>6, <2>1, <2>2, <2>3, <3>1
  <2>5. CASE MarkSent(w)
    <3>1. attempt' = [attempt EXCEPT ![t] = "SENT_OUTCOME_UNKNOWN"] /\ To(w, "send")
      BY <2>5 DEF MarkSent
    <3> QED BY <1>2, <1>6, <2>1, <2>2, <2>3, <3>1
  <2> QED BY <1>9, <2>4, <2>5
<1>10. ASSUME NEW committed \in BOOLEAN, NEW abandoned \in BOOLEAN,
              RecordFails(w, committed, abandoned)
       PROVE  SendInv'
  <2>1. Owns(w) /\ worker[w].pc # "idle" /\ Return(w) /\ UNCHANGED <<sends, stopped>>
    BY <1>10 DEF RecordFails, Owns, storeVars, ledgerVars
  <2>2. attempt[t] \in {"CLAIMED", "PRE_IMAGE_RECORDED"} /\ ~(sends[t] > 0)
    BY <1>1, <1>2, <1>10, <2>1 DEF RecordFails, AttemptFollows
  <2>3. PICK state \in AttemptStates : attempt' = [attempt EXCEPT ![t] = state]
    <3>1. \A x : /\ x \in {"CLAIMED", "PRE_IMAGE_RECORDED", "SENT_OUTCOME_UNKNOWN"} =>
                      x \in AttemptStates
                 /\ "NOT_SENT" \in AttemptStates
      BY DEF AttemptStates, Unresolved
    <3> DEFINE written == IF worker[w].pc = "record" THEN "PRE_IMAGE_RECORDED"
                          ELSE "SENT_OUTCOME_UNKNOWN"
               now == IF committed THEN written ELSE attempt[t]
               state == IF abandoned /\ now # "SENT_OUTCOME_UNKNOWN" THEN "NOT_SENT" ELSE now
    <3>2. attempt' = [attempt EXCEPT ![t] = state]
      BY <1>10 DEF RecordFails
    <3>3. state \in AttemptStates
      BY <2>2, <3>1
    <3> QED BY <3>2, <3>3
  <2> QED BY <1>a, <2>1, <2>2, <2>3
<1>11. CASE SubmitRefuses(w) \/ \E rests, answered \in BOOLEAN : Send(w, rests, answered)
  <2>1. /\ Owns(w) /\ stopped' = stopped /\ UNCHANGED attempt
        /\ attempt[t] = "SENT_OUTCOME_UNKNOWN" /\ sends[t] = 0
    BY <1>1, <1>2, <1>11 DEF SubmitRefuses, Send, Owns, AttemptFollows, storeVars, ledgerVars
  <2>2. PICK answered \in BOOLEAN :
          worker' = [worker EXCEPT ![w].pc = "resolve", ![w].answered = answered]
    BY <1>11 DEF SubmitRefuses, Send
  <2>3. /\ worker' \in [Submitters -> Workers]
        /\ \A v \in Submitters \ {w} : worker'[v] = worker[v]
        /\ worker'[w].pc = "resolve" /\ worker'[w].ticket = t
    BY <1>1, <2>2 DEF Workers, Steps, OfWorker
  <2>4. /\ sends' \in [Tickets -> Nat] /\ sends'[t] <= 1
        /\ \A u \in Tickets \ {t} : sends'[u] = sends[u]
    <3>1. CASE SubmitRefuses(w)
      BY <1>1, <2>1, <3>1 DEF SubmitRefuses
    <3>2. CASE \E rests, answer \in BOOLEAN : Send(w, rests, answer)
      <4>1. sends' = [sends EXCEPT ![t] = @ + 1]
        BY <3>2 DEF Send
      <4> QED BY <1>1, <2>1, <4>1
    <3> QED BY <1>11, <3>1, <3>2
  <2>5. /\ attempt' = [attempt EXCEPT ![t] = "SENT_OUTCOME_UNKNOWN"]
        /\ "SENT_OUTCOME_UNKNOWN" \in AttemptStates /\ "resolve" \in Steps
    BY <1>1, <2>1 DEF AttemptStates, Unresolved, Steps
  <2>6. \A v \in Submitters \ {w} : Owns(v) => OfWorker(v) # t
    BY <1>2, <2>1
  <2>7. TakesAttempt(w, t)
    BY <1>1, <2>1, <2>3, <2>4, <2>5, <2>6 DEF TakesAttempt
  <2> QED BY <2>7, OwnedStep
<1>12. CASE Resolve(w)
  <2>1. /\ Owns(w) /\ worker[w].pc # "idle" /\ Return(w) /\ UNCHANGED <<sends, stopped>>
    BY <1>12 DEF Resolve, Owns, storeVars, ledgerVars
  <2>2. PICK state \in {"RESOLVED", "SENT_OUTCOME_UNKNOWN"} :
          attempt' = [attempt EXCEPT ![t] = state] \/ UNCHANGED attempt
    BY <1>12 DEF Resolve
  <2>3. CASE UNCHANGED attempt
    BY <1>5, <2>1, <2>3
  <2>4. CASE attempt' = [attempt EXCEPT ![t] = state]
    <3>1. state \in AttemptStates
      BY DEF AttemptStates, Unresolved
    <3> QED BY <1>a, <2>1, <2>2, <2>4, <3>1
  <2> QED BY <2>2, <2>3, <2>4
<1> QED BY <1>7, <1>8, <1>9, <1>10, <1>11, <1>12 DEF SubmitNext

\* The ledger's own steps, the operator's release and a resolution by hand of
\* what no process holds preserve the invariant.
LEMMA OtherStep ==
  ASSUME SendInv,
         \/ LedgerNext
         \/ \E t \in Tickets : OperatorReleases(t) \/ ResolveByHand(t)
         \/ UNCHANGED vars
  PROVE  SendInv'
<1>1. ASSUME stopped' \in [Sessions -> BOOLEAN], UNCHANGED sendVars PROVE SendInv'
  BY <1>1 DEF SendInv, sendVars, SendTypeOK, AttemptFollows, Owns, OwnersDiffer, OfWorker,
     OneSendPerApproval, SendIsRecorded
<1>2. stopped \in [Sessions -> BOOLEAN]
  BY DEF SendInv
<1>3. CASE LedgerNext
  <2>1. UNCHANGED sendVars
    BY <1>3 DEF LedgerNext
  <2>2. ASSUME OperatorNext PROVE stopped' \in [Sessions -> BOOLEAN]
    BY <1>2, <2>2 DEF OperatorNext, Stop, Resume, Advance
  <2>3. ASSUME \E a \in Approvers : ApproverNext(a) PROVE stopped' \in [Sessions -> BOOLEAN]
    BY <1>2, <2>3 DEF ApproverNext, LoadSession, LoadLifecycles, InsertLifecycle, ReserveFails,
       ledgerVars
  <2>4. ASSUME \E b \in Bookers : BookerNext(b) PROVE stopped' \in [Sessions -> BOOLEAN]
    BY <1>2, <2>4 DEF BookerNext, BookLock, BookSum, BookCommit, BookFails, ledgerVars
  <2>5. ASSUME \E t \in Tickets : VenuePays(t) \/ VenueEnds(t) PROVE stopped' \in [Sessions -> BOOLEAN]
    BY <1>2, <2>5 DEF VenuePays, VenueEnds, ledgerVars
  <2> QED BY <1>1, <1>3, <2>1, <2>2, <2>3, <2>4, <2>5 DEF LedgerNext
<1>4. ASSUME NEW t \in Tickets, OperatorReleases(t) PROVE SendInv'
  BY <1>1, <1>2, <1>4 DEF OperatorReleases, Release
<1>5. ASSUME NEW t \in Tickets, ResolveByHand(t) PROVE SendInv'
  <2>1. /\ attempt' = [attempt EXCEPT ![t] = "RESOLVED"]
        /\ UNCHANGED <<stopped, worker, sends>>
        /\ \A w \in Submitters : OfWorker(w) # t
    BY <1>5 DEF ResolveByHand, storeVars, ledgerVars
  <2>2. /\ attempt' \in [Tickets -> AttemptStates] /\ attempt'[t] = "RESOLVED"
        /\ \A u \in Tickets \ {t} : attempt'[u] = attempt[u]
    BY <2>1 DEF SendInv, SendTypeOK, AttemptStates
  <2>3. \A w \in Submitters : AttemptFollows(w)'
    <3> TAKE w \in Submitters
    <3>1. CASE worker[w].pc = "idle"
      BY <2>1, <3>1 DEF AttemptFollows
    <3>2. CASE worker[w].pc # "idle"
      BY <2>1, <2>2, <3>2 DEF SendInv, SendTypeOK, AttemptFollows, OfWorker
    <3> QED BY <3>1, <3>2
  <2> QED BY <2>1, <2>2, <2>3 DEF SendInv, SendTypeOK, OwnersDiffer, Owns, OfWorker,
             OneSendPerApproval, SendIsRecorded
<1>6. CASE UNCHANGED vars
  BY <1>1, <1>2, <1>6 DEF vars, storeVars, ledgerVars
<1> QED BY <1>3, <1>4, <1>5, <1>6

\* The invariant is inductive, whatever approvals the operator releases.
THEOREM SendInvariance == Spec => []SendInv
<1>1. ASSUME SendInv, [Next]_vars PROVE SendInv'
  <2>1. CASE LedgerNext \/ UNCHANGED vars
               \/ \E t \in Tickets : OperatorReleases(t) \/ ResolveByHand(t)
    BY <1>1, <2>1, OtherStep
  <2>2. ASSUME NEW w \in Submitters, ClaimNext(w) \/ SubmitNext(w) PROVE SendInv'
    <3>1. CASE ClaimInsert(w) \/ (SubmitNext(w) /\ ~SubmitterStops(w))
      BY <1>1, <3>1, SubmitStep
    <3>2. CASE (ClaimNext(w) /\ ~ClaimInsert(w)) \/ SubmitterStops(w)
      BY <1>1, <3>2, ReadStep DEF ClaimNext
    <3> QED BY <2>2, <3>1, <3>2
  <2> QED BY <1>1, <2>1, <2>2 DEF Next
<1> QED BY <1>1, InitSendInv, PTL DEF Spec

\* Attempts and submitters are always of their types.
THEOREM SendTypeCorrect == Spec => []SendTypeOK
<1>1. SendInv => SendTypeOK
  BY DEF SendInv
<1> QED BY <1>1, SendInvariance, PTL

\* However many processes hold the same approval, retry it and crash, it is
\* sent to the venue at most once.
THEOREM SentAtMostOnce == Spec => []OneSendPerApproval
<1>1. SendInv => OneSendPerApproval
  BY DEF SendInv
<1> QED BY <1>1, SendInvariance, PTL

\* At no moment, a crash's included, has an order gone out that the attempts
\* table does not own up to.
THEOREM SentIsOnRecord == Spec => []SendIsRecorded
<1>1. SendInv => SendIsRecorded
  BY DEF SendInv
<1> QED BY <1>1, SendInvariance, PTL

-----------------------------------------------------------------------------
(* The concurrency cap                                                      *)

\* What an attempt, or a claim about to be made, holds open.
AttemptsAreCovered ==
    /\ \A t \in Tickets : attempt[t] \in Unresolved => IsOpen(t)
    /\ \A w \in Submitters :
         worker[w].pc = "insert" /\ attempt[OfWorker(w)] = "none" => IsOpen(OfWorker(w))

CoverInv == SendInv /\ StoreInv /\ AttemptsAreCovered

\* Whatever opens nothing, closes nothing and claims nothing keeps the cover.
LEMMA CoverStays ==
  ASSUME SendInv, AttemptsAreCovered,
         \A t \in Tickets : IsOpen(t) => IsOpen(t)',
         \A t \in Tickets : attempt'[t] \in Unresolved => attempt[t] \in Unresolved,
         \A t \in Tickets : attempt'[t] = "none" => attempt[t] = "none",
         \A w \in Submitters : worker'[w].pc = "insert" =>
            worker[w].pc = "insert" /\ worker'[w].ticket = worker[w].ticket
  PROVE  AttemptsAreCovered'
<1>1. \A w \in Submitters : worker[w].pc = "insert" => OfWorker(w) \in Tickets
  BY DEF SendInv, SendTypeOK
<1> QED BY <1>1 DEF AttemptsAreCovered, OfWorker

\* A step of the ledger never closes a lifecycle.
LEMMA LedgerKeepsOpen ==
  ASSUME StoreInv, LedgerNext, NEW t \in Tickets, IsOpen(t) PROVE IsOpen(t)'
<1>0. life \in [Tickets -> [state : States, session : Sessions \cup {NoSession},
                            cost : Nat, booked : Nat]]
  BY DEF StoreInv, StoreTyped
<1>1. CASE OperatorNext
  BY <1>0, <1>1 DEF OperatorNext, Stop, Resume, Advance, IsOpen
<1>2. CASE \E a \in Approvers : ApproverNext(a)
  <2>1. ASSUME NEW a \in Approvers, InsertLifecycle(a) PROVE IsOpen(t)'
    BY <1>0, <2>1 DEF InsertLifecycle, IsOpen, OpenStates
  <2>2. ASSUME NEW a \in Approvers, ApproverNext(a), ~InsertLifecycle(a) PROVE IsOpen(t)'
    BY <2>2 DEF ApproverNext, LoadSession, LoadLifecycles, ReserveFails, ledgerVars, IsOpen
  <2> QED BY <1>2, <2>1, <2>2
<1>3. CASE \E b \in Bookers : BookerNext(b)
  BY <1>0, <1>3 DEF BookerNext, BookLock, BookSum, BookCommit, BookFails, ledgerVars, IsOpen
<1>4. CASE \E u \in Tickets : VenuePays(u) \/ VenueEnds(u)
  BY <1>4 DEF VenuePays, VenueEnds, ledgerVars, IsOpen
<1> QED BY <1>1, <1>2, <1>3, <1>4 DEF LedgerNext

\* The ledger's own steps keep the whole invariant.
LEMMA LedgerCovers ==
  ASSUME CoverInv, LedgerNext PROVE CoverInv'
<1> USE DEF CoverInv
<1>1. StoreInv'
  BY ApproverStep, OperatorStep, BookerStep, VenueStep DEF LedgerNext
<1>2. SendInv'
  BY OtherStep
<1>3. UNCHANGED <<attempt, worker>>
  BY DEF LedgerNext, sendVars
<1>4. AttemptsAreCovered'
  BY <1>3, LedgerKeepsOpen, CoverStays
<1> QED BY <1>1, <1>2, <1>4

\* A release is of a lifecycle whose attempt is closed: it uncovers nothing.
LEMMA ReleaseCovers ==
  ASSUME CoverInv, ~ReleaseUnsent, NEW t \in Tickets, OperatorReleases(t)
  PROVE  CoverInv'
<1> USE DEF CoverInv
<1>1. StoreInv'
  BY ReleaseStep DEF OperatorReleases
<1>2. SendInv'
  BY OtherStep
<1>3. /\ attempt[t] \notin Unresolved /\ attempt[t] # "none"
      /\ \A u \in Tickets \ {t} : life'[u] = life[u]
      /\ UNCHANGED <<attempt, worker>>
  BY DEF OperatorReleases, Release, sendVars, Unresolved, StoreInv, StoreTyped
<1>4. AttemptsAreCovered'
  BY <1>3 DEF AttemptsAreCovered, IsOpen, OfWorker, SendInv, SendTypeOK
<1> QED BY <1>1, <1>2, <1>4

\* What a submitter does keeps the whole invariant: a claim is inserted on an
\* open lifecycle, and an order goes out under an unresolved attempt.
LEMMA SubmitterCovers ==
  ASSUME CoverInv, NEW w \in Submitters, ClaimNext(w) \/ SubmitNext(w)
  PROVE  CoverInv'
<1> USE DEF CoverInv
<1>1. SendInv'
  BY SubmitStep, ReadStep DEF ClaimNext
<1>2. CASE \E rests, answered \in BOOLEAN : Send(w, rests, answered)
  <2>1. PICK t \in Tickets : OfWorker(w) = t
    BY <1>2 DEF Send, SendInv, SendTypeOK
  <2>2. AttemptFollows(w) /\ worker[w].pc = "send"
    BY <1>2 DEF Send, SendInv
  <2>3. IsOpen(t)
    BY <2>1, <2>2 DEF AttemptFollows, AttemptsAreCovered, Unresolved
  <2>4. /\ order' = order \/ order' = [order EXCEPT ![t] = "live"]
        /\ UNCHANGED <<ledgerVars, paid, req, booking, attempt>>
    BY <1>2, <2>1 DEF Send
  <2>5. StoreInv'
    <3>1. UNCHANGED <<spent, stopped, life, paid, req, booking>>
      BY <2>4 DEF ledgerVars
    <3>2. order' \in [Tickets -> {"none", "live", "terminal"}]
      BY <2>4 DEF StoreInv, StoreTyped
    <3>3. StoreTyped' /\ TableOfRows'
      BY <3>1, <3>2, TableStays DEF StoreInv, StoreTyped
    <3>4. OneOpenLifecycle' /\ BookingsHoldRows'
      BY <3>1 DEF StoreInv, OneOpenLifecycle, BookingsHoldRows, IsOpen
    <3>5. CashIsCovered'
      BY <2>3, <2>4, <3>1 DEF StoreInv, StoreTyped, CashIsCovered, IsOpen
    <3> QED BY <3>3, <3>4, <3>5 DEF StoreInv
  <2>6. \A v \in Submitters : worker'[v].pc = "insert" =>
           worker[v].pc = "insert" /\ worker'[v].ticket = worker[v].ticket
    BY <1>2 DEF Send, SendInv, SendTypeOK, Workers
  <2>7. \A u \in Tickets : IsOpen(u) => IsOpen(u)'
    BY <2>4 DEF IsOpen, ledgerVars
  <2>8. AttemptsAreCovered'
    BY <2>4, <2>6, <2>7, CoverStays
  <2> QED BY <1>1, <2>5, <2>8
<1>3. CASE ~\E rests, answered \in BOOLEAN : Send(w, rests, answered)
  <2>1. UNCHANGED storeVars
    BY <1>3 DEF ClaimNext, ClaimLoadSession, ClaimLoadLifecycles, ClaimReadAttempts,
       ClaimReadRow, ClaimInsert, SubmitNext, CheckDestination, RecordPreImage, MarkSent,
       RecordFails, SubmitRefuses, Resolve, SubmitterStops
  <2>2. StoreInv' /\ \A t \in Tickets : IsOpen(t)' <=> IsOpen(t)
    BY <2>1, TableStays DEF storeVars, ledgerVars, StoreInv, StoreTyped, OneOpenLifecycle, CashIsCovered,
       BookingsHoldRows, IsOpen
  <2>3. CASE ClaimReadRow(w)
    <3>1. /\ UNCHANGED attempt
          /\ worker'[w].pc = "insert" => IsOpen(OfWorker(w)) /\ worker'[w].ticket = OfWorker(w)
          /\ \A v \in Submitters \ {w} : worker'[v] = worker[v]
      BY <2>3 DEF ClaimReadRow, To, Return, Resting, IsOpen, OpenStates, OfWorker, SendInv,
         SendTypeOK, Workers
    <3>2. \A v \in Submitters : worker'[v].pc = "insert" => worker'[v].ticket \in Tickets
      BY <1>1 DEF SendInv, SendTypeOK, OfWorker
    <3>3. AttemptsAreCovered'
      BY <2>2, <3>1, <3>2 DEF AttemptsAreCovered, OfWorker
    <3> QED BY <1>1, <2>2, <3>3
  <2>4. CASE ClaimInsert(w)
    <3>1. PICK t \in Tickets : OfWorker(w) = t
      BY <2>4 DEF ClaimInsert, SendInv, SendTypeOK
    <3>2. /\ worker'[w].pc # "insert"
          /\ \A v \in Submitters \ {w} : worker'[v] = worker[v]
      BY <2>4 DEF ClaimInsert, To, Return, Resting, SendInv, SendTypeOK, Workers
    <3>3. \/ /\ attempt[t] = "none" /\ IsOpen(t)
             /\ attempt' = [attempt EXCEPT ![t] = "CLAIMED"]
          \/ UNCHANGED attempt
      BY <2>4, <3>1 DEF ClaimInsert, AttemptsAreCovered
    <3>4. \A v \in Submitters : worker[v].pc = "insert" => OfWorker(v) \in Tickets
      BY DEF SendInv, SendTypeOK
    <3>5. AttemptsAreCovered'
      BY <2>2, <3>2, <3>3, <3>4 DEF AttemptsAreCovered, OfWorker, SendInv, SendTypeOK
    <3> QED BY <1>1, <2>2, <3>5
  <2>5. CASE ~ClaimReadRow(w) /\ ~ClaimInsert(w)
    <3>1. \A v \in Submitters : worker'[v].pc = "insert" =>
             worker[v].pc = "insert" /\ worker'[v].ticket = worker[v].ticket
      <4>1. \/ Return(w)
            \/ \E pc \in {"row", "destination", "record", "mark", "send"} : To(w, pc)
            \/ worker'[w].pc # "insert" /\ \A v \in Submitters \ {w} : worker'[v] = worker[v]
        <5>1. CASE ClaimLoadLifecycles(w)
          <6>1. CASE worker[w].stopped
            BY <5>1, <6>1 DEF ClaimLoadLifecycles
          <6>2. CASE ~worker[w].stopped
            <7>1. PICK clear : worker' = [worker EXCEPT ![w].pc = "attempts", ![w].clear = clear]
              BY <5>1, <6>2, Zenon DEF ClaimLoadLifecycles
            <7> QED BY <7>1 DEF SendInv, SendTypeOK, Workers
          <6> QED BY <6>1, <6>2
        <5>2. CASE \E t \in Tickets, s \in Sessions : ClaimLoadSession(w, t, s)
          BY <5>2 DEF ClaimLoadSession, Resting, SendInv, SendTypeOK
        <5>3. CASE SubmitRefuses(w)
          BY <5>3 DEF SubmitRefuses, SendInv, SendTypeOK, Workers
        <5>4. CASE \E committed, abandoned \in BOOLEAN : RecordFails(w, committed, abandoned)
          BY <5>4 DEF RecordFails
        <5>5. CASE ClaimReadAttempts(w) \/ CheckDestination(w) \/ RecordPreImage(w) \/ MarkSent(w)
                   \/ Resolve(w) \/ SubmitterStops(w)
          BY <5>5 DEF ClaimReadAttempts, CheckDestination, RecordPreImage, MarkSent, Resolve,
             SubmitterStops
        <5> QED BY <1>3, <2>3, <2>5, <5>1, <5>2, <5>3, <5>4, <5>5 DEF ClaimNext, SubmitNext
      <4> QED BY <4>1 DEF To, Return, Resting, SendInv, SendTypeOK, Workers
    <3>2. \A t \in Tickets : /\ attempt'[t] \in Unresolved => attempt[t] \in Unresolved
                             /\ attempt'[t] = "none" => attempt[t] = "none"
      <4>1. worker[w].pc # "idle" => OfWorker(w) \in Tickets
        BY DEF SendInv, SendTypeOK
      <4>2. attempt \in [Tickets -> AttemptStates] /\ AttemptFollows(w)
        BY DEF SendInv, SendTypeOK
      <4>3. CASE UNCHANGED attempt
        BY <4>3
      <4>4. CASE CheckDestination(w) \/ RecordPreImage(w) \/ MarkSent(w) \/ Resolve(w)
        BY <4>1, <4>2, <4>4 DEF CheckDestination, Abandoned, RecordPreImage, MarkSent, Resolve,
           AttemptFollows, Unresolved
      <4>5. ASSUME NEW committed \in BOOLEAN, NEW abandoned \in BOOLEAN,
                   RecordFails(w, committed, abandoned), NEW t \in Tickets
            PROVE  /\ attempt'[t] \in Unresolved => attempt[t] \in Unresolved
                   /\ attempt'[t] = "none" => attempt[t] = "none"
        <5>1. worker[w].pc \in {"record", "mark"} /\ attempt[OfWorker(w)] \in Unresolved
          BY <4>2, <4>5 DEF RecordFails, AttemptFollows, Unresolved
        <5>2. \A u \in Tickets \ {OfWorker(w)} : attempt'[u] = attempt[u]
          BY <4>2, <4>5 DEF RecordFails
        <5>3. attempt'[OfWorker(w)] # "none"
          BY <4>1, <4>2, <4>5, <5>1 DEF RecordFails, Unresolved
        <5> QED BY <5>1, <5>2, <5>3
      <4>6. \/ CheckDestination(w) \/ RecordPreImage(w) \/ MarkSent(w) \/ Resolve(w)
            \/ UNCHANGED attempt
            \/ \E committed, abandoned \in BOOLEAN : RecordFails(w, committed, abandoned)
        BY <1>3, <2>5 DEF ClaimNext, ClaimLoadSession, ClaimLoadLifecycles, ClaimReadAttempts,
           SubmitNext, SubmitRefuses, SubmitterStops
      <4>7. CASE \E committed, abandoned \in BOOLEAN : RecordFails(w, committed, abandoned)
        BY <4>5, <4>7, Zenon
      <4> QED BY <4>3, <4>4, <4>6, <4>7
    <3>3. \A t \in Tickets : IsOpen(t) => IsOpen(t)'
      BY <2>1 DEF storeVars, ledgerVars, IsOpen
    <3>4. AttemptsAreCovered'
      BY <3>1, <3>2, <3>3, CoverStays
    <3> QED BY <1>1, <2>2, <3>4
  <2> QED BY <2>3, <2>4, <2>5
<1> QED BY <1>2, <1>3

\* By hand an attempt is only ever closed.
LEMMA ResolveCovers ==
  ASSUME CoverInv, NEW t \in Tickets, ResolveByHand(t) PROVE CoverInv'
<1> USE DEF CoverInv
<1>1. /\ UNCHANGED <<storeVars, worker>>
      /\ \A u \in Tickets : /\ attempt'[u] \in Unresolved => attempt[u] \in Unresolved
                            /\ attempt'[u] = "none" => attempt[u] = "none"
  BY DEF ResolveByHand, Unresolved, SendInv, SendTypeOK
<1>2. StoreInv' /\ \A u \in Tickets : IsOpen(u) => IsOpen(u)'
  BY <1>1, TableStays DEF storeVars, ledgerVars, StoreInv, StoreTyped, OneOpenLifecycle,
     CashIsCovered, BookingsHoldRows, IsOpen
<1>3. SendInv'
  BY OtherStep
<1>4. AttemptsAreCovered'
  BY <1>1, <1>2, CoverStays
<1> QED BY <1>2, <1>3, <1>4

\* While the operator releases only what has been sent or given up, the whole
\* invariant is inductive.
THEOREM CoverInvariance == ASSUME ~ReleaseUnsent PROVE Spec => []CoverInv
<1>1. Init => CoverInv
  <2>1. Init => AttemptsAreCovered
    BY DEF Init, StoreInit, AttemptsAreCovered, Resting, Unresolved, OfWorker
  <2> QED BY <2>1, InitSendInv, InitStoreInv DEF Init, CoverInv
<1>2. ASSUME CoverInv, [Next]_vars PROVE CoverInv'
  <2>1. CASE Next
    BY <1>2, <2>1, LedgerCovers, ReleaseCovers, SubmitterCovers, ResolveCovers DEF Next
  <2>2. CASE UNCHANGED vars
    <3>1. SendInv'
      BY <1>2, <2>2, OtherStep DEF CoverInv
    <3>2. StoreInv'
      BY <1>2, <2>2, TableStays DEF vars, storeVars, ledgerVars, CoverInv, StoreInv, StoreTyped,
         OneOpenLifecycle, CashIsCovered, BookingsHoldRows, IsOpen
    <3>3. AttemptsAreCovered'
      BY <1>2, <2>2 DEF vars, sendVars, storeVars, ledgerVars, CoverInv, IsOpen,
         AttemptsAreCovered, OfWorker
    <3> QED BY <3>1, <3>2, <3>3 DEF CoverInv
  <2> QED BY <1>2, <2>1, <2>2
<1> QED BY <1>1, <1>2, PTL DEF Spec

\* Then two attempts are never unresolved at once, in one session or in two.
THEOREM UnresolvedBlocksAll == ASSUME ~ReleaseUnsent PROVE Spec => []OneUnresolvedAttempt
<1>1. CoverInv => OneUnresolvedAttempt
  BY DEF CoverInv, AttemptsAreCovered, StoreInv, OneOpenLifecycle, OneUnresolvedAttempt
<1> QED BY <1>1, CoverInvariance, PTL

\* And at most one order can rest at the venue, under an open lifecycle.
THEOREM OneLiveOrder == ASSUME ~ReleaseUnsent PROVE Spec => []OneOrderAtVenue
<1>1. CoverInv => OneOrderAtVenue
  BY DEF CoverInv, StoreInv, CashIsCovered, OneOpenLifecycle, OneOrderAtVenue
<1> QED BY <1>1, CoverInvariance, PTL

-----------------------------------------------------------------------------
(* The budget under the guarded send                                        *)

\* A ticket that was never sent has no order.
OrdersAreSends == \A t \in Tickets : sends[t] = 0 => order[t] = "none"

\* A submitter touches the budget by sending only.
LEMMA SubmitterQuiet ==
  ASSUME NEW w \in Submitters, ClaimNext(w) \/ SubmitNext(w)
  PROVE  \/ UNCHANGED <<storeVars, sends>>
         \/ \E rests, answered \in BOOLEAN : Send(w, rests, answered)
  BY DEF ClaimNext, ClaimLoadSession, ClaimLoadLifecycles, ClaimReadAttempts, ClaimReadRow,
     ClaimInsert, SubmitNext, CheckDestination, RecordPreImage, MarkSent, RecordFails,
     SubmitRefuses, Resolve, SubmitterStops

LEMMA OrdersNeedSends ==
  ASSUME SendTypeOK, StoreTyped, OrdersAreSends, [Next]_vars PROVE OrdersAreSends'
<1>1. CASE UNCHANGED <<order, sends>>
  BY <1>1 DEF OrdersAreSends
<1>2. ASSUME NEW t \in Tickets, order[t] = "live", UNCHANGED sends,
             \A u \in Tickets \ {t} : order'[u] = order[u]
      PROVE  OrdersAreSends'
  BY <1>2 DEF OrdersAreSends
<1>3. ASSUME NEW w \in Submitters, NEW rests \in BOOLEAN, NEW answered \in BOOLEAN,
             Send(w, rests, answered)
      PROVE  OrdersAreSends'
  <2>1. PICK t \in Tickets : OfWorker(w) = t
    BY <1>3 DEF Send, SendTypeOK
  <2>2. PICK n \in Nat : sends[t] = n
    BY DEF SendTypeOK
  <2>3. /\ sends'[t] = n + 1 /\ n + 1 # 0
        /\ \A u \in Tickets \ {t} : sends'[u] = sends[u] /\ order'[u] = order[u]
    BY <1>3, <2>1, <2>2 DEF Send, SendTypeOK, StoreTyped
  <2> QED BY <2>3 DEF OrdersAreSends
<1>4. CASE LedgerNext
  <2>1. CASE \E t \in Tickets : VenuePays(t) \/ VenueEnds(t)
    <3>1. UNCHANGED sends
      BY <1>4 DEF LedgerNext, sendVars
    <3>2. PICK t \in Tickets : VenuePays(t) \/ VenueEnds(t)
      BY <2>1
    <3>3. CASE VenuePays(t)
      BY <1>1, <3>1, <3>3 DEF VenuePays
    <3>4. CASE VenueEnds(t)
      <4>1. order[t] = "live" /\ \A u \in Tickets \ {t} : order'[u] = order[u]
        BY <3>4 DEF VenueEnds, StoreTyped
      <4> QED BY <1>2, <3>1, <4>1
    <3> QED BY <3>2, <3>3, <3>4
  <2>2. CASE \E a \in Approvers : ApproverNext(a)
    BY <1>1, <1>4, <2>2 DEF LedgerNext, sendVars, ApproverNext, LoadSession, LoadLifecycles,
       InsertLifecycle, ReserveFails
  <2>3. CASE OperatorNext \/ \E b \in Bookers : BookerNext(b)
    BY <1>1, <1>4, <2>3 DEF LedgerNext, sendVars, OperatorNext, Stop, Resume, Advance, BookerNext,
       BookLock, BookSum, BookCommit, BookFails
  <2> QED BY <1>4, <2>1, <2>2, <2>3 DEF LedgerNext
<1>5. CASE \E t \in Tickets : OperatorReleases(t) \/ ResolveByHand(t)
  BY <1>1, <1>5 DEF OperatorReleases, Release, ResolveByHand, sendVars, storeVars
<1>6. ASSUME NEW w \in Submitters, ClaimNext(w) \/ SubmitNext(w) PROVE OrdersAreSends'
  <2>1. CASE UNCHANGED <<storeVars, sends>>
    BY <1>1, <2>1 DEF storeVars
  <2> QED BY <1>3, <1>6, <2>1, SubmitterQuiet
<1>7. CASE UNCHANGED vars
  BY <1>1, <1>7 DEF vars, storeVars, sendVars
<1> QED BY <1>4, <1>5, <1>6, <1>7 DEF Next

\* A step of the guarded send is one of the budget, or leaves it alone: what
\* goes out is a ticket whose lifecycle is open and that has no order.
LEMMA SendIsStoreStep ==
  ASSUME CoverInv, OrdersAreSends, [Next]_vars PROVE [StoreNext]_storeVars
<1>1. ASSUME NEW w \in Submitters, ClaimNext(w) \/ SubmitNext(w) PROVE [StoreNext]_storeVars
  <2>1. ASSUME NEW rests \in BOOLEAN, NEW answered \in BOOLEAN, Send(w, rests, answered)
        PROVE  [StoreNext]_storeVars
    <3>1. PICK t \in Tickets : OfWorker(w) = t
      BY <2>1 DEF Send, CoverInv, SendInv, SendTypeOK
    <3>2. attempt[t] = "SENT_OUTCOME_UNKNOWN" /\ sends[t] = 0
      BY <2>1, <3>1 DEF Send, CoverInv, SendInv, AttemptFollows
    <3>3. IsOpen(t) /\ order[t] = "none"
      BY <3>2 DEF CoverInv, AttemptsAreCovered, Unresolved, OrdersAreSends
    <3>4. /\ order' = order \/ order' = [order EXCEPT ![t] = "live"]
          /\ UNCHANGED <<ledgerVars, paid, req, booking>>
      BY <2>1, <3>1 DEF Send
    <3>5. VenueOpens(t) \/ UNCHANGED storeVars
      BY <3>3, <3>4 DEF VenueOpens, storeVars
    <3> QED BY <3>5 DEF StoreNext
  <2> QED BY <1>1, <2>1, SubmitterQuiet
<1>2. CASE LedgerNext
  BY <1>2 DEF LedgerNext, StoreNext
<1>3. CASE \E t \in Tickets : OperatorReleases(t) \/ ResolveByHand(t)
  BY <1>3 DEF OperatorReleases, ResolveByHand, StoreNext
<1>4. CASE UNCHANGED vars
  BY <1>4 DEF vars
<1> QED BY <1>1, <1>2, <1>3, <1>4 DEF Next

\* The guarded send implements the budget, with the send in the place of the
\* venue's opening: while the operator releases only what has been sent or
\* given up, it opens no order that the ledger does not cover.
THEOREM SendImplementsStore == ASSUME ~ReleaseUnsent PROVE Spec => StoreSpec
<1>1. Init => StoreInit /\ OrdersAreSends
  BY DEF Init, StoreInit, OrdersAreSends
<1>2. CoverInv /\ OrdersAreSends /\ [Next]_vars => OrdersAreSends'
  BY OrdersNeedSends DEF CoverInv, SendInv, StoreInv
<1>3. CoverInv /\ OrdersAreSends /\ [Next]_vars => [StoreNext]_storeVars
  BY SendIsStoreStep
<1> QED BY <1>1, <1>2, <1>3, CoverInvariance, PTL DEF Spec, StoreSpec

\* So what is proved of the budget holds while orders are sent and answers are
\* lost: one lifecycle open, cash covered, totals that claim what was booked
\* and fall only where two bookings crossed, and until then a ceiling passed
\* by no more than what was in flight.
THEOREM BudgetUnderSend ==
  ASSUME ~ReleaseUnsent, IsFiniteSet(Approvers)
  PROVE  Spec => /\ [](OneOpenLifecycle /\ CashIsCovered /\ SpentIsBooked /\ OvershootBounded)
                 /\ OnlyCrossingLowers
  BY SendImplementsStore, AtMostOneOpen, CashAlwaysCovered, TotalIsBooked, FallsOnlyIfCrossed,
     OvershootIsBounded, PTL
=============================================================================
