--------------------------- MODULE CalibrationSend ---------------------------
(***************************************************************************)
(* One approval, at most one send: calibration_store.claim_send and the    *)
(* attempt states of calibration_send_attempts (migration 066), driven by  *)
(* calibration_execute.guarded_submit over the budget of CalibrationStore. *)
(*                                                                         *)
(* The claim is an INSERT with a UNIQUE client_order_id; the pre-image and *)
(* the mark are durable before the network call; whatever cannot be        *)
(* recorded is not sent.  A submitter may crash between any two steps, and *)
(* the venue's answer may be lost with or without the order having rested. *)
(***************************************************************************)
EXTENDS CalibrationStore

CONSTANTS
    Submitters,    \* processes that may run guarded_submit at the same time
    ReleaseUnsent  \* the operator also releases approvals nobody has claimed

ASSUME ReleaseAssumption == ReleaseUnsent \in BOOLEAN

VARIABLES
    attempt,  \* calibration_send_attempts, by client_order_id
    worker,   \* each submitter: the guarded_submit it is in
    sends     \* orders sent to the venue per ticket (a history variable)

sendVars == <<attempt, worker, sends>>
vars == <<storeVars, sendVars>>

Unresolved == {"CLAIMED", "PRE_IMAGE_RECORDED", "SENT_OUTCOME_UNKNOWN"}
AttemptStates == Unresolved \cup {"none", "RESOLVED", "NOT_SENT"}

Resting == [pc |-> "idle", ticket |-> NoTicket, session |-> NoSession,
            stopped |-> FALSE, clear |-> FALSE, answered |-> FALSE]
Steps == {"idle", "lifecycles", "attempts", "row", "insert", "destination",
          "record", "mark", "send", "resolve"}
Workers == [pc : Steps, ticket : Tickets \cup {NoTicket}, session : Sessions \cup {NoSession},
            stopped : BOOLEAN, clear : BOOLEAN, answered : BOOLEAN]

Init ==
    /\ StoreInit
    /\ attempt = [t \in Tickets |-> "none"]
    /\ worker = [w \in Submitters |-> Resting]
    /\ sends = [t \in Tickets |-> 0]

To(w, pc) == worker' = [worker EXCEPT ![w].pc = pc]
Return(w) == worker' = [worker EXCEPT ![w] = Resting]
OfWorker(w) == worker[w].ticket

-----------------------------------------------------------------------------
(* claim_send: four reads and an INSERT, none of them in one transaction     *)

\* load's first statement: the session row; what it decides is the stop.
ClaimLoadSession(w, t, s) ==
    /\ worker[w].pc = "idle"
    /\ worker' = [worker EXCEPT ![w] = [Resting EXCEPT !.pc = "lifecycles", !.ticket = t,
                                        !.session = s, !.stopped = stopped[s]]]
    /\ UNCHANGED <<storeVars, attempt, sends>>

\* load's second statement: another open lifecycle of the session holds the
\* slot.  The budget is read here too, with the spend of the first statement:
\* since the reserve of an unsent ticket is in it, it can only refuse.
ClaimLoadLifecycles(w) ==
    /\ worker[w].pc = "lifecycles"
    /\ \E withinBudget \in BOOLEAN :
         LET alone == \A u \in OfSession(worker[w].session) \ {OfWorker(w)} : ~IsOpen(u)
         IN IF worker[w].stopped THEN Return(w)
            ELSE worker' = [worker EXCEPT ![w].pc = "attempts",
                                          ![w].clear = alone /\ withinBudget]
    /\ UNCHANGED <<storeVars, attempt, sends>>

\* any_unresolved_attempt: in every session.
ClaimReadAttempts(w) ==
    /\ worker[w].pc = "attempts"
    /\ IF \E u \in Tickets : attempt[u] \in Unresolved THEN Return(w) ELSE To(w, "row")
    /\ UNCHANGED <<storeVars, attempt, sends>>

\* The approved row: approved, its reserve held, no order on it; then the
\* checks made of the two statements of load.
ClaimReadRow(w) ==
    /\ worker[w].pc = "row"
    /\ IF life[OfWorker(w)].state = "APPROVED" /\ worker[w].clear
       THEN To(w, "insert") ELSE Return(w)
    /\ UNCHANGED <<storeVars, attempt, sends>>

\* Mutant: INSERT ... ON CONFLICT DO UPDATE: a second claim takes it over.
ClaimTakesOver(w) ==
    /\ worker[w].pc = "insert"
    /\ attempt' = [attempt EXCEPT ![OfWorker(w)] = "CLAIMED"]
    /\ To(w, "destination")
    /\ UNCHANGED <<storeVars, sends>>

\* UNIQUE client_order_id decides between two claims of one approval.
ClaimInsert(w) ==
    /\ worker[w].pc = "insert"
    /\ IF attempt[OfWorker(w)] = "none"
       THEN attempt' = [attempt EXCEPT ![OfWorker(w)] = "CLAIMED"] /\ To(w, "destination")
       ELSE UNCHANGED attempt /\ Return(w)
    /\ UNCHANGED <<storeVars, sends>>

-----------------------------------------------------------------------------
(* guarded_submit after the claim                                           *)

\* Mutant: a state that the table's CHECK does not list.
AbandonedByName(t) == IF attempt[t] \in {"CLAIMED", "PRE_IMAGE_RECORDED"}
                      THEN [attempt EXCEPT ![t] = "ABANDONED"] ELSE attempt

\* abandon_attempt: NOT_SENT, unless the attempt is already marked sent.
Abandoned(t) == IF attempt[t] \in {"CLAIMED", "PRE_IMAGE_RECORDED"}
                THEN [attempt EXCEPT ![t] = "NOT_SENT"] ELSE attempt

\* The adapter's destination matches the approval, the pre-image is readable
\* and the client id minted; otherwise the attempt is abandoned.
CheckDestination(w) ==
    /\ worker[w].pc = "destination"
    /\ \/ UNCHANGED attempt /\ To(w, "record")
       \/ attempt' = Abandoned(OfWorker(w)) /\ Return(w)
    /\ UNCHANGED <<storeVars, sends>>

\* record_pre_image: an UPDATE of a CLAIMED attempt; no row is an error.
RecordPreImage(w) ==
    /\ worker[w].pc = "record" /\ attempt[OfWorker(w)] = "CLAIMED"
    /\ attempt' = [attempt EXCEPT ![OfWorker(w)] = "PRE_IMAGE_RECORDED"]
    /\ To(w, "mark")
    /\ UNCHANGED <<storeVars, sends>>

\* Mutant: the attempt is marked when the answer is known, not before.
MarkLater(w) ==
    /\ worker[w].pc = "mark" /\ attempt[OfWorker(w)] = "PRE_IMAGE_RECORDED"
    /\ To(w, "send")
    /\ UNCHANGED <<storeVars, attempt, sends>>

\* mark_sent: an UPDATE of a PRE_IMAGE_RECORDED attempt, before the call.
MarkSent(w) ==
    /\ worker[w].pc = "mark" /\ attempt[OfWorker(w)] = "PRE_IMAGE_RECORDED"
    /\ attempt' = [attempt EXCEPT ![OfWorker(w)] = "SENT_OUTCOME_UNKNOWN"]
    /\ To(w, "send")
    /\ UNCHANGED <<storeVars, sends>>

\* Either record raises, before its UPDATE committed or after: the attempt is
\* abandoned, or that write fails too, and nothing is sent.
RecordFails(w, committed, abandoned) ==
    /\ worker[w].pc \in {"record", "mark"}
    /\ LET t == OfWorker(w)
           written == IF worker[w].pc = "record" THEN "PRE_IMAGE_RECORDED"
                      ELSE "SENT_OUTCOME_UNKNOWN"
           now == IF committed THEN written ELSE attempt[t]
       IN attempt' = [attempt EXCEPT ![t] =
                        IF abandoned /\ now # "SENT_OUTCOME_UNKNOWN" THEN "NOT_SENT" ELSE now]
    /\ Return(w)
    /\ UNCHANGED <<storeVars, sends>>

\* submit: the ticket cannot be mapped or the second pre-image is unreadable.
SubmitRefuses(w) ==
    /\ worker[w].pc = "send"
    /\ worker' = [worker EXCEPT ![w].pc = "resolve", ![w].answered = TRUE]
    /\ UNCHANGED <<storeVars, attempt, sends>>

\* The one send: the venue rests the order or rejects it, and its answer
\* arrives (a named outcome) or is lost (AMBIGUOUS, and never retried).
Send(w, rests, answered) ==
    /\ worker[w].pc = "send"
    /\ LET t == OfWorker(w) IN
       /\ sends' = [sends EXCEPT ![t] = @ + 1]
       /\ order' = IF rests THEN [order EXCEPT ![t] = "live"] ELSE order
    /\ worker' = [worker EXCEPT ![w].pc = "resolve", ![w].answered = answered]
    /\ UNCHANGED <<ledgerVars, paid, req, booking, attempt>>

\* resolve_attempt: only a named outcome resolves; the write may fail.
Resolve(w) ==
    /\ worker[w].pc = "resolve"
    /\ \/ attempt' = [attempt EXCEPT ![OfWorker(w)] =
                        IF worker[w].answered THEN "RESOLVED" ELSE "SENT_OUTCOME_UNKNOWN"]
       \/ UNCHANGED attempt
    /\ Return(w)
    /\ UNCHANGED <<storeVars, sends>>

\* A store read fails, or the process dies: whatever it held is forgotten.
SubmitterStops(w) ==
    /\ worker[w].pc # "idle"
    /\ Return(w)
    /\ UNCHANGED <<storeVars, attempt, sends>>

\* A human resolves what a process left behind, knowing what the venue holds:
\* an order that is still live is left to the next look.
ResolveByHand(t) ==
    /\ attempt[t] \in Unresolved /\ order[t] # "live"
    /\ \A w \in Submitters : OfWorker(w) # t
    /\ attempt' = [attempt EXCEPT ![t] = "RESOLVED"]
    /\ UNCHANGED <<storeVars, worker, sends>>

\* The operator releases a reconciled lifecycle whose attempt is closed, and
\* under ReleaseUnsent an approval that no attempt was made on.
OperatorReleases(t) ==
    /\ Reconciled(t)
    /\ \/ attempt[t] \in {"RESOLVED", "NOT_SENT"}
       \/ ReleaseUnsent /\ attempt[t] = "none"
    /\ Release(t)
    /\ UNCHANGED sendVars

-----------------------------------------------------------------------------
ClaimNext(w) ==
    \/ \E t \in Tickets, s \in Sessions : ClaimLoadSession(w, t, s)
    \/ ClaimLoadLifecycles(w) \/ ClaimReadAttempts(w) \/ ClaimReadRow(w) \/ ClaimInsert(w)

SubmitNext(w) ==
    \/ CheckDestination(w) \/ RecordPreImage(w) \/ MarkSent(w)
    \/ \E committed, abandoned \in BOOLEAN : RecordFails(w, committed, abandoned)
    \/ SubmitRefuses(w)
    \/ \E rests, answered \in BOOLEAN : Send(w, rests, answered)
    \/ Resolve(w)
    \/ SubmitterStops(w)

\* The ledger's own steps, with the guarded send in the place of VenueOpens.
LedgerNext ==
    /\ \/ \E a \in Approvers : ApproverNext(a)
       \/ OperatorNext
       \/ \E b \in Bookers : BookerNext(b)
       \/ \E t \in Tickets : VenuePays(t) \/ VenueEnds(t)
    /\ UNCHANGED sendVars

Next ==
    \/ \E w \in Submitters : ClaimNext(w) \/ SubmitNext(w)
    \/ LedgerNext
    \/ \E t \in Tickets : OperatorReleases(t) \/ ResolveByHand(t)

Spec == Init /\ [][Next]_vars

-----------------------------------------------------------------------------
(* Properties                                                               *)

\* The attempts and the submitters are of their types.
SendTypeOK ==
    /\ attempt \in [Tickets -> AttemptStates]
    /\ worker \in [Submitters -> Workers]
    /\ \A w \in Submitters : worker[w].pc # "idle" => OfWorker(w) \in Tickets
    /\ sends \in [Tickets -> Nat]

\* "One approval permits at most one send attempt", whoever else holds the
\* same ticket, retries it or takes over after a crash.
OneSendPerApproval == \A t \in Tickets : sends[t] <= 1

\* Whatever reached the venue is on record as sent, at every moment: a crash
\* leaves SENT_OUTCOME_UNKNOWN behind, never a claim that says nothing went.
SendIsRecorded ==
    \A t \in Tickets : sends[t] > 0 => attempt[t] \in {"SENT_OUTCOME_UNKNOWN", "RESOLVED"}

\* An order that may rest at the venue is covered by an open lifecycle, and
\* there is one such lifecycle: the concurrency cap holds at the venue.
OneOrderAtVenue ==
    /\ \A t \in Tickets : order[t] = "live" => IsOpen(t)
    /\ \A t, u \in Tickets : order[t] = "live" /\ order[u] = "live" => t = u

\* "Until it is resolved no further send is permitted, on this approval or
\* any other": two attempts are never unresolved at once.
OneUnresolvedAttempt ==
    \A t, u \in Tickets : attempt[t] \in Unresolved /\ attempt[u] \in Unresolved => t = u
=============================================================================
