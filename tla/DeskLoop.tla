------------------------------- MODULE DeskLoop -------------------------------
(***************************************************************************)
(* The loop of the shadow desk (bettor_desk_loop.py).  Every instance of   *)
(* the API starts one; a session-level advisory lock lets one of them      *)
(* work.  It restores the book and the cursor, then cycles: read the pause *)
(* flag, read a batch of trades past the cursor, step the desk through it  *)
(* in memory, and persist book and cursor in one transaction.              *)
(*                                                                         *)
(* Trades come from other processes.  A serial id is drawn before its row  *)
(* commits, so ids become visible in any order, and a row without          *)
(* condition_id (bare) is not evidence until enrichment fills it in.       *)
(*                                                                         *)
(* The lock, the transaction and every statement of an instance use one    *)
(* connection.  When the connection or the process is lost the server's    *)
(* session outlives it (Ghost): it keeps the lock, and may still commit    *)
(* what it was sent, until it ends.                                        *)
(*                                                                         *)
(* A book is a function: how often each trade has been stepped into it.    *)
(***************************************************************************)
EXTENDS Naturals, FiniteSets

CONSTANTS
    Instances,  \* processes that run the loop, across deploys
    Nobody,     \* the lock is free
    Ghost,      \* the lock is held by a session whose client is gone
    MaxId,      \* bound: serial ids drawn
    Batch,      \* BATCH
    MaxFaults   \* bound: crashes, lost connections, failed cycles and starts

ASSUME NamesAssumption == Nobody \notin Instances /\ Ghost \notin Instances /\ Nobody # Ghost
ASSUME SizesAssumption == MaxId \in Nat /\ Batch \in Nat \ {0} /\ MaxFaults \in Nat

Ids == 1..MaxId
Flat == [e \in Ids |-> 0]

VARIABLES
    row,      \* each id: no row, a bare row, or one the desk can read
    paused,   \* bettor_desk_accounts.paused
    durable,  \* cursor and book as committed; cursor 0: no state row yet
    owner,    \* who holds the advisory lock
    pending,  \* what the Ghost's session may still commit (none or one)
    pc,       \* each instance: where it is
    mem,      \* each instance: its desk, cursor, committed_cursor, recovery_required
    seed,     \* the feed head the latest start without a state row began from
    behind,   \* ids that became readable behind a cursor (history)
    faults

feedVars == <<row, behind>>
vars == <<feedVars, paused, durable, owner, pending, pc, mem, seed, faults>>

\* down: no process.  cut: the process is up, its connection is not; the
\* pause flag is unreadable, so it reports a pause for ever.  halted: startup
\* failed, and the process sleeps on the lock.
Holding == {"start", "load", "restore", "top", "recover", "read", "persist", "halted"}

State(i) == [cursor |-> mem[i].cursor, book |-> mem[i].book]
Fresh == [book |-> Flat, cursor |-> 0, committed |-> 0, recover |-> FALSE]

Init ==
    /\ row = [e \in Ids |-> "none"] /\ behind = {}
    /\ paused \in BOOLEAN
    /\ durable = [cursor |-> 0, book |-> Flat]
    /\ owner = Nobody /\ pending = {}
    /\ pc = [i \in Instances |-> "down"] /\ mem = [i \in Instances |-> Fresh]
    /\ seed = 0 /\ faults = 0

-----------------------------------------------------------------------------
(* The trades table, the operator, the deploys.                              *)

Readable(e) == row[e] = "full"

\* A cursor in use, or one a Ghost may still commit, is past e.
Passed(e) ==
    \/ e <= durable.cursor
    \/ owner \in Instances /\ ~mem[owner].recover /\ e <= mem[owner].cursor
    \/ \E p \in pending : e <= p.cursor

\* A transaction that drew e commits its row, with or without a condition_id.
Lands(e) ==
    /\ row[e] = "none"
    /\ \E k \in {"bare", "full"} :
        /\ row' = [row EXCEPT ![e] = k]
        /\ behind' = IF k = "full" /\ Passed(e) THEN behind \cup {e} ELSE behind
    /\ UNCHANGED <<paused, durable, owner, pending, pc, mem, seed, faults>>

\* Enrichment completes a bare row.
Enriched(e) ==
    /\ row[e] = "bare"
    /\ row' = [row EXCEPT ![e] = "full"]
    /\ behind' = IF Passed(e) THEN behind \cup {e} ELSE behind
    /\ UNCHANGED <<paused, durable, owner, pending, pc, mem, seed, faults>>

Toggle ==
    /\ paused' = ~paused
    /\ UNCHANGED <<feedVars, durable, owner, pending, pc, mem, seed, faults>>

Boot(i) ==
    /\ pc[i] = "down"
    /\ pc' = [pc EXCEPT ![i] = "standby"]
    /\ mem' = [mem EXCEPT ![i] = Fresh]
    /\ UNCHANGED <<feedVars, paused, durable, owner, pending, seed, faults>>

-----------------------------------------------------------------------------
(* Startup.                                                                  *)

Goes(i, to) == pc' = [pc EXCEPT ![i] = to]

\* Mutant: an unguarded create_task in every instance.
AcquireNothing(i) ==
    /\ pc[i] = "standby"
    /\ owner' = i /\ Goes(i, "start")
    /\ UNCHANGED <<feedVars, paused, durable, pending, mem, seed, faults>>

\* pg_try_advisory_lock; an instance that does not get it stays on standby.
Acquire(i) ==
    /\ pc[i] = "standby" /\ owner = Nobody
    /\ owner' = i /\ Goes(i, "start")
    /\ UNCHANGED <<feedVars, paused, durable, pending, mem, seed, faults>>

\* Nothing is restored while the account is paused.
Start(i) ==
    /\ pc[i] = "start" /\ ~paused
    /\ Goes(i, "load")
    /\ UNCHANGED <<feedVars, paused, durable, owner, pending, mem, seed, faults>>

\* max(id) over every row, readable or not.
Head(h) ==
    /\ h \in {0} \cup {e \in Ids : row[e] # "none"}
    /\ \A e \in Ids : row[e] # "none" => e <= h

\* _load_cursor: the state row's cursor, or the head of the feed.
LoadCursor(i) ==
    /\ pc[i] = "load" /\ Goes(i, "restore")
    /\ \E c \in 0..MaxId :
        /\ IF durable.cursor > 0 THEN c = durable.cursor /\ seed' = seed
                                 ELSE Head(c) /\ seed' = c
        /\ mem' = [mem EXCEPT ![i].cursor = c, ![i].committed = c]
    /\ UNCHANGED <<feedVars, paused, durable, owner, pending, faults>>

\* _restore, and the epoch and correction rows written after it.
Restore(i) ==
    /\ pc[i] = "restore" /\ Goes(i, "top")
    /\ mem' = [mem EXCEPT ![i].book = durable.book]
    /\ UNCHANGED <<feedVars, paused, durable, owner, pending, seed, faults>>

-----------------------------------------------------------------------------
(* The cycle.                                                                *)

\* The pause flag, read before anything else.
CheckPause(i) ==
    /\ pc[i] = "top" /\ ~paused
    /\ Goes(i, IF mem[i].recover THEN "recover" ELSE "read")
    /\ UNCHANGED <<feedVars, paused, durable, owner, pending, mem, seed, faults>>

\* Mutant: the cursor goes back, the desk in memory stays.
RecoverCursorOnly(i) ==
    /\ pc[i] = "recover" /\ Goes(i, "read")
    /\ LET c == IF durable.cursor > 0 THEN durable.cursor ELSE mem[i].committed
       IN mem' = [mem EXCEPT ![i].cursor = c, ![i].committed = c, ![i].recover = FALSE]
    /\ UNCHANGED <<feedVars, paused, durable, owner, pending, seed, faults>>

\* _recover_cycle: a fresh desk from the durable rows; without a state row
\* the cursor goes back to the last committed one, never to the feed's head.
Recover(i) ==
    /\ pc[i] = "recover" /\ Goes(i, "read")
    /\ LET c == IF durable.cursor > 0 THEN durable.cursor ELSE mem[i].committed
       IN mem' = [mem EXCEPT ![i] = [book |-> durable.book, cursor |-> c,
                                     committed |-> c, recover |-> FALSE]]
    /\ UNCHANGED <<feedVars, paused, durable, owner, pending, seed, faults>>

Ahead(c) == {e \in Ids : Readable(e) /\ e > c}

\* Mutant: LIMIT counts the rows that the filter then drops.
BatchOfAnyRows(c, n) ==
    /\ n \in Ahead(c)
    /\ Cardinality({e \in Ids : row[e] # "none" /\ c < e /\ e <= n}) <= Batch

\* The batch read past cursor c ends at n: the readable rows in the order of
\* their ids, as many as LIMIT lets through.
BatchEnds(c, n) ==
    LET batch == {e \in Ahead(c) : e <= n}
    IN /\ n \in Ahead(c) /\ Cardinality(batch) <= Batch
       /\ (batch = Ahead(c) \/ Cardinality(batch) = Batch)

\* The desk steps through the readable rows after its cursor, up to n.
Stepped(i, n) ==
    [mem[i] EXCEPT !.cursor = n,
                   !.book = [e \in Ids |-> IF e > mem[i].cursor /\ e <= n /\ Readable(e)
                                           THEN mem[i].book[e] + 1 ELSE mem[i].book[e]]]

\* _events and the steps; nothing is awaited in between.
ReadBatch(i) ==
    /\ pc[i] = "read"
    /\ \/ /\ \E n \in Ids : BatchEnds(mem[i].cursor, n) /\ mem' = [mem EXCEPT ![i] = Stepped(i, n)]
          /\ Goes(i, "persist")
       \/ /\ Ahead(mem[i].cursor) = {}
          /\ mem' = [mem EXCEPT ![i].committed = mem[i].cursor]
          /\ Goes(i, "top")
    /\ UNCHANGED <<feedVars, paused, durable, owner, pending, seed, faults>>

\* _persist commits: book and cursor, in one transaction.
Persist(i) ==
    /\ pc[i] = "persist" /\ Goes(i, "top")
    /\ durable' = State(i)
    /\ mem' = [mem EXCEPT ![i].committed = mem[i].cursor]
    /\ UNCHANGED <<feedVars, paused, owner, pending, seed, faults>>

-----------------------------------------------------------------------------
(* Faults.                                                                   *)

Fault == faults < MaxFaults /\ faults' = faults + 1

\* A statement or a step raises: the desk may have taken some of the batch,
\* and a commit whose answer was lost may have happened.
CycleFails(i) ==
    /\ Fault
    /\ pc[i] \in {"recover", "read", "persist"} /\ Goes(i, "top")
    /\ \/ mem' = [mem EXCEPT ![i].recover = TRUE]
       \/ /\ pc[i] = "read"
          /\ \E n \in Ahead(mem[i].cursor) :
                mem' = [mem EXCEPT ![i] = [Stepped(i, n) EXCEPT !.recover = TRUE]]
    /\ UNCHANGED durable \/ (pc[i] = "persist" /\ durable' = State(i))
    /\ UNCHANGED <<feedVars, paused, owner, pending, seed>>

\* Anything that raises in startup is caught outside the cycle.
StartFails(i) ==
    /\ Fault
    /\ pc[i] \in {"start", "load", "restore"} /\ Goes(i, "halted")
    /\ UNCHANGED <<feedVars, paused, durable, owner, pending, mem, seed>>

\* The instance's session loses its client.
Parts(i) ==
    IF owner = i
    THEN /\ owner' = Ghost
         /\ pending' = IF pc[i] = "persist" THEN {State(i)} ELSE {}
    ELSE UNCHANGED <<owner, pending>>

LoseConnection(i) ==
    /\ Fault
    /\ pc[i] \in Holding \cup {"standby"} /\ Goes(i, "cut") /\ Parts(i)
    /\ UNCHANGED <<feedVars, paused, durable, mem, seed>>

\* Killed, or replaced by the next deploy.
Crash(i) ==
    /\ Fault
    /\ pc[i] # "down" /\ Goes(i, "down") /\ Parts(i)
    /\ UNCHANGED <<feedVars, paused, durable, mem, seed>>

\* The server ends the session and frees the lock, after the commit if there
\* was one on its way and it arrived.
SessionEnds ==
    /\ owner = Ghost /\ owner' = Nobody
    /\ durable' \in {durable} \cup pending /\ pending' = {}
    /\ UNCHANGED <<feedVars, paused, pc, mem, seed, faults>>

-----------------------------------------------------------------------------
Work(i) ==
    \/ Acquire(i) \/ Start(i) \/ LoadCursor(i) \/ Restore(i)
    \/ CheckPause(i) \/ Recover(i) \/ ReadBatch(i) \/ Persist(i)

Next ==
    \/ \E e \in Ids : Lands(e) \/ Enriched(e)
    \/ Toggle \/ SessionEnds
    \/ \E i \in Instances :
        Boot(i) \/ Work(i) \/ CycleFails(i) \/ StartFails(i) \/ LoseConnection(i) \/ Crash(i)

Spec == Init /\ [][Next]_vars

FairSpec == Spec /\ WF_vars(SessionEnds) /\ \A i \in Instances : WF_vars(Work(i))

-----------------------------------------------------------------------------
States == [cursor : 0..MaxId, book : [Ids -> Nat]]

TypeOK ==
    /\ row \in [Ids -> {"none", "bare", "full"}] /\ behind \subseteq Ids
    /\ paused \in BOOLEAN
    /\ durable \in States /\ pending \subseteq States
    /\ owner \in Instances \cup {Nobody, Ghost}
    /\ pc \in [Instances -> Holding \cup {"down", "standby", "cut"}]
    /\ mem \in [Instances -> [book : [Ids -> Nat], cursor : 0..MaxId,
                              committed : 0..MaxId, recover : BOOLEAN]]
    /\ seed \in 0..MaxId /\ faults \in Nat

\* A book that is what its cursor says: nothing past the cursor, nothing
\* twice, and nothing left out but what became readable too late or was there
\* before the desk first started.
Sound(s) ==
    \A e \in Ids :
        /\ s.book[e] <= 1
        /\ s.book[e] > 0 => Readable(e) /\ e <= s.cursor
        /\ Readable(e) /\ seed < e /\ e <= s.cursor /\ e \notin behind => s.book[e] = 1

\* "One writer, idempotent, restart-safe": whatever fails, crashes or is
\* committed unheard, the durable book holds the evidence up to the durable
\* cursor, each trade once.
BookIsItsCursor == Sound(durable)

\* "A restart resumes it": no commit, by whichever process and however late,
\* takes back a trade or a position of the cursor that another one committed.
NothingIsUndone ==
    [][/\ durable'.cursor >= durable.cursor
       /\ \A e \in Ids : durable'.book[e] >= durable.book[e]]_vars

\* Nobody works: every process is gone or cut off, or one halted on the lock.
Unserved ==
    \/ \A i \in Instances : pc[i] \in {"down", "cut"}
    \/ \E i \in Instances : pc[i] = "halted"

Waiting(e) == Readable(e) /\ e > durable.cursor /\ e > seed

\* Under FairSpec evidence past the cursor is taken in, through handovers,
\* failed cycles and ghosts, unless the desk is paused or nobody works.
IntakeResumes == \A e \in Ids : Waiting(e) ~> (~Waiting(e) \/ paused \/ Unserved)
=============================================================================
