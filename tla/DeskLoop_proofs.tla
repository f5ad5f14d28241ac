--------------------------- MODULE DeskLoop_proofs ---------------------------
(***************************************************************************)
(* Proofs about DeskLoop for any instances, batch size and bounds.         *)
(*                                                                         *)
(* That the durable book is sound is not inductive: it says nothing of the *)
(* desk that is about to be written over it.  LockIsHeld says that one     *)
(* instance at most has a desk it may write, WorkExtends that this desk is *)
(* sound and extends the durable one unless a failed cycle marked it for   *)
(* recovery, and GhostExtends the same of what a lost session may still    *)
(* commit.                                                                 *)
(***************************************************************************)
EXTENDS DeskLoop, TLAPS

USE NamesAssumption, SizesAssumption

Extends(s, t) == s.cursor <= t.cursor /\ \A e \in Ids : s.book[e] <= t.book[e]

\* s may be written over the durable book.
Follows(s) == Sound(s) /\ Extends(durable, s)

LockIsHeld == \A i \in Instances : pc[i] \in Holding <=> owner = i

GhostExtends == (pending # {} => owner = Ghost) /\ \A p \in pending : Follows(p)

Idle == {"standby", "start", "load", "restore"}
Cycling == {"top", "recover", "read", "persist"}

\* Before the first commit the desk goes back to where it was seeded.
FallsBack(i) ==
    /\ pc[i] \in {"restore"} \cup Cycling /\ durable.cursor = 0 => mem[i].committed = seed
    /\ pc[i] = "restore" =>
        mem[i].cursor = IF durable.cursor > 0 THEN durable.cursor ELSE seed
    /\ pc[i] \in {"restore", "top", "read"} /\ ~mem[i].recover => mem[i].committed = mem[i].cursor
    /\ pc[i] = "persist" => mem[i].cursor > 0

WorkExtends(i) ==
    /\ pc[i] \in Idle \cup {"read", "persist"} => ~mem[i].recover
    /\ pc[i] \in Cycling /\ ~mem[i].recover => Follows(State(i))

Inv ==
    /\ TypeOK /\ BookIsItsCursor /\ LockIsHeld /\ GhostExtends
    /\ \A i \in Instances : FallsBack(i) /\ WorkExtends(i)

Mems == [book : [Ids -> Nat], cursor : 0..MaxId, committed : 0..MaxId, recover : BOOLEAN]

\* Initially nobody works and nothing was committed.
LEMMA InitInv == Init => Inv
<1> SUFFICES ASSUME Init PROVE Inv
  OBVIOUS
<1>1. 0 \in 0..MaxId /\ Flat \in [Ids -> Nat]
  BY DEF Flat
<1>2. Fresh \in Mems /\ [cursor |-> 0, book |-> Flat] \in States
  BY <1>1 DEF Fresh, Mems, States
<1>3. TypeOK
  BY <1>1, <1>2 DEF Init, TypeOK, Mems
<1>4. BookIsItsCursor
  BY DEF Init, BookIsItsCursor, Sound, Readable, Flat, Ids
<1> QED BY <1>3, <1>4 DEF Init, Inv, LockIsHeld, Holding, GhostExtends, FallsBack, WorkExtends,
                         Idle, Cycling

\* The desk of an instance is a state that can be committed.
LEMMA StateTyped ==
    ASSUME TypeOK, NEW i \in Instances
    PROVE  /\ mem[i] \in Mems /\ State(i) \in States
           /\ State(i).cursor = mem[i].cursor /\ State(i).book = mem[i].book
BY DEF TypeOK, Mems, State, States

\* A row that becomes readable behind a cursor is set apart, so it takes
\* nothing from what is sound.
LEMMA FeedStep ==
    ASSUME Inv, NEW e \in Ids, Lands(e) \/ Enriched(e)
    PROVE  Inv'
<1> USE DEF Inv
<1>1. /\ row[e] \in {"none", "bare"}
      /\ row' \in [Ids -> {"none", "bare", "full"}]
      /\ \A d \in Ids : d # e => row'[d] = row[d]
      /\ behind' \in {behind, behind \cup {e}}
      /\ row'[e] = "full" /\ Passed(e) => e \in behind'
      /\ UNCHANGED <<paused, durable, owner, pending, pc, mem, seed, faults>>
  BY DEF Lands, Enriched, TypeOK
<1>2. TypeOK'
  BY <1>1 DEF TypeOK
<1>3. e <= durable.cursor => Passed(e)
  BY DEF Passed
<1>4. BookIsItsCursor'
  BY <1>1, <1>3 DEF BookIsItsCursor, Sound, Readable
<1>5. ASSUME NEW p \in pending PROVE Sound(p)'
  <2>1. e <= p.cursor => Passed(e)
    BY DEF Passed
  <2> QED BY <1>1, <1>5, <2>1 DEF Sound, Readable, GhostExtends, Follows
<1>6. GhostExtends'
  BY <1>1, <1>5 DEF GhostExtends, Follows, Extends
<1>7. ASSUME NEW i \in Instances, pc[i] \in Cycling, ~mem[i].recover PROVE Sound(State(i))'
  <2>1. owner = i
    BY <1>7 DEF LockIsHeld, Cycling, Holding
  <2>2. e <= mem[i].cursor => Passed(e)
    BY <1>7, <2>1 DEF Passed
  <2>3. Sound(State(i))
    BY <1>7 DEF WorkExtends, Follows
  <2> QED BY <1>1, <2>2, <2>3, StateTyped DEF Sound, Readable, State
<1>8. \A i \in Instances : FallsBack(i)' /\ WorkExtends(i)'
  BY <1>1, <1>7 DEF FallsBack, WorkExtends, Follows, Extends, State
<1>9. LockIsHeld'
  BY <1>1 DEF LockIsHeld
<1> QED BY <1>2, <1>4, <1>6, <1>8, <1>9

\* What the lock and the books say of an instance that did not move.
LEMMA Still ==
    ASSUME Inv, NEW j \in Instances, UNCHANGED <<feedVars, durable, seed>>,
           pc'[j] = pc[j], mem'[j] = mem[j]
    PROVE  FallsBack(j)' /\ WorkExtends(j)'
BY DEF Inv, FallsBack, WorkExtends, Follows, Extends, Sound, Readable, State, feedVars

\* An instance without the lock holds nothing that the books could belie.
LEMMA Outside ==
    ASSUME Inv, NEW j \in Instances, pc[j] \notin Holding, pc'[j] = pc[j], mem'[j] = mem[j]
    PROVE  FallsBack(j)' /\ WorkExtends(j)'
BY DEF Inv, FallsBack, WorkExtends, Idle, Cycling, Holding

\* The lock is with one instance at most.
LEMMA Alone ==
    ASSUME Inv, NEW i \in Instances, pc[i] \in Holding
    PROVE  /\ owner = i /\ pending = {}
           /\ \A j \in Instances : j # i => pc[j] \notin Holding
<1>1. owner = i
  BY DEF Inv, LockIsHeld
<1>2. pending = {}
  BY <1>1 DEF Inv, GhostExtends
<1> QED BY <1>1, <1>2 DEF Inv, LockIsHeld

\* Committed books stay as they are while nothing is committed.
LEMMA BooksKept ==
    ASSUME Inv, UNCHANGED <<feedVars, durable, pending, seed>>, pending # {} => owner' = Ghost
    PROVE  BookIsItsCursor' /\ GhostExtends'
BY DEF Inv, BookIsItsCursor, GhostExtends, Follows, Extends, Sound, Readable, feedVars

Pcs == Holding \cup {"down", "standby", "cut"}

\* One instance moves on and nothing is committed.
LEMMA Moves ==
    ASSUME Inv, NEW i \in Instances, NEW q \in Pcs, NEW m \in Mems,
           UNCHANGED <<feedVars, durable, owner, pending, seed>>,
           pc' = [pc EXCEPT ![i] = q], mem' = [mem EXCEPT ![i] = m],
           paused' \in BOOLEAN, faults' \in Nat,
           pc[i] \in Holding <=> q \in Holding,
           FallsBack(i)', WorkExtends(i)'
    PROVE  Inv'
<1>1. TypeOK
  BY DEF Inv
<1>2. TypeOK'
  BY <1>1 DEF TypeOK, feedVars, Pcs, Mems
<1>3. pc'[i] = q /\ \A j \in Instances : j # i => pc'[j] = pc[j] /\ mem'[j] = mem[j]
  BY <1>1 DEF TypeOK
<1>4. \A j \in Instances : FallsBack(j)' /\ WorkExtends(j)'
  BY <1>3, Still
<1>5. LockIsHeld'
  BY <1>3 DEF Inv, LockIsHeld
<1>6. BookIsItsCursor' /\ GhostExtends'
  BY BooksKept DEF Inv, GhostExtends
<1> QED BY <1>2, <1>4, <1>5, <1>6 DEF Inv

\* The flag is nobody's state.
LEMMA ToggleStep == ASSUME Inv, Toggle \/ UNCHANGED vars PROVE Inv'
<1>1. /\ UNCHANGED <<feedVars, durable, owner, pending, seed, pc, mem, faults>>
      /\ paused' \in BOOLEAN
  BY DEF Toggle, Inv, TypeOK, vars
<1>2. TypeOK' /\ LockIsHeld'
  BY <1>1 DEF Inv, TypeOK, LockIsHeld, feedVars
<1>3. BookIsItsCursor' /\ GhostExtends'
  BY <1>1, BooksKept DEF Inv, GhostExtends
<1>4. \A j \in Instances : FallsBack(j)' /\ WorkExtends(j)'
  BY <1>1, Still
<1> QED BY <1>2, <1>3, <1>4 DEF Inv

\* A process starts without a desk.
LEMMA BootStep == ASSUME Inv, NEW i \in Instances, Boot(i) PROVE Inv'
<1>1. Fresh \in Mems
  BY DEF Fresh, Mems, Flat
<1>2. pc'[i] = "standby" /\ mem'[i] = Fresh
  BY DEF Boot, Inv, TypeOK
<1>3. FallsBack(i)' /\ WorkExtends(i)'
  BY <1>2 DEF FallsBack, WorkExtends, Fresh, Idle, Cycling
<1> QED BY <1>1, <1>3, Moves DEF Boot, Inv, TypeOK, Pcs, Holding

\* The first step of startup changes nothing but the step.
LEMMA StartStep ==
    ASSUME Inv, NEW i \in Instances, Start(i) \/ CheckPause(i) \/ StartFails(i)
    PROVE  Inv'
<1>1. PICK q \in Pcs : Goes(i, q) /\ q \in {"load", "recover", "read", "halted"}
  BY DEF Start, CheckPause, StartFails, Pcs, Holding
<1>2. /\ mem' = [mem EXCEPT ![i] = mem[i]] /\ mem[i] \in Mems /\ mem'[i] = mem[i]
      /\ pc'[i] = q /\ pc' = [pc EXCEPT ![i] = q]
      /\ UNCHANGED <<feedVars, durable, owner, pending, seed>>
      /\ paused' \in BOOLEAN /\ faults' \in Nat
  BY <1>1, StateTyped DEF Start, CheckPause, StartFails, Fault, Goes, Inv, TypeOK
<1>3. pc[i] \in Holding /\ q \in Holding
  BY <1>1 DEF Start, CheckPause, StartFails, Holding
<1>4. /\ q \in {"recover", "read"} => CheckPause(i)
      /\ q = "read" => ~mem[i].recover
      /\ q = "load" => pc[i] = "start"
  BY <1>1, <1>2 DEF Start, CheckPause, StartFails, Goes, Inv, TypeOK
<1>5. CheckPause(i) => pc[i] = "top"
  BY DEF CheckPause
<1>6. FallsBack(i)'
  BY <1>1, <1>2, <1>4, <1>5 DEF Inv, FallsBack, Cycling
<1>7. WorkExtends(i)'
  BY <1>1, <1>2, <1>4, <1>5
  DEF Inv, WorkExtends, Idle, Cycling, Follows, Extends, Sound, Readable, State, feedVars
<1> QED BY <1>1, <1>2, <1>3, <1>6, <1>7, Moves

\* The lock is free before it is taken.
LEMMA AcquireStep == ASSUME Inv, NEW i \in Instances, Acquire(i) PROVE Inv'
<1>1. /\ pc[i] = "standby" /\ owner = Nobody /\ owner' = i
      /\ pc' = [pc EXCEPT ![i] = "start"] /\ pending = {}
      /\ UNCHANGED <<feedVars, paused, durable, pending, mem, seed, faults>>
  BY DEF Acquire, Goes, Inv, GhostExtends
<1>2. pc'[i] = "start" /\ \A j \in Instances : j # i => pc'[j] = pc[j] /\ pc[j] \notin Holding
  BY <1>1 DEF Inv, TypeOK, LockIsHeld
<1>3. TypeOK'
  BY <1>1 DEF Inv, TypeOK, feedVars, Holding
<1>4. LockIsHeld'
  BY <1>1, <1>2 DEF LockIsHeld, Holding
<1>5. BookIsItsCursor' /\ GhostExtends'
  BY <1>1, BooksKept
<1>6. FallsBack(i)' /\ WorkExtends(i)'
  BY <1>1, <1>2 DEF Inv, FallsBack, WorkExtends, Idle, Cycling
<1>7. \A j \in Instances : FallsBack(j)' /\ WorkExtends(j)'
  BY <1>1, <1>2, <1>6, Still
<1> QED BY <1>3, <1>4, <1>5, <1>7 DEF Inv

\* Without a state row the durable book is flat.
LEMMA FlatBefore ==
    ASSUME Inv, durable.cursor = 0, NEW e \in Ids
    PROVE  durable.book[e] = 0
BY DEF Inv, TypeOK, States, BookIsItsCursor, Sound, Ids

\* A desk that starts from the durable book, at its cursor or, without a
\* row, at the seed, can be written over it.
LEMMA RestoredFollows ==
    ASSUME Inv, NEW c \in 0..MaxId, c = IF durable.cursor > 0 THEN durable.cursor ELSE seed
    PROVE  Follows([cursor |-> c, book |-> durable.book])
<1>1. CASE durable.cursor > 0
  BY <1>1 DEF Inv, TypeOK, States, BookIsItsCursor, Follows, Extends, Sound
<1>2. CASE durable.cursor = 0
  <2>1. /\ seed \in Nat /\ c = seed /\ Ids \subseteq Nat
        /\ \A e \in Ids : durable.book[e] = 0
    BY <1>2, FlatBefore DEF Inv, TypeOK, Ids
  <2>2. Sound([cursor |-> c, book |-> durable.book])
    BY <2>1 DEF Sound
  <2>3. durable.cursor <= c /\ \A e \in Ids : durable.book[e] <= durable.book[e]
    BY <1>2, <2>1
  <2>4. Extends(durable, [cursor |-> c, book |-> durable.book])
    BY <2>3 DEF Extends
  <2> QED BY <2>2, <2>4 DEF Follows
<1> QED BY <1>1, <1>2 DEF Inv, TypeOK, States

\* The cursor comes from the state row or seeds the book.
LEMMA LoadStep == ASSUME Inv, NEW i \in Instances, LoadCursor(i) PROVE Inv'
<1>1. PICK c \in 0..MaxId :
        /\ pc[i] = "load" /\ pc' = [pc EXCEPT ![i] = "restore"]
        /\ IF durable.cursor > 0 THEN c = durable.cursor /\ seed' = seed ELSE seed' = c
        /\ mem' = [mem EXCEPT ![i].cursor = c, ![i].committed = c]
        /\ UNCHANGED <<feedVars, paused, durable, owner, pending, faults>>
  BY DEF LoadCursor, Goes
<1>2. /\ pc'[i] = "restore" /\ mem'[i].cursor = c /\ mem'[i].committed = c
      /\ mem'[i].recover = mem[i].recover
      /\ mem' \in [Instances -> Mems]
      /\ \A j \in Instances : j # i => pc'[j] = pc[j] /\ mem'[j] = mem[j]
  BY <1>1 DEF Inv, TypeOK, Mems
<1>3. owner = i /\ pending = {} /\ \A j \in Instances : j # i => pc[j] \notin Holding
  BY <1>1, Alone DEF Holding
<1>4. TypeOK'
  BY <1>1, <1>2 DEF Inv, TypeOK, feedVars, Mems, Holding
<1>5. BookIsItsCursor' /\ GhostExtends'
  BY <1>1, <1>3 DEF Inv, TypeOK, States, BookIsItsCursor, GhostExtends, Sound, Readable, feedVars, Ids
<1>6. LockIsHeld'
  BY <1>1, <1>2 DEF Inv, LockIsHeld, Holding
<1>7. FallsBack(i)' /\ WorkExtends(i)'
  BY <1>1, <1>2 DEF Inv, TypeOK, States, FallsBack, WorkExtends, Idle, Cycling
<1>8. \A j \in Instances : FallsBack(j)' /\ WorkExtends(j)'
  BY <1>2, <1>3, <1>7, Outside
<1> QED BY <1>4, <1>5, <1>6, <1>8 DEF Inv

\* Both ways to a desk of one's own end with one that follows the durable book.
LEMMA RestoreStep ==
    ASSUME Inv, NEW i \in Instances, Restore(i) \/ Recover(i)
    PROVE  Inv'
<1>1. PICK m \in Mems :
        /\ mem' = [mem EXCEPT ![i] = m] /\ m.book = durable.book
        /\ m.cursor = IF durable.cursor > 0 THEN durable.cursor ELSE seed
        /\ m.committed = m.cursor /\ ~m.recover
  <2>1. CASE Restore(i)
    <3>1. mem' = [mem EXCEPT ![i] = [mem[i] EXCEPT !.book = durable.book]]
      BY <2>1 DEF Restore, Inv, TypeOK
    <3>2. pc[i] = "restore"
      BY <2>1 DEF Restore
    <3>3. [mem[i] EXCEPT !.book = durable.book] \in Mems
      BY DEF Inv, TypeOK, Mems, States
    <3>4. FallsBack(i) /\ WorkExtends(i)
      BY DEF Inv
    <3>5. mem[i].committed = mem[i].cursor
      BY <3>2, <3>4 DEF FallsBack, WorkExtends, Idle
    <3> QED BY <3>1, <3>2, <3>3, <3>4, <3>5 DEF FallsBack, WorkExtends, Idle, Inv, TypeOK, Mems
  <2>2. CASE Recover(i)
    <3> DEFINE c == IF durable.cursor > 0 THEN durable.cursor ELSE mem[i].committed
               m == [book |-> durable.book, cursor |-> c, committed |-> c, recover |-> FALSE]
    <3>1. mem' = [mem EXCEPT ![i] = m] /\ pc[i] = "recover"
      BY <2>2 DEF Recover
    <3>2. m \in Mems
      BY DEF Inv, TypeOK, Mems, States
    <3>3. durable.cursor = 0 => mem[i].committed = seed
      BY <3>1 DEF Inv, FallsBack, Cycling
    <3>4. c = IF durable.cursor > 0 THEN durable.cursor ELSE seed
      BY <3>3 DEF Inv, TypeOK, States
    <3> QED BY <3>1, <3>2, <3>4
  <2> QED BY <2>1, <2>2
<1>2. PICK q \in {"top", "read"} : Goes(i, q)
  BY DEF Restore, Recover
<1>3. /\ UNCHANGED <<feedVars, paused, durable, owner, pending, seed, faults>>
      /\ pc[i] \in Holding
  BY DEF Restore, Recover, Holding
<1>4. pc'[i] = q /\ mem'[i] = m
  BY <1>1, <1>2 DEF Goes, Inv, TypeOK
<1>5. FallsBack(i)'
  BY <1>1, <1>2, <1>3, <1>4 DEF Inv, TypeOK, States, FallsBack, Cycling
<1>6. Follows([cursor |-> m.cursor, book |-> durable.book])
  BY <1>1, RestoredFollows DEF Mems
<1>7. WorkExtends(i)'
  BY <1>1, <1>2, <1>3, <1>4, <1>6
  DEF WorkExtends, Idle, Cycling, Follows, Extends, Sound, Readable, State, feedVars
<1> QED BY <1>1, <1>2, <1>3, <1>4, <1>5, <1>7, Moves
        DEF Goes, Inv, TypeOK, Pcs, Holding

\* Stepping through the readable rows up to n keeps a desk sound.
LEMMA SteppedFollows ==
    ASSUME Inv, NEW i \in Instances, Follows(State(i)), NEW n \in Ahead(mem[i].cursor)
    PROVE  /\ Stepped(i, n) \in Mems
           /\ Stepped(i, n).cursor = n /\ n > 0
           /\ Stepped(i, n).committed = mem[i].committed
           /\ Stepped(i, n).recover = mem[i].recover
           /\ Follows([cursor |-> n, book |-> Stepped(i, n).book])
<1>1. /\ mem[i] \in Mems /\ State(i).cursor = mem[i].cursor /\ State(i).book = mem[i].book
  BY StateTyped DEF Inv
<1>2. n \in Ids /\ n > mem[i].cursor /\ n \in 0..MaxId /\ n > 0
  BY <1>1 DEF Ahead, Ids, Mems
<1> DEFINE b == [e \in Ids |-> IF e > mem[i].cursor /\ e <= n /\ Readable(e)
                               THEN mem[i].book[e] + 1 ELSE mem[i].book[e]]
<1>3. /\ Stepped(i, n) = [mem[i] EXCEPT !.cursor = n, !.book = b]
      /\ b \in [Ids -> Nat]
  BY <1>1 DEF Stepped, Mems
<1>4. /\ Stepped(i, n) \in Mems
      /\ Stepped(i, n).cursor = n /\ Stepped(i, n).book = b
      /\ Stepped(i, n).committed = mem[i].committed
      /\ Stepped(i, n).recover = mem[i].recover
  BY <1>1, <1>2, <1>3 DEF Mems
<1>5. durable.book \in [Ids -> Nat] /\ durable.cursor \in Nat /\ mem[i].book \in [Ids -> Nat]
  BY <1>1 DEF Inv, TypeOK, States, Mems
<1>6. Extends(durable, [cursor |-> n, book |-> b])
  BY <1>1, <1>2, <1>5 DEF Follows, Extends, Ids, Mems
<1>7. Sound([cursor |-> n, book |-> b])
  <2> SUFFICES ASSUME NEW e \in Ids
               PROVE  /\ b[e] <= 1 /\ (b[e] > 0 => Readable(e) /\ e <= n)
                      /\ Readable(e) /\ seed < e /\ e <= n /\ e \notin behind => b[e] = 1
    BY DEF Sound
  <2>1. /\ mem[i].book[e] <= 1
        /\ mem[i].book[e] > 0 => Readable(e) /\ e <= mem[i].cursor
        /\ Readable(e) /\ seed < e /\ e <= mem[i].cursor /\ e \notin behind => mem[i].book[e] = 1
    BY <1>1 DEF Follows, Sound
  <2>2. CASE e > mem[i].cursor /\ e <= n /\ Readable(e)
    <3>1. mem[i].book[e] = 0
      BY <1>1, <1>5, <2>1, <2>2 DEF Ids, Mems
    <3> QED BY <2>2, <3>1
  <2>3. CASE ~(e > mem[i].cursor /\ e <= n /\ Readable(e))
    <3>1. b[e] = mem[i].book[e]
      BY <2>3
    <3> QED BY <1>1, <1>2, <2>1, <2>3, <3>1 DEF Ids, Mems
  <2> QED BY <2>2, <2>3
<1> QED BY <1>2, <1>4, <1>6, <1>7 DEF Follows

\* A batch, or the news that there is none.
LEMMA ReadStep == ASSUME Inv, NEW i \in Instances, ReadBatch(i) PROVE Inv'
<1>1. /\ pc[i] = "read" /\ ~mem[i].recover /\ Follows(State(i))
      /\ mem[i].committed = mem[i].cursor
      /\ durable.cursor = 0 => mem[i].committed = seed
      /\ UNCHANGED <<feedVars, paused, durable, owner, pending, seed, faults>>
  BY DEF ReadBatch, Inv, WorkExtends, FallsBack, Idle, Cycling
<1>2. CASE \E n \in Ids : BatchEnds(mem[i].cursor, n) /\ mem' = [mem EXCEPT ![i] = Stepped(i, n)]
                         /\ Goes(i, "persist")
  <2>1. PICK n \in Ahead(mem[i].cursor) : mem' = [mem EXCEPT ![i] = Stepped(i, n)]
    BY <1>2 DEF BatchEnds
  <2> DEFINE m == Stepped(i, n)
  <2>2. /\ m \in Mems /\ m.cursor = n /\ n > 0 /\ m.committed = mem[i].committed
        /\ m.recover = mem[i].recover /\ Follows([cursor |-> n, book |-> m.book])
    BY <1>1, SteppedFollows
  <2> HIDE DEF m
  <2>3. mem' = [mem EXCEPT ![i] = m] /\ pc' = [pc EXCEPT ![i] = "persist"]
    BY <1>2, <2>1 DEF Goes, m
  <2>4. pc'[i] = "persist" /\ mem'[i] = m
    BY <2>3 DEF Inv, TypeOK
  <2>5. FallsBack(i)'
    BY <1>1, <2>2, <2>4 DEF FallsBack, Cycling
  <2>6. WorkExtends(i)'
    BY <1>1, <2>2, <2>4
    DEF WorkExtends, Idle, Cycling, Follows, Extends, Sound, Readable, State, feedVars
  <2> QED BY <1>1, <2>2, <2>3, <2>5, <2>6, Moves DEF Inv, TypeOK, Pcs, Holding
<1>3. CASE /\ mem' = [mem EXCEPT ![i].committed = mem[i].cursor] /\ Goes(i, "top")
  <2> DEFINE m == [mem[i] EXCEPT !.committed = mem[i].cursor]
  <2>1. mem' = [mem EXCEPT ![i] = m] /\ pc' = [pc EXCEPT ![i] = "top"]
    BY <1>3 DEF Goes, Inv, TypeOK
  <2>2. /\ m \in Mems /\ m.committed = mem[i].cursor /\ m.cursor = mem[i].cursor
        /\ m.recover = mem[i].recover /\ m.book = mem[i].book
    BY DEF Inv, TypeOK, Mems
  <2> HIDE DEF m
  <2>3. pc'[i] = "top" /\ mem'[i] = m
    BY <2>1 DEF Inv, TypeOK
  <2>4. FallsBack(i)'
    BY <1>1, <2>2, <2>3 DEF FallsBack, Cycling
  <2>5. WorkExtends(i)'
    BY <1>1, <2>2, <2>3
    DEF WorkExtends, Idle, Cycling, Follows, Extends, Sound, Readable, State, feedVars
  <2> QED BY <1>1, <2>1, <2>2, <2>4, <2>5, Moves DEF Inv, TypeOK, Pcs, Holding
<1> QED BY <1>2, <1>3 DEF ReadBatch

\* What is committed is sound, and the desk that stays in memory is it.
LEMMA PersistStep == ASSUME Inv, NEW i \in Instances, Persist(i) PROVE Inv'
<1>1. /\ pc[i] = "persist" /\ ~mem[i].recover /\ Follows(State(i)) /\ mem[i].cursor > 0
      /\ pc' = [pc EXCEPT ![i] = "top"] /\ durable' = State(i)
      /\ mem' = [mem EXCEPT ![i].committed = mem[i].cursor]
      /\ UNCHANGED <<feedVars, paused, owner, pending, seed, faults>>
  BY DEF Persist, Goes, Inv, WorkExtends, FallsBack, Idle, Cycling
<1>2. /\ pc'[i] = "top" /\ mem'[i].cursor = mem[i].cursor /\ mem'[i].book = mem[i].book
      /\ mem'[i].committed = mem[i].cursor /\ mem'[i].recover = mem[i].recover
      /\ mem' \in [Instances -> Mems]
      /\ \A j \in Instances : j # i => pc'[j] = pc[j] /\ mem'[j] = mem[j]
  BY <1>1 DEF Inv, TypeOK, Mems
<1>3. /\ State(i) \in States /\ State(i).cursor = mem[i].cursor
      /\ State(i)' = State(i)
  BY <1>2, StateTyped DEF Inv, State
<1>4. pending = {} /\ \A j \in Instances : j # i => pc[j] \notin Holding
  BY <1>1, Alone DEF Holding
<1>5. TypeOK'
  BY <1>1, <1>2, <1>3 DEF Inv, TypeOK, feedVars, Mems, Holding
<1>6. Sound(durable') /\ BookIsItsCursor' /\ GhostExtends'
  BY <1>1, <1>4 DEF Inv, BookIsItsCursor, GhostExtends, Follows, Sound, Readable, feedVars
<1>7. LockIsHeld'
  BY <1>1, <1>2 DEF Inv, LockIsHeld, Holding
<1>8. Extends(durable', State(i)')
  BY <1>1, <1>3 DEF Extends, States
<1>9. FallsBack(i)' /\ WorkExtends(i)'
  BY <1>1, <1>2, <1>3, <1>6, <1>8
  DEF FallsBack, WorkExtends, Follows, BookIsItsCursor, Idle, Cycling, Extends
<1>10. \A j \in Instances : FallsBack(j)' /\ WorkExtends(j)'
  BY <1>2, <1>4, <1>9, Outside
<1> QED BY <1>5, <1>6, <1>7, <1>10 DEF Inv

\* A failed cycle leaves a desk that is marked, whatever it has taken in.
LEMMA FailStep == ASSUME Inv, NEW i \in Instances, CycleFails(i) PROVE Inv'
<1>1. /\ pc[i] \in {"recover", "read", "persist"} /\ pc' = [pc EXCEPT ![i] = "top"]
      /\ UNCHANGED <<feedVars, paused, owner, pending, seed>> /\ faults' \in Nat
      /\ durable' = durable \/ (pc[i] = "persist" /\ durable' = State(i))
  BY DEF CycleFails, Goes, Fault, Inv, TypeOK
<1>2. pc[i] \in {"read", "persist"} => Follows(State(i))
  BY DEF Inv, WorkExtends, Idle, Cycling
<1>3. PICK m \in Mems : /\ mem' = [mem EXCEPT ![i] = m] /\ m.recover
                       /\ m.committed = mem[i].committed
  <2>1. CASE mem' = [mem EXCEPT ![i].recover = TRUE]
    <3> DEFINE m == [mem[i] EXCEPT !.recover = TRUE]
    <3>1. mem' = [mem EXCEPT ![i] = m]
      BY <2>1 DEF Inv, TypeOK
    <3>2. m \in Mems /\ m.recover /\ m.committed = mem[i].committed
      BY DEF Inv, TypeOK, Mems
    <3> QED BY <3>1, <3>2
  <2>2. CASE /\ pc[i] = "read"
             /\ \E n \in Ahead(mem[i].cursor) :
                    mem' = [mem EXCEPT ![i] = [Stepped(i, n) EXCEPT !.recover = TRUE]]
    <3>1. PICK n \in Ahead(mem[i].cursor) :
            mem' = [mem EXCEPT ![i] = [Stepped(i, n) EXCEPT !.recover = TRUE]]
      BY <2>2
    <3>2. Stepped(i, n) \in Mems /\ Stepped(i, n).committed = mem[i].committed
      BY <1>2, <2>2, SteppedFollows
    <3> DEFINE m == [Stepped(i, n) EXCEPT !.recover = TRUE]
    <3>3. m \in Mems /\ m.recover /\ m.committed = mem[i].committed
      BY <3>2 DEF Mems
    <3> QED BY <3>1, <3>3
  <2> QED BY <2>1, <2>2 DEF CycleFails
<1>4. /\ pc'[i] = "top" /\ mem'[i] = m /\ mem' \in [Instances -> Mems]
      /\ \A j \in Instances : j # i => pc'[j] = pc[j] /\ mem'[j] = mem[j]
  BY <1>1, <1>3 DEF Inv, TypeOK, Mems
<1>5. State(i) \in States /\ State(i).cursor = mem[i].cursor
  BY StateTyped DEF Inv
<1>6. pending = {} /\ \A j \in Instances : j # i => pc[j] \notin Holding
  BY <1>1, Alone DEF Holding
<1>7. TypeOK'
  BY <1>1, <1>4, <1>5 DEF Inv, TypeOK, feedVars, Mems, Holding
<1>8. BookIsItsCursor' /\ GhostExtends'
  BY <1>1, <1>2, <1>6
  DEF Inv, BookIsItsCursor, GhostExtends, Follows, Sound, Readable, feedVars
<1>9. LockIsHeld'
  BY <1>1, <1>4 DEF Inv, LockIsHeld, Holding
<1>10. durable'.cursor = 0 => durable' = durable
  BY <1>1, <1>5 DEF Inv, FallsBack
<1>11. FallsBack(i)' /\ WorkExtends(i)'
  BY <1>1, <1>3, <1>4, <1>10 DEF Inv, FallsBack, WorkExtends, Idle, Cycling
<1>12. \A j \in Instances : FallsBack(j)' /\ WorkExtends(j)'
  BY <1>4, <1>6, <1>11, Outside
<1> QED BY <1>7, <1>8, <1>9, <1>12 DEF Inv

\* A session that loses its client may still commit what it was sent.
LEMMA PartStep ==
    ASSUME Inv, NEW i \in Instances, LoseConnection(i) \/ Crash(i)
    PROVE  Inv'
<1>1. PICK q \in {"cut", "down"} : pc' = [pc EXCEPT ![i] = q]
  BY DEF LoseConnection, Crash, Goes
<1>2. /\ UNCHANGED <<feedVars, paused, durable, mem, seed>> /\ Parts(i) /\ faults' \in Nat
  BY DEF LoseConnection, Crash, Fault, Inv, TypeOK
<1>3. pc'[i] = q /\ \A j \in Instances : j # i => pc'[j] = pc[j] /\ mem'[j] = mem[j]
  BY <1>1, <1>2 DEF Inv, TypeOK
<1>4. State(i) \in States
  BY StateTyped DEF Inv
<1>5. TypeOK'
  BY <1>1, <1>2, <1>4 DEF Inv, TypeOK, feedVars, Parts, Holding
<1>6. LockIsHeld'
  BY <1>1, <1>2, <1>3 DEF Inv, LockIsHeld, Holding, Parts
<1>7. pc[i] = "persist" => Follows(State(i))
  BY DEF Inv, WorkExtends, Idle, Cycling
<1>8. (pending' # {} => owner' = Ghost) /\ \A p \in pending' : Follows(p)
  BY <1>2, <1>7 DEF Inv, GhostExtends, Parts
<1>9. BookIsItsCursor' /\ GhostExtends'
  BY <1>2, <1>8
  DEF Inv, BookIsItsCursor, GhostExtends, Follows, Extends, Sound, Readable, feedVars
<1>10. FallsBack(i)' /\ WorkExtends(i)'
  BY <1>1, <1>3 DEF FallsBack, WorkExtends, Idle, Cycling
<1>11. \A j \in Instances : FallsBack(j)' /\ WorkExtends(j)'
  BY <1>2, <1>3, <1>10, Still
<1> QED BY <1>5, <1>6, <1>9, <1>11 DEF Inv

\* Nobody works when the last word of a lost session arrives.
LEMMA EndStep == ASSUME Inv, SessionEnds PROVE Inv'
<1>1. /\ owner = Ghost /\ owner' = Nobody /\ pending' = {}
      /\ durable' = durable \/ \E p \in pending : durable' = p
      /\ UNCHANGED <<feedVars, paused, pc, mem, seed, faults>>
  BY DEF SessionEnds
<1>2. \A j \in Instances : pc[j] \notin Holding /\ pc'[j] = pc[j] /\ mem'[j] = mem[j]
  BY <1>1 DEF Inv, LockIsHeld
<1>3. TypeOK'
  BY <1>1 DEF Inv, TypeOK, feedVars
<1>4. BookIsItsCursor' /\ GhostExtends'
  BY <1>1 DEF Inv, BookIsItsCursor, GhostExtends, Follows, Sound, Readable, feedVars
<1>5. LockIsHeld'
  BY <1>1, <1>2 DEF LockIsHeld
<1>6. \A j \in Instances : FallsBack(j)' /\ WorkExtends(j)'
  BY <1>2, Outside
<1> QED BY <1>3, <1>4, <1>5, <1>6 DEF Inv

\* Every step keeps the invariant.
LEMMA NextInv == ASSUME Inv, [Next]_vars PROVE Inv'
<1>1. ASSUME NEW e \in Ids, Lands(e) \/ Enriched(e) PROVE Inv'
  BY <1>1, FeedStep
<1>2. ASSUME Toggle \/ UNCHANGED vars PROVE Inv'
  BY <1>2, ToggleStep
<1>3. ASSUME SessionEnds PROVE Inv'
  BY <1>3, EndStep
<1>4. ASSUME NEW i \in Instances,
             Boot(i) \/ Work(i) \/ CycleFails(i) \/ StartFails(i) \/ LoseConnection(i) \/ Crash(i)
      PROVE  Inv'
  <2>1. CASE Boot(i)
    BY <2>1, BootStep
  <2>2. CASE Acquire(i)
    BY <2>2, AcquireStep
  <2>3. CASE Start(i) \/ CheckPause(i) \/ StartFails(i)
    BY <2>3, StartStep
  <2>4. CASE LoadCursor(i)
    BY <2>4, LoadStep
  <2>5. CASE Restore(i) \/ Recover(i)
    BY <2>5, RestoreStep
  <2>6. CASE ReadBatch(i)
    BY <2>6, ReadStep
  <2>7. CASE Persist(i)
    BY <2>7, PersistStep
  <2>8. CASE CycleFails(i)
    BY <2>8, FailStep
  <2>9. CASE LoseConnection(i) \/ Crash(i)
    BY <2>9, PartStep
  <2> QED BY <1>4, <2>1, <2>2, <2>3, <2>4, <2>5, <2>6, <2>7, <2>8, <2>9 DEF Work
<1> QED BY <1>1, <1>2, <1>3, <1>4 DEF Next

\* The invariant holds of every state a behaviour reaches.
THEOREM Invariance == Spec => []Inv
<1>1. Init => Inv
  BY InitInv
<1>2. Inv /\ [Next]_vars => Inv'
  BY NextInv
<1> QED BY <1>1, <1>2, PTL DEF Spec

\* Rows, lock, desks and what a ghost may commit keep their types.
THEOREM TypeCorrect == Spec => []TypeOK
<1>1. Inv => TypeOK
  BY DEF Inv
<1> QED BY <1>1, Invariance, PTL

\* The lock, the one transaction of _persist and the recovery of a marked desk
\* keep the durable book at what its cursor says.
THEOREM BookAlwaysItsCursor == Spec => []BookIsItsCursor
<1>1. Inv => BookIsItsCursor
  BY DEF Inv
<1> QED BY <1>1, Invariance, PTL

\* Of a step that commits: what was there stays, whoever commits.
LEMMA CommitExtends ==
    ASSUME Inv, [Next]_vars
    PROVE  /\ durable'.cursor >= durable.cursor
           /\ \A e \in Ids : durable'.book[e] >= durable.book[e]
<1>1. durable \in States
  BY DEF Inv, TypeOK
<1>2. durable' = durable \/ Extends(durable, durable')
  <2>1. ASSUME NEW i \in Instances, Persist(i) \/ CycleFails(i)
        PROVE  durable' = durable \/ Extends(durable, durable')
    <3>1. durable' = durable \/ (pc[i] = "persist" /\ durable' = State(i))
      BY <2>1 DEF Persist, CycleFails
    <3> QED BY <3>1 DEF Inv, WorkExtends, Idle, Cycling, Follows
  <2>2. ASSUME SessionEnds PROVE durable' = durable \/ Extends(durable, durable')
    BY <2>2 DEF SessionEnds, Inv, GhostExtends, Follows
  <2>3. ASSUME NEW i \in Instances,
               \/ Boot(i) \/ StartFails(i) \/ LoseConnection(i) \/ Crash(i)
               \/ Acquire(i) \/ Start(i) \/ LoadCursor(i) \/ Restore(i)
               \/ CheckPause(i) \/ Recover(i) \/ ReadBatch(i)
        PROVE  durable' = durable
    BY <2>3 DEF Boot, StartFails, LoseConnection, Crash, Acquire, Start, LoadCursor, Restore,
                CheckPause, Recover, ReadBatch
  <2>4. ASSUME Toggle \/ UNCHANGED vars \/ \E e \in Ids : Lands(e) \/ Enriched(e)
        PROVE  durable' = durable
    BY <2>4 DEF Toggle, vars, Lands, Enriched
  <2> QED BY <2>1, <2>2, <2>3, <2>4 DEF Next, Work
<1>3. TypeOK'
  BY NextInv DEF Inv
<1> QED BY <1>1, <1>2, <1>3 DEF TypeOK, States, Extends

\* A commit of any process, heard or not, in time or from a lost session, only
\* adds to the durable book: "a restart resumes it".
THEOREM CommitsOnlyAdd == Spec => NothingIsUndone
<1>1. Inv /\ [Next]_vars =>
        [/\ durable'.cursor >= durable.cursor
         /\ \A e \in Ids : durable'.book[e] >= durable.book[e]]_vars
  BY CommitExtends
<1> QED BY <1>1, Invariance, PTL DEF Spec, NothingIsUndone
=============================================================================
