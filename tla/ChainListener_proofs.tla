------------------------- MODULE ChainListener_proofs -------------------------
(***************************************************************************)
(* Proofs about ChainListener for any logs, spans, confirmation depths and *)
(* bounds.                                                                 *)
(*                                                                         *)
(* That a fill is never written by both paths is not inductive: each path  *)
(* looks for the other's row before it writes, and the row may come in     *)
(* between.  Claims adds what keeps it out: from its probe to its write a  *)
(* path holds the claim, and no step of the other path takes it away.      *)
(* That a sweep leaves no hole needs what the open sweep has still to do.  *)
(***************************************************************************)
EXTENDS ChainListener, Integers, TLAPS

USE NoneAssumption, ParametersAssumption

(* TypeOK in parts *)
Clock == tip \in 0..MaxBlock /\ mined \in [Logs -> 0..tip] /\ cursor \in 0..tip
Tables == chainRows \subseteq Logs /\ s1Rows \subseteq Logs /\ followed \subseteq Logs
Socket ==
    /\ phase \in {"start", "catchup", "connect", "live"} /\ throttled \in BOOLEAN
    /\ inbox \subseteq Logs
Lists == todo \in [Tasks -> SUBSET Logs] /\ upto \in [Tasks -> 0..tip]
Hands ==
    /\ current \in [Tasks -> Logs \cup {NoLog}]
    /\ at \in [Tasks -> {"idle", "receipt", "probe", "ingest", "cursor"}]
    /\ \A t \in Tasks : at[t] # "idle" <=> current[t] # NoLog
Memory ==
    /\ seen \subseteq looked /\ looked \subseteq Logs /\ raisedOn \subseteq looked
    /\ claim \in [Logs -> {"none", "receipt", "refused", "ingested", "emitter"}]
SweepFlags == sweeping \in BOOLEAN /\ broke \in BOOLEAN
SweepSpan == sweepEnd \in 0..tip /\ since \in 0..tip
Emitter ==
    /\ buffered \subseteq Logs
    /\ emitting \in Logs \cup {NoLog} /\ emitAt \in {"idle", "probe", "ingest"}
    /\ emitAt # "idle" <=> emitting # NoLog

Types ==
    /\ Clock /\ Tables /\ Socket /\ Lists /\ Hands /\ Memory /\ SweepFlags /\ SweepSpan
    /\ Emitter /\ faults \in Nat

\* What a task handles was marked seen before its first await, so the two
\* tasks never handle one log together.
InHand ==
    /\ \A t \in Tasks : current[t] # NoLog => current[t] \in seen
    /\ \A t, u \in Tasks : current[t] = current[u] /\ current[t] # NoLog => t = u

\* A claim of the receipt path is on a transaction it has seen.
SeenClaims == \A l \in Logs : claim[l] \in {"receipt", "refused", "ingested"} => l \in seen

\* The receipt path holds the claim from its probe to its write.
TaskClaims(t) ==
    /\ at[t] = "receipt" => claim[current[t]] \in {"receipt", "emitter"}
    /\ at[t] \in {"probe", "ingest"} => claim[current[t]] = "receipt"
    /\ at[t] = "ingest" => current[t] \notin s1Rows

\* The emitter holds it from its own probe to its own write.
EmitterHolds ==
    /\ emitAt # "idle" => claim[emitting] = "emitter"
    /\ emitAt = "ingest" => emitting \notin chainRows

Claims == InHand /\ SeenClaims /\ (\A t \in Tasks : TaskClaims(t)) /\ EmitterHolds /\ OneRowPerFill

\* What the open sweep is to cover it has looked at or has still to do.
SweepCovers ==
    sweeping =>
        \A l \in Logs : mined[l] > 0 /\ since <= mined[l] /\ mined[l] <= upto["sweep"] =>
                            l \in looked \cup todo["sweep"]

Coverage == SweepLeavesNoHole /\ SweepCovers

Inv == Types /\ Claims /\ Coverage

\* The parts are the type invariant.
LEMMA TypesFact == Types <=> TypeOK
  BY DEF Types, TypeOK, Clock, Tables, Socket, Lists, Hands, Memory, SweepFlags, SweepSpan, Emitter

\* Nothing is mined, seen, claimed or swept when the process first starts.
LEMMA InitInv == Init => Inv
<1> SUFFICES ASSUME Init PROVE Inv
  OBVIOUS
<1>1. Clock /\ Tables /\ SweepSpan /\ faults \in Nat
  BY DEF Init, Clock, Tables, SweepSpan
<1>2. Socket /\ SweepFlags
  BY DEF Init, Socket, SweepFlags
<1>3. Lists /\ Hands /\ Memory /\ Emitter
  BY DEF Init, Lists, Hands, Memory, Emitter
<1>4. Claims
  BY DEF Init, Claims, InHand, SeenClaims, TaskClaims, EmitterHolds, OneRowPerFill
<1>5. Coverage
  BY DEF Init, Coverage, SweepLeavesNoHole, SweepCovers
<1> QED BY <1>1, <1>2, <1>3, <1>4, <1>5 DEF Inv, Types

-----------------------------------------------------------------------------
(* What a step leaves alone                                                 *)

\* A step of neither path keeps the claims.
LEMMA ClaimsKept ==
  ASSUME Inv, UNCHANGED <<chainRows, s1Rows, jobVars, seen, claim, emitting, emitAt>>
  PROVE  Claims'
  BY DEF Inv, Claims, InHand, SeenClaims, TaskClaims, EmitterHolds, OneRowPerFill, jobVars

\* A step that moves no sweep and forgets no log keeps the coverage.
LEMMA CoverageKept ==
  ASSUME Inv, UNCHANGED <<mined, since, sweepEnd, sweeping>>, upto'["sweep"] = upto["sweep"],
         looked \subseteq looked', todo["sweep"] \subseteq todo'["sweep"] \cup looked'
  PROVE  Coverage'
  BY DEF Inv, Coverage, SweepLeavesNoHole, SweepCovers

\* The cursor rises to a block that is mined.
LEMMA LargerFacts ==
  ASSUME NEW n \in Nat, NEW a \in 0..n, NEW b \in 0..n
  PROVE  Larger(a, b) \in 0..n /\ Larger(a, b) >= a /\ Larger(a, b) \in a..n
  BY DEF Larger

\* A log at hand is one of the logs, and its block is mined.
LEMMA AtHand ==
  ASSUME Inv, NEW t \in Tasks, at[t] # "idle"
  PROVE  current[t] \in Logs /\ current[t] \in seen /\ mined[current[t]] \in 0..tip
<1>1. current[t] \in Logs /\ current[t] # NoLog
  BY DEF Inv, Types, Hands
<1>2. current[t] \in seen
  BY <1>1 DEF Inv, Claims, InHand
<1> QED BY <1>1, <1>2 DEF Inv, Types, Clock

-----------------------------------------------------------------------------
(* The chain and the run task                                               *)

\* A block is mined after everything that is swept or being swept.
LEMMA MineStep ==
  ASSUME Inv, NEW fills \in SUBSET Logs, NEW pushed \in SUBSET fills, Mine(fills, pushed)
  PROVE  Inv'
<1>1. /\ tip < MaxBlock /\ tip' = tip + 1
      /\ mined' = [l \in Logs |-> IF l \in fills THEN tip + 1 ELSE mined[l]]
      /\ inbox' = inbox \cup pushed
      /\ UNCHANGED <<cursor, chainRows, s1Rows, followed, phase, throttled, listVars,
                     jobVars, seen, claim, sweepVars, emitVars, looked, raisedOn, faults>>
  BY DEF Mine
<1>2. tip \in Nat /\ tip' \in 0..MaxBlock /\ 0..tip \subseteq 0..tip'
  BY <1>1 DEF Inv, Types, Clock
<1>3. Clock'
  BY <1>1, <1>2 DEF Inv, Types, Clock
<1>4. Socket' /\ SweepFlags'
  BY <1>1 DEF Inv, Types, Socket, SweepFlags, sweepVars
<1>5. Tables' /\ Hands' /\ Memory' /\ Emitter' /\ faults' \in Nat
  BY <1>1 DEF Inv, Types, Tables, Hands, Memory, Emitter, jobVars, emitVars
<1>6. Lists' /\ SweepSpan'
  BY <1>1, <1>2 DEF Inv, Types, Lists, SweepSpan, listVars, sweepVars
<1>7. Claims'
  BY <1>1, ClaimsKept DEF emitVars
<1>8. Coverage'
  <2>1. sweepEnd \in 0..tip /\ upto["sweep"] \in 0..tip /\ mined \in [Logs -> 0..tip]
    BY DEF Inv, Types, Clock, Lists, SweepSpan, Tasks
  <2>2. \A l \in Logs : mined'[l] <= tip => mined'[l] = mined[l]
    BY <1>1, <1>2, <2>1
  <2>3. SweepLeavesNoHole'
    BY <1>1, <1>2, <2>1, <2>2 DEF Inv, Coverage, SweepLeavesNoHole, sweepVars
  <2>4. SweepCovers'
    BY <1>1, <1>2, <2>1, <2>2 DEF Inv, Coverage, SweepCovers, sweepVars, listVars
  <2> QED BY <2>3, <2>4 DEF Coverage
<1> QED BY <1>3, <1>4, <1>5, <1>6, <1>7, <1>8 DEF Inv, Types

\* A step of the run task that handles no log.
LEMMA PlainStep ==
  ASSUME Inv, Tables', Socket', faults' \in Nat, cursor' \in cursor..tip,
         todo' \in [Tasks -> SUBSET Logs], upto' \in [Tasks -> 0..tip],
         upto'["sweep"] = upto["sweep"], todo'["sweep"] = todo["sweep"],
         UNCHANGED <<tip, mined, chainRows, s1Rows, jobVars, seen, claim, sweepVars,
                     emitVars, looked, raisedOn>>
  PROVE  Inv'
<1>1. Clock' /\ Lists' /\ SweepSpan'
  BY DEF Inv, Types, Clock, Lists, SweepSpan, sweepVars
<1>2. Hands' /\ Memory' /\ Emitter'
  BY DEF Inv, Types, Hands, Memory, Emitter, jobVars, emitVars
<1>3. SweepFlags'
  BY DEF Inv, Types, SweepFlags, sweepVars
<1>4. Claims'
  BY ClaimsKept DEF emitVars
<1>5. Coverage'
  BY CoverageKept DEF sweepVars
<1> QED BY <1>1, <1>2, <1>3, <1>4, <1>5 DEF Inv, Types

\* The roster only grows.
LEMMA RosterStep ==
  ASSUME Inv, NEW l \in Logs, RefreshRoster(l)
  PROVE  Inv'
<1>1. Tables' /\ faults' \in Nat /\ cursor' \in cursor..tip
  BY DEF RefreshRoster, Inv, Types, Tables, Clock
<1>2. Socket'
  BY DEF RefreshRoster, Inv, Types, Socket, runVars
<1>3. /\ todo' \in [Tasks -> SUBSET Logs] /\ upto' \in [Tasks -> 0..tip]
      /\ upto'["sweep"] = upto["sweep"] /\ todo'["sweep"] = todo["sweep"]
  BY DEF RefreshRoster, Inv, Types, Lists, listVars
<1> QED BY <1>1, <1>2, <1>3, PlainStep DEF RefreshRoster

\* Skipping or finding nothing, connecting, losing the connection.
LEMMA PhaseStep ==
  ASSUME Inv, SkipCatchUp \/ Connect \/ QuietSocket \/ Disconnect
  PROVE  Inv'
<1>1. /\ UNCHANGED <<tip, mined, cursor, chainRows, s1Rows, followed, listVars, jobVars,
                     seen, claim, sweepVars, emitVars, looked, raisedOn>>
      /\ inbox' \in {inbox, {}} /\ phase' \in {"start", "catchup", "connect", "live"}
  BY DEF SkipCatchUp, Connect, QuietSocket, Disconnect
<1>2. throttled' \in BOOLEAN
  BY DEF SkipCatchUp, Connect, QuietSocket, Disconnect, Inv, Types, Socket
<1>3. faults' \in Nat
  BY DEF SkipCatchUp, Connect, QuietSocket, Disconnect, Fault, Inv, Types
<1>4. Tables' /\ cursor' \in cursor..tip
  BY <1>1 DEF Inv, Types, Tables, Clock
<1>5. Socket'
  <2>1. inbox' \subseteq Logs
    BY <1>1 DEF Inv, Types, Socket
  <2> QED BY <1>1, <1>2, <2>1 DEF Socket
<1>6. /\ todo' \in [Tasks -> SUBSET Logs] /\ upto' \in [Tasks -> 0..tip]
      /\ upto'["sweep"] = upto["sweep"] /\ todo'["sweep"] = todo["sweep"]
  BY <1>1 DEF Inv, Types, Lists, listVars
<1> QED BY <1>1, <1>3, <1>4, <1>5, <1>6, PlainStep

\* A catch-up opens, ends and fails between two logs.
LEMMA CatchUpStep ==
  ASSUME Inv, OpenCatchUp \/ CloseCatchUp \/ CatchUpFails
  PROVE  Inv'
<1>1. /\ UNCHANGED <<tip, mined, chainRows, s1Rows, followed, throttled, inbox, jobVars,
                     seen, claim, sweepVars, emitVars, looked, raisedOn>>
      /\ phase' \in {"start", "catchup", "connect", "live"}
  BY DEF OpenCatchUp, CloseCatchUp, CatchUpFails, GiveUpCatchUp
<1>2. faults' \in Nat
  BY DEF OpenCatchUp, CloseCatchUp, CatchUpFails, Fault, Inv, Types
<1>3. tip \in Nat /\ cursor \in 0..tip /\ tip \in 0..tip /\ upto \in [Tasks -> 0..tip]
  BY DEF Inv, Types, Clock, Lists
<1>4. cursor' \in cursor..tip
  <2>1. cursor' \in {cursor, Larger(cursor, tip), Larger(cursor, upto["run"])}
    BY DEF OpenCatchUp, CloseCatchUp, CatchUpFails, GiveUpCatchUp
  <2>2. upto["run"] \in 0..tip
    BY <1>3 DEF Tasks
  <2>3. Larger(cursor, tip) \in cursor..tip /\ Larger(cursor, upto["run"]) \in cursor..tip
    BY <1>3, <2>2, LargerFacts
  <2>4. cursor \in cursor..tip
    BY <1>3
  <2> QED BY <2>1, <2>3, <2>4
<1>5. Tables' /\ Socket'
  BY <1>1 DEF Inv, Types, Tables, Socket
<1>6. /\ todo' \in [Tasks -> SUBSET Logs] /\ upto' \in [Tasks -> 0..tip]
      /\ upto'["sweep"] = upto["sweep"] /\ todo'["sweep"] = todo["sweep"]
  <2>1. PICK S \in SUBSET Logs, k \in 0..tip :
            todo' \in {todo, [todo EXCEPT !["run"] = S]} /\ upto' = [upto EXCEPT !["run"] = k]
    <3>1. LogsIn(cursor + 1, tip) \subseteq Logs /\ {} \subseteq Logs
      BY DEF LogsIn
    <3> QED BY <1>3, <3>1 DEF OpenCatchUp, CloseCatchUp, CatchUpFails, GiveUpCatchUp
  <2>2. todo \in [Tasks -> SUBSET Logs]
    BY DEF Inv, Types, Lists
  <2> QED BY <1>3, <2>1, <2>2 DEF Tasks
<1> QED BY <1>1, <1>2, <1>4, <1>5, <1>6, PlainStep

-----------------------------------------------------------------------------
(* Handling a log                                                           *)

\* A task takes up a log: it has looked at it, and if it handles it, it holds
\* a claim that nobody had, or leaves the emitter's alone.
LEMMA TakeUpStep ==
  ASSUME Inv, NEW t \in Tasks, NEW l \in Logs, TakeUp(t, l), Socket',
         todo' \in [Tasks -> SUBSET Logs], upto' = upto,
         todo["sweep"] \subseteq todo'["sweep"] \cup {l}, buffered' \subseteq Logs,
         UNCHANGED <<tip, mined, cursor, chainRows, s1Rows, followed, sweepVars, emitting,
                     emitAt, raisedOn, faults>>
  PROVE  Inv'
<1>1. looked' = looked \cup {l} /\ current[t] = NoLog
  BY DEF TakeUp
<1>2. Clock' /\ Tables' /\ SweepSpan' /\ faults' \in Nat /\ Lists'
  BY DEF Inv, Types, Clock, Tables, SweepSpan, Lists, sweepVars
<1>3. SweepFlags'
  BY DEF Inv, Types, SweepFlags, sweepVars
<1>4. Emitter'
  BY DEF Inv, Types, Emitter
<1>5. Coverage'
  BY <1>1, CoverageKept DEF sweepVars
<1>6. CASE l \in followed \ seen
  <2>1. /\ seen' = seen \cup {l} /\ l \notin seen
        /\ claim' = [claim EXCEPT ![l] = IF @ = "none" THEN "receipt" ELSE @]
        /\ current' = [current EXCEPT ![t] = l] /\ at' = [at EXCEPT ![t] = "receipt"]
    BY <1>6 DEF TakeUp
  <2>2. Hands'
    BY <2>1 DEF Inv, Types, Hands
  <2>3. Memory'
    BY <1>1, <2>1 DEF Inv, Types, Memory
  <2>4. claim[l] \in {"none", "emitter"}
    BY <2>1 DEF Inv, Types, Memory, Claims, SeenClaims
  <2>5. /\ claim'[l] \in {"receipt", "emitter"} /\ (claim[l] = "emitter" => claim'[l] = "emitter")
        /\ \A k \in Logs : k # l => claim'[k] = claim[k]
    BY <2>1, <2>4 DEF Inv, Types, Memory
  <2>6. /\ current'[t] = l /\ at'[t] = "receipt"
        /\ \A u \in Tasks : u # t => current'[u] = current[u] /\ at'[u] = at[u]
    BY <2>1 DEF Inv, Types, Hands
  <2>7. \A u \in Tasks : current[u] # l
    BY <2>1 DEF Inv, Claims, InHand
  <2>8. InHand'
    BY <2>1, <2>6, <2>7 DEF Inv, Claims, InHand
  <2>9. SeenClaims'
    BY <2>1, <2>5 DEF Inv, Claims, SeenClaims
  <2>10. ASSUME NEW u \in Tasks PROVE TaskClaims(u)'
    <3>1. CASE u = t
      BY <2>5, <2>6, <3>1 DEF TaskClaims
    <3>2. CASE u # t
      <4>1. at[u] # "idle" => current[u] \in Logs
        BY AtHand
      <4> QED BY <2>5, <2>6, <2>7, <3>2, <4>1 DEF Inv, Claims, TaskClaims
    <3> QED BY <3>1, <3>2
  <2>11. EmitterHolds'
    <3>1. emitAt # "idle" => emitting \in Logs
      BY DEF Inv, Types, Emitter
    <3> QED BY <2>5, <3>1 DEF Inv, Claims, EmitterHolds
  <2>12. OneRowPerFill'
    BY DEF Inv, Claims, OneRowPerFill
  <2> QED BY <1>2, <1>3, <1>4, <1>5, <2>2, <2>3, <2>8, <2>9, <2>10, <2>11, <2>12
          DEF Inv, Types, Claims
<1>7. CASE l \notin followed \ seen
  <2>1. UNCHANGED <<seen, claim, jobVars>>
    BY <1>7 DEF TakeUp
  <2>2. Hands'
    BY <2>1 DEF Inv, Types, Hands, jobVars
  <2>3. Memory'
    BY <1>1, <2>1 DEF Inv, Types, Memory
  <2>4. Claims'
    BY <2>1, ClaimsKept
  <2> QED BY <1>2, <1>3, <1>4, <1>5, <2>2, <2>3, <2>4 DEF Inv, Types
<1> QED BY <1>6, <1>7

\* The three callers of _handle_v3.
LEMMA NextLogStep ==
  ASSUME Inv, NEW l \in Logs, CatchUpNext(l) \/ Deliver(l) \/ SweepNext(l)
  PROVE  Inv'
<1>1. todo \in [Tasks -> SUBSET Logs] /\ inbox \subseteq Logs /\ buffered \subseteq Logs
  BY DEF Inv, Types, Lists, Socket, Emitter
<1>2. CASE CatchUpNext(l)
  <2>1. todo' = [todo EXCEPT !["run"] = @ \ {l}]
    BY <1>2 DEF CatchUpNext
  <2>2. todo' \in [Tasks -> SUBSET Logs] /\ todo'["sweep"] = todo["sweep"]
    BY <1>1, <2>1 DEF Tasks
  <2>3. Socket'
    BY <1>2 DEF CatchUpNext, Inv, Types, Socket, runVars
  <2> QED BY <1>1, <1>2, <2>2, <2>3, TakeUpStep DEF CatchUpNext, Tasks, emitVars
<1>3. CASE Deliver(l)
  <2>1. todo' = todo /\ upto' = upto /\ inbox' \subseteq Logs /\ buffered' \subseteq Logs
    BY <1>1, <1>3 DEF Deliver, listVars
  <2>2. Socket'
    BY <1>3, <2>1 DEF Deliver, Inv, Types, Socket
  <2> QED BY <1>1, <1>3, <2>1, <2>2, TakeUpStep DEF Deliver, Tasks
<1>4. CASE SweepNext(l)
  <2>1. todo' = [todo EXCEPT !["sweep"] = @ \ {l}]
    BY <1>4 DEF SweepNext
  <2>2. todo' \in [Tasks -> SUBSET Logs] /\ todo["sweep"] \subseteq todo'["sweep"] \cup {l}
    BY <1>1, <2>1 DEF Tasks
  <2>3. Socket'
    BY <1>4 DEF SweepNext, Inv, Types, Socket, runVars
  <2> QED BY <1>1, <1>4, <2>2, <2>3, TakeUpStep DEF SweepNext, Tasks, emitVars
<1> QED BY <1>2, <1>3, <1>4

\* A task goes on with its log, or lets it go: it answers its claim at most,
\* and writes at most the row it was about to write.
LEMMA WorkStep ==
  ASSUME Inv, NEW t \in Tasks, at[t] # "idle",
         claim' = claim \/ \E o \in {"refused", "ingested"} : Finish(current[t], o),
         Rest(t) \/ \E step \in {"probe", "ingest", "cursor"} : GoTo(t, step),
         \/ chainRows' = chainRows
         \/ at[t] = "ingest" /\ chainRows' = chainRows \cup {current[t]},
         at'[t] \in {"probe", "ingest"} => claim' = claim /\ claim[current[t]] = "receipt",
         at'[t] = "ingest" => current[t] \notin s1Rows,
         Socket', Lists', SweepFlags', cursor' \in cursor..tip, faults' \in Nat,
         upto'["sweep"] = upto["sweep"], todo'["sweep"] = todo["sweep"],
         raisedOn' \subseteq looked,
         UNCHANGED <<tip, mined, s1Rows, followed, seen, sweeping, sweepEnd, since, emitVars,
                     looked>>
  PROVE  Inv'
<1> DEFINE l == current[t]
<1>1. l \in Logs /\ l \in seen /\ l # NoLog
  BY AtHand
<1>2. claim'[l] \in {"receipt", "refused", "ingested", "emitter", claim[l]}
      /\ (claim[l] = "emitter" => claim'[l] = "emitter")
      /\ (\A k \in Logs : k # l => claim'[k] = claim[k])
      /\ claim' \in [Logs -> {"none", "receipt", "refused", "ingested", "emitter"}]
  <2>1. claim \in [Logs -> {"none", "receipt", "refused", "ingested", "emitter"}]
    BY DEF Inv, Types, Memory
  <2>2. CASE claim' = claim
    BY <2>1, <2>2
  <2>3. ASSUME NEW o \in {"refused", "ingested"}, Finish(l, o)
        PROVE  claim' = [claim EXCEPT ![l] = IF @ = "emitter" THEN @ ELSE o]
    BY <2>3 DEF Finish
  <2>4. CASE \E o \in {"refused", "ingested"} : Finish(l, o)
    <3> HIDE DEF l
    <3> QED BY <1>1, <2>1, <2>3, <2>4
  <2> QED BY <2>2, <2>4
<1>3. /\ at'[t] \in {"idle", "probe", "ingest", "cursor"}
      /\ (at'[t] = "idle" => current'[t] = NoLog) /\ (at'[t] # "idle" => current'[t] = l)
      /\ \A u \in Tasks : u # t => current'[u] = current[u] /\ at'[u] = at[u]
      /\ Hands'
  BY <1>1 DEF Rest, GoTo, Inv, Types, Hands
<1>4. \A u \in Tasks : u # t => current[u] # l
  BY <1>1 DEF Inv, Claims, InHand
<1>5. Clock' /\ SweepSpan'
  BY DEF Inv, Types, Clock, SweepSpan
<1>6. Tables'
  BY <1>1 DEF Inv, Types, Tables
<1>7. Memory' /\ Emitter'
  BY <1>2 DEF Inv, Types, Memory, Emitter, emitVars
<1>8. InHand'
  BY <1>3 DEF Inv, Claims, InHand
<1>9. SeenClaims'
  BY <1>1, <1>2 DEF Inv, Claims, SeenClaims
<1> HIDE DEF l
<1>10. ASSUME NEW u \in Tasks PROVE TaskClaims(u)'
  <2>1. CASE u = t
    BY <1>3, <2>1 DEF TaskClaims, l
  <2>2. CASE u # t
    <3>1. at[u] # "idle" => current[u] \in Logs
      BY AtHand
    <3> QED BY <1>2, <1>3, <1>4, <2>2, <3>1 DEF Inv, Claims, TaskClaims
  <2> QED BY <2>1, <2>2
<1>11. emitAt # "idle" => emitting \in Logs /\ claim[emitting] = "emitter"
  BY DEF Inv, Types, Emitter, Claims, EmitterHolds
<1>12. at[t] = "ingest" => claim[l] = "receipt" /\ l \notin s1Rows
  BY DEF Inv, Claims, TaskClaims, l
<1>13. EmitterHolds'
  BY <1>2, <1>11, <1>12 DEF Inv, Claims, EmitterHolds, emitVars, l
<1>14. OneRowPerFill'
  BY <1>12 DEF Inv, Claims, OneRowPerFill, l
<1>15. Coverage'
  BY CoverageKept
<1> QED BY <1>3, <1>5, <1>6, <1>7, <1>8, <1>9, <1>10, <1>13, <1>14, <1>15 DEF Inv, Types, Claims

\* A log's block raises the cursor or leaves it.
LEMMA HandleCursor ==
  ASSUME Inv, NEW t \in Tasks, HandleStep(t)
  PROVE  cursor' \in cursor..tip
<1>1. at[t] # "idle" /\ (cursor' = cursor \/ cursor' = Larger(cursor, mined[current[t]]))
  BY DEF HandleStep, ReceiptMissing, ReceiptUndecodable, ReceiptDecodes, Probe, Ingest, AdvanceCursor
<1>2. cursor \in 0..tip /\ tip \in Nat /\ mined[current[t]] \in 0..tip
  BY <1>1, AtHand DEF Inv, Types, Clock
<1>3. Larger(cursor, mined[current[t]]) \in cursor..tip
  BY <1>2, LargerFacts
<1>4. cursor \in cursor..tip
  BY <1>2
<1> QED BY <1>1, <1>3, <1>4

\* The steps of _handle_v3.
LEMMA HandleLogStep ==
  ASSUME Inv, NEW t \in Tasks, HandleStep(t)
  PROVE  Inv'
<1>1. at[t] # "idle"
  BY DEF HandleStep, ReceiptMissing, ReceiptUndecodable, ReceiptDecodes, Probe, Ingest, AdvanceCursor
<1>2. UNCHANGED <<tip, mined, s1Rows, followed, runVars, listVars, seen, sweepVars, emitVars,
                  looked, raisedOn, faults>>
  BY DEF HandleStep, ReceiptMissing, ReceiptUndecodable, ReceiptDecodes, Probe, Ingest, AdvanceCursor
<1>3. cursor' \in cursor..tip
  BY HandleCursor
<1>4. Socket' /\ SweepFlags'
  BY <1>2 DEF Inv, Types, Socket, SweepFlags, runVars, sweepVars
<1>5. /\ Lists' /\ faults' \in Nat /\ raisedOn' \subseteq looked
      /\ upto'["sweep"] = upto["sweep"] /\ todo'["sweep"] = todo["sweep"]
      /\ UNCHANGED <<sweeping, sweepEnd, since>>
  BY <1>2 DEF Inv, Types, Lists, Memory, listVars, sweepVars
<1>6. claim' = claim \/ \E o \in {"refused", "ingested"} : Finish(current[t], o)
  BY DEF HandleStep, ReceiptMissing, ReceiptUndecodable, ReceiptDecodes, Probe, Ingest, AdvanceCursor
<1>7. \/ chainRows' = chainRows
      \/ at[t] = "ingest" /\ chainRows' = chainRows \cup {current[t]}
  BY DEF HandleStep, ReceiptMissing, ReceiptUndecodable, ReceiptDecodes, Probe, Ingest, AdvanceCursor
<1>8. Rest(t) \/ \E step \in {"probe", "ingest", "cursor"} : GoTo(t, step)
  BY DEF HandleStep, ReceiptMissing, ReceiptUndecodable, ReceiptDecodes, Probe, Ingest, AdvanceCursor
<1>9. /\ at'[t] \in {"probe", "ingest"} => claim' = claim /\ claim[current[t]] = "receipt"
      /\ at'[t] = "ingest" => current[t] \notin s1Rows
  <2>1. at \in [Tasks -> {"idle", "receipt", "probe", "ingest", "cursor"}] /\ TaskClaims(t)
    BY DEF Inv, Types, Hands, Claims
  <2>2. CASE ReceiptMissing(t) \/ ReceiptUndecodable(t) \/ Ingest(t) \/ AdvanceCursor(t)
    BY <2>1, <2>2 DEF ReceiptMissing, ReceiptUndecodable, Ingest, AdvanceCursor, Rest, GoTo
  <2>3. CASE ReceiptDecodes(t)
    BY <2>1, <2>3 DEF ReceiptDecodes, GoTo, TaskClaims
  <2>4. CASE Probe(t)
    BY <2>1, <2>4 DEF Probe, GoTo, TaskClaims
  <2> QED BY <2>2, <2>3, <2>4 DEF HandleStep
<1> QED BY <1>1, <1>2, <1>3, <1>4, <1>5, <1>6, <1>7, <1>8, <1>9, WorkStep

\* A handler raises, in a catch-up, under the socket or in a sweep.
LEMMA RaisesStep ==
  ASSUME Inv, CatchUpRaises \/ SocketHandlerRaises \/ SweepHandlerRaises
  PROVE  Inv'
<1>1. PICK t \in Tasks : at[t] # "idle" /\ Fault /\ Rest(t) /\ (SweepHandlerRaises => t = "sweep")
  BY DEF CatchUpRaises, SocketHandlerRaises, SweepHandlerRaises, Raises, Tasks
<1>2. UNCHANGED <<tip, mined, chainRows, s1Rows, followed, seen, claim, sweeping, sweepEnd, since,
                  emitVars, looked>>
  BY DEF CatchUpRaises, SocketHandlerRaises, SweepHandlerRaises, sweepVars
<1>3. at'[t] = "idle"
  BY <1>1 DEF Rest, Inv, Types, Hands
<1>4. tip \in Nat /\ cursor \in 0..tip /\ tip \in 0..tip /\ upto \in [Tasks -> 0..tip]
      /\ todo \in [Tasks -> SUBSET Logs] /\ 0 \in 0..tip /\ {} \in SUBSET Logs
  BY DEF Inv, Types, Clock, Lists
<1>5. cursor' \in cursor..tip
  <2>1. cursor' \in {cursor, Larger(cursor, tip)}
    BY DEF CatchUpRaises, SocketHandlerRaises, SweepHandlerRaises, GiveUpCatchUp
  <2>2. Larger(cursor, tip) \in cursor..tip
    BY <1>4, LargerFacts
  <2>3. cursor \in cursor..tip
    BY <1>4
  <2> QED BY <2>1, <2>2, <2>3
<1>6. /\ Lists' /\ upto'["sweep"] = upto["sweep"] /\ todo'["sweep"] = todo["sweep"]
  BY <1>2, <1>4 DEF CatchUpRaises, SocketHandlerRaises, SweepHandlerRaises, GiveUpCatchUp, Lists,
                    listVars, Tasks
<1>7. Socket'
  <2>1. /\ inbox' \subseteq Logs /\ phase' \in {"start", "catchup", "connect", "live"}
    BY DEF CatchUpRaises, SocketHandlerRaises, SweepHandlerRaises, GiveUpCatchUp, Inv, Types, Socket,
           runVars
  <2>2. throttled' \in BOOLEAN
    BY DEF CatchUpRaises, SocketHandlerRaises, SweepHandlerRaises, Inv, Types, Socket, runVars
  <2> QED BY <2>1, <2>2 DEF Socket
<1>8. SweepFlags'
  BY DEF CatchUpRaises, SocketHandlerRaises, SweepHandlerRaises, Inv, Types, SweepFlags, sweepVars
<1>9. faults' \in Nat
  BY <1>1 DEF Fault, Inv, Types
<1>10. raisedOn' \subseteq looked
  <2>1. raisedOn \subseteq looked /\ seen \subseteq looked
    BY DEF Inv, Types, Memory
  <2>2. current[t] \in looked
    BY <1>1, <2>1, AtHand
  <2> QED BY <1>1, <2>1, <2>2 DEF CatchUpRaises, SocketHandlerRaises, SweepHandlerRaises
<1> QED BY <1>1, <1>2, <1>3, <1>5, <1>6, <1>7, <1>8, <1>9, <1>10, WorkStep

-----------------------------------------------------------------------------
(* The sweep                                                                *)

\* The span of a sweep is mined.
LEMMA OpenSweepStep ==
  ASSUME Inv, OpenSweep
  PROVE  Inv'
<1> DEFINE last == Smaller(tip - ConfirmBlocks, SweepStart + MaxSpan - 1)
<1>1. /\ sweeping' = TRUE /\ since' = (IF Contiguous THEN since ELSE cursor)
      /\ cursor > 0 /\ tip >= ConfirmBlocks /\ last >= SweepStart
      /\ upto' = [upto EXCEPT !["sweep"] = last]
      /\ todo' = [todo EXCEPT !["sweep"] = LogsIn(SweepStart, last)]
      /\ UNCHANGED <<tip, mined, cursor, chainRows, s1Rows, followed, runVars, jobVars,
                     seen, claim, broke, sweepEnd, emitVars, looked, raisedOn, faults>>
  BY DEF OpenSweep
<1>2. /\ tip \in Nat /\ cursor \in 0..tip /\ sweepEnd \in 0..tip /\ since \in 0..tip
      /\ mined \in [Logs -> 0..tip] /\ upto \in [Tasks -> 0..tip] /\ todo \in [Tasks -> SUBSET Logs]
  BY DEF Inv, Types, Clock, Lists, SweepSpan
<1>3. SweepStart \in Nat
  BY <1>2 DEF SweepStart
<1>4. last \in 0..tip
  <2>1. /\ tip - ConfirmBlocks \in Int /\ tip - ConfirmBlocks <= tip
        /\ SweepStart + MaxSpan - 1 \in Int
    BY <1>2, <1>3
  <2>2. last \in Int /\ last <= tip
    BY <1>2, <2>1 DEF Smaller
  <2> QED BY <1>1, <1>2, <1>3, <2>2
<1> HIDE DEF last
<1>5. Clock' /\ Tables' /\ Hands' /\ Memory' /\ Emitter' /\ faults' \in Nat
  BY <1>1 DEF Inv, Types, Clock, Tables, Hands, Memory, Emitter, jobVars, emitVars
<1>6. Socket' /\ SweepFlags'
  BY <1>1 DEF Inv, Types, Socket, SweepFlags, runVars
<1>7. /\ Lists' /\ upto'["sweep"] = last /\ todo'["sweep"] = LogsIn(SweepStart, last)
  <2>1. LogsIn(SweepStart, last) \in SUBSET Logs
    BY DEF LogsIn
  <2> QED BY <1>1, <1>2, <1>4, <2>1 DEF Lists, Tasks
<1>8. SweepSpan'
  BY <1>1, <1>2 DEF SweepSpan
<1>9. Claims'
  BY <1>1, ClaimsKept DEF emitVars
<1>10. SweepLeavesNoHole'
  <2>1. CASE Contiguous
    BY <1>1, <2>1 DEF Inv, Coverage, SweepLeavesNoHole
  <2>2. CASE ~Contiguous
    BY <1>1, <1>2, <2>2 DEF Contiguous, SweepLeavesNoHole
  <2> QED BY <2>1, <2>2
<1>11. SweepCovers'
  <2> SUFFICES ASSUME NEW l \in Logs, mined[l] > 0, since' <= mined[l], mined[l] <= last
               PROVE  l \in looked \cup LogsIn(SweepStart, last)
    BY <1>1, <1>7 DEF SweepCovers
  <2>1. mined[l] \in 0..tip
    BY <1>2
  <2>2. CASE Contiguous /\ mined[l] <= sweepEnd
    BY <1>1, <2>2 DEF Inv, Coverage, SweepLeavesNoHole
  <2>3. CASE ~(Contiguous /\ mined[l] <= sweepEnd)
    <3>1. SweepStart <= mined[l]
      BY <1>1, <1>2, <2>1, <2>3 DEF SweepStart
    <3> QED BY <3>1 DEF LogsIn
  <2> QED BY <2>2, <2>3
<1> QED BY <1>5, <1>6, <1>7, <1>8, <1>9, <1>10, <1>11 DEF Inv, Types, Coverage

\* A sweep ends: what it covered it has looked at.
LEMMA CloseSweepStep ==
  ASSUME Inv, CloseSweep
  PROVE  Inv'
<1>1. /\ sweeping /\ todo["sweep"] = {} /\ sweeping' = FALSE /\ broke' = FALSE
      /\ upto' = [upto EXCEPT !["sweep"] = 0]
      /\ UNCHANGED <<tip, mined, chainRows, s1Rows, followed, runVars, todo, jobVars,
                     seen, claim, since, emitVars, looked, raisedOn, faults>>
  BY DEF CloseSweep
<1>2. /\ tip \in Nat /\ cursor \in 0..tip /\ sweepEnd \in 0..tip
      /\ upto \in [Tasks -> 0..tip] /\ upto["sweep"] \in 0..tip
  BY DEF Inv, Types, Clock, Lists, SweepSpan, Tasks
<1>3. \/ cursor' = cursor /\ sweepEnd' = sweepEnd
      \/ cursor' = Larger(cursor, upto["sweep"]) /\ sweepEnd' = upto["sweep"]
  BY DEF CloseSweep
<1>4. cursor' \in cursor..tip
  <2>1. Larger(cursor, upto["sweep"]) \in cursor..tip
    BY <1>2, LargerFacts
  <2>2. cursor \in cursor..tip
    BY <1>2
  <2> QED BY <1>3, <2>1, <2>2
<1>5. Clock' /\ Lists' /\ SweepSpan'
  <2>1. tip' = tip /\ mined' = mined /\ todo' = todo /\ since' = since
    BY <1>1
  <2>2. sweepEnd' \in 0..tip /\ upto' \in [Tasks -> 0..tip]
    <3>1. sweepEnd' \in 0..tip
      BY <1>2, <1>3
    <3>2. 0 \in 0..tip
      BY <1>2
    <3> QED BY <1>1, <1>2, <3>1, <3>2
  <2>3. Clock' /\ SweepSpan'
    BY <1>2, <1>4, <2>1, <2>2 DEF Inv, Types, Clock, SweepSpan
  <2>4. Lists'
    BY <2>1, <2>2 DEF Inv, Types, Lists
  <2> QED BY <2>3, <2>4
<1>6. Tables' /\ Hands' /\ Memory' /\ Emitter' /\ faults' \in Nat
  BY <1>1 DEF Inv, Types, Tables, Hands, Memory, Emitter, jobVars, emitVars
<1>7. Socket' /\ SweepFlags'
  BY <1>1 DEF Inv, Types, Socket, SweepFlags, runVars
<1>8. Claims'
  BY <1>1, ClaimsKept DEF emitVars
<1>9. Coverage'
  BY <1>1, <1>3 DEF Inv, Coverage, SweepLeavesNoHole, SweepCovers
<1> QED BY <1>4, <1>5, <1>6, <1>7, <1>8, <1>9 DEF Inv, Types

-----------------------------------------------------------------------------
(* The emitter and restarts                                                 *)

\* The emitter takes a claim nobody holds, and writes no row over one.
LEMMA EmitStep ==
  ASSUME Inv, EmitterStep
  PROVE  Inv'
<1>1. /\ UNCHANGED <<tip, mined, cursor, chainRows, followed, runVars, listVars, jobVars, seen,
                     sweepVars, looked, raisedOn, faults>>
  BY DEF EmitterStep, EmitterProbes, EmitterIngests, EmitterRetries, EmitterClaims, EmitterAbstains
<1>2. Clock' /\ Lists' /\ SweepSpan' /\ Hands' /\ faults' \in Nat
  BY <1>1 DEF Inv, Types, Clock, Lists, SweepSpan, Hands, listVars, sweepVars, jobVars
<1>3. Socket' /\ SweepFlags'
  BY <1>1 DEF Inv, Types, Socket, SweepFlags, runVars, sweepVars
<1>4. Coverage'
  BY <1>1, CoverageKept DEF sweepVars, listVars
<1>5. emitAt # "idle" => emitting \in Logs /\ claim[emitting] = "emitter"
  BY DEF Inv, Types, Emitter, Claims, EmitterHolds
<1>6. Tables' /\ Emitter' /\ Memory'
  <2>1. Tables'
    BY <1>1, <1>5 DEF EmitterStep, EmitterProbes, EmitterIngests, EmitterRetries, EmitterClaims,
                      EmitterAbstains, Inv, Types, Tables
  <2>2. Emitter'
    BY <1>5 DEF EmitterStep, EmitterProbes, EmitterIngests, EmitterRetries, EmitterClaims,
                EmitterAbstains, Inv, Types, Emitter
  <2>3. Memory'
    BY <1>1 DEF EmitterStep, EmitterProbes, EmitterIngests, EmitterRetries, EmitterClaims,
                EmitterAbstains, Inv, Types, Memory
  <2> QED BY <2>1, <2>2, <2>3
<1>7. InHand'
  BY <1>1 DEF Inv, Claims, InHand, jobVars
<1>8. \A t \in Tasks : at[t] # "idle" => current[t] \in Logs
  BY AtHand
<1>9. ASSUME NEW l \in Logs, EmitterClaims(l) PROVE Claims'
  <2>1. /\ claim[l] \in {"none", "refused", "emitter"}
        /\ claim' = [claim EXCEPT ![l] = "emitter"] /\ emitting' = l /\ emitAt' = "probe"
        /\ s1Rows' = s1Rows
    BY <1>9 DEF EmitterClaims
  <2>2. claim'[l] = "emitter" /\ \A k \in Logs : k # l => claim'[k] = claim[k]
    BY <2>1 DEF Inv, Types, Memory
  <2>3. SeenClaims' /\ EmitterHolds' /\ OneRowPerFill'
    BY <1>1, <2>1, <2>2 DEF Inv, Claims, SeenClaims, EmitterHolds, OneRowPerFill
  <2>4. ASSUME NEW t \in Tasks PROVE TaskClaims(t)'
    BY <1>1, <1>8, <2>1, <2>2 DEF Inv, Claims, TaskClaims, jobVars
  <2> QED BY <1>7, <2>3, <2>4 DEF Claims
<1>10. ASSUME EmitterIngests PROVE Claims'
  <2>1. /\ emitAt = "ingest" /\ s1Rows' = s1Rows \cup {emitting} /\ emitAt' = "idle" /\ claim' = claim
    BY <1>10 DEF EmitterIngests
  <2>2. emitting \notin chainRows
    BY <2>1 DEF Inv, Claims, EmitterHolds
  <2>3. SeenClaims' /\ EmitterHolds' /\ OneRowPerFill'
    BY <1>1, <2>1, <2>2 DEF Inv, Claims, SeenClaims, EmitterHolds, OneRowPerFill
  <2>4. ASSUME NEW t \in Tasks PROVE TaskClaims(t)'
    BY <1>1, <1>5, <2>1 DEF Inv, Claims, TaskClaims, jobVars
  <2> QED BY <1>7, <2>3, <2>4 DEF Claims
<1>11. ASSUME EmitterProbes \/ EmitterRetries \/ \E l \in Logs : EmitterAbstains(l)
       PROVE  Claims'
  <2>1. /\ s1Rows' = s1Rows /\ claim' = claim
        /\ (emitAt' # "idle" => emitAt # "idle" /\ emitting' = emitting)
        /\ (emitAt' = "ingest" /\ emitAt' # emitAt => emitting \notin chainRows)
    BY <1>11 DEF EmitterProbes, EmitterRetries, EmitterAbstains
  <2>2. SeenClaims' /\ EmitterHolds' /\ OneRowPerFill'
    BY <1>1, <2>1 DEF Inv, Claims, SeenClaims, EmitterHolds, OneRowPerFill
  <2>3. ASSUME NEW t \in Tasks PROVE TaskClaims(t)'
    BY <1>1, <2>1 DEF Inv, Claims, TaskClaims, jobVars
  <2> QED BY <1>7, <2>2, <2>3 DEF Claims
<1>12. Claims'
  BY <1>9, <1>10, <1>11 DEF EmitterStep
<1> QED BY <1>2, <1>3, <1>4, <1>6, <1>12 DEF Inv, Types

\* A restart keeps the tables and the cursor.
LEMMA CrashStep ==
  ASSUME Inv, Crash
  PROVE  Inv'
<1>1. Clock' /\ Tables' /\ SweepSpan' /\ faults' \in Nat
  BY DEF Crash, FreshMemory, Fault, Inv, Types, Clock, Tables, SweepSpan
<1>2. Socket' /\ SweepFlags'
  BY DEF Crash, FreshMemory, Socket, SweepFlags
<1>3. Lists' /\ Hands' /\ Memory' /\ Emitter'
  <2>1. tip' \in Nat
    BY <1>1 DEF Clock
  <2>2. Lists' /\ Hands'
    BY <2>1 DEF Crash, FreshMemory, Lists, Hands
  <2>3. Memory' /\ Emitter'
    BY DEF Crash, FreshMemory, Memory, Emitter
  <2> QED BY <2>2, <2>3
<1>4. Claims'
  BY DEF Crash, FreshMemory, Inv, Claims, InHand, SeenClaims, TaskClaims, EmitterHolds, OneRowPerFill
<1>5. Coverage'
  <2>1. \A l \in Logs : mined'[l] \in Nat
    BY <1>1 DEF Clock
  <2> QED BY <2>1 DEF Crash, FreshMemory, Coverage, SweepLeavesNoHole, SweepCovers
<1> QED BY <1>1, <1>2, <1>3, <1>4, <1>5 DEF Inv, Types

-----------------------------------------------------------------------------
(* The theorems                                                             *)

\* Every step keeps the invariant.
LEMMA NextInv == Inv /\ [Next]_vars => Inv'
<1> SUFFICES ASSUME Inv, [Next]_vars PROVE Inv'
  OBVIOUS
<1>1. CASE RunStep
  <2>1. CASE SkipCatchUp \/ Connect \/ QuietSocket
    BY <2>1, PhaseStep
  <2>2. CASE OpenCatchUp \/ CloseCatchUp
    BY <2>2, CatchUpStep
  <2>3. CASE HandleStep("run")
    BY <2>3, HandleLogStep DEF Tasks
  <2>4. CASE \E l \in Logs : CatchUpNext(l) \/ Deliver(l)
    BY <2>4, NextLogStep
  <2> QED BY <1>1, <2>1, <2>2, <2>3, <2>4 DEF RunStep
<1>2. CASE SweepStep
  <2>1. CASE OpenSweep
    BY <2>1, OpenSweepStep
  <2>2. CASE CloseSweep
    BY <2>2, CloseSweepStep
  <2>3. CASE HandleStep("sweep")
    BY <2>3, HandleLogStep DEF Tasks
  <2>4. CASE \E l \in Logs : SweepNext(l)
    BY <2>4, NextLogStep
  <2> QED BY <1>2, <2>1, <2>2, <2>3, <2>4 DEF SweepStep
<1>3. CASE EmitterStep
  BY <1>3, EmitStep
<1>4. CASE FaultStep
  BY <1>4, CatchUpStep, RaisesStep, PhaseStep, CrashStep DEF FaultStep
<1>5. CASE Environment
  BY <1>5, MineStep, RosterStep DEF Environment
<1>6. CASE UNCHANGED vars
  <2>1. Clock' /\ Tables' /\ Lists' /\ SweepSpan' /\ faults' \in Nat
    BY <1>6 DEF vars, Inv, Types, Clock, Tables, Lists, SweepSpan, listVars, sweepVars
  <2>2. Hands' /\ Memory' /\ Emitter'
    BY <1>6 DEF vars, Inv, Types, Hands, Memory, Emitter, jobVars, emitVars
  <2>3. Socket' /\ SweepFlags'
    BY <1>6 DEF vars, Inv, Types, Socket, SweepFlags, runVars, sweepVars
  <2>4. Claims' /\ Coverage'
    BY <1>6, ClaimsKept, CoverageKept DEF vars, listVars, sweepVars, emitVars
  <2> QED BY <2>1, <2>2, <2>3, <2>4 DEF Inv, Types
<1> QED BY <1>1, <1>2, <1>3, <1>4, <1>5, <1>6 DEF Next

\* The invariant holds of every state a behaviour reaches.
THEOREM Invariance == Spec => []Inv
<1>1. Init => Inv
  BY InitInv
<1>2. Inv /\ [Next]_vars => Inv'
  BY NextInv
<1> QED BY <1>1, <1>2, PTL DEF Spec

\* Every variable of the listener keeps its type; only what was looked at is
\* marked seen or counted as raised on.
THEOREM TypeCorrect == Spec => []TypeOK
<1>1. Inv => TypeOK
  BY TypesFact DEF Inv
<1> QED BY <1>1, Invariance, PTL

\* The claim registry, the seen set and the two probes of trades keep a fill
\* out of the table a second time, through restarts that forget the claims.
THEOREM NoSecondRow == Spec => []OneRowPerFill
<1>1. Inv => OneRowPerFill
  BY DEF Inv, Claims
<1> QED BY <1>1, Invariance, PTL

\* The sweeps of one process follow each other without a gap, however far the
\* socket has moved the cursor.
THEOREM SweepsAreContiguous == Spec => []SweepLeavesNoHole
<1>1. Inv => SweepLeavesNoHole
  BY DEF Inv, Coverage
<1> QED BY <1>1, Invariance, PTL

\* The steps that save a block all raise the cursor or leave it.
LEMMA CursorRises == Inv /\ [Next]_vars => [cursor' >= cursor]_vars
<1> SUFFICES ASSUME Inv, Next PROVE cursor' >= cursor
  BY DEF vars
<1>1. /\ tip \in Nat /\ cursor \in 0..tip /\ tip \in 0..tip
      /\ \A t \in Tasks : upto[t] \in 0..tip
  BY DEF Inv, Types, Clock, Lists
<1>2. ASSUME NEW b \in 0..tip, cursor' \in {cursor, Larger(cursor, b)} PROVE cursor' >= cursor
  BY <1>1, <1>2, LargerFacts
<1>3. CASE RunStep
  <2>1. CASE SkipCatchUp \/ OpenCatchUp \/ Connect \/ QuietSocket
             \/ \E l \in Logs : CatchUpNext(l) \/ Deliver(l)
    <3>1. cursor' = cursor
      BY <2>1 DEF SkipCatchUp, OpenCatchUp, Connect, QuietSocket, CatchUpNext, Deliver
    <3> QED BY <1>1, <3>1
  <2>2. CASE CloseCatchUp
    BY <1>1, <1>2, <2>2 DEF CloseCatchUp, Tasks
  <2>3. CASE HandleStep("run")
    BY <1>1, <2>3, HandleCursor DEF Tasks
  <2> QED BY <1>3, <2>1, <2>2, <2>3 DEF RunStep
<1>4. CASE SweepStep
  <2>1. CASE OpenSweep \/ \E l \in Logs : SweepNext(l)
    <3>1. cursor' = cursor
      BY <2>1 DEF OpenSweep, SweepNext
    <3> QED BY <1>1, <3>1
  <2>2. CASE CloseSweep
    <3>1. cursor' \in {cursor, Larger(cursor, upto["sweep"])}
      BY <2>2 DEF CloseSweep
    <3> QED BY <1>1, <1>2, <3>1 DEF Tasks
  <2>3. CASE HandleStep("sweep")
    BY <1>1, <2>3, HandleCursor DEF Tasks
  <2> QED BY <1>4, <2>1, <2>2, <2>3 DEF SweepStep
<1>5. CASE EmitterStep \/ Environment
  <2>1. cursor' = cursor
    BY <1>5 DEF EmitterStep, EmitterProbes, EmitterIngests, EmitterRetries, EmitterClaims,
                EmitterAbstains, Environment, Mine, RefreshRoster
  <2> QED BY <1>1, <2>1
<1>6. CASE FaultStep
  <2>1. cursor' \in {cursor, Larger(cursor, tip)}
    BY <1>6 DEF FaultStep, CatchUpFails, CatchUpRaises, GiveUpCatchUp, Disconnect,
                SocketHandlerRaises, SweepHandlerRaises, Crash
  <2> QED BY <1>1, <1>2, <2>1
<1> QED BY <1>3, <1>4, <1>5, <1>6 DEF Next

\* _save_cursor's GREATEST: neither a late sweep, nor a handler that was
\* slow, nor a failed catch-up takes the cursor back.
THEOREM CursorOnlyRises == Spec => CursorNeverFallsBack
<1>1. Inv /\ [Next]_vars => [cursor' >= cursor]_vars
  BY CursorRises
<1> QED BY <1>1, Invariance, PTL DEF Spec, CursorNeverFallsBack
=============================================================================
