------------------------------- MODULE Throttle -------------------------------
(***************************************************************************)
(* The process-wide throttle of the data API and its callers, ratelimit.py.*)
(*                                                                         *)
(* Callers queue in two lanes, money paths in the priority lane.  One pump *)
(* task sleeps until the next slot frees, picks a lane and resolves the    *)
(* waiter's future; it ends when nobody waits and the next caller starts   *)
(* another.  All run on one event loop, so a step is what runs between two *)
(* awaits: a future may be resolved, cancelled or failed before its task   *)
(* comes to run.  A caller that is done comes back when it likes, which     *)
(* stands for polite_get's retries as well as for new calls.               *)
(***************************************************************************)
EXTENDS Naturals, FiniteSets, Sequences, SequencesExt

CONSTANTS
    Money,     \* callers of the priority lane
    Others,    \* callers of the normal lane
    Burst,     \* PRIORITY_BURST
    Interval,  \* ticks between two slots
    MaxKills   \* bound: pumps that are cancelled or raise

ASSUME LanesAssumption == Money \cap Others = {}
ASSUME ParametersAssumption ==
    Burst \in Nat \ {0} /\ Interval \in Nat \ {0} /\ MaxKills \in Nat

Callers == Money \cup Others
Lanes == {"priority", "normal"}
LaneOf(c) == IF c \in Money THEN "priority" ELSE "normal"

VARIABLES
    lane,     \* each lane's queue of futures, by the caller that awaits it
    state,    \* each caller: where it is, and what became of its future
    pump,     \* the pump task: none, created or asleep
    burst,    \* _burst
    ahead,    \* _next less the clock, counted from Interval below it
    gap,      \* ticks since the last slot, up to Interval (history)
    passed,   \* priority slots while the normal caller waits (history)
    front,    \* normal callers queued before it at that time (history)
    quietly,  \* the last pump ended before its first step (history)
    kills

callVars == <<lane, state>>
histVars == <<gap, passed, front, quietly>>
vars == <<callVars, pump, burst, ahead, histVars, kills>>

\* The slot is free from Due on: _next is not after the clock.
Due == Interval

\* Callers whose future is not done.
Queued == {c \in Callers : state[c] = "queued"}

\* A lane after the futures of all but C are dropped, and its futures that are
\* not done, in its order.
Keep(s, C) ==
    LET kept[i \in 0..Len(s)] ==
            IF i = 0 THEN <<>>
            ELSE IF s[i] \in C THEN Append(kept[i - 1], s[i]) ELSE kept[i - 1]
    IN  kept[Len(s)]
Live(w) == Keep(lane[w], Queued)

\* The count of slots that passed a caller stops above what may pass it.
OneMore(n) == IF n > Burst * Cardinality(Others) THEN n ELSE n + 1

\* The history of callers whose wait is over.
Forget(C) ==
    /\ passed' = [c \in Callers |-> IF c \in C THEN 0 ELSE passed[c]]
    /\ front' = [c \in Callers |-> IF c \in C THEN 0 ELSE front[c]]

Init ==
    /\ lane = [w \in Lanes |-> <<>>] /\ state = [c \in Callers |-> "idle"]
    /\ pump = "none" /\ burst = 0 /\ ahead = 0 /\ gap = Interval
    /\ passed = [c \in Callers |-> 0] /\ front = [c \in Callers |-> 0]
    /\ quietly = FALSE /\ kills = 0

-----------------------------------------------------------------------------
(* The callers                                                              *)

\* acquire: the future joins its lane; a pump that is not there, or done, is
\* replaced.
Acquire(c) ==
    /\ state[c] = "idle"
    /\ lane' = [lane EXCEPT ![LaneOf(c)] = Append(@, c)]
    /\ state' = [state EXCEPT ![c] = "queued"]
    /\ pump' = IF pump = "none" THEN "created" ELSE pump
    /\ front' = [front EXCEPT ![c] = Cardinality(Queued \cap Others)]
    /\ quietly' = FALSE
    /\ UNCHANGED <<burst, ahead, gap, passed, kills>>

\* The caller's timeout cancels the future it awaits.
Cancel(c) ==
    /\ state[c] = "queued"
    /\ state' = [state EXCEPT ![c] = "cancelled"] /\ Forget({c})
    /\ UNCHANGED <<lane, pump, burst, ahead, gap, quietly, kills>>

\* Mutant: a cancelled caller does not leave its lane.
LeaveInLane(c) ==
    /\ state[c] \in {"cancelled", "served", "failed"}
    /\ state' = [state EXCEPT ![c] = "idle"]
    /\ UNCHANGED <<lane, pump, burst, ahead, histVars, kills>>

\* A caller whose future is done runs on: a cancelled one leaves its lane,
\* unless the pump dropped it before.
Leave(c) ==
    /\ state[c] \in {"cancelled", "served", "failed"}
    /\ lane' = [lane EXCEPT ![LaneOf(c)] = Keep(@, Callers \ {c})]
    /\ state' = [state EXCEPT ![c] = "idle"]
    /\ UNCHANGED <<pump, burst, ahead, histVars, kills>>

-----------------------------------------------------------------------------
(* The pump                                                                 *)

\* Mutant: whoever is at the head is picked, done or not.
PickStale ==
    CASE lane["priority"] # <<>> /\ lane["normal"] # <<>> ->
             IF burst >= Burst THEN <<Head(lane["normal"]), 0>>
             ELSE <<Head(lane["priority"]), burst + 1>>
      [] lane["priority"] # <<>> /\ lane["normal"] = <<>> -> <<Head(lane["priority"]), 0>>
      [] OTHER -> <<Head(lane["normal"]), 0>>

\* Mutant: one priority slot too many in a row.
PickLate ==
    LET p == Live("priority") n == Live("normal") IN
    CASE p # <<>> /\ n # <<>> -> IF burst > Burst THEN <<Head(n), 0>> ELSE <<Head(p), burst + 1>>
      [] p # <<>> /\ n = <<>> -> <<Head(p), 0>>
      [] OTHER -> <<Head(n), 0>>

\* Mutant: the priority lane always goes first.
PickPriority ==
    IF Live("priority") # <<>> THEN <<Head(Live("priority")), 0>> ELSE <<Head(Live("normal")), 0>>

\* _pick: the caller that is served, and _burst after it.  With both lanes
\* waiting the priority lane goes first, Burst times in a row.
Pick ==
    LET p == Live("priority") n == Live("normal") IN
    CASE p # <<>> /\ n # <<>> -> IF burst >= Burst THEN <<Head(n), 0>> ELSE <<Head(p), burst + 1>>
      [] p # <<>> /\ n = <<>> -> <<Head(p), 0>>
      [] OTHER -> <<Head(n), 0>>

\* Mutant: the idle time since the last slot is banked.
ChargeBanked == ahead + Interval

\* max(now, _next) + the interval.
Charge == (IF ahead >= Due THEN ahead ELSE Due) + Interval

\* The pump runs: it serves one caller if the slot is free, and then sleeps
\* as long as somebody waits.  Done futures are dropped from the lanes.
Serve ==
    /\ pump \in {"created", "asleep"} /\ ahead <= Due
    /\ IF Queued = {}
       THEN /\ lane' = [w \in Lanes |-> <<>>] /\ pump' = "none"
            /\ UNCHANGED <<state, burst, ahead, gap, passed, front>>
       ELSE /\ ahead' = Charge /\ gap' = 0
            /\ \E c \in {Pick[1]} :
               /\ state' = [state EXCEPT ![c] = "served"] /\ burst' = Pick[2]
               /\ pump' = IF Queued = {c} THEN "none" ELSE "asleep"
               /\ lane' = [w \in Lanes |-> Keep(lane[w], Queued \ {c})]
               /\ passed' = [d \in Callers |->
                               IF d = c THEN 0
                               ELSE IF c \in Money /\ d \in Queued \cap Others
                                    THEN OneMore(passed[d]) ELSE passed[d]]
               /\ front' = [front EXCEPT ![c] = 0]
    /\ UNCHANGED <<quietly, kills>>

\* A pump whose slot is not free yet goes to sleep, or ends if nobody waits.
Wait ==
    /\ pump = "created" /\ ahead > Due
    /\ IF Queued = {} THEN pump' = "none" /\ lane' = [w \in Lanes |-> <<>>]
                      ELSE pump' = "asleep" /\ UNCHANGED lane
    /\ UNCHANGED <<state, burst, ahead, histVars, kills>>

\* Mutant: the pump's exit fails nobody.
DieSilently ==
    /\ kills < MaxKills /\ kills' = kills + 1
    /\ pump # "none" /\ pump' = "none"
    /\ UNCHANGED <<callVars, burst, ahead, histVars>>

\* Cancelled in its sleep, or dead of an exception in any step: _release fails
\* every waiter and empties both lanes.
Die ==
    /\ kills < MaxKills /\ kills' = kills + 1
    /\ pump # "none" /\ pump' = "none"
    /\ state' = [c \in Callers |-> IF c \in Queued THEN "failed" ELSE state[c]]
    /\ lane' = [w \in Lanes |-> <<>>] /\ Forget(Queued)
    /\ UNCHANGED <<burst, ahead, gap, quietly>>

\* Cancelled before its first step: a coroutine that never ran has no finally.
DieUnstarted ==
    /\ kills < MaxKills /\ kills' = kills + 1
    /\ pump = "created" /\ pump' = "none" /\ quietly' = TRUE
    /\ UNCHANGED <<callVars, burst, ahead, gap, passed, front>>

\* Time passes.
Tick ==
    /\ ahead > 0 \/ gap < Interval
    /\ ahead' = IF ahead > 0 THEN ahead - 1 ELSE 0
    /\ gap' = IF gap < Interval THEN gap + 1 ELSE Interval
    /\ UNCHANGED <<callVars, pump, burst, passed, front, quietly, kills>>

-----------------------------------------------------------------------------
PumpStep == Serve \/ Wait

Next ==
    \/ \E c \in Callers : Acquire(c) \/ Cancel(c) \/ Leave(c)
    \/ PumpStep \/ Die \/ DieUnstarted \/ Tick

Spec == Init /\ [][Next]_vars

\* The event loop runs the pump when it is ready, and time passes.  Callers
\* may come again for ever and may never run on.
FairSpec == Spec /\ WF_vars(PumpStep) /\ WF_vars(Tick)

-----------------------------------------------------------------------------
(* Properties                                                               *)

\* Every variable keeps its type; a lane holds the futures of its own
\* callers, each once, and every one that is not done.
TypeOK ==
    /\ state \in [Callers -> {"idle", "queued", "cancelled", "served", "failed"}]
    /\ lane \in [Lanes -> Seq(Callers)]
    /\ \A w \in Lanes :
           /\ IsInjective(lane[w])
           /\ ToSet(lane[w]) \subseteq
                  {c \in Callers : LaneOf(c) = w /\ state[c] \in {"queued", "cancelled"}}
    /\ \A c \in Queued : c \in ToSet(lane[LaneOf(c)])
    /\ pump \in {"none", "created", "asleep"} /\ burst \in 0..Burst
    /\ ahead \in 0..(2 * Interval) /\ gap \in 0..Interval
    /\ passed \in [Callers -> 0..(Burst * Cardinality(Others) + 1)]
    /\ front \in [Callers -> 0..Cardinality(Others)]
    /\ quietly \in BOOLEAN /\ kills \in 0..MaxKills

\* "THE PUMP CANNOT DIE QUIETLY": whoever waits has a pump that is going to
\* run, whatever ended the one before; unless a pump was cancelled before its
\* first step, which fails nobody and leaves the repair to the next arrival.
NobodyIsStranded == ~quietly /\ Queued # {} => pump # "none"

\* "STARVATION BOUND": between two normal slots at most Burst priority slots
\* go out while a normal caller waits, so it lets at most that many pass it
\* for each normal caller before it and for itself, however callers come, time
\* out and come back.
StarvationBound == \A c \in Queued \cap Others : passed[c] <= Burst * (front[c] + 1)

\* "THE RATE DOES NOT CHANGE: one slot per 1/rate seconds whatever the mix":
\* two slots are an interval apart across idle times, cancelled waiters, lane
\* changes and pumps that die and are replaced.
SlotsApart ==
    [][(\E c \in Callers : state[c] = "queued" /\ state'[c] = "served") => gap = Interval]_vars

\* "A waiter cancelled in the queue leaves the lane and is never charged a
\* slot": every slot that is charged goes to a caller that is waiting for it.
ChargedIsServed ==
    [][ahead' > ahead => \E c \in Callers : state[c] = "queued" /\ state'[c] = "served"]_vars

\* Under FairSpec every wait ends, by a slot, by the caller's own timeout or
\* by the exit of the pump, under a stream of priority callers without end.
WaitEnds == \A c \in Callers : (state[c] = "queued") ~> (state[c] # "queued" \/ quietly)
=============================================================================
