--------------------------- MODULE NoticeDelivery ---------------------------
(***************************************************************************)
(* What the notification path promises about one notice (one trade on one  *)
(* channel), whatever workers, tables and tasks stand behind it: a notice  *)
(* is queued at most once, taken by one worker at most once, and then      *)
(* either reaches its recipient exactly once or is lost for good.  It is   *)
(* the header comment of dispatcher.py ("at-most-once delivery, so         *)
(* replays/restarts can never double-push") made precise; TradePipeline    *)
(* is shown to implement it.                                               *)
(***************************************************************************)
EXTENDS Naturals

CONSTANT Notices

VARIABLES
    note,    \* how far each notice has come
    pushes   \* how many times each notice reached its recipient

noticeVars == <<note, pushes>>

Stages == {"absent", "queued", "taken", "delivered", "lost"}

NoticeInit ==
    /\ note = [n \in Notices |-> "absent"]
    /\ pushes = [n \in Notices |-> 0]

Move(S, from, to) ==
    /\ \A n \in S : note[n] = from
    /\ note' = [n \in Notices |-> IF n \in S THEN to ELSE note[n]]

Queue(S) == Move(S, "absent", "queued") /\ UNCHANGED pushes

Take(S) == Move(S, "queued", "taken") /\ UNCHANGED pushes

Deliver(S) ==
    /\ Move(S, "taken", "delivered")
    /\ pushes' = [n \in Notices |-> IF n \in S THEN pushes[n] + 1 ELSE pushes[n]]

Lose(S) == Move(S, "taken", "lost") /\ UNCHANGED pushes

NoticeNext ==
    \E S \in SUBSET Notices : Queue(S) \/ Take(S) \/ Deliver(S) \/ Lose(S)

NoticeSpec == NoticeInit /\ [][NoticeNext]_noticeVars
=============================================================================
