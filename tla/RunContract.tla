------------------------------ MODULE RunContract ------------------------------
(***************************************************************************)
(* What a caller may rely on once a run has been accepted, without phases, *)
(* timers, grace windows, guards or sessions: the run gets a limit and a   *)
(* ceiling, the limit only grows and never passes the ceiling, the verdict *)
(* is given once, and the total budget is blamed for it only after the     *)
(* limit.                                                                  *)
(***************************************************************************)
EXTENDS Integers

VARIABLES
  clock,    \* the time
  stage,    \* "absent", "pending" or "settled"
  verdict,  \* the terminal status, once settled
  blame,    \* the deadline the verdict names, or "none"
  limit,    \* the soft deadline
  ceiling   \* the hard deadline

vars == <<clock, stage, verdict, blame, limit, ceiling>>

Verdicts == {"completed", "failed", "timed_out", "aborted"}

Init ==
  /\ clock = 0
  /\ stage = "absent"
  /\ verdict = "none"
  /\ blame = "none"
  /\ limit = 0
  /\ ceiling = 0

Accept ==
  /\ stage = "absent"
  /\ stage' = "pending"
  /\ limit' > clock
  /\ limit' <= ceiling'
  /\ UNCHANGED <<clock, verdict, blame>>

\* A request whose deadline has passed is refused without a limit.
Refuse ==
  /\ stage = "absent"
  /\ stage' = "settled"
  /\ verdict' = "failed"
  /\ UNCHANGED <<clock, blame, limit, ceiling>>

Extend ==
  /\ stage = "pending"
  /\ limit' > limit
  /\ limit' <= ceiling
  /\ UNCHANGED <<clock, stage, verdict, blame, ceiling>>

Settle ==
  /\ stage = "pending"
  /\ stage' = "settled"
  /\ verdict' \in Verdicts
  /\ blame' = "total" => clock >= limit
  /\ UNCHANGED <<clock, limit, ceiling>>

Tick ==
  /\ clock' = clock + 1
  /\ UNCHANGED <<stage, verdict, blame, limit, ceiling>>

Next == Accept \/ Refuse \/ Extend \/ Settle \/ Tick

Spec == Init /\ [][Next]_vars
===============================================================================
