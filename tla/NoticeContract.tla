----------------------------- MODULE NoticeContract -----------------------------
(***************************************************************************)
(* What the delivery of notices promises, without memory, buffers, timers  *)
(* or attempts.  A notice that has been recorded is owed; it stops being   *)
(* owed only when it has really been told, was acknowledged, or is given   *)
(* up at a start.  What is settled is never told again.                    *)
(***************************************************************************)
EXTENDS Naturals

CONSTANT Notices

VARIABLES
  place,  \* "none", "owed", "told", "acked" or "lapsed"
  told    \* how often each has been told

vars == <<place, told>>

Init ==
  /\ place = [n \in Notices |-> "none"]
  /\ told = [n \in Notices |-> 0]

Move(n, to) == place' = [place EXCEPT ![n] = to]

Owe(n) ==
  /\ place[n] = "none"
  /\ Move(n, "owed")
  /\ UNCHANGED told

\* A notice that could not be recorded may be told all the same.
Tell(group) ==
  /\ \A n \in group : place[n] \in {"none", "owed"}
  /\ told' = [n \in Notices |-> IF n \in group THEN told[n] + 1 ELSE told[n]]
  /\ UNCHANGED place

Close(n) ==
  /\ place[n] = "owed" /\ told[n] > 0
  /\ Move(n, "told")
  /\ UNCHANGED told

Acknowledge(n) ==
  /\ place[n] \in {"none", "owed", "told"}
  /\ Move(n, "acked")
  /\ UNCHANGED told

Lapse(n) ==
  /\ place[n] = "owed"
  /\ Move(n, "lapsed")
  /\ UNCHANGED told

Next ==
  \/ \E n \in Notices : Owe(n) \/ Close(n) \/ Acknowledge(n) \/ Lapse(n)
  \/ \E group \in SUBSET Notices : Tell(group)

Spec == Init /\ [][Next]_vars
===============================================================================
