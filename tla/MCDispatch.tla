------------------------------ MODULE MCDispatch ------------------------------
EXTENDS Dispatch

\* A message task and a handoff of a once task, and two handoffs of one task, over a
\* reload; two messages of one task without one.
MCSetups ==
  {[kind |-> [k \in Keys |-> IF k = "k1" THEN "message" ELSE "handoff"],
    once |-> {"handoff"}, epochs |-> 2],
   [kind |-> [k \in Keys |-> "handoff"], once |-> {}, epochs |-> 2],
   [kind |-> [k \in Keys |-> "message"], once |-> {}, epochs |-> 1]}
===============================================================================
