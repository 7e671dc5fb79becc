------------------------------ MODULE MCDelivery ------------------------------
EXTENDS Delivery, TLC
CONSTANTS k1, k2

\* A coalescer with a run whose notice is held for its policy and a log that may refuse
\* a write; an ack hold over two restarts.
MCSetups ==
  {[held |-> {k2}, buffering |-> "batch", maxBuffer |-> 2, maxAttempts |-> 2,
    maxRounds |-> 1, maxReconcile |-> 2, maxRestarts |-> 1, storeFails |-> TRUE],
   [held |-> {}, buffering |-> "single", maxBuffer |-> 3, maxAttempts |-> 2,
    maxRounds |-> 2, maxReconcile |-> 1, maxRestarts |-> 2, storeFails |-> FALSE]}

\* One notice, a log that may refuse, and two restarts: the first writes the mark and
\* is refused, the second reads what the first left.
UnmarkedSetups ==
  {[held |-> Keys, buffering |-> "none", maxBuffer |-> 1, maxAttempts |-> 3,
    maxRounds |-> 2, maxReconcile |-> 1, maxRestarts |-> 2, storeFails |-> TRUE]}
===============================================================================
