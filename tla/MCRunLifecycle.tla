---------------------------- MODULE MCRunLifecycle ----------------------------
EXTENDS RunProperties, TLC

\* A grace of one and two extensions of at most two: the deadline can move from
\* 2 to 6, the ceiling.
MCBudget ==
  [queueWait |-> 2, startup |-> 2, bind |-> 1, firstEvent |-> 2, idle |-> 2,
   modelTurn |-> 4, tool |-> 2, compaction |-> 2, total |-> 2,
   abortGrace |-> 1, retryWait |-> 1, totalGrace |-> 1, maxExtensions |-> 2,
   factor |-> 2, extendStep |-> 2]

\* No cap, a cap that has already passed, and one that cuts an extension short.
MCCaps == {Undef, 0, 3}
MCNoCap == {Undef}

\* One extension, for the runs that need a small state space.
MCSmallBudget ==
  [MCBudget EXCEPT !.queueWait = 1, !.startup = 1, !.idle = 1,
                   !.firstEvent = 1, !.tool = 1, !.compaction = 1,
                   !.modelTurn = 2, !.maxExtensions = 1,
                   !.extendStep = 1]
===============================================================================
