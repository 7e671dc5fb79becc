------------------------------- MODULE MCSchedule -------------------------------
EXTENDS ScheduleProperties, TLC
CONSTANTS a1, a2, b1, reports, nudge, r1
OneProcess == [o \in Stacks |-> "A"]
OwnProcess == [o \in Stacks |-> o]
MCForm == [d \in Definitions |-> IF d = nudge THEN "message" ELSE "background"]
Always == [d \in Definitions |-> FALSE]
OnlyReports == [d \in Definitions |-> d = reports]
MCAt == [d \in Definitions |-> IF d = nudge THEN {1, 2} ELSE {1}]
StackSymmetry == Permutations(Stacks)
===============================================================================
