--------------------------- MODULE ScheduleProperties ---------------------------
(***************************************************************************)
(* What must hold of the schedule.                                         *)
(***************************************************************************)
EXTENDS Schedule

Count(v) == Cardinality({t \in Occurrences : verdict[t] = v})

\* The totals that the user is shown are the numbers of what really became of the
\* occurrences, an occurrence behind the watermark has a verdict or was declared void,
\* and none ahead of it has one (occurrence.ts, appendMissed and voidUntil; autoClaim).
CountersReconcile ==
  /\ ledger.fired = Count("fired")
  /\ ledger.missed = Count("missed")
  /\ ledger.skipped =
       Count("skipped") + Cardinality({k \in Keys : ledger.runs[k].state = "coalesced"})
  /\ \A t \in Occurrences :
       /\ verdict[t] # "open" => t <= ledger.decided
       /\ ledger.def # "none" =>
            (t \in At[ledger.def] /\ t <= ledger.decided /\ verdict[t] = "open" => t <= void)

\* A background run never overlaps another background run of its task, whichever
\* process or request started it (autoClaim and manualClaim, nonTerminalRuns).
OneBackgroundRun ==
  \A j, k \in Keys :
    IsActive(ledger, j) /\ IsActive(ledger, k) /\ j # k
    => ~ (Form[ledger.runs[j].def] = "background" /\ Form[ledger.runs[k].def] = "background")

\* What a stack still works on has not been ended by anybody else: a live owner's run is
\* left alone by recovery (recovery.ts, judgeHolder), and no second executant can have
\* been started for it.
OwnersKeepRuns ==
  \A k \in Keys :
    work[k] \in {"start", "admit", "wait", "sent"} /\ ~ Closed(k) => IsActive(ledger, k)

\* A claim that is not proven durable is never executed (claim.ts, ClaimError).
UncertainIsNotStarted == \A k \in uncertain : starts[k] = 0

Contract ==
  INSTANCE ScheduleContract WITH
    now <- wall,
    run <- [k \in Keys |-> IF ledger.runs[k] = NoRun THEN "none"
                           ELSE IF IsActive(ledger, k) THEN "live" ELSE "over"]

\* Every occurrence is judged once and in time, and every run is made, started and ended
\* once (autoClaim, manualClaim, the sweeps, the executors' starts), for any number of
\* processes and whatever the wall clock is set to: the runs check one process with a jump
\* and a request, and two processes without them; ScheduleKeepsContract proves the rest.
ImplementsContract == Contract!Spec

\* A run whose owner is still there and that nobody holds any more.
Neglected(k) ==
  /\ IsActive(ledger, k) /\ ~ Closed(k)
  /\ work[k] = "none" /\ k \notin doubt[ledger.runs[k].stack]

\* Every run of the background ends, unless the store failed its owner or no session of
\* the task is open any more (bg.ts execute, closeEpoch, recoverRuns).
EveryRunEnds ==
  \A k \in Keys :
    IsActive(ledger, k) /\ Form[ledger.runs[k].def] = "background"
    ~> ~ IsActive(ledger, k) \/ Neglected(k) \/ \A o \in Stacks : stack[o] # "open"

\* A run of ours that an uncertain commit left is settled by a later reading of the ledger
\* (clock.ts:20-21, claim.ts:107-110): until then somebody remembers it.
DoubtIsRemembered ==
  \A k \in uncertain :
    IsActive(ledger, k) /\ ~ Closed(k) => k \in doubt[ledger.runs[k].stack]
===============================================================================
