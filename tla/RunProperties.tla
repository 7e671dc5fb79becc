----------------------------- MODULE RunProperties -----------------------------
(***************************************************************************)
(* What must be true of RunLifecycle.  The invariants about the reducer's  *)
(* state come first, then those that relate it to the runner around it,    *)
(* then action properties, the abstract contract, and liveness.  The last  *)
(* section states what the repository says and the code does not do.       *)
(***************************************************************************)
EXTENDS RunLifecycle, FiniteSets

Started == pc # "idle"
Alive == Started /\ ~IsTerminal(run)
Over == pc \in {"done", "reaped"}

-------------------------------------------------------------------------------
(* The reducer's state. *)

\* The soft deadline never passes the ceiling fixed at enqueue, a grace window
\* lies between the two, and the extensions are counted (D-2, R-8).
DeadlineOrder ==
  Alive => /\ run.deadline <= run.hard
           /\ run.extensions <= Budget.maxExtensions
           /\ run.grace # Undef => /\ run.deadline <= run.grace
                                   /\ run.grace <= run.hard

\* A grace window is given at most once per deadline: each further one has to
\* be earned by an extension, so no run lives on grace windows alone.
GracesAreEarned ==
  run.graces <= run.extensions + (IF run.grace = Undef THEN 0 ELSE 1)

\* Whatever phase it is in, a run that is alive has the total-class timer that
\* its grace state calls for, and not the other one; a finished run has none.
TotalTimerArmed ==
  IF Alive THEN run.armed \cap {"total", "total_grace"} = {TotalTimer(run)}
  ELSE run.armed = {}

\* No run without an end in sight: the deadline moves only towards a fixed ceiling,
\* every grace window is paid for, and a timer of the total class waits for the
\* deadline in force (core/deadline.ts, rearmTimers).
DeadlinesSound == DeadlineOrder /\ GracesAreEarned /\ TotalTimerArmed

\* The terminal batch (settle the waiters, persist, deliver) is emitted exactly
\* when the run becomes terminal, once, although the runner, the watchdog, the
\* cancel handle and the prompt's timer all try to end it.
SettledOnce == run.settles = IF IsTerminal(run) THEN 1 ELSE 0

\* Parallel tool calls: the run is in tool_exec as long as a call is in flight, and
\* the counter is the number of calls that are, plus one for each whose end was
\* refused because its record had been dropped.  That takes more calls than the run
\* keeps records of; from then on the run cannot leave tool_exec by an end of a call.
ToolPhaseCounts ==
  /\ run.phase = "tool_exec" =>
       /\ run.pending > 0
       /\ run.pending = Cardinality({id \in Tools : calls[id] # "idle"})
  /\ run.phase = "model_turn" => \A id \in Tools : calls[id] # "open"
  /\ (\E id \in Tools : calls[id] = "refused") => Len(run.trail) = HistoryCap

-------------------------------------------------------------------------------
(* The reducer and the runner around it. *)

\* A run that is stopping or terminal is never left waiting: the promise run()
\* awaits has been given a verdict in the same turn.
StopReleasesAwait ==
  run.status \in {"stopping"} \cup Terminal /\ pc \in Waiting => guard # "pending"

\* The deadline cancels a run only when the reducer is really ending it: a
\* grace window that was just opened is not cut short by its own opening.
TimeoutCancelEnds ==
  cancel = "timeout" => run.status \in {"stopping"} \cup Terminal

\* The reducer and the promise that run() awaits agree about a stop: neither is
\* stopped without the other (fireDeadline, the cancel handle).
StopsAreHeard == StopReleasesAwait /\ TimeoutCancelEnds

\* A run the deadline has killed ends timed_out with the reason of the timer,
\* although it is the cancel that unblocks it; nothing else names a reason.  Only
\* an input budget that was exceeded before run() got that far makes it a failure.
KilledIsTimedOut ==
  IsTerminal(run) => /\ run.cause = "timeout" =>
                          run.status = IF over THEN "failed" ELSE "timed_out"
                     /\ run.status = "timed_out" => run.reason # "none"

\* Once run() has returned nothing it started goes on: the watchdog is disarmed, and
\* a run that asked for a session has given its slot back.  A slot that is left waited
\* for or granted belongs to a run that gave up in the queue, and the reaper takes the
\* waiter out (what a grant in the turn of the giving up does: NoTicketLost).
NothingOutlivesRun ==
  Over => /\ ~watch
          /\ ticket \in (IF session # "none" THEN {"released"}
                         ELSE IF pc = "done" THEN {"none", "waiting", "granted"}
                         ELSE {"none", "granted"})

\* A terminal run whose session was in use was sealed first: the exit facts
\* and the final leaf are part of its outcome.
SealedFirst == IsTerminal(run) /\ session = "live" => sealed

\* The file of a session in use stays marked, past the end of the run, until
\* the session has been disposed of: nothing else may resume it meanwhile.
LiveFileMarked == session = "live" => fileLive

\* An observer hears of the end exactly once: in the step that makes the run
\* terminal or, when run() returns without an outcome, in its last one, never before
\* and not again, although dispatch() and run()'s finally both tell it.
ObserverEndsWithRun ==
  observer.heard = IF observer.entry # "none" /\ (IsTerminal(run) \/ Over) THEN 1 ELSE 0

\* How a run ends, whoever ends it: with the verdict of the timer that killed it, its
\* session sealed before, and nothing left behind (run()'s catch and finally).
EndIsClean == KilledIsTimedOut /\ SealedFirst /\ NothingOutlivesRun /\ LiveFileMarked

-------------------------------------------------------------------------------
(* What a step may not do. *)

\* No run is killed for its total budget before the deadline in force, however
\* often that deadline moved while an older timer was set for it.
NoEarlyKill ==
  [][run.reason # "total" /\ run'.reason = "total" => now >= EffectiveDeadline(run)]_vars

\* The first terminal state and the first reason are final: the timers, cancels,
\* rejections and session events that come after a kill or an end do not rename it.
OutcomeStays ==
  [][/\ IsTerminal(run) => UNCHANGED run
     /\ run.reason # "none" => run'.reason = run.reason]_vars

-------------------------------------------------------------------------------
(* The contract with the caller. *)

Contract == INSTANCE RunContract WITH
  clock <- now,
  stage <- IF ~Started THEN "absent" ELSE IF IsTerminal(run) THEN "settled"
           ELSE "pending",
  verdict <- IF IsTerminal(run) THEN run.status ELSE "none",
  blame <- IF IsTerminal(run) THEN run.reason ELSE "none",
  limit <- run.deadline,
  ceiling <- run.hard

\* The run, with all its timers and promises, implements RunContract.
KeepsContract == Contract!Spec

-------------------------------------------------------------------------------
(* Liveness.  Only the runner's own steps and the clock are fair: the pool may *)
(* never grant, the driver never answer and the session never report.          *)

\* Zero-hang: run() returns, whatever the session does.
EveryRunReturns == pc \in Waiting ~> Over

\* A session that was handed to the run is disposed of, or found unkillable.
SessionIsReaped == session = "live" ~> session \in {"disposed", "threw", "unkillable"}

-------------------------------------------------------------------------------
(* Said by the repository, not done by the code. *)

\* README.en.md: every run reaches a terminal state.
ReturnsTerminal == Over => IsTerminal(run)

\* A slot granted to a run is given back.
NoTicketLost == pc = "reaped" => ticket \in {"none", "released"}
===============================================================================
