----------------------------- MODULE RunLifecycle -----------------------------
(***************************************************************************)
(* One subagent run from RuntimeRunner.run() to its physical reap: the     *)
(* reducer of RunState driven by the runner (src/runtime/runner.ts), the   *)
(* watchdog (src/runtime/watchdog.ts), the cancel handle and the reaper    *)
(* (src/runtime/reaper.ts).                                                *)
(*                                                                         *)
(* The program is one JavaScript event loop.  An action is a stretch of    *)
(* synchronous code.  "guard" is the promise the runner awaits: while it   *)
(* is "pending" the runner is suspended; once it has a verdict, the        *)
(* continuation is a queued microtask (the ...Continue action).            *)
(* Microtasks of other promises may still come first, timers may not, so   *)
(* every timer and the clock wait until no microtask is queued.            *)
(***************************************************************************)
EXTENDS RunState

CONSTANTS
  SessionBudget,  \* the session-wide budget the watchdog reads
  Caps,           \* absolute deadline caps a request may carry, or Undef
  ExtendBy,       \* the extensions that may be asked for
  InputBudget,    \* the request has an input budget (req.inputBudget)
  Detached,       \* detachSignalOnStart: the parent's signal stops at start
  MaxTime,        \* bound on the clock
  MaxTools        \* bound on the tool calls the run counts as pending

ASSUME LifecycleAssumption ==
  /\ SessionBudget \in BudgetType
  /\ Caps \subseteq Instant
  /\ ExtendBy \subseteq Nat
  /\ InputBudget \in BOOLEAN
  /\ Detached \in BOOLEAN
  /\ MaxTime \in Nat
  /\ MaxTools \in Nat

VARIABLES
  now,       \* the clock
  run,       \* the reducer's state
  pc,        \* what run() awaits; "done" once it has returned
  guard,     \* the verdict of the awaited guard
  due,       \* when the guard's timer fires
  cancel,    \* why the cancel handle was cancelled, or "none"
  ticket,    \* this run's place in the slot pool
  session,   \* the child session
  fileLive,  \* the child session file is marked live
  watch,     \* the watchdog is armed for this run
  sealed,    \* sealBeforeTerminal ran for this generation
  observer,  \* an observeRun listener, and how often it heard of the end
  calls,     \* the tool calls as the session knows them
  over,      \* the input budget was exceeded (inputBudgetFailure)
  told       \* what run() resolved to: a terminal status or "undefined"

vars == <<now, run, pc, guard, due, cancel, ticket, session, fileLive,
          watch, sealed, observer, calls, over, told>>

Waiting == {"acquire", "create", "bind", "prompt"}
PC == {"idle", "done", "reaped"} \cup Waiting
Verdict == {"pending", "ok", "turn_error", "expired", "timeout", "cancelled",
            "error"}
\* A call whose end the reducer has refused is over; its id is not used again.
CallState == {"idle", "open", "refused"}
SessionState == {"none", "creating", "ready", "failed", "late", "live",
                 "disposed", "threw", "unkillable"}

TypeOK ==
  /\ now \in Nat
  /\ run \in RunType
  /\ pc \in PC
  /\ guard \in Verdict
  /\ due \in Nat
  /\ cancel \in {"none", "external", "timeout", "stop", "reap"}
  /\ ticket \in {"none", "waiting", "granted", "held", "released"}
  /\ session \in SessionState
  /\ fileLive \in BOOLEAN
  /\ watch \in BOOLEAN
  /\ sealed \in BOOLEAN
  /\ observer \in [entry : {"none", "live", "ended"}, heard : Nat]
  /\ calls \in [Tools -> CallState]
  /\ over \in BOOLEAN
  /\ told \in Terminal \cup {"none", "undefined"}

Init ==
  /\ now = 0
  /\ run = Fresh(0)
  /\ pc = "idle"
  /\ guard = "pending"
  /\ due = 0
  /\ cancel = "none"
  /\ ticket = "none"
  /\ session = "none"
  /\ fileLive = FALSE
  /\ watch = FALSE
  /\ sealed = FALSE
  /\ observer = [entry |-> "none", heard |-> 0]
  /\ calls = [id \in Tools |-> "idle"]
  /\ over = FALSE
  /\ told = "none"

-------------------------------------------------------------------------------
(* The event loop. *)

\* A promise reaction of this run is queued and runs before any timer.  Both
\* drivers settle bind() at once, so a run that awaits it is such a reaction.
MicrotaskQueued ==
  \/ pc \in Waiting /\ guard # "pending"
  \/ pc = "bind"
  \/ pc = "acquire" /\ ticket = "granted"

\* Between Start and the finally block: the dispatcher and the cancel handle
\* are registered.
Registered == pc \in Waiting

\* activeHandles has this run: from a successful create to the finally block.
HandleActive == pc \in {"bind", "prompt"}

Settle(verdict) == guard' = IF guard = "pending" THEN verdict ELSE guard

\* Faulty variant: neither site drops the entry or latches it as done.
EndObserversUnlatched(o) ==
  IF o.entry = "none" THEN o ELSE [entry |-> "ended", heard |-> o.heard + 1]

\* endObservers: the entry is dropped before its listener is told.
EndObservers(o) ==
  IF o.entry = "live" THEN [entry |-> "ended", heard |-> o.heard + 1] ELSE o

\* dispatch(): the step to a terminal state ends the attached observer.
Informed(r) ==
  IF ~IsTerminal(run) /\ IsTerminal(r) THEN EndObservers(observer) ELSE observer

Dispatch(r) ==
  /\ run' = r
  /\ observer' = Informed(r)

\* Arming a guard: an already aborted signal settles it at once.
Await(next, ms) ==
  /\ pc' = next
  /\ guard' = IF cancel = "none" THEN "pending" ELSE "cancelled"
  /\ due' = now + ms

\* run() returns: the finally block, with the handle still registered when it
\* seals, and the value state.outcome.
Return(r) ==
  /\ run' = r
  /\ pc' = "done"
  /\ told' = IF IsTerminal(r) THEN r.status ELSE "undefined"
  /\ watch' = FALSE
  /\ observer' = EndObservers(Informed(r))
  /\ guard' = "pending"
  /\ due' = 0
  /\ UNCHANGED <<now, cancel>>

-------------------------------------------------------------------------------
(* The runner. *)

\* run() up to the first await.  A signal that is already aborted cancels the
\* handle before the dispatcher exists, so its stop_requested is dropped.
Start(cap, aborted) ==
  LET fresh == Enqueued(now, cap)
  IN /\ pc = "idle"
     /\ run' = fresh
     /\ cancel' = IF aborted THEN "external" ELSE "none"
     /\ IF IsTerminal(fresh)
        THEN /\ pc' = "done"
             /\ told' = fresh.status
             /\ UNCHANGED <<guard, due, ticket>>
        ELSE /\ pc' = "acquire"
             /\ guard' = IF aborted THEN "cancelled" ELSE "pending"
             /\ due' = now + RemainingFor(Budget.queueWait, now, fresh)
             /\ ticket' = IF aborted THEN "none" ELSE "waiting"
             /\ UNCHANGED told
     /\ UNCHANGED <<now, session, fileLive, watch, sealed, observer, calls, over>>

\* SingleSlotPool resolves the acquire promise with a ticket.
PoolGrant ==
  /\ ticket = "waiting"
  /\ ticket' = "granted"
  /\ UNCHANGED <<now, run, pc, guard, due, cancel, session, fileLive,
                 watch, sealed, observer, calls, over, told>>

\* The pool's own queue timer.
PoolExpire ==
  /\ ticket = "waiting"
  /\ Budget.queueWait > 0
  /\ ~MicrotaskQueued
  /\ pc = "acquire" => now >= run.phaseAt + Budget.queueWait
  /\ ticket' = "none"
  /\ IF pc = "acquire" THEN Settle("expired") ELSE UNCHANGED guard
  /\ UNCHANGED <<now, run, pc, due, cancel, session, fileLive, watch,
                 sealed, observer, calls, over, told>>

\* The acquire promise's reaction inside guard().
GuardSeesTicket ==
  /\ pc = "acquire"
  /\ ticket = "granted"
  /\ guard = "pending"
  /\ guard' = "ok"
  /\ UNCHANGED <<now, run, pc, due, cancel, ticket, session, fileLive,
                 watch, sealed, observer, calls, over, told>>

\* guard()'s timer around acquire and create.
GuardTimeout ==
  /\ pc \in {"acquire", "create"}
  /\ guard = "pending"
  /\ ~MicrotaskQueued
  /\ now >= due
  /\ guard' = "timeout"
  /\ UNCHANGED <<now, run, pc, due, cancel, ticket, session, fileLive,
                 watch, sealed, observer, calls, over, told>>

AcquireContinue ==
  LET held == PhaseEntered(SlotAcquired(run, now), "session_create", now)
      why == IF guard \in {"timeout", "expired"} THEN "queue_timeout" ELSE "aborted"
  IN /\ pc = "acquire"
     /\ guard # "pending"
     /\ IF guard = "ok"
        THEN /\ Dispatch(held)
             /\ ticket' = "held"
             /\ session' = "creating"
             /\ Await("create", RemainingFor(Budget.startup, now, held))
             /\ UNCHANGED <<now, cancel, watch, told>>
        ELSE /\ Return(SlotDenied(run, why, now))
             /\ UNCHANGED <<ticket, session>>
     /\ UNCHANGED <<fileLive, sealed, calls, over>>

\* driver.create() or resume() settles.  A promise the runner has given up on
\* is handled by onLateArrival.
CreateSettles(ok) ==
  /\ session = "creating"
  /\ session' = IF ok THEN "ready" ELSE "failed"
  /\ Settle(IF ok THEN "ok" ELSE "error")
  /\ UNCHANGED <<now, run, pc, due, cancel, ticket, fileLive, watch,
                 sealed, observer, calls, over, told>>

LateArrival(end) ==
  /\ session = "late"
  /\ session' = end
  /\ UNCHANGED <<now, run, pc, guard, due, cancel, ticket, fileLive,
                 watch, sealed, observer, calls, over, told>>

ReleaseTicket == ticket' = IF ticket = "held" THEN "released" ELSE ticket

CreateContinue ==
  LET bound == PhaseEntered(run, "extension_bind", now)
      kind == IF guard = "error" THEN "failure" ELSE "timeout"
  IN /\ pc = "create"
     /\ guard # "pending"
     /\ IF guard = "ok"
        THEN /\ session' = "live"
             /\ fileLive' = TRUE
             /\ Dispatch(bound)
             /\ Await("bind", RemainingFor(Budget.bind, now, bound))
             /\ UNCHANGED <<now, cancel, watch, told, ticket>>
        ELSE /\ session' = IF session = "failed" THEN "failed" ELSE "late"
             /\ Return(StartupFailed(run, "session_create", kind, now))
             /\ ReleaseTicket
             /\ UNCHANGED fileLive
     /\ UNCHANGED <<sealed, calls, over>>

\* driver.bind() settles, at once in both drivers.
BindSettles(ok) ==
  /\ pc = "bind"
  /\ guard = "pending"
  /\ guard' = IF ok THEN "ok" ELSE "error"
  /\ UNCHANGED <<now, run, pc, due, cancel, ticket, session, fileLive,
                 watch, sealed, observer, calls, over, told>>

\* With an input budget the prompt is measured first: too large, or nobody there
\* to measure it, fails the run.
BindContinue ==
  LET prompted == PhaseEntered(run, "prompt_dispatch", now)
      kind == IF guard \in {"error", "ok"} THEN "failure" ELSE "timeout"
  IN /\ pc = "bind"
     /\ guard # "pending"
     /\ \/ /\ guard = "ok"
           /\ watch' = TRUE
           /\ Dispatch(prompted)
           /\ Await("prompt", Higher(0, EffectiveDeadline(prompted) - now))
           /\ UNCHANGED <<now, cancel, told, ticket, sealed, over>>
        \/ /\ guard = "ok" => InputBudget
           /\ over' = (guard = "ok")
           /\ sealed' = TRUE
           /\ Return(StartupFailed(run, "extension_bind", kind, now))
           /\ ReleaseTicket
     /\ UNCHANGED <<session, fileLive, calls>>

\* handle.prompt() settles: cleanly, with an errored last turn, or rejected.
PromptSettles(verdict) ==
  /\ pc = "prompt"
  /\ guard = "pending"
  /\ guard' = verdict
  /\ UNCHANGED <<now, run, pc, due, cancel, ticket, session, fileLive,
                 watch, sealed, observer, calls, over, told>>

\* The error mapping at the end of run(): an exceeded input budget outranks
\* everything, a real failure of a run nobody asked to stop is a failure,
\* otherwise a recorded timeout outranks the stop.
ErrorOf(verdict) ==
  LET untouched == run.cause = "none" /\ run.reason = "none"
  IN IF over THEN "failure"
     ELSE IF verdict = "ok" THEN "none"
     ELSE IF verdict = "turn_error" \/ (verdict = "error" /\ untouched) THEN "failure"
     ELSE IF verdict = "timeout" \/ run.reason # "none" \/ run.cause = "timeout"
     THEN "timeout"
     ELSE "aborted"

\* Faulty variant: the seal before the terminal dispatch is missing.
PromptContinueUnsealed ==
  /\ pc = "prompt"
  /\ guard # "pending"
  /\ Return(PromptSettled(run, ErrorOf(guard), now))
  /\ ReleaseTicket
  /\ UNCHANGED <<session, fileLive, sealed, calls, over>>

PromptContinue ==
  /\ pc = "prompt"
  /\ guard # "pending"
  /\ sealed' = TRUE
  /\ Return(PromptSettled(run, ErrorOf(guard), now))
  /\ ReleaseTicket
  /\ UNCHANGED <<session, fileLive, calls, over>>

-------------------------------------------------------------------------------
(* The two producers of deadline_fired. *)

\* Faulty variant: the dispatch is not followed by a cancel.
FireDeadlineAlone(timer, reason) ==
  /\ Dispatch(DeadlineFired(run, timer, reason, now))
  /\ UNCHANGED <<cancel, sealed>>

\* fireDeadline: dispatch, then cancel only when the run is really stopping.
\* The cancel dispatches a stop_requested of its own and settles the guard.
FireDeadline(timer, reason) ==
  LET fired == DeadlineFired(run, timer, reason, now)
      ending == fired.status = "stopping" \/ IsTerminal(fired)
      first == ending /\ cancel = "none"
  IN /\ Dispatch(IF first THEN StopRequested(fired, "timeout", now) ELSE fired)
     /\ cancel' = IF first THEN "timeout" ELSE cancel
     /\ sealed' = (sealed \/ run.phase \in {"abort_grace", "extension_bind"})

TimerReason ==
  [queue |-> "queue_timeout", startup |-> "session_create",
   bind |-> "extension_bind", first_event |-> "no_first_event",
   idle |-> "idle", tool |-> "idle", compaction |-> "compaction",
   abort_grace |-> "total", total |-> "total", total_grace |-> "total"]

TimerDue(timer) ==
  CASE timer = "total" -> run.deadline
    [] timer = "total_grace" -> run.grace
    [] OTHER -> DueAt(run, SessionBudget)

Expired(timer) ==
  /\ timer \in run.armed
  /\ TimerDue(timer) # Undef
  /\ now >= TimerDue(timer)

\* tick(): at most one timer per run, the phase timer before the total one.
WatchdogTick(timer) ==
  /\ watch
  /\ ~MicrotaskQueued
  /\ Expired(timer)
  /\ timer \in {"total", "total_grace"} =>
       \A other \in run.armed \ {"total", "total_grace"} : ~Expired(other)
  /\ FireDeadline(timer, TimerReason[timer])
  /\ guard' = IF cancel' # "none" THEN "cancelled" ELSE guard
  /\ UNCHANGED <<now, pc, due, ticket, session, fileLive, watch, calls, over,
                 told>>

\* Faulty variant: the timer set before an extension is taken at its word.
PromptTimerFrozen ==
  /\ pc = "prompt"
  /\ guard = "pending"
  /\ now >= due
  /\ FireDeadline(TotalTimer(run), "total")
  /\ guard' = IF cancel' = "none" THEN "pending" ELSE "cancelled"
  /\ due' = EffectiveDeadline(run')
  /\ UNCHANGED <<now, pc, ticket, session, fileLive, watch, calls, over, told>>

\* Faulty variant: the timer is not set again when the deadline has moved.
PromptTimerOneShot ==
  /\ pc = "prompt"
  /\ guard = "pending"
  /\ now >= due
  /\ EffectiveDeadline(run) <= now
  /\ FireDeadline(TotalTimer(run), "total")
  /\ guard' = IF cancel' = "none" THEN "pending" ELSE "cancelled"
  /\ due' = MaxTime + 1
  /\ UNCHANGED <<now, pc, ticket, session, fileLive, watch, calls, over, told>>

\* guardUntil's timer: re-read the deadline, fire it when it has passed, and
\* re-arm when the reducer moved it.
PromptTimer ==
  /\ pc = "prompt"
  /\ guard = "pending"
  /\ now >= due
  /\ IF EffectiveDeadline(run) > now
     THEN /\ due' = EffectiveDeadline(run)
          /\ UNCHANGED <<run, guard, cancel, sealed, observer>>
     ELSE /\ FireDeadline(TotalTimer(run), "total")
          /\ IF cancel' # "none"
             THEN guard' = "cancelled" /\ UNCHANGED due
             ELSE IF EffectiveDeadline(run') > now
             THEN due' = EffectiveDeadline(run') /\ UNCHANGED guard
             ELSE guard' = "timeout" /\ UNCHANGED due
  /\ UNCHANGED <<now, pc, ticket, session, fileLive, watch, calls, over, told>>

-------------------------------------------------------------------------------
(* Stops, extensions, observers and session events. *)

\* CancelHandle.cancel: the abort listeners first (the guard, and the pool's
\* waiter), then onCancel's stop_requested.
Cancel(reason, cause) ==
  /\ Registered
  /\ cancel = "none"
  /\ cancel' = reason
  /\ Settle("cancelled")
  /\ ticket' = IF ticket = "waiting" THEN "none" ELSE ticket
  /\ Dispatch(StopRequested(run, cause, now))
  /\ UNCHANGED <<now, pc, due, session, fileLive, watch, sealed, calls, told>>

\* abortRun(runId, cause): only "external" and "timeout" keep their meaning, any
\* other reason (user_stop, parent_abort, shutdown) is recorded as user_stop.
AbortRun == Cancel("stop", "user_stop") /\ UNCHANGED over

\* The abort of the input budget's registration, which lasts until run() ends: a
\* request to the model that would exceed the budget stops the run.
BudgetExceeded ==
  /\ InputBudget
  /\ pc = "prompt"
  /\ ~over
  /\ over' = TRUE
  /\ IF cancel = "none" THEN Cancel("stop", "user_stop")
     ELSE UNCHANGED <<now, run, pc, guard, due, cancel, ticket, session,
                      fileLive, watch, sealed, observer, calls, told>>

\* Faulty variant: the reason of the abort is recorded as it is.
ParentSignalUnmapped ==
  /\ ~Detached
  /\ Cancel("external", "external")
  /\ UNCHANGED over

\* The request's own signal fires.
ParentSignal ==
  /\ ~Detached
  /\ Cancel("external", "parent_abort")
  /\ UNCHANGED over

ExtendDeadline(ms) ==
  /\ Registered
  /\ Extendable(run, now)
  /\ Dispatch(DeadlineExtended(run, ms, now))
  /\ UNCHANGED <<now, pc, guard, due, cancel, ticket, session, fileLive,
                 watch, sealed, calls, over, told>>

ObserveRun ==
  /\ HandleActive
  /\ ~IsTerminal(run)
  /\ observer.entry = "none"
  /\ observer' = [observer EXCEPT !.entry = "live"]
  /\ UNCHANGED <<now, run, pc, guard, due, cancel, ticket, session,
                 fileLive, watch, sealed, calls, over, told>>

\* The session reports through the callback driver.bind() was given, which
\* outlives run().  pi ends a tool it started, and retries or compacts between
\* tool calls.
Reportable(e) ==
  /\ e.t = "tool_start" => /\ calls[e.id] = "idle"
                           /\ run.pending < MaxTools
                           /\ run.phase \notin {"retry_backoff", "compaction"}
  /\ e.t = "tool_end" => calls[e.id] = "open"
  /\ e.t \in {"retry_start", "compaction_start"} =>
       \A id \in Tools : calls[id] # "open"
  /\ e.t = "retry_end" => run.phase = "retry_backoff"
  /\ e.t = "compaction_end" => run.phase = "compaction"

\* The reducer finds the end of a call illegal.
Refuses(id) ==
  run.phase # "abort_grace" /\ ~(run.phase = "tool_exec" /\ Known(run, id))

\* The session's own account of its calls, kept while the run is alive.
CallsAfter(e) ==
  CASE IsTerminal(run) -> calls
    [] ~IsTerminal(run) /\ e.t = "tool_start" -> [calls EXCEPT ![e.id] = "open"]
    [] ~IsTerminal(run) /\ e.t = "tool_end" ->
         [calls EXCEPT ![e.id] = IF Refuses(e.id) THEN "refused" ELSE "idle"]
    [] OTHER -> calls

Report(e) ==
  /\ pc \in {"prompt", "done", "reaped"}
  /\ session = "live"
  /\ Reportable(e)
  /\ Dispatch(SessionEvent(run, e, now))
  /\ calls' = CallsAfter(e)
  /\ UNCHANGED <<now, pc, guard, due, cancel, ticket, session, fileLive,
                 watch, sealed, over, told>>

-------------------------------------------------------------------------------
(* The reaper and the clock. *)

\* Faulty variant: only a run with an outcome is reaped, as only such a run has
\* a beforeReap hook.
ReapWithOutcome ==
  /\ pc = "done"
  /\ IsTerminal(run)
  /\ pc' = "reaped"
  /\ cancel' = IF cancel = "none" THEN "reap" ELSE cancel
  /\ ticket' = IF ticket = "waiting" THEN "none" ELSE ticket
  /\ UNCHANGED <<now, run, guard, due, session, fileLive, watch, sealed,
                 observer, calls, over, told>>

\* reap(): the beforeReap hook is over, L0 cancels, which also takes a waiter
\* that is still queued out of the pool.
Reap ==
  /\ pc = "done"
  /\ pc' = "reaped"
  /\ cancel' = IF cancel = "none" THEN "reap" ELSE cancel
  /\ ticket' = IF ticket = "waiting" THEN "none" ELSE ticket
  /\ UNCHANGED <<now, run, guard, due, session, fileLive, watch, sealed,
                 observer, calls, over, told>>

\* L1 to L3p on the session, and the live mark afterwards: only a session with
\* something unkillable keeps it.
Dispose(end) ==
  /\ pc = "reaped"
  /\ session = "live"
  /\ session' = end
  /\ fileLive' = (end = "unkillable")
  /\ UNCHANGED <<now, run, pc, guard, due, cancel, ticket, watch, sealed,
                 observer, calls, over, told>>

\* The clock starts with the run.
Tick ==
  /\ pc # "idle"
  /\ now < MaxTime
  /\ ~MicrotaskQueued
  /\ now' = now + 1
  /\ UNCHANGED <<run, pc, guard, due, cancel, ticket, session, fileLive,
                 watch, sealed, observer, calls, over, told>>

-------------------------------------------------------------------------------
ToolEvent == {"tool_start", "tool_end"}
SessionEvents == [t : ToolEvent, id : Tools] \cup
                 [t : EventKind \ ToolEvent, id : {"none"}]

Runner ==
  \/ \E ok \in BOOLEAN : BindSettles(ok)
  \/ GuardSeesTicket \/ GuardTimeout
  \/ AcquireContinue \/ CreateContinue \/ BindContinue \/ PromptContinue
  \/ PromptTimer
  \/ Reap
  \/ \E end \in {"disposed", "threw", "unkillable"} : Dispose(end)

Environment ==
  \/ \E cap \in Caps, aborted \in BOOLEAN : Start(cap, aborted)
  \/ PoolGrant \/ PoolExpire
  \/ \E ok \in BOOLEAN : CreateSettles(ok)
  \/ \E verdict \in {"ok", "turn_error", "error"} : PromptSettles(verdict)
  \/ \E end \in {"failed", "disposed", "threw", "unkillable"} : LateArrival(end)
  \/ \E timer \in Timer : WatchdogTick(timer)
  \/ AbortRun \/ ParentSignal \/ BudgetExceeded
  \/ \E ms \in ExtendBy : ExtendDeadline(ms)
  \/ ObserveRun
  \/ \E e \in SessionEvents : Report(e)

Next == Runner \/ Environment \/ Tick

\* Queued microtasks run and due timers fire; the clock advances.  Nothing is
\* assumed of the pool, the driver, the session, the watchdog or the user.
Fairness == WF_vars(Runner) /\ WF_vars(Tick)

Spec == Init /\ [][Next]_vars /\ Fairness
===============================================================================
