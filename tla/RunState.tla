------------------------------- MODULE RunState -------------------------------
(***************************************************************************)
(* The pure state machine of one subagent run: src/core/state-machine.ts   *)
(* (reduce) and the deadline arithmetic of src/core/deadline.ts.           *)
(*                                                                         *)
(* A run state is a record, and every operator below is the reducer's      *)
(* branch for one kind of input: it takes the state before the input and   *)
(* returns the state after it.  Effects are kept only where something      *)
(* depends on them: "settles" counts how often the terminal batch          *)
(* (settle_waiters, persist_snapshot, enqueue_delivery) was emitted.       *)
(* Text, usage, tool names and other diagnostics are left out.  The phase  *)
(* "reap" is left out too: no input moves a run into it.                   *)
(***************************************************************************)
EXTENDS Integers, Sequences

CONSTANTS
  Budget,      \* the run's own deadline budget (DeadlineBudget)
  Tools,       \* the tool call ids the session may report
  HistoryCap   \* how many tool records a run keeps (TOOL_HISTORY_CAP, 30)

\* An absent time (graceUntil, lastEventAt, a deadline cap).
Undef == -1

Instant == Nat \cup {Undef}

BudgetType ==
  [queueWait : Nat, startup : Nat, bind : Nat, firstEvent : Nat, idle : Nat,
   modelTurn : Nat, tool : Nat, compaction : Nat, total : Nat,
   abortGrace : Nat, retryWait : Nat, totalGrace : Nat, maxExtensions : Nat,
   factor : Nat, extendStep : Nat]

\* A total budget of zero is refused by the settings layer (D-11), and a
\* maxTotalFactor below one is raised to one by extendableSpanMs.
ASSUME BudgetAssumption ==
  /\ Budget \in BudgetType
  /\ Budget.total > 0
  /\ Budget.factor >= 1

ASSUME HistoryAssumption ==
  /\ HistoryCap \in Nat \ {0}
  /\ Tools \cap {"none", "ended"} = {}

Lower(a, b) == IF a <= b THEN a ELSE b
Higher(a, b) == IF a >= b THEN a ELSE b

-------------------------------------------------------------------------------
Terminal == {"completed", "failed", "timed_out", "aborted"}
Status == {"queued", "starting", "running", "stopping"} \cup Terminal

StartingPhase == {"session_create", "extension_bind", "prompt_dispatch"}
RunningPhase == {"model_turn", "tool_exec", "retry_backoff", "compaction"}
OvertimePhase == {"prompt_dispatch"} \cup RunningPhase
Phase == {"queue_wait", "resolve_config", "abort_grace", "settled"}
           \cup StartingPhase \cup RunningPhase

PhaseTimer ==
  [queue_wait |-> "queue", resolve_config |-> "startup",
   session_create |-> "startup", extension_bind |-> "bind",
   prompt_dispatch |-> "first_event", model_turn |-> "idle",
   tool_exec |-> "tool", retry_backoff |-> "idle",
   compaction |-> "compaction", abort_grace |-> "abort_grace",
   settled |-> "none"]

Timer == {"queue", "startup", "bind", "first_event", "idle", "tool",
          "compaction", "abort_grace", "total", "total_grace"}

Reason == {"queue_timeout", "session_create", "extension_bind",
           "no_first_event", "idle", "compaction", "total"}
Cause == {"user_stop", "parent_abort", "timeout"}

\* toolHistory, oldest first: the id of a call that is in flight, or "ended".
History == {h \in Seq(Tools \cup {"ended"}) : Len(h) <= HistoryCap}

RunType ==
  [status : Status, phase : Phase, phaseAt : Nat, lastEvent : Instant,
   deadline : Nat, hard : Nat, grace : Instant, extensions : Nat,
   graces : Nat, armed : SUBSET Timer, cause : Cause \cup {"none"},
   reason : Reason \cup {"none"}, pending : Nat, trail : History,
   current : Tools \cup {"none"}, settles : Nat]

IsTerminal(s) == s.status \in Terminal

\* createInitialState
Fresh(at) ==
  [status |-> "queued", phase |-> "queue_wait", phaseAt |-> at,
   lastEvent |-> Undef, deadline |-> 0, hard |-> 0, grace |-> Undef,
   extensions |-> 0, graces |-> 0, armed |-> {}, cause |-> "none",
   reason |-> "none", pending |-> 0, trail |-> <<>>,
   current |-> "none", settles |-> 0]

-------------------------------------------------------------------------------
(* Deadlines (src/core/deadline.ts). *)

PhaseBudget(phase, b) ==
  [queue_wait |-> b.queueWait, resolve_config |-> b.startup,
   session_create |-> b.startup, extension_bind |-> b.bind,
   prompt_dispatch |-> b.firstEvent, model_turn |-> 0, tool_exec |-> b.tool,
   retry_backoff |-> 0, compaction |-> b.compaction,
   abort_grace |-> b.abortGrace, settled |-> 0][phase]

LastSign(s) == IF s.lastEvent = Undef THEN s.phaseAt ELSE s.lastEvent

\* dueAtFor: a model turn is bounded both by silence and by its length, a
\* retry by the silence after its back-off, every other phase by its length.
\* A zero budget disables the bound.
DueAt(s, b) ==
  LET silence == LastSign(s) + b.idle
      cap == s.phaseAt + b.modelTurn
  IN CASE s.phase = "model_turn" ->
            IF b.idle = 0 THEN (IF b.modelTurn = 0 THEN Undef ELSE cap)
            ELSE IF b.modelTurn = 0 THEN silence ELSE Lower(silence, cap)
       [] s.phase = "retry_backoff" -> silence + b.retryWait
       [] OTHER -> IF PhaseBudget(s.phase, b) = 0 THEN Undef
                   ELSE s.phaseAt + PhaseBudget(s.phase, b)

ExtendableSpan ==
  Higher(Budget.total * Budget.factor,
         IF Budget.factor > 1 /\ Budget.maxExtensions > 0
         THEN Budget.total + Budget.maxExtensions * Budget.extendStep
         ELSE 0)

Tighten(t, cap) == IF cap = Undef THEN t ELSE Lower(t, cap)

EffectiveDeadline(s) == IF s.grace # Undef THEN s.grace ELSE s.deadline

RemainingFor(span, at, s) == Lower(span, Higher(0, s.deadline - at))

Headroom(s, at) == s.hard - Higher(at, s.deadline)

Extendable(s, at) ==
  /\ ~IsTerminal(s)
  /\ s.phase \in OvertimePhase
  /\ s.extensions < Budget.maxExtensions
  /\ Headroom(s, at) > 0

\* graceWindow: Undef when no grace may be given.
GraceWindow(s, at) ==
  IF Budget.totalGrace > 0 /\ Extendable(s, at)
  THEN Lower(at + Budget.totalGrace, s.hard)
  ELSE Undef

GrantCap(ms) == IF Budget.extendStep = 0 THEN ms ELSE Lower(ms, Budget.extendStep)

-------------------------------------------------------------------------------
(* The helpers of the reducer. *)

TotalTimer(s) == IF s.grace # Undef THEN "total_grace" ELSE "total"

Rearm(s) ==
  [s EXCEPT !.armed = {TotalTimer(s)} \cup
     (IF DueAt(s, Budget) = Undef THEN {} ELSE {PhaseTimer[s.phase]})]

Enter(s, status, phase, at) ==
  Rearm([s EXCEPT !.status = status, !.phase = phase, !.phaseAt = at])

Finish(s, status, at) ==
  [s EXCEPT !.status = status, !.phase = "settled", !.phaseAt = at,
            !.armed = {}, !.settles = @ + 1]

-------------------------------------------------------------------------------
(* One operator per kind of input. *)

\* enqueued: a cap that has already passed settles the run at once.
Enqueued(at, cap) ==
  LET timed == [Fresh(at) EXCEPT
                  !.deadline = Tighten(at + Budget.total, cap),
                  !.hard = Tighten(at + ExtendableSpan, cap),
                  !.armed = {"total"} \cup
                     (IF Budget.queueWait = 0 THEN {} ELSE {"queue"})]
  IN IF cap # Undef /\ cap <= at THEN Finish(Fresh(at), "failed", at) ELSE timed

PhaseEntered(s, phase, at) ==
  IF IsTerminal(s) THEN s
  ELSE IF s.phase = phase THEN [s EXCEPT !.phaseAt = at]
  ELSE Enter(s, s.status, phase, at)

SlotAcquired(s, at) ==
  IF s.phase = "queue_wait" THEN Enter(s, "starting", "resolve_config", at) ELSE s

\* Faulty variant: the denial is not checked against the phase.
SlotDeniedAnywhere(s, why, at) ==
  Finish(s, IF why = "aborted" THEN "aborted" ELSE "failed", at)

SlotDenied(s, why, at) ==
  IF s.phase # "queue_wait" THEN s
  ELSE IF why = "aborted" THEN Finish(s, "aborted", at)
  ELSE Finish([s EXCEPT !.reason = "queue_timeout"], "failed", at)

StopRequested(s, cause, at) ==
  LET noted == [s EXCEPT !.cause = cause]
  IN IF IsTerminal(s) THEN s
     ELSE IF s.phase = "abort_grace" THEN noted
     ELSE IF s.phase = "queue_wait" THEN Finish(noted, "aborted", at)
     ELSE Enter(noted, "stopping", "abort_grace", at)

\* In abort_grace the failure of the interrupted start-up is only recorded.
StartupFailed(s, phase, kind, at) ==
  IF IsTerminal(s) \/ s.phase # phase THEN s
  ELSE IF kind = "timeout" THEN Finish([s EXCEPT !.reason = phase], "timed_out", at)
  ELSE Finish(s, "failed", at)

PromptError == {"none", "aborted", "timeout", "failure"}

SettledStatus ==
  [none |-> "completed", aborted |-> "aborted", timeout |-> "timed_out",
   failure |-> "failed"]

\* Faulty variant: the reason of an earlier deadline is overwritten.
PromptSettledRenaming(s, error, at) ==
  IF error = "timeout"
  THEN Finish([s EXCEPT !.reason = "total"], "timed_out", at)
  ELSE Finish(s, SettledStatus[error], at)

PromptSettled(s, error, at) ==
  IF IsTerminal(s) \/ s.phase = "queue_wait" THEN s
  ELSE IF error = "timeout"
  THEN Finish([s EXCEPT !.reason = IF @ = "none" THEN "total" ELSE @], "timed_out", at)
  ELSE Finish(s, SettledStatus[error], at)

\* Faulty variant: an extension that rescues a run from grace is not counted.
DeadlineExtendedUncounted(s, ms, at) ==
  LET next == Lower(Higher(at, s.deadline) + GrantCap(ms), s.hard)
  IN IF ~Extendable(s, at) THEN s
     ELSE Rearm([s EXCEPT !.deadline = next, !.grace = Undef,
                          !.extensions = IF s.grace = Undef THEN @ + 1 ELSE @])

\* Faulty variant: the grant counts from now, not from the deadline.
DeadlineExtendedFromNow(s, ms, at) ==
  IF ~Extendable(s, at) THEN s
  ELSE Rearm([s EXCEPT !.deadline = Lower(at + GrantCap(ms), s.hard),
                       !.grace = Undef, !.extensions = @ + 1])

\* deadline_extended: neither the phase clock nor the ceiling moves.
DeadlineExtended(s, ms, at) ==
  LET base == Higher(at, s.deadline)
      next == Lower(base + GrantCap(ms), s.hard)
  IN IF ms <= 0 \/ ~Extendable(s, at) \/ (next <= s.deadline /\ next <= at) THEN s
     ELSE Rearm([s EXCEPT !.deadline = next, !.grace = Undef, !.extensions = @ + 1])

\* deadline_fired: what an expired timer does depends on the phase; the soft
\* deadline opens a grace window first when one is available.
DeadlineFired(s, timer, reason, at) ==
  LET removed == [s EXCEPT !.armed = @ \ {timer}]
      named == [removed EXCEPT !.reason = IF @ = "none" THEN reason ELSE @]
      byTimeout == s.reason # "none" \/ s.cause = "timeout"
      until == GraceWindow(s, at)
  IN IF \/ IsTerminal(s) \/ timer \notin s.armed
        \/ timer = "total" /\ s.grace # Undef
     THEN s
     ELSE CASE s.phase = "resolve_config" ->
                 Finish([removed EXCEPT !.reason = reason], "failed", at)
            [] s.phase = "queue_wait" ->
                 Finish([removed EXCEPT !.reason = "queue_timeout"], "failed", at)
            [] s.phase \in {"session_create", "extension_bind"} ->
                 Finish([removed EXCEPT !.reason = reason], "timed_out", at)
            [] s.phase = "abort_grace" ->
                 Finish(named, IF byTimeout THEN "timed_out" ELSE "aborted", at)
            [] OTHER ->
                 IF timer = "total" /\ until # Undef
                 THEN Rearm([removed EXCEPT !.grace = until, !.graces = @ + 1])
                 ELSE Enter([removed EXCEPT !.reason = reason, !.cause = "timeout"],
                            "stopping", "abort_grace", at)

-------------------------------------------------------------------------------
(* Session events.  An event is a record [t, id]; id matters to tools only. *)

EventKind == {"text", "tool_start", "tool_end", "retry_start", "retry_end",
              "compaction_start", "compaction_end", "other"}

\* slice(-TOOL_HISTORY_CAP): the oldest record goes, even when its call is in
\* flight.
Remember(trail, id) ==
  IF Len(trail) < HistoryCap THEN Append(trail, id) ELSE Append(Tail(trail), id)

\* toolTrailPatch.  Ids of calls in flight are distinct.
Trail(s, e) ==
  CASE e.t = "tool_start" -> Remember(s.trail, e.id)
    [] e.t = "tool_end" ->
         [i \in DOMAIN s.trail |-> IF s.trail[i] = e.id THEN "ended" ELSE s.trail[i]]
    [] OTHER -> s.trail

\* knownInFlight: the end of a call whose record is gone is illegal.
Known(s, id) == id = s.current \/ \E i \in DOMAIN s.trail : s.trail[i] = id

LastOpenAt(trail, i) ==
  trail[i] # "ended" /\ \A j \in i + 1 .. Len(trail) : trail[j] = "ended"

\* The call shown next: the newest one on record, else the one shown before.
NextShown(s) ==
  IF \E i \in DOMAIN s.trail : LastOpenAt(s.trail, i)
  THEN s.trail[CHOOSE i \in DOMAIN s.trail : LastOpenAt(s.trail, i)]
  ELSE s.current

ToolStarted(s, id, at) ==
  LET counted == [s EXCEPT !.pending = @ + 1, !.current = id]
  IN IF s.phase = "tool_exec" THEN counted
     ELSE Enter(counted, "running", "tool_exec", at)

\* Faulty variant: the first call that ends takes the run back to the model.
ToolEndedOnFirst(s, at) ==
  Enter([s EXCEPT !.pending = Higher(0, @ - 1), !.current = "none"],
        "running", "model_turn", at)

ToolEnded(s, at) ==
  LET left == Higher(0, s.pending - 1)
  IN IF left > 0 THEN [s EXCEPT !.pending = left, !.current = NextShown(s)]
     ELSE Enter([s EXCEPT !.pending = 0, !.current = "none"],
                "running", "model_turn", at)

SessionEvent(s, e, at) ==
  LET seen == [s EXCEPT !.lastEvent = at, !.trail = Trail(s, e)]
      resumed == Enter(seen, "running", "model_turn", at)
  IN IF IsTerminal(s) THEN s
     ELSE IF s.phase = "abort_grace" THEN seen
     ELSE CASE e.t = "text" -> IF s.phase = "queue_wait" THEN s ELSE seen
            [] e.t = "tool_start"
                 /\ s.phase \in {"prompt_dispatch", "model_turn", "tool_exec"} ->
                 ToolStarted(seen, e.id, at)
            [] e.t = "tool_end" ->
                 IF s.phase = "tool_exec" /\ Known(s, e.id)
                 THEN ToolEnded(seen, at) ELSE s
            [] e.t = "retry_start" -> Enter(seen, "running", "retry_backoff", at)
            [] e.t = "compaction_start" -> Enter(seen, "running", "compaction", at)
            [] e.t = "retry_end" /\ s.phase = "retry_backoff" -> resumed
            [] e.t = "compaction_end" /\ s.phase = "compaction" -> resumed
            [] OTHER -> IF s.phase \in StartingPhase THEN resumed
                        ELSE IF s.phase \in RunningPhase THEN seen
                        ELSE s
===============================================================================
