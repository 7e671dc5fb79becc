------------------------------- MODULE RunProofs -------------------------------
(***************************************************************************)
(* Theorems about RunLifecycle, for every budget, every set of caps and    *)
(* extensions, every clock bound.                                          *)
(*                                                                         *)
(* IInv is the inductive invariant: the types, a reducer state that is     *)
(* sound once the run has been accepted, and the facts about the runner    *)
(* that decide when it may act on that state.  Its parts are proved one    *)
(* after the other, each from the ones before it, with one step per        *)
(* action.                                                                 *)
(***************************************************************************)
EXTENDS RunProperties, FiniteSetTheorems, TLAPS

-------------------------------------------------------------------------------
(* The reducer: every operator of RunState keeps a run state sound.  Sound *)
(* is the part of the inductive invariant that only speaks of the          *)
(* reducer's own state.                                                    *)

TotalClass == {"total", "total_grace"}

Ordered(s) ==
  /\ s.deadline <= s.hard
  /\ s.extensions <= Budget.maxExtensions
  /\ s.grace # Undef => s.deadline <= s.grace /\ s.grace <= s.hard

Earned(s) == s.graces <= s.extensions + (IF s.grace = Undef THEN 0 ELSE 1)

Sound(s) ==
  /\ s \in RunType
  /\ Earned(s)
  /\ IF IsTerminal(s)
     THEN s.armed = {} /\ s.settles = 1 /\ s.phase = "settled"
     ELSE /\ s.settles = 0
          /\ s.phase # "settled"
          /\ Ordered(s)
          /\ s.armed \cap TotalClass = {TotalTimer(s)}

-------------------------------------------------------------------------------
(* A state about to be armed: sound but for its timers. *)
Armable(s) ==
  /\ s \in RunType
  /\ Earned(s)
  /\ ~IsTerminal(s)
  /\ s.settles = 0
  /\ s.phase # "settled"
  /\ Ordered(s)

LEMMA PhaseTimerType ==
  \A p \in Phase \ {"settled"} : PhaseTimer[p] \in Timer \ TotalClass
BY DEF Phase, StartingPhase, RunningPhase, PhaseTimer, Timer, TotalClass

LEMMA RearmSound ==
  ASSUME NEW s, Armable(s)
  PROVE  Sound(Rearm(s))
<1> DEFINE phaseTimers == IF DueAt(s, Budget) = Undef THEN {} ELSE {PhaseTimer[s.phase]}
           armed == {TotalTimer(s)} \cup phaseTimers
           r == [s EXCEPT !.armed = armed]
<1>1. s.phase \in Phase \ {"settled"}
  BY DEF Armable, RunType
<1>2. PhaseTimer[s.phase] \in Timer \ TotalClass
  BY <1>1, PhaseTimerType
<1>3. phaseTimers \subseteq Timer \ TotalClass
  BY <1>2
<1>4. TotalTimer(s) \in TotalClass /\ TotalClass \subseteq Timer
  BY DEF TotalTimer, TotalClass, Timer
<1>5. armed \in SUBSET Timer /\ armed \cap TotalClass = {TotalTimer(s)}
  BY <1>3, <1>4
<1> HIDE DEF armed
<1>6. r \in RunType /\ r.armed = armed
  BY <1>5 DEF Armable, RunType
<1>7. /\ TotalTimer(r) = TotalTimer(s)
      /\ r.status = s.status /\ r.phase = s.phase /\ r.settles = s.settles
      /\ r.deadline = s.deadline /\ r.hard = s.hard /\ r.grace = s.grace
      /\ r.extensions = s.extensions /\ r.graces = s.graces
  BY DEF Armable, RunType, TotalTimer
<1>8. Sound(r)
  BY <1>5, <1>6, <1>7 DEF Sound, Armable, Earned, Ordered, IsTerminal
<1> QED BY <1>8 DEF Rearm, armed

LEMMA FinishSound ==
  ASSUME NEW s \in RunType, NEW status \in Terminal, NEW at \in Nat,
         Earned(s), s.settles = 0
  PROVE  Sound(Finish(s, status, at)) /\ IsTerminal(Finish(s, status, at))
<1> DEFINE r == Finish(s, status, at)
<1>1. "settled" \in Phase /\ status \in Status /\ {} \in SUBSET Timer
  BY DEF Phase, Status
<1>2. r \in RunType
  <2>1. s.settles + 1 \in Nat
    OBVIOUS
  <2>2. at \in Nat
    OBVIOUS
  <2> QED BY <1>1, <2>1, <2>2 DEF Finish, RunType
<1>3. /\ r.status = status /\ r.armed = {} /\ r.settles = 1 /\ r.phase = "settled"
      /\ r.graces = s.graces /\ r.extensions = s.extensions /\ r.grace = s.grace
  BY DEF Finish, RunType
<1>4. IsTerminal(r) /\ Earned(r)
  BY <1>3 DEF IsTerminal, Earned
<1> QED BY <1>2, <1>3, <1>4 DEF Sound

LEMMA SoundArmable ==
  ASSUME NEW s, Sound(s), ~IsTerminal(s)
  PROVE  Armable(s)
BY DEF Sound, Armable

LEMMA SoundBasics ==
  ASSUME NEW s, Sound(s)
  PROVE  s \in RunType /\ Earned(s) /\ (~IsTerminal(s) => s.settles = 0)
BY DEF Sound

LEMMA EnterSound ==
  ASSUME NEW s, Armable(s), NEW status \in Status \ Terminal,
         NEW phase \in Phase \ {"settled"}, NEW at \in Nat
  PROVE  Sound(Enter(s, status, phase, at))
<1> DEFINE t == [s EXCEPT !.status = status, !.phase = phase, !.phaseAt = at]
<1>1. t \in RunType
  BY DEF Armable, RunType
<1>2. /\ t.status = status /\ t.phase = phase /\ t.settles = s.settles
      /\ t.deadline = s.deadline /\ t.hard = s.hard /\ t.grace = s.grace
      /\ t.extensions = s.extensions /\ t.graces = s.graces
  BY DEF Armable, RunType
<1>3. Armable(t)
  BY <1>1, <1>2 DEF Armable, Earned, Ordered, IsTerminal
<1> QED BY <1>3, RearmSound DEF Enter

\* What the reducer notes of an input before it acts on it leaves a state
\* armable: every field but the ones the order of the deadlines depends on.
LEMMA NotedArmable ==
  ASSUME NEW s, Armable(s), NEW t \in RunType,
         t.status = s.status, t.phase = s.phase, t.settles = s.settles,
         t.deadline = s.deadline, t.hard = s.hard, t.grace = s.grace,
         t.extensions = s.extensions, t.graces = s.graces
  PROVE  Armable(t)
BY DEF Armable, Earned, Ordered, IsTerminal

\* The same for a state that keeps its timers.
LEMMA NotedSound ==
  ASSUME NEW s, Sound(s), NEW t \in RunType,
         t.status = s.status, t.phase = s.phase, t.settles = s.settles,
         t.deadline = s.deadline, t.hard = s.hard, t.grace = s.grace,
         t.extensions = s.extensions, t.graces = s.graces, t.armed = s.armed
  PROVE  Sound(t)
BY DEF Sound, Earned, Ordered, IsTerminal, TotalTimer

-------------------------------------------------------------------------------
(* One lemma per kind of input. *)

LEMMA PhaseEnteredSound ==
  ASSUME NEW s, Sound(s), NEW phase \in Phase \ {"settled"}, NEW at \in Nat
  PROVE  Sound(PhaseEntered(s, phase, at))
<1>1. CASE IsTerminal(s)
  BY <1>1 DEF PhaseEntered
<1>2. CASE ~IsTerminal(s) /\ s.phase = phase
  <2> DEFINE t == [s EXCEPT !.phaseAt = at]
  <2>1. t \in RunType
    BY DEF Sound, RunType
  <2>2. Sound(t)
    BY <2>1, NotedSound DEF Sound, RunType
  <2> QED BY <1>2, <2>2 DEF PhaseEntered
<1>3. CASE ~IsTerminal(s) /\ s.phase # phase
  <2>1. s.status \in Status \ Terminal
    BY <1>3 DEF Sound, RunType, IsTerminal
  <2>2. Sound(Enter(s, s.status, phase, at))
    BY <1>3, <2>1, SoundArmable, EnterSound
  <2> QED BY <1>3, <2>2 DEF PhaseEntered
<1> QED BY <1>1, <1>2, <1>3

LEMMA SlotAcquiredSound ==
  ASSUME NEW s, Sound(s), NEW at \in Nat
  PROVE  Sound(SlotAcquired(s, at))
<1>1. CASE s.phase = "queue_wait" /\ ~IsTerminal(s)
  <2>1. "starting" \in Status \ Terminal /\ "resolve_config" \in Phase \ {"settled"}
    BY DEF Status, Terminal, Phase
  <2> QED BY <1>1, <2>1, SoundArmable, EnterSound DEF SlotAcquired
<1>2. CASE s.phase = "queue_wait" /\ IsTerminal(s)
  BY <1>2 DEF Sound
<1>3. CASE s.phase # "queue_wait"
  BY <1>3 DEF SlotAcquired
<1> QED BY <1>1, <1>2, <1>3


LEMMA SlotDeniedSound ==
  ASSUME NEW s, Sound(s), NEW why, NEW at \in Nat
  PROVE  Sound(SlotDenied(s, why, at))
<1>1. CASE s.phase # "queue_wait"
  BY <1>1 DEF SlotDenied
<1>2. CASE s.phase = "queue_wait"
  <2> DEFINE t == [s EXCEPT !.reason = "queue_timeout"]
  <2>1. ~IsTerminal(s)
    BY <1>2 DEF Sound
  <2>2. "aborted" \in Terminal /\ "failed" \in Terminal
    BY DEF Terminal
  <2>3. t \in RunType /\ Earned(t) /\ t.settles = 0
    BY <2>1 DEF Sound, RunType, Reason, Earned
  <2> QED BY <1>2, <2>1, <2>2, <2>3, SoundBasics, FinishSound DEF SlotDenied
<1> QED BY <1>1, <1>2

LEMMA StopRequestedSound ==
  ASSUME NEW s, Sound(s), NEW cause \in Cause, NEW at \in Nat
  PROVE  Sound(StopRequested(s, cause, at))
<1>1. CASE IsTerminal(s)
  BY <1>1 DEF StopRequested
<1>2. CASE ~IsTerminal(s)
  <2> DEFINE noted == [s EXCEPT !.cause = cause]
  <2>1. noted \in RunType
    BY DEF Sound, RunType
  <2>2. Sound(noted)
    BY <2>1, NotedSound DEF Sound, RunType
  <2>3. ~IsTerminal(noted)
    BY <1>2 DEF Sound, RunType, IsTerminal
  <2>4. Sound(Finish(noted, "aborted", at))
    BY <2>2, <2>3, SoundBasics, FinishSound DEF Terminal
  <2>5. "stopping" \in Status \ Terminal /\ "abort_grace" \in Phase \ {"settled"}
    BY DEF Status, Terminal, Phase
  <2>6. Sound(Enter(noted, "stopping", "abort_grace", at))
    BY <2>2, <2>3, <2>5, SoundArmable, EnterSound
  <2> QED BY <1>2, <2>2, <2>4, <2>6 DEF StopRequested
<1> QED BY <1>1, <1>2

LEMMA StartupFailedSound ==
  ASSUME NEW s, Sound(s), NEW phase \in {"session_create", "extension_bind"},
         NEW kind, NEW at \in Nat
  PROVE  Sound(StartupFailed(s, phase, kind, at))
<1>1. CASE IsTerminal(s) \/ s.phase # phase
  BY <1>1 DEF StartupFailed
<1>2. CASE ~IsTerminal(s) /\ s.phase = phase
  <2> DEFINE t == [s EXCEPT !.reason = phase]
  <2>1. t \in RunType /\ Earned(t) /\ t.settles = 0
    BY <1>2 DEF Sound, RunType, Reason, Earned
  <2>2. Sound(Finish(t, "timed_out", at))
    BY <2>1, FinishSound DEF Terminal
  <2>3. Sound(Finish(s, "failed", at))
    BY <1>2, SoundBasics, FinishSound DEF Terminal
  <2> QED BY <1>2, <2>2, <2>3 DEF StartupFailed
<1> QED BY <1>1, <1>2

LEMMA PromptSettledSound ==
  ASSUME NEW s, Sound(s), NEW error \in PromptError, NEW at \in Nat
  PROVE  Sound(PromptSettled(s, error, at))
<1>1. CASE IsTerminal(s) \/ s.phase = "queue_wait"
  BY <1>1 DEF PromptSettled
<1>2. CASE ~(IsTerminal(s) \/ s.phase = "queue_wait")
  <2> DEFINE t == [s EXCEPT !.reason = IF @ = "none" THEN "total" ELSE @]
  <2>1. t \in RunType /\ Earned(t) /\ t.settles = 0
    BY <1>2 DEF Sound, RunType, Reason, Earned
  <2>2. Sound(Finish(t, "timed_out", at))
    BY <2>1, FinishSound DEF Terminal
  <2>3. SettledStatus[error] \in Terminal
    BY DEF PromptError, SettledStatus, Terminal
  <2>4. Sound(Finish(s, SettledStatus[error], at))
    BY <1>2, <2>3, SoundBasics, FinishSound
  <2> QED BY <1>2, <2>2, <2>4 DEF PromptSettled
<1> QED BY <1>1, <1>2


LEMMA BudgetFacts ==
  /\ Budget.total \in Nat \ {0} /\ Budget.factor \in Nat \ {0}
  /\ Budget.maxExtensions \in Nat /\ Budget.extendStep \in Nat
  /\ Budget.totalGrace \in Nat /\ Budget.queueWait \in Nat
BY BudgetAssumption DEF BudgetType

\* The ceiling of a run is at or after its first deadline.
LEMMA SpanCoversTotal ==
  ExtendableSpan \in Nat /\ Budget.total <= ExtendableSpan
<1> DEFINE product == Budget.total * Budget.factor
           steps == Budget.maxExtensions * Budget.extendStep
<1>1. product \in Nat /\ steps \in Nat
  BY BudgetFacts
<1>2. Budget.total <= product
  <2>1. \A t, f \in Nat : f >= 1 => t <= t * f
    OBVIOUS
  <2> QED BY <2>1, BudgetFacts
<1> HIDE DEF product, steps
<1> QED BY <1>1, <1>2, BudgetFacts DEF ExtendableSpan, Higher, product, steps

LEMMA FreshType == ASSUME NEW at \in Nat PROVE Fresh(at) \in RunType
<1>1. <<>> \in History
  BY HistoryAssumption DEF History
<1> QED BY <1>1 DEF Fresh, RunType, Status, Phase, Instant, Undef

LEMMA EnqueuedSound ==
  ASSUME NEW at \in Nat, NEW cap \in Instant
  PROVE  Sound(Enqueued(at, cap))
<1> DEFINE fresh == Fresh(at)
           expired == cap # Undef /\ cap <= at
           queue == IF Budget.queueWait = 0 THEN {} ELSE {"queue"}
           deadline == Tighten(at + Budget.total, cap)
           hard == Tighten(at + ExtendableSpan, cap)
           t == [fresh EXCEPT !.deadline = deadline, !.hard = hard,
                              !.armed = {"total"} \cup queue]
<1>1. fresh \in RunType
  BY FreshType
<1>2. Earned(fresh) /\ fresh.settles = 0
  BY DEF Fresh, Earned
<1>3. CASE expired
  <2>1. Sound(Finish(fresh, "failed", at))
    BY <1>1, <1>2, FinishSound DEF Terminal
  <2> QED BY <1>3, <2>1 DEF Enqueued
<1>4. CASE ~expired
  <2>1. deadline \in Nat /\ hard \in Nat /\ deadline <= hard
    BY <1>4, SpanCoversTotal, BudgetFacts DEF Tighten, Lower, Instant, Undef
  <2>2. {"total"} \cup queue \in SUBSET Timer
    BY DEF Timer
  <2>3. ({"total"} \cup queue) \cap TotalClass = {"total"}
    BY DEF TotalClass
  <2> HIDE DEF deadline, hard, queue
  <2>4. t \in RunType
    BY <1>1, <2>1, <2>2 DEF RunType
  <2>5. /\ t.deadline = deadline /\ t.hard = hard /\ t.armed = {"total"} \cup queue
        /\ t.status = "queued" /\ t.phase = "queue_wait" /\ t.settles = 0
        /\ t.graces = 0 /\ t.extensions = 0 /\ t.grace = Undef
    BY DEF Fresh
  <2>6. ~IsTerminal(t) /\ Earned(t)
    BY <2>5 DEF IsTerminal, Terminal, Earned
  <2>7. Ordered(t)
    BY <2>1, <2>5, BudgetFacts DEF Ordered
  <2>8. t.armed \cap TotalClass = {TotalTimer(t)}
    BY <2>3, <2>5 DEF TotalTimer
  <2>9. Sound(t)
    BY <2>4, <2>5, <2>6, <2>7, <2>8 DEF Sound
  <2>10. Enqueued(at, cap) = t
    BY <1>4 DEF Enqueued, deadline, hard, queue
  <2> QED BY <2>9, <2>10
<1> QED BY <1>3, <1>4

\* An extension stays below the ceiling and uses up one of the extensions.
LEMMA DeadlineExtendedSound ==
  ASSUME NEW s, Sound(s), NEW ms \in Nat, NEW at \in Nat
  PROVE  Sound(DeadlineExtended(s, ms, at))
<1> DEFINE next == Lower(Higher(at, s.deadline) + GrantCap(ms), s.hard)
           refused == ms <= 0 \/ ~Extendable(s, at) \/ (next <= s.deadline /\ next <= at)
           t == [s EXCEPT !.deadline = next, !.grace = Undef, !.extensions = @ + 1]
<1>1. CASE refused
  BY <1>1 DEF DeadlineExtended
<1>2. CASE ~refused
  <2>1. /\ ~IsTerminal(s) /\ s.extensions < Budget.maxExtensions
        /\ s.phase \in OvertimePhase
    BY <1>2 DEF Extendable
  <2>2. s \in RunType /\ Ordered(s) /\ s.settles = 0 /\ s.phase # "settled" /\ Earned(s)
    BY <2>1 DEF Sound
  <2>3. next \in Nat /\ next <= s.hard
    <3>1. s.deadline \in Nat /\ s.hard \in Nat
      BY <2>2 DEF RunType
    <3>2. GrantCap(ms) \in Nat
      BY BudgetFacts DEF GrantCap, Lower
    <3> QED BY <3>1, <3>2 DEF Lower, Higher
  <2> HIDE DEF next
  <2>4. t \in RunType
    <3>1. s.extensions + 1 \in Nat /\ Undef \in Instant
      BY <2>2 DEF RunType, Instant
    <3> QED BY <2>2, <2>3, <3>1 DEF RunType
  <2>5. /\ t.deadline = next /\ t.hard = s.hard /\ t.grace = Undef
        /\ t.extensions = s.extensions + 1 /\ t.graces = s.graces
        /\ t.status = s.status /\ t.phase = s.phase /\ t.settles = s.settles
    BY <2>2 DEF RunType
  <2>6. Earned(t)
    BY <2>2, <2>5 DEF Earned, RunType
  <2>7. Ordered(t)
    BY <2>1, <2>2, <2>3, <2>5, BudgetFacts DEF Ordered, RunType
  <2>8. Armable(t)
    BY <2>1, <2>2, <2>4, <2>5, <2>6, <2>7 DEF Armable, IsTerminal
  <2>9. DeadlineExtended(s, ms, at) = Rearm(t)
    BY <1>2 DEF DeadlineExtended, next
  <2> QED BY <2>8, <2>9, RearmSound
<1> QED BY <1>1, <1>2


\* An expired timer.  The soft deadline may open a grace window, which then
\* starts after it: that is why the timer must not be early.
LEMMA DeadlineFiredSound ==
  ASSUME NEW s, Sound(s), NEW timer \in Timer, NEW reason \in Reason,
         NEW at \in Nat, timer = "total" => s.deadline <= at
  PROVE  Sound(DeadlineFired(s, timer, reason, at))
<1> DEFINE removed == [s EXCEPT !.armed = @ \ {timer}]
           named == [removed EXCEPT !.reason = IF @ = "none" THEN reason ELSE @]
           blamed == [removed EXCEPT !.reason = reason]
           queued == [removed EXCEPT !.reason = "queue_timeout"]
           killed == [removed EXCEPT !.reason = reason, !.cause = "timeout"]
           until == GraceWindow(s, at)
           graced == [removed EXCEPT !.grace = until, !.graces = @ + 1]
           ignored == \/ IsTerminal(s) \/ timer \notin s.armed
                      \/ timer = "total" /\ s.grace # Undef
<1>1. CASE ignored
  BY <1>1 DEF DeadlineFired
<1>2. CASE ~ignored
  <2>1. Armable(s)
    BY <1>2, SoundArmable
  <2>2. removed \in RunType
    BY DEF Sound, RunType
  <2>3. /\ removed.status = s.status /\ removed.phase = s.phase
        /\ removed.settles = s.settles /\ removed.deadline = s.deadline
        /\ removed.hard = s.hard /\ removed.grace = s.grace
        /\ removed.extensions = s.extensions /\ removed.graces = s.graces
    BY DEF Sound, RunType
  <2>4. Armable(removed)
    BY <2>1, <2>2, <2>3, NotedArmable
  <2>5. blamed \in RunType /\ Earned(blamed) /\ blamed.settles = 0
    BY <2>4 DEF Armable, RunType, Earned
  <2>6. queued \in RunType /\ Earned(queued) /\ queued.settles = 0
    BY <2>4 DEF Armable, RunType, Earned, Reason
  <2>7. named \in RunType /\ Earned(named) /\ named.settles = 0
    BY <2>4 DEF Armable, RunType, Earned
  <2>8. Armable(killed)
    <3>1. killed \in RunType
      BY <2>2 DEF RunType, Cause
    <3>2. /\ killed.status = removed.status /\ killed.phase = removed.phase
          /\ killed.settles = removed.settles /\ killed.deadline = removed.deadline
          /\ killed.hard = removed.hard /\ killed.grace = removed.grace
          /\ killed.extensions = removed.extensions /\ killed.graces = removed.graces
      BY <2>2 DEF RunType
    <3> QED BY <2>4, <3>1, <3>2, NotedArmable
  <2>9. ASSUME timer = "total", until # Undef PROVE Armable(graced)
    <3>1. s.grace = Undef /\ s.deadline <= at
      BY <1>2, <2>9
    <3>2. s \in RunType /\ Ordered(s) /\ Earned(s)
      BY <2>1 DEF Armable
    <3>3. s.deadline < s.hard /\ at < s.hard
      <4>1. Extendable(s, at)
        BY <2>9 DEF GraceWindow
      <4>2. s.deadline \in Nat /\ s.hard \in Nat
        BY <3>2 DEF RunType
      <4> QED BY <3>1, <4>1, <4>2 DEF Extendable, Headroom, Higher
    <3>4. until = Lower(at + Budget.totalGrace, s.hard)
      BY <2>9 DEF GraceWindow
    <3>5. until \in Nat /\ s.deadline <= until /\ until <= s.hard
      <4>1. s.deadline \in Nat /\ s.hard \in Nat
        BY <3>2 DEF RunType
      <4> QED BY <3>1, <3>3, <3>4, <4>1, BudgetFacts DEF Lower
    <3> HIDE DEF until
    <3>6. s.graces + 1 \in Nat /\ until \in Instant /\ removed.graces = s.graces
      BY <2>3, <3>2, <3>5 DEF RunType, Instant
    <3>7. graced \in RunType
      BY <2>2, <3>6 DEF RunType
    <3>8. /\ graced.status = s.status /\ graced.phase = s.phase
          /\ graced.settles = s.settles /\ graced.deadline = s.deadline
          /\ graced.hard = s.hard /\ graced.grace = until
          /\ graced.extensions = s.extensions /\ graced.graces = s.graces + 1
      BY <2>2, <2>3 DEF RunType
    <3>9. Earned(graced)
      BY <2>9, <3>1, <3>2, <3>8 DEF Earned, RunType
    <3>10. Ordered(graced)
      BY <3>2, <3>5, <3>8 DEF Ordered
    <3> QED BY <2>1, <3>7, <3>8, <3>9, <3>10 DEF Armable, IsTerminal
  <2>10. Sound(Enter(killed, "stopping", "abort_grace", at))
    <3>1. "stopping" \in Status \ Terminal /\ "abort_grace" \in Phase \ {"settled"}
      BY DEF Status, Terminal, Phase
    <3> QED BY <2>8, <3>1, EnterSound
  <2>11. timer = "total" /\ until # Undef => Sound(Rearm(graced))
    BY <2>9, RearmSound
  <2>12. \A st \in Terminal : /\ Sound(Finish(blamed, st, at))
                               /\ Sound(Finish(queued, st, at))
                               /\ Sound(Finish(named, st, at))
    BY <2>5, <2>6, <2>7, FinishSound
  <2>13. {"failed", "timed_out", "aborted"} \subseteq Terminal
    BY DEF Terminal
  <2> DEFINE byTimeout == s.reason # "none" \/ s.cause = "timeout"
             other == IF timer = "total" /\ until # Undef THEN Rearm(graced)
                      ELSE Enter(killed, "stopping", "abort_grace", at)
             fired ==
               CASE s.phase = "resolve_config" -> Finish(blamed, "failed", at)
                 [] s.phase = "queue_wait" -> Finish(queued, "failed", at)
                 [] s.phase \in {"session_create", "extension_bind"} ->
                      Finish(blamed, "timed_out", at)
                 [] s.phase = "abort_grace" ->
                      Finish(named, IF byTimeout THEN "timed_out" ELSE "aborted", at)
                 [] OTHER -> other
  <2>14. DeadlineFired(s, timer, reason, at) = fired
    BY <1>2, Zenon DEF DeadlineFired
  <2>15. Sound(other)
    BY <2>10, <2>11
  <2> HIDE DEF other, blamed, queued, named
  <2>16. Sound(fired)
    BY <2>12, <2>13, <2>15
  <2> QED BY <2>14, <2>16
<1> QED BY <1>1, <1>2


\* A run that a session event takes, or takes back, to a running phase.
LEMMA RunningSound ==
  ASSUME NEW s, Armable(s), NEW phase \in RunningPhase, NEW at \in Nat
  PROVE  Sound(Enter(s, "running", phase, at))
<1>1. "running" \in Status \ Terminal /\ phase \in Phase \ {"settled"}
  BY DEF Status, Terminal, Phase, RunningPhase
<1> QED BY <1>1, EnterSound

\* The records of tool calls: at most HistoryCap, the ids of calls or "ended".
LEMMA TrailType ==
  ASSUME NEW s \in RunType, NEW e, e.t \in {"tool_start", "tool_end"} => e.id \in Tools
  PROVE  Trail(s, e) \in History
<1>1. s.trail \in Seq(Tools \cup {"ended"}) /\ Len(s.trail) <= HistoryCap
  BY DEF RunType, History
<1>2. HistoryCap \in Nat \ {0}
  BY HistoryAssumption
<1>3. CASE e.t = "tool_start"
  <2>1. Append(s.trail, e.id) \in Seq(Tools \cup {"ended"})
        /\ Len(Append(s.trail, e.id)) = Len(s.trail) + 1
    BY <1>1, <1>3
  <2>2. Len(s.trail) = HistoryCap =>
          /\ Append(Tail(s.trail), e.id) \in Seq(Tools \cup {"ended"})
          /\ Len(Append(Tail(s.trail), e.id)) = HistoryCap
    BY <1>1, <1>2, <1>3
  <2>3. Len(s.trail) \in Nat
    BY <1>1
  <2> QED BY <1>1, <1>2, <1>3, <2>1, <2>2, <2>3 DEF Trail, Remember, History
<1>4. CASE e.t = "tool_end"
  <2> DEFINE closed ==
        [i \in DOMAIN s.trail |-> IF s.trail[i] = e.id THEN "ended" ELSE s.trail[i]]
  <2>1. closed \in Seq(Tools \cup {"ended"}) /\ Len(closed) = Len(s.trail)
    BY <1>1
  <2>2. Trail(s, e) = closed
    BY <1>4 DEF Trail
  <2> QED BY <1>1, <2>1, <2>2 DEF History
<1>5. CASE e.t \notin {"tool_start", "tool_end"}
  BY <1>1, <1>5 DEF Trail, History
<1> QED BY <1>3, <1>4, <1>5

LEMMA NextShownType ==
  ASSUME NEW s \in RunType
  PROVE  NextShown(s) \in Tools \cup {"none"}
<1>1. s.trail \in Seq(Tools \cup {"ended"}) /\ s.current \in Tools \cup {"none"}
  BY DEF RunType, History
<1>2. \A i \in DOMAIN s.trail : s.trail[i] \in Tools \cup {"ended"}
  BY <1>1
<1>3. ASSUME \E i \in DOMAIN s.trail : LastOpenAt(s.trail, i)
      PROVE  s.trail[CHOOSE i \in DOMAIN s.trail : LastOpenAt(s.trail, i)] \in Tools
  <2> DEFINE at == CHOOSE i \in DOMAIN s.trail : LastOpenAt(s.trail, i)
  <2>1. at \in DOMAIN s.trail /\ LastOpenAt(s.trail, at)
    BY <1>3
  <2> HIDE DEF at
  <2>2. s.trail[at] # "ended" /\ s.trail[at] \in Tools \cup {"ended"}
    BY <1>2, <2>1 DEF LastOpenAt
  <2> QED BY <2>2 DEF at
<1> QED BY <1>1, <1>3 DEF NextShown

LEMMA ToolEventSound ==
  ASSUME NEW s, Sound(s), ~IsTerminal(s), NEW id \in Tools, NEW at \in Nat
  PROVE  Sound(ToolStarted(s, id, at)) /\ Sound(ToolEnded(s, at))
<1> DEFINE more == [s EXCEPT !.pending = @ + 1, !.current = id]
           left == Higher(0, s.pending - 1)
           less == [s EXCEPT !.pending = left, !.current = NextShown(s)]
           last == [s EXCEPT !.pending = 0, !.current = "none"]
<1>1. s \in RunType
  BY DEF Sound
<1>2. s.pending + 1 \in Nat /\ left \in Nat
  BY <1>1 DEF RunType, Higher
<1>3. NextShown(s) \in Tools \cup {"none"}
  BY <1>1, NextShownType
<1> HIDE DEF left
<1>4. more \in RunType /\ less \in RunType /\ last \in RunType
  BY <1>1, <1>2, <1>3 DEF RunType
<1>5. Sound(more) /\ Sound(less) /\ Sound(last)
  BY <1>1, <1>4, NotedSound DEF RunType
<1>6. ~IsTerminal(more) /\ ~IsTerminal(last)
  BY <1>1 DEF RunType, IsTerminal
<1>7. Armable(more) /\ Armable(last)
  BY <1>5, <1>6, SoundArmable
<1>8. "tool_exec" \in RunningPhase /\ "model_turn" \in RunningPhase
  BY DEF RunningPhase
<1>9. Sound(Enter(more, "running", "tool_exec", at)) /\ Sound(Enter(last, "running", "model_turn", at))
  BY <1>7, <1>8, RunningSound
<1> QED BY <1>5, <1>9 DEF ToolStarted, ToolEnded, left

LEMMA SessionEventSound ==
  ASSUME NEW s, Sound(s), NEW e, e.t \in {"tool_start", "tool_end"} => e.id \in Tools,
         NEW at \in Nat
  PROVE  Sound(SessionEvent(s, e, at))
<1> DEFINE trail == Trail(s, e)
           seen == [s EXCEPT !.lastEvent = at, !.trail = trail]
           resumed == Enter(seen, "running", "model_turn", at)
<1>1. s \in RunType
  BY DEF Sound
<1>2. CASE IsTerminal(s)
  BY <1>2 DEF SessionEvent
<1>3. CASE ~IsTerminal(s)
  <2>1. trail \in History
    BY <1>1, TrailType
  <2>2. at \in Instant
    BY DEF Instant
  <2> HIDE DEF trail
  <2>3. seen \in RunType
    BY <1>1, <2>1, <2>2 DEF RunType
  <2>4. Sound(seen)
    BY <1>1, <2>3, NotedSound DEF RunType
  <2>5. ~IsTerminal(seen)
    BY <1>1, <1>3 DEF RunType, IsTerminal
  <2>6. Armable(seen)
    BY <2>4, <2>5, SoundArmable
  <2>7. {"model_turn", "retry_backoff", "compaction"} \subseteq RunningPhase
    BY DEF RunningPhase
  <2>8. /\ Sound(resumed)
        /\ Sound(Enter(seen, "running", "retry_backoff", at))
        /\ Sound(Enter(seen, "running", "compaction", at))
    BY <2>6, <2>7, RunningSound
  <2>9. e.t \in {"tool_start", "tool_end"} =>
          Sound(ToolStarted(seen, e.id, at)) /\ Sound(ToolEnded(seen, at))
    BY <2>4, <2>5, ToolEventSound
  <2>10. \/ SessionEvent(s, e, at) \in
              {s, seen, resumed, Enter(seen, "running", "retry_backoff", at),
               Enter(seen, "running", "compaction", at)}
         \/ /\ e.t \in {"tool_start", "tool_end"}
            /\ SessionEvent(s, e, at) \in {ToolStarted(seen, e.id, at), ToolEnded(seen, at)}
    <3> HIDE DEF seen, resumed
    <3> QED BY <1>3, Zenon DEF SessionEvent, seen, resumed, trail
  <2> HIDE DEF seen, resumed
  <2> QED BY <2>4, <2>8, <2>9, <2>10
<1> QED BY <1>2, <1>3

-------------------------------------------------------------------------------
\* No input moves a terminal run: its status is absorbing for every branch of
\* the reducer, also for those that only look at the phase.
LEMMA TerminalAbsorbs ==
  ASSUME NEW s, Sound(s), IsTerminal(s), NEW at, NEW phase, NEW kind, NEW why,
         NEW cause, NEW error, NEW ms, NEW timer, NEW reason, NEW e
  PROVE  /\ PhaseEntered(s, phase, at) = s
         /\ SlotAcquired(s, at) = s
         /\ SlotDenied(s, why, at) = s
         /\ StopRequested(s, cause, at) = s
         /\ StartupFailed(s, phase, kind, at) = s
         /\ PromptSettled(s, error, at) = s
         /\ DeadlineExtended(s, ms, at) = s
         /\ DeadlineFired(s, timer, reason, at) = s
         /\ SessionEvent(s, e, at) = s
<1>1. s.phase = "settled"
  BY DEF Sound
<1>2. SlotAcquired(s, at) = s /\ SlotDenied(s, why, at) = s
  BY <1>1 DEF SlotAcquired, SlotDenied
<1>3. PhaseEntered(s, phase, at) = s /\ StopRequested(s, cause, at) = s
  BY DEF PhaseEntered, StopRequested
<1>4. StartupFailed(s, phase, kind, at) = s /\ PromptSettled(s, error, at) = s
  BY DEF StartupFailed, PromptSettled
<1>5. DeadlineExtended(s, ms, at) = s
  BY DEF DeadlineExtended, Extendable
<1>6. DeadlineFired(s, timer, reason, at) = s
  BY DEF DeadlineFired
<1>7. SessionEvent(s, e, at) = s
  BY DEF SessionEvent
<1> QED BY <1>2, <1>3, <1>4, <1>5, <1>6, <1>7

-------------------------------------------------------------------------------
(* The life of a run *)

\* The listener and how often it has heard of the end.
ObserverType == [entry : {"none", "live", "ended"}, heard : Nat]

\* Before Start the reducer's state is the fresh one and nothing is armed;
\* afterwards it is sound.
RunSound ==
  IF pc = "idle" THEN run = Fresh(now) /\ ~watch /\ observer.entry = "none" ELSE Sound(run)

IInv == TypeOK /\ RunSound

-------------------------------------------------------------------------------
(* The shared pieces of the actions. *)

LEMMA Constants ==
  /\ Caps \subseteq Instant /\ ExtendBy \subseteq Nat
  /\ Budget.queueWait \in Nat /\ Budget.startup \in Nat /\ Budget.bind \in Nat
BY LifecycleAssumption, BudgetAssumption DEF BudgetType

LEMMA SoundType == ASSUME NEW s, Sound(s) PROVE s \in RunType
BY DEF Sound

LEMMA Durations ==
  ASSUME NEW s \in RunType, NEW span \in Nat, NEW at \in Nat
  PROVE  /\ RemainingFor(span, at, s) \in Nat
         /\ EffectiveDeadline(s) \in Nat
         /\ Higher(0, EffectiveDeadline(s) - at) \in Nat
<1>1. s.deadline \in Nat /\ s.grace \in Nat \cup {Undef}
  BY DEF RunType, Instant
<1>2. EffectiveDeadline(s) \in Nat
  BY <1>1 DEF EffectiveDeadline
<1>3. \A d \in Nat : Higher(0, d - at) \in Nat
  BY DEF Higher
<1>4. \A d \in Nat : Lower(span, d) \in Nat
  BY DEF Lower
<1>5. RemainingFor(span, at, s) \in Nat
  BY <1>1, <1>3, <1>4 DEF RemainingFor
<1> QED BY <1>2, <1>3, <1>5

\* dispatch() of a sound state, and the types of what it writes.
LEMMA DispatchSound ==
  ASSUME TypeOK, NEW r, Sound(r), Dispatch(r)
  PROVE  Sound(run') /\ run' \in RunType /\ observer' \in ObserverType
BY SoundType DEF Dispatch, Informed, EndObservers, TypeOK, ObserverType

LEMMA AwaitType ==
  ASSUME TypeOK, NEW next \in Waiting, NEW ms \in Nat, Await(next, ms)
  PROVE  pc' \in PC /\ guard' \in Verdict /\ due' \in Nat
<1>1. now + ms \in Nat
  BY DEF TypeOK
<1> QED BY <1>1 DEF Await, PC, Verdict, TypeOK

LEMMA ReturnType ==
  ASSUME TypeOK, NEW r, Sound(r), Return(r)
  PROVE  /\ Sound(run') /\ pc' = "done"
         /\ run' \in RunType /\ pc' \in PC /\ guard' \in Verdict /\ due' \in Nat
         /\ watch' \in BOOLEAN /\ observer' \in ObserverType
         /\ told' \in Terminal \cup {"none", "undefined"}
         /\ now' = now /\ cancel' = cancel
<1>1. \A o \in ObserverType : EndObservers(o) \in ObserverType
  BY DEF EndObservers, ObserverType
<1>2. observer' \in ObserverType
  BY <1>1 DEF Return, Informed, TypeOK, ObserverType
<1>3. told' \in Terminal \cup {"none", "undefined"}
  BY DEF Return, IsTerminal
<1> QED BY <1>2, <1>3, SoundType DEF Return, TypeOK, PC, Verdict

\* An expiry: the reducer's step and the stop request that may follow it.
LEMMA FireDeadlineSound ==
  ASSUME TypeOK, Sound(run), NEW timer \in Timer, NEW reason \in Reason,
         timer = "total" => run.deadline <= now, FireDeadline(timer, reason)
  PROVE  /\ Sound(run') /\ run' \in RunType
         /\ observer' \in ObserverType
         /\ cancel' \in {"none", "external", "timeout", "stop", "reap"}
         /\ sealed' \in BOOLEAN
<1> DEFINE fired == DeadlineFired(run, timer, reason, now)
<1>1. now \in Nat
  BY DEF TypeOK
<1>2. Sound(fired)
  BY <1>1, DeadlineFiredSound
<1>3. "timeout" \in Cause
  BY DEF Cause
<1>4. Sound(StopRequested(fired, "timeout", now))
  BY <1>1, <1>2, <1>3, StopRequestedSound
<1> HIDE DEF fired
<1>5. \E r \in {fired, StopRequested(fired, "timeout", now)} : Dispatch(r)
  BY DEF FireDeadline, fired
<1>6. Sound(run') /\ run' \in RunType /\ observer' \in ObserverType
  BY <1>2, <1>4, <1>5, DispatchSound
<1>7. cancel' \in {"timeout", cancel} /\ sealed' \in BOOLEAN
  BY DEF FireDeadline, fired
<1> QED BY <1>6, <1>7 DEF TypeOK

-------------------------------------------------------------------------------
(* Every action keeps IInv. *)

\* The steps that leave the reducer and the runner alone.
LEMMA QuietKeeps ==
  ASSUME IInv,
         \/ PoolGrant \/ PoolExpire \/ GuardSeesTicket \/ GuardTimeout
         \/ \E ok \in BOOLEAN : CreateSettles(ok)
         \/ \E end \in {"failed", "disposed", "threw", "unkillable"} : LateArrival(end)
         \/ \E ok \in BOOLEAN : BindSettles(ok)
         \/ \E verdict \in {"ok", "turn_error", "error"} : PromptSettles(verdict)
         \/ ObserveRun
         \/ \E end \in {"disposed", "threw", "unkillable"} : Dispose(end)
         \/ Tick \/ UNCHANGED vars
  PROVE  IInv'
<1> USE DEF IInv, TypeOK, RunSound, Verdict, SessionState, Settle
<1>1. CASE PoolGrant
  BY <1>1 DEF PoolGrant
<1>2. CASE PoolExpire
  BY <1>2 DEF PoolExpire
<1>3. CASE GuardSeesTicket
  BY <1>3 DEF GuardSeesTicket
<1>4. CASE GuardTimeout
  BY <1>4 DEF GuardTimeout
<1>5. CASE \E ok \in BOOLEAN : CreateSettles(ok)
  BY <1>5 DEF CreateSettles
<1>6. CASE \E end \in {"failed", "disposed", "threw", "unkillable"} : LateArrival(end)
  BY <1>6 DEF LateArrival
<1>7. CASE \E ok \in BOOLEAN : BindSettles(ok)
  BY <1>7 DEF BindSettles
<1>8. CASE \E verdict \in {"ok", "turn_error", "error"} : PromptSettles(verdict)
  BY <1>8 DEF PromptSettles
<1>9. CASE ObserveRun
  BY <1>9 DEF ObserveRun, HandleActive
<1>10. CASE \E end \in {"disposed", "threw", "unkillable"} : Dispose(end)
  BY <1>10 DEF Dispose
<1>11. CASE Tick
  <2>1. now + 1 \in Nat
    OBVIOUS
  <2> QED BY <1>11, <2>1 DEF Tick
<1>12. CASE UNCHANGED vars
  BY <1>12 DEF vars
<1> QED BY <1>1, <1>2, <1>3, <1>4, <1>5, <1>6, <1>7, <1>8, <1>9, <1>10, <1>11, <1>12

LEMMA StartKeeps ==
  ASSUME IInv, NEW cap \in Caps, NEW aborted \in BOOLEAN, Start(cap, aborted)
  PROVE  IInv'
<1> DEFINE fresh == Enqueued(now, cap)
<1>1. now \in Nat /\ cap \in Instant
  BY Constants DEF IInv, TypeOK
<1>2. Sound(fresh)
  BY <1>1, EnqueuedSound
<1>3. fresh \in RunType
  BY <1>2, SoundType
<1>4. now + RemainingFor(Budget.queueWait, now, fresh) \in Nat
  <2>1. RemainingFor(Budget.queueWait, now, fresh) \in Nat
    BY <1>1, <1>3, Constants, Durations
  <2> QED BY <1>1, <2>1
<1>5. run' = fresh /\ pc' \in {"done", "acquire"} /\ due' \in Nat
  BY <1>4 DEF Start, IInv, TypeOK
<1> HIDE DEF fresh
<1>6. RunSound'
  BY <1>2, <1>5 DEF RunSound
<1>7. TypeOK'
  BY <1>3, <1>5 DEF Start, IInv, TypeOK, PC, Waiting, Verdict, fresh, IsTerminal
<1> QED BY <1>6, <1>7 DEF IInv

LEMMA AcquireContinueKeeps ==
  ASSUME IInv, AcquireContinue
  PROVE  IInv'
<1> DEFINE held == PhaseEntered(SlotAcquired(run, now), "session_create", now)
           why == IF guard \in {"timeout", "expired"} THEN "queue_timeout" ELSE "aborted"
<1>1. TypeOK /\ now \in Nat /\ Sound(run)
  BY DEF IInv, TypeOK, RunSound, AcquireContinue
<1>2. Sound(held)
  <2>1. "session_create" \in Phase \ {"settled"}
    BY DEF Phase, StartingPhase
  <2> QED BY <1>1, <2>1, SlotAcquiredSound, PhaseEnteredSound
<1>3. Sound(SlotDenied(run, why, now))
  BY <1>1, SlotDeniedSound
<1>4. RemainingFor(Budget.startup, now, held) \in Nat
  BY <1>1, <1>2, SoundType, Constants, Durations
<1> HIDE DEF held, why
<1>5. CASE guard = "ok"
  <2>1. /\ Dispatch(held) /\ Await("create", RemainingFor(Budget.startup, now, held))
        /\ ticket' = "held" /\ session' = "creating"
        /\ UNCHANGED <<now, cancel, watch, told, fileLive, sealed, calls, over>>
    BY <1>5 DEF AcquireContinue, held
  <2>2. Sound(run') /\ run' \in RunType /\ observer' \in ObserverType
    BY <1>1, <1>2, <2>1, DispatchSound
  <2>3. pc' \in PC /\ guard' \in Verdict /\ due' \in Nat /\ pc' # "idle"
    BY <1>1, <1>4, <2>1, AwaitType DEF Waiting, Await
  <2> QED BY <1>1, <2>1, <2>2, <2>3 DEF IInv, TypeOK, RunSound, SessionState, ObserverType
<1>6. CASE guard # "ok"
  <2>1. /\ Return(SlotDenied(run, why, now))
        /\ UNCHANGED <<ticket, session, fileLive, sealed, calls, over>>
    BY <1>6 DEF AcquireContinue, why
  <2> QED BY <1>1, <1>3, <2>1, ReturnType DEF IInv, TypeOK, RunSound, ObserverType
<1> QED BY <1>5, <1>6

LEMMA CreateContinueKeeps ==
  ASSUME IInv, CreateContinue
  PROVE  IInv'
<1> DEFINE bound == PhaseEntered(run, "extension_bind", now)
           kind == IF guard = "error" THEN "failure" ELSE "timeout"
<1>1. TypeOK /\ now \in Nat /\ Sound(run)
  BY DEF IInv, TypeOK, RunSound, CreateContinue
<1>2. Sound(bound)
  <2>1. "extension_bind" \in Phase \ {"settled"}
    BY DEF Phase, StartingPhase
  <2> QED BY <1>1, <2>1, PhaseEnteredSound
<1>3. Sound(StartupFailed(run, "session_create", kind, now))
  BY <1>1, StartupFailedSound
<1>4. RemainingFor(Budget.bind, now, bound) \in Nat
  BY <1>1, <1>2, SoundType, Constants, Durations
<1> HIDE DEF bound, kind
<1>5. CASE guard = "ok"
  <2>1. /\ Dispatch(bound) /\ Await("bind", RemainingFor(Budget.bind, now, bound))
        /\ session' = "live" /\ fileLive' = TRUE
        /\ UNCHANGED <<now, cancel, watch, told, ticket, sealed, calls, over>>
    BY <1>5 DEF CreateContinue, bound
  <2>2. Sound(run') /\ run' \in RunType /\ observer' \in ObserverType
    BY <1>1, <1>2, <2>1, DispatchSound
  <2>3. pc' \in PC /\ guard' \in Verdict /\ due' \in Nat /\ pc' # "idle"
    BY <1>1, <1>4, <2>1, AwaitType DEF Waiting, Await
  <2> QED BY <1>1, <2>1, <2>2, <2>3 DEF IInv, TypeOK, RunSound, SessionState, ObserverType
<1>6. CASE guard # "ok"
  <2>1. /\ Return(StartupFailed(run, "session_create", kind, now))
        /\ session' \in {"failed", "late"} /\ ReleaseTicket
        /\ UNCHANGED <<fileLive, sealed, calls, over>>
    BY <1>6 DEF CreateContinue, kind
  <2> QED BY <1>1, <1>3, <2>1, ReturnType
          DEF IInv, TypeOK, RunSound, SessionState, ReleaseTicket, ObserverType
<1> QED BY <1>5, <1>6

\* The two ways on from bind: the prompt is sent, or run() gives up.
LEMMA BindPrompts ==
  ASSUME BindContinue, pc' = "prompt"
  PROVE  LET prompted == PhaseEntered(run, "prompt_dispatch", now)
         IN  /\ pc = "bind" /\ guard = "ok" /\ watch'
             /\ Dispatch(prompted)
             /\ Await("prompt", Higher(0, EffectiveDeadline(prompted) - now))
             /\ UNCHANGED <<now, cancel, told, ticket, sealed, over, session,
                            fileLive, calls>>
BY DEF BindContinue, Return

LEMMA BindFails ==
  ASSUME BindContinue, pc' # "prompt"
  PROVE  /\ pc = "bind" /\ guard # "pending" /\ sealed'
         /\ over' \in BOOLEAN /\ ReleaseTicket
         /\ \E kind \in {"failure", "timeout"} :
              Return(StartupFailed(run, "extension_bind", kind, now))
         /\ UNCHANGED <<session, fileLive, calls>>
BY DEF BindContinue, Await

LEMMA BindContinueKeeps ==
  ASSUME IInv, BindContinue
  PROVE  IInv'
<1> DEFINE prompted == PhaseEntered(run, "prompt_dispatch", now)
<1>1. TypeOK /\ now \in Nat /\ Sound(run)
  BY DEF IInv, TypeOK, RunSound, BindContinue
<1>2. Sound(prompted)
  <2>1. "prompt_dispatch" \in Phase \ {"settled"}
    BY DEF Phase, StartingPhase
  <2> QED BY <1>1, <2>1, PhaseEnteredSound
<1>3. \A kind \in {"failure", "timeout"} :
        Sound(StartupFailed(run, "extension_bind", kind, now))
  BY <1>1, StartupFailedSound
<1>4. Higher(0, EffectiveDeadline(prompted) - now) \in Nat
  BY <1>1, <1>2, SoundType, Durations, Constants
<1> HIDE DEF prompted
<1>5. CASE pc' = "prompt"
  <2>1. /\ Dispatch(prompted)
        /\ Await("prompt", Higher(0, EffectiveDeadline(prompted) - now))
        /\ watch' = TRUE
        /\ UNCHANGED <<now, cancel, told, ticket, sealed, over, session, fileLive, calls>>
    BY <1>5, BindPrompts DEF prompted, BindContinue, Return
  <2>2. Sound(run') /\ run' \in RunType /\ observer' \in ObserverType
    BY <1>1, <1>2, <2>1, DispatchSound
  <2>3. pc' \in PC /\ guard' \in Verdict /\ due' \in Nat /\ pc' # "idle"
    BY <1>1, <1>4, <2>1, AwaitType DEF Waiting, Await
  <2> QED BY <1>1, <2>1, <2>2, <2>3 DEF IInv, TypeOK, RunSound, ObserverType
<1>6. CASE pc' # "prompt"
  <2>1. PICK kind \in {"failure", "timeout"} :
          Return(StartupFailed(run, "extension_bind", kind, now))
    BY <1>6, BindFails
  <2>2. /\ sealed' = TRUE /\ over' \in BOOLEAN /\ ReleaseTicket
        /\ UNCHANGED <<session, fileLive, calls>>
    BY <1>6 DEF BindContinue, Await
  <2>3. Sound(StartupFailed(run, "extension_bind", kind, now))
    BY <1>3
  <2> QED BY <1>1, <2>1, <2>2, <2>3, ReturnType
          DEF IInv, TypeOK, RunSound, ReleaseTicket, ObserverType
<1> QED BY <1>5, <1>6

LEMMA PromptContinueKeeps ==
  ASSUME IInv, PromptContinue
  PROVE  IInv'
<1>1. TypeOK /\ now \in Nat /\ Sound(run)
  BY DEF IInv, TypeOK, RunSound, PromptContinue
<1>2. ErrorOf(guard) \in PromptError
  BY DEF ErrorOf, PromptError
<1>3. Sound(PromptSettled(run, ErrorOf(guard), now))
  BY <1>1, <1>2, PromptSettledSound
<1>4. /\ Return(PromptSettled(run, ErrorOf(guard), now)) /\ sealed' = TRUE
      /\ ReleaseTicket /\ UNCHANGED <<session, fileLive, calls, over>>
  BY DEF PromptContinue
<1> QED BY <1>1, <1>3, <1>4, ReturnType DEF IInv, TypeOK, RunSound, ReleaseTicket, ObserverType

LEMMA WatchdogTickKeeps ==
  ASSUME IInv, NEW timer \in Timer, WatchdogTick(timer)
  PROVE  IInv'
<1>1. TypeOK /\ Sound(run) /\ pc # "idle"
  BY DEF IInv, RunSound, WatchdogTick
<1>2. TimerReason[timer] \in Reason
  BY DEF Timer, TimerReason, Reason
<1>3. timer = "total" => run.deadline <= now
  BY DEF WatchdogTick, Expired, TimerDue
<1>4. /\ FireDeadline(timer, TimerReason[timer])
      /\ guard' \in {"cancelled", guard}
      /\ UNCHANGED <<now, pc, due, ticket, session, fileLive, watch, calls, over, told>>
  BY DEF WatchdogTick
<1>5. /\ Sound(run') /\ run' \in RunType /\ observer' \in ObserverType
      /\ cancel' \in {"none", "external", "timeout", "stop", "reap"}
      /\ sealed' \in BOOLEAN
  BY <1>1, <1>2, <1>3, <1>4, FireDeadlineSound
<1> QED BY <1>1, <1>4, <1>5 DEF IInv, TypeOK, RunSound, Verdict, ObserverType

LEMMA PromptTimerKeeps ==
  ASSUME IInv, PromptTimer
  PROVE  IInv'
<1>1. TypeOK /\ Sound(run) /\ run \in RunType /\ pc = "prompt" /\ now \in Nat
  BY SoundType DEF IInv, TypeOK, RunSound, PromptTimer
<1>2. CASE EffectiveDeadline(run) > now
  <2>1. due' = EffectiveDeadline(run) /\ UNCHANGED <<run, guard, cancel, sealed, observer>>
    BY <1>2 DEF PromptTimer
  <2>2. due' \in Nat
    BY <1>1, <2>1, Durations, Constants
  <2> QED BY <1>1, <2>1, <2>2 DEF IInv, TypeOK, RunSound, PromptTimer
<1>3. CASE ~(EffectiveDeadline(run) > now)
  <2>1. /\ FireDeadline(TotalTimer(run), "total")
        /\ guard' \in {"cancelled", "timeout", guard}
        /\ due' \in {due, EffectiveDeadline(run')}
        /\ UNCHANGED <<now, pc, ticket, session, fileLive, watch, calls, over, told>>
    BY <1>3 DEF PromptTimer
  <2>2. TotalTimer(run) \in Timer /\ "total" \in Reason
    BY DEF TotalTimer, Timer, Reason
  <2>3. TotalTimer(run) = "total" => run.deadline <= now
    <3>1. TotalTimer(run) = "total" => EffectiveDeadline(run) = run.deadline
      BY DEF TotalTimer, EffectiveDeadline
    <3>2. EffectiveDeadline(run) \in Nat
      BY <1>1, Durations, Constants
    <3> QED BY <1>1, <1>3, <3>1, <3>2
  <2>4. /\ Sound(run') /\ run' \in RunType /\ observer' \in ObserverType
        /\ cancel' \in {"none", "external", "timeout", "stop", "reap"}
        /\ sealed' \in BOOLEAN
    BY <1>1, <2>1, <2>2, <2>3, FireDeadlineSound
  <2>5. EffectiveDeadline(run') \in Nat
    BY <1>1, <2>4, Durations, Constants
  <2> QED BY <1>1, <2>1, <2>4, <2>5 DEF IInv, TypeOK, RunSound, Verdict, ObserverType
<1> QED BY <1>2, <1>3

LEMMA CancelKeeps ==
  ASSUME IInv, NEW reason \in {"stop", "external"},
         NEW cause \in {"user_stop", "parent_abort"}, Cancel(reason, cause),
         over' \in BOOLEAN
  PROVE  IInv'
<1>1. TypeOK /\ now \in Nat /\ Sound(run) /\ pc # "idle"
  BY DEF IInv, TypeOK, RunSound, Cancel, Registered, Waiting
<1>2. Sound(StopRequested(run, cause, now))
  BY <1>1, StopRequestedSound DEF Cause
<1>3. Dispatch(StopRequested(run, cause, now))
  BY DEF Cancel
<1>4. Sound(run') /\ run' \in RunType /\ observer' \in ObserverType
  BY <1>1, <1>2, <1>3, DispatchSound
<1>5. /\ cancel' = reason /\ guard' \in {"cancelled", guard}
      /\ ticket' \in {"none", ticket}
      /\ UNCHANGED <<now, pc, due, session, fileLive, watch, sealed, calls, told>>
  BY DEF Cancel, Settle
<1> QED BY <1>1, <1>4, <1>5 DEF IInv, TypeOK, RunSound, Verdict, ObserverType

\* The input budget is exceeded when the run has been cancelled already.
LEMMA MarkKeeps ==
  ASSUME IInv, over' = TRUE,
         UNCHANGED <<now, run, pc, guard, due, cancel, ticket, session,
                     fileLive, watch, sealed, observer, calls, told>>
  PROVE  IInv'
BY DEF IInv, TypeOK, RunSound

LEMMA ExtendDeadlineKeeps ==
  ASSUME IInv, NEW ms \in ExtendBy, ExtendDeadline(ms)
  PROVE  IInv'
<1>1. TypeOK /\ now \in Nat /\ Sound(run) /\ pc # "idle" /\ ms \in Nat
  BY Constants DEF IInv, TypeOK, RunSound, ExtendDeadline, Registered, Waiting
<1>2. Sound(DeadlineExtended(run, ms, now))
  BY <1>1, DeadlineExtendedSound
<1>3. /\ Dispatch(DeadlineExtended(run, ms, now))
      /\ UNCHANGED <<now, pc, guard, due, cancel, ticket, session, fileLive,
                     watch, sealed, calls, over, told>>
  BY DEF ExtendDeadline
<1>4. Sound(run') /\ run' \in RunType /\ observer' \in ObserverType
  BY <1>1, <1>2, <1>3, DispatchSound
<1> QED BY <1>1, <1>3, <1>4 DEF IInv, TypeOK, RunSound, ObserverType

\* The session's account of its calls.
LEMMA CallsType ==
  ASSUME TypeOK, NEW e, e.t \in {"tool_start", "tool_end"} => e.id \in Tools
  PROVE  CallsAfter(e) \in [Tools -> CallState]
BY DEF CallsAfter, TypeOK, CallState

LEMMA ReportKeeps ==
  ASSUME IInv, NEW e \in SessionEvents, Report(e)
  PROVE  IInv'
<1>1. TypeOK /\ now \in Nat /\ Sound(run) /\ pc # "idle"
  BY DEF IInv, TypeOK, RunSound, Report
<1>2. e.t \in {"tool_start", "tool_end"} => e.id \in Tools
  BY DEF SessionEvents, ToolEvent
<1>3. Sound(SessionEvent(run, e, now))
  BY <1>1, <1>2, SessionEventSound
<1>4. /\ Dispatch(SessionEvent(run, e, now))
      /\ UNCHANGED <<now, pc, guard, due, cancel, ticket, session, fileLive,
                     watch, sealed, over, told>>
      /\ calls' = CallsAfter(e)
  BY DEF Report
<1>6. calls' \in [Tools -> CallState]
  BY <1>1, <1>2, <1>4, CallsType
<1>5. Sound(run') /\ run' \in RunType /\ observer' \in ObserverType
  BY <1>1, <1>3, <1>4, DispatchSound
<1> QED BY <1>1, <1>4, <1>5, <1>6 DEF IInv, TypeOK, RunSound, ObserverType

LEMMA ReapKeeps ==
  ASSUME IInv, Reap
  PROVE  IInv'
BY DEF IInv, TypeOK, RunSound, Reap, PC

LEMMA IInvInit == Init => IInv
<1>1. ASSUME Init PROVE TypeOK
  <2>1. Fresh(0) \in RunType
    BY FreshType
  <2> QED BY <1>1, <2>1 DEF Init, TypeOK, PC, Verdict, SessionState, CallState
<1>2. ASSUME Init PROVE RunSound
  BY <1>2 DEF Init, RunSound
<1> QED BY <1>1, <1>2 DEF IInv

LEMMA IInvStep == IInv /\ [Next]_vars => IInv'
<1> SUFFICES ASSUME IInv, [Next]_vars PROVE IInv'
  OBVIOUS
<1>1. CASE UNCHANGED vars
  BY <1>1, QuietKeeps
<1>2. CASE Runner
  BY <1>2, QuietKeeps, AcquireContinueKeeps, CreateContinueKeeps, BindContinueKeeps,
     PromptContinueKeeps, PromptTimerKeeps, ReapKeeps DEF Runner
<1>3. CASE Environment
  <2>1. over \in BOOLEAN
    BY DEF IInv, TypeOK
  <2>2. ASSUME AbortRun \/ ParentSignal PROVE IInv'
    BY <2>1, <2>2, CancelKeeps DEF AbortRun, ParentSignal
  <2>3. ASSUME BudgetExceeded PROVE IInv'
    BY <2>3, CancelKeeps, MarkKeeps DEF BudgetExceeded
  <2> QED BY <1>3, <2>2, <2>3, QuietKeeps, StartKeeps, WatchdogTickKeeps,
             ExtendDeadlineKeeps, ReportKeeps DEF Environment
<1>4. CASE Tick
  BY <1>4, QuietKeeps
<1> QED BY <1>1, <1>2, <1>3, <1>4 DEF Next

LEMMA IInvAlways == Spec => []IInv
BY IInvInit, IInvStep, PTL DEF Spec

-------------------------------------------------------------------------------
(* The theorems that follow from IInv alone. *)

\* Type correctness, for every budget and every set of inputs.
THEOREM TypeCorrect == Spec => []TypeOK
<1>1. IInv => TypeOK
  BY DEF IInv
<1> QED BY <1>1, IInvAlways, PTL

\* The soft deadline, the grace window and the ceiling stay in order.
THEOREM DeadlinesInOrder == Spec => []DeadlineOrder
<1>1. IInv => DeadlineOrder
  BY DEF IInv, RunSound, Sound, Ordered, DeadlineOrder, Alive, Started
<1> QED BY <1>1, IInvAlways, PTL

\* No run lives on grace windows alone.
THEOREM GracesEarned == Spec => []GracesAreEarned
<1>1. IInv => GracesAreEarned
  <2>1. Earned(Fresh(now))
    BY DEF Earned, Fresh
  <2> QED BY <2>1 DEF IInv, RunSound, Sound, Earned, GracesAreEarned
<1> QED BY <1>1, IInvAlways, PTL

\* A run that is alive always has a timer of the total class.
THEOREM AlwaysTimed == Spec => []TotalTimerArmed
<1>1. IInv => TotalTimerArmed
  <2>1. Fresh(now).armed = {}
    BY DEF Fresh
  <2> QED BY <2>1 DEF IInv, RunSound, Sound, TotalClass, TotalTimerArmed, Alive, Started
<1> QED BY <1>1, IInvAlways, PTL

\* The terminal batch is emitted once, whoever ends the run first.
THEOREM SettlesOnce == Spec => []SettledOnce
<1>1. IInv => SettledOnce
  <2>1. Fresh(now).settles = 0 /\ ~IsTerminal(Fresh(now))
    BY DEF Fresh, IsTerminal, Terminal
  <2> QED BY <2>1 DEF IInv, RunSound, Sound, SettledOnce
<1> QED BY <1>1, IInvAlways, PTL

LEMMA TerminalStays ==
  ASSUME IInv, [Next]_vars, IsTerminal(run)
  PROVE  UNCHANGED run
<1>1. pc # "idle" /\ Sound(run)
  <2>1. ~IsTerminal(Fresh(now))
    BY DEF Fresh, IsTerminal, Terminal
  <2> QED BY <2>1 DEF IInv, RunSound
<1>2. \A phase : PhaseEntered(run, phase, now) = run
  BY <1>1, TerminalAbsorbs
<1>3. SlotAcquired(run, now) = run
  BY <1>1, TerminalAbsorbs
<1>4. \A timer, reason : FireDeadline(timer, reason) => UNCHANGED run
  <2> TAKE timer, reason
  <2>1. DeadlineFired(run, timer, reason, now) = run
    BY <1>1, TerminalAbsorbs
  <2>2. StopRequested(run, "timeout", now) = run
    BY <1>1, TerminalAbsorbs
  <2> QED BY <2>1, <2>2 DEF FireDeadline, Dispatch
<1>5. \A reason, cause : Cancel(reason, cause) => UNCHANGED run
  <2> TAKE reason, cause
  <2>1. StopRequested(run, cause, now) = run
    BY <1>1, TerminalAbsorbs
  <2> QED BY <2>1 DEF Cancel, Dispatch
<1>6. CASE Runner
  <2>1. AcquireContinue => UNCHANGED run
    <3>1. \A why : SlotDenied(run, why, now) = run
      BY <1>1, TerminalAbsorbs
    <3> QED BY <1>2, <1>3, <3>1 DEF AcquireContinue, Dispatch, Return
  <2>2. \A phase, kind : StartupFailed(run, phase, kind, now) = run
    BY <1>1, TerminalAbsorbs
  <2>3. CreateContinue \/ BindContinue => UNCHANGED run
    BY <1>2, <2>2 DEF CreateContinue, BindContinue, Dispatch, Return
  <2>4. PromptContinue => UNCHANGED run
    <3>1. \A error : PromptSettled(run, error, now) = run
      BY <1>1, TerminalAbsorbs
    <3> QED BY <3>1 DEF PromptContinue, Return
  <2>5. PromptTimer => UNCHANGED run
    BY <1>4 DEF PromptTimer
  <2> QED BY <1>6, <2>1, <2>3, <2>4, <2>5
          DEF Runner, BindSettles, GuardSeesTicket, GuardTimeout, Reap, Dispose
<1>7. CASE Environment
  <2>1. \A cap \in Caps, aborted \in BOOLEAN : ~Start(cap, aborted)
    BY <1>1 DEF Start
  <2>2. \A timer \in Timer : WatchdogTick(timer) => UNCHANGED run
    BY <1>4 DEF WatchdogTick
  <2>3. AbortRun => UNCHANGED run
    BY <1>5 DEF AbortRun
  <2>4. ParentSignal \/ BudgetExceeded => UNCHANGED run
    BY <1>5 DEF ParentSignal, BudgetExceeded
  <2>5. \A ms \in ExtendBy : ~ExtendDeadline(ms)
    BY DEF ExtendDeadline, Extendable
  <2>6. \A e \in SessionEvents : Report(e) => UNCHANGED run
    <3>1. \A e : SessionEvent(run, e, now) = run
      BY <1>1, TerminalAbsorbs
    <3> QED BY <3>1 DEF Report, Dispatch
  <2> QED BY <1>7, <2>1, <2>2, <2>3, <2>4, <2>5, <2>6
          DEF Environment, PoolGrant, PoolExpire, CreateSettles, PromptSettles,
              LateArrival, ObserveRun
<1> QED BY <1>6, <1>7 DEF Next, Tick, vars

\* The first terminal state is final: no continuation, timer, stop, extension
\* or late session event changes it.
THEOREM TerminalIsFinal == Spec => [][IsTerminal(run) => UNCHANGED run]_vars
<1>1. IInv /\ [Next]_vars => [IsTerminal(run) => UNCHANGED run]_vars
  BY TerminalStays
<1> QED BY <1>1, IInvAlways, PTL DEF Spec

-------------------------------------------------------------------------------
(* What a run holds.  The slot is held exactly between the two awaits that *)
(* use it, and only a run that asked for a session has held one; the        *)
(* watchdog is on only while run() is under way, and the session file is    *)
(* marked as long as the session is.                                        *)

HeldInv ==
  /\ pc = "idle" => session = "none" /\ ticket = "none"
  /\ pc = "acquire" => session = "none" /\ ticket \in {"none", "waiting", "granted"}
  /\ pc \in {"create", "bind", "prompt"} => session # "none" /\ ticket = "held"
  /\ pc = "done" =>
       ticket \in (IF session # "none" THEN {"released"} ELSE {"none", "waiting", "granted"})
  /\ pc = "reaped" =>
       ticket \in (IF session # "none" THEN {"released"} ELSE {"none", "granted"})
  /\ pc \in {"idle", "acquire", "create", "bind", "done", "reaped"} => ~watch
  /\ session = "live" => fileLive

LEMMA HeldStep == TypeOK /\ HeldInv /\ [Next]_vars => HeldInv'
<1> SUFFICES ASSUME TypeOK, HeldInv, [Next]_vars PROVE HeldInv'
  OBVIOUS
<1> USE DEF HeldInv
<1>1. CASE AcquireContinue
  <2>1. CASE guard = "ok"
    BY <1>1, <2>1 DEF AcquireContinue, Await
  <2>2. CASE guard # "ok"
    BY <1>1, <2>2 DEF AcquireContinue, Return
  <2> QED BY <2>1, <2>2
<1>2. CASE CreateContinue
  <2>1. CASE guard = "ok"
    BY <1>2, <2>1 DEF CreateContinue, Await
  <2>2. CASE guard # "ok"
    BY <1>2, <2>2 DEF CreateContinue, Return, ReleaseTicket
  <2> QED BY <2>1, <2>2
<1>3. CASE BindContinue
  <2>1. CASE pc' = "prompt"
    BY <1>3, <2>1, BindPrompts
  <2>2. CASE pc' # "prompt"
    BY <1>3, <2>2, BindFails DEF ReleaseTicket, Return
  <2> QED BY <2>1, <2>2
<1>4. CASE PromptContinue
  BY <1>4 DEF PromptContinue, Return, ReleaseTicket
<1>5. CASE PromptTimer
  BY <1>5 DEF PromptTimer
<1>6. CASE Reap \/ \E end \in {"disposed", "threw", "unkillable"} : Dispose(end)
  BY <1>6 DEF Reap, Dispose
<1>7. CASE \E cap \in Caps, aborted \in BOOLEAN : Start(cap, aborted)
  BY <1>7 DEF Start
<1>8. CASE \E timer \in Timer : WatchdogTick(timer)
  BY <1>8 DEF WatchdogTick
<1>9. CASE ParentSignal \/ AbortRun \/ BudgetExceeded
  <2>1. ASSUME NEW reason, NEW cause, Cancel(reason, cause) PROVE HeldInv'
    BY <2>1 DEF Cancel, Registered, Waiting
  <2> QED BY <1>9, <2>1 DEF ParentSignal, AbortRun, BudgetExceeded
<1>10. CASE \E ms \in ExtendBy : ExtendDeadline(ms)
  BY <1>10 DEF ExtendDeadline
<1>11. CASE \E e \in SessionEvents : Report(e)
  BY <1>11 DEF Report
<1>12. CASE ObserveRun \/ GuardSeesTicket \/ GuardTimeout \/ Tick
  BY <1>12 DEF ObserveRun, GuardSeesTicket, GuardTimeout, Tick
<1>13. CASE PoolGrant \/ PoolExpire
  BY <1>13 DEF PoolGrant, PoolExpire, TypeOK, PC, Waiting
<1>14. CASE \/ \E ok \in BOOLEAN : CreateSettles(ok)
            \/ \E ok \in BOOLEAN : BindSettles(ok)
            \/ \E verdict \in {"ok", "turn_error", "error"} : PromptSettles(verdict)
            \/ \E end \in {"failed", "disposed", "threw", "unkillable"} : LateArrival(end)
  BY <1>14 DEF CreateSettles, BindSettles, PromptSettles, LateArrival
<1>15. CASE UNCHANGED vars
  BY <1>15 DEF vars
<1> QED BY <1>1, <1>2, <1>3, <1>4, <1>5, <1>6, <1>7, <1>8, <1>9, <1>10, <1>11,
          <1>12, <1>13, <1>14, <1>15 DEF Next, Runner, Environment

LEMMA HeldAlways == Spec => []HeldInv
<1>1. Init => HeldInv
  BY DEF Init, HeldInv
<1> QED BY <1>1, HeldStep, TypeCorrect, PTL DEF Spec

\* Once run() has returned its watchdog is off, and a run that asked for a session has
\* given its slot back.
THEOREM NothingOutlives == Spec => []NothingOutlivesRun
<1>1. HeldInv => NothingOutlivesRun
  BY DEF HeldInv, NothingOutlivesRun, Over
<1> QED BY <1>1, HeldAlways, PTL

\* The file of a session in use is marked live.
THEOREM LiveFilesMarked == Spec => []LiveFileMarked
<1>1. HeldInv => LiveFileMarked
  BY DEF HeldInv, LiveFileMarked
<1> QED BY <1>1, HeldAlways, PTL

-------------------------------------------------------------------------------
(* A stop wakes the runner.  The cancel handle is the go-between: an ending  *)
(* run has been cancelled, and a cancelled run's promise has a verdict.      *)

Ending(s) == s.status \in {"stopping"} \cup Terminal

WakeInv ==
  /\ pc \in Waiting /\ cancel # "none" => guard # "pending"
  /\ pc \in Waiting /\ Ending(run) => cancel # "none"

\* The inputs that do not end a run.
LEMMA PhaseEnteredGoesOn ==
  ASSUME NEW s \in RunType, NEW phase, NEW at, Ending(PhaseEntered(s, phase, at))
  PROVE  Ending(s)
BY DEF PhaseEntered, Enter, Rearm, RunType, Ending, IsTerminal

LEMMA SlotAcquiredGoesOn ==
  ASSUME NEW s \in RunType, NEW at, Ending(SlotAcquired(s, at))
  PROVE  Ending(s)
BY DEF SlotAcquired, Enter, Rearm, RunType, Ending, Terminal

LEMMA DeadlineExtendedGoesOn ==
  ASSUME NEW s \in RunType, NEW ms, NEW at, Ending(DeadlineExtended(s, ms, at))
  PROVE  Ending(s)
<1> DEFINE next == Lower(Higher(at, s.deadline) + GrantCap(ms), s.hard)
           t == [s EXCEPT !.deadline = next, !.grace = Undef, !.extensions = @ + 1]
<1>1. DeadlineExtended(s, ms, at) \in {s, Rearm(t)}
  BY DEF DeadlineExtended
<1>2. Rearm(t).status = s.status
  BY DEF Rearm, RunType
<1> QED BY <1>1, <1>2 DEF Ending

LEMMA SessionEventGoesOn ==
  ASSUME NEW s \in RunType, NEW e, NEW at, Ending(SessionEvent(s, e, at))
  PROVE  Ending(s)
<1> DEFINE seen == [s EXCEPT !.lastEvent = at, !.trail = Trail(s, e)]
<1>1. seen.status = s.status
  BY DEF RunType
<1>2. \A phase : Enter(seen, "running", phase, at).status = "running"
  BY DEF Enter, Rearm, RunType
<1>3. ToolStarted(seen, e.id, at).status \in {"running", s.status}
  BY DEF ToolStarted, Enter, Rearm, RunType
<1>4. ToolEnded(seen, at).status \in {"running", s.status}
  BY DEF ToolEnded, Enter, Rearm, RunType
<1>5. SessionEvent(s, e, at) \in
        {s, seen, ToolStarted(seen, e.id, at), ToolEnded(seen, at)}
          \cup {Enter(seen, "running", phase, at) :
                  phase \in {"model_turn", "retry_backoff", "compaction"}}
  <2> HIDE DEF seen
  <2> QED BY Zenon DEF SessionEvent, seen
<1>6. SessionEvent(s, e, at).status \in {"running", s.status}
  <2> HIDE DEF seen
  <2> QED BY <1>1, <1>2, <1>3, <1>4, <1>5
<1> QED BY <1>6 DEF Ending, Terminal

LEMMA FireDeadlineWakes ==
  ASSUME NEW timer, NEW reason, FireDeadline(timer, reason)
  PROVE  /\ Ending(run') => cancel' # "none"
         /\ cancel # "none" => cancel' # "none"
<1> DEFINE fired == DeadlineFired(run, timer, reason, now)
           first == (fired.status = "stopping" \/ IsTerminal(fired)) /\ cancel = "none"
<1> HIDE DEF fired
<1>1. /\ run' = IF first THEN StopRequested(fired, "timeout", now) ELSE fired
      /\ cancel' = IF first THEN "timeout" ELSE cancel
  BY DEF FireDeadline, Dispatch, fired
<1> QED BY <1>1 DEF Ending, IsTerminal

LEMMA AwaitWakes ==
  ASSUME NEW next, NEW ms, Await(next, ms)
  PROVE  cancel # "none" => guard' # "pending"
BY DEF Await

LEMMA ReturnEnds == ASSUME NEW r, Return(r) PROVE pc' = "done"
BY DEF Return

LEMMA WakeStep == IInv /\ WakeInv /\ [Next]_vars => WakeInv'
<1> SUFFICES ASSUME IInv, WakeInv, [Next]_vars PROVE WakeInv'
  OBVIOUS
<1> USE DEF WakeInv
<1>1. run \in RunType /\ TypeOK
  BY DEF IInv, TypeOK
<1>2. CASE AcquireContinue
  <2> DEFINE acquired == SlotAcquired(run, now)
             held == PhaseEntered(acquired, "session_create", now)
  <2>1. CASE guard = "ok"
    <3>1. run' = held /\ cancel' = cancel /\ pc \in Waiting
      BY <1>2, <2>1 DEF AcquireContinue, Dispatch, Waiting
    <3>2. cancel # "none" => guard' # "pending"
      BY <1>2, <2>1, AwaitWakes DEF AcquireContinue
    <3>3. acquired \in RunType
      BY <1>2, SlotAcquiredSound, SoundType DEF IInv, TypeOK, RunSound, AcquireContinue
    <3>4. Ending(run') => Ending(run)
      BY <1>1, <3>1, <3>3, PhaseEnteredGoesOn, SlotAcquiredGoesOn
    <3> QED BY <3>1, <3>2, <3>4
  <2>2. CASE guard # "ok"
    BY <1>2, <2>2, ReturnEnds DEF AcquireContinue, Waiting
  <2> QED BY <2>1, <2>2
<1>3. CASE CreateContinue
  <2>1. CASE guard = "ok"
    <3>1. /\ run' = PhaseEntered(run, "extension_bind", now)
          /\ cancel' = cancel /\ pc \in Waiting
      BY <1>3, <2>1 DEF CreateContinue, Dispatch, Waiting
    <3>2. cancel # "none" => guard' # "pending"
      BY <1>3, <2>1, AwaitWakes DEF CreateContinue
    <3> QED BY <1>1, <3>1, <3>2, PhaseEnteredGoesOn
  <2>2. CASE guard # "ok"
    BY <1>3, <2>2, ReturnEnds DEF CreateContinue, Waiting
  <2> QED BY <2>1, <2>2
<1>4. CASE BindContinue
  <2>1. CASE pc' = "prompt"
    <3>1. /\ run' = PhaseEntered(run, "prompt_dispatch", now)
          /\ cancel' = cancel /\ pc \in Waiting
      BY <1>4, <2>1, BindPrompts DEF Dispatch, Waiting
    <3>2. cancel # "none" => guard' # "pending"
      BY <1>4, <2>1, BindPrompts, AwaitWakes
    <3> QED BY <1>1, <3>1, <3>2, PhaseEnteredGoesOn
  <2>2. CASE pc' # "prompt"
    BY <1>4, <2>2, BindFails DEF Return, Waiting
  <2> QED BY <2>1, <2>2
<1>5. CASE PromptContinue
  BY <1>5, ReturnEnds DEF PromptContinue, Waiting
<1>6. CASE PromptTimer
  <2>1. CASE EffectiveDeadline(run) > now
    BY <1>6, <2>1 DEF PromptTimer
  <2>2. CASE ~(EffectiveDeadline(run) > now)
    <3>1. /\ Ending(run') => cancel' # "none"
          /\ cancel' # "none" => guard' = "cancelled"
      BY <1>6, <2>2, FireDeadlineWakes DEF PromptTimer
    <3> QED BY <3>1
  <2> QED BY <2>1, <2>2
<1>7. CASE Reap \/ \E end \in {"disposed", "threw", "unkillable"} : Dispose(end)
  BY <1>7 DEF Reap, Dispose, Waiting
<1>8. ASSUME NEW cap \in Caps, NEW aborted \in BOOLEAN, Start(cap, aborted)
      PROVE  WakeInv'
  <2> DEFINE fresh == Enqueued(now, cap)
  <2>1. CASE IsTerminal(fresh)
    BY <1>8, <2>1 DEF Start, Waiting
  <2>2. CASE ~IsTerminal(fresh)
    <3>1. fresh.status = "queued"
      BY <2>2 DEF Enqueued, Fresh, Finish, IsTerminal, Terminal
    <3>2. /\ run' = fresh
          /\ cancel' # "none" => guard' = "cancelled"
      BY <1>8, <2>2 DEF Start
    <3> QED BY <3>1, <3>2 DEF Ending, Terminal
  <2> QED BY <2>1, <2>2
<1>9. ASSUME NEW timer \in Timer, WatchdogTick(timer) PROVE WakeInv'
  <2>1. /\ Ending(run') => cancel' # "none"
        /\ cancel' # "none" => guard' = "cancelled"
    BY <1>9, FireDeadlineWakes DEF WatchdogTick
  <2> QED BY <2>1
<1>10. CASE ParentSignal \/ AbortRun \/ BudgetExceeded
  <2>1. ASSUME NEW reason \in {"stop", "external"}, NEW cause, Cancel(reason, cause)
        PROVE  WakeInv'
    BY <2>1 DEF Cancel, Settle
  <2> QED BY <1>10, <2>1 DEF ParentSignal, AbortRun, BudgetExceeded
<1>11. ASSUME NEW ms \in ExtendBy, ExtendDeadline(ms) PROVE WakeInv'
  BY <1>1, <1>11, DeadlineExtendedGoesOn DEF ExtendDeadline, Dispatch
<1>12. ASSUME NEW e \in SessionEvents, Report(e) PROVE WakeInv'
  BY <1>1, <1>12, SessionEventGoesOn DEF Report, Dispatch
<1>13. CASE \/ PoolGrant \/ PoolExpire \/ GuardSeesTicket \/ GuardTimeout
            \/ ObserveRun \/ Tick
            \/ \E ok \in BOOLEAN : CreateSettles(ok)
            \/ \E ok \in BOOLEAN : BindSettles(ok)
            \/ \E verdict \in {"ok", "turn_error", "error"} : PromptSettles(verdict)
            \/ \E end \in {"failed", "disposed", "threw", "unkillable"} : LateArrival(end)
  BY <1>13 DEF PoolGrant, PoolExpire, GuardSeesTicket, GuardTimeout, ObserveRun, Tick,
               CreateSettles, BindSettles, PromptSettles, LateArrival, Settle
<1>14. CASE UNCHANGED vars
  BY <1>14 DEF vars
<1> QED BY <1>2, <1>3, <1>4, <1>5, <1>6, <1>7, <1>8, <1>9, <1>10, <1>11,
          <1>12, <1>13, <1>14 DEF Next, Runner, Environment

\* A run that is stopping or terminal is never left waiting.
THEOREM StopReleases == Spec => []StopReleasesAwait
<1>1. Init => WakeInv
  BY DEF Init, WakeInv, Waiting
<1>2. WakeInv => StopReleasesAwait
  BY DEF WakeInv, StopReleasesAwait, Ending
<1> QED BY <1>1, <1>2, WakeStep, IInvAlways, PTL DEF Spec

-------------------------------------------------------------------------------
(* The deadline cancels only what it ends.  Such a run waits for its prompt  *)
(* or is over, and it stays in its abort grace until it is terminal.         *)

Winding(s) == IsTerminal(s) \/ (s.status = "stopping" /\ s.phase = "abort_grace")

TimeoutInv ==
  cancel = "timeout" => pc \in {"prompt", "done", "reaped"} /\ Winding(run)

LEMMA StopWinds ==
  ASSUME NEW s, Sound(s), NEW cause \in Cause, NEW at \in Nat,
         s.status = "stopping" \/ IsTerminal(s)
  PROVE  Winding(StopRequested(s, cause, at))
<1> DEFINE noted == [s EXCEPT !.cause = cause]
<1>1. s \in RunType
  BY DEF Sound
<1>2. noted.status = s.status /\ noted.phase = s.phase
  BY <1>1 DEF RunType
<1>3. CASE IsTerminal(s)
  BY <1>3 DEF StopRequested, Winding
<1>4. CASE ~IsTerminal(s) /\ s.phase = "abort_grace"
  <2>1. StopRequested(s, cause, at) = noted
    BY <1>4 DEF StopRequested
  <2> HIDE DEF noted
  <2> QED BY <1>2, <1>4, <2>1 DEF Winding
<1>5. CASE ~IsTerminal(s) /\ s.phase = "queue_wait"
  <2>1. StopRequested(s, cause, at) = Finish(noted, "aborted", at)
    BY <1>5 DEF StopRequested
  <2>2. Finish(noted, "aborted", at).status = "aborted"
    BY <1>1 DEF Finish, RunType
  <2> HIDE DEF noted
  <2> QED BY <2>1, <2>2 DEF Winding, IsTerminal, Terminal
<1>6. CASE ~IsTerminal(s) /\ s.phase \notin {"abort_grace", "queue_wait"}
  <2> DEFINE r == Enter(noted, "stopping", "abort_grace", at)
  <2>1. StopRequested(s, cause, at) = r
    BY <1>6 DEF StopRequested
  <2>2. r.status = "stopping" /\ r.phase = "abort_grace"
    BY <1>1 DEF Enter, Rearm, RunType
  <2> HIDE DEF r
  <2> QED BY <2>1, <2>2 DEF Winding
<1> QED BY <1>3, <1>4, <1>5, <1>6

LEMMA ExpiryWinds ==
  ASSUME NEW s, Sound(s), Winding(s), NEW timer, NEW reason, NEW at
  PROVE  Winding(DeadlineFired(s, timer, reason, at))
<1> DEFINE removed == [s EXCEPT !.armed = @ \ {timer}]
           named == [removed EXCEPT !.reason = IF @ = "none" THEN reason ELSE @]
           byTimeout == s.reason # "none" \/ s.cause = "timeout"
           status == IF byTimeout THEN "timed_out" ELSE "aborted"
           ignored == \/ IsTerminal(s) \/ timer \notin s.armed
                      \/ timer = "total" /\ s.grace # Undef
<1>1. s \in RunType
  BY DEF Sound
<1>2. CASE ignored
  BY <1>2 DEF DeadlineFired
<1>3. CASE ~ignored
  <2>1. s.phase = "abort_grace"
    BY <1>3 DEF Winding
  <2>2. DeadlineFired(s, timer, reason, at) = Finish(named, status, at)
    <3> HIDE DEF named
    <3> QED BY <1>3, <2>1 DEF DeadlineFired, named
  <2>3. Finish(named, status, at).status = status
    BY <1>1 DEF Finish, RunType
  <2>4. status \in Terminal
    BY DEF Terminal
  <2> HIDE DEF named, status
  <2> QED BY <2>2, <2>3, <2>4 DEF Winding, IsTerminal
<1> QED BY <1>2, <1>3

LEMMA FireDeadlineWinds ==
  ASSUME TypeOK, Sound(run), NEW timer \in Timer, NEW reason \in Reason,
         timer = "total" => run.deadline <= now, FireDeadline(timer, reason),
         cancel = "timeout" => Winding(run)
  PROVE  cancel' = "timeout" => Winding(run')
<1> DEFINE fired == DeadlineFired(run, timer, reason, now)
           first == (fired.status = "stopping" \/ IsTerminal(fired)) /\ cancel = "none"
<1>1. now \in Nat /\ "timeout" \in Cause
  BY DEF TypeOK, Cause
<1>2. Sound(fired)
  BY <1>1, DeadlineFiredSound
<1>3. cancel = "timeout" => Winding(fired)
  BY ExpiryWinds
<1> HIDE DEF fired
<1>4. /\ run' = IF first THEN StopRequested(fired, "timeout", now) ELSE fired
      /\ cancel' = IF first THEN "timeout" ELSE cancel
  BY DEF FireDeadline, Dispatch, fired
<1>5. first => Winding(StopRequested(fired, "timeout", now))
  BY <1>1, <1>2, StopWinds
<1> QED BY <1>3, <1>4, <1>5

LEMMA TimeoutStep == IInv /\ HeldInv /\ TimeoutInv /\ [Next]_vars => TimeoutInv'
<1> SUFFICES ASSUME IInv, HeldInv, TimeoutInv, [Next]_vars PROVE TimeoutInv'
  OBVIOUS
<1> USE DEF TimeoutInv
<1>1. TypeOK /\ (pc # "idle" => Sound(run)) /\ now \in Nat
  BY DEF IInv, TypeOK, RunSound
<1>2. CASE AcquireContinue \/ CreateContinue \/ BindContinue
  <2>1. cancel # "timeout" /\ cancel' = cancel
    BY <1>2 DEF AcquireContinue, CreateContinue, BindContinue, Return
  <2> QED BY <2>1
<1>3. CASE PromptContinue
  <2>1. cancel' = cancel /\ pc' = "done" /\ pc # "idle"
    BY <1>3 DEF PromptContinue, Return
  <2>2. Winding(run) => Winding(run')
    <3>1. ErrorOf(guard) \in PromptError
      BY DEF ErrorOf, PromptError
    <3>2. ASSUME Winding(run) PROVE Winding(PromptSettled(run, ErrorOf(guard), now))
      <4>1. CASE IsTerminal(run)
        BY <3>2, <4>1 DEF PromptSettled
      <4>2. CASE ~IsTerminal(run)
        <5> DEFINE t == [run EXCEPT !.reason = IF @ = "none" THEN "total" ELSE @]
        <5>1. run \in RunType /\ t \in RunType
          BY <1>1, <2>1 DEF Sound, RunType, Reason
        <5>2. \A st \in Terminal : /\ IsTerminal(Finish(t, st, now))
                                   /\ IsTerminal(Finish(run, st, now))
          BY <5>1 DEF Finish, RunType, IsTerminal
        <5>3. SettledStatus[ErrorOf(guard)] \in Terminal /\ "timed_out" \in Terminal
          BY <3>1 DEF PromptError, SettledStatus, Terminal
        <5> HIDE DEF t
        <5>4. PromptSettled(run, ErrorOf(guard), now) \in
                {run, Finish(t, "timed_out", now),
                 Finish(run, SettledStatus[ErrorOf(guard)], now)}
          BY DEF PromptSettled, t
        <5> QED BY <3>2, <5>2, <5>3, <5>4 DEF Winding
      <4> QED BY <4>1, <4>2
    <3> QED BY <1>3, <3>2 DEF PromptContinue, Return
  <2> QED BY <2>1, <2>2
<1>4. CASE PromptTimer
  <2>1. CASE EffectiveDeadline(run) > now
    BY <1>4, <2>1 DEF PromptTimer
  <2>2. CASE ~(EffectiveDeadline(run) > now)
    <3>1. FireDeadline(TotalTimer(run), "total") /\ pc = "prompt" /\ pc' = pc
      BY <1>4, <2>2 DEF PromptTimer
    <3>2. TotalTimer(run) \in Timer /\ "total" \in Reason
      BY DEF TotalTimer, Timer, Reason
    <3>3. TotalTimer(run) = "total" => run.deadline <= now
      <4>1. TotalTimer(run) = "total" => EffectiveDeadline(run) = run.deadline
        BY DEF TotalTimer, EffectiveDeadline
      <4>2. EffectiveDeadline(run) \in Nat
        BY <1>1, <3>1, SoundType, Durations, Constants
      <4> QED BY <1>1, <2>2, <4>1, <4>2
    <3> QED BY <1>1, <3>1, <3>2, <3>3, FireDeadlineWinds
  <2> QED BY <2>1, <2>2
<1>5. CASE Reap \/ \E end \in {"disposed", "threw", "unkillable"} : Dispose(end)
  BY <1>5 DEF Reap, Dispose
<1>6. CASE \E cap \in Caps, aborted \in BOOLEAN : Start(cap, aborted)
  BY <1>6 DEF Start
<1>7. ASSUME NEW timer \in Timer, WatchdogTick(timer) PROVE TimeoutInv'
  <2>1. pc \in {"prompt"} /\ pc' = pc
    BY <1>1, <1>7 DEF WatchdogTick, HeldInv, TypeOK, PC, Waiting
  <2>2. TimerReason[timer] \in Reason
    BY DEF Timer, TimerReason, Reason
  <2>3. timer = "total" => run.deadline <= now
    BY <1>7 DEF WatchdogTick, Expired, TimerDue
  <2>4. FireDeadline(timer, TimerReason[timer])
    BY <1>7 DEF WatchdogTick
  <2> QED BY <1>1, <2>1, <2>2, <2>3, <2>4, FireDeadlineWinds
<1>8. CASE ParentSignal \/ AbortRun \/ BudgetExceeded
  BY <1>8 DEF ParentSignal, AbortRun, BudgetExceeded, Cancel
<1>9. ASSUME NEW ms \in ExtendBy, ExtendDeadline(ms) PROVE TimeoutInv'
  <2>1. ~Winding(run)
    BY <1>9 DEF ExtendDeadline, Extendable, Winding, OvertimePhase, RunningPhase
  <2> QED BY <1>9, <2>1 DEF ExtendDeadline
<1>10. ASSUME NEW e \in SessionEvents, Report(e) PROVE TimeoutInv'
  <2> DEFINE seen == [run EXCEPT !.lastEvent = now, !.trail = Trail(run, e)]
  <2>1. run' = SessionEvent(run, e, now) /\ pc' = pc /\ cancel' = cancel
    BY <1>10 DEF Report, Dispatch
  <2>2. run \in RunType
    BY <1>1 DEF TypeOK
  <2>3. Winding(run) => SessionEvent(run, e, now) \in {run, seen}
    BY DEF Winding, SessionEvent
  <2>4. seen.status = run.status /\ seen.phase = run.phase
    BY <2>2 DEF RunType
  <2> QED BY <2>1, <2>3, <2>4 DEF Winding, IsTerminal
<1>11. CASE \/ PoolGrant \/ PoolExpire \/ GuardSeesTicket \/ GuardTimeout
            \/ ObserveRun \/ Tick
            \/ \E ok \in BOOLEAN : CreateSettles(ok)
            \/ \E ok \in BOOLEAN : BindSettles(ok)
            \/ \E verdict \in {"ok", "turn_error", "error"} : PromptSettles(verdict)
            \/ \E end \in {"failed", "disposed", "threw", "unkillable"} : LateArrival(end)
  BY <1>11 DEF PoolGrant, PoolExpire, GuardSeesTicket, GuardTimeout, ObserveRun, Tick,
               CreateSettles, BindSettles, PromptSettles, LateArrival
<1>12. CASE UNCHANGED vars
  BY <1>12 DEF vars
<1> QED BY <1>2, <1>3, <1>4, <1>5, <1>6, <1>7, <1>8, <1>9, <1>10, <1>11,
          <1>12 DEF Next, Runner, Environment

\* The opening of a grace window, or an expiry the reducer ignores, does not
\* cancel the run.
THEOREM TimeoutCancels == Spec => []TimeoutCancelEnds
<1>1. Init => TimeoutInv
  BY DEF Init, TimeoutInv
<1>2. TimeoutInv => TimeoutCancelEnds
  BY DEF TimeoutInv, Winding, TimeoutCancelEnds, IsTerminal
<1> QED BY <1>1, <1>2, TimeoutStep, IInvAlways, HeldAlways, PTL DEF Spec

-------------------------------------------------------------------------------
(* How a run ends, for every budget: with the verdict of the timer that    *)
(* killed it, its session sealed before, and its outcome unchanged after.  *)
(*                                                                         *)
(* KillInv and SealInv are inductive relative to the invariants above: a   *)
(* timer ends a run only while the cancel handle is free (WakeInv), and a  *)
(* run that a deadline has cancelled waits in its abort grace              *)
(* (TimeoutInv).                                                           *)

\* The mark of a kill is the cancel that goes with it, until the verdict says it.
KillInv ==
  /\ run.cause = "timeout" => cancel = "timeout"
  /\ run.reason # "none" => IsTerminal(run) \/ cancel = "timeout"
  /\ cancel = "timeout" /\ pc = "prompt" => guard = "cancelled"
  /\ IsTerminal(run) /\ run.cause = "timeout" =>
       pc # "prompt" /\ run.status = IF over THEN "failed" ELSE "timed_out"
  /\ run.status = "timed_out" => run.reason # "none"

\* A session in use is that of a run between bind and the seal.  A run that is given up
\* before has been cancelled, and does not come to use the session it waits for.
SealInv ==
  /\ session = "live" => pc \in {"bind", "prompt"} \/ (pc \in {"done", "reaped"} /\ sealed)
  /\ session = "live" /\ IsTerminal(run) => sealed
  /\ pc = "create" =>
       IF IsTerminal(run) THEN guard = "cancelled"
       ELSE run.phase \in {"session_create", "abort_grace"}
  /\ pc \in {"bind", "prompt"} /\ ~IsTerminal(run) =>
       run.phase \notin {"queue_wait", "resolve_config", "session_create"}

EndInv == IInv /\ HeldInv /\ WakeInv /\ TimeoutInv

LEMMA EndAlways == Spec => []EndInv
<1>1. Init => WakeInv
  BY DEF Init, WakeInv, Waiting
<1>2. Init => TimeoutInv
  BY DEF Init, TimeoutInv
<1>3. Spec => []WakeInv
  BY <1>1, WakeStep, IInvAlways, PTL DEF Spec
<1>4. Spec => []TimeoutInv
  BY <1>2, TimeoutStep, IInvAlways, HeldAlways, PTL DEF Spec
<1> QED BY <1>3, <1>4, IInvAlways, HeldAlways, PTL DEF EndInv

-------------------------------------------------------------------------------
(* What the reducer's branches do to a verdict. *)

LEMMA EnterShape ==
  ASSUME NEW s \in RunType, NEW status, NEW phase, NEW at
  PROVE  LET r == Enter(s, status, phase, at)
         IN  r.status = status /\ r.phase = phase /\ r.reason = s.reason /\ r.cause = s.cause
BY DEF Enter, Rearm, RunType

LEMMA FinishShape ==
  ASSUME NEW s \in RunType, NEW status, NEW at
  PROVE  LET r == Finish(s, status, at)
         IN  r.status = status /\ r.reason = s.reason /\ r.cause = s.cause
BY DEF Finish, RunType

\* An input that neither ends a run nor names a reason or a cause.
GoesOn(s, r) ==
  /\ r.reason = s.reason /\ r.cause = s.cause
  /\ IsTerminal(s) => r = s
  /\ ~IsTerminal(s) => ~IsTerminal(r)

LEMMA PhaseEnteredOn ==
  ASSUME NEW s \in RunType, NEW phase, NEW at
  PROVE  LET r == PhaseEntered(s, phase, at)
         IN  GoesOn(s, r) /\ (~IsTerminal(s) => r.phase = phase)
<1>1. CASE IsTerminal(s)
  BY <1>1 DEF PhaseEntered, GoesOn
<1>2. CASE ~IsTerminal(s) /\ s.phase = phase
  <2> DEFINE r == [s EXCEPT !.phaseAt = at]
  <2>1. r.status = s.status /\ r.phase = s.phase /\ r.reason = s.reason /\ r.cause = s.cause
    BY DEF RunType
  <2>2. PhaseEntered(s, phase, at) = r
    BY <1>2 DEF PhaseEntered
  <2> HIDE DEF r
  <2> QED BY <1>2, <2>1, <2>2 DEF GoesOn, IsTerminal
<1>3. CASE ~IsTerminal(s) /\ s.phase # phase
  <2>1. PhaseEntered(s, phase, at) = Enter(s, s.status, phase, at)
    BY <1>3 DEF PhaseEntered
  <2> QED BY <1>3, <2>1, EnterShape DEF GoesOn, IsTerminal
<1> QED BY <1>1, <1>2, <1>3

LEMMA SlotAcquiredOn ==
  ASSUME NEW s, Sound(s), NEW at
  PROVE  GoesOn(s, SlotAcquired(s, at))
<1>1. s \in RunType /\ (IsTerminal(s) => SlotAcquired(s, at) = s)
  BY DEF Sound, SlotAcquired
<1>2. CASE s.phase = "queue_wait"
  <2>1. SlotAcquired(s, at) = Enter(s, "starting", "resolve_config", at)
    BY <1>2 DEF SlotAcquired
  <2> QED BY <1>1, <2>1, EnterShape DEF GoesOn, IsTerminal, Terminal
<1>3. CASE s.phase # "queue_wait"
  BY <1>3 DEF SlotAcquired, GoesOn
<1> QED BY <1>2, <1>3

LEMMA DeadlineExtendedOn ==
  ASSUME NEW s \in RunType, NEW ms, NEW at
  PROVE  LET r == DeadlineExtended(s, ms, at)
         IN  GoesOn(s, r) /\ r.phase = s.phase
<1> DEFINE next == Lower(Higher(at, s.deadline) + GrantCap(ms), s.hard)
           t == [s EXCEPT !.deadline = next, !.grace = Undef, !.extensions = @ + 1]
<1>1. /\ DeadlineExtended(s, ms, at) \in {s, Rearm(t)}
      /\ IsTerminal(s) => DeadlineExtended(s, ms, at) = s
  BY DEF DeadlineExtended, Extendable
<1>2. /\ Rearm(t).status = s.status /\ Rearm(t).phase = s.phase
      /\ Rearm(t).reason = s.reason /\ Rearm(t).cause = s.cause
  BY DEF Rearm, RunType
<1> HIDE DEF t
<1> QED BY <1>1, <1>2 DEF GoesOn, IsTerminal

LEMMA SessionEventOn ==
  ASSUME NEW s \in RunType, NEW e, NEW at
  PROVE  LET r == SessionEvent(s, e, at)
         IN  GoesOn(s, r) /\ r.phase \in {s.phase} \cup RunningPhase
<1> DEFINE seen == [s EXCEPT !.lastEvent = at, !.trail = Trail(s, e)]
           Kept(r) == /\ r.reason = s.reason /\ r.cause = s.cause
                      /\ r.status \in {"running", s.status}
                      /\ r.phase \in {s.phase} \cup RunningPhase
<1>1. Kept(seen) /\ Kept(s)
  BY DEF RunType
<1>2. \A phase \in RunningPhase : Kept(Enter(seen, "running", phase, at))
  BY DEF Enter, Rearm, RunType
<1>3. Kept(ToolStarted(seen, e.id, at))
  BY DEF ToolStarted, Enter, Rearm, RunType, RunningPhase
<1>4. Kept(ToolEnded(seen, at))
  BY DEF ToolEnded, Enter, Rearm, RunType, RunningPhase
<1>5. /\ SessionEvent(s, e, at) \in
           {s, seen, ToolStarted(seen, e.id, at), ToolEnded(seen, at)}
             \cup {Enter(seen, "running", phase, at) :
                     phase \in {"model_turn", "retry_backoff", "compaction"}}
      /\ IsTerminal(s) => SessionEvent(s, e, at) = s
  <2> HIDE DEF seen
  <2> QED BY Zenon DEF SessionEvent, seen
<1>6. Kept(SessionEvent(s, e, at))
  <2> HIDE DEF seen, Kept
  <2> QED BY <1>1, <1>2, <1>3, <1>4, <1>5 DEF RunningPhase
<1> HIDE DEF seen
<1> QED BY <1>5, <1>6 DEF GoesOn, IsTerminal, Terminal

-------------------------------------------------------------------------------
(* Every step keeps KillInv. *)

\* An expiry, of a run that nobody has cancelled.
LEMMA FireDeadlineKills ==
  ASSUME TypeOK, Sound(run), KillInv, cancel = "none", ~Ending(run),
         NEW timer \in Timer, NEW reason \in Reason,
         timer = "total" => run.deadline <= now, FireDeadline(timer, reason)
  PROVE  /\ run'.cause = "timeout" => cancel' = "timeout"
         /\ run'.reason # "none" => IsTerminal(run') \/ cancel' = "timeout"
         /\ cancel' = "timeout" \/ cancel' = "none"
         /\ IsTerminal(run') => run'.cause # "timeout"
         /\ run'.status = "timed_out" => run'.reason # "none"
         /\ run.reason = "none"
<1> DEFINE fired == DeadlineFired(run, timer, reason, now)
           stopped == StopRequested(fired, "timeout", now)
           first == (fired.status = "stopping" \/ IsTerminal(fired)) /\ cancel = "none"
           removed == [run EXCEPT !.armed = @ \ {timer}]
           named == [removed EXCEPT !.reason = IF @ = "none" THEN reason ELSE @]
           renamed == [removed EXCEPT !.reason = reason]
           late == [removed EXCEPT !.reason = "queue_timeout"]
           killed == [removed EXCEPT !.reason = reason, !.cause = "timeout"]
           graced == [removed EXCEPT !.grace = GraceWindow(run, now), !.graces = @ + 1]
<1>1. /\ run \in RunType /\ now \in Nat /\ ~IsTerminal(run)
      /\ run.cause # "timeout" /\ run.reason = "none"
  BY DEF Sound, TypeOK, KillInv, Ending, IsTerminal
<1>2. reason # "none"
  BY DEF Reason
<1>3. Sound(fired)
  BY <1>1, DeadlineFiredSound
<1>4. /\ named.reason # "none" /\ named.cause = run.cause /\ named \in RunType
      /\ renamed.reason # "none" /\ renamed.cause = run.cause /\ renamed \in RunType
      /\ late.reason # "none" /\ late.cause = run.cause /\ late \in RunType
  BY <1>1, <1>2 DEF RunType, Reason
<1>5. /\ killed \in RunType /\ killed.cause = "timeout"
      /\ Rearm(graced).cause = run.cause /\ Rearm(graced).reason = run.reason
      /\ Rearm(graced).status = run.status /\ Rearm(graced).phase = run.phase
  BY <1>1 DEF RunType, Cause, Rearm
<1> HIDE DEF named, renamed, late, killed, graced
<1>6. \/ fired = run
      \/ \E status \in Terminal :
           fired \in {Finish(named, status, now), Finish(renamed, status, now), Finish(late, status, now)}
      \/ fired = Rearm(graced) /\ run.phase # "queue_wait"
      \/ fired = Enter(killed, "stopping", "abort_grace", now)
  BY Zenon DEF DeadlineFired, named, renamed, late, killed, graced, Terminal
<1> HIDE DEF fired
<1>7. \/ /\ fired.cause # "timeout" /\ fired.reason = "none" /\ fired.status = run.status
      \/ IsTerminal(fired) /\ fired.cause # "timeout" /\ fired.reason # "none"
      \/ fired.status = "stopping" /\ fired.phase = "abort_grace" /\ fired.cause = "timeout"
  BY <1>1, <1>4, <1>5, <1>6, FinishShape, EnterShape DEF IsTerminal
<1>8. /\ run' = IF first THEN stopped ELSE fired
      /\ cancel' = IF first THEN "timeout" ELSE cancel
  BY DEF FireDeadline, Dispatch, fired
<1>9. CASE IsTerminal(fired)
  <2>1. stopped = fired
    BY <1>9 DEF StopRequested
  <2> QED BY <1>1, <1>7, <1>8, <1>9, <2>1 DEF Ending, IsTerminal, Terminal
<1>10. CASE fired.status = "stopping" /\ fired.phase = "abort_grace" /\ ~IsTerminal(fired)
  <2>1. stopped = [fired EXCEPT !.cause = "timeout"]
    BY <1>10 DEF StopRequested
  <2>2. fired \in RunType
    BY <1>3 DEF Sound
  <2>3. stopped.status = "stopping" /\ ~IsTerminal(stopped)
    BY <1>10, <2>1, <2>2 DEF RunType, IsTerminal, Terminal
  <2> HIDE DEF stopped
  <2> QED BY <1>1, <1>8, <1>10, <2>3
<1>11. CASE fired.status = run.status /\ fired.cause # "timeout" /\ fired.reason = "none"
  <2>1. fired.status # "stopping" /\ ~IsTerminal(fired)
    BY <1>11 DEF Ending, IsTerminal
  <2> QED BY <1>1, <1>8, <1>11, <2>1 DEF IsTerminal, Terminal
<1> QED BY <1>7, <1>9, <1>10, <1>11

\* What wakes the runner when a timer has fired.
LEMMA FiresInPrompt ==
  ASSUME EndInv, KillInv, NEW timer \in Timer, NEW reason \in Reason,
         timer = "total" => run.deadline <= now, FireDeadline(timer, reason),
         pc = "prompt", pc' = "prompt", guard = "pending",
         cancel' # "none" => guard' = "cancelled"
  PROVE  KillInv'
<1>1. TypeOK /\ Sound(run)
  BY DEF EndInv, IInv, TypeOK, RunSound
<1>2. cancel = "none" /\ ~Ending(run)
  BY DEF EndInv, WakeInv, Waiting
<1>3. /\ run'.cause = "timeout" => cancel' = "timeout"
      /\ run'.reason # "none" => IsTerminal(run') \/ cancel' = "timeout"
      /\ IsTerminal(run') => run'.cause # "timeout"
      /\ run'.status = "timed_out" => run'.reason # "none"
  BY <1>1, <1>2, FireDeadlineKills
<1> QED BY <1>3 DEF KillInv

\* Steps that leave the verdict and the cancel alone.
LEMMA GoesOnKills ==
  ASSUME KillInv, GoesOn(run, run'), cancel' = cancel, over' = over,
         pc' = pc \/ cancel # "timeout",
         cancel' = "timeout" /\ pc' = "prompt" => guard' = "cancelled"
  PROVE  KillInv'
BY DEF KillInv, GoesOn, IsTerminal, Terminal

LEMMA KillStep == EndInv /\ KillInv /\ [Next]_vars => KillInv'
<1> SUFFICES ASSUME EndInv, KillInv, [Next]_vars PROVE KillInv'
  OBVIOUS
<1>1. /\ TypeOK /\ (pc # "idle" => Sound(run)) /\ now \in Nat /\ run \in RunType
      /\ TimeoutInv /\ WakeInv /\ HeldInv
  BY DEF EndInv, IInv, TypeOK, RunSound
<1>2. ASSUME NEW r, run' = r, pc \in {"acquire", "create", "bind"}, pc' # "prompt", cancel' = cancel,
             \/ r = run
             \/ r.status # "timed_out" /\ r.cause = run.cause /\ IsTerminal(r)
             \/ r.status = "timed_out" /\ r.cause = run.cause /\ r.reason # "none"
      PROVE  KillInv'
  <2>1. cancel # "timeout"
    BY <1>1, <1>2 DEF TimeoutInv
  <2> QED BY <1>2, <2>1 DEF KillInv, IsTerminal, Terminal
<1>3. ASSUME NEW phase, NEW kind, run' = StartupFailed(run, phase, kind, now), phase \in Reason,
             pc \in {"create", "bind"}, pc' # "prompt", cancel' = cancel
      PROVE  KillInv'
  <2> DEFINE t == [run EXCEPT !.reason = phase]
  <2>1. t \in RunType /\ t.reason = phase /\ t.cause = run.cause
    BY <1>1, <1>3 DEF RunType
  <2>2. StartupFailed(run, phase, kind, now) \in
          {run, Finish(t, "timed_out", now), Finish(run, "failed", now)}
    BY DEF StartupFailed, t
  <2> HIDE DEF t
  <2>3. \/ run' = run
        \/ run'.status # "timed_out" /\ run'.cause = run.cause /\ IsTerminal(run')
        \/ run'.status = "timed_out" /\ run'.cause = run.cause /\ run'.reason # "none"
    BY <1>1, <1>3, <2>1, <2>2, FinishShape DEF IsTerminal, Terminal, Reason
  <2> QED BY <1>2, <1>3, <2>3
<1>4. CASE AcquireContinue
  <2> DEFINE acquired == SlotAcquired(run, now)
             why == IF guard \in {"timeout", "expired"} THEN "queue_timeout" ELSE "aborted"
  <2>1. pc = "acquire" /\ cancel # "timeout" /\ Sound(run)
    BY <1>1, <1>4 DEF AcquireContinue, TimeoutInv
  <2>2. CASE guard = "ok"
    <3>1. /\ run' = PhaseEntered(acquired, "session_create", now)
          /\ cancel' = cancel /\ over' = over
      BY <1>4, <2>2 DEF AcquireContinue, Dispatch
    <3>2. GoesOn(run, acquired) /\ acquired \in RunType
      BY <1>1, <2>1, SlotAcquiredOn, SlotAcquiredSound, SoundType
    <3> HIDE DEF acquired
    <3>3. GoesOn(acquired, run')
      BY <3>1, <3>2, PhaseEnteredOn
    <3>4. GoesOn(run, run')
      BY <3>2, <3>3 DEF GoesOn
    <3> QED BY <2>1, <3>1, <3>4, GoesOnKills
  <2>3. CASE guard # "ok"
    <3> DEFINE t == [run EXCEPT !.reason = "queue_timeout"]
    <3>1. run' = SlotDenied(run, why, now) /\ cancel' = cancel /\ pc' = "done"
      BY <1>4, <2>3 DEF AcquireContinue, Return
    <3>2. t \in RunType /\ t.cause = run.cause
      BY <1>1 DEF RunType, Reason
    <3>3. run' \in {run, Finish(run, "aborted", now), Finish(t, "failed", now)}
      BY <3>1 DEF SlotDenied
    <3> HIDE DEF t, why
    <3>4. run' = run \/ (run'.status # "timed_out" /\ run'.cause = run.cause /\ IsTerminal(run'))
      BY <1>1, <3>2, <3>3, FinishShape DEF IsTerminal, Terminal
    <3> QED BY <1>2, <2>1, <3>1, <3>4
  <2> QED BY <2>2, <2>3
<1>5. CASE CreateContinue
  <2> DEFINE kind == IF guard = "error" THEN "failure" ELSE "timeout"
  <2>1. pc = "create" /\ cancel # "timeout"
    BY <1>1, <1>5 DEF CreateContinue, TimeoutInv
  <2>2. CASE guard = "ok"
    <3>1. /\ run' = PhaseEntered(run, "extension_bind", now)
          /\ cancel' = cancel /\ over' = over
      BY <1>5, <2>2 DEF CreateContinue, Dispatch
    <3> QED BY <1>1, <2>1, <3>1, PhaseEnteredOn, GoesOnKills
  <2>3. CASE guard # "ok"
    <3>1. run' = StartupFailed(run, "session_create", kind, now) /\ cancel' = cancel /\ pc' = "done"
      BY <1>5, <2>3 DEF CreateContinue, Return
    <3> QED BY <1>3, <2>1, <3>1 DEF Reason
  <2> QED BY <2>2, <2>3
<1>6. CASE BindContinue
  <2>1. pc = "bind" /\ cancel # "timeout"
    BY <1>1, <1>6 DEF BindContinue, TimeoutInv
  <2>2. CASE pc' = "prompt"
    <3>1. /\ run' = PhaseEntered(run, "prompt_dispatch", now)
          /\ cancel' = cancel /\ over' = over
      BY <1>6, <2>2, BindPrompts DEF Dispatch
    <3> QED BY <1>1, <2>1, <3>1, PhaseEnteredOn, GoesOnKills
  <2>3. CASE pc' # "prompt"
    <3>1. \E kind \in {"failure", "timeout"} :
            run' = StartupFailed(run, "extension_bind", kind, now) /\ cancel' = cancel
      BY <1>6, <2>3, BindFails DEF Return
    <3> QED BY <1>3, <2>1, <2>3, <3>1 DEF Reason
  <2> QED BY <2>2, <2>3
<1>7. CASE PromptContinue
  <2> DEFINE error == ErrorOf(guard)
             t == [run EXCEPT !.reason = IF @ = "none" THEN "total" ELSE @]
  <2>1. /\ run' = PromptSettled(run, error, now) /\ cancel' = cancel
        /\ pc = "prompt" /\ pc' = "done" /\ over' = over
    BY <1>7 DEF PromptContinue, Return
  <2>2. run.cause = "timeout" => error = IF over THEN "failure" ELSE "timeout"
    BY <1>7, <2>1 DEF KillInv, ErrorOf
  <2>3. t \in RunType /\ t.reason # "none" /\ t.cause = run.cause
    BY <1>1 DEF RunType, Reason
  <2>4. error \in PromptError
    BY DEF ErrorOf, PromptError
  <2> HIDE DEF error
  <2>5. \/ run' = run
        \/ error = "timeout" /\ run' = Finish(t, "timed_out", now)
        \/ error # "timeout" /\ run' = Finish(run, SettledStatus[error], now)
    BY <2>1 DEF PromptSettled
  <2>6. error # "timeout" => SettledStatus[error] \in {"completed", "aborted", "failed"}
    BY <2>4 DEF PromptError, SettledStatus
  <2>10. over => error # "timeout" /\ SettledStatus[error] = "failed"
    BY DEF error, ErrorOf, SettledStatus
  <2> HIDE DEF t
  <2>7. CASE run' = run
    BY <2>1, <2>7 DEF KillInv
  <2>8. CASE error = "timeout" /\ run' = Finish(t, "timed_out", now)
    <3>1. run'.status = "timed_out" /\ run'.reason # "none" /\ run'.cause = run.cause
      BY <2>3, <2>8, FinishShape
    <3> QED BY <2>1, <2>8, <2>10, <3>1 DEF KillInv, IsTerminal, Terminal
  <2>9. CASE error # "timeout" /\ run' = Finish(run, SettledStatus[error], now)
    <3>1. run'.status \in {"completed", "aborted", "failed"} /\ run'.cause = run.cause
      BY <1>1, <2>6, <2>9, FinishShape
    <3>2. over => run'.status = "failed"
      BY <1>1, <2>9, <2>10, FinishShape
    <3> QED BY <2>1, <2>2, <2>9, <3>1, <3>2 DEF KillInv, IsTerminal, Terminal
  <2> QED BY <2>5, <2>7, <2>8, <2>9
<1>8. CASE PromptTimer
  <2>1. CASE EffectiveDeadline(run) > now
    BY <1>8, <2>1 DEF PromptTimer, KillInv
  <2>2. CASE ~(EffectiveDeadline(run) > now)
    <3>1. /\ FireDeadline(TotalTimer(run), "total") /\ pc = "prompt" /\ pc' = pc
          /\ guard = "pending" /\ (cancel' # "none" => guard' = "cancelled")
      BY <1>8, <2>2 DEF PromptTimer
    <3>2. TotalTimer(run) \in Timer /\ "total" \in Reason
      BY DEF TotalTimer, Timer, Reason
    <3>3. TotalTimer(run) = "total" => run.deadline <= now
      <4>1. TotalTimer(run) = "total" => EffectiveDeadline(run) = run.deadline
        BY DEF TotalTimer, EffectiveDeadline
      <4>2. EffectiveDeadline(run) \in Nat
        BY <1>1, Durations, Constants
      <4> QED BY <1>1, <2>2, <4>1, <4>2
    <3> QED BY <3>1, <3>2, <3>3, FiresInPrompt
  <2> QED BY <2>1, <2>2
<1>9. ASSUME NEW timer \in Timer, WatchdogTick(timer) PROVE KillInv'
  <2>1. pc = "prompt" /\ pc' = pc /\ guard = "pending"
    BY <1>1, <1>9 DEF WatchdogTick, HeldInv, TypeOK, PC, Waiting, MicrotaskQueued
  <2>2. TimerReason[timer] \in Reason
    BY DEF Timer, TimerReason, Reason
  <2>3. timer = "total" => run.deadline <= now
    BY <1>9 DEF WatchdogTick, Expired, TimerDue
  <2>4. FireDeadline(timer, TimerReason[timer]) /\ (cancel' # "none" => guard' = "cancelled")
    BY <1>9 DEF WatchdogTick
  <2> QED BY <2>1, <2>2, <2>3, <2>4, FiresInPrompt
<1>10. ASSUME NEW reason \in {"stop", "external"}, NEW cause \in {"user_stop", "parent_abort"},
              Cancel(reason, cause)
       PROVE  KillInv'
  <2> DEFINE noted == [run EXCEPT !.cause = cause]
  <2>1. run' = StopRequested(run, cause, now) /\ cancel = "none" /\ cancel' = reason
    BY <1>10 DEF Cancel, Dispatch
  <2>2. noted \in RunType /\ noted.cause = cause /\ noted.reason = run.reason /\ noted.status = run.status
    BY <1>1 DEF RunType, Cause
  <2>3. run.cause # "timeout" /\ (run.reason # "none" => IsTerminal(run))
    BY <2>1 DEF KillInv
  <2>4. \/ run' = run
        \/ ~IsTerminal(run) /\ run' = noted
        \/ ~IsTerminal(run) /\ run' = Finish(noted, "aborted", now)
        \/ ~IsTerminal(run) /\ run' = Enter(noted, "stopping", "abort_grace", now)
    BY <2>1 DEF StopRequested
  <2> HIDE DEF noted
  <2>5. \/ run' = run
        \/ ~IsTerminal(run) /\ run'.status # "timed_out" /\ run'.cause = cause /\ run'.reason = "none"
    BY <2>2, <2>3, <2>4, FinishShape, EnterShape DEF IsTerminal, Terminal
  <2> QED BY <2>1, <2>3, <2>5 DEF KillInv
<1>11. CASE AbortRun \/ ParentSignal \/ BudgetExceeded
  <2>1. CASE cancel = "none" \/ ~BudgetExceeded
    BY <1>10, <1>11, <2>1 DEF AbortRun, ParentSignal, BudgetExceeded
  <2>2. CASE cancel # "none" /\ BudgetExceeded
    BY <2>2 DEF BudgetExceeded, KillInv
  <2> QED BY <2>1, <2>2
<1>12. ASSUME NEW ms \in ExtendBy, ExtendDeadline(ms) PROVE KillInv'
  <2>1. run' = DeadlineExtended(run, ms, now) /\ UNCHANGED <<cancel, pc, guard, over>>
    BY <1>12 DEF ExtendDeadline, Dispatch
  <2> QED BY <1>1, <2>1, DeadlineExtendedOn, GoesOnKills DEF KillInv
<1>13. ASSUME NEW e \in SessionEvents, Report(e) PROVE KillInv'
  <2>1. run' = SessionEvent(run, e, now) /\ UNCHANGED <<cancel, pc, guard, over>>
    BY <1>13 DEF Report, Dispatch
  <2> QED BY <1>1, <2>1, SessionEventOn, GoesOnKills DEF KillInv
<1>14. ASSUME NEW cap \in Caps, NEW aborted \in BOOLEAN, Start(cap, aborted) PROVE KillInv'
  <2>1. run' = Enqueued(now, cap) /\ pc' # "prompt"
    BY <1>14 DEF Start
  <2>2. /\ Enqueued(now, cap).cause = "none" /\ Enqueued(now, cap).reason = "none"
        /\ Enqueued(now, cap).status \in {"queued", "failed"}
    BY DEF Enqueued, Fresh, Finish
  <2> QED BY <2>1, <2>2 DEF KillInv
<1>15. CASE Reap \/ \E end \in {"disposed", "threw", "unkillable"} : Dispose(end)
  BY <1>15 DEF Reap, Dispose, KillInv
<1>16. CASE \/ PoolGrant \/ PoolExpire \/ GuardSeesTicket \/ GuardTimeout \/ ObserveRun \/ Tick
            \/ \E ok \in BOOLEAN : CreateSettles(ok)
            \/ \E ok \in BOOLEAN : BindSettles(ok)
            \/ \E verdict \in {"ok", "turn_error", "error"} : PromptSettles(verdict)
            \/ \E end \in {"failed", "disposed", "threw", "unkillable"} : LateArrival(end)
  BY <1>1, <1>16 DEF PoolGrant, PoolExpire, GuardSeesTicket, GuardTimeout, ObserveRun, Tick,
               CreateSettles, BindSettles, PromptSettles, LateArrival, Settle, KillInv
<1>17. CASE UNCHANGED vars
  BY <1>17 DEF vars, KillInv
<1> QED BY <1>4, <1>5, <1>6, <1>7, <1>8, <1>9, <1>11, <1>12, <1>13, <1>14, <1>15, <1>16, <1>17
        DEF Next, Runner, Environment

LEMMA KillAlways == Spec => []KillInv
<1>1. Init => KillInv
  BY DEF Init, KillInv, Fresh
<1> QED BY <1>1, KillStep, EndAlways, PTL DEF Spec

-------------------------------------------------------------------------------
(* Every step keeps SealInv. *)

\* A timer ends a run with a session only in its abort grace or in bind, and seals it first.
LEMMA FireDeadlineSeals ==
  ASSUME TypeOK, Sound(run), NEW timer \in Timer, NEW reason \in Reason,
         timer = "total" => run.deadline <= now, FireDeadline(timer, reason),
         ~IsTerminal(run), run.phase \notin {"queue_wait", "resolve_config", "session_create"}
  PROVE  /\ IsTerminal(run') => sealed'
         /\ ~IsTerminal(run') => run'.phase \notin {"queue_wait", "resolve_config", "session_create"}
         /\ sealed => sealed'
<1> DEFINE fired == DeadlineFired(run, timer, reason, now)
           stopped == StopRequested(fired, "timeout", now)
           Early == {"queue_wait", "resolve_config", "session_create"}
           removed == [run EXCEPT !.armed = @ \ {timer}]
           killed == [removed EXCEPT !.reason = reason, !.cause = "timeout"]
           graced == [removed EXCEPT !.grace = GraceWindow(run, now), !.graces = @ + 1]
<1>1. run \in RunType /\ now \in Nat
  BY DEF Sound, TypeOK
<1>2. Sound(fired)
  BY <1>1, DeadlineFiredSound
<1>3. /\ killed \in RunType
      /\ Rearm(graced).status = run.status /\ Rearm(graced).phase = run.phase
  BY <1>1 DEF RunType, Cause, Rearm
<1> HIDE DEF killed, graced
<1>4. \/ fired = run
      \/ run.phase \in {"abort_grace", "extension_bind"}
      \/ fired = Rearm(graced)
      \/ fired = Enter(killed, "stopping", "abort_grace", now)
  BY Zenon DEF DeadlineFired, killed, graced
<1>5. run.phase \notin {"abort_grace", "extension_bind"} => ~IsTerminal(fired) /\ fired.phase \notin Early
  BY <1>1, <1>3, <1>4, EnterShape DEF IsTerminal, Terminal
<1>6. run.phase \in {"abort_grace", "extension_bind"} => IsTerminal(fired) \/ fired = run
  <2> DEFINE named == [removed EXCEPT !.reason = IF @ = "none" THEN reason ELSE @]
             renamed == [removed EXCEPT !.reason = reason]
  <2>1. named \in RunType /\ renamed \in RunType
    BY <1>1 DEF RunType
  <2> HIDE DEF named, renamed
  <2>2. run.phase \in {"abort_grace", "extension_bind"} =>
          fired = run \/ \E status \in {"timed_out", "aborted"} :
            fired \in {Finish(named, status, now), Finish(renamed, status, now)}
    BY Zenon DEF DeadlineFired, named, renamed
  <2> HIDE DEF fired
  <2> QED BY <2>1, <2>2, FinishShape DEF IsTerminal, Terminal
<1> HIDE DEF fired
<1>7. run' \in {fired, stopped} /\ sealed' = (sealed \/ run.phase \in {"abort_grace", "extension_bind"})
  BY DEF FireDeadline, Dispatch, fired
<1>8. ~IsTerminal(fired) /\ fired.phase \notin Early => ~IsTerminal(stopped) /\ stopped.phase \notin Early
  <2> DEFINE noted == [fired EXCEPT !.cause = "timeout"]
  <2>1. noted \in RunType /\ noted.status = fired.status /\ noted.phase = fired.phase
    BY <1>2 DEF Sound, RunType, Cause
  <2>2. ~IsTerminal(fired) /\ fired.phase \notin Early =>
          stopped \in {noted, Enter(noted, "stopping", "abort_grace", now)}
    BY DEF StopRequested
  <2> HIDE DEF noted, stopped
  <2> QED BY <2>1, <2>2, EnterShape DEF IsTerminal, Terminal
<1>9. IsTerminal(fired) => stopped = fired
  BY DEF StopRequested
<1>10. fired = run => fired.phase \notin Early /\ ~IsTerminal(fired)
  BY DEF fired
<1> HIDE DEF stopped
<1>11. CASE run.phase \in {"abort_grace", "extension_bind"}
  BY <1>6, <1>7, <1>8, <1>9, <1>10, <1>11
<1>12. CASE run.phase \notin {"abort_grace", "extension_bind"}
  BY <1>5, <1>7, <1>8, <1>12
<1> QED BY <1>11, <1>12

LEMMA FiresSealed ==
  ASSUME EndInv, SealInv, NEW timer \in Timer, NEW reason \in Reason,
         timer = "total" => run.deadline <= now, FireDeadline(timer, reason),
         pc = "prompt", pc' = "prompt", session' = session, guard = "pending"
  PROVE  SealInv'
<1>1. TypeOK /\ Sound(run)
  BY DEF EndInv, IInv, TypeOK, RunSound
<1>2. ~IsTerminal(run)
  BY DEF EndInv, WakeInv, Waiting, Ending, IsTerminal
<1>3. run.phase \notin {"queue_wait", "resolve_config", "session_create"}
  BY <1>2 DEF SealInv
<1>4. /\ IsTerminal(run') => sealed'
      /\ ~IsTerminal(run') => run'.phase \notin {"queue_wait", "resolve_config", "session_create"}
  BY <1>1, <1>2, <1>3, FireDeadlineSeals
<1> QED BY <1>4 DEF SealInv

LEMMA SealStep == EndInv /\ SealInv /\ [Next]_vars => SealInv'
<1> SUFFICES ASSUME EndInv, SealInv, [Next]_vars PROVE SealInv'
  OBVIOUS
<1>1. /\ TypeOK /\ (pc # "idle" => Sound(run)) /\ now \in Nat /\ run \in RunType
      /\ WakeInv /\ HeldInv
  BY DEF EndInv, IInv, TypeOK, RunSound
<1>2. CASE AcquireContinue
  <2> DEFINE acquired == SlotAcquired(run, now)
  <2>1. pc = "acquire" /\ Sound(run) /\ session # "live"
    BY <1>1, <1>2 DEF AcquireContinue, SealInv
  <2>2. CASE guard = "ok"
    <3>1. /\ run' = PhaseEntered(acquired, "session_create", now)
          /\ pc' = "create" /\ session' = "creating"
          /\ cancel # "none" => guard' = "cancelled"
      BY <1>2, <2>2 DEF AcquireContinue, Dispatch, Await
    <3>2. GoesOn(run, acquired) /\ acquired \in RunType
      BY <2>1, <1>1, SlotAcquiredOn, SlotAcquiredSound, SoundType
    <3> HIDE DEF acquired
    <3>3. GoesOn(acquired, run') /\ (~IsTerminal(acquired) => run'.phase = "session_create")
      BY <3>1, <3>2, PhaseEnteredOn
    <3>4. IsTerminal(run') => IsTerminal(run)
      BY <3>2, <3>3 DEF GoesOn
    <3>5. IsTerminal(run) => cancel # "none"
      BY <1>1, <2>1 DEF WakeInv, Waiting, Ending, IsTerminal
    <3> QED BY <3>1, <3>3, <3>4, <3>5 DEF SealInv, GoesOn
  <2>3. CASE guard # "ok"
    <3>1. pc' = "done" /\ session' = session
      BY <1>2, <2>3 DEF AcquireContinue, Return
    <3> QED BY <2>1, <3>1 DEF SealInv
  <2> QED BY <2>2, <2>3
<1>3. CASE CreateContinue
  <2>1. pc = "create"
    BY <1>3 DEF CreateContinue
  <2>2. CASE guard = "ok"
    <3>1. run' = PhaseEntered(run, "extension_bind", now) /\ pc' = "bind"
      BY <1>3, <2>2 DEF CreateContinue, Dispatch, Await
    <3>2. ~IsTerminal(run)
      BY <2>1, <2>2 DEF SealInv
    <3>3. ~IsTerminal(run') /\ run'.phase = "extension_bind"
      BY <1>1, <3>1, <3>2, PhaseEnteredOn DEF GoesOn
    <3> QED BY <3>1, <3>3 DEF SealInv
  <2>3. CASE guard # "ok"
    <3>1. pc' = "done" /\ session' # "live"
      BY <1>3, <2>3 DEF CreateContinue, Return
    <3> QED BY <3>1 DEF SealInv
  <2> QED BY <2>2, <2>3
<1>4. CASE BindContinue
  <2>1. pc = "bind" /\ session' = session
    BY <1>4 DEF BindContinue
  <2>2. CASE pc' = "prompt"
    <3>1. run' = PhaseEntered(run, "prompt_dispatch", now) /\ sealed' = sealed
      BY <1>4, <2>2, BindPrompts DEF Dispatch
    <3>2. GoesOn(run, run') /\ (~IsTerminal(run) => run'.phase = "prompt_dispatch")
      BY <1>1, <3>1, PhaseEnteredOn
    <3> QED BY <2>1, <2>2, <3>1, <3>2 DEF SealInv, GoesOn
  <2>3. CASE pc' # "prompt"
    <3>1. pc' = "done" /\ sealed'
      BY <1>4, <2>3, BindFails DEF Return
    <3> QED BY <3>1 DEF SealInv
  <2> QED BY <2>2, <2>3
<1>5. CASE PromptContinue
  <2>1. pc' = "done" /\ sealed'
    BY <1>5 DEF PromptContinue, Return
  <2> QED BY <2>1 DEF SealInv
<1>6. CASE PromptTimer
  <2>1. CASE EffectiveDeadline(run) > now
    BY <1>6, <2>1 DEF PromptTimer, SealInv
  <2>2. CASE ~(EffectiveDeadline(run) > now)
    <3>1. /\ FireDeadline(TotalTimer(run), "total") /\ pc = "prompt" /\ pc' = pc
          /\ guard = "pending" /\ session' = session
      BY <1>6, <2>2 DEF PromptTimer
    <3>2. TotalTimer(run) \in Timer /\ "total" \in Reason
      BY DEF TotalTimer, Timer, Reason
    <3>3. TotalTimer(run) = "total" => run.deadline <= now
      <4>1. TotalTimer(run) = "total" => EffectiveDeadline(run) = run.deadline
        BY DEF TotalTimer, EffectiveDeadline
      <4>2. EffectiveDeadline(run) \in Nat
        BY <1>1, Durations, Constants
      <4> QED BY <1>1, <2>2, <4>1, <4>2
    <3> QED BY <3>1, <3>2, <3>3, FiresSealed
  <2> QED BY <2>1, <2>2
<1>7. ASSUME NEW timer \in Timer, WatchdogTick(timer) PROVE SealInv'
  <2>1. pc = "prompt" /\ pc' = pc /\ guard = "pending" /\ session' = session
    BY <1>1, <1>7 DEF WatchdogTick, HeldInv, TypeOK, PC, Waiting, MicrotaskQueued
  <2>2. TimerReason[timer] \in Reason
    BY DEF Timer, TimerReason, Reason
  <2>3. timer = "total" => run.deadline <= now
    BY <1>7 DEF WatchdogTick, Expired, TimerDue
  <2>4. FireDeadline(timer, TimerReason[timer])
    BY <1>7 DEF WatchdogTick
  <2> QED BY <2>1, <2>2, <2>3, <2>4, FiresSealed
<1>8. ASSUME NEW reason, NEW cause \in {"user_stop", "parent_abort"}, Cancel(reason, cause)
      PROVE  SealInv'
  <2> DEFINE noted == [run EXCEPT !.cause = cause]
  <2>1. /\ run' = StopRequested(run, cause, now) /\ pc \in Waiting /\ cancel = "none"
        /\ UNCHANGED <<pc, session, sealed>>
    BY <1>8 DEF Cancel, Dispatch, Registered
  <2>2. ~IsTerminal(run)
    BY <1>1, <2>1 DEF WakeInv, Ending, IsTerminal
  <2>3. noted \in RunType /\ noted.status = run.status /\ noted.phase = run.phase
    BY <1>1 DEF RunType, Cause
  <2>4. run.phase # "queue_wait" =>
          \/ run' = noted /\ run.phase = "abort_grace"
          \/ run' = Enter(noted, "stopping", "abort_grace", now)
    BY <2>1, <2>2 DEF StopRequested
  <2> HIDE DEF noted
  <2>5. run.phase # "queue_wait" => ~IsTerminal(run') /\ run'.phase = "abort_grace"
    BY <2>2, <2>3, <2>4, EnterShape DEF IsTerminal, Terminal
  <2>6. pc \in {"create", "bind", "prompt"} => run.phase # "queue_wait"
    BY <2>2 DEF SealInv
  <2>7. CASE pc = "acquire"
    BY <2>1, <2>7 DEF SealInv
  <2>8. CASE pc \in {"create", "bind", "prompt"}
    <3>1. ~IsTerminal(run') /\ run'.phase = "abort_grace"
      BY <2>5, <2>6, <2>8
    <3> QED BY <2>1, <2>8, <3>1 DEF SealInv
  <2> QED BY <2>1, <2>7, <2>8 DEF Waiting
<1>9. CASE AbortRun \/ ParentSignal \/ BudgetExceeded
  BY <1>8, <1>9 DEF AbortRun, ParentSignal, BudgetExceeded, SealInv
<1>10. ASSUME NEW ms \in ExtendBy, ExtendDeadline(ms) PROVE SealInv'
  <2>1. run' = DeadlineExtended(run, ms, now) /\ UNCHANGED <<pc, guard, session, sealed>>
    BY <1>10 DEF ExtendDeadline, Dispatch
  <2>2. GoesOn(run, run') /\ run'.phase = run.phase
    BY <1>1, <2>1, DeadlineExtendedOn
  <2> QED BY <2>1, <2>2 DEF SealInv, GoesOn
<1>11. ASSUME NEW e \in SessionEvents, Report(e) PROVE SealInv'
  <2>1. /\ run' = SessionEvent(run, e, now) /\ UNCHANGED <<pc, guard, session, sealed>>
        /\ pc \in {"prompt", "done", "reaped"}
    BY <1>11 DEF Report, Dispatch
  <2>2. GoesOn(run, run') /\ run'.phase \in {run.phase} \cup RunningPhase
    BY <1>1, <2>1, SessionEventOn
  <2> QED BY <2>1, <2>2 DEF SealInv, GoesOn, RunningPhase
<1>12. ASSUME NEW cap \in Caps, NEW aborted \in BOOLEAN, Start(cap, aborted) PROVE SealInv'
  BY <1>12 DEF Start, SealInv
<1>13. CASE Reap \/ \E end \in {"disposed", "threw", "unkillable"} : Dispose(end)
  BY <1>13 DEF Reap, Dispose, SealInv
<1>14. CASE \/ PoolGrant \/ PoolExpire \/ GuardSeesTicket \/ GuardTimeout \/ ObserveRun \/ Tick
            \/ \E ok \in BOOLEAN : CreateSettles(ok)
            \/ \E ok \in BOOLEAN : BindSettles(ok)
            \/ \E verdict \in {"ok", "turn_error", "error"} : PromptSettles(verdict)
            \/ \E end \in {"failed", "disposed", "threw", "unkillable"} : LateArrival(end)
  BY <1>1, <1>14 DEF PoolGrant, PoolExpire, GuardSeesTicket, GuardTimeout, ObserveRun, Tick,
               CreateSettles, BindSettles, PromptSettles, LateArrival, Settle, SealInv
<1>15. CASE UNCHANGED vars
  BY <1>15 DEF vars, SealInv
<1> QED BY <1>2, <1>3, <1>4, <1>5, <1>6, <1>7, <1>9, <1>10, <1>11, <1>12, <1>13, <1>14, <1>15
        DEF Next, Runner, Environment

LEMMA SealAlways == Spec => []SealInv
<1>1. Init => SealInv
  BY DEF Init, SealInv
<1> QED BY <1>1, SealStep, EndAlways, PTL DEF Spec

-------------------------------------------------------------------------------
(* The theorems. *)

\* A run that is alive has its deadline in order, its grace windows earned and its timer
\* armed, for every budget.
THEOREM DeadlinesAreSound == Spec => []DeadlinesSound
BY DeadlinesInOrder, GracesEarned, AlwaysTimed, PTL DEF DeadlinesSound

\* The reducer and the awaited promise agree about a stop.
THEOREM StopsHeard == Spec => []StopsAreHeard
BY StopReleases, TimeoutCancels, PTL DEF StopsAreHeard

\* A run that a deadline has killed ends timed_out unless its input budget was exceeded,
\* and a run that ends timed_out has a timer's reason.
THEOREM KillsAreTimeouts == Spec => []KilledIsTimedOut
<1>1. KillInv => KilledIsTimedOut
  BY DEF KillInv, KilledIsTimedOut
<1> QED BY <1>1, KillAlways, PTL

\* A session in use is sealed before its run becomes terminal.
THEOREM SealsFirst == Spec => []SealedFirst
<1>1. SealInv => SealedFirst
  BY DEF SealInv, SealedFirst
<1> QED BY <1>1, SealAlways, PTL

\* However a run ends, its verdict is that of the timer that killed it, its session is
\* sealed and its file marked, its watchdog is disarmed, and its slot is released if it
\* got as far as asking for a session.
THEOREM EndsClean == Spec => []EndIsClean
BY KillsAreTimeouts, SealsFirst, NothingOutlives, LiveFilesMarked, PTL DEF EndIsClean

LEMMA ReasonStep ==
  EndInv /\ KillInv /\ [Next]_vars /\ (IsTerminal(run) => UNCHANGED run)
  => (run.reason # "none" => run'.reason = run.reason)
<1> SUFFICES ASSUME EndInv, KillInv, [Next]_vars, IsTerminal(run) => UNCHANGED run,
                    run.reason # "none", ~IsTerminal(run)
             PROVE  run'.reason = run.reason
  OBVIOUS
<1>1. cancel = "timeout" /\ pc \in {"prompt", "done", "reaped"} /\ run \in RunType
  BY DEF KillInv, EndInv, TimeoutInv, IInv, TypeOK
<1>2. CASE PromptContinue
  <2> DEFINE t == [run EXCEPT !.reason = IF @ = "none" THEN "total" ELSE @]
  <2>1. t \in RunType /\ t.reason = run.reason
    BY <1>1 DEF RunType, Reason
  <2>2. run' \in {run, Finish(t, "timed_out", now)} \/ \E status : run' = Finish(run, status, now)
    <3> HIDE DEF t
    <3> QED BY <1>2 DEF PromptContinue, Return, PromptSettled, t
  <2> HIDE DEF t
  <2> QED BY <1>1, <2>1, <2>2, FinishShape
<1>3. pc = "prompt" => guard = "cancelled"
  BY <1>1 DEF KillInv
<1>4. CASE \E e \in SessionEvents : Report(e)
  BY <1>1, <1>4, SessionEventOn DEF Report, Dispatch, GoesOn
<1>5. CASE \E ms \in ExtendBy : ExtendDeadline(ms)
  BY <1>1, <1>5, DeadlineExtendedOn DEF ExtendDeadline, Dispatch, GoesOn
<1>6. /\ ~PromptTimer /\ ~AbortRun /\ ~ParentSignal
      /\ BudgetExceeded => run' = run
  BY <1>1, <1>3 DEF PromptTimer, AbortRun, ParentSignal, BudgetExceeded, Cancel
<1>7. \A timer \in Timer : ~WatchdogTick(timer)
  BY <1>1, <1>3 DEF WatchdogTick, MicrotaskQueued, Waiting, EndInv, HeldInv
<1>8. /\ ~AcquireContinue /\ ~CreateContinue /\ ~BindContinue
      /\ \A cap \in Caps, aborted \in BOOLEAN : ~Start(cap, aborted)
  BY <1>1 DEF AcquireContinue, CreateContinue, BindContinue, Start
<1>9. CASE \/ PoolGrant \/ PoolExpire \/ GuardSeesTicket \/ GuardTimeout \/ ObserveRun \/ Tick \/ Reap
           \/ \E ok \in BOOLEAN : CreateSettles(ok)
           \/ \E ok \in BOOLEAN : BindSettles(ok)
           \/ \E verdict \in {"ok", "turn_error", "error"} : PromptSettles(verdict)
           \/ \E end \in {"failed", "disposed", "threw", "unkillable"} : LateArrival(end)
           \/ \E end \in {"disposed", "threw", "unkillable"} : Dispose(end)
           \/ UNCHANGED vars
  BY <1>9 DEF PoolGrant, PoolExpire, GuardSeesTicket, GuardTimeout, ObserveRun, Tick, Reap,
              CreateSettles, BindSettles, PromptSettles, LateArrival, Dispose, vars
<1> QED BY <1>2, <1>4, <1>5, <1>6, <1>7, <1>8, <1>9 DEF Next, Runner, Environment

\* No step changes a terminal run, and none renames the reason of a kill.
THEOREM OutcomeIsFinal == Spec => OutcomeStays
<1>1. EndInv /\ KillInv /\ [Next]_vars /\ [IsTerminal(run) => UNCHANGED run]_vars
      => [/\ IsTerminal(run) => UNCHANGED run
          /\ run.reason # "none" => run'.reason = run.reason]_vars
  BY ReasonStep DEF vars
<1> QED BY <1>1, EndAlways, KillAlways, TerminalIsFinal, PTL DEF Spec, OutcomeStays

-------------------------------------------------------------------------------
(* What the reducer's branches leave alone: the tool calls, the deadline   *)
(* and the ceiling.                                                        *)

\* The timer of an abort grace is armed only in one, and only a run that stops is in one.
Graced(s) ==
  /\ "abort_grace" \in s.armed => s.phase = "abort_grace"
  /\ s.phase = "abort_grace" => s.status = "stopping"

Timed(s, r) == r.deadline = s.deadline /\ r.hard = s.hard /\ (Graced(s) => Graced(r))
Quiet(s, r) == Timed(s, r) /\ r.trail = s.trail /\ r.pending = s.pending

\* An input that ends a run, starts to end it, or does nothing.
Closes(s, r) == Quiet(s, r) /\ r.phase \in {s.phase, "abort_grace", "settled"}

LEMMA RearmShape ==
  ASSUME NEW s \in RunType
  PROVE  LET r == Rearm(s)
         IN  /\ r.status = s.status /\ r.phase = s.phase /\ r.deadline = s.deadline
             /\ r.hard = s.hard /\ r.trail = s.trail /\ r.pending = s.pending
             /\ r.reason = s.reason /\ r.cause = s.cause
             /\ "abort_grace" \in r.armed => r.phase = "abort_grace"
<1>1. PhaseTimer[s.phase] = "abort_grace" => s.phase = "abort_grace"
  BY DEF RunType, Phase, StartingPhase, RunningPhase, PhaseTimer
<1> DEFINE armed == {TotalTimer(s)} \cup
                      (IF DueAt(s, Budget) = Undef THEN {} ELSE {PhaseTimer[s.phase]})
<1>2. "abort_grace" \in armed => s.phase = "abort_grace"
  BY <1>1 DEF TotalTimer
<1> HIDE DEF armed
<1>3. Rearm(s) = [s EXCEPT !.armed = armed]
  BY DEF Rearm, armed
<1> QED BY <1>2, <1>3 DEF RunType

LEMMA EnterQuiet ==
  ASSUME NEW s \in RunType, NEW status \in Status, NEW phase \in Phase, NEW at \in Nat,
         phase = "abort_grace" => status = "stopping"
  PROVE  Quiet(s, Enter(s, status, phase, at)) /\ Graced(Enter(s, status, phase, at))
<1> DEFINE t == [s EXCEPT !.status = status, !.phase = phase, !.phaseAt = at]
<1>1. /\ t \in RunType /\ t.deadline = s.deadline /\ t.hard = s.hard
      /\ t.trail = s.trail /\ t.pending = s.pending /\ t.status = status /\ t.phase = phase
  BY DEF RunType
<1> HIDE DEF t
<1>2. Enter(s, status, phase, at) = Rearm(t)
  BY DEF Enter, t
<1> QED BY <1>1, <1>2, RearmShape DEF Quiet, Timed, Graced

LEMMA FinishCloses ==
  ASSUME NEW s \in RunType, NEW status, NEW at
  PROVE  Closes(s, Finish(s, status, at))
BY DEF Closes, Quiet, Timed, Finish, RunType, Graced

LEMMA PhaseEnteredQuiet ==
  ASSUME NEW s \in RunType, NEW phase \in Phase \ {"abort_grace"}, NEW at \in Nat
  PROVE  Quiet(s, PhaseEntered(s, phase, at))
<1> DEFINE r == [s EXCEPT !.phaseAt = at]
<1>1. Quiet(s, r) /\ Quiet(s, s)
  BY DEF Quiet, Timed, Graced, RunType
<1> HIDE DEF r
<1>2. PhaseEntered(s, phase, at) \in {s, r, Enter(s, s.status, phase, at)}
  BY DEF PhaseEntered, r
<1>3. s.status \in Status
  BY DEF RunType
<1> QED BY <1>1, <1>2, <1>3, EnterQuiet

LEMMA SlotAcquiredQuiet ==
  ASSUME NEW s \in RunType, NEW at \in Nat
  PROVE  Quiet(s, SlotAcquired(s, at))
<1>1. Quiet(s, s)
  BY DEF Quiet, Timed
<1>2. "starting" \in Status /\ "resolve_config" \in Phase
  BY DEF Status, Phase
<1> QED BY <1>1, <1>2, EnterQuiet DEF SlotAcquired

LEMMA SlotDeniedCloses ==
  ASSUME NEW s \in RunType, NEW why, NEW at
  PROVE  LET r == SlotDenied(s, why, at)
         IN  Closes(s, r) /\ r.reason \in {s.reason, "queue_timeout"} /\ r.cause = s.cause
<1> DEFINE t == [s EXCEPT !.reason = "queue_timeout"]
<1>1. /\ t \in RunType /\ Quiet(s, t) /\ t.phase = s.phase /\ Closes(s, s)
      /\ t.reason = "queue_timeout" /\ t.cause = s.cause
  BY DEF RunType, Reason, Closes, Quiet, Timed, Graced
<1> HIDE DEF t
<1>2. SlotDenied(s, why, at) \in {s, Finish(s, "aborted", at), Finish(t, "failed", at)}
  BY DEF SlotDenied, t
<1> QED BY <1>1, <1>2, FinishCloses, FinishShape DEF Closes, Quiet, Timed

LEMMA StopRequestedCloses ==
  ASSUME NEW s \in RunType, NEW cause \in Cause, NEW at \in Nat
  PROVE  LET r == StopRequested(s, cause, at)
         IN  Closes(s, r) /\ r.reason = s.reason /\ r.cause \in {s.cause, cause}
<1> DEFINE t == [s EXCEPT !.cause = cause]
<1>1. /\ t \in RunType /\ Quiet(s, t) /\ t.phase = s.phase /\ Closes(s, s)
      /\ t.reason = s.reason /\ t.cause = cause
  BY DEF RunType, Closes, Quiet, Timed, Graced
<1> HIDE DEF t
<1>2. StopRequested(s, cause, at) \in
        {s, t, Finish(t, "aborted", at), Enter(t, "stopping", "abort_grace", at)}
  BY DEF StopRequested, t
<1>3. "stopping" \in Status /\ "abort_grace" \in Phase
  BY DEF Status, Phase
<1> QED BY <1>1, <1>2, <1>3, FinishCloses, FinishShape, EnterQuiet, EnterShape DEF Closes, Quiet, Timed

LEMMA StartupFailedCloses ==
  ASSUME NEW s \in RunType, NEW phase \in Reason, NEW kind, NEW at
  PROVE  LET r == StartupFailed(s, phase, kind, at)
         IN  /\ Closes(s, r) /\ r.reason \in {s.reason, phase} /\ r.cause = s.cause
             /\ s.phase = phase => r.phase \in {"settled"} \/ IsTerminal(s)
<1> DEFINE t == [s EXCEPT !.reason = phase]
<1>1. /\ t \in RunType /\ Quiet(s, t) /\ t.phase = s.phase /\ Closes(s, s)
      /\ t.reason = phase /\ t.cause = s.cause
  BY DEF RunType, Closes, Quiet, Timed, Graced
<1>2. \A status : Finish(t, status, at).phase = "settled" /\ Finish(s, status, at).phase = "settled"
  BY <1>1 DEF Finish, RunType
<1> HIDE DEF t
<1>3. /\ StartupFailed(s, phase, kind, at) \in
           {s, Finish(t, "timed_out", at), Finish(s, "failed", at)}
      /\ s.phase = phase /\ ~IsTerminal(s) => StartupFailed(s, phase, kind, at) \in
           {Finish(t, "timed_out", at), Finish(s, "failed", at)}
  BY DEF StartupFailed, t
<1> QED BY <1>1, <1>2, <1>3, FinishCloses, FinishShape DEF Closes, Quiet, Timed

LEMMA PromptSettledCloses ==
  ASSUME NEW s \in RunType, NEW error, NEW at
  PROVE  LET r == PromptSettled(s, error, at)
         IN  /\ Closes(s, r) /\ r.cause = s.cause
             /\ r.reason = s.reason \/ (error = "timeout" /\ s.reason = "none" /\ r.reason = "total")
<1> DEFINE t == [s EXCEPT !.reason = IF @ = "none" THEN "total" ELSE @]
<1>1. /\ t \in RunType /\ Quiet(s, t) /\ t.phase = s.phase /\ Closes(s, s) /\ t.cause = s.cause
      /\ t.reason = s.reason \/ (s.reason = "none" /\ t.reason = "total")
  BY DEF RunType, Reason, Closes, Quiet, Timed, Graced
<1> HIDE DEF t
<1>2. \/ PromptSettled(s, error, at) = s
      \/ \E status : PromptSettled(s, error, at) = Finish(s, status, at)
      \/ error = "timeout" /\ PromptSettled(s, error, at) = Finish(t, "timed_out", at)
  BY DEF PromptSettled, t
<1> QED BY <1>1, <1>2, FinishCloses, FinishShape DEF Closes, Quiet, Timed

LEMMA DeadlineFiredCloses ==
  ASSUME NEW s \in RunType, NEW timer, NEW reason \in Reason, NEW at \in Nat
  PROVE  LET r == DeadlineFired(s, timer, reason, at)
         IN  Closes(s, r) /\ r.reason \in {s.reason, reason, "queue_timeout"}
<1> DEFINE removed == [s EXCEPT !.armed = @ \ {timer}]
           named == [removed EXCEPT !.reason = IF @ = "none" THEN reason ELSE @]
           renamed == [removed EXCEPT !.reason = reason]
           late == [removed EXCEPT !.reason = "queue_timeout"]
           killed == [removed EXCEPT !.reason = reason, !.cause = "timeout"]
           graced == [removed EXCEPT !.grace = GraceWindow(s, at), !.graces = @ + 1]
<1> DEFINE Alike(u) == /\ u \in RunType /\ Quiet(s, u) /\ u.phase = s.phase
                       /\ u.reason \in {s.reason, reason, "queue_timeout"}
<1>1. Closes(s, s) /\ Alike(named) /\ Alike(renamed) /\ Alike(late) /\ Alike(killed)
  <2>1. Closes(s, s)
    BY DEF Closes, Quiet, Timed
  <2>2. Alike(named)
    <3>1. named \in RunType
      BY DEF RunType, Reason
    <3>2. /\ named.deadline = s.deadline /\ named.hard = s.hard /\ named.phase = s.phase
          /\ named.trail = s.trail /\ named.pending = s.pending /\ named.reason \in {s.reason, reason}
          /\ named.armed = s.armed \ {timer} /\ named.status = s.status
      BY DEF RunType
    <3> HIDE DEF named
    <3> QED BY <3>1, <3>2 DEF Quiet, Timed, Graced
  <2>3. Alike(renamed)
    <3>1. renamed \in RunType
      BY DEF RunType, Reason
    <3>2. /\ renamed.deadline = s.deadline /\ renamed.hard = s.hard /\ renamed.phase = s.phase
          /\ renamed.trail = s.trail /\ renamed.pending = s.pending /\ renamed.reason = reason
          /\ renamed.armed = s.armed \ {timer} /\ renamed.status = s.status
      BY DEF RunType
    <3> HIDE DEF renamed
    <3> QED BY <3>1, <3>2 DEF Quiet, Timed, Graced
  <2>4. Alike(late)
    <3>1. late \in RunType
      BY DEF RunType, Reason
    <3>2. /\ late.deadline = s.deadline /\ late.hard = s.hard /\ late.phase = s.phase
          /\ late.trail = s.trail /\ late.pending = s.pending /\ late.reason = "queue_timeout"
          /\ late.armed = s.armed \ {timer} /\ late.status = s.status
      BY DEF RunType
    <3> HIDE DEF late
    <3> QED BY <3>1, <3>2 DEF Quiet, Timed, Graced
  <2>5. Alike(killed)
    <3>1. killed \in RunType
      BY DEF RunType, Cause
    <3>2. /\ killed.deadline = s.deadline /\ killed.hard = s.hard /\ killed.phase = s.phase
          /\ killed.trail = s.trail /\ killed.pending = s.pending /\ killed.reason = reason
          /\ killed.armed = s.armed \ {timer} /\ killed.status = s.status
      BY DEF RunType
    <3> HIDE DEF killed
    <3> QED BY <3>1, <3>2 DEF Quiet, Timed, Graced
  <2> QED BY <2>1, <2>2, <2>3, <2>4, <2>5
<1>2. /\ Closes(s, Rearm(graced)) /\ Rearm(graced).reason = s.reason
  <2>1. GraceWindow(s, at) \in Instant
    BY BudgetFacts DEF GraceWindow, Lower, RunType, Instant
  <2>2. s.graces + 1 \in Nat
    BY DEF RunType
  <2>3. graced \in RunType
    BY <2>1, <2>2 DEF RunType
  <2>4. Quiet(s, graced) /\ graced.phase = s.phase /\ graced.reason = s.reason /\ graced.status = s.status
    BY DEF RunType, Quiet, Timed, Graced
  <2> HIDE DEF graced
  <2> QED BY <2>3, <2>4, RearmShape DEF Closes, Quiet, Timed, Graced
<1> HIDE DEF named, renamed, late, killed, graced
<1>3. \/ DeadlineFired(s, timer, reason, at) \in {s, Rearm(graced)}
      \/ \E u \in {named, renamed, late, killed} : \E status :
           \/ DeadlineFired(s, timer, reason, at) = Finish(u, status, at)
           \/ DeadlineFired(s, timer, reason, at) = Enter(u, "stopping", "abort_grace", at)
  BY Zenon DEF DeadlineFired, named, renamed, late, killed, graced
<1>4. ASSUME NEW u \in {named, renamed, late, killed}, NEW status,
             NEW r \in {Finish(u, status, at), Enter(u, "stopping", "abort_grace", at)}
      PROVE  Closes(s, r) /\ r.reason \in {s.reason, reason, "queue_timeout"}
  <2>1. "stopping" \in Status /\ "abort_grace" \in Phase
    BY DEF Status, Phase
  <2> QED BY <1>1, <1>4, <2>1, FinishCloses, FinishShape, EnterQuiet, EnterShape DEF Closes, Quiet, Timed
<1> QED BY <1>1, <1>2, <1>3, <1>4

LEMMA FireDeadlineCloses ==
  ASSUME run \in RunType, now \in Nat, NEW timer, NEW reason \in Reason, FireDeadline(timer, reason),
         DeadlineFired(run, timer, reason, now) \in RunType
  PROVE  Closes(run, run') /\ run'.reason \in {run.reason, reason, "queue_timeout"}
<1> DEFINE fired == DeadlineFired(run, timer, reason, now)
<1>1. Closes(run, fired) /\ fired.reason \in {run.reason, reason, "queue_timeout"}
  BY DeadlineFiredCloses
<1>2. /\ Closes(fired, StopRequested(fired, "timeout", now))
      /\ StopRequested(fired, "timeout", now).reason = fired.reason
  BY StopRequestedCloses DEF Cause
<1>3. run' \in {fired, StopRequested(fired, "timeout", now)}
  BY DEF FireDeadline, Dispatch
<1> HIDE DEF fired
<1> QED BY <1>1, <1>2, <1>3 DEF Closes, Quiet, Timed

\* An extension moves the deadline later, and nothing else that is counted here.
LEMMA DeadlineExtendedLater ==
  ASSUME NEW s \in RunType, NEW ms \in Nat, NEW at \in Nat
  PROVE  LET r == DeadlineExtended(s, ms, at)
         IN  /\ r.trail = s.trail /\ r.pending = s.pending /\ r.hard = s.hard
             /\ Graced(s) => Graced(r)
             /\ r = s \/ (s.phase \in OvertimePhase /\ r.deadline > s.deadline /\ r.deadline <= s.hard)
<1> DEFINE next == Lower(Higher(at, s.deadline) + GrantCap(ms), s.hard)
           t == [s EXCEPT !.deadline = next, !.grace = Undef, !.extensions = @ + 1]
<1>1. s.deadline \in Nat /\ s.hard \in Nat /\ s.extensions + 1 \in Nat
  BY DEF RunType
<1> HIDE DEF next
<1>2. /\ Rearm(t).trail = s.trail /\ Rearm(t).pending = s.pending
      /\ Rearm(t).hard = s.hard /\ Rearm(t).deadline = next
      /\ Graced(s) => Graced(Rearm(t))
  <2>1. next \in Nat
    BY <1>1, BudgetFacts DEF next, GrantCap, Lower, Higher
  <2>2. t \in RunType /\ t.trail = s.trail /\ t.pending = s.pending /\ t.hard = s.hard
        /\ t.deadline = next /\ t.phase = s.phase /\ t.status = s.status
    BY <1>1, <2>1 DEF RunType, Instant
  <2> HIDE DEF t
  <2> QED BY <2>2, RearmShape DEF Graced
<1>3. ASSUME ms > 0, Extendable(s, at) PROVE next > s.deadline /\ next <= s.hard
  <2>1. GrantCap(ms) \in Nat \ {0}
    BY <1>3, BudgetFacts DEF GrantCap, Lower
  <2>2. s.hard > at /\ s.hard > s.deadline
    BY <1>1, <1>3 DEF Extendable, Headroom, Higher
  <2> QED BY <1>1, <2>1, <2>2 DEF next, Lower, Higher
<1>4. \/ DeadlineExtended(s, ms, at) = s
      \/ ms > 0 /\ Extendable(s, at) /\ DeadlineExtended(s, ms, at) = Rearm(t)
  BY DEF DeadlineExtended, next
<1> HIDE DEF t
<1> QED BY <1>2, <1>3, <1>4 DEF Extendable

LEMMA SessionEventTimed ==
  ASSUME NEW s \in RunType, NEW e \in SessionEvents, NEW at \in Nat
  PROVE  Timed(s, SessionEvent(s, e, at))
<1> DEFINE trail == Trail(s, e)
           seen == [s EXCEPT !.lastEvent = at, !.trail = trail]
           more == [seen EXCEPT !.pending = @ + 1, !.current = e.id]
           left == Higher(0, seen.pending - 1)
           less == [seen EXCEPT !.pending = left, !.current = NextShown(seen)]
           last == [seen EXCEPT !.pending = 0, !.current = "none"]
<1>1. /\ trail \in History
      /\ e.t \in {"tool_start", "tool_end"} => e.id \in Tools
  BY TrailType DEF SessionEvents, ToolEvent
<1>2. at \in Instant
  BY DEF Instant
<1> HIDE DEF trail
<1>3. seen \in RunType /\ Timed(s, seen)
  BY <1>1, <1>2 DEF RunType, Timed, Graced
<1> HIDE DEF seen
<1>4. seen.pending + 1 \in Nat /\ left \in Nat /\ NextShown(seen) \in Tools \cup {"none"}
  BY <1>3, NextShownType DEF RunType, Higher
<1> HIDE DEF left
<1>5. /\ e.t \in {"tool_start", "tool_end"} => more \in RunType /\ Timed(s, more)
      /\ less \in RunType /\ Timed(s, less)
      /\ last \in RunType /\ Timed(s, last)
  <2>1. e.t \in {"tool_start", "tool_end"} => more \in RunType /\ Timed(seen, more)
    BY <1>1, <1>3, <1>4 DEF RunType, Timed, Graced
  <2>2. less \in RunType /\ Timed(seen, less)
    BY <1>3, <1>4 DEF RunType, Timed, Graced
  <2>3. last \in RunType /\ Timed(seen, last)
    BY <1>3 DEF RunType, Timed, Graced
  <2> QED BY <1>3, <2>1, <2>2, <2>3 DEF Timed
<1>6. \/ SessionEvent(s, e, at) \in {s, seen, less}
      \/ \E u \in {seen, last}, phase \in RunningPhase :
           SessionEvent(s, e, at) = Enter(u, "running", phase, at)
      \/ /\ e.t \in {"tool_start", "tool_end"}
         /\ \/ SessionEvent(s, e, at) = more
            \/ SessionEvent(s, e, at) = Enter(more, "running", "tool_exec", at)
  <2> HIDE DEF more, less, last
  <2> QED BY Zenon DEF SessionEvent, ToolStarted, ToolEnded, RunningPhase, seen, more, less, last, left, trail
<1> HIDE DEF more, less, last
<1>7. "running" \in Status /\ RunningPhase \subseteq Phase /\ "abort_grace" \notin RunningPhase
      /\ "tool_exec" \in RunningPhase
  BY DEF Status, Phase, RunningPhase
<1>8. \A u \in RunType, phase \in RunningPhase : Timed(s, u) => Timed(s, Enter(u, "running", phase, at))
  BY <1>7, EnterQuiet DEF Quiet, Timed
<1>9. Timed(s, s)
  BY DEF Timed
<1> QED BY <1>3, <1>5, <1>6, <1>7, <1>8, <1>9

-------------------------------------------------------------------------------
(* One step of a run that has been accepted: what it hands to the reducer, *)
(* and where the runner stands before and after.                           *)

Moves ==
  \/ /\ calls' = calls
     /\ \/ run' = run /\ (pc' = pc \/ (pc = "done" /\ pc' = "reaped")) /\ (session' = "live" => session = "live")
        \/ /\ pc = "acquire" /\ guard = "ok" /\ pc' = "create"
           /\ run' = PhaseEntered(SlotAcquired(run, now), "session_create", now)
        \/ /\ pc = "acquire" /\ pc' = "done" /\ session' = session
           /\ \E why : run' = SlotDenied(run, why, now)
        \/ /\ pc = "create" /\ guard = "ok" /\ pc' = "bind"
           /\ run' = PhaseEntered(run, "extension_bind", now)
        \/ /\ pc = "create" /\ pc' = "done" /\ session' # "live"
           /\ \E kind : run' = StartupFailed(run, "session_create", kind, now)
        \/ /\ pc = "bind" /\ guard = "ok" /\ pc' = "prompt"
           /\ run' = PhaseEntered(run, "prompt_dispatch", now)
        \/ /\ pc = "bind" /\ pc' = "done"
           /\ \E kind : run' = StartupFailed(run, "extension_bind", kind, now)
        \/ /\ pc = "prompt" /\ guard # "pending" /\ pc' = "done"
           /\ run' = PromptSettled(run, ErrorOf(guard), now)
        \/ /\ pc = "prompt" /\ guard = "pending" /\ pc' = pc /\ cancel = "none"
           /\ \E timer \in Timer, reason \in Reason :
                /\ timer \in run.armed \/ timer = TotalTimer(run)
                /\ timer = "total" => run.deadline <= now
                /\ reason = "total" => EffectiveDeadline(run) <= now \/ timer = "abort_grace"
                /\ FireDeadline(timer, reason)
        \/ /\ pc \in Waiting /\ pc' = pc /\ session' = session /\ cancel = "none"
           /\ \E cause \in {"user_stop", "parent_abort"} : run' = StopRequested(run, cause, now)
        \/ /\ pc \in Waiting /\ pc' = pc /\ session' = session
           /\ \E ms \in ExtendBy : run' = DeadlineExtended(run, ms, now)
  \/ /\ pc \in {"prompt", "done", "reaped"} /\ session = "live" /\ pc' = pc /\ session' = session
     /\ \E e \in SessionEvents :
          /\ Reportable(e)
          /\ run' = SessionEvent(run, e, now)
          /\ calls' = CallsAfter(e)

LEMMA StepMoves ==
  ASSUME EndInv, [Next]_vars, pc # "idle"
  PROVE  Moves /\ now' \in {now, now + 1} /\ (now' # now => run' = run)
<1>1. TypeOK /\ Sound(run) /\ now \in Nat /\ run \in RunType /\ HeldInv /\ WakeInv
  BY DEF EndInv, IInv, TypeOK, RunSound
<1> USE DEF Moves
<1>2. CASE AcquireContinue
  BY <1>2 DEF AcquireContinue, Dispatch, Return, Await
<1>3. CASE CreateContinue
  BY <1>3 DEF CreateContinue, Dispatch, Return, Await
<1>4. CASE BindContinue
  BY <1>4 DEF BindContinue, Dispatch, Return, Await
<1>5. CASE PromptContinue
  BY <1>5 DEF PromptContinue, Return
<1>6. CASE PromptTimer
  <2>1. pc = "prompt" /\ guard = "pending" /\ pc' = pc /\ session' = session /\ now' = now /\ calls' = calls
    BY <1>6 DEF PromptTimer
  <2>2. cancel = "none"
    BY <1>1, <2>1 DEF WakeInv, Waiting
  <2>3. CASE EffectiveDeadline(run) > now
    BY <1>6, <2>1, <2>3 DEF PromptTimer
  <2>4. CASE ~(EffectiveDeadline(run) > now)
    <3>1. FireDeadline(TotalTimer(run), "total")
      BY <1>6, <2>4 DEF PromptTimer
    <3>2. EffectiveDeadline(run) \in Nat
      BY <1>1, Durations, Constants
    <3>3. EffectiveDeadline(run) <= now
      BY <1>1, <2>4, <3>2
    <3>4. TotalTimer(run) = "total" => run.deadline <= now
      BY <3>3 DEF TotalTimer, EffectiveDeadline
    <3>5. TotalTimer(run) \in Timer /\ "total" \in Reason
      BY DEF TotalTimer, Timer, Reason
    <3> QED BY <2>1, <2>2, <3>1, <3>3, <3>4, <3>5
  <2> QED BY <2>3, <2>4
<1>7. ASSUME NEW timer \in Timer, WatchdogTick(timer) PROVE Moves /\ now' = now
  <2>1. pc = "prompt" /\ pc' = pc /\ guard = "pending" /\ now' = now /\ calls' = calls
    BY <1>1, <1>7 DEF WatchdogTick, HeldInv, TypeOK, PC, Waiting, MicrotaskQueued
  <2>2. cancel = "none"
    BY <1>1, <2>1 DEF WakeInv, Waiting
  <2>3. TimerReason[timer] \in Reason
    BY DEF Timer, TimerReason, Reason
  <2>4. timer \in run.armed /\ now >= TimerDue(timer) /\ FireDeadline(timer, TimerReason[timer])
    BY <1>7 DEF WatchdogTick, Expired
  <2>5. timer = "total" => run.deadline <= now
    BY <2>4 DEF TimerDue
  <2>6. TimerReason[timer] = "total" => timer \in {"abort_grace", "total", "total_grace"}
    BY DEF Timer, TimerReason
  <2>7. run.armed \cap TotalClass \subseteq {TotalTimer(run)}
    BY <1>1 DEF Sound
  <2>8. timer \in TotalClass => EffectiveDeadline(run) <= now
    BY <2>4, <2>7 DEF TotalClass, TotalTimer, EffectiveDeadline, TimerDue
  <2> QED BY <2>1, <2>2, <2>3, <2>4, <2>5, <2>6, <2>8 DEF TotalClass
<1>8. CASE AbortRun \/ ParentSignal \/ BudgetExceeded
  BY <1>8 DEF AbortRun, ParentSignal, BudgetExceeded, Cancel, Registered, Dispatch
<1>9. CASE \E ms \in ExtendBy : ExtendDeadline(ms)
  BY <1>9 DEF ExtendDeadline, Registered, Dispatch
<1>10. CASE \E e \in SessionEvents : Report(e)
  BY <1>10 DEF Report, Dispatch
<1>11. ASSUME NEW cap \in Caps, NEW aborted \in BOOLEAN PROVE ~Start(cap, aborted)
  BY DEF Start
<1>12. CASE Tick
  BY <1>12 DEF Tick
<1>13. CASE \/ PoolGrant \/ PoolExpire \/ GuardSeesTicket \/ GuardTimeout \/ ObserveRun \/ Reap
            \/ \E ok \in BOOLEAN : CreateSettles(ok)
            \/ \E ok \in BOOLEAN : BindSettles(ok)
            \/ \E verdict \in {"ok", "turn_error", "error"} : PromptSettles(verdict)
            \/ \E end \in {"failed", "disposed", "threw", "unkillable"} : LateArrival(end)
            \/ \E end \in {"disposed", "threw", "unkillable"} : Dispose(end)
  BY <1>13 DEF PoolGrant, PoolExpire, GuardSeesTicket, GuardTimeout, ObserveRun, Reap,
               CreateSettles, BindSettles, PromptSettles, LateArrival, Dispose
<1>14. CASE UNCHANGED vars
  BY <1>14 DEF vars
<1> QED BY <1>2, <1>3, <1>4, <1>5, <1>6, <1>7, <1>8, <1>9, <1>10, <1>11, <1>12, <1>13, <1>14
        DEF Next, Runner, Environment

-------------------------------------------------------------------------------
(* The tool calls in flight.  A call the reducer has counted stays counted *)
(* until its end is accepted, so the counter is the number of calls in     *)
(* flight and of those whose end was refused.  Everywhere but in tool_exec *)
(* and in an abort grace none is in flight, which is what lets an event of *)
(* another kind leave the phase.  As long as no record has been dropped    *)
(* every call in flight has one, so no end has been refused.               *)

Counted(c) == {id \in Tools : c[id] # "idle"}
NoneOpen(c) == \A id \in Tools : c[id] # "open"
OnRecord(trail, id) == \E i \in DOMAIN trail : trail[i] = id

Recorded(trail, c) ==
  Len(trail) < HistoryCap =>
    \A id \in Tools : c[id] # "refused" /\ (c[id] = "open" => OnRecord(trail, id))

ToolSound(s, c) ==
  /\ IsFiniteSet(Counted(c))
  /\ Recorded(s.trail, c)
  /\ s.phase \notin {"abort_grace", "settled"} => s.pending = Cardinality(Counted(c))
  /\ s.phase = "tool_exec" => s.pending > 0
  /\ s.phase \notin {"tool_exec", "abort_grace", "settled"} => NoneOpen(c)

ToolInv ==
  /\ ToolSound(run, calls)
  /\ pc \in {"idle", "acquire", "create", "bind"} =>
       run.pending = 0 /\ calls = [id \in Tools |-> "idle"]
  /\ pc = "bind" => run.phase \in {"extension_bind", "abort_grace", "settled"}
  /\ pc = "prompt" \/ (pc \in {"done", "reaped"} /\ session = "live") =>
       run.phase \notin {"queue_wait", "resolve_config", "session_create", "extension_bind"}

LEMMA ClosesTools ==
  ASSUME NEW s, NEW r, NEW c, ToolSound(s, c), Closes(s, r)
  PROVE  ToolSound(r, c)
BY DEF ToolSound, Closes, Quiet

\* Nothing called, nothing counted.
LEMMA IdleTools ==
  ASSUME NEW s, s.pending = 0, s.phase # "tool_exec"
  PROVE  ToolSound(s, [id \in Tools |-> "idle"])
<1> DEFINE c == [id \in Tools |-> "idle"]
<1>1. Counted(c) = {} /\ NoneOpen(c) /\ Recorded(s.trail, c)
  BY DEF Counted, NoneOpen, Recorded
<1> HIDE DEF c
<1>2. ToolSound(s, c)
  BY <1>1, FS_EmptySet DEF ToolSound
<1> QED BY <1>2 DEF c

\* The count when one call starts, and when one is over.
LEMMA CountMoves ==
  ASSUME NEW c \in [Tools -> CallState], NEW id \in Tools, IsFiniteSet(Counted(c))
  PROVE  LET more == Counted([c EXCEPT ![id] = "open"])
             less == Counted([c EXCEPT ![id] = "idle"])
         IN  /\ IsFiniteSet(more) /\ IsFiniteSet(less)
             /\ Cardinality(Counted(c)) \in Nat
             /\ c[id] = "idle" => Cardinality(more) = Cardinality(Counted(c)) + 1
             /\ c[id] # "idle" => /\ Cardinality(less) = Cardinality(Counted(c)) - 1
                                 /\ Cardinality(Counted(c)) > 0
             /\ Cardinality(less) = 0 => NoneOpen([c EXCEPT ![id] = "idle"])
             /\ c[id] = "open" => Counted([c EXCEPT ![id] = "refused"]) = Counted(c)
<1> DEFINE more == Counted([c EXCEPT ![id] = "open"])
           less == Counted([c EXCEPT ![id] = "idle"])
           same == Counted([c EXCEPT ![id] = "refused"])
<1>1. more = Counted(c) \cup {id} /\ less = Counted(c) \ {id}
  BY DEF Counted
<1>2. c[id] = "idle" <=> id \notin Counted(c)
  BY DEF Counted
<1>3. c[id] = "open" => same = Counted(c)
  BY DEF Counted
<1>4. less = {} => NoneOpen([c EXCEPT ![id] = "idle"])
  BY DEF Counted, NoneOpen
<1> HIDE DEF more, less, same
<1>5. Cardinality(Counted(c)) \in Nat /\ (id \in Counted(c) => Cardinality(Counted(c)) # 0)
  BY FS_CardinalityType, FS_EmptySet
<1>6. /\ IsFiniteSet(more) /\ IsFiniteSet(less)
      /\ id \notin Counted(c) => Cardinality(more) = Cardinality(Counted(c)) + 1
      /\ id \in Counted(c) => Cardinality(less) = Cardinality(Counted(c)) - 1
  BY <1>1, FS_AddElement, FS_RemoveElement
<1>7. Cardinality(less) = 0 => less = {}
  BY <1>6, FS_EmptySet
<1>8. /\ c[id] = "idle" => Cardinality(more) = Cardinality(Counted(c)) + 1
      /\ c[id] # "idle" => /\ Cardinality(less) = Cardinality(Counted(c)) - 1
                          /\ Cardinality(Counted(c)) > 0
  BY <1>2, <1>5, <1>6
<1>9. Cardinality(less) = 0 => NoneOpen([c EXCEPT ![id] = "idle"])
  BY <1>4, <1>7
<1> QED BY <1>3, <1>5, <1>6, <1>8, <1>9 DEF more, less, same

\* What a report does to the records: a call that starts is the newest one, a call
\* that ends is marked, and a record is dropped only when there are HistoryCap.
LEMMA TrailRecords ==
  ASSUME NEW s \in RunType, NEW c \in [Tools -> CallState], NEW e, Recorded(s.trail, c),
         e.t \in {"tool_start", "tool_end"} => e.id \in Tools
  PROVE  /\ e.t = "tool_start" /\ c[e.id] = "idle" =>
              Recorded(Trail(s, e), [c EXCEPT ![e.id] = "open"])
         /\ e.t = "tool_end" =>
              /\ c[e.id] = "open" => Recorded(Trail(s, e), [c EXCEPT ![e.id] = "idle"])
              /\ c[e.id] = "open" /\ ~OnRecord(s.trail, e.id) =>
                   Recorded(s.trail, [c EXCEPT ![e.id] = "refused"])
         /\ e.t \notin {"tool_start", "tool_end"} => Trail(s, e) = s.trail
<1>1. s.trail \in Seq(Tools \cup {"ended"}) /\ Len(s.trail) <= HistoryCap /\ Len(s.trail) \in Nat
  BY DEF RunType, History
<1>2. HistoryCap \in Nat \ {0} /\ "ended" \notin Tools
  BY HistoryAssumption
<1>3. ASSUME e.t = "tool_start", c[e.id] = "idle"
      PROVE  Recorded(Trail(s, e), [c EXCEPT ![e.id] = "open"])
  <2> DEFINE longer == Append(s.trail, e.id)
             d == [c EXCEPT ![e.id] = "open"]
  <2>1. CASE Len(s.trail) < HistoryCap
    <3>1. Trail(s, e) = longer
      BY <1>3, <2>1 DEF Trail, Remember
    <3>2. /\ \A id \in Tools : c[id] # "refused" /\ (c[id] = "open" => OnRecord(s.trail, id))
      BY <2>1 DEF Recorded
    <3>3. /\ DOMAIN longer = 1 .. Len(s.trail) + 1 /\ DOMAIN s.trail = 1 .. Len(s.trail)
          /\ \A i \in DOMAIN s.trail : longer[i] = s.trail[i]
          /\ longer[Len(s.trail) + 1] = e.id
      BY <1>1, <1>3
    <3> HIDE DEF longer
    <3>4. \A id \in Tools : OnRecord(s.trail, id) => OnRecord(longer, id)
      BY <1>1, <3>3 DEF OnRecord
    <3>5. OnRecord(longer, e.id)
      BY <1>1, <3>3 DEF OnRecord
    <3>6. \A id \in Tools : d[id] = IF id = e.id THEN "open" ELSE c[id]
      BY <1>3
    <3> QED BY <3>1, <3>2, <3>4, <3>5, <3>6 DEF Recorded
  <2>2. CASE ~(Len(s.trail) < HistoryCap)
    <3>1. Trail(s, e) = Append(Tail(s.trail), e.id)
      BY <1>3, <2>2 DEF Trail, Remember
    <3>2. Len(Append(Tail(s.trail), e.id)) = Len(s.trail)
      BY <1>1, <1>2, <1>3, <2>2
    <3> QED BY <2>2, <3>1, <3>2 DEF Recorded
  <2> QED BY <2>1, <2>2
<1>4. ASSUME e.t = "tool_end", c[e.id] = "open"
      PROVE  Recorded(Trail(s, e), [c EXCEPT ![e.id] = "idle"])
  <2> DEFINE closed ==
        [i \in DOMAIN s.trail |-> IF s.trail[i] = e.id THEN "ended" ELSE s.trail[i]]
             d == [c EXCEPT ![e.id] = "idle"]
  <2>1. Trail(s, e) = closed
    BY <1>4 DEF Trail
  <2>2. Len(closed) = Len(s.trail)
    BY <1>1
  <2>3. \A id \in Tools : id # e.id /\ OnRecord(s.trail, id) => OnRecord(closed, id)
    BY DEF OnRecord
  <2>4. \A id \in Tools : d[id] = IF id = e.id THEN "idle" ELSE c[id]
    BY <1>4
  <2> HIDE DEF closed, d
  <2>5. Recorded(closed, d)
    BY <2>2, <2>3, <2>4 DEF Recorded
  <2> QED BY <2>1, <2>5 DEF d
<1>5. ASSUME e.t = "tool_end", c[e.id] = "open", ~OnRecord(s.trail, e.id)
      PROVE  Recorded(s.trail, [c EXCEPT ![e.id] = "refused"])
  <2>1. ~(Len(s.trail) < HistoryCap)
    BY <1>5 DEF Recorded
  <2> QED BY <2>1 DEF Recorded
<1> QED BY <1>3, <1>4, <1>5 DEF Trail

\* A call that starts while none or some are in flight, and one that ends: u is the
\* state with the report noted, c the calls before it.
LEMMA ToolCallTools ==
  ASSUME NEW u \in RunType, NEW c \in [Tools -> CallState], NEW id \in Tools, NEW at \in Nat,
         IsFiniteSet(Counted(c)), u.pending = Cardinality(Counted(c))
  PROVE  /\ c[id] = "idle" /\ Recorded(u.trail, [c EXCEPT ![id] = "open"]) =>
              ToolSound(ToolStarted(u, id, at), [c EXCEPT ![id] = "open"])
         /\ c[id] = "open" /\ Recorded(u.trail, [c EXCEPT ![id] = "idle"]) /\ u.phase = "tool_exec" =>
              ToolSound(ToolEnded(u, at), [c EXCEPT ![id] = "idle"])
<1> DEFINE with == [c EXCEPT ![id] = "open"]
           without == [c EXCEPT ![id] = "idle"]
           more == [u EXCEPT !.pending = @ + 1, !.current = id]
           left == Higher(0, u.pending - 1)
           less == [u EXCEPT !.pending = left, !.current = NextShown(u)]
           last == [u EXCEPT !.pending = 0, !.current = "none"]
<1>1. /\ IsFiniteSet(Counted(with)) /\ IsFiniteSet(Counted(without))
      /\ Cardinality(Counted(c)) \in Nat
      /\ c[id] = "idle" => Cardinality(Counted(with)) = Cardinality(Counted(c)) + 1
      /\ c[id] # "idle" => /\ Cardinality(Counted(without)) = Cardinality(Counted(c)) - 1
                          /\ Cardinality(Counted(c)) > 0
      /\ Cardinality(Counted(without)) = 0 => NoneOpen(without)
  BY CountMoves
<1> HIDE DEF with, without
<1>2. u.pending + 1 \in Nat /\ left \in Nat /\ NextShown(u) \in Tools \cup {"none"}
  BY NextShownType DEF RunType, Higher
<1>3. c[id] # "idle" => left = Cardinality(Counted(without))
  BY <1>1 DEF Higher
<1> HIDE DEF left
<1>4. /\ more \in RunType /\ more.phase = u.phase /\ more.pending = u.pending + 1 /\ more.trail = u.trail
      /\ less \in RunType /\ less.phase = u.phase /\ less.pending = left /\ less.trail = u.trail
      /\ last \in RunType /\ last.pending = 0 /\ last.trail = u.trail
  BY <1>2 DEF RunType
<1> HIDE DEF more, less, last
<1>5. {"tool_exec", "model_turn"} \subseteq Phase \ {"abort_grace"} /\ "running" \in Status
  BY DEF Phase, RunningPhase, Status
<1>6. ASSUME c[id] = "idle", Recorded(u.trail, with)
      PROVE  ToolSound(ToolStarted(u, id, at), with)
  <2>1. more.pending = Cardinality(Counted(with)) /\ more.pending > 0
    BY <1>1, <1>4, <1>6
  <2>2. CASE u.phase = "tool_exec"
    <3>1. ToolStarted(u, id, at) = more
      BY <2>2 DEF ToolStarted, more
    <3> QED BY <1>1, <1>4, <1>6, <2>1, <2>2, <3>1 DEF ToolSound
  <2>3. CASE u.phase # "tool_exec"
    <3> DEFINE r == Enter(more, "running", "tool_exec", at)
    <3>1. ToolStarted(u, id, at) = r
      BY <2>3 DEF ToolStarted, more
    <3>2. r.phase = "tool_exec" /\ r.trail = u.trail /\ r.pending = more.pending
      BY <1>4, <1>5, EnterQuiet, EnterShape DEF Quiet
    <3> HIDE DEF r
    <3> QED BY <1>1, <1>6, <2>1, <3>1, <3>2 DEF ToolSound
  <2> QED BY <2>2, <2>3
<1>7. ASSUME c[id] = "open", Recorded(u.trail, without), u.phase = "tool_exec"
      PROVE  ToolSound(ToolEnded(u, at), without)
  <2>1. CASE left > 0
    <3>1. ToolEnded(u, at) = less
      BY <2>1 DEF ToolEnded, less, left
    <3> QED BY <1>1, <1>3, <1>4, <1>7, <2>1, <3>1 DEF ToolSound
  <2>2. CASE ~(left > 0)
    <3> DEFINE r == Enter(last, "running", "model_turn", at)
    <3>1. ToolEnded(u, at) = r
      BY <2>2 DEF ToolEnded, last, left
    <3>2. Cardinality(Counted(without)) = 0 /\ NoneOpen(without)
      BY <1>1, <1>2, <1>3, <1>7, <2>2
    <3>3. r.phase = "model_turn" /\ r.trail = u.trail /\ r.pending = 0
      BY <1>4, <1>5, EnterQuiet, EnterShape DEF Quiet
    <3> HIDE DEF r
    <3> QED BY <1>1, <1>7, <3>1, <3>2, <3>3 DEF ToolSound
  <2> QED BY <2>1, <2>2
<1> QED BY <1>6, <1>7 DEF with, without

LEMMA SessionEventTools ==
  ASSUME run \in RunType, calls \in [Tools -> CallState], ToolSound(run, calls),
         NEW e \in SessionEvents, Reportable(e), now \in Nat,
         run.phase = "settled" => IsTerminal(run),
         run.phase \notin {"queue_wait", "resolve_config", "session_create", "extension_bind"}
  PROVE  ToolSound(SessionEvent(run, e, now), CallsAfter(e))
<1> DEFINE trail == Trail(run, e)
           seen == [run EXCEPT !.lastEvent = now, !.trail = trail]
           r == SessionEvent(run, e, now)
           c == CallsAfter(e)
<1>1. e.t \in {"tool_start", "tool_end"} => e.id \in Tools
  BY DEF SessionEvents, ToolEvent
<1>2. trail \in History /\ now \in Instant
  BY <1>1, TrailType DEF Instant
<1>3. e.t \notin {"tool_start", "tool_end"} => trail = run.trail /\ c = calls
  BY DEF Trail, CallsAfter
<1>4. e.t \in EventKind
  BY DEF SessionEvents, ToolEvent, EventKind
<1>5. IsFiniteSet(Counted(calls)) /\ Recorded(run.trail, calls)
  BY DEF ToolSound
<1> HIDE DEF trail
<1>6. /\ seen \in RunType /\ seen.trail = trail /\ seen.pending = run.pending
      /\ seen.phase = run.phase /\ seen.current = run.current
  BY <1>2 DEF RunType
<1> HIDE DEF seen
<1>7. RunningPhase \subseteq Phase \ {"abort_grace"} /\ "running" \in Status
  BY DEF Phase, RunningPhase, Status
<1>8. ASSUME run.phase \notin {"abort_grace", "settled"}, NoneOpen(calls), trail = run.trail,
             NEW phase \in RunningPhase \ {"tool_exec"}
      PROVE  ToolSound(Enter(seen, "running", phase, now), calls)
  <2> DEFINE u == Enter(seen, "running", phase, now)
  <2>1. u.phase = phase /\ u.trail = seen.trail /\ u.pending = seen.pending
    BY <1>6, <1>7, <1>8, EnterQuiet, EnterShape DEF Quiet
  <2> HIDE DEF u
  <2>2. ToolSound(u, calls)
    BY <1>5, <1>6, <1>8, <2>1 DEF ToolSound
  <2> QED BY <2>2 DEF u
<1>9. trail = run.trail => ToolSound(seen, calls)
  BY <1>6 DEF ToolSound
<1>10. CASE IsTerminal(run)
  BY <1>10 DEF SessionEvent, CallsAfter
<1>11. CASE ~IsTerminal(run) /\ e.t = "tool_start"
  <2>1. calls[e.id] = "idle" /\ run.phase \notin {"retry_backoff", "compaction"} /\ e.id \in Tools
    BY <1>1, <1>11 DEF Reportable
  <2>2. c = [calls EXCEPT ![e.id] = "open"]
    BY <1>11 DEF CallsAfter
  <2>3. Recorded(trail, c)
    <3>1. Recorded(Trail(run, e), [calls EXCEPT ![e.id] = "open"])
      BY <1>1, <1>5, <1>11, <2>1, TrailRecords
    <3> QED BY <2>2, <3>1 DEF trail
  <2>4. IsFiniteSet(Counted(c))
    BY <1>5, <2>1, <2>2, CountMoves
  <2> HIDE DEF c
  <2>5. CASE run.phase = "abort_grace"
    <3>1. r = seen
      BY <1>11, <2>5 DEF SessionEvent, seen, trail
    <3> QED BY <1>6, <2>3, <2>4, <2>5, <3>1 DEF ToolSound, c
  <2>6. CASE run.phase \in {"prompt_dispatch", "model_turn", "tool_exec"}
    <3>1. r = ToolStarted(seen, e.id, now)
      BY <1>11, <2>6 DEF SessionEvent, seen, trail
    <3>2. seen.pending = Cardinality(Counted(calls))
      BY <1>6, <2>6 DEF ToolSound
    <3>3. ToolSound(ToolStarted(seen, e.id, now), [calls EXCEPT ![e.id] = "open"])
      BY <1>5, <1>6, <2>1, <2>2, <2>3, <3>2, ToolCallTools
    <3> QED BY <2>2, <3>1, <3>3 DEF c
  <2> QED BY <1>11, <2>1, <2>5, <2>6 DEF RunType, Phase, StartingPhase, RunningPhase
<1>12. CASE ~IsTerminal(run) /\ e.t = "tool_end"
  <2>1. calls[e.id] = "open" /\ e.id \in Tools
    BY <1>1, <1>12 DEF Reportable
  <2>2. c = [calls EXCEPT ![e.id] = IF Refuses(e.id) THEN "refused" ELSE "idle"]
    BY <1>12 DEF CallsAfter
  <2>3. run.phase \in {"tool_exec", "abort_grace"}
    BY <1>12, <2>1 DEF ToolSound, NoneOpen
  <2> HIDE DEF c
  <2>4. CASE Refuses(e.id)
    <3>1. run.phase = "tool_exec" /\ ~Known(run, e.id)
      BY <2>3, <2>4 DEF Refuses
    <3>2. r = run
      BY <1>12, <3>1 DEF SessionEvent
    <3>3. ~OnRecord(run.trail, e.id)
      BY <3>1 DEF Known, OnRecord
    <3>4. Recorded(run.trail, [calls EXCEPT ![e.id] = "refused"])
      BY <1>1, <1>5, <1>12, <2>1, <3>3, TrailRecords
    <3>5. Counted([calls EXCEPT ![e.id] = "refused"]) = Counted(calls)
      BY <1>5, <2>1, CountMoves
    <3>6. c = [calls EXCEPT ![e.id] = "refused"]
      BY <2>2, <2>4
    <3>7. ToolSound(run, c)
      BY <1>5, <3>1, <3>4, <3>5, <3>6 DEF ToolSound
    <3> QED BY <3>2, <3>7 DEF c
  <2>5. CASE ~Refuses(e.id)
    <3>1. c = [calls EXCEPT ![e.id] = "idle"]
      BY <2>2, <2>5
    <3>2. Recorded(trail, c)
      <4>1. Recorded(Trail(run, e), [calls EXCEPT ![e.id] = "idle"])
        BY <1>1, <1>5, <1>12, <2>1, TrailRecords
      <4> QED BY <3>1, <4>1 DEF trail
    <3>3. IsFiniteSet(Counted(c))
      BY <1>5, <2>1, <3>1, CountMoves
    <3>4. CASE run.phase = "abort_grace"
      <4>1. r = seen
        BY <1>12, <3>4 DEF SessionEvent, seen, trail
      <4> QED BY <1>6, <3>2, <3>3, <3>4, <4>1 DEF ToolSound, c
    <3>5. CASE run.phase = "tool_exec"
      <4>1. Known(run, e.id)
        BY <2>5, <3>5 DEF Refuses
      <4>2. r = ToolEnded(seen, now)
        BY <1>12, <3>5, <4>1 DEF SessionEvent, seen, trail
      <4>3. seen.pending = Cardinality(Counted(calls))
        BY <1>6, <3>5 DEF ToolSound
      <4>4. ToolSound(ToolEnded(seen, now), [calls EXCEPT ![e.id] = "idle"])
        BY <1>5, <1>6, <2>1, <3>1, <3>2, <3>5, <4>3, ToolCallTools
      <4> QED BY <3>1, <4>2, <4>4 DEF c
    <3> QED BY <2>3, <3>4, <3>5
  <2> QED BY <2>4, <2>5
<1>13. CASE ~IsTerminal(run) /\ run.phase = "abort_grace" /\ e.t \notin {"tool_start", "tool_end"}
  <2>1. r = seen
    BY <1>13 DEF SessionEvent, seen, trail
  <2> QED BY <1>3, <1>9, <1>13, <2>1
<1>14. CASE ~IsTerminal(run) /\ run.phase # "abort_grace" /\ e.t \notin {"tool_start", "tool_end"}
  <2>1. trail = run.trail /\ c = calls /\ run.phase \notin {"abort_grace", "settled"}
    BY <1>3, <1>14
  <2> HIDE DEF c
  <2>2. CASE e.t = "text"
    <3>1. r \in {run, seen}
      BY <1>14, <2>2 DEF SessionEvent, seen, trail
    <3> QED BY <1>9, <2>1, <3>1 DEF c
  <2>3. CASE e.t \in {"retry_start", "compaction_start"}
    <3>1. \E phase \in {"retry_backoff", "compaction"} : r = Enter(seen, "running", phase, now)
      BY <1>14, <2>3 DEF SessionEvent, seen, trail
    <3>2. NoneOpen(calls)
      BY <2>3 DEF Reportable, NoneOpen
    <3> QED BY <1>8, <2>1, <3>1, <3>2 DEF RunningPhase, c
  <2>4. CASE e.t \in {"retry_end", "compaction_end"}
    <3>1. run.phase \in {"retry_backoff", "compaction"} /\ r = Enter(seen, "running", "model_turn", now)
      BY <1>14, <2>4 DEF SessionEvent, seen, trail, Reportable
    <3>2. NoneOpen(calls)
      BY <3>1 DEF ToolSound
    <3> QED BY <1>8, <2>1, <3>1, <3>2 DEF RunningPhase, c
  <2>5. CASE e.t = "other"
    <3>1. \/ r = Enter(seen, "running", "model_turn", now) /\ run.phase = "prompt_dispatch"
          \/ r \in {seen, run}
      BY <1>14, <2>5 DEF SessionEvent, seen, trail, StartingPhase
    <3>2. run.phase = "prompt_dispatch" => NoneOpen(calls)
      BY DEF ToolSound
    <3> QED BY <1>8, <1>9, <2>1, <3>1, <3>2 DEF RunningPhase, c
  <2> QED BY <1>4, <1>14, <2>2, <2>3, <2>4, <2>5 DEF EventKind
<1> QED BY <1>10, <1>11, <1>12, <1>13, <1>14

\* What a run starts with.
LEMMA EnqueuedShape ==
  ASSUME NEW at \in Nat, NEW cap \in Instant
  PROVE  LET r == Enqueued(at, cap)
         IN  /\ r.pending = 0 /\ r.reason = "none" /\ r.cause = "none"
             /\ "abort_grace" \notin r.armed
             /\ \/ r.phase = "settled" /\ r.status = "failed" /\ r.deadline = 0 /\ r.hard = 0
                \/ r.phase = "queue_wait" /\ r.status = "queued" /\ r.deadline > at
<1> DEFINE expired == cap # Undef /\ cap <= at
           first == Tighten(at + Budget.total, cap)
           last == Tighten(at + ExtendableSpan, cap)
           queue == IF Budget.queueWait = 0 THEN {} ELSE {"queue"}
           armed == {"total"} \cup queue
           t == [Fresh(at) EXCEPT !.deadline = first, !.hard = last, !.armed = armed]
           gone == Finish(Fresh(at), "failed", at)
<1>1. /\ gone.pending = 0 /\ gone.reason = "none" /\ gone.cause = "none"
      /\ gone.phase = "settled" /\ gone.status = "failed" /\ gone.deadline = 0 /\ gone.hard = 0
      /\ gone.armed = {}
  BY DEF Finish, Fresh
<1>2. ~expired => first > at
  BY BudgetFacts DEF Tighten, Lower, Instant, Undef
<1>3. "abort_grace" \notin armed
  OBVIOUS
<1> HIDE DEF first, last, armed
<1>4. /\ t.pending = 0 /\ t.reason = "none" /\ t.cause = "none"
      /\ t.phase = "queue_wait" /\ t.status = "queued" /\ t.deadline = first /\ t.armed = armed
  BY DEF Fresh
<1>5. Enqueued(at, cap) = IF expired THEN gone ELSE t
  BY DEF Enqueued, first, last, armed
<1> HIDE DEF t, gone, expired
<1> QED BY <1>1, <1>2, <1>3, <1>4, <1>5

LEMMA ToolStart ==
  ASSUME EndInv, SealInv, ToolInv, [Next]_vars, pc = "idle"
  PROVE  ToolInv'
<1>1. now \in Nat /\ session # "live"
  BY DEF EndInv, IInv, TypeOK, SealInv
<1>2. CASE \E cap \in Caps, aborted \in BOOLEAN : Start(cap, aborted)
  <2>1. PICK cap \in Caps, aborted \in BOOLEAN : Start(cap, aborted)
    BY <1>2
  <2>2. /\ run' = Enqueued(now, cap) /\ pc' \in {"done", "acquire"} /\ session' = session
        /\ calls' = calls
    BY <2>1 DEF Start
  <2>3. run'.pending = 0 /\ run'.phase \in {"settled", "queue_wait"}
    BY <1>1, <2>2, EnqueuedShape, Constants
  <2>4. calls' = [id \in Tools |-> "idle"]
    BY <2>2 DEF ToolInv
  <2>5. ToolSound(run', calls')
    BY <2>3, <2>4, IdleTools
  <2> QED BY <1>1, <2>2, <2>3, <2>4, <2>5 DEF ToolInv
<1>3. CASE run' = run /\ pc' = pc /\ calls' = calls
  BY <1>3 DEF ToolInv, ToolSound
<1>4. (run' = run /\ pc' = pc /\ calls' = calls) \/ \E cap \in Caps, aborted \in BOOLEAN : Start(cap, aborted)
  BY DEF EndInv, HeldInv, Next, Runner, Environment, vars, BindSettles, GuardSeesTicket, GuardTimeout, AcquireContinue,
         CreateContinue, BindContinue, PromptContinue, PromptTimer, Reap, Dispose, PoolGrant, PoolExpire,
         CreateSettles, PromptSettles, LateArrival, WatchdogTick, AbortRun, ParentSignal, BudgetExceeded, Cancel,
         Registered, Waiting, ExtendDeadline, ObserveRun, HandleActive, Report, Tick
<1> QED BY <1>2, <1>3, <1>4

LEMMA ToolStep == EndInv /\ SealInv /\ ToolInv /\ [Next]_vars => ToolInv'
<1> SUFFICES ASSUME EndInv, SealInv, ToolInv, [Next]_vars PROVE ToolInv'
  OBVIOUS
<1> DEFINE Early == {"queue_wait", "resolve_config", "session_create", "extension_bind"}
<1>1. CASE pc = "idle"
  BY <1>1, ToolStart
<1>2. CASE pc # "idle"
  <2>1. Moves /\ Sound(run) /\ now \in Nat /\ run \in RunType
    BY <1>2, StepMoves DEF EndInv, IInv, TypeOK, RunSound
  <2>18. ToolSound(run, calls) /\ calls \in [Tools -> CallState]
    BY DEF EndInv, IInv, TypeOK, ToolInv
  <2>2. IsTerminal(run) <=> run.phase = "settled"
    BY <2>1 DEF Sound
  <2>3. ASSUME run' = run, calls' = calls, pc' = pc \/ (pc = "done" /\ pc' = "reaped"), session' = "live" => session = "live"
        PROVE  ToolInv'
    BY <2>3, <2>18 DEF ToolInv
  <2>4. ASSUME Closes(run, run'), calls' = calls, pc' = pc, session' = session PROVE ToolInv'
    <3>1. ToolSound(run', calls') /\ run'.pending = run.pending
      BY <2>4, <2>18, ClosesTools DEF Closes, Quiet
    <3>2. run'.phase \in {run.phase, "abort_grace", "settled"}
      BY <2>4 DEF Closes
    <3> QED BY <2>4, <3>1, <3>2 DEF ToolInv
  <2>5. ASSUME Closes(run, run'), calls' = calls, pc' = "done",
               session' # "live" \/ run'.phase \in {"abort_grace", "settled"} \/ pc = "prompt"
        PROVE  ToolInv'
    <3>1. ToolSound(run', calls')
      BY <2>5, <2>18, ClosesTools
    <3>2. run'.phase \in {run.phase, "abort_grace", "settled"}
      BY <2>5 DEF Closes
    <3> QED BY <2>5, <3>1, <3>2 DEF ToolInv
  <2>6. ASSUME NEW s \in RunType, s.pending = 0, ~IsTerminal(s), calls' = [id \in Tools |-> "idle"],
               NEW phase \in {"session_create", "extension_bind", "prompt_dispatch"},
               run' = PhaseEntered(s, phase, now)
        PROVE  ToolSound(run', calls') /\ run'.phase = phase /\ run'.pending = 0
    <3>1. Quiet(s, run')
      BY <2>1, <2>6, PhaseEnteredQuiet DEF Phase, StartingPhase
    <3>2. run'.phase = phase
      BY <2>6, PhaseEnteredOn
    <3>3. run'.pending = 0
      BY <2>6, <3>1 DEF Quiet
    <3>4. ToolSound(run', [id \in Tools |-> "idle"])
      BY <3>2, <3>3, IdleTools
    <3> QED BY <2>6, <3>2, <3>3, <3>4
  <2>7. ASSUME calls' = calls, pc = "acquire", pc' = "create",
               run' = PhaseEntered(SlotAcquired(run, now), "session_create", now)
        PROVE  ToolInv'
    <3> DEFINE s == SlotAcquired(run, now)
    <3>1. s \in RunType /\ Quiet(run, s) /\ GoesOn(run, s)
      BY <2>1, SlotAcquiredSound, SoundType, SlotAcquiredQuiet, SlotAcquiredOn
    <3>2. s.pending = 0 /\ calls = [id \in Tools |-> "idle"]
      BY <2>7, <3>1 DEF ToolInv, Quiet
    <3> HIDE DEF s
    <3>3. run' = PhaseEntered(s, "session_create", now)
      BY <2>7 DEF s
    <3>4. CASE IsTerminal(run)
      <4>1. run' = run
        BY <3>1, <3>3, <3>4 DEF GoesOn, PhaseEntered
      <4> QED BY <2>7, <2>18, <4>1 DEF ToolInv
    <3>5. CASE ~IsTerminal(run)
      <4>1. ~IsTerminal(s)
        BY <3>1, <3>5 DEF GoesOn
      <4>2. ToolSound(run', calls') /\ run'.pending = 0
        BY <2>6, <2>7, <3>1, <3>2, <3>3, <4>1
      <4> QED BY <2>7, <3>2, <4>2 DEF ToolInv
    <3> QED BY <3>4, <3>5
  <2>8. ASSUME calls' = calls, pc = "create", guard = "ok", pc' = "bind",
               run' = PhaseEntered(run, "extension_bind", now)
        PROVE  ToolInv'
    <3>1. ~IsTerminal(run) /\ run.pending = 0 /\ calls = [id \in Tools |-> "idle"]
      BY <2>8 DEF SealInv, ToolInv
    <3>2. ToolSound(run', calls') /\ run'.phase = "extension_bind" /\ run'.pending = 0
      BY <2>1, <2>6, <2>8, <3>1
    <3> QED BY <2>8, <3>1, <3>2 DEF ToolInv
  <2>9. ASSUME calls' = calls, pc = "bind", pc' = "prompt", run' = PhaseEntered(run, "prompt_dispatch", now)
        PROVE  ToolInv'
    <3>1. run.pending = 0 /\ calls = [id \in Tools |-> "idle"]
      BY <2>9 DEF ToolInv
    <3>2. CASE IsTerminal(run)
      <4>1. run' = run /\ run.phase = "settled"
        BY <2>2, <2>9, <3>2 DEF PhaseEntered
      <4> QED BY <2>9, <2>18, <4>1 DEF ToolInv
    <3>3. CASE ~IsTerminal(run)
      <4>1. ToolSound(run', calls') /\ run'.phase = "prompt_dispatch"
        BY <2>1, <2>6, <2>9, <3>1, <3>3
      <4> QED BY <2>9, <4>1 DEF ToolInv
    <3> QED BY <3>2, <3>3
  <2>10. ASSUME calls' = calls, pc = "bind", pc' = "done", NEW kind, run' = StartupFailed(run, "extension_bind", kind, now)
         PROVE  ToolInv'
    <3>1. "extension_bind" \in Reason
      BY DEF Reason
    <3>2. Closes(run, run') /\ (run.phase = "extension_bind" => run'.phase = "settled" \/ IsTerminal(run))
      BY <2>1, <2>10, <3>1, StartupFailedCloses
    <3>3. run.phase \in {"extension_bind", "abort_grace", "settled"}
      BY <2>10 DEF ToolInv
    <3>4. run'.phase \in {"abort_grace", "settled"}
      BY <2>2, <3>2, <3>3 DEF Closes
    <3> QED BY <2>5, <2>10, <3>2, <3>4
  <2>11. ASSUME calls' = calls, pc = "prompt", pc' = pc, NEW timer \in Timer, NEW reason \in Reason,
                timer = "total" => run.deadline <= now, FireDeadline(timer, reason)
         PROVE  ToolInv'
    <3>1. Closes(run, run')
      BY <2>1, <2>11, DeadlineFiredSound, SoundType, FireDeadlineCloses
    <3>2. ToolSound(run', calls')
      BY <2>11, <2>18, <3>1, ClosesTools
    <3> QED BY <2>11, <3>1, <3>2 DEF ToolInv, Closes
  <2>12. ASSUME calls' = calls, pc' = pc, session' = session, NEW ms \in ExtendBy, run' = DeadlineExtended(run, ms, now)
         PROVE  ToolInv'
    <3>1. run'.phase = run.phase
      BY <2>1, <2>12, DeadlineExtendedOn
    <3>2. run'.trail = run.trail /\ run'.pending = run.pending
      BY <2>1, <2>12, DeadlineExtendedLater, Constants
    <3>3. ToolSound(run', calls')
      BY <2>12, <2>18, <3>1, <3>2 DEF ToolSound
    <3> QED BY <2>12, <3>1, <3>2, <3>3 DEF ToolInv
  <2>13. ASSUME pc \in {"prompt", "done", "reaped"}, session = "live", pc' = pc, session' = session,
                NEW e \in SessionEvents, Reportable(e), run' = SessionEvent(run, e, now),
                calls' = CallsAfter(e)
         PROVE  ToolInv'
    <3>1. run.phase \notin Early
      BY <2>13 DEF ToolInv
    <3>2. ToolSound(run', calls')
      BY <2>1, <2>2, <2>13, <2>18, <3>1, SessionEventTools
    <3>3. run'.phase \in {run.phase} \cup RunningPhase
      BY <2>1, <2>13, SessionEventOn
    <3>4. run'.phase \notin Early
      BY <3>1, <3>3 DEF RunningPhase
    <3> QED BY <2>13, <3>2, <3>4 DEF ToolInv
  <2>14. ASSUME calls' = calls, pc = "acquire", pc' = "done", session' = session, NEW why, run' = SlotDenied(run, why, now)
         PROVE  ToolInv'
    <3>1. session # "live"
      BY <2>14 DEF SealInv
    <3>2. Closes(run, run')
      BY <2>1, <2>14, SlotDeniedCloses
    <3> QED BY <2>5, <2>14, <3>1, <3>2
  <2>15. ASSUME calls' = calls, pc = "create", pc' = "done", session' # "live",
                NEW kind, run' = StartupFailed(run, "session_create", kind, now)
         PROVE  ToolInv'
    <3>1. "session_create" \in Reason
      BY DEF Reason
    <3>2. Closes(run, run')
      BY <2>1, <2>15, <3>1, StartupFailedCloses
    <3> QED BY <2>5, <2>15, <3>2
  <2>16. ASSUME calls' = calls, pc = "prompt", pc' = "done", run' = PromptSettled(run, ErrorOf(guard), now)
         PROVE  ToolInv'
    <3>1. Closes(run, run')
      BY <2>1, <2>16, PromptSettledCloses
    <3> QED BY <2>5, <2>16, <3>1
  <2>17. ASSUME calls' = calls, pc' = pc, session' = session, NEW cause \in {"user_stop", "parent_abort"},
                run' = StopRequested(run, cause, now)
         PROVE  ToolInv'
    <3>1. Closes(run, run')
      BY <2>1, <2>17, StopRequestedCloses DEF Cause
    <3> QED BY <2>4, <2>17, <3>1
  <2> QED BY <2>1, <2>3, <2>7, <2>8, <2>9, <2>10, <2>11, <2>12, <2>13, <2>14, <2>15, <2>16, <2>17 DEF Moves
<1> QED BY <1>1, <1>2

LEMMA ToolAlways == Spec => []ToolInv
<1>1. Init => ToolInv
  <2> SUFFICES ASSUME Init PROVE ToolInv
    OBVIOUS
  <2>1. Fresh(0).pending = 0 /\ Fresh(0).phase = "queue_wait"
    BY DEF Fresh
  <2>2. ToolSound(Fresh(0), [id \in Tools |-> "idle"])
    BY <2>1, IdleTools
  <2> QED BY <2>1, <2>2 DEF Init, ToolInv
<1> QED BY <1>1, ToolStep, EndAlways, SealAlways, PTL DEF Spec

\* The run is in tool_exec until its last call ends; it counts the calls in flight and
\* those whose end was refused, which takes HistoryCap records.
THEOREM ToolsCounted == Spec => []ToolPhaseCounts
<1>1. TypeOK /\ ToolInv => ToolPhaseCounts
  <2> SUFFICES ASSUME TypeOK, ToolInv PROVE ToolPhaseCounts
    OBVIOUS
  <2>1. ToolSound(run, calls)
    BY DEF ToolInv
  <2>2. Len(run.trail) \in Nat /\ Len(run.trail) <= HistoryCap /\ HistoryCap \in Nat
    BY HistoryAssumption DEF TypeOK, RunType, History
  <2>3. (\E id \in Tools : calls[id] = "refused") => Len(run.trail) = HistoryCap
    BY <2>1, <2>2 DEF ToolSound, Recorded
  <2> QED BY <2>1, <2>3 DEF ToolSound, Counted, NoneOpen, ToolPhaseCounts
<1> QED BY <1>1, ToolAlways, TypeCorrect, PTL

-------------------------------------------------------------------------------
(* The total budget.  Two timers name it as the reason: that of the soft   *)
(* deadline or its grace window, and that of an abort grace.  The second   *)
(* never ends a run that nobody has stopped, so only the first may blame   *)
(* the budget for a run, and the guard of the prompt never does.           *)

TotalInv ==
  /\ Graced(run)
  /\ pc = "prompt" => guard # "timeout"
  /\ run.cause = "timeout" => run.reason # "none"
  /\ run.reason = "total" => run.deadline <= now

BlamedLate ==
  run.reason # "total" /\ run'.reason = "total" => now >= EffectiveDeadline(run)

LEMMA FireDeadlineNames ==
  ASSUME run \in RunType, now \in Nat, ~Ending(run), NEW timer, NEW reason \in Reason,
         run.cause = "timeout" => run.reason # "none", FireDeadline(timer, reason),
         DeadlineFired(run, timer, reason, now) \in RunType
  PROVE  run'.cause = "timeout" => run'.reason # "none"
<1> DEFINE fired == DeadlineFired(run, timer, reason, now)
           stopped == StopRequested(fired, "timeout", now)
           removed == [run EXCEPT !.armed = @ \ {timer}]
           named == [removed EXCEPT !.reason = IF @ = "none" THEN reason ELSE @]
           renamed == [removed EXCEPT !.reason = reason]
           late == [removed EXCEPT !.reason = "queue_timeout"]
           killed == [removed EXCEPT !.reason = reason, !.cause = "timeout"]
           graced == [removed EXCEPT !.grace = GraceWindow(run, now), !.graces = @ + 1]
<1>1. \A u \in {named, renamed, late, killed} : u \in RunType /\ u.reason # "none"
  <2>1. named \in RunType /\ named.reason # "none"
    <3> DEFINE why == IF run.reason = "none" THEN reason ELSE run.reason
    <3>1. why \in Reason /\ why # "none"
      BY DEF RunType, Reason
    <3>2. named = [removed EXCEPT !.reason = why]
      BY DEF RunType
    <3> HIDE DEF why, named
    <3> QED BY <3>1, <3>2 DEF RunType
  <2>3. renamed \in RunType /\ renamed.reason # "none"
    BY DEF RunType, Reason
  <2>2. late \in RunType /\ late.reason # "none" /\ killed \in RunType /\ killed.reason # "none"
    BY DEF RunType, Reason, Cause
  <2> QED BY <2>1, <2>2, <2>3
<1>2. /\ Rearm(graced).cause = run.cause /\ Rearm(graced).reason = run.reason
      /\ Rearm(graced).status = run.status
  BY DEF RunType, Rearm
<1> HIDE DEF named, renamed, late, killed, graced
<1>3. \/ fired \in {run, Rearm(graced)}
      \/ \E u \in {named, renamed, late, killed} : \E status :
           fired = Finish(u, status, now) \/ fired = Enter(u, "stopping", "abort_grace", now)
  BY Zenon DEF DeadlineFired, named, renamed, late, killed, graced
<1>4. \/ fired.cause = run.cause /\ fired.reason = run.reason /\ fired.status = run.status
      \/ fired.reason # "none"
  BY <1>1, <1>2, <1>3, FinishShape, EnterShape
<1>5. stopped.reason = fired.reason
  BY StopRequestedCloses DEF Cause
<1>6. (run' = stopped /\ (fired.status = "stopping" \/ IsTerminal(fired))) \/ run' = fired
  BY DEF FireDeadline, Dispatch
<1> HIDE DEF fired, stopped
<1> QED BY <1>4, <1>5, <1>6 DEF Ending, IsTerminal

\* When the deadline in force has passed, the timer of the prompt ends the run or opens
\* a grace window that is still to come: its guard has nothing left to time out for.
LEMMA TimerMovesOn ==
  ASSUME TypeOK, Sound(run), ~Ending(run), cancel = "none",
         FireDeadline(TotalTimer(run), "total"), cancel' = "none"
  PROVE  EffectiveDeadline(run') > now
<1> DEFINE timer == TotalTimer(run)
           fired == DeadlineFired(run, timer, "total", now)
           removed == [run EXCEPT !.armed = @ \ {timer}]
           named == [removed EXCEPT !.reason = IF @ = "none" THEN "total" ELSE @]
           renamed == [removed EXCEPT !.reason = "total"]
           late == [removed EXCEPT !.reason = "queue_timeout"]
           killed == [removed EXCEPT !.reason = "total", !.cause = "timeout"]
           until == GraceWindow(run, now)
           graced == [removed EXCEPT !.grace = until, !.graces = @ + 1]
<1>1. run \in RunType /\ now \in Nat /\ ~IsTerminal(run) /\ timer \in run.armed
  BY DEF Sound, TypeOK, Ending, IsTerminal
<1>2. ~(timer = "total" /\ run.grace # Undef)
  BY DEF TotalTimer
<1>3. \A u \in {named, renamed, late, killed} : u \in RunType
  <2>1. named \in RunType /\ renamed \in RunType
    BY <1>1 DEF RunType, Reason
  <2>2. late \in RunType /\ killed \in RunType
    BY <1>1 DEF RunType, Reason, Cause
  <2> QED BY <2>1, <2>2
<1>4. until # Undef => until > now
  <2>1. run.hard \in Nat /\ run.deadline \in Nat
    BY <1>1 DEF RunType
  <2> QED BY <1>1, <2>1, BudgetFacts DEF GraceWindow, Extendable, Headroom, Lower, Higher
<1>5. Rearm(graced).grace = until
  BY <1>1 DEF Rearm, RunType
<1> HIDE DEF named, renamed, late, killed, graced, until, timer
<1>6. \/ fired = Rearm(graced) /\ until # Undef
      \/ \E u \in {named, renamed, late, killed}, status \in Terminal :
           fired = Finish(u, status, now) \/ fired = Enter(u, "stopping", "abort_grace", now)
  BY <1>1, <1>2, Zenon DEF DeadlineFired, named, renamed, late, killed, graced, until, Terminal
<1>7. fired.status # "stopping" /\ ~IsTerminal(fired) /\ run' = fired
  BY DEF FireDeadline, Dispatch, timer
<1> HIDE DEF fired
<1>8. fired = Rearm(graced) /\ until # Undef
  BY <1>3, <1>6, <1>7, FinishShape, EnterShape DEF IsTerminal
<1> QED BY <1>4, <1>5, <1>7, <1>8 DEF EffectiveDeadline

\* The guard of the prompt is settled by its promise or by a cancel, never by its timer.
LEMMA PromptNeverTimesOut ==
  ASSUME EndInv, pc = "prompt" => guard # "timeout", [Next]_vars
  PROVE  pc' = "prompt" => guard' # "timeout"
<1>1. TypeOK /\ (pc # "idle" => Sound(run)) /\ now \in Nat /\ run \in RunType /\ WakeInv
  BY DEF EndInv, IInv, TypeOK, RunSound
<1>2. CASE PromptTimer
  <2>1. pc = "prompt" /\ guard = "pending"
    BY <1>2 DEF PromptTimer
  <2>2. cancel = "none" /\ ~Ending(run)
    BY <1>1, <2>1 DEF WakeInv, Waiting
  <2>3. FireDeadline(TotalTimer(run), "total") /\ cancel' = "none" => EffectiveDeadline(run') > now
    BY <1>1, <2>1, <2>2, TimerMovesOn
  <2> QED BY <1>2, <2>1, <2>3 DEF PromptTimer
<1>3. CASE AcquireContinue \/ CreateContinue \/ BindContinue \/ PromptContinue
  BY <1>3 DEF AcquireContinue, CreateContinue, BindContinue, PromptContinue, Return, Await
<1>4. CASE \/ PoolGrant \/ PoolExpire \/ GuardSeesTicket \/ GuardTimeout \/ ObserveRun \/ Reap \/ Tick
           \/ \E ok \in BOOLEAN : CreateSettles(ok)
           \/ \E ok \in BOOLEAN : BindSettles(ok)
           \/ \E verdict \in {"ok", "turn_error", "error"} : PromptSettles(verdict)
           \/ \E end \in {"failed", "disposed", "threw", "unkillable"} : LateArrival(end)
           \/ \E end \in {"disposed", "threw", "unkillable"} : Dispose(end)
  BY <1>4 DEF PoolGrant, PoolExpire, GuardSeesTicket, GuardTimeout, ObserveRun, Reap, Tick,
              CreateSettles, BindSettles, PromptSettles, LateArrival, Dispose, Settle
<1>5. CASE \/ AbortRun \/ ParentSignal \/ BudgetExceeded
           \/ \E cap \in Caps, aborted \in BOOLEAN : Start(cap, aborted)
           \/ \E timer \in Timer : WatchdogTick(timer)
           \/ \E ms \in ExtendBy : ExtendDeadline(ms)
           \/ \E e \in SessionEvents : Report(e)
  BY <1>5 DEF AbortRun, ParentSignal, BudgetExceeded, Cancel, Settle, Start, WatchdogTick,
              ExtendDeadline, Report
<1>6. CASE UNCHANGED vars
  BY <1>6 DEF vars
<1> QED BY <1>2, <1>3, <1>4, <1>5, <1>6 DEF Next, Runner, Environment

\* Every step of an accepted run keeps the deadline or extends it, and blames the total
\* budget for an end only after the deadline in force.
Onward ==
  /\ run'.hard = run.hard
  /\ run'.deadline = run.deadline
       \/ (run.phase \in OvertimePhase /\ ~IsTerminal(run') /\ run'.deadline > run.deadline
                /\ run'.deadline <= run.hard /\ run'.reason = run.reason)

LEMMA TotalMoves ==
  ASSUME EndInv, KillInv, TotalInv, [Next]_vars, pc # "idle"
  PROVE  /\ Onward /\ BlamedLate
         /\ Graced(run')
         /\ run'.cause = "timeout" => run'.reason # "none"
<1>1. /\ Moves /\ Sound(run) /\ now \in Nat /\ run \in RunType /\ TypeOK
      /\ WakeInv /\ TimeoutInv
  BY StepMoves DEF EndInv, IInv, TypeOK, RunSound
<1> DEFINE Goal == /\ Onward /\ BlamedLate /\ Graced(run')
                   /\ run'.cause = "timeout" => run'.reason # "none"
<1>2. ASSUME run' = run PROVE Goal
  BY <1>2 DEF TotalInv, Onward, BlamedLate
<1>3. ASSUME Timed(run, run'), GoesOn(run, run') PROVE Goal
  BY <1>3 DEF TotalInv, Onward, BlamedLate, Timed, GoesOn
<1>4. ASSUME Closes(run, run'), run'.cause = run.cause \/ run'.cause \in {"user_stop", "parent_abort"},
             run'.reason = run.reason \/ run'.reason \in {"queue_timeout", "session_create", "extension_bind"}
      PROVE  Goal
  BY <1>4 DEF TotalInv, Onward, BlamedLate, Closes, Quiet, Timed
<1>5. ASSUME run' = PhaseEntered(SlotAcquired(run, now), "session_create", now) PROVE Goal
  <2> DEFINE s == SlotAcquired(run, now)
  <2>1. s \in RunType /\ Quiet(run, s) /\ GoesOn(run, s)
    BY <1>1, SlotAcquiredSound, SoundType, SlotAcquiredQuiet, SlotAcquiredOn
  <2> HIDE DEF s
  <2>2. "session_create" \in Phase \ {"abort_grace"}
    BY DEF Phase, StartingPhase
  <2>3. Quiet(s, run') /\ GoesOn(s, run')
    BY <1>1, <1>5, <2>1, <2>2, PhaseEnteredQuiet, PhaseEnteredOn DEF s
  <2>4. Timed(run, run') /\ GoesOn(run, run')
    BY <2>1, <2>3 DEF Quiet, Timed, GoesOn
  <2> QED BY <1>3, <2>4
<1>6. ASSUME NEW phase \in {"extension_bind", "prompt_dispatch"}, run' = PhaseEntered(run, phase, now)
      PROVE  Goal
  <2>1. phase \in Phase \ {"abort_grace"}
    BY DEF Phase, StartingPhase
  <2>2. Quiet(run, run') /\ GoesOn(run, run')
    BY <1>1, <1>6, <2>1, PhaseEnteredQuiet, PhaseEnteredOn
  <2> QED BY <1>3, <2>2 DEF Quiet
<1>7. ASSUME NEW why, run' = SlotDenied(run, why, now) PROVE Goal
  BY <1>1, <1>4, <1>7, SlotDeniedCloses
<1>8. ASSUME NEW phase \in {"session_create", "extension_bind"}, NEW kind,
             run' = StartupFailed(run, phase, kind, now)
      PROVE  Goal
  <2>1. phase \in Reason
    BY DEF Reason
  <2> QED BY <1>1, <1>4, <1>8, <2>1, StartupFailedCloses
<1>9. ASSUME NEW cause \in {"user_stop", "parent_abort"}, run' = StopRequested(run, cause, now) PROVE Goal
  <2>1. cause \in Cause
    BY DEF Cause
  <2> QED BY <1>1, <1>4, <1>9, <2>1, StopRequestedCloses
<1>10. ASSUME pc = "prompt", run' = PromptSettled(run, ErrorOf(guard), now) PROVE Goal
  <2>1. /\ Closes(run, run') /\ run'.cause = run.cause
        /\ run'.reason = run.reason \/ (ErrorOf(guard) = "timeout" /\ run.reason = "none")
    BY <1>1, <1>10, PromptSettledCloses
  <2>2. guard # "timeout" /\ (run.cause = "timeout" => run.reason # "none")
    BY <1>10 DEF TotalInv
  <2>3. ErrorOf(guard) = "timeout" => run.reason # "none"
    BY <2>2 DEF ErrorOf
  <2> QED BY <1>4, <2>1, <2>3
<1>11. ASSUME pc = "prompt", guard = "pending", cancel = "none",
              NEW timer \in Timer, NEW reason \in Reason,
              timer \in run.armed \/ timer = TotalTimer(run),
              timer = "total" => run.deadline <= now,
              reason = "total" => EffectiveDeadline(run) <= now \/ timer = "abort_grace",
              FireDeadline(timer, reason)
       PROVE  Goal
  <2>1. ~Ending(run)
    BY <1>1, <1>11 DEF WakeInv, Waiting
  <2>2. DeadlineFired(run, timer, reason, now) \in RunType
    BY <1>1, <1>11, DeadlineFiredSound, SoundType
  <2>3. Closes(run, run') /\ run'.reason \in {run.reason, reason, "queue_timeout"}
    BY <1>1, <1>11, <2>2, FireDeadlineCloses
  <2>4. run'.cause = "timeout" => run'.reason # "none"
    BY <1>1, <1>11, <2>1, <2>2, FireDeadlineNames DEF TotalInv
  <2>5. timer # "abort_grace"
    BY <1>11, <2>1 DEF TotalInv, Graced, Ending, TotalTimer
  <2>6. BlamedLate
    BY <1>1, <1>11, <2>3, <2>5, Durations, Constants DEF BlamedLate
  <2> QED BY <2>3, <2>4, <2>6 DEF TotalInv, Onward, Closes, Quiet, Timed
<1>12. ASSUME NEW ms \in ExtendBy, run' = DeadlineExtended(run, ms, now) PROVE Goal
  <2>1. GoesOn(run, run')
    BY <1>1, <1>12, DeadlineExtendedOn
  <2>2. /\ run'.hard = run.hard /\ (Graced(run) => Graced(run'))
        /\ \/ run' = run
           \/ run.phase \in OvertimePhase /\ run'.deadline > run.deadline /\ run'.deadline <= run.hard
    BY <1>1, <1>12, DeadlineExtendedLater, Constants
  <2>3. CASE run' = run
    BY <1>2, <2>3
  <2>4. CASE run' # run
    BY <2>1, <2>2, <2>4 DEF TotalInv, Onward, BlamedLate, GoesOn
  <2> QED BY <2>3, <2>4
<1>13. ASSUME NEW e \in SessionEvents, run' = SessionEvent(run, e, now) PROVE Goal
  BY <1>1, <1>3, <1>13, SessionEventTimed, SessionEventOn
<1> HIDE DEF Goal
<1>14. Goal
  BY <1>1, <1>2, <1>5, <1>6, <1>7, <1>8, <1>9, <1>10, <1>11, <1>12, <1>13 DEF Moves
<1> QED BY <1>14 DEF Goal

LEMMA TotalStep ==
  ASSUME EndInv, KillInv, TotalInv, [Next]_vars
  PROVE  TotalInv' /\ BlamedLate
<1>1. TypeOK /\ (pc # "idle" => Sound(run)) /\ now \in Nat /\ run \in RunType /\ TimeoutInv
  BY DEF EndInv, IInv, TypeOK, RunSound
<1>2. pc' = "prompt" => guard' # "timeout"
  BY PromptNeverTimesOut DEF TotalInv
<1>3. CASE pc = "idle"
  <2>1. (run' = run /\ now' = now) \/ \E cap \in Caps, aborted \in BOOLEAN : Start(cap, aborted)
    BY <1>3 DEF EndInv, HeldInv, Next, Runner, Environment, vars, BindSettles, GuardSeesTicket, GuardTimeout,
       AcquireContinue, CreateContinue, BindContinue, PromptContinue, PromptTimer, Reap, Dispose, PoolGrant,
       PoolExpire, CreateSettles, PromptSettles, LateArrival, WatchdogTick, AbortRun, ParentSignal, BudgetExceeded, Cancel,
       Registered, Waiting, ExtendDeadline, ObserveRun, HandleActive, Report, Tick
  <2>2. CASE run' = run /\ now' = now
    BY <1>2, <2>2 DEF TotalInv, BlamedLate
  <2>3. CASE \E cap \in Caps, aborted \in BOOLEAN : Start(cap, aborted)
    <3>1. PICK cap \in Caps : run' = Enqueued(now, cap)
      BY <2>3 DEF Start
    <3> QED BY <1>1, <1>2, <3>1, EnqueuedShape, Constants DEF TotalInv, Graced, BlamedLate
  <2> QED BY <2>1, <2>2, <2>3
<1>4. CASE pc # "idle"
  <2>1. /\ Onward /\ BlamedLate /\ Graced(run') /\ (run'.cause = "timeout" => run'.reason # "none")
        /\ now' \in {now, now + 1} /\ Sound(run)
    BY <1>1, <1>4, TotalMoves, StepMoves
  <2>2. ASSUME run'.reason = "total" PROVE run'.deadline <= now
    <3>1. CASE run.reason = "total"
      <4>1. IsTerminal(run) \/ run.phase = "abort_grace"
        BY <1>1, <3>1 DEF KillInv, TimeoutInv, Winding
      <4>2. run.phase \notin OvertimePhase
        BY <2>1, <4>1 DEF Sound, OvertimePhase, RunningPhase
      <4> QED BY <2>1, <3>1, <4>2 DEF Onward, TotalInv
    <3>2. CASE run.reason # "total"
      <4>1. now >= EffectiveDeadline(run)
        BY <2>1, <2>2, <3>2 DEF BlamedLate
      <4>2. run'.deadline = run.deadline
        BY <2>1, <2>2, <3>2 DEF Onward
      <4>3. ASSUME IsTerminal(run) PROVE FALSE
        <5>1. UNCHANGED run
          BY <4>3, TerminalStays DEF EndInv
        <5> QED BY <2>2, <3>2, <5>1
      <4>4. run.deadline <= EffectiveDeadline(run) /\ run.deadline \in Nat /\ EffectiveDeadline(run) \in Nat
        BY <1>1, <2>1, <4>3, Durations, Constants DEF Sound, Ordered, EffectiveDeadline, RunType
      <4> QED BY <1>1, <4>1, <4>2, <4>4
    <3> QED BY <3>1, <3>2
  <2>3. run'.deadline \in Nat
    BY IInvStep DEF EndInv, IInv, TypeOK, RunType
  <2> QED BY <1>1, <1>2, <2>1, <2>2, <2>3 DEF TotalInv
<1> QED BY <1>3, <1>4

LEMMA TotalAlways == Spec => []TotalInv
<1>1. Init => TotalInv
  BY DEF Init, TotalInv, Graced, Fresh
<1> QED BY <1>1, TotalStep, EndAlways, KillAlways, PTL DEF Spec

\* No run is killed for its total budget before the deadline in force.
THEOREM NeverKilledEarly == Spec => NoEarlyKill
<1>1. EndInv /\ KillInv /\ TotalInv /\ [Next]_vars
      => [run.reason # "total" /\ run'.reason = "total" => now >= EffectiveDeadline(run)]_vars
  BY TotalStep DEF BlamedLate
<1> QED BY <1>1, TotalAlways, EndAlways, KillAlways, PTL DEF Spec, NoEarlyKill

-------------------------------------------------------------------------------
(* The observer.  Its entry is there until the run ends, and telling it     *)
(* takes the entry away.                                                    *)

ObserverInv ==
  /\ observer.entry = "live" => ~IsTerminal(run) /\ ~Over
  /\ observer.entry = "ended" => IsTerminal(run) \/ Over
  /\ observer.heard = IF observer.entry = "ended" THEN 1 ELSE 0

LEMMA DispatchTells ==
  ASSUME TypeOK, ObserverInv, NEW r, Dispatch(r), Over' = Over,
         IsTerminal(run) => run' = run
  PROVE  ObserverInv'
<1>1. run' = r /\ observer \in ObserverType
  BY DEF Dispatch, TypeOK, ObserverType
<1>2. CASE ~IsTerminal(run) /\ IsTerminal(r) /\ observer.entry = "live"
  <2>1. observer'.entry = "ended" /\ observer'.heard = observer.heard + 1
    BY <1>2 DEF Dispatch, Informed, EndObservers
  <2> QED BY <1>1, <1>2, <2>1 DEF ObserverInv, IsTerminal
<1>3. CASE ~(~IsTerminal(run) /\ IsTerminal(r) /\ observer.entry = "live")
  <2>1. observer' = observer
    BY <1>3 DEF Dispatch, Informed, EndObservers
  <2> QED BY <1>1, <1>3, <2>1 DEF ObserverInv, IsTerminal
<1> QED BY <1>2, <1>3

LEMMA ReturnTells ==
  ASSUME TypeOK, ObserverInv, NEW r, Return(r)
  PROVE  ObserverInv'
<1>1. Over' /\ observer \in ObserverType
  BY DEF Return, Over, TypeOK, ObserverType
<1>2. CASE observer.entry = "live"
  <2>1. observer'.entry = "ended" /\ observer'.heard = observer.heard + 1
    BY <1>2 DEF Return, Informed, EndObservers
  <2> QED BY <1>1, <1>2, <2>1 DEF ObserverInv
<1>3. CASE observer.entry # "live"
  <2>1. observer' = observer
    BY <1>3 DEF Return, Informed, EndObservers
  <2> QED BY <1>1, <1>3, <2>1 DEF ObserverInv
<1> QED BY <1>2, <1>3

LEMMA ObserverStep == IInv /\ HeldInv /\ ObserverInv /\ [Next]_vars => ObserverInv'
<1> SUFFICES ASSUME IInv, HeldInv, ObserverInv, [Next]_vars PROVE ObserverInv'
  OBVIOUS
<1>1. TypeOK /\ (IsTerminal(run) => run' = run)
  BY TerminalStays DEF IInv
<1>2. ASSUME NEW r, Dispatch(r), (pc \in Waiting /\ pc' \in Waiting) \/ pc' = pc
      PROVE  ObserverInv'
  <2>1. Over' = Over
    BY <1>2 DEF Over, Waiting
  <2> QED BY <1>1, <1>2, <2>1, DispatchTells
<1>3. CASE AcquireContinue \/ CreateContinue
  <2>1. CASE guard = "ok"
    BY <1>2, <1>3, <2>1 DEF AcquireContinue, CreateContinue, Await, Waiting
  <2>2. CASE guard # "ok"
    BY <1>1, <1>3, <2>2, ReturnTells DEF AcquireContinue, CreateContinue
  <2> QED BY <2>1, <2>2
<1>4. CASE BindContinue
  <2>1. CASE pc' = "prompt"
    BY <1>2, <1>4, <2>1, BindPrompts DEF Waiting
  <2>2. CASE pc' # "prompt"
    BY <1>1, <1>4, <2>2, BindFails, ReturnTells
  <2> QED BY <2>1, <2>2
<1>5. CASE PromptContinue
  BY <1>1, <1>5, ReturnTells DEF PromptContinue
<1>6. ASSUME run' = run, observer' = observer, Over' = Over PROVE ObserverInv'
  BY <1>6 DEF ObserverInv
<1>7. CASE PromptTimer
  <2>1. CASE EffectiveDeadline(run) > now
    BY <1>6, <1>7, <2>1 DEF PromptTimer, Over
  <2>2. CASE ~(EffectiveDeadline(run) > now)
    BY <1>2, <1>7, <2>2 DEF PromptTimer, FireDeadline
  <2> QED BY <2>1, <2>2
<1>8. CASE \E timer \in Timer : WatchdogTick(timer)
  BY <1>2, <1>8 DEF WatchdogTick, FireDeadline
<1>9. CASE AbortRun \/ ParentSignal \/ BudgetExceeded
  BY <1>2, <1>6, <1>9 DEF AbortRun, ParentSignal, BudgetExceeded, Cancel, Over
<1>10. CASE \/ \E ms \in ExtendBy : ExtendDeadline(ms)
            \/ \E e \in SessionEvents : Report(e)
  BY <1>2, <1>10 DEF ExtendDeadline, Report
<1>11. CASE \E cap \in Caps, aborted \in BOOLEAN : Start(cap, aborted)
  <2>1. observer' = observer /\ observer.entry = "none"
    BY <1>11 DEF Start, IInv, RunSound
  <2> QED BY <2>1 DEF ObserverInv
<1>12. CASE ObserveRun
  <2>1. /\ observer'.entry = "live" /\ observer'.heard = observer.heard
        /\ observer.entry = "none" /\ ~IsTerminal(run') /\ ~Over'
    BY <1>1, <1>12 DEF ObserveRun, HandleActive, Over, IsTerminal, TypeOK
  <2> QED BY <2>1 DEF ObserverInv
<1>13. CASE \/ PoolGrant \/ PoolExpire \/ GuardSeesTicket \/ GuardTimeout \/ Reap \/ Tick
            \/ \E ok \in BOOLEAN : CreateSettles(ok)
            \/ \E ok \in BOOLEAN : BindSettles(ok)
            \/ \E verdict \in {"ok", "turn_error", "error"} : PromptSettles(verdict)
            \/ \E end \in {"failed", "disposed", "threw", "unkillable"} : LateArrival(end)
            \/ \E end \in {"disposed", "threw", "unkillable"} : Dispose(end)
  BY <1>6, <1>13 DEF PoolGrant, PoolExpire, GuardSeesTicket, GuardTimeout, Reap, Tick,
              CreateSettles, BindSettles, PromptSettles, LateArrival, Dispose, Over
<1>14. CASE UNCHANGED vars
  BY <1>6, <1>14 DEF vars, Over
<1> QED BY <1>3, <1>4, <1>5, <1>7, <1>8, <1>9, <1>10, <1>11, <1>12, <1>13, <1>14
        DEF Next, Runner, Environment

\* An observer hears of the end of its run once: when the run becomes terminal or, without
\* an outcome, when run() returns.
THEOREM ObserversAreTold == Spec => []ObserverEndsWithRun
<1>1. Init => ObserverInv
  BY DEF Init, ObserverInv
<1>2. TypeOK /\ ObserverInv => ObserverEndsWithRun
  <2> SUFFICES ASSUME TypeOK, ObserverInv PROVE ObserverEndsWithRun
    OBVIOUS
  <2>1. observer.entry \in {"none", "live", "ended"}
    BY DEF TypeOK
  <2> QED BY <2>1 DEF ObserverInv, ObserverEndsWithRun
<1> QED BY <1>1, <1>2, ObserverStep, IInvAlways, HeldAlways, TypeCorrect, PTL DEF Spec

-------------------------------------------------------------------------------
(* The run implements RunContract: a step of it is an acceptance, a        *)
(* refusal, an extension, a verdict, the passing of time, or nothing that  *)
(* the caller can see.                                                     *)

\* The first step of a run that the caller sees: it is accepted or refused.
LEMMA ContractStart ==
  ASSUME EndInv, [Next]_vars, pc = "idle"
  PROVE  [Contract!Next]_(Contract!vars)
<1>1. run = Fresh(now) /\ now \in Nat
  BY DEF EndInv, IInv, TypeOK, RunSound
<1>2. ~IsTerminal(run) /\ run.deadline = 0 /\ run.hard = 0
  BY <1>1 DEF Fresh, IsTerminal, Terminal
<1>3. \/ UNCHANGED <<run, now, pc>>
      \/ \E cap \in Caps, aborted \in BOOLEAN : Start(cap, aborted)
  BY DEF EndInv, HeldInv, Next, Runner, Environment, vars, BindSettles, GuardSeesTicket, GuardTimeout,
     AcquireContinue, CreateContinue, BindContinue, PromptContinue, PromptTimer, Reap, Dispose, PoolGrant,
     PoolExpire, CreateSettles, PromptSettles, LateArrival, WatchdogTick, AbortRun, ParentSignal, BudgetExceeded, Cancel,
     Registered, Waiting, ExtendDeadline, ObserveRun, HandleActive, Report, Tick
<1>4. CASE UNCHANGED <<run, now, pc>>
  BY <1>4 DEF Contract!vars, Started, IsTerminal
<1>5. CASE \E cap \in Caps, aborted \in BOOLEAN : Start(cap, aborted)
  <2>1. PICK cap \in Caps : /\ run' = Enqueued(now, cap) /\ now' = now
                            /\ pc' \in {"done", "acquire"}
    BY <1>5 DEF Start
  <2>2. /\ run'.reason = "none"
        /\ \/ run'.status = "failed" /\ run'.deadline = 0 /\ run'.hard = 0
           \/ run'.status = "queued" /\ run'.deadline > now
    BY <1>1, <2>1, EnqueuedShape, Constants
  <2>3. Sound(run')
    BY <1>1, <2>1, EnqueuedSound, Constants
  <2>4. CASE run'.status = "failed" /\ run'.deadline = 0 /\ run'.hard = 0
    <3>1. Contract!Refuse
      BY <1>2, <2>1, <2>2, <2>4 DEF Contract!Refuse, Started, IsTerminal, Terminal
    <3> QED BY <3>1 DEF Contract!Next
  <2>5. CASE run'.status = "queued" /\ run'.deadline > now
    <3>1. ~IsTerminal(run') /\ run'.deadline <= run'.hard
      BY <2>3, <2>5 DEF Sound, Ordered, IsTerminal, Terminal
    <3>2. Contract!Accept
      BY <1>2, <2>1, <2>5, <3>1 DEF Contract!Accept, Started
    <3> QED BY <3>2 DEF Contract!Next
  <2> QED BY <2>2, <2>4, <2>5
<1> QED BY <1>3, <1>4, <1>5

\* Every later one: the deadline moves, the run is settled, time passes.
LEMMA ContractStep ==
  ASSUME EndInv, KillInv, TotalInv, [Next]_vars, pc # "idle"
  PROVE  [Contract!Next]_(Contract!vars)
<1>1. /\ Onward /\ BlamedLate /\ TotalInv' /\ IInv' /\ Sound(run)
      /\ now' \in {now, now + 1} /\ (now' # now => run' = run) /\ now \in Nat
  BY TotalMoves, TotalStep, StepMoves, IInvStep DEF EndInv, IInv, TypeOK, RunSound
<1>2. pc' # "idle" /\ Sound(run')
  <2>1. pc' # "idle"
    BY StepMoves DEF Moves, Waiting
  <2> QED BY <1>1, <2>1 DEF IInv, RunSound
<1>3. CASE run' = run
  <2>1. CASE now' = now
    BY <1>2, <1>3, <2>1 DEF Contract!vars, Started, IsTerminal
  <2>2. CASE now' = now + 1
    <3>1. Contract!Tick
      BY <1>2, <1>3, <2>2 DEF Contract!Tick, Started, IsTerminal
    <3> QED BY <3>1 DEF Contract!Next
  <2> QED BY <1>1, <2>1, <2>2
<1>4. CASE run' # run
  <2>1. now' = now /\ ~IsTerminal(run)
    BY <1>1, <1>4, TerminalStays DEF EndInv
  <2>2. CASE ~IsTerminal(run') /\ run'.deadline = run.deadline
    BY <1>1, <1>2, <2>1, <2>2 DEF Contract!vars, Started, Onward
  <2>3. CASE ~IsTerminal(run') /\ run'.deadline # run.deadline
    <3>1. Contract!Extend
      BY <1>1, <1>2, <2>1, <2>3 DEF Contract!Extend, Started, Onward
    <3> QED BY <3>1 DEF Contract!Next
  <2>4. CASE IsTerminal(run')
    <3>1. run'.status \in Contract!Verdicts
      BY <2>4 DEF IsTerminal, Terminal, Contract!Verdicts
    <3>2. run'.deadline = run.deadline /\ run'.hard = run.hard
      BY <1>1, <2>4 DEF Onward
    <3>3. run'.reason = "total" => now >= run.deadline
      BY <1>1, <2>1, <3>2 DEF TotalInv, Sound, RunType
    <3>4. Contract!Settle
      BY <1>2, <2>1, <2>4, <3>1, <3>2, <3>3 DEF Contract!Settle, Started
    <3> QED BY <3>4 DEF Contract!Next
  <2> QED BY <2>2, <2>3, <2>4
<1> QED BY <1>3, <1>4

\* The run, with all its timers and promises, keeps the contract with the caller.
THEOREM ContractIsKept == Spec => KeepsContract
<1>1. Init => Contract!Init
  BY DEF Init, Contract!Init, Fresh, Started, IsTerminal, Terminal
<1>2. EndInv /\ KillInv /\ TotalInv /\ [Next]_vars => [Contract!Next]_(Contract!vars)
  BY ContractStart, ContractStep
<1> QED BY <1>1, <1>2, EndAlways, KillAlways, TotalAlways, PTL DEF Spec, KeepsContract, Contract!Spec
===============================================================================
