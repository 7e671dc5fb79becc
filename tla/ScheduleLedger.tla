----------------------------- MODULE ScheduleLedger -----------------------------
(***************************************************************************)
(* The ledger of one scheduled task, the part of state.json that every     *)
(* process of a session shares, and what its transactions do to it         *)
(* (src/schedule/core/writer.ts, occurrence.ts, recovery.ts, spec.ts).     *)
(*                                                                         *)
(* A run is named by its key: an occurrence for an automatic run, a        *)
(* request for a manual one.  Runs are kept for good: trimRuns takes only  *)
(* terminal runs, which no step looks at again.                            *)
(***************************************************************************)
EXTENDS Integers, FiniteSets, FiniteSetsExt

CONSTANTS
  Stacks,       \* the session stacks; a stack is an epoch of its process
  Definitions,  \* what the task may say:
  Form,         \* its form,
  Once,         \* whether it is due only once,
  At,           \* and when it is due
  Requests,     \* the requests to run it now
  Tolerance,    \* SCHED_FIRE_TOLERANCE_MS
  MaxTime       \* bound of the model: the last time of the wall clock

Time == 0 .. MaxTime
Occurrences == UNION {At[d] : d \in Definitions}
Keys == Occurrences \cup Requests

ASSUME LedgerAssumption ==
  /\ Form \in [Definitions -> {"background", "message"}]
  /\ Once \in [Definitions -> BOOLEAN]
  /\ At \in [Definitions -> SUBSET (Time \ {0})]
  /\ \A d \in Definitions : Once[d] => Cardinality(At[d]) = 1
  /\ "none" \notin Definitions \cup Stacks
  /\ Requests \cap Occurrences = {} /\ IsFiniteSet(Requests)
  /\ {Tolerance, MaxTime} \subseteq Nat

Active == {"dispatching", "running", "queued", "dispatched"}
\* Terminal states: "ended" stands for what an executor has to say of the run (completed,
\* settled, refused, no outcome), "unknown" for an owner that is not there to say it.
Terminal == {"ended", "unknown", "dropped", "coalesced"}

NoRun == [state |-> "none", stack |-> "none", def |-> "none"]
Run == [state : Active \cup Terminal, stack : Stacks, def : Definitions]

Ledger ==
  [def : Definitions \cup {"none"}, enabled : BOOLEAN, approved : Definitions \cup {"none"},
   decided : Time, fired : Nat, missed : Nat, skipped : Nat,
   runs : [Keys -> Run \cup {NoRun}],
   requests : [Requests -> {"none", "started", "refused"}]]

\* createTask: nothing before now is owed; a user's task is approved, a model's is not.
NewLedger ==
  {[def |-> d, enabled |-> TRUE, approved |-> a, decided |-> 0, fired |-> 0, missed |-> 0,
    skipped |-> 0, runs |-> [k \in Keys |-> NoRun], requests |-> [r \in Requests |-> "none"]] :
     d \in Definitions, a \in Definitions \cup {"none"}}

-------------------------------------------------------------------------------
(* The task *)

Executable(l) == l.def # "none" /\ l.enabled /\ l.approved = l.def

\* The occurrences of the current definition in (from, to].
Due(l, from, to) ==
  IF l.def = "none" THEN {} ELSE {t \in At[l.def] : from < t /\ t <= to}

Least(S, default) == IF S = {} THEN default ELSE Min(S)
Greatest(S, default) == IF S = {} THEN default ELSE Max(S)

\* A once task is over with its occurrence.
Consumed(l) == [l EXCEPT !.enabled = @ /\ ~ Once[l.def]]

\* appendMissed for the chunks that hold the occurrences M.
Miss(l, M) == [l EXCEPT !.missed = @ + Cardinality(M), !.decided = Greatest(M \cup {@}, 0)]

\* Up to this time a plan of the wall time w is exact; t stands for "nothing due".
Cut(w) == w - Tolerance - 1
FirstOpen(l, from, w, t) == Least(Due(l, Greatest({from, Cut(w)}, 0), MaxTime), t)

\* What a sweep that was planned at w decides, and until when it is exact.
Swept(l, w) == IF Executable(l) THEN Due(l, l.decided, Cut(w)) ELSE {}
NextOpen(l, w) == FirstOpen(l, Greatest(Swept(l, w), l.decided), w, MaxTime + 1)
SweepUntil(l, w) == NextOpen(l, w) + Tolerance

\* The sweep under the lock: a task that has nothing to miss is left alone.
Sweep(l, w) == IF Swept(l, w) = {} THEN l ELSE Consumed(Miss(l, Swept(l, w)))

\* What a claim of t that was planned at w misses first, and what it skips besides t.
LateAt(w, t) == w > t + Tolerance
Overdue(l, w, t) == Due(l, l.decided, IF LateAt(w, t) THEN t ELSE Min({Cut(w), t - 1}))
Reached(l, w, t) == Greatest(Overdue(l, w, t), l.decided)

\* Faulty variant: what was missed is skipped again.
BetweenAll(l, w, t) == Due(l, l.decided, t - 1)

Between(l, w, t) == Due(l, Reached(l, w, t), t - 1)

ClaimUntil(l, w, t) ==
  IF LateAt(w, t) THEN MaxTime + Tolerance
  ELSE Min({FirstOpen(l, Reached(l, w, t), w, t), t}) + Tolerance

\* The ledger with the overdue occurrences missed and those up to t decided.
Decided(l, w, t) ==
  [Miss(l, Overdue(l, w, t)) EXCEPT
     !.skipped = @ + Cardinality(Between(l, w, t)), !.decided = t]

-------------------------------------------------------------------------------
(* The runs *)

IsActive(l, k) == l.runs[k].state \in Active
ActiveRuns(l) == {k \in Keys : IsActive(l, k)}
QueuedRuns(l) == {k \in Keys : l.runs[k].state = "queued"}

\* finishRun: the first terminal write wins; a later one leaves only a note.
Finish(l, k, end) == IF IsActive(l, k) THEN [l EXCEPT !.runs[k].state = end] ELSE l

\* updateRun: a run that has not ended goes on.
Progress(l, k, state) == IF IsActive(l, k) THEN [l EXCEPT !.runs[k].state = state] ELSE l

\* terminate(): a queued run is dropped, of any other the outcome is unknown.
Terminate(l, K) ==
  [l EXCEPT !.runs = [k \in Keys |->
     IF k \notin K THEN l.runs[k]
     ELSE [l.runs[k] EXCEPT !.state = IF l.runs[k].state = "queued" THEN "dropped" ELSE "unknown"]]]

EndAll(l, K, end) ==
  [l EXCEPT !.runs = [k \in Keys |->
     IF k \in K THEN [l.runs[k] EXCEPT !.state = end] ELSE l.runs[k]]]

\* Faulty variant: the run is not given its owner.
StartUnowned(l, o, k) ==
  [l EXCEPT !.runs[k] = [state |-> "queued", stack |-> "none", def |-> l.def]]

\* A new run of the stack: a background run is dispatched, a message is queued.
Start(l, o, k) ==
  [l EXCEPT !.runs[k] =
     [state |-> IF Form[l.def] = "background" THEN "dispatching" ELSE "queued",
      stack |-> o, def |-> l.def]]

\* Faulty variant: only a run that has started is in the way.
OverlapsStarted(l) == Form[l.def] = "background" /\ \E k \in Keys : l.runs[k].state = "running"

\* A background run waits for nothing: with another run of the task it does not start.
Overlaps(l) == Form[l.def] = "background" /\ ActiveRuns(l) # {}

\* A message takes the place of the task's queued one.
Coalesced(l) == IF Form[l.def] = "message" THEN QueuedRuns(l) ELSE {}

\* The three things that a claim of t in tolerance may make of the ledger.
LateClaim(l, w, t) == Consumed(Miss(l, Overdue(l, w, t)))
OverlapClaim(l, w, t) == Consumed([Decided(l, w, t) EXCEPT !.skipped = @ + 1])
FiredClaim(l, o, w, t) ==
  LET K == Coalesced(l)
      d == [Decided(l, w, t) EXCEPT !.skipped = @ + Cardinality(K), !.fired = @ + 1]
  IN  Consumed(Start(EndAll(d, K, "coalesced"), o, t))

\* manualClaim: the watermark and the totals are left alone.
Refuses(l) == ~ Executable(l) \/ ActiveRuns(l) # {}
ManualClaim(l, o, r) ==
  IF Refuses(l) THEN [l EXCEPT !.requests[r] = "refused"]
  ELSE Start([l EXCEPT !.requests[r] = "started"], o, r)

\* changeTask: the old definition is swept before it is patched; a new one, or a task
\* that has become executable, owes nothing from before now.
Patched(l, now, def, approved, enabled) ==
  [Sweep(l, now) EXCEPT !.def = def, !.approved = approved,
                        !.enabled = IF enabled = "kept" THEN @ ELSE enabled = "on"]
Voids(l, now, def, approved, enabled) ==
  \/ def # l.def
  \/ ~ Executable(Sweep(l, now)) /\ Executable(Patched(l, now, def, approved, enabled))
Rewritten(l, now, def, approved, enabled) ==
  IF Voids(l, now, def, approved, enabled)
  THEN [Patched(l, now, def, approved, enabled) EXCEPT !.decided = Max({@, now})]
  ELSE Patched(l, now, def, approved, enabled)

\* stillAuthorized: the definition of the run is still approved, and the task is
\* enabled or was disabled by the claim itself.
Authorized(l, k) ==
  /\ l.def = l.runs[k].def /\ l.approved = l.def
  /\ l.enabled \/ (k \in Occurrences /\ Once[l.def])

\* removeTask: the runs stay.
Removed(l) == [l EXCEPT !.def = "none", !.approved = "none"]
===============================================================================
