# pi-toolkit in TLA+

A verification project for the orchestration core of pi-toolkit, the extension
that lets a *pi* coding session run subagents. Everything here is translated
from the TypeScript under `src/src`. Paths below are relative to `src/`.

* **Modelled, model-checked and proved about:** the life of one run, that is the
  run state machine, its deadline arithmetic, the runner, the watchdog and the
  reaper, from `RuntimeRunner.run()` to the physical disposal of the session;
  the slot pool that many runs share; the spawn service, with its resume locks, its
  tree of runs and the reload; the schedule, a ledger file on which the clocks and
  executors of several processes act; the delivery of completion notices with
  their outbox, buffers, retries, crashes and restarts; and the dispatcher that puts
  scheduled messages into a pi session.
* **Planned next:** the delivery engine and the fabric (see *Plan*).

```
tlc -config MCRunLifecycle.cfg MCRunLifecycle      # model checking
tlc -config MCSlotPool.cfg MCSlotPool
tlc -config MCDelivery.cfg MCDelivery
tlc -config MCSchedule.cfg MCSchedule
tlc -config MCDispatch.cfg MCDispatch
tlc -config MCSpawn.cfg MCSpawn
tlapm RunProofs.tla                                # proofs
tlapm SlotPoolProofs.tla
tlapm DeliveryProofs.tla
tlapm ScheduleTotalsProofs.tla
tlapm DispatchProofs.tla
tlapm SpawnProofs.tla
```

## 1. The system

### Components, their state and their operations

| Component | Source | State | Operations | Correct when |
|---|---|---|---|---|
| Run state machine | `src/core/state-machine.ts`, `status.ts`, `types.ts` | one record per run: status, phase, armed timers, deadline, ceiling, grace, tool trail, cause and reason of a stop | `reduce(state, input)`, a pure function | one terminal transition, timers that fit the phase, a reason that is kept |
| Deadlines | `src/core/deadline.ts` | none | due times, grace window, extension head-room | soft deadline <= grace <= ceiling |
| Runner | `src/runtime/runner.ts` | dispatcher, cancel handle, active handle, observers, live file marks | `run`, `abortRun`, `extendDeadline`, `observeRun`, `fireDeadline` | `run()` always returns, releases what it took, reports the outcome once |
| Watchdog | `src/runtime/watchdog.ts` | armed runs | `arm`, `disarm`, `tick` | fires only expired timers of a run that is still the same generation |
| Reaper | `src/runtime/reaper.ts` | none | `reap` (L0 to L4), `disposeLate` | a session is disposed of or reported unkillable |
| Slot pool | `src/runtime/slot-pool.ts` | `inUse`, `held`, queue, limit | `acquire`, `release`, `setLimit`, `audit` | never above the limit by new grants, no slot lost, first come first served |
| Notifier, coalescer, outbox | `src/delivery/notifier.ts`, `coalescer.ts`, `src/adapters/pi-outbox-store.ts` | delivery records in memory and in the session log, buffered batch, retry timers | `enqueue`, `finalize`, `settleBatch`, `ack`, `consume`, `reconcile`, `submit`, `flush` | a result is sent or acknowledged, never silently lost |
| Delivery engine, fabric mailbox, wake | `src/delivery/engine.ts`, `src/fabric/*` | mailbox records with claims and reservations | `put`, `claim`, `transition*`, `reserveStrict`, pump, wake | no message lost or given to two owners |
| Spawn service, runtime adapter | `src/service/*`, `src/core/live-session-files.ts` | running, records, waits, resume owners, nesting, the tree of runs; of the process the live session files | `spawn` (also of a resume), `abort`, `wait`, `steer`, the end of a run, the reload | one user of a session file, a stop reaches all below, every waiter answered |
| Background completions, ask-user | `src/service/background-completions.ts`, `src/ask-user/*` | tokens, health, question queue | send, confirm, settle, park | a question is interrupted only by a notice that will arrive |
| Schedule | `src/schedule/core/*`, `src/schedule/agent/clock.ts`, `bg.ts`, `wire.ts`, `ops.ts` | the ledger in `state.json` under a lock, the plans and floors of each clock, the attempts of each executor | claim, sweep, run now, edit, pause, delete, execute, recover, close | each occurrence judged once and in time, one background run of a task at once, totals that add up |
| Schedule messages | `src/schedule/agent/dispatch.ts`, `message.ts` | queue, one flight, the slot and the record of the process, posted ledger writes | enqueue, pump, intent, send, the handlers of pi's events, timers, shutdown | nothing called after its outcome, nothing dropped that ran, each owner told once |
| Workflow | `src/workflow/*` | call registry, journal, budget | run, journal, replay | a replay repeats the recorded calls |
| Bash jobs, keepalive, memory, quota, web hub, UI and the rest | see `PROJECT.json` | | | |

### How they interact

`SpawnService.spawn()` admits a request and calls, without waiting,
`RuntimeRunner.run()` through the runtime adapter. The runner takes a ticket
from the pool, creates or resumes a child session through a driver, binds it,
prompts it, and turns everything that happens into inputs of the reducer. The
reducer returns the next state and a list of effects, which the adapter
interprets: snapshots go to the run log, the terminal notice to the notifier.
The watchdog ticks once a second over the armed runs and reports expired timers
back to the runner. When `run()` is over, the reaper disposes of the session in
the background. Everything runs in one JavaScript event loop: a stretch of
synchronous code is atomic, and the hard cases are the orders of the stretches.

The schedule is the part that several processes share. Each session stack has a
clock that looks at the ledger of a task, plans a claim or a sweep outside the
lock, and commits it under the lock if the plan still holds. A claim makes a run:
a background run goes to the executor, which calls `spawn()`; a message, or the
report of a background run (a handoff), goes to the dispatcher, which writes its
intent to the ledger, sends a trigger to pi and follows pi's events until the
run that the trigger started has settled.

### What is hard

Stops that land between two continuations of `run()`; a resource granted to a
caller that has just given up; two timers for the same deadline, one of them
set before the deadline moved; a grace window that the expiry itself opens; a
session that arrives after its run has ended; events that arrive after the end;
parallel tool calls; waiters, timers and limit changes of a pool that serves its
queue in a microtask; notices of which the session, the log and the memory each
know something else when the process dies; plans made before a lock and committed
after it, clocks that are set back, processes that die between a commit and its
execution; a pi session that starts, merges, aborts and settles runs while the
dispatcher waits; a resume among runs of the same file that wait, open, end or are
being reaped, in this stack or in one that a reload has left behind; a stop that goes
down a tree which grows and shrinks. Every one of these is listed with its line and the
properties that watch it under `hazards` in `PROJECT.json`.

## 2. The modules

| Module | What it is |
|---|---|
| `RunState` | the reducer as operators on a record, one per kind of input, and the deadline arithmetic; no variables |
| `RunLifecycle` | the state machine around it: runner, pool as seen by the run, watchdog, cancel handle, observers, session events, reaper, clock |
| `RunContract` | the abstract specification: what a caller may rely on |
| `RunProperties` | invariants, action properties, liveness, and the refinement of `RunContract` |
| `MCRunLifecycle` | the constants of the runs |
| `RunProofs` | the reducer keeps `Sound` (lemmas on every input); the invariants of `RunLifecycle`, its theorems, and that it implements `RunContract` |
| `SlotPool` | the pool with all its waiters, the microtask that drains the queue, limit changes, and the run that waits behind a guard |
| `Semaphore` | the abstract specification of the pool: slots are only given within the limit |
| `MCSlotPool` | its instance |
| `SlotPoolProofs` | the theorems about `SlotPool`, among them that it implements `Semaphore` |
| `Delivery` | notifier, coalescer or ack hold, outbox in the session log, backoff timers, crash, rebuild and `reconcile()` |
| `NoticeContract` | the abstract specification of the delivery: what is owed is told, acknowledged or given up |
| `MCDelivery` | its instance |
| `DeliveryProofs` | the inductive invariant of `Delivery`, its theorems, and that it implements `NoticeContract` |
| `ScheduleLedger` | the ledger of one task and what each transaction makes of it; no variables |
| `Schedule` | the stacks, clocks, plans, executors, crashes and clock changes that act on a ledger |
| `ScheduleContract` | the abstract specification: what becomes of an occurrence and of a run |
| `ScheduleProperties` | invariants, liveness, and the refinement of `ScheduleContract` |
| `MCSchedule` | the constants of its three runs |
| `ScheduleLedgerProofs` | what the ledger's operations keep and change |
| `ScheduleProofs` | the inductive invariant of `Schedule` and its theorems |
| `ScheduleTotalsProofs` | that the totals of the ledger are true |
| `Dispatch` | the dispatcher of scheduled messages, its ledger writes, and pi as the dispatcher sees it; with its properties |
| `MCDispatch` | the setups it is checked with |
| `DispatchProofs` | the inductive invariant of `Dispatch` and its theorems |
| `Spawn` | the spawn service of the stacks of one process: admission, resume locks, live marks, tree of runs, stops, reload; with its properties |
| `MCSpawn` | its instance |
| `SpawnProofs` | the inductive invariant of `Spawn` and its theorems |

### Model and code

`run` is the reducer's state. `pc` is the `await` at which `run()` is suspended
(`acquire`, `create`, `bind`, `prompt`), `done` after it returned and `reaped`
after the reaper's L0 cancel. `guard` is the promise of `guard()` or
`guardUntil()`: `pending` while the runner is suspended, and afterwards the
verdict its continuation will read. `due` is the time of the guard's timer.
`cancel` is the reason of the cancel handle, `ticket` the run's place in the
pool, `session` the child session, `fileLive` the mark in
`live-session-files.ts`, `watch` the watchdog's registration, `sealed` whether
the seal before the terminal event ran, `observer` a listener of `observeRun` with
how often it heard of the end, `over` the latch `inputBudgetFailure`, `told` what
`run()` resolved to. `calls` is the session's own account of its tool calls, which
the run's trail is compared with.

Each `...Continue` action is the code from one `await` to the next, with every
dispatch, `finally` and release on the way. The actions that settle promises
(`PoolGrant`, `CreateSettles`, `PromptSettles`, ...) only give the guard its
verdict. Between the two, other microtasks can run but no timer can
(`MicrotaskQueued`); this is what makes the orders of a stop and a continuation
the ones the event loop allows, no more and no fewer.

Data is abstracted: tool calls are ids, errors are kinds, text and usage are
absent. The clock is an integer and every duration a constant of `Budget`, a
record with the fields of `DeadlineBudget`; a zero disables a bound as in the
code. A session reports events in the orders pi can produce (`Reportable`).

A run keeps the records of its last `HistoryCap` tool calls (30 in the code). The
oldest is dropped even when its call is in flight, and the end of such a call is
then illegal unless it is the one shown (`Known`), so that it is never counted down:
such a run has `pending` above zero for good and cannot leave `tool_exec` by an end
of a call. A timer, a retry, a compaction or the end of the prompt takes it out. The
comment on the drop says that "counts still hold the truth" (`state-machine.ts:190`);
they do not. `ToolPhaseCounts` says how far they do.

A request may have an input budget. Its preflight can refuse the prompt
(`BindContinue`), and a request to the model that exceeds it later stops the run
(`BudgetExceeded`); `ErrorOf` lets that outrank every other end.

`SlotPool` has the fields of the class: `limit`, `inUse`, `held`, `slotless`,
`queue`, where the queue keeps entries that are done, as the code does, and
`drain` for the microtask that `release()` and `setLimit()` queue. `ticket` is
what `acquire()` came to for each run and `caller` what `run()` is doing with
it: it may have given up on a waiter that is still queued, or on a ticket that
has been resolved and not yet received. `Takes(n, waiting)` says how many
entries one `drainQueue()` removes, without a loop. The slot in `RunLifecycle`
is the same pool as one run sees it, where others may grant or not.

`Delivery` is synchronous code with effects on three things that fail at
different times: the notifier's map (`mem`), the session log (`disk`) and the
session itself. `todo` is the rest of the call that runs, as a stack of parts
(`attempt`, `send`, `settle`, `reconcile`); each has at most one effect that
outlives the process, and `Crash` may come between any two. Events
(`EnqueueNew`, `Finalize`, `NotifyFailure`, `Ack`, `Retry`, `CloseWindow`,
`Rebuild`) start only when `todo` is empty, as the event loop has it. An ack is
one step: a crash inside it differs only in whether the caller still hears of
it. A refused write of the log leaves the old record (`setup.storeFails`), and
`update()` of a key the store does not know does nothing. `Rebuild` is the
rebuild of the session stack in the same process: the buffer is disposed of,
which flushes it, and a new notifier reads the log; the backoff timers of the
old one end there. `sent`, `acked` and `excused` are history variables: nothing
but the properties reads them.

`Schedule` has the ledger of one task as a record: the definition, whether it is
enabled, the approved definition, the watermark `decided` (`lastDecidedAt`), the
three totals, the runs by key and the requests. The operators of
`ScheduleLedger` are the bodies of the transactions. A plain transaction takes
the lock, reads, decides and renames in one go, so it is one step, together with
what its caller does with the answer before it waits again. A claim or a sweep
is planned: `plan[o]` is what clock `o` computed and when, and between plan and
commit the clock, the ledger and the stack may move. `Holds` is the comparison
under the lock (the rev, here `fresh`, the wall clock and its distance to the
monotonic one, here `skew`); when it fails, the plan is made again up to
`Attempts` times. `Decide` has the three ways a commit ends: written; renamed
but not proven durable, so that the run is remembered in `doubt`; or refused.
`work[k]` is how far the executor is with run `k`: `start`, `admit` (waiting for
`spawn`), `wait` (for the outcome); for a message `queue`, `drop`, `sent`,
`doubt`. `stack[o]` tells open, disposed and dead stacks apart, `closing` the
disposed ones whose `closeEpoch` is to come, and `Dead` is `judgeHolder`. Time is
in the units of occurrences; `Tick` and `Jump` are time passing and the wall clock
being set. `verdict`, `void`, `starts` and `uncertain` are history.

`Dispatch` looks into the messages that `Schedule` has as three steps. Its
handlers run to their end without waiting, so each is an operator from one state
`d` of the dispatcher to the next (`CloseFlight`, `EnforceDeadlines`,
`FinalizeAtSettle`, `Shutdown`, ...), and an action applies the handlers that one
event calls, in their order. `d` holds the `queue`, the one `flight`, the
process-wide `slot` and `record` (`createProcessOccupancy`,
`createProcessRunRegistry`), pi as far as it matters (`host`, `inbox`) and the
ledger writes that are posted and done strictly in order. `pump` is the entry
whose intent waits for its answer. An abort may be lost, except inside pi's
context handler, which pi heeds. An epoch is one stack of the session; the slot,
the record and pi outlive it.

Whether a run was claimed before a pause is in the code a comparison of two readings
of the wall clock, `run.startedAt <= revokedAt`. The model has no clock but every
outcome of the comparison: `told` are the tasks that have a reading (`revokedAt`),
and `revoked` the runs whose own reading is not past it. A pause puts the runs that
are claimed among them, but for any that the clock, set back since, makes later
(`late` in `Revoke`): the report of such a run is queued and sent although its task
was paused after its claim. A claim after a reading may fall among them, too, in the
same millisecond or with a clock set back (`Claim`, `ClaimSource`), and is then
dropped. What waits in the queue or with the pump is taken out by the pause itself
and needs no clock; `history.swept` are these.

`Spawn` has the maps of the service as functions over the runs (`parent` for
`parentOf`, of which `childrenOf` is the inverse, `depth` for `nesting`, `owners` for
`resumeOwners`, one for each stack, `target` for the lock keys a run carries) and,
for the process, `marked`, the registry of live session files. A file is named by the
run that created it. `spawn()` does not wait before it returns, so an admission is
one step; a refusal is none. Of a run's course it has what these depend on: `stage`
is how far the run is, `session` what became of its session, which may arrive after
the run gave it up (`givenUp`) and outlives the run until the reap. An abort has two
steps, as in the code, which walks the tree first and waits: `due` are the runs it has
reached, `stopped` those whose cancel handle has fired, which walks again. `Shutdown`
aborts all of a stack and `Reload` starts the next one, whatever the old runs do; it
knows them from the session's journal (`seeded`). `came` is history.

## 3. The runs

| Run | Configuration | Shows |
|---|---|---|
| `lifecycle` | `MCRunLifecycle.cfg` | six invariants, two action properties and the refinement of `RunContract`, with an input budget |
| `liveness` | `MCRunLiveness.cfg` | `run()` returns; the session is reaped; two parallel tool calls against the phase and the counter, with calls whose record is dropped |
| `pool` | `MCSlotPool.cfg` | accounting, no lost wake-up, order of service, refinement of `Semaphore`, and that every wait ends, whoever keeps his slot |
| `delivery` | `MCDelivery.cfg` | delivery of two notices, batched through a crash with a log that may refuse, and by the ack hold, which sends its window item by item, over two restarts: nothing stuck, nothing repeated without cause, unfinished notices marked, the attempts on a notice end, refinement of `NoticeContract` |
| `schedule` | `MCSchedule.cfg` | two processes on one ledger: the totals, the rights of a live owner, and the refinement of `ScheduleContract` |
| `schedule_live` | `MCScheduleLive.cfg` | a reload in one process, with a request to run now and a jump of the clock: no overlap, no execution in doubt, the refinement of `ScheduleContract`, every background run ends |
| `dispatch` | `MCDispatch.cfg` | five properties of scheduled wakes through queue, intent, send, run and end |
| `spawn` | `MCSpawn.cfg` | resumes and nested runs over a reload: one user of a session file, no lock without its run, stops reach the children |
| `terminal`, `ticket`, `unmarked`, `schedule_doubt` | one cfg each | four statements of the repository that the code does not keep (section 5) |

**Bounds.** In `lifecycle` the total budget is 2 and there are two extensions of
at most 2; requests are for 1, or for 3 and are cut. So the deadline can move
from 2 to the ceiling 6, and the clock runs to 7, past it. The grace window is
one unit: it can open, be left by an extension and open again. The other budgets
are one to four units, so that each phase timer can expire before and after the
total one. Caps are absent, already passed (0), or cut an extension short (3).
One tool is enough there since `liveness` has two. That run uses one extension
and a clock to 4, the ceiling, and a history of two records: a call that starts,
another that starts and ends, and a third are enough to drop the record of the first,
which is still in flight, and to have its end refused. The bound on the clock stops
`Tick` only. `pool` has four runs and limits 0 (no bound), 1 and 2, so that two
slots are in use while two wait, or one waits and another one barges in, the limit
drops below the slots in use, and entries that are done stand among live ones.
`delivery` has two notices and two attempts (one failure retried, the next one
final) in the two setups of `MCSetups`: a coalescer with a buffer of two (so that it
is flushed when full and by its window), one notice held for its policy, a log that
may refuse, one round and one restart; and an ack hold with two restarts and two
rounds, which reconciles one notice at a time so that the second is left over. Two notices are enough because
they meet only in the buffer, in a flush and in the batch of a reconcile, and
each pair of them meets in the same way.

`schedule` has two stacks, each in a process of its own, a definition that runs
once in the background and one that sends messages at two times, a tolerance of
one unit and a clock to 3, so that an occurrence can be in tolerance, overdue and
overtaken by the next one. One change (an edit between the two definitions, an
approval, a pause, a resume or a deletion) and one fault (a failed write, a
commit in doubt, a busy lock or a refused claim) may come anywhere; two attempts
at a plan are the fewest with which one is made again. The stacks are
interchangeable there and are reduced by symmetry. `schedule_live` has two
stacks of one process, as a reload makes them, one occurrence, one request, one
jump of the clock and one fault; it is small since its property is temporal, and
it uses no symmetry. The contract is checked in both runs: in `schedule` with two
processes, without requests and with a wall clock that only goes forward; in
`schedule_live` with one process, a request and a wall clock that is set. No run has
all of these together; the proof of the refinement does. `schedule_doubt` is its cut to one stack without jumps.
`dispatch` has two wakes in the three setups of `MCSetups` (a message and a
handoff of a once task, and two handoffs of one task, each over a reload; two
messages of one task) and two counted model calls of each run, one more than the
first, on which the properties turn. Any pause may find the clock set back since a
claim. Two wakes are enough since there is one
flight and one slot: a third would wait behind the second. Failures, pauses and
lost aborts are not bounded there.
`spawn` has four runs, one of which an earlier process left in the journal, and two
stacks. So a file can have three users one after the other, the last of whom may have
named either of the others; the nesting limit is two before the reload and one after
it (settings are read again), so that a tree can have three levels in the first stack
and a third level is refused in the second; and one reload separates old runs from
new. The runs that are
not from the journal are interchangeable (symmetry); the run checks safety only.

**Deadlock.** `CHECK_DEADLOCK FALSE` is set in every configuration since a run
ends: after the reap and the last tick, when each run of the pool is over, when
all notices are settled, or when the occurrences are judged and the stacks gone,
when every run id of `spawn` is used up,
nothing is left to do. That it ends well and not by getting stuck is what the
liveness properties and `NoIdleSlot`, `NoneIsStuck`, `SlotIsHeld` and
`NewestIsNotForgotten` check.

**Fairness.** Only `Runner` (queued microtasks, due timers and the reap, which
the event loop runs once they are ready) and `Tick` (time passes) are weakly
fair. The pool may never grant, the driver never answer, the session never
settle, and the watchdog never tick: `EveryRunReturns` holds without them, as
the guards' own timers are meant to ensure. `bind()` is among the runner's
steps because both drivers settle it without waiting.

In the pool the queued drain, the continuation of a settled `acquire()` and the
abort that the reaper sends on behalf of a run that is over are weakly fair:
microtasks run. A guard's timer (`GiveUp`) is strongly fair: it needs an empty
microtask queue, which releases may fill and empty again and again, and a due
timer does fire in one of the gaps. Nobody is forced to release a slot. In the
delivery the parts of a call, the backoff timers and the window's timer are
weakly fair; a send may fail every time and restarts may come at any time up to
their bound.

In the schedule the steps of each clock (its timers and the plans it has made),
its recovery with every poll, the `closeEpoch` that ends a shutdown, and the
executor of each run are weakly fair, and time passes. Nobody has to open, close
or kill a session, to change or ask for the task, and a session need never be
idle for a message, so `EveryRunEnds` speaks of background runs, and only while a
stack is open that can recover what others left. Runs whose owner's write failed
for good, or that fell under finding `schedule_doubt`, are excepted by name
(`Neglected`). `dispatch` checks safety only: whether pi ever settles is pi's
affair.

## 4. The proofs

The assumptions are `BudgetAssumption` (durations are naturals, a positive
total budget, a factor of at least one, as the settings layer ensures),
`LifecycleAssumption`, `PoolAssumption`, `LedgerAssumption`,
`ScheduleAssumption` (types and finiteness of the other constants; a once
definition has one occurrence), `SpawnAssumption` (types; the runs may be
infinitely many), `DeliveryAssumption` (the notices are finitely many, as a journal
has them) and `DispatchAssumption` (types; runs are neither "none" nor "human"). TLC
evaluates all of them on every run. The invariants that the proofs use were checked
with TLC before they were proved.

**The run** (`RunProofs`). `Sound` is what every reachable reducer state
of an accepted run satisfies: its type, deadline <= grace <= ceiling, as many grace
windows as extensions allow, the total-class timer armed exactly while the run
is alive, and one terminal batch. It is stronger than the invariants because
they are not inductive one by one: that the deadline stays below the ceiling
needs the extension's cut, the bound on grace windows needs that a `total`
timer is armed only outside a window, and that needs the timer invariant. There
is one lemma per kind of input. `IInv` lifts it: it says that the
types hold and that the state is sound once the run has been accepted and fresh
before, and one lemma per action shows that the action keeps it. The facts about
the runner (`HeldInv`, `WakeInv`, `TimeoutInv`) are proved from `IInv`, one
case per action. How a run ends goes on from these: `KillInv` says that the mark
of a kill is the cancel that comes with it, until the verdict tells it, and
`SealInv` at which suspension points a session can be in use and unsealed. Each
is inductive only relative to the others. `ToolInv` relates the
session's account of its calls to the trail: the calls in flight and the refused ones
are as many as `pending`, whatever is in flight is on record unless records were
dropped, and it says at which suspension points there can be any call;
that an event of another kind may leave `tool_exec` depends on it. The observer is
told once because the entry is dropped before it is told, and is only made while the
run is not terminal. `TotalInv` shows
that no one blames the total budget early: two timers name it, and the one that is
not the deadline's never ends a run that nobody has stopped. The refinement
(`ContractStart`, `ContractStep`) takes from the lemmas on the inputs that a step that
leaves the run alive moves the deadline only forward and not beyond the ceiling, and
that one which ends it moves neither.

| Theorem | Property |
|---|---|
| `TypeCorrect` | `TypeOK` |
| `SettlesOnce` | `SettledOnce` |
| `DeadlinesAreSound` | `DeadlinesSound`, from `DeadlinesInOrder`, `GracesEarned` and `AlwaysTimed` |
| `StopsHeard` | `StopsAreHeard`, from `StopReleases` and `TimeoutCancels` |
| `EndsClean` | `EndIsClean` (of a slot: released, if the run got as far as asking for a session), from `KillsAreTimeouts`, `SealsFirst`, `NothingOutlives` and `LiveFilesMarked` |
| `TerminalIsFinal`, `OutcomeIsFinal` | no step changes a terminal state; `OutcomeStays` |
| `ToolsCounted` | `ToolPhaseCounts` |
| `NeverKilledEarly` | `NoEarlyKill` |
| `ObserversAreTold` | `ObserverEndsWithRun` |
| `ContractIsKept` | `KeepsContract`: every step is one of `RunContract` or a stutter |

**The pool** (`SlotPoolProofs`, finitely many runs). The invariant is `IInv`,
which is `TypeOK`, `Accounting`, `NoIdleSlot` and `Paired`. `Paired` relates the
state of a caller to that of its ticket; without it one could not show that a
release finds a ticket that counts, so that `inUse` does not go below zero.
`Drained` counts: the live waiters that a drain takes are as many as `inUse`
grows. From it follow `DrainKeeps` (a drain keeps the invariant and leaves no
idle slot), and `WithinLimit` and `DrainServes`, by which every drain is a
sequence of grants the semaphore allows at once. Each of the actions that drain
has its own lemma on top of these. `TypeOK` is not a property of the run, since it is
proved and `Accounting` is the stronger check of the counters.

| Theorem | Property |
|---|---|
| `PoolSound` | the inductive invariant |
| `PoolTypeCorrect`, `SlotsAccounted`, `NoWakeUpLost` | `TypeOK`, `Accounting`, `NoIdleSlot` |
| `PoolImplementsSemaphore` | `KeepsBound`: every step is one of `Semaphore` or a stutter |

**The schedule**, for any number of stacks and processes, any definitions and any
setting of the clocks. `ScheduleLedgerProofs` says of each operator of the ledger
what it keeps: `Restated` and `Moved` for those that only change runs, the chain
from `Miss` to `FiredClaim` for those that decide occurrences. The invariant of
`ScheduleProofs` is `TypeOK`, `PlanInv` (a claim whose plan has the rev of the
ledger is about an occurrence that is open: what the comparison under the lock is
for), `ClosingInv`, `RunsInv` and `OwnersKeepRuns`. `RunsInv` is what one needs
to know of the runs to show that two cannot overlap and none in doubt is
started: nobody has a run in hand that was not made, a clock in doubt about a run
leaves nothing of it to its executor, what an executor has begun is not in the
queue. Most actions are *calm* (they change only runs that somebody has in hand)
and are covered by `CalmKeeps`; the claims have lemmas of their own. The totals
are proved on top (`ScheduleTotalsProofs`): `Reconciled` states them of a ledger,
the verdicts and the mark behind which occurrences are void, and each operation
is a lemma on how it moves the three, with the cardinalities of the sets that a
claim judges. The same module has the refinement of `ScheduleContract`, for any number
of processes, requests and jumps of the clock. The contract counts an occurrence as
fired only when it is due and not yet late on the clock that the claim saw, so one
needs `PaceInv` beside `IInv`: a plan that holds is about an occurrence that has come
by its own reading of the wall clock, and what the executor has yet to begin was not
started before.
Each action is a step of the contract or a stutter: a claim judges, a recovery ends
runs, an executor starts or ends one.

| Theorem | Property |
|---|---|
| `ScheduleTypeCorrect` | `TypeOK` |
| `OneRunInBackground` | `OneBackgroundRun` |
| `OwnersNotPreempted` | `OwnersKeepRuns` |
| `UncertainNeverStarted` | `UncertainIsNotStarted` |
| `TotalsReconcile` | `CountersReconcile` |
| `ScheduleKeepsContract` | `ImplementsContract`: every step is one of `ScheduleContract` or a stutter |

**The spawn service**, for any number of runs, stacks and levels. No two runs of a stack
use one file, but neither the locks nor the marks show it alone: a mark is there only
from the opening on (`BoundIsMarked`), a lock only for a resume (`LocksMatchRuns`), and
the run that created a file has no lock. `CreatorIsOver` closes the gap: whoever else has
a file, its creator has ended. `FileInv` is these with the types, what a stage says of
the run (`StageOK`) and `OneUser`; `Resumable` draws from it that a resume that is
admitted finds its file free, on which both `OneUser` and `AdmittedAlone` rest. For the
stops, `BelowIsClosed` says that the set a cascade reaches contains the children of its
members, and `StopReachesChildren` is inductive with it.

| Theorem | Property |
|---|---|
| `TypeSafety` | `TypeOK`, with it the nesting limit |
| `ExclusiveFile` | `FileIsExclusive`, that is `LocksMatchRuns`, `OneUser` and `AdmittedAlone` |
| `StopReaches` | `StopReachesChildren` |

**The notices** (`DeliveryProofs`), for any finite set of notices and any bounds on
attempts, rounds and restarts. A call is a stack of parts, so the invariant first says
what can stand above what (`Ordered`: an attempt or a flush comes first, then the
settles of a flush, one for each notice, then at most the rest of a reconcile) and then
what each part stands for (`PartSound`: a settle has the record of the memory, a flush
has emptied the buffer, what is left for reconcile is in the log and not in memory). On
these rest the five facts about a notice: a timer holds the record the memory has
(`TimersSound`), whatever waits in memory is waited for by a part, a timer or the buffer
(`WaitsSound`), and what its state says of the policy's call, of the log and of what the
session was given (`CallsSound`, `LogSound`, `ToldSound`). None is inductive alone: that
nothing is told twice needs that a notice in the buffer has no settle ahead, which needs
the order of the parts. `MarkSound` is about the degraded mark, which may be in memory and
not in the log; finding `unmarked` came out of the attempt to prove it without its
condition. The refinement shows of each action that it tells a group of
notices, or moves one of them, or does neither (`TellMoves`, `WriteMoves`).

| Theorem | Property |
|---|---|
| `Sound` | the inductive invariant |
| `TypeCorrect`, `NeverStuck`, `NeverRepeated` | `TypeOK`, `NoneIsStuck`, `NoNeedlessRepeat` |
| `AlwaysMarked` | `UnfinishedIsMarked` |
| `PromiseKept` | `KeepsPromise`: every step is one of `NoticeContract` or a stutter |

**The dispatcher** (`DispatchProofs`), for any number of runs, tasks of a kind, epochs
and model calls. A handler is an operator on `d`, and the host may call the handlers in
nearly any order, so the invariant `Good` is stated of a state and its surroundings, and
there is a lemma per operator: what it keeps of `Good`, given what it finds. Its core
says where a run is, and that it is in one place: waiting in the queue (`Waiting`), in the
hands of a pump (`Pumped`), or gone to pi (`Sending`), and what has been told of it and is
posted about it in each (`Hearing`, `Telling`, `Logged`). `Flown` relates the phase of the
flight to what it has seen; `Recorded` is what the record of the process is for: a record
that is not void is the one of a run that a human has taken over, or of a flight that is
watched and whose outcome is not named. A handler breaks it for a moment, since it names
an outcome before it voids the record, so the operators are proved from weaker forms
(`Held`, `Void`). `Slotted` ties the slot to the pump and the flight. `Pumped` was not
inductive in its first form, which TLC showed on a pump whose entry is known for dead
while the task is paused.

`NewestIsNotForgotten` has an invariant of its own, `Newest`, beside `Good`. While the stack
that claimed the newest message lives, the message is `Kept`: it is in the queue, or sent with
nothing said of its end, or ended in the ledger, or a posted write will end it: one that does
so whatever it finds (`Over`), or the drop of a queued run (`Dropping`). The ledger refuses
to drop a run whose intent is written, so a message that waits with its intent written has
the revert of it posted, ahead of any drop. What the pump holds is in the queue still, and
dead only if it was revoked, since a newer message would be the newest. `Passes` says of a
handler that it loses no message; the steps of queue and pump each have a lemma.

`RevokedIsNotSent` needs that only the answer to an intent sends (`Onward` says of every
other handler that it puts nothing into the inbox and takes back no outcome), that an
intent of a run in `revoked` is refused, and, for what a pause swept, that its end has
been said or that the pump holds it and knows that it is revoked (`SweptInv`).

| Theorem | Property |
|---|---|
| `TypeCorrect` | `TypeOK` |
| `SlotHeld` | `SlotIsHeld` |
| `EndsTold` | `EndsAreTold` |
| `CallsRightful` | `CallsAreRightful` |
| `RevokedNeverSent` | `RevokedIsNotSent`, with `SweptInv` |
| `NewestRemembered` | `NewestIsNotForgotten` |

Only model-checked: of the pool `ServedInOrder`; and all liveness (`EveryRunReturns`, `SessionIsReaped`, `WaitsEnd`,
`AttemptsEnd`, `EveryRunEnds`), which the prover cannot do.

## 5. Where code and documents differ

Each of these is a run whose only property is what the repository says and
which TLC refutes. The texts and lines are quoted under `findings`.

* `terminal`: a stop while the session is being created makes the reducer drop
  the failed start-up, and `run()` resolves without an outcome. The spawn
  service's catch then makes up a failed one.
* `ticket`: a slot granted in the turn in which the waiting run is cancelled is
  never given back.
* `unmarked`: the delivery architecture says that a notice left staged by a crash is
  sent with a mark, as one that was never finished. When the log refuses the write of
  the mark, `releaseStale` keeps it in memory only; a failed send then writes the state
  alone, so that after one more restart the notice goes out as a normal completion.
* `schedule_doubt`: `runNow` does not settle a run whose claim was renamed and
  not proven durable, although the comments on the clock and the claim say that a
  later reading of the ledger does; the run stays active while its owner lives.

Six smaller divergences are in the models without a run of their own. The delivery
architecture (`docs/dev/delivery-v2/architecture.md:221`) says that after a restart
whatever is undelivered is covered by `reconcile()`; more notices than
`maxReconcileBatch` are passed over, neither sent nor tracked, until the next start
(`notifier.ts:355`). A stop
between the resolution of `create` and its continuation ends as `timed_out` with
the reason `extension_bind` (`runner.ts:913`, against the comment at 878-881).
`abortRun` with the causes `shutdown` or `parent_abort` is recorded as
`user_stop` (`runner.ts:744`, against `W5-report.md:32`). A session that arrives
after its run gave up and cannot be killed has no live mark on its file
(`runner.ts:866`, against `live-session-files.ts:17-19`). A tool call whose record was
dropped is counted as pending for good (`state-machine.ts:995-1004`, against the
comment at 190). The report of a run that was claimed before a pause wakes the session
after it when the wall clock was set back in between (`dispatch.ts:504-507`, against
the comment at 497-501).

## 6. Plan

1. Done: the run (`RunState`, `RunLifecycle`), the pool (`SlotPool`), the notices
   (`Delivery`), the schedule (`ScheduleLedger`, `Schedule`), its messages
   (`Dispatch`) and the spawn service (`Spawn`), with the proofs of section 4.
2. `DeliveryEngine`, `Mailbox` and `Wake`: claims, strict writes, reservations and
   their rollback; abstract specification "one holder of a message".
3. The rest of the spawn service: waits with auto-background, labels, the slots it
   counts at admission. A run of `RunLifecycle` in place of the stages of `Spawn`.
4. Background completions; workflow journal and replay; bash jobs.
5. Proofs: of the pool `ServedInOrder`.

## 7. Not modelled, and why

Terminal UI, web hub, chat and Git integrations are input and output around the
core. Session content, prompts, models and tokens are data that no property
here tells apart. Cryptography, file formats and parsing of settings are
conversions without a protocol. `PROJECT.json` lists every component with what is
missing. Of the modelled parts these are left out:

* **Run.** The escalation inside `reap()` is one step with its three outcomes;
  steering and the reading of branches do not touch the run's state; the
  reducer's diagnostics (text, usage, turns, notes) are left out of the record.
* **Pool.** `audit()`, which nothing calls.
* **Notices.** `consume()`, which only the extension's proxy offers to others and
  which neither empties the buffer nor counts as an ack; the folding of several
  records under one logical key, as only logs of older versions hold them; and
  `verifyPersisted()`, a query. A backoff timer of an old notifier that fires
  after a rebuild finds a session handle that has lapsed; what it then writes is
  outside the model.
* **Schedule.** One task: tasks meet only in the lock and in the backlog. The
  chunks of a large backlog and their budget, the gap between plan and commit of
  an edit (its plan is made again until it holds), the rebase of an edit made in
  an editor, the time to live and the number of requests, the trimming of ended
  runs, the write of `strand` that fails for a message (`wire.ts:412`; that a run whose
  definition changed between its claim and `runNow`'s dispatch is ended at once is
  what `ExecRefused` and `DropMessage` do), the answer "unprovable" of the probe of a holder, the content of reports
  and the prompts of the poll. The preflight and the gate are refusals that count
  as faults. A run is named by its occurrence; a definition that makes the same
  occurrence again after an edit is the same one.
* **Schedule messages.** A pause is one step with the drop of the queued runs,
  which follows at once or fails; a pause while nothing of the task waits is left
  out since it only delays a claim or voids it, and one of a once task leaves the ledger
  as it is. `revokedAt` forgets the oldest reading when more than 64 tasks have one
  (`dispatch.ts:1263`); the model has two tasks and keeps both. The answer to an intent and what the pump does with it are one step. The
  identity of the session is kept relative to the message (`flight.moved`), with
  one flag for an open window of the fence. Timers and moves of the session are
  left out where no handler reads them. The budget and the exemption of the
  dispatcher's own compactions, the counting of prompts of the user interface,
  the details of capabilities, the quiet window, and the progress marks `bound`
  and `aborting` are left out. Of pi the model assumes that it prepares no run
  when it is idle with nothing pending, and that it heeds an abort from the context
  handler; any other abort may get lost. A message that is superseded in the queue
  while the revert of its intent is posted stays `queued` in the ledger with no
  entry until the next claim or `closeEpoch`; hence `NewestIsNotForgotten` is
  about the newest message only.
* **Spawn service.** Every other ground for a refusal (types, models, quotas, load, a
  full pool), labels, waits, steering, worktree waits, the inbox of a resume. Session
  files exist, and a session kept in memory only cannot be resumed. The properties stop
  where the code does: a resume that gave up its session has no mark, and the driver may
  open the file while a later resume has been admitted; a dispose that throws gives the
  mark back; a stack that is shutting down still admits nested requests, so that it and
  the next stack can both be about to open a file (`OneUser` is of one stack, and
  `AdmittedAlone` of other stacks only says that no session is open); a session whose run
  is over may still ask for a nested run, which then has depth 0 and no parent to be
  stopped with; and a child that joins after the cancel handle of its parent has fired is
  not stopped. In the model the comparison with `running` and the lock of the target are
  implied by the lock of the file and the marks; they give the user a better answer.
