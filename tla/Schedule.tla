-------------------------------- MODULE Schedule --------------------------------
(***************************************************************************)
(* One scheduled task: the clocks and executors of the session stacks that *)
(* act on its ledger (src/schedule/core/claim.ts, writer.ts,               *)
(* src/schedule/agent/clock.ts, bg.ts, wire.ts, ops.ts, dispatch.ts).      *)
(*                                                                         *)
(* The body of a transaction runs under a kernel lock and ends in one      *)
(* rename, so it is one step here, together with what its caller does with *)
(* the answer before it waits again.  A claim and a sweep are planned:     *)
(* they read and compute before they have the lock.  Their plan is part of *)
(* the state, and the clock, the ledger and the stack may move before the  *)
(* lock is had.                                                            *)
(***************************************************************************)
EXTENDS ScheduleLedger

CONSTANTS
  ProcessOf,    \* the process of each stack
  Attempts,     \* SCHED_TX_PLAN_ATTEMPTS
  MaxJumps,     \* bounds of the model: how often the wall clock is set,
  MaxChanges,   \* how often the task is changed,
  MaxFaults     \* and how often the store fails or the session refuses a claim

ASSUME ScheduleAssumption ==
  /\ DOMAIN ProcessOf = Stacks
  /\ Attempts \in Nat \ {0}
  /\ {MaxJumps, MaxChanges, MaxFaults} \subseteq Nat

VARIABLES
  wall,      \* the wall clock,
  skew,      \* and how far it has been set off the monotonic one
  ledger,    \* state.json
  stack,     \* "new", "open", "closed" (disposed) or "gone" with its process
  closing,   \* the closed stacks whose closeEpoch is still to come
  armed,     \* armedSince
  tried,     \* the floor of each clock: what it has attempted already
  sweeps,    \* the times of the supplemental sweeps of each clock
  plan,      \* the planned transaction each clock waits for the lock with
  fresh,     \* the stacks whose plan has the rev of the ledger
  doubt,     \* the runs each clock has to settle after an uncertain commit
  work,      \* what the executors know of each run
  revoked,   \* whether a pause or deletion has still to drop the queued runs
  spent,     \* how many jumps, changes and faults (refusals too) there were
  verdict,   \* history: what became of each occurrence
  void,      \* history: up to where occurrences have been declared void
  starts,    \* history: how often each run has been given to its executant
  uncertain  \* history: the runs whose claim was renamed and not proven durable

vars == <<wall, skew, ledger, stack, closing, armed, tried, sweeps, plan, fresh,
          doubt, work, revoked, spent, verdict, void, starts, uncertain>>

time == <<wall, skew>>
store == <<ledger, fresh>>
life == <<stack, closing, armed>>
clock == <<tried, sweeps, plan, doubt>>
history == <<verdict, void, starts, uncertain>>

NoPlan == [op |-> "none", t |-> 0, wall |-> 0, skew |-> 0, tries |-> 0]
Plan == [op : {"claim", "sweep"}, t : Time, wall : Time, skew : Int, tries : 1 .. Attempts]

TypeOK ==
  /\ wall \in Time
  /\ skew \in Int
  /\ ledger \in Ledger
  /\ stack \in [Stacks -> {"new", "open", "closed", "gone"}]
  /\ closing \subseteq Stacks
  /\ armed \in [Stacks -> Time]
  /\ tried \in [Stacks -> Time]
  /\ sweeps \in [Stacks -> SUBSET Nat]
  /\ plan \in [Stacks -> Plan \cup {NoPlan}]
  /\ fresh \subseteq Stacks
  /\ doubt \in [Stacks -> SUBSET Keys]
  /\ work \in [Keys -> {"none", "start", "admit", "wait", "queue", "sent", "drop", "doubt"}]
  /\ revoked \in BOOLEAN
  /\ spent \in [{"jumps", "changes", "faults"} -> Nat]
  /\ verdict \in [Occurrences -> {"open", "fired", "missed", "skipped"}]
  /\ void \in Time
  /\ starts \in [Keys -> Nat]
  /\ uncertain \subseteq Keys

Init ==
  /\ wall = 0
  /\ skew = 0
  /\ ledger \in NewLedger
  /\ stack = [o \in Stacks |-> "new"]
  /\ closing = {}
  /\ armed = [o \in Stacks |-> 0]
  /\ tried = [o \in Stacks |-> 0]
  /\ sweeps = [o \in Stacks |-> {}]
  /\ plan = [o \in Stacks |-> NoPlan]
  /\ fresh = {}
  /\ doubt = [o \in Stacks |-> {}]
  /\ work = [k \in Keys |-> "none"]
  /\ revoked = FALSE
  /\ spent = [b \in {"jumps", "changes", "faults"} |-> 0]
  /\ verdict = [t \in Occurrences |-> "open"]
  /\ void = 0
  /\ starts = [k \in Keys |-> 0]
  /\ uncertain = {}

-------------------------------------------------------------------------------
(* Writing *)

\* The new ledger is renamed into place, and every plan is stale.
Write(l) == ledger' = l /\ fresh' = {}

\* A transaction whose body found nothing to change writes nothing.
WriteIfNew(l) == IF l = ledger THEN UNCHANGED store ELSE Write(l)

Spend(b) == spent' = [spent EXCEPT ![b] = @ + 1]
Fault == spent["faults"] < MaxFaults /\ Spend("faults")

\* A plain transaction: it is written, or the store fails and it is not.
Transact(l) == WriteIfNew(l) /\ UNCHANGED spent
Fails == Fault /\ UNCHANGED store

Judge(S, v) == [t \in Occurrences |-> IF t \in S THEN v ELSE verdict[t]]

-------------------------------------------------------------------------------
(* Planned transactions: the claims and sweeps of a clock, one after another *)

Planned(op, t, tries) == [op |-> op, t |-> t, wall |-> wall, skew |-> skew, tries |-> tries]

\* Faulty variant: only the rev is compared.
HoldsByRev(o, until) == o \in fresh

\* Under the lock: the rev, the wall clock and its pace are those of the plan.
Holds(o, until) ==
  /\ o \in fresh
  /\ plan[o].wall <= wall /\ wall <= until
  /\ skew = plan[o].skew

\* The supplemental sweep for an occurrence in tolerance that came before the stack.
Supplement(since, l, w) ==
  LET t == NextOpen(l, w)
  IN  IF Executable(l) /\ t <= w /\ since > t THEN {t + Tolerance + 1} ELSE {}

\* doSweep: what it plans, or the supplemental sweep it schedules with nothing to plan.
BeginSweep(o, since, left) ==
  IF Swept(ledger, wall) = {}
  THEN /\ sweeps' = [sweeps EXCEPT ![o] = left \cup Supplement(since, ledger, wall)]
       /\ UNCHANGED <<plan, fresh>>
  ELSE /\ plan' = [plan EXCEPT ![o] = Planned("sweep", 0, 1)]
       /\ fresh' = fresh \cup {o}
       /\ sweeps' = [sweeps EXCEPT ![o] = left]

\* The clock's chain is idle.
Idle(o) == stack[o] = "open" /\ plan[o] = NoPlan

Candidate(o) ==
  IF Executable(ledger)
  THEN Least(Due(ledger, Max({ledger.decided, armed[o] - 1, tried[o]}), MaxTime), MaxTime + 1)
  ELSE MaxTime + 1

\* fireDue: the candidate goes to autoClaim, or the preflight refuses it.
Fire(o) ==
  LET t == Candidate(o) IN
  /\ Idle(o)
  /\ t <= wall
  /\ \/ /\ plan' = [plan EXCEPT ![o] = Planned("claim", t, 1)]
        /\ fresh' = fresh \cup {o}
        /\ UNCHANGED <<tried, sweeps>>
        /\ UNCHANGED spent
     \/ /\ Fault
        /\ tried' = [tried EXCEPT ![o] = t]
        /\ sweeps' = [sweeps EXCEPT ![o] = @ \cup {t + Tolerance + 1}]
        /\ UNCHANGED <<plan, fresh>>
  /\ UNCHANGED <<time, ledger, life, doubt, work, revoked, history>>

\* The supplemental timer is due.
SweepDue(o) ==
  LET late == {t \in sweeps[o] : t <= wall} IN
  /\ Idle(o)
  /\ late # {}
  /\ BeginSweep(o, armed[o], sweeps[o] \ late)
  /\ UNCHANGED <<time, ledger, life, tried, doubt, work, revoked, spent, history>>

\* The poll has found a changed file, a turn has begun, or the clocks have drifted.
SweepNow(o) ==
  /\ Idle(o)
  /\ Swept(ledger, wall) # {}
  /\ BeginSweep(o, armed[o], sweeps[o])
  /\ UNCHANGED <<time, ledger, life, tried, doubt, work, revoked, spent, history>>

\* What handleClaim does with the answers that decide nothing.
Claim(o) == plan[o].op = "claim"
Answered(o) == plan' = [plan EXCEPT ![o] = NoPlan]
Unwritten(o) == UNCHANGED ledger /\ fresh' = fresh \ {o}
Leave == UNCHANGED <<tried, sweeps>>
Lost(o) ==
  IF stack[o] # "open" THEN Leave
  ELSE tried' = [tried EXCEPT ![o] = plan[o].t] /\ UNCHANGED sweeps
Ineligible(o) ==
  IF stack[o] # "open" THEN Leave
  ELSE /\ tried' = [tried EXCEPT ![o] = plan[o].t]
       /\ sweeps' = [sweeps EXCEPT ![o] = @ \cup {plan[o].t + Tolerance + 1}]
\* E_BUSY: retried while the occurrence is in tolerance, else only noted.
Busy(o) == IF wall <= plan[o].t + Tolerance THEN Leave ELSE Lost(o)

\* The lock is not had in time.
LockBusy(o) ==
  /\ plan[o] # NoPlan
  /\ Fault
  /\ Answered(o)
  /\ IF Claim(o) THEN Busy(o) ELSE Leave
  /\ Unwritten(o)
  /\ UNCHANGED <<time, life, doubt, work, revoked, history>>

\* The plan of a claim is stale: it is made again, or the claim gives up.
ReplanClaim(o) ==
  LET p == plan[o]
      l == ledger
      eligible == Executable(l) /\ p.t \in At[l.def]
  IN
  /\ Claim(o)
  /\ ~ Holds(o, ClaimUntil(l, p.wall, p.t))
  /\ \/ p.tries = Attempts /\ Answered(o) /\ Busy(o) /\ fresh' = fresh \ {o}
     \/ p.tries < Attempts /\ ~ eligible /\ Answered(o) /\ Ineligible(o) /\ fresh' = fresh \ {o}
     \/ p.tries < Attempts /\ eligible /\ wall < p.t /\ Answered(o) /\ Leave /\ fresh' = fresh \ {o}
     \/ /\ p.tries < Attempts /\ eligible /\ wall >= p.t /\ p.t <= l.decided
        /\ Answered(o) /\ Lost(o) /\ fresh' = fresh \ {o}
     \/ /\ p.tries < Attempts /\ eligible /\ wall >= p.t /\ p.t > l.decided
        /\ plan' = [plan EXCEPT ![o] = Planned("claim", p.t, p.tries + 1)]
        /\ fresh' = fresh \cup {o}
        /\ Leave
  /\ UNCHANGED <<time, ledger, life, doubt, work, revoked, spent, history>>

ReplanSweep(o) ==
  LET p == plan[o] IN
  /\ p.op = "sweep"
  /\ ~ Holds(o, SweepUntil(ledger, p.wall))
  /\ IF p.tries = Attempts THEN Answered(o) /\ UNCHANGED sweeps /\ fresh' = fresh \ {o}
     ELSE IF Swept(ledger, wall) = {}
     THEN /\ Answered(o)
          /\ sweeps' = [sweeps EXCEPT ![o] = @ \cup
               IF stack[o] = "open" THEN Supplement(armed[o], ledger, wall) ELSE {}]
          /\ fresh' = fresh \ {o}
     ELSE /\ plan' = [plan EXCEPT ![o] = Planned("sweep", 0, p.tries + 1)]
          /\ fresh' = fresh \cup {o}
          /\ UNCHANGED sweeps
  /\ UNCHANGED <<time, ledger, life, tried, doubt, work, revoked, spent, history>>

\* A claim under the lock, with a plan that holds.
Claiming(o) == Claim(o) /\ Holds(o, ClaimUntil(ledger, plan[o].wall, plan[o].t))

\* The gate refuses (the stack is disposed, the session locked), or the run exists.
ClaimNothing(o) ==
  /\ Claiming(o)
  /\ Answered(o)
  /\ \/ stack[o] # "open" /\ Leave /\ UNCHANGED spent
     \/ stack[o] = "open" /\ ledger.runs[plan[o].t] # NoRun /\ Lost(o) /\ UNCHANGED spent
     \/ stack[o] = "open" /\ Fault /\ Ineligible(o)
  /\ Unwritten(o)
  /\ UNCHANGED <<time, life, doubt, work, revoked, history>>

\* Faulty variant: a run whose claim is not proven durable is handed over as well.
DecideAnyway(o, l, judged, handed) ==
  LET t == plan[o].t IN
  /\ stack[o] = "open" /\ ledger.runs[t] = NoRun
  /\ Answered(o)
  /\ Lost(o)
  /\ Write(l) /\ verdict' = judged /\ work' = handed
  /\ \/ UNCHANGED <<spent, uncertain>>
     \/ Fault /\ uncertain' = uncertain \cup {k \in {t} : l.runs[k] # NoRun}
  /\ UNCHANGED <<time, life, revoked, doubt, void, starts>>

\* The ways a claim ends that decided: written; written and not proven durable,
\* so that its run is settled later and never handed over; or not written.
Decide(o, l, judged, handed) ==
  LET t == plan[o].t IN
  /\ stack[o] = "open" /\ ledger.runs[t] = NoRun
  /\ Answered(o)
  /\ Lost(o)
  /\ \/ /\ Write(l) /\ verdict' = judged /\ work' = handed
        /\ UNCHANGED <<doubt, spent, uncertain>>
     \/ /\ Fault
        /\ Write(l) /\ verdict' = judged
        /\ doubt' = [doubt EXCEPT ![o] = @ \cup {t}]
        /\ uncertain' = uncertain \cup {k \in {t} : l.runs[k] # NoRun}
        /\ UNCHANGED work
     \/ Fault /\ Unwritten(o) /\ UNCHANGED <<verdict, work, doubt, uncertain>>
  /\ UNCHANGED <<time, life, revoked, void, starts>>

\* The verdicts of a claim of t in tolerance that was planned at w.
Judged(w, t, v) ==
  [x \in Occurrences |->
     IF x = t THEN v
     ELSE IF x \in Between(ledger, w, t) THEN "skipped"
     ELSE IF x \in Overdue(ledger, w, t) THEN "missed" ELSE verdict[x]]

ClaimLate(o) ==
  LET p == plan[o] IN
  /\ Claiming(o) /\ LateAt(p.wall, p.t)
  /\ Decide(o, LateClaim(ledger, p.wall, p.t), Judge(Overdue(ledger, p.wall, p.t), "missed"), work)

ClaimOverlap(o) ==
  LET p == plan[o] IN
  /\ Claiming(o) /\ ~ LateAt(p.wall, p.t)
  /\ Overlaps(ledger)
  /\ Decide(o, OverlapClaim(ledger, p.wall, p.t), Judged(p.wall, p.t, "skipped"), work)

\* dispatch() of the executor; a message takes the place of the older one in the queue.
HandedOver(l, o, k) ==
  IF Form[l.def] = "background" THEN [work EXCEPT ![k] = "start"]
  ELSE [j \in Keys |-> IF j = k THEN "queue"
                       ELSE IF work[j] = "queue" /\ l.runs[j].stack = o THEN "none" ELSE work[j]]

ClaimFire(o) ==
  LET p == plan[o] IN
  /\ Claiming(o) /\ ~ LateAt(p.wall, p.t)
  /\ ~ Overlaps(ledger)
  /\ Decide(o, FiredClaim(ledger, o, p.wall, p.t), Judged(p.wall, p.t, "fired"),
            HandedOver(ledger, o, p.t))

\* The sweep under the lock; it has no gate, a disposed stack may still sweep.
ApplySweep(o) ==
  LET p == plan[o]
      left == IF stack[o] = "open" THEN Supplement(armed[o], ledger, p.wall) ELSE {}
  IN
  /\ p.op = "sweep"
  /\ Holds(o, SweepUntil(ledger, p.wall))
  /\ Answered(o)
  /\ \/ /\ Write(Sweep(ledger, p.wall))
        /\ verdict' = Judge(Swept(ledger, p.wall), "missed")
        /\ \/ UNCHANGED spent /\ sweeps' = [sweeps EXCEPT ![o] = @ \cup left]
           \/ Fault /\ UNCHANGED sweeps
     \/ Fault /\ Unwritten(o) /\ UNCHANGED <<verdict, sweeps>>
  /\ UNCHANGED <<time, life, tried, doubt, work, revoked, void, starts, uncertain>>

-------------------------------------------------------------------------------
(* Plain transactions: one step each *)

Elsewhere == UNCHANGED <<time, life, tried, sweeps, plan>>

\* runNow: a request is claimed once, whoever repeats it.  When the definition changes
\* between the claim and the dispatch that follows it, runNow ends the run itself
\* (strand), which is what ExecRefused and DropMessage do to it.  Left out: a strand of a
\* message whose write fails, a gate that refuses the claim, and the limit of requests.
Manual(o, r) ==
  LET new == ManualClaim(ledger, o, r)
      claimed == new.runs[r] # NoRun
  IN
  /\ stack[o] = "open"
  /\ ledger.def # "none"
  /\ ledger.requests[r] = "none"
  /\ \/ /\ Write(new)
        /\ work' = IF claimed THEN HandedOver(ledger, o, r) ELSE work
        /\ UNCHANGED <<spent, uncertain>>
     \/ /\ Fault
        /\ Write(new)
        /\ uncertain' = uncertain \cup {k \in {r} : claimed}
        /\ UNCHANGED work
  /\ Elsewhere
  /\ UNCHANGED <<doubt, revoked, verdict, void, starts>>

\* changeTask.  A plan that is stale is made again, so the sweep is that of its commit.
Change(def, approved, enabled) ==
  LET new == Rewritten(ledger, wall, def, approved, enabled) IN
  /\ ledger.def # "none"
  /\ spent["changes"] < MaxChanges /\ Spend("changes")
  /\ Write(new)
  /\ verdict' = Judge(Swept(ledger, wall), "missed")
  /\ void' = IF Voids(ledger, wall, def, approved, enabled) THEN new.decided ELSE void
  /\ Elsewhere
  /\ UNCHANGED <<doubt, starts, uncertain>>

\* updateTask: a user's edit keeps an approved task approved, the model's never does.
Update ==
  \E d \in Definitions \ {ledger.def} :
    /\ \/ Change(d, ledger.approved, "kept")
       \/ ledger.approved = ledger.def /\ Change(d, d, "kept")
    /\ UNCHANGED <<work, revoked>>

Approve == Change(ledger.def, ledger.def, "kept") /\ UNCHANGED <<work, revoked>>

Resume == Change(ledger.def, ledger.approved, "on") /\ UNCHANGED <<work, revoked>>

\* revokeTask: the messages that this stack holds in its queue are not sent any more.
Revoke(o) ==
  work' = [k \in Keys |->
    IF work[k] = "queue" /\ ledger.runs[k].stack = o THEN "drop" ELSE work[k]]

Pause(o) ==
  /\ stack[o] = "open"
  /\ Change(ledger.def, ledger.approved, "off")
  /\ Revoke(o)
  /\ revoked' = TRUE

Delete(o) ==
  /\ stack[o] = "open"
  /\ ledger.def # "none"
  /\ spent["changes"] < MaxChanges /\ Spend("changes")
  /\ Write(Removed(ledger))
  /\ Revoke(o)
  /\ revoked' = TRUE
  /\ Elsewhere
  /\ UNCHANGED <<doubt, history>>

\* dropQueuedRuns, the second transaction of a pause and of a deletion.
DropQueued ==
  /\ revoked
  /\ revoked' = FALSE
  /\ \/ Transact(EndAll(ledger, QueuedRuns(ledger), "dropped"))
     \/ Fails
  /\ Elsewhere
  /\ UNCHANGED <<doubt, work, history>>

\* Faulty variant: every other stack is dead that is not of this process.
DeadIfOther(o, h) == h # o

\* Faulty variant: a process leaves the runs of its own disposed stacks alone.
DeadElsewhere(o, h) == ProcessOf[h] # ProcessOf[o] /\ stack[h] = "gone"

\* judgeHolder: a stack is dead to another process when its process is gone, and
\* to its own when it is known to be disposed.
Dead(o, h) ==
  IF ProcessOf[h] = ProcessOf[o] THEN h # o /\ stack[h] = "closed" ELSE stack[h] = "gone"

\* recoverRuns, at the start and with every poll.
Recover(o) ==
  LET lost == {k \in ActiveRuns(ledger) : Dead(o, ledger.runs[k].stack)} IN
  /\ Idle(o)
  /\ lost # {}
  /\ Transact(Terminate(ledger, lost))
  /\ Elsewhere
  /\ UNCHANGED <<doubt, work, revoked, history>>

\* settleUncertain: a run of ours that an uncertain commit has left is never handed
\* over; a busy lock is tried again, any other failure is not.
SettleDoubt(o, k) ==
  /\ Idle(o)
  /\ k \in doubt[o]
  /\ doubt' = [doubt EXCEPT ![o] = @ \ {k}]
  /\ \/ Transact(Finish(ledger, k, "unknown"))
     \/ Fails
  /\ Elsewhere
  /\ UNCHANGED <<work, revoked, history>>

-------------------------------------------------------------------------------
(* The executors *)

Closed(k) == stack[ledger.runs[k].stack] # "open"

Stage(k, to) == work' = [work EXCEPT ![k] = to]

ExecutorOnly == Elsewhere /\ UNCHANGED <<doubt, revoked, verdict, void, uncertain>>

\* execute(): the run is looked up under the lock before it is spawned; a lock that
\* is not had ends the attempt in silence.
ExecStart(k) ==
  /\ work[k] = "start"
  /\ IF ledger.runs[k].state = "dispatching" /\ ~ Closed(k)
     THEN \/ /\ Stage(k, "admit")
             /\ starts' = [starts EXCEPT ![k] = @ + 1]
             /\ UNCHANGED <<store, spent>>
          \/ Stage(k, "none") /\ Fails /\ UNCHANGED starts
     ELSE Stage(k, "none") /\ UNCHANGED <<store, spent, starts>>
  /\ ExecutorOnly

\* spawn() has answered with a run; a failed write of it is ignored.
ExecAdmitted(k) ==
  /\ work[k] = "admit"
  /\ Stage(k, "wait")
  /\ \/ Transact(IF Closed(k) THEN Finish(ledger, k, "unknown") ELSE Progress(ledger, k, "running"))
     \/ Fails
  /\ UNCHANGED starts
  /\ ExecutorOnly

\* commitBackgroundReport: a disposed stack has nothing to say but "unknown".
Report(k) ==
  /\ Stage(k, "none")
  /\ \/ Transact(Finish(ledger, k, IF Closed(k) THEN "unknown" ELSE "ended"))
     \/ Fails
  /\ UNCHANGED starts
  /\ ExecutorOnly

\* The attempt is refused before it starts: by a gate, because the stack is disposed, or
\* by strand, for want of an executor or of the definition that was claimed.
ExecRefused(k) == work[k] = "start" /\ Report(k)

\* spawn() has refused, thrown, or not answered in time.
ExecRejected(k) == work[k] = "admit" /\ Report(k)

\* The outcome is there, or the wait for it is over.
ExecDone(k) == work[k] = "wait" /\ Report(k)

\* dispose() of the executor ends the runs it has in hand.
ExecDispose(k) ==
  /\ work[k] \in {"start", "admit", "wait"} /\ Closed(k)
  /\ IsActive(ledger, k)
  /\ Transact(Finish(ledger, k, "unknown"))
  /\ UNCHANGED <<work, starts>>
  /\ ExecutorOnly

\* casDispatched, and the send that follows it in the same breath.
SendMessage(k) ==
  LET queued == ledger.runs[k].state = "queued"
      sent == [ledger EXCEPT !.runs[k].state = "dispatched"]
  IN
  /\ work[k] = "queue" /\ ~ Closed(k)
  /\ \/ /\ queued /\ Authorized(ledger, k)
        /\ \/ Stage(k, "sent") /\ Transact(sent)
              /\ starts' = [starts EXCEPT ![k] = @ + 1]
           \/ Stage(k, "doubt") /\ Fault /\ Write(sent) /\ UNCHANGED starts
     \/ /\ ~ (queued /\ Authorized(ledger, k))
        /\ Stage(k, "none")
        /\ Transact(IF queued THEN Finish(ledger, k, "dropped") ELSE ledger)
        /\ UNCHANGED starts
  /\ ExecutorOnly

\* The message cannot be delivered here and is dropped, by the pump or by strand.
DropMessage(k) ==
  /\ work[k] \in {"queue", "drop"} /\ ~ Closed(k)
  /\ Stage(k, "none")
  /\ Transact(IF work[k] = "drop" THEN Finish(ledger, k, "dropped")
              ELSE EndAll(ledger, {k} \cap QueuedRuns(ledger), "dropped"))
  /\ UNCHANGED starts
  /\ ExecutorOnly

\* The flight has ended, or an uncertain intent is settled; the write is retried a
\* few times and given up.
EndMessage(k) ==
  /\ work[k] \in {"sent", "doubt"}
  /\ Stage(k, "none")
  /\ \/ Transact(Finish(ledger, k, IF work[k] = "doubt" THEN "unknown" ELSE "ended"))
     \/ Fails
  /\ UNCHANGED starts
  /\ ExecutorOnly

-------------------------------------------------------------------------------
(* Stacks, processes and clocks *)

Siblings(o) == {h \in Stacks : ProcessOf[h] = ProcessOf[o]}

\* start(): the stack is armed from now on, and begins with a sweep.
Open(o) ==
  /\ stack[o] = "new"
  /\ \A h \in Siblings(o) : stack[h] \in {"new", "closed"}
  /\ stack' = [stack EXCEPT ![o] = "open"]
  /\ armed' = [armed EXCEPT ![o] = wall]
  /\ BeginSweep(o, wall, {})
  /\ UNCHANGED <<time, ledger, closing, tried, doubt, work, revoked, spent, history>>

\* dispose(): the timers are gone, a message that is not sent yet is forgotten; what
\* waits for the lock or for an answer goes on.
Close(o) ==
  /\ stack[o] = "open"
  /\ stack' = [stack EXCEPT ![o] = "closed"]
  /\ closing' = closing \cup {o}
  /\ armed' = [armed EXCEPT ![o] = 0]
  /\ tried' = [tried EXCEPT ![o] = 0]
  /\ sweeps' = [sweeps EXCEPT ![o] = {}]
  /\ doubt' = [doubt EXCEPT ![o] = {}]
  /\ work' = [k \in Keys |->
       IF ledger.runs[k].stack = o /\ work[k] \in {"queue", "drop", "sent"} THEN "none" ELSE work[k]]
  /\ UNCHANGED <<time, store, plan, revoked, spent, history>>

\* closeEpoch, the last thing shutdown() does.
CloseEpoch(o) ==
  /\ o \in closing
  /\ closing' = closing \ {o}
  /\ \/ Transact(Terminate(ledger, {k \in ActiveRuns(ledger) : ledger.runs[k].stack = o}))
     \/ Fails
  /\ UNCHANGED <<time, stack, armed, clock, work, revoked, history>>

\* The process dies, and its stacks with it.
Crash(p) ==
  LET S == {o \in Stacks : ProcessOf[o] = p} IN
  /\ \E o \in S : stack[o] \in {"open", "closed"}
  /\ stack' = [o \in Stacks |-> IF o \in S THEN "gone" ELSE stack[o]]
  /\ closing' = closing \ S
  /\ armed' = [o \in Stacks |-> IF o \in S THEN 0 ELSE armed[o]]
  /\ tried' = [o \in Stacks |-> IF o \in S THEN 0 ELSE tried[o]]
  /\ sweeps' = [o \in Stacks |-> IF o \in S THEN {} ELSE sweeps[o]]
  /\ doubt' = [o \in Stacks |-> IF o \in S THEN {} ELSE doubt[o]]
  /\ plan' = [o \in Stacks |-> IF o \in S THEN NoPlan ELSE plan[o]]
  /\ work' = [k \in Keys |-> IF ledger.runs[k].stack \in S THEN "none" ELSE work[k]]
  /\ fresh' = fresh \ S
  /\ UNCHANGED <<time, ledger, revoked, spent, history>>

Tick ==
  /\ wall < MaxTime
  /\ wall' = wall + 1
  /\ UNCHANGED <<skew, store, life, clock, work, revoked, spent, history>>

\* The wall clock is set, forwards or back; the monotonic one is not.
Jump ==
  /\ spent["jumps"] < MaxJumps /\ Spend("jumps")
  /\ wall' \in Time \ {wall}
  /\ skew' = skew + (wall' - wall)
  /\ UNCHANGED <<store, life, clock, work, revoked, history>>

-------------------------------------------------------------------------------

ClockStep(o) ==
  \/ Fire(o) \/ SweepDue(o) \/ ReplanClaim(o) \/ ReplanSweep(o) \/ ClaimNothing(o)
  \/ ClaimLate(o) \/ ClaimOverlap(o) \/ ClaimFire(o) \/ ApplySweep(o)
  \/ \E k \in Keys : SettleDoubt(o, k)

Execute(k) ==
  \/ ExecStart(k) \/ ExecAdmitted(k) \/ ExecRefused(k) \/ ExecRejected(k) \/ ExecDone(k)

Messages(k) == SendMessage(k) \/ DropMessage(k) \/ EndMessage(k)

Next ==
  \/ \E o \in Stacks :
       \/ ClockStep(o) \/ SweepNow(o) \/ LockBusy(o) \/ Recover(o)
       \/ \E r \in Requests : Manual(o, r)
       \/ Pause(o) \/ Delete(o)
       \/ Open(o) \/ Close(o) \/ CloseEpoch(o)
  \/ \E k \in Keys : Execute(k) \/ ExecDispose(k) \/ Messages(k)
  \/ \E p \in {ProcessOf[o] : o \in Stacks} : Crash(p)
  \/ Update \/ Approve \/ Resume \/ DropQueued
  \/ Tick \/ Jump

\* The program's own steps go on, and so does time.  Nobody has to open, close or
\* kill a session, to change or ask for the task, or to be idle for a message.
Fairness ==
  /\ \A o \in Stacks : WF_vars(ClockStep(o)) /\ WF_vars(Recover(o)) /\ WF_vars(CloseEpoch(o))
  /\ \A k \in Keys : WF_vars(Execute(k))
  /\ WF_vars(Tick)

Spec == Init /\ [][Next]_vars /\ Fairness
===============================================================================
