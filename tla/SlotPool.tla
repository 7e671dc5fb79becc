------------------------------- MODULE SlotPool -------------------------------
(***************************************************************************)
(* The pool of concurrency slots (src/runtime/slot-pool.ts) and the runs   *)
(* that wait in it.                                                        *)
(*                                                                         *)
(* A release or a change of the limit does not serve the queue at once: it *)
(* queues a microtask that will.  Until that microtask runs, other         *)
(* synchronous code and other microtasks may see the free slot.  A caller  *)
(* is run()'s guard around acquire(); it may have given up on a waiter     *)
(* that is still queued, or on a ticket that has just been resolved.       *)
(***************************************************************************)
EXTENDS Naturals, Sequences, FiniteSets

CONSTANTS
  Runs,       \* the runs; each asks once
  Limits,     \* the values the limit setting takes; 0 means unlimited
  QueueTimer  \* queueWaitMs > 0: a waiter has a timer of its own

ASSUME PoolAssumption ==
  /\ IsFiniteSet(Runs)
  /\ Limits \subseteq Nat
  /\ QueueTimer \in BOOLEAN

VARIABLES
  limit,     \* the limit in force
  inUse,     \* the counter of slots handed out
  held,      \* the runs that have a slot
  slotless,  \* the counter of runs that need none
  queue,     \* the waiters, including those that are done
  drain,     \* a drain is queued as a microtask
  ticket,    \* what acquire() came to, for each run
  caller     \* what run() is doing, for each run

vars == <<limit, inUse, held, slotless, queue, drain, ticket, caller>>

\* "granted" and "free" are tickets with and without a slot, "denied" a waiter
\* that is done.
Ticket == {"none", "queued", "granted", "free", "denied", "released"}
Caller == {"new", "awaiting", "holding", "over"}

TypeOK ==
  /\ limit \in Nat
  /\ inUse \in Nat
  /\ held \subseteq Runs
  /\ slotless \in Nat
  /\ queue \in Seq(Runs)
  /\ drain \in BOOLEAN
  /\ ticket \in [Runs -> Ticket]
  /\ caller \in [Runs -> Caller]

Init ==
  /\ limit \in Limits
  /\ inUse = 0
  /\ held = {}
  /\ slotless = 0
  /\ queue = <<>>
  /\ drain = FALSE
  /\ ticket = [r \in Runs |-> "none"]
  /\ caller = [r \in Runs |-> "new"]

-------------------------------------------------------------------------------
Room == limit = 0 \/ inUse < limit

\* The live waiters among the first n entries, given the runs that still wait.
First(n, waiting) == {queue[i] : i \in 1 .. n} \cap waiting

\* drainQueue() takes entries off the queue until there is no room or no entry:
\* it takes n of them, where "waiting" are the live waiters.
Enough(n, waiting) == limit # 0 /\ inUse + Cardinality(First(n, waiting)) >= limit

\* Faulty variant: one waiter more than there is room for.
TakesOneMore(n, waiting) ==
  /\ n = Len(queue) \/ inUse + Cardinality(First(n, waiting)) > limit
  /\ \A m \in 0 .. n - 1 : inUse + Cardinality(First(m, waiting)) <= limit

Takes(n, waiting) ==
  /\ n = Len(queue) \/ Enough(n, waiting)
  /\ \A m \in 0 .. n - 1 : ~Enough(m, waiting)

\* Faulty variant: the newest waiters go first.
DrainNewest(waiting, seen) ==
  \E n \in 0 .. Len(queue) :
    LET served == {queue[i] : i \in Len(queue) - n + 1 .. Len(queue)} \cap waiting
    IN /\ Takes(n, waiting)
       /\ queue' = SubSeq(queue, 1, Len(queue) - n)
       /\ inUse' = inUse + Cardinality(served)
       /\ held' = held \cup served
       /\ ticket' = [r \in Runs |-> IF r \in served THEN "granted" ELSE seen[r]]

\* drainQueue(), where "seen" is what the tickets already are in this step.
DrainQueue(waiting, seen) ==
  \E n \in 0 .. Len(queue) :
    LET served == First(n, waiting)
    IN /\ Takes(n, waiting)
       /\ queue' = SubSeq(queue, n + 1, Len(queue))
       /\ inUse' = inUse + Cardinality(served)
       /\ held' = held \cup served
       /\ ticket' = [r \in Runs |-> IF r \in served THEN "granted" ELSE seen[r]]

Queued == {r \in Runs : ticket[r] = "queued"}

\* Timers wait until no microtask is queued: a drain, or the reaction to a
\* ticket.
MicrotaskQueued ==
  drain \/ \E r \in Runs : caller[r] = "awaiting" /\ ticket[r] \in {"granted", "free", "denied"}

-------------------------------------------------------------------------------
(* acquire() *)

\* The signal has already aborted.
AcquireAborted(r) ==
  /\ caller[r] = "new"
  /\ ticket' = [ticket EXCEPT ![r] = "denied"]
  /\ caller' = [caller EXCEPT ![r] = "over"]
  /\ UNCHANGED <<limit, inUse, held, slotless, queue, drain>>

AcquireFree(r) ==
  /\ caller[r] = "new"
  /\ slotless' = slotless + 1
  /\ ticket' = [ticket EXCEPT ![r] = "free"]
  /\ caller' = [caller EXCEPT ![r] = "awaiting"]
  /\ UNCHANGED <<limit, inUse, held, queue, drain>>

\* A free slot is taken at once, whoever is in the queue.
AcquireNow(r) ==
  /\ caller[r] = "new"
  /\ Room
  /\ inUse' = inUse + 1
  /\ held' = held \cup {r}
  /\ ticket' = [ticket EXCEPT ![r] = "granted"]
  /\ caller' = [caller EXCEPT ![r] = "awaiting"]
  /\ UNCHANGED <<limit, slotless, queue, drain>>

AcquireQueued(r) ==
  /\ caller[r] = "new"
  /\ ~Room
  /\ queue' = Append(queue, r)
  /\ ticket' = [ticket EXCEPT ![r] = "queued"]
  /\ caller' = [caller EXCEPT ![r] = "awaiting"]
  /\ UNCHANGED <<limit, inUse, held, slotless, drain>>

\* The waiter's own timer.
Expire(r) ==
  /\ QueueTimer
  /\ ~MicrotaskQueued
  /\ ticket[r] = "queued"
  /\ DrainQueue(Queued \ {r}, [ticket EXCEPT ![r] = "denied"])
  /\ UNCHANGED <<limit, slotless, drain, caller>>

\* Faulty variant: an aborted waiter stays in the queue.
AbortUnheard(r) ==
  /\ \/ caller[r] = "awaiting"
     \/ caller[r] = "over" /\ ticket[r] = "queued"
  /\ caller' = [caller EXCEPT ![r] = "over"]
  /\ UNCHANGED <<limit, inUse, held, slotless, queue, drain, ticket>>

\* The run's signal aborts: a stop of the waiting run, or the reaper's cancel of
\* one that has returned.  A waiter that is already resolved ignores it.
Abort(r) ==
  /\ \/ caller[r] = "awaiting"
     \/ caller[r] = "over" /\ ticket[r] = "queued"
  /\ caller' = [caller EXCEPT ![r] = "over"]
  /\ IF ticket[r] = "queued"
     THEN DrainQueue(Queued \ {r}, [ticket EXCEPT ![r] = "denied"])
     ELSE UNCHANGED <<queue, inUse, held, ticket>>
  /\ UNCHANGED <<limit, slotless, drain>>

-------------------------------------------------------------------------------
(* The caller *)

\* run() goes on with its ticket, or returns without one.
Receive(r) ==
  /\ caller[r] = "awaiting"
  /\ ticket[r] \in {"granted", "free", "denied"}
  /\ caller' = [caller EXCEPT ![r] = IF ticket[r] = "denied" THEN "over" ELSE "holding"]
  /\ UNCHANGED <<limit, inUse, held, slotless, queue, drain, ticket>>

\* The timer of run()'s guard; the waiter stays queued until the run is reaped.
GiveUp(r) ==
  /\ ~MicrotaskQueued
  /\ caller[r] = "awaiting"
  /\ caller' = [caller EXCEPT ![r] = "over"]
  /\ UNCHANGED <<limit, inUse, held, slotless, queue, drain, ticket>>

\* Faulty variant: a ticket without a slot gives one back all the same.
ReleaseAlike(r) ==
  /\ caller[r] = "holding"
  /\ inUse' = inUse - 1
  /\ held' = held \ {r}
  /\ drain' = TRUE
  /\ ticket' = [ticket EXCEPT ![r] = "released"]
  /\ caller' = [caller EXCEPT ![r] = "over"]
  /\ UNCHANGED <<limit, queue, slotless>>

\* Faulty variant: the queue is not looked at when a slot comes back.
ReleaseQuietly(r) ==
  /\ caller[r] = "holding"
  /\ inUse' = IF ticket[r] = "granted" THEN inUse - 1 ELSE inUse
  /\ slotless' = IF ticket[r] = "free" THEN slotless - 1 ELSE slotless
  /\ held' = held \ {r}
  /\ ticket' = [ticket EXCEPT ![r] = "released"]
  /\ caller' = [caller EXCEPT ![r] = "over"]
  /\ UNCHANGED <<limit, queue, drain>>

\* ticket.release() in run()'s finally block.
Release(r) ==
  /\ caller[r] = "holding"
  /\ inUse' = IF ticket[r] = "granted" /\ inUse > 0 THEN inUse - 1 ELSE inUse
  /\ slotless' = IF ticket[r] = "free" /\ slotless > 0 THEN slotless - 1 ELSE slotless
  /\ held' = IF ticket[r] = "granted" THEN held \ {r} ELSE held
  /\ drain' = TRUE
  /\ ticket' = [ticket EXCEPT ![r] = "released"]
  /\ caller' = [caller EXCEPT ![r] = "over"]
  /\ UNCHANGED <<limit, queue>>

-------------------------------------------------------------------------------
SetLimit(n) ==
  /\ limit' = n
  /\ drain' = TRUE
  /\ UNCHANGED <<inUse, held, slotless, queue, ticket, caller>>

\* The queued microtask.
Drain ==
  /\ drain
  /\ drain' = FALSE
  /\ DrainQueue(Queued, ticket)
  /\ UNCHANGED <<limit, slotless, caller>>

-------------------------------------------------------------------------------
Next ==
  \/ \E r \in Runs :
       \/ AcquireAborted(r) \/ AcquireFree(r)
       \/ AcquireNow(r) \/ AcquireQueued(r)
       \/ Expire(r) \/ Abort(r)
       \/ Receive(r) \/ GiveUp(r) \/ Release(r)
  \/ \E n \in Limits : SetLimit(n)
  \/ Drain

\* Microtasks run, the guard's timer fires, and a run that has returned is
\* reaped.  A due timer may be put off by a microtask again and again, but its
\* turn comes whenever the microtasks are done.  Nothing makes a run release its
\* slot or the user change the limit.
Fairness ==
  /\ WF_vars(Drain)
  /\ \A r \in Runs : /\ WF_vars(Receive(r))
                     /\ SF_vars(GiveUp(r))
                     /\ WF_vars(caller[r] = "over" /\ Abort(r))

Spec == Init /\ [][Next]_vars /\ Fairness

-------------------------------------------------------------------------------
(* Properties *)

\* The counters are those of the tickets: a slot is in use exactly for every
\* granted ticket that was not given back, whichever of the paths through the
\* queue, the timers and the release it took (src/runtime/slot-pool.ts 38-121).
Accounting ==
  /\ held = {r \in Runs : ticket[r] = "granted"}
  /\ inUse = Cardinality(held)
  /\ slotless = Cardinality({r \in Runs : ticket[r] = "free"})

\* No wake-up is lost: while a live waiter stands in the queue, a slot is free
\* only until a drain that is already queued (slot-pool.ts 58-82, 97-106).
NoIdleSlot ==
  \A r \in Runs : ticket[r] = "queued" =>
    /\ \E i \in 1 .. Len(queue) : queue[i] = r
    /\ Room => drain

\* The queue is served in its order: no drain lets a waiter in past an earlier
\* one that still waits (slot-pool.ts 109-121).
ServedInOrder ==
  [][\A i, j \in 1 .. Len(queue) :
       (/\ i < j
        /\ ticket[queue[i]] = "queued"
        /\ ticket[queue[j]] = "queued"
        /\ ticket'[queue[j]] = "granted") => ticket'[queue[i]] # "queued"]_vars

\* A waiter does not wait for ever, even when the slots are never given back:
\* the guard's timer or its own, or the reap, ends it (slot-pool.ts 58-74 and
\* src/runtime/runner.ts 808-818).
WaitsEnd == \A r \in Runs : ticket[r] = "queued" ~> ticket[r] # "queued"

\* The pool implements the semaphore: grants stay within the limit in force,
\* through drains, barging callers, dead waiters and changes of the limit.
Place == [r \in Runs |->
  CASE ticket[r] = "queued" -> "waiting"
    [] ticket[r] = "granted" -> "using"
    [] ticket[r] \in {"denied", "released"} -> "left"
    [] OTHER -> "out"]

Pool == INSTANCE Semaphore WITH Clients <- Runs, place <- Place, bound <- limit
KeepsBound == Pool!Spec
===============================================================================
