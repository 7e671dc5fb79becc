---------------------------- MODULE SlotPoolProofs ----------------------------
(***************************************************************************)
(* Proofs about the slot pool for any finite set of runs and any limits.   *)
(***************************************************************************)
EXTENDS SlotPool, FiniteSetTheorems, TLAPS

\* A caller and its ticket move together; only a caller that goes on with a
\* ticket gives it back.
Paired ==
  \A r \in Runs :
    /\ caller[r] = "new" => ticket[r] = "none"
    /\ caller[r] = "awaiting" => ticket[r] \in {"queued", "granted", "free", "denied"}
    /\ caller[r] = "holding" => ticket[r] \in {"granted", "free"}

IInv == TypeOK /\ Accounting /\ Paired /\ NoIdleSlot

-------------------------------------------------------------------------------
\* The initial state satisfies the invariant.
LEMMA InitSound == Init => IInv
<1> SUFFICES ASSUME Init PROVE IInv
  OBVIOUS
<1> USE PoolAssumption DEF Init
<1>1. TypeOK
  <2>1. limit \in Nat /\ inUse \in Nat /\ slotless \in Nat /\ held \subseteq Runs
    BY SMT
  <2>2. queue \in Seq(Runs)
    BY SMT
  <2>3. ticket \in [Runs -> Ticket] /\ caller \in [Runs -> Caller]
    BY SMT DEF Ticket, Caller
  <2>4. drain \in BOOLEAN
    BY Zenon
  <2> QED
    BY <2>1, <2>2, <2>3, <2>4 DEF TypeOK
<1>2. Accounting
  <2>1. held = {r \in Runs : ticket[r] = "granted"}
    OBVIOUS
  <2>2. {r \in Runs : ticket[r] = "free"} = {}
    OBVIOUS
  <2> QED
    BY <2>1, <2>2, FS_EmptySet DEF Accounting
<1>3. Paired /\ NoIdleSlot
  BY DEF Paired, NoIdleSlot
<1> QED
  BY <1>1, <1>2, <1>3 DEF IInv

-------------------------------------------------------------------------------
\* The sets the counters stand for are finite.
LEMMA Finite ==
  ASSUME TypeOK
  PROVE  /\ IsFiniteSet(held)
         /\ \A S \in SUBSET Runs : IsFiniteSet(S) /\ Cardinality(S) \in Nat
BY PoolAssumption, FS_Subset, FS_CardinalityType DEF TypeOK

\* The tickets are up to date except that they show the waiter that has just
\* ended as denied.
Seen(waiting, seen) ==
  /\ \A r \in Queued \ waiting : seen[r] = "denied"
  /\ \A r \in Runs \ (Queued \ waiting) : seen[r] = ticket[r]

\* What a drain does: it serves live waiters only, counts them, and leaves a
\* live waiter in the queue only when the slots are used up.
Drains(waiting, seen) ==
  \E served \in SUBSET waiting :
    /\ queue' \in Seq(Runs)
    /\ inUse' \in Nat
    /\ inUse' = Cardinality(held')
    /\ held' = held \cup served
    /\ ticket' = [r \in Runs |-> IF r \in served THEN "granted" ELSE seen[r]]
    /\ \A r \in waiting \ served :
         /\ \E i \in 1 .. Len(queue') : queue'[i] = r
         /\ limit # 0 /\ inUse' >= limit

LEMMA Drained ==
  ASSUME IInv,
         NEW waiting \in SUBSET Queued,
         NEW seen \in [Runs -> Ticket],
         Seen(waiting, seen),
         DrainQueue(waiting, seen)
  PROVE  Drains(waiting, seen)
<1> USE DEF IInv
<1>1. PICK n \in 0 .. Len(queue) :
        /\ Takes(n, waiting)
        /\ queue' = SubSeq(queue, n + 1, Len(queue))
        /\ inUse' = inUse + Cardinality(First(n, waiting))
        /\ held' = held \cup First(n, waiting)
        /\ ticket' = [r \in Runs |-> IF r \in First(n, waiting) THEN "granted" ELSE seen[r]]
  BY DEF DrainQueue
<1> DEFINE served == First(n, waiting)
<1>2. served \subseteq waiting /\ waiting \subseteq Runs
  BY DEF First, Queued
<1>3. IsFiniteSet(held) /\ IsFiniteSet(served) /\ Cardinality(served) \in Nat /\ inUse \in Nat
  BY <1>2, Finite DEF TypeOK
<1>4. held \cap served = {}
  BY <1>2 DEF Accounting, Queued
<1>5. inUse' = Cardinality(held') /\ inUse' \in Nat
  <2>1. Cardinality(held \cup served) = Cardinality(held) + Cardinality(served) - Cardinality({})
    BY <1>3, <1>4, FS_Union
  <2>2. Cardinality({}) = 0
    BY FS_EmptySet
  <2>3. inUse = Cardinality(held)
    BY DEF Accounting
  <2> HIDE DEF served
  <2>4. inUse' = inUse + Cardinality(served) /\ held' = held \cup served
    BY <1>1 DEF served
  <2> QED
    BY <1>3, <2>1, <2>2, <2>3, <2>4
<1>6. queue' \in Seq(Runs)
  BY <1>1 DEF TypeOK
<1>7. ASSUME NEW r \in waiting \ served
      PROVE  /\ \E i \in 1 .. Len(queue') : queue'[i] = r
             /\ limit # 0 /\ inUse' >= limit
  <2>1. PICK i \in 1 .. Len(queue) : queue[i] = r
    BY <1>2 DEF NoIdleSlot, Queued
  <2>2. i > n
    BY <2>1, <1>7 DEF First
  <2>3. queue \in Seq(Runs) /\ Len(queue) \in Nat
    BY DEF TypeOK
  <2>4. i - n \in 1 .. Len(queue') /\ queue'[i - n] = r
    BY <1>1, <2>1, <2>2, <2>3
  <2>5. Enough(n, waiting)
    BY <1>1, <2>1, <2>2, <2>3 DEF Takes
  <2> QED
    BY <1>1, <2>4, <2>5 DEF Enough
<1> QED
  <2> HIDE DEF served
  <2>1. /\ served \in SUBSET waiting
        /\ held' = held \cup served
        /\ ticket' = [r \in Runs |-> IF r \in served THEN "granted" ELSE seen[r]]
    BY <1>1, <1>2 DEF served
  <2> QED
    BY <2>1, <1>5, <1>6, <1>7, Zenon DEF Drains

\* A drain with every live waiter, or all but the one that has just ended.
LEMMA DrainKeeps ==
  ASSUME IInv,
         NEW waiting \in SUBSET Queued,
         NEW seen \in [Runs -> Ticket],
         Seen(waiting, seen),
         DrainQueue(waiting, seen),
         caller' \in [Runs -> Caller],
         \A r \in Runs : caller'[r] \in {caller[r], "over"},
         UNCHANGED <<limit, slotless>>,
         drain' \in BOOLEAN
  PROVE  IInv'
<1>1. PICK served \in SUBSET waiting :
           /\ queue' \in Seq(Runs)
           /\ inUse' \in Nat
           /\ inUse' = Cardinality(held')
           /\ held' = held \cup served
           /\ ticket' = [r \in Runs |-> IF r \in served THEN "granted" ELSE seen[r]]
           /\ \A r \in waiting \ served :
                /\ \E i \in 1 .. Len(queue') : queue'[i] = r
                /\ limit # 0 /\ inUse' >= limit
  BY Drained, Zenon DEF Drains
<1>0. /\ \A r \in Queued \ waiting : seen[r] = "denied"
      /\ \A r \in Runs \ (Queued \ waiting) : seen[r] = ticket[r]
  BY DEF Seen
<1>2. Queued \subseteq Runs /\ \A r \in Queued : ticket[r] = "queued"
  BY DEF Queued
<1>3. TypeOK'
  <2>1. ticket' \in [Runs -> Ticket]
    BY <1>1 DEF Ticket
  <2>2. held' \subseteq Runs
    BY <1>1, <1>2, <1>0 DEF IInv, TypeOK
  <2> QED
    BY <1>1, <2>1, <2>2 DEF IInv, TypeOK
<1>4. held' = {r \in Runs : ticket'[r] = "granted"}
  BY <1>1, <1>2, <1>0 DEF IInv, Accounting
<1>5. {r \in Runs : ticket'[r] = "free"} = {r \in Runs : ticket[r] = "free"}
  BY <1>1, <1>2, <1>0
<1>6. Accounting'
  BY <1>1, <1>4, <1>5 DEF IInv, Accounting
<1>7. Paired'
  BY <1>1, <1>2, <1>0 DEF IInv, Paired
<1>8. NoIdleSlot'
  <2> SUFFICES ASSUME NEW r \in Runs, ticket'[r] = "queued"
               PROVE  /\ \E i \in 1 .. Len(queue') : queue'[i] = r
                      /\ ~Room'
    BY DEF NoIdleSlot
  <2>1. r \in waiting \ served
    BY <1>1, <1>2, <1>0 DEF Queued
  <2>2. limit' = limit /\ limit \in Nat /\ inUse' \in Nat
    BY <1>1 DEF IInv, TypeOK
  <2>3. /\ \E i \in 1 .. Len(queue') : queue'[i] = r
        /\ limit # 0 /\ inUse' >= limit
    BY <1>1, <2>1, Zenon
  <2>4. ~Room'
    BY <2>2, <2>3 DEF Room
  <2> QED
    BY <2>3, <2>4
<1> QED
  BY <1>3, <1>6, <1>7, <1>8 DEF IInv

-------------------------------------------------------------------------------
(* One lemma per action. *)

\* The two drains that end a waiter, and the queued one.
LEMMA EndWaiter ==
  ASSUME IInv, NEW r \in Runs, ticket[r] = "queued"
  PROVE  /\ [ticket EXCEPT ![r] = "denied"] \in [Runs -> Ticket]
         /\ Queued \ {r} \in SUBSET Queued
         /\ Seen(Queued \ {r}, [ticket EXCEPT ![r] = "denied"])
BY DEF IInv, TypeOK, Ticket, Seen, Queued

\* A waiter whose own timer fires.
LEMMA ExpireKeeps == ASSUME IInv, NEW r \in Runs, Expire(r) PROVE IInv'
<1>1. caller' \in [Runs -> Caller] /\ drain' \in BOOLEAN /\ \A q \in Runs : caller'[q] = caller[q]
  BY DEF Expire, IInv, TypeOK
<1> QED
  BY <1>1, EndWaiter, DrainKeeps DEF Expire

\* A run that stops waiting.
LEMMA AbortKeeps == ASSUME IInv, NEW r \in Runs, Abort(r) PROVE IInv'
<1>1. /\ caller' \in [Runs -> Caller]
      /\ drain' \in BOOLEAN
      /\ \A q \in Runs : caller'[q] \in {caller[q], "over"}
  BY DEF Abort, IInv, TypeOK, Caller
<1>2. CASE ticket[r] = "queued"
  BY <1>1, <1>2, EndWaiter, DrainKeeps DEF Abort
<1>3. CASE ticket[r] # "queued"
  <2>1. UNCHANGED <<limit, inUse, held, slotless, queue, drain, ticket>>
    BY <1>3 DEF Abort
  <2>2. TypeOK' /\ Paired'
    BY <1>1, <2>1 DEF IInv, TypeOK, Paired
  <2> QED
    BY <2>1, <2>2 DEF IInv, Accounting, NoIdleSlot, Room
<1> QED
  BY <1>2, <1>3

\* The queued drain.
LEMMA DrainStepKeeps == ASSUME IInv, Drain PROVE IInv'
<1>1. caller' \in [Runs -> Caller] /\ drain' \in BOOLEAN /\ \A q \in Runs : caller'[q] = caller[q]
  BY DEF Drain, IInv, TypeOK
<1>2. ticket \in [Runs -> Ticket] /\ Seen(Queued, ticket)
  BY DEF IInv, TypeOK, Seen
<1>3. DrainQueue(Queued, ticket) /\ UNCHANGED <<limit, slotless>>
  BY DEF Drain
<1> QED
  BY <1>1, <1>2, <1>3, DrainKeeps

\* A request whose signal has aborted.
LEMMA AcquireAbortedKeeps == ASSUME IInv, NEW r \in Runs, AcquireAborted(r) PROVE IInv'
<1> USE DEF AcquireAborted, IInv
<1>1. TypeOK'
  BY DEF TypeOK, Ticket, Caller
<1>2. Paired' /\ NoIdleSlot'
  BY DEF TypeOK, Paired, NoIdleSlot, Room
<1>3. /\ {q \in Runs : ticket'[q] = "granted"} = {q \in Runs : ticket[q] = "granted"}
      /\ {q \in Runs : ticket'[q] = "free"} = {q \in Runs : ticket[q] = "free"}
  BY DEF TypeOK, Paired
<1> QED
  BY <1>1, <1>2, <1>3 DEF Accounting

\* A request that needs no slot.
LEMMA AcquireFreeKeeps == ASSUME IInv, NEW r \in Runs, AcquireFree(r) PROVE IInv'
<1> USE DEF AcquireFree, IInv
<1> DEFINE free == {q \in Runs : ticket[q] = "free"}
<1>1. TypeOK'
  BY DEF TypeOK, Ticket, Caller
<1>2. Paired' /\ NoIdleSlot'
  BY DEF TypeOK, Paired, NoIdleSlot, Room
<1>3. /\ {q \in Runs : ticket'[q] = "granted"} = {q \in Runs : ticket[q] = "granted"}
      /\ {q \in Runs : ticket'[q] = "free"} = free \cup {r}
      /\ r \notin free
  BY DEF TypeOK, Paired
<1>4. Cardinality(free \cup {r}) = Cardinality(free) + 1
  <2>1. IsFiniteSet(free)
    BY Finite
  <2> QED
    BY <1>3, <2>1, FS_AddElement
<1> QED
  BY <1>1, <1>2, <1>3, <1>4 DEF Accounting

\* A request that finds a free slot.
LEMMA AcquireNowKeeps == ASSUME IInv, NEW r \in Runs, AcquireNow(r) PROVE IInv'
<1> USE DEF AcquireNow, IInv
<1>1. TypeOK'
  BY DEF TypeOK, Ticket, Caller
<1>2. Paired' /\ NoIdleSlot'
  BY DEF TypeOK, Paired, NoIdleSlot, Room
<1>3. /\ {q \in Runs : ticket'[q] = "free"} = {q \in Runs : ticket[q] = "free"}
      /\ {q \in Runs : ticket'[q] = "granted"} = {q \in Runs : ticket[q] = "granted"} \cup {r}
      /\ ticket[r] # "granted"
  BY DEF TypeOK, Paired
<1>4. Cardinality(held \cup {r}) = Cardinality(held) + 1
  <2>1. r \notin held
    BY <1>3 DEF Accounting
  <2> QED
    BY <2>1, Finite, FS_AddElement
<1> QED
  BY <1>1, <1>2, <1>3, <1>4 DEF Accounting

\* A request that joins the queue.
LEMMA AcquireQueuedKeeps == ASSUME IInv, NEW r \in Runs, AcquireQueued(r) PROVE IInv'
<1> USE DEF AcquireQueued, IInv
<1>1. TypeOK'
  BY DEF TypeOK, Ticket, Caller
<1>2. Paired'
  BY DEF TypeOK, Paired
<1>3. NoIdleSlot'
  <2> SUFFICES ASSUME NEW q \in Runs, ticket'[q] = "queued"
               PROVE  \E i \in 1 .. Len(queue') : queue'[i] = q
    BY DEF NoIdleSlot, Room
  <2>1. queue \in Seq(Runs) /\ Len(queue) \in Nat /\ queue' = Append(queue, r)
    BY DEF TypeOK
  <2>2. CASE q = r
    BY <2>1, <2>2
  <2>3. CASE q # r
    <3>1. PICK i \in 1 .. Len(queue) : queue[i] = q
      BY <2>3 DEF NoIdleSlot, TypeOK
    <3> QED
      BY <2>1, <3>1
  <2> QED
    BY <2>2, <2>3
<1>4. /\ {q \in Runs : ticket'[q] = "granted"} = {q \in Runs : ticket[q] = "granted"}
      /\ {q \in Runs : ticket'[q] = "free"} = {q \in Runs : ticket[q] = "free"}
  BY DEF TypeOK, Paired
<1> QED
  BY <1>1, <1>2, <1>3, <1>4 DEF Accounting

\* A run that goes on, or that gives up on the ticket it waited for.
LEMMA CallerKeeps ==
  ASSUME IInv, NEW r \in Runs, Receive(r) \/ GiveUp(r)
  PROVE  IInv'
<1>1. TypeOK' /\ Paired'
  BY DEF IInv, TypeOK, Paired, Receive, GiveUp, Caller
<1>2. UNCHANGED <<limit, inUse, held, slotless, queue, drain, ticket>>
  BY DEF Receive, GiveUp
<1> QED
  BY <1>1, <1>2 DEF IInv, Accounting, NoIdleSlot, Room

\* A run that gives its ticket back.
LEMMA ReleaseKeeps == ASSUME IInv, NEW r \in Runs, Release(r) PROVE IInv'
<1> USE DEF Release, IInv
<1> DEFINE free == {q \in Runs : ticket[q] = "free"}
<1>1. Paired' /\ NoIdleSlot'
  BY DEF TypeOK, Paired, NoIdleSlot
<1>2. CASE ticket[r] = "granted"
  <2>1. r \in held /\ IsFiniteSet(held)
    BY <1>2, Finite DEF Accounting
  <2>2. Cardinality(held \ {r}) = Cardinality(held) - 1 /\ inUse > 0
    <3>1. Cardinality(held \ {r}) = Cardinality(held) - 1
      BY <2>1, FS_RemoveElement
    <3>2. Cardinality(held) # 0
      BY <2>1, FS_EmptySet
    <3>3. inUse = Cardinality(held) /\ inUse \in Nat
      BY DEF TypeOK, Accounting
    <3> QED
      BY <3>1, <3>2, <3>3
  <2>3. TypeOK'
    BY <1>2, <2>2 DEF TypeOK, Ticket, Caller
  <2>4. /\ {q \in Runs : ticket'[q] = "granted"} = held \ {r}
        /\ {q \in Runs : ticket'[q] = "free"} = free
    BY <1>2 DEF TypeOK, Accounting
  <2> QED
    BY <1>1, <1>2, <2>2, <2>3, <2>4 DEF Accounting
<1>3. CASE ticket[r] = "free"
  <2>1. r \in free /\ IsFiniteSet(free)
    BY <1>3, Finite
  <2>2. Cardinality(free \ {r}) = Cardinality(free) - 1 /\ slotless > 0
    <3> HIDE DEF free
    <3>1. Cardinality(free \ {r}) = Cardinality(free) - 1
      BY <2>1, FS_RemoveElement
    <3>2. Cardinality(free) # 0
      BY <2>1, FS_EmptySet
    <3>3. slotless = Cardinality(free) /\ slotless \in Nat
      BY DEF TypeOK, Accounting, free
    <3> QED
      BY <3>1, <3>2, <3>3
  <2>3. TypeOK'
    BY <1>3, <2>2 DEF TypeOK, Ticket, Caller
  <2>4. /\ {q \in Runs : ticket'[q] = "granted"} = held
        /\ {q \in Runs : ticket'[q] = "free"} = free \ {r}
    BY <1>3 DEF TypeOK, Accounting
  <2> QED
    BY <1>1, <1>3, <2>2, <2>3, <2>4 DEF Accounting
<1> QED
  BY <1>2, <1>3 DEF Paired

\* A change of the limit.
LEMMA SetLimitKeeps == ASSUME IInv, NEW n \in Limits, SetLimit(n) PROVE IInv'
<1>1. UNCHANGED <<inUse, held, slotless, queue, ticket, caller>> /\ drain' = TRUE /\ limit' \in Nat
  BY PoolAssumption DEF SetLimit
<1>2. TypeOK'
  BY <1>1 DEF IInv, TypeOK
<1> QED
  BY <1>1, <1>2 DEF IInv, Accounting, Paired, NoIdleSlot

-------------------------------------------------------------------------------
\* The invariant holds in every reachable state.
THEOREM PoolSound == Spec => []IInv
<1>1. Init => IInv
  BY InitSound
<1>2. IInv /\ [Next]_vars => IInv'
  <2> SUFFICES ASSUME IInv, [Next]_vars PROVE IInv'
    OBVIOUS
  <2>1. ASSUME NEW r \in Runs,
               \/ AcquireAborted(r) \/ AcquireFree(r) \/ AcquireNow(r) \/ AcquireQueued(r)
        PROVE  IInv'
    BY <2>1, AcquireAbortedKeeps, AcquireFreeKeeps, AcquireNowKeeps, AcquireQueuedKeeps
  <2>2. ASSUME NEW r \in Runs,
               Expire(r) \/ Abort(r) \/ Receive(r) \/ GiveUp(r) \/ Release(r)
        PROVE  IInv'
    BY <2>2, ExpireKeeps, AbortKeeps, CallerKeeps, ReleaseKeeps
  <2>3. ASSUME NEW n \in Limits, SetLimit(n) PROVE IInv'
    BY <2>3, SetLimitKeeps
  <2>4. CASE Drain
    BY <2>4, DrainStepKeeps
  <2>5. CASE UNCHANGED vars
    BY <2>5 DEF vars, IInv, TypeOK, Accounting, Paired, NoIdleSlot, Room
  <2> QED
    BY <2>1, <2>2, <2>3, <2>4, <2>5 DEF Next
<1> QED
  BY <1>1, <1>2, PTL DEF Spec

\* The variables keep their types; above all the counter of slots in use is
\* never negative.
THEOREM PoolTypeCorrect == Spec => []TypeOK
BY PoolSound, PTL DEF IInv

\* The counters of slot-pool.ts are those of the tickets that are out.
THEOREM SlotsAccounted == Spec => []Accounting
BY PoolSound, PTL DEF IInv

\* No wake-up of a waiter is lost.
THEOREM NoWakeUpLost == Spec => []NoIdleSlot
BY PoolSound, PTL DEF IInv

-------------------------------------------------------------------------------
(* The pool implements the semaphore. *)

\* The semaphore counts as the pool does.
LEMMA SameCount == \A S : Pool!Cardinality(S) = Cardinality(S)
BY Zenon DEF Pool!Cardinality, Cardinality

\* A drain lets in no more than there is room for: without its last entry it
\* would have stopped earlier, and one entry is at most one waiter.
LEMMA WithinLimit ==
  ASSUME IInv, NEW waiting \in SUBSET Queued, NEW n \in 0 .. Len(queue),
         Takes(n, waiting), First(n, waiting) # {}, limit # 0
  PROVE  inUse + Cardinality(First(n, waiting)) <= limit
<1>1. queue \in Seq(Runs) /\ inUse \in Nat /\ limit \in Nat
  BY DEF IInv, TypeOK
<1>2. n # 0
  BY DEF First
<1> DEFINE before == First(n - 1, waiting)
<1>3. First(n, waiting) \subseteq before \cup {queue[n]}
  BY <1>1, <1>2 DEF First
<1>4. before \in SUBSET Runs /\ First(n, waiting) \in SUBSET Runs /\ TypeOK
  BY DEF First, Queued, IInv
<1>5. ~Enough(n - 1, waiting)
  BY <1>1, <1>2 DEF Takes
<1>6. inUse + Cardinality(before) < limit
  BY <1>1, <1>4, <1>5, Finite DEF Enough
<1>7. Cardinality(First(n, waiting)) <= Cardinality(before) + 1
  <2>1. IsFiniteSet(before) /\ Cardinality(before) \in Nat
    BY <1>4, Finite
  <2> HIDE DEF before
  <2>2. /\ IsFiniteSet(before \cup {queue[n]})
        /\ Cardinality(before \cup {queue[n]}) <= Cardinality(before) + 1
    <3> DEFINE q == queue[n]
    <3> HIDE DEF q
    <3>1. /\ IsFiniteSet(before \cup {q})
          /\ Cardinality(before \cup {q}) =
               IF q \in before THEN Cardinality(before) ELSE Cardinality(before) + 1
      BY <2>1, FS_AddElement, Zenon
    <3>2. Cardinality(before \cup {q}) <= Cardinality(before) + 1
      BY <2>1, <3>1
    <3> QED
      BY <3>1, <3>2 DEF q
  <2>3. /\ Cardinality(First(n, waiting)) <= Cardinality(before \cup {queue[n]})
        /\ Cardinality(First(n, waiting)) \in Nat
    BY <2>2, <1>3, <1>4, Finite, FS_Subset
  <2>4. Cardinality(before \cup {queue[n]}) \in Nat
    BY <2>2, FS_CardinalityType
  <2> QED
    BY <2>1, <2>2, <2>3, <2>4
<1> QED
  BY <1>1, <1>4, <1>6, <1>7, Finite

\* A drain is one step of the semaphore: the denied waiter quits, the served
\* ones enter.
LEMMA DrainServes ==
  ASSUME IInv, IInv',
         NEW waiting \in SUBSET Queued,
         NEW seen \in [Runs -> Ticket],
         Seen(waiting, seen),
         DrainQueue(waiting, seen),
         UNCHANGED limit
  PROVE  Pool!Next
<1>1. PICK n \in 0 .. Len(queue) :
        /\ Takes(n, waiting)
        /\ ticket' = [r \in Runs |-> IF r \in First(n, waiting) THEN "granted" ELSE seen[r]]
  BY DEF DrainQueue
<1> DEFINE enter == First(n, waiting)
           quit == Queued \ waiting
<1>2. enter \subseteq waiting /\ waiting \subseteq Runs /\ quit \subseteq Runs
  BY DEF First, Queued
<1>3. quit \cap enter = {} /\ quit \in SUBSET Runs /\ enter \in SUBSET Runs
  BY <1>2
<1>4. \A c \in quit \cup enter : Place[c] \in {"out", "waiting"}
  BY <1>2 DEF Place, Queued
<1>5. Pool!Using = held
  BY DEF Pool!Using, Place, IInv, TypeOK, Ticket, Accounting
<1>6. enter # {} => limit = 0 \/ Cardinality(Pool!Using) + Cardinality(enter) <= limit
  BY <1>1, <1>5, WithinLimit DEF IInv, Accounting
<1>7. Place' = [c \in Runs |-> IF c \in enter THEN "using"
                               ELSE IF c \in quit THEN "left" ELSE Place[c]]
  <2>1. \A c \in Runs : ticket'[c] = IF c \in enter THEN "granted"
                                      ELSE IF c \in quit THEN "denied" ELSE ticket[c]
    BY <1>1, <1>3 DEF Seen
  <2> HIDE DEF enter, quit
  <2> QED
    BY <2>1 DEF Place
<1>8. Pool!Serve(quit, enter)
  <2> HIDE DEF enter, quit
  <2> QED
    BY <1>3, <1>4, <1>6, <1>7, SameCount, Zenon DEF Pool!Serve
<1> QED
  BY <1>3, <1>8 DEF Pool!Next

\* Grants stay within the limit in force, for any runs and limits.
THEOREM PoolImplementsSemaphore == Spec => KeepsBound
<1>1. Init => Pool!Init
  BY PoolAssumption DEF Init, Pool!Init, Place
<1>2. IInv /\ IInv' /\ [Next]_vars => [Pool!Next]_(Pool!vars)
  <2> SUFFICES ASSUME IInv, IInv', [Next]_vars
               PROVE  Pool!Next \/ UNCHANGED <<Place, limit>>
    BY DEF Pool!vars
  <2> USE DEF IInv, TypeOK, Ticket
  <2>1. ASSUME NEW r \in Runs, AcquireAborted(r) PROVE Pool!Serve({r}, {})
    BY <2>1 DEF AcquireAborted, Pool!Serve, Place, Paired
  <2>2. ASSUME NEW r \in Runs, AcquireFree(r) PROVE UNCHANGED <<Place, limit>>
    BY <2>2 DEF AcquireFree, Place, Paired
  <2>3. ASSUME NEW r \in Runs, AcquireNow(r) PROVE Pool!Serve({}, {r})
    <3>1. Pool!Using = held /\ Cardinality({r}) = 1
      BY FS_Singleton DEF Pool!Using, Place, Accounting
    <3>2. limit = 0 \/ Cardinality(Pool!Using) + Cardinality({r}) <= limit
      BY <2>3, <3>1 DEF AcquireNow, Room, Accounting
    <3>3. Place[r] = "out" /\ UNCHANGED limit
      BY <2>3 DEF AcquireNow, Place, Paired
    <3>4. Place' = [c \in Runs |-> IF c \in {r} THEN "using"
                                   ELSE IF c \in {} THEN "left" ELSE Place[c]]
      BY <2>3 DEF AcquireNow, Place
    <3> QED
      BY <3>2, <3>3, <3>4, SameCount DEF Pool!Serve
  <2>4. ASSUME NEW r \in Runs, AcquireQueued(r) PROVE Pool!Ask(r)
    BY <2>4 DEF AcquireQueued, Pool!Ask, Place, Paired
  <2>5. ASSUME NEW r \in Runs, Expire(r) PROVE Pool!Next
    BY <2>5, EndWaiter, DrainServes DEF Expire
  <2>6. ASSUME NEW r \in Runs, Abort(r) PROVE Pool!Next \/ UNCHANGED <<Place, limit>>
    <3>1. CASE ticket[r] = "queued"
      BY <2>6, <3>1, EndWaiter, DrainServes DEF Abort
    <3>2. CASE ticket[r] # "queued"
      BY <2>6, <3>2 DEF Abort, Place
    <3> QED
      BY <3>1, <3>2
  <2>7. ASSUME NEW r \in Runs, Receive(r) \/ GiveUp(r) PROVE UNCHANGED <<Place, limit>>
    BY <2>7 DEF Receive, GiveUp, Place
  <2>8. ASSUME NEW r \in Runs, Release(r) PROVE Pool!Next \/ UNCHANGED <<Place, limit>>
    <3>1. UNCHANGED limit
      BY <2>8 DEF Release
    <3>2. CASE ticket[r] = "granted"
      BY <2>8, <3>1, <3>2 DEF Release, Place, Pool!Next, Pool!Free
    <3>3. CASE ticket[r] = "free"
      <4>1. Place' = [Place EXCEPT ![r] = "left"] /\ Place[r] = "out"
        BY <2>8, <3>3 DEF Release, Place
      <4>2. Pool!Serve({r}, {})
        BY <3>1, <4>1 DEF Pool!Serve, Place
      <4> QED
        BY <4>2 DEF Pool!Next
    <3> QED
      BY <2>8, <3>2, <3>3 DEF Release, Paired
  <2>9. ASSUME NEW n \in Limits, SetLimit(n) PROVE Pool!Resize
    BY <2>9, PoolAssumption DEF SetLimit, Pool!Resize, Place
  <2>10. CASE Drain
    <3>1. DrainQueue(Queued, ticket) /\ UNCHANGED limit
      BY <2>10 DEF Drain
    <3>2. Seen(Queued, ticket)
      BY DEF Seen
    <3> QED
      BY <3>1, <3>2, DrainServes
  <2>11. CASE UNCHANGED vars
    BY <2>11 DEF vars, Place
  <2> QED
    BY <2>1, <2>2, <2>3, <2>4, <2>5, <2>6, <2>7, <2>8, <2>9, <2>10, <2>11 DEF Next, Pool!Next
<1> QED
  BY <1>1, <1>2, PoolSound, PTL DEF Spec, KeepsBound, Pool!Spec
===============================================================================
