-------------------------------- MODULE Delivery --------------------------------
(***************************************************************************)
(* The delivery of terminal notices: the notifier, its outbox in the       *)
(* session log and the buffer in front of the session                      *)
(* (src/delivery/notifier.ts, src/delivery/coalescer.ts,                   *)
(* src/adapters/pi-outbox-store.ts and their wiring in src/stack.ts).      *)
(*                                                                         *)
(* The code is synchronous between two events, but it writes to the log    *)
(* and hands notices to the session in between, and the process can die    *)
(* after each of these.  "todo" is what is left of the call that runs: its *)
(* head is the next part, each part has at most one effect that outlives   *)
(* the process, and only a crash can come between two parts.               *)
(***************************************************************************)
EXTENDS Naturals, Sequences, FiniteSets, SequencesExt

CONSTANTS
  Keys,         \* the notices; a key is a run and its generation
  Setups        \* the configurations, and which of the runs have a schema

Setup ==
  [held : SUBSET Keys,                          \* the runs with a schema
   buffering : {"batch", "single", "none"},     \* coalescer, ack hold or neither
   maxBuffer : Nat \ {0},                       \* coalesceMaxBatch
   maxAttempts : Nat \ {0},                     \* deliveryAttempts
   maxRounds : Nat,                             \* maxReconcileRounds
   maxReconcile : Nat \ {0},                    \* maxReconcileBatch
   maxRestarts : Nat,      \* a bound of the model: how often the process restarts
   storeFails : BOOLEAN]   \* the log may refuse a write

ASSUME DeliveryAssumption ==
  /\ IsFiniteSet(Keys)
  /\ Setups \subseteq Setup

VARIABLES
  setup,    \* one of Setups; it does not change
  mem,      \* the notifier's map
  disk,     \* the latest record of each key in the session log
  buffer,   \* the keys in the coalescer
  window,   \* the coalescer's timer is armed
  timers,   \* the backoff timers: the key, the record they hold and the round
  todo,     \* what is left of the call that runs
  calls,    \* how far the run of each key is with its calls; it is "lost" when
            \* the process restarted before the policy was done
  old,      \* the keys whose notice has outlived its time to live
  restarts, \* restarts so far
  sent,     \* history: how often the session has been given each notice
  acked,    \* history: ack() has returned true
  excused   \* history: the session has the notice and the log does not know

vars == <<setup, mem, disk, buffer, window, timers, todo, calls, old, restarts, sent,
          acked, excused>>

State == {"staged", "pending", "batched", "delivered", "consumed", "dropped", "abandoned"}
Undelivered == {"staged", "pending", "batched", "dropped"}

\* What isCoalescible and the presentation tell apart; "degraded" has a
\* degradedReason.
Kind == {"completed", "failed", "degraded"}
Record == [state : State, attempts : Nat, round : Nat, kind : Kind]
NoRecord == [state |-> "none", attempts |-> 0, round |-> 0, kind |-> "none"]

Timer == [key : Keys, rec : Record, round : Nat]

TypeOK ==
  /\ setup \in Setups
  /\ mem \in [Keys -> Record \cup {NoRecord}]
  /\ disk \in [Keys -> Record \cup {NoRecord}]
  /\ buffer \subseteq Keys
  /\ window \in BOOLEAN
  /\ timers \subseteq Timer
  /\ calls \in [Keys -> {"none", "held", "out", "lost", "over"}]
  /\ old \subseteq Keys
  /\ restarts \in 0 .. setup.maxRestarts
  /\ sent \in [Keys -> Nat]
  /\ acked \subseteq Keys
  /\ excused \subseteq Keys

Init ==
  /\ setup \in Setups
  /\ mem = [k \in Keys |-> NoRecord]
  /\ disk = [k \in Keys |-> NoRecord]
  /\ buffer = {}
  /\ window = FALSE
  /\ timers = {}
  /\ todo = <<>>
  /\ calls = [k \in Keys |-> "none"]
  /\ old = {}
  /\ restarts = 0
  /\ sent = [k \in Keys |-> 0]
  /\ acked = {}
  /\ excused = {}

-------------------------------------------------------------------------------
(* The store and the records *)

Idle == todo = <<>>

\* state.get(key) ?? load().get(key)
Known(k) == IF mem[k] # NoRecord THEN mem[k] ELSE disk[k]

Remember(k, rec) == mem' = [mem EXCEPT ![k] = rec]

\* put(): a new record lands in the log or is refused.
Put(k, rec) ==
  \/ disk' = [disk EXCEPT ![k] = rec]
  \/ setup.storeFails /\ UNCHANGED disk

\* Faulty variant: the bare patch is appended for a key the store does not know.
UpdateAppending(k, rec) ==
  \/ disk' = [disk EXCEPT ![k] = rec]
  \/ setup.storeFails /\ UNCHANGED disk

\* update(): a key the store does not know is passed over in silence.
Update(k, rec) ==
  \/ disk' = IF disk[k] = NoRecord THEN disk ELSE [disk EXCEPT ![k] = rec]
  \/ setup.storeFails /\ UNCHANGED disk

Attempt(k, rec, round) == [op |-> "attempt", key |-> k, rec |-> rec, round |-> round]
Settle(k, rec, round, ok) ==
  [op |-> "settle", key |-> k, rec |-> rec, round |-> round, ok |-> ok]
Send(items, left) == [op |-> "send", items |-> items, left |-> left]
Reconcile(keys, count) == [op |-> "reconcile", keys |-> keys, count |-> count]
Exit == [op |-> "exit"]

Bufferable(rec, round) ==
  /\ setup.buffering # "none"
  /\ rec.kind = "completed"
  /\ round = 0
  /\ rec.attempts = 0

-------------------------------------------------------------------------------
(* The parts of a call *)

\* attempt() of a record that has been consumed meanwhile.
AttemptConsumed ==
  /\ ~Idle /\ Head(todo).op = "attempt"
  /\ mem[Head(todo).key].state = "consumed"
  /\ todo' = Tail(todo)
  /\ UNCHANGED <<setup, mem, disk, buffer, window, timers, calls, old, restarts, sent,
                 acked, excused>>

\* attempt() of a record that goes to the buffer: it is marked first, and a full
\* buffer is flushed at once.
AttemptBuffered ==
  /\ ~Idle /\ Head(todo).op = "attempt"
  /\ LET k == Head(todo).key
         round == Head(todo).round
         next == [Head(todo).rec EXCEPT !.state = "batched", !.round = round]
         items == buffer \cup {k}
         full == Cardinality(items) >= setup.maxBuffer
     IN /\ mem[k].state # "consumed"
        /\ Bufferable(Head(todo).rec, round)
        /\ IF mem[k].state = "batched"
           THEN UNCHANGED <<mem, disk>>
           ELSE Remember(k, next)
                /\ Update(k, [disk[k] EXCEPT !.state = "batched", !.round = round])
        /\ buffer' = IF full THEN {} ELSE items
        /\ window' = ~full
        /\ todo' = IF full THEN <<Send(items, items)>> \o Tail(todo) ELSE Tail(todo)
  /\ UNCHANGED <<setup, timers, calls, old, restarts, sent, acked, excused>>

\* attempt() of a record that goes to the session at once.  The ack hold only
\* takes those of a run that somebody waits for (expectsAck).
AttemptSent ==
  /\ ~Idle /\ Head(todo).op = "attempt"
  /\ LET k == Head(todo).key
         rec == Head(todo).rec
         round == Head(todo).round
     IN /\ mem[k].state # "consumed"
        /\ setup.buffering = "single" \/ ~Bufferable(rec, round)
        /\ \E ok \in BOOLEAN :
             /\ sent' = IF ok THEN [sent EXCEPT ![k] = @ + 1] ELSE sent
             /\ todo' = <<Settle(k, rec, round, ok)>> \o Tail(todo)
  /\ UNCHANGED <<setup, mem, disk, buffer, window, timers, calls, old, restarts, acked,
                 excused>>

\* settleBatch() for the items of a flush, each from its record in memory.
Settled(items, ok) ==
  LET order == SetToSeq(items)
  IN [i \in 1 .. Len(order) |->
        Settle(order[i], Known(order[i]), Known(order[i]).round, ok)]

\* A flush: one message for the batch, or one per item until one fails.
FlushSend ==
  /\ ~Idle /\ Head(todo).op = "send"
  /\ LET items == Head(todo).items
         left == Head(todo).left
         now(part) == [k \in Keys |-> IF k \in part THEN sent[k] + 1 ELSE sent[k]]
     IN \/ /\ setup.buffering = "batch" \/ Cardinality(left) = 1
           /\ sent' = now(left)
           /\ todo' = Settled(items, TRUE) \o Tail(todo)
           /\ UNCHANGED excused
        \/ /\ setup.buffering = "single" /\ Cardinality(left) > 1
           /\ \E k \in left :
                /\ sent' = now({k})
                /\ todo' = <<Send(items, left \ {k})>> \o Tail(todo)
           /\ UNCHANGED excused
        \/ /\ todo' = Settled(items, FALSE) \o Tail(todo)
           /\ excused' = excused \cup (items \ left)
           /\ UNCHANGED sent
  /\ UNCHANGED <<setup, mem, disk, buffer, window, timers, calls, old, restarts, acked>>

\* settleDelivered()
SettleDelivered ==
  /\ ~Idle /\ Head(todo).op = "settle" /\ Head(todo).ok
  /\ LET k == Head(todo).key
         next == [Head(todo).rec EXCEPT !.state = "delivered", !.attempts = @ + 1,
                                        !.round = Head(todo).round]
     IN /\ Remember(k, next)
        /\ Update(k, [disk[k] EXCEPT !.state = "delivered", !.attempts = next.attempts,
                                     !.round = next.round])
        /\ excused' = IF disk'[k].state = "delivered" THEN excused ELSE excused \cup {k}
  /\ todo' = Tail(todo)
  /\ UNCHANGED <<setup, buffer, window, timers, calls, old, restarts, sent, acked>>

\* Faulty variant: a retry is promised and no timer set.
SettleFailedQuietly ==
  /\ ~Idle /\ Head(todo).op = "settle" /\ ~Head(todo).ok
  /\ LET k == Head(todo).key
         attempts == Head(todo).rec.attempts + 1
         state == IF attempts >= setup.maxAttempts THEN "dropped" ELSE "pending"
     IN /\ Remember(k, [Head(todo).rec EXCEPT !.state = state, !.attempts = attempts])
        /\ Update(k, [disk[k] EXCEPT !.state = state, !.attempts = attempts])
  /\ todo' = Tail(todo)
  /\ UNCHANGED <<setup, buffer, window, timers, calls, old, restarts, sent, acked, excused>>

\* Faulty variant: the failed attempt is not counted.
SettleFailedUncounted ==
  /\ ~Idle /\ Head(todo).op = "settle" /\ ~Head(todo).ok
  /\ LET k == Head(todo).key
         round == Head(todo).round
         next == [Head(todo).rec EXCEPT !.state = "pending", !.round = round]
     IN /\ Remember(k, next)
        /\ Update(k, [disk[k] EXCEPT !.state = "pending", !.round = round])
        /\ timers' = timers \cup {[key |-> k, rec |-> next, round |-> round]}
  /\ todo' = Tail(todo)
  /\ UNCHANGED <<setup, buffer, window, calls, old, restarts, sent, acked, excused>>

\* settleFailed(): back to pending with a timer, or dropped.
SettleFailed ==
  /\ ~Idle /\ Head(todo).op = "settle" /\ ~Head(todo).ok
  /\ LET k == Head(todo).key
         attempts == Head(todo).rec.attempts + 1
         state == IF attempts >= setup.maxAttempts THEN "dropped" ELSE "pending"
         round == Head(todo).round
         next == [Head(todo).rec EXCEPT !.state = state, !.attempts = attempts,
                                        !.round = round]
     IN /\ Remember(k, next)
        /\ Update(k, [disk[k] EXCEPT !.state = state, !.attempts = attempts, !.round = round])
        /\ timers' = IF state = "pending"
                     THEN timers \cup {[key |-> k, rec |-> next, round |-> round]}
                     ELSE timers
  /\ todo' = Tail(todo)
  /\ UNCHANGED <<setup, buffer, window, calls, old, restarts, sent, acked, excused>>

-------------------------------------------------------------------------------
(* The run's calls *)

\* enqueue() of a run that has ended: staged if it is to be finalized, else sent
\* at once.  A run with a schema is not held when it failed before it started.
EnqueueNew(k, kind, hold) ==
  /\ Idle
  /\ calls[k] = "none"
  /\ Known(k) = NoRecord
  /\ hold => k \in setup.held
  /\ k \in setup.held /\ ~hold => kind = "failed"
  /\ LET rec == [state |-> IF hold THEN "staged" ELSE "pending",
                 attempts |-> 0, round |-> 0, kind |-> kind]
     IN /\ Remember(k, rec)
        /\ Put(k, rec)
        /\ todo' = IF hold THEN <<>> ELSE <<Attempt(k, rec, 0)>>
  /\ calls' = [calls EXCEPT ![k] = IF hold THEN "held" ELSE "out"]
  /\ UNCHANGED <<setup, buffer, window, timers, old, restarts, sent, acked, excused>>

\* finalize() at the one exit of a run with a schema; "degraded" if the policy
\* threw.  A record that is no longer staged only has its payload changed.
Finalize(k, kind) ==
  /\ Idle
  /\ calls[k] = "held"
  /\ LET late == Known(k).state # "staged"
         patched(rec) == IF late THEN [rec EXCEPT !.kind = kind]
                         ELSE [rec EXCEPT !.kind = kind, !.state = "pending"]
         next == patched(Known(k))
     IN /\ Remember(k, next)
        /\ Update(k, patched(disk[k]))
        /\ todo' = IF late THEN <<>> ELSE <<Attempt(k, next, next.round)>>
  /\ calls' = [calls EXCEPT ![k] = "out"]
  /\ UNCHANGED <<setup, buffer, window, timers, old, restarts, sent, acked, excused>>

\* notifyTerminalFailure() of a run whose start was rejected: it adds a notice,
\* or revives one that was dropped.  Finalize has run by then.
NotifyFailure(k) ==
  /\ Idle
  /\ calls[k] \in {"none", "out"}
  /\ calls' = [calls EXCEPT ![k] = "over"]
  /\ LET rec == [state |-> "pending", attempts |-> 0, round |-> 0, kind |-> "failed"]
     IN \/ /\ Known(k).state \in {"pending", "batched", "delivered", "consumed"}
           /\ UNCHANGED <<mem, disk, todo>>
        \/ /\ Known(k) = NoRecord
           /\ Remember(k, rec)
           /\ Put(k, rec)
           /\ todo' = <<Attempt(k, rec, 0)>>
        \/ /\ Known(k).state \in {"dropped", "abandoned"}
           /\ Remember(k, rec)
           /\ Update(k, [rec EXCEPT !.kind = IF disk[k].kind = "degraded"
                                             THEN "degraded" ELSE "failed"])
           /\ todo' = <<Attempt(k, rec, 0)>>
  /\ UNCHANGED <<setup, buffer, window, timers, old, restarts, sent, acked, excused>>

\* Faulty variant: the notice stays in the buffer.
AckUncancelled(k) ==
  /\ Idle
  /\ Known(k).state \in {"staged", "pending", "batched", "delivered"}
  /\ disk' = IF disk[k] = NoRecord THEN disk ELSE [disk EXCEPT ![k].state = "consumed"]
  /\ Remember(k, [Known(k) EXCEPT !.state = "consumed"])
  /\ acked' = acked \cup {k}
  /\ UNCHANGED <<setup, buffer, window, timers, todo, calls, old, restarts, sent, excused>>

\* ack() that returns true: the caller has the result by another way.  One that
\* cannot write the log changes nothing.
Ack(k) ==
  /\ Idle
  /\ Known(k).state \in {"staged", "pending", "batched", "delivered"}
  /\ disk' = IF disk[k] = NoRecord THEN disk ELSE [disk EXCEPT ![k].state = "consumed"]
  /\ Remember(k, [Known(k) EXCEPT !.state = "consumed"])
  /\ buffer' = buffer \ {k}
  /\ acked' = acked \cup {k}
  /\ UNCHANGED <<setup, window, timers, todo, calls, old, restarts, sent, excused>>

-------------------------------------------------------------------------------
(* Timers *)

\* A backoff timer fires.
Retry(t) ==
  /\ Idle
  /\ t \in timers
  /\ timers' = timers \ {t}
  /\ todo' = <<Attempt(t.key, t.rec, t.round)>>
  /\ UNCHANGED <<setup, mem, disk, buffer, window, calls, old, restarts, sent, acked, excused>>

\* Faulty variant: the buffer is not cleared by the flush.
CloseWindowKeeping ==
  /\ Idle
  /\ window
  /\ window' = FALSE
  /\ todo' = IF buffer = {} THEN <<>> ELSE <<Send(buffer, buffer)>>
  /\ UNCHANGED <<setup, mem, disk, buffer, timers, calls, old, restarts, sent, acked, excused>>

\* The coalescer's timer fires.
CloseWindow ==
  /\ Idle
  /\ window
  /\ window' = FALSE
  /\ buffer' = {}
  /\ todo' = IF buffer = {} THEN <<>> ELSE <<Send(buffer, buffer)>>
  /\ UNCHANGED <<setup, mem, disk, timers, calls, old, restarts, sent, acked, excused>>

-------------------------------------------------------------------------------
(* Restarts *)

\* A new notifier over the log as it is; some notices have outlived their time.
Restart ==
  /\ restarts < setup.maxRestarts
  /\ restarts' = restarts + 1
  /\ mem' = [k \in Keys |-> NoRecord]
  /\ buffer' = {}
  /\ window' = FALSE
  /\ timers' = {}
  /\ todo' = <<Reconcile({k \in Keys : disk[k].state \in Undelivered}, 0)>>
  /\ calls' = [k \in Keys |-> CASE calls[k] = "none" -> "none"
                             [] calls[k] \in {"held", "lost"} -> "lost"
                             [] OTHER -> "over"]
  /\ \E k \in SUBSET {q \in Keys : disk[q] # NoRecord} : old' = old \cup k
  /\ UNCHANGED <<setup, disk, sent, acked>>

\* The process dies; what it had sent and not yet noted is not known to the log.
Crash ==
  /\ Restart
  /\ LET Unnoted(p) == IF p.op = "settle" /\ p.ok THEN {p.key}
                       ELSE IF p.op = "send" THEN p.items \ p.left ELSE {}
     IN excused' = excused \cup UNION {Unnoted(todo[i]) : i \in 1 .. Len(todo)}

\* The session is rebuilt: the old buffer is disposed of, which flushes it, and
\* then a new notifier starts.  The old session handle has lapsed or lapses, so
\* that the timers of the old notifier find nobody to send to.
Rebuild ==
  /\ Idle
  /\ restarts < setup.maxRestarts
  /\ buffer' = {}
  /\ window' = FALSE
  /\ todo' = IF buffer = {} THEN <<Exit>> ELSE <<Send(buffer, buffer), Exit>>
  /\ UNCHANGED <<setup, mem, disk, timers, calls, old, restarts, sent, acked, excused>>

RebuildDone ==
  /\ ~Idle /\ Head(todo).op = "exit"
  /\ Restart
  /\ UNCHANGED excused

-------------------------------------------------------------------------------
(* reconcile(), one notice at a time *)

ReconcileDone ==
  /\ ~Idle /\ Head(todo).op = "reconcile"
  /\ Head(todo).keys = {}
  /\ todo' = Tail(todo)
  /\ UNCHANGED <<setup, mem, disk, buffer, window, timers, calls, old, restarts, sent,
                 acked, excused>>

Rest(k, n) == Reconcile(Head(todo).keys \ {k}, Head(todo).count + n)

GivenUp(k) == k \in old \/ disk[k].round >= setup.maxRounds

ReconcileAbandon(k) ==
  /\ ~Idle /\ Head(todo).op = "reconcile"
  /\ k \in Head(todo).keys
  /\ GivenUp(k)
  /\ Remember(k, [disk[k] EXCEPT !.state = "abandoned"])
  /\ Update(k, [disk[k] EXCEPT !.state = "abandoned"])
  /\ todo' = <<Rest(k, 0)>>
  /\ UNCHANGED <<setup, buffer, window, timers, calls, old, restarts, sent, acked, excused>>

\* The batch is full: the notice is left for a later start.
ReconcileFull(k) ==
  /\ ~Idle /\ Head(todo).op = "reconcile"
  /\ k \in Head(todo).keys
  /\ ~GivenUp(k)
  /\ Head(todo).count >= setup.maxReconcile
  /\ todo' = <<Rest(k, 0)>>
  /\ UNCHANGED <<setup, mem, disk, buffer, window, timers, calls, old, restarts, sent,
                 acked, excused>>

\* Faulty variant: it goes out as if it were complete.
ReconcileStagedPlain(k) ==
  /\ ~Idle /\ Head(todo).op = "reconcile"
  /\ k \in Head(todo).keys
  /\ ~GivenUp(k)
  /\ Head(todo).count < setup.maxReconcile
  /\ disk[k].state = "staged"
  /\ LET next == [disk[k] EXCEPT !.state = "pending", !.round = @ + 1]
     IN /\ Remember(k, next)
        /\ Update(k, next)
        /\ todo' = <<Attempt(k, next, next.round), Rest(k, 1)>>
  /\ UNCHANGED <<setup, buffer, window, timers, calls, old, restarts, sent, acked, excused>>

\* releaseStale(): a notice whose policy never finished goes out marked.
ReconcileStaged(k) ==
  /\ ~Idle /\ Head(todo).op = "reconcile"
  /\ k \in Head(todo).keys
  /\ ~GivenUp(k)
  /\ Head(todo).count < setup.maxReconcile
  /\ disk[k].state = "staged"
  /\ LET next == [disk[k] EXCEPT !.state = "pending", !.kind = "degraded", !.round = @ + 1]
     IN /\ Remember(k, next)
        /\ Update(k, next)
        /\ todo' = <<Attempt(k, next, next.round), Rest(k, 1)>>
  /\ UNCHANGED <<setup, buffer, window, timers, calls, old, restarts, sent, acked, excused>>

ReconcileAgain(k) ==
  /\ ~Idle /\ Head(todo).op = "reconcile"
  /\ k \in Head(todo).keys
  /\ ~GivenUp(k)
  /\ Head(todo).count < setup.maxReconcile
  /\ disk[k].state # "staged"
  /\ LET next == [disk[k] EXCEPT !.state = "pending"]
     IN /\ Remember(k, next)
        /\ todo' = <<Attempt(k, next, next.round + 1), Rest(k, 1)>>
  /\ UNCHANGED <<setup, disk, buffer, window, timers, calls, old, restarts, sent, acked, excused>>

-------------------------------------------------------------------------------
\* The parts of a call, which run once it has begun.
Part ==
  \/ AttemptConsumed \/ AttemptBuffered \/ AttemptSent
  \/ FlushSend \/ SettleDelivered \/ SettleFailed
  \/ RebuildDone \/ ReconcileDone
  \/ \E k \in Keys : \/ ReconcileAbandon(k) \/ ReconcileFull(k)
                     \/ ReconcileStaged(k) \/ ReconcileAgain(k)

Next ==
  \/ Part
  \/ \E k \in Keys :
       \/ \E kind \in {"completed", "failed"}, hold \in BOOLEAN : EnqueueNew(k, kind, hold)
       \/ \E kind \in Kind : Finalize(k, kind)
       \/ NotifyFailure(k) \/ Ack(k)
  \/ \E t \in timers : Retry(t)
  \/ CloseWindow \/ Rebuild \/ Crash

\* Calls run to their end and timers fire.  The run makes its calls, acks,
\* rebuilds and crashes when it likes.
Fairness ==
  /\ WF_vars(Part)
  /\ WF_vars(\E t \in timers : Retry(t))
  /\ WF_vars(CloseWindow)

Spec == Init /\ [][Next]_vars /\ Fairness

-------------------------------------------------------------------------------
(* Properties *)

\* Between two events no notice is stuck: one that waits to be sent again has
\* exactly one timer, one that is batched is in a buffer whose window closes, and
\* one that is staged belongs to a run that still has to finalize it
\* (src/delivery/notifier.ts 152-194, src/delivery/coalescer.ts 32-69).
NoneIsStuck ==
  Idle => \A k \in Keys :
    /\ mem[k].state = "pending" => Cardinality({t \in timers : t.key = k}) = 1
    /\ mem[k].state = "batched" <=> k \in buffer
    /\ k \in buffer => window
    /\ mem[k].state = "staged" => calls[k] = "held"

\* A notice reaches the session twice only for a known reason: the session had it
\* and the process died or the log refused before that was noted, or an item of
\* the ack hold failed after it.  Retries, reconciliation, acks and the notice of
\* a rejected start never repeat one (docs/dev/delivery-v2/architecture.md 5,
\* notifier.ts 136-240).
NoNeedlessRepeat == \A k \in Keys : sent[k] <= 1 \/ k \in excused

\* What went out for a run whose policy never finished.
SentUnmarked ==
  \E k \in Keys :
    sent'[k] # sent[k] /\ calls[k] \in {"held", "lost"} /\ mem[k].kind # "degraded"

\* A notice whose policy never finished goes out marked as degraded, after any
\* number of restarts; where the log may refuse the mark itself, until the next
\* restart but one (notifier.ts 195-217).
UnfinishedIsMarked == [][(setup.storeFails => restarts <= 1) => ~SentUnmarked]_vars

\* docs/dev/delivery-v2/architecture.md:114 and :230 forbid it at any time: the
\* payload of a policy that never finished is not sent with the words of a completed run.
NeverUnmarked == [][~SentUnmarked]_vars

\* Once a notice is pending or batched, it is sent, acknowledged or dropped,
\* unless the process restarts first (notifier.ts 152-194).
AttemptsEnd ==
  \A k \in Keys : mem[k].state \in {"pending", "batched"}
                    ~> mem[k].state \notin {"pending", "batched"}

\* The notifier keeps the contract: what the log owes is told, acknowledged or
\* given up and never forgotten, and nothing settled is told again.
Place == [k \in Keys |->
  CASE k \in acked -> "acked"
    [] k \notin acked /\ disk[k].state \in Undelivered -> "owed"
    [] k \notin acked /\ disk[k].state = "delivered" -> "told"
    [] k \notin acked /\ disk[k].state = "abandoned" -> "lapsed"
    [] OTHER -> "none"]

Contract == INSTANCE NoticeContract WITH Notices <- Keys, place <- Place, told <- sent
KeepsPromise == Contract!Spec
===============================================================================
