-------------------------------- MODULE Dispatch --------------------------------
(***************************************************************************)
(* The dispatcher of scheduled messages and handoffs in one process        *)
(* (src/schedule/agent/dispatch.ts, and the guards of message.ts): a queue *)
(* of wakes, one flight at a time, and pi, which starts, merges, aborts    *)
(* and settles runs when it likes.                                         *)
(*                                                                         *)
(* An epoch is one stack of the session; a reload disposes it and attaches *)
(* the next.  The occupancy slot and the record of the scheduled run are   *)
(* globals of the process and outlive an epoch, as does pi itself.  A      *)
(* handler runs to its end without waiting, so it is an operator from one  *)
(* state of the dispatcher to the next; the parameter lost says that its   *)
(* abort does not reach pi.  Progress marks of the ledger (bound,          *)
(* aborting) are left out, and so is the cap of revokedAt, which forgets   *)
(* the pause of a task after those of 64 others.                           *)
(***************************************************************************)
EXTENDS Integers, Sequences, FiniteSets, SequencesExt

CONSTANTS
  Keys,      \* the runs: every key is sent at most once and stands for its token, too
  Setups,    \* what the keys may stand for, see Setup
  Epochs,    \* bounds of the model: how many epochs there are,
  MaxCalls   \* and how many model calls of one run are counted

\* The keys of one kind are of one task, of that name.  A once task is disabled by its claim.
Setup ==
  [kind : [Keys -> {"message", "handoff"}], once : SUBSET {"message", "handoff"}, epochs : 1 .. Epochs]

ASSUME DispatchAssumption ==
  /\ Epochs \in Nat \ {0} /\ MaxCalls \in Nat
  /\ Setups \subseteq Setup
  /\ Keys \cap {"none", "human"} = {}

VARIABLES
  setup,     \* what the keys stand for; it does not change
  epoch,     \* the latest epoch
  disposed,  \* the epochs whose stack is disposed
  paused,    \* the tasks that are paused in state.json
  runs,      \* of each run: the epoch that has claimed it, 0 before; of a message, its
             \* state in state.json
  fenced,    \* a window of the fence is open, in which the session may become another one
  pump,      \* the entry whose intent each epoch's pump waits for
  d,         \* what the handlers work on, see State
  history    \* calls: the model calls of the run that each message started; given: the runs
             \* one of whose writes was given up; latest: the message claimed last; swept:
             \* the runs that waited in the queue when their task was paused

vars == <<setup, epoch, disposed, paused, runs, fenced, pump, d, history>>

Kind(k) == setup.kind[k]
Task(kind) == {k \in Keys : Kind(k) = kind}

NoFlight == [k |-> "none", phase |-> "none", foreign |-> FALSE, recorded |-> FALSE, stuck |-> FALSE,
             called |-> FALSE, merged |-> FALSE, handed |-> FALSE, saw |-> FALSE,
             startDue |-> FALSE, maxDue |-> FALSE, cause |-> "none", moved |-> FALSE]
Flight == [k : Keys, phase : {"dispatched", "authorized", "bound", "aborting"}, foreign : BOOLEAN,
           recorded : BOOLEAN, stuck : BOOLEAN, called : BOOLEAN, merged : BOOLEAN, handed : BOOLEAN,
           saw : BOOLEAN, startDue : BOOLEAN, maxDue : BOOLEAN,
           cause : {"none", "start", "max", "fenced"}, moved : BOOLEAN]

NoRecord == [k |-> "none", epoch |-> 0, voided |-> FALSE, handed |-> FALSE, expired |-> FALSE]
NoSlot == [epoch |-> 0, k |-> "none"]
NoHost == [by |-> "none", entered |-> FALSE, aborted |-> FALSE]
NoPump == [k |-> "none", dead |-> FALSE, revoked |-> FALSE]

Outcome == {"dropped", "unknown", "settled", "continued"}
Ops == {"cas", "drop", "queued", "doubt"} \cup Outcome

State ==
  [shut : BOOLEAN,           \* the scheduler of the latest epoch is shut down
   queue : Seq(Keys),
   flight : Flight \cup {NoFlight},
   slot : [epoch : 0 .. Epochs, k : Keys \cup {"none"}],
   \* createProcessRunRegistry: the scheduled run that pi executes; an orphan's epoch is 0.
   record : [k : Keys \cup {"none"}, epoch : 0 .. Epochs, voided : BOOLEAN, handed : BOOLEAN, expired : BOOLEAN],
   \* pi: who started the run that is on, whether its message has entered, and an abort.
   host : [by : Keys \cup {"none", "human"}, entered : BOOLEAN, aborted : BOOLEAN],
   inbox : SUBSET Keys,      \* triggers sent, and not started or merged yet
   told : SUBSET {"message", "handoff"}, \* the tasks that revokedAt has a reading of
   revoked : SUBSET Keys,    \* the runs claimed at or before the reading of their task
   arrived : SUBSET Keys,    \* the handoffs given to the scheduler
   ended : SUBSET Keys,      \* the handoffs ended from the queue
   writes : [1 .. Epochs -> Seq([k : Keys, op : Ops])], \* ledger writes, strictly in order
   heard : [Keys -> Nat],    \* how often the owner of each handoff was told its end
   said : [Keys -> Outcome \cup {"none"}]] \* history: what was first decided of each run

TypeOK ==
  /\ setup \in Setups
  /\ epoch \in 1 .. Epochs
  /\ disposed \subseteq 1 .. Epochs
  /\ paused \subseteq {"message", "handoff"}
  /\ runs \in [owner : [Keys -> 0 .. Epochs],
               state : [Keys -> {"none", "queued", "dispatched"} \cup Outcome]]
  /\ fenced \in BOOLEAN
  /\ pump \in [1 .. Epochs -> [k : Keys \cup {"none"}, dead : BOOLEAN, revoked : BOOLEAN]]
  /\ d \in State
  /\ history \in [calls : [Keys -> 0 .. MaxCalls], given : SUBSET Keys,
                  latest : Keys \cup {"none"}, swept : SUBSET Keys]

Init ==
  /\ setup \in Setups
  /\ epoch = 1
  /\ disposed = {}
  /\ paused = {}
  /\ runs = [owner |-> [k \in Keys |-> 0], state |-> [k \in Keys |-> "none"]]
  /\ fenced = FALSE
  /\ pump = [e \in 1 .. Epochs |-> NoPump]
  /\ d = [shut |-> FALSE, queue |-> <<>>, flight |-> NoFlight, slot |-> NoSlot, record |-> NoRecord,
          host |-> NoHost, inbox |-> {}, told |-> {}, revoked |-> {}, arrived |-> {}, ended |-> {},
          writes |-> [e \in 1 .. Epochs |-> <<>>],
          heard |-> [k \in Keys |-> 0], said |-> [k \in Keys |-> "none"]]
  /\ history = [calls |-> [k \in Keys |-> 0], given |-> {}, latest |-> "none", swept |-> {}]

-------------------------------------------------------------------------------
(* Outcomes *)

Say(s, k, o) == [s EXCEPT !.said[k] = IF @ = "none" THEN o ELSE @]

\* commit(): the write is posted; onEnd: the owner of a handoff is told.
Post(s, e, k, op) == [s EXCEPT !.writes[e] = Append(@, [k |-> k, op |-> op])]
Tell(s, k) == [s EXCEPT !.heard[k] = @ + 1]
Conclude(s, e, k, o) ==
  IF Kind(k) = "handoff" THEN Tell(Say(s, k, o), k) ELSE Post(Say(s, k, o), e, k, o)

\* The owners of these handoffs are told that they are dropped.
TellDropped(s, H) ==
  [s EXCEPT !.ended = @ \cup H,
            !.heard = [k \in Keys |-> IF k \in H THEN @[k] + 1 ELSE @[k]],
            !.said = [k \in Keys |-> IF k \in H /\ @[k] = "none" THEN "dropped" ELSE @[k]]]

\* Faulty variant: the handoff may be told twice.
EndHandoffsAgain(s, H) == TellDropped(s, H)

\* endHandoff, of those of H that are not ended yet; revokeEntry.
EndHandoffs(s, H) == TellDropped(s, H \ s.ended)
RevokeEntry(s, e, k) ==
  IF Kind(k) = "handoff" THEN EndHandoffs(s, {k}) ELSE Conclude(s, e, k, "dropped")

\* recordUnknown, recordDropped: of the flight f, which may be closed already.
RecordOf(s, f, o) ==
  IF f.recorded THEN s
  ELSE LET t == Conclude(s, epoch, f.k, o)
       IN  IF t.flight.k = f.k THEN [t EXCEPT !.flight.recorded = TRUE] ELSE t

-------------------------------------------------------------------------------
(* The flight *)

\* The registry holds the record of the flight.
Mine(s) == s.record.k = s.flight.k /\ s.record.epoch = epoch

\* Faulty variant: only the flight is voided, and not the record of the process.
VoidFlightOnly(s) == s

VoidFlight(s) == IF Mine(s) THEN [s EXCEPT !.record.voided = TRUE] ELSE s

Release(s, e, k) ==
  IF s.slot = [epoch |-> e, k |-> k] THEN [s EXCEPT !.slot = NoSlot] ELSE s

\* Faulty variant: the flight is not reset.
CloseFlightKept(s) == Release([VoidFlight(s) EXCEPT !.flight.k = "none"], epoch, s.flight.k)

CloseFlight(s) == Release([VoidFlight(s) EXCEPT !.flight = NoFlight], epoch, s.flight.k)

\* host.abort(): what pi runs is aborted, or else what it prepares.
Abort(s, lost) ==
  IF lost THEN s
  ELSE IF s.host.by = "none" THEN [s EXCEPT !.inbox = {}]
  ELSE [s EXCEPT !.host.aborted = TRUE]

AbortRun(s, cause, lost) ==
  Abort([VoidFlight(s) EXCEPT !.flight.phase = "aborting", !.flight.cause = cause], lost)

\* startTimeout: a human's run may carry the message by now.
StartTimeout(s, lost) ==
  LET t == RecordOf(s, s.flight, "unknown")
  IN  IF s.flight.foreign THEN CloseFlight(t) ELSE AbortRun(t, "start", lost)

\* sessionMovedUnder: since the message was sent (generation() # f.gen), or perhaps now.
Moved(s) == fenced \/ s.flight.moved

\* A flight that is to make its first model call, and one that is watched.
Uncalled(f) == f.k # "none" /\ ~ f.recorded /\ ~ f.called /\ ~ f.merged /\ ~ f.handed
Supervised(f) == f.phase \in {"authorized", "bound"} /\ ~ f.merged /\ ~ f.handed

\* The absolute deadlines, looked at by every handler before its own business.
EnforceDeadlines(s, lost) ==
  LET f == s.flight IN
  CASE f.phase = "dispatched" /\ f.startDue -> StartTimeout(s, lost)
    [] Supervised(f) /\ ~ f.recorded /\ ~ f.called /\ f.startDue -> AbortRun(s, "start", lost)
    [] Supervised(f) /\ ~ f.recorded /\ (f.called \/ ~ f.startDue) /\ f.maxDue -> AbortRun(s, "max", lost)
    [] OTHER -> s

\* finalizeAtSettle and settle().
FinalizeAtSettle(s) ==
  LET f == s.flight
      end == IF f.phase = "bound" \/ f.cause = "max" THEN "settled"
             ELSE IF f.saw THEN "unknown" ELSE "dropped"
  IN  RecordOf(CloseFlight(s), f, end)

\* shutdown(): what is supervised or may still be prepared is stopped; the ledger runs
\* are left to closeEpoch, a handoff has none.
Shutdown(s, lost) ==
  LET f == s.flight
      preparing == f.phase = "dispatched" /\ ~ f.foreign /\ ~ f.recorded
      a == IF Supervised(f) THEN VoidFlight(s) ELSE s
      b == IF f.phase # "none" THEN Release(a, epoch, f.k) ELSE a
      c == IF Supervised(f) \/ preparing THEN Abort(b, lost) ELSE b
      e == IF f.phase # "none" /\ Kind(f.k) = "handoff" THEN RecordOf([c EXCEPT !.flight = NoFlight], f, "unknown") ELSE c
      H == {k \in Keys : Kind(k) = "handoff" /\ Contains(s.queue, k)}
  IN  [EndHandoffs(e, H) EXCEPT !.shut = TRUE, !.flight = NoFlight, !.queue = <<>>]

\* stopped(): a disposed stack shuts its scheduler down when it is next looked at.
Stopped(s, lost) == IF epoch \in disposed /\ ~ s.shut THEN Shutdown(s, lost) ELSE s

\* judgeScheduledContext: may the run that is on not call the model?
Refused(s) ==
  LET r == s.record IN
  /\ r.k # "none"
  /\ r.voided \/ (~ r.handed /\ (r.epoch \in disposed \/ r.expired))

-------------------------------------------------------------------------------
(* The queue *)

\* Faulty variant: the slot is not given back.
LeftHolding(s, e, k) == [s EXCEPT !.queue = RemoveFirst(@, k)]

\* The entry leaves, and with it its hold on the slot.
Left(s, e, k) == [Release(s, e, k) EXCEPT !.queue = RemoveFirst(@, k)]

\* enqueueEntry: the newest entry of a task wins.
EnqueueEntry(s, k) ==
  LET Old == {j \in Task(Kind(k)) : Contains(s.queue, j)}
      t == [s EXCEPT !.queue = Append(RemoveFirstMatch(@, LAMBDA j : j \in Old), k)]
  IN  IF Kind(k) = "handoff" THEN EndHandoffs(t, Old) ELSE t

\* What becomes of the entry that the pump of this epoch has in its hands.
Replaced(kind) ==
  [pump EXCEPT ![epoch].dead = @ \/ (pump[epoch].k # "none" /\ Kind(pump[epoch].k) = kind)]

\* The claim makes the queued run, drops the one that it replaces and hands it to
\* enqueue().  A once task is claimed once.  revokedSince compares the reading of the wall
\* clock at the claim with the one at the pause: a claim that comes after the pause is taken
\* for an earlier one in the same millisecond, or when the clock was set back.
Claim(k) ==
  LET Old == {j \in Task("message") : runs.state[j] = "queued"} IN
  /\ Kind(k) = "message" /\ runs.owner[k] = 0 /\ epoch \notin disposed
  /\ "message" \notin paused
  /\ "message" \in setup.once => \A j \in Task("message") : runs.owner[j] = 0
  /\ runs' = [owner |-> [runs.owner EXCEPT ![k] = epoch],
              state |-> [j \in Keys |-> IF j = k THEN "queued"
                                        ELSE IF j \in Old THEN "dropped" ELSE runs.state[j]]]
  /\ \/ d.shut /\ UNCHANGED <<d, pump>>
     \/ ~ d.shut /\ d' = EnqueueEntry(d, k) /\ pump' = Replaced("message")
     \/ /\ ~ d.shut /\ "message" \in d.told
        /\ d' = Conclude([d EXCEPT !.revoked = @ \cup {k}], epoch, k, "dropped")
        /\ UNCHANGED pump
  /\ history' = [history EXCEPT !.latest = k]
  /\ UNCHANGED <<setup, epoch, disposed, paused, fenced>>

\* A background run of the task is claimed; its report comes later.
ClaimSource(k) ==
  /\ Kind(k) = "handoff" /\ runs.owner[k] = 0 /\ epoch \notin disposed
  /\ "handoff" \notin paused
  /\ "handoff" \in setup.once => \A j \in Task("handoff") : runs.owner[j] = 0
  /\ runs' = [runs EXCEPT !.owner[k] = epoch]
  /\ \/ UNCHANGED d
     \/ "handoff" \in d.told /\ d' = [d EXCEPT !.revoked = @ \cup {k}]
  /\ UNCHANGED <<setup, epoch, disposed, paused, fenced, pump, history>>

\* Faulty variant: only messages are looked up.
RevokedMessage(k) == Kind(k) = "message" /\ k \in d.revoked

\* revokedSince.
RevokedSince(k) == k \in d.revoked

\* enqueueHandoff: the report of the background run is there.
EnqueueHandoff(k) ==
  /\ Kind(k) = "handoff" /\ runs.owner[k] = epoch /\ k \notin d.arrived
  /\ epoch \notin disposed /\ ~ d.shut
  /\ LET s == [d EXCEPT !.arrived = @ \cup {k}] IN
     IF RevokedSince(k) THEN d' = Tell(Say(s, k, "dropped"), k) /\ UNCHANGED pump
     ELSE d' = EnqueueEntry(s, k) /\ pump' = Replaced("handoff")
  /\ UNCHANGED <<setup, epoch, disposed, paused, runs, fenced, history>>

\* revokeTask: what waits in the queue goes, however the clock was set, and the entry whose
\* intent is being written is left to the pump.  The queue has one entry of a task at most.
\* A run that was claimed before the clock was set back may be later than the new reading.
\* That is left out for the runs that are over or sent, of which nobody asks, and so is the
\* reading itself once all runs of the task are claimed.
Revoke(kind) ==
  LET mine == {k \in Task(kind) : runs.owner[k] = epoch}
      waits == {k \in mine : Contains(d.queue, k)}
      casing == {k \in mine : k = pump[epoch].k}
      unreported == {k \in mine \ d.arrived : kind = "handoff"}
      told == IF \E k \in Task(kind) : runs.owner[k] = 0 THEN {kind} ELSE {}
  IN  /\ \E late \in SUBSET (unreported \cup casing) :
           LET s == [d EXCEPT !.told = @ \cup told, !.revoked = (@ \cup mine) \ late] IN
           \/ waits \subseteq casing /\ d' = s
           \/ \E k \in waits \ casing :
                d' = RevokeEntry([s EXCEPT !.queue = RemoveFirst(@, k)], epoch, k)
      /\ pump' = IF casing = {} \/ pump[epoch].dead THEN pump
                 ELSE [pump EXCEPT ![epoch].dead = TRUE, ![epoch].revoked = TRUE]
      /\ history' = [history EXCEPT !.swept = @ \cup waits]

\* setTaskEnabled: the user pauses the task, in this process or in another, whose
\* scheduler this one does not hear of.  dropQueuedRuns is a transaction of its own that
\* may fail; when it does not, it follows the first at once.  Left out while nothing of
\* the task waits: such a pause only delays its next claim, or voids it.  Of a once task,
\* which its claim has disabled, the pause changes nothing that could be seen later.
Pause(kind) ==
  /\ kind \notin paused
  /\ \E k \in Task(kind) : runs.owner[k] # 0 /\ d.said[k] = "none" /\ d.flight.k # k
  /\ paused' = paused \cup ({kind} \ setup.once)
  /\ Revoke(kind) \/ UNCHANGED <<d, pump, history>>
  /\ runs' \in {runs, [runs EXCEPT !.state = [k \in Keys |->
                         IF Kind(k) = kind /\ @[k] = "queued" THEN "dropped" ELSE @[k]]]}
  /\ UNCHANGED <<setup, epoch, disposed, fenced>>

Resume(kind) ==
  /\ kind \in paused
  /\ paused' = paused \ {kind}
  /\ UNCHANGED <<setup, epoch, disposed, runs, fenced, pump, d, history>>

-------------------------------------------------------------------------------
(* The pump *)

\* readiness: pi is idle and prepares nothing, and the session stays where it is.
Ready(s) == s.host.by = "none" /\ s.inbox = {} /\ ~ fenced

\* The pump is at leisure: there is something in the queue, and nothing in flight.
PumpFree ==
  /\ epoch \notin disposed /\ ~ d.shut
  /\ d.flight = NoFlight /\ d.queue # <<>>
  /\ pump[epoch] = NoPump
  /\ \A i \in DOMAIN d.writes[epoch] : d.writes[epoch][i].op # "drop"

\* tryClaim, and the intent is on its way.
PumpClaim ==
  LET k == Head(d.queue) IN
  /\ PumpFree /\ Ready(d)
  /\ d.slot = NoSlot \/ d.slot.epoch = epoch \/ d.slot.epoch \in disposed
  /\ d' = Post([d EXCEPT !.slot = [epoch |-> epoch, k |-> k]], epoch, k, "cas")
  /\ pump' = [pump EXCEPT ![epoch] = [NoPump EXCEPT !.k = k]]
  /\ UNCHANGED <<setup, epoch, disposed, paused, runs, fenced, history>>

\* dropEntry: the trigger is not to be had any more, or the gate of the task is closed.
PumpDrop ==
  LET k == Head(d.queue)
      s == [d EXCEPT !.queue = Tail(@)]
  IN  /\ PumpFree
      /\ d' = IF Kind(k) = "handoff" THEN EndHandoffs(s, {k})
              ELSE Post(s, epoch, k, "drop")
      /\ UNCHANGED <<setup, epoch, disposed, paused, runs, fenced, pump, history>>

\* stillAuthorized: a once task that is as its claim left it is authorized, disabled or not.
Authorized(kind) == kind \notin paused

Gone(k) == Kind(k) = "message" /\ runs.state[k] # "queued"
Changed(k) == RevokedSince(k) \/ ~ Authorized(Kind(k))

NextWrite(e) == Head(d.writes[e])
Written(s, e) == [s EXCEPT !.writes[e] = Tail(@)]

\* casDispatched answers, and the pump goes on with the answer.
Cas(e) ==
  /\ d.writes[e] # <<>> /\ NextWrite(e).op = "cas"
  /\ pump' = [pump EXCEPT ![e] = NoPump]
  /\ UNCHANGED <<setup, epoch, disposed, paused>>

\* Whatever the answer was, a revoked entry is not sent.
OrRevoked(e, k, s) ==
  IF pump[e].revoked THEN RevokeEntry(Left(Written(d, e), e, k), e, k) ELSE s

CasRefuses(e) ==
  LET k == NextWrite(e).k
      s == Left(Written(d, e), e, k)
  IN  /\ Cas(e)
      /\ Gone(k) \/ Changed(k)
      /\ runs' = IF Kind(k) = "message" /\ ~ Gone(k) THEN [runs EXCEPT !.state[k] = "dropped"] ELSE runs
      /\ d' = OrRevoked(e, k, IF Kind(k) = "handoff" THEN EndHandoffs(s, {k}) ELSE s)
      /\ UNCHANGED <<fenced, history>>

\* E_BUSY: nothing is written; or the intent was written, perhaps, and is not answered for.
CasFails(e) ==
  LET k == NextWrite(e).k
      s == Written(d, e)
      intent == IF Changed(k) THEN "dropped" ELSE "dispatched"
  IN  /\ Cas(e)
      /\ \/ d' = OrRevoked(e, k, Release(s, e, k)) /\ UNCHANGED runs
         \/ /\ Kind(k) = "message" /\ ~ Gone(k)
            /\ runs' \in {runs, [runs EXCEPT !.state[k] = intent]}
            /\ d' = OrRevoked(e, k, Post(Left(s, e, k), e, k, "doubt"))
      /\ UNCHANGED <<fenced, history>>

\* Faulty variant: the intent stays in the ledger.
NotReverted(s, e, k) == s

\* setState(queued): the intent is taken back.
Reverted(s, e, k) == IF Kind(k) = "message" THEN Post(s, e, k, "queued") ELSE s

\* sendNow, to a session that is as it was, and to one that moves meanwhile.
Sent(s, k) ==
  [s EXCEPT !.queue = RemoveFirst(@, k), !.inbox = @ \cup {k},
            !.flight = [NoFlight EXCEPT !.k = k, !.phase = "dispatched"]]
SentAway(s, k) ==
  LET t == Sent(s, k) IN RecordOf(CloseFlight(t), t.flight, "unknown")

CasAllows(e) ==
  LET k == NextWrite(e).k
      dead == pump[e].dead \/ e # epoch \/ e \in disposed \/ d.shut
  IN  /\ Cas(e)
      /\ ~ Gone(k) /\ ~ Changed(k)
      /\ runs' = IF Kind(k) = "message" THEN [runs EXCEPT !.state[k] = "dispatched"] ELSE runs
      /\ \/ /\ pump[e].revoked \/ dead
            /\ \E lost \in BOOLEAN :
                 LET s == Written(IF e = epoch THEN Stopped(d, lost) ELSE d, e) IN
                 d' = OrRevoked(e, k, Reverted(Left(s, e, k), e, k))
            /\ UNCHANGED <<fenced, history>>
         \/ /\ ~ pump[e].revoked /\ ~ dead      \* not ready any more, or sendMessage throws
            /\ d' = Reverted(Release(Written(d, e), e, k), e, k)
            /\ UNCHANGED <<fenced, history>>
         \/ /\ ~ pump[e].revoked /\ ~ dead /\ Ready(d)
            /\ \/ d' = Sent(Written(d, e), k) /\ UNCHANGED fenced
               \/ d' = SentAway(Written(d, e), k) /\ fenced' \in BOOLEAN
            /\ UNCHANGED history

\* The other writes: a terminal state is the last one, and a revert reverts our intent only.
Becomes(state, op) ==
  IF op = "drop" THEN IF state = "queued" THEN "dropped" ELSE state
  ELSE IF op = "queued" THEN IF state = "dispatched" THEN "queued" ELSE state
  ELSE IF state \in Outcome THEN state
  ELSE IF op = "doubt" THEN "unknown" ELSE op

Write(e) ==
  /\ d.writes[e] # <<>> /\ NextWrite(e).op # "cas"
  /\ d' = Written(d, e)
  /\ LET w == NextWrite(e) IN
     \/ /\ runs' = [runs EXCEPT !.state[w.k] = Becomes(@, w.op)]
        /\ UNCHANGED history
     \/ /\ history' = [history EXCEPT !.given = @ \cup {w.k}]
        /\ UNCHANGED runs
  /\ UNCHANGED <<setup, epoch, disposed, paused, fenced, pump>>

-------------------------------------------------------------------------------
(* What pi does, and the handlers that hear of it *)

Handles == UNCHANGED <<setup, epoch, disposed, paused, runs, fenced, pump>>
Others == Handles /\ UNCHANGED history

\* markOrphanRun, and the abort of it.
Orphan(s, k, lost) == Abort([s EXCEPT !.record = [NoRecord EXCEPT !.k = k, !.voided = TRUE]], lost)

\* before_agent_start of our trigger: it is proven ours, or its run is void.
OwnStart(k) ==
  /\ d.host = NoHost /\ k \in d.inbox
  /\ \E lost \in BOOLEAN :
       LET t == [d EXCEPT !.inbox = @ \ {k}, !.host = [NoHost EXCEPT !.by = k]]
           s == Stopped(EnforceDeadlines(t, lost), lost)
           proven == s.flight.k = k /\ s.flight.phase = "dispatched"
       IN  d' = IF proven /\ Moved(s)
                THEN Orphan(RecordOf(CloseFlight(s), s.flight, "unknown"), k, lost)
                ELSE IF proven
                THEN [s EXCEPT !.flight.phase = "authorized",
                               !.record = [NoRecord EXCEPT !.k = k, !.epoch = epoch]]
                ELSE Orphan(s, k, lost)
  /\ Others

\* before_agent_start of a human's run: it may carry the message that we have sent.
HumanStart ==
  /\ d.host = NoHost
  /\ d' = [d EXCEPT !.host = [NoHost EXCEPT !.by = "human"], !.record = NoRecord,
                    !.flight.foreign = @ \/ d.flight.phase = "dispatched"]
  /\ Others

\* message_start: the message enters the run that it started,
MessageStart ==
  LET k == d.host.by IN
  /\ k \in Keys /\ ~ d.host.entered /\ ~ d.host.aborted
  /\ d' = [d EXCEPT !.host.entered = TRUE,
                    !.flight.phase = IF d.flight.k = k /\ @ = "authorized" THEN "bound" ELSE @]
  /\ Others

\* or a human's.
MessageMerged(k) ==
  LET ours == d.flight.k = k /\ d.flight.phase = "dispatched" IN
  /\ d.host.by = "human" /\ k \in d.inbox
  /\ d' = [d EXCEPT !.inbox = @ \ {k},
                    !.flight.phase = IF ours THEN "bound" ELSE @,
                    !.flight.merged = @ \/ ours]
  /\ Others

\* A run that the session has moved under is not let to its first model call.
Fenced(s) ==
  LET f == s.flight IN
  Supervised(f) /\ Uncalled(f) /\ Moved(s)

\* context: before every model call of the run that is on.  pi heeds the abort of this handler.
Context ==
  LET k == d.host.by IN
  /\ d.host.by # "none" /\ ~ d.host.aborted
  /\ k \in Keys => d.host.entered /\ history.calls[k] < MaxCalls
  /\ \E lost \in BOOLEAN :
       LET s == EnforceDeadlines(d, lost) IN
       IF Fenced(s) \/ Refused(s)
       THEN /\ d' = IF Fenced(s) THEN AbortRun(RecordOf(s, s.flight, "unknown"), "fenced", FALSE)
                    ELSE Abort(s, FALSE)
            /\ UNCHANGED history
       ELSE /\ d' = [s EXCEPT !.flight.called = @ \/ (Mine(s) /\ s.flight.phase \in {"authorized", "bound"})]
            /\ history' = IF k \in Keys THEN [history EXCEPT !.calls[k] = @ + 1] ELSE history
  /\ Handles

\* message_end of the assistant.
MessageEnd ==
  /\ d.host.by = "human" \/ (d.host.by \in Keys /\ history.calls[d.host.by] > 0)
  /\ d.flight # NoFlight /\ d.flight.phase # "dispatched" /\ ~ d.flight.recorded
  /\ d' = [d EXCEPT !.flight.saw = TRUE]
  /\ Others

\* agent_settled.
Settled ==
  /\ d.host.by # "none"
  /\ LET s == [d EXCEPT !.host = NoHost, !.record = NoRecord] IN
     d' = IF s.flight # NoFlight /\ s.flight.phase # "dispatched" THEN FinalizeAtSettle(s) ELSE s
  /\ Others

\* An aborted run may end without a word.
EndsSilently ==
  /\ d.host.aborted
  /\ d' = [d EXCEPT !.host = NoHost]
  /\ Others

\* input of a human: the run belongs to the human now.
Input ==
  /\ d.host.by \in Keys
  /\ Supervised(d.flight) /\ ~ d.flight.recorded
  /\ LET s == [d EXCEPT !.flight.handed = TRUE, !.record.handed = IF Mine(d) THEN TRUE ELSE @] IN
     d' = RecordOf(s, s.flight, "continued")
  /\ Others

\* The fence: a window opens, or closes again; or the session has become another one.
\* Left out where nobody looks at it: with nothing on its way, and once the model is called.
SessionMoves ==
  /\ \/ fenced /\ fenced' = FALSE /\ UNCHANGED d
     \/ /\ pump[epoch] # NoPump \/ Uncalled(d.flight)
        /\ fenced' = TRUE /\ UNCHANGED d
     \/ /\ Uncalled(d.flight)
        /\ d' = [d EXCEPT !.flight.moved = TRUE] /\ fenced' = FALSE
  /\ UNCHANGED <<setup, epoch, disposed, paused, runs, pump, history>>

-------------------------------------------------------------------------------
(* Time *)

\* The start budget is over, later the budget of the run.
StartIsDue ==
  /\ Uncalled(d.flight) /\ ~ d.flight.startDue
  /\ d' = [d EXCEPT !.flight.startDue = TRUE]
  /\ Others

RunIsDue ==
  /\ Supervised(d.flight) /\ ~ d.flight.maxDue
  /\ d.flight.startDue \/ d.flight.called
  /\ d' = [d EXCEPT !.flight.maxDue = TRUE, !.record.expired = IF Mine(d) THEN TRUE ELSE @]
  /\ Others

\* The timers of the flight: armStart, armMax.
Timer ==
  /\ d.flight.startDue \/ d.flight.maxDue
  /\ \E lost \in BOOLEAN : d' = EnforceDeadlines(Stopped(d, lost), lost)
  /\ d' # d
  /\ Others

\* The aborted run has not settled in time: the slot stays held.
Grace ==
  /\ d.flight.phase = "aborting" /\ ~ d.flight.stuck
  /\ d' = [RecordOf(d, d.flight, "unknown") EXCEPT !.flight.stuck = TRUE]
  /\ Others

\* observeStuck: pi has been seen idle.
ObserveStuck ==
  /\ epoch \notin disposed /\ d.flight.stuck /\ d.host.by = "none"
  /\ d' = CloseFlight([d EXCEPT !.record = NoRecord])
  /\ Others

-------------------------------------------------------------------------------
(* The stack *)

Dispose ==
  /\ epoch \notin disposed
  /\ disposed' = disposed \cup {epoch}
  /\ UNCHANGED <<setup, epoch, paused, runs, fenced, pump, d, history>>

\* session_shutdown, or the first look at a disposed stack.
SessionShutdown ==
  /\ ~ d.shut
  /\ \E lost \in BOOLEAN : d' = Shutdown(d, lost)
  /\ Others

\* attach: the scheduler of the next stack; what is left of the old one is shut down.
Attach ==
  /\ epoch \in disposed /\ epoch < setup.epochs
  /\ epoch' = epoch + 1
  /\ \E lost \in BOOLEAN :
       d' = [(IF d.shut THEN d ELSE Shutdown(d, lost)) EXCEPT !.shut = FALSE, !.told = {}]
  /\ fenced' = FALSE
  /\ UNCHANGED <<setup, disposed, paused, runs, pump, history>>

\* closeEpoch: the runs of a disposed stack are ended in state.json.
CloseEpoch(e) ==
  /\ e \in disposed
  /\ runs' = [runs EXCEPT !.state = [k \in Keys |->
       IF runs.owner[k] # e THEN @[k]
       ELSE IF @[k] = "queued" THEN "dropped" ELSE IF @[k] = "dispatched" THEN "unknown" ELSE @[k]]]
  /\ runs' # runs
  /\ UNCHANGED <<setup, epoch, disposed, paused, fenced, pump, d, history>>

Next ==
  \/ \E k \in Keys : Claim(k) \/ ClaimSource(k) \/ EnqueueHandoff(k) \/ OwnStart(k) \/ MessageMerged(k)
  \/ \E k \in Keys : Pause(Kind(k)) \/ Resume(Kind(k))
  \/ PumpClaim \/ PumpDrop
  \/ \E e \in 1 .. Epochs : CasRefuses(e) \/ CasFails(e) \/ CasAllows(e) \/ Write(e) \/ CloseEpoch(e)
  \/ HumanStart \/ MessageStart \/ Context \/ MessageEnd \/ Settled \/ EndsSilently \/ Input
  \/ SessionMoves \/ StartIsDue \/ RunIsDue \/ Timer \/ Grace \/ ObserveStuck
  \/ Dispose \/ SessionShutdown \/ Attach

Spec == Init /\ [][Next]_vars

-------------------------------------------------------------------------------
(* Properties *)

Waits(k) == Contains(d.queue, k) \/ d.flight.k = k
Live == epoch \notin disposed /\ ~ d.shut

\* The slot of the process is held exactly while the pump writes an intent or a message is
\* in flight: a leak would stop every scheduled wake for good (createProcessOccupancy,
\* pumpOnce, closeFlight).
SlotIsHeld ==
  Live => /\ pump[epoch].k # "none" => d.slot = [epoch |-> epoch, k |-> pump[epoch].k]
          /\ d.flight # NoFlight => d.slot = [epoch |-> epoch, k |-> d.flight.k]
          /\ d.slot.epoch = epoch => d.slot.k \in {pump[epoch].k, d.flight.k}

\* While its stack lives, the message claimed last is waited for by somebody as long as the
\* ledger says that it is not over, unless the ledger would not take its end (pumpOnce,
\* sendNow, finalizeAtSettle).
NewestIsNotForgotten ==
  LET k == history.latest IN
  /\ Live /\ k # "none" /\ k \notin history.given
  /\ runs.owner[k] = epoch /\ runs.state[k] \in {"queued", "dispatched"}
  => Waits(k) \/ \E i \in DOMAIN d.writes[epoch] : d.writes[epoch][i].k = k

\* A run makes a model call only while nothing has been said of its end, unless a human took
\* it over, and whatever becomes of the aborts; its first call is made in the session that
\* the message was sent to, with no change of it under way (judgeScheduledContext,
\* markOrphanRun, sessionMovedUnder).
CallsAreRightful ==
  [][\A k \in Keys :
       history'.calls[k] > history.calls[k] =>
         /\ d.said[k] \in {"none", "continued"}
         /\ history.calls[k] = 0 /\ d.said[k] # "continued"
              => d.flight.k = k /\ ~ d.flight.moved /\ ~ fenced]_vars

\* The end of a run is told truly and once: what is reported as dropped, which tells the user
\* that the task did not run, never made a model call, and the owner of a handoff hears of its
\* end, not again and not never (finalizeAtSettle, finishLedger, endHandoff, recordUnknown,
\* settle, shutdown).
EndsAreTold ==
  /\ \A k \in Keys :
       runs.state[k] = "dropped" \/ d.said[k] = "dropped" => history.calls[k] = 0
  /\ \A k \in d.arrived :
       d.heard[k] =
         IF Contains(d.queue, k) \/ (d.flight.k = k /\ ~ d.flight.recorded) THEN 0 ELSE 1

\* What waits in the queue, or with the pump, when its task is paused in this process is not
\* sent after it, whatever the clock says, be the task resumed, or a once task that a pause
\* does not change; nor is a run that reports later, if the wall clock at its claim was not
\* past the one at the pause (revokedSince, revokeTask).
RevokedIsNotSent ==
  [][\A k \in d'.inbox \ d.inbox : k \notin history.swept /\ k \notin d.revoked]_vars
===============================================================================
