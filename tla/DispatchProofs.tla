----------------------------- MODULE DispatchProofs -----------------------------
(***************************************************************************)
(* Proofs about the dispatcher of scheduled messages, for any set of runs, *)
(* any setups and any number of epochs and model calls.                    *)
(***************************************************************************)
EXTENDS Dispatch, SequenceTheorems, TLAPS

-------------------------------------------------------------------------------
(* The queue *)

OneOfTask(q) == \A i, j \in DOMAIN q : Kind(q[i]) = Kind(q[j]) => i = j

\* What is left when the element at i is taken out.
LEMMA TakenOut ==
  ASSUME NEW q \in Seq(Keys), NEW i \in 1 .. Len(q)
  PROVE  /\ RemoveAt(q, i) \in Seq(Keys)
         /\ Len(RemoveAt(q, i)) = Len(q) - 1
         /\ \A n \in 1 .. Len(q) - 1 :
              RemoveAt(q, i)[n] = IF n < i THEN q[n] ELSE q[n + 1]
<1> DEFINE a == SubSeq(q, 1, i - 1)
           b == SubSeq(q, i + 1, Len(q))
<1>0. Len(q) \in Nat /\ i \in Nat /\ 1 <= i /\ i <= Len(q)
  OBVIOUS
<1>1. a \in Seq(Keys) /\ Len(a) = i - 1 /\ \A n \in 1 .. i - 1 : a[n] = q[n]
  OBVIOUS
<1>2. b \in Seq(Keys) /\ Len(b) = Len(q) - i /\ \A n \in 1 .. Len(q) - i : b[n] = q[n + i]
  OBVIOUS
<1>3. RemoveAt(q, i) = a \o b
  BY DEF RemoveAt
<1> HIDE DEF a, b
<1> DEFINE c == RemoveAt(q, i)
<1>4. /\ c \in Seq(Keys)
      /\ Len(c) = Len(a) + Len(b)
      /\ \A n \in 1 .. Len(a) + Len(b) : c[n] = IF n <= Len(a) THEN a[n] ELSE b[n - Len(a)]
  <2>1. a \in Seq(Keys) /\ b \in Seq(Keys)
    BY <1>1, <1>2
  <2> QED
    BY ONLY <1>3, <2>1, ConcatProperties, Zenon
<1> HIDE DEF c
<1>5. Len(c) = Len(q) - 1
  BY <1>0, <1>1, <1>2, <1>4
<1>6. ASSUME NEW n \in 1 .. Len(q) - 1
      PROVE  c[n] = IF n < i THEN q[n] ELSE q[n + 1]
  <2>1. c[n] = IF n <= Len(a) THEN a[n] ELSE b[n - Len(a)]
    BY <1>0, <1>1, <1>2, <1>4
  <2>2. CASE n < i
    BY <1>0, <1>1, <2>1, <2>2
  <2>3. CASE n >= i
    <3>1. n - (i - 1) \in 1 .. Len(q) - i /\ n - (i - 1) + i = n + 1
      BY <1>0, <2>3
    <3> QED
      BY <1>0, <1>1, <1>2, <2>1, <2>3, <3>1
  <2> QED
    BY <1>0, <2>2, <2>3
<1> QED
  BY <1>4, <1>5, <1>6 DEF c

\* ... and what is in it, when there was one entry of a task at most.
LEMMA LeftWithout ==
  ASSUME NEW q \in Seq(Keys), OneOfTask(q), NEW i \in 1 .. Len(q)
  PROVE  /\ RemoveAt(q, i) \in Seq(Keys)
         /\ OneOfTask(RemoveAt(q, i))
         /\ \A k \in Keys : Contains(RemoveAt(q, i), k) <=> Contains(q, k) /\ k # q[i]
<1> DEFINE r == RemoveAt(q, i)
<1>1. r \in Seq(Keys) /\ Len(r) = Len(q) - 1
      /\ \A n \in 1 .. Len(q) - 1 : r[n] = IF n < i THEN q[n] ELSE q[n + 1]
  BY TakenOut
<1> HIDE DEF r
<1>2. OneOfTask(r)
  BY <1>1 DEF OneOfTask
<1>3. ASSUME NEW k \in Keys, Contains(r, k)
      PROVE  Contains(q, k) /\ k # q[i]
  <2>1. PICK n \in 1 .. Len(r) : r[n] = k
    BY <1>3 DEF Contains
  <2>2. CASE n < i
    BY <1>1, <2>1, <2>2 DEF Contains, OneOfTask
  <2>3. CASE n >= i
    BY <1>1, <2>1, <2>3 DEF Contains, OneOfTask
  <2> QED
    BY <2>2, <2>3, <1>1
<1>4. ASSUME NEW k \in Keys, Contains(q, k), k # q[i]
      PROVE  Contains(r, k)
  <2>1. PICK n \in 1 .. Len(q) : q[n] = k
    BY <1>4 DEF Contains
  <2>2. CASE n < i
    BY <1>1, <2>1, <2>2 DEF Contains
  <2>3. CASE n > i
    <3>1. n - 1 \in 1 .. Len(r) /\ r[n - 1] = k
      BY <1>1, <2>1, <2>3
    <3> QED
      BY <3>1 DEF Contains
  <2> QED
    BY <2>1, <2>2, <2>3, <1>4
<1> QED
  BY <1>1, <1>2, <1>3, <1>4 DEF r

LEMMA Without ==
  ASSUME NEW q \in Seq(Keys), OneOfTask(q), NEW k \in Keys
  PROVE  /\ RemoveFirst(q, k) \in Seq(Keys)
         /\ OneOfTask(RemoveFirst(q, k))
         /\ \A j \in Keys : Contains(RemoveFirst(q, k), j) <=> Contains(q, j) /\ j # k
<1>1. CASE ~ Contains(q, k)
  BY <1>1 DEF RemoveFirst, Contains
<1>2. CASE Contains(q, k)
  <2>1. PICK i \in 1 .. Len(q) : q[i] = k
    BY <1>2 DEF Contains
  <2>2. {n \in 1 .. Len(q) : q[n] = k} = {i}
    BY <2>1 DEF OneOfTask
  <2>3. SelectInSeq(q, LAMBDA v : v = k) = i
    BY <2>2 DEF SelectInSeq, Min
  <2>4. RemoveFirst(q, k) = RemoveAt(q, i)
    BY <2>1, <2>3 DEF RemoveFirst
  <2> QED
    BY <2>1, <2>4, LeftWithout
<1> QED
  BY <1>1, <1>2

\* The newest entry of a task wins.
Merge(q, k) ==
  LET Old == {j \in Task(Kind(k)) : Contains(q, j)} IN
  Append(RemoveFirstMatch(q, LAMBDA j : j \in Old), k)

LEMMA Merged ==
  ASSUME NEW q \in Seq(Keys), OneOfTask(q), NEW k \in Keys, ~ Contains(q, k)
  PROVE  /\ Merge(q, k) \in Seq(Keys)
         /\ OneOfTask(Merge(q, k))
         /\ \A j \in Keys : Contains(Merge(q, k), j) <=> j = k \/ (Contains(q, j) /\ Kind(j) # Kind(k))
<1> DEFINE Old == {j \in Task(Kind(k)) : Contains(q, j)}
           u == RemoveFirstMatch(q, LAMBDA j : j \in Old)
           r == Append(u, k)
<1>1. /\ u \in Seq(Keys) /\ OneOfTask(u)
      /\ \A j \in Keys : Contains(u, j) <=> Contains(q, j) /\ j \notin Old
  <2>1. CASE ~ \E i \in 1 .. Len(q) : q[i] \in Old
    <3>1. u = q
      BY <2>1 DEF RemoveFirstMatch
    <3> HIDE DEF u
    <3>2. \A j \in Keys : Contains(q, j) => j \notin Old
      BY <2>1 DEF Contains
    <3> QED
      BY <3>1, <3>2
  <2>2. CASE \E i \in 1 .. Len(q) : q[i] \in Old
    <3>1. PICK i \in 1 .. Len(q) : q[i] \in Old
      BY <2>2
    <3>2. \A n \in 1 .. Len(q) : q[n] \in Old => n = i
      BY <3>1 DEF OneOfTask, Task
    <3> HIDE DEF Old
    <3>3. {n \in 1 .. Len(q) : q[n] \in Old} = {i}
      BY <3>1, <3>2
    <3>4. SelectInSeq(q, LAMBDA j : j \in Old) = i
      BY <3>3 DEF SelectInSeq, Min
    <3>5. u = RemoveAt(q, i)
      BY <3>1, <3>4 DEF RemoveFirstMatch
    <3>6. \A j \in Keys : Contains(q, j) => (j \in Old <=> j = q[i])
      BY <3>1, <3>2 DEF Contains
    <3> HIDE DEF u
    <3> QED
      BY <3>5, <3>6, LeftWithout
  <2> QED
    BY <2>1, <2>2
<1>2. \A j \in Keys : Contains(u, j) => Kind(j) # Kind(k)
  BY <1>1 DEF Task
<1> HIDE DEF u
<1>3. r \in Seq(Keys) /\ Len(r) = Len(u) + 1 /\ r[Len(u) + 1] = k
      /\ \A n \in 1 .. Len(u) : r[n] = u[n]
  BY <1>1
<1> HIDE DEF r, Old
<1>4. OneOfTask(r)
  <2> SUFFICES ASSUME NEW i \in DOMAIN r, NEW j \in DOMAIN r, Kind(r[i]) = Kind(r[j])
               PROVE  i = j
    BY DEF OneOfTask
  <2>0. i \in 1 .. Len(u) + 1 /\ j \in 1 .. Len(u) + 1
    BY <1>3
  <2>1. \A n \in 1 .. Len(u) : r[n] \in Keys /\ Contains(u, r[n])
    BY <1>1, <1>3 DEF Contains
  <2>2. \A n \in 1 .. Len(u) : Kind(r[n]) # Kind(k)
    BY <2>1, <1>2
  <2>3. CASE i = Len(u) + 1 \/ j = Len(u) + 1
    BY <2>0, <2>2, <2>3, <1>3, <1>1
  <2>4. CASE i \in 1 .. Len(u) /\ j \in 1 .. Len(u)
    BY <2>4, <1>1, <1>3 DEF OneOfTask
  <2> QED
    BY <2>0, <2>3, <2>4, <1>1
<1>5. ASSUME NEW j \in Keys PROVE Contains(r, j) <=> j = k \/ Contains(u, j)
  <2>1. Len(u) + 1 \in 1 .. Len(r) /\ 1 .. Len(r) = 1 .. Len(u) \cup {Len(u) + 1}
    BY <1>3, <1>1
  <2> QED
    BY <1>3, <2>1 DEF Contains
<1>6. Merge(q, k) = r
  BY DEF Merge, r, u, Old
<1>7. \A j \in Keys : j \in Old <=> Kind(j) = Kind(k) /\ Contains(q, j)
  BY DEF Old, Task
<1> QED
  BY <1>1, <1>3, <1>4, <1>5, <1>6, <1>7

LEMMA Without1st ==
  ASSUME NEW q \in Seq(Keys), OneOfTask(q), q # <<>>
  PROVE  /\ Tail(q) \in Seq(Keys)
         /\ Head(q) \in Keys /\ Contains(q, Head(q))
         /\ OneOfTask(Tail(q))
         /\ \A j \in Keys : Contains(Tail(q), j) <=> Contains(q, j) /\ j # Head(q)
<1>1. RemoveAt(q, 1) = Tail(q)
  <2>1. 1 \in 1 .. Len(q)
    OBVIOUS
  <2>2. RemoveAt(q, 1) \in Seq(Keys) /\ Len(RemoveAt(q, 1)) = Len(q) - 1
        /\ \A n \in 1 .. Len(q) - 1 : RemoveAt(q, 1)[n] = q[n + 1]
    BY <2>1, TakenOut
  <2>3. Tail(q) \in Seq(Keys) /\ Len(Tail(q)) = Len(q) - 1
        /\ \A n \in 1 .. Len(q) - 1 : Tail(q)[n] = q[n + 1]
    OBVIOUS
  <2> HIDE DEF RemoveAt
  <2> QED
    BY <2>2, <2>3
<1>2. 1 \in 1 .. Len(q) /\ q[1] = Head(q) /\ Head(q) \in Keys
  OBVIOUS
<1>3. Contains(q, Head(q))
  BY <1>2 DEF Contains
<1> QED
  BY <1>1, <1>2, <1>3, LeftWithout

-------------------------------------------------------------------------------
(* The inductive invariant.  It is stated of a state s of the dispatcher, of   *)
(* the pumps p, the runs r and the model calls c, so that it can be said of    *)
(* what a handler has in its hands, too.                                       *)

\* k was sent: it is on its way, in the run that is on, in flight, or has called the model.
Away(s, c, k) == k \in s.inbox \/ s.host.by = k \/ s.flight.k = k \/ c[k] > 0

AtPump(p, k) == \E e \in 1 .. Epochs : p[e].k = k

Types(p, r, c) ==
  /\ setup \in Setups
  /\ epoch \in 1 .. Epochs
  /\ p \in [1 .. Epochs -> [k : Keys \cup {"none"}, dead : BOOLEAN, revoked : BOOLEAN]]
  /\ r \in [owner : [Keys -> 0 .. Epochs],
            state : [Keys -> {"none", "queued", "dispatched"} \cup Outcome]]
  /\ c \in [Keys -> 0 .. MaxCalls]

\* What is in the queue was claimed in this epoch, and nothing has become of it yet.
Waiting(s, r, c) ==
  \A k \in Keys : Contains(s.queue, k) =>
    /\ ~ Away(s, c, k)
    /\ k \notin s.ended
    /\ s.said[k] = "none"
    /\ r.owner[k] = epoch
    /\ Kind(k) = "handoff" => k \in s.arrived

\* Nor has anything become of what a pump has in its hands, unless its handoff was ended,
\* as it was when the pump knows it for dead, and not for revoked, and has it in the queue no
\* more; and when the pump does not know it for dead it is in the queue still.
Pumped(s, p, c) ==
  \A k \in Keys : AtPump(p, k) =>
    /\ ~ Away(s, c, k)
    /\ Kind(k) = "handoff" =>
         k \in s.ended \/ (Contains(s.queue, k) /\ ~ (p[epoch].k = k /\ p[epoch].dead /\ ~ p[epoch].revoked))
    /\ Kind(k) = "message" => s.said[k] = "none"
    /\ p[epoch].k = k /\ p[epoch].dead /\ ~ p[epoch].revoked => ~ Contains(s.queue, k)
    /\ p[epoch].k = k /\ ~ p[epoch].dead /\ ~ s.shut => Contains(s.queue, k)

\* What was sent cannot go back to the queue.
Sending(s, r, c) ==
  \A k \in Keys : Away(s, c, k) =>
    /\ k \notin s.ended
    /\ r.owner[k] # 0
    /\ Kind(k) = "handoff" => k \in s.arrived
    /\ Kind(k) = "message" => /\ r.state[k] \notin {"none", "queued"}
                              /\ r.state[k] = "dropped" => s.said[k] = "dropped"

\* Whose end the owner of a handoff has heard of.
Hearing(s, p, r) ==
  \A k \in Keys :
    /\ k \in s.ended => k \in s.arrived
    /\ k \in s.arrived =>
         /\ Kind(k) = "handoff"
         /\ s.heard[k] = IF Contains(s.queue, k) \/ (s.flight.k = k /\ ~ s.flight.recorded) THEN 0 ELSE 1
    /\ Kind(k) = "handoff" /\ k \notin s.arrived => s.heard[k] = 0 /\ s.said[k] = "none"
    /\ r.owner[k] = 0 => s.said[k] = "none" /\ k \notin s.arrived /\ ~ AtPump(p, k)

\* What is told as dropped never called the model.
Telling(s, r, c) ==
  \A k \in Keys : s.said[k] = "dropped" \/ r.state[k] = "dropped" => c[k] = 0

\* A posted write of epoch e.
Entry(s, p, r, c, e, w) ==
  /\ r.owner[w.k] = e
  /\ w.op # "cas" => Kind(w.k) = "message"
  /\ w.op \in Outcome => s.said[w.k] = w.op
  /\ w.op = "cas" => w.k = p[e].k
  /\ w.op \in {"drop", "queued"} => ~ Away(s, c, w.k)

\* The writes that are posted; an intent is the last one of its run.
Logged(s, p, r, c) ==
  \A e \in 1 .. Epochs :
    /\ \A i \in DOMAIN s.writes[e] : Entry(s, p, r, c, e, s.writes[e][i])
    /\ \A i, j \in DOMAIN s.writes[e] :
         i < j /\ s.writes[e][i].op = "cas" => s.writes[e][j].k # s.writes[e][i].k
    /\ p[e].k \in Keys => r.owner[p[e].k] = e
    /\ p[e].k = "none" => p[e] = NoPump
    /\ e > epoch => p[e] = NoPump /\ s.writes[e] = <<>>

Quiet(r) == \A k \in Keys : Kind(k) = "handoff" => r.state[k] = "none"

Flown(s, p, r, c) ==
  LET f == s.flight IN
  /\ s.shut => f = NoFlight /\ s.queue = <<>>
  /\ f # NoFlight =>
       /\ r.owner[f.k] = epoch
       /\ p[epoch].k = "none"
       /\ f.recorded <=> s.said[f.k] # "none"
       /\ f.stuck => f.recorded
       /\ f.called => f.phase \in {"bound", "aborting"} /\ c[f.k] > 0
       /\ f.called /\ f.phase = "aborting" => f.recorded \/ f.cause = "max"
       /\ f.called \/ f.recorded \/ c[f.k] = 0
       /\ f.phase = "authorized" => ~ (s.host.by = f.k /\ s.host.entered)

\* The registry holds the record of the scheduled run that is on.
Hosted(s) ==
  /\ s.host.by \in Keys => s.record.k = s.host.by /\ s.host.by \notin s.inbox
  /\ s.host.by = "human" => s.record = NoRecord
  /\ s.host.entered => s.host.by \in Keys

Core(s, p, r, c) ==
  /\ Types(p, r, c)
  /\ s \in State
  /\ OneOfTask(s.queue)
  /\ Waiting(s, r, c)
  /\ Pumped(s, p, c)
  /\ Sending(s, r, c)
  /\ Hearing(s, p, r)
  /\ Telling(s, r, c)
  /\ Logged(s, p, r, c)
  /\ Quiet(r)
  /\ Flown(s, p, r, c)

\* A record that is not void is the one of a run that a human took over, or of the
\* flight, which is watched and not over.
Handed(s) == s.record.handed /\ s.said[s.record.k] = "continued"
Watched(s) ==
  /\ s.flight.k = s.record.k /\ s.record.epoch = epoch
  /\ Supervised(s.flight) /\ ~ s.flight.recorded

Recorded(s) == s.record.k # "none" => s.record.voided \/ Handed(s) \/ Watched(s)

\* What becomes of a flight that nobody has seen start is not said before it is cut.
Open(s) ==
  s.flight.phase = "dispatched" => ~ s.flight.recorded /\ ~ s.flight.merged /\ ~ s.flight.handed

\* Weaker: when the flight is recorded and not closed yet; and stronger: when it is void.
Held(s) == s.record.k # "none" => s.record.voided \/ Handed(s) \/ Mine(s)
Void(s) == s.record.k # "none" => s.record.voided \/ Handed(s)

\* The slot of the process.
Slotted(s, p) ==
  /\ s.slot.epoch <= epoch
  /\ epoch \notin disposed /\ ~ s.shut =>
       /\ p[epoch].k # "none" => s.slot = [epoch |-> epoch, k |-> p[epoch].k]
       /\ s.flight # NoFlight => s.slot = [epoch |-> epoch, k |-> s.flight.k]
       /\ s.slot.epoch = epoch => s.slot.k \in {p[epoch].k, s.flight.k}

Good(s, p, r, c) == Core(s, p, r, c) /\ Hosted(s) /\ Recorded(s) /\ Open(s) /\ Slotted(s, p)

IInv ==
  /\ TypeOK
  /\ disposed \subseteq 1 .. epoch
  /\ Good(d, pump, runs, history.calls)

-------------------------------------------------------------------------------
(* Types *)

Flights == Flight \cup {NoFlight}
Slots == [epoch : 0 .. Epochs, k : Keys \cup {"none"}]
Records ==
  [k : Keys \cup {"none"}, epoch : 0 .. Epochs, voided : BOOLEAN, handed : BOOLEAN, expired : BOOLEAN]
Hosts == [by : Keys \cup {"none", "human"}, entered : BOOLEAN, aborted : BOOLEAN]
LogEntry == [k : Keys, op : Ops]
Logs == [1 .. Epochs -> Seq(LogEntry)]
Sayings == [Keys -> Outcome \cup {"none"}]

LEMMA Names == "none" \notin Keys /\ "human" \notin Keys
  BY DispatchAssumption

LEMMA Kinds ==
  ASSUME NEW p, NEW r, NEW c, Types(p, r, c), NEW k \in Keys
  PROVE  Kind(k) \in {"message", "handoff"}
  BY DispatchAssumption DEF Types, Setup, Kind

LEMMA Fields ==
  ASSUME NEW s \in State
  PROVE  /\ s.shut \in BOOLEAN /\ s.queue \in Seq(Keys) /\ s.flight \in Flights
         /\ s.slot \in Slots /\ s.record \in Records /\ s.host \in Hosts
         /\ s.inbox \subseteq Keys /\ s.revoked \subseteq Keys
         /\ s.told \subseteq {"message", "handoff"}
         /\ s.arrived \subseteq Keys /\ s.ended \subseteq Keys
         /\ s.writes \in Logs /\ s.heard \in [Keys -> Nat] /\ s.said \in Sayings
  BY DEF State, Flights, Slots, Records, Hosts, Logs, LogEntry, Sayings

\* One field of the state is set.
LEMMA Put ==
  ASSUME NEW s \in State
  PROVE  /\ \A x \in BOOLEAN : [s EXCEPT !.shut = x] \in State
         /\ \A x \in Seq(Keys) : [s EXCEPT !.queue = x] \in State
         /\ \A x \in Flights : [s EXCEPT !.flight = x] \in State
         /\ \A x \in Slots : [s EXCEPT !.slot = x] \in State
         /\ \A x \in Records : [s EXCEPT !.record = x] \in State
         /\ \A x \in Hosts : [s EXCEPT !.host = x] \in State
         /\ \A x \in SUBSET Keys : [s EXCEPT !.inbox = x] \in State
         /\ \A x \in SUBSET {"message", "handoff"} : [s EXCEPT !.told = x] \in State
         /\ \A x \in SUBSET Keys : [s EXCEPT !.revoked = x] \in State
         /\ \A x \in SUBSET Keys : [s EXCEPT !.arrived = x] \in State
         /\ \A x \in SUBSET Keys : [s EXCEPT !.ended = x] \in State
         /\ \A x \in Logs : [s EXCEPT !.writes = x] \in State
         /\ \A x \in [Keys -> Nat] : [s EXCEPT !.heard = x] \in State
         /\ \A x \in Sayings : [s EXCEPT !.said = x] \in State
<1>1. \A x \in BOOLEAN : [s EXCEPT !.shut = x] \in State
  BY DEF State
<1>2. \A x \in Seq(Keys) : [s EXCEPT !.queue = x] \in State
  BY DEF State
<1>3. \A x \in Flights : [s EXCEPT !.flight = x] \in State
  BY DEF State, Flights
<1>4. \A x \in Slots : [s EXCEPT !.slot = x] \in State
  BY DEF State, Slots
<1>5. \A x \in Records : [s EXCEPT !.record = x] \in State
  BY DEF State, Records
<1>6. \A x \in Hosts : [s EXCEPT !.host = x] \in State
  BY DEF State, Hosts
<1>7. \A x \in SUBSET Keys : [s EXCEPT !.inbox = x] \in State
  BY DEF State
<1>8. /\ \A x \in SUBSET {"message", "handoff"} : [s EXCEPT !.told = x] \in State
      /\ \A x \in SUBSET Keys : [s EXCEPT !.revoked = x] \in State
  BY DEF State
<1>9. \A x \in SUBSET Keys : [s EXCEPT !.arrived = x] \in State
  BY DEF State
<1>10. \A x \in SUBSET Keys : [s EXCEPT !.ended = x] \in State
  BY DEF State
<1>11. \A x \in Logs : [s EXCEPT !.writes = x] \in State
  BY DEF State, Logs, LogEntry
<1>12. \A x \in [Keys -> Nat] : [s EXCEPT !.heard = x] \in State
  BY DEF State
<1>13. \A x \in Sayings : [s EXCEPT !.said = x] \in State
  BY DEF State, Sayings
<1> QED
  BY <1>1, <1>2, <1>3, <1>4, <1>5, <1>6, <1>7, <1>8, <1>9, <1>10, <1>11, <1>12, <1>13

\* One field of the flight.
LEMMA PutInFlight ==
  ASSUME NEW f \in Flight
  PROVE  /\ f \in Flights /\ f # NoFlight /\ f.k \in Keys
         /\ \A x \in {"dispatched", "authorized", "bound", "aborting"} : [f EXCEPT !.phase = x] \in Flight
         /\ \A x \in {"none", "start", "max", "fenced"} : [f EXCEPT !.cause = x] \in Flight
         /\ \A x \in BOOLEAN :
              /\ [f EXCEPT !.foreign = x] \in Flight /\ [f EXCEPT !.recorded = x] \in Flight
              /\ [f EXCEPT !.stuck = x] \in Flight /\ [f EXCEPT !.called = x] \in Flight
              /\ [f EXCEPT !.merged = x] \in Flight /\ [f EXCEPT !.handed = x] \in Flight
              /\ [f EXCEPT !.saw = x] \in Flight /\ [f EXCEPT !.startDue = x] \in Flight
              /\ [f EXCEPT !.maxDue = x] \in Flight /\ [f EXCEPT !.moved = x] \in Flight
<1>1. f \in Flights /\ f # NoFlight /\ f.k \in Keys
  BY Names DEF Flights, Flight, NoFlight
<1>2. \A x \in {"dispatched", "authorized", "bound", "aborting"} : [f EXCEPT !.phase = x] \in Flight
  BY DEF Flight
<1>3. \A x \in {"none", "start", "max", "fenced"} : [f EXCEPT !.cause = x] \in Flight
  BY DEF Flight
<1>4. \A x \in BOOLEAN :
        /\ [f EXCEPT !.foreign = x] \in Flight /\ [f EXCEPT !.recorded = x] \in Flight
        /\ [f EXCEPT !.stuck = x] \in Flight /\ [f EXCEPT !.called = x] \in Flight
        /\ [f EXCEPT !.merged = x] \in Flight
  BY DEF Flight
<1>5. \A x \in BOOLEAN :
        /\ [f EXCEPT !.handed = x] \in Flight
        /\ [f EXCEPT !.saw = x] \in Flight /\ [f EXCEPT !.startDue = x] \in Flight
        /\ [f EXCEPT !.maxDue = x] \in Flight /\ [f EXCEPT !.moved = x] \in Flight
  BY DEF Flight
<1> QED
  BY <1>1, <1>2, <1>3, <1>4, <1>5

LEMMA NoneFlies ==
  /\ NoFlight \in Flights /\ NoFlight.k = "none" /\ NoFlight.phase = "none"
  /\ \A f \in Flights : /\ f # NoFlight => f \in Flight /\ f.k \in Keys /\ f.phase # "none"
                        /\ f.k = "none" => f = NoFlight
                        /\ f.k \in Keys \/ f.k = "none"
                        /\ f.recorded \in BOOLEAN
<1>1. NoFlight \in Flights /\ NoFlight.k = "none" /\ NoFlight.phase = "none" /\ NoFlight.recorded \in BOOLEAN
  BY DEF Flights, NoFlight
<1>2. \A f \in Flights : f # NoFlight => f \in Flight
  BY DEF Flights
<1>3. \A f \in Flight : f.k \in Keys /\ f.phase # "none" /\ f.recorded \in BOOLEAN
  BY DEF Flight
<1> QED
  BY <1>1, <1>2, <1>3, Names

-------------------------------------------------------------------------------
(* What the handlers change *)

Voids(s, t) ==
  /\ t \in State
  /\ t = [s EXCEPT !.record = t.record]
  /\ t.record = IF Mine(s) THEN [s.record EXCEPT !.voided = TRUE] ELSE s.record

LEMMA Voided ==
  ASSUME NEW s \in State
  PROVE  Voids(s, VoidFlight(s))
<1>1. [s.record EXCEPT !.voided = TRUE] \in Records
  BY Fields DEF Records
<1>2. [s EXCEPT !.record = [s.record EXCEPT !.voided = TRUE]] \in State
  BY <1>1, Put
<1>3. s = [s EXCEPT !.record = s.record]
  BY DEF State
<1>4. CASE Mine(s)
  BY <1>2, <1>4 DEF VoidFlight, State, Voids
<1>5. CASE ~ Mine(s)
  BY <1>3, <1>5 DEF VoidFlight, Voids
<1> QED
  BY <1>4, <1>5

Releases(s, e, k, t) ==
  /\ t \in State
  /\ t = [s EXCEPT !.slot = t.slot]
  /\ t.slot = IF s.slot = [epoch |-> e, k |-> k] THEN NoSlot ELSE s.slot

LEMMA Released ==
  ASSUME NEW s \in State, NEW e \in 1 .. Epochs, NEW k \in Keys
  PROVE  Releases(s, e, k, Release(s, e, k))
<1>1. NoSlot \in Slots
  BY DispatchAssumption DEF Slots, NoSlot
<1>2. [s EXCEPT !.slot = NoSlot] \in State
  BY <1>1, Put
<1>3. s = [s EXCEPT !.slot = s.slot]
  BY DEF State
<1>4. CASE s.slot = [epoch |-> e, k |-> k]
  <2> DEFINE t == [s EXCEPT !.slot = NoSlot]
  <2>1. Release(s, e, k) = t
    BY <1>4 DEF Release
  <2>2. t.slot = NoSlot
    BY DEF State
  <2>3. t = [s EXCEPT !.slot = t.slot]
    BY <2>2
  <2> HIDE DEF t
  <2> QED
    BY <1>2, <1>4, <2>1, <2>2, <2>3 DEF Releases, t
<1>5. CASE s.slot # [epoch |-> e, k |-> k]
  BY <1>3, <1>5 DEF Release, Releases
<1> QED
  BY <1>4, <1>5

Aborts(s, t) ==
  /\ t \in State
  /\ t = [s EXCEPT !.host = t.host, !.inbox = t.inbox]
  /\ t.inbox \subseteq s.inbox
  /\ t.host.by = s.host.by /\ t.host.entered = s.host.entered

LEMMA Aborted ==
  ASSUME NEW s \in State, NEW lost \in BOOLEAN
  PROVE  Aborts(s, Abort(s, lost))
<1>0. s = [s EXCEPT !.host = s.host, !.inbox = s.inbox]
  BY DEF State
<1>1. CASE lost
  BY <1>0, <1>1 DEF Abort, Aborts
<1>2. CASE ~ lost /\ s.host.by = "none"
  <2>1. [s EXCEPT !.inbox = {}] \in State
    BY Put
  <2> QED
    BY <1>2, <2>1 DEF Abort, State, Aborts
<1>3. CASE ~ lost /\ s.host.by # "none"
  <2>1. [s.host EXCEPT !.aborted = TRUE] \in Hosts
    BY Fields DEF Hosts
  <2>2. [s EXCEPT !.host = [s.host EXCEPT !.aborted = TRUE]] \in State
    BY <2>1, Put
  <2>3. [s.host EXCEPT !.aborted = TRUE].by = s.host.by
        /\ [s.host EXCEPT !.aborted = TRUE].entered = s.host.entered
    BY Fields DEF Hosts
  <2>4. Abort(s, lost) = [s EXCEPT !.host = [s.host EXCEPT !.aborted = TRUE]]
    BY <1>3 DEF Abort
  <2> QED
    BY <2>2, <2>3, <2>4 DEF State, Aborts
<1> QED
  BY <1>1, <1>2, <1>3

Posts(s, e, k, op, t) ==
  /\ t \in State
  /\ t = [s EXCEPT !.writes = t.writes]
  /\ t.writes = [s.writes EXCEPT ![e] = Append(s.writes[e], [k |-> k, op |-> op])]

LEMMA Posted ==
  ASSUME NEW s \in State, NEW e \in 1 .. Epochs, NEW k \in Keys, NEW op \in Ops
  PROVE  Posts(s, e, k, op, Post(s, e, k, op))
<1> DEFINE w == [k |-> k, op |-> op]
           log == [s.writes EXCEPT ![e] = Append(s.writes[e], w)]
<1>1. w \in LogEntry
  BY DEF LogEntry
<1>2. s.writes \in [1 .. Epochs -> Seq(LogEntry)]
  BY Fields DEF Logs
<1> HIDE DEF w
<1>3. log \in Logs
  <2>0. s.writes[e] \in Seq(LogEntry)
    BY <1>2
  <2>1. Append(s.writes[e], w) \in Seq(LogEntry)
    BY <1>1, <2>0, AppendProperties, Zenon
  <2> QED
    BY <1>2, <2>1 DEF Logs
<1>4. Post(s, e, k, op) = [s EXCEPT !.writes = log]
  BY DEF Post, w
<1> HIDE DEF log
<1>5. [s EXCEPT !.writes = log] \in State
  BY <1>3, Put
<1> QED
  BY <1>4, <1>5 DEF State, log, w, Posts

Concludes(s, e, k, o, t) ==
  /\ t \in State
  /\ t = [s EXCEPT !.said = t.said, !.heard = t.heard, !.writes = t.writes]
  /\ t.said = [s.said EXCEPT ![k] = IF s.said[k] = "none" THEN o ELSE s.said[k]]
  /\ t.heard = IF Kind(k) = "handoff" THEN [s.heard EXCEPT ![k] = s.heard[k] + 1] ELSE s.heard
  /\ t.writes = IF Kind(k) = "handoff" THEN s.writes
                ELSE [s.writes EXCEPT ![e] = Append(s.writes[e], [k |-> k, op |-> o])]

LEMMA Concluded ==
  ASSUME NEW s \in State, NEW e \in 1 .. Epochs, NEW k \in Keys, NEW o \in Outcome
  PROVE  Concludes(s, e, k, o, Conclude(s, e, k, o))
<1> DEFINE u == Say(s, k, o)
           said == [s.said EXCEPT ![k] = IF s.said[k] = "none" THEN o ELSE s.said[k]]
           heard == [s.heard EXCEPT ![k] = s.heard[k] + 1]
<1>1. said \in Sayings /\ heard \in [Keys -> Nat]
  <2>1. s.said \in [Keys -> Outcome \cup {"none"}] /\ s.heard \in [Keys -> Nat]
    BY Fields DEF Sayings
  <2>2. s.heard[k] + 1 \in Nat
    BY <2>1
  <2> QED
    BY <2>1, <2>2 DEF Sayings
<1>2. u = [s EXCEPT !.said = said]
  BY DEF Say
<1> HIDE DEF said, heard
<1>3. u \in State
  BY <1>1, <1>2, Put
<1>4. u.heard = s.heard /\ u.writes = s.writes /\ u.said = said
  BY <1>2 DEF State
<1> HIDE DEF u
<1>5. CASE Kind(k) = "handoff"
  <2>1. Conclude(s, e, k, o) = [u EXCEPT !.heard = heard]
    BY <1>4, <1>5 DEF Conclude, Tell, u, heard
  <2>2. [u EXCEPT !.heard = heard] \in State
    BY <1>1, <1>3, Put
  <2> DEFINE t == [u EXCEPT !.heard = heard]
  <2>3. t = [s EXCEPT !.said = said, !.heard = heard, !.writes = s.writes]
    BY <1>2 DEF State
  <2>4. t.said = said /\ t.heard = heard /\ t.writes = s.writes
    BY <2>3 DEF State
  <2> HIDE DEF t
  <2> QED
    BY <1>5, <2>1, <2>2, <2>3, <2>4 DEF said, heard, t, Concludes
<1>6. CASE Kind(k) # "handoff"
  <2> DEFINE t == Post(u, e, k, o)
  <2>1. Conclude(s, e, k, o) = t
    BY <1>6 DEF Conclude, u
  <2>2. o \in Ops
    BY DEF Ops
  <2>3. Posts(u, e, k, o, t)
    BY <1>3, <2>2, Posted
  <2> HIDE DEF t
  <2>4. t = [s EXCEPT !.said = said, !.heard = s.heard, !.writes = t.writes]
    BY <1>2, <2>3 DEF State, Posts
  <2>5. t.said = said /\ t.heard = s.heard
    BY <2>4 DEF State
  <2> QED
    BY <1>4, <1>6, <2>1, <2>3, <2>4, <2>5 DEF said, Posts, Concludes
<1> QED
  BY <1>5, <1>6

Ends(s, H, t) ==
  /\ t \in State
  /\ t = [s EXCEPT !.ended = t.ended, !.heard = t.heard, !.said = t.said]
  /\ t.ended = s.ended \cup H
  /\ \A k \in Keys :
       /\ t.heard[k] = IF k \in H \ s.ended THEN s.heard[k] + 1 ELSE s.heard[k]
       /\ t.said[k] = IF k \in H \ s.ended /\ s.said[k] = "none" THEN "dropped" ELSE s.said[k]

LEMMA Ended ==
  ASSUME NEW s \in State, NEW H \in SUBSET Keys
  PROVE  Ends(s, H, EndHandoffs(s, H))
<1> DEFINE new == H \ s.ended
           ended == s.ended \cup new
           heard == [k \in Keys |-> IF k \in new THEN s.heard[k] + 1 ELSE s.heard[k]]
           said == [k \in Keys |-> IF k \in new /\ s.said[k] = "none" THEN "dropped" ELSE s.said[k]]
<1>1. ended \in SUBSET Keys /\ ended = s.ended \cup H
  BY Fields
<1>2. heard \in [Keys -> Nat]
  <2>1. \A k \in Keys : s.heard[k] \in Nat /\ s.heard[k] + 1 \in Nat
    BY Fields
  <2> QED
    BY <2>1
<1>3. said \in Sayings
  BY Fields DEF Sayings, Outcome
<1>4. EndHandoffs(s, H) = [s EXCEPT !.ended = ended, !.heard = heard, !.said = said]
  BY DEF EndHandoffs, TellDropped
<1> HIDE DEF ended, heard, said
<1>5. [s EXCEPT !.ended = ended] \in State
  BY <1>1, Put
<1>6. [s EXCEPT !.ended = ended, !.heard = heard] \in State
  <2> DEFINE u == [s EXCEPT !.ended = ended]
  <2>1. [u EXCEPT !.heard = heard] \in State
    BY <1>2, <1>5, Put
  <2> QED
    BY <2>1 DEF State
<1>7. [s EXCEPT !.ended = ended, !.heard = heard, !.said = said] \in State
  <2> DEFINE u == [s EXCEPT !.ended = ended, !.heard = heard]
  <2>1. [u EXCEPT !.said = said] \in State
    BY <1>3, <1>6, Put
  <2> QED
    BY <2>1 DEF State
<1>8. s.ended \cup H = ended
  BY <1>1
<1> DEFINE t == [s EXCEPT !.ended = ended, !.heard = heard, !.said = said]
<1>9. t.ended = ended /\ t.heard = heard /\ t.said = said
  BY DEF State
<1>10. \A k \in Keys :
        /\ heard[k] = IF k \in new THEN s.heard[k] + 1 ELSE s.heard[k]
        /\ said[k] = IF k \in new /\ s.said[k] = "none" THEN "dropped" ELSE s.said[k]
  BY DEF heard, said
<1>11. t = [s EXCEPT !.ended = t.ended, !.heard = t.heard, !.said = t.said]
  BY <1>9
<1> HIDE DEF t
<1> QED
  BY <1>4, <1>7, <1>8, <1>9, <1>10, <1>11 DEF Ends, t

-------------------------------------------------------------------------------
(* The log *)

\* Nothing is sent that was not, and what has been said stays.
Stable(s, t, c) ==
  \A k \in Keys : /\ Away(t, c, k) => Away(s, c, k)
                  /\ s.said[k] # "none" => t.said[k] = s.said[k]

LEMMA Writes ==
  ASSUME NEW s \in State, NEW e \in 1 .. Epochs
  PROVE  /\ s.writes[e] \in Seq(LogEntry)
         /\ \A i \in DOMAIN s.writes[e] : s.writes[e][i].k \in Keys /\ s.writes[e][i].op \in Ops
<1>1. s.writes[e] \in Seq(LogEntry)
  BY Fields DEF Logs
<1>2. \A i \in DOMAIN s.writes[e] : s.writes[e][i] \in LogEntry
  BY <1>1
<1> QED
  BY <1>1, <1>2 DEF LogEntry

LEMMA EntryStays ==
  ASSUME NEW s, NEW t, NEW p, NEW r, NEW c, NEW e, NEW w \in LogEntry,
         Stable(s, t, c), Entry(s, p, r, c, e, w)
  PROVE  Entry(t, p, r, c, e, w)
  BY DEF Entry, Stable, LogEntry, Outcome

LEMMA SameLog ==
  ASSUME NEW s \in State, NEW t, NEW p, NEW r, NEW c,
         Stable(s, t, c), Logged(s, p, r, c), t.writes = s.writes
  PROVE  Logged(t, p, r, c)
<1>1. \A e \in 1 .. Epochs : \A i \in DOMAIN s.writes[e] : s.writes[e][i] \in LogEntry
  BY Writes
<1>2. \A e \in 1 .. Epochs : \A i \in DOMAIN t.writes[e] : Entry(t, p, r, c, e, t.writes[e][i])
  BY <1>1, EntryStays DEF Logged
<1> QED
  BY <1>2 DEF Logged

LEMMA PostedLog ==
  ASSUME NEW s \in State, NEW t, NEW p, NEW r, NEW c, NEW e \in 1 .. Epochs, NEW w \in LogEntry,
         Stable(s, t, c), Logged(s, p, r, c), e <= epoch, epoch \in 1 .. Epochs,
         t.writes = [s.writes EXCEPT ![e] = Append(s.writes[e], w)],
         Entry(t, p, r, c, e, w),
         \A i \in DOMAIN s.writes[e] : s.writes[e][i].op = "cas" => s.writes[e][i].k # w.k
  PROVE  Logged(t, p, r, c)
<1> DEFINE log == s.writes[e]
           new == Append(log, w)
<1>1. log \in Seq(LogEntry) /\ s.writes \in [1 .. Epochs -> Seq(LogEntry)]
  BY Fields DEF Logs
<1>2. t.writes[e] = new /\ \A g \in 1 .. Epochs : g # e => t.writes[g] = s.writes[g]
  BY <1>1
<1> HIDE DEF log
<1>3. DOMAIN new = 1 .. Len(log) + 1 /\ new[Len(log) + 1] = w
      /\ DOMAIN log = 1 .. Len(log) /\ Len(log) \in Nat
      /\ \A i \in 1 .. Len(log) : new[i] = log[i] /\ log[i] \in LogEntry
  BY <1>1
<1> HIDE DEF new
<1>4. ASSUME NEW g \in 1 .. Epochs, g # e
      PROVE  /\ \A i \in DOMAIN t.writes[g] : Entry(t, p, r, c, g, t.writes[g][i])
             /\ \A i, j \in DOMAIN t.writes[g] :
                  i < j /\ t.writes[g][i].op = "cas" => t.writes[g][j].k # t.writes[g][i].k
             /\ p[g].k \in Keys => r.owner[p[g].k] = g
             /\ p[g].k = "none" => p[g] = NoPump
             /\ g > epoch => p[g] = NoPump /\ t.writes[g] = <<>>
  <2>1. \A i \in DOMAIN s.writes[g] : s.writes[g][i] \in LogEntry
    BY Writes
  <2>2. t.writes[g] = s.writes[g]
    BY <1>2, <1>4
  <2>3. \A i \in DOMAIN t.writes[g] : Entry(t, p, r, c, g, t.writes[g][i])
    BY <2>1, <2>2, EntryStays DEF Logged
  <2> QED
    BY <2>2, <2>3 DEF Logged
<1>5. \A i \in 1 .. Len(log) + 1 : Entry(t, p, r, c, e, new[i])
  <2>1. \A i \in 1 .. Len(log) : Entry(s, p, r, c, e, log[i])
    BY <1>3 DEF Logged, log
  <2>2. \A i \in 1 .. Len(log) : Entry(t, p, r, c, e, new[i])
    BY <1>3, <2>1, EntryStays
  <2> QED
    BY <1>3, <2>2
<1>6. \A i, j \in 1 .. Len(log) + 1 : i < j /\ new[i].op = "cas" => new[j].k # new[i].k
  <2>1. \A i, j \in 1 .. Len(log) : i < j /\ log[i].op = "cas" => log[j].k # log[i].k
    BY <1>3 DEF Logged, log
  <2>2. \A i \in 1 .. Len(log) : log[i].op = "cas" => log[i].k # w.k
    BY <1>3 DEF log
  <2> QED
    BY <1>3, <2>1, <2>2
<1>7. ~ e > epoch
  BY <1>3
<1>8. /\ p[e].k \in Keys => r.owner[p[e].k] = e
      /\ p[e].k = "none" => p[e] = NoPump
  BY DEF Logged
<1> QED
  BY <1>2, <1>3, <1>4, <1>5, <1>6, <1>7, <1>8 DEF Logged

-------------------------------------------------------------------------------
(* The end of the flight is recorded *)

LEMMA InFlight ==
  ASSUME NEW s \in State, NEW p, NEW r, NEW c, Core(s, p, r, c), s.flight # NoFlight
  PROVE  LET k == s.flight.k IN
         /\ s.flight \in Flight /\ k \in Keys
         /\ Away(s, c, k) /\ ~ Contains(s.queue, k) /\ ~ AtPump(p, k) /\ k \notin s.ended
         /\ r.owner[k] = epoch /\ r.owner[k] # 0
         /\ p[epoch].k = "none" /\ p[epoch].k # k
         /\ ~ s.shut
         /\ s.flight.recorded <=> s.said[k] # "none"
         /\ Kind(k) = "handoff" => k \in s.arrived
         /\ Kind(k) = "message" => k \notin s.arrived
<1> DEFINE k == s.flight.k
<1>1. s.flight \in Flight /\ k \in Keys
  BY Fields, NoneFlies
<1>2. Away(s, c, k)
  BY DEF Away
<1>3. ~ Contains(s.queue, k) /\ ~ AtPump(p, k)
  BY <1>1, <1>2 DEF Core, Waiting, Pumped
<1>4. /\ r.owner[k] = epoch /\ p[epoch].k = "none" /\ ~ s.shut
      /\ s.flight.recorded <=> s.said[k] # "none"
  BY DEF Core, Flown
<1>5. k \notin s.ended /\ r.owner[k] # 0
      /\ (Kind(k) = "handoff" => k \in s.arrived)
  BY <1>1, <1>2 DEF Core, Sending
<1>6. Kind(k) = "message" => k \notin s.arrived
  BY <1>1 DEF Core, Hearing
<1> QED
  BY <1>1, <1>2, <1>3, <1>4, <1>5, <1>6, Names

\* Nothing else is conceded of a log whose last intent is answered.
LEMMA NoIntent ==
  ASSUME NEW s \in State, NEW p, NEW r, NEW c, Logged(s, p, r, c),
         NEW e \in 1 .. Epochs, NEW k, p[e].k # k
  PROVE  \A i \in DOMAIN s.writes[e] : s.writes[e][i].op = "cas" => s.writes[e][i].k # k
  BY DEF Logged, Entry

\* recordUnknown, recordDropped of the flight that is open.
Marks(s, o, t) ==
  /\ t \in State
  /\ t.shut = s.shut /\ t.queue = s.queue /\ t.slot = s.slot /\ t.record = s.record
  /\ t.host = s.host /\ t.inbox = s.inbox /\ t.revoked = s.revoked
  /\ t.arrived = s.arrived /\ t.ended = s.ended
  /\ t.flight = [s.flight EXCEPT !.recorded = TRUE]
  /\ t.flight \in Flight /\ t.flight.k = s.flight.k /\ t.flight.recorded
  /\ \A k \in Keys : s.said[k] # "none" \/ k # s.flight.k => t.said[k] = s.said[k]
  /\ ~ s.flight.recorded => t.said[s.flight.k] = o

LEMMA Marked ==
  ASSUME NEW s \in State, NEW p, NEW r, NEW c, Core(s, p, r, c), s.flight # NoFlight,
         NEW o \in Outcome, o = "dropped" /\ ~ s.flight.recorded => c[s.flight.k] = 0
  PROVE  Core(RecordOf(s, s.flight, o), p, r, c) /\ Marks(s, o, RecordOf(s, s.flight, o))
<1> PICK k \in Keys : k = s.flight.k
  BY InFlight
<1> PICK f \in Flight : f = s.flight
  BY InFlight
<1> DEFINE u == Conclude(s, epoch, k, o)
           t == RecordOf(s, f, o)
<1>1. f \in Flight /\ k \in Keys /\ f.recorded \in BOOLEAN /\ f.k = k
  BY DEF Flight
<1>2. CASE f.recorded
  <2>1. t = s
    BY <1>2 DEF RecordOf
  <2>2. [f EXCEPT !.recorded = TRUE] = f
    BY <1>1, <1>2 DEF Flight
  <2> HIDE DEF t
  <2> QED
    BY <1>1, <1>2, <2>1, <2>2 DEF t, Marks
<1>3. CASE ~ f.recorded
  <2> DEFINE g == [f EXCEPT !.recorded = TRUE]
  <2>0. epoch \in 1 .. Epochs /\ epoch <= epoch
    BY DEF Core, Types
  <2>00. Concludes(s, epoch, k, o, u)
    BY <2>0, Concluded
  <2>1. /\ u \in State
        /\ u = [s EXCEPT !.said = u.said, !.heard = u.heard, !.writes = u.writes]
        /\ u.said = [s.said EXCEPT ![k] = IF s.said[k] = "none" THEN o ELSE s.said[k]]
        /\ u.heard = IF Kind(k) = "handoff" THEN [s.heard EXCEPT ![k] = s.heard[k] + 1] ELSE s.heard
        /\ u.writes = IF Kind(k) = "handoff" THEN s.writes
                      ELSE [s.writes EXCEPT ![epoch] = Append(s.writes[epoch], [k |-> k, op |-> o])]
    BY <2>00 DEF Concludes
  <2> HIDE DEF u
  <2>2. u.flight = f
    BY <2>1 DEF State
  <2>3. t = [u EXCEPT !.flight = g]
    BY <1>3, <2>2 DEF RecordOf, u
  <2>4. g \in Flight /\ g.k = k /\ g.recorded /\ g # NoFlight
    <3>1. g \in Flight
      BY <1>1, PutInFlight, Zenon
    <3>2. g.k = f.k /\ g.recorded
      BY <1>1 DEF Flight
    <3> QED
      BY <3>1, <3>2, PutInFlight
  <2> HIDE DEF g, t
  <2>5. t \in State
    <3>1. g \in Flights
      BY <2>4, PutInFlight
    <3> QED
      BY <2>1, <2>3, <3>1, Put, Zenon
  <2>6. /\ t.shut = s.shut /\ t.queue = s.queue /\ t.flight = g /\ t.slot = s.slot
        /\ t.record = s.record /\ t.host = s.host /\ t.inbox = s.inbox /\ t.revoked = s.revoked
        /\ t.arrived = s.arrived /\ t.ended = s.ended
        /\ t.writes = u.writes /\ t.heard = u.heard /\ t.said = u.said
    BY <2>1, <2>3 DEF State
  <2>8. /\ s.said[k] = "none" /\ k \notin s.ended /\ ~ Contains(s.queue, k) /\ ~ AtPump(p, k)
        /\ r.owner[k] = epoch /\ r.owner[k] # 0 /\ p[epoch].k = "none" /\ p[epoch].k # k
        /\ (Kind(k) = "handoff" => k \in s.arrived) /\ (Kind(k) = "message" => k \notin s.arrived)
    BY <1>3, InFlight
  <2>9. /\ t.said[k] = o /\ o # "none"
        /\ \A j \in Keys : j # k => t.said[j] = s.said[j] /\ t.heard[j] = s.heard[j]
        /\ Kind(k) = "handoff" => t.heard[k] = s.heard[k] + 1
    BY <1>1, <2>1, <2>6, <2>8, Fields DEF Outcome, Sayings
  <2>10. \A j \in Keys : Away(t, c, j) <=> Away(s, c, j)
    BY <2>4, <2>6 DEF Away
  <2>11. Stable(s, t, c)
    BY <2>8, <2>9, <2>10 DEF Stable
  <2>12. Waiting(t, r, c)
    BY <2>6, <2>8, <2>9, <2>10 DEF Core, Waiting
  <2>13. Pumped(t, p, c)
    BY <2>6, <2>8, <2>9, <2>10 DEF Core, Pumped
  <2>14. Sending(t, r, c)
    BY <2>6, <2>8, <2>9, <2>10 DEF Core, Sending
  <2>15. Hearing(t, p, r)
    <3> SUFFICES ASSUME NEW j \in Keys
                 PROVE  /\ j \in t.ended => j \in t.arrived
                        /\ j \in t.arrived =>
                             /\ Kind(j) = "handoff"
                             /\ t.heard[j] = IF Contains(t.queue, j) \/ (t.flight.k = j /\ ~ t.flight.recorded)
                                             THEN 0 ELSE 1
                        /\ Kind(j) = "handoff" /\ j \notin t.arrived => t.heard[j] = 0 /\ t.said[j] = "none"
                        /\ r.owner[j] = 0 => t.said[j] = "none" /\ j \notin t.arrived /\ ~ AtPump(p, j)
      BY DEF Hearing
    <3>1. CASE j # k
      BY <3>1, <2>4, <2>6, <2>9 DEF Core, Hearing
    <3>2. CASE j = k
      <4>1. Kind(k) = "handoff" => t.heard[k] = 1
        BY <1>3, <2>8, <2>9, <1>1 DEF Core, Hearing
      <4> QED
        BY <3>2, <4>1, <2>4, <2>6, <2>8, <1>1 DEF Core, Hearing
    <3> QED
      BY <3>1, <3>2
  <2>16. Telling(t, r, c)
    BY <1>3, <2>9 DEF Core, Telling
  <2>17. Logged(t, p, r, c)
    <3>1. CASE Kind(k) = "handoff"
      BY <3>1, <2>1, <2>6, <2>11, SameLog DEF Core
    <3>2. CASE Kind(k) # "handoff"
      <4> DEFINE w == [k |-> k, op |-> o]
      <4>1. w \in LogEntry /\ w.k = k /\ w.op = o
        BY <1>1 DEF LogEntry, Ops
      <4>2. t.writes = [s.writes EXCEPT ![epoch] = Append(s.writes[epoch], w)]
        BY <3>2, <2>1, <2>6
      <4> HIDE DEF w
      <4>3. o \notin {"cas", "drop", "queued"}
        BY DEF Outcome
      <4>4. Kind(k) = "message"
        BY <1>1, <3>2, Kinds DEF Core
      <4>5. Entry(t, p, r, c, epoch, w)
        BY <4>1, <4>3, <4>4, <2>8, <2>9 DEF Entry
      <4>6. \A i \in DOMAIN s.writes[epoch] :
              s.writes[epoch][i].op = "cas" => s.writes[epoch][i].k # w.k
        BY <2>0, <2>8, <4>1, NoIntent DEF Core
      <4>7. Logged(s, p, r, c)
        BY DEF Core
      <4> QED
        BY <2>0, <2>11, <4>1, <4>2, <4>5, <4>6, <4>7, PostedLog
    <3> QED
      BY <3>1, <3>2
  <2>18. Flown(t, p, r, c)
    <3>1. Flown(s, p, r, c)
      BY DEF Core
    <3>2. /\ g.stuck = f.stuck /\ g.called = f.called /\ g.phase = f.phase /\ g.cause = f.cause
      BY <1>1 DEF Flight, g
    <3> QED
      BY <3>1, <3>2, <2>4, <2>6, <2>8, <2>9 DEF Flown
  <2>20. Core(t, p, r, c)
    BY <2>5, <2>6, <2>12, <2>13, <2>14, <2>15, <2>16, <2>17, <2>18 DEF Core
  <2> QED
    BY <2>4, <2>5, <2>6, <2>8, <2>9, <2>20 DEF t, g, Marks
<1> QED
  BY <1>1, <1>2, <1>3

-------------------------------------------------------------------------------
(* The flight is cut or closed *)

SameFates(s, t) ==
  /\ t.shut = s.shut /\ t.queue = s.queue /\ t.arrived = s.arrived /\ t.ended = s.ended
  /\ t.writes = s.writes /\ t.heard = s.heard /\ t.said = s.said

VoidedRecord(s) == IF Mine(s) THEN [s.record EXCEPT !.voided = TRUE] ELSE s.record

Cuts(s, cause, t) ==
  /\ t \in State /\ SameFates(s, t) /\ t.slot = s.slot /\ t.revoked = s.revoked
  /\ t.flight = [s.flight EXCEPT !.phase = "aborting", !.cause = cause]
  /\ t.flight \in Flight
  /\ t.record = VoidedRecord(s)
  /\ t.inbox \subseteq s.inbox
  /\ t.host.by = s.host.by /\ t.host.entered = s.host.entered

LEMMA Cut ==
  ASSUME NEW s \in State, s.flight \in Flight, NEW lost \in BOOLEAN,
         NEW cause \in {"none", "start", "max", "fenced"}
  PROVE  Cuts(s, cause, AbortRun(s, cause, lost))
<1> DEFINE u == VoidFlight(s)
           g == [s.flight EXCEPT !.phase = "aborting", !.cause = cause]
           v == [u EXCEPT !.flight = g]
           t == Abort(v, lost)
<1>1. Voids(s, u)
  BY Voided
<1> HIDE DEF u
<1>2. g \in Flight
  BY DEF Flight
<1>3. u.flight = s.flight
  BY <1>1 DEF Voids, State
<1>4. AbortRun(s, cause, lost) = t
  BY <1>1, <1>3 DEF AbortRun, u, Voids, State
<1> HIDE DEF g
<1>5. v \in State
  BY <1>1, <1>2, Put, PutInFlight DEF Voids
<1>6. SameFates(s, v) /\ v.slot = s.slot /\ v.revoked = s.revoked /\ v.flight = g
      /\ v.record = VoidedRecord(s) /\ v.inbox = s.inbox /\ v.host = s.host
  BY <1>1 DEF Voids, State, SameFates, VoidedRecord
<1> HIDE DEF v
<1>7. Aborts(v, t)
  BY <1>5, Aborted
<1> HIDE DEF t
<1>8. SameFates(v, t) /\ t.slot = v.slot /\ t.revoked = v.revoked /\ t.flight = v.flight
      /\ t.record = v.record
  BY <1>5, <1>7 DEF Aborts, State, SameFates
<1>9. Cuts(s, cause, t)
  BY <1>2, <1>6, <1>7, <1>8 DEF Cuts, Aborts, SameFates, g
<1> QED
  BY <1>4, <1>9

Closes(s, t) ==
  /\ t \in State /\ SameFates(s, t) /\ t.revoked = s.revoked
  /\ t.flight = NoFlight
  /\ t.slot = IF s.slot = [epoch |-> epoch, k |-> s.flight.k] THEN NoSlot ELSE s.slot
  /\ t.record = VoidedRecord(s)
  /\ t.inbox = s.inbox /\ t.host = s.host

LEMMA Closed ==
  ASSUME NEW s \in State, s.flight \in Flight, epoch \in 1 .. Epochs
  PROVE  Closes(s, CloseFlight(s))
<1> DEFINE u == VoidFlight(s)
           v == [u EXCEPT !.flight = NoFlight]
<1> PICK k \in Keys : k = s.flight.k
  BY DEF Flight
<1> DEFINE t == Release(v, epoch, k)
<1>1. Voids(s, u)
  BY Voided
<1>2. CloseFlight(s) = t
  BY DEF CloseFlight
<1> HIDE DEF u
<1>3. v \in State
  BY <1>1, NoneFlies, Put DEF Voids
<1>4. SameFates(s, v) /\ v.slot = s.slot /\ v.revoked = s.revoked /\ v.flight = NoFlight
      /\ v.record = VoidedRecord(s) /\ v.inbox = s.inbox /\ v.host = s.host
  BY <1>1 DEF Voids, State, SameFates, VoidedRecord
<1> HIDE DEF v
<1>5. Releases(v, epoch, k, t)
  BY <1>3, Released
<1> HIDE DEF t
<1>6. SameFates(v, t) /\ t.revoked = v.revoked /\ t.flight = v.flight
      /\ t.record = v.record /\ t.inbox = v.inbox /\ t.host = v.host
  BY <1>3, <1>5 DEF Releases, State, SameFates
<1>7. Closes(s, t)
  BY <1>4, <1>5, <1>6 DEF Closes, Releases, SameFates
<1> QED
  BY <1>2, <1>7

\* What changes the record, pi, and what is on its way does not touch the fates.
LEMMA Calm ==
  ASSUME NEW s \in State, NEW t \in State, NEW p, NEW r, NEW c, NEW b \in [Keys -> 0 .. MaxCalls],
         Core(s, p, r, c), SameFates(s, t),
         \A k \in Task("handoff") : t.flight.k = k /\ ~ t.flight.recorded <=> s.flight.k = k /\ ~ s.flight.recorded,
         \A k \in Keys : Away(t, b, k) => Away(s, c, k),
         Telling(t, r, b), Flown(t, p, r, b)
  PROVE  Core(t, p, r, b)
<1>1. Types(p, r, b)
  BY DEF Core, Types
<1>2. OneOfTask(t.queue)
  BY DEF Core, SameFates
<1>3. Waiting(t, r, b)
  BY DEF Core, SameFates, Waiting
<1>4. Pumped(t, p, b)
  BY DEF Core, SameFates, Pumped
<1>5. Sending(t, r, b)
  BY DEF Core, SameFates, Sending
<1>6. Hearing(t, p, r)
  BY DEF Core, SameFates, Hearing, Task
<1>7. Logged(t, p, r, b)
  <2>1. \A e \in 1 .. Epochs : \A i \in DOMAIN s.writes[e] : s.writes[e][i].k \in Keys
    BY Writes
  <2>2. ASSUME NEW e \in 1 .. Epochs, NEW i \in DOMAIN s.writes[e]
        PROVE  Entry(t, p, r, b, e, s.writes[e][i])
    <3>1. Entry(s, p, r, c, e, s.writes[e][i])
      BY DEF Core, Logged
    <3> QED
      BY <2>1, <3>1 DEF Entry, SameFates
  <2> QED
    BY <2>2 DEF Core, Logged, SameFates
<1> QED
  BY <1>1, <1>2, <1>3, <1>4, <1>5, <1>6, <1>7 DEF Core

\* A flight that is cut has been recorded, or has not called the model, or ran too long.
LEMMA CutKeeps ==
  ASSUME NEW s \in State, NEW p, NEW r, NEW c, Core(s, p, r, c), s.flight # NoFlight,
         NEW t, NEW cause, Cuts(s, cause, t),
         s.flight.called => s.flight.recorded \/ cause = "max"
  PROVE  Core(t, p, r, c)
<1>1. s.flight \in Flight
  BY InFlight
<1>2. t \in State /\ SameFates(s, t)
  BY DEF Cuts
<1>3. /\ t.flight.k = s.flight.k /\ t.flight.recorded = s.flight.recorded
      /\ t.flight.stuck = s.flight.stuck /\ t.flight.called = s.flight.called
      /\ t.flight.phase = "aborting" /\ t.flight.cause = cause
  BY <1>1 DEF Cuts, Flight
<1>4. \A k \in Keys : Away(t, c, k) => Away(s, c, k)
  BY <1>3 DEF Away, Cuts
<1>5. Telling(t, r, c)
  BY <1>2 DEF Telling, Core, SameFates
<1>6. Flown(t, p, r, c)
  BY <1>2, <1>3 DEF Flown, Core, SameFates
<1>7. c \in [Keys -> 0 .. MaxCalls]
  BY DEF Core, Types
<1> QED
  BY <1>2, <1>3, <1>4, <1>5, <1>6, <1>7, Calm


LEMMA ClosedKeeps ==
  ASSUME NEW s \in State, NEW p, NEW r, NEW c, Core(s, p, r, c), s.flight # NoFlight,
         s.flight.recorded, NEW t, Closes(s, t)
  PROVE  Core(t, p, r, c)
<1>1. t \in State /\ SameFates(s, t) /\ t.flight = NoFlight /\ t.inbox = s.inbox /\ t.host = s.host
  BY DEF Closes
<1>2. s.flight.k # "none" /\ s.flight.k \in Keys
  BY InFlight, Names
<1>3. \A k \in Task("handoff") : t.flight.k = k /\ ~ t.flight.recorded <=> s.flight.k = k /\ ~ s.flight.recorded
  BY <1>1, NoneFlies, Names DEF Task
<1>4. \A k \in Keys : Away(t, c, k) => Away(s, c, k)
  BY <1>1, NoneFlies, Names DEF Away
<1>5. Telling(t, r, c)
  BY <1>1 DEF Telling, Core, SameFates
<1>6. Flown(t, p, r, c)
  BY <1>1 DEF Flown, Core, SameFates
<1>7. c \in [Keys -> 0 .. MaxCalls]
  BY DEF Core, Types
<1> QED
  BY <1>1, <1>3, <1>4, <1>5, <1>6, <1>7, Calm

\* The flight of s is closed, in z, before its end is recorded.
Finishes(s, z, t) ==
  /\ t \in State
  /\ t.shut = z.shut /\ t.queue = z.queue /\ t.flight = z.flight /\ t.slot = z.slot
  /\ t.record = z.record /\ t.host = z.host /\ t.inbox = z.inbox
  /\ t.revoked = z.revoked /\ t.arrived = z.arrived /\ t.ended = z.ended
  /\ \A k \in Keys : s.said[k] # "none" \/ k # s.flight.k => t.said[k] = s.said[k]

LEMMA Finished ==
  ASSUME NEW s \in State, NEW p, NEW r, NEW c, Core(s, p, r, c), s.flight # NoFlight,
         NEW o \in Outcome, o = "dropped" /\ ~ s.flight.recorded => c[s.flight.k] = 0,
         NEW z \in State, SameFates(s, z), z.flight = NoFlight,
         \A k \in Keys : Away(z, c, k) => Away(s, c, k)
  PROVE  LET t == RecordOf(z, s.flight, o) IN
         Core(t, p, r, c) /\ Finishes(s, z, t)
<1> PICK k \in Keys : k = s.flight.k
  BY InFlight
<1> PICK f \in Flight : f = s.flight
  BY InFlight
<1> DEFINE t == RecordOf(z, f, o)
           u == RecordOf(s, f, o)
           x == Conclude(z, epoch, k, o)
           v == Conclude(s, epoch, k, o)
<1>1. c \in [Keys -> 0 .. MaxCalls] /\ epoch \in 1 .. Epochs
  BY DEF Core, Types
<1>2. f.k = k /\ k # "none" /\ z.flight.k = "none" /\ f.recorded \in BOOLEAN
  BY Names, NoneFlies, InFlight DEF Flight
<1>3. CASE f.recorded
  <2>1. t = z
    BY <1>3 DEF RecordOf
  <2>2. \A j \in Task("handoff") : z.flight.k = j /\ ~ z.flight.recorded <=> s.flight.k = j /\ ~ s.flight.recorded
    BY <1>2, <1>3, Names DEF Task
  <2>3. Telling(z, r, c)
    BY DEF Telling, Core, SameFates
  <2>4. Flown(z, p, r, c)
    BY DEF Flown, Core, SameFates
  <2>5. Core(z, p, r, c)
    BY <1>1, <2>2, <2>3, <2>4, Calm
  <2> QED
    BY <2>1, <2>5 DEF SameFates, Finishes
<1>4. CASE ~ f.recorded
  <2>1. Concludes(z, epoch, k, o, x) /\ Concludes(s, epoch, k, o, v)
    BY <1>1, Concluded
  <2>2. x.flight = NoFlight /\ v.flight = f
    <3>1. "flight" \in DOMAIN z /\ "flight" \in DOMAIN s
      BY DEF State
    <3> HIDE DEF x, v
    <3>2. /\ x = [z EXCEPT !.said = x.said, !.heard = x.heard, !.writes = x.writes]
          /\ v = [s EXCEPT !.said = v.said, !.heard = v.heard, !.writes = v.writes]
      BY <2>1 DEF Concludes
    <3>3. x.flight = z.flight
      BY <3>1, <3>2
    <3>4. v.flight = s.flight
      BY <3>1, <3>2
    <3> QED
      BY <3>3, <3>4
  <2>3. t = x /\ u = [v EXCEPT !.flight.recorded = TRUE]
    BY <1>2, <1>4, <2>2 DEF RecordOf
  <2> HIDE DEF x, v, u
  <2>4. v.said = x.said /\ v.heard = x.heard /\ v.writes = x.writes
    BY <2>1 DEF Concludes, SameFates
  <2>5. u.said = x.said /\ u.heard = x.heard /\ u.writes = x.writes
    BY <2>1, <2>3, <2>4 DEF Concludes, State
  <2>6. Core(u, p, r, c) /\ Marks(s, o, u)
    BY Marked DEF u
  <2> HIDE DEF t
  <2>7. x \in State
        /\ x = [z EXCEPT !.said = x.said, !.heard = x.heard, !.writes = x.writes]
    BY <2>1 DEF Concludes
  <2>8. /\ x.shut = z.shut /\ x.queue = z.queue /\ x.arrived = z.arrived /\ x.ended = z.ended
        /\ x.host = z.host /\ x.inbox = z.inbox /\ x.flight = z.flight /\ x.slot = z.slot
        /\ x.record = z.record /\ x.revoked = z.revoked
    BY <2>7 DEF State
  <2>9. /\ u.shut = s.shut /\ u.queue = s.queue /\ u.arrived = s.arrived /\ u.ended = s.ended
        /\ u.host = s.host /\ u.inbox = s.inbox /\ u.flight.k = s.flight.k /\ u.flight.recorded
    BY <2>6 DEF Marks
  <2>10. SameFates(u, x)
    BY <2>5, <2>8, <2>9 DEF SameFates
  <2>11. \A j \in Keys : Away(x, c, j) => Away(u, c, j)
    BY <2>2, <2>8, <2>9 DEF Away
  <2>12. \A j \in Task("handoff") : x.flight.k = j /\ ~ x.flight.recorded <=> u.flight.k = j /\ ~ u.flight.recorded
    BY <2>2, <2>9, NoneFlies, Names DEF Task
  <2>13. Telling(x, r, c)
    BY <2>6, <2>10 DEF Telling, Core, SameFates
  <2>14. Flown(x, p, r, c)
    BY <2>2, <2>6, <2>10 DEF Flown, Core, SameFates
  <2>15. u \in State
    BY <2>6 DEF Core
  <2>16. Core(x, p, r, c)
    BY <1>1, <2>6, <2>7, <2>10, <2>11, <2>12, <2>13, <2>14, <2>15, Calm
  <2> QED
    BY <2>3, <2>5, <2>6, <2>7, <2>8, <2>16 DEF t, Marks, Finishes
<1> QED
  BY <1>2, <1>3, <1>4

-------------------------------------------------------------------------------
(* The record *)

Remembers(s, t) == \A k \in Keys : s.said[k] # "none" => t.said[k] = s.said[k]

LEMMA RecordedIsHeld ==
  ASSUME NEW s, Recorded(s)
  PROVE  Held(s)
  BY DEF Recorded, Held, Watched, Mine

LEMMA VoidIsRecorded ==
  ASSUME NEW s, Void(s)
  PROVE  Recorded(s) /\ Held(s)
  BY DEF Recorded, Void, Held

LEMMA HandedStays ==
  ASSUME NEW s \in State, NEW t, Remembers(s, t), Handed(s), s.record.k # "none",
         t.record.k = s.record.k, t.record.handed = s.record.handed
  PROVE  Handed(t)
<1>1. s.record.k \in Keys
  BY Fields DEF Records
<1> QED
  BY <1>1 DEF Handed, Remembers

LEMMA VoidedKeeps ==
  ASSUME NEW s \in State
  PROVE  /\ VoidedRecord(s) \in Records
         /\ VoidedRecord(s).k = s.record.k /\ VoidedRecord(s).handed = s.record.handed
         /\ VoidedRecord(s).epoch = s.record.epoch
         /\ VoidedRecord(s).voided <=> s.record.voided \/ Mine(s)
  BY Fields DEF VoidedRecord, Records

LEMMA NowVoid ==
  ASSUME NEW s \in State, Held(s), NEW t, t.record = VoidedRecord(s), Remembers(s, t)
  PROVE  Void(t)
<1>1. t.record.k = s.record.k /\ t.record.handed = s.record.handed
      /\ (t.record.voided <=> s.record.voided \/ Mine(s))
  BY VoidedKeeps
<1> QED
  BY <1>1, HandedStays DEF Held, Void

LEMMA StaysHeld ==
  ASSUME NEW s \in State, NEW t, t.record = s.record, Remembers(s, t)
  PROVE  /\ Held(s) /\ t.flight.k = s.flight.k => Held(t)
         /\ Void(s) => Void(t)
<1>1. Mine(s) /\ t.flight.k = s.flight.k => Mine(t)
  BY DEF Mine
<1> QED
  BY <1>1, HandedStays DEF Held, Void

-------------------------------------------------------------------------------
(* The deadlines *)

LEMMA SlotKept ==
  ASSUME NEW s, NEW p, Slotted(s, p), NEW t, t.shut = s.shut, t.slot = s.slot,
         t.flight.k = s.flight.k, t.flight # NoFlight => s.flight # NoFlight
  PROVE  Slotted(t, p)
  BY DEF Slotted

LEMMA SlotGiven ==
  ASSUME NEW s \in State, NEW p, NEW r, NEW c, Core(s, p, r, c), Slotted(s, p), s.flight # NoFlight,
         NEW t, t.flight = NoFlight, t.shut = s.shut,
         t.slot = IF s.slot = [epoch |-> epoch, k |-> s.flight.k] THEN NoSlot ELSE s.slot
  PROVE  Slotted(t, p)
<1>1. p[epoch].k = "none"
  BY InFlight
<1>2. NoSlot.epoch = 0 /\ epoch \in Nat /\ epoch # 0
  BY DispatchAssumption DEF NoSlot, Core, Types
<1> QED
  BY <1>1, <1>2 DEF Slotted

\* What a handler does before its own business, apart from the flight, the queue and the slot.
Handled(s, t) ==
  /\ t.host.by = s.host.by /\ t.host.entered = s.host.entered
  /\ t.inbox \subseteq s.inbox
  /\ t.record.k = s.record.k
  /\ s.record = NoRecord => t.record = NoRecord
  /\ t.arrived = s.arrived /\ t.revoked = s.revoked
  /\ Remembers(s, t)

Enforces(s, t) ==
  /\ Handled(s, t)
  /\ t.shut = s.shut /\ t.queue = s.queue /\ t.ended = s.ended
  /\ t.flight = s.flight \/ t.flight.phase \in {"none", "aborting"}
  /\ \A k \in Keys : t.said[k] = s.said[k] \/ (s.said[k] = "none" /\ t.said[k] = "unknown")

LEMMA NoneIsVoided ==
  ASSUME NEW s \in State, s.flight # NoFlight, s.record = NoRecord
  PROVE  VoidedRecord(s) = NoRecord
<1>1. s.flight.k # "none" /\ s.record.k = "none"
  BY Fields, NoneFlies, Names DEF NoRecord
<1> QED
  BY <1>1 DEF VoidedRecord, Mine

\* The run of the flight is cut.
LEMMA CutIsGood ==
  ASSUME NEW s \in State, NEW p, NEW r, NEW c, Core(s, p, r, c), Held(s), Slotted(s, p),
         s.flight # NoFlight, NEW lost \in BOOLEAN, NEW cause \in {"none", "start", "max", "fenced"},
         s.flight.called => s.flight.recorded \/ cause = "max"
  PROVE  LET t == AbortRun(s, cause, lost) IN
         Core(t, p, r, c) /\ Void(t) /\ Open(t) /\ Slotted(t, p) /\ Enforces(s, t)
<1> DEFINE t == AbortRun(s, cause, lost)
<1>1. s.flight \in Flight
  BY InFlight
<1>2. Cuts(s, cause, t)
  BY <1>1, Cut
<1> HIDE DEF t
<1>3. Core(t, p, r, c)
  BY <1>2, CutKeeps
<1>4. t.flight.phase = "aborting" /\ t.flight.k = s.flight.k
  BY <1>1, <1>2 DEF Cuts, Flight
<1>5. Void(t)
  BY <1>2, NowVoid DEF Cuts, SameFates, Remembers
<1>6. Slotted(t, p)
  BY <1>2, <1>4, SlotKept DEF Cuts, SameFates
<1>7. Enforces(s, t)
  BY <1>2, <1>4, VoidedKeeps, NoneIsVoided DEF Cuts, SameFates, Enforces, Handled, Remembers
<1> QED
  BY <1>3, <1>4, <1>5, <1>6, <1>7 DEF t, Open

\* The flight, whose end is recorded, is closed.
LEMMA CloseIsGood ==
  ASSUME NEW s \in State, NEW p, NEW r, NEW c, Core(s, p, r, c), Held(s), Slotted(s, p),
         s.flight # NoFlight, s.flight.recorded
  PROVE  LET t == CloseFlight(s) IN
         Core(t, p, r, c) /\ Void(t) /\ Open(t) /\ Slotted(t, p) /\ Enforces(s, t)
<1> DEFINE t == CloseFlight(s)
<1>1. s.flight \in Flight /\ epoch \in 1 .. Epochs
  BY InFlight DEF Core, Types
<1>2. Closes(s, t)
  BY <1>1, Closed
<1> HIDE DEF t
<1>3. Core(t, p, r, c)
  BY <1>2, ClosedKeeps
<1>4. Void(t)
  BY <1>2, NowVoid DEF Closes, SameFates, Remembers
<1>5. Slotted(t, p)
  BY <1>2, SlotGiven DEF Closes, SameFates
<1>6. Enforces(s, t) /\ Open(t)
  BY <1>2, VoidedKeeps, NoneIsVoided, NoneFlies DEF Closes, SameFates, Enforces, Handled, Remembers, Open
<1> QED
  BY <1>3, <1>4, <1>5, <1>6 DEF t

\* The end of the flight is recorded, and the flight is not closed yet.
LEMMA MarkIsGood ==
  ASSUME NEW s \in State, NEW p, NEW r, NEW c, Core(s, p, r, c), Held(s), Slotted(s, p),
         s.flight # NoFlight, NEW o \in Outcome, o = "dropped" /\ ~ s.flight.recorded => c[s.flight.k] = 0
  PROVE  LET t == RecordOf(s, s.flight, o) IN
         Core(t, p, r, c) /\ Marks(s, o, t) /\ Held(t) /\ Slotted(t, p)
<1> DEFINE t == RecordOf(s, s.flight, o)
<1>1. Core(t, p, r, c) /\ Marks(s, o, t)
  BY Marked
<1> HIDE DEF t
<1>2. Held(t)
  BY <1>1, StaysHeld DEF Marks, Remembers
<1>3. Slotted(t, p)
  BY <1>1, SlotKept DEF Marks
<1> QED
  BY <1>1, <1>2, <1>3 DEF t

LEMMA EnforcesOn ==
  ASSUME NEW s \in State, NEW u, NEW t, Marks(s, "unknown", u), Enforces(u, t), t.flight # u.flight,
         s.flight.recorded <=> s.said[s.flight.k] # "none"
  PROVE  Enforces(s, t)
<1>1. \A k \in Keys : u.said[k] = s.said[k] \/ (s.said[k] = "none" /\ u.said[k] = "unknown")
  BY DEF Marks
<1> QED
  BY <1>1 DEF Marks, Enforces, Handled, Remembers

LEMMA Enforced ==
  ASSUME NEW s \in State, NEW p, NEW r, NEW c, Core(s, p, r, c),
         Recorded(s), Open(s), Slotted(s, p), NEW lost \in BOOLEAN
  PROVE  LET t == EnforceDeadlines(s, lost) IN
         Core(t, p, r, c) /\ Recorded(t) /\ Open(t) /\ Slotted(t, p) /\ Enforces(s, t)
<1> DEFINE t == EnforceDeadlines(s, lost)
           f == s.flight
<1>0. Held(s)
  BY RecordedIsHeld
<1>1. CASE f.phase = "dispatched" /\ f.startDue
  <2> DEFINE u == RecordOf(s, f, "unknown")
  <2>1. t = IF f.foreign THEN CloseFlight(u) ELSE AbortRun(u, "start", lost)
    BY <1>1 DEF EnforceDeadlines, StartTimeout, Supervised
  <2>2. f # NoFlight
    BY <1>1, NoneFlies
  <2>3. "unknown" \in Outcome
    BY DEF Outcome
  <2>4. Core(u, p, r, c) /\ Marks(s, "unknown", u) /\ Held(u) /\ Slotted(u, p)
    BY <1>0, <2>2, <2>3, MarkIsGood
  <2> HIDE DEF u, t
  <2>5. u \in State /\ u.flight # NoFlight /\ u.flight.recorded /\ u.flight.phase = "dispatched"
    <3>1. f \in Flight
      BY <2>2, InFlight
    <3>2. [f EXCEPT !.recorded = TRUE].phase = "dispatched"
      BY <1>1, <3>1 DEF Flight
    <3> QED
      BY <2>4, <3>2, PutInFlight DEF Marks
  <2>6. Core(t, p, r, c) /\ Void(t) /\ Open(t) /\ Slotted(t, p) /\ Enforces(u, t)
    <3>1. CASE f.foreign
      BY <2>1, <2>4, <2>5, <3>1, CloseIsGood
    <3>2. CASE ~ f.foreign
      BY <2>1, <2>4, <2>5, <3>2, CutIsGood
    <3> QED
      BY <3>1, <3>2
  <2>7. t.flight # u.flight
    <3>1. CASE f.foreign
      <4>1. Closes(u, t)
        BY <2>1, <2>4, <2>5, <3>1, Closed DEF Marks, Core, Types
      <4> QED
        BY <2>5, <4>1 DEF Closes
    <3>2. CASE ~ f.foreign
      <4>1. Cuts(u, "start", t)
        BY <2>1, <2>4, <2>5, <3>2, Cut DEF Marks
      <4> QED
        BY <2>4, <2>5, <4>1 DEF Cuts, Marks, Flight
    <3> QED
      BY <3>1, <3>2
  <2>8. f.recorded <=> s.said[f.k] # "none"
    BY <2>2, InFlight
  <2>9. Enforces(s, t)
    BY <2>4, <2>6, <2>7, <2>8, EnforcesOn
  <2> QED
    BY <2>6, <2>9, VoidIsRecorded DEF t
<1>2. CASE Supervised(f) /\ ~ f.recorded /\ ~ f.called /\ f.startDue
  <2>1. t = AbortRun(s, "start", lost)
    BY <1>2 DEF EnforceDeadlines, Supervised
  <2>2. f # NoFlight
    BY <1>2, NoneFlies DEF Supervised
  <2> HIDE DEF t
  <2> QED
    BY <1>0, <1>2, <2>1, <2>2, CutIsGood, VoidIsRecorded DEF t
<1>3. CASE Supervised(f) /\ ~ f.recorded /\ (f.called \/ ~ f.startDue) /\ f.maxDue
  <2>1. t = AbortRun(s, "max", lost)
    BY <1>3 DEF EnforceDeadlines, Supervised
  <2>2. f # NoFlight
    BY <1>3, NoneFlies DEF Supervised
  <2> HIDE DEF t
  <2> QED
    BY <1>0, <1>3, <2>1, <2>2, CutIsGood, VoidIsRecorded DEF t
<1>4. CASE /\ ~ (f.phase = "dispatched" /\ f.startDue)
           /\ ~ (Supervised(f) /\ ~ f.recorded /\ ~ f.called /\ f.startDue)
           /\ ~ (Supervised(f) /\ ~ f.recorded /\ (f.called \/ ~ f.startDue) /\ f.maxDue)
  <2>1. t = s
    BY <1>4 DEF EnforceDeadlines
  <2> HIDE DEF t
  <2> QED
    BY <2>1 DEF Enforces, Handled, Remembers, t
<1> QED
  BY <1>1, <1>2, <1>3, <1>4

LEMMA StaysHosted ==
  ASSUME NEW s, NEW t, Hosted(s), Handled(s, t)
  PROVE  Hosted(t)
  BY DEF Hosted, Handled

\* The flight is closed, and then its end is recorded.
LEMMA EndIsGood ==
  ASSUME NEW s \in State, NEW p, NEW r, NEW c, Core(s, p, r, c), Held(s), Slotted(s, p),
         s.flight # NoFlight, NEW o \in Outcome, o = "dropped" /\ ~ s.flight.recorded => c[s.flight.k] = 0
  PROVE  LET t == RecordOf(CloseFlight(s), s.flight, o) IN
         /\ Core(t, p, r, c) /\ Void(t) /\ Open(t) /\ Slotted(t, p)
         /\ t.flight = NoFlight /\ t.shut = s.shut /\ t.queue = s.queue
         /\ t.host = s.host /\ t.inbox = s.inbox
         /\ Handled(s, t)
<1> DEFINE z == CloseFlight(s)
           t == RecordOf(z, s.flight, o)
<1>1. s.flight \in Flight /\ epoch \in 1 .. Epochs
  BY InFlight DEF Core, Types
<1>2. Closes(s, z)
  BY <1>1, Closed
<1> HIDE DEF z
<1>3. z \in State /\ SameFates(s, z) /\ z.flight = NoFlight
      /\ z.inbox = s.inbox /\ z.host = s.host /\ z.record = VoidedRecord(s)
  BY <1>2 DEF Closes
<1>4. \A k \in Keys : Away(z, c, k) => Away(s, c, k)
  BY <1>3, NoneFlies, Names DEF Away
<1>5. Core(t, p, r, c) /\ Finishes(s, z, t)
  BY <1>3, <1>4, Finished
<1> HIDE DEF t
<1>6. /\ t.flight = NoFlight /\ t.shut = z.shut /\ t.queue = z.queue
      /\ t.host = z.host /\ t.inbox = z.inbox /\ t.slot = z.slot /\ t.record = z.record
      /\ t.arrived = z.arrived /\ t.revoked = z.revoked
  BY <1>3, <1>5 DEF Finishes
<1>7. Remembers(s, t)
  BY <1>5 DEF Remembers, Finishes
<1>8. Void(t)
  BY <1>3, <1>6, <1>7, NowVoid
<1>9. Slotted(t, p)
  BY <1>2, <1>3, <1>6, SlotGiven DEF Closes, SameFates
<1>10. Handled(s, t)
  BY <1>2, <1>3, <1>6, <1>7, VoidedKeeps, NoneIsVoided DEF Closes, SameFates, Handled
<1> QED
  BY <1>3, <1>5, <1>6, <1>8, <1>9, <1>10, NoneFlies DEF t, z, Open, SameFates

\* finalizeAtSettle: what is told as dropped never called the model.
LEMMA FinalIsGood ==
  ASSUME NEW s \in State, NEW p, NEW r, NEW c, Core(s, p, r, c), Held(s), Slotted(s, p),
         s.flight # NoFlight
  PROVE  LET t == FinalizeAtSettle(s) IN
         /\ Core(t, p, r, c) /\ Void(t) /\ Open(t) /\ Slotted(t, p)
         /\ t.host = s.host /\ t.inbox = s.inbox
         /\ Handled(s, t)
<1> DEFINE f == s.flight
           end == IF f.phase = "bound" \/ f.cause = "max" THEN "settled"
                  ELSE IF f.saw THEN "unknown" ELSE "dropped"
<1>1. end \in Outcome
  BY DEF Outcome
<1>2. end = "dropped" /\ ~ f.recorded => c[f.k] = 0
  <2>1. /\ f.called => f.phase \in {"bound", "aborting"}
        /\ f.called /\ f.phase = "aborting" => f.recorded \/ f.cause = "max"
        /\ f.called \/ f.recorded \/ c[f.k] = 0
    BY DEF Core, Flown
  <2> QED
    BY <2>1
<1>3. FinalizeAtSettle(s) = RecordOf(CloseFlight(s), f, end)
  BY DEF FinalizeAtSettle
<1> HIDE DEF end
<1> QED
  BY <1>1, <1>2, <1>3, EndIsGood

-------------------------------------------------------------------------------
(* The scheduler is shut down *)

\* The queue is given up, and a message in flight is left to closeEpoch.
GivesUp(e, H) == [EndHandoffs(e, H) EXCEPT !.shut = TRUE, !.flight = NoFlight, !.queue = <<>>]

LEMMA Emptied ==
  ASSUME NEW e \in State, NEW p, NEW r, NEW c, Core(e, p, r, c),
         e.flight = NoFlight \/ Kind(e.flight.k) = "message",
         NEW H, H = {k \in Keys : Kind(k) = "handoff" /\ Contains(e.queue, k)}
  PROVE  LET t == GivesUp(e, H) IN
         /\ Core(t, p, r, c) /\ Remembers(e, t)
         /\ t.shut /\ t.flight = NoFlight /\ t.queue = <<>>
         /\ t.slot = e.slot /\ t.record = e.record /\ t.host = e.host /\ t.inbox = e.inbox
         /\ t.arrived = e.arrived /\ t.revoked = e.revoked
<1> DEFINE v == EndHandoffs(e, H)
           t == [v EXCEPT !.shut = TRUE, !.flight = NoFlight, !.queue = <<>>]
<1>1. Ends(e, H, v)
  BY Ended
<1> HIDE DEF v
<1>2. t \in State
  <2> DEFINE a == [v EXCEPT !.shut = TRUE]
             b == [a EXCEPT !.flight = NoFlight]
  <2>1. a \in State
    BY <1>1, Put DEF Ends
  <2> HIDE DEF a
  <2>2. b \in State
    BY <2>1, NoneFlies, Put
  <2>3. t = [b EXCEPT !.queue = <<>>]
    BY <1>1 DEF Ends, State, a
  <2> HIDE DEF b, t
  <2>4. <<>> \in Seq(Keys)
    OBVIOUS
  <2> QED
    BY <2>2, <2>3, <2>4, Put, Zenon
<1>3. /\ t.shut /\ t.flight = NoFlight /\ t.queue = <<>>
      /\ t.slot = e.slot /\ t.record = e.record /\ t.host = e.host /\ t.inbox = e.inbox
      /\ t.arrived = e.arrived /\ t.revoked = e.revoked /\ t.writes = e.writes
      /\ t.ended = e.ended \cup H
  BY <1>1 DEF Ends, State
<1>4. \A k \in Keys : t.heard[k] = v.heard[k] /\ t.said[k] = v.said[k]
  BY <1>1 DEF Ends, State
<1> HIDE DEF t
<1>5. \A k \in Keys : /\ k \in H => /\ Kind(k) = "handoff" /\ k \in e.arrived /\ k \notin e.ended
                                    /\ ~ Away(e, c, k) /\ e.said[k] = "none" /\ r.owner[k] = epoch
                      /\ Contains(e.queue, k) <=> k \in H \/ (Contains(e.queue, k) /\ Kind(k) # "handoff")
  BY DEF Core, Waiting
<1>6. \A k \in Keys :
        /\ t.heard[k] = IF k \in H THEN e.heard[k] + 1 ELSE e.heard[k]
        /\ t.said[k] = IF k \in H THEN "dropped" ELSE e.said[k]
  BY <1>1, <1>4, <1>5 DEF Ends
<1>7. \A k \in Keys : ~ Contains(t.queue, k)
  BY <1>3 DEF Contains
<1>8. \A k \in Keys : Away(t, c, k) => Away(e, c, k)
  BY <1>3, NoneFlies, Names DEF Away
<1>9. Remembers(e, t) /\ Stable(e, t, c)
  BY <1>5, <1>6, <1>8 DEF Remembers, Stable
<1>10. epoch # 0 /\ c \in [Keys -> 0 .. MaxCalls]
  BY DEF Core, Types
<1>11. OneOfTask(t.queue)
  BY <1>3 DEF OneOfTask
<1>12. Waiting(t, r, c)
  BY <1>7 DEF Waiting
<1>13. Pumped(t, p, c)
  BY <1>3, <1>5, <1>6, <1>7, <1>8 DEF Core, Pumped
<1>14. Sending(t, r, c)
  BY <1>3, <1>5, <1>6, <1>8 DEF Core, Sending
<1>15. Hearing(t, p, r)
  <2> SUFFICES ASSUME NEW k \in Keys
               PROVE  /\ k \in t.ended => k \in t.arrived
                      /\ k \in t.arrived =>
                           /\ Kind(k) = "handoff"
                           /\ t.heard[k] = IF Contains(t.queue, k) \/ (t.flight.k = k /\ ~ t.flight.recorded)
                                           THEN 0 ELSE 1
                      /\ Kind(k) = "handoff" /\ k \notin t.arrived => t.heard[k] = 0 /\ t.said[k] = "none"
                      /\ r.owner[k] = 0 => t.said[k] = "none" /\ k \notin t.arrived /\ ~ AtPump(p, k)
    BY DEF Hearing
  <2>1. t.flight.k # k
    BY <1>3, NoneFlies, Names
  <2>2. k \in e.arrived /\ k \notin H => ~ Contains(e.queue, k) /\ e.flight.k # k
    <3>1. k \in e.arrived => Kind(k) = "handoff"
      BY DEF Core, Hearing
    <3> QED
      BY <1>5, <3>1, NoneFlies, Names
  <2>3. k \in H => e.heard[k] = 0
    BY <1>5, Fields DEF Core, Hearing
  <2> QED
    BY <1>3, <1>5, <1>6, <1>7, <1>10, <2>1, <2>2, <2>3 DEF Core, Hearing
<1>16. Telling(t, r, c)
  <2>1. \A k \in H : k \in Keys => c[k] = 0
    BY <1>5, <1>10 DEF Away
  <2> QED
    BY <1>6, <2>1 DEF Core, Telling
<1>17. Logged(t, p, r, c)
  BY <1>3, <1>9, SameLog DEF Core
<1>18. Flown(t, p, r, c)
  BY <1>3 DEF Flown
<1>19. Core(t, p, r, c)
  BY <1>2, <1>11, <1>12, <1>13, <1>14, <1>15, <1>16, <1>17, <1>18 DEF Core
<1> QED
  BY <1>3, <1>9, <1>19 DEF t, v, GivesUp

\* What a shutdown does before it turns to the ledger and the queue.
Halts(s, z) ==
  /\ z \in State /\ SameFates(s, z) /\ z.revoked = s.revoked /\ z.flight = s.flight
  /\ z.record = IF Supervised(s.flight) THEN VoidedRecord(s) ELSE s.record
  /\ z.slot \in {s.slot, NoSlot}
  /\ z.inbox \subseteq s.inbox
  /\ z.host.by = s.host.by /\ z.host.entered = s.host.entered

LEMMA Halted ==
  ASSUME NEW s \in State, s.flight = NoFlight \/ s.flight \in Flight, epoch \in 1 .. Epochs,
         NEW lost \in BOOLEAN
  PROVE  LET f == s.flight
             preparing == f.phase = "dispatched" /\ ~ f.foreign /\ ~ f.recorded
             a == IF Supervised(f) THEN VoidFlight(s) ELSE s
             b == IF f.phase # "none" THEN Release(a, epoch, f.k) ELSE a
         IN  Halts(s, IF Supervised(f) \/ preparing THEN Abort(b, lost) ELSE b)
<1> DEFINE f == s.flight
           preparing == f.phase = "dispatched" /\ ~ f.foreign /\ ~ f.recorded
           a == IF Supervised(f) THEN VoidFlight(s) ELSE s
           b == IF f.phase # "none" THEN Release(a, epoch, f.k) ELSE a
           z == IF Supervised(f) \/ preparing THEN Abort(b, lost) ELSE b
<1>1. Halts(s, a)
  <2>1. CASE ~ Supervised(f)
    BY <2>1 DEF Halts, SameFates
  <2>2. CASE Supervised(f)
    <3>1. Voids(s, a)
      BY <2>2, Voided
    <3> HIDE DEF a
    <3> QED
      BY <2>2, <3>1 DEF Halts, SameFates, Voids, VoidedRecord, State
  <2> QED
    BY <2>1, <2>2
<1> HIDE DEF a
<1>2. Halts(s, b)
  <2>1. CASE f.phase = "none"
    BY <1>1, <2>1
  <2>2. CASE f.phase # "none"
    <3> PICK k \in Keys : k = f.k
      BY <2>2, NoneFlies DEF Flight
    <3>0. b = Release(a, epoch, k)
      BY <2>2
    <3>1. Releases(a, epoch, k, b)
      BY <1>1, <3>0, Released DEF Halts
    <3> HIDE DEF b
    <3>2. SameFates(a, b) /\ b.revoked = a.revoked /\ b.flight = a.flight /\ b.record = a.record
          /\ b.inbox = a.inbox /\ b.host = a.host /\ b.slot \in {a.slot, NoSlot} /\ b \in State
      BY <1>1, <3>1 DEF Releases, Halts, State, SameFates
    <3> QED
      BY <1>1, <3>2 DEF Halts, SameFates
  <2> QED
    BY <2>1, <2>2
<1> HIDE DEF b
<1>3. Halts(s, z)
  <2>1. CASE ~ (Supervised(f) \/ preparing)
    BY <1>2, <2>1
  <2>2. CASE Supervised(f) \/ preparing
    <3>0. z = Abort(b, lost)
      BY <2>2
    <3>1. Aborts(b, z)
      BY <1>2, <3>0, Aborted DEF Halts
    <3> HIDE DEF z
    <3>2. SameFates(b, z) /\ z.revoked = b.revoked /\ z.flight = b.flight /\ z.record = b.record
          /\ z.slot = b.slot /\ z \in State
      BY <1>2, <3>1 DEF Aborts, Halts, State, SameFates
    <3> QED
      BY <1>2, <3>1, <3>2 DEF Halts, SameFates, Aborts
  <2> QED
    BY <2>1, <2>2
<1> QED
  BY <1>3 DEF a, b

\* shutdown: afterwards there is no flight, and no record that is not void.
Shuts(s, t) ==
  /\ t.shut /\ t.flight = NoFlight /\ t.queue = <<>>
  /\ t.slot \in {s.slot, NoSlot}
  /\ Handled(s, t)

LEMMA ShutIsGood ==
  ASSUME NEW s \in State, NEW p, NEW r, NEW c, Core(s, p, r, c), Recorded(s), NEW lost \in BOOLEAN
  PROVE  LET t == Shutdown(s, lost) IN
         Core(t, p, r, c) /\ Recorded(t) /\ Open(t) /\ Shuts(s, t)
<1> DEFINE f == s.flight
           preparing == f.phase = "dispatched" /\ ~ f.foreign /\ ~ f.recorded
           a == IF Supervised(f) THEN VoidFlight(s) ELSE s
           b == IF f.phase # "none" THEN Release(a, epoch, f.k) ELSE a
           z == IF Supervised(f) \/ preparing THEN Abort(b, lost) ELSE b
           y == [z EXCEPT !.flight = NoFlight]
           e == IF f.phase # "none" /\ Kind(f.k) = "handoff" THEN RecordOf(y, f, "unknown") ELSE z
           H == {k \in Keys : Kind(k) = "handoff" /\ Contains(s.queue, k)}
           t == GivesUp(e, H)
<1>1. Shutdown(s, lost) = t
  BY DEF Shutdown, GivesUp
<1>2. epoch \in 1 .. Epochs /\ c \in [Keys -> 0 .. MaxCalls]
  BY DEF Core, Types
<1>3. Halts(s, z)
  BY <1>2, Halted, Fields, NoneFlies
<1> HIDE DEF z, preparing, a, b
<1>4. Core(z, p, r, c)
  <2>1. z \in State /\ SameFates(s, z) /\ z.flight = s.flight
    BY <1>3 DEF Halts
  <2>2. \A k \in Keys : Away(z, c, k) => Away(s, c, k)
    BY <1>3 DEF Halts, Away
  <2>3. Telling(z, r, c) /\ Flown(z, p, r, c)
    <3>1. Flown(s, p, r, c) /\ Telling(s, r, c)
      BY DEF Core
    <3>2. Telling(z, r, c)
      BY <2>1, <3>1 DEF Telling, SameFates
    <3>3. z.flight.phase = "authorized" => ~ (z.host.by = z.flight.k /\ z.host.entered)
          \/ z.flight = NoFlight
      BY <1>3, <2>1, <3>1 DEF Halts, Flown
    <3>4. Flown(z, p, r, c)
      BY <1>3, <2>1, <3>1, <3>3, NoneFlies DEF SameFates, Flown, Halts
    <3> QED
      BY <3>2, <3>4
  <2> QED
    BY <1>2, <2>1, <2>2, <2>3, Calm
<1>5. Void(z)
  <2>1. Remembers(s, z)
    BY <1>3 DEF Halts, SameFates, Remembers
  <2>2. CASE Supervised(f)
    BY <1>3, <2>1, <2>2, RecordedIsHeld, NowVoid DEF Halts
  <2>3. CASE ~ Supervised(f)
    <3>1. Void(s)
      BY <2>3 DEF Recorded, Watched, Void
    <3> QED
      BY <1>3, <2>1, <2>3, <3>1, StaysHeld DEF Halts
  <2> QED
    BY <2>2, <2>3
<1>6. z \in State /\ Handled(s, z) /\ z.queue = s.queue /\ z.slot \in {s.slot, NoSlot} /\ z.flight = f
  <2>1. s.record = NoRecord => z.record = NoRecord
    <3>1. s.flight = NoFlight => ~ Supervised(f)
      BY NoneFlies DEF Supervised
    <3> QED
      BY <1>3, <3>1, NoneIsVoided DEF Halts
  <2>2. z.record.k = s.record.k
    BY <1>3, VoidedKeeps DEF Halts
  <2> QED
    BY <1>3, <2>1, <2>2 DEF Halts, SameFates, Handled, Remembers
<1>7. /\ Core(e, p, r, c) /\ Void(e) /\ Handled(s, e) /\ e.queue = s.queue
      /\ e.slot \in {s.slot, NoSlot}
      /\ e.flight = NoFlight \/ Kind(e.flight.k) = "message"
  <2>1. CASE ~ (f.phase # "none" /\ Kind(f.k) = "handoff")
    <3>1. e = z
      BY <2>1
    <3>2. f = NoFlight \/ (f.phase # "none" /\ f.k \in Keys)
      BY Fields, NoneFlies
    <3>3. f = NoFlight \/ Kind(f.k) = "message"
      BY <2>1, <3>2, Kinds DEF Core
    <3> HIDE DEF e
    <3> QED
      BY <1>4, <1>5, <1>6, <3>1, <3>3
  <2>2. CASE f.phase # "none" /\ Kind(f.k) = "handoff"
    <3>1. e = RecordOf(y, f, "unknown") /\ f # NoFlight
      BY <2>2, NoneFlies
    <3> HIDE DEF e
    <3>2. y \in State
      BY <1>6, NoneFlies, Put
    <3>3. SameFates(s, y) /\ y.flight = NoFlight /\ y.inbox = z.inbox /\ y.host = z.host
          /\ y.slot = z.slot /\ y.record = z.record /\ y.revoked = z.revoked
      BY <1>3 DEF SameFates, Halts, State
    <3> HIDE DEF y
    <3>4. \A k \in Keys : Away(y, c, k) => Away(s, c, k)
      BY <1>3, <3>3, NoneFlies, Names DEF Away, Halts
    <3>5. "unknown" \in Outcome
      BY DEF Outcome
    <3>6. Core(e, p, r, c) /\ Finishes(s, y, e)
      BY <3>1, <3>2, <3>3, <3>4, <3>5, Finished
    <3>7. Remembers(z, e) /\ Remembers(s, e)
      BY <1>3, <3>6 DEF Finishes, Remembers, Halts, SameFates
    <3>8. Void(e)
      BY <1>5, <1>6, <3>3, <3>6, <3>7, StaysHeld DEF Finishes
    <3>9. Handled(s, e)
      BY <1>6, <3>3, <3>6, <3>7 DEF Finishes, Handled, SameFates
    <3> QED
      BY <1>6, <3>3, <3>6, <3>8, <3>9 DEF Finishes, SameFates
  <2> QED
    BY <2>1, <2>2
<1> HIDE DEF e, t
<1>8. e \in State /\ H = {k \in Keys : Kind(k) = "handoff" /\ Contains(e.queue, k)}
  BY <1>7 DEF Core
<1> HIDE DEF H
<1>9. /\ Core(t, p, r, c) /\ Remembers(e, t)
      /\ t.shut /\ t.flight = NoFlight /\ t.queue = <<>>
      /\ t.slot = e.slot /\ t.record = e.record /\ t.host = e.host /\ t.inbox = e.inbox
      /\ t.arrived = e.arrived /\ t.revoked = e.revoked
  BY <1>7, <1>8, Emptied DEF t
<1>10. Void(t)
  BY <1>7, <1>8, <1>9, StaysHeld
<1>11. Remembers(s, t)
  BY <1>7, <1>9 DEF Handled, Remembers
<1>12. Shuts(s, t)
  BY <1>7, <1>9, <1>11 DEF Shuts, Handled
<1> QED
  BY <1>1, <1>9, <1>10, <1>12, VoidIsRecorded, NoneFlies DEF Open

LEMMA ShutSlot ==
  ASSUME NEW s, NEW t, NEW p, Shuts(s, t), Slotted(s, p), epoch \in 1 .. Epochs
  PROVE  Slotted(t, p)
  BY DEF Shuts, Slotted, NoSlot

LEMMA StoppedIsGood ==
  ASSUME NEW s \in State, NEW p, NEW r, NEW c, Core(s, p, r, c), Recorded(s), Open(s),
         Slotted(s, p), NEW lost \in BOOLEAN
  PROVE  LET t == Stopped(s, lost) IN
         /\ Core(t, p, r, c) /\ Recorded(t) /\ Open(t) /\ Slotted(t, p) /\ Handled(s, t)
         /\ t = s \/ Shuts(s, t)
<1>1. CASE epoch \in disposed /\ ~ s.shut
  <2>1. Stopped(s, lost) = Shutdown(s, lost)
    BY <1>1 DEF Stopped
  <2> QED
    BY <2>1, ShutIsGood, ShutSlot DEF Shuts, Core, Types
<1>2. CASE ~ (epoch \in disposed /\ ~ s.shut)
  <2>1. Stopped(s, lost) = s
    BY <1>2 DEF Stopped
  <2> QED
    BY <2>1 DEF Handled, Remembers
<1> QED
  BY <1>1, <1>2

-------------------------------------------------------------------------------
(* What pi does, and what the handlers do about it *)

With(s, g, record, host, inbox) ==
  [s EXCEPT !.flight = g, !.record = record, !.host = host, !.inbox = inbox]

Sets(s, g, record, host, inbox, t) ==
  /\ t \in State /\ SameFates(s, t) /\ t.slot = s.slot /\ t.revoked = s.revoked
  /\ t.flight = g /\ t.record = record /\ t.host = host /\ t.inbox = inbox

LEMMA Set ==
  ASSUME NEW s \in State, NEW g \in Flights, NEW record \in Records, NEW host \in Hosts,
         NEW inbox \in SUBSET Keys
  PROVE  Sets(s, g, record, host, inbox, With(s, g, record, host, inbox))
<1> DEFINE a == [s EXCEPT !.flight = g]
           b == [a EXCEPT !.record = record]
           e == [b EXCEPT !.host = host]
           t == [e EXCEPT !.inbox = inbox]
<1>1. a \in State
  BY Put, Zenon
<1>2. With(s, g, record, host, inbox) = t
  BY DEF With, State
<1>3. SameFates(s, t) /\ t.slot = s.slot /\ t.revoked = s.revoked
      /\ t.flight = g /\ t.record = record /\ t.host = host /\ t.inbox = inbox
  BY DEF SameFates, State
<1> HIDE DEF a
<1>4. b \in State
  BY <1>1, Put, Zenon
<1> HIDE DEF b
<1>5. e \in State
  BY <1>4, Put, Zenon
<1> HIDE DEF e
<1>6. t \in State
  BY <1>5, Put, Zenon
<1> QED
  BY <1>2, <1>3, <1>6 DEF Sets

\* What is no matter to the invariant, and who watches the flight still does.
Alike(f, g) ==
  /\ g \in Flights
  /\ g.k = f.k /\ g.recorded = f.recorded /\ g.stuck = f.stuck /\ g.called = f.called
  /\ g.cause = f.cause /\ g.phase = f.phase
  /\ f.phase = "dispatched" => g.merged = f.merged /\ g.handed = f.handed
  /\ g = NoFlight <=> f = NoFlight
Tame(f, g) == Alike(f, g) /\ (Supervised(f) => Supervised(g))

LEMMA Tamed ==
  ASSUME NEW f \in Flight, NEW x \in BOOLEAN
  PROVE  /\ Tame(f, [f EXCEPT !.foreign = x]) /\ Tame(f, [f EXCEPT !.saw = x])
         /\ Tame(f, [f EXCEPT !.startDue = x]) /\ Tame(f, [f EXCEPT !.maxDue = x])
         /\ Tame(f, [f EXCEPT !.moved = x])
         /\ f.phase # "dispatched" => Alike(f, [f EXCEPT !.handed = x])
<1>1. ASSUME NEW g \in Flight, g.k = f.k, g.recorded = f.recorded, g.stuck = f.stuck,
             g.called = f.called, g.cause = f.cause, g.phase = f.phase
      PROVE  /\ f.phase # "dispatched" => Alike(f, g)
             /\ g.merged = f.merged /\ g.handed = f.handed => Tame(f, g)
  BY <1>1, PutInFlight DEF Alike, Tame, Supervised
<1>2. Tame(f, [f EXCEPT !.foreign = x])
  <2> DEFINE g == [f EXCEPT !.foreign = x]
  <2>1. g \in Flight /\ g.k = f.k /\ g.recorded = f.recorded /\ g.stuck = f.stuck
        /\ g.called = f.called /\ g.cause = f.cause /\ g.phase = f.phase
        /\ g.merged = f.merged /\ g.handed = f.handed
    BY DEF Flight
  <2> HIDE DEF g
  <2> QED
    BY <1>1, <2>1 DEF g
<1>3. Tame(f, [f EXCEPT !.saw = x])
  <2> DEFINE g == [f EXCEPT !.saw = x]
  <2>1. g \in Flight /\ g.k = f.k /\ g.recorded = f.recorded /\ g.stuck = f.stuck
        /\ g.called = f.called /\ g.cause = f.cause /\ g.phase = f.phase
        /\ g.merged = f.merged /\ g.handed = f.handed
    BY DEF Flight
  <2> HIDE DEF g
  <2> QED
    BY <1>1, <2>1 DEF g
<1>4. Tame(f, [f EXCEPT !.startDue = x])
  <2> DEFINE g == [f EXCEPT !.startDue = x]
  <2>1. g \in Flight /\ g.k = f.k /\ g.recorded = f.recorded /\ g.stuck = f.stuck
        /\ g.called = f.called /\ g.cause = f.cause /\ g.phase = f.phase
        /\ g.merged = f.merged /\ g.handed = f.handed
    BY DEF Flight
  <2> HIDE DEF g
  <2> QED
    BY <1>1, <2>1 DEF g
<1>5. Tame(f, [f EXCEPT !.maxDue = x])
  <2> DEFINE g == [f EXCEPT !.maxDue = x]
  <2>1. g \in Flight /\ g.k = f.k /\ g.recorded = f.recorded /\ g.stuck = f.stuck
        /\ g.called = f.called /\ g.cause = f.cause /\ g.phase = f.phase
        /\ g.merged = f.merged /\ g.handed = f.handed
    BY DEF Flight
  <2> HIDE DEF g
  <2> QED
    BY <1>1, <2>1 DEF g
<1>6. Tame(f, [f EXCEPT !.moved = x])
  <2> DEFINE g == [f EXCEPT !.moved = x]
  <2>1. g \in Flight /\ g.k = f.k /\ g.recorded = f.recorded /\ g.stuck = f.stuck
        /\ g.called = f.called /\ g.cause = f.cause /\ g.phase = f.phase
        /\ g.merged = f.merged /\ g.handed = f.handed
    BY DEF Flight
  <2> HIDE DEF g
  <2> QED
    BY <1>1, <2>1 DEF g
<1>7. ASSUME f.phase # "dispatched"
      PROVE  Alike(f, [f EXCEPT !.handed = x])
  <2> DEFINE g == [f EXCEPT !.handed = x]
  <2>1. g \in Flight /\ g.k = f.k /\ g.recorded = f.recorded /\ g.stuck = f.stuck
        /\ g.called = f.called /\ g.cause = f.cause /\ g.phase = f.phase
    BY DEF Flight
  <2> HIDE DEF g
  <2> QED
    BY <1>1, <1>7, <2>1 DEF g
<1> QED
  BY <1>2, <1>3, <1>4, <1>5, <1>6, <1>7

LEMMA SameIsTame ==
  ASSUME NEW f \in Flights
  PROVE  Tame(f, f)
  BY DEF Tame, Alike

LEMMA AlikeIsGood ==
  ASSUME NEW s \in State, NEW p, NEW r, NEW c, Core(s, p, r, c), Slotted(s, p), Open(s),
         NEW g, NEW record, NEW host, NEW inbox, NEW t, Sets(s, g, record, host, inbox, t),
         Alike(s.flight, g), inbox \subseteq s.inbox,
         host.entered => host.by = s.host.by /\ s.host.entered,
         \A k \in Keys : host.by = k => Away(s, c, k)
  PROVE  Core(t, p, r, c) /\ Slotted(t, p) /\ Open(t)
<1>1. t \in State /\ SameFates(s, t)
  BY DEF Sets
<1>2. \A k \in Keys : Away(t, c, k) => Away(s, c, k)
  BY DEF Sets, Away, Alike
<1>3. Telling(t, r, c)
  BY <1>1 DEF Telling, Core, SameFates
<1>4. Flown(t, p, r, c)
  <2>1. Flown(s, p, r, c)
    BY DEF Core
  <2>2. t.flight = NoFlight <=> s.flight = NoFlight
    BY DEF Sets, Alike
  <2>3. ASSUME s.flight # NoFlight
        PROVE  s.flight.phase = "authorized" => ~ (t.host.by = s.flight.k /\ t.host.entered)
    BY <2>1, <2>3 DEF Flown, Sets
  <2> QED
    BY <1>1, <2>1, <2>2, <2>3 DEF Flown, Sets, Alike, SameFates
<1>5. c \in [Keys -> 0 .. MaxCalls]
  BY DEF Core, Types
<1>6. Core(t, p, r, c)
  BY <1>1, <1>2, <1>3, <1>4, <1>5, Calm DEF Sets, Alike
<1>7. Slotted(t, p)
  BY SlotKept DEF Sets, SameFates, Alike
<1>8. Open(t)
  BY DEF Open, Sets, Alike
<1> QED
  BY <1>6, <1>7, <1>8

LEMMA TameIsGood ==
  ASSUME NEW s \in State, NEW p, NEW r, NEW c, Good(s, p, r, c),
         NEW g, NEW record, NEW host, NEW inbox, NEW t, Sets(s, g, record, host, inbox, t),
         Tame(s.flight, g), inbox \subseteq s.inbox,
         host.by = s.host.by, host.entered = s.host.entered,
         record.k = s.record.k, record.epoch = s.record.epoch,
         record.voided = s.record.voided, record.handed = s.record.handed,
         s.record = NoRecord => record = NoRecord
  PROVE  Good(t, p, r, c)
<1>1. Core(t, p, r, c) /\ Slotted(t, p) /\ Open(t)
  BY AlikeIsGood DEF Good, Tame, Away
<1>2. Hosted(t)
  BY DEF Good, Hosted, Sets
<1>3. Recorded(t)
  BY DEF Good, Recorded, Sets, SameFates, Tame, Alike, Handed, Watched
<1> QED
  BY <1>1, <1>2, <1>3 DEF Good

\* One field of the flight is set, and perhaps what the record says of the run's budget.
LEMMA FlightSet ==
  ASSUME IInv, NEW g \in Flights, Tame(d.flight, g), NEW x \in BOOLEAN,
         Mine(d) \/ x = d.record.expired,
         d.flight # NoFlight
  PROVE  Good([d EXCEPT !.flight = g, !.record.expired = x], pump, runs, history.calls)
<1> DEFINE record == [d.record EXCEPT !.expired = x]
           t == With(d, g, record, d.host, d.inbox)
<1>1. Good(d, pump, runs, history.calls) /\ d \in State
  BY DEF IInv, Good, Core
<1>2. /\ record \in Records
      /\ record.k = d.record.k /\ record.epoch = d.record.epoch
      /\ record.voided = d.record.voided /\ record.handed = d.record.handed
  BY <1>1, Fields DEF Records
<1>3. d.record = NoRecord => record = NoRecord
  <2>1. d.flight.k # "none"
    BY <1>1, Fields, NoneFlies, Names
  <2>2. Mine(d) => d.record # NoRecord
    BY <2>1 DEF Mine, NoRecord
  <2>3. x = d.record.expired => record = d.record
    BY <1>1, Fields DEF Records
  <2> QED
    BY <2>2, <2>3
<1>4. [d EXCEPT !.flight = g, !.record.expired = x] = t
  BY <1>1 DEF With, State
<1> HIDE DEF record
<1>5. d.host \in Hosts /\ d.inbox \in SUBSET Keys
  BY <1>1, Fields
<1>6. Sets(d, g, record, d.host, d.inbox, t)
  BY <1>1, <1>2, <1>5, Set
<1> HIDE DEF t
<1> QED
  BY <1>1, <1>2, <1>3, <1>4, <1>6, TameIsGood

LEMMA StartIsDueKeeps ==
  ASSUME IInv, StartIsDue
  PROVE  Good(d', pump, runs, history.calls)
<1> DEFINE g == [d.flight EXCEPT !.startDue = TRUE]
<1>1. d \in State /\ d.flight # NoFlight
  BY NoneFlies DEF IInv, Good, Core, StartIsDue, Uncalled
<1>2. d.flight \in Flight
  BY <1>1, Fields, NoneFlies
<1>3. Tame(d.flight, g)
  BY <1>2, Tamed
<1>4. d' = [d EXCEPT !.flight = g, !.record.expired = d.record.expired]
  BY <1>1 DEF StartIsDue, State
<1>5. d.record.expired \in BOOLEAN /\ g \in Flights
  BY <1>1, <1>3, Fields DEF Records, Tame, Alike
<1> HIDE DEF g
<1> QED
  BY <1>1, <1>3, <1>4, <1>5, FlightSet

LEMMA RunIsDueKeeps ==
  ASSUME IInv, RunIsDue
  PROVE  Good(d', pump, runs, history.calls)
<1> DEFINE g == [d.flight EXCEPT !.maxDue = TRUE]
           x == IF Mine(d) THEN TRUE ELSE d.record.expired
<1>1. d \in State /\ d.flight # NoFlight
  BY NoneFlies DEF IInv, Good, Core, RunIsDue, Supervised
<1>2. d.flight \in Flight
  BY <1>1, Fields, NoneFlies
<1>3. Tame(d.flight, g)
  BY <1>2, Tamed
<1>4. d' = [d EXCEPT !.flight = g, !.record.expired = x]
  BY <1>1 DEF RunIsDue, State
<1>5. x \in BOOLEAN /\ g \in Flights /\ (Mine(d) \/ x = d.record.expired)
  BY <1>1, <1>3, Fields DEF Records, Tame, Alike
<1> HIDE DEF g, x
<1> QED
  BY <1>1, <1>3, <1>4, <1>5, FlightSet

LEMMA MessageEndKeeps ==
  ASSUME IInv, MessageEnd
  PROVE  Good(d', pump, runs, history.calls)
<1> DEFINE g == [d.flight EXCEPT !.saw = TRUE]
<1>1. d \in State /\ d.flight # NoFlight
  BY DEF IInv, Good, Core, MessageEnd
<1>2. d.flight \in Flight
  BY <1>1, Fields, NoneFlies
<1>3. Tame(d.flight, g)
  BY <1>2, Tamed
<1>4. d' = [d EXCEPT !.flight = g, !.record.expired = d.record.expired]
  BY <1>1 DEF MessageEnd, State
<1>5. d.record.expired \in BOOLEAN /\ g \in Flights
  BY <1>1, <1>3, Fields DEF Records, Tame, Alike
<1> HIDE DEF g
<1> QED
  BY <1>1, <1>3, <1>4, <1>5, FlightSet

LEMMA SessionMovesKeeps ==
  ASSUME IInv, SessionMoves
  PROVE  Good(d', pump, runs, history.calls)
<1> DEFINE g == [d.flight EXCEPT !.moved = TRUE]
<1>1. CASE UNCHANGED d
  BY <1>1 DEF IInv
<1>2. CASE Uncalled(d.flight) /\ d' = [d EXCEPT !.flight.moved = TRUE]
  <2>1. d \in State /\ d.flight # NoFlight
    BY <1>2, NoneFlies DEF IInv, Good, Core, Uncalled
  <2>2. d.flight \in Flight
    BY <2>1, Fields, NoneFlies
  <2>3. Tame(d.flight, g)
    BY <2>2, Tamed
  <2>4. d' = [d EXCEPT !.flight = g, !.record.expired = d.record.expired]
    BY <1>2, <2>1 DEF State
  <2>5. d.record.expired \in BOOLEAN /\ g \in Flights
    BY <2>1, <2>3, Fields DEF Records, Tame, Alike
  <2> HIDE DEF g
  <2> QED
    BY <2>1, <2>3, <2>4, <2>5, FlightSet
<1> QED
  BY <1>1, <1>2 DEF SessionMoves

LEMMA NoneIsOn ==
  NoRecord \in Records /\ NoRecord.k = "none" /\ NoHost \in Hosts /\ NoHost.by = "none"
  /\ ~ NoHost.entered
  BY DispatchAssumption DEF NoRecord, Records, NoHost, Hosts

LEMMA NoneChanges ==
  /\ [NoFlight EXCEPT !.foreign = FALSE] = NoFlight
  /\ [NoFlight EXCEPT !.phase = "none"] = NoFlight
  /\ [NoFlight EXCEPT !.merged = FALSE] = NoFlight
  /\ [NoFlight EXCEPT !.called = FALSE] = NoFlight
<1>1. NoFlight \in [k : {"none"}, phase : {"none"}, foreign : BOOLEAN, recorded : BOOLEAN,
                   stuck : BOOLEAN, called : BOOLEAN, merged : BOOLEAN, handed : BOOLEAN, saw : BOOLEAN,
                   startDue : BOOLEAN, maxDue : BOOLEAN, cause : {"none"}, moved : BOOLEAN]
  BY DEF NoFlight
<1>2. NoFlight.foreign = FALSE /\ NoFlight.phase = "none" /\ NoFlight.merged = FALSE
      /\ NoFlight.called = FALSE
  BY DEF NoFlight
<1> QED
  BY <1>1, <1>2

LEMMA HumanStartKeeps ==
  ASSUME IInv, HumanStart
  PROVE  Good(d', pump, runs, history.calls)
<1> DEFINE f == d.flight
           g == [f EXCEPT !.foreign = f.foreign \/ f.phase = "dispatched"]
           host == [NoHost EXCEPT !.by = "human"]
           t == With(d, g, NoRecord, host, d.inbox)
<1>1. Good(d, pump, runs, history.calls) /\ d \in State
  BY DEF IInv, Good, Core
<1>2. f \in Flights /\ d.inbox \in SUBSET Keys
  BY <1>1, Fields
<1>3. Alike(f, g)
  <2>1. CASE f = NoFlight
    <3>1. (f.foreign \/ f.phase = "dispatched") = FALSE
      BY <2>1 DEF NoFlight
    <3>2. g = [NoFlight EXCEPT !.foreign = FALSE]
      BY <2>1, <3>1, Zenon
    <3> HIDE DEF g, f
    <3>3. g = NoFlight
      BY <3>2, NoneChanges
    <3> QED
      BY <2>1, <3>3, <1>2, SameIsTame DEF Tame
  <2>2. CASE f # NoFlight
    <3>1. f \in Flight /\ (f.foreign \/ f.phase = "dispatched") \in BOOLEAN
      BY <1>2, <2>2, NoneFlies DEF Flight
    <3>2. \A x \in BOOLEAN : Tame(f, [f EXCEPT !.foreign = x])
      BY <3>1, Tamed
    <3> QED
      BY <3>1, <3>2 DEF Tame
  <2> QED
    BY <2>1, <2>2
<1>4. host \in Hosts /\ host.by = "human" /\ ~ host.entered
  BY DEF Hosts, NoHost
<1>5. d' = t
  BY <1>1 DEF HumanStart, With, State
<1> HIDE DEF g, host
<1>6. Sets(d, g, NoRecord, host, d.inbox, t)
  BY <1>1, <1>2, <1>3, <1>4, NoneIsOn, Set DEF Alike
<1> HIDE DEF t
<1>7. Core(t, pump, runs, history.calls) /\ Slotted(t, pump) /\ Open(t)
  BY <1>1, <1>3, <1>4, <1>6, AlikeIsGood, Names DEF Good
<1>8. Hosted(t) /\ Recorded(t)
  BY <1>4, <1>6, NoneIsOn, Names DEF Hosted, Recorded, Sets
<1> QED
  BY <1>5, <1>7, <1>8 DEF Good

\* The message of the flight enters the run that is on.
LEMMA BoundIsGood ==
  ASSUME NEW s \in State, NEW p, NEW r, NEW c, Good(s, p, r, c),
         NEW g \in Flights, NEW host, NEW inbox, NEW t, Sets(s, g, s.record, host, inbox, t),
         g.k = s.flight.k, g.recorded = s.flight.recorded, g.stuck = s.flight.stuck,
         g.called = s.flight.called, g.cause = s.flight.cause,
         g = s.flight \/ (g # NoFlight /\ g.phase = "bound" /\ s.flight.phase \in {"dispatched", "authorized"}),
         Watched(s) => Supervised(g),
         inbox \subseteq s.inbox, host.by = s.host.by, host.entered => host.by \in Keys,
         g.phase = "authorized" /\ host.by = g.k => ~ host.entered
  PROVE  Good(t, p, r, c)
<1>1. t \in State /\ SameFates(s, t)
  BY DEF Sets
<1>2. \A k \in Keys : Away(t, c, k) => Away(s, c, k)
  BY DEF Sets, Away
<1>3. Telling(t, r, c)
  BY <1>1 DEF Telling, Core, SameFates, Good
<1>4. s.flight = NoFlight <=> g = NoFlight
  BY NoneFlies, Fields, Names
<1>5. Flown(t, p, r, c)
  <2>1. Flown(s, p, r, c)
    BY DEF Core, Good
  <2> QED
    BY <1>1, <1>4, <2>1 DEF Flown, Sets, SameFates
<1>6. c \in [Keys -> 0 .. MaxCalls]
  BY DEF Core, Types, Good
<1>7. Core(t, p, r, c)
  BY <1>1, <1>2, <1>3, <1>5, <1>6, Calm DEF Sets, Good
<1>8. Slotted(t, p)
  BY <1>4, SlotKept DEF Sets, SameFates, Good
<1>9. Open(t) /\ Hosted(t)
  BY DEF Open, Hosted, Sets, Good
<1>10. Recorded(t)
  BY DEF Good, Recorded, Sets, SameFates, Handed, Watched
<1> QED
  BY <1>7, <1>8, <1>9, <1>10 DEF Good

LEMMA MessageStartKeeps ==
  ASSUME IInv, MessageStart
  PROVE  Good(d', pump, runs, history.calls)
<1> DEFINE f == d.flight
           ours == f.k = d.host.by /\ f.phase = "authorized"
           g == [f EXCEPT !.phase = IF ours THEN "bound" ELSE f.phase]
           host == [d.host EXCEPT !.entered = TRUE]
           t == With(d, g, d.record, host, d.inbox)
<1>1. Good(d, pump, runs, history.calls) /\ d \in State
  BY DEF IInv, Good, Core
<1>2. f \in Flights /\ d.inbox \in SUBSET Keys /\ d.host \in Hosts /\ d.record \in Records
      /\ d.host.by \in Keys
  BY <1>1, Fields DEF MessageStart
<1>3. g \in Flights /\ g.k = f.k /\ g.recorded = f.recorded /\ g.stuck = f.stuck
      /\ g.called = f.called /\ g.cause = f.cause /\ g.merged = f.merged /\ g.handed = f.handed
      /\ g.phase = (IF ours THEN "bound" ELSE f.phase)
      /\ (g = f \/ (g # NoFlight /\ ours))
  <2>1. CASE f = NoFlight
    <3>1. ~ ours
      BY <2>1 DEF NoFlight
    <3>2. g = f
      BY <2>1, <3>1 DEF NoFlight
    <3> HIDE DEF g, ours
    <3> QED
      BY <1>2, <3>1, <3>2
  <2>2. CASE f # NoFlight
    <3>1. f \in Flight
      BY <1>2, <2>2, NoneFlies
    <3>2. g \in Flight
      BY <3>1 DEF Flight
    <3>3. g.k = f.k /\ g.recorded = f.recorded /\ g.stuck = f.stuck
          /\ g.called = f.called /\ g.cause = f.cause /\ g.merged = f.merged /\ g.handed = f.handed
          /\ g.phase = (IF ours THEN "bound" ELSE f.phase)
          /\ (~ ours => g = f)
      BY <3>1 DEF Flight
    <3> HIDE DEF g, ours
    <3> QED
      BY <3>2, <3>3, PutInFlight
  <2> QED
    BY <2>1, <2>2
<1>4. host \in Hosts /\ host.by = d.host.by
  BY <1>2 DEF Hosts
<1>5. d' = t
  BY <1>1 DEF MessageStart, With, State
<1> HIDE DEF g, host
<1>6. Sets(d, g, d.record, host, d.inbox, t)
  BY <1>1, <1>2, <1>3, <1>4, Set
<1>7. Watched(d) => Supervised(g)
  BY <1>3 DEF Watched, Supervised
<1> HIDE DEF t
<1> QED
  BY <1>1, <1>2, <1>3, <1>4, <1>5, <1>6, <1>7, BoundIsGood

LEMMA MessageMergedKeeps ==
  ASSUME IInv, NEW k \in Keys, MessageMerged(k)
  PROVE  Good(d', pump, runs, history.calls)
<1> DEFINE f == d.flight
           ours == f.k = k /\ f.phase = "dispatched"
           phase == IF ours THEN "bound" ELSE f.phase
           merged == f.merged \/ ours
           g == [f EXCEPT !.phase = phase, !.merged = merged]
           t == With(d, g, d.record, d.host, d.inbox \ {k})
<1>1. Good(d, pump, runs, history.calls) /\ d \in State
  BY DEF IInv, Good, Core
<1>2. f \in Flights /\ d.inbox \ {k} \in SUBSET Keys /\ d.host \in Hosts /\ d.record \in Records
      /\ d.host.by = "human" /\ d.host.by \notin Keys
  BY <1>1, Fields, Names DEF MessageMerged
<1>3. g \in Flights /\ g.k = f.k /\ g.recorded = f.recorded /\ g.stuck = f.stuck
      /\ g.called = f.called /\ g.cause = f.cause
      /\ g.phase = phase
      /\ (g = f \/ (g # NoFlight /\ ours))
  <2>1. CASE f = NoFlight
    <3>1. ~ ours
      BY <2>1 DEF NoFlight
    <3>2. merged = FALSE /\ phase = "none" /\ NoFlight.phase = "none"
      BY <2>1, <3>1 DEF NoFlight
    <3> HIDE DEF phase, merged
    <3>3. g = [NoFlight EXCEPT !.phase = "none", !.merged = FALSE]
      BY <2>1, <3>2, Zenon
    <3>4. g = f /\ f.phase = phase
      <4> HIDE DEF g
      <4> QED
        BY <2>1, <3>2, <3>3, NoneChanges
    <3> HIDE DEF g, ours
    <3> QED
      BY <1>2, <3>1, <3>4
  <2>2. CASE f # NoFlight
    <3>1. f \in Flight
      BY <1>2, <2>2, NoneFlies
    <3>2. merged \in BOOLEAN /\ phase \in {"dispatched", "authorized", "bound", "aborting"}
          /\ (~ ours => merged = f.merged /\ phase = f.phase)
      BY <3>1 DEF Flight
    <3> HIDE DEF phase, merged, ours
    <3>3. g \in Flight
      BY <3>1, <3>2 DEF Flight
    <3>4. g.k = f.k /\ g.recorded = f.recorded /\ g.stuck = f.stuck
          /\ g.called = f.called /\ g.cause = f.cause
          /\ g.phase = phase
          /\ (~ ours => g = f)
      BY <3>1, <3>2 DEF Flight
    <3> HIDE DEF g, ours
    <3> QED
      BY <3>3, <3>4, PutInFlight
  <2> QED
    BY <2>1, <2>2
<1>4. d' = t
  BY <1>1 DEF MessageMerged, With, State
<1> HIDE DEF g
<1>5. Sets(d, g, d.record, d.host, d.inbox \ {k}, t)
  BY <1>1, <1>2, <1>3, Set
<1>6. ~ Watched(d)
  <2>1. d.record.k = "none"
    BY <1>1, <1>2, NoneIsOn DEF Good, Hosted
  <2>2. f.k = "none" => ~ Supervised(f)
    BY <1>2, NoneFlies DEF Supervised
  <2> QED
    BY <2>1, <2>2 DEF Watched
<1>7. d.host.entered => d.host.by \in Keys
  BY <1>1 DEF Good, Hosted
<1> HIDE DEF t
<1> QED
  BY <1>1, <1>2, <1>3, <1>4, <1>5, <1>6, <1>7, BoundIsGood

LEMMA EndsSilentlyKeeps ==
  ASSUME IInv, EndsSilently
  PROVE  Good(d', pump, runs, history.calls)
<1> DEFINE t == With(d, d.flight, d.record, NoHost, d.inbox)
<1>1. Good(d, pump, runs, history.calls) /\ d \in State
  BY DEF IInv, Good, Core
<1>2. d' = t
  BY <1>1 DEF EndsSilently, With, State
<1>3. Sets(d, d.flight, d.record, NoHost, d.inbox, t)
  BY <1>1, Fields, NoneIsOn, Set
<1>4. Tame(d.flight, d.flight)
  BY <1>1, Fields, SameIsTame
<1> HIDE DEF t
<1>5. Core(t, pump, runs, history.calls) /\ Slotted(t, pump) /\ Open(t)
  BY <1>1, <1>3, <1>4, AlikeIsGood, NoneIsOn, Names DEF Good, Tame
<1>6. Hosted(t)
  BY <1>3, NoneIsOn, Names DEF Hosted, Sets
<1>7. Recorded(t)
  BY <1>1, <1>3 DEF Good, Recorded, Sets, SameFates, Handed, Watched
<1> QED
  BY <1>2, <1>5, <1>6, <1>7 DEF Good

LEMMA SettledKeeps ==
  ASSUME IInv, Settled
  PROVE  Good(d', pump, runs, history.calls)
<1> DEFINE s == With(d, d.flight, NoRecord, NoHost, d.inbox)
<1>1. Good(d, pump, runs, history.calls) /\ d \in State
  BY DEF IInv, Good, Core
<1>2. [d EXCEPT !.host = NoHost, !.record = NoRecord] = s
  BY <1>1 DEF With, State
<1>3. d' = IF s.flight # NoFlight /\ s.flight.phase # "dispatched" THEN FinalizeAtSettle(s) ELSE s
  BY <1>2 DEF Settled
<1>4. Sets(d, d.flight, NoRecord, NoHost, d.inbox, s)
  BY <1>1, Fields, NoneIsOn, Set
<1>5. Alike(d.flight, d.flight)
  BY <1>1, Fields, SameIsTame DEF Tame
<1> HIDE DEF s
<1>6. Core(s, pump, runs, history.calls) /\ Slotted(s, pump) /\ Open(s)
  BY <1>1, <1>4, <1>5, AlikeIsGood, NoneIsOn, Names DEF Good
<1>7. Void(s) /\ Hosted(s) /\ s \in State
  BY <1>4, NoneIsOn, Names DEF Void, Hosted, Sets
<1>8. CASE s.flight # NoFlight /\ s.flight.phase # "dispatched"
  <2>1. d' = FinalizeAtSettle(s)
    BY <1>3, <1>8
  <2>2. /\ Core(d', pump, runs, history.calls) /\ Void(d') /\ Open(d') /\ Slotted(d', pump)
        /\ Handled(s, d')
    BY <1>6, <1>7, <1>8, <2>1, VoidIsRecorded, FinalIsGood
  <2> QED
    BY <1>7, <2>2, StaysHosted, VoidIsRecorded DEF Good
<1>9. CASE ~ (s.flight # NoFlight /\ s.flight.phase # "dispatched")
  BY <1>3, <1>6, <1>7, <1>9, VoidIsRecorded DEF Good
<1> QED
  BY <1>8, <1>9

LEMMA ObserveStuckKeeps ==
  ASSUME IInv, ObserveStuck
  PROVE  Good(d', pump, runs, history.calls)
<1> DEFINE s == With(d, d.flight, NoRecord, d.host, d.inbox)
<1>1. Good(d, pump, runs, history.calls) /\ d \in State
  BY DEF IInv, Good, Core
<1>2. [d EXCEPT !.record = NoRecord] = s
  BY <1>1 DEF With, State
<1>3. d' = CloseFlight(s) /\ d.flight.stuck /\ d.host.by = "none"
  BY <1>2 DEF ObserveStuck
<1>4. Sets(d, d.flight, NoRecord, d.host, d.inbox, s)
  BY <1>1, Fields, NoneIsOn, Set
<1>5. Alike(d.flight, d.flight)
  BY <1>1, Fields, SameIsTame DEF Tame
<1> HIDE DEF s
<1>6. Core(s, pump, runs, history.calls) /\ Slotted(s, pump) /\ Open(s)
  BY <1>1, <1>4, <1>5, AlikeIsGood, NoneIsOn, Names DEF Good, Away
<1>7. Void(s) /\ Hosted(s) /\ s \in State
  BY <1>1, <1>3, <1>4, NoneIsOn, Names DEF Void, Hosted, Sets, Good
<1>8. s.flight # NoFlight /\ s.flight.recorded
  <2>1. s.flight # NoFlight
    BY <1>3, <1>4 DEF NoFlight, Sets
  <2> QED
    BY <1>3, <1>4, <1>6, <2>1 DEF Core, Flown, Sets
<1>9. /\ Core(d', pump, runs, history.calls) /\ Void(d') /\ Open(d') /\ Slotted(d', pump)
      /\ Handled(s, d')
  BY <1>3, <1>6, <1>7, <1>8, VoidIsRecorded, CloseIsGood DEF Enforces
<1> QED
  BY <1>7, <1>9, StaysHosted, VoidIsRecorded DEF Good

LEMMA TimerKeeps ==
  ASSUME IInv, Timer
  PROVE  Good(d', pump, runs, history.calls)
<1>1. Good(d, pump, runs, history.calls) /\ d \in State
  BY DEF IInv, Good, Core
<1>2. PICK lost \in BOOLEAN : d' = EnforceDeadlines(Stopped(d, lost), lost)
  BY DEF Timer
<1> DEFINE s == Stopped(d, lost)
<1>3. /\ Core(s, pump, runs, history.calls) /\ Recorded(s) /\ Open(s) /\ Slotted(s, pump)
      /\ Handled(d, s)
  BY <1>1, StoppedIsGood DEF Good
<1> HIDE DEF s
<1>4. s \in State /\ Hosted(s)
  BY <1>1, <1>3, StaysHosted DEF Core, Good
<1>5. /\ Core(d', pump, runs, history.calls) /\ Recorded(d') /\ Open(d') /\ Slotted(d', pump)
      /\ Enforces(s, d')
  BY <1>2, <1>3, <1>4, Enforced DEF s
<1> QED
  BY <1>4, <1>5, StaysHosted DEF Enforces, Good

LEMMA GraceKeeps ==
  ASSUME IInv, Grace
  PROVE  Good(d', pump, runs, history.calls)
<1> DEFINE u == RecordOf(d, d.flight, "unknown")
           g == [u.flight EXCEPT !.stuck = TRUE]
<1>1. Good(d, pump, runs, history.calls) /\ d \in State
  BY DEF IInv, Good, Core
<1>2. d' = [u EXCEPT !.flight = g] /\ d.flight.phase = "aborting"
  BY DEF Grace
<1>3. d.flight # NoFlight /\ "unknown" \in Outcome
  BY <1>2, NoneFlies DEF Outcome
<1>4. Void(d)
  BY <1>1, <1>2 DEF Good, Recorded, Void, Watched, Supervised
<1>5. Core(u, pump, runs, history.calls) /\ Marks(d, "unknown", u) /\ Slotted(u, pump)
  BY <1>1, <1>3, <1>4, VoidIsRecorded, MarkIsGood DEF Good
<1> HIDE DEF u
<1>6. d.flight \in Flight
  BY <1>1, <1>3, Fields, NoneFlies
<1>7. u.flight \in Flight /\ u \in State /\ u.flight.recorded /\ u.flight.phase = "aborting"
  BY <1>2, <1>5, <1>6 DEF Marks, Flight
<1>8. g \in Flight /\ g.k = u.flight.k /\ g.recorded = u.flight.recorded
      /\ g.called = u.flight.called /\ g.cause = u.flight.cause /\ g.phase = "aborting"
  BY <1>7 DEF Flight
<1> HIDE DEF g
<1>9. d' \in State
  BY <1>2, <1>7, <1>8, PutInFlight, Put
<1>10. SameFates(u, d') /\ d'.flight = g /\ d'.record = u.record /\ d'.host = u.host
       /\ d'.inbox = u.inbox /\ d'.slot = u.slot
  BY <1>2, <1>7 DEF State, SameFates
<1>11. \A k \in Keys : Away(d', history.calls, k) => Away(u, history.calls, k)
  BY <1>8, <1>10 DEF Away
<1>12. Telling(d', runs, history.calls)
  BY <1>5, <1>10 DEF Telling, Core, SameFates
<1>13. Flown(d', pump, runs, history.calls)
  <2>1. u.flight # NoFlight /\ g # NoFlight
    BY <1>7, <1>8, PutInFlight
  <2> QED
    BY <1>5, <1>7, <1>8, <1>10, <2>1 DEF Flown, Core, SameFates
<1>14. Core(d', pump, runs, history.calls)
  BY <1>5, <1>7, <1>8, <1>9, <1>10, <1>11, <1>12, <1>13, Calm DEF Core, Types
<1>15. Slotted(d', pump)
  <2>1. u.flight # NoFlight
    BY <1>7, PutInFlight
  <2> QED
    BY <1>5, <1>8, <1>10, <2>1, SlotKept DEF SameFates
<1>16. Void(d')
  BY <1>1, <1>4, <1>5, <1>10, StaysHeld DEF Marks, SameFates, Remembers
<1>17. Hosted(d') /\ Open(d')
  BY <1>1, <1>5, <1>8, <1>10 DEF Marks, Hosted, Open, Good
<1> QED
  BY <1>14, <1>15, <1>16, <1>17, VoidIsRecorded DEF Good

LEMMA InputKeeps ==
  ASSUME IInv, Input
  PROVE  Good(d', pump, runs, history.calls)
<1> DEFINE f == d.flight
           g == [f EXCEPT !.handed = TRUE]
           record == [d.record EXCEPT !.handed = IF Mine(d) THEN TRUE ELSE d.record.handed]
           s == With(d, g, record, d.host, d.inbox)
<1>1. Good(d, pump, runs, history.calls) /\ d \in State
  BY DEF IInv, Good, Core
<1>2. f # NoFlight /\ Supervised(f) /\ ~ f.recorded /\ d.host.by \in Keys
  BY NoneFlies DEF Input, Supervised
<1>3. d' = RecordOf(s, s.flight, "continued")
  <2>1. s = [d EXCEPT !.flight.handed = TRUE, !.record.handed = IF Mine(d) THEN TRUE ELSE d.record.handed]
    BY <1>1 DEF With, State
  <2> QED
    BY <2>1, Zenon DEF Input
<1>4. Alike(f, g)
  BY <1>1, <1>2, Tamed, Fields, NoneFlies DEF Supervised
<1>5. /\ record \in Records
      /\ record.k = d.record.k /\ record.epoch = d.record.epoch /\ record.voided = d.record.voided
      /\ record.handed = (IF Mine(d) THEN TRUE ELSE d.record.handed)
  BY <1>1, Fields DEF Records
<1> HIDE DEF g, record
<1>6. Sets(d, g, record, d.host, d.inbox, s)
  BY <1>1, <1>4, <1>5, Fields, Set DEF Alike
<1> HIDE DEF s
<1>7. Core(s, pump, runs, history.calls) /\ Slotted(s, pump)
  BY <1>1, <1>4, <1>6, AlikeIsGood, Names DEF Good, Away
<1>8. Held(s)
  <2>1. Mine(d) => Mine(s)
    BY <1>4, <1>5, <1>6 DEF Mine, Sets, Alike
  <2>2. ~ Mine(d) => Void(d)
    BY <1>1 DEF Good, Recorded, Void, Watched, Mine
  <2>3. Void(d) => Void(s)
    BY <1>5, <1>6 DEF Void, Handed, Sets, SameFates
  <2> QED
    BY <2>1, <2>2, <2>3, VoidIsRecorded DEF Held
<1>9. s.flight # NoFlight /\ "continued" \in Outcome /\ s \in State /\ ~ s.flight.recorded
      /\ s.flight.k = f.k
  BY <1>2, <1>4, <1>6 DEF Alike, Sets, Outcome
<1>10. Core(d', pump, runs, history.calls) /\ Marks(s, "continued", d') /\ Slotted(d', pump)
  BY <1>3, <1>7, <1>8, <1>9, MarkIsGood
<1>11. Void(d')
  <2>1. CASE Mine(d)
    <3>1. d'.record = record /\ d'.said[s.flight.k] = "continued"
      BY <1>6, <1>9, <1>10 DEF Marks, Sets
    <3>2. record.k = s.flight.k /\ record.handed
      BY <1>5, <1>9, <2>1 DEF Mine
    <3> QED
      BY <3>1, <3>2 DEF Void, Handed
  <2>2. CASE ~ Mine(d)
    <3>1. Void(s)
      BY <1>1, <1>5, <1>6, <2>2 DEF Good, Recorded, Void, Watched, Mine, Handed, Sets, SameFates
    <3> QED
      BY <1>9, <1>10, <3>1, StaysHeld DEF Marks, Remembers
  <2> QED
    BY <2>1, <2>2
<1>12. Hosted(d')
  BY <1>1, <1>2, <1>5, <1>6, <1>10, Names DEF Good, Hosted, Marks, Sets
<1>13. Open(d')
  <2>1. s.flight \in Flight
    BY <1>7, <1>9, InFlight
  <2>2. d'.flight.phase = s.flight.phase
    BY <1>10, <2>1 DEF Marks, Flight
  <2> QED
    BY <1>2, <1>4, <1>6, <2>2 DEF Open, Alike, Sets, Supervised
<1> QED
  BY <1>10, <1>11, <1>12, <1>13, VoidIsRecorded DEF Good

LEMMA AbortIsGood ==
  ASSUME NEW s \in State, NEW p, NEW r, NEW c, Good(s, p, r, c), NEW lost \in BOOLEAN
  PROVE  Good(Abort(s, lost), p, r, c)
<1> DEFINE t == Abort(s, lost)
<1>1. Aborts(s, t)
  BY Aborted
<1> HIDE DEF t
<1>2. Sets(s, s.flight, s.record, t.host, t.inbox, t)
  BY <1>1 DEF Aborts, Sets, SameFates, State
<1>3. Tame(s.flight, s.flight)
  BY Fields, SameIsTame
<1> QED
  BY <1>1, <1>2, <1>3, TameIsGood DEF t, Aborts

\* markOrphanRun: the run is void, whatever becomes of its abort.
LEMMA OrphanIsGood ==
  ASSUME NEW s \in State, NEW p, NEW r, NEW c, Core(s, p, r, c), Slotted(s, p), Open(s),
         NEW k \in Keys, s.host.by = k, ~ s.host.entered, k \notin s.inbox, NEW lost \in BOOLEAN
  PROVE  Good(Orphan(s, k, lost), p, r, c)
<1> DEFINE record == [NoRecord EXCEPT !.k = k, !.voided = TRUE]
           w == With(s, s.flight, record, s.host, s.inbox)
<1>1. record \in Records /\ record.k = k /\ record.voided
  BY NoneIsOn DEF Records
<1>2. [s EXCEPT !.record = record] = w
  BY DEF With, State
<1>3. Orphan(s, k, lost) = Abort(w, lost)
  BY <1>2 DEF Orphan
<1> HIDE DEF record
<1>4. Sets(s, s.flight, record, s.host, s.inbox, w)
  BY <1>1, Fields, Set
<1>5. Alike(s.flight, s.flight)
  BY Fields, SameIsTame DEF Tame
<1> HIDE DEF w
<1>6. Core(w, p, r, c) /\ Slotted(w, p) /\ Open(w)
  BY <1>4, <1>5, AlikeIsGood DEF Away
<1>7. Hosted(w) /\ Recorded(w)
  BY <1>1, <1>4, Names DEF Hosted, Recorded, Sets
<1>8. Good(w, p, r, c) /\ w \in State
  BY <1>6, <1>7 DEF Good, Core
<1> QED
  BY <1>3, <1>8, AbortIsGood

\* The run is proven ours: the registry gets its record.
LEMMA OursIsGood ==
  ASSUME NEW s \in State, NEW p, NEW r, NEW c, Core(s, p, r, c), Slotted(s, p), Open(s),
         NEW k \in Keys, s.host.by = k, ~ s.host.entered, k \notin s.inbox,
         s.flight.k = k, s.flight.phase = "dispatched"
  PROVE  Good([s EXCEPT !.flight.phase = "authorized",
                        !.record = [NoRecord EXCEPT !.k = k, !.epoch = epoch]], p, r, c)
<1> DEFINE f == s.flight
           g == [f EXCEPT !.phase = "authorized"]
           record == [NoRecord EXCEPT !.k = k, !.epoch = epoch]
           t == With(s, g, record, s.host, s.inbox)
<1>0. epoch \in 1 .. Epochs /\ c \in [Keys -> 0 .. MaxCalls]
  BY DEF Core, Types
<1>1. record \in Records /\ record.k = k /\ record.epoch = epoch
  <2>1. epoch \in 0 .. Epochs
    BY <1>0, DispatchAssumption
  <2> QED
    BY <2>1, NoneIsOn DEF Records
<1>2. f \in Flight /\ f # NoFlight
  BY Fields, NoneFlies
<1>3. g \in Flight /\ g.k = k /\ g.recorded = f.recorded /\ g.stuck = f.stuck
      /\ g.called = f.called /\ g.cause = f.cause /\ g.phase = "authorized"
      /\ g.merged = f.merged /\ g.handed = f.handed
  BY <1>2 DEF Flight
<1>4. [s EXCEPT !.flight.phase = "authorized",
                !.record = [NoRecord EXCEPT !.k = k, !.epoch = epoch]] = t
  BY DEF With, State
<1> HIDE DEF g, record
<1>5. g # NoFlight /\ g \in Flights
  BY <1>3, PutInFlight
<1>6. Sets(s, g, record, s.host, s.inbox, t)
  BY <1>1, <1>5, Fields, Set
<1> HIDE DEF t
<1>7. t \in State /\ SameFates(s, t)
  BY <1>6 DEF Sets
<1>8. \A j \in Keys : Away(t, c, j) => Away(s, c, j)
  BY <1>3, <1>6 DEF Sets, Away
<1>9. Telling(t, r, c)
  BY <1>7 DEF Telling, Core, SameFates
<1>10. ~ f.called /\ ~ f.recorded /\ ~ f.merged /\ ~ f.handed
  BY <1>2 DEF Open, Core, Flown
<1>11. Flown(t, p, r, c)
  BY <1>2, <1>3, <1>5, <1>6, <1>7, <1>10 DEF Flown, Core, Sets, SameFates
<1>12. Core(t, p, r, c)
  BY <1>0, <1>3, <1>6, <1>7, <1>8, <1>9, <1>11, Calm DEF Sets
<1>13. Slotted(t, p)
  BY <1>2, <1>3, <1>6, <1>7, SlotKept DEF Sets, SameFates
<1>14. Hosted(t) /\ Open(t)
  BY <1>1, <1>3, <1>6, Names DEF Hosted, Open, Sets
<1>15. Recorded(t)
  BY <1>1, <1>3, <1>6, <1>10 DEF Recorded, Watched, Supervised, Sets
<1> QED
  BY <1>4, <1>12, <1>13, <1>14, <1>15 DEF Good

LEMMA OwnStartKeeps ==
  ASSUME IInv, NEW k \in Keys, OwnStart(k)
  PROVE  Good(d', pump, runs, history.calls)
<1> DEFINE c == history.calls
           host == [NoHost EXCEPT !.by = k]
           u == With(d, d.flight, d.record, host, d.inbox \ {k})
<1>1. Good(d, pump, runs, c) /\ d \in State
  BY DEF IInv, Good, Core
<1>2. [d EXCEPT !.inbox = d.inbox \ {k}, !.host = [NoHost EXCEPT !.by = k]] = u
  BY <1>1 DEF With, State
<1>3. host \in Hosts /\ host.by = k /\ ~ host.entered
  BY DEF Hosts, NoHost
<1> HIDE DEF host
<1>4. Sets(d, d.flight, d.record, host, d.inbox \ {k}, u)
  BY <1>1, <1>3, Fields, Set
<1>5. Alike(d.flight, d.flight)
  BY <1>1, Fields, SameIsTame DEF Tame
<1> HIDE DEF u
<1>6. k \in d.inbox
  BY DEF OwnStart
<1>7. Core(u, pump, runs, c) /\ Slotted(u, pump) /\ Open(u)
  BY <1>1, <1>3, <1>4, <1>5, <1>6, AlikeIsGood DEF Good, Away
<1>8. Recorded(u) /\ u \in State
  BY <1>1, <1>4 DEF Good, Recorded, Sets, SameFates, Handed, Watched
<1>9. PICK lost \in BOOLEAN :
        LET s == Stopped(EnforceDeadlines(u, lost), lost)
            proven == s.flight.k = k /\ s.flight.phase = "dispatched"
        IN  d' = IF proven /\ Moved(s)
                 THEN Orphan(RecordOf(CloseFlight(s), s.flight, "unknown"), k, lost)
                 ELSE IF proven
                 THEN [s EXCEPT !.flight.phase = "authorized",
                                !.record = [NoRecord EXCEPT !.k = k, !.epoch = epoch]]
                 ELSE Orphan(s, k, lost)
  BY <1>2 DEF OwnStart
<1> DEFINE v == EnforceDeadlines(u, lost)
           s == Stopped(v, lost)
<1>10. /\ Core(v, pump, runs, c) /\ Recorded(v) /\ Open(v) /\ Slotted(v, pump)
       /\ Handled(u, v)
  BY <1>7, <1>8, Enforced DEF Enforces
<1>11. d' = IF s.flight.k = k /\ s.flight.phase = "dispatched" /\ Moved(s)
            THEN Orphan(RecordOf(CloseFlight(s), s.flight, "unknown"), k, lost)
            ELSE IF s.flight.k = k /\ s.flight.phase = "dispatched"
            THEN [s EXCEPT !.flight.phase = "authorized",
                           !.record = [NoRecord EXCEPT !.k = k, !.epoch = epoch]]
            ELSE Orphan(s, k, lost)
  BY <1>9
<1> HIDE DEF v
<1>12. /\ Core(s, pump, runs, c) /\ Recorded(s) /\ Open(s) /\ Slotted(s, pump)
       /\ Handled(v, s)
  BY <1>10, StoppedIsGood DEF Core
<1> HIDE DEF s
<1>13. s.host.by = k /\ ~ s.host.entered /\ k \notin s.inbox /\ s \in State
  BY <1>3, <1>4, <1>10, <1>12 DEF Handled, Sets, Core
<1>14. CASE s.flight.k = k /\ s.flight.phase = "dispatched" /\ Moved(s)
  <2> DEFINE q == RecordOf(CloseFlight(s), s.flight, "unknown")
  <2>1. d' = Orphan(q, k, lost)
    BY <1>11, <1>14
  <2>2. s.flight # NoFlight /\ "unknown" \in Outcome
    BY <1>14, NoneFlies DEF Outcome
  <2>3. /\ Core(q, pump, runs, c) /\ Open(q) /\ Slotted(q, pump)
        /\ q.host = s.host /\ q.inbox = s.inbox
    BY <1>12, <1>13, <2>2, RecordedIsHeld, EndIsGood
  <2> HIDE DEF q
  <2> QED
    BY <1>13, <2>1, <2>3, OrphanIsGood DEF Core
<1>15. CASE s.flight.k = k /\ s.flight.phase = "dispatched" /\ ~ Moved(s)
  <2>1. d' = [s EXCEPT !.flight.phase = "authorized",
                       !.record = [NoRecord EXCEPT !.k = k, !.epoch = epoch]]
    BY <1>11, <1>15
  <2> QED
    BY <1>12, <1>13, <1>15, <2>1, OursIsGood
<1>16. CASE ~ (s.flight.k = k /\ s.flight.phase = "dispatched")
  <2>1. d' = Orphan(s, k, lost)
    BY <1>11, <1>16
  <2> QED
    BY <1>12, <1>13, <2>1, OrphanIsGood
<1> QED
  BY <1>14, <1>15, <1>16

\* Who may call the model: nothing has been said of its end.
LEMMA MayCall ==
  ASSUME NEW s \in State, NEW p, NEW r, NEW c, Good(s, p, r, c), ~ Refused(s),
         NEW k \in Keys, s.host.by = k
  PROVE  /\ s.record.k = k
         /\ Handed(s) \/ Watched(s)
         /\ s.said[k] \in {"none", "continued"} /\ r.state[k] # "dropped"
         /\ s.flight # NoFlight /\ s.flight.k = k =>
              s.flight.recorded \/ (Mine(s) /\ s.flight.phase \in {"authorized", "bound"})
<1>1. s.record.k = k /\ k # "none"
  BY Names DEF Good, Hosted
<1>2. ~ s.record.voided
  BY <1>1 DEF Refused
<1>3. Handed(s) \/ Watched(s)
  BY <1>1, <1>2 DEF Good, Recorded
<1>4. Watched(s) => s.flight # NoFlight /\ s.flight.k = k
  BY <1>1, NoneFlies DEF Watched
<1>5. s.flight # NoFlight => (s.flight.recorded <=> s.said[s.flight.k] # "none")
  BY DEF Good, Core, Flown
<1>6. s.said[k] \in {"none", "continued"}
  BY <1>1, <1>3, <1>4, <1>5 DEF Handed, Watched
<1>7. r.state[k] # "dropped"
  <2>1. Away(s, c, k)
    BY DEF Away
  <2>2. CASE Kind(k) = "handoff"
    BY <2>2 DEF Good, Core, Quiet
  <2>3. CASE Kind(k) = "message"
    BY <1>6, <2>1, <2>3 DEF Good, Core, Sending
  <2> QED
    BY <2>2, <2>3, Kinds DEF Good, Core
<1>8. s.flight # NoFlight /\ s.flight.k = k =>
        s.flight.recorded \/ (Mine(s) /\ s.flight.phase \in {"authorized", "bound"})
  BY <1>1, <1>3, <1>5 DEF Handed, Watched, Mine, Supervised
<1> QED
  BY <1>1, <1>3, <1>6, <1>7, <1>8

\* The model call, of b, is made.
LEMMA CallIsGood ==
  ASSUME NEW s \in State, NEW p, NEW r, NEW c, Good(s, p, r, c), ~ Refused(s), s.host.by # "none",
         s.host.by \in Keys => s.host.entered,
         NEW b \in [Keys -> 0 .. MaxCalls],
         \A k \in Keys : IF s.host.by = k THEN b[k] > 0 ELSE b[k] = c[k],
         NEW t, t = [s EXCEPT !.flight.called =
                      s.flight.called \/ (Mine(s) /\ s.flight.phase \in {"authorized", "bound"})]
  PROVE  Good(t, p, r, b)
<1> DEFINE f == s.flight
           mine == Mine(s) /\ f.phase \in {"authorized", "bound"}
           called == f.called \/ mine
           g == [f EXCEPT !.called = called]
<1>1. f \in Flights /\ c \in [Keys -> 0 .. MaxCalls]
  BY Fields DEF Good, Core, Types
<1>2. /\ g \in Flights /\ g.k = f.k /\ g.recorded = f.recorded /\ g.stuck = f.stuck
      /\ g.cause = f.cause /\ g.phase = f.phase
      /\ g.merged = f.merged /\ g.handed = f.handed
      /\ g = NoFlight <=> f = NoFlight
      /\ g.called <=> called
  <2>1. CASE f = NoFlight
    <3>1. called = FALSE
      BY <2>1 DEF NoFlight
    <3> HIDE DEF called
    <3>2. g = [NoFlight EXCEPT !.called = FALSE]
      BY <2>1, <3>1, Zenon
    <3>3. f.called = FALSE
      BY <2>1 DEF NoFlight
    <3> HIDE DEF g, f
    <3> QED
      BY <1>1, <2>1, <3>1, <3>2, <3>3, NoneChanges
  <2>2. CASE f # NoFlight
    <3>1. f \in Flight
      BY <1>1, <2>2, NoneFlies
    <3>2. called \in BOOLEAN
      BY <3>1 DEF Flight
    <3> HIDE DEF called
    <3>3. g \in Flight /\ g.k = f.k /\ g.recorded = f.recorded /\ g.stuck = f.stuck
          /\ g.cause = f.cause /\ g.phase = f.phase
          /\ g.merged = f.merged /\ g.handed = f.handed /\ g.called = called
      BY <3>1, <3>2 DEF Flight
    <3> HIDE DEF g
    <3> QED
      BY <2>2, <3>2, <3>3, PutInFlight
  <2> QED
    BY <2>1, <2>2
<1>3. t = [s EXCEPT !.flight = g]
  OBVIOUS
<1> HIDE DEF g
<1>4. t \in State
  BY <1>2, <1>3, Put
<1>5. SameFates(s, t) /\ t.flight = g /\ t.record = s.record /\ t.host = s.host
      /\ t.inbox = s.inbox /\ t.slot = s.slot
  BY <1>3 DEF SameFates, State
<1>6. \A k \in Keys : Away(t, b, k) => Away(s, c, k)
  BY <1>2, <1>5 DEF Away
<1>7. Telling(t, r, b)
  <2> SUFFICES ASSUME NEW k \in Keys, s.said[k] = "dropped" \/ r.state[k] = "dropped"
               PROVE  b[k] = 0
    BY <1>5 DEF Telling, SameFates
  <2>1. s.host.by # k
    BY MayCall
  <2>2. c[k] = 0
    BY DEF Good, Core, Telling
  <2> QED
    BY <2>1, <2>2
<1>8. Flown(t, p, r, b)
  <2>1. Flown(s, p, r, c)
    BY DEF Good, Core
  <2>2. ASSUME f # NoFlight
        PROVE  /\ g.called => g.phase \in {"bound", "aborting"} /\ b[g.k] > 0
               /\ g.called /\ g.phase = "aborting" => g.recorded \/ g.cause = "max"
               /\ g.called \/ g.recorded \/ b[g.k] = 0
    <3> PICK k \in Keys : k = f.k
      BY <1>1, <2>2, NoneFlies
    <3>0. c[k] \in 0 .. MaxCalls /\ b[k] \in 0 .. MaxCalls
      BY <1>1
    <3>1. CASE s.host.by = k
      <4>1. f.recorded \/ mine
        BY <2>2, <3>1, MayCall
      <4>2. mine => f.phase = "bound"
        BY <2>1, <2>2, <3>1 DEF Flown
      <4>3. b[k] > 0
        BY <3>1
      <4> HIDE DEF mine
      <4> QED
        BY <1>2, <2>1, <2>2, <4>1, <4>2, <4>3 DEF Flown
    <3>2. CASE s.host.by # k
      <4>1. ~ mine
        <5>1. s.host.by \in Keys => s.record.k # k
          BY <3>2 DEF Good, Hosted
        <5>2. s.host.by \notin Keys => s.record.k = "none"
          BY Fields, NoneIsOn DEF Good, Hosted, Hosts
        <5> QED
          BY <5>1, <5>2, Names DEF Mine
      <4>2. b[k] = c[k]
        BY <3>2
      <4> HIDE DEF mine
      <4> QED
        BY <1>2, <2>1, <2>2, <4>1, <4>2 DEF Flown
    <3> QED
      BY <3>1, <3>2
  <2> QED
    BY <1>2, <1>5, <2>1, <2>2 DEF Flown, SameFates
<1>9. Core(t, p, r, b)
  <2>1. g.k = f.k /\ g.recorded = f.recorded
    BY <1>2
  <2>2. Core(s, p, r, c) /\ t.flight.k = s.flight.k /\ t.flight.recorded = s.flight.recorded
    BY <1>5, <2>1 DEF Good
  <2>3. b \in [Keys -> 0 .. MaxCalls]
    BY <1>1
  <2> QED
    BY <1>4, <1>5, <1>6, <1>7, <1>8, <2>2, <2>3, Calm
<1>10. Slotted(t, p)
  BY <1>2, <1>5, SlotKept DEF Good, SameFates
<1>11. Hosted(t) /\ Open(t)
  BY <1>2, <1>5 DEF Good, Hosted, Open
<1>12. Recorded(t)
  BY <1>2, <1>5 DEF Good, Recorded, Handed, Watched, Supervised, SameFates
<1> QED
  BY <1>9, <1>10, <1>11, <1>12 DEF Good

\* How the handler of the model call goes on, after the deadlines.
LEMMA ContextCases ==
  ASSUME IInv, Context
  PROVE  \E s \in State :
           /\ Good(s, pump, runs, history.calls) /\ Enforces(d, s)
           /\ \/ /\ Fenced(s) /\ history' = history
                 /\ d' = AbortRun(RecordOf(s, s.flight, "unknown"), "fenced", FALSE)
              \/ /\ d' = Abort(s, FALSE) /\ history' = history
              \/ /\ ~ Fenced(s) /\ ~ Refused(s)
                 /\ d' = [s EXCEPT !.flight.called =
                           s.flight.called \/ (Mine(s) /\ s.flight.phase \in {"authorized", "bound"})]
                 /\ history' = IF d.host.by \in Keys
                               THEN [history EXCEPT !.calls[d.host.by] = history.calls[d.host.by] + 1]
                               ELSE history
<1>1. Good(d, pump, runs, history.calls) /\ d \in State
  BY DEF IInv, Good, Core
<1>2. PICK lost \in BOOLEAN :
        LET s == EnforceDeadlines(d, lost)
            k == d.host.by
        IN  IF Fenced(s) \/ Refused(s)
            THEN /\ d' = IF Fenced(s) THEN AbortRun(RecordOf(s, s.flight, "unknown"), "fenced", FALSE)
                         ELSE Abort(s, FALSE)
                 /\ UNCHANGED history
            ELSE /\ d' = [s EXCEPT !.flight.called = s.flight.called \/ (Mine(s) /\ s.flight.phase \in {"authorized", "bound"})]
                 /\ history' = IF k \in Keys THEN [history EXCEPT !.calls[k] = history.calls[k] + 1] ELSE history
  BY DEF Context
<1> DEFINE s == EnforceDeadlines(d, lost)
<1>3. /\ Core(s, pump, runs, history.calls) /\ Recorded(s) /\ Open(s) /\ Slotted(s, pump)
      /\ Enforces(d, s)
  BY <1>1, Enforced DEF Good
<1>4. \/ /\ Fenced(s) /\ history' = history
         /\ d' = AbortRun(RecordOf(s, s.flight, "unknown"), "fenced", FALSE)
      \/ /\ d' = Abort(s, FALSE) /\ history' = history
      \/ /\ ~ Fenced(s) /\ ~ Refused(s)
         /\ d' = [s EXCEPT !.flight.called =
                   s.flight.called \/ (Mine(s) /\ s.flight.phase \in {"authorized", "bound"})]
         /\ history' = IF d.host.by \in Keys
                       THEN [history EXCEPT !.calls[d.host.by] = history.calls[d.host.by] + 1]
                       ELSE history
  BY <1>2
<1> HIDE DEF s
<1>5. Good(s, pump, runs, history.calls) /\ s \in State
  BY <1>1, <1>3, StaysHosted DEF Good, Enforces, Core
<1> QED
  BY <1>3, <1>4, <1>5

LEMMA ContextKeeps ==
  ASSUME IInv, Context
  PROVE  Good(d', pump, runs, history'.calls)
<1> DEFINE c == history.calls
<1>1. PICK s \in State :
        /\ Good(s, pump, runs, c) /\ Enforces(d, s)
        /\ \/ /\ Fenced(s) /\ history' = history
              /\ d' = AbortRun(RecordOf(s, s.flight, "unknown"), "fenced", FALSE)
           \/ /\ d' = Abort(s, FALSE) /\ history' = history
           \/ /\ ~ Fenced(s) /\ ~ Refused(s)
              /\ d' = [s EXCEPT !.flight.called =
                        s.flight.called \/ (Mine(s) /\ s.flight.phase \in {"authorized", "bound"})]
              /\ history' = IF d.host.by \in Keys
                            THEN [history EXCEPT !.calls[d.host.by] = history.calls[d.host.by] + 1]
                            ELSE history
  BY ContextCases
<1>2. CASE /\ Fenced(s) /\ history' = history
           /\ d' = AbortRun(RecordOf(s, s.flight, "unknown"), "fenced", FALSE)
  <2> DEFINE u == RecordOf(s, s.flight, "unknown")
  <2>1. s.flight # NoFlight /\ "unknown" \in Outcome
    BY <1>2, NoneFlies DEF Fenced, Uncalled, Outcome
  <2>2. Core(u, pump, runs, c) /\ Marks(s, "unknown", u) /\ Held(u) /\ Slotted(u, pump)
    BY <1>1, <2>1, RecordedIsHeld, MarkIsGood DEF Good
  <2>3. d' = AbortRun(u, "fenced", FALSE)
    BY <1>2
  <2> HIDE DEF u
  <2>4. u \in State /\ u.flight # NoFlight /\ u.flight.recorded
    BY <2>2, PutInFlight DEF Marks
  <2>5. Core(d', pump, runs, c) /\ Void(d') /\ Open(d') /\ Slotted(d', pump) /\ Enforces(u, d')
    BY <2>2, <2>3, <2>4, CutIsGood
  <2>6. Hosted(u)
    BY <1>1, <2>2 DEF Good, Hosted, Marks
  <2> QED
    BY <1>2, <2>5, <2>6, StaysHosted, VoidIsRecorded DEF Good, Enforces
<1>3. CASE d' = Abort(s, FALSE) /\ history' = history
  BY <1>1, <1>3, AbortIsGood
<1>4. CASE /\ ~ Fenced(s) /\ ~ Refused(s)
           /\ d' = [s EXCEPT !.flight.called =
                     s.flight.called \/ (Mine(s) /\ s.flight.phase \in {"authorized", "bound"})]
           /\ history' = IF d.host.by \in Keys
                         THEN [history EXCEPT !.calls[d.host.by] = history.calls[d.host.by] + 1]
                         ELSE history
  <2> DEFINE b == history'.calls
  <2>1. /\ history \in [calls : [Keys -> 0 .. MaxCalls], given : SUBSET Keys, latest : Keys \cup {"none"}, swept : SUBSET Keys]
        /\ d.host.by # "none"
        /\ d.host.by \in Keys => d.host.entered /\ c[d.host.by] < MaxCalls
    BY DEF IInv, TypeOK, Context
  <2>2. s.host.by = d.host.by /\ s.host.entered = d.host.entered
    BY <1>1 DEF Enforces, Handled
  <2>3. MaxCalls \in Nat
    BY DispatchAssumption
  <2>4. /\ b \in [Keys -> 0 .. MaxCalls]
        /\ \A k \in Keys : IF s.host.by = k THEN b[k] > 0 ELSE b[k] = c[k]
    <3>1. CASE d.host.by \notin Keys
      BY <1>4, <2>1, <2>2, <3>1
    <3>2. CASE d.host.by \in Keys
      <4> PICK k \in Keys : k = d.host.by
        BY <3>2
      <4>1. b = [c EXCEPT ![k] = c[k] + 1]
        BY <1>4, <2>1, <3>2
      <4>2. c \in [Keys -> 0 .. MaxCalls] /\ c[k] + 1 \in 0 .. MaxCalls /\ c[k] + 1 > 0
        BY <2>1, <2>3
      <4> HIDE DEF b, c
      <4> QED
        BY <2>2, <4>1, <4>2
    <3> QED
      BY <3>1, <3>2
  <2> HIDE DEF b
  <2> QED
    BY <1>1, <1>4, <2>1, <2>2, <2>4, CallIsGood DEF b
<1> QED
  BY <1>1, <1>2, <1>3, <1>4

-------------------------------------------------------------------------------
(* The stack *)

\* The parts of the invariant depend on the setup, the epoch and the disposed epochs.
LEMMA Carried ==
  ASSUME setup' = setup, epoch' = epoch, disposed \subseteq disposed',
         Good(d', pump', runs', history'.calls)
  PROVE  Good(d, pump, runs, history.calls)'
<1>1. Types(pump, runs, history.calls)' /\ (d \in State)'
  BY DEF Good, Core, Types
<1>2. OneOfTask(d.queue)'
  BY DEF Good, Core, OneOfTask, Kind
<1>3. Waiting(d, runs, history.calls)'
  BY DEF Good, Core, Waiting, Kind, Away
<1>4. Pumped(d, pump, history.calls)'
  BY DEF Good, Core, Pumped, Kind, Away, AtPump
<1>5. Sending(d, runs, history.calls)'
  BY DEF Good, Core, Sending, Kind, Away
<1>6. Hearing(d, pump, runs)'
  BY DEF Good, Core, Hearing, Kind, AtPump
<1>7. Telling(d, runs, history.calls)'
  BY DEF Good, Core, Telling
<1>8. Logged(d, pump, runs, history.calls)'
  BY DEF Good, Core, Logged, Entry, Kind, Away
<1>9. Quiet(runs)'
  BY DEF Good, Core, Quiet, Kind
<1>10. Flown(d, pump, runs, history.calls)'
  BY DEF Good, Core, Flown
<1>11. Hosted(d)' /\ Open(d)'
  BY DEF Good, Hosted, Open
<1>12. Recorded(d)'
  BY DEF Good, Recorded, Handed, Watched, Supervised
<1>13. Slotted(d, pump)'
  BY DEF Good, Slotted
<1> QED
  BY <1>1, <1>2, <1>3, <1>4, <1>5, <1>6, <1>7, <1>8, <1>9, <1>10, <1>11, <1>12, <1>13 DEF Good, Core

LEMMA SessionShutdownKeeps ==
  ASSUME IInv, SessionShutdown
  PROVE  Good(d', pump, runs, history.calls)
<1>1. Good(d, pump, runs, history.calls) /\ d \in State /\ epoch \in 1 .. Epochs
  BY DEF IInv, Good, Core, Types
<1>2. PICK lost \in BOOLEAN : d' = Shutdown(d, lost)
  BY DEF SessionShutdown
<1>3. Core(d', pump, runs, history.calls) /\ Recorded(d') /\ Open(d') /\ Shuts(d, d')
  BY <1>1, <1>2, ShutIsGood DEF Good
<1>4. Slotted(d', pump) /\ Hosted(d')
  BY <1>1, <1>3, ShutSlot, StaysHosted DEF Good, Shuts
<1> QED
  BY <1>3, <1>4 DEF Good

\* The next scheduler finds nothing of the old one's.
LEMMA AttachKeeps ==
  ASSUME IInv, Attach
  PROVE  Good(d, pump, runs, history.calls)'
<1> DEFINE c == history.calls
<1>1. Good(d, pump, runs, c) /\ d \in State /\ epoch \in 1 .. Epochs /\ setup \in Setups
  BY DEF IInv, Good, Core, Types
<1>2. PICK lost \in BOOLEAN :
        d' = [(IF d.shut THEN d ELSE Shutdown(d, lost)) EXCEPT !.shut = FALSE, !.told = {}]
  BY DEF Attach
<1> DEFINE x == IF d.shut THEN d ELSE Shutdown(d, lost)
<1>3. /\ Core(x, pump, runs, c) /\ Recorded(x) /\ Hosted(x)
      /\ x.flight = NoFlight /\ x.queue = <<>> /\ x.slot.epoch <= epoch
  <2>1. CASE d.shut
    BY <1>1, <2>1 DEF Good, Core, Flown, Slotted
  <2>2. CASE ~ d.shut
    <3>1. x = Shutdown(d, lost)
      BY <2>2
    <3> HIDE DEF x
    <3>2. Core(x, pump, runs, c) /\ Recorded(x) /\ Shuts(d, x)
      BY <1>1, <3>1, ShutIsGood DEF Good
    <3>3. Slotted(x, pump) /\ Hosted(x)
      BY <1>1, <3>2, ShutSlot, StaysHosted DEF Good, Shuts
    <3> QED
      BY <3>2, <3>3 DEF Shuts, Slotted
  <2> QED
    BY <2>1, <2>2
<1>4. d' = [x EXCEPT !.shut = FALSE, !.told = {}]
  BY <1>2
<1> HIDE DEF x
<1>5. x \in State
  BY <1>3 DEF Core
<1>6. d' \in State
  <2> DEFINE y == [x EXCEPT !.shut = FALSE]
  <2>1. y \in State
    BY <1>5, Put
  <2>2. d' = [y EXCEPT !.told = {}]
    BY <1>4
  <2> HIDE DEF y
  <2> QED
    BY <2>1, <2>2, Put
<1>7. /\ d'.queue = <<>> /\ d'.flight = NoFlight /\ d'.slot = x.slot /\ d'.record = x.record
      /\ d'.host = x.host /\ d'.inbox = x.inbox /\ d'.arrived = x.arrived /\ d'.ended = x.ended
      /\ d'.writes = x.writes /\ d'.heard = x.heard /\ d'.said = x.said
      /\ d'.shut = FALSE
  BY <1>3, <1>4, <1>5 DEF State
<1>8. setup' = setup /\ epoch' = epoch + 1 /\ pump' = pump /\ runs' = runs /\ history' = history
      /\ epoch < setup.epochs /\ disposed' = disposed
  BY DEF Attach
<1>9. epoch' \in 1 .. Epochs
  <2>1. setup.epochs \in 1 .. Epochs
    BY <1>1, DispatchAssumption DEF Setup
  <2> QED
    BY <1>1, <1>8, <2>1, DispatchAssumption
<1>10. pump[epoch'] = NoPump
  BY <1>1, <1>3, <1>8, <1>9 DEF Core, Logged
<1>11. \A k \in Keys : /\ ~ Contains(d'.queue, k) /\ ~ Contains(x.queue, k)
                       /\ Away(d, c, k)' <=> Away(x, c, k)
                       /\ d'.flight.k # k /\ x.flight.k # k
  BY <1>3, <1>7, <1>8, NoneFlies, Names DEF Contains, Away
<1>12. Types(pump, runs, c)'
  BY <1>3, <1>8, <1>9 DEF Types, Core
<1>13. OneOfTask(d.queue)'
  BY <1>7 DEF OneOfTask
<1>14. Waiting(d, runs, c)'
  BY <1>11 DEF Waiting
<1>15. Pumped(d, pump, c)'
  <2>1. \A k \in Keys : pump[epoch'].k # k
    BY <1>10, Names DEF NoPump
  <2> QED
    BY <1>3, <1>7, <1>8, <1>11, <2>1 DEF Core, Pumped, AtPump, Kind
<1>16. Sending(d, runs, c)'
  BY <1>3, <1>7, <1>8, <1>11 DEF Core, Sending, Kind
<1>17. Hearing(d, pump, runs)'
  BY <1>3, <1>7, <1>8, <1>11 DEF Core, Hearing, AtPump, Kind
<1>18. Telling(d, runs, c)'
  BY <1>3, <1>7, <1>8 DEF Core, Telling
<1>19. Logged(d, pump, runs, c)'
  <2>1. \A e \in 1 .. Epochs : \A i \in DOMAIN x.writes[e] : x.writes[e][i].k \in Keys
    BY <1>5, Writes
  <2>2. ASSUME NEW e \in 1 .. Epochs, NEW i \in DOMAIN x.writes[e]
        PROVE  Entry(d, pump, runs, c, e, d.writes[e][i])'
    <3>1. Entry(x, pump, runs, c, e, x.writes[e][i])
      BY <1>3 DEF Core, Logged
    <3> QED
      BY <1>7, <1>8, <1>11, <2>1, <3>1 DEF Entry, Kind
  <2>3. Logged(x, pump, runs, c)
    BY <1>3 DEF Core
  <2>4. \A e \in 1 .. Epochs : e > epoch' => e > epoch
    BY <1>1, <1>8
  <2> QED
    BY <1>7, <1>8, <2>2, <2>3, <2>4 DEF Logged
<1>20. Quiet(runs)'
  BY <1>3, <1>8 DEF Core, Quiet, Kind
<1>21. Flown(d, pump, runs, c)'
  BY <1>7 DEF Flown
<1>22. Hosted(d)' /\ Open(d)'
  BY <1>3, <1>7, NoneFlies DEF Hosted, Open
<1>23. Recorded(d)'
  <2>1. Void(x)
    <3>1. ~ Watched(x)
      BY <1>3, NoneFlies DEF Watched, Supervised
    <3> QED
      BY <1>3, <3>1 DEF Recorded, Void
  <2> QED
    BY <1>7, <2>1 DEF Recorded, Void, Handed
<1>24. Slotted(d, pump)'
  <2>1. x.slot.epoch \in 0 .. Epochs
    BY <1>5, Fields DEF Slots
  <2>2. pump[epoch'].k = "none" /\ x.slot.epoch < epoch'
    BY <1>1, <1>3, <1>8, <1>10, <2>1 DEF NoPump
  <2> QED
    BY <1>7, <1>8, <1>9, <2>1, <2>2 DEF Slotted
<1> QED
  BY <1>6, <1>12, <1>13, <1>14, <1>15, <1>16, <1>17, <1>18, <1>19, <1>20, <1>21, <1>22, <1>23, <1>24
     DEF Good, Core

-------------------------------------------------------------------------------
(* The queue gets an entry *)

\* The handoff j is pushed out of the queue by k.
PushedOut(s, k, j) == Kind(k) = "handoff" /\ Kind(j) = "handoff" /\ Contains(s.queue, j) /\ j \notin s.ended

Enqueues(s, k, t) ==
  /\ t \in State
  /\ t.shut = s.shut /\ t.flight = s.flight /\ t.slot = s.slot /\ t.record = s.record
  /\ t.host = s.host /\ t.inbox = s.inbox /\ t.revoked = s.revoked /\ t.arrived = s.arrived
  /\ t.writes = s.writes
  /\ OneOfTask(t.queue)
  /\ \A j \in Keys :
       /\ Contains(t.queue, j) <=> j = k \/ (Contains(s.queue, j) /\ Kind(j) # Kind(k))
       /\ j \in t.ended <=> j \in s.ended \/ PushedOut(s, k, j)
       /\ t.heard[j] = IF PushedOut(s, k, j) THEN s.heard[j] + 1 ELSE s.heard[j]
       /\ t.said[j] = IF PushedOut(s, k, j) /\ s.said[j] = "none" THEN "dropped" ELSE s.said[j]

LEMMA Enqueued ==
  ASSUME NEW s \in State, OneOfTask(s.queue), NEW k \in Keys, ~ Contains(s.queue, k)
  PROVE  Enqueues(s, k, EnqueueEntry(s, k))
<1> DEFINE Old == {j \in Task(Kind(k)) : Contains(s.queue, j)}
           u == [s EXCEPT !.queue = Merge(s.queue, k)]
           t == EndHandoffs(u, Old)
<1>1. s.queue \in Seq(Keys)
  BY Fields
<1>2. /\ Merge(s.queue, k) \in Seq(Keys)
      /\ OneOfTask(Merge(s.queue, k))
      /\ \A j \in Keys : Contains(Merge(s.queue, k), j) <=> j = k \/ (Contains(s.queue, j) /\ Kind(j) # Kind(k))
  BY <1>1, Merged
<1>3. EnqueueEntry(s, k) = IF Kind(k) = "handoff" THEN t ELSE u
  BY DEF EnqueueEntry, Merge
<1>4. u \in State
  BY <1>2, Put
<1>5. /\ u.shut = s.shut /\ u.flight = s.flight /\ u.slot = s.slot /\ u.record = s.record
      /\ u.host = s.host /\ u.inbox = s.inbox /\ u.revoked = s.revoked /\ u.arrived = s.arrived
      /\ u.writes = s.writes /\ u.queue = Merge(s.queue, k)
      /\ u.ended = s.ended /\ u.heard = s.heard /\ u.said = s.said
  BY DEF State
<1> HIDE DEF u
<1>6. CASE Kind(k) # "handoff"
  BY <1>2, <1>3, <1>4, <1>5, <1>6 DEF Enqueues, PushedOut
<1>7. CASE Kind(k) = "handoff"
  <2>1. \A j \in Keys : j \in Old \ s.ended <=> PushedOut(s, k, j)
    BY <1>7 DEF Task, PushedOut
  <2>2. Old \in SUBSET Keys
    BY DEF Task
  <2> HIDE DEF Old
  <2>3. Ends(u, Old, t)
    BY <1>4, <2>2, Ended
  <2> HIDE DEF t
  <2>4. /\ t \in State
        /\ t.shut = u.shut /\ t.flight = u.flight /\ t.slot = u.slot /\ t.record = u.record
        /\ t.host = u.host /\ t.inbox = u.inbox /\ t.revoked = u.revoked /\ t.arrived = u.arrived
        /\ t.writes = u.writes /\ t.queue = u.queue
    BY <2>3 DEF Ends, State
  <2>5. \A j \in Keys :
          /\ j \in t.ended <=> j \in s.ended \/ PushedOut(s, k, j)
          /\ t.heard[j] = IF PushedOut(s, k, j) THEN s.heard[j] + 1 ELSE s.heard[j]
          /\ t.said[j] = IF PushedOut(s, k, j) /\ s.said[j] = "none" THEN "dropped" ELSE s.said[j]
    BY <1>5, <2>1, <2>3 DEF Ends
  <2> QED
    BY <1>2, <1>3, <1>5, <1>7, <2>4, <2>5 DEF Enqueues
<1> QED
  BY <1>6, <1>7

\* Nothing has become of k, and no pump has it in its hands.
Fresh(s, p, c, k) ==
  /\ ~ Away(s, c, k) /\ k \notin s.ended /\ s.said[k] = "none"
  /\ ~ AtPump(p, k) /\ ~ Contains(s.queue, k) /\ k \notin s.arrived

\* The run k is claimed, or is already, and others that were queued may be dropped.
Claims(r, k, r2) ==
  /\ r2 \in [owner : [Keys -> 0 .. Epochs],
             state : [Keys -> {"none", "queued", "dispatched"} \cup Outcome]]
  /\ r.owner[k] \in {0, epoch} /\ r2.owner[k] = epoch
  /\ \A j \in Keys :
       /\ j # k => r2.owner[j] = r.owner[j]
       /\ \/ r2.state[j] = r.state[j]
          \/ r.state[j] = "queued" /\ r2.state[j] = "dropped"
          \/ j = k /\ Kind(k) = "message"

\* The entry that this epoch's pump has in its hands, when it is of this kind, is dead.
Buries(p, kind, p2) ==
  /\ p2 \in [1 .. Epochs -> [k : Keys \cup {"none"}, dead : BOOLEAN, revoked : BOOLEAN]]
  /\ \A e \in 1 .. Epochs : p2[e].k = p[e].k /\ (p[e] = NoPump => p2[e] = NoPump)
  /\ \A e \in 1 .. Epochs : p2[e] = p[e] \/ (e = epoch /\ p2[e].dead)
  /\ p[epoch].k \in Keys =>
       IF Kind(p[epoch].k) = kind THEN p2[epoch].dead ELSE p2[epoch] = p[epoch]

LEMMA EnqueueKeeps ==
  ASSUME NEW s \in State, NEW p, NEW r, NEW c, Good(s, p, r, c), ~ s.shut,
         NEW k \in Keys, Fresh(s, p, c, k),
         NEW s0 \in State, s0 = [s EXCEPT !.arrived = s0.arrived],
         s0.arrived = IF Kind(k) = "handoff" THEN s.arrived \cup {k} ELSE s.arrived,
         NEW t, Enqueues(s0, k, t),
         NEW r2, Claims(r, k, r2),
         Kind(k) = "message" => r2.state[k] = "queued",
         NEW p2, Buries(p, Kind(k), p2)
  PROVE  Good(t, p2, r2, c)
<1>1. /\ t \in State
      /\ t.shut = s.shut /\ t.flight = s.flight /\ t.slot = s.slot /\ t.record = s.record
      /\ t.host = s.host /\ t.inbox = s.inbox /\ t.writes = s.writes
      /\ t.arrived = IF Kind(k) = "handoff" THEN s.arrived \cup {k} ELSE s.arrived
      /\ OneOfTask(t.queue)
  <2>1. /\ s0.shut = s.shut /\ s0.flight = s.flight /\ s0.slot = s.slot /\ s0.record = s.record
        /\ s0.host = s.host /\ s0.inbox = s.inbox /\ s0.writes = s.writes
    BY DEF State
  <2> QED
    BY <2>1 DEF Enqueues
<1>2. \A j \in Keys :
        /\ Contains(t.queue, j) <=> j = k \/ (Contains(s.queue, j) /\ Kind(j) # Kind(k))
        /\ j \in t.ended <=> j \in s.ended \/ PushedOut(s, k, j)
        /\ t.heard[j] = IF PushedOut(s, k, j) THEN s.heard[j] + 1 ELSE s.heard[j]
        /\ t.said[j] = IF PushedOut(s, k, j) /\ s.said[j] = "none" THEN "dropped" ELSE s.said[j]
  <2>1. s0.queue = s.queue /\ s0.ended = s.ended /\ s0.heard = s.heard /\ s0.said = s.said
    BY DEF State
  <2>2. \A j \in Keys : PushedOut(s0, k, j) <=> PushedOut(s, k, j)
    BY <2>1 DEF PushedOut
  <2> QED
    BY <2>1, <2>2 DEF Enqueues
<1>3. /\ epoch \in 1 .. Epochs /\ epoch # 0 /\ c \in [Keys -> 0 .. MaxCalls] /\ setup \in Setups
      /\ p \in [1 .. Epochs -> [k : Keys \cup {"none"}, dead : BOOLEAN, revoked : BOOLEAN]]
      /\ Core(s, p, r, c)
  BY DEF Good, Core, Types
<1>4. \A j \in Keys : Kind(j) \in {"message", "handoff"}
  BY <1>3, Kinds DEF Core
<1>5. \A j \in Keys : Contains(s.queue, j) =>
        /\ ~ Away(s, c, j) /\ j \notin s.ended /\ s.said[j] = "none" /\ r.owner[j] = epoch
        /\ Kind(j) = "handoff" => j \in s.arrived /\ s.heard[j] = 0
        /\ j # k
  BY <1>3 DEF Core, Waiting, Hearing, Fresh
<1>6. \A j \in Keys : (Away(t, c, j) <=> Away(s, c, j)) /\ (AtPump(p2, j) <=> AtPump(p, j))
  BY <1>1 DEF Away, AtPump, Buries
<1>7. Remembers(s, t) /\ Stable(s, t, c)
  BY <1>2, <1>6 DEF Remembers, Stable
<1>8. Types(p2, r2, c)
  BY <1>3 DEF Types, Buries, Claims
<1>9. Waiting(t, r2, c)
  <2> SUFFICES ASSUME NEW j \in Keys, Contains(t.queue, j)
               PROVE  /\ ~ Away(t, c, j) /\ j \notin t.ended /\ t.said[j] = "none"
                      /\ r2.owner[j] = epoch
                      /\ Kind(j) = "handoff" => j \in t.arrived
    BY DEF Waiting
  <2>1. CASE j = k
    BY <1>1, <1>2, <1>6, <2>1 DEF Fresh, Claims, PushedOut
  <2>2. CASE j # k
    BY <1>1, <1>2, <1>5, <1>6, <2>2 DEF Claims, PushedOut
  <2> QED
    BY <2>1, <2>2
<1>10. Pumped(t, p2, c)
  <2> SUFFICES ASSUME NEW j \in Keys, AtPump(p2, j)
               PROVE  /\ ~ Away(t, c, j)
                      /\ Kind(j) = "handoff" =>
                           \/ j \in t.ended
                           \/ /\ Contains(t.queue, j)
                              /\ ~ (p2[epoch].k = j /\ p2[epoch].dead /\ ~ p2[epoch].revoked)
                      /\ Kind(j) = "message" => t.said[j] = "none"
                      /\ p2[epoch].k = j /\ p2[epoch].dead /\ ~ p2[epoch].revoked => ~ Contains(t.queue, j)
                      /\ p2[epoch].k = j /\ ~ p2[epoch].dead /\ ~ t.shut => Contains(t.queue, j)
    BY DEF Pumped
  <2>1. /\ ~ Away(s, c, j)
        /\ Kind(j) = "handoff" =>
             j \in s.ended \/ (Contains(s.queue, j) /\ ~ (p[epoch].k = j /\ p[epoch].dead /\ ~ p[epoch].revoked))
        /\ Kind(j) = "message" => s.said[j] = "none"
        /\ p[epoch].k = j /\ p[epoch].dead /\ ~ p[epoch].revoked => ~ Contains(s.queue, j)
        /\ p[epoch].k = j /\ ~ p[epoch].dead => Contains(s.queue, j)
    BY <1>3, <1>6 DEF Core, Pumped
  <2>2. Kind(j) = "handoff" =>
          j \in t.ended \/ (Contains(t.queue, j) /\ ~ (p2[epoch].k = j /\ p2[epoch].dead /\ ~ p2[epoch].revoked))
    BY <1>2, <1>3, <1>4, <2>1 DEF PushedOut, Buries
  <2>3. Kind(j) = "message" => t.said[j] = "none"
    BY <1>2, <2>1 DEF PushedOut
  <2>4. p2[epoch].k = j /\ ~ p2[epoch].dead => Contains(t.queue, j)
    BY <1>2, <1>3, <2>1 DEF Buries
  <2>5. p2[epoch].k = j /\ p2[epoch].dead /\ ~ p2[epoch].revoked => ~ Contains(t.queue, j)
    <3>1. j # k
      BY <1>6 DEF Fresh
    <3>2. p2[epoch].k = j => p[epoch].k = j /\ (Kind(j) # Kind(k) => p2[epoch] = p[epoch])
      BY <1>3 DEF Buries
    <3> QED
      BY <1>2, <2>1, <3>1, <3>2
  <2> QED
    BY <1>6, <2>1, <2>2, <2>3, <2>4, <2>5
<1>11. \A j \in Keys : Away(s, c, j) => ~ PushedOut(s, k, j) /\ j # k
  BY <1>5 DEF PushedOut, Fresh
<1>12. Sending(t, r2, c)
  <2> SUFFICES ASSUME NEW j \in Keys, Away(s, c, j)
               PROVE  /\ j \notin t.ended /\ r2.owner[j] # 0
                      /\ Kind(j) = "handoff" => j \in t.arrived
                      /\ Kind(j) = "message" => /\ r2.state[j] \notin {"none", "queued"}
                                                /\ r2.state[j] = "dropped" => t.said[j] = "dropped"
    BY <1>6 DEF Sending
  <2>1. /\ j \notin s.ended /\ r.owner[j] # 0
        /\ Kind(j) = "handoff" => j \in s.arrived
        /\ Kind(j) = "message" => /\ r.state[j] \notin {"none", "queued"}
                                  /\ r.state[j] = "dropped" => s.said[j] = "dropped"
    BY <1>3 DEF Core, Sending
  <2> QED
    BY <1>1, <1>2, <1>11, <2>1 DEF Claims
<1>13. Hearing(t, p2, r2)
  <2> SUFFICES ASSUME NEW j \in Keys
               PROVE  /\ j \in t.ended => j \in t.arrived
                      /\ j \in t.arrived =>
                           /\ Kind(j) = "handoff"
                           /\ t.heard[j] = IF Contains(t.queue, j) \/ (t.flight.k = j /\ ~ t.flight.recorded)
                                           THEN 0 ELSE 1
                      /\ Kind(j) = "handoff" /\ j \notin t.arrived => t.heard[j] = 0 /\ t.said[j] = "none"
                      /\ r2.owner[j] = 0 => t.said[j] = "none" /\ j \notin t.arrived /\ ~ AtPump(p2, j)
    BY DEF Hearing
  <2>0. /\ j \in s.ended => j \in s.arrived
        /\ j \in s.arrived =>
             /\ Kind(j) = "handoff"
             /\ s.heard[j] = IF Contains(s.queue, j) \/ (s.flight.k = j /\ ~ s.flight.recorded) THEN 0 ELSE 1
        /\ Kind(j) = "handoff" /\ j \notin s.arrived => s.heard[j] = 0 /\ s.said[j] = "none"
        /\ r.owner[j] = 0 => s.said[j] = "none" /\ j \notin s.arrived /\ ~ AtPump(p, j)
    BY <1>3 DEF Core, Hearing
  <2>1. CASE j = k
    <3>1. ~ PushedOut(s, k, k)
      BY DEF PushedOut, Fresh
    <3> QED
      BY <1>1, <1>2, <1>3, <2>0, <2>1, <3>1 DEF Fresh, Claims
  <2>2. CASE j # k /\ PushedOut(s, k, j)
    <3>1. Contains(s.queue, j) /\ Kind(j) = "handoff" /\ Kind(k) = "handoff" /\ s.heard[j] = 0
      BY <1>5, <2>2 DEF PushedOut
    <3>2. ~ (t.flight.k = j)
      BY <1>1, <1>5, <3>1 DEF Away
    <3>3. t.heard[j] = 1 /\ ~ Contains(t.queue, j) /\ j \in s.arrived
      BY <1>2, <1>5, <2>2, <3>1
    <3>4. j \in t.arrived /\ r2.owner[j] # 0
      BY <1>1, <1>3, <1>5, <2>2, <3>1, <3>3 DEF Claims
    <3> QED
      BY <3>1, <3>2, <3>3, <3>4
  <2>3. CASE j # k /\ ~ PushedOut(s, k, j)
    <3>1. j \in s.arrived => (Contains(t.queue, j) <=> Contains(s.queue, j))
      BY <1>2, <1>4, <1>5, <2>0, <2>3 DEF PushedOut
    <3>2. j \in t.arrived <=> j \in s.arrived
      BY <1>1, <2>3
    <3> QED
      BY <1>1, <1>2, <1>6, <2>0, <2>3, <3>1, <3>2 DEF Claims
  <2> QED
    BY <2>1, <2>2, <2>3
<1>14. Telling(t, r2, c)
  <2> SUFFICES ASSUME NEW j \in Keys, t.said[j] = "dropped" \/ r2.state[j] = "dropped"
               PROVE  c[j] = 0
    BY DEF Telling
  <2>1. CASE Away(s, c, j)
    <3>1. t.said[j] = s.said[j] /\ j # k
      BY <1>2, <1>11, <2>1
    <3>2. r.state[j] = "queued" => Kind(j) = "handoff"
      BY <1>3, <1>4, <2>1 DEF Core, Sending
    <3>3. r.state[j] # "queued"
      BY <1>3, <3>2 DEF Core, Quiet
    <3> QED
      BY <1>3, <3>1, <3>3 DEF Core, Telling, Claims
  <2>2. CASE ~ Away(s, c, j)
    BY <1>3, <2>2 DEF Away
  <2> QED
    BY <2>1, <2>2
<1>15. Logged(t, p2, r2, c)
  <2>1. \A e \in 1 .. Epochs : \A i \in DOMAIN s.writes[e] : s.writes[e][i] \in LogEntry
    <3>1. \A e \in 1 .. Epochs : s.writes[e] \in Seq(LogEntry)
      BY Writes
    <3> QED
      BY <3>1
  <2>2. \A j \in Keys : r.owner[j] # 0 => r2.owner[j] = r.owner[j]
    BY DEF Claims
  <2>3. \A e \in 1 .. Epochs : e # 0
    OBVIOUS
  <2>4. ASSUME NEW e \in 1 .. Epochs, NEW i \in DOMAIN s.writes[e]
        PROVE  Entry(t, p2, r2, c, e, s.writes[e][i])
    <3> DEFINE w == s.writes[e][i]
    <3>1. Entry(s, p, r, c, e, w)
      BY <1>3 DEF Core, Logged
    <3>2. w \in LogEntry /\ w.k \in Keys
      BY <2>1 DEF LogEntry
    <3> HIDE DEF w
    <3>3. Entry(t, p, r, c, e, w)
      BY <1>7, <3>1, <3>2, EntryStays
    <3> QED
      BY <2>2, <2>3, <3>2, <3>3 DEF Entry, Buries, w
  <2>5. Logged(s, p, r, c)
    BY <1>3 DEF Core
  <2>6. \A e \in 1 .. Epochs : p2[e].k \in Keys => r2.owner[p2[e].k] = e
    BY <2>2, <2>3, <2>5 DEF Logged, Buries
  <2>7. \A e \in 1 .. Epochs : p2[e].k = "none" => p2[e] = NoPump
    BY <2>5 DEF Logged, Buries
  <2> QED
    BY <1>1, <2>4, <2>5, <2>6, <2>7 DEF Logged, Buries
<1>16. Quiet(r2)
  BY <1>3, <1>4 DEF Core, Quiet, Claims
<1>17. Flown(t, p2, r2, c)
  <2>1. s.flight # NoFlight => s.flight.k \in Keys
    BY Fields, NoneFlies
  <2>2. \A j \in Keys : r.owner[j] # 0 => r2.owner[j] = r.owner[j]
    BY DEF Claims
  <2>3. s.flight # NoFlight => t.said[s.flight.k] = s.said[s.flight.k]
    <3>1. s.flight # NoFlight => Away(s, c, s.flight.k)
      BY DEF Away
    <3> QED
      BY <1>2, <1>11, <2>1, <3>1
  <2> QED
    BY <1>1, <1>3, <2>1, <2>2, <2>3 DEF Core, Flown, Buries
<1>18. Core(t, p2, r2, c)
  BY <1>1, <1>8, <1>9, <1>10, <1>12, <1>13, <1>14, <1>15, <1>16, <1>17 DEF Core
<1>19. Hosted(t) /\ Open(t)
  BY <1>1 DEF Good, Hosted, Open
<1>20. Recorded(t)
  <2>1. Handed(s) /\ s.record.k # "none" => Handed(t)
    BY <1>1, <1>7, HandedStays
  <2> QED
    BY <1>1, <2>1 DEF Good, Recorded, Watched
<1>21. Slotted(t, p2)
  BY <1>1, <1>3 DEF Good, Slotted, Buries
<1> QED
  BY <1>18, <1>19, <1>20, <1>21 DEF Good


\* The ledger changes alone.  What was sent is not made to wait again, nor dropped unless that
\* was said.
Ledger(s, r, c, r2) ==
  /\ r2 \in [owner : [Keys -> 0 .. Epochs],
             state : [Keys -> {"none", "queued", "dispatched"} \cup Outcome]]
  /\ \A j \in Keys :
       /\ r.owner[j] # 0 => r2.owner[j] = r.owner[j]
       /\ Kind(j) = "handoff" => r2.state[j] = r.state[j]
       /\ Away(s, c, j) /\ r2.state[j] # r.state[j] =>
            /\ r2.state[j] \notin {"none", "queued"}
            /\ r2.state[j] = "dropped" => s.said[j] = "dropped"

LEMMA LedgerKeeps ==
  ASSUME NEW s \in State, NEW p, NEW r, NEW c, Core(s, p, r, c), NEW r2, Ledger(s, r, c, r2)
  PROVE  Core(s, p, r2, c)
<1>1. /\ epoch \in 1 .. Epochs /\ epoch # 0 /\ c \in [Keys -> 0 .. MaxCalls]
      /\ p \in [1 .. Epochs -> [k : Keys \cup {"none"}, dead : BOOLEAN, revoked : BOOLEAN]]
      /\ Types(p, r, c)
  BY DEF Core, Types
<1>2. Types(p, r2, c)
  BY <1>1 DEF Types, Ledger
<1>3. Waiting(s, r2, c)
  BY <1>1 DEF Core, Waiting, Ledger
<1>4. Sending(s, r2, c)
  BY <1>1 DEF Core, Sending, Ledger
<1>5. Hearing(s, p, r2)
  BY <1>1 DEF Core, Hearing, Ledger
<1>6. Telling(s, r2, c)
  <2> SUFFICES ASSUME NEW j \in Keys, r2.state[j] = "dropped", r.state[j] # "dropped"
               PROVE  c[j] = 0
    BY DEF Core, Telling
  <2>1. CASE Away(s, c, j)
    BY <2>1 DEF Core, Telling, Ledger
  <2>2. CASE ~ Away(s, c, j)
    BY <1>1, <2>2 DEF Away
  <2> QED
    BY <2>1, <2>2
<1>7. Logged(s, p, r2, c)
  <2>1. Logged(s, p, r, c)
    BY DEF Core
  <2>2. ASSUME NEW e \in 1 .. Epochs, NEW i \in DOMAIN s.writes[e]
        PROVE  Entry(s, p, r2, c, e, s.writes[e][i])
    <3> DEFINE w == s.writes[e][i]
    <3>1. Entry(s, p, r, c, e, w) /\ w.k \in Keys
      BY <2>1, Writes DEF Logged
    <3> HIDE DEF w
    <3>2. Entry(s, p, r2, c, e, w)
      BY <3>1 DEF Entry, Ledger
    <3> QED
      BY <3>2 DEF w
  <2>3. \A e \in 1 .. Epochs : p[e].k \in Keys => r2.owner[p[e].k] = e
    BY <2>1 DEF Logged, Ledger
  <2> QED
    BY <2>1, <2>2, <2>3 DEF Logged
<1>8. Quiet(r2)
  BY DEF Core, Quiet, Ledger
<1>9. Flown(s, p, r2, c)
  <2>1. s.flight # NoFlight => s.flight.k \in Keys
    BY Fields, NoneFlies
  <2> QED
    BY <1>1, <2>1 DEF Core, Flown, Ledger
<1> QED
  BY <1>2, <1>3, <1>4, <1>5, <1>6, <1>7, <1>8, <1>9 DEF Core

\* A run that nobody has claimed is nowhere.
LEMMA Unclaimed ==
  ASSUME NEW s \in State, NEW p, NEW r, NEW c, Core(s, p, r, c), NEW k \in Keys, r.owner[k] = 0
  PROVE  Fresh(s, p, c, k)
BY DEF Fresh, Core, Types, Waiting, Sending, Hearing

LEMMA NonePumps == NoPump.k = "none" /\ ~ NoPump.dead /\ ~ NoPump.revoked
BY DEF NoPump

LEMMA Buried ==
  ASSUME NEW r, NEW c, Types(pump, r, c), NEW kind \in {"message", "handoff"}
  PROVE  Buries(pump, kind, Replaced(kind))
<1> DEFINE x == pump[epoch].dead \/ (pump[epoch].k # "none" /\ Kind(pump[epoch].k) = kind)
           a == [pump[epoch] EXCEPT !.dead = x]
           p2 == [pump EXCEPT ![epoch] = a]
           Pump == [k : Keys \cup {"none"}, dead : BOOLEAN, revoked : BOOLEAN]
<1>1. epoch \in 1 .. Epochs /\ pump \in [1 .. Epochs -> Pump]
  BY DEF Types
<1>2. pump[epoch].k # "none" => pump[epoch].k \in Keys
  BY <1>1
<1>3. x \in BOOLEAN
  <2>1. pump[epoch].dead \in BOOLEAN
    BY <1>1
  <2> QED
    BY <2>1
<1>4. pump[epoch] \in Pump
  BY <1>1
<1>5. Replaced(kind) = p2
  BY DEF Replaced
<1>6. /\ pump[epoch].dead => x
      /\ pump[epoch].k \in Keys => (x <=> pump[epoch].dead \/ Kind(pump[epoch].k) = kind)
      /\ pump[epoch] = NoPump => x = FALSE
  BY Names, NonePumps
<1> HIDE DEF x
<1>7. a \in Pump /\ a.k = pump[epoch].k /\ a.dead = x
  BY <1>3, <1>4
<1>8. pump[epoch].dead = x => a = pump[epoch]
  BY <1>4
<1>9. pump[epoch].dead \in BOOLEAN
  BY <1>4
<1>10. pump[epoch] = NoPump => a = NoPump
  BY <1>6, <1>8, NonePumps, <1>9
<1> HIDE DEF a, Pump
<1>11. /\ p2 \in [1 .. Epochs -> Pump] /\ p2[epoch] = a
       /\ \A e \in 1 .. Epochs : e # epoch => p2[e] = pump[e]
  BY <1>1, <1>7
<1> HIDE DEF p2
<1>12. x = pump[epoch].dead \/ x
  BY <1>3, <1>6, <1>9
<1>13. pump[epoch].k \in Keys =>
         IF Kind(pump[epoch].k) = kind THEN a.dead ELSE a = pump[epoch]
  BY <1>3, <1>6, <1>7, <1>8, <1>9
<1>14. Buries(pump, kind, p2)
  BY <1>7, <1>8, <1>10, <1>11, <1>12, <1>13 DEF Buries, Pump
<1> QED
  BY <1>5, <1>14

LEMMA EnqueueHandoffKeeps ==
  ASSUME IInv, NEW k \in Keys, EnqueueHandoff(k)
  PROVE  Good(d, pump, runs, history.calls)'
<1> DEFINE c == history.calls
           s == [d EXCEPT !.arrived = d.arrived \cup {k}]
<1>1. Good(d, pump, runs, c) /\ d \in State /\ Types(pump, runs, c) /\ Core(d, pump, runs, c)
  BY DEF IInv, Good, Core
<1>2. Kind(k) = "handoff" /\ runs.owner[k] = epoch /\ k \notin d.arrived /\ ~ d.shut
  BY DEF EnqueueHandoff
<1>3. Fresh(d, pump, c, k)
  BY <1>1, <1>2 DEF Fresh, Core, Waiting, Sending, Hearing, Pumped
<1>4. IF RevokedSince(k) THEN d' = Conclude(s, epoch, k, "dropped") /\ UNCHANGED pump
      ELSE d' = EnqueueEntry(s, k) /\ pump' = Replaced("handoff")
  BY <1>2 DEF EnqueueHandoff, Conclude
<1>5. s \in State
  BY <1>1, Put, Fields
<1>6. s = [d EXCEPT !.arrived = s.arrived] /\ s.arrived = d.arrived \cup {k}
  BY <1>1 DEF State
<1>7. /\ s.shut = d.shut /\ s.queue = d.queue /\ s.flight = d.flight /\ s.slot = d.slot
      /\ s.record = d.record /\ s.host = d.host /\ s.inbox = d.inbox /\ s.ended = d.ended
      /\ s.writes = d.writes /\ s.heard = d.heard /\ s.said = d.said
  BY <1>1 DEF State
<1> HIDE DEF s
<1>8. epoch \in 1 .. Epochs /\ "dropped" \in Outcome
  BY <1>1 DEF Types, Outcome
<1>9. CASE ~ RevokedSince(k)
  <2>1. d' = EnqueueEntry(s, k) /\ pump' = Replaced("handoff")
    BY <1>4, <1>9
  <2>2. Enqueues(s, k, d')
    BY <1>1, <1>3, <1>5, <1>7, <2>1, Enqueued DEF Core, Fresh
  <2>3. Buries(pump, "handoff", pump')
    BY <1>1, <2>1, Buried
  <2>4. Claims(runs, k, runs)
    BY <1>1, <1>2 DEF Claims, Types
  <2>5. Good(d', pump', runs, c)
    BY <1>1, <1>2, <1>3, <1>5, <1>6, <2>2, <2>3, <2>4, EnqueueKeeps
  <2> QED
    BY <2>5, Carried DEF EnqueueHandoff
<1>10. CASE RevokedSince(k)
  <2> DEFINE t == Conclude(s, epoch, k, "dropped")
  <2>1. Concludes(s, epoch, k, "dropped", t)
    BY <1>5, <1>8, Concluded
  <2>2. d' = t /\ pump' = pump
    BY <1>4, <1>10
  <2> HIDE DEF t
  <2>3. /\ t \in State
        /\ t.shut = d.shut /\ t.queue = d.queue /\ t.flight = d.flight /\ t.slot = d.slot
        /\ t.record = d.record /\ t.host = d.host /\ t.inbox = d.inbox
        /\ t.ended = d.ended /\ t.arrived = d.arrived \cup {k} /\ t.writes = d.writes
    <3>1. /\ t.shut = s.shut /\ t.queue = s.queue /\ t.flight = s.flight /\ t.slot = s.slot
          /\ t.record = s.record /\ t.host = s.host /\ t.inbox = s.inbox
          /\ t.ended = s.ended /\ t.arrived = s.arrived
      BY <1>5, <2>1 DEF Concludes, State
    <3> QED
      BY <1>2, <1>6, <1>7, <2>1, <3>1 DEF Concludes
  <2>4. \A j \in Keys : /\ j # k => t.said[j] = d.said[j] /\ t.heard[j] = d.heard[j]
                        /\ j = k => t.said[j] = "dropped" /\ t.heard[j] = 1
    <3>1. d.said \in Sayings /\ d.heard \in [Keys -> Nat] /\ d.said[k] = "none" /\ d.heard[k] = 0
      BY <1>1, <1>2, <1>3, Fields DEF Fresh, Core, Hearing
    <3>2. t.said = [d.said EXCEPT ![k] = "dropped"] /\ t.heard = [d.heard EXCEPT ![k] = 1]
      BY <1>2, <1>7, <2>1, <3>1 DEF Concludes
    <3> QED
      BY <3>1, <3>2 DEF Sayings
  <2>5. \A j \in Keys : Away(t, c, j) <=> Away(d, c, j)
    BY <2>3 DEF Away
  <2>6. Stable(d, t, c) /\ Remembers(d, t)
    BY <1>3, <2>4, <2>5 DEF Stable, Remembers, Fresh
  <2>7. Waiting(t, runs, c)
    BY <1>1, <1>3, <2>3, <2>4, <2>5 DEF Core, Waiting, Fresh
  <2>8. Pumped(t, pump, c)
    BY <1>1, <1>2, <2>3, <2>4, <2>5 DEF Core, Pumped
  <2>9. Sending(t, runs, c)
    BY <1>1, <1>3, <2>3, <2>4, <2>5 DEF Core, Sending, Fresh
  <2>10. Hearing(t, pump, runs)
    <3>1. ~ Contains(t.queue, k) /\ ~ (t.flight.k = k) /\ runs.owner[k] # 0
      BY <1>1, <1>2, <1>3, <2>3 DEF Fresh, Away, Types
    <3> QED
      BY <1>1, <1>2, <2>3, <2>4, <3>1 DEF Core, Hearing
  <2>11. Telling(t, runs, c)
    <3>1. c[k] = 0
      BY <1>1, <1>3 DEF Types, Fresh, Away
    <3> QED
      BY <1>1, <2>4, <3>1 DEF Core, Telling
  <2>12. Logged(t, pump, runs, c)
    BY <1>1, <2>3, <2>6, SameLog DEF Core
  <2>13. Flown(t, pump, runs, c)
    <3>1. d.flight # NoFlight => d.flight.k \in Keys /\ d.flight.k # k
      BY <1>1, <1>3, Fields, NoneFlies DEF Fresh, Away
    <3> QED
      BY <1>1, <2>3, <2>4, <3>1 DEF Core, Flown
  <2>14. Core(t, pump, runs, c)
    BY <1>1, <2>3, <2>7, <2>8, <2>9, <2>10, <2>11, <2>12, <2>13 DEF Core
  <2>15. Hosted(t) /\ Open(t) /\ Slotted(t, pump)
    BY <1>1, <2>3 DEF Good, Hosted, Open, Slotted
  <2>16. Recorded(t)
    <3>1. Handed(d) /\ d.record.k # "none" => Handed(t)
      BY <1>1, <2>3, <2>6, HandedStays
    <3> QED
      BY <1>1, <2>3, <3>1 DEF Good, Recorded, Watched
  <2>17. Good(t, pump, runs, c)
    BY <2>14, <2>15, <2>16 DEF Good
  <2> QED
    BY <2>2, <2>17, Carried DEF EnqueueHandoff
<1> QED
  BY <1>9, <1>10

-------------------------------------------------------------------------------
(* A write is taken from the log *)

\* The invariant without the slot.
Fit(s, p, r, c) == Core(s, p, r, c) /\ Hosted(s) /\ Recorded(s) /\ Open(s)

\* What the invariant says of s apart from the queue, the log, the fates and the slot.
SameFlight(s, t) ==
  /\ t.shut = s.shut /\ t.flight = s.flight /\ t.record = s.record
  /\ t.host = s.host /\ t.inbox = s.inbox

LEMMA SameFlightIsFit ==
  ASSUME NEW s \in State, NEW p, NEW r, NEW c, Fit(s, p, r, c), NEW t, SameFlight(s, t), Remembers(s, t)
  PROVE  Hosted(t) /\ Recorded(t) /\ Open(t)
<1>1. Hosted(t) /\ Open(t)
  BY DEF Fit, Hosted, Open, SameFlight
<1>2. Recorded(t)
  <2>1. Handed(s) /\ s.record.k # "none" => Handed(t)
    BY HandedStays DEF SameFlight
  <2> QED
    BY <2>1 DEF Fit, Recorded, Watched, SameFlight
<1> QED
  BY <1>1, <1>2

\* The first write of epoch e is taken off; an intent is then answered.
Pops(s, e, t) ==
  /\ t \in State
  /\ SameFlight(s, t) /\ t.slot = s.slot /\ t.queue = s.queue
  /\ t.revoked = s.revoked /\ t.arrived = s.arrived
  /\ t.ended = s.ended /\ t.heard = s.heard /\ t.said = s.said
  /\ t.writes[e] \in Seq(LogEntry) /\ Len(t.writes[e]) = Len(s.writes[e]) - 1
  /\ \A i \in 1 .. Len(t.writes[e]) : i + 1 \in 1 .. Len(s.writes[e]) /\ t.writes[e][i] = s.writes[e][i + 1]
  /\ \A n \in 1 .. Epochs : n # e => t.writes[n] = s.writes[n]

LEMMA Popped ==
  ASSUME NEW s \in State, NEW e \in 1 .. Epochs, s.writes[e] # <<>>
  PROVE  /\ Pops(s, e, Written(s, e))
         /\ 1 \in 1 .. Len(s.writes[e]) /\ Head(s.writes[e]) = s.writes[e][1]
         /\ Head(s.writes[e]) \in LogEntry
<1> DEFINE q == s.writes[e]
           v == [s.writes EXCEPT ![e] = Tail(q)]
           t == [s EXCEPT !.writes = v]
<1>1. q \in Seq(LogEntry) /\ q # <<>>
  BY Writes
<1>2. s.writes \in Logs
  BY Fields
<1> HIDE DEF q
<1>3. /\ Tail(q) \in Seq(LogEntry) /\ Len(Tail(q)) = Len(q) - 1
      /\ \A i \in 1 .. Len(Tail(q)) : i + 1 \in 1 .. Len(q) /\ Tail(q)[i] = q[i + 1]
      /\ 1 \in 1 .. Len(q) /\ Head(q) = q[1] /\ Head(q) \in LogEntry
  BY <1>1
<1>4. v \in Logs /\ v[e] = Tail(q) /\ \A n \in 1 .. Epochs : n # e => v[n] = s.writes[n]
  BY <1>2, <1>3 DEF Logs
<1>5. Written(s, e) = t
  BY DEF Written, q
<1> HIDE DEF v
<1>6. t \in State
  BY <1>4, Put
<1>7. /\ SameFlight(s, t) /\ t.slot = s.slot /\ t.queue = s.queue
      /\ t.revoked = s.revoked /\ t.arrived = s.arrived
      /\ t.ended = s.ended /\ t.heard = s.heard /\ t.said = s.said /\ t.writes = v
  BY DEF SameFlight, State
<1> HIDE DEF t
<1>8. Pops(s, e, t)
  BY <1>3, <1>4, <1>6, <1>7 DEF Pops, q
<1> QED
  BY <1>3, <1>5, <1>8 DEF q

LEMMA PoppedLog ==
  ASSUME NEW s \in State, NEW p, NEW r, NEW c, Logged(s, p, r, c), Types(p, r, c),
         NEW e \in 1 .. Epochs, s.writes[e] # <<>>, NEW t, Pops(s, e, t),
         NEW p2, p2 = IF Head(s.writes[e]).op = "cas" THEN [p EXCEPT ![e] = NoPump] ELSE p
  PROVE  /\ Logged(t, p2, r, c)
         /\ \A i \in DOMAIN t.writes[e] : t.writes[e][i].op = "cas" => Head(s.writes[e]).op # "cas"
<1> DEFINE w == Head(s.writes[e])
<1>1. 1 \in DOMAIN s.writes[e] /\ w = s.writes[e][1] /\ w \in LogEntry
  BY Popped, Writes
<1>2. t \in State /\ \A k \in Keys : Away(t, c, k) <=> Away(s, c, k)
  BY DEF Pops, SameFlight, Away
<1>3. Stable(s, t, c)
  BY <1>2 DEF Stable, Pops
<1>4. /\ p \in [1 .. Epochs -> [k : Keys \cup {"none"}, dead : BOOLEAN, revoked : BOOLEAN]]
      /\ epoch \in 1 .. Epochs
  BY DEF Types
<1>5. /\ \A n \in 1 .. Epochs : n # e => p2[n] = p[n]
      /\ w.op = "cas" => p2[e] = NoPump
      /\ w.op # "cas" => p2 = p
  BY <1>4
<1> HIDE DEF w
<1>6. ASSUME NEW i \in DOMAIN t.writes[e]
      PROVE  /\ i + 1 \in DOMAIN s.writes[e] /\ 1 < i + 1 /\ t.writes[e][i] = s.writes[e][i + 1]
             /\ t.writes[e][i] \in LogEntry
  <2>1. t.writes[e] \in Seq(LogEntry)
    BY DEF Pops
  <2>2. i \in 1 .. Len(t.writes[e]) /\ i \in Nat /\ i >= 1
    BY <2>1
  <2>3. DOMAIN s.writes[e] = 1 .. Len(s.writes[e])
    BY Writes
  <2>4. i + 1 \in 1 .. Len(s.writes[e]) /\ t.writes[e][i] = s.writes[e][i + 1]
    BY <2>2 DEF Pops
  <2>5. t.writes[e][i] \in LogEntry
    BY <2>1, <2>2
  <2> QED
    BY <2>2, <2>3, <2>4, <2>5
<1>7. ASSUME NEW i \in DOMAIN t.writes[e], t.writes[e][i].op = "cas"
      PROVE  w.op # "cas"
  <2>1. Entry(s, p, r, c, e, t.writes[e][i]) /\ Entry(s, p, r, c, e, w)
    BY <1>1, <1>6 DEF Logged
  <2>2. w.op = "cas" => t.writes[e][i].k # w.k
    BY <1>1, <1>6 DEF Logged
  <2> QED
    BY <1>7, <2>1, <2>2 DEF Entry
<1>8. ASSUME NEW n \in 1 .. Epochs, NEW i \in DOMAIN t.writes[n]
      PROVE  Entry(t, p2, r, c, n, t.writes[n][i])
  <2> DEFINE v == t.writes[n][i]
  <2>1. Entry(s, p, r, c, n, v) /\ v \in LogEntry
    <3>1. CASE n = e
      BY <1>6, <3>1 DEF Logged
    <3>2. CASE n # e
      <4>1. t.writes[n] = s.writes[n]
        BY <3>2 DEF Pops
      <4>2. s.writes[n] \in Seq(LogEntry)
        BY Writes
      <4>3. v \in LogEntry
        BY <4>1, <4>2
      <4> QED
        BY <4>1, <4>3 DEF Logged
    <3> QED
      BY <3>1, <3>2
  <2>2. n = e /\ w.op = "cas" => v.op # "cas"
    BY <1>7
  <2> HIDE DEF v
  <2>3. Entry(t, p, r, c, n, v)
    BY <1>3, <2>1, EntryStays
  <2>4. n # e \/ w.op # "cas" => p2[n] = p[n]
    BY <1>5
  <2>5. Entry(t, p2, r, c, n, v)
    BY <2>2, <2>3, <2>4 DEF Entry
  <2> QED
    BY <2>5 DEF v
<1>9. ASSUME NEW n \in 1 .. Epochs, NEW i \in DOMAIN t.writes[n], NEW j \in DOMAIN t.writes[n],
             i < j, t.writes[n][i].op = "cas"
      PROVE  t.writes[n][j].k # t.writes[n][i].k
  <2>1. CASE n = e
    <3>1. i + 1 \in DOMAIN s.writes[e] /\ j + 1 \in DOMAIN s.writes[e] /\ i + 1 < j + 1
      <4>1. t.writes[e] \in Seq(LogEntry)
        BY DEF Pops
      <4>2. i \in Int /\ j \in Int
        BY <1>9, <2>1, <4>1
      <4> QED
        BY <1>6, <1>9, <2>1, <4>2
    <3>2. t.writes[n][i] = s.writes[e][i + 1] /\ t.writes[n][j] = s.writes[e][j + 1]
      BY <1>6, <2>1
    <3> QED
      BY <1>9, <3>1, <3>2 DEF Logged
  <2>2. CASE n # e
    BY <1>9, <2>2 DEF Logged, Pops
  <2> QED
    BY <2>1, <2>2
<1>10. \A n \in 1 .. Epochs : p2[n] = p[n] \/ p2[n] = NoPump
  BY <1>5
<1>11. \A n \in 1 .. Epochs :
         /\ p2[n].k \in Keys => r.owner[p2[n].k] = n
         /\ p2[n].k = "none" => p2[n] = NoPump
  BY <1>10, NonePumps, Names DEF Logged
<1>12. \A n \in 1 .. Epochs : n > epoch => p2[n] = NoPump /\ t.writes[n] = <<>>
  <2> SUFFICES ASSUME NEW n \in 1 .. Epochs, n > epoch
               PROVE  p2[n] = NoPump /\ t.writes[n] = <<>>
    OBVIOUS
  <2>1. n # e
    BY DEF Logged
  <2> QED
    BY <1>10, <2>1 DEF Logged, Pops
<1>13. Logged(t, p2, r, c)
  BY <1>8, <1>9, <1>11, <1>12 DEF Logged
<1> QED
  BY <1>7, <1>13 DEF w

\* An ordinary write.
LEMMA PopIsFit ==
  ASSUME NEW s \in State, NEW p, NEW r, NEW c, Fit(s, p, r, c),
         NEW e \in 1 .. Epochs, s.writes[e] # <<>>, Head(s.writes[e]).op # "cas"
  PROVE  LET t == Written(s, e) IN
         Fit(t, p, r, c) /\ t.slot = s.slot /\ SameFlight(s, t)
<1> DEFINE t == Written(s, e)
<1>1. Pops(s, e, t)
  BY Popped
<1> HIDE DEF t
<1>2. Logged(t, p, r, c)
  BY <1>1, PoppedLog DEF Fit, Core
<1>3. \A k \in Keys : Away(t, c, k) <=> Away(s, c, k)
  BY <1>1 DEF Pops, SameFlight, Away
<1>4. Core(t, p, r, c)
  <2>1. Waiting(t, r, c) /\ Pumped(t, p, c) /\ Sending(t, r, c)
    BY <1>1, <1>3 DEF Fit, Core, Waiting, Pumped, Sending, Pops, SameFlight
  <2>2. Hearing(t, p, r) /\ Telling(t, r, c)
    BY <1>1, <1>3 DEF Fit, Core, Hearing, Telling, Pops, SameFlight
  <2>3. Flown(t, p, r, c)
    BY <1>1 DEF Fit, Core, Flown, Pops, SameFlight
  <2> QED
    BY <1>1, <1>2, <2>1, <2>2, <2>3 DEF Fit, Core, Pops
<1>5. Remembers(s, t)
  BY <1>1 DEF Remembers, Pops
<1>6. Hosted(t) /\ Recorded(t) /\ Open(t)
  BY <1>1, <1>5, SameFlightIsFit DEF Pops
<1>7. Fit(t, p, r, c) /\ t.slot = s.slot /\ SameFlight(s, t)
  BY <1>1, <1>4, <1>6 DEF Fit, Pops
<1> QED
  BY <1>7 DEF t

\* The intent of k is answered: the pump of e has nothing in its hands, and k is the pump's
\* answer's to decide.
Idle(s, p2, r, c, e, k) ==
  /\ e <= epoch /\ r.owner[k] = e
  /\ ~ Away(s, c, k) /\ ~ AtPump(p2, k)
  /\ Kind(k) = "handoff" => k \in s.ended \/ Contains(s.queue, k)
  /\ Kind(k) = "message" => s.said[k] = "none"
  /\ \A i \in DOMAIN s.writes[e] : s.writes[e][i].op = "cas" => s.writes[e][i].k # k

LEMMA Answered ==
  ASSUME NEW s \in State, NEW p, NEW r, NEW c, Fit(s, p, r, c), NEW e \in 1 .. Epochs,
         s.writes[e] # <<>>, Head(s.writes[e]).op = "cas",
         NEW k, k = Head(s.writes[e]).k
  PROVE  LET t == Written(s, e)
             p2 == [p EXCEPT ![e] = NoPump]
         IN  /\ Fit(t, p2, r, c) /\ Pops(s, e, t)
             /\ k \in Keys /\ p[e].k = k /\ Idle(t, p2, r, c, e, k)
             /\ \A i \in DOMAIN t.writes[e] : t.writes[e][i].k # k
             /\ p2[e] = NoPump /\ \A n \in 1 .. Epochs : n # e => p2[n] = p[n]
             /\ e = epoch => s.flight = NoFlight
             /\ e = epoch /\ ~ p[e].dead /\ ~ s.shut => Contains(s.queue, k)
             /\ Kind(k) = "handoff" /\ (e # epoch \/ s.shut \/ (p[e].dead /\ ~ p[e].revoked)) => k \in s.ended
<1> DEFINE t == Written(s, e)
           p2 == [p EXCEPT ![e] = NoPump]
           w == Head(s.writes[e])
<1>1. /\ Pops(s, e, t) /\ 1 \in DOMAIN s.writes[e] /\ w = s.writes[e][1] /\ w \in LogEntry
  BY Popped, Writes
<1>2. /\ Types(p, r, c) /\ epoch \in 1 .. Epochs /\ Core(s, p, r, c)
      /\ p \in [1 .. Epochs -> [k : Keys \cup {"none"}, dead : BOOLEAN, revoked : BOOLEAN]]
  BY DEF Fit, Core, Types
<1>3. Entry(s, p, r, c, e, w)
  BY <1>1, <1>2 DEF Core, Logged
<1>4. k \in Keys /\ p[e].k = k /\ r.owner[k] = e
  BY <1>1, <1>3 DEF Entry, LogEntry
<1>5. e <= epoch
  <2>1. p[e] # NoPump
    BY <1>4, NonePumps, Names
  <2> QED
    BY <1>2, <2>1 DEF Core, Logged
<1>6. Logged(t, p2, r, c) /\ \A i \in DOMAIN t.writes[e] : t.writes[e][i].op # "cas"
  BY <1>1, <1>2, PoppedLog DEF Core
<1>22. \A i \in DOMAIN t.writes[e] : t.writes[e][i].k # k
  <2> SUFFICES ASSUME NEW i \in DOMAIN t.writes[e]
               PROVE  t.writes[e][i].k # k
    OBVIOUS
  <2> HIDE DEF t
  <2>1. t.writes[e] \in Seq(LogEntry)
    BY <1>1 DEF Pops
  <2>2. i \in 1 .. Len(t.writes[e]) /\ i \in Nat /\ i >= 1
    BY <2>1
  <2>3. i + 1 \in DOMAIN s.writes[e] /\ 1 < i + 1 /\ t.writes[e][i] = s.writes[e][i + 1]
    BY <1>1, <2>2, Writes DEF Pops
  <2> QED
    BY <1>1, <1>2, <2>3 DEF Core, Logged
<1> HIDE DEF t, w
<1>7. p2[e] = NoPump /\ \A n \in 1 .. Epochs : n # e => p2[n] = p[n]
  BY <1>2
<1>8. p2 \in [1 .. Epochs -> [k : Keys \cup {"none"}, dead : BOOLEAN, revoked : BOOLEAN]]
  BY <1>2 DEF NoPump
<1> HIDE DEF p2
<1>9. \A n \in 1 .. Epochs : \A j \in Keys : p2[n].k = j => p[n].k = j /\ p2[n] = p[n] /\ n # e
  BY <1>7, NonePumps, Names
<1>10. ~ AtPump(p2, k)
  <2> SUFFICES ASSUME NEW n \in 1 .. Epochs, p2[n].k = k
               PROVE  FALSE
    BY DEF AtPump
  <2>1. p[n].k = k /\ n # e
    BY <1>4, <1>9
  <2> QED
    BY <1>2, <1>4, <2>1 DEF Core, Logged
<1>11. AtPump(p, k)
  BY <1>4 DEF AtPump
<1>12. \A j \in Keys : (Away(t, c, j) <=> Away(s, c, j)) /\ (AtPump(p2, j) => AtPump(p, j))
  BY <1>1, <1>9 DEF Pops, SameFlight, Away, AtPump
<1>13. /\ ~ Away(s, c, k)
       /\ Kind(k) = "handoff" =>
            k \in s.ended \/ (Contains(s.queue, k) /\ ~ (p[epoch].k = k /\ p[epoch].dead /\ ~ p[epoch].revoked))
       /\ Kind(k) = "message" => s.said[k] = "none"
       /\ p[epoch].k = k /\ ~ p[epoch].dead /\ ~ s.shut => Contains(s.queue, k)
  BY <1>2, <1>4, <1>11 DEF Core, Pumped
<1>14. Idle(t, p2, r, c, e, k)
  BY <1>1, <1>4, <1>5, <1>6, <1>10, <1>12, <1>13 DEF Idle, Pops
<1>15. e = epoch => s.flight = NoFlight
  BY <1>2, <1>4, Names DEF Core, Flown
<1>16. e = epoch /\ ~ p[e].dead /\ ~ s.shut => Contains(s.queue, k)
  BY <1>4, <1>13
<1>17. Kind(k) = "handoff" /\ (e # epoch \/ s.shut \/ (p[e].dead /\ ~ p[e].revoked)) => k \in s.ended
  <2>1. e # epoch => ~ Contains(s.queue, k)
    BY <1>2, <1>4 DEF Core, Waiting
  <2>2. s.shut => ~ Contains(s.queue, k)
    BY <1>2 DEF Core, Flown, Contains
  <2> QED
    BY <1>4, <1>13, <2>1, <2>2
<1>18. Core(t, p2, r, c)
  <2>1. Types(p2, r, c)
    BY <1>2, <1>8 DEF Types
  <2>2. Waiting(t, r, c) /\ Sending(t, r, c)
    BY <1>1, <1>2, <1>12 DEF Core, Waiting, Sending, Pops, SameFlight
  <2>3. Pumped(t, p2, c)
    BY <1>1, <1>2, <1>9, <1>12 DEF Core, Pumped, Pops, SameFlight
  <2>4. Hearing(t, p2, r) /\ Telling(t, r, c)
    BY <1>1, <1>2, <1>12 DEF Core, Hearing, Telling, Pops, SameFlight
  <2>5. Flown(t, p2, r, c)
    <3>1. p[epoch].k = "none" => p2[epoch].k = "none"
      BY <1>2, <1>7, NonePumps
    <3> QED
      BY <1>1, <1>2, <3>1 DEF Core, Flown, Pops, SameFlight
  <2> QED
    BY <1>1, <1>2, <1>6, <2>1, <2>2, <2>3, <2>4, <2>5 DEF Core, Pops
<1>19. Remembers(s, t)
  BY <1>1 DEF Remembers, Pops
<1>20. Hosted(t) /\ Recorded(t) /\ Open(t)
  BY <1>1, <1>19, SameFlightIsFit DEF Pops
<1>21. Fit(t, p2, r, c)
  BY <1>18, <1>20 DEF Fit
<1> QED
  BY <1>1, <1>4, <1>7, <1>14, <1>15, <1>16, <1>17, <1>21, <1>22 DEF t, p2

\* A write is posted, and nothing else: what has been said stays.
LEMMA PostIsFit ==
  ASSUME NEW s \in State, NEW p, NEW r, NEW c, Fit(s, p, r, c), NEW e \in 1 .. Epochs,
         NEW k \in Keys, NEW op \in Ops, e <= epoch,
         Entry(s, p, r, c, e, [k |-> k, op |-> op]),
         \A i \in DOMAIN s.writes[e] : s.writes[e][i].op = "cas" => s.writes[e][i].k # k
  PROVE  LET t == Post(s, e, k, op) IN
         /\ Fit(t, p, r, c) /\ SameFlight(s, t) /\ t.slot = s.slot /\ t.queue = s.queue
         /\ t.said = s.said /\ t.ended = s.ended
<1> DEFINE t == Post(s, e, k, op)
           w == [k |-> k, op |-> op]
<1>1. Posts(s, e, k, op, t)
  BY Posted
<1> HIDE DEF t
<1>2. /\ t \in State /\ SameFlight(s, t) /\ t.slot = s.slot /\ t.queue = s.queue
      /\ t.arrived = s.arrived /\ t.ended = s.ended
      /\ t.heard = s.heard /\ t.said = s.said
      /\ t.writes = [s.writes EXCEPT ![e] = Append(s.writes[e], w)]
  BY <1>1 DEF Posts, State, SameFlight
<1>3. w \in LogEntry
  BY DEF LogEntry
<1>4. Entry(s, p, r, c, e, w) /\ w.k = k
  OBVIOUS
<1> HIDE DEF w
<1>5. \A j \in Keys : Away(t, c, j) <=> Away(s, c, j)
  BY <1>2 DEF SameFlight, Away
<1>6. Stable(s, t, c) /\ Remembers(s, t)
  BY <1>2, <1>5 DEF Stable, Remembers
<1>7. Entry(t, p, r, c, e, w)
  BY <1>3, <1>4, <1>6, EntryStays
<1>8. Core(s, p, r, c) /\ Logged(s, p, r, c) /\ epoch \in 1 .. Epochs
  BY DEF Fit, Core, Types
<1>9. Logged(t, p, r, c)
  BY <1>2, <1>3, <1>4, <1>6, <1>7, <1>8, PostedLog
<1>10. Core(t, p, r, c)
  <2>1. Waiting(t, r, c) /\ Pumped(t, p, c) /\ Sending(t, r, c)
    BY <1>2, <1>5, <1>8 DEF Core, Waiting, Pumped, Sending, SameFlight
  <2>2. Hearing(t, p, r) /\ Telling(t, r, c) /\ Flown(t, p, r, c)
    BY <1>2, <1>8 DEF Core, Hearing, Telling, Flown, SameFlight
  <2> QED
    BY <1>2, <1>8, <1>9, <2>1, <2>2 DEF Core
<1>11. Fit(t, p, r, c)
  BY <1>2, <1>6, <1>10, SameFlightIsFit DEF Fit
<1> QED
  BY <1>2, <1>11 DEF t

\* The entry of k leaves the queue; the slot may go with it.
Leaves(s, k, x) ==
  /\ x \in State
  /\ SameFlight(s, x) /\ x.arrived = s.arrived /\ x.ended = s.ended
  /\ x.writes = s.writes /\ x.heard = s.heard /\ x.said = s.said
  /\ OneOfTask(x.queue)
  /\ \A j \in Keys : Contains(x.queue, j) <=> Contains(s.queue, j) /\ j # k

LEMMA LeftQueue ==
  ASSUME NEW s \in State, OneOfTask(s.queue), NEW k \in Keys
  PROVE  LET x == [s EXCEPT !.queue = RemoveFirst(s.queue, k)] IN
         Leaves(s, k, x) /\ x.slot = s.slot /\ x.revoked = s.revoked
<1> DEFINE q == RemoveFirst(s.queue, k)
           x == [s EXCEPT !.queue = q]
<1>1. /\ q \in Seq(Keys) /\ OneOfTask(q)
      /\ \A j \in Keys : Contains(q, j) <=> Contains(s.queue, j) /\ j # k
  BY Fields, Without
<1> HIDE DEF q
<1>2. x \in State
  BY <1>1, Put
<1>3. /\ x.queue = q /\ SameFlight(s, x) /\ x.slot = s.slot /\ x.revoked = s.revoked
      /\ x.arrived = s.arrived /\ x.ended = s.ended
      /\ x.writes = s.writes /\ x.heard = s.heard /\ x.said = s.said
  BY DEF SameFlight, State
<1> HIDE DEF x
<1>4. Leaves(s, k, x) /\ x.slot = s.slot /\ x.revoked = s.revoked
  BY <1>1, <1>2, <1>3 DEF Leaves
<1> QED
  BY <1>4 DEF x, q

LEMMA LeftSlot ==
  ASSUME NEW s \in State, OneOfTask(s.queue), NEW e \in 1 .. Epochs, NEW k \in Keys
  PROVE  LET x == Left(s, e, k) IN
         /\ Leaves(s, k, x)
         /\ x.slot = IF s.slot = [epoch |-> e, k |-> k] THEN NoSlot ELSE s.slot
<1> DEFINE z == Release(s, e, k)
           x == [z EXCEPT !.queue = RemoveFirst(z.queue, k)]
<1>1. Releases(s, e, k, z)
  BY Released
<1>2. Left(s, e, k) = x
  BY DEF Left
<1> HIDE DEF z
<1>3. /\ z \in State /\ SameFlight(s, z) /\ z.queue = s.queue
      /\ z.arrived = s.arrived /\ z.ended = s.ended
      /\ z.writes = s.writes /\ z.heard = s.heard /\ z.said = s.said
      /\ z.slot = IF s.slot = [epoch |-> e, k |-> k] THEN NoSlot ELSE s.slot
  BY <1>1 DEF Releases, State, SameFlight
<1>4. Leaves(z, k, x) /\ x.slot = z.slot
  BY <1>3, LeftQueue
<1> HIDE DEF x
<1>5. Leaves(s, k, x)
  BY <1>3, <1>4 DEF Leaves, SameFlight
<1> QED
  BY <1>2, <1>3, <1>4, <1>5

\* A message may leave the queue and nothing be said of it, and so may what is not in it.
LEMMA LeavesIsFit ==
  ASSUME NEW s \in State, NEW p, NEW r, NEW c, Fit(s, p, r, c), NEW k \in Keys,
         Kind(k) = "message" \/ ~ Contains(s.queue, k),
         ~ (p[epoch].k = k /\ ~ p[epoch].dead /\ ~ s.shut),
         NEW x, Leaves(s, k, x)
  PROVE  Fit(x, p, r, c)
<1>1. \A j \in Keys : Away(x, c, j) <=> Away(s, c, j)
  BY DEF Leaves, SameFlight, Away
<1>2. Stable(s, x, c) /\ Remembers(s, x)
  BY <1>1 DEF Stable, Remembers, Leaves
<1>3. Core(s, p, r, c)
  BY DEF Fit
<1>4. Core(x, p, r, c)
  <2>1. Waiting(x, r, c) /\ Sending(x, r, c)
    BY <1>1, <1>3 DEF Core, Waiting, Sending, Leaves
  <2>2. Pumped(x, p, c)
    <3> SUFFICES ASSUME NEW j \in Keys, AtPump(p, j)
                 PROVE  /\ ~ Away(x, c, j)
                        /\ Kind(j) = "handoff" =>
                             \/ j \in x.ended
                             \/ /\ Contains(x.queue, j)
                                /\ ~ (p[epoch].k = j /\ p[epoch].dead /\ ~ p[epoch].revoked)
                        /\ Kind(j) = "message" => x.said[j] = "none"
                        /\ p[epoch].k = j /\ p[epoch].dead /\ ~ p[epoch].revoked => ~ Contains(x.queue, j)
                        /\ p[epoch].k = j /\ ~ p[epoch].dead /\ ~ x.shut => Contains(x.queue, j)
      BY DEF Pumped
    <3>1. CASE j = k
      BY <1>1, <1>3, <3>1 DEF Core, Pumped, Leaves, SameFlight
    <3>2. CASE j # k
      BY <1>1, <1>3, <3>2 DEF Core, Pumped, Leaves, SameFlight
    <3> QED
      BY <3>1, <3>2
  <2>3. Hearing(x, p, r)
    <3>1. \A j \in Keys : Kind(j) = "handoff" => (Contains(x.queue, j) <=> Contains(s.queue, j))
      BY DEF Leaves
    <3> QED
      BY <1>3, <3>1 DEF Core, Hearing, Leaves, SameFlight
  <2>4. Telling(x, r, c)
    BY <1>3 DEF Core, Telling, Leaves
  <2>5. Logged(x, p, r, c)
    BY <1>2, <1>3, SameLog DEF Core, Leaves
  <2>6. Flown(x, p, r, c)
    <3>1. s.shut => x.queue = <<>>
      <4>1. s.shut => s.queue = <<>>
        BY <1>3 DEF Core, Flown
      <4>2. x.queue \in Seq(Keys)
        BY Fields DEF Leaves
      <4>3. ASSUME s.shut, x.queue # <<>>
            PROVE  FALSE
        <5>1. Contains(x.queue, Head(x.queue)) /\ Head(x.queue) \in Keys
          BY <4>2, <4>3, Without1st DEF Leaves
        <5>2. Contains(s.queue, Head(x.queue))
          BY <5>1 DEF Leaves
        <5> QED
          BY <4>1, <4>3, <5>2 DEF Contains
      <4> QED
        BY <4>3
    <3> QED
      BY <1>3, <3>1 DEF Core, Flown, Leaves, SameFlight
  <2> QED
    BY <1>3, <2>1, <2>2, <2>3, <2>4, <2>5, <2>6 DEF Core, Leaves
<1> QED
  BY <1>2, <1>4, SameFlightIsFit DEF Fit, Leaves

\* The owner of a handoff that leaves the queue is told, once.
LEMMA EndedIsFit ==
  ASSUME NEW s \in State, NEW p, NEW r, NEW c, Fit(s, p, r, c), NEW k \in Keys,
         Kind(k) = "handoff", k \in s.ended \/ Contains(s.queue, k), ~ Away(s, c, k),
         ~ (p[epoch].k = k /\ ~ p[epoch].dead /\ ~ s.shut),
         NEW x, Leaves(s, k, x)
  PROVE  LET t == EndHandoffs(x, {k}) IN
         Fit(t, p, r, c) /\ SameFlight(s, t) /\ t.slot = x.slot
<1> DEFINE t == EndHandoffs(x, {k})
<1>1. Ends(x, {k}, t)
  BY Ended DEF Leaves
<1> HIDE DEF t
<1>2. /\ t \in State /\ SameFlight(s, t) /\ t.slot = x.slot /\ t.queue = x.queue
      /\ t.arrived = s.arrived /\ t.writes = s.writes
  <2>1. /\ t \in State /\ SameFlight(x, t) /\ t.slot = x.slot /\ t.queue = x.queue
        /\ t.arrived = x.arrived /\ t.writes = x.writes
    BY <1>1 DEF Ends, Leaves, SameFlight, State
  <2> QED
    BY <2>1 DEF Leaves, SameFlight
<1>3. \A j \in Keys :
        /\ j \in t.ended <=> j \in s.ended \/ j = k
        /\ t.heard[j] = IF j = k /\ k \notin s.ended THEN s.heard[j] + 1 ELSE s.heard[j]
        /\ t.said[j] = IF j = k /\ k \notin s.ended /\ s.said[j] = "none" THEN "dropped" ELSE s.said[j]
  BY <1>1 DEF Ends, Leaves
<1>4. Core(s, p, r, c) /\ Types(p, r, c)
  BY DEF Fit, Core
<1>5. k \in s.arrived
  BY <1>4 DEF Core, Waiting, Hearing
<1>6. ~ Contains(t.queue, k) /\ s.flight.k # k
  BY <1>2 DEF Leaves, Away
<1>7. /\ k \notin s.ended => s.heard[k] = 0
      /\ k \in s.ended => s.heard[k] = 1
  <2>1. k \in s.ended => ~ Contains(s.queue, k)
    BY <1>4 DEF Core, Waiting
  <2> QED
    BY <1>4, <1>5, <1>6, <2>1 DEF Core, Hearing
<1>8. \A j \in Keys : Away(t, c, j) <=> Away(s, c, j)
  BY <1>2 DEF SameFlight, Away
<1>9. Stable(s, t, c) /\ Remembers(s, t)
  BY <1>3, <1>8 DEF Stable, Remembers
<1>10. Core(t, p, r, c)
  <2>1. Waiting(t, r, c) /\ Sending(t, r, c)
    BY <1>2, <1>3, <1>4, <1>8 DEF Core, Waiting, Sending, Leaves
  <2>2. Pumped(t, p, c)
    BY <1>2, <1>3, <1>4, <1>8 DEF Core, Pumped, Leaves, SameFlight
  <2>3. Hearing(t, p, r)
    <3> SUFFICES ASSUME NEW j \in Keys
                 PROVE  /\ j \in t.ended => j \in t.arrived
                        /\ j \in t.arrived =>
                             /\ Kind(j) = "handoff"
                             /\ t.heard[j] = IF Contains(t.queue, j) \/ (t.flight.k = j /\ ~ t.flight.recorded)
                                             THEN 0 ELSE 1
                        /\ Kind(j) = "handoff" /\ j \notin t.arrived => t.heard[j] = 0 /\ t.said[j] = "none"
                        /\ r.owner[j] = 0 => t.said[j] = "none" /\ j \notin t.arrived /\ ~ AtPump(p, j)
      BY DEF Hearing
    <3>1. CASE j = k
      <4>1. t.heard[k] = 1
        BY <1>3, <1>7
      <4>2. ~ (t.flight.k = k)
        BY <1>2, <1>6 DEF SameFlight
      <4>3. r.owner[k] # 0
        BY <1>4, <1>5 DEF Core, Hearing
      <4> QED
        BY <1>2, <1>5, <1>6, <3>1, <4>1, <4>2, <4>3
    <3>2. CASE j # k
      <4>1. /\ t.heard[j] = s.heard[j] /\ t.said[j] = s.said[j] /\ (j \in t.ended <=> j \in s.ended)
            /\ Contains(t.queue, j) <=> Contains(s.queue, j)
        BY <1>2, <1>3, <3>2 DEF Leaves
      <4> QED
        BY <1>2, <1>4, <4>1 DEF Core, Hearing, SameFlight
    <3> QED
      BY <3>1, <3>2
  <2>4. Telling(t, r, c)
    <3>1. c[k] = 0
      BY <1>4 DEF Types, Away
    <3> QED
      BY <1>3, <1>4, <3>1 DEF Core, Telling
  <2>5. Logged(t, p, r, c)
    BY <1>2, <1>4, <1>9, SameLog DEF Core
  <2>6. Flown(t, p, r, c)
    <3>1. s.shut => t.queue = <<>>
      <4>1. s.shut => s.queue = <<>>
        BY <1>4 DEF Core, Flown
      <4>2. x.queue \in Seq(Keys)
        BY Fields DEF Leaves
      <4>3. ASSUME s.shut, x.queue # <<>>
            PROVE  FALSE
        <5>1. Contains(x.queue, Head(x.queue)) /\ Head(x.queue) \in Keys
          BY <4>2, <4>3, Without1st DEF Leaves
        <5>2. Contains(s.queue, Head(x.queue))
          BY <5>1 DEF Leaves
        <5> QED
          BY <4>1, <4>3, <5>2 DEF Contains
      <4> QED
        BY <1>2, <4>3
    <3>2. s.flight # NoFlight => s.flight.k \in Keys /\ s.flight.k # k
      BY <1>6, Fields, NoneFlies
    <3> QED
      BY <1>2, <1>3, <1>4, <3>1, <3>2 DEF Core, Flown, SameFlight
  <2> QED
    BY <1>2, <1>4, <2>1, <2>2, <2>3, <2>4, <2>5, <2>6 DEF Core, Leaves
<1>11. Fit(t, p, r, c)
  BY <1>2, <1>9, <1>10, SameFlightIsFit DEF Fit
<1> QED
  BY <1>2, <1>11 DEF t

\* What is told of a message that is nowhere any more.
LEMMA DroppedIsFit ==
  ASSUME NEW s \in State, NEW p, NEW r, NEW c, Fit(s, p, r, c), NEW e \in 1 .. Epochs, NEW k \in Keys,
         Kind(k) = "message", Idle(s, p, r, c, e, k), ~ Contains(s.queue, k)
  PROVE  LET t == Conclude(s, e, k, "dropped") IN
         Fit(t, p, r, c) /\ SameFlight(s, t) /\ t.slot = s.slot
<1> DEFINE t == Conclude(s, e, k, "dropped")
           w == [k |-> k, op |-> "dropped"]
<1>1. "dropped" \in Outcome /\ "dropped" \in Ops
  BY DEF Outcome, Ops
<1>2. Concludes(s, e, k, "dropped", t)
  BY <1>1, Concluded
<1> HIDE DEF t
<1>3. Core(s, p, r, c) /\ Types(p, r, c) /\ s.said[k] = "none" /\ epoch \in 1 .. Epochs
  BY DEF Fit, Core, Idle, Types
<1>4. /\ t \in State /\ SameFlight(s, t) /\ t.slot = s.slot /\ t.queue = s.queue
      /\ t.arrived = s.arrived /\ t.ended = s.ended /\ t.heard = s.heard
      /\ t.writes = [s.writes EXCEPT ![e] = Append(s.writes[e], w)]
  BY <1>2 DEF Concludes, State, SameFlight
<1>5. \A j \in Keys : t.said[j] = IF j = k THEN "dropped" ELSE s.said[j]
  <2>1. s.said \in Sayings /\ t.said = [s.said EXCEPT ![k] = "dropped"]
    BY <1>2, <1>3, Fields DEF Concludes
  <2> QED
    BY <2>1 DEF Sayings
<1>6. \A j \in Keys : Away(t, c, j) <=> Away(s, c, j)
  BY <1>4 DEF SameFlight, Away
<1>7. Stable(s, t, c) /\ Remembers(s, t)
  BY <1>3, <1>5, <1>6 DEF Stable, Remembers
<1>8. w \in LogEntry /\ Entry(t, p, r, c, e, w) /\ w.k = k
  BY <1>1, <1>5 DEF LogEntry, Entry, Idle
<1> HIDE DEF w
<1>9. \A i \in DOMAIN s.writes[e] : s.writes[e][i].op = "cas" => s.writes[e][i].k # w.k
  BY <1>8 DEF Idle
<1>10. Core(t, p, r, c)
  <2>1. Waiting(t, r, c) /\ Sending(t, r, c)
    BY <1>3, <1>4, <1>5, <1>6 DEF Core, Waiting, Sending, Idle
  <2>2. Pumped(t, p, c)
    BY <1>3, <1>4, <1>5, <1>6 DEF Core, Pumped, Idle, SameFlight
  <2>3. Hearing(t, p, r)
    <3>1. r.owner[k] # 0 /\ Kind(k) # "handoff"
      BY DEF Idle
    <3> QED
      BY <1>3, <1>4, <1>5, <3>1 DEF Core, Hearing, SameFlight
  <2>4. Telling(t, r, c)
    <3>1. c[k] = 0
      BY <1>3 DEF Types, Away, Idle
    <3> QED
      BY <1>3, <1>5, <3>1 DEF Core, Telling
  <2>5. Logged(t, p, r, c)
    BY <1>3, <1>4, <1>7, <1>8, <1>9, PostedLog DEF Core, Idle
  <2>6. Flown(t, p, r, c)
    <3>1. s.flight # NoFlight => s.flight.k \in Keys /\ s.flight.k # k
      BY Fields, NoneFlies DEF Idle, Away
    <3> QED
      BY <1>3, <1>4, <1>5, <3>1 DEF Core, Flown, SameFlight
  <2> QED
    BY <1>3, <1>4, <2>1, <2>2, <2>3, <2>4, <2>5, <2>6 DEF Core
<1>11. Fit(t, p, r, c)
  BY <1>4, <1>7, <1>10, SameFlightIsFit DEF Fit
<1> QED
  BY <1>4, <1>11 DEF t

LEMMA RevokedIsFit ==
  ASSUME NEW s \in State, NEW p, NEW r, NEW c, Fit(s, p, r, c), NEW e \in 1 .. Epochs, NEW k \in Keys,
         Idle(s, p, r, c, e, k), NEW x, Leaves(s, k, x)
  PROVE  LET t == RevokeEntry(x, e, k) IN
         Fit(t, p, r, c) /\ SameFlight(s, t) /\ t.slot = x.slot
<1>1. ~ (p[epoch].k = k /\ ~ p[epoch].dead /\ ~ s.shut)
  BY DEF Idle, AtPump, Fit, Core, Types
<1>2. Kind(k) \in {"message", "handoff"}
  BY Kinds DEF Fit, Core
<1>3. CASE Kind(k) = "handoff"
  BY <1>1, <1>3, EndedIsFit DEF RevokeEntry, Idle
<1>4. CASE Kind(k) = "message"
  <2>1. Fit(x, p, r, c) /\ x \in State /\ SameFlight(s, x) /\ ~ Contains(x.queue, k)
    BY <1>1, <1>4, LeavesIsFit DEF Leaves
  <2>2. Idle(x, p, r, c, e, k)
    <3>1. Away(x, c, k) <=> Away(s, c, k)
      BY <2>1 DEF SameFlight, Away
    <3> QED
      BY <1>4, <3>1 DEF Idle, Leaves
  <2> DEFINE t == Conclude(x, e, k, "dropped")
  <2>3. Fit(t, p, r, c) /\ SameFlight(x, t) /\ t.slot = x.slot
    BY <1>4, <2>1, <2>2, DroppedIsFit
  <2>4. RevokeEntry(x, e, k) = t
    BY <1>4 DEF RevokeEntry
  <2> HIDE DEF t
  <2> QED
    BY <2>1, <2>3, <2>4 DEF SameFlight
<1> QED
  BY <1>2, <1>3, <1>4

LEMMA AnsweredSlot ==
  ASSUME NEW s \in State, NEW p, NEW r, NEW c, Types(p, r, c), Slotted(s, p),
         NEW e \in 1 .. Epochs, NEW k \in Keys,
         p[e].k = k, e = epoch => s.flight = NoFlight,
         NEW p2, p2[e] = NoPump, \A n \in 1 .. Epochs : n # e => p2[n] = p[n],
         NEW t, SameFlight(s, t),
         t.slot = IF s.slot = [epoch |-> e, k |-> k] THEN NoSlot ELSE s.slot
  PROVE  Slotted(t, p2)
<1>1. s.slot \in Slots /\ NoSlot.epoch = 0 /\ epoch \in 1 .. Epochs /\ epoch # 0
  BY Fields DEF NoSlot, Types
<1>2. t.slot.epoch <= epoch
  BY <1>1 DEF Slotted
<1>3. CASE e = epoch
  BY <1>1, <1>2, <1>3, Names, NonePumps DEF Slotted, SameFlight
<1>4. CASE e # epoch
  <2>1. p2[epoch] = p[epoch]
    BY <1>1, <1>4
  <2>2. CASE s.slot = [epoch |-> e, k |-> k]
    <3>1. s.slot.epoch # epoch /\ t.slot = NoSlot
      BY <1>4, <2>2
    <3>2. \A j : s.slot # [epoch |-> epoch, k |-> j]
      BY <3>1
    <3> QED
      BY <1>1, <1>2, <2>1, <3>1, <3>2 DEF Slotted, SameFlight
  <2>3. CASE s.slot # [epoch |-> e, k |-> k]
    BY <1>2, <2>1, <2>3 DEF Slotted, SameFlight
  <2> QED
    BY <2>2, <2>3
<1> QED
  BY <1>3, <1>4

\* The invariant without the slot does not ask for the slot, nor for what is revoked.
LEMMA OtherFields ==
  ASSUME NEW s \in State, NEW p, NEW r, NEW c, Fit(s, p, r, c),
         NEW t \in State, SameFlight(s, t), SameFates(s, t)
  PROVE  Fit(t, p, r, c)
<1>1. Core(s, p, r, c) /\ c \in [Keys -> 0 .. MaxCalls]
  BY DEF Fit, Core, Types
<1>2. \A k \in Keys : Away(t, c, k) => Away(s, c, k)
  BY DEF Away, SameFlight
<1>3. Telling(t, r, c)
  BY <1>1 DEF Core, Telling, SameFates
<1>4. Flown(t, p, r, c)
  BY <1>1 DEF Core, Flown, SameFates, SameFlight
<1>5. \A k \in Task("handoff") : t.flight.k = k /\ ~ t.flight.recorded <=> s.flight.k = k /\ ~ s.flight.recorded
  BY DEF SameFlight
<1>6. Core(t, p, r, c)
  BY <1>1, <1>2, <1>3, <1>4, <1>5, Calm
<1>7. Remembers(s, t)
  BY DEF Remembers, SameFates
<1> QED
  BY <1>6, <1>7, SameFlightIsFit DEF Fit

LEMMA ReleasedIsFit ==
  ASSUME NEW s \in State, NEW p, NEW r, NEW c, Fit(s, p, r, c), NEW e \in 1 .. Epochs, NEW k \in Keys
  PROVE  LET t == Release(s, e, k) IN
         /\ Fit(t, p, r, c) /\ t \in State /\ SameFlight(s, t) /\ SameFates(s, t)
         /\ t.slot = IF s.slot = [epoch |-> e, k |-> k] THEN NoSlot ELSE s.slot
<1> DEFINE t == Release(s, e, k)
<1>1. Releases(s, e, k, t)
  BY Released
<1> HIDE DEF t
<1>2. /\ t \in State /\ SameFlight(s, t) /\ SameFates(s, t)
      /\ t.slot = IF s.slot = [epoch |-> e, k |-> k] THEN NoSlot ELSE s.slot
  BY <1>1 DEF Releases, State, SameFlight, SameFates
<1>3. Fit(t, p, r, c)
  BY <1>2, OtherFields
<1> QED
  BY <1>2, <1>3 DEF t

LEMMA ClaimKeeps ==
  ASSUME IInv, NEW k \in Keys, Claim(k)
  PROVE  Good(d, pump, runs, history.calls)'
<1> DEFINE c == history.calls
           Old == {j \in Task("message") : runs.state[j] = "queued"}
           state == [j \in Keys |-> IF j = k THEN "queued" ELSE IF j \in Old THEN "dropped" ELSE runs.state[j]]
<1>1. Good(d, pump, runs, c) /\ d \in State /\ Types(pump, runs, c)
  BY DEF IInv, Good, Core
<1>2. /\ runs \in [owner : [Keys -> 0 .. Epochs],
                   state : [Keys -> {"none", "queued", "dispatched"} \cup Outcome]]
      /\ epoch \in 1 .. Epochs /\ epoch # 0
  BY <1>1 DEF Types
<1>3. Kind(k) = "message" /\ runs.owner[k] = 0
  BY DEF Claim
<1>4. Fresh(d, pump, c, k)
  BY <1>1, <1>3, Unclaimed DEF Good
<1>5. runs' = [owner |-> [runs.owner EXCEPT ![k] = epoch], state |-> state]
  BY DEF Claim
<1>6. /\ runs'.owner \in [Keys -> 0 .. Epochs] /\ runs'.owner[k] = epoch
      /\ \A j \in Keys : j # k => runs'.owner[j] = runs.owner[j]
  BY <1>2, <1>5
<1>7. /\ state \in [Keys -> {"none", "queued", "dispatched"} \cup Outcome] /\ state[k] = "queued"
      /\ \A j \in Keys : j # k => \/ state[j] = runs.state[j]
                                  \/ j \in Old /\ state[j] = "dropped"
  BY <1>2 DEF Outcome
<1>8. \A j \in Keys : j \in Old => Kind(j) = "message" /\ runs.state[j] = "queued"
  BY DEF Task
<1> HIDE DEF state, Old
<1>9. runs' \in [owner : [Keys -> 0 .. Epochs],
                 state : [Keys -> {"none", "queued", "dispatched"} \cup Outcome]]
  BY <1>5, <1>6, <1>7
<1>10. runs'.state = state
  BY <1>5
<1>11. Claims(runs, k, runs') /\ runs'.state[k] = "queued"
  BY <1>3, <1>6, <1>7, <1>8, <1>9, <1>10 DEF Claims
<1>12. history'.calls = c
  BY DEF Claim, IInv, TypeOK
<1>13. Good(d', pump', runs', c)
  <2>0. Good(d, pump, runs', c)
    <3>1. \A j \in Keys : Kind(j) = "message" /\ runs.state[j] = "queued" => ~ Away(d, c, j)
      BY <1>1 DEF Good, Core, Sending
    <3>2. Ledger(d, runs, c, runs')
      BY <1>2, <1>3, <1>4, <1>6, <1>7, <1>8, <1>9, <1>10, <3>1 DEF Ledger, Fresh
    <3> QED
      BY <1>1, <3>2, LedgerKeeps DEF Good
  <2>1. CASE d' = d /\ pump' = pump
    BY <2>0, <2>1
  <2>3. CASE pump' = pump /\ d' = Conclude([d EXCEPT !.revoked = d.revoked \cup {k}], epoch, k, "dropped")
    <3> DEFINE x == [d EXCEPT !.revoked = d.revoked \cup {k}]
               t == Conclude(x, epoch, k, "dropped")
    <3>1. x \in State /\ SameFlight(d, x) /\ SameFates(d, x) /\ x.slot = d.slot
      <4>1. x \in State
        BY <1>1, Put, Fields
      <4> QED
        BY <1>1, <4>1 DEF SameFlight, SameFates, State
    <3>2. d' = t
      BY <2>3
    <3> HIDE DEF x
    <3>3. Fit(x, pump, runs', c)
      BY <1>1, <2>0, <3>1, OtherFields DEF Good, Fit
    <3>4. ~ Contains(x.queue, k)
      BY <1>1, <1>2, <1>3, <3>1 DEF Good, Core, Waiting, SameFates
    <3>5. Idle(x, pump, runs', c, epoch, k)
      <4>1. \A i \in DOMAIN d.writes[epoch] : d.writes[epoch][i].op = "cas" => d.writes[epoch][i].k # k
        BY <1>1, <1>2, <1>3 DEF Good, Core, Logged, Entry
      <4>2. Away(x, c, k) <=> Away(d, c, k)
        BY <3>1 DEF Away, SameFlight
      <4> QED
        BY <1>2, <1>3, <1>4, <1>6, <1>10, <1>5, <3>1, <4>1, <4>2 DEF Idle, Fresh, SameFates
    <3>6. Fit(t, pump, runs', c) /\ SameFlight(x, t) /\ t.slot = x.slot
      BY <1>2, <1>3, <3>1, <3>3, <3>4, <3>5, DroppedIsFit
    <3> HIDE DEF t
    <3>7. Slotted(t, pump)
      BY <1>1, <3>1, <3>6, SlotKept DEF Good, SameFlight
    <3> QED
      BY <2>3, <3>2, <3>6, <3>7 DEF Good, Fit
  <2>2. CASE ~ d.shut /\ d' = EnqueueEntry(d, k) /\ pump' = Replaced("message")
    <3>1. d' = EnqueueEntry(d, k) /\ pump' = Replaced("message")
      BY <2>2
    <3>2. Enqueues(d, k, d')
      BY <1>1, <1>4, <3>1, Enqueued DEF Good, Core, Fresh
    <3>3. Buries(pump, "message", pump')
      BY <1>1, <3>1, Buried
    <3>4. d = [d EXCEPT !.arrived = d.arrived]
      BY <1>1 DEF State
    <3>5. /\ Buries(pump, Kind(k), pump') /\ (Kind(k) = "message" => runs'.state[k] = "queued")
          /\ d.arrived = IF Kind(k) = "handoff" THEN d.arrived \cup {k} ELSE d.arrived
      BY <1>3, <1>11, <3>3
    <3> HIDE DEF c
    <3> QED
      BY <1>1, <1>4, <1>11, <2>2, <3>2, <3>4, <3>5, EnqueueKeeps
  <2> QED
    BY <2>1, <2>2, <2>3 DEF Claim
<1> QED
  BY <1>12, <1>13, Carried DEF Claim

\* The claim of a background run may be taken for one before a pause.
LEMMA SourceIsNoted ==
  ASSUME d \in State, NEW k \in Keys, ClaimSource(k)
  PROVE  /\ d' \in State /\ SameFlight(d, d') /\ SameFates(d, d') /\ d'.slot = d.slot
         /\ d.revoked \subseteq d'.revoked
<1>1. CASE d' = d
  BY <1>1 DEF SameFlight, SameFates
<1>2. CASE d' = [d EXCEPT !.revoked = d.revoked \cup {k}]
  <2>1. d' \in State
    BY <1>2, Put, Fields
  <2> QED
    BY <1>2, <2>1 DEF SameFlight, SameFates, State
<1> QED
  BY <1>1, <1>2 DEF ClaimSource

LEMMA ClaimSourceKeeps ==
  ASSUME IInv, NEW k \in Keys, ClaimSource(k)
  PROVE  Good(d, pump, runs, history.calls)'
<1> DEFINE c == history.calls
<1>1. Good(d, pump, runs, c) /\ d \in State /\ Types(pump, runs, c)
  BY DEF IInv, Good, Core
<1>2. runs' = [runs EXCEPT !.owner = [runs.owner EXCEPT ![k] = epoch]] /\ runs.owner[k] = 0
  BY DEF ClaimSource
<1>3. Ledger(d, runs, c, runs')
  <2>1. epoch \in 0 .. Epochs
    BY <1>1 DEF Types
  <2> DEFINE owner == [runs.owner EXCEPT ![k] = epoch]
  <2>2. owner \in [Keys -> 0 .. Epochs] /\ \A j \in Keys : runs.owner[j] # 0 => owner[j] = runs.owner[j]
    BY <1>1, <1>2, <2>1 DEF Types
  <2> HIDE DEF owner
  <2>3. runs' = [runs EXCEPT !.owner = owner]
    BY <1>2 DEF owner
  <2> QED
    BY <1>1, <2>2, <2>3 DEF Ledger, Types
<1>4. Good(d, pump, runs', c)
  BY <1>1, <1>3, LedgerKeeps DEF Good
<1>5. /\ d' \in State /\ SameFlight(d, d') /\ SameFates(d, d') /\ d'.slot = d.slot
      /\ pump' = pump /\ history' = history /\ UNCHANGED <<setup, epoch, disposed>>
  BY <1>1, SourceIsNoted DEF ClaimSource
<1>6. Fit(d', pump, runs', c)
  BY <1>1, <1>4, <1>5, OtherFields DEF Good, Fit
<1>7. Slotted(d', pump)
  BY <1>1, <1>5, SlotKept DEF Good, SameFlight
<1> QED
  BY <1>5, <1>6, <1>7, Carried DEF Good, Fit

\* The pump learns that what it has in its hands is revoked.
LEMMA PumpDies ==
  ASSUME NEW s \in State, NEW p, NEW r, NEW c, Good(s, p, r, c), p[epoch].k \in Keys,
         NEW p2, p2 = [p EXCEPT ![epoch].dead = TRUE, ![epoch].revoked = TRUE]
  PROVE  Good(s, p2, r, c)
<1> DEFINE Pump == [k : Keys \cup {"none"}, dead : BOOLEAN, revoked : BOOLEAN]
<1>1. Core(s, p, r, c) /\ Types(p, r, c) /\ epoch \in 1 .. Epochs /\ p \in [1 .. Epochs -> Pump]
  BY DEF Good, Core, Types
<1>2. /\ p2 \in [1 .. Epochs -> Pump]
      /\ p2[epoch].k = p[epoch].k /\ p2[epoch].dead /\ p2[epoch].revoked
      /\ \A e \in 1 .. Epochs : p2[e].k = p[e].k /\ (e # epoch => p2[e] = p[e])
  <2>1. p[epoch] \in Pump
    BY <1>1
  <2> QED
    BY <1>1, <2>1
<1>3. Types(p2, r, c)
  BY <1>1, <1>2 DEF Types
<1>4. Pumped(s, p2, c)
  BY <1>1, <1>2 DEF Core, Pumped, AtPump
<1>5. Hearing(s, p2, r)
  BY <1>1, <1>2 DEF Core, Hearing, AtPump
<1>6. Logged(s, p2, r, c)
  <2>1. \A e \in 1 .. Epochs : p2[e].k = "none" => p2[e] = NoPump
    BY <1>1, <1>2, Names DEF Core, Logged
  <2>2. \A e \in 1 .. Epochs : e > epoch => p2[e] = NoPump
    BY <1>1, <1>2 DEF Core, Logged
  <2>3. ASSUME NEW e \in 1 .. Epochs, NEW i \in DOMAIN s.writes[e]
        PROVE  Entry(s, p2, r, c, e, s.writes[e][i])
    BY <1>1, <1>2 DEF Core, Logged, Entry
  <2> QED
    BY <1>1, <1>2, <2>1, <2>2, <2>3 DEF Core, Logged
<1>7. Flown(s, p2, r, c)
  BY <1>1, <1>2 DEF Core, Flown
<1>8. Core(s, p2, r, c)
  BY <1>1, <1>3, <1>4, <1>5, <1>6, <1>7 DEF Core
<1>9. Slotted(s, p2)
  BY <1>1, <1>2 DEF Good, Slotted
<1> QED
  BY <1>8, <1>9 DEF Good

\* What the revocation of a task changes.
RevokedOut(kind) ==
  {k \in Task(kind) : runs.owner[k] = epoch /\ k # pump[epoch].k /\ Contains(d.queue, k)}

RevokesTo(kind, T, R) ==
  LET s == [d EXCEPT !.told = T, !.revoked = R] IN
  \/ RevokedOut(kind) = {} /\ d' = s
  \/ \E k \in RevokedOut(kind) : d' = RevokeEntry([s EXCEPT !.queue = RemoveFirst(s.queue, k)], epoch, k)

LEMMA RevokeCases ==
  ASSUME d \in State, epoch \in 1 .. Epochs, NEW kind \in {"message", "handoff"}, Revoke(kind)
  PROVE  /\ \E T \in SUBSET {"message", "handoff"} : \E R \in SUBSET Keys : RevokesTo(kind, T, R)
         /\ \/ pump' = pump
            \/ pump[epoch].k \in Keys /\ pump' = [pump EXCEPT ![epoch].dead = TRUE, ![epoch].revoked = TRUE]
         /\ history' = [history EXCEPT !.swept = history.swept \cup
                          {k \in Task(kind) : runs.owner[k] = epoch /\ Contains(d.queue, k)}]
<1> DEFINE mine == {k \in Task(kind) : runs.owner[k] = epoch}
           waits == {k \in mine : Contains(d.queue, k)}
           casing == {k \in mine : k = pump[epoch].k}
           unreported == {k \in mine \ d.arrived : kind = "handoff"}
           told == IF \E k \in Task(kind) : runs.owner[k] = 0 THEN {kind} ELSE {}
<1>1. mine \subseteq Keys /\ casing \subseteq Keys /\ unreported \subseteq Keys
  BY DEF Task
<1>2. /\ waits = {k \in Task(kind) : runs.owner[k] = epoch /\ Contains(d.queue, k)}
      /\ waits \ casing = RevokedOut(kind)
      /\ waits \subseteq casing => RevokedOut(kind) = {}
  BY DEF RevokedOut
<1>3. casing # {} => pump[epoch].k \in Keys
  BY DEF Task
<1>4. told \subseteq {"message", "handoff"}
  OBVIOUS
<1>5. d.told \subseteq {"message", "handoff"} /\ d.revoked \subseteq Keys
  BY DEF State
<1>6. /\ \E late \in SUBSET (unreported \cup casing) :
           LET s == [d EXCEPT !.told = d.told \cup told, !.revoked = (d.revoked \cup mine) \ late] IN
           \/ waits \subseteq casing /\ d' = s
           \/ \E k \in waits \ casing :
                d' = RevokeEntry([s EXCEPT !.queue = RemoveFirst(s.queue, k)], epoch, k)
      /\ pump' = IF casing = {} \/ pump[epoch].dead THEN pump
                 ELSE [pump EXCEPT ![epoch].dead = TRUE, ![epoch].revoked = TRUE]
      /\ history' = [history EXCEPT !.swept = history.swept \cup waits]
  BY DEF Revoke
<1> HIDE DEF mine, waits, casing, unreported, told
<1>7. PICK late \in SUBSET (unreported \cup casing) :
           LET s == [d EXCEPT !.told = d.told \cup told, !.revoked = (d.revoked \cup mine) \ late] IN
           \/ waits \subseteq casing /\ d' = s
           \/ \E k \in waits \ casing :
                d' = RevokeEntry([s EXCEPT !.queue = RemoveFirst(s.queue, k)], epoch, k)
  BY <1>6
<1>8. d.told \cup told \in SUBSET {"message", "handoff"} /\ (d.revoked \cup mine) \ late \in SUBSET Keys
  BY <1>1, <1>4, <1>5
<1>9. RevokesTo(kind, d.told \cup told, (d.revoked \cup mine) \ late)
  BY <1>2, <1>7 DEF RevokesTo
<1> QED
  BY <1>2, <1>3, <1>6, <1>8, <1>9

LEMMA PauseSweeps ==
  ASSUME IInv, NEW kind \in {"message", "handoff"}, Pause(kind)
  PROVE  /\ history' \in [calls : [Keys -> 0 .. MaxCalls], given : SUBSET Keys,
                          latest : Keys \cup {"none"}, swept : SUBSET Keys]
         /\ history'.calls = history.calls /\ history'.given = history.given
         /\ history'.latest = history.latest
<1>1. history \in [calls : [Keys -> 0 .. MaxCalls], given : SUBSET Keys,
                   latest : Keys \cup {"none"}, swept : SUBSET Keys]
  BY DEF IInv, TypeOK
<1>2. \/ history' = history
      \/ history' = [history EXCEPT !.swept = history.swept \cup
                       {k \in Task(kind) : runs.owner[k] = epoch /\ Contains(d.queue, k)}]
  <2>1. CASE Revoke(kind)
    BY <2>1, RevokeCases DEF IInv, TypeOK
  <2>2. CASE history' = history
    BY <2>2
  <2> QED
    BY <2>1, <2>2 DEF Pause
<1> QED
  BY <1>1, <1>2 DEF Task

LEMMA PauseKeeps ==
  ASSUME IInv, NEW kind \in {"message", "handoff"}, Pause(kind)
  PROVE  Good(d, pump, runs, history.calls)'
<1> DEFINE c == history.calls
           out == RevokedOut(kind)
<1>1. Good(d, pump, runs, c) /\ d \in State /\ Types(pump, runs, c) /\ Core(d, pump, runs, c) /\ epoch \in 1 .. Epochs
  BY DEF IInv, Good, Core, Types
<1>2. Revoke(kind) \/ UNCHANGED <<d, pump, history>>
  BY DEF Pause
<1>3. PICK T \in SUBSET {"message", "handoff"}, R \in SUBSET Keys :
        d' = d \/ RevokesTo(kind, T, R)
  <2>1. CASE Revoke(kind)
    BY <1>1, <2>1, RevokeCases
  <2>2. CASE d' = d
    BY <2>2
  <2> QED
    BY <1>2, <2>1, <2>2
<1> DEFINE s == [d EXCEPT !.told = T, !.revoked = R]
<1>4. /\ \/ pump' = pump
         \/ pump[epoch].k \in Keys /\ pump' = [pump EXCEPT ![epoch].dead = TRUE, ![epoch].revoked = TRUE]
      /\ history'.calls = c
  <2>1. CASE Revoke(kind)
    BY <1>1, <2>1, PauseSweeps, RevokeCases
  <2>2. CASE UNCHANGED <<d, pump, history>>
    BY <2>2
  <2> QED
    BY <1>2, <2>1, <2>2
<1>5. s \in State /\ SameFlight(d, s) /\ SameFates(d, s) /\ s.slot = d.slot
  <2>1. s \in State
    BY <1>1, Put, Fields
  <2> QED
    BY <1>1, <2>1 DEF SameFlight, SameFates, State
<1>6. \/ d' = d
      \/ d' = s
      \/ \E k \in out : d' = RevokeEntry([s EXCEPT !.queue = RemoveFirst(s.queue, k)], epoch, k)
  BY <1>3 DEF RevokesTo
<1>7. \A k \in out : k \in Keys /\ runs.owner[k] = epoch /\ pump[epoch].k # k /\ Contains(d.queue, k)
  BY DEF RevokedOut, Task
<1> HIDE DEF s, out
<1>9. Fit(s, pump, runs, c)
  BY <1>1, <1>5, OtherFields DEF Good, Fit
<1>10. Good(d', pump, runs, c)
  <2>1. CASE d' = d
    BY <1>1, <2>1
  <2>2. CASE d' = s
    <3>1. Slotted(s, pump)
      BY <1>1, <1>5, SlotKept DEF Good, SameFlight
    <3> QED
      BY <1>9, <2>2, <3>1 DEF Fit, Good
  <2>3. ASSUME NEW k \in out, d' = RevokeEntry([s EXCEPT !.queue = RemoveFirst(s.queue, k)], epoch, k)
        PROVE  Good(d', pump, runs, c)
    <3> DEFINE x == [s EXCEPT !.queue = RemoveFirst(s.queue, k)]
               t == RevokeEntry(x, epoch, k)
    <3>1. k \in Keys /\ Core(s, pump, runs, c)
      BY <1>7, <1>9 DEF Fit
    <3>2. Leaves(s, k, x) /\ x.slot = s.slot
      BY <1>5, <3>1, LeftQueue DEF Core
    <3>3. ~ AtPump(pump, k)
      <4> SUFFICES ASSUME NEW e \in 1 .. Epochs, pump[e].k = k
                   PROVE  FALSE
        BY DEF AtPump
      <4>1. runs.owner[k] = e
        BY <1>1, <3>1 DEF Core, Logged
      <4> QED
        BY <1>7, <4>1
    <3>4. Idle(s, pump, runs, c, epoch, k)
      <4>1. Contains(s.queue, k)
        BY <1>5, <1>7 DEF SameFates
      <4>2. ~ Away(s, c, k) /\ s.said[k] = "none"
        BY <3>1, <4>1 DEF Core, Waiting
      <4>3. \A i \in DOMAIN s.writes[epoch] : s.writes[epoch][i].op = "cas" => s.writes[epoch][i].k # k
        BY <1>1, <1>5, <1>7, <3>1, NoIntent DEF Core
      <4> QED
        BY <1>1, <1>7, <3>3, <4>1, <4>2, <4>3 DEF Idle
    <3> HIDE DEF x
    <3>5. Fit(t, pump, runs, c) /\ SameFlight(s, t) /\ t.slot = x.slot
      BY <1>1, <1>5, <1>9, <3>1, <3>2, <3>4, RevokedIsFit
    <3>6. d' = t
      BY <2>3 DEF x
    <3> HIDE DEF t
    <3>7. Slotted(t, pump)
      BY <1>1, <1>5, <3>2, <3>5, SlotKept DEF Good, SameFlight
    <3> QED
      BY <3>5, <3>6, <3>7 DEF Fit, Good
  <2> QED
    BY <1>6, <2>1, <2>2, <2>3
<1>11. Good(d', pump', runs, c)
  <2>1. CASE pump' = pump
    BY <1>10, <2>1
  <2>2. CASE pump[epoch].k \in Keys /\ pump' = [pump EXCEPT ![epoch].dead = TRUE, ![epoch].revoked = TRUE]
    <3>1. pump[epoch].k \in Keys /\ d' \in State
      BY <1>10, <2>2 DEF Good, Core
    <3> QED
      BY <1>10, <2>2, <3>1, PumpDies
  <2> QED
    BY <1>4, <2>1, <2>2
<1>12. Ledger(d', runs, c, runs')
  <2> DEFINE state == [k \in Keys |-> IF Kind(k) = kind /\ runs.state[k] = "queued" THEN "dropped" ELSE runs.state[k]]
  <2>1. runs' = runs \/ runs' = [runs EXCEPT !.state = state]
    BY DEF Pause
  <2>2. /\ runs \in [owner : [Keys -> 0 .. Epochs],
                     state : [Keys -> {"none", "queued", "dispatched"} \cup Outcome]]
        /\ \A k \in Keys : Kind(k) = "handoff" => runs.state[k] = "none"
        /\ \A k \in Keys : runs.state[k] = "queued" => ~ Away(d', c, k)
    <3>1. \A k \in Keys : Kind(k) \in {"message", "handoff"}
      BY <1>1, Kinds
    <3>2. Core(d', pump', runs, c)
      BY <1>11 DEF Good
    <3> QED
      BY <1>1, <3>1, <3>2 DEF Core, Types, Quiet, Sending
  <2>3. /\ state \in [Keys -> {"none", "queued", "dispatched"} \cup Outcome]
        /\ \A k \in Keys : state[k] # runs.state[k] => runs.state[k] = "queued"
    BY <2>2 DEF Outcome
  <2> HIDE DEF state
  <2> QED
    BY <2>1, <2>2, <2>3 DEF Ledger
<1>13. Good(d', pump', runs', c)
  <2>1. d' \in State
    BY <1>11 DEF Good, Core
  <2> QED
    BY <1>11, <1>12, <2>1, LedgerKeeps DEF Good
<1> QED
  BY <1>4, <1>13, Carried DEF Pause

-------------------------------------------------------------------------------
(* The pump *)

LEMMA PumpClaimKeeps ==
  ASSUME IInv, PumpClaim
  PROVE  Good(d, pump, runs, history.calls)'
<1> DEFINE c == history.calls
           k == Head(d.queue)
           slot == [epoch |-> epoch, k |-> k]
           s == [d EXCEPT !.slot = slot]
           a == [NoPump EXCEPT !.k = k]
           p2 == [pump EXCEPT ![epoch] = a]
           Pump == [k : Keys \cup {"none"}, dead : BOOLEAN, revoked : BOOLEAN]
<1>1. /\ Good(d, pump, runs, c) /\ d \in State /\ Types(pump, runs, c) /\ Core(d, pump, runs, c)
      /\ epoch \in 1 .. Epochs /\ epoch # 0 /\ pump \in [1 .. Epochs -> Pump]
  BY DEF IInv, Good, Core, Types
<1>2. /\ d.flight = NoFlight /\ d.queue # <<>> /\ pump[epoch] = NoPump
  BY DEF PumpClaim, PumpFree
<1>3. k \in Keys /\ Contains(d.queue, k)
  BY <1>1, <1>2, Fields, Without1st DEF Core
<1>4. d' = Post(s, epoch, k, "cas") /\ pump' = p2
  BY DEF PumpClaim
<1>5. a \in Pump /\ a.k = k /\ ~ a.dead /\ ~ a.revoked
  BY <1>3 DEF NoPump
<1> HIDE DEF a, Pump
<1>6. p2 \in [1 .. Epochs -> Pump] /\ p2[epoch] = a /\ \A e \in 1 .. Epochs : e # epoch => p2[e] = pump[e]
  BY <1>1, <1>5
<1> HIDE DEF p2
<1>7. slot \in Slots
  BY <1>1, <1>3, DispatchAssumption DEF Slots
<1>8. s \in State
  BY <1>1, <1>7, Put
<1>9. SameFlight(d, s) /\ SameFates(d, s) /\ s.slot = slot
  BY <1>1 DEF SameFlight, SameFates, State
<1> HIDE DEF s, slot
<1>10. Fit(s, pump, runs, c)
  BY <1>1, <1>8, <1>9, OtherFields DEF Good, Fit
<1> HIDE DEF k
<1>11. /\ ~ Away(s, c, k) /\ s.said[k] = "none" /\ runs.owner[k] = epoch /\ Contains(s.queue, k)
  <2>1. Contains(s.queue, k)
    BY <1>3, <1>9 DEF SameFates
  <2> QED
    BY <1>3, <1>10, <2>1 DEF Fit, Core, Waiting
<1>12. \A j \in Keys : AtPump(p2, j) => j = k \/ AtPump(pump, j)
  BY <1>5, <1>6 DEF AtPump
<1>13. Core(s, p2, runs, c)
  <2>0. Core(s, pump, runs, c)
    BY <1>10 DEF Fit
  <2>1. Types(p2, runs, c)
    BY <1>1, <1>6 DEF Types, Pump
  <2>2. Pumped(s, p2, c)
    <3> SUFFICES ASSUME NEW j \in Keys, AtPump(p2, j)
                 PROVE  /\ ~ Away(s, c, j)
                        /\ Kind(j) = "handoff" =>
                             \/ j \in s.ended
                             \/ /\ Contains(s.queue, j)
                                /\ ~ (p2[epoch].k = j /\ p2[epoch].dead /\ ~ p2[epoch].revoked)
                        /\ Kind(j) = "message" => s.said[j] = "none"
                        /\ p2[epoch].k = j /\ p2[epoch].dead /\ ~ p2[epoch].revoked => ~ Contains(s.queue, j)
                        /\ p2[epoch].k = j /\ ~ p2[epoch].dead /\ ~ s.shut => Contains(s.queue, j)
      BY DEF Pumped
    <3>1. CASE j = k
      BY <1>5, <1>6, <1>11, <3>1
    <3>2. CASE j # k
      BY <1>5, <1>6, <1>12, <2>0, <3>2 DEF Core, Pumped
    <3> QED
      BY <3>1, <3>2
  <2>3. Hearing(s, p2, runs)
    BY <1>1, <1>11, <1>12, <2>0 DEF Core, Hearing
  <2>4. Logged(s, p2, runs, c)
    <3>1. ASSUME NEW e \in 1 .. Epochs, NEW i \in DOMAIN s.writes[e]
          PROVE  Entry(s, p2, runs, c, e, s.writes[e][i])
      <4>1. Entry(s, pump, runs, c, e, s.writes[e][i]) /\ s.writes[e][i].k \in Keys
        BY <1>8, <2>0, Writes DEF Core, Logged
      <4>2. e = epoch => s.writes[e][i].op # "cas"
        BY <1>2, <4>1, NonePumps, Names DEF Entry
      <4>3. e # epoch => p2[e] = pump[e]
        BY <1>6
      <4> QED
        BY <4>1, <4>2, <4>3 DEF Entry
    <3>2. ASSUME NEW e \in 1 .. Epochs
          PROVE  /\ p2[e].k \in Keys => runs.owner[p2[e].k] = e
                 /\ p2[e].k = "none" => p2[e] = NoPump
                 /\ e > epoch => p2[e] = NoPump
      <4>1. CASE e = epoch
        BY <1>1, <1>3, <1>5, <1>6, <1>11, <4>1, Names
      <4>2. CASE e # epoch
        BY <1>6, <2>0, <4>2 DEF Core, Logged
      <4> QED
        BY <4>1, <4>2
    <3> QED
      BY <2>0, <3>1, <3>2 DEF Core, Logged
  <2>5. Flown(s, p2, runs, c)
    <3>1. s.flight = NoFlight
      BY <1>2, <1>9 DEF SameFlight
    <3> QED
      BY <2>0, <3>1 DEF Core, Flown
  <2> QED
    BY <2>0, <2>1, <2>2, <2>3, <2>4, <2>5 DEF Core
<1>14. Fit(s, p2, runs, c)
  BY <1>10, <1>13 DEF Fit
<1> DEFINE t == Post(s, epoch, k, "cas")
<1>15. Fit(t, p2, runs, c) /\ SameFlight(s, t) /\ t.slot = s.slot
  <2>1. Entry(s, p2, runs, c, epoch, [k |-> k, op |-> "cas"])
    BY <1>5, <1>6, <1>11 DEF Entry, Outcome
  <2>2. \A i \in DOMAIN s.writes[epoch] : s.writes[epoch][i].op = "cas" => s.writes[epoch][i].k # k
    <3>1. pump[epoch].k # k
      BY <1>2, <1>3, NonePumps, Names
    <3> QED
      BY <1>1, <1>8, <1>10, <3>1, NoIntent DEF Fit, Core
  <2>3. "cas" \in Ops /\ epoch <= epoch
    BY <1>1 DEF Ops
  <2> QED
    BY <1>1, <1>3, <1>8, <1>14, <2>1, <2>2, <2>3, PostIsFit
<1> HIDE DEF t
<1>16. Slotted(t, p2)
  <2>1. t.slot = [epoch |-> epoch, k |-> k] /\ t.flight = NoFlight
    BY <1>2, <1>9, <1>15 DEF slot, SameFlight
  <2> QED
    BY <1>1, <1>5, <1>6, <2>1 DEF Slotted
<1>17. Good(d', pump', runs', history'.calls)
  <2>1. d' = t
    BY <1>4 DEF t
  <2> QED
    BY <1>4, <1>15, <1>16, <2>1 DEF PumpClaim, Fit, Good
<1> QED
  BY <1>17, Carried DEF PumpClaim

LEMMA PumpDropKeeps ==
  ASSUME IInv, PumpDrop
  PROVE  Good(d, pump, runs, history.calls)'
<1> DEFINE c == history.calls
           k == Head(d.queue)
           x == [d EXCEPT !.queue = Tail(d.queue)]
<1>1. /\ Good(d, pump, runs, c) /\ d \in State /\ Types(pump, runs, c) /\ Core(d, pump, runs, c)
      /\ epoch \in 1 .. Epochs
  BY DEF IInv, Good, Core, Types
<1>2. d.queue # <<>> /\ pump[epoch] = NoPump
  BY DEF PumpDrop, PumpFree
<1>3. /\ k \in Keys /\ Contains(d.queue, k) /\ Tail(d.queue) \in Seq(Keys) /\ OneOfTask(Tail(d.queue))
      /\ \A j \in Keys : Contains(Tail(d.queue), j) <=> Contains(d.queue, j) /\ j # k
  BY <1>1, <1>2, Fields, Without1st DEF Core
<1>4. d' = IF Kind(k) = "handoff" THEN EndHandoffs(x, {k}) ELSE Post(x, epoch, k, "drop")
  BY DEF PumpDrop
<1>5. x \in State
  BY <1>1, <1>3, Put
<1>6. /\ x.queue = Tail(d.queue) /\ SameFlight(d, x) /\ x.arrived = d.arrived /\ x.ended = d.ended
      /\ x.writes = d.writes /\ x.heard = d.heard /\ x.said = d.said /\ x.slot = d.slot
  BY <1>1 DEF SameFlight, State
<1>7. Leaves(d, k, x)
  BY <1>3, <1>5, <1>6 DEF Leaves
<1> HIDE DEF x, k
<1>8. /\ ~ Away(d, c, k) /\ d.said[k] = "none" /\ runs.owner[k] = epoch /\ pump[epoch].k # k
      /\ Fit(d, pump, runs, c)
  BY <1>1, <1>2, <1>3, NonePumps, Names DEF Core, Waiting, Good, Fit
<1>9. Fit(d', pump, runs, c) /\ SameFlight(d, d') /\ d'.slot = d.slot
  <2>1. CASE Kind(k) = "handoff"
    <3> DEFINE t == EndHandoffs(x, {k})
    <3>1. Fit(t, pump, runs, c) /\ SameFlight(d, t) /\ t.slot = x.slot
      BY <1>1, <1>3, <1>7, <1>8, <2>1, EndedIsFit
    <3>2. d' = t
      BY <1>4, <2>1
    <3> QED
      BY <1>6, <3>1, <3>2
  <2>2. CASE Kind(k) # "handoff"
    <3> DEFINE t == Post(x, epoch, k, "drop")
    <3>1. Kind(k) = "message"
      BY <1>1, <1>3, <2>2, Kinds
    <3>2. Fit(x, pump, runs, c)
      BY <1>1, <1>3, <1>7, <1>8, <3>1, LeavesIsFit
    <3>3. ~ Away(x, c, k)
      BY <1>6, <1>8 DEF SameFlight, Away
    <3>4. Entry(x, pump, runs, c, epoch, [k |-> k, op |-> "drop"])
      BY <1>8, <3>1, <3>3 DEF Entry, Outcome
    <3>5. \A i \in DOMAIN x.writes[epoch] : x.writes[epoch][i].op = "cas" => x.writes[epoch][i].k # k
      BY <1>1, <1>6, <1>8, NoIntent DEF Core
    <3>6. "drop" \in Ops /\ epoch <= epoch
      BY <1>1 DEF Ops
    <3>7. Fit(t, pump, runs, c) /\ SameFlight(x, t) /\ t.slot = x.slot
      BY <1>1, <1>3, <1>5, <3>2, <3>4, <3>5, <3>6, PostIsFit
    <3>8. d' = t
      BY <1>4, <2>2
    <3> QED
      BY <1>6, <3>7, <3>8 DEF SameFlight
  <2> QED
    BY <2>1, <2>2
<1>10. Slotted(d', pump)
  BY <1>1, <1>9, SlotKept DEF Good, SameFlight
<1>11. Good(d', pump', runs', history'.calls)
  BY <1>9, <1>10 DEF PumpDrop, Fit, Good
<1> QED
  BY <1>11, Carried DEF PumpDrop

\* The state of k is set in the ledger, which does not mind when k was not sent.
LEMMA StateSet ==
  ASSUME NEW s \in State, NEW p, NEW r, NEW c, Core(s, p, r, c), NEW e, NEW k \in Keys,
         Idle(s, p, r, c, e, k), NEW r2,
         \/ r2 = r
         \/ Kind(k) = "message" /\ \E x \in {"dropped", "dispatched"} : r2 = [r EXCEPT !.state[k] = x]
  PROVE  Core(s, p, r2, c) /\ Idle(s, p, r2, c, e, k)
<1>1. CASE r2 = r
  BY <1>1
<1>2. ASSUME Kind(k) = "message", NEW x \in {"dropped", "dispatched"}, r2 = [r EXCEPT !.state[k] = x]
      PROVE  Core(s, p, r2, c) /\ Idle(s, p, r2, c, e, k)
  <2>1. r \in [owner : [Keys -> 0 .. Epochs],
               state : [Keys -> {"none", "queued", "dispatched"} \cup Outcome]]
    BY DEF Core, Types
  <2> DEFINE state == [r.state EXCEPT ![k] = x]
  <2>2. /\ state \in [Keys -> {"none", "queued", "dispatched"} \cup Outcome]
        /\ \A j \in Keys : j # k => state[j] = r.state[j]
    BY <2>1 DEF Outcome
  <2> HIDE DEF state
  <2>3. r2 = [r EXCEPT !.state = state]
    BY <1>2 DEF state
  <2>4. r2.owner = r.owner /\ r2.state = state /\ r2 \in [owner : [Keys -> 0 .. Epochs],
             state : [Keys -> {"none", "queued", "dispatched"} \cup Outcome]]
    BY <2>1, <2>2, <2>3
  <2>5. \A j \in Keys : Kind(j) = "handoff" => j # k
    BY <1>2
  <2>6. Ledger(s, r, c, r2)
    BY <2>2, <2>4, <2>5 DEF Ledger, Idle
  <2>7. Core(s, p, r2, c)
    BY <2>6, LedgerKeeps
  <2> QED
    BY <2>4, <2>7 DEF Idle
<1> QED
  BY <1>1, <1>2

\* What the answer to an intent of epoch e leaves behind, in s, for the pump to go on with.
LEMMA CasAnswered ==
  ASSUME IInv, NEW e \in 1 .. Epochs, Cas(e), NEW s \in State, Good(s, pump, runs, history.calls),
         s.writes[e] = d.writes[e], NEW k, k = NextWrite(e).k,
         \/ runs' = runs
         \/ Kind(k) = "message" /\ \E x \in {"dropped", "dispatched"} : runs' = [runs EXCEPT !.state[k] = x]
  PROVE  LET t == Written(s, e)
             c == history.calls
         IN  /\ Fit(t, pump', runs', c) /\ t \in State /\ Pops(s, e, t)
             /\ k \in Keys /\ pump[e].k = k /\ Idle(t, pump', runs', c, e, k)
             /\ \A i \in DOMAIN t.writes[e] : t.writes[e][i].k # k
             /\ e = epoch => s.flight = NoFlight
             /\ e = epoch /\ ~ pump[e].dead /\ ~ s.shut => Contains(t.queue, k)
             /\ Kind(k) = "handoff" /\ (e # epoch \/ s.shut \/ (pump[e].dead /\ ~ pump[e].revoked)) => k \in t.ended
             /\ \A u : SameFlight(t, u) /\ u.slot = (IF t.slot = [epoch |-> e, k |-> k] THEN NoSlot ELSE t.slot)
                       => Slotted(u, pump')
<1> DEFINE t == Written(s, e)
           c == history.calls
<1>1. d.writes[e] # <<>> /\ Head(d.writes[e]).op = "cas" /\ pump' = [pump EXCEPT ![e] = NoPump]
      /\ k = Head(d.writes[e]).k
  BY DEF Cas, NextWrite
<1>2. Fit(s, pump, runs, c) /\ Types(pump, runs, c) /\ Slotted(s, pump)
  BY DEF Good, Fit, Core
<1>3. /\ Fit(t, pump', runs, c) /\ Pops(s, e, t)
      /\ k \in Keys /\ pump[e].k = k /\ Idle(t, pump', runs, c, e, k)
      /\ \A i \in DOMAIN t.writes[e] : t.writes[e][i].k # k
      /\ pump'[e] = NoPump /\ \A n \in 1 .. Epochs : n # e => pump'[n] = pump[n]
      /\ e = epoch => s.flight = NoFlight
      /\ e = epoch /\ ~ pump[e].dead /\ ~ s.shut => Contains(s.queue, k)
      /\ Kind(k) = "handoff" /\ (e # epoch \/ s.shut \/ (pump[e].dead /\ ~ pump[e].revoked)) => k \in s.ended
  <2>1. s.writes[e] # <<>> /\ Head(s.writes[e]).op = "cas" /\ k = Head(s.writes[e]).k
    BY <1>1
  <2> DEFINE p2 == [pump EXCEPT ![e] = NoPump]
  <2>2. /\ Fit(t, p2, runs, c) /\ Pops(s, e, t)
        /\ k \in Keys /\ pump[e].k = k /\ Idle(t, p2, runs, c, e, k)
        /\ \A i \in DOMAIN t.writes[e] : t.writes[e][i].k # k
        /\ p2[e] = NoPump /\ \A n \in 1 .. Epochs : n # e => p2[n] = pump[n]
        /\ e = epoch => s.flight = NoFlight
        /\ e = epoch /\ ~ pump[e].dead /\ ~ s.shut => Contains(s.queue, k)
        /\ Kind(k) = "handoff" /\ (e # epoch \/ s.shut \/ (pump[e].dead /\ ~ pump[e].revoked)) => k \in s.ended
    BY <1>2, <2>1, Answered
  <2>3. pump' = p2
    BY <1>1
  <2> HIDE DEF t, p2
  <2> QED
    BY <2>2, <2>3
<1> HIDE DEF t
<1>4. t \in State /\ t.queue = s.queue /\ t.ended = s.ended /\ t.slot = s.slot /\ SameFlight(s, t)
  BY <1>3 DEF Pops
<1>5. Core(t, pump', runs', c) /\ Idle(t, pump', runs', c, e, k)
  BY <1>3, <1>4, StateSet DEF Fit
<1>6. ASSUME NEW u, SameFlight(t, u), u.slot = IF t.slot = [epoch |-> e, k |-> k] THEN NoSlot ELSE t.slot
      PROVE  Slotted(u, pump')
  <2>1. SameFlight(s, u) /\ u.slot = IF s.slot = [epoch |-> e, k |-> k] THEN NoSlot ELSE s.slot
    BY <1>4, <1>6 DEF SameFlight
  <2> HIDE DEF c
  <2> QED
    BY <1>2, <1>3, <2>1, AnsweredSlot
<1> QED
  BY <1>3, <1>4, <1>5, <1>6 DEF Fit, t

\* Whatever the answer was, a revoked entry is dropped.
LEMMA RevokedAnswer ==
  ASSUME IInv, NEW e \in 1 .. Epochs, Cas(e), NEW k, k = NextWrite(e).k,
         \/ runs' = runs
         \/ Kind(k) = "message" /\ \E x \in {"dropped", "dispatched"} : runs' = [runs EXCEPT !.state[k] = x],
         d' = RevokeEntry(Left(Written(d, e), e, k), e, k)
  PROVE  Good(d', pump', runs', history.calls)
<1> DEFINE c == history.calls
           t == Written(d, e)
           x == Left(t, e, k)
           u == RevokeEntry(x, e, k)
<1>1. Good(d, pump, runs, c) /\ d \in State
  BY DEF IInv, Good, Core
<1>2. /\ Fit(t, pump', runs', c) /\ t \in State
      /\ k \in Keys /\ Idle(t, pump', runs', c, e, k)
      /\ \A v : SameFlight(t, v) /\ v.slot = (IF t.slot = [epoch |-> e, k |-> k] THEN NoSlot ELSE t.slot)
                => Slotted(v, pump')
  BY <1>1, CasAnswered
<1>3. d' = u
  OBVIOUS
<1> HIDE DEF t
<1>4. Leaves(t, k, x) /\ x.slot = IF t.slot = [epoch |-> e, k |-> k] THEN NoSlot ELSE t.slot
  BY <1>2, LeftSlot DEF Fit, Core
<1> HIDE DEF x
<1>5. Fit(u, pump', runs', c) /\ SameFlight(t, u) /\ u.slot = x.slot
  BY <1>2, <1>4, RevokedIsFit
<1> HIDE DEF u
<1>6. Slotted(u, pump')
  BY <1>2, <1>4, <1>5
<1> QED
  BY <1>3, <1>5, <1>6 DEF Fit, Good

LEMMA CasRefusesKeeps ==
  ASSUME IInv, NEW e \in 1 .. Epochs, CasRefuses(e)
  PROVE  Good(d, pump, runs, history.calls)'
<1> DEFINE c == history.calls
           k == NextWrite(e).k
           t == Written(d, e)
           x == Left(t, e, k)
           y == IF Kind(k) = "handoff" THEN EndHandoffs(x, {k}) ELSE x
<1>1. Good(d, pump, runs, c) /\ d \in State /\ Types(pump, runs, c)
  BY DEF IInv, Good, Core
<1>2. /\ Cas(e) /\ UNCHANGED history
      /\ \/ runs' = runs
         \/ Kind(k) = "message" /\ \E z \in {"dropped", "dispatched"} : runs' = [runs EXCEPT !.state[k] = z]
  BY DEF CasRefuses
<1>3. d' = IF pump[e].revoked THEN RevokeEntry(x, e, k) ELSE y
  BY DEF CasRefuses, OrRevoked
<1>4. Good(d', pump', runs', c)
  <2>1. CASE pump[e].revoked
    BY <1>2, <1>3, <2>1, RevokedAnswer
  <2>2. CASE ~ pump[e].revoked
    <3>1. /\ Fit(t, pump', runs', c) /\ t \in State
          /\ k \in Keys /\ Idle(t, pump', runs', c, e, k)
          /\ \A v : SameFlight(t, v) /\ v.slot = (IF t.slot = [epoch |-> e, k |-> k] THEN NoSlot ELSE t.slot)
                    => Slotted(v, pump')
      BY <1>1, <1>2, CasAnswered
    <3>2. d' = y
      BY <1>3, <2>2
    <3>3. Kind(k) \in {"message", "handoff"}
      BY <1>1, <3>1, Kinds
    <3> HIDE DEF t, k
    <3>4. Leaves(t, k, x) /\ x.slot = IF t.slot = [epoch |-> e, k |-> k] THEN NoSlot ELSE t.slot
      BY <3>1, LeftSlot DEF Fit, Core
    <3> HIDE DEF x
    <3>5. ~ (pump'[epoch].k = k /\ ~ pump'[epoch].dead /\ ~ t.shut)
      BY <3>1 DEF Idle, AtPump, Fit, Core, Types
    <3>6. Fit(y, pump', runs', c) /\ SameFlight(t, y) /\ y.slot = x.slot
      <4>1. CASE Kind(k) = "handoff"
        <5> DEFINE z == EndHandoffs(x, {k})
        <5>1. Fit(z, pump', runs', c) /\ SameFlight(t, z) /\ z.slot = x.slot
          BY <3>1, <3>4, <3>5, <4>1, EndedIsFit DEF Idle
        <5> QED
          BY <4>1, <5>1
      <4>2. CASE Kind(k) = "message"
        BY <3>1, <3>4, <3>5, <4>2, LeavesIsFit DEF Leaves
      <4> QED
        BY <3>3, <4>1, <4>2
    <3> HIDE DEF y
    <3>7. Slotted(y, pump')
      BY <3>1, <3>4, <3>6
    <3> QED
      BY <3>2, <3>6, <3>7 DEF Fit, Good
  <2> QED
    BY <2>1, <2>2
<1>5. disposed' = disposed /\ setup' = setup /\ epoch' = epoch
  BY <1>2 DEF Cas
<1> QED
  BY <1>2, <1>4, <1>5, Carried

\* A message whose intent is undone or in doubt has a write posted for it.
LEMMA MessagePosted ==
  ASSUME NEW s \in State, NEW p, NEW r, NEW c, Fit(s, p, r, c), NEW e \in 1 .. Epochs, NEW k \in Keys,
         Kind(k) = "message", Idle(s, p, r, c, e, k), NEW op \in {"queued", "doubt"}
  PROVE  LET t == Post(s, e, k, op) IN
         Fit(t, p, r, c) /\ SameFlight(s, t) /\ t.slot = s.slot
<1>1. op \in Ops /\ op \notin Outcome /\ op # "cas"
  BY DEF Ops, Outcome
<1>2. Entry(s, p, r, c, e, [k |-> k, op |-> op])
  BY <1>1 DEF Entry, Idle
<1>3. e <= epoch /\ \A i \in DOMAIN s.writes[e] : s.writes[e][i].op = "cas" => s.writes[e][i].k # k
  BY DEF Idle
<1> QED
  BY <1>1, <1>2, <1>3, PostIsFit

LEMMA CasFailsKeeps ==
  ASSUME IInv, NEW e \in 1 .. Epochs, CasFails(e)
  PROVE  Good(d, pump, runs, history.calls)'
<1> DEFINE c == history.calls
           k == NextWrite(e).k
           t == Written(d, e)
           z == Release(t, e, k)
           x == Left(t, e, k)
           y == Post(x, e, k, "doubt")
<1>1. Good(d, pump, runs, c) /\ d \in State
  BY DEF IInv, Good, Core
<1>2. /\ Cas(e) /\ UNCHANGED history
      /\ \/ runs' = runs
         \/ Kind(k) = "message" /\ \E v \in {"dropped", "dispatched"} : runs' = [runs EXCEPT !.state[k] = v]
      /\ \/ d' = IF pump[e].revoked THEN RevokeEntry(x, e, k) ELSE z
         \/ Kind(k) = "message" /\ d' = IF pump[e].revoked THEN RevokeEntry(x, e, k) ELSE y
  BY DEF CasFails, OrRevoked
<1>3. Good(d', pump', runs', c)
  <2>1. CASE pump[e].revoked
    <3>1. d' = RevokeEntry(x, e, k)
      BY <1>2, <2>1
    <3> QED
      BY <1>2, <3>1, RevokedAnswer
  <2>2. CASE ~ pump[e].revoked
    <3>1. /\ Fit(t, pump', runs', c) /\ t \in State
          /\ k \in Keys /\ Idle(t, pump', runs', c, e, k)
          /\ \A v : SameFlight(t, v) /\ v.slot = (IF t.slot = [epoch |-> e, k |-> k] THEN NoSlot ELSE t.slot)
                    => Slotted(v, pump')
      BY <1>1, <1>2, CasAnswered
    <3>2. d' = z \/ (Kind(k) = "message" /\ d' = y)
      BY <1>2, <2>2
    <3> HIDE DEF t, k
    <3>3. CASE d' = z
      <4>1. /\ Fit(z, pump', runs', c) /\ SameFlight(t, z)
            /\ z.slot = IF t.slot = [epoch |-> e, k |-> k] THEN NoSlot ELSE t.slot
        BY <3>1, ReleasedIsFit
      <4> HIDE DEF z
      <4>2. Slotted(z, pump')
        BY <3>1, <4>1
      <4> QED
        BY <3>3, <4>1, <4>2 DEF Fit, Good
    <3>4. CASE Kind(k) = "message" /\ d' = y
      <4>1. Leaves(t, k, x) /\ x.slot = IF t.slot = [epoch |-> e, k |-> k] THEN NoSlot ELSE t.slot
        BY <3>1, LeftSlot DEF Fit, Core
      <4> HIDE DEF x
      <4>2. ~ (pump'[epoch].k = k /\ ~ pump'[epoch].dead /\ ~ t.shut)
        BY <3>1 DEF Idle, AtPump, Fit, Core, Types
      <4>3. Fit(x, pump', runs', c) /\ x \in State /\ SameFlight(t, x)
        BY <3>1, <3>4, <4>1, <4>2, LeavesIsFit DEF Leaves
      <4>4. Idle(x, pump', runs', c, e, k)
        <5>1. Away(x, c, k) <=> Away(t, c, k)
          BY <4>3 DEF SameFlight, Away
        <5> QED
          BY <3>1, <3>4, <4>1, <5>1 DEF Idle, Leaves
      <4>5. Fit(y, pump', runs', c) /\ SameFlight(x, y) /\ y.slot = x.slot
        BY <3>1, <3>4, <4>3, <4>4, MessagePosted
      <4> HIDE DEF y
      <4>6. Slotted(y, pump')
        BY <3>1, <4>1, <4>3, <4>5 DEF SameFlight
      <4> QED
        BY <3>4, <4>5, <4>6 DEF Fit, Good
    <3> QED
      BY <3>2, <3>3, <3>4
  <2> QED
    BY <2>1, <2>2
<1>4. disposed' = disposed /\ setup' = setup /\ epoch' = epoch
  BY <1>2 DEF Cas
<1> QED
  BY <1>2, <1>3, <1>4, Carried

\* A message or handoff is sent.
LEMMA SentIsGood ==
  ASSUME NEW t \in State, NEW p, NEW r, NEW c, Fit(t, p, r, c), NEW k \in Keys,
         Idle(t, p, r, c, epoch, k), \A i \in DOMAIN t.writes[epoch] : t.writes[epoch][i].k # k,
         Contains(t.queue, k), t.flight = NoFlight, t.inbox = {}, t.host.by = "none", ~ t.shut,
         t.slot = [epoch |-> epoch, k |-> k], p[epoch] = NoPump,
         Kind(k) = "message" => r.state[k] = "dispatched"
  PROVE  Good(Sent(t, k), p, r, c) /\ Sent(t, k).flight # NoFlight
<1> DEFINE f == [NoFlight EXCEPT !.k = k, !.phase = "dispatched"]
           q == RemoveFirst(t.queue, k)
           inbox == t.inbox \cup {k}
           u == [t EXCEPT !.queue = q, !.inbox = inbox, !.flight = f]
<1>1. Core(t, p, r, c) /\ Types(p, r, c) /\ epoch \in 1 .. Epochs /\ epoch # 0
  BY DEF Fit, Core, Types
<1>2. /\ f \in Flight /\ f.k = k /\ f.phase = "dispatched" /\ ~ f.recorded /\ ~ f.stuck /\ ~ f.called
      /\ ~ f.merged /\ ~ f.handed
  BY DEF NoFlight, Flight
<1>3. Sent(t, k) = u
  BY DEF Sent
<1> HIDE DEF f
<1>4. f \in Flights /\ f # NoFlight
  BY <1>2, PutInFlight
<1>5. /\ q \in Seq(Keys) /\ OneOfTask(q)
      /\ \A j \in Keys : Contains(q, j) <=> Contains(t.queue, j) /\ j # k
  BY <1>1, Fields, Without DEF Core
<1>6. inbox \in SUBSET Keys /\ \A j \in Keys : j \in inbox <=> j = k
  OBVIOUS
<1> HIDE DEF q, inbox
<1>7. u \in State
  BY <1>4, <1>5, <1>6 DEF State, Flights
<1>8. /\ u.queue = q /\ u.inbox = inbox /\ u.flight = f
      /\ u.shut = t.shut /\ u.slot = t.slot /\ u.record = t.record /\ u.host = t.host
      /\ u.arrived = t.arrived /\ u.ended = t.ended /\ u.writes = t.writes
      /\ u.heard = t.heard /\ u.said = t.said
  BY DEF State
<1> HIDE DEF u
<1>9. /\ ~ Away(t, c, k) /\ c[k] = 0 /\ t.said[k] = "none" /\ k \notin t.ended
      /\ r.owner[k] = epoch /\ ~ AtPump(p, k)
      /\ Kind(k) = "handoff" => k \in t.arrived /\ t.heard[k] = 0
  BY <1>1 DEF Core, Waiting, Hearing, Types, Away, Idle
<1>10. \A j \in Keys : Away(u, c, j) <=> Away(t, c, j) \/ j = k
  BY <1>2, <1>6, <1>8, NoneFlies, Names DEF Away
<1>11. Core(u, p, r, c)
  <2>1. Waiting(u, r, c)
    BY <1>1, <1>5, <1>8, <1>10 DEF Core, Waiting
  <2>2. Pumped(u, p, c)
    <3> SUFFICES ASSUME NEW j \in Keys, AtPump(p, j)
                 PROVE  /\ ~ Away(u, c, j)
                        /\ Kind(j) = "handoff" =>
                             \/ j \in u.ended
                             \/ /\ Contains(u.queue, j)
                                /\ ~ (p[epoch].k = j /\ p[epoch].dead /\ ~ p[epoch].revoked)
                        /\ Kind(j) = "message" => u.said[j] = "none"
                        /\ p[epoch].k = j /\ p[epoch].dead /\ ~ p[epoch].revoked => ~ Contains(u.queue, j)
                        /\ p[epoch].k = j /\ ~ p[epoch].dead /\ ~ u.shut => Contains(u.queue, j)
      BY DEF Pumped
    <3>1. j # k
      BY <1>9
    <3> QED
      BY <1>1, <1>5, <1>8, <1>10, <3>1 DEF Core, Pumped
  <2>3. Sending(u, r, c)
    BY <1>1, <1>8, <1>9, <1>10 DEF Core, Sending
  <2>4. Hearing(u, p, r)
    <3> SUFFICES ASSUME NEW j \in Keys
                 PROVE  /\ j \in u.ended => j \in u.arrived
                        /\ j \in u.arrived =>
                             /\ Kind(j) = "handoff"
                             /\ u.heard[j] = IF Contains(u.queue, j) \/ (u.flight.k = j /\ ~ u.flight.recorded)
                                             THEN 0 ELSE 1
                        /\ Kind(j) = "handoff" /\ j \notin u.arrived => u.heard[j] = 0 /\ u.said[j] = "none"
                        /\ r.owner[j] = 0 => u.said[j] = "none" /\ j \notin u.arrived /\ ~ AtPump(p, j)
      BY DEF Hearing
    <3>1. CASE j = k
      BY <1>1, <1>2, <1>8, <1>9, <3>1 DEF Core, Hearing
    <3>2. CASE j # k
      <4>1. /\ Contains(u.queue, j) <=> Contains(t.queue, j)
            /\ u.flight.k # j /\ t.flight.k # j
        BY <1>2, <1>5, <1>8, <3>2, NoneFlies, Names
      <4> QED
        BY <1>1, <1>8, <4>1 DEF Core, Hearing
    <3> QED
      BY <3>1, <3>2
  <2>5. Telling(u, r, c)
    BY <1>1, <1>8 DEF Core, Telling
  <2>6. Logged(u, p, r, c)
    <3>1. ASSUME NEW e \in 1 .. Epochs, NEW i \in DOMAIN u.writes[e]
          PROVE  Entry(u, p, r, c, e, u.writes[e][i])
      <4> DEFINE w == t.writes[e][i]
      <4>1. Entry(t, p, r, c, e, w) /\ w.k \in Keys
        BY <1>1, <1>8, <3>1, Writes DEF Core, Logged
      <4>2. w.k # k
        <5>1. CASE e = epoch
          BY <1>8, <3>1, <5>1
        <5>2. CASE e # epoch
          BY <1>9, <4>1, <5>2 DEF Entry
        <5> QED
          BY <5>1, <5>2
      <4>3. u.writes[e][i] = w
        BY <1>8
      <4> HIDE DEF w
      <4> QED
        BY <1>8, <1>10, <4>1, <4>2, <4>3 DEF Entry
    <3> QED
      BY <1>1, <1>8, <3>1 DEF Core, Logged
  <2>7. Flown(u, p, r, c)
    <3>1. c[f.k] = 0 /\ u.said[f.k] = "none" /\ r.owner[f.k] = epoch
      BY <1>2, <1>8, <1>9
    <3> QED
      BY <1>2, <1>8, <3>1, NonePumps DEF Flown
  <2> QED
    BY <1>1, <1>5, <1>7, <1>8, <2>1, <2>2, <2>3, <2>4, <2>5, <2>6, <2>7 DEF Core
<1>12. Slotted(u, p)
  BY <1>1, <1>2, <1>8, NonePumps DEF Slotted
<1>13. Hosted(u) /\ Open(u)
  <2>1. "none" # "human" /\ t.host.by \notin Keys
    BY Names
  <2> QED
    BY <1>2, <1>8, <2>1 DEF Fit, Hosted, Open
<1>14. Recorded(u)
  <2>1. ~ Watched(t)
    BY NoneFlies DEF Watched, Supervised
  <2> QED
    BY <1>8, <2>1 DEF Fit, Recorded, Handed
<1>15. u.flight # NoFlight
  BY <1>4, <1>8
<1> QED
  BY <1>3, <1>11, <1>12, <1>13, <1>14, <1>15 DEF Good

\* A shutdown with nothing in flight posts nothing.
LEMMA StoppedWrites ==
  ASSUME NEW s \in State, s.flight = NoFlight, NEW lost \in BOOLEAN
  PROVE  Stopped(s, lost).writes = s.writes
<1> DEFINE H == {k \in Keys : Kind(k) = "handoff" /\ Contains(s.queue, k)}
           z == EndHandoffs(s, H)
           t == [z EXCEPT !.shut = TRUE, !.flight = NoFlight, !.queue = <<>>]
<1>1. ~ Supervised(s.flight) /\ s.flight.phase = "none"
  BY NoneFlies DEF Supervised
<1>2. Shutdown(s, lost) = t
  BY <1>1 DEF Shutdown
<1>3. Ends(s, H, z)
  BY Ended
<1> HIDE DEF z
<1>4. z.writes = s.writes /\ t.writes = z.writes
  BY <1>3 DEF Ends, State
<1> QED
  BY <1>2, <1>4 DEF Stopped

LEMMA CasAllowsKeeps ==
  ASSUME IInv, NEW e \in 1 .. Epochs, CasAllows(e)
  PROVE  Good(d, pump, runs, history.calls)'
<1> DEFINE c == history.calls
           k == NextWrite(e).k
           dead == pump[e].dead \/ e # epoch \/ e \in disposed \/ d.shut
<1>1. Good(d, pump, runs, c) /\ d \in State /\ Types(pump, runs, c) /\ epoch \in 1 .. Epochs
  BY DEF IInv, Good, Core, Types
<1>2. /\ Cas(e) /\ history' = history
      /\ \/ runs' = runs
         \/ Kind(k) = "message" /\ \E v \in {"dropped", "dispatched"} : runs' = [runs EXCEPT !.state[k] = v]
      /\ runs' = IF Kind(k) = "message" THEN [runs EXCEPT !.state[k] = "dispatched"] ELSE runs
  BY DEF CasAllows
<1>3. \/ /\ pump[e].revoked \/ dead
         /\ \E lost \in BOOLEAN :
              LET s == Written(IF e = epoch THEN Stopped(d, lost) ELSE d, e) IN
              d' = IF pump[e].revoked THEN RevokeEntry(Left(Written(d, e), e, k), e, k)
                   ELSE Reverted(Left(s, e, k), e, k)
      \/ /\ ~ pump[e].revoked /\ ~ dead
         /\ d' = Reverted(Release(Written(d, e), e, k), e, k)
      \/ /\ ~ pump[e].revoked /\ ~ dead /\ Ready(d)
         /\ d' = Sent(Written(d, e), k) \/ d' = SentAway(Written(d, e), k)
  BY DEF CasAllows, OrRevoked
<1>4. d.writes[e] # <<>> /\ Head(d.writes[e]).op = "cas" /\ k = Head(d.writes[e]).k
  BY <1>2 DEF Cas, NextWrite
<1>5. /\ Fit(Written(d, e), pump', runs', c) /\ Written(d, e) \in State /\ Pops(d, e, Written(d, e))
      /\ k \in Keys /\ pump[e].k = k /\ Idle(Written(d, e), pump', runs', c, e, k)
      /\ \A i \in DOMAIN Written(d, e).writes[e] : Written(d, e).writes[e][i].k # k
      /\ e = epoch => d.flight = NoFlight
      /\ e = epoch /\ ~ pump[e].dead /\ ~ d.shut => Contains(Written(d, e).queue, k)
      /\ \A u : /\ SameFlight(Written(d, e), u)
                /\ u.slot = IF Written(d, e).slot = [epoch |-> e, k |-> k] THEN NoSlot ELSE Written(d, e).slot
                => Slotted(u, pump')
  BY <1>1, <1>2, CasAnswered
<1>6. Kind(k) \in {"message", "handoff"}
  BY <1>1, <1>5, Kinds
<1>7. ASSUME pump[e].revoked
      PROVE  Good(d', pump', runs', c)
  <2>1. d' = RevokeEntry(Left(Written(d, e), e, k), e, k)
    BY <1>3, <1>7
  <2> QED
    BY <1>2, <2>1, RevokedAnswer
<1>8. ASSUME ~ pump[e].revoked, dead, NEW lost \in BOOLEAN,
             d' = Reverted(Left(Written(IF e = epoch THEN Stopped(d, lost) ELSE d, e), e, k), e, k)
      PROVE  Good(d', pump', runs', c)
  <2> DEFINE s == IF e = epoch THEN Stopped(d, lost) ELSE d
             t == Written(s, e)
             x == Left(t, e, k)
             y == Post(x, e, k, "queued")
  <2>1. /\ s \in State /\ Good(s, pump, runs, c) /\ s.writes[e] = d.writes[e]
        /\ e = epoch /\ ~ pump[e].dead => s.shut
    <3>1. CASE e # epoch
      BY <1>1, <3>1
    <3>2. CASE e = epoch
      <4> DEFINE v == Stopped(d, lost)
      <4>1. /\ Core(v, pump, runs, c) /\ Recorded(v) /\ Open(v) /\ Slotted(v, pump) /\ Handled(d, v)
            /\ v = d \/ Shuts(d, v)
        BY <1>1, StoppedIsGood DEF Good
      <4>2. v.writes = d.writes
        BY <1>1, <1>5, <3>2, StoppedWrites
      <4>3. s = v
        BY <3>2
      <4>4. ~ pump[e].dead => v.shut
        <5>1. CASE d.shut
          BY <5>1 DEF Stopped
        <5>2. CASE ~ d.shut
          <6>1. ~ pump[e].dead => v = Shutdown(d, lost)
            BY <1>8, <3>2, <5>2 DEF Stopped
          <6>2. Shutdown(d, lost).shut
            BY <1>1, ShutIsGood DEF Shuts, Good
          <6> QED
            BY <6>1, <6>2
        <5> QED
          BY <5>1, <5>2
      <4> HIDE DEF v, s
      <4>5. Hosted(v)
        BY <1>1, <4>1, StaysHosted DEF Good
      <4> QED
        BY <4>1, <4>2, <4>3, <4>4, <4>5 DEF Good, Core
    <3> QED
      BY <3>1, <3>2
  <2>2. d' = IF Kind(k) = "message" THEN y ELSE x
    BY <1>8 DEF Reverted
  <2> HIDE DEF s
  <2>3. /\ Fit(t, pump', runs', c) /\ t \in State /\ Pops(s, e, t)
        /\ Idle(t, pump', runs', c, e, k)
        /\ Kind(k) = "handoff" /\ (e # epoch \/ s.shut \/ (pump[e].dead /\ ~ pump[e].revoked)) => k \in t.ended
        /\ \A u : SameFlight(t, u) /\ u.slot = (IF t.slot = [epoch |-> e, k |-> k] THEN NoSlot ELSE t.slot)
                  => Slotted(u, pump')
    BY <1>2, <2>1, CasAnswered
  <2> HIDE DEF t, k
  <2>4. Leaves(t, k, x) /\ x.slot = IF t.slot = [epoch |-> e, k |-> k] THEN NoSlot ELSE t.slot
    BY <1>5, <2>3, LeftSlot DEF Fit, Core
  <2> HIDE DEF x
  <2>5. ~ (pump'[epoch].k = k /\ ~ pump'[epoch].dead /\ ~ t.shut)
    BY <2>3 DEF Idle, AtPump, Fit, Core, Types
  <2>6. Kind(k) = "message" \/ ~ Contains(t.queue, k)
    <3>1. Kind(k) = "handoff" => k \in t.ended
      BY <1>8, <2>1, <2>3
    <3> QED
      BY <1>5, <1>6, <2>3, <3>1 DEF Fit, Core, Waiting
  <2>7. Fit(x, pump', runs', c) /\ x \in State /\ SameFlight(t, x)
    BY <1>5, <2>3, <2>4, <2>5, <2>6, LeavesIsFit DEF Leaves
  <2>8. CASE Kind(k) # "message"
    <3>1. Slotted(x, pump')
      BY <2>3, <2>4, <2>7
    <3> QED
      BY <2>2, <2>7, <2>8, <3>1 DEF Fit, Good
  <2>9. CASE Kind(k) = "message"
    <3>1. Idle(x, pump', runs', c, e, k)
      <4>1. Away(x, c, k) <=> Away(t, c, k)
        BY <2>7 DEF SameFlight, Away
      <4> QED
        BY <2>3, <2>4, <2>9, <4>1 DEF Idle, Leaves
    <3>2. Fit(y, pump', runs', c) /\ SameFlight(x, y) /\ y.slot = x.slot
      BY <1>5, <2>7, <2>9, <3>1, MessagePosted
    <3>3. d' = y
      BY <2>2, <2>9
    <3> HIDE DEF y
    <3>4. Slotted(y, pump')
      BY <2>3, <2>4, <2>7, <3>2 DEF SameFlight
    <3> QED
      BY <3>2, <3>3, <3>4 DEF Fit, Good
  <2> QED
    BY <2>8, <2>9
<1>9. ASSUME d' = Reverted(Release(Written(d, e), e, k), e, k)
      PROVE  Good(d', pump', runs', c)
  <2> DEFINE t == Written(d, e)
             z == Release(t, e, k)
             y == Post(z, e, k, "queued")
  <2>1. d' = IF Kind(k) = "message" THEN y ELSE z
    BY <1>9 DEF Reverted
  <2>2. /\ Fit(t, pump', runs', c) /\ t \in State /\ Idle(t, pump', runs', c, e, k)
        /\ \A u : SameFlight(t, u) /\ u.slot = (IF t.slot = [epoch |-> e, k |-> k] THEN NoSlot ELSE t.slot)
                  => Slotted(u, pump')
    BY <1>5
  <2> HIDE DEF t, k
  <2>3. /\ Fit(z, pump', runs', c) /\ z \in State /\ SameFlight(t, z) /\ SameFates(t, z)
        /\ z.slot = IF t.slot = [epoch |-> e, k |-> k] THEN NoSlot ELSE t.slot
    BY <1>5, <2>2, ReleasedIsFit
  <2> HIDE DEF z
  <2>4. Slotted(z, pump')
    BY <2>2, <2>3
  <2>5. CASE Kind(k) # "message"
    BY <2>1, <2>3, <2>4, <2>5 DEF Fit, Good
  <2>6. CASE Kind(k) = "message"
    <3>1. Idle(z, pump', runs', c, e, k)
      <4>1. Away(z, c, k) <=> Away(t, c, k)
        BY <2>3 DEF SameFlight, Away
      <4> QED
        BY <2>2, <2>3, <4>1 DEF Idle, SameFates
    <3>2. Fit(y, pump', runs', c) /\ SameFlight(z, y) /\ y.slot = z.slot
      BY <1>5, <2>3, <2>6, <3>1, MessagePosted
    <3>3. d' = y
      BY <2>1, <2>6
    <3> HIDE DEF y
    <3>4. Slotted(y, pump')
      BY <2>2, <2>3, <3>2 DEF SameFlight
    <3> QED
      BY <3>2, <3>3, <3>4 DEF Fit, Good
  <2> QED
    BY <2>5, <2>6
<1>10. ASSUME ~ pump[e].revoked, ~ dead, Ready(d),
              d' = Sent(Written(d, e), k) \/ d' = SentAway(Written(d, e), k)
       PROVE  Good(d', pump', runs', c)
  <2> DEFINE t == Written(d, e)
             u == Sent(t, k)
  <2>1. /\ e = epoch /\ epoch \notin disposed /\ ~ d.shut /\ ~ pump[epoch].dead /\ pump[epoch].k = k
        /\ d.host.by = "none" /\ d.inbox = {} /\ d.flight = NoFlight
    BY <1>5, <1>10 DEF Ready
  <2>2. /\ Fit(t, pump', runs', c) /\ t \in State /\ Idle(t, pump', runs', c, epoch, k)
        /\ \A i \in DOMAIN t.writes[epoch] : t.writes[epoch][i].k # k
        /\ Contains(t.queue, k) /\ SameFlight(d, t) /\ t.slot = d.slot
    BY <1>5, <2>1 DEF Pops
  <2>3. d.slot = [epoch |-> epoch, k |-> k]
    <3>1. pump[epoch].k # "none"
      BY <1>5, <2>1, Names
    <3> QED
      BY <1>1, <2>1, <3>1 DEF Good, Slotted
  <2>4. pump'[epoch] = NoPump
    BY <1>1, <1>2, <2>1 DEF Cas, Types
  <2>5. Kind(k) = "message" => runs'.state[k] = "dispatched"
    BY <1>1, <1>2, <1>5 DEF Types
  <2>6. d' = u \/ d' = RecordOf(CloseFlight(u), u.flight, "unknown")
    BY <1>10 DEF SentAway
  <2> HIDE DEF t, k, dead
  <2>7. /\ t.flight = NoFlight /\ t.inbox = {} /\ t.host.by = "none" /\ ~ t.shut
        /\ t.slot = [epoch |-> epoch, k |-> k]
    BY <2>1, <2>2, <2>3 DEF SameFlight
  <2>8. Good(u, pump', runs', c) /\ u.flight # NoFlight
    BY <1>5, <2>2, <2>4, <2>5, <2>7, SentIsGood
  <2> HIDE DEF u
  <2>9. CASE d' = RecordOf(CloseFlight(u), u.flight, "unknown")
    <3> DEFINE v == RecordOf(CloseFlight(u), u.flight, "unknown")
    <3>1. "unknown" \in Outcome /\ "unknown" # "dropped"
      BY DEF Outcome
    <3>2. u \in State /\ Core(u, pump', runs', c) /\ Held(u) /\ Slotted(u, pump') /\ Hosted(u)
      BY <2>8, RecordedIsHeld DEF Good, Core
    <3>3. Core(v, pump', runs', c) /\ Void(v) /\ Open(v) /\ Slotted(v, pump') /\ Handled(u, v)
      BY <2>8, <3>1, <3>2, EndIsGood
    <3>4. Recorded(v) /\ Hosted(v)
      BY <3>2, <3>3, VoidIsRecorded, StaysHosted
    <3> QED
      BY <2>9, <3>3, <3>4 DEF Good
  <2> QED
    BY <2>6, <2>8, <2>9
<1>11. Good(d', pump', runs', c)
  BY <1>3, <1>7, <1>8, <1>9, <1>10
<1>12. disposed' = disposed /\ setup' = setup /\ epoch' = epoch
  BY <1>2 DEF Cas
<1> QED
  BY <1>2, <1>11, <1>12, Carried

-------------------------------------------------------------------------------
(* The ledger *)

LEMMA WriteKeeps ==
  ASSUME IInv, NEW e \in 1 .. Epochs, Write(e)
  PROVE  Good(d, pump, runs, history.calls)'
<1> DEFINE c == history.calls
           w == NextWrite(e)
           t == Written(d, e)
<1>1. /\ Good(d, pump, runs, c) /\ Fit(d, pump, runs, c) /\ d \in State /\ Core(d, pump, runs, c)
      /\ Types(pump, runs, c)
  BY DEF IInv, Good, Fit, Core
<1>2. /\ d.writes[e] # <<>> /\ w = Head(d.writes[e]) /\ w.op # "cas" /\ d' = t /\ pump' = pump
      /\ runs' = runs \/ runs' = [runs EXCEPT !.state[w.k] = Becomes(runs.state[w.k], w.op)]
  BY DEF Write, NextWrite
<1>3. 1 \in DOMAIN d.writes[e] /\ w = d.writes[e][1] /\ w \in LogEntry
  BY <1>1, <1>2, Popped, Writes
<1>4. Entry(d, pump, runs, c, e, w)
  BY <1>1, <1>3 DEF Core, Logged
<1>5. Fit(t, pump, runs, c) /\ t.slot = d.slot /\ SameFlight(d, t)
  BY <1>1, <1>2, PopIsFit
<1>6. history'.calls = c
  BY DEF Write, IInv, TypeOK
<1> HIDE DEF t, w
<1>7. Ledger(d, runs, c, runs')
  <2> DEFINE k == w.k
             b == Becomes(runs.state[k], w.op)
             state == [runs.state EXCEPT ![k] = b]
  <2>1. /\ runs \in [owner : [Keys -> 0 .. Epochs],
                     state : [Keys -> {"none", "queued", "dispatched"} \cup Outcome]]
        /\ k \in Keys /\ w.op \in Ops
    BY <1>1, <1>3 DEF Types, LogEntry
  <2>2. runs.state[k] \in {"none", "queued", "dispatched"} \cup Outcome
    BY <2>1
  <2>3. /\ b \in {"none", "queued", "dispatched"} \cup Outcome
        /\ b # runs.state[k] /\ b \in {"none", "queued"} => w.op = "queued"
        /\ b # runs.state[k] /\ b = "dropped" => w.op \in {"drop", "dropped"}
    BY <1>2, <2>1, <2>2 DEF Becomes, Ops, Outcome
  <2>4. Kind(k) = "message"
    BY <1>2, <1>4 DEF Entry
  <2>5. Away(d, c, k) => w.op \notin {"drop", "queued"}
    BY <1>4 DEF Entry
  <2>6. w.op = "dropped" => d.said[k] = "dropped"
    BY <1>4 DEF Entry, Outcome
  <2> HIDE DEF b, k
  <2>7. /\ state \in [Keys -> {"none", "queued", "dispatched"} \cup Outcome]
        /\ state[k] = b
        /\ \A j \in Keys : j # k => state[j] = runs.state[j]
    BY <2>1, <2>3
  <2>8. runs' = runs \/ runs' = [runs EXCEPT !.state = state]
    BY <1>2 DEF b, k
  <2> HIDE DEF state
  <2>9. CASE runs' = runs
    BY <2>1, <2>9 DEF Ledger
  <2>10. CASE runs' = [runs EXCEPT !.state = state]
    <3>1. /\ runs'.owner = runs.owner /\ runs'.state = state
          /\ runs' \in [owner : [Keys -> 0 .. Epochs],
                        state : [Keys -> {"none", "queued", "dispatched"} \cup Outcome]]
      BY <2>1, <2>7, <2>10
    <3>2. \A j \in Keys : Kind(j) = "handoff" => j # k
      BY <2>4
    <3> QED
      BY <2>3, <2>5, <2>6, <2>7, <3>1, <3>2 DEF Ledger
  <2> QED
    BY <2>8, <2>9, <2>10
<1>8. Fit(d, pump, runs', c)
  BY <1>1, <1>7, LedgerKeeps DEF Fit
<1>9. Fit(t, pump, runs', c)
  BY <1>1, <1>2, <1>8, PopIsFit DEF t, w
<1>10. Slotted(t, pump)
  BY <1>1, <1>5, SlotKept DEF Good, SameFlight
<1>11. Good(d', pump', runs', history'.calls)
  BY <1>2, <1>6, <1>9, <1>10 DEF Good, Fit
<1> QED
  BY <1>11, Carried DEF Write

LEMMA CloseEpochKeeps ==
  ASSUME IInv, NEW e \in 1 .. Epochs, CloseEpoch(e)
  PROVE  Good(d, pump, runs, history.calls)'
<1> DEFINE c == history.calls
           state == [k \in Keys |->
             IF runs.owner[k] # e THEN runs.state[k]
             ELSE IF runs.state[k] = "queued" THEN "dropped"
             ELSE IF runs.state[k] = "dispatched" THEN "unknown" ELSE runs.state[k]]
<1>1. /\ Good(d, pump, runs, c) /\ d \in State /\ Core(d, pump, runs, c)
      /\ runs \in [owner : [Keys -> 0 .. Epochs],
                   state : [Keys -> {"none", "queued", "dispatched"} \cup Outcome]]
  BY DEF IInv, Good, Core, Types
<1>2. runs' = [runs EXCEPT !.state = state]
  BY DEF CloseEpoch
<1>3. /\ state \in [Keys -> {"none", "queued", "dispatched"} \cup Outcome]
      /\ \A k \in Keys : state[k] # runs.state[k] =>
           \/ runs.state[k] = "queued"
           \/ runs.state[k] = "dispatched" /\ state[k] = "unknown"
  BY <1>1 DEF Outcome
<1> HIDE DEF state
<1>4. \A k \in Keys : /\ runs.state[k] = "queued" => ~ Away(d, c, k)
                      /\ Kind(k) = "handoff" => runs.state[k] = "none"
  <2>1. \A k \in Keys : Kind(k) \in {"message", "handoff"}
    BY <1>1, Kinds DEF Core
  <2> QED
    BY <1>1, <2>1 DEF Core, Sending, Quiet
<1>5. Ledger(d, runs, c, runs')
  BY <1>1, <1>2, <1>3, <1>4 DEF Ledger
<1>6. Good(d, pump, runs', c)
  BY <1>1, <1>5, LedgerKeeps DEF Good
<1> QED
  BY <1>6, Carried DEF CloseEpoch

-------------------------------------------------------------------------------
(* The theorems *)

LEMMA InitIsGood ==
  ASSUME Init
  PROVE  IInv
<1> DEFINE none == [k \in Keys |-> "none"]
           zero == [k \in Keys |-> 0]
           log == [e \in 1 .. Epochs |-> <<>>]
<1>1. /\ NoFlight \in Flights /\ NoRecord \in Records /\ NoHost \in Hosts /\ NoSlot \in Slots
      /\ NoFlight.k = "none" /\ NoFlight.phase = "none" /\ NoRecord.k = "none"
      /\ NoHost.by = "none" /\ ~ NoHost.entered /\ NoSlot.epoch = 0 /\ NoSlot.k = "none"
  BY NoneFlies, NoneIsOn, DispatchAssumption DEF NoSlot, Slots
<1>2. /\ none \in Sayings /\ zero \in [Keys -> Nat] /\ zero \in [Keys -> 0 .. MaxCalls]
      /\ zero \in [Keys -> 0 .. Epochs] /\ none \in [Keys -> {"none", "queued", "dispatched"} \cup Outcome]
      /\ log \in Logs
  BY DispatchAssumption DEF Sayings, Logs
<1>3. /\ d.shut = FALSE /\ d.queue = <<>> /\ d.flight = NoFlight /\ d.slot = NoSlot
      /\ d.record = NoRecord /\ d.host = NoHost /\ d.inbox = {} /\ d.told = {} /\ d.revoked = {}
      /\ d.arrived = {} /\ d.ended = {} /\ d.writes = log /\ d.heard = zero /\ d.said = none
  BY DEF Init
<1>4. /\ runs.owner = zero /\ runs.state = none /\ history.calls = zero
      /\ runs \in [owner : [Keys -> 0 .. Epochs],
                   state : [Keys -> {"none", "queued", "dispatched"} \cup Outcome]]
      /\ history \in [calls : [Keys -> 0 .. MaxCalls], given : SUBSET Keys, latest : Keys \cup {"none"}, swept : SUBSET Keys]
  BY <1>2 DEF Init
<1>5. /\ pump \in [1 .. Epochs -> [k : Keys \cup {"none"}, dead : BOOLEAN, revoked : BOOLEAN]]
      /\ \A e \in 1 .. Epochs : pump[e] = NoPump
  BY DEF Init, NoPump
<1>6. epoch = 1 /\ epoch \in 1 .. Epochs /\ disposed = {} /\ paused = {} /\ fenced = FALSE /\ setup \in Setups
  BY DispatchAssumption DEF Init
<1>7. d \in State
  <2> DEFINE v == [shut |-> FALSE, queue |-> <<>>, flight |-> NoFlight, slot |-> NoSlot, record |-> NoRecord,
                   host |-> NoHost, inbox |-> {}, told |-> {}, revoked |-> {}, arrived |-> {}, ended |-> {},
                   writes |-> log, heard |-> zero, said |-> none]
  <2>1. d = v
    BY DEF Init
  <2>2. <<>> \in Seq(Keys)
    OBVIOUS
  <2> HIDE DEF none, zero, log
  <2>3. v \in State
    BY <1>1, <1>2, <2>2 DEF State, Flights, Records, Hosts, Slots, Sayings, Logs, LogEntry
  <2> QED
    BY <2>1, <2>3
<1>8. /\ \A k \in Keys : none[k] = "none" /\ zero[k] = 0
      /\ \A e \in 1 .. Epochs : log[e] = <<>>
  OBVIOUS
<1> HIDE DEF none, zero, log
<1>9. \A k \in Keys : /\ ~ Contains(d.queue, k) /\ d.flight.k # k
                      /\ ~ Away(d, history.calls, k) /\ ~ AtPump(pump, k)
  BY <1>1, <1>3, <1>4, <1>5, <1>8, NonePumps, Names DEF Contains, Away, AtPump
<1>10. Core(d, pump, runs, history.calls)
  <2>1. Types(pump, runs, history.calls)
    BY <1>2, <1>4, <1>5, <1>6 DEF Types
  <2>2. OneOfTask(d.queue)
    BY <1>3 DEF OneOfTask
  <2>3. Logged(d, pump, runs, history.calls)
    BY <1>3, <1>5, <1>8, NonePumps, Names DEF Logged
  <2> QED
    BY <1>3, <1>4, <1>7, <1>8, <1>9, <2>1, <2>2, <2>3
       DEF Core, Waiting, Pumped, Sending, Hearing, Telling, Quiet, Flown
<1>11. Hosted(d) /\ Open(d) /\ Recorded(d)
  BY <1>1, <1>3, Names DEF Hosted, Open, Recorded
<1>12. Slotted(d, pump)
  BY <1>1, <1>3, <1>5, <1>6, NonePumps DEF Slotted
<1> QED
  BY <1>4, <1>5, <1>6, <1>7, <1>10, <1>11, <1>12 DEF IInv, TypeOK, Good

LEMMA Follows ==
  ASSUME Good(d, pump, runs, history.calls)', disposed' \subseteq 1 .. epoch',
         paused' \subseteq {"message", "handoff"}, fenced' \in BOOLEAN,
         history' \in [calls : [Keys -> 0 .. MaxCalls], given : SUBSET Keys, latest : Keys \cup {"none"}, swept : SUBSET Keys]
  PROVE  IInv'
<1>1. Types(pump, runs, history.calls)' /\ (d \in State)'
  BY DEF Good, Core
<1>2. epoch' \in 1 .. Epochs /\ Epochs \in Nat
  BY <1>1, DispatchAssumption DEF Types
<1>3. disposed' \subseteq 1 .. Epochs
  BY <1>2
<1> QED
  BY <1>1, <1>3 DEF IInv, TypeOK, Types

LEMMA OthersFollow ==
  ASSUME IInv, Others, Good(d', pump, runs, history.calls)
  PROVE  IInv'
<1>1. Good(d, pump, runs, history.calls)'
  BY Carried DEF Others, Handles
<1> QED
  BY <1>1, Follows DEF Others, Handles, IInv, TypeOK

LEMMA StepIsGood ==
  ASSUME IInv, [Next]_vars
  PROVE  IInv'
<1> DEFINE History == [calls : [Keys -> 0 .. MaxCalls], given : SUBSET Keys, latest : Keys \cup {"none"}, swept : SUBSET Keys]
<1>1. /\ Good(d, pump, runs, history.calls) /\ epoch \in 1 .. Epochs /\ disposed \subseteq 1 .. epoch
      /\ paused \subseteq {"message", "handoff"} /\ fenced \in BOOLEAN /\ history \in History
      /\ d \in State /\ \A k \in Keys : Kind(k) \in {"message", "handoff"}
  <2>1. \A k \in Keys : Kind(k) \in {"message", "handoff"}
    BY Kinds DEF IInv, Good, Core
  <2> QED
    BY <2>1 DEF IInv, TypeOK
<1>2. ASSUME NEW k \in Keys, Claim(k)
      PROVE  IInv'
  <2>1. Good(d, pump, runs, history.calls)'
    BY <1>2, ClaimKeeps
  <2>2. history' \in History
    BY <1>1, <1>2 DEF Claim
  <2> QED
    BY <1>1, <1>2, <2>1, <2>2, Follows DEF Claim
<1>3. ASSUME NEW k \in Keys, ClaimSource(k)
      PROVE  IInv'
  <2>1. Good(d, pump, runs, history.calls)'
    BY <1>3, ClaimSourceKeeps
  <2> QED
    BY <1>1, <1>3, <2>1, Follows DEF ClaimSource
<1>4. ASSUME NEW k \in Keys, EnqueueHandoff(k)
      PROVE  IInv'
  <2>1. Good(d, pump, runs, history.calls)'
    BY <1>4, EnqueueHandoffKeeps
  <2> QED
    BY <1>1, <1>4, <2>1, Follows DEF EnqueueHandoff
<1>5. ASSUME NEW k \in Keys, OwnStart(k)
      PROVE  IInv'
  BY <1>5, OwnStartKeeps, OthersFollow DEF OwnStart
<1>6. ASSUME NEW k \in Keys, MessageMerged(k)
      PROVE  IInv'
  BY <1>6, MessageMergedKeeps, OthersFollow DEF MessageMerged
<1>7. ASSUME NEW kind \in {"message", "handoff"}, Pause(kind)
      PROVE  IInv'
  <2>1. Good(d, pump, runs, history.calls)'
    BY <1>7, PauseKeeps
  <2> QED
    BY <1>1, <1>7, <2>1, PauseSweeps, Follows DEF Pause
<1>8. ASSUME NEW kind \in {"message", "handoff"}, Resume(kind)
      PROVE  IInv'
  <2>1. Good(d, pump, runs, history.calls)'
    BY <1>1, <1>8, Carried DEF Resume
  <2> QED
    BY <1>1, <1>8, <2>1, Follows DEF Resume
<1>9. ASSUME PumpClaim
      PROVE  IInv'
  <2>1. Good(d, pump, runs, history.calls)'
    BY <1>9, PumpClaimKeeps
  <2> QED
    BY <1>1, <1>9, <2>1, Follows DEF PumpClaim
<1>10. ASSUME PumpDrop
       PROVE  IInv'
  <2>1. Good(d, pump, runs, history.calls)'
    BY <1>10, PumpDropKeeps
  <2> QED
    BY <1>1, <1>10, <2>1, Follows DEF PumpDrop
<1>11. ASSUME NEW e \in 1 .. Epochs, CasRefuses(e)
       PROVE  IInv'
  <2>1. Good(d, pump, runs, history.calls)'
    BY <1>11, CasRefusesKeeps
  <2> QED
    BY <1>1, <1>11, <2>1, Follows DEF CasRefuses, Cas
<1>12. ASSUME NEW e \in 1 .. Epochs, CasFails(e)
       PROVE  IInv'
  <2>1. Good(d, pump, runs, history.calls)'
    BY <1>12, CasFailsKeeps
  <2> QED
    BY <1>1, <1>12, <2>1, Follows DEF CasFails, Cas
<1>13. ASSUME NEW e \in 1 .. Epochs, CasAllows(e)
       PROVE  IInv'
  <2>1. Good(d, pump, runs, history.calls)'
    BY <1>13, CasAllowsKeeps
  <2>2. fenced' \in BOOLEAN /\ history' = history /\ UNCHANGED <<setup, epoch, disposed, paused>>
    BY <1>1, <1>13 DEF CasAllows, Cas
  <2> QED
    BY <1>1, <2>1, <2>2, Follows
<1>14. ASSUME NEW e \in 1 .. Epochs, Write(e)
       PROVE  IInv'
  <2>1. Good(d, pump, runs, history.calls)'
    BY <1>14, WriteKeeps
  <2>2. NextWrite(e).k \in Keys
    BY <1>1, <1>14, Popped DEF Write, NextWrite, LogEntry
  <2>3. history' \in History
    BY <1>1, <1>14, <2>2 DEF Write
  <2> QED
    BY <1>1, <1>14, <2>1, <2>3, Follows DEF Write
<1>15. ASSUME NEW e \in 1 .. Epochs, CloseEpoch(e)
       PROVE  IInv'
  <2>1. Good(d, pump, runs, history.calls)'
    BY <1>15, CloseEpochKeeps
  <2> QED
    BY <1>1, <1>15, <2>1, Follows DEF CloseEpoch
<1>16. CASE HumanStart
  BY <1>16, HumanStartKeeps, OthersFollow DEF HumanStart
<1>17. CASE MessageStart
  BY <1>17, MessageStartKeeps, OthersFollow DEF MessageStart
<1>18. CASE Context
  <2>1. Good(d', pump, runs, history'.calls)
    BY <1>18, ContextKeeps
  <2>2. Handles
    BY <1>18 DEF Context
  <2>3. Good(d, pump, runs, history.calls)'
    BY <2>1, <2>2, Carried DEF Handles
  <2>4. history' \in History
    <3>1. history' = history \/ \E k \in Keys : history' = [history EXCEPT !.calls[k] = history.calls[k] + 1]
      BY <1>18 DEF Context
    <3>2. history'.calls \in [Keys -> 0 .. MaxCalls]
      BY <2>1 DEF Good, Core, Types
    <3>3. \A k \in Keys : [history EXCEPT !.calls[k] = history.calls[k] + 1]
                            = [history EXCEPT !.calls = [history.calls EXCEPT ![k] = history.calls[k] + 1]]
      BY <1>1
    <3>4. history' = [history EXCEPT !.calls = history'.calls]
      BY <1>1, <3>1, <3>3
    <3> QED
      BY <1>1, <3>2, <3>4
  <2> QED
    BY <1>1, <2>2, <2>3, <2>4, Follows DEF Handles
<1>19. CASE MessageEnd
  BY <1>19, MessageEndKeeps, OthersFollow DEF MessageEnd
<1>20. CASE Settled
  BY <1>20, SettledKeeps, OthersFollow DEF Settled
<1>21. CASE EndsSilently
  BY <1>21, EndsSilentlyKeeps, OthersFollow DEF EndsSilently
<1>22. CASE Input
  BY <1>22, InputKeeps, OthersFollow DEF Input
<1>23. CASE SessionMoves
  <2>1. Good(d', pump, runs, history.calls)
    BY <1>23, SessionMovesKeeps
  <2>2. UNCHANGED <<setup, epoch, disposed, paused, runs, pump, history>> /\ fenced' \in BOOLEAN
    BY <1>23 DEF SessionMoves
  <2>3. Good(d, pump, runs, history.calls)'
    BY <2>1, <2>2, Carried
  <2> QED
    BY <1>1, <2>2, <2>3, Follows
<1>24. CASE StartIsDue
  BY <1>24, StartIsDueKeeps, OthersFollow DEF StartIsDue
<1>25. CASE RunIsDue
  BY <1>25, RunIsDueKeeps, OthersFollow DEF RunIsDue
<1>26. CASE Timer
  BY <1>26, TimerKeeps, OthersFollow DEF Timer
<1>27. CASE Grace
  BY <1>27, GraceKeeps, OthersFollow DEF Grace
<1>28. CASE ObserveStuck
  BY <1>28, ObserveStuckKeeps, OthersFollow DEF ObserveStuck
<1>29. CASE Dispose
  <2>1. Good(d, pump, runs, history.calls)'
    BY <1>1, <1>29, Carried DEF Dispose
  <2>2. disposed' \subseteq 1 .. epoch'
    BY <1>1, <1>29 DEF Dispose
  <2> QED
    BY <1>1, <1>29, <2>1, <2>2, Follows DEF Dispose
<1>30. CASE SessionShutdown
  BY <1>30, SessionShutdownKeeps, OthersFollow DEF SessionShutdown
<1>31. CASE Attach
  <2>1. Good(d, pump, runs, history.calls)'
    BY <1>31, AttachKeeps
  <2>2. disposed' \subseteq 1 .. epoch'
    BY <1>1, <1>31 DEF Attach
  <2> QED
    BY <1>1, <1>31, <2>1, <2>2, Follows DEF Attach
<1>32. CASE UNCHANGED vars
  <2>1. Good(d, pump, runs, history.calls)'
    BY <1>1, <1>32, Carried DEF vars
  <2> QED
    BY <1>1, <1>32, <2>1, Follows DEF vars
<1>33. CASE \E k \in Keys : Pause(Kind(k)) \/ Resume(Kind(k))
  BY <1>1, <1>7, <1>8, <1>33
<1> QED
  BY <1>2, <1>3, <1>4, <1>5, <1>6, <1>33, <1>9, <1>10, <1>11, <1>12, <1>13, <1>14, <1>15, <1>16,
     <1>17, <1>18, <1>19, <1>20, <1>21, <1>22, <1>23, <1>24, <1>25, <1>26, <1>27, <1>28, <1>29,
     <1>30, <1>31, <1>32
     DEF Next

LEMMA AlwaysGood == Spec => []IInv
BY InitIsGood, StepIsGood, PTL DEF Spec

\* Type correctness: the queue holds runs, the log entries of them, and whose the slot, the
\* record of the process and the run of pi are is always one of the values that
\* createProcessOccupancy, createProcessRunRegistry and the host can hold.
THEOREM TypeCorrect == Spec => []TypeOK
<1>1. IInv => TypeOK
  BY DEF IInv
<1> QED
  BY <1>1, AlwaysGood, PTL

\* The slot of the process is held exactly while the pump writes an intent or a message is in
\* flight (createProcessOccupancy, pumpOnce, closeFlight).
THEOREM SlotHeld == Spec => []SlotIsHeld
<1>1. IInv => SlotIsHeld
  BY DEF IInv, Good, Slotted, SlotIsHeld, Live
<1> QED
  BY <1>1, AlwaysGood, PTL

\* What is told as dropped never called the model, and the owner of a handoff hears of its end
\* exactly once (finalizeAtSettle, finishLedger, endHandoff, recordUnknown, settle, shutdown).
THEOREM EndsTold == Spec => []EndsAreTold
<1>1. IInv => EndsAreTold
  <2>1. ASSUME IInv
        PROVE  d.arrived \subseteq Keys
    BY <2>1, Fields DEF IInv, TypeOK
  <2> QED
    BY <2>1 DEF IInv, Good, Core, Telling, Hearing, EndsAreTold
<1> QED
  BY <1>1, AlwaysGood, PTL

\* A run that calls the model has not been told as over, unless a human has it, and calls it
\* first in the session that it was sent to.
LEMMA CallIsRightful ==
  ASSUME IInv, [Next]_vars, NEW k \in Keys, history'.calls[k] > history.calls[k]
  PROVE  /\ d.said[k] \in {"none", "continued"}
         /\ history.calls[k] = 0 /\ d.said[k] # "continued"
              => d.flight.k = k /\ ~ d.flight.moved /\ ~ fenced
<1> DEFINE c == history.calls
<1>1. history \in [calls : [Keys -> 0 .. MaxCalls], given : SUBSET Keys, latest : Keys \cup {"none"}, swept : SUBSET Keys]
      /\ c[k] \in Nat
  BY DispatchAssumption DEF IInv, TypeOK
<1>2. history'.calls # history.calls
  BY <1>1
<1>3. Context
  <2>1. \A kind \in {"message", "handoff"} : ~ Pause(kind)
    BY <1>2, PauseSweeps
  <2>2. \A j \in Keys : Kind(j) \in {"message", "handoff"}
    BY Kinds DEF IInv, Good, Core
  <2> QED
   BY <1>1, <1>2, <2>1, <2>2
     DEF Next, vars, Claim, ClaimSource, EnqueueHandoff, OwnStart, MessageMerged, Resume,
         PumpClaim, PumpDrop, CasRefuses, CasFails, CasAllows, Write, CloseEpoch, HumanStart, MessageStart,
         MessageEnd, Settled, EndsSilently, Input, SessionMoves, StartIsDue, RunIsDue, Timer, Grace,
         ObserveStuck, Dispose, SessionShutdown, Attach, Others
<1>4. PICK s \in State :
        /\ Good(s, pump, runs, c) /\ Enforces(d, s)
        /\ \/ history' = history
           \/ /\ ~ Fenced(s) /\ ~ Refused(s)
              /\ history' = IF d.host.by \in Keys
                            THEN [history EXCEPT !.calls[d.host.by] = c[d.host.by] + 1]
                            ELSE history
  BY <1>3, ContextCases
<1>5. /\ ~ Fenced(s) /\ ~ Refused(s) /\ d.host.by \in Keys
      /\ history' = [history EXCEPT !.calls[d.host.by] = c[d.host.by] + 1]
  BY <1>2, <1>4
<1>6. d.host.by = k
  BY <1>1, <1>5
<1>7. s.host.by = k
  BY <1>4, <1>6 DEF Enforces, Handled
<1>8. /\ s.record.k = k /\ (Handed(s) \/ Watched(s))
      /\ s.said[k] \in {"none", "continued"}
  BY <1>4, <1>5, <1>7, MayCall
<1>9. s.said[k] = d.said[k] \/ (d.said[k] = "none" /\ s.said[k] = "unknown")
  BY <1>4 DEF Enforces
<1>10. s.said[k] = d.said[k]
  BY <1>8, <1>9
<1>11. ASSUME c[k] = 0, d.said[k] # "continued"
       PROVE  d.flight.k = k /\ ~ d.flight.moved /\ ~ fenced
  <2>1. Watched(s) /\ s.record.k = k
    BY <1>4, <1>5, <1>7, <1>10, <1>11, MayCall DEF Handed
  <2>2. s.flight.k = k /\ Supervised(s.flight) /\ ~ s.flight.recorded
    BY <2>1 DEF Watched
  <2>3. s.flight = d.flight
    BY <1>4, <2>2 DEF Enforces, Supervised
  <2>4. s.flight # NoFlight /\ k # "none"
    BY <2>2, NoneFlies, Names
  <2>5. ~ s.flight.called
    BY <1>4, <1>11, <2>2, <2>4 DEF Good, Core, Flown
  <2>6. Uncalled(s.flight)
    BY <2>2, <2>4, <2>5 DEF Uncalled, Supervised
  <2>7. ~ Moved(s)
    BY <1>5, <2>2, <2>6 DEF Fenced
  <2> QED
    BY <2>2, <2>3, <2>7 DEF Moved
<1> QED
  BY <1>8, <1>10, <1>11

\* A run makes a model call only while nothing has been said of its end, unless a human took
\* it over, and its first one in the session that the message was sent to
\* (judgeScheduledContext, markOrphanRun, sessionMovedUnder).
THEOREM CallsRightful == Spec => CallsAreRightful
<1>1. IInv /\ [Next]_vars =>
        [\A k \in Keys :
           history'.calls[k] > history.calls[k] =>
             /\ d.said[k] \in {"none", "continued"}
             /\ history.calls[k] = 0 /\ d.said[k] # "continued"
                  => d.flight.k = k /\ ~ d.flight.moved /\ ~ fenced]_vars
  BY CallIsRightful
<1> QED
  BY <1>1, AlwaysGood, PTL DEF Spec, CallsAreRightful

-------------------------------------------------------------------------------
(* What is sent.  Only sendNow adds to the triggers that pi has, and the pump calls *)
(* it with an answer to an intent that was not revoked meanwhile.                     *)

\* On the way from s to t nothing is sent, and what is decided of the runs stays decided.
Shaped(s) == {"inbox", "said", "ended"} \subseteq DOMAIN s /\ DOMAIN s.said = Keys
Decides(s, t) == s.ended \subseteq t.ended /\ \A k \in Keys : s.said[k] # "none" => t.said[k] # "none"
Onward(s, t) == Shaped(s) => Shaped(t) /\ t.inbox \subseteq s.inbox /\ Decides(s, t)

LEMMA OnwardOn ==
  ASSUME NEW s, NEW t, NEW u, Onward(s, t), Onward(t, u)
  PROVE  Onward(s, u)
BY DEF Onward, Decides

\* The operators that touch the outcome, the slot and the flight only.
LEMMA OutcomeIsOnward ==
  ASSUME NEW s, NEW e, NEW k, NEW o, NEW H, NEW f
  PROVE  /\ Onward(s, Say(s, k, o))
         /\ Onward(s, Tell(s, k))
         /\ Onward(s, Post(s, e, k, o))
         /\ Onward(s, Conclude(s, e, k, o))
         /\ Onward(s, EndHandoffs(s, H))
         /\ Onward(s, RevokeEntry(s, e, k))
         /\ Onward(s, RecordOf(s, f, o))
<1>1. \A t : Onward(t, Say(t, k, o)) /\ Onward(t, Tell(t, k)) /\ Onward(t, Post(t, e, k, o))
  BY DEF Onward, Shaped, Decides, Say, Tell, Post
<1>2. Onward(s, EndHandoffs(s, H)) /\ Onward(s, EndHandoffs(s, {k}))
  BY DEF Onward, Shaped, Decides, EndHandoffs, TellDropped
<1>3. \A q, out : Onward(s, Conclude(s, e, q, out))
  BY DEF Onward, Shaped, Decides, Conclude, Say, Tell, Post
<1>4. Onward(s, RevokeEntry(s, e, k))
  BY <1>2, <1>3 DEF RevokeEntry
<1>5. Onward(s, RecordOf(s, f, o))
  BY DEF Onward, Shaped, Decides, RecordOf, Conclude, Say, Tell, Post
<1> QED
  BY <1>1, <1>2, <1>3, <1>4, <1>5

LEMMA FlightIsOnward ==
  ASSUME NEW s, NEW e, NEW k, NEW cause, NEW lost
  PROVE  /\ Onward(s, VoidFlight(s))
         /\ Onward(s, Release(s, e, k))
         /\ Onward(s, CloseFlight(s))
         /\ Onward(s, Abort(s, lost))
         /\ Onward(s, AbortRun(s, cause, lost))
         /\ Onward(s, StartTimeout(s, lost))
         /\ Onward(s, EnforceDeadlines(s, lost))
         /\ Onward(s, FinalizeAtSettle(s))
         /\ Onward(s, Left(s, e, k))
         /\ Onward(s, Written(s, e))
<1>1. \A t : Onward(t, VoidFlight(t)) /\ Onward(t, Abort(t, lost))
  BY DEF Onward, Shaped, Decides, VoidFlight, Abort
<1>2. \A t, c, q : Onward(t, Release(t, c, q))
  BY DEF Onward, Shaped, Decides, Release
<1>3. \A t : Onward(t, CloseFlight(t))
  BY DEF Onward, Shaped, Decides, VoidFlight, Release, CloseFlight
<1>4. \A t, c : Onward(t, AbortRun(t, c, lost))
  BY DEF Onward, Shaped, Decides, VoidFlight, AbortRun, Abort
<1>5. \A t, f, o : Onward(t, RecordOf(t, f, o))
  BY OutcomeIsOnward
<1>6. Onward(s, StartTimeout(s, lost))
  BY <1>3, <1>4, <1>5, OnwardOn DEF StartTimeout
<1>7. Onward(s, EnforceDeadlines(s, lost))
  <2>1. Onward(s, s)
    BY DEF Onward, Shaped, Decides
  <2> QED
    BY <1>4, <1>6, <2>1 DEF EnforceDeadlines
<1>8. Onward(s, FinalizeAtSettle(s))
  BY <1>3, <1>5, OnwardOn DEF FinalizeAtSettle
<1>9. Onward(s, Left(s, e, k)) /\ Onward(s, Written(s, e))
  BY DEF Onward, Shaped, Decides, Left, Release, Written
<1> QED
  BY <1>1, <1>2, <1>3, <1>4, <1>6, <1>7, <1>8, <1>9

LEMMA ShutdownIsOnward ==
  ASSUME NEW s, NEW lost
  PROVE  Onward(s, Shutdown(s, lost)) /\ Onward(s, Stopped(s, lost))
<1> DEFINE f == s.flight
           preparing == f.phase = "dispatched" /\ ~ f.foreign /\ ~ f.recorded
           a == IF Supervised(f) THEN VoidFlight(s) ELSE s
           b == IF f.phase # "none" THEN Release(a, epoch, f.k) ELSE a
           c == IF Supervised(f) \/ preparing THEN Abort(b, lost) ELSE b
           g == [c EXCEPT !.flight = NoFlight]
           e == IF f.phase # "none" /\ Kind(f.k) = "handoff" THEN RecordOf(g, f, "unknown") ELSE c
           H == {k \in Keys : Kind(k) = "handoff" /\ Contains(s.queue, k)}
           t == [EndHandoffs(e, H) EXCEPT !.shut = TRUE, !.flight = NoFlight, !.queue = <<>>]
<1>0. Onward(s, s)
  BY DEF Onward, Shaped, Decides
<1>1. Onward(s, a)
  BY <1>0, FlightIsOnward
<1>2. Onward(s, b)
  <2> HIDE DEF a
  <2> QED
    BY <1>1, FlightIsOnward, OnwardOn
<1>3. Onward(s, c)
  <2> HIDE DEF b, preparing
  <2> QED
    BY <1>2, FlightIsOnward, OnwardOn
<1>4. Onward(s, e)
  <2> HIDE DEF c
  <2>1. Onward(c, g)
    BY DEF Onward, Shaped, Decides
  <2> HIDE DEF g
  <2> QED
    BY <1>3, <2>1, OutcomeIsOnward, OnwardOn
<1>5. Onward(s, t)
  <2> HIDE DEF e, H
  <2> DEFINE v == EndHandoffs(e, H)
  <2>1. Onward(s, v)
    BY <1>4, OutcomeIsOnward, OnwardOn
  <2> HIDE DEF v
  <2> QED
    BY <2>1 DEF Onward, Shaped, Decides, v
<1>6. Shutdown(s, lost) = t
  BY DEF Shutdown
<1> QED
  BY <1>0, <1>5, <1>6, Zenon DEF Stopped

\* A step sends nothing, but for the one with which an intent is allowed.
LEMMA StepIsOnward ==
  ASSUME IInv, [Next]_vars, ~ \E e \in 1 .. Epochs : CasAllows(e)
  PROVE  Onward(d, d')
<1>0. \A s : Onward(s, s)
  BY DEF Onward, Shaped, Decides
<1>1. CASE UNCHANGED d
  BY <1>0, <1>1
<1>2. ASSUME NEW k \in Keys, Claim(k) \/ EnqueueHandoff(k) PROVE Onward(d, d')
  <2>1. \A s : Onward(s, EnqueueEntry(s, k))
    <3> TAKE s
    <3> DEFINE Old == {j \in Task(Kind(k)) : Contains(s.queue, j)}
               t == [s EXCEPT !.queue = Append(RemoveFirstMatch(@, LAMBDA j : j \in Old), k)]
    <3>1. Onward(s, t)
      BY DEF Onward, Shaped, Decides
    <3>2. EnqueueEntry(s, k) = IF Kind(k) = "handoff" THEN EndHandoffs(t, Old) ELSE t
      BY DEF EnqueueEntry
    <3> HIDE DEF t, Old
    <3> QED
      BY <3>1, <3>2, OutcomeIsOnward, OnwardOn
  <2>2. CASE Claim(k)
    <3> DEFINE s == [d EXCEPT !.revoked = @ \cup {k}]
    <3>1. d' = d \/ d' = EnqueueEntry(d, k) \/ d' = Conclude(s, epoch, k, "dropped")
      BY <2>2 DEF Claim
    <3>2. Onward(d, s)
      BY DEF Onward, Shaped, Decides
    <3> HIDE DEF s
    <3>3. Onward(d, Conclude(s, epoch, k, "dropped"))
      BY <3>2, OutcomeIsOnward, OnwardOn
    <3> QED
      BY <1>0, <2>1, <3>1, <3>3
  <2>3. CASE EnqueueHandoff(k)
    <3> DEFINE s == [d EXCEPT !.arrived = @ \cup {k}]
    <3>1. Onward(d, s)
      BY DEF Onward, Shaped, Decides
    <3> DEFINE t == Say(s, k, "dropped")
    <3>2. d' = Tell(t, k) \/ d' = EnqueueEntry(s, k)
      BY <2>3 DEF EnqueueHandoff
    <3> HIDE DEF s
    <3>3. Onward(d, t) /\ Onward(d, EnqueueEntry(s, k))
      BY <3>1, <2>1, OutcomeIsOnward, OnwardOn
    <3> HIDE DEF t
    <3>4. Onward(d, Tell(t, k))
      BY <3>3, OutcomeIsOnward, OnwardOn
    <3> QED
      BY <3>2, <3>3, <3>4
  <2> QED
    BY <1>2, <2>2, <2>3
<1>3. ASSUME NEW k \in Keys, OwnStart(k) PROVE Onward(d, d')
  <2>1. PICK lost \in BOOLEAN :
          LET t == [d EXCEPT !.inbox = @ \ {k}, !.host = [NoHost EXCEPT !.by = k]]
              s == Stopped(EnforceDeadlines(t, lost), lost)
              proven == s.flight.k = k /\ s.flight.phase = "dispatched"
          IN  d' = IF proven /\ Moved(s)
                   THEN Orphan(RecordOf(CloseFlight(s), s.flight, "unknown"), k, lost)
                   ELSE IF proven
                   THEN [s EXCEPT !.flight.phase = "authorized",
                                  !.record = [NoRecord EXCEPT !.k = k, !.epoch = epoch]]
                   ELSE Orphan(s, k, lost)
    BY <1>3 DEF OwnStart
  <2> DEFINE t == [d EXCEPT !.inbox = @ \ {k}, !.host = [NoHost EXCEPT !.by = k]]
             s == Stopped(EnforceDeadlines(t, lost), lost)
             u == RecordOf(CloseFlight(s), s.flight, "unknown")
             v == [s EXCEPT !.flight.phase = "authorized",
                            !.record = [NoRecord EXCEPT !.k = k, !.epoch = epoch]]
  <2>2. d' \in {Orphan(u, k, lost), v, Orphan(s, k, lost)}
    BY <2>1
  <2>3. Onward(d, t)
    BY DEF Onward, Shaped, Decides
  <2>4. Onward(d, s)
    <3> HIDE DEF t
    <3> QED
      BY <2>3, FlightIsOnward, ShutdownIsOnward, OnwardOn
  <2> HIDE DEF s
  <2>5. Onward(d, u) /\ Onward(s, v)
    <3> DEFINE x == CloseFlight(s)
    <3>1. Onward(d, x)
      BY <2>4, FlightIsOnward, OnwardOn
    <3> HIDE DEF x
    <3>2. Onward(d, RecordOf(x, s.flight, "unknown"))
      BY <3>1, OutcomeIsOnward, OnwardOn
    <3> QED
      BY <3>2 DEF Onward, Shaped, Decides, x
  <2> HIDE DEF u, v
  <2>6. \A x : Onward(x, Orphan(x, k, lost))
    BY DEF Onward, Shaped, Decides, Orphan, Abort
  <2> QED
    BY <2>2, <2>4, <2>5, <2>6, OnwardOn
<1>4. ASSUME NEW k \in Keys, MessageMerged(k) PROVE Onward(d, d')
  BY <1>4 DEF Onward, Shaped, Decides, MessageMerged
<1>5. ASSUME NEW k \in Keys, Pause(Kind(k)) PROVE Onward(d, d')
  <2>1. CASE UNCHANGED d
    BY <1>0, <2>1
  <2>2. CASE Revoke(Kind(k))
    <3>0. d \in State /\ epoch \in 1 .. Epochs /\ Kind(k) \in {"message", "handoff"}
      BY <1>5, Kinds DEF IInv, TypeOK, Good, Core
    <3>1. PICK T \in SUBSET {"message", "handoff"}, R \in SUBSET Keys : RevokesTo(Kind(k), T, R)
      BY <2>2, <3>0, RevokeCases
    <3> DEFINE s == [d EXCEPT !.told = T, !.revoked = R]
    <3>2. Onward(d, s)
      BY DEF Onward, Shaped, Decides
    <3>3. ASSUME NEW j, d' = RevokeEntry([s EXCEPT !.queue = RemoveFirst(s.queue, j)], epoch, j)
          PROVE  Onward(d, d')
      <4> DEFINE t == [s EXCEPT !.queue = RemoveFirst(s.queue, j)]
      <4> HIDE DEF s
      <4>1. Onward(s, t)
        BY DEF Onward, Shaped, Decides
      <4> HIDE DEF t
      <4>2. Onward(d, RevokeEntry(t, epoch, j))
        BY <3>2, <4>1, OutcomeIsOnward, OnwardOn
      <4> QED
        BY <3>3, <4>2 DEF t
    <3>4. d' = s \/ \E j : d' = RevokeEntry([s EXCEPT !.queue = RemoveFirst(s.queue, j)], epoch, j)
      BY <3>1 DEF RevokesTo
    <3> QED
      BY <3>2, <3>3, <3>4
  <2> QED
    BY <1>5, <2>1, <2>2 DEF Pause
<1>6. CASE PumpClaim \/ PumpDrop
  <2>1. CASE PumpClaim
    <3> DEFINE s == [d EXCEPT !.slot = [epoch |-> epoch, k |-> Head(d.queue)]]
    <3>1. d' = Post(s, epoch, Head(d.queue), "cas") /\ Onward(d, s)
      BY <2>1 DEF PumpClaim, Onward, Shaped, Decides
    <3> HIDE DEF s
    <3>2. Onward(s, Post(s, epoch, Head(d.queue), "cas"))
      BY OutcomeIsOnward
    <3> QED
      BY <3>1, <3>2, OnwardOn
  <2>2. CASE PumpDrop
    <3> DEFINE s == [d EXCEPT !.queue = Tail(@)]
    <3>1. /\ d' = EndHandoffs(s, {Head(d.queue)}) \/ d' = Post(s, epoch, Head(d.queue), "drop")
          /\ Onward(d, s)
      BY <2>2 DEF PumpDrop, Onward, Shaped, Decides
    <3> HIDE DEF s
    <3>2. /\ Onward(s, Post(s, epoch, Head(d.queue), "drop"))
          /\ Onward(s, EndHandoffs(s, {Head(d.queue)}))
      BY OutcomeIsOnward
    <3> QED
      BY <3>1, <3>2, OnwardOn
  <2> QED
    BY <1>6, <2>1, <2>2
<1>7. ASSUME NEW e \in 1 .. Epochs, CasRefuses(e) \/ CasFails(e) \/ Write(e) \/ CloseEpoch(e)
      PROVE  Onward(d, d')
  <2> DEFINE k == NextWrite(e).k
             w == Written(d, e)
  <2>1. Onward(d, w) /\ Onward(d, Left(w, e, k)) /\ Onward(d, Release(w, e, k))
    BY FlightIsOnward, OnwardOn, Zenon
  <2>2. \A s : Onward(d, s) => Onward(d, OrRevoked(e, k, s))
    <3>1. Onward(d, RevokeEntry(Left(w, e, k), e, k))
      BY <2>1, OutcomeIsOnward, OnwardOn, Zenon
    <3> QED
      BY <3>1 DEF OrRevoked
  <2>3. \A s : Onward(d, s) => Onward(d, Post(s, e, k, "doubt")) /\ Onward(d, EndHandoffs(s, {k}))
    BY OutcomeIsOnward, OnwardOn, Zenon
  <2>4. CASE CasRefuses(e)
    <3>1. d' = OrRevoked(e, k, IF Kind(k) = "handoff" THEN EndHandoffs(Left(w, e, k), {k}) ELSE Left(w, e, k))
      BY <2>4 DEF CasRefuses
    <3> HIDE DEF w, k
    <3> QED
      BY <2>1, <2>2, <2>3, <3>1
  <2>5. CASE CasFails(e)
    <3>1. \/ d' = OrRevoked(e, k, Release(w, e, k))
          \/ d' = OrRevoked(e, k, Post(Left(w, e, k), e, k, "doubt"))
      BY <2>5 DEF CasFails
    <3> HIDE DEF w, k
    <3> QED
      BY <2>1, <2>2, <2>3, <3>1
  <2>6. CASE Write(e) \/ CloseEpoch(e)
    <3>1. d' = w \/ d' = d
      BY <2>6 DEF Write, CloseEpoch
    <3> QED
      BY <1>0, <2>1, <3>1
  <2> QED
    BY <1>7, <2>4, <2>5, <2>6
<1>8. CASE Context
  <2>1. PICK lost \in BOOLEAN :
          LET s == EnforceDeadlines(d, lost) IN
          \/ d' = AbortRun(RecordOf(s, s.flight, "unknown"), "fenced", FALSE)
          \/ d' = Abort(s, FALSE)
          \/ \E x : d' = [s EXCEPT !.flight.called = x]
    BY <1>8 DEF Context
  <2> DEFINE s == EnforceDeadlines(d, lost)
  <2>2. Onward(d, s)
    BY FlightIsOnward
  <2> HIDE DEF s
  <2>3. \A x : Onward(s, [s EXCEPT !.flight.called = x])
    BY DEF Onward, Shaped, Decides
  <2>4. \/ d' = AbortRun(RecordOf(s, s.flight, "unknown"), "fenced", FALSE)
        \/ d' = Abort(s, FALSE)
        \/ \E x : d' = [s EXCEPT !.flight.called = x]
    BY <2>1 DEF s
  <2> QED
    BY <2>2, <2>3, <2>4, FlightIsOnward, OutcomeIsOnward, OnwardOn
<1>9. CASE HumanStart \/ MessageStart \/ MessageEnd \/ EndsSilently \/ SessionMoves \/ StartIsDue \/ RunIsDue
  BY <1>9 DEF Onward, Shaped, Decides, HumanStart, MessageStart, MessageEnd, EndsSilently, SessionMoves, StartIsDue, RunIsDue
<1>10. CASE Settled
  <2> DEFINE s == [d EXCEPT !.host = NoHost, !.record = NoRecord]
  <2>1. (d' = FinalizeAtSettle(s) \/ d' = s) /\ Onward(d, s)
    BY <1>10 DEF Settled, Onward, Shaped, Decides
  <2> HIDE DEF s
  <2> QED
    BY <2>1, FlightIsOnward, OnwardOn
<1>11. CASE Input
  <2> DEFINE s == [d EXCEPT !.flight.handed = TRUE, !.record.handed = IF Mine(d) THEN TRUE ELSE @]
  <2>1. d' = RecordOf(s, s.flight, "continued") /\ Onward(d, s)
    BY <1>11 DEF Input, Onward, Shaped, Decides
  <2> HIDE DEF s
  <2> QED
    BY <2>1, OutcomeIsOnward, OnwardOn
<1>12. CASE Timer
  <2>1. PICK lost \in BOOLEAN : d' = EnforceDeadlines(Stopped(d, lost), lost)
    BY <1>12 DEF Timer
  <2> QED
    BY <2>1, FlightIsOnward, ShutdownIsOnward, OnwardOn
<1>13. CASE Grace
  <2> DEFINE s == RecordOf(d, d.flight, "unknown")
  <2>1. d' = [s EXCEPT !.flight.stuck = TRUE] /\ Onward(d, s)
    BY <1>13, OutcomeIsOnward DEF Grace
  <2> HIDE DEF s
  <2> QED
    BY <2>1 DEF Onward, Shaped, Decides
<1>14. CASE ObserveStuck
  <2> DEFINE s == [d EXCEPT !.record = NoRecord]
  <2>1. d' = CloseFlight(s) /\ Onward(d, s)
    BY <1>14 DEF ObserveStuck, Onward, Shaped, Decides
  <2> HIDE DEF s
  <2> QED
    BY <2>1, FlightIsOnward, OnwardOn
<1>15. CASE SessionShutdown \/ Attach
  <2>1. PICK lost \in BOOLEAN :
          \/ d' = Shutdown(d, lost)
          \/ d' = [(IF d.shut THEN d ELSE Shutdown(d, lost)) EXCEPT !.shut = FALSE, !.told = {}]
    BY <1>15 DEF SessionShutdown, Attach
  <2> DEFINE s == IF d.shut THEN d ELSE Shutdown(d, lost)
             t == [s EXCEPT !.shut = FALSE, !.told = {}]
  <2>2. Onward(d, s) /\ Onward(d, Shutdown(d, lost))
    BY <1>0, ShutdownIsOnward
  <2>3. d' = Shutdown(d, lost) \/ d' = t
    BY <2>1
  <2> HIDE DEF s
  <2>4. Onward(s, t)
    BY DEF Onward, Shaped, Decides
  <2> HIDE DEF t
  <2> QED
    BY <2>2, <2>3, <2>4, OnwardOn
<1>16. CASE Dispose \/ \E k \in Keys : ClaimSource(k) \/ Resume(Kind(k))
  <2>1. \A R : Onward(d, [d EXCEPT !.revoked = R])
    BY DEF Onward, Shaped, Decides
  <2>2. d' = d \/ \E R : d' = [d EXCEPT !.revoked = R]
    BY <1>16 DEF Dispose, ClaimSource, Resume
  <2> QED
    BY <1>0, <2>1, <2>2
<1> QED
  BY <1>1, <1>2, <1>3, <1>4, <1>5, <1>6, <1>7, <1>8, <1>9, <1>10, <1>11, <1>12, <1>13,
     <1>14, <1>15, <1>16 DEF Next, vars

\* An intent is allowed for a run that nobody has revoked, and that is all it sends.
LEMMA AllowedIsSent ==
  ASSUME NEW e \in 1 .. Epochs, CasAllows(e), Shaped(d)
  PROVE  /\ Shaped(d') /\ Decides(d, d')
         /\ \A k \in d'.inbox \ d.inbox :
              /\ k = NextWrite(e).k /\ k \notin d.revoked
              /\ e = epoch /\ ~ d.shut /\ ~ pump[e].dead /\ ~ pump[e].revoked
<1> DEFINE k == NextWrite(e).k
           w == Written(d, e)
<1>0. k \notin d.revoked
  BY DEF CasAllows, Changed, RevokedSince
<1>1. \A s : Onward(s, Reverted(s, e, k))
  BY OutcomeIsOnward DEF Reverted, Onward, Decides
<1>2. Onward(d, w) /\ Shaped(w) /\ w.inbox \subseteq d.inbox /\ Decides(d, w)
  BY FlightIsOnward DEF Onward
<1>3. CASE \E lost \in BOOLEAN :
             LET s == Written(IF e = epoch THEN Stopped(d, lost) ELSE d, e) IN
             d' = OrRevoked(e, k, Reverted(Left(s, e, k), e, k))
  <2>1. PICK lost \in BOOLEAN :
             LET s == Written(IF e = epoch THEN Stopped(d, lost) ELSE d, e) IN
             d' = OrRevoked(e, k, Reverted(Left(s, e, k), e, k))
    BY <1>3
  <2> DEFINE a == IF e = epoch THEN Stopped(d, lost) ELSE d
             s == Written(a, e)
             t == Reverted(Left(s, e, k), e, k)
             u == RevokeEntry(Left(w, e, k), e, k)
  <2>2. d' \in {t, u}
    BY <2>1 DEF OrRevoked
  <2>3. Onward(d, a)
    BY ShutdownIsOnward DEF Onward, Decides
  <2> HIDE DEF a
  <2>4. Onward(d, t)
    BY <1>1, <2>3, FlightIsOnward, OnwardOn
  <2>5. Onward(d, u)
    BY <1>2, FlightIsOnward, OutcomeIsOnward, OnwardOn
  <2> HIDE DEF t, u
  <2> QED
    BY <2>2, <2>4, <2>5 DEF Onward
<1>4. CASE d' = Reverted(Release(w, e, k), e, k)
  <2>1. Onward(d, d')
    BY <1>1, <1>2, <1>4, FlightIsOnward, OnwardOn
  <2> QED
    BY <2>1 DEF Onward
<1>5. CASE /\ ~ pump[e].revoked /\ ~ (pump[e].dead \/ e # epoch \/ e \in disposed \/ d.shut)
           /\ d' = Sent(w, k) \/ d' = SentAway(w, k)
  <2> DEFINE t == Sent(w, k)
  <2>1. Shaped(t) /\ t.inbox \subseteq d.inbox \cup {k} /\ Decides(d, t)
    BY <1>2 DEF Sent, Shaped, Decides
  <2> HIDE DEF t, w
  <2>2. d' = t \/ d' = RecordOf(CloseFlight(t), t.flight, "unknown")
    BY <1>5 DEF SentAway, t
  <2>3. Onward(t, d')
    <3> DEFINE x == CloseFlight(t)
    <3>1. Onward(t, t) /\ Onward(t, x)
      BY FlightIsOnward DEF Onward, Decides
    <3> HIDE DEF x
    <3>2. Onward(t, RecordOf(x, t.flight, "unknown"))
      BY <3>1, OutcomeIsOnward, OnwardOn
    <3> QED
      BY <2>2, <3>1, <3>2 DEF x
  <2>4. Shaped(d') /\ d'.inbox \subseteq d.inbox \cup {k} /\ Decides(d, d')
    BY <2>1, <2>3 DEF Onward, Decides
  <2> QED
    BY <1>0, <1>5, <2>4
<1> QED
  BY <1>3, <1>4, <1>5 DEF CasAllows

LEMMA NextIsEntry ==
  ASSUME d \in State, NEW e \in 1 .. Epochs, d.writes[e] # <<>>
  PROVE  1 \in DOMAIN d.writes[e] /\ NextWrite(e) = d.writes[e][1] /\ NextWrite(e) \in LogEntry
<1>1. d.writes[e] \in Seq(LogEntry)
  BY Fields DEF Logs
<1> QED
  BY <1>1 DEF NextWrite

\* What a revocation is done with is decided.
LEMMA RevokedIsDecided ==
  ASSUME NEW s, NEW e, NEW k \in Keys, Shaped(s)
  PROVE  LET t == RevokeEntry(s, e, k) IN t.said[k] # "none" \/ k \in t.ended
<1>1. CASE Kind(k) = "handoff"
  BY <1>1 DEF RevokeEntry, EndHandoffs, TellDropped, Shaped
<1>2. CASE Kind(k) # "handoff"
  BY <1>2 DEF RevokeEntry, Conclude, Say, Post, Shaped
<1> QED
  BY <1>1, <1>2

\* A run that waited when its task was paused is over, or the pump has it for revoked.
Decided(s, k) == s.said[k] # "none" \/ k \in s.ended
RevokedAtPump(k) == \E e \in 1 .. Epochs : pump[e].k = k /\ pump[e].revoked
SweptInv == \A k \in history.swept : Decided(d, k) \/ RevokedAtPump(k)

\* What the pump has for revoked stays so until the answer is there, and then it is over.
LEMMA StaysRevoked ==
  ASSUME IInv, [Next]_vars, NEW k \in Keys, NEW e \in 1 .. Epochs, pump[e].k = k, pump[e].revoked,
         \A kind \in {"message", "handoff"} : ~ Revoke(kind)
  PROVE  (pump'[e].k = k /\ pump'[e].revoked) \/ Decided(d', k)
<1>1. /\ epoch \in 1 .. Epochs /\ Shaped(d) /\ Core(d, pump, runs, history.calls)
      /\ pump \in [1 .. Epochs -> [k : Keys \cup {"none"}, dead : BOOLEAN, revoked : BOOLEAN]]
  BY DEF IInv, TypeOK, State, Shaped, Good
<1>2. CASE pump' = pump
  BY <1>2
<1>3. ASSUME NEW kind, pump' = Replaced(kind)
      PROVE  pump'[e].k = k /\ pump'[e].revoked
  BY <1>1, <1>3 DEF Replaced
<1>4. CASE PumpClaim
  <2>1. pump[epoch] = NoPump /\ pump' = [pump EXCEPT ![epoch] = [NoPump EXCEPT !.k = Head(d.queue)]]
    BY <1>4 DEF PumpClaim, PumpFree
  <2>2. e # epoch
    BY <2>1, NonePumps, Names
  <2> QED
    BY <1>1, <2>1, <2>2
<1>5. ASSUME NEW f \in 1 .. Epochs, CasRefuses(f) \/ CasFails(f) \/ CasAllows(f)
      PROVE  (pump'[e].k = k /\ pump'[e].revoked) \/ Decided(d', k)
  <2>1. Cas(f)
    BY <1>5 DEF CasRefuses, CasFails, CasAllows
  <2>2. CASE f # e
    BY <1>1, <2>1, <2>2 DEF Cas
  <2>3. CASE f = e
    <3>1. NextWrite(e).k = k
      BY <1>1, <2>1, <2>3, NextIsEntry DEF Cas, Core, Logged, Entry
    <3> DEFINE s == Left(Written(d, e), e, k)
    <3>2. d' = RevokeEntry(s, e, k)
      BY <1>5, <2>3, <3>1 DEF CasRefuses, CasFails, CasAllows, OrRevoked
    <3>3. Shaped(s)
      BY <1>1, FlightIsOnward, OnwardOn DEF Onward
    <3> HIDE DEF s
    <3> QED
      BY <3>2, <3>3, RevokedIsDecided DEF Decided
  <2> QED
    BY <2>2, <2>3
<1>6. \/ pump' = pump \/ PumpClaim
      \/ \E kind : pump' = Replaced(kind)
      \/ \E f \in 1 .. Epochs : CasRefuses(f) \/ CasFails(f) \/ CasAllows(f)
  <2>1. \A j \in Keys : Kind(j) \in {"message", "handoff"}
    BY Kinds DEF IInv, Good, Core
  <2> QED
    BY <2>1 DEF Next, vars, Claim, ClaimSource, EnqueueHandoff, OwnStart, MessageMerged, Pause, Resume,
       PumpDrop, Write, CloseEpoch, HumanStart, MessageStart, Context, Handles,
       MessageEnd, Settled, EndsSilently, Input, SessionMoves, StartIsDue, RunIsDue, Timer, Grace,
       ObserveStuck, Dispose, SessionShutdown, Attach, Others
<1> QED
  BY <1>2, <1>3, <1>4, <1>5, <1>6

\* The pause takes what waits out of the queue, or leaves it to the pump.
LEMMA PauseDecides ==
  ASSUME IInv, NEW kind \in {"message", "handoff"}, Revoke(kind), SweptInv, Decides(d, d'), Shaped(d)
  PROVE  SweptInv'
<1> DEFINE waits == {k \in Task(kind) : runs.owner[k] = epoch /\ Contains(d.queue, k)}
<1>1. /\ epoch \in 1 .. Epochs /\ d \in State /\ Core(d, pump, runs, history.calls) /\ history.swept \subseteq Keys
      /\ pump \in [1 .. Epochs -> [k : Keys \cup {"none"}, dead : BOOLEAN, revoked : BOOLEAN]]
  BY DEF IInv, TypeOK, Good
<1>2. /\ history'.swept = history.swept \cup waits
      /\ pump' = pump \/ pump' = [pump EXCEPT ![epoch].dead = TRUE, ![epoch].revoked = TRUE]
  BY <1>1, RevokeCases DEF IInv, TypeOK
<1>3. ASSUME NEW k \in history.swept
      PROVE  Decided(d', k) \/ RevokedAtPump(k)'
  <2>1. ASSUME NEW e \in 1 .. Epochs, pump[e].k = k, pump[e].revoked
        PROVE  pump'[e].k = k /\ pump'[e].revoked
    <3>1. CASE pump' = pump
      BY <2>1, <3>1
    <3>2. CASE pump' = [pump EXCEPT ![epoch].dead = TRUE, ![epoch].revoked = TRUE]
      <4>1. pump[e] \in [k : Keys \cup {"none"}, dead : BOOLEAN, revoked : BOOLEAN]
        BY <1>1
      <4>2. e # epoch => pump'[e] = pump[e]
        BY <1>1, <3>2
      <4>3. pump'[epoch].revoked /\ pump'[epoch].k = pump[epoch].k
        <5>1. pump[epoch] \in [k : Keys \cup {"none"}, dead : BOOLEAN, revoked : BOOLEAN]
          BY <1>1
        <5> QED
          BY <1>1, <3>2, <5>1
      <4> QED
        BY <2>1, <4>2, <4>3
    <3> QED
      BY <1>2, <3>1, <3>2
  <2>2. RevokedAtPump(k) => RevokedAtPump(k)'
    BY <2>1 DEF RevokedAtPump
  <2> QED
    BY <1>1, <2>2 DEF SweptInv, Decided, Decides
<1>4. ASSUME NEW k \in waits, k = pump[epoch].k
      PROVE  RevokedAtPump(k)'
  <2>1. k \in Keys /\ runs.owner[k] = epoch /\ Contains(d.queue, k) /\ k \in Task(kind)
    BY DEF Task
  <2>2. pump[epoch].dead => pump[epoch].revoked
    BY <1>1, <1>4, <2>1 DEF Core, Pumped, AtPump
  <2>3. pump' = IF pump[epoch].dead THEN pump ELSE [pump EXCEPT ![epoch].dead = TRUE, ![epoch].revoked = TRUE]
    BY <1>4, <2>1 DEF Revoke
  <2>4. pump'[epoch].k = k /\ pump'[epoch].revoked
    BY <1>1, <1>4, <2>2, <2>3
  <2> QED
    BY <1>1, <2>4 DEF RevokedAtPump
<1>5. ASSUME NEW k \in waits, k # pump[epoch].k
      PROVE  Decided(d', k)
  <2>1. k \in Keys /\ Kind(k) = kind /\ Contains(d.queue, k) /\ k \in RevokedOut(kind)
    BY <1>5 DEF RevokedOut, Task
  <2>2. PICK T \in SUBSET {"message", "handoff"}, R \in SUBSET Keys : RevokesTo(kind, T, R)
    BY <1>1, RevokeCases
  <2> DEFINE a == [d EXCEPT !.told = T, !.revoked = R]
  <2>3. PICK j \in RevokedOut(kind) : d' = RevokeEntry([a EXCEPT !.queue = RemoveFirst(a.queue, j)], epoch, j)
    BY <2>1, <2>2 DEF RevokesTo
  <2>4. j = k
    BY <1>1, <2>1 DEF RevokedOut, Task, Core, OneOfTask, Contains
  <2> DEFINE s == [a EXCEPT !.queue = RemoveFirst(a.queue, j)]
  <2>5. Shaped(s)
    BY DEF Shaped
  <2> HIDE DEF s
  <2> QED
    BY <2>1, <2>3, <2>4, <2>5, RevokedIsDecided DEF Decided, s
<1> QED
  BY <1>2, <1>3, <1>4, <1>5 DEF SweptInv, Decided

LEMMA StepDecides ==
  ASSUME IInv, [Next]_vars
  PROVE  Shaped(d) /\ Decides(d, d')
<1>1. Shaped(d)
  BY DEF IInv, TypeOK, State, Shaped
<1>2. CASE \E e \in 1 .. Epochs : CasAllows(e)
  BY <1>1, <1>2, AllowedIsSent
<1>3. CASE ~ \E e \in 1 .. Epochs : CasAllows(e)
  BY <1>1, <1>3, StepIsOnward DEF Onward
<1> QED
  BY <1>1, <1>2, <1>3

LEMMA StepSweeps ==
  ASSUME IInv, [Next]_vars, SweptInv
  PROVE  SweptInv'
<1>1. Shaped(d) /\ Decides(d, d')
  BY StepDecides
<1>2. CASE \E kind \in {"message", "handoff"} : Revoke(kind)
  BY <1>1, <1>2, PauseDecides
<1>3. CASE \A kind \in {"message", "handoff"} : ~ Revoke(kind)
  <2>1. history.swept \subseteq Keys /\ history \in [calls : [Keys -> 0 .. MaxCalls], given : SUBSET Keys,
                                                     latest : Keys \cup {"none"}, swept : SUBSET Keys]
    BY DEF IInv, TypeOK
  <2>2. history'.swept = history.swept
    <3>1. \A j \in Keys : Kind(j) \in {"message", "handoff"}
      BY Kinds DEF IInv, Good, Core
    <3> QED
      BY <1>3, <2>1, <3>1
         DEF Next, vars, Claim, ClaimSource, EnqueueHandoff, OwnStart, MessageMerged, Pause, Resume,
         PumpClaim, PumpDrop, CasRefuses, CasFails, CasAllows, Write, CloseEpoch, HumanStart, MessageStart,
         Context, MessageEnd, Settled, EndsSilently, Input, SessionMoves, StartIsDue, RunIsDue, Timer, Grace,
         ObserveStuck, Dispose, SessionShutdown, Attach, Others
  <2> SUFFICES ASSUME NEW k \in history.swept
               PROVE  Decided(d', k) \/ RevokedAtPump(k)'
    BY <2>2 DEF SweptInv, Decided
  <2>3. CASE Decided(d, k)
    BY <1>1, <2>1, <2>3 DEF Decided, Decides
  <2>4. CASE RevokedAtPump(k)
    BY <1>3, <2>1, <2>4, StaysRevoked DEF RevokedAtPump
  <2> QED
    BY <2>3, <2>4 DEF SweptInv
<1> QED
  BY <1>2, <1>3

LEMMA SweptAlways == Spec => []SweptInv
<1>1. Init => SweptInv
  BY DEF Init, SweptInv
<1>2. IInv /\ SweptInv /\ [Next]_vars => SweptInv'
  BY StepSweeps
<1> QED
  BY <1>1, <1>2, AlwaysGood, PTL DEF Spec

\* What waits in the queue, or with the pump, when its task is paused is not sent after it, nor
\* is a run that its claim places before a pause (revokedSince, revokeTask, casDispatched).
THEOREM RevokedNeverSent == Spec => RevokedIsNotSent
<1>1. IInv /\ SweptInv /\ [Next]_vars =>
        [\A k \in d'.inbox \ d.inbox : k \notin history.swept /\ k \notin d.revoked]_vars
  <2> SUFFICES ASSUME IInv, SweptInv, [Next]_vars, NEW k \in d'.inbox \ d.inbox
               PROVE  k \notin history.swept /\ k \notin d.revoked
    OBVIOUS
  <2>1. Shaped(d) /\ Core(d, pump, runs, history.calls) /\ epoch \in 1 .. Epochs
    BY StepDecides DEF IInv, Good, TypeOK
  <2>2. ASSUME NEW e \in 1 .. Epochs, CasAllows(e)
        PROVE  k \notin history.swept /\ k \notin d.revoked
    <3>1. /\ k = NextWrite(e).k /\ k \notin d.revoked
          /\ e = epoch /\ ~ d.shut /\ ~ pump[e].dead /\ ~ pump[e].revoked
      BY <2>1, <2>2, AllowedIsSent
    <3>2. k = pump[e].k /\ k \in Keys
      BY <2>1, <2>2, <3>1, NextIsEntry DEF CasAllows, Cas, Core, Logged, Entry, LogEntry
    <3>3. ~ Decided(d, k) /\ runs.owner[k] = e
      BY <2>1, <3>1, <3>2 DEF Core, Pumped, Waiting, AtPump, Logged, Decided
    <3>4. ~ RevokedAtPump(k)
      BY <2>1, <3>1, <3>2, <3>3 DEF RevokedAtPump, Core, Logged
    <3> QED
      BY <3>1, <3>3, <3>4 DEF SweptInv
  <2>3. CASE ~ \E e \in 1 .. Epochs : CasAllows(e)
    BY <2>1, <2>3, StepIsOnward DEF Onward
  <2> QED
    BY <2>2, <2>3
<1> QED
  BY <1>1, AlwaysGood, SweptAlways, PTL DEF Spec, RevokedIsNotSent

-------------------------------------------------------------------------------
(* The newest message.  Nobody waits for it only when its end is in the ledger, or *)
(* is posted to it.                                                                 *)

Log(s) == s.writes[epoch]

\* The message k is sent, and nothing is said of its end.
InAir(s, k) == s.flight.k = k /\ ~ s.flight.recorded

\* A posted write takes back the intent to send k; another will end k, whatever its state is;
\* and another drops it, which only an intent that is not taken back before would hinder.
TakesBack(s, k, i) == Log(s)[i].k = k /\ Log(s)[i].op = "queued"
Over(s, k) == \E i \in DOMAIN Log(s) : Log(s)[i].k = k /\ Log(s)[i].op \in Outcome \cup {"doubt"}
Dropping(s, r, k) ==
  \E i \in DOMAIN Log(s) :
    /\ Log(s)[i].k = k /\ Log(s)[i].op = "drop"
    /\ r.state[k] # "dispatched" \/ \E j \in DOMAIN Log(s) : j < i /\ TakesBack(s, k, j)

\* What the pump has in its hands is in the queue still, and dead only if it was revoked.
Kept(s, p, r, k) ==
  /\ r.state[k] # "none"
  /\ Contains(s.queue, k) \/ InAir(s, k) \/ r.state[k] \in Outcome \/ Over(s, k) \/ Dropping(s, r, k)
  /\ Contains(s.queue, k) /\ r.state[k] = "dispatched" => \E j \in DOMAIN Log(s) : TakesBack(s, k, j)
  /\ p[epoch].k = k => Contains(s.queue, k) /\ (p[epoch].dead => p[epoch].revoked)

Newest ==
  LET k == history.latest IN
  k # "none" =>
    /\ Kind(k) = "message" /\ runs.owner[k] \in 1 .. epoch
    /\ Live /\ k \notin history.given /\ runs.owner[k] = epoch => Kept(d, pump, runs, k)

\* The log of t continues the one of s.
Grows(s, t) == \A i \in DOMAIN Log(s) : i \in DOMAIN Log(t) /\ Log(t)[i] = Log(s)[i]

\* A handler that does not lose k on the way from s to t.
Passes(s, t, k) ==
  /\ t \in State
  /\ s.shut => t.shut
  /\ ~ t.shut => /\ Contains(t.queue, k) <=> Contains(s.queue, k)
                 /\ Grows(s, t)
                 /\ InAir(s, k) => InAir(t, k) \/ Over(t, k)

LEMMA GrowsOn ==
  /\ \A s : Grows(s, s)
  /\ \A s, t, u : Grows(s, t) /\ Grows(t, u) => Grows(s, u)
  /\ \A s, t, k : Grows(s, t) /\ Over(s, k) => Over(t, k)
  /\ \A s, t, r, k : Grows(s, t) /\ Dropping(s, r, k) => Dropping(t, r, k)
  /\ \A s, t, k : Grows(s, t) /\ (\E j \in DOMAIN Log(s) : TakesBack(s, k, j)) => \E j \in DOMAIN Log(t) : TakesBack(t, k, j)
<1>1. \A s : Grows(s, s)
  BY DEF Grows
<1>2. \A s, t, u : Grows(s, t) /\ Grows(t, u) => Grows(s, u)
  BY DEF Grows
<1>3. \A s, t, k : Grows(s, t) /\ Over(s, k) => Over(t, k)
  BY DEF Grows, Over
<1>4. ASSUME NEW s, NEW t, NEW r, NEW k, Grows(s, t), Dropping(s, r, k)
      PROVE  Dropping(t, r, k)
  BY <1>4 DEF Grows, Dropping, TakesBack
<1>5. \A s, t, k : Grows(s, t) /\ (\E j \in DOMAIN Log(s) : TakesBack(s, k, j)) => \E j \in DOMAIN Log(t) : TakesBack(t, k, j)
  BY DEF Grows, TakesBack
<1> QED
  BY <1>1, <1>2, <1>3, <1>4, <1>5

LEMMA PassesOn ==
  ASSUME NEW s, NEW t, NEW u, NEW k, Passes(s, t, k), Passes(t, u, k)
  PROVE  Passes(s, u, k)
<1>1. CASE u.shut
  BY <1>1 DEF Passes
<1>2. CASE ~ u.shut
  <2>1. ~ t.shut /\ Grows(s, t) /\ Grows(t, u)
    BY <1>2 DEF Passes
  <2>2. Grows(s, u) /\ (Over(t, k) => Over(u, k))
    BY <2>1, GrowsOn
  <2> QED
    BY <1>2, <2>1, <2>2 DEF Passes
<1> QED
  BY <1>1, <1>2

\* What matters of k is the same.
LEMMA SamePasses ==
  ASSUME NEW s, NEW t \in State, NEW k, t.shut = s.shut, t.queue = s.queue, Log(t) = Log(s),
         t.flight.k = s.flight.k, t.flight.recorded = s.flight.recorded
  PROVE  Passes(s, t, k)
BY DEF Passes, Grows, InAir

\* The state of k stays, or is a last one.
LEMMA KeptOn ==
  ASSUME NEW s, NEW t, NEW p, NEW p2, NEW r, NEW r2, NEW k, Kept(s, p, r, k),
         Passes(s, t, k), ~ t.shut,
         r2.state[k] = r.state[k] \/ r2.state[k] \in Outcome,
         p2[epoch].k = k => Contains(t.queue, k) /\ (p2[epoch].dead => p2[epoch].revoked)
  PROVE  Kept(t, p2, r2, k)
<1>1. /\ Contains(t.queue, k) <=> Contains(s.queue, k)
      /\ Grows(s, t) /\ (InAir(s, k) => InAir(t, k) \/ Over(t, k))
  BY DEF Passes
<1>2. CASE r2.state[k] \in Outcome
  BY <1>2 DEF Kept, Outcome
<1>3. CASE r2.state[k] = r.state[k]
  <2>1. Over(s, k) => Over(t, k)
    BY <1>1, GrowsOn
  <2>2. Dropping(s, r, k) => Dropping(t, r2, k)
    <3>1. Dropping(s, r, k) => Dropping(t, r, k)
      BY <1>1, GrowsOn
    <3> QED
      BY <1>3, <3>1 DEF Dropping
  <2>3. (\E j \in DOMAIN Log(s) : TakesBack(s, k, j)) => \E j \in DOMAIN Log(t) : TakesBack(t, k, j)
    BY <1>1, GrowsOn
  <2> QED
    BY <1>1, <1>3, <2>1, <2>2, <2>3 DEF Kept
<1> QED
  BY <1>2, <1>3

\* k is in the queue no more, but its end is posted.
LEMMA KeptOver ==
  ASSUME NEW t, NEW p2, NEW r2, NEW k, ~ Contains(t.queue, k), p2[epoch].k # k,
         r2.state[k] # "none", Over(t, k) \/ r2.state[k] \in Outcome
  PROVE  Kept(t, p2, r2, k)
BY DEF Kept

-------------------------------------------------------------------------------
(* The handlers *)

\* A write is posted.
LEMMA PostedGrows ==
  ASSUME NEW s \in State, NEW t \in State, NEW e \in 1 .. Epochs, NEW k \in Keys, NEW op \in Ops,
         epoch \in 1 .. Epochs,
         t.writes = [s.writes EXCEPT ![e] = Append(s.writes[e], [k |-> k, op |-> op])]
  PROVE  /\ Grows(s, t)
         /\ e = epoch => /\ Len(Log(s)) + 1 \in DOMAIN Log(t)
                         /\ Log(t)[Len(Log(s)) + 1] = [k |-> k, op |-> op]
                         /\ DOMAIN Log(s) = 1 .. Len(Log(s)) /\ Len(Log(s)) \in Nat
         /\ e # epoch => Log(t) = Log(s)
<1>1. s.writes \in [1 .. Epochs -> Seq(LogEntry)] /\ s.writes[epoch] \in Seq(LogEntry)
  BY Fields, Writes DEF Logs
<1> DEFINE w == [k |-> k, op |-> op]
           a == s.writes[epoch]
<1>2. w \in LogEntry
  BY DEF LogEntry
<1>3. CASE e # epoch
  <2>1. Log(t) = Log(s)
    BY <1>1, <1>3 DEF Log
  <2> QED
    BY <1>3, <2>1 DEF Grows
<1>4. CASE e = epoch
  <2>1. Log(t) = Append(a, w) /\ Log(s) = a
    BY <1>1, <1>4 DEF Log
  <2> HIDE DEF w, a
  <2>2. a \in Seq(LogEntry)
    BY <1>1 DEF a
  <2>3. /\ DOMAIN a = 1 .. Len(a) /\ Len(a) \in Nat
        /\ DOMAIN Append(a, w) = 1 .. Len(a) + 1 /\ Append(a, w)[Len(a) + 1] = w
        /\ \A i \in 1 .. Len(a) : Append(a, w)[i] = a[i]
    BY <1>2, <2>2
  <2>4. Grows(s, t)
    BY <2>1, <2>3 DEF Grows
  <2>5. Len(a) + 1 \in DOMAIN Append(a, w)
    BY <2>3
  <2> QED
    BY <1>4, <2>1, <2>3, <2>4, <2>5 DEF w
<1> QED
  BY <1>3, <1>4

LEMMA InFlights == \A f \in Flight : f.k \in Keys /\ f.recorded \in BOOLEAN
BY DEF Flight

\* recordUnknown, recordDropped: of the flight f of s, or of a flight that is closed already.
LEMMA RecordPasses ==
  ASSUME NEW s \in State, NEW f \in Flight, NEW o \in Outcome, epoch \in 1 .. Epochs
  PROVE  LET t == RecordOf(s, f, o) IN
         /\ t \in State /\ t.shut = s.shut /\ t.queue = s.queue /\ t.record = s.record /\ t.host = s.host
         /\ t.inbox = s.inbox /\ Grows(s, t)
         /\ t.flight = s.flight \/ (s.flight.k = f.k /\ t.flight = [s.flight EXCEPT !.recorded = TRUE])
         /\ ~ f.recorded /\ Kind(f.k) = "message" => Over(t, f.k)
<1> DEFINE u == Conclude(s, epoch, f.k, o)
           v == [u EXCEPT !.flight = [s.flight EXCEPT !.recorded = TRUE]]
           t == RecordOf(s, f, o)
<1>0. f.k \in Keys /\ f.recorded \in BOOLEAN
  BY DEF Flight
<1>1. CASE f.recorded
  BY <1>1, GrowsOn DEF RecordOf
<1>2. CASE ~ f.recorded
  <2>1. Concludes(s, epoch, f.k, o, u)
    BY <1>0, Concluded, SMTT(30)
  <2> HIDE DEF u
  <2>2. /\ u \in State /\ u.shut = s.shut /\ u.queue = s.queue /\ u.record = s.record /\ u.host = s.host
        /\ u.inbox = s.inbox /\ u.flight = s.flight
    BY <2>1 DEF Concludes, State
  <2>3. t = IF u.flight.k = f.k THEN v ELSE u
    BY <1>2, <2>2 DEF RecordOf, u
  <2>4. Grows(s, u) /\ (Kind(f.k) = "message" => Over(u, f.k))
    <3>1. CASE Kind(f.k) = "handoff"
      BY <2>1, <3>1 DEF Concludes, Grows, Log
    <3>2. CASE Kind(f.k) # "handoff"
      <4>1. u.writes = [s.writes EXCEPT ![epoch] = Append(s.writes[epoch], [k |-> f.k, op |-> o])]
        BY <2>1, <3>2 DEF Concludes
      <4>2. o \in Ops
        BY DEF Ops
      <4>3. /\ Grows(s, u) /\ Len(Log(s)) + 1 \in DOMAIN Log(u)
            /\ Log(u)[Len(Log(s)) + 1] = [k |-> f.k, op |-> o]
        BY <1>0, <2>2, <4>1, <4>2, PostedGrows
      <4> QED
        BY <4>3 DEF Over
    <3> QED
      BY <3>1, <3>2
  <2>5. CASE s.flight.k # f.k
    BY <2>2, <2>3, <2>4, <2>5
  <2>6. CASE s.flight.k = f.k
    <3>1. s.flight \in Flight
      BY <1>0, <2>6, Fields, NoneFlies, Names
    <3>2. [s.flight EXCEPT !.recorded = TRUE] \in Flight
      BY <3>1 DEF Flight
    <3>3. v \in State
      BY <2>2, <3>2, PutInFlight, Put
    <3>4. /\ v.shut = u.shut /\ v.queue = u.queue /\ v.record = u.record /\ v.host = u.host /\ v.inbox = u.inbox
          /\ v.writes = u.writes /\ v.flight = [s.flight EXCEPT !.recorded = TRUE]
      BY <2>2 DEF State
    <3>5. v.flight.k = s.flight.k /\ v.flight.recorded
      BY <3>1, <3>4 DEF Flight
    <3>6. t = v
      BY <2>2, <2>3, <2>6
    <3> HIDE DEF v, t
    <3>7. Grows(s, v) /\ (Kind(f.k) = "message" => Over(v, f.k))
      BY <2>4, <3>4 DEF Grows, Over, Log
    <3> QED
      BY <2>2, <2>6, <3>3, <3>4, <3>5, <3>6, <3>7 DEF t
  <2> QED
    BY <2>5, <2>6
<1> QED
  BY <1>1, <1>2

\* recordUnknown of the flight, which stays open.
LEMMA MarkPasses ==
  ASSUME NEW s \in State, NEW k \in Keys, Kind(k) = "message", NEW o \in Outcome, s.flight \in Flight,
         epoch \in 1 .. Epochs
  PROVE  LET t == RecordOf(s, s.flight, o) IN
         /\ Passes(s, t, k) /\ t.flight \in Flight /\ t.flight.recorded
<1> DEFINE t == RecordOf(s, s.flight, o)
<1>1. /\ t \in State /\ t.shut = s.shut /\ t.queue = s.queue /\ Grows(s, t)
      /\ t.flight.k = s.flight.k /\ t.flight.recorded
      /\ ~ s.flight.recorded /\ Kind(s.flight.k) = "message" => Over(t, s.flight.k)
  <2> PICK f \in Flight : f = s.flight
    OBVIOUS
  <2>0. f.k \in Keys
    BY InFlights
  <2> DEFINE u == RecordOf(s, f, o)
  <2>1. /\ u \in State /\ u.shut = s.shut /\ u.queue = s.queue
        /\ Grows(s, u)
        /\ ~ f.recorded /\ Kind(f.k) = "message" => Over(u, f.k)
    BY RecordPasses
  <2>2. u.flight = [f EXCEPT !.recorded = TRUE]
    <3>1. CASE f.recorded
      BY <3>1 DEF RecordOf, Flight
    <3>2. CASE ~ f.recorded
      <4> DEFINE v == Conclude(s, epoch, f.k, o)
      <4>1. Concludes(s, epoch, f.k, o, v)
        BY <2>0, Concluded, SMTT(30)
      <4> HIDE DEF v
      <4>2. v \in State /\ v.flight = f
        BY <4>1 DEF Concludes, State
      <4>3. u = [v EXCEPT !.flight.recorded = TRUE]
        BY <3>2, <4>2 DEF RecordOf, v
      <4> QED
        BY <4>2, <4>3 DEF State
    <3> QED
      BY <3>1, <3>2
  <2>3. u.flight.k = f.k /\ u.flight.recorded
    BY <2>2 DEF Flight
  <2> QED
    BY <2>1, <2>3
<1> HIDE DEF t
<1>2. Passes(s, t, k)
  BY <1>1 DEF Passes, InAir
<1>3. t.flight \in Flight
  <2>1. s.flight.k \in Keys
    BY DEF Flight
  <2> QED
    BY <1>1, <2>1, Fields, NoneFlies, Names
<1> QED
  BY <1>1, <1>2, <1>3 DEF t

LEMMA ClosePasses ==
  ASSUME NEW s \in State, NEW k \in Keys, s.flight \in Flight, s.flight.recorded, epoch \in 1 .. Epochs
  PROVE  Passes(s, CloseFlight(s), k)
<1>1. Closes(s, CloseFlight(s))
  BY Closed
<1> QED
  BY <1>1, GrowsOn DEF Closes, SameFates, Passes, InAir, Grows, Log

LEMMA EndPasses ==
  ASSUME NEW s \in State, NEW k \in Keys, Kind(k) = "message", NEW o \in Outcome, s.flight \in Flight,
         epoch \in 1 .. Epochs
  PROVE  Passes(s, RecordOf(CloseFlight(s), s.flight, o), k)
<1> DEFINE z == CloseFlight(s)
           t == RecordOf(z, s.flight, o)
<1>1. Closes(s, z)
  BY Closed
<1>2. z \in State /\ z.shut = s.shut /\ z.queue = s.queue /\ z.writes = s.writes
  BY <1>1 DEF Closes, SameFates
<1> HIDE DEF z
<1>3. /\ t \in State /\ t.shut = z.shut /\ t.queue = z.queue /\ Grows(z, t)
      /\ ~ s.flight.recorded /\ Kind(s.flight.k) = "message" => Over(t, s.flight.k)
  BY <1>2, RecordPasses
<1> HIDE DEF t
<1>4. Passes(s, t, k)
  BY <1>2, <1>3 DEF Passes, InAir, Grows, Log
<1> QED
  BY <1>4 DEF z, t

LEMMA CutPasses ==
  ASSUME NEW s \in State, NEW k \in Keys, s.flight \in Flight, NEW lost \in BOOLEAN,
         NEW cause \in {"none", "start", "max", "fenced"}
  PROVE  LET t == AbortRun(s, cause, lost) IN Passes(s, t, k) /\ t.flight \in Flight
<1> DEFINE t == AbortRun(s, cause, lost)
<1>1. Cuts(s, cause, t)
  BY Cut
<1> HIDE DEF t
<1>2. t.flight.k = s.flight.k /\ t.flight.recorded = s.flight.recorded
  BY <1>1 DEF Cuts, Flight
<1> QED
  BY <1>1, <1>2, SamePasses DEF Cuts, SameFates, Log, t

LEMMA AbortPasses ==
  ASSUME NEW s \in State, NEW k, NEW lost \in BOOLEAN
  PROVE  Passes(s, Abort(s, lost), k)
<1> DEFINE t == Abort(s, lost)
<1>1. Aborts(s, t)
  BY Aborted
<1> HIDE DEF t
<1>2. t \in State /\ t.shut = s.shut /\ t.queue = s.queue /\ t.flight = s.flight /\ t.writes = s.writes
  BY <1>1 DEF Aborts, State
<1> QED
  BY <1>2, SamePasses DEF Log, t

LEMMA EnforcePasses ==
  ASSUME NEW s \in State, NEW k \in Keys, Kind(k) = "message", NEW lost \in BOOLEAN, epoch \in 1 .. Epochs
  PROVE  Passes(s, EnforceDeadlines(s, lost), k)
<1> DEFINE t == EnforceDeadlines(s, lost)
           f == s.flight
<1>0. f.phase \in {"dispatched", "authorized", "bound"} => f \in Flight
  BY Fields, NoneFlies DEF Flights
<1>1. CASE f.phase = "dispatched" /\ f.startDue
  <2> DEFINE u == RecordOf(s, f, "unknown")
  <2>1. t = IF f.foreign THEN CloseFlight(u) ELSE AbortRun(u, "start", lost)
    BY <1>1 DEF EnforceDeadlines, StartTimeout, Supervised
  <2>2. Passes(s, u, k) /\ u \in State /\ u.flight \in Flight /\ u.flight.recorded
    <3>1. "unknown" \in Outcome
      BY DEF Outcome
    <3> QED
      BY <1>0, <1>1, <3>1, MarkPasses DEF Passes
  <2> HIDE DEF u, t
  <2>3. Passes(u, CloseFlight(u), k) /\ Passes(u, AbortRun(u, "start", lost), k)
    BY <2>2, ClosePasses, CutPasses
  <2>4. Passes(s, CloseFlight(u), k) /\ Passes(s, AbortRun(u, "start", lost), k)
    BY <2>2, <2>3, PassesOn
  <2> QED
    BY <2>1, <2>4 DEF t
<1>2. CASE t = AbortRun(s, "start", lost) \/ t = AbortRun(s, "max", lost)
  <2>1. CASE Supervised(f)
    BY <1>0, <1>2, <2>1, CutPasses DEF Supervised
  <2>2. CASE ~ Supervised(f) /\ ~ (f.phase = "dispatched" /\ f.startDue)
    <3>1. t = s
      BY <2>2 DEF EnforceDeadlines
    <3> QED
      BY <3>1, SamePasses
  <2> QED
    BY <1>1, <2>1, <2>2
<1>3. CASE t = s
  BY <1>3, SamePasses
<1>4. \/ f.phase = "dispatched" /\ f.startDue
      \/ t = AbortRun(s, "start", lost) \/ t = AbortRun(s, "max", lost) \/ t = s
  BY DEF EnforceDeadlines
<1> QED
  BY <1>1, <1>2, <1>3, <1>4

\* What a shutdown leaves is of no interest any more.
LEMMA ShutPasses ==
  ASSUME NEW s \in State, NEW lost \in BOOLEAN, epoch \in 1 .. Epochs, NEW k
  PROVE  Passes(s, Shutdown(s, lost), k) /\ Passes(s, Stopped(s, lost), k)
         /\ Shutdown(s, lost).shut
<1> DEFINE f == s.flight
           preparing == f.phase = "dispatched" /\ ~ f.foreign /\ ~ f.recorded
           a == IF Supervised(f) THEN VoidFlight(s) ELSE s
           b == IF f.phase # "none" THEN Release(a, epoch, f.k) ELSE a
           z == IF Supervised(f) \/ preparing THEN Abort(b, lost) ELSE b
           g == [z EXCEPT !.flight = NoFlight]
           e == IF f.phase # "none" /\ Kind(f.k) = "handoff" THEN RecordOf(g, f, "unknown") ELSE z
           H == {j \in Keys : Kind(j) = "handoff" /\ Contains(s.queue, j)}
           t == GivesUp(e, H)
<1>0. s.flight = NoFlight \/ s.flight \in Flight
  BY Fields DEF Flights
<1>1. z \in State
  BY <1>0, Halted DEF Halts
<1> HIDE DEF z
<1>2. e \in State
  <2>1. g \in State
    BY <1>1, NoneFlies, Put
  <2> HIDE DEF g
  <2>2. f.phase # "none" => f \in Flight
    BY <1>0, NoneFlies
  <2>3. "unknown" \in Outcome
    BY DEF Outcome
  <2>4. f.phase # "none" => RecordOf(g, f, "unknown") \in State
    BY <2>1, <2>2, <2>3, RecordPasses
  <2> QED
    BY <1>1, <2>4
<1> HIDE DEF e
<1>3. t \in State /\ t.shut
  <2> DEFINE v == EndHandoffs(e, H)
             v1 == [v EXCEPT !.shut = TRUE]
             v2 == [v1 EXCEPT !.flight = NoFlight]
             v3 == [v2 EXCEPT !.queue = <<>>]
  <2>1. H \in SUBSET Keys
    OBVIOUS
  <2> HIDE DEF H
  <2>2. v \in State
    BY <1>2, <2>1, Ended DEF Ends
  <2>3. t = [v EXCEPT !.shut = TRUE, !.flight = NoFlight, !.queue = <<>>]
    BY DEF GivesUp
  <2> HIDE DEF v, t
  <2>4. v1 \in State /\ v1.shut = TRUE
    <3>1. v1 \in State
      BY <2>2, Put, Zenon
    <3> QED
      BY <2>2, <3>1 DEF State
  <2>5. v2 \in State /\ v2.shut = TRUE
    <3> HIDE DEF v1
    <3>1. v2 \in State
      BY <2>4, NoneFlies, Put, Zenon
    <3> QED
      BY <2>4, <3>1 DEF State
  <2>6. v3 \in State /\ v3.shut = TRUE
    <3>1. <<>> \in Seq(Keys)
      OBVIOUS
    <3> HIDE DEF v2
    <3>2. v3 \in State
      BY <2>5, <3>1, Put, Zenon
    <3> QED
      BY <2>5, <3>2 DEF State
  <2>7. t = v3
    BY <2>2, <2>3 DEF State
  <2> QED
    BY <2>6, <2>7
<1>4. Shutdown(s, lost) = t
  BY DEF Shutdown, GivesUp, z, e
<1>5. Passes(s, Shutdown(s, lost), k)
  BY <1>3, <1>4 DEF Passes
<1>6. Passes(s, s, k)
  BY SamePasses
<1> QED
  BY <1>3, <1>4, <1>5, <1>6, Zenon DEF Stopped

\* Setting a field of the flight that is neither.
LEMMA SetInFlight ==
  ASSUME NEW f \in Flights, NEW x
  PROVE  /\ [f EXCEPT !.phase = x].k = f.k /\ [f EXCEPT !.phase = x].recorded = f.recorded
         /\ [f EXCEPT !.foreign = x].k = f.k /\ [f EXCEPT !.foreign = x].recorded = f.recorded
         /\ [f EXCEPT !.stuck = x].k = f.k /\ [f EXCEPT !.stuck = x].recorded = f.recorded
         /\ [f EXCEPT !.called = x].k = f.k /\ [f EXCEPT !.called = x].recorded = f.recorded
         /\ [f EXCEPT !.handed = x].k = f.k /\ [f EXCEPT !.handed = x].recorded = f.recorded
         /\ [f EXCEPT !.saw = x].k = f.k /\ [f EXCEPT !.saw = x].recorded = f.recorded
         /\ [f EXCEPT !.moved = x].k = f.k /\ [f EXCEPT !.moved = x].recorded = f.recorded
         /\ [f EXCEPT !.startDue = x].k = f.k /\ [f EXCEPT !.startDue = x].recorded = f.recorded
         /\ [f EXCEPT !.maxDue = x].k = f.k /\ [f EXCEPT !.maxDue = x].recorded = f.recorded
<1>1. f \in Flight \/ f = NoFlight
  BY DEF Flights
<1>2. CASE f \in Flight
  BY <1>2 DEF Flight
<1>3. CASE f = NoFlight
  BY <1>3 DEF NoFlight
<1> QED
  BY <1>1, <1>2, <1>3

LEMMA SmallStepPasses ==
  ASSUME IInv, d' \in State, NEW k \in Keys,
         \/ \E j \in Keys : MessageMerged(j)
         \/ HumanStart \/ MessageStart \/ MessageEnd \/ EndsSilently \/ SessionMoves \/ StartIsDue \/ RunIsDue
  PROVE  Passes(d, d', k)
<1>1. d \in State /\ d.flight \in Flights
  BY Fields DEF IInv, TypeOK
<1> SUFFICES /\ d'.shut = d.shut /\ d'.queue = d.queue /\ d'.writes = d.writes
             /\ d'.flight.k = d.flight.k /\ d'.flight.recorded = d.flight.recorded
  BY SamePasses DEF Log
<1>2. ASSUME NEW j \in Keys, MessageMerged(j)
      PROVE  /\ d'.shut = d.shut /\ d'.queue = d.queue /\ d'.writes = d.writes
             /\ d'.flight.k = d.flight.k /\ d'.flight.recorded = d.flight.recorded
  <2> DEFINE ours == d.flight.k = j /\ d.flight.phase = "dispatched"
             phase == IF ours THEN "bound" ELSE d.flight.phase
             merged == d.flight.merged \/ ours
             g == [[d.flight EXCEPT !.phase = phase] EXCEPT !.merged = merged]
             inbox == d.inbox \ {j}
  <2>1. d' = [d EXCEPT !.inbox = inbox, !.flight = g]
    <3>1. d' = [d EXCEPT !.inbox = inbox, !.flight.phase = phase, !.flight.merged = merged]
      BY <1>2, Zenon DEF MessageMerged
    <3> HIDE DEF phase, merged, inbox
    <3> QED
      BY <1>1, <3>1 DEF State
  <2> HIDE DEF inbox, g
  <2>4. /\ d'.shut = d.shut /\ d'.queue = d.queue /\ d'.writes = d.writes /\ d'.flight = g
    BY <1>1, <2>1 DEF State
  <2>2. \A x, y : [[d.flight EXCEPT !.phase = x] EXCEPT !.merged = y].k = [d.flight EXCEPT !.phase = x].k
    OBVIOUS
  <2>3. \A x, y : [[d.flight EXCEPT !.phase = x] EXCEPT !.merged = y].recorded = [d.flight EXCEPT !.phase = x].recorded
    OBVIOUS
  <2> QED
    BY <1>1, <2>2, <2>3, <2>4, SetInFlight DEF g
<1>3. CASE HumanStart
  <2>1. /\ d'.shut = d.shut /\ d'.queue = d.queue /\ d'.writes = d.writes
        /\ \E x : d'.flight = [d.flight EXCEPT !.foreign = x]
    <3> DEFINE x == d.flight.foreign \/ d.flight.phase = "dispatched"
    <3>1. d' = [d EXCEPT !.host = [NoHost EXCEPT !.by = "human"], !.record = NoRecord,
                         !.flight = [d.flight EXCEPT !.foreign = x]]
      BY <1>3 DEF HumanStart
    <3> HIDE DEF x
    <3> QED
      BY <1>1, <3>1 DEF State
  <2> QED
    BY <1>1, <2>1, SetInFlight
<1>4. CASE MessageStart
  <2>1. /\ d'.shut = d.shut /\ d'.queue = d.queue /\ d'.writes = d.writes
        /\ \E x : d'.flight = [d.flight EXCEPT !.phase = x]
    <3> DEFINE x == IF d.flight.k = d.host.by /\ d.flight.phase = "authorized" THEN "bound" ELSE d.flight.phase
    <3>1. d' = [d EXCEPT !.host = [d.host EXCEPT !.entered = TRUE], !.flight = [d.flight EXCEPT !.phase = x]]
      BY <1>4 DEF MessageStart
    <3> HIDE DEF x
    <3> QED
      BY <1>1, <3>1 DEF State
  <2> QED
    BY <1>1, <2>1, SetInFlight
<1>5. CASE MessageEnd
  <2>1. /\ d'.shut = d.shut /\ d'.queue = d.queue /\ d'.writes = d.writes
        /\ d'.flight = [d.flight EXCEPT !.saw = TRUE]
    BY <1>1, <1>5 DEF MessageEnd, State
  <2> QED
    BY <1>1, <2>1, SetInFlight
<1>6. CASE EndsSilently
  BY <1>1, <1>6 DEF EndsSilently, State
<1>7. CASE SessionMoves
  <2>1. CASE d' = d
    BY <2>1
  <2>2. CASE d' # d
    <3>1. /\ d'.shut = d.shut /\ d'.queue = d.queue /\ d'.writes = d.writes
          /\ d'.flight = [d.flight EXCEPT !.moved = TRUE]
      <4>1. d' = [d EXCEPT !.flight = [d.flight EXCEPT !.moved = TRUE]]
        BY <1>7, <2>2 DEF SessionMoves
      <4> QED
        BY <1>1, <4>1 DEF State
    <3> QED
      BY <1>1, <3>1, SetInFlight
  <2> QED
    BY <2>1, <2>2
<1>8. CASE StartIsDue
  <2>1. /\ d'.shut = d.shut /\ d'.queue = d.queue /\ d'.writes = d.writes
        /\ d'.flight = [d.flight EXCEPT !.startDue = TRUE]
    BY <1>1, <1>8 DEF StartIsDue, State
  <2> QED
    BY <1>1, <2>1, SetInFlight
<1>9. CASE RunIsDue
  <2>1. /\ d'.shut = d.shut /\ d'.queue = d.queue /\ d'.writes = d.writes
        /\ d'.flight = [d.flight EXCEPT !.maxDue = TRUE]
    BY <1>1, <1>9 DEF RunIsDue, State
  <2> QED
    BY <1>1, <2>1, SetInFlight
<1> QED
  BY <1>2, <1>3, <1>4, <1>5, <1>6, <1>7, <1>8, <1>9

LEMMA OwnStartPasses ==
  ASSUME IInv, d' \in State, NEW k \in Keys, Kind(k) = "message", NEW j \in Keys, OwnStart(j)
  PROVE  Passes(d, d', k)
<1>1. d \in State /\ epoch \in 1 .. Epochs
  BY DEF IInv, TypeOK
<1>2. PICK lost \in BOOLEAN :
        LET t == [d EXCEPT !.inbox = @ \ {j}, !.host = [NoHost EXCEPT !.by = j]]
            s == Stopped(EnforceDeadlines(t, lost), lost)
            proven == s.flight.k = j /\ s.flight.phase = "dispatched"
        IN  d' = IF proven /\ Moved(s)
                 THEN Orphan(RecordOf(CloseFlight(s), s.flight, "unknown"), j, lost)
                 ELSE IF proven
                 THEN [s EXCEPT !.flight.phase = "authorized",
                                !.record = [NoRecord EXCEPT !.k = j, !.epoch = epoch]]
                 ELSE Orphan(s, j, lost)
  BY DEF OwnStart
<1> DEFINE t == [d EXCEPT !.inbox = @ \ {j}, !.host = [NoHost EXCEPT !.by = j]]
           s == Stopped(EnforceDeadlines(t, lost), lost)
           u == RecordOf(CloseFlight(s), s.flight, "unknown")
           v == [s EXCEPT !.flight.phase = "authorized",
                          !.record = [NoRecord EXCEPT !.k = j, !.epoch = epoch]]
<1>3. \/ s.flight.k = j /\ d' = Orphan(u, j, lost)
      \/ d' = v
      \/ d' = Orphan(s, j, lost)
  BY <1>2
<1>4. Passes(d, t, k)
  <2> DEFINE a == [d EXCEPT !.inbox = d.inbox \ {j}]
             host == [NoHost EXCEPT !.by = j]
             b == [a EXCEPT !.host = host]
  <2>1. a \in State
    <3>1. d.inbox \ {j} \in SUBSET Keys
      BY <1>1, Fields
    <3> QED
      BY <1>1, <3>1, Put, Zenon
  <2>2. b \in State
    <3>1. host \in Hosts
      BY DEF NoHost, Hosts
    <3> HIDE DEF a, host
    <3> QED
      BY <2>1, <3>1, Put, Zenon
  <2>3. t = b
    BY <1>1 DEF State
  <2>4. t.shut = d.shut /\ t.queue = d.queue /\ t.writes = d.writes /\ t.flight = d.flight
    BY <1>1 DEF State
  <2> HIDE DEF t
  <2> QED
    BY <2>2, <2>3, <2>4, SamePasses DEF Log
<1> HIDE DEF t
<1>5. Passes(d, s, k) /\ s \in State
  <2> DEFINE x == EnforceDeadlines(t, lost)
  <2>1. t \in State
    BY <1>4 DEF Passes
  <2>2. Passes(t, x, k)
    BY <1>1, <2>1, EnforcePasses
  <2> HIDE DEF x
  <2>3. Passes(x, Stopped(x, lost), k)
    BY <1>1, <2>2, ShutPasses DEF Passes
  <2>4. Passes(d, Stopped(x, lost), k)
    BY <1>4, <2>2, <2>3, PassesOn
  <2> QED
    BY <2>4 DEF Passes, x
<1> HIDE DEF s
<1>6. s.flight.k = j => Passes(d, u, k) /\ u \in State
  <2> SUFFICES ASSUME s.flight.k = j
               PROVE  Passes(d, u, k) /\ u \in State
    OBVIOUS
  <2>1. s.flight \in Flight
    BY <1>5, Fields, NoneFlies, Names
  <2>2. "unknown" \in Outcome
    BY DEF Outcome
  <2>3. Passes(s, u, k)
    BY <1>1, <1>5, <2>1, <2>2, EndPasses
  <2> HIDE DEF u
  <2> QED
    BY <1>5, <2>3, PassesOn DEF Passes
<1> HIDE DEF u
<1>7. ASSUME NEW x \in State
      PROVE  Passes(x, Orphan(x, j, lost), k)
  <2> DEFINE record == [NoRecord EXCEPT !.k = j, !.voided = TRUE]
             y == [x EXCEPT !.record = record]
  <2>1. record \in Records
    <3>1. 0 \in 0 .. Epochs
      BY DispatchAssumption
    <3> QED
      BY <3>1 DEF NoRecord, Records
  <2> HIDE DEF record
  <2>2. y \in State
    BY <2>1, Put, Zenon
  <2>3. y.shut = x.shut /\ y.queue = x.queue /\ y.writes = x.writes /\ y.flight = x.flight
    BY DEF State
  <2>4. Orphan(x, j, lost) = Abort(y, lost)
    BY DEF Orphan, record
  <2> HIDE DEF y
  <2>5. Passes(x, y, k) /\ Passes(y, Abort(y, lost), k)
    BY <2>2, <2>3, SamePasses, AbortPasses DEF Log
  <2> QED
    BY <2>4, <2>5, PassesOn
<1>8. CASE d' = v
  <2>1. s.flight \in Flights
    BY <1>5, Fields
  <2>2. /\ v.shut = s.shut /\ v.queue = s.queue /\ v.writes = s.writes
        /\ v.flight = [s.flight EXCEPT !.phase = "authorized"]
    BY <1>5 DEF State
  <2> HIDE DEF v
  <2>3. v.flight.k = s.flight.k /\ v.flight.recorded = s.flight.recorded
    BY <2>1, <2>2, SetInFlight
  <2>4. Passes(s, v, k)
    BY <1>8, <2>2, <2>3, SamePasses DEF Log
  <2> QED
    BY <1>5, <1>8, <2>4, PassesOn
<1> HIDE DEF v
<1> QED
  BY <1>3, <1>5, <1>6, <1>7, <1>8, PassesOn

LEMMA ContextPasses ==
  ASSUME IInv, d' \in State, NEW k \in Keys, Kind(k) = "message", Context
  PROVE  Passes(d, d', k)
<1>1. d \in State /\ epoch \in 1 .. Epochs
  BY DEF IInv, TypeOK
<1>2. PICK lost \in BOOLEAN :
        LET s == EnforceDeadlines(d, lost) IN
        \/ Fenced(s) /\ d' = AbortRun(RecordOf(s, s.flight, "unknown"), "fenced", FALSE)
        \/ d' = Abort(s, FALSE)
        \/ \E x : d' = [s EXCEPT !.flight.called = x]
  BY DEF Context
<1> DEFINE s == EnforceDeadlines(d, lost)
           u == RecordOf(s, s.flight, "unknown")
<1>3. \/ Fenced(s) /\ d' = AbortRun(u, "fenced", FALSE)
      \/ d' = Abort(s, FALSE)
      \/ \E x : d' = [s EXCEPT !.flight.called = x]
  BY <1>2
<1>4. Passes(d, s, k) /\ s \in State
  BY <1>1, EnforcePasses DEF Passes
<1> HIDE DEF s
<1>5. Fenced(s) => Passes(d, AbortRun(u, "fenced", FALSE), k)
  <2> SUFFICES ASSUME Fenced(s)
               PROVE  Passes(d, AbortRun(u, "fenced", FALSE), k)
    OBVIOUS
  <2>1. s.flight \in Flight
    BY <1>4, Fields, NoneFlies DEF Fenced, Supervised
  <2>2. "unknown" \in Outcome
    BY DEF Outcome
  <2>3. Passes(s, u, k) /\ u.flight \in Flight
    BY <1>1, <1>4, <2>1, <2>2, MarkPasses
  <2> HIDE DEF u
  <2>4. Passes(u, AbortRun(u, "fenced", FALSE), k)
    BY <2>3, CutPasses DEF Passes
  <2> QED
    BY <1>4, <2>3, <2>4, PassesOn
<1>6. Passes(d, Abort(s, FALSE), k)
  BY <1>4, AbortPasses, PassesOn
<1>7. ASSUME NEW x, d' = [s EXCEPT !.flight.called = x]
      PROVE  Passes(d, d', k)
  <2>1. /\ d'.shut = s.shut /\ d'.queue = s.queue /\ d'.writes = s.writes
        /\ d'.flight = [s.flight EXCEPT !.called = x]
    BY <1>4, <1>7 DEF State
  <2>2. d'.flight.k = s.flight.k /\ d'.flight.recorded = s.flight.recorded
    BY <1>4, <2>1, Fields, SetInFlight
  <2>3. Passes(s, d', k)
    BY <2>1, <2>2, SamePasses DEF Log
  <2> QED
    BY <1>4, <2>3, PassesOn
<1> QED
  BY <1>3, <1>5, <1>6, <1>7

LEMMA SettledPasses ==
  ASSUME IInv, d' \in State, NEW k \in Keys, Kind(k) = "message", Settled
  PROVE  Passes(d, d', k)
<1> DEFINE a == [d EXCEPT !.host = NoHost]
           s == [a EXCEPT !.record = NoRecord]
           f == s.flight
           end == IF f.phase = "bound" \/ f.cause = "max" THEN "settled"
                  ELSE IF f.saw THEN "unknown" ELSE "dropped"
<1>1. d \in State /\ epoch \in 1 .. Epochs
  BY DEF IInv, TypeOK
<1>2. s \in State /\ s.shut = d.shut /\ s.queue = d.queue /\ s.writes = d.writes /\ s.flight = d.flight
  <2>1. NoHost \in Hosts
    BY DEF NoHost, Hosts
  <2>2. NoRecord \in Records
    <3>1. 0 \in 0 .. Epochs
      BY DispatchAssumption
    <3> QED
      BY <3>1 DEF NoRecord, Records
  <2>3. a \in State
    BY <1>1, <2>1, Put, Zenon
  <2>4. s \in State
    <3> HIDE DEF a
    <3> QED
      BY <2>2, <2>3, Put, Zenon
  <2> QED
    BY <1>1, <2>4 DEF State
<1>3. d' = s \/ (f # NoFlight /\ d' = FinalizeAtSettle(s))
  <2>1. s = [d EXCEPT !.host = NoHost, !.record = NoRecord]
    BY <1>1 DEF State
  <2> HIDE DEF s
  <2> QED
    BY <2>1 DEF Settled
<1> HIDE DEF s
<1>4. Passes(d, s, k)
  BY <1>2, SamePasses DEF Log
<1>5. f # NoFlight => Passes(s, FinalizeAtSettle(s), k)
  <2> SUFFICES ASSUME f # NoFlight
               PROVE  Passes(s, FinalizeAtSettle(s), k)
    OBVIOUS
  <2>1. f \in Flight /\ end \in Outcome
    BY <1>2, Fields DEF Flights, Outcome
  <2>2. FinalizeAtSettle(s) = RecordOf(CloseFlight(s), s.flight, end)
    BY DEF FinalizeAtSettle
  <2> HIDE DEF end
  <2> QED
    BY <1>1, <1>2, <2>1, <2>2, EndPasses
<1> QED
  BY <1>3, <1>4, <1>5, PassesOn

LEMMA InputPasses ==
  ASSUME IInv, d' \in State, NEW k \in Keys, Kind(k) = "message", Input
  PROVE  Passes(d, d', k)
<1> DEFINE record == [d.record EXCEPT !.handed = IF Mine(d) THEN TRUE ELSE @]
           a == [d EXCEPT !.flight = [d.flight EXCEPT !.handed = TRUE]]
           s == [a EXCEPT !.record = record]
<1>1. d \in State /\ epoch \in 1 .. Epochs
  BY DEF IInv, TypeOK
<1>2. d.flight \in Flight
  BY <1>1, Fields, NoneFlies DEF Input, Supervised
<1>3. a \in State
  <2>1. [d.flight EXCEPT !.handed = TRUE] \in Flights
    BY <1>2 DEF Flight, Flights
  <2> QED
    BY <1>1, <2>1, Put, Zenon
<1>4. record \in Records
  BY <1>1, Fields DEF Records
<1> HIDE DEF record
<1>5. s \in State
  <2> HIDE DEF a
  <2> QED
    BY <1>3, <1>4, Put, Zenon
<1>6. /\ s.shut = d.shut /\ s.queue = d.queue /\ s.writes = d.writes
      /\ s.flight = [d.flight EXCEPT !.handed = TRUE]
  BY <1>1 DEF State
<1>7. d' = RecordOf(s, s.flight, "continued")
  <2>1. s = [d EXCEPT !.flight.handed = TRUE, !.record.handed = IF Mine(d) THEN TRUE ELSE @]
    BY <1>1 DEF State, record
  <2> HIDE DEF s
  <2> QED
    BY <2>1 DEF Input
<1> HIDE DEF s
<1>8. s.flight.k = d.flight.k /\ s.flight.recorded = d.flight.recorded /\ s.flight \in Flight
  <2>1. [d.flight EXCEPT !.handed = TRUE] \in Flight
    BY <1>2 DEF Flight
  <2> QED
    BY <1>2, <1>6, <2>1 DEF Flight
<1>9. Passes(d, s, k)
  BY <1>5, <1>6, <1>8, SamePasses DEF Log
<1>10. "continued" \in Outcome
  BY DEF Outcome
<1>11. Passes(s, d', k)
  BY <1>1, <1>5, <1>7, <1>8, <1>10, MarkPasses
<1> QED
  BY <1>9, <1>11, PassesOn

LEMMA GracePasses ==
  ASSUME IInv, d' \in State, NEW k \in Keys, Kind(k) = "message", Grace
  PROVE  Passes(d, d', k)
<1> DEFINE s == RecordOf(d, d.flight, "unknown")
<1>1. d \in State /\ epoch \in 1 .. Epochs
  BY DEF IInv, TypeOK
<1>2. d.flight \in Flight /\ "unknown" \in Outcome
  BY <1>1, Fields, NoneFlies DEF Grace, Outcome
<1>3. Passes(d, s, k) /\ s \in State
  BY <1>1, <1>2, MarkPasses DEF Passes
<1>4. d' = [s EXCEPT !.flight.stuck = TRUE]
  BY DEF Grace
<1> HIDE DEF s
<1>5. /\ d'.shut = s.shut /\ d'.queue = s.queue /\ d'.writes = s.writes
      /\ d'.flight = [s.flight EXCEPT !.stuck = TRUE]
  BY <1>3, <1>4 DEF State
<1>6. d'.flight.k = s.flight.k /\ d'.flight.recorded = s.flight.recorded
  BY <1>3, <1>5, Fields, SetInFlight
<1>7. Passes(s, d', k)
  BY <1>5, <1>6, SamePasses DEF Log
<1> QED
  BY <1>3, <1>7, PassesOn

\* What is stuck is recorded.
LEMMA ObserveStuckPasses ==
  ASSUME IInv, NEW k \in Keys, ObserveStuck
  PROVE  Passes(d, d', k)
<1> DEFINE s == [d EXCEPT !.record = NoRecord]
<1>1. d \in State /\ epoch \in 1 .. Epochs /\ Flown(d, pump, runs, history.calls)
  BY DEF IInv, TypeOK, Good, Core
<1>2. d.flight \in Flight /\ d.flight.recorded
  <2>1. d.flight # NoFlight
    BY DEF ObserveStuck, NoFlight
  <2> QED
    BY <1>1, <2>1, Fields DEF ObserveStuck, Flown, Flights
<1>3. s \in State /\ s.shut = d.shut /\ s.queue = d.queue /\ s.writes = d.writes /\ s.flight = d.flight
  <2>1. NoRecord \in Records
    <3>1. 0 \in 0 .. Epochs
      BY DispatchAssumption
    <3> QED
      BY <3>1 DEF NoRecord, Records
  <2>2. s \in State
    BY <1>1, <2>1, Put, Zenon
  <2> QED
    BY <1>1, <2>2 DEF State
<1>4. d' = CloseFlight(s)
  BY DEF ObserveStuck
<1> HIDE DEF s
<1>5. Passes(d, s, k)
  BY <1>3, SamePasses DEF Log
<1>6. Passes(s, d', k)
  BY <1>1, <1>2, <1>3, <1>4, ClosePasses
<1> QED
  BY <1>5, <1>6, PassesOn

LEMMA TimerPasses ==
  ASSUME IInv, NEW k \in Keys, Kind(k) = "message", Timer
  PROVE  Passes(d, d', k)
<1>1. d \in State /\ epoch \in 1 .. Epochs
  BY DEF IInv, TypeOK
<1>2. PICK lost \in BOOLEAN : d' = EnforceDeadlines(Stopped(d, lost), lost)
  BY DEF Timer
<1> DEFINE s == Stopped(d, lost)
<1>3. Passes(d, s, k) /\ s \in State
  BY <1>1, ShutPasses DEF Passes
<1> HIDE DEF s
<1>4. Passes(s, EnforceDeadlines(s, lost), k)
  BY <1>1, <1>3, EnforcePasses
<1>5. d' = EnforceDeadlines(s, lost)
  BY <1>2 DEF s
<1> QED
  BY <1>3, <1>4, <1>5, PassesOn

\* A handler of what pi does, and of the timers, does not lose k.
LEMMA HandlerPasses ==
  ASSUME IInv, d' \in State, NEW k \in Keys, Kind(k) = "message",
         \/ \E j \in Keys : OwnStart(j) \/ MessageMerged(j)
         \/ HumanStart \/ MessageStart \/ Context \/ MessageEnd \/ Settled \/ EndsSilently \/ Input
         \/ SessionMoves \/ StartIsDue \/ RunIsDue \/ Timer \/ Grace \/ ObserveStuck \/ SessionShutdown
  PROVE  Passes(d, d', k)
<1>1. CASE SessionShutdown
  <2>1. d \in State /\ epoch \in 1 .. Epochs
    BY DEF IInv, TypeOK
  <2>2. PICK lost \in BOOLEAN : d' = Shutdown(d, lost)
    BY <1>1 DEF SessionShutdown
  <2> QED
    BY <2>1, <2>2, ShutPasses
<1> QED
  BY <1>1, SmallStepPasses, OwnStartPasses, ContextPasses, SettledPasses, InputPasses, GracePasses,
     ObserveStuckPasses, TimerPasses

-------------------------------------------------------------------------------
(* The operators of the queue and the pump *)

LEMMA PostPasses ==
  ASSUME NEW s \in State, NEW k, NEW e \in 1 .. Epochs, NEW j \in Keys, NEW op \in Ops, epoch \in 1 .. Epochs
  PROVE  LET t == Post(s, e, j, op) IN
         /\ t \in State /\ t.queue = s.queue /\ Passes(s, t, k)
         /\ e = epoch => /\ \E i \in DOMAIN Log(t) : Log(t)[i] = [k |-> j, op |-> op]
                         /\ op \in Outcome \cup {"doubt"} => Over(t, j)
<1> DEFINE t == Post(s, e, j, op)
<1>1. Posts(s, e, j, op, t)
  BY Posted
<1> HIDE DEF t
<1>2. /\ t \in State /\ t.shut = s.shut /\ t.queue = s.queue /\ t.flight = s.flight
      /\ t.writes = [s.writes EXCEPT ![e] = Append(s.writes[e], [k |-> j, op |-> op])]
  BY <1>1 DEF Posts, State
<1>3. /\ Grows(s, t)
      /\ e = epoch => Len(Log(s)) + 1 \in DOMAIN Log(t) /\ Log(t)[Len(Log(s)) + 1] = [k |-> j, op |-> op]
  BY <1>2, PostedGrows
<1>4. Passes(s, t, k)
  BY <1>2, <1>3 DEF Passes, InAir
<1>5. e = epoch /\ op \in Outcome \cup {"doubt"} => Over(t, j)
  BY <1>3 DEF Over
<1> QED
  BY <1>2, <1>3, <1>4, <1>5 DEF t

LEMMA EndedPasses ==
  ASSUME NEW s \in State, NEW k, NEW H \in SUBSET Keys
  PROVE  LET t == EndHandoffs(s, H) IN t \in State /\ t.queue = s.queue /\ Passes(s, t, k)
<1> DEFINE t == EndHandoffs(s, H)
<1>1. Ends(s, H, t)
  BY Ended
<1> HIDE DEF t
<1>2. t \in State /\ t.shut = s.shut /\ t.queue = s.queue /\ t.flight = s.flight /\ t.writes = s.writes
  BY <1>1 DEF Ends, State
<1> QED
  BY <1>2, SamePasses DEF Log, t

LEMMA RevokePasses ==
  ASSUME NEW s \in State, NEW k, NEW e \in 1 .. Epochs, NEW j \in Keys, epoch \in 1 .. Epochs
  PROVE  LET t == RevokeEntry(s, e, j) IN
         /\ t \in State /\ t.queue = s.queue /\ Passes(s, t, k)
         /\ e = epoch /\ Kind(j) = "message" => Over(t, j)
<1> DEFINE t == RevokeEntry(s, e, j)
<1>1. CASE Kind(j) = "handoff"
  <2>1. t = EndHandoffs(s, {j}) /\ {j} \in SUBSET Keys
    BY <1>1 DEF RevokeEntry
  <2> HIDE DEF t
  <2> QED
    BY <1>1, <2>1, EndedPasses DEF t
<1>2. CASE Kind(j) # "handoff"
  <2>1. "dropped" \in Outcome /\ "dropped" \in Ops
    BY DEF Outcome, Ops
  <2>2. t = Conclude(s, e, j, "dropped")
    BY <1>2 DEF RevokeEntry
  <2> HIDE DEF t
  <2>3. Concludes(s, e, j, "dropped", t)
    BY <2>1, <2>2, Concluded
  <2>4. /\ t \in State /\ t.shut = s.shut /\ t.queue = s.queue /\ t.flight = s.flight
        /\ t.writes = [s.writes EXCEPT ![e] = Append(s.writes[e], [k |-> j, op |-> "dropped"])]
    BY <1>2, <2>3 DEF Concludes, State
  <2>5. /\ Grows(s, t)
        /\ e = epoch => /\ Len(Log(s)) + 1 \in DOMAIN Log(t)
                        /\ Log(t)[Len(Log(s)) + 1] = [k |-> j, op |-> "dropped"]
    BY <2>1, <2>4, PostedGrows, SMTT(30)
  <2>6. Passes(s, t, k)
    BY <2>4, <2>5 DEF Passes, InAir
  <2>7. e = epoch => Over(t, j)
    BY <2>1, <2>5 DEF Over
  <2> QED
    BY <2>4, <2>6, <2>7 DEF t
<1> QED
  BY <1>1, <1>2

LEMMA ReleasePasses ==
  ASSUME NEW s \in State, NEW k, NEW e \in 1 .. Epochs, NEW j \in Keys
  PROVE  LET t == Release(s, e, j) IN t \in State /\ t.queue = s.queue /\ Passes(s, t, k)
<1> DEFINE t == Release(s, e, j)
<1>1. Releases(s, e, j, t)
  BY Released
<1> HIDE DEF t
<1>2. t \in State /\ t.shut = s.shut /\ t.queue = s.queue /\ t.flight = s.flight /\ t.writes = s.writes
  BY <1>1 DEF Releases, State
<1> QED
  BY <1>2, SamePasses DEF Log, t

LEMMA LeavePasses ==
  ASSUME NEW s, NEW t, NEW k \in Keys, NEW j \in Keys, j # k, Leaves(s, j, t)
  PROVE  Passes(s, t, k)
<1>1. t \in State /\ t.shut = s.shut /\ t.flight = s.flight /\ t.writes = s.writes
      /\ (Contains(t.queue, k) <=> Contains(s.queue, k))
  BY DEF Leaves, SameFlight
<1> QED
  BY <1>1 DEF Passes, InAir, Grows, Log

LEMMA RevertedPasses ==
  ASSUME NEW s \in State, NEW k, NEW e \in 1 .. Epochs, NEW j \in Keys, epoch \in 1 .. Epochs
  PROVE  LET t == Reverted(s, e, j) IN
         /\ t \in State /\ t.queue = s.queue /\ Passes(s, t, k)
         /\ e = epoch /\ Kind(j) = "message" => \E i \in DOMAIN Log(t) : TakesBack(t, j, i)
<1>1. "queued" \in Ops
  BY DEF Ops
<1>2. CASE Kind(j) = "message"
  <2> DEFINE t == Post(s, e, j, "queued")
  <2>1. /\ t \in State /\ t.queue = s.queue /\ Passes(s, t, k)
        /\ e = epoch => \E i \in DOMAIN Log(t) : Log(t)[i] = [k |-> j, op |-> "queued"]
    BY <1>1, PostPasses
  <2>2. Reverted(s, e, j) = t
    BY <1>2 DEF Reverted
  <2> HIDE DEF t
  <2>3. e = epoch => \E i \in DOMAIN Log(t) : TakesBack(t, j, i)
    BY <2>1 DEF TakesBack
  <2> QED
    BY <2>1, <2>2, <2>3
<1>3. CASE Kind(j) # "message"
  <2>1. Reverted(s, e, j) = s
    BY <1>3 DEF Reverted
  <2> QED
    BY <1>3, <2>1, SamePasses
<1> QED
  BY <1>2, <1>3

\* Another message is sent while none is in the air.
LEMMA SentPasses ==
  ASSUME NEW s \in State, OneOfTask(s.queue), s.flight = NoFlight, NEW j \in Keys, NEW k \in Keys,
         Kind(k) = "message", epoch \in 1 .. Epochs
  PROVE  LET t == Sent(s, j)
             u == SentAway(s, j)
         IN  /\ j # k => Passes(s, t, k) /\ Passes(s, u, k)
             /\ ~ Contains(t.queue, j) /\ InAir(t, j)
             /\ j = k => ~ Contains(u.queue, k) /\ Over(u, k)
<1> DEFINE f == [NoFlight EXCEPT !.k = j, !.phase = "dispatched"]
           a == [s EXCEPT !.queue = RemoveFirst(s.queue, j)]
           b == [a EXCEPT !.inbox = s.inbox \cup {j}]
           t == [b EXCEPT !.flight = f]
           z == CloseFlight(t)
           u == RecordOf(z, t.flight, "unknown")
<1>1. f \in Flight /\ f.k = j /\ ~ f.recorded
  BY DEF NoFlight, Flight
<1>2. f \in Flights
  BY <1>1 DEF Flights
<1> HIDE DEF f
<1>3. Leaves(s, j, a) /\ a \in State
  BY LeftQueue DEF Leaves
<1>4. b \in State
  <2>1. s.inbox \cup {j} \in SUBSET Keys
    BY Fields
  <2> HIDE DEF a
  <2> QED
    BY <1>3, <2>1, Put, Zenon
<1>5. t \in State
  <2> HIDE DEF b
  <2> QED
    BY <1>2, <1>4, Put, Zenon
<1>6. t.shut = s.shut /\ t.queue = a.queue /\ t.writes = s.writes /\ t.flight = f
  BY DEF State
<1>7. Sent(s, j) = t
  BY DEF Sent, State, f
<1> HIDE DEF t
<1>8. ~ Contains(t.queue, j) /\ InAir(t, j)
  BY <1>1, <1>3, <1>6 DEF Leaves, InAir
<1>9. j # k => Passes(s, t, k)
  <2>1. ~ InAir(s, k)
    BY NoneFlies, Names DEF InAir
  <2> QED
    BY <1>3, <1>5, <1>6, <2>1 DEF Passes, Leaves, Grows, Log
<1>10. "unknown" \in Outcome
  BY DEF Outcome
<1>11. Passes(t, u, k)
  BY <1>1, <1>5, <1>6, <1>10, EndPasses
<1>12. j = k => ~ Contains(u.queue, k) /\ Over(u, k)
  <2>1. Closes(t, z)
    BY <1>1, <1>5, <1>6, Closed
  <2> HIDE DEF z
  <2>2. z \in State /\ z.queue = t.queue
    BY <2>1 DEF Closes, SameFates
  <2>3. u.queue = z.queue /\ (~ f.recorded /\ Kind(f.k) = "message" => Over(u, f.k))
    BY <1>1, <1>6, <1>10, <2>2, RecordPasses
  <2> QED
    BY <1>1, <1>8, <2>2, <2>3
<1>13. SentAway(s, j) = u
  BY <1>7 DEF SentAway
<1> HIDE DEF u
<1>14. j # k => Passes(s, u, k)
  BY <1>9, <1>11, PassesOn
<1> QED
  BY <1>7, <1>8, <1>9, <1>12, <1>13, <1>14

-------------------------------------------------------------------------------
(* The steps *)

\* A write of another run leaves the log.
LEMMA PoppedKept ==
  ASSUME NEW s \in State, NEW t, NEW e \in 1 .. Epochs, s.writes[e] # <<>>, Pops(s, e, t), epoch \in 1 .. Epochs,
         NEW k, e = epoch => Head(s.writes[e]).k # k, NEW p, NEW r, Kept(s, p, r, k)
  PROVE  Kept(t, p, r, k)
<1>1. t.queue = s.queue /\ t.flight = s.flight
  BY DEF Pops, SameFlight
<1>2. CASE e # epoch
  <2>1. Log(t) = Log(s)
    BY <1>2 DEF Pops, Log
  <2> QED
    BY <1>1, <2>1 DEF Kept, InAir, Over, Dropping, TakesBack
<1>3. CASE e = epoch
  <2>1. /\ DOMAIN Log(s) = 1 .. Len(Log(s)) /\ Len(Log(s)) \in Nat /\ Log(s)[1].k # k
        /\ DOMAIN Log(t) = 1 .. Len(Log(t)) /\ Len(Log(t)) = Len(Log(s)) - 1
        /\ \A i \in DOMAIN Log(t) : Log(t)[i] = Log(s)[i + 1]
    <3>1. s.writes[e] \in Seq(LogEntry) /\ t.writes[e] \in Seq(LogEntry)
      BY Writes DEF Pops
    <3>2. Head(s.writes[e]) = s.writes[e][1]
      BY Popped
    <3>3. /\ Len(t.writes[e]) = Len(s.writes[e]) - 1
          /\ \A i \in 1 .. Len(t.writes[e]) : t.writes[e][i] = s.writes[e][i + 1]
      BY DEF Pops
    <3>4. /\ DOMAIN s.writes[e] = 1 .. Len(s.writes[e]) /\ Len(s.writes[e]) \in Nat
          /\ DOMAIN t.writes[e] = 1 .. Len(t.writes[e])
      BY <3>1
    <3> QED
      BY <1>3, <3>2, <3>3, <3>4 DEF Log
  <2>2. \A i \in DOMAIN Log(s) : Log(s)[i].k = k => i - 1 \in DOMAIN Log(t) /\ Log(t)[i - 1] = Log(s)[i]
    <3> SUFFICES ASSUME NEW i \in DOMAIN Log(s), Log(s)[i].k = k
                 PROVE  i - 1 \in DOMAIN Log(t) /\ Log(t)[i - 1] = Log(s)[i]
      OBVIOUS
    <3>1. i # 1
      BY <2>1
    <3>2. i - 1 \in 1 .. Len(Log(t)) /\ i - 1 + 1 = i
      BY <2>1, <3>1
    <3> QED
      BY <2>1, <3>2
  <2>3. Over(s, k) => Over(t, k)
    BY <2>2 DEF Over
  <2>4. \A j \in DOMAIN Log(s) : TakesBack(s, k, j) => j - 1 \in DOMAIN Log(t) /\ TakesBack(t, k, j - 1)
    BY <2>2 DEF TakesBack
  <2>5. Dropping(s, r, k) => Dropping(t, r, k)
    <3> SUFFICES ASSUME NEW i \in DOMAIN Log(s), Log(s)[i].k = k, Log(s)[i].op = "drop",
                        r.state[k] # "dispatched" \/ \E j \in DOMAIN Log(s) : j < i /\ TakesBack(s, k, j)
                 PROVE  Dropping(t, r, k)
      BY DEF Dropping
    <3>1. i - 1 \in DOMAIN Log(t) /\ Log(t)[i - 1] = Log(s)[i]
      BY <2>2
    <3>2. \A j \in DOMAIN Log(s) : j < i => j - 1 < i - 1
      BY <2>1
    <3>3. r.state[k] # "dispatched" \/ \E j \in DOMAIN Log(t) : j < i - 1 /\ TakesBack(t, k, j)
      BY <2>4, <3>2
    <3> QED
      BY <3>1, <3>3 DEF Dropping
  <2>6. (\E j \in DOMAIN Log(s) : TakesBack(s, k, j)) => \E j \in DOMAIN Log(t) : TakesBack(t, k, j)
    BY <2>4
  <2> QED
    BY <1>1, <2>3, <2>5, <2>6 DEF Kept, InAir
<1> QED
  BY <1>2, <1>3

\* k is the newest message, and the stack that has claimed it lives on.
Follow(k) ==
  /\ IInv /\ Newest /\ k = history.latest /\ k \in Keys
  /\ Kind(k) = "message" /\ runs.owner[k] = epoch /\ k \notin history.given
  /\ Live /\ ~ d'.shut /\ d' \in State
  /\ Kept(d, pump, runs, k)

LEMMA Followed ==
  ASSUME NEW k, Follow(k)
  PROVE  /\ d \in State /\ epoch \in 1 .. Epochs /\ OneOfTask(d.queue)
         /\ Types(pump, runs, history.calls) /\ Core(d, pump, runs, history.calls)
         /\ k \in Keys /\ Kind(k) = "message" /\ Kind(k) # "handoff"
  BY DEF Follow, IInv, TypeOK, Good, Core

LEMMA EnqueueHandoffFollows ==
  ASSUME NEW k, Follow(k), NEW j \in Keys, EnqueueHandoff(j)
  PROVE  Kept(d', pump', runs', k)
<1> DEFINE s == [d EXCEPT !.arrived = d.arrived \cup {j}]
           t == Tell(Say(s, j, "dropped"), j)
           p2 == Replaced("handoff")
<1>1. /\ d \in State /\ epoch \in 1 .. Epochs /\ OneOfTask(d.queue) /\ Kind(k) # "handoff" /\ k \in Keys
      /\ Core(d, pump, runs, history.calls) /\ Types(pump, runs, history.calls)
  BY Followed
<1>2. Kind(j) = "handoff" /\ j \notin d.arrived /\ runs' = runs
      /\ \/ d' = t /\ pump' = pump
         \/ d' = EnqueueEntry(s, j) /\ pump' = p2
  BY DEF EnqueueHandoff
<1>3. s \in State
  <2>1. d.arrived \cup {j} \in SUBSET Keys
    BY <1>1, Fields
  <2> QED
    BY <1>1, <2>1, Put, Zenon
<1>4. s.shut = d.shut /\ s.queue = d.queue /\ s.flight = d.flight /\ s.writes = d.writes
  BY <1>1 DEF State
<1> HIDE DEF s
<1>5. pump'[epoch].k = k => pump'[epoch] = pump[epoch]
  <2>1. Buries(pump, "handoff", p2)
    BY <1>1, Buried
  <2> HIDE DEF p2
  <2>2. p2[epoch].k = k => p2[epoch] = pump[epoch]
    BY <1>1, <2>1 DEF Buries
  <2> QED
    BY <1>2, <2>2
<1> HIDE DEF p2
<1>6. CASE d' = t
  <2>1. t.shut = s.shut /\ t.queue = s.queue /\ t.flight = s.flight /\ t.writes = s.writes
    BY <1>3 DEF State, Tell, Say
  <2>2. Passes(d, d', k)
    BY <1>4, <1>6, <2>1, SamePasses DEF Follow, Log
  <2>3. pump'[epoch].k = k => Contains(d'.queue, k) /\ (pump'[epoch].dead => pump'[epoch].revoked)
    BY <1>4, <1>6, <1>5, <2>1 DEF Follow, Kept
  <2> QED
    BY <1>2, <2>2, <2>3, KeptOn DEF Follow
<1>7. CASE d' = EnqueueEntry(s, j)
  <2>1. ~ Contains(s.queue, j)
    BY <1>1, <1>2, <1>4 DEF Core, Waiting
  <2>2. Enqueues(s, j, d')
    BY <1>1, <1>3, <1>4, <1>7, <2>1, Enqueued
  <2>3. Contains(d'.queue, k) <=> Contains(d.queue, k)
    BY <1>1, <1>2, <1>4, <2>2 DEF Enqueues
  <2>4. Passes(d, d', k)
    BY <1>4, <2>2, <2>3 DEF Enqueues, Passes, InAir, Grows, Log
  <2>5. pump'[epoch].k = k => Contains(d'.queue, k) /\ (pump'[epoch].dead => pump'[epoch].revoked)
    BY <1>5, <2>3 DEF Follow, Kept
  <2> QED
    BY <1>2, <2>4, <2>5, KeptOn DEF Follow
<1> QED
  BY <1>2, <1>6, <1>7

LEMMA PauseFollows ==
  ASSUME NEW k, Follow(k), NEW kind \in {"message", "handoff"}, Pause(kind)
  PROVE  Kept(d', pump', runs', k)
<1> DEFINE out == RevokedOut(kind)
<1>1. /\ d \in State /\ epoch \in 1 .. Epochs /\ OneOfTask(d.queue) /\ k \in Keys /\ Kind(k) = "message"
      /\ Types(pump, runs, history.calls)
  BY Followed
<1>2. PICK T \in SUBSET {"message", "handoff"}, R \in SUBSET Keys : d' = d \/ RevokesTo(kind, T, R)
  <2>1. CASE Revoke(kind)
    BY <1>1, <2>1, RevokeCases
  <2> QED
    BY <2>1 DEF Pause
<1> DEFINE s == [d EXCEPT !.told = T, !.revoked = R]
<1>3. s \in State
  BY <1>1, Put, Fields
<1>4. s.shut = d.shut /\ s.queue = d.queue /\ s.flight = d.flight /\ s.writes = d.writes
  BY <1>1 DEF State
<1>5. pump' = pump \/ pump' = [pump EXCEPT ![epoch].dead = TRUE, ![epoch].revoked = TRUE]
  <2>1. CASE Revoke(kind)
    BY <1>1, <2>1, RevokeCases
  <2> QED
    BY <2>1 DEF Pause
<1>6. \/ d' = s \/ d' = d
      \/ \E j \in out : d' = RevokeEntry([s EXCEPT !.queue = RemoveFirst(s.queue, j)], epoch, j)
  BY <1>2 DEF RevokesTo
<1>7. \A j \in out : j \in Keys /\ pump[epoch].k # j
  BY DEF Task, RevokedOut
<1>8. runs'.state[k] = runs.state[k] \/ runs'.state[k] \in Outcome
  BY <1>1 DEF Pause, Types, Outcome
<1>9. pump'[epoch].k = pump[epoch].k
      /\ (pump'[epoch].dead => pump'[epoch].revoked \/ pump'[epoch] = pump[epoch])
  <2>1. CASE pump' = pump
    BY <2>1
  <2>2. CASE pump' = [pump EXCEPT ![epoch].dead = TRUE, ![epoch].revoked = TRUE]
    <3>1. pump[epoch] \in [k : Keys \cup {"none"}, dead : BOOLEAN, revoked : BOOLEAN]
      BY <1>1 DEF Types
    <3> QED
      BY <1>1, <2>2, <3>1 DEF Types
  <2> QED
    BY <1>5, <2>1, <2>2
<1> HIDE DEF s, out
<1>10. CASE d' = s \/ d' = d
  <2>1. Passes(d, d', k) /\ d'.queue = d.queue
    BY <1>1, <1>3, <1>4, <1>10, SamePasses DEF Log
  <2>2. pump'[epoch].k = k => Contains(d'.queue, k) /\ (pump'[epoch].dead => pump'[epoch].revoked)
    BY <1>9, <2>1 DEF Follow, Kept
  <2> QED
    BY <1>8, <2>1, <2>2, KeptOn DEF Follow
<1>11. ASSUME NEW j \in out, d' = RevokeEntry([s EXCEPT !.queue = RemoveFirst(s.queue, j)], epoch, j)
       PROVE  Kept(d', pump', runs', k)
  <2> DEFINE x == [s EXCEPT !.queue = RemoveFirst(s.queue, j)]
             t == RevokeEntry(x, epoch, j)
  <2>1. j \in Keys /\ pump[epoch].k # j
    BY <1>7
  <2>2. Leaves(s, j, x) /\ x \in State
    BY <1>1, <1>3, <1>4, <2>1, LeftQueue DEF Leaves
  <2>3. d' = t
    BY <1>11
  <2> HIDE DEF x
  <2>4. t.queue = x.queue /\ Passes(x, t, k) /\ (Kind(j) = "message" => Over(t, j))
    BY <1>1, <2>1, <2>2, RevokePasses
  <2> HIDE DEF t
  <2>5. CASE j = k
    <3>1. ~ Contains(d'.queue, k) /\ Over(d', k)
      BY <1>1, <2>2, <2>3, <2>4, <2>5 DEF Leaves
    <3>2. pump'[epoch].k # k /\ runs'.state[k] # "none"
      BY <1>8, <1>9, <2>1, <2>5 DEF Follow, Kept, Outcome
    <3> QED
      BY <3>1, <3>2, KeptOver
  <2>6. CASE j # k
    <3>1. Passes(d, s, k)
      BY <1>3, <1>4, SamePasses DEF Log
    <3>2. Passes(s, x, k)
      BY <1>1, <2>1, <2>2, <2>6, LeavePasses
    <3>3. Passes(d, d', k)
      BY <2>3, <2>4, <3>1, <3>2, PassesOn
    <3>4. Contains(d'.queue, k) <=> Contains(d.queue, k)
      BY <3>3 DEF Follow, Passes
    <3>5. pump'[epoch].k = k => Contains(d'.queue, k) /\ (pump'[epoch].dead => pump'[epoch].revoked)
      BY <1>9, <3>4 DEF Follow, Kept
    <3> QED
      BY <1>8, <3>3, <3>5, KeptOn DEF Follow
  <2> QED
    BY <2>5, <2>6
<1> QED
  BY <1>5, <1>6, <1>10, <1>11

LEMMA PumpClaimFollows ==
  ASSUME NEW k, Follow(k), PumpClaim
  PROVE  Kept(d', pump', runs', k)
<1> DEFINE j == Head(d.queue)
           s == [d EXCEPT !.slot = [epoch |-> epoch, k |-> j]]
<1>1. /\ d \in State /\ epoch \in 1 .. Epochs /\ OneOfTask(d.queue) /\ k \in Keys
      /\ Types(pump, runs, history.calls)
  BY Followed
<1>2. j \in Keys /\ Contains(d.queue, j)
  <2>1. d.queue # <<>>
    BY DEF PumpClaim, PumpFree
  <2> QED
    BY <1>1, <2>1, Fields, Without1st
<1>3. /\ d' = Post(s, epoch, j, "cas") /\ runs' = runs
      /\ pump' = [pump EXCEPT ![epoch] = [NoPump EXCEPT !.k = j]]
  BY DEF PumpClaim
<1>4. pump'[epoch].k = j /\ ~ pump'[epoch].dead
  BY <1>1, <1>3 DEF Types, NoPump
<1> HIDE DEF j
<1>5. s \in State
  <2>1. [epoch |-> epoch, k |-> j] \in Slots
    BY <1>1, <1>2, DispatchAssumption DEF Slots
  <2> QED
    BY <1>1, <2>1, Put, Zenon
<1>6. s.shut = d.shut /\ s.queue = d.queue /\ s.flight = d.flight /\ s.writes = d.writes
  BY <1>1 DEF State
<1> HIDE DEF s
<1>7. Passes(d, s, k)
  BY <1>5, <1>6, SamePasses DEF Log
<1>8. d'.queue = s.queue /\ Passes(s, d', k)
  <2>1. "cas" \in Ops
    BY DEF Ops
  <2> QED
    BY <1>1, <1>2, <1>3, <1>5, <2>1, PostPasses
<1>9. Passes(d, d', k)
  BY <1>7, <1>8, PassesOn
<1>10. pump'[epoch].k = k => Contains(d'.queue, k) /\ (pump'[epoch].dead => pump'[epoch].revoked)
  BY <1>2, <1>4, <1>6, <1>8
<1>11. runs' = runs
  BY <1>3
<1> QED
  BY <1>9, <1>10, <1>11, KeptOn DEF Follow

\* Only an intent that is taken back before hinders the drop.
LEMMA PumpDropFollows ==
  ASSUME NEW k, Follow(k), PumpDrop
  PROVE  Kept(d', pump', runs', k)
<1> DEFINE j == Head(d.queue)
           s == [d EXCEPT !.queue = Tail(d.queue)]
<1>1. /\ d \in State /\ epoch \in 1 .. Epochs /\ OneOfTask(d.queue) /\ k \in Keys /\ Kind(k) = "message"
      /\ Types(pump, runs, history.calls) /\ Kind(k) # "handoff"
  BY Followed
<1>2. /\ j \in Keys /\ Contains(d.queue, j) /\ Tail(d.queue) \in Seq(Keys)
      /\ \A i \in Keys : Contains(Tail(d.queue), i) <=> Contains(d.queue, i) /\ i # j
  <2>1. d.queue # <<>>
    BY DEF PumpDrop, PumpFree
  <2> QED
    BY <1>1, <2>1, Fields, Without1st
<1>3. /\ d' = IF Kind(j) = "handoff" THEN EndHandoffs(s, {j}) ELSE Post(s, epoch, j, "drop")
      /\ runs' = runs /\ pump' = pump
  BY DEF PumpDrop
<1>4. pump'[epoch].k # k
  <2>1. pump[epoch] = NoPump
    BY DEF PumpDrop, PumpFree
  <2> QED
    BY <1>1, <1>3, <2>1, NonePumps, Names
<1> HIDE DEF j
<1>5. s \in State
  BY <1>1, <1>2, Put, Zenon
<1>6. s.shut = d.shut /\ s.queue = Tail(d.queue) /\ s.flight = d.flight /\ s.writes = d.writes
  BY <1>1 DEF State
<1> HIDE DEF s
<1>7. d'.queue = s.queue /\ Passes(s, d', k)
  <2>1. "drop" \in Ops /\ {j} \in SUBSET Keys
    BY <1>2 DEF Ops
  <2>2. CASE Kind(j) = "handoff"
    BY <1>3, <1>5, <2>1, <2>2, EndedPasses
  <2>3. CASE Kind(j) # "handoff"
    BY <1>1, <1>2, <1>3, <1>5, <2>1, <2>3, PostPasses
  <2> QED
    BY <2>2, <2>3
<1>8. CASE j # k
  <2>1. Passes(d, s, k)
    BY <1>1, <1>2, <1>5, <1>6, <1>8 DEF Passes, InAir, Grows, Log
  <2>2. Passes(d, d', k)
    BY <1>7, <2>1, PassesOn
  <2> QED
    BY <1>3, <1>4, <2>2, KeptOn DEF Follow
<1>9. CASE j = k
  <2>1. d'.writes = [s.writes EXCEPT ![epoch] = Append(s.writes[epoch], [k |-> k, op |-> "drop"])]
    <3>1. "drop" \in Ops
      BY DEF Ops
    <3>2. Posts(s, epoch, k, "drop", Post(s, epoch, k, "drop"))
      BY <1>1, <1>5, <3>1, Posted
    <3> QED
      BY <1>1, <1>3, <1>9, <3>2 DEF Posts
  <2> DEFINE n == Len(Log(s)) + 1
  <2>2. /\ n \in DOMAIN Log(d') /\ Log(d')[n] = [k |-> k, op |-> "drop"]
        /\ DOMAIN Log(s) = 1 .. Len(Log(s)) /\ Len(Log(s)) \in Nat /\ Grows(s, d')
    <3>1. "drop" \in Ops
      BY DEF Ops
    <3>2. d' \in State
      BY DEF Follow
    <3> QED
      BY <1>1, <1>5, <2>1, <3>1, <3>2, PostedGrows
  <2>3. Log(s) = Log(d)
    BY <1>6 DEF Log
  <2>4. runs.state[k] # "dispatched" \/ \E i \in DOMAIN Log(s) : TakesBack(s, k, i)
    BY <1>2, <1>9, <2>3 DEF Follow, Kept, TakesBack
  <2>5. \A i \in DOMAIN Log(s) : i < n /\ (TakesBack(s, k, i) => i \in DOMAIN Log(d') /\ TakesBack(d', k, i))
    BY <2>2 DEF Grows, TakesBack
  <2>6. Log(d')[n].k = k /\ Log(d')[n].op = "drop" /\ n \in DOMAIN Log(d')
    BY <2>2
  <2> HIDE DEF n
  <2>7. Dropping(d', runs', k)
    <3>1. runs.state[k] # "dispatched" \/ \E i \in DOMAIN Log(d') : i < n /\ TakesBack(d', k, i)
      BY <2>4, <2>5
    <3> QED
      BY <1>3, <2>6, <3>1 DEF Dropping
  <2>8. ~ Contains(d'.queue, k)
    BY <1>1, <1>2, <1>6, <1>7, <1>9
  <2> QED
    BY <1>3, <1>4, <2>7, <2>8 DEF Follow, Kept
<1> QED
  BY <1>8, <1>9

\* The intent to send k is the last write of it, and nothing takes it back before.
LEMMA NotSentYet ==
  ASSUME NEW k, Follow(k), Cas(epoch), NextWrite(epoch).k = k
  PROVE  pump[epoch].k = k /\ Contains(d.queue, k) /\ runs.state[k] # "dispatched"
         /\ (pump[epoch].dead => pump[epoch].revoked) /\ d.flight = NoFlight
<1>1. d \in State /\ epoch \in 1 .. Epochs /\ Core(d, pump, runs, history.calls) /\ k \in Keys
  BY Followed
<1>2. /\ d.writes[epoch] # <<>> /\ 1 \in DOMAIN d.writes[epoch] /\ NextWrite(epoch) = d.writes[epoch][1]
      /\ d.writes[epoch][1].op = "cas" /\ d.writes[epoch][1].k = k
  <2>1. d.writes[epoch] # <<>>
    BY DEF Cas
  <2>2. 1 \in 1 .. Len(d.writes[epoch]) /\ NextWrite(epoch) = d.writes[epoch][1]
    BY <1>1, <2>1, Popped DEF NextWrite
  <2>3. DOMAIN d.writes[epoch] = 1 .. Len(d.writes[epoch])
    BY <1>1, Writes
  <2> QED
    BY <2>1, <2>2, <2>3 DEF Cas
<1>3. pump[epoch].k = k
  BY <1>1, <1>2 DEF Core, Logged, Entry
<1>4. Contains(d.queue, k) /\ (pump[epoch].dead => pump[epoch].revoked)
  BY <1>3 DEF Follow, Kept
<1>5. ~ \E i \in DOMAIN Log(d) : TakesBack(d, k, i)
  <2> SUFFICES ASSUME NEW i \in DOMAIN d.writes[epoch], d.writes[epoch][i].k = k, d.writes[epoch][i].op = "queued"
               PROVE  FALSE
    BY DEF TakesBack, Log
  <2>1. i # 1
    BY <1>2
  <2>2. 1 < i
    <3>1. DOMAIN d.writes[epoch] = 1 .. Len(d.writes[epoch])
      BY <1>1, Writes
    <3> QED
      BY <2>1, <3>1
  <2> QED
    BY <1>1, <1>2, <2>2 DEF Core, Logged
<1>6. d.flight = NoFlight
  BY <1>1, <1>3, Names DEF Core, Flown
<1> QED
  BY <1>3, <1>4, <1>5, <1>6 DEF Follow, Kept

\* The state w in which the pump goes on with the answer to its intent for j.
LEMMA AnswerComes ==
  ASSUME NEW k, Follow(k), NEW e \in 1 .. Epochs, Cas(e)
  PROVE  LET w == Written(d, e)
             j == NextWrite(e).k
         IN  /\ w \in State /\ w.queue = d.queue /\ w.shut = d.shut /\ w.flight = d.flight /\ Pops(d, e, w)
             /\ OneOfTask(w.queue)
             /\ j \in Keys /\ (e # epoch => j # k) /\ (e = epoch => d.flight = NoFlight /\ pump'[epoch].k # k)
             /\ e # epoch => pump'[epoch] = pump[epoch]
             /\ d.writes[e] # <<>> /\ Head(d.writes[e]).k = j
             /\ Leaves(w, j, Left(w, e, j))
             /\ RevokeEntry(Left(w, e, j), e, j).queue = Left(w, e, j).queue
             /\ j # k => /\ Passes(w, Left(w, e, j), k)
                         /\ Passes(w, RevokeEntry(Left(w, e, j), e, j), k)
             /\ e = epoch /\ Kind(j) = "message" => Over(RevokeEntry(Left(w, e, j), e, j), j)
<1> DEFINE w == Written(d, e)
           j == NextWrite(e).k
           x == Left(w, e, j)
           y == RevokeEntry(x, e, j)
<1>1. /\ d \in State /\ epoch \in 1 .. Epochs /\ OneOfTask(d.queue) /\ k \in Keys
      /\ Types(pump, runs, history.calls) /\ Core(d, pump, runs, history.calls)
  BY Followed
<1>2. d.writes[e] # <<>> /\ NextWrite(e) = Head(d.writes[e]) /\ Head(d.writes[e]).op = "cas"
      /\ pump' = [pump EXCEPT ![e] = NoPump]
  BY DEF Cas, NextWrite
<1>3. /\ Pops(d, e, w) /\ 1 \in DOMAIN d.writes[e] /\ NextWrite(e) = d.writes[e][1]
      /\ NextWrite(e) \in LogEntry
  <2>1. DOMAIN d.writes[e] = 1 .. Len(d.writes[e])
    BY <1>1, Writes
  <2> QED
    BY <1>1, <1>2, <2>1, Popped
<1>4. j \in Keys /\ runs.owner[j] = e /\ pump[e].k = j
  BY <1>1, <1>2, <1>3 DEF Core, Logged, Entry, LogEntry
<1>5. e # epoch => j # k
  BY <1>4 DEF Follow
<1>6. /\ e = epoch => d.flight = NoFlight /\ pump'[epoch].k # k
      /\ e # epoch => pump'[epoch] = pump[epoch]
  BY <1>1, <1>2, <1>4, Names, NonePumps DEF Core, Flown, Types
<1>7. w \in State /\ w.queue = d.queue /\ w.shut = d.shut /\ w.flight = d.flight
  BY <1>3 DEF Pops, SameFlight
<1>8. Head(d.writes[e]).k = j
  BY <1>2
<1> HIDE DEF w, j
<1>9. Leaves(w, j, x) /\ x \in State
  <2>1. OneOfTask(w.queue)
    BY <1>1, <1>7
  <2>2. Leaves(w, j, Left(w, e, j))
    BY <1>4, <1>7, <2>1, LeftSlot
  <2> QED
    BY <2>2 DEF Leaves
<1> HIDE DEF x
<1>10. y.queue = x.queue /\ Passes(x, y, k) /\ (e = epoch /\ Kind(j) = "message" => Over(y, j))
  BY <1>1, <1>4, <1>9, RevokePasses
<1> HIDE DEF y
<1>11. j # k => Passes(w, x, k) /\ Passes(w, y, k)
  BY <1>1, <1>4, <1>9, <1>10, LeavePasses, PassesOn
<1>12. d.writes[e] # <<>>
  BY <1>2
<1> QED
  BY <1>1, <1>3, <1>4, <1>5, <1>6, <1>7, <1>8, <1>9, <1>10, <1>11, <1>12 DEF w, j, x, y

\* The answer is for another run.
LEMMA OtherAnswered ==
  ASSUME NEW k, Follow(k), NEW e \in 1 .. Epochs, Cas(e), NextWrite(e).k # k,
         Passes(Written(d, e), d', k), runs'.state[k] = runs.state[k]
  PROVE  Kept(d', pump', runs', k)
<1> DEFINE w == Written(d, e)
           j == NextWrite(e).k
<1>1. d \in State /\ epoch \in 1 .. Epochs
  BY Followed
<1>2. /\ w \in State /\ Pops(d, e, w) /\ d.writes[e] # <<>> /\ Head(d.writes[e]).k = j
      /\ (e = epoch => pump'[epoch].k # k) /\ (e # epoch => pump'[epoch] = pump[epoch])
  BY AnswerComes
<1>3. Passes(w, d', k) /\ j # k
  OBVIOUS
<1> HIDE DEF w, j
<1>4. Kept(w, pump, runs, k)
  BY <1>1, <1>2, <1>3, PoppedKept DEF Follow
<1>5. pump'[epoch].k = k => Contains(d'.queue, k) /\ (pump'[epoch].dead => pump'[epoch].revoked)
  BY <1>2, <1>3, <1>4 DEF Kept, Passes, Follow
<1> QED
  BY <1>3, <1>4, <1>5, KeptOn DEF Follow

LEMMA CasRefusesFollows ==
  ASSUME NEW k, Follow(k), NEW e \in 1 .. Epochs, CasRefuses(e)
  PROVE  Kept(d', pump', runs', k)
<1> DEFINE w == Written(d, e)
           j == NextWrite(e).k
           x == Left(w, e, j)
           y == RevokeEntry(x, e, j)
<1>1. /\ epoch \in 1 .. Epochs /\ k \in Keys /\ Kind(k) = "message" /\ Types(pump, runs, history.calls)
      /\ Cas(e)
  BY Followed DEF CasRefuses
<1>2. /\ w \in State /\ j \in Keys /\ (e # epoch => j # k)
      /\ (e = epoch => pump'[epoch].k # k)
      /\ Leaves(w, j, x) /\ y.queue = x.queue
      /\ j # k => Passes(w, x, k) /\ Passes(w, y, k)
  BY <1>1, AnswerComes
<1>3. /\ d' = y \/ (Kind(j) = "handoff" /\ d' = EndHandoffs(x, {j})) \/ d' = x
      /\ runs' = IF Kind(j) = "message" /\ ~ Gone(j) THEN [runs EXCEPT !.state[j] = "dropped"] ELSE runs
      /\ Gone(j) \/ Changed(j)
  BY DEF CasRefuses, OrRevoked
<1>4. CASE j # k
  <2>1. runs'.state[k] = runs.state[k]
    BY <1>1, <1>2, <1>3, <1>4 DEF Types
  <2> HIDE DEF w, j, x, y
  <2>2. Passes(w, EndHandoffs(x, {j}), k)
    <3>1. x \in State /\ {j} \in SUBSET Keys
      BY <1>2 DEF Leaves
    <3>2. Passes(x, EndHandoffs(x, {j}), k)
      BY <3>1, EndedPasses
    <3> QED
      BY <1>2, <1>4, <3>2, PassesOn
  <2>3. Passes(w, d', k)
    BY <1>2, <1>3, <1>4, <2>2
  <2> QED
    BY <1>1, <1>4, <2>1, <2>3, OtherAnswered DEF w, j
<1>5. CASE j = k
  <2>1. e = epoch
    BY <1>2, <1>5
  <2>2. runs.state[k] # "dispatched" /\ runs.state[k] # "none"
    BY <1>1, <1>5, <2>1, NotSentYet DEF Follow, Kept
  <2>3. runs'.state[k] \in Outcome
    <3>1. CASE Gone(k)
      BY <1>1, <1>3, <1>5, <2>2, <3>1 DEF Gone, Types
    <3>2. CASE ~ Gone(k)
      BY <1>1, <1>3, <1>5, <3>2 DEF Types, Outcome
    <3> QED
      BY <3>1, <3>2
  <2> HIDE DEF w, j, x, y
  <2>4. ~ Contains(d'.queue, k)
    BY <1>1, <1>2, <1>3, <1>5 DEF Leaves
  <2> QED
    BY <1>2, <2>1, <2>3, <2>4, KeptOver DEF Outcome
<1> QED
  BY <1>4, <1>5

LEMMA CasFailsFollows ==
  ASSUME NEW k, Follow(k), NEW e \in 1 .. Epochs, CasFails(e)
  PROVE  Kept(d', pump', runs', k)
<1> DEFINE w == Written(d, e)
           j == NextWrite(e).k
           x == Left(w, e, j)
           y == RevokeEntry(x, e, j)
           z == Release(w, e, j)
           v == Post(x, e, j, "doubt")
<1>1. /\ epoch \in 1 .. Epochs /\ k \in Keys /\ Kind(k) = "message" /\ Types(pump, runs, history.calls)
      /\ Cas(e)
  BY Followed DEF CasFails
<1>2. /\ w \in State /\ j \in Keys /\ (e # epoch => j # k) /\ w.queue = d.queue
      /\ (e = epoch => pump'[epoch].k # k)
      /\ Leaves(w, j, x) /\ y.queue = x.queue
      /\ j # k => Passes(w, x, k) /\ Passes(w, y, k)
      /\ e = epoch /\ Kind(j) = "message" => Over(y, j)
  BY <1>1, AnswerComes
<1>3. \/ (d' = y \/ d' = z) /\ runs' = runs
      \/ (d' = y \/ d' = v) /\ \/ runs' = runs
                               \/ \E o \in {"dropped", "dispatched"} : runs' = [runs EXCEPT !.state[j] = o]
  BY DEF CasFails, OrRevoked
<1>4. j = k => /\ pump[epoch].k = k /\ Contains(d.queue, k)
               /\ runs.state[k] # "dispatched" /\ runs.state[k] # "none"
  BY <1>1, <1>2, NotSentYet DEF Follow, Kept
<1>5. runs'.state[k] # "none" /\ (j # k => runs'.state[k] = runs.state[k])
  BY <1>1, <1>2, <1>3 DEF Types, Follow, Kept
<1> HIDE DEF w, j, x, y
<1>6. z.queue = w.queue /\ Passes(w, z, k)
  BY <1>2, ReleasePasses
<1>7. v.queue = x.queue /\ Passes(x, v, k) /\ (e = epoch => Over(v, j))
  <2>1. "doubt" \in Ops
    BY DEF Ops
  <2> QED
    BY <1>1, <1>2, <2>1, PostPasses DEF Leaves
<1> HIDE DEF z, v
<1>8. CASE j # k
  <2>1. Passes(w, v, k)
    BY <1>2, <1>7, <1>8, PassesOn
  <2>2. Passes(w, d', k)
    BY <1>2, <1>3, <1>6, <1>8, <2>1
  <2> QED
    BY <1>1, <1>5, <1>8, <2>2, OtherAnswered DEF w, j
<1>9. CASE j = k /\ (d' = y \/ d' = v)
  <2>1. e = epoch /\ pump'[epoch].k # k
    BY <1>2, <1>9
  <2>2. ~ Contains(d'.queue, k) /\ Over(d', k)
    BY <1>1, <1>2, <1>7, <1>9, <2>1 DEF Leaves
  <2> QED
    BY <1>5, <2>1, <2>2, KeptOver
<1>10. CASE j = k /\ d' = z /\ runs' = runs
  BY <1>2, <1>4, <1>6, <1>10 DEF Kept
<1> QED
  BY <1>3, <1>8, <1>9, <1>10

LEMMA CasAllowsFollows ==
  ASSUME NEW k, Follow(k), NEW e \in 1 .. Epochs, CasAllows(e)
  PROVE  Kept(d', pump', runs', k)
<1> DEFINE w == Written(d, e)
           j == NextWrite(e).k
           x == Left(w, e, j)
           y == RevokeEntry(x, e, j)
           z == Release(w, e, j)
           dead == pump[e].dead \/ e # epoch \/ e \in disposed \/ d.shut
<1>1. /\ epoch \in 1 .. Epochs /\ k \in Keys /\ Kind(k) = "message" /\ Types(pump, runs, history.calls)
      /\ Cas(e) /\ d \in State
  BY Followed DEF CasAllows
<1>2. /\ w \in State /\ j \in Keys /\ (e # epoch => j # k) /\ w.queue = d.queue /\ w.flight = d.flight
      /\ OneOfTask(w.queue)
      /\ e = epoch => d.flight = NoFlight /\ pump'[epoch].k # k
      /\ Leaves(w, j, x) /\ y.queue = x.queue
      /\ j # k => Passes(w, x, k) /\ Passes(w, y, k)
      /\ e = epoch /\ Kind(j) = "message" => Over(y, j)
  BY <1>1, AnswerComes
<1>3. runs' = IF Kind(j) = "message" THEN [runs EXCEPT !.state[j] = "dispatched"] ELSE runs
  BY DEF CasAllows
<1>4. \/ pump[e].revoked /\ d' = y
      \/ ~ pump[e].revoked /\ dead /\ d' = Reverted(x, e, j)
      \/ ~ pump[e].revoked /\ ~ dead /\ d' = Reverted(z, e, j)
      \/ ~ pump[e].revoked /\ ~ dead /\ (d' = Sent(w, j) \/ d' = SentAway(w, j))
  <2>1. \A lost : e = epoch => Stopped(d, lost) = d
    BY DEF Stopped, Follow, Live
  <2>2. \A lost : Written(IF e = epoch THEN Stopped(d, lost) ELSE d, e) = w
    BY <2>1
  <2> QED
    BY <2>2 DEF CasAllows, OrRevoked
<1>5. j = k => /\ e = epoch /\ pump'[epoch].k # k /\ Contains(d.queue, k)
               /\ (pump[epoch].dead => pump[epoch].revoked)
               /\ runs'.state[k] = "dispatched"
  BY <1>1, <1>2, <1>3, NotSentYet DEF Types
<1>6. j = k /\ dead => pump[e].revoked
  BY <1>5 DEF Follow, Live
<1>7. ~ dead => e = epoch /\ w.flight = NoFlight
  BY <1>2
<1>8. j # k => runs'.state[k] = runs.state[k]
  BY <1>1, <1>2, <1>3 DEF Types
<1> HIDE DEF w, j, x, y, dead
<1>9. x \in State
  BY <1>2 DEF Leaves
<1>10. z \in State /\ z.queue = w.queue /\ Passes(w, z, k)
  BY <1>2, ReleasePasses
<1> HIDE DEF z
<1>11. Passes(x, Reverted(x, e, j), k)
  BY <1>1, <1>2, <1>9, RevertedPasses
<1> DEFINE u == Reverted(z, e, j)
<1>12. /\ Passes(z, u, k) /\ u.queue = z.queue
       /\ e = epoch /\ Kind(j) = "message" => \E i \in DOMAIN Log(u) : TakesBack(u, j, i)
  BY <1>1, <1>2, <1>10, RevertedPasses
<1>13. w.flight = NoFlight =>
         /\ j # k => Passes(w, Sent(w, j), k) /\ Passes(w, SentAway(w, j), k)
         /\ ~ Contains(Sent(w, j).queue, j) /\ InAir(Sent(w, j), j)
         /\ j = k => ~ Contains(SentAway(w, j).queue, k) /\ Over(SentAway(w, j), k)
  BY <1>1, <1>2, SentPasses
<1>14. CASE j # k
  <2>1. Passes(w, Reverted(x, e, j), k) /\ Passes(w, u, k)
    BY <1>2, <1>10, <1>11, <1>12, <1>14, PassesOn
  <2>2. Passes(w, d', k)
    BY <1>2, <1>4, <1>7, <1>13, <1>14, <2>1
  <2> QED
    BY <1>1, <1>8, <1>14, <2>2, OtherAnswered DEF w, j
<1>15. CASE j = k /\ d' = y
  <2>1. ~ Contains(d'.queue, k) /\ Over(d', k) /\ runs'.state[k] # "none"
    BY <1>1, <1>2, <1>5, <1>15 DEF Leaves
  <2> QED
    BY <1>5, <1>15, <2>1, KeptOver
<1>16. CASE j = k /\ d' = u
  <2>1. Contains(d'.queue, k) /\ \E i \in DOMAIN Log(d') : TakesBack(d', k, i)
    BY <1>1, <1>2, <1>5, <1>10, <1>12, <1>16
  <2> QED
    BY <1>5, <1>16, <2>1 DEF Kept
<1>17. CASE j = k /\ ~ dead /\ d' = Sent(w, j)
  <2>1. ~ Contains(d'.queue, k) /\ InAir(d', k)
    BY <1>7, <1>13, <1>17
  <2> QED
    BY <1>5, <1>17, <2>1 DEF Kept
<1>18. CASE j = k /\ ~ dead /\ d' = SentAway(w, j)
  <2>1. ~ Contains(d'.queue, k) /\ Over(d', k) /\ runs'.state[k] # "none"
    BY <1>5, <1>7, <1>13, <1>18
  <2> QED
    BY <1>5, <1>18, <2>1, KeptOver
<1> QED
  BY <1>4, <1>6, <1>14, <1>15, <1>16, <1>17, <1>18

\* A write of k ends it, takes its intent back, or is a drop that meets one.
LEMMA WriteFollows ==
  ASSUME NEW k, Follow(k), NEW e \in 1 .. Epochs, Write(e), k \notin history'.given
  PROVE  Kept(d', pump', runs', k)
<1> DEFINE w == NextWrite(e)
           s == Log(d)
           t == Log(d')
<1>1. /\ d \in State /\ epoch \in 1 .. Epochs /\ k \in Keys /\ Kind(k) = "message"
      /\ Types(pump, runs, history.calls) /\ Core(d, pump, runs, history.calls)
  BY Followed
<1>2. /\ d.writes[e] # <<>> /\ w = Head(d.writes[e]) /\ w.op # "cas" /\ d' = Written(d, e) /\ pump' = pump
      /\ \/ runs' = [runs EXCEPT !.state[w.k] = Becomes(runs.state[w.k], w.op)]
         \/ runs' = runs /\ w.k \in history'.given
  <2>1. history \in [calls : [Keys -> 0 .. MaxCalls], given : SUBSET Keys, latest : Keys \cup {"none"}, swept : SUBSET Keys]
    BY DEF Follow, IInv, TypeOK
  <2> QED
    BY <2>1 DEF Write, NextWrite
<1>3. Pops(d, e, d') /\ 1 \in DOMAIN d.writes[e] /\ w = d.writes[e][1] /\ w \in LogEntry
  <2>1. DOMAIN d.writes[e] = 1 .. Len(d.writes[e])
    BY <1>1, Writes
  <2> QED
    BY <1>1, <1>2, <2>1, Popped
<1>4. w.k \in Keys /\ w.op \in Ops /\ runs.owner[w.k] = e
  BY <1>1, <1>3 DEF Core, Logged, Entry, LogEntry
<1>5. CASE w.k # k
  <2>1. Kept(d', pump, runs, k)
    BY <1>1, <1>2, <1>3, <1>5, PoppedKept DEF Follow
  <2>2. runs'.state[k] = runs.state[k]
    BY <1>1, <1>2, <1>4, <1>5 DEF Types
  <2> QED
    BY <1>2, <2>1, <2>2 DEF Kept, Dropping
<1>6. CASE w.k = k
  <2>1. e = epoch
    BY <1>4, <1>6 DEF Follow
  <2>2. runs'.state[k] = Becomes(runs.state[k], w.op)
    BY <1>1, <1>2, <1>6 DEF Types
  <2>3. d'.queue = d.queue /\ d'.flight = d.flight
    BY <1>3 DEF Pops, SameFlight
  <2>4. /\ runs.state[k] \in {"queued", "dispatched"} \cup Outcome
        /\ w.op \in {"drop", "queued", "doubt"} \cup Outcome
    BY <1>1, <1>2, <1>4 DEF Types, Ops, Follow, Kept
  <2>5. CASE runs'.state[k] \in Outcome
    BY <1>2, <2>3, <2>5 DEF Follow, Kept, Outcome
  <2>6. CASE runs'.state[k] \notin Outcome
    <3>1. \/ w.op = "drop" /\ runs.state[k] = "dispatched" /\ runs'.state[k] = "dispatched"
          \/ w.op = "queued" /\ runs'.state[k] = "queued" /\ runs.state[k] \notin Outcome
      BY <2>2, <2>4, <2>6 DEF Becomes, Outcome
    <3>2. /\ DOMAIN s = 1 .. Len(s) /\ Len(s) \in Nat /\ s[1] = w
          /\ DOMAIN t = 1 .. Len(t) /\ Len(t) = Len(s) - 1
          /\ \A i \in DOMAIN t : t[i] = s[i + 1]
      <4>1. d.writes[epoch] \in Seq(LogEntry) /\ d'.writes[epoch] \in Seq(LogEntry)
        BY <1>1, <1>3, Writes DEF Pops
      <4>2. /\ Len(d'.writes[epoch]) = Len(d.writes[epoch]) - 1
            /\ \A i \in 1 .. Len(d'.writes[epoch]) : d'.writes[epoch][i] = d.writes[epoch][i + 1]
        BY <1>3, <2>1 DEF Pops
      <4>3. /\ DOMAIN d.writes[epoch] = 1 .. Len(d.writes[epoch]) /\ Len(d.writes[epoch]) \in Nat
            /\ DOMAIN d'.writes[epoch] = 1 .. Len(d'.writes[epoch])
        BY <4>1
      <4> QED
        BY <1>3, <2>1, <4>2, <4>3 DEF Log
    <3> HIDE DEF s, t, w
    <3>3. \A i \in DOMAIN s : i # 1 => i - 1 \in DOMAIN t /\ t[i - 1] = s[i]
      <4> SUFFICES ASSUME NEW i \in DOMAIN s, i # 1
                   PROVE  i - 1 \in DOMAIN t /\ t[i - 1] = s[i]
        OBVIOUS
      <4>1. i - 1 \in 1 .. Len(t) /\ i - 1 + 1 = i
        BY <3>2
      <4> QED
        BY <3>2, <4>1
    <3>4. Over(d, k) => Over(d', k)
      <4> SUFFICES ASSUME NEW i \in DOMAIN s, s[i].k = k, s[i].op \in Outcome \cup {"doubt"}
                   PROVE  Over(d', k)
        BY DEF Over, s
      <4>1. i # 1
        BY <3>1, <3>2 DEF Outcome
      <4>2. i - 1 \in DOMAIN t /\ t[i - 1] = s[i]
        BY <3>3, <4>1
      <4> QED
        BY <4>2 DEF Over, t
    <3>5. CASE w.op = "drop" /\ runs.state[k] = "dispatched" /\ runs'.state[k] = "dispatched"
      <4>1. \A i \in DOMAIN s : s[i].k = k /\ s[i].op = "queued" =>
              i # 1 /\ i - 1 \in DOMAIN t /\ TakesBack(d', k, i - 1)
        <5>1. \A i \in DOMAIN s : s[i].op = "queued" => i # 1
          BY <3>2, <3>5
        <5> QED
          BY <3>3, <5>1 DEF TakesBack, t
      <4>2. (\E i \in DOMAIN s : TakesBack(d, k, i)) => \E i \in DOMAIN t : TakesBack(d', k, i)
        BY <4>1 DEF TakesBack, s
      <4>3. Dropping(d, runs, k) => Dropping(d', runs', k)
        <5> SUFFICES ASSUME NEW i \in DOMAIN s, s[i].k = k, s[i].op = "drop",
                            NEW n \in DOMAIN s, n < i, s[n].k = k, s[n].op = "queued"
                     PROVE  Dropping(d', runs', k)
          BY <3>5 DEF Dropping, TakesBack, s
        <5>1. n - 1 \in DOMAIN t /\ TakesBack(d', k, n - 1)
          BY <4>1
        <5>2. i # 1 /\ n - 1 < i - 1
          BY <3>2
        <5>3. i - 1 \in DOMAIN t /\ t[i - 1] = s[i]
          BY <3>3, <5>2
        <5> QED
          BY <5>1, <5>2, <5>3 DEF Dropping, t
      <4> QED
        BY <1>2, <2>3, <3>4, <3>5, <4>2, <4>3 DEF Follow, Kept, InAir, s, t
    <3>6. CASE w.op = "queued" /\ runs'.state[k] = "queued" /\ runs.state[k] \notin Outcome
      <4>1. Dropping(d, runs, k) => Dropping(d', runs', k)
        <5> SUFFICES ASSUME NEW i \in DOMAIN s, s[i].k = k, s[i].op = "drop"
                     PROVE  Dropping(d', runs', k)
          BY DEF Dropping, s
        <5>1. i # 1
          BY <3>2, <3>6
        <5>2. i - 1 \in DOMAIN t /\ t[i - 1] = s[i]
          BY <3>3, <5>1
        <5> QED
          BY <3>6, <5>2 DEF Dropping, t
      <4> QED
        BY <1>2, <2>3, <3>4, <3>6, <4>1 DEF Follow, Kept, InAir
    <3> QED
      BY <3>1, <3>5, <3>6
  <2> QED
    BY <2>5, <2>6
<1> QED
  BY <1>5, <1>6

\* The claimed message is in the queue, and no pump has it in its hands.
LEMMA ClaimStarts ==
  ASSUME IInv, NEW k \in Keys, Claim(k)
  PROVE  /\ Kind(k) = "message" /\ runs'.owner[k] = epoch /\ history'.latest = k
         /\ ~ d'.shut => Kept(d', pump', runs', k)
<1>1. /\ d \in State /\ Core(d, pump, runs, history.calls) /\ Types(pump, runs, history.calls)
      /\ OneOfTask(d.queue) /\ epoch \in 1 .. Epochs
      /\ history \in [calls : [Keys -> 0 .. MaxCalls], given : SUBSET Keys, latest : Keys \cup {"none"}, swept : SUBSET Keys]
  BY DEF IInv, TypeOK, Good, Core
<1>2. Kind(k) = "message" /\ runs.owner[k] = 0 /\ history' = [history EXCEPT !.latest = k]
  BY DEF Claim
<1>3. runs'.owner = [runs.owner EXCEPT ![k] = epoch] /\ runs'.state[k] = "queued"
  BY DEF Claim
<1>4. runs'.owner[k] = epoch /\ history'.latest = k
  BY <1>1, <1>2, <1>3 DEF Types
<1>5. ASSUME ~ d'.shut
      PROVE  Kept(d', pump', runs', k)
  <2>1. Fresh(d, pump, history.calls, k)
    BY <1>1, <1>2, Unclaimed
  <2> DEFINE x == [d EXCEPT !.revoked = d.revoked \cup {k}]
             y == Conclude(x, epoch, k, "dropped")
  <2>2. \/ d' = EnqueueEntry(d, k) /\ pump' = Replaced("message")
        \/ d' = y /\ pump' = pump
        \/ d' = d /\ d.shut
    BY DEF Claim
  <2>3. CASE d' = EnqueueEntry(d, k) /\ pump' = Replaced("message")
    <3>1. Contains(d'.queue, k)
      BY <1>1, <2>1, <2>3, Enqueued DEF Enqueues, Fresh
    <3>2. pump'[epoch].k # k
      BY <1>1, <2>1, <2>3, Buried DEF Buries, Fresh, AtPump
    <3> QED
      BY <1>3, <3>1, <3>2 DEF Kept
  <2>4. CASE d' = y /\ pump' = pump
    <3>1. x \in State /\ x.queue = d.queue
      <4>1. d.revoked \cup {k} \in SUBSET Keys
        BY <1>1, Fields
      <4>2. x \in State
        BY <1>1, <4>1, Put, Zenon
      <4> QED
        BY <1>1, <4>2 DEF State
    <3>2. y = RevokeEntry(x, epoch, k)
      BY <1>2 DEF RevokeEntry
    <3> HIDE DEF x, y
    <3>3. y.queue = d.queue /\ Over(y, k)
      BY <1>1, <1>2, <3>1, <3>2, RevokePasses
    <3>4. ~ Contains(d.queue, k)
      BY <1>1, <1>2 DEF Core, Waiting
    <3>5. pump'[epoch].k # k
      BY <1>1, <2>1, <2>4 DEF Fresh, AtPump
    <3> QED
      BY <1>3, <2>4, <3>3, <3>4, <3>5, KeptOver
  <2> QED
    BY <1>5, <2>2, <2>3, <2>4
<1> QED
  BY <1>2, <1>4, <1>5

Handler ==
  \/ \E j \in Keys : OwnStart(j) \/ MessageMerged(j)
  \/ HumanStart \/ MessageStart \/ Context \/ MessageEnd \/ Settled \/ EndsSilently \/ Input
  \/ SessionMoves \/ StartIsDue \/ RunIsDue \/ Timer \/ Grace \/ ObserveStuck \/ SessionShutdown

Queueing ==
  \/ \E j \in Keys : EnqueueHandoff(j)
  \/ \E kind \in {"message", "handoff"} : Pause(kind)
  \/ PumpClaim \/ PumpDrop
  \/ \E e \in 1 .. Epochs : CasRefuses(e) \/ CasFails(e) \/ CasAllows(e) \/ Write(e)

Apart ==
  \/ \E j \in Keys : ClaimSource(j)
  \/ \E kind \in {"message", "handoff"} : Resume(kind)
  \/ \E e \in 1 .. Epochs : CloseEpoch(e)
  \/ Dispose \/ UNCHANGED vars

LEMMA Parted ==
  ASSUME IInv, [Next]_vars
  PROVE  (\E k \in Keys : Claim(k)) \/ Handler \/ Queueing \/ Apart \/ Attach
<1>1. \A k \in Keys : Kind(k) \in {"message", "handoff"}
  BY Kinds DEF IInv, Good, Core
<1> QED
  BY <1>1 DEF Next, Handler, Queueing, Apart

\* The handlers work on the state of the dispatcher only, and count the model calls.
LEMMA HandlerHandles ==
  ASSUME Handler
  PROVE  /\ UNCHANGED <<setup, epoch, disposed, runs, pump>>
         /\ history' = history \/ \E k \in Keys : history' = [history EXCEPT !.calls[k] = history.calls[k] + 1]
<1>1. CASE Others
  BY <1>1 DEF Others, Handles
<1>2. ASSUME NEW j \in Keys, OwnStart(j) \/ MessageMerged(j)
      PROVE  Others
  BY <1>2 DEF OwnStart, MessageMerged
<1>3. CASE HumanStart \/ MessageStart \/ MessageEnd \/ Settled \/ EndsSilently \/ Input
  BY <1>1, <1>3 DEF HumanStart, MessageStart, MessageEnd, Settled, EndsSilently, Input
<1>4. CASE StartIsDue \/ RunIsDue \/ Timer \/ Grace \/ ObserveStuck \/ SessionShutdown
  BY <1>1, <1>4 DEF StartIsDue, RunIsDue, Timer, Grace, ObserveStuck, SessionShutdown
<1>5. CASE Context
  BY <1>5 DEF Context, Handles
<1>6. CASE SessionMoves
  BY <1>6 DEF SessionMoves
<1> QED
  BY <1>1, <1>2, <1>3, <1>4, <1>5, <1>6 DEF Handler

\* Who owns a run, and what was given up, is not forgotten; the newest message changes with
\* a claim only.
LEMMA SameNewest ==
  ASSUME IInv, [Next]_vars, ~ \E k \in Keys : Claim(k)
  PROVE  /\ setup' = setup /\ history'.latest = history.latest /\ history.given \subseteq history'.given
         /\ disposed \subseteq disposed'
         /\ \A j \in Keys : runs.owner[j] # 0 => runs'.owner[j] = runs.owner[j]
         /\ IF Attach THEN epoch' = epoch + 1 ELSE epoch' = epoch
<1>1. /\ history \in [calls : [Keys -> 0 .. MaxCalls], given : SUBSET Keys, latest : Keys \cup {"none"}, swept : SUBSET Keys]
      /\ epoch \in Nat
      /\ runs \in [owner : [Keys -> 0 .. Epochs],
                   state : [Keys -> {"none", "queued", "dispatched"} \cup Outcome]]
  BY DEF IInv, TypeOK
<1>2. Attach => epoch' = epoch + 1
  BY DEF Attach
<1>3. epoch + 1 # epoch
  BY <1>1
<1>4. CASE Handler
  <2>1. UNCHANGED <<setup, epoch, disposed, runs>>
    BY <1>4, HandlerHandles
  <2>2. history' = history \/ \E k \in Keys : history' = [history EXCEPT !.calls[k] = history.calls[k] + 1]
    BY <1>4, HandlerHandles
  <2>3. history'.latest = history.latest /\ history'.given = history.given
    BY <1>1, <2>2
  <2> QED
    BY <1>2, <1>3, <2>1, <2>3
<1>5. CASE Queueing
  <2>1. UNCHANGED <<setup, epoch, disposed>>
    BY <1>5 DEF Queueing, EnqueueHandoff, Pause, PumpClaim, PumpDrop, CasRefuses, CasFails, CasAllows, Cas, Write
  <2>2. ASSUME ~ \E kind \in {"message", "handoff"} : Pause(kind)
        PROVE  history' = history \/ \E k : history' = [history EXCEPT !.given = history.given \cup {k}]
    BY <1>5, <2>2 DEF Queueing, EnqueueHandoff, PumpClaim, PumpDrop, CasRefuses, CasFails, CasAllows, Write
  <2>3. history'.latest = history.latest /\ history.given \subseteq history'.given
    BY <1>1, <2>2, PauseSweeps
  <2>4. runs' = runs \/ \E x : runs' = [runs EXCEPT !.state = x]
    <3>1. ASSUME NEW kind, Pause(kind)
          PROVE  runs' = runs \/ \E x : runs' = [runs EXCEPT !.state = x]
      BY <3>1 DEF Pause
    <3>2. ASSUME NEW e, NEW x, NEW j, runs' = [runs EXCEPT !.state[j] = x]
          PROVE  \E y : runs' = [runs EXCEPT !.state = y]
      BY <1>1, <3>2
    <3>3. ASSUME NEW e, CasRefuses(e) \/ CasFails(e) \/ CasAllows(e) \/ Write(e)
          PROVE  runs' = runs \/ \E x, j : runs' = [runs EXCEPT !.state[j] = x]
      BY <3>3 DEF CasRefuses, CasFails, CasAllows, Write
    <3>4. CASE PumpClaim \/ PumpDrop \/ \E j \in Keys : EnqueueHandoff(j)
      BY <3>4 DEF EnqueueHandoff, PumpClaim, PumpDrop
    <3> QED
      BY <1>5, <3>1, <3>2, <3>3, <3>4 DEF Queueing
  <2>5. runs'.owner = runs.owner
    BY <1>1, <2>4
  <2> QED
    BY <1>2, <1>3, <2>1, <2>3, <2>5
<1>6. CASE Apart
  <2>1. setup' = setup /\ epoch' = epoch /\ history' = history /\ disposed \subseteq disposed'
    BY <1>6 DEF Apart, ClaimSource, Resume, CloseEpoch, Dispose, vars
  <2>2. ASSUME NEW j \in Keys, ClaimSource(j)
        PROVE  \A i \in Keys : runs.owner[i] # 0 => runs'.owner[i] = runs.owner[i]
    <3>1. runs' = [runs EXCEPT !.owner = [runs.owner EXCEPT ![j] = epoch]] /\ runs.owner[j] = 0
      BY <2>2 DEF ClaimSource
    <3> QED
      BY <1>1, <3>1
  <2>3. ASSUME NEW e, CloseEpoch(e)
        PROVE  runs'.owner = runs.owner
    BY <1>1, <2>3 DEF CloseEpoch
  <2>4. CASE Dispose \/ UNCHANGED vars \/ \E kind \in {"message", "handoff"} : Resume(kind)
    <3>1. runs' = runs
      BY <2>4 DEF Resume, Dispose, vars
    <3> QED
      BY <2>1, <3>1, <1>2, <1>3
  <2> QED
    BY <1>2, <1>3, <1>6, <2>1, <2>2, <2>3, <2>4 DEF Apart
<1>7. CASE Attach
  BY <1>2, <1>7 DEF Attach
<1> QED
  BY <1>4, <1>5, <1>6, <1>7, Parted

\* Only the next stack takes up work again.
LEMMA ShutStays ==
  ASSUME IInv, d' \in State, NEW k \in Keys, Kind(k) = "message", Handler \/ Queueing \/ Apart, d.shut
  PROVE  d'.shut
<1>1. d \in State /\ epoch \in 1 .. Epochs /\ OneOfTask(d.queue) /\ Types(pump, runs, history.calls)
      /\ Core(d, pump, runs, history.calls)
  BY DEF IInv, TypeOK, Good, Core
<1>2. CASE Handler
  BY <1>2, HandlerPasses DEF Handler, Passes
<1>3. CASE Apart
  <2>1. \A j \in Keys : ClaimSource(j) => d'.shut = d.shut
    BY <1>1, SourceIsNoted DEF SameFates
  <2> QED
    BY <1>3, <2>1 DEF Apart, Resume, CloseEpoch, Dispose, vars
<1>4. ASSUME NEW kind \in {"message", "handoff"}, Pause(kind)
      PROVE  d'.shut
  <2>0. PICK T \in SUBSET {"message", "handoff"}, R \in SUBSET Keys : d' = d \/ RevokesTo(kind, T, R)
    <3>1. CASE Revoke(kind)
      BY <1>1, <3>1, RevokeCases
    <3> QED
      BY <1>4, <3>1 DEF Pause
  <2> DEFINE s == [d EXCEPT !.told = T, !.revoked = R]
  <2>1. s \in State /\ s.shut = d.shut /\ s.queue = d.queue
    <3>1. s \in State
      BY <1>1, Put, Fields
    <3> QED
      BY <1>1, <3>1 DEF State
  <2>2. d' = d \/ d' = s \/ \E j \in Keys : d' = RevokeEntry([s EXCEPT !.queue = RemoveFirst(s.queue, j)], epoch, j)
    BY <2>0 DEF RevokesTo, RevokedOut, Task
  <2> HIDE DEF s
  <2>3. ASSUME NEW j \in Keys
        PROVE  RevokeEntry([s EXCEPT !.queue = RemoveFirst(s.queue, j)], epoch, j).shut
    <3> DEFINE x == [s EXCEPT !.queue = RemoveFirst(s.queue, j)]
    <3>1. x \in State /\ x.shut
      <4>1. OneOfTask(s.queue)
        BY <1>1, <2>1
      <4>2. Leaves(s, j, x)
        BY <2>1, <4>1, LeftQueue
      <4> QED
        BY <2>1, <4>2 DEF Leaves, SameFlight
    <3> HIDE DEF x
    <3>2. RevokeEntry(x, epoch, j).shut
      BY <1>1, <3>1, RevokePasses DEF Passes
    <3> QED
      BY <3>2 DEF x
  <2> QED
    BY <2>1, <2>2, <2>3
<1>5. CASE PumpClaim \/ PumpDrop \/ \E j \in Keys : EnqueueHandoff(j)
  BY <1>5 DEF EnqueueHandoff, PumpClaim, PumpDrop, PumpFree
<1>6. ASSUME NEW e \in 1 .. Epochs, Write(e)
      PROVE  d'.shut
  BY <1>1, <1>6, Popped DEF Write, Pops, SameFlight
<1>7. ASSUME NEW e \in 1 .. Epochs, CasRefuses(e) \/ CasFails(e) \/ CasAllows(e)
      PROVE  d'.shut
  <2> DEFINE w == Written(d, e)
             j == NextWrite(e).k
             x == Left(w, e, j)
             y == RevokeEntry(x, e, j)
  <2>1. d.writes[e] # <<>>
    BY <1>7 DEF CasRefuses, CasFails, CasAllows, Cas
  <2>2. /\ w \in State /\ w.shut /\ j \in Keys /\ OneOfTask(w.queue)
    BY <1>1, <2>1, Popped DEF Pops, SameFlight, NextWrite, LogEntry
  <2>3. \/ d' = y \/ d' = x \/ d' = EndHandoffs(x, {j}) \/ d' = Release(w, e, j) \/ d' = Post(x, e, j, "doubt")
        \/ d' = Reverted(x, e, j)
    <3>1. CASE CasRefuses(e) \/ CasFails(e)
      BY <3>1 DEF CasRefuses, CasFails, OrRevoked
    <3>2. CASE CasAllows(e)
      <4>1. \A lost : Written(IF e = epoch THEN Stopped(d, lost) ELSE d, e) = w
        BY DEF Stopped
      <4> QED
        BY <3>2, <4>1 DEF CasAllows, OrRevoked
    <3> QED
      BY <1>7, <3>1, <3>2
  <2> HIDE DEF w, j
  <2>4. x \in State /\ x.shut
    BY <2>2, LeftSlot DEF Leaves, SameFlight
  <2> HIDE DEF x
  <2>5. "doubt" \in Ops /\ {j} \in SUBSET Keys
    BY <2>2 DEF Ops
  <2>6. y.shut /\ EndHandoffs(x, {j}).shut /\ Post(x, e, j, "doubt").shut /\ Reverted(x, e, j).shut
    BY <1>1, <2>2, <2>4, <2>5, RevokePasses, EndedPasses, PostPasses, RevertedPasses DEF Passes
  <2>7. Release(w, e, j).shut
    BY <2>2, ReleasePasses DEF Passes
  <2> QED
    BY <2>3, <2>4, <2>6, <2>7
<1> QED
  BY <1>2, <1>3, <1>4, <1>5, <1>6, <1>7 DEF Queueing

LEMMA NewestFollows ==
  ASSUME NEW k, Follow(k), Handler \/ Queueing \/ Apart, k \notin history'.given
  PROVE  Kept(d', pump', runs', k)
<1>1. CASE Handler
  <2>1. Passes(d, d', k)
    BY <1>1, HandlerPasses DEF Handler, Follow
  <2>2. pump' = pump /\ runs' = runs
    BY <1>1, HandlerHandles
  <2>3. pump'[epoch].k = k => Contains(d'.queue, k) /\ (pump'[epoch].dead => pump'[epoch].revoked)
    BY <2>1, <2>2 DEF Follow, Kept, Passes
  <2> QED
    BY <2>1, <2>2, <2>3, KeptOn DEF Follow
<1>2. CASE Queueing
  BY <1>2, EnqueueHandoffFollows, PauseFollows, PumpClaimFollows, PumpDropFollows, CasRefusesFollows,
     CasFailsFollows, CasAllowsFollows, WriteFollows DEF Queueing
<1>3. CASE Apart
  <2>1. Types(pump, runs, history.calls) /\ k \in Keys
    BY <1>3, Followed
  <2>2. d' = d \/ \E j \in Keys : ClaimSource(j)
    BY <1>3 DEF Apart, Resume, CloseEpoch, Dispose, vars
  <2>7. pump' = pump
    BY <1>3 DEF Apart, ClaimSource, Resume, CloseEpoch, Dispose, vars
  <2>3. ASSUME NEW e \in 1 .. Epochs, CloseEpoch(e)
        PROVE  runs'.state[k] = runs.state[k]
    <3>1. runs.owner[k] # e
      BY <2>3 DEF CloseEpoch, Follow, Live
    <3> QED
      BY <2>1, <2>3, <3>1 DEF CloseEpoch, Types
  <2>4. ASSUME NEW j \in Keys, ClaimSource(j)
        PROVE  runs'.state[k] = runs.state[k]
    BY <2>1, <2>4 DEF ClaimSource, Types
  <2>5. (Dispose \/ UNCHANGED vars \/ \E kind \in {"message", "handoff"} : Resume(kind)) => runs' = runs
    BY DEF Resume, Dispose, vars
  <2>6. runs'.state[k] = runs.state[k]
    BY <1>3, <2>3, <2>4, <2>5 DEF Apart
  <2>8. d \in State /\ ~ d'.shut
    BY Followed DEF Follow
  <2>9. Passes(d, d', k) /\ d'.queue = d.queue
    <3>1. CASE d' = d
      BY <2>8, <3>1, SamePasses
    <3>2. ASSUME NEW j \in Keys, ClaimSource(j)
          PROVE  Passes(d, d', k) /\ d'.queue = d.queue
      <4>1. d' \in State /\ SameFlight(d, d') /\ SameFates(d, d')
        BY <2>8, <3>2, SourceIsNoted
      <4> QED
        BY <4>1, SamePasses DEF SameFlight, SameFates, Log
    <3> QED
      BY <2>2, <3>1, <3>2
  <2>10. Kept(d, pump, runs, k)
    BY DEF Follow
  <2>11. pump'[epoch].k = k => Contains(d'.queue, k) /\ (pump'[epoch].dead => pump'[epoch].revoked)
    BY <2>7, <2>9, <2>10 DEF Kept
  <2> QED
    BY <2>6, <2>8, <2>9, <2>10, <2>11, KeptOn
<1> QED
  BY <1>1, <1>2, <1>3

LEMMA NewestStays ==
  ASSUME IInv, IInv', Newest, [Next]_vars
  PROVE  Newest'
<1>1. d' \in State /\ epoch \in 1 .. Epochs
  BY DEF IInv, TypeOK
<1>2. ASSUME NEW k \in Keys, Claim(k)
      PROVE  Newest'
  <2>1. epoch' = epoch /\ setup' = setup
    BY <1>2 DEF Claim
  <2>2. /\ Kind(k) = "message" /\ runs'.owner[k] = epoch /\ history'.latest = k
        /\ ~ d'.shut => Kept(d', pump', runs', k)
    BY <1>2, ClaimStarts
  <2>3. epoch \in 1 .. epoch
    BY <1>1
  <2> QED
    BY <2>1, <2>2, <2>3 DEF Newest, Live, Kind, Kept, InAir, Over, Dropping, TakesBack, Log
<1>3. CASE ~ \E k \in Keys : Claim(k)
  <2> DEFINE k == history.latest
  <2>1. /\ setup' = setup /\ history'.latest = k /\ history.given \subseteq history'.given
        /\ disposed \subseteq disposed'
        /\ \A j \in Keys : runs.owner[j] # 0 => runs'.owner[j] = runs.owner[j]
        /\ IF Attach THEN epoch' = epoch + 1 ELSE epoch' = epoch
    BY <1>3, SameNewest
  <2>2. CASE k = "none"
    BY <2>1, <2>2 DEF Newest
  <2>3. CASE k # "none"
    <3>1. k \in Keys
      BY <2>3 DEF IInv, TypeOK
    <3>2. Kind(k) = "message" /\ runs.owner[k] \in 1 .. epoch /\ runs.owner[k] # 0
      BY <2>3 DEF Newest
    <3>3. runs'.owner[k] = runs.owner[k]
      BY <2>1, <3>1, <3>2
    <3> HIDE DEF k
    <3>4. CASE Attach
      <4>1. epoch' = epoch + 1
        BY <2>1, <3>4
      <4>2. runs'.owner[k] \in 1 .. epoch' /\ runs'.owner[k] # epoch'
        BY <1>1, <3>2, <3>3, <4>1
      <4> QED
        BY <2>1, <3>2, <4>2 DEF Newest, Kind
    <3>5. CASE ~ Attach
      <4>1. epoch' = epoch /\ (Handler \/ Queueing \/ Apart)
        BY <1>3, <2>1, <3>5, Parted
      <4>2. ASSUME Live', k \notin history'.given, runs'.owner[k] = epoch
            PROVE  Kept(d', pump', runs', k)
        <5>1. epoch \notin disposed /\ ~ d'.shut
          BY <2>1, <4>1, <4>2 DEF Live
        <5>2. ~ d.shut
          BY <1>1, <3>1, <3>2, <4>1, <5>1, ShutStays
        <5>3. k \notin history.given /\ runs.owner[k] = epoch
          BY <2>1, <3>3, <4>2
        <5>4. Kept(d, pump, runs, k)
          BY <2>3, <5>1, <5>2, <5>3 DEF Newest, Live, k
        <5>5. Follow(k)
          BY <1>1, <3>1, <3>2, <5>1, <5>2, <5>3, <5>4 DEF Follow, Live, k
        <5> QED
          BY <4>1, <4>2, <5>5, NewestFollows
      <4> QED
        BY <2>1, <3>2, <3>3, <4>1, <4>2 DEF Newest, Kind, Kept, InAir, Over, Dropping, TakesBack, Log
    <3> QED
      BY <3>4, <3>5
  <2> QED
    BY <2>2, <2>3
<1> QED
  BY <1>2, <1>3

\* While its stack lives, the message claimed last is in the queue or in flight, or its end is
\* posted to the ledger, as long as the ledger says that it is not over (pumpOnce, sendNow,
\* finalizeAtSettle).
THEOREM NewestRemembered == Spec => []NewestIsNotForgotten
<1>1. Init => Newest
  BY DEF Init, Newest
<1>2. IInv /\ IInv' /\ Newest /\ [Next]_vars => Newest'
  BY NewestStays
<1>3. Newest => NewestIsNotForgotten
  BY DEF Newest, Kept, InAir, Over, Dropping, Log, Waits, Outcome, NewestIsNotForgotten
<1> QED
  BY <1>1, <1>2, <1>3, AlwaysGood, PTL DEF Spec
===============================================================================
