---------------------------- MODULE DeliveryProofs ----------------------------
(***************************************************************************)
(* Proofs about the delivery of notices, for any finite set of notices and *)
(* any setups.                                                             *)
(***************************************************************************)
EXTENDS Delivery, FiniteSetTheorems, TLAPS

-------------------------------------------------------------------------------
(* The call that runs *)

AttemptParts == [op : {"attempt"}, key : Keys, rec : Record, round : Nat]
SettleParts == [op : {"settle"}, key : Keys, rec : Record, round : Nat, ok : BOOLEAN]
SendParts == [op : {"send"}, items : SUBSET Keys, left : SUBSET Keys]
ReconcileParts == [op : {"reconcile"}, keys : SUBSET Keys, count : Nat]
Parts == AttemptParts \cup SettleParts \cup SendParts \cup ReconcileParts \cup {Exit}

\* How the parts of a call can follow each other: an attempt or a flush comes
\* first, and then at most the end of the call; a flush settles each notice once.
Ordered(s) ==
  /\ s \in Seq(Parts)
  /\ \A i, j \in 1 .. Len(s) :
       i < j => /\ \/ s[i].op = "settle"
                   \/ s[i].op \in {"attempt", "send"} /\ s[j].op \in {"reconcile", "exit"}
                /\ s[j].op \notin {"attempt", "send"}
                /\ s[i].op = "settle" /\ s[j].op = "settle" => s[i].key # s[j].key

PartsOf(s) == {s[i] : i \in 1 .. Len(s)}
Ahead == PartsOf(todo)

-------------------------------------------------------------------------------
(* The inductive invariant *)

\* What a part stands for.
PartSound(p) ==
  /\ p.op = "attempt" =>
       /\ p.rec.state = "pending"
       /\ mem[p.key] = p.rec \/ mem[p.key].state = "consumed"
       /\ \A t \in timers : t.key # p.key
  /\ p.op = "settle" =>
       /\ p.rec.state \in {"pending", "batched"}
       /\ mem[p.key] = p.rec
       /\ p.key \notin buffer
       /\ p.ok => sent[p.key] > 0
       /\ \A t \in timers : t.key # p.key
  /\ p.op = "send" =>
       /\ buffer = {}
       /\ p.left \subseteq p.items
       /\ \A k \in p.items : mem[k].state = "batched"
       /\ \A k \in p.items \ p.left : sent[k] > 0
  /\ p.op = "reconcile" =>
       \A k \in p.keys : /\ mem[k] = NoRecord
                         /\ disk[k].state \in Undelivered
                         /\ calls[k] \in {"lost", "over"}

AheadSound == \A p \in Ahead : PartSound(p)

\* A notice has one timer at most, which holds the record of the memory.
TimersSound ==
  /\ \A t \in timers : /\ t.rec.state = "pending"
                       /\ mem[t.key] = t.rec \/ mem[t.key].state = "consumed"
  /\ \A t, u \in timers : t.key = u.key => t = u

\* A notice has a part of its own ahead, is in a batch that is sent, or is left
\* for reconcile().
Busy(k) == \E p \in Ahead : p.op \in {"attempt", "settle"} /\ p.key = k
Flushed(k) == \E p \in Ahead : p.op = "send" /\ k \in p.items
Reconciled(k) == \E p \in Ahead : p.op = "reconcile" /\ k \in p.keys

\* Whatever waits in memory is waited for.
WaitsOf(k) ==
  /\ mem[k].state = "pending" => Busy(k) \/ \E t \in timers : t.key = k
  /\ mem[k].state = "batched" => k \in buffer \/ Busy(k) \/ Flushed(k)
  /\ k \in buffer => mem[k].state = "batched"
  /\ mem[k].state = "staged" => calls[k] = "held"

WaitsSound ==
  /\ buffer # {} => window
  /\ \A k \in Keys : WaitsOf(k)

\* The calls of a run and the notice it has.
CallsOf(k) ==
  /\ calls[k] = "none" => mem[k] = NoRecord /\ disk[k] = NoRecord /\ sent[k] = 0
  /\ calls[k] \in {"held", "out"} => mem[k] # NoRecord
  /\ calls[k] = "held" => /\ mem[k].state \in {"staged", "consumed"}
                          /\ disk[k].state \in {"staged", "consumed", "none"}
  /\ mem[k].state = "abandoned" \/ disk[k].state = "abandoned" =>
       calls[k] \in {"lost", "over"}

CallsSound == \A k \in Keys : CallsOf(k)

\* What is settled in the log is settled in memory.
LogOf(k) ==
  /\ disk[k].state = "delivered" => mem[k].state \in {"none", "delivered", "consumed"}
  /\ disk[k].state = "abandoned" => mem[k].state \in {"none", "abandoned"}
  /\ disk[k].state = "consumed" => k \in acked
  /\ k \in acked => /\ disk[k].state \in {"none", "consumed"}
                    /\ mem[k].state \in {"none", "consumed"}
                    /\ calls[k] # "none"
  /\ mem[k].state = "consumed" => k \in acked

LogSound == \A k \in Keys : LogOf(k)

\* The session has it and the call that runs will say so.
ToldNow(k) ==
  \E p \in Ahead : \/ p.op = "settle" /\ p.key = k /\ p.ok
                   \/ p.op = "send" /\ k \in p.items \ p.left

\* What the session has been given is settled in the log and in memory, or is
\* about to be; all the rest has an excuse.
ToldOf(k) ==
  \/ k \in excused
  \/ sent[k] = 0
  \/ /\ sent[k] = 1
     /\ \/ ToldNow(k)
        \/ /\ disk[k].state \in {"delivered", "consumed"}
           /\ mem[k].state \in {"none", "delivered", "consumed"}

ToldSound == \A k \in Keys : ToldOf(k)

Marked(rec) == rec.kind = "degraded" \/ rec.state \in {"none", "consumed", "abandoned"}

\* The notice of a run whose policy never finished is marked in memory, and in
\* the log too where it refuses nothing, or it is still staged there.
MarkOf(k) ==
  (setup.storeFails => restarts <= 1) /\ calls[k] = "lost" =>
    /\ restarts > 0
    /\ Marked(mem[k])
    /\ ~setup.storeFails => Marked(disk[k]) \/ (disk[k].state = "staged" /\ mem[k] = NoRecord)
    /\ Reconciled(k) => Marked(disk[k]) \/ disk[k].state = "staged"

MarkSound == \A k \in Keys : MarkOf(k)

IInv ==
  /\ TypeOK /\ Ordered(todo)
  /\ AheadSound /\ TimersSound /\ WaitsSound /\ CallsSound /\ LogSound /\ ToldSound
  /\ MarkSound

-------------------------------------------------------------------------------
(* Lemmas about the call that runs *)

\* A part is of one kind.
LEMMA PartKinds ==
  ASSUME NEW p \in Parts
  PROVE  /\ p.op \in {"attempt", "settle", "send", "reconcile", "exit"}
         /\ p.op = "attempt" => p \in AttemptParts
         /\ p.op = "settle" => p \in SettleParts
         /\ p.op = "send" => p \in SendParts
         /\ p.op = "reconcile" => p \in ReconcileParts
         /\ p.op \in {"attempt", "settle"} => p.key \in Keys /\ p.rec \in Record /\ p.round \in Nat
         /\ p.op = "send" => p.items \subseteq Keys /\ p.left \subseteq Keys
         /\ p.op = "reconcile" => p.keys \subseteq Keys /\ p.count \in Nat
BY SMT DEF Parts, AttemptParts, SettleParts, SendParts, ReconcileParts, Exit

\* The first part and what follows it.
LEMMA HeadAndTail ==
  ASSUME NEW s, Ordered(s), s # <<>>
  PROVE  /\ Head(s) \in Parts
         /\ Ordered(Tail(s))
         /\ PartsOf(s) = {Head(s)} \cup PartsOf(Tail(s))
         /\ \A p \in PartsOf(Tail(s)) :
              /\ p \in Parts
              /\ p.op \notin {"attempt", "send"}
              /\ Head(s).op \in {"attempt", "send"} => p.op \in {"reconcile", "exit"}
              /\ Head(s).op = "settle" /\ p.op = "settle" => p.key # Head(s).key
         /\ Head(s).op \in {"reconcile", "exit"} => Tail(s) = <<>>
<1> DEFINE t == Tail(s)
<1>1. /\ s \in Seq(Parts) /\ Len(s) \in Nat /\ Len(s) > 0
      /\ Head(s) = s[1] /\ s[1] \in Parts
      /\ t \in Seq(Parts) /\ Len(t) = Len(s) - 1
      /\ \A i \in 1 .. Len(t) : t[i] = s[i + 1] /\ i + 1 \in 1 .. Len(s)
  BY SMT DEF Ordered
<1>2. Ordered(t)
  BY <1>1, SMT DEF Ordered
<1>3. \A i \in 1 .. Len(s) : i = 1 \/ (i - 1 \in 1 .. Len(t) /\ s[i] = t[i - 1])
  BY <1>1, SMT
<1>4. PartsOf(s) = {Head(s)} \cup PartsOf(t)
  BY <1>1, <1>3, SMT DEF PartsOf
<1>5. ASSUME NEW p \in PartsOf(t)
      PROVE  /\ p \in Parts
             /\ p.op \notin {"attempt", "send"}
             /\ Head(s).op \in {"attempt", "send"} => p.op \in {"reconcile", "exit"}
             /\ Head(s).op = "settle" /\ p.op = "settle" => p.key # Head(s).key
  <2>1. PICK i \in 1 .. Len(t) : p = t[i]
    BY DEF PartsOf
  <2>2. p = s[i + 1] /\ i + 1 \in 1 .. Len(s) /\ 1 \in 1 .. Len(s) /\ 1 < i + 1
    BY <1>1, <2>1, SMT
  <2> QED
    BY <1>1, <2>1, <2>2, SMT DEF Ordered
<1>6. ASSUME Head(s).op \in {"reconcile", "exit"} PROVE t = <<>>
  <2>1. CASE Len(s) > 1
    BY <1>1, <1>6, <2>1, SMT DEF Ordered
  <2>2. CASE Len(s) = 1
    BY <1>1, <2>2, SMT
  <2> QED
    BY <1>1, <2>1, <2>2, SMT
<1> QED
  BY <1>1, <1>2, <1>4, <1>5, <1>6

\* A call with one part, with none, and with an end behind its first part.
LEMMA ShortCalls ==
  /\ Ordered(<<>>) /\ PartsOf(<<>>) = {}
  /\ \A p \in Parts : Ordered(<<p>>) /\ PartsOf(<<p>>) = {p}
  /\ \A p, q \in Parts :
       p.op \in {"attempt", "send"} /\ q.op \in {"reconcile", "exit"}
         => Ordered(<<p, q>>) /\ PartsOf(<<p, q>>) = {p, q}
<1>1. Ordered(<<>>) /\ PartsOf(<<>>) = {}
  BY SMT DEF Ordered, PartsOf
<1>2. ASSUME NEW p \in Parts PROVE Ordered(<<p>>) /\ PartsOf(<<p>>) = {p}
  BY SMT DEF Ordered, PartsOf
<1>3. ASSUME NEW p \in Parts, NEW q \in Parts,
             p.op \in {"attempt", "send"}, q.op \in {"reconcile", "exit"}
      PROVE  Ordered(<<p, q>>) /\ PartsOf(<<p, q>>) = {p, q}
  <2>1. /\ <<p, q>> \in Seq(Parts) /\ Len(<<p, q>>) = 2
        /\ <<p, q>>[1] = p /\ <<p, q>>[2] = q
    BY SMT
  <2>2. Ordered(<<p, q>>)
    BY <1>3, <2>1, SMT DEF Ordered
  <2>3. PartsOf(<<p, q>>) = {p, q}
    BY <2>1, SMT DEF PartsOf
  <2> QED
    BY <2>2, <2>3
<1> QED
  BY <1>1, <1>2, <1>3

\* The settling of a batch in front of the end of a call.
SettlesOnce(s) ==
  /\ s \in Seq(SettleParts)
  /\ \A i, j \in 1 .. Len(s) : s[i].key = s[j].key => i = j

LEMMA SettlesFirst ==
  ASSUME NEW s, Ordered(s), s # <<>>, Head(s).op \in {"attempt", "send"},
         NEW r, SettlesOnce(r)
  PROVE  /\ Ordered(r \o Tail(s))
         /\ PartsOf(r \o Tail(s)) = PartsOf(r) \cup PartsOf(Tail(s))
<1> DEFINE t == Tail(s)
           u == r \o t
<1>1. /\ r \in Seq(Parts) /\ t \in Seq(Parts) /\ Len(r) \in Nat /\ Len(t) \in Nat
      /\ \A i \in 1 .. Len(r) : r[i].op = "settle"
  <2>1. Ordered(t)
    BY HeadAndTail
  <2>2. SettleParts \subseteq Parts
    BY DEF Parts
  <2>3. r \in Seq(SettleParts) /\ Len(r) \in Nat /\ \A i \in 1 .. Len(r) : r[i] \in SettleParts
    BY SMT DEF SettlesOnce
  <2>4. r \in Seq(Parts)
    BY <2>2, <2>3, SMT
  <2>5. \A i \in 1 .. Len(r) : r[i].op = "settle"
    BY <2>3, SMT DEF SettleParts
  <2> QED
    BY <2>1, <2>3, <2>4, <2>5, SMT DEF Ordered
<1>2. /\ u \in Seq(Parts) /\ Len(u) = Len(r) + Len(t)
      /\ \A i \in 1 .. Len(r) : u[i] = r[i]
      /\ \A i \in 1 .. Len(t) : u[i + Len(r)] = t[i]
      /\ \A i \in 1 .. Len(u) : i \in 1 .. Len(r)
                              \/ (i - Len(r) \in 1 .. Len(t) /\ u[i] = t[i - Len(r)])
  BY <1>1, SMT
<1>3. \A i \in 1 .. Len(t) : t[i].op \in {"reconcile", "exit"}
  BY HeadAndTail DEF PartsOf
<1>4. Ordered(u)
  <2> SUFFICES ASSUME NEW i \in 1 .. Len(u), NEW j \in 1 .. Len(u), i < j
               PROVE  /\ \/ u[i].op = "settle"
                         \/ u[i].op \in {"attempt", "send"} /\ u[j].op \in {"reconcile", "exit"}
                      /\ u[j].op \notin {"attempt", "send"}
                      /\ u[i].op = "settle" /\ u[j].op = "settle" => u[i].key # u[j].key
    BY <1>2 DEF Ordered
  <2>1. CASE j \in 1 .. Len(r)
    BY <1>1, <1>2, <2>1, SMT DEF SettlesOnce
  <2>2. CASE i \in 1 .. Len(r) /\ j \notin 1 .. Len(r)
    <3>1. u[i].op = "settle"
      BY <1>1, <1>2, <2>2
    <3>2. u[j].op \in {"reconcile", "exit"}
      BY <1>2, <1>3, <2>2
    <3> QED
      BY <3>1, <3>2
  <2>3. CASE i \notin 1 .. Len(r) /\ j \notin 1 .. Len(r)
    <3>1. Ordered(t)
      BY HeadAndTail
    <3> DEFINE a == i - Len(r)
                b == j - Len(r)
    <3>2. a \in 1 .. Len(t) /\ b \in 1 .. Len(t) /\ a < b /\ u[i] = t[a] /\ u[j] = t[b]
      BY <1>1, <1>2, <2>3, SMT
    <3> QED
      BY <3>1, <3>2, SMT DEF Ordered
  <2> QED
    BY <1>1, <1>2, <2>1, <2>2, <2>3, SMT
<1>5. PartsOf(u) = PartsOf(r) \cup PartsOf(t)
  <2>1. ASSUME NEW p \in PartsOf(u) PROVE p \in PartsOf(r) \cup PartsOf(t)
    <3>1. PICK i \in 1 .. Len(u) : p = u[i]
      BY DEF PartsOf
    <3>2. CASE i \in 1 .. Len(r)
      BY <1>2, <3>1, <3>2 DEF PartsOf
    <3>3. CASE i - Len(r) \in 1 .. Len(t) /\ u[i] = t[i - Len(r)]
      BY <3>1, <3>3 DEF PartsOf
    <3> QED
      BY <1>2, <3>2, <3>3
  <2>2. ASSUME NEW p \in PartsOf(r) PROVE p \in PartsOf(u)
    BY <1>1, <1>2, SMT DEF PartsOf
  <2>3. ASSUME NEW p \in PartsOf(t) PROVE p \in PartsOf(u)
    <3>1. PICK i \in 1 .. Len(t) : p = t[i]
      BY DEF PartsOf
    <3>2. i + Len(r) \in 1 .. Len(u) /\ u[i + Len(r)] = p
      BY <1>1, <1>2, <3>1, SMT
    <3> QED
      BY <3>2 DEF PartsOf
  <2> QED
    BY <2>1, <2>2, <2>3
<1> QED
  BY <1>4, <1>5

\* A flush in front of the end of a call.
LEMMA SendFirst ==
  ASSUME NEW s, Ordered(s), s # <<>>, Head(s).op \in {"attempt", "send"},
         NEW p \in SendParts
  PROVE  /\ Ordered(<<p>> \o Tail(s))
         /\ PartsOf(<<p>> \o Tail(s)) = {p} \cup PartsOf(Tail(s))
<1> DEFINE t == Tail(s)
           u == <<p>> \o t
<1>1. /\ p \in Parts /\ p.op = "send" /\ t \in Seq(Parts) /\ Len(t) \in Nat /\ Ordered(t)
      /\ \A i \in 1 .. Len(t) : t[i].op \in {"reconcile", "exit"}
  BY HeadAndTail DEF Ordered, SendParts, Parts, PartsOf
<1> HIDE DEF t
<1>2. /\ u \in Seq(Parts) /\ Len(u) = Len(t) + 1
      /\ u[1] = p
      /\ \A i \in 1 .. Len(u) : i # 1 => i - 1 \in 1 .. Len(t) /\ u[i] = t[i - 1]
      /\ \A i \in 1 .. Len(t) : i + 1 \in 1 .. Len(u) /\ u[i + 1] = t[i]
  BY <1>1, SMT
<1>3. Ordered(u)
  <2> SUFFICES ASSUME NEW i \in 1 .. Len(u), NEW j \in 1 .. Len(u), i < j
               PROVE  /\ \/ u[i].op = "settle"
                         \/ u[i].op \in {"attempt", "send"} /\ u[j].op \in {"reconcile", "exit"}
                      /\ u[j].op \notin {"attempt", "send"}
                      /\ u[i].op = "settle" /\ u[j].op = "settle" => u[i].key # u[j].key
    BY <1>2 DEF Ordered
  <2> DEFINE a == i - 1
             b == j - 1
  <2>1. b \in 1 .. Len(t) /\ u[j] = t[b]
    BY <1>1, <1>2, SMT
  <2>2. CASE i = 1
    BY <1>1, <1>2, <2>1, <2>2, SMT
  <2>3. CASE i # 1
    <3>1. a \in 1 .. Len(t) /\ a < b /\ u[i] = t[a]
      BY <1>1, <1>2, <2>3, SMT
    <3> QED
      BY <1>1, <2>1, <3>1 DEF Ordered
  <2> QED
    BY <2>2, <2>3
<1>4. PartsOf(u) = {p} \cup PartsOf(t)
  <2>1. ASSUME NEW q \in PartsOf(u) PROVE q \in {p} \cup PartsOf(t)
    <3>1. PICK i \in 1 .. Len(u) : q = u[i]
      BY DEF PartsOf
    <3>2. i # 1 => i - 1 \in 1 .. Len(t) /\ q = t[i - 1]
      BY <1>2, <3>1
    <3> QED
      BY <1>2, <3>1, <3>2 DEF PartsOf
  <2>2. ASSUME NEW q \in PartsOf(t) PROVE q \in PartsOf(u)
    BY <1>2 DEF PartsOf
  <2>3. 1 \in 1 .. Len(u)
    BY <1>1, <1>2, SMT
  <2>4. p \in PartsOf(u)
    BY <1>2, <2>3 DEF PartsOf
  <2> QED
    BY <2>1, <2>2, <2>4
<1> QED
  BY <1>3, <1>4 DEF t

\* A finite set in some order: every element once.
LEMMA InOrder ==
  ASSUME NEW S, IsFiniteSet(S)
  PROVE  /\ SetToSeq(S) \in Seq(S)
         /\ \A i, j \in 1 .. Len(SetToSeq(S)) : SetToSeq(S)[i] = SetToSeq(S)[j] => i = j
         /\ S = {SetToSeq(S)[i] : i \in 1 .. Len(SetToSeq(S))}
<1> DEFINE n == Cardinality(S)
           q == SetToSeq(S)
<1>1. n \in Nat /\ ExistsBijection(1 .. n, S)
  BY FS_CardinalityType
<1>2. \E f \in [1 .. n -> S] : IsInjective(f)
  <2>1. PICK f : f \in Bijection(1 .. n, S)
    BY <1>1 DEF ExistsBijection
  <2>2. f \in [1 .. n -> S] /\ \A a, b \in 1 .. n : f[a] = f[b] => a = b
    BY <2>1 DEF Bijection, Injection, IsInjective
  <2>3. IsInjective(f)
    BY <2>2 DEF IsInjective
  <2> QED
    BY <2>2, <2>3
<1>3. q \in [1 .. n -> S] /\ IsInjective(q)
  BY <1>2 DEF SetToSeq
<1>4. q \in Seq(S) /\ Len(q) = n
  BY <1>1, <1>3, SMT
<1>5. \A i, j \in 1 .. Len(q) : q[i] = q[j] => i = j
  BY <1>3, <1>4 DEF IsInjective
<1> DEFINE R == {q[i] : i \in 1 .. n}
<1>6. R \subseteq S
  BY <1>3
<1>7. q \in Bijection(1 .. n, R)
  BY <1>3, <1>4, <1>5 DEF Bijection, Injection, Surjection, IsInjective
<1>8. IsFiniteSet(1 .. n) /\ Cardinality(1 .. n) = n
  BY <1>1, FS_Interval, SMT
<1>9. Cardinality(R) = n
  BY <1>7, <1>8, FS_Bijection DEF ExistsBijection
<1>10. R = S
  BY <1>6, <1>9, FS_Subset
<1> QED
  BY <1>4, <1>5, <1>10

\* A record of the memory is whole or none at all.
LEMMA RecordOrNone ==
  /\ NoRecord.state = "none"
  /\ \A r \in Record : r.state \in State /\ r.state # "none"
  /\ \A r \in Record \cup {NoRecord} : r \in Record <=> r.state # "none"
  /\ \A r \in Record \cup {NoRecord} : r = NoRecord <=> r.state = "none"
BY SMT DEF Record, NoRecord, State

\* A record of this state and kind.
Has(rec, st, kind) == rec \in Record /\ rec.state = st /\ rec.kind = kind

\* What the patches of the code make of a record.
LEMMA Patched ==
  ASSUME NEW r \in Record
  PROVE  /\ \A st \in State :
              Has([r EXCEPT !.state = st], st, r.kind)
         /\ \A st \in State, n \in Nat :
              Has([r EXCEPT !.state = st, !.round = n], st, r.kind)
         /\ \A st \in State, a \in Nat, n \in Nat :
              Has([r EXCEPT !.state = st, !.attempts = a, !.round = n], st, r.kind)
         /\ \A st \in State, d \in Kind, n \in Nat :
              Has([r EXCEPT !.state = st, !.kind = d, !.round = n], st, d)
         /\ \A d \in Kind :
              Has([r EXCEPT !.kind = d], r.state, d)
         /\ \A d \in Kind, st \in State :
              Has([r EXCEPT !.kind = d, !.state = st], st, d)
<1>1. /\ \A q \in Record, s \in State : [q EXCEPT !.state = s] \in Record
      /\ \A q \in Record, m \in Nat : [q EXCEPT !.attempts = m] \in Record
      /\ \A q \in Record, m \in Nat : [q EXCEPT !.round = m] \in Record
      /\ \A q \in Record, c \in Kind : [q EXCEPT !.kind = c] \in Record
  BY SMT DEF Record
<1>2. ASSUME NEW st \in State, NEW a \in Nat, NEW n \in Nat, NEW d \in Kind
      PROVE  /\ Has([r EXCEPT !.state = st], st, r.kind)
             /\ Has([r EXCEPT !.state = st, !.round = n], st, r.kind)
             /\ Has([r EXCEPT !.state = st, !.attempts = a, !.round = n], st, r.kind)
             /\ Has([r EXCEPT !.state = st, !.kind = d, !.round = n], st, d)
             /\ Has([r EXCEPT !.kind = d], r.state, d)
             /\ Has([r EXCEPT !.kind = d, !.state = st], st, d)
  <2> DEFINE q1 == [r EXCEPT !.state = st]
             q2 == [q1 EXCEPT !.round = n]
             q3 == [q1 EXCEPT !.attempts = a]
             q4 == [q3 EXCEPT !.round = n]
             q5 == [q1 EXCEPT !.kind = d]
             q6 == [q5 EXCEPT !.round = n]
             q7 == [r EXCEPT !.kind = d]
             q8 == [q7 EXCEPT !.state = st]
  <2>1. /\ q2 = [r EXCEPT !.state = st, !.round = n]
        /\ q4 = [r EXCEPT !.state = st, !.attempts = a, !.round = n]
        /\ q6 = [r EXCEPT !.state = st, !.kind = d, !.round = n]
        /\ q8 = [r EXCEPT !.kind = d, !.state = st]
    OBVIOUS
  <2>2. /\ q1.state = st /\ q1.kind = r.kind /\ q2.state = st /\ q2.kind = r.kind
        /\ q4.state = st /\ q4.kind = r.kind /\ q6.state = st /\ q6.kind = d
        /\ q7.state = r.state /\ q7.kind = d /\ q8.state = st /\ q8.kind = d
    BY SMT DEF Record
  <2> HIDE DEF q1, q2, q3, q4, q5, q6, q7, q8
  <2>3. q1 \in Record /\ q7 \in Record
    BY <1>1 DEF q1, q7
  <2>4. q2 \in Record /\ q3 \in Record /\ q5 \in Record /\ q8 \in Record
    BY <1>1, <2>3 DEF q2, q3, q5, q8
  <2>5. q4 \in Record /\ q6 \in Record
    BY <1>1, <2>4 DEF q4, q6
  <2> QED
    BY <2>1, <2>2, <2>3, <2>4, <2>5 DEF q1, q7, Has
<1>3. 0 \in Nat /\ "failed" \in Kind /\ "pending" \in State
  BY SMT DEF Kind, State
<1> QED
  BY <1>2, <1>3

\* What a flush leaves behind for the items it has taken.
LEMMA SettledBatch ==
  ASSUME NEW items \in SUBSET Keys, NEW ok \in BOOLEAN,
         \A k \in items : mem[k] \in Record
  PROVE  /\ SettlesOnce(Settled(items, ok))
         /\ PartsOf(Settled(items, ok)) = {Settle(k, mem[k], mem[k].round, ok) : k \in items}
<1> DEFINE q == SetToSeq(items)
           r == Settled(items, ok)
<1>1. IsFiniteSet(items)
  BY DeliveryAssumption, FS_Subset
<1>2. /\ q \in Seq(items) /\ Len(q) \in Nat
      /\ \A i, j \in 1 .. Len(q) : q[i] = q[j] => i = j
      /\ items = {q[i] : i \in 1 .. Len(q)}
  <2> HIDE DEF q
  <2>1. q \in Seq(items) => Len(q) \in Nat
    BY SMT
  <2> QED
    BY <1>1, <2>1, InOrder DEF q
<1>3. \A k \in items : Known(k) = mem[k]
  BY RecordOrNone DEF Known
<1>4. /\ r = [i \in 1 .. Len(q) |-> Settle(q[i], Known(q[i]), Known(q[i]).round, ok)]
      /\ \A i \in 1 .. Len(q) : q[i] \in items
  BY <1>2 DEF Settled
<1> HIDE DEF q, r
<1>5. \A i \in 1 .. Len(q) : r[i] = Settle(q[i], mem[q[i]], mem[q[i]].round, ok)
  BY <1>3, <1>4
<1>6. \A k \in items : Settle(k, mem[k], mem[k].round, ok) \in SettleParts
  BY SMT DEF Settle, SettleParts, Record
<1>7. r \in [1 .. Len(q) -> SettleParts]
  BY <1>3, <1>4, <1>6
<1>8. r \in Seq(SettleParts) /\ Len(r) = Len(q)
  BY <1>2, <1>7, SMT
<1>9. ASSUME NEW i \in 1 .. Len(q) PROVE r[i].key = q[i]
  <2>1. r[i] = Settle(q[i], mem[q[i]], mem[q[i]].round, ok)
    BY <1>5
  <2> QED
    BY <2>1, SMT DEF Settle
<1>10. SettlesOnce(r)
  BY <1>2, <1>8, <1>9 DEF SettlesOnce
<1>11. PartsOf(r) = {Settle(k, mem[k], mem[k].round, ok) : k \in items}
  <2>1. PartsOf(r) = {Settle(q[i], mem[q[i]], mem[q[i]].round, ok) : i \in 1 .. Len(q)}
    BY <1>5, <1>8 DEF PartsOf
  <2> QED
    BY <1>2, <2>1
<1> QED
  BY <1>10, <1>11 DEF r

-------------------------------------------------------------------------------
(* The parts of a call preserve the invariant *)

\* The part that is next, and those behind it.
LEMMA NextPart ==
  ASSUME TypeOK, Ordered(todo), ~Idle
  PROVE  /\ Head(todo) \in Parts /\ Head(todo) \in Ahead
         /\ Ordered(Tail(todo))
         /\ Ahead = {Head(todo)} \cup PartsOf(Tail(todo))
         /\ \A p \in PartsOf(Tail(todo)) :
              /\ p \in Parts
              /\ p.op = "settle" => p.key \in Keys
              /\ p.op = "reconcile" => p.keys \subseteq Keys
              /\ p.op \notin {"attempt", "send"}
              /\ Head(todo).op \in {"attempt", "send"} => p.op \in {"reconcile", "exit"}
              /\ Head(todo).op = "settle" /\ p.op = "settle" => p.key # Head(todo).key
         /\ Head(todo).op \in {"reconcile", "exit"} => Tail(todo) = <<>>
BY HeadAndTail, PartKinds DEF Idle, Ahead

LEMMA AttemptConsumedKeeps ==
  ASSUME IInv, AttemptConsumed PROVE IInv'
<1> USE DEF IInv, AttemptConsumed
<1> DEFINE h == Head(todo)
           rest == PartsOf(Tail(todo))
<1>1. /\ h \in Ahead /\ h \in AttemptParts /\ h.op = "attempt" /\ Ordered(todo')
      /\ Ahead' = rest /\ Ahead = {h} \cup rest
      /\ \A p \in rest : p.op \in {"reconcile", "exit"}
  BY NextPart, PartKinds DEF Ahead
<1> HIDE DEF h, rest
<1>2. TypeOK'
  BY DEF TypeOK
<1>3. AheadSound'
  BY <1>1 DEF AheadSound, PartSound
<1>4. TimersSound'
  BY DEF TimersSound
<1>5. WaitsSound'
  BY <1>1, SMT DEF WaitsSound, WaitsOf, Flushed, Busy, AheadSound, PartSound, h, AttemptParts
<1>6. CallsSound' /\ LogSound'
  BY DEF CallsSound, CallsOf, LogSound, LogOf
<1>7. ToldSound'
  BY <1>1 DEF ToldSound, ToldOf, ToldNow
<1>8. MarkSound'
  BY <1>1 DEF MarkSound, MarkOf, Reconciled, Marked
<1> QED
  BY <1>1, <1>2, <1>3, <1>4, <1>5, <1>6, <1>7, <1>8

LEMMA AttemptSentKeeps ==
  ASSUME IInv, AttemptSent PROVE IInv'
<1> USE DEF IInv
<1> DEFINE h == Head(todo)
           k == h.key
           rest == PartsOf(Tail(todo))
<1>1. /\ h \in Ahead /\ h \in AttemptParts /\ h.op = "attempt" /\ Ahead = {h} \cup rest
      /\ \A p \in rest : p.op \in {"reconcile", "exit"}
  BY NextPart, PartKinds DEF Ahead, AttemptSent
<1>2. PICK ok \in BOOLEAN :
        /\ sent' = IF ok THEN [sent EXCEPT ![k] = @ + 1] ELSE sent
        /\ todo' = <<Settle(k, h.rec, h.round, ok)>> \o Tail(todo)
  BY DEF AttemptSent
<1> DEFINE n == Settle(k, h.rec, h.round, ok)
<1>3. /\ k \in Keys /\ h.rec \in Record /\ h.round \in Nat
      /\ n \in SettleParts /\ n.op = "settle" /\ n.key = k /\ n.rec = h.rec /\ n.ok = ok
  BY <1>1, SMT DEF AttemptParts, SettleParts, Settle
<1>4. SettlesOnce(<<n>>) /\ PartsOf(<<n>>) = {n}
  BY <1>3, SMT DEF SettlesOnce, PartsOf
<1>5. Ordered(todo') /\ Ahead' = {n} \cup rest
  BY <1>1, <1>2, <1>4, SettlesFirst DEF Ahead, AttemptSent, Idle
<1>6. mem[k] = h.rec /\ h.rec.state = "pending" /\ \A t \in timers : t.key # k
  BY <1>1, <1>3 DEF AheadSound, PartSound, AttemptSent
<1>7. UNCHANGED <<setup, mem, disk, buffer, window, timers, calls, old, restarts, acked,
                  excused>>
  BY DEF AttemptSent
<1>8. /\ sent' \in [Keys -> Nat]
      /\ ok => sent'[k] = sent[k] + 1
      /\ ~ok => sent'[k] = sent[k]
      /\ \A q \in Keys \ {k} : sent'[q] = sent[q]
  BY <1>2, <1>3 DEF TypeOK
<1> HIDE DEF h, k, rest, n
<1>9. TypeOK'
  BY <1>7, <1>8 DEF TypeOK
<1>10. AheadSound'
  <2>1. \A p \in rest : PartSound(p)'
    BY <1>1, <1>7 DEF AheadSound, PartSound
  <2>2. ASSUME NEW p, p = n PROVE PartSound(p)'
    BY <1>3, <1>6, <1>7, <1>8, <2>2, SMT DEF PartSound, WaitsSound, WaitsOf, Flushed, TypeOK
  <2> QED
    BY <1>5, <2>1, <2>2 DEF AheadSound
<1>11. TimersSound'
  BY <1>7 DEF TimersSound
<1>12. WaitsSound'
  BY <1>1, <1>3, <1>5, <1>6, <1>7, SMT DEF WaitsSound, WaitsOf, Flushed, Busy, k
<1>13. CallsSound' /\ LogSound'
  BY <1>3, <1>6, <1>7, <1>8, RecordOrNone, SMT DEF CallsSound, CallsOf, LogSound, LogOf
<1>14. ToldSound'
  BY <1>1, <1>3, <1>5, <1>6, <1>7, <1>8, SMT DEF ToldSound, ToldOf, ToldNow
<1>15. MarkSound'
  BY <1>1, <1>3, <1>5, <1>7, SMT DEF MarkSound, MarkOf, Reconciled, Marked
<1> QED
  BY <1>5, <1>9, <1>10, <1>11, <1>12, <1>13, <1>14, <1>15

LEMMA AttemptBufferedKeeps ==
  ASSUME IInv, AttemptBuffered PROVE IInv'
<1> USE DEF IInv
<1> DEFINE h == Head(todo)
           k == h.key
           rest == PartsOf(Tail(todo))
           next == [h.rec EXCEPT !.state = "batched", !.round = h.round]
           noted == [disk[k] EXCEPT !.state = "batched", !.round = h.round]
           items == buffer \cup {k}
           full == Cardinality(items) >= setup.maxBuffer
           n == Send(items, items)
<1>1. /\ h \in Ahead /\ h \in AttemptParts /\ h.op = "attempt" /\ Ahead = {h} \cup rest
      /\ \A p \in rest : p.op \in {"reconcile", "exit"}
      /\ Ordered(Tail(todo))
  BY NextPart, PartKinds DEF Ahead, AttemptBuffered
<1>2. k \in Keys /\ h.rec \in Record /\ h.round \in Nat
  BY <1>1, SMT DEF AttemptParts
<1>3. mem[k] = h.rec /\ h.rec.state = "pending" /\ \A t \in timers : t.key # k
  BY <1>1, <1>2 DEF AheadSound, PartSound, AttemptBuffered
<1>4. next \in Record /\ next.state = "batched" /\ next.kind = h.rec.kind
  <2>1. "batched" \in State
    BY DEF State
  <2>2. Has(next, "batched", h.rec.kind)
    BY <1>2, <2>1, Patched
  <2> QED
    BY <2>2 DEF Has
<1>5. /\ mem' = [mem EXCEPT ![k] = next]
      /\ disk' = disk \/ (disk[k] # NoRecord /\ disk' = [disk EXCEPT ![k] = noted])
  BY <1>3, SMT DEF AttemptBuffered, Remember, Update
<1>6. /\ mem' \in [Keys -> Record \cup {NoRecord}]
      /\ mem'[k] = next
      /\ \A q \in Keys \ {k} : mem'[q] = mem[q]
  BY <1>2, <1>4, <1>5 DEF TypeOK
<1>7. /\ disk' \in [Keys -> Record \cup {NoRecord}]
      /\ \A q \in Keys \ {k} : disk'[q] = disk[q]
      /\ \/ disk'[k] = disk[k]
         \/ disk[k] # NoRecord /\ disk'[k].state = "batched" /\ disk'[k].kind = disk[k].kind
  <2>1. disk[k] # NoRecord => noted \in Record /\ noted.state = "batched" /\ noted.kind = disk[k].kind
    <3>1. "batched" \in State
      BY DEF State
    <3>2. disk[k] # NoRecord => disk[k] \in Record
      BY <1>2 DEF TypeOK
    <3>3. disk[k] # NoRecord => Has(noted, "batched", disk[k].kind)
      BY <1>2, <3>1, <3>2, Patched
    <3> QED
      BY <3>3 DEF Has
  <2> QED
    BY <1>2, <1>5, <2>1 DEF TypeOK
<1>8. /\ buffer' = IF full THEN {} ELSE items
      /\ window' = ~full
      /\ todo' = IF full THEN <<n>> \o Tail(todo) ELSE Tail(todo)
      /\ UNCHANGED <<setup, timers, calls, old, restarts, sent, acked, excused>>
  BY DEF AttemptBuffered
<1>9. n \in SendParts /\ n.op = "send" /\ n.items = items /\ n.left = items
  BY <1>2, SMT DEF SendParts, Send, TypeOK
<1>10. Ordered(todo') /\ Ahead' = IF full THEN {n} \cup rest ELSE rest
  <2>1. todo # <<>> /\ h.op \in {"attempt", "send"}
    BY <1>1 DEF AttemptBuffered, Idle
  <2>2. Ordered(<<n>> \o Tail(todo)) /\ PartsOf(<<n>> \o Tail(todo)) = {n} \cup rest
    BY <1>9, <2>1, SendFirst
  <2> HIDE DEF n, rest, full
  <2> QED
    BY <1>1, <1>8, <2>2 DEF Ahead, rest
<1>11. buffer \subseteq Keys /\ k \notin buffer /\ \A q \in buffer : mem[q].state = "batched"
  BY <1>2, <1>3 DEF WaitsSound, WaitsOf, Flushed, TypeOK
<1> HIDE DEF h, k, rest, next, noted, full, n
<1>12. TypeOK'
  BY <1>2, <1>6, <1>7, <1>8 DEF TypeOK
<1>13. AheadSound'
  <2>1. ASSUME NEW p \in rest PROVE PartSound(p)'
    <3>1. p.op \in {"reconcile", "exit"} /\ PartSound(p)
      BY <1>1 DEF AheadSound
    <3>2. ASSUME p.op = "reconcile", NEW q \in p.keys
          PROVE  mem'[q] = mem[q] /\ disk'[q] = disk[q] /\ calls'[q] = calls[q]
      <4>1. q \in Keys
        BY <3>2, NextPart DEF rest, AttemptBuffered
      <4>2. mem[q] = NoRecord
        BY <3>1, <3>2 DEF PartSound
      <4> QED
        BY <1>2, <1>3, <1>6, <1>7, <1>8, <4>1, <4>2, RecordOrNone
    <3> QED
      BY <3>1, <3>2 DEF PartSound
  <2>2. full => buffer' = {} /\ \A q \in items : mem'[q].state = "batched"
    BY <1>2, <1>4, <1>6, <1>8, <1>11
  <2>3. ASSUME full, NEW p, p = n PROVE PartSound(p)'
    BY <1>9, <2>2, <2>3, SMT DEF PartSound
  <2> QED
    BY <1>10, <2>1, <2>3 DEF AheadSound
<1>14. TimersSound'
  BY <1>3, <1>6, <1>8, SMT DEF TimersSound, TypeOK, Timer
<1>15. WaitsSound'
  <2>1. CASE full
    BY <1>1, <1>2, <1>3, <1>4, <1>6, <1>8, <1>9, <1>10, <1>11, <2>1, SMT
    DEF WaitsSound, WaitsOf, Flushed, Busy, k
  <2>2. CASE ~full
    <3>1. \A q \in Keys \ {k} : Busy(q) <=> Busy(q)'
      BY <1>1, <1>10, <2>2 DEF Busy, k
    <3>2. \A q \in Keys \ {k}, p \in Ahead : p.op = "send" => p \in Ahead'
      BY <1>1, <1>10, <2>2
    <3>3. ASSUME NEW q \in Keys \ {k}
          PROVE  mem'[q] = mem[q] /\ calls'[q] = calls[q] /\ (q \in buffer' <=> q \in buffer)
      BY <1>6, <1>8, <2>2
    <3>4. k \in buffer' /\ window' /\ mem'[k].state = "batched"
      BY <1>4, <1>6, <1>8, <2>2
    <3> QED
      BY <1>8, <3>1, <3>2, <3>3, <3>4, SMT DEF WaitsSound, WaitsOf, Flushed
  <2> QED
    BY <2>1, <2>2
<1>16. CallsSound' /\ LogSound'
  BY <1>2, <1>3, <1>4, <1>6, <1>7, <1>8, RecordOrNone, SMT DEF CallsSound, CallsOf, LogSound, LogOf
<1>17. ToldSound'
  BY <1>1, <1>2, <1>3, <1>4, <1>6, <1>7, <1>8, <1>9, <1>10, SMT DEF ToldSound, ToldOf, ToldNow
<1>18. MarkSound'
  <2>1. \A p \in Ahead' : p.op = "reconcile" => p \in Ahead
    BY <1>1, <1>9, <1>10
  <2>2. ~Marked(mem[k])
    BY <1>3 DEF Marked, AttemptBuffered, Bufferable, h, k
  <2> QED
    BY <1>2, <1>6, <1>7, <1>8, <2>1, <2>2, SMT DEF MarkSound, MarkOf, Reconciled
<1> QED
  BY <1>10, <1>12, <1>13, <1>14, <1>15, <1>16, <1>17, <1>18

LEMMA FlushSendKeeps ==
  ASSUME IInv, FlushSend PROVE IInv'
<1> USE DEF IInv
<1> DEFINE h == Head(todo)
           rest == PartsOf(Tail(todo))
           items == h.items
           left == h.left
           now(part) == [k \in Keys |-> IF k \in part THEN sent[k] + 1 ELSE sent[k]]
           out(ok) == {Settle(k, mem[k], mem[k].round, ok) : k \in items}
<1>1. /\ h \in Ahead /\ h.op = "send" /\ Ahead = {h} \cup rest
      /\ \A p \in rest : p.op \in {"reconcile", "exit"}
      /\ items \subseteq Keys /\ left \subseteq Keys
      /\ todo # <<>>
  BY NextPart, PartKinds DEF Ahead, FlushSend, Idle
<1>2. /\ buffer = {} /\ left \subseteq items
      /\ \A k \in items : mem[k].state = "batched"
      /\ \A k \in items \ left : sent[k] > 0
  BY <1>1 DEF AheadSound, PartSound
<1>3. UNCHANGED <<setup, mem, disk, buffer, window, timers, calls, old, restarts, acked>>
  BY DEF FlushSend
<1>4. \A k \in items : mem[k] \in Record
  BY <1>1, <1>2, RecordOrNone DEF TypeOK
<1>5. ASSUME NEW ok \in BOOLEAN, todo' = Settled(items, ok) \o Tail(todo)
      PROVE  Ordered(todo') /\ Ahead' = out(ok) \cup rest
  <2>1. SettlesOnce(Settled(items, ok)) /\ PartsOf(Settled(items, ok)) = out(ok)
    BY <1>1, <1>4, SettledBatch
  <2>2. Ordered(Settled(items, ok) \o Tail(todo))
        /\ PartsOf(Settled(items, ok) \o Tail(todo)) = out(ok) \cup rest
    BY <1>1, <2>1, SettlesFirst
  <2> QED
    BY <1>5, <2>2 DEF Ahead
<1>6. \A ok \in BOOLEAN : \A p \in out(ok) :
        p.op = "settle" /\ p.key \in items /\ p.rec = mem[p.key] /\ p.ok = ok
  BY SMT DEF Settle
<1>7. \A ok \in BOOLEAN : \A k \in items : \E p \in out(ok) : p.key = k
  <2> TAKE ok \in BOOLEAN
  <2> TAKE k \in items
  <2>1. Settle(k, mem[k], mem[k].round, ok) \in out(ok)
    OBVIOUS
  <2>2. Settle(k, mem[k], mem[k].round, ok).key = k
    BY SMT DEF Settle
  <2> QED
    BY <2>1, <2>2
<1>8. \A k \in items : \A t \in timers : t.key # k
  BY <1>2 DEF TimersSound
<1> DEFINE Noted(k) == /\ disk[k].state \in {"delivered", "consumed"}
                       /\ mem[k].state \in {"none", "delivered", "consumed"}
<1>9. /\ \A k \in Keys : sent[k] \in Nat
      /\ \A k \in left \ excused : sent[k] = 0
      /\ \A k \in (items \ left) \ excused : sent[k] = 1
      /\ \A k \in (Keys \ items) \ excused : sent[k] = 0 \/ (sent[k] = 1 /\ Noted(k))
  <2>1. \A k \in Keys : k \notin items \ left => ~ToldNow(k)
    BY <1>1 DEF ToldNow
  <2>2. \A k \in items : ~Noted(k)
    BY <1>2
  <2>3. \A k \in Keys : sent[k] \in Nat
    BY DEF TypeOK
  <2> HIDE DEF items, left
  <2>4. \A k \in left \ excused : sent[k] = 0
    BY <1>1, <1>2, <2>1, <2>2 DEF ToldSound, ToldOf
  <2>5. \A k \in (items \ left) \ excused : sent[k] = 1
    <3> TAKE k \in (items \ left) \ excused
    <3>1. k \in Keys \ excused /\ sent[k] # 0
      BY <1>1, <1>2, SMT
    <3> QED
      BY <3>1 DEF ToldSound, ToldOf
  <2>6. \A k \in (Keys \ items) \ excused : sent[k] = 0 \/ (sent[k] = 1 /\ Noted(k))
    BY <2>1 DEF ToldSound, ToldOf
  <2> QED
    BY <2>3, <2>4, <2>5, <2>6
<1>10. \/ /\ sent' = now(left)
          /\ todo' = Settled(items, TRUE) \o Tail(todo)
          /\ UNCHANGED excused
       \/ \E k \in left : /\ sent' = now({k})
                           /\ todo' = <<Send(items, left \ {k})>> \o Tail(todo)
                           /\ UNCHANGED excused
       \/ /\ todo' = Settled(items, FALSE) \o Tail(todo)
          /\ excused' = excused \cup (items \ left)
          /\ UNCHANGED sent
  BY DEF FlushSend
<1>11. TimersSound' /\ \A p \in rest : p.op # "reconcile" => PartSound(p)'
  BY <1>1, <1>3 DEF TimersSound, PartSound
<1>12. \A p \in rest : PartSound(p)'
  BY <1>1, <1>3 DEF AheadSound, PartSound
<1>13. \A k \in Keys : mem[k].state = "batched" => k \in items
  BY <1>1, <1>2 DEF WaitsSound, WaitsOf, Flushed, Busy
<1>14. \A k \in Keys : mem[k].state = "pending" => \E t \in timers : t.key = k
  BY <1>1 DEF WaitsSound, WaitsOf, Flushed, Busy
<1> HIDE DEF h, rest, items, left, now, out
<1>15. ASSUME sent' \in [Keys -> Nat], excused' \subseteq Keys,
              \A k \in Keys : calls[k] = "none" => sent'[k] = sent[k],
              \A p \in Ahead' : p.op = "reconcile" => p \in rest
       PROVE  TypeOK' /\ CallsSound' /\ LogSound' /\ MarkSound'
  BY <1>1, <1>3, <1>15 DEF TypeOK, CallsSound, CallsOf, LogSound, LogOf, MarkSound, MarkOf, Reconciled, Marked
<1>16. CASE /\ sent' = now(left)
            /\ todo' = Settled(items, TRUE) \o Tail(todo)
            /\ UNCHANGED excused
  <2>1. Ordered(todo') /\ Ahead' = out(TRUE) \cup rest
    BY <1>5, <1>16
  <2>2. sent' \in [Keys -> Nat]
        /\ \A k \in Keys : sent'[k] = IF k \in left THEN sent[k] + 1 ELSE sent[k]
    <3>1. \A k \in Keys : sent[k] + 1 \in Nat
      BY <1>9, SMT
    <3> QED
      BY <1>9, <1>16, <3>1 DEF now
  <2>3. TypeOK' /\ CallsSound' /\ LogSound' /\ MarkSound'
    <3>1. \A k \in Keys : calls[k] = "none" => k \notin left
      BY <1>2, RecordOrNone DEF CallsSound, CallsOf
    <3> QED
      BY <1>6, <1>15, <1>16, <2>1, <2>2, <3>1 DEF TypeOK
  <2>4. ASSUME NEW p \in out(TRUE) PROVE PartSound(p)'
    <3>1. sent'[p.key] > 0
      <4>1. p.key \in items /\ p.key \in Keys
        BY <1>1, <1>6
      <4>2. CASE p.key \in left
        BY <1>9, <2>2, <4>1, <4>2, SMT
      <4>3. CASE p.key \notin left
        BY <1>2, <2>2, <4>1, <4>3
      <4> QED
        BY <4>2, <4>3
    <3> QED
      BY <1>2, <1>3, <1>6, <1>8, <3>1 DEF PartSound
  <2>5. AheadSound'
    BY <1>12, <2>1, <2>4 DEF AheadSound
  <2>6. WaitsSound'
    <3>1. \A k \in items : Busy(k)'
      BY <1>6, <1>7, <2>1 DEF Busy
    <3> QED
      BY <1>2, <1>3, <1>13, <1>14, <3>1 DEF WaitsSound, WaitsOf, Flushed
  <2>7. ToldSound'
    <3>1. \A k \in items : ToldNow(k)'
      BY <1>6, <1>7, <2>1 DEF ToldNow
    <3> QED
      BY <1>1, <1>2, <1>3, <1>9, <1>16, <2>2, <3>1, SMT DEF ToldSound, ToldOf
  <2> QED
    BY <1>11, <2>1, <2>3, <2>5, <2>6, <2>7
<1>17. CASE \E k \in left : /\ sent' = now({k})
                            /\ todo' = <<Send(items, left \ {k})>> \o Tail(todo)
                            /\ UNCHANGED excused
  <2>1. PICK k \in left : /\ sent' = now({k})
                          /\ todo' = <<Send(items, left \ {k})>> \o Tail(todo)
                          /\ UNCHANGED excused
    BY <1>17
  <2> DEFINE n == Send(items, left \ {k})
  <2>2. n \in SendParts /\ n.op = "send" /\ n.items = items /\ n.left = left \ {k} /\ k \in Keys
    BY <1>1, SMT DEF Send, SendParts
  <2>3. Ordered(todo') /\ Ahead' = {n} \cup rest
    BY <1>1, <2>1, <2>2, SendFirst DEF Ahead, h, rest
  <2>4. sent' \in [Keys -> Nat]
        /\ \A q \in Keys : sent'[q] = IF q = k THEN sent[q] + 1 ELSE sent[q]
    <3>1. sent[k] + 1 \in Nat
      BY <1>9, <2>2, SMT
    <3> QED
      BY <1>9, <2>1, <3>1 DEF now
  <2>5. TypeOK' /\ CallsSound' /\ LogSound' /\ MarkSound'
    <3>1. calls[k] # "none"
      BY <1>2, <2>2, RecordOrNone DEF CallsSound, CallsOf
    <3> QED
      BY <1>15, <2>1, <2>2, <2>3, <2>4, <3>1 DEF TypeOK
  <2>6. ASSUME NEW p, p = n PROVE PartSound(p)'
    <3>1. sent'[k] > 0
      BY <1>9, <2>2, <2>4, SMT
    <3>2. \A q \in items \ (left \ {k}) : sent'[q] > 0
      BY <1>1, <1>2, <2>2, <2>4, <3>1
    <3> QED
      BY <1>2, <1>3, <2>2, <2>6, <3>2 DEF PartSound
  <2>7. AheadSound'
    BY <1>12, <2>3, <2>6 DEF AheadSound
  <2>8. WaitsSound'
    BY <1>2, <1>3, <1>13, <1>14, <2>2, <2>3 DEF WaitsSound, WaitsOf, Flushed
  <2>9. ToldSound'
    <3>1. \A q \in items \ (left \ {k}) : ToldNow(q)'
      BY <2>2, <2>3 DEF ToldNow
    <3>2. ASSUME NEW q \in (left \ {k}) \ excused PROVE sent'[q] = 0
      BY <1>1, <1>9, <2>4
    <3>3. ASSUME NEW q \in (items \ left) \ excused PROVE sent'[q] = 1
      BY <1>1, <1>9, <2>2, <2>4
    <3>4. k \notin excused => sent'[k] = 1
      BY <1>9, <2>2, <2>4, SMT
    <3>5. ASSUME NEW q \in (Keys \ items) \ excused
          PROVE  sent'[q] = 0 \/ (sent'[q] = 1 /\ Noted(q)')
      BY <1>2, <1>3, <1>9, <2>2, <2>4
    <3> QED
      BY <1>2, <2>1, <3>1, <3>2, <3>3, <3>4, <3>5 DEF ToldSound, ToldOf
  <2> QED
    BY <1>11, <2>3, <2>5, <2>7, <2>8, <2>9
<1>18. CASE /\ todo' = Settled(items, FALSE) \o Tail(todo)
            /\ excused' = excused \cup (items \ left)
            /\ UNCHANGED sent
  <2>1. Ordered(todo') /\ Ahead' = out(FALSE) \cup rest
    BY <1>5, <1>18
  <2>2. TypeOK' /\ CallsSound' /\ LogSound' /\ MarkSound'
    BY <1>1, <1>6, <1>15, <1>18, <2>1 DEF TypeOK
  <2>3. ASSUME NEW p \in out(FALSE) PROVE PartSound(p)'
    BY <1>2, <1>3, <1>6, <1>8 DEF PartSound
  <2>4. AheadSound'
    BY <1>12, <2>1, <2>3 DEF AheadSound
  <2>5. WaitsSound'
    <3>1. \A k \in items : Busy(k)'
      BY <1>6, <1>7, <2>1 DEF Busy
    <3> QED
      BY <1>2, <1>3, <1>13, <1>14, <3>1 DEF WaitsSound, WaitsOf, Flushed
  <2>6. ToldSound'
    BY <1>1, <1>2, <1>3, <1>9, <1>18, SMT DEF ToldSound, ToldOf
  <2> QED
    BY <1>11, <2>1, <2>2, <2>4, <2>5, <2>6
<1> QED
  BY <1>10, <1>16, <1>17, <1>18

\* A step that concerns one notice leaves the others alone.
OnlyOf(k) ==
  /\ \A q \in Keys \ {k} :
       /\ mem'[q] = mem[q] /\ disk'[q] = disk[q] /\ calls'[q] = calls[q]
       /\ sent'[q] = sent[q]
       /\ q \in buffer' <=> q \in buffer
       /\ q \in acked' <=> q \in acked
       /\ q \in excused' <=> q \in excused
  /\ \A t \in timers \cup timers' : t.key # k => (t \in timers <=> t \in timers')
  /\ UNCHANGED <<setup, restarts>>

\* The parts of other notices mean what they meant.
LEMMA PartKept ==
  ASSUME IInv, NEW k \in Keys, OnlyOf(k), NEW p \in Parts, PartSound(p),
         buffer' \subseteq buffer, timers' \subseteq Timer,
         p.op \in {"attempt", "settle"} => p.key # k,
         p.op = "send" => k \notin p.items,
         p.op = "reconcile" => k \notin p.keys
  PROVE  PartSound(p)'
<1>1. /\ p.op \in {"attempt", "settle"} => p.key \in Keys
      /\ p.op = "send" => p.items \subseteq Keys /\ p.left \subseteq Keys
      /\ p.op = "reconcile" => p.keys \subseteq Keys
  BY PartKinds
<1>2. ASSUME p.op \in {"attempt", "settle"}
      PROVE  /\ mem'[p.key] = mem[p.key] /\ sent'[p.key] = sent[p.key]
             /\ p.key \in buffer' <=> p.key \in buffer
             /\ (\A t \in timers : t.key # p.key) => \A t \in timers' : t.key # p.key
  BY <1>1, <1>2 DEF OnlyOf
<1>3. ASSUME p.op = "send"
      PROVE  \A q \in p.items : mem'[q] = mem[q] /\ sent'[q] = sent[q]
  BY <1>1, <1>3 DEF OnlyOf
<1>4. ASSUME p.op = "reconcile"
      PROVE  \A q \in p.keys : mem'[q] = mem[q] /\ disk'[q] = disk[q] /\ calls'[q] = calls[q]
  BY <1>1, <1>4 DEF OnlyOf
<1> QED
  BY <1>2, <1>3, <1>4 DEF PartSound

\* The timers of other notices too.
LEMMA TimersKept ==
  ASSUME IInv, NEW k \in Keys, OnlyOf(k), timers' \subseteq Timer,
         \A t \in timers' : t.key = k =>
            t.rec.state = "pending" /\ (mem'[k] = t.rec \/ mem'[k].state = "consumed"),
         \A t, u \in timers' : t.key = k /\ u.key = k => t = u
  PROVE  TimersSound'
<1>1. \A t \in timers' : t.key \in Keys
  BY SMT DEF Timer
<1>2. ASSUME NEW t \in timers', t.key # k
      PROVE  t \in timers /\ mem'[t.key] = mem[t.key]
  BY <1>1, <1>2 DEF OnlyOf
<1> QED
  BY <1>2 DEF IInv, TimersSound

\* What is ahead for other notices is ahead still, and no more of them are left
\* for reconcile().
AheadOnlyOf(k) ==
  \A q \in Keys \ {k} : /\ (Busy(q) => Busy(q)')
                        /\ (Flushed(q) => Flushed(q)')
                        /\ (ToldNow(q) => ToldNow(q)')
                        /\ (Reconciled(q)' => Reconciled(q))

\* A step that concerns one notice preserves the invariant if it does for this one.
LEMMA OneNotice ==
  ASSUME IInv, NEW k \in Keys, OnlyOf(k), AheadOnlyOf(k),
         TypeOK', Ordered(todo'), AheadSound',
         \A t \in timers' : t.key = k =>
            t.rec.state = "pending" /\ (mem'[k] = t.rec \/ mem'[k].state = "consumed"),
         \A t, u \in timers' : t.key = k /\ u.key = k => t = u,
         buffer' # {} => window',
         WaitsOf(k)', CallsOf(k)', LogOf(k)', ToldOf(k)', MarkOf(k)'
  PROVE  IInv'
<1>1. TimersSound'
  BY TimersKept DEF TypeOK
<1> SUFFICES ASSUME NEW q \in Keys, q # k
             PROVE  WaitsOf(q)' /\ CallsOf(q)' /\ LogOf(q)' /\ ToldOf(q)' /\ MarkOf(q)'
  BY <1>1 DEF IInv, WaitsSound, CallsSound, LogSound, ToldSound, MarkSound
<1>2. /\ mem'[q] = mem[q] /\ disk'[q] = disk[q] /\ calls'[q] = calls[q]
      /\ sent'[q] = sent[q]
      /\ q \in buffer' <=> q \in buffer
      /\ q \in acked' <=> q \in acked
      /\ q \in excused' <=> q \in excused
      /\ UNCHANGED <<setup, restarts>>
  BY DEF OnlyOf
<1>3. (\E t \in timers : t.key = q) => \E t \in timers' : t.key = q
  BY DEF OnlyOf
<1>4. /\ (Busy(q) => Busy(q)')
      /\ (Flushed(q) => Flushed(q)')
      /\ (ToldNow(q) => ToldNow(q)')
      /\ (Reconciled(q)' => Reconciled(q))
  <2>1. q \in Keys \ {k}
    OBVIOUS
  <2> QED
    BY <2>1 DEF AheadOnlyOf, Busy, Flushed, ToldNow, Reconciled
<1>5. WaitsOf(q)'
  BY <1>2, <1>3, <1>4 DEF IInv, WaitsSound, WaitsOf
<1>6. CallsOf(q)' /\ LogOf(q)'
  BY <1>2 DEF IInv, CallsSound, LogSound, CallsOf, LogOf
<1>7. ToldOf(q)'
  BY <1>2, <1>4 DEF IInv, ToldSound, ToldOf
<1>8. MarkOf(q)'
  BY <1>2, <1>4 DEF IInv, MarkSound, MarkOf, Marked
<1> QED
  BY <1>5, <1>6, <1>7, <1>8

\* A part of one notice is taken away and others of the same notice may come.
LEMMA PartsOnlyOf ==
  ASSUME NEW k \in Keys,
         \A p \in Ahead : p \in Ahead' \/ (p.op \in {"attempt", "settle"} /\ p.key = k),
         \A p \in Ahead' : p \in Ahead \/ p.op # "reconcile"
  PROVE  AheadOnlyOf(k)
BY DEF AheadOnlyOf, Busy, Flushed, ToldNow, Reconciled

-------------------------------------------------------------------------------
(* Settling *)

\* The attempt that is settled is the only place where its notice is.
LEMMA SettleNext ==
  ASSUME IInv, ~Idle, Head(todo).op = "settle"
  PROVE  LET h == Head(todo)
             k == h.key
             rest == PartsOf(Tail(todo))
         IN /\ k \in Keys /\ h.rec \in Record /\ h.round \in Nat
            /\ mem[k] = h.rec /\ h.rec.state \in {"pending", "batched"}
            /\ k \notin buffer /\ (\A t \in timers : t.key # k) /\ (h.ok => sent[k] > 0)
            /\ disk[k].state \notin {"delivered", "consumed", "abandoned"} /\ k \notin acked
            /\ calls[k] \in {"out", "lost", "over"}
            /\ h \in Ahead /\ Ahead = {h} \cup rest /\ Ordered(Tail(todo))
            /\ \A p \in rest : /\ p \in Parts /\ PartSound(p) /\ p.op \notin {"attempt", "send"}
                               /\ p.op = "settle" => p.key # k
                               /\ p.op = "reconcile" => k \notin p.keys
<1> USE DEF IInv
<1> DEFINE h == Head(todo)
           k == h.key
           rest == PartsOf(Tail(todo))
<1>1. /\ h \in Ahead /\ Ahead = {h} \cup rest /\ Ordered(Tail(todo))
      /\ k \in Keys /\ h.rec \in Record /\ h.round \in Nat
      /\ \A p \in rest : /\ p \in Parts /\ PartSound(p) /\ p.op \notin {"attempt", "send"}
                         /\ p.op = "settle" => p.key # k
  BY NextPart, PartKinds DEF AheadSound
<1>2. /\ mem[k] = h.rec /\ h.rec.state \in {"pending", "batched"}
      /\ k \notin buffer /\ (\A t \in timers : t.key # k) /\ (h.ok => sent[k] > 0)
  BY <1>1 DEF AheadSound, PartSound
<1> HIDE DEF h, k, rest
<1>3. /\ disk[k].state \notin {"delivered", "consumed", "abandoned"} /\ k \notin acked
      /\ calls[k] \in {"out", "lost", "over"}
  BY <1>1, <1>2, RecordOrNone DEF TypeOK, LogSound, LogOf, CallsSound, CallsOf
<1>4. ASSUME NEW p \in rest, p.op = "reconcile" PROVE k \notin p.keys
  <2>1. PartSound(p)
    BY <1>1
  <2>2. \A q \in p.keys : mem[q] = NoRecord
    BY <1>4, <2>1 DEF PartSound
  <2> QED
    BY <1>2, <2>2, RecordOrNone
<1> QED
  BY <1>1, <1>2, <1>3, <1>4 DEF h, k, rest

LEMMA SettleDeliveredKeeps ==
  ASSUME IInv, SettleDelivered PROVE IInv'
<1> DEFINE h == Head(todo)
           rest == PartsOf(Tail(todo))
<1> PICK k \in Keys : k = h.key
  BY SettleNext DEF SettleDelivered
<1> DEFINE next == [h.rec EXCEPT !.state = "delivered", !.attempts = h.rec.attempts + 1,
                                 !.round = h.round]
           noted == [disk[k] EXCEPT !.state = "delivered", !.attempts = next.attempts,
                                    !.round = next.round]
<1>1. /\ h.rec \in Record /\ h.round \in Nat /\ h.op = "settle" /\ h.ok /\ h.key = k
      /\ mem[k] = h.rec /\ h.rec.state \in {"pending", "batched"}
      /\ k \notin buffer /\ (\A t \in timers : t.key # k) /\ sent[k] > 0
      /\ disk[k].state \notin {"delivered", "consumed", "abandoned"} /\ k \notin acked
      /\ calls[k] \in {"out", "lost", "over"}
      /\ h \in Ahead /\ Ahead = {h} \cup rest /\ Ordered(Tail(todo))
      /\ \A p \in rest : /\ p \in Parts /\ PartSound(p) /\ p.op \notin {"attempt", "send"}
                         /\ p.op = "settle" => p.key # k
                         /\ p.op = "reconcile" => k \notin p.keys
  BY SettleNext DEF SettleDelivered
<1>2. /\ mem' = [mem EXCEPT ![k] = next]
      /\ disk' = disk \/ (disk[k] # NoRecord /\ disk' = [disk EXCEPT ![k] = noted])
      /\ excused' = IF disk'[k].state = "delivered" THEN excused ELSE excused \cup {k}
      /\ todo' = Tail(todo)
      /\ UNCHANGED <<setup, buffer, window, timers, calls, old, restarts, sent, acked>>
  BY DEF SettleDelivered, Remember, Update
<1> HIDE DEF h
<1>3. Has(next, "delivered", h.rec.kind) /\ next.attempts \in Nat /\ next.round \in Nat
  <2>1. "delivered" \in State /\ h.rec.attempts + 1 \in Nat
    BY <1>1, SMT DEF State, Record
  <2>2. Has(next, "delivered", h.rec.kind)
    BY <1>1, <2>1, Patched
  <2>3. next \in Record => next.attempts \in Nat /\ next.round \in Nat
    <3> HIDE DEF next
    <3> QED
      BY SMT DEF Record
  <2> QED
    BY <2>2, <2>3 DEF Has
<1>4. disk[k] # NoRecord => Has(noted, "delivered", disk[k].kind)
  <2>1. "delivered" \in State
    BY DEF State
  <2> HIDE DEF next
  <2>2. disk[k] # NoRecord => disk[k] \in Record
    BY <1>1 DEF IInv, TypeOK
  <2> QED
    BY <1>3, <2>1, <2>2, Patched
<1> HIDE DEF rest, next, noted
<1>5. /\ mem' \in [Keys -> Record \cup {NoRecord}] /\ mem'[k] = next
      /\ disk' \in [Keys -> Record \cup {NoRecord}]
      /\ \/ disk'[k] = disk[k]
         \/ disk[k] # NoRecord /\ disk'[k].state = "delivered" /\ disk'[k].kind = disk[k].kind
      /\ \A q \in Keys \ {k} : mem'[q] = mem[q] /\ disk'[q] = disk[q]
  BY <1>1, <1>2, <1>3, <1>4 DEF IInv, TypeOK, Has
<1>6. TypeOK'
  BY <1>1, <1>2, <1>5 DEF IInv, TypeOK
<1>7. OnlyOf(k)
  BY <1>2, <1>5 DEF OnlyOf
<1>8. Ordered(todo') /\ Ahead' = rest
  BY <1>1, <1>2 DEF Ahead, rest
<1>9. AheadOnlyOf(k)
  BY <1>1, <1>8, PartsOnlyOf
<1>10. AheadSound'
  BY <1>1, <1>2, <1>6, <1>7, <1>8, PartKept DEF AheadSound, TypeOK
<1>11. buffer' # {} => window'
  BY <1>2 DEF IInv, WaitsSound
<1>12. WaitsOf(k)' /\ CallsOf(k)'
  BY <1>1, <1>2, <1>3, <1>5, RecordOrNone DEF WaitsOf, CallsOf, Has
<1>13. LogOf(k)'
  BY <1>1, <1>2, <1>3, <1>5 DEF LogOf, Has
<1>14. ToldOf(k)'
  BY <1>1, <1>2, <1>3, <1>5 DEF IInv, ToldSound, ToldOf, Has
<1>15. MarkOf(k)'
  <2>1. ~Reconciled(k)'
    BY <1>1, <1>8 DEF Reconciled
  <2>2. Marked(mem[k]) => Marked(mem'[k])
    BY <1>1, <1>3, <1>5 DEF Marked, Has
  <2>3. Marked(disk[k]) => Marked(disk'[k])
    BY <1>1, <1>5, RecordOrNone DEF Marked, IInv, TypeOK
  <2> QED
    BY <1>1, <1>2, <2>1, <2>2, <2>3, RecordOrNone DEF IInv, MarkSound, MarkOf
<1> QED
  BY <1>1, <1>2, <1>6, <1>7, <1>8, <1>9, <1>10, <1>11, <1>12, <1>13, <1>14, <1>15, OneNotice

LEMMA SettleFailedKeeps ==
  ASSUME IInv, SettleFailed PROVE IInv'
<1> DEFINE h == Head(todo)
           rest == PartsOf(Tail(todo))
<1> PICK k \in Keys : k = h.key
  BY SettleNext DEF SettleFailed
<1> DEFINE attempts == h.rec.attempts + 1
           state == IF attempts >= setup.maxAttempts THEN "dropped" ELSE "pending"
           next == [h.rec EXCEPT !.state = state, !.attempts = attempts, !.round = h.round]
           noted == [disk[k] EXCEPT !.state = state, !.attempts = attempts, !.round = h.round]
           timer == [key |-> k, rec |-> next, round |-> h.round]
<1>1. /\ h.rec \in Record /\ h.round \in Nat /\ h.op = "settle" /\ ~h.ok /\ h.key = k
      /\ mem[k] = h.rec /\ h.rec.state \in {"pending", "batched"}
      /\ k \notin buffer /\ (\A t \in timers : t.key # k)
      /\ disk[k].state \notin {"delivered", "consumed", "abandoned"} /\ k \notin acked
      /\ calls[k] \in {"out", "lost", "over"}
      /\ h \in Ahead /\ Ahead = {h} \cup rest /\ Ordered(Tail(todo))
      /\ \A p \in rest : /\ p \in Parts /\ PartSound(p) /\ p.op \notin {"attempt", "send"}
                         /\ p.op = "settle" => p.key # k
                         /\ p.op = "reconcile" => k \notin p.keys
  BY SettleNext DEF SettleFailed
<1>2. /\ mem' = [mem EXCEPT ![k] = next]
      /\ disk' = disk \/ (disk[k] # NoRecord /\ disk' = [disk EXCEPT ![k] = noted])
      /\ timers' = IF state = "pending" THEN timers \cup {timer} ELSE timers
      /\ todo' = Tail(todo)
      /\ UNCHANGED <<setup, buffer, window, calls, old, restarts, sent, acked, excused>>
  BY DEF SettleFailed, Remember, Update
<1> HIDE DEF h
<1>3. Has(next, state, h.rec.kind) /\ state \in {"dropped", "pending"}
  <2>1. state \in State /\ attempts \in Nat
    BY <1>1, SMT DEF State, Record
  <2> HIDE DEF attempts, state
  <2>2. Has(next, state, h.rec.kind)
    BY <1>1, <2>1, Patched
  <2> QED
    BY <2>2 DEF state
<1>4. disk[k] # NoRecord => Has(noted, state, disk[k].kind)
  <2>1. state \in State /\ attempts \in Nat
    BY <1>1, SMT DEF State, Record
  <2> HIDE DEF attempts, state
  <2>2. disk[k] # NoRecord => disk[k] \in Record
    BY <1>1 DEF IInv, TypeOK
  <2> QED
    BY <1>1, <2>1, <2>2, Patched
<1> HIDE DEF rest, next, noted, state
<1>5. /\ mem' \in [Keys -> Record \cup {NoRecord}] /\ mem'[k] = next
      /\ disk' \in [Keys -> Record \cup {NoRecord}]
      /\ \/ disk'[k] = disk[k]
         \/ disk[k] # NoRecord /\ disk'[k].state = state /\ disk'[k].kind = disk[k].kind
      /\ \A q \in Keys \ {k} : mem'[q] = mem[q] /\ disk'[q] = disk[q]
  BY <1>1, <1>2, <1>3, <1>4 DEF IInv, TypeOK, Has
<1>6. timer \in Timer /\ timer.key = k /\ timer.rec = next
  BY <1>1, <1>3, SMT DEF Timer, Has
<1> HIDE DEF timer
<1>7. TypeOK'
  BY <1>1, <1>2, <1>5, <1>6 DEF IInv, TypeOK
<1>8. OnlyOf(k)
  BY <1>2, <1>5, <1>6 DEF OnlyOf
<1>9. Ordered(todo') /\ Ahead' = rest
  BY <1>1, <1>2 DEF Ahead, rest
<1>10. AheadOnlyOf(k)
  BY <1>1, <1>9, PartsOnlyOf
<1>11. AheadSound'
  BY <1>1, <1>2, <1>7, <1>8, <1>9, PartKept DEF AheadSound, TypeOK
<1>12. buffer' # {} => window'
  BY <1>2 DEF IInv, WaitsSound
<1>13. /\ \A t \in timers' : t.key = k =>
            t.rec.state = "pending" /\ (mem'[k] = t.rec \/ mem'[k].state = "consumed")
       /\ \A t, u \in timers' : t.key = k /\ u.key = k => t = u
  <2>1. \A t \in timers' : t.key = k => t = timer /\ state = "pending"
    BY <1>1, <1>2
  <2> QED
    BY <1>3, <1>5, <1>6, <2>1 DEF Has
<1>14. WaitsOf(k)' /\ CallsOf(k)'
  BY <1>1, <1>2, <1>3, <1>5, <1>6, RecordOrNone DEF WaitsOf, CallsOf, Has
<1>15. LogOf(k)'
  BY <1>1, <1>2, <1>3, <1>5 DEF LogOf, Has
<1>16. ToldOf(k)'
  <2>1. k \in excused \/ sent[k] = 0
    <3>1. ~ToldNow(k)
      BY <1>1 DEF ToldNow
    <3> QED
      BY <1>1, <3>1 DEF IInv, ToldSound, ToldOf
  <2> QED
    BY <1>2, <2>1 DEF ToldOf
<1>17. MarkOf(k)'
  <2>1. ~Reconciled(k)'
    BY <1>1, <1>9 DEF Reconciled
  <2>2. Marked(mem[k]) => Marked(mem'[k])
    BY <1>1, <1>3, <1>5 DEF Marked, Has
  <2>3. Marked(disk[k]) => Marked(disk'[k])
    BY <1>1, <1>5, RecordOrNone DEF Marked, IInv, TypeOK
  <2> QED
    BY <1>1, <1>2, <2>1, <2>2, <2>3, RecordOrNone DEF IInv, MarkSound, MarkOf
<1> QED
  BY <1>1, <1>2, <1>7, <1>8, <1>9, <1>10, <1>11, <1>12, <1>13, <1>14, <1>15, <1>16, <1>17,
     OneNotice

-------------------------------------------------------------------------------
(* The calls of a run and the timers *)

\* A call begins when nothing is ahead, with an attempt of its notice or none.
LEMMA Begins ==
  ASSUME IInv, Idle, NEW k \in Keys, NEW rec \in Record, NEW n \in Nat,
         \/ todo' = <<>>
         \/ /\ todo' = <<Attempt(k, rec, n)>> /\ rec.state = "pending"
            /\ mem'[k] = rec \/ mem'[k].state = "consumed"
            /\ \A t \in timers' : t.key # k
  PROVE  /\ Ordered(todo') /\ AheadSound' /\ AheadOnlyOf(k)
         /\ Ahead = {} /\ ~Reconciled(k)' /\ ~ToldNow(k)
         /\ todo' # <<>> => Busy(k)'
<1>1. Ahead = {}
  BY ShortCalls DEF Idle, Ahead
<1>2. CASE todo' = <<>>
  <2>1. Ahead' = {} /\ Ordered(todo')
    BY <1>2, ShortCalls DEF Ahead
  <2> QED
    BY <1>1, <1>2, <2>1 DEF AheadSound, AheadOnlyOf, Busy, Flushed, ToldNow, Reconciled
<1>3. CASE /\ todo' = <<Attempt(k, rec, n)>> /\ rec.state = "pending"
           /\ mem'[k] = rec \/ mem'[k].state = "consumed"
           /\ \A t \in timers' : t.key # k
  <2> DEFINE a == Attempt(k, rec, n)
  <2>1. a \in Parts /\ a.op = "attempt" /\ a.key = k /\ a.rec = rec
    BY SMT DEF Attempt, Parts, AttemptParts
  <2>2. Ahead' = {a} /\ Ordered(todo')
    BY <1>3, <2>1, ShortCalls DEF Ahead
  <2> HIDE DEF a
  <2>3. AheadSound'
    BY <1>3, <2>1, <2>2 DEF AheadSound, PartSound
  <2>4. AheadOnlyOf(k)
    BY <1>1, <2>1, <2>2, PartsOnlyOf
  <2> QED
    BY <1>1, <2>1, <2>2, <2>3, <2>4 DEF Busy, Reconciled, ToldNow
<1> QED
  BY <1>2, <1>3

LEMMA EnqueueNewKeeps ==
  ASSUME IInv, NEW k \in Keys, NEW kind \in {"completed", "failed"}, NEW hold \in BOOLEAN,
         EnqueueNew(k, kind, hold)
  PROVE  IInv'
<1> DEFINE rec == [state |-> IF hold THEN "staged" ELSE "pending",
                   attempts |-> 0, round |-> 0, kind |-> kind]
<1>1. /\ Idle /\ calls[k] = "none"
      /\ mem' = [mem EXCEPT ![k] = rec]
      /\ disk' = [disk EXCEPT ![k] = rec] \/ disk' = disk
      /\ todo' = IF hold THEN <<>> ELSE <<Attempt(k, rec, 0)>>
      /\ calls' = [calls EXCEPT ![k] = IF hold THEN "held" ELSE "out"]
      /\ UNCHANGED <<setup, buffer, window, timers, old, restarts, sent, acked, excused>>
  BY DEF EnqueueNew, Remember, Put
<1>2. rec \in Record /\ rec.state = (IF hold THEN "staged" ELSE "pending")
  BY SMT DEF Record, State, Kind
<1> HIDE DEF rec
<1>3. mem[k] = NoRecord /\ disk[k] = NoRecord /\ sent[k] = 0
  BY <1>1 DEF IInv, CallsSound, CallsOf
<1>4. k \notin buffer /\ k \notin acked /\ \A t \in timers : t.key # k
  BY <1>1, <1>3, RecordOrNone DEF IInv, WaitsSound, WaitsOf, TimersSound, LogSound, LogOf
<1>5. /\ mem' \in [Keys -> Record \cup {NoRecord}] /\ mem'[k] = rec
      /\ disk' \in [Keys -> Record \cup {NoRecord}] /\ disk'[k] \in {rec, NoRecord}
      /\ calls' \in [Keys -> {"none", "held", "out", "lost", "over"}]
      /\ calls'[k] = (IF hold THEN "held" ELSE "out")
      /\ \A q \in Keys \ {k} : mem'[q] = mem[q] /\ disk'[q] = disk[q] /\ calls'[q] = calls[q]
  BY <1>1, <1>2, <1>3 DEF IInv, TypeOK
<1>6. TypeOK'
  BY <1>1, <1>5 DEF IInv, TypeOK
<1>7. OnlyOf(k)
  BY <1>1, <1>5 DEF OnlyOf
<1>8. /\ Ordered(todo') /\ AheadSound' /\ AheadOnlyOf(k)
      /\ todo' # <<>> => Busy(k)'
  BY <1>1, <1>2, <1>4, <1>5, Begins
<1>9. ~hold => todo' # <<>>
  BY <1>1, SMT
<1>10. buffer' # {} => window'
  BY <1>1 DEF IInv, WaitsSound
<1>11. WaitsOf(k)' /\ CallsOf(k)'
  BY <1>1, <1>2, <1>4, <1>5, <1>8, <1>9, RecordOrNone DEF WaitsOf, CallsOf
<1>12. LogOf(k)' /\ ToldOf(k)' /\ MarkOf(k)'
  BY <1>1, <1>2, <1>3, <1>4, <1>5, RecordOrNone DEF LogOf, ToldOf, MarkOf
<1> QED
  BY <1>1, <1>4, <1>6, <1>7, <1>8, <1>10, <1>11, <1>12, OneNotice

LEMMA FinalizeKeeps ==
  ASSUME IInv, NEW k \in Keys, NEW kind \in Kind, Finalize(k, kind)
  PROVE  IInv'
<1>1. /\ Idle /\ calls[k] = "held"
      /\ calls' = [calls EXCEPT ![k] = "out"]
      /\ UNCHANGED <<setup, buffer, window, timers, old, restarts, sent, acked, excused>>
  BY DEF Finalize
<1>2. /\ Known(k) = mem[k] /\ mem[k] \in Record /\ mem[k].state \in {"staged", "consumed"}
      /\ disk[k].state \in {"staged", "consumed", "none"}
      /\ disk[k] # NoRecord => disk[k] \in Record
  BY <1>1, RecordOrNone DEF IInv, CallsSound, CallsOf, Known, TypeOK
<1>3. calls' \in [Keys -> {"none", "held", "out", "lost", "over"}] /\ calls'[k] = "out"
      /\ \A q \in Keys \ {k} : calls'[q] = calls[q]
  BY <1>1 DEF IInv, TypeOK
<1>4. buffer' # {} => window'
  BY <1>1 DEF IInv, WaitsSound
<1>5. k \notin buffer
  BY <1>2 DEF IInv, WaitsSound, WaitsOf
<1>6. CASE mem[k].state = "staged"
  <2> DEFINE next == [mem[k] EXCEPT !.kind = kind, !.state = "pending"]
             noted == [disk[k] EXCEPT !.kind = kind, !.state = "pending"]
  <2>1. /\ mem' = [mem EXCEPT ![k] = next]
        /\ disk' = disk \/ (disk[k] # NoRecord /\ disk' = [disk EXCEPT ![k] = noted])
        /\ todo' = <<Attempt(k, next, next.round)>>
    BY <1>2, <1>6 DEF Finalize, Remember, Update
  <2>2. "pending" \in State
    BY DEF State
  <2>3. Has(next, "pending", kind)
    BY <1>2, <2>2, Patched
  <2>4. disk[k] # NoRecord => Has(noted, "pending", kind)
    BY <1>2, <2>2, Patched
  <2> HIDE DEF next, noted
  <2>5. next.round \in Nat
    BY <2>3, SMT DEF Has, Record
  <2>6. k \notin acked /\ \A t \in timers : t.key # k
    BY <1>6 DEF IInv, LogSound, LogOf, TimersSound
  <2>7. /\ mem' \in [Keys -> Record \cup {NoRecord}] /\ mem'[k] = next
        /\ disk' \in [Keys -> Record \cup {NoRecord}]
        /\ disk'[k] = disk[k] \/ disk'[k].state = "pending"
        /\ \A q \in Keys \ {k} : mem'[q] = mem[q] /\ disk'[q] = disk[q]
    BY <2>1, <2>3, <2>4 DEF IInv, TypeOK, Has
  <2>8. TypeOK'
    BY <1>1, <1>3, <2>7 DEF IInv, TypeOK
  <2>9. OnlyOf(k)
    BY <1>1, <1>3, <2>7 DEF OnlyOf
  <2>10. /\ Ordered(todo') /\ AheadSound' /\ AheadOnlyOf(k) /\ ~ToldNow(k)
         /\ todo' # <<>> => Busy(k)'
    BY <1>1, <2>1, <2>3, <2>5, <2>6, <2>7, Begins DEF Has
  <2>11. todo' # <<>>
    BY <2>1, SMT
  <2>12. disk'[k].state \notin {"delivered", "consumed", "abandoned"}
    BY <1>2, <1>6, <2>6, <2>7 DEF IInv, LogSound, LogOf
  <2>13. WaitsOf(k)' /\ CallsOf(k)'
    BY <1>1, <1>3, <1>5, <2>3, <2>7, <2>10, <2>11, <2>12, RecordOrNone DEF WaitsOf, CallsOf, Has
  <2>14. LogOf(k)' /\ MarkOf(k)'
    BY <1>1, <1>3, <2>3, <2>6, <2>7, <2>12 DEF LogOf, MarkOf, Has
  <2>15. ToldOf(k)'
    BY <1>1, <1>6, <2>10 DEF IInv, ToldSound, ToldOf
  <2> QED
    BY <1>1, <1>4, <2>6, <2>8, <2>9, <2>10, <2>13, <2>14, <2>15, OneNotice
<1>7. CASE mem[k].state = "consumed"
  <2> DEFINE next == [mem[k] EXCEPT !.kind = kind]
             noted == [disk[k] EXCEPT !.kind = kind]
  <2>1. /\ mem' = [mem EXCEPT ![k] = next]
        /\ disk' = disk \/ (disk[k] # NoRecord /\ disk' = [disk EXCEPT ![k] = noted])
        /\ todo' = <<>>
    BY <1>2, <1>7 DEF Finalize, Remember, Update
  <2>2. Has(next, "consumed", kind)
    BY <1>2, <1>7, Patched
  <2>3. disk[k] # NoRecord => Has(noted, disk[k].state, kind)
    BY <1>2, Patched
  <2> HIDE DEF next, noted
  <2>4. /\ mem' \in [Keys -> Record \cup {NoRecord}] /\ mem'[k] = next
        /\ disk' \in [Keys -> Record \cup {NoRecord}] /\ disk'[k].state = disk[k].state
        /\ \A q \in Keys \ {k} : mem'[q] = mem[q] /\ disk'[q] = disk[q]
    BY <2>1, <2>2, <2>3 DEF IInv, TypeOK, Has
  <2>5. TypeOK'
    BY <1>1, <1>3, <2>4 DEF IInv, TypeOK
  <2>6. OnlyOf(k)
    BY <1>1, <1>3, <2>4 DEF OnlyOf
  <2>7. /\ Ordered(todo') /\ AheadSound' /\ AheadOnlyOf(k) /\ ~ToldNow(k)
    BY <1>1, <1>2, <2>1, Begins
  <2>8. WaitsOf(k)' /\ CallsOf(k)' /\ LogOf(k)' /\ MarkOf(k)'
    BY <1>1, <1>2, <1>3, <1>5, <1>7, <2>2, <2>4, RecordOrNone
    DEF IInv, WaitsOf, CallsOf, LogSound, LogOf, MarkOf, Has
  <2>9. ToldOf(k)'
    BY <1>1, <1>7, <2>2, <2>4, <2>7 DEF IInv, ToldSound, ToldOf, Has
  <2>10. \A t \in timers' : t.key = k =>
            t.rec.state = "pending" /\ (mem'[k] = t.rec \/ mem'[k].state = "consumed")
    BY <1>1, <2>2, <2>4 DEF IInv, TimersSound, Has
  <2>11. \A t, u \in timers' : t.key = k /\ u.key = k => t = u
    BY <1>1 DEF IInv, TimersSound
  <2> QED
    BY <1>4, <2>5, <2>6, <2>7, <2>8, <2>9, <2>10, <2>11, OneNotice
<1> QED
  BY <1>2, <1>6, <1>7

\* A notice that begins to be sent: nothing has been heard of it, in memory and
\* in the log it is pending, or the log has what it had.
LEMMA BeginsPending ==
  ASSUME IInv, Idle, NEW k \in Keys, NEW rec \in Record, rec.state = "pending",
         NEW n \in Nat,
         todo' = <<Attempt(k, rec, n)>>,
         mem' \in [Keys -> Record \cup {NoRecord}], mem'[k] = rec,
         disk' \in [Keys -> Record \cup {NoRecord}],
         disk'[k] = disk[k] \/ disk'[k].state = "pending",
         disk[k].state \notin {"delivered", "consumed", "abandoned"},
         \A q \in Keys \ {k} : mem'[q] = mem[q] /\ disk'[q] = disk[q],
         calls' = [calls EXCEPT ![k] = calls'[k]], calls'[k] \in {"out", "over"},
         k \notin acked, k \notin buffer, \A t \in timers : t.key # k,
         mem[k].state \notin {"delivered", "consumed"},
         UNCHANGED <<setup, buffer, window, timers, old, restarts, sent, acked, excused>>
  PROVE  IInv'
<1>1. calls' \in [Keys -> {"none", "held", "out", "lost", "over"}]
      /\ \A q \in Keys \ {k} : calls'[q] = calls[q]
  <2> DEFINE c == calls'[k]
  <2>1. calls' = [calls EXCEPT ![k] = c] /\ c \in {"out", "over"}
    OBVIOUS
  <2> HIDE DEF c
  <2> QED
    BY <2>1 DEF IInv, TypeOK
<1>2. buffer' # {} => window'
  BY DEF IInv, WaitsSound
<1>3. TypeOK'
  BY <1>1 DEF IInv, TypeOK
<1>4. OnlyOf(k)
  BY <1>1 DEF OnlyOf
<1>5. /\ Ordered(todo') /\ AheadSound' /\ AheadOnlyOf(k) /\ ~ToldNow(k)
      /\ todo' # <<>> => Busy(k)'
  BY Begins
<1>6. todo' # <<>>
  BY SMT
<1>7. disk'[k].state \notin {"delivered", "consumed", "abandoned"}
  OBVIOUS
<1>8. WaitsOf(k)' /\ CallsOf(k)'
  BY <1>5, <1>6, <1>7, RecordOrNone DEF WaitsOf, CallsOf
<1>9. LogOf(k)' /\ MarkOf(k)'
  BY <1>7 DEF LogOf, MarkOf
<1>10. ToldOf(k)'
  BY <1>5 DEF IInv, ToldSound, ToldOf
<1> QED
  BY <1>2, <1>3, <1>4, <1>5, <1>8, <1>9, <1>10, OneNotice

LEMMA NotifyFailureKeeps ==
  ASSUME IInv, NEW k \in Keys, NotifyFailure(k) PROVE IInv'
<1> DEFINE rec == [state |-> "pending", attempts |-> 0, round |-> 0, kind |-> "failed"]
           noted == [rec EXCEPT !.kind = IF disk[k].kind = "degraded"
                                         THEN "degraded" ELSE "failed"]
<1>1. /\ Idle /\ calls[k] \in {"none", "out"}
      /\ calls' = [calls EXCEPT ![k] = "over"]
      /\ UNCHANGED <<setup, buffer, window, timers, old, restarts, sent, acked, excused>>
  BY DEF NotifyFailure
<1>2. \/ /\ Known(k).state \in {"pending", "batched", "delivered", "consumed"}
         /\ UNCHANGED <<mem, disk, todo>>
      \/ /\ Known(k) = NoRecord
         /\ mem' = [mem EXCEPT ![k] = rec]
         /\ disk' = [disk EXCEPT ![k] = rec] \/ disk' = disk
         /\ todo' = <<Attempt(k, rec, 0)>>
      \/ /\ Known(k).state \in {"dropped", "abandoned"}
         /\ mem' = [mem EXCEPT ![k] = rec]
         /\ disk' = [disk EXCEPT ![k] = noted] \/ disk' = disk
         /\ todo' = <<Attempt(k, rec, 0)>>
  BY DEF NotifyFailure, Remember, Put, Update
<1>3. rec \in Record /\ rec.state = "pending" /\ noted \in Record /\ noted.state = "pending"
  BY SMT DEF Record, State, Kind
<1>4. /\ calls[k] = "none" => mem[k] = NoRecord /\ disk[k] = NoRecord
      /\ calls[k] = "out" => mem[k] # NoRecord /\ mem[k].state # "abandoned"
      /\ Known(k) = mem[k]
      /\ disk[k].state # "abandoned"
  BY <1>1, RecordOrNone DEF IInv, CallsSound, CallsOf, Known
<1>5. calls'[k] = "over" /\ calls' = [calls EXCEPT ![k] = calls'[k]]
      /\ calls' \in [Keys -> {"none", "held", "out", "lost", "over"}]
      /\ \A q \in Keys \ {k} : calls'[q] = calls[q]
  BY <1>1 DEF IInv, TypeOK
<1> HIDE DEF rec, noted
<1>6. CASE mem[k].state \in {"pending", "batched", "delivered", "consumed"}
           /\ UNCHANGED <<mem, disk, todo>>
  <2>1. TypeOK'
    BY <1>1, <1>5, <1>6 DEF IInv, TypeOK
  <2>2. OnlyOf(k)
    BY <1>1, <1>5, <1>6 DEF OnlyOf
  <2>3. buffer' # {} => window'
    BY <1>1 DEF IInv, WaitsSound
  <2>4. todo' = <<>>
    BY <1>1, <1>6 DEF Idle
  <2>5. NoRecord \in Record \cup {NoRecord} /\ 0 \in Nat
    BY SMT
  <2>6. /\ Ordered(todo') /\ AheadSound' /\ AheadOnlyOf(k) /\ ~ToldNow(k) /\ ~Reconciled(k)'
        /\ Ahead = {}
    BY <1>1, <1>3, <2>4, <2>5, Begins
  <2>7. WaitsOf(k)' /\ CallsOf(k)'
    BY <1>1, <1>5, <1>6, <2>6, RecordOrNone
    DEF IInv, WaitsSound, WaitsOf, CallsSound, CallsOf, Busy, Flushed
  <2>8. LogOf(k)' /\ MarkOf(k)'
    BY <1>1, <1>5, <1>6 DEF IInv, LogSound, LogOf, MarkOf
  <2>9. ToldOf(k)'
    BY <1>1, <1>6, <2>6 DEF IInv, ToldSound, ToldOf
  <2>10. /\ \A t \in timers' : t.key = k =>
              t.rec.state = "pending" /\ (mem'[k] = t.rec \/ mem'[k].state = "consumed")
         /\ \A t, u \in timers' : t.key = k /\ u.key = k => t = u
    BY <1>1, <1>6 DEF IInv, TimersSound
  <2> QED
    BY <2>1, <2>2, <2>3, <2>6, <2>7, <2>8, <2>9, <2>10, OneNotice
<1>7. CASE /\ mem[k].state \in {"none", "dropped"}
           /\ mem' = [mem EXCEPT ![k] = rec]
           /\ \/ disk' = [disk EXCEPT ![k] = rec]
              \/ disk' = [disk EXCEPT ![k] = noted]
              \/ disk' = disk
           /\ todo' = <<Attempt(k, rec, 0)>>
  <2>1. /\ mem' \in [Keys -> Record \cup {NoRecord}] /\ mem'[k] = rec
        /\ disk' \in [Keys -> Record \cup {NoRecord}]
        /\ disk'[k] = disk[k] \/ disk'[k].state = "pending"
        /\ \A q \in Keys \ {k} : mem'[q] = mem[q] /\ disk'[q] = disk[q]
    BY <1>3, <1>7 DEF IInv, TypeOK
  <2>2. /\ disk[k].state \notin {"delivered", "consumed", "abandoned"}
        /\ k \notin acked /\ k \notin buffer /\ \A t \in timers : t.key # k
    <3>1. CASE calls[k] = "none"
      BY <1>4, <1>7, <3>1, RecordOrNone
      DEF IInv, LogSound, LogOf, WaitsSound, WaitsOf, TimersSound
    <3>2. CASE calls[k] = "out"
      <4>1. mem[k].state = "dropped"
        BY <1>4, <1>7, <3>2, RecordOrNone DEF IInv, TypeOK
      <4> QED
        BY <1>4, <4>1 DEF IInv, LogSound, LogOf, WaitsSound, WaitsOf, TimersSound
    <3> QED
      BY <1>1, <3>1, <3>2
  <2>3. 0 \in Nat
    BY SMT
  <2> QED
    BY <1>1, <1>3, <1>5, <1>7, <2>1, <2>2, <2>3, BeginsPending
<1>8. Known(k) = NoRecord => mem[k].state = "none"
  BY <1>4, RecordOrNone
<1>9. Known(k).state = "abandoned" => FALSE
  BY <1>1, <1>4, RecordOrNone
<1> QED
  BY <1>2, <1>4, <1>6, <1>7, <1>8, <1>9

LEMMA AckKeeps ==
  ASSUME IInv, NEW k \in Keys, Ack(k) PROVE IInv'
<1> DEFINE next == [Known(k) EXCEPT !.state = "consumed"]
           noted == [disk[k] EXCEPT !.state = "consumed"]
<1>1. /\ Idle /\ Known(k).state \in {"staged", "pending", "batched", "delivered"}
      /\ mem' = [mem EXCEPT ![k] = next]
      /\ \/ disk[k] = NoRecord /\ disk' = disk
         \/ disk[k] # NoRecord /\ disk' = [disk EXCEPT ![k] = noted]
      /\ buffer' = buffer \ {k}
      /\ acked' = acked \cup {k}
      /\ UNCHANGED <<setup, window, timers, todo, calls, old, restarts, sent, excused>>
  <2>1. [disk EXCEPT ![k].state = "consumed"] = [disk EXCEPT ![k] = noted]
    OBVIOUS
  <2> QED
    BY <2>1 DEF Ack, Remember
<1>2. Known(k) \in Record /\ calls[k] # "none"
  <2>1. Known(k) \in {mem[k], disk[k]} /\ Known(k) \in Record \cup {NoRecord}
    BY DEF Known, IInv, TypeOK
  <2>2. Known(k) # NoRecord
    BY <1>1, RecordOrNone
  <2>3. calls[k] = "none" => Known(k) = NoRecord
    BY <2>1 DEF IInv, CallsSound, CallsOf
  <2> QED
    BY <2>1, <2>2, <2>3
<1>3. Has(next, "consumed", Known(k).kind)
  <2>1. "consumed" \in State
    BY DEF State
  <2> QED
    BY <1>2, <2>1, Patched
<1>4. disk[k] # NoRecord => Has(noted, "consumed", disk[k].kind)
  <2>1. "consumed" \in State
    BY DEF State
  <2>2. disk[k] # NoRecord => disk[k] \in Record
    BY DEF IInv, TypeOK
  <2> QED
    BY <2>1, <2>2, Patched
<1> HIDE DEF next, noted
<1>5. /\ mem' \in [Keys -> Record \cup {NoRecord}] /\ mem'[k] = next
      /\ disk' \in [Keys -> Record \cup {NoRecord}]
      /\ \/ disk[k] = NoRecord /\ disk'[k] = NoRecord
         \/ disk[k] # NoRecord /\ disk'[k].state = "consumed"
      /\ \A q \in Keys \ {k} : mem'[q] = mem[q] /\ disk'[q] = disk[q]
  BY <1>1, <1>3, <1>4 DEF IInv, TypeOK, Has
<1>6. TypeOK'
  BY <1>1, <1>5 DEF IInv, TypeOK
<1>7. OnlyOf(k)
  BY <1>1, <1>5 DEF OnlyOf
<1>8. todo' = <<>> /\ 0 \in Nat /\ "consumed" \in State
  BY <1>1, SMT DEF Idle, State
<1>9. /\ Ordered(todo') /\ AheadSound' /\ AheadOnlyOf(k) /\ ~ToldNow(k) /\ ~Reconciled(k)'
  BY <1>1, <1>2, <1>8, Begins
<1>10. buffer' # {} => window'
  BY <1>1 DEF IInv, WaitsSound
<1>11. WaitsOf(k)' /\ CallsOf(k)' /\ LogOf(k)'
  BY <1>1, <1>2, <1>3, <1>5, RecordOrNone DEF WaitsOf, CallsOf, LogOf, Has
<1>12. ToldOf(k)'
  <2>1. disk[k].state \in {"delivered", "consumed"} => disk'[k].state = "consumed"
    BY <1>5, RecordOrNone
  <2> QED
    BY <1>1, <1>3, <1>5, <1>9, <2>1 DEF IInv, ToldSound, ToldOf, Has
<1>13. MarkOf(k)'
  BY <1>1, <1>3, <1>5, <1>9, RecordOrNone DEF IInv, MarkSound, MarkOf, Marked, Has
<1>14. /\ \A t \in timers' : t.key = k =>
            t.rec.state = "pending" /\ (mem'[k] = t.rec \/ mem'[k].state = "consumed")
       /\ \A t, u \in timers' : t.key = k /\ u.key = k => t = u
  BY <1>1, <1>3, <1>5 DEF IInv, TimersSound, Has
<1> QED
  BY <1>6, <1>7, <1>9, <1>10, <1>11, <1>12, <1>13, <1>14, OneNotice

LEMMA RetryKeeps ==
  ASSUME IInv, NEW t \in timers, Retry(t) PROVE IInv'
<1> PICK k \in Keys : k = t.key
  BY SMT DEF IInv, TypeOK, Timer
<1>1. /\ Idle /\ t.key = k
      /\ timers' = timers \ {t}
      /\ todo' = <<Attempt(k, t.rec, t.round)>>
      /\ UNCHANGED <<setup, mem, disk, buffer, window, calls, old, restarts, sent, acked, excused>>
  BY DEF Retry
<1>2. /\ t.rec \in Record /\ t.round \in Nat /\ t.rec.state = "pending"
      /\ mem[k] = t.rec \/ mem[k].state = "consumed"
      /\ \A u \in timers' : u.key # k
  <2>1. t.rec \in Record /\ t.round \in Nat
    BY SMT DEF IInv, TypeOK, Timer
  <2> QED
    BY <1>1, <2>1 DEF IInv, TimersSound
<1>3. TypeOK'
  BY <1>1 DEF IInv, TypeOK
<1>4. OnlyOf(k)
  BY <1>1 DEF OnlyOf
<1>5. /\ Ordered(todo') /\ AheadSound' /\ AheadOnlyOf(k)
      /\ Ahead = {} /\ ~Reconciled(k)' /\ ~ToldNow(k)
      /\ todo' # <<>> => Busy(k)'
  BY <1>1, <1>2, Begins
<1>6. todo' # <<>>
  BY <1>1, SMT
<1>7. buffer' # {} => window'
  BY <1>1 DEF IInv, WaitsSound
<1>8. WaitsOf(k)'
  BY <1>1, <1>5, <1>6 DEF IInv, WaitsSound, WaitsOf, Busy, Flushed
<1>9. CallsOf(k)' /\ LogOf(k)'
  BY <1>1 DEF IInv, CallsSound, CallsOf, LogSound, LogOf
<1>10. ToldOf(k)' /\ MarkOf(k)'
  BY <1>1, <1>5 DEF IInv, ToldSound, ToldOf, MarkSound, MarkOf, Marked
<1> QED
  BY <1>2, <1>3, <1>4, <1>5, <1>7, <1>8, <1>9, <1>10, OneNotice

\* A flush begins when nothing is ahead; the session may end behind it.
LEMMA FlushBegins ==
  ASSUME IInv, Idle, buffer' = {}, window' \in BOOLEAN,
         \/ buffer = {} /\ todo' \in {<<>>, <<Exit>>}
         \/ buffer # {} /\ todo' \in {<<Send(buffer, buffer)>>, <<Send(buffer, buffer), Exit>>},
         UNCHANGED <<setup, mem, disk, timers, calls, old, restarts, sent, acked, excused>>
  PROVE  IInv'
<1> DEFINE n == Send(buffer, buffer)
<1>1. Ahead = {}
  BY ShortCalls DEF Idle, Ahead
<1>2. n \in Parts /\ n.op = "send" /\ n.items = buffer /\ n.left = buffer
  BY SMT DEF IInv, TypeOK, Send, Parts, SendParts
<1>3. Exit \in Parts /\ Exit.op = "exit"
  BY SMT DEF Exit, Parts
<1> HIDE DEF n
<1>4. /\ buffer # {} => /\ todo' \in {<<n>>, <<n, Exit>>}
      /\ buffer = {} => todo' \in {<<>>, <<Exit>>}
  BY DEF n
<1>5. /\ Ordered(todo')
      /\ buffer # {} => Ahead' \in {{n}, {n, Exit}}
      /\ buffer = {} => Ahead' \in {{}, {Exit}}
  <2>1. /\ Ordered(<<n>>) /\ PartsOf(<<n>>) = {n}
        /\ Ordered(<<n, Exit>>) /\ PartsOf(<<n, Exit>>) = {n, Exit}
        /\ Ordered(<<>>) /\ PartsOf(<<>>) = {}
        /\ Ordered(<<Exit>>) /\ PartsOf(<<Exit>>) = {Exit}
    BY <1>2, <1>3, ShortCalls
  <2> QED
    BY <1>4, <2>1 DEF Ahead
<1>6. TypeOK'
  BY DEF IInv, TypeOK
<1>7. AheadSound'
  <2>1. \A q \in buffer : mem[q].state = "batched"
    BY DEF IInv, WaitsSound, WaitsOf, TypeOK
  <2>2. ASSUME NEW p, p = n PROVE PartSound(p)'
    BY <1>2, <2>1, <2>2 DEF PartSound
  <2>3. ASSUME NEW p, p = Exit PROVE PartSound(p)'
    BY <1>3, <2>3 DEF PartSound
  <2> QED
    BY <1>5, <2>2, <2>3 DEF AheadSound
<1>8. TimersSound'
  BY DEF IInv, TimersSound
<1>9. WaitsSound'
  <2>1. \A q \in buffer : Flushed(q)'
    BY <1>2, <1>5 DEF Flushed
  <2> QED
    BY <1>1, <2>1 DEF IInv, WaitsSound, WaitsOf, Busy, Flushed
<1>10. CallsSound' /\ LogSound'
  BY DEF IInv, CallsSound, CallsOf, LogSound, LogOf
<1>11. ToldSound'
  BY <1>1 DEF IInv, ToldSound, ToldOf, ToldNow
<1>12. MarkSound'
  <2>1. \A q \in Keys : ~Reconciled(q)'
    BY <1>2, <1>3, <1>5 DEF Reconciled
  <2> QED
    BY <2>1 DEF IInv, MarkSound, MarkOf, Marked
<1> QED
  BY <1>5, <1>6, <1>7, <1>8, <1>9, <1>10, <1>11, <1>12 DEF IInv

LEMMA CloseWindowKeeps ==
  ASSUME IInv, CloseWindow PROVE IInv'
BY FlushBegins DEF CloseWindow

LEMMA RebuildKeeps ==
  ASSUME IInv, Rebuild PROVE IInv'
BY FlushBegins DEF Rebuild

-------------------------------------------------------------------------------
(* Restarts and reconcile() *)

\* What the process knew is gone; what it had told and not noted is excused.
LEMMA RestartKeeps ==
  ASSUME IInv, Restart, excused \subseteq excused', excused' \subseteq Keys,
         \A k \in Keys : ToldNow(k) => k \in excused'
  PROVE  IInv'
<1> DEFINE owed == {k \in Keys : disk[k].state \in Undelivered}
           n == Reconcile(owed, 0)
<1>1. /\ restarts < setup.maxRestarts /\ restarts' = restarts + 1
      /\ mem' = [k \in Keys |-> NoRecord]
      /\ buffer' = {} /\ window' = FALSE /\ timers' = {}
      /\ todo' = <<n>>
      /\ UNCHANGED <<setup, disk, sent, acked>>
  BY DEF Restart
<1>2. /\ \A k \in Keys : calls'[k] = CASE calls[k] = "none" -> "none"
                                       [] calls[k] \in {"held", "lost"} -> "lost"
                                       [] OTHER -> "over"
      /\ calls' \in [Keys -> {"none", "held", "out", "lost", "over"}]
  BY DEF Restart
<1>3. n \in Parts /\ n.op = "reconcile" /\ n.keys = owed
  BY SMT DEF Reconcile, Parts, ReconcileParts
<1> HIDE DEF n
<1>4. Ordered(todo') /\ Ahead' = {n}
  BY <1>1, <1>3, ShortCalls DEF Ahead
<1>5. restarts \in Nat /\ restarts' \in 0 .. setup.maxRestarts /\ restarts' > 0
      /\ (restarts' <= 1 => restarts = 0)
  <2>1. setup.maxRestarts \in Nat
    BY DeliveryAssumption DEF IInv, TypeOK, Setup
  <2> QED
    BY <1>1, <2>1, SMT DEF IInv, TypeOK
<1>6. TypeOK'
  <2>1. old' \subseteq Keys
    BY DEF Restart, IInv, TypeOK
  <2> QED
    BY <1>1, <1>2, <1>5, <2>1 DEF IInv, TypeOK
<1>7. AheadSound'
  <2>1. ASSUME NEW k \in owed PROVE calls'[k] \in {"lost", "over"}
    BY <1>2, RecordOrNone DEF IInv, CallsSound, CallsOf, TypeOK, Undelivered
  <2>2. ASSUME NEW p, p = n PROVE PartSound(p)'
    BY <1>1, <1>3, <2>1, <2>2 DEF PartSound
  <2> QED
    BY <1>4, <2>2 DEF AheadSound
<1>8. TimersSound'
  BY <1>1 DEF TimersSound
<1>9. WaitsSound'
  BY <1>1, RecordOrNone DEF WaitsSound, WaitsOf
<1>10. CallsSound'
  BY <1>1, <1>2, RecordOrNone DEF IInv, TypeOK, CallsSound, CallsOf
<1>11. LogSound'
  BY <1>1, <1>2, RecordOrNone DEF IInv, TypeOK, LogSound, LogOf
<1>12. ToldSound'
  BY <1>1, RecordOrNone DEF IInv, ToldSound, ToldOf
<1>13. MarkSound'
  <2> SUFFICES ASSUME NEW k \in Keys, setup.storeFails => restarts' <= 1, calls'[k] = "lost"
               PROVE  Marked(disk[k]) \/ disk[k].state = "staged"
    BY <1>1, <1>5, RecordOrNone DEF MarkSound, MarkOf, Marked
  <2>1. calls[k] \in {"held", "lost"}
    BY <1>2 DEF IInv, TypeOK
  <2>2. CASE calls[k] = "held"
    BY <2>2 DEF IInv, CallsSound, CallsOf, Marked
  <2>3. CASE calls[k] = "lost"
    <3>1. setup.storeFails => restarts = 0
      BY <1>5
    <3>2. ~setup.storeFails
      BY <2>3, <3>1, SMT DEF IInv, MarkSound, MarkOf
    <3> QED
      BY <2>3, <3>2 DEF IInv, MarkSound, MarkOf
  <2> QED
    BY <2>1, <2>2, <2>3
<1> QED
  BY <1>4, <1>6, <1>7, <1>8, <1>9, <1>10, <1>11, <1>12, <1>13 DEF IInv

LEMMA RebuildDoneKeeps ==
  ASSUME IInv, RebuildDone PROVE IInv'
<1>1. \A k \in Keys : ~ToldNow(k)
  BY NextPart, ShortCalls DEF RebuildDone, IInv, ToldNow
<1> QED
  BY <1>1, RestartKeeps DEF RebuildDone, IInv, TypeOK

LEMMA CrashKeeps ==
  ASSUME IInv, Crash PROVE IInv'
<1> DEFINE Unnoted(p) == IF p.op = "settle" /\ p.ok THEN {p.key}
                         ELSE IF p.op = "send" THEN p.items \ p.left ELSE {}
<1>1. excused' = excused \cup UNION {Unnoted(p) : p \in Ahead}
  BY DEF Crash, Ahead, PartsOf
<1>2. \A p \in Ahead : p \in Parts
  BY DEF Ahead, PartsOf, IInv, Ordered
<1>3. ASSUME NEW p \in Ahead PROVE Unnoted(p) \subseteq Keys
  BY <1>2, PartKinds
<1>4. \A k \in Keys : ToldNow(k) => \E p \in Ahead : k \in Unnoted(p)
  BY DEF ToldNow
<1> HIDE DEF Unnoted
<1>5. excused' \subseteq Keys
  BY <1>1, <1>3 DEF IInv, TypeOK
<1> QED
  BY <1>1, <1>4, <1>5, RestartKeeps DEF Crash

LEMMA ReconcileDoneKeeps ==
  ASSUME IInv, ReconcileDone PROVE IInv'
<1> USE DEF IInv
<1>1. /\ Ahead = {Head(todo)} /\ Head(todo).op = "reconcile" /\ Head(todo).keys = {}
      /\ todo' = <<>>
  BY NextPart, ShortCalls DEF ReconcileDone
<1>2. Ordered(todo') /\ Ahead' = {}
  BY <1>1, ShortCalls DEF Ahead
<1>3. UNCHANGED <<setup, mem, disk, buffer, window, timers, calls, old, restarts, sent,
                  acked, excused>>
  BY DEF ReconcileDone
<1>4. TypeOK' /\ TimersSound' /\ CallsSound' /\ LogSound'
  BY <1>3 DEF TypeOK, TimersSound, CallsSound, CallsOf, LogSound, LogOf
<1>5. AheadSound'
  BY <1>2 DEF AheadSound
<1>6. WaitsSound'
  BY <1>1, <1>3 DEF WaitsSound, WaitsOf, Busy, Flushed
<1>7. ToldSound' /\ MarkSound'
  BY <1>1, <1>2, <1>3 DEF ToldSound, ToldOf, ToldNow, MarkSound, MarkOf, Marked, Reconciled
<1> QED
  BY <1>2, <1>4, <1>5, <1>6, <1>7

\* A notice that reconcile() comes to is in the log and nowhere else.
LEMMA ReconcileNext ==
  ASSUME IInv, ~Idle, Head(todo).op = "reconcile", NEW k \in Head(todo).keys
  PROVE  /\ k \in Keys
         /\ mem[k] = NoRecord /\ disk[k] \in Record /\ disk[k].state \in Undelivered
         /\ calls[k] \in {"lost", "over"}
         /\ k \notin buffer /\ k \notin acked /\ \A t \in timers : t.key # k
         /\ k \in excused \/ sent[k] = 0
         /\ calls[k] = "lost" /\ (setup.storeFails => restarts <= 1) =>
              restarts > 0 /\ (disk[k].kind = "degraded" \/ disk[k].state = "staged")
<1> USE DEF IInv
<1>1. /\ Head(todo) \in Ahead /\ Ahead = {Head(todo)}
      /\ Head(todo).keys \subseteq Keys
  BY NextPart, PartKinds, ShortCalls
<1>2. /\ k \in Keys /\ mem[k] = NoRecord /\ disk[k].state \in Undelivered
      /\ calls[k] \in {"lost", "over"}
  BY <1>1 DEF AheadSound, PartSound
<1>3. disk[k] \in Record
  BY <1>2, RecordOrNone DEF TypeOK, Undelivered
<1>4. k \notin buffer /\ k \notin acked /\ \A t \in timers : t.key # k
  BY <1>2, RecordOrNone DEF WaitsSound, WaitsOf, LogSound, LogOf, Undelivered, TimersSound
<1>5. k \in excused \/ sent[k] = 0
  BY <1>1, <1>2 DEF ToldSound, ToldOf, ToldNow, Undelivered
<1>6. ASSUME calls[k] = "lost", setup.storeFails => restarts <= 1
      PROVE  restarts > 0 /\ (disk[k].kind = "degraded" \/ disk[k].state = "staged")
  <2>1. Reconciled(k)
    BY <1>1 DEF Reconciled
  <2> QED
    BY <1>2, <1>6, <2>1 DEF MarkSound, MarkOf, Marked, Undelivered
<1> QED
  BY <1>2, <1>3, <1>4, <1>5, <1>6

\* reconcile() goes on with the others; this notice may be sent first.
LEMMA ReconcileBegins ==
  ASSUME IInv, ~Idle, Head(todo).op = "reconcile", NEW k \in Head(todo).keys,
         OnlyOf(k), buffer' = buffer, timers' = timers,
         NEW m \in Nat, NEW rec \in Record, NEW n \in Nat,
         \/ todo' = <<Rest(k, m)>>
         \/ /\ todo' = <<Attempt(k, rec, n), Rest(k, m)>> /\ rec.state = "pending"
            /\ mem'[k] = rec
  PROVE  /\ Ordered(todo') /\ AheadSound' /\ AheadOnlyOf(k)
         /\ ~Reconciled(k)'
         /\ todo' = <<Attempt(k, rec, n), Rest(k, m)>> => Busy(k)'
<1> USE DEF IInv
<1> DEFINE h == Head(todo)
           a == Attempt(k, rec, n)
           r == Rest(k, m)
<1>1. /\ h \in Ahead /\ Ahead = {h} /\ h.keys \subseteq Keys /\ h.count \in Nat
      /\ k \in Keys
  BY NextPart, PartKinds, ShortCalls
<1>2. a \in Parts /\ a.op = "attempt" /\ a.key = k /\ a.rec = rec
  BY <1>1, SMT DEF Attempt, Parts, AttemptParts
<1>3. r \in Parts /\ r.op = "reconcile" /\ r.keys = h.keys \ {k}
  BY <1>1, SMT DEF Rest, Reconcile, Parts, ReconcileParts
<1> HIDE DEF h, a, r
<1>4. \A t \in timers : t.key # k
  BY ReconcileNext
<1>5. todo' = <<r>> \/ (todo' = <<a, r>> /\ rec.state = "pending" /\ mem'[k] = rec)
  BY DEF a, r
<1>6. Ordered(todo') /\ (todo' = <<r>> => Ahead' = {r}) /\ (todo' = <<a, r>> => Ahead' = {a, r})
  BY <1>2, <1>3, <1>5, ShortCalls DEF Ahead
<1>7. ASSUME NEW p, p = r PROVE PartSound(p)'
  <2>1. \A q \in h.keys : /\ mem[q] = NoRecord
                          /\ disk[q].state \in Undelivered
                          /\ calls[q] \in {"lost", "over"}
    BY <1>1 DEF AheadSound, PartSound, h
  <2> QED
    BY <1>1, <1>3, <1>7, <2>1 DEF PartSound, OnlyOf
<1>8. ASSUME NEW p, p = a, todo' = <<a, r>> PROVE PartSound(p)'
  <2>1. p.rec.state = "pending" /\ mem'[p.key] = p.rec
    BY <1>2, <1>5, <1>8, SMT
  <2> QED
    BY <1>2, <1>4, <1>8, <2>1 DEF PartSound
<1>9. AheadSound'
  BY <1>5, <1>6, <1>7, <1>8 DEF AheadSound
<1>10. AheadOnlyOf(k)
  <2>1. \A q \in Keys : ~Busy(q) /\ ~Flushed(q) /\ ~ToldNow(q)
    BY <1>1 DEF Busy, Flushed, ToldNow, h
  <2>2. \A q \in Keys : Reconciled(q)' => Reconciled(q)
    BY <1>1, <1>2, <1>3, <1>5, <1>6 DEF Reconciled, h
  <2> QED
    BY <2>1, <2>2 DEF AheadOnlyOf
<1>11. ~Reconciled(k)'
  BY <1>2, <1>3, <1>5, <1>6 DEF Reconciled
<1>12. todo' = <<a, r>> => Busy(k)'
  BY <1>2, <1>6 DEF Busy
<1> QED
  BY <1>6, <1>9, <1>10, <1>11, <1>12 DEF a, r

\* reconcile() deals with a notice: it is given up, left or sent.
LEMMA ReconcileKeeps ==
  ASSUME IInv, ~Idle, Head(todo).op = "reconcile", NEW k \in Head(todo).keys,
         NEW next \in Record \cup {NoRecord}, NEW noted \in Record,
         NEW rec \in Record, NEW m \in Nat, NEW n \in Nat,
         mem' = [mem EXCEPT ![k] = next],
         disk' = [disk EXCEPT ![k] = noted] \/ (disk' = disk /\ setup.storeFails),
         UNCHANGED <<setup, buffer, window, timers, calls, old, restarts, sent, acked, excused>>,
         \/ todo' = <<Rest(k, m)>> /\ next.state \in {"none", "abandoned"}
         \/ /\ todo' = <<Attempt(k, rec, n), Rest(k, m)>> /\ rec.state = "pending"
            /\ next = rec,
         noted.state \in Undelivered \/ (noted.state = "abandoned" /\ next.state = "abandoned"),
         disk[k].kind = "degraded" \/ disk[k].state = "staged" =>
           /\ next.state = "pending" => next.kind = "degraded"
           /\ \/ noted.state = "abandoned" \/ noted.kind = "degraded"
              \/ noted.state = "staged" /\ next = NoRecord
  PROVE  IInv'
<1>1. /\ k \in Keys
      /\ mem[k] = NoRecord /\ disk[k] \in Record /\ disk[k].state \in Undelivered
      /\ calls[k] \in {"lost", "over"}
      /\ k \notin buffer /\ k \notin acked /\ \A t \in timers : t.key # k
      /\ k \in excused \/ sent[k] = 0
      /\ calls[k] = "lost" /\ (setup.storeFails => restarts <= 1) =>
           restarts > 0 /\ (disk[k].kind = "degraded" \/ disk[k].state = "staged")
  BY ReconcileNext
<1>2. /\ mem' \in [Keys -> Record \cup {NoRecord}] /\ mem'[k] = next
      /\ disk' \in [Keys -> Record \cup {NoRecord}]
      /\ disk'[k] = noted \/ (disk'[k] = disk[k] /\ setup.storeFails)
      /\ \A q \in Keys \ {k} : mem'[q] = mem[q] /\ disk'[q] = disk[q]
  BY <1>1 DEF IInv, TypeOK
<1>3. TypeOK'
  BY <1>2 DEF IInv, TypeOK
<1>4. OnlyOf(k)
  BY <1>2 DEF OnlyOf
<1>5. /\ Ordered(todo') /\ AheadSound' /\ AheadOnlyOf(k) /\ ~Reconciled(k)'
      /\ todo' = <<Attempt(k, rec, n), Rest(k, m)>> => Busy(k)'
  BY <1>2, <1>4, ReconcileBegins
<1>6. buffer' # {} => window'
  BY DEF IInv, WaitsSound
<1>7. WaitsOf(k)'
  BY <1>1, <1>2, <1>5 DEF WaitsOf
<1>8. CallsOf(k)' /\ LogOf(k)'
  BY <1>1, <1>2 DEF CallsOf, LogOf, Undelivered
<1>9. ToldOf(k)'
  BY <1>1 DEF ToldOf
<1>10. MarkOf(k)'
  BY <1>1, <1>2, <1>5 DEF MarkOf, Marked
<1>11. \A t \in timers' : t.key # k
  BY <1>1
<1> QED
  BY <1>1, <1>3, <1>4, <1>5, <1>6, <1>7, <1>8, <1>9, <1>10, <1>11, OneNotice

LEMMA ReconcileAbandonKeeps ==
  ASSUME IInv, NEW k \in Keys, ReconcileAbandon(k) PROVE IInv'
<1> DEFINE next == [disk[k] EXCEPT !.state = "abandoned"]
<1>1. /\ ~Idle /\ Head(todo).op = "reconcile" /\ k \in Head(todo).keys
      /\ mem' = [mem EXCEPT ![k] = next]
      /\ disk' = [disk EXCEPT ![k] = next] \/ (disk' = disk /\ setup.storeFails)
      /\ UNCHANGED <<setup, buffer, window, timers, calls, old, restarts, sent, acked, excused>>
      /\ todo' = <<Rest(k, 0)>>
  <2>1. disk[k] # NoRecord
    BY ReconcileNext, RecordOrNone DEF ReconcileAbandon
  <2> QED
    BY <2>1 DEF ReconcileAbandon, Remember, Update
<1>2. disk[k] \in Record /\ 0 \in Nat /\ "abandoned" \in State
  BY <1>1, ReconcileNext, SMT DEF State
<1>3. Has(next, "abandoned", disk[k].kind)
  BY <1>2, Patched
<1> HIDE DEF next
<1> QED
  BY <1>1, <1>2, <1>3, ReconcileKeeps DEF Has

LEMMA ReconcileFullKeeps ==
  ASSUME IInv, NEW k \in Keys, ReconcileFull(k) PROVE IInv'
<1>1. /\ ~Idle /\ Head(todo).op = "reconcile" /\ k \in Head(todo).keys
      /\ UNCHANGED <<setup, mem, disk, buffer, window, timers, calls, old, restarts, sent,
                     acked, excused>>
      /\ todo' = <<Rest(k, 0)>>
  BY DEF ReconcileFull
<1>2. mem[k] = NoRecord /\ disk[k] \in Record /\ disk[k].state \in Undelivered /\ 0 \in Nat
  BY <1>1, ReconcileNext, SMT
<1>3. mem' = [mem EXCEPT ![k] = NoRecord] /\ disk' = [disk EXCEPT ![k] = disk[k]]
  BY <1>1, <1>2 DEF IInv, TypeOK
<1>4. NoRecord.state = "none" /\ NoRecord \in Record \cup {NoRecord}
  BY RecordOrNone
<1> QED
  BY <1>1, <1>2, <1>3, <1>4, ReconcileKeeps

LEMMA ReconcileStagedKeeps ==
  ASSUME IInv, NEW k \in Keys, ReconcileStaged(k) PROVE IInv'
<1> DEFINE next == [disk[k] EXCEPT !.state = "pending", !.kind = "degraded",
                                   !.round = disk[k].round + 1]
<1>1. disk[k] # NoRecord /\ disk[k] \in Record
  BY ReconcileNext, RecordOrNone DEF ReconcileStaged
<1>2. /\ ~Idle /\ Head(todo).op = "reconcile" /\ k \in Head(todo).keys
      /\ mem' = [mem EXCEPT ![k] = next]
      /\ disk' = [disk EXCEPT ![k] = next] \/ (disk' = disk /\ setup.storeFails)
      /\ UNCHANGED <<setup, buffer, window, timers, calls, old, restarts, sent, acked, excused>>
      /\ todo' = <<Attempt(k, next, next.round), Rest(k, 1)>>
  BY <1>1 DEF ReconcileStaged, Remember, Update
<1>3. 1 \in Nat /\ "pending" \in State /\ "degraded" \in Kind /\ disk[k].round + 1 \in Nat
  BY <1>1, SMT DEF State, Kind, Record
<1>4. Has(next, "pending", "degraded")
  BY <1>1, <1>3, Patched
<1> HIDE DEF next
<1>5. next.round \in Nat /\ "pending" \in Undelivered
  BY <1>4, SMT DEF Has, Record, Undelivered
<1> QED
  BY <1>2, <1>3, <1>4, <1>5, ReconcileKeeps DEF Has

LEMMA ReconcileAgainKeeps ==
  ASSUME IInv, NEW k \in Keys, ReconcileAgain(k) PROVE IInv'
<1> DEFINE next == [disk[k] EXCEPT !.state = "pending"]
<1>1. /\ ~Idle /\ Head(todo).op = "reconcile" /\ k \in Head(todo).keys
      /\ mem' = [mem EXCEPT ![k] = next]
      /\ disk[k].state # "staged"
      /\ UNCHANGED <<setup, disk, buffer, window, timers, calls, old, restarts, sent, acked,
                     excused>>
      /\ todo' = <<Attempt(k, next, next.round + 1), Rest(k, 1)>>
  BY DEF ReconcileAgain, Remember
<1>2. disk[k] \in Record /\ disk[k].state \in Undelivered
  BY <1>1, ReconcileNext
<1>3. 1 \in Nat /\ "pending" \in State
  BY SMT DEF State
<1>4. Has(next, "pending", disk[k].kind)
  BY <1>2, <1>3, Patched
<1> HIDE DEF next
<1>5. next.round + 1 \in Nat
  BY <1>4, SMT DEF Has, Record
<1>6. disk' = [disk EXCEPT ![k] = disk[k]]
  BY <1>1 DEF IInv, TypeOK
<1> QED
  BY <1>1, <1>2, <1>3, <1>4, <1>5, <1>6, ReconcileKeeps DEF Has

-------------------------------------------------------------------------------
(* The invariant *)

LEMMA InitSound ==
  ASSUME Init PROVE IInv
<1> USE DEF Init
<1>1. TypeOK
  <2>1. setup.maxRestarts \in Nat
    BY DeliveryAssumption DEF Setup
  <2>2. 0 \in 0 .. setup.maxRestarts /\ 0 \in Nat
    BY <2>1, SMT
  <2> QED
    BY <2>2 DEF TypeOK
<1>2. Ordered(todo) /\ Ahead = {}
  BY ShortCalls DEF Ahead
<1>3. AheadSound /\ TimersSound
  BY <1>2 DEF AheadSound, TimersSound
<1>4. WaitsSound /\ CallsSound
  BY RecordOrNone DEF WaitsSound, WaitsOf, CallsSound, CallsOf
<1>5. LogSound /\ ToldSound /\ MarkSound
  BY RecordOrNone DEF LogSound, LogOf, ToldSound, ToldOf, MarkSound, MarkOf
<1> QED
  BY <1>1, <1>2, <1>3, <1>4, <1>5 DEF IInv

LEMMA StutterSound ==
  ASSUME IInv, UNCHANGED vars PROVE IInv'
<1> USE DEF IInv, vars
<1>1. TypeOK' /\ Ordered(todo') /\ Ahead' = Ahead
  BY DEF TypeOK, Ahead
<1>2. AheadSound' /\ TimersSound'
  BY <1>1 DEF AheadSound, PartSound, TimersSound
<1>3. WaitsSound' /\ CallsSound' /\ LogSound'
  BY <1>1 DEF WaitsSound, WaitsOf, Busy, Flushed, CallsSound, CallsOf, LogSound, LogOf
<1>4. ToldSound' /\ MarkSound'
  BY <1>1 DEF ToldSound, ToldOf, ToldNow, MarkSound, MarkOf, Marked, Reconciled
<1> QED
  BY <1>1, <1>2, <1>3, <1>4

LEMMA NextSound ==
  ASSUME IInv, [Next]_vars PROVE IInv'
<1>1. CASE Part
  <2>1. CASE AttemptConsumed
    BY <2>1, AttemptConsumedKeeps
  <2>2. CASE AttemptBuffered
    BY <2>2, AttemptBufferedKeeps
  <2>3. CASE AttemptSent
    BY <2>3, AttemptSentKeeps
  <2>4. CASE FlushSend
    BY <2>4, FlushSendKeeps
  <2>5. CASE SettleDelivered
    BY <2>5, SettleDeliveredKeeps
  <2>6. CASE SettleFailed
    BY <2>6, SettleFailedKeeps
  <2>7. CASE RebuildDone
    BY <2>7, RebuildDoneKeeps
  <2>8. CASE ReconcileDone
    BY <2>8, ReconcileDoneKeeps
  <2>9. ASSUME NEW k \in Keys,
               ReconcileAbandon(k) \/ ReconcileFull(k) \/ ReconcileStaged(k) \/ ReconcileAgain(k)
        PROVE  IInv'
    BY <2>9, ReconcileAbandonKeeps, ReconcileFullKeeps, ReconcileStagedKeeps, ReconcileAgainKeeps
  <2> QED
    BY <1>1, <2>1, <2>2, <2>3, <2>4, <2>5, <2>6, <2>7, <2>8, <2>9 DEF Part
<1>2. ASSUME NEW k \in Keys, NEW kind \in {"completed", "failed"}, NEW hold \in BOOLEAN,
             EnqueueNew(k, kind, hold)
      PROVE  IInv'
  BY <1>2, EnqueueNewKeeps
<1>3. ASSUME NEW k \in Keys, NEW kind \in Kind, Finalize(k, kind) PROVE IInv'
  BY <1>3, FinalizeKeeps
<1>4. ASSUME NEW k \in Keys, NotifyFailure(k) \/ Ack(k) PROVE IInv'
  BY <1>4, NotifyFailureKeeps, AckKeeps
<1>5. ASSUME NEW t \in timers, Retry(t) PROVE IInv'
  BY <1>5, RetryKeeps
<1>6. CASE CloseWindow \/ Rebuild \/ Crash
  BY <1>6, CloseWindowKeeps, RebuildKeeps, CrashKeeps
<1>7. CASE UNCHANGED vars
  BY <1>7, StutterSound
<1> QED
  BY <1>1, <1>2, <1>3, <1>4, <1>5, <1>6, <1>7 DEF Next

\* The inductive invariant holds in every state.
THEOREM Sound == Spec => []IInv
<1>1. Init => IInv
  BY InitSound
<1>2. IInv /\ [Next]_vars => IInv'
  BY NextSound
<1> QED
  BY <1>1, <1>2, PTL DEF Spec

\* Type correctness: records, timers, parts of the call in progress and what is buffered are
\* what notifier.ts and coalescer.ts can hold (PersistedDelivery, attempt, settleFailed).
THEOREM TypeCorrect == Spec => []TypeOK
BY Sound, PTL DEF IInv

-------------------------------------------------------------------------------
(* The invariants *)

\* NoneIsStuck: between two events a notice that waits in memory is waited for.
THEOREM NeverStuck == Spec => []NoneIsStuck
<1>1. ASSUME IInv PROVE NoneIsStuck
  <2> SUFFICES ASSUME Idle, NEW k \in Keys
               PROVE  /\ mem[k].state = "pending" =>
                           Cardinality({t \in timers : t.key = k}) = 1
                      /\ mem[k].state = "batched" <=> k \in buffer
                      /\ k \in buffer => window
                      /\ mem[k].state = "staged" => calls[k] = "held"
    BY DEF NoneIsStuck
  <2>1. ~Busy(k) /\ ~Flushed(k)
    BY ShortCalls DEF Idle, Ahead, Busy, Flushed
  <2>2. ASSUME mem[k].state = "pending" PROVE Cardinality({t \in timers : t.key = k}) = 1
    <3>1. PICK t \in timers : t.key = k
      BY <1>1, <2>1, <2>2 DEF IInv, WaitsSound, WaitsOf
    <3>2. {u \in timers : u.key = k} = {t}
      BY <1>1, <3>1 DEF IInv, TimersSound
    <3> QED
      BY <3>2, FS_Singleton
  <2> QED
    BY <1>1, <2>1, <2>2 DEF IInv, WaitsSound, WaitsOf
<1> QED
  BY <1>1, Sound, PTL

\* NoNeedlessRepeat: what the session has been given twice has an excuse.
THEOREM NeverRepeated == Spec => []NoNeedlessRepeat
<1>1. ASSUME IInv PROVE NoNeedlessRepeat
  BY <1>1, SMT DEF IInv, ToldSound, ToldOf, NoNeedlessRepeat
<1> QED
  BY <1>1, Sound, PTL

\* UnfinishedIsMarked: what goes out for a run whose policy never finished is
\* marked, after any number of restarts over a log that refuses nothing.
THEOREM AlwaysMarked == Spec => UnfinishedIsMarked
<1>1. ASSUME IInv, NEW k \in Keys, mem[k].state \in {"pending", "batched"},
             setup.storeFails => restarts <= 1, calls[k] \in {"held", "lost"}
      PROVE  mem[k].kind = "degraded"
  <2>1. calls[k] = "lost"
    BY <1>1 DEF IInv, CallsSound, CallsOf
  <2> QED
    BY <1>1, <2>1 DEF IInv, MarkSound, MarkOf, Marked
<1>2. ASSUME IInv, AttemptSent, NEW k \in Keys, sent'[k] # sent[k]
      PROVE  mem[k].state = "pending"
  <2> DEFINE h == Head(todo)
  <2>1. h \in Ahead /\ h.op = "attempt" /\ h.key \in Keys
    BY <1>2, NextPart, PartKinds DEF IInv, AttemptSent
  <2>2. h.key = k
    BY <1>2, <2>1 DEF AttemptSent, IInv, TypeOK
  <2> QED
    BY <1>2, <2>1, <2>2 DEF IInv, AheadSound, PartSound, AttemptSent
<1>3. ASSUME IInv, FlushSend, NEW k \in Keys, sent'[k] # sent[k]
      PROVE  mem[k].state = "batched"
  <2> DEFINE h == Head(todo)
  <2>1. h \in Ahead /\ h.op = "send" /\ h.left \subseteq h.items
        /\ \A q \in h.items : mem[q].state = "batched"
    BY <1>3, NextPart DEF IInv, FlushSend, AheadSound, PartSound
  <2>2. k \in h.left
    BY <1>3, <2>1 DEF FlushSend
  <2> QED
    BY <2>1, <2>2
<1>4. ASSUME [Next]_vars, ~AttemptSent, ~FlushSend PROVE sent' = sent
  BY <1>4 DEF Next, Part, AttemptConsumed, AttemptBuffered, SettleDelivered, SettleFailed,
    RebuildDone, Restart, ReconcileDone, ReconcileAbandon, ReconcileFull, ReconcileStaged,
    ReconcileAgain, EnqueueNew, Finalize, NotifyFailure, Ack, Retry, CloseWindow, Rebuild,
    Crash, vars
<1>5. IInv /\ [Next]_vars => [(setup.storeFails => restarts <= 1) => ~SentUnmarked]_vars
  BY <1>1, <1>2, <1>3, <1>4 DEF SentUnmarked
<1> QED
  BY <1>5, Sound, PTL DEF UnfinishedIsMarked, Spec

-------------------------------------------------------------------------------
(* The notifier keeps the contract *)

PlaceOf(k) ==
  CASE k \in acked -> "acked"
    [] k \notin acked /\ disk[k].state \in Undelivered -> "owed"
    [] k \notin acked /\ disk[k].state = "delivered" -> "told"
    [] k \notin acked /\ disk[k].state = "abandoned" -> "lapsed"
    [] OTHER -> "none"

\* One notice moves in the contract, or none does.
LEMMA OneMoves ==
  ASSUME NEW k \in Keys, sent' = sent,
         \A q \in Keys \ {k} : PlaceOf(q)' = PlaceOf(q),
         \/ PlaceOf(k)' = PlaceOf(k)
         \/ PlaceOf(k) = "none" /\ PlaceOf(k)' = "owed"
         \/ PlaceOf(k) = "owed" /\ PlaceOf(k)' = "told" /\ sent[k] > 0
         \/ PlaceOf(k) \in {"none", "owed", "told"} /\ PlaceOf(k)' = "acked"
         \/ PlaceOf(k) = "owed" /\ PlaceOf(k)' = "lapsed"
  PROVE  [Contract!Next]_(Contract!vars)
<1>1. Place = [q \in Keys |-> PlaceOf(q)] /\ Place' = [q \in Keys |-> PlaceOf(q)']
  BY DEF Place, PlaceOf
<1> DEFINE x == PlaceOf(k)'
<1> HIDE DEF x
<1>2. Place[k] = PlaceOf(k)
  BY <1>1
<1>3. x = PlaceOf(k) => Place' = Place
  BY <1>1 DEF x
<1>4. Place' = [Place EXCEPT ![k] = x]
  BY <1>1 DEF x
<1>5. CASE x = PlaceOf(k)
  BY <1>3, <1>5 DEF Contract!vars
<1>6. CASE PlaceOf(k) = "none" /\ x = "owed"
  BY <1>2, <1>4, <1>6 DEF Contract!Next, Contract!Owe, Contract!Move
<1>7. CASE PlaceOf(k) = "owed" /\ x = "told" /\ sent[k] > 0
  BY <1>2, <1>4, <1>7 DEF Contract!Next, Contract!Close, Contract!Move
<1>8. CASE PlaceOf(k) \in {"none", "owed", "told"} /\ x = "acked"
  BY <1>2, <1>4, <1>8 DEF Contract!Next, Contract!Acknowledge, Contract!Move
<1>9. CASE PlaceOf(k) = "owed" /\ x = "lapsed"
  BY <1>2, <1>4, <1>9 DEF Contract!Next, Contract!Lapse, Contract!Move
<1> QED
  BY <1>5, <1>6, <1>7, <1>8, <1>9 DEF x

\* A write of one record: a first record is owed and stays so, until it is told
\* or given up.
LEMMA WriteMoves ==
  ASSUME NEW k \in Keys, NEW rec, TypeOK,
         disk' = disk \/ disk' = [disk EXCEPT ![k] = rec],
         sent' = sent, acked' = acked,
         \/ rec.state = disk[k].state
         \/ rec.state \in Undelivered /\ disk[k].state \in Undelivered \cup {"none"}
         \/ rec.state = "delivered" /\ disk[k].state \in Undelivered /\ sent[k] > 0
         \/ rec.state = "abandoned" /\ disk[k].state \in Undelivered
  PROVE  [Contract!Next]_(Contract!vars)
<1>1. disk'[k] = disk[k] \/ disk'[k] = rec
  BY DEF TypeOK
<1>2. \A q \in Keys \ {k} : disk'[q] = disk[q]
  BY DEF TypeOK
<1>3. \A q \in Keys \ {k} : PlaceOf(q)' = PlaceOf(q)
  BY <1>2 DEF PlaceOf
<1>4. \/ PlaceOf(k)' = PlaceOf(k)
      \/ PlaceOf(k) = "none" /\ PlaceOf(k)' = "owed"
      \/ PlaceOf(k) = "owed" /\ PlaceOf(k)' = "told" /\ sent[k] > 0
      \/ PlaceOf(k) = "owed" /\ PlaceOf(k)' = "lapsed"
  BY <1>1 DEF PlaceOf, Undelivered
<1> QED
  BY <1>3, <1>4, OneMoves

\* The session is given what waits in memory, and the log does not say otherwise.
LEMMA TellMoves ==
  ASSUME IInv, NEW group \in SUBSET Keys,
         \A k \in group : mem[k].state \in {"pending", "batched"},
         sent' = [k \in Keys |-> IF k \in group THEN sent[k] + 1 ELSE sent[k]],
         UNCHANGED <<disk, acked>>
  PROVE  Contract!Next
<1>1. Place = [q \in Keys |-> PlaceOf(q)] /\ Place' = Place
  BY DEF Place, PlaceOf
<1>2. ASSUME NEW k \in group PROVE Place[k] \in {"none", "owed"}
  <2>1. PlaceOf(k) \in {"none", "owed"}
    BY DEF IInv, LogSound, LogOf, PlaceOf, Undelivered
  <2> QED
    BY <1>1, <2>1
<1>3. Contract!Tell(group)
  BY <1>1, <1>2 DEF Contract!Tell
<1> QED
  BY <1>3 DEF Contract!Next

\* The parts of a call.
LEMMA PartMoves ==
  ASSUME IInv, Part PROVE [Contract!Next]_(Contract!vars)
<1> USE DEF IInv
<1> DEFINE h == Head(todo)
<1>1. CASE \/ AttemptConsumed \/ RebuildDone \/ ReconcileDone
           \/ \E k \in Keys : ReconcileFull(k) \/ ReconcileAgain(k)
  <2>1. sent' = sent /\ acked' = acked /\ disk' = disk
    BY <1>1 DEF AttemptConsumed, RebuildDone, Restart, ReconcileDone, ReconcileFull,
      ReconcileAgain
  <2>2. UNCHANGED Contract!vars
    BY <2>1 DEF Contract!vars, Place
  <2> QED
    BY <2>2
<1>2. CASE AttemptBuffered
  <2>1. h \in Ahead /\ h.op = "attempt" /\ h.key \in Keys
    BY <1>2, NextPart, PartKinds DEF AttemptBuffered
  <2> PICK k \in Keys : k = h.key
    BY <2>1
  <2>2. mem[k].state = "pending"
    BY <1>2, <2>1 DEF AheadSound, PartSound, AttemptBuffered
  <2> DEFINE noted == [disk[k] EXCEPT !.state = "batched", !.round = h.round]
  <2>3. /\ disk' = disk \/ (disk[k] # NoRecord /\ disk' = [disk EXCEPT ![k] = noted])
        /\ sent' = sent /\ acked' = acked
    BY <1>2 DEF AttemptBuffered, Update
  <2>4. CASE disk[k] # NoRecord
    <3>1. disk[k] \in Record /\ disk[k].state \in Undelivered
      BY <2>2, <2>4, RecordOrNone
      DEF TypeOK, LogSound, LogOf, CallsSound, CallsOf, State, Undelivered
    <3>2. h.round \in Nat /\ "batched" \in State
      BY <2>1, NextPart, PartKinds, <1>2 DEF State, AttemptBuffered
    <3>3. Has(noted, "batched", disk[k].kind)
      BY <3>1, <3>2, Patched
    <3>4. noted.state \in Undelivered
      BY <3>3 DEF Has, Undelivered
    <3> HIDE DEF noted
    <3> QED
      BY <2>3, <3>1, <3>4, WriteMoves
  <2>5. CASE disk' = disk
    BY <2>3, <2>5, WriteMoves
  <2> QED
    BY <2>3, <2>4, <2>5
<1>3. CASE AttemptSent
  <2>1. h \in Ahead /\ h.op = "attempt" /\ h.key \in Keys
    BY <1>3, NextPart, PartKinds DEF AttemptSent
  <2> PICK k \in Keys : k = h.key
    BY <2>1
  <2>2. mem[k].state = "pending"
    BY <1>3, <2>1 DEF AheadSound, PartSound, AttemptSent
  <2>3. /\ disk' = disk /\ acked' = acked
        /\ sent' = sent \/ sent' = [sent EXCEPT ![k] = sent[k] + 1]
    BY <1>3 DEF AttemptSent
  <2>4. CASE sent' = sent
    BY <2>3, <2>4, WriteMoves
  <2>5. CASE sent' = [sent EXCEPT ![k] = sent[k] + 1]
    <3>1. sent' = [q \in Keys |-> IF q \in {k} THEN sent[q] + 1 ELSE sent[q]]
      BY <2>5 DEF TypeOK
    <3> QED
      BY <2>2, <2>3, <3>1, TellMoves
  <2> QED
    BY <2>3, <2>4, <2>5
<1>4. CASE FlushSend
  <2>1. /\ h \in Ahead /\ h.op = "send" /\ h.left \subseteq h.items /\ h.items \subseteq Keys
        /\ \A q \in h.items : mem[q].state = "batched"
    BY <1>4, NextPart, PartKinds DEF FlushSend, AheadSound, PartSound
  <2>2. disk' = disk /\ acked' = acked
    BY <1>4 DEF FlushSend
  <2>3. \/ sent' = sent
        \/ \E group \in SUBSET h.left :
             sent' = [k \in Keys |-> IF k \in group THEN sent[k] + 1 ELSE sent[k]]
    BY <1>4 DEF FlushSend
  <2>4. CASE sent' = sent
    <3>1. UNCHANGED Contract!vars
      BY <2>2, <2>4 DEF Contract!vars, Place
    <3> QED
      BY <3>1
  <2>5. ASSUME NEW group \in SUBSET h.left,
               sent' = [k \in Keys |-> IF k \in group THEN sent[k] + 1 ELSE sent[k]]
        PROVE  Contract!Next
    BY <2>1, <2>2, <2>5, TellMoves
  <2> QED
    BY <2>3, <2>4, <2>5
<1>5. CASE SettleDelivered \/ SettleFailed
  <2>1. ~Idle /\ h.op = "settle"
    BY <1>5 DEF SettleDelivered, SettleFailed
  <2> PICK k \in Keys : k = h.key
    BY <2>1, SettleNext
  <2>2. /\ h.rec \in Record /\ h.round \in Nat /\ (h.ok => sent[k] > 0)
        /\ disk[k].state \notin {"delivered", "consumed", "abandoned"}
    BY <2>1, SettleNext
  <2>3. h.rec.attempts + 1 \in Nat
    BY <2>2, SMT DEF Record
  <2> DEFINE a == h.rec.attempts + 1
             next == [h.rec EXCEPT !.state = "delivered", !.attempts = a, !.round = h.round]
             noted(st) == [disk[k] EXCEPT !.state = st, !.attempts = a, !.round = h.round]
  <2>4. next.attempts = a /\ next.round = h.round
    <3>1. \A x \in Nat, y \in Nat : \A q \in Record :
            /\ [q EXCEPT !.state = "delivered", !.attempts = x, !.round = y].attempts = x
            /\ [q EXCEPT !.state = "delivered", !.attempts = x, !.round = y].round = y
      BY SMT DEF Record
    <3> QED
      BY <2>2, <2>3, <3>1
  <2>5. /\ sent' = sent /\ acked' = acked
        /\ \/ disk' = disk
           \/ /\ disk[k] # NoRecord
              /\ \/ disk' = [disk EXCEPT ![k] = noted("delivered")] /\ h.ok
                 \/ disk' = [disk EXCEPT ![k] = noted("dropped")]
                 \/ disk' = [disk EXCEPT ![k] = noted("pending")]
    <3>1. CASE SettleDelivered
      <4>1. disk' = disk \/ (disk[k] # NoRecord /\ disk' =
              [disk EXCEPT ![k] = [disk[k] EXCEPT !.state = "delivered",
                                    !.attempts = next.attempts, !.round = next.round]])
        BY <3>1 DEF SettleDelivered, Update
      <4> QED
        BY <2>4, <3>1, <4>1 DEF SettleDelivered
    <3>2. CASE SettleFailed
      BY <3>2 DEF SettleFailed, Update
    <3> QED
      BY <1>5, <3>1, <3>2
  <2>6. CASE disk' = disk
    BY <2>5, <2>6, WriteMoves
  <2>7. CASE disk[k] # NoRecord
    <3>1. disk[k] \in Record /\ disk[k].state \in Undelivered
      BY <2>2, <2>7, RecordOrNone DEF TypeOK, State, Undelivered
    <3>2. \A st \in State : Has(noted(st), st, disk[k].kind)
      BY <2>2, <2>3, <3>1, Patched
    <3>3. /\ noted("delivered").state = "delivered"
          /\ noted("dropped").state = "dropped"
          /\ noted("pending").state = "pending"
      BY <3>2 DEF Has, State
    <3> HIDE DEF noted
    <3>4. "dropped" \in Undelivered /\ "pending" \in Undelivered
      BY DEF Undelivered
    <3>5. CASE disk' = [disk EXCEPT ![k] = noted("delivered")] /\ h.ok
      BY <2>2, <2>5, <3>1, <3>3, <3>5, WriteMoves
    <3>6. CASE disk' = [disk EXCEPT ![k] = noted("dropped")]
      BY <2>5, <3>1, <3>3, <3>4, <3>6, WriteMoves
    <3>7. CASE disk' = [disk EXCEPT ![k] = noted("pending")]
      BY <2>5, <3>1, <3>3, <3>4, <3>7, WriteMoves
    <3> QED
      BY <2>5, <2>6, <3>5, <3>6, <3>7
  <2> QED
    BY <2>5, <2>6, <2>7
<1>6. ASSUME NEW k \in Keys, ReconcileAbandon(k) \/ ReconcileStaged(k)
      PROVE  [Contract!Next]_(Contract!vars)
  <2>1. disk[k] \in Record /\ disk[k].state \in Undelivered
    BY <1>6, ReconcileNext DEF ReconcileAbandon, ReconcileStaged
  <2> DEFINE r1 == [disk[k] EXCEPT !.state = "abandoned"]
             r2 == [disk[k] EXCEPT !.state = "pending", !.kind = "degraded",
                                   !.round = disk[k].round + 1]
  <2>2. /\ sent' = sent /\ acked' = acked
        /\ \/ disk' = disk
           \/ disk' = [disk EXCEPT ![k] = r1]
           \/ disk' = [disk EXCEPT ![k] = r2]
    BY <1>6 DEF ReconcileAbandon, ReconcileStaged, Update
  <2>3. {"abandoned", "pending"} \subseteq State /\ "degraded" \in Kind /\ disk[k].round + 1 \in Nat
    BY <2>1, SMT DEF State, Kind, Record
  <2>4. Has(r1, "abandoned", disk[k].kind) /\ Has(r2, "pending", "degraded")
    BY <2>1, <2>3, Patched
  <2>5. r1.state = "abandoned" /\ r2.state \in Undelivered
    BY <2>4 DEF Has, Undelivered
  <2> HIDE DEF r1, r2
  <2> QED
    BY <2>1, <2>2, <2>5, WriteMoves
<1> QED
  BY <1>1, <1>2, <1>3, <1>4, <1>5, <1>6 DEF Part

\* The calls of a run.
LEMMA EnqueueNewMoves ==
  ASSUME IInv, NEW k \in Keys, NEW kind \in {"completed", "failed"}, NEW hold \in BOOLEAN,
         EnqueueNew(k, kind, hold)
  PROVE  [Contract!Next]_(Contract!vars)
<1> DEFINE rec == [state |-> IF hold THEN "staged" ELSE "pending",
                   attempts |-> 0, round |-> 0, kind |-> kind]
<1>1. disk[k].state = "none"
  BY RecordOrNone DEF IInv, CallsSound, CallsOf, EnqueueNew
<1>2. rec.state \in Undelivered
  BY SMT DEF Undelivered
<1>3. /\ disk' = disk \/ disk' = [disk EXCEPT ![k] = rec]
      /\ sent' = sent /\ acked' = acked
  BY DEF EnqueueNew, Put
<1> HIDE DEF rec
<1> QED
  BY <1>1, <1>2, <1>3, WriteMoves DEF IInv

LEMMA FinalizeMoves ==
  ASSUME IInv, NEW k \in Keys, NEW kind \in Kind, Finalize(k, kind)
  PROVE  [Contract!Next]_(Contract!vars)
<1> DEFINE r1 == [disk[k] EXCEPT !.kind = kind]
           r2 == [disk[k] EXCEPT !.kind = kind, !.state = "pending"]
<1>1. /\ mem[k] # NoRecord /\ mem[k].state \in {"staged", "consumed"}
      /\ disk[k].state \in {"staged", "consumed", "none"}
      /\ mem[k].state = "staged" => disk[k].state # "consumed"
      /\ Known(k) = mem[k]
  BY DEF IInv, CallsSound, CallsOf, LogSound, LogOf, Finalize, Known
<1>2. /\ sent' = sent /\ acked' = acked
      /\ \/ disk' = disk
         \/ disk[k] # NoRecord /\ disk' = [disk EXCEPT ![k] = r1]
         \/ disk[k] # NoRecord /\ disk' = [disk EXCEPT ![k] = r2] /\ mem[k].state = "staged"
  BY <1>1 DEF Finalize, Update
<1>3. CASE disk' = disk
  BY <1>2, <1>3, WriteMoves DEF IInv
<1>4. CASE disk[k] # NoRecord
  <2>1. disk[k] \in Record
    BY <1>4 DEF IInv, TypeOK
  <2>2. "pending" \in State /\ "pending" \in Undelivered /\ "staged" \in Undelivered
    BY DEF State, Undelivered
  <2>3. Has(r1, disk[k].state, kind) /\ Has(r2, "pending", kind)
    BY <2>1, <2>2, Patched
  <2> HIDE DEF r1, r2
  <2>4. CASE disk' = [disk EXCEPT ![k] = r1]
    BY <1>2, <2>3, <2>4, WriteMoves DEF IInv, Has
  <2>5. CASE disk' = [disk EXCEPT ![k] = r2] /\ mem[k].state = "staged"
    BY <1>1, <1>2, <2>2, <2>3, <2>5, WriteMoves DEF IInv, Has
  <2> QED
    BY <1>2, <1>3, <2>4, <2>5
<1> QED
  BY <1>2, <1>3, <1>4

LEMMA NotifyFailureMoves ==
  ASSUME IInv, NEW k \in Keys, NotifyFailure(k)
  PROVE  [Contract!Next]_(Contract!vars)
<1> DEFINE rec == [state |-> "pending", attempts |-> 0, round |-> 0, kind |-> "failed"]
           noted == [rec EXCEPT !.kind = IF disk[k].kind = "degraded"
                                         THEN "degraded" ELSE "failed"]
<1>1. /\ sent' = sent /\ acked' = acked
      /\ \/ disk' = disk
         \/ disk' = [disk EXCEPT ![k] = rec] /\ Known(k) = NoRecord
         \/ /\ disk' = [disk EXCEPT ![k] = noted]
            /\ Known(k).state \in {"dropped", "abandoned"} /\ disk[k] # NoRecord
  BY DEF NotifyFailure, Put, Update
<1>2. rec.state \in Undelivered /\ noted.state \in Undelivered
  BY SMT DEF Undelivered
<1> HIDE DEF rec, noted
<1>3. CASE disk' = disk
  BY <1>1, <1>3, WriteMoves DEF IInv
<1>4. CASE disk' = [disk EXCEPT ![k] = rec] /\ Known(k) = NoRecord
  <2>1. disk[k].state = "none"
    BY <1>4, RecordOrNone DEF Known
  <2> QED
    BY <1>1, <1>2, <1>4, <2>1, WriteMoves DEF IInv
<1>5. CASE /\ disk' = [disk EXCEPT ![k] = noted]
           /\ Known(k).state \in {"dropped", "abandoned"} /\ disk[k] # NoRecord
  <2>1. mem[k].state = "dropped"
    BY <1>5, RecordOrNone DEF IInv, CallsSound, CallsOf, Known, NotifyFailure
  <2>2. disk[k].state \in Undelivered
    BY <1>5, <2>1, RecordOrNone DEF IInv, TypeOK, LogSound, LogOf, State, Undelivered
  <2> QED
    BY <1>1, <1>2, <1>5, <2>2, WriteMoves DEF IInv
<1> QED
  BY <1>1, <1>3, <1>4, <1>5

LEMMA AckMoves ==
  ASSUME IInv, NEW k \in Keys, Ack(k)
  PROVE  [Contract!Next]_(Contract!vars)
<1>1. /\ sent' = sent /\ acked' = acked \cup {k}
      /\ \A q \in Keys \ {k} : disk'[q] = disk[q]
  BY DEF Ack, IInv, TypeOK
<1>2. \A q \in Keys \ {k} : PlaceOf(q)' = PlaceOf(q)
  BY <1>1 DEF PlaceOf
<1>3. PlaceOf(k)' = "acked"
  BY <1>1 DEF PlaceOf
<1>4. Known(k).state \in {"staged", "pending", "batched", "delivered"}
  BY DEF Ack
<1>5. k \notin acked /\ disk[k].state # "abandoned"
  BY <1>4, RecordOrNone DEF IInv, LogSound, LogOf, Known
<1>6. PlaceOf(k) \in {"none", "owed", "told"}
  BY <1>5 DEF PlaceOf
<1> QED
  BY <1>1, <1>2, <1>3, <1>6, OneMoves

LEMMA NextMoves ==
  ASSUME IInv, [Next]_vars
  PROVE  [Contract!Next]_(Contract!vars)
<1>1. ASSUME disk' = disk, sent' = sent, acked' = acked
      PROVE  [Contract!Next]_(Contract!vars)
  BY <1>1 DEF Contract!vars, Place
<1>2. CASE \/ \E t \in timers : Retry(t)
           \/ CloseWindow \/ Rebuild \/ Crash \/ UNCHANGED vars
  BY <1>1, <1>2 DEF Retry, CloseWindow, Rebuild, Crash, Restart, vars
<1> QED
  BY <1>2, PartMoves, EnqueueNewMoves, FinalizeMoves, NotifyFailureMoves, AckMoves DEF Next

\* KeepsPromise: the notifier implements the contract.
THEOREM PromiseKept == Spec => KeepsPromise
<1>1. Init => Contract!Init
  BY RecordOrNone DEF Init, Contract!Init, Place, Undelivered
<1>2. IInv /\ [Next]_vars => [Contract!Next]_(Contract!vars)
  BY NextMoves
<1> QED
  BY <1>1, <1>2, Sound, PTL DEF Spec, KeepsPromise, Contract!Spec

===============================================================================
