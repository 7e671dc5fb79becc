------------------------- MODULE ScheduleLedgerProofs -------------------------
(***************************************************************************)
(* What each operation does to the ledger, for any definitions, requests   *)
(* and stacks: it keeps the type, and it makes, moves and ends the runs it *)
(* names and no others.                                                    *)
(***************************************************************************)
EXTENDS ScheduleLedger, FiniteSetTheorems, WellFoundedInduction, TLAPS

-------------------------------------------------------------------------------
(* Least and greatest times. *)

\* A set of naturals has a least member.
LEMMA Smallest ==
  ASSUME NEW S \in SUBSET Nat, S # {}
  PROVE  \E x \in S : \A y \in S : x <= y
<1>1. PICK x \in S : \A y \in S : ~ (<<y, x>> \in OpToRel(<, Nat))
  BY NatLessThanWellFounded, WFMin, Zenon
<1>2. \A y \in S : <<y, x>> \notin OpToRel(<, Nat) => x <= y
  BY DEF OpToRel
<1> QED
  BY <1>1, <1>2

\* What Min and Max choose.
LEMMA MinIs ==
  ASSUME NEW S \in SUBSET Nat, S # {}
  PROVE  Min(S) \in S /\ \A y \in S : Min(S) <= y
BY Smallest DEF Min

LEMMA MaxIs ==
  ASSUME NEW n \in Nat, NEW S \in SUBSET (0 .. n), S # {}
  PROVE  Max(S) \in S /\ \A y \in S : Max(S) >= y
<1> DEFINE T == {m \in Nat : \E x \in S : m = n - x}
<1>1. \A x \in S : x \in Int /\ 0 <= x /\ x <= n
  OBVIOUS
<1>2. T \in SUBSET Nat /\ T # {}
  <2>1. PICK x \in S : TRUE
    OBVIOUS
  <2>2. n - x \in T
    BY <1>1, <2>1
  <2> QED
    BY <2>2
<1>3. PICK t \in T : \A u \in T : t <= u
  BY <1>2, Smallest
<1>4. PICK x \in S : t = n - x
  BY <1>3
<1>5. \A y \in S : x >= y
  BY <1>3, <1>4
<1> QED
  BY <1>5 DEF Max

LEMMA TimeFacts ==
  /\ MaxTime \in Nat /\ Tolerance \in Nat /\ 0 \in Time /\ Time \subseteq Nat
  /\ \A t \in Time : t \in Nat /\ t <= MaxTime
BY LedgerAssumption DEF Time

LEMMA LeastIs ==
  ASSUME NEW S \in SUBSET Time, NEW default
  PROVE  /\ Least(S, default) \in S \cup {default}
         /\ S # {} => Least(S, default) \in S
BY MinIs, TimeFacts DEF Least

LEMMA GreatestIs ==
  ASSUME NEW S \in SUBSET Time, S # {}
  PROVE  Greatest(S, 0) \in S /\ \A y \in S : Greatest(S, 0) >= y
BY MaxIs, TimeFacts DEF Greatest, Time

-------------------------------------------------------------------------------
(* The operations keep the ledger's type. *)

LEMMA LedgerFields ==
  ASSUME NEW l \in Ledger
  PROVE  /\ l.def \in Definitions \cup {"none"} /\ l.approved \in Definitions \cup {"none"}
         /\ l.enabled \in BOOLEAN
         /\ l.decided \in Time /\ l.fired \in Nat /\ l.missed \in Nat /\ l.skipped \in Nat
         /\ l.runs \in [Keys -> Run \cup {NoRun}]
         /\ l.requests \in [Requests -> {"none", "started", "refused"}]
BY DEF Ledger

\* One field of a ledger may be replaced by a value of its type.
LEMMA WithField ==
  ASSUME NEW l \in Ledger
  PROVE  /\ \A x \in Definitions \cup {"none"} : [l EXCEPT !.def = x] \in Ledger
         /\ \A x \in Definitions \cup {"none"} : [l EXCEPT !.approved = x] \in Ledger
         /\ \A x \in BOOLEAN : [l EXCEPT !.enabled = x] \in Ledger
         /\ \A x \in Time : [l EXCEPT !.decided = x] \in Ledger
         /\ \A x \in Nat : [l EXCEPT !.fired = x] \in Ledger
         /\ \A x \in Nat : [l EXCEPT !.missed = x] \in Ledger
         /\ \A x \in Nat : [l EXCEPT !.skipped = x] \in Ledger
         /\ \A x \in [Keys -> Run \cup {NoRun}] : [l EXCEPT !.runs = x] \in Ledger
         /\ \A x \in [Requests -> {"none", "started", "refused"}] :
              [l EXCEPT !.requests = x] \in Ledger
<1>1. \A x \in Definitions \cup {"none"} : [l EXCEPT !.def = x] \in Ledger
  BY SMT DEF Ledger
<1>2. \A x \in Definitions \cup {"none"} : [l EXCEPT !.approved = x] \in Ledger
  BY SMT DEF Ledger
<1>3. \A x \in BOOLEAN : [l EXCEPT !.enabled = x] \in Ledger
  BY SMT DEF Ledger
<1>4. \A x \in Time : [l EXCEPT !.decided = x] \in Ledger
  BY SMT DEF Ledger
<1>5. \A x \in Nat : [l EXCEPT !.fired = x] \in Ledger
  BY SMT DEF Ledger
<1>6. \A x \in Nat : [l EXCEPT !.missed = x] \in Ledger
  BY SMT DEF Ledger
<1>7. \A x \in Nat : [l EXCEPT !.skipped = x] \in Ledger
  BY SMT DEF Ledger
<1>8. \A x \in [Keys -> Run \cup {NoRun}] : [l EXCEPT !.runs = x] \in Ledger
  BY SMT DEF Ledger
<1>9. \A x \in [Requests -> {"none", "started", "refused"}] : [l EXCEPT !.requests = x] \in Ledger
  BY SMT DEF Ledger
<1> QED
  BY <1>1, <1>2, <1>3, <1>4, <1>5, <1>6, <1>7, <1>8, <1>9

\* The occurrences of a stretch of time are finitely many and lie in it.
LEMMA DueIs ==
  ASSUME NEW l \in Ledger, NEW from, NEW to
  PROVE  /\ Due(l, from, to) \in SUBSET Occurrences /\ Due(l, from, to) \in SUBSET Time
         /\ Cardinality(Due(l, from, to)) \in Nat
         /\ \A t \in Due(l, from, to) : l.def # "none" /\ t \in At[l.def] /\ from < t /\ t <= to
<1>1. Due(l, from, to) \in SUBSET Occurrences /\ Due(l, from, to) \in SUBSET Time
  BY LedgerFields, LedgerAssumption, SMT DEF Due, Occurrences
<1>2. IsFiniteSet(Time)
  BY FS_Interval, TimeFacts DEF Time
<1>3. Cardinality(Due(l, from, to)) \in Nat
  BY <1>1, <1>2, FS_Subset, FS_CardinalityType
<1>4. \A t \in Due(l, from, to) : l.def # "none" /\ t \in At[l.def] /\ from < t /\ t <= to
  BY DEF Due
<1> QED
  BY <1>1, <1>3, <1>4

\* The part of a ledger that sweeps, claims and edits of the task leave alone.
SameRuns(l, m) == m.runs = l.runs /\ m.requests = l.requests

LEMMA MissKeeps ==
  ASSUME NEW l \in Ledger, NEW M \in SUBSET Time, Cardinality(M) \in Nat
  PROVE  /\ Miss(l, M) \in Ledger /\ SameRuns(l, Miss(l, M))
         /\ Miss(l, M).def = l.def /\ Miss(l, M).approved = l.approved
         /\ Miss(l, M).enabled = l.enabled
         /\ Miss(l, M).decided >= l.decided /\ \A t \in M : Miss(l, M).decided >= t
<1>1. M \cup {l.decided} \in SUBSET Time /\ M \cup {l.decided} # {}
  BY LedgerFields
<1> DEFINE g == Greatest(M \cup {l.decided}, 0)
<1>2. g \in Time /\ g >= l.decided /\ \A t \in M : g >= t
  BY <1>1, GreatestIs
<1> HIDE DEF g
<1>3. Miss(l, M) = [l EXCEPT !.missed = @ + Cardinality(M), !.decided = g]
  BY DEF Miss, g
<1>4. l.missed + Cardinality(M) \in Nat
  BY LedgerFields
<1>5. Miss(l, M) \in Ledger
  <2> DEFINE n == l.missed + Cardinality(M)
  <2>1. n \in Nat
    BY <1>4
  <2> DEFINE m == [l EXCEPT !.missed = n]
  <2>2. Miss(l, M) = [m EXCEPT !.decided = g]
    BY <1>3
  <2> HIDE DEF n
  <2>3. m \in Ledger
    BY <2>1, WithField
  <2> HIDE DEF m
  <2> QED
    BY <1>2, <2>2, <2>3, WithField
<1>6. /\ SameRuns(l, Miss(l, M)) /\ Miss(l, M).decided = g
      /\ Miss(l, M).def = l.def /\ Miss(l, M).approved = l.approved
      /\ Miss(l, M).enabled = l.enabled
  BY <1>3, SMT DEF Ledger, SameRuns
<1> QED
  BY <1>2, <1>5, <1>6

LEMMA ConsumedKeeps ==
  ASSUME NEW l \in Ledger
  PROVE  /\ Consumed(l) \in Ledger /\ SameRuns(l, Consumed(l))
         /\ Consumed(l).decided = l.decided
<1>1. (l.enabled /\ ~ Once[l.def]) \in BOOLEAN
  OBVIOUS
<1> DEFINE e == l.enabled /\ ~ Once[l.def]
<1>2. e \in BOOLEAN
  BY <1>1
<1> HIDE DEF e
<1>3. [l EXCEPT !.enabled = e] \in Ledger
  BY <1>2, SMTT(30) DEF Ledger
<1>4. Consumed(l) = [l EXCEPT !.enabled = e]
  BY DEF Consumed, e
<1> QED
  BY <1>3, <1>4 DEF Ledger, SameRuns

LEMMA SweepKeeps ==
  ASSUME NEW l \in Ledger, NEW w
  PROVE  /\ Sweep(l, w) \in Ledger /\ SameRuns(l, Sweep(l, w))
         /\ Sweep(l, w).decided >= l.decided
<1> DEFINE S == Swept(l, w)
<1>1. S \in SUBSET Time /\ Cardinality(S) \in Nat
  BY DueIs, FS_EmptySet DEF Swept
<1>2. /\ Miss(l, S) \in Ledger /\ SameRuns(l, Miss(l, S))
      /\ Miss(l, S).decided >= l.decided
  BY <1>1, MissKeeps
<1>3. l.decided >= l.decided
  <2>1. l.decided \in Time
    BY LedgerFields
  <2>2. l.decided \in Nat
    BY <2>1, TimeFacts
  <2> QED
    BY <2>2
<1>4. CASE S = {}
  BY <1>3, <1>4 DEF Sweep, SameRuns
<1>5. CASE S # {}
  BY <1>2, <1>5, ConsumedKeeps DEF Sweep, SameRuns
<1> QED
  BY <1>4, <1>5

LEMMA RemovedKeeps ==
  ASSUME NEW l \in Ledger
  PROVE  /\ Removed(l) \in Ledger /\ SameRuns(l, Removed(l)) /\ Removed(l).decided >= l.decided
<1> DEFINE m == [l EXCEPT !.def = "none"]
<1>1. m \in Ledger
  BY WithField
<1>2. [m EXCEPT !.approved = "none"] \in Ledger
  <2> HIDE DEF m
  <2> QED
    BY <1>1, WithField
<1>3. l.decided \in Nat
  BY LedgerFields, TimeFacts
<1>4. Removed(l) = [m EXCEPT !.approved = "none"]
  BY DEF Removed
<1>5. SameRuns(l, Removed(l)) /\ Removed(l).decided = l.decided
  BY SMT DEF Removed, Ledger, SameRuns
<1> QED
  BY <1>2, <1>3, <1>4, <1>5

LEMMA RewrittenKeeps ==
  ASSUME NEW l \in Ledger, NEW now \in Time, NEW def \in Definitions,
         NEW approved \in Definitions \cup {"none"}, NEW enabled
  PROVE  LET m == Rewritten(l, now, def, approved, enabled)
         IN  m \in Ledger /\ SameRuns(l, m) /\ m.decided >= l.decided
<1> DEFINE s == Sweep(l, now)
           e == IF enabled = "kept" THEN s.enabled ELSE enabled = "on"
           s1 == [s EXCEPT !.def = def]
           s2 == [s1 EXCEPT !.approved = approved]
           p == Patched(l, now, def, approved, enabled)
           d == Max({p.decided, now})
<1>1. s \in Ledger /\ SameRuns(l, s) /\ s.decided >= l.decided
  BY SweepKeeps
<1> HIDE DEF s
<1>2. e \in BOOLEAN
  BY <1>1, LedgerFields
<1>3. p = [s2 EXCEPT !.enabled = e]
  BY DEF Patched, s
<1> HIDE DEF e
<1>4. s1 \in Ledger
  BY <1>1, WithField
<1>5. s2 \in Ledger
  <2> HIDE DEF s1
  <2> QED
    BY <1>4, WithField
<1>6. p \in Ledger
  <2> HIDE DEF s2, p
  <2> QED
    BY <1>2, <1>3, <1>5, WithField
<1>7. SameRuns(s, p) /\ p.decided = s.decided
  BY <1>1, <1>3, SMT DEF Ledger, SameRuns
<1> HIDE DEF p, s1, s2
<1>8. SameRuns(l, p) /\ p.decided >= l.decided
  BY <1>1, <1>7 DEF SameRuns
<1>9. d \in Time /\ d >= p.decided
  <2>1. {p.decided, now} \in SUBSET Time /\ {p.decided, now} # {}
    BY <1>6, LedgerFields
  <2>2. d \in {p.decided, now} /\ \A y \in {p.decided, now} : d >= y
    BY <2>1, MaxIs, TimeFacts DEF Time
  <2> QED
    BY <2>1, <2>2
<1> HIDE DEF d
<1>10. /\ [p EXCEPT !.decided = d] \in Ledger /\ SameRuns(p, [p EXCEPT !.decided = d])
       /\ [p EXCEPT !.decided = d].decided = d
  <2>1. [p EXCEPT !.decided = d] \in Ledger
    BY <1>6, <1>9, WithField
  <2> QED
    BY <1>6, <2>1, SMT DEF Ledger, SameRuns
<1>11. d >= l.decided
  <2>1. l.decided \in Time /\ p.decided \in Time
    BY <1>6, LedgerFields
  <2>2. l.decided \in Nat /\ p.decided \in Nat /\ d \in Nat
    BY <1>9, <2>1, TimeFacts
  <2> QED
    BY <1>8, <1>9, <2>2
<1>12. Rewritten(l, now, def, approved, enabled) \in {p, [p EXCEPT !.decided = d]}
  BY DEF Rewritten, p, d
<1> QED
  BY <1>6, <1>8, <1>10, <1>11, <1>12 DEF SameRuns

-------------------------------------------------------------------------------
(* What the operations do to the runs. *)

LEMMA RunIs ==
  ASSUME NEW l \in Ledger, NEW k \in Keys
  PROVE  /\ l.runs[k] \in Run \cup {NoRun}
         /\ l.runs[k] # NoRun => l.runs[k] \in Run
         /\ IsActive(l, k) => l.runs[k] \in Run /\ l.runs[k] # NoRun
<1>1. l.runs[k] \in Run \cup {NoRun}
  BY LedgerFields
<1>2. NoRun.state \notin Active
  BY DEF NoRun, Active
<1> QED
  BY <1>1, <1>2 DEF IsActive

\* The runs of K have moved on and nothing else is touched.
SameTask(l, m) ==
  /\ m.def = l.def /\ m.approved = l.approved /\ m.enabled = l.enabled
  /\ m.decided = l.decided /\ m.requests = l.requests
Moved(l, m, K) ==
  /\ \A k \in Keys \ K : m.runs[k] = l.runs[k]
  /\ \A k \in K : /\ m.runs[k].stack = l.runs[k].stack /\ m.runs[k].def = l.runs[k].def
                   /\ m.runs[k].state \in (Active \ {"queued"}) \cup Terminal

\* Replacing the records of active runs by ones in another state.
LEMMA RestateRuns ==
  ASSUME NEW l \in Ledger, NEW K \in SUBSET ActiveRuns(l),
         NEW f \in [Keys -> Run \cup {NoRun}],
         \A k \in Keys \ K : f[k] = l.runs[k],
         \A k \in K : /\ f[k].stack = l.runs[k].stack /\ f[k].def = l.runs[k].def
                      /\ f[k].state \in (Active \ {"queued"}) \cup Terminal
  PROVE  /\ [l EXCEPT !.runs = f] \in Ledger /\ SameTask(l, [l EXCEPT !.runs = f])
         /\ Moved(l, [l EXCEPT !.runs = f], K)
         /\ [l EXCEPT !.runs = f].runs = f
<1> DEFINE m == [l EXCEPT !.runs = f]
<1>1. m \in Ledger
  BY WithField
<1>2. m.runs = f /\ SameTask(l, m)
  BY SMT DEF Ledger, SameTask
<1>3. Moved(l, m, K)
  BY <1>2 DEF Moved
<1> QED
  BY <1>1, <1>2, <1>3

\* A run in another state is the same run.
LEMMA Restated ==
  ASSUME NEW l \in Ledger, NEW k \in Keys, IsActive(l, k),
         NEW s \in (Active \ {"queued"}) \cup Terminal,
         NEW q, q = [l.runs[k] EXCEPT !.state = s]
  PROVE  /\ q \in Run \cup {NoRun} /\ q.state = s
         /\ q.stack = l.runs[k].stack /\ q.def = l.runs[k].def
         /\ q.state \in (Active \ {"queued"}) \cup Terminal
<1>1. l.runs[k] \in Run /\ s \in Active \cup Terminal
  BY RunIs
<1> QED
  BY <1>1, SMT DEF Run

LEMMA EndAllMoves ==
  ASSUME NEW l \in Ledger, NEW K \in SUBSET ActiveRuns(l), NEW end \in Terminal
  PROVE  /\ EndAll(l, K, end) \in Ledger /\ SameTask(l, EndAll(l, K, end))
         /\ Moved(l, EndAll(l, K, end), K)
         /\ \A k \in K : EndAll(l, K, end).runs[k].state = end
<1> DEFINE f == [k \in Keys |-> IF k \in K THEN [l.runs[k] EXCEPT !.state = end] ELSE l.runs[k]]
<1>1. \A k \in K : k \in Keys /\ IsActive(l, k)
  BY DEF ActiveRuns
<1>2. \A k \in Keys \ K : f[k] = l.runs[k]
  OBVIOUS
<1>3. \A k \in K : f[k] = [l.runs[k] EXCEPT !.state = end]
  BY <1>1
<1>4. EndAll(l, K, end) = [l EXCEPT !.runs = f] /\ DOMAIN f = Keys /\ f = [k \in Keys |-> f[k]]
  BY DEF EndAll
<1> HIDE DEF f
<1>5. \A k \in K : /\ f[k] \in Run \cup {NoRun} /\ f[k].state = end
                   /\ f[k].stack = l.runs[k].stack /\ f[k].def = l.runs[k].def
                   /\ f[k].state \in (Active \ {"queued"}) \cup Terminal
  <2> TAKE k \in K
  <2>1. f[k] = [l.runs[k] EXCEPT !.state = end] /\ end \in (Active \ {"queued"}) \cup Terminal
    BY <1>3
  <2> QED
    BY <1>1, <2>1, Restated
<1>6. f \in [Keys -> Run \cup {NoRun}]
  BY <1>2, <1>4, <1>5, RunIs
<1> DEFINE m == [l EXCEPT !.runs = f]
<1>7. m \in Ledger /\ SameTask(l, m) /\ Moved(l, m, K) /\ m.runs = f
  BY <1>2, <1>5, <1>6, RestateRuns
<1> HIDE DEF m
<1>8. \A k \in K : m.runs[k].state = end
  BY <1>5, <1>7
<1> QED
  BY <1>4, <1>7, <1>8 DEF m

LEMMA TerminateMoves ==
  ASSUME NEW l \in Ledger, NEW K \in SUBSET ActiveRuns(l)
  PROVE  /\ Terminate(l, K) \in Ledger /\ SameTask(l, Terminate(l, K))
         /\ Moved(l, Terminate(l, K), K)
         /\ \A k \in K : Terminate(l, K).runs[k].state \in {"dropped", "unknown"}
<1> DEFINE end(k) == IF l.runs[k].state = "queued" THEN "dropped" ELSE "unknown"
           f == [k \in Keys |-> IF k \notin K THEN l.runs[k] ELSE [l.runs[k] EXCEPT !.state = end(k)]]
<1>1. \A k \in K : k \in Keys /\ IsActive(l, k)
  BY DEF ActiveRuns
<1>2. \A k \in Keys \ K : f[k] = l.runs[k]
  OBVIOUS
<1>3. \A k \in K : \E s \in {"dropped", "unknown"} : f[k] = [l.runs[k] EXCEPT !.state = s]
  <2> TAKE k \in K
  <2>1. f[k] = [l.runs[k] EXCEPT !.state = end(k)]
    BY <1>1
  <2>2. end(k) \in {"dropped", "unknown"}
    OBVIOUS
  <2> QED
    BY <2>1, <2>2
<1>4. Terminate(l, K) = [l EXCEPT !.runs = f] /\ DOMAIN f = Keys /\ f = [k \in Keys |-> f[k]]
  BY DEF Terminate
<1> HIDE DEF f
<1>5. \A k \in K : /\ f[k] \in Run \cup {NoRun} /\ f[k].state \in {"dropped", "unknown"}
                   /\ f[k].stack = l.runs[k].stack /\ f[k].def = l.runs[k].def
                   /\ f[k].state \in (Active \ {"queued"}) \cup Terminal
  <2> TAKE k \in K
  <2>1. PICK s \in {"dropped", "unknown"} : f[k] = [l.runs[k] EXCEPT !.state = s]
    BY <1>3
  <2>2. s \in (Active \ {"queued"}) \cup Terminal
    BY DEF Terminal
  <2> QED
    BY <1>1, <2>1, <2>2, Restated
<1>6. f \in [Keys -> Run \cup {NoRun}]
  BY <1>2, <1>4, <1>5, RunIs
<1> DEFINE m == [l EXCEPT !.runs = f]
<1>7. m \in Ledger /\ SameTask(l, m) /\ Moved(l, m, K) /\ m.runs = f
  BY <1>2, <1>5, <1>6, RestateRuns
<1> HIDE DEF m
<1>8. \A k \in K : m.runs[k].state \in {"dropped", "unknown"}
  BY <1>5, <1>7
<1> QED
  BY <1>4, <1>7, <1>8 DEF m

\* One run is given another state.
LEMMA OneMoves ==
  ASSUME NEW l \in Ledger, NEW k \in Keys, IsActive(l, k),
         NEW s \in (Active \ {"queued"}) \cup Terminal
  PROVE  /\ [l EXCEPT !.runs[k].state = s] \in Ledger
         /\ SameTask(l, [l EXCEPT !.runs[k].state = s])
         /\ Moved(l, [l EXCEPT !.runs[k].state = s], {k})
         /\ [l EXCEPT !.runs[k].state = s].runs[k].state = s
<1> DEFINE f == [l.runs EXCEPT ![k].state = s]
<1>1. {k} \in SUBSET ActiveRuns(l)
  BY DEF ActiveRuns
<1>2. \A j \in Keys \ {k} : f[j] = l.runs[j]
  BY LedgerFields
<1>3. f[k] = [l.runs[k] EXCEPT !.state = s] /\ DOMAIN f = Keys /\ f = [j \in Keys |-> f[j]]
  BY LedgerFields
<1>4. [l EXCEPT !.runs[k].state = s] = [l EXCEPT !.runs = f]
  OBVIOUS
<1> HIDE DEF f
<1>5. /\ f[k] \in Run \cup {NoRun} /\ f[k].state = s
      /\ f[k].stack = l.runs[k].stack /\ f[k].def = l.runs[k].def
      /\ f[k].state \in (Active \ {"queued"}) \cup Terminal
  BY <1>3, Restated
<1>6. f \in [Keys -> Run \cup {NoRun}]
  BY <1>2, <1>3, <1>5, RunIs
<1> DEFINE m == [l EXCEPT !.runs = f]
<1>7. m \in Ledger /\ SameTask(l, m) /\ Moved(l, m, {k}) /\ m.runs = f
  BY <1>1, <1>2, <1>5, <1>6, RestateRuns
<1> HIDE DEF m
<1>8. m.runs[k].state = s
  BY <1>5, <1>7
<1> QED
  BY <1>4, <1>7, <1>8 DEF m

-------------------------------------------------------------------------------
(* What the claims make of the ledger. *)

LEMMA OverdueIs ==
  ASSUME NEW l \in Ledger, NEW w, NEW t
  PROVE  /\ Overdue(l, w, t) \in SUBSET Time /\ Cardinality(Overdue(l, w, t)) \in Nat
         /\ Between(l, w, t) \in SUBSET Time /\ Cardinality(Between(l, w, t)) \in Nat
BY DueIs DEF Overdue, Between

LEMMA LateKeeps ==
  ASSUME NEW l \in Ledger, NEW w, NEW t \in Time
  PROVE  LET m == LateClaim(l, w, t)
         IN  /\ m \in Ledger /\ SameRuns(l, m) /\ m.decided >= l.decided
             /\ LateAt(w, t) /\ l.def # "none" /\ t \in At[l.def] /\ t > l.decided => m.decided >= t
<1> DEFINE M == Overdue(l, w, t)
           n == Miss(l, M)
<1>1. /\ n \in Ledger /\ SameRuns(l, n) /\ n.decided >= l.decided
      /\ \A x \in M : n.decided >= x
  BY OverdueIs, MissKeeps
<1>2. LateAt(w, t) /\ l.def # "none" /\ t \in At[l.def] /\ t > l.decided => t \in M
  <2>1. t \in Nat
    BY TimeFacts
  <2> QED
    BY <2>1 DEF Overdue, Due
<1> HIDE DEF n, M
<1>3. Consumed(n) \in Ledger /\ SameRuns(n, Consumed(n)) /\ Consumed(n).decided = n.decided
  BY <1>1, ConsumedKeeps
<1>4. LateClaim(l, w, t) = Consumed(n)
  BY DEF LateClaim, n, M
<1> QED
  BY <1>1, <1>2, <1>3, <1>4 DEF SameRuns

LEMMA DecidedKeeps ==
  ASSUME NEW l \in Ledger, NEW w, NEW t \in Time
  PROVE  LET m == Decided(l, w, t)
         IN  m \in Ledger /\ SameRuns(l, m) /\ m.decided = t /\ m.def = l.def
<1> DEFINE n == Miss(l, Overdue(l, w, t))
           b == n.skipped + Cardinality(Between(l, w, t))
           n1 == [n EXCEPT !.skipped = b]
           m == [n1 EXCEPT !.decided = t]
<1>1. n \in Ledger /\ SameRuns(l, n) /\ n.def = l.def
  BY OverdueIs, MissKeeps
<1>2. Decided(l, w, t) = m
  BY DEF Decided
<1> HIDE DEF n
<1>3. b \in Nat
  BY <1>1, OverdueIs, LedgerFields
<1> HIDE DEF b
<1>4. n1 \in Ledger
  BY <1>1, <1>3, WithField
<1>5. SameRuns(n, n1) /\ n1.def = n.def
  BY <1>1, SMT DEF Ledger, SameRuns
<1> HIDE DEF n1
<1>6. m \in Ledger
  BY <1>4, WithField
<1>7. SameRuns(n1, m) /\ m.def = n1.def /\ m.decided = t
  BY <1>4, SMT DEF Ledger, SameRuns
<1> HIDE DEF m
<1> QED
  BY <1>1, <1>2, <1>5, <1>6, <1>7 DEF SameRuns

LEMMA OverlapKeeps ==
  ASSUME NEW l \in Ledger, NEW w, NEW t \in Time
  PROVE  LET m == OverlapClaim(l, w, t)
         IN  m \in Ledger /\ SameRuns(l, m) /\ m.decided = t
<1> DEFINE d == Decided(l, w, t)
           b == d.skipped + 1
           n == [d EXCEPT !.skipped = b]
<1>1. d \in Ledger /\ SameRuns(l, d) /\ d.decided = t
  BY DecidedKeeps
<1>2. OverlapClaim(l, w, t) = Consumed(n)
  BY DEF OverlapClaim
<1> HIDE DEF d
<1>3. b \in Nat
  BY <1>1, LedgerFields
<1> HIDE DEF b
<1>4. n \in Ledger
  BY <1>1, <1>3, WithField
<1>5. SameRuns(d, n) /\ n.decided = d.decided
  BY <1>1, SMT DEF Ledger, SameRuns
<1> HIDE DEF n
<1>6. Consumed(n) \in Ledger /\ SameRuns(n, Consumed(n)) /\ Consumed(n).decided = n.decided
  BY <1>4, ConsumedKeeps
<1> QED
  BY <1>1, <1>2, <1>5, <1>6 DEF SameRuns

\* The keys are finitely many.
LEMMA KeysFinite ==
  ASSUME NEW K \in SUBSET Keys
  PROVE  Cardinality(K) \in Nat
<1>1. Occurrences \subseteq Time
  BY LedgerAssumption, SMT DEF Occurrences
<1>2. IsFiniteSet(Time)
  BY FS_Interval, TimeFacts DEF Time
<1>3. IsFiniteSet(Occurrences)
  BY <1>1, <1>2, FS_Subset
<1>4. IsFiniteSet(Keys)
  BY <1>3, FS_Union, LedgerAssumption DEF Keys
<1> QED
  BY <1>4, FS_Subset, FS_CardinalityType

\* The run that a claim makes.
NewRun(l, o) ==
  [state |-> IF Form[l.def] = "background" THEN "dispatching" ELSE "queued",
   stack |-> o, def |-> l.def]

LEMMA StartIs ==
  ASSUME NEW l \in Ledger, l.def # "none", NEW o \in Stacks, NEW k \in Keys
  PROVE  LET m == Start(l, o, k)
         IN  /\ m \in Ledger /\ SameTask(l, m)
             /\ m.runs[k] = NewRun(l, o) /\ \A j \in Keys \ {k} : m.runs[j] = l.runs[j]
<1> DEFINE r == NewRun(l, o)
           f == [l.runs EXCEPT ![k] = r]
           m == [l EXCEPT !.runs = f]
<1>1. r \in Run
  BY LedgerFields DEF NewRun, Run, Active
<1>2. Start(l, o, k) = m
  BY DEF Start, NewRun
<1> HIDE DEF r
<1>3. /\ f \in [Keys -> Run \cup {NoRun}] /\ f[k] = r
      /\ \A j \in Keys \ {k} : f[j] = l.runs[j]
  BY <1>1, LedgerFields
<1> HIDE DEF f
<1>4. m \in Ledger
  BY <1>3, WithField
<1>5. SameTask(l, m) /\ m.runs = f
  BY SMT DEF Ledger, SameTask
<1> HIDE DEF m
<1> QED
  BY <1>2, <1>3, <1>4, <1>5 DEF r

LEMMA FiredIs ==
  ASSUME NEW l \in Ledger, l.def # "none", NEW o \in Stacks, NEW w, NEW t \in Occurrences
  PROVE  LET m == FiredClaim(l, o, w, t)
         IN  /\ m \in Ledger /\ m.decided = t /\ m.requests = l.requests
             /\ m.runs[t] = NewRun(l, o)
             /\ \A j \in Keys \ (Coalesced(l) \cup {t}) : m.runs[j] = l.runs[j]
             /\ \A j \in Coalesced(l) \ {t} :
                  /\ m.runs[j].state = "coalesced"
                  /\ m.runs[j].stack = l.runs[j].stack /\ m.runs[j].def = l.runs[j].def
<1> DEFINE K == Coalesced(l)
           d == Decided(l, w, t)
           s == d.skipped + Cardinality(K)
           d1 == [d EXCEPT !.skipped = s]
           f == d1.fired + 1
           d2 == [d1 EXCEPT !.fired = f]
           e == EndAll(d2, K, "coalesced")
           b == Start(e, o, t)
<1>1. K \in SUBSET ActiveRuns(l) /\ K \in SUBSET Keys
  BY DEF Coalesced, QueuedRuns, ActiveRuns, IsActive, Active
<1>2. FiredClaim(l, o, w, t) = Consumed(b)
  <2>1. d1.fired = d.fired
    BY DecidedKeeps, SMT DEF Ledger
  <2>2. d2 = [d EXCEPT !.skipped = @ + Cardinality(K), !.fired = @ + 1]
    BY <2>1
  <2> QED
    BY <2>2 DEF FiredClaim
<1>3. t \in Time /\ t \in Keys
  BY LedgerAssumption, SMT DEF Occurrences, Keys
<1>4. d \in Ledger /\ SameRuns(l, d) /\ d.decided = t /\ d.def = l.def
  BY <1>3, DecidedKeeps
<1>5. s \in Nat
  <2> HIDE DEF d, K
  <2> QED
    BY <1>1, <1>4, KeysFinite, LedgerFields
<1> HIDE DEF d, s
<1>6. d1 \in Ledger
  BY <1>4, <1>5, WithField
<1>7. SameRuns(d, d1) /\ d1.decided = d.decided /\ d1.def = d.def
  BY <1>4, SMT DEF Ledger, SameRuns
<1> HIDE DEF d1
<1>8. f \in Nat
  BY <1>6, LedgerFields
<1> HIDE DEF f
<1>9. d2 \in Ledger
  BY <1>6, <1>8, WithField
<1>10. SameRuns(d1, d2) /\ d2.decided = d1.decided /\ d2.def = d1.def
  BY <1>6, SMT DEF Ledger, SameRuns
<1> HIDE DEF d2
<1>11. SameRuns(l, d2) /\ d2.decided = t /\ d2.def = l.def
  BY <1>4, <1>7, <1>10 DEF SameRuns
<1>12. K \in SUBSET ActiveRuns(d2)
  BY <1>1, <1>11 DEF ActiveRuns, IsActive, SameRuns
<1> HIDE DEF K
<1>13. /\ e \in Ledger /\ SameTask(d2, e) /\ Moved(d2, e, K)
       /\ \A k \in K : e.runs[k].state = "coalesced"
  <2>1. "coalesced" \in Terminal
    BY DEF Terminal
  <2> QED
    BY <1>9, <1>12, <2>1, EndAllMoves
<1> HIDE DEF e
<1>14. e.def # "none" /\ e.def = l.def
  BY <1>11, <1>13 DEF SameTask
<1>15. /\ b \in Ledger /\ SameTask(e, b) /\ b.runs[t] = NewRun(e, o)
       /\ \A j \in Keys \ {t} : b.runs[j] = e.runs[j]
  BY <1>3, <1>13, <1>14, StartIs
<1> HIDE DEF b
<1>16. /\ Consumed(b) \in Ledger /\ SameRuns(b, Consumed(b)) /\ Consumed(b).decided = b.decided
  BY <1>15, ConsumedKeeps
<1>17. NewRun(e, o) = NewRun(l, o)
  BY <1>14 DEF NewRun
<1> DEFINE m == Consumed(b)
<1>18. m.runs = b.runs /\ m.requests = l.requests /\ m.decided = t
  BY <1>11, <1>13, <1>15, <1>16 DEF SameRuns, SameTask
<1>19. \A j \in Keys \ (K \cup {t}) : m.runs[j] = l.runs[j]
  BY <1>11, <1>13, <1>15, <1>18 DEF Moved, SameRuns
<1>20. \A j \in K \ {t} :
         /\ m.runs[j].state = "coalesced"
         /\ m.runs[j].stack = l.runs[j].stack /\ m.runs[j].def = l.runs[j].def
  BY <1>1, <1>11, <1>13, <1>15, <1>18 DEF Moved, SameRuns
<1> QED
  BY <1>2, <1>15, <1>16, <1>17, <1>18, <1>19, <1>20 DEF K

LEMMA ManualIs ==
  ASSUME NEW l \in Ledger, NEW o \in Stacks, NEW r \in Requests
  PROVE  LET m == ManualClaim(l, o, r)
         IN  /\ m \in Ledger /\ m.decided = l.decided
             /\ m.requests[r] # "none"
             /\ \A q \in Requests \ {r} : m.requests[q] = l.requests[q]
             /\ \A j \in Keys \ {r} : m.runs[j] = l.runs[j]
             /\ IF Refuses(l) THEN m.runs = l.runs ELSE m.runs[r] = NewRun(l, o)
<1> DEFINE n(a) == [l EXCEPT !.requests[r] = a]
<1>1. \A a \in {"started", "refused"} :
        /\ n(a) \in Ledger /\ n(a).runs = l.runs /\ n(a).decided = l.decided /\ n(a).def = l.def
        /\ n(a).requests[r] = a /\ \A q \in Requests \ {r} : n(a).requests[q] = l.requests[q]
  <2> TAKE a \in {"started", "refused"}
  <2> DEFINE f == [l.requests EXCEPT ![r] = a]
  <2>1. /\ f \in [Requests -> {"none", "started", "refused"}]
        /\ f[r] = a /\ \A q \in Requests \ {r} : f[q] = l.requests[q]
    BY LedgerFields
  <2>2. n(a) = [l EXCEPT !.requests = f]
    OBVIOUS
  <2> HIDE DEF f, n
  <2>3. n(a) \in Ledger
    BY <2>1, <2>2, WithField
  <2>4. n(a).runs = l.runs /\ n(a).decided = l.decided /\ n(a).def = l.def /\ n(a).requests = f
    BY <2>2, SMT DEF Ledger
  <2> QED
    BY <2>1, <2>3, <2>4
<1> HIDE DEF n
<1>2. r \in Keys
  BY DEF Keys
<1>3. CASE Refuses(l)
  <2>1. ManualClaim(l, o, r) = n("refused")
    BY <1>3 DEF ManualClaim, n
  <2> QED
    BY <1>1, <1>3, <2>1
<1>4. CASE ~ Refuses(l)
  <2> DEFINE s == n("started")
             m == Start(s, o, r)
  <2>1. ManualClaim(l, o, r) = m
    BY <1>4 DEF ManualClaim, n
  <2>2. /\ s \in Ledger /\ s.runs = l.runs /\ s.decided = l.decided /\ s.def = l.def
        /\ s.requests[r] = "started" /\ \A q \in Requests \ {r} : s.requests[q] = l.requests[q]
    BY <1>1
  <2> HIDE DEF s
  <2>3. s.def # "none"
    BY <1>4, <2>2 DEF Refuses, Executable
  <2>4. /\ m \in Ledger /\ SameTask(s, m) /\ m.runs[r] = NewRun(s, o)
        /\ \A j \in Keys \ {r} : m.runs[j] = s.runs[j]
    BY <1>2, <2>2, <2>3, StartIs
  <2> HIDE DEF m
  <2>5. NewRun(s, o) = NewRun(l, o)
    BY <2>2 DEF NewRun
  <2>6. m.requests = s.requests /\ m.decided = l.decided
    BY <2>2, <2>4 DEF SameTask
  <2> QED
    BY <1>4, <2>1, <2>2, <2>4, <2>5, <2>6
<1> QED
  BY <1>3, <1>4

-------------------------------------------------------------------------------
(* Calm steps: no run is made, and a run that ends was active. *)

CalmRuns(l, m) ==
  \A k \in Keys :
    \/ m.runs[k] = l.runs[k]
    \/ /\ IsActive(l, k)
       /\ m.runs[k].stack = l.runs[k].stack /\ m.runs[k].def = l.runs[k].def
       /\ m.runs[k].state \in (Active \ {"queued"}) \cup Terminal

Calm(l, m) ==
  /\ m \in Ledger
  /\ m.decided >= l.decided
  /\ \A r \in Requests : m.requests[r] = "none" => l.requests[r] = "none"
  /\ CalmRuns(l, m)

\* Other runs than those of K are left alone.
CalmBut(l, m, K) == Calm(l, m) /\ \A k \in Keys \ K : m.runs[k] = l.runs[k]

LEMMA CalmIfSame ==
  ASSUME NEW l, NEW m \in Ledger, SameRuns(l, m), m.decided >= l.decided
  PROVE  CalmBut(l, m, {})
BY DEF CalmBut, Calm, CalmRuns, SameRuns

LEMMA CalmIfMoved ==
  ASSUME NEW l \in Ledger, NEW m \in Ledger, NEW K \in SUBSET ActiveRuns(l),
         SameTask(l, m), Moved(l, m, K)
  PROVE  CalmBut(l, m, K)
<1>1. m.decided >= l.decided /\ m.requests = l.requests
  <2>1. l.decided \in Nat
    BY LedgerFields, TimeFacts
  <2> QED
    BY <2>1 DEF SameTask
<1>2. CalmRuns(l, m)
  BY DEF CalmRuns, Moved, ActiveRuns
<1>3. \A k \in Keys \ K : m.runs[k] = l.runs[k]
  BY DEF Moved
<1> QED
  BY <1>1, <1>2, <1>3 DEF CalmBut, Calm

LEMMA CalmStutter == ASSUME NEW l \in Ledger PROVE CalmBut(l, l, {})
<1>1. l.decided \in Nat
  BY LedgerFields, TimeFacts
<1> QED
  BY <1>1 DEF CalmBut, Calm, CalmRuns

\* The operations that make no run are calm.
LEMMA CalmOperations ==
  ASSUME NEW l \in Ledger
  PROVE  /\ \A w : CalmBut(l, Sweep(l, w), {})
         /\ CalmBut(l, Removed(l), {})
         /\ \A K \in SUBSET ActiveRuns(l), end \in Terminal : CalmBut(l, EndAll(l, K, end), K)
         /\ \A K \in SUBSET ActiveRuns(l) : CalmBut(l, Terminate(l, K), K)
         /\ \A k \in Keys, end \in Terminal : CalmBut(l, Finish(l, k, end), {k})
         /\ \A k \in Keys : CalmBut(l, Progress(l, k, "running"), {k})
<1>1. ASSUME NEW w PROVE CalmBut(l, Sweep(l, w), {})
  BY SweepKeeps, CalmIfSame
<1>2. CalmBut(l, Removed(l), {})
  BY RemovedKeeps, CalmIfSame
<1>3. ASSUME NEW K \in SUBSET ActiveRuns(l), NEW end \in Terminal
      PROVE  CalmBut(l, EndAll(l, K, end), K)
  BY EndAllMoves, CalmIfMoved
<1>4. ASSUME NEW K \in SUBSET ActiveRuns(l)
      PROVE  CalmBut(l, Terminate(l, K), K)
  BY TerminateMoves, CalmIfMoved
<1>5. ASSUME NEW k \in Keys, NEW s \in (Active \ {"queued"}) \cup Terminal, NEW m,
             m = IF IsActive(l, k) THEN [l EXCEPT !.runs[k].state = s] ELSE l
      PROVE  CalmBut(l, m, {k})
  <2>1. CASE IsActive(l, k)
    <3>1. m \in Ledger /\ SameTask(l, m) /\ Moved(l, m, {k})
      BY <1>5, <2>1, OneMoves
    <3>2. {k} \in SUBSET ActiveRuns(l)
      BY <2>1 DEF ActiveRuns
    <3> QED
      BY <3>1, <3>2, CalmIfMoved
  <2>2. CASE ~ IsActive(l, k)
    BY <1>5, <2>2, CalmStutter DEF CalmBut
  <2> QED
    BY <2>1, <2>2
<1>6. ASSUME NEW k \in Keys, NEW end \in Terminal PROVE CalmBut(l, Finish(l, k, end), {k})
  BY <1>5 DEF Finish
<1>7. ASSUME NEW k \in Keys PROVE CalmBut(l, Progress(l, k, "running"), {k})
  BY <1>5 DEF Progress, Active
<1> QED
  BY <1>1, <1>2, <1>3, <1>4, <1>6, <1>7
===============================================================================
