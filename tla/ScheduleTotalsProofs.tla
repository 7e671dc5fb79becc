-------------------------- MODULE ScheduleTotalsProofs --------------------------
(***************************************************************************)
(* The totals of the ledger are true, and the schedule implements          *)
(* ScheduleContract: CountersReconcile and ImplementsContract hold for any *)
(* number of processes, any definitions and any setting of the clock.      *)
(*                                                                         *)
(* The totals are stated of a ledger, the verdicts and the mark behind     *)
(* which occurrences are void; a step is then a change of the three.  What *)
(* the contract asks of a step is shown in the words of the schedule, and  *)
(* then mapped.                                                            *)
(***************************************************************************)
EXTENDS ScheduleProofs

-------------------------------------------------------------------------------
(* What the operations do to the totals. *)

Fields == {"def", "enabled", "approved", "decided", "fired", "missed", "skipped", "runs", "requests"}

SameTotals(l, m) == m.fired = l.fired /\ m.missed = l.missed /\ m.skipped = l.skipped
SameDecided(l, m) == m.decided = l.decided /\ m.def = l.def
SameHead(l, m) == SameTotals(l, m) /\ SameDecided(l, m) /\ DOMAIN m = Fields

LEMMA LedgerDomain == ASSUME NEW l \in Ledger PROVE DOMAIN l = Fields
BY DEF Ledger, Fields

\* Assignments to other fields leave the totals alone.
LEMMA HeadKept ==
  ASSUME NEW l, DOMAIN l = Fields
  PROVE  /\ \A f : SameHead(l, [l EXCEPT !.runs = f])
         /\ \A f : SameHead(l, [l EXCEPT !.requests = f])
         /\ \A e : SameHead(l, [l EXCEPT !.enabled = e])
         /\ \A e : SameHead(l, [l EXCEPT !.approved = e])
BY DEF SameHead, SameTotals, SameDecided, Fields

LEMMA OperationsKeepHead ==
  ASSUME NEW l, DOMAIN l = Fields
  PROVE  /\ SameHead(l, Consumed(l))
         /\ \A o, k : SameHead(l, Start(l, o, k))
         /\ \A K, end : SameHead(l, EndAll(l, K, end))
<1>1. SameHead(l, Consumed(l))
  BY HeadKept DEF Consumed
<1>2. ASSUME NEW o, NEW k PROVE SameHead(l, Start(l, o, k))
  <2>1. \E f : Start(l, o, k) = [l EXCEPT !.runs = f]
    BY DEF Start
  <2> QED
    BY <2>1, HeadKept
<1>3. ASSUME NEW K, NEW end PROVE SameHead(l, EndAll(l, K, end))
  <2>1. \E f : EndAll(l, K, end) = [l EXCEPT !.runs = f]
    BY DEF EndAll
  <2> QED
    BY <2>1, HeadKept
<1> QED
  BY <1>1, <1>2, <1>3

LEMMA MissTotals ==
  ASSUME NEW l, DOMAIN l = Fields, NEW M
  PROVE  LET m == Miss(l, M)
         IN  /\ DOMAIN m = Fields /\ m.def = l.def
             /\ m.missed = l.missed + Cardinality(M)
             /\ m.fired = l.fired /\ m.skipped = l.skipped
             /\ m.decided = Greatest(M \cup {l.decided}, 0)
BY DEF Miss, Fields

\* What a claim in tolerance adds, before the run is made.
LEMMA DecidedTotals ==
  ASSUME NEW l, DOMAIN l = Fields, NEW w, NEW t
  PROVE  LET m == Decided(l, w, t)
         IN  /\ DOMAIN m = Fields /\ m.def = l.def /\ m.decided = t
             /\ m.missed = l.missed + Cardinality(Overdue(l, w, t))
             /\ m.fired = l.fired
             /\ m.skipped = l.skipped + Cardinality(Between(l, w, t))
<1> DEFINE n == Miss(l, Overdue(l, w, t))
<1>1. /\ DOMAIN n = Fields /\ n.def = l.def
      /\ n.missed = l.missed + Cardinality(Overdue(l, w, t))
      /\ n.fired = l.fired /\ n.skipped = l.skipped
  BY MissTotals
<1>2. Decided(l, w, t) =
        [n EXCEPT !.skipped = @ + Cardinality(Between(l, w, t)), !.decided = t]
  BY DEF Decided
<1> HIDE DEF n
<1> QED
  BY <1>1, <1>2 DEF Fields

LEMMA OverlapTotals ==
  ASSUME NEW l, DOMAIN l = Fields, NEW w, NEW t
  PROVE  LET m == OverlapClaim(l, w, t)
         IN  /\ m.def = l.def /\ m.decided = t
             /\ m.missed = l.missed + Cardinality(Overdue(l, w, t))
             /\ m.fired = l.fired
             /\ m.skipped = l.skipped + Cardinality(Between(l, w, t)) + 1
<1> DEFINE d == Decided(l, w, t)
           n == [d EXCEPT !.skipped = @ + 1]
<1>1. /\ DOMAIN d = Fields /\ d.def = l.def /\ d.decided = t
      /\ d.missed = l.missed + Cardinality(Overdue(l, w, t))
      /\ d.fired = l.fired
      /\ d.skipped = l.skipped + Cardinality(Between(l, w, t))
  BY DecidedTotals
<1>2. OverlapClaim(l, w, t) = Consumed(n)
  BY DEF OverlapClaim
<1> HIDE DEF d
<1>3. /\ DOMAIN n = Fields /\ n.def = d.def /\ n.decided = d.decided /\ n.missed = d.missed
      /\ n.fired = d.fired /\ n.skipped = d.skipped + 1
  BY <1>1 DEF Fields
<1> HIDE DEF n
<1>4. SameHead(n, Consumed(n))
  BY <1>3, OperationsKeepHead
<1> QED
  BY <1>1, <1>2, <1>3, <1>4 DEF SameHead, SameTotals, SameDecided

LEMMA FiredTotals ==
  ASSUME NEW l, DOMAIN l = Fields, NEW o, NEW w, NEW t
  PROVE  LET m == FiredClaim(l, o, w, t)
         IN  /\ m.def = l.def /\ m.decided = t
             /\ m.missed = l.missed + Cardinality(Overdue(l, w, t))
             /\ m.fired = l.fired + 1
             /\ m.skipped =
                  l.skipped + Cardinality(Between(l, w, t)) + Cardinality(Coalesced(l))
<1> DEFINE d == Decided(l, w, t)
           K == Coalesced(l)
           n == [d EXCEPT !.skipped = @ + Cardinality(K), !.fired = @ + 1]
           e == EndAll(n, K, "coalesced")
           b == Start(e, o, t)
<1>1. /\ DOMAIN d = Fields /\ d.def = l.def /\ d.decided = t
      /\ d.missed = l.missed + Cardinality(Overdue(l, w, t))
      /\ d.fired = l.fired
      /\ d.skipped = l.skipped + Cardinality(Between(l, w, t))
  BY DecidedTotals
<1>2. FiredClaim(l, o, w, t) = Consumed(b)
  BY DEF FiredClaim
<1> HIDE DEF d, K
<1>3. /\ DOMAIN n = Fields /\ n.def = d.def /\ n.decided = d.decided /\ n.missed = d.missed
      /\ n.fired = d.fired + 1 /\ n.skipped = d.skipped + Cardinality(K)
  BY <1>1 DEF Fields
<1> HIDE DEF n
<1>4. SameHead(n, e)
  BY <1>3, OperationsKeepHead
<1> HIDE DEF e
<1>5. SameHead(e, b)
  BY <1>4, OperationsKeepHead DEF SameHead
<1> HIDE DEF b
<1>6. SameHead(b, Consumed(b))
  BY <1>5, OperationsKeepHead DEF SameHead
<1> QED
  BY <1>1, <1>2, <1>3, <1>4, <1>5, <1>6 DEF SameHead, SameTotals, SameDecided, K

\* A sweep misses what it says, and nothing up to the new watermark is left open.
LEMMA SweepTotals ==
  ASSUME NEW l \in Ledger, NEW w \in Time
  PROVE  LET m == Sweep(l, w)
         IN  /\ DOMAIN m = Fields /\ m.def = l.def
             /\ m.missed = l.missed + Cardinality(Swept(l, w))
             /\ m.fired = l.fired /\ m.skipped = l.skipped
             /\ \A t \in Swept(l, w) : t \in Occurrences /\ l.decided < t /\ t <= m.decided
             /\ l.def # "none" =>
                  \A t \in At[l.def] : l.decided < t /\ t <= m.decided => t \in Swept(l, w)
<1> DEFINE S == Swept(l, w)
           n == Miss(l, S)
           m == Sweep(l, w)
<1>1. /\ DOMAIN l = Fields /\ l.decided \in Time /\ l.missed \in Nat
      /\ \A t \in Time : t \in Nat
  BY LedgerDomain, LedgerFields, TimeFacts
<1>2. /\ S \in SUBSET Occurrences /\ S \in SUBSET Time
      /\ \A t \in S : Executable(l) /\ t \in At[l.def] /\ l.decided < t /\ t <= Cut(w)
  BY DueIs DEF Swept
<1>3. \A t \in Time : Executable(l) /\ t \in At[l.def] /\ l.decided < t /\ t <= Cut(w) => t \in S
  BY DEF Swept, Due, Executable
<1>4. CASE S = {}
  <2>1. m = l /\ Cardinality(S) = 0
    BY <1>4, FS_EmptySet DEF Sweep
  <2> QED
    BY <1>1, <1>4, <2>1, LedgerAssumption, LedgerFields
<1>5. CASE S # {}
  <2> DEFINE g == Greatest(S \cup {l.decided}, 0)
  <2>1. g \in S \cup {l.decided} /\ \A t \in S : g >= t
    BY <1>1, <1>2, GreatestIs
  <2>2. /\ DOMAIN n = Fields /\ n.def = l.def /\ n.missed = l.missed + Cardinality(S)
        /\ n.fired = l.fired /\ n.skipped = l.skipped /\ n.decided = g
    BY <1>1, MissTotals
  <2>3. m = Consumed(n)
    BY <1>5 DEF Sweep
  <2> HIDE DEF n, g, S, m
  <2>4. SameHead(n, m)
    BY <2>2, <2>3, OperationsKeepHead
  <2>5. /\ DOMAIN m = Fields /\ m.def = l.def /\ m.missed = l.missed + Cardinality(S)
        /\ m.fired = l.fired /\ m.skipped = l.skipped /\ m.decided = g
    BY <2>2, <2>4 DEF SameHead, SameTotals, SameDecided
  <2>6. \A t \in S : t \in Nat /\ g \in Nat /\ t <= g
    BY <1>1, <1>2, <2>1
  <2>7. PICK x \in S : g = x
    <3>1. PICK y \in S : TRUE
      BY <1>5
    <3>2. g # l.decided
      BY <1>1, <1>2, <2>6, <3>1
    <3> QED
      BY <2>1, <3>2
  <2>8. ASSUME l.def # "none", NEW t \in At[l.def], l.decided < t, t <= g
        PROVE  t \in S
    <3>1. l.def \in Definitions
      BY <2>8, LedgerFields
    <3>2. t \in Time
      BY <2>8, <3>1, LedgerAssumption
    <3>3. Executable(l) /\ x <= Cut(w) /\ x \in Nat
      BY <1>1, <1>2
    <3>4. Cut(w) \in Int
      BY <1>1, TimeFacts DEF Cut
    <3>5. t <= Cut(w)
      BY <1>1, <2>7, <2>8, <3>2, <3>3, <3>4
    <3> QED
      BY <1>3, <2>8, <3>2, <3>3, <3>5
  <2> QED
    BY <1>2, <2>5, <2>6, <2>8 DEF S, m
<1> QED
  BY <1>4, <1>5

\* Min of two integers, and what it is not above.
LEMMA MinOfTwo ==
  ASSUME NEW a \in Int, NEW b \in Int
  PROVE  Min({a, b}) \in Int /\ Min({a, b}) <= a /\ Min({a, b}) <= b
<1>1. \E x \in {a, b} : \A y \in {a, b} : x <= y
  OBVIOUS
<1>2. Min({a, b}) \in {a, b} /\ \A y \in {a, b} : Min({a, b}) <= y
  BY <1>1 DEF Min
<1> QED
  BY <1>2

\* The occurrences up to a claimed one in tolerance are split in two.
LEMMA ClaimSplits ==
  ASSUME NEW l \in Ledger, l.def # "none", NEW w \in Time, NEW t \in At[l.def],
         t > l.decided, ~ LateAt(w, t)
  PROVE  LET M == Overdue(l, w, t)
             S == Between(l, w, t)
         IN  /\ M \in SUBSET Occurrences /\ S \in SUBSET Occurrences /\ M \cap S = {}
             /\ \A x \in M \cup S : l.decided < x /\ x < t
             /\ \A x \in At[l.def] : l.decided < x /\ x < t => x \in M \cup S
<1> DEFINE M == Overdue(l, w, t)
           S == Between(l, w, t)
           b == Min({Cut(w), t - 1})
           r == Reached(l, w, t)
<1>1. l.def \in Definitions /\ At[l.def] \subseteq Time
  BY LedgerFields, LedgerAssumption
<1>2. /\ l.decided \in Nat /\ t \in Nat /\ \A x \in At[l.def] : x \in Nat
  BY <1>1, LedgerFields, TimeFacts
<1>3. b \in Int /\ b <= t - 1
  <2>1. Cut(w) \in Int
    BY TimeFacts DEF Cut
  <2> QED
    BY <1>2, <2>1, MinOfTwo
<1> HIDE DEF b
<1>4. M = {x \in At[l.def] : l.decided < x /\ x <= b}
  BY DEF Overdue, Due, b
<1>5. S = {x \in At[l.def] : r < x /\ x <= t - 1}
  BY DEF Between, Due
<1>6. M \in SUBSET Occurrences /\ S \in SUBSET Occurrences
  BY DueIs DEF Overdue, Between
<1>7. /\ r \in M \cup {l.decided}
      /\ M # {} => r \in M
      /\ \A x \in M : r >= x
  <2>1. CASE M = {}
    BY <2>1 DEF Reached, Greatest
  <2>2. CASE M # {}
    <3>1. M \in SUBSET Time
      BY <1>1, <1>4
    <3>2. r = Greatest(M, 0)
      BY <2>2 DEF Reached, Greatest
    <3> QED
      BY <2>2, <3>1, <3>2, GreatestIs
  <2> QED
    BY <2>1, <2>2
<1> HIDE DEF M, S, r
<1>8. r \in Nat /\ r >= l.decided /\ r <= t - 1
  BY <1>2, <1>3, <1>4, <1>7
<1>9. M \cap S = {}
  BY <1>2, <1>4, <1>5, <1>7, <1>8
<1>10. \A x \in M \cup S : l.decided < x /\ x < t
  BY <1>2, <1>3, <1>4, <1>5, <1>8
<1>11. ASSUME NEW x \in At[l.def], l.decided < x, x < t PROVE x \in M \cup S
  <2>1. CASE r < x
    BY <1>2, <1>5, <1>11, <2>1
  <2>2. CASE x <= r
    <3>1. r \in M
      BY <1>2, <1>7, <1>8, <1>11, <2>2
    <3> QED
      BY <1>2, <1>3, <1>4, <1>11, <2>2, <3>1
  <2> QED
    BY <1>2, <1>8, <2>1, <2>2
<1> QED
  BY <1>6, <1>9, <1>10, <1>11 DEF M, S

\* A late claim misses everything up to its occurrence.
LEMMA LateTotals ==
  ASSUME NEW l \in Ledger, l.def # "none", NEW w \in Time, NEW t \in At[l.def],
         t > l.decided, LateAt(w, t)
  PROVE  LET m == LateClaim(l, w, t)
             M == Overdue(l, w, t)
         IN  /\ m.def = l.def /\ m.missed = l.missed + Cardinality(M)
             /\ m.fired = l.fired /\ m.skipped = l.skipped
             /\ \A x \in M : x \in Occurrences /\ l.decided < x /\ x <= m.decided
             /\ \A x \in At[l.def] : l.decided < x /\ x <= m.decided => x \in M
<1> DEFINE M == Overdue(l, w, t)
           n == Miss(l, M)
           g == Greatest(M \cup {l.decided}, 0)
<1>1. /\ l.def \in Definitions /\ At[l.def] \subseteq Time /\ l.decided \in Time
      /\ \A x \in Time : x \in Nat
  BY LedgerFields, LedgerAssumption, TimeFacts
<1>2. /\ M \in SUBSET Occurrences /\ M = {x \in At[l.def] : l.decided < x /\ x <= t}
  BY DueIs DEF Overdue, Due
<1>3. /\ DOMAIN n = Fields /\ n.def = l.def /\ n.missed = l.missed + Cardinality(M)
      /\ n.fired = l.fired /\ n.skipped = l.skipped /\ n.decided = g
  BY LedgerDomain, MissTotals
<1>4. LateClaim(l, w, t) = Consumed(n)
  BY DEF LateClaim
<1>5. g \in M \cup {l.decided} /\ \A x \in M : g >= x
  <2>1. M \cup {l.decided} \in SUBSET Time
    BY <1>1, <1>2
  <2> QED
    BY <2>1, GreatestIs
<1> HIDE DEF n, g, M
<1>6. SameHead(n, Consumed(n))
  BY <1>3, OperationsKeepHead
<1>7. \A x \in M : l.decided < x /\ x <= g
  BY <1>1, <1>2, <1>5
<1>8. \A x \in At[l.def] : l.decided < x /\ x <= g => x \in M
  BY <1>1, <1>2, <1>5
<1> QED
  BY <1>2, <1>3, <1>4, <1>6, <1>7, <1>8 DEF SameHead, SameTotals, SameDecided, M

\* An edit sweeps first; unless it voids the past, the definition stays.
LEMMA RewrittenTotals ==
  ASSUME NEW l \in Ledger, NEW now \in Time, NEW def, NEW approved, NEW enabled
  PROVE  LET m == Rewritten(l, now, def, approved, enabled)
             S == Swept(l, now)
         IN  /\ m.def = def /\ m.missed = l.missed + Cardinality(S)
             /\ m.fired = l.fired /\ m.skipped = l.skipped
             /\ \A t \in S : t \in Occurrences /\ l.decided < t /\ t <= m.decided
             /\ ~ Voids(l, now, def, approved, enabled) =>
                  /\ def = l.def
                  /\ l.def # "none" =>
                       \A t \in At[l.def] : l.decided < t /\ t <= m.decided => t \in S
<1> DEFINE s == Sweep(l, now)
           S == Swept(l, now)
           p == Patched(l, now, def, approved, enabled)
           V == Voids(l, now, def, approved, enabled)
           m == Rewritten(l, now, def, approved, enabled)
           d == Max({p.decided, now})
<1>1. /\ DOMAIN s = Fields /\ s.def = l.def
      /\ s.missed = l.missed + Cardinality(S)
      /\ s.fired = l.fired /\ s.skipped = l.skipped
      /\ \A t \in S : t \in Occurrences /\ l.decided < t /\ t <= s.decided
      /\ l.def # "none" =>
           \A t \in At[l.def] : l.decided < t /\ t <= s.decided => t \in S
  BY SweepTotals
<1>2. s.decided \in Nat
  BY SweepKeeps, LedgerFields, TimeFacts
<1>3. \E e : p = [s EXCEPT !.def = def, !.approved = approved, !.enabled = e]
  BY DEF Patched
<1>4. ~ V => def = l.def
  BY DEF Voids
<1>5. m = IF V THEN [p EXCEPT !.decided = d] ELSE p
  BY DEF Rewritten
<1> HIDE DEF s, p, V, m, S
<1>6. /\ DOMAIN p = Fields /\ p.def = def /\ p.missed = s.missed /\ p.fired = s.fired
      /\ p.skipped = s.skipped /\ p.decided = s.decided
  BY <1>1, <1>3 DEF Fields
<1>7. d \in Nat /\ d >= s.decided
  <2>1. now \in Nat
    BY TimeFacts
  <2>2. \E x \in {p.decided, now} : \A y \in {p.decided, now} : x >= y
    BY <1>2, <1>6, <2>1
  <2>3. d \in {p.decided, now} /\ \A y \in {p.decided, now} : d >= y
    BY <2>2 DEF Max
  <2> QED
    BY <1>2, <1>6, <2>1, <2>3
<1> HIDE DEF d
<1>8. /\ m.def = def /\ m.missed = s.missed /\ m.fired = s.fired /\ m.skipped = s.skipped
      /\ m.decided = IF V THEN d ELSE s.decided
  BY <1>5, <1>6 DEF Fields
<1>9. \A t \in S : t \in Nat
  <2>1. Occurrences \subseteq Time
    BY LedgerAssumption, SMT DEF Occurrences
  <2> QED
    BY <1>1, <2>1, TimeFacts
<1>10. \A t \in S : t \in Occurrences /\ l.decided < t /\ t <= m.decided
  BY <1>1, <1>2, <1>7, <1>8, <1>9
<1> QED
  BY <1>1, <1>4, <1>8, <1>10 DEF m, S, V

-------------------------------------------------------------------------------
(* Counting *)

Of(f, v) == {t \in Occurrences : f[t] = v}
Merged(l) == {k \in Keys : l.runs[k].state = "coalesced"}

Reconciled(l, f, u) ==
  /\ l.fired = Cardinality(Of(f, "fired"))
  /\ l.missed = Cardinality(Of(f, "missed"))
  /\ l.skipped = Cardinality(Of(f, "skipped")) + Cardinality(Merged(l))
  /\ \A t \in Occurrences :
       /\ f[t] # "open" => t <= l.decided
       /\ l.def # "none" => (t \in At[l.def] /\ t <= l.decided /\ f[t] = "open" => t <= u)

LEMMA ReconciledIs == CountersReconcile <=> Reconciled(ledger, verdict, void)
BY DEF CountersReconcile, Reconciled, Count, Of, Merged

LEMMA DisjointSum ==
  ASSUME NEW A \in SUBSET Keys, NEW B \in SUBSET Keys, A \cap B = {}
  PROVE  Cardinality(A \cup B) = Cardinality(A) + Cardinality(B)
<1>1. IsFiniteSet(Keys)
  <2>1. Occurrences \subseteq Time
    BY LedgerAssumption, SMT DEF Occurrences
  <2>2. IsFiniteSet(Time)
    BY FS_Interval, TimeFacts DEF Time
  <2>3. IsFiniteSet(Occurrences)
    BY <2>1, <2>2, FS_Subset
  <2> QED
    BY <2>3, FS_Union, LedgerAssumption DEF Keys
<1>2. IsFiniteSet(A) /\ IsFiniteSet(B)
  BY <1>1, FS_Subset
<1>3. Cardinality(A) \in Nat /\ Cardinality(B) \in Nat
  BY <1>2, FS_CardinalityType
<1>4. Cardinality(A \cup B) = Cardinality(A) + Cardinality(B) - Cardinality({})
  BY <1>2, FS_Union
<1> QED
  BY <1>3, <1>4, FS_EmptySet

\* The verdict v is given to the occurrences of S, which had another one.
LEMMA Recount ==
  ASSUME NEW f, NEW g, NEW v, NEW S \in SUBSET Occurrences,
         \A t \in S : f[t] # v /\ g[t] = v,
         \A t \in Occurrences \ S : g[t] = v <=> f[t] = v
  PROVE  Cardinality(Of(g, v)) = Cardinality(Of(f, v)) + Cardinality(S)
<1>1. Of(g, v) = Of(f, v) \cup S /\ Of(f, v) \cap S = {}
  BY DEF Of
<1>2. Of(f, v) \in SUBSET Keys /\ S \in SUBSET Keys
  BY DEF Of, Keys
<1> QED
  BY <1>1, <1>2, DisjointSum

\* What a step that judges M as missed, S as skipped and F as fired must write.
LEMMA Settles ==
  ASSUME NEW l \in Ledger, NEW m \in Ledger, NEW f, NEW g, NEW u, NEW x,
         Reconciled(l, f, u),
         NEW M \in SUBSET Occurrences, NEW S \in SUBSET Occurrences, NEW F \in SUBSET Occurrences,
         M \cap S = {}, M \cap F = {}, S \cap F = {},
         \A t \in M \cup S \cup F : l.decided < t /\ t <= m.decided,
         \A t \in M : g[t] = "missed", \A t \in S : g[t] = "skipped",
         \A t \in F : g[t] = "fired",
         \A t \in Occurrences \ (M \cup S \cup F) : g[t] = f[t],
         m.decided >= l.decided,
         NEW C \in SUBSET Keys, C \cap Merged(l) = {}, Merged(m) = Merged(l) \cup C,
         m.missed = l.missed + Cardinality(M),
         m.skipped = l.skipped + Cardinality(S) + Cardinality(C),
         m.fired = l.fired + Cardinality(F),
         m.def # "none" =>
           \A t \in At[m.def] : t <= m.decided /\ g[t] = "open" => t <= x
  PROVE  Reconciled(m, g, x)
<1>1. /\ l.decided \in Nat /\ m.decided \in Nat /\ \A t \in Occurrences : t \in Nat
  <2>1. Occurrences \subseteq Time
    BY LedgerAssumption, SMT DEF Occurrences
  <2> QED
    BY <2>1, LedgerFields, TimeFacts
<1>2. \A t \in M \cup S \cup F : f[t] = "open"
  BY <1>1 DEF Reconciled
<1>3. Cardinality(Of(g, "missed")) = Cardinality(Of(f, "missed")) + Cardinality(M)
  <2>1. \A t \in M : f[t] # "missed" /\ g[t] = "missed"
    BY <1>2
  <2>2. \A t \in Occurrences \ M : g[t] = "missed" <=> f[t] = "missed"
    BY <1>2
  <2> QED
    BY <2>1, <2>2, Recount
<1>4. Cardinality(Of(g, "skipped")) = Cardinality(Of(f, "skipped")) + Cardinality(S)
  <2>1. \A t \in S : f[t] # "skipped" /\ g[t] = "skipped"
    BY <1>2
  <2>2. \A t \in Occurrences \ S : g[t] = "skipped" <=> f[t] = "skipped"
    BY <1>2
  <2> QED
    BY <2>1, <2>2, Recount
<1>5. Cardinality(Of(g, "fired")) = Cardinality(Of(f, "fired")) + Cardinality(F)
  <2>1. \A t \in F : f[t] # "fired" /\ g[t] = "fired"
    BY <1>2
  <2>2. \A t \in Occurrences \ F : g[t] = "fired" <=> f[t] = "fired"
    BY <1>2
  <2> QED
    BY <2>1, <2>2, Recount
<1>6. Cardinality(Merged(m)) = Cardinality(Merged(l)) + Cardinality(C)
  BY DisjointSum DEF Merged
<1>7. m.skipped = Cardinality(Of(g, "skipped")) + Cardinality(Merged(m))
  <2>1. /\ Cardinality(Of(f, "skipped")) \in Nat /\ Cardinality(S) \in Nat
        /\ Cardinality(Merged(l)) \in Nat /\ Cardinality(C) \in Nat
    <3>1. Of(f, "skipped") \in SUBSET Keys /\ S \in SUBSET Keys /\ Merged(l) \in SUBSET Keys
      BY DEF Of, Merged, Keys
    <3> QED
      BY <3>1, KeysFinite
  <2>2. l.skipped = Cardinality(Of(f, "skipped")) + Cardinality(Merged(l))
    BY DEF Reconciled
  <2> QED
    BY <1>4, <1>6, <2>1, <2>2
<1>8. \A t \in Occurrences : g[t] # "open" => t <= m.decided
  <2> SUFFICES ASSUME NEW t \in Occurrences, g[t] # "open", t \notin M \cup S \cup F
               PROVE  t <= m.decided
    OBVIOUS
  <2>1. t <= l.decided
    BY DEF Reconciled
  <2> QED
    BY <1>1, <2>1
<1>9. m.fired = Cardinality(Of(g, "fired")) /\ m.missed = Cardinality(Of(g, "missed"))
  BY <1>3, <1>5 DEF Reconciled
<1> QED
  BY <1>7, <1>8, <1>9 DEF Reconciled

\* The last condition of Settles, when the definition stays and all that has come due
\* is judged.
LEMMA NothingLeftOpen ==
  ASSUME NEW l \in Ledger, NEW m \in Ledger, NEW f, NEW g, NEW u, Reconciled(l, f, u),
         l.def # "none", m.def = l.def,
         \A t \in Occurrences : g[t] = "open" => f[t] = "open",
         \A t \in At[l.def] : l.decided < t /\ t <= m.decided => g[t] # "open"
  PROVE  \A t \in At[m.def] : t <= m.decided /\ g[t] = "open" => t <= u
<1> SUFFICES ASSUME NEW t \in At[l.def], t <= m.decided, g[t] = "open"
             PROVE  t <= u
  OBVIOUS
<1>1. l.def \in Definitions
  BY LedgerFields
<1>2. t \in Occurrences /\ t \in Nat /\ l.decided \in Nat
  <2>1. t \in Occurrences
    BY <1>1 DEF Occurrences
  <2>2. t \in Time /\ l.decided \in Time
    BY <1>1, LedgerAssumption, LedgerFields
  <2> QED
    BY <2>1, <2>2, TimeFacts
<1>3. t <= l.decided /\ f[t] = "open"
  <2>1. t <= l.decided
    <3>1. ~ (l.decided < t)
      OBVIOUS
    <3> QED
      BY <1>2, <3>1
  <2> QED
    BY <1>2, <2>1
<1> QED
  BY <1>2, <1>3 DEF Reconciled

-------------------------------------------------------------------------------
(* Steps that judge nothing. *)

Quiet(l, m) ==
  SameTotals(l, m) /\ m.decided = l.decided /\ m.def \in {l.def, "none"} /\ Merged(m) = Merged(l)

LEMMA QuietReconciles ==
  ASSUME CountersReconcile, UNCHANGED <<verdict, void>>, Quiet(ledger, ledger')
  PROVE  CountersReconcile'
<1>1. Reconciled(ledger, verdict, void)
  BY ReconciledIs
<1>2. Reconciled(ledger', verdict', void')
  BY <1>1 DEF Reconciled, Quiet, SameTotals
<1> QED
  BY <1>2 DEF CountersReconcile, Reconciled, Count, Of, Merged

\* Runs that were active take another state than "coalesced".
LEMMA MovedMerged ==
  ASSUME NEW l \in Ledger, NEW m, NEW K \in SUBSET ActiveRuns(l), Moved(l, m, K),
         \A k \in K : m.runs[k].state # "coalesced"
  PROVE  Merged(m) = Merged(l)
<1>1. \A k \in K : l.runs[k].state # "coalesced"
  BY DEF ActiveRuns, IsActive, Active
<1> QED
  BY <1>1 DEF Merged, Moved

LEMMA QuietOperations ==
  ASSUME NEW l \in Ledger
  PROVE  /\ Quiet(l, l)
         /\ Quiet(l, Removed(l))
         /\ \A K \in SUBSET ActiveRuns(l) : Quiet(l, EndAll(l, K, "dropped"))
         /\ \A K \in SUBSET ActiveRuns(l) : Quiet(l, Terminate(l, K))
         /\ \A k \in Keys : \A s \in {"dispatched", "running", "ended", "unknown", "dropped"} :
              IsActive(l, k) => Quiet(l, [l EXCEPT !.runs[k].state = s])
         /\ \A k \in Keys : \A end \in {"ended", "unknown", "dropped"} : Quiet(l, Finish(l, k, end))
         /\ \A k \in Keys : Quiet(l, Progress(l, k, "running"))
<1>1. DOMAIN l = Fields
  BY LedgerDomain
<1>2. Quiet(l, l)
  BY DEF Quiet, SameTotals
<1>3. Quiet(l, Removed(l))
  <2>1. SameTotals(l, Removed(l)) /\ Removed(l).decided = l.decided /\ Removed(l).def = "none"
    BY <1>1 DEF Removed, SameTotals, Fields
  <2>2. Removed(l).runs = l.runs
    BY <1>1 DEF Removed, Fields
  <2> QED
    BY <2>1, <2>2 DEF Quiet, Merged
<1>4. \A f : SameTotals(l, [l EXCEPT !.runs = f]) /\ SameDecided(l, [l EXCEPT !.runs = f])
  BY <1>1, HeadKept DEF SameHead
<1>5. ASSUME NEW K \in SUBSET ActiveRuns(l) PROVE Quiet(l, EndAll(l, K, "dropped"))
  <2>1. Moved(l, EndAll(l, K, "dropped"), K) /\ \A k \in K : EndAll(l, K, "dropped").runs[k].state = "dropped"
    BY EndAllMoves DEF Terminal
  <2>2. Merged(EndAll(l, K, "dropped")) = Merged(l)
    BY <2>1, MovedMerged
  <2>3. SameHead(l, EndAll(l, K, "dropped"))
    BY <1>1, OperationsKeepHead
  <2> QED
    BY <2>2, <2>3 DEF Quiet, SameHead, SameDecided
<1>6. ASSUME NEW K \in SUBSET ActiveRuns(l) PROVE Quiet(l, Terminate(l, K))
  <2>1. /\ Moved(l, Terminate(l, K), K)
        /\ \A k \in K : Terminate(l, K).runs[k].state \in {"dropped", "unknown"}
    BY TerminateMoves
  <2>2. Merged(Terminate(l, K)) = Merged(l)
    BY <2>1, MovedMerged
  <2>3. \E f : Terminate(l, K) = [l EXCEPT !.runs = f]
    BY DEF Terminate
  <2> QED
    BY <1>4, <2>2, <2>3 DEF Quiet, SameDecided
<1>7. ASSUME NEW k \in Keys, NEW s \in {"dispatched", "running", "ended", "unknown", "dropped"},
             IsActive(l, k)
      PROVE  Quiet(l, [l EXCEPT !.runs[k].state = s])
  <2> DEFINE m == [l EXCEPT !.runs[k].state = s]
  <2>1. s \in (Active \ {"queued"}) \cup Terminal
    BY DEF Active, Terminal
  <2>2. Moved(l, m, {k}) /\ m.runs[k].state = s
    BY <1>7, <2>1, OneMoves
  <2>3. {k} \in SUBSET ActiveRuns(l)
    BY <1>7 DEF ActiveRuns
  <2>4. \E f : m = [l EXCEPT !.runs = f]
    OBVIOUS
  <2> HIDE DEF m
  <2>5. Merged(m) = Merged(l)
    BY <2>2, <2>3, MovedMerged
  <2>6. Quiet(l, m)
    BY <1>4, <2>4, <2>5 DEF Quiet, SameDecided
  <2> QED
    BY <2>6 DEF m
<1>8. ASSUME NEW k \in Keys, NEW end \in {"ended", "unknown", "dropped"}
      PROVE  Quiet(l, Finish(l, k, end))
  BY <1>2, <1>7 DEF Finish
<1>9. ASSUME NEW k \in Keys PROVE Quiet(l, Progress(l, k, "running"))
  BY <1>2, <1>7 DEF Progress
<1> QED
  BY <1>2, <1>3, <1>5, <1>6, <1>7, <1>8, <1>9

\* A plain transaction is as quiet as what it writes.
LEMMA QuietTransact ==
  ASSUME IInv, CountersReconcile, UNCHANGED <<verdict, void>>,
         NEW l, Quiet(ledger, l), Transact(l) \/ Fails
  PROVE  CountersReconcile'
<1>1. ledger' = l \/ ledger' = ledger
  BY TransactIs DEF IInv
<1>2. Quiet(ledger, ledger')
  BY <1>1, QuietOperations DEF IInv, TypeOK
<1> QED
  BY <1>2, QuietReconciles

\* Steps that leave the ledger alone.
LEMMA StillReconciles ==
  ASSUME IInv, CountersReconcile, UNCHANGED <<ledger, verdict, void>>
  PROVE  CountersReconcile'
BY DEF CountersReconcile, Count

\* Steps that end runs or let them go on.
LEMMA EndingReconciles ==
  ASSUME IInv, CountersReconcile,
         \/ DropQueued
         \/ \E o \in Stacks : Recover(o) \/ CloseEpoch(o) \/ \E k \in Keys : SettleDoubt(o, k)
         \/ \E k \in Keys : \/ ExecAdmitted(k) \/ Report(k) \/ ExecDispose(k)
                           \/ DropMessage(k) \/ EndMessage(k)
  PROVE  CountersReconcile'
<1>1. ledger \in Ledger
  BY DEF IInv, TypeOK
<1>2. UNCHANGED <<verdict, void>>
  BY DEF DropQueued, Recover, SettleDoubt, CloseEpoch, ExecAdmitted, Report, ExecDispose,
         DropMessage, EndMessage, ExecutorOnly, history
<1>3. \E l : Quiet(ledger, l) /\ (Transact(l) \/ Fails)
  <2>1. CASE DropQueued
    <3>1. QueuedRuns(ledger) \in SUBSET ActiveRuns(ledger)
      BY DEF QueuedRuns, ActiveRuns, IsActive, Active
    <3> QED
      BY <1>1, <2>1, <3>1, QuietOperations DEF DropQueued
  <2>2. ASSUME NEW o \in Stacks, Recover(o) \/ CloseEpoch(o)
        PROVE  \E l : Quiet(ledger, l) /\ (Transact(l) \/ Fails)
    <3>1. CASE Recover(o)
      BY <1>1, <3>1, QuietOperations DEF Recover
    <3>2. CASE CloseEpoch(o)
      BY <1>1, <3>2, QuietOperations DEF CloseEpoch
    <3> QED
      BY <2>2, <3>1, <3>2
  <2>3. ASSUME NEW o \in Stacks, NEW k \in Keys, SettleDoubt(o, k)
        PROVE  \E l : Quiet(ledger, l) /\ (Transact(l) \/ Fails)
    BY <1>1, <2>3, QuietOperations DEF SettleDoubt
  <2>4. ASSUME NEW k \in Keys,
               ExecAdmitted(k) \/ Report(k) \/ ExecDispose(k) \/ DropMessage(k) \/ EndMessage(k)
        PROVE  \E l : Quiet(ledger, l) /\ (Transact(l) \/ Fails)
    <3>1. CASE ExecAdmitted(k)
      BY <1>1, <3>1, QuietOperations DEF ExecAdmitted
    <3>2. CASE Report(k)
      BY <1>1, <3>2, QuietOperations DEF Report
    <3>3. CASE ExecDispose(k)
      BY <1>1, <3>3, QuietOperations DEF ExecDispose
    <3>4. CASE DropMessage(k)
      <4>1. {k} \cap QueuedRuns(ledger) \in SUBSET ActiveRuns(ledger)
        BY DEF QueuedRuns, ActiveRuns, IsActive, Active
      <4>2. Quiet(ledger, Finish(ledger, k, "dropped"))
            /\ Quiet(ledger, EndAll(ledger, {k} \cap QueuedRuns(ledger), "dropped"))
        BY <1>1, <4>1, QuietOperations
      <4> QED
        BY <3>4, <4>2 DEF DropMessage
    <3>5. CASE EndMessage(k)
      BY <1>1, <3>5, QuietOperations DEF EndMessage
    <3> QED
      BY <2>4, <3>1, <3>2, <3>3, <3>4, <3>5
  <2> QED
    BY <2>1, <2>2, <2>3, <2>4
<1> QED
  BY <1>2, <1>3, QuietTransact

LEMMA SendReconciles ==
  ASSUME IInv, CountersReconcile, NEW k \in Keys, SendMessage(k)
  PROVE  CountersReconcile'
<1> DEFINE sent == [ledger EXCEPT !.runs[k].state = "dispatched"]
<1>1. ledger \in Ledger /\ UNCHANGED <<verdict, void>>
  BY DEF IInv, TypeOK, SendMessage, ExecutorOnly
<1>2. Quiet(ledger, ledger) /\ Quiet(ledger, Finish(ledger, k, "dropped"))
  BY <1>1, QuietOperations
<1>3. CASE ledger.runs[k].state = "queued" /\ Authorized(ledger, k)
  <2>1. IsActive(ledger, k)
    BY <1>3 DEF IsActive, Active
  <2>2. Quiet(ledger, sent)
    BY <1>1, <2>1, QuietOperations
  <2>3. Transact(sent) \/ Write(sent)
    BY <1>3 DEF SendMessage
  <2> HIDE DEF sent
  <2> QED
    BY <1>1, <2>2, <2>3, QuietTransact, QuietReconciles DEF Write
<1>4. CASE ~ (ledger.runs[k].state = "queued" /\ Authorized(ledger, k))
  <2>1. Transact(Finish(ledger, k, "dropped")) \/ Transact(ledger)
    BY <1>4 DEF SendMessage
  <2> QED
    BY <1>1, <1>2, <2>1, QuietTransact
<1> QED
  BY <1>3, <1>4

\* A request makes a run and judges nothing.
LEMMA ManualReconciles ==
  ASSUME IInv, CountersReconcile, NEW o \in Stacks, NEW r \in Requests, Manual(o, r)
  PROVE  CountersReconcile'
<1> DEFINE m == ManualClaim(ledger, o, r)
<1>1. ledger \in Ledger /\ r \in Keys /\ DOMAIN ledger = Fields
  BY LedgerDomain DEF IInv, TypeOK, Keys
<1>2. ledger' = m /\ UNCHANGED <<verdict, void>> /\ ledger.requests[r] = "none"
  BY DEF Manual, Write
<1>3. ledger.runs[r] = NoRun
  BY <1>1, <1>2 DEF IInv, RunsInv, BirthInv
<1>4. SameHead(ledger, m)
  <2>1. CASE Refuses(ledger)
    <3>1. \E f : m = [ledger EXCEPT !.requests = f]
      BY <2>1 DEF ManualClaim
    <3> HIDE DEF m
    <3> QED
      BY <1>1, <3>1, HeadKept
  <2>2. CASE ~ Refuses(ledger)
    <3>1. PICK f : m = Start([ledger EXCEPT !.requests = f], o, r)
      BY <2>2 DEF ManualClaim
    <3> DEFINE n == [ledger EXCEPT !.requests = f]
    <3>2. SameHead(ledger, n)
      BY <1>1, HeadKept
    <3> HIDE DEF m, n
    <3>3. SameHead(n, Start(n, o, r))
      BY <3>2, OperationsKeepHead DEF SameHead
    <3>4. m = Start(n, o, r)
      BY <3>1 DEF n
    <3> QED
      BY <3>2, <3>3, <3>4 DEF SameHead, SameTotals, SameDecided
  <2> QED
    BY <2>1, <2>2
<1>5. Merged(m) = Merged(ledger)
  <2>1. /\ \A j \in Keys \ {r} : m.runs[j] = ledger.runs[j]
        /\ m.runs = ledger.runs \/ m.runs[r] = NewRun(ledger, o)
    BY <1>1, ManualIs
  <2>2. NoRun.state # "coalesced" /\ NewRun(ledger, o).state # "coalesced"
    BY DEF NoRun, NewRun
  <2> HIDE DEF m
  <2> QED
    BY <1>3, <2>1, <2>2 DEF Merged
<1> HIDE DEF m
<1> QED
  BY <1>2, <1>4, <1>5, QuietReconciles DEF Quiet, SameHead, SameDecided

-------------------------------------------------------------------------------
(* Sweeps and edits *)

LEMMA JudgeIs ==
  ASSUME NEW S, NEW v, NEW t \in Occurrences
  PROVE  Judge(S, v)[t] = IF t \in S THEN v ELSE verdict[t]
BY DEF Judge

LEMMA NoneCounted == Cardinality({}) = 0
BY FS_EmptySet

\* Missing the occurrences of M and nothing else.
LEMMA MissReconciles ==
  ASSUME IInv, Reconciled(ledger, verdict, void), NEW m \in Ledger, NEW M \in SUBSET Occurrences,
         m.missed = ledger.missed + Cardinality(M), m.fired = ledger.fired,
         m.skipped = ledger.skipped, SameRuns(ledger, m), m.decided >= ledger.decided,
         \A t \in M : ledger.decided < t /\ t <= m.decided, NEW x,
         m.def # "none" =>
           \A t \in At[m.def] : t <= m.decided /\ Judge(M, "missed")[t] = "open" => t <= x
  PROVE  Reconciled(m, Judge(M, "missed"), x)
<1> DEFINE g == Judge(M, "missed")
           none == {}
<1>1. /\ \A t \in M : g[t] = "missed"
      /\ \A t \in Occurrences \ M : g[t] = verdict[t]
  BY JudgeIs
<1>2. Merged(m) = Merged(ledger)
  BY DEF Merged, SameRuns
<1>3. m.fired = ledger.fired + Cardinality(none)
      /\ m.skipped = ledger.skipped + Cardinality(none) + Cardinality(none)
  <2>1. ledger.fired \in Nat /\ ledger.skipped \in Nat
    BY LedgerFields DEF IInv, TypeOK
  <2> QED
    BY <2>1, NoneCounted
<1>4. /\ none \in SUBSET Occurrences /\ none \in SUBSET Keys /\ M \cap none = {}
      /\ none \cap none = {} /\ none \cap Merged(ledger) = {}
      /\ \A t \in none : g[t] = "skipped" /\ g[t] = "fired"
      /\ M \cup none \cup none = M /\ Merged(ledger) \cup none = Merged(ledger)
  OBVIOUS
<1>5. ledger \in Ledger
  BY DEF IInv, TypeOK
<1>6. m.def # "none" => \A t \in At[m.def] : t <= m.decided /\ g[t] = "open" => t <= x
  OBVIOUS
<1> HIDE DEF g, none
<1>7. Reconciled(m, g, x)
  BY <1>1, <1>2, <1>3, <1>4, <1>5, <1>6, Settles
<1> QED
  BY <1>7 DEF g

LEMMA SweepReconciles ==
  ASSUME IInv, CountersReconcile, NEW o \in Stacks, ApplySweep(o)
  PROVE  CountersReconcile'
<1> DEFINE w == plan[o].wall
           m == Sweep(ledger, w)
           S == Swept(ledger, w)
<1>1. ledger \in Ledger /\ w \in Time
  <2>1. plan[o].op = "sweep"
    BY DEF ApplySweep
  <2> QED
    BY <2>1, PlanType DEF IInv, TypeOK
<1>2. CASE ledger' = m /\ verdict' = Judge(S, "missed") /\ void' = void
  <2>1. m \in Ledger /\ SameRuns(ledger, m) /\ m.decided >= ledger.decided
    BY <1>1, SweepKeeps
  <2>2. /\ m.def = ledger.def
        /\ m.missed = ledger.missed + Cardinality(S)
        /\ m.fired = ledger.fired /\ m.skipped = ledger.skipped
        /\ \A t \in S : t \in Occurrences /\ ledger.decided < t /\ t <= m.decided
        /\ ledger.def # "none" =>
             \A t \in At[ledger.def] : ledger.decided < t /\ t <= m.decided => t \in S
    BY <1>1, SweepTotals
  <2> HIDE DEF m, S
  <2>3. Reconciled(ledger, verdict, void)
    BY ReconciledIs
  <2>4. m.def # "none" =>
          \A t \in At[m.def] : t <= m.decided /\ Judge(S, "missed")[t] = "open" => t <= void
    <3>1. \A t \in S : Judge(S, "missed")[t] # "open"
      BY <2>2, JudgeIs
    <3>2. \A t \in Occurrences \ S : Judge(S, "missed")[t] = verdict[t]
      BY JudgeIs
    <3> DEFINE g == Judge(S, "missed")
    <3>3. (\A t \in S : g[t] # "open") /\ \A t \in Occurrences : g[t] = "open" => verdict[t] = "open"
      BY <3>1, <3>2
    <3>4. ASSUME m.def # "none"
          PROVE  \A t \in At[m.def] : t <= m.decided /\ g[t] = "open" => t <= void
      <4> HIDE DEF g
      <4>1. ledger.def # "none" /\ m.def = ledger.def
        BY <2>2, <3>4
      <4>2. \A t \in At[ledger.def] : ledger.decided < t /\ t <= m.decided => g[t] # "open"
        BY <2>2, <3>3, <4>1
      <4> QED
        BY <1>1, <2>1, <2>3, <3>3, <4>1, <4>2, NothingLeftOpen
    <3> QED
      BY <3>4
  <2>5. Reconciled(m, Judge(S, "missed"), void)
    BY <2>1, <2>2, <2>3, <2>4, MissReconciles
  <2> QED
    BY <1>2, <2>5 DEF CountersReconcile, Reconciled, Count, Of, Merged
<1>3. CASE UNCHANGED <<ledger, verdict, void>>
  BY <1>3, StillReconciles
<1> QED
  BY <1>2, <1>3 DEF ApplySweep, Write, Unwritten

LEMMA ChangeReconciles ==
  ASSUME IInv, CountersReconcile, NEW def \in Definitions,
         NEW approved \in Definitions \cup {"none"}, NEW enabled,
         Change(def, approved, enabled)
  PROVE  CountersReconcile'
<1> DEFINE m == Rewritten(ledger, wall, def, approved, enabled)
           S == Swept(ledger, wall)
           V == Voids(ledger, wall, def, approved, enabled)
<1>1. ledger \in Ledger /\ wall \in Time
  BY DEF IInv, TypeOK
<1>2. m \in Ledger /\ SameRuns(ledger, m) /\ m.decided >= ledger.decided
  BY <1>1, RewrittenKeeps
<1>3. /\ m.def = def /\ m.missed = ledger.missed + Cardinality(S)
      /\ m.fired = ledger.fired /\ m.skipped = ledger.skipped
      /\ \A t \in S : t \in Occurrences /\ ledger.decided < t /\ t <= m.decided
      /\ ~ V => /\ def = ledger.def
                /\ ledger.def # "none" =>
                     \A t \in At[ledger.def] : ledger.decided < t /\ t <= m.decided => t \in S
  BY <1>1, RewrittenTotals
<1>4. /\ ledger' = m /\ verdict' = Judge(S, "missed") /\ ledger.def # "none"
      /\ void' = IF V THEN m.decided ELSE void
  BY DEF Change, Write
<1> HIDE DEF m, S, V
<1>5. Reconciled(ledger, verdict, void)
  BY ReconciledIs
<1>6. m.def # "none" =>
        \A t \in At[m.def] : t <= m.decided /\ Judge(S, "missed")[t] = "open" => t <= void'
  <2>1. CASE V
    BY <1>4, <2>1
  <2>2. CASE ~ V
    <3>1. \A t \in S : Judge(S, "missed")[t] # "open"
      BY <1>3, JudgeIs
    <3>2. \A t \in Occurrences \ S : Judge(S, "missed")[t] = verdict[t]
      BY JudgeIs
    <3>3. /\ m.def = ledger.def /\ void' = void
          /\ \A t \in At[ledger.def] : ledger.decided < t /\ t <= m.decided => t \in S
      BY <1>3, <1>4, <2>2
    <3> DEFINE g == Judge(S, "missed")
    <3>4. /\ \A t \in At[ledger.def] : ledger.decided < t /\ t <= m.decided => g[t] # "open"
          /\ \A t \in Occurrences : g[t] = "open" => verdict[t] = "open"
      BY <3>1, <3>2, <3>3
    <3>5. \A t \in At[m.def] : t <= m.decided /\ g[t] = "open" => t <= void
      <4> HIDE DEF g
      <4> QED
        BY <1>1, <1>2, <1>4, <1>5, <3>3, <3>4, NothingLeftOpen
    <3> QED
      BY <3>3, <3>5
  <2> QED
    BY <2>1, <2>2
<1>7. Reconciled(m, Judge(S, "missed"), void')
  BY <1>2, <1>3, <1>5, <1>6, MissReconciles
<1> QED
  BY <1>4, <1>7 DEF CountersReconcile, Reconciled, Count, Of, Merged

LEMMA EditsReconcile ==
  ASSUME IInv, CountersReconcile,
         Update \/ Approve \/ Resume \/ \E o \in Stacks : Pause(o) \/ Delete(o)
  PROVE  CountersReconcile'
<1>1. /\ ledger \in Ledger /\ ledger.def \in Definitions \cup {"none"}
      /\ ledger.approved \in Definitions \cup {"none"}
  BY LedgerFields DEF IInv, TypeOK
<1>2. CASE Update
  <2>1. PICK d \in Definitions :
          Change(d, ledger.approved, "kept") \/ Change(d, d, "kept")
    BY <1>2 DEF Update
  <2> QED
    BY <1>1, <2>1, ChangeReconciles
<1>3. CASE Approve \/ Resume \/ \E o \in Stacks : Pause(o)
  <2>1. \E a \in Definitions \cup {"none"} : \E e : Change(ledger.def, a, e)
    BY <1>1, <1>3 DEF Approve, Resume, Pause
  <2>2. ledger.def \in Definitions
    BY <1>1, <2>1 DEF Change
  <2> QED
    BY <2>1, <2>2, ChangeReconciles
<1>4. CASE \E o \in Stacks : Delete(o)
  <2>1. ledger' = Removed(ledger) /\ UNCHANGED <<verdict, void>>
    BY <1>4 DEF Delete, Write, history
  <2> QED
    BY <1>1, <2>1, QuietOperations, QuietReconciles
<1> QED
  BY <1>2, <1>3, <1>4

-------------------------------------------------------------------------------
(* Claims *)

\* A claim that decided has written what it judged, or nothing.
LEMMA DecideReconciles ==
  ASSUME IInv, CountersReconcile, NEW o \in Stacks, NEW m, NEW judged, NEW handed,
         Decide(o, m, judged, handed), Reconciled(m, judged, void)
  PROVE  CountersReconcile'
<1>1. CASE ledger' = m /\ verdict' = judged /\ void' = void
  BY <1>1 DEF CountersReconcile, Reconciled, Count, Of, Merged
<1>2. CASE UNCHANGED <<ledger, verdict, void>>
  BY <1>2, StillReconciles
<1> QED
  BY <1>1, <1>2 DEF Decide, Write, Unwritten

\* What a claim is about, with the facts that the lemmas on the ledger ask for.
LEMMA ClaimFacts ==
  ASSUME IInv, NEW o \in Stacks, Claiming(o)
  PROVE  /\ ledger \in Ledger /\ ledger.def # "none" /\ plan[o].wall \in Time
         /\ plan[o].t \in At[ledger.def] /\ plan[o].t > ledger.decided
         /\ plan[o].t \in Occurrences /\ plan[o].t \in Time /\ plan[o].t \in Nat
         /\ ledger.decided \in Nat
<1>1. TypeOK /\ PlanInv
  BY DEF IInv
<1>2. /\ ledger \in Ledger /\ ledger.def # "none"
      /\ plan[o].t \in At[ledger.def] /\ plan[o].t > ledger.decided
      /\ plan[o].t \in Occurrences /\ plan[o].t \in Time
  BY <1>1, ClaimingIs
<1>3. plan[o].wall \in Time
  BY <1>1, PlanType DEF Claiming, Claim
<1> QED
  BY <1>2, <1>3, LedgerFields, TimeFacts

LEMMA LateReconciles ==
  ASSUME IInv, CountersReconcile, NEW o \in Stacks, ClaimLate(o)
  PROVE  CountersReconcile'
<1> DEFINE w == plan[o].wall
           t == plan[o].t
           m == LateClaim(ledger, w, t)
           M == Overdue(ledger, w, t)
           g == Judge(M, "missed")
<1>1. Claiming(o) /\ LateAt(w, t) /\ Decide(o, m, g, work)
  BY DEF ClaimLate
<1>2. /\ ledger \in Ledger /\ ledger.def # "none" /\ w \in Time
      /\ t \in At[ledger.def] /\ t > ledger.decided /\ t \in Time
  BY <1>1, ClaimFacts
<1>3. m \in Ledger /\ SameRuns(ledger, m) /\ m.decided >= ledger.decided
  BY <1>2, LateKeeps
<1>4. /\ m.def = ledger.def /\ m.missed = ledger.missed + Cardinality(M)
      /\ m.fired = ledger.fired /\ m.skipped = ledger.skipped
      /\ \A x \in M : x \in Occurrences /\ ledger.decided < x /\ x <= m.decided
      /\ \A x \in At[ledger.def] : ledger.decided < x /\ x <= m.decided => x \in M
  BY <1>1, <1>2, LateTotals
<1>5. Reconciled(ledger, verdict, void)
  BY ReconciledIs
<1>6. \A x \in Occurrences : g[x] = IF x \in M THEN "missed" ELSE verdict[x]
  BY JudgeIs
<1>7. \A x \in At[m.def] : x <= m.decided /\ g[x] = "open" => x <= void
  <2> HIDE DEF m, M, g
  <2>1. /\ \A x \in Occurrences : g[x] = "open" => verdict[x] = "open"
        /\ \A x \in At[ledger.def] : ledger.decided < x /\ x <= m.decided => g[x] # "open"
    BY <1>4, <1>6
  <2> QED
    BY <1>2, <1>3, <1>4, <1>5, <2>1, NothingLeftOpen
<1>8. Reconciled(m, g, void)
  <2> HIDE DEF m, M
  <2> QED
    BY <1>3, <1>4, <1>5, <1>7, MissReconciles
<1> HIDE DEF m, g
<1> QED
  BY <1>1, <1>8, DecideReconciles

LEMMA JudgedIs ==
  ASSUME NEW w, NEW t, NEW v, NEW x \in Occurrences
  PROVE  Judged(w, t, v)[x] =
           IF x = t THEN v
           ELSE IF x \in Between(ledger, w, t) THEN "skipped"
           ELSE IF x \in Overdue(ledger, w, t) THEN "missed" ELSE verdict[x]
BY DEF Judged

LEMMA OverlapReconciles ==
  ASSUME IInv, CountersReconcile, NEW o \in Stacks, ClaimOverlap(o)
  PROVE  CountersReconcile'
<1> DEFINE w == plan[o].wall
           t == plan[o].t
           m == OverlapClaim(ledger, w, t)
           M == Overdue(ledger, w, t)
           B == Between(ledger, w, t)
           S == B \cup {t}
           none == {}
           g == Judged(w, t, "skipped")
<1>1. Claiming(o) /\ ~ LateAt(w, t) /\ Decide(o, m, g, work)
  BY DEF ClaimOverlap
<1>2. /\ ledger \in Ledger /\ ledger.def # "none" /\ w \in Time
      /\ t \in At[ledger.def] /\ t > ledger.decided /\ t \in Time /\ t \in Occurrences
      /\ t \in Nat /\ ledger.decided \in Nat
  BY <1>1, ClaimFacts
<1>3. m \in Ledger /\ SameRuns(ledger, m) /\ m.decided = t
  BY <1>2, OverlapKeeps
<1>4. /\ m.def = ledger.def
      /\ m.missed = ledger.missed + Cardinality(M)
      /\ m.fired = ledger.fired
      /\ m.skipped = ledger.skipped + Cardinality(B) + 1
  BY <1>2, LedgerDomain, OverlapTotals
<1>5. /\ M \in SUBSET Occurrences /\ B \in SUBSET Occurrences /\ M \cap B = {}
      /\ \A x \in M \cup B : ledger.decided < x /\ x < t
      /\ \A x \in At[ledger.def] : ledger.decided < x /\ x < t => x \in M \cup B
  BY <1>1, <1>2, ClaimSplits
<1>6. Reconciled(ledger, verdict, void)
  BY ReconciledIs
<1>7. \A x \in Occurrences : g[x] = IF x = t THEN "skipped" ELSE IF x \in B THEN "skipped"
                                    ELSE IF x \in M THEN "missed" ELSE verdict[x]
  BY JudgedIs
<1>8. Merged(m) = Merged(ledger)
  BY <1>3 DEF Merged, SameRuns
<1> HIDE DEF m, M, B, g, w, t
<1>9. /\ t \notin M /\ t \notin B /\ \A x \in M \cup B : x \in Nat
  <2>1. Occurrences \subseteq Time
    BY LedgerAssumption, SMT DEF Occurrences
  <2> QED
    BY <1>2, <1>5, <2>1, TimeFacts
<1>10. Cardinality(S) = Cardinality(B) + 1
  <2>1. B \in SUBSET Keys /\ {t} \in SUBSET Keys /\ B \cap {t} = {}
    BY <1>2, <1>5, <1>9 DEF Keys
  <2>2. Cardinality({t}) = 1
    BY FS_Singleton
  <2> QED
    BY <2>1, <2>2, DisjointSum
<1>11. /\ m.skipped = ledger.skipped + Cardinality(S) + Cardinality(none)
       /\ m.fired = ledger.fired + Cardinality(none)
  <2>1. ledger.fired \in Nat /\ ledger.skipped \in Nat /\ Cardinality(B) \in Nat
    BY <1>2, <1>5, LedgerFields, KeysFinite DEF Keys
  <2> QED
    BY <1>4, <1>10, <2>1, NoneCounted
<1>12. /\ S \in SUBSET Occurrences /\ M \cap S = {}
       /\ \A x \in M \cup S : ledger.decided < x /\ x <= m.decided
       /\ m.decided >= ledger.decided
  BY <1>2, <1>3, <1>5, <1>9
<1>13. /\ \A x \in M : g[x] = "missed"
       /\ \A x \in S : g[x] = "skipped"
       /\ \A x \in Occurrences \ (M \cup S) : g[x] = verdict[x]
  BY <1>2, <1>5, <1>7, <1>9
<1>14. m.def # "none" => \A x \in At[m.def] : x <= m.decided /\ g[x] = "open" => x <= void
  <2>1. \A x \in At[ledger.def] : x \in Occurrences /\ x \in Nat
    <3>1. ledger.def \in Definitions
      BY <1>2, LedgerFields
    <3> QED
      BY <3>1, LedgerAssumption, TimeFacts DEF Occurrences
  <2>2. /\ \A x \in Occurrences : g[x] = "open" => verdict[x] = "open"
        /\ \A x \in At[ledger.def] : ledger.decided < x /\ x <= m.decided => g[x] # "open"
    BY <1>2, <1>3, <1>5, <1>7, <2>1
  <2> QED
    BY <1>2, <1>3, <1>4, <1>6, <2>2, NothingLeftOpen
<1>15. /\ none \in SUBSET Occurrences /\ none \in SUBSET Keys /\ M \cap none = {}
       /\ S \cap none = {} /\ none \cap Merged(ledger) = {}
       /\ \A x \in none : g[x] = "fired"
       /\ M \cup S \cup none = M \cup S /\ Merged(ledger) \cup none = Merged(ledger)
  OBVIOUS
<1> HIDE DEF S, none
<1>16. Reconciled(m, g, void)
  BY <1>2, <1>3, <1>4, <1>5, <1>6, <1>8, <1>11, <1>12, <1>13, <1>14, <1>15, Settles
<1> QED
  BY <1>1, <1>16, DecideReconciles

LEMMA FireReconciles ==
  ASSUME IInv, CountersReconcile, NEW o \in Stacks, ClaimFire(o)
  PROVE  CountersReconcile'
<1> DEFINE w == plan[o].wall
           t == plan[o].t
           m == FiredClaim(ledger, o, w, t)
           M == Overdue(ledger, w, t)
           B == Between(ledger, w, t)
           C == Coalesced(ledger)
           F == {t}
           g == Judged(w, t, "fired")
           handed == HandedOver(ledger, o, t)
<1>1. Claiming(o) /\ ~ LateAt(w, t) /\ Decide(o, m, g, handed)
  BY DEF ClaimFire
<1>2. /\ ledger \in Ledger /\ ledger.def # "none" /\ w \in Time
      /\ t \in At[ledger.def] /\ t > ledger.decided /\ t \in Time /\ t \in Occurrences
      /\ t \in Nat /\ ledger.decided \in Nat
  BY <1>1, ClaimFacts
<1>3. /\ m \in Ledger /\ m.decided = t
      /\ m.runs[t] = NewRun(ledger, o)
      /\ \A j \in Keys \ (C \cup {t}) : m.runs[j] = ledger.runs[j]
      /\ \A j \in C \ {t} : m.runs[j].state = "coalesced"
  BY <1>2, FiredIs
<1>4. /\ m.def = ledger.def
      /\ m.missed = ledger.missed + Cardinality(M)
      /\ m.fired = ledger.fired + 1
      /\ m.skipped = ledger.skipped + Cardinality(B) + Cardinality(C)
  BY <1>2, LedgerDomain, FiredTotals
<1>5. /\ M \in SUBSET Occurrences /\ B \in SUBSET Occurrences /\ M \cap B = {}
      /\ \A x \in M \cup B : ledger.decided < x /\ x < t
      /\ \A x \in At[ledger.def] : ledger.decided < x /\ x < t => x \in M \cup B
  BY <1>1, <1>2, ClaimSplits
<1>6. Reconciled(ledger, verdict, void)
  BY ReconciledIs
<1>7. \A x \in Occurrences : g[x] = IF x = t THEN "fired" ELSE IF x \in B THEN "skipped"
                                    ELSE IF x \in M THEN "missed" ELSE verdict[x]
  BY JudgedIs
<1>8. C \in SUBSET Keys /\ \A j \in C : ledger.runs[j].state = "queued"
  BY DEF Coalesced, QueuedRuns
<1>9. ledger.runs[t] = NoRun
  BY <1>1 DEF Decide
<1>10. NewRun(ledger, o).state # "coalesced" /\ NoRun.state \notin {"queued", "coalesced"}
  BY DEF NewRun, NoRun
<1> HIDE DEF m, M, B, C, g, w, t, handed
<1>11. C \cap Merged(ledger) = {} /\ Merged(m) = Merged(ledger) \cup C
  <2>1. t \in Keys /\ t \notin C /\ t \notin Merged(ledger) /\ t \notin Merged(m)
    BY <1>2, <1>3, <1>8, <1>9, <1>10 DEF Merged, Keys
  <2>2. \A j \in Keys \ {t} : j \in Merged(m) <=> j \in Merged(ledger) \cup C
    BY <1>3, <2>1 DEF Merged
  <2>3. Merged(m) \subseteq Keys /\ Merged(ledger) \subseteq Keys
    BY DEF Merged
  <2>4. C \cap Merged(ledger) = {}
    BY <1>8 DEF Merged
  <2> QED
    BY <1>8, <2>1, <2>2, <2>3, <2>4
<1>12. /\ t \notin M /\ t \notin B /\ \A x \in M \cup B : x \in Nat
  <2>1. Occurrences \subseteq Time
    BY LedgerAssumption, SMT DEF Occurrences
  <2> QED
    BY <1>2, <1>5, <2>1, TimeFacts
<1>13. m.fired = ledger.fired + Cardinality(F)
  BY <1>4, FS_Singleton
<1>14. /\ F \in SUBSET Occurrences /\ M \cap F = {} /\ B \cap F = {}
       /\ \A x \in M \cup B \cup F : ledger.decided < x /\ x <= m.decided
       /\ m.decided >= ledger.decided
  BY <1>2, <1>3, <1>5, <1>12
<1>15. /\ \A x \in M : g[x] = "missed"
       /\ \A x \in B : g[x] = "skipped"
       /\ \A x \in F : g[x] = "fired"
       /\ \A x \in Occurrences \ (M \cup B \cup F) : g[x] = verdict[x]
  BY <1>2, <1>5, <1>7, <1>12
<1>16. m.def # "none" => \A x \in At[m.def] : x <= m.decided /\ g[x] = "open" => x <= void
  <2>1. \A x \in At[ledger.def] : x \in Occurrences /\ x \in Nat
    <3>1. ledger.def \in Definitions
      BY <1>2, LedgerFields
    <3> QED
      BY <3>1, LedgerAssumption, TimeFacts DEF Occurrences
  <2>2. /\ \A x \in Occurrences : g[x] = "open" => verdict[x] = "open"
        /\ \A x \in At[ledger.def] : ledger.decided < x /\ x <= m.decided => g[x] # "open"
    BY <1>2, <1>3, <1>5, <1>7, <2>1
  <2> QED
    BY <1>2, <1>3, <1>4, <1>6, <2>2, NothingLeftOpen
<1> HIDE DEF F
<1>17. Reconciled(m, g, void)
  BY <1>2, <1>3, <1>4, <1>5, <1>6, <1>8, <1>11, <1>13, <1>14, <1>15, <1>16, Settles
<1> QED
  BY <1>1, <1>17, DecideReconciles

-------------------------------------------------------------------------------
(* The totals of every behaviour *)

LEMMA TotalsInit == Init => CountersReconcile
<1> SUFFICES ASSUME Init PROVE CountersReconcile
  OBVIOUS
<1>1. /\ ledger.fired = 0 /\ ledger.missed = 0 /\ ledger.skipped = 0 /\ ledger.decided = 0
      /\ \A k \in Keys : ledger.runs[k] = NoRun
      /\ \A t \in Occurrences : verdict[t] = "open"
      /\ void = 0
  BY DEF Init, NewLedger
<1>2. Of(verdict, "fired") = {} /\ Of(verdict, "missed") = {} /\ Of(verdict, "skipped") = {}
  BY <1>1 DEF Of
<1>3. Merged(ledger) = {}
  BY <1>1 DEF Merged, NoRun
<1>4. Reconciled(ledger, verdict, void)
  BY <1>1, <1>2, <1>3, NoneCounted DEF Reconciled
<1> QED
  BY <1>4, ReconciledIs

LEMMA TotalsStep == ASSUME IInv, CountersReconcile, [Next]_vars PROVE CountersReconcile'
<1>1. ASSUME NEW o \in Stacks, ClockStep(o) PROVE CountersReconcile'
  <2>1. CASE Fire(o) \/ SweepDue(o) \/ ReplanClaim(o) \/ ReplanSweep(o) \/ ClaimNothing(o)
    BY <2>1, StillReconciles DEF Fire, SweepDue, ReplanClaim, ReplanSweep, ClaimNothing, Unwritten,
                                 history
  <2>2. ASSUME NEW k \in Keys, SettleDoubt(o, k) PROVE CountersReconcile'
    BY <2>2, EndingReconciles
  <2> QED
    BY <1>1, <2>1, <2>2, LateReconciles, OverlapReconciles, FireReconciles, SweepReconciles
       DEF ClockStep
<1>2. ASSUME NEW o \in Stacks, SweepNow(o) \/ LockBusy(o) \/ Open(o) \/ Close(o)
      PROVE  CountersReconcile'
  BY <1>2, StillReconciles DEF SweepNow, LockBusy, Open, Close, Unwritten, store, history
<1>3. ASSUME NEW o \in Stacks, Recover(o) \/ CloseEpoch(o) PROVE CountersReconcile'
  BY <1>3, EndingReconciles
<1>4. ASSUME NEW o \in Stacks, NEW r \in Requests, Manual(o, r) PROVE CountersReconcile'
  BY <1>4, ManualReconciles
<1>5. ASSUME NEW o \in Stacks, Pause(o) \/ Delete(o) PROVE CountersReconcile'
  BY <1>5, EditsReconcile
<1>6. CASE Update \/ Approve \/ Resume
  BY <1>6, EditsReconcile
<1>7. ASSUME NEW k \in Keys, Execute(k) \/ ExecDispose(k) PROVE CountersReconcile'
  <2>1. CASE ExecStart(k)
    BY <2>1, StillReconciles DEF ExecStart, Fails, ExecutorOnly, store
  <2>2. CASE ExecRefused(k) \/ ExecRejected(k) \/ ExecDone(k)
    BY <2>2, EndingReconciles DEF ExecRefused, ExecRejected, ExecDone
  <2> QED
    BY <1>7, <2>1, <2>2, EndingReconciles DEF Execute
<1>8. ASSUME NEW k \in Keys, Messages(k) PROVE CountersReconcile'
  BY <1>8, SendReconciles, EndingReconciles DEF Messages
<1>9. ASSUME NEW p, Crash(p) PROVE CountersReconcile'
  BY <1>9, StillReconciles DEF Crash, history
<1>10. CASE DropQueued
  BY <1>10, EndingReconciles
<1>11. CASE Tick \/ Jump \/ UNCHANGED vars
  BY <1>11, StillReconciles DEF Tick, Jump, vars, store, history
<1> QED
  BY <1>1, <1>2, <1>3, <1>4, <1>5, <1>6, <1>7, <1>8, <1>9, <1>10, <1>11 DEF Next

\* Whatever the processes do, and however the clock is set, the totals of fired, missed and
\* skipped occurrences are those of what became of them, and no occurrence behind the
\* watermark is left without a verdict unless an edit declared it void (appendMissed,
\* autoClaim, voidUntil).
THEOREM TotalsReconcile == Spec => []CountersReconcile
<1>1. CountersReconcile /\ IInv /\ [Next]_vars => CountersReconcile'
  BY TotalsStep
<1> QED
  BY <1>1, TotalsInit, IInvAlways, PTL DEF Spec


-------------------------------------------------------------------------------
(* The schedule implements ScheduleContract: a step judges, makes and      *)
(* starts what the contract allows, whatever the clock has been set to.    *)

\* A claim is planned when its occurrence has come, and what an executor has still to
\* begin has not been started.
DueInv == \A o \in Stacks : plan[o].op = "claim" => plan[o].t <= plan[o].wall
UnstartedInv == \A k \in Keys : work[k] \in {"start", "queue"} => starts[k] = 0
PaceInv == DueInv /\ UnstartedInv

Status(l, k) ==
  IF l.runs[k] = NoRun THEN "none" ELSE IF IsActive(l, k) THEN "live" ELSE "over"

\* What the contract asks of a step, in the words of the schedule.
JudgesWell ==
  \A t \in Occurrences :
    \/ verdict'[t] = verdict[t]
    \/ /\ verdict[t] = "open"
       /\ \/ verdict'[t] \in {"fired", "skipped"} /\ t <= wall /\ wall <= t + Tolerance
          \/ verdict'[t] = "missed" /\ wall > t + Tolerance

FiresNone == \A t \in Occurrences : verdict'[t] = "fired" => verdict[t] = "fired"

MakesWell ==
  \A k \in Keys :
    /\ \/ Status(ledger', k) = Status(ledger, k)
       \/ Status(ledger, k) = "none" /\ Status(ledger', k) = "live"
       \/ Status(ledger, k) = "live" /\ Status(ledger', k) = "over"
    /\ k \in Occurrences =>
         (Status(ledger, k) = "none" /\ Status(ledger', k) = "live"
          <=> verdict[k] # "fired" /\ verdict'[k] = "fired")

StartsWell ==
  \A k \in Keys :
    \/ starts'[k] = starts[k]
    \/ Status(ledger, k) = "live" /\ starts[k] = 0 /\ starts'[k] = 1

LEMMA ContractNext ==
  ASSUME TypeOK, TypeOK', JudgesWell, MakesWell, StartsWell
  PROVE  Contract!Next
<1> DEFINE run == [k \in Keys |-> IF ledger.runs[k] = NoRun THEN "none"
                                  ELSE IF IsActive(ledger, k) THEN "live" ELSE "over"]
<1>1. /\ wall' \in Nat
      /\ DOMAIN verdict' = Occurrences /\ DOMAIN starts' = Keys
  BY TimeFacts DEF TypeOK
<1>2. /\ DOMAIN run' = Keys
      /\ \A k \in Keys : run[k] = Status(ledger, k) /\ run'[k] = Status(ledger', k)
  BY DEF Status, IsActive
<1>3. \A t \in Occurrences : Contract!Judged(t)
  BY DEF JudgesWell, Contract!Judged, Contract!InTolerance
<1>4. \A k \in Keys : Contract!Moved(k)
  <2> TAKE k \in Keys
  <2> HIDE DEF run
  <2>1. /\ \/ run'[k] = run[k]
           \/ run[k] = "none" /\ run'[k] = "live"
           \/ run[k] = "live" /\ run'[k] = "over"
        /\ k \in Occurrences =>
             (run[k] = "none" /\ run'[k] = "live" <=> verdict[k] # "fired" /\ verdict'[k] = "fired")
    BY <1>2 DEF MakesWell
  <2> QED
    BY <2>1 DEF Contract!Moved, run
<1>5. \A k \in Keys : Contract!Started(k)
  <2> TAKE k \in Keys
  <2> HIDE DEF run
  <2>1. starts'[k] = starts[k] \/ (run[k] = "live" /\ starts[k] = 0 /\ starts'[k] = 1)
    BY <1>2 DEF StartsWell
  <2> QED
    BY <2>1 DEF Contract!Started, run
<1> QED
  BY <1>1, <1>2, <1>3, <1>4, <1>5 DEF Contract!Next

\* A calm step makes no run and gives no ended one back.
LEMMA CalmMakesWell ==
  ASSUME TypeOK, Calm(ledger, ledger'), FiresNone
  PROVE  MakesWell
<1> SUFFICES ASSUME NEW k \in Keys
             PROVE  /\ \/ Status(ledger', k) = Status(ledger, k)
                       \/ Status(ledger, k) = "live" /\ Status(ledger', k) = "over"
                    /\ ~ (Status(ledger, k) = "none" /\ Status(ledger', k) = "live")
  BY DEF MakesWell, FiresNone
<1>1. CASE ledger'.runs[k] = ledger.runs[k]
  BY <1>1 DEF Status, IsActive
<1>2. CASE IsActive(ledger, k) /\ ledger'.runs[k].state \in (Active \ {"queued"}) \cup Terminal
  <2>1. ledger.runs[k] # NoRun /\ ledger'.runs[k] # NoRun
    BY <1>2 DEF IsActive, NoRun, Active, Terminal
  <2> QED
    BY <1>2, <2>1 DEF Status
<1> QED
  BY <1>1, <1>2 DEF Calm, CalmRuns

\* What a step has to keep for the rest of the contract.
KeepsPace ==
  /\ \A o \in Stacks : plan'[o] = plan[o] \/ plan'[o].op # "claim" \/ plan'[o].t <= plan'[o].wall
  /\ \A k \in Keys : work'[k] \in {"start", "queue"} => starts'[k] = 0

LEMMA PaceKept == ASSUME PaceInv, KeepsPace PROVE PaceInv'
BY DEF PaceInv, DueInv, UnstartedInv, KeepsPace

\* A step that starts nothing hands over only what was in the queue, or is new.
LEMMA HandsOverUnstarted ==
  ASSUME IInv, PaceInv, UNCHANGED starts, NEW k \in Keys,
         work'[k] \in {work[k], "none", "drop"} \/ ledger.runs[k] = NoRun,
         work'[k] \in {"start", "queue"}
  PROVE  starts'[k] = 0
BY DEF PaceInv, UnstartedInv, IInv, RunsInv, BirthInv

WellDone == JudgesWell /\ MakesWell /\ StartsWell /\ KeepsPace

\* Steps that judge, make and start nothing.
LEMMA CalmWellDone ==
  ASSUME IInv, PaceInv, Calm(ledger, ledger'), UNCHANGED <<verdict, starts>>,
         \A o \in Stacks : plan'[o] = plan[o] \/ plan'[o].op # "claim" \/ plan'[o].t <= plan'[o].wall,
         \A k \in Keys : work'[k] \in {work[k], "none", "drop"}
  PROVE  WellDone
<1>1. JudgesWell /\ FiresNone /\ StartsWell
  BY DEF JudgesWell, FiresNone, StartsWell
<1>2. MakesWell
  BY <1>1, CalmMakesWell DEF IInv
<1>3. KeepsPace
  BY HandsOverUnstarted DEF KeepsPace
<1> QED
  BY <1>1, <1>2, <1>3 DEF WellDone

LEMMA StillCalm == ASSUME IInv, UNCHANGED ledger PROVE Calm(ledger, ledger')
BY CalmStutter DEF CalmBut, IInv, TypeOK

-------------------------------------------------------------------------------
(* Steps that leave the ledger alone. *)

LEMMA BeginSweepPlans ==
  ASSUME NEW o \in Stacks, NEW since, NEW left, BeginSweep(o, since, left), TypeOK
  PROVE  \A h \in Stacks : plan'[h] = plan[h] \/ plan'[h].op # "claim"
BY DEF BeginSweep, Planned, TypeOK

LEMMA AnsweredPlans ==
  ASSUME NEW o \in Stacks, Answered(o), TypeOK
  PROVE  \A h \in Stacks : plan'[h] = plan[h] \/ plan'[h].op # "claim"
BY DEF Answered, NoPlan, TypeOK

LEMMA ClockWellDone ==
  ASSUME IInv, PaceInv, NEW o \in Stacks,
         \/ Fire(o) \/ SweepDue(o) \/ SweepNow(o) \/ ReplanClaim(o) \/ ReplanSweep(o)
         \/ ClaimNothing(o) \/ LockBusy(o)
  PROVE  WellDone
<1>1. TypeOK
  BY DEF IInv
<1>2. UNCHANGED <<ledger, verdict, starts, work>>
  BY DEF Fire, SweepDue, SweepNow, ReplanClaim, ReplanSweep, ClaimNothing, LockBusy, Unwritten, history
<1>3. \A h \in Stacks : plan'[h] = plan[h] \/ plan'[h].op # "claim" \/ plan'[h].t <= plan'[h].wall
  <2>1. CASE Fire(o)
    <3>1. Candidate(o) <= wall /\ (plan' = plan \/ plan' = [plan EXCEPT ![o] = Planned("claim", Candidate(o), 1)])
      BY <2>1 DEF Fire
    <3> QED
      BY <1>1, <3>1 DEF Planned, TypeOK
  <2>2. CASE SweepDue(o) \/ SweepNow(o)
    BY <1>1, <2>2, BeginSweepPlans DEF SweepDue, SweepNow
  <2>3. CASE ClaimNothing(o) \/ LockBusy(o)
    BY <1>1, <2>3, AnsweredPlans DEF ClaimNothing, LockBusy
  <2>4. CASE ReplanClaim(o)
    <3>1. \/ Answered(o)
          \/ /\ wall >= plan[o].t
             /\ plan' = [plan EXCEPT ![o] = Planned("claim", plan[o].t, plan[o].tries + 1)]
      BY <2>4 DEF ReplanClaim
    <3>2. CASE Answered(o)
      BY <1>1, <3>2, AnsweredPlans
    <3>3. CASE /\ wall >= plan[o].t
               /\ plan' = [plan EXCEPT ![o] = Planned("claim", plan[o].t, plan[o].tries + 1)]
      <4>1. plan[o].op = "claim" /\ plan[o].t \in Nat /\ wall \in Nat
        BY <1>1, <2>4, PlanType, TimeFacts DEF ReplanClaim, Claim, TypeOK
      <4> QED
        BY <1>1, <3>3, <4>1 DEF Planned, TypeOK
    <3> QED
      BY <3>1, <3>2, <3>3
  <2>5. CASE ReplanSweep(o)
    <3>1. Answered(o) \/ plan' = [plan EXCEPT ![o] = Planned("sweep", 0, plan[o].tries + 1)]
      BY <2>5 DEF ReplanSweep
    <3> QED
      BY <1>1, <3>1, AnsweredPlans DEF Planned, TypeOK
  <2> QED
    BY <2>1, <2>2, <2>3, <2>4, <2>5
<1> QED
  BY <1>2, <1>3, StillCalm, CalmWellDone

LEMMA StackWellDone ==
  ASSUME IInv, PaceInv,
         \/ \E o \in Stacks : Open(o) \/ Close(o)
         \/ \E p : Crash(p)
         \/ Tick \/ Jump \/ UNCHANGED vars
  PROVE  WellDone
<1>1. TypeOK /\ UNCHANGED <<ledger, verdict, starts>>
  BY DEF IInv, Open, Close, Crash, Tick, Jump, vars, store, history
<1>2. \A k \in Keys : work'[k] \in {work[k], "none", "drop"}
  BY <1>1 DEF Open, Close, Crash, Tick, Jump, vars, TypeOK
<1>3. \A h \in Stacks : plan'[h] = plan[h] \/ plan'[h].op # "claim"
  <2>1. ASSUME NEW o \in Stacks, Open(o)
        PROVE  \A h \in Stacks : plan'[h] = plan[h] \/ plan'[h].op # "claim"
    BY <1>1, <2>1, BeginSweepPlans DEF Open
  <2>2. CASE \E p : Crash(p)
    BY <2>2 DEF Crash, NoPlan
  <2> QED
    BY <2>1, <2>2 DEF Close, Tick, Jump, vars, clock
<1> QED
  BY <1>1, <1>2, <1>3, StillCalm, CalmWellDone

-------------------------------------------------------------------------------
(* Steps that end runs, let them go on, or start them. *)

\* A transaction is as calm as what it writes.
LEMMA CalmTransact ==
  ASSUME IInv, NEW l, Calm(ledger, l), Transact(l) \/ Fails
  PROVE  Calm(ledger, ledger')
<1>1. ledger' = l \/ ledger' = ledger
  BY TransactIs DEF IInv
<1> QED
  BY <1>1, StillCalm

\* The ends that a run may come to.
LEMMA CalmFinish ==
  ASSUME IInv, NEW k \in Keys
  PROVE  /\ \A end \in {"ended", "unknown", "dropped"} : Calm(ledger, Finish(ledger, k, end))
         /\ Calm(ledger, Progress(ledger, k, "running"))
         /\ \A K \in SUBSET ActiveRuns(ledger) :
              Calm(ledger, EndAll(ledger, K, "dropped")) /\ Calm(ledger, Terminate(ledger, K))
BY CalmOperations DEF CalmBut, Terminal, IInv, TypeOK

LEMMA SomeActive ==
  ASSUME IInv
  PROVE  QueuedRuns(ledger) \in SUBSET ActiveRuns(ledger)
BY DEF QueuedRuns, ActiveRuns, IsActive, Active

LEMMA OthersWellDone ==
  ASSUME IInv, PaceInv,
         \/ DropQueued
         \/ \E o \in Stacks : Recover(o) \/ CloseEpoch(o) \/ \E k \in Keys : SettleDoubt(o, k)
  PROVE  WellDone
<1>1. UNCHANGED <<verdict, starts, work, plan>>
  BY DEF DropQueued, Recover, CloseEpoch, SettleDoubt, Elsewhere, clock, history
<1>2. Calm(ledger, ledger')
  <2>1. CASE DropQueued
    <3>1. Calm(ledger, EndAll(ledger, QueuedRuns(ledger), "dropped"))
      BY SomeActive, CalmOperations DEF CalmBut, Terminal, IInv, TypeOK
    <3> QED
      BY <2>1, <3>1, CalmTransact DEF DropQueued
  <2>2. ASSUME NEW o \in Stacks, Recover(o) PROVE Calm(ledger, ledger')
    <3> DEFINE K == {k \in ActiveRuns(ledger) : Dead(o, ledger.runs[k].stack)}
    <3>1. Calm(ledger, Terminate(ledger, K))
      BY CalmOperations DEF CalmBut, IInv, TypeOK
    <3> QED
      BY <2>2, <3>1, CalmTransact DEF Recover
  <2>3. ASSUME NEW o \in Stacks, CloseEpoch(o) PROVE Calm(ledger, ledger')
    <3> DEFINE K == {k \in ActiveRuns(ledger) : ledger.runs[k].stack = o}
    <3>1. Calm(ledger, Terminate(ledger, K))
      BY CalmOperations DEF CalmBut, IInv, TypeOK
    <3> QED
      BY <2>3, <3>1, CalmTransact DEF CloseEpoch
  <2>4. ASSUME NEW o \in Stacks, NEW k \in Keys, SettleDoubt(o, k) PROVE Calm(ledger, ledger')
    BY <2>4, CalmFinish, CalmTransact DEF SettleDoubt
  <2> QED
    BY <2>1, <2>2, <2>3, <2>4
<1> QED
  BY <1>1, <1>2, CalmWellDone

LEMMA ReportsWellDone ==
  ASSUME IInv, PaceInv, NEW k \in Keys,
         ExecAdmitted(k) \/ Report(k) \/ ExecDispose(k) \/ DropMessage(k) \/ EndMessage(k)
  PROVE  WellDone
<1>1. UNCHANGED <<verdict, starts, plan>>
  BY DEF ExecAdmitted, Report, ExecDispose, DropMessage, EndMessage, ExecutorOnly, Elsewhere
<1>2. \A j \in Keys : work'[j] \in {work[j], "none", "wait"}
  BY DEF ExecAdmitted, Report, ExecDispose, DropMessage, EndMessage, Stage, IInv, TypeOK
<1>3. Calm(ledger, ledger')
  <2>1. CASE ExecAdmitted(k)
    BY <2>1, CalmFinish, CalmTransact DEF ExecAdmitted
  <2>2. CASE Report(k)
    BY <2>2, CalmFinish, CalmTransact DEF Report
  <2>3. CASE ExecDispose(k)
    BY <2>3, CalmFinish, CalmTransact DEF ExecDispose
  <2>4. CASE DropMessage(k)
    <3>1. {k} \cap QueuedRuns(ledger) \in SUBSET ActiveRuns(ledger)
      BY SomeActive
    <3>2. /\ Calm(ledger, Finish(ledger, k, "dropped"))
          /\ Calm(ledger, EndAll(ledger, {k} \cap QueuedRuns(ledger), "dropped"))
      BY <3>1, CalmFinish
    <3> QED
      BY <2>4, <3>2, CalmTransact DEF DropMessage
  <2>5. CASE EndMessage(k)
    BY <2>5, CalmFinish, CalmTransact DEF EndMessage
  <2> QED
    BY <2>1, <2>2, <2>3, <2>4, <2>5
<1>4. JudgesWell /\ FiresNone /\ StartsWell
  BY <1>1 DEF JudgesWell, FiresNone, StartsWell
<1>5. KeepsPace
  BY <1>1, <1>2 DEF KeepsPace, PaceInv, UnstartedInv
<1> QED
  BY <1>3, <1>4, <1>5, CalmMakesWell DEF WellDone, IInv

\* A start: the run is live, has not been started, and leaves the queue.
LEMMA StartWellDone ==
  ASSUME IInv, PaceInv, Calm(ledger, ledger'), UNCHANGED <<verdict, plan>>,
         NEW k \in Keys, work[k] \in {"start", "queue"}, IsActive(ledger, k),
         starts' = [starts EXCEPT ![k] = @ + 1],
         NEW to \in {"admit", "sent"}, Stage(k, to)
  PROVE  WellDone
<1>1. starts \in [Keys -> Nat] /\ work \in [Keys -> WorkStates] /\ ledger \in Ledger
  BY DEF IInv, TypeOK, WorkStates
<1>2. starts[k] = 0
  BY DEF PaceInv, UnstartedInv
<1>3. starts'[k] = 1 /\ \A j \in Keys \ {k} : starts'[j] = starts[j]
  BY <1>1, <1>2
<1>4. work'[k] = to /\ \A j \in Keys \ {k} : work'[j] = work[j]
  BY <1>1 DEF Stage
<1>5. Status(ledger, k) = "live"
  BY <1>1, RunIs DEF Status
<1>6. StartsWell
  BY <1>2, <1>3, <1>5 DEF StartsWell
<1>7. KeepsPace
  BY <1>3, <1>4 DEF KeepsPace, PaceInv, UnstartedInv
<1>8. JudgesWell /\ FiresNone
  BY DEF JudgesWell, FiresNone
<1> QED
  BY <1>6, <1>7, <1>8, CalmMakesWell DEF WellDone, IInv

\* A step of the executor that gives the run up without a start.
LEMMA GiveUpWellDone ==
  ASSUME IInv, PaceInv, Calm(ledger, ledger'), UNCHANGED <<verdict, starts, plan>>,
         NEW k \in Keys, NEW to \in {"none", "doubt"}, Stage(k, to)
  PROVE  WellDone
<1>1. \A j \in Keys : work'[j] \in {work[j], "none", "doubt"}
  BY DEF Stage, IInv, TypeOK
<1>2. KeepsPace
  BY <1>1 DEF KeepsPace, PaceInv, UnstartedInv
<1>3. JudgesWell /\ FiresNone /\ StartsWell
  BY DEF JudgesWell, FiresNone, StartsWell
<1> QED
  BY <1>2, <1>3, CalmMakesWell DEF WellDone, IInv

LEMMA ExecStartWellDone ==
  ASSUME IInv, PaceInv, NEW k \in Keys, ExecStart(k)
  PROVE  WellDone
<1>1. UNCHANGED <<ledger, verdict, plan>> /\ work[k] = "start"
  BY DEF ExecStart, ExecutorOnly, Elsewhere, Fails, store
<1>2. Calm(ledger, ledger')
  BY <1>1, StillCalm
<1>3. CASE /\ ledger.runs[k].state = "dispatching" /\ Stage(k, "admit")
           /\ starts' = [starts EXCEPT ![k] = @ + 1]
  <2>1. IsActive(ledger, k)
    BY <1>3 DEF IsActive, Active
  <2> QED
    BY <1>1, <1>2, <1>3, <2>1, StartWellDone
<1>4. CASE Stage(k, "none") /\ UNCHANGED starts
  BY <1>1, <1>2, <1>4, GiveUpWellDone
<1> QED
  BY <1>3, <1>4 DEF ExecStart

LEMMA SendWellDone ==
  ASSUME IInv, PaceInv, NEW k \in Keys, SendMessage(k)
  PROVE  WellDone
<1> DEFINE sent == [ledger EXCEPT !.runs[k].state = "dispatched"]
           queued == ledger.runs[k].state = "queued"
<1>1. UNCHANGED <<verdict, plan>> /\ work[k] = "queue" /\ ledger \in Ledger
  BY DEF SendMessage, ExecutorOnly, Elsewhere, IInv, TypeOK
<1>2. ASSUME queued PROVE IsActive(ledger, k) /\ Calm(ledger, sent)
  <2>1. IsActive(ledger, k) /\ {k} \in SUBSET ActiveRuns(ledger)
    BY <1>2 DEF IsActive, Active, ActiveRuns
  <2>2. "dispatched" \in (Active \ {"queued"}) \cup Terminal
    BY DEF Active
  <2>3. sent \in Ledger /\ SameTask(ledger, sent) /\ Moved(ledger, sent, {k})
    BY <1>1, <2>1, <2>2, OneMoves
  <2> HIDE DEF sent
  <2> QED
    BY <1>1, <2>1, <2>3, CalmIfMoved DEF CalmBut
<1>3. CASE queued /\ Transact(sent) /\ Stage(k, "sent") /\ starts' = [starts EXCEPT ![k] = @ + 1]
  <2> HIDE DEF sent
  <2>1. Calm(ledger, ledger')
    BY <1>2, <1>3, CalmTransact
  <2> QED
    BY <1>1, <1>2, <1>3, <2>1, StartWellDone
<1>4. CASE queued /\ Write(sent) /\ Stage(k, "doubt") /\ UNCHANGED starts
  <2>1. Calm(ledger, ledger')
    BY <1>2, <1>4 DEF Write
  <2> QED
    BY <1>1, <1>4, <2>1, GiveUpWellDone
<1>5. CASE /\ Stage(k, "none") /\ UNCHANGED starts
           /\ Transact(IF queued THEN Finish(ledger, k, "dropped") ELSE ledger)
  <2>1. Calm(ledger, ledger)
    BY <1>1, CalmStutter DEF CalmBut
  <2>2. Calm(ledger, ledger')
    BY <1>5, <2>1, CalmFinish, CalmTransact
  <2> QED
    BY <1>1, <1>5, <2>2, GiveUpWellDone
<1> QED
  BY <1>3, <1>4, <1>5 DEF SendMessage

-------------------------------------------------------------------------------
(* Sweeps and edits: what they miss is overdue by the wall clock of the step, which *)
(* a plan that holds has not been ahead of.                                         *)

LEMMA StillOpen ==
  ASSUME IInv, CountersReconcile, NEW t \in Occurrences, t > ledger.decided
  PROVE  verdict[t] = "open"
<1>1. t \in Nat /\ ledger.decided \in Nat
  <2>1. Occurrences \subseteq Time
    BY LedgerAssumption, SMT DEF Occurrences
  <2>2. ledger.decided \in Time
    BY LedgerFields DEF IInv, TypeOK
  <2> QED
    BY <2>1, <2>2, TimeFacts
<1>2. verdict[t] # "open" => t <= ledger.decided
  BY DEF CountersReconcile
<1> QED
  BY <1>1, <1>2

LEMMA SweptLate ==
  ASSUME IInv, NEW w \in Time, w <= wall, NEW t \in Swept(ledger, w)
  PROVE  t \in Occurrences /\ t > ledger.decided /\ wall > t + Tolerance
<1>1. ledger \in Ledger /\ wall \in Time
  BY DEF IInv, TypeOK
<1>2. t \in Occurrences /\ t \in Time /\ ledger.decided < t /\ t <= Cut(w)
  BY <1>1, DueIs DEF Swept
<1>3. ledger.decided \in Nat /\ t \in Nat /\ w \in Nat /\ wall \in Nat /\ Tolerance \in Nat
  BY <1>1, <1>2, LedgerFields, TimeFacts
<1> QED
  BY <1>2, <1>3 DEF Cut

\* Occurrences that are open and overdue are missed.
LEMMA MissesWell ==
  ASSUME IInv, CountersReconcile, NEW M, verdict' = Judge(M, "missed"),
         \A t \in M : t \in Occurrences /\ t > ledger.decided /\ wall > t + Tolerance
  PROVE  JudgesWell /\ FiresNone
<1>1. \A t \in Occurrences : verdict'[t] = IF t \in M THEN "missed" ELSE verdict[t]
  BY JudgeIs
<1>2. \A t \in M : verdict[t] = "open"
  BY StillOpen
<1> QED
  BY <1>1, <1>2 DEF JudgesWell, FiresNone

\* A step that misses occurrences and starts nothing.
LEMMA MissWellDone ==
  ASSUME IInv, CountersReconcile, PaceInv, Calm(ledger, ledger'), UNCHANGED starts,
         JudgesWell, FiresNone,
         \A o \in Stacks : plan'[o] = plan[o] \/ plan'[o].op # "claim",
         \A k \in Keys : work'[k] \in {work[k], "none", "drop"}
  PROVE  WellDone
<1>1. MakesWell
  BY CalmMakesWell DEF IInv
<1>2. StartsWell
  BY DEF StartsWell
<1>3. KeepsPace
  BY HandsOverUnstarted DEF KeepsPace
<1> QED
  BY <1>1, <1>2, <1>3 DEF WellDone

LEMMA ApplySweepWellDone ==
  ASSUME IInv, CountersReconcile, PaceInv, NEW o \in Stacks, ApplySweep(o)
  PROVE  WellDone
<1> DEFINE w == plan[o].wall
<1>1. TypeOK /\ ledger \in Ledger
  BY DEF IInv, TypeOK
<1>2. /\ \/ ledger' = Sweep(ledger, w) /\ verdict' = Judge(Swept(ledger, w), "missed")
         \/ UNCHANGED <<ledger, verdict>>
      /\ UNCHANGED <<starts, work>> /\ Answered(o) /\ w <= wall /\ w \in Time
  BY <1>1, PlanType DEF ApplySweep, Write, Unwritten, Holds
<1>3. Calm(ledger, Sweep(ledger, w)) /\ Calm(ledger, ledger)
  BY <1>1, CalmOperations, CalmStutter DEF CalmBut
<1>4. \A t \in Swept(ledger, w) : t \in Occurrences /\ t > ledger.decided /\ wall > t + Tolerance
  BY <1>2, SweptLate
<1>5. \A h \in Stacks : plan'[h] = plan[h] \/ plan'[h].op # "claim"
  BY <1>1, <1>2, AnsweredPlans
<1>6. CASE ledger' = Sweep(ledger, w) /\ verdict' = Judge(Swept(ledger, w), "missed")
  <2>1. JudgesWell /\ FiresNone
    BY <1>4, <1>6, MissesWell
  <2> QED
    BY <1>2, <1>3, <1>5, <1>6, <2>1, MissWellDone
<1>7. CASE UNCHANGED <<ledger, verdict>>
  BY <1>2, <1>3, <1>5, <1>7, CalmWellDone
<1> QED
  BY <1>2, <1>6, <1>7

LEMMA ChangeWellDone ==
  ASSUME IInv, CountersReconcile, PaceInv,
         NEW def \in Definitions, NEW approved \in Definitions \cup {"none"}, NEW enabled,
         Change(def, approved, enabled),
         \A k \in Keys : work'[k] \in {work[k], "none", "drop"}
  PROVE  WellDone
<1>1. ledger \in Ledger /\ wall \in Time /\ wall <= wall
  <2>1. ledger \in Ledger /\ wall \in Time
    BY DEF IInv, TypeOK
  <2> QED
    BY <2>1, TimeFacts
<1>2. /\ ledger' = Rewritten(ledger, wall, def, approved, enabled)
      /\ verdict' = Judge(Swept(ledger, wall), "missed") /\ UNCHANGED <<starts, plan>>
  BY DEF Change, Write, Elsewhere
<1>3. Calm(ledger, ledger')
  BY <1>1, <1>2, RewrittenKeeps, CalmIfSame DEF CalmBut
<1>4. \A t \in Swept(ledger, wall) : t \in Occurrences /\ t > ledger.decided /\ wall > t + Tolerance
  BY <1>1, SweptLate
<1>5. JudgesWell /\ FiresNone
  BY <1>2, <1>4, MissesWell
<1> QED
  BY <1>2, <1>3, <1>5, MissWellDone

LEMMA EditsWellDone ==
  ASSUME IInv, CountersReconcile, PaceInv,
         Update \/ Approve \/ Resume \/ \E o \in Stacks : Pause(o) \/ Delete(o)
  PROVE  WellDone
<1>1. /\ ledger \in Ledger /\ ledger.def \in Definitions \cup {"none"}
      /\ ledger.approved \in Definitions \cup {"none"}
  BY LedgerFields DEF IInv, TypeOK
<1>2. \A k \in Keys : work'[k] \in {work[k], "none", "drop"}
  BY DEF Update, Approve, Resume, Pause, Delete, Revoke
<1>3. CASE Update
  <2>1. PICK d \in Definitions :
          Change(d, ledger.approved, "kept") \/ Change(d, d, "kept")
    BY <1>3 DEF Update
  <2> QED
    BY <1>1, <1>2, <2>1, ChangeWellDone
<1>4. CASE Approve \/ Resume \/ \E o \in Stacks : Pause(o)
  <2>1. \E a \in Definitions \cup {"none"} : \E e : Change(ledger.def, a, e)
    BY <1>1, <1>4 DEF Approve, Resume, Pause
  <2>2. ledger.def \in Definitions
    BY <1>1, <2>1 DEF Change
  <2> QED
    BY <1>2, <2>1, <2>2, ChangeWellDone
<1>5. CASE \E o \in Stacks : Delete(o)
  <2>1. ledger' = Removed(ledger) /\ UNCHANGED <<verdict, starts, plan>>
    BY <1>5 DEF Delete, Write, Elsewhere, history
  <2>2. Calm(ledger, ledger')
    BY <1>1, <2>1, CalmOperations DEF CalmBut
  <2> QED
    BY <1>2, <2>1, <2>2, CalmWellDone
<1> QED
  BY <1>3, <1>4, <1>5

-------------------------------------------------------------------------------
(* Claims and requests *)

\* What a claim finds overdue is past its tolerance; what it skips, and its occurrence,
\* have come and are in theirs.
LEMMA OverdueLate ==
  ASSUME IInv, NEW o \in Stacks, Claiming(o), NEW x \in Overdue(ledger, plan[o].wall, plan[o].t)
  PROVE  x \in Occurrences /\ x > ledger.decided /\ wall > x + Tolerance
<1> DEFINE w == plan[o].wall
           t == plan[o].t
<1>1. ledger \in Ledger /\ w \in Time /\ t \in Time /\ wall \in Time /\ w <= wall
  BY ClaimFacts DEF IInv, TypeOK, Claiming, Holds
<1>2. /\ w \in Nat /\ t \in Nat /\ wall \in Nat /\ Tolerance \in Nat /\ ledger.decided \in Nat
      /\ Cut(w) \in Int /\ Cut(w) = w - Tolerance - 1
  <2>1. /\ w \in Nat /\ t \in Nat /\ wall \in Nat /\ Tolerance \in Nat
    BY <1>1, TimeFacts
  <2>2. ledger.decided \in Nat
    BY <1>1, LedgerFields, TimeFacts
  <2> QED
    BY <2>1, <2>2 DEF Cut
<1>3. x \in Occurrences /\ x \in Time /\ ledger.decided < x
      /\ x <= (IF LateAt(w, t) THEN t ELSE Min({Cut(w), t - 1}))
  BY <1>1, DueIs DEF Overdue
<1>4. x \in Nat
  BY <1>3, TimeFacts
<1>5. CASE LateAt(w, t)
  BY <1>1, <1>2, <1>3, <1>4, <1>5 DEF LateAt
<1>6. CASE ~ LateAt(w, t)
  <2>1. Min({Cut(w), t - 1}) \in Int /\ Min({Cut(w), t - 1}) <= Cut(w)
    <3> DEFINE c == Cut(w)
               e == t - 1
    <3>1. c \in Int /\ e \in Int
      BY <1>2
    <3> HIDE DEF c, e
    <3>2. Min({c, e}) \in Int /\ Min({c, e}) <= c
      BY <3>1, MinOfTwo
    <3> QED
      BY <3>2 DEF c, e
  <2> QED
    BY <1>1, <1>2, <1>3, <1>4, <1>6, <2>1
<1> QED
  BY <1>5, <1>6

LEMMA BetweenInTime ==
  ASSUME IInv, DueInv, NEW o \in Stacks, Claiming(o), ~ LateAt(plan[o].wall, plan[o].t),
         NEW x \in Between(ledger, plan[o].wall, plan[o].t) \cup {plan[o].t}
  PROVE  x \in Occurrences /\ x > ledger.decided /\ x <= wall /\ wall <= x + Tolerance
<1> DEFINE w == plan[o].wall
           t == plan[o].t
           M == Overdue(ledger, w, t)
           B == Between(ledger, w, t)
           r == Reached(ledger, w, t)
           f == FirstOpen(ledger, r, w, t)
<1>1. /\ ledger \in Ledger /\ ledger.def # "none" /\ w \in Time /\ t \in Time /\ wall \in Time
      /\ t \in At[ledger.def] /\ t > ledger.decided /\ t \in Occurrences
      /\ w <= wall /\ wall <= ClaimUntil(ledger, w, t)
  BY ClaimFacts DEF IInv, TypeOK, Claiming, Holds
<1>2. t <= w
  BY DEF DueInv, Claiming, Claim
<1>3. /\ w \in Nat /\ t \in Nat /\ wall \in Nat /\ Tolerance \in Nat /\ ledger.decided \in Nat
      /\ MaxTime \in Nat /\ Cut(w) \in Int
  <2>1. /\ w \in Nat /\ t \in Nat /\ wall \in Nat /\ Tolerance \in Nat /\ MaxTime \in Nat
    BY <1>1, TimeFacts
  <2>2. ledger.decided \in Nat
    BY <1>1, LedgerFields, TimeFacts
  <2> QED
    BY <2>1, <2>2 DEF Cut
<1>4. /\ M \in SUBSET Time /\ B \in SUBSET Time /\ M \cap B = {}
      /\ \A y \in M \cup B : y \in Occurrences /\ ledger.decided < y /\ y < t
  <2>1. Occurrences \subseteq Time
    BY LedgerAssumption, SMT DEF Occurrences
  <2> QED
    BY <1>1, <2>1, ClaimSplits
<1>5. r \in Time /\ \A y \in M : r >= y
  <2>1. CASE M = {}
    <3>1. ledger.decided \in Time
      BY <1>1, LedgerFields
    <3> QED
      BY <2>1, <3>1 DEF Reached, Greatest
  <2>2. CASE M # {}
    <3>1. r = Greatest(M, 0)
      BY <2>2 DEF Reached, Greatest
    <3> QED
      BY <1>4, <2>2, <3>1, GreatestIs
  <2> QED
    BY <2>1, <2>2
<1>6. \A y \in B : y \in At[ledger.def] /\ r < y /\ y <= t - 1
  BY <1>1, DueIs DEF Between
<1>7. \A y \in B : y > Cut(w)
  <2> SUFFICES ASSUME NEW y \in B, y <= Cut(w) PROVE FALSE
    <3>1. \A y \in B : y \in Nat
      BY <1>4, TimeFacts
    <3> QED
      BY <1>3, <3>1
  <2>1. y \in Nat /\ y \in At[ledger.def] /\ y <= t - 1 /\ ledger.decided < y
    BY <1>4, <1>6, TimeFacts
  <2>2. Min({Cut(w), t - 1}) \in {Cut(w), t - 1}
    <3>1. \E a \in {Cut(w), t - 1} : \A b \in {Cut(w), t - 1} : a <= b
      BY <1>3
    <3> QED
      BY <3>1 DEF Min
  <2>3. y <= Min({Cut(w), t - 1})
    BY <2>1, <2>2
  <2>4. y \in M
    BY <1>1, <2>1, <2>3 DEF Overdue, Due
  <2> QED
    BY <1>4, <2>4
<1>8. wall <= Min({f, t}) + Tolerance
  BY <1>1 DEF ClaimUntil
<1>9. f \in Time /\ \A y \in B : f <= y
  <2> DEFINE g == Greatest({r, Cut(w)}, 0)
             D == Due(ledger, g, MaxTime)
  <2>1. g \in {r, Cut(w)}
    <3>1. \E a \in {r, Cut(w)} : \A b \in {r, Cut(w)} : a >= b
      <4> DEFINE c == Cut(w)
      <4> HIDE DEF c, r
      <4>1. r \in Int /\ c \in Int
        BY <1>3, <1>5, TimeFacts DEF c
      <4>2. \E a \in {r, c} : \A b \in {r, c} : a >= b
        BY <4>1
      <4> QED
        BY <4>2 DEF c
    <3> QED
      BY <3>1 DEF Greatest, Max
  <2>2. D \in SUBSET Time
    BY <1>1, DueIs
  <2>3. f = Least(D, t)
    BY DEF FirstOpen
  <2>4. \A y \in B : y \in D
    <3> TAKE y \in B
    <3>1. y \in At[ledger.def] /\ g < y /\ y <= MaxTime
      BY <1>4, <1>6, <1>7, <2>1, TimeFacts
    <3> QED
      BY <1>1, <3>1 DEF Due
  <2> HIDE DEF D, B
  <2>5. CASE D = {}
    BY <1>1, <2>3, <2>4, <2>5 DEF Least
  <2>6. CASE D # {}
    <3>1. D \in SUBSET Nat
      BY <2>2, TimeFacts
    <3>2. f = Min(D) /\ Min(D) \in D /\ \A y \in D : Min(D) <= y
      BY <2>3, <2>6, <3>1, MinIs DEF Least
    <3> QED
      BY <2>2, <2>4, <3>2
  <2> QED
    BY <2>5, <2>6
<1>10. /\ Min({f, t}) \in Int /\ Min({f, t}) <= f /\ Min({f, t}) <= t /\ f \in Nat
  <2>1. f \in Nat
    BY <1>9, TimeFacts
  <2> QED
    BY <1>3, <2>1, MinOfTwo
<1>11. CASE x = t
  BY <1>1, <1>2, <1>3, <1>8, <1>10, <1>11
<1>12. CASE x \in B
  <2>1. x \in Nat /\ x \in Occurrences /\ ledger.decided < x /\ x < t /\ f <= x
    BY <1>4, <1>9, <1>12, TimeFacts
  <2> QED
    BY <1>1, <1>2, <1>3, <1>8, <1>10, <2>1
<1> QED
  BY <1>11, <1>12

\* A claim in tolerance judges what the contract allows, its own occurrence included.
LEMMA JudgedWell ==
  ASSUME IInv, CountersReconcile, DueInv, NEW o \in Stacks, Claiming(o),
         ~ LateAt(plan[o].wall, plan[o].t), NEW v \in {"fired", "skipped"},
         verdict' = Judged(plan[o].wall, plan[o].t, v)
  PROVE  /\ JudgesWell /\ verdict[plan[o].t] = "open" /\ verdict'[plan[o].t] = v
         /\ \A x \in Occurrences \ {plan[o].t} : verdict'[x] = "fired" => verdict[x] = "fired"
<1> DEFINE w == plan[o].wall
           t == plan[o].t
           M == Overdue(ledger, w, t)
           B == Between(ledger, w, t)
<1>1. \A x \in Occurrences : verdict'[x] = IF x = t THEN v ELSE IF x \in B THEN "skipped"
                                           ELSE IF x \in M THEN "missed" ELSE verdict[x]
  BY JudgedIs
<1>2. \A x \in B \cup {t} : x \in Occurrences /\ x > ledger.decided /\ x <= wall /\ wall <= x + Tolerance
  BY BetweenInTime
<1>3. \A x \in M : x \in Occurrences /\ x > ledger.decided /\ wall > x + Tolerance
  BY OverdueLate
<1>4. \A x \in B \cup {t} \cup M : verdict[x] = "open"
  BY <1>2, <1>3, StillOpen
<1> HIDE DEF M, B, t, w
<1>5. JudgesWell
  BY <1>1, <1>2, <1>3, <1>4 DEF JudgesWell
<1>6. t \in Occurrences
  BY <1>2
<1>7. \A x \in Occurrences \ {t} : verdict'[x] = "fired" => verdict[x] = "fired"
  BY <1>1
<1>8. verdict[t] = "open" /\ verdict'[t] = v
  BY <1>1, <1>4, <1>6
<1> QED
  BY <1>5, <1>7, <1>8 DEF t

\* A claim that makes no run: it judges, or nothing is written.
LEMMA DecideWellDone ==
  ASSUME IInv, PaceInv, NEW o \in Stacks, NEW m, NEW judged, Decide(o, m, judged, work),
         Calm(ledger, m), verdict' = judged => JudgesWell /\ FiresNone
  PROVE  WellDone
<1>1. TypeOK /\ \A h \in Stacks : plan'[h] = plan[h] \/ plan'[h].op # "claim"
  BY AnsweredPlans DEF IInv, Decide
<1>2. UNCHANGED <<work, starts>>
  BY DEF Decide
<1>3. CASE ledger' = m /\ verdict' = judged
  <2>1. MakesWell
    BY <1>1, <1>3, CalmMakesWell
  <2>2. KeepsPace /\ StartsWell
    BY <1>1, <1>2, HandsOverUnstarted DEF KeepsPace, StartsWell
  <2> QED
    BY <1>3, <2>1, <2>2 DEF WellDone
<1>4. CASE UNCHANGED <<ledger, verdict>>
  BY <1>1, <1>2, <1>4, StillCalm, CalmWellDone
<1> QED
  BY <1>3, <1>4 DEF Decide, Write, Unwritten

LEMMA LateWellDone ==
  ASSUME IInv, CountersReconcile, PaceInv, NEW o \in Stacks, ClaimLate(o)
  PROVE  WellDone
<1> DEFINE w == plan[o].wall
           t == plan[o].t
           m == LateClaim(ledger, w, t)
           M == Overdue(ledger, w, t)
<1>1. Claiming(o) /\ Decide(o, m, Judge(M, "missed"), work)
  BY DEF ClaimLate
<1>2. ledger \in Ledger /\ t \in Time
  BY <1>1, ClaimFacts
<1>3. Calm(ledger, m)
  <2>1. m \in Ledger /\ SameRuns(ledger, m) /\ m.decided >= ledger.decided
    BY <1>2, LateKeeps
  <2> QED
    BY <1>2, <2>1, CalmIfSame DEF CalmBut
<1>4. \A x \in M : x \in Occurrences /\ x > ledger.decided /\ wall > x + Tolerance
  BY <1>1, OverdueLate
<1> HIDE DEF m, M
<1>5. verdict' = Judge(M, "missed") => JudgesWell /\ FiresNone
  BY <1>4, MissesWell
<1> QED
  BY <1>1, <1>3, <1>5, DecideWellDone

LEMMA OverlapWellDone ==
  ASSUME IInv, CountersReconcile, PaceInv, NEW o \in Stacks, ClaimOverlap(o)
  PROVE  WellDone
<1> DEFINE w == plan[o].wall
           t == plan[o].t
           m == OverlapClaim(ledger, w, t)
           g == Judged(w, t, "skipped")
<1>1. Claiming(o) /\ ~ LateAt(w, t) /\ Decide(o, m, g, work)
  BY DEF ClaimOverlap
<1>2. /\ ledger \in Ledger /\ t \in Time /\ t \in Nat /\ ledger.decided \in Nat
      /\ t > ledger.decided
  BY <1>1, ClaimFacts
<1>3. Calm(ledger, m)
  <2>1. m \in Ledger /\ SameRuns(ledger, m) /\ m.decided = t
    BY <1>2, OverlapKeeps
  <2> HIDE DEF m
  <2> QED
    BY <1>2, <2>1, CalmIfSame DEF CalmBut
<1>4. verdict' = g => JudgesWell /\ FiresNone
  <2> SUFFICES ASSUME verdict' = g PROVE JudgesWell /\ FiresNone
    OBVIOUS
  <2>1. /\ JudgesWell /\ verdict'[t] = "skipped"
        /\ \A x \in Occurrences \ {t} : verdict'[x] = "fired" => verdict[x] = "fired"
    BY <1>1, JudgedWell DEF PaceInv
  <2> QED
    BY <2>1 DEF FiresNone
<1> HIDE DEF m, g
<1> QED
  BY <1>1, <1>3, <1>4, DecideWellDone

\* What the birth of a run does to the runs.
LEMMA BirthMakes ==
  ASSUME IInv, NEW o \in Stacks, NEW k \in Keys, ledger.runs[k] = NoRun,
         ledger'.runs[k] = NewRun(ledger, o),
         NEW C \in SUBSET QueuedRuns(ledger),
         \A j \in Keys \ (C \cup {k}) : ledger'.runs[j] = ledger.runs[j],
         \A j \in C \ {k} : ledger'.runs[j].state = "coalesced"
  PROVE  /\ Status(ledger, k) = "none" /\ Status(ledger', k) = "live"
         /\ \A j \in Keys \ {k} :
              \/ Status(ledger', j) = Status(ledger, j)
              \/ Status(ledger, j) = "live" /\ Status(ledger', j) = "over"
<1>1. Status(ledger, k) = "none"
  BY DEF Status
<1>2. Status(ledger', k) = "live"
  BY NewRunIs DEF Status, IsActive, Active
<1>3. ASSUME NEW j \in C \ {k}
      PROVE  Status(ledger, j) = "live" /\ Status(ledger', j) = "over"
  <2>1. ledger.runs[j].state = "queued" /\ ledger'.runs[j].state = "coalesced"
    BY <1>3 DEF QueuedRuns
  <2> QED
    BY <2>1 DEF Status, IsActive, Active, NoRun
<1>4. ASSUME NEW j \in Keys \ (C \cup {k}) PROVE Status(ledger', j) = Status(ledger, j)
  BY <1>4 DEF Status, IsActive
<1> QED
  BY <1>1, <1>2, <1>3, <1>4

\* The handing over of a new run.
LEMMA HandOverPace ==
  ASSUME IInv, PaceInv, NEW o \in Stacks, NEW k \in Keys, ledger.runs[k] = NoRun,
         work' = HandedOver(ledger, o, k) \/ work' = work, UNCHANGED starts,
         \A h \in Stacks : plan'[h] = plan[h] \/ plan'[h].op # "claim"
  PROVE  KeepsPace
<1>1. \A j \in Keys : work'[j] \in {work[j], "none"} \/ j = k
  BY DEF HandedOver, IInv, TypeOK
<1>2. \A j \in Keys : work'[j] \in {"start", "queue"} => starts'[j] = 0
  BY <1>1, HandsOverUnstarted
<1> QED
  BY <1>2 DEF KeepsPace

LEMMA FireWellDone ==
  ASSUME IInv, CountersReconcile, PaceInv, NEW o \in Stacks, ClaimFire(o)
  PROVE  WellDone
<1> DEFINE w == plan[o].wall
           t == plan[o].t
           m == FiredClaim(ledger, o, w, t)
           C == Coalesced(ledger)
           g == Judged(w, t, "fired")
           handed == HandedOver(ledger, o, t)
<1>1. Claiming(o) /\ ~ LateAt(w, t) /\ Decide(o, m, g, handed)
  BY DEF ClaimFire
<1>2. ledger \in Ledger /\ ledger.def # "none" /\ t \in Occurrences /\ t \in Keys
  BY <1>1, ClaimFacts DEF Keys
<1>3. /\ m.runs[t] = NewRun(ledger, o)
      /\ \A j \in Keys \ (C \cup {t}) : m.runs[j] = ledger.runs[j]
      /\ \A j \in C \ {t} : m.runs[j].state = "coalesced"
  BY <1>2, FiredIs
<1>4. C \in SUBSET QueuedRuns(ledger)
  BY DEF Coalesced
<1>5. ledger.runs[t] = NoRun /\ UNCHANGED starts /\ TypeOK
  BY <1>1 DEF Decide, IInv
<1>6. \A h \in Stacks : plan'[h] = plan[h] \/ plan'[h].op # "claim"
  BY <1>1, <1>5, AnsweredPlans DEF Decide
<1> HIDE DEF m, C, g, handed
<1>7. \/ ledger' = m /\ verdict' = g /\ (work' = handed \/ work' = work)
      \/ UNCHANGED <<ledger, verdict, work>>
  BY <1>1 DEF Decide, Write, Unwritten
<1>8. CASE ledger' = m /\ verdict' = g /\ (work' = handed \/ work' = work)
  <2>1. /\ JudgesWell /\ verdict[t] = "open" /\ verdict'[t] = "fired"
        /\ \A x \in Occurrences \ {t} : verdict'[x] = "fired" => verdict[x] = "fired"
    BY <1>1, <1>8, JudgedWell DEF PaceInv, g
  <2>2. /\ Status(ledger, t) = "none" /\ Status(ledger', t) = "live"
        /\ \A j \in Keys \ {t} :
             \/ Status(ledger', j) = Status(ledger, j)
             \/ Status(ledger, j) = "live" /\ Status(ledger', j) = "over"
    <3>1. /\ ledger'.runs[t] = NewRun(ledger, o)
          /\ \A j \in Keys \ (C \cup {t}) : ledger'.runs[j] = ledger.runs[j]
          /\ \A j \in C \ {t} : ledger'.runs[j].state = "coalesced"
      BY <1>3, <1>8
    <3> HIDE DEF t
    <3> QED
      BY <1>2, <1>4, <1>5, <3>1, BirthMakes
  <2> HIDE DEF t
  <2>3. MakesWell
    BY <2>1, <2>2 DEF MakesWell
  <2>4. StartsWell
    BY <1>5 DEF StartsWell
  <2>5. KeepsPace
    BY <1>2, <1>5, <1>6, <1>8, HandOverPace DEF handed
  <2> QED
    BY <2>1, <2>3, <2>4, <2>5 DEF WellDone
<1>9. CASE UNCHANGED <<ledger, verdict, work>>
  BY <1>5, <1>6, <1>9, StillCalm, CalmWellDone
<1> QED
  BY <1>7, <1>8, <1>9

LEMMA ManualWellDone ==
  ASSUME IInv, PaceInv, NEW o \in Stacks, NEW r \in Requests, Manual(o, r)
  PROVE  WellDone
<1> DEFINE m == ManualClaim(ledger, o, r)
<1>1. ledger \in Ledger /\ r \in Keys /\ r \notin Occurrences /\ ledger.requests[r] = "none"
  BY LedgerAssumption DEF IInv, TypeOK, Keys, Manual
<1>2. ledger.runs[r] = NoRun
  BY <1>1 DEF IInv, RunsInv, BirthInv
<1>3. /\ ledger' = m /\ UNCHANGED <<plan, verdict, starts>>
      /\ work' = HandedOver(ledger, o, r) \/ work' = work
  BY DEF Manual, Write, Elsewhere
<1>4. /\ \A j \in Keys \ {r} : m.runs[j] = ledger.runs[j]
      /\ IF Refuses(ledger) THEN m.runs = ledger.runs ELSE m.runs[r] = NewRun(ledger, o)
  BY <1>1, ManualIs
<1> HIDE DEF m
<1>5. JudgesWell /\ FiresNone /\ StartsWell
  BY <1>3 DEF JudgesWell, FiresNone, StartsWell
<1>6. KeepsPace
  BY <1>1, <1>2, <1>3, HandOverPace
<1>7. /\ \A j \in Keys \ {r} : Status(ledger', j) = Status(ledger, j)
      /\ \/ Status(ledger', r) = Status(ledger, r)
         \/ Status(ledger, r) = "none" /\ Status(ledger', r) = "live"
  <2>1. \A j \in Keys \ {r} : Status(ledger', j) = Status(ledger, j)
    BY <1>3, <1>4 DEF Status, IsActive
  <2>2. CASE Refuses(ledger)
    BY <1>3, <1>4, <2>1, <2>2 DEF Status, IsActive
  <2>3. CASE ~ Refuses(ledger)
    <3>1. ledger'.runs[r] = NewRun(ledger, o)
      BY <1>3, <1>4, <2>3
    <3>2. Status(ledger', r) = "live" /\ Status(ledger, r) = "none"
      BY <1>2, <3>1, NewRunIs DEF Status, IsActive, Active
    <3> QED
      BY <2>1, <3>2
  <2> QED
    BY <2>2, <2>3
<1>8. MakesWell
  <2> SUFFICES ASSUME NEW k \in Keys
               PROVE  /\ \/ Status(ledger', k) = Status(ledger, k)
                         \/ Status(ledger, k) = "none" /\ Status(ledger', k) = "live"
                      /\ k \in Occurrences =>
                           (Status(ledger, k) = "none" /\ Status(ledger', k) = "live"
                            <=> verdict[k] # "fired" /\ verdict'[k] = "fired")
    BY DEF MakesWell
  <2>1. k \in Occurrences => k # r
    BY <1>1
  <2> QED
    BY <1>3, <1>7, <2>1
<1> QED
  BY <1>5, <1>6, <1>8 DEF WellDone

-------------------------------------------------------------------------------
(* The refinement *)

LEMMA StepWellDone ==
  ASSUME IInv, CountersReconcile, PaceInv, [Next]_vars
  PROVE  WellDone
<1>1. ASSUME NEW o \in Stacks, ClockStep(o) PROVE WellDone
  <2>1. ASSUME NEW k \in Keys, SettleDoubt(o, k) PROVE WellDone
    BY <2>1, OthersWellDone
  <2> QED
    BY <1>1, <2>1, ClockWellDone, LateWellDone, OverlapWellDone, FireWellDone, ApplySweepWellDone
       DEF ClockStep
<1>2. ASSUME NEW o \in Stacks, SweepNow(o) \/ LockBusy(o) PROVE WellDone
  BY <1>2, ClockWellDone
<1>3. ASSUME NEW o \in Stacks, Recover(o) \/ CloseEpoch(o) PROVE WellDone
  BY <1>3, OthersWellDone
<1>4. ASSUME NEW o \in Stacks, NEW r \in Requests, Manual(o, r) PROVE WellDone
  BY <1>4, ManualWellDone
<1>5. ASSUME NEW o \in Stacks, Pause(o) \/ Delete(o) PROVE WellDone
  BY <1>5, EditsWellDone
<1>6. CASE Update \/ Approve \/ Resume
  BY <1>6, EditsWellDone
<1>7. ASSUME NEW k \in Keys, Execute(k) \/ ExecDispose(k) PROVE WellDone
  <2>1. CASE ExecRefused(k) \/ ExecRejected(k) \/ ExecDone(k)
    BY <2>1, ReportsWellDone DEF ExecRefused, ExecRejected, ExecDone
  <2> QED
    BY <1>7, <2>1, ExecStartWellDone, ReportsWellDone DEF Execute
<1>8. ASSUME NEW k \in Keys, Messages(k) PROVE WellDone
  BY <1>8, SendWellDone, ReportsWellDone DEF Messages
<1>9. ASSUME NEW o \in Stacks, Open(o) \/ Close(o) PROVE WellDone
  BY <1>9, StackWellDone
<1>10. ASSUME NEW p, Crash(p) PROVE WellDone
  BY <1>10, StackWellDone
<1>11. CASE DropQueued
  BY <1>11, OthersWellDone
<1>12. CASE Tick \/ Jump \/ UNCHANGED vars
  BY <1>12, StackWellDone
<1> QED
  BY <1>1, <1>2, <1>3, <1>4, <1>5, <1>6, <1>7, <1>8, <1>9, <1>10, <1>11, <1>12 DEF Next

LEMMA PaceInit == Init => PaceInv
BY DEF Init, PaceInv, DueInv, UnstartedInv, NoPlan

LEMMA ContractInit == Init => Contract!Init
<1> SUFFICES ASSUME Init PROVE Contract!Init
  OBVIOUS
<1>1. \A k \in Keys : ledger.runs[k] = NoRun
  BY DEF Init, NewLedger
<1> QED
  BY <1>1 DEF Init, Contract!Init

\* Over any number of processes, reloads and crashes, with requests among the occurrences
\* and the wall clock set forwards or back: every occurrence is judged once and in time, and
\* every run is made, given to its executant and ended once (autoClaim, manualClaim, the
\* sweeps, the executors' starts).
THEOREM ScheduleKeepsContract == Spec => ImplementsContract
<1>1. PaceInv /\ IInv /\ CountersReconcile /\ [Next]_vars => PaceInv'
  BY StepWellDone, PaceKept DEF WellDone
<1>2. Spec => []PaceInv
  BY <1>1, PaceInit, IInvAlways, TotalsReconcile, PTL DEF Spec
<1>3. PaceInv /\ IInv /\ CountersReconcile /\ [Next]_vars => [Contract!Next]_(Contract!vars)
  <2> SUFFICES ASSUME PaceInv, IInv, CountersReconcile, [Next]_vars PROVE Contract!Next
    OBVIOUS
  <2>1. TypeOK /\ TypeOK'
    BY StepKeeps DEF IInv
  <2> QED
    BY <2>1, StepWellDone, ContractNext DEF WellDone
<1> QED
  BY <1>2, <1>3, ContractInit, IInvAlways, TotalsReconcile, PTL
     DEF Spec, ImplementsContract, Contract!Spec
===============================================================================
