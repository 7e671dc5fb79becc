---------------------------- MODULE ScheduleProofs ----------------------------
(***************************************************************************)
(* Proofs about the schedule, for any number of stacks and processes, any  *)
(* definitions and requests, and any bounds.                               *)
(***************************************************************************)
EXTENDS ScheduleProperties, ScheduleLedgerProofs

-------------------------------------------------------------------------------
(* The invariant of the schedule. *)

\* A plan that has the rev of the ledger is about an occurrence that is still open.
PlanInv ==
  \A o \in Stacks :
    plan[o].op = "claim" /\ o \in fresh =>
      /\ Executable(ledger)
      /\ plan[o].t \in At[ledger.def] /\ plan[o].t > ledger.decided

\* Nobody knows of a run that has not been made, and a run was made by an open stack.
BirthInv ==
  \A k \in Keys :
    /\ ledger.runs[k] = NoRun => work[k] = "none" /\ starts[k] = 0 /\ k \notin uncertain
    /\ ledger.runs[k] # NoRun => stack[ledger.runs[k].stack] # "new"
    /\ k \in Requests /\ ledger.requests[k] = "none" => ledger.runs[k] = NoRun

\* An executor has none of the runs that its clock is in doubt about.
DoubtInv ==
  \A o \in Stacks : \A k \in doubt[o] :
    work[k] = "none" /\ k \in Occurrences /\ k <= ledger.decided

Held == {"start", "admit", "wait", "sent", "doubt"}

\* What an executor has begun is not in the queue.
HeldInv == \A k \in Keys : work[k] \in Held => ledger.runs[k].state # "queued"

UncertainInv == \A k \in uncertain : work[k] = "none" /\ starts[k] = 0

ClosingInv == \A o \in closing : stack[o] \notin {"new", "open"}

RunsInv == BirthInv /\ DoubtInv /\ HeldInv /\ UncertainInv /\ OneBackgroundRun
IInv == TypeOK /\ PlanInv /\ ClosingInv /\ RunsInv /\ OwnersKeepRuns

\* A calm step keeps the facts about the runs, when only runs somebody has in hand change
\* theirs.
LEMMA CalmKeeps ==
  ASSUME IInv, Calm(ledger, ledger'),
         \A o \in Stacks : stack[o] # "new" => stack'[o] # "new",
         \A k \in Keys : work'[k] # work[k] =>
           work[k] # "none" /\ (work'[k] \in Held => ledger'.runs[k].state # "queued"),
         \A k \in Keys : starts'[k] # starts[k] => work[k] # "none",
         uncertain' \subseteq uncertain,
         \A o \in Stacks : \A k \in doubt'[o] :
           k \in doubt[o] \/ (work'[k] = "none" /\ k \in Occurrences /\ k <= ledger'.decided)
  PROVE  RunsInv'
<1> USE DEF IInv, RunsInv
<1>0. /\ ledger \in Ledger /\ uncertain \subseteq Keys /\ doubt \in [Stacks -> SUBSET Keys]
  BY DEF TypeOK
<1>1. \A k \in Keys : ledger.runs[k] = NoRun <=> ledger'.runs[k] = NoRun
  <2> TAKE k \in Keys
  <2>1. CASE ledger'.runs[k] = ledger.runs[k]
    BY <2>1
  <2>2. CASE IsActive(ledger, k) /\ ledger'.runs[k].state \in (Active \ {"queued"}) \cup Terminal
    <3>1. NoRun.state \notin Active \cup Terminal
      BY DEF NoRun, Active, Terminal
    <3> QED
      BY <2>2, <3>1 DEF IsActive
  <2> QED
    BY <2>1, <2>2 DEF Calm, CalmRuns
<1>2. \A k \in Keys : ledger.runs[k] # NoRun => ledger.runs[k].stack \in Stacks
  BY <1>0, RunIs, SMT DEF Run
<1>3. BirthInv'
  <2> SUFFICES ASSUME NEW k \in Keys
               PROVE  /\ ledger'.runs[k] = NoRun => work'[k] = "none" /\ starts'[k] = 0 /\ k \notin uncertain'
                      /\ ledger'.runs[k] # NoRun => stack'[ledger'.runs[k].stack] # "new"
                      /\ k \in Requests /\ ledger'.requests[k] = "none" => ledger'.runs[k] = NoRun
    BY DEF BirthInv
  <2>1. ledger'.runs[k] = NoRun => work'[k] = "none" /\ starts'[k] = 0 /\ k \notin uncertain'
    BY <1>1 DEF BirthInv
  <2>2. ledger'.runs[k] # NoRun => ledger'.runs[k].stack = ledger.runs[k].stack
    BY DEF Calm, CalmRuns
  <2>3. ledger'.runs[k] # NoRun => stack'[ledger'.runs[k].stack] # "new"
    BY <1>1, <1>2, <2>2 DEF BirthInv
  <2>4. k \in Requests /\ ledger'.requests[k] = "none" => ledger'.runs[k] = NoRun
    BY <1>1 DEF BirthInv, Calm
  <2> QED
    BY <2>1, <2>3, <2>4
<1>4. DoubtInv'
  <2> SUFFICES ASSUME NEW o \in Stacks, NEW k \in doubt'[o], k \in doubt[o]
               PROVE  work'[k] = "none" /\ k \in Occurrences /\ k <= ledger'.decided
    BY DEF DoubtInv
  <2>1. work[k] = "none" /\ k \in Occurrences /\ k <= ledger.decided /\ k \in Keys
    BY <1>0 DEF DoubtInv
  <2>2. k \in Nat /\ ledger.decided \in Nat /\ ledger'.decided \in Nat
    <3>1. ledger.decided \in Time /\ ledger'.decided \in Time
      BY <1>0, LedgerFields DEF Calm
    <3>2. k \in Time
      BY <2>1, LedgerAssumption, SMT DEF Occurrences
    <3> QED
      BY <3>1, <3>2, TimeFacts
  <2> QED
    BY <2>1, <2>2 DEF Calm
<1>5. HeldInv'
  <2>1. "queued" \notin Terminal
    BY DEF Terminal
  <2> QED
    BY <2>1 DEF HeldInv, Calm, CalmRuns
<1>6. UncertainInv'
  BY <1>0 DEF UncertainInv
<1>7. OneBackgroundRun'
  <2>1. \A k \in Keys : IsActive(ledger, k)' =>
          IsActive(ledger, k) /\ ledger'.runs[k].def = ledger.runs[k].def
    BY DEF Calm, CalmRuns, IsActive
  <2> QED
    BY <2>1 DEF OneBackgroundRun
<1> QED
  BY <1>3, <1>4, <1>5, <1>6, <1>7

\* The plans are as good as they were when the ledger is written or left alone.
LEMMA PlansWritten == ASSUME fresh' = {} PROVE PlanInv'
BY DEF PlanInv

\* Steps that touch no run, no stack and no executor.
LEMMA QuietKeeps ==
  ASSUME IInv, UNCHANGED <<ledger, stack, closing, doubt, work, starts, uncertain>>
  PROVE  ClosingInv' /\ RunsInv' /\ OwnersKeepRuns'
<1>1. ClosingInv'
  BY DEF IInv, ClosingInv
<1>2. RunsInv'
  BY DEF IInv, RunsInv, BirthInv, DoubtInv, HeldInv, UncertainInv, OneBackgroundRun, IsActive
<1>3. OwnersKeepRuns'
  BY DEF IInv, OwnersKeepRuns, Closed, IsActive
<1> QED
  BY <1>1, <1>2, <1>3

-------------------------------------------------------------------------------
(* The types of what the clocks keep. *)

LEMMA SpentType ==
  ASSUME TypeOK,
         spent' = spent \/ \E b \in {"jumps", "changes", "faults"} : Spend(b)
  PROVE  spent' \in [{"jumps", "changes", "faults"} -> Nat]
<1>1. spent \in [{"jumps", "changes", "faults"} -> Nat]
  BY DEF TypeOK
<1>2. ASSUME NEW b \in {"jumps", "changes", "faults"}, Spend(b)
      PROVE  spent' \in [{"jumps", "changes", "faults"} -> Nat]
  BY <1>1, <1>2 DEF Spend
<1> QED
  BY <1>1, <1>2

LEMMA PlannedType ==
  ASSUME TypeOK, NEW op \in {"claim", "sweep"}, NEW t \in Time, NEW tries \in 1 .. Attempts
  PROVE  Planned(op, t, tries) \in Plan /\ Planned(op, t, tries).op = op /\ Planned(op, t, tries).t = t
BY DEF TypeOK, Plan, Planned

LEMMA FirstTry == 1 \in 1 .. Attempts /\ Attempts \in Nat
BY ScheduleAssumption

\* A plan that a clock holds.
LEMMA PlanType ==
  ASSUME TypeOK, NEW o \in Stacks
  PROVE  /\ plan[o] \in Plan \cup {NoPlan}
         /\ plan[o].op \in {"claim", "sweep"} =>
              /\ plan[o].t \in Time /\ plan[o].wall \in Time
              /\ plan[o].tries \in 1 .. Attempts
              /\ plan[o].tries < Attempts => plan[o].tries + 1 \in 1 .. Attempts
<1>1. plan[o] \in Plan \cup {NoPlan}
  BY DEF TypeOK
<1>2. ASSUME plan[o].op \in {"claim", "sweep"}
      PROVE  plan[o] \in Plan
  BY <1>1, <1>2 DEF NoPlan
<1>3. ASSUME plan[o] \in Plan
      PROVE  plan[o].t \in Time /\ plan[o].wall \in Time /\ plan[o].tries \in 1 .. Attempts
  BY <1>3 DEF Plan
<1>4. \A n \in 1 .. Attempts : n < Attempts => n + 1 \in 1 .. Attempts
  BY FirstTry
<1> QED
  BY <1>1, <1>2, <1>3, <1>4

LEMMA LaterType ==
  ASSUME NEW t \in Time \cup {MaxTime + 1}
  PROVE  t + Tolerance + 1 \in Nat
<1>1. t \in Nat
  BY TimeFacts
<1> QED
  BY <1>1, TimeFacts

LEMMA SupplementType ==
  ASSUME NEW l \in Ledger, NEW since, NEW w
  PROVE  Supplement(since, l, w) \in SUBSET Nat
<1>1. NextOpen(l, w) \in Time \cup {MaxTime + 1}
  BY DueIs, LeastIs DEF NextOpen, FirstOpen
<1> QED
  BY <1>1, LaterType DEF Supplement

\* A candidate that is due is an occurrence of the task, and it is still open.
LEMMA CandidateIs ==
  ASSUME TypeOK, NEW o \in Stacks, Candidate(o) <= wall
  PROVE  /\ Executable(ledger) /\ Candidate(o) \in Time
         /\ Candidate(o) \in At[ledger.def] /\ Candidate(o) > ledger.decided
<1> DEFINE b == {ledger.decided, armed[o] - 1, tried[o]}
           D == Due(ledger, Max(b), MaxTime)
<1>1. /\ ledger \in Ledger /\ wall \in Nat /\ wall <= MaxTime
      /\ ledger.decided \in Nat /\ armed[o] \in Nat /\ tried[o] \in Nat /\ MaxTime \in Nat
  <2>1. ledger \in Ledger /\ wall \in Time /\ armed[o] \in Time /\ tried[o] \in Time
    BY DEF TypeOK
  <2>2. ledger.decided \in Time
    BY <2>1, LedgerFields
  <2> QED
    BY <2>1, <2>2, TimeFacts
<1>2. Max(b) \in Int /\ Max(b) >= ledger.decided
  <2>1. \E x \in b : \A y \in b : x >= y
    BY <1>1
  <2>2. Max(b) \in b /\ \A y \in b : Max(b) >= y
    BY <2>1 DEF Max
  <2> QED
    BY <1>1, <2>2
<1>3. D \in SUBSET Time /\ \A t \in D : t \in At[ledger.def] /\ Max(b) < t
  BY <1>1, DueIs
<1>4. Executable(ledger) /\ Candidate(o) \in D
  <2>1. ~ (MaxTime + 1 <= wall)
    BY <1>1
  <2>2. Executable(ledger)
    BY <2>1 DEF Candidate
  <2>3. Candidate(o) = Least(D, MaxTime + 1)
    BY <2>2 DEF Candidate
  <2> QED
    BY <1>3, <2>1, <2>2, <2>3, LeastIs
<1>5. Candidate(o) \in Time /\ Candidate(o) \in Nat
  BY <1>3, <1>4, TimeFacts
<1>6. Candidate(o) > ledger.decided
  BY <1>1, <1>2, <1>3, <1>4, <1>5
<1> QED
  BY <1>3, <1>4, <1>5, <1>6

-------------------------------------------------------------------------------
(* What a clock does by itself. *)

LEMMA FireKeeps == ASSUME IInv, NEW o \in Stacks, Fire(o) PROVE IInv'
<1> USE DEF IInv
<1>1. /\ Executable(ledger) /\ Candidate(o) \in Time
      /\ Candidate(o) \in At[ledger.def] /\ Candidate(o) > ledger.decided
  BY CandidateIs DEF Fire
<1>2. Planned("claim", Candidate(o), 1) \in Plan /\ Planned("claim", Candidate(o), 1).t = Candidate(o)
  BY <1>1, FirstTry, PlannedType
<1>3. Candidate(o) + Tolerance + 1 \in Nat
  BY <1>1, LaterType
<1>4. spent' \in [{"jumps", "changes", "faults"} -> Nat]
  BY SpentType DEF Fire, Fault
<1>5. plan' \in [Stacks -> Plan \cup {NoPlan}] /\ fresh' \subseteq Stacks
  BY <1>2 DEF Fire, TypeOK
<1>6. tried' \in [Stacks -> Time] /\ sweeps' \in [Stacks -> SUBSET Nat]
  BY <1>1, <1>3 DEF Fire, TypeOK
<1>7. TypeOK'
  BY <1>4, <1>5, <1>6 DEF TypeOK, Fire, time, life, history
<1>8. PlanInv'
  BY <1>1, <1>2 DEF Fire, PlanInv, TypeOK
<1> QED
  BY <1>7, <1>8, QuietKeeps DEF Fire, life, history

\* What the beginning of a sweep changes.
LEMMA BeginSweepIs ==
  ASSUME TypeOK, PlanInv, NEW o \in Stacks, NEW since, NEW left \in SUBSET Nat,
         BeginSweep(o, since, left), UNCHANGED ledger
  PROVE  /\ plan' \in [Stacks -> Plan \cup {NoPlan}] /\ fresh' \subseteq Stacks
         /\ sweeps' \in [Stacks -> SUBSET Nat]
         /\ PlanInv'
<1>1. Planned("sweep", 0, 1) \in Plan /\ Planned("sweep", 0, 1).op = "sweep"
  BY FirstTry, PlannedType, TimeFacts
<1>2. Supplement(since, ledger, wall) \in SUBSET Nat
  BY SupplementType DEF TypeOK
<1>3. plan' \in [Stacks -> Plan \cup {NoPlan}] /\ fresh' \subseteq Stacks
  BY <1>1 DEF BeginSweep, TypeOK
<1>4. sweeps' \in [Stacks -> SUBSET Nat]
  <2>1. \E S \in SUBSET Nat : sweeps' = [sweeps EXCEPT ![o] = S]
    BY <1>2 DEF BeginSweep
  <2> QED
    BY <2>1 DEF TypeOK
<1>5. PlanInv'
  BY <1>1 DEF BeginSweep, PlanInv, TypeOK
<1> QED
  BY <1>3, <1>4, <1>5

LEMMA SweepDueKeeps == ASSUME IInv, NEW o \in Stacks, SweepDue(o) PROVE IInv'
<1> USE DEF IInv
<1> DEFINE left == sweeps[o] \ {t \in sweeps[o] : t <= wall}
<1>1. left \in SUBSET Nat
  BY DEF TypeOK
<1>2. BeginSweep(o, armed[o], left) /\ UNCHANGED ledger
  BY DEF SweepDue
<1>3. /\ plan' \in [Stacks -> Plan \cup {NoPlan}] /\ fresh' \subseteq Stacks
      /\ sweeps' \in [Stacks -> SUBSET Nat] /\ PlanInv'
  BY <1>1, <1>2, BeginSweepIs
<1>4. TypeOK'
  BY <1>3 DEF TypeOK, SweepDue, time, life, history
<1> QED
  BY <1>3, <1>4, QuietKeeps DEF SweepDue, life, history

LEMMA SweepNowKeeps == ASSUME IInv, NEW o \in Stacks, SweepNow(o) PROVE IInv'
<1> USE DEF IInv
<1>1. sweeps[o] \in SUBSET Nat
  BY DEF TypeOK
<1>2. BeginSweep(o, armed[o], sweeps[o]) /\ UNCHANGED ledger
  BY DEF SweepNow
<1>3. /\ plan' \in [Stacks -> Plan \cup {NoPlan}] /\ fresh' \subseteq Stacks
      /\ sweeps' \in [Stacks -> SUBSET Nat] /\ PlanInv'
  BY <1>1, <1>2, BeginSweepIs
<1>4. TypeOK'
  BY <1>3 DEF TypeOK, SweepNow, time, life, history
<1> QED
  BY <1>3, <1>4, QuietKeeps DEF SweepNow, life, history

\* The plan of a clock is over, with what the answer leaves to do later.
Answer(o) ==
  /\ Answered(o)
  /\ \/ Leave
     \/ plan[o].op = "claim" /\ (Lost(o) \/ Ineligible(o) \/ Busy(o))

LEMMA AnswerType ==
  ASSUME TypeOK, NEW o \in Stacks, Answer(o)
  PROVE  /\ plan' \in [Stacks -> Plan \cup {NoPlan}]
         /\ tried' \in [Stacks -> Time] /\ sweeps' \in [Stacks -> SUBSET Nat]
<1>1. plan' \in [Stacks -> Plan \cup {NoPlan}]
  BY DEF Answer, Answered, TypeOK
<1>2. tried \in [Stacks -> Time] /\ sweeps \in [Stacks -> SUBSET Nat]
  BY DEF TypeOK
<1>3. ASSUME plan[o].op = "claim"
      PROVE  plan[o].t \in Time /\ plan[o].t + Tolerance + 1 \in Nat
  BY <1>3, PlanType, LaterType
<1>4. CASE Leave
  BY <1>1, <1>2, <1>4 DEF Leave
<1>5. CASE plan[o].op = "claim" /\ Lost(o)
  BY <1>1, <1>2, <1>3, <1>5 DEF Lost, Leave
<1>6. CASE plan[o].op = "claim" /\ Ineligible(o)
  BY <1>1, <1>2, <1>3, <1>6 DEF Ineligible, Leave
<1>7. CASE plan[o].op = "claim" /\ Busy(o)
  BY <1>1, <1>2, <1>3, <1>4, <1>5, <1>7 DEF Busy
<1> QED
  BY <1>4, <1>5, <1>6, <1>7 DEF Answer

\* An answer that writes nothing leaves the other plans as they are.
LEMMA AnswerPlans ==
  ASSUME TypeOK, PlanInv, NEW o \in Stacks, Answered(o), UNCHANGED ledger, fresh' = fresh \ {o}
  PROVE  PlanInv' /\ fresh' \subseteq Stacks
BY DEF PlanInv, TypeOK, Answered

LEMMA LockBusyKeeps == ASSUME IInv, NEW o \in Stacks, LockBusy(o) PROVE IInv'
<1> USE DEF IInv
<1>1. Answer(o)
  BY DEF LockBusy, Answer, Claim
<1>2. /\ plan' \in [Stacks -> Plan \cup {NoPlan}]
      /\ tried' \in [Stacks -> Time] /\ sweeps' \in [Stacks -> SUBSET Nat]
  BY <1>1, AnswerType
<1>3. PlanInv' /\ fresh' \subseteq Stacks
  BY AnswerPlans DEF LockBusy, Unwritten
<1>4. spent' \in [{"jumps", "changes", "faults"} -> Nat]
  BY SpentType DEF LockBusy, Fault
<1>5. TypeOK'
  BY <1>2, <1>3, <1>4 DEF TypeOK, LockBusy, Unwritten, time, life, history
<1> QED
  BY <1>3, <1>5, QuietKeeps DEF LockBusy, Unwritten, life, history

LEMMA ClaimNothingKeeps == ASSUME IInv, NEW o \in Stacks, ClaimNothing(o) PROVE IInv'
<1> USE DEF IInv
<1>1. Answer(o)
  BY DEF ClaimNothing, Answer, Claiming, Claim
<1>2. /\ plan' \in [Stacks -> Plan \cup {NoPlan}]
      /\ tried' \in [Stacks -> Time] /\ sweeps' \in [Stacks -> SUBSET Nat]
  BY <1>1, AnswerType
<1>3. PlanInv' /\ fresh' \subseteq Stacks
  BY AnswerPlans DEF ClaimNothing, Unwritten
<1>4. spent' \in [{"jumps", "changes", "faults"} -> Nat]
  BY SpentType DEF ClaimNothing, Fault
<1>5. TypeOK'
  BY <1>2, <1>3, <1>4 DEF TypeOK, ClaimNothing, Unwritten, time, life, history
<1> QED
  BY <1>3, <1>5, QuietKeeps DEF ClaimNothing, Unwritten, life, history

LEMMA ReplanClaimKeeps == ASSUME IInv, NEW o \in Stacks, ReplanClaim(o) PROVE IInv'
<1> USE DEF IInv
<1> DEFINE p == plan[o]
<1>1. UNCHANGED <<ledger, stack, closing, doubt, work, starts, uncertain>>
  BY DEF ReplanClaim, life, history
<1>2. CASE Answer(o) /\ fresh' = fresh \ {o}
  <2>1. /\ plan' \in [Stacks -> Plan \cup {NoPlan}]
        /\ tried' \in [Stacks -> Time] /\ sweeps' \in [Stacks -> SUBSET Nat]
    BY <1>2, AnswerType
  <2>2. PlanInv' /\ fresh' \subseteq Stacks
    BY <1>1, <1>2, AnswerPlans DEF Answer
  <2>3. TypeOK'
    BY <2>1, <2>2 DEF TypeOK, ReplanClaim, time, life, history
  <2> QED
    BY <1>1, <2>2, <2>3, QuietKeeps
<1>3. CASE /\ p.tries < Attempts /\ Executable(ledger) /\ p.t \in At[ledger.def] /\ p.t > ledger.decided
           /\ plan' = [plan EXCEPT ![o] = Planned("claim", p.t, p.tries + 1)]
           /\ fresh' = fresh \cup {o} /\ Leave
  <2>1. p.op = "claim"
    BY DEF ReplanClaim, Claim
  <2>2. /\ Planned("claim", p.t, p.tries + 1) \in Plan
        /\ Planned("claim", p.t, p.tries + 1).t = p.t
    BY <1>3, <2>1, PlanType, PlannedType
  <2>3. plan' \in [Stacks -> Plan \cup {NoPlan}] /\ fresh' \subseteq Stacks
    BY <1>3, <2>2 DEF TypeOK
  <2>4. TypeOK'
    BY <1>3, <2>3 DEF TypeOK, ReplanClaim, Leave, time, life, history
  <2>5. PlanInv'
    BY <1>1, <1>3, <2>2 DEF PlanInv, TypeOK
  <2> QED
    BY <1>1, <2>4, <2>5, QuietKeeps
<1> QED
  BY <1>2, <1>3 DEF ReplanClaim, Claim, Answer

LEMMA ReplanSweepKeeps == ASSUME IInv, NEW o \in Stacks, ReplanSweep(o) PROVE IInv'
<1> USE DEF IInv
<1> DEFINE p == plan[o]
<1>1. UNCHANGED <<ledger, stack, closing, doubt, work, starts, uncertain>>
  BY DEF ReplanSweep, life, history
<1>2. p.op = "sweep" /\ p.tries \in 1 .. Attempts
  BY PlanType DEF ReplanSweep
<1>3. sweeps' \in [Stacks -> SUBSET Nat]
  <2>1. Supplement(armed[o], ledger, wall) \in SUBSET Nat
    BY SupplementType DEF TypeOK
  <2> QED
    BY <2>1 DEF ReplanSweep, TypeOK
<1>4. CASE Answered(o) /\ fresh' = fresh \ {o}
  <2>1. plan' \in [Stacks -> Plan \cup {NoPlan}]
    BY <1>4 DEF Answered, TypeOK
  <2>2. PlanInv' /\ fresh' \subseteq Stacks
    BY <1>1, <1>4, AnswerPlans
  <2>3. TypeOK'
    BY <1>3, <2>1, <2>2 DEF TypeOK, ReplanSweep, time, life, history
  <2> QED
    BY <1>1, <2>2, <2>3, QuietKeeps
<1>5. CASE /\ p.tries # Attempts /\ fresh' = fresh \cup {o}
           /\ plan' = [plan EXCEPT ![o] = Planned("sweep", 0, p.tries + 1)]
  <2>1. /\ Planned("sweep", 0, p.tries + 1) \in Plan
        /\ Planned("sweep", 0, p.tries + 1).op = "sweep"
    <3>1. p.tries + 1 \in 1 .. Attempts
      BY <1>2, <1>5, FirstTry
    <3> QED
      BY <3>1, PlannedType, TimeFacts
  <2>2. plan' \in [Stacks -> Plan \cup {NoPlan}] /\ fresh' \subseteq Stacks
    BY <1>5, <2>1 DEF TypeOK
  <2>3. TypeOK'
    BY <1>3, <2>2 DEF TypeOK, ReplanSweep, time, life, history
  <2>4. PlanInv'
    BY <1>1, <1>5, <2>1 DEF PlanInv, TypeOK
  <2> QED
    BY <1>1, <2>3, <2>4, QuietKeeps
<1> QED
  BY <1>4, <1>5 DEF ReplanSweep

LEMMA TickKeeps == ASSUME IInv, Tick PROVE IInv'
<1> USE DEF IInv
<1>1. wall' \in Time
  <2>1. wall \in Nat /\ MaxTime \in Nat
    BY TimeFacts DEF TypeOK
  <2> QED
    BY <2>1 DEF Tick, Time
<1>2. TypeOK'
  BY <1>1 DEF TypeOK, Tick, store, life, clock, history
<1>3. PlanInv'
  BY DEF PlanInv, Tick, store, clock
<1> QED
  BY <1>2, <1>3, QuietKeeps DEF Tick, store, life, clock, history

LEMMA JumpKeeps == ASSUME IInv, Jump PROVE IInv'
<1> USE DEF IInv
<1>1. wall' \in Time /\ skew' \in Int
  <2>1. wall \in Nat /\ wall' \in Time /\ wall' \in Nat /\ skew \in Int
    BY TimeFacts DEF TypeOK, Jump
  <2> QED
    BY <2>1 DEF Jump
<1>2. spent' \in [{"jumps", "changes", "faults"} -> Nat]
  BY SpentType DEF Jump
<1>3. TypeOK'
  BY <1>1, <1>2 DEF TypeOK, Jump, store, life, clock, history
<1>4. PlanInv'
  BY DEF PlanInv, Jump, store, clock
<1> QED
  BY <1>3, <1>4, QuietKeeps DEF Jump, store, life, clock, history

-------------------------------------------------------------------------------
(* Steps that write the ledger and make no run. *)

\* A transaction that is written, written without need, or not written.
LEMMA TransactIs ==
  ASSUME TypeOK, NEW l, Transact(l) \/ Fails
  PROVE  /\ ledger' = l \/ ledger' = ledger
         /\ fresh' = {} \/ (ledger' = ledger /\ fresh' = fresh)
         /\ spent' \in [{"jumps", "changes", "faults"} -> Nat]
<1>1. CASE Transact(l)
  BY <1>1, SpentType DEF Transact, WriteIfNew, Write, store
<1>2. CASE Fails
  BY <1>2, SpentType DEF Fails, Fault, store
<1> QED
  BY <1>1, <1>2

LEMMA WrittenPlans ==
  ASSUME TypeOK, PlanInv, fresh' = {} \/ UNCHANGED <<ledger, fresh>>, UNCHANGED plan
  PROVE  PlanInv' /\ fresh' \subseteq Stacks
BY DEF PlanInv, TypeOK

\* What somebody else than the executor of a run may do to it.
LEMMA PlainKeeps ==
  ASSUME IInv, NEW K \in SUBSET Keys, CalmBut(ledger, ledger', K),
         UNCHANGED <<stack, starts, uncertain>>, closing' \subseteq closing,
         \A o \in Stacks : doubt'[o] \subseteq doubt[o],
         \A k \in Keys : work'[k] # work[k] => work[k] = "queue" /\ work'[k] = "drop",
         \A k \in K : work[k] \in {"start", "admit", "wait", "sent"} => Closed(k)
  PROVE  ClosingInv' /\ RunsInv' /\ OwnersKeepRuns'
<1> USE DEF IInv
<1>1. ClosingInv'
  BY DEF ClosingInv
<1>2. Calm(ledger, ledger') /\ \A k \in Keys \ K : ledger'.runs[k] = ledger.runs[k]
  BY DEF CalmBut
<1>3. RunsInv'
  BY <1>2, CalmKeeps DEF Held
<1>4. OwnersKeepRuns'
  <2> SUFFICES ASSUME NEW k \in Keys, work'[k] \in {"start", "admit", "wait", "sent"}, ~ Closed(k)'
               PROVE  IsActive(ledger, k)'
    BY DEF OwnersKeepRuns
  <2>1. work'[k] = work[k]
    OBVIOUS
  <2>2. ledger'.runs[k].stack = ledger.runs[k].stack
    BY <1>2 DEF Calm, CalmRuns
  <2>3. ~ Closed(k)
    BY <2>2 DEF Closed
  <2>4. k \notin K
    BY <2>1, <2>3
  <2> QED
    BY <1>2, <2>1, <2>3, <2>4 DEF OwnersKeepRuns, IsActive
<1> QED
  BY <1>1, <1>3, <1>4

\* The occurrence that a plan that holds is about.
LEMMA ClaimingIs ==
  ASSUME TypeOK, PlanInv, NEW o \in Stacks, Claiming(o)
  PROVE  /\ plan[o].t \in Occurrences /\ plan[o].t \in Time /\ plan[o].t \in Keys
         /\ plan[o].t > ledger.decided /\ ledger.def \in Definitions
         /\ plan[o].t \in At[ledger.def] /\ ledger \in Ledger /\ ledger.def # "none"
<1>1. /\ Executable(ledger) /\ plan[o].t \in At[ledger.def] /\ plan[o].t > ledger.decided
      /\ ledger \in Ledger
  BY DEF PlanInv, Claiming, Claim, Holds, TypeOK
<1>2. ledger.def \in Definitions /\ ledger.def # "none"
  BY <1>1, LedgerFields DEF Executable
<1>3. plan[o].t \in Occurrences
  BY <1>1, <1>2 DEF Occurrences
<1>4. plan[o].t \in Time
  BY <1>1, <1>2, LedgerAssumption
<1> QED
  BY <1>1, <1>2, <1>3, <1>4 DEF Keys

Verdicts == {"open", "fired", "missed", "skipped"}

LEMMA JudgeType ==
  ASSUME TypeOK, NEW S
  PROVE  Judge(S, "missed") \in [Occurrences -> Verdicts]
BY DEF TypeOK, Judge, Verdicts

LEMMA JudgedType ==
  ASSUME TypeOK, NEW w, NEW t, NEW v \in Verdicts
  PROVE  Judged(w, t, v) \in [Occurrences -> Verdicts]
BY DEF TypeOK, Judged, Verdicts

\* A claim that decides and makes no run.
LEMMA DecideKeeps ==
  ASSUME IInv, NEW o \in Stacks, Claiming(o), NEW m, CalmBut(ledger, m, {}), m.decided >= plan[o].t,
         NEW judged \in [Occurrences -> Verdicts], Decide(o, m, judged, work)
  PROVE  IInv'
<1> USE DEF IInv
<1> DEFINE t == plan[o].t
<1>1. t \in Occurrences /\ t \in Time /\ t \in Keys /\ ledger \in Ledger
  BY ClaimingIs
<1>2. work[t] = "none" /\ ledger.runs[t] = NoRun
  BY <1>1 DEF Decide, RunsInv, BirthInv
<1>3. m \in Ledger /\ \A k \in Keys : m.runs[k] = ledger.runs[k]
  BY DEF CalmBut, Calm
<1>4. {k \in {t} : m.runs[k] # NoRun} = {}
  BY <1>1, <1>2, <1>3
<1>5. /\ uncertain' = uncertain /\ work' = work /\ starts' = starts
      /\ UNCHANGED <<stack, closing>> /\ ledger' \in {ledger, m}
  BY <1>4 DEF Decide, Unwritten, Write, life
<1>6. \/ doubt' = doubt
      \/ doubt' = [doubt EXCEPT ![o] = @ \cup {t}] /\ ledger' = m
  BY DEF Decide, Write
<1>7. doubt' \in [Stacks -> SUBSET Keys]
  BY <1>1, <1>6 DEF TypeOK
<1>8. Answer(o)
  BY DEF Decide, Answer, Claiming, Claim
<1>9. /\ plan' \in [Stacks -> Plan \cup {NoPlan}]
      /\ tried' \in [Stacks -> Time] /\ sweeps' \in [Stacks -> SUBSET Nat]
  BY <1>8, AnswerType
<1>10. PlanInv' /\ fresh' \subseteq Stacks
  <2>1. CASE fresh' = {}
    BY <2>1, PlansWritten
  <2>2. CASE fresh' = fresh \ {o} /\ ledger' = ledger
    BY <2>2, AnswerPlans DEF Decide
  <2> QED
    BY <2>1, <2>2 DEF Decide, Write, Unwritten
<1>11. spent' \in [{"jumps", "changes", "faults"} -> Nat]
  BY SpentType DEF Decide, Fault
<1>12. verdict' \in [Occurrences -> Verdicts]
  BY DEF Decide, TypeOK, Verdicts
<1>13. TypeOK'
  BY <1>1, <1>3, <1>5, <1>7, <1>9, <1>10, <1>11, <1>12 DEF TypeOK, Decide, Verdicts, time, life
<1>14. CalmBut(ledger, ledger', {})
  BY <1>1, <1>5, CalmStutter
<1>15. ClosingInv'
  BY <1>5 DEF ClosingInv
<1>16. \A p \in Stacks : \A k \in doubt'[p] :
         k \in doubt[p] \/ (work'[k] = "none" /\ k \in Occurrences /\ k <= ledger'.decided)
  <2> TAKE p \in Stacks
  <2> TAKE k \in doubt'[p]
  <2> SUFFICES ASSUME k \notin doubt[p]
               PROVE  work'[k] = "none" /\ k \in Occurrences /\ k <= ledger'.decided
    OBVIOUS
  <2>1. k = t /\ ledger' = m
    BY <1>6 DEF TypeOK
  <2>2. m.decided \in Nat /\ t \in Nat
    BY <1>1, <1>3, LedgerFields, TimeFacts
  <2> QED
    BY <1>1, <1>2, <1>5, <2>1, <2>2
<1>17. RunsInv'
  BY <1>5, <1>14, <1>16, CalmKeeps DEF CalmBut
<1>18. OwnersKeepRuns'
  BY <1>5, <1>14 DEF OwnersKeepRuns, CalmBut, Closed, IsActive
<1> QED
  BY <1>10, <1>13, <1>15, <1>17, <1>18

LEMMA ClaimLateKeeps == ASSUME IInv, NEW o \in Stacks, ClaimLate(o) PROVE IInv'
<1> DEFINE p == plan[o]
           m == LateClaim(ledger, p.wall, p.t)
           judged == Judge(Overdue(ledger, p.wall, p.t), "missed")
<1>1. TypeOK /\ PlanInv /\ Claiming(o) /\ LateAt(p.wall, p.t) /\ Decide(o, m, judged, work)
  BY DEF IInv, ClaimLate
<1>2. /\ p.t \in Time /\ p.t > ledger.decided /\ p.t \in At[ledger.def]
      /\ ledger \in Ledger /\ ledger.def # "none"
  BY <1>1, ClaimingIs
<1>3. m \in Ledger /\ SameRuns(ledger, m) /\ m.decided >= ledger.decided /\ m.decided >= p.t
  BY <1>1, <1>2, LateKeeps
<1>4. CalmBut(ledger, m, {})
  BY <1>3, CalmIfSame
<1>5. judged \in [Occurrences -> Verdicts]
  BY <1>1, JudgeType
<1> HIDE DEF m, judged
<1> QED
  BY <1>1, <1>3, <1>4, <1>5, DecideKeeps

LEMMA ClaimOverlapKeeps == ASSUME IInv, NEW o \in Stacks, ClaimOverlap(o) PROVE IInv'
<1> DEFINE p == plan[o]
           m == OverlapClaim(ledger, p.wall, p.t)
           judged == Judged(p.wall, p.t, "skipped")
<1>1. TypeOK /\ PlanInv /\ Claiming(o) /\ Decide(o, m, judged, work)
  BY DEF IInv, ClaimOverlap
<1>2. p.t \in Time /\ p.t > ledger.decided /\ ledger \in Ledger
  BY <1>1, ClaimingIs
<1>3. m \in Ledger /\ SameRuns(ledger, m) /\ m.decided = p.t
  BY <1>2, OverlapKeeps
<1>4. m.decided >= ledger.decided /\ m.decided >= p.t
  <2>1. p.t \in Nat /\ ledger.decided \in Nat
    BY <1>2, LedgerFields, TimeFacts
  <2> QED
    BY <1>2, <1>3, <2>1
<1>5. CalmBut(ledger, m, {})
  BY <1>3, <1>4, CalmIfSame
<1>6. judged \in [Occurrences -> Verdicts]
  BY <1>1, JudgedType DEF Verdicts
<1> HIDE DEF m, judged
<1> QED
  BY <1>1, <1>4, <1>5, <1>6, DecideKeeps

LEMMA ApplySweepKeeps == ASSUME IInv, NEW o \in Stacks, ApplySweep(o) PROVE IInv'
<1> USE DEF IInv
<1> DEFINE p == plan[o]
           left == IF stack[o] = "open" THEN Supplement(armed[o], ledger, p.wall) ELSE {}
<1>1. ledger \in Ledger /\ left \in SUBSET Nat
  BY SupplementType DEF TypeOK
<1>2. ledger' \in {ledger, Sweep(ledger, p.wall)}
  BY DEF ApplySweep, Write, Unwritten
<1>3. CalmBut(ledger, ledger', {})
  BY <1>1, <1>2, CalmOperations, CalmStutter
<1>4. plan' \in [Stacks -> Plan \cup {NoPlan}]
  BY DEF ApplySweep, Answered, TypeOK
<1>5. sweeps' \in [Stacks -> SUBSET Nat]
  <2>1. sweeps' = sweeps \/ sweeps' = [sweeps EXCEPT ![o] = @ \cup left]
    BY DEF ApplySweep
  <2>2. sweeps[o] \cup left \in SUBSET Nat
    BY <1>1 DEF TypeOK
  <2> HIDE DEF left
  <2> QED
    BY <2>1, <2>2 DEF TypeOK
<1>6. PlanInv' /\ fresh' \subseteq Stacks
  <2>1. CASE fresh' = {}
    BY <2>1, PlansWritten
  <2>2. CASE fresh' = fresh \ {o} /\ ledger' = ledger
    BY <2>2, AnswerPlans DEF ApplySweep
  <2> QED
    BY <2>1, <2>2 DEF ApplySweep, Write, Unwritten
<1>7. spent' \in [{"jumps", "changes", "faults"} -> Nat]
  BY SpentType DEF ApplySweep, Fault
<1>8. verdict' \in [Occurrences -> Verdicts]
  BY JudgeType DEF ApplySweep, TypeOK, Verdicts
<1>9. ledger' \in Ledger
  BY <1>3 DEF CalmBut, Calm
<1>10. TypeOK'
  BY <1>4, <1>5, <1>6, <1>7, <1>8, <1>9 DEF TypeOK, ApplySweep, Verdicts, time, life
<1>11. ClosingInv' /\ RunsInv' /\ OwnersKeepRuns'
  BY <1>3, PlainKeeps DEF ApplySweep, life
<1> QED
  BY <1>6, <1>10, <1>11
\* An edit of the task that leaves it in place.
LEMMA ChangeKeeps ==
  ASSUME IInv, NEW def \in Definitions, NEW approved \in Definitions \cup {"none"}, NEW enabled,
         Change(def, approved, enabled), revoked' \in BOOLEAN,
         \A k \in Keys : work'[k] # work[k] => work[k] = "queue" /\ work'[k] = "drop",
         work' = work \/ \E o \in Stacks : Revoke(o)
  PROVE  IInv'
<1> USE DEF IInv
<1> DEFINE m == Rewritten(ledger, wall, def, approved, enabled)
<1>1. ledger \in Ledger /\ wall \in Time
  BY DEF TypeOK
<1>2. m \in Ledger /\ SameRuns(ledger, m) /\ m.decided >= ledger.decided
  BY <1>1, RewrittenKeeps
<1>3. ledger' = m /\ fresh' = {} /\ UNCHANGED <<stack, closing, starts, uncertain, doubt, plan>>
  BY DEF Change, Write, Elsewhere, life
<1>4. m.decided \in Time
  BY <1>2, LedgerFields
<1>5. void' \in Time
  BY <1>4 DEF Change, TypeOK
<1> HIDE DEF m
<1>6. CalmBut(ledger, ledger', {})
  BY <1>2, <1>3, CalmIfSame
<1>7. PlanInv'
  BY <1>3, PlansWritten
<1>8. spent' \in [{"jumps", "changes", "faults"} -> Nat]
  BY SpentType DEF Change
<1>9. verdict' \in [Occurrences -> Verdicts]
  BY JudgeType DEF Change
<1>10. work' \in [Keys -> {"none", "start", "admit", "wait", "queue", "sent", "drop", "doubt"}]
  BY DEF TypeOK, Revoke
<1>11. TypeOK'
  BY <1>2, <1>3, <1>5, <1>8, <1>9, <1>10 DEF TypeOK, Change, Verdicts, Elsewhere, time, life
<1>12. ClosingInv' /\ RunsInv' /\ OwnersKeepRuns'
  BY <1>3, <1>6, PlainKeeps
<1> QED
  BY <1>7, <1>11, <1>12

LEMMA EditsKeep == ASSUME IInv, Update \/ Approve \/ Resume PROVE IInv'
<1>1. /\ ledger.def \in Definitions \cup {"none"} /\ ledger.approved \in Definitions \cup {"none"}
      /\ revoked \in BOOLEAN
  BY LedgerFields DEF IInv, TypeOK
<1>2. UNCHANGED <<work, revoked>>
  BY DEF Update, Approve, Resume
<1>3. CASE Update
  <2>1. PICK d \in Definitions :
          Change(d, ledger.approved, "kept") \/ Change(d, d, "kept")
    BY <1>3 DEF Update
  <2> QED
    BY <1>1, <1>2, <2>1, ChangeKeeps
<1>4. CASE Approve
  <2>1. ledger.def \in Definitions
    BY <1>1, <1>4 DEF Approve, Change
  <2>2. Change(ledger.def, ledger.def, "kept")
    BY <1>4 DEF Approve
  <2> QED
    BY <1>1, <1>2, <2>1, <2>2, ChangeKeeps
<1>5. CASE Resume
  <2>1. ledger.def \in Definitions
    BY <1>1, <1>5 DEF Resume, Change
  <2>2. Change(ledger.def, ledger.approved, "on")
    BY <1>5 DEF Resume
  <2> QED
    BY <1>1, <1>2, <2>1, <2>2, ChangeKeeps
<1> QED
  BY <1>3, <1>4, <1>5

\* A pause or a deletion takes only messages that wait in the queue.
LEMMA RevokeIs ==
  ASSUME TypeOK, NEW o \in Stacks, Revoke(o)
  PROVE  \A k \in Keys : work'[k] # work[k] => work[k] = "queue" /\ work'[k] = "drop"
BY DEF Revoke

LEMMA PauseKeeps == ASSUME IInv, NEW o \in Stacks, Pause(o) PROVE IInv'
<1>1. /\ ledger.def \in Definitions \cup {"none"} /\ ledger.approved \in Definitions \cup {"none"}
      /\ TypeOK
  BY LedgerFields DEF IInv, TypeOK
<1>2. Change(ledger.def, ledger.approved, "off") /\ ledger.def \in Definitions
  BY <1>1 DEF Pause, Change
<1>3. Revoke(o) /\ revoked' \in BOOLEAN
  BY DEF Pause
<1>4. \A k \in Keys : work'[k] # work[k] => work[k] = "queue" /\ work'[k] = "drop"
  BY <1>1, <1>3, RevokeIs
<1> QED
  BY <1>1, <1>2, <1>3, <1>4, ChangeKeeps

LEMMA DeleteKeeps == ASSUME IInv, NEW o \in Stacks, Delete(o) PROVE IInv'
<1> USE DEF IInv
<1>1. ledger \in Ledger
  BY DEF TypeOK
<1>2. ledger' = Removed(ledger) /\ fresh' = {}
      /\ UNCHANGED <<stack, closing, starts, uncertain, doubt, plan>>
  BY DEF Delete, Write, Elsewhere, life, history
<1>3. CalmBut(ledger, ledger', {})
  BY <1>1, <1>2, CalmOperations
<1>4. \A k \in Keys : work'[k] # work[k] => work[k] = "queue" /\ work'[k] = "drop"
  BY RevokeIs DEF Delete
<1>5. work' \in [Keys -> {"none", "start", "admit", "wait", "queue", "sent", "drop", "doubt"}]
  BY DEF TypeOK, Revoke, Delete
<1>6. spent' \in [{"jumps", "changes", "faults"} -> Nat]
  BY SpentType DEF Delete
<1>7. ledger' \in Ledger /\ PlanInv'
  BY <1>2, <1>3, PlansWritten DEF CalmBut, Calm
<1>8. TypeOK'
  BY <1>2, <1>5, <1>6, <1>7 DEF TypeOK, Delete, Elsewhere, time, life, history
<1>9. ClosingInv' /\ RunsInv' /\ OwnersKeepRuns'
  BY <1>2, <1>3, <1>4, PlainKeeps
<1> QED
  BY <1>7, <1>8, <1>9

\* A transaction that ends the runs of K, which nobody open has in hand.
LEMMA EndingKeeps ==
  ASSUME IInv, NEW l, NEW K \in SUBSET Keys, CalmBut(ledger, l, K), Transact(l) \/ Fails,
         \A k \in K : work[k] \in {"start", "admit", "wait", "sent"} => Closed(k),
         UNCHANGED <<time, stack, armed, tried, sweeps, plan, work, history>>,
         closing' \subseteq closing, revoked' \in BOOLEAN,
         doubt' \in [Stacks -> SUBSET Keys],
         \A o \in Stacks : doubt'[o] \subseteq doubt[o]
  PROVE  IInv'
<1> USE DEF IInv
<1>1. /\ ledger' = l \/ ledger' = ledger
      /\ fresh' = {} \/ (ledger' = ledger /\ fresh' = fresh)
      /\ spent' \in [{"jumps", "changes", "faults"} -> Nat]
  BY TransactIs
<1>2. CalmBut(ledger, ledger', K)
  BY <1>1, CalmStutter DEF CalmBut, TypeOK
<1>3. PlanInv' /\ fresh' \subseteq Stacks
  BY <1>1, WrittenPlans
<1>4. ledger' \in Ledger
  BY <1>2 DEF CalmBut, Calm
<1>5. TypeOK'
  BY <1>1, <1>3, <1>4 DEF TypeOK, time, history
<1>6. ClosingInv' /\ RunsInv' /\ OwnersKeepRuns'
  BY <1>2, PlainKeeps DEF history
<1> QED
  BY <1>3, <1>5, <1>6

LEMMA DropQueuedKeeps == ASSUME IInv, DropQueued PROVE IInv'
<1> DEFINE K == QueuedRuns(ledger)
           l == EndAll(ledger, K, "dropped")
<1>1. ledger \in Ledger /\ K \in SUBSET ActiveRuns(ledger) /\ K \in SUBSET Keys
  BY DEF IInv, TypeOK, QueuedRuns, ActiveRuns, IsActive, Active
<1>2. CalmBut(ledger, l, K)
  BY <1>1, CalmOperations DEF Terminal
<1>3. \A k \in K : work[k] \notin {"start", "admit", "wait", "sent"}
  BY DEF IInv, RunsInv, HeldInv, Held, QueuedRuns
<1>4. Transact(l) \/ Fails
  BY DEF DropQueued
<1>5. /\ UNCHANGED <<time, stack, armed, tried, sweeps, plan, work, history, closing, doubt>>
      /\ revoked' \in BOOLEAN
  BY DEF DropQueued, Elsewhere, life
<1> HIDE DEF l, K
<1> QED
  BY <1>1, <1>2, <1>3, <1>4, <1>5, EndingKeeps DEF IInv, TypeOK

LEMMA RecoverKeeps == ASSUME IInv, NEW o \in Stacks, Recover(o) PROVE IInv'
<1> DEFINE K == {k \in ActiveRuns(ledger) : Dead(o, ledger.runs[k].stack)}
           l == Terminate(ledger, K)
<1>1. ledger \in Ledger /\ K \in SUBSET ActiveRuns(ledger) /\ K \in SUBSET Keys
  BY DEF IInv, TypeOK, ActiveRuns
<1>2. CalmBut(ledger, l, K)
  BY <1>1, CalmOperations
<1>3. \A k \in K : Closed(k)
  BY DEF Dead, Closed
<1>4. Transact(l) \/ Fails
  BY DEF Recover
<1>5. UNCHANGED <<time, stack, armed, tried, sweeps, plan, work, history, closing, doubt, revoked>>
  BY DEF Recover, Elsewhere, life
<1> HIDE DEF l, K
<1> QED
  BY <1>1, <1>2, <1>3, <1>4, <1>5, EndingKeeps DEF IInv, TypeOK

LEMMA SettleDoubtKeeps ==
  ASSUME IInv, NEW o \in Stacks, NEW k \in Keys, SettleDoubt(o, k)
  PROVE  IInv'
<1> DEFINE l == Finish(ledger, k, "unknown")
<1>1. ledger \in Ledger /\ doubt \in [Stacks -> SUBSET Keys]
  BY DEF IInv, TypeOK
<1>2. CalmBut(ledger, l, {k})
  BY <1>1, CalmOperations DEF Terminal
<1>3. work[k] = "none"
  BY DEF IInv, RunsInv, DoubtInv, SettleDoubt
<1>4. Transact(l) \/ Fails
  BY DEF SettleDoubt
<1>5. /\ UNCHANGED <<time, stack, armed, tried, sweeps, plan, work, history, closing, revoked>>
      /\ doubt' \in [Stacks -> SUBSET Keys] /\ \A p \in Stacks : doubt'[p] \subseteq doubt[p]
  BY <1>1 DEF SettleDoubt, Elsewhere, life
<1> HIDE DEF l
<1> QED
  BY <1>2, <1>3, <1>4, <1>5, EndingKeeps DEF IInv, TypeOK

LEMMA CloseEpochKeeps == ASSUME IInv, NEW o \in Stacks, CloseEpoch(o) PROVE IInv'
<1> DEFINE K == {k \in ActiveRuns(ledger) : ledger.runs[k].stack = o}
           l == Terminate(ledger, K)
<1>1. ledger \in Ledger /\ K \in SUBSET ActiveRuns(ledger) /\ K \in SUBSET Keys
  BY DEF IInv, TypeOK, ActiveRuns
<1>2. CalmBut(ledger, l, K)
  BY <1>1, CalmOperations
<1>3. \A k \in K : Closed(k)
  BY DEF Closed, CloseEpoch, IInv, ClosingInv
<1>4. Transact(l) \/ Fails
  BY DEF CloseEpoch
<1>5. /\ UNCHANGED <<time, stack, armed, tried, sweeps, plan, work, history, revoked, doubt>>
      /\ closing' \subseteq closing
  BY DEF CloseEpoch, clock
<1> HIDE DEF l, K
<1> QED
  BY <1>1, <1>2, <1>3, <1>4, <1>5, EndingKeeps DEF IInv, TypeOK

-------------------------------------------------------------------------------
(* The executors: a step of the one that has the run k in hand. *)

WorkStates == {"none", "start", "admit", "wait", "queue", "sent", "drop", "doubt"}

LEMMA ExecKeeps ==
  ASSUME IInv, NEW k \in Keys, work[k] # "none", ExecutorOnly,
         CalmBut(ledger, ledger', {k}),
         fresh' = {} \/ (ledger' = ledger /\ fresh' = fresh),
         spent' \in [{"jumps", "changes", "faults"} -> Nat],
         starts' = starts \/ starts' = [starts EXCEPT ![k] = @ + 1],
         NEW to \in WorkStates, work' = [work EXCEPT ![k] = to],
         to \in Held => work[k] \in Held \/ ledger'.runs[k].state # "queued",
         to \in {"start", "admit", "wait", "sent"} => Closed(k)' \/ IsActive(ledger, k)'
  PROVE  IInv'
<1> USE DEF IInv
<1>1. /\ UNCHANGED <<time, stack, closing, armed, tried, sweeps, plan, doubt, revoked,
                     verdict, void, uncertain>>
      /\ work \in [Keys -> WorkStates] /\ starts \in [Keys -> Nat] /\ ledger \in Ledger
  BY DEF ExecutorOnly, Elsewhere, life, TypeOK, WorkStates
<1>2. work' \in [Keys -> WorkStates] /\ starts' \in [Keys -> Nat]
  BY <1>1
<1>3. PlanInv' /\ fresh' \subseteq Stacks
  BY <1>1, WrittenPlans
<1>4. Calm(ledger, ledger') /\ \A j \in Keys \ {k} : ledger'.runs[j] = ledger.runs[j]
  BY DEF CalmBut
<1>5. TypeOK'
  BY <1>1, <1>2, <1>3, <1>4 DEF TypeOK, WorkStates, Calm, time
<1>6. ClosingInv'
  BY <1>1 DEF ClosingInv
<1>7. \A j \in Keys \ {k} : work'[j] = work[j] /\ starts'[j] = starts[j]
  BY <1>1
<1>8. work'[k] = to
  BY <1>1
<1>9. to \in Held => ledger'.runs[k].state # "queued"
  <2>1. ledger'.runs[k] = ledger.runs[k] \/ ledger'.runs[k].state # "queued"
    BY <1>4 DEF Calm, CalmRuns, Terminal
  <2> QED
    BY <2>1 DEF RunsInv, HeldInv
<1>10. RunsInv'
  BY <1>1, <1>4, <1>7, <1>8, <1>9, CalmKeeps
<1>11. OwnersKeepRuns'
  <2> SUFFICES ASSUME NEW j \in Keys, work'[j] \in {"start", "admit", "wait", "sent"}, ~ Closed(j)'
               PROVE  IsActive(ledger, j)'
    BY DEF OwnersKeepRuns
  <2>1. CASE j = k
    BY <1>8, <2>1
  <2>2. CASE j # k
    BY <1>1, <1>4, <1>7, <2>2 DEF OwnersKeepRuns, Closed, IsActive
  <2> QED
    BY <2>1, <2>2
<1> QED
  BY <1>3, <1>5, <1>6, <1>10, <1>11

\* What a written or failed transaction of an executor gives.
LEMMA ExecTransact ==
  ASSUME IInv, NEW k \in Keys, NEW l, CalmBut(ledger, l, {k}), Transact(l) \/ Fails
  PROVE  /\ ledger' = l \/ ledger' = ledger
         /\ CalmBut(ledger, ledger', {k})
         /\ fresh' = {} \/ (ledger' = ledger /\ fresh' = fresh)
         /\ spent' \in [{"jumps", "changes", "faults"} -> Nat]
<1>1. TypeOK /\ ledger \in Ledger
  BY DEF IInv, TypeOK
<1>2. /\ ledger' = l \/ ledger' = ledger
      /\ fresh' = {} \/ (ledger' = ledger /\ fresh' = fresh)
      /\ spent' \in [{"jumps", "changes", "faults"} -> Nat]
  BY <1>1, TransactIs
<1>3. CalmBut(ledger, ledger', {k})
  BY <1>1, <1>2, CalmStutter DEF CalmBut
<1> QED
  BY <1>2, <1>3

LEMMA StutterIs ==
  ASSUME IInv, NEW k \in Keys, UNCHANGED store
  PROVE  /\ CalmBut(ledger, ledger', {k})
         /\ ledger' = ledger /\ fresh' = fresh
BY CalmStutter DEF store, CalmBut, IInv, TypeOK

LEMMA ExecStartKeeps == ASSUME IInv, NEW k \in Keys, ExecStart(k) PROVE IInv'
<1>1. ledger \in Ledger /\ spent \in [{"jumps", "changes", "faults"} -> Nat]
  BY DEF IInv, TypeOK
<1>2. UNCHANGED store /\ ExecutorOnly /\ work[k] # "none" /\ work[k] = "start"
  BY DEF ExecStart, Fails
<1>3. /\ CalmBut(ledger, ledger', {k})
      /\ ledger' = ledger /\ fresh' = fresh
  BY <1>2, StutterIs
<1>4. spent' \in [{"jumps", "changes", "faults"} -> Nat]
  BY <1>1, SpentType DEF IInv, ExecStart, Fails, Fault
<1>5. CASE Stage(k, "none") /\ UNCHANGED starts
  BY <1>2, <1>3, <1>4, <1>5, ExecKeeps DEF Stage, WorkStates, Held
<1>6. CASE /\ ledger.runs[k].state = "dispatching" /\ Stage(k, "admit")
           /\ starts' = [starts EXCEPT ![k] = @ + 1]
  <2>1. IsActive(ledger, k)'
    BY <1>3, <1>6 DEF IsActive, Active
  <2> QED
    BY <1>2, <1>3, <1>4, <1>6, <2>1, ExecKeeps DEF Stage, WorkStates, Held
<1> QED
  BY <1>5, <1>6 DEF ExecStart

LEMMA ExecAdmittedKeeps == ASSUME IInv, NEW k \in Keys, ExecAdmitted(k) PROVE IInv'
<1> DEFINE l == IF Closed(k) THEN Finish(ledger, k, "unknown") ELSE Progress(ledger, k, "running")
<1>1. ledger \in Ledger
  BY DEF IInv, TypeOK
<1>2. ExecutorOnly /\ work[k] = "admit" /\ Stage(k, "wait") /\ UNCHANGED starts /\ (Transact(l) \/ Fails)
  BY DEF ExecAdmitted
<1>3. CalmBut(ledger, l, {k})
  BY <1>1, CalmOperations DEF Terminal
<1>4. /\ ledger' = l \/ ledger' = ledger
      /\ CalmBut(ledger, ledger', {k})
      /\ fresh' = {} \/ (ledger' = ledger /\ fresh' = fresh)
      /\ spent' \in [{"jumps", "changes", "faults"} -> Nat]
  <2> HIDE DEF l
  <2> QED
    BY <1>2, <1>3, ExecTransact
<1>5. Closed(k)' \/ IsActive(ledger, k)'
  <2>1. UNCHANGED stack
    BY <1>2 DEF ExecutorOnly, Elsewhere, life
  <2>2. CASE Closed(k)
    <3>1. ledger'.runs[k].stack = ledger.runs[k].stack
      BY <1>4 DEF CalmBut, Calm, CalmRuns
    <3> QED
      BY <2>1, <2>2, <3>1 DEF Closed
  <2>3. CASE ~ Closed(k)
    <3>1. IsActive(ledger, k)
      BY <1>2, <2>3 DEF IInv, OwnersKeepRuns
    <3>2. l.runs[k].state = "running"
      <4>1. l = [ledger EXCEPT !.runs[k].state = "running"]
        BY <2>3, <3>1 DEF Progress
      <4>2. "running" \in (Active \ {"queued"}) \cup Terminal
        BY DEF Active
      <4>3. [ledger EXCEPT !.runs[k].state = "running"].runs[k].state = "running"
        BY <1>1, <3>1, <4>2, OneMoves
      <4> QED
        BY <4>1, <4>3
    <3> QED
      BY <1>4, <3>1, <3>2 DEF IsActive, Active
  <2> QED
    BY <2>2, <2>3
<1> QED
  BY <1>2, <1>4, <1>5, ExecKeeps DEF Stage, WorkStates, Held

\* The outcome of a run is written and the executor has done with it.
LEMMA ReportKeeps == ASSUME IInv, NEW k \in Keys, work[k] # "none", Report(k) PROVE IInv'
<1> DEFINE l == Finish(ledger, k, IF Closed(k) THEN "unknown" ELSE "ended")
<1>1. CalmBut(ledger, l, {k})
  BY CalmOperations DEF Terminal, IInv, TypeOK
<1>2. ExecutorOnly /\ Stage(k, "none") /\ UNCHANGED starts /\ (Transact(l) \/ Fails)
  BY DEF Report
<1> HIDE DEF l
<1>3. /\ CalmBut(ledger, ledger', {k})
      /\ fresh' = {} \/ (ledger' = ledger /\ fresh' = fresh)
      /\ spent' \in [{"jumps", "changes", "faults"} -> Nat]
  BY <1>1, <1>2, ExecTransact
<1> QED
  BY <1>2, <1>3, ExecKeeps DEF Stage, WorkStates, Held

LEMMA ExecDisposeKeeps == ASSUME IInv, NEW k \in Keys, ExecDispose(k) PROVE IInv'
<1> DEFINE l == Finish(ledger, k, "unknown")
<1>1. CalmBut(ledger, l, {k})
  BY CalmOperations DEF Terminal, IInv, TypeOK
<1>2. /\ ExecutorOnly /\ UNCHANGED <<work, starts>> /\ (Transact(l) \/ Fails) /\ Closed(k)
      /\ work[k] \in {"start", "admit", "wait"}
  BY DEF ExecDispose
<1> HIDE DEF l
<1>3. /\ CalmBut(ledger, ledger', {k})
      /\ fresh' = {} \/ (ledger' = ledger /\ fresh' = fresh)
      /\ spent' \in [{"jumps", "changes", "faults"} -> Nat]
  BY <1>1, <1>2, ExecTransact
<1>4. Closed(k)'
  BY <1>2, <1>3 DEF Closed, ExecutorOnly, Elsewhere, life, CalmBut, Calm, CalmRuns
<1>5. work[k] \in WorkStates /\ work' = [work EXCEPT ![k] = work[k]]
  BY <1>2 DEF IInv, TypeOK, WorkStates
<1> QED
  BY <1>2, <1>3, <1>4, <1>5, ExecKeeps

LEMMA SendMessageKeeps == ASSUME IInv, NEW k \in Keys, SendMessage(k) PROVE IInv'
<1> DEFINE sent == [ledger EXCEPT !.runs[k].state = "dispatched"]
           queued == ledger.runs[k].state = "queued"
<1>1. ledger \in Ledger
  BY DEF IInv, TypeOK
<1>2. ExecutorOnly /\ work[k] # "none"
  BY DEF SendMessage
<1>3. ASSUME queued
      PROVE  CalmBut(ledger, sent, {k}) /\ sent.runs[k].state = "dispatched"
  <2>1. IsActive(ledger, k) /\ {k} \in SUBSET ActiveRuns(ledger)
    BY <1>3 DEF IsActive, Active, ActiveRuns
  <2>2. "dispatched" \in (Active \ {"queued"}) \cup Terminal
    BY DEF Active
  <2>3. sent \in Ledger /\ SameTask(ledger, sent) /\ Moved(ledger, sent, {k}) /\ sent.runs[k].state = "dispatched"
    BY <1>1, <2>1, <2>2, OneMoves
  <2> HIDE DEF sent
  <2> QED
    BY <1>1, <2>1, <2>3, CalmIfMoved
<1>4. CASE queued /\ Transact(sent) /\ Stage(k, "sent") /\ starts' = [starts EXCEPT ![k] = @ + 1]
  <2>1. CalmBut(ledger, sent, {k}) /\ sent.runs[k].state = "dispatched"
    BY <1>3, <1>4
  <2>2. ledger' = sent
    BY <1>4 DEF Transact, WriteIfNew, Write, store
  <2> HIDE DEF sent
  <2>3. /\ CalmBut(ledger, ledger', {k})
        /\ fresh' = {} \/ (ledger' = ledger /\ fresh' = fresh)
        /\ spent' \in [{"jumps", "changes", "faults"} -> Nat]
    BY <1>4, <2>1, ExecTransact
  <2>4. IsActive(ledger, k)' /\ ledger'.runs[k].state # "queued"
    BY <2>1, <2>2 DEF IsActive, Active
  <2> QED
    BY <1>2, <1>4, <2>3, <2>4, ExecKeeps DEF Stage, WorkStates
<1>5. CASE queued /\ Fault /\ Write(sent) /\ Stage(k, "doubt") /\ UNCHANGED starts
  <2>1. CalmBut(ledger, ledger', {k}) /\ ledger'.runs[k].state = "dispatched" /\ fresh' = {}
    BY <1>3, <1>5 DEF Write
  <2>2. spent' \in [{"jumps", "changes", "faults"} -> Nat]
    BY <1>5, SpentType DEF IInv, Fault
  <2> QED
    BY <1>2, <1>5, <2>1, <2>2, ExecKeeps DEF Stage, WorkStates
<1>6. CASE /\ Stage(k, "none") /\ UNCHANGED starts
           /\ Transact(IF queued THEN Finish(ledger, k, "dropped") ELSE ledger)
  <2> DEFINE l == IF queued THEN Finish(ledger, k, "dropped") ELSE ledger
  <2>1. CalmBut(ledger, l, {k})
    <3>1. CalmBut(ledger, Finish(ledger, k, "dropped"), {k})
      BY <1>1, CalmOperations DEF Terminal
    <3>2. CalmBut(ledger, ledger, {k})
      BY <1>1, CalmStutter DEF CalmBut
    <3> QED
      BY <3>1, <3>2
  <2>2. Transact(l)
    BY <1>6
  <2> HIDE DEF l
  <2>3. /\ CalmBut(ledger, ledger', {k})
        /\ fresh' = {} \/ (ledger' = ledger /\ fresh' = fresh)
        /\ spent' \in [{"jumps", "changes", "faults"} -> Nat]
    BY <2>1, <2>2, ExecTransact
  <2> QED
    BY <1>2, <1>6, <2>3, ExecKeeps DEF Stage, WorkStates, Held
<1> QED
  BY <1>4, <1>5, <1>6 DEF SendMessage

LEMMA DropMessageKeeps == ASSUME IInv, NEW k \in Keys, DropMessage(k) PROVE IInv'
<1> DEFINE K == {k} \cap QueuedRuns(ledger)
           l == IF work[k] = "drop" THEN Finish(ledger, k, "dropped")
                ELSE EndAll(ledger, K, "dropped")
<1>1. ledger \in Ledger /\ K \in SUBSET ActiveRuns(ledger) /\ K \subseteq {k}
  BY DEF IInv, TypeOK, QueuedRuns, ActiveRuns, IsActive, Active
<1>2. CalmBut(ledger, l, {k})
  <2>1. CalmBut(ledger, Finish(ledger, k, "dropped"), {k})
    BY <1>1, CalmOperations DEF Terminal
  <2>2. CalmBut(ledger, EndAll(ledger, K, "dropped"), K)
    BY <1>1, CalmOperations DEF Terminal
  <2> QED
    BY <1>1, <2>1, <2>2 DEF CalmBut
<1>3. ExecutorOnly /\ Stage(k, "none") /\ UNCHANGED starts /\ Transact(l) /\ work[k] # "none"
  BY DEF DropMessage
<1> HIDE DEF l
<1>4. /\ CalmBut(ledger, ledger', {k})
      /\ fresh' = {} \/ (ledger' = ledger /\ fresh' = fresh)
      /\ spent' \in [{"jumps", "changes", "faults"} -> Nat]
  BY <1>2, <1>3, ExecTransact
<1> QED
  BY <1>3, <1>4, ExecKeeps DEF Stage, WorkStates, Held

LEMMA EndMessageKeeps == ASSUME IInv, NEW k \in Keys, EndMessage(k) PROVE IInv'
<1> DEFINE l == Finish(ledger, k, IF work[k] = "doubt" THEN "unknown" ELSE "ended")
<1>1. CalmBut(ledger, l, {k})
  BY CalmOperations DEF Terminal, IInv, TypeOK
<1>2. ExecutorOnly /\ Stage(k, "none") /\ UNCHANGED starts /\ (Transact(l) \/ Fails) /\ work[k] # "none"
  BY DEF EndMessage
<1> HIDE DEF l
<1>3. /\ CalmBut(ledger, ledger', {k})
      /\ fresh' = {} \/ (ledger' = ledger /\ fresh' = fresh)
      /\ spent' \in [{"jumps", "changes", "faults"} -> Nat]
  BY <1>1, <1>2, ExecTransact
<1> QED
  BY <1>2, <1>3, ExecKeeps DEF Stage, WorkStates, Held

-------------------------------------------------------------------------------
(* Steps that make a run. *)

LEMMA NewRunIs ==
  ASSUME NEW l, NEW o
  PROVE  /\ NewRun(l, o) # NoRun /\ NewRun(l, o).stack = o /\ NewRun(l, o).def = l.def
         /\ NewRun(l, o).state \in {"dispatching", "queued"}
         /\ NewRun(l, o).state = "queued" => Form[l.def] # "background"
BY DEF NewRun, NoRun

\* The run k is made, the queued messages of C make way for it, and it is handed over or
\* its owner is in doubt.
LEMMA BirthKeeps ==
  ASSUME IInv, NEW o \in Stacks, stack[o] = "open", NEW k \in Keys, ledger.runs[k] = NoRun,
         ledger' \in Ledger, ledger'.decided >= ledger.decided,
         ledger'.runs[k] = NewRun(ledger, o),
         NEW C \in SUBSET QueuedRuns(ledger),
         \A j \in Keys \ (C \cup {k}) : ledger'.runs[j] = ledger.runs[j],
         \A j \in C \ {k} :
           /\ ledger'.runs[j].state = "coalesced"
           /\ ledger'.runs[j].stack = ledger.runs[j].stack /\ ledger'.runs[j].def = ledger.runs[j].def,
         \A q \in Requests : ledger'.requests[q] = "none" => ledger.requests[q] = "none" /\ q # k,
         Form[ledger.def] = "background" => ActiveRuns(ledger) = {},
         k \in Occurrences => k > ledger.decided,
         UNCHANGED <<stack, closing, starts>>,
         \/ work' = HandedOver(ledger, o, k) /\ UNCHANGED <<uncertain, doubt>>
         \/ work' = work /\ uncertain' \subseteq uncertain \cup {k},
         \A p \in Stacks : \A j \in doubt'[p] :
           j \in doubt[p] \/ (j = k /\ work' = work /\ k \in Occurrences /\ k <= ledger'.decided)
  PROVE  ClosingInv' /\ RunsInv' /\ OwnersKeepRuns'
<1> USE DEF IInv, RunsInv
<1>1. /\ ledger \in Ledger /\ uncertain \subseteq Keys /\ doubt \in [Stacks -> SUBSET Keys]
      /\ work \in [Keys -> WorkStates]
  BY DEF TypeOK, WorkStates
<1>2. C \subseteq Keys /\ k \notin C
  BY DEF QueuedRuns, NoRun
<1>3. work[k] = "none" /\ starts[k] = 0 /\ k \notin uncertain
  BY DEF BirthInv
<1>4. \A j \in Keys \ {k} : work'[j] = work[j] \/ (work[j] = "queue" /\ work'[j] = "none")
  BY <1>1 DEF HandedOver
<1>5. work'[k] \in {"none", "start", "queue"}
  BY <1>1, <1>3 DEF HandedOver
<1>6. work'[k] = "start" => Form[ledger.def] = "background"
  BY <1>1, <1>3 DEF HandedOver
<1>7. \A j \in Keys \ {k} : ledger'.runs[j] = NoRun <=> ledger.runs[j] = NoRun
  BY <1>2 DEF QueuedRuns, NoRun
<1>8. \A j \in Keys \ {k} : ledger.runs[j] # NoRun => ledger'.runs[j].stack = ledger.runs[j].stack
  BY <1>2
<1>9. ledger'.runs[k] # NoRun /\ ledger'.runs[k].stack = o /\ ledger'.runs[k].def = ledger.def
  BY NewRunIs
<1>10. ClosingInv'
  BY DEF ClosingInv
<1>11. BirthInv'
  <2> SUFFICES ASSUME NEW j \in Keys
               PROVE  /\ ledger'.runs[j] = NoRun => work'[j] = "none" /\ starts'[j] = 0 /\ j \notin uncertain'
                      /\ ledger'.runs[j] # NoRun => stack'[ledger'.runs[j].stack] # "new"
                      /\ j \in Requests /\ ledger'.requests[j] = "none" => ledger'.runs[j] = NoRun
    BY DEF BirthInv
  <2>1. CASE j = k
    BY <1>9, <2>1
  <2>2. CASE j # k
    <3>1. ledger'.runs[j] = NoRun => work'[j] = "none" /\ starts'[j] = 0 /\ j \notin uncertain'
      BY <1>4, <1>7, <2>2 DEF BirthInv
    <3>2. ledger'.runs[j] # NoRun => stack'[ledger'.runs[j].stack] # "new"
      BY <1>7, <1>8, <2>2 DEF BirthInv
    <3>3. j \in Requests /\ ledger'.requests[j] = "none" => ledger'.runs[j] = NoRun
      BY <1>7, <2>2 DEF BirthInv
    <3> QED
      BY <3>1, <3>2, <3>3
  <2> QED
    BY <2>1, <2>2
<1>12. DoubtInv'
  <2> SUFFICES ASSUME NEW p \in Stacks, NEW j \in doubt'[p]
               PROVE  work'[j] = "none" /\ j \in Occurrences /\ j <= ledger'.decided
    BY DEF DoubtInv
  <2>1. CASE j = k /\ work' = work /\ k \in Occurrences /\ k <= ledger'.decided
    BY <1>3, <2>1
  <2>2. CASE j \in doubt[p]
    <3>1. work[j] = "none" /\ j \in Occurrences /\ j <= ledger.decided /\ j \in Keys
      BY <1>1, <2>2 DEF DoubtInv
    <3>2. j \in Nat /\ ledger.decided \in Nat /\ ledger'.decided \in Nat
      <4>1. ledger.decided \in Time /\ ledger'.decided \in Time
        BY <1>1, LedgerFields
      <4>2. j \in Time
        BY <3>1, LedgerAssumption, SMT DEF Occurrences
      <4> QED
        BY <4>1, <4>2, TimeFacts
    <3>3. j # k
      BY <3>1, <3>2
    <3> QED
      BY <1>4, <3>1, <3>2, <3>3
  <2> QED
    BY <2>1, <2>2
<1>13. HeldInv'
  <2> SUFFICES ASSUME NEW j \in Keys, work'[j] \in Held
               PROVE  ledger'.runs[j].state # "queued"
    BY DEF HeldInv
  <2>1. CASE j = k
    BY <1>5, <1>6, <2>1, NewRunIs DEF Held
  <2>2. CASE j # k
    <3>1. work[j] \in Held
      BY <1>4, <2>2 DEF Held
    <3> QED
      BY <2>2, <3>1 DEF HeldInv
  <2> QED
    BY <2>1, <2>2
<1>14. UncertainInv'
  <2> SUFFICES ASSUME NEW j \in uncertain' PROVE work'[j] = "none" /\ starts'[j] = 0
    BY DEF UncertainInv
  <2>1. CASE j \in uncertain
    <3>1. work[j] = "none" /\ starts[j] = 0 /\ j \in Keys /\ j # k
      BY <1>1, <1>3, <2>1 DEF UncertainInv
    <3> QED
      BY <1>4, <3>1
  <2>2. CASE j = k /\ work' = work
    BY <1>3, <2>2
  <2> QED
    BY <2>1, <2>2
<1>15. \A j \in Keys \ {k} : IsActive(ledger, j)' =>
         IsActive(ledger, j) /\ ledger'.runs[j].def = ledger.runs[j].def
  BY <1>2 DEF IsActive, QueuedRuns, Active
<1>16. OneBackgroundRun'
  <2> SUFFICES ASSUME NEW i \in Keys, NEW j \in Keys, IsActive(ledger, i)', IsActive(ledger, j)', i # j,
                      Form[ledger'.runs[i].def] = "background", Form[ledger'.runs[j].def] = "background"
               PROVE  FALSE
    BY DEF OneBackgroundRun
  <2>1. CASE i # k /\ j # k
    BY <1>15, <2>1 DEF OneBackgroundRun
  <2>2. CASE i = k
    BY <1>9, <1>15, <2>2 DEF ActiveRuns
  <2>3. CASE j = k
    BY <1>9, <1>15, <2>3 DEF ActiveRuns
  <2> QED
    BY <2>1, <2>2, <2>3
<1>17. OwnersKeepRuns'
  <2> SUFFICES ASSUME NEW j \in Keys, work'[j] \in {"start", "admit", "wait", "sent"}, ~ Closed(j)'
               PROVE  IsActive(ledger, j)'
    BY DEF OwnersKeepRuns
  <2>1. CASE j = k
    <3>1. ledger'.runs[k].state \in {"dispatching", "queued"}
      BY NewRunIs
    <3> QED
      BY <2>1, <3>1 DEF IsActive, Active
  <2>2. CASE j # k
    <3>1. work'[j] = work[j]
      BY <1>4, <2>2
    <3>2. j \notin C
      BY <3>1 DEF HeldInv, Held, QueuedRuns
    <3> QED
      BY <2>2, <3>1, <3>2 DEF OwnersKeepRuns, Closed, IsActive
  <2> QED
    BY <2>1, <2>2
<1> QED
  BY <1>10, <1>11, <1>12, <1>13, <1>14, <1>16, <1>17

LEMMA HandedOverType ==
  ASSUME TypeOK, NEW l, NEW o, NEW k
  PROVE  HandedOver(l, o, k) \in [Keys -> WorkStates]
BY DEF TypeOK, WorkStates, HandedOver

LEMMA ClaimFireKeeps == ASSUME IInv, NEW o \in Stacks, ClaimFire(o) PROVE IInv'
<1> USE DEF IInv
<1> DEFINE t == plan[o].t
           w == plan[o].wall
           m == FiredClaim(ledger, o, w, t)
           judged == Judged(w, t, "fired")
           handed == HandedOver(ledger, o, t)
<1>1. Claiming(o) /\ ~ Overlaps(ledger) /\ Decide(o, m, judged, handed)
  BY DEF ClaimFire
<1>2. /\ t \in Occurrences /\ t \in Time /\ t \in Keys /\ t > ledger.decided
      /\ ledger \in Ledger /\ ledger.def # "none"
  BY <1>1, ClaimingIs
<1>3. /\ m \in Ledger /\ m.decided = t /\ m.requests = ledger.requests
      /\ m.runs[t] = NewRun(ledger, o)
      /\ \A j \in Keys \ (Coalesced(ledger) \cup {t}) : m.runs[j] = ledger.runs[j]
      /\ \A j \in Coalesced(ledger) \ {t} :
           /\ m.runs[j].state = "coalesced"
           /\ m.runs[j].stack = ledger.runs[j].stack /\ m.runs[j].def = ledger.runs[j].def
  BY <1>2, FiredIs
<1>4. judged \in [Occurrences -> Verdicts] /\ handed \in [Keys -> WorkStates]
  BY JudgedType, HandedOverType DEF Verdicts
<1> HIDE DEF m, judged
<1>5. /\ ledger.runs[t] = NoRun /\ stack[o] = "open" /\ UNCHANGED <<time, life, revoked, void, starts>>
  BY <1>1 DEF Decide
<1>6. \/ ledger' = m /\ work' = handed /\ UNCHANGED <<uncertain, doubt>>
      \/ /\ ledger' = m /\ work' = work /\ doubt' = [doubt EXCEPT ![o] = @ \cup {t}]
         /\ uncertain' \subseteq uncertain \cup {t}
      \/ ledger' = ledger /\ UNCHANGED <<work, doubt, uncertain>>
  BY <1>1 DEF Decide, Write, Unwritten
<1>7. /\ plan' \in [Stacks -> Plan \cup {NoPlan}]
      /\ tried' \in [Stacks -> Time] /\ sweeps' \in [Stacks -> SUBSET Nat]
  <2>1. Answer(o)
    BY <1>1 DEF Decide, Answer, Claiming, Claim
  <2> QED
    BY <2>1, AnswerType
<1>8. PlanInv' /\ fresh' \subseteq Stacks
  <2>1. CASE fresh' = {}
    BY <2>1, PlansWritten
  <2>2. CASE fresh' = fresh \ {o} /\ ledger' = ledger
    BY <1>1, <2>2, AnswerPlans DEF Decide
  <2> QED
    BY <1>1, <2>1, <2>2 DEF Decide, Write, Unwritten
<1>9. spent' \in [{"jumps", "changes", "faults"} -> Nat]
  BY <1>1, SpentType DEF Decide, Fault
<1>10. verdict' \in [Occurrences -> Verdicts]
  BY <1>1, <1>4 DEF Decide, TypeOK, Verdicts
<1>11. work' \in [Keys -> WorkStates] /\ doubt' \in [Stacks -> SUBSET Keys] /\ uncertain' \subseteq Keys
  BY <1>2, <1>4, <1>6 DEF TypeOK, WorkStates
<1>12. TypeOK'
  BY <1>2, <1>3, <1>5, <1>6, <1>7, <1>8, <1>9, <1>10, <1>11 DEF TypeOK, Verdicts, WorkStates, time, life
<1>13. CASE ledger' = ledger /\ UNCHANGED <<work, doubt, uncertain>>
  BY <1>5, <1>8, <1>12, <1>13, QuietKeeps DEF life
<1>14. CASE ledger' = m /\ (\/ work' = handed /\ UNCHANGED <<uncertain, doubt>>
                            \/ /\ work' = work /\ doubt' = [doubt EXCEPT ![o] = @ \cup {t}]
                               /\ uncertain' \subseteq uncertain \cup {t})
  <2> DEFINE C == Coalesced(ledger)
  <2>1. C \in SUBSET QueuedRuns(ledger)
    BY DEF Coalesced
  <2>2. Form[ledger.def] = "background" => ActiveRuns(ledger) = {}
    BY <1>1 DEF Overlaps
  <2>3. t \in Nat /\ ledger.decided \in Nat
    BY <1>2, LedgerFields, TimeFacts
  <2>4. ledger'.decided >= ledger.decided /\ t <= ledger'.decided
    BY <1>2, <1>3, <1>14, <2>3
  <2>5. \A q \in Requests : ledger'.requests[q] = "none" => ledger.requests[q] = "none" /\ q # t
    BY <1>2, <1>3, <1>14, LedgerAssumption
  <2>6. \A p \in Stacks : \A j \in doubt'[p] :
          j \in doubt[p] \/ (j = t /\ work' = work /\ t \in Occurrences /\ t <= ledger'.decided)
    BY <1>2, <1>14, <2>4 DEF TypeOK
  <2> HIDE DEF C
  <2>7. /\ \A j \in Keys \ (C \cup {t}) : ledger'.runs[j] = ledger.runs[j]
        /\ \A j \in C \ {t} :
             /\ ledger'.runs[j].state = "coalesced"
             /\ ledger'.runs[j].stack = ledger.runs[j].stack
             /\ ledger'.runs[j].def = ledger.runs[j].def
    BY <1>3, <1>14 DEF C
  <2>8. ledger' \in Ledger /\ ledger'.runs[t] = NewRun(ledger, o)
    BY <1>3, <1>14
  <2>9. UNCHANGED <<stack, closing, starts>>
    BY <1>5 DEF life
  <2>10. \/ work' = HandedOver(ledger, o, t) /\ UNCHANGED <<uncertain, doubt>>
         \/ work' = work /\ uncertain' \subseteq uncertain \cup {t}
    BY <1>14
  <2> HIDE DEF t
  <2>11. ClosingInv' /\ RunsInv' /\ OwnersKeepRuns'
    BY <1>2, <1>5, <2>1, <2>2, <2>4, <2>5, <2>6, <2>7, <2>8, <2>9, <2>10, BirthKeeps
  <2> QED
    BY <1>8, <1>12, <2>11
<1> QED
  BY <1>6, <1>13, <1>14

LEMMA ManualKeeps ==
  ASSUME IInv, NEW o \in Stacks, NEW r \in Requests, Manual(o, r)
  PROVE  IInv'
<1> USE DEF IInv
<1> DEFINE m == ManualClaim(ledger, o, r)
<1>1. ledger \in Ledger /\ r \in Keys
  BY DEF TypeOK, Keys
<1>2. /\ m \in Ledger /\ m.decided = ledger.decided /\ m.requests[r] # "none"
      /\ \A q \in Requests \ {r} : m.requests[q] = ledger.requests[q]
      /\ \A j \in Keys \ {r} : m.runs[j] = ledger.runs[j]
      /\ IF Refuses(ledger) THEN m.runs = ledger.runs ELSE m.runs[r] = NewRun(ledger, o)
  BY <1>1, ManualIs
<1> HIDE DEF m
<1>3. /\ ledger' = m /\ fresh' = {} /\ stack[o] = "open" /\ ledger.requests[r] = "none"
      /\ UNCHANGED <<time, life, tried, sweeps, plan, doubt, revoked, verdict, void, starts>>
      /\ \/ /\ work' = IF m.runs[r] # NoRun THEN HandedOver(ledger, o, r) ELSE work
            /\ uncertain' = uncertain
         \/ work' = work /\ uncertain' = uncertain \cup {k \in {r} : m.runs[r] # NoRun}
  BY DEF Manual, Write, Elsewhere, m
<1>4. ledger.runs[r] = NoRun
  BY <1>1, <1>3 DEF RunsInv, BirthInv
<1>5. spent' \in [{"jumps", "changes", "faults"} -> Nat]
  BY SpentType DEF Manual, Fault
<1>6. work' \in [Keys -> WorkStates] /\ uncertain' \subseteq Keys
  BY <1>1, <1>3, HandedOverType DEF TypeOK, WorkStates
<1>7. TypeOK'
  BY <1>2, <1>3, <1>5, <1>6 DEF TypeOK, WorkStates, time, life
<1>8. PlanInv'
  BY <1>3, PlansWritten
<1>9. ledger'.decided >= ledger.decided
  <2>1. ledger.decided \in Nat
    BY <1>1, LedgerFields, TimeFacts
  <2> QED
    BY <1>2, <1>3, <2>1
<1>10. \A q \in Requests : ledger'.requests[q] = "none" => ledger.requests[q] = "none" /\ q # r
  BY <1>2, <1>3
<1>11. CASE Refuses(ledger)
  <2>1. m.runs = ledger.runs
    BY <1>2, <1>11
  <2>2. UNCHANGED <<stack, starts, uncertain, closing, doubt, work>>
    BY <1>3, <1>4, <2>1 DEF life
  <2>3. CalmBut(ledger, ledger', {})
    BY <1>2, <1>3, <1>9, <1>10, <2>1 DEF CalmBut, Calm, CalmRuns
  <2>4. ClosingInv' /\ RunsInv' /\ OwnersKeepRuns'
    BY <2>2, <2>3, PlainKeeps
  <2> QED
    BY <1>7, <1>8, <2>4
<1>12. CASE ~ Refuses(ledger)
  <2>1. m.runs[r] = NewRun(ledger, o) /\ m.runs[r] # NoRun
    BY <1>2, <1>12, NewRunIs
  <2>2. Form[ledger.def] = "background" => ActiveRuns(ledger) = {}
    BY <1>12 DEF Refuses
  <2>3. r \notin Occurrences
    BY LedgerAssumption
  <2>4. {} \in SUBSET QueuedRuns(ledger)
    OBVIOUS
  <2>5. \/ work' = HandedOver(ledger, o, r) /\ UNCHANGED <<uncertain, doubt>>
        \/ work' = work /\ uncertain' \subseteq uncertain \cup {r}
    BY <1>3, <2>1
  <2>6. UNCHANGED <<stack, closing, starts, doubt>>
    BY <1>3 DEF life
  <2>7. ledger' \in Ledger /\ ledger'.runs[r] = NewRun(ledger, o)
        /\ \A j \in Keys \ ({} \cup {r}) : ledger'.runs[j] = ledger.runs[j]
    BY <1>2, <1>3, <2>1
  <2>8. ClosingInv' /\ RunsInv' /\ OwnersKeepRuns'
    BY <1>1, <1>3, <1>4, <1>9, <1>10, <2>2, <2>3, <2>4, <2>5, <2>6, <2>7, BirthKeeps
  <2> QED
    BY <1>7, <1>8, <2>8
<1> QED
  BY <1>11, <1>12

-------------------------------------------------------------------------------
(* Stacks and processes. *)

\* A stack opens, closes or is gone: the ledger stays, and work is only taken away.
LEMMA StackKeeps ==
  ASSUME IInv, ledger' = ledger, UNCHANGED <<starts, uncertain>>,
         \A o \in closing' : stack'[o] \notin {"new", "open"},
         \A o \in Stacks : stack[o] # "new" => stack'[o] # "new",
         \A o \in Stacks : stack[o] # "new" /\ stack'[o] = "open" => stack[o] = "open",
         \A o \in Stacks : doubt'[o] \subseteq doubt[o],
         \A k \in Keys : work'[k] \in {work[k], "none"}
  PROVE  ClosingInv' /\ RunsInv' /\ OwnersKeepRuns'
<1> USE DEF IInv
<1>1. ClosingInv'
  BY DEF ClosingInv
<1>2. ledger \in Ledger
  BY DEF TypeOK
<1>3. RunsInv'
  <2>1. Calm(ledger, ledger')
    BY <1>2, CalmStutter DEF CalmBut
  <2> QED
    BY <2>1, CalmKeeps DEF Held
<1>4. OwnersKeepRuns'
  <2> SUFFICES ASSUME NEW k \in Keys, work'[k] \in {"start", "admit", "wait", "sent"}, ~ Closed(k)'
               PROVE  IsActive(ledger, k)
    BY DEF OwnersKeepRuns, IsActive
  <2>1. work'[k] = work[k] /\ work[k] # "none"
    OBVIOUS
  <2>2. ledger.runs[k] # NoRun /\ stack[ledger.runs[k].stack] # "new"
    BY <2>1 DEF RunsInv, BirthInv
  <2>3. ledger.runs[k].stack \in Stacks
    BY <1>2, <2>2, RunIs, SMT DEF Run
  <2>4. ~ Closed(k)
    BY <2>2, <2>3 DEF Closed
  <2> QED
    BY <2>1, <2>4 DEF OwnersKeepRuns
<1> QED
  BY <1>1, <1>3, <1>4

LEMMA OpenKeeps == ASSUME IInv, NEW o \in Stacks, Open(o) PROVE IInv'
<1> USE DEF IInv
<1>1. /\ plan' \in [Stacks -> Plan \cup {NoPlan}] /\ fresh' \subseteq Stacks
      /\ sweeps' \in [Stacks -> SUBSET Nat] /\ PlanInv'
  <2>1. BeginSweep(o, wall, {}) /\ UNCHANGED ledger /\ {} \in SUBSET Nat
    BY DEF Open
  <2> QED
    BY <2>1, BeginSweepIs
<1>2. stack' = [stack EXCEPT ![o] = "open"] /\ armed' = [armed EXCEPT ![o] = wall] /\ stack[o] = "new"
  BY DEF Open
<1>3. TypeOK'
  <2>1. stack' \in [Stacks -> {"new", "open", "closed", "gone"}] /\ armed' \in [Stacks -> Time]
    BY <1>2 DEF TypeOK
  <2>2. UNCHANGED <<wall, skew, ledger, closing, tried, doubt, work, revoked, spent,
                    verdict, void, starts, uncertain>>
    BY DEF Open, time, history
  <2> QED
    BY <1>1, <2>1, <2>2 DEF TypeOK
<1>4. \A h \in closing' : stack'[h] \notin {"new", "open"}
  BY <1>2 DEF ClosingInv, Open, TypeOK
<1>5. /\ \A h \in Stacks : stack[h] # "new" => stack'[h] # "new"
      /\ \A h \in Stacks : stack[h] # "new" /\ stack'[h] = "open" => stack[h] = "open"
  BY <1>2 DEF TypeOK
<1> QED
  BY <1>1, <1>3, <1>4, <1>5, StackKeeps DEF Open, history

LEMMA CloseKeeps == ASSUME IInv, NEW o \in Stacks, Close(o) PROVE IInv'
<1> USE DEF IInv
<1>1. TypeOK'
  <2>1. 0 \in Time
    BY TimeFacts
  <2> QED
    BY <2>1 DEF TypeOK, Close, time, store, history
<1>2. PlanInv'
  BY DEF PlanInv, Close, store
<1>3. stack' = [stack EXCEPT ![o] = "closed"] /\ closing' = closing \cup {o}
  BY DEF Close
<1>4. \A h \in closing' : stack'[h] \notin {"new", "open"}
  BY <1>3 DEF ClosingInv, TypeOK
<1>5. /\ \A h \in Stacks : stack[h] # "new" => stack'[h] # "new"
      /\ \A h \in Stacks : stack[h] # "new" /\ stack'[h] = "open" => stack[h] = "open"
  BY <1>3 DEF TypeOK
<1>6. /\ \A h \in Stacks : doubt'[h] \subseteq doubt[h]
      /\ \A k \in Keys : work'[k] \in {work[k], "none"}
  BY DEF Close, TypeOK
<1> QED
  BY <1>1, <1>2, <1>4, <1>5, <1>6, StackKeeps DEF Close, store, history

LEMMA CrashKeeps == ASSUME IInv, NEW p, Crash(p) PROVE IInv'
<1> USE DEF IInv
<1>1. TypeOK'
  <2>1. 0 \in Time
    BY TimeFacts
  <2> QED
    BY <2>1 DEF TypeOK, Crash, time, history
<1>2. PlanInv'
  BY DEF PlanInv, Crash, NoPlan
<1>3. \A h \in closing' : stack'[h] \notin {"new", "open"}
  BY DEF ClosingInv, Crash, TypeOK
<1>4. /\ \A h \in Stacks : stack[h] # "new" => stack'[h] # "new"
      /\ \A h \in Stacks : stack[h] # "new" /\ stack'[h] = "open" => stack[h] = "open"
  BY DEF Crash
<1>5. /\ \A h \in Stacks : doubt'[h] \subseteq doubt[h]
      /\ \A k \in Keys : work'[k] \in {work[k], "none"}
  BY DEF Crash
<1> QED
  BY <1>1, <1>2, <1>3, <1>4, <1>5, StackKeeps DEF Crash, history

-------------------------------------------------------------------------------
(* The invariant holds of every behaviour. *)

LEMMA InitKeeps == Init => IInv
<1> SUFFICES ASSUME Init PROVE IInv
  OBVIOUS
<1>1. 0 \in Time
  BY TimeFacts
<1>2. PICK d \in Definitions, a \in Definitions \cup {"none"} :
        ledger = [def |-> d, enabled |-> TRUE, approved |-> a, decided |-> 0, fired |-> 0,
                  missed |-> 0, skipped |-> 0, runs |-> [k \in Keys |-> NoRun],
                  requests |-> [r \in Requests |-> "none"]]
  BY DEF Init, NewLedger
<1>3. ledger \in Ledger
  BY <1>1, <1>2 DEF Ledger
<1>4. TypeOK
  <2>1. wall \in Time /\ skew \in Int /\ void \in Time
    BY <1>1 DEF Init
  <2>2. revoked \in BOOLEAN
    <3>1. revoked = FALSE
      BY DEF Init
    <3> QED
      BY <3>1
  <2>3. /\ stack \in [Stacks -> {"new", "open", "closed", "gone"}] /\ closing \subseteq Stacks
        /\ armed \in [Stacks -> Time] /\ tried \in [Stacks -> Time]
    BY <1>1 DEF Init
  <2>4. sweeps \in [Stacks -> SUBSET Nat] /\ doubt \in [Stacks -> SUBSET Keys]
    BY DEF Init
  <2>5. plan \in [Stacks -> Plan \cup {NoPlan}] /\ fresh \subseteq Stacks
    BY DEF Init
  <2>6. /\ work \in [Keys -> {"none", "start", "admit", "wait", "queue", "sent", "drop", "doubt"}]
        /\ spent \in [{"jumps", "changes", "faults"} -> Nat]
        /\ verdict \in [Occurrences -> {"open", "fired", "missed", "skipped"}]
        /\ starts \in [Keys -> Nat] /\ uncertain \subseteq Keys
    BY DEF Init
  <2> QED
    BY <1>3, <2>1, <2>2, <2>3, <2>4, <2>5, <2>6 DEF TypeOK
<1>5. \A k \in Keys : ledger.runs[k] = NoRun
  BY <1>2
<1>6. "none" \notin Active
  BY DEF Active
<1>7. PlanInv /\ ClosingInv
  BY DEF Init, PlanInv, ClosingInv
<1>8. BirthInv /\ DoubtInv /\ HeldInv /\ UncertainInv
  BY <1>5 DEF Init, BirthInv, DoubtInv, HeldInv, UncertainInv, Held
<1>9. OneBackgroundRun /\ OwnersKeepRuns
  BY <1>5, <1>6 DEF Init, OneBackgroundRun, OwnersKeepRuns, IsActive, NoRun
<1> QED
  BY <1>4, <1>7, <1>8, <1>9 DEF IInv, RunsInv

LEMMA ClockStepKeeps == ASSUME IInv, NEW o \in Stacks, ClockStep(o) PROVE IInv'
<1>1. ASSUME NEW k \in Keys, SettleDoubt(o, k) PROVE IInv'
  BY <1>1, SettleDoubtKeeps
<1> QED
  BY <1>1, FireKeeps, SweepDueKeeps, ReplanClaimKeeps, ReplanSweepKeeps, ClaimNothingKeeps,
     ClaimLateKeeps, ClaimOverlapKeeps, ClaimFireKeeps, ApplySweepKeeps DEF ClockStep

LEMMA ExecuteKeeps ==
  ASSUME IInv, NEW k \in Keys, Execute(k) \/ ExecDispose(k) \/ Messages(k)
  PROVE  IInv'
<1>1. CASE ExecRefused(k) \/ ExecRejected(k) \/ ExecDone(k)
  BY <1>1, ReportKeeps DEF ExecRefused, ExecRejected, ExecDone
<1> QED
  BY <1>1, ExecStartKeeps, ExecAdmittedKeeps, ExecDisposeKeeps, SendMessageKeeps,
     DropMessageKeeps, EndMessageKeeps DEF Execute, Messages

LEMMA StepKeeps == ASSUME IInv, [Next]_vars PROVE IInv'
<1>1. ASSUME NEW o \in Stacks, ClockStep(o) \/ SweepNow(o) \/ LockBusy(o) \/ Recover(o)
      PROVE  IInv'
  BY <1>1, ClockStepKeeps, SweepNowKeeps, LockBusyKeeps, RecoverKeeps
<1>2. ASSUME NEW o \in Stacks, NEW r \in Requests, Manual(o, r) PROVE IInv'
  BY <1>2, ManualKeeps
<1>3. ASSUME NEW o \in Stacks, Pause(o) \/ Delete(o) \/ Open(o) \/ Close(o) \/ CloseEpoch(o)
      PROVE  IInv'
  BY <1>3, PauseKeeps, DeleteKeeps, OpenKeeps, CloseKeeps, CloseEpochKeeps
<1>4. ASSUME NEW k \in Keys, Execute(k) \/ ExecDispose(k) \/ Messages(k) PROVE IInv'
  BY <1>4, ExecuteKeeps
<1>5. ASSUME NEW p \in {ProcessOf[o] : o \in Stacks}, Crash(p) PROVE IInv'
  BY <1>5, CrashKeeps
<1>6. CASE Update \/ Approve \/ Resume \/ DropQueued \/ Tick \/ Jump
  BY <1>6, EditsKeep, DropQueuedKeeps, TickKeeps, JumpKeeps
<1>7. CASE UNCHANGED vars
  <2>1. TypeOK'
    BY <1>7 DEF IInv, TypeOK, vars
  <2>2. PlanInv'
    BY <1>7 DEF IInv, PlanInv, vars
  <2> QED
    BY <1>7, <2>1, <2>2, QuietKeeps DEF IInv, vars
<1> QED
  BY <1>1, <1>2, <1>3, <1>4, <1>5, <1>6, <1>7 DEF Next

\* The inductive invariant holds in every state.
LEMMA IInvAlways == Spec => []IInv
<1>1. IInv /\ [Next]_vars => IInv'
  BY StepKeeps
<1> QED
  BY <1>1, InitKeeps, PTL DEF Spec

\* Every value of the schedule's state has its type: the watermark stays within the wall
\* clock's range, every run has an owner, and a plan is never retried past its attempts.
THEOREM ScheduleTypeCorrect == Spec => []TypeOK
<1>1. IInv => TypeOK
  BY DEF IInv
<1> QED
  BY <1>1, IInvAlways, PTL

\* However many processes claim, request, crash and recover, a background run never
\* overlaps another background run of its task (autoClaim and manualClaim).
THEOREM OneRunInBackground == Spec => []OneBackgroundRun
<1>1. IInv => OneBackgroundRun
  BY DEF IInv, RunsInv
<1> QED
  BY <1>1, IInvAlways, PTL

\* No recovery, closing or disposal of another stack ends a run that an open stack still
\* works on (recoverRuns, closeEpoch and the executors' own writes).
THEOREM OwnersNotPreempted == Spec => []OwnersKeepRuns
<1>1. IInv => OwnersKeepRuns
  BY DEF IInv
<1> QED
  BY <1>1, IInvAlways, PTL

\* A run whose claim is not proven durable is never handed to an executant (autoClaim,
\* manualClaim and the commit they wait for).
THEOREM UncertainNeverStarted == Spec => []UncertainIsNotStarted
<1>1. IInv => UncertainIsNotStarted
  BY DEF IInv, RunsInv, UncertainInv, UncertainIsNotStarted
<1> QED
  BY <1>1, IInvAlways, PTL
===============================================================================
