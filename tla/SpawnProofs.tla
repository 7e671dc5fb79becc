------------------------------- MODULE SpawnProofs -------------------------------
(***************************************************************************)
(* For any number of runs and stacks: a resume has its file to itself, a   *)
(* lock is held exactly while its run is at work, and a stop reaches the   *)
(* children of a run.                                                      *)
(*                                                                         *)
(* The locks keep the runs of one stack apart that have not opened their   *)
(* session yet, the live marks those of all stacks that have.  What is     *)
(* needed besides is that the run that created a file is over when another *)
(* run has the file: the creator holds no lock.                            *)
(***************************************************************************)
EXTENDS Spawn, TLAPS

USE SpawnAssumption

\* What a stage says of the run.
StageOK ==
  \A r \in Runs :
    /\ stage[r] = "free" => session[r] = "none" /\ file[r] = None /\ target[r] = None
    /\ Running(r) => home[r] \in Stacks /\ file[r] \in Runs
    /\ Running(r) /\ target[r] = None => file[r] = r
    /\ stage[r] = "admitted" => session[r] = "none"
    /\ stage[r] = "opening" => session[r] = "opening"
    /\ stage[r] = "open" => session[r] = "open"
    /\ session[r] \in {"closed", "doubt", "unkillable", "givenUp"} => stage[r] = "over"
    /\ Journaled(r) => file[r] \in Runs

\* A session that may write has its mark.
BoundIsMarked == \A r \in Runs : Bound(r) => r \in marked

CreatorIsOver == \A t, r \in Runs : file[t] = r /\ t # r => stage[r] = "over"

\* The bound of the model is kept.
Bounded == closing => stack < MaxStacks

FileInv ==
  TypeOK /\ Bounded /\ StageOK /\ BoundIsMarked /\ CreatorIsOver /\ LocksMatchRuns /\ OneUser

\* What the stops and the reload leave alone.
runVars == <<home, stage, session, file, target, owners, marked>>

-------------------------------------------------------------------------------
(* Types *)

LEMMA FinishType ==
  ASSUME TypeOK, NEW r \in Runs, Finish(r), home[r] \in Stacks
  PROVE  /\ stage' \in [Runs -> {"free", "admitted", "opening", "open", "over"}]
         /\ target' \in [Runs -> Runs \cup {None}]
         /\ parent' \in [Runs -> Runs \cup {None}]
         /\ depth' = [depth EXCEPT ![r] = 0] /\ depth' \in [Runs -> Nat]
         /\ owners' \in [Stacks -> [Key -> Runs \cup {None}]]
         /\ came' \in [Runs -> 0 .. 2]
BY DEF Finish, TypeOK

LEMMA AbortAllType ==
  ASSUME TypeOK, NEW S \in SUBSET Runs
  PROVE  AbortAll(S) \subseteq Runs
BY DEF AbortAll, Below, TypeOK

LEMMA DepthType ==
  ASSUME TypeOK, NEW s \in Stacks, NEW p \in Runs \cup {None}, NestingAllows(s, p)
  PROVE  DepthUnder(p) \in Nat /\ DepthUnder(p) <= MaxDepth[s]
BY DEF NestingAllows, DepthUnder, TypeOK, Running

LEMMA TypeStep == TypeOK /\ Bounded /\ StageOK /\ [Next]_vars => TypeOK'
<1> SUFFICES ASSUME TypeOK, Bounded, StageOK, [Next]_vars PROVE TypeOK'
  OBVIOUS
<1>1. ASSUME NEW s \in Stacks, NEW r \in Runs, NEW p \in Runs \cup {None},
             NEW t \in Runs \cup {None}, Spawn(s, r, p, t)
      PROVE  TypeOK'
  <2>1. (IF t = None THEN r ELSE file[t]) \in Runs
    BY <1>1 DEF Spawn, ResumeAllowed, Resolves, StageOK
  <2>2. DepthUnder(p) \in Nat /\ DepthUnder(p) <= MaxDepth[s]
    BY <1>1, DepthType DEF Spawn
  <2>3. StopOf(p) \in 0 .. 2
    BY DEF StopOf
  <2>4. owners' \in [Stacks -> [Key -> Runs \cup {None}]]
    BY <1>1 DEF Spawn, TypeOK
  <2>5. /\ home' \in [Runs -> Stacks \cup {None}]
        /\ stage' \in [Runs -> {"free", "admitted", "opening", "open", "over"}]
        /\ file' \in [Runs -> Runs \cup {None}]
        /\ target' \in [Runs -> Runs \cup {None}]
        /\ parent' \in [Runs -> Runs \cup {None}]
    BY <1>1, <2>1 DEF Spawn, TypeOK
  <2>6. depth' \in [Runs -> Nat] /\ came' \in [Runs -> 0 .. 2]
    BY <1>1, <2>2, <2>3 DEF Spawn, TypeOK
  <2>7. \A q \in Runs : depth'[q] = 0 \/ depth'[q] <= MaxDepth[home'[q]]
    BY <1>1, <2>2 DEF Spawn, TypeOK
  <2> QED
    BY <1>1, <2>4, <2>5, <2>6, <2>7 DEF Spawn, TypeOK
<1>2. ASSUME NEW r \in Runs, EndsEarly(r) PROVE TypeOK'
  <2>1. home[r] \in Stacks /\ Finish(r)
    BY <1>2 DEF EndsEarly, StageOK, Running
  <2> QED
    BY <1>2, <2>1, FinishType DEF EndsEarly, TypeOK
<1>3. ASSUME NEW r \in Runs, Opens(r) PROVE TypeOK'
  BY <1>3 DEF Opens, TypeOK, Session
<1>4. ASSUME NEW r \in Runs, OpenFails(r) PROVE TypeOK'
  <2>1. home[r] \in Stacks /\ Finish(r)
    BY <1>4 DEF OpenFails, StageOK, Running
  <2>2. session' \in [Runs -> Session]
    BY <1>4 DEF OpenFails, TypeOK, Session
  <2> QED
    BY <1>4, <2>1, <2>2, FinishType DEF OpenFails, TypeOK
<1>5. ASSUME NEW r \in Runs, Opened(r) PROVE TypeOK'
  BY <1>5 DEF Opened, TypeOK, Session
<1>6. ASSUME NEW r \in Runs, Ends(r) PROVE TypeOK'
  <2>1. home[r] \in Stacks /\ Finish(r)
    BY <1>6 DEF Ends, StageOK, Running
  <2> QED
    BY <1>6, <2>1, FinishType DEF Ends, TypeOK
<1>7. ASSUME NEW r \in Runs, Reap(r) PROVE TypeOK'
  <2>1. session' \in [Runs -> Session] /\ marked' \subseteq Runs
    BY <1>7 DEF Reap, TypeOK, Session
  <2> QED
    BY <1>7, <2>1 DEF Reap, TypeOK
<1>8. ASSUME NEW r \in Runs, Arrives(r) PROVE TypeOK'
  BY <1>8 DEF Arrives, TypeOK, Session
<1>9. ASSUME NEW r \in Runs, Abort(r) PROVE TypeOK'
  BY <1>9, AbortAllType DEF Abort, TypeOK
<1>10. ASSUME NEW r \in Runs, Cancel(r) PROVE TypeOK'
  BY <1>10, AbortAllType DEF Cancel, TypeOK
<1>11. CASE Shutdown
  <2>1. RunsOf(stack) \subseteq Runs
    BY DEF RunsOf
  <2> QED
    BY <1>11, <2>1, AbortAllType DEF Shutdown, TypeOK
<1>12. CASE Reload
  <2>1. stack' \in Stacks /\ seeded' \in [Stacks -> SUBSET Runs]
    BY <1>12 DEF Reload, TypeOK, Stacks, Bounded
  <2> QED
    BY <1>12, <2>1 DEF Reload, TypeOK
<1>13. CASE UNCHANGED vars
  BY <1>13 DEF vars, TypeOK
<1> QED
  BY <1>1, <1>2, <1>3, <1>4, <1>5, <1>6, <1>7, <1>8, <1>9, <1>10, <1>11, <1>12, <1>13
  DEF Next

-------------------------------------------------------------------------------
(* The files *)

LEMMA FileInit == Init => FileInv
<1> SUFFICES ASSUME Init PROVE FileInv
  OBVIOUS
<1>1. TypeOK
  <2>1. stack \in Stacks /\ seeded \in [Stacks -> SUBSET Runs]
    BY DEF Init, Stacks
  <2>2. stage \in [Runs -> {"free", "admitted", "opening", "open", "over"}]
    BY DEF Init
  <2>3. session \in [Runs -> Session]
    BY DEF Init, Session
  <2>4. home \in [Runs -> Stacks \cup {None}] /\ file \in [Runs -> Runs \cup {None}]
    BY DEF Init
  <2>5. /\ depth \in [Runs -> Nat] /\ came \in [Runs -> 0 .. 2]
        /\ \A r \in Runs : depth[r] = 0
    BY DEF Init
  <2>6. owners \in [Stacks -> [Key -> Runs \cup {None}]]
    BY DEF Init
  <2> QED
    BY <2>1, <2>2, <2>3, <2>4, <2>5, <2>6 DEF Init, TypeOK
<1>2. Bounded /\ StageOK /\ BoundIsMarked /\ CreatorIsOver
  BY DEF Init, Bounded, StageOK, BoundIsMarked, CreatorIsOver, Running, Journaled, Bound
<1>3. LocksMatchRuns
  BY DEF Init, LocksMatchRuns, Running
<1>4. OneUser
  BY DEF Init, OneUser, InUse, Running, Bound
<1> QED
  BY <1>1, <1>2, <1>3, <1>4 DEF FileInv

\* The run a resume names has ended, and its file, so far as this can be asked of one stack,
\* is nobody's.
LEMMA Resumable ==
  ASSUME FileInv, NEW s \in Stacks, NEW t \in Runs, ResumeAllowed(s, t)
  PROVE  /\ file[t] \in Runs
         /\ stage[file[t]] = "over"
         /\ \A o \in Runs : file[o] = file[t] => ~Bound(o) /\ ~(home[o] = s /\ Running(o))
<1>1. file[t] \in Runs
  BY DEF ResumeAllowed, Resolves, FileInv, StageOK
<1>2. ASSUME NEW o \in Runs, file[o] = file[t] PROVE ~Bound(o)
  BY <1>2 DEF ResumeAllowed, IsLive, FileInv, BoundIsMarked
<1>3. stage[t] = "over"
  <2>1. session[t] \in {"closed", "doubt"}
    BY <1>2 DEF ResumeAllowed, Resolves, Journaled, Bound
  <2> QED
    BY <2>1 DEF FileInv, StageOK
<1>4. stage[file[t]] = "over"
  BY <1>1, <1>3 DEF FileInv, CreatorIsOver
<1>5. ASSUME NEW o \in Runs, file[o] = file[t], home[o] = s, Running(o) PROVE FALSE
  <2>1. CASE target[o] = None
    BY <1>4, <1>5, <2>1 DEF FileInv, StageOK, Running
  <2>2. CASE target[o] # None
    <3>1. <<"file", file[o]>> \in LockKeys(target[o], file[o]) /\ <<"file", file[o]>> \in Key
      BY <1>1, <1>5, <2>2 DEF LockKeys, Key
    <3>2. owners[s][<<"file", file[o]>>] = o
      BY <1>5, <3>1 DEF FileInv, LocksMatchRuns
    <3>3. owners[s][<<"file", file[t]>>] = None
      BY DEF ResumeAllowed, LockKeys
    <3> QED
      BY <1>5, <3>2, <3>3
  <2> QED
    BY <2>1, <2>2
<1> QED
  BY <1>1, <1>2, <1>4, <1>5

LEMMA QuietStep ==
  ASSUME FileInv, UNCHANGED runVars
  PROVE  StageOK' /\ BoundIsMarked' /\ CreatorIsOver' /\ LocksMatchRuns' /\ OneUser'
<1>1. StageOK' /\ BoundIsMarked' /\ CreatorIsOver'
  BY DEF runVars, FileInv, StageOK, BoundIsMarked, CreatorIsOver, Running, Journaled, Bound
<1>2. LocksMatchRuns'
  BY DEF runVars, FileInv, LocksMatchRuns, Running
<1>3. OneUser'
  BY DEF runVars, FileInv, OneUser, InUse, Running, Bound
<1> QED
  BY <1>1, <1>2, <1>3

\* What finish() and the finally of start() do to these: the locks of the run are given
\* back, the run leaves the tree, its file and its session stay.
LEMMA FinishStep ==
  ASSUME FileInv, NEW r \in Runs, Running(r), Finish(r), UNCHANGED <<home, file, marked>>,
         session' = session \/ \E x \in {"none", "givenUp"} :
                                 /\ session[r] = "opening"
                                 /\ session' = [session EXCEPT ![r] = x]
  PROVE  StageOK' /\ BoundIsMarked' /\ CreatorIsOver' /\ LocksMatchRuns' /\ OneUser'
<1>1. /\ \A q \in Runs : q # r => stage'[q] = stage[q] /\ target'[q] = target[q]
      /\ stage'[r] = "over"
  BY DEF Finish, FileInv, TypeOK
<1>2. \A q \in Runs : Running(q)' <=> q # r /\ Running(q)
  BY <1>1 DEF Running
<1>3. \A q \in Runs : /\ session'[q] = session[q] \/ (q = r /\ session'[r] \in {"none", "givenUp"})
                      /\ Bound(q)' <=> Bound(q)
  <2>1. CASE session' = session
    BY <2>1 DEF Bound
  <2>2. ASSUME NEW x \in {"none", "givenUp"}, session[r] = "opening",
               session' = [session EXCEPT ![r] = x],
               NEW q \in Runs
        PROVE  /\ session'[q] = session[q] \/ (q = r /\ session'[r] \in {"none", "givenUp"})
               /\ Bound(q)' <=> Bound(q)
    BY <2>2 DEF FileInv, TypeOK, Bound
  <2> QED
    BY <2>1, <2>2
<1>4. StageOK'
  BY <1>1, <1>2, <1>3 DEF FileInv, StageOK, Journaled, Running
<1>5. BoundIsMarked' /\ CreatorIsOver'
  BY <1>1, <1>3 DEF FileInv, BoundIsMarked, CreatorIsOver
<1>6. LocksMatchRuns'
  <2>1. home[r] \in Stacks
    BY DEF FileInv, StageOK
  <2> SUFFICES ASSUME NEW s \in Stacks, NEW k \in Key, NEW q \in Runs
               PROVE  owners'[s][k] = q
                        <=> home[q] = s /\ Running(q)' /\ k \in LockKeys(target'[q], file[q])
    BY DEF LocksMatchRuns, LockKeys
  <2>2. owners[s][k] = q
          <=> home[q] = s /\ Running(q) /\ k \in LockKeys(target[q], file[q])
    BY DEF FileInv, LocksMatchRuns
  <2>3. owners'[s][k] = IF s = home[r] /\ k \in LockKeys(target[r], file[r]) /\ owners[s][k] = r
                        THEN None ELSE owners[s][k]
    BY <2>1 DEF Finish, FileInv, TypeOK
  <2>4. CASE q = r
    BY <1>2, <2>2, <2>3, <2>4
  <2>5. CASE q # r
    BY <1>1, <1>2, <2>2, <2>3, <2>5
  <2> QED
    BY <2>4, <2>5
<1>7. OneUser'
  BY <1>2, <1>3 DEF FileInv, OneUser, InUse
<1> QED
  BY <1>4, <1>5, <1>6, <1>7

LEMMA SpawnStep ==
  ASSUME FileInv, NEW s \in Stacks, NEW r \in Runs, NEW p \in Runs \cup {None},
         NEW t \in Runs \cup {None}, Spawn(s, r, p, t)
  PROVE  StageOK' /\ BoundIsMarked' /\ CreatorIsOver' /\ LocksMatchRuns' /\ OneUser'
<1> DEFINE f == IF t = None THEN r ELSE file[t]
<1>1. /\ t # None => ResumeAllowed(s, t)
      /\ stage[r] = "free"
      /\ session' = session /\ marked' = marked
      /\ home'[r] = s /\ stage'[r] = "admitted" /\ file'[r] = f /\ target'[r] = t
  BY DEF Spawn, FileInv, TypeOK
<1>2. \A q \in Runs : q # r => /\ home'[q] = home[q] /\ stage'[q] = stage[q]
                               /\ file'[q] = file[q] /\ target'[q] = target[q]
  BY DEF Spawn, FileInv, TypeOK
<1>3. f \in Runs /\ (t # None => stage[f] = "over")
  BY <1>1, Resumable
<1>4. session[r] = "none" /\ ~Running(r)
  BY <1>1 DEF FileInv, StageOK, Running
<1>5. \A q \in Runs : (Running(q)' <=> q = r \/ Running(q)) /\ (Bound(q)' <=> Bound(q))
  BY <1>1, <1>2 DEF Running, Bound
<1>6. \A o \in Runs : o # r /\ file[o] = f => ~Bound(o) /\ ~(home[o] = s /\ Running(o))
  <2>1. CASE t = None
    <3>1. \A o \in Runs : o # r => file[o] # r
      BY <1>1 DEF FileInv, CreatorIsOver
    <3> QED
      BY <2>1, <3>1
  <2>2. CASE t # None
    BY <1>1, <2>2, Resumable
  <2> QED
    BY <2>1, <2>2
<1>7. StageOK'
  BY <1>1, <1>2, <1>3, <1>4, <1>5 DEF FileInv, StageOK, Journaled, Running
<1>8. BoundIsMarked'
  BY <1>1, <1>5 DEF FileInv, BoundIsMarked
<1>9. CreatorIsOver'
  <2> SUFFICES ASSUME NEW a \in Runs, NEW c \in Runs, file'[a] = c, a # c
               PROVE  stage'[c] = "over"
    BY DEF CreatorIsOver
  <2>1. CASE a = r
    BY <1>1, <1>2, <1>3, <2>1
  <2>2. CASE a # r
    <3>1. stage[c] = "over"
      BY <1>2, <2>2 DEF FileInv, CreatorIsOver
    <3> QED
      BY <1>1, <1>2, <3>1
  <2> QED
    BY <2>1, <2>2
<1>10. LocksMatchRuns'
  <2> SUFFICES ASSUME NEW z \in Stacks, NEW k \in Key, NEW q \in Runs
               PROVE  owners'[z][k] = q
                        <=> home'[q] = z /\ Running(q)' /\ k \in LockKeys(target'[q], file'[q])
    BY DEF LocksMatchRuns, LockKeys
  <2>1. owners[z][k] = q
          <=> home[q] = z /\ Running(q) /\ k \in LockKeys(target[q], file[q])
    BY DEF FileInv, LocksMatchRuns
  <2>2. owners'[z][k] = IF z = s /\ k \in LockKeys(t, f) THEN r ELSE owners[z][k]
    BY DEF Spawn, FileInv, TypeOK
  <2>3. z = s /\ k \in LockKeys(t, f) => owners[z][k] = None
    BY <1>1 DEF ResumeAllowed, LockKeys
  <2>4. CASE q = r
    BY <1>1, <1>4, <1>5, <2>1, <2>2, <2>4
  <2>5. CASE q # r
    BY <1>2, <1>5, <2>1, <2>2, <2>3, <2>5
  <2> QED
    BY <2>4, <2>5
<1>11. OneUser'
  <2> SUFFICES ASSUME NEW a \in Runs, NEW b \in Runs, a # b, home'[a] = home'[b],
                      InUse(a)', InUse(b)'
               PROVE  file'[a] # file'[b]
    BY DEF OneUser
  <2>1. \A q \in Runs : q # r /\ InUse(q)' => InUse(q)
    BY <1>5 DEF InUse
  <2>2. CASE a # r /\ b # r
    BY <1>2, <2>1, <2>2 DEF FileInv, OneUser
  <2>3. CASE a = r
    BY <1>1, <1>2, <1>6, <2>1, <2>3 DEF InUse
  <2>4. CASE b = r
    BY <1>1, <1>2, <1>6, <2>1, <2>4 DEF InUse
  <2> QED
    BY <2>2, <2>3, <2>4
<1> QED
  BY <1>7, <1>8, <1>9, <1>10, <1>11

\* Steps of one run that hold its file all along.
LEMMA CourseStep ==
  ASSUME FileInv, NEW r \in Runs, Opens(r) \/ Opened(r) \/ Reap(r) \/ Arrives(r)
  PROVE  StageOK' /\ BoundIsMarked' /\ CreatorIsOver' /\ LocksMatchRuns' /\ OneUser'
<1>1. UNCHANGED <<home, file, target, owners>>
  BY DEF Opens, Opened, Reap, Arrives
<1>2. \A q \in Runs : /\ q # r => stage'[q] = stage[q] /\ session'[q] = session[q]
                      /\ Running(q)' <=> Running(q)
                      /\ InUse(q)' => InUse(q)
                      /\ q # r => (q \in marked' <=> q \in marked)
                      /\ stage[q] = "over" => stage'[q] = "over"
  <2>1. CASE Opens(r)
    BY <2>1 DEF Opens, FileInv, TypeOK, Running, Bound, InUse
  <2>2. CASE Opened(r)
    BY <2>2 DEF Opened, FileInv, TypeOK, Running, Bound, InUse
  <2>3. CASE Reap(r)
    BY <2>3 DEF Reap, FileInv, TypeOK, Running, Bound, InUse
  <2>4. CASE Arrives(r)
    BY <2>4 DEF Arrives, FileInv, TypeOK, Running, Bound, InUse
  <2> QED
    BY <2>1, <2>2, <2>3, <2>4
<1>3. StageOK'
  <2>1. CASE Opens(r)
    BY <1>1, <1>2, <2>1 DEF Opens, FileInv, TypeOK, StageOK, Journaled, Running
  <2>2. CASE Opened(r)
    BY <1>1, <1>2, <2>2 DEF Opened, FileInv, TypeOK, StageOK, Journaled, Running
  <2>3. CASE Reap(r)
    BY <1>1, <1>2, <2>3 DEF Reap, FileInv, TypeOK, StageOK, Journaled, Running
  <2>4. CASE Arrives(r)
    BY <1>1, <1>2, <2>4 DEF Arrives, FileInv, TypeOK, StageOK, Journaled, Running
  <2> QED
    BY <2>1, <2>2, <2>3, <2>4
<1>4. BoundIsMarked'
  <2>1. Bound(r)' => r \in marked'
    BY DEF Opens, Opened, Reap, Arrives, FileInv, TypeOK, StageOK, BoundIsMarked, Bound
  <2>2. \A q \in Runs : q # r /\ Bound(q)' => q \in marked'
    BY <1>2 DEF FileInv, BoundIsMarked, Bound
  <2> QED
    BY <2>1, <2>2 DEF BoundIsMarked
<1>5. CreatorIsOver'
  BY <1>1, <1>2 DEF FileInv, CreatorIsOver
<1>6. LocksMatchRuns'
  BY <1>1, <1>2 DEF FileInv, LocksMatchRuns
<1>7. OneUser'
  BY <1>1, <1>2 DEF FileInv, OneUser
<1> QED
  BY <1>3, <1>4, <1>5, <1>6, <1>7

LEMMA FileStep == FileInv /\ [Next]_vars => FileInv'
<1> SUFFICES ASSUME FileInv, [Next]_vars PROVE FileInv'
  OBVIOUS
<1>1. TypeOK'
  BY TypeStep DEF FileInv
<1>2. Bounded'
  <2> DEFINE Same == UNCHANGED <<stack, closing>>
  <2>1. \A s \in Stacks, r \in Runs, p, t \in Runs \cup {None} : Spawn(s, r, p, t) => Same
    BY DEF Spawn
  <2>2. \A r \in Runs : EndsEarly(r) \/ Opens(r) \/ OpenFails(r) \/ Opened(r) \/ Ends(r) => Same
    BY DEF EndsEarly, Opens, OpenFails, Opened, Ends
  <2>3. \A r \in Runs : Reap(r) \/ Arrives(r) \/ Abort(r) \/ Cancel(r) => Same
    BY DEF Reap, Arrives, Abort, Cancel
  <2>4. UNCHANGED vars => Same
    BY DEF vars
  <2>5. Same \/ Shutdown \/ Reload
    BY <2>1, <2>2, <2>3, <2>4 DEF Next
  <2> QED
    BY <2>5 DEF FileInv, Bounded, Shutdown, Reload
<1> DEFINE Rest == StageOK' /\ BoundIsMarked' /\ CreatorIsOver' /\ LocksMatchRuns' /\ OneUser'
<1>3. ASSUME NEW s \in Stacks, NEW r \in Runs, NEW p \in Runs \cup {None},
             NEW t \in Runs \cup {None}, Spawn(s, r, p, t)
      PROVE  Rest
  BY <1>3, SpawnStep
<1>4. ASSUME NEW r \in Runs, EndsEarly(r) \/ OpenFails(r) \/ Ends(r) PROVE Rest
  <2>1. Running(r) /\ Finish(r) /\ UNCHANGED <<home, file, marked>>
    BY <1>4 DEF EndsEarly, OpenFails, Ends, Running
  <2>2. session' = session \/ \E x \in {"none", "givenUp"} :
                               /\ session[r] = "opening"
                               /\ session' = [session EXCEPT ![r] = x]
    BY <1>4 DEF EndsEarly, OpenFails, Ends, FileInv, StageOK
  <2> QED
    BY <2>1, <2>2, FinishStep
<1>5. ASSUME NEW r \in Runs, Opens(r) \/ Opened(r) \/ Reap(r) \/ Arrives(r) PROVE Rest
  BY <1>5, CourseStep
<1>6. ASSUME NEW r \in Runs, Abort(r) \/ Cancel(r) PROVE Rest
  BY <1>6, QuietStep DEF Abort, Cancel, runVars
<1>7. ASSUME Shutdown \/ Reload \/ UNCHANGED vars PROVE Rest
  <2>1. UNCHANGED runVars
    BY <1>7 DEF Shutdown, Reload, runVars, vars
  <2> QED
    BY <2>1, QuietStep
<1>8. Rest
  BY <1>3, <1>4, <1>5, <1>6, <1>7 DEF Next
<1> QED
  BY <1>1, <1>2, <1>8 DEF FileInv

LEMMA AloneStep == FileInv /\ [Next]_vars => AdmittedAlone
<1> SUFFICES ASSUME FileInv, [Next]_vars,
                    NEW q \in Runs, stage[q] = "free", stage'[q] = "admitted", target'[q] # None,
                    NEW o \in Runs, file[o] = file'[q]
             PROVE  ~Bound(o) /\ ~(home[o] = home'[q] /\ Running(o))
  BY DEF AdmittedAlone
<1>1. ASSUME NEW s \in Stacks, NEW r \in Runs, NEW p \in Runs \cup {None},
             NEW t \in Runs \cup {None}, Spawn(s, r, p, t)
      PROVE  ~Bound(o) /\ ~(home[o] = home'[q] /\ Running(o))
  <2>1. q = r
    BY <1>1 DEF Spawn, FileInv, TypeOK
  <2>2. t # None /\ file'[q] = file[t] /\ home'[q] = s /\ ResumeAllowed(s, t)
    BY <1>1, <2>1 DEF Spawn, FileInv, TypeOK
  <2> QED
    BY <2>2, Resumable
<1>2. ASSUME NEW r \in Runs,
             EndsEarly(r) \/ Opens(r) \/ OpenFails(r) \/ Opened(r) \/ Ends(r)
      PROVE  FALSE
  BY <1>2 DEF EndsEarly, Opens, OpenFails, Opened, Ends, Finish, FileInv, TypeOK
<1>3. ASSUME NEW r \in Runs, Reap(r) \/ Arrives(r) \/ Abort(r) \/ Cancel(r) PROVE FALSE
  BY <1>3 DEF Reap, Arrives, Abort, Cancel
<1>4. CASE Shutdown \/ Reload \/ UNCHANGED vars
  BY <1>4 DEF Shutdown, Reload, vars
<1> QED
  BY <1>1, <1>2, <1>3, <1>4 DEF Next

\* The state is well formed in every state of every run of the specification.
THEOREM TypeSafety == Spec => []TypeOK
<1>1. FileInv => TypeOK
  BY DEF FileInv
<1> QED
  BY <1>1, FileInit, FileStep, PTL DEF Spec

\* A resume has its file to itself, whatever ends, stops and reloads happen around it.
THEOREM ExclusiveFile == Spec => FileIsExclusive
<1>1. Spec => []FileInv
  BY FileInit, FileStep, PTL DEF Spec
<1>2. FileInv /\ FileInv' /\ [Next]_vars => [LocksMatchRuns' /\ OneUser' /\ AdmittedAlone]_vars
  BY AloneStep DEF FileInv
<1> QED
  BY <1>1, <1>2, PTL DEF Spec, FileIsExclusive

-------------------------------------------------------------------------------
(* The stops *)

\* The tree below a run is closed under children.
LEMMA BelowIsClosed ==
  ASSUME NEW r \in Runs, NEW x \in {r} \cup Below(r), NEW c \in Children(x)
  PROVE  c \in Below(r)
<1> SUFFICES ASSUME NEW S \in SUBSET Runs, Children(r) \subseteq S,
                    \A y \in S : Children(y) \subseteq S
             PROVE  c \in S
  BY DEF Below, Children
<1>1. CASE x = r
  BY <1>1
<1>2. CASE x \in Below(r)
  <2>1. x \in S
    BY <1>2 DEF Below
  <2> QED
    BY <2>1
<1> QED
  BY <1>1, <1>2

\* What is newly reached by an abort has its children reached, too.
LEMMA AbortAllReaches ==
  ASSUME NEW S \in SUBSET Runs, NEW c \in Runs, Running(c),
         parent[c] \in AbortAll(S) \ due
  PROVE  c \in stopped \cup AbortAll(S)
<1>1. PICK r \in S : parent[c] \in {r} \cup Below(r)
  BY DEF AbortAll
<1>2. c \in Children(parent[c])
  BY DEF Children
<1>3. c \in Below(r)
  BY <1>1, <1>2, BelowIsClosed
<1> QED
  BY <1>3 DEF AbortAll

LEMMA StopStep ==
  TypeOK /\ StopReachesChildren /\ [Next]_vars => StopReachesChildren'
<1> SUFFICES ASSUME TypeOK, StopReachesChildren, [Next]_vars,
                    NEW c \in Runs, Running(c)', StopOf(parent[c])' > came'[c]
             PROVE  c \in stopped' \cup due'
  BY DEF StopReachesChildren
<1>1. Running(c) /\ StopOf(parent[c]) > came[c] => c \in stopped \cup due
  BY DEF StopReachesChildren
<1>2. ASSUME NEW s \in Stacks, NEW r \in Runs, NEW p \in Runs \cup {None},
             NEW t \in Runs \cup {None}, Spawn(s, r, p, t)
      PROVE  c \in stopped' \cup due'
  <2>1. UNCHANGED <<stopped, due>>
    BY <1>2 DEF Spawn
  <2>2. CASE c = r
    <3>1. came'[c] = StopOf(p) /\ StopOf(parent[c])' = StopOf(p) /\ StopOf(p) \in 0 .. 2
      BY <1>2, <2>1, <2>2 DEF Spawn, TypeOK, StopOf
    <3> QED
      BY <3>1
  <2>3. CASE c # r
    BY <1>1, <1>2, <2>1, <2>3 DEF Spawn, TypeOK, StopOf, Running
  <2> QED
    BY <2>2, <2>3
<1>3. ASSUME NEW r \in Runs, EndsEarly(r) \/ OpenFails(r) \/ Ends(r)
      PROVE  c \in stopped' \cup due'
  <2>1. Finish(r) /\ UNCHANGED <<stopped, due>>
    BY <1>3 DEF EndsEarly, OpenFails, Ends
  <2>2. c # r /\ Running(c) /\ parent'[c] = parent[c] /\ came'[c] = came[c]
    BY <2>1 DEF Finish, TypeOK, Running
  <2> QED
    BY <1>1, <2>1, <2>2 DEF StopOf
<1>4. ASSUME NEW r \in Runs, Opens(r) \/ Opened(r) \/ Reap(r) \/ Arrives(r)
      PROVE  c \in stopped' \cup due'
  BY <1>1, <1>4 DEF Opens, Opened, Reap, Arrives, TypeOK, Running, StopOf
<1>5. ASSUME NEW S \in SUBSET Runs, due' = AbortAll(S), UNCHANGED <<stopped, stage, parent, came>>
      PROVE  c \in stopped' \cup due'
  <2>1. Running(c) /\ due \subseteq due'
    BY <1>5 DEF Running, AbortAll
  <2>2. CASE parent[c] \in AbortAll(S) \ due
    BY <1>5, <2>1, <2>2, AbortAllReaches
  <2>3. CASE parent[c] \notin AbortAll(S) \ due
    <3>1. StopOf(parent[c])' = StopOf(parent[c]) /\ came'[c] = came[c]
      BY <1>5, <2>1, <2>3 DEF StopOf
    <3> QED
      BY <1>1, <1>5, <2>1, <3>1
  <2> QED
    BY <2>2, <2>3
<1>6. ASSUME NEW r \in Runs, Abort(r) PROVE c \in stopped' \cup due'
  <2>1. due' = AbortAll({r}) /\ UNCHANGED <<stopped, stage, parent, came>>
    BY <1>6 DEF Abort
  <2> QED
    BY <1>5, <2>1
<1>7. ASSUME NEW r \in Runs, Cancel(r) PROVE c \in stopped' \cup due'
  <2>1. /\ stopped' = stopped \cup {r} /\ stopped' \cup due' = stopped' \cup AbortAll({r})
        /\ due' = AbortAll({r}) \ {r}
        /\ UNCHANGED <<stage, parent, came>>
    BY <1>7 DEF Cancel
  <2>2. Running(c) /\ due \subseteq AbortAll({r})
    BY <2>1 DEF Running, AbortAll
  <2>3. CASE parent[c] = r
    <3>1. c \in Below(r)
      BY <2>2, <2>3, BelowIsClosed DEF Children
    <3> QED
      BY <2>1, <3>1 DEF AbortAll
  <2>4. CASE parent[c] # r /\ parent[c] \in AbortAll({r}) \ due
    BY <2>1, <2>2, <2>4, AbortAllReaches
  <2>5. CASE parent[c] # r /\ parent[c] \notin AbortAll({r}) \ due
    <3>1. StopOf(parent[c])' = StopOf(parent[c]) /\ came'[c] = came[c]
      BY <2>1, <2>2, <2>5 DEF StopOf
    <3> QED
      BY <1>1, <2>1, <2>2, <3>1
  <2> QED
    BY <2>3, <2>4, <2>5
<1>8. CASE Shutdown
  <2>1. /\ due' = AbortAll(RunsOf(stack)) /\ RunsOf(stack) \in SUBSET Runs
        /\ UNCHANGED <<stopped, stage, parent, came>>
    BY <1>8 DEF Shutdown, RunsOf
  <2> QED
    BY <1>5, <2>1
<1>9. CASE Reload \/ UNCHANGED vars
  BY <1>1, <1>9 DEF Reload, vars, Running, StopOf
<1> QED
  BY <1>2, <1>3, <1>4, <1>6, <1>7, <1>8, <1>9 DEF Next

\* However the stop of a run and its children's coming interleave, none that was there for
\* the stop is left out.
THEOREM StopReaches == Spec => []StopReachesChildren
<1>1. Init => StopReachesChildren
  BY DEF Init, StopReachesChildren, Running
<1> QED
  BY <1>1, TypeSafety, StopStep, PTL DEF Spec
===============================================================================
