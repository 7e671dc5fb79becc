---------------------------------- MODULE Spawn ----------------------------------
(***************************************************************************)
(* The spawn service of the session stacks of one process                  *)
(* (src/service/spawn-service.ts): admission, the resume locks, the live   *)
(* marks of session files (src/core/live-session-files.ts), the run tree   *)
(* with its cascade of aborts, and the reload that leaves runs of the old  *)
(* stack behind.  Of a run's own course (src/runtime/runner.ts) only what  *)
(* these depend on is here: when its session opens, when the run ends and  *)
(* when the session is closed; RunLifecycle has the rest.                  *)
(*                                                                         *)
(* spawn() is synchronous up to its return, so an admission is one step.   *)
(* A request that is refused changes nothing and is no step, and neither   *)
(* are the refusals for a type, a model, a quota, the load or a full pool. *)
(***************************************************************************)
EXTENDS Naturals

CONSTANTS
  Runs,       \* run ids; a session file is named by the run that created it
  None,
  Earlier,    \* those of earlier processes that the session's journal still has
  MaxDepth,   \* maxNestedDepth, as each stack finds it in the settings
  MaxStacks   \* a bound of the model: how many stacks the process builds

Stacks == 1 .. MaxStacks

ASSUME SpawnAssumption ==
  /\ None \notin Runs
  /\ Earlier \subseteq Runs
  /\ MaxStacks \in Nat \ {0}
  /\ MaxDepth \in [Stacks -> Nat]

VARIABLES
  stack,    \* the current stack
  closing,  \* its shutdown has begun
  seeded,   \* the runs each stack has taken over from the session's journal
  home,     \* the stack that admitted the run
  stage,    \* of the run, "over" from finish() on
  session,  \* of the run, see Session
  file,     \* the session file of the run
  target,   \* the run it resumes; held in lockKeys until the run is over
  parent,   \* parentOf; childrenOf is its inverse
  depth,    \* nesting
  owners,   \* resumeOwners of each stack
  marked,   \* the runs that hold their file in the live registry
  stopped,  \* the runs whose cancel signal has fired
  due,      \* the runs abort() has reached and not cancelled
  came      \* history: how far the stop of its parent was when the run came

vars == <<stack, closing, seeded, home, stage, session, file, target, parent, depth,
          owners, marked, stopped, due, came>>

Key == {"run", "file"} \X Runs

\* "givenUp" is a create or resume of the driver that nobody waits for any more,
\* "doubt" a session whose dispose threw, "unkillable" one that dispose left running.
Session == {"none", "opening", "givenUp", "open", "closed", "doubt", "unkillable"}

TypeOK ==
  /\ stack \in Stacks
  /\ closing \in BOOLEAN
  /\ seeded \in [Stacks -> SUBSET Runs]
  /\ home \in [Runs -> Stacks \cup {None}]
  /\ stage \in [Runs -> {"free", "admitted", "opening", "open", "over"}]
  /\ session \in [Runs -> Session]
  /\ file \in [Runs -> Runs \cup {None}]
  /\ target \in [Runs -> Runs \cup {None}]
  /\ parent \in [Runs -> Runs \cup {None}]
  /\ depth \in [Runs -> Nat]
  /\ \A r \in Runs : depth[r] = 0 \/ depth[r] <= MaxDepth[home[r]]
  /\ owners \in [Stacks -> [Key -> Runs \cup {None}]]
  /\ marked \subseteq Runs
  /\ stopped \subseteq Runs
  /\ due \subseteq Runs
  /\ came \in [Runs -> 0 .. 2]

Init ==
  /\ stack = 1
  /\ closing = FALSE
  /\ seeded = [s \in Stacks |-> IF s = 1 THEN Earlier ELSE {}]
  /\ home = [r \in Runs |-> None]
  /\ stage = [r \in Runs |-> IF r \in Earlier THEN "over" ELSE "free"]
  /\ session = [r \in Runs |-> IF r \in Earlier THEN "closed" ELSE "none"]
  /\ file = [r \in Runs |-> IF r \in Earlier THEN r ELSE None]
  /\ target = [r \in Runs |-> None]
  /\ parent = [r \in Runs |-> None]
  /\ depth = [r \in Runs |-> 0]
  /\ owners = [s \in Stacks |-> [k \in Key |-> None]]
  /\ marked = {}
  /\ stopped = {}
  /\ due = {}
  /\ came = [r \in Runs |-> 0]

-------------------------------------------------------------------------------
(* Admission *)

\* running.has()
Running(r) == stage[r] \in {"admitted", "opening", "open"}

\* The run's session has been journaled with its file: it can be resumed.
Journaled(r) == session[r] \in {"open", "closed", "doubt", "unkillable"}

\* resolveResume finds the run and its file: a run of this stack, or one whose journal the
\* stack has read, the entry of an unfinished run made into one of an ended run.
Resolves(s, t) == Journaled(t) /\ (home[t] = s \/ t \in seeded[s])

\* running.has(targetId)
TargetRuns(s, t) == home[t] = s /\ Running(t)

\* isLiveSessionFile
IsLive(f) == \E r \in marked : file[r] = f

LockKeys(t, f) == IF t = None THEN {} ELSE {<<"run", t>>, <<"file", f>>}

ResumeAllowed(s, t) ==
  /\ Resolves(s, t)
  /\ ~TargetRuns(s, t)
  /\ ~IsLive(file[t])
  /\ \A k \in LockKeys(t, file[t]) : owners[s][k] = None

\* The main session asks the current stack, the Agent tool of a child session the stack
\* of its run; that session works until it is closed, also when the run is over.
Asks(s, p) ==
  \/ p = None /\ s = stack /\ ~closing
  \/ p \in Runs /\ home[p] = s /\ session[p] = "open"

\* nesting.get(parentRunId): a parent that is over sets no limit.
DepthUnder(p) == IF p # None /\ Running(p) THEN depth[p] + 1 ELSE 0

\* Faulty variant: the limit is compared with the parent's own depth.
NestingAllowsOneMore(s, p) == p # None /\ Running(p) => depth[p] <= MaxDepth[s]

NestingAllows(s, p) == DepthUnder(p) <= MaxDepth[s]

\* How far the stop of a run is: not asked for, under way, done.
StopOf(r) == IF r \in stopped THEN 2 ELSE IF r \in due THEN 1 ELSE 0

\* spawn() and the synchronous part of start(), with or without a run to resume.
Spawn(s, r, p, t) ==
  LET f == IF t = None THEN r ELSE file[t] IN
  /\ stage[r] = "free"
  /\ Asks(s, p)
  /\ NestingAllows(s, p)
  /\ t # None => ResumeAllowed(s, t)
  /\ home' = [home EXCEPT ![r] = s]
  /\ stage' = [stage EXCEPT ![r] = "admitted"]
  /\ file' = [file EXCEPT ![r] = f]
  /\ target' = [target EXCEPT ![r] = t]
  /\ parent' = [parent EXCEPT ![r] = p]
  /\ depth' = [depth EXCEPT ![r] = DepthUnder(p)]
  /\ owners' = [owners EXCEPT ![s] =
                  [k \in Key |-> IF k \in LockKeys(t, f) THEN r ELSE @[k]]]
  /\ came' = [came EXCEPT ![r] = StopOf(p)]
  /\ UNCHANGED <<stack, closing, seeded, session, marked, stopped, due>>

-------------------------------------------------------------------------------
(* The course of a run *)

\* Faulty variant: only the key of the session file is given back.
FinishKeepingTarget(r) ==
  /\ stage' = [stage EXCEPT ![r] = "over"]
  /\ target' = [target EXCEPT ![r] = None]
  /\ parent' = [parent EXCEPT ![r] = None]
  /\ depth' = [depth EXCEPT ![r] = 0]
  /\ owners' = [owners EXCEPT ![home[r]] =
                  [k \in Key |-> IF k = <<"file", file[r]>> /\ @[k] = r
                                 THEN None ELSE @[k]]]
  /\ came' = [came EXCEPT ![r] = 0]

\* finish() and the finally of start(): waiters are answered, the run leaves the tree and
\* gives its own locks back.
Finish(r) ==
  /\ stage' = [stage EXCEPT ![r] = "over"]
  /\ target' = [target EXCEPT ![r] = None]
  /\ parent' = [parent EXCEPT ![r] = None]
  /\ depth' = [depth EXCEPT ![r] = 0]
  /\ owners' = [owners EXCEPT ![home[r]] =
                  [k \in Key |-> IF k \in LockKeys(target[r], file[r]) /\ @[k] = r
                                 THEN None ELSE @[k]]]
  /\ came' = [came EXCEPT ![r] = 0]

\* The run ends before its session is asked for: the hook before it fails or takes too
\* long, the wait for a slot ends, or the run has been stopped.
EndsEarly(r) ==
  /\ stage[r] = "admitted"
  /\ Finish(r)
  /\ UNCHANGED <<stack, closing, seeded, home, session, file, marked, stopped, due>>

\* The driver is asked to create the session or to open its file.
Opens(r) ==
  /\ stage[r] = "admitted"
  /\ r \notin stopped
  /\ stage' = [stage EXCEPT ![r] = "opening"]
  /\ session' = [session EXCEPT ![r] = "opening"]
  /\ UNCHANGED <<stack, closing, seeded, home, file, target, parent, depth, owners,
                 marked, stopped, due, came>>

\* The driver refuses, or the guard around it gives up: at the limit for the startup, or
\* at once when the run is stopped.  The driver goes on.
OpenFails(r) ==
  /\ stage[r] = "opening"
  /\ \/ r \notin stopped /\ session' = [session EXCEPT ![r] = "none"]
     \/ session' = [session EXCEPT ![r] = "givenUp"]
  /\ Finish(r)
  /\ UNCHANGED <<stack, closing, seeded, home, file, marked, stopped, due>>

\* The file is marked before the session is journaled.
Opened(r) ==
  /\ stage[r] = "opening"
  /\ r \notin stopped
  /\ stage' = [stage EXCEPT ![r] = "open"]
  /\ session' = [session EXCEPT ![r] = "open"]
  /\ marked' = marked \cup {r}
  /\ UNCHANGED <<stack, closing, seeded, home, file, target, parent, depth, owners,
                 stopped, due, came>>

\* The run ends, by itself or because it was stopped; its session is still there.
Ends(r) ==
  /\ stage[r] = "open"
  /\ Finish(r)
  /\ UNCHANGED <<stack, closing, seeded, home, session, file, marked, stopped, due>>

\* runReap, notifyReaped: only a session that cannot be killed keeps the mark.
Reap(r) ==
  /\ stage[r] = "over"
  /\ session[r] = "open"
  /\ \/ /\ session' \in {[session EXCEPT ![r] = "closed"], [session EXCEPT ![r] = "doubt"]}
        /\ marked' = marked \ {r}
     \/ session' = [session EXCEPT ![r] = "unkillable"] /\ UNCHANGED marked
  /\ UNCHANGED <<stack, closing, seeded, home, stage, file, target, parent, depth, owners,
                 stopped, due, came>>

\* disposeLate, or the driver fails after all.
Arrives(r) ==
  /\ session[r] = "givenUp"
  /\ session' = [session EXCEPT ![r] = "none"]
  /\ UNCHANGED <<stack, closing, seeded, home, stage, file, target, parent, depth, owners,
                 marked, stopped, due, came>>

-------------------------------------------------------------------------------
(* Stops *)

\* childrenOf, those that run
Children(r) == {c \in Runs : parent[c] = r /\ Running(c)}

\* What cascadeChildren reaches: the smallest set with the children of r and those of its
\* members.
Below(r) ==
  {c \in Runs : \A S \in SUBSET Runs :
     Children(r) \subseteq S /\ (\A x \in S : Children(x) \subseteq S) => c \in S}

\* abort() of these runs goes down the tree before it cancels anything.
AbortAll(S) == due \cup ((S \cup UNION {Below(r) : r \in S}) \ stopped)

\* abort(): a user, the tool that stops a run, a workflow that stops its own.
Abort(r) ==
  /\ Running(r)
  /\ due' = AbortAll({r})
  /\ UNCHANGED <<stack, closing, seeded, home, stage, session, file, target, parent,
                 depth, owners, marked, stopped, came>>

\* Faulty variant: the cascade is left to abort().
CancelAlone(r) ==
  /\ Running(r)
  /\ r \notin stopped
  /\ stopped' = stopped \cup {r}
  /\ due' = due \ {r}
  /\ UNCHANGED <<stack, closing, seeded, home, stage, session, file, target, parent,
                 depth, owners, marked, came>>

\* The cancel handle fires, at the end of an abort, at a deadline or with the signal of the
\* request, or the signal before the run has one.  onChildAbort sends the abort down the
\* tree again, for what has joined it since.
Cancel(r) ==
  /\ Running(r)
  /\ r \notin stopped
  /\ stopped' = stopped \cup {r}
  /\ due' = (AbortAll({r})) \ {r}
  /\ UNCHANGED <<stack, closing, seeded, home, stage, session, file, target, parent,
                 depth, owners, marked, came>>

-------------------------------------------------------------------------------
(* The reload *)

RunsOf(s) == {r \in Runs : home[r] = s /\ Running(r)}

\* session_shutdown: every run of the stack is aborted.
Shutdown ==
  /\ ~closing
  /\ stack < MaxStacks
  /\ closing' = TRUE
  /\ due' = AbortAll(RunsOf(stack))
  /\ UNCHANGED <<stack, seeded, home, stage, session, file, target, parent, depth, owners,
                 marked, stopped, came>>

\* The aborts have been sent, the drain has ended or run out of time: the next stack starts
\* with locks of its own and with what the journal says.
Reload ==
  /\ closing
  /\ \A r \in due : home[r] # stack \/ ~Running(r)
  /\ stack' = stack + 1
  /\ closing' = FALSE
  /\ seeded' = [seeded EXCEPT ![stack + 1] = {r \in Runs : Journaled(r)}]
  /\ UNCHANGED <<home, stage, session, file, target, parent, depth, owners, marked,
                 stopped, due, came>>

Next ==
  \/ \E s \in Stacks, r \in Runs, p, t \in Runs \cup {None} : Spawn(s, r, p, t)
  \/ \E r \in Runs :
       \/ EndsEarly(r) \/ Opens(r) \/ OpenFails(r) \/ Opened(r) \/ Ends(r)
       \/ Reap(r) \/ Arrives(r)
       \/ Abort(r) \/ Cancel(r)
  \/ Shutdown
  \/ Reload

Spec == Init /\ [][Next]_vars

-------------------------------------------------------------------------------
(* Properties *)

\* A lock belongs to a run of its stack that is running and resumes what the lock names:
\* no end of a run leaves one behind, and no run works without its own.
LocksMatchRuns ==
  \A s \in Stacks, r \in Runs :
    IF home[r] = s /\ Running(r)
    THEN \A k \in Key : owners[s][k] = r <=> k \in LockKeys(target[r], file[r])
    ELSE \A k \in Key : owners[s][k] # r

Bound(r) == session[r] \in {"open", "unkillable"}
InUse(r) == Running(r) \/ Bound(r)

\* In one stack a session file is used by one run at a time, from the admission of the run
\* until its session is closed, whichever run of the file's history a resume names.
OneUser ==
  \A a, b \in Runs :
    a # b /\ file[a] = file[b] /\ home[a] = home[b] /\ InUse(a) => ~InUse(b)

\* A resume is admitted when no session on its file is left open, be it of a run of this
\* stack or of one that a reload has left behind, and no run of its stack is about to open
\* one.
AdmittedAlone ==
  \A r \in Runs :
    stage[r] = "free" /\ stage'[r] = "admitted" /\ target'[r] # None
      => \A o \in Runs : file[o] = file'[r] =>
           ~Bound(o) /\ ~(home[o] = home'[r] /\ Running(o))

\* Whatever is done, a resume has its file to itself (spawn() from resumeFrom to resumeOwners.set, the
\* finally of start(), notifyReaped).
FileIsExclusive == [][LocksMatchRuns' /\ OneUser' /\ AdmittedAlone]_vars

\* A stop of a run reaches its children, the first time those it has when abort() comes to
\* it, also when the run ends by itself meanwhile, the second time those that have joined it
\* before its cancel handle fires (cascadeChildren, onChildAbort, abort).
StopReachesChildren ==
  \A c \in Runs :
    Running(c) /\ StopOf(parent[c]) > came[c] => c \in stopped \cup due
===============================================================================
