---------------------------- MODULE ScheduleContract ----------------------------
(***************************************************************************)
(* What the schedule promises of each occurrence and of each run, whatever *)
(* the number of processes that read and write the ledger and however the  *)
(* wall clock moves.                                                       *)
(***************************************************************************)
EXTENDS Naturals

CONSTANTS
  Occurrences, Keys, \* the occurrences, and the runs' keys: they and the requests
  Tolerance          \* how late an occurrence may still be executed

VARIABLES
  now,      \* the wall clock
  verdict,  \* of each occurrence
  run,      \* of each key: "none", "live" or "over"
  starts    \* how often the executant of each key has been started

vars == <<now, verdict, run, starts>>

Init ==
  /\ now = 0
  /\ verdict = [t \in Occurrences |-> "open"]
  /\ run = [k \in Keys |-> "none"]
  /\ starts = [k \in Keys |-> 0]

InTolerance(t) == t <= now /\ now <= t + Tolerance

\* An occurrence is judged once, and not before it is due: it may be executed, or
\* skipped for another run, while it is in tolerance, and is missed only after that.
Judged(t) ==
  \/ verdict'[t] = verdict[t]
  \/ /\ verdict[t] = "open"
     /\ \/ verdict'[t] \in {"fired", "skipped"} /\ InTolerance(t)
        \/ verdict'[t] = "missed" /\ now > t + Tolerance

\* A run is made once and ends once; that of an occurrence is made with its verdict.
Moved(k) ==
  /\ \/ run'[k] = run[k]
     \/ run[k] = "none" /\ run'[k] = "live"
     \/ run[k] = "live" /\ run'[k] = "over"
  /\ k \in Occurrences => (run[k] = "none" /\ run'[k] = "live" <=> verdict[k] # "fired" /\ verdict'[k] = "fired")

\* A run is given to its executant once, while it is live.
Started(k) ==
  \/ starts'[k] = starts[k]
  \/ run[k] = "live" /\ starts[k] = 0 /\ starts'[k] = 1

Next ==
  /\ now' \in Nat
  /\ DOMAIN verdict' = Occurrences /\ \A t \in Occurrences : Judged(t)
  /\ DOMAIN run' = Keys /\ \A k \in Keys : Moved(k)
  /\ DOMAIN starts' = Keys /\ \A k \in Keys : Started(k)

Spec == Init /\ [][Next]_vars
===============================================================================
