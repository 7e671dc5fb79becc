------------------------------- MODULE Semaphore -------------------------------
(***************************************************************************)
(* What the slot pool promises, without a counter, a queue, drains or      *)
(* tickets: nobody is let in beyond the bound in force at that moment, a   *)
(* client enters at most once, and one that has left stays out.            *)
(***************************************************************************)
EXTENDS Naturals, FiniteSets

CONSTANT Clients

VARIABLES
  place,  \* where each client is: "out", "waiting", "using" or "left"
  bound   \* how many may use it; 0 means no bound

vars == <<place, bound>>

Using == {c \in Clients : place[c] = "using"}

Init ==
  /\ place = [c \in Clients |-> "out"]
  /\ bound \in Nat

Ask(c) ==
  /\ place[c] = "out"
  /\ place' = [place EXCEPT ![c] = "waiting"]
  /\ UNCHANGED bound

\* Some give up, some are let in; both can happen in one step.
Serve(quit, enter) ==
  /\ quit \cap enter = {}
  /\ \A c \in quit \cup enter : place[c] \in {"out", "waiting"}
  /\ enter # {} => bound = 0 \/ Cardinality(Using) + Cardinality(enter) <= bound
  /\ place' = [c \in Clients |-> IF c \in enter THEN "using"
                                 ELSE IF c \in quit THEN "left" ELSE place[c]]
  /\ UNCHANGED bound

Free(c) ==
  /\ place[c] = "using"
  /\ place' = [place EXCEPT ![c] = "left"]
  /\ UNCHANGED bound

Resize ==
  /\ bound' \in Nat
  /\ UNCHANGED place

Next ==
  \/ \E c \in Clients : Ask(c) \/ Free(c)
  \/ \E quit, enter \in SUBSET Clients : Serve(quit, enter)
  \/ Resize

Spec == Init /\ [][Next]_vars
===============================================================================
