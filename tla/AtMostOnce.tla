----------------------------- MODULE AtMostOnce -----------------------------
(***************************************************************************)
(* What WithTx promises about the work of fn: it is applied at most once,  *)
(* exactly once if the call returns nil, and not at all if the call        *)
(* returns an error or panics, unless the error says that the connection   *)
(* was lost and nobody can know.                                           *)
(***************************************************************************)
EXTENDS Integers

CONSTANTS
  Call,      \* the calls of WithTx
  Outcome,   \* what a call can end with
  Unknown    \* the outcomes that leave open whether the work was applied

VARIABLES
  running,   \* the calls that have not returned
  applied,   \* applied[x]: how often the work of call x was applied
  outcome    \* outcome[x]: what call x last returned

vars == <<running, applied, outcome>>

Init ==
  /\ running = {}
  /\ applied = [x \in Call |-> 0]
  /\ outcome = [x \in Call |-> "none"]

Start(x) ==
  /\ x \notin running
  /\ running' = running \cup {x}
  /\ applied' = [applied EXCEPT ![x] = 0]
  /\ outcome' = [outcome EXCEPT ![x] = "none"]

Return(x, r, n) ==
  /\ x \in running
  /\ n \in {0, 1}
  /\ r = "nil" => n = 1
  /\ r \notin Unknown \cup {"nil"} => n = 0
  /\ running' = running \ {x}
  /\ applied' = [applied EXCEPT ![x] = n]
  /\ outcome' = [outcome EXCEPT ![x] = r]

Next ==
  \E x \in Call :
    \/ Start(x)
    \/ \E r \in Outcome, n \in {0, 1} : Return(x, r, n)

Spec == Init /\ [][Next]_vars
=============================================================================
