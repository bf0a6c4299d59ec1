------------------------------ MODULE HealthAbs ------------------------------
(***************************************************************************)
(* What `tend health check` promises its caller, without goroutines, slots *)
(* or cancellation: every target gets exactly one verdict, the verdicts    *)
(* come in any order, and only when all of them are in does the command    *)
(* end, with an exit code that agrees with them.                           *)
(***************************************************************************)
EXTENDS Naturals

CONSTANTS Targets,   \* the targets named on the command line
          Verdict,   \* the statuses a check can have, "up" among them
          Pending    \* no verdict yet, no exit code yet

VARIABLES verdict,   \* verdict[t]: the status of target t, or Pending
          exit       \* the exit code, or Pending

vars == <<verdict, exit>>

Init ==
  /\ verdict = [t \in Targets |-> Pending]
  /\ exit = Pending

\* A target is decided once, before the command ends.
Decide(t) ==
  /\ verdict[t] = Pending
  /\ exit = Pending
  /\ \E v \in Verdict : verdict' = [verdict EXCEPT ![t] = v]
  /\ UNCHANGED exit

\* Exit code 1 is a failure to close a connection or to print; otherwise the
\* code tells whether any target is not up.
Conclude ==
  /\ \A t \in Targets : verdict[t] # Pending
  /\ exit = Pending
  /\ \/ exit' = 1
     \/ exit' = IF \A t \in Targets : verdict[t] = "up" THEN 0 ELSE 2
  /\ UNCHANGED verdict

Next == Conclude \/ \E t \in Targets : Decide(t)

Spec == Init /\ [][Next]_vars /\ WF_vars(Next)
=============================================================================
