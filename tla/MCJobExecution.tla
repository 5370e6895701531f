--------------------------- MODULE MCJobExecution ---------------------------
(***************************************************************************)
(* Instances of JobExecution for TLC.                                      *)
(***************************************************************************)
EXTENDS JobExecution, TLC

CONSTANTS j1, j2, w1, w2, w3, k1, k2, p1, p2, c1, c2, r1

Symmetry == Permutations(Owners)

\* No fourth Attempt for a Job whose cancellation is requested.
Bounded == \A j \in Jobs, a \in Attempts : job[j].cancel /\ a > 3 => attempt[a].state = "absent"
BoundedNext == ExecNext /\ Bounded'
BoundedSpec == ExecInit /\ [][BoundedNext]_execVars

\* Jobs nobody cancels, to keep the liveness run small.
UncancelledNext == ExecNext /\ \A j \in Jobs : ~job'[j].cancel
UncancelledSpec == ExecInit /\ [][UncancelledNext]_execVars /\ Fairness

=============================================================================
