------------------------- MODULE MCForegroundWait -------------------------
(* Finite instances of ForegroundWait for TLC. *)
EXTENDS ForegroundWait, TLC

CONSTANTS p1, p2, p3

\* Where SIGCHLD happens not to arrive.  The code never blocks it, so the
\* first set is the program itself; the others single out the windows that
\* each property depends on.
NowhereQuiet  == {}
ListQuiet     == Waiting \ {"sigint", "suspend", "asleep"}
WindowQuiet   == Waiting \ {"asleep", "rip", "collect", "note"}

Symmetry == Permutations(Pids)
=============================================================================
