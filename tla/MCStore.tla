------------------------------ MODULE MCStore -------------------------------
(* Two seconds, three runs and two report sizes: runs that share a second   *)
(* and runs that do not, shorter and longer texts, beside a file no save    *)
(* has made.  Any run may be one that the dashboard started.                *)
EXTENDS Dashboard

CONSTANTS a, b, c

MCRuns == {a, b, c}

\* A name that sorts before every stamp, and so is read last.
MCForeign == {-1}
NoForeign == {}
Symmetry == Permutations(MCRuns)
=============================================================================
