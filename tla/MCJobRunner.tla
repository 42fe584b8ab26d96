---------------------------- MODULE MCJobRunner ----------------------------
(* JobRunner on small sets of keys and workers, for TLC. *)
EXTENDS JobRunner, TLC

CONSTANTS k1, k2, w1, w2

\* Workers are interchangeable, and so are keys.
Symmetry == Permutations({k1, k2}) \cup Permutations({w1, w2})
=============================================================================
