---------------------------- MODULE MCGroupStore ----------------------------
(* GroupStore with a few clients and names, for TLC. *)
EXTENDS GroupStore, TLC

CONSTANTS c1, c2

\* Clients are interchangeable.
Symmetry == Permutations({c1, c2})
=============================================================================
