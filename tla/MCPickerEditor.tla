--------------------------- MODULE MCPickerEditor ---------------------------
(* PickerEditor on two groups, two objects and two requests, for TLC. *)
EXTENDS PickerEditor, TLC

CONSTANTS g1, g2, s1, s2, r1, r2

\* Groups, objects and requests are interchangeable.
Symmetry == Permutations({g1, g2}) \cup Permutations({s1, s2})
               \cup Permutations({r1, r2})
=============================================================================
