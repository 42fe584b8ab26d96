------------------------- MODULE MCPickerSelection -------------------------
(* PickerSelection on three groups and two loads, for TLC. *)
EXTENDS PickerSelection, TLC

CONSTANTS g1, g2, g3, r1, r2

\* Groups are interchangeable, and so are loads.
Symmetry == Permutations({g1, g2, g3}) \cup Permutations({r1, r2})
=============================================================================
