---------------------------- MODULE MCPickerRuns ----------------------------
(* PickerRuns with two jobs, for TLC.  No symmetry: liveness is checked. *)
EXTENDS PickerRuns
=============================================================================
