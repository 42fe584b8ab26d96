------------------------------ MODULE MCUpstream ------------------------------
(* Upstream with one worker, for TLC. *)
EXTENDS Upstream

CONSTANTS loop, w1
=============================================================================
