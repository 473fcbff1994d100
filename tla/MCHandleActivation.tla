------------------------- MODULE MCHandleActivation -------------------------
(* Small instances of HandleActivation for TLC. *)
EXTENDS HandleActivation, TLC

Symmetry == Permutations(Handles)
=============================================================================
