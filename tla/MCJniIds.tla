------------------------------ MODULE MCJniIds ------------------------------
(* Small instances of JniIds for TLC. *)
EXTENDS JniIds

Symmetry == Permutations(Threads)
=============================================================================
