--------------------------- MODULE MCJxnetHandles ---------------------------
(* Small instances of JxnetHandles for TLC. *)
EXTENDS JxnetHandles, TLC

Symmetry == Permutations(Threads) \cup Permutations(Pcaps) \cup Permutations(Addrs)
=============================================================================
