--------------------------- MODULE MCRelayOutbound ---------------------------
(* Finite instances of RelayOutbound for TLC. *)
EXTENDS RelayOutbound, TLC

CONSTANTS r1, r2, w1, w2

Symmetry == Permutations(Wrappers) \cup Permutations(Relays)
=============================================================================
