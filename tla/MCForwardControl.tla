-------------------------- MODULE MCForwardControl --------------------------
(* Small instances of ForwardControl for TLC. *)
EXTENDS ForwardControl, TLC

Symmetry == Permutations(Forwards) \cup Permutations(Ports) \cup Permutations(Requests)
=============================================================================
