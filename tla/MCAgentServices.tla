-------------------------- MODULE MCAgentServices --------------------------
(* Small instances of AgentServices for TLC. *)
EXTENDS AgentServices, TLC

Symmetry == Permutations(Names) \cup Permutations(Addrs)
=============================================================================
