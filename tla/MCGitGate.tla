------------------------------ MODULE MCGitGate ------------------------------
(* GitGate for TLC: agents are interchangeable. *)
EXTENDS GitGate, TLC

AgentSymmetry == Permutations(Agents)
=============================================================================
