---------------------------- MODULE MCAgentServer ----------------------------
(* AgentServer on small sets, and its safety state space under symmetry.   *)
EXTENDS AgentServer, TLC

MCSymmetry == Permutations(Clients) \cup Permutations(Requests)
=============================================================================
