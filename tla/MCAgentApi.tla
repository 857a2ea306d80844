----------------------------- MODULE MCAgentApi -----------------------------
(***************************************************************************)
(* Small instances of the agent API.  One time unit stands for a push      *)
(* interval; connections are alike, and so are nodes.                      *)
(***************************************************************************)
EXTENDS AgentApi, TLC

Connections == Permutations(Slot)
Nodes == Permutations(Node)
=============================================================================
