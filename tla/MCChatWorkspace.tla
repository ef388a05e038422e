-------------------------- MODULE MCChatWorkspace --------------------------
(* Two agents, one status that a session ends with.                                            *)
EXTENDS ChatWorkspaceProps, TLC

CONSTANTS claude, codex
TwoAgents == {claude, codex}
OneEnd    == {"completed"}
AgentSymmetry == Permutations(TwoAgents)
=============================================================================
