--------------------------- MODULE MCAgentStream ---------------------------
(* The three streaming backends, side by side: the instance picks one.     *)
EXTENDS AgentStreamProps

AllBackends == {"claude", "copilot", "pi"}
Lines       == [claude |-> 3, copilot |-> 3, pi |-> 5]
Prompts     == [claude |-> 2, copilot |-> 1, pi |-> 1]
NotResumed  == {<<TRUE, FALSE>>}
=============================================================================
