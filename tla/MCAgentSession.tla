--------------------------- MODULE MCAgentSession ---------------------------
(* Values for the constants of AgentSession: three items, a loop budget    *)
(* that two failures and a model call for each item can use up.            *)
EXTENDS AgentSession

SixLoops == [tokens |-> 2, dollars |-> 0, loops |-> 6, seconds |-> 0]
OneToken == [tokens |-> 1, dollars |-> 0]
=============================================================================
