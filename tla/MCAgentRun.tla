----------------------------- MODULE MCAgentRun ----------------------------
(***************************************************************************)
(* Instances of AgentRun: one run in depth, and two prompts to one session.*)
(***************************************************************************)
EXTENDS AgentRun

OneSession == [p \in Prompts |-> CHOOSE s \in Sessions : TRUE]
=============================================================================
