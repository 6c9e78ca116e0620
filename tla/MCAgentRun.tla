----------------------------- MODULE MCAgentRun ------------------------------
(* The model value of the one agent run that is checked.                    *)
EXTENDS AgentRun

CONSTANT r1
=============================================================================
