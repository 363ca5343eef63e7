---------------------------- MODULE MCAgentPlans ----------------------------
(***************************************************************************)
(* AgentPlans for TLC.                                                     *)
(***************************************************************************)
EXTENDS AgentPlans

=============================================================================
