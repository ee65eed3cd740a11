----------------------------- MODULE MCAgentStatus -----------------------------
(***************************************************************************)
(* TLC instances of AgentStatus.  Every bound is a constant of the cfg.    *)
(***************************************************************************)
EXTENDS AgentStatus

=============================================================================
