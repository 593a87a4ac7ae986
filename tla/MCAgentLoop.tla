----------------------------- MODULE MCAgentLoop -----------------------------
(***************************************************************************)
(* AgentLoop with small bounds.                                            *)
(***************************************************************************)
EXTENDS AgentLoop
=============================================================================
