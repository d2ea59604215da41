----------------------------- MODULE MCAgentLoop -----------------------------
(* TLC instance of AgentLoop: two trap objects, two sockets.                 *)
EXTENDS AgentLoop

CONSTANTS t1, t2
=============================================================================
