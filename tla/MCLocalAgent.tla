---------------------------- MODULE MCLocalAgent ----------------------------
(* The local MCP server with model values for the agent's calls.              *)
EXTENDS LocalAgent
=============================================================================
