------------------------------ MODULE MCMcpServer ------------------------------
(* The instance of McpServer for TLC; the values are in the .cfg file.        *)
EXTENDS McpServer
=============================================================================
