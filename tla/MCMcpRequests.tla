--------------------------- MODULE MCMcpRequests ---------------------------
(* The handshake with up to two pages of tools, and two turns that call.    *)
EXTENDS McpRequests

CONSTANTS startup, a, b

=============================================================================
