--------------------------- MODULE MCDaemonLifecycle ---------------------------
(* Two processes that start, run and leave beside each other, an MCP server    *)
(* that gives up on one and starts the other, and perhaps the files of a       *)
(* daemon before them; one mishap.                                             *)
EXTENDS DaemonLifecycle
CONSTANTS d1, d2, c1
=============================================================================
