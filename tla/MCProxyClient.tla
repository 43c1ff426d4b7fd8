--------------------------- MODULE MCProxyClient ----------------------------
(* One tool call and three runs of the daemon, so that two chains of         *)
(* reconnect attempts and the re-listings of two restarts meet.  One run     *)
(* gains a tool, the next loses one.                                         *)
EXTENDS ProxyClient
CONSTANTS a, read, write

MCCalls   == {a}
MCNames   == {read, write}
MCToolsOf == <<{read}, {read, write}, {write}>>
=============================================================================
