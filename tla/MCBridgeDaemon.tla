--------------------------- MODULE MCBridgeDaemon ---------------------------
(* An instance with two sockets, so that it can reconnect, an instance that  *)
(* never does, one tool call beside the two information requests, and two    *)
(* processes of the daemon.                                                  *)
EXTENDS BridgeDaemon
CONSTANTS a, b, a1, a2, c1

MCInst   == {a, b}
MCSock   == {a1, a2}
MCInstOf == [s \in MCSock |-> a]
MCCalls  == {c1}
=============================================================================
