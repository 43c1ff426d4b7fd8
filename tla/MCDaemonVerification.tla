----------------------- MODULE MCDaemonVerification -------------------------
(* Two connections, so that what one leaves behind meets the next, and two  *)
(* requests, so that a settlement has several waiters.                      *)
EXTENDS DaemonVerification
CONSTANTS r1, r2

MCRequests == {r1, r2}
=============================================================================
