-------------------------------- MODULE Rpc ---------------------------------
(***************************************************************************)
(* What the daemon promises of a request it forwards to an extension,      *)
(* whatever happens to sockets, timers and processes: it is decided once,  *)
(* and if it is decided by an answer, the answer is its own.               *)
(***************************************************************************)
CONSTANTS Calls,  \* requests
          None    \* no answer

VARIABLES state,   \* what became of each request
          result   \* the request whose answer it was given, or None

vars == <<state, result>>

Init ==
  /\ state = [c \in Calls |-> "idle"]
  /\ result = [c \in Calls |-> None]

Make(c) ==
  /\ state[c] = "idle"
  /\ state' = [state EXCEPT ![c] = "pending"]
  /\ UNCHANGED result

\* No extension to send it to, or the send throws.
Refuse(c) ==
  /\ state[c] = "idle"
  /\ state' = [state EXCEPT ![c] = "failed"]
  /\ UNCHANGED result

Answer(c) ==
  /\ state[c] = "pending"
  /\ state' = [state EXCEPT ![c] = "answered"]
  /\ result' = [result EXCEPT ![c] = c]

\* A timeout fails one request, a lost connection all that went out on it.
Fail(S) ==
  /\ \A c \in S : state[c] = "pending"
  /\ state' = [c \in Calls |-> IF c \in S THEN "failed" ELSE state[c]]
  /\ UNCHANGED result

Next ==
  \/ \E c \in Calls : Make(c) \/ Refuse(c) \/ Answer(c)
  \/ \E S \in SUBSET Calls : Fail(S)

Safety == Init /\ [][Next]_vars

\* Nobody waits for ever.
Decided == \A c \in Calls : (state[c] = "pending") ~> (state[c] # "pending")

Spec == Safety /\ Decided
=============================================================================
