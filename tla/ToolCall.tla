------------------------------ MODULE ToolCall ------------------------------
(***************************************************************************)
(* What the agent may rely on when it calls a tool that changes a design:  *)
(* the call takes effect at most once, an answer means that it did, and a  *)
(* refusal that it did not and never will.  Otherwise the outcome is       *)
(* unknown, and the call may take effect even later.                       *)
(***************************************************************************)
EXTENDS Naturals

CONSTANT Calls

VARIABLES status,  \* what the agent has been told of each call
          effects  \* how often each call was carried out

vars == <<status, effects>>

Init ==
  /\ status = [c \in Calls |-> "idle"]
  /\ effects = [c \in Calls |-> 0]

Invoke(c) ==
  /\ status[c] = "idle"
  /\ status' = [status EXCEPT ![c] = "open"]
  /\ UNCHANGED effects

Execute(c) ==
  /\ status[c] \in {"open", "unknown"}
  /\ effects[c] = 0
  /\ effects' = [effects EXCEPT ![c] = 1]
  /\ UNCHANGED status

Answer(c) ==
  /\ status[c] = "open"
  /\ effects[c] = 1
  /\ status' = [status EXCEPT ![c] = "answered"]
  /\ UNCHANGED effects

\* A lost connection ends all the calls it carried, a failed attempt to
\* connect all that waited for it.
GiveUp(S) ==
  /\ \A c \in S : status[c] = "open"
  /\ status' = [c \in Calls |-> IF c \in S THEN "unknown" ELSE status[c]]
  /\ UNCHANGED effects

Refuse(S) ==
  /\ \A c \in S : status[c] = "open" /\ effects[c] = 0
  /\ status' = [c \in Calls |-> IF c \in S THEN "refused" ELSE status[c]]
  /\ UNCHANGED effects

Next ==
  \/ \E c \in Calls : Invoke(c) \/ Execute(c) \/ Answer(c)
  \/ \E S \in SUBSET Calls : GiveUp(S) \/ Refuse(S)

Spec == Init /\ [][Next]_vars
=============================================================================
