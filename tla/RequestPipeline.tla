--------------------------- MODULE RequestPipeline --------------------------
(***************************************************************************)
(* The extension's request queue (request-queue.ts) and the pipeline every *)
(* request goes through in its slot (ws-client.ts, handleMessage): wait    *)
(* for the verification verdict, switch the editor to the requested        *)
(* document, verify that the switch landed, check the document's type, run *)
(* the handler, answer.                                                    *)
(*                                                                         *)
(* There is one editor with one active document.  Slots run one after the  *)
(* other; a slot whose task has not settled after 120 s is released by     *)
(* force, and its task stays alive, concurrent with the slots after it.    *)
(* Calls of the eda API take any time, fail, or never return.              *)
(***************************************************************************)
EXTENDS Naturals, Sequences

CONSTANTS
  Requests,      \* request identities
  Docs,          \* documents that can be active in the editor
  DocType,       \* their types
  Jobs,          \* what a request may ask for
  HandlerSteps,  \* calls that write the active document in one handler (bound)
  NoDoc,         \* "no document parameter"
  NoRequest      \* no slot is taken

Kinds == {"pcb", "sch", "any"}

ASSUME DocAssumption ==
  /\ NoDoc \notin Docs
  /\ NoRequest \notin Requests
  /\ DocType \in [Docs -> {"pcb", "sch", "other"}]
ASSUME JobAssumption ==
  Jobs \subseteq [target : Docs \cup {NoDoc}, split : BOOLEAN, kind : Kinds]
ASSUME StepsAssumption == HandlerSteps \in Nat

VARIABLES
  queue,      \* requests whose slot has not begun, in order of arrival
  slot,       \* the request that holds the slot, or NoRequest
  forced,     \* requests whose slot was released by force
  pc,         \* where each task stands; named for what it awaits
  job,        \* what each request asks for
  active,     \* the editor's active document
  steps,      \* writes each handler has made
  replies,    \* responses sent for each request
  skipped,    \* history: requests whose switch could not be verified
  disturbed,  \* history: requests under whom the user or a released task
              \* changed the active document once they had verified it
  writes      \* history: where handlers wrote

taskVars == <<queue, slot, forced, pc>>
history  == <<skipped, disturbed, writes>>
vars == <<taskVars, job, active, steps, replies, history>>

Stages == {"new", "queued", "verdict", "tree", "opening", "opened", "info", "type",
           "handler", "done"}
Running == Stages \ {"new", "queued", "done"}

Write == [req : Requests, doc : Docs, late : BOOLEAN, skipped : BOOLEAN, disturbed : BOOLEAN]

-----------------------------------------------------------------------------
(* What the steps of a task are made of.                                   *)

\* The task settles: its slot, if it still holds it, is released.
Settle(r) ==
  /\ pc' = [pc EXCEPT ![r] = "done"]
  /\ slot' = IF slot = r THEN NoRequest ELSE slot

Abandon(r) == Settle(r) /\ UNCHANGED replies

\* sendResponse, unless the slot has been released by force meanwhile.
RespondLate(r) ==
  /\ Settle(r)
  /\ replies' = [replies EXCEPT ![r] = @ + 1]

Respond(r) ==
  /\ Settle(r)
  /\ replies' = IF r \in forced THEN replies ELSE [replies EXCEPT ![r] = @ + 1]

Await(r, stage) == pc' = [pc EXCEPT ![r] = stage] /\ UNCHANGED <<slot, replies>>

\* The isForceReleased() check that follows an await.
Proceed(r, stage) == IF r \in forced THEN Abandon(r) ELSE Await(r, stage)

\* The document changes under the tasks that have verified it already.
Disturb(by) ==
  disturbed' = disturbed \cup
                 {r \in Requests \ {by} : pc[r] \in {"type", "handler"}}

-----------------------------------------------------------------------------
(* Arrival and slots.                                                      *)

\* An unknown method or a bad parameter is answered at once, outside the queue.
RejectOnArrival(r) ==
  /\ pc[r] = "new"
  /\ pc' = [pc EXCEPT ![r] = "done"]
  /\ replies' = [replies EXCEPT ![r] = @ + 1]
  /\ UNCHANGED <<queue, slot, forced, job, active, steps, history>>

Enqueue(r, j) ==
  /\ pc[r] = "new"
  /\ pc' = [pc EXCEPT ![r] = "queued"]
  /\ job' = [job EXCEPT ![r] = j]
  /\ queue' = Append(queue, r)
  /\ UNCHANGED <<slot, forced, active, steps, replies, history>>

StartSlot ==
  /\ slot = NoRequest
  /\ queue # <<>>
  /\ slot' = Head(queue)
  /\ queue' = Tail(queue)
  /\ pc' = [pc EXCEPT ![Head(queue)] = "verdict"]
  /\ UNCHANGED <<forced, job, active, steps, replies, history>>

\* The slot's timer: the task goes on, flagged.
ForceReleaseKeepsSlot ==
  /\ slot # NoRequest
  /\ forced' = forced \cup {slot}
  /\ UNCHANGED <<queue, slot, pc, job, active, steps, replies, history>>

ForceRelease ==
  /\ slot # NoRequest
  /\ forced' = forced \cup {slot}
  /\ slot' = NoRequest
  /\ UNCHANGED <<queue, pc, job, active, steps, replies, history>>

-----------------------------------------------------------------------------
(* The task, one step per await that returns.                              *)

\* What a request that may run awaits first.
FirstAwait(r) ==
  CASE job[r].target = NoDoc -> "type"
    [] job[r].target # NoDoc /\ job[r].split  -> "tree"
    [] job[r].target # NoDoc /\ ~job[r].split -> "opening"

\* The verdict: refuse, drop (the connection was reset) or go on.
ReceiveVerdict(r, v) ==
  /\ pc[r] = "verdict"
  /\ CASE v = "refused" -> Respond(r)
       [] v = "reset"   -> Abandon(r)
       [] v = "allowed" -> Proceed(r, FirstAwait(r))
  /\ UNCHANGED <<queue, forced, job, active, steps, history>>

\* switchToDocument, uuid@suffix: the split-screen tree has been read, and the
\* open call follows at once.
ReceiveTree(r) ==
  /\ pc[r] = "tree"
  /\ Await(r, "opening")
  /\ UNCHANGED <<queue, forced, job, active, steps, history>>

\* The editor carries out an open call.
EditorOpens(r) ==
  /\ pc[r] = "opening"
  /\ Await(r, "opened")
  /\ active' = job[r].target
  /\ IF r \in forced /\ active # job[r].target THEN Disturb(r) ELSE UNCHANGED disturbed
  /\ UNCHANGED <<queue, forced, job, steps, skipped, writes>>

\* The open call returns, having done its work or silently failed.
OpenReturns(r) ==
  /\ pc[r] \in {"opening", "opened"}
  /\ Proceed(r, "info")
  /\ UNCHANGED <<queue, forced, job, active, steps, history>>

\* The tree or the open call throws.
SwitchThrows(r) ==
  /\ pc[r] \in {"tree", "opening"}
  /\ Respond(r)
  /\ UNCHANGED <<queue, forced, job, active, steps, history>>

\* checkActiveDocument on what getCurrentDocumentInfo said, or on nothing.
LandedAssumed(r, available) == TRUE

Landed(r, available) == ~available \/ active = job[r].target

VerifySwitch(r, available) ==
  /\ pc[r] = "info"
  /\ IF r \in forced
     THEN Abandon(r) /\ UNCHANGED skipped
     ELSE IF Landed(r, available)
          THEN /\ Await(r, "type")
               /\ skipped' = IF available THEN skipped ELSE skipped \cup {r}
          ELSE Respond(r) /\ UNCHANGED skipped
  /\ UNCHANGED <<queue, forced, job, active, steps, disturbed, writes>>

\* requireDocumentType, whose error is answered like the handler's own.
CheckType(r, available) ==
  /\ pc[r] = "type"
  /\ IF job[r].kind = "any" \/ (available /\ DocType[active] = job[r].kind)
     THEN Proceed(r, "handler")
     ELSE Respond(r)
  /\ UNCHANGED <<queue, forced, job, active, steps, history>>

\* A handler's call writes the document that is active when it is made.
HandlerWrites(r) ==
  /\ pc[r] = "handler"
  /\ steps[r] < HandlerSteps
  /\ steps' = [steps EXCEPT ![r] = @ + 1]
  /\ writes' = writes \cup {[req |-> r, doc |-> active, late |-> r \in forced,
                             skipped |-> r \in skipped, disturbed |-> r \in disturbed]}
  /\ UNCHANGED <<taskVars, job, active, replies, skipped, disturbed>>

\* The handler returns or throws.
HandlerEnds(r) ==
  /\ pc[r] = "handler"
  /\ Respond(r)
  /\ UNCHANGED <<queue, forced, job, active, steps, history>>

\* The user clicks another tab.
UserSwitches(d) ==
  /\ d # active
  /\ active' = d
  /\ Disturb(NoRequest)
  /\ UNCHANGED <<taskVars, job, steps, replies, skipped, writes>>

-----------------------------------------------------------------------------
Init ==
  /\ queue = <<>> /\ slot = NoRequest /\ forced = {}
  /\ pc = [r \in Requests |-> "new"]
  /\ job = [r \in Requests |-> [target |-> NoDoc, split |-> FALSE, kind |-> "any"]]
  /\ active \in Docs
  /\ steps = [r \in Requests |-> 0]
  /\ replies = [r \in Requests |-> 0]
  /\ skipped = {} /\ disturbed = {} /\ writes = {}

TaskStep(r) ==
  \/ \E v \in {"allowed", "refused", "reset"} : ReceiveVerdict(r, v)
  \/ ReceiveTree(r)
  \/ EditorOpens(r)
  \/ OpenReturns(r)
  \/ SwitchThrows(r)
  \/ \E available \in BOOLEAN : VerifySwitch(r, available) \/ CheckType(r, available)
  \/ HandlerWrites(r)
  \/ HandlerEnds(r)

Next ==
  \/ \E r \in Requests : RejectOnArrival(r) \/ (\E j \in Jobs : Enqueue(r, j)) \/ TaskStep(r)
  \/ StartSlot
  \/ ForceRelease
  \/ \E d \in Docs : UserSwitches(d)

Spec == Init /\ [][Next]_vars

\* The slot's timer fires and a released tail starts the next slot.  No call
\* of the eda API is assumed to return.
Fairness == WF_vars(StartSlot) /\ WF_vars(ForceRelease)

FairSpec == Spec /\ Fairness
-----------------------------------------------------------------------------
TypeOK ==
  /\ queue \in Seq(Requests)
  /\ slot \in Requests \cup {NoRequest}
  /\ forced \subseteq Requests
  /\ pc \in [Requests -> Stages]
  /\ job \in [Requests -> [target : Docs \cup {NoDoc}, split : BOOLEAN, kind : Kinds]]
  /\ active \in Docs
  /\ steps \in [Requests -> 0..HandlerSteps]
  /\ replies \in [Requests -> Nat]
  /\ skipped \subseteq Requests
  /\ disturbed \subseteq Requests
  /\ writes \subseteq Write

\* The tasks that may act on the editor are the one that holds the slot and
\* those already flagged: nobody is on the loose unflagged (runSlot).
OneTaskUnflagged ==
  \A r \in Requests : (pc[r] \in Running /\ r \notin forced) <=> r = slot

\* A handler that still holds its slot writes the document its request named,
\* of the type its method needs, unless the user or a released task moved the
\* editor after it was verified; and unless the editor could not say where it was,
\* in which case only the type is certain (handleMessage, Q1 and
\* requireDocumentType).
WritesLandWhereAsked ==
  \A w \in writes :
    (~w.late /\ ~w.disturbed) =>
       /\ w.skipped \/ job[w.req].target \in {NoDoc, w.doc}
       /\ job[w.req].kind \in {"any", DocType[w.doc]}

\* A request is answered at most once, and never after its slot was released
\* by force: by then the daemon has given up on it (handleMessage, every
\* isForceReleased check).
AnsweredOnceAndInTime ==
  [][\A r \in Requests : replies'[r] # replies[r]
        => replies[r] = 0 /\ replies'[r] = 1 /\ r \notin forced]_vars

\* One call that never returns does not block the tab: every queued request
\* gets its slot.
EveryRequestGetsASlot == \A r \in Requests : (pc[r] = "queued") ~> (pc[r] = "verdict")

\* What the comment on the queue says of a released task: "a late completion
\* cannot mutate an unrelated document".  Only writes of a task that had
\* verified its document count, and none under which the user moved the editor.
LateWritesStayHome ==
  \A w \in writes :
    (w.late /\ ~w.skipped /\ ~w.disturbed) => job[w.req].target \in {NoDoc, w.doc}
=============================================================================
