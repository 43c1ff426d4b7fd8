----------------------- MODULE RequestPipelineProofs ------------------------
(***************************************************************************)
(* Proofs about RequestPipeline, for any requests, documents and jobs.     *)
(*                                                                         *)
(* Every step of a task does one of two things to the queue's state: it    *)
(* goes on to another await, or it settles, with or without an answer      *)
(* (TaskMoves); OneTaskUnflagged and AnsweredOnceAndInTime follow from     *)
(* that and from what is queued or flagged having started or not           *)
(* (QueueIsWaiting).  That writes land where they were asked rests on what *)
(* a task that holds its slot knows of the editor between its checks and   *)
(* its writes (KnowsWhereItIs): while it holds the slot, whoever moves the *)
(* editor is the user or a released task, and that disturbs it.            *)
(***************************************************************************)
EXTENDS RequestPipeline, TLAPS

-----------------------------------------------------------------------------
(* What the steps do to the queue's state.                                 *)

Settles(r) ==
  /\ Settle(r)
  /\ \/ replies' = replies
     \/ r \notin forced /\ replies' = [replies EXCEPT ![r] = @ + 1]

GoesOn(r) ==
  /\ \E stage \in Running : pc' = [pc EXCEPT ![r] = stage]
  /\ UNCHANGED <<slot, replies>>

TaskMoves(r) ==
  /\ pc[r] \in Running
  /\ UNCHANGED <<queue, forced, job>>
  /\ Settles(r) \/ GoesOn(r)

LEMMA FirstAwaitValue ==
  ASSUME TypeOK, NEW r \in Requests
  PROVE  \/ FirstAwait(r) = "type" /\ job[r].target = NoDoc
         \/ FirstAwait(r) \in {"tree", "opening"} /\ job[r].target \in Docs
<1>0. job[r].target \in Docs \cup {NoDoc}
  BY DEF TypeOK
<1>1. CASE job[r].target = NoDoc
  BY <1>1 DEF FirstAwait
<1>2. CASE job[r].target # NoDoc /\ job[r].split
  BY <1>0, <1>2 DEF FirstAwait
<1>3. CASE job[r].target # NoDoc /\ ~job[r].split
  BY <1>0, <1>3 DEF FirstAwait
<1>4. QED
  BY <1>1, <1>2, <1>3

LEMMA SettlingSteps ==
  ASSUME NEW r \in Requests
  PROVE  /\ Respond(r) => Settles(r)
         /\ Abandon(r) => Settles(r)
         /\ \A stage \in Running : Await(r, stage) => GoesOn(r)
         /\ \A stage \in Running : Proceed(r, stage) => Settles(r) \/ GoesOn(r)
<1>1. Respond(r) => Settles(r)
  BY DEF Respond, Settles
<1>2. Abandon(r) => Settles(r)
  BY DEF Abandon, Settles
<1>3. \A stage \in Running : Await(r, stage) => GoesOn(r)
  BY DEF Await, GoesOn
<1>4. QED
  BY <1>1, <1>2, <1>3 DEF Proceed

LEMMA TaskEffect ==
  ASSUME TypeOK, NEW r \in Requests, TaskStep(r)
  PROVE  TaskMoves(r)
<1>0. /\ {"verdict", "tree", "opening", "opened", "info", "type", "handler"} \subseteq Running
      /\ FirstAwait(r) \in Running
  BY FirstAwaitValue DEF Running, Stages
<1>1. ASSUME NEW v \in {"allowed", "refused", "reset"}, ReceiveVerdict(r, v)
      PROVE  TaskMoves(r)
  <2>1. /\ pc[r] = "verdict" /\ UNCHANGED <<queue, forced, job>>
        /\ Respond(r) \/ Abandon(r) \/ Proceed(r, FirstAwait(r))
    BY <1>1, Zenon DEF ReceiveVerdict
  <2>2. QED
    BY <1>0, <2>1, SettlingSteps DEF TaskMoves
<1>2. CASE ReceiveTree(r)
  BY <1>0, <1>2, SettlingSteps DEF ReceiveTree, TaskMoves
<1>3. CASE EditorOpens(r)
  BY <1>0, <1>3, SettlingSteps DEF EditorOpens, TaskMoves
<1>4. CASE OpenReturns(r)
  BY <1>0, <1>4, SettlingSteps DEF OpenReturns, TaskMoves
<1>5. CASE SwitchThrows(r)
  BY <1>0, <1>5, SettlingSteps DEF SwitchThrows, TaskMoves
<1>6. ASSUME NEW available \in BOOLEAN, VerifySwitch(r, available)
      PROVE  TaskMoves(r)
  BY <1>0, <1>6, SettlingSteps DEF VerifySwitch, TaskMoves
<1>7. ASSUME NEW available \in BOOLEAN, CheckType(r, available)
      PROVE  TaskMoves(r)
  BY <1>0, <1>7, SettlingSteps DEF CheckType, TaskMoves
<1>8. CASE HandlerWrites(r)
  <2>1. pc' = [pc EXCEPT ![r] = "handler"]
    BY <1>8 DEF HandlerWrites, taskVars, TypeOK
  <2>2. QED
    BY <1>0, <1>8, <2>1 DEF HandlerWrites, taskVars, TaskMoves, GoesOn
<1>9. CASE HandlerEnds(r)
  BY <1>0, <1>9, SettlingSteps DEF HandlerEnds, TaskMoves
<1>10. QED
  BY <1>1, <1>2, <1>3, <1>4, <1>5, <1>6, <1>7, <1>8, <1>9 DEF TaskStep

-----------------------------------------------------------------------------
(* Types.                                                                  *)

\* Only a request that names a document gets as far as switching to it.
Switching == {"tree", "opening", "opened", "info"}

SwitchesHaveATarget == \A r \in Requests : pc[r] \in Switching => job[r].target \in Docs

TypeInv == TypeOK /\ SwitchesHaveATarget

LEMMA TypeInit == Init => TypeInv
  BY DocAssumption, StepsAssumption
     DEF Init, TypeInv, TypeOK, SwitchesHaveATarget, Switching, Stages, Kinds

LEMMA TargetStep == TypeInv /\ [Next]_vars => SwitchesHaveATarget'
<1> SUFFICES ASSUME TypeInv, [Next]_vars
             PROVE  SwitchesHaveATarget'
  OBVIOUS
<1>0. TypeOK /\ SwitchesHaveATarget
  BY DEF TypeInv
\* One request moves; when it comes to switch, it was switching or has a target.
<1>1. ASSUME NEW r \in Requests, NEW stage,
             pc' = [pc EXCEPT ![r] = stage],
             stage \in Switching => pc[r] \in Switching \/ job[r].target \in Docs,
             UNCHANGED job
      PROVE  SwitchesHaveATarget'
  BY <1>0, <1>1 DEF SwitchesHaveATarget, TypeOK
<1>2. ASSUME NEW r \in Requests, RejectOnArrival(r)
      PROVE  SwitchesHaveATarget'
  BY <1>1, <1>2 DEF RejectOnArrival, Switching
<1>3. ASSUME NEW r \in Requests, NEW j \in Jobs, Enqueue(r, j)
      PROVE  SwitchesHaveATarget'
  BY <1>0, <1>3 DEF Enqueue, SwitchesHaveATarget, Switching, TypeOK
<1>4. CASE StartSlot
  <2>1. Head(queue) \in Requests
    BY <1>0, <1>4 DEF StartSlot, TypeOK
  <2>2. QED
    BY <1>1, <1>4, <2>1 DEF StartSlot, Switching
<1>5. ASSUME NEW r \in Requests, TaskStep(r)
      PROVE  SwitchesHaveATarget'
  <2>1. UNCHANGED job
    BY <1>0, <1>5, TaskEffect DEF TaskMoves
  <2>2. CASE Settle(r)
    BY <1>1, <2>1, <2>2 DEF Settle, Switching
  <2>3. CASE Await(r, "opening") /\ pc[r] = "tree"
    BY <1>1, <2>1, <2>3 DEF Await, Switching
  <2>4. CASE Await(r, "opened") /\ pc[r] = "opening"
    BY <1>1, <2>1, <2>4 DEF Await, Switching
  <2>5. CASE Await(r, "info") /\ pc[r] \in {"opening", "opened"}
    BY <1>1, <2>1, <2>5 DEF Await, Switching
  <2>6. CASE Await(r, "type") \/ Await(r, "handler")
    BY <1>1, <2>1, <2>6 DEF Await, Switching
  <2>7. CASE Await(r, FirstAwait(r))
    BY <1>0, <1>1, <2>1, <2>7, FirstAwaitValue DEF Await, Switching
  <2>8. CASE UNCHANGED pc
    BY <1>0, <2>1, <2>8 DEF SwitchesHaveATarget
  <2>9. ASSUME NEW v \in {"allowed", "refused", "reset"}, ReceiveVerdict(r, v)
        PROVE  SwitchesHaveATarget'
    <3>1. Respond(r) \/ Abandon(r) \/ Proceed(r, FirstAwait(r))
      BY <2>9, Zenon DEF ReceiveVerdict
    <3>2. QED
      BY <2>2, <2>7, <3>1 DEF Respond, Abandon, Proceed
  <2>10. QED
    BY <1>5, <2>2, <2>3, <2>4, <2>5, <2>6, <2>8, <2>9
       DEF TaskStep, ReceiveTree, EditorOpens, OpenReturns, SwitchThrows, VerifySwitch, CheckType,
           HandlerWrites, HandlerEnds, taskVars, Respond, Abandon, Proceed
<1>6. CASE UNCHANGED <<pc, job>>
  BY <1>0, <1>6 DEF SwitchesHaveATarget
<1>7. QED
  BY <1>2, <1>3, <1>4, <1>5, <1>6 DEF Next, vars, taskVars, ForceRelease, UserSwitches

LEMMA TypeStep == TypeInv /\ [Next]_vars => TypeOK'
<1> SUFFICES ASSUME TypeInv, [Next]_vars
             PROVE  TypeOK'
  OBVIOUS
<1> USE DEF TypeInv
<1>1. ASSUME NEW r \in Requests, RejectOnArrival(r)
      PROVE  TypeOK'
  <2>1. pc' \in [Requests -> Stages] /\ replies' \in [Requests -> Nat]
    BY <1>1 DEF RejectOnArrival, TypeOK, Stages
  <2>2. QED
    BY <1>1, <2>1 DEF RejectOnArrival, TypeOK, history
<1>2. ASSUME NEW r \in Requests, NEW j \in Jobs, Enqueue(r, j)
      PROVE  TypeOK'
  <2>1. pc' \in [Requests -> Stages] /\ queue' \in Seq(Requests)
    BY <1>2 DEF Enqueue, TypeOK, Stages
  <2>2. job' \in [Requests -> [target : Docs \cup {NoDoc}, split : BOOLEAN, kind : Kinds]]
    BY <1>2, JobAssumption DEF Enqueue, TypeOK
  <2>3. QED
    BY <1>2, <2>1, <2>2 DEF Enqueue, TypeOK, history
<1>3. CASE StartSlot
  <2>1. Head(queue) \in Requests /\ queue' \in Seq(Requests)
    BY <1>3 DEF StartSlot, TypeOK
  <2>2. pc' \in [Requests -> Stages]
    BY <1>3, <2>1 DEF StartSlot, TypeOK, Stages
  <2>3. QED
    BY <1>3, <2>1, <2>2 DEF StartSlot, TypeOK, history
<1>4. CASE ForceRelease
  BY <1>4 DEF ForceRelease, TypeOK, history
<1>5. ASSUME NEW d \in Docs, UserSwitches(d)
      PROVE  TypeOK'
  <2>1. disturbed' \subseteq Requests
    BY <1>5 DEF UserSwitches, Disturb, TypeOK
  <2>2. QED
    BY <1>5, <2>1 DEF UserSwitches, TypeOK, taskVars
<1>6. ASSUME NEW r \in Requests, TaskStep(r)
      PROVE  TypeOK'
  <2>1. TaskMoves(r)
    BY <1>6, TaskEffect
  <2>2. pc' \in [Requests -> Stages] /\ slot' \in Requests \cup {NoRequest}
    BY <2>1 DEF TaskMoves, Settles, Settle, GoesOn, Running, Stages, TypeOK
  <2>3. replies' \in [Requests -> Nat]
    <3>1. replies \in [Requests -> Nat] /\ replies[r] + 1 \in Nat
      BY DEF TypeOK
    <3>2. QED
      BY <2>1, <3>1 DEF TaskMoves, Settles, GoesOn
  <2>4. queue' \in Seq(Requests) /\ forced' \subseteq Requests /\ UNCHANGED job
    BY <2>1 DEF TaskMoves, TypeOK
  <2>5. CASE UNCHANGED <<active, steps, history>>
    BY <2>2, <2>3, <2>4, <2>5 DEF TypeOK, history
  <2>6. CASE EditorOpens(r) /\ pc[r] = "opening"
    <3>1. disturbed' \subseteq Requests
      BY <2>6 DEF EditorOpens, Disturb, TypeOK
    <3>2. job[r].target \in Docs
      BY <2>6 DEF SwitchesHaveATarget, Switching
    <3>3. QED
      BY <2>2, <2>3, <2>4, <2>6, <3>1, <3>2 DEF EditorOpens, TypeOK
  <2>7. ASSUME NEW available \in BOOLEAN, VerifySwitch(r, available)
        PROVE  TypeOK'
    <3>1. skipped' \subseteq Requests
      BY <2>7 DEF VerifySwitch, TypeOK
    <3>2. QED
      BY <2>2, <2>3, <2>4, <2>7, <3>1 DEF VerifySwitch, TypeOK
  <2>8. CASE HandlerWrites(r)
    <3>1. steps' \in [Requests -> 0..HandlerSteps]
      BY <2>8, StepsAssumption DEF HandlerWrites, TypeOK
    <3>2. writes' \subseteq Write
      <4> DEFINE late == r \in forced
                 unsure == r \in skipped
                 moved == r \in disturbed
      <4>1. writes' = writes \cup {[req |-> r, doc |-> active, late |-> late,
                                    skipped |-> unsure, disturbed |-> moved]}
        BY <2>8 DEF HandlerWrites
      <4>2. late \in BOOLEAN /\ unsure \in BOOLEAN /\ moved \in BOOLEAN
        OBVIOUS
      <4>3. active \in Docs /\ writes \subseteq Write
        BY DEF TypeOK
      <4> HIDE DEF late, unsure, moved
      <4>4. QED
        BY <4>1, <4>2, <4>3 DEF Write
    <3>3. QED
      BY <2>2, <2>3, <2>4, <2>8, <3>1, <3>2 DEF HandlerWrites, TypeOK
  <2>9. QED
    BY <1>6, <2>5, <2>6, <2>7, <2>8
       DEF TaskStep, ReceiveVerdict, ReceiveTree, EditorOpens, OpenReturns, SwitchThrows, CheckType,
           HandlerEnds
<1>7. CASE UNCHANGED vars
  BY <1>7 DEF vars, taskVars, history, TypeOK
<1>8. QED
  BY <1>1, <1>2, <1>3, <1>4, <1>5, <1>6, <1>7 DEF Next

\* Every variable keeps its type.
THEOREM TypeCorrect == Spec => []TypeOK
<1>1. TypeInv /\ [Next]_vars => TypeInv'
  BY TypeStep, TargetStep DEF TypeInv
<1>2. TypeInv => TypeOK
  BY DEF TypeInv
<1>3. QED
  BY TypeInit, <1>1, <1>2, PTL DEF Spec

-----------------------------------------------------------------------------
(* Slots and answers.                                                      *)

\* What is in the queue waits, once; what was released by force has started;
\* what has not settled has not been answered.
QueueIsWaiting ==
  /\ \A i \in DOMAIN queue : pc[queue[i]] = "queued"
  /\ \A i, j \in DOMAIN queue : queue[i] = queue[j] => i = j

ForcedHaveStarted == \A r \in forced : pc[r] \notin {"new", "queued"}

UnsettledAreUnanswered == \A r \in Requests : pc[r] # "done" => replies[r] = 0

SlotInv ==
  /\ TypeInv
  /\ QueueIsWaiting
  /\ ForcedHaveStarted
  /\ UnsettledAreUnanswered
  /\ OneTaskUnflagged

LEMMA QueueStep ==
  SlotInv /\ [Next]_vars => (QueueIsWaiting /\ ForcedHaveStarted /\ UnsettledAreUnanswered)'
<1> SUFFICES ASSUME SlotInv, [Next]_vars
             PROVE  QueueIsWaiting' /\ ForcedHaveStarted' /\ UnsettledAreUnanswered'
  OBVIOUS
<1>0. /\ TypeOK /\ QueueIsWaiting /\ ForcedHaveStarted /\ UnsettledAreUnanswered
      /\ OneTaskUnflagged
      /\ queue \in Seq(Requests) /\ \A i \in DOMAIN queue : queue[i] \in Requests
  BY DEF SlotInv, TypeInv, TypeOK
<1>1. ASSUME NEW r \in Requests, RejectOnArrival(r)
      PROVE  QueueIsWaiting' /\ ForcedHaveStarted' /\ UnsettledAreUnanswered'
  <2>1. /\ pc[r] = "new" /\ UNCHANGED <<queue, forced>>
        /\ \A q \in Requests : pc'[q] = IF q = r THEN "done" ELSE pc[q]
        /\ \A q \in Requests \ {r} : replies'[q] = replies[q]
    BY <1>0, <1>1 DEF RejectOnArrival, TypeOK
  <2>2. QueueIsWaiting'
    BY <1>0, <2>1 DEF QueueIsWaiting
  <2>3. QED
    BY <1>0, <2>1, <2>2 DEF ForcedHaveStarted, UnsettledAreUnanswered, TypeOK
<1>2. ASSUME NEW r \in Requests, NEW j \in Jobs, Enqueue(r, j)
      PROVE  QueueIsWaiting' /\ ForcedHaveStarted' /\ UnsettledAreUnanswered'
  <2>1. /\ pc[r] = "new" /\ UNCHANGED <<forced, replies>> /\ queue' = Append(queue, r)
        /\ \A q \in Requests : pc'[q] = IF q = r THEN "queued" ELSE pc[q]
    BY <1>0, <1>2 DEF Enqueue, TypeOK
  <2>2. \A i \in DOMAIN queue : queue[i] # r
    BY <1>0, <2>1 DEF QueueIsWaiting
  <2>3. /\ DOMAIN queue' = 1..(Len(queue) + 1)
        /\ \A i \in DOMAIN queue' : i = Len(queue) + 1 \/ i \in DOMAIN queue
        /\ \A i \in DOMAIN queue : queue'[i] = queue[i]
        /\ queue'[Len(queue) + 1] = r
    BY <1>0, <2>1
  <2>4. QueueIsWaiting'
    BY <1>0, <2>1, <2>2, <2>3 DEF QueueIsWaiting
  <2>5. QED
    BY <1>0, <2>1, <2>4 DEF ForcedHaveStarted, UnsettledAreUnanswered, TypeOK
<1>3. CASE StartSlot
  <2> DEFINE h == Head(queue)
  <2>1. /\ h \in Requests /\ h = queue[1] /\ 1 \in DOMAIN queue
        /\ \A i \in DOMAIN queue' : i + 1 \in DOMAIN queue /\ queue'[i] = queue[i + 1] /\ i + 1 # 1
    BY <1>0, <1>3 DEF StartSlot
  <2>2. /\ UNCHANGED <<forced, replies>>
        /\ \A q \in Requests : pc'[q] = IF q = h THEN "verdict" ELSE pc[q]
    BY <1>0, <1>3, <2>1 DEF StartSlot, TypeOK
  <2> HIDE DEF h
  <2>3. \A i \in DOMAIN queue' : queue'[i] \in Requests \ {h} /\ pc[queue'[i]] = "queued"
    BY <1>0, <2>1 DEF QueueIsWaiting
  <2>4. \A i, j \in DOMAIN queue' : queue'[i] = queue'[j] => i = j
    <3>1. SUFFICES ASSUME NEW i \in DOMAIN queue', NEW j \in DOMAIN queue', queue'[i] = queue'[j]
                   PROVE  i = j
      OBVIOUS
    <3>2. i + 1 = j + 1
      BY <1>0, <2>1, <3>1 DEF QueueIsWaiting
    <3>3. i \in Nat /\ j \in Nat
      BY <1>0, <1>3 DEF StartSlot
    <3>4. QED
      BY <3>2, <3>3
  <2>5. pc[h] = "queued"
    BY <1>0, <2>1 DEF QueueIsWaiting
  <2>6. QED
    BY <1>0, <2>1, <2>2, <2>3, <2>4, <2>5
       DEF QueueIsWaiting, ForcedHaveStarted, UnsettledAreUnanswered, TypeOK
<1>4. CASE ForceRelease
  <2>1. slot \in Requests /\ pc[slot] \in Running
    BY <1>0, <1>4 DEF ForceRelease, TypeOK, OneTaskUnflagged
  <2>2. QED
    BY <1>0, <1>4, <2>1
       DEF ForceRelease, QueueIsWaiting, ForcedHaveStarted, UnsettledAreUnanswered, Running
<1>5. ASSUME NEW r \in Requests, TaskStep(r)
      PROVE  QueueIsWaiting' /\ ForcedHaveStarted' /\ UnsettledAreUnanswered'
  <2>1. TaskMoves(r)
    BY <1>0, <1>5, TaskEffect
  <2>2. /\ pc[r] \notin {"new", "queued", "done"} /\ UNCHANGED <<queue, forced>>
        /\ \A q \in Requests \ {r} : pc'[q] = pc[q] /\ replies'[q] = replies[q]
        /\ pc'[r] \notin {"new", "queued"}
        /\ pc'[r] # "done" => replies'[r] = replies[r]
    BY <1>0, <2>1 DEF TaskMoves, Settles, Settle, GoesOn, Running, TypeOK
  <2>3. QueueIsWaiting'
    BY <1>0, <2>2 DEF QueueIsWaiting
  <2>4. QED
    BY <1>0, <2>2, <2>3 DEF ForcedHaveStarted, UnsettledAreUnanswered, TypeOK
<1>6. CASE UNCHANGED <<queue, pc, forced, replies>>
  BY <1>0, <1>6 DEF QueueIsWaiting, ForcedHaveStarted, UnsettledAreUnanswered
<1>7. QED
  BY <1>1, <1>2, <1>3, <1>4, <1>5, <1>6 DEF Next, vars, taskVars, UserSwitches

LEMMA OneTaskStep == SlotInv /\ [Next]_vars => OneTaskUnflagged'
<1> SUFFICES ASSUME SlotInv, [Next]_vars
             PROVE  OneTaskUnflagged'
  OBVIOUS
<1>0. TypeOK /\ QueueIsWaiting /\ ForcedHaveStarted /\ OneTaskUnflagged
  BY DEF SlotInv, TypeInv
<1>a. NoRequest \notin Requests
  BY DocAssumption
<1>1. ASSUME NEW r \in Requests, pc[r] = "new", UNCHANGED <<slot, forced>>,
             pc' = [pc EXCEPT ![r] = "done"] \/ pc' = [pc EXCEPT ![r] = "queued"]
      PROVE  OneTaskUnflagged'
  BY <1>0, <1>1 DEF OneTaskUnflagged, Running, TypeOK
<1>2. CASE StartSlot
  <2>1. Head(queue) \in Requests /\ pc[Head(queue)] = "queued"
    BY <1>0, <1>2 DEF StartSlot, QueueIsWaiting, TypeOK
  <2>2. Head(queue) \notin forced
    BY <1>0, <2>1 DEF ForcedHaveStarted
  <2>3. \A q \in Requests : pc'[q] = IF q = Head(queue) THEN "verdict" ELSE pc[q]
    BY <1>0, <1>2, <2>1 DEF StartSlot, TypeOK
  <2>4. "verdict" \in Running
    BY DEF Running, Stages
  <2>5. QED
    BY <1>0, <1>2, <1>a, <2>1, <2>2, <2>3, <2>4 DEF StartSlot, OneTaskUnflagged
<1>3. CASE ForceRelease
  BY <1>0, <1>3, <1>a DEF ForceRelease, OneTaskUnflagged
<1>4. ASSUME NEW r \in Requests, TaskStep(r)
      PROVE  OneTaskUnflagged'
  <2>1. TaskMoves(r)
    BY <1>0, <1>4, TaskEffect
  <2>2. pc[r] \in Running /\ UNCHANGED forced
    BY <2>1 DEF TaskMoves
  <2>3. CASE Settle(r)
    <3>1. \A q \in Requests : pc'[q] = IF q = r THEN "done" ELSE pc[q]
      BY <1>0, <2>3 DEF Settle, TypeOK
    <3>2. QED
      BY <1>0, <1>a, <2>2, <2>3, <3>1 DEF Settle, OneTaskUnflagged, Running
  <2>4. CASE GoesOn(r)
    BY <1>0, <2>2, <2>4 DEF GoesOn, OneTaskUnflagged, TypeOK
  <2>5. QED
    BY <2>1, <2>3, <2>4 DEF TaskMoves, Settles
<1>5. CASE UNCHANGED <<slot, pc, forced>>
  BY <1>0, <1>5 DEF OneTaskUnflagged
<1>6. QED
  BY <1>1, <1>2, <1>3, <1>4, <1>5 DEF Next, vars, taskVars, RejectOnArrival, Enqueue, UserSwitches

LEMMA SlotHolds == Spec => []SlotInv
<1>1. Init => SlotInv
  <2>1. ASSUME Init
        PROVE  QueueIsWaiting /\ ForcedHaveStarted /\ UnsettledAreUnanswered /\ OneTaskUnflagged
    BY <2>1, DocAssumption
       DEF Init, QueueIsWaiting, ForcedHaveStarted, UnsettledAreUnanswered, OneTaskUnflagged, Running
  <2>2. QED
    BY <2>1, TypeInit DEF SlotInv
<1>2. SlotInv /\ [Next]_vars => SlotInv'
  BY TypeStep, TargetStep, QueueStep, OneTaskStep DEF SlotInv, TypeInv
<1>3. QED
  BY <1>1, <1>2, PTL DEF Spec

\* Nobody but the holder of the slot is on the loose unflagged.
THEOREM SlotsAreExclusive == Spec => []OneTaskUnflagged
<1>1. SlotInv => OneTaskUnflagged
  BY DEF SlotInv
<1>2. QED
  BY SlotHolds, <1>1, PTL

\* What AnsweredOnceAndInTime says of one step.
InTime ==
  \A r \in Requests : replies'[r] # replies[r]
    => replies[r] = 0 /\ replies'[r] = 1 /\ r \notin forced

LEMMA InTimeStep == SlotInv /\ [Next]_vars => InTime
<1> SUFFICES ASSUME SlotInv, [Next]_vars
             PROVE  InTime
  OBVIOUS
<1>0. TypeOK /\ ForcedHaveStarted /\ UnsettledAreUnanswered
  BY DEF SlotInv, TypeInv
<1>1. ASSUME NEW r \in Requests, pc[r] # "done", r \notin forced,
             replies' = [replies EXCEPT ![r] = @ + 1]
      PROVE  InTime
  BY <1>0, <1>1 DEF InTime, UnsettledAreUnanswered, TypeOK
<1>2. ASSUME NEW r \in Requests, RejectOnArrival(r)
      PROVE  InTime
  BY <1>0, <1>1, <1>2 DEF RejectOnArrival, ForcedHaveStarted
<1>3. CASE UNCHANGED replies
  BY <1>3 DEF InTime
<1>4. ASSUME NEW r \in Requests, TaskStep(r)
      PROVE  InTime
  <2>1. TaskMoves(r)
    BY <1>0, <1>4, TaskEffect
  <2>2. QED
    BY <1>1, <1>3, <2>1 DEF TaskMoves, Settles, GoesOn, Running
<1>5. QED
  BY <1>2, <1>3, <1>4 DEF Next, vars, Enqueue, StartSlot, ForceRelease, UserSwitches

\* A request is answered at most once, and never after its slot was released.
THEOREM AnswersAreTimely == Spec => AnsweredOnceAndInTime
<1>1. SlotInv /\ [Next]_vars => [InTime]_vars
  BY InTimeStep
<1>2. QED
  BY SlotHolds, <1>1, PTL DEF Spec, AnsweredOnceAndInTime, InTime

-----------------------------------------------------------------------------
(* Where handlers write.                                                   *)

\* A task that holds its slot undisturbed, between its checks and its writes.
Checked == {"type", "handler"}

Knows(r) ==
  (pc[r] \in Checked /\ r \notin forced /\ r \notin disturbed) =>
     /\ r \in skipped \/ job[r].target \in {NoDoc, active}
     /\ pc[r] = "handler" => job[r].kind \in {"any", DocType[active]}

KnowsWhereItIs == \A r \in Requests : Knows(r)

\* What was written for a request was written after it came.
WritersHaveCome == \A w \in writes : w.req \in Requests /\ pc[w.req] # "new"

WriteInv == SlotInv /\ KnowsWhereItIs /\ WritersHaveCome /\ WritesLandWhereAsked

LEMMA WriteStep ==
  WriteInv /\ [Next]_vars => (KnowsWhereItIs /\ WritersHaveCome /\ WritesLandWhereAsked)'
<1> SUFFICES ASSUME WriteInv, [Next]_vars
             PROVE  KnowsWhereItIs' /\ WritersHaveCome' /\ WritesLandWhereAsked'
  OBVIOUS
<1>0. TypeOK /\ OneTaskUnflagged /\ KnowsWhereItIs /\ WritersHaveCome /\ WritesLandWhereAsked
  BY DEF WriteInv, SlotInv, TypeInv
\* Nothing is written: what was written stays where it was asked.
<1>1. ASSUME UNCHANGED writes,
             \A q \in Requests : pc[q] # "new" => pc'[q] # "new" /\ job'[q] = job[q]
      PROVE  WritersHaveCome' /\ WritesLandWhereAsked'
  BY <1>0, <1>1 DEF WritersHaveCome, WritesLandWhereAsked
\* A request that was checked and is not moved still knows, if the editor stays.
<1>2. ASSUME NEW q \in Requests, pc'[q] = pc[q], UNCHANGED active,
             job'[q] = job[q] \/ pc[q] \notin Checked,
             forced \subseteq forced', skipped \subseteq skipped', disturbed \subseteq disturbed'
      PROVE  Knows(q)'
  BY <1>0, <1>2 DEF KnowsWhereItIs, Knows
<1>3. ASSUME NEW q \in Requests, pc'[q] \notin Checked
      PROVE  Knows(q)'
  BY <1>3 DEF Knows
\* One task moves, and the editor stays.
<1>4. ASSUME NEW r \in Requests, NEW stage, pc[r] # "new", stage # "new",
             pc' = [pc EXCEPT ![r] = stage], Knows(r)',
             UNCHANGED <<active, job, forced, writes, disturbed>>, skipped \subseteq skipped'
      PROVE  KnowsWhereItIs' /\ WritersHaveCome' /\ WritesLandWhereAsked'
  <2>1. \A q \in Requests : pc'[q] = IF q = r THEN stage ELSE pc[q]
    BY <1>0, <1>4 DEF TypeOK
  <2>2. \A q \in Requests : Knows(q)'
    BY <1>2, <1>4, <2>1
  <2>3. QED
    BY <1>1, <1>4, <2>1, <2>2 DEF KnowsWhereItIs
<1>5. ASSUME NEW r \in Requests, NEW stage, pc[r] # "new", stage \notin Checked, stage # "new",
             pc' = [pc EXCEPT ![r] = stage],
             UNCHANGED <<active, job, forced, writes, disturbed>>, skipped \subseteq skipped'
      PROVE  KnowsWhereItIs' /\ WritersHaveCome' /\ WritesLandWhereAsked'
  <2>1. pc'[r] \notin Checked
    BY <1>0, <1>5 DEF TypeOK
  <2>2. QED
    BY <1>3, <1>4, <1>5, <2>1
<1>6. ASSUME NEW r \in Requests, pc[r] # "new", Settle(r),
             UNCHANGED <<active, job, forced, writes, disturbed>>, skipped \subseteq skipped'
      PROVE  KnowsWhereItIs' /\ WritersHaveCome' /\ WritesLandWhereAsked'
  BY <1>5, <1>6 DEF Settle, Checked
<1>7. ASSUME NEW r \in Requests, RejectOnArrival(r) \/ \E j \in Jobs : Enqueue(r, j)
      PROVE  KnowsWhereItIs' /\ WritersHaveCome' /\ WritesLandWhereAsked'
  <2>1. /\ pc[r] = "new" /\ pc'[r] \notin Checked
        /\ UNCHANGED <<active, forced, writes, disturbed, skipped>>
        /\ \A q \in Requests \ {r} : pc'[q] = pc[q] /\ job'[q] = job[q]
    BY <1>0, <1>7 DEF RejectOnArrival, Enqueue, TypeOK, history, Checked
  <2>2. \A q \in Requests : Knows(q)'
    BY <1>2, <1>3, <2>1
  <2>3. QED
    BY <1>1, <2>1, <2>2 DEF KnowsWhereItIs
<1>8. CASE StartSlot
  <2>1. Head(queue) \in Requests /\ pc[Head(queue)] = "queued"
    BY <1>8 DEF StartSlot, WriteInv, SlotInv, QueueIsWaiting, TypeInv, TypeOK
  <2>2. QED
    BY <1>5, <1>8, <2>1 DEF StartSlot, Checked, history
<1>9. CASE ForceRelease
  <2>1. UNCHANGED <<pc, active, job, writes, skipped, disturbed>> /\ forced \subseteq forced'
    BY <1>9 DEF ForceRelease, history
  <2>2. \A q \in Requests : Knows(q)'
    BY <1>2, <2>1
  <2>3. QED
    BY <1>1, <2>1, <2>2 DEF KnowsWhereItIs
\* The editor moves: who had checked is disturbed, or has lost its slot.
<1>10. ASSUME NEW d \in Docs, UserSwitches(d)
       PROVE  KnowsWhereItIs' /\ WritersHaveCome' /\ WritesLandWhereAsked'
  <2>1. /\ UNCHANGED <<pc, job, writes>>
        /\ \A q \in Requests : pc[q] \in Checked => q \in disturbed'
    BY <1>10, DocAssumption DEF UserSwitches, Disturb, taskVars, Checked
  <2>2. \A q \in Requests : Knows(q)'
    BY <2>1 DEF Knows
  <2>3. QED
    BY <1>1, <2>1, <2>2 DEF KnowsWhereItIs
<1>11. ASSUME NEW r \in Requests, EditorOpens(r)
       PROVE  KnowsWhereItIs' /\ WritersHaveCome' /\ WritesLandWhereAsked'
  <2>1. /\ pc[r] = "opening"
        /\ \A q \in Requests : pc'[q] = IF q = r THEN "opened" ELSE pc[q]
        /\ UNCHANGED <<job, forced, skipped, writes>>
    BY <1>0, <1>11 DEF EditorOpens, Await, TypeOK
  <2>2. disturbed \subseteq disturbed'
    BY <1>11 DEF EditorOpens, Disturb
  <2>3. Knows(r)'
    BY <1>3, <2>1 DEF Checked
  <2>4. \A q \in Requests \ {r} : Knows(q)'
    <3>1. CASE active' = active
      BY <1>2, <2>1, <2>2, <3>1
    <3>2. CASE r \in forced /\ active' # active
      <4>1. \A q \in Requests \ {r} : pc[q] \in Checked => q \in disturbed'
        BY <1>11, <3>2 DEF EditorOpens, Disturb, Checked
      <4>2. QED
        BY <2>1, <4>1 DEF Knows
    <3>3. CASE r \notin forced
      <4>1. Checked \subseteq Running /\ "opening" \in Running
        BY DEF Checked, Running, Stages
      <4>2. \A q \in Requests \ {r} : pc[q] \in Checked => q \in forced
        BY <1>0, <2>1, <3>3, <4>1 DEF OneTaskUnflagged
      <4>3. QED
        BY <2>1, <4>2 DEF Knows
    <3>4. QED
      BY <3>1, <3>2, <3>3
  <2>5. QED
    BY <1>1, <2>1, <2>3, <2>4 DEF KnowsWhereItIs
<1>12. ASSUME NEW r \in Requests, NEW v \in {"allowed", "refused", "reset"}, ReceiveVerdict(r, v)
       PROVE  KnowsWhereItIs' /\ WritersHaveCome' /\ WritesLandWhereAsked'
  <2>1. /\ pc[r] = "verdict" /\ UNCHANGED <<active, job, forced, writes, disturbed, skipped>>
        /\ Settle(r) \/ Await(r, FirstAwait(r))
    <3>1. Respond(r) \/ Abandon(r) \/ Proceed(r, FirstAwait(r))
      BY <1>12, Zenon DEF ReceiveVerdict
    <3>2. QED
      BY <1>12, <3>1 DEF ReceiveVerdict, Respond, Abandon, Proceed, history
  <2>2. CASE Settle(r)
    BY <1>6, <2>1, <2>2
  <2>3. CASE Await(r, FirstAwait(r))
    <3>1. pc' = [pc EXCEPT ![r] = FirstAwait(r)] /\ pc'[r] = FirstAwait(r)
      BY <1>0, <2>3 DEF Await, TypeOK
    <3>2. CASE FirstAwait(r) = "type" /\ job[r].target = NoDoc
      <4>1. Knows(r)'
        BY <2>1, <3>1, <3>2 DEF Knows
      <4>2. QED
        BY <1>4, <2>1, <3>1, <3>2, <4>1
    <3>3. CASE FirstAwait(r) \in {"tree", "opening"}
      BY <1>5, <2>1, <3>1, <3>3 DEF Checked
    <3>4. QED
      BY <1>0, <3>2, <3>3, FirstAwaitValue
  <2>4. QED
    BY <2>1, <2>2, <2>3
<1>13. ASSUME NEW r \in Requests, NEW available \in BOOLEAN, VerifySwitch(r, available)
       PROVE  KnowsWhereItIs' /\ WritersHaveCome' /\ WritesLandWhereAsked'
  <2>1. /\ pc[r] = "info" /\ UNCHANGED <<active, job, forced, writes, disturbed>>
        /\ skipped \subseteq skipped'
    BY <1>13 DEF VerifySwitch
  <2>2. CASE Settle(r)
    BY <1>6, <2>1, <2>2
  <2>3. CASE ~ Settle(r)
    <3>1. /\ Landed(r, available) /\ pc' = [pc EXCEPT ![r] = "type"]
          /\ ~available => r \in skipped'
      BY <1>13, <2>3 DEF VerifySwitch, Abandon, Respond, Await
    <3>2. pc'[r] = "type"
      BY <1>0, <3>1 DEF TypeOK
    <3>3. Knows(r)'
      BY <2>1, <3>1, <3>2 DEF Knows, Landed
    <3>4. QED
      BY <1>4, <2>1, <3>1, <3>3
  <2>4. QED
    BY <2>2, <2>3
<1>14. ASSUME NEW r \in Requests, NEW available \in BOOLEAN, CheckType(r, available)
       PROVE  KnowsWhereItIs' /\ WritersHaveCome' /\ WritesLandWhereAsked'
  <2>1. pc[r] = "type" /\ UNCHANGED <<active, job, forced, writes, disturbed, skipped>>
    BY <1>14 DEF CheckType, history
  <2>2. CASE Settle(r)
    BY <1>6, <2>1, <2>2
  <2>3. CASE ~ Settle(r)
    <3>1. /\ pc' = [pc EXCEPT ![r] = "handler"]
          /\ job[r].kind = "any" \/ DocType[active] = job[r].kind
      BY <1>14, <2>3 DEF CheckType, Proceed, Abandon, Respond, Await
    <3>2. pc'[r] = "handler"
      BY <1>0, <3>1 DEF TypeOK
    <3>3. Knows(r)'
      BY <1>0, <2>1, <3>1, <3>2 DEF KnowsWhereItIs, Knows, Checked
    <3>4. QED
      BY <1>4, <2>1, <3>1, <3>3
  <2>4. QED
    BY <2>2, <2>3
<1>15. ASSUME NEW r \in Requests, HandlerWrites(r)
       PROVE  KnowsWhereItIs' /\ WritersHaveCome' /\ WritesLandWhereAsked'
  <2> DEFINE w == [req |-> r, doc |-> active, late |-> r \in forced,
                   skipped |-> r \in skipped, disturbed |-> r \in disturbed]
  <2>1. /\ pc[r] = "handler" /\ writes' = writes \cup {w}
        /\ UNCHANGED <<pc, active, job, forced, skipped, disturbed>>
    BY <1>15 DEF HandlerWrites, taskVars
  <2>2. \A q \in Requests : Knows(q)'
    BY <1>2, <2>1
  <2>3. /\ w.req = r /\ w.doc = active
        /\ w.late <=> r \in forced
        /\ w.skipped <=> r \in skipped
        /\ w.disturbed <=> r \in disturbed
    OBVIOUS
  <2> HIDE DEF w
  <2>4. (~w.late /\ ~w.disturbed) =>
           /\ w.skipped \/ job[r].target \in {NoDoc, w.doc}
           /\ job[r].kind \in {"any", DocType[w.doc]}
    BY <1>0, <2>1, <2>3 DEF KnowsWhereItIs, Knows, Checked
  <2>5. WritersHaveCome'
    BY <1>0, <2>1, <2>3 DEF WritersHaveCome
  <2>6. WritesLandWhereAsked'
    BY <1>0, <2>1, <2>3, <2>4 DEF WritesLandWhereAsked
  <2>7. QED
    BY <2>2, <2>5, <2>6 DEF KnowsWhereItIs
<1>16. ASSUME NEW r \in Requests,
              ReceiveTree(r) \/ OpenReturns(r) \/ SwitchThrows(r) \/ HandlerEnds(r)
       PROVE  KnowsWhereItIs' /\ WritersHaveCome' /\ WritesLandWhereAsked'
  <2>1. pc[r] # "new" /\ UNCHANGED <<active, job, forced, writes, disturbed, skipped>>
    BY <1>16 DEF ReceiveTree, OpenReturns, SwitchThrows, HandlerEnds, history
  <2>2. CASE Settle(r)
    BY <1>6, <2>1, <2>2
  <2>3. CASE Await(r, "opening") \/ Await(r, "info")
    BY <1>5, <2>1, <2>3 DEF Await, Checked
  <2>4. QED
    BY <1>16, <2>2, <2>3
       DEF ReceiveTree, OpenReturns, SwitchThrows, HandlerEnds, Proceed, Abandon, Respond
<1>17. CASE UNCHANGED vars
  <2>1. UNCHANGED <<pc, active, job, forced, writes, disturbed, skipped>>
    BY <1>17 DEF vars, taskVars, history
  <2>2. \A q \in Requests : Knows(q)'
    BY <1>2, <2>1
  <2>3. QED
    BY <1>1, <2>1, <2>2 DEF KnowsWhereItIs
<1>18. QED
  BY <1>7, <1>8, <1>9, <1>10, <1>11, <1>12, <1>13, <1>14, <1>15, <1>16, <1>17 DEF Next, TaskStep

\* A handler that holds its slot undisturbed writes the document it was asked to.
THEOREM WritesLand == Spec => []WritesLandWhereAsked
<1>1. Init => KnowsWhereItIs /\ WritersHaveCome /\ WritesLandWhereAsked
  BY DEF Init, KnowsWhereItIs, Knows, Checked, WritersHaveCome, WritesLandWhereAsked
<1>2. SlotInv /\ SlotInv' /\ KnowsWhereItIs /\ WritersHaveCome /\ WritesLandWhereAsked /\ [Next]_vars
        => (KnowsWhereItIs /\ WritersHaveCome /\ WritesLandWhereAsked)'
  BY WriteStep DEF WriteInv
<1>3. QED
  BY SlotHolds, <1>1, <1>2, PTL DEF Spec
=============================================================================
