------------------------- MODULE BridgeDaemonProofs -------------------------
(***************************************************************************)
(* Proofs about BridgeDaemon, for any number of instances, sockets, calls  *)
(* and runs of the daemon, under both auth policies.                       *)
(*                                                                         *)
(* That a request is given its own answer (OwnAnswer) rests on the ids: an *)
(* id is a run and a number, no number of a run is used twice, and no run  *)
(* comes twice, so two requests never share one (IdsAreUnique, with        *)
(* IdsAreOfThePast to see that the next is fresh).  That the daemon        *)
(* implements the abstract request rests on a socket's information request *)
(* being made once (AskedOnce) and on the pending map (PendingCanBeRejected).*)
(***************************************************************************)
EXTENDS BridgeDaemon, TLAPS

-----------------------------------------------------------------------------
(* What the operations do.                                                 *)

LEMMA NewIdIsAnId ==
  ASSUME TypeOK
  PROVE  NewId \in Ids /\ NewId # NoId
<1>1. run \in 1..MaxRuns /\ seq + 1 \in Nat \ {0} /\ run # 0
  BY RunsAssumption DEF TypeOK
<1>2. QED
  BY <1>1 DEF NewId, Ids, NoId

LEMMA SendTypes ==
  ASSUME TypeOK, NEW c \in Requests, NEW s \in Sock, SendRequest(c, s)
  PROVE  /\ seq' \in Nat
         /\ id' \in [Requests -> Ids]
         /\ pending' \in [Requests -> Sock \cup {NoSock}]
         /\ outcome' \in [Requests -> Outcomes]
         /\ holder' \in [Requests -> Inst \cup {NoInst}]
<1>1. seq' \in Nat
  BY DEF SendRequest, TypeOK
<1>2. id' \in [Requests -> Ids]
  BY NewIdIsAnId DEF SendRequest, TypeOK
<1>3. pending' \in [Requests -> Sock \cup {NoSock}]
  BY DEF SendRequest, TypeOK
<1>4. outcome' \in [Requests -> Outcomes]
  BY DEF SendRequest, TypeOK, Outcomes
<1>5. InstOf[s] \in Inst
  BY InstanceAssumption
<1>6. holder' \in [Requests -> Inst \cup {NoInst}]
  BY <1>5 DEF SendRequest, TypeOK
<1>7. QED
  BY <1>1, <1>2, <1>3, <1>4, <1>6

\* Registering a socket closes at most its predecessor, enters the socket under
\* its instance, and sends its information request if it is open.
LEMMA RegisterEffect ==
  ASSUME TypeOK, NEW s \in Sock, NEW states \in [Sock -> ReadyStates],
         RegisterExtension(s, states)
  PROVE  /\ ws' \in [Sock -> ReadyStates]
         /\ \A t \in Sock : ws'[t] = states[t] \/ (states[t] = "open" /\ ws'[t] = "closing")
         /\ extensions' \in [Inst -> Sock \cup {NoSock}]
         /\ \A i \in Inst : extensions'[i] = IF i = InstOf[s] THEN s ELSE extensions[i]
         /\ registered' = registered \cup {s}
         /\ \/ states[s] = "open" /\ SendRequest(s, s)
            \/ states[s] # "open" /\ UNCHANGED callVars
<1>1. InstOf[s] \in Inst
  BY InstanceAssumption
<1>2. ws' \in [Sock -> ReadyStates]
  BY DEF RegisterExtension, ReadyStates
<1>3. \A t \in Sock : ws'[t] = states[t] \/ (states[t] = "open" /\ ws'[t] = "closing")
  BY DEF RegisterExtension
<1>4. extensions' \in [Inst -> Sock \cup {NoSock}]
  BY <1>1 DEF RegisterExtension, TypeOK
<1>5. \A i \in Inst : extensions'[i] = IF i = InstOf[s] THEN s ELSE extensions[i]
  BY <1>1 DEF RegisterExtension, TypeOK
<1>6. QED
  BY <1>2, <1>3, <1>4, <1>5 DEF RegisterExtension

\* A new socket is registered, or waits in quarantine; in require mode only
\* with the token in its URL does it escape that.
LEMMA AcceptEffect ==
  ASSUME TypeOK, NEW s \in Sock, NEW urlToken \in BOOLEAN, Accept(s, urlToken)
  PROVE  LET states == [ws EXCEPT ![s] = "open"] IN
         /\ ws[s] = "new"
         /\ states \in [Sock -> ReadyStates]
         /\ authed \subseteq authed' /\ authed' \subseteq authed \cup {s}
         /\ UNCHANGED <<run, stopping, answered, result, answers>>
         /\ \/ ws' = states /\ UNCHANGED <<extensions, registered, callVars>>
            \/ RegisterExtension(s, states) /\ (AuthRequired => s \in authed')
<1>1. [ws EXCEPT ![s] = "open"] \in [Sock -> ReadyStates]
  BY DEF TypeOK, ReadyStates
<1>2. authed \subseteq authed' /\ authed' \subseteq authed \cup {s}
  BY DEF Accept
<1>3. CASE Quarantines(urlToken)
  BY <1>1, <1>2, <1>3 DEF Accept
<1>4. CASE ~Quarantines(urlToken)
  <2>1. AuthRequired => s \in authed'
    BY <1>4 DEF Accept, Quarantines
  <2>2. QED
    BY <1>1, <1>2, <1>4, <2>1 DEF Accept
<1>5. QED
  BY <1>3, <1>4

\* An auth answer registers the socket, which is then authenticated, closes it,
\* or does neither.
LEMMA AuthEffect ==
  ASSUME TypeOK, NEW s \in Sock, NEW proof \in {"right", "wrong", "none"}, ReceiveAuth(s, proof)
  PROVE  /\ Live(s)
         /\ answered' = answered \cup {s}
         /\ authed \subseteq authed' /\ authed' \subseteq authed \cup {s}
         /\ UNCHANGED <<run, stopping, result, answers>>
         /\ \/ RegisterExtension(s, ws) /\ s \notin registered /\ s \in authed'
            \/ /\ ws' = Closing({s}) \/ ws' = ws
               /\ UNCHANGED <<extensions, registered, callVars>>
<1>1. /\ Live(s) /\ answered' = answered \cup {s}
      /\ authed' = IF proof = "right" THEN authed \cup {s} ELSE authed
      /\ UNCHANGED <<run, stopping, result, answers>>
  BY DEF ReceiveAuth
<1>2. \/ proof = "right" /\ s \notin registered /\ RegisterExtension(s, ws)
      \/ ws' = Closing({s}) /\ UNCHANGED <<extensions, registered, callVars>>
      \/ UNCHANGED <<ws, extensions, registered, callVars>>
  BY Zenon DEF ReceiveAuth
<1>3. QED
  BY <1>1, <1>2

LEMMA ClosingEffect ==
  ASSUME TypeOK, NEW S \in SUBSET Sock
  PROVE  /\ Closing(S) \in [Sock -> ReadyStates]
         /\ \A t \in Sock : \/ Closing(S)[t] = ws[t]
                            \/ ws[t] = "open" /\ Closing(S)[t] = "closing"
  BY DEF Closing, TypeOK, ReadyStates

\* A call resolves to a registered, open socket.
LEMMA ResolveEffect ==
  ASSUME TypeOK, NEW i \in Inst \cup {NoInst}, NEW s \in Resolve(i)
  PROVE  s \in Sock /\ ws[s] = "open" /\ \E j \in Registered : extensions[j] = s
<1>1. s \in Sock /\ ws[s] = "open"
  BY DEF Resolve
<1>2. CASE i = NoInst
  BY <1>1, <1>2 DEF Resolve
<1>3. CASE i # NoInst
  <2>1. i \in Inst /\ extensions[i] = s /\ s # NoSock
    BY <1>1, <1>3, InstanceAssumption DEF Resolve
  <2>2. QED
    BY <1>1, <2>1 DEF Registered
<1>4. QED
  BY <1>2, <1>3

-----------------------------------------------------------------------------
(* Types.                                                                  *)

LEMMA TypeInit == Init => TypeOK
<1> SUFFICES ASSUME Init
             PROVE  TypeOK
  OBVIOUS
<1>1. run \in 1..MaxRuns /\ seq \in Nat
  BY RunsAssumption DEF Init
<1>2. NoId \in Ids
  BY DEF NoId, Ids
<1>3. QED
  BY <1>1, <1>2 DEF Init, TypeOK, Outcomes, ReadyStates

LEMMA TypeStep == TypeOK /\ [Next]_vars => TypeOK'
<1> SUFFICES ASSUME TypeOK, [Next]_vars
             PROVE  TypeOK'
  OBVIOUS
<1>1. ASSUME NEW c \in Calls, NEW i \in Inst \cup {NoInst}, CallTool(c, i)
      PROVE  TypeOK'
  <2>0. c \in Requests
    BY DEF Requests
  <2>1. CASE Resolve(i) = {}
    <3>1. outcome' \in [Requests -> Outcomes]
      BY <1>1, <2>1 DEF CallTool, TypeOK, Outcomes, Failures
    <3>2. QED
      BY <1>1, <2>1, <3>1 DEF CallTool, TypeOK, sockVars
  <2>2. CASE Resolve(i) # {}
    <3>1. PICK s \in Resolve(i) : SendRequest(c, s)
      BY <1>1, <2>2 DEF CallTool
    <3>2. QED
      BY <1>1, <2>0, <3>1, ResolveEffect, SendTypes DEF CallTool, TypeOK, sockVars
  <2>3. QED
    BY <2>1, <2>2
<1>2. ASSUME NEW c \in Calls, NEW i \in Inst \cup {NoInst}, SendThrows(c, i)
      PROVE  TypeOK'
  <2>1. outcome' \in [Requests -> Outcomes]
    BY <1>2 DEF SendThrows, TypeOK, Outcomes, Failures
  <2>2. id' \in [Requests -> Ids]
    BY <1>2, NewIdIsAnId DEF SendThrows, TypeOK
  <2>3. seq' \in Nat
    <3>1. seq \in Nat /\ seq' = seq + 1
      BY <1>2 DEF SendThrows, TypeOK
    <3>2. QED
      BY <3>1
  <2>4. QED
    BY <1>2, <2>1, <2>2, <2>3 DEF SendThrows, TypeOK, sockVars
<1>3. ASSUME NEW c \in Requests, RequestTimeout(c)
      PROVE  TypeOK'
  BY <1>3 DEF RequestTimeout, TypeOK, Outcomes, Failures, sockVars
<1>4. ASSUME NEW c \in Requests, NEW s \in Sock, ExtensionAnswers(c, s)
      PROVE  TypeOK'
  <2>1. answers' \subseteq [call : Requests, via : Sock]
    BY <1>4 DEF ExtensionAnswers, TypeOK
  <2>2. holder' \in [Requests -> Inst \cup {NoInst}]
    BY <1>4 DEF ExtensionAnswers, TypeOK
  <2>3. QED
    BY <1>4, <2>1, <2>2 DEF ExtensionAnswers, TypeOK, sockVars
<1>5. ASSUME NEW s \in Sock, NEW states \in [Sock -> ReadyStates], RegisterExtension(s, states),
             authed' \subseteq Sock, answered' \subseteq Sock,
             UNCHANGED <<run, stopping, result, answers>>
      PROVE  TypeOK'
  <2>1. /\ ws' \in [Sock -> ReadyStates]
        /\ extensions' \in [Inst -> Sock \cup {NoSock}]
        /\ registered' \subseteq Sock
    BY <1>5, RegisterEffect DEF TypeOK
  <2>2. CASE SendRequest(s, s)
    BY <1>5, <2>1, <2>2, SendTypes DEF TypeOK, Requests
  <2>3. CASE UNCHANGED callVars
    BY <1>5, <2>1, <2>3 DEF TypeOK, callVars
  <2>4. QED
    BY <1>5, <2>2, <2>3, RegisterEffect
<1>6. ASSUME NEW s \in Sock, NEW urlToken \in BOOLEAN, Accept(s, urlToken)
      PROVE  TypeOK'
  <2> DEFINE states == [ws EXCEPT ![s] = "open"]
  <2>1. /\ states \in [Sock -> ReadyStates]
        /\ authed' \subseteq Sock /\ UNCHANGED <<run, stopping, answered, result, answers>>
        /\ \/ ws' = states /\ UNCHANGED <<extensions, registered, callVars>>
           \/ RegisterExtension(s, states)
    BY <1>6, AcceptEffect DEF TypeOK
  <2> HIDE DEF states
  <2>2. CASE RegisterExtension(s, states)
    BY <1>5, <2>1, <2>2 DEF TypeOK
  <2>3. CASE ws' = states /\ UNCHANGED <<extensions, registered, callVars>>
    BY <2>1, <2>3 DEF TypeOK, callVars
  <2>4. QED
    BY <2>1, <2>2, <2>3
<1>7. ASSUME NEW s \in Sock, NEW proof \in {"right", "wrong", "none"}, ReceiveAuth(s, proof)
      PROVE  TypeOK'
  <2>1. /\ authed' \subseteq Sock /\ answered' \subseteq Sock
        /\ UNCHANGED <<run, stopping, result, answers>>
        /\ \/ RegisterExtension(s, ws)
           \/ ws' = Closing({s}) /\ UNCHANGED <<extensions, registered, callVars>>
           \/ ws' = ws /\ UNCHANGED <<extensions, registered, callVars>>
    <3>1. authed \subseteq Sock /\ answered \subseteq Sock
      BY DEF TypeOK
    <3>2. QED
      BY <1>7, <3>1, AuthEffect
  <2>2. CASE RegisterExtension(s, ws)
    BY <1>5, <2>1, <2>2 DEF TypeOK
  <2>3. CASE UNCHANGED <<extensions, registered, callVars>>
    <3>1. ws' \in [Sock -> ReadyStates] \/ RegisterExtension(s, ws)
      BY <2>1, ClosingEffect DEF TypeOK
    <3>2. QED
      BY <2>1, <2>2, <2>3, <3>1 DEF TypeOK, callVars
  <2>4. QED
    BY <2>1, <2>2, <2>3
<1>8. ASSUME NEW s \in Sock, AuthTimeout(s)
      PROVE  TypeOK'
  BY <1>8, ClosingEffect DEF AuthTimeout, TypeOK, callVars
<1>9. ASSUME NEW s \in Sock, CloseEvent(s)
      PROVE  TypeOK'
  <2>1. ws' \in [Sock -> ReadyStates] /\ extensions' \in [Inst -> Sock \cup {NoSock}]
    BY <1>9 DEF CloseEvent, Unregister, TypeOK, ReadyStates
  <2>2. /\ pending' \in [Requests -> Sock \cup {NoSock}]
        /\ outcome' \in [Requests -> Outcomes]
    BY <1>9 DEF CloseEvent, TypeOK, Outcomes, Failures
  <2>3. authed' \subseteq Sock /\ answered' \subseteq Sock /\ registered' \subseteq Sock
    BY <1>9 DEF CloseEvent, Forget, TypeOK
  <2>4. answers' \subseteq [call : Requests, via : Sock]
    BY <1>9 DEF CloseEvent, TypeOK
  <2>5. QED
    BY <1>9, <2>1, <2>2, <2>3, <2>4 DEF CloseEvent, TypeOK
<1>10. ASSUME NEW m \in answers, ReceiveAnswer(m)
       PROVE  TypeOK'
  <2>1. m.call \in Requests /\ answers' \subseteq [call : Requests, via : Sock]
    BY <1>10 DEF ReceiveAnswer, TypeOK
  <2>2. CASE UNCHANGED <<pending, outcome, result>>
    BY <1>10, <2>1, <2>2 DEF ReceiveAnswer, TypeOK, sockVars
  <2>3. CASE \E c \in Matching(m) :
               /\ pending' = [pending EXCEPT ![c] = NoSock]
               /\ outcome' = [outcome EXCEPT ![c] = "answered"]
               /\ result' = [result EXCEPT ![c] = m.call]
    <3>1. /\ pending' \in [Requests -> Sock \cup {NoSock}]
          /\ outcome' \in [Requests -> Outcomes]
          /\ result' \in [Requests -> Requests \cup {NoRequest}]
      BY <2>1, <2>3 DEF TypeOK, Outcomes
    <3>2. QED
      BY <1>10, <2>1, <3>1 DEF ReceiveAnswer, TypeOK, sockVars
  <2>4. QED
    BY <1>10, <2>2, <2>3 DEF ReceiveAnswer
<1>11. CASE Shutdown
  <2>1. {extensions[i] : i \in Registered} \in SUBSET Sock
    BY DEF Registered, TypeOK
  <2>2. ws' \in [Sock -> ReadyStates]
    BY <1>11, <2>1, ClosingEffect DEF Shutdown
  <2>3. QED
    BY <1>11, <2>2 DEF Shutdown, TypeOK, callVars
<1>12. CASE Restart
  <2>1. run' \in 1..MaxRuns /\ seq' \in Nat
    BY <1>12, RunsAssumption DEF Restart, TypeOK
  <2>2. ws' \in [Sock -> ReadyStates] /\ extensions' \in [Inst -> Sock \cup {NoSock}]
    BY <1>12 DEF Restart, TypeOK, ReadyStates
  <2>3. /\ pending' \in [Requests -> Sock \cup {NoSock}]
        /\ outcome' \in [Requests -> Outcomes]
    BY <1>12 DEF Restart, TypeOK, Outcomes, Failures
  <2>4. authed' \subseteq Sock /\ answered' \subseteq Sock /\ registered' \subseteq Sock
    BY <1>12 DEF Restart, Forget, TypeOK
  <2>5. QED
    BY <1>12, <2>1, <2>2, <2>3, <2>4 DEF Restart, TypeOK
<1>13. CASE UNCHANGED vars
  BY <1>13 DEF vars, sockVars, callVars, TypeOK
<1>14. QED
  BY <1>1, <1>2, <1>3, <1>4, <1>6, <1>7, <1>8, <1>9, <1>10, <1>11, <1>12, <1>13 DEF Next

\* Every variable keeps its type.
THEOREM TypeCorrect == Spec => []TypeOK
  BY TypeInit, TypeStep, PTL DEF Spec

-----------------------------------------------------------------------------
(* Pending requests and the registry.                                      *)

RegistryInv == TypeOK /\ PendingCanBeRejected /\ RegistryIsTrue

LEMMA RegistryStep == RegistryInv /\ [Next]_vars => (PendingCanBeRejected /\ RegistryIsTrue)'
<1> SUFFICES ASSUME RegistryInv, [Next]_vars
             PROVE  PendingCanBeRejected' /\ RegistryIsTrue'
  OBVIOUS
<1>0. TypeOK /\ TypeOK' /\ PendingCanBeRejected /\ RegistryIsTrue
  BY TypeStep DEF RegistryInv
<1> DEFINE Good(s) == Live(s) /\ (AuthRequired => s \in authed)
\* Both invariants, without the definitions they are made of.
<1>a. /\ \A i \in Inst, s \in Sock : extensions[i] = s => InstOf[s] = i /\ Good(s)
      /\ \A c \in Requests, s \in Sock : pending[c] = s => Good(s)
      /\ \A c \in Requests : outcome[c] = "pending" <=> pending[c] # NoSock
  BY <1>0, InstanceAssumption DEF PendingCanBeRejected, RegistryIsTrue, Registered
<1>b. ASSUME /\ \A i \in Inst, s \in Sock : extensions'[i] = s => InstOf[s] = i /\ Good(s)'
             /\ \A c \in Requests, s \in Sock : pending'[c] = s => Good(s)'
             /\ \A c \in Requests : outcome'[c] = "pending" <=> pending'[c] # NoSock
      PROVE  PendingCanBeRejected' /\ RegistryIsTrue'
  <2>1. /\ \A i \in Inst : extensions'[i] \in Sock \cup {NoSock}
        /\ \A c \in Requests : pending'[c] \in Sock \cup {NoSock}
    BY <1>0 DEF TypeOK
  <2>2. \A s \in Sock : Good(s)' <=> (ws'[s] \in {"open", "closing"} /\ (AuthRequired => s \in authed'))
    BY DEF Live
  <2> HIDE DEF Good
  <2>3. PendingCanBeRejected'
    BY <1>b, <2>1, <2>2 DEF PendingCanBeRejected, Live
  <2>4. RegistryIsTrue'
    BY <1>b, <2>1, <2>2 DEF RegistryIsTrue, Registered, Live
  <2>5. QED
    BY <2>3, <2>4
\* Sockets only move from open to closing, and nothing is entered anywhere.
<1>1. ASSUME \A t \in Sock : Good(t) => Good(t)',
             \A i \in Inst : extensions'[i] \in {extensions[i], NoSock},
             \A c \in Requests : pending'[c] \in {pending[c], NoSock},
             \A c \in Requests : outcome'[c] = "pending" <=> pending'[c] # NoSock
      PROVE  PendingCanBeRejected' /\ RegistryIsTrue'
  <2> HIDE DEF Good
  <2>0. NoSock \notin Sock
    BY InstanceAssumption
  <2>1. \A i \in Inst, s \in Sock : extensions'[i] = s => InstOf[s] = i /\ Good(s)'
    BY <1>1, <1>a, <2>0
  <2>2. \A c \in Requests, s \in Sock : pending'[c] = s => Good(s)'
    BY <1>1, <1>a, <2>0
  <2>3. QED
    BY <1>1, <1>b, <2>1, <2>2
\* A request is sent on a good socket.
<1>2. ASSUME NEW c \in Requests, NEW s \in Sock, SendRequest(c, s), Good(s)',
             \A t \in Sock : Good(t) => Good(t)',
             \A i \in Inst : extensions'[i] = extensions[i]
                               \/ (i = InstOf[s] /\ extensions'[i] = s)
      PROVE  PendingCanBeRejected' /\ RegistryIsTrue'
  <2>1. \A d \in Requests : /\ pending'[d] = IF d = c THEN s ELSE pending[d]
                            /\ outcome'[d] = IF d = c THEN "pending" ELSE outcome[d]
    BY <1>0, <1>2 DEF SendRequest, TypeOK
  <2>2. s # NoSock
    BY InstanceAssumption
  <2>3. \A i \in Inst, t \in Sock : extensions'[i] = t => InstOf[t] = i /\ Good(t)'
    BY <1>2, <1>a
  <2>4. \A d \in Requests, t \in Sock : pending'[d] = t => Good(t)'
    BY <1>2, <1>a, <2>1
  <2>5. \A d \in Requests : outcome'[d] = "pending" <=> pending'[d] # NoSock
    BY <1>a, <2>1, <2>2
  <2>6. QED
    BY <1>b, <2>3, <2>4, <2>5
\* A socket is registered.
<1>3. ASSUME NEW s \in Sock, NEW states \in [Sock -> ReadyStates], RegisterExtension(s, states),
             states[s] \in {"open", "closing"},
             \A t \in Sock \ {s} : states[t] = ws[t],
             authed \subseteq authed', AuthRequired => s \in authed'
      PROVE  PendingCanBeRejected' /\ RegistryIsTrue'
  <2>1. /\ \A t \in Sock : ws'[t] = states[t] \/ (states[t] = "open" /\ ws'[t] = "closing")
        /\ \A i \in Inst : extensions'[i] = IF i = InstOf[s] THEN s ELSE extensions[i]
        /\ SendRequest(s, s) \/ UNCHANGED callVars
    BY <1>0, <1>3, RegisterEffect
  <2>2. Good(s)' /\ \A t \in Sock : Good(t) => Good(t)'
    BY <1>3, <2>1 DEF Live
  <2>3. CASE SendRequest(s, s)
    BY <1>2, <2>1, <2>2, <2>3 DEF Requests
  <2>4. CASE UNCHANGED callVars
    <3>1. UNCHANGED <<pending, outcome>>
      BY <2>4 DEF callVars
    <3>2. \A i \in Inst, t \in Sock : extensions'[i] = t => InstOf[t] = i /\ Good(t)'
      BY <1>a, <2>1, <2>2
    <3>3. \A d \in Requests, t \in Sock : pending'[d] = t => Good(t)'
      BY <1>a, <2>2, <3>1
    <3>4. QED
      BY <1>a, <1>b, <3>1, <3>2, <3>3
  <2>5. QED
    BY <2>1, <2>3, <2>4
<1>4. ASSUME NEW c \in Calls, NEW i \in Inst \cup {NoInst}, CallTool(c, i)
      PROVE  PendingCanBeRejected' /\ RegistryIsTrue'
  <2>0. c \in Requests /\ UNCHANGED <<ws, authed, extensions>>
    BY <1>4 DEF Requests, CallTool, sockVars
  <2>1. CASE Resolve(i) = {}
    <3>1. \A d \in Requests : outcome'[d] = "pending" <=> outcome[d] = "pending"
      BY <1>0, <1>4, <2>0, <2>1 DEF CallTool, TypeOK
    <3>2. UNCHANGED pending
      BY <1>4, <2>1 DEF CallTool
    <3>3. QED
      BY <1>1, <1>a, <2>0, <3>1, <3>2 DEF Live
  <2>2. CASE Resolve(i) # {}
    <3>1. PICK s \in Resolve(i) : SendRequest(c, s)
      BY <1>4, <2>2 DEF CallTool
    <3>2. s \in Sock /\ \E j \in Registered : extensions[j] = s
      BY <1>0, <3>1, ResolveEffect
    <3>3. Good(s)
      BY <1>a, <3>2 DEF Registered
    <3>4. Good(s)' /\ \A t \in Sock : Good(t) => Good(t)'
      BY <2>0, <3>3 DEF Live
    <3>5. QED
      BY <1>2, <2>0, <3>1, <3>2, <3>4
  <2>3. QED
    BY <2>1, <2>2
<1>5. ASSUME NEW c \in Calls, NEW i \in Inst \cup {NoInst}, SendThrows(c, i)
      PROVE  PendingCanBeRejected' /\ RegistryIsTrue'
  <2>1. UNCHANGED <<ws, authed, extensions, pending>>
    BY <1>5 DEF SendThrows, sockVars
  <2>2. \A d \in Requests : outcome'[d] = "pending" <=> outcome[d] = "pending"
    BY <1>0, <1>5 DEF SendThrows, TypeOK, Requests
  <2>3. QED
    BY <1>1, <1>a, <2>1, <2>2 DEF Live
<1>6. ASSUME NEW c \in Requests, RequestTimeout(c)
      PROVE  PendingCanBeRejected' /\ RegistryIsTrue'
  <2>1. UNCHANGED <<ws, authed, extensions>>
    BY <1>6 DEF RequestTimeout, sockVars
  <2>2. \A d \in Requests : /\ pending'[d] = IF d = c THEN NoSock ELSE pending[d]
                            /\ outcome'[d] = IF d = c THEN "timeout" ELSE outcome[d]
    BY <1>0, <1>6 DEF RequestTimeout, TypeOK
  <2>3. QED
    BY <1>1, <1>a, <2>1, <2>2 DEF Live
<1>7. ASSUME NEW s \in Sock, NEW urlToken \in BOOLEAN, Accept(s, urlToken)
      PROVE  PendingCanBeRejected' /\ RegistryIsTrue'
  <2> DEFINE states == [ws EXCEPT ![s] = "open"]
  <2>1. /\ ws[s] = "new" /\ states \in [Sock -> ReadyStates]
        /\ authed \subseteq authed'
        /\ \/ ws' = states /\ UNCHANGED <<extensions, registered, callVars>>
           \/ RegisterExtension(s, states) /\ (AuthRequired => s \in authed')
    BY <1>0, <1>7, AcceptEffect
  <2>2. states[s] = "open" /\ \A t \in Sock \ {s} : states[t] = ws[t]
    BY <1>0 DEF TypeOK
  <2> HIDE DEF states
  <2>3. CASE RegisterExtension(s, states) /\ (AuthRequired => s \in authed')
    BY <1>3, <2>1, <2>2, <2>3
  <2>4. CASE ws' = states /\ UNCHANGED <<extensions, registered, callVars>>
    <3>1. UNCHANGED <<extensions, pending, outcome>>
      BY <2>4 DEF callVars
    <3>2. \A t \in Sock : Good(t) => Good(t)'
      BY <2>1, <2>2, <2>4 DEF Live
    <3>3. QED
      BY <1>1, <1>a, <3>1, <3>2
  <2>5. QED
    BY <2>1, <2>3, <2>4
<1>8. ASSUME NEW s \in Sock, NEW proof \in {"right", "wrong", "none"}, ReceiveAuth(s, proof)
      PROVE  PendingCanBeRejected' /\ RegistryIsTrue'
  <2>1. /\ Live(s) /\ authed \subseteq authed'
        /\ \/ RegisterExtension(s, ws) /\ s \notin registered /\ s \in authed'
           \/ /\ ws' = Closing({s}) \/ ws' = ws
              /\ UNCHANGED <<extensions, registered, callVars>>
    BY <1>0, <1>8, AuthEffect
  <2>2. CASE RegisterExtension(s, ws) /\ s \in authed'
    BY <1>0, <1>3, <2>1, <2>2 DEF Live, TypeOK
  <2>3. CASE (ws' = Closing({s}) \/ ws' = ws) /\ UNCHANGED <<extensions, registered, callVars>>
    <3>1. UNCHANGED <<extensions, pending, outcome>>
      BY <2>3 DEF callVars
    <3>2. \A t \in Sock : ws'[t] = ws[t] \/ (ws[t] = "open" /\ ws'[t] = "closing")
      BY <1>0, <2>3, ClosingEffect
    <3>3. \A t \in Sock : Good(t) => Good(t)'
      BY <2>1, <3>2 DEF Live
    <3>4. QED
      BY <1>1, <1>a, <3>1, <3>3
  <2>4. QED
    BY <2>1, <2>2, <2>3
<1>9. ASSUME NEW s \in Sock, AuthTimeout(s)
      PROVE  PendingCanBeRejected' /\ RegistryIsTrue'
  <2>1. UNCHANGED <<authed, extensions, pending, outcome>> /\ ws' = Closing({s})
    BY <1>9 DEF AuthTimeout, callVars
  <2>2. \A t \in Sock : ws'[t] = ws[t] \/ (ws[t] = "open" /\ ws'[t] = "closing")
    BY <1>0, <2>1, ClosingEffect
  <2>3. QED
    BY <1>1, <1>a, <2>1, <2>2 DEF Live
\* What goes with a socket is all that refers to it.
<1>10. ASSUME NEW s \in Sock, CloseEvent(s)
       PROVE  PendingCanBeRejected' /\ RegistryIsTrue'
  <2>1. \A t \in Sock \ {s} : Good(t) => Good(t)'
    BY <1>0, <1>10 DEF CloseEvent, Forget, Live, TypeOK
  <2>2. \A i \in Inst : /\ extensions'[i] \in {extensions[i], NoSock}
                        /\ extensions'[i] # s
    BY <1>10, InstanceAssumption DEF CloseEvent, Unregister
  <2>3. \A c \in Requests :
          /\ pending'[c] = IF pending[c] = s THEN NoSock ELSE pending[c]
          /\ outcome'[c] = IF pending[c] = s THEN "disconnected" ELSE outcome[c]
    BY <1>10 DEF CloseEvent, PendingOn
  <2>4. \A i \in Inst, t \in Sock : extensions'[i] = t => InstOf[t] = i /\ Good(t)'
    BY <1>a, <2>1, <2>2, InstanceAssumption
  <2>5. \A c \in Requests, t \in Sock : pending'[c] = t => Good(t)'
    BY <1>a, <2>1, <2>3, InstanceAssumption
  <2>6. \A c \in Requests : outcome'[c] = "pending" <=> pending'[c] # NoSock
    BY <1>a, <2>3
  <2>7. QED
    BY <1>b, <2>4, <2>5, <2>6
<1>11. ASSUME NEW c \in Requests, NEW s \in Sock, ExtensionAnswers(c, s)
       PROVE  PendingCanBeRejected' /\ RegistryIsTrue'
  BY <1>1, <1>a, <1>11 DEF ExtensionAnswers, sockVars, Live
<1>12. ASSUME NEW m \in answers, ReceiveAnswer(m)
       PROVE  PendingCanBeRejected' /\ RegistryIsTrue'
  <2>1. UNCHANGED <<ws, authed, extensions>>
    BY <1>12 DEF ReceiveAnswer, sockVars
  <2>2. CASE UNCHANGED <<pending, outcome>>
    BY <1>1, <1>a, <2>1, <2>2 DEF Live
  <2>3. CASE \E c \in Matching(m) : /\ pending' = [pending EXCEPT ![c] = NoSock]
                                    /\ outcome' = [outcome EXCEPT ![c] = "answered"]
    <3>1. PICK c \in Requests : /\ pending' = [pending EXCEPT ![c] = NoSock]
                                /\ outcome' = [outcome EXCEPT ![c] = "answered"]
      BY <2>3 DEF Matching
    <3>2. \A d \in Requests : /\ pending'[d] = IF d = c THEN NoSock ELSE pending[d]
                              /\ outcome'[d] = IF d = c THEN "answered" ELSE outcome[d]
      BY <1>0, <3>1 DEF TypeOK
    <3>3. QED
      BY <1>1, <1>a, <2>1, <3>2 DEF Live
  <2>4. QED
    BY <1>12, <2>2, <2>3 DEF ReceiveAnswer
<1>13. CASE Shutdown
  <2>1. /\ UNCHANGED <<authed, pending, outcome>>
        /\ ws' = Closing({extensions[i] : i \in Registered})
        /\ \A i \in Inst : extensions'[i] = NoSock
    BY <1>13 DEF Shutdown, callVars
  <2>2. {extensions[i] : i \in Registered} \in SUBSET Sock
    BY <1>0 DEF Registered, TypeOK
  <2>3. \A t \in Sock : ws'[t] = ws[t] \/ (ws[t] = "open" /\ ws'[t] = "closing")
    BY <1>0, <2>1, <2>2, ClosingEffect
  <2>4. QED
    BY <1>1, <1>a, <2>1, <2>3 DEF Live
<1>14. CASE Restart
  <2>1. /\ \A i \in Inst : extensions'[i] = NoSock
        /\ \A c \in Requests : pending'[c] = NoSock /\ outcome'[c] # "pending"
    BY <1>14 DEF Restart
  <2>2. QED
    BY <1>b, <2>1, InstanceAssumption
<1>15. CASE UNCHANGED vars
  BY <1>1, <1>a, <1>15 DEF vars, sockVars, callVars, Live
<1>16. QED
  BY <1>4, <1>5, <1>6, <1>7, <1>8, <1>9, <1>10, <1>11, <1>12, <1>13, <1>14, <1>15 DEF Next

LEMMA RegistryInit == Init => RegistryInv
  BY TypeInit DEF Init, RegistryInv, PendingCanBeRejected, RegistryIsTrue, Registered

LEMMA RegistryHolds == Spec => []RegistryInv
<1>1. RegistryInv /\ [Next]_vars => RegistryInv'
  BY TypeStep, RegistryStep DEF RegistryInv
<1>2. QED
  BY RegistryInit, <1>1, PTL DEF Spec

\* A request that is not settled can still be rejected by the close of its socket.
THEOREM PendingIsRejectable == Spec => []PendingCanBeRejected
<1>1. RegistryInv => PendingCanBeRejected
  BY DEF RegistryInv
<1>2. QED
  BY RegistryHolds, <1>1, PTL

\* The map of extensions and the pending map hold good sockets only.
THEOREM RegistryHoldsGoodSockets == Spec => []RegistryIsTrue
<1>1. RegistryInv => RegistryIsTrue
  BY DEF RegistryInv
<1>2. QED
  BY RegistryHolds, <1>1, PTL

\* Only the end of its socket, or of the daemon, takes an instance off the map.
Stays ==
  \A i \in Registered :
    extensions'[i] = NoSock => stopping' \/ run' # run \/ ws'[extensions[i]] = "closed"

LEMMA StaysStep == TypeOK /\ [Next]_vars => Stays
<1> SUFFICES ASSUME TypeOK, [Next]_vars, NEW i \in Registered, extensions'[i] = NoSock
             PROVE  stopping' \/ run' # run \/ ws'[extensions[i]] = "closed"
  BY DEF Stays
<1>0. i \in Inst /\ extensions[i] \in Sock /\ extensions[i] # NoSock
  BY DEF Registered, TypeOK
<1>1. ASSUME NEW s \in Sock, NEW states \in [Sock -> ReadyStates], RegisterExtension(s, states)
      PROVE  FALSE
  <2>1. extensions'[i] = IF i = InstOf[s] THEN s ELSE extensions[i]
    BY <1>0, <1>1, RegisterEffect
  <2>2. QED
    BY <1>0, <2>1, InstanceAssumption
<1>2. ASSUME NEW s \in Sock, NEW urlToken \in BOOLEAN, Accept(s, urlToken)
      PROVE  FALSE
  <2> DEFINE states == [ws EXCEPT ![s] = "open"]
  <2>1. /\ states \in [Sock -> ReadyStates]
        /\ UNCHANGED extensions \/ RegisterExtension(s, states)
    BY <1>2, AcceptEffect
  <2> HIDE DEF states
  <2>2. QED
    BY <1>0, <1>1, <2>1
<1>3. ASSUME NEW s \in Sock, NEW proof \in {"right", "wrong", "none"}, ReceiveAuth(s, proof)
      PROVE  FALSE
  <2>1. ws \in [Sock -> ReadyStates]
    BY DEF TypeOK
  <2>2. QED
    BY <1>0, <1>1, <1>3, <2>1, AuthEffect
<1>4. ASSUME NEW s \in Sock, CloseEvent(s)
      PROVE  ws'[extensions[i]] = "closed"
  <2>1. extensions[i] = s
    BY <1>0, <1>4 DEF CloseEvent, Unregister
  <2>2. QED
    BY <1>0, <1>4, <2>1 DEF CloseEvent, TypeOK
<1>5. CASE Shutdown
  BY <1>5 DEF Shutdown
<1>6. CASE Restart
  BY <1>6, RunsAssumption DEF Restart, TypeOK
<1>7. CASE UNCHANGED extensions
  BY <1>0, <1>7
<1>8. QED
  BY <1>2, <1>3, <1>4, <1>5, <1>6, <1>7
     DEF Next, vars, CallTool, SendThrows, RequestTimeout, ExtensionAnswers, AuthTimeout,
         ReceiveAnswer

\* The late close of a replaced socket does not unregister its successor.
THEOREM InstancesStayRegistered == Spec => RegisteredUntilItCloses
<1>1. TypeOK /\ [Next]_vars => [Stays]_vars
  BY StaysStep
<1>2. QED
  BY TypeInit, TypeStep, <1>1, PTL DEF Spec, RegisteredUntilItCloses, Stays

-----------------------------------------------------------------------------
(* Ids, and whose answer a request is given.                               *)

\* The next id is fresh: what went out has an earlier run or a lower number.
IdsAreOfThePast ==
  \A c \in Requests : id[c] # NoId => id[c][1] < run \/ (id[c][1] = run /\ id[c][2] <= seq)

IdsAreUnique == \A c, d \in Requests : id[c] # NoId /\ id[c] = id[d] => c = d

PendingHaveIds == \A c \in Requests : pending[c] # NoSock => id[c] # NoId

IdInv == TypeOK /\ IdsAreOfThePast /\ IdsAreUnique /\ PendingHaveIds

\* A new id differs from all that went out.
LEMMA FreshId ==
  ASSUME TypeOK, IdsAreOfThePast, IdsAreUnique, NEW c \in Requests,
         id' = [id EXCEPT ![c] = NewId], seq' = seq + 1, run' = run
  PROVE  IdsAreOfThePast' /\ IdsAreUnique' /\ id'[c] # NoId
<1>0. /\ run \in Nat /\ seq \in Nat
      /\ NewId[1] = run /\ NewId[2] = seq + 1 /\ NewId # NoId
  BY RunsAssumption, NewIdIsAnId DEF TypeOK, NewId
<1>1. \A d \in Requests : id'[d] = IF d = c THEN NewId ELSE id[d]
  BY DEF TypeOK
<1>2. \A d \in Requests : id[d] # NoId => id[d][1] \in Nat /\ id[d][2] \in Nat
  BY DEF TypeOK, Ids
<1>3. \A d \in Requests : id[d] # NewId
  BY <1>0, <1>2 DEF IdsAreOfThePast
<1>4. IdsAreOfThePast'
  BY <1>0, <1>1, <1>2 DEF IdsAreOfThePast
<1>5. IdsAreUnique'
  BY <1>1, <1>3 DEF IdsAreUnique
<1>6. QED
  BY <1>0, <1>1, <1>4, <1>5

LEMMA IdStep == IdInv /\ [Next]_vars => (IdsAreOfThePast /\ IdsAreUnique /\ PendingHaveIds)'
<1> SUFFICES ASSUME IdInv, [Next]_vars
             PROVE  IdsAreOfThePast' /\ IdsAreUnique' /\ PendingHaveIds'
  OBVIOUS
<1>0. TypeOK /\ IdsAreOfThePast /\ IdsAreUnique /\ PendingHaveIds
  BY DEF IdInv
\* The steps that give no id.
<1>1. ASSUME UNCHANGED <<run, seq, id>>,
             \A c \in Requests : pending'[c] # NoSock => pending[c] # NoSock
      PROVE  IdsAreOfThePast' /\ IdsAreUnique' /\ PendingHaveIds'
  BY <1>0, <1>1 DEF IdsAreOfThePast, IdsAreUnique, PendingHaveIds
<1>2. ASSUME NEW c \in Requests, NEW s \in Sock, SendRequest(c, s), UNCHANGED run
      PROVE  IdsAreOfThePast' /\ IdsAreUnique' /\ PendingHaveIds'
  <2>1. IdsAreOfThePast' /\ IdsAreUnique' /\ id'[c] # NoId
    BY <1>0, <1>2, FreshId DEF SendRequest
  <2>2. \A d \in Requests \ {c} : pending'[d] = pending[d] /\ id'[d] = id[d]
    BY <1>0, <1>2 DEF SendRequest, TypeOK
  <2>3. QED
    BY <1>0, <2>1, <2>2 DEF PendingHaveIds
<1>3. ASSUME NEW c \in Calls, NEW i \in Inst \cup {NoInst}, CallTool(c, i)
      PROVE  IdsAreOfThePast' /\ IdsAreUnique' /\ PendingHaveIds'
  <2>1. CASE Resolve(i) = {}
    BY <1>1, <1>3, <2>1 DEF CallTool
  <2>2. CASE Resolve(i) # {}
    BY <1>0, <1>2, <1>3, <2>2, ResolveEffect DEF CallTool, Requests
  <2>3. QED
    BY <2>1, <2>2
<1>4. ASSUME NEW c \in Calls, NEW i \in Inst \cup {NoInst}, SendThrows(c, i)
      PROVE  IdsAreOfThePast' /\ IdsAreUnique' /\ PendingHaveIds'
  <2>1. IdsAreOfThePast' /\ IdsAreUnique' /\ id'[c] # NoId
    BY <1>0, <1>4, FreshId DEF SendThrows, Requests
  <2>2. UNCHANGED pending /\ \A d \in Requests \ {c} : id'[d] = id[d]
    BY <1>0, <1>4 DEF SendThrows, TypeOK
  <2>3. QED
    BY <1>0, <2>1, <2>2 DEF PendingHaveIds
<1>5. ASSUME NEW c \in Requests, RequestTimeout(c)
      PROVE  IdsAreOfThePast' /\ IdsAreUnique' /\ PendingHaveIds'
  <2>1. \A d \in Requests : pending'[d] # NoSock => pending[d] # NoSock
    BY <1>0, <1>5 DEF RequestTimeout, TypeOK
  <2>2. QED
    BY <1>1, <1>5, <2>1 DEF RequestTimeout
<1>6. ASSUME NEW s \in Sock, NEW states \in [Sock -> ReadyStates], RegisterExtension(s, states),
             UNCHANGED run
      PROVE  IdsAreOfThePast' /\ IdsAreUnique' /\ PendingHaveIds'
  <2>1. CASE SendRequest(s, s)
    BY <1>2, <1>6, <2>1 DEF Requests
  <2>2. CASE UNCHANGED callVars
    BY <1>1, <1>6, <2>2 DEF callVars
  <2>3. QED
    BY <1>0, <1>6, <2>1, <2>2, RegisterEffect
<1>7. ASSUME NEW s \in Sock, NEW urlToken \in BOOLEAN, Accept(s, urlToken)
      PROVE  IdsAreOfThePast' /\ IdsAreUnique' /\ PendingHaveIds'
  <2> DEFINE states == [ws EXCEPT ![s] = "open"]
  <2>1. /\ states \in [Sock -> ReadyStates] /\ UNCHANGED run
        /\ UNCHANGED callVars \/ RegisterExtension(s, states)
    BY <1>0, <1>7, AcceptEffect
  <2> HIDE DEF states
  <2>2. CASE UNCHANGED callVars
    BY <1>1, <2>1, <2>2 DEF callVars
  <2>3. QED
    BY <1>6, <2>1, <2>2
<1>8. ASSUME NEW s \in Sock, NEW proof \in {"right", "wrong", "none"}, ReceiveAuth(s, proof)
      PROVE  IdsAreOfThePast' /\ IdsAreUnique' /\ PendingHaveIds'
  <2>1. CASE UNCHANGED callVars /\ UNCHANGED run
    BY <1>1, <2>1 DEF callVars
  <2>2. ws \in [Sock -> ReadyStates]
    BY <1>0 DEF TypeOK
  <2>3. QED
    BY <1>0, <1>6, <1>8, <2>1, <2>2, AuthEffect
<1>9. ASSUME NEW s \in Sock, CloseEvent(s)
      PROVE  IdsAreOfThePast' /\ IdsAreUnique' /\ PendingHaveIds'
  BY <1>1, <1>9 DEF CloseEvent
<1>10. ASSUME NEW m \in answers, ReceiveAnswer(m)
       PROVE  IdsAreOfThePast' /\ IdsAreUnique' /\ PendingHaveIds'
  <2>1. \A d \in Requests : pending'[d] # NoSock => pending[d] # NoSock
    BY <1>0, <1>10 DEF ReceiveAnswer, Matching, TypeOK
  <2>2. QED
    BY <1>1, <1>10, <2>1 DEF ReceiveAnswer
<1>11. CASE Restart
  <2>1. run' = run + 1 /\ seq' = 0 /\ id' = id /\ \A c \in Requests : pending'[c] = NoSock
    BY <1>11 DEF Restart
  <2>2. /\ run \in Nat
        /\ \A c \in Requests : id[c] # NoId => id[c][1] \in Nat /\ id[c][2] \in Nat
    BY <1>0, RunsAssumption DEF TypeOK, Ids
  <2>3. IdsAreOfThePast'
    <3>1. \A c \in Requests : id'[c] # NoId => id'[c][1] < run'
      BY <1>0, <2>1, <2>2 DEF IdsAreOfThePast
    <3>2. QED
      BY <3>1 DEF IdsAreOfThePast
  <2>4. IdsAreUnique' /\ PendingHaveIds'
    BY <1>0, <2>1 DEF IdsAreUnique, PendingHaveIds
  <2>5. QED
    BY <2>3, <2>4
<1>12. CASE UNCHANGED <<run, seq, id, pending>>
  BY <1>1, <1>12
<1>13. QED
  BY <1>3, <1>4, <1>5, <1>7, <1>8, <1>9, <1>10, <1>11, <1>12
     DEF Next, vars, callVars, ExtensionAnswers, AuthTimeout, Shutdown

LEMMA IdInit == Init => IdInv
  BY TypeInit DEF Init, IdInv, IdsAreOfThePast, IdsAreUnique, PendingHaveIds

\* An answer that matches a request is the request's own.
LEMMA MatchingIsOwn ==
  ASSUME IdInv, NEW m \in answers, NEW c \in Matching(m)
  PROVE  c = m.call /\ c \in Requests
<1>1. m.call \in Requests /\ m.via \in Sock /\ m.via # NoSock
  BY InstanceAssumption DEF IdInv, TypeOK
<1>2. QED
  BY <1>1 DEF Matching, IdInv, IdsAreUnique, PendingHaveIds

LEMMA OwnAnswerStep == IdInv /\ OwnAnswer /\ [Next]_vars => OwnAnswer'
<1> SUFFICES ASSUME IdInv, OwnAnswer, [Next]_vars
             PROVE  OwnAnswer'
  OBVIOUS
<1>0. TypeOK
  BY DEF IdInv
<1>1. CASE UNCHANGED result
  BY <1>1 DEF OwnAnswer
<1>2. ASSUME NEW m \in answers, ReceiveAnswer(m), ~ UNCHANGED result
      PROVE  OwnAnswer'
  <2>1. PICK c \in Matching(m) : result' = [result EXCEPT ![c] = m.call]
    BY <1>2 DEF ReceiveAnswer
  <2>2. c = m.call /\ c \in Requests
    BY MatchingIsOwn
  <2>3. \A d \in Requests : result'[d] = IF d = c THEN c ELSE result[d]
    BY <1>0, <2>1, <2>2 DEF TypeOK
  <2>4. QED
    BY <2>3 DEF OwnAnswer
<1>3. QED
  BY <1>1, <1>2
     DEF Next, vars, CallTool, SendThrows, RequestTimeout, ExtensionAnswers, Accept, ReceiveAuth,
         AuthTimeout, CloseEvent, Shutdown, Restart

\* No caller is given the answer to another request.
THEOREM AnswersAreOwn == Spec => []OwnAnswer
<1>1. Init => IdInv /\ OwnAnswer
  BY IdInit DEF Init, OwnAnswer
<1>2. IdInv /\ OwnAnswer /\ [Next]_vars => IdInv' /\ OwnAnswer'
  BY TypeStep, IdStep, OwnAnswerStep DEF IdInv
<1>3. QED
  BY <1>1, <1>2, PTL DEF Spec

-----------------------------------------------------------------------------
(* The daemon implements the abstract request, as far as safety goes.      *)

\* A socket's information request has yet to be made while the socket is not
\* registered.
AskedOnce ==
  \A s \in Sock : ws[s] = "new" \/ (Live(s) /\ s \notin registered) => outcome[s] = "idle"

LEMMA AskedOnceStep == TypeOK /\ PendingCanBeRejected /\ AskedOnce /\ [Next]_vars => AskedOnce'
<1> SUFFICES ASSUME TypeOK, PendingCanBeRejected, AskedOnce, [Next]_vars
             PROVE  AskedOnce'
  OBVIOUS
<1>0. \A s \in Sock : s \in Requests /\ s \notin Calls
  BY InstanceAssumption DEF Requests
\* No socket comes to be new or unregistered, and no request that was not made
\* gets an outcome.
<1>1. ASSUME \A s \in Sock : /\ ws'[s] = "new" => ws[s] = "new"
                             /\ Live(s)' /\ s \notin registered' =>
                                   (ws[s] = "new" \/ Live(s)) /\ s \notin registered
                             /\ outcome[s] = "idle" => outcome'[s] = "idle"
      PROVE  AskedOnce'
  BY <1>1 DEF AskedOnce
<1>2. ASSUME NEW s \in Sock, NEW states \in [Sock -> ReadyStates], RegisterExtension(s, states),
             states[s] # "new",
             \A t \in Sock \ {s} : states[t] = ws[t]
      PROVE  AskedOnce'
  <2>1. /\ \A t \in Sock : ws'[t] = states[t] \/ (states[t] = "open" /\ ws'[t] = "closing")
        /\ registered' = registered \cup {s}
        /\ SendRequest(s, s) \/ UNCHANGED callVars
    BY <1>2, RegisterEffect
  <2>2. \A t \in Sock \ {s} : outcome'[t] = outcome[t]
    BY <1>0, <2>1 DEF SendRequest, callVars, TypeOK
  <2>3. QED
    BY <1>2, <2>1, <2>2 DEF AskedOnce, Live
<1>3. ASSUME NEW c \in Calls, NEW i \in Inst \cup {NoInst}, CallTool(c, i) \/ SendThrows(c, i)
      PROVE  AskedOnce'
  <2>1. UNCHANGED <<ws, registered>>
    BY <1>3 DEF CallTool, SendThrows, sockVars
  <2>2. \A s \in Sock : outcome'[s] = outcome[s]
    BY <1>0, <1>3 DEF CallTool, SendThrows, SendRequest, TypeOK
  <2>3. QED
    BY <1>1, <2>1, <2>2 DEF Live
<1>4. ASSUME NEW c \in Requests, RequestTimeout(c)
      PROVE  AskedOnce'
  <2>1. UNCHANGED <<ws, registered>>
    BY <1>4 DEF RequestTimeout, sockVars
  <2>2. \A d \in Requests : outcome[d] = "idle" => outcome'[d] = "idle"
    BY <1>4 DEF RequestTimeout, PendingCanBeRejected, TypeOK
  <2>3. QED
    BY <1>0, <1>1, <2>1, <2>2 DEF Live
<1>5. ASSUME NEW s \in Sock, NEW urlToken \in BOOLEAN, Accept(s, urlToken)
      PROVE  AskedOnce'
  <2> DEFINE states == [ws EXCEPT ![s] = "open"]
  <2>1. /\ ws[s] = "new" /\ states \in [Sock -> ReadyStates]
        /\ \/ ws' = states /\ UNCHANGED <<registered, callVars>>
           \/ RegisterExtension(s, states)
    BY <1>5, AcceptEffect
  <2>2. states[s] = "open" /\ \A t \in Sock \ {s} : states[t] = ws[t]
    BY DEF TypeOK
  <2> HIDE DEF states
  <2>3. CASE RegisterExtension(s, states)
    BY <1>2, <2>1, <2>2, <2>3
  <2>4. CASE ws' = states /\ UNCHANGED <<registered, callVars>>
    BY <2>1, <2>2, <2>4 DEF AskedOnce, Live, callVars
  <2>5. QED
    BY <2>1, <2>3, <2>4
<1>6. ASSUME NEW s \in Sock, NEW proof \in {"right", "wrong", "none"}, ReceiveAuth(s, proof)
      PROVE  AskedOnce'
  <2>1. /\ Live(s)
        /\ \/ RegisterExtension(s, ws)
           \/ (ws' = Closing({s}) \/ ws' = ws) /\ UNCHANGED <<registered, callVars>>
    BY <1>6, AuthEffect
  <2>2. CASE RegisterExtension(s, ws)
    BY <1>2, <2>1, <2>2 DEF TypeOK, Live
  <2>3. CASE (ws' = Closing({s}) \/ ws' = ws) /\ UNCHANGED <<registered, callVars>>
    <3>1. \A t \in Sock : ws'[t] = ws[t] \/ (ws[t] = "open" /\ ws'[t] = "closing")
      BY <2>3, ClosingEffect
    <3>2. QED
      BY <1>1, <2>3, <3>1 DEF Live, callVars
  <2>4. QED
    BY <2>1, <2>2, <2>3
<1>7. ASSUME NEW s \in Sock, AuthTimeout(s)
      PROVE  AskedOnce'
  <2>1. \A t \in Sock : ws'[t] = ws[t] \/ (ws[t] = "open" /\ ws'[t] = "closing")
    BY <1>7, ClosingEffect DEF AuthTimeout
  <2>2. QED
    BY <1>1, <1>7, <2>1 DEF AuthTimeout, Live, callVars
<1>8. ASSUME NEW s \in Sock, CloseEvent(s)
      PROVE  AskedOnce'
  <2>1. \A t \in Sock : ws'[t] = IF t = s THEN "closed" ELSE ws[t]
    BY <1>8 DEF CloseEvent, TypeOK
  <2>2. registered' = registered \ {s}
    BY <1>8 DEF CloseEvent, Forget
  <2>3. \A d \in Requests : outcome[d] = "idle" => outcome'[d] = "idle"
    BY <1>8, InstanceAssumption DEF CloseEvent, PendingOn, PendingCanBeRejected
  <2>4. QED
    BY <1>0, <1>1, <2>1, <2>2, <2>3 DEF Live
<1>9. ASSUME NEW m \in answers, ReceiveAnswer(m)
      PROVE  AskedOnce'
  <2>1. UNCHANGED <<ws, registered>>
    BY <1>9 DEF ReceiveAnswer, sockVars
  <2>2. m.via # NoSock
    BY InstanceAssumption DEF TypeOK
  <2>3. \A d \in Requests : outcome[d] = "idle" => outcome'[d] = "idle"
    BY <1>9, <2>2 DEF ReceiveAnswer, Matching, PendingCanBeRejected, TypeOK
  <2>4. QED
    BY <1>0, <1>1, <2>1, <2>3 DEF Live
<1>10. CASE Shutdown
  <2>1. {extensions[i] : i \in Registered} \in SUBSET Sock
    BY DEF Registered, TypeOK
  <2>2. \A t \in Sock : ws'[t] = ws[t] \/ (ws[t] = "open" /\ ws'[t] = "closing")
    BY <1>10, <2>1, ClosingEffect DEF Shutdown
  <2>3. QED
    BY <1>1, <1>10, <2>2 DEF Shutdown, Live, callVars
<1>11. CASE Restart
  <2>1. \A s \in Sock : ws'[s] = IF ws[s] = "new" THEN "new" ELSE "closed"
    BY <1>11 DEF Restart
  <2>2. \A d \in Requests : outcome[d] = "idle" => outcome'[d] = "idle"
    BY <1>11 DEF Restart
  <2>3. QED
    BY <1>0, <2>1, <2>2 DEF AskedOnce, Live
<1>12. CASE UNCHANGED <<ws, registered, outcome>>
  BY <1>1, <1>12 DEF Live
<1>13. QED
  BY <1>3, <1>4, <1>5, <1>6, <1>7, <1>8, <1>9, <1>10, <1>11, <1>12
     DEF Next, vars, sockVars, callVars, ExtensionAnswers

CallState == [c \in Requests |-> IF outcome[c] \in Failures THEN "failed" ELSE outcome[c]]

\* The steps of the abstract request, in terms of the daemon's outcomes.
LEMMA MakeStep ==
  ASSUME TypeOK, NEW c \in Requests, outcome[c] = "idle",
         outcome' = [outcome EXCEPT ![c] = "pending"], UNCHANGED result
  PROVE  Call!Next
<1>1. Call!Make(c)
  BY DEF Call!Make, TypeOK, Failures
<1>2. QED
  BY <1>1 DEF Call!Next

LEMMA RefuseStep ==
  ASSUME TypeOK, NEW c \in Requests, outcome[c] = "idle",
         outcome' = [outcome EXCEPT ![c] = "not sent"], UNCHANGED result
  PROVE  Call!Next
<1>1. Call!Refuse(c)
  BY DEF Call!Refuse, TypeOK, Failures
<1>2. QED
  BY <1>1 DEF Call!Next

LEMMA AnswerStep ==
  ASSUME TypeOK, NEW c \in Requests, outcome[c] = "pending",
         outcome' = [outcome EXCEPT ![c] = "answered"], result' = [result EXCEPT ![c] = c]
  PROVE  Call!Next
<1>1. Call!Answer(c)
  BY DEF Call!Answer, TypeOK, Failures
<1>2. QED
  BY <1>1 DEF Call!Next

LEMMA FailStep ==
  ASSUME TypeOK, NEW S \in SUBSET Requests, NEW f \in Failures,
         \A c \in S : outcome[c] = "pending",
         outcome' = [c \in Requests |-> IF c \in S THEN f ELSE outcome[c]],
         UNCHANGED result
  PROVE  Call!Next
<1>1. Call!Fail(S)
  BY DEF Call!Fail, TypeOK, Failures
<1>2. QED
  BY <1>1 DEF Call!Next

LEMMA StutterStep ==
  ASSUME UNCHANGED <<outcome, result>>
  PROVE  UNCHANGED Call!vars
  BY DEF Call!vars

RefinementInv == RegistryInv /\ IdInv /\ AskedOnce

LEMMA RefinementStep == RefinementInv /\ [Next]_vars => [Call!Next]_(Call!vars)
<1> SUFFICES ASSUME RefinementInv, [Next]_vars, ~ UNCHANGED Call!vars
             PROVE  Call!Next
  OBVIOUS
<1>0. TypeOK /\ PendingCanBeRejected /\ AskedOnce /\ IdInv
  BY DEF RefinementInv, RegistryInv
<1>1. ~ UNCHANGED <<outcome, result>>
  BY StutterStep
<1>2. ASSUME NEW c \in Calls, NEW i \in Inst \cup {NoInst}, CallTool(c, i)
      PROVE  Call!Next
  <2>1. c \in Requests /\ outcome[c] = "idle" /\ UNCHANGED result
    BY <1>2 DEF CallTool, Requests
  <2>2. CASE outcome' = [outcome EXCEPT ![c] = "not sent"]
    BY <1>0, <2>1, <2>2, RefuseStep
  <2>3. CASE outcome' = [outcome EXCEPT ![c] = "pending"]
    BY <1>0, <2>1, <2>3, MakeStep
  <2>4. QED
    BY <1>2, <2>2, <2>3 DEF CallTool, SendRequest
<1>3. ASSUME NEW c \in Calls, NEW i \in Inst \cup {NoInst}, SendThrows(c, i)
      PROVE  Call!Next
  BY <1>0, <1>3, RefuseStep DEF SendThrows, Requests
<1>4. ASSUME NEW c \in Requests, RequestTimeout(c)
      PROVE  Call!Next
  <2>1. outcome' = [d \in Requests |-> IF d \in {c} THEN "timeout" ELSE outcome[d]]
    BY <1>0, <1>4 DEF RequestTimeout, TypeOK
  <2>2. outcome[c] = "pending" /\ UNCHANGED result
    BY <1>0, <1>4 DEF RequestTimeout, PendingCanBeRejected
  <2>3. {c} \in SUBSET Requests /\ "timeout" \in Failures
    BY DEF Failures
  <2>4. QED
    BY <1>0, <2>1, <2>2, <2>3, FailStep
\* A registration makes the information request of a socket that had not made it.
<1>5. ASSUME NEW s \in Sock, NEW states \in [Sock -> ReadyStates], RegisterExtension(s, states),
             outcome[s] = "idle", UNCHANGED result
      PROVE  Call!Next
  <2>1. SendRequest(s, s) \/ UNCHANGED callVars
    BY <1>0, <1>5, RegisterEffect
  <2>2. ~ UNCHANGED callVars
    BY <1>1, <1>5 DEF callVars
  <2>3. QED
    BY <1>0, <1>5, <2>1, <2>2, MakeStep DEF SendRequest, Requests
<1>6. ASSUME NEW s \in Sock, NEW urlToken \in BOOLEAN, Accept(s, urlToken)
      PROVE  Call!Next
  <2> DEFINE states == [ws EXCEPT ![s] = "open"]
  <2>1. /\ ws[s] = "new" /\ states \in [Sock -> ReadyStates] /\ UNCHANGED result
        /\ UNCHANGED callVars \/ RegisterExtension(s, states)
    BY <1>0, <1>6, AcceptEffect
  <2> HIDE DEF states
  <2>2. outcome[s] = "idle"
    BY <1>0, <2>1 DEF AskedOnce
  <2>3. ~ UNCHANGED callVars
    BY <1>1, <2>1 DEF callVars
  <2>4. QED
    BY <1>5, <2>1, <2>2, <2>3
<1>7. ASSUME NEW s \in Sock, NEW proof \in {"right", "wrong", "none"}, ReceiveAuth(s, proof)
      PROVE  Call!Next
  <2>1. /\ Live(s) /\ UNCHANGED result
        /\ UNCHANGED callVars \/ (RegisterExtension(s, ws) /\ s \notin registered)
    BY <1>0, <1>7, AuthEffect
  <2>2. ~ UNCHANGED callVars
    BY <1>1, <2>1 DEF callVars
  <2>3. outcome[s] = "idle" /\ ws \in [Sock -> ReadyStates]
    BY <1>0, <2>1, <2>2 DEF AskedOnce, TypeOK
  <2>4. QED
    BY <1>5, <2>1, <2>2, <2>3
<1>8. ASSUME NEW s \in Sock, CloseEvent(s)
      PROVE  Call!Next
  <2>1. /\ outcome' = [c \in Requests |-> IF c \in PendingOn(s) THEN "disconnected" ELSE outcome[c]]
        /\ UNCHANGED result
    BY <1>8 DEF CloseEvent
  <2>2. \A c \in PendingOn(s) : outcome[c] = "pending"
    BY <1>0, InstanceAssumption DEF PendingOn, PendingCanBeRejected
  <2>3. PendingOn(s) \in SUBSET Requests /\ "disconnected" \in Failures
    BY DEF PendingOn, Failures
  <2>4. QED
    BY <1>0, <2>1, <2>2, <2>3, FailStep
<1>9. ASSUME NEW m \in answers, ReceiveAnswer(m)
      PROVE  Call!Next
  <2>1. PICK c \in Matching(m) : /\ outcome' = [outcome EXCEPT ![c] = "answered"]
                                 /\ result' = [result EXCEPT ![c] = m.call]
    BY <1>1, <1>9 DEF ReceiveAnswer
  <2>2. c = m.call /\ c \in Requests
    BY <1>0, MatchingIsOwn
  <2>3. outcome[c] = "pending"
    BY <1>0, <2>2, InstanceAssumption DEF Matching, PendingCanBeRejected, TypeOK
  <2>4. QED
    BY <1>0, <2>1, <2>2, <2>3, AnswerStep
<1>10. CASE Restart
  <2> DEFINE S == {c \in Requests : outcome[c] = "pending"}
  <2>1. S \in SUBSET Requests /\ "lost" \in Failures /\ \A c \in S : outcome[c] = "pending"
    BY DEF Failures
  <2>2. /\ outcome' = [c \in Requests |-> IF c \in S THEN "lost" ELSE outcome[c]]
        /\ UNCHANGED result
    BY <1>10 DEF Restart
  <2> HIDE DEF S
  <2>3. QED
    BY <1>0, <2>1, <2>2, FailStep
<1>11. QED
  BY <1>1, <1>2, <1>3, <1>4, <1>6, <1>7, <1>8, <1>9, <1>10
     DEF Next, vars, callVars, ExtensionAnswers, AuthTimeout, Shutdown

LEMMA RefinementInit == Init => RefinementInv /\ Call!Init
<1> SUFFICES ASSUME Init
             PROVE  RefinementInv /\ Call!Init
  OBVIOUS
<1>1. AskedOnce
  BY InstanceAssumption DEF Init, AskedOnce, Requests
<1>2. Call!Init
  BY DEF Init, Call!Init, Failures
<1>3. QED
  BY <1>1, <1>2, RegistryInit, IdInit DEF RefinementInv

\* Whatever happens to sockets and processes, a request is decided once, and an
\* answer is its own: the safety part of ImplementsRpc.
THEOREM ImplementsRpcSafety == Spec => Call!Safety
<1>1. RefinementInv /\ [Next]_vars => RefinementInv'
  BY TypeStep, RegistryStep, IdStep, AskedOnceStep DEF RefinementInv, RegistryInv, IdInv
<1>2. QED
  BY RefinementInit, RefinementStep, <1>1, PTL DEF Spec, Call!Safety
=============================================================================
