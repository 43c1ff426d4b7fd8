---------------------------- MODULE BridgeDaemon ----------------------------
(***************************************************************************)
(* The bridge daemon between its tool handlers and the extensions          *)
(* (bridge-daemon/index.ts): the sockets of the editor instances, the map  *)
(* of registered extensions, the map of pending requests, their timers,    *)
(* the auth policy that keeps a socket in quarantine, shutdown and restart.*)
(*                                                                         *)
(* An instance reconnects on a new socket with the same instanceId, often  *)
(* before the daemon has seen the old one close; an extension answers on   *)
(* whatever socket it has when the answer is ready (ws-client.ts buffers   *)
(* answers while it has none), so an answer can arrive on a socket other   *)
(* than the one its request went out on, or in a later run of the daemon.  *)
(*                                                                         *)
(* A socket is used once, and belongs to one instance.  The request that   *)
(* the registration of a socket makes (instance.getInfo) is named by the   *)
(* socket, the requests that tools make by the elements of Calls.          *)
(***************************************************************************)
EXTENDS Naturals

CONSTANTS
  Inst,          \* editor instances
  Sock,          \* sockets
  InstOf,        \* the instanceId each socket connects with
  Calls,         \* requests of tools
  NoSock,        \* "undefined"
  NoInst,        \* a tool call without instance_id
  NoRequest,     \* no answer
  MaxRuns,       \* daemon processes in one behaviour (bound)
  AuthRequired   \* EDA_WS_AUTH=require

Requests == Calls \cup Sock

ASSUME InstanceAssumption ==
  /\ InstOf \in [Sock -> Inst]
  /\ NoSock \notin Sock
  /\ NoInst \notin Inst
  /\ NoRequest \notin Requests
  /\ Calls \cap Sock = {}
ASSUME RunsAssumption == MaxRuns \in Nat \ {0}
ASSUME AuthRequiredAssumption == AuthRequired \in BOOLEAN

VARIABLES
  run,         \* number of the daemon process
  seq,         \* its request counter
  stopping,    \* shutdown() has begun
  ws,          \* readyState of each socket, "new" before it connects
  authed,      \* sockets that proved the token
  answered,    \* sockets whose auth answer was seen
  registered,  \* sockets that have been registered (the handler's flag)
  extensions,  \* instanceId -> socket
  id,          \* the id each request went out with: <<run's nonce, number>>
  pending,     \* the socket of each pending request
  outcome,     \* what each request came to
  result,      \* the request whose answer each request was given
  holder,      \* the instance that has each request and has yet to answer it
  answers      \* answers under way, each on a socket

sockVars == <<ws, authed, answered, registered>>
callVars == <<seq, id, pending, outcome, holder>>
vars == <<run, stopping, sockVars, extensions, callVars, result, answers>>

NoId == <<0, 0>>

Failures == {"timeout", "disconnected", "not sent", "lost"}
Outcomes == {"idle", "pending", "answered"} \cup Failures

ReadyStates == {"new", "open", "closing", "closed"}

Live(s) == ws[s] \in {"open", "closing"}

Registered == {i \in Inst : extensions[i] # NoSock}

Closing(S) == [s \in Sock |-> IF s \in S /\ ws[s] = "open" THEN "closing" ELSE ws[s]]

-----------------------------------------------------------------------------
(* sendToExtensionRaw and resolveExtension.                                *)

\* createRequestIdGenerator: the nonce of this process and a counter.
BareId == <<0, seq + 1>>

NewId == <<run, seq + 1>>

SendRequest(c, s) ==
  /\ seq' = seq + 1
  /\ id' = [id EXCEPT ![c] = NewId]
  /\ pending' = [pending EXCEPT ![c] = s]
  /\ outcome' = [outcome EXCEPT ![c] = "pending"]
  /\ holder' = [holder EXCEPT ![c] = InstOf[s]]

\* The sockets a call for instance i resolves to: at most one.
Resolve(i) ==
  {s \in Sock : /\ ws[s] = "open"
                /\ IF i = NoInst THEN \E j \in Inst : Registered = {j} /\ extensions[j] = s
                                 ELSE extensions[i] = s}

\* A handler of several calls goes on while the process shuts down.
CallTool(c, i) ==
  /\ outcome[c] = "idle"
  /\ IF Resolve(i) = {}
     THEN /\ outcome' = [outcome EXCEPT ![c] = "not sent"]
          /\ UNCHANGED <<seq, id, pending, holder>>
     ELSE \E s \in Resolve(i) : SendRequest(c, s)
  /\ UNCHANGED <<run, stopping, sockVars, extensions, result, answers>>

\* ws.send throws: the timer and the map entry go, the counter has moved.
SendThrows(c, i) ==
  /\ outcome[c] = "idle"
  /\ Resolve(i) # {}
  /\ seq' = seq + 1
  /\ id' = [id EXCEPT ![c] = NewId]
  /\ outcome' = [outcome EXCEPT ![c] = "not sent"]
  /\ UNCHANGED <<run, stopping, sockVars, extensions, pending, holder, result, answers>>

RequestTimeoutKeepsEntry(c) ==
  /\ pending[c] # NoSock
  /\ outcome' = [outcome EXCEPT ![c] = "timeout"]
  /\ UNCHANGED <<run, seq, stopping, sockVars, extensions, id, pending, holder, result, answers>>

RequestTimeout(c) ==
  /\ pending[c] # NoSock
  /\ pending' = [pending EXCEPT ![c] = NoSock]
  /\ outcome' = [outcome EXCEPT ![c] = "timeout"]
  /\ UNCHANGED <<run, seq, stopping, sockVars, extensions, id, holder, result, answers>>

-----------------------------------------------------------------------------
(* Sockets: connection, authentication, registration, close.               *)

\* registerExtension: replace and close an older socket of the instance, and
\* ask the new one for its information.
RegisterExtension(s, states) ==
  LET old == extensions[InstOf[s]] IN
  /\ ws' = IF old # NoSock /\ states[old] = "open"
           THEN [states EXCEPT ![old] = "closing"] ELSE states
  /\ extensions' = [extensions EXCEPT ![InstOf[s]] = s]
  /\ registered' = registered \cup {s}
  /\ IF states[s] = "open"
     THEN SendRequest(s, s)
     ELSE UNCHANGED callVars

QuarantinesNobody(urlToken) == FALSE

Quarantines(urlToken) == AuthRequired /\ ~urlToken

\* The connection handler; a right token in the URL authenticates at once.
Accept(s, urlToken) ==
  /\ ~stopping
  /\ ws[s] = "new"
  /\ LET states == [ws EXCEPT ![s] = "open"] IN
     IF Quarantines(urlToken)
     THEN ws' = states /\ UNCHANGED <<extensions, registered, callVars>>
     ELSE RegisterExtension(s, states)
  /\ authed' = IF urlToken THEN authed \cup {s} ELSE authed
  /\ UNCHANGED <<run, stopping, answered, result, answers>>

\* The first auth answer on a socket.  The handler does not look at readyState,
\* so it also acts on an answer that arrives while the socket is closing.
ReceiveAuth(s, proof) ==
  /\ Live(s)
  /\ s \notin authed \cup answered
  /\ answered' = answered \cup {s}
  /\ authed' = IF proof = "right" THEN authed \cup {s} ELSE authed
  /\ CASE proof = "right" /\ s \notin registered -> RegisterExtension(s, ws)
       [] proof = "wrong" \/ (proof = "none" /\ AuthRequired) ->
            ws' = Closing({s}) /\ UNCHANGED <<extensions, registered, callVars>>
       [] OTHER -> UNCHANGED <<ws, extensions, registered, callVars>>
  /\ UNCHANGED <<run, stopping, result, answers>>

AuthTimeout(s) ==
  /\ AuthRequired
  /\ s \notin authed
  /\ ws[s] = "open"
  /\ ws' = Closing({s})
  /\ UNCHANGED <<run, stopping, authed, answered, registered, extensions, callVars, result, answers>>

\* The variables of a connection's handler go with the socket.
Forget(S) ==
  /\ authed' = authed \ S
  /\ answered' = answered \ S
  /\ registered' = registered \ S

\* The close event: only this socket's entry and this socket's requests go.
PendingOnRegistered(s) == {c \in Requests : pending[c] = s /\ extensions[InstOf[s]] = s}

PendingOn(s) == {c \in Requests : pending[c] = s}

Unregister(s) == [i \in Inst |-> IF extensions[i] = s THEN NoSock ELSE extensions[i]]

CloseEvent(s) ==
  /\ Live(s)
  /\ ws' = [ws EXCEPT ![s] = "closed"]
  /\ extensions' = Unregister(s)
  /\ pending' = [c \in Requests |-> IF c \in PendingOn(s) THEN NoSock ELSE pending[c]]
  /\ outcome' = [c \in Requests |-> IF c \in PendingOn(s) THEN "disconnected" ELSE outcome[c]]
  /\ answers' = {m \in answers : m.via # s}
  /\ Forget({s})
  /\ UNCHANGED <<run, seq, stopping, id, holder, result>>

-----------------------------------------------------------------------------
(* Answers.                                                                *)

\* The instance that has the request answers on a socket it has now.
ExtensionAnswers(c, s) ==
  /\ holder[c] = InstOf[s]
  /\ ws[s] = "open"
  /\ holder' = [holder EXCEPT ![c] = NoInst]
  /\ answers' = answers \cup {[call |-> c, via |-> s]}
  /\ UNCHANGED <<run, stopping, sockVars, extensions, seq, id, pending, outcome, result>>

\* The requests that answer m decides: those with its id that went out on the
\* socket it came on.
Matching(m) == {c \in Requests : id[c] = id[m.call] /\ pending[c] = m.via}

\* handleExtensionMessage; a quarantined socket's message is dropped before.
ReceiveAnswer(m) ==
  /\ Live(m.via)
  /\ answers' = answers \ {m}
  /\ IF m.via \in authed \cup registered /\ Matching(m) # {}
     THEN \E c \in Matching(m) :
            /\ pending' = [pending EXCEPT ![c] = NoSock]
            /\ outcome' = [outcome EXCEPT ![c] = "answered"]
            /\ result' = [result EXCEPT ![c] = m.call]
     ELSE UNCHANGED <<pending, outcome, result>>
  /\ UNCHANGED <<run, stopping, sockVars, extensions, seq, id, holder>>

-----------------------------------------------------------------------------
(* The process.                                                            *)

\* shutdown(): a restart request, a signal, the idle timer.
Shutdown ==
  /\ ~stopping
  /\ stopping' = TRUE
  /\ ws' = Closing({extensions[i] : i \in Registered})
  /\ extensions' = [i \in Inst |-> NoSock]
  /\ UNCHANGED <<run, authed, answered, registered, callVars, result, answers>>

\* The process ends, by a crash or because shutdown is over, and the next one
\* starts: what was in memory is gone, and so are the sockets.
Restart ==
  /\ run < MaxRuns
  /\ run' = run + 1
  /\ seq' = 0
  /\ stopping' = FALSE
  /\ ws' = [s \in Sock |-> IF ws[s] = "new" THEN "new" ELSE "closed"]
  /\ extensions' = [i \in Inst |-> NoSock]
  /\ pending' = [c \in Requests |-> NoSock]
  /\ outcome' = [c \in Requests |-> IF outcome[c] = "pending" THEN "lost" ELSE outcome[c]]
  /\ answers' = {}
  /\ Forget(Sock)
  /\ UNCHANGED <<id, holder, result>>

-----------------------------------------------------------------------------
Init ==
  /\ run = 1 /\ seq = 0 /\ stopping = FALSE
  /\ ws = [s \in Sock |-> "new"]
  /\ authed = {} /\ answered = {} /\ registered = {}
  /\ extensions = [i \in Inst |-> NoSock]
  /\ id = [c \in Requests |-> NoId]
  /\ pending = [c \in Requests |-> NoSock]
  /\ outcome = [c \in Requests |-> "idle"]
  /\ result = [c \in Requests |-> NoRequest]
  /\ holder = [c \in Requests |-> NoInst]
  /\ answers = {}

Next ==
  \/ \E c \in Calls, i \in Inst \cup {NoInst} : CallTool(c, i) \/ SendThrows(c, i)
  \/ \E c \in Requests : RequestTimeout(c) \/ \E s \in Sock : ExtensionAnswers(c, s)
  \/ \E s \in Sock :
       \/ \E urlToken \in BOOLEAN : Accept(s, urlToken)
       \/ \E proof \in {"right", "wrong", "none"} : ReceiveAuth(s, proof)
       \/ AuthTimeout(s)
       \/ CloseEvent(s)
  \/ \E m \in answers : ReceiveAnswer(m)
  \/ Shutdown
  \/ Restart

Spec == Init /\ [][Next]_vars

\* A request's timer fires, as long as the process lives.  Extensions, sockets
\* and auth answers are under no obligation.
Fairness == \A c \in Requests : WF_vars(RequestTimeout(c))

FairSpec == Spec /\ Fairness
-----------------------------------------------------------------------------
Ids == {NoId} \cup ((1..MaxRuns) \X (Nat \ {0}))

TypeOK ==
  /\ run \in 1..MaxRuns
  /\ seq \in Nat
  /\ stopping \in BOOLEAN
  /\ ws \in [Sock -> ReadyStates]
  /\ authed \subseteq Sock
  /\ answered \subseteq Sock
  /\ registered \subseteq Sock
  /\ extensions \in [Inst -> Sock \cup {NoSock}]
  /\ id \in [Requests -> Ids]
  /\ pending \in [Requests -> Sock \cup {NoSock}]
  /\ outcome \in [Requests -> Outcomes]
  /\ result \in [Requests -> Requests \cup {NoRequest}]
  /\ holder \in [Requests -> Inst \cup {NoInst}]
  /\ answers \subseteq [call : Requests, via : Sock]

\* No caller is given the answer to another request, whichever socket it comes
\* on and even if the daemon that asked is gone (handleExtensionMessage,
\* createRequestIdGenerator).
OwnAnswer == \A c \in Requests : result[c] \in {c, NoRequest}

\* A request whose promise is not settled is in the pending map, on a socket
\* whose close event has yet to come, so that the event can still reject it:
\* none is left to its timeout by a reconnect or a close (ws.on('close')).
PendingCanBeRejected ==
  \A c \in Requests :
    /\ outcome[c] = "pending" <=> pending[c] # NoSock
    /\ pending[c] # NoSock => Live(pending[c])

\* The map of extensions holds only sockets of the right instance that have not
\* closed and, in require mode, have proved the token; a pending request is on
\* such a socket too, so quarantine lets none through (registerExtension).
RegistryIsTrue ==
  /\ \A i \in Registered :
       /\ InstOf[extensions[i]] = i
       /\ Live(extensions[i])
       /\ AuthRequired => extensions[i] \in authed
  /\ \A c \in Requests :
       AuthRequired /\ pending[c] # NoSock => pending[c] \in authed

\* Only the end of a socket, or of the daemon, takes its instance off the map:
\* the late close of the socket it replaced does not (ws.on('close')).
RegisteredUntilItCloses ==
  [][\A i \in Registered :
       extensions'[i] = NoSock => stopping' \/ run' # run \/ ws'[extensions[i]] = "closed"]_vars

\* The daemon implements the abstract request.
Call == INSTANCE Rpc WITH
  Calls  <- Requests,
  None   <- NoRequest,
  state  <- [c \in Requests |-> IF outcome[c] \in Failures THEN "failed" ELSE outcome[c]],
  result <- result

ImplementsRpc == Call!Spec
=============================================================================
