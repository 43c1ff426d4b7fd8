----------------------------- MODULE ProxyClient ----------------------------
(***************************************************************************)
(* The MCP server's side of the daemon connection                          *)
(* (mcp-server/proxy-client.ts) and the tool list it keeps for the agent   *)
(* (mcp-server/index.ts).  The daemon may die and be respawned between any *)
(* two steps.  A tool call may be destructive: it is retried only when it  *)
(* certainly was not sent.                                                 *)
(*                                                                         *)
(* A socket of the proxy is named by the run of the daemon it leads to: a  *)
(* connection ends only when that process or the proxy ends.  A run may be *)
(* replaced while it is alive (its socket file was unlinked).  Promise     *)
(* continuations run before the next event, so what follows `await         *)
(* this.connect()' in every waiter is part of the step that connects.      *)
(*                                                                         *)
(* `connected' and `sock' are assigned together: both are sock # NoSock.   *)
(* The process exits right after stop() and after a failed start.          *)
(***************************************************************************)
EXTENDS Integers, FiniteSets

CONSTANTS
  Calls,     \* calls of callTool
  Names,     \* tool names
  ToolsOf,   \* the tools each run of the daemon lists
  MaxRuns    \* runs of the daemon in one behaviour (bound)

ASSUME CallsAssumption == IsFiniteSet(Calls)
ASSUME MaxRunsAssumption == MaxRuns \in Nat \ {0}
ASSUME ToolsAssumption == ToolsOf \in [1 .. MaxRuns -> SUBSET Names]

Runs == 1 .. MaxRuns
NoSock == 0

\* A call_tool message: its call, which attempt it is, the socket it went out on.
Requests == [call : Calls, try : {1, 2}, on : Runs]
Request(c, k, n) == [call |-> c, try |-> k, on |-> n]

VARIABLES
  phase,        \* of the process: "connecting", "listing", "serving", "exited"
  sock,         \* this.sock
  connecting,   \* connectPromise: "no", "ensuring" a daemon, "opening" a socket
  timers,       \* reconnect timers that are running
  redialling,   \* reconnect timers that fired and await connect()
  buffer,       \* the socket the unfinished line in this.buffer came from
  call,         \* how far each tool call is
  pendingCall,  \* this.pendingCall
  pendingList,  \* this.pendingList: how many first attempts, how many second
  relisting,    \* listTools calls that await connect() for their second attempt
  registered,   \* names of registeredTools
  run, up,      \* the last run of the daemon, the runs that are alive
  slow,         \* runs on which a list_tools timed out
  wire,         \* call_tool messages written and not read by the daemon
  running,      \* tool calls the daemon is executing
  executed,     \* tool calls some daemon began to execute
  inbox,        \* answers of tool calls on the way
  listed        \* list_tools messages whose answer has not been read

connVars == <<phase, sock, connecting, timers, redialling, buffer>>
listVars == <<pendingList, relisting, registered, slow, listed>>
callVars == <<call, pendingCall, wire>>
daemonVars == <<run, up, running, executed, inbox>>
vars == <<connVars, listVars, callVars, daemonVars>>

NoLists == [k \in {1, 2} |-> 0]

Settled == {"answered", "uncertain", "timeout", "unreachable"}

\* Calls that await connect() for their second attempt.
Waiting == {c \in Calls : call[c] = "connecting"}

Alive == phase # "exited"

TypeOK ==
  /\ phase \in {"connecting", "listing", "serving", "exited"}
  /\ sock \in Runs \cup {NoSock}
  /\ connecting \in {"no", "ensuring", "opening"}
  /\ timers \in Nat /\ redialling \in Nat
  /\ buffer \in Runs \cup {NoSock}
  /\ call \in [Calls -> {"idle", "connecting", "open"} \cup Settled]
  /\ pendingCall \in SUBSET Requests
  /\ pendingList \in [{1, 2} -> Nat]
  /\ relisting \in Nat
  /\ registered \in SUBSET Names
  /\ run \in Runs \cup {0}
  /\ up \in SUBSET Runs
  /\ slow \in SUBSET Runs
  /\ wire \in SUBSET Requests
  /\ running \in SUBSET Requests
  /\ executed \in SUBSET Requests
  /\ inbox \in SUBSET Requests
  /\ listed \in Nat

Init ==
  /\ phase = "connecting" /\ connecting = "ensuring"
  /\ sock = NoSock /\ buffer = NoSock
  /\ timers = 0 /\ redialling = 0
  /\ call = [c \in Calls |-> "idle"] /\ pendingCall = {}
  /\ pendingList = NoLists /\ relisting = 0 /\ registered = {}
  /\ run = 0 /\ up = {} /\ slow = {}
  /\ wire = {} /\ running = {} /\ executed = {} /\ inbox = {} /\ listed = 0

-----------------------------------------------------------------------------
(* Sending and connecting.                                                 *)

\* sock.write: a message to a daemon that has died is lost.
Write(S) == wire' = wire \cup {r \in S : r.on \in up}

\* connect(), when not connected: joins connectPromise or starts one.
Connect == connecting' = IF connecting = "no" THEN "ensuring" ELSE connecting

\* callTool: the first attempt goes out, or throws "not sent" and connects.
CallTool(c) ==
  /\ phase = "serving"
  /\ call[c] = "idle"
  /\ \/ /\ sock # NoSock
        /\ call' = [call EXCEPT ![c] = "open"]
        /\ pendingCall' = pendingCall \cup {Request(c, 1, sock)}
        /\ Write({Request(c, 1, sock)})
        /\ UNCHANGED connecting
     \/ /\ sock = NoSock
        /\ call' = [call EXCEPT ![c] = "connecting"]
        /\ Connect
        /\ UNCHANGED <<pendingCall, wire>>
  /\ UNCHANGED <<phase, sock, timers, redialling, buffer, listVars, daemonVars>>

\* ensureDaemonRunning: a probe reached the daemon.
EnsureRunning ==
  /\ Alive
  /\ connecting = "ensuring"
  /\ run \in up
  /\ connecting' = "opening"
  /\ UNCHANGED <<phase, sock, timers, redialling, buffer, listVars, callVars, daemonVars>>

\* Listings that start when connect() succeeds: the process' first one, and
\* one for each waiter that then calls the listener, once there is one.
FirstListings ==
  IF phase = "serving" THEN redialling + relisting + Cardinality(Waiting)
    ELSE IF phase = "connecting" THEN 1 ELSE 0

\* onConnect, and what everyone who awaited connect() then does.
OpenSocket ==
  /\ Alive
  /\ connecting = "opening"
  /\ run \in up
  /\ sock' = run
  /\ connecting' = "no"
  /\ phase' = IF phase = "connecting" THEN "listing" ELSE phase
  /\ redialling' = 0
  /\ LET again == {Request(c, 2, run) : c \in Waiting}
     IN  /\ pendingCall' = pendingCall \cup again
         /\ Write(again)
  /\ call' = [c \in Calls |-> IF c \in Waiting THEN "open" ELSE call[c]]
  /\ pendingList' = [k \in {1, 2} |-> IF k = 1 THEN FirstListings ELSE relisting]
  /\ listed' = FirstListings + relisting
  /\ relisting' = 0
  /\ UNCHANGED <<timers, buffer, registered, slow, daemonVars>>

\* Not the code: a failed attempt does not schedule the next.
NotRescheduled == timers

\* The catch of the timer's callback: each chain of attempts goes on.
Rescheduled == timers + redialling

\* The daemon did not come up within 3 s, or the socket did not open.  A
\* start that cannot reach or list the daemon ends the process.
ConnectFails ==
  /\ Alive
  /\ connecting # "no"
  /\ connecting' = "no"
  /\ phase' = IF phase = "connecting" \/ (phase = "listing" /\ relisting > 0)
                THEN "exited" ELSE phase
  /\ timers' = Rescheduled
  /\ redialling' = 0
  /\ call' = [c \in Calls |-> IF c \in Waiting THEN "unreachable" ELSE call[c]]
  /\ relisting' = 0
  /\ UNCHANGED <<sock, buffer, pendingCall, wire, pendingList, registered, slow, listed, daemonVars>>

\* The timer of scheduleReconnect.
TimerFires ==
  /\ Alive
  /\ timers > 0
  /\ timers' = timers - 1
  /\ \/ /\ sock # NoSock
        /\ UNCHANGED <<redialling, connecting>>
     \/ /\ sock = NoSock
        /\ redialling' = redialling + 1
        /\ Connect
  /\ UNCHANGED <<phase, sock, buffer, listVars, callVars, daemonVars>>

\* Not the code: a request that was sent counts as one that was not.
RetriedAfterDisconnect(c) ==
  IF \E r \in pendingCall : r.call = c THEN "connecting" ELSE call[c]

\* Not the code: the map is cleared and the promises are left.
LeftAfterDisconnect(c) == call[c]

\* The rejection of a pending call_tool says requestSent = true.
AfterDisconnect(c) ==
  IF \E r \in pendingCall : r.call = c THEN "uncertain" ELSE call[c]

BufferAfterDisconnect == NoSock

\* handleDisconnect: every pending request fails as "sent".  A call reports
\* the uncertainty, a first listing connects again, a second one fails.
Disconnect ==
  /\ Alive
  /\ sock # NoSock /\ sock \notin up
  /\ sock' = NoSock
  /\ buffer' = BufferAfterDisconnect
  /\ call' = [c \in Calls |-> AfterDisconnect(c)]
  /\ pendingCall' = {}
  /\ relisting' = pendingList[1]
  /\ pendingList' = NoLists
  /\ phase' = IF phase = "listing" /\ pendingList[2] > 0 THEN "exited" ELSE phase
  /\ timers' = timers + 1
  /\ connecting' = IF pendingList[1] > 0 THEN "ensuring" ELSE connecting
  /\ inbox' = {} /\ listed' = 0
  /\ UNCHANGED <<redialling, wire, registered, slow, run, up, running, executed>>

-----------------------------------------------------------------------------
(* Answers and timeouts.                                                   *)

\* A chunk ends in the middle of a line.
PartialLine ==
  /\ Alive
  /\ sock # NoSock
  /\ buffer = NoSock
  /\ inbox # {} \/ listed > 0
  /\ buffer' = sock
  /\ UNCHANGED <<phase, sock, connecting, timers, redialling, listVars, callVars, daemonVars>>

\* A line that begins with what an older socket left does not parse.
LineParses == buffer \in {NoSock, sock}

\* handleData, handleMessage: 'call_tool_result'.
CallAnswer(r) ==
  /\ Alive
  /\ r \in inbox
  /\ inbox' = inbox \ {r}
  /\ buffer' = NoSock
  /\ IF LineParses /\ r \in pendingCall
       THEN /\ pendingCall' = pendingCall \ {r}
            /\ call' = [call EXCEPT ![r.call] = "answered"]
       ELSE UNCHANGED <<pendingCall, call>>
  /\ UNCHANGED <<phase, sock, connecting, timers, redialling, listVars, wire, run, up, running, executed>>

\* Not the code: tools are added and never removed.
OnlyAdded(tools) == registered \cup tools

\* syncToolList.
Synced(tools) == (registered \cap tools) \cup {d \in tools : d \notin registered}

IsPending(k) == pendingList[k] > 0

\* handleMessage: 'list_tools_result'.  The answer of a listing that timed
\* out is dropped; the first one completes the start of the process.
ListAnswer ==
  /\ Alive
  /\ listed > 0
  /\ listed' = listed - 1
  /\ buffer' = NoSock
  /\ \/ /\ LineParses
        /\ \E k \in {1, 2} :
             /\ IsPending(k)
             /\ pendingList' = [pendingList EXCEPT ![k] = @ - 1]
        /\ registered' = Synced(ToolsOf[sock])
        /\ phase' = IF phase = "listing" THEN "serving" ELSE phase
     \/ /\ LineParses => listed > pendingList[1] + pendingList[2]
        /\ UNCHANGED <<pendingList, registered, phase>>
  /\ UNCHANGED <<sock, connecting, timers, redialling, relisting, slow, callVars, daemonVars>>

\* Not the code: the timer leaves its entry in the map.
CallTimeoutKeepsEntry(r) ==
  /\ Alive
  /\ r \in pendingCall
  /\ call' = [call EXCEPT ![r.call] = "timeout"]
  /\ UNCHANGED <<connVars, listVars, pendingCall, wire, daemonVars>>

CallTimeout(r) ==
  /\ Alive
  /\ r \in pendingCall
  /\ pendingCall' = pendingCall \ {r}
  /\ call' = [call EXCEPT ![r.call] = "timeout"]
  /\ UNCHANGED <<connVars, listVars, wire, daemonVars>>

ListTimeout ==
  /\ Alive
  /\ \E k \in {1, 2} :
       /\ IsPending(k)
       /\ pendingList' = [pendingList EXCEPT ![k] = @ - 1]
  /\ slow' = slow \cup {sock}
  /\ phase' = IF phase = "listing" THEN "exited" ELSE phase
  /\ UNCHANGED <<sock, connecting, timers, redialling, buffer, relisting, registered, listed, callVars, daemonVars>>

\* stop(), then process.exit.
Stop ==
  /\ Alive
  /\ phase' = "exited"
  /\ sock' = NoSock
  /\ UNCHANGED <<connecting, timers, redialling, buffer, listVars, callVars, daemonVars>>

-----------------------------------------------------------------------------
(* The daemon at the other end (startUdsServer, handleClientMessage).      *)

StartDaemon ==
  /\ run < MaxRuns
  /\ run' = run + 1
  /\ up' = up \cup {run + 1}
  /\ UNCHANGED <<connVars, listVars, callVars, running, executed, inbox>>

\* Answers it had already written may still arrive.
DaemonDies(n) ==
  /\ n \in up
  /\ up' = up \ {n}
  /\ wire' = {r \in wire : r.on # n}
  /\ running' = {r \in running : r.on # n}
  /\ listed' \in IF n = sock THEN 0 .. listed ELSE {listed}
  /\ UNCHANGED <<connVars, call, pendingCall, pendingList, relisting, registered, slow, run, executed, inbox>>

\* handleClientMessage: 'call_tool'.
Dispatch(r) ==
  /\ r \in wire
  /\ wire' = wire \ {r}
  /\ running' = running \cup {r}
  /\ executed' = executed \cup {r}
  /\ UNCHANGED <<connVars, listVars, call, pendingCall, run, up, inbox>>

\* sendToClient, to a client that may be gone.
DaemonAnswers(r) ==
  /\ r \in running
  /\ running' = running \ {r}
  /\ inbox' = IF sock = r.on THEN inbox \cup {r} ELSE inbox
  /\ UNCHANGED <<connVars, listVars, callVars, run, up, executed>>

-----------------------------------------------------------------------------
Next ==
  \/ \E c \in Calls : CallTool(c)
  \/ EnsureRunning \/ OpenSocket \/ ConnectFails
  \/ TimerFires \/ Disconnect
  \/ PartialLine \/ ListAnswer \/ ListTimeout \/ Stop
  \/ \E r \in inbox : CallAnswer(r)
  \/ \E r \in pendingCall : CallTimeout(r)
  \/ StartDaemon
  \/ \E n \in up : DaemonDies(n)
  \/ \E r \in wire : Dispatch(r)
  \/ \E r \in running : DaemonAnswers(r)

\* The event loop delivers what has happened: a connection that died, a
\* timer, an answer.  A daemon that stays up is reached by some attempt.
Fairness ==
  /\ WF_vars(Disconnect)
  /\ WF_vars(TimerFires)
  /\ WF_vars(EnsureRunning \/ OpenSocket \/ ConnectFails)
  /\ SF_vars(EnsureRunning)
  /\ SF_vars(OpenSocket)
  /\ WF_vars(ListAnswer)
  /\ WF_vars(\E r \in pendingCall : CallTimeout(r))

Spec == Init /\ [][Next]_vars /\ Fairness
-----------------------------------------------------------------------------
\* A call of the agent is dispatched at most once, by any daemon, although it
\* may be sent twice and the daemon that got it may be gone (callTool).
AtMostOnce == \A r, s \in executed : r.call = s.call => r = s

\* A call that failed because no daemon could be reached was carried out by
\* none and never will be: the agent may repeat it (callTool, connect).
RefusedIsNotDone ==
  \A c \in Calls :
    call[c] = "unreachable" => ~ \E r \in wire \cup executed : r.call = c

\* Whoever awaits connect() is waiting for an attempt that is being made, and
\* while there is no connection some chain of reconnect attempts is alive, so
\* that the proxy comes back without being called (scheduleReconnect).
NeverStranded ==
  /\ connecting = "no" => redialling = 0 /\ relisting = 0 /\ Waiting = {}
  /\ phase \in {"listing", "serving"} /\ sock = NoSock => timers + redialling > 0

\* A pending call went out on the present socket, and unless the daemon there
\* died it is being read, run or answered; what is left of an older stream
\* does not spoil the answer (handleDisconnect, handleData).
PendingCanBeAnswered ==
  \A r \in pendingCall :
    Alive => /\ r.on = sock
             /\ sock \in up => r \in wire \cup running \cup inbox
             /\ LineParses

\* Every tool call ends, unless the process does (callTool, handleDisconnect).
CallsSettle ==
  \A c \in Calls :
    (call[c] \in {"open", "connecting"}) ~> (call[c] \in Settled \/ ~Alive)

\* If a run of the daemon stays the current one, the proxy finds it without
\* being asked and offers its tools and no others, unless that run once took
\* more than 45 s to list them (scheduleReconnect, onReconnected, syncToolList).
ToolsConverge ==
  \A n \in Runs :
    <>[](run = n /\ up = {n} /\ Alive /\ n \notin slow)
      => <>[](sock = n /\ registered = ToolsOf[n])

\* What the agent knows of a call, and how often it was carried out.
Told(c) ==
  IF call[c] = "connecting" THEN "open"
  ELSE IF call[c] = "unreachable" THEN "refused"
  ELSE IF call[c] \in {"uncertain", "timeout"} THEN "unknown"
  ELSE call[c]

Executions(c) == {r \in executed : r.call = c}

\* The proxy and the daemon implement the abstract call: at most one effect, an
\* answer only after it, a refusal only without it (callTool).
Effect == INSTANCE ToolCall WITH
  status  <- [c \in Calls |-> Told(c)],
  effects <- [c \in Calls |-> Cardinality(Executions(c))]

ImplementsToolCall == Effect!Spec
=============================================================================
