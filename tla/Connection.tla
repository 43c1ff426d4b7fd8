----------------------------- MODULE Connection -----------------------------
(***************************************************************************)
(* How the extension keeps its one connection to the bridge daemon         *)
(* (extension/ws-client.ts from sendResponse on, extension/index.ts):      *)
(* live mode, connect() with its 10 s timer, the reconnect timer and the   *)
(* check that follows it, the heartbeat, the responses kept while the      *)
(* socket is down, the instance-info pushes.                               *)
(*                                                                         *)
(* The timers are the subject, so time is explicit: a timer is the time it *)
(* has left, Tick lets one unit pass, and nothing that is due can be       *)
(* overtaken by Tick.  JavaScript runs one handler at a time: every action *)
(* is one whole callback.                                                  *)
(*                                                                         *)
(* eda.sys_WebSocket is EasyEDA's and is modelled by what the code says of *)
(* it: it keeps one registration per id, register() on a live one does     *)
(* nothing (ws-client.ts:759), register() with nobody listening fails      *)
(* without a word (ws-client.ts:777), nothing is reported when the socket  *)
(* closes, and a send on a closed socket throws or is swallowed.           *)
(***************************************************************************)
EXTENDS Integers, Sequences, FiniteSets

CONSTANTS
  MaxRequests,    \* bound: requests, numbered as they arrive
  BufferMax,      \* PENDING_RESPONSE_MAX
  InitialDelays,  \* RECONNECT_INITIAL_DELAYS_MS
  SteadyDelay,    \* RECONNECT_STEADY_MS
  CheckDelay,     \* the 1.5 s check after a reconnect attempt
  ConnectTimeout, \* the 10 s timer of connect()
  Interval,       \* HEARTBEAT_INTERVAL_MS
  QuietAfter,     \* QUIET_THRESHOLD_MS
  DeadAfter,      \* DEAD_THRESHOLD_MS
  OpenLatency,    \* the longest a socket takes to open when the daemon listens
  MaxUpsets       \* bound: what the user, the host and the daemon do to a connection

ASSUME DelayAssumption ==
  /\ BufferMax \in Nat \ {0}
  /\ InitialDelays \in Seq(Nat)
  /\ CheckDelay \in Nat /\ SteadyDelay \in Nat /\ CheckDelay < SteadyDelay
  /\ \A i \in 1..Len(InitialDelays) : /\ CheckDelay < InitialDelays[i]
                                      /\ InitialDelays[i] <= SteadyDelay
  /\ ConnectTimeout \in Nat /\ OpenLatency \in Nat /\ OpenLatency < ConnectTimeout

\* 10 s against 15 s.  If the two were equal, the timer of each attempt would
\* fire on the next one and could end it, for ever.
ASSUME TimeoutAssumption == ConnectTimeout < SteadyDelay

\* 30 s between beats, a ping after 30 s of silence, dead after 90 s.
ASSUME HeartbeatAssumption ==
  /\ Interval \in Nat \ {0} /\ QuietAfter \in Nat \ {0} /\ DeadAfter \in Nat
  /\ QuietAfter + 2 * Interval <= DeadAfter

ASSUME BoundAssumption == MaxUpsets \in Nat /\ MaxRequests \in Nat

Off == -1

VARIABLES
  live,        \* LIVE_MODE_KEY
  stored,      \* the autoConnect setting
  connected,   \* CONNECTED_KEY
  connecting,  \* CONNECTING_KEY
  attempt,     \* RECONNECT_ATTEMPT_KEY, counted up to the steady state
  reconnect,   \* time left of RECONNECT_KEY, or Off
  check,       \* time left of RECONNECT_CHECK_KEY, or Off
  giveUps,     \* time left of each 10 s timer: nothing cancels them
  beat,        \* time left of the heartbeat, or Off
  silence,     \* time since LAST_RECV_KEY, counted in a connection up to DeadAfter
  restarts,    \* history: heartbeats restarted in that time, counted up to 2
  buffer,      \* pendingResponses(), oldest first
  pushing,     \* pushInstanceInfo is awaiting the editor
  sock,        \* the host's registration
  opening,     \* time left in which a registered socket opens
  pongDue,     \* a ping reached the daemon
  daemonUp,    \* a daemon listens on the port
  request,     \* state of each request, and history of its response
  waited,      \* history: time a listening daemon has gone unnoticed
  setbacks,    \* history: attempts made by the user or the host in that time, and throws
  upsets       \* used up of MaxUpsets

modeVars    == <<live, stored>>
flagVars    == <<connected, connecting>>
retryVars   == <<attempt, reconnect>>
timerVars   == <<retryVars, check, giveUps>>
hearVars    == <<silence, restarts, pongDue>>
beatVars    == <<beat, hearVars>>
sockVars    == <<sock, opening>>
answerVars  == <<buffer, request>>
waitVars    == <<waited, setbacks>>
vars == <<modeVars, flagVars, timerVars, beatVars, pushing, sockVars, answerVars,
          daemonUp, waitVars, upsets>>

\* The registration the host holds: none; waiting to open; failed without a
\* word; open; closed by the other side while the host still holds it.
Registered == {"opening", "open", "dead"}
SockStates == Registered \cup {"none", "failed"}

\* A daemon listens, live mode is on, and there is no connection yet.
Missed == live /\ ~connected /\ daemonUp

\* The wait ends with the connection, with live mode or with the daemon, and
\* with nothing else the code does; n more setbacks have come into it.
Waits(n) ==
  IF Missed /\ Missed' THEN waited' = waited /\ setbacks' = setbacks + n
  ELSE waited' = 0 /\ setbacks' = 0

\* How long it may last: the timeout of the attempt under way, one delay and
\* one opening for each attempt that a timer left over from an earlier one may
\* end, and one of each for the attempt that none can; as long again after
\* each setback.
PatienceBound == ConnectTimeout + (Len(InitialDelays) + 2) * (SteadyDelay + OpenLatency)
Allowed == (1 + setbacks) * PatienceBound

Ids == 1..MaxRequests

DelayOf(a) == IF a < Len(InitialDelays) THEN InitialDelays[a + 1] ELSE SteadyDelay
NextAttempt(a) == IF a < Len(InitialDelays) THEN a + 1 ELSE a

-----------------------------------------------------------------------------
Init ==
  /\ live = FALSE /\ stored \in BOOLEAN
  /\ connected = FALSE /\ connecting = FALSE
  /\ attempt = 0 /\ reconnect = Off /\ check = Off /\ giveUps = {}
  /\ beat = Off /\ silence = 0 /\ restarts = 0 /\ pongDue = FALSE
  /\ pushing = FALSE
  /\ sock = "none" /\ opening = 0
  /\ daemonUp \in BOOLEAN
  /\ buffer = <<>> /\ request = [i \in Ids |-> "new"]
  /\ waited = 0 /\ setbacks = 0 /\ upsets = 0

(* What the callbacks share.  An operator with parameters takes the values *)
(* its variables have when the code calls it in the middle of a callback.  *)

\* scheduleReconnect: only in live mode, and only one at a time.
Schedule(l, a, r) ==
  IF l /\ r = Off
  THEN reconnect' = DelayOf(a) /\ attempt' = NextAttempt(a)
  ELSE reconnect' = r /\ attempt' = a

\* sys_WebSocket.register.
Register ==
  IF sock \in Registered
  THEN UNCHANGED sockVars
  ELSE /\ sock' = IF daemonUp THEN "opening" ELSE "failed"
       /\ opening' = IF daemonUp THEN OpenLatency ELSE 0

\* sys_WebSocket.close.
CloseSocket == sock' = "none" /\ opening' = 0

Upset(n) == upsets + n <= MaxUpsets /\ upsets' = upsets + n

\* connect(), when it is the last thing a callback does; the callback itself
\* has cost n of the upsets, and a register() that throws is one more.
Connect(l, a, r, n) ==
  IF connected \/ connecting
  THEN reconnect' = r /\ attempt' = a /\ Upset(n) /\ UNCHANGED <<connecting, giveUps, sockVars>>
  ELSE /\ giveUps' = giveUps \cup {ConnectTimeout}
       /\ \/ connecting' = TRUE /\ Register /\ reconnect' = r /\ attempt' = a /\ Upset(n)
          \/ connecting' = FALSE /\ UNCHANGED sockVars /\ Schedule(l, a, r) /\ Upset(n + 1)

\* startLiveMode and the connect() that both its callers add: the second one
\* matters only when the first one's register() threw.
GoLive(n) ==
  /\ live' = TRUE
  /\ beat' = Interval
  /\ \/ Connect(TRUE, 0, reconnect, n)
     \/ /\ ~connected /\ ~connecting
        /\ connecting' = TRUE
        /\ giveUps' = giveUps \cup {ConnectTimeout}
        /\ Register
        /\ Schedule(TRUE, 0, reconnect)
        /\ Upset(n + 1)

\* Not the code: the host's registration is left alone.
ForgetConnection ==
  /\ connected' = FALSE
  /\ UNCHANGED sockVars
  /\ Schedule(live, attempt, reconnect)

\* handleConnectionLost.
LoseConnection ==
  /\ connected' = FALSE
  /\ CloseSocket
  /\ Schedule(live, attempt, reconnect)

KeepConnection == UNCHANGED <<connected, sockVars, retryVars>>

\* eda.sys_WebSocket.send: a closed socket throws, or swallows the message
\* while the host has not noticed.
MayThrow  == sock # "open"
MustThrow == sock \notin {"open", "dead"}

-----------------------------------------------------------------------------
(* The user and the editor.                                                *)

\* activate(): on start-up, and again when the host evaluates the extension
\* anew in the same tab, whose globals survive.
Activate ==
  /\ stored
  /\ GoLive(IF live THEN 1 ELSE 0)
  /\ restarts' = IF restarts < 2 THEN restarts + 1 ELSE 2
  /\ UNCHANGED <<stored, connected, check, silence, pongDue, pushing, answerVars,
                 daemonUp>>
  /\ Waits(upsets' - upsets)

\* connectClaude().
ConnectClaude ==
  /\ stored' = TRUE
  /\ IF live
     THEN Connect(TRUE, attempt, reconnect, 1) /\ UNCHANGED <<live, beat>>
     ELSE GoLive(0)
  /\ UNCHANGED <<connected, check, hearVars, pushing, answerVars,
                 daemonUp>>
  /\ Waits(upsets' - upsets)

\* stopLiveMode: the 10 s timers are left running.
StopLiveMode ==
  /\ live' = FALSE
  /\ reconnect' = Off /\ check' = Off /\ beat' = Off

\* disconnectFromAllMcpServers.
DisconnectFromAll ==
  /\ connected' = FALSE /\ connecting' = FALSE
  /\ CloseSocket

\* disconnectClaude().
DisconnectClaude ==
  /\ Upset(1)
  /\ StopLiveMode
  /\ stored' = FALSE
  /\ DisconnectFromAll
  /\ UNCHANGED <<attempt, giveUps, hearVars, pushing, answerVars, daemonUp>>
  /\ Waits(1)

-----------------------------------------------------------------------------
(* The timers.                                                             *)

\* Not the code: CONNECTING_KEY survives the timer.
GiveUpStillConnecting ==
  /\ 0 \in giveUps
  /\ giveUps' = giveUps \ {0}
  /\ IF connected
     THEN UNCHANGED <<sockVars, retryVars>>
     ELSE CloseSocket /\ Schedule(live, attempt, reconnect)
  /\ UNCHANGED <<modeVars, flagVars, check, beatVars, pushing, answerVars, daemonUp,
                 upsets>>
  /\ Waits(0)

\* The 10 s timer of some connect(), of this attempt or of an earlier one.
GiveUp ==
  /\ 0 \in giveUps
  /\ giveUps' = giveUps \ {0}
  /\ IF connected
     THEN UNCHANGED <<connecting, sockVars, retryVars>>
     ELSE connecting' = FALSE /\ CloseSocket /\ Schedule(live, attempt, reconnect)
  /\ UNCHANGED <<modeVars, connected, check, beatVars, pushing, answerVars, daemonUp,
                 upsets>>
  /\ Waits(0)

\* The reconnect timer.
ReconnectDue ==
  /\ reconnect = 0
  /\ IF ~live \/ connected
     THEN /\ reconnect' = Off
          /\ UNCHANGED <<connecting, giveUps, sockVars, attempt, check, upsets>>
     ELSE Connect(live, attempt, Off, 0) /\ check' = CheckDelay
  /\ UNCHANGED <<modeVars, connected, beatVars, pushing, answerVars, daemonUp>>
  /\ Waits(upsets' - upsets)

\* The check after a reconnect attempt.
CheckDue ==
  /\ check = 0
  /\ check' = Off
  /\ IF live /\ ~connected
     THEN Schedule(live, attempt, reconnect)
     ELSE UNCHANGED retryVars
  /\ UNCHANGED <<modeVars, flagVars, giveUps, beatVars, pushing, sockVars, answerVars,
                 daemonUp, waitVars, upsets>>

\* Not the code: a daemon that is merely quiet is taken for dead.
QuietIsDead == silence >= QuietAfter

\* runHeartbeat: after DeadAfter of silence the connection is lost.
SilentTooLong == silence >= DeadAfter

\* runHeartbeat: after QuietAfter it is asked for a sign of life.
Ping ==
  /\ connected /\ ~SilentTooLong /\ silence >= QuietAfter
  /\ \/ sock = "open" /\ pongDue' = TRUE /\ KeepConnection
     \/ sock = "dead" /\ KeepConnection /\ UNCHANGED pongDue
     \/ MayThrow /\ LoseConnection /\ UNCHANGED pongDue

HeartbeatDue ==
  /\ beat = 0
  /\ beat' = Interval
  /\ \/ (connected => ~SilentTooLong /\ silence < QuietAfter) /\ KeepConnection /\ UNCHANGED pongDue
     \/ connected /\ SilentTooLong /\ LoseConnection /\ UNCHANGED pongDue
     \/ Ping
  /\ UNCHANGED <<modeVars, connecting, check, giveUps, silence, restarts, pushing, answerVars,
                 daemonUp, upsets>>
  /\ Waits(0)

\* pushInstanceInfo up to its last await: 200 ms after the socket opened or
\* 300 ms after the last tab event, which is here any time; the verdict allows
\* it and the connection is still up.
StartPush ==
  /\ connected /\ ~pushing
  /\ pushing' = TRUE
  /\ UNCHANGED <<modeVars, flagVars, timerVars, beatVars, sockVars, answerVars, daemonUp,
                 waitVars, upsets>>

\* pushInstanceInfo sends on whatever socket there is after the await.
FinishPush ==
  /\ pushing
  /\ pushing' = FALSE
  /\ UNCHANGED <<modeVars, connecting, check, giveUps, beatVars, answerVars, daemonUp,
                 upsets>>
  /\ \/ ~MustThrow /\ KeepConnection /\ Waits(0)
     \/ MayThrow /\ LoseConnection /\ Waits(1)

-----------------------------------------------------------------------------
(* The socket.                                                             *)

\* Not the code: what could not be sent is dropped as well.
FlushAndForget(n) == buffer' = <<>>

\* flushBufferedResponses: the first n are out of the buffer.
Flush(n) == buffer' = SubSeq(buffer, n + 1, Len(buffer))

\* What has become of them: the first m reached an open socket, the others the
\* host swallowed.
Sent(m, n) ==
  request' = [i \in Ids |-> IF \E k \in 1..m : buffer[k] = i THEN "sent"
                            ELSE IF \E k \in 1..n : buffer[k] = i THEN "lost" ELSE request[i]]

\* The callback of register(): the socket is open.  A socket that closes
\* during the flush goes unnoticed: the first sends after that are swallowed,
\* and one that throws ends the flush.
Opened ==
  /\ sock = "opening" /\ daemonUp
  /\ connecting' = FALSE /\ connected' = TRUE
  /\ silence' = 0 /\ restarts' = 0 /\ pongDue' = FALSE
  /\ attempt' = 0
  /\ opening' = 0
  /\ \E n \in 0..Len(buffer) : \E m \in 0..n :
        /\ Flush(n)
        /\ Sent(m, n)
        /\ \/ m = Len(buffer) /\ sock' = "open" /\ UNCHANGED upsets
           \/ m < Len(buffer) /\ sock' = "dead" /\ Upset(1)
  /\ UNCHANGED <<modeVars, reconnect, check, giveUps, beat, pushing, daemonUp>>
  /\ Waits(0)

\* Any message of the daemon: handleMessage notes the time first.
Receive ==
  /\ sock = "open"
  /\ silence > 0 \/ pongDue
  /\ silence' = 0 /\ restarts' = 0 /\ pongDue' = FALSE
  /\ UNCHANGED <<modeVars, flagVars, timerVars, beat, pushing, sockVars, answerVars,
                 daemonUp, waitVars, upsets>>

\* A request of the daemon, which starts a handler.
ReceiveRequest(i) ==
  /\ sock = "open"
  /\ request[i] = "new" /\ \A j \in Ids : j < i => request[j] # "new"
  /\ request' = [request EXCEPT ![i] = "running"]
  /\ silence' = 0 /\ restarts' = 0
  /\ UNCHANGED <<modeVars, flagVars, timerVars, beat, pongDue, pushing, sockVars, buffer,
                 daemonUp, waitVars, upsets>>

\* The daemon's last message, 'shutdown'; it is gone right after.
ReceiveShutdown ==
  /\ sock = "open"
  /\ Upset(1)
  /\ LoseConnection
  /\ daemonUp' = FALSE
  /\ silence' = 0 /\ restarts' = 0 /\ pongDue' = FALSE
  /\ UNCHANGED <<modeVars, connecting, check, giveUps, beat, pushing, answerVars>>
  /\ Waits(0)

\* bufferResponse: a full buffer drops its oldest entry.
BufferResponse(i) ==
  IF Len(buffer) >= BufferMax
  THEN /\ buffer' = Append(Tail(buffer), i)
       /\ request' = [request EXCEPT ![i] = "kept", ![Head(buffer)] = "lost"]
  ELSE /\ buffer' = Append(buffer, i)
       /\ request' = [request EXCEPT ![i] = "kept"]

\* sendResponse, on the socket of the moment.
Respond(i) ==
  /\ request[i] = "running"
  /\ UNCHANGED <<modeVars, connecting, check, giveUps, beatVars, pushing, daemonUp, upsets>>
  /\ \/ /\ ~MustThrow
        /\ request' = [request EXCEPT ![i] = IF sock = "open" THEN "sent" ELSE "lost"]
        /\ KeepConnection
        /\ UNCHANGED buffer
        /\ Waits(0)
     \/ /\ MayThrow
        /\ BufferResponse(i)
        /\ LoseConnection
        /\ Waits(1)

\* sendNotification from the log of a running handler: the emitter is set in
\* live mode, whether or not there is a socket.
LogThrows ==
  /\ live /\ \E i \in Ids : request[i] = "running"
  /\ MayThrow
  /\ LoseConnection
  /\ Upset(1)
  /\ UNCHANGED <<modeVars, connecting, check, giveUps, beatVars, pushing, answerVars, daemonUp>>
  /\ Waits(1)

-----------------------------------------------------------------------------
(* The daemon and time.                                                    *)

DaemonStops ==
  /\ daemonUp
  /\ Upset(1)
  /\ daemonUp' = FALSE
  /\ sock' = IF sock = "open" THEN "dead" ELSE IF sock = "opening" THEN "failed" ELSE sock
  /\ opening' = 0
  /\ pongDue' = FALSE
  /\ UNCHANGED <<modeVars, flagVars, timerVars, beat, silence, restarts, pushing, answerVars>>
  /\ Waits(0)

DaemonStarts ==
  /\ ~daemonUp
  /\ daemonUp' = TRUE
  /\ UNCHANGED <<modeVars, flagVars, timerVars, beatVars, pushing, sockVars, answerVars,
                 upsets>>
  /\ Waits(0)

\* The daemon closes the socket: another tab took its place, or it quits.
DaemonCloses ==
  /\ sock = "open"
  /\ Upset(1)
  /\ sock' = "dead"
  /\ pongDue' = FALSE
  /\ UNCHANGED <<modeVars, flagVars, timerVars, beat, silence, restarts, pushing, opening, answerVars,
                 daemonUp, waitVars>>

Down(t) == IF t = Off THEN Off ELSE t - 1

NothingDue ==
  /\ reconnect # 0 /\ check # 0 /\ beat # 0 /\ 0 \notin giveUps
  /\ ~(pongDue /\ sock = "open")
  /\ sock = "opening" => opening > 0

Tick ==
  /\ NothingDue
  /\ reconnect' = Down(reconnect) /\ check' = Down(check) /\ beat' = Down(beat)
  /\ giveUps' = {t - 1 : t \in giveUps}
  /\ opening' = IF opening > 0 THEN opening - 1 ELSE 0
  /\ silence' = IF ~connected THEN 0 ELSE IF silence < DeadAfter THEN silence + 1 ELSE silence
  /\ restarts' = IF connected THEN restarts ELSE 0
  /\ waited' = IF Missed /\ waited <= Allowed THEN waited + 1 ELSE waited
  /\ UNCHANGED <<modeVars, flagVars, attempt, pongDue, pushing, sock, answerVars,
                 daemonUp, setbacks, upsets>>

Progress ==
  \/ Tick \/ GiveUp \/ ReconnectDue \/ CheckDue \/ HeartbeatDue \/ Opened
  \/ (pongDue /\ Receive)

Next ==
  \/ Activate \/ ConnectClaude \/ DisconnectClaude
  \/ GiveUp \/ ReconnectDue \/ CheckDue \/ HeartbeatDue
  \/ StartPush \/ FinishPush
  \/ Opened \/ Receive \/ ReceiveShutdown
  \/ \E i \in Ids : ReceiveRequest(i) \/ Respond(i)
  \/ LogThrows
  \/ DaemonStops \/ DaemonStarts \/ DaemonCloses
  \/ Tick

\* Timers fire when they are due, a listening daemon accepts a socket in time
\* and answers a ping, and time goes on.
Fairness == WF_vars(Progress)

Spec == Init /\ [][Next]_vars /\ Fairness

-----------------------------------------------------------------------------
TypeOK ==
  /\ live \in BOOLEAN /\ stored \in BOOLEAN
  /\ connected \in BOOLEAN /\ connecting \in BOOLEAN
  /\ attempt \in Nat /\ reconnect \in Nat \cup {Off} /\ check \in Nat \cup {Off}
  /\ giveUps \in SUBSET Nat
  /\ beat \in Nat \cup {Off} /\ silence \in Nat /\ restarts \in 0..2 /\ pongDue \in BOOLEAN
  /\ pushing \in BOOLEAN
  /\ sock \in SockStates /\ opening \in Nat
  /\ daemonUp \in BOOLEAN
  /\ buffer \in Seq(Ids) /\ Len(buffer) <= BufferMax
  /\ request \in [Ids -> {"new", "running", "kept", "sent", "lost"}]
  /\ waited \in Nat /\ setbacks \in Nat /\ upsets \in Nat

\* In live mode a lost connection is on its way back: some timer will try it
\* again, and the try will not be the silent no-op that register() is while
\* the host still holds a registration (handleConnectionLost, connect).
CanReconnect ==
  live /\ ~connected =>
     /\ reconnect # Off \/ check # Off \/ giveUps # {}
     /\ ~connecting => sock \notin Registered

\* A daemon that listens is found in time (connect, scheduleReconnect): however
\* the timers of earlier attempts, which nothing cancels, cut the later ones
\* short, live mode connects within PatienceBound, and within as long again
\* for each setback from outside: the user or the host setting off an attempt
\* of its own, a register() or a send that throws.
ReconnectsInTime == waited <= Allowed

\* An open socket is closed from this side by nobody but the user: neither a
\* quiet daemon nor the 10 s timer of an attempt made earlier ends a
\* connection to a daemon that is there (runHeartbeat, connect).  Reloading the
\* extension twice in one silence can, for it starts the heartbeat anew.
OnlyTheUserHangsUp ==
  [][sock = "open" /\ sock' # "open" => \/ sock' = "dead" \/ ~daemonUp'
                                        \/ ~live' \/ restarts > 1]_vars

\* A response kept for later is sent in the end: it stays kept until it went
\* out on an open socket, was swallowed by one the host took for open, or gave
\* way to newer ones in a full buffer, and once the user stays in live mode
\* and the daemon stays up, it does not stay kept for ever, even if a flush
\* was cut short and left a rest (flushBufferedResponses, runHeartbeat).
KeptResponsesArrive ==
  <>[](live /\ daemonUp) =>
     \A i \in Ids : [](request[i] = "kept" => <>(request[i] \in {"sent", "lost"}))
=============================================================================
