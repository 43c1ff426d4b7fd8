------------------------- MODULE ProxyClientProofs --------------------------
(***************************************************************************)
(* Proofs about ProxyClient, for any finite set of tool calls, any tools   *)
(* and any number of runs of the daemon.                                   *)
(*                                                                         *)
(* That a call takes effect at most once rests on OneRequestEach: of all   *)
(* requests that are pending, under way or executed, no two are of one     *)
(* call, although callTool has two attempts, because a call that awaits    *)
(* connect() has none.  That a pending call can be answered, and that the  *)
(* proxy is never stranded, rest on ConnectionInv: there is no attempt to  *)
(* connect while there is a connection, and the connection leads to a run  *)
(* of the daemon that has begun.                                           *)
(***************************************************************************)
EXTENDS ProxyClient, FiniteSetTheorems, TLAPS

Known == pendingCall \cup wire \cup executed

OneRequestEach ==
  /\ \A r, s \in Known : r.call = s.call => r = s
  /\ \A r \in Known : call[r.call] \notin {"idle", "connecting", "unreachable"}
  /\ \A r \in pendingCall : call[r.call] = "open"
  /\ running \subseteq executed
  /\ inbox \subseteq executed
  /\ wire \cap executed = {}
  /\ \A r \in wire : call[r.call] # "answered"

ConnectionInv ==
  /\ phase = "connecting" => connecting # "no" /\ sock = NoSock
  /\ sock # NoSock => connecting = "no"
  /\ \A n \in up : n <= run
  /\ sock <= run
  /\ Alive => buffer \in {NoSock, sock}

\* Listings are under way only over a connection.
ListsNeedASocket ==
  Alive /\ sock = NoSock => listed = 0 /\ pendingList[1] = 0 /\ pendingList[2] = 0

-----------------------------------------------------------------------------
(* Types.                                                                  *)

LEMMA ListingsAreCounted ==
  ASSUME TypeOK, Alive
  PROVE  FirstListings \in Nat
<1>1. IsFiniteSet(Waiting)
  BY CallsAssumption, FS_Subset DEF Waiting
<1>2. Cardinality(Waiting) \in Nat
  BY <1>1, FS_CardinalityType
<1>3. QED
  BY <1>2 DEF FirstListings, TypeOK, Alive

LEMMA RequestsAreTyped ==
  ASSUME NEW c \in Calls, NEW k \in {1, 2}, NEW n \in Runs
  PROVE  Request(c, k, n) \in Requests
BY DEF Request, Requests

LEMMA TypeInit == Init => TypeOK
BY DEF Init, TypeOK, Runs, NoSock, NoLists

LEMMA TypeStep == TypeOK /\ ListsNeedASocket /\ [Next]_vars => TypeOK'
<1> SUFFICES ASSUME TypeOK, ListsNeedASocket, [Next]_vars
             PROVE  TypeOK'
  OBVIOUS
<1> USE DEF TypeOK
<1>1. CASE UNCHANGED vars
  BY <1>1 DEF vars, connVars, listVars, callVars, daemonVars
<1>2. ASSUME NEW c \in Calls, CallTool(c)
      PROVE  TypeOK'
  <2>1. sock # NoSock => Request(c, 1, sock) \in Requests
    BY RequestsAreTyped
  <2>2. call' \in [Calls -> {"idle", "connecting", "open"} \cup Settled]
    BY <1>2 DEF CallTool
  <2>3. pendingCall' \in SUBSET Requests /\ wire' \in SUBSET Requests
    BY <1>2, <2>1 DEF CallTool, Write
  <2>4. connecting' \in {"no", "ensuring", "opening"}
    BY <1>2 DEF CallTool, Connect
  <2>5. QED
    BY <1>2, <2>2, <2>3, <2>4 DEF CallTool, listVars, daemonVars
<1>3. CASE EnsureRunning
  BY <1>3 DEF EnsureRunning, listVars, callVars, daemonVars
<1>4. CASE OpenSocket
  <2>1. run \in Runs /\ FirstListings \in Nat
    BY <1>4, ListingsAreCounted DEF OpenSocket
  <2>2. \A c \in Waiting : Request(c, 2, run) \in Requests
    BY <2>1, RequestsAreTyped DEF Waiting
  <2>3. pendingCall' \in SUBSET Requests /\ wire' \in SUBSET Requests
    BY <1>4, <2>2 DEF OpenSocket, Write
  <2>4. call' \in [Calls -> {"idle", "connecting", "open"} \cup Settled]
    BY <1>4 DEF OpenSocket
  <2>5. pendingList' \in [{1, 2} -> Nat] /\ listed' \in Nat
    BY <1>4, <2>1 DEF OpenSocket
  <2>6. QED
    BY <1>4, <2>1, <2>3, <2>4, <2>5 DEF OpenSocket, daemonVars
<1>5. CASE ConnectFails
  <2>1. call' \in [Calls -> {"idle", "connecting", "open"} \cup Settled]
    BY <1>5 DEF ConnectFails, Settled
  <2>2. QED
    BY <1>5, <2>1 DEF ConnectFails, Rescheduled, daemonVars
<1>6. CASE TimerFires
  BY <1>6 DEF TimerFires, Connect, listVars, callVars, daemonVars
<1>7. CASE Disconnect
  <2>1. call' \in [Calls -> {"idle", "connecting", "open"} \cup Settled]
    BY <1>7 DEF Disconnect, AfterDisconnect, Settled
  <2>2. QED
    BY <1>7, <2>1 DEF Disconnect, BufferAfterDisconnect, NoLists
<1>8. CASE PartialLine
  BY <1>8 DEF PartialLine, listVars, callVars, daemonVars
<1>9. CASE ListAnswer
  <2>1. sock \in Runs
    BY <1>9 DEF ListAnswer, ListsNeedASocket
  <2>2. listed' \in Nat /\ buffer' = NoSock
    BY <1>9 DEF ListAnswer
  <2>3. pendingList' \in [{1, 2} -> Nat]
    BY <1>9 DEF ListAnswer, IsPending
  <2>4. ToolsOf[sock] \in SUBSET Names
    BY <2>1, ToolsAssumption DEF Runs
  <2>5. registered' \in SUBSET Names
    BY <1>9, <2>4 DEF ListAnswer, Synced
  <2>6. QED
    BY <1>9, <2>2, <2>3, <2>5 DEF ListAnswer, callVars, daemonVars
<1>10. CASE ListTimeout
  <2>1. sock \in Runs
    BY <1>10 DEF ListTimeout, IsPending, ListsNeedASocket
  <2>2. pendingList' \in [{1, 2} -> Nat]
    BY <1>10 DEF ListTimeout, IsPending
  <2>3. QED
    BY <1>10, <2>1, <2>2 DEF ListTimeout, callVars, daemonVars
<1>11. CASE Stop
  BY <1>11 DEF Stop, listVars, callVars, daemonVars
<1>12. ASSUME NEW r \in inbox, CallAnswer(r)
       PROVE  TypeOK'
  <2>1. call' \in [Calls -> {"idle", "connecting", "open"} \cup Settled]
    BY <1>12 DEF CallAnswer, Settled
  <2>2. QED
    BY <1>12, <2>1 DEF CallAnswer, listVars
<1>13. ASSUME NEW r \in pendingCall, CallTimeout(r)
       PROVE  TypeOK'
  <2>1. call' \in [Calls -> {"idle", "connecting", "open"} \cup Settled]
    BY <1>13 DEF CallTimeout, Settled
  <2>2. QED
    BY <1>13, <2>1 DEF CallTimeout, connVars, listVars, daemonVars
<1>14. CASE StartDaemon
  <2>1. run' \in Runs
    BY <1>14, MaxRunsAssumption DEF StartDaemon, Runs
  <2>2. QED
    BY <1>14, <2>1 DEF StartDaemon, connVars, listVars, callVars
<1>15. ASSUME NEW n \in up, DaemonDies(n)
       PROVE  TypeOK'
  BY <1>15 DEF DaemonDies, connVars
<1>16. ASSUME NEW r \in wire, Dispatch(r)
       PROVE  TypeOK'
  BY <1>16 DEF Dispatch, connVars, listVars
<1>17. ASSUME NEW r \in running, DaemonAnswers(r)
       PROVE  TypeOK'
  BY <1>17 DEF DaemonAnswers, connVars, listVars, callVars
<1>18. QED
  BY <1>1, <1>2, <1>3, <1>4, <1>5, <1>6, <1>7, <1>8, <1>9, <1>10, <1>11,
     <1>12, <1>13, <1>14, <1>15, <1>16, <1>17 DEF Next

LEMMA ListsStep == TypeOK /\ ListsNeedASocket /\ [Next]_vars => ListsNeedASocket'
<1> SUFFICES ASSUME TypeOK, ListsNeedASocket, [Next]_vars, Alive', sock' = NoSock
             PROVE  listed' = 0 /\ pendingList'[1] = 0 /\ pendingList'[2] = 0
  BY DEF ListsNeedASocket
<1> USE DEF ListsNeedASocket, Alive
<1>1. CASE OpenSocket
  BY <1>1 DEF OpenSocket, TypeOK, Runs, NoSock
<1>2. CASE Disconnect
  BY <1>2 DEF Disconnect, NoLists
<1>3. CASE ListAnswer
  BY <1>3 DEF ListAnswer
<1>4. CASE ListTimeout
  BY <1>4 DEF ListTimeout, IsPending
<1>5. CASE Stop
  BY <1>5 DEF Stop
<1>6. ASSUME NEW n \in up, DaemonDies(n)
      PROVE  listed' = 0 /\ pendingList'[1] = 0 /\ pendingList'[2] = 0
  <2>1. listed' \in 0 .. listed \/ listed' = listed
    BY <1>6 DEF DaemonDies
  <2>2. listed' = 0
    BY <1>6, <2>1 DEF DaemonDies, connVars
  <2>3. QED
    BY <1>6, <2>2 DEF DaemonDies, connVars
<1>7. ASSUME phase' = phase \/ phase = "connecting" \/ phase = "listing" \/ phase = "serving",
             UNCHANGED <<sock, pendingList, listed>>
      PROVE  listed' = 0 /\ pendingList'[1] = 0 /\ pendingList'[2] = 0
  BY <1>7
<1>8. QED
  BY <1>1, <1>2, <1>3, <1>4, <1>5, <1>6, <1>7
     DEF Next, vars, connVars, listVars, callVars, daemonVars, CallTool, EnsureRunning,
         ConnectFails, TimerFires, PartialLine, CallAnswer, CallTimeout, StartDaemon,
         Dispatch, DaemonAnswers

TypeInv == TypeOK /\ ListsNeedASocket

\* Every variable keeps its type, for any tools and any number of calls and
\* runs.
THEOREM TypeCorrect == Spec => []TypeOK
<1>1. Init => TypeInv
  BY TypeInit DEF Init, TypeInv, ListsNeedASocket, NoLists
<1>2. TypeInv /\ [Next]_vars => TypeInv'
  BY TypeStep, ListsStep DEF TypeInv
<1>3. TypeInv => TypeOK
  BY DEF TypeInv
<1>4. QED
  BY <1>1, <1>2, <1>3, PTL DEF Spec

-----------------------------------------------------------------------------
(* Connecting.                                                             *)

ConnInv == TypeInv /\ ConnectionInv /\ NeverStranded

LEMMA ConnInit == Init => ConnInv
BY TypeInit DEF Init, ConnInv, TypeInv, ListsNeedASocket, NoLists, ConnectionInv,
                NeverStranded, NoSock, Alive

\* There is never a second connection, and its other end has begun.
LEMMA ConnectionStep == TypeInv /\ ConnectionInv /\ [Next]_vars => ConnectionInv'
<1> SUFFICES ASSUME TypeOK, ListsNeedASocket, ConnectionInv, [Next]_vars
             PROVE  ConnectionInv'
  BY DEF TypeInv
<1> USE DEF ConnectionInv, Alive
<1>0. \A n \in Runs \cup {NoSock} : n \in Int /\ n >= 0
  BY DEF Runs, NoSock
<1>0a. NoSock <= run
  BY <1>0 DEF TypeOK, NoSock
<1>1. CASE UNCHANGED vars
  BY <1>1 DEF vars, connVars, daemonVars
<1>2. ASSUME NEW c \in Calls, CallTool(c)
      PROVE  ConnectionInv'
  BY <1>2 DEF CallTool, Connect, daemonVars
<1>3. CASE EnsureRunning
  BY <1>3 DEF EnsureRunning, daemonVars
<1>4. CASE OpenSocket
  BY <1>4 DEF OpenSocket, daemonVars, TypeOK, Runs, NoSock
<1>5. CASE ConnectFails
  BY <1>5 DEF ConnectFails, daemonVars
<1>6. CASE TimerFires
  BY <1>6 DEF TimerFires, Connect, daemonVars
<1>7. CASE Disconnect
  BY <1>7, <1>0a DEF Disconnect, BufferAfterDisconnect
<1>8. CASE PartialLine
  BY <1>8 DEF PartialLine, daemonVars
<1>9. CASE ListAnswer
  BY <1>9 DEF ListAnswer, daemonVars
<1>10. CASE ListTimeout
  BY <1>10 DEF ListTimeout, daemonVars
<1>11. CASE Stop
  BY <1>11, <1>0a DEF Stop, daemonVars
<1>12. ASSUME NEW r \in inbox, CallAnswer(r)
       PROVE  ConnectionInv'
  BY <1>12 DEF CallAnswer
<1>13. ASSUME NEW r \in pendingCall, CallTimeout(r)
       PROVE  ConnectionInv'
  BY <1>13 DEF CallTimeout, connVars, daemonVars
<1>14. CASE StartDaemon
  BY <1>14, <1>0 DEF StartDaemon, connVars, TypeOK
<1>15. ASSUME NEW n \in up, DaemonDies(n)
       PROVE  ConnectionInv'
  BY <1>15 DEF DaemonDies, connVars
<1>16. ASSUME NEW r \in wire, Dispatch(r)
       PROVE  ConnectionInv'
  BY <1>16 DEF Dispatch, connVars
<1>17. ASSUME NEW r \in running, DaemonAnswers(r)
       PROVE  ConnectionInv'
  BY <1>17 DEF DaemonAnswers, connVars
<1>18. QED
  BY <1>1, <1>2, <1>3, <1>4, <1>5, <1>6, <1>7, <1>8, <1>9, <1>10, <1>11,
     <1>12, <1>13, <1>14, <1>15, <1>16, <1>17 DEF Next

\* Waiters are served or told by the step that ends the attempt, and a chain
\* of attempts that ends leaves a connection behind it.
LEMMA StrandedStep == ConnInv /\ [Next]_vars => NeverStranded'
<1> SUFFICES ASSUME TypeOK, ListsNeedASocket, ConnectionInv, NeverStranded, [Next]_vars
             PROVE  NeverStranded'
  BY DEF ConnInv, TypeInv
<1> USE DEF NeverStranded, Waiting
<1>1. CASE UNCHANGED vars
  BY <1>1 DEF vars, connVars, listVars, callVars
<1>2. ASSUME NEW c \in Calls, CallTool(c)
      PROVE  NeverStranded'
  <2>1. connecting' = "no" => Waiting' = {} /\ redialling' = 0 /\ relisting' = 0
    BY <1>2 DEF CallTool, Connect, TypeOK, listVars
  <2>2. QED
    BY <1>2, <2>1 DEF CallTool
<1>3. CASE EnsureRunning
  BY <1>3 DEF EnsureRunning, listVars, callVars
<1>4. CASE OpenSocket
  BY <1>4 DEF OpenSocket, TypeOK, Runs, NoSock
<1>5. CASE ConnectFails
  BY <1>5 DEF ConnectFails, Rescheduled, TypeOK
<1>6. CASE TimerFires
  BY <1>6 DEF TimerFires, Connect, listVars, callVars, TypeOK
<1>7. CASE Disconnect
  <2>1. connecting = "no" /\ redialling = 0 /\ Waiting = {}
    BY <1>7 DEF Disconnect, ConnectionInv
  <2>2. Waiting' = {}
    BY <1>7, <2>1 DEF Disconnect, AfterDisconnect
  <2>3. connecting' = "no" => relisting' = 0
    BY <1>7 DEF Disconnect, TypeOK
  <2>4. timers' + redialling' > 0 /\ redialling' = 0
    BY <1>7, <2>1 DEF Disconnect, TypeOK
  <2>5. QED
    BY <2>2, <2>3, <2>4
<1>8. CASE PartialLine
  BY <1>8 DEF PartialLine, listVars, callVars
<1>9. CASE ListAnswer
  BY <1>9 DEF ListAnswer, callVars, ListsNeedASocket, Alive
<1>10. CASE ListTimeout
  BY <1>10 DEF ListTimeout, callVars
<1>11. CASE Stop
  BY <1>11 DEF Stop, listVars, callVars
<1>12. ASSUME NEW r \in inbox, CallAnswer(r)
       PROVE  NeverStranded'
  <2>1. \A c \in Calls : call'[c] = call[c] \/ call'[c] = "answered"
    BY <1>12 DEF CallAnswer, TypeOK
  <2>2. QED
    BY <1>12, <2>1 DEF CallAnswer, listVars
<1>13. ASSUME NEW r \in pendingCall, CallTimeout(r)
       PROVE  NeverStranded'
  <2>1. \A c \in Calls : call'[c] = call[c] \/ call'[c] = "timeout"
    BY <1>13 DEF CallTimeout, TypeOK
  <2>2. QED
    BY <1>13, <2>1 DEF CallTimeout, connVars, listVars
<1>14. CASE StartDaemon
  BY <1>14 DEF StartDaemon, connVars, listVars, callVars
<1>15. ASSUME NEW n \in up, DaemonDies(n)
       PROVE  NeverStranded'
  BY <1>15 DEF DaemonDies, connVars
<1>16. ASSUME NEW r \in wire, Dispatch(r)
       PROVE  NeverStranded'
  BY <1>16 DEF Dispatch, connVars, listVars
<1>17. ASSUME NEW r \in running, DaemonAnswers(r)
       PROVE  NeverStranded'
  BY <1>17 DEF DaemonAnswers, connVars, listVars, callVars
<1>18. QED
  BY <1>1, <1>2, <1>3, <1>4, <1>5, <1>6, <1>7, <1>8, <1>9, <1>10, <1>11,
     <1>12, <1>13, <1>14, <1>15, <1>16, <1>17 DEF Next

\* Nobody waits for a connection that is not being made, and without one there
\* is always a reconnect timer or an attempt that will start one.
THEOREM ProxyComesBack == Spec => []NeverStranded
<1>1. ConnInv /\ [Next]_vars => ConnInv'
  BY TypeStep, ListsStep, ConnectionStep, StrandedStep DEF ConnInv, TypeInv
<1>2. ConnInv => NeverStranded
  BY DEF ConnInv
<1>3. QED
  BY ConnInit, <1>1, <1>2, PTL DEF Spec

-----------------------------------------------------------------------------
(* Calls.                                                                  *)

CallInv == ConnInv /\ OneRequestEach

LEMMA ConnStep == ConnInv /\ [Next]_vars => ConnInv'
BY TypeStep, ListsStep, ConnectionStep, StrandedStep DEF ConnInv, TypeInv

LEMMA CallInit == Init => CallInv
BY ConnInit DEF Init, CallInv, OneRequestEach, Known

\* A request is made only for a call that has none, so no call has two.
LEMMA OneRequestStep == TypeOK /\ OneRequestEach /\ [Next]_vars => OneRequestEach'
<1> SUFFICES ASSUME TypeOK, OneRequestEach, [Next]_vars
             PROVE  OneRequestEach'
  OBVIOUS
<1> USE DEF OneRequestEach, Known
<1>1. ASSUME UNCHANGED <<call, pendingCall, wire, executed, running, inbox>>
      PROVE  OneRequestEach'
  BY <1>1
<1>2. ASSUME NEW c \in Calls, CallTool(c)
      PROVE  OneRequestEach'
  <2>1. UNCHANGED <<executed, running, inbox>>
    BY <1>2 DEF CallTool, daemonVars
  <2>2. CASE sock = NoSock
    <3>1. UNCHANGED <<pendingCall, wire>> /\ call' = [call EXCEPT ![c] = "connecting"]
      BY <1>2, <2>2 DEF CallTool
    <3>2. \A r \in Known : r.call # c
      BY <1>2 DEF CallTool
    <3>3. \A r \in Known : call'[r.call] = call[r.call]
      BY <3>1, <3>2 DEF TypeOK
    <3>4. QED
      BY <2>1, <3>1, <3>3
  <2>3. CASE sock # NoSock
    <3> DEFINE q == Request(c, 1, sock)
    <3>1. /\ call' = [call EXCEPT ![c] = "open"]
          /\ pendingCall' = pendingCall \cup {q}
          /\ wire' \in SUBSET (wire \cup {q})
      BY <1>2, <2>3 DEF CallTool, Write
    <3>2. q.call = c
      BY DEF Request
    <3> HIDE DEF q
    <3>3. \A r \in Known : r.call # c
      BY <1>2 DEF CallTool
    <3>4. \A r \in Known : call'[r.call] = call[r.call]
      BY <3>1, <3>3 DEF TypeOK
    <3>5. call'[q.call] = "open"
      BY <3>1, <3>2 DEF TypeOK
    <3>6. QED
      BY <2>1, <3>1, <3>2, <3>3, <3>4, <3>5
  <2>4. QED
    BY <2>2, <2>3
<1>3. CASE OpenSocket
  <2> DEFINE again == {Request(c, 2, run) : c \in Waiting}
  <2>1. /\ pendingCall' = pendingCall \cup again
        /\ wire' \in SUBSET (wire \cup again)
        /\ call' = [c \in Calls |-> IF c \in Waiting THEN "open" ELSE call[c]]
        /\ UNCHANGED <<executed, running, inbox>>
    BY <1>3 DEF OpenSocket, Write, daemonVars
  <2>2. \A r \in again : r.call \in Waiting /\ r = Request(r.call, 2, run)
    BY DEF Request
  <2> HIDE DEF again
  <2>3. \A r \in Known : r.call \in Calls /\ r.call \notin Waiting
    BY DEF Waiting, TypeOK, Requests
  <2>4. \A r \in Known : call'[r.call] = call[r.call]
    BY <2>1, <2>3
  <2>5. \A r \in again : call'[r.call] = "open"
    BY <2>1, <2>2 DEF Waiting
  <2>6. QED
    BY <2>1, <2>2, <2>3, <2>4, <2>5
<1>4. CASE ConnectFails
  <2>1. \A r \in Known : r.call \in Calls /\ r.call \notin Waiting
    BY DEF Waiting, TypeOK, Requests
  <2>2. \A r \in Known : call'[r.call] = call[r.call]
    BY <1>4, <2>1 DEF ConnectFails
  <2>3. UNCHANGED <<pendingCall, wire, executed, running, inbox>>
    BY <1>4 DEF ConnectFails, daemonVars
  <2>4. QED
    BY <2>2, <2>3
<1>5. CASE Disconnect
  <2>1. \A r \in Known : r.call \in Calls
    BY DEF TypeOK, Requests
  <2>2. \A r \in Known : call'[r.call] \in {call[r.call], "uncertain"}
    BY <1>5, <2>1 DEF Disconnect, AfterDisconnect
  <2>3. pendingCall' = {} /\ inbox' = {} /\ UNCHANGED <<wire, executed, running>>
    BY <1>5 DEF Disconnect
  <2>4. QED
    BY <2>2, <2>3
<1>6. ASSUME NEW r \in inbox, CallAnswer(r)
      PROVE  OneRequestEach'
  <2>1. inbox' \subseteq inbox /\ UNCHANGED <<wire, executed, running>>
    BY <1>6 DEF CallAnswer
  <2>2. CASE UNCHANGED <<pendingCall, call>>
    BY <2>1, <2>2
  <2>3. CASE /\ r \in pendingCall
             /\ pendingCall' = pendingCall \ {r}
             /\ call' = [call EXCEPT ![r.call] = "answered"]
    <3>1. \A s \in Known : s.call \in Calls
      BY DEF TypeOK, Requests
    <3>2. \A s \in Known : call'[s.call] = IF s = r THEN "answered" ELSE call[s.call]
      BY <2>3, <3>1 DEF TypeOK
    <3>3. QED
      BY <2>1, <2>3, <3>2
  <2>4. QED
    BY <1>6, <2>2, <2>3 DEF CallAnswer
<1>7. ASSUME NEW r \in pendingCall, CallTimeout(r)
      PROVE  OneRequestEach'
  <2>1. /\ pendingCall' = pendingCall \ {r}
        /\ call' = [call EXCEPT ![r.call] = "timeout"]
        /\ UNCHANGED <<wire, executed, running, inbox>>
    BY <1>7 DEF CallTimeout, daemonVars
  <2>2. \A s \in Known : s.call \in Calls
    BY DEF TypeOK, Requests
  <2>3. \A s \in Known : call'[s.call] = IF s = r THEN "timeout" ELSE call[s.call]
    BY <2>1, <2>2 DEF TypeOK
  <2>4. QED
    BY <2>1, <2>3
<1>8. ASSUME NEW n \in up, DaemonDies(n)
      PROVE  OneRequestEach'
  BY <1>8 DEF DaemonDies
<1>9. ASSUME NEW r \in wire, Dispatch(r)
      PROVE  OneRequestEach'
  BY <1>9 DEF Dispatch
<1>10. ASSUME NEW r \in running, DaemonAnswers(r)
       PROVE  OneRequestEach'
  BY <1>10 DEF DaemonAnswers, callVars
<1>11. QED
  BY <1>1, <1>2, <1>3, <1>4, <1>5, <1>6, <1>7, <1>8, <1>9, <1>10
     DEF Next, vars, callVars, daemonVars, EnsureRunning, TimerFires, PartialLine,
         ListAnswer, ListTimeout, Stop, StartDaemon

LEMMA CallStep == CallInv /\ [Next]_vars => CallInv'
BY ConnStep, OneRequestStep DEF CallInv, ConnInv, TypeInv

\* A tool call is carried out at most once, whatever is lost and retried.
THEOREM NeverTwice == Spec => []AtMostOnce
<1>1. CallInv => AtMostOnce
  BY DEF CallInv, OneRequestEach, Known, AtMostOnce
<1>2. QED
  BY CallInit, CallStep, <1>1, PTL DEF Spec

\* A call that failed for want of a daemon may be repeated.
THEOREM RefusalsAreTrue == Spec => []RefusedIsNotDone
<1>1. CallInv => RefusedIsNotDone
  BY DEF CallInv, OneRequestEach, Known, RefusedIsNotDone
<1>2. QED
  BY CallInit, CallStep, <1>1, PTL DEF Spec

-----------------------------------------------------------------------------
(* Pending calls.                                                          *)

\* Over each connection: what LineParses adds to PendingCanBeAnswered is in
\* ConnectionInv.
PendingIsHeld ==
  \A r \in pendingCall :
    Alive => /\ r.on = sock
             /\ sock \in up => r \in wire \cup running \cup inbox

PendingInv == CallInv /\ PendingIsHeld

LEMMA PendingStep == PendingInv /\ [Next]_vars => PendingIsHeld'
<1> SUFFICES ASSUME TypeOK, ConnectionInv, PendingIsHeld, [Next]_vars
             PROVE  PendingIsHeld'
  BY DEF PendingInv, CallInv, ConnInv, TypeInv
<1> USE DEF PendingIsHeld, Alive
<1>0. \A r \in pendingCall : r.on # NoSock
  BY DEF TypeOK, Requests, Runs, NoSock
<1>1. ASSUME UNCHANGED <<sock, up, pendingCall, wire, running, inbox>>,
             phase' # "exited" => phase # "exited"
      PROVE  PendingIsHeld'
  BY <1>1
<1>2. ASSUME NEW c \in Calls, CallTool(c)
      PROVE  PendingIsHeld'
  <2>1. Request(c, 1, sock).on = sock
    BY DEF Request
  <2>2. QED
    BY <1>2, <2>1 DEF CallTool, Write, daemonVars
<1>3. CASE OpenSocket
  <2>1. pendingCall = {}
    BY <1>3, <1>0 DEF OpenSocket, ConnectionInv
  <2>2. \A c \in Waiting : Request(c, 2, run).on = run
    BY DEF Request
  <2>3. QED
    BY <1>3, <2>1, <2>2 DEF OpenSocket, Write, daemonVars
<1>4. CASE Disconnect
  BY <1>4 DEF Disconnect
<1>5. CASE Stop
  BY <1>5 DEF Stop
<1>6. ASSUME NEW r \in inbox, CallAnswer(r)
      PROVE  PendingIsHeld'
  <2>1. r \in pendingCall => pendingCall' = pendingCall \ {r}
    BY <1>6 DEF CallAnswer, LineParses, ConnectionInv
  <2>2. r \notin pendingCall => pendingCall' = pendingCall
    BY <1>6 DEF CallAnswer
  <2>3. inbox' = inbox \ {r} /\ UNCHANGED <<phase, sock, up, wire, running>>
    BY <1>6 DEF CallAnswer
  <2>4. QED
    BY <2>1, <2>2, <2>3
<1>7. ASSUME NEW r \in pendingCall, CallTimeout(r)
      PROVE  PendingIsHeld'
  BY <1>7 DEF CallTimeout, connVars, daemonVars
<1>8. CASE StartDaemon
  <2>1. sock # run + 1
    BY DEF ConnectionInv, TypeOK, Runs, NoSock
  <2>2. QED
    BY <1>8, <2>1 DEF StartDaemon, connVars, callVars
<1>9. ASSUME NEW n \in up, DaemonDies(n)
      PROVE  PendingIsHeld'
  BY <1>9 DEF DaemonDies, connVars
<1>10. ASSUME NEW r \in wire, Dispatch(r)
       PROVE  PendingIsHeld'
  BY <1>10 DEF Dispatch, connVars
<1>11. ASSUME NEW r \in running, DaemonAnswers(r)
       PROVE  PendingIsHeld'
  BY <1>11 DEF DaemonAnswers, connVars, callVars
<1>12. QED
  BY <1>1, <1>2, <1>3, <1>4, <1>5, <1>6, <1>7, <1>8, <1>9, <1>10, <1>11
     DEF Next, vars, connVars, callVars, daemonVars, EnsureRunning, TimerFires,
         PartialLine, ListAnswer, ListTimeout, ConnectFails

\* A pending call is on the present connection, and while the daemon there
\* lives its answer will come and will be understood.
THEOREM PendingIsAnswerable == Spec => []PendingCanBeAnswered
<1>1. Init => PendingInv
  BY CallInit DEF PendingInv, PendingIsHeld, Init
<1>2. PendingInv /\ [Next]_vars => PendingInv'
  BY CallStep, PendingStep DEF PendingInv
<1>3. PendingInv => PendingCanBeAnswered
  BY DEF PendingInv, PendingIsHeld, CallInv, ConnInv, ConnectionInv, LineParses,
         PendingCanBeAnswered
<1>4. QED
  BY <1>1, <1>2, <1>3, PTL DEF Spec

-----------------------------------------------------------------------------
(* The abstract call.  A step in which a call is told something, or takes  *)
(* effect, is one of its steps; all others are stutters.                   *)

status == [c \in Calls |-> Told(c)]
effects == [c \in Calls |-> Cardinality(Executions(c))]

LEMMA ExecutionsAreCounted ==
  ASSUME OneRequestEach, NEW c \in Calls
  PROVE  /\ (\A r \in executed : r.call # c) => effects[c] = 0
         /\ (\E r \in executed : r.call = c) => effects[c] = 1
<1>1. ASSUME \A r \in executed : r.call # c
      PROVE  effects[c] = 0
  BY <1>1, FS_EmptySet DEF effects, Executions
<1>2. ASSUME NEW r \in executed, r.call = c
      PROVE  effects[c] = 1
  <2>1. Executions(c) = {r}
    BY <1>2 DEF Executions, OneRequestEach, Known
  <2>2. QED
    BY <2>1, FS_Singleton DEF effects
<1>3. QED
  BY <1>1, <1>2

LEMMA EffectsStay ==
  ASSUME executed' = executed
  PROVE  effects' = effects
BY DEF effects, Executions

\* Only the status of the calls in S changes, and to t.
Tells(S, t) == \A c \in Calls : Told(c)' = IF c \in S THEN t ELSE Told(c)

LEMMA GiveUpStep ==
  ASSUME NEW S \in SUBSET Calls, \A c \in S : Told(c) = "open",
         Tells(S, "unknown"), executed' = executed
  PROVE  Effect!Next
<1>1. \A c \in S : status[c] = "open"
  BY DEF status
<1>2. status' = [c \in Calls |-> IF c \in S THEN "unknown" ELSE status[c]]
  BY DEF status, Tells
<1>3. Effect!GiveUp(S)
  BY <1>1, <1>2, EffectsStay DEF Effect!GiveUp, status, effects
<1>4. QED
  BY <1>3 DEF Effect!Next

LEMMA RefuseStep ==
  ASSUME OneRequestEach, NEW S \in SUBSET Calls, \A c \in S : Told(c) = "open",
         \A r \in executed : r.call \notin S,
         Tells(S, "refused"), executed' = executed
  PROVE  Effect!Next
<1>1. \A c \in S : status[c] = "open" /\ effects[c] = 0
  BY ExecutionsAreCounted DEF status
<1>2. status' = [c \in Calls |-> IF c \in S THEN "refused" ELSE status[c]]
  BY DEF status, Tells
<1>3. Effect!Refuse(S)
  BY <1>1, <1>2, EffectsStay DEF Effect!Refuse, status, effects
<1>4. QED
  BY <1>3 DEF Effect!Next

LEMMA InvokeStep ==
  ASSUME NEW c \in Calls, Told(c) = "idle", Tells({c}, "open"), executed' = executed
  PROVE  Effect!Next
<1>1. status[c] = "idle" /\ status' = [status EXCEPT ![c] = "open"]
  BY DEF status, Tells
<1>2. Effect!Invoke(c)
  BY <1>1, EffectsStay DEF Effect!Invoke, status, effects
<1>3. QED
  BY <1>2 DEF Effect!Next

LEMMA AnswerStep ==
  ASSUME OneRequestEach, NEW c \in Calls, Told(c) = "open",
         \E r \in executed : r.call = c, Tells({c}, "answered"), executed' = executed
  PROVE  Effect!Next
<1>1. /\ status[c] = "open" /\ effects[c] = 1
      /\ status' = [status EXCEPT ![c] = "answered"]
  BY ExecutionsAreCounted DEF status, Tells
<1>2. Effect!Answer(c)
  BY <1>1, EffectsStay DEF Effect!Answer, status, effects
<1>3. QED
  BY <1>2 DEF Effect!Next

LEMMA ExecuteStep ==
  ASSUME OneRequestEach, NEW r \in executed', r \notin executed, r.call \in Calls,
         executed' = executed \cup {r}, \A s \in executed : s.call # r.call,
         Told(r.call) \in {"open", "unknown"}, Tells({}, "open")
  PROVE  Effect!Next
<1> DEFINE c == r.call
<1>1. effects[c] = 0 /\ status[c] \in {"open", "unknown"}
  BY ExecutionsAreCounted DEF status
<1>2. Executions(c)' = {r}
  BY DEF Executions
<1>3. \A d \in Calls \ {c} : Executions(d)' = Executions(d)
  BY DEF Executions
<1>4. Cardinality({r}) = 1
  BY FS_Singleton
<1>5. effects' = [effects EXCEPT ![c] = 1]
  BY <1>2, <1>3, <1>4 DEF effects
<1>6. status' = status
  BY DEF status, Tells
<1>7. Effect!Execute(c)
  BY <1>1, <1>5, <1>6 DEF Effect!Execute, status, effects
<1>8. QED
  BY <1>7 DEF Effect!Next

LEMMA StutterStep ==
  ASSUME Tells({}, "open"), executed' = executed
  PROVE  UNCHANGED Effect!vars
<1>1. status' = status /\ effects' = effects
  BY EffectsStay DEF status, Tells
<1>2. QED
  BY <1>1 DEF Effect!vars, status, effects

LEMMA RefinementStep == CallInv /\ [Next]_vars => [Effect!Next]_(Effect!vars)
<1> SUFFICES ASSUME TypeOK, OneRequestEach, [Next]_vars
             PROVE  Effect!Next \/ UNCHANGED Effect!vars
  BY DEF CallInv, ConnInv, TypeInv
<1>0. \A r \in Known : r.call \in Calls
  BY DEF Known, TypeOK, Requests
<1>1. ASSUME UNCHANGED <<call, executed>>
      PROVE  UNCHANGED Effect!vars
  <2>1. Tells({}, "open")
    BY <1>1 DEF Tells, Told
  <2>2. QED
    BY <1>1, <2>1, StutterStep
<1>2. ASSUME NEW c \in Calls, CallTool(c)
      PROVE  Effect!Next
  <2>1. /\ call[c] = "idle" /\ executed' = executed
        /\ call' = [call EXCEPT ![c] = "open"] \/ call' = [call EXCEPT ![c] = "connecting"]
    BY <1>2 DEF CallTool, daemonVars
  <2>2. Told(c) = "idle" /\ Tells({c}, "open")
    BY <2>1 DEF Told, Tells, TypeOK
  <2>3. QED
    BY <2>1, <2>2, InvokeStep
<1>3. CASE OpenSocket
  <2>1. executed' = executed /\ \A c \in Calls : call'[c] = IF call[c] = "connecting" THEN "open" ELSE call[c]
    BY <1>3 DEF OpenSocket, Waiting, daemonVars
  <2>2. Tells({}, "open")
    BY <2>1 DEF Tells, Told
  <2>3. QED
    BY <2>1, <2>2, StutterStep
<1>4. CASE ConnectFails
  <2>1. executed' = executed /\ \A c \in Calls : call'[c] = IF c \in Waiting THEN "unreachable" ELSE call[c]
    BY <1>4 DEF ConnectFails, daemonVars
  <2>2. Waiting \in SUBSET Calls /\ \A c \in Waiting : Told(c) = "open"
    BY DEF Waiting, Told
  <2>3. \A r \in executed : r.call \notin Waiting
    BY DEF OneRequestEach, Known, Waiting
  <2>4. Tells(Waiting, "refused")
    BY <2>1 DEF Tells, Told
  <2>5. QED
    BY <2>1, <2>2, <2>3, <2>4, RefuseStep
<1>5. CASE Disconnect
  <2> DEFINE S == {c \in Calls : \E r \in pendingCall : r.call = c}
  <2>1. executed' = executed /\ \A c \in Calls : call'[c] = IF c \in S THEN "uncertain" ELSE call[c]
    BY <1>5 DEF Disconnect, AfterDisconnect
  <2>2. S \in SUBSET Calls /\ \A c \in S : Told(c) = "open"
    BY DEF OneRequestEach, Told
  <2> HIDE DEF S
  <2>3. Tells(S, "unknown")
    BY <2>1 DEF Tells, Told
  <2>4. QED
    BY <2>1, <2>2, <2>3, GiveUpStep
<1>6. ASSUME NEW r \in inbox, CallAnswer(r)
      PROVE  Effect!Next \/ UNCHANGED Effect!vars
  <2>1. executed' = executed /\ r \in executed
    BY <1>6 DEF CallAnswer, OneRequestEach
  <2>2. CASE call' = call
    BY <1>1, <2>1, <2>2
  <2>3. CASE r \in pendingCall /\ call' = [call EXCEPT ![r.call] = "answered"]
    <3>1. r.call \in Calls /\ call[r.call] = "open"
      BY <1>0, <2>3 DEF OneRequestEach, Known
    <3>2. Told(r.call) = "open" /\ Tells({r.call}, "answered")
      BY <2>3, <3>1 DEF Told, Tells, TypeOK
    <3>3. QED
      BY <2>1, <3>1, <3>2, AnswerStep
  <2>4. QED
    BY <1>6, <2>2, <2>3 DEF CallAnswer
<1>7. ASSUME NEW r \in pendingCall, CallTimeout(r)
      PROVE  Effect!Next
  <2>1. executed' = executed /\ call' = [call EXCEPT ![r.call] = "timeout"]
    BY <1>7 DEF CallTimeout, daemonVars
  <2>2. r.call \in Calls /\ call[r.call] = "open"
    BY <1>0 DEF OneRequestEach, Known
  <2>3. Told(r.call) = "open" /\ Tells({r.call}, "unknown")
    BY <2>1, <2>2 DEF Told, Tells, TypeOK
  <2>4. \A c \in {r.call} : Told(c) = "open"
    BY <2>3
  <2>5. {r.call} \in SUBSET Calls
    BY <2>2
  <2>6. QED
    BY <2>1, <2>3, <2>4, <2>5, GiveUpStep
<1>8. ASSUME NEW r \in wire, Dispatch(r)
      PROVE  Effect!Next
  <2>1. executed' = executed \cup {r} /\ call' = call
    BY <1>8 DEF Dispatch
  <2>2. r \notin executed /\ \A s \in executed : s.call # r.call
    BY DEF OneRequestEach, Known
  <2>3. r.call \in Calls /\ call[r.call] \in {"open", "uncertain", "timeout"}
    BY <1>0 DEF OneRequestEach, Known, TypeOK, Settled
  <2>4. Told(r.call) \in {"open", "unknown"} /\ Tells({}, "open")
    BY <2>1, <2>3 DEF Told, Tells
  <2>5. QED
    BY <2>1, <2>2, <2>3, <2>4, ExecuteStep
<1>9. QED
  BY <1>1, <1>2, <1>3, <1>4, <1>5, <1>6, <1>7, <1>8
     DEF Next, vars, callVars, daemonVars, EnsureRunning, TimerFires, PartialLine,
         ListAnswer, ListTimeout, Stop, StartDaemon, DaemonDies, DaemonAnswers

LEMMA RefinementInit == Init => Effect!Init
<1> SUFFICES ASSUME Init
             PROVE  Effect!Init
  OBVIOUS
<1>1. \A c \in Calls : Told(c) = "idle"
  BY DEF Init, Told
<1>2. \A c \in Calls : Executions(c) = {}
  BY DEF Init, Executions
<1>3. QED
  BY <1>1, <1>2, FS_EmptySet DEF Effect!Init

\* Whatever dies and whoever retries, a call of the agent has at most one
\* effect, is answered only after it, and is refused only without it.
THEOREM CallsAreAtMostOnce == Spec => ImplementsToolCall
<1>1. QED
  BY CallInit, CallStep, RefinementInit, RefinementStep, PTL
     DEF Spec, ImplementsToolCall, Effect!Spec
=============================================================================
