------------------------- MODULE DaemonLifecycleProofs -------------------------
(***************************************************************************)
(* A daemon whose rivals are all answered keeps the names it serves under, *)
(* for any number of daemons, clients and mishaps.  The files say nothing  *)
(* of who may write them, so the proof rests on the order in which a start *)
(* and an end go about them: whoever has come past the probe, or is on its *)
(* way out, acts on the names, and a daemon that never was one of two such *)
(* is the only one that can have changed what it finds there.              *)
(***************************************************************************)
EXTENDS DaemonLifecycle, TLAPS

-----------------------------------------------------------------------------
(* The inductive invariant.                                                *)

Going == {"closing", "unlinking"}

(* Those who bind, write or unlink the shared names.                       *)
Acting == entitled \cup {d \in Daemons : process[d] \in Going}

(* A process starts at the beginning of main(), whatever was before.       *)
NotBegun == \A d \in Daemons : ~Alive(d) => boot[d] = "bind"

Entitlement ==
    \A d \in Daemons :
        /\ d \in entitled => Alive(d)
        /\ Alive(d) /\ boot[d] \notin {"bind", "probe"} => d \in entitled

Alone == \A d \in Acting : d \notin crowded => Acting \subseteq {d}

(* What a daemon has by each stage of its start, and keeps.                *)
HasSocket(d) == file["socket"] = d /\ d \in bound

Holds(d) ==
    /\ boot[d] \in {"listening", "token", "port", "ready"} => HasSocket(d)
    /\ boot[d] \in {"token", "port", "ready"} => watched[d] = d
    /\ boot[d] \in {"port", "ready"} => file["token"] = d
    /\ boot[d] = "ready" => port = d

Holding ==
    \A d \in entitled : (d \notin crowded /\ process[d] = "up") => Holds(d)

LifecycleInv == TypeOK /\ NotBegun /\ Entitlement /\ Alone /\ Holding

-----------------------------------------------------------------------------
LEMMA LifecycleInit == Init => LifecycleInv
<1> SUFFICES ASSUME Init PROVE LifecycleInv
  OBVIOUS
<1>1. TypeOK
  BY LifecycleAssumption DEF Init, TypeOK, Files
<1>2. NotBegun /\ Entitlement /\ Alone /\ Holding
  BY DEF Init, NotBegun, Entitlement, Alone, Acting, Going, Holding, Alive
<1>3. QED
  BY <1>1, <1>2 DEF LifecycleInv

(* A daemon that was never one of two and is not on its way out holds what *)
(* its start has brought it.                                               *)
LEMMA WasHolding ==
    ASSUME LifecycleInv, NEW d \in Daemons, process[d] = "up", d \notin crowded
    PROVE  Holds(d)
<1>1. CASE boot[d] \in {"bind", "probe"}
  BY <1>1 DEF Holds
<1>2. CASE boot[d] \notin {"bind", "probe"}
  <2>1. d \in entitled
    BY <1>2 DEF LifecycleInv, Entitlement, Alive
  <2>2. QED
    BY <2>1 DEF LifecycleInv, Holding
<1>3. QED
  BY <1>1, <1>2

-----------------------------------------------------------------------------
(* What the history makes of a step.                                       *)

(* The names are free, or nobody answered.                                 *)
Entered(d) ==
    \/ boot[d] = "bind" /\ boot'[d] = "listening"
    \/ boot[d] = "probe" /\ boot'[d] = "unlink" /\ (~Reachable \/ mishaps' # mishaps)

(* Nobody comes past the probe in another way.                             *)
NobodyJumps ==
    \A d \in Daemons :
        (Alive(d)' /\ boot'[d] \notin {"bind", "probe"})
            => Entered(d) \/ (Alive(d) /\ boot[d] \notin {"bind", "probe"})

(* What an operation has to show: who acts on the names afterwards acts    *)
(* alone, and holds them, unless it was crowded before.                    *)
HoldsAgain ==
    \A d \in Daemons :
        (process'[d] = "up" /\ d \notin crowded /\ Acting' \subseteq {d}) => Holds(d)'

LEMMA NowActing ==
    ASSUME LifecycleInv, Remember, NEW d \in Daemons, Alive(d)',
           d \in entitled \/ Entered(d) \/ process'[d] \in Going
    PROVE  d \in Acting'
BY DEF Remember, Entered, Acting, Going

LEMMA Remembered ==
    ASSUME LifecycleInv, TypeOK', NotBegun', NobodyJumps, Remember, HoldsAgain
    PROVE  LifecycleInv'
<1> DEFINE entered == {d \in Daemons : Entered(d)}
           may == {d \in entitled \cup entered : Alive(d)'}
           now == may \cup {d \in Daemons : process'[d] \in Going}
<1>1. /\ entitled' = may
      /\ crowded' = IF \E d, e \in now : d # e THEN now ELSE crowded \cap now
  BY DEF Remember, Entered, Going
<1>2. Acting' = now
  BY <1>1 DEF Acting
<1>3. entitled \subseteq Daemons
  BY DEF LifecycleInv, TypeOK
<1> HIDE DEF now
<1>4. Entitlement'
  <2> SUFFICES ASSUME NEW d \in Daemons
               PROVE  /\ d \in entitled' => Alive(d)'
                      /\ Alive(d)' /\ boot'[d] \notin {"bind", "probe"} => d \in entitled'
    BY DEF Entitlement
  <2>1. d \in entitled' => Alive(d)'
    BY <1>1
  <2>2. ASSUME Alive(d)', boot'[d] \notin {"bind", "probe"} PROVE d \in entitled'
    <3>1. Entered(d) \/ d \in entitled
      BY <2>2 DEF NobodyJumps, LifecycleInv, Entitlement
    <3>2. QED
      BY <1>1, <2>2, <3>1
  <2>3. QED
    BY <2>1, <2>2
<1>5. \A d \in now : d \notin crowded' => d \notin crowded /\ now \subseteq {d}
  BY <1>1
<1>6. Alone'
  BY <1>2, <1>5 DEF Alone
<1>7. Holding'
  <2> SUFFICES ASSUME NEW d \in entitled', d \notin crowded', process'[d] = "up"
               PROVE  Holds(d)'
    BY DEF Holding
  <2>1. d \in Daemons /\ d \in now
    BY <1>1, <1>2, <1>3 DEF Acting
  <2>2. QED
    BY <1>2, <1>5, <2>1 DEF HoldsAgain
<1>8. QED
  BY <1>4, <1>6, <1>7 DEF LifecycleInv

-----------------------------------------------------------------------------
(* Steps that leave the names, and what the others have, alone.            *)

Harmless ==
    /\ UNCHANGED file
    /\ \A d \in Daemons :
         process'[d] = "up" =>
           /\ boot'[d] \in {"bind", "probe", "unlink"} \/ (boot'[d] = boot[d] /\ process[d] = "up")
           /\ watched'[d] = watched[d]
           /\ d \in bound => d \in bound'
           /\ port = d => port' = d

LEMMA HarmlessHolds == ASSUME LifecycleInv, Harmless PROVE HoldsAgain
<1> SUFFICES ASSUME NEW d \in Daemons, process'[d] = "up", d \notin crowded
             PROVE  Holds(d)'
  BY DEF HoldsAgain
<1>1. CASE boot'[d] \in {"bind", "probe", "unlink"}
  BY <1>1 DEF Holds
<1>2. CASE boot'[d] = boot[d] /\ process[d] = "up"
  <2>1. Holds(d)
    BY <1>2, WasHolding
  <2>2. QED
    BY <1>2, <2>1 DEF Holds, HasSocket, Harmless
<1>3. QED
  BY <1>1, <1>2 DEF Harmless

-----------------------------------------------------------------------------
(* Types.                                                                  *)

SystemTypes ==
    /\ file \in [Files -> Daemons \cup {Dead, None}]
    /\ port \in Daemons \cup {None}
    /\ process \in [Daemons -> {"absent", "up", "closing", "unlinking", "gone"}]
    /\ boot \in [Daemons -> {"bind", "probe", "unlink", "rebind", "listening",
                             "token", "port", "ready"}]
    /\ bound \subseteq Daemons
    /\ watched \in [Daemons -> Daemons \cup {Dead, None}]
    /\ leaving \subseteq Daemons
    /\ idle \subseteq Daemons
    /\ clients \in [Daemons -> SUBSET Clients]
    /\ todo \in [Daemons -> SUBSET Files]
    /\ client \in [Clients -> {"idle", "polling", "found", "connected"}]

LEMMA EndsTypes == ASSUME SystemTypes, NEW d \in Daemons, Ends(d) PROVE SystemTypes'
BY DEF SystemTypes, Ends

LEMMA ShutdownTypes == ASSUME SystemTypes, NEW d \in Daemons, shutdown(d) PROVE SystemTypes'
BY DEF SystemTypes, shutdown

LEMMA ClientTypes == ASSUME SystemTypes, NEW c \in Clients, ClientStep(c) PROVE SystemTypes'
<1>0. Reachable => file["socket"] \in Daemons
  BY DEF Reachable, SystemTypes
<1>1. CASE ensureDaemonRunning(c)
  <2>1. CASE Reachable
    BY <1>0, <1>1, <2>1 DEF ensureDaemonRunning, Probed, SystemTypes
  <2>2. CASE ~Reachable
    <3> DEFINE d == CHOOSE d \in Absent : TRUE
    <3>1. d \in Daemons
      BY <1>1, <2>2 DEF ensureDaemonRunning, Absent
    <3> HIDE DEF d
    <3>2. QED
      BY <1>1, <2>2, <3>1 DEF ensureDaemonRunning, SystemTypes, d
  <2>3. QED
    BY <2>1, <2>2
<1>2. CASE PollFinds(c)
  BY <1>0, <1>2 DEF PollFinds, Probed, SystemTypes
<1>3. CASE PollGivesUp(c)
  BY <1>3 DEF PollGivesUp, SystemTypes
<1>4. CASE openSocket(c)
  BY <1>0, <1>4 DEF openSocket, SystemTypes
<1>5. ASSUME NEW d \in Daemons, disconnectClient(c, d) PROVE SystemTypes'
  BY <1>5 DEF disconnectClient, scheduleIdleExitCheck, SystemTypes
<1>6. QED
  BY <1>1, <1>2, <1>3, <1>4, <1>5 DEF ClientStep

LEMMA BootTypes == ASSUME SystemTypes, NEW d \in Daemons, Boot(d) PROVE SystemTypes'
<1>0. Reachable => file["socket"] \in Daemons
  BY DEF Reachable, SystemTypes
<1>1. CASE startUdsServer(d)
  BY <1>1 DEF startUdsServer, GoesOn, SystemTypes, Files
<1>2. CASE AddressInUse(d)
  BY <1>2 DEF AddressInUse, GoesOn, SystemTypes
<1>3. CASE RebindFails(d)
  BY <1>3, EndsTypes DEF RebindFails
<1>4. CASE probeAlive(d)
  BY <1>0, <1>4 DEF probeAlive, Probed, GoesOn, SystemTypes
<1>5. CASE UnlinkStale(d)
  BY <1>5 DEF UnlinkStale, GoesOn, SystemTypes
<1>6. CASE startUdsFileMonitor(d)
  BY <1>6 DEF startUdsFileMonitor, GoesOn, SystemTypes, Files
<1>7. CASE WriteToken(d)
  BY <1>7 DEF WriteToken, GoesOn, SystemTypes
<1>8. CASE startWebSocketServer(d)
  BY <1>8 DEF startWebSocketServer, GoesOn, SystemTypes
<1>9. CASE PortInUse(d)
  BY <1>9, EndsTypes DEF PortInUse
<1>10. QED
  BY <1>1, <1>2, <1>3, <1>4, <1>5, <1>6, <1>7, <1>8, <1>9 DEF Boot

LEMMA LeaveTypes == ASSUME SystemTypes, NEW d \in Daemons, Leave(d) PROVE SystemTypes'
<1>1. CASE MonitorPolls(d)
  BY <1>1 DEF MonitorPolls, SystemTypes
<1>2. CASE MonitorExits(d) \/ IdleExit(d)
  BY <1>2, ShutdownTypes DEF MonitorExits, IdleExit
<1>3. CASE ServersClosed(d)
  BY <1>3 DEF ServersClosed, SystemTypes
<1>4. ASSUME NEW f \in Files, UnlinkFile(d, f) PROVE SystemTypes'
  BY <1>4 DEF UnlinkFile, SystemTypes
<1>5. CASE Exit(d) \/ ForceExit(d)
  BY <1>5, EndsTypes DEF Exit, ForceExit
<1>6. QED
  BY <1>1, <1>2, <1>3, <1>4, <1>5 DEF Leave

LEMMA MishapTypes ==
    ASSUME SystemTypes,
           \/ \E d \in Daemons : ProbeTimesOut(d) \/ Crash(d) \/ Signal(d)
           \/ SocketRemoved
    PROVE  SystemTypes'
<1>1. ASSUME NEW d \in Daemons, ProbeTimesOut(d) PROVE SystemTypes'
  BY <1>1 DEF ProbeTimesOut, GoesOn, SystemTypes
<1>2. ASSUME NEW d \in Daemons, Crash(d) \/ Signal(d) PROVE SystemTypes'
  BY <1>2, EndsTypes, ShutdownTypes DEF Crash, Signal
<1>3. CASE SocketRemoved
  BY <1>3 DEF SocketRemoved, SystemTypes
<1>4. QED
  BY <1>1, <1>2, <1>3

LEMMA TypeStep == TypeOK /\ Next => TypeOK'
<1> SUFFICES ASSUME TypeOK, Next PROVE TypeOK'
  OBVIOUS
<1>1. SystemTypes
  BY DEF TypeOK, SystemTypes
<1>2. SystemTypes'
  BY <1>1, ClientTypes, BootTypes, LeaveTypes, MishapTypes DEF Next, Planned, Mishap
<1>3. Remember => entitled' \subseteq Daemons /\ crowded' \subseteq Daemons
  BY DEF TypeOK, Remember
<1>4. CASE Planned
  BY <1>2, <1>3, <1>4 DEF Planned, TypeOK, SystemTypes
<1>5. CASE Mishap
  <2>1. mishaps' \in 0..MaxMishaps
    BY <1>5, LifecycleAssumption DEF Mishap, TypeOK
  <2>2. entitled' \subseteq Daemons /\ crowded' \subseteq Daemons
    BY <1>3, <1>5 DEF Mishap, TypeOK
  <2>3. QED
    BY <1>2, <2>1, <2>2 DEF TypeOK, SystemTypes
<1>6. QED
  BY <1>4, <1>5 DEF Next

-----------------------------------------------------------------------------
(* Operations that leave the names alone.                                  *)

LEMMA HarmlessStep ==
    ASSUME LifecycleInv, TypeOK', NotBegun', NobodyJumps, Harmless, Remember
    PROVE  LifecycleInv'
BY HarmlessHolds, Remembered

LEMMA ClientHarms == ASSUME LifecycleInv, NEW c \in Clients, ClientStep(c)
                     PROVE  NotBegun' /\ NobodyJumps /\ Harmless
<1>0. TypeOK /\ NotBegun
  BY DEF LifecycleInv
<1>1. CASE ensureDaemonRunning(c) /\ ~Reachable
  <2> DEFINE d == CHOOSE d \in Absent : TRUE
  <2>1. d \in Daemons /\ process[d] = "absent"
    BY <1>1 DEF ensureDaemonRunning, Absent
  <2>2. process' = [process EXCEPT ![d] = "up"] /\ UNCHANGED <<file, port, boot, bound, watched>>
    BY <1>1 DEF ensureDaemonRunning
  <2> HIDE DEF d
  <2>3. QED
    BY <1>0, <2>1, <2>2 DEF NotBegun, NobodyJumps, Harmless, Alive, TypeOK
<1>2. CASE UNCHANGED <<file, port, process, boot, bound, watched>>
  BY <1>0, <1>2 DEF NotBegun, NobodyJumps, Harmless, Alive
<1>3. ASSUME ~(ensureDaemonRunning(c) /\ ~Reachable)
      PROVE  UNCHANGED <<file, port, process, boot, bound, watched>>
  BY <1>3 DEF ClientStep, ensureDaemonRunning, PollFinds, PollGivesUp, openSocket, disconnectClient
<1>4. QED
  BY <1>1, <1>2, <1>3

LEMMA EndsHarms == ASSUME LifecycleInv, NEW d \in Daemons, Ends(d)
                   PROVE  NotBegun' /\ NobodyJumps /\ Harmless
BY DEF LifecycleInv, NotBegun, NobodyJumps, Harmless, Alive, TypeOK, Ends

LEMMA ProbeHarms == ASSUME LifecycleInv, NEW d \in Daemons,
                           \/ AddressInUse(d)
                           \/ probeAlive(d)
                           \/ ProbeTimesOut(d) /\ mishaps' = mishaps + 1
                    PROVE  NotBegun' /\ NobodyJumps /\ Harmless
<1>1. CASE AddressInUse(d)
  BY <1>1 DEF LifecycleInv, NotBegun, NobodyJumps, Harmless, Alive, TypeOK, AddressInUse, At, GoesOn
<1>2. CASE probeAlive(d)
  BY <1>2 DEF LifecycleInv, NotBegun, NobodyJumps, Harmless, Alive, TypeOK, probeAlive, At, GoesOn, Entered
<1>3. CASE ProbeTimesOut(d) /\ mishaps' = mishaps + 1
  <2>1. mishaps' # mishaps
    BY <1>3 DEF LifecycleInv, TypeOK
  <2>2. QED
    BY <1>3, <2>1 DEF LifecycleInv, NotBegun, NobodyJumps, Harmless, Alive, TypeOK, ProbeTimesOut, At, GoesOn, Entered
<1>4. QED
  BY <1>1, <1>2, <1>3

LEMMA WaitHarms == ASSUME LifecycleInv, NEW d \in Daemons, MonitorPolls(d) \/ ServersClosed(d)
                   PROVE  NotBegun' /\ NobodyJumps /\ Harmless
BY DEF LifecycleInv, NotBegun, NobodyJumps, Harmless, Alive, TypeOK, MonitorPolls, ServersClosed

-----------------------------------------------------------------------------
(* Operations on the names.  Whoever takes such a step acts on them        *)
(* afterwards: one that acts alone has taken it itself.                    *)

LEMMA TakesSocket == ASSUME LifecycleInv, TypeOK', Remember, NEW e \in Daemons, startUdsServer(e)
                     PROVE  LifecycleInv'
<1>0. TypeOK /\ NotBegun /\ Alive(e) /\ Alive(e)'
  BY DEF LifecycleInv, startUdsServer, At, Alive
<1>1. NotBegun' /\ NobodyJumps
  BY <1>0 DEF startUdsServer, At, GoesOn, NotBegun, NobodyJumps, Alive, TypeOK, Entered
<1>2. e \in Acting'
  <2>1. e \in entitled \/ Entered(e)
    BY <1>0 DEF startUdsServer, At, GoesOn, TypeOK, Entered, LifecycleInv, Entitlement
  <2>2. QED
    BY <1>0, <2>1, NowActing
<1>3. HoldsAgain
  <2> SUFFICES ASSUME NEW d \in Daemons, process'[d] = "up", d \notin crowded, Acting' \subseteq {d}
               PROVE  Holds(d)'
    BY DEF HoldsAgain
  <2>1. d = e
    BY <1>2
  <2>2. QED
    BY <1>0, <2>1 DEF startUdsServer, GoesOn, Holds, HasSocket, TypeOK, Files
<1>4. QED
  BY <1>1, <1>3, Remembered

LEMMA ActsOnNames ==
    ASSUME LifecycleInv, TypeOK', Remember, NEW e \in Daemons,
           UnlinkStale(e) \/ startUdsFileMonitor(e) \/ WriteToken(e) \/ startWebSocketServer(e)
    PROVE  LifecycleInv'
<1>0. TypeOK /\ NotBegun /\ Alive(e) /\ Alive(e)' /\ UNCHANGED process
  BY DEF LifecycleInv, UnlinkStale, startUdsFileMonitor, WriteToken, startWebSocketServer, At, Alive
<1>1. boot[e] \in {"unlink", "listening", "token", "port"}
  BY DEF UnlinkStale, startUdsFileMonitor, WriteToken, startWebSocketServer, At
<1>2. \A d \in Daemons : d # e => boot'[d] = boot[d]
  BY <1>0 DEF UnlinkStale, startUdsFileMonitor, WriteToken, startWebSocketServer, GoesOn, TypeOK
<1>3. NotBegun' /\ NobodyJumps
  BY <1>0, <1>1, <1>2 DEF NotBegun, NobodyJumps, Alive
<1>4. e \in Acting'
  <2>1. e \in entitled
    BY <1>0, <1>1 DEF LifecycleInv, Entitlement
  <2>2. QED
    BY <1>0, <2>1, NowActing
<1>5. HoldsAgain
  <2> SUFFICES ASSUME process'[e] = "up", e \notin crowded
               PROVE  Holds(e)'
    BY <1>4 DEF HoldsAgain
  <2>1. Holds(e)
    BY <1>0, WasHolding
  <2>2. CASE UnlinkStale(e)
    BY <1>0, <2>2 DEF UnlinkStale, GoesOn, Holds, TypeOK
  <2>3. CASE startUdsFileMonitor(e)
    BY <1>0, <2>1, <2>3 DEF startUdsFileMonitor, At, GoesOn, Holds, HasSocket, TypeOK
  <2>4. CASE WriteToken(e)
    BY <1>0, <2>1, <2>4 DEF WriteToken, At, GoesOn, Holds, HasSocket, TypeOK, Files
  <2>5. CASE startWebSocketServer(e)
    BY <1>0, <2>1, <2>5 DEF startWebSocketServer, At, GoesOn, Holds, HasSocket, TypeOK
  <2>6. QED
    BY <2>2, <2>3, <2>4, <2>5
<1>6. QED
  BY <1>0, <1>3, <1>5, Remembered

LEMMA GivesUpNames ==
    ASSUME LifecycleInv, TypeOK', Remember, NEW e \in Daemons,
           shutdown(e) \/ \E f \in Files : UnlinkFile(e, f)
    PROVE  LifecycleInv'
<1>0. TypeOK /\ NotBegun /\ Alive(e) /\ UNCHANGED boot
  BY DEF LifecycleInv, shutdown, UnlinkFile, Alive
<1>1. process'[e] \in Going /\ \A d \in Daemons : d # e => process'[d] = process[d]
  BY <1>0 DEF shutdown, UnlinkFile, Going, TypeOK
<1>2. NotBegun' /\ NobodyJumps
  BY <1>0, <1>1 DEF NotBegun, NobodyJumps, Alive, Going
<1>3. e \in Acting'
  BY <1>1 DEF Acting
<1>4. HoldsAgain
  BY <1>1, <1>3 DEF HoldsAgain, Going
<1>5. QED
  BY <1>2, <1>4, Remembered

LEMMA LosesSocket ==
    ASSUME LifecycleInv, TypeOK', SocketRemoved,
           crowded' = crowded \cup ({file["socket"]} \cap Daemons), UNCHANGED entitled
    PROVE  LifecycleInv'
<1>0. TypeOK /\ UNCHANGED <<port, process, boot, bound, watched>>
  BY DEF LifecycleInv, SocketRemoved
<1>1. NotBegun' /\ Entitlement'
  BY <1>0 DEF LifecycleInv, NotBegun, Entitlement, Alive
<1>2. Alone'
  BY <1>0 DEF LifecycleInv, Alone, Acting
<1>3. Holding'
  <2> SUFFICES ASSUME NEW d \in entitled, d \notin crowded, d # file["socket"], process[d] = "up"
               PROVE  Holds(d)'
    BY <1>0 DEF Holding, TypeOK
  <2>1. d \in Daemons /\ Holds(d)
    BY <1>0 DEF LifecycleInv, Holding, TypeOK
  <2>2. boot[d] \notin {"listening", "token", "port", "ready"}
    BY <2>1 DEF Holds, HasSocket
  <2>3. QED
    BY <1>0, <2>2 DEF Holds
<1>4. QED
  BY <1>1, <1>2, <1>3 DEF LifecycleInv

-----------------------------------------------------------------------------
LEMMA PlannedStep == ASSUME LifecycleInv, TypeOK', Planned PROVE LifecycleInv'
<1>0. Remember
  BY DEF Planned
<1>1. ASSUME NEW c \in Clients, ClientStep(c) PROVE LifecycleInv'
  BY <1>0, <1>1, ClientHarms, HarmlessStep
<1>2. ASSUME NEW d \in Daemons, Boot(d) PROVE LifecycleInv'
  <2>1. CASE startUdsServer(d)
    BY <1>0, <2>1, TakesSocket
  <2>2. CASE UnlinkStale(d) \/ startUdsFileMonitor(d) \/ WriteToken(d) \/ startWebSocketServer(d)
    BY <1>0, <2>2, ActsOnNames
  <2>3. CASE AddressInUse(d) \/ probeAlive(d)
    BY <1>0, <2>3, ProbeHarms, HarmlessStep
  <2>4. CASE RebindFails(d) \/ PortInUse(d)
    BY <1>0, <2>4, EndsHarms, HarmlessStep DEF RebindFails, PortInUse
  <2>5. QED
    BY <1>2, <2>1, <2>2, <2>3, <2>4 DEF Boot
<1>3. ASSUME NEW d \in Daemons, Leave(d) PROVE LifecycleInv'
  <2>1. CASE MonitorPolls(d) \/ ServersClosed(d)
    BY <1>0, <2>1, WaitHarms, HarmlessStep
  <2>2. CASE MonitorExits(d) \/ IdleExit(d) \/ \E f \in Files : UnlinkFile(d, f)
    BY <1>0, <2>2, GivesUpNames DEF MonitorExits, IdleExit
  <2>3. CASE Exit(d) \/ ForceExit(d)
    BY <1>0, <2>3, EndsHarms, HarmlessStep DEF Exit, ForceExit
  <2>4. QED
    BY <1>3, <2>1, <2>2, <2>3 DEF Leave
<1>4. QED
  BY <1>1, <1>2, <1>3 DEF Planned

LEMMA MishapStep == ASSUME LifecycleInv, TypeOK', Mishap PROVE LifecycleInv'
<1>0. mishaps' = mishaps + 1
  BY DEF Mishap
<1>1. ASSUME NEW d \in Daemons, ProbeTimesOut(d), Remember PROVE LifecycleInv'
  BY <1>0, <1>1, ProbeHarms, HarmlessStep
<1>2. ASSUME NEW d \in Daemons, Crash(d), Remember PROVE LifecycleInv'
  BY <1>2, EndsHarms, HarmlessStep DEF Crash
<1>3. ASSUME NEW d \in Daemons, Signal(d), Remember PROVE LifecycleInv'
  BY <1>3, GivesUpNames DEF Signal
<1>4. QED
  BY <1>1, <1>2, <1>3, LosesSocket DEF Mishap

LEMMA LifecycleStep == LifecycleInv /\ [Next]_vars => LifecycleInv'
<1> SUFFICES ASSUME LifecycleInv, [Next]_vars PROVE LifecycleInv'
  OBVIOUS
<1>1. CASE Next
  <2>1. TypeOK'
    BY <1>1, TypeStep DEF LifecycleInv
  <2>2. QED
    BY <1>1, <2>1, PlannedStep, MishapStep DEF Next
<1>2. CASE UNCHANGED vars
  BY <1>2 DEF vars, system, LifecycleInv, TypeOK, NotBegun, Entitlement, Alone, Acting, Holding,
              Holds, HasSocket, Alive
<1>3. QED
  BY <1>1, <1>2

-----------------------------------------------------------------------------
(* However many daemons are started beside a running one and leave again,  *)
(* and whatever crashes: while the probes of the others are answered, and  *)
(* none of them is on its way out beside it, a daemon that has started     *)
(* keeps socket, token and port, and watches its own file.                 *)
THEOREM TheLoneDaemonServes == Spec => []LoneDaemonServes
<1>1. LifecycleInv => LoneDaemonServes
  <2> SUFFICES ASSUME LifecycleInv, NEW d \in Daemons, d \notin crowded,
                      process[d] = "up", boot[d] = "ready"
               PROVE  file = [f \in Files |-> d] /\ port = d /\ d \in bound /\ watched[d] = d
    BY DEF LoneDaemonServes
  <2>1. Holds(d)
    BY WasHolding
  <2>2. file \in [Files -> Daemons \cup {Dead, None}]
    BY DEF LifecycleInv, TypeOK
  <2>3. file = [f \in Files |-> d]
    BY <2>1, <2>2 DEF Holds, HasSocket, Files
  <2>4. QED
    BY <2>1, <2>3 DEF Holds, HasSocket
<1>2. QED
  BY <1>1, LifecycleInit, LifecycleStep, PTL DEF Spec
=============================================================================
