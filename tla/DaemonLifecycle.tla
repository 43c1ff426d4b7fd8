---------------------------- MODULE DaemonLifecycle ----------------------------
(***************************************************************************)
(* How daemons come and go: MCP servers that start one when they find none *)
(* (spawn.ts), the start of a daemon, the monitor of its socket file, its  *)
(* idle exit and its shutdown (index.ts).  Daemons share three files they  *)
(* know by name only, and one port; a file is named here after the daemon  *)
(* that made it.  Nobody holds a lock: who may go on is decided by a bind, *)
(* a probe and an unlink, and between any two of them others take steps.   *)
(* Unix; on Windows the socket is a pipe that needs none of this.          *)
(***************************************************************************)
EXTENDS Naturals

CONSTANTS
    Daemons,     \* the daemon processes there will ever be: a bound
    Clients,     \* MCP servers
    MaxMishaps,  \* bound: crashes, signals, removed files, probes that time out
    Dead,        \* a daemon that was gone before all this
    None

ASSUME LifecycleAssumption ==
    /\ None \notin Daemons \cup {Dead}
    /\ Dead \notin Daemons
    /\ MaxMishaps \in Nat

Files == {"socket", "token"}

VARIABLES
    file,     \* the state directory: per name the daemon whose file it is, or None
    port,     \* the daemon that listens on the WebSocket port, or None
    process,  \* "absent", "up", "closing", "unlinking" or "gone"
    boot,     \* how far main() has come
    bound,    \* daemons that listen on the socket they made
    watched,  \* udsInodeKey: whose file the monitor compares with, or None
    leaving,  \* daemons whose udsMonitorExitTimer runs
    idle,     \* daemons whose idleExitTimer runs
    clients,  \* per daemon, its clients
    todo,     \* per daemon, the files its shutdown has still to unlink
    client,   \* where each MCP server is
    entitled, \* history: daemons that took a free name or got no answer
    crowded,  \* history: those that were so entitled, or on their way out,
              \* beside another
    mishaps

system == <<file, port, process, boot, bound, watched, leaving, idle, clients,
            todo, client>>
vars == <<system, entitled, crowded, mishaps>>

Init ==
    /\ file \in {[f \in Files |-> owner] : owner \in {None, Dead}}
    /\ port = None
    /\ process = [d \in Daemons |-> "absent"]
    /\ boot = [d \in Daemons |-> "bind"]
    /\ bound = {}
    /\ watched = [d \in Daemons |-> None]
    /\ leaving = {}
    /\ idle = {}
    /\ clients = [d \in Daemons |-> {}]
    /\ todo = [d \in Daemons |-> {}]
    /\ client = [c \in Clients |-> "idle"]
    /\ entitled = {}
    /\ crowded = {}
    /\ mishaps = 0

Alive(d) == process[d] \in {"up", "closing", "unlinking"}

(* A connect to the socket's path succeeds.                                *)
Reachable == file["socket"] \in bound

(* A probe is a client that comes and goes: it leaves the idle timer armed *)
(* unless there are others.                                                *)
Probed == idle' = IF clients[file["socket"]] = {} THEN idle \cup {file["socket"]} ELSE idle

-----------------------------------------------------------------------------
(* An MCP server, spawn.ts.                                                *)

Absent == {d \in Daemons : process[d] = "absent"}

(* Somebody answers the probe, or a new process is started, detached; one  *)
(* unborn daemon is as good as another.                                    *)
ensureDaemonRunning(c) ==
    /\ client[c] = "idle"
    /\ IF Reachable
       THEN client' = [client EXCEPT ![c] = "found"] /\ Probed /\ UNCHANGED process
       ELSE /\ Absent # {}
            /\ process' = [process EXCEPT ![CHOOSE d \in Absent : TRUE] = "up"]
            /\ client' = [client EXCEPT ![c] = "polling"]
            /\ UNCHANGED idle
    /\ UNCHANGED <<file, port, boot, bound, watched, leaving, clients, todo>>

PollFinds(c) ==
    /\ client[c] = "polling"
    /\ Reachable
    /\ client' = [client EXCEPT ![c] = "found"]
    /\ Probed
    /\ UNCHANGED <<file, port, process, boot, bound, watched, leaving, clients, todo>>

(* Three seconds are over; the proxy starts again later.                   *)
PollGivesUp(c) ==
    /\ client[c] = "polling"
    /\ client' = [client EXCEPT ![c] = "idle"]
    /\ UNCHANGED <<file, port, process, boot, bound, watched, leaving, idle, clients, todo>>

(* The proxy's own connection, if the daemon is still there.               *)
openSocket(c) ==
    /\ client[c] = "found"
    /\ IF Reachable
       THEN /\ client' = [client EXCEPT ![c] = "connected"]
            /\ clients' = [clients EXCEPT ![file["socket"]] = @ \cup {c}]
            /\ idle' = idle \ {file["socket"]}
       ELSE client' = [client EXCEPT ![c] = "idle"] /\ UNCHANGED <<clients, idle>>
    /\ UNCHANGED <<file, port, process, boot, bound, watched, leaving, todo>>

(* Not the code: the timer is armed at the start only. *)
IdleUnchanged(d) == UNCHANGED idle

(* Only the last client's departure arms the timer, and once.              *)
scheduleIdleExitCheck(d) ==
    idle' = IF clients'[d] = {} THEN idle \cup {d} ELSE idle \ {d}

disconnectClient(c, d) ==
    /\ c \in clients[d]
    /\ clients' = [clients EXCEPT ![d] = @ \ {c}]
    /\ client' = [client EXCEPT ![c] = "idle"]
    /\ scheduleIdleExitCheck(d)
    /\ UNCHANGED <<file, port, process, boot, bound, watched, leaving, todo>>

-----------------------------------------------------------------------------
(* The end of a process: what the operating system takes back.  Files stay.*)
Ends(d) ==
    /\ process' = [process EXCEPT ![d] = "gone"]
    /\ bound' = bound \ {d}
    /\ port' = IF port = d THEN None ELSE port
    /\ leaving' = leaving \ {d}
    /\ idle' = idle \ {d}
    /\ clients' = [clients EXCEPT ![d] = {}]
    /\ client' = [c \in Clients |-> IF c \in clients[d] THEN "idle" ELSE client[c]]
    /\ todo' = [todo EXCEPT ![d] = {}]
    /\ boot' = [boot EXCEPT ![d] = "bind"]
    /\ watched' = [watched EXCEPT ![d] = None]
    /\ UNCHANGED file

At(d, stage) == Alive(d) /\ boot[d] = stage

GoesOn(d, stage) == boot' = [boot EXCEPT ![d] = stage]

-----------------------------------------------------------------------------
(* main().  It goes on while a shutdown is under way.                      *)

(* A bind fails on a name that exists, whether anyone listens or not.      *)
startUdsServer(d) ==
    /\ At(d, "bind") \/ At(d, "rebind")
    /\ file["socket"] = None
    /\ file' = [file EXCEPT !["socket"] = d]
    /\ bound' = bound \cup {d}
    /\ GoesOn(d, "listening")
    /\ UNCHANGED <<port, process, watched, leaving, idle, clients, todo, client>>

AddressInUse(d) ==
    /\ At(d, "bind")
    /\ file["socket"] # None
    /\ GoesOn(d, "probe")
    /\ UNCHANGED <<file, port, process, bound, watched, leaving, idle, clients, todo, client>>

(* The second bind is not tried again: main() ends the process.            *)
RebindFails(d) ==
    /\ At(d, "rebind")
    /\ file["socket"] # None
    /\ Ends(d)

(* Not the code: a daemon that is found does not stop the start. *)
IgnoresTheLiving(d) ==
    /\ At(d, "probe")
    /\ GoesOn(d, "unlink")
    /\ UNCHANGED <<file, port, process, bound, watched, leaving, idle, clients, todo, client>>

(* probeAlive: another daemon answers, and this one exits 0; or nobody     *)
(* does, and the socket is stale.                                          *)
probeAlive(d) ==
    /\ At(d, "probe")
    /\ IF Reachable
       THEN process' = [process EXCEPT ![d] = "gone"] /\ GoesOn(d, "bind") /\ Probed
       ELSE GoesOn(d, "unlink") /\ UNCHANGED <<process, idle>>
    /\ UNCHANGED <<file, port, bound, watched, leaving, clients, todo, client>>

(* 300 ms pass although somebody listens.                                  *)
ProbeTimesOut(d) ==
    /\ At(d, "probe")
    /\ Reachable
    /\ GoesOn(d, "unlink")
    /\ UNCHANGED <<file, port, process, bound, watched, leaving, idle, clients, todo, client>>

(* Whatever has the name by now.                                           *)
UnlinkStale(d) ==
    /\ At(d, "unlink")
    /\ file' = [file EXCEPT !["socket"] = None]
    /\ GoesOn(d, "rebind")
    /\ UNCHANGED <<port, process, bound, watched, leaving, idle, clients, todo, client>>

(* The listening callback: whose file is it?  Without one, no monitor.     *)
startUdsFileMonitor(d) ==
    /\ At(d, "listening")
    /\ watched' = [watched EXCEPT ![d] = file["socket"]]
    /\ GoesOn(d, "token")
    /\ UNCHANGED <<file, port, process, bound, leaving, idle, clients, todo, client>>

WriteToken(d) ==
    /\ At(d, "token")
    /\ file' = [file EXCEPT !["token"] = d]
    /\ GoesOn(d, "port")
    /\ UNCHANGED <<port, process, bound, watched, leaving, idle, clients, todo, client>>

(* Then the pid file, which nobody reads and is left out here, and the     *)
(* idle timer.                                                             *)
startWebSocketServer(d) ==
    /\ At(d, "port")
    /\ port = None
    /\ port' = d
    /\ GoesOn(d, "ready")
    /\ idle' = IF clients[d] = {} THEN idle \cup {d} ELSE idle \ {d}
    /\ UNCHANGED <<file, process, bound, watched, leaving, clients, todo, client>>

(* EADDRINUSE again, and fatal: the socket and the token stay as they are. *)
PortInUse(d) ==
    /\ At(d, "port")
    /\ port # None
    /\ Ends(d)

-----------------------------------------------------------------------------
(* shutdown(): clients and servers are closed at once; uds.close() unlinks *)
(* the name it was bound to, whoever has it now.                           *)
shutdown(d) ==
    /\ process[d] = "up"
    /\ process' = [process EXCEPT ![d] = "closing"]
    /\ file' = [file EXCEPT !["socket"] = IF d \in bound THEN None ELSE @]
    /\ bound' = bound \ {d}
    /\ port' = IF port = d THEN None ELSE port
    /\ leaving' = leaving \ {d}
    /\ idle' = idle \ {d}
    /\ clients' = [clients EXCEPT ![d] = {}]
    /\ client' = [c \in Clients |-> IF c \in clients[d] THEN "idle" ELSE client[c]]
    /\ UNCHANGED <<boot, watched, todo>>

(* Not the code: only a missing file is noticed. *)
MonitorMisses(d) ==
    /\ process[d] = "up"
    /\ watched[d] # None
    /\ d \notin leaving
    /\ file["socket"] = None
    /\ leaving' = leaving \cup {d}
    /\ UNCHANGED <<file, port, process, boot, bound, watched, idle, clients, todo, client>>

(* The monitor's poll: the file is gone, or is another's.                  *)
MonitorPolls(d) ==
    /\ process[d] = "up"
    /\ watched[d] # None
    /\ d \notin leaving
    /\ file["socket"] # watched[d]
    /\ leaving' = leaving \cup {d}
    /\ UNCHANGED <<file, port, process, boot, bound, watched, idle, clients, todo, client>>

MonitorExits(d) == d \in leaving /\ shutdown(d)

IdleExit(d) == d \in idle /\ clients[d] = {} /\ shutdown(d)

(* Both servers have closed, or had never listened.                        *)
ServersClosed(d) ==
    /\ process[d] = "closing"
    /\ process' = [process EXCEPT ![d] = "unlinking"]
    /\ todo' = [todo EXCEPT ![d] = Files]
    /\ UNCHANGED <<file, port, boot, bound, watched, leaving, idle, clients, client>>

(* The unlinks, by name and in any order.                            *)
UnlinkFile(d, f) ==
    /\ process[d] = "unlinking"
    /\ f \in todo[d]
    /\ file' = [file EXCEPT ![f] = None]
    /\ todo' = [todo EXCEPT ![d] = @ \ {f}]
    /\ UNCHANGED <<port, process, boot, bound, watched, leaving, idle, clients, client>>

Exit(d) == process[d] = "unlinking" /\ todo[d] = {} /\ Ends(d)

(* Two seconds after the shutdown began.                                   *)
ForceExit(d) == process[d] \in {"closing", "unlinking"} /\ Ends(d)

-----------------------------------------------------------------------------
(* What nobody plans: a kill, a signal, a file removed from outside.       *)

Crash(d) == Alive(d) /\ Ends(d)

Signal(d) == shutdown(d)

SocketRemoved ==
    /\ file["socket"] # None
    /\ file' = [file EXCEPT !["socket"] = None]
    /\ UNCHANGED <<port, process, boot, bound, watched, leaving, idle, clients, todo, client>>

-----------------------------------------------------------------------------
(* History, after each step: a daemon may take the shared names if it      *)
(* found the socket free, or if its probe was not answered; a daemon is    *)
(* crowded once it meets another that may, or that is on its way out.      *)
Remember ==
    LET entered == {d \in Daemons :
                      \/ boot[d] = "bind" /\ boot'[d] = "listening"
                      \/ boot[d] = "probe" /\ boot'[d] = "unlink"
                            /\ (~Reachable \/ mishaps' # mishaps)}
        may == {d \in entitled \cup entered : Alive(d)'}
        now == may \cup {d \in Daemons : process'[d] \in {"closing", "unlinking"}}
    IN /\ entitled' = may
       /\ crowded' = IF \E d, e \in now : d # e THEN now ELSE crowded \cap now

ClientStep(c) ==
    \/ ensureDaemonRunning(c) \/ PollFinds(c) \/ PollGivesUp(c) \/ openSocket(c)
    \/ \E d \in Daemons : disconnectClient(c, d)

Boot(d) ==
    \/ startUdsServer(d) \/ AddressInUse(d) \/ RebindFails(d) \/ probeAlive(d)
    \/ UnlinkStale(d) \/ startUdsFileMonitor(d) \/ WriteToken(d)
    \/ startWebSocketServer(d) \/ PortInUse(d)

Leave(d) ==
    \/ MonitorPolls(d) \/ MonitorExits(d) \/ IdleExit(d)
    \/ ServersClosed(d) \/ (\E f \in Files : UnlinkFile(d, f)) \/ Exit(d) \/ ForceExit(d)

Planned ==
    /\ (\E c \in Clients : ClientStep(c)) \/ (\E d \in Daemons : Boot(d) \/ Leave(d))
    /\ UNCHANGED mishaps
    /\ Remember

Mishap ==
    /\ mishaps < MaxMishaps
    /\ mishaps' = mishaps + 1
    /\ \/ \E d \in Daemons : (ProbeTimesOut(d) \/ Crash(d) \/ Signal(d)) /\ Remember
       \/ /\ SocketRemoved
          /\ crowded' = crowded \cup ({file["socket"]} \cap Daemons)
          /\ UNCHANGED entitled

Next == Planned \/ Mishap

(* Timers fire, closed servers say so, and the event loop goes on with     *)
(* main(): the code's own scheduling.  Nothing is assumed of clients.      *)
Fairness ==
    \A d \in Daemons :
        /\ WF_system(Boot(d))
        /\ WF_system(MonitorPolls(d) \/ MonitorExits(d) \/ IdleExit(d) \/ ForceExit(d))

Spec == Init /\ [][Next]_vars /\ Fairness

-----------------------------------------------------------------------------
(* Properties.                                                             *)

TypeOK ==
    /\ file \in [Files -> Daemons \cup {Dead, None}]
    /\ port \in Daemons \cup {None}
    /\ process \in [Daemons -> {"absent", "up", "closing", "unlinking", "gone"}]
    /\ boot \in [Daemons -> {"bind", "probe", "unlink", "rebind", "listening",
                             "token", "port", "ready"}]
    /\ bound \subseteq Daemons
    /\ watched \in [Daemons -> Daemons \cup {Dead, None}]
    /\ leaving \subseteq Daemons
    /\ idle \subseteq Daemons
    /\ clients \in [Daemons -> SUBSET Clients]
    /\ todo \in [Daemons -> SUBSET Files]
    /\ client \in [Clients -> {"idle", "polling", "found", "connected"}]
    /\ entitled \subseteq Daemons
    /\ crowded \subseteq Daemons
    /\ mishaps \in 0..MaxMishaps

(* However many daemons are started beside a running one, whatever crashed *)
(* before it and whatever it left: while somebody answers the probe of     *)
(* each of the others, the socket, the token that extensions are to prove  *)
(* they can read and the port stay its own, and its monitor looks at its   *)
(* own file.                                                               *)
LoneDaemonServes ==
    \A d \in Daemons \ crowded :
        (process[d] = "up" /\ boot[d] = "ready") =>
            file = [f \in Files |-> d] /\ port = d /\ d \in bound /\ watched[d] = d

(* A daemon that listens where no client can find it any more, its socket  *)
(* file gone or another's, makes way with the port it holds: else the next *)
(* one could not start.  The one exception is a daemon that lost the file  *)
(* before its monitor first looked: nothing watches for it, or something   *)
(* watches the file of another, and it stays for as long as it has a       *)
(* client; when the last one goes it must leave like the others.           *)
OrphanLeaves ==
    \A d \in Daemons :
        (process[d] = "up" /\ d \in bound /\ file["socket"] # d)
            ~> \/ process[d] = "gone" /\ port # d
               \/ clients[d] # {} /\ watched[d] # d

(* A daemon without clients does not stay.                                 *)
IdleLeaves ==
    \A d \in Daemons :
        (process[d] = "up" /\ clients[d] = {}) ~> (process[d] = "gone" \/ clients[d] # {})

=============================================================================
