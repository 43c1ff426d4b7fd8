---------------------------- MODULE ConnectionProofs ----------------------------
(***************************************************************************)
(* Proofs about Connection, for any delays, any number of requests and of  *)
(* upsets.                                                                 *)
(*                                                                         *)
(* Flags ties the keys of globalThis to what the host holds; Retries says  *)
(* that live mode without a connection or an attempt has its reconnect     *)
(* timer armed; Hearing adds the time to the next beat to the silence so   *)
(* far, a sum that time does not change and that no single restart of the  *)
(* heartbeat takes to DeadAfter.                                           *)
(*                                                                         *)
(* Patience, on top of these, bounds what is left to wait by what the      *)
(* timers hold.  The attempt under way succeeds unless the timer of an     *)
(* earlier one is due before the socket opens; after it comes the delay    *)
(* that is running, or the next one; and each attempt that can still be    *)
(* cut short costs a delay and an opening, of which there are no more than *)
(* initial delays, because a steady delay outlasts every timer left over.  *)
(***************************************************************************)
EXTENDS Connection, TLAPS

Flags ==
  /\ connected <=> sock \in {"open", "dead"}
  /\ connected => live /\ ~connecting
  /\ sock = "opening" => connecting /\ daemonUp
  /\ sock = "open" => daemonUp
  /\ connecting => live /\ giveUps # {}
  /\ live => beat # Off

Retries ==
  /\ live /\ ~connected /\ ~connecting => reconnect # Off
  /\ reconnect <= SteadyDelay
  /\ attempt <= Len(InitialDelays)
  /\ \A t \in giveUps : t <= ConnectTimeout
  /\ opening <= OpenLatency

Hearing ==
  /\ beat <= Interval
  /\ sock = "open" /\ pongDue => beat = Interval
  /\ sock = "open" /\ ~pongDue /\ restarts = 0 => silence + beat < QuietAfter + Interval
  /\ sock = "open" /\ ~pongDue /\ restarts = 1 => silence + beat < QuietAfter + 2 * Interval

ConnectionInv == TypeOK /\ Flags /\ Retries /\ Hearing

Fates == {"new", "running", "kept", "sent", "lost"}

-----------------------------------------------------------------------------
LEMMA DelaysAreShort ==
  ASSUME NEW a \in Nat, a <= Len(InitialDelays)
  PROVE  /\ DelayOf(a) \in Nat /\ DelayOf(a) <= SteadyDelay
         /\ NextAttempt(a) \in Nat /\ NextAttempt(a) <= Len(InitialDelays)
         /\ \/ a < Len(InitialDelays) /\ NextAttempt(a) = a + 1
            \/ a = Len(InitialDelays) /\ NextAttempt(a) = a /\ DelayOf(a) = SteadyDelay
<1>0. Len(InitialDelays) \in Nat
  BY DelayAssumption
<1>1. CASE a < Len(InitialDelays)
  <2>1. a + 1 \in 1..Len(InitialDelays)
    BY <1>0, <1>1
  <2>2. InitialDelays[a + 1] \in Nat /\ InitialDelays[a + 1] <= SteadyDelay
    BY <2>1, DelayAssumption
  <2>3. QED
    BY <1>0, <1>1, <2>2 DEF DelayOf, NextAttempt
<1>2. CASE ~(a < Len(InitialDelays))
  BY <1>0, <1>2, DelayAssumption DEF DelayOf, NextAttempt
<1>3. QED
  BY <1>1, <1>2

LEMMA Constants ==
  /\ SteadyDelay \in Nat /\ CheckDelay \in Nat /\ ConnectTimeout \in Nat
  /\ OpenLatency \in Nat /\ Interval \in Nat /\ Interval > 0 /\ QuietAfter \in Nat
  /\ QuietAfter > 0 /\ DeadAfter \in Nat /\ QuietAfter + 2 * Interval <= DeadAfter
  /\ MaxUpsets \in Nat /\ OpenLatency < ConnectTimeout /\ ConnectTimeout < SteadyDelay
  /\ Len(InitialDelays) \in Nat
BY DelayAssumption, TimeoutAssumption, HeartbeatAssumption, BoundAssumption

LEMMA ConnectionInit == Init => ConnectionInv
<1> SUFFICES ASSUME Init PROVE ConnectionInv
  OBVIOUS
<1>1. TypeOK
  <2>1. buffer \in Seq(Ids) /\ Len(buffer) <= BufferMax
    BY DelayAssumption DEF Init
  <2>2. request \in [Ids -> Fates]
    BY DEF Init, Fates
  <2>3. /\ live \in BOOLEAN /\ stored \in BOOLEAN /\ connected \in BOOLEAN
        /\ connecting \in BOOLEAN /\ pongDue \in BOOLEAN /\ pushing \in BOOLEAN
        /\ daemonUp \in BOOLEAN
    BY DEF Init
  <2>4. /\ attempt \in Nat /\ reconnect \in Nat \cup {Off} /\ check \in Nat \cup {Off}
        /\ giveUps \in SUBSET Nat /\ beat \in Nat \cup {Off} /\ silence \in Nat
        /\ restarts \in 0..2 /\ opening \in Nat /\ waited \in Nat /\ setbacks \in Nat
        /\ upsets \in Nat
    BY DEF Init, Off
  <2>5. sock \in SockStates
    BY DEF Init, SockStates
  <2>6. QED
    BY <2>1, <2>2, <2>3, <2>4, <2>5 DEF TypeOK, Fates
<1>2. Flags /\ Retries /\ Hearing
  BY Constants DEF Init, Flags, Retries, Hearing, Off
<1>3. QED
  BY <1>1, <1>2 DEF ConnectionInv

-----------------------------------------------------------------------------
(* What the callbacks share.                                               *)

LEMMA ScheduleDoes ==
  ASSUME NEW l \in BOOLEAN, NEW a \in Nat, a <= Len(InitialDelays),
         NEW r \in Nat \cup {Off}, r <= SteadyDelay, Schedule(l, a, r)
  PROVE  /\ reconnect' \in Nat \cup {Off} /\ attempt' \in Nat
         /\ reconnect' <= SteadyDelay /\ attempt' <= Len(InitialDelays)
         /\ l => reconnect' # Off
         /\ r # Off => reconnect' = r
BY DelaysAreShort DEF Schedule, Off

Delays == /\ reconnect' \in Nat \cup {Off} /\ reconnect' <= SteadyDelay
          /\ attempt' \in Nat /\ attempt' <= Len(InitialDelays)

\* An attempt is under way, or its register() threw and the next is scheduled.
Attempts(l) ==
  /\ ~connected /\ ~connecting
  /\ giveUps' = giveUps \cup {ConnectTimeout}
  /\ \/ connecting' = TRUE /\ Register
     \/ connecting' = FALSE /\ UNCHANGED sockVars /\ upsets' # upsets
          /\ (l => reconnect' # Off)

LEMMA ConnectDoes ==
  ASSUME TypeOK, NEW l \in BOOLEAN, NEW a \in Nat, a <= Len(InitialDelays),
         NEW r \in Nat \cup {Off}, r <= SteadyDelay, NEW n \in Nat, Connect(l, a, r, n)
  PROVE  /\ Delays /\ upsets' \in Nat /\ upsets' >= upsets + n
         /\ \/ /\ connected \/ connecting
               /\ UNCHANGED <<connecting, giveUps, sockVars>>
            \/ Attempts(l)
<1>1. upsets \in Nat
  BY DEF TypeOK
<1>2. CASE connected \/ connecting
  BY <1>1, <1>2 DEF Connect, Upset, Delays
<1>3. CASE ~(connected \/ connecting)
  <2>1. giveUps' = giveUps \cup {ConnectTimeout}
    BY <1>3, Zenon DEF Connect
  <2>2. CASE connecting' = TRUE /\ Register /\ reconnect' = r /\ attempt' = a /\ Upset(n)
    <3>1. Attempts(l)
      BY <1>3, <2>1, <2>2, Zenon DEF Attempts
    <3>2. upsets' \in Nat /\ upsets' >= upsets + n
      BY <1>1, <2>2 DEF Upset
    <3>3. QED
      BY <2>2, <3>1, <3>2 DEF Delays
  <2>3. CASE connecting' = FALSE /\ UNCHANGED sockVars /\ Schedule(l, a, r) /\ Upset(n + 1)
    <3>1. upsets' \in Nat /\ upsets' # upsets /\ upsets' >= upsets + n
      BY <1>1, <2>3 DEF Upset
    <3>2. Delays /\ (l => reconnect' # Off)
      BY <2>3, ScheduleDoes DEF Delays
    <3>3. Attempts(l)
      BY <1>3, <2>1, <2>3, <3>1, <3>2, Zenon DEF Attempts
    <3>4. QED
      BY <3>1, <3>2, <3>3
  <2>4. QED
    BY <1>3, <2>2, <2>3, Zenon DEF Connect
<1>4. QED
  BY <1>2, <1>3

LEMMA GoLiveDoes ==
  ASSUME ConnectionInv, NEW n \in Nat, GoLive(n)
  PROVE  /\ live' = TRUE /\ beat' = Interval
         /\ Delays /\ upsets' \in Nat /\ upsets' >= upsets + n
         /\ \/ /\ connected \/ connecting
               /\ UNCHANGED <<connecting, giveUps, sockVars>>
            \/ Attempts(TRUE)
<1>1. /\ reconnect \in Nat \cup {Off} /\ reconnect <= SteadyDelay /\ upsets \in Nat
      /\ 0 \in Nat /\ 0 <= Len(InitialDelays) /\ TRUE \in BOOLEAN /\ TypeOK
  BY Constants DEF ConnectionInv, TypeOK, Retries
<1>2. CASE Connect(TRUE, 0, reconnect, n)
  BY <1>1, <1>2, ConnectDoes DEF GoLive
<1>3. CASE /\ ~connected /\ ~connecting
           /\ connecting' = TRUE
           /\ giveUps' = giveUps \cup {ConnectTimeout}
           /\ Register
           /\ Schedule(TRUE, 0, reconnect)
           /\ Upset(n + 1)
  <2>1. Delays
    BY <1>1, <1>3, ScheduleDoes DEF Delays
  <2>2. upsets' \in Nat /\ upsets' >= upsets + n
    BY <1>1, <1>3 DEF Upset
  <2>3. Attempts(TRUE)
    BY <1>3, Zenon DEF Attempts
  <2>4. QED
    BY <2>1, <2>2, <2>3 DEF GoLive
<1>4. QED
  BY <1>2, <1>3 DEF GoLive

LEMMA RegisterDoes ==
  ASSUME TypeOK, sock \notin Registered, Register
  PROVE  /\ daemonUp => sock' = "opening" /\ opening' = OpenLatency
         /\ ~daemonUp => sock' = "failed" /\ opening' = 0
BY DEF Register

LEMMA AttemptsDoes ==
  ASSUME ConnectionInv, NEW l \in BOOLEAN, Attempts(l)
  PROVE  /\ ~connected /\ ~connecting /\ sock \notin Registered
         /\ giveUps' = giveUps \cup {ConnectTimeout}
         /\ \/ connecting' = TRUE /\ daemonUp /\ sock' = "opening" /\ opening' = OpenLatency
            \/ connecting' = TRUE /\ ~daemonUp /\ sock' = "failed" /\ opening' = 0
            \/ /\ connecting' = FALSE /\ sock' = sock /\ opening' = opening
               /\ upsets' # upsets /\ (l => reconnect' # Off)
<1>1. sock \notin Registered
  BY DEF Attempts, ConnectionInv, TypeOK, Flags, Registered, SockStates
<1>2. QED
  BY <1>1 DEF Attempts, Register, sockVars

-----------------------------------------------------------------------------
(* connect() and handleConnectionLost, in whatever callback.               *)

Reaches ==
  \/ (connected \/ connecting) /\ UNCHANGED <<connecting, giveUps, sockVars>>
  \/ Attempts(TRUE)

Reconnecting == Flags /\ Retries

LEMMA ReachesOut ==
  ASSUME ConnectionInv, Reaches, Delays,
         live' = TRUE, connected' = connected, daemonUp' = daemonUp, beat' # Off
  PROVE  Reconnecting' /\ connecting' \in BOOLEAN /\ giveUps' \in SUBSET Nat
           /\ sock' \in SockStates /\ opening' \in Nat
<1> USE DEF ConnectionInv
<1>1. reconnect' <= SteadyDelay /\ attempt' <= Len(InitialDelays)
  BY DEF Delays
<1>2. CASE (connected \/ connecting) /\ UNCHANGED <<connecting, giveUps, sockVars>>
  <2>1. sock' = sock /\ opening' = opening /\ connecting' = connecting /\ giveUps' = giveUps
    BY <1>2 DEF sockVars
  <2>2. Flags'
    BY <1>2, <2>1 DEF Flags
  <2>3. Retries'
    BY <1>1, <1>2, <2>1 DEF Retries
  <2>4. QED
    BY <2>1, <2>2, <2>3 DEF Reconnecting, TypeOK
<1>3. CASE Attempts(TRUE)
  <2>1. /\ ~connected /\ ~connecting /\ sock \notin Registered
        /\ giveUps' = giveUps \cup {ConnectTimeout}
        /\ \/ connecting' = TRUE /\ daemonUp /\ sock' = "opening" /\ opening' = OpenLatency
           \/ connecting' = TRUE /\ ~daemonUp /\ sock' = "failed" /\ opening' = 0
           \/ /\ connecting' = FALSE /\ sock' = sock /\ opening' = opening
              /\ upsets' # upsets /\ (TRUE => reconnect' # Off)
    BY <1>3, AttemptsDoes
  <2>2. /\ connecting' \in BOOLEAN /\ giveUps' \in SUBSET Nat /\ ConnectTimeout \in giveUps'
        /\ sock' \in SockStates /\ opening' \in Nat
        /\ sock' \notin {"open", "dead"}
    <3>1. sock \in SockStates /\ opening \in Nat /\ giveUps \in SUBSET Nat
      BY DEF TypeOK
    <3>2. connecting' \in BOOLEAN
      BY <2>1
    <3>3. giveUps' \in SUBSET Nat /\ ConnectTimeout \in giveUps'
      BY <2>1, <3>1, Constants
    <3>4. opening' \in Nat
      BY <2>1, <3>1, Constants
    <3>5. sock' \in SockStates /\ sock' \notin {"open", "dead"}
      BY <2>1, <3>1 DEF SockStates, Registered
    <3>6. QED
      BY <3>2, <3>3, <3>4, <3>5
  <2>3. Flags'
    BY <2>1, <2>2 DEF Flags, Registered
  <2>4. Retries'
    BY <1>1, <2>1, <2>2, Constants DEF Retries, TypeOK
  <2>5. QED
    BY <2>2, <2>3, <2>4 DEF Reconnecting
<1>4. QED
  BY <1>2, <1>3 DEF Reaches

LEMMA LosesTouch ==
  ASSUME ConnectionInv, LoseConnection, UNCHANGED <<live, connecting, giveUps>>,
         daemonUp' \in BOOLEAN, live => beat' # Off
  PROVE  /\ Reconnecting' /\ connected' = FALSE /\ sock' = "none" /\ opening' = 0
         /\ reconnect' \in Nat \cup {Off} /\ attempt' \in Nat
<1> USE DEF ConnectionInv
<1>1. live \in BOOLEAN /\ attempt \in Nat /\ reconnect \in Nat \cup {Off}
        /\ reconnect <= SteadyDelay /\ attempt <= Len(InitialDelays)
  BY DEF TypeOK, Retries
<1>2. /\ connected' = FALSE /\ sock' = "none" /\ opening' = 0
      /\ Schedule(live, attempt, reconnect)
  BY DEF LoseConnection, CloseSocket
<1>3. /\ reconnect' \in Nat \cup {Off} /\ attempt' \in Nat /\ attempt' <= Len(InitialDelays)
      /\ reconnect' <= SteadyDelay /\ (live => reconnect' # Off)
  BY <1>1, <1>2, ScheduleDoes
<1>4. Flags'
  BY <1>2 DEF Flags
<1>5. Retries'
  BY <1>2, <1>3, Constants DEF Retries
<1>6. QED
  BY <1>2, <1>3, <1>4, <1>5 DEF Reconnecting

LEMMA MoreIsMore ==
  ASSUME NEW a \in Nat, NEW b \in Nat, NEW n \in Nat, b >= a + n
  PROVE  /\ b - a \in Nat /\ b - a >= n
         /\ n > 0 \/ b # a => b - a > 0
OBVIOUS

LEMMA WaitsAreCounted ==
  ASSUME ConnectionInv, NEW n \in Nat, Waits(n)
  PROVE  waited' \in Nat /\ setbacks' \in Nat
BY DEF Waits, ConnectionInv, TypeOK

LEMMA NotOpenHears ==
  ASSUME beat' <= Interval, sock' # "open"
  PROVE  Hearing'
BY DEF Hearing

LEMMA NothingMoves ==
  ASSUME ConnectionInv,
         UNCHANGED <<modeVars, flagVars, timerVars, beatVars, sockVars, daemonUp>>
  PROVE  Reconnecting' /\ Hearing'
BY DEF ConnectionInv, Reconnecting, Flags, Retries, Hearing,
       modeVars, flagVars, timerVars, retryVars, beatVars, hearVars, sockVars

\* What a step may leave of the types to its own proof.
LEMMA TypesAgain ==
  ASSUME Reconnecting', Hearing',
         live' \in BOOLEAN /\ stored' \in BOOLEAN /\ connected' \in BOOLEAN
           /\ connecting' \in BOOLEAN /\ pongDue' \in BOOLEAN /\ pushing' \in BOOLEAN
           /\ daemonUp' \in BOOLEAN,
         attempt' \in Nat /\ reconnect' \in Nat \cup {Off} /\ check' \in Nat \cup {Off}
           /\ giveUps' \in SUBSET Nat /\ beat' \in Nat \cup {Off} /\ silence' \in Nat
           /\ restarts' \in 0..2 /\ opening' \in Nat
           /\ waited' \in Nat /\ setbacks' \in Nat /\ upsets' \in Nat,
         sock' \in SockStates,
         buffer' \in Seq(Ids) /\ Len(buffer') <= BufferMax
           /\ request' \in [Ids -> Fates]
  PROVE  ConnectionInv'
<1>1. TypeOK'
  BY DEF TypeOK, Fates
<1>2. QED
  BY <1>1 DEF ConnectionInv, Reconnecting

-----------------------------------------------------------------------------
(* The user.                                                               *)

LEMMA ActivateStep == ASSUME ConnectionInv, Activate PROVE ConnectionInv'
<1>1. PICK n \in Nat : GoLive(n)
  BY DEF Activate
<1>2. /\ live' = TRUE /\ beat' = Interval
      /\ Delays /\ upsets' \in Nat /\ upsets' >= upsets + n
      /\ Reaches
  BY <1>1, GoLiveDoes DEF Reaches
<1>3. /\ UNCHANGED <<stored, connected, check, silence, pongDue, pushing, answerVars, daemonUp>>
      /\ Waits(upsets' - upsets)
      /\ restarts' = IF restarts < 2 THEN restarts + 1 ELSE 2
  BY DEF Activate
<1>4. Interval # Off /\ upsets' - upsets \in Nat
  <2>1. upsets \in Nat
    BY DEF ConnectionInv, TypeOK
  <2>2. upsets' - upsets \in Nat
    BY <1>2, <2>1, MoreIsMore
  <2>3. Interval # Off
    BY Constants DEF Off
  <2>4. QED
    BY <2>2, <2>3
<1>5. Reconnecting' /\ connecting' \in BOOLEAN /\ giveUps' \in SUBSET Nat
        /\ sock' \in SockStates /\ opening' \in Nat
  BY <1>2, <1>3, <1>4, ReachesOut
<1>6. sock' = "open" => sock = "open"
  BY <1>2, <1>3, <1>5 DEF Reaches, Attempts, Reconnecting, Flags, sockVars, ConnectionInv
<1>7. restarts \in 0..2 /\ silence \in Nat /\ beat \in Nat \cup {Off}
  BY DEF ConnectionInv, TypeOK
<1>8. Hearing'
  <2>1. ASSUME sock = "open", ~pongDue, restarts = 0
        PROVE  silence + Interval < QuietAfter + 2 * Interval
    BY <2>1, <1>7, Constants DEF ConnectionInv, Hearing, Flags, Off
  <2>2. QED
    BY <1>2, <1>3, <1>6, <1>7, <2>1, Constants DEF Hearing
<1>9. waited' \in Nat /\ setbacks' \in Nat
  BY <1>3, <1>4, WaitsAreCounted
<1>10. QED
  BY <1>2, <1>3, <1>5, <1>7, <1>8, <1>9, Constants, TypesAgain
     DEF ConnectionInv, TypeOK, answerVars, Delays, Fates

LEMMA ConnectClaudeStep == ASSUME ConnectionInv, ConnectClaude PROVE ConnectionInv'
<1>1. /\ UNCHANGED <<connected, check, hearVars, pushing, answerVars, daemonUp>>
      /\ Waits(upsets' - upsets) /\ stored' = TRUE
  BY DEF ConnectClaude
<1>2. /\ live' = TRUE /\ ((beat' = beat /\ live) \/ (beat' = Interval /\ ~live))
      /\ Delays /\ upsets' \in Nat /\ upsets' >= upsets
      /\ Reaches
  <2>1. CASE live
    <3>1. Connect(TRUE, attempt, reconnect, 1) /\ UNCHANGED <<live, beat>>
      BY <2>1 DEF ConnectClaude
    <3>2. /\ attempt \in Nat /\ reconnect \in Nat \cup {Off} /\ reconnect <= SteadyDelay
          /\ attempt <= Len(InitialDelays) /\ TypeOK /\ live \in BOOLEAN /\ upsets \in Nat
      BY DEF ConnectionInv, TypeOK, Retries
    <3>3. /\ Delays /\ upsets' \in Nat /\ upsets' >= upsets + 1
          /\ Reaches
      BY <3>1, <3>2, ConnectDoes DEF Reaches
    <3>4. QED
      BY <2>1, <3>1, <3>2, <3>3
  <2>2. CASE ~live
    <3>1. GoLive(0)
      BY <2>2 DEF ConnectClaude
    <3>2. live' = TRUE /\ beat' = Interval /\ Delays /\ upsets' \in Nat
            /\ upsets' >= upsets + 0 /\ Reaches
      BY <3>1, GoLiveDoes DEF Reaches
    <3>3. upsets \in Nat
      BY DEF ConnectionInv, TypeOK
    <3>4. QED
      BY <2>2, <3>2, <3>3
  <2>3. QED
    BY <2>1, <2>2 DEF ConnectionInv, TypeOK
<1>3. beat' # Off /\ beat' \in Nat \cup {Off} /\ beat' <= Interval
  BY <1>1, <1>2, Constants DEF Off, ConnectionInv, Flags, TypeOK, Hearing
<1>4. Reconnecting' /\ connecting' \in BOOLEAN /\ giveUps' \in SUBSET Nat
        /\ sock' \in SockStates /\ opening' \in Nat
  BY <1>1, <1>2, <1>3, ReachesOut
<1>5. sock' = "open" => sock = "open" /\ live
  BY <1>1, <1>2, <1>4 DEF Reaches, Attempts, Reconnecting, Flags, sockVars, ConnectionInv
<1>6. Hearing'
  BY <1>1, <1>2, <1>3, <1>5 DEF Hearing, hearVars, ConnectionInv
<1>7. waited' \in Nat /\ setbacks' \in Nat
  <2>1. upsets' - upsets \in Nat
    <3>1. upsets \in Nat /\ upsets' >= upsets + 0
      BY <1>2 DEF ConnectionInv, TypeOK
    <3>2. QED
      BY <1>2, <3>1, MoreIsMore
  <2>2. QED
    BY <1>1, <2>1, WaitsAreCounted
<1>8. QED
  BY <1>1, <1>2, <1>3, <1>4, <1>6, <1>7, TypesAgain
     DEF ConnectionInv, TypeOK, answerVars, hearVars, Delays, Fates

LEMMA DisconnectStep == ASSUME ConnectionInv, DisconnectClaude PROVE ConnectionInv'
<1>1. /\ live' = FALSE /\ stored' = FALSE /\ reconnect' = Off /\ check' = Off /\ beat' = Off
      /\ connected' = FALSE /\ connecting' = FALSE /\ sock' = "none" /\ opening' = 0
      /\ Waits(1)
      /\ UNCHANGED <<attempt, giveUps, hearVars, pushing, answerVars, daemonUp>>
  BY DEF DisconnectClaude, StopLiveMode, DisconnectFromAll, CloseSocket
<1>2. upsets' \in Nat /\ waited' \in Nat /\ setbacks' \in Nat
  BY <1>1, WaitsAreCounted DEF DisconnectClaude, Upset, ConnectionInv, TypeOK
<1>3. Reconnecting'
  BY <1>1, Constants DEF Reconnecting, Flags, Retries, ConnectionInv, Off
<1>4. Hearing'
  BY <1>1, NotOpenHears, Constants DEF Off
<1>5. QED
  BY <1>1, <1>2, <1>3, <1>4, TypesAgain
     DEF ConnectionInv, TypeOK, answerVars, hearVars, SockStates, Fates

-----------------------------------------------------------------------------
(* The timers.                                                             *)

LEMMA GiveUpStep == ASSUME ConnectionInv, GiveUp PROVE ConnectionInv'
<1>1. /\ 0 \in giveUps /\ giveUps' = giveUps \ {0}
      /\ UNCHANGED <<modeVars, connected, check, beatVars, pushing, answerVars, daemonUp, upsets>>
      /\ Waits(0)
  BY DEF GiveUp
<1>2. giveUps' \in SUBSET Nat /\ (\A t \in giveUps' : t <= ConnectTimeout)
  BY <1>1 DEF ConnectionInv, TypeOK, Retries
<1>3. waited' \in Nat /\ setbacks' \in Nat
  BY <1>1, WaitsAreCounted
<1>4. CASE connected
  <2>1. UNCHANGED <<connecting, sockVars, retryVars>>
    BY <1>4 DEF GiveUp
  <2>2. sock \in {"open", "dead"} /\ ~connecting /\ live
    BY <1>4 DEF ConnectionInv, Flags
  <2>3. Reconnecting' /\ Hearing'
    BY <1>1, <1>2, <1>4, <2>1, <2>2
       DEF ConnectionInv, Reconnecting, Flags, Retries, Hearing,
           modeVars, sockVars, retryVars, beatVars, hearVars
  <2>4. QED
    BY <1>1, <1>2, <1>3, <2>1, <2>3, TypesAgain
       DEF ConnectionInv, TypeOK, answerVars, modeVars, sockVars, retryVars, beatVars, hearVars,
           Fates
<1>5. CASE ~connected
  <2>1. /\ connecting' = FALSE /\ sock' = "none" /\ opening' = 0
        /\ Schedule(live, attempt, reconnect)
    BY <1>5 DEF GiveUp, CloseSocket
  <2>2. /\ live \in BOOLEAN /\ attempt \in Nat /\ reconnect \in Nat \cup {Off}
        /\ reconnect <= SteadyDelay /\ attempt <= Len(InitialDelays)
    BY DEF ConnectionInv, TypeOK, Retries
  <2>3. /\ reconnect' \in Nat \cup {Off} /\ attempt' \in Nat /\ attempt' <= Len(InitialDelays)
        /\ reconnect' <= SteadyDelay /\ (live => reconnect' # Off)
    BY <2>1, <2>2, ScheduleDoes
  <2>4. Flags' /\ Retries'
    BY <1>1, <1>2, <1>5, <2>1, <2>3, Constants
       DEF ConnectionInv, Flags, Retries, modeVars, beatVars
  <2>5. Hearing'
    BY <1>1, <2>1, NotOpenHears DEF ConnectionInv, Hearing, beatVars
  <2>6. QED
    BY <1>1, <1>2, <1>3, <2>1, <2>3, <2>4, <2>5, TypesAgain
       DEF ConnectionInv, Reconnecting, TypeOK, answerVars, modeVars, beatVars, hearVars,
           SockStates, Fates
<1>6. QED
  BY <1>4, <1>5

LEMMA CheckStep == ASSUME ConnectionInv, CheckDue PROVE ConnectionInv'
<1>1. /\ check' = Off
      /\ UNCHANGED <<modeVars, flagVars, giveUps, beatVars, pushing, sockVars, answerVars,
                     daemonUp, waitVars, upsets>>
  BY DEF CheckDue
<1>2. /\ live \in BOOLEAN /\ attempt \in Nat /\ reconnect \in Nat \cup {Off}
      /\ reconnect <= SteadyDelay /\ attempt <= Len(InitialDelays)
  BY DEF ConnectionInv, TypeOK, Retries
<1>3. /\ reconnect' \in Nat \cup {Off} /\ attempt' \in Nat /\ reconnect' <= SteadyDelay
      /\ attempt' <= Len(InitialDelays)
      /\ reconnect # Off => reconnect' = reconnect
  <2>1. CASE live /\ ~connected
    BY <1>2, <2>1, ScheduleDoes DEF CheckDue
  <2>2. CASE ~(live /\ ~connected)
    BY <1>2, <2>2 DEF CheckDue, retryVars
  <2>3. QED
    BY <2>1, <2>2
<1>4. Reconnecting' /\ Hearing'
  BY <1>1, <1>3 DEF ConnectionInv, Reconnecting, Flags, Retries, Hearing,
                    modeVars, flagVars, sockVars, beatVars, hearVars
<1>5. QED
  BY <1>1, <1>3, <1>4, TypesAgain
     DEF ConnectionInv, TypeOK, answerVars, modeVars, flagVars, sockVars, beatVars, hearVars,
         waitVars, Fates

LEMMA ReconnectStep == ASSUME ConnectionInv, ReconnectDue PROVE ConnectionInv'
<1>1. /\ reconnect = 0
      /\ UNCHANGED <<modeVars, connected, beatVars, pushing, answerVars, daemonUp>>
      /\ Waits(upsets' - upsets)
  BY DEF ReconnectDue
<1>2. CASE ~live \/ connected
  <2>1. /\ reconnect' = Off
        /\ UNCHANGED <<connecting, giveUps, sockVars, attempt, check, upsets>>
    BY <1>2 DEF ReconnectDue
  <2>2. upsets' - upsets \in Nat
    <3>1. upsets \in Nat /\ upsets' = upsets
      BY <2>1 DEF ConnectionInv, TypeOK
    <3>2. QED
      BY <3>1
  <2>3. waited' \in Nat /\ setbacks' \in Nat
    BY <1>1, <2>2, WaitsAreCounted
  <2>4. Reconnecting' /\ Hearing'
    BY <1>1, <1>2, <2>1, Constants
       DEF ConnectionInv, Reconnecting, Flags, Retries, Hearing,
           modeVars, sockVars, beatVars, hearVars, Off
  <2>5. QED
    BY <1>1, <2>1, <2>3, <2>4, TypesAgain
       DEF ConnectionInv, TypeOK, answerVars, modeVars, sockVars, beatVars, hearVars, Fates
<1>3. CASE live /\ ~connected
  <2>1. Connect(live, attempt, Off, 0) /\ check' = CheckDelay
    BY <1>3 DEF ReconnectDue
  <2>2. /\ attempt \in Nat /\ Off \in Nat \cup {Off} /\ Off <= SteadyDelay /\ 0 \in Nat
        /\ attempt <= Len(InitialDelays)
        /\ TypeOK /\ live \in BOOLEAN /\ live = TRUE /\ upsets \in Nat
    BY <1>3, Constants DEF ConnectionInv, TypeOK, Off, Retries
  <2>3. /\ Delays /\ upsets' \in Nat /\ upsets' >= upsets + 0
        /\ Reaches
    <3>1. Connect(TRUE, attempt, Off, 0)
      BY <2>1, <2>2
    <3>2. QED
      BY <2>2, <3>1, ConnectDoes DEF Reaches
  <2>4. /\ live' = TRUE /\ connected' = connected /\ daemonUp' = daemonUp /\ beat' # Off
    BY <1>1, <1>3, <2>2 DEF modeVars, beatVars, ConnectionInv, Flags
  <2>5. waited' \in Nat /\ setbacks' \in Nat
    <3>1. upsets' - upsets \in Nat
      BY <2>2, <2>3, MoreIsMore
    <3>2. QED
      BY <1>1, <3>1, WaitsAreCounted
  <2>6. Reconnecting' /\ connecting' \in BOOLEAN /\ giveUps' \in SUBSET Nat
          /\ sock' \in SockStates /\ opening' \in Nat
    BY <2>3, <2>4, ReachesOut
  <2>7. sock' # "open"
    BY <1>3, <2>4, <2>6 DEF Reconnecting, Flags
  <2>8. Hearing'
    BY <1>1, <2>7, NotOpenHears DEF ConnectionInv, Hearing, beatVars
  <2>9. QED
    BY <1>1, <2>1, <2>3, <2>5, <2>6, <2>8, Constants, TypesAgain
       DEF ConnectionInv, TypeOK, answerVars, modeVars, beatVars, hearVars, Delays, Fates
<1>4. QED
  BY <1>2, <1>3

LEMMA HeartbeatStep == ASSUME ConnectionInv, HeartbeatDue PROVE ConnectionInv'
<1>1. /\ beat = 0 /\ beat' = Interval
      /\ UNCHANGED <<modeVars, connecting, check, giveUps, silence, restarts, pushing, answerVars,
                     daemonUp, upsets>>
      /\ Waits(0)
  BY DEF HeartbeatDue
<1>2. \/ (connected => silence < QuietAfter) /\ KeepConnection /\ pongDue' = pongDue
      \/ connected /\ LoseConnection /\ pongDue' = pongDue
      \/ sock = "open" /\ pongDue' = TRUE /\ KeepConnection
      \/ sock = "dead" /\ pongDue' = pongDue /\ KeepConnection
  BY DEF HeartbeatDue, Ping
<1>3. pongDue' \in BOOLEAN
  BY <1>2 DEF ConnectionInv, TypeOK
<1>0. waited' \in Nat /\ setbacks' \in Nat
  BY <1>1, WaitsAreCounted
<1>4. CASE KeepConnection
  <2>1. UNCHANGED <<connected, sockVars, retryVars>>
    BY <1>4 DEF KeepConnection
  <2>2. Reconnecting'
    BY <1>1, <2>1, Constants
       DEF ConnectionInv, Reconnecting, Flags, Retries, modeVars, sockVars, retryVars, Off
  <2>3. Hearing'
    <3>1. \/ (connected => silence < QuietAfter) /\ pongDue' = pongDue
          \/ pongDue' = TRUE
          \/ sock # "open"
      BY <1>2, <1>4 DEF LoseConnection, KeepConnection, CloseSocket, sockVars,
                        ConnectionInv, Flags
    <3>2. sock' = sock /\ silence' = silence /\ restarts' = restarts /\ silence \in Nat
            /\ (sock = "open" => connected)
      BY <1>1, <2>1 DEF sockVars, ConnectionInv, Flags, TypeOK
    <3>3. (sock = "open" /\ ~pongDue') => silence < QuietAfter
      BY <3>1, <3>2
    <3>4. silence < QuietAfter => silence + Interval < QuietAfter + Interval
                                   /\ silence + Interval < QuietAfter + 2 * Interval
      BY <3>2, Constants
    <3>5. QED
      BY <1>1, <3>2, <3>3, <3>4, Constants DEF Hearing
  <2>4. QED
    BY <1>0, <1>1, <1>3, <2>1, <2>2, <2>3, Constants, TypesAgain
       DEF ConnectionInv, TypeOK, answerVars, modeVars, sockVars, retryVars, Fates
<1>5. CASE connected /\ LoseConnection
  <2>2. beat' # Off /\ UNCHANGED <<live, connecting, giveUps>> /\ daemonUp' \in BOOLEAN
    BY <1>1, Constants DEF Off, modeVars, ConnectionInv, TypeOK
  <2>3. /\ Reconnecting' /\ connected' = FALSE /\ sock' = "none" /\ opening' = 0
        /\ reconnect' \in Nat \cup {Off} /\ attempt' \in Nat
    BY <1>5, <2>2, LosesTouch
  <2>4. Hearing'
    BY <1>1, <2>3, NotOpenHears, Constants
  <2>5. QED
    BY <1>0, <1>1, <1>3, <2>3, <2>4, Constants, TypesAgain
       DEF ConnectionInv, TypeOK, answerVars, modeVars, SockStates, Fates
<1>6. QED
  BY <1>2, <1>4, <1>5

-----------------------------------------------------------------------------
(* Sends: they go well and change nothing here, or the connection is lost. *)

LEMMA KeepStep ==
  ASSUME ConnectionInv, KeepConnection,
         UNCHANGED <<modeVars, connecting, check, giveUps, beatVars, daemonUp, upsets>>,
         pushing' \in BOOLEAN, waited' \in Nat, setbacks' \in Nat,
         buffer' \in Seq(Ids) /\ Len(buffer') <= BufferMax
           /\ request' \in [Ids -> Fates]
  PROVE  ConnectionInv'
<1>1. UNCHANGED <<modeVars, flagVars, timerVars, beatVars, sockVars, daemonUp>>
  BY DEF KeepConnection, flagVars, timerVars
<1>2. Reconnecting' /\ Hearing'
  BY <1>1, NothingMoves
<1>3. QED
  BY <1>1, <1>2, TypesAgain
     DEF ConnectionInv, TypeOK, modeVars, flagVars, timerVars, retryVars, beatVars, hearVars,
         sockVars

LEMMA LoseStep ==
  ASSUME ConnectionInv, LoseConnection, waited' \in Nat, setbacks' \in Nat,
         UNCHANGED <<modeVars, connecting, check, giveUps, beat>>,
         silence' \in Nat, restarts' \in 0..2, pongDue' \in BOOLEAN,
         daemonUp' \in BOOLEAN, pushing' \in BOOLEAN, upsets' \in Nat,
         buffer' \in Seq(Ids) /\ Len(buffer') <= BufferMax
           /\ request' \in [Ids -> Fates]
  PROVE  ConnectionInv'
<1>1. UNCHANGED <<live, stored, connecting, giveUps>> /\ (live => beat' # Off)
  BY DEF modeVars, ConnectionInv, Flags
<1>2. /\ Reconnecting' /\ connected' = FALSE /\ sock' = "none" /\ opening' = 0
      /\ reconnect' \in Nat \cup {Off} /\ attempt' \in Nat
  BY <1>1, LosesTouch
<1>3. Hearing'
  BY <1>2, NotOpenHears DEF ConnectionInv, Hearing
<1>4. QED
  BY <1>1, <1>2, <1>3, TypesAgain DEF ConnectionInv, TypeOK, SockStates

LEMMA AnswersStay ==
  ASSUME ConnectionInv, UNCHANGED answerVars
  PROVE  buffer' \in Seq(Ids) /\ Len(buffer') <= BufferMax
           /\ request' \in [Ids -> Fates]
BY DEF ConnectionInv, TypeOK, answerVars, Fates

LEMMA PushStep == ASSUME ConnectionInv, StartPush \/ FinishPush PROVE ConnectionInv'
<1>1. CASE StartPush
  <2>1. waited' \in Nat /\ setbacks' \in Nat
    BY <1>1 DEF StartPush, waitVars, ConnectionInv, TypeOK
  <2>2. QED
    BY <1>1, <2>1, KeepStep, AnswersStay
       DEF StartPush, KeepConnection, flagVars, timerVars
<1>2. CASE FinishPush
  <2>1. UNCHANGED <<modeVars, connecting, check, giveUps, beatVars, answerVars, daemonUp, upsets>>
          /\ pushing' = FALSE
    BY <1>2 DEF FinishPush
  <2>2. CASE KeepConnection /\ Waits(0)
    <3>1. waited' \in Nat /\ setbacks' \in Nat
      BY <2>2, WaitsAreCounted
    <3>2. QED
      BY <2>1, <2>2, <3>1, KeepStep, AnswersStay
  <2>3. CASE LoseConnection /\ Waits(1)
    <3>1. silence' \in Nat /\ restarts' \in 0..2 /\ pongDue' \in BOOLEAN /\ beat' = beat
            /\ daemonUp' \in BOOLEAN /\ upsets' \in Nat
      BY <2>1 DEF ConnectionInv, TypeOK, beatVars, hearVars
    <3>2. waited' \in Nat /\ setbacks' \in Nat
      BY <2>3, WaitsAreCounted
    <3>3. QED
      BY <2>1, <2>3, <3>1, <3>2, LoseStep, AnswersStay
  <2>4. QED
    BY <1>2, <2>2, <2>3 DEF FinishPush
<1>3. QED
  BY <1>1, <1>2

LEMMA BuffersResponse ==
  ASSUME ConnectionInv, NEW i \in Ids, BufferResponse(i)
  PROVE  buffer' \in Seq(Ids) /\ Len(buffer') <= BufferMax
<1>1. buffer \in Seq(Ids) /\ Len(buffer) <= BufferMax /\ Len(buffer) \in Nat
        /\ BufferMax \in Nat /\ BufferMax > 0
  BY DelayAssumption DEF ConnectionInv, TypeOK
<1>2. CASE Len(buffer) >= BufferMax
  <2>1. buffer # <<>>
    BY <1>1, <1>2
  <2>2. Tail(buffer) \in Seq(Ids) /\ Len(Tail(buffer)) = Len(buffer) - 1
    BY <1>1, <2>1
  <2>3. buffer' = Append(Tail(buffer), i)
    BY <1>2 DEF BufferResponse
  <2>4. Append(Tail(buffer), i) \in Seq(Ids) /\ Len(Append(Tail(buffer), i)) = Len(buffer)
    BY <1>1, <2>2
  <2>5. QED
    BY <1>1, <2>3, <2>4
<1>3. CASE ~(Len(buffer) >= BufferMax)
  <2>1. buffer' = Append(buffer, i)
    BY <1>3 DEF BufferResponse
  <2>2. Append(buffer, i) \in Seq(Ids) /\ Len(Append(buffer, i)) = Len(buffer) + 1
    BY <1>1
  <2>3. Len(buffer) + 1 <= BufferMax
    BY <1>1, <1>3
  <2>4. QED
    BY <2>1, <2>2, <2>3
<1>4. QED
  BY <1>2, <1>3

LEMMA RespondStep == ASSUME ConnectionInv, NEW i \in Ids, Respond(i) PROVE ConnectionInv'
<1>1. UNCHANGED <<modeVars, connecting, check, giveUps, beatVars, pushing, daemonUp, upsets>>
  BY DEF Respond
<1>2. pushing' \in BOOLEAN /\ request \in [Ids -> Fates]
  BY <1>1 DEF ConnectionInv, TypeOK, Fates
<1>3. CASE /\ request' = [request EXCEPT ![i] = IF sock = "open" THEN "sent" ELSE "lost"]
           /\ KeepConnection /\ UNCHANGED buffer /\ Waits(0)
  <2>1. buffer' \in Seq(Ids) /\ Len(buffer') <= BufferMax
    BY <1>3 DEF ConnectionInv, TypeOK
  <2>2. request' \in [Ids -> Fates]
    BY <1>2, <1>3 DEF Fates
  <2>3. waited' \in Nat /\ setbacks' \in Nat
    BY <1>3, WaitsAreCounted
  <2>4. QED
    BY <1>1, <1>2, <1>3, <2>1, <2>2, <2>3, KeepStep
<1>4. CASE BufferResponse(i) /\ LoseConnection /\ Waits(1)
  <2>1. silence' \in Nat /\ restarts' \in 0..2 /\ pongDue' \in BOOLEAN /\ beat' = beat
          /\ daemonUp' \in BOOLEAN /\ upsets' \in Nat
    BY <1>1 DEF ConnectionInv, TypeOK, beatVars, hearVars
  <2>2. request' \in [Ids -> Fates]
    BY <1>2, <1>4 DEF BufferResponse, Fates
  <2>3. waited' \in Nat /\ setbacks' \in Nat
    BY <1>4, WaitsAreCounted
  <2>4. QED
    BY <1>1, <1>2, <1>4, <2>1, <2>2, <2>3, LoseStep, BuffersResponse
<1>5. QED
  BY <1>3, <1>4 DEF Respond

LEMMA LogStep == ASSUME ConnectionInv, LogThrows PROVE ConnectionInv'
<1>1. /\ LoseConnection /\ Waits(1)
      /\ UNCHANGED <<modeVars, connecting, check, giveUps, beatVars, pushing, answerVars, daemonUp>>
  BY DEF LogThrows
<1>2. silence' \in Nat /\ restarts' \in 0..2 /\ pongDue' \in BOOLEAN /\ beat' = beat
        /\ daemonUp' \in BOOLEAN /\ upsets' \in Nat /\ pushing' \in BOOLEAN
  BY <1>1 DEF ConnectionInv, TypeOK, beatVars, hearVars, LogThrows, Upset
<1>3. waited' \in Nat /\ setbacks' \in Nat
  BY <1>1, WaitsAreCounted
<1>4. QED
  BY <1>1, <1>2, <1>3, LoseStep, AnswersStay

LEMMA ShutdownStep == ASSUME ConnectionInv, ReceiveShutdown PROVE ConnectionInv'
<1>1. /\ LoseConnection /\ Waits(0) /\ daemonUp' = FALSE
      /\ silence' = 0 /\ restarts' = 0 /\ pongDue' = FALSE
      /\ UNCHANGED <<modeVars, connecting, check, giveUps, beat, pushing, answerVars>>
  BY DEF ReceiveShutdown
<1>2. upsets' \in Nat /\ pushing' \in BOOLEAN
  BY <1>1 DEF ConnectionInv, TypeOK, ReceiveShutdown, Upset
<1>3. silence' \in Nat /\ restarts' \in 0..2
  BY <1>1
<1>4. pongDue' \in BOOLEAN /\ daemonUp' \in BOOLEAN
  BY <1>1, Zenon
<1>5. waited' \in Nat /\ setbacks' \in Nat
  BY <1>1, WaitsAreCounted
<1>6. QED
  BY <1>1, <1>2, <1>3, <1>4, <1>5, LoseStep, AnswersStay

-----------------------------------------------------------------------------
(* What arrives.                                                           *)

LEMMA FlushKeepsOrder ==
  ASSUME ConnectionInv, NEW n \in 0..Len(buffer), Flush(n)
  PROVE  buffer' \in Seq(Ids) /\ Len(buffer') <= BufferMax
<1>1. buffer \in Seq(Ids) /\ Len(buffer) \in Nat /\ Len(buffer) <= BufferMax /\ BufferMax \in Nat
        /\ n \in Nat /\ n <= Len(buffer)
  BY DelayAssumption DEF ConnectionInv, TypeOK
<1>2. SubSeq(buffer, n + 1, Len(buffer)) \in Seq(Ids)
        /\ Len(SubSeq(buffer, n + 1, Len(buffer))) = Len(buffer) - n
  BY <1>1
<1>3. Len(buffer) - n <= BufferMax
  BY <1>1
<1>4. QED
  BY <1>2, <1>3 DEF Flush

LEMMA OpenedStep == ASSUME ConnectionInv, Opened PROVE ConnectionInv'
<1>1. /\ sock = "opening" /\ daemonUp
      /\ connecting' = FALSE /\ connected' = TRUE
      /\ silence' = 0 /\ restarts' = 0 /\ pongDue' = FALSE
      /\ attempt' = 0 /\ opening' = 0 /\ Waits(0)
      /\ UNCHANGED <<modeVars, reconnect, check, giveUps, beat, pushing, daemonUp>>
  BY DEF Opened
<1>2. PICK n \in 0..Len(buffer) :
        /\ Flush(n)
        /\ \E m \in 0..n :
             /\ Sent(m, n)
             /\ \/ m = Len(buffer) /\ sock' = "open" /\ UNCHANGED upsets
                \/ m < Len(buffer) /\ sock' = "dead" /\ Upset(1)
  BY DEF Opened
<1>3. /\ upsets' \in Nat /\ sock' \in {"open", "dead"}
      /\ waited' \in Nat /\ setbacks' \in Nat
  BY <1>1, <1>2, WaitsAreCounted DEF Upset, ConnectionInv, TypeOK
<1>0. request' \in [Ids -> Fates]
  BY <1>2 DEF Sent, ConnectionInv, TypeOK, Fates
<1>4. buffer' \in Seq(Ids) /\ Len(buffer') <= BufferMax
  BY <1>2, FlushKeepsOrder
<1>5. live /\ beat \in Nat /\ beat <= Interval
  BY <1>1 DEF ConnectionInv, TypeOK, Flags, Hearing
<1>6. Reconnecting'
  BY <1>1, <1>3, <1>5, Constants
     DEF ConnectionInv, Reconnecting, Flags, Retries, modeVars
<1>7. Hearing'
  BY <1>1, <1>5, Constants DEF Hearing
<1>8. /\ connecting' \in BOOLEAN /\ connected' \in BOOLEAN /\ pongDue' \in BOOLEAN
      /\ live' = live /\ stored' = stored /\ pushing' = pushing /\ daemonUp' = daemonUp
  BY <1>1, Zenon DEF modeVars
<1>9. /\ silence' \in Nat /\ restarts' \in 0..2 /\ attempt' \in Nat /\ opening' \in Nat
      /\ sock' \in SockStates
  BY <1>1, <1>3 DEF SockStates, Registered
<1>10. QED
  BY <1>0, <1>1, <1>3, <1>4, <1>6, <1>7, <1>8, <1>9, TypesAgain DEF ConnectionInv, TypeOK

LEMMA HearsStep ==
  ASSUME ConnectionInv, sock = "open", silence' = 0, restarts' = 0,
         pongDue' = FALSE \/ pongDue' = pongDue,
         UNCHANGED <<modeVars, flagVars, timerVars, beat, pushing, sockVars, buffer,
                     daemonUp, waitVars, upsets>>,
         request' \in [Ids -> Fates]
  PROVE  ConnectionInv'
<1>1. beat \in Nat /\ beat <= Interval /\ pongDue' \in BOOLEAN
  BY DEF ConnectionInv, TypeOK, Flags, Hearing
<1>2. Reconnecting'
  BY DEF ConnectionInv, Reconnecting, Flags, Retries,
         modeVars, flagVars, timerVars, retryVars, sockVars
<1>3. Hearing'
  <2>1. 0 + beat < QuietAfter + Interval /\ 0 + beat < QuietAfter + 2 * Interval
    BY <1>1, Constants
  <2>2. pongDue' => pongDue
    OBVIOUS
  <2>3. QED
    BY <1>1, <2>1, <2>2 DEF ConnectionInv, Hearing, sockVars
<1>4. silence' \in Nat /\ restarts' \in 0..2
  OBVIOUS
<1>5. buffer' \in Seq(Ids) /\ Len(buffer') <= BufferMax
  BY DEF ConnectionInv, TypeOK
<1>6. QED
  BY <1>1, <1>2, <1>3, <1>4, <1>5, TypesAgain
     DEF ConnectionInv, TypeOK, modeVars, flagVars, timerVars, retryVars, sockVars, waitVars

LEMMA ReceiveStep == ASSUME ConnectionInv, Receive PROVE ConnectionInv'
<1>1. request' \in [Ids -> Fates] /\ buffer' = buffer
  BY DEF Receive, answerVars, ConnectionInv, TypeOK, Fates
<1>2. QED
  BY <1>1, HearsStep DEF Receive

LEMMA RequestStep == ASSUME ConnectionInv, NEW i \in Ids, ReceiveRequest(i) PROVE ConnectionInv'
<1>1. request' \in [Ids -> Fates]
  BY DEF ReceiveRequest, ConnectionInv, TypeOK, Fates
<1>2. QED
  BY <1>1, HearsStep DEF ReceiveRequest

-----------------------------------------------------------------------------
(* The daemon and time.                                                    *)

LEMMA DaemonStep ==
  ASSUME ConnectionInv, DaemonStops \/ DaemonStarts \/ DaemonCloses
  PROVE  ConnectionInv'
<1>1. CASE DaemonStops
  <2>1. /\ daemonUp' = FALSE /\ opening' = 0 /\ pongDue' = FALSE /\ Waits(0)
        /\ sock' = IF sock = "open" THEN "dead" ELSE IF sock = "opening" THEN "failed" ELSE sock
        /\ UNCHANGED <<modeVars, flagVars, timerVars, beat, silence, restarts, pushing, answerVars>>
    BY <1>1 DEF DaemonStops
  <2>2. sock' \in SockStates /\ sock' \notin {"open", "opening"}
          /\ (sock' = "dead" <=> sock \in {"open", "dead"})
    BY <2>1 DEF ConnectionInv, TypeOK, SockStates, Registered
  <2>3. Reconnecting' /\ Hearing'
    BY <2>1, <2>2, Constants
       DEF ConnectionInv, Reconnecting, Flags, Retries, Hearing,
           modeVars, flagVars, timerVars, retryVars
  <2>4. upsets' \in Nat /\ waited' \in Nat /\ setbacks' \in Nat
    BY <1>1, <2>1, WaitsAreCounted DEF DaemonStops, Upset, ConnectionInv, TypeOK
  <2>5. QED
    BY <2>1, <2>2, <2>3, <2>4, AnswersStay, TypesAgain
       DEF ConnectionInv, TypeOK, modeVars, flagVars, timerVars, retryVars
<1>2. CASE DaemonStarts
  <2>1. /\ ~daemonUp /\ daemonUp' = TRUE /\ Waits(0)
        /\ UNCHANGED <<modeVars, flagVars, timerVars, beatVars, pushing, sockVars, answerVars, upsets>>
    BY <1>2 DEF DaemonStarts
  <2>2. sock \notin {"open", "opening"}
    BY <2>1 DEF ConnectionInv, Flags
  <2>5. waited' \in Nat /\ setbacks' \in Nat
    BY <2>1, WaitsAreCounted
  <2>6. Flags' /\ Retries' /\ Hearing'
    BY <2>1, <2>2 DEF ConnectionInv, Flags, Retries, Hearing, modeVars, flagVars, timerVars,
                      retryVars, sockVars, beatVars, hearVars
  <2>7. QED
    BY <2>1, <2>5, <2>6, AnswersStay, TypesAgain
       DEF Reconnecting, ConnectionInv, TypeOK, modeVars, flagVars, timerVars, retryVars,
           sockVars, beatVars, hearVars
<1>3. CASE DaemonCloses
  <2>1. /\ sock = "open" /\ sock' = "dead" /\ pongDue' = FALSE
        /\ UNCHANGED <<modeVars, flagVars, timerVars, beat, silence, restarts, pushing, opening,
                       answerVars, daemonUp, waitVars>>
    BY <1>3 DEF DaemonCloses
  <2>2. connected /\ sock' \in SockStates
    BY <2>1 DEF ConnectionInv, Flags, SockStates, Registered
  <2>3. Reconnecting' /\ Hearing'
    BY <2>1, <2>2 DEF ConnectionInv, Reconnecting, Flags, Retries, Hearing,
                      modeVars, flagVars, timerVars, retryVars
  <2>4. upsets' \in Nat
    BY <1>3 DEF DaemonCloses, Upset, ConnectionInv, TypeOK
  <2>5. QED
    BY <2>1, <2>2, <2>3, <2>4, AnswersStay, TypesAgain
       DEF ConnectionInv, TypeOK, modeVars, flagVars, timerVars, retryVars, waitVars
<1>4. QED
  BY <1>1, <1>2, <1>3

LEMMA DownDoes ==
  ASSUME NEW t \in Nat \cup {Off}, t # 0
  PROVE  /\ Down(t) \in Nat \cup {Off}
         /\ t # Off => Down(t) # Off /\ Down(t) = t - 1
         /\ t = Off => Down(t) = Off
         /\ Down(t) <= t
BY DEF Down, Off

LEMMA TickStep == ASSUME ConnectionInv, Tick PROVE ConnectionInv'
<1>1. /\ reconnect # 0 /\ check # 0 /\ beat # 0 /\ 0 \notin giveUps
      /\ ~(pongDue /\ sock = "open")
      /\ sock = "opening" => opening > 0
      /\ reconnect' = Down(reconnect) /\ check' = Down(check) /\ beat' = Down(beat)
      /\ giveUps' = {t - 1 : t \in giveUps}
      /\ opening' = IF opening > 0 THEN opening - 1 ELSE 0
      /\ silence' = IF ~connected THEN 0 ELSE IF silence < DeadAfter THEN silence + 1 ELSE silence
      /\ restarts' = IF connected THEN restarts ELSE 0
      /\ UNCHANGED <<modeVars, flagVars, attempt, pongDue, pushing, sock, answerVars,
                     daemonUp, setbacks, upsets>>
  BY DEF Tick, NothingDue
<1>2. waited' = waited + 1 \/ waited' = waited
  BY DEF Tick
<1>3. /\ reconnect \in Nat \cup {Off} /\ check \in Nat \cup {Off} /\ beat \in Nat \cup {Off}
      /\ giveUps \in SUBSET Nat /\ opening \in Nat /\ silence \in Nat /\ waited \in Nat
      /\ restarts \in 0..2
  BY DEF ConnectionInv, TypeOK
<1> DEFINE o == opening'
           r == reconnect'
           b == beat'
           s == silence'
<1>4. waited' \in Nat /\ restarts' \in 0..2
  BY <1>1, <1>2, <1>3
<1>5. o \in Nat /\ o <= opening /\ (sock = "opening" => o = opening - 1)
  BY <1>1, <1>3
<1>6. r \in Nat \cup {Off} /\ r <= reconnect /\ (reconnect # Off => r # Off /\ r = reconnect - 1)
  BY <1>1, <1>3, DownDoes
<1>7. b \in Nat \cup {Off} /\ b <= beat /\ (beat # Off => b # Off /\ b = beat - 1)
  BY <1>1, <1>3, DownDoes
<1>8. check' \in Nat \cup {Off}
  BY <1>1, <1>3, DownDoes
<1>9. s \in Nat /\ s <= silence + 1
  BY <1>1, <1>3
<1>10. \A t \in giveUps : t - 1 \in giveUps' /\ t \in Nat /\ t > 0
  BY <1>1, <1>3
<1>11. giveUps' \in SUBSET Nat /\ \A t \in giveUps' : t <= ConnectTimeout
  <2> SUFFICES ASSUME NEW t \in giveUps' PROVE t \in Nat /\ t <= ConnectTimeout
    OBVIOUS
  <2>1. PICK u \in giveUps : t = u - 1
    BY <1>1
  <2>2. u \in Nat /\ u > 0 /\ u <= ConnectTimeout
    BY <1>10 DEF ConnectionInv, Retries
  <2>3. QED
    BY <2>1, <2>2, Constants
<1> HIDE DEF o, r, b, s
<1>12. /\ live' = live /\ connected' = connected /\ connecting' = connecting
       /\ daemonUp' = daemonUp /\ sock' = sock /\ pongDue' = pongDue
       /\ (sock = "open" => restarts' = restarts)
  BY <1>1 DEF modeVars, flagVars, ConnectionInv, Flags
<1>13. Flags'
  BY <1>7, <1>10, <1>12 DEF ConnectionInv, Flags, b
<1>14. Retries'
  <2>1. r <= SteadyDelay
    BY <1>3, <1>6, Constants DEF ConnectionInv, Retries, Off
  <2>2. o <= OpenLatency
    BY <1>3, <1>5, Constants DEF ConnectionInv, Retries
  <2>3. QED
    BY <1>1, <1>6, <1>11, <1>12, <2>1, <2>2 DEF ConnectionInv, Retries, r, o
<1>16. Hearing'
  <2>1. b <= Interval
    BY <1>3, <1>7, Constants DEF ConnectionInv, Hearing, Off
  <2>2. ASSUME sock = "open", restarts \in {0, 1}
        PROVE  s + b <= silence + beat /\ s + b \in Int /\ silence + beat \in Int
    <3>1. live
      BY <2>2 DEF ConnectionInv, Flags
    <3>2. beat \in Nat /\ b = beat - 1
      BY <1>3, <1>7, <3>1 DEF ConnectionInv, Flags
    <3>3. QED
      BY <1>3, <1>9, <3>2
  <2>3. sock = "open" /\ restarts = 0 => s + b < QuietAfter + Interval
    BY <1>1, <2>2, Constants DEF ConnectionInv, Hearing
  <2>4. sock = "open" /\ restarts = 1 => s + b < QuietAfter + 2 * Interval
    BY <1>1, <2>2, Constants DEF ConnectionInv, Hearing
  <2>5. QED
    BY <1>1, <1>12, <2>1, <2>3, <2>4 DEF Hearing, s, b
<1>17. o \in Nat /\ s \in Nat
  BY <1>5, <1>9
<1>18. QED
  BY <1>1, <1>3, <1>4, <1>6, <1>7, <1>8, <1>11, <1>12, <1>13, <1>14, <1>16, <1>17, AnswersStay,
     TypesAgain
     DEF Reconnecting, ConnectionInv, TypeOK, modeVars, o, r, b, s

LEMMA ConnectionStep == ConnectionInv /\ [Next]_vars => ConnectionInv'
<1>1. ASSUME ConnectionInv, Next PROVE ConnectionInv'
  BY <1>1, ActivateStep, ConnectClaudeStep, DisconnectStep, GiveUpStep, ReconnectStep,
     CheckStep, HeartbeatStep, PushStep, OpenedStep, ReceiveStep, ShutdownStep, RequestStep,
     RespondStep, LogStep, DaemonStep, TickStep
     DEF Next
<1>2. ASSUME ConnectionInv, UNCHANGED vars PROVE ConnectionInv'
  <2>1. Reconnecting' /\ Hearing'
    BY <1>2, NothingMoves DEF vars
  <2>2. TypeOK'
    BY <1>2 DEF vars, ConnectionInv, TypeOK, modeVars, flagVars, timerVars, retryVars, beatVars,
                hearVars, sockVars, answerVars, waitVars
  <2>3. QED
    BY <2>1, <2>2 DEF Reconnecting, ConnectionInv
<1>3. QED
  BY <1>1, <1>2

-----------------------------------------------------------------------------
(* Every variable keeps its type.                                          *)
THEOREM ConnectionIsTyped == Spec => []TypeOK
<1>1. ConnectionInv => TypeOK
  BY DEF ConnectionInv
<1>2. QED
  BY <1>1, ConnectionInit, ConnectionStep, PTL DEF Spec

(* Whatever lost the connection, some timer will try again, and the try is *)
(* not the no-op that register() is while the host holds a registration.   *)
THEOREM LiveModeCanReconnect == Spec => []CanReconnect
<1>1. ConnectionInv => CanReconnect
  BY DEF ConnectionInv, TypeOK, SockStates, Registered, Flags, Retries, CanReconnect
<1>2. QED
  BY <1>1, ConnectionInit, ConnectionStep, PTL DEF Spec

-----------------------------------------------------------------------------
(* What is left to wait.                                                   *)

\* One attempt that comes to nothing: a delay, then the time in which the
\* socket would have opened.
Round == SteadyDelay + OpenLatency
Rounds(k) == k * Round

\* No delay is running: the initial delays still to come and a steady one.
Left(a) == Rounds(Len(InitialDelays) - a + 1)

\* From now to an open socket, the attempt under way not counted.  A delay
\* that outlasts every timer in g leads to an attempt that none of them ends.
Settles(r, a, g) ==
  IF r = Off THEN Left(a)
  ELSE IF \A t \in g : t < r THEN r + OpenLatency
  ELSE r + OpenLatency + Left(a)

\* It is over within b: the socket opens before any timer is due, or it does
\* not and w follows; there is no attempt; it failed and awaits its timer.
Ends(s, o, c, g, w, b) ==
  /\ s = "opening" /\ (\A t \in g : o < t) => o <= b
  /\ s = "opening" /\ ~(\A t \in g : o < t) => o + w <= b
  /\ ~c => w <= b
  /\ c /\ s # "opening" => \E t \in g : t + w <= b

Settling == Settles(reconnect, attempt, giveUps)
EndsIn(b) == Ends(sock, opening, connecting, giveUps, Settling, b)

Patience ==
  /\ ~Missed => waited = 0 /\ setbacks = 0
  /\ Missed => EndsIn(Allowed - waited)

LEMMA RoundsDo ==
  /\ Round \in Nat /\ Rounds(1) = Round
  /\ \A k \in Nat : Rounds(k) \in Nat /\ Rounds(k + 1) = Rounds(k) + Round
<1>1. Round \in Nat
  BY Constants DEF Round
<1>2. \A r, k \in Nat : k * r \in Nat /\ (k + 1) * r = k * r + r /\ 1 * r = r
  OBVIOUS
<1>3. QED
  BY <1>1, <1>2 DEF Rounds

LEMMA RoundsGrow ==
  ASSUME NEW j \in Nat, NEW k \in Nat, j <= k
  PROVE  Rounds(j) <= Rounds(k)
<1>1. \A r, x, d \in Nat : (x + d) * r = x * r + d * r /\ x * r \in Nat /\ d * r \in Nat
  OBVIOUS
<1>2. k - j \in Nat /\ j + (k - j) = k /\ Round \in Nat
  BY RoundsDo
<1>3. /\ (j + (k - j)) * Round = j * Round + (k - j) * Round
      /\ j * Round \in Nat /\ (k - j) * Round \in Nat
  BY <1>1, <1>2
<1>4. k * Round = j * Round + (k - j) * Round
  BY <1>2, <1>3
<1>5. j * Round <= k * Round
  BY <1>3, <1>4
<1>6. QED
  BY <1>5 DEF Rounds

LEMMA BoundIsRounds ==
  PatienceBound \in Nat /\ PatienceBound = ConnectTimeout + Rounds(Len(InitialDelays) + 2)
<1>1. PatienceBound = ConnectTimeout + Rounds(Len(InitialDelays) + 2)
  BY DEF PatienceBound, Rounds, Round
<1>2. Len(InitialDelays) + 2 \in Nat
  BY Constants
<1>3. Rounds(Len(InitialDelays) + 2) \in Nat /\ ConnectTimeout \in Nat
  BY <1>2, RoundsDo, Constants
<1>4. QED
  BY <1>1, <1>3

LEMMA LeftDoes ==
  ASSUME NEW a \in Nat, a <= Len(InitialDelays)
  PROVE  /\ Left(a) \in Nat /\ Left(a) >= Round
         /\ Left(a) + Round <= Rounds(Len(InitialDelays) + 2)
         /\ a < Len(InitialDelays) => Left(a) = Left(a + 1) + Round
<1> DEFINE n == Len(InitialDelays)
<1>1. n \in Nat
  BY Constants
<1> HIDE DEF n
<1>2. n - a + 1 \in Nat /\ 1 <= n - a + 1 /\ n - a + 1 <= n + 1 /\ n + 1 \in Nat
  BY <1>1 DEF n
<1>3. Left(a) = Rounds(n - a + 1)
  BY DEF Left, n
<1>4. Left(a) \in Nat /\ Left(a) >= Round
  BY <1>2, <1>3, RoundsDo, RoundsGrow
<1>5. Left(a) + Round <= Rounds(n + 2)
  <2>1. Rounds(n - a + 1) <= Rounds(n + 1)
    BY <1>2, RoundsGrow
  <2>2. Rounds((n + 1) + 1) = Rounds(n + 1) + Round /\ Rounds(n + 1) \in Nat
    BY <1>2, RoundsDo
  <2>3. (n + 1) + 1 = n + 2
    BY <1>1
  <2>4. Round \in Nat
    BY RoundsDo
  <2>5. QED
    BY <1>3, <1>4, <2>1, <2>2, <2>3, <2>4
<1>6. ASSUME a < n PROVE Left(a) = Left(a + 1) + Round
  <2>1. n - (a + 1) + 1 \in Nat /\ (n - (a + 1) + 1) + 1 = n - a + 1
    BY <1>1, <1>6
  <2>2. Rounds((n - (a + 1) + 1) + 1) = Rounds(n - (a + 1) + 1) + Round
    BY <2>1, RoundsDo
  <2>3. Left(a + 1) = Rounds(n - (a + 1) + 1)
    BY DEF Left, n
  <2>4. QED
    BY <1>3, <2>1, <2>2, <2>3
<1>7. QED
  BY <1>4, <1>5, <1>6 DEF n

LEMMA SettlesInTime ==
  ASSUME NEW r \in Nat \cup {Off}, r <= SteadyDelay, NEW a \in Nat, a <= Len(InitialDelays), NEW g
  PROVE  /\ Settles(r, a, g) \in Nat
         /\ Settles(r, a, g) <= Rounds(Len(InitialDelays) + 2)
<1>1. /\ Left(a) \in Nat /\ Left(a) + Round <= Rounds(Len(InitialDelays) + 2)
      /\ Round = SteadyDelay + OpenLatency /\ Rounds(Len(InitialDelays) + 2) \in Nat
  <2>1. Len(InitialDelays) + 2 \in Nat
    BY Constants
  <2>2. QED
    BY <2>1, LeftDoes, RoundsDo DEF Round
<1>2. CASE r = Off
  BY <1>1, <1>2, Constants DEF Settles
<1>3. CASE r # Off /\ \A t \in g : t < r
  BY <1>1, <1>3, Constants DEF Settles
<1>4. CASE r # Off /\ ~(\A t \in g : t < r)
  BY <1>1, <1>4, Constants DEF Settles
<1>5. QED
  BY <1>2, <1>3, <1>4

LEMMA AnyEnds ==
  ASSUME NEW s, NEW o \in Nat, o <= OpenLatency, NEW c \in BOOLEAN,
         NEW g \in SUBSET Nat, \A t \in g : t <= ConnectTimeout, c => g # {},
         NEW w \in Nat, w <= Rounds(Len(InitialDelays) + 2)
  PROVE  Ends(s, o, c, g, w, PatienceBound)
<1>1. /\ PatienceBound = ConnectTimeout + Rounds(Len(InitialDelays) + 2)
      /\ Rounds(Len(InitialDelays) + 2) \in Nat
  <2>1. Len(InitialDelays) + 2 \in Nat
    BY Constants
  <2>2. QED
    BY <2>1, BoundIsRounds, RoundsDo
<1>2. o + w <= PatienceBound /\ o <= PatienceBound /\ w <= PatienceBound
  BY <1>1, Constants
<1>3. \A t \in g : t + w <= PatienceBound
  BY <1>1, Constants
<1>4. QED
  BY <1>2, <1>3 DEF Ends

LEMMA EndsLater ==
  ASSUME NEW s, NEW o \in Nat, NEW c \in BOOLEAN, NEW g \in SUBSET Nat, NEW w \in Nat,
         NEW b \in Int, Ends(s, o, c, g, w, b)
  PROVE  /\ b >= 0
         /\ \A d \in Int, v \in Nat : b <= d /\ v <= w => Ends(s, o, c, g, v, d)
<1>1. b >= 0
  <2>1. CASE s = "opening" /\ \A t \in g : o < t
    BY <2>1 DEF Ends
  <2>2. CASE s = "opening" /\ ~(\A t \in g : o < t)
    BY <2>2 DEF Ends
  <2>3. CASE ~c
    BY <2>3 DEF Ends
  <2>4. CASE c /\ s # "opening"
    <3>1. PICK t \in g : t + w <= b
      BY <2>4 DEF Ends
    <3>2. QED
      BY <3>1
  <2>5. QED
    BY <2>1, <2>2, <2>3, <2>4
<1>2. ASSUME NEW d \in Int, NEW v \in Nat, b <= d, v <= w PROVE Ends(s, o, c, g, v, d)
  <2>1. s = "opening" /\ (\A t \in g : o < t) => o <= d
    BY <1>2 DEF Ends
  <2>2. s = "opening" /\ ~(\A t \in g : o < t) => o + v <= d
    BY <1>2 DEF Ends
  <2>3. ~c => v <= d
    BY <1>2 DEF Ends
  <2>4. c /\ s # "opening" => \E t \in g : t + v <= d
    <3> SUFFICES ASSUME c, s # "opening" PROVE \E t \in g : t + v <= d
      OBVIOUS
    <3>1. PICK t \in g : t + w <= b
      BY DEF Ends
    <3>2. t + v <= d
      BY <1>2, <3>1
    <3>3. QED
      BY <3>2
  <2>5. QED
    BY <2>1, <2>2, <2>3, <2>4 DEF Ends
<1>3. QED
  BY <1>1, <1>2

LEMMA ScheduleSettles ==
  ASSUME NEW l \in BOOLEAN, NEW a \in Nat, a <= Len(InitialDelays),
         NEW r \in Nat \cup {Off}, r <= SteadyDelay, Schedule(l, a, r),
         NEW g \in SUBSET Nat, \A t \in g : t <= ConnectTimeout, NEW h \in SUBSET g
  PROVE  Settles(reconnect', attempt', h) <= Settles(r, a, g)
<1>1. Left(a) \in Nat /\ Left(a) >= Round /\ Round = SteadyDelay + OpenLatency
  BY LeftDoes DEF Round
<1>2. CASE reconnect' = r /\ attempt' = a
  <2>1. Settles(r, a, h) <= Settles(r, a, g)
    <3>1. CASE r = Off
      BY <1>1, <3>1 DEF Settles
    <3>2. CASE r # Off /\ \A t \in g : t < r
      <4>1. \A t \in h : t < r
        BY <3>2
      <4>2. QED
        BY <3>2, <4>1, Constants DEF Settles
    <3>3. CASE r # Off /\ ~(\A t \in g : t < r)
      BY <1>1, <3>3, Constants DEF Settles
    <3>4. QED
      BY <3>1, <3>2, <3>3
  <2>2. QED
    BY <1>2, <2>1
<1>3. CASE r = Off /\ reconnect' = DelayOf(a) /\ attempt' = NextAttempt(a)
  <2>1. Settles(r, a, g) = Left(a)
    BY <1>3 DEF Settles
  <2>2. /\ DelayOf(a) \in Nat /\ DelayOf(a) <= SteadyDelay /\ DelayOf(a) # Off
        /\ \/ a < Len(InitialDelays) /\ NextAttempt(a) = a + 1
           \/ a = Len(InitialDelays) /\ NextAttempt(a) = a /\ DelayOf(a) = SteadyDelay
    BY DelaysAreShort DEF Off
  <2>3. CASE a < Len(InitialDelays) /\ NextAttempt(a) = a + 1
    <3>1. Left(a) = Left(a + 1) + Round
      BY <2>3, LeftDoes
    <3>2. a + 1 \in Nat /\ a + 1 <= Len(InitialDelays)
      BY <2>3, Constants
    <3>3. Left(a + 1) \in Nat
      BY <3>2, LeftDoes
    <3>4. Settles(DelayOf(a), a + 1, h) <= DelayOf(a) + OpenLatency + Left(a + 1)
      BY <2>2, <3>3, Constants DEF Settles
    <3>5. Settles(DelayOf(a), a + 1, h) \in Nat
      BY <2>2, <3>2, SettlesInTime
    <3>6. QED
      BY <1>1, <1>3, <2>1, <2>2, <2>3, <3>1, <3>3, <3>4, <3>5, Constants
  <2>4. CASE a = Len(InitialDelays) /\ NextAttempt(a) = a /\ DelayOf(a) = SteadyDelay
    <3>1. \A t \in h : t < SteadyDelay
      BY Constants
    <3>2. Settles(SteadyDelay, a, h) = SteadyDelay + OpenLatency
      BY <2>2, <2>4, <3>1 DEF Settles
    <3>3. QED
      BY <1>1, <1>3, <2>1, <2>4, <3>2, Constants
  <2>5. QED
    BY <2>2, <2>3, <2>4
<1>4. QED
  BY <1>2, <1>3 DEF Schedule

LEMMA TickSettles ==
  ASSUME NEW r \in Nat \cup {Off}, r # 0, NEW a \in Nat, a <= Len(InitialDelays),
         NEW g \in SUBSET Nat, NEW h, h = {t - 1 : t \in g}
  PROVE  /\ Settles(Down(r), a, h) <= Settles(r, a, g)
         /\ r # Off => Settles(Down(r), a, h) <= Settles(r, a, g) - 1
<1>1. Left(a) \in Nat
  BY LeftDoes
<1>2. CASE r = Off
  BY <1>1, <1>2 DEF Settles, Down
<1>3. CASE r # Off
  <2>1. Down(r) = r - 1 /\ Down(r) # Off /\ r \in Nat
    BY <1>3 DEF Down, Off
  <2>2. CASE \A t \in g : t < r
    <3>1. \A u \in h : u < r - 1
      BY <2>1, <2>2
    <3>2. Settles(Down(r), a, h) = (r - 1) + OpenLatency
      BY <2>1, <3>1 DEF Settles
    <3>3. Settles(r, a, g) = r + OpenLatency
      BY <1>3, <2>2 DEF Settles
    <3>4. QED
      BY <2>1, <3>2, <3>3, Constants
  <2>3. CASE ~(\A t \in g : t < r)
    <3>1. Settles(Down(r), a, h) <= (r - 1) + OpenLatency + Left(a)
      BY <1>1, <2>1, Constants DEF Settles
    <3>2. Settles(r, a, g) = r + OpenLatency + Left(a)
      BY <1>3, <2>3 DEF Settles
    <3>3. Settles(Down(r), a, h) \in Int
      BY <1>1, <2>1, Constants DEF Settles
    <3>4. QED
      BY <1>1, <2>1, <3>1, <3>2, <3>3, Constants
  <2>4. QED
    BY <2>2, <2>3
<1>4. QED
  BY <1>2, <1>3

-----------------------------------------------------------------------------
(* Patience holds from step to step.                                       *)

LEMMA AllowedGrows ==
  ASSUME NEW k \in Nat, NEW n \in Nat
  PROVE  /\ (1 + k) * PatienceBound \in Nat
         /\ (1 + (k + n)) * PatienceBound >= (1 + k) * PatienceBound
         /\ n > 0 => (1 + (k + n)) * PatienceBound >= (1 + k) * PatienceBound + PatienceBound
         /\ (1 + 0) * PatienceBound = PatienceBound
<1>1. PatienceBound \in Nat
  BY BoundIsRounds
<1>2. \A p, x, d \in Nat : /\ (1 + (x + d)) * p = (1 + x) * p + d * p
                           /\ (1 + x) * p \in Nat /\ d * p \in Nat /\ (1 + 0) * p = p
  OBVIOUS
<1>3. \A p, d \in Nat : d > 0 => d * p >= p
  <2> SUFFICES ASSUME NEW p \in Nat, NEW d \in Nat, d > 0 PROVE d * p >= p
    OBVIOUS
  <2>1. d - 1 \in Nat /\ (1 + (0 + (d - 1))) * p = (1 + 0) * p + (d - 1) * p /\ (d - 1) * p \in Nat
    BY <1>2
  <2>2. 1 + (0 + (d - 1)) = d /\ (1 + 0) * p = p
    BY <1>2
  <2>3. d * p = p + (d - 1) * p
    BY <2>1, <2>2
  <2>4. QED
    BY <2>1, <2>3
<1>4. /\ (1 + (k + n)) * PatienceBound = (1 + k) * PatienceBound + n * PatienceBound
      /\ (1 + k) * PatienceBound \in Nat /\ n * PatienceBound \in Nat
      /\ (1 + 0) * PatienceBound = PatienceBound
  BY <1>1, <1>2
<1>5. n > 0 => n * PatienceBound >= PatienceBound
  BY <1>1, <1>3
<1>6. QED
  BY <1>1, <1>4, <1>5

\* What ConnectionInv says of the values that Ends speaks of.
LEMMA Waiting ==
  ASSUME ConnectionInv
  PROVE  /\ opening \in Nat /\ opening <= OpenLatency /\ connecting \in BOOLEAN
         /\ giveUps \in SUBSET Nat /\ (\A t \in giveUps : t <= ConnectTimeout)
         /\ (connecting => giveUps # {})
         /\ reconnect \in Nat \cup {Off} /\ reconnect <= SteadyDelay
         /\ attempt \in Nat /\ attempt <= Len(InitialDelays)
         /\ waited \in Nat /\ setbacks \in Nat /\ Allowed \in Nat
         /\ Settling \in Nat /\ Settling <= Rounds(Len(InitialDelays) + 2)
<1>1. /\ opening \in Nat /\ opening <= OpenLatency /\ connecting \in BOOLEAN
      /\ giveUps \in SUBSET Nat /\ (\A t \in giveUps : t <= ConnectTimeout)
      /\ (connecting => giveUps # {})
      /\ reconnect \in Nat \cup {Off} /\ reconnect <= SteadyDelay
      /\ attempt \in Nat /\ attempt <= Len(InitialDelays)
      /\ waited \in Nat /\ setbacks \in Nat
  BY DEF ConnectionInv, TypeOK, Flags, Retries
<1>2. Allowed \in Nat
  BY <1>1, AllowedGrows DEF Allowed
<1>3. Settling \in Nat /\ Settling <= Rounds(Len(InitialDelays) + 2)
  BY <1>1, SettlesInTime DEF Settling
<1>4. QED
  BY <1>1, <1>2, <1>3

LEMMA AnyWait == ConnectionInv => EndsIn(PatienceBound)
BY Waiting, AnyEnds DEF EndsIn

LEMMA EndsInLater ==
  ConnectionInv => \A b, d \in Int : EndsIn(b) /\ b <= d => EndsIn(d)
<1> SUFFICES ASSUME ConnectionInv, NEW b \in Int, NEW d \in Int, EndsIn(b), b <= d
             PROVE  EndsIn(d)
  OBVIOUS
<1>1. /\ opening \in Nat /\ connecting \in BOOLEAN /\ giveUps \in SUBSET Nat
      /\ Settling \in Nat /\ Settling <= Settling
  BY Waiting
<1>2. Ends(sock, opening, connecting, giveUps, Settling, b)
  BY DEF EndsIn
<1>3. \A e \in Int, v \in Nat :
         b <= e /\ v <= Settling => Ends(sock, opening, connecting, giveUps, v, e)
  BY <1>1, <1>2, EndsLater
<1>4. QED
  BY <1>1, <1>3 DEF EndsIn

LEMMA AnySettling == ConnectionInv => Settling \in Nat
BY Waiting

LEMMA IsPatient ==
  ASSUME ConnectionInv, Patience
  PROVE  waited <= Allowed
<1>1. waited \in Nat /\ Allowed \in Nat
  BY Waiting
<1>2. CASE Missed
  <2>1. EndsIn(Allowed - waited) /\ Allowed - waited \in Int
    BY <1>1, <1>2 DEF Patience
  <2>2. Allowed - waited >= 0
    BY <2>1, Waiting, EndsLater DEF EndsIn
  <2>3. QED
    BY <1>1, <2>2
<1>3. CASE ~Missed
  BY <1>1, <1>3 DEF Patience
<1>4. QED
  BY <1>2, <1>3

\* A step after which another PatienceBound is allowed.
LEMMA NewWait ==
  ASSUME ConnectionInv, ConnectionInv', Patience, NEW n \in Nat, Waits(n),
         n > 0 \/ ~Missed \/ ~Missed'
  PROVE  Patience'
<1>1. EndsIn(PatienceBound)' /\ PatienceBound \in Nat
  BY AnyWait, BoundIsRounds, PTL
<1>2. waited \in Nat /\ setbacks \in Nat /\ Allowed \in Nat /\ waited <= Allowed
  BY Waiting, IsPatient
<1>3. CASE Missed /\ Missed'
  <2>1. waited' = waited /\ setbacks' = setbacks + n /\ n > 0
    BY <1>3 DEF Waits
  <2>2. Allowed' = (1 + (setbacks + n)) * PatienceBound
    BY <2>1 DEF Allowed
  <2>3. Allowed' >= Allowed + PatienceBound /\ Allowed' \in Nat
    <3>1. setbacks + n \in Nat
      BY <1>2
    <3>2. QED
      BY <1>2, <2>1, <2>2, <3>1, AllowedGrows DEF Allowed
  <2>4. Allowed' - waited' \in Int /\ PatienceBound <= Allowed' - waited'
    <3>1. \A a, c, p, w \in Nat : w <= c /\ a >= c + p => a - w \in Int /\ p <= a - w
      OBVIOUS
    <3>2. waited' \in Nat /\ waited' <= Allowed
      BY <1>2, <2>1
    <3>3. QED
      BY <1>1, <1>2, <2>3, <3>1, <3>2
  <2>5. EndsIn(Allowed - waited)'
    <3>1. (\A b, d \in Int : EndsIn(b) /\ b <= d => EndsIn(d))'
      BY EndsInLater, PTL
    <3>2. (Allowed - waited)' = Allowed' - waited' /\ PatienceBound \in Int
      BY <1>1
    <3>3. QED
      BY <1>1, <2>4, <3>1, <3>2 DEF EndsIn
  <2>6. QED
    BY <1>3, <2>5 DEF Patience
<1>4. CASE ~(Missed /\ Missed')
  <2>1. waited' = 0 /\ setbacks' = 0
    BY <1>4 DEF Waits
  <2>2. Allowed' - waited' = PatienceBound
    <3>1. Allowed' = (1 + 0) * PatienceBound
      BY <2>1 DEF Allowed
    <3>2. Allowed' = PatienceBound
      BY <3>1, AllowedGrows
    <3>3. QED
      BY <1>1, <2>1, <3>2
  <2>3. EndsIn(Allowed - waited)'
    BY <1>1, <2>2 DEF EndsIn
  <2>4. QED
    BY <2>1, <2>3 DEF Patience
<1>5. QED
  BY <1>3, <1>4

\* A step that brings no setback and leaves the wait no longer than it was.
LEMMA SameWait ==
  ASSUME ConnectionInv, ConnectionInv', Patience, Waits(0),
         Missed /\ Missed' => \A b \in Int : EndsIn(b) => EndsIn(b)'
  PROVE  Patience'
<1>1. CASE ~Missed \/ ~Missed'
  BY <1>1, NewWait
<1>2. CASE Missed /\ Missed'
  <2>1. waited' = waited /\ setbacks' = setbacks
    BY <1>2, Waiting DEF Waits
  <2>2. Allowed' = Allowed
    BY <2>1 DEF Allowed
  <2>3. Allowed - waited \in Int /\ EndsIn(Allowed - waited)
    BY <1>2, Waiting DEF Patience
  <2>4. \A b \in Int : EndsIn(b) => EndsIn(b)'
    BY <1>2
  <2>5. EndsIn(Allowed - waited)'
    BY <2>1, <2>2, <2>3, <2>4 DEF EndsIn
  <2>6. QED
    BY <1>2, <2>5 DEF Patience
<1>3. QED
  BY <1>1, <1>2

LEMMA SendsArePatient ==
  ASSUME ConnectionInv, ConnectionInv', Patience,
         UNCHANGED <<modeVars, connecting, giveUps, daemonUp>>,
         (KeepConnection /\ Waits(0)) \/ Waits(1)
  PROVE  Patience'
<1>1. CASE KeepConnection /\ Waits(0)
  <2>1. \A b \in Int : EndsIn(b) => EndsIn(b)'
    BY <1>1 DEF KeepConnection, EndsIn, Settling, sockVars, retryVars
  <2>2. QED
    BY <1>1, <2>1, SameWait
<1>2. CASE Waits(1)
  BY <1>2, NewWait
<1>3. QED
  BY <1>1, <1>2

LEMMA PatientGiveUp ==
  ASSUME ConnectionInv, ConnectionInv', Patience, GiveUp
  PROVE  Patience'
<1>1. /\ 0 \in giveUps /\ giveUps' = giveUps \ {0} /\ Waits(0)
  BY DEF GiveUp
<1>2. ASSUME Missed, NEW b \in Int, EndsIn(b) PROVE EndsIn(b)'
  <2>1. ~connected /\ live
    BY <1>2 DEF Missed
  <2>2. /\ connecting' = FALSE /\ sock' = "none"
        /\ Schedule(live, attempt, reconnect)
    BY <2>1 DEF GiveUp, CloseSocket
  <2>3. /\ opening \in Nat /\ connecting \in BOOLEAN /\ giveUps \in SUBSET Nat
        /\ (\A t \in giveUps : t <= ConnectTimeout) /\ attempt \in Nat
        /\ attempt <= Len(InitialDelays) /\ reconnect \in Nat \cup {Off}
        /\ reconnect <= SteadyDelay /\ Settling \in Nat
    BY Waiting
  <2>4. live \in BOOLEAN /\ giveUps' \in SUBSET giveUps
    BY <1>1 DEF ConnectionInv, TypeOK
  <2>5. Settles(reconnect', attempt', giveUps') <= Settling
    BY <2>2, <2>3, <2>4, ScheduleSettles DEF Settling
  <2>6. Settling' \in Nat /\ Settling' <= Settling
    <3>1. Settling' = Settles(reconnect', attempt', giveUps')
      BY DEF Settling
    <3>2. (Settling \in Nat)'
      BY AnySettling, PTL
    <3>3. QED
      BY <2>5, <3>1, <3>2
  <2>7. Ends(sock, opening, connecting, giveUps, Settling, b)
    BY <1>2 DEF EndsIn
  <2>8. Settling <= b
    <3>1. CASE sock = "opening"
      <4>1. ~(\A t \in giveUps : opening < t)
        BY <1>1, <2>3
      <4>2. opening + Settling <= b
        BY <2>7, <3>1, <4>1 DEF Ends
      <4>3. QED
        BY <2>3, <4>2
    <3>2. CASE sock # "opening" /\ connecting
      <4>1. PICK t \in giveUps : t + Settling <= b
        BY <2>7, <3>2 DEF Ends
      <4>2. t \in Nat
        BY <2>3
      <4>3. QED
        BY <2>3, <4>1, <4>2
    <3>3. CASE ~connecting
      BY <2>7, <3>3 DEF Ends
    <3>4. QED
      BY <3>1, <3>2, <3>3
  <2>9. Settling' <= b
    BY <2>3, <2>6, <2>8
  <2>10. QED
    BY <2>2, <2>9 DEF EndsIn, Ends
<1>3. QED
  BY <1>1, <1>2, SameWait

LEMMA PatientCheck ==
  ASSUME ConnectionInv, ConnectionInv', Patience, CheckDue
  PROVE  Patience'
<1>1. UNCHANGED <<modeVars, flagVars, giveUps, sockVars, daemonUp, waitVars>>
  BY DEF CheckDue
<1>2. /\ sock' = sock /\ opening' = opening /\ connecting' = connecting /\ giveUps' = giveUps
      /\ waited' = waited /\ setbacks' = setbacks
      /\ (Missed' <=> Missed)
  BY <1>1 DEF modeVars, flagVars, sockVars, waitVars, Missed
<1>3. CASE ~Missed
  BY <1>2, <1>3 DEF Patience
<1>4. CASE Missed
  <2>1. Schedule(live, attempt, reconnect)
    BY <1>4 DEF CheckDue, Missed
  <2>2. /\ opening \in Nat /\ connecting \in BOOLEAN /\ giveUps \in SUBSET Nat
        /\ (\A t \in giveUps : t <= ConnectTimeout) /\ attempt \in Nat
        /\ attempt <= Len(InitialDelays) /\ reconnect \in Nat \cup {Off}
        /\ reconnect <= SteadyDelay /\ Settling \in Nat /\ Allowed - waited \in Int
    BY Waiting
  <2>3. live \in BOOLEAN /\ giveUps \in SUBSET giveUps
    BY DEF ConnectionInv, TypeOK
  <2>4. Settles(reconnect', attempt', giveUps) <= Settling
    BY <2>1, <2>2, <2>3, ScheduleSettles DEF Settling
  <2>5. Settling' \in Nat /\ Settling' <= Settling
    <3>1. Settling' = Settles(reconnect', attempt', giveUps)
      BY <1>2 DEF Settling
    <3>2. (Settling \in Nat)'
      BY AnySettling, PTL
    <3>3. QED
      BY <2>4, <3>1, <3>2
  <2>6. Ends(sock, opening, connecting, giveUps, Settling, Allowed - waited)
    BY <1>4 DEF Patience, EndsIn
  <2>7. \A d \in Int, v \in Nat : Allowed - waited <= d /\ v <= Settling =>
           Ends(sock, opening, connecting, giveUps, v, d)
    BY <2>2, <2>6, EndsLater
  <2>8. Ends(sock, opening, connecting, giveUps, Settling', Allowed - waited)
    BY <2>2, <2>5, <2>7
  <2>9. EndsIn(Allowed - waited)'
    BY <1>2, <2>8 DEF EndsIn, Allowed
  <2>10. QED
    BY <1>2, <1>4, <2>9 DEF Patience
<1>5. QED
  BY <1>3, <1>4

LEMMA PatientReconnect ==
  ASSUME ConnectionInv, ConnectionInv', Patience, ReconnectDue
  PROVE  Patience'
<1>1. reconnect = 0 /\ Waits(upsets' - upsets) /\ UNCHANGED connected
  BY DEF ReconnectDue
<1>2. upsets \in Nat
  BY DEF ConnectionInv, TypeOK
<1>3. CASE ~live \/ connected
  <2>1. upsets' - upsets = 0
    BY <1>2, <1>3 DEF ReconnectDue
  <2>2. Waits(0) /\ ~Missed
    BY <1>1, <1>3, <2>1 DEF Missed
  <2>3. QED
    BY <2>2, NewWait
<1>4. CASE live /\ ~connected
  <2>1. Connect(live, attempt, Off, 0)
    BY <1>4 DEF ReconnectDue
  <2>2. /\ opening \in Nat /\ connecting \in BOOLEAN /\ giveUps \in SUBSET Nat
        /\ attempt \in Nat /\ attempt <= Len(InitialDelays)
        /\ (connecting => giveUps # {}) /\ Settling \in Nat
        /\ live \in BOOLEAN /\ TypeOK /\ Off \in Nat \cup {Off} /\ Off <= SteadyDelay
    BY Waiting, Constants DEF ConnectionInv, TypeOK, Off
  <2>3. /\ upsets' \in Nat /\ upsets' >= upsets + 0
        /\ \/ /\ connected \/ connecting
              /\ UNCHANGED <<connecting, giveUps, sockVars>>
           \/ Attempts(live)
    BY <2>1, <2>2, ConnectDoes
  <2>4. CASE upsets' # upsets
    <3>1. upsets' - upsets \in Nat /\ upsets' - upsets > 0
      BY <1>2, <2>3, <2>4, MoreIsMore
    <3>2. QED
      BY <1>1, <3>1, NewWait
  <2>5. CASE upsets' = upsets /\ connecting
    <3>1. /\ reconnect' = Off /\ attempt' = attempt /\ connecting' = connecting
          /\ giveUps' = giveUps /\ sock' = sock /\ opening' = opening
      BY <1>4, <2>1, <2>5 DEF Connect, sockVars
    <3>2. Left(attempt) \in Nat
      BY <2>2, LeftDoes
    <3>3. Settling' = Left(attempt)
      BY <3>1 DEF Settling, Settles
    <3>4. Settling = 0 + OpenLatency + Left(attempt)
      <4>1. ~(\A t \in giveUps : t < 0) /\ reconnect # Off
        <5>1. \E t \in giveUps : t \in Nat
          BY <2>2, <2>5
        <5>2. reconnect # Off
          BY <1>1 DEF Off
        <5>3. QED
          BY <5>1, <5>2
      <4>2. QED
        BY <1>1, <4>1 DEF Settling, Settles
    <3>5. Left(attempt) <= Settling
      BY <3>2, <3>4, Constants
    <3>6. \A b \in Int : EndsIn(b) => EndsIn(b)'
      <4> SUFFICES ASSUME NEW b \in Int, EndsIn(b) PROVE EndsIn(b)'
        OBVIOUS
      <4>1. Ends(sock, opening, connecting, giveUps, Settling, b) /\ b <= b
        BY DEF EndsIn
      <4>2. \A d \in Int, v \in Nat : b <= d /\ v <= Settling =>
               Ends(sock, opening, connecting, giveUps, v, d)
        BY <2>2, <4>1, EndsLater
      <4>3. Ends(sock, opening, connecting, giveUps, Left(attempt), b)
        BY <3>2, <3>5, <4>1, <4>2
      <4>4. QED
        BY <3>1, <3>3, <4>3 DEF EndsIn
    <3>7. upsets' - upsets = 0
      BY <1>2, <2>5
    <3>8. QED
      BY <1>1, <3>6, <3>7, SameWait
  <2>6. CASE upsets' = upsets /\ ~connecting
    <3>1. Attempts(live)
      BY <1>4, <2>3, <2>6
    <3>2. /\ giveUps' = giveUps \cup {ConnectTimeout}
          /\ \/ connecting' = TRUE /\ daemonUp /\ sock' = "opening" /\ opening' = OpenLatency
             \/ connecting' = TRUE /\ ~daemonUp /\ sock' = "failed" /\ opening' = 0
             \/ /\ connecting' = FALSE /\ sock' = sock /\ opening' = opening
                /\ upsets' # upsets /\ (live => reconnect' # Off)
      BY <2>2, <3>1, AttemptsDoes
    <3>3. connecting' = TRUE
      BY <2>6, <3>2
    <3>4. reconnect' = Off /\ attempt' = attempt
      BY <1>4, <2>1, <2>6, <3>3 DEF Connect
    <3>5. Left(attempt) \in Nat
      BY <2>2, LeftDoes
    <3>6. Settling' = Left(attempt)
      BY <3>4 DEF Settling, Settles
    <3>7. ASSUME Missed, NEW b \in Int, EndsIn(b) PROVE EndsIn(b)'
      <4>1. sock' = "opening" /\ opening' = OpenLatency
        BY <2>6, <3>2, <3>7 DEF Missed
      <4>2. Settling <= b
        BY <2>6, <3>7 DEF EndsIn, Ends
      <4>3. reconnect # Off
        BY <1>1 DEF Off
      <4>4. CASE \A t \in giveUps : t < 0
        <5>1. Settling = 0 + OpenLatency
          BY <1>1, <4>3, <4>4 DEF Settling, Settles
        <5>2. giveUps = {}
          BY <2>2, <4>4
        <5>3. \A t \in giveUps' : OpenLatency < t
          BY <3>2, <5>2, Constants
        <5>4. OpenLatency <= b
          BY <4>2, <5>1, Constants
        <5>5. Ends("opening", OpenLatency, TRUE, giveUps', Settling', b)
          BY <5>3, <5>4 DEF Ends
        <5>6. QED
          BY <3>3, <4>1, <5>5 DEF EndsIn
      <4>5. CASE ~(\A t \in giveUps : t < 0)
        <5>1. Settling = 0 + OpenLatency + Left(attempt)
          BY <1>1, <4>3, <4>5 DEF Settling, Settles
        <5>2. OpenLatency + Left(attempt) <= b /\ OpenLatency <= b
          BY <3>5, <4>2, <5>1, Constants
        <5>3. Ends("opening", OpenLatency, TRUE, giveUps', Left(attempt), b)
          BY <5>2 DEF Ends
        <5>4. QED
          BY <3>3, <3>6, <4>1, <5>3 DEF EndsIn
      <4>6. QED
        BY <4>4, <4>5
    <3>8. upsets' - upsets = 0
      BY <1>2, <2>6
    <3>9. QED
      BY <1>1, <3>7, <3>8, SameWait
  <2>7. QED
    BY <2>4, <2>5, <2>6
<1>5. QED
  BY <1>3, <1>4

LEMMA PatientTick ==
  ASSUME ConnectionInv, ConnectionInv', Patience, Tick
  PROVE  Patience'
<1>1. /\ reconnect # 0 /\ 0 \notin giveUps /\ (sock = "opening" => opening > 0)
      /\ reconnect' = Down(reconnect) /\ giveUps' = {t - 1 : t \in giveUps}
      /\ opening' = IF opening > 0 THEN opening - 1 ELSE 0
      /\ sock' = sock /\ connecting' = connecting /\ attempt' = attempt
      /\ setbacks' = setbacks /\ (Missed' <=> Missed)
      /\ waited' = IF Missed /\ waited <= Allowed THEN waited + 1 ELSE waited
  BY DEF Tick, NothingDue, Missed, modeVars, flagVars
<1>2. /\ opening \in Nat /\ connecting \in BOOLEAN /\ giveUps \in SUBSET Nat
      /\ attempt \in Nat /\ attempt <= Len(InitialDelays) /\ reconnect \in Nat \cup {Off}
      /\ Settling \in Nat /\ Allowed \in Nat /\ waited \in Nat /\ waited <= Allowed
  BY Waiting, IsPatient
<1>3. CASE ~Missed
  BY <1>1, <1>3 DEF Patience
<1>4. CASE Missed
  <2> DEFINE b == Allowed - waited
             w == Settling'
             h == giveUps'
  <2>1. Allowed' = Allowed /\ waited' = waited + 1
    BY <1>1, <1>2, <1>4 DEF Allowed
  <2>2. b \in Int /\ Ends(sock, opening, connecting, giveUps, Settling, b)
    BY <1>2, <1>4 DEF Patience, EndsIn
  <2>3. w \in Nat
    <3>1. (Settling \in Nat)'
      BY AnySettling, PTL
    <3>2. QED
      BY <3>1
  <2>4. w <= Settling /\ (reconnect # Off => w <= Settling - 1)
    <3>1. w = Settles(Down(reconnect), attempt, {t - 1 : t \in giveUps})
      BY <1>1 DEF Settling
    <3>2. /\ Settles(Down(reconnect), attempt, {t - 1 : t \in giveUps}) <= Settling
          /\ reconnect # Off =>
               Settles(Down(reconnect), attempt, {t - 1 : t \in giveUps}) <= Settling - 1
      BY <1>1, <1>2, TickSettles DEF Settling
    <3>3. QED
      BY <3>1, <3>2
  <2>5. h = {t - 1 : t \in giveUps} /\ \A t \in giveUps : t \in Nat /\ t > 0 /\ t - 1 \in h
    BY <1>1, <1>2
  <2> HIDE DEF b, w, h
  <2>6. ASSUME sock = "opening" PROVE Ends(sock, opening - 1, connecting, h, w, b - 1)
    <3>1. CASE \A t \in giveUps : opening < t
      <4>1. opening <= b /\ \A t \in h : opening - 1 < t
        BY <1>2, <2>2, <2>5, <2>6, <3>1 DEF Ends
      <4>2. opening - 1 <= b - 1
        BY <1>2, <2>2, <4>1
      <4>3. connecting
        BY <2>6 DEF ConnectionInv, Flags
      <4>4. QED
        BY <2>6, <4>1, <4>2, <4>3 DEF Ends
    <3>2. CASE ~(\A t \in giveUps : opening < t)
      <4>1. opening + Settling <= b
        BY <2>2, <2>6, <3>2 DEF Ends
      <4>2. (opening - 1) + w <= b - 1 /\ opening - 1 <= b - 1
        BY <1>2, <2>2, <2>3, <2>4, <4>1
      <4>3. connecting
        BY <2>6 DEF ConnectionInv, Flags
      <4>4. QED
        BY <2>6, <4>2, <4>3 DEF Ends
    <3>3. QED
      BY <3>1, <3>2
  <2>7. ASSUME sock # "opening", NEW o PROVE Ends(sock, o, connecting, h, w, b - 1)
    <3>1. CASE ~connecting
      <4>1. reconnect # Off
        BY <1>4, <3>1 DEF Missed, ConnectionInv, Retries
      <4>2. Settling <= b
        BY <2>2, <3>1 DEF Ends
      <4>3. w <= b - 1
        BY <1>2, <2>2, <2>3, <2>4, <4>1, <4>2
      <4>4. QED
        BY <2>7, <3>1, <4>3 DEF Ends
    <3>2. CASE connecting
      <4>1. PICK t \in giveUps : t + Settling <= b
        BY <2>2, <2>7, <3>2 DEF Ends
      <4>2. t \in Nat /\ t - 1 \in h
        BY <2>5
      <4>3. (t - 1) + w <= b - 1
        BY <1>2, <2>2, <2>3, <2>4, <4>1, <4>2
      <4>4. \E u \in h : u + w <= b - 1
        BY <4>2, <4>3
      <4>5. QED
        BY <2>7, <3>2, <4>4 DEF Ends
    <3>3. QED
      BY <1>2, <3>1, <3>2
  <2>8. Ends(sock', opening', connecting', h, w, b - 1)
    <3>1. sock = "opening" => opening' = opening - 1
      BY <1>1
    <3>2. CASE sock = "opening"
      BY <1>1, <2>6, <3>1, <3>2
    <3>3. CASE sock # "opening"
      BY <1>1, <2>7, <3>3
    <3>4. QED
      BY <3>2, <3>3
  <2>9. (Allowed - waited)' = b - 1
    BY <1>2, <2>1 DEF b
  <2>10. EndsIn(Allowed - waited)'
    BY <2>8, <2>9 DEF EndsIn, w, h
  <2>11. QED
    BY <1>1, <1>4, <2>10 DEF Patience
<1>5. QED
  BY <1>3, <1>4

LEMMA PatienceStep == ConnectionInv /\ ConnectionInv' /\ Patience /\ [Next]_vars => Patience'
<1> SUFFICES ASSUME ConnectionInv, ConnectionInv', Patience, [Next]_vars PROVE Patience'
  OBVIOUS
<1>1. ASSUME Activate PROVE Patience'
  <2>1. PICK n \in Nat : GoLive(n) /\ (live => n = 1)
    BY <1>1 DEF Activate
  <2>2. upsets' \in Nat /\ upsets' >= upsets + n /\ upsets \in Nat
    BY <2>1, GoLiveDoes DEF ConnectionInv, TypeOK
  <2>3. upsets' - upsets \in Nat /\ (live => upsets' - upsets > 0)
    <3>1. upsets' - upsets \in Nat /\ (n > 0 => upsets' - upsets > 0)
      BY <2>2, MoreIsMore
    <3>2. QED
      BY <2>1, <3>1
  <2>4. Waits(upsets' - upsets) /\ (~live => ~Missed)
    BY <1>1 DEF Activate, Missed
  <2>5. QED
    BY <2>3, <2>4, NewWait
<1>2. ASSUME ConnectClaude PROVE Patience'
  <2>1. /\ attempt \in Nat /\ reconnect \in Nat \cup {Off} /\ reconnect <= SteadyDelay
        /\ attempt <= Len(InitialDelays) /\ TypeOK /\ live \in BOOLEAN /\ upsets \in Nat
    BY DEF ConnectionInv, TypeOK, Retries
  <2>2. Waits(upsets' - upsets) /\ (~live => ~Missed)
    BY <1>2 DEF ConnectClaude, Missed
  <2>3. CASE live
    <3>1. Connect(TRUE, attempt, reconnect, 1)
      BY <1>2, <2>3 DEF ConnectClaude
    <3>2. upsets' \in Nat /\ upsets' >= upsets + 1
      BY <2>1, <3>1, ConnectDoes
    <3>3. upsets' - upsets \in Nat /\ upsets' - upsets > 0
      <4>1. 1 \in Nat /\ 1 > 0 /\ upsets \in Nat
        BY <2>1
      <4>2. QED
        BY <3>2, <4>1, MoreIsMore
    <3>4. QED
      BY <2>2, <3>3, NewWait
  <2>4. CASE ~live
    <3>1. GoLive(0)
      BY <1>2, <2>4 DEF ConnectClaude
    <3>2. upsets' \in Nat /\ upsets' >= upsets + 0
      BY <3>1, GoLiveDoes
    <3>3. upsets' - upsets \in Nat
      BY <2>1, <3>2, MoreIsMore
    <3>4. QED
      BY <2>2, <2>4, <3>3, NewWait
  <2>5. QED
    BY <2>3, <2>4
<1>3. ASSUME DisconnectClaude PROVE Patience'
  BY <1>3, NewWait DEF DisconnectClaude
<1>4. ASSUME HeartbeatDue PROVE Patience'
  <2>1. Waits(0) /\ UNCHANGED <<modeVars, connecting, giveUps, daemonUp>>
    BY <1>4 DEF HeartbeatDue
  <2>2. CASE connected
    BY <2>1, <2>2, NewWait DEF Missed
  <2>3. CASE ~connected
    <3>1. KeepConnection
      BY <1>4, <2>3 DEF HeartbeatDue, Ping
    <3>2. QED
      BY <2>1, <3>1, SendsArePatient
  <2>4. QED
    BY <2>2, <2>3
<1>5. ASSUME FinishPush PROVE Patience'
  BY <1>5, SendsArePatient DEF FinishPush
<1>6. ASSUME NEW i \in Ids, Respond(i) PROVE Patience'
  BY <1>6, SendsArePatient DEF Respond
<1>7. ASSUME LogThrows PROVE Patience'
  BY <1>7, SendsArePatient DEF LogThrows
<1>8. ASSUME Opened \/ ReceiveShutdown \/ DaemonStops \/ DaemonStarts PROVE Patience'
  <2>1. Waits(0) /\ (~Missed \/ ~Missed')
    BY <1>8 DEF Opened, ReceiveShutdown, DaemonStops, DaemonStarts, Missed
  <2>2. QED
    BY <2>1, NewWait
<1>9. ASSUME \/ StartPush \/ Receive \/ DaemonCloses
             \/ \E i \in Ids : ReceiveRequest(i)
      PROVE  Patience'
  <2>1. connected /\ connected' = connected /\ waited' = waited /\ setbacks' = setbacks
    BY <1>9 DEF StartPush, Receive, ReceiveRequest, DaemonCloses, flagVars, waitVars,
                ConnectionInv, Flags
  <2>2. QED
    BY <2>1 DEF Patience, Missed
<1>10. ASSUME UNCHANGED vars PROVE Patience'
  BY <1>10 DEF vars, modeVars, flagVars, timerVars, retryVars, sockVars, waitVars, Patience,
               Missed, EndsIn, Settling, Allowed
<1>11. QED
  BY <1>1, <1>2, <1>3, <1>4, <1>5, <1>6, <1>7, <1>8, <1>9, <1>10, PatientGiveUp, PatientCheck,
     PatientReconnect, PatientTick
     DEF Next

(* However the timers that nothing cancels cut attempts short, a daemon    *)
(* that listens is found within the timeout of an attempt and, for every   *)
(* initial delay and twice more, a steady delay and the time in which a    *)
(* socket opens; each setback from outside costs no more than that again.  *)
THEOREM DaemonsAreFoundInTime == Spec => []ReconnectsInTime
<1>1. Init => Patience
  BY DEF Init, Patience, Missed
<1>2. ConnectionInv /\ Patience => ReconnectsInTime
  BY IsPatient DEF ReconnectsInTime
<1>3. QED
  BY <1>1, <1>2, ConnectionInit, ConnectionStep, PatienceStep, PTL DEF Spec

-----------------------------------------------------------------------------
(* An open connection to a daemon that is there.                           *)

HangUp == sock = "open" /\ sock' # "open" => \/ sock' = "dead" \/ ~daemonUp'
                                             \/ ~live' \/ restarts > 1

LEMMA BeatsAreInTime ==
  ASSUME ConnectionInv, HeartbeatDue, sock = "open", ~(restarts > 1)
  PROVE  sock' = "open"
<1>1. beat = 0 /\ silence \in Nat /\ restarts \in {0, 1}
  BY DEF HeartbeatDue, ConnectionInv, TypeOK
<1>2. ~pongDue
  BY <1>1, Constants DEF ConnectionInv, Hearing
<1>3. silence < DeadAfter
  <2>1. CASE restarts = 0
    BY <1>1, <1>2, <2>1, Constants DEF ConnectionInv, Hearing
  <2>2. CASE restarts = 1
    BY <1>1, <1>2, <2>2, Constants DEF ConnectionInv, Hearing
  <2>3. QED
    BY <1>1, <2>1, <2>2
<1>4. ~SilentTooLong
  BY <1>1, <1>3, Constants DEF SilentTooLong
<1>5. KeepConnection
  BY <1>4 DEF HeartbeatDue, Ping, MayThrow
<1>6. QED
  BY <1>5 DEF KeepConnection, sockVars

LEMMA NobodyHangsUp == ConnectionInv /\ [Next]_vars => [HangUp]_vars
<1> SUFFICES ASSUME ConnectionInv, Next, sock = "open", sock' # "open"
             PROVE  sock' = "dead" \/ ~daemonUp' \/ ~live' \/ restarts > 1
  BY DEF HangUp
<1>1. connected /\ ~connecting /\ live
  BY DEF ConnectionInv, Flags
<1>2. ASSUME Activate \/ ConnectClaude PROVE FALSE
  <2>1. Reaches => sock' = sock
    BY <1>1 DEF Reaches, Attempts, sockVars
  <2>2. Activate => Reaches
    <3>1. ASSUME NEW n \in Nat, GoLive(n) PROVE Reaches
      BY <3>1, GoLiveDoes DEF Reaches
    <3>2. QED
      BY <3>1 DEF Activate
  <2>3. ConnectClaude => Reaches
    <3>1. ConnectClaude => Connect(TRUE, attempt, reconnect, 1)
      BY <1>1 DEF ConnectClaude
    <3>2. /\ attempt \in Nat /\ reconnect \in Nat \cup {Off} /\ reconnect <= SteadyDelay
          /\ attempt <= Len(InitialDelays) /\ TypeOK
      BY DEF ConnectionInv, TypeOK, Retries
    <3>3. QED
      BY <3>1, <3>2, ConnectDoes DEF Reaches
  <2>4. QED
    BY <1>2, <2>1, <2>2, <2>3
<1>3. ASSUME GiveUp \/ ReconnectDue \/ CheckDue \/ StartPush \/ Receive \/ Opened
               \/ DaemonStarts \/ Tick \/ FinishPush \/ LogThrows
               \/ (\E i \in Ids : ReceiveRequest(i) \/ Respond(i))
      PROVE  FALSE
  BY <1>1, <1>3 DEF GiveUp, ReconnectDue, CheckDue, StartPush, Receive, Opened, DaemonStarts,
     Tick, FinishPush, LogThrows, ReceiveRequest, Respond, KeepConnection, MayThrow, sockVars
<1>4. DisconnectClaude => ~live'
  BY DEF DisconnectClaude, StopLiveMode
<1>5. ReceiveShutdown \/ DaemonStops => ~daemonUp'
  BY DEF ReceiveShutdown, DaemonStops
<1>6. DaemonCloses => sock' = "dead"
  BY DEF DaemonCloses
<1>7. HeartbeatDue => restarts > 1
  BY BeatsAreInTime
<1>8. QED
  BY <1>2, <1>3, <1>4, <1>5, <1>6, <1>7 DEF Next

(* No heartbeat and no timer of an earlier attempt ends a connection to a  *)
(* daemon that is there, however quiet it is; only two reloads of the      *)
(* extension within one silence can bring that about.                      *)
THEOREM NobodyElseHangsUp == Spec => OnlyTheUserHangsUp
BY ConnectionInit, ConnectionStep, NobodyHangsUp, PTL DEF Spec, OnlyTheUserHangsUp, HangUp
=============================================================================
