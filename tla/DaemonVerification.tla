------------------------- MODULE DaemonVerification -------------------------
(***************************************************************************)
(* The mutual check between the extension and the peer it finds on the     *)
(* bridge port, across reconnects.                                         *)
(*                                                                         *)
(* Extension side: the verification gate (daemon-verification.ts) and the  *)
(* asynchronous code that drives it (ws-client.ts: handleMessage,          *)
(* answerAuthChallenge, handleAuthOk, connect).  The gate, the pending     *)
(* exchange (AUTH_STATE) and the socket are globals; the token read and    *)
(* the hmac check are promises, and nothing cancels a promise when the     *)
(* socket it was started for goes away.                                    *)
(*                                                                         *)
(* Peer side: a current daemon (bridge-daemon/index.ts, the connection     *)
(* handler), a daemon too old to speak hmac-v1, or some other program that *)
(* happens to listen on the port.                                          *)
(*                                                                         *)
(* A connection is named by its number.  A nonce pair is named by the      *)
(* connection whose challenge it answers (a peer challenges once per       *)
(* connection, and both nonces are fresh), and a MAC by the pair it is     *)
(* over; 0 is "no pair" and, as a MAC, one that matches nothing.           *)
(***************************************************************************)
EXTENDS Naturals, Sequences

CONSTANTS
  MaxConn,       \* connections in one behaviour (bound)
  Requests,      \* identities of the requests the peer may send
  AuthRequired   \* EDA_WS_AUTH=require on the daemon

ASSUME MaxConnAssumption == MaxConn \in Nat \ {0}
ASSUME AuthRequiredAssumption == AuthRequired \in BOOLEAN

VARIABLES
  conn,       \* number of the latest connection, 0 before the first
  up,         \* its socket is open
  peer,       \* who is at its other end
  gate,       \* state of the verification gate
  timer,      \* the gate's timer is armed
  authState,  \* AUTH_STATE: the pair of the exchange we last answered, or 0
  reads,      \* token reads in progress, each with the challenge it serves
  checks,     \* hmac checks of an auth.ok in progress
  toExt,      \* messages under way to the extension on the latest connection
  toPeer,     \* auth answers under way to the peer on the latest connection
  sess,       \* the daemon's variables for the latest connection
  req,        \* what became of each request
  from,       \* history: the connection each request arrived on, or 0
  vouched,    \* history: connections on which a daemon accepted our MAC
  proofs,     \* history: connections whose daemon MAC we found valid
  settledBy   \* history: the connection whose event settled the gate, or 0

gateVars == <<gate, timer>>
netVars  == <<toExt, toPeer>>
history  == <<from, vouched, proofs, settledBy>>
vars == <<conn, up, peer, gateVars, authState, reads, checks, netVars, sess, req, history>>

Conns == 1..MaxConn
Nonce == 0..MaxConn

Peers     == {"daemon", "legacy", "other"}
Unsettled == {"idle", "pending"}
Settled   == {"verified", "unverified", "not-applicable"}
Schemes   == {"hmac-v1", "none"}
Paths     == {"ok", "bad"}

Challenge(scheme, path) == [type |-> "auth.challenge", scheme |-> scheme, path |-> path]
AuthOk(mac)             == [type |-> "auth.ok", mac |-> mac]
Request(r)              == [type |-> "request", req |-> r]

ExtMessage == [type : {"auth.challenge"}, scheme : Schemes, path : Paths]
                \cup [type : {"auth.ok"}, mac : Nonce]
                \cup [type : {"request"}, req : Requests]

HmacAnswer(n) == [kind |-> "hmac", nonce |-> n]
NullAnswer    == [kind |-> "null", nonce |-> 0]
Answer        == [kind : {"hmac", "null"}, nonce : Nonce]

Session      == [authed : BOOLEAN, answered : BOOLEAN, registered : BOOLEAN]
FreshSession == [authed |-> FALSE, answered |-> FALSE, registered |-> ~AuthRequired]

Outcomes == {"new", "sent", "queued", "waiting", "ran", "refused", "dropped"}

\* allowsRequests: the policy in one place.
Allows(verdict) == verdict \in {"verified", "not-applicable"}

OutcomeOf(verdict) == IF Allows(verdict) THEN "ran" ELSE "refused"

\* What a verdict does to the requests that wait for it.
Wake(outcome) == [r \in Requests |-> IF req[r] = "waiting" THEN outcome ELSE req[r]]

-----------------------------------------------------------------------------
(* The gate's operations.  Each is called from a step that an event of     *)
(* connection c started.                                                   *)

\* The first settlement wins.
AnySettlementWins == TRUE

FirstSettlement == gate \in Unsettled

Settle(next, c) ==
  IF FirstSettlement
  THEN /\ gate' = next
       /\ timer' = FALSE
       /\ req' = Wake(OutcomeOf(next))
       /\ settledBy' = c
  ELSE UNCHANGED <<gateVars, req, settledBy>>

\* Valid proof that comes late upgrades the verdict.
AuthOkChecked(ok, c) ==
  IF ok /\ gate = "unverified"
  THEN /\ gate' = "verified"
       /\ settledBy' = c
       /\ UNCHANGED <<timer, req>>
  ELSE Settle(IF ok THEN "verified" ELSE "unverified", c)

\* Only an idle gate is marked; the timer covers the whole exchange.
MarkPendingUnarmed ==
  /\ gate' = IF gate = "idle" THEN "pending" ELSE gate
  /\ UNCHANGED timer

MarkPending ==
  /\ gate' = IF gate = "idle" THEN "pending" ELSE gate
  /\ timer' = (timer \/ gate = "idle")

-----------------------------------------------------------------------------
(* The extension.                                                          *)

\* What a peer of each kind has sent by the time the socket opens.  Only the
\* daemon's behaviour is the code's; the older daemon offers no scheme, and
\* another program sends anything that has the shape of a message.
Greetings(p) ==
  CASE p = "daemon" -> {<<Challenge("hmac-v1", "ok")>>}
    [] p = "legacy" -> {<<Challenge("none", "ok")>>}
    [] p = "other"  -> {<<>>} \cup {<<Challenge(s, q)>> : s \in Schemes, q \in Paths}

\* resetDaemonAuthState: what AUTH_STATE holds when the new socket is registered.
ExchangeKept == authState

ExchangeForgotten == 0

\* connect(): forget the old exchange before registering the new socket.
Connect ==
  /\ ~up
  /\ conn < MaxConn
  /\ conn' = conn + 1
  /\ up' = TRUE
  /\ authState' = ExchangeForgotten
  /\ gate' = "idle"
  /\ timer' = FALSE
  /\ settledBy' = 0
  /\ req' = [r \in Requests |-> CASE req[r] = "waiting" -> "dropped"
                                  [] req[r] = "sent"    -> "new"
                                  [] OTHER              -> req[r]]
  /\ \E p \in Peers : peer' = p /\ toExt' \in Greetings(p)
  /\ toPeer' = <<>>
  /\ sess' = FreshSession
  /\ UNCHANGED <<reads, checks, from, vouched, proofs>>

\* The socket closes, whoever closes it: the daemon, the heartbeat, the
\* network.  The gate is left alone until the next connect().
Drop ==
  /\ up
  /\ up' = FALSE
  /\ UNCHANGED <<conn, peer, gateVars, authState, reads, checks, netVars, sess, req, history>>

\* sendNotification: a send on a closed socket reaches nobody.
Send(answer) == toPeer' = IF up THEN Append(toPeer, answer) ELSE toPeer

\* handleMessage, auth.challenge: the gate is pending before the token read
\* starts.  A path that is not shaped like the state dir's is refused.
ReceiveChallenge ==
  /\ up
  /\ toExt # <<>>
  /\ Head(toExt).type = "auth.challenge"
  /\ toExt' = Tail(toExt)
  /\ IF Head(toExt).path = "bad"
     THEN /\ Send(NullAnswer)
          /\ Settle("unverified", conn)
          /\ UNCHANGED reads
     ELSE /\ reads' = reads \cup {[nonce |-> conn, scheme |-> Head(toExt).scheme]}
          /\ MarkPending
          /\ UNCHANGED <<toPeer, req, settledBy>>
  /\ UNCHANGED <<conn, up, peer, authState, checks, sess, from, vouched, proofs>>

\* answerAuthChallenge after its awaits: the token was readable or not.
FinishTokenRead(t, readable) ==
  /\ reads' = reads \ {t}
  /\ IF readable /\ t.scheme = "hmac-v1"
     THEN /\ authState' = t.nonce
          /\ Send(HmacAnswer(t.nonce))
          /\ UNCHANGED <<gateVars, req, settledBy>>
     ELSE /\ Send(NullAnswer)
          /\ Settle(IF readable THEN "unverified" ELSE "not-applicable", t.nonce)
          /\ UNCHANGED authState
  /\ UNCHANGED <<conn, up, peer, checks, toExt, sess, from, vouched, proofs>>

\* handleAuthOk: without an exchange of ours it is ignored, otherwise the
\* expected MAC is computed from the exchange of this moment.
NewCheck(mac) ==
  IF authState = 0 THEN {} ELSE {[held |-> authState, mac |-> mac, conn |-> conn]}

ReceiveAuthOk ==
  /\ up
  /\ toExt # <<>>
  /\ Head(toExt).type = "auth.ok"
  /\ toExt' = Tail(toExt)
  /\ checks' = checks \cup NewCheck(Head(toExt).mac)
  /\ UNCHANGED <<conn, up, peer, gateVars, authState, reads, toPeer, sess, req, history>>

MacPresent(k) == k.mac # 0

MacMatches(k) == k.mac = k.held

FinishCheck(k) ==
  /\ checks' = checks \ {k}
  /\ AuthOkChecked(MacMatches(k), k.conn)
  /\ proofs' = IF MacMatches(k) THEN proofs \cup {k.held} ELSE proofs
  /\ UNCHANGED <<conn, up, peer, authState, reads, netVars, sess, from, vouched>>

\* The timer that challengeReceived armed.
ExchangeTimeout ==
  /\ timer
  /\ Settle("unverified", conn)
  /\ UNCHANGED <<conn, up, peer, authState, reads, checks, netVars, sess, from, vouched, proofs>>

\* handleMessage, a request: enqueued, whatever the gate says.
ReceiveRequest ==
  /\ up
  /\ toExt # <<>>
  /\ Head(toExt).type = "request"
  /\ toExt' = Tail(toExt)
  /\ req' = [req EXCEPT ![Head(toExt).req] = "queued"]
  /\ from' = [from EXCEPT ![Head(toExt).req] = conn]
  /\ UNCHANGED <<conn, up, peer, gateVars, authState, reads, checks, toPeer, sess,
                 vouched, proofs, settledBy>>

\* verdict(), called when the queue reaches the request: immediate unless the
\* exchange is pending.
AskVerdict(r) ==
  /\ req[r] = "queued"
  /\ req' = [req EXCEPT ![r] = IF gate = "pending" THEN "waiting" ELSE OutcomeOf(gate)]
  /\ UNCHANGED <<conn, up, peer, gateVars, authState, reads, checks, netVars, sess, history>>

-----------------------------------------------------------------------------
(* The peer.                                                               *)

\* The daemon's message handler on an auth answer.  Only the first counts.
DaemonReceiveAnswer ==
  /\ up
  /\ peer = "daemon"
  /\ toPeer # <<>>
  /\ toPeer' = Tail(toPeer)
  /\ IF sess.authed \/ sess.answered
     THEN UNCHANGED <<up, toExt, sess, vouched>>
     ELSE LET a  == Head(toPeer)
              ok == a.kind = "hmac" /\ a.nonce = conn
          IN  /\ sess' = [sess EXCEPT !.answered = TRUE,
                                      !.authed = ok,
                                      !.registered = @ \/ ok]
              /\ toExt' = IF ok THEN Append(toExt, AuthOk(conn)) ELSE toExt
              /\ vouched' = IF ok THEN vouched \cup {conn} ELSE vouched
              /\ up' = (ok \/ (a.kind = "null" /\ ~AuthRequired))
  /\ UNCHANGED <<conn, peer, gateVars, authState, reads, checks, req, from, proofs, settledBy>>

\* A daemon routes requests to a registered socket only.  The older daemon
\* registers at once; another program may send a request at any time.
PeerSendRequest(r) ==
  /\ up
  /\ req[r] = "new"
  /\ peer = "daemon" => sess.registered
  /\ req' = [req EXCEPT ![r] = "sent"]
  /\ toExt' = Append(toExt, Request(r))
  /\ UNCHANGED <<conn, up, peer, gateVars, authState, reads, checks, toPeer, sess, history>>

\* Another program answers with a MAC: a wrong one, or that of an earlier
\* connection.  It holds no token, so it cannot make a MAC of its own.
OtherSendAuthOk ==
  /\ up
  /\ peer = "other"
  /\ toPeer # <<>>
  /\ toPeer' = Tail(toPeer)
  /\ \E m \in {0} \cup vouched : toExt' = Append(toExt, AuthOk(m))
  /\ UNCHANGED <<conn, up, peer, gateVars, authState, reads, checks, sess, req, history>>

-----------------------------------------------------------------------------
Init ==
  /\ conn = 0 /\ up = FALSE /\ peer = "daemon"
  /\ gate = "idle" /\ timer = FALSE /\ authState = 0
  /\ reads = {} /\ checks = {}
  /\ toExt = <<>> /\ toPeer = <<>>
  /\ sess = FreshSession
  /\ req = [r \in Requests |-> "new"]
  /\ from = [r \in Requests |-> 0]
  /\ vouched = {} /\ proofs = {} /\ settledBy = 0

Next ==
  \/ Connect
  \/ Drop
  \/ ReceiveChallenge
  \/ ReceiveAuthOk
  \/ ReceiveRequest
  \/ ExchangeTimeout
  \/ DaemonReceiveAnswer
  \/ OtherSendAuthOk
  \/ \E t \in reads, readable \in BOOLEAN : FinishTokenRead(t, readable)
  \/ \E k \in checks : FinishCheck(k)
  \/ \E r \in Requests : AskVerdict(r) \/ PeerSendRequest(r)

Spec == Init /\ [][Next]_vars

\* A timer fires, a computation that needs nobody else ends, a queue moves
\* on.  Nothing is assumed of the token read, which may hang for ever, nor of
\* the peer or of the network.
Fairness ==
  /\ WF_vars(ExchangeTimeout)
  /\ \A r \in Requests : WF_vars(AskVerdict(r))
  /\ WF_vars(\E k \in checks : FinishCheck(k))

FairSpec == Spec /\ Fairness
-----------------------------------------------------------------------------
TypeOK ==
  /\ conn \in 0..MaxConn
  /\ up \in BOOLEAN
  /\ peer \in Peers
  /\ gate \in Unsettled \cup Settled
  /\ timer \in BOOLEAN
  /\ authState \in Nonce
  /\ reads \subseteq [nonce : Conns, scheme : Schemes]
  /\ checks \subseteq [held : Conns, mac : Nonce, conn : Conns]
  /\ toExt \in Seq(ExtMessage)
  /\ toPeer \in Seq(Answer)
  /\ sess \in Session
  /\ req \in [Requests -> Outcomes]
  /\ from \in [Requests -> Nonce]
  /\ vouched \subseteq Conns
  /\ proofs \subseteq Conns
  /\ settledBy \in Nonce

\* "Verified" rests on a MAC that a current daemon made over the exchange of the
\* very connection whose event settled the gate, and after it had checked ours:
\* no MAC of an earlier connection, replayed on a later one, no late timeout, no
\* stale read, no wrong MAC and no old daemon leads there (daemon-verification.ts,
\* authOkChecked and settle; ws-client.ts, handleAuthOk and resetDaemonAuthState;
\* index.ts, the hmac branch).  What a check of an earlier connection that ends
\* late may do to the verdict of a later one is VerdictOfThisConnection's matter.
MutualAgreement ==
  /\ proofs \subseteq vouched
  /\ gate = "verified" => settledBy \in proofs

\* A request waits only while the exchange is pending, and then the timer that
\* bounds the wait is armed: no settlement leaves a waiter behind, and no timer
\* survives the exchange it belongs to.
NoWaiterLeftBehind ==
  /\ timer <=> gate = "pending"
  /\ (\E r \in Requests : req[r] = "waiting") => gate = "pending"

\* A request that a daemon, current or old, sends on a connection never meets
\* an idle gate while that connection is the latest: the challenge, first on
\* the wire, has marked the gate before (handleMessage, auth.challenge).
ChallengedBeforeRequest ==
  \A r \in Requests :
    (req[r] = "queued" /\ from[r] = conn /\ peer # "other") => gate # "idle"

\* Within one connection a verdict stands, except that the proof of the connection
\* that speaks turns "unverified" into "verified": nothing downgrades "verified".
VerdictStands ==
  [][(gate \in Settled /\ conn' = conn)
       => \/ gate' = gate
          \/ gate = "unverified" /\ gate' = "verified" /\ settledBy' \in proofs']_vars

\* Whatever hangs, a request that waits for the verdict is let go: the timer
\* covers the token read, our answer and the daemon's.
EveryWaiterIsReleased ==
  \A r \in Requests : (req[r] = "waiting") ~> (req[r] # "waiting")

\* The verdict in force was reached by an event of the connection it is
\* applied to: reset() is documented as "Fresh socket: forget everything".
VerdictOfThisConnection == settledBy \in {0, conn}
=============================================================================
