---------------------- MODULE DaemonVerificationProofs ----------------------
(***************************************************************************)
(* Proofs about DaemonVerification, for any number of connections and any  *)
(* set of requests, under both auth policies.                              *)
(*                                                                         *)
(* MutualAgreement is not inductive: that a check which succeeds is over a *)
(* pair that a daemon accepted follows from where MACs come from, so the   *)
(* messages under way and the checks in progress must carry no MAC that    *)
(* nobody vouched for (MacsAreVouchedFor).  That the pair is the one of    *)
(* the connection which speaks follows from each challenge being answered  *)
(* once (OneAnswerEach): an exchange that outlives its connection, by a    *)
(* token read that ended late, is one no daemon ever accepted              *)
(* (ExchangesAreFresh).  ChallengedBeforeRequest rests on the challenge    *)
(* being the first message of a connection as long as the gate is idle     *)
(* (ChallengeComesFirst).                                                  *)
(***************************************************************************)
EXTENDS DaemonVerification, SequenceTheorems, TLAPS

-----------------------------------------------------------------------------
(* What the gate's operations do.                                          *)

\* A settlement settles the gate, disarms the timer and leaves nobody waiting,
\* or finds the gate settled and does nothing.
LEMMA SettleEffect ==
  ASSUME TypeOK, NEW next \in Settled, NEW c \in Nonce, Settle(next, c)
  PROVE  \/ /\ gate \in Unsettled
            /\ gate' = next /\ timer' = FALSE /\ settledBy' = c
            /\ req' \in [Requests -> Outcomes]
            /\ \A r \in Requests : req'[r] # "waiting"
            /\ \A r \in Requests : req'[r] = "queued" => req[r] = "queued"
         \/ gate \in Settled /\ UNCHANGED <<gate, timer, req, settledBy>>
  BY DEF TypeOK, Settle, FirstSettlement, Wake, OutcomeOf, Allows, Outcomes, Unsettled, Settled,
         gateVars

\* A check either settles the gate or upgrades "unverified".
LEMMA AuthOkEffect ==
  ASSUME TypeOK, NEW ok \in BOOLEAN, NEW c \in Nonce, AuthOkChecked(ok, c)
  PROVE  \/ Settle(IF ok THEN "verified" ELSE "unverified", c)
         \/ /\ ok /\ gate = "unverified" /\ gate' = "verified"
            /\ settledBy' = c
            /\ UNCHANGED <<timer, req>>
  BY DEF AuthOkChecked

\* A message of each kind is a message, and tells its kind.
LEMMA MessageKinds ==
  /\ \A s \in Schemes, p \in Paths :
       Challenge(s, p) \in ExtMessage /\ Challenge(s, p).type = "auth.challenge"
  /\ \A m \in Nonce : /\ AuthOk(m) \in ExtMessage
                      /\ AuthOk(m).type = "auth.ok"
                      /\ AuthOk(m).mac = m
  /\ \A r \in Requests : Request(r) \in ExtMessage /\ Request(r).type = "request"
  BY DEF ExtMessage, Challenge, AuthOk, Request

LEMMA AnswerKinds == NullAnswer \in Answer /\ \A n \in Nonce : HmacAnswer(n) \in Answer
  BY MaxConnAssumption DEF NullAnswer, HmacAnswer, Answer, Nonce

LEMMA FreshSessionIsSession == FreshSession \in Session
<1>1. (~AuthRequired) \in BOOLEAN
  OBVIOUS
<1>2. QED
  BY <1>1 DEF FreshSession, Session

\* Whatever greets a connection is a sequence of challenges; one of a daemon is
\* not empty.
LEMMA GreetingsAreChallenges ==
  ASSUME NEW p \in Peers, NEW g \in Greetings(p)
  PROVE  /\ g \in Seq(ExtMessage)
         /\ \A i \in DOMAIN g : g[i].type = "auth.challenge"
         /\ p # "other" => g # <<>>
<1>1. \/ g = <<>> /\ p = "other"
      \/ \E s \in Schemes, q \in Paths : g = <<Challenge(s, q)>>
  BY DEF Greetings, Peers, Schemes, Paths
<1>2. CASE g = <<>> /\ p = "other"
  BY <1>2
<1>3. CASE \E s \in Schemes, q \in Paths : g = <<Challenge(s, q)>>
  <2>1. PICK s \in Schemes, q \in Paths : g = <<Challenge(s, q)>>
    BY <1>3
  <2>2. Challenge(s, q) \in ExtMessage /\ Challenge(s, q).type = "auth.challenge"
    BY MessageKinds
  <2>3. QED
    BY <2>1, <2>2
<1>4. QED
  BY <1>1, <1>2, <1>3

-----------------------------------------------------------------------------
(* Types.                                                                  *)

\* An open socket belongs to a numbered connection.
UpIsNumbered == up => conn # 0

TypeInv == TypeOK /\ UpIsNumbered

LEMMA TypeInit == Init => TypeInv
<1> SUFFICES ASSUME Init
             PROVE  TypeInv
  OBVIOUS
<1> USE DEF Init
<1>1. sess \in Session
  BY FreshSessionIsSession
<1>2. toExt \in Seq(ExtMessage) /\ toPeer \in Seq(Answer)
  OBVIOUS
<1>3. req \in [Requests -> Outcomes] /\ from \in [Requests -> Nonce]
  BY MaxConnAssumption DEF Outcomes, Nonce
<1>4. conn \in 0..MaxConn /\ authState \in Nonce /\ settledBy \in Nonce
  BY MaxConnAssumption DEF Nonce
<1>5. up \in BOOLEAN /\ timer \in BOOLEAN /\ peer \in Peers /\ gate \in Unsettled \cup Settled
  BY DEF Peers, Unsettled
<1>6. QED
  BY <1>1, <1>2, <1>3, <1>4, <1>5 DEF TypeInv, TypeOK, UpIsNumbered

LEMMA TypeStep == TypeInv /\ [Next]_vars => TypeInv'
<1> SUFFICES ASSUME TypeInv, [Next]_vars
             PROVE  TypeInv'
  OBVIOUS
<1> USE DEF TypeInv, UpIsNumbered
<1>1. /\ conn \in Nonce
      /\ up => conn \in Conns
  BY MaxConnAssumption DEF TypeOK, Nonce, Conns
<1>2. CASE Connect
  <2>1. conn' \in Conns /\ up' = TRUE
    BY <1>2, MaxConnAssumption DEF Connect, TypeOK, Conns
  <2>2. peer' \in Peers /\ toExt' \in Seq(ExtMessage)
    BY <1>2, GreetingsAreChallenges DEF Connect
  <2>3. sess' \in Session
    BY <1>2, FreshSessionIsSession DEF Connect
  <2>4. req' \in [Requests -> Outcomes]
    BY <1>2 DEF Connect, TypeOK, Outcomes
  <2>5. /\ conn' \in 0..MaxConn /\ authState' \in Nonce /\ settledBy' \in Nonce
        /\ gate' \in Unsettled \cup Settled /\ timer' \in BOOLEAN /\ toPeer' \in Seq(Answer)
    <3>1. /\ authState' = 0 /\ settledBy' = 0 /\ gate' = "idle" /\ timer' = FALSE
          /\ toPeer' = <<>>
      BY <1>2 DEF Connect, ExchangeForgotten
    <3>2. conn' \in 0..MaxConn /\ 0 \in Nonce
      BY <2>1, MaxConnAssumption DEF Nonce, Conns
    <3>3. gate' \in Unsettled \cup Settled
      BY <3>1 DEF Unsettled
    <3>4. toPeer' \in Seq(Answer)
      BY <3>1
    <3>5. QED
      BY <3>1, <3>2, <3>3, <3>4
  <2>6. UNCHANGED <<reads, checks, from, vouched, proofs>>
    BY <1>2 DEF Connect
  <2>7. QED
    BY <2>1, <2>2, <2>3, <2>4, <2>5, <2>6 DEF TypeOK, Conns
<1>3. CASE Drop
  BY <1>3 DEF Drop, TypeOK, gateVars, netVars, history
<1>4. CASE ReceiveChallenge
  <2> USE <1>4 DEF ReceiveChallenge
  <2>1. Head(toExt) \in ExtMessage /\ toExt' \in Seq(ExtMessage)
    BY DEF TypeOK
  <2>2. Head(toExt).scheme \in Schemes
    BY <2>1 DEF ExtMessage
  <2>3. CASE Head(toExt).path = "bad"
    <3>1. Settle("unverified", conn) /\ Send(NullAnswer) /\ UNCHANGED reads
      BY <2>3
    <3>2. /\ gate' \in Unsettled \cup Settled /\ timer' \in BOOLEAN
          /\ req' \in [Requests -> Outcomes] /\ settledBy' \in Nonce
      BY <1>1, <3>1, SettleEffect DEF TypeOK, Settled
    <3>3. toPeer' \in Seq(Answer)
      BY <3>1, AnswerKinds DEF Send, TypeOK
    <3>4. QED
      BY <2>1, <3>1, <3>2, <3>3 DEF TypeOK
  <2>4. CASE Head(toExt).path # "bad"
    <3>1. reads' \subseteq [nonce : Conns, scheme : Schemes]
      BY <1>1, <2>2, <2>4 DEF TypeOK
    <3>2. gate' \in Unsettled \cup Settled /\ timer' \in BOOLEAN
      BY <2>4 DEF MarkPending, TypeOK, Unsettled
    <3>3. QED
      BY <2>1, <2>4, <3>1, <3>2 DEF TypeOK
  <2>5. QED
    BY <2>3, <2>4
<1>5. CASE ReceiveAuthOk
  <2> USE <1>5 DEF ReceiveAuthOk
  <2>1. Head(toExt) \in ExtMessage /\ toExt' \in Seq(ExtMessage)
    BY DEF TypeOK
  <2>2. Head(toExt).mac \in Nonce
    BY <2>1 DEF ExtMessage
  <2>3. NewCheck(Head(toExt).mac) \subseteq [held : Conns, mac : Nonce, conn : Conns]
    BY <1>1, <2>2 DEF NewCheck, TypeOK, Nonce, Conns
  <2>4. QED
    BY <2>1, <2>3 DEF TypeOK, gateVars, history
<1>6. CASE ReceiveRequest
  <2> USE <1>6 DEF ReceiveRequest
  <2>1. Head(toExt) \in ExtMessage /\ toExt' \in Seq(ExtMessage)
    BY DEF TypeOK
  <2>2. Head(toExt).req \in Requests
    BY <2>1 DEF ExtMessage
  <2>3. req' \in [Requests -> Outcomes] /\ from' \in [Requests -> Nonce]
    BY <1>1, <2>2 DEF TypeOK, Outcomes
  <2>4. QED
    BY <2>1, <2>3 DEF TypeOK, gateVars
<1>7. CASE ExchangeTimeout
  <2>1. /\ gate' \in Unsettled \cup Settled /\ timer' \in BOOLEAN
        /\ req' \in [Requests -> Outcomes] /\ settledBy' \in Nonce
    BY <1>1, <1>7, SettleEffect DEF ExchangeTimeout, TypeOK, Settled
  <2>2. QED
    BY <1>7, <2>1 DEF ExchangeTimeout, TypeOK, netVars
<1>8. CASE DaemonReceiveAnswer
  <2> USE <1>8 DEF DaemonReceiveAnswer
  <2>1. toPeer' \in Seq(Answer)
    BY DEF TypeOK
  <2>2. CASE sess.authed \/ sess.answered
    BY <2>1, <2>2 DEF TypeOK, gateVars
  <2>3. CASE ~(sess.authed \/ sess.answered)
    <3> DEFINE ok == Head(toPeer).kind = "hmac" /\ Head(toPeer).nonce = conn
    <3>1. /\ sess' = [sess EXCEPT !.answered = TRUE, !.authed = ok, !.registered = @ \/ ok]
          /\ toExt' = IF ok THEN Append(toExt, AuthOk(conn)) ELSE toExt
          /\ vouched' = IF ok THEN vouched \cup {conn} ELSE vouched
          /\ up' = (ok \/ (Head(toPeer).kind = "null" /\ ~AuthRequired))
      BY <2>3
    <3>2. ok \in BOOLEAN /\ (sess.registered \/ ok) \in BOOLEAN /\ up' \in BOOLEAN
      BY <3>1
    <3> HIDE DEF ok
    <3>3. sess' \in Session
      BY <3>1, <3>2 DEF TypeOK, Session
    <3>4. vouched' \subseteq Conns
      BY <1>1, <3>1 DEF TypeOK
    <3>5. toExt' \in Seq(ExtMessage)
      BY <1>1, <3>1, MessageKinds DEF TypeOK
    <3>6. QED
      BY <2>1, <3>2, <3>3, <3>4, <3>5 DEF TypeOK, gateVars
  <2>4. QED
    BY <2>2, <2>3
<1>9. CASE OtherSendAuthOk
  <2> USE <1>9 DEF OtherSendAuthOk
  <2>1. PICK m \in {0} \cup vouched : toExt' = Append(toExt, AuthOk(m))
    OBVIOUS
  <2>2. m \in Nonce
    BY <2>1, MaxConnAssumption DEF TypeOK, Nonce, Conns
  <2>3. toExt' \in Seq(ExtMessage) /\ toPeer' \in Seq(Answer)
    BY <2>1, <2>2, MessageKinds DEF TypeOK
  <2>4. QED
    BY <2>3 DEF TypeOK, gateVars, history
<1>10. CASE \E t \in reads, readable \in BOOLEAN : FinishTokenRead(t, readable)
  <2>1. PICK t \in reads, readable \in BOOLEAN : FinishTokenRead(t, readable)
    BY <1>10
  <2> USE <2>1 DEF FinishTokenRead
  <2>2. t.nonce \in Conns /\ t.nonce \in Nonce
    BY DEF TypeOK, Conns, Nonce
  <2>3. reads' \subseteq [nonce : Conns, scheme : Schemes]
    BY DEF TypeOK
  <2>4. toPeer' \in Seq(Answer)
    <3>1. PICK a \in Answer : Send(a)
      BY <2>2, AnswerKinds
    <3>2. QED
      BY <3>1 DEF Send, TypeOK
  <2>5. CASE readable /\ t.scheme = "hmac-v1"
    BY <2>2, <2>3, <2>4, <2>5 DEF TypeOK, gateVars
  <2>6. CASE ~(readable /\ t.scheme = "hmac-v1")
    <3>1. /\ gate' \in Unsettled \cup Settled /\ timer' \in BOOLEAN
          /\ req' \in [Requests -> Outcomes] /\ settledBy' \in Nonce
      BY <2>2, <2>6, SettleEffect DEF TypeOK, Settled
    <3>2. QED
      BY <2>3, <2>4, <2>6, <3>1 DEF TypeOK
  <2>7. QED
    BY <2>5, <2>6
<1>11. CASE \E k \in checks : FinishCheck(k)
  <2>1. PICK k \in checks : FinishCheck(k)
    BY <1>11
  <2> USE <2>1 DEF FinishCheck
  <2>2. k.held \in Conns /\ k.conn \in Nonce /\ MacMatches(k) \in BOOLEAN
    BY DEF TypeOK, Conns, Nonce, MacMatches
  <2>3. /\ gate' \in Unsettled \cup Settled /\ timer' \in BOOLEAN
        /\ req' \in [Requests -> Outcomes] /\ settledBy' \in Nonce
    <3>1. CASE Settle(IF MacMatches(k) THEN "verified" ELSE "unverified", k.conn)
      BY <2>2, <3>1, SettleEffect DEF TypeOK, Settled
    <3>2. CASE ~Settle(IF MacMatches(k) THEN "verified" ELSE "unverified", k.conn)
      BY <2>2, <3>2, AuthOkEffect DEF TypeOK, Settled
    <3>3. QED
      BY <3>1, <3>2
  <2>4. QED
    BY <2>2, <2>3 DEF TypeOK, netVars
<1>12. CASE \E r \in Requests : AskVerdict(r)
  <2>1. PICK r \in Requests : AskVerdict(r)
    BY <1>12
  <2>2. req' \in [Requests -> Outcomes]
    BY <2>1 DEF AskVerdict, OutcomeOf, TypeOK, Outcomes
  <2>3. QED
    BY <2>1, <2>2 DEF AskVerdict, TypeOK, gateVars, netVars, history
<1>13. CASE \E r \in Requests : PeerSendRequest(r)
  <2>1. PICK r \in Requests : PeerSendRequest(r)
    BY <1>13
  <2>2. toExt' \in Seq(ExtMessage)
    BY <2>1, MessageKinds DEF PeerSendRequest, TypeOK
  <2>3. req' \in [Requests -> Outcomes]
    BY <2>1 DEF PeerSendRequest, TypeOK, Outcomes
  <2>4. QED
    BY <2>1, <2>2, <2>3 DEF PeerSendRequest, TypeOK, gateVars, history
<1>14. CASE UNCHANGED vars
  BY <1>14 DEF vars, gateVars, netVars, history, TypeOK
<1>15. QED
  BY <1>2, <1>3, <1>4, <1>5, <1>6, <1>7, <1>8, <1>9, <1>10, <1>11, <1>12, <1>13, <1>14 DEF Next

\* Every variable keeps its type.
THEOREM TypeCorrect == Spec => []TypeOK
<1>1. Init => TypeInv
  BY TypeInit
<1>2. TypeInv /\ [Next]_vars => TypeInv'
  BY TypeStep
<1>3. TypeInv => TypeOK
  BY DEF TypeInv
<1>4. QED
  BY <1>1, <1>2, <1>3, PTL DEF Spec

-----------------------------------------------------------------------------
(* Nobody is left waiting.                                                 *)

WaiterInv == TypeInv /\ NoWaiterLeftBehind

LEMMA WaiterStep == WaiterInv /\ [Next]_vars => NoWaiterLeftBehind'
<1> SUFFICES ASSUME WaiterInv, [Next]_vars
             PROVE  NoWaiterLeftBehind'
  OBVIOUS
<1> USE DEF WaiterInv
<1>0. TypeOK /\ NoWaiterLeftBehind
  BY DEF TypeInv
\* A settlement, the only thing that happens to the gate and to the requests in
\* most steps.
<1>1. ASSUME NEW next \in Settled, NEW c \in Nonce, Settle(next, c)
      PROVE  NoWaiterLeftBehind'
  BY <1>0, <1>1, SettleEffect DEF NoWaiterLeftBehind, Settled, Unsettled
<1>2. CASE Connect
  <2>1. gate' = "idle" /\ timer' = FALSE /\ \A r \in Requests : req'[r] # "waiting"
    BY <1>2 DEF Connect
  <2>2. QED
    BY <2>1 DEF NoWaiterLeftBehind
<1>3. CASE Drop
  BY <1>0, <1>3 DEF Drop, NoWaiterLeftBehind, gateVars
<1>4. CASE ReceiveChallenge
  <2>1. CASE Settle("unverified", conn)
    BY <1>0, <1>1, <2>1 DEF Settled, TypeOK, Nonce
  <2>2. CASE MarkPending /\ UNCHANGED req
    BY <1>0, <2>2 DEF MarkPending, NoWaiterLeftBehind, TypeOK
  <2>3. QED
    BY <1>4, <2>1, <2>2 DEF ReceiveChallenge
<1>5. CASE ReceiveAuthOk
  BY <1>0, <1>5 DEF ReceiveAuthOk, NoWaiterLeftBehind, gateVars
<1>6. CASE ReceiveRequest
  <2>1. UNCHANGED <<gate, timer>>
    BY <1>6 DEF ReceiveRequest, gateVars
  <2>2. \A r \in Requests : req'[r] = "waiting" => req[r] = "waiting"
    BY <1>0, <1>6 DEF ReceiveRequest, TypeOK
  <2>3. QED
    BY <1>0, <2>1, <2>2 DEF NoWaiterLeftBehind
<1>7. CASE ExchangeTimeout
  BY <1>0, <1>1, <1>7 DEF ExchangeTimeout, Settled, TypeOK, Nonce
<1>8. CASE DaemonReceiveAnswer
  BY <1>0, <1>8 DEF DaemonReceiveAnswer, NoWaiterLeftBehind, gateVars
<1>9. CASE OtherSendAuthOk
  BY <1>0, <1>9 DEF OtherSendAuthOk, NoWaiterLeftBehind, gateVars
<1>10. CASE \E t \in reads, readable \in BOOLEAN : FinishTokenRead(t, readable)
  <2>1. PICK t \in reads, readable \in BOOLEAN : FinishTokenRead(t, readable)
    BY <1>10
  <2>2. t.nonce \in Nonce
    BY <1>0 DEF TypeOK, Conns, Nonce
  <2>3. CASE readable /\ t.scheme = "hmac-v1"
    BY <1>0, <2>1, <2>3 DEF FinishTokenRead, NoWaiterLeftBehind, gateVars
  <2>4. CASE ~(readable /\ t.scheme = "hmac-v1")
    BY <1>1, <2>1, <2>2, <2>4 DEF FinishTokenRead, Settled
  <2>5. QED
    BY <2>3, <2>4
<1>11. CASE \E k \in checks : FinishCheck(k)
  <2>1. PICK k \in checks : FinishCheck(k)
    BY <1>11
  <2>2. k.conn \in Nonce /\ MacMatches(k) \in BOOLEAN
    BY <1>0 DEF TypeOK, Conns, Nonce, MacMatches
  <2>3. CASE Settle(IF MacMatches(k) THEN "verified" ELSE "unverified", k.conn)
    BY <1>1, <2>2, <2>3 DEF Settled
  <2>4. CASE gate = "unverified" /\ gate' = "verified" /\ UNCHANGED <<timer, req>>
    BY <1>0, <2>4 DEF NoWaiterLeftBehind
  <2>5. QED
    BY <1>0, <2>1, <2>2, <2>3, <2>4, AuthOkEffect DEF FinishCheck
<1>12. CASE \E r \in Requests : AskVerdict(r)
  <2>1. PICK r \in Requests : AskVerdict(r)
    BY <1>12
  <2>2. UNCHANGED <<gate, timer>>
    BY <2>1 DEF AskVerdict, gateVars
  <2>3. \A q \in Requests : req'[q] = "waiting" => req[q] = "waiting" \/ gate = "pending"
    BY <1>0, <2>1 DEF AskVerdict, OutcomeOf, TypeOK
  <2>4. QED
    BY <1>0, <2>2, <2>3 DEF NoWaiterLeftBehind
<1>13. CASE \E r \in Requests : PeerSendRequest(r)
  <2>1. PICK r \in Requests : PeerSendRequest(r)
    BY <1>13
  <2>2. UNCHANGED <<gate, timer>>
    BY <2>1 DEF PeerSendRequest, gateVars
  <2>3. \A q \in Requests : req'[q] = "waiting" => req[q] = "waiting"
    BY <1>0, <2>1 DEF PeerSendRequest, TypeOK
  <2>4. QED
    BY <1>0, <2>2, <2>3 DEF NoWaiterLeftBehind
<1>14. CASE UNCHANGED vars
  BY <1>0, <1>14 DEF vars, gateVars, NoWaiterLeftBehind
<1>15. QED
  BY <1>2, <1>3, <1>4, <1>5, <1>6, <1>7, <1>8, <1>9, <1>10, <1>11, <1>12, <1>13, <1>14 DEF Next

\* No settlement leaves a waiter behind, and the timer is armed exactly while
\* the exchange is pending.
THEOREM WaitersAreBounded == Spec => []NoWaiterLeftBehind
<1>1. Init => WaiterInv
  BY TypeInit DEF Init, WaiterInv, NoWaiterLeftBehind
<1>2. WaiterInv /\ [Next]_vars => WaiterInv'
  BY TypeStep, WaiterStep DEF WaiterInv
<1>3. WaiterInv => NoWaiterLeftBehind
  BY DEF WaiterInv
<1>4. QED
  BY <1>1, <1>2, <1>3, PTL DEF Spec

-----------------------------------------------------------------------------
(* Verdicts.                                                               *)

\* What a check that the extension has under way, or will start on a message
\* that has not arrived, can compare: no MAC but those a daemon made.
MacsAreVouchedFor ==
  /\ \A k \in checks : k.mac \in {0} \cup vouched
  /\ \A i \in DOMAIN toExt : toExt[i].type = "auth.ok" => toExt[i].mac \in {0} \cup vouched

\* Our MAC over the pair of connection n is under way to the peer, or a daemon
\* has accepted it.
Answered(n) == n \in vouched \/ \E i \in DOMAIN toPeer : toPeer[i] = HmacAnswer(n)

\* A challenge is read for once and answered once.
OneAnswerEach ==
  /\ \A n \in Nonce : Answered(n) => n <= conn
  /\ \A t \in reads : t.nonce <= conn /\ ~Answered(t.nonce)
  /\ \A t, u \in reads : t.nonce = u.nonce => t = u
  /\ \A i \in DOMAIN toExt :
       toExt[i].type = "auth.challenge"
         => i = 1 /\ ~Answered(conn) /\ \A t \in reads : t.nonce # conn

\* The exchange in force, and the one a check is over, is that of its connection
\* or one that no daemon accepted.
ExchangesAreFresh ==
  /\ authState = conn \/ authState \notin vouched
  /\ \A k \in checks : k.mac = k.held => k.held = k.conn

LEMMA OneAnswerInit == Init => OneAnswerEach
  BY DEF Init, OneAnswerEach, Answered

\* Steps that answer nothing new, start no read and bring no challenge.
LEMMA NothingAnswered ==
  ASSUME TypeInv, OneAnswerEach, conn' = conn, reads' \subseteq reads,
         \A n \in Nonce : Answered(n)' => Answered(n),
         \A i \in DOMAIN toExt' :
           toExt'[i].type = "auth.challenge"
             => i \in DOMAIN toExt /\ toExt[i].type = "auth.challenge"
  PROVE  OneAnswerEach'
<1>1. conn \in Nonce /\ \A t \in reads : t.nonce \in Nonce
  BY DEF TypeInv, TypeOK, Nonce, Conns
<1>2. \A n \in Nonce : Answered(n)' => n <= conn'
  BY DEF OneAnswerEach
<1>3. \A t \in reads' : t.nonce <= conn' /\ ~Answered(t.nonce)'
  BY <1>1 DEF OneAnswerEach
<1>4. ASSUME NEW i \in DOMAIN toExt', toExt'[i].type = "auth.challenge"
      PROVE  i = 1 /\ ~Answered(conn)' /\ \A t \in reads' : t.nonce # conn'
  <2>1. i = 1 /\ ~Answered(conn) /\ \A t \in reads : t.nonce # conn
    BY <1>4 DEF OneAnswerEach
  <2>2. Answered(conn)' => Answered(conn)
    BY <1>1
  <2>3. QED
    BY <2>1, <2>2
<1>5. QED
  BY <1>2, <1>3, <1>4 DEF OneAnswerEach

\* A message taken off the front leaves no challenge behind: a challenge is only
\* ever the first.
LEMMA NoChallengeBehind ==
  ASSUME TypeInv, OneAnswerEach, toExt # <<>>, toExt' = Tail(toExt)
  PROVE  \A i \in DOMAIN toExt' : toExt'[i].type # "auth.challenge"
<1>1. SUFFICES ASSUME NEW i \in DOMAIN toExt'
               PROVE  toExt'[i].type # "auth.challenge"
  OBVIOUS
<1>2. i \in Nat \ {0} /\ i + 1 \in DOMAIN toExt /\ toExt'[i] = toExt[i + 1]
  BY DEF TypeInv, TypeOK
<1>3. i + 1 # 1
  BY <1>2
<1>4. QED
  BY <1>2, <1>3 DEF OneAnswerEach

\* A message that is no challenge, appended.
LEMMA AppendedOther ==
  ASSUME TypeInv, NEW m \in ExtMessage, m.type # "auth.challenge", toExt' = Append(toExt, m)
  PROVE  \A i \in DOMAIN toExt' :
           toExt'[i].type = "auth.challenge"
             => i \in DOMAIN toExt /\ toExt[i].type = "auth.challenge"
<1>1. \A i \in DOMAIN toExt' : \/ i \in DOMAIN toExt /\ toExt'[i] = toExt[i]
                               \/ toExt'[i] = m
  BY DEF TypeInv, TypeOK
<1>2. QED
  BY <1>1

\* What Send adds to the answers under way.
LEMMA SendAnswers ==
  ASSUME TypeInv, NEW a \in Answer, Send(a), vouched' = vouched
  PROVE  \A n \in Nonce : Answered(n)' => Answered(n) \/ a = HmacAnswer(n)
<1>1. \A i \in DOMAIN toPeer' : \/ i \in DOMAIN toPeer /\ toPeer'[i] = toPeer[i]
                                \/ toPeer'[i] = a
  BY DEF Send, TypeInv, TypeOK
<1>2. QED
  BY <1>1 DEF Answered

LEMMA OneAnswerStep == TypeInv /\ OneAnswerEach /\ [Next]_vars => OneAnswerEach'
<1> SUFFICES ASSUME TypeInv, OneAnswerEach, [Next]_vars
             PROVE  OneAnswerEach'
  OBVIOUS
<1>0. TypeOK /\ conn \in Nonce
  BY DEF TypeInv, TypeOK, Nonce
<1>1. ASSUME UNCHANGED <<vouched, toPeer>>
      PROVE  \A n \in Nonce : Answered(n)' => Answered(n)
  BY <1>1 DEF Answered
<1>2. NullAnswer \in Answer /\ \A n \in Nonce : NullAnswer # HmacAnswer(n)
  BY AnswerKinds DEF NullAnswer, HmacAnswer
<1>3. CASE Connect
  <2>1. /\ conn' = conn + 1 /\ toPeer' = <<>> /\ UNCHANGED <<reads, vouched>>
        /\ peer' \in Peers /\ toExt' \in Greetings(peer')
    BY <1>3 DEF Connect
  <2>2. \A n \in Nonce : Answered(n)' => Answered(n)
    BY <2>1 DEF Answered
  <2>3. \A n \in Nonce : Answered(n)' => n <= conn /\ n <= conn'
    BY <1>0, <2>1, <2>2 DEF OneAnswerEach, Nonce
  <2>4. \A t \in reads' : /\ t.nonce \in Nonce /\ ~Answered(t.nonce)'
                          /\ t.nonce <= conn' /\ t.nonce # conn'
    BY <1>0, <2>1, <2>2 DEF OneAnswerEach, TypeOK, Nonce, Conns
  <2>5. ~Answered(conn)'
    <3>1. conn' \in Nonce /\ ~(conn' <= conn)
      BY <1>0, <1>3, MaxConnAssumption DEF Connect, Nonce
    <3>2. conn' \in vouched => conn' <= conn
      BY <3>1 DEF OneAnswerEach, Answered
    <3>3. QED
      BY <2>1, <3>1, <3>2 DEF Answered
  <2>6. \A i \in DOMAIN toExt' : i = 1
    <3>1. PICK p \in Peers : toExt' \in Greetings(p)
      BY <2>1
    <3>2. \/ toExt' = <<>>
          \/ \E sc \in Schemes, q \in Paths : toExt' = <<Challenge(sc, q)>>
      BY <3>1 DEF Greetings, Peers, Schemes, Paths
    <3>3. QED
      BY <3>2
  <2>7. \A i \in DOMAIN toExt' : i = 1 /\ ~Answered(conn)' /\ \A t \in reads' : t.nonce # conn'
    BY <2>4, <2>5, <2>6
  <2>8. QED
    BY <2>1, <2>3, <2>4, <2>7 DEF OneAnswerEach
<1>4. CASE Drop
  BY <1>1, <1>4, NothingAnswered DEF Drop, netVars, history
<1>5. CASE ReceiveChallenge
  <2> USE <1>5 DEF ReceiveChallenge
  <2>1. \A i \in DOMAIN toExt' : toExt'[i].type # "auth.challenge"
    BY NoChallengeBehind
  <2>2. 1 \in DOMAIN toExt /\ toExt[1].type = "auth.challenge"
    BY <1>0 DEF TypeOK
  <2>3. ~Answered(conn) /\ \A t \in reads : t.nonce # conn
    BY <2>2 DEF OneAnswerEach
  <2>4. UNCHANGED <<conn, vouched>>
    OBVIOUS
  <2>5. CASE Head(toExt).path = "bad"
    <3>1. Send(NullAnswer) /\ UNCHANGED reads
      BY <2>5
    <3>2. \A n \in Nonce : Answered(n)' => Answered(n)
      BY <1>2, <2>4, <3>1, SendAnswers
    <3>3. QED
      BY <2>1, <2>4, <3>1, <3>2, NothingAnswered
  <2>6. CASE Head(toExt).path # "bad"
    <3>1. reads' = reads \cup {[nonce |-> conn, scheme |-> Head(toExt).scheme]} /\ UNCHANGED toPeer
      BY <2>6
    <3>2. \A n \in Nonce : Answered(n)' => Answered(n)
      BY <1>1, <2>4, <3>1
    <3>3. \A n \in Nonce : Answered(n)' => n <= conn'
      BY <2>4, <3>2 DEF OneAnswerEach
    <3>4. \A t \in reads' : t.nonce \in Nonce /\ t.nonce <= conn /\ ~Answered(t.nonce)
      <4>1. ASSUME NEW t \in reads
            PROVE  t.nonce \in Nonce /\ t.nonce <= conn /\ ~Answered(t.nonce)
        BY <1>0 DEF OneAnswerEach, TypeOK, Nonce, Conns
      <4>2. conn <= conn
        BY <1>0 DEF Nonce
      <4>3. QED
        BY <1>0, <2>3, <3>1, <4>1, <4>2
    <3>5. \A t \in reads' : t.nonce <= conn' /\ ~Answered(t.nonce)'
      BY <2>4, <3>2, <3>4
    <3>6. \A t, u \in reads' : t.nonce = u.nonce => t = u
      BY <2>3, <3>1 DEF OneAnswerEach
    <3>7. QED
      BY <2>1, <3>3, <3>5, <3>6 DEF OneAnswerEach
  <2>7. QED
    BY <2>5, <2>6
<1>6. CASE ReceiveAuthOk
  BY <1>1, <1>6, NoChallengeBehind, NothingAnswered DEF ReceiveAuthOk, history
<1>7. CASE ReceiveRequest
  BY <1>1, <1>7, NoChallengeBehind, NothingAnswered DEF ReceiveRequest
<1>8. CASE ExchangeTimeout
  BY <1>1, <1>8, NothingAnswered DEF ExchangeTimeout, netVars
<1>9. CASE DaemonReceiveAnswer
  <2> USE <1>9 DEF DaemonReceiveAnswer
  <2>1. UNCHANGED <<conn, reads>> /\ toPeer # <<>> /\ toPeer' = Tail(toPeer)
    OBVIOUS
  <2>2. /\ \A i \in DOMAIN toPeer' : \E j \in DOMAIN toPeer : toPeer'[i] = toPeer[j]
        /\ 1 \in DOMAIN toPeer /\ Head(toPeer) = toPeer[1] /\ Head(toPeer) \in Answer
    <3>1. ASSUME NEW i \in DOMAIN toPeer'
          PROVE  i + 1 \in DOMAIN toPeer /\ toPeer'[i] = toPeer[i + 1]
      BY <1>0, <2>1 DEF TypeOK
    <3>2. QED
      BY <1>0, <2>1, <3>1 DEF TypeOK
  <2>3. CASE UNCHANGED <<toExt, vouched>>
    <3>1. \A n \in Nonce : Answered(n)' => Answered(n)
      BY <2>2, <2>3 DEF Answered
    <3>2. QED
      BY <2>1, <2>3, <3>1, NothingAnswered
  <2>4. CASE /\ toExt' = Append(toExt, AuthOk(conn)) /\ vouched' = vouched \cup {conn}
             /\ Head(toPeer).kind = "hmac" /\ Head(toPeer).nonce = conn
    <3>1. Head(toPeer) = HmacAnswer(conn)
      BY <2>2, <2>4 DEF Answer, HmacAnswer
    <3>2. Answered(conn)
      BY <2>2, <3>1 DEF Answered
    <3>3. \A n \in Nonce : Answered(n)' => Answered(n)
      BY <2>2, <2>4, <3>2 DEF Answered
    <3>4. AuthOk(conn) \in ExtMessage /\ AuthOk(conn).type # "auth.challenge"
      BY <1>0, MessageKinds
    <3>5. QED
      BY <2>1, <2>4, <3>3, <3>4, AppendedOther, NothingAnswered
  <2>5. QED
    BY <2>3, <2>4
<1>10. CASE OtherSendAuthOk
  <2>1. PICK m \in {0} \cup vouched : toExt' = Append(toExt, AuthOk(m))
    BY <1>10 DEF OtherSendAuthOk
  <2>2. m \in Nonce
    BY <1>0, <2>1, MaxConnAssumption DEF TypeOK, Nonce, Conns
  <2>3. AuthOk(m) \in ExtMessage /\ AuthOk(m).type # "auth.challenge"
    BY <2>2, MessageKinds
  <2>4. UNCHANGED <<conn, reads, vouched>> /\ toPeer # <<>> /\ toPeer' = Tail(toPeer)
    BY <1>10 DEF OtherSendAuthOk, history
  <2>5. \A i \in DOMAIN toPeer' : i + 1 \in DOMAIN toPeer /\ toPeer'[i] = toPeer[i + 1]
    BY <1>0, <2>4 DEF TypeOK
  <2>6. \A n \in Nonce : Answered(n)' => Answered(n)
    BY <2>4, <2>5 DEF Answered
  <2>7. QED
    BY <2>1, <2>3, <2>4, <2>6, AppendedOther, NothingAnswered
<1>11. CASE \E t \in reads, readable \in BOOLEAN : FinishTokenRead(t, readable)
  <2>1. PICK t \in reads, readable \in BOOLEAN : FinishTokenRead(t, readable)
    BY <1>11
  <2>2. t.nonce \in Nonce /\ UNCHANGED <<conn, toExt, vouched>> /\ reads' = reads \ {t}
    BY <1>0, <2>1 DEF FinishTokenRead, TypeOK, Conns, Nonce
  <2>3. CASE Send(NullAnswer)
    <3>1. \A n \in Nonce : Answered(n)' => Answered(n)
      BY <1>2, <2>2, <2>3, SendAnswers
    <3>2. QED
      BY <2>2, <3>1, NothingAnswered
  <2>4. CASE Send(HmacAnswer(t.nonce))
    <3>1. \A n \in Nonce : Answered(n)' => Answered(n) \/ n = t.nonce
      <4>1. HmacAnswer(t.nonce) \in Answer
        BY <2>2, AnswerKinds
      <4>2. \A n \in Nonce : HmacAnswer(t.nonce) = HmacAnswer(n) => n = t.nonce
        BY DEF HmacAnswer
      <4>3. QED
        BY <2>2, <2>4, <4>1, <4>2, SendAnswers
    <3>2. t.nonce <= conn
      BY DEF OneAnswerEach
    <3>3. \A n \in Nonce : Answered(n)' => n <= conn'
      BY <2>2, <3>1, <3>2 DEF OneAnswerEach
    <3>4. ASSUME NEW u \in reads'
          PROVE  u.nonce <= conn' /\ ~Answered(u.nonce)'
      <4>1. u \in reads /\ u # t /\ u.nonce \in Nonce
        BY <1>0, <2>2 DEF TypeOK, Conns, Nonce
      <4>2. u.nonce # t.nonce /\ u.nonce <= conn /\ ~Answered(u.nonce)
        BY <4>1 DEF OneAnswerEach
      <4>3. QED
        BY <2>2, <3>1, <4>1, <4>2
    <3>5. ASSUME NEW i \in DOMAIN toExt', toExt'[i].type = "auth.challenge"
          PROVE  i = 1 /\ ~Answered(conn)' /\ \A u \in reads' : u.nonce # conn'
      <4>1. i = 1 /\ ~Answered(conn) /\ \A u \in reads : u.nonce # conn
        BY <2>2, <3>5 DEF OneAnswerEach
      <4>2. conn # t.nonce
        BY <4>1
      <4>3. Answered(conn)' => Answered(conn) \/ conn = t.nonce
        BY <1>0, <2>2, <3>1
      <4>4. QED
        BY <2>2, <4>1, <4>2, <4>3
    <3>6. \A u, w \in reads' : u.nonce = w.nonce => u = w
      BY <2>2 DEF OneAnswerEach
    <3>7. QED
      BY <3>3, <3>4, <3>5, <3>6 DEF OneAnswerEach
  <2>5. QED
    BY <2>1, <2>3, <2>4 DEF FinishTokenRead
<1>12. CASE \E k \in checks : FinishCheck(k)
  <2>1. PICK k \in checks : FinishCheck(k)
    BY <1>12
  <2>2. UNCHANGED <<conn, reads, vouched, toPeer, toExt>>
    BY <2>1 DEF FinishCheck, netVars
  <2>3. QED
    BY <1>1, <2>2, NothingAnswered
<1>13. CASE \E r \in Requests : AskVerdict(r)
  BY <1>1, <1>13, NothingAnswered DEF AskVerdict, netVars, history
<1>14. CASE \E r \in Requests : PeerSendRequest(r)
  <2>1. PICK r \in Requests : PeerSendRequest(r)
    BY <1>14
  <2>2. Request(r) \in ExtMessage /\ Request(r).type # "auth.challenge"
    BY MessageKinds
  <2>3. UNCHANGED <<conn, reads, vouched, toPeer>> /\ toExt' = Append(toExt, Request(r))
    BY <2>1 DEF PeerSendRequest, history
  <2>4. QED
    BY <1>1, <2>2, <2>3, AppendedOther, NothingAnswered
<1>15. CASE UNCHANGED vars
  BY <1>1, <1>15, NothingAnswered DEF vars, netVars, history
<1>16. QED
  BY <1>3, <1>4, <1>5, <1>6, <1>7, <1>8, <1>9, <1>10, <1>11, <1>12, <1>13, <1>14, <1>15 DEF Next

AgreementInv ==
  /\ TypeInv
  /\ MacsAreVouchedFor
  /\ OneAnswerEach
  /\ ExchangesAreFresh
  /\ MutualAgreement

\* Only a successful check verifies.
LEMMA OthersDoNotVerify ==
  ASSUME TypeOK, NEW next \in Settled \ {"verified"}, NEW c \in Nonce, Settle(next, c)
  PROVE  gate' = "verified" => gate = "verified" /\ settledBy' = settledBy
  BY SettleEffect

LEMMA FreshStep ==
  TypeInv /\ MacsAreVouchedFor /\ OneAnswerEach /\ ExchangesAreFresh /\ [Next]_vars
    => ExchangesAreFresh'
<1> SUFFICES ASSUME TypeInv, MacsAreVouchedFor, OneAnswerEach, ExchangesAreFresh, [Next]_vars
             PROVE  ExchangesAreFresh'
  OBVIOUS
<1>0. TypeOK
  BY DEF TypeInv
<1>1. ASSUME UNCHANGED <<conn, authState, vouched>>, checks' \subseteq checks
      PROVE  ExchangesAreFresh'
  BY <1>1 DEF ExchangesAreFresh
<1>2. CASE Connect
  <2>1. authState' = 0 /\ UNCHANGED <<checks, vouched>>
    BY <1>2 DEF Connect, ExchangeForgotten
  <2>2. 0 \notin vouched
    BY <1>0 DEF TypeOK, Conns
  <2>3. QED
    BY <2>1, <2>2 DEF ExchangesAreFresh
<1>3. CASE ReceiveAuthOk
  <2>1. UNCHANGED <<conn, authState, vouched>>
        /\ checks' = checks \cup NewCheck(Head(toExt).mac)
    BY <1>3 DEF ReceiveAuthOk, history
  <2>2. Head(toExt).mac \in {0} \cup vouched
    <3>1. 1 \in DOMAIN toExt /\ Head(toExt) = toExt[1] /\ toExt[1].type = "auth.ok"
      BY <1>0, <1>3 DEF ReceiveAuthOk, TypeOK
    <3>2. QED
      BY <3>1 DEF MacsAreVouchedFor
  <2>3. ASSUME NEW k \in NewCheck(Head(toExt).mac), k.mac = k.held
        PROVE  k.held = k.conn
    <3>1. k = [held |-> authState, mac |-> Head(toExt).mac, conn |-> conn] /\ authState # 0
      BY <2>3 DEF NewCheck
    <3>2. authState \in vouched
      BY <2>2, <2>3, <3>1
    <3>3. QED
      BY <3>1, <3>2 DEF ExchangesAreFresh
  <2>4. QED
    BY <2>1, <2>3 DEF ExchangesAreFresh
<1>4. CASE DaemonReceiveAnswer
  <2>1. UNCHANGED <<conn, authState, checks>> /\ vouched' \subseteq vouched \cup {conn}
    BY <1>4 DEF DaemonReceiveAnswer
  <2>2. QED
    BY <2>1 DEF ExchangesAreFresh
<1>5. CASE \E t \in reads, readable \in BOOLEAN : FinishTokenRead(t, readable)
  <2>1. PICK t \in reads, readable \in BOOLEAN : FinishTokenRead(t, readable)
    BY <1>5
  <2>2. UNCHANGED <<conn, vouched, checks>> /\ (authState' = authState \/ authState' = t.nonce)
    BY <2>1 DEF FinishTokenRead
  <2>3. t.nonce \notin vouched
    BY DEF OneAnswerEach, Answered
  <2>4. QED
    BY <2>2, <2>3 DEF ExchangesAreFresh
<1>6. CASE \E k \in checks : FinishCheck(k)
  <2>1. PICK k \in checks : FinishCheck(k)
    BY <1>6
  <2>2. QED
    BY <1>1, <2>1 DEF FinishCheck
<1>7. CASE UNCHANGED <<conn, authState, vouched, checks>>
  BY <1>1, <1>7
<1>8. QED
  BY <1>2, <1>3, <1>4, <1>5, <1>6, <1>7
     DEF Next, vars, gateVars, history, Drop, ReceiveChallenge, ExchangeTimeout, ReceiveRequest,
         OtherSendAuthOk, AskVerdict, PeerSendRequest

LEMMA AgreementStep == AgreementInv /\ [Next]_vars => (MacsAreVouchedFor /\ MutualAgreement)'
<1> SUFFICES ASSUME AgreementInv, [Next]_vars
             PROVE  MacsAreVouchedFor' /\ MutualAgreement'
  OBVIOUS
<1>0. TypeOK /\ MacsAreVouchedFor /\ MutualAgreement /\ ExchangesAreFresh /\ conn \in Nonce
  BY DEF AgreementInv, TypeInv, TypeOK, Nonce
\* The steps that check nothing: the history stays, nothing arrives at
\* "verified", and messages are consumed only.
<1>1. ASSUME UNCHANGED <<checks, vouched, proofs>>,
             toExt' = toExt \/ (toExt # <<>> /\ toExt' = Tail(toExt)),
             gate' = "verified" => gate = "verified" /\ settledBy' = settledBy
      PROVE  MacsAreVouchedFor' /\ MutualAgreement'
  <2>1. \A i \in DOMAIN toExt' : \E j \in DOMAIN toExt : toExt'[i] = toExt[j]
    <3>1. CASE toExt' = toExt
      BY <3>1
    <3>2. CASE toExt # <<>> /\ toExt' = Tail(toExt)
      <4>1. SUFFICES ASSUME NEW i \in DOMAIN toExt'
                     PROVE  i + 1 \in DOMAIN toExt /\ toExt'[i] = toExt[i + 1]
        OBVIOUS
      <4>2. QED
        BY <1>0, <3>2 DEF TypeOK
    <3>3. QED
      BY <1>1, <3>1, <3>2
  <2>2. QED
    BY <1>0, <1>1, <2>1 DEF MacsAreVouchedFor, MutualAgreement
\* A message is appended: it brings a MAC that is vouched for, or none.
<1>2. ASSUME NEW m \in ExtMessage, toExt' = Append(toExt, m),
             m.type = "auth.ok" => m.mac \in {0} \cup vouched',
             vouched \subseteq vouched',
             UNCHANGED <<checks, proofs, gate, settledBy>>
      PROVE  MacsAreVouchedFor' /\ MutualAgreement'
  <2>1. \A i \in DOMAIN toExt' : toExt'[i] = m \/ \E j \in DOMAIN toExt : toExt'[i] = toExt[j]
    BY <1>0, <1>2 DEF TypeOK
  <2>2. QED
    BY <1>0, <1>2, <2>1 DEF MacsAreVouchedFor, MutualAgreement
<1>3. CASE Connect
  <2>1. /\ UNCHANGED <<checks, vouched, proofs>> /\ gate' = "idle"
        /\ peer' \in Peers /\ toExt' \in Greetings(peer')
    BY <1>3 DEF Connect
  <2>2. \A i \in DOMAIN toExt' : toExt'[i].type # "auth.ok"
    BY <2>1, GreetingsAreChallenges
  <2>3. QED
    BY <1>0, <2>1, <2>2 DEF MacsAreVouchedFor, MutualAgreement
<1>4. CASE Drop
  BY <1>1, <1>4 DEF Drop, gateVars, netVars, history
<1>5. CASE ReceiveChallenge
  <2>1. gate' = "verified" => gate = "verified" /\ settledBy' = settledBy
    <3>1. CASE Settle("unverified", conn)
      BY <1>0, <3>1, OthersDoNotVerify DEF Settled
    <3>2. CASE MarkPending /\ UNCHANGED settledBy
      BY <3>2 DEF MarkPending
    <3>3. QED
      BY <1>5, <3>1, <3>2 DEF ReceiveChallenge
  <2>2. QED
    BY <1>1, <1>5, <2>1 DEF ReceiveChallenge
<1>6. CASE ReceiveAuthOk
  <2>1. 1 \in DOMAIN toExt /\ Head(toExt) = toExt[1] /\ Head(toExt) \in ExtMessage
    BY <1>0, <1>6 DEF ReceiveAuthOk, TypeOK
  <2>2. Head(toExt).mac \in {0} \cup vouched
    BY <1>0, <1>6, <2>1 DEF ReceiveAuthOk, MacsAreVouchedFor
  <2>3. \A k \in checks' : k.mac \in {0} \cup vouched
    BY <1>0, <1>6, <2>2 DEF ReceiveAuthOk, NewCheck, MacsAreVouchedFor
  <2>4. \A i \in DOMAIN toExt' : i + 1 \in DOMAIN toExt /\ toExt'[i] = toExt[i + 1]
    BY <1>0, <1>6 DEF ReceiveAuthOk, TypeOK
  <2>5. UNCHANGED <<vouched, proofs, gate, settledBy>>
    BY <1>6 DEF ReceiveAuthOk, gateVars, history
  <2>6. QED
    BY <1>0, <2>3, <2>4, <2>5 DEF MacsAreVouchedFor, MutualAgreement
<1>7. CASE ReceiveRequest
  BY <1>1, <1>7 DEF ReceiveRequest, gateVars
<1>8. CASE ExchangeTimeout
  <2>1. gate' = "verified" => gate = "verified" /\ settledBy' = settledBy
    BY <1>0, <1>8, OthersDoNotVerify DEF ExchangeTimeout, Settled
  <2>2. QED
    BY <1>1, <1>8, <2>1 DEF ExchangeTimeout, netVars
<1>9. CASE DaemonReceiveAnswer
  <2> USE <1>9 DEF DaemonReceiveAnswer
  <2>1. CASE UNCHANGED <<toExt, vouched>>
    BY <1>1, <2>1 DEF gateVars
  <2>2. CASE toExt' = Append(toExt, AuthOk(conn)) /\ vouched' = vouched \cup {conn}
    BY <1>0, <1>2, <2>2, MessageKinds DEF gateVars
  <2>3. QED
    BY <2>1, <2>2
<1>10. CASE OtherSendAuthOk
  <2>1. PICK m \in {0} \cup vouched : toExt' = Append(toExt, AuthOk(m))
    BY <1>10 DEF OtherSendAuthOk
  <2>2. m \in Nonce
    BY <1>0, <2>1, MaxConnAssumption DEF TypeOK, Nonce, Conns
  <2>3. UNCHANGED <<checks, vouched, proofs, gate, settledBy>>
    BY <1>10 DEF OtherSendAuthOk, gateVars, history
  <2>4. AuthOk(m) \in ExtMessage /\ AuthOk(m).mac = m
    BY <2>2, MessageKinds
  <2>5. QED
    BY <1>2, <2>1, <2>3, <2>4
<1>11. CASE \E t \in reads, readable \in BOOLEAN : FinishTokenRead(t, readable)
  <2>1. PICK t \in reads, readable \in BOOLEAN : FinishTokenRead(t, readable)
    BY <1>11
  <2>2. t.nonce \in Nonce
    BY <1>0 DEF TypeOK, Conns, Nonce
  <2>3. gate' = "verified" => gate = "verified" /\ settledBy' = settledBy
    <3>1. CASE readable /\ t.scheme = "hmac-v1"
      BY <2>1, <3>1 DEF FinishTokenRead, gateVars
    <3>2. CASE ~(readable /\ t.scheme = "hmac-v1")
      <4>1. CASE Settle("unverified", t.nonce)
        BY <1>0, <2>2, <4>1, OthersDoNotVerify DEF Settled
      <4>2. CASE Settle("not-applicable", t.nonce)
        BY <1>0, <2>2, <4>2, OthersDoNotVerify DEF Settled
      <4>3. QED
        BY <2>1, <3>2, <4>1, <4>2 DEF FinishTokenRead
    <3>3. QED
      BY <3>1, <3>2
  <2>4. QED
    BY <1>1, <2>1, <2>3 DEF FinishTokenRead
<1>12. CASE \E k \in checks : FinishCheck(k)
  <2>1. PICK k \in checks : FinishCheck(k)
    BY <1>12
  <2>2. /\ k.held \in Conns /\ k.held # 0 /\ k.conn \in Nonce
        /\ k.mac \in {0} \cup vouched
    BY <1>0 DEF TypeOK, Conns, Nonce, MacsAreVouchedFor
  <2>3. checks' \subseteq checks /\ UNCHANGED <<toExt, vouched>>
    BY <2>1 DEF FinishCheck, netVars
  <2>4. CASE MacMatches(k)
    <3>1. k.held \in vouched /\ proofs' = proofs \cup {k.held}
      BY <2>1, <2>2, <2>4 DEF FinishCheck, MacMatches
    <3>2. k.held = k.conn
      BY <1>0, <2>4 DEF ExchangesAreFresh, MacMatches
    <3>3. gate' = "verified" => settledBy' \in proofs'
      <4>1. \/ Settle("verified", k.conn)
            \/ gate' = "verified" /\ settledBy' = k.conn
        BY <2>1, <2>4 DEF FinishCheck, AuthOkChecked
      <4>2. ASSUME Settle("verified", k.conn)
            PROVE  settledBy' = k.conn \/ (gate' = gate /\ settledBy' = settledBy)
        BY <1>0, <2>2, <4>2, SettleEffect DEF Settled
      <4>3. QED
        BY <1>0, <3>1, <3>2, <4>1, <4>2 DEF MutualAgreement
    <3>4. QED
      BY <1>0, <2>3, <3>1, <3>3 DEF MacsAreVouchedFor, MutualAgreement
  <2>5. CASE ~MacMatches(k)
    <3>1. Settle("unverified", k.conn) /\ proofs' = proofs
      BY <2>1, <2>5 DEF FinishCheck, AuthOkChecked
    <3>2. gate' = "verified" => gate = "verified" /\ settledBy' = settledBy
      BY <1>0, <2>2, <3>1, OthersDoNotVerify DEF Settled
    <3>3. QED
      BY <1>0, <2>3, <3>1, <3>2 DEF MacsAreVouchedFor, MutualAgreement
  <2>6. QED
    BY <2>4, <2>5
<1>13. CASE \E r \in Requests : AskVerdict(r)
  BY <1>1, <1>13 DEF AskVerdict, gateVars, netVars, history
<1>14. CASE \E r \in Requests : PeerSendRequest(r)
  <2>1. PICK r \in Requests : PeerSendRequest(r)
    BY <1>14
  <2>2. Request(r) \in ExtMessage /\ Request(r).type # "auth.ok"
    BY <2>1, MessageKinds
  <2>3. UNCHANGED <<checks, vouched, proofs, gate, settledBy>> /\ toExt' = Append(toExt, Request(r))
    BY <2>1 DEF PeerSendRequest, gateVars, history
  <2>4. QED
    BY <1>2, <2>2, <2>3
<1>15. CASE UNCHANGED vars
  BY <1>1, <1>15 DEF vars, gateVars, netVars, history
<1>16. QED
  BY <1>3, <1>4, <1>5, <1>6, <1>7, <1>8, <1>9, <1>10, <1>11, <1>12, <1>13, <1>14, <1>15 DEF Next

LEMMA AgreementInit == Init => AgreementInv
  BY TypeInit, OneAnswerInit
     DEF Init, AgreementInv, MacsAreVouchedFor, ExchangesAreFresh, MutualAgreement

\* A verified peer is one whose MAC, over the exchange of the connection that
\* speaks, a daemon made after it had checked ours.
THEOREM AgreementIsMutual == Spec => []MutualAgreement
<1>1. Init => AgreementInv
  BY AgreementInit
<1>2. AgreementInv /\ [Next]_vars => AgreementInv'
  BY TypeStep, OneAnswerStep, FreshStep, AgreementStep DEF AgreementInv
<1>3. AgreementInv => MutualAgreement
  BY DEF AgreementInv
<1>4. QED
  BY <1>1, <1>2, <1>3, PTL DEF Spec

-----------------------------------------------------------------------------
(* The challenge marks the gate before any request.                        *)

\* While the gate is idle, the next message of a daemon's connection is its
\* challenge; and no request came from a connection still to be made.
ChallengeComesFirst ==
  /\ (up /\ peer # "other" /\ gate = "idle")
        => toExt # <<>> /\ Head(toExt).type = "auth.challenge"
  /\ \A r \in Requests : from[r] <= conn

OrderInv == TypeInv /\ ChallengeComesFirst /\ ChallengedBeforeRequest

\* Nothing but a new connection makes the gate idle.
LEMMA SettleIsNotIdle ==
  ASSUME TypeOK, NEW next \in Settled, NEW c \in Nonce, Settle(next, c)
  PROVE  /\ gate' # "idle"
         /\ \A r \in Requests : req'[r] = "queued" => req[r] = "queued"
<1>1. "idle" \notin Settled
  BY DEF Settled
<1>2. QED
  BY <1>1, SettleEffect

LEMMA OrderStep == OrderInv /\ [Next]_vars => (ChallengeComesFirst /\ ChallengedBeforeRequest)'
<1> SUFFICES ASSUME OrderInv, [Next]_vars
             PROVE  ChallengeComesFirst' /\ ChallengedBeforeRequest'
  OBVIOUS
<1>0. TypeOK /\ ChallengeComesFirst /\ ChallengedBeforeRequest /\ conn \in Nonce
  BY DEF OrderInv, TypeInv, TypeOK, Nonce
\* The steps that queue nothing and leave what is next in line, or settle.
<1>1. ASSUME UNCHANGED <<conn, peer, from>>, up' => up,
             \A r \in Requests : req'[r] = "queued" => req[r] = "queued",
             \/ gate' # "idle"
             \/ /\ gate' = gate
                /\ (up /\ peer # "other" /\ gate = "idle")
                      => toExt' # <<>> /\ Head(toExt') = Head(toExt)
      PROVE  ChallengeComesFirst' /\ ChallengedBeforeRequest'
  BY <1>0, <1>1 DEF ChallengeComesFirst, ChallengedBeforeRequest
\* Appending leaves the head alone.
<1>2. ASSUME NEW m \in ExtMessage
      PROVE  /\ Append(toExt, m) # <<>>
             /\ toExt # <<>> => Head(Append(toExt, m)) = Head(toExt)
  BY <1>0 DEF TypeOK
<1>3. CASE Connect
  <2>1. /\ conn' = conn + 1 /\ from' = from
        /\ peer' \in Peers /\ toExt' \in Greetings(peer')
    BY <1>3 DEF Connect
  <2>2. \A r \in Requests : from'[r] <= conn' /\ from'[r] # conn'
    BY <1>0, <2>1, MaxConnAssumption DEF ChallengeComesFirst, TypeOK, Nonce
  <2>3. peer' # "other" => toExt' # <<>> /\ Head(toExt').type = "auth.challenge"
    <3>1. ASSUME peer' # "other"
          PROVE  toExt' # <<>> /\ 1 \in DOMAIN toExt' /\ toExt' \in Seq(ExtMessage)
      BY <2>1, <3>1, GreetingsAreChallenges
    <3>2. QED
      BY <2>1, <3>1, GreetingsAreChallenges
  <2>4. QED
    BY <2>2, <2>3 DEF ChallengeComesFirst, ChallengedBeforeRequest
<1>4. CASE Drop
  BY <1>0, <1>1, <1>4 DEF Drop, gateVars, netVars, history, ChallengeComesFirst
<1>5. CASE ReceiveChallenge
  <2>1. /\ gate' # "idle"
        /\ \A r \in Requests : req'[r] = "queued" => req[r] = "queued"
    <3>1. CASE Settle("unverified", conn)
      BY <1>0, <3>1, SettleIsNotIdle DEF Settled
    <3>2. CASE MarkPending /\ UNCHANGED req
      BY <3>2 DEF MarkPending
    <3>3. QED
      BY <1>5, <3>1, <3>2 DEF ReceiveChallenge
  <2>2. QED
    BY <1>1, <1>5, <2>1 DEF ReceiveChallenge
<1>6. CASE ReceiveAuthOk
  <2>1. ~(up /\ peer # "other" /\ gate = "idle")
    BY <1>0, <1>6 DEF ReceiveAuthOk, ChallengeComesFirst
  <2>2. QED
    BY <1>1, <1>6, <2>1 DEF ReceiveAuthOk, gateVars, history
<1>7. CASE ReceiveRequest
  <2>1. up /\ (peer # "other" => gate # "idle") /\ UNCHANGED <<conn, up, peer, gate>>
    BY <1>0, <1>7 DEF ReceiveRequest, ChallengeComesFirst, gateVars
  <2>2. \A r \in Requests : from'[r] <= conn'
    BY <1>0, <1>7, MaxConnAssumption DEF ReceiveRequest, ChallengeComesFirst, TypeOK, Nonce
  <2>3. QED
    BY <2>1, <2>2 DEF ChallengeComesFirst, ChallengedBeforeRequest
<1>8. CASE ExchangeTimeout
  <2>1. /\ gate' # "idle"
        /\ \A r \in Requests : req'[r] = "queued" => req[r] = "queued"
    BY <1>0, <1>8, SettleIsNotIdle DEF ExchangeTimeout, Settled
  <2>2. QED
    BY <1>1, <1>8, <2>1 DEF ExchangeTimeout
<1>9. CASE DaemonReceiveAnswer
  <2> USE <1>9 DEF DaemonReceiveAnswer
  <2>1. up /\ UNCHANGED <<conn, peer, from, req, gate>>
    BY DEF gateVars
  <2>2. CASE toExt' = toExt
    BY <1>0, <1>1, <2>1, <2>2 DEF ChallengeComesFirst
  <2>3. CASE toExt' = Append(toExt, AuthOk(conn))
    <3>1. AuthOk(conn) \in ExtMessage
      BY <1>0, MessageKinds
    <3>2. (up /\ peer # "other" /\ gate = "idle") => toExt' # <<>> /\ Head(toExt') = Head(toExt)
      BY <1>0, <1>2, <2>3, <3>1 DEF ChallengeComesFirst
    <3>3. QED
      BY <1>1, <2>1, <3>2
  <2>4. QED
    BY <2>2, <2>3
<1>10. CASE OtherSendAuthOk
  BY <1>1, <1>10 DEF OtherSendAuthOk, gateVars, history
<1>11. CASE \E t \in reads, readable \in BOOLEAN : FinishTokenRead(t, readable)
  <2>1. PICK t \in reads, readable \in BOOLEAN : FinishTokenRead(t, readable)
    BY <1>11
  <2>2. t.nonce \in Nonce /\ UNCHANGED <<conn, up, peer, toExt, from>>
    BY <1>0, <2>1 DEF FinishTokenRead, TypeOK, Conns, Nonce
  <2>3. CASE UNCHANGED <<gate, req>>
    BY <1>0, <1>1, <2>2, <2>3 DEF ChallengeComesFirst
  <2>4. CASE Settle("unverified", t.nonce)
    BY <1>0, <1>1, <2>2, <2>4, SettleIsNotIdle DEF Settled
  <2>5. CASE Settle("not-applicable", t.nonce)
    BY <1>0, <1>1, <2>2, <2>5, SettleIsNotIdle DEF Settled
  <2>6. QED
    BY <2>1, <2>3, <2>4, <2>5 DEF FinishTokenRead, gateVars
<1>12. CASE \E k \in checks : FinishCheck(k)
  <2>1. PICK k \in checks : FinishCheck(k)
    BY <1>12
  <2>2. k.conn \in Nonce /\ MacMatches(k) \in BOOLEAN /\ UNCHANGED <<conn, up, peer, from>>
    BY <1>0, <2>1 DEF FinishCheck, TypeOK, Conns, Nonce, MacMatches
  <2>3. CASE Settle(IF MacMatches(k) THEN "verified" ELSE "unverified", k.conn)
    BY <1>0, <1>1, <2>2, <2>3, SettleIsNotIdle DEF Settled
  <2>4. CASE gate' = "verified" /\ UNCHANGED req
    BY <1>1, <2>2, <2>4
  <2>5. QED
    BY <1>0, <2>1, <2>2, <2>3, <2>4, AuthOkEffect DEF FinishCheck
<1>13. CASE \E r \in Requests : AskVerdict(r)
  <2>1. PICK r \in Requests : AskVerdict(r)
    BY <1>13
  <2>2. \A q \in Requests : req'[q] = "queued" => req[q] = "queued"
    BY <1>0, <2>1 DEF AskVerdict, TypeOK, OutcomeOf
  <2>3. UNCHANGED <<conn, up, peer, from, gate, toExt>>
    BY <2>1 DEF AskVerdict, gateVars, netVars, history
  <2>4. QED
    BY <1>0, <1>1, <2>2, <2>3 DEF ChallengeComesFirst
<1>14. CASE \E r \in Requests : PeerSendRequest(r)
  <2>1. PICK r \in Requests : PeerSendRequest(r)
    BY <1>14
  <2>2. Request(r) \in ExtMessage /\ toExt' = Append(toExt, Request(r))
    BY <2>1, MessageKinds DEF PeerSendRequest
  <2>3. \A q \in Requests : req'[q] = "queued" => req[q] = "queued"
    BY <1>0, <2>1 DEF PeerSendRequest, TypeOK
  <2>4. UNCHANGED <<conn, up, peer, from, gate>>
    BY <2>1 DEF PeerSendRequest, gateVars, history
  <2>5. (up /\ peer # "other" /\ gate = "idle") => toExt' # <<>> /\ Head(toExt') = Head(toExt)
    BY <1>0, <1>2, <2>2 DEF ChallengeComesFirst
  <2>6. QED
    BY <1>1, <2>3, <2>4, <2>5
<1>15. CASE UNCHANGED vars
  BY <1>0, <1>1, <1>15 DEF vars, gateVars, netVars, history, ChallengeComesFirst
<1>16. QED
  BY <1>3, <1>4, <1>5, <1>6, <1>7, <1>8, <1>9, <1>10, <1>11, <1>12, <1>13, <1>14, <1>15 DEF Next

\* A daemon's request never meets an idle gate.
THEOREM ChallengePrecedesRequests == Spec => []ChallengedBeforeRequest
<1>1. Init => OrderInv
  BY TypeInit, MaxConnAssumption DEF Init, OrderInv, ChallengeComesFirst, ChallengedBeforeRequest
<1>2. OrderInv /\ [Next]_vars => OrderInv'
  BY TypeStep, OrderStep DEF OrderInv
<1>3. OrderInv => ChallengedBeforeRequest
  BY DEF OrderInv
<1>4. QED
  BY <1>1, <1>2, <1>3, PTL DEF Spec

-----------------------------------------------------------------------------
(* Verdicts do not change within a connection.                             *)

\* What VerdictStands says of one step.
Stands ==
  (gate \in Settled /\ conn' = conn)
    => \/ gate' = gate
       \/ gate = "unverified" /\ gate' = "verified" /\ settledBy' \in proofs'

LEMMA SettleStands ==
  ASSUME TypeOK, NEW next \in Settled, NEW c \in Nonce, Settle(next, c)
  PROVE  gate \in Settled => gate' = gate
<1>1. ~(gate \in Settled /\ gate \in Unsettled)
  BY DEF Settled, Unsettled
<1>2. QED
  BY <1>1, SettleEffect

LEMMA StandsStep == AgreementInv /\ AgreementInv' /\ [Next]_vars => Stands
<1> SUFFICES ASSUME TypeInv, MutualAgreement', [Next]_vars, gate \in Settled, conn' = conn
             PROVE  gate' = gate \/ (gate = "unverified" /\ gate' = "verified")
  BY DEF Stands, AgreementInv, MutualAgreement
<1>0. TypeOK /\ conn \in Nonce
  BY DEF TypeInv, TypeOK, Nonce
<1>1. CASE Connect
  BY <1>0, <1>1, MaxConnAssumption DEF Connect, Nonce
<1>2. CASE ReceiveChallenge
  <2>1. CASE Settle("unverified", conn)
    BY <1>0, <2>1, SettleStands DEF Settled
  <2>2. CASE MarkPending
    BY <2>2 DEF MarkPending, Settled
  <2>3. QED
    BY <1>2, <2>1, <2>2 DEF ReceiveChallenge
<1>3. CASE ExchangeTimeout
  BY <1>0, <1>3, SettleStands DEF ExchangeTimeout, Settled
<1>4. CASE \E t \in reads, readable \in BOOLEAN : FinishTokenRead(t, readable)
  <2>1. PICK t \in reads, readable \in BOOLEAN : FinishTokenRead(t, readable)
    BY <1>4
  <2>2. t.nonce \in Nonce
    BY <1>0 DEF TypeOK, Conns, Nonce
  <2>3. CASE Settle("unverified", t.nonce)
    BY <1>0, <2>2, <2>3, SettleStands DEF Settled
  <2>4. CASE Settle("not-applicable", t.nonce)
    BY <1>0, <2>2, <2>4, SettleStands DEF Settled
  <2>5. QED
    BY <2>1, <2>3, <2>4 DEF FinishTokenRead, gateVars
<1>5. CASE \E k \in checks : FinishCheck(k)
  <2>1. PICK k \in checks : FinishCheck(k)
    BY <1>5
  <2>2. k.conn \in Nonce /\ MacMatches(k) \in BOOLEAN
    BY <1>0 DEF TypeOK, Conns, Nonce, MacMatches
  <2>3. CASE Settle(IF MacMatches(k) THEN "verified" ELSE "unverified", k.conn)
    BY <1>0, <2>2, <2>3, SettleStands DEF Settled
  <2>4. CASE MacMatches(k) /\ gate = "unverified" /\ gate' = "verified"
    BY <2>1, <2>4 DEF FinishCheck
  <2>5. QED
    BY <1>0, <2>1, <2>2, <2>3, <2>4, AuthOkEffect DEF FinishCheck
<1>6. CASE UNCHANGED gate
  BY <1>6
<1>7. QED
  BY <1>1, <1>2, <1>3, <1>4, <1>5, <1>6
     DEF Next, vars, gateVars, history, Drop, ReceiveAuthOk, ReceiveRequest, DaemonReceiveAnswer,
         OtherSendAuthOk, AskVerdict, PeerSendRequest

\* Only valid proof changes a verdict within a connection.
THEOREM VerdictsStand == Spec => VerdictStands
<1>1. Spec => []AgreementInv
  <2>1. Init => AgreementInv
    BY AgreementInit
  <2>2. AgreementInv /\ [Next]_vars => AgreementInv'
    BY TypeStep, OneAnswerStep, FreshStep, AgreementStep DEF AgreementInv
  <2>3. QED
    BY <2>1, <2>2, PTL DEF Spec
<1>2. AgreementInv /\ AgreementInv' /\ [Next]_vars => [Stands]_vars
  BY StandsStep
<1>3. QED
  BY <1>1, <1>2, PTL DEF Spec, VerdictStands, Stands
=============================================================================
