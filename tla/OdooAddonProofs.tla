--------------------------- MODULE OdooAddonProofs ---------------------------
(***************************************************************************)
(* The guarantees of the login, for any clients: first of AuthStore alone,  *)
(* then of the system of OdooAddon, each of whose steps is a step of the    *)
(* login or leaves it alone.                                               *)
(***************************************************************************)
EXTENDS OdooAddon, SequenceTheorems, TLAPS

\* The inductive invariant of the login.
AuthInv == AuthTypeOK /\ SessionsOfOperator

(***************************************************************************)
(* AuthStore                                                               *)
(***************************************************************************)

LEMMA AuthInitially == AuthInit => AuthInv
  BY DEF AuthInit, AuthInv, AuthTypeOK, SessionsOfOperator

LEMMA ChallengesKeep ==
    ASSUME AuthInv, NEW c \in Challenges, issueChallenge(c) \/ ExpireChallenge(c)
    PROVE  AuthInv'
  BY DEF AuthInv, AuthTypeOK, SessionsOfOperator, issueChallenge, ExpireChallenge

\* A wallet that is let in is the operator, or becomes it.
LEMMA AuthenticIsOperator ==
    ASSUME AuthInv, NEW c \in Challenges, NEW n \in Challenges, NEW k \in Keys,
           Authentic(c, k, n)
    PROVE  /\ \A t \in Tokens : sessions[t] \in {NoKey, k}
           /\ registry # NoKey /\ ~ unread => registry = k /\ authorizedVerifyingKey = k
           /\ authorizedVerifyingKey # NoKey /\ registry \notin {NoKey, k} => unread
<1>1. authorizedVerifyingKey \in {NoKey, k}
  BY DEF Authentic
<1>2. \A t \in Tokens : sessions[t] \in {NoKey, authorizedVerifyingKey}
  BY DEF AuthInv, SessionsOfOperator
<1>3. registry \notin {NoKey, authorizedVerifyingKey} => unread
  BY DEF AuthInv, SessionsOfOperator
<1> QED BY <1>1, <1>2, <1>3

LEMMA VerifyKeeps ==
    ASSUME AuthInv, NEW c \in Challenges, NEW n \in Challenges, NEW k \in Keys,
           \/ VerifyRefused(c, k, n)
           \/ VerifyUnsaved(c, k, n)
           \/ \E t \in Tokens : VerifyGranted(c, k, n, t)
    PROVE  AuthInv'
<1>1. CASE VerifyRefused(c, k, n)
  BY <1>1 DEF AuthInv, AuthTypeOK, SessionsOfOperator, VerifyRefused
<1>2. CASE VerifyUnsaved(c, k, n)
  <2>1. /\ Authentic(c, k, n)
        /\ challenges' = challenges \ {c}
        /\ authorizedVerifyingKey' = k
        /\ sessions' = sessions /\ registry' \in {registry, NoKey} /\ unread' = unread
    BY <1>2 DEF VerifyUnsaved
  <2>2. AuthTypeOK'
    BY <2>1 DEF AuthInv, AuthTypeOK
  <2>3. SessionsOfOperator'
    BY <2>1, AuthenticIsOperator DEF SessionsOfOperator
  <2> QED BY <2>2, <2>3 DEF AuthInv
<1>3. ASSUME NEW t \in Tokens, VerifyGranted(c, k, n, t)
      PROVE  AuthInv'
  <2>1. /\ Authentic(c, k, n)
        /\ challenges' = challenges \ {c}
        /\ authorizedVerifyingKey' = k
        /\ registry' = IF authorizedVerifyingKey = NoKey THEN k ELSE registry
        /\ sessions' = [sessions EXCEPT ![t] = k]
        /\ unread' = (unread /\ authorizedVerifyingKey # NoKey)
    BY <1>3 DEF VerifyGranted
  <2>2. AuthTypeOK'
    BY <2>1 DEF AuthInv, AuthTypeOK
  <2>3. SessionsOfOperator'
    BY <2>1, AuthenticIsOperator DEF SessionsOfOperator, AuthInv, AuthTypeOK
  <2> QED BY <2>2, <2>3 DEF AuthInv
<1> QED BY <1>1, <1>2, <1>3

LEMMA AuthStep == AuthInv /\ [AuthNext]_authVars => AuthInv'
<1> SUFFICES ASSUME AuthInv, [AuthNext]_authVars PROVE AuthInv'
  OBVIOUS
<1>1. ASSUME NEW t \in Tokens, ExpireSession(t) PROVE AuthInv'
  BY <1>1 DEF AuthInv, AuthTypeOK, SessionsOfOperator, ExpireSession
<1>2. CASE AuthRestart
  BY <1>2 DEF AuthInv, AuthTypeOK, SessionsOfOperator, AuthRestart, NewProcess
<1>3. CASE UNCHANGED authVars
  BY <1>3 DEF AuthInv, AuthTypeOK, SessionsOfOperator, authVars
<1> QED BY <1>1, <1>2, <1>3, ChallengesKeep, VerifyKeeps DEF AuthNext

THEOREM AuthInvariant == AuthSpec => []AuthInv
<1>1. AuthInit => AuthInv
  BY AuthInitially
<1>2. AuthInv /\ [AuthNext]_authVars => AuthInv'
  BY AuthStep
<1> QED BY <1>1, <1>2, PTL DEF AuthSpec

\* One step of the action property.
OperatorStays ==
    registry # NoKey =>
        /\ registry' # registry => unread /\ authorizedVerifyingKey = NoKey
        /\ \A t \in Tokens : sessions'[t] # sessions[t] =>
                               unread \/ sessions'[t] \in {registry, NoKey}

LEMMA AuthStepPermanent == AuthInv /\ [AuthNext]_authVars => OperatorStays
<1> SUFFICES ASSUME AuthInv, [AuthNext]_authVars PROVE OperatorStays
  OBVIOUS
<1>1. CASE sessions' = sessions /\ registry' = registry
  BY <1>1 DEF OperatorStays
<1>2. ASSUME NEW t \in Tokens, ExpireSession(t) PROVE OperatorStays
  BY <1>2 DEF OperatorStays, ExpireSession, AuthInv, AuthTypeOK
<1>3. CASE AuthRestart
  BY <1>3 DEF OperatorStays, AuthRestart, NewProcess
<1>4. ASSUME NEW c \in Challenges, NEW n \in Challenges, NEW k \in Keys, NEW t \in Tokens,
             VerifyGranted(c, k, n, t)
      PROVE  OperatorStays
  <2>1. /\ Authentic(c, k, n)
        /\ registry' = IF authorizedVerifyingKey = NoKey THEN k ELSE registry
        /\ sessions' = [sessions EXCEPT ![t] = k]
    BY <1>4 DEF VerifyGranted
  <2>2. registry # NoKey /\ ~ unread => registry = k /\ authorizedVerifyingKey = k
    BY <2>1, AuthenticIsOperator
  <2>3. registry # NoKey /\ registry' # registry => unread /\ authorizedVerifyingKey = NoKey
    BY <2>1, <2>2
  <2> QED BY <2>1, <2>2, <2>3 DEF OperatorStays, AuthInv, AuthTypeOK
<1>5. ASSUME NEW c \in Challenges, NEW n \in Challenges, NEW k \in Keys,
             VerifyRefused(c, k, n)
      PROVE  OperatorStays
  BY <1>1, <1>5 DEF VerifyRefused
<1>8. ASSUME NEW c \in Challenges, NEW n \in Challenges, NEW k \in Keys,
             VerifyUnsaved(c, k, n)
      PROVE  OperatorStays
  <2>1. /\ authorizedVerifyingKey = NoKey
        /\ sessions' = sessions
    BY <1>8 DEF VerifyUnsaved
  <2>2. registry # NoKey => unread
    BY <2>1 DEF AuthInv, SessionsOfOperator
  <2> QED BY <2>1, <2>2 DEF OperatorStays
<1>6. ASSUME NEW c \in Challenges, issueChallenge(c) \/ ExpireChallenge(c)
      PROVE  OperatorStays
  BY <1>1, <1>6 DEF issueChallenge, ExpireChallenge
<1>7. CASE UNCHANGED authVars
  BY <1>1, <1>7 DEF authVars
<1> QED BY <1>2, <1>3, <1>4, <1>5, <1>6, <1>7, <1>8 DEF AuthNext

(***************************************************************************)
(* OdooAddon: every step is one of the login, or leaves it alone.          *)
(***************************************************************************)

LEMMA Clients ==
    /\ Requests \subseteq Challenges /\ "panel" \in Challenges
    /\ OdooKey \in Keys /\ WalletKey \in Keys
  BY OdooAssumption

LEMMA GetClientStep ==
    ASSUME NEW r \in Requests, NEW rec, NEW ds, GetClient(r, rec, ds)
    PROVE  [AuthNext]_authVars
  BY Clients DEF GetClient, AuthNext

LEMMA ClickStep == ASSUME NEW r \in Requests, Click(r) PROVE [AuthNext]_authVars
<1>1. ASSUME NEW op, NEW d, BeginChainOp(r, op, d) \/ BeginRowOp(r, op, d)
      PROVE  [AuthNext]_authVars
  BY <1>1, GetClientStep DEF BeginChainOp, BeginRowOp
<1>2. ASSUME NEW op, NEW o, BeginOfferOp(r, op, o) \/ BeginOther(r, op)
      PROVE  [AuthNext]_authVars
  BY <1>2, GetClientStep DEF BeginOfferOp, BeginOther
<1> QED BY <1>1, <1>2 DEF Click

LEMMA LoginStep ==
    ASSUME NEW r \in Requests, Login(r) \/ LoginUnsaved(r) \/ Unauthorized(r)
    PROVE  [AuthNext]_authVars
<1>1. CASE Login(r)
  BY <1>1, Clients DEF Login, LoginGranted, AuthNext
<1>2. CASE LoginUnsaved(r)
  BY <1>2, Clients DEF LoginUnsaved, AuthNext
<1>3. CASE Unauthorized(r)
  BY <1>3, Clients DEF Unauthorized, AuthNext
<1> QED BY <1>1, <1>2, <1>3

LEMMA WalletStep == WalletLogin \/ WalletUnsaved \/ Expire => [AuthNext]_authVars
<1>1. WalletLogin => [AuthNext]_authVars
  BY Clients DEF WalletLogin, AuthNext
<1>2. WalletUnsaved => [AuthNext]_authVars
  BY Clients DEF WalletUnsaved, AuthNext
<1>3. Expire => [AuthNext]_authVars
  BY DEF Expire, AuthNext
<1> QED BY <1>1, <1>2, <1>3

LEMMA StepIsAuth == [Next]_vars => [AuthNext]_authVars
<1> SUFFICES ASSUME [Next]_vars PROVE [AuthNext]_authVars
  OBVIOUS
<1>1. ASSUME NEW r \in Requests, Handle(r) \/ CallFails(r) \/ Succeed(r) \/ Fail(r)
      PROVE  [AuthNext]_authVars
  BY <1>1 DEF Handle, CallFails, Succeed, Fail
<1>2. ASSUME NEW r \in Requests, ReadStatus(r)
      PROVE  [AuthNext]_authVars
  BY <1>2, GetClientStep DEF ReadStatus
<1>3. ASSUME NEW a \in running, ApproveEnds(a)
      PROVE  [AuthNext]_authVars
  BY <1>3 DEF ApproveEnds
<1>4. ASSUME NEW o \in Offers, ReceiveOffer(o)
      PROVE  [AuthNext]_authVars
  BY <1>4 DEF ReceiveOffer
<1>5. CASE AgentRestarts
  BY <1>5 DEF AgentRestarts, AuthNext
<1>6. CASE UNCHANGED vars
  BY <1>6 DEF vars
<1> QED BY <1>1, <1>2, <1>3, <1>4, <1>5, <1>6, ClickStep, LoginStep, WalletStep DEF Next

\* The addon and the panel are clients of the login and of nothing more: the whole
\* system implements AuthStore (escrow_client.py, odoo-auth-helper.ts, auth.ts).
THEOREM OdooImplementsLogin == Spec => AuthSpec
<1>1. Init => AuthInit
  BY DEF Init
<1> QED BY <1>1, StepIsAuth, PTL DEF Spec, AuthSpec

\* In the whole system, sessions are the operator's, and memory and file agree on
\* who that is, after any crash, failed write or expiry, unless the file could not
\* be read when the process started (auth.ts:108-115).
THEOREM OdooSessions == Spec => []SessionsOfOperator
<1>1. AuthInv => SessionsOfOperator
  BY DEF AuthInv
<1> QED BY <1>1, OdooImplementsLogin, AuthInvariant, PTL

\* In the whole system, a stored operator is replaced only by the first login to a
\* process that could not read it when it started, and every other process gives
\* sessions to it alone (auth.ts:53, 108-115, 157-163).
THEOREM OdooOperator == Spec => OperatorIsPermanent
<1>1. AuthInv /\ [AuthNext]_authVars => [OperatorStays]_authVars
  BY AuthStepPermanent
<1> QED BY <1>1, OdooImplementsLogin, AuthInvariant, PTL
          DEF AuthSpec, OperatorIsPermanent, OperatorStays

(***************************************************************************)
(* OdooAddon: the deals.                                                   *)
(***************************************************************************)

QueueOps == {"propose", "lock", "accept"}
AllOps == RowOps \cup OfferOps \cup {"propose", "sync"}
FinalStatuses == {"confirmed", "rejected"}

ActionType ==
  [offer : Offers \cup {None},
   status : {"awaiting_approval", "submitted_pending", "confirmed", "failed", "rejected"}]

RowType ==
  [act : Nat, offer : Offers \cup {None}, pending : Nat,
   address : Nat \cup Offers \cup {None}, submitting : BOOLEAN,
   how : {"open", "approve", "reject", "relink"}]

RequestType ==
  [op : AllOps \cup {"none"}, pc : {"idle", "verify", "send", "waiting", "ok", "refused"},
   stage : {"main", "refresh"}, row : Nat, offer : Offers \cup {None}, act : Nat,
   tok : Tokens \cup {None}, fresh : BOOLEAN, retried : BOOLEAN, rowStale : BOOLEAN,
   tokenStale : BOOLEAN, seen : [Offers -> {"none", "pending", "used", "dismissed"}]]

AddonTypeOK ==
  /\ actions \in Seq(ActionType)
  /\ running \subseteq DOMAIN actions
  /\ offers \in [Offers -> {"none", "pending", "used", "dismissed"}]
  /\ deals \in Seq(RowType)
  /\ mirror \in [Offers -> {"none", "pending", "used", "dismissed"}]
  /\ token \in Tokens \cup {None}
  /\ req \in [Requests -> RequestType]

\* What a row of ublp.escrow.deal says of its pending action.
RowOK(row, as) ==
  /\ row.act \in DOMAIN as
  /\ row.pending \in {0, row.act}
  /\ row.offer # None => row.address # None
  /\ row.how = "open" => row.pending = row.act
  /\ row.how = "relink" => row.address # None
  /\ row.how = "reject" => as[row.act].status = "rejected"
  /\ row.how = "approve" => as[row.act].status = "confirmed" /\ row.address # None

\* What a request knows.
RequestOK(m, ds, as) ==
  /\ m.pc = "idle" <=> m.op = "none"
  /\ m.stage = "refresh" => m.op \in {"approve", "settle"}
  /\ m.pc = "refused" => Catches(m)
  /\ m.op \in OfferOps => m.offer # None
  /\ m.op \in RowOps => m.row \in DOMAIN ds
  /\ m.op \in {"approve", "reject"} => m.act \in DOMAIN as
  /\ m.op \in QueueOps /\ m.pc = "ok" => m.act \in DOMAIN as
  /\ m.op = "approve" /\ (m.pc = "ok" \/ m.stage = "refresh") => as[m.act].status = "confirmed"
  /\ m.op = "reject" /\ m.pc = "ok" => as[m.act].status = "rejected"
  /\ m.op \in ChainOps /\ ~ m.rowStale => ds[m.row].submitting /\ m.act = ds[m.row].pending

\* Of two chain operations on one row, one cannot commit any more.
Apart(m, n) ==
  m.op \in ChainOps /\ n.op \in ChainOps /\ m.row = n.row => m.rowStale \/ n.rowStale

OdooInv ==
  /\ AddonTypeOK
  /\ \A a \in running : actions[a].status = "submitted_pending"
  /\ \A d \in DOMAIN deals : RowOK(deals[d], actions)
  /\ \A r \in Requests : RequestOK(req[r], deals, actions)
  /\ \A q, r \in Requests : q # r => Apart(req[q], req[r])

(***************************************************************************)
(* What a step may do to an action, to a request and to a pair of them.    *)
(***************************************************************************)

\* No outcome is taken back.
Evolves(as, bs) ==
  /\ DOMAIN as \subseteq DOMAIN bs
  /\ \A a \in DOMAIN as : as[a].status \in FinalStatuses => bs[a].status = as[a].status

\* n is m, which another transaction may have made stale.
Carries(m, n) ==
  /\ n.op = m.op /\ n.pc = m.pc /\ n.stage = m.stage
  /\ n.row = m.row /\ n.offer = m.offer /\ n.act = m.act
  /\ m.rowStale => n.rowStale

\* A chain operation of n is one that m was at.
Successor(m, n) ==
  n.op \in ChainOps => /\ m.op \in ChainOps
                       /\ n.row = m.row
                       /\ m.rowStale => n.rowStale

\* A row that a chain operation can still write stays as it is.
RowsHeld(m, ds, es) ==
  /\ DOMAIN ds \subseteq DOMAIN es
  /\ m.op \in ChainOps /\ ~ m.rowStale => es[m.row] = ds[m.row]

\* One step of OneOperationPerDeal.
OneOperation ==
  \A q, r \in Requests :
    /\ q # r
    /\ req[r].op \notin ChainOps /\ req'[r].op \in ChainOps
    /\ req[q].op \in ChainOps
    /\ req[q].row = req'[r].row
    => req[q].rowStale

LEMMA NoneIsNobody ==
    None \notin Nat /\ None \notin Offers /\ None \notin Tokens
  BY OdooAssumption

LEMMA EvolvesItself == \A as : Evolves(as, as)
  BY DEF Evolves

LEMMA RowKeeps ==
    ASSUME NEW row, NEW as, NEW bs, RowOK(row, as), Evolves(as, bs)
    PROVE  RowOK(row, bs)
  BY DEF RowOK, Evolves, FinalStatuses

LEMMA RequestKeeps ==
    ASSUME NEW m, NEW ds, NEW es, NEW as, NEW bs,
           RequestOK(m, ds, as), Evolves(as, bs), RowsHeld(m, ds, es)
    PROVE  RequestOK(m, es, bs)
<1>1. /\ m.op \in {"approve", "reject"} => m.act \in DOMAIN bs
      /\ m.op \in QueueOps /\ m.pc = "ok" => m.act \in DOMAIN bs
      /\ m.op \in RowOps => m.row \in DOMAIN es
  BY DEF RequestOK, Evolves, RowsHeld
<1>2. m.op = "approve" /\ (m.pc = "ok" \/ m.stage = "refresh") => bs[m.act].status = "confirmed"
  BY DEF RequestOK, Evolves, FinalStatuses
<1>3. m.op = "reject" /\ m.pc = "ok" => bs[m.act].status = "rejected"
  BY DEF RequestOK, Evolves, FinalStatuses
<1>4. m.op \in ChainOps /\ ~ m.rowStale => es[m.row].submitting /\ m.act = es[m.row].pending
  BY DEF RequestOK, RowsHeld
<1> QED BY <1>1, <1>2, <1>3, <1>4 DEF RequestOK

LEMMA RequestCarries ==
    ASSUME NEW m, NEW n, NEW ds, NEW as, RequestOK(m, ds, as), Carries(m, n),
           n.rowStale \in BOOLEAN, m.rowStale \in BOOLEAN
    PROVE  RequestOK(n, ds, as) /\ Successor(m, n)
  BY DEF RequestOK, Carries, Successor, Catches

LEMMA ApartKeeps ==
    ASSUME NEW m, NEW n, NEW i, NEW j, Apart(m, n), Successor(m, i), Successor(n, j)
    PROVE  Apart(i, j)
  BY DEF Apart, Successor

\* What is left to show of a step that begins no chain operation.
LEMMA StepKeeps ==
    ASSUME OdooInv, AddonTypeOK',
           \A a \in running' : actions'[a].status = "submitted_pending",
           \A d \in DOMAIN deals' : RowOK(deals'[d], actions'),
           \A q \in Requests : RequestOK(req'[q], deals', actions') /\ Successor(req[q], req'[q])
    PROVE  OdooInv' /\ OneOperation
<1>1. \A q, r \in Requests : q # r => Apart(req'[q], req'[r])
  BY ApartKeeps DEF OdooInv
<1>2. OneOperation
  BY DEF OneOperation, Successor
<1> QED BY <1>1, <1>2 DEF OdooInv

(***************************************************************************)
(* The records of the requests                                             *)
(***************************************************************************)

LEMMA IdleIsFine ==
    /\ Idle \in RequestType
    /\ \A ds, as : RequestOK(Idle, ds, as)
    /\ \A m : Successor(m, Idle)
<1>1. Idle \in RequestType
  BY DEF Idle, RequestType
<1>2. Idle.op = "none" /\ Idle.pc = "idle" /\ Idle.stage = "main"
  BY DEF Idle
<1> QED BY <1>1, <1>2 DEF RequestOK, Successor, RowOps, ChainOps, OfferOps, QueueOps

LEMMA AnsweredFields ==
    ASSUME NEW m \in RequestType,
           NEW pc \in {"idle", "verify", "send", "waiting", "ok", "refused"}
    PROVE  /\ Answered(m, pc) \in RequestType
           /\ Answered(m, pc).pc = pc
           /\ Answered(m, pc).op = m.op
           /\ Answered(m, pc).stage = m.stage
           /\ Answered(m, pc).row = m.row
           /\ Answered(m, pc).offer = m.offer
           /\ Answered(m, pc).act = m.act
           /\ Answered(m, pc).rowStale = m.rowStale
<1>1. (IF m.fresh THEN m.tok ELSE None) \in Tokens \cup {None}
  BY DEF RequestType
<1> QED BY <1>1 DEF RequestType, Answered

LEMMA RefusedIsFine ==
    ASSUME NEW m \in RequestType, NEW ds, NEW as, RequestOK(m, ds, as)
    PROVE  /\ Refused(m) \in RequestType
           /\ RequestOK(Refused(m), ds, as)
           /\ Successor(m, Refused(m))
<1>1. CASE Catches(m)
  <2>1. Refused(m) = Answered(m, "refused")
    BY <1>1 DEF Refused
  <2> DEFINE n == Answered(m, "refused")
  <2>2. /\ n \in RequestType /\ n.pc = "refused" /\ n.op = m.op /\ n.stage = m.stage
        /\ n.row = m.row /\ n.offer = m.offer /\ n.act = m.act /\ n.rowStale = m.rowStale
    BY AnsweredFields
  <2> HIDE DEF n
  <2>3. Catches(n)
    BY <1>1, <2>2 DEF Catches
  <2>4. n.op # "none"
    BY <1>1, <2>2 DEF Catches, ChainOps
  <2>5. RequestOK(n, ds, as)
    BY <2>2, <2>3, <2>4 DEF RequestOK
  <2>6. Successor(m, n)
    BY <2>2 DEF Successor
  <2> QED BY <2>1, <2>2, <2>5, <2>6 DEF n
<1>2. CASE ~ Catches(m)
  BY <1>2, IdleIsFine DEF Refused
<1> QED BY <1>1, <1>2

\* A step that changes nothing but the request r.
LEMMA OnlyRequest ==
    ASSUME OdooInv, NEW r \in Requests, NEW n \in RequestType,
           RequestOK(n, deals, actions), Successor(req[r], n),
           req' = [req EXCEPT ![r] = n],
           UNCHANGED <<agentVars, odooVars>>
    PROVE  OdooInv' /\ OneOperation
<1>1. AddonTypeOK'
  BY DEF OdooInv, AddonTypeOK, agentVars, odooVars
<1>2. \A q \in Requests : RequestOK(req'[q], deals, actions) /\ Successor(req[q], req'[q])
  BY DEF OdooInv, AddonTypeOK, Successor
<1> QED BY <1>1, <1>2, StepKeeps DEF OdooInv, agentVars, odooVars

\* The others while the request r goes on to be the record n.
Beside(r, n) ==
  /\ req' \in [Requests -> RequestType]
  /\ req'[r] = n
  /\ \A q \in Requests : q # r => Carries(req[q], req'[q])

LEMMA MarkFields ==
    ASSUME AddonTypeOK, NEW q \in Requests, NEW ds, NEW os, NEW tw \in BOOLEAN
    PROVE  /\ Mark(q, ds, os, tw) \in RequestType
           /\ Carries(req[q], Mark(q, ds, os, tw))
           /\ req[q].op \in RowOps /\ req[q].row \in ds => Mark(q, ds, os, tw).rowStale
<1>1. req[q] \in RequestType
  BY DEF AddonTypeOK
<1> DEFINE s == \/ req[q].rowStale
                \/ req[q].op \in RowOps /\ req[q].row \in ds
                \/ req[q].op \in {"accept", "dismiss"} /\ req[q].offer \in os
                \/ req[q].op = "sync" /\ os # {}
           t == req[q].tokenStale \/ tw
<1>2. s \in BOOLEAN /\ t \in BOOLEAN
  OBVIOUS
<1>3. Mark(q, ds, os, tw) = [req[q] EXCEPT !.rowStale = s, !.tokenStale = t]
  BY DEF Mark
<1>4. req[q].op \in RowOps /\ req[q].row \in ds => s
  OBVIOUS
<1>5. req[q].rowStale => s
  OBVIOUS
<1> HIDE DEF s, t
<1> QED BY <1>1, <1>2, <1>3, <1>4, <1>5 DEF RequestType, Carries

LEMMA MarkOthersFields ==
    ASSUME AddonTypeOK, NEW r \in Requests, NEW n \in RequestType, NEW ds, NEW os,
           NEW tw \in BOOLEAN, MarkOthers(r, n, ds, os, tw),
           \A q \in Requests : req[q].pc = "idle" => req[q].op = "none"
    PROVE  /\ Beside(r, n)
           /\ \A q \in Requests :
                q # r /\ req[q].op \in RowOps /\ req[q].row \in ds => req'[q].rowStale
<1>1. req' = [q \in Requests |-> IF q = r THEN n
                                 ELSE IF InProgress(q) THEN Mark(q, ds, os, tw)
                                 ELSE req[q]]
  BY DEF MarkOthers
<1>2. ASSUME NEW q \in Requests, q # r
      PROVE  /\ req'[q] \in RequestType
             /\ Carries(req[q], req'[q])
             /\ req[q].op \in RowOps /\ req[q].row \in ds => req'[q].rowStale
  <2>1. CASE InProgress(q)
    BY <1>1, <1>2, <2>1, MarkFields
  <2>2. CASE ~ InProgress(q)
    <3>1. req'[q] = req[q]
      BY <1>1, <1>2, <2>2
    <3>2. req[q].op \notin RowOps
      BY <2>2 DEF InProgress, RowOps, ChainOps
    <3> QED BY <3>1, <3>2 DEF AddonTypeOK, Carries
  <2> QED BY <2>1, <2>2
<1>3. req'[r] = n
  BY <1>1
<1>4. req' = [q \in Requests |-> req'[q]]
  BY <1>1
<1>5. req' \in [Requests -> RequestType]
  BY <1>2, <1>3, <1>4
<1> QED BY <1>2, <1>3, <1>5 DEF Beside

\* The invariant of the requests after a step of r.
LEMMA BesideKeeps ==
    ASSUME OdooInv, NEW r \in Requests, NEW n, Beside(r, n),
           NEW ds, NEW as, RequestOK(n, ds, as), Successor(req[r], n),
           \A q \in Requests : q # r => RequestOK(req'[q], ds, as)
    PROVE  \A q \in Requests : RequestOK(req'[q], ds, as) /\ Successor(req[q], req'[q])
BY DEF Beside, Carries, Successor

\* n is the request m with its HTTP call, or the login before it, begun.
Begun(m, n) ==
  /\ n \in RequestType
  /\ n.pc \in {"send", "verify"}
  /\ n.op = m.op /\ n.stage = m.stage /\ n.row = m.row
  /\ n.offer = m.offer /\ n.act = m.act /\ n.rowStale = m.rowStale

LEMMA GetClientFields ==
    ASSUME OdooInv, NEW r \in Requests, NEW rec \in RequestType, NEW ds,
           GetClient(r, rec, ds)
    PROVE  /\ Begun(rec, req'[r])
           /\ Beside(r, req'[r])
           /\ \A q \in Requests :
                q # r /\ req[q].op \in RowOps /\ req[q].row \in ds => req'[q].rowStale
<1>1. AddonTypeOK /\ \A q \in Requests : req[q].pc = "idle" => req[q].op = "none"
  BY DEF OdooInv, RequestOK
<1> DEFINE sent == [rec EXCEPT !.pc = "send", !.tok = CachedToken(rec)]
           asked == [rec EXCEPT !.pc = "verify"]
<1>2. CachedToken(rec) \in Tokens \cup {None}
  BY <1>1 DEF CachedToken, AddonTypeOK, RequestType
<1>3. Begun(rec, sent)
  BY <1>2 DEF Begun, RequestType
<1>4. Begun(rec, asked)
  BY DEF Begun, RequestType
<1>5. PICK n \in {sent, asked} : MarkOthers(r, n, ds, {}, FALSE)
  BY DEF GetClient
<1>6. Begun(rec, n) /\ n \in RequestType
  BY <1>3, <1>4, <1>5 DEF Begun
<1> HIDE DEF sent, asked
<1>7. /\ Beside(r, n)
      /\ \A q \in Requests :
           q # r /\ req[q].op \in RowOps /\ req[q].row \in ds => req'[q].rowStale
  BY <1>1, <1>5, <1>6, MarkOthersFields
<1> QED BY <1>6, <1>7 DEF Beside

\* A request with its call begun that the invariant holds of.
LEMMA BegunIsFine ==
    ASSUME NEW m, NEW n, NEW ds, NEW as, Begun(m, n), m.op # "none",
           m.stage = "refresh" => m.op \in {"approve", "settle"},
           m.op \in OfferOps => m.offer # None,
           m.op \in RowOps => m.row \in DOMAIN ds,
           m.op \in {"approve", "reject"} => m.act \in DOMAIN as,
           m.op = "approve" /\ m.stage = "refresh" => as[m.act].status = "confirmed",
           m.op \in ChainOps /\ ~ m.rowStale => ds[m.row].submitting /\ m.act = ds[m.row].pending
    PROVE  RequestOK(n, ds, as)
BY DEF RequestOK, Begun

\* A step that changes nothing but requests, in which r begins a call.
LEMMA BeginKeeps ==
    ASSUME OdooInv, NEW r \in Requests, NEW rec \in RequestType, GetClient(r, rec, {}),
           UNCHANGED <<agentVars, odooVars>>,
           \A n : Begun(rec, n) => RequestOK(n, deals, actions) /\ Successor(req[r], n)
    PROVE  OdooInv' /\ OneOperation
<1>1. Begun(rec, req'[r]) /\ Beside(r, req'[r])
  BY GetClientFields
<1>2. AddonTypeOK'
  BY <1>1 DEF OdooInv, AddonTypeOK, agentVars, odooVars, Beside
<1>3. \A q \in Requests : q # r => RequestOK(req'[q], deals, actions)
  BY <1>1, RequestCarries DEF Beside, OdooInv, AddonTypeOK, RequestType
<1>4. \A q \in Requests : RequestOK(req'[q], deals, actions) /\ Successor(req[q], req'[q])
  BY <1>1, <1>3, BesideKeeps
<1> QED BY <1>2, <1>4, StepKeeps DEF OdooInv, agentVars, odooVars

(***************************************************************************)
(* The steps of the addon                                                  *)
(***************************************************************************)

\* The invariant of one request, and its type.
LEMMA OneRequestOK ==
    ASSUME OdooInv, NEW r \in Requests
    PROVE  /\ req[r] \in RequestType
           /\ RequestOK(req[r], deals, actions)
           /\ req[r].row \in Nat
  BY DEF OdooInv, AddonTypeOK, RequestType

LEMMA RefuseKeeps ==
    ASSUME OdooInv, NEW r \in Requests, Refuse(r), UNCHANGED <<agentVars, odooVars>>
    PROVE  OdooInv' /\ OneOperation
<1>1. /\ Refused(req[r]) \in RequestType
      /\ RequestOK(Refused(req[r]), deals, actions)
      /\ Successor(req[r], Refused(req[r]))
  BY OneRequestOK, RefusedIsFine
<1> QED BY <1>1, OnlyRequest DEF Refuse

LEMMA LoginKeeps ==
    ASSUME OdooInv, NEW r \in Requests, Login(r) \/ LoginUnsaved(r) \/ Unauthorized(r)
    PROVE  OdooInv' /\ OneOperation
<1> USE OneRequestOK
<1>1. ASSUME NEW n \in RequestType, Begun(req[r], n), req[r].pc \in {"verify", "send"},
             req' = [req EXCEPT ![r] = n], UNCHANGED <<agentVars, odooVars>>
      PROVE  OdooInv' /\ OneOperation
  <2>1. RequestOK(n, deals, actions) /\ Successor(req[r], n)
    BY <1>1 DEF Begun, RequestOK, Successor
  <2> QED BY <1>1, <2>1, OnlyRequest
<1>2. ASSUME NEW t \in Tokens, req[r].pc = "verify", UNCHANGED <<agentVars, odooVars>>,
             req' = [req EXCEPT ![r].pc = "send", ![r].tok = t, ![r].fresh = TRUE]
      PROVE  OdooInv' /\ OneOperation
  <2> DEFINE n == [req[r] EXCEPT !.pc = "send", !.tok = t, !.fresh = TRUE]
  <2>1. req' = [req EXCEPT ![r] = n]
    BY <1>2 DEF OdooInv, AddonTypeOK
  <2>2. n \in RequestType /\ Begun(req[r], n)
    BY DEF Begun, RequestType
  <2> HIDE DEF n
  <2> QED BY <1>1, <1>2, <2>1, <2>2
<1>3. ASSUME req[r].pc = "send", UNCHANGED <<agentVars, odooVars>>,
             req' = [req EXCEPT ![r].pc = "verify", ![r].retried = TRUE]
      PROVE  OdooInv' /\ OneOperation
  <2> DEFINE n == [req[r] EXCEPT !.pc = "verify", !.retried = TRUE]
  <2>1. req' = [req EXCEPT ![r] = n]
    BY <1>3 DEF OdooInv, AddonTypeOK
  <2>2. n \in RequestType /\ Begun(req[r], n)
    BY DEF Begun, RequestType
  <2> HIDE DEF n
  <2> QED BY <1>1, <1>3, <2>1, <2>2
<1>4. CASE Login(r)
  BY <1>2, <1>4, RefuseKeeps DEF Login, LoginGranted
<1>5. CASE LoginUnsaved(r)
  BY <1>5, RefuseKeeps DEF LoginUnsaved
<1>6. CASE Unauthorized(r)
  BY <1>3, <1>6, RefuseKeeps DEF Unauthorized
<1> QED BY <1>4, <1>5, <1>6

LEMMA CallFailsKeeps ==
    ASSUME OdooInv, NEW r \in Requests, CallFails(r)
    PROVE  OdooInv' /\ OneOperation
  BY RefuseKeeps DEF CallFails

LEMMA ReadStatusKeeps ==
    ASSUME OdooInv, NEW r \in Requests, ReadStatus(r)
    PROVE  OdooInv' /\ OneOperation
<1> USE OneRequestOK
<1> DEFINE rec == [req[r] EXCEPT !.stage = "refresh"]
<1>1. /\ rec \in RequestType /\ rec.stage = "refresh" /\ rec.op = req[r].op
      /\ rec.row = req[r].row /\ rec.offer = req[r].offer /\ rec.act = req[r].act
      /\ rec.rowStale = req[r].rowStale
  BY DEF RequestType
<1> HIDE DEF rec
<1>2. req[r].pc = "ok" /\ req[r].op \in {"approve", "settle"}
  BY DEF ReadStatus
<1>3. ASSUME NEW n, Begun(rec, n)
      PROVE  RequestOK(n, deals, actions) /\ Successor(req[r], n)
  BY <1>1, <1>2, <1>3 DEF RequestOK, Begun, Successor
<1>4. GetClient(r, rec, {}) /\ UNCHANGED <<agentVars, odooVars>>
  BY DEF ReadStatus, rec
<1> QED BY <1>1, <1>3, <1>4, BeginKeeps

LEMMA BeginRowOpKeeps ==
    ASSUME OdooInv, NEW r \in Requests, NEW op \in {"refresh", "relink"}, NEW d \in DOMAIN deals,
           BeginRowOp(r, op, d), UNCHANGED agentVars
    PROVE  OdooInv' /\ OneOperation
<1> DEFINE rec == [Idle EXCEPT !.op = op, !.row = d]
<1>1. d \in Nat
  BY DEF OdooInv, AddonTypeOK
<1>2. op \in AllOps
  BY DEF AllOps, RowOps
<1>3. GetClient(r, rec, {}) /\ UNCHANGED odooVars
  BY DEF BeginRowOp
<1>4. /\ rec \in RequestType /\ rec.op = op /\ rec.row = d
      /\ rec.stage = "main" /\ rec.rowStale = FALSE
  BY <1>1, <1>2 DEF Idle, RequestType
<1> HIDE DEF rec
<1>5. ASSUME NEW n, Begun(rec, n)
      PROVE  RequestOK(n, deals, actions) /\ Successor(req[r], n)
  BY <1>4, <1>5 DEF RequestOK, Begun, Successor, ChainOps, OfferOps, QueueOps
<1> QED BY <1>3, <1>4, <1>5, BeginKeeps

LEMMA BeginOfferOpKeeps ==
    ASSUME OdooInv, NEW r \in Requests, NEW op \in OfferOps, NEW o \in Offers,
           BeginOfferOp(r, op, o), UNCHANGED agentVars
    PROVE  OdooInv' /\ OneOperation
<1> DEFINE rec == [Idle EXCEPT !.op = op, !.offer = o]
<1>1. op \in AllOps
  BY DEF AllOps
<1>2. GetClient(r, rec, {}) /\ UNCHANGED odooVars
  BY DEF BeginOfferOp
<1>3. rec \in RequestType /\ rec.op = op /\ rec.offer = o /\ rec.stage = "main"
  BY <1>1 DEF Idle, RequestType
<1> HIDE DEF rec
<1>4. ASSUME NEW n, Begun(rec, n)
      PROVE  RequestOK(n, deals, actions) /\ Successor(req[r], n)
  BY <1>3, <1>4, NoneIsNobody DEF RequestOK, Begun, Successor, ChainOps, RowOps, OfferOps, QueueOps
<1> QED BY <1>2, <1>3, <1>4, BeginKeeps

LEMMA BeginOtherKeeps ==
    ASSUME OdooInv, NEW r \in Requests, NEW op \in {"propose", "sync"}, BeginOther(r, op),
           UNCHANGED agentVars
    PROVE  OdooInv' /\ OneOperation
<1> DEFINE rec == [Idle EXCEPT !.op = op]
<1>1. op \in AllOps
  BY DEF AllOps
<1>2. GetClient(r, rec, {}) /\ UNCHANGED odooVars
  BY DEF BeginOther
<1>3. rec \in RequestType /\ rec.op = op /\ rec.stage = "main"
  BY <1>1 DEF Idle, RequestType
<1> HIDE DEF rec
<1>4. ASSUME NEW n, Begun(rec, n)
      PROVE  RequestOK(n, deals, actions) /\ Successor(req[r], n)
  BY <1>3, <1>4 DEF RequestOK, Begun, Successor, ChainOps, RowOps, OfferOps, QueueOps
<1> QED BY <1>2, <1>3, <1>4, BeginKeeps

\* The flag keeps the others off: whoever was at work on the row is stale.
LEMMA BeginChainOpKeeps ==
    ASSUME OdooInv, NEW r \in Requests, ~ InProgress(r), NEW op \in ChainOps,
           NEW d \in DOMAIN deals, BeginChainOp(r, op, d), UNCHANGED agentVars
    PROVE  OdooInv' /\ OneOperation
<1> DEFINE rec == [Idle EXCEPT !.op = op, !.row = d, !.act = deals[d].pending]
<1>1. d \in Nat /\ deals[d] \in RowType /\ deals[d].pending \in Nat
  <2>1. d \in Nat /\ deals[d] \in RowType
    BY DEF OdooInv, AddonTypeOK
  <2> QED BY <2>1 DEF RowType
<1>2. op \in AllOps
  BY DEF AllOps, RowOps
<1>3. GetClient(r, rec, {d})
  BY DEF BeginChainOp
<1>4. /\ rec \in RequestType /\ rec.op = op /\ rec.row = d /\ rec.act = deals[d].pending
      /\ rec.stage = "main" /\ rec.rowStale = FALSE
  BY <1>1, <1>2 DEF Idle, RequestType
<1> HIDE DEF rec
<1>5. /\ Begun(rec, req'[r]) /\ Beside(r, req'[r])
      /\ \A q \in Requests : q # r /\ req[q].op \in RowOps /\ req[q].row \in {d} => req'[q].rowStale
  BY <1>3, <1>4, GetClientFields
<1>6. /\ deals' = [deals EXCEPT ![d].submitting = TRUE]
      /\ ~ deals[d].submitting
      /\ op \in {"approve", "reject"} => deals[d].pending # 0
  BY DEF BeginChainOp
<1>7. deals' = [deals EXCEPT ![d] = [deals[d] EXCEPT !.submitting = TRUE]]
  BY <1>6
<1> DEFINE row == [deals[d] EXCEPT !.submitting = TRUE]
<1>8. /\ row \in RowType /\ row.submitting = TRUE /\ row.pending = deals[d].pending
      /\ row.act = deals[d].act /\ row.offer = deals[d].offer
      /\ row.address = deals[d].address /\ row.how = deals[d].how
  BY <1>1 DEF RowType
<1>9. RowOK(row, actions)
  BY <1>8 DEF OdooInv, RowOK
<1>10. deals' = [deals EXCEPT ![d] = row]
  BY <1>7
<1> HIDE DEF row
<1>11. deals \in Seq(RowType)
  BY DEF OdooInv, AddonTypeOK
<1>12. /\ deals' \in Seq(RowType) /\ DOMAIN deals' = DOMAIN deals /\ deals'[d] = row
       /\ \A e \in DOMAIN deals : e # d => deals'[e] = deals[e]
  BY <1>8, <1>10, <1>11
<1>13. AddonTypeOK'
  BY <1>5, <1>12 DEF OdooInv, AddonTypeOK, agentVars, BeginChainOp, Beside
<1>14. \A e \in DOMAIN deals' : RowOK(deals'[e], actions')
  BY <1>9, <1>12 DEF OdooInv, agentVars
<1>15. RequestOK(req'[r], deals', actions)
  <2>1. op \in {"approve", "reject"} => deals[d].pending \in DOMAIN actions
    BY <1>6 DEF OdooInv, RowOK
  <2> QED BY <1>4, <1>5, <1>8, <1>12, <2>1
          DEF RequestOK, Begun, ChainOps, RowOps, OfferOps, QueueOps
<1>16. ASSUME NEW q \in Requests, q # r
       PROVE  /\ RequestOK(req'[q], deals', actions)
              /\ Successor(req[q], req'[q])
              /\ req[q].op \in ChainOps /\ req[q].row = d => req[q].rowStale
  <2>1. RequestOK(req[q], deals, actions) /\ req[q] \in RequestType
    BY OneRequestOK
  <2>2. Carries(req[q], req'[q]) /\ req'[q] \in RequestType
    BY <1>5, <1>16 DEF Beside
  <2>3. RequestOK(req'[q], deals, actions) /\ Successor(req[q], req'[q])
    BY <2>1, <2>2, RequestCarries DEF RequestType
  <2>4. req[q].op \in ChainOps /\ req[q].row = d => req[q].rowStale
    BY <1>6, <2>1 DEF RequestOK
  <2>5. RowsHeld(req'[q], deals, deals')
    BY <1>12, <2>2, <2>3, <2>4 DEF RowsHeld, Carries, RequestOK, RowOps
  <2> QED BY <2>3, <2>4, <2>5, RequestKeeps, EvolvesItself
<1>17. \A p, q \in Requests : p # q => Apart(req'[p], req'[q])
  <2>1. req'[r].row = d
    BY <1>4, <1>5 DEF Begun
  <2>2. ASSUME NEW q \in Requests, q # r PROVE Apart(req'[q], req'[r]) /\ Apart(req'[r], req'[q])
    <3>1. Carries(req[q], req'[q])
      BY <1>5, <2>2 DEF Beside
    <3> QED BY <1>16, <2>1, <2>2, <3>1 DEF Apart, Carries
  <2>3. ASSUME NEW p \in Requests, NEW q \in Requests, p # q, p # r, q # r
        PROVE  Apart(req'[p], req'[q])
    BY <1>16, <2>3, ApartKeeps DEF OdooInv
  <2> QED BY <2>2, <2>3
<1>18. OneOperation
  <2>1. ASSUME NEW q \in Requests, NEW s \in Requests, q # s,
               req[s].op \notin ChainOps, req'[s].op \in ChainOps, req[q].op \in ChainOps,
               req[q].row = req'[s].row
        PROVE  req[q].rowStale
    <3>1. s = r
      BY <1>16, <2>1 DEF Successor
    <3>2. req'[r].row = d
      BY <1>4, <1>5 DEF Begun
    <3> QED BY <1>16, <2>1, <3>1, <3>2
  <2> QED BY <2>1 DEF OneOperation
<1>19. /\ \A a \in running' : actions'[a].status = "submitted_pending"
       /\ actions' = actions
  BY DEF OdooInv, agentVars
<1> QED BY <1>13, <1>14, <1>15, <1>16, <1>17, <1>18, <1>19 DEF OdooInv

LEMMA ClickKeeps ==
    ASSUME OdooInv, NEW r \in Requests, Click(r)
    PROVE  OdooInv' /\ OneOperation
<1>1. ~ InProgress(r) /\ UNCHANGED agentVars
  BY DEF Click
<1>2. ASSUME NEW op \in ChainOps, NEW d \in DOMAIN deals, BeginChainOp(r, op, d)
      PROVE  OdooInv' /\ OneOperation
  BY <1>1, <1>2, BeginChainOpKeeps
<1>3. ASSUME NEW op \in {"refresh", "relink"}, NEW d \in DOMAIN deals, BeginRowOp(r, op, d)
      PROVE  OdooInv' /\ OneOperation
  BY <1>1, <1>3, BeginRowOpKeeps
<1>4. ASSUME NEW op \in OfferOps, NEW o \in Offers, BeginOfferOp(r, op, o)
      PROVE  OdooInv' /\ OneOperation
  BY <1>1, <1>4, BeginOfferOpKeeps
<1>5. ASSUME NEW op \in {"propose", "sync"}, BeginOther(r, op)
      PROVE  OdooInv' /\ OneOperation
  BY <1>1, <1>5, BeginOtherKeeps
<1> QED BY <1>2, <1>3, <1>4, <1>5 DEF Click, OfferOps

(***************************************************************************)
(* The steps of the agent                                                  *)
(***************************************************************************)

Statuses == {"awaiting_approval", "submitted_pending", "confirmed", "failed", "rejected"}

LEMMA SetActionFields ==
    ASSUME AddonTypeOK, NEW a \in DOMAIN actions, NEW s \in Statuses,
           actions[a].status \notin FinalStatuses, SetAction(a, s)
    PROVE  /\ actions' \in Seq(ActionType)
           /\ DOMAIN actions' = DOMAIN actions
           /\ actions'[a].status = s
           /\ \A b \in DOMAIN actions : b # a => actions'[b] = actions[b]
           /\ Evolves(actions, actions')
<1>1. actions \in Seq(ActionType) /\ actions[a] \in ActionType
  BY DEF AddonTypeOK
<1> DEFINE new == [actions[a] EXCEPT !.status = s]
<1>2. new \in ActionType /\ new.status = s
  BY <1>1 DEF ActionType, Statuses
<1>3. actions' = [actions EXCEPT ![a] = new]
  BY DEF SetAction
<1> HIDE DEF new
<1>4. /\ actions' \in Seq(ActionType)
      /\ DOMAIN actions' = DOMAIN actions
      /\ actions'[a] = new
      /\ \A b \in DOMAIN actions : b # a => actions'[b] = actions[b]
  BY <1>1, <1>2, <1>3
<1> QED BY <1>2, <1>4 DEF Evolves

LEMMA CreateFields ==
    ASSUME AddonTypeOK, NEW o \in Offers \cup {None}, createPendingAction(o)
    PROVE  /\ actions' \in Seq(ActionType)
           /\ Len(actions) + 1 \in DOMAIN actions'
           /\ Len(actions) + 1 \in Nat
           /\ DOMAIN actions \subseteq DOMAIN actions'
           /\ \A b \in DOMAIN actions : actions'[b] = actions[b]
           /\ Evolves(actions, actions')
<1>1. actions \in Seq(ActionType)
  BY DEF AddonTypeOK
<1> DEFINE new == [offer |-> o, status |-> "awaiting_approval"]
<1>2. new \in ActionType
  BY DEF ActionType
<1>3. actions' = Append(actions, new)
  BY DEF createPendingAction
<1> HIDE DEF new
<1>4. /\ actions' \in Seq(ActionType)
      /\ Len(actions) + 1 \in DOMAIN actions'
      /\ Len(actions) + 1 \in Nat
      /\ DOMAIN actions \subseteq DOMAIN actions'
      /\ \A b \in DOMAIN actions : actions'[b] = actions[b]
  BY <1>1, <1>2, <1>3
<1> QED BY <1>4 DEF Evolves

\* What is left to show of a step of the agent that answers r with the record n.
LEMMA AnswerKeeps ==
    ASSUME OdooInv, NEW r \in Requests, NEW n \in RequestType,
           req' = [req EXCEPT ![r] = n], UNCHANGED odooVars,
           actions' \in Seq(ActionType), Evolves(actions, actions'),
           running' \subseteq DOMAIN actions',
           \A a \in running' : actions'[a].status = "submitted_pending",
           offers' \in [Offers -> {"none", "pending", "used", "dismissed"}],
           RequestOK(n, deals, actions'), Successor(req[r], n)
    PROVE  OdooInv' /\ OneOperation
<1>1. AddonTypeOK'
  BY DEF OdooInv, AddonTypeOK, odooVars
<1>2. \A d \in DOMAIN deals' : RowOK(deals'[d], actions')
  BY RowKeeps DEF OdooInv, odooVars
<1>3. ASSUME NEW q \in Requests
      PROVE  RequestOK(req'[q], deals', actions') /\ Successor(req[q], req'[q])
  <2>1. CASE q = r
    BY <2>1 DEF OdooInv, AddonTypeOK, odooVars
  <2>2. CASE q # r
    <3>1. req'[q] = req[q]
      BY <2>2 DEF OdooInv, AddonTypeOK
    <3>2. RowsHeld(req[q], deals, deals') /\ RequestOK(req[q], deals, actions)
      BY DEF RowsHeld, odooVars, OdooInv
    <3> QED BY <3>1, <3>2, RequestKeeps DEF Successor
  <2> QED BY <2>1, <2>2
<1> QED BY <1>1, <1>2, <1>3, StepKeeps

\* The agent's answer to a request that is not about a status.
LEMMA HandleProposeKeeps ==
    ASSUME OdooInv, NEW r \in Requests, req[r].pc = "send", req[r].op = "propose",
           HandlePropose(r), UNCHANGED odooVars
    PROVE  OdooInv' /\ OneOperation
<1> DEFINE m == Answered(req[r], "ok")
           n == [m EXCEPT !.act = Len(actions) + 1]
<1>1. /\ actions' \in Seq(ActionType) /\ Len(actions) + 1 \in DOMAIN actions'
      /\ Len(actions) + 1 \in Nat /\ DOMAIN actions \subseteq DOMAIN actions'
      /\ \A b \in DOMAIN actions : actions'[b] = actions[b]
      /\ Evolves(actions, actions')
  BY CreateFields DEF HandlePropose, OdooInv
<1>2. m \in RequestType /\ m.pc = "ok" /\ m.op = req[r].op /\ m.stage = req[r].stage
  BY AnsweredFields, OneRequestOK
<1>3. req' = [req EXCEPT ![r] = n] /\ UNCHANGED <<running, offers>>
  BY DEF HandlePropose
<1> HIDE DEF m
<1>4. /\ n \in RequestType /\ n.pc = "ok" /\ n.op = req[r].op /\ n.stage = req[r].stage
      /\ n.act = Len(actions) + 1
  BY <1>1, <1>2 DEF RequestType
<1> HIDE DEF n
<1>5. RequestOK(n, deals, actions') /\ Successor(req[r], n)
  BY <1>1, <1>4, OneRequestOK
     DEF RequestOK, Successor, ChainOps, RowOps, OfferOps, QueueOps
<1>6. /\ running' \subseteq DOMAIN actions'
      /\ \A a \in running' : actions'[a].status = "submitted_pending"
      /\ offers' \in [Offers -> {"none", "pending", "used", "dismissed"}]
  BY <1>1, <1>3 DEF OdooInv, AddonTypeOK
<1> QED BY <1>1, <1>3, <1>4, <1>5, <1>6, AnswerKeeps

LEMMA HandleLockKeeps ==
    ASSUME OdooInv, NEW r \in Requests, req[r].pc = "send", req[r].op \in {"lock", "accept"},
           HandleLock(r), UNCHANGED odooVars
    PROVE  OdooInv' /\ OneOperation
<1>1. CASE Refuse(r) /\ UNCHANGED agentVars
  BY <1>1, RefuseKeeps
<1>2. CASE ~ (Refuse(r) /\ UNCHANGED agentVars)
  <2> DEFINE m == Answered(req[r], "ok")
             n == [m EXCEPT !.act = Len(actions) + 1]
  <2>1. /\ createPendingAction(req[r].offer)
        /\ offers' = IF req[r].op = "accept" THEN [offers EXCEPT ![req[r].offer] = "used"]
                                             ELSE offers
        /\ req' = [req EXCEPT ![r] = n] /\ UNCHANGED running
    BY <1>2 DEF HandleLock
  <2>2. req[r].offer \in Offers \cup {None} /\ req[r].offer # None
    BY OneRequestOK DEF RequestType, RequestOK, OfferOps
  <2>3. /\ actions' \in Seq(ActionType) /\ Len(actions) + 1 \in DOMAIN actions'
        /\ Len(actions) + 1 \in Nat /\ DOMAIN actions \subseteq DOMAIN actions'
        /\ \A b \in DOMAIN actions : actions'[b] = actions[b]
        /\ Evolves(actions, actions')
    BY <2>1, <2>2, CreateFields DEF OdooInv
  <2>4. /\ m \in RequestType /\ m.pc = "ok" /\ m.op = req[r].op /\ m.stage = req[r].stage
        /\ m.offer = req[r].offer
    BY AnsweredFields, OneRequestOK
  <2> HIDE DEF m
  <2>5. /\ n \in RequestType /\ n.pc = "ok" /\ n.op = req[r].op /\ n.stage = req[r].stage
        /\ n.act = Len(actions) + 1 /\ n.offer = req[r].offer
    BY <2>3, <2>4 DEF RequestType
  <2> HIDE DEF n
  <2>6. RequestOK(n, deals, actions') /\ Successor(req[r], n)
    BY <2>2, <2>3, <2>5, OneRequestOK
       DEF RequestOK, Successor, ChainOps, RowOps, OfferOps, QueueOps
  <2>7. /\ running' \subseteq DOMAIN actions'
        /\ \A a \in running' : actions'[a].status = "submitted_pending"
    BY <2>1, <2>3 DEF OdooInv, AddonTypeOK
  <2>8. offers' \in [Offers -> {"none", "pending", "used", "dismissed"}]
    BY <2>1 DEF OdooInv, AddonTypeOK
  <2> QED BY <2>1, <2>3, <2>5, <2>6, <2>7, <2>8, AnswerKeeps
<1> QED BY <1>1, <1>2

LEMMA AnsweredKeeps ==
    ASSUME OdooInv, NEW r \in Requests, NEW pc \in {"ok", "waiting"}, NEW as,
           Evolves(actions, as), req[r].pc = "send",
           pc = "ok" /\ req[r].op = "approve" => as[req[r].act].status = "confirmed",
           pc = "ok" /\ req[r].op = "reject" => as[req[r].act].status = "rejected",
           pc = "ok" => req[r].op \notin QueueOps
    PROVE  /\ Answered(req[r], pc) \in RequestType
           /\ RequestOK(Answered(req[r], pc), deals, as)
           /\ Successor(req[r], Answered(req[r], pc))
<1> DEFINE n == Answered(req[r], pc)
<1>1. /\ n \in RequestType /\ n.pc = pc /\ n.op = req[r].op /\ n.stage = req[r].stage
      /\ n.row = req[r].row /\ n.offer = req[r].offer /\ n.act = req[r].act
      /\ n.rowStale = req[r].rowStale
  BY AnsweredFields, OneRequestOK
<1> HIDE DEF n
<1>2. RequestOK(req[r], deals, as)
  BY OneRequestOK, RequestKeeps DEF RowsHeld
<1>3. RequestOK(n, deals, as) /\ Successor(req[r], n)
  BY <1>1, <1>2 DEF RequestOK, Successor
<1> QED BY <1>1, <1>3 DEF n

LEMMA HandleDismissKeeps ==
    ASSUME OdooInv, NEW r \in Requests, req[r].pc = "send", req[r].op = "dismiss",
           HandleDismiss(r), UNCHANGED odooVars
    PROVE  OdooInv' /\ OneOperation
<1>1. CASE Refuse(r) /\ UNCHANGED agentVars
  BY <1>1, RefuseKeeps
<1>2. CASE ~ (Refuse(r) /\ UNCHANGED agentVars)
  <2> DEFINE inFlight == findInFlightAction(req[r].offer)
             ended(a) == [actions[a] EXCEPT !.status = "rejected"]
  <2>1. /\ \A a \in inFlight : actions[a].status = "awaiting_approval"
        /\ actions' = [a \in DOMAIN actions |-> IF a \in inFlight THEN ended(a) ELSE actions[a]]
        /\ offers' = [offers EXCEPT ![req[r].offer] = "dismissed"]
        /\ Goto(r, "ok") /\ UNCHANGED running
    BY <1>2 DEF HandleDismiss
  <2>2. /\ actions \in Seq(ActionType) /\ DOMAIN actions = 1..Len(actions) /\ Len(actions) \in Nat
        /\ \A a \in DOMAIN actions : actions[a] \in ActionType
    BY DEF OdooInv, AddonTypeOK
  <2>3. \A a \in DOMAIN actions : ended(a) \in ActionType /\ ended(a).status = "rejected"
    BY <2>2 DEF ActionType
  <2> HIDE DEF inFlight, ended
  <2>4. actions' \in [1..Len(actions) -> ActionType] /\ DOMAIN actions' = DOMAIN actions
    BY <2>1, <2>2, <2>3
  <2>5. actions' \in Seq(ActionType)
    BY <2>2, <2>4, SeqDef
  <2>6. \A a \in DOMAIN actions :
           \/ actions'[a] = actions[a]
           \/ actions[a].status = "awaiting_approval"
    BY <2>1, <2>2
  <2>7. Evolves(actions, actions')
    BY <2>4, <2>6 DEF Evolves, FinalStatuses
  <2>8. /\ running' \subseteq DOMAIN actions'
        /\ \A a \in running' : actions'[a].status = "submitted_pending"
    BY <2>1, <2>4, <2>6 DEF OdooInv, AddonTypeOK
  <2>9. offers' \in [Offers -> {"none", "pending", "used", "dismissed"}]
    BY <2>1 DEF OdooInv, AddonTypeOK
  <2> QED BY <2>1, <2>5, <2>7, <2>8, <2>9, AnsweredKeeps, AnswerKeeps DEF Goto, QueueOps
<1> QED BY <1>1, <1>2

LEMMA HandleApproveKeeps ==
    ASSUME OdooInv, NEW r \in Requests, req[r].pc = "send", req[r].op = "approve",
           HandleApprove(r), UNCHANGED odooVars
    PROVE  OdooInv' /\ OneOperation
<1>1. CASE Refuse(r) /\ UNCHANGED agentVars
  BY <1>1, RefuseKeeps
<1>2. CASE ~ (Refuse(r) /\ UNCHANGED agentVars)
  <2> DEFINE a == req[r].act
  <2>1. /\ actions[a].status = "awaiting_approval"
        /\ SetAction(a, "submitted_pending") /\ running' = running \cup {a}
        /\ Goto(r, "waiting") /\ UNCHANGED offers
    BY <1>2 DEF HandleApprove
  <2>2. a \in DOMAIN actions
    BY OneRequestOK DEF RequestOK
  <2> HIDE DEF a
  <2>3. /\ actions' \in Seq(ActionType) /\ DOMAIN actions' = DOMAIN actions
        /\ actions'[a].status = "submitted_pending"
        /\ \A b \in DOMAIN actions : b # a => actions'[b] = actions[b]
        /\ Evolves(actions, actions')
    BY <2>1, <2>2, SetActionFields DEF OdooInv, Statuses, FinalStatuses
  <2>4. /\ running' \subseteq DOMAIN actions'
        /\ \A b \in running' : actions'[b].status = "submitted_pending"
    BY <2>1, <2>2, <2>3 DEF OdooInv, AddonTypeOK
  <2>5. offers' \in [Offers -> {"none", "pending", "used", "dismissed"}]
    BY <2>1 DEF OdooInv, AddonTypeOK
  <2> QED BY <2>1, <2>3, <2>4, <2>5, AnsweredKeeps, AnswerKeeps DEF Goto
<1> QED BY <1>1, <1>2

LEMMA HandleRejectKeeps ==
    ASSUME OdooInv, NEW r \in Requests, req[r].pc = "send", req[r].op = "reject",
           HandleReject(r), UNCHANGED odooVars
    PROVE  OdooInv' /\ OneOperation
<1>1. CASE Refuse(r) /\ UNCHANGED agentVars
  BY <1>1, RefuseKeeps
<1>2. CASE ~ (Refuse(r) /\ UNCHANGED agentVars)
  <2>1. /\ actions[req[r].act].status = "awaiting_approval"
        /\ SetAction(req[r].act, "rejected")
        /\ Goto(r, "ok") /\ UNCHANGED <<running, offers>>
    BY <1>2 DEF HandleReject
  <2>2. req[r].act \in DOMAIN actions
    BY OneRequestOK DEF RequestOK
  <2>3. /\ actions' \in Seq(ActionType) /\ DOMAIN actions' = DOMAIN actions
        /\ actions'[req[r].act].status = "rejected"
        /\ \A b \in DOMAIN actions : b # req[r].act => actions'[b] = actions[b]
        /\ Evolves(actions, actions')
    BY <2>1, <2>2, SetActionFields DEF OdooInv, Statuses, FinalStatuses
  <2>4. /\ running' \subseteq DOMAIN actions'
        /\ \A b \in running' : actions'[b].status = "submitted_pending"
    BY <2>1, <2>2, <2>3 DEF OdooInv, AddonTypeOK
  <2>5. offers' \in [Offers -> {"none", "pending", "used", "dismissed"}]
    BY <2>1 DEF OdooInv, AddonTypeOK
  <2> QED BY <2>1, <2>3, <2>4, <2>5, AnsweredKeeps, AnswerKeeps DEF Goto, QueueOps
<1> QED BY <1>1, <1>2

LEMMA HandleKeeps ==
    ASSUME OdooInv, NEW r \in Requests, Handle(r)
    PROVE  OdooInv' /\ OneOperation
<1>1. /\ req[r].pc = "send" /\ UNCHANGED odooVars
      /\ req[r].op \in AllOps
  BY OneRequestOK DEF Handle, RequestOK, RequestType
<1>2. CASE req[r].stage = "refresh" \/ req[r].op \in {"refresh", "relink", "settle"}
  <2>1. (Goto(r, "ok") \/ Refuse(r)) /\ UNCHANGED agentVars
    BY <1>2 DEF Handle
  <2>2. CASE Refuse(r)
    BY <1>1, <2>1, <2>2, RefuseKeeps
  <2>3. CASE Goto(r, "ok")
    <3> DEFINE n == Answered(req[r], "ok")
    <3>1. /\ n \in RequestType /\ n.pc = "ok" /\ n.op = req[r].op /\ n.stage = req[r].stage
          /\ n.row = req[r].row /\ n.offer = req[r].offer /\ n.act = req[r].act
          /\ n.rowStale = req[r].rowStale
      BY AnsweredFields, OneRequestOK
    <3>2. req' = [req EXCEPT ![r] = n]
      BY <2>3 DEF Goto
    <3> HIDE DEF n
    <3>3. RequestOK(n, deals, actions) /\ Successor(req[r], n)
      BY <1>1, <1>2, <3>1, OneRequestOK DEF RequestOK, Successor, QueueOps
    <3> QED BY <1>1, <2>1, <3>1, <3>2, <3>3, OnlyRequest
  <2> QED BY <2>1, <2>2, <2>3
<1>3. CASE ~ (req[r].stage = "refresh" \/ req[r].op \in {"refresh", "relink", "settle"})
  <2>1. CASE req[r].op = "propose"
    BY <1>1, <1>3, <2>1, HandleProposeKeeps DEF Handle
  <2>2. CASE req[r].op \in {"lock", "accept"}
    BY <1>1, <1>3, <2>2, HandleLockKeeps DEF Handle
  <2>3. CASE req[r].op = "dismiss"
    BY <1>1, <1>3, <2>3, HandleDismissKeeps DEF Handle
  <2>4. CASE req[r].op = "approve"
    BY <1>1, <1>3, <2>4, HandleApproveKeeps DEF Handle
  <2>5. CASE req[r].op = "reject"
    BY <1>1, <1>3, <2>5, HandleRejectKeeps DEF Handle
  <2>6. CASE req[r].op = "sync"
    <3> DEFINE m == Answered(req[r], "ok")
               n == [m EXCEPT !.seen = offers]
    <3>1. req' = [req EXCEPT ![r] = n] /\ UNCHANGED agentVars
      BY <1>3, <2>6 DEF Handle
    <3>2. m \in RequestType /\ m.pc = "ok" /\ m.op = req[r].op /\ m.stage = req[r].stage
      BY AnsweredFields, OneRequestOK
    <3>3. offers \in [Offers -> {"none", "pending", "used", "dismissed"}]
      BY DEF OdooInv, AddonTypeOK
    <3> HIDE DEF m
    <3>4. n \in RequestType /\ n.pc = "ok" /\ n.op = req[r].op /\ n.stage = req[r].stage
      BY <3>2, <3>3 DEF RequestType
    <3> HIDE DEF n
    <3>5. RequestOK(n, deals, actions) /\ Successor(req[r], n)
      BY <1>1, <2>6, <3>4, OneRequestOK
         DEF RequestOK, Successor, ChainOps, RowOps, OfferOps, QueueOps
    <3> QED BY <1>1, <3>1, <3>4, <3>5, OnlyRequest
  <2> QED BY <1>1, <1>3, <2>1, <2>2, <2>3, <2>4, <2>5, <2>6
          DEF AllOps, RowOps, ChainOps, OfferOps
<1> QED BY <1>2, <1>3

\* A step of the agent that answers some of those who wait.
LEMMA AnswerAllKeeps ==
    ASSUME OdooInv, req' \in [Requests -> RequestType], UNCHANGED odooVars,
           actions' \in Seq(ActionType), Evolves(actions, actions'),
           running' \subseteq DOMAIN actions', UNCHANGED offers,
           \A a \in running' : actions'[a].status = "submitted_pending",
           \A q \in Requests : RequestOK(req'[q], deals, actions') /\ Successor(req[q], req'[q])
    PROVE  OdooInv' /\ OneOperation
<1>1. AddonTypeOK'
  BY DEF OdooInv, AddonTypeOK, odooVars
<1>2. \A d \in DOMAIN deals' : RowOK(deals'[d], actions')
  BY RowKeeps DEF OdooInv, odooVars
<1> QED BY <1>1, <1>2, StepKeeps DEF odooVars

LEMMA ApproveEndsKeeps ==
    ASSUME OdooInv, NEW a \in running, ApproveEnds(a)
    PROVE  OdooInv' /\ OneOperation
<1>1. PICK s \in {"confirmed", "failed"} :
        /\ SetAction(a, s)
        /\ req' = [r \in Requests |->
                     IF req[r].pc = "waiting" /\ req[r].op = "approve" /\ req[r].act = a
                     THEN IF s = "confirmed" THEN Answered(req[r], "ok") ELSE Refused(req[r])
                     ELSE req[r]]
  BY DEF ApproveEnds
<1>2. running' = running \ {a} /\ UNCHANGED offers /\ UNCHANGED odooVars
  BY DEF ApproveEnds
<1>3. a \in DOMAIN actions /\ actions[a].status = "submitted_pending"
  BY DEF OdooInv, AddonTypeOK
<1>4. /\ actions' \in Seq(ActionType) /\ DOMAIN actions' = DOMAIN actions
      /\ actions'[a].status = s
      /\ \A b \in DOMAIN actions : b # a => actions'[b] = actions[b]
      /\ Evolves(actions, actions')
  BY <1>1, <1>3, SetActionFields DEF OdooInv, Statuses, FinalStatuses
<1>5. /\ running' \subseteq DOMAIN actions'
      /\ \A b \in running' : actions'[b].status = "submitted_pending"
  BY <1>2, <1>4 DEF OdooInv, AddonTypeOK
<1>6. ASSUME NEW q \in Requests
      PROVE  /\ req'[q] \in RequestType
             /\ RequestOK(req'[q], deals, actions')
             /\ Successor(req[q], req'[q])
  <2>1. RequestOK(req[q], deals, actions') /\ req[q] \in RequestType
    BY <1>4, OneRequestOK, RequestKeeps DEF RowsHeld
  <2>2. CASE ~ (req[q].pc = "waiting" /\ req[q].op = "approve" /\ req[q].act = a)
    BY <1>1, <2>1, <2>2 DEF Successor
  <2>3. CASE req[q].pc = "waiting" /\ req[q].op = "approve" /\ req[q].act = a /\ s = "failed"
    <3>1. req'[q] = Refused(req[q])
      BY <1>1, <2>3
    <3> QED BY <2>1, <3>1, RefusedIsFine
  <2>4. CASE req[q].pc = "waiting" /\ req[q].op = "approve" /\ req[q].act = a /\ s = "confirmed"
    <3> DEFINE n == Answered(req[q], "ok")
    <3>1. req'[q] = n
      BY <1>1, <2>4
    <3>2. /\ n \in RequestType /\ n.pc = "ok" /\ n.op = req[q].op /\ n.stage = req[q].stage
          /\ n.row = req[q].row /\ n.offer = req[q].offer /\ n.act = req[q].act
          /\ n.rowStale = req[q].rowStale
      BY <2>1, AnsweredFields
    <3> HIDE DEF n
    <3>3. RequestOK(n, deals, actions') /\ Successor(req[q], n)
      BY <1>4, <2>1, <2>4, <3>2 DEF RequestOK, Successor, QueueOps
    <3> QED BY <3>1, <3>2, <3>3
  <2> QED BY <1>1, <2>2, <2>3, <2>4
<1>7. req' \in [Requests -> RequestType]
  <2>1. req' = [q \in Requests |-> req'[q]]
    BY <1>1
  <2> QED BY <1>6, <2>1
<1> QED BY <1>2, <1>4, <1>5, <1>6, <1>7, AnswerAllKeeps

LEMMA AgentRestartsKeeps == OdooInv /\ AgentRestarts => OdooInv' /\ OneOperation
<1> SUFFICES ASSUME OdooInv, AgentRestarts PROVE OdooInv' /\ OneOperation
  OBVIOUS
<1>1. /\ running' = {} /\ UNCHANGED <<actions, offers>> /\ UNCHANGED odooVars
      /\ req' = [r \in Requests |->
                   IF req[r].pc = "waiting" THEN Refused(req[r]) ELSE req[r]]
  BY DEF AgentRestarts
<1>2. \A q \in Requests : /\ req'[q] \in RequestType
                          /\ RequestOK(req'[q], deals, actions)
                          /\ Successor(req[q], req'[q])
  BY <1>1, OneRequestOK, RefusedIsFine DEF Successor
<1>3. req' \in [Requests -> RequestType]
  <2>1. req' = [q \in Requests |-> req'[q]]
    BY <1>1
  <2> QED BY <1>2, <2>1
<1>4. actions \in Seq(ActionType)
  BY DEF OdooInv, AddonTypeOK
<1> QED BY <1>1, <1>2, <1>3, <1>4, EvolvesItself, AnswerAllKeeps

LEMMA ReceiveOfferKeeps ==
    ASSUME OdooInv, NEW o \in Offers, ReceiveOffer(o)
    PROVE  OdooInv' /\ OneOperation
<1>1. UNCHANGED <<actions, running, deals, mirror, token, req>>
  BY DEF ReceiveOffer, odooVars
<1>2. offers' \in [Offers -> {"none", "pending", "used", "dismissed"}]
  BY DEF OdooInv, AddonTypeOK, ReceiveOffer
<1>3. AddonTypeOK'
  BY <1>1, <1>2 DEF OdooInv, AddonTypeOK
<1> QED BY <1>1, <1>3, StepKeeps DEF OdooInv, Successor

(***************************************************************************)
(* The end of a request                                                    *)
(***************************************************************************)

\* The transaction of r that can still commit may write any rows that are right:
\* whoever else is at work on one of them becomes stale.
LEMMA CommitKeeps ==
    ASSUME OdooInv, NEW r \in Requests, NEW ds, NEW ms, Commit(r, ds, ms), UNCHANGED agentVars,
           ~ Conflict(r) => /\ ds \in Seq(RowType)
                            /\ DOMAIN deals \subseteq DOMAIN ds
                            /\ \A d \in DOMAIN ds : RowOK(ds[d], actions)
                            /\ ms \in [Offers -> {"none", "pending", "used", "dismissed"}]
    PROVE  OdooInv' /\ OneOperation
<1>1. CASE Conflict(r)
  <2>1. Rollback(r)
    BY <1>1 DEF Commit
  <2> QED BY <2>1, IdleIsFine, OnlyRequest DEF Rollback
<1>2. CASE ~ Conflict(r)
  <2> DEFINE written(other) == other \cup {d \in DOMAIN deals : deals[d] # ds[d]}
  <2>1. PICK other \in SUBSET ({req[r].row} \ {0}) :
          MarkOthers(r, Idle, written(other), {o \in Offers : mirror[o] # ms[o]}, req[r].fresh)
    BY <1>2 DEF Commit
  <2>2. deals' = ds /\ mirror' = ms /\ token' = IF req[r].fresh THEN req[r].tok ELSE token
    BY <1>2 DEF Commit
  <2>3. req[r].fresh \in BOOLEAN /\ req[r].tok \in Tokens \cup {None}
    BY OneRequestOK DEF RequestType
  <2>4. \A q \in Requests : req[q].pc = "idle" => req[q].op = "none"
    BY OneRequestOK DEF RequestOK
  <2> HIDE DEF written
  <2>5. /\ Beside(r, Idle)
        /\ \A q \in Requests :
             q # r /\ req[q].op \in RowOps /\ req[q].row \in written(other) => req'[q].rowStale
    BY <2>1, <2>3, <2>4, IdleIsFine, MarkOthersFields DEF OdooInv
  <2>6. AddonTypeOK'
    BY <1>2, <2>2, <2>3, <2>5 DEF OdooInv, AddonTypeOK, agentVars, Beside
  <2>7. \A d \in DOMAIN deals' : RowOK(deals'[d], actions')
    BY <1>2, <2>2 DEF agentVars
  <2>8. ASSUME NEW q \in Requests, q # r
        PROVE  RequestOK(req'[q], ds, actions)
    <3>1. Carries(req[q], req'[q]) /\ req'[q] \in RequestType
      BY <2>5, <2>8 DEF Beside
    <3>2. RequestOK(req'[q], deals, actions)
      BY <3>1, OneRequestOK, RequestCarries DEF RequestType
    <3>3. req'[q].op \in ChainOps => req'[q].row \in DOMAIN deals
      BY <3>2 DEF RequestOK, RowOps
    <3>4. req'[q].op \in ChainOps /\ ~ req'[q].rowStale => ds[req'[q].row] = deals[req'[q].row]
      BY <2>5, <2>8, <3>1, <3>3 DEF Carries, written, RowOps
    <3>5. RowsHeld(req'[q], deals, ds)
      BY <1>2, <3>4 DEF RowsHeld
    <3> QED BY <3>2, <3>5, RequestKeeps, EvolvesItself
  <2>9. \A q \in Requests : RequestOK(req'[q], ds, actions) /\ Successor(req[q], req'[q])
    BY <2>5, <2>8, IdleIsFine, BesideKeeps
  <2> QED BY <2>2, <2>6, <2>7, <2>9, StepKeeps DEF OdooInv, agentVars
<1> QED BY <1>1, <1>2

\* The deals with one row written anew.
LEMMA OneRowWritten ==
    ASSUME OdooInv, NEW d \in DOMAIN deals, NEW row \in RowType, RowOK(row, actions)
    PROVE  /\ [deals EXCEPT ![d] = row] \in Seq(RowType)
           /\ DOMAIN [deals EXCEPT ![d] = row] = DOMAIN deals
           /\ \A e \in DOMAIN deals : RowOK([deals EXCEPT ![d] = row][e], actions)
<1>1. deals \in Seq(RowType)
  BY DEF OdooInv, AddonTypeOK
<1>2. [deals EXCEPT ![d] = row] \in Seq(RowType)
  BY <1>1
<1> QED BY <1>2 DEF OdooInv

LEMMA OwnAddressIsOne ==
    ASSUME OdooInv, NEW d \in DOMAIN deals, NEW address \in OwnAddress(deals[d])
    PROVE  address \in Nat \cup Offers \cup {None} /\ address # None
<1>1. deals[d] \in RowType
  BY DEF OdooInv, AddonTypeOK
<1>2. deals[d].offer \in Offers \cup {None} /\ deals[d].act \in Nat
  BY <1>1 DEF RowType
<1> QED BY <1>2, NoneIsNobody DEF OwnAddress

\* What a request saves about its deal is right, unless it is stale.
LEMMA RowWrittenIsRight ==
    ASSUME OdooInv, NEW r \in Requests, ~ req[r].rowStale, req[r].op \in RowOps,
           \/ req[r].pc = "ok"
           \/ req[r].pc = "refused" /\ req[r].op = "relink",
           NEW row \in RowWritten(r)
    PROVE  row \in RowType /\ RowOK(row, actions)
<1> DEFINE d == req[r].row
           old == deals[d]
<1>1. d \in DOMAIN deals /\ RequestOK(req[r], deals, actions)
  BY OneRequestOK DEF RequestOK
<1>2. old \in RowType /\ RowOK(old, actions)
  BY <1>1 DEF OdooInv, AddonTypeOK
<1>3. req[r].op \in ChainOps => req[r].act = old.pending
  BY <1>1 DEF RequestOK
<1>4. req[r].op \in {"approve", "reject"} =>
        req[r].act = old.act /\ req[r].act \in DOMAIN actions
  <2>1. 0 \notin DOMAIN actions
    BY DEF OdooInv, AddonTypeOK
  <2> QED BY <1>1, <1>2, <1>3, <2>1 DEF RequestOK, RowOK, ChainOps
<1>5. req[r].act \in Nat
  BY OneRequestOK DEF RequestType
<1>6. AddressAfter(r) = IF req[r].op = "approve" /\ old.offer = None THEN req[r].act ELSE old.address
  BY DEF AddressAfter
<1>7. \A address \in OwnAddress(old) : address \in Nat \cup Offers \cup {None} /\ address # None
  BY <1>1, OwnAddressIsOne
<1> HIDE DEF d, old
<1>9. CASE req[r].op = "approve"
  <2>1. row = [old EXCEPT !.pending = 0, !.address = AddressAfter(r), !.submitting = FALSE,
                          !.how = "approve"]
    BY <1>9 DEF RowWritten, old, d
  <2>2. AddressAfter(r) \in Nat \cup Offers \cup {None} /\ AddressAfter(r) # None
    <3>1. old.offer # None => old.address # None
      BY <1>2 DEF RowOK
    <3>2. old.address \in Nat \cup Offers \cup {None}
      BY <1>2 DEF RowType
    <3> QED BY <1>5, <1>6, <1>9, <3>1, <3>2, NoneIsNobody
  <2>3. /\ row \in RowType /\ row.act = old.act /\ row.offer = old.offer /\ row.pending = 0
        /\ row.address = AddressAfter(r) /\ row.how = "approve"
    BY <1>2, <2>1, <2>2 DEF RowType
  <2>4. actions[old.act].status = "confirmed"
    BY <1>1, <1>4, <1>9 DEF RequestOK
  <2> QED BY <1>2, <2>2, <2>3, <2>4 DEF RowOK
<1>10. CASE req[r].op = "reject"
  <2>1. row = [old EXCEPT !.pending = 0, !.submitting = FALSE, !.how = "reject"]
    BY <1>10 DEF RowWritten, old, d
  <2>2. /\ row \in RowType /\ row.act = old.act /\ row.offer = old.offer /\ row.pending = 0
        /\ row.address = old.address /\ row.how = "reject"
    BY <1>2, <2>1 DEF RowType
  <2>3. actions[old.act].status = "rejected"
    BY <1>1, <1>4, <1>10 DEF RequestOK
  <2> QED BY <1>2, <2>2, <2>3 DEF RowOK
<1>11. CASE req[r].op = "settle"
  <2>1. row = [old EXCEPT !.submitting = FALSE]
    BY <1>11 DEF RowWritten, old, d
  <2>2. /\ row \in RowType /\ row.act = old.act /\ row.offer = old.offer
        /\ row.pending = old.pending /\ row.address = old.address /\ row.how = old.how
    BY <1>2, <2>1 DEF RowType
  <2> QED BY <1>2, <2>2 DEF RowOK
<1>12. CASE req[r].op = "refresh"
  <2>1. row = old
    BY <1>12 DEF RowWritten, old, d
  <2> QED BY <1>2, <2>1
<1>13. CASE req[r].op = "relink"
  <2> DEFINE relinked(address, clear) ==
               [old EXCEPT !.address = address, !.submitting = FALSE, !.how = "relink",
                           !.pending = IF clear THEN 0 ELSE @]
  <2>1. PICK address \in OwnAddress(old), clear \in BOOLEAN : row = relinked(address, clear)
    <3>1. row \in RelinkedRows(old)
      BY <1>13 DEF RowWritten, old, d
    <3>2. RelinkedRows(old) =
            {relinked(address, clear) : address \in OwnAddress(old), clear \in BOOLEAN}
      BY DEF RelinkedRows
    <3> HIDE DEF relinked
    <3> QED BY <3>1, <3>2
  <2>2. (IF clear THEN 0 ELSE old.pending) \in Nat
    BY <1>2 DEF RowType
  <2>3. /\ row \in RowType /\ row.act = old.act /\ row.offer = old.offer
        /\ row.pending = IF clear THEN 0 ELSE old.pending
        /\ row.address = address /\ row.how = "relink"
    BY <1>2, <1>7, <2>1, <2>2 DEF RowType
  <2> QED BY <1>2, <1>7, <2>3 DEF RowOK
<1> QED BY <1>9, <1>10, <1>11, <1>12, <1>13 DEF RowOps, ChainOps

LEMMA SaveRowKeeps ==
    ASSUME OdooInv, NEW r \in Requests, req[r].op \in RowOps, SaveRow(r), UNCHANGED agentVars,
           \/ req[r].pc = "ok"
           \/ req[r].pc = "refused" /\ req[r].op = "relink"
    PROVE  OdooInv' /\ OneOperation
<1>1. PICK row \in RowWritten(r) : Commit(r, [deals EXCEPT ![req[r].row] = row], mirror)
  BY DEF SaveRow
<1>2. req[r].row \in DOMAIN deals
  BY OneRequestOK DEF RequestOK
<1>3. ~ Conflict(r) => row \in RowType /\ RowOK(row, actions)
  BY RowWrittenIsRight DEF Conflict
<1>4. mirror \in [Offers -> {"none", "pending", "used", "dismissed"}]
  BY DEF OdooInv, AddonTypeOK
<1> QED BY <1>1, <1>2, <1>3, <1>4, OneRowWritten, CommitKeeps

\* A deal that is new to Odoo.
LEMMA NewDealKeeps ==
    ASSUME OdooInv, NEW r \in Requests, req[r].pc = "ok", req[r].op \in QueueOps,
           NEW o \in Offers \cup {None}, NEW ms,
           ms \in [Offers -> {"none", "pending", "used", "dismissed"}],
           Commit(r, Append(deals, NewRow(req[r].act, o, o)), ms), UNCHANGED agentVars
    PROVE  OdooInv' /\ OneOperation
<1> DEFINE row == NewRow(req[r].act, o, o)
<1>1. req[r].act \in Nat /\ req[r].act \in DOMAIN actions
  BY OneRequestOK DEF RequestType, RequestOK
<1>2. /\ row \in RowType /\ row.act = req[r].act /\ row.pending = req[r].act
      /\ row.offer = o /\ row.address = o /\ row.how = "open"
  BY <1>1 DEF NewRow, RowType
<1> HIDE DEF row
<1>3. RowOK(row, actions)
  BY <1>1, <1>2 DEF RowOK
<1>4. deals \in Seq(RowType)
  BY DEF OdooInv, AddonTypeOK
<1>5. /\ Append(deals, row) \in Seq(RowType)
      /\ DOMAIN deals \subseteq DOMAIN Append(deals, row)
      /\ \A d \in DOMAIN Append(deals, row) :
           \/ d \in DOMAIN deals /\ Append(deals, row)[d] = deals[d]
           \/ Append(deals, row)[d] = row
  BY <1>2, <1>4
<1>6. \A d \in DOMAIN Append(deals, row) : RowOK(Append(deals, row)[d], actions)
  BY <1>3, <1>5 DEF OdooInv
<1>7. Commit(r, Append(deals, row), ms)
  BY DEF row
<1> QED BY <1>5, <1>6, <1>7, CommitKeeps

\* The mirror of the offers, or nothing but the token, is written.
LEMMA MirrorKeeps ==
    ASSUME OdooInv, NEW r \in Requests, NEW ms,
           ms \in [Offers -> {"none", "pending", "used", "dismissed"}],
           Commit(r, deals, ms), UNCHANGED agentVars
    PROVE  OdooInv' /\ OneOperation
<1>1. deals \in Seq(RowType) /\ \A d \in DOMAIN deals : RowOK(deals[d], actions)
  BY DEF OdooInv, AddonTypeOK
<1> QED BY <1>1, CommitKeeps

LEMMA SucceedKeeps ==
    ASSUME OdooInv, NEW r \in Requests, Succeed(r)
    PROVE  OdooInv' /\ OneOperation
<1>1. req[r].pc = "ok" /\ UNCHANGED agentVars /\ req[r].op \in AllOps
  BY OneRequestOK DEF Succeed, RequestOK, RequestType
<1>2. mirror \in [Offers -> {"none", "pending", "used", "dismissed"}]
  BY DEF OdooInv, AddonTypeOK
<1>3. req[r].op \in OfferOps => req[r].offer \in Offers
  BY OneRequestOK DEF RequestOK, RequestType
<1>4. None \in Offers \cup {None}
  OBVIOUS
<1>5. CASE req[r].op \in RowOps
  <2>1. req[r].op \in {"approve", "reject", "settle", "refresh", "relink"}
    BY <1>5 DEF RowOps, ChainOps
  <2>2. req[r].op = "approve" => SaveRow(r)
    BY DEF Succeed, RowOps, ChainOps
  <2>3. req[r].op = "reject" => SaveRow(r)
    BY DEF Succeed, RowOps, ChainOps
  <2>4. req[r].op = "settle" => SaveRow(r)
    BY DEF Succeed, RowOps, ChainOps
  <2>5. req[r].op = "refresh" => SaveRow(r)
    BY DEF Succeed, RowOps, ChainOps
  <2>6. req[r].op = "relink" => SaveRow(r)
    BY DEF Succeed, RowOps, ChainOps
  <2> QED BY <1>1, <1>5, <2>1, <2>2, <2>3, <2>4, <2>5, <2>6, SaveRowKeeps
<1>6. CASE req[r].op = "propose"
  <2>1. Commit(r, Append(deals, NewRow(req[r].act, None, None)), mirror)
    BY <1>6 DEF Succeed, RowOps, ChainOps
  <2> QED BY <1>1, <1>2, <1>4, <1>6, <2>1, NewDealKeeps DEF QueueOps
<1>7. CASE req[r].op = "lock"
  <2>1. Commit(r, Append(deals, NewRow(req[r].act, req[r].offer, req[r].offer)), mirror)
    BY <1>7 DEF Succeed, RowOps, ChainOps, LockedRow
  <2> QED BY <1>1, <1>2, <1>3, <1>7, <2>1, NewDealKeeps DEF QueueOps, OfferOps
<1>8. CASE req[r].op = "accept"
  <2>1. Commit(r, Append(deals, NewRow(req[r].act, req[r].offer, req[r].offer)),
               [mirror EXCEPT ![req[r].offer] = "used"])
    BY <1>8 DEF Succeed, RowOps, ChainOps, LockedRow
  <2>2. [mirror EXCEPT ![req[r].offer] = "used"]
          \in [Offers -> {"none", "pending", "used", "dismissed"}]
    BY <1>2
  <2> QED BY <1>1, <1>3, <1>8, <2>1, <2>2, NewDealKeeps DEF QueueOps, OfferOps
<1>9. CASE req[r].op = "dismiss"
  <2>1. Commit(r, deals, [mirror EXCEPT ![req[r].offer] = "dismissed"])
    BY <1>9 DEF Succeed, RowOps, ChainOps
  <2>2. [mirror EXCEPT ![req[r].offer] = "dismissed"]
          \in [Offers -> {"none", "pending", "used", "dismissed"}]
    BY <1>2
  <2> QED BY <1>1, <2>1, <2>2, MirrorKeeps
<1>10. CASE req[r].op = "sync"
  <2>1. Commit(r, deals, SyncedMirror(r))
    BY <1>10 DEF Succeed, RowOps, ChainOps
  <2>2. req[r].seen \in [Offers -> {"none", "pending", "used", "dismissed"}]
    BY OneRequestOK DEF RequestType
  <2>3. SyncedMirror(r) \in [Offers -> {"none", "pending", "used", "dismissed"}]
    BY <1>2, <2>2 DEF SyncedMirror
  <2> QED BY <1>1, <2>1, <2>3, MirrorKeeps
<1> QED BY <1>1, <1>5, <1>6, <1>7, <1>8, <1>9, <1>10 DEF AllOps, OfferOps

LEMMA FailKeeps ==
    ASSUME OdooInv, NEW r \in Requests, Fail(r)
    PROVE  OdooInv' /\ OneOperation
<1>1. req[r].pc = "refused" /\ UNCHANGED agentVars /\ Catches(req[r])
  BY OneRequestOK DEF Fail, RequestOK
<1>2. mirror \in [Offers -> {"none", "pending", "used", "dismissed"}]
  BY DEF OdooInv, AddonTypeOK
<1>3. CASE req[r].op \in ChainOps
  <2> DEFINE d == req[r].row
             row == [deals[d] EXCEPT !.submitting = FALSE]
  <2>1. d \in DOMAIN deals
    BY <1>3, OneRequestOK DEF RequestOK, RowOps
  <2>2. Commit(r, [deals EXCEPT ![d] = row], mirror)
    <3>1. Commit(r, [deals EXCEPT ![d].submitting = FALSE], mirror)
      <4>1. req[r].op = "approve" => Commit(r, [deals EXCEPT ![d].submitting = FALSE], mirror)
        BY DEF Fail, ChainOps
      <4>2. req[r].op = "reject" => Commit(r, [deals EXCEPT ![d].submitting = FALSE], mirror)
        BY DEF Fail, ChainOps
      <4>3. req[r].op = "settle" => Commit(r, [deals EXCEPT ![d].submitting = FALSE], mirror)
        BY DEF Fail, ChainOps
      <4> QED BY <1>3, <4>1, <4>2, <4>3 DEF ChainOps
    <3>2. [deals EXCEPT ![d].submitting = FALSE] = [deals EXCEPT ![d] = row]
      OBVIOUS
    <3> QED BY <3>1, <3>2
  <2>3. deals[d] \in RowType /\ RowOK(deals[d], actions)
    BY <2>1 DEF OdooInv, AddonTypeOK
  <2>4. /\ row \in RowType /\ row.act = deals[d].act /\ row.offer = deals[d].offer
        /\ row.pending = deals[d].pending /\ row.address = deals[d].address
        /\ row.how = deals[d].how
    BY <2>3 DEF RowType
  <2> HIDE DEF d, row
  <2>5. RowOK(row, actions)
    BY <2>3, <2>4 DEF RowOK
  <2> QED BY <1>1, <1>2, <2>1, <2>2, <2>4, <2>5, OneRowWritten, CommitKeeps
<1>4. CASE req[r].op = "relink"
  <2>1. SaveRow(r)
    BY <1>4 DEF Fail, ChainOps
  <2> QED BY <1>1, <1>4, <2>1, SaveRowKeeps DEF RowOps
<1>5. CASE req[r].op = "sync"
  <2>1. Commit(r, deals, mirror)
    BY <1>5 DEF Fail, ChainOps
  <2> QED BY <1>1, <1>2, <2>1, MirrorKeeps
<1> QED BY <1>1, <1>3, <1>4, <1>5 DEF Catches

LEMMA OdooInitially == Init => OdooInv
<1> SUFFICES ASSUME Init PROVE OdooInv
  OBVIOUS
<1>1. \A r \in Requests : req[r] = Idle
  BY DEF Init
<1>2. actions = <<>> /\ deals = <<>> /\ running = {}
  BY DEF Init
<1>3. AddonTypeOK
  BY IdleIsFine DEF Init, AddonTypeOK
<1>4. \A q, r \in Requests : Apart(req[q], req[r])
  BY <1>1 DEF Apart, Idle, ChainOps
<1> QED BY <1>1, <1>2, <1>3, <1>4, IdleIsFine DEF OdooInv

LEMMA OdooStep == OdooInv /\ [Next]_vars => OdooInv' /\ [OneOperation]_vars
<1> SUFFICES ASSUME OdooInv, [Next]_vars PROVE OdooInv' /\ [OneOperation]_vars
  OBVIOUS
<1>1. CASE WalletLogin \/ WalletUnsaved \/ Expire
  <2>1. UNCHANGED <<actions, running, offers, deals, mirror, token, req>>
    BY <1>1 DEF WalletLogin, WalletUnsaved, Expire, agentVars, odooVars
  <2> QED BY <2>1 DEF OdooInv, AddonTypeOK, OneOperation
<1>2. CASE UNCHANGED vars
  <2>1. UNCHANGED <<actions, running, offers, deals, mirror, token, req>>
    BY <1>2 DEF vars, agentVars, odooVars
  <2> QED BY <1>2, <2>1 DEF OdooInv, AddonTypeOK
<1>3. CASE Next
  BY <1>1, <1>3, ClickKeeps, LoginKeeps, HandleKeeps, CallFailsKeeps, ReadStatusKeeps, SucceedKeeps,
     FailKeeps, ApproveEndsKeeps, ReceiveOfferKeeps, AgentRestartsKeeps DEF Next
<1> QED BY <1>2, <1>3

\* The agent and Odoo keep the invariant of the deals (models/escrow_deal.py).
THEOREM OdooInvariant == Spec => []OdooInv
<1>1. OdooInv /\ [Next]_vars => OdooInv'
  BY OdooStep
<1> QED BY <1>1, OdooInitially, PTL DEF Spec

\* Whatever fails, restarts, expires or is rolled back, a row that Approve or
\* Reject has cleared knows what the agent did (_run_chain_operation).
THEOREM OdooOutcomes == Spec => []ClearedRowKnowsOutcome
<1>1. OdooInv => ClearedRowKnowsOutcome
  BY DEF OdooInv, RowOK, ClearedRowKnowsOutcome
<1> QED BY <1>1, OdooInvariant, PTL

\* A deal the agent has confirmed can be found again from its row in Odoo.
THEOREM OdooRecovers == Spec => []ConfirmedRowRecoverable
<1>1. OdooInv => ConfirmedRowRecoverable
  <2>1. ASSUME OdooInv, NEW d \in DOMAIN deals, actions[deals[d].act].status = "confirmed"
        PROVE  deals[d].pending # 0 \/ deals[d].address # None
    <3>1. deals[d] \in RowType /\ RowOK(deals[d], actions) /\ 0 \notin DOMAIN actions
      BY <2>1 DEF OdooInv, AddonTypeOK
    <3>2. deals[d].how \in {"open", "approve", "reject", "relink"}
      BY <3>1 DEF RowType
    <3> QED BY <2>1, <3>1, <3>2 DEF RowOK
  <2> QED BY <2>1 DEF ConfirmedRowRecoverable
<1> QED BY <1>1, OdooInvariant, PTL

\* is_submitting keeps two operations on one deal apart: a second one begins only
\* after the administrator has relinked the row, and then the first cannot save.
THEOREM OdooOneOperation == Spec => OneOperationPerDeal
<1>1. OdooInv /\ [Next]_vars => [OneOperation]_vars
  BY OdooStep
<1> QED BY <1>1, OdooInvariant, PTL DEF Spec, OneOperationPerDeal, OneOperation
=============================================================================
