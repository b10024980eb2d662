------------------------------- MODULE OdooAddon -------------------------------
(***************************************************************************)
(* The Odoo addon as a client of its settlement agent.  The addon keeps a   *)
(* row per deal and a mirror of the incoming offers in Odoo's database; the *)
(* agent keeps its pending actions and offers in its own.  Every button is  *)
(* a request to Odoo in one database transaction, with an HTTP call to the  *)
(* agent (and, if need be, a login) in the middle of it.                    *)
(*                                                                         *)
(* What a transaction has written becomes visible when it commits: a        *)
(* request that raises leaves nothing behind, except what                   *)
(* _run_chain_operation commits by itself before and after its call.  Two   *)
(* transactions that wrote the same row cannot both commit (REPEATABLE      *)
(* READ); the second is rolled back and Odoo runs its method again, which   *)
(* the model takes as another click.                                        *)
(*                                                                         *)
(* An address is the pending action that deployed the contract, or the      *)
(* incoming offer that names it.                                           *)
(***************************************************************************)
EXTENDS AuthStore, Naturals, Sequences, FiniteSets

CONSTANTS Requests,     \* requests Odoo works on at a time
          Offers,       \* offers other companies deliver to the agent
          MaxActions,   \* bound on the agent's pending actions
          MaxFaults,    \* bound on failures, restarts and expiries, each of which is a fault
          OdooKey,      \* the key odoo-auth-helper.ts signs with
          WalletKey,    \* the key of a person's wallet in the panel
          None          \* null

ASSUME OdooAssumption ==
  /\ {OdooKey, WalletKey} \subseteq Keys /\ OdooKey # WalletKey
  /\ Challenges = Requests \cup {"panel"}   \* each client has one under way
  /\ None \notin Requests \cup Offers \cup Tokens \cup Nat

VARIABLES actions,   \* the agent's pending_actions, by id
          running,   \* the approve handlers that are at work
          offers,    \* the agent's incoming_offers.status
          deals,     \* rows of ublp.escrow.deal
          mirror,    \* ublp.escrow.incoming.offer.status
          token,     \* the parameter ublp_incoterms_escrow.session_token
          req,       \* Odoo's requests
          faults     \* how many there have been

agentVars == <<actions, running, offers>>
odooVars == <<deals, mirror, token>>
vars == <<authVars, agentVars, odooVars, req, faults>>

\* The buttons and the cron job.  settle: attest, claim and release-timeout.
ChainOps == {"approve", "reject", "settle"}
RowOps == ChainOps \cup {"refresh", "relink"}
OfferOps == {"lock", "accept", "dismiss"}

\* pc: /auth/verify, the request itself, waiting for a chain operation, the
\* answer.  stage: the call of the button, or the status read after it.  row,
\* offer, act: what it is about.  fresh: tok was not committed yet.  rowStale,
\* tokenStale: another transaction has committed the row, the parameter.
Idle == [op |-> "none", pc |-> "idle", stage |-> "main", row |-> 0, offer |-> None, act |-> 0,
         tok |-> None, fresh |-> FALSE, retried |-> FALSE, rowStale |-> FALSE,
         tokenStale |-> FALSE, seen |-> [o \in Offers |-> "none"]]

Init ==
  /\ AuthInit
  /\ actions = <<>> /\ running = {}
  /\ offers = [o \in Offers |-> "none"]
  /\ deals = <<>>
  /\ mirror = [o \in Offers |-> "none"]
  /\ token = None
  /\ req = [r \in Requests |-> Idle]
  /\ faults = 0

\* The HTTP call of r has an answer.
Answered(rec, pc) ==
  [rec EXCEPT !.pc = pc, !.retried = FALSE, !.tok = IF rec.fresh THEN rec.tok ELSE None]

Goto(r, pc) == req' = [req EXCEPT ![r] = Answered(req[r], pc)]

\* EscrowApiError is raised.  Whoever does not catch it is rolled back.
Catches(rec) == (rec.op \in ChainOps /\ rec.stage = "main") \/ rec.op \in {"relink", "sync"}

Refused(rec) == IF Catches(rec) THEN Answered(rec, "refused") ELSE Idle

Refuse(r) == req' = [req EXCEPT ![r] = Refused(req[r])]

Fault == faults < MaxFaults /\ faults' = faults + 1

\* A token nobody has seen yet.
FreshToken(t) ==
  /\ sessions[t] = NoKey
  /\ t # token
  /\ \A r \in Requests : req[r].tok # t

(***************************************************************************)
(* The agent                                                               *)
(***************************************************************************)

InFlight == {"awaiting_approval", "submitted_pending"}

findInFlightAction(o) ==
  {a \in DOMAIN actions : actions[a].offer = o /\ actions[a].status \in InFlight}

\* POST /deals/propose and POST /deals/lock queue; the others act at once.
createPendingAction(o) ==
  actions' = Append(actions, [offer |-> o, status |-> "awaiting_approval"])

SetAction(a, s) == actions' = [actions EXCEPT ![a].status = s]

HandlePropose(r) ==
  /\ createPendingAction(None)
  /\ req' = [req EXCEPT ![r] = [Answered(req[r], "ok") EXCEPT !.act = Len(actions) + 1]]
  /\ UNCHANGED <<running, offers>>

HandleLock(r) ==
  LET o == req[r].offer IN
  IF findInFlightAction(o) # {}
  THEN Refuse(r) /\ UNCHANGED agentVars
  ELSE /\ createPendingAction(o)
       /\ offers' = IF req[r].op = "accept" THEN [offers EXCEPT ![o] = "used"] ELSE offers
       /\ req' = [req EXCEPT ![r] = [Answered(req[r], "ok") EXCEPT !.act = Len(actions) + 1]]
       /\ UNCHANGED running

HandleDismiss(r) ==
  LET o == req[r].offer
      inFlight == findInFlightAction(o) IN
  IF \E a \in inFlight : actions[a].status # "awaiting_approval"
  THEN Refuse(r) /\ UNCHANGED agentVars
  ELSE /\ actions' = [a \in DOMAIN actions |->
                        IF a \in inFlight THEN [actions[a] EXCEPT !.status = "rejected"]
                                          ELSE actions[a]]
       /\ offers' = [offers EXCEPT ![o] = "dismissed"]
       /\ Goto(r, "ok")
       /\ UNCHANGED running

HandleApprove(r) ==
  LET a == req[r].act IN
  IF actions[a].status # "awaiting_approval"
  THEN Refuse(r) /\ UNCHANGED agentVars
  ELSE /\ SetAction(a, "submitted_pending")
       /\ running' = running \cup {a}
       /\ Goto(r, "waiting")
       /\ UNCHANGED offers

HandleReject(r) ==
  LET a == req[r].act IN
  IF actions[a].status # "awaiting_approval"
  THEN Refuse(r) /\ UNCHANGED agentVars
  ELSE SetAction(a, "rejected") /\ Goto(r, "ok") /\ UNCHANGED <<running, offers>>

\* The approve handler ends, whoever is still listening.
ApproveEnds(a) ==
  /\ a \in running
  /\ \E s \in {"confirmed", "failed"} :
       /\ SetAction(a, s)
       /\ req' = [r \in Requests |->
                    IF req[r].pc = "waiting" /\ req[r].op = "approve" /\ req[r].act = a
                    THEN IF s = "confirmed" THEN Answered(req[r], "ok") ELSE Refused(req[r])
                    ELSE req[r]]
  /\ running' = running \ {a}
  /\ UNCHANGED <<authVars, offers, odooVars, faults>>

\* POST /deals/incoming from another company's agent.
ReceiveOffer(o) ==
  /\ offers[o] = "none"
  /\ offers' = [offers EXCEPT ![o] = "pending"]
  /\ UNCHANGED <<authVars, actions, running, odooVars, req, faults>>

\* The agent's process ends and is started again: its handlers are gone, the
\* connections break, sessions and challenges are forgotten.
AgentRestarts ==
  /\ Fault
  /\ AuthRestart
  /\ running' = {}
  /\ req' = [r \in Requests |->
               IF req[r].pc = "waiting" THEN Refused(req[r]) ELSE req[r]]
  /\ UNCHANGED <<actions, offers, odooVars>>

(***************************************************************************)
(* The addon: transactions                                                 *)
(***************************************************************************)

InProgress(r) == req[r].pc # "idle"

\* The transaction of r commits deal rows ds and offer rows os: whoever else is
\* about to write them, or the token's row, can no longer commit.
Mark(q, ds, os, tokenWritten) ==
  [req[q] EXCEPT !.rowStale = \/ @
                              \/ req[q].op \in RowOps /\ req[q].row \in ds
                              \/ req[q].op \in {"accept", "dismiss"} /\ req[q].offer \in os
                              \/ req[q].op = "sync" /\ os # {},
                 !.tokenStale = @ \/ tokenWritten]

MarkOthers(r, after, ds, os, tokenWritten) ==
  req' = [q \in Requests |-> IF q = r THEN after
                             ELSE IF InProgress(q) THEN Mark(q, ds, os, tokenWritten)
                             ELSE req[q]]

Conflict(r) == req[r].rowStale \/ (req[r].fresh /\ req[r].tokenStale)

\* cr.commit() at the end of a request; or the rollback that takes its place.
Rollback(r) == req' = [req EXCEPT ![r] = Idle] /\ UNCHANGED odooVars

\* A write of a row that only changes what is not modelled (the status of the
\* deal) counts, or not if it changes nothing.
Commit(r, newDeals, newMirror) ==
  IF Conflict(r)
  THEN Rollback(r)
  ELSE /\ deals' = newDeals
       /\ mirror' = newMirror
       /\ token' = IF req[r].fresh THEN req[r].tok ELSE token
       /\ \E other \in SUBSET ({req[r].row} \ {0}) :
            MarkOthers(r, Idle,
                       other \cup {d \in DOMAIN deals : deals[d] # newDeals[d]},
                       {o \in Offers : mirror[o] # newMirror[o]}, req[r].fresh)

(***************************************************************************)
(* The addon: the beginning of a request                                   *)
(***************************************************************************)

NewRow(a, o, address) ==
  [act |-> a, offer |-> o, pending |-> a, address |-> address, submitting |-> FALSE,
   how |-> "open"]

\* The transaction reads its own write of the token first.
CachedToken(rec) == IF rec.fresh THEN rec.tok ELSE token

\* get_client(): use the cached token if it looks unexpired by the clock, else
\* begin login(), which asks for a challenge.  ds: rows committed just before.
GetClient(r, rec, ds) ==
  \/ /\ CachedToken(rec) # None
     /\ MarkOthers(r, [rec EXCEPT !.pc = "send", !.tok = CachedToken(rec)], ds, {}, FALSE)
     /\ UNCHANGED authVars
  \/ /\ CachedToken(rec) # None => ~ isSessionValid(CachedToken(rec))
     /\ issueChallenge(r)
     /\ MarkOthers(r, [rec EXCEPT !.pc = "verify"], ds, {}, FALSE)

\* Faulty variant: is_submitting is not looked at.
BeginChainOp_Again(r, op, d) ==
  /\ op \in {"approve", "reject"} => deals[d].pending # 0
  /\ op = "settle" => deals[d].address # None
  /\ deals' = [deals EXCEPT ![d].submitting = TRUE]
  /\ GetClient(r, [Idle EXCEPT !.op = op, !.row = d, !.act = deals[d].pending], {d})
  /\ UNCHANGED <<mirror, token>>

\* _run_chain_operation up to its first commit.
BeginChainOp(r, op, d) ==
  /\ op \in {"approve", "reject"} => deals[d].pending # 0
  /\ op = "settle" => deals[d].address # None
  /\ ~ deals[d].submitting
  /\ deals' = [deals EXCEPT ![d].submitting = TRUE]
  /\ GetClient(r, [Idle EXCEPT !.op = op, !.row = d, !.act = deals[d].pending], {d})
  /\ UNCHANGED <<mirror, token>>

OwnAddress(row) ==
  IF row.offer # None THEN {row.offer}
  ELSE {a \in {row.act} : actions[a].status = "confirmed"}

\* action_refresh_status skips a row without an address.  An administrator
\* relinks a deal to its own contract.
BeginRowOp(r, op, d) ==
  /\ op = "refresh" => deals[d].address # None
  /\ op = "relink" => OwnAddress(deals[d]) # {}
  /\ GetClient(r, [Idle EXCEPT !.op = op, !.row = d], {})
  /\ UNCHANGED odooVars

\* action_accept and action_dismiss are called on a row of the mirror; the lock
\* wizard has the offer pasted into it.
BeginOfferOp(r, op, o) ==
  /\ IF op = "lock" THEN offers[o] # "none" ELSE mirror[o] # "none"
  /\ GetClient(r, [Idle EXCEPT !.op = op, !.offer = o], {})
  /\ UNCHANGED odooVars

BeginOther(r, op) ==
  /\ GetClient(r, [Idle EXCEPT !.op = op], {})
  /\ UNCHANGED odooVars

Queueing == {r \in Requests : req[r].op \in {"propose", "lock", "accept"}}

Click(r) ==
  /\ ~ InProgress(r)
  /\ \/ \E op \in ChainOps, d \in DOMAIN deals : BeginChainOp(r, op, d)
     \/ \E op \in {"refresh", "relink"}, d \in DOMAIN deals : BeginRowOp(r, op, d)
     \/ /\ Len(actions) + Cardinality(Queueing) < MaxActions
        /\ \/ \E op \in {"lock", "accept"}, o \in Offers : BeginOfferOp(r, op, o)
           \/ BeginOther(r, "propose")
     \/ \E o \in Offers : BeginOfferOp(r, "dismiss", o)
     \/ BeginOther(r, "sync")
  /\ UNCHANGED <<agentVars, faults>>

(***************************************************************************)
(* The addon: login and the HTTP request                                   *)
(***************************************************************************)

\* login() goes on: signature of the nonce by the helper, verification.
LoginGranted(r) ==
  \E t \in Tokens :
    /\ FreshToken(t)
    /\ VerifyGranted(r, OdooKey, r, t)
    /\ req' = [req EXCEPT ![r].pc = "send", ![r].tok = t, ![r].fresh = TRUE]

Login(r) ==
  /\ req[r].pc = "verify"
  /\ LoginGranted(r) \/ (VerifyRefused(r, OdooKey, r) /\ Refuse(r))
  /\ UNCHANGED <<agentVars, odooVars, faults>>

LoginUnsaved(r) ==
  /\ req[r].pc = "verify"
  /\ VerifyUnsaved(r, OdooKey, r)
  /\ Refuse(r)
  /\ Fault
  /\ UNCHANGED <<agentVars, odooVars>>

\* A 401 is answered by one new login and the same request once more.
Unauthorized(r) ==
  /\ req[r].pc = "send"
  /\ ~ isSessionValid(req[r].tok)
  /\ IF req[r].retried
     THEN Refuse(r) /\ UNCHANGED authVars
     ELSE /\ issueChallenge(r)
          /\ req' = [req EXCEPT ![r].pc = "verify", ![r].retried = TRUE]
  /\ UNCHANGED <<agentVars, odooVars, faults>>

\* The agent's handlers.  A status read, the actions of the contract and the
\* list of offers change nothing here, and the first two may fail.
Handle(r) ==
  /\ req[r].pc = "send"
  /\ isSessionValid(req[r].tok)
  /\ IF req[r].stage = "refresh" \/ req[r].op \in {"refresh", "relink", "settle"}
     THEN (Goto(r, "ok") \/ Refuse(r)) /\ UNCHANGED agentVars
     ELSE CASE req[r].op = "propose" -> HandlePropose(r)
            [] req[r].op \in {"lock", "accept"} -> HandleLock(r)
            [] req[r].op = "dismiss" -> HandleDismiss(r)
            [] req[r].op = "approve" -> HandleApprove(r)
            [] req[r].op = "reject" -> HandleReject(r)
            [] req[r].op = "sync" ->
                 /\ req' = [req EXCEPT ![r] = [Answered(req[r], "ok") EXCEPT !.seen = offers]]
                 /\ UNCHANGED agentVars
  /\ UNCHANGED <<authVars, odooVars, faults>>

\* The agent is out of reach, the helper fails, or the answer does not come in
\* time: EscrowApiError, whatever the agent goes on to do.
CallFails(r) ==
  /\ req[r].pc \in {"verify", "send", "waiting", "ok"}
  /\ Refuse(r)
  /\ Fault
  /\ UNCHANGED <<authVars, agentVars, odooVars>>

(***************************************************************************)
(* The addon: the end of a request                                         *)
(***************************************************************************)

AddressAfter(r) ==
  LET row == deals[req[r].row] IN
  IF req[r].op = "approve" /\ row.offer = None THEN req[r].act ELSE row.address

\* Approve, attest, claim and release-timeout read the status before they end.
ReadStatus(r) ==
  /\ req[r].pc = "ok" /\ req[r].stage = "main" /\ req[r].op \in {"approve", "settle"}
  /\ AddressAfter(r) # None
  /\ GetClient(r, [req[r] EXCEPT !.stage = "refresh"], {})
  /\ UNCHANGED <<agentVars, odooVars, faults>>

\* The administrator gives the address, and may clear the pending action.
RelinkedRows(row) ==
  {[row EXCEPT !.address = address, !.submitting = FALSE, !.how = "relink",
               !.pending = IF clear THEN 0 ELSE @] :
     address \in OwnAddress(row), clear \in BOOLEAN}

\* What the transaction of r has written.
RowWritten(r) ==
  LET row == deals[req[r].row] IN
  CASE req[r].op = "approve" ->
         {[row EXCEPT !.pending = 0, !.address = AddressAfter(r), !.submitting = FALSE,
                      !.how = "approve"]}
    [] req[r].op = "reject" -> {[row EXCEPT !.pending = 0, !.submitting = FALSE, !.how = "reject"]}
    [] req[r].op = "settle" -> {[row EXCEPT !.submitting = FALSE]}
    [] req[r].op = "refresh" -> {row}
    [] req[r].op = "relink" -> RelinkedRows(row)

\* The row of the buyer's side of a deal, made from the seller's offer.
LockedRow(r) == NewRow(req[r].act, req[r].offer, req[r].offer)

\* action_sync_incoming: a row for every offer of the list, with its status.
SyncedMirror(r) ==
  [o \in Offers |-> IF req[r].seen[o] = "none" THEN mirror[o] ELSE req[r].seen[o]]

SaveRow(r) ==
  \E row \in RowWritten(r) : Commit(r, [deals EXCEPT ![req[r].row] = row], mirror)

Succeed(r) ==
  /\ req[r].pc = "ok"
  /\ req[r].op \in {"approve", "settle"} => req[r].stage = "refresh"
  /\ LET o == req[r].offer IN
     CASE req[r].op \in RowOps -> SaveRow(r)
       [] req[r].op = "propose" -> Commit(r, Append(deals, NewRow(req[r].act, None, None)), mirror)
       [] req[r].op = "lock" -> Commit(r, Append(deals, LockedRow(r)), mirror)
       [] req[r].op = "accept" ->
            Commit(r, Append(deals, LockedRow(r)), [mirror EXCEPT ![o] = "used"])
       [] req[r].op = "dismiss" -> Commit(r, deals, [mirror EXCEPT ![o] = "dismissed"])
       [] req[r].op = "sync" -> Commit(r, deals, SyncedMirror(r))
  /\ UNCHANGED <<authVars, agentVars, faults>>

\* Faulty variant: what the agent refuses or does not answer is taken as done.
Fail_Cleared(r) ==
  /\ req[r].pc = "refused"
  /\ CASE req[r].op \in ChainOps ->
            Commit(r, [deals EXCEPT ![req[r].row].submitting = FALSE,
                                    ![req[r].row].pending = 0,
                                    ![req[r].row].how = req[r].op], mirror)
       [] req[r].op = "relink" -> SaveRow(r)
       [] req[r].op = "sync" -> Commit(r, deals, mirror)
  /\ UNCHANGED <<authVars, agentVars, faults>>

\* _run_chain_operation takes the flag back and commits, also the token of a
\* login before the failure; the sync and the relink wizard go on without.
Fail(r) ==
  /\ req[r].pc = "refused"
  /\ CASE req[r].op \in ChainOps ->
            Commit(r, [deals EXCEPT ![req[r].row].submitting = FALSE], mirror)
       [] req[r].op = "relink" -> SaveRow(r)
       [] req[r].op = "sync" -> Commit(r, deals, mirror)
  /\ UNCHANGED <<authVars, agentVars, faults>>

(***************************************************************************)
(* A person's wallet logs in to the agent's panel; time passes.            *)
(***************************************************************************)

WalletLogin ==
  /\ \/ issueChallenge("panel")
     \/ "panel" \in challenges /\ VerifyRefused("panel", WalletKey, "panel")
     \/ \E t \in Tokens : FreshToken(t) /\ VerifyGranted("panel", WalletKey, "panel", t)
  /\ UNCHANGED <<agentVars, odooVars, req, faults>>

WalletUnsaved ==
  /\ VerifyUnsaved("panel", WalletKey, "panel")
  /\ Fault
  /\ UNCHANGED <<agentVars, odooVars, req>>

Expire ==
  /\ \/ \E c \in Challenges : ExpireChallenge(c)
     \/ \E t \in Tokens : ExpireSession(t)
  /\ Fault
  /\ UNCHANGED <<agentVars, odooVars, req>>

Next ==
  \/ \E r \in Requests :
       \/ Click(r) \/ Login(r) \/ LoginUnsaved(r) \/ Unauthorized(r)
       \/ Handle(r) \/ CallFails(r) \/ ReadStatus(r) \/ Succeed(r) \/ Fail(r)
  \/ \E a \in running : ApproveEnds(a)
  \/ \E o \in Offers : ReceiveOffer(o)
  \/ AgentRestarts
  \/ WalletLogin \/ WalletUnsaved
  \/ Expire

Spec == Init /\ [][Next]_vars

(***************************************************************************)
(* Properties                                                              *)
(***************************************************************************)

\* A row whose pending action was cleared knows what became of it, after
\* timeouts, logins in between, restarts and rolled back commits: one cleared by
\* Reject was rejected by the agent, one cleared by Approve was confirmed and
\* has its address.
ClearedRowKnowsOutcome ==
  \A d \in DOMAIN deals :
    /\ deals[d].how = "reject" => actions[deals[d].act].status = "rejected"
    /\ deals[d].how = "approve" =>
         /\ actions[deals[d].act].status = "confirmed"
         /\ deals[d].address # None

\* A deal that the agent confirmed is never lost to the addon (the incident that
\* is_submitting was introduced for): however the approve call and what follows
\* it end, the row still has its pending id, to look it up by, or the address.
ConfirmedRowRecoverable ==
  \A d \in DOMAIN deals :
    actions[deals[d].act].status = "confirmed" => deals[d].pending # 0 \/ deals[d].address # None

\* The flag keeps two operations on one deal apart ("prevents a second click on
\* the same action and on Reject while the first is still running"): one begins
\* only if none is at work, or if the administrator has relinked the row in the
\* meantime, so that the one at work cannot save what it finds.
OneOperationPerDeal ==
  [][ \A q, r \in Requests :
        /\ q # r
        /\ req[r].op \notin ChainOps /\ req'[r].op \in ChainOps
        /\ req[q].op \in ChainOps
        /\ req[q].row = req'[r].row
        => req[q].rowStale ]_vars
=============================================================================
