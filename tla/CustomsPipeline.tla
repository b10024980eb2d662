--------------------------- MODULE CustomsPipeline ---------------------------
(***************************************************************************)
(* A customs document on its way through zk-customs: the broker's operator *)
(* approves it, the ministry's officer signs it, the broker's poller fetches*)
(* the credential and hands it to the UBLP agent, which proves it and      *)
(* settles it on the ledger of L2Verifier.  Four processes, connected by   *)
(* requests that may fail after they took effect.                          *)
(*                                                                         *)
(* The ministry keeps one review item per submission, because the broker   *)
(* posts a submission once; an item's identifier is therefore the          *)
(* submission's.  An agent call and the ledger request it makes share an   *)
(* element of Req.                                                         *)
(***************************************************************************)
EXTENDS L2Verifier

CONSTANTS
    Submission,   \* rows of the broker's submissions table
    MinistryKey,  \* the key the ministry signs with
    Faulty,       \* what may fail: links, the prover, the broker's process
    MaxOutages    \* bound on failures

ASSUME PipelineAssumption ==
    /\ MinistryKey \in Key
    /\ Faulty \subseteq {"broker-ministry", "broker-agent", "agent-l2", "prover", "broker"}
    /\ MaxOutages \in Nat
    /\ Null \notin Submission

VARIABLES
    status,         \* submissions.status, "none" before the row exists
    document,       \* submissions.document
    ministryRefId,  \* submissions whose ministryRefId is set
    vc,             \* submissions whose verifiableCredential is stored
    error,          \* submissions.error
    review,         \* the broker's review_queue
    posting,        \* the approve handler's request to the ministry
    ministry,       \* the ministry's review item and its documents row
    poll,           \* the poller: its loop, the rows left in it, its agent call
    agent,          \* the agent's handlers: [pc, sub]
    outages,
    hit             \* (history) <<what, submission>>: a restart of the broker found the row
                    \* waiting for the agent, or the ledger refused its key or its proof

brokerVars == <<status, document, ministryRefId, vc, error, review>>
faultVars == <<outages, hit>>
pipeVars == <<brokerVars, posting, ministry, poll, agent, faultVars>>
vars == <<l2Vars, pipeVars>>

Final == {"settled", "rejected", "failed"}
IdleAgent == [pc |-> "idle", sub |-> Null]
IdlePoll == [loop |-> "none", todo |-> {}, req |-> Null]

Init ==
    /\ L2Init
    /\ status = [s \in Submission |-> "none"]
    /\ document = [s \in Submission |-> Null]
    /\ ministryRefId = {}
    /\ vc = {}
    /\ error = [s \in Submission |-> Null]
    /\ review = [s \in Submission |-> "none"]
    /\ posting = [s \in Submission |-> "none"]
    /\ ministry = [s \in Submission |-> "none"]
    /\ poll = IdlePoll
    /\ agent = [r \in Req |-> IdleAgent]
    /\ outages = 0
    /\ hit = {}

SetStatus(s, new) == status' = [status EXCEPT ![s] = new]
Fail(s, why) == SetStatus(s, "failed") /\ error' = [error EXCEPT ![s] = why]

Outage(what) ==
    /\ what \in Faulty
    /\ outages < MaxOutages
    /\ outages' = outages + 1

Hits(what, rows) == hit' = hit \cup ({what} \X rows)

-----------------------------------------------------------------------------
(***************************************************************************)
(* The broker's routes, and the ministry.                                  *)
(***************************************************************************)

\* POST /api/submissions
CreateSubmission(s, doc) ==
    /\ status[s] = "none"
    /\ review' = [review EXCEPT ![s] = "awaiting_approval"]
    /\ document' = [document EXCEPT ![s] = doc]
    /\ SetStatus(s, "draft")
    /\ UNCHANGED <<l2Vars, ministryRefId, vc, error, posting, ministry, poll, agent, faultVars>>

\* Faulty variant: an item can be decided again.
DecideReviewItem_Again(s, decision) ==
    /\ review[s] # "none"
    /\ review' = [review EXCEPT ![s] = decision]

\* decideReviewItem(): "a decision is final".
DecideReviewItem(s, decision) ==
    /\ review[s] = "awaiting_approval"
    /\ review' = [review EXCEPT ![s] = decision]

\* POST /api/submissions/:id/approve, up to its fetch.
ApproveSubmission(s) ==
    /\ DecideReviewItem(s, "approved")
    /\ SetStatus(s, "sent_to_ministry")
    /\ posting' = [posting EXCEPT ![s] = "sent"]
    /\ UNCHANGED <<l2Vars, document, ministryRefId, vc, error, ministry, poll, agent, faultVars>>

\* POST /api/submissions/:id/reject
RejectSubmission(s) ==
    /\ DecideReviewItem(s, "rejected")
    /\ SetStatus(s, "rejected")
    /\ UNCHANGED <<l2Vars, document, ministryRefId, vc, error, posting, ministry, poll, agent,
                   faultVars>>

\* The ministry's POST /api/approve queues the document, or answers an error
\* (its API key or its rate limit).
MinistryReceives(s) ==
    /\ posting[s] = "sent"
    /\ \/ /\ ministry' = [ministry EXCEPT ![s] = "awaiting_approval"]
          /\ posting' = [posting EXCEPT ![s] = "accepted"]
       \/ /\ posting' = [posting EXCEPT ![s] = "refused"]
          /\ UNCHANGED ministry
    /\ UNCHANGED <<l2Vars, brokerVars, poll, agent, faultVars>>

\* The approve handler goes on with the ministry's answer.
MinistryAnswers(s) ==
    /\ \/ /\ posting[s] = "accepted"
          /\ SetStatus(s, "awaiting_ministry_approval")
          /\ ministryRefId' = ministryRefId \cup {s}
          /\ UNCHANGED error
       \/ /\ posting[s] = "refused"
          /\ Fail(s, "ministry_refused")
          /\ UNCHANGED ministryRefId
    /\ posting' = [posting EXCEPT ![s] = "none"]
    /\ UNCHANGED <<l2Vars, document, vc, review, ministry, poll, agent, faultVars>>

\* Its fetch throws, before the ministry has the document or after.
MinistryUnreachable(s) ==
    /\ Outage("broker-ministry")
    /\ posting[s] # "none"
    /\ Fail(s, "ministry_unreachable")
    /\ posting' = [posting EXCEPT ![s] = "none"]
    /\ UNCHANGED <<l2Vars, document, ministryRefId, vc, review, ministry, poll, agent, hit>>

\* The officer approves, which issues the credential, or rejects.
OfficerDecides(s, decision) ==
    /\ ministry[s] = "awaiting_approval"
    /\ ministry' = [ministry EXCEPT ![s] = decision]
    /\ UNCHANGED <<l2Vars, brokerVars, posting, poll, agent, faultVars>>

-----------------------------------------------------------------------------
(***************************************************************************)
(* The poller.  One tick goes through two lists, each read when its loop   *)
(* starts, one submission at a time.                                       *)
(***************************************************************************)
Loop(name) ==
    [loop |-> name, req |-> Null,
     todo |-> IF name = "ministry"
              THEN {s \in ministryRefId : status[s] = "awaiting_ministry_approval"}
              ELSE {s \in vc : status[s] = "vc_received"}]

TickStarts ==
    /\ poll.loop = "none"
    /\ poll' = Loop("ministry")
    /\ UNCHANGED <<l2Vars, brokerVars, posting, ministry, agent, faultVars>>

LoopEnds ==
    /\ poll.loop # "none"
    /\ poll.todo = {} /\ poll.req = Null
    /\ poll' = IF poll.loop = "ministry" THEN Loop("resume") ELSE IdlePoll
    /\ UNCHANGED <<l2Vars, brokerVars, posting, ministry, agent, faultVars>>

\* runRestOfPipeline() up to its fetch.
RunRestOfPipeline(s) ==
    /\ SetStatus(s, "proof_requested")
    /\ \E r \in Req :
          /\ agent[r].pc = "idle" /\ call[r].pc = "idle"
          /\ agent' = [agent EXCEPT ![r] = [pc |-> "prove", sub |-> s]]
          /\ poll' = [poll EXCEPT !.todo = @ \ {s}, !.req = r]

\* Faulty variant: any decision is taken for an approval.
CheckMinistryDecision_AnyDecision(s) ==
    /\ poll.loop = "ministry" /\ poll.req = Null
    /\ s \in poll.todo
    /\ \/ /\ ministry[s] = "awaiting_approval"
          /\ poll' = [poll EXCEPT !.todo = @ \ {s}]
          /\ UNCHANGED <<status, vc, agent>>
       \/ /\ ministry[s] # "awaiting_approval"
          /\ vc' = vc \cup {s}
          /\ RunRestOfPipeline(s)
    /\ UNCHANGED <<l2Vars, document, ministryRefId, error, review, posting, ministry, faultVars>>

\* checkMinistryDecision(): the row becomes vc_received and, before the next
\* await, proof_requested.
CheckMinistryDecision(s) ==
    /\ poll.loop = "ministry" /\ poll.req = Null
    /\ s \in poll.todo
    /\ \/ /\ ministry[s] = "awaiting_approval"
          /\ poll' = [poll EXCEPT !.todo = @ \ {s}]
          /\ UNCHANGED <<status, vc, agent>>
       \/ /\ ministry[s] = "rejected"
          /\ SetStatus(s, "rejected")
          /\ poll' = [poll EXCEPT !.todo = @ \ {s}]
          /\ UNCHANGED <<vc, agent>>
       \/ /\ ministry[s] = "approved"
          /\ vc' = vc \cup {s}
          /\ RunRestOfPipeline(s)
    /\ UNCHANGED <<l2Vars, document, ministryRefId, error, review, posting, ministry, faultVars>>

\* The status request fails: next tick.
StatusCheckFails(s) ==
    /\ Outage("broker-ministry")
    /\ poll.loop = "ministry" /\ poll.req = Null
    /\ s \in poll.todo
    /\ poll' = [poll EXCEPT !.todo = @ \ {s}]
    /\ UNCHANGED <<l2Vars, brokerVars, posting, ministry, agent, hit>>

ResumeSubmission(s) ==
    /\ poll.loop = "resume" /\ poll.req = Null
    /\ s \in poll.todo
    /\ RunRestOfPipeline(s)
    /\ UNCHANGED <<l2Vars, document, ministryRefId, vc, error, review, posting, ministry, faultVars>>

\* The agent's answer.  The ledger's 200 always says APPROVED.
AgentAnswers(r) ==
    /\ poll.req = r
    /\ \/ /\ agent[r].pc = "ok"
          /\ SetStatus(agent[r].sub, "settled")
          /\ UNCHANGED error
       \/ /\ agent[r].pc \in {"l2_unreachable", "l2_refused", "prover_failed"}
          /\ Fail(agent[r].sub, agent[r].pc)
    /\ agent' = [agent EXCEPT ![r] = IdleAgent]
    /\ poll' = [poll EXCEPT !.req = Null]
    /\ UNCHANGED <<l2Vars, document, ministryRefId, vc, review, posting, ministry, faultVars>>

\* Faulty variant: the catch block leaves the row as it is.
AgentUnreachable_RowKept(r) ==
    /\ Outage("broker-agent")
    /\ poll.req = r
    /\ poll' = [poll EXCEPT !.req = Null]
    /\ UNCHANGED <<l2Vars, brokerVars, posting, ministry, agent, hit>>

\* The fetch throws; the agent, if it has the request, carries on.
AgentUnreachable(r) ==
    /\ Outage("broker-agent")
    /\ poll.req = r
    /\ SetStatus(agent[r].sub, "vc_received")
    /\ poll' = [poll EXCEPT !.req = Null]
    /\ UNCHANGED <<l2Vars, document, ministryRefId, vc, error, review, posting, ministry, agent, hit>>

\* The broker's process dies and restarts; its tables stay, and a row that waits for the
\* agent is in none of the poller's lists.
BrokerRestarts ==
    /\ Outage("broker")
    /\ Hits("broker", {s \in Submission : status[s] = "proof_requested"})
    /\ poll' = IdlePoll
    /\ posting' = [s \in Submission |-> "none"]
    /\ UNCHANGED <<l2Vars, brokerVars, ministry, agent>>

-----------------------------------------------------------------------------
(***************************************************************************)
(* The UBLP agent, and its requests to the ledger.                         *)
(***************************************************************************)
AgentGoes(r, pc) == agent' = [agent EXCEPT ![r].pc = pc]

\* generateZKProof() returns, or throws.
ProofGenerated(r) ==
    /\ agent[r].pc = "prove"
    /\ AgentGoes(r, "l2")
    /\ UNCHANGED <<l2Vars, brokerVars, posting, ministry, poll, faultVars>>

ProverFails(r) ==
    /\ Outage("prover")
    /\ agent[r].pc = "prove"
    /\ AgentGoes(r, "prover_failed")
    /\ UNCHANGED <<l2Vars, brokerVars, posting, ministry, poll, hit>>

\* The request reaches the ledger.
L2Receives(r) ==
    /\ agent[r].pc = "l2"
    /\ VerifyAndSettle(r, document[agent[r].sub], MinistryKey)
    /\ AgentGoes(r, "l2_wait")
    /\ UNCHANGED <<brokerVars, posting, ministry, poll, faultVars>>

\* Faulty variant: "already approved" counts as an approval.
Verdict_DuplicateOk(answer) ==
    IF answer \in {"approved", "duplicate"} THEN "ok"
    ELSE IF answer = "lost" THEN "l2_unreachable" ELSE "l2_refused"

\* 200, no answer (503), any other answer (502).
Verdict(answer) ==
    IF answer = "approved" THEN "ok"
    ELSE IF answer = "lost" THEN "l2_unreachable" ELSE "l2_refused"

L2Answers(r) ==
    /\ agent[r].pc = "l2_wait"
    /\ Answered(r)
    /\ AgentGoes(r, Verdict(call[r].pc))
    /\ Hits(call[r].pc, IF call[r].pc \in {"forbidden", "invalid"} THEN {agent[r].sub} ELSE {})
    /\ UNCHANGED <<brokerVars, posting, ministry, poll, outages>>

\* The agent's fetch throws, before the ledger has the request or after.
L2Unreachable(r) ==
    /\ Outage("agent-l2")
    /\ agent[r].pc \in {"l2", "l2_wait"}
    /\ AgentGoes(r, "l2_unreachable")
    /\ UNCHANGED <<l2Vars, brokerVars, posting, ministry, poll, hit>>

\* An answer nobody waits for.
AnswerDropped(r) ==
    \/ /\ agent[r].pc # "l2_wait"
       /\ Answered(r)
       /\ UNCHANGED pipeVars
    \/ /\ poll.req # r
       /\ agent[r].pc \in {"ok", "l2_unreachable", "l2_refused", "prover_failed"}
       /\ agent' = [agent EXCEPT ![r] = IdleAgent]
       /\ UNCHANGED <<l2Vars, brokerVars, posting, ministry, poll, faultVars>>

-----------------------------------------------------------------------------
PollerStep ==
    \/ TickStarts
    \/ LoopEnds
    \/ \E s \in Submission : CheckMinistryDecision(s)
    \/ \E s \in Submission : ResumeSubmission(s)
    \/ \E r \in Req : AgentAnswers(r)

AgentStep(r) ==
    \/ ProofGenerated(r)
    \/ L2Receives(r)
    \/ L2Answers(r)
    \/ AnswerDropped(r)

OperatorStep ==
    \/ \E s \in Submission, doc \in Doc : CreateSubmission(s, doc)
    \/ \E s \in Submission : ApproveSubmission(s)
    \/ \E s \in Submission : RejectSubmission(s)
    \/ \E s \in Submission, decision \in {"approved", "rejected"} : OfficerDecides(s, decision)

OutageStep ==
    \/ \E s \in Submission : MinistryUnreachable(s)
    \/ \E s \in Submission : StatusCheckFails(s)
    \/ \E r \in Req : AgentUnreachable(r)
    \/ \E r \in Req : ProverFails(r)
    \/ \E r \in Req : L2Unreachable(r)
    \/ BrokerRestarts

LedgerStep ==
    /\ L2Step \/ SyncMinistryPublicKey(MinistryKey)
    /\ UNCHANGED pipeVars

Next ==
    \/ OperatorStep
    \/ \E s \in Submission : MinistryReceives(s)
    \/ \E s \in Submission : MinistryAnswers(s)
    \/ PollerStep
    \/ \E r \in Req : AgentStep(r)
    \/ OutageStep
    \/ LedgerStep

Spec == Init /\ [][Next]_vars

\* setInterval keeps the poller ticking, every service's handlers run to their
\* end and the mutex serves its waiters in turn.  People and outages owe nothing.
Fairness ==
    /\ WF_vars(PollerStep)
    /\ \A s \in Submission : WF_vars(MinistryReceives(s) \/ MinistryAnswers(s))
    /\ \A r \in Req : WF_vars(AgentStep(r))
    /\ \A r \in Req : WF_vars(SettleStep(r) /\ UNCHANGED pipeVars)
    /\ \A r \in Req : SF_vars(SettleLoad(r) /\ UNCHANGED pipeVars)
    /\ \A v \in Rev : WF_vars(RevokeStep(v) /\ UNCHANGED pipeVars)

FairSpec == Spec /\ Fairness

-----------------------------------------------------------------------------
\* The tables and handlers of the broker, the ministry and the agent hold values of
\* their kind.
PipelineTypeOK ==
    /\ status \in [Submission -> {"none", "draft", "sent_to_ministry",
                                  "awaiting_ministry_approval", "vc_received",
                                  "proof_requested"} \cup Final]
    /\ document \in [Submission -> Doc \cup {Null}]
    /\ vc \subseteq Submission /\ ministryRefId \subseteq Submission
    /\ review \in [Submission -> {"none", "awaiting_approval", "approved", "rejected"}]
    /\ posting \in [Submission -> {"none", "sent", "accepted", "refused"}]
    /\ ministry \in [Submission -> {"none", "awaiting_approval", "approved", "rejected"}]
    /\ poll \in [loop : {"none", "ministry", "resume"}, todo : SUBSET Submission,
                 req : Req \cup {Null}]
    /\ agent \in [Req -> [pc : {"idle", "prove", "l2", "l2_wait", "ok", "l2_unreachable",
                                "l2_refused", "prover_failed"},
                          sub : Submission \cup {Null}]]

\* A document is on the ledger only if both people on its way approved it: the
\* broker's operator and the ministry's officer, for the same submission.
OnlyApprovedSettles ==
    \A i \in DOMAIN settled : \E s \in Submission :
        /\ document[s] = settled[i].doc
        /\ review[s] = "approved"
        /\ ministry[s] = "approved"

\* The broker calls a submission settled only if the ledger holds its document,
\* and never two submissions of one document: of a document posted twice, one
\* settles.
SettledOnce ==
    /\ \A s \in Submission : status[s] = "settled" =>
          \E i \in DOMAIN settled : settled[i].doc = document[s]
    /\ \A s, t \in Submission :
          status[s] = "settled" /\ status[t] = "settled" /\ document[s] = document[t] => s = t

\* A submission that is settled, rejected or failed stays so: no late answer, no
\* second click and no retry of the poller moves it again.
OutcomeIsFinal == [][\A s \in Submission : status[s] \in Final => status'[s] = status[s]]_vars

\* Why a row may have failed after the ministry's decision: the prover failed on it, the
\* agent had no answer from the ledger for it, or the ledger refused it, because its
\* document is settled, its key is not (or no longer) authorised or its proof is not valid.
FailedForAReason(s) ==
    /\ status[s] = "failed"
    /\ \/ error[s] \in {"prover_failed", "l2_unreachable"}
       \/ error[s] = "l2_refused" /\ document[s] \in SettledDocuments
       \/ error[s] = "l2_refused" /\ {<<"forbidden", s>>, <<"invalid", s>>} \cap hit # {}

\* A restart of the broker leaves the rows that waited for the agent's answer behind.
Stranded(s) == status[s] = "proof_requested" /\ <<"broker", s>> \in hit

\* What is left of "drives a submission from awaiting_ministry_approval through to settled,
\* rejected or failed, automatically and unattended", and never "marked failed just because a
\* downstream service was briefly unreachable": once the ministry has decided, the submission
\* settles or is rejected, through every failure of the broker's own calls to the ministry and
\* to the agent, unless what came between was a failure behind the agent, a refusal of the
\* ledger, or a restart of the broker during its call (poller.ts).
PipelineCompletes ==
    \A s \in Submission :
        \/ status[s] \in {"vc_received", "proof_requested"}
        \/ status[s] = "awaiting_ministry_approval" /\ ministry[s] \in {"approved", "rejected"}
        ~> \/ status[s] \in {"settled", "rejected"}
           \/ FailedForAReason(s)
           \/ Stranded(s)
=============================================================================
