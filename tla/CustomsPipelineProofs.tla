------------------------ MODULE CustomsPipelineProofs ------------------------
(***************************************************************************)
(* The guarantees of the customs pipeline, for any number of submissions,   *)
(* documents, agent calls and failures: the four services implement the     *)
(* ledger's protocol, only what two people approved is settled, a document  *)
(* is settled for one submission, and outcomes are final.                   *)
(***************************************************************************)
EXTENDS CustomsPipeline, L2VerifierProofs

\* The documents the ledger holds.
Docs == {settled[i].doc : i \in DOMAIN settled}

\* Both people approved submission s.
Approved(s) == review[s] = "approved" /\ ministry[s] = "approved"
GoodDocs == {document[s] : s \in {t \in Submission : Approved(t)}}

\* A call of the agent is about a submission whose credential the broker has.
AgentInv == \A r \in Req : agent[r].pc # "idle" => agent[r].sub \in vc

\* How a submission comes by its approvals, and its credential by them.
ApprovalInv ==
    \A s \in Submission :
        /\ status[s] = "none" => review[s] = "none"
        /\ review[s] # "none" => document[s] \in Doc
        /\ posting[s] # "none" => review[s] = "approved"
        /\ posting[s] = "sent" => ministry[s] = "none"
        /\ ministry[s] # "none" => review[s] = "approved"
        /\ s \in vc => ministry[s] = "approved"

\* Whoever is about to write a row has found it in the status it still has.
RowInv ==
    /\ \A s \in Submission :
        /\ review[s] = "awaiting_approval" => status[s] = "draft"
        /\ posting[s] # "none" => status[s] = "sent_to_ministry"
        /\ poll.loop = "ministry" /\ s \in poll.todo => status[s] = "awaiting_ministry_approval"
        /\ poll.loop = "resume" /\ s \in poll.todo => status[s] = "vc_received" /\ s \in vc
    /\ poll.req # Null => /\ agent[poll.req].pc # "idle"
                          /\ status[agent[poll.req].sub] = "proof_requested"

\* What is on the ledger, or on its way there, was approved.
LedgerInv ==
    /\ Docs \subseteq GoodDocs
    /\ \A r \in Req : call[r].pc # "idle" => call[r].doc \in GoodDocs
    /\ \A r \in Req : agent[r].pc = "l2_wait" =>
          call[r].pc # "idle" /\ call[r].doc = document[agent[r].sub]

\* An approval of the ledger is in one place at a time: the ledger's answer, the
\* agent's answer, or the broker's row.
CallWins(r, d) == call[r].pc = "approved" /\ call[r].doc = d
AgentWins(r, d) == agent[r].pc = "ok" /\ document[agent[r].sub] = d
RowWins(s, d) == status[s] = "settled" /\ document[s] = d

WinnerInv ==
    \A d :
        /\ \A r \in Req : CallWins(r, d) \/ AgentWins(r, d) => d \in Docs
        /\ \A s \in Submission : RowWins(s, d) => d \in Docs
        /\ \A q, r \in Req : CallWins(q, d) /\ CallWins(r, d) => q = r
        /\ \A q, r \in Req : AgentWins(q, d) /\ AgentWins(r, d) => q = r
        /\ \A s, t \in Submission : RowWins(s, d) /\ RowWins(t, d) => s = t
        /\ \A q, r \in Req : ~ (CallWins(q, d) /\ AgentWins(r, d))
        /\ \A r \in Req, s \in Submission :
              ~ (CallWins(r, d) /\ RowWins(s, d)) /\ ~ (AgentWins(r, d) /\ RowWins(s, d))

PipeInv == PipelineTypeOK /\ AgentInv /\ ApprovalInv /\ RowInv /\ LedgerInv /\ WinnerInv

-----------------------------------------------------------------------------
LEMMA PipeInitially == Init => PipeInv
<1> SUFFICES ASSUME Init PROVE PipeInv
  OBVIOUS
<1> USE L2Assumption, PipelineAssumption DEF Init, L2Init, IdleAgent, IdlePoll, NoCall
<1>1. PipelineTypeOK
  BY DEF PipelineTypeOK
<1>2. AgentInv /\ ApprovalInv /\ RowInv
  BY DEF AgentInv, ApprovalInv, RowInv
<1>3. Docs = {}
  BY DEF Docs
<1>4. LedgerInv /\ WinnerInv
  BY <1>3 DEF LedgerInv, WinnerInv, CallWins, AgentWins, RowWins
<1> QED BY <1>1, <1>2, <1>4 DEF PipeInv

\* What loses an approval, or none, makes no second one.
LEMMA WinnersKept ==
    ASSUME WinnerInv, Docs \subseteq Docs',
           \A d : \A r \in Req : (CallWins(r, d)' => CallWins(r, d)) /\ (AgentWins(r, d)' => AgentWins(r, d)),
           \A d : \A s \in Submission : RowWins(s, d)' => RowWins(s, d)
    PROVE  WinnerInv'
<1> USE DEF WinnerInv
<1> SUFFICES ASSUME NEW d
             PROVE  /\ \A r \in Req : (CallWins(r, d) \/ AgentWins(r, d) => d \in Docs)'
                    /\ \A s \in Submission : (RowWins(s, d) => d \in Docs)'
                    /\ \A q, r \in Req : (CallWins(q, d) /\ CallWins(r, d) => q = r)'
                    /\ \A q, r \in Req : (AgentWins(q, d) /\ AgentWins(r, d) => q = r)'
                    /\ \A s, t \in Submission : (RowWins(s, d) /\ RowWins(t, d) => s = t)'
                    /\ \A q, r \in Req : (~ (CallWins(q, d) /\ AgentWins(r, d)))'
                    /\ \A r \in Req, s \in Submission :
                        (~ (CallWins(r, d) /\ RowWins(s, d)) /\ ~ (AgentWins(r, d) /\ RowWins(s, d)))'
  OBVIOUS
<1> QED OBVIOUS

(***************************************************************************)
(* The operators' steps and the ministry's.                                *)
(***************************************************************************)

\* A submission gets its document before anybody has approved it.
LEMMA CreateInv ==
    ASSUME PipeInv, NEW s \in Submission, NEW doc \in Doc, CreateSubmission(s, doc)
    PROVE  PipeInv'
<1> USE DEF PipeInv, CreateSubmission, SetStatus, l2Vars
<1>1. PipelineTypeOK'
  BY DEF PipelineTypeOK
<1>2. /\ \A t \in Submission : Approved(t) => t # s
      /\ \A t \in vc : t # s
      /\ \A t \in Submission : t # s => document'[t] = document[t] /\ status'[t] = status[t]
      /\ status[s] = "none" /\ status'[s] = "draft"
  BY DEF PipelineTypeOK, ApprovalInv, Approved
<1>3. AgentInv' /\ ApprovalInv'
  BY <1>2, L2Assumption DEF PipelineTypeOK, AgentInv, ApprovalInv
<1>4. RowInv'
  <2>1. poll.req # Null => agent[poll.req].sub \in vc
    BY DEF RowInv, AgentInv, PipelineTypeOK
  <2> QED BY <1>2, <2>1 DEF RowInv, PipelineTypeOK, ApprovalInv
<1>5. Docs' = Docs /\ GoodDocs' = GoodDocs
  BY <1>2 DEF Docs, GoodDocs, Approved, PipelineTypeOK
<1>6. LedgerInv'
  BY <1>2, <1>5 DEF LedgerInv, AgentInv, PipelineTypeOK
<1>7. WinnerInv'
  <2>1. \A d : \A r \in Req : (CallWins(r, d)' => CallWins(r, d)) /\ (AgentWins(r, d)' => AgentWins(r, d))
    BY <1>2 DEF AgentInv, PipelineTypeOK, CallWins, AgentWins
  <2>2. \A d : \A t \in Submission : RowWins(t, d)' => RowWins(t, d)
    BY <1>2 DEF RowWins
  <2> QED BY <1>5, <2>1, <2>2, WinnersKept
<1> QED BY <1>1, <1>3, <1>4, <1>6, <1>7

\* Most steps leave the ledger and the documents alone, take no approval back and
\* settle no row.
LEMMA QuietStep ==
    ASSUME PipeInv, UNCHANGED <<l2Vars, document>>,
           \A s \in Submission : Approved(s) => Approved(s)',
           \A r \in Req : agent'[r].pc \in {"l2_wait", "ok"} => agent'[r] = agent[r],
           \A s \in Submission : status'[s] = "settled" => status[s] = "settled"
    PROVE  LedgerInv' /\ WinnerInv'
<1> USE DEF PipeInv
<1>1. Docs' = Docs /\ GoodDocs \subseteq GoodDocs'
  BY DEF Docs, GoodDocs, l2Vars
<1>2. LedgerInv'
  BY <1>1 DEF LedgerInv, l2Vars
<1>3. \A d : \A r \in Req : (CallWins(r, d)' => CallWins(r, d)) /\ (AgentWins(r, d)' => AgentWins(r, d))
  BY DEF CallWins, AgentWins, l2Vars
<1>4. \A d : \A s \in Submission : RowWins(s, d)' => RowWins(s, d)
  BY DEF RowWins
<1> QED BY <1>1, <1>2, <1>3, <1>4, WinnersKept

\* The operator approves a draft.
LEMMA ApproveInv ==
    ASSUME PipeInv, NEW s \in Submission, ApproveSubmission(s)
    PROVE  PipeInv'
<1> USE L2Assumption, PipelineAssumption DEF PipeInv, ApproveSubmission, DecideReviewItem, SetStatus
<1>1. PipelineTypeOK'
  BY DEF PipelineTypeOK
<1>2. AgentInv'
  BY DEF PipelineTypeOK, AgentInv
<1>3. ApprovalInv'
  BY DEF PipelineTypeOK, ApprovalInv
<1>4. RowInv'
  BY DEF PipelineTypeOK, AgentInv, ApprovalInv, RowInv
<1>5. LedgerInv' /\ WinnerInv'
  BY QuietStep DEF PipelineTypeOK, ApprovalInv, Approved
<1> QED BY <1>1, <1>2, <1>3, <1>4, <1>5

\* The operator rejects it.
LEMMA RejectInv ==
    ASSUME PipeInv, NEW s \in Submission, RejectSubmission(s)
    PROVE  PipeInv'
<1> USE L2Assumption, PipelineAssumption DEF PipeInv, RejectSubmission, DecideReviewItem, SetStatus
<1>1. PipelineTypeOK'
  BY DEF PipelineTypeOK, Final
<1>2. AgentInv'
  BY DEF PipelineTypeOK, AgentInv
<1>3. ApprovalInv'
  BY DEF PipelineTypeOK, ApprovalInv
<1>4. RowInv'
  BY DEF PipelineTypeOK, AgentInv, ApprovalInv, RowInv
<1>5. LedgerInv' /\ WinnerInv'
  BY QuietStep DEF PipelineTypeOK, ApprovalInv, Approved
<1> QED BY <1>1, <1>2, <1>3, <1>4, <1>5

\* The ministry queues what the operator approved.
LEMMA ReceiveInv ==
    ASSUME PipeInv, NEW s \in Submission, MinistryReceives(s)
    PROVE  PipeInv'
<1> USE L2Assumption, PipelineAssumption DEF PipeInv, MinistryReceives, brokerVars
<1>1. PipelineTypeOK'
  BY DEF PipelineTypeOK
<1>2. AgentInv'
  BY DEF PipelineTypeOK, AgentInv
<1>3. ApprovalInv'
  BY DEF PipelineTypeOK, ApprovalInv
<1>4. RowInv'
  BY DEF PipelineTypeOK, AgentInv, ApprovalInv, RowInv
<1>5. LedgerInv' /\ WinnerInv'
  BY QuietStep DEF PipelineTypeOK, ApprovalInv, Approved
<1> QED BY <1>1, <1>2, <1>3, <1>4, <1>5

\* The approve handler ends.
LEMMA MinistryAnswersInv ==
    ASSUME PipeInv, NEW s \in Submission, MinistryAnswers(s)
    PROVE  PipeInv'
<1> USE L2Assumption, PipelineAssumption DEF PipeInv, MinistryAnswers, SetStatus, Fail
<1>1. PipelineTypeOK'
  BY DEF PipelineTypeOK, Final
<1>2. AgentInv'
  BY DEF PipelineTypeOK, AgentInv
<1>3. ApprovalInv'
  BY DEF PipelineTypeOK, ApprovalInv
<1>4. RowInv'
  BY DEF PipelineTypeOK, AgentInv, ApprovalInv, RowInv
<1>5. LedgerInv' /\ WinnerInv'
  BY QuietStep DEF PipelineTypeOK, ApprovalInv, Approved
<1> QED BY <1>1, <1>2, <1>3, <1>4, <1>5

\* It ends without an answer.
LEMMA MinistryUnreachableInv ==
    ASSUME PipeInv, NEW s \in Submission, MinistryUnreachable(s)
    PROVE  PipeInv'
<1> USE L2Assumption, PipelineAssumption DEF PipeInv, MinistryUnreachable, Outage, SetStatus, Fail
<1>1. PipelineTypeOK'
  BY DEF PipelineTypeOK, Final
<1>2. AgentInv'
  BY DEF PipelineTypeOK, AgentInv
<1>3. ApprovalInv'
  BY DEF PipelineTypeOK, ApprovalInv
<1>4. RowInv'
  BY DEF PipelineTypeOK, AgentInv, ApprovalInv, RowInv
<1>5. LedgerInv' /\ WinnerInv'
  BY QuietStep DEF PipelineTypeOK, ApprovalInv, Approved
<1> QED BY <1>1, <1>2, <1>3, <1>4, <1>5

\* The officer decides once.
LEMMA OfficerInv ==
    ASSUME PipeInv, NEW s \in Submission, NEW decision \in {"approved", "rejected"}, OfficerDecides(s, decision)
    PROVE  PipeInv'
<1> USE L2Assumption, PipelineAssumption DEF PipeInv, OfficerDecides, brokerVars
<1>1. PipelineTypeOK'
  BY DEF PipelineTypeOK
<1>2. AgentInv'
  BY DEF PipelineTypeOK, AgentInv
<1>3. ApprovalInv'
  BY DEF PipelineTypeOK, ApprovalInv
<1>4. RowInv'
  BY DEF PipelineTypeOK, AgentInv, ApprovalInv, RowInv
<1>5. LedgerInv' /\ WinnerInv'
  BY QuietStep DEF PipelineTypeOK, ApprovalInv, Approved
<1> QED BY <1>1, <1>2, <1>3, <1>4, <1>5

\* A tick reads the rows it will visit.
LEMMA TickInv ==
    ASSUME PipeInv, TickStarts
    PROVE  PipeInv'
<1> USE L2Assumption, PipelineAssumption DEF PipeInv, TickStarts, Loop, brokerVars
<1>1. PipelineTypeOK'
  BY DEF PipelineTypeOK
<1>2. AgentInv'
  BY DEF PipelineTypeOK, AgentInv
<1>3. ApprovalInv'
  BY DEF PipelineTypeOK, ApprovalInv
<1>4. RowInv'
  BY DEF PipelineTypeOK, AgentInv, ApprovalInv, RowInv
<1>5. LedgerInv' /\ WinnerInv'
  BY QuietStep DEF PipelineTypeOK, ApprovalInv, Approved
<1> QED BY <1>1, <1>2, <1>3, <1>4, <1>5

\* The next loop reads its own.
LEMMA LoopEndsInv ==
    ASSUME PipeInv, LoopEnds
    PROVE  PipeInv'
<1> USE L2Assumption, PipelineAssumption DEF PipeInv, LoopEnds, Loop, IdlePoll, brokerVars
<1>1. PipelineTypeOK'
  BY DEF PipelineTypeOK
<1>2. AgentInv'
  BY DEF PipelineTypeOK, AgentInv
<1>3. ApprovalInv'
  BY DEF PipelineTypeOK, ApprovalInv
<1>4. RowInv'
  BY DEF PipelineTypeOK, AgentInv, ApprovalInv, RowInv
<1>5. LedgerInv' /\ WinnerInv'
  BY QuietStep DEF PipelineTypeOK, ApprovalInv, Approved
<1> QED BY <1>1, <1>2, <1>3, <1>4, <1>5

\* A row is left for the next tick.
LEMMA CheckFailsInv ==
    ASSUME PipeInv, NEW s \in Submission, StatusCheckFails(s)
    PROVE  PipeInv'
<1> USE L2Assumption, PipelineAssumption DEF PipeInv, StatusCheckFails, Outage, brokerVars
<1>1. PipelineTypeOK'
  BY DEF PipelineTypeOK
<1>2. AgentInv'
  BY DEF PipelineTypeOK, AgentInv
<1>3. ApprovalInv'
  BY DEF PipelineTypeOK, ApprovalInv
<1>4. RowInv'
  BY DEF PipelineTypeOK, AgentInv, ApprovalInv, RowInv
<1>5. LedgerInv' /\ WinnerInv'
  BY QuietStep DEF PipelineTypeOK, ApprovalInv, Approved
<1> QED BY <1>1, <1>2, <1>3, <1>4, <1>5

\* A call to the agent begins, for a row that is awaiting one and has its credential.
LEMMA RunRestInv ==
    ASSUME PipeInv, NEW s \in Submission, s \in poll.todo, poll.req = Null,
           \/ poll.loop = "ministry" /\ ministry[s] = "approved" /\ vc' = vc \cup {s}
           \/ poll.loop = "resume" /\ vc' = vc,
           RunRestOfPipeline(s),
           UNCHANGED <<l2Vars, document, ministryRefId, error, review, posting, ministry, faultVars>>
    PROVE  PipeInv'
<1> USE L2Assumption, PipelineAssumption DEF PipeInv
<1>1. PICK r \in Req : /\ agent[r].pc = "idle"
                       /\ agent' = [agent EXCEPT ![r] = [pc |-> "prove", sub |-> s]]
                       /\ poll' = [poll EXCEPT !.todo = @ \ {s}, !.req = r]
  BY DEF RunRestOfPipeline
<1>2. status' = [status EXCEPT ![s] = "proof_requested"]
  BY DEF RunRestOfPipeline, SetStatus
<1>3. PipelineTypeOK'
  BY <1>1, <1>2 DEF PipelineTypeOK
<1>4. s \in vc' /\ vc \subseteq vc'
  BY DEF RowInv
<1>5. AgentInv'
  BY <1>1, <1>4 DEF PipelineTypeOK, AgentInv
<1>6. ApprovalInv'
  BY <1>2 DEF PipelineTypeOK, ApprovalInv
<1>7. status[s] \in {"awaiting_ministry_approval", "vc_received"}
  BY DEF RowInv
<1>8. RowInv'
  <2>1. \A t \in Submission : /\ review[t] = "awaiting_approval" => t # s
                              /\ posting[t] # "none" => t # s
    BY <1>7 DEF RowInv
  <2>2. /\ poll'.loop = poll.loop /\ poll'.todo = poll.todo \ {s} /\ poll'.req = r
        /\ agent'[r] = [pc |-> "prove", sub |-> s]
        /\ status'[s] = "proof_requested"
        /\ \A t \in Submission : t # s => status'[t] = status[t]
    BY <1>1, <1>2 DEF PipelineTypeOK
  <2> QED BY <1>4, <2>1, <2>2 DEF RowInv
<1>9. LedgerInv' /\ WinnerInv'
  <2>1. \A q \in Req : agent'[q].pc \in {"l2_wait", "ok"} => agent'[q] = agent[q]
    BY <1>1 DEF PipelineTypeOK
  <2>2. \A t \in Submission : status'[t] = "settled" => status[t] = "settled"
    BY <1>2 DEF PipelineTypeOK
  <2> QED BY <2>1, <2>2, QuietStep DEF Approved
<1> QED BY <1>3, <1>5, <1>6, <1>8, <1>9

\* A credential that the ministry issued is stored, and its agent call made; a
\* rejection is the row's end.
LEMMA CheckInv ==
    ASSUME PipeInv, NEW s \in Submission, CheckMinistryDecision(s)
    PROVE  PipeInv'
<1>1. CASE ministry[s] = "approved" /\ vc' = vc \cup {s} /\ RunRestOfPipeline(s)
  BY <1>1, RunRestInv DEF CheckMinistryDecision
<1>2. CASE /\ poll' = [poll EXCEPT !.todo = @ \ {s}]
           /\ \/ UNCHANGED status
              \/ SetStatus(s, "rejected")
           /\ UNCHANGED <<vc, agent>>
  <2> USE L2Assumption, <1>2 DEF PipeInv, CheckMinistryDecision, SetStatus
  <2>1. PipelineTypeOK'
    BY DEF PipelineTypeOK, Final
  <2>2. status[s] = "awaiting_ministry_approval" /\ poll.req = Null
    BY DEF RowInv
  <2>3. AgentInv' /\ ApprovalInv'
    BY <2>2 DEF PipelineTypeOK, AgentInv, ApprovalInv
  <2>4. RowInv'
    BY <2>2 DEF PipelineTypeOK, RowInv
  <2>5. LedgerInv' /\ WinnerInv'
    BY QuietStep DEF PipelineTypeOK, Approved
  <2> QED BY <2>1, <2>3, <2>4, <2>5
<1> QED BY <1>1, <1>2 DEF CheckMinistryDecision

\* A call is made again.
LEMMA ResumeInv ==
    ASSUME PipeInv, NEW s \in Submission, ResumeSubmission(s)
    PROVE  PipeInv'
  BY RunRestInv DEF ResumeSubmission

\* The poller stops waiting for its call.
LEMMA AgentUnreachableInv ==
    ASSUME PipeInv, NEW r \in Req, AgentUnreachable(r)
    PROVE  PipeInv'
<1> USE L2Assumption, PipelineAssumption DEF PipeInv, AgentUnreachable, Outage, SetStatus
<1>1. PipelineTypeOK'
  BY DEF PipelineTypeOK
<1>2. AgentInv'
  BY DEF PipelineTypeOK, AgentInv
<1>3. ApprovalInv'
  BY DEF PipelineTypeOK, ApprovalInv
<1>4. RowInv'
  BY DEF PipelineTypeOK, AgentInv, ApprovalInv, RowInv
<1>5. LedgerInv' /\ WinnerInv'
  BY QuietStep DEF PipelineTypeOK, ApprovalInv, Approved
<1> QED BY <1>1, <1>2, <1>3, <1>4, <1>5

\* The broker forgets whom it waits for.
LEMMA BrokerRestartInv ==
    ASSUME PipeInv, BrokerRestarts
    PROVE  PipeInv'
<1> USE L2Assumption, PipelineAssumption DEF PipeInv, BrokerRestarts, Outage, IdlePoll, brokerVars
<1>1. PipelineTypeOK'
  BY DEF PipelineTypeOK
<1>2. AgentInv'
  BY DEF PipelineTypeOK, AgentInv
<1>3. ApprovalInv'
  BY DEF PipelineTypeOK, ApprovalInv
<1>4. RowInv'
  BY DEF PipelineTypeOK, AgentInv, ApprovalInv, RowInv
<1>5. LedgerInv' /\ WinnerInv'
  BY QuietStep DEF PipelineTypeOK, ApprovalInv, Approved
<1> QED BY <1>1, <1>2, <1>3, <1>4, <1>5

\* The proof is made, or not.
LEMMA ProvedInv ==
    ASSUME PipeInv, NEW r \in Req, ProofGenerated(r) \/ ProverFails(r)
    PROVE  PipeInv'
<1> USE DEF PipeInv
<1>1. /\ agent[r].pc = "prove"
      /\ \E pc \in {"l2", "prover_failed"} : agent' = [agent EXCEPT ![r].pc = pc]
      /\ UNCHANGED <<l2Vars, brokerVars, posting, ministry, poll>>
  BY DEF ProofGenerated, ProverFails, AgentGoes
<1>2. PipelineTypeOK' /\ AgentInv'
  BY <1>1 DEF PipelineTypeOK, AgentInv, brokerVars
<1>3. ApprovalInv' /\ RowInv'
  BY <1>1 DEF PipelineTypeOK, ApprovalInv, RowInv, brokerVars
<1>4. \A q \in Req : agent'[q].pc \in {"l2_wait", "ok"} => agent'[q] = agent[q]
  BY <1>1 DEF PipelineTypeOK
<1>5. LedgerInv' /\ WinnerInv'
  BY <1>1, <1>4, QuietStep DEF Approved, brokerVars
<1> QED BY <1>2, <1>3, <1>5

\* The agent stops waiting for the ledger.
LEMMA L2UnreachableInv ==
    ASSUME PipeInv, NEW r \in Req, L2Unreachable(r)
    PROVE  PipeInv'
<1> USE L2Assumption, PipelineAssumption DEF PipeInv, L2Unreachable, AgentGoes, Outage, brokerVars
<1>1. PipelineTypeOK'
  BY DEF PipelineTypeOK
<1>2. AgentInv'
  BY DEF PipelineTypeOK, AgentInv
<1>3. ApprovalInv'
  BY DEF PipelineTypeOK, ApprovalInv
<1>4. RowInv'
  BY DEF PipelineTypeOK, AgentInv, ApprovalInv, RowInv
<1>5. LedgerInv' /\ WinnerInv'
  BY QuietStep DEF PipelineTypeOK, ApprovalInv, Approved
<1> QED BY <1>1, <1>2, <1>3, <1>4, <1>5

(***************************************************************************)
(* The answers, and the ledger.                                            *)
(***************************************************************************)

\* An approval moves from the agent's answer to the broker's row.
LEMMA AgentAnswersInv ==
    ASSUME PipeInv, NEW r \in Req, AgentAnswers(r)
    PROVE  PipeInv'
<1> USE L2Assumption, PipelineAssumption DEF PipeInv
<1> DEFINE s == agent[r].sub
<1>1. /\ poll.req = r /\ r # Null /\ agent[r].pc # "idle"
      /\ s \in Submission /\ s \in vc
      /\ status[s] = "proof_requested"
  BY DEF AgentAnswers, RowInv, AgentInv, PipelineTypeOK
<1>2. /\ status' \in {[status EXCEPT ![s] = "settled"], [status EXCEPT ![s] = "failed"]}
      /\ status'[s] = "settled" => agent[r].pc = "ok"
      /\ agent' = [agent EXCEPT ![r] = IdleAgent]
      /\ poll' = [poll EXCEPT !.req = Null]
      /\ UNCHANGED <<l2Vars, document, ministryRefId, vc, review, posting, ministry>>
  BY <1>1 DEF AgentAnswers, Fail, SetStatus, PipelineTypeOK
<1> HIDE DEF s
<1>3. PipelineTypeOK' /\ AgentInv'
  BY <1>1, <1>2 DEF PipelineTypeOK, AgentInv, IdleAgent, Final
<1>4. ApprovalInv' /\ RowInv'
  BY <1>1, <1>2 DEF PipelineTypeOK, ApprovalInv, RowInv
<1>5. Docs' = Docs /\ GoodDocs' = GoodDocs
  BY <1>2 DEF Docs, GoodDocs, Approved, l2Vars
<1>6. LedgerInv'
  BY <1>2, <1>5 DEF LedgerInv, PipelineTypeOK, IdleAgent, l2Vars
<1>7. \A d : \A q \in Req : /\ CallWins(q, d)' <=> CallWins(q, d)
                            /\ AgentWins(q, d)' <=> AgentWins(q, d) /\ q # r
  BY <1>2 DEF CallWins, AgentWins, PipelineTypeOK, IdleAgent, l2Vars
<1>8. \A d : \A t \in Submission : RowWins(t, d)' =>
          \/ RowWins(t, d)
          \/ t = s /\ AgentWins(r, d)
  BY <1>1, <1>2 DEF RowWins, AgentWins, PipelineTypeOK, s
<1>9. WinnerInv'
  BY <1>5, <1>7, <1>8 DEF WinnerInv
<1> QED BY <1>3, <1>4, <1>6, <1>9

\* The document of the submission goes to the ledger.
LEMMA L2ReceivesInv ==
    ASSUME PipeInv, NEW r \in Req, L2Receives(r), L2TypeOK
    PROVE  PipeInv'
<1> USE L2Assumption, PipelineAssumption DEF PipeInv
<1> DEFINE s == agent[r].sub
<1>1. /\ agent[r].pc = "l2" /\ call[r].pc = "idle"
      /\ s \in vc /\ s \in Submission
      /\ document[s] \in GoodDocs
  BY DEF L2Receives, VerifyAndSettle, AgentInv, PipelineTypeOK, ApprovalInv, GoodDocs, Approved
<1>2. /\ agent' = [agent EXCEPT ![r].pc = "l2_wait"]
      /\ \E pc \in {"verify", "forbidden"} :
            call' = [call EXCEPT ![r] = [pc |-> pc, doc |-> document[s], key |-> MinistryKey]]
      /\ UNCHANGED <<settled, brokerVars, posting, ministry, poll>>
  BY DEF L2Receives, VerifyAndSettle, AgentGoes, ledgerVars
<1> HIDE DEF s
<1>3. PipelineTypeOK' /\ AgentInv'
  BY <1>1, <1>2 DEF PipelineTypeOK, AgentInv, brokerVars
<1>4. ApprovalInv' /\ RowInv'
  BY <1>1, <1>2 DEF PipelineTypeOK, ApprovalInv, RowInv, brokerVars
<1>5. Docs' = Docs /\ GoodDocs' = GoodDocs
  BY <1>2 DEF Docs, GoodDocs, Approved, brokerVars
<1>6. /\ agent'[r].pc = "l2_wait" /\ agent'[r].sub = s
      /\ call'[r].pc \in {"verify", "forbidden"} /\ call'[r].doc = document[s]
      /\ \A q \in Req \ {r} : agent'[q] = agent[q] /\ call'[q] = call[q]
  BY <1>2 DEF PipelineTypeOK, L2TypeOK, s
<1>7. LedgerInv'
  BY <1>1, <1>2, <1>5, <1>6 DEF LedgerInv, brokerVars
<1>8. \A d : \A q \in Req : (CallWins(q, d)' => CallWins(q, d)) /\ (AgentWins(q, d)' => AgentWins(q, d))
  BY <1>2, <1>6 DEF CallWins, AgentWins, brokerVars
<1>9. \A d : \A t \in Submission : RowWins(t, d)' => RowWins(t, d)
  BY <1>2 DEF RowWins, brokerVars
<1>10. WinnerInv'
  BY <1>5, <1>8, <1>9, WinnersKept
<1> QED BY <1>3, <1>4, <1>7, <1>10

\* An approval moves from the ledger's answer to the agent's.
LEMMA L2AnswersInv ==
    ASSUME PipeInv, NEW r \in Req, L2Answers(r), L2TypeOK
    PROVE  PipeInv'
<1> USE L2Assumption, PipelineAssumption DEF PipeInv
<1> DEFINE s == agent[r].sub
<1>1. /\ agent[r].pc = "l2_wait" /\ s \in vc /\ s \in Submission
      /\ call[r].doc = document[s]
  BY DEF L2Answers, AgentInv, PipelineTypeOK, LedgerInv
<1>2. \E pc \in {"ok", "l2_unreachable", "l2_refused"} :
        /\ agent' = [agent EXCEPT ![r].pc = pc]
        /\ pc = "ok" => call[r].pc = "approved"
  BY DEF L2Answers, AgentGoes, Verdict
<1>3. /\ call' = [call EXCEPT ![r] = NoCall]
      /\ UNCHANGED <<settled, brokerVars, posting, ministry, poll>>
  BY DEF L2Answers, Answered, ledgerVars
<1> HIDE DEF s
<1>4. PipelineTypeOK' /\ AgentInv'
  BY <1>1, <1>2, <1>3 DEF PipelineTypeOK, AgentInv, brokerVars
<1>5. ApprovalInv' /\ RowInv'
  BY <1>1, <1>2, <1>3 DEF PipelineTypeOK, ApprovalInv, RowInv, brokerVars
<1>6. Docs' = Docs /\ GoodDocs' = GoodDocs
  BY <1>3 DEF Docs, GoodDocs, Approved, brokerVars
<1>7. /\ agent'[r].pc \in {"ok", "l2_unreachable", "l2_refused"} /\ agent'[r].sub = s
      /\ agent'[r].pc = "ok" => call[r].pc = "approved"
      /\ call'[r].pc = "idle"
      /\ \A q \in Req \ {r} : agent'[q] = agent[q] /\ call'[q] = call[q]
  BY <1>2, <1>3 DEF PipelineTypeOK, L2TypeOK, s, NoCall
<1>8. LedgerInv'
  BY <1>3, <1>6, <1>7 DEF LedgerInv, brokerVars
<1>9. \A d : \A q \in Req : /\ CallWins(q, d)' <=> CallWins(q, d) /\ q # r
                            /\ AgentWins(q, d)' => AgentWins(q, d) \/ (q = r /\ CallWins(r, d))
  BY <1>1, <1>3, <1>7 DEF CallWins, AgentWins, brokerVars
<1>10. \A d : \A t \in Submission : RowWins(t, d)' <=> RowWins(t, d)
  BY <1>3 DEF RowWins, brokerVars
<1>11. WinnerInv'
  BY <1>6, <1>9, <1>10 DEF WinnerInv
<1> QED BY <1>4, <1>5, <1>8, <1>11

\* An answer that nobody waits for is lost, and its approval with it.
LEMMA DroppedInv ==
    ASSUME PipeInv, NEW r \in Req, AnswerDropped(r), L2TypeOK
    PROVE  PipeInv'
<1> USE L2Assumption, PipelineAssumption DEF PipeInv
<1>1. CASE agent[r].pc # "l2_wait" /\ Answered(r) /\ UNCHANGED pipeVars
  <2>1. /\ call' = [call EXCEPT ![r] = NoCall]
        /\ UNCHANGED <<settled, brokerVars, posting, ministry, poll, agent>>
    BY <1>1 DEF Answered, ledgerVars, pipeVars
  <2>2. PipelineTypeOK' /\ AgentInv' /\ ApprovalInv' /\ RowInv'
    BY <2>1 DEF PipelineTypeOK, AgentInv, ApprovalInv, RowInv, brokerVars
  <2>3. Docs' = Docs /\ GoodDocs' = GoodDocs
    BY <2>1 DEF Docs, GoodDocs, Approved, brokerVars
  <2>4. call'[r].pc = "idle" /\ \A q \in Req \ {r} : call'[q] = call[q]
    BY <2>1 DEF L2TypeOK, NoCall
  <2>5. LedgerInv'
    BY <1>1, <2>1, <2>3, <2>4 DEF LedgerInv, brokerVars
  <2>6. \A d : \A q \in Req : (CallWins(q, d)' => CallWins(q, d)) /\ (AgentWins(q, d)' => AgentWins(q, d))
    BY <2>1, <2>4 DEF CallWins, AgentWins, brokerVars
  <2>7. \A d : \A t \in Submission : RowWins(t, d)' => RowWins(t, d)
    BY <2>1 DEF RowWins, brokerVars
  <2>8. WinnerInv'
    BY <2>3, <2>6, <2>7, WinnersKept
  <2> QED BY <2>2, <2>5, <2>8
<1>2. CASE /\ poll.req # r
           /\ agent' = [agent EXCEPT ![r] = IdleAgent]
           /\ UNCHANGED <<l2Vars, brokerVars, posting, ministry, poll, faultVars>>
  <2>1. PipelineTypeOK' /\ AgentInv'
    BY <1>2 DEF PipelineTypeOK, AgentInv, IdleAgent, brokerVars
  <2>2. ApprovalInv' /\ RowInv'
    BY <1>2 DEF PipelineTypeOK, ApprovalInv, RowInv, brokerVars
  <2>3. \A q \in Req : agent'[q].pc \in {"l2_wait", "ok"} => agent'[q] = agent[q]
    BY <1>2 DEF PipelineTypeOK, IdleAgent
  <2>4. LedgerInv' /\ WinnerInv'
    BY <1>2, <2>3, QuietStep DEF Approved, brokerVars
  <2> QED BY <2>1, <2>2, <2>4
<1> QED BY <1>1, <1>2 DEF AnswerDropped

\* What a step of the ledger does to its documents and to the calls: nothing that
\* matters here, or the document of one call is recorded, which was not.
LEMMA LedgerSummary ==
    ASSUME L2Inv, LedgerStep
    PROVE  \/ /\ Docs' = Docs
              /\ \A r \in Req : /\ call'[r].doc = call[r].doc
                                /\ call'[r].pc = "approved" <=> call[r].pc = "approved"
                                /\ call'[r].pc = "idle" <=> call[r].pc = "idle"
           \/ \E r \in Req : /\ call[r].pc = "append"
                             /\ call[r].doc \notin Docs
                             /\ Docs' = Docs \cup {call[r].doc}
                             /\ call'[r].pc = "approved" /\ call'[r].doc = call[r].doc
                             /\ \A q \in Req \ {r} : call'[q] = call[q]
<1> USE L2Assumption
<1> DEFINE Same == \A r \in Req : /\ call'[r].doc = call[r].doc
                                  /\ call'[r].pc = "approved" <=> call[r].pc = "approved"
                                  /\ call'[r].pc = "idle" <=> call[r].pc = "idle"
<1>1. ASSUME NEW r \in Req, SettleSave(r)
      PROVE  /\ call[r].pc = "append"
             /\ call[r].doc \notin Docs
             /\ Docs' = Docs \cup {call[r].doc}
             /\ call'[r].pc = "approved" /\ call'[r].doc = call[r].doc
             /\ \A q \in Req \ {r} : call'[q] = call[q]
  <2>1. call[r].pc = "append" /\ loaded = settled /\ settled \in Seq(Record)
    BY <1>1 DEF L2Inv, MutexInv, L2TypeOK, SettleSave
  <2> DEFINE rec == [doc |-> call[r].doc, key |-> call[r].key, settledAt |-> clock, status |-> "APPROVED"]
  <2>2. settled' = Append(settled, rec) /\ rec.doc = call[r].doc
    BY <1>1, <2>1 DEF SettleSave
  <2>3. call[r].doc \notin Docs
    BY <1>1, <2>1 DEF SettleSave, Duplicate, Docs
  <2> HIDE DEF rec
  <2>4. DOMAIN settled' = DOMAIN settled \cup {Len(settled) + 1}
    BY <2>1, <2>2
  <2>5. settled'[Len(settled) + 1] = rec /\ \A i \in DOMAIN settled : settled'[i] = settled[i]
    BY <2>1, <2>2
  <2>6. Docs' = Docs \cup {call[r].doc}
    BY <2>2, <2>4, <2>5 DEF Docs
  <2>7. /\ call'[r].pc = "approved" /\ call'[r].doc = call[r].doc
        /\ \A q \in Req \ {r} : call'[q] = call[q]
    BY <1>1 DEF SettleSave, Reply, L2Inv, L2TypeOK
  <2> QED BY <2>1, <2>3, <2>6, <2>7
<1>2. ASSUME NEW v \in Rev, RevokeMark(v) PROVE Docs' = Docs /\ Same
  <2>1. loaded = settled /\ settled \in Seq(Record) /\ call' = call
    BY <1>2 DEF L2Inv, MutexInv, L2TypeOK, RevokeMark
  <2>2. settled' = [i \in DOMAIN settled |-> Flagged(settled[i], v)]
    BY <1>2, <2>1 DEF RevokeMark
  <2>3. \A i \in DOMAIN settled : settled'[i].doc = settled[i].doc
    BY <2>1, <2>2, FlaggedType
  <2>4. DOMAIN settled' = DOMAIN settled
    BY <2>2
  <2> QED BY <2>1, <2>3, <2>4 DEF Docs
<1>3. ASSUME NEW r \in Req,
             \/ \E proofValid \in BOOLEAN : ProofVerified(r, proofValid)
             \/ SettleLoad(r)
             \/ SettleReplay(r)
      PROVE  Docs' = Docs /\ Same
  <2>1. /\ call[r].pc \in {"verify", "mutex", "append"}
        /\ \E pc \in {"mutex", "invalid", "append", "duplicate"} : call' = [call EXCEPT ![r].pc = pc]
        /\ settled' = settled
    BY <1>3 DEF ProofVerified, SettleLoad, SettleReplay, Reply, ledgerVars
  <2>2. Same
    BY <2>1 DEF L2Inv, L2TypeOK
  <2> QED BY <2>1, <2>2 DEF Docs
<1>4. CASE Restart
  <2>1. Same
    BY <1>4 DEF Restart, L2Inv, L2TypeOK
  <2> QED BY <1>4, <2>1 DEF Restart, Docs
<1>5. CASE UNCHANGED <<settled, call>>
  BY <1>5 DEF Docs
<1>6. ASSUME NEW v \in Rev, RevokeStep(v) PROVE RevokeMark(v) \/ UNCHANGED <<settled, call>>
  BY <1>6 DEF RevokeStep, CollectEntries, PersistRevokedKeys, RevocationNotPersisted,
              RevokeLoad, ledgerVars
<1>7. ASSUME NEW v \in Rev, NEW k \in Key, NEW compromisedAt, RevokeKey(v, k, compromisedAt)
      PROVE  UNCHANGED <<settled, call>>
  BY <1>7 DEF RevokeKey, ledgerVars
<1>8. ClockTick \/ SyncMinistryPublicKey(MinistryKey) => UNCHANGED <<settled, call>>
  BY DEF ClockTick, SyncMinistryPublicKey, ledgerVars
<1>9. \/ \E r \in Req : SettleStep(r)
      \/ \E v \in Rev : RevokeStep(v)
      \/ \E v \in Rev, k \in Key, compromisedAt \in Clocks : RevokeKey(v, k, compromisedAt)
      \/ Restart
      \/ ClockTick \/ SyncMinistryPublicKey(MinistryKey)
  BY DEF LedgerStep, L2Step
<1>10. CASE \E r \in Req : SettleStep(r)
  BY <1>10, <1>1, <1>3 DEF SettleStep
<1>11. CASE \E v \in Rev : RevokeStep(v)
  BY <1>11, <1>2, <1>5, <1>6
<1>12. CASE \E v \in Rev, k \in Key, compromisedAt \in Clocks : RevokeKey(v, k, compromisedAt)
  BY <1>12, <1>5, <1>7
<1> QED BY <1>4, <1>5, <1>8, <1>9, <1>10, <1>11, <1>12

\* The ledger's steps: at most one call wins its document.
LEMMA LedgerStepInv ==
    ASSUME PipeInv, L2Inv, LedgerStep
    PROVE  PipeInv'
<1> USE DEF PipeInv
<1>1. UNCHANGED <<brokerVars, posting, ministry, poll, agent>>
  BY DEF LedgerStep, pipeVars
<1>2. PipelineTypeOK' /\ AgentInv' /\ ApprovalInv' /\ RowInv'
  BY <1>1 DEF PipelineTypeOK, AgentInv, ApprovalInv, RowInv, brokerVars
<1>3. GoodDocs' = GoodDocs
  BY <1>1 DEF GoodDocs, Approved, brokerVars
<1>4. /\ \A d : \A r \in Req : AgentWins(r, d)' <=> AgentWins(r, d)
      /\ \A d : \A s \in Submission : RowWins(s, d)' <=> RowWins(s, d)
  BY <1>1 DEF AgentWins, RowWins, brokerVars
<1>5. CASE /\ Docs' = Docs
           /\ \A r \in Req : /\ call'[r].doc = call[r].doc
                             /\ call'[r].pc = "approved" <=> call[r].pc = "approved"
                             /\ call'[r].pc = "idle" <=> call[r].pc = "idle"
  <2>1. LedgerInv'
    BY <1>1, <1>3, <1>5 DEF LedgerInv, brokerVars
  <2>2. \A d : \A r \in Req : CallWins(r, d)' => CallWins(r, d)
    BY <1>5 DEF CallWins
  <2>3. WinnerInv'
    BY <1>4, <1>5, <2>2, WinnersKept
  <2> QED BY <1>2, <2>1, <2>3
<1>6. ASSUME NEW r \in Req,
             call[r].pc = "append",
             call[r].doc \notin Docs,
             Docs' = Docs \cup {call[r].doc},
             call'[r].pc = "approved" /\ call'[r].doc = call[r].doc,
             \A q \in Req \ {r} : call'[q] = call[q]
      PROVE  PipeInv'
  <2>1. call[r].doc \in GoodDocs
    BY <1>6 DEF LedgerInv
  <2>2. LedgerInv'
    BY <1>1, <1>3, <1>6, <2>1 DEF LedgerInv, brokerVars
  <2>3. \A d : \A q \in Req :
           CallWins(q, d)' => CallWins(q, d) \/ (q = r /\ d = call[r].doc)
    BY <1>6 DEF CallWins
  <2>4. WinnerInv'
    BY <1>4, <1>6, <2>3 DEF WinnerInv
  <2> QED BY <1>2, <2>2, <2>4
<1> QED BY <1>5, <1>6, LedgerSummary

-----------------------------------------------------------------------------
\* To the ledger, the pipeline is a client: each of its steps is one of the ledger's
\* protocol, or does not touch it.
LEMMA StepIsL2 ==
    ASSUME PipeInv, [Next]_vars
    PROVE  [L2Next]_l2Vars
<1> USE PipelineAssumption DEF PipeInv
<1>1. ASSUME NEW r \in Req, L2Receives(r) PROVE L2Next
  <2>1. document[agent[r].sub] \in Doc
    BY <1>1 DEF L2Receives, AgentInv, ApprovalInv, PipelineTypeOK
  <2> QED BY <1>1, <2>1 DEF L2Receives, L2Next
<1>2. ASSUME NEW r \in Req, AgentStep(r) PROVE L2Next \/ UNCHANGED l2Vars
  BY <1>1, <1>2 DEF AgentStep, ProofGenerated, L2Answers, AnswerDropped, L2Next
<1>3. CASE LedgerStep
  BY <1>3 DEF LedgerStep, L2Next
<1>4. OperatorStep => UNCHANGED l2Vars
  BY DEF OperatorStep, CreateSubmission, ApproveSubmission, RejectSubmission, OfficerDecides
<1>5. PollerStep => UNCHANGED l2Vars
  BY DEF PollerStep, TickStarts, LoopEnds, CheckMinistryDecision, ResumeSubmission, AgentAnswers
<1>6. OutageStep => UNCHANGED l2Vars
  BY DEF OutageStep, MinistryUnreachable, StatusCheckFails, AgentUnreachable, ProverFails,
         L2Unreachable, BrokerRestarts
<1>7. ASSUME NEW s \in Submission, MinistryReceives(s) \/ MinistryAnswers(s)
      PROVE  UNCHANGED l2Vars
  BY <1>7 DEF MinistryReceives, MinistryAnswers
<1>8. CASE UNCHANGED vars
  BY <1>8 DEF vars
<1> QED BY <1>2, <1>3, <1>4, <1>5, <1>6, <1>7, <1>8 DEF Next

LEMMA PipeStep == PipeInv /\ L2Inv /\ [Next]_vars => PipeInv' /\ L2Inv'
<1> SUFFICES ASSUME PipeInv, L2Inv, [Next]_vars PROVE PipeInv' /\ L2Inv'
  OBVIOUS
<1>1. L2Inv'
  BY StepIsL2, L2NextInv
<1>2. SUFFICES PipeInv'
  BY <1>1
<1>3. CASE OperatorStep
  BY <1>3, CreateInv, ApproveInv, RejectInv, OfficerInv DEF OperatorStep
<1>4. CASE \E s \in Submission : MinistryReceives(s) \/ MinistryAnswers(s)
  BY <1>4, ReceiveInv, MinistryAnswersInv
<1>5. CASE PollerStep
  BY <1>5, TickInv, LoopEndsInv, CheckInv, ResumeInv, AgentAnswersInv DEF PollerStep
<1>6. CASE \E r \in Req : AgentStep(r)
  BY <1>6, ProvedInv, L2ReceivesInv, L2AnswersInv, DroppedInv DEF AgentStep, L2Inv
<1>7. CASE OutageStep
  BY <1>7, MinistryUnreachableInv, CheckFailsInv, AgentUnreachableInv, ProvedInv, L2UnreachableInv,
     BrokerRestartInv DEF OutageStep
<1>8. CASE LedgerStep
  BY <1>8, LedgerStepInv
<1>9. CASE UNCHANGED vars
  <2>1. UNCHANGED <<settled, call, brokerVars, posting, ministry, poll, agent>>
    BY <1>9 DEF vars, pipeVars, l2Vars
  <2>2. Docs' = Docs /\ GoodDocs' = GoodDocs
    BY <2>1 DEF Docs, GoodDocs, Approved, brokerVars
  <2>3. LedgerInv' /\ PipelineTypeOK' /\ AgentInv' /\ ApprovalInv' /\ RowInv'
    BY <2>1, <2>2 DEF PipeInv, LedgerInv, PipelineTypeOK, AgentInv, ApprovalInv, RowInv, brokerVars
  <2>4. WinnerInv'
    BY <2>1, <2>2, WinnersKept DEF PipeInv, CallWins, AgentWins, RowWins, brokerVars
  <2> QED BY <2>3, <2>4 DEF PipeInv
<1> QED BY <1>3, <1>4, <1>5, <1>6, <1>7, <1>8, <1>9 DEF Next

\* The invariant of the pipeline: every theorem below rests on it.
THEOREM PipelineInvariant == Spec => [](PipeInv /\ L2Inv)
<1>1. Init => PipeInv /\ L2Inv
  BY PipeInitially, L2InitInv DEF Init
<1> QED BY <1>1, PipeStep, PTL DEF Spec

\* The composition of broker, ministry and agent keeps the ledger's protocol, so that
\* what is proved of the ledger alone holds in it (customs-broker, ministry,
\* ublp-agent, l2-verifier-mock).
THEOREM PipelineImplementsLedger == Spec => L2Spec
<1>1. Init => L2Init
  BY DEF Init
<1>2. PipeInv /\ L2Inv /\ [Next]_vars => [L2Next]_l2Vars
  BY StepIsL2
<1> QED BY <1>1, <1>2, PipelineInvariant, PTL DEF Spec, L2Spec

\* Hence, behind the broker, the ministry and the agent, it is the abstract ledger that
\* settles the documents.
THEOREM PipelineKeepsLedgerPromise == Spec => FilesKeepLedgerPromise
  BY PipelineImplementsLedger, FilesImplementLedger

\* Only what the broker's operator and the ministry's officer approved is settled.
THEOREM OnlyApproved == Spec => []OnlyApprovedSettles
<1>1. PipeInv => OnlyApprovedSettles
  <2> SUFFICES ASSUME PipeInv, NEW i \in DOMAIN settled
               PROVE  \E s \in Submission : /\ document[s] = settled[i].doc
                                            /\ review[s] = "approved" /\ ministry[s] = "approved"
    BY DEF OnlyApprovedSettles
  <2>1. settled[i].doc \in GoodDocs
    BY DEF PipeInv, LedgerInv, Docs
  <2> QED BY <2>1 DEF GoodDocs, Approved
<1> QED BY <1>1, PipelineInvariant, PTL

\* A settled row has its document on the ledger, and no other row has.
THEOREM SettledOnceAlways == Spec => []SettledOnce
<1>1. PipeInv => SettledOnce
  <2> SUFFICES ASSUME PipeInv PROVE SettledOnce
    OBVIOUS
  <2>1. ASSUME NEW s \in Submission, status[s] = "settled"
        PROVE  \E i \in DOMAIN settled : settled[i].doc = document[s]
    <3>1. document[s] \in Docs
      BY <2>1 DEF PipeInv, WinnerInv, RowWins
    <3> QED BY <3>1 DEF Docs
  <2>2. ASSUME NEW s \in Submission, NEW t \in Submission,
               status[s] = "settled", status[t] = "settled", document[s] = document[t]
        PROVE  s = t
    <3>1. RowWins(s, document[s]) /\ RowWins(t, document[s])
      BY <2>2 DEF RowWins
    <3> QED BY <3>1 DEF PipeInv, WinnerInv
  <2> QED BY <2>1, <2>2 DEF SettledOnce
<1> QED BY <1>1, PipelineInvariant, PTL

\* A settled, rejected or failed row stays as it is (poller.ts, server.ts).
THEOREM OutcomesFinal == Spec => OutcomeIsFinal
<1> DEFINE Stays == \A s \in Submission : status[s] \in Final => status'[s] = status[s]
<1>1. ASSUME PipeInv, [Next]_vars PROVE [Stays]_vars
  <2> SUFFICES ASSUME NEW s \in Submission, status[s] \in Final PROVE status'[s] = status[s]
    OBVIOUS
  <2> USE <1>1 DEF PipeInv, SetStatus, Fail, brokerVars
  <2>1. CASE OperatorStep
    BY <2>1 DEF OperatorStep, CreateSubmission, ApproveSubmission, RejectSubmission, OfficerDecides,
                DecideReviewItem, RowInv, PipelineTypeOK, Final
  <2>2. CASE \E t \in Submission : MinistryReceives(t) \/ MinistryAnswers(t)
    BY <2>2 DEF MinistryReceives, MinistryAnswers, RowInv, PipelineTypeOK, Final
  <2>3. CASE PollerStep
    <3>1. ASSUME NEW t \in Submission, CheckMinistryDecision(t) PROVE status'[s] = status[s]
      <4>1. status[t] = "awaiting_ministry_approval"
        BY <3>1 DEF CheckMinistryDecision, RowInv
      <4>2. \/ status' = status
            \/ \E new \in {"rejected", "proof_requested"} : status' = [status EXCEPT ![t] = new]
        BY <3>1 DEF CheckMinistryDecision, RunRestOfPipeline
      <4> QED BY <4>1, <4>2 DEF PipelineTypeOK, Final
    <3>2. ASSUME NEW t \in Submission, ResumeSubmission(t) PROVE status'[s] = status[s]
      BY <3>2 DEF ResumeSubmission, RunRestOfPipeline, RowInv, PipelineTypeOK, Final
    <3>3. ASSUME NEW r \in Req, AgentAnswers(r) PROVE status'[s] = status[s]
      BY <3>3, L2Assumption DEF AgentAnswers, RowInv, PipelineTypeOK, Final
    <3> QED BY <2>3, <3>1, <3>2, <3>3 DEF PollerStep, TickStarts, LoopEnds
  <2>4. CASE \E r \in Req : AgentStep(r)
    BY <2>4 DEF AgentStep, ProofGenerated, L2Receives, L2Answers, AnswerDropped, pipeVars
  <2>5. CASE OutageStep
    <3>1. ASSUME NEW t \in Submission, MinistryUnreachable(t) PROVE status'[s] = status[s]
      BY <3>1 DEF MinistryUnreachable, RowInv, PipelineTypeOK, Final
    <3>2. ASSUME NEW r \in Req, AgentUnreachable(r) PROVE status'[s] = status[s]
      BY <3>2, L2Assumption DEF AgentUnreachable, RowInv, PipelineTypeOK, Final
    <3> QED BY <2>5, <3>1, <3>2 DEF OutageStep, StatusCheckFails, ProverFails, L2Unreachable, BrokerRestarts
  <2>6. CASE LedgerStep
    BY <2>6 DEF LedgerStep, pipeVars
  <2>7. CASE UNCHANGED vars
    BY <2>7 DEF vars, pipeVars
  <2> QED BY <2>1, <2>2, <2>3, <2>4, <2>5, <2>6, <2>7 DEF Next
<1> QED BY <1>1, PipelineInvariant, PTL DEF Spec, OutcomeIsFinal
=============================================================================
