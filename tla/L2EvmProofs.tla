----------------------------- MODULE L2EvmProofs -----------------------------
(***************************************************************************)
(* What the connectors and the Settlement contract guarantee, for any       *)
(* number of requests, connectors and documents.                            *)
(***************************************************************************)
EXTENDS L2Evm, TLAPS

\* A handler's request only moves on in its own way: its connector, document,
\* spelling, proof and time of arrival stay.
SameRequest(r) ==
    \A q \in Requests :
        /\ request'[q].doc = request[q].doc
        /\ request'[q].connector = request[q].connector
        /\ request'[q].spelling = request[q].spelling
        /\ request'[q].valid = request[q].valid
        /\ request'[q].late = request[q].late
        /\ q # r => request'[q] = request[q]

LEMMA AnswerMoves ==
    ASSUME EvmTypeOK, NEW r \in Requests, NEW answer \in Answers, Answer(r, answer)
    PROVE  /\ request' \in [Requests -> RequestStates]
           /\ SameRequest(r)
           /\ request'[r].pc = "done" /\ request'[r].answer = answer
  BY DEF EvmTypeOK, Answer, SameRequest, RequestStates

-----------------------------------------------------------------------------
\* Initially there is no transaction and no record.
LEMMA EvmInitially == Init => EvmInv
  BY NoneAssumption DEF Init, EvmInv, EvmTypeOK, RecordsOfExecuted, ApprovalsAccounted,
     RefusalsAreTrue, RequestStates, Idle, Answers, Spellings

\* The chain writes a record once, and a transaction that finds one is told so.
LEMMA ExecutesInv ==
    ASSUME EvmInv, NEW r \in Requests, Executes(r)
    PROVE  EvmInv'
<1>1. /\ tx[r] = "pending" /\ request[r].valid /\ request[r].doc \in Documents
      /\ request[r].pc \notin {"idle", "simulate", "write"}
      /\ request[r].answer \notin {"approved", "logged", "rejected", "invalid", "malformed"}
      /\ UNCHANGED <<log, request>>
  BY DEF Executes, EvmInv, EvmTypeOK, ApprovalsAccounted, RefusalsAreTrue, Idle
<1>2. CASE /\ tx' = [tx EXCEPT ![r] = "failed"]
           /\ UNCHANGED records
  <2>1. EvmTypeOK' /\ RecordsOfExecuted' /\ RefusalsAreTrue'
    BY <1>1, <1>2 DEF EvmInv, EvmTypeOK, RecordsOfExecuted, RefusalsAreTrue, Ends
  <2>2. \A q \in Requests : request[q].answer = "approved" => tx'[q] = tx[q]
    BY <1>1, <1>2 DEF EvmInv, EvmTypeOK
  <2>3. ApprovalsAccounted'
    BY <1>1, <1>2, <2>2 DEF EvmInv, ApprovalsAccounted
  <2> QED BY <1>1, <1>2, <2>1, <2>3 DEF EvmInv, EvmTypeOK
<1>3. CASE /\ tx' = [tx EXCEPT ![r] = "AlreadySettled"]
           /\ records[request[r].doc] # None
           /\ UNCHANGED records
  <2>1. EvmTypeOK' /\ RecordsOfExecuted' /\ RefusalsAreTrue'
    BY <1>1, <1>3 DEF EvmInv, EvmTypeOK, RecordsOfExecuted, RefusalsAreTrue, Ends
  <2>2. \A q \in Requests : request[q].answer = "approved" => tx'[q] = tx[q]
    BY <1>1, <1>3 DEF EvmInv, EvmTypeOK
  <2>3. ApprovalsAccounted'
    BY <1>1, <1>3, <2>2 DEF EvmInv, ApprovalsAccounted
  <2> QED BY <1>1, <1>3, <2>1, <2>3 DEF EvmInv, EvmTypeOK
<1>4. CASE /\ tx' = [tx EXCEPT ![r] = "executed"]
           /\ records[request[r].doc] = None
           /\ records' = [records EXCEPT ![request[r].doc] = r]
  <2>1. EvmTypeOK'
    BY <1>1, <1>4 DEF EvmInv, EvmTypeOK, Ends
  <2>2. RecordsOfExecuted'
    BY <1>1, <1>4, NoneAssumption DEF EvmInv, EvmTypeOK, RecordsOfExecuted
  <2>3. \A d \in Documents :
           /\ records[d] # None => records'[d] = records[d]
           /\ records'[d] \in {records[d], r}
           /\ records[d] # None => records'[d] # None
    BY <1>1, <1>4, NoneAssumption DEF EvmInv, EvmTypeOK
  <2>4. /\ \A c \in Connectors : \A entry \in log[c] : entry[1] \in Documents
        /\ \A q \in Requests : request[q].answer \in {"approved", "rejected"} \/ request[q].late
                                  => request[q].doc \in Documents
    <3>1. \A e \in Connectors : \A entry \in log[e] : entry[1] \in Documents
      BY DEF EvmInv, EvmTypeOK
    <3>2. \A q \in Requests : request[q].late => request[q].doc \in Documents
      BY DEF EvmInv
    <3>3. \A q \in Requests : request[q].answer \in {"approved", "rejected"}
                                  => request[q].doc \in Documents
      BY DEF EvmInv, Idle
    <3> QED BY <3>1, <3>2, <3>3
  <2>5. RefusalsAreTrue'
    BY <1>1, <1>4, <2>3, <2>4 DEF EvmInv, EvmTypeOK, RefusalsAreTrue
  <2>6. \A q \in Requests : request[q].answer = "approved" => tx'[q] = tx[q] /\ q # r
    BY <1>1, <1>4 DEF EvmInv, EvmTypeOK
  <2>7. ApprovalsAccounted'
    <3>1. ASSUME NEW q \in Requests, request[q].answer = "approved"
          PROVE  /\ ~ request[q].late
                 /\ \/ tx'[q] = "executed" /\ records'[request[q].doc] = q
                    \/ tx'[q] = "AlreadySettled" /\ records'[request[q].doc] \notin {None, q}
                    \/ tx'[q] = "failed" /\ records'[request[q].doc] # q
      BY <3>1, <2>3, <2>4, <2>6, NoneAssumption DEF EvmInv, ApprovalsAccounted
    <3>2. ASSUME NEW c \in Connectors, NEW entry \in log[c]
          PROVE  \/ records'[entry[1]] # None
                 \/ \E q \in Requests : /\ request[q].connector = c /\ request[q].doc = entry[1]
                                        /\ request[q].answer = "approved" /\ tx'[q] = "failed"
      BY <2>3, <2>4, <2>6 DEF EvmInv, ApprovalsAccounted
    <3> QED BY <1>1, <3>1, <3>2 DEF ApprovalsAccounted
  <2> QED BY <1>1, <1>4, <2>1, <2>2, <2>3, <2>4, <2>5, <2>7 DEF EvmInv, EvmTypeOK
<1>5. \/ tx' = [tx EXCEPT ![r] = "failed"] /\ UNCHANGED records
      \/ /\ tx' = [tx EXCEPT ![r] = "AlreadySettled"]
         /\ records[request[r].doc] # None /\ UNCHANGED records
      \/ /\ tx' = [tx EXCEPT ![r] = "executed"] /\ records[request[r].doc] = None
         /\ records' = [records EXCEPT ![request[r].doc] = r]
  BY DEF Executes, settle, SettleOutcomes, Fails
<1> QED BY <1>2, <1>3, <1>4, <1>5

\* A request that arrives is late if its document is settled already; the log refuses it
\* before anything is sent.
LEMMA ArrivesInv ==
    ASSUME EvmInv, NEW r \in Requests, NEW c \in Connectors, NEW d \in Documents,
           NEW spelling \in Spellings, NEW valid \in BOOLEAN, Arrives(r, c, d, spelling, valid)
    PROVE  EvmInv'
<1>1. /\ request' = [request EXCEPT ![r] =
            [pc |-> IF IsLogged(c, d) THEN "done" ELSE "simulate",
             connector |-> c, doc |-> d, spelling |-> spelling, valid |-> valid,
             late |-> records[d] # None,
             answer |-> IF IsLogged(c, d) THEN "logged" ELSE "none"]]
      /\ UNCHANGED <<records, tx, log>>
      /\ request[r] = Idle
  BY DEF Arrives, IsNext
<1>2. tx[r] = "none" /\ \A e \in Documents : records[e] # r
  BY <1>1 DEF EvmInv, EvmTypeOK, RecordsOfExecuted, Idle
<1>3. EvmTypeOK'
  BY <1>1, <1>2 DEF EvmInv, EvmTypeOK, RequestStates, Answers
<1>4. RecordsOfExecuted'
  BY <1>1, <1>2 DEF EvmInv, EvmTypeOK, RecordsOfExecuted
<1>5. /\ request'[r].answer \in {"logged", "none"}
      /\ request[r].answer = "none"
      /\ \A q \in Requests : q # r => request'[q] = request[q]
  BY <1>1 DEF EvmInv, EvmTypeOK, Idle
<1>6. ApprovalsAccounted' /\ RefusalsAreTrue'
  BY <1>1, <1>2, <1>5 DEF EvmInv, ApprovalsAccounted, RefusalsAreTrue
<1>7. /\ request'[r].pc \in {"done", "simulate"}
      /\ request'[r].pc # "done" => request'[r].answer = "none"
      /\ request'[r].doc = d /\ request'[r].connector = c
      /\ request'[r].late => records[d] # None
  BY <1>1 DEF EvmInv, EvmTypeOK
<1> QED BY <1>1, <1>2, <1>3, <1>4, <1>5, <1>6, <1>7 DEF EvmInv

\* A malformed request leaves no trace but its answer.
LEMMA MalformedInv ==
    ASSUME EvmInv, NEW r \in Requests, Malformed(r)
    PROVE  EvmInv'
<1>1. /\ request[r] = Idle /\ UNCHANGED <<records, tx, log>>
      /\ Answer(r, "malformed") /\ "malformed" \in Answers
  BY DEF Malformed, IsNext, Answers
<1>2. tx[r] = "none" /\ request[r].doc = None /\ request[r].answer = "none"
      /\ ~ request[r].late
  BY <1>1 DEF EvmInv, EvmTypeOK, Idle
<1>3. /\ request' \in [Requests -> RequestStates]
      /\ SameRequest(r)
      /\ request'[r].pc = "done" /\ request'[r].answer = "malformed"
  BY <1>1, AnswerMoves DEF EvmInv
<1>4. EvmTypeOK'
  BY <1>1, <1>3 DEF EvmInv, EvmTypeOK, SameRequest
<1>5. RecordsOfExecuted' /\ RefusalsAreTrue'
  BY <1>1, <1>2, <1>3 DEF EvmInv, RecordsOfExecuted, RefusalsAreTrue, SameRequest
<1>6. ApprovalsAccounted'
  BY <1>1, <1>2, <1>3 DEF EvmInv, ApprovalsAccounted, SameRequest
<1> QED BY <1>1, <1>2, <1>3, <1>4, <1>5, <1>6 DEF EvmInv, SameRequest

\* A step of a handler that sends nothing and whose answer is true.
LEMMA AnswersInv ==
    ASSUME EvmInv, NEW r \in Requests, request[r].pc \notin {"idle", "done"},
           NEW answer \in {"rejected", "invalid", "error"}, Answer(r, answer),
           UNCHANGED <<records, tx, log>>,
           answer = "rejected" => records[request[r].doc] # None,
           answer \in {"rejected", "invalid"} => tx[r] = "none"
    PROVE  EvmInv'
<1>0. answer \in Answers /\ request[r].answer = "none"
  BY DEF Answers, EvmInv
<1>1. /\ request' \in [Requests -> RequestStates]
      /\ SameRequest(r)
      /\ request'[r].pc = "done" /\ request'[r].answer = answer
  BY <1>0, AnswerMoves DEF EvmInv
<1>2. EvmTypeOK'
  BY <1>1 DEF EvmInv, EvmTypeOK, SameRequest
<1>3. RecordsOfExecuted'
  BY <1>1 DEF EvmInv, RecordsOfExecuted, SameRequest, EvmTypeOK
<1>4. RefusalsAreTrue'
  BY <1>1 DEF EvmInv, RefusalsAreTrue, SameRequest
<1>5. ApprovalsAccounted'
  BY <1>0, <1>1 DEF EvmInv, ApprovalsAccounted, SameRequest
<1> QED BY <1>0, <1>1, <1>2, <1>3, <1>4, <1>5 DEF EvmInv, SameRequest

\* What a revert is taken for is what the contract says.
LEMMA RevertsTruthfully ==
    ASSUME NEW r \in Requests, Reverts(r)
    PROVE  \/ Answer(r, "rejected") /\ records[request[r].doc] # None
           \/ Answer(r, "invalid")
  BY DEF Reverts, SettleOutcomes

LEMMA SimulatesInv ==
    ASSUME EvmInv, NEW r \in Requests, Simulates(r)
    PROVE  EvmInv'
<1>1. /\ request[r].pc = "simulate" /\ UNCHANGED <<records, tx, log>>
      /\ tx[r] = "none" /\ request[r].answer = "none"
  BY DEF Simulates, EvmInv, EvmTypeOK
<1>2. CASE Reverts(r)
  <2>1. CASE Answer(r, "rejected") /\ records[request[r].doc] # None
    BY <1>1, <2>1, AnswersInv
  <2>2. CASE Answer(r, "invalid")
    BY <1>1, <2>2, AnswersInv
  <2> QED BY <1>2, <2>1, <2>2, RevertsTruthfully
<1>3. CASE request' = [request EXCEPT ![r].pc = "write"]
  <2>1. EvmTypeOK'
    BY <1>1, <1>3 DEF EvmInv, EvmTypeOK, RequestStates
  <2>2. /\ \A q \in Requests : q # r => request'[q] = request[q]
        /\ request'[r].doc = request[r].doc
        /\ request'[r].valid = request[r].valid /\ request'[r].late = request[r].late
        /\ request'[r].connector = request[r].connector
        /\ request'[r].answer = "none" /\ request'[r].pc = "write"
    BY <1>1, <1>3 DEF EvmInv, EvmTypeOK, RequestStates
  <2>3. RecordsOfExecuted' /\ RefusalsAreTrue'
    BY <1>1, <2>2 DEF EvmInv, RecordsOfExecuted, RefusalsAreTrue
  <2>4. ApprovalsAccounted'
    BY <1>1, <2>2 DEF EvmInv, ApprovalsAccounted
  <2> QED BY <1>1, <2>1, <2>2, <2>3, <2>4 DEF EvmInv
<1> QED BY <1>2, <1>3 DEF Simulates

\* A transaction that is sent has a valid proof, of a document that is not settled yet.
LEMMA SendsInTime ==
    ASSUME EvmInv, NEW r \in Requests, request[r].pc = "write", "settled" \in SettleOutcomes(r),
           tx' = [tx EXCEPT ![r] = "pending"], UNCHANGED <<records, log>>,
           request' \in [Requests -> RequestStates], SameRequest(r),
           \/ request'[r].pc = "receipt" /\ request'[r].answer = "none"
           \/ request'[r].pc = "done" /\ request'[r].answer = "error"
    PROVE  EvmInv'
<1>1. /\ request[r].valid /\ records[request[r].doc] = None
      /\ tx[r] = "none" /\ request[r].answer = "none"
      /\ request[r].doc \in Documents /\ ~ request[r].late
  BY DEF SettleOutcomes, EvmInv, EvmTypeOK
<1>2. EvmTypeOK'
  BY DEF EvmInv, EvmTypeOK, SameRequest
<1>3. RecordsOfExecuted'
  BY <1>1 DEF EvmInv, EvmTypeOK, RecordsOfExecuted, SameRequest
<1>4. RefusalsAreTrue'
  BY <1>1 DEF EvmInv, EvmTypeOK, RefusalsAreTrue, SameRequest
<1>5. \A q \in Requests : q # r => request'[q] = request[q] /\ tx'[q] = tx[q]
  BY DEF EvmInv, EvmTypeOK, SameRequest
<1>6. ApprovalsAccounted'
  <2>1. ASSUME NEW q \in Requests, request[q].answer = "approved" \/ request'[q].answer = "approved"
        PROVE  request'[q] = request[q] /\ tx'[q] = tx[q]
    <3>1. CASE q # r
      BY <1>5, <3>1
    <3>2. CASE q = r
      BY <1>1, <2>1, <3>2
    <3> QED BY <3>1, <3>2
  <2> QED BY <2>1 DEF EvmInv, ApprovalsAccounted
<1> QED BY <1>1, <1>2, <1>3, <1>4, <1>6 DEF EvmInv, EvmTypeOK, SameRequest

LEMMA WritesInv ==
    ASSUME EvmInv, NEW r \in Requests, Writes(r)
    PROVE  EvmInv'
<1>1. /\ request[r].pc = "write" /\ UNCHANGED <<records, log>>
      /\ tx[r] = "none" /\ request[r].answer = "none"
  BY DEF Writes, EvmInv, EvmTypeOK
<1>2. CASE Reverts(r) /\ UNCHANGED tx
  <2>1. CASE Answer(r, "rejected") /\ records[request[r].doc] # None
    BY <1>1, <1>2, <2>1, AnswersInv
  <2>2. CASE Answer(r, "invalid")
    BY <1>1, <1>2, <2>2, AnswersInv
  <2> QED BY <1>2, <2>1, <2>2, RevertsTruthfully
<1>3. CASE /\ "settled" \in SettleOutcomes(r)
           /\ tx' = [tx EXCEPT ![r] = "pending"]
           /\ request' = [request EXCEPT ![r].pc = "receipt"]
  <2>1. /\ request' \in [Requests -> RequestStates]
        /\ SameRequest(r)
        /\ request'[r].pc = "receipt" /\ request'[r].answer = request[r].answer
    BY <1>3 DEF EvmInv, EvmTypeOK, RequestStates, SameRequest
  <2> QED BY <1>1, <1>3, <2>1, SendsInTime
<1> QED BY <1>1, <1>2, <1>3 DEF Writes

\* How the transaction ended accounts for the approval and for the entry of the log.
LEMMA ApprovesInv ==
    ASSUME EvmInv, NEW r \in Requests, Approves(r)
    PROVE  EvmInv'
<1>1. /\ request[r].pc = "receipt" /\ tx[r] \in Ends /\ request[r].answer = "none"
      /\ request[r].doc \in Documents /\ request[r].connector \in Connectors
      /\ request[r].spelling \in Spellings
      /\ Answer(r, "approved") /\ UNCHANGED <<records, tx>>
      /\ log' = [log EXCEPT ![request[r].connector] =
                    @ \cup {<<request[r].doc, request[r].spelling>>}]
  BY DEF Approves, EvmInv, EvmTypeOK, RequestStates
<1>2. /\ ~ request[r].late
      /\ \/ tx[r] = "executed" /\ records[request[r].doc] = r
         \/ tx[r] = "AlreadySettled" /\ records[request[r].doc] \notin {None, r}
         \/ tx[r] = "failed" /\ records[request[r].doc] # r
  BY <1>1 DEF EvmInv, RecordsOfExecuted, Ends
<1>3. /\ request' \in [Requests -> RequestStates]
      /\ SameRequest(r)
      /\ request'[r].pc = "done" /\ request'[r].answer = "approved"
  BY <1>1, AnswerMoves DEF EvmInv, Answers
<1>4. EvmTypeOK'
  BY <1>1, <1>3 DEF EvmInv, EvmTypeOK, SameRequest
<1>5. RecordsOfExecuted' /\ RefusalsAreTrue'
  BY <1>1, <1>3 DEF EvmInv, RecordsOfExecuted, RefusalsAreTrue, SameRequest
<1>6. ApprovalsAccounted'
  <2>1. ASSUME NEW q \in Requests, request'[q].answer = "approved"
        PROVE  /\ ~ request'[q].late
               /\ \/ tx[q] = "executed" /\ records[request'[q].doc] = q
                  \/ tx[q] = "AlreadySettled" /\ records[request'[q].doc] \notin {None, q}
                  \/ tx[q] = "failed" /\ records[request'[q].doc] # q
    BY <1>2, <1>3, <2>1 DEF EvmInv, ApprovalsAccounted, SameRequest
  <2>2. \A c \in Connectors : \A entry \in log'[c] :
           \/ entry \in log[c]
           \/ c = request[r].connector /\ entry = <<request[r].doc, request[r].spelling>>
    BY <1>1 DEF EvmInv, EvmTypeOK
  <2>3. ASSUME NEW c \in Connectors, NEW entry \in log'[c]
        PROVE  \/ records[entry[1]] # None
               \/ \E q \in Requests : /\ request'[q].connector = c /\ request'[q].doc = entry[1]
                                      /\ request'[q].answer = "approved" /\ tx[q] = "failed"
    <3>1. CASE entry \in log[c]
      <4>1. CASE records[entry[1]] # None
        BY <4>1
      <4>2. CASE records[entry[1]] = None
        <5>1. PICK q \in Requests : /\ request[q].connector = c /\ request[q].doc = entry[1]
                                    /\ request[q].answer = "approved" /\ tx[q] = "failed"
          BY <3>1, <4>2 DEF EvmInv, ApprovalsAccounted
        <5>2. request'[q] = request[q]
          BY <1>1, <1>3, <5>1 DEF SameRequest
        <5> QED BY <5>1, <5>2
      <4> QED BY <4>1, <4>2
    <3>2. CASE c = request[r].connector /\ entry = <<request[r].doc, request[r].spelling>>
      <4>1. entry[1] = request[r].doc
        BY <3>2
      <4>2. /\ request'[r].connector = c /\ request'[r].doc = entry[1]
            /\ request'[r].answer = "approved"
        BY <1>3, <3>2, <4>1 DEF SameRequest
      <4> QED BY <1>1, <1>2, <4>1, <4>2, NoneAssumption
    <3> QED BY <2>2, <3>1, <3>2
  <2> QED BY <1>1, <2>1, <2>3 DEF ApprovalsAccounted
<1> QED BY <1>1, <1>2, <1>3, <1>4, <1>5, <1>6 DEF EvmInv, SameRequest

LEMMA ThrowsInv ==
    ASSUME EvmInv, NEW r \in Requests, Throws(r)
    PROVE  EvmInv'
<1>1. /\ request[r].pc \in {"simulate", "write", "receipt"}
      /\ Answer(r, "error") /\ UNCHANGED <<records, log>>
      /\ "error" \in Answers
  BY DEF Throws, Answers
<1>2. CASE UNCHANGED tx
  BY <1>1, <1>2, AnswersInv
<1>3. CASE request[r].pc = "write" /\ "settled" \in SettleOutcomes(r)
           /\ tx' = [tx EXCEPT ![r] = "pending"]
  <2>1. /\ request' \in [Requests -> RequestStates]
        /\ SameRequest(r)
        /\ request'[r].pc = "done" /\ request'[r].answer = "error"
    BY <1>1, AnswerMoves DEF EvmInv
  <2> QED BY <1>1, <1>3, <2>1, SendsInTime
<1> QED BY <1>2, <1>3 DEF Throws

\* The handlers that a crash ends are answered nothing.
LEMMA CrashesInv ==
    ASSUME EvmInv, NEW c \in Connectors, Crashes(c)
    PROVE  EvmInv'
<1>1. UNCHANGED <<records, tx, log>>
  BY DEF Crashes
<1>2. \A q \in Requests :
         \/ request'[q] = request[q]
         \/ /\ request[q].connector = c /\ request[q].pc # "done"
            /\ request'[q] = [request[q] EXCEPT !.pc = "done", !.answer = "error"]
  BY DEF Crashes
<1>3. request' \in [Requests -> RequestStates]
  <2>1. \A q \in Requests : request'[q] \in RequestStates
    <3> TAKE q \in Requests
    <3>1. request[q] \in RequestStates
      BY DEF EvmInv, EvmTypeOK
    <3>2. [request[q] EXCEPT !.pc = "done", !.answer = "error"] \in RequestStates
      BY <3>1 DEF RequestStates, Answers
    <3> QED BY <1>2, <3>1, <3>2
  <2>2. request' = [q \in Requests |-> request'[q]]
    BY DEF Crashes
  <2> QED BY <2>1, <2>2
<1>4. \A q \in Requests :
         /\ request'[q].doc = request[q].doc
         /\ request'[q].valid = request[q].valid
         /\ request'[q].connector = request[q].connector
         /\ request'[q].late = request[q].late
         /\ \/ request'[q] = request[q]
            \/ /\ request[q].pc # "idle" /\ request[q].answer = "none"
               /\ request'[q].pc = "done" /\ request'[q].answer = "error"
  <2> SUFFICES ASSUME NEW q \in Requests,
                      request[q].connector = c /\ request[q].pc # "done",
                      request'[q] = [request[q] EXCEPT !.pc = "done", !.answer = "error"]
               PROVE  /\ request'[q].doc = request[q].doc
                      /\ request'[q].valid = request[q].valid
                      /\ request'[q].connector = request[q].connector
                      /\ request'[q].late = request[q].late
                      /\ request[q].pc # "idle" /\ request[q].answer = "none"
                      /\ request'[q].pc = "done" /\ request'[q].answer = "error"
    BY <1>2
  <2>1. request[q] \in RequestStates
    BY DEF EvmInv, EvmTypeOK
  <2>2. request[q].pc # "idle" /\ request[q].answer = "none"
    BY NoneAssumption DEF EvmInv, Idle
  <2> QED BY <2>1, <2>2 DEF RequestStates
<1>5. EvmTypeOK'
  BY <1>1, <1>3, <1>4 DEF EvmInv, EvmTypeOK
<1>6. RecordsOfExecuted' /\ RefusalsAreTrue'
  BY <1>1, <1>4 DEF EvmInv, RecordsOfExecuted, RefusalsAreTrue
<1>7. ApprovalsAccounted'
  <2>1. ASSUME NEW q \in Requests, request[q].answer = "approved" \/ request'[q].answer = "approved"
        PROVE  request'[q] = request[q]
    BY <1>4, <2>1
  <2> QED BY <1>1, <2>1 DEF EvmInv, ApprovalsAccounted
<1> QED BY <1>1, <1>4, <1>5, <1>6, <1>7 DEF EvmInv

-----------------------------------------------------------------------------
THEOREM EvmStep == EvmInv /\ [Next]_vars => EvmInv'
<1> SUFFICES ASSUME EvmInv, [Next]_vars PROVE EvmInv'
  OBVIOUS
<1>1. CASE UNCHANGED vars
  BY <1>1 DEF vars, EvmInv, EvmTypeOK, RecordsOfExecuted, ApprovalsAccounted, RefusalsAreTrue, Idle
<1>2. ASSUME NEW r \in Requests, NEW c \in Connectors, NEW d \in Documents,
             NEW spelling \in Spellings, NEW valid \in BOOLEAN, Arrives(r, c, d, spelling, valid)
      PROVE  EvmInv'
  BY <1>2, ArrivesInv
<1>6. ASSUME NEW r \in Requests, Malformed(r) PROVE EvmInv'
  BY <1>6, MalformedInv
<1>3. ASSUME NEW r \in Requests, Handles(r) PROVE EvmInv'
  BY <1>3, SimulatesInv, WritesInv, ApprovesInv, ThrowsInv DEF Handles
<1>4. ASSUME NEW r \in Requests, Executes(r) PROVE EvmInv'
  BY <1>4, ExecutesInv
<1>5. ASSUME NEW c \in Connectors, Crashes(c) PROVE EvmInv'
  BY <1>5, CrashesInv
<1> QED BY <1>1, <1>2, <1>3, <1>4, <1>5, <1>6 DEF Next

\* EvmInv holds throughout: the connectors' side of it is that a transaction is sent with
\* a valid proof and in time, the chain's that a document has one record and that
\* AlreadySettled is said only of a document that has it.
THEOREM EvmInvariant == Spec => []EvmInv
<1>1. Init => EvmInv
  BY EvmInitially
<1>2. EvmInv /\ [Next]_vars => EvmInv'
  BY EvmStep
<1> QED BY <1>1, <1>2, PTL DEF Spec

\* Handlers, transactions and logs hold values of their kind (server.ts, chain.ts).
THEOREM EvmTypes == Spec => []EvmTypeOK
<1>1. EvmInv => EvmTypeOK
  BY DEF EvmInv
<1> QED BY <1>1, EvmInvariant, PTL

\* A document's record is written once, by the transaction it names (Settlement.sol).
THEOREM EvmRecords == Spec => []RecordsOfExecuted
<1>1. EvmInv => RecordsOfExecuted
  BY DEF EvmInv
<1> QED BY <1>1, EvmInvariant, PTL

\* Every approval is accounted for by the end of its own transaction: it won, it lost the
\* race, or it failed; none goes to a request that came when its document was settled
\* (chain.ts submitSettlement, which does not read the receipt's status).
THEOREM EvmApprovals == Spec => []ApprovalsAccounted
<1>1. EvmInv => ApprovalsAccounted
  BY DEF EvmInv
<1> QED BY <1>1, EvmInvariant, PTL

\* A document that is rejected is settled already, and nothing was sent for a refused one.
THEOREM EvmRefusals == Spec => []RefusalsAreTrue
<1>1. EvmInv => RefusalsAreTrue
  BY DEF EvmInv
<1> QED BY <1>1, EvmInvariant, PTL

-----------------------------------------------------------------------------
(* The connectors and the contract implement the abstract ledger. *)

\* What a client has been told, answer by answer.
LEMMA ToldIs ==
    ASSUME NEW r \in Requests
    PROVE  /\ request[r].answer = "approved" => Told[r] = ToldWithReceipt(r)
           /\ request[r].answer = "rejected" => Told[r] = "duplicate"
           /\ request[r].answer \in {"logged", "invalid"} => Told[r] = "refused"
           /\ request[r].answer = "error" => Told[r] = "unknown"
           /\ request[r].answer \in {"none", "malformed"} =>
                Told[r] = IF tx[r] = "executed" THEN "owed" ELSE "nothing"
  BY DEF Told

\* The same after a step.
LEMMA ToldWillBe ==
    ASSUME NEW r \in Requests
    PROVE  /\ request'[r].answer = "approved" => Told'[r] = ToldWithReceipt(r)'
           /\ request'[r].answer = "rejected" => Told'[r] = "duplicate"
           /\ request'[r].answer \in {"logged", "invalid"} => Told'[r] = "refused"
           /\ request'[r].answer = "error" => Told'[r] = "unknown"
           /\ request'[r].answer \in {"none", "malformed"} =>
                Told'[r] = IF tx'[r] = "executed" THEN "owed" ELSE "nothing"
  BY DEF Told

\* An abstract client changes with the request it stands for.
LEMMA OthersKeep ==
    ASSUME NEW r \in Requests,
           \A q \in Requests : q # r => request'[q] = request[q] /\ tx'[q] = tx[q]
    PROVE  /\ Told' = [Told EXCEPT ![r] = Told'[r]]
           /\ Presented' = [Presented EXCEPT ![r] = request'[r].doc]
<1>1. \A q \in Requests : q # r => Told'[q] = Told[q]
  BY DEF Told, ToldWithReceipt
<1>2. Told' = [q \in Requests |-> Told'[q]] /\ Told = [q \in Requests |-> Told[q]]
  BY DEF Told
<1>3. Told' = [Told EXCEPT ![r] = Told'[r]]
  BY <1>1, <1>2
<1> QED BY <1>3 DEF Presented

\* While a transaction is pending its client knows nothing of it.
LEMMA UnknownWhilePending ==
    ASSUME EvmInv, NEW r \in Requests, tx[r] = "pending"
    PROVE  request[r].answer \in {"none", "error"}
  BY DEF EvmInv, EvmTypeOK, RequestStates, Answers, ApprovalsAccounted, RefusalsAreTrue

\* A handler that answers tells its client what its answer and its transaction say.
LEMMA AnswerTells ==
    ASSUME EvmInv, NEW r \in Requests, request[r].pc \notin {"idle", "done"},
           NEW answer \in {"approved", "rejected", "invalid", "error"}, Answer(r, answer),
           UNCHANGED records, \A q \in Requests : q # r => tx'[q] = tx[q],
           answer = "approved" => /\ tx'[r] = tx[r] /\ tx[r] \in Ends,
           answer = "rejected" => records[request[r].doc] # None,
           answer \in {"rejected", "invalid"} => tx[r] = "none"
    PROVE  Ledger!Next
<1>0. answer \in Answers
  BY DEF Answers
<1>1. /\ request' \in [Requests -> RequestStates]
      /\ SameRequest(r)
      /\ request'[r].answer = answer
  BY <1>0, AnswerMoves DEF EvmInv
<1>2. /\ request[r].doc \in Documents
      /\ request[r].answer = "none"
  BY DEF EvmInv
<1>3. /\ Told[r] = IF tx[r] = "executed" THEN "owed" ELSE "nothing"
      /\ Presented[r] = request[r].doc /\ request[r].doc # None
  BY <1>2, ToldIs, NoneAssumption DEF Presented
<1>4. /\ Told' = [Told EXCEPT ![r] = Told'[r]]
      /\ UNCHANGED Presented
  BY <1>1, OthersKeep DEF SameRequest, Presented
<1>5. UNCHANGED SettledDocuments
  BY DEF SettledDocuments
<1>6. /\ \/ Told[r] = "nothing" /\ Told'[r] \in Ledger!Refusals
         \/ Told[r] = "owed" /\ Told'[r] \in {"approved", "unknown"}
      /\ Told'[r] = "duplicate" => records[request[r].doc] # None
  <2>1. CASE answer = "approved"
    <3>1. Told'[r] = ToldWithReceipt(r)
      BY <1>1, <2>1, ToldWillBe DEF ToldWithReceipt
    <3>2. tx[r] = "AlreadySettled" => records[request[r].doc] # None
      BY DEF EvmInv
    <3> QED BY <1>3, <2>1, <3>1, <3>2 DEF ToldWithReceipt, Ends, Ledger!Refusals
  <2>2. CASE answer = "rejected"
    BY <1>1, <1>3, <2>2, ToldWillBe DEF Ledger!Refusals
  <2>3. CASE answer = "invalid"
    BY <1>1, <1>3, <2>3, ToldWillBe DEF Ledger!Refusals
  <2>4. CASE answer = "error"
    BY <1>1, <1>3, <2>4, ToldWillBe DEF Ledger!Refusals
  <2> QED BY <2>1, <2>2, <2>3, <2>4
<1>7. Ledger!IsTrue(Told'[r], Presented[r])
  BY <1>2, <1>3, <1>6 DEF Ledger!IsTrue, SettledDocuments
<1>8. Ledger!Tells(r, Told'[r])
  BY <1>3, <1>4, <1>5, <1>6, <1>7 DEF Ledger!Tells
<1>9. Told'[r] \in Ledger!Answers
  BY <1>6 DEF Ledger!Answers, Ledger!Refusals
<1> QED BY <1>8, <1>9 DEF Ledger!Next

\* A handler that moves on tells nothing, and sends at most a transaction.
LEMMA QuietMoves ==
    ASSUME EvmInv, NEW r \in Requests, request[r].pc \in {"simulate", "write"},
           NEW pc \in {"write", "receipt"},
           request' = [request EXCEPT ![r].pc = pc], UNCHANGED records,
           UNCHANGED tx \/ tx' = [tx EXCEPT ![r] = "pending"]
    PROVE  UNCHANGED <<SettledDocuments, Presented, Told>>
<1>1. \A q \in Requests : /\ request'[q].doc = request[q].doc
                          /\ request'[q].answer = request[q].answer
  BY DEF EvmInv, EvmTypeOK, RequestStates
<1>2. \A q \in Requests : q # r => tx'[q] = tx[q]
  BY DEF EvmInv, EvmTypeOK
<1>3. tx[r] = "none" /\ tx'[r] \in {"none", "pending"} /\ request[r].answer = "none"
  BY DEF EvmInv, EvmTypeOK
<1>4. \A q \in Requests : Told'[q] = Told[q]
  <2> TAKE q \in Requests
  <2>1. CASE q = r
    BY <1>1, <1>3, <2>1, ToldIs, ToldWillBe
  <2>2. CASE q # r
    BY <1>1, <1>2, <2>2 DEF Told, ToldWithReceipt
  <2> QED BY <2>1, <2>2
<1>5. Told = [q \in Requests |-> Told[q]] /\ Told' = [q \in Requests |-> Told'[q]]
  BY DEF Told
<1> QED BY <1>1, <1>4, <1>5 DEF SettledDocuments, Presented

\* A request presents its document, and the log may have its answer.
LEMMA ArrivesPresents ==
    ASSUME EvmInv, NEW r \in Requests, NEW c \in Connectors, NEW d \in Documents,
           NEW spelling \in Spellings, NEW valid \in BOOLEAN, Arrives(r, c, d, spelling, valid)
    PROVE  Ledger!Next
<1>1. /\ request[r] = Idle
      /\ UNCHANGED <<records, tx, log>>
      /\ \A q \in Requests : q # r => request'[q] = request[q]
      /\ request'[r].doc = d
      /\ request'[r].answer \in {"logged", "none"}
  BY DEF Arrives, IsNext, EvmInv, EvmTypeOK
<1>2. tx[r] = "none"
  BY <1>1 DEF EvmInv, EvmTypeOK, Idle
<1>3. /\ Told' = [Told EXCEPT ![r] = Told'[r]]
      /\ Presented' = [Presented EXCEPT ![r] = d]
      /\ Presented[r] = None
  BY <1>1, OthersKeep DEF Presented, Idle
<1>4. UNCHANGED SettledDocuments
  BY <1>1 DEF SettledDocuments
<1>5. Told'[r] \in {"refused", "nothing"}
  BY <1>1, <1>2, ToldWillBe
<1>6. Ledger!Presents(r, d, Told'[r])
  BY <1>1, <1>3, <1>4, <1>5 DEF Ledger!Presents, Ledger!IsTrue, Ledger!Refusals
<1> QED BY <1>5, <1>6 DEF Ledger!Next, Ledger!Answers

\* A malformed request presents nothing and is told nothing of any document.
LEMMA MalformedIsSilent ==
    ASSUME EvmInv, NEW r \in Requests, Malformed(r)
    PROVE  UNCHANGED <<SettledDocuments, Presented, Told>>
<1>1. /\ request[r] = Idle /\ UNCHANGED <<records, tx, log>>
      /\ Answer(r, "malformed") /\ "malformed" \in Answers
  BY DEF Malformed, IsNext, Answers
<1>2. /\ SameRequest(r) /\ request'[r].answer = "malformed" /\ request[r].answer = "none"
  BY <1>1, AnswerMoves DEF EvmInv, Idle
<1>3. Told'[r] = Told[r]
  BY <1>1, <1>2, ToldIs, ToldWillBe
<1>4. Told' = [Told EXCEPT ![r] = Told[r]] /\ UNCHANGED Presented
  BY <1>1, <1>2, <1>3, OthersKeep DEF SameRequest, Presented
<1> QED BY <1>1, <1>4 DEF SettledDocuments, Told

\* The chain settles the document of a client that does not know the outcome yet, or ends
\* its transaction without settling anything.
LEMMA ExecutesSettles ==
    ASSUME EvmInv, NEW r \in Requests, Executes(r)
    PROVE  Ledger!Next \/ UNCHANGED <<SettledDocuments, Presented, Told>>
<1>1. /\ tx[r] = "pending" /\ request[r].doc \in Documents /\ UNCHANGED request
      /\ records \in [Documents -> Requests \cup {None}]
      /\ tx \in [Requests -> {"none", "pending"} \cup Ends]
  <2>1. tx[r] = "pending" /\ UNCHANGED request
    BY DEF Executes
  <2>2. EvmTypeOK /\ request[r].doc \in Documents
    <3>1. EvmTypeOK /\ request[r].pc # "idle" /\ request[r].answer # "malformed"
      BY <2>1, UnknownWhilePending DEF EvmInv, EvmTypeOK
    <3> QED BY <3>1 DEF EvmInv
  <2> QED BY <2>1, <2>2 DEF EvmTypeOK
<1>2. UNCHANGED Presented
  BY <1>1 DEF Presented
<1>3. \A q \in Requests : q # r => tx'[q] = tx[q]
  BY <1>1 DEF Executes, settle, Fails
<1>4. Told' = [Told EXCEPT ![r] = Told'[r]]
  BY <1>1, <1>3, OthersKeep
<1>5. request[r].answer \in {"none", "error"} /\ request'[r].answer = request[r].answer
  BY <1>1, UnknownWhilePending
<1>6. Told[r] = IF request[r].answer = "none" THEN "nothing" ELSE "unknown"
  BY <1>1, <1>5, ToldIs
<1>7. CASE UNCHANGED records /\ tx'[r] # "executed"
  <2>1. Told'[r] = Told[r]
    BY <1>5, <1>6, <1>7, ToldWillBe
  <2> QED BY <1>2, <1>4, <1>7, <2>1 DEF SettledDocuments, Told
<1>8. CASE /\ records[request[r].doc] = None /\ tx'[r] = "executed"
           /\ records' = [records EXCEPT ![request[r].doc] = r]
  <2>1. SettledDocuments' = SettledDocuments \cup {request[r].doc}
    BY <1>1, <1>8, NoneAssumption DEF SettledDocuments
  <2>2. Presented[r] = request[r].doc /\ Presented[r] \notin SettledDocuments \cup {None}
    BY <1>1, <1>8, NoneAssumption DEF Presented, SettledDocuments
  <2>3. Told'[r] = IF request[r].answer = "none" THEN "owed" ELSE "unknown"
    BY <1>5, <1>8, ToldWillBe
  <2>4. \/ Told[r] = "unknown" /\ UNCHANGED Told
        \/ Told[r] = "nothing" /\ \E answer \in {"owed", "approved"} :
                                      Told' = [Told EXCEPT ![r] = answer]
    <3>1. CASE request[r].answer = "none"
      BY <1>4, <1>6, <2>3, <3>1
    <3>2. CASE request[r].answer = "error"
      <4>1. Told' = [Told EXCEPT ![r] = Told[r]]
        BY <1>4, <1>6, <2>3, <3>2
      <4> QED BY <1>6, <3>2, <4>1 DEF Told
    <3> QED BY <1>5, <3>1, <3>2
  <2>5. Ledger!Settles(r)
    BY <1>2, <2>1, <2>2, <1>6, <2>4 DEF Ledger!Settles
  <2> QED BY <2>5 DEF Ledger!Next
<1>9. \/ UNCHANGED records /\ tx'[r] # "executed"
      \/ /\ records[request[r].doc] = None /\ tx'[r] = "executed"
         /\ records' = [records EXCEPT ![request[r].doc] = r]
  BY <1>1 DEF Executes, settle, SettleOutcomes, Fails
<1> QED BY <1>7, <1>8, <1>9

\* The clients of a connector that stops know nothing of the requests under way.
LEMMA CrashesBreaks ==
    ASSUME EvmInv, NEW c \in Connectors, Crashes(c)
    PROVE  Ledger!Next
<1> DEFINE hit == {q \in Requests : request[q].connector = c /\ request[q].pc # "done"}
<1>1. UNCHANGED <<records, tx>> /\ request \in [Requests -> RequestStates]
  BY DEF Crashes, EvmInv, EvmTypeOK
<1>2. ASSUME NEW q \in Requests
      PROVE  request'[q].doc = request[q].doc
    BY <1>1 DEF Crashes, RequestStates
<1>3. ASSUME NEW q \in hit
      PROVE  /\ request[q].doc # None /\ Told[q] \in {"nothing", "owed"} /\ Told'[q] = "unknown"
  <2>1. request[q].pc # "idle"
    BY <1>3, NoneAssumption DEF EvmInv, Idle
  <2>2. request[q].answer = "none" /\ request[q].doc # None
    BY <1>3, <2>1, NoneAssumption DEF EvmInv
  <2>3. request'[q].answer = "error"
    BY <1>1, <1>3 DEF Crashes, RequestStates
  <2> QED BY <2>2, <2>3, ToldIs, ToldWillBe
<1>4. ASSUME NEW q \in Requests \ hit
      PROVE  Told'[q] = Told[q]
  <2>1. request'[q] = request[q] /\ tx'[q] = tx[q]
    BY <1>1, <1>4 DEF Crashes
  <2> QED BY <2>1 DEF Told, ToldWithReceipt
<1>5. UNCHANGED <<SettledDocuments, Presented>>
  BY <1>1, <1>2 DEF SettledDocuments, Presented
<1>6. \A q \in Requests :
        Told'[q] = IF q \in hit /\ Presented[q] # None /\ Told[q] \in {"nothing", "owed"}
                   THEN "unknown" ELSE Told[q]
  BY <1>3, <1>4 DEF Presented
<1>7. Told' = [q \in Requests |-> Told'[q]]
  BY DEF Told
<1> HIDE DEF hit
<1>8. Told' = [q \in Requests |->
                  IF q \in hit /\ Presented[q] # None /\ Told[q] \in {"nothing", "owed"}
                  THEN "unknown" ELSE Told[q]]
  BY <1>6, <1>7
<1>9. hit \in SUBSET Requests
  BY DEF hit
<1> QED BY <1>5, <1>8, <1>9 DEF Ledger!Next, Ledger!Breaks

LEMMA HandlesKeepsPromise ==
    ASSUME EvmInv, NEW r \in Requests, Handles(r)
    PROVE  Ledger!Next \/ UNCHANGED <<SettledDocuments, Presented, Told>>
<1>1. /\ request[r].pc \in {"simulate", "write", "receipt"}
      /\ UNCHANGED records
      /\ \A q \in Requests : q # r => tx'[q] = tx[q]
  BY DEF Handles, Simulates, Writes, Approves, Throws, EvmInv, EvmTypeOK
<1>2. CASE Reverts(r) /\ request[r].pc \in {"simulate", "write"}
  <2>0. tx[r] = "none"
    BY <1>2 DEF EvmInv, EvmTypeOK
  <2>1. CASE Answer(r, "rejected") /\ records[request[r].doc] # None
    BY <1>1, <2>0, <2>1, AnswerTells
  <2>2. CASE Answer(r, "invalid")
    BY <1>1, <2>0, <2>2, AnswerTells
  <2> QED BY <1>2, <2>1, <2>2, RevertsTruthfully
<1>3. CASE /\ request[r].pc \in {"simulate", "write"}
           /\ \E pc \in {"write", "receipt"} : request' = [request EXCEPT ![r].pc = pc]
           /\ UNCHANGED tx \/ tx' = [tx EXCEPT ![r] = "pending"]
  BY <1>1, <1>3, QuietMoves
<1>4. CASE Approves(r)
  BY <1>1, <1>4, AnswerTells DEF Approves
<1>5. CASE Throws(r)
  BY <1>1, <1>5, AnswerTells DEF Throws
<1>6. CASE Simulates(r)
  BY <1>2, <1>3, <1>6 DEF Simulates
<1>7. CASE Writes(r)
  BY <1>2, <1>3, <1>7 DEF Writes
<1> QED BY <1>4, <1>5, <1>6, <1>7 DEF Handles

\* To clients that read the receipts, connectors that share a contract, each with a log of
\* its own, are one ledger: every step is one of the abstract ledger or none (server.ts,
\* chain.ts, Settlement.sol).
THEOREM EvmImplementsLedger == Spec => ChainKeepsLedgerPromise
<1>1. Init => Ledger!Init
  BY DEF Init, Ledger!Init, SettledDocuments, Presented, Told, Idle
<1>2. ASSUME EvmInv, [Next]_vars
      PROVE  [Ledger!Next]_(<<SettledDocuments, Presented, Told>>)
  <2>1. CASE UNCHANGED vars
    BY <2>1 DEF vars, SettledDocuments, Presented, Told, ToldWithReceipt
  <2>2. CASE Next
    BY <1>2, <2>2, ArrivesPresents, MalformedIsSilent, HandlesKeepsPromise, ExecutesSettles,
       CrashesBreaks DEF Next
  <2> QED BY <1>2, <2>1, <2>2
<1> QED BY <1>1, <1>2, EvmInvariant, PTL DEF Spec, ChainKeepsLedgerPromise, Ledger!Spec, Ledger!ledger
=============================================================================
