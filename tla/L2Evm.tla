-------------------------------- MODULE L2Evm --------------------------------
(***************************************************************************)
(* Settlement on an EVM chain: the connectors of l2-verifier-evm            *)
(* (server.ts, chain.ts), each with its transaction log, and the            *)
(* Settlement contract they share.  POST /api/verify-and-settle answers     *)
(* from the log if it can; else it simulates settle(), sends the            *)
(* transaction, waits for its receipt and logs it.  The status of the       *)
(* receipt is not looked at: whatever became of the transaction, the client  *)
(* is answered "approved".                                                  *)
(*                                                                         *)
(* Outside src/: the chain, where a transaction that was sent is executed   *)
(* later, on the state of that moment, or never, or fails (it runs out of    *)
(* gas, another one replaces it); the SP1 gateway, which may refuse a proof  *)
(* it would have taken before (its owner froze the route); viem, which      *)
(* estimates the gas of a transaction before it signs it, so that one that   *)
(* would revert now is not sent.                                            *)
(***************************************************************************)
EXTENDS Naturals, FiniteSets

CONSTANTS
    Requests,       \* numbered in the order in which they come
    Connectors,
    Documents,      \* documentIdHash values
    None            \* no value

ASSUME NoneAssumption ==
    /\ Requests \subseteq Nat
    /\ None \notin Requests \cup Connectors \cup Documents

\* The two spellings of a hash that toHex32 takes.
Spellings == {"bare", "prefixed"}

VARIABLES
    records,    \* Settlement.records: the request whose transaction settled a document
    tx,         \* tx[r]: the transaction of a request, and how it ended
    log,        \* log[c]: the documents and spellings in transactions.db
    request     \* the handlers

vars == <<records, tx, log, request>>

\* logged and rejected are both 409 REJECTED, from the log and from the contract; error
\* is an error status or a connection that breaks.
Answers == {"approved", "logged", "rejected", "invalid", "malformed", "error"}

\* late (history): the document was settled before the request arrived.
Idle == [pc |-> "idle", connector |-> None, doc |-> None, spelling |-> "bare",
         valid |-> FALSE, late |-> FALSE, answer |-> "none"]
RequestStates ==
    [pc : {"idle", "simulate", "write", "receipt", "done"},
     connector : Connectors \cup {None}, doc : Documents \cup {None},
     spelling : Spellings, valid : BOOLEAN, late : BOOLEAN, answer : Answers \cup {"none"}]

Init ==
    /\ records = [d \in Documents |-> None]
    /\ tx = [r \in Requests |-> "none"]
    /\ log = [c \in Connectors |-> {}]
    /\ request = [r \in Requests |-> Idle]

(***************************************************************************)
(* The contract                                                            *)
(***************************************************************************)

\* What settle() may do on the present state of the chain: a proof that is not valid
\* is refused, a valid one may be.
SettleOutcomes(r) ==
    IF records[request[r].doc] # None THEN {"AlreadySettled"}
    ELSE IF request[r].valid THEN {"settled", "refused"} ELSE {"refused"}

\* How a transaction ends: status success, or reverted for one of settle()'s reasons or
\* for none of them.
Ends == {"executed", "AlreadySettled", "failed"}

\* Faulty variant: a document can be settled again.
settle_Overwrites(r) ==
    \/ /\ request[r].valid
       /\ records' = [records EXCEPT ![request[r].doc] = r]
       /\ tx' = [tx EXCEPT ![r] = "executed"]
    \/ /\ tx' = [tx EXCEPT ![r] = "failed"]
       /\ UNCHANGED records

settle(r) ==
    \/ /\ "settled" \in SettleOutcomes(r)
       /\ records' = [records EXCEPT ![request[r].doc] = r]
       /\ tx' = [tx EXCEPT ![r] = "executed"]
    \/ /\ "AlreadySettled" \in SettleOutcomes(r)
       /\ tx' = [tx EXCEPT ![r] = "AlreadySettled"]
       /\ UNCHANGED records
    \/ /\ "refused" \in SettleOutcomes(r)
       /\ tx' = [tx EXCEPT ![r] = "failed"]
       /\ UNCHANGED records

\* The transaction is replaced by another, or runs out of gas: it has a receipt, and
\* settle() has done nothing.
Fails(r) ==
    /\ tx' = [tx EXCEPT ![r] = "failed"]
    /\ UNCHANGED records

\* The chain executes a pending transaction.
Executes(r) ==
    /\ tx[r] = "pending"
    /\ settle(r) \/ Fails(r)
    /\ UNCHANGED <<log, request>>

(***************************************************************************)
(* The connectors                                                          *)
(***************************************************************************)

Answer(r, answer) ==
    request' = [request EXCEPT ![r].pc = "done", ![r].answer = answer]

\* queryTransactions with the identifier in the spelling of toHex32; logTransaction
\* stored it as it came.
IsLogged(c, d) == <<d, "prefixed">> \in log[c]

IsNext(r) ==
    /\ request[r] = Idle
    /\ \A q \in Requests : q < r => request[q] # Idle

\* A request whose proof is not SP1's or whose identifier is no hash presents nothing.
Malformed(r) ==
    /\ IsNext(r)
    /\ Answer(r, "malformed")
    /\ UNCHANGED <<records, tx, log>>

\* The request arrives; a document in the log is rejected at once.
Arrives(r, c, d, spelling, valid) ==
    /\ IsNext(r)
    /\ request' = [request EXCEPT ![r] =
            [pc |-> IF IsLogged(c, d) THEN "done" ELSE "simulate",
             connector |-> c, doc |-> d, spelling |-> spelling, valid |-> valid,
             late |-> records[d] # None,
             answer |-> IF IsLogged(c, d) THEN "logged" ELSE "none"]]
    /\ UNCHANGED <<records, tx, log>>

\* Faulty variant: every revert is taken for AlreadySettled.
Reverts_AllAlike(r) ==
    /\ SettleOutcomes(r) # {"settled"}
    /\ Answer(r, "rejected")

\* A revert of the simulation or of the gas estimate: whatever is not AlreadySettled is
\* answered as a proof that failed.
Reverts(r) ==
    \/ "AlreadySettled" \in SettleOutcomes(r) /\ Answer(r, "rejected")
    \/ "refused" \in SettleOutcomes(r) /\ Answer(r, "invalid")

Simulates(r) ==
    /\ request[r].pc = "simulate"
    /\ \/ Reverts(r)
       \/ /\ "settled" \in SettleOutcomes(r)
          /\ request' = [request EXCEPT ![r].pc = "write"]
    /\ UNCHANGED <<records, tx, log>>

\* writeContract: the gas estimate sees what was executed since the simulation.
Writes(r) ==
    /\ request[r].pc = "write"
    /\ \/ /\ Reverts(r)
          /\ UNCHANGED tx
       \/ /\ "settled" \in SettleOutcomes(r)
          /\ tx' = [tx EXCEPT ![r] = "pending"]
          /\ request' = [request EXCEPT ![r].pc = "receipt"]
    /\ UNCHANGED <<records, log>>

\* Faulty variant: the log is written, and the client answered, as soon as the
\* transaction is sent.
Approves_Unconfirmed(r) ==
    /\ request[r].pc = "receipt"
    /\ log' = [log EXCEPT ![request[r].connector] =
                  @ \cup {<<request[r].doc, request[r].spelling>>}]
    /\ Answer(r, "approved")
    /\ UNCHANGED <<records, tx>>

\* The receipt and its block are there: the document is logged and approved,
\* however the transaction ended.
Approves(r) ==
    /\ request[r].pc = "receipt"
    /\ tx[r] \in Ends
    /\ log' = [log EXCEPT ![request[r].connector] =
                  @ \cup {<<request[r].doc, request[r].spelling>>}]
    /\ Answer(r, "approved")
    /\ UNCHANGED <<records, tx>>

\* Faulty variant: the wait for the receipt has no end.
Throws_NoTimeout(r) ==
    /\ request[r].pc \in {"simulate", "write"}
    /\ \/ UNCHANGED tx
       \/ /\ request[r].pc = "write"
          /\ "settled" \in SettleOutcomes(r)
          /\ tx' = [tx EXCEPT ![r] = "pending"]
    /\ Answer(r, "error")
    /\ UNCHANGED <<records, log>>

\* A call to the RPC node fails or times out, or another value is no hash: the
\* handler throws.  A transaction may have been sent.
Throws(r) ==
    /\ request[r].pc \in {"simulate", "write", "receipt"}
    /\ \/ UNCHANGED tx
       \/ /\ request[r].pc = "write"
          /\ "settled" \in SettleOutcomes(r)
          /\ tx' = [tx EXCEPT ![r] = "pending"]
    /\ Answer(r, "error")
    /\ UNCHANGED <<records, log>>

\* A connector stops: its handlers end where they are.
Crashes(c) ==
    /\ \E r \in Requests : request[r].connector = c /\ request[r].pc # "done"
    /\ request' = [r \in Requests |->
           IF request[r].connector = c /\ request[r].pc # "done"
           THEN [request[r] EXCEPT !.pc = "done", !.answer = "error"] ELSE request[r]]
    /\ UNCHANGED <<records, tx, log>>

Handles(r) == Simulates(r) \/ Writes(r) \/ Approves(r) \/ Throws(r)

Next ==
    \/ \E r \in Requests :
        \/ \E c \in Connectors, d \in Documents, spelling \in Spellings, valid \in BOOLEAN :
             Arrives(r, c, d, spelling, valid)
        \/ Malformed(r)
        \/ Handles(r)
        \/ Executes(r)
    \/ \E c \in Connectors : Crashes(c)

\* A handler's call to the node ends, with an answer or viem's timeout; what the
\* chain does with a transaction is not the connectors' to say.
Spec == Init /\ [][Next]_vars /\ \A r \in Requests : WF_vars(Handles(r))

(***************************************************************************)
(* Properties                                                              *)
(***************************************************************************)

\* Every part holds values of its kind, and a handler that has not come to
\* writeContract has sent nothing.
EvmTypeOK ==
    /\ records \in [Documents -> Requests \cup {None}]
    /\ tx \in [Requests -> {"none", "pending"} \cup Ends]
    /\ log \in [Connectors -> SUBSET (Documents \X Spellings)]
    /\ request \in [Requests -> RequestStates]
    /\ \A r \in Requests : request[r].pc \in {"idle", "simulate", "write"} => tx[r] = "none"

\* A record of the contract comes from one transaction with a valid proof of that
\* document, and a transaction that was executed still has its record: the record is
\* never written twice (Settlement.sol settle).
RecordsOfExecuted ==
    \A r \in Requests :
        /\ tx[r] = "executed" => records[request[r].doc] = r
        /\ \A d \in Documents :
             records[d] = r => tx[r] = "executed" /\ request[r].doc = d /\ request[r].valid

\* Who is answered "approved", although no connector reads the status of a receipt: only
\* a request that came before its document was settled (a later one is stopped by the log,
\* the simulation or the estimate, "the contract's own AlreadySettled check is still the
\* authoritative gate"), with a transaction that has ended: it is the one of the record,
\* or it lost the race to the one of the record, or it failed without its document being
\* settled by it.  And a document in a connector's log, for which the connector refuses
\* every further request, is settled unless a transaction for it failed there.
ApprovalsAccounted ==
    /\ \A r \in Requests : request[r].answer = "approved" =>
         /\ ~ request[r].late
         /\ \/ tx[r] = "executed" /\ records[request[r].doc] = r
            \/ tx[r] = "AlreadySettled" /\ records[request[r].doc] \notin {None, r}
            \/ tx[r] = "failed" /\ records[request[r].doc] # r
    /\ \A c \in Connectors : \A entry \in log[c] :
         \/ records[entry[1]] # None
         \/ \E r \in Requests : /\ request[r].connector = c /\ request[r].doc = entry[1]
                                /\ request[r].answer = "approved" /\ tx[r] = "failed"

\* A refusal is true: "rejected" means that the document is settled, and for a request
\* that was refused in any way no transaction was sent (chain.ts catch, server.ts 409 and
\* 400).
RefusalsAreTrue ==
    \A r \in Requests :
        /\ request[r].answer = "rejected" => records[request[r].doc] # None
        /\ request[r].answer \in {"logged", "rejected", "invalid", "malformed"} => tx[r] = "none"

\* Every request is answered in the end, or lost with its connector, even if its
\* transaction is never executed (waitForTransactionReceipt has a timeout).
EveryRequestEnds ==
    <>[](\A r \in Requests : request[r].pc \in {"idle", "done"})

\* The inductive invariant: a handler that waits for a receipt has sent its
\* transaction, with a valid proof and before its document was settled, and what a
\* transaction's end says is so.
EvmInv ==
    /\ EvmTypeOK
    /\ RecordsOfExecuted
    /\ ApprovalsAccounted
    /\ RefusalsAreTrue
    /\ \A r \in Requests :
         /\ request[r].pc = "idle" => request[r] = Idle
         /\ request[r].answer = "malformed" => request[r].doc = None
         /\ request[r].pc # "idle" /\ request[r].answer # "malformed" =>
              request[r].doc \in Documents /\ request[r].connector \in Connectors
         /\ request[r].pc # "done" => request[r].answer = "none"
         /\ request[r].pc = "receipt" => tx[r] # "none"
         /\ request[r].late => request[r].doc \in Documents /\ records[request[r].doc] # None
         /\ tx[r] # "none" => request[r].valid /\ ~ request[r].late
         /\ tx[r] = "AlreadySettled" => records[request[r].doc] # None

-----------------------------------------------------------------------------
\* The abstract ledger: its settled documents, what each client has presented, and what
\* it has been told of it, its answer read together with the end of its transaction, since
\* the connectors do not read it: the loser of a race has been told of a document that
\* another one settled, and one whose transaction failed of nothing.  A refusal from the
\* log says no more than that there is an entry.
SettledDocuments == {d \in Documents : records[d] # None}
Presented == [r \in Requests |-> request[r].doc]
ToldWithReceipt(r) ==
    CASE tx[r] = "executed" -> "approved"
      [] tx[r] = "AlreadySettled" -> "duplicate"
      [] OTHER -> "unknown"
Told ==
    [r \in Requests |->
        CASE request[r].answer = "approved" -> ToldWithReceipt(r)
          [] request[r].answer = "rejected" -> "duplicate"
          [] request[r].answer \in {"logged", "invalid"} -> "refused"
          [] request[r].answer = "error" -> "unknown"
          [] OTHER -> IF tx[r] = "executed" THEN "owed" ELSE "nothing"]

Ledger == INSTANCE SettlementLedger WITH
    Client <- Requests,
    Doc <- Documents,
    Null <- None,
    settled <- SettledDocuments,
    presented <- Presented,
    told <- Told

\* The connectors with their contract keep the promise of a settlement ledger to clients
\* that read the receipts: a document settles once, for a request that was not refused,
\* and stays settled; the approval goes to the request whose transaction settled it, and
\* whoever is told that it is settled already is told the truth, by whichever connector.
ChainKeepsLedgerPromise == Ledger!Spec
=============================================================================
