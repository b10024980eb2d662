-------------------------- MODULE SettlementLedger --------------------------
(***************************************************************************)
(* What a settlement ledger promises to those who present documents to it,  *)
(* whether it is the verifier with its files or the contract behind its     *)
(* connectors: a settled document stays settled; it was presented by        *)
(* somebody who has not been refused; nobody is told that a document is     *)
(* settled when it is not; and of those who present one document only the   *)
(* one whose presentation settled it is told that it was approved.          *)
(***************************************************************************)
CONSTANTS
    Client,
    Doc,
    Null    \* no document

VARIABLES
    settled,    \* the settled documents
    presented,  \* what each client has presented
    told        \* and what it was told of it

ledger == <<settled, presented, told>>

\* owed: the client's presentation has settled its document, and it has not been told
\* so.  unknown: it was told of an error, or nothing before its connection broke.
Answers == {"nothing", "owed", "approved", "duplicate", "refused", "unknown"}

\* Without having settled it: the answer that the document is settled is given only of
\* one that is.
Refusals == {"duplicate", "refused", "unknown"}
IsTrue(answer, doc) == answer = "duplicate" => doc \in settled

Init ==
    /\ settled = {}
    /\ presented = [c \in Client |-> Null]
    /\ told = [c \in Client |-> "nothing"]

\* A client may have its answer at once.
Presents(c, doc, answer) ==
    /\ presented[c] = Null
    /\ answer \in Refusals \cup {"nothing"}
    /\ IsTrue(answer, doc)
    /\ presented' = [presented EXCEPT ![c] = doc]
    /\ told' = [told EXCEPT ![c] = answer]
    /\ UNCHANGED settled

Tells(c, answer) ==
    /\ presented[c] # Null
    /\ \/ told[c] = "nothing" /\ answer \in Refusals
       \/ told[c] = "owed" /\ answer \in {"approved", "unknown"}
    /\ IsTrue(answer, presented[c])
    /\ told' = [told EXCEPT ![c] = answer]
    /\ UNCHANGED <<settled, presented>>

\* The document of a client settles, and the client may be told so in the same step; else
\* the approval is owed to it.  A client that was told of an error is told nothing more.
Settles(c) ==
    /\ presented[c] \notin settled \cup {Null}
    /\ told[c] \in {"nothing", "unknown"}
    /\ settled' = settled \cup {presented[c]}
    /\ \/ told[c] = "unknown" /\ UNCHANGED told
       \/ told[c] = "nothing" /\ \E answer \in {"owed", "approved"} :
                                    told' = [told EXCEPT ![c] = answer]
    /\ UNCHANGED presented

\* Clients lose their connections.
Breaks(clients) ==
    /\ told' = [c \in Client |->
           IF c \in clients /\ presented[c] # Null /\ told[c] \in {"nothing", "owed"}
           THEN "unknown" ELSE told[c]]
    /\ UNCHANGED <<settled, presented>>

\* A client that has its answer may come again.
Leaves(c) ==
    /\ told[c] \notin {"nothing", "owed"}
    /\ presented' = [presented EXCEPT ![c] = Null]
    /\ told' = [told EXCEPT ![c] = "nothing"]
    /\ UNCHANGED settled

Next ==
    \/ \E c \in Client :
        \/ \E doc \in Doc, answer \in Answers : Presents(c, doc, answer)
        \/ \E answer \in Answers : Tells(c, answer)
        \/ Settles(c)
        \/ Leaves(c)
    \/ \E clients \in SUBSET Client : Breaks(clients)

Spec == Init /\ [][Next]_ledger
=============================================================================
