---------------------------- MODULE EvidenceLog ----------------------------
(***************************************************************************)
(* The append-only log of src/shared/src/evidence: entries of a subject and *)
(* a type, with the block time that anchors them.  The caller keeps the     *)
(* array that appendEvidence returns.                                       *)
(***************************************************************************)
EXTENDS Integers, Sequences, FiniteSets

EvidenceEntry(Subject, Type, Value, Time) ==
    [subjectId : Subject, evidenceType : Type, value : Value, anchoredAt : Time]

\* What stands for a thrown error, and for undefined.
Unauthorized == "Unauthorized evidence submission"
Undefined == "undefined"

\* authorize is supplied by the module that keeps the log.
appendEvidence(log, entry, authorized) ==
    IF authorized THEN Append(log, entry) ELSE Unauthorized

\* Array.prototype.sort() is stable.
Before(s, i, j) ==
    \/ s[i].anchoredAt < s[j].anchoredAt
    \/ s[i].anchoredAt = s[j].anchoredAt /\ i < j

SortedByTime(s) ==
    LET place(i) == Cardinality({j \in DOMAIN s : Before(s, j, i)}) + 1
    IN [k \in DOMAIN s |-> s[CHOOSE i \in DOMAIN s : place(i) = k]]

historyByType(log, subjectId, evidenceType) ==
    LET matches(e) == e.subjectId = subjectId /\ e.evidenceType = evidenceType
    IN SortedByTime(SelectSeq(log, matches))

latestByType(log, subjectId, evidenceType) ==
    LET history == historyByType(log, subjectId, evidenceType)
    IN IF history = <<>> THEN Undefined ELSE history[Len(history)]
=============================================================================
