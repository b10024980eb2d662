----------------------------- MODULE L2Verifier -----------------------------
(***************************************************************************)
(* The settlement ledger of zk-customs, l2-verifier-mock: one Node process *)
(* over two JSON files, settled.json and revoked_keys.json.  Requests to   *)
(* settle a document and to revoke a ministry key interleave at every      *)
(* await; the read-modify-write of settled.json runs under dbMutex.        *)
(*                                                                         *)
(* A presentation is reduced to what the handler looks at, the document's  *)
(* identifier hash and the ministry key; whether its proof verifies is a   *)
(* free choice.                                                            *)
(***************************************************************************)
EXTENDS Integers, Sequences

CONSTANTS
    Req,          \* requests to settle
    Rev,          \* requests to revoke a key
    Doc,          \* documentIdHash values
    Key,          \* ministry public keys
    MaxClock,     \* bound on the process's clock
    MaxRestarts,  \* bound on restarts
    Null          \* no value

ASSUME L2Assumption ==
    /\ MaxClock \in Nat
    /\ MaxRestarts \in Nat
    /\ Req \cap Rev = {}
    /\ Null \notin Req \cup Rev \cup Key \cup Doc \cup Nat

VARIABLES
    authorizedPublicKeys,  \* in memory
    revokedKeys,           \* in memory: the compromise time of a key, or Null
    revokedFile,           \* revoked_keys.json
    settled,               \* settled.json: the records in order
    dbMutex,               \* the handler that holds it, or Null
    loaded,                \* what the holder read with loadDB()
    call,                  \* the handler of each request
    revoking,              \* the handler of each revocation
    clock, restarts

l2Vars == <<authorizedPublicKeys, revokedKeys, revokedFile, settled, dbMutex, loaded, call,
            revoking, clock, restarts>>
ledgerVars == <<settled, dbMutex, loaded>>
keyVars == <<authorizedPublicKeys, revokedKeys, revokedFile, revoking>>

Handler == Req \cup Rev
Clocks == 0 .. MaxClock
Revocations == [Key -> Clocks \cup {Null}]
Record == [doc : Doc, key : Key, settledAt : Clocks, status : {"APPROVED", "SUSPICIOUS"}]

\* What a request was answered: 200, 409, 403, 400, or nothing at all.
Answer == {"approved", "duplicate", "forbidden", "invalid", "lost"}
NoCall == [pc |-> "idle", doc |-> Null, key |-> Null]
NoRevocation == [pc |-> "idle", key |-> Null, revokedAt |-> Null, entries |-> Null]
RevocationState == [pc : {"idle", "entries", "persist", "mutex", "mark"},
                    key : Key \cup {Null}, revokedAt : Clocks \cup {Null},
                    entries : Revocations \cup {Null}]

L2Init ==
    /\ authorizedPublicKeys = {}
    /\ revokedKeys = [k \in Key |-> Null]
    /\ revokedFile = [k \in Key |-> Null]
    /\ settled = << >>
    /\ dbMutex = Null
    /\ loaded = << >>
    /\ call = [r \in Req |-> NoCall]
    /\ revoking = [v \in Rev |-> NoRevocation]
    /\ clock = 0
    /\ restarts = 0

-----------------------------------------------------------------------------
\* syncMinistryPublicKey(), at start with retries or by POST /api/sync.
SyncMinistryPublicKey(k) ==
    /\ authorizedPublicKeys' = authorizedPublicKeys \cup {k}
    /\ UNCHANGED <<revokedKeys, revokedFile, ledgerVars, call, revoking, clock, restarts>>

\* The handler goes on to its next await, or answers.
Reply(r, answer) == call' = [call EXCEPT ![r].pc = answer]

\* POST /api/verify-and-settle arrives: whitelist and revocation are looked at
\* before the proof is verified.
VerifyAndSettle(r, doc, key) ==
    /\ call[r].pc = "idle"
    /\ call' = [call EXCEPT ![r] =
          [pc |-> IF key \in authorizedPublicKeys /\ revokedKeys[key] = Null
                  THEN "verify" ELSE "forbidden",
           doc |-> doc, key |-> key]]
    /\ UNCHANGED <<keyVars, ledgerVars, clock, restarts>>

\* sp1VerifyProof() returns.
ProofVerified(r, proofValid) ==
    /\ call[r].pc = "verify"
    /\ Reply(r, IF proofValid THEN "mutex" ELSE "invalid")
    /\ UNCHANGED <<keyVars, ledgerVars, clock, restarts>>

\* Faulty variant: the file is read without waiting for the mutex.
AcquireAndLoad_NoWait(h) ==
    /\ dbMutex' = h
    /\ loaded' = settled

\* dbMutex.runExclusive() starts and loadDB() is under way.
AcquireAndLoad(h) ==
    /\ dbMutex = Null
    /\ dbMutex' = h
    /\ loaded' = settled

\* runExclusive() ends: the lock is free and the array it worked on is gone.
Release ==
    /\ dbMutex' = Null
    /\ loaded' = << >>

SettleLoad(r) ==
    /\ call[r].pc = "mutex"
    /\ AcquireAndLoad(r)
    /\ Reply(r, "append")
    /\ UNCHANGED <<keyVars, settled, clock, restarts>>

\* Faulty variant: a flagged record does not count.
Duplicate_ApprovedOnly(doc) ==
    \E i \in DOMAIN loaded : loaded[i].doc = doc /\ loaded[i].status = "APPROVED"

\* Whether the file has a record of the document, whatever its status.
Duplicate(doc) == \E i \in DOMAIN loaded : loaded[i].doc = doc

\* "Document already approved."
SettleReplay(r) ==
    /\ call[r].pc = "append"
    /\ Duplicate(call[r].doc)
    /\ Release
    /\ Reply(r, "duplicate")
    /\ UNCHANGED <<keyVars, settled, clock, restarts>>

\* Faulty variant: the lock is not given back.
SettleSave_LockKept(r) ==
    /\ call[r].pc = "append"
    /\ ~Duplicate(call[r].doc)
    /\ settled' = Append(loaded, [doc |-> call[r].doc, key |-> call[r].key,
                                  settledAt |-> clock, status |-> "APPROVED"])
    /\ Reply(r, "approved")
    /\ UNCHANGED <<keyVars, dbMutex, loaded, clock, restarts>>

\* db.push(record), saveDB(db), 200.
SettleSave(r) ==
    /\ call[r].pc = "append"
    /\ ~Duplicate(call[r].doc)
    /\ settled' = Append(loaded, [doc |-> call[r].doc, key |-> call[r].key,
                                  settledAt |-> clock, status |-> "APPROVED"])
    /\ Release
    /\ Reply(r, "approved")
    /\ UNCHANGED <<keyVars, clock, restarts>>

\* The client reads the answer, or is told that the connection broke.
Answered(r) ==
    /\ call[r].pc \in Answer
    /\ call' = [call EXCEPT ![r] = NoCall]
    /\ UNCHANGED <<keyVars, ledgerVars, clock, restarts>>

-----------------------------------------------------------------------------
\* POST /api/revoke-key: the key is refused at once, in memory.  The time of the
\* compromise is the caller's, past or future.
RevokeKey(v, k, compromisedAt) ==
    /\ revoking[v].pc = "idle"
    /\ k \in authorizedPublicKeys
    /\ revokedKeys' = [revokedKeys EXCEPT ![k] = compromisedAt]
    /\ revoking' = [revoking EXCEPT ![v] = [NoRevocation EXCEPT !.pc = "entries", !.key = k,
                                                              !.revokedAt = compromisedAt]]
    /\ UNCHANGED <<authorizedPublicKeys, revokedFile, ledgerVars, call, clock, restarts>>

\* persistRevokedKeys(), from mkdir to the start of writeFile: the file's new
\* content is what the map holds now.
CollectEntries(v) ==
    /\ revoking[v].pc = "entries"
    /\ revoking' = [revoking EXCEPT ![v].pc = "persist", ![v].entries = revokedKeys]
    /\ UNCHANGED <<authorizedPublicKeys, revokedKeys, revokedFile, ledgerVars, call, clock,
                   restarts>>

\* writeFile() is done, in any order with that of another revocation.
PersistRevokedKeys(v) ==
    /\ revoking[v].pc = "persist"
    /\ revokedFile' = revoking[v].entries
    /\ revoking' = [revoking EXCEPT ![v].pc = "mutex", ![v].entries = Null]
    /\ UNCHANGED <<authorizedPublicKeys, revokedKeys, ledgerVars, call, clock, restarts>>

\* mkdir() or writeFile() throws, and with it the handler: the key stays revoked in memory,
\* the file is what it was, and no record is flagged.
RevocationNotPersisted(v) ==
    /\ revoking[v].pc \in {"entries", "persist"}
    /\ revoking' = [revoking EXCEPT ![v] = NoRevocation]
    /\ UNCHANGED <<authorizedPublicKeys, revokedKeys, revokedFile, ledgerVars, call, clock,
                   restarts>>

RevokeLoad(v) ==
    /\ revoking[v].pc = "mutex"
    /\ AcquireAndLoad(v)
    /\ revoking' = [revoking EXCEPT ![v].pc = "mark"]
    /\ UNCHANGED <<authorizedPublicKeys, revokedKeys, revokedFile, settled, call, clock,
                   restarts>>

\* Faulty variant: every record of the key is flagged.
Flagged_Always(rec, v) ==
    IF rec.key = revoking[v].key THEN [rec EXCEPT !.status = "SUSPICIOUS"] ELSE rec

\* A record of the compromised key, settled since.
Flagged(rec, v) ==
    IF rec.key = revoking[v].key /\ rec.settledAt >= revoking[v].revokedAt
    THEN [rec EXCEPT !.status = "SUSPICIOUS"]
    ELSE rec

RevokeMark(v) ==
    /\ revoking[v].pc = "mark"
    /\ settled' = [i \in DOMAIN loaded |-> Flagged(loaded[i], v)]
    /\ Release
    /\ revoking' = [revoking EXCEPT ![v] = NoRevocation]
    /\ UNCHANGED <<authorizedPublicKeys, revokedKeys, revokedFile, call, clock, restarts>>

-----------------------------------------------------------------------------
\* Faulty variant: a restart forgets the revocations.
Restart_Forgets ==
    /\ restarts < MaxRestarts
    /\ restarts' = restarts + 1
    /\ authorizedPublicKeys' = {}
    /\ revokedKeys' = [k \in Key |-> Null]
    /\ Release
    /\ call' = [r \in Req |-> IF call[r].pc \in {"verify", "mutex", "append"}
                              THEN [call[r] EXCEPT !.pc = "lost"] ELSE call[r]]
    /\ revoking' = [v \in Rev |-> NoRevocation]
    /\ UNCHANGED <<revokedFile, settled, clock>>

\* The process dies at an await and starts again: the files are what it has,
\* and the whitelist is synchronised afresh.
Restart ==
    /\ restarts < MaxRestarts
    /\ restarts' = restarts + 1
    /\ authorizedPublicKeys' = {}
    /\ revokedKeys' = revokedFile
    /\ Release
    /\ call' = [r \in Req |-> IF call[r].pc \in {"verify", "mutex", "append"}
                              THEN [call[r] EXCEPT !.pc = "lost"] ELSE call[r]]
    /\ revoking' = [v \in Rev |-> NoRevocation]
    /\ UNCHANGED <<revokedFile, settled, clock>>

ClockTick ==
    /\ clock < MaxClock
    /\ clock' = clock + 1
    /\ UNCHANGED <<keyVars, ledgerVars, call, restarts>>

SettleStep(r) ==
    \/ \E proofValid \in BOOLEAN : ProofVerified(r, proofValid)
    \/ SettleLoad(r)
    \/ SettleReplay(r)
    \/ SettleSave(r)

RevokeStep(v) ==
    \/ CollectEntries(v)
    \/ PersistRevokedKeys(v)
    \/ RevocationNotPersisted(v)
    \/ RevokeLoad(v)
    \/ RevokeMark(v)

L2Step ==
    \/ \E r \in Req : SettleStep(r)
    \/ \E v \in Rev : RevokeStep(v)
    \/ \E v \in Rev, k \in Key, compromisedAt \in Clocks : RevokeKey(v, k, compromisedAt)
    \/ Restart
    \/ ClockTick

L2Next ==
    \/ L2Step
    \/ \E k \in Key : SyncMinistryPublicKey(k)
    \/ \E r \in Req, doc \in Doc, key \in Key : VerifyAndSettle(r, doc, key)
    \/ \E r \in Req : Answered(r)

L2Spec == L2Init /\ [][L2Next]_l2Vars

-----------------------------------------------------------------------------
\* Files, memory and handlers hold values of their kind.
L2TypeOK ==
    /\ authorizedPublicKeys \subseteq Key
    /\ revokedKeys \in Revocations
    /\ revokedFile \in Revocations
    /\ settled \in Seq(Record)
    /\ loaded \in Seq(Record)
    /\ dbMutex \in Handler \cup {Null}
    /\ call \in [Req -> [pc : {"idle", "verify", "mutex", "append"} \cup Answer,
                         doc : Doc \cup {Null}, key : Key \cup {Null}]]
    /\ \A r \in Req : call[r].pc \in {"verify", "mutex", "append"} =>
                         call[r].doc \in Doc /\ call[r].key \in Key
    /\ revoking \in [Rev -> RevocationState]
    /\ clock \in Clocks
    /\ restarts \in 0 .. MaxRestarts

\* "Replay attack: documentIdHash unique constraint on L2": however requests,
\* retries, revocations and restarts interleave, settled.json never holds two
\* records of one document.
OneRecordPerDocument ==
    \A i, j \in DOMAIN settled : settled[i].doc = settled[j].doc => i = j

\* A client that was told "approved" finds its document in settled.json, also
\* after another handler has rewritten the file.
ApprovedIsRecorded ==
    \A r \in Req : call[r].pc = "approved" =>
        \E i \in DOMAIN settled : settled[i].doc = call[r].doc

\* settled.json is a history: a record keeps its place, its document, its key
\* and its time; all that may happen to it is to be flagged, and only by a
\* revocation of its key that reaches back to its time.
HistoryKept ==
    [][\A i \in DOMAIN settled :
          /\ i \in DOMAIN settled'
          /\ settled'[i] # settled[i] =>
                /\ settled'[i] = [settled[i] EXCEPT !.status = "SUSPICIOUS"]
                /\ revokedKeys[settled[i].key] # Null
                /\ \E v \in Rev : /\ revoking[v].key = settled[i].key
                                  /\ settled[i].settledAt >= revoking[v].revokedAt]_l2Vars

\* While revoked_keys.json holds a revocation no request under that key is let
\* in, also when the process has just restarted and synchronised its whitelist.
RevocationHolds ==
    [][\A r \in Req : call[r].pc = "idle" /\ call'[r].pc = "verify" =>
          revokedFile[call'[r].key] = Null]_l2Vars

\* Every request is answered, or its connection breaks: nobody waits for the
\* mutex for ever.
RequestsAnswered ==
    \A r \in Req : call[r].pc = "verify" ~> call[r].pc \in Answer \cup {"idle"}

-----------------------------------------------------------------------------
\* The abstract ledger: its settled documents, what each client has presented, and
\* what it has been told of it.  A refusal is one that looked at the request.
SettledDocuments == {settled[i].doc : i \in DOMAIN settled}
Presented == [r \in Req |-> call[r].doc]
Told ==
    [r \in Req |->
        CASE call[r].pc = "approved" -> "approved"
          [] call[r].pc = "duplicate" -> "duplicate"
          [] call[r].pc \in {"forbidden", "invalid"} -> "refused"
          [] call[r].pc = "lost" -> "unknown"
          [] OTHER -> "nothing"]

Ledger == INSTANCE SettlementLedger WITH
    Client <- Req,
    settled <- SettledDocuments,
    presented <- Presented,
    told <- Told

\* The verifier with its files keeps the promise of a settlement ledger: a document
\* settles once, for a request that was not refused, and stays settled through
\* restarts, and whoever is told that it is settled is told the truth.
FilesKeepLedgerPromise == Ledger!Spec
=============================================================================
