-------------------------- MODULE L2VerifierProofs --------------------------
(***************************************************************************)
(* The ledger's guarantees, for any number of requests, documents, keys,   *)
(* restarts, and any times.                                                *)
(***************************************************************************)
EXTENDS L2Verifier, TLAPS

\* dbMutex is held exactly by the handler that is between loadDB and saveDB,
\* and what that handler read is still what the file holds.
MutexInv ==
    /\ \A r \in Req : call[r].pc = "append" <=> dbMutex = r
    /\ \A v \in Rev : revoking[v].pc = "mark" <=> dbMutex = v
    /\ dbMutex # Null => loaded = settled

\* Whatever this list of revocations names is refused in memory.
InForce(entries) == \A k \in Key : entries[k] # Null => revokedKeys[k] # Null

\* A revocation under way is in force in memory, and so is everything that is on
\* disk or about to be written there.
RevocationInv ==
    /\ \A v \in Rev : revoking[v].pc # "idle" => /\ revoking[v].key \in Key
                                                /\ revoking[v].revokedAt \in Clocks
                                                /\ revokedKeys[revoking[v].key] # Null
    /\ \A v \in Rev : revoking[v].pc = "persist" => /\ revoking[v].entries \in Revocations
                                                   /\ InForce(revoking[v].entries)
    /\ InForce(revokedFile)

L2Inv ==
    /\ L2TypeOK
    /\ MutexInv
    /\ RevocationInv
    /\ OneRecordPerDocument
    /\ ApprovedIsRecorded

-----------------------------------------------------------------------------
\* Appending a record of a document that has none keeps the list free of
\* duplicates, and every document that was in it.
LEMMA AppendFresh ==
    ASSUME NEW s \in Seq(Record), NEW rec \in Record,
           \A i, j \in DOMAIN s : s[i].doc = s[j].doc => i = j,
           \A i \in DOMAIN s : s[i].doc # rec.doc
    PROVE  LET t == Append(s, rec)
           IN  /\ t \in Seq(Record)
               /\ \A i, j \in DOMAIN t : t[i].doc = t[j].doc => i = j
               /\ \A i \in DOMAIN s : i \in DOMAIN t /\ t[i] = s[i]
               /\ \E i \in DOMAIN t : t[i].doc = rec.doc
<1> DEFINE t == Append(s, rec)
<1>1. /\ t \in Seq(Record)
      /\ Len(t) = Len(s) + 1
      /\ \A i \in 1 .. Len(s) : t[i] = s[i]
      /\ t[Len(s) + 1] = rec
  OBVIOUS
<1>2. DOMAIN s = 1 .. Len(s) /\ DOMAIN t = 1 .. Len(t) /\ Len(s) \in Nat
  BY <1>1
<1>3. \A i \in DOMAIN t : i \in DOMAIN s \/ i = Len(s) + 1
  BY <1>1, <1>2
<1>4. \A i \in DOMAIN s : i \in DOMAIN t /\ t[i] = s[i]
  BY <1>1, <1>2
<1>5. Len(s) + 1 \in DOMAIN t
  BY <1>1, <1>2
<1>6. ASSUME NEW i \in DOMAIN t, NEW j \in DOMAIN t, t[i].doc = t[j].doc PROVE i = j
  <2>1. CASE i \in DOMAIN s /\ j \in DOMAIN s
    BY <2>1, <1>6, <1>4
  <2>2. CASE i \in DOMAIN s /\ j = Len(s) + 1
    BY <2>2, <1>6, <1>4, <1>1
  <2>3. CASE i = Len(s) + 1 /\ j \in DOMAIN s
    BY <2>3, <1>6, <1>4, <1>1
  <2>4. CASE i = Len(s) + 1 /\ j = Len(s) + 1
    BY <2>4
  <2> QED BY <2>1, <2>2, <2>3, <2>4, <1>3
<1> QED BY <1>1, <1>4, <1>5, <1>6

\* Flagging records changes no document, key or time.
LEMMA FlaggedType ==
    ASSUME NEW rec \in Record, NEW v \in Rev
    PROVE  /\ Flagged(rec, v) \in Record
           /\ Flagged(rec, v).doc = rec.doc
  BY DEF Flagged, Record

-----------------------------------------------------------------------------
\* Init establishes the invariant.
LEMMA L2InitInv == L2Init => L2Inv
<1> SUFFICES ASSUME L2Init PROVE L2Inv
  OBVIOUS
<1> USE L2Assumption
<1>1. L2TypeOK
  BY DEF L2Init, L2TypeOK, NoCall, NoRevocation, RevocationState, Clocks, Revocations, Answer,
         Handler
<1>2. MutexInv
  BY DEF L2Init, MutexInv, NoCall, NoRevocation
<1>3. RevocationInv
  BY DEF L2Init, RevocationInv, InForce, Revocations, NoRevocation
<1>4. OneRecordPerDocument /\ ApprovedIsRecorded
  BY DEF L2Init, OneRecordPerDocument, ApprovedIsRecorded, NoCall
<1> QED BY <1>1, <1>2, <1>3, <1>4 DEF L2Inv

\* A request arrives.
LEMMA ArriveInv ==
    ASSUME L2Inv, NEW r \in Req, NEW doc \in Doc, NEW key \in Key, VerifyAndSettle(r, doc, key)
    PROVE  L2Inv'
<1> USE DEF L2Inv, VerifyAndSettle, keyVars, ledgerVars
<1>1. L2TypeOK'
  BY DEF L2TypeOK, Answer
<1>2. MutexInv'
  BY DEF L2TypeOK, MutexInv
<1>3. RevocationInv'
  BY DEF RevocationInv, InForce
<1>4. OneRecordPerDocument' /\ ApprovedIsRecorded'
  BY DEF L2TypeOK, OneRecordPerDocument, ApprovedIsRecorded
<1> QED BY <1>1, <1>2, <1>3, <1>4

\* The proof's verdict.
LEMMA VerifiedInv ==
    ASSUME L2Inv, NEW r \in Req, NEW proofValid \in BOOLEAN, ProofVerified(r, proofValid)
    PROVE  L2Inv'
<1> USE DEF L2Inv, ProofVerified, Reply, keyVars, ledgerVars
<1>1. L2TypeOK'
  BY DEF L2TypeOK, Answer
<1>2. MutexInv'
  BY DEF L2TypeOK, MutexInv
<1>3. RevocationInv'
  BY DEF RevocationInv, InForce
<1>4. OneRecordPerDocument' /\ ApprovedIsRecorded'
  BY DEF L2TypeOK, OneRecordPerDocument, ApprovedIsRecorded
<1> QED BY <1>1, <1>2, <1>3, <1>4

\* The client reads its answer.
LEMMA AnsweredInv ==
    ASSUME L2Inv, NEW r \in Req, Answered(r)
    PROVE  L2Inv'
<1> USE DEF L2Inv, Answered, NoCall, keyVars, ledgerVars
<1>1. L2TypeOK'
  BY DEF L2TypeOK, Answer
<1>2. MutexInv'
  BY DEF L2TypeOK, MutexInv, Answer
<1>3. RevocationInv'
  BY DEF RevocationInv, InForce
<1>4. OneRecordPerDocument' /\ ApprovedIsRecorded'
  BY DEF L2TypeOK, OneRecordPerDocument, ApprovedIsRecorded
<1> QED BY <1>1, <1>2, <1>3, <1>4

\* Taking the lock: nobody else is between loadDB and saveDB.
LEMMA SettleLoadInv ==
    ASSUME L2Inv, NEW r \in Req, SettleLoad(r)
    PROVE  L2Inv'
<1> USE L2Assumption DEF L2Inv, SettleLoad, AcquireAndLoad, Reply, keyVars
<1>1. L2TypeOK'
  <2> DEFINE CallSet == [pc : {"idle", "verify", "mutex", "append"} \cup Answer,
                         doc : Doc \cup {Null}, key : Key \cup {Null}]
  <2>a. call \in [Req -> CallSet]
    BY DEF L2TypeOK
  <2>b. call'[r] \in CallSet
    BY <2>a
  <2>1. call' \in [Req -> CallSet]
    <3> HIDE DEF CallSet
    <3> QED BY <2>a, <2>b
  <2>2. \A q \in Req : call'[q].pc \in {"verify", "mutex", "append"} =>
                           call'[q].doc \in Doc /\ call'[q].key \in Key
    BY DEF L2TypeOK
  <2>3. dbMutex' \in Handler \cup {Null} /\ loaded' \in Seq(Record)
    BY DEF L2TypeOK, Handler
  <2> QED BY <2>1, <2>2, <2>3 DEF L2TypeOK
<1>2. MutexInv'
  BY DEF L2TypeOK, MutexInv
<1>3. RevocationInv'
  BY DEF RevocationInv, InForce
<1>4. OneRecordPerDocument' /\ ApprovedIsRecorded'
  BY DEF L2TypeOK, OneRecordPerDocument, ApprovedIsRecorded
<1> QED BY <1>1, <1>2, <1>3, <1>4

\* A document that is already there is answered and nothing is written.
LEMMA SettleReplayInv ==
    ASSUME L2Inv, NEW r \in Req, SettleReplay(r)
    PROVE  L2Inv'
<1> USE L2Assumption DEF L2Inv, SettleReplay, Release, Reply, keyVars
<1>1. L2TypeOK'
  <2>1. call' \in [Req -> [pc : {"idle", "verify", "mutex", "append"} \cup Answer,
                           doc : Doc \cup {Null}, key : Key \cup {Null}]]
    BY DEF L2TypeOK, Answer
  <2>2. \A q \in Req : call'[q].pc \in {"verify", "mutex", "append"} =>
                           call'[q].doc \in Doc /\ call'[q].key \in Key
    BY DEF L2TypeOK
  <2>3. dbMutex' \in Handler \cup {Null} /\ loaded' \in Seq(Record)
    BY DEF L2TypeOK, Handler
  <2> QED BY <2>1, <2>2, <2>3 DEF L2TypeOK
<1>2. MutexInv'
  BY DEF L2TypeOK, MutexInv
<1>3. RevocationInv'
  BY DEF RevocationInv, InForce
<1>4. OneRecordPerDocument' /\ ApprovedIsRecorded'
  BY DEF L2TypeOK, OneRecordPerDocument, ApprovedIsRecorded
<1> QED BY <1>1, <1>2, <1>3, <1>4

\* The file is replaced by what was read from it and one fresh record.
LEMMA SettleSaveInv ==
    ASSUME L2Inv, NEW r \in Req, SettleSave(r)
    PROVE  L2Inv'
<1> DEFINE rec == [doc |-> call[r].doc, key |-> call[r].key,
                   settledAt |-> clock, status |-> "APPROVED"]
<1> USE L2Assumption DEF L2Inv, Release, Reply, keyVars
<1>1. call[r].pc = "append" /\ loaded = settled
  BY DEF SettleSave, MutexInv
<1>2. rec \in Record /\ settled \in Seq(Record)
  BY <1>1 DEF L2TypeOK, Record
<1>3. \A i \in DOMAIN settled : settled[i].doc # rec.doc
  BY <1>1 DEF SettleSave, Duplicate
<1>4. settled' = Append(settled, rec)
  BY <1>1 DEF SettleSave
<1>5. /\ settled' \in Seq(Record)
      /\ \A i, j \in DOMAIN settled' : settled'[i].doc = settled'[j].doc => i = j
      /\ \A i \in DOMAIN settled : i \in DOMAIN settled' /\ settled'[i] = settled[i]
      /\ \E i \in DOMAIN settled' : settled'[i].doc = rec.doc
  <2>1. \A i, j \in DOMAIN settled : settled[i].doc = settled[j].doc => i = j
    BY DEF OneRecordPerDocument
  <2> HIDE DEF rec
  <2> QED BY <1>2, <1>3, <1>4, <2>1, AppendFresh
<1>6. L2TypeOK'
  BY <1>5 DEF L2TypeOK, SettleSave, Answer, Handler
<1>7. MutexInv'
  BY DEF L2TypeOK, MutexInv, SettleSave
<1>8. RevocationInv'
  BY DEF RevocationInv, InForce, SettleSave
<1>9. OneRecordPerDocument'
  BY <1>5 DEF OneRecordPerDocument
<1>10. ApprovedIsRecorded'
  <2> SUFFICES ASSUME NEW q \in Req, call'[q].pc = "approved"
               PROVE  \E i \in DOMAIN settled' : settled'[i].doc = call'[q].doc
    BY DEF ApprovedIsRecorded
  <2>1. CASE q = r
    <3>1. call'[q].doc = rec.doc
      BY <2>1 DEF SettleSave, L2TypeOK
    <3> QED BY <3>1, <1>5
  <2>2. CASE q # r
    <3>1. call'[q] = call[q]
      BY <2>2 DEF SettleSave, L2TypeOK
    <3>2. PICK i \in DOMAIN settled : settled[i].doc = call[q].doc
      BY <3>1 DEF ApprovedIsRecorded
    <3> QED BY <3>1, <3>2, <1>5
  <2> QED BY <2>1, <2>2
<1> QED BY <1>6, <1>7, <1>8, <1>9, <1>10

-----------------------------------------------------------------------------
\* A revocation starts.
LEMMA RevokeKeyInv ==
    ASSUME L2Inv, NEW v \in Rev, NEW k \in Key, NEW compromisedAt \in Clocks,
           RevokeKey(v, k, compromisedAt)
    PROVE  L2Inv'
<1> USE L2Assumption DEF L2Inv, RevokeKey, NoRevocation, ledgerVars
<1>0. compromisedAt \in Clocks /\ compromisedAt # Null
  BY DEF L2TypeOK, Clocks
<1>1. L2TypeOK'
  BY <1>0 DEF L2TypeOK, Revocations, RevocationState
<1>2. MutexInv'
  BY DEF L2TypeOK, RevocationState, MutexInv
<1>3. RevocationInv'
  <2>1. revokedKeys'[k] # Null /\ \A j \in Key : revokedKeys[j] # Null => revokedKeys'[j] # Null
    BY <1>0 DEF L2TypeOK, Revocations
  <2>2. \A w \in Rev : w # v => revoking'[w] = revoking[w]
    BY DEF L2TypeOK
  <2>3. /\ revoking'[v].pc = "entries"
        /\ revoking'[v].key = k
        /\ revoking'[v].revokedAt = compromisedAt
    BY DEF L2TypeOK, RevocationState
  <2>4. revokedFile' = revokedFile
    OBVIOUS
  <2> QED BY <1>0, <2>1, <2>2, <2>3, <2>4 DEF RevocationInv, InForce
<1>4. OneRecordPerDocument' /\ ApprovedIsRecorded'
  BY DEF OneRecordPerDocument, ApprovedIsRecorded
<1> QED BY <1>1, <1>2, <1>3, <1>4

\* It reads the map it is about to write.
LEMMA CollectInv ==
    ASSUME L2Inv, NEW v \in Rev, CollectEntries(v)
    PROVE  L2Inv'
<1> USE L2Assumption DEF L2Inv, CollectEntries, ledgerVars
<1>1. L2TypeOK'
  <2>a. revoking \in [Rev -> RevocationState] /\ revokedKeys \in Revocations
    BY DEF L2TypeOK
  <2>b. revoking'[v] \in RevocationState
    BY <2>a DEF RevocationState
  <2>1. revoking' \in [Rev -> RevocationState]
    BY <2>a, <2>b
  <2> QED BY <2>1 DEF L2TypeOK
<1>2. MutexInv'
  BY DEF L2TypeOK, RevocationState, MutexInv
<1>3. RevocationInv'
  BY DEF L2TypeOK, RevocationState, RevocationInv, InForce
<1>4. OneRecordPerDocument' /\ ApprovedIsRecorded'
  BY DEF OneRecordPerDocument, ApprovedIsRecorded
<1> QED BY <1>1, <1>2, <1>3, <1>4

\* It does not reach the disk.
LEMMA NotPersistedInv ==
    ASSUME L2Inv, NEW v \in Rev, RevocationNotPersisted(v)
    PROVE  L2Inv'
<1> USE L2Assumption DEF L2Inv, RevocationNotPersisted, NoRevocation, ledgerVars
<1>1. L2TypeOK'
  <2>1. revoking' \in [Rev -> RevocationState]
    BY DEF L2TypeOK, RevocationState
  <2> QED BY <2>1 DEF L2TypeOK
<1>2. MutexInv'
  BY DEF L2TypeOK, RevocationState, MutexInv
<1>3. RevocationInv'
  BY DEF L2TypeOK, RevocationState, RevocationInv, InForce
<1>4. OneRecordPerDocument' /\ ApprovedIsRecorded'
  BY DEF OneRecordPerDocument, ApprovedIsRecorded
<1> QED BY <1>1, <1>2, <1>3, <1>4

\* It reaches the disk.
LEMMA PersistInv ==
    ASSUME L2Inv, NEW v \in Rev, PersistRevokedKeys(v)
    PROVE  L2Inv'
<1> USE L2Assumption DEF L2Inv, PersistRevokedKeys, ledgerVars
<1>1. revokedFile' \in Revocations
  BY DEF RevocationInv
<1>2. L2TypeOK'
  <2>a. revoking \in [Rev -> RevocationState] /\ revokedKeys \in Revocations
    BY DEF L2TypeOK
  <2>b. revoking'[v] \in RevocationState
    BY <2>a DEF RevocationState
  <2>1. revoking' \in [Rev -> RevocationState]
    BY <2>a, <2>b
  <2> QED BY <1>1, <2>1 DEF L2TypeOK
<1>3. MutexInv'
  BY DEF L2TypeOK, RevocationState, MutexInv
<1>4. RevocationInv'
  BY DEF L2TypeOK, RevocationState, RevocationInv, InForce
<1>5. OneRecordPerDocument' /\ ApprovedIsRecorded'
  BY DEF OneRecordPerDocument, ApprovedIsRecorded
<1> QED BY <1>2, <1>3, <1>4, <1>5

\* It takes the lock.
LEMMA RevokeLoadInv ==
    ASSUME L2Inv, NEW v \in Rev, RevokeLoad(v)
    PROVE  L2Inv'
<1> USE L2Assumption DEF L2Inv, RevokeLoad, AcquireAndLoad
<1>1. L2TypeOK'
  <2>1. revoking' \in [Rev -> RevocationState]
    <3>1. revoking \in [Rev -> RevocationState]
      BY DEF L2TypeOK
    <3>2. [revoking[v] EXCEPT !.pc = "mark"] \in RevocationState
      BY <3>1 DEF RevocationState
    <3> HIDE DEF RevocationState
    <3> QED BY <3>1, <3>2
  <2>2. dbMutex' \in Handler /\ loaded' \in Seq(Record)
    BY DEF L2TypeOK, Handler
  <2> QED BY <2>1, <2>2 DEF L2TypeOK, RevocationState
<1>2. MutexInv'
  BY DEF L2TypeOK, RevocationState, MutexInv
<1>3. RevocationInv'
  BY DEF L2TypeOK, RevocationState, RevocationInv, InForce
<1>4. OneRecordPerDocument' /\ ApprovedIsRecorded'
  BY DEF OneRecordPerDocument, ApprovedIsRecorded
<1> QED BY <1>1, <1>2, <1>3, <1>4

\* It flags records of the file it holds.
LEMMA RevokeMarkInv ==
    ASSUME L2Inv, NEW v \in Rev, RevokeMark(v)
    PROVE  L2Inv'
<1> USE L2Assumption DEF L2Inv, Release
<1>1. loaded = settled /\ settled \in Seq(Record)
  BY DEF RevokeMark, MutexInv, L2TypeOK
<1>2. settled' = [i \in DOMAIN settled |-> Flagged(settled[i], v)]
  BY <1>1 DEF RevokeMark
<1>3. \A i \in DOMAIN settled : /\ settled[i] \in Record
                                /\ settled'[i] \in Record
                                /\ settled'[i].doc = settled[i].doc
  BY <1>1, <1>2, FlaggedType
<1>4. DOMAIN settled' = DOMAIN settled /\ DOMAIN settled = 1 .. Len(settled) /\ Len(settled) \in Nat
  BY <1>1, <1>2
<1>5. settled' \in Seq(Record)
  <2>1. settled' \in [1 .. Len(settled) -> Record]
    BY <1>2, <1>3, <1>4
  <2> QED BY <2>1, <1>4
<1>6. L2TypeOK'
  BY <1>5 DEF L2TypeOK, RevocationState, RevokeMark, NoRevocation, Handler
<1>7. MutexInv'
  BY DEF L2TypeOK, RevocationState, MutexInv, RevokeMark, NoRevocation
<1>8. RevocationInv'
  BY DEF L2TypeOK, RevocationState, RevocationInv, InForce, RevokeMark, NoRevocation
<1>9. OneRecordPerDocument'
  BY <1>3, <1>4 DEF OneRecordPerDocument
<1>10. ApprovedIsRecorded'
  BY <1>3, <1>4 DEF ApprovedIsRecorded, RevokeMark
<1> QED BY <1>6, <1>7, <1>8, <1>9, <1>10

\* A restart.
LEMMA RestartInv ==
    ASSUME L2Inv, Restart
    PROVE  L2Inv'
<1> USE L2Assumption DEF L2Inv, Restart, Release, NoRevocation
<1>1. L2TypeOK'
  <2> DEFINE CallSet == [pc : {"idle", "verify", "mutex", "append"} \cup Answer,
                         doc : Doc \cup {Null}, key : Key \cup {Null}]
  <2>1. ASSUME NEW r \in Req
        PROVE  /\ call'[r] \in CallSet
               /\ call'[r].pc \notin {"verify", "mutex", "append"}
    BY <2>1 DEF L2TypeOK, Answer
  <2>2. call' \in [Req -> CallSet]
    <3> HIDE DEF CallSet
    <3> QED BY <2>1
  <2>3. revoking' \in [Rev -> RevocationState]
    BY DEF L2TypeOK, RevocationState
  <2>4. restarts' \in 0 .. MaxRestarts /\ loaded' \in Seq(Record)
    BY DEF L2TypeOK
  <2>5. /\ authorizedPublicKeys' \subseteq Key
        /\ revokedKeys' \in Revocations
        /\ revokedFile' \in Revocations
        /\ settled' \in Seq(Record)
        /\ dbMutex' \in Handler \cup {Null}
        /\ clock' \in Clocks
    BY DEF L2TypeOK
  <2>6. \A r \in Req : call'[r].pc \in {"verify", "mutex", "append"} =>
                           call'[r].doc \in Doc /\ call'[r].key \in Key
    BY <2>1
  <2> QED BY ONLY <2>2, <2>3, <2>4, <2>5, <2>6 DEF L2TypeOK
<1>2. MutexInv'
  BY DEF L2TypeOK, MutexInv
<1>3. RevocationInv'
  BY DEF L2TypeOK, RevocationInv, InForce
<1>4. OneRecordPerDocument' /\ ApprovedIsRecorded'
  BY DEF L2TypeOK, OneRecordPerDocument, ApprovedIsRecorded
<1> QED BY <1>1, <1>2, <1>3, <1>4

\* Steps of the clock and of the whitelist.
LEMMA QuietInv ==
    ASSUME L2Inv, \/ ClockTick
                  \/ \E k \in Key : SyncMinistryPublicKey(k)
                  \/ UNCHANGED l2Vars
    PROVE  L2Inv'
<1>1. /\ UNCHANGED <<revokedKeys, revokedFile, ledgerVars, call, revoking, restarts>>
      /\ authorizedPublicKeys' \subseteq Key
      /\ clock' \in Clocks
  BY L2Assumption DEF L2Inv, L2TypeOK, Clocks, ClockTick, SyncMinistryPublicKey, l2Vars, keyVars,
                      ledgerVars
<1> USE <1>1 DEF L2Inv, ledgerVars
<1>2. L2TypeOK'
  BY DEF L2TypeOK
<1>3. MutexInv' /\ RevocationInv'
  BY DEF MutexInv, RevocationInv, InForce
<1>4. OneRecordPerDocument' /\ ApprovedIsRecorded'
  BY DEF OneRecordPerDocument, ApprovedIsRecorded
<1> QED BY <1>2, <1>3, <1>4

\* Every step of the process keeps the invariant.
LEMMA L2NextInv == L2Inv /\ [L2Next]_l2Vars => L2Inv'
<1> SUFFICES ASSUME L2Inv, [L2Next]_l2Vars PROVE L2Inv'
  OBVIOUS
<1>1. CASE \E r \in Req, doc \in Doc, key \in Key : VerifyAndSettle(r, doc, key)
  BY <1>1, ArriveInv
<1>2. CASE \E r \in Req : Answered(r)
  BY <1>2, AnsweredInv
<1>3. CASE \E r \in Req : SettleStep(r)
  BY <1>3, VerifiedInv, SettleLoadInv, SettleReplayInv, SettleSaveInv DEF SettleStep
<1>4. CASE \E v \in Rev : RevokeStep(v)
  BY <1>4, CollectInv, PersistInv, NotPersistedInv, RevokeLoadInv, RevokeMarkInv DEF RevokeStep
<1>5. CASE \E v \in Rev, k \in Key, compromisedAt \in Clocks : RevokeKey(v, k, compromisedAt)
  BY <1>5, RevokeKeyInv
<1>6. CASE Restart
  BY <1>6, RestartInv
<1>7. CASE \/ ClockTick
           \/ \E k \in Key : SyncMinistryPublicKey(k)
           \/ UNCHANGED l2Vars
  BY <1>7, QuietInv
<1> QED BY <1>1, <1>2, <1>3, <1>4, <1>5, <1>6, <1>7 DEF L2Next, L2Step

\* The invariant of the process: every theorem below rests on it.
THEOREM L2Invariant == L2Spec => []L2Inv
  BY L2InitInv, L2NextInv, PTL DEF L2Spec

\* Files, memory and handlers of the ledger keep their types.
THEOREM L2TypeCorrect == L2Spec => []L2TypeOK
<1>1. L2Inv => L2TypeOK
  BY DEF L2Inv
<1> QED BY <1>1, L2Invariant, PTL

\* No document is settled twice, whatever interleaving of requests,
\* revocations and restarts the process goes through.
THEOREM NoDoubleSettlement == L2Spec => []OneRecordPerDocument
<1>1. L2Inv => OneRecordPerDocument
  BY DEF L2Inv
<1> QED BY <1>1, L2Invariant, PTL

\* An answer "approved" is never lost to another handler's rewrite of the file.
THEOREM ApprovalsRecorded == L2Spec => []ApprovedIsRecorded
<1>1. L2Inv => ApprovedIsRecorded
  BY DEF L2Inv
<1> QED BY <1>1, L2Invariant, PTL

\* settled.json only grows, and a record changes only by being flagged by a
\* revocation of its own key that reaches back to its time.
THEOREM LedgerHistoryKept == L2Spec => HistoryKept
<1> DEFINE Kept == \A i \in DOMAIN settled :
              /\ i \in DOMAIN settled'
              /\ settled'[i] # settled[i] =>
                    /\ settled'[i] = [settled[i] EXCEPT !.status = "SUSPICIOUS"]
                    /\ revokedKeys[settled[i].key] # Null
                    /\ \E v \in Rev : /\ revoking[v].key = settled[i].key
                                      /\ settled[i].settledAt >= revoking[v].revokedAt
<1>1. ASSUME L2Inv, [L2Next]_l2Vars PROVE [Kept]_l2Vars
  <2> SUFFICES Kept
    OBVIOUS
  <2>1. CASE settled' = settled
    BY <2>1
  <2>2. ASSUME NEW r \in Req, SettleSave(r) PROVE Kept
    <3>1. loaded = settled /\ settled \in Seq(Record)
      BY <1>1, <2>2, L2Assumption DEF L2Inv, MutexInv, L2TypeOK, SettleSave
    <3> DEFINE rec == [doc |-> call[r].doc, key |-> call[r].key,
                       settledAt |-> clock, status |-> "APPROVED"]
    <3>2. settled' = Append(settled, rec)
      BY <3>1, <2>2 DEF SettleSave
    <3> HIDE DEF rec
    <3>3. \A i \in DOMAIN settled : i \in DOMAIN settled' /\ settled'[i] = settled[i]
      BY <3>1, <3>2
    <3> QED BY <3>3
  <2>3. ASSUME NEW v \in Rev, RevokeMark(v) PROVE Kept
    <3>1. /\ loaded = settled
          /\ settled \in Seq(Record)
          /\ revokedKeys[revoking[v].key] # Null
      BY <1>1, <2>3, L2Assumption DEF L2Inv, MutexInv, L2TypeOK, RevocationInv, InForce, RevokeMark
    <3>2. settled' = [i \in DOMAIN settled |-> Flagged(settled[i], v)]
      BY <3>1, <2>3 DEF RevokeMark
    <3> QED BY <3>1, <3>2 DEF Flagged
  <2>4. settled' = settled \/ (\E r \in Req : SettleSave(r)) \/ (\E v \in Rev : RevokeMark(v))
    BY <1>1 DEF L2Next, L2Step, SettleStep, RevokeStep, l2Vars, ledgerVars, ProofVerified,
                SettleLoad, SettleReplay, CollectEntries, PersistRevokedKeys, RevocationNotPersisted,
                RevokeLoad, RevokeKey, Restart,
                ClockTick, SyncMinistryPublicKey, VerifyAndSettle, Answered
  <2> QED BY <2>1, <2>2, <2>3, <2>4
<1> QED BY <1>1, L2Invariant, PTL DEF L2Spec, HistoryKept

\* While a revocation is in the file no request under its key is let in,
\* restarts included.
THEOREM RevocationsHold == L2Spec => RevocationHolds
<1> DEFINE Refused == \A r \in Req : call[r].pc = "idle" /\ call'[r].pc = "verify" =>
                         revokedFile[call'[r].key] = Null
<1>1. ASSUME L2Inv, [L2Next]_l2Vars PROVE [Refused]_l2Vars
  <2> SUFFICES ASSUME NEW r \in Req, call[r].pc = "idle", call'[r].pc = "verify"
               PROVE  revokedFile[call'[r].key] = Null
    OBVIOUS
  <2>1. call \in [Req -> [pc : {"idle", "verify", "mutex", "append"} \cup Answer,
                          doc : Doc \cup {Null}, key : Key \cup {Null}]]
    BY <1>1 DEF L2Inv, L2TypeOK
  <2>2. PICK doc \in Doc, key \in Key : VerifyAndSettle(r, doc, key)
    <3>1. ASSUME NEW q \in Req, SettleStep(q) PROVE FALSE
      <4>1. call[q].pc # "idle" /\ \A q2 \in Req : q2 # q => call'[q2] = call[q2]
        BY <2>1, <3>1 DEF SettleStep, ProofVerified, Reply, SettleLoad, SettleReplay, SettleSave
      <4> QED BY <4>1
    <3>2. ASSUME NEW q \in Req, Answered(q) PROVE FALSE
      BY <2>1, <3>2 DEF Answered, NoCall
    <3>3. CASE Restart
      BY <2>1, <3>3 DEF Restart
    <3>4. call' # call
      OBVIOUS
    <3>5. ASSUME NEW q \in Req, NEW doc \in Doc, NEW key \in Key, VerifyAndSettle(q, doc, key)
          PROVE  q = r
      BY <2>1, <3>5 DEF VerifyAndSettle
    <3>6. \/ \E q \in Req : SettleStep(q)
          \/ \E q \in Req : Answered(q)
          \/ Restart
          \/ \E q \in Req, doc \in Doc, key \in Key : VerifyAndSettle(q, doc, key)
      BY <1>1, <3>4 DEF L2Next, L2Step, RevokeStep, l2Vars, CollectEntries, PersistRevokedKeys, RevocationNotPersisted,
                        RevokeLoad,
            RevokeMark, RevokeKey, ClockTick, SyncMinistryPublicKey
    <3> QED BY <3>1, <3>2, <3>3, <3>5, <3>6
  <2>3. call'[r].key = key /\ revokedKeys[key] = Null
    BY <2>1, <2>2 DEF VerifyAndSettle
  <2> QED BY <1>1, <2>3 DEF L2Inv, RevocationInv, InForce
<1> QED BY <1>1, L2Invariant, PTL DEF L2Spec, RevocationHolds

-----------------------------------------------------------------------------
(* The verifier with its files implements the abstract ledger. *)

\* A handler that has not started, and only that one, has no document.
CallHasDocument == \A r \in Req : call[r].pc = "idle" <=> call[r].doc = Null

CallSet == [pc : {"idle", "verify", "mutex", "append"} \cup Answer,
            doc : Doc \cup {Null}, key : Key \cup {Null}]

LEMMA HasDocumentInitially == L2Init => CallHasDocument
<1>1. NoCall.pc = "idle" /\ NoCall.doc = Null
  BY DEF NoCall
<1>2. L2Init => \A r \in Req : call[r] = NoCall
  BY DEF L2Init
<1> QED BY <1>1, <1>2 DEF CallHasDocument

\* A step of a handler: its document stays, and no other request is touched.
LEMMA ReplyMoves ==
    ASSUME L2Inv, CallHasDocument, NEW r \in Req, call[r].pc # "idle",
           NEW pc \in {"mutex", "append"} \cup Answer, Reply(r, pc)
    PROVE  /\ call'[r].pc = pc
           /\ call'[r].doc = call[r].doc /\ call[r].doc # Null
           /\ \A q \in Req : q # r => call'[q] = call[q]
           /\ CallHasDocument'
<1>1. call \in [Req -> CallSet]
  BY DEF L2Inv, L2TypeOK, CallSet
<1>2. /\ call'[r].pc = pc
      /\ call'[r].doc = call[r].doc
      /\ \A q \in Req : q # r => call'[q] = call[q]
  BY <1>1 DEF Reply, CallSet
<1>3. pc # "idle"
  BY DEF Answer
<1> QED BY <1>2, <1>3 DEF CallHasDocument

\* A request that the process lost at a restart, and one that it did not.
LEMMA RestartLoses ==
    ASSUME L2Inv, Restart, NEW r \in Req
    PROVE  /\ call'[r].doc = call[r].doc
           /\ call[r].pc \in {"verify", "mutex", "append"} => call'[r].pc = "lost"
           /\ call[r].pc \notin {"verify", "mutex", "append"} => call'[r] = call[r]
<1>1. call[r] \in CallSet
  BY DEF L2Inv, L2TypeOK, CallSet
<1> QED BY <1>1 DEF Restart, CallSet

LEMMA HasDocumentStep ==
    ASSUME L2Inv, CallHasDocument, [L2Next]_l2Vars
    PROVE  CallHasDocument'
<1>0. call \in [Req -> CallSet] /\ {"mutex", "invalid", "append", "duplicate", "approved"}
         \subseteq {"mutex", "append"} \cup Answer
  BY DEF L2Inv, L2TypeOK, CallSet, Answer
<1>1. CASE UNCHANGED call
  BY <1>1 DEF CallHasDocument
<1>2. ASSUME NEW r \in Req, SettleStep(r) PROVE CallHasDocument'
  <2>1. call[r].pc # "idle"
    BY <1>2 DEF SettleStep, ProofVerified, SettleLoad, SettleReplay, SettleSave
  <2>2. \E pc \in {"mutex", "append"} \cup Answer : Reply(r, pc)
    BY <1>0, <1>2 DEF SettleStep, ProofVerified, SettleLoad, SettleReplay, SettleSave
  <2> QED BY <2>1, <2>2, ReplyMoves
<1>3. ASSUME NEW r \in Req, NEW doc \in Doc, NEW key \in Key, VerifyAndSettle(r, doc, key)
      PROVE  CallHasDocument'
  BY <1>0, <1>3, L2Assumption DEF VerifyAndSettle, CallHasDocument
<1>4. ASSUME NEW r \in Req, Answered(r) PROVE CallHasDocument'
  BY <1>0, <1>4 DEF Answered, NoCall, CallHasDocument
<1>5. CASE Restart
  <2>1. \A r \in Req : call'[r].pc = "idle" <=> call[r].pc = "idle"
    BY <1>5, RestartLoses
  <2>2. \A r \in Req : call'[r].doc = call[r].doc
    BY <1>5, RestartLoses
  <2> QED BY <2>1, <2>2 DEF CallHasDocument
<1> QED BY <1>1, <1>2, <1>3, <1>4, <1>5 DEF L2Next, L2Step, RevokeStep, l2Vars,
      CollectEntries, PersistRevokedKeys, RevocationNotPersisted,
      RevokeLoad, RevokeMark, RevokeKey, ClockTick,
      SyncMinistryPublicKey

\* What a client has been told, answer by answer.
LEMMA ToldIs ==
    ASSUME NEW r \in Req
    PROVE  /\ call[r].pc = "approved" => Told[r] = "approved"
           /\ call[r].pc = "duplicate" => Told[r] = "duplicate"
           /\ call[r].pc \in {"forbidden", "invalid"} => Told[r] = "refused"
           /\ call[r].pc = "lost" => Told[r] = "unknown"
           /\ call[r].pc \in {"idle", "verify", "mutex", "append"} => Told[r] = "nothing"
  BY DEF Told

\* The same of the next state.
LEMMA ToldNextIs ==
    ASSUME NEW r \in Req
    PROVE  /\ call'[r].pc = "approved" => Told'[r] = "approved"
           /\ call'[r].pc = "duplicate" => Told'[r] = "duplicate"
           /\ call'[r].pc \in {"forbidden", "invalid"} => Told'[r] = "refused"
           /\ call'[r].pc = "lost" => Told'[r] = "unknown"
           /\ call'[r].pc \in {"idle", "verify", "mutex", "append"} => Told'[r] = "nothing"
  BY DEF Told

\* An abstract client changes with the request it stands for.
LEMMA OthersKeep ==
    ASSUME NEW r \in Req, \A q \in Req : q # r => call'[q] = call[q]
    PROVE  /\ Told' = [Told EXCEPT ![r] = Told'[r]]
           /\ Presented' = [Presented EXCEPT ![r] = call'[r].doc]
  BY DEF Told, Presented

\* A request presents its document, and may be refused at once.
LEMMA ArrivePresents ==
    ASSUME L2Inv, CallHasDocument, NEW r \in Req, NEW doc \in Doc, NEW key \in Key,
           VerifyAndSettle(r, doc, key)
    PROVE  Ledger!Next
<1>1. /\ call[r].pc = "idle" /\ call[r].doc = Null
      /\ call'[r].doc = doc
      /\ call'[r].pc \in {"verify", "forbidden"}
      /\ \A q \in Req : q # r => call'[q] = call[q]
  BY DEF L2Inv, L2TypeOK, CallHasDocument, VerifyAndSettle
<1>2. /\ Told' = [Told EXCEPT ![r] = Told'[r]]
      /\ Presented' = [Presented EXCEPT ![r] = doc]
      /\ Presented[r] = Null
  BY <1>1, OthersKeep DEF Presented
<1>3. Told'[r] \in {"nothing", "refused"}
  BY <1>1, ToldNextIs
<1>4. UNCHANGED SettledDocuments
  BY DEF VerifyAndSettle, ledgerVars, SettledDocuments
<1>5. Ledger!Presents(r, doc, Told'[r])
  BY <1>2, <1>3, <1>4 DEF Ledger!Presents, Ledger!IsTrue, Ledger!Refusals
<1> QED BY <1>3, <1>5 DEF Ledger!Next, Ledger!Answers

\* A handler that answers without writing tells its client.
LEMMA ReplyTells ==
    ASSUME L2Inv, CallHasDocument, NEW r \in Req, call[r].pc \in {"verify", "append"},
           NEW pc \in {"invalid", "duplicate"}, Reply(r, pc), UNCHANGED settled,
           pc = "duplicate" => call[r].doc \in SettledDocuments
    PROVE  Ledger!Next
<1>1. /\ call'[r].pc = pc
      /\ call'[r].doc = call[r].doc /\ call[r].doc # Null
      /\ \A q \in Req : q # r => call'[q] = call[q]
  BY ReplyMoves DEF Answer
<1>2. /\ Told' = [Told EXCEPT ![r] = Told'[r]]
      /\ UNCHANGED Presented
  BY <1>1, OthersKeep DEF Presented
<1>3. /\ Told[r] = "nothing"
      /\ Told'[r] = IF pc = "invalid" THEN "refused" ELSE "duplicate"
  BY <1>1, ToldIs, ToldNextIs
<1>4. Presented[r] = call[r].doc
  BY DEF Presented
<1>5. UNCHANGED SettledDocuments
  BY DEF SettledDocuments
<1>6. Ledger!Tells(r, Told'[r])
  BY <1>1, <1>2, <1>3, <1>4, <1>5 DEF Ledger!Tells, Ledger!IsTrue, Ledger!Refusals
<1> QED BY <1>3, <1>6 DEF Ledger!Next, Ledger!Answers

\* What appending a record does to the documents that are settled.
LEMMA AppendSettles ==
    ASSUME NEW s \in Seq(Record), NEW rec \in Record
    PROVE  LET t == Append(s, rec)
           IN  {t[i].doc : i \in DOMAIN t} = {s[i].doc : i \in DOMAIN s} \cup {rec.doc}
<1> DEFINE t == Append(s, rec)
<1>1. /\ DOMAIN s = 1 .. Len(s) /\ DOMAIN t = 1 .. (Len(s) + 1) /\ Len(s) \in Nat
      /\ \A i \in 1 .. Len(s) : t[i] = s[i]
      /\ t[Len(s) + 1] = rec
  OBVIOUS
<1>2. \A i \in DOMAIN t : i \in DOMAIN s \/ i = Len(s) + 1
  BY <1>1
<1>3. \A i \in DOMAIN s : i \in DOMAIN t /\ t[i] = s[i]
  BY <1>1
<1>4. Len(s) + 1 \in DOMAIN t
  BY <1>1
<1> HIDE DEF t
<1>5. {t[i].doc : i \in DOMAIN t} = {s[i].doc : i \in DOMAIN s} \cup {rec.doc}
  BY <1>1, <1>2, <1>3, <1>4
<1> QED BY <1>5 DEF t

\* saveDB settles the document of the request that is told so.
LEMMA SaveSettles ==
    ASSUME L2Inv, CallHasDocument, NEW r \in Req, SettleSave(r)
    PROVE  Ledger!Next
<1> DEFINE rec == [doc |-> call[r].doc, key |-> call[r].key,
                   settledAt |-> clock, status |-> "APPROVED"]
<1>1. /\ call[r].pc = "append" /\ loaded = settled /\ Reply(r, "approved")
      /\ settled \in Seq(Record) /\ rec \in Record
      /\ settled' = Append(settled, rec)
  BY L2Assumption DEF SettleSave, L2Inv, MutexInv, L2TypeOK, Record
<1>2. /\ call'[r].pc = "approved"
      /\ call'[r].doc = call[r].doc /\ call[r].doc # Null
      /\ \A q \in Req : q # r => call'[q] = call[q]
  BY <1>1, ReplyMoves DEF Answer
<1>3. call[r].doc \notin SettledDocuments
  BY <1>1 DEF SettleSave, Duplicate, SettledDocuments
<1>4. SettledDocuments' = SettledDocuments \cup {call[r].doc}
  <2>1. rec.doc = call[r].doc
    OBVIOUS
  <2> HIDE DEF rec
  <2> QED BY <1>1, <2>1, AppendSettles DEF SettledDocuments
<1>5. /\ Told' = [Told EXCEPT ![r] = "approved"]
      /\ UNCHANGED Presented
      /\ Presented[r] = call[r].doc
      /\ Told[r] = "nothing"
  BY <1>1, <1>2, OthersKeep, ToldIs, ToldNextIs DEF Presented
<1>6. Ledger!Settles(r)
  BY <1>2, <1>3, <1>4, <1>5 DEF Ledger!Settles
<1> QED BY <1>6 DEF Ledger!Next

LEMMA SettleKeepsPromise ==
    ASSUME L2Inv, CallHasDocument, NEW r \in Req, SettleStep(r)
    PROVE  Ledger!Next \/ UNCHANGED <<SettledDocuments, Presented, Told>>
<1>1. CASE ProofVerified(r, FALSE)
  BY <1>1, ReplyTells DEF ProofVerified, ledgerVars
<1>2. CASE ProofVerified(r, TRUE) \/ SettleLoad(r)
  <2>1. /\ call[r].pc \in {"verify", "mutex"} /\ UNCHANGED settled
        /\ \E pc \in {"mutex", "append"} : Reply(r, pc)
    BY <1>2 DEF ProofVerified, SettleLoad, ledgerVars
  <2>2. /\ call'[r].pc \in {"mutex", "append"}
        /\ call'[r].doc = call[r].doc
        /\ \A q \in Req : q # r => call'[q] = call[q]
    BY <2>1, ReplyMoves
  <2>3. \A q \in Req : Told'[q] = Told[q] /\ call'[q].doc = call[q].doc
    <3> TAKE q \in Req
    <3>1. CASE q = r
      BY <2>1, <2>2, <3>1, ToldIs, ToldNextIs
    <3>2. CASE q # r
      BY <2>2, <3>2 DEF Told
    <3> QED BY <3>1, <3>2
  <2>4. Told' = Told
    <3>1. Told = [q \in Req |-> Told[q]] /\ Told' = [q \in Req |-> Told'[q]]
      BY DEF Told
    <3> QED BY <2>3, <3>1
  <2> QED BY <2>1, <2>3, <2>4 DEF Presented, SettledDocuments
<1>3. CASE SettleReplay(r)
  <2>1. call[r].pc = "append" /\ loaded = settled /\ UNCHANGED settled /\ Reply(r, "duplicate")
    BY <1>3, L2Assumption DEF SettleReplay, L2Inv, MutexInv
  <2>2. call[r].doc \in SettledDocuments
    BY <1>3, <2>1 DEF SettleReplay, Duplicate, SettledDocuments
  <2> QED BY <2>1, <2>2, ReplyTells
<1>4. CASE SettleSave(r)
  BY <1>4, SaveSettles
<1> QED BY <1>1, <1>2, <1>3, <1>4 DEF SettleStep

\* A client that read its answer may come again.
LEMMA AnsweredLeaves ==
    ASSUME L2Inv, NEW r \in Req, Answered(r)
    PROVE  Ledger!Next
<1>1. /\ call[r].pc \in Answer
      /\ call'[r].pc = "idle" /\ call'[r].doc = Null
      /\ \A q \in Req : q # r => call'[q] = call[q]
  BY DEF Answered, NoCall, L2Inv, L2TypeOK
<1>2. Told[r] \notin {"nothing", "owed"} /\ Told'[r] = "nothing"
  BY <1>1, ToldIs, ToldNextIs DEF Answer
<1>3. /\ Told' = [Told EXCEPT ![r] = "nothing"]
      /\ Presented' = [Presented EXCEPT ![r] = Null]
  BY <1>1, <1>2, OthersKeep
<1>4. UNCHANGED SettledDocuments
  BY DEF Answered, ledgerVars, SettledDocuments
<1> QED BY <1>2, <1>3, <1>4 DEF Ledger!Next, Ledger!Leaves

\* A restart breaks the connections of the requests under way, and what is settled is
\* in the file.
LEMMA RestartBreaks ==
    ASSUME L2Inv, CallHasDocument, Restart
    PROVE  Ledger!Next
<1>1. \A r \in Req : call'[r].doc = call[r].doc
  BY RestartLoses
<1>2. UNCHANGED <<SettledDocuments, Presented>>
  BY <1>1 DEF Restart, SettledDocuments, Presented
<1>3. ASSUME NEW r \in Req
      PROVE  Told'[r] = IF r \in Req /\ Presented[r] # Null /\ Told[r] \in {"nothing", "owed"}
                        THEN "unknown" ELSE Told[r]
  <2>1. call[r] \in CallSet /\ Presented[r] = call[r].doc
    BY DEF L2Inv, L2TypeOK, CallSet, Presented
  <2>2. CASE call[r].pc \in {"verify", "mutex", "append"}
    <3>1. call[r].doc # Null /\ Told[r] = "nothing"
      BY <2>2, ToldIs DEF CallHasDocument
    <3>2. Told'[r] = "unknown"
      BY <2>2, RestartLoses, ToldNextIs
    <3> QED BY <2>1, <3>1, <3>2
  <2>3. CASE call[r].pc = "idle"
    BY <2>1, <2>3, RestartLoses, ToldIs, ToldNextIs DEF CallHasDocument
  <2>4. CASE call[r].pc \in Answer
    <3>1. call'[r] = call[r]
      BY <2>4, RestartLoses DEF Answer
    <3>2. Told'[r] = Told[r] /\ Told[r] \notin {"nothing", "owed"}
      BY <2>4, <3>1, ToldIs, ToldNextIs DEF Answer
    <3> QED BY <3>2
  <2> QED BY <2>1, <2>2, <2>3, <2>4 DEF CallSet
<1>4. Told' = [r \in Req |-> Told'[r]]
  BY DEF Told
<1>5. Ledger!Breaks(Req)
  BY <1>2, <1>3, <1>4 DEF Ledger!Breaks
<1> QED BY <1>5 DEF Ledger!Next

\* Revocations settle nothing and unsettle nothing: a flagged record counts.
LEMMA RevocationsSettleNothing ==
    ASSUME L2Inv, \/ \E v \in Rev : RevokeStep(v)
                  \/ \E v \in Rev, k \in Key, compromisedAt \in Clocks :
                        RevokeKey(v, k, compromisedAt)
    PROVE  UNCHANGED <<SettledDocuments, Presented, Told>>
<1>1. UNCHANGED call
  BY DEF RevokeStep, CollectEntries, PersistRevokedKeys, RevocationNotPersisted,
         RevokeLoad, RevokeMark, RevokeKey
<1>2. CASE UNCHANGED settled
  BY <1>1, <1>2 DEF SettledDocuments, Presented, Told
<1>3. ASSUME NEW v \in Rev, RevokeMark(v)
      PROVE  UNCHANGED SettledDocuments
  <2>1. loaded = settled /\ settled \in Seq(Record)
    BY <1>3, L2Assumption DEF RevokeMark, L2Inv, MutexInv, L2TypeOK
  <2>2. settled' = [i \in DOMAIN settled |-> Flagged(settled[i], v)]
    BY <1>3, <2>1 DEF RevokeMark
  <2>3. DOMAIN settled' = DOMAIN settled
    BY <2>2
  <2>4. \A i \in DOMAIN settled : settled'[i].doc = settled[i].doc
    BY <2>1, <2>2, FlaggedType
  <2> QED BY <2>3, <2>4 DEF SettledDocuments
<1>4. UNCHANGED settled \/ \E v \in Rev : RevokeMark(v)
  BY DEF RevokeStep, CollectEntries, PersistRevokedKeys, RevocationNotPersisted,
         RevokeLoad, RevokeKey, ledgerVars
<1> QED BY <1>1, <1>2, <1>3, <1>4 DEF Presented, Told

\* Every step of the process is a step of the abstract ledger, or none.
LEMMA StepKeepsPromise ==
    ASSUME L2Inv, CallHasDocument, [L2Next]_l2Vars
    PROVE  [Ledger!Next]_(<<SettledDocuments, Presented, Told>>)
<1>1. CASE \E r \in Req, doc \in Doc, key \in Key : VerifyAndSettle(r, doc, key)
  BY <1>1, ArrivePresents
<1>2. CASE \E r \in Req : Answered(r)
  BY <1>2, AnsweredLeaves
<1>3. CASE \E r \in Req : SettleStep(r)
  BY <1>3, SettleKeepsPromise
<1>4. CASE \/ \E v \in Rev : RevokeStep(v)
           \/ \E v \in Rev, k \in Key, compromisedAt \in Clocks :
                 RevokeKey(v, k, compromisedAt)
  BY <1>4, RevocationsSettleNothing
<1>5. CASE Restart
  BY <1>5, RestartBreaks
<1>6. CASE UNCHANGED <<settled, call>>
  BY <1>6 DEF SettledDocuments, Presented, Told
<1>7. UNCHANGED <<settled, call>> \/ L2Next
  BY DEF l2Vars
<1>8. ClockTick \/ (\E k \in Key : SyncMinistryPublicKey(k)) => UNCHANGED <<settled, call>>
  BY DEF ClockTick, SyncMinistryPublicKey, ledgerVars
<1> QED BY <1>1, <1>2, <1>3, <1>4, <1>5, <1>6, <1>7, <1>8 DEF L2Next, L2Step

\* The two files, the mutex and the handlers are one ledger to the clients: nobody sees
\* an answer that the abstract ledger would not have given (l2-verifier-mock).
THEOREM FilesImplementLedger == L2Spec => FilesKeepLedgerPromise
<1>1. L2Init => Ledger!Init
  BY DEF L2Init, NoCall, Ledger!Init, SettledDocuments, Presented, Told
<1>2. L2Inv /\ CallHasDocument /\ [L2Next]_l2Vars
         => CallHasDocument' /\ [Ledger!Next]_(<<SettledDocuments, Presented, Told>>)
  BY HasDocumentStep, StepKeepsPromise
<1> QED BY <1>1, <1>2, L2Invariant, HasDocumentInitially, PTL
        DEF L2Spec, FilesKeepLedgerPromise, Ledger!Spec, Ledger!ledger
=============================================================================
