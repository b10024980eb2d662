------------------------------ MODULE KeyFiles ------------------------------
(***************************************************************************)
(* The private keys the processes keep on disk: keys.ts for an agent's key, *)
(* ministry/src/index.ts for the ministry's, walletKeyStorage.ts with       *)
(* identity.ts and keyStore.ts for the secrets of a settlement agent and    *)
(* the wallet of the EVM connector.                                         *)
(*                                                                         *)
(* An owner boots with some passphrase, finds a file in one of the formats  *)
(* it ever wrote, or none, and may have to write the file before it serves. *)
(* Writing truncates the file first: a crash inside leaves a file that no   *)
(* reader parses.                                                           *)
(***************************************************************************)
EXTENDS Naturals, FiniteSets

CONSTANTS
    Owners,         \* the key files, one per process and secret
    Passphrases,    \* the passphrases an operator may set, NoPassphrase apart
    NoPassphrase,
    MaxKeys         \* bound: keys an owner may ever generate

\* kind[o]: which program owns the file.
CONSTANT kind

Kinds == {"ministry", "agent", "secret"}

ASSUME KindAssumption == kind \in [Owners -> Kinds]
ASSUME PassphraseAssumption == NoPassphrase \notin Passphrases
ASSUME MaxKeysAssumption == MaxKeys \in Nat

VARIABLES
    file,       \* file[o]: what is on disk
    proc,       \* proc[o]: the process
    generated,  \* generated[o]: how many keys it ever generated
    shown       \* shown[o]: the keys it ever served with

keyVars == <<file, proc, generated, shown>>

Keys == Owners \X (0 .. MaxKeys)
Formats == {"plain", "v2", "ct"}

Missing == [format |-> "missing"]
Torn == [format |-> "torn"]
Stored(format, key, pass) == [format |-> format, key |-> key, pass |-> pass]
Files == {Missing, Torn} \cup
         [format : Formats, key : Keys, pass : Passphrases \cup {NoPassphrase}]

Down == [pc |-> "down"]
Persisting(content) == [pc |-> "persisting", content |-> content]
Up(key) == [pc |-> "up", key |-> key]
Processes == {Down} \cup [pc : {"persisting"}, content : Files]
                    \cup [pc : {"up"}, key : Keys]

IsUp(o) == proc[o].pc = "up"

\* The file as persistKeys, persistAgentKeys or encryptSecretHex writes it.
Content(key, pass) ==
    IF pass = NoPassphrase THEN Stored("plain", key, pass) ELSE Stored("ct", key, pass)

\* Key 0 is one that an earlier version left: in plaintext, or in the ministry's
\* own encryption.
EarlierFiles(o) ==
    {Missing} \cup
    (IF kind[o] = "secret" THEN {}
     ELSE {Stored("plain", <<o, 0>>, NoPassphrase)}) \cup
    (IF kind[o] # "ministry" THEN {}
     ELSE {Stored("v2", <<o, 0>>, pass) : pass \in Passphrases})

KeyInit ==
    /\ file \in [Owners -> UNION {EarlierFiles(o) : o \in Owners}]
    /\ \A o \in Owners : file[o] \in EarlierFiles(o)
    /\ proc = [o \in Owners |-> Down]
    /\ generated = [o \in Owners |-> 0]
    /\ shown = [o \in Owners |-> IF file[o] = Missing THEN {} ELSE {<<o, 0>>}]

(***************************************************************************)
(* Booting                                                                 *)
(***************************************************************************)

\* Faulty variant: a file that cannot be parsed counts as no file.
IsMissing_Unreadable(o) == file[o].format \in {"missing", "torn"}

IsMissing(o) == file[o] = Missing

Serve(o, key) ==
    /\ proc' = [proc EXCEPT ![o] = Up(key)]
    /\ shown' = [shown EXCEPT ![o] = @ \cup {key}]

\* Faulty variant: the write is not awaited.
Persist_Served(o, key, pass) ==
    /\ file' = [file EXCEPT ![o] = Torn]
    /\ Serve(o, key)

\* The write has truncated the file and its content is still to come.
Persist(o, key, pass) ==
    /\ file' = [file EXCEPT ![o] = Torn]
    /\ proc' = [proc EXCEPT ![o] = Persisting(Content(key, pass))]
    /\ UNCHANGED shown

\* keyStore.ts and start-settlement-agent.ts insist on a passphrase.
Accepts(o, pass) == kind[o] = "secret" => pass # NoPassphrase

\* loadOrGenerateKeys, loadOrGenerateAgentKeys and loadOrCreateEncryptedSecret when
\* the file does not exist.
GenerateKey(o, pass) ==
    /\ proc[o] = Down
    /\ Accepts(o, pass)
    /\ IsMissing(o)
    /\ generated[o] < MaxKeys
    /\ generated' = [generated EXCEPT ![o] = @ + 1]
    /\ Persist(o, <<o, generated[o] + 1>>, pass)

\* An encrypted file in the current format: the passphrase it was written with
\* opens it, any other throws and the process ends.
LoadEncrypted(o, pass) ==
    /\ proc[o] = Down
    /\ file[o].format = "ct"
    /\ pass = file[o].pass
    /\ Serve(o, file[o].key)
    /\ UNCHANGED <<file, generated>>

\* The ministry rewrites a file of an older format at every boot.
MigrateMinistryKey(o, pass) ==
    /\ proc[o] = Down
    /\ kind[o] = "ministry"
    /\ \/ file[o].format = "plain"
       \/ file[o].format = "v2" /\ pass = file[o].pass
    /\ Persist(o, file[o].key, pass)
    /\ UNCHANGED generated

\* An agent encrypts a plaintext file once it is given a passphrase.
LoadPlainAgentKey(o, pass) ==
    /\ proc[o] = Down
    /\ kind[o] = "agent"
    /\ file[o].format = "plain"
    /\ \/ /\ pass = NoPassphrase
          /\ Serve(o, file[o].key)
          /\ UNCHANGED file
       \/ /\ pass # NoPassphrase
          /\ Persist(o, file[o].key, pass)
    /\ UNCHANGED generated

Boot(o, pass) ==
    \/ GenerateKey(o, pass)
    \/ LoadEncrypted(o, pass)
    \/ MigrateMinistryKey(o, pass)
    \/ LoadPlainAgentKey(o, pass)

\* The write completes; the key it wrote is the one the process goes on with.
Persisted(o) ==
    /\ proc[o].pc = "persisting"
    /\ file' = [file EXCEPT ![o] = proc[o].content]
    /\ Serve(o, proc[o].content.key)
    /\ UNCHANGED generated

KeyCrash(o) ==
    /\ proc[o] # Down
    /\ proc' = [proc EXCEPT ![o] = Down]
    /\ UNCHANGED <<file, generated, shown>>

KeyNext ==
    \E o \in Owners :
        \/ \E pass \in Passphrases \cup {NoPassphrase} : Boot(o, pass)
        \/ Persisted(o)
        \/ KeyCrash(o)

KeySpec == KeyInit /\ [][KeyNext]_keyVars

(***************************************************************************)
(* Properties                                                              *)
(***************************************************************************)

\* Only a ministry's or an agent's file is ever in plaintext.
KeyTypeOK ==
    /\ file \in [Owners -> Files]
    /\ \A o \in Owners : kind[o] = "secret" => file[o].format \notin {"plain", "v2"}
    /\ proc \in [Owners -> Processes]
    /\ generated \in [Owners -> 0 .. MaxKeys]
    /\ shown \in [Owners -> SUBSET Keys]

\* Whatever crashes and migrations its file goes through, a process never serves
\* with a second key: a ministry's key stays the one the verifiers whitelisted, an
\* agent's the one its counterparties pinned (loadOrGenerateKeys, keys.ts,
\* walletKeyStorage.ts).
OneKeyPerOwner ==
    \A o \in Owners : \A k1, k2 \in shown[o] : k1 = k2

\* A process that serves has its key on disk: a crash cannot lose a key that
\* something was signed with since the boot (persist before return).
RunningKeyIsStored ==
    \A o \in Owners :
        IsUp(o) => file[o].format \in Formats /\ file[o].key = proc[o].key

\* The inductive invariant behind both.
KeyInv ==
    /\ KeyTypeOK
    /\ OneKeyPerOwner
    /\ RunningKeyIsStored
    /\ \A o \in Owners :
         /\ file[o].format \in Formats => shown[o] \subseteq {file[o].key}
         /\ proc[o].pc = "persisting" =>
              /\ file[o] = Torn
              /\ proc[o].content.format \in Formats
              /\ kind[o] = "secret" => proc[o].content.format = "ct"
              /\ shown[o] \subseteq {proc[o].content.key}
         /\ file[o] = Missing => shown[o] = {}
=============================================================================
