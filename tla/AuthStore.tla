------------------------------- MODULE AuthStore -------------------------------
(***************************************************************************)
(* The login of a settlement agent (src/server/auth.ts): a one-time         *)
(* challenge is signed by a wallet and exchanged for a session.  The first  *)
(* wallet to do so becomes the operator, in memory and in                   *)
(* authorized-operator.json; every later login must come from that key.     *)
(* Challenges and sessions live in memory only.                             *)
(*                                                                         *)
(* Date.now() against expiresAt is abstracted to the moment at which an     *)
(* entry stops being valid (Expire...): an expired entry that nobody has    *)
(* looked up or swept yet answers as an absent one, and is one here.  A     *)
(* signature is ideal: "the wallet with key k signed data that contains the *)
(* nonce of challenge n".                                                   *)
(*                                                                         *)
(* loadAuthorizedVerifyingKey answers null whenever the file cannot be read *)
(* or parsed, as if there had never been an operator.                       *)
(***************************************************************************)

CONSTANTS Keys,         \* verifying keys of the wallets that log in
          Challenges,   \* challenge ids
          Tokens,       \* session tokens
          NoKey         \* null

ASSUME NoKeyAssumption == NoKey \notin Keys

VARIABLES challenges,            \* AuthStore.challenges: those still valid
          sessions,              \* AuthStore.sessions: who was given a valid token
          authorizedVerifyingKey,
          registry,              \* the key in authorized-operator.json, if it can be parsed
          unread                 \* history: the key in the file is one that this process
                                 \* could not read when it started

authVars == <<challenges, sessions, authorizedVerifyingKey, registry, unread>>

AuthInit ==
  /\ challenges = {}
  /\ sessions = [t \in Tokens |-> NoKey]
  /\ authorizedVerifyingKey = NoKey
  /\ registry = NoKey
  /\ unread = FALSE

\* POST /auth/challenge.  c names the latest challenge of a client: one that it
\* gave up for another is not answered any more.
issueChallenge(c) ==
  /\ challenges' = challenges \cup {c}
  /\ UNCHANGED <<sessions, authorizedVerifyingKey, registry, unread>>

\* Faulty variant: any wallet may log in.
Authentic_AnyKey(c, k, n) ==
  /\ c \in challenges
  /\ n = c

Authentic(c, k, n) ==
  /\ c \in challenges
  /\ n = c
  /\ authorizedVerifyingKey \in {NoKey, k}

\* POST /auth/verify.  The challenge is consumed whatever comes of it.
VerifyRefused(c, k, n) ==
  /\ ~ Authentic(c, k, n)
  /\ challenges' = challenges \ {c}
  /\ UNCHANGED <<sessions, authorizedVerifyingKey, registry, unread>>

VerifyGranted(c, k, n, t) ==
  /\ Authentic(c, k, n)
  /\ sessions[t] = NoKey
  /\ challenges' = challenges \ {c}
  /\ authorizedVerifyingKey' = k
  /\ registry' = IF authorizedVerifyingKey = NoKey THEN k ELSE registry
  /\ sessions' = [sessions EXCEPT ![t] = k]
  /\ unread' = (unread /\ authorizedVerifyingKey # NoKey)

\* The first login when writing authorized-operator.json throws, before or after
\* the file was truncated: the key has already been assigned in memory, no
\* session is made.
VerifyUnsaved(c, k, n) ==
  /\ Authentic(c, k, n)
  /\ authorizedVerifyingKey = NoKey
  /\ challenges' = challenges \ {c}
  /\ authorizedVerifyingKey' = k
  /\ registry' \in {registry, NoKey}
  /\ UNCHANGED <<sessions, unread>>

isSessionValid(t) == sessions[t] # NoKey

\* expiresAt is reached: from now on verifyChallenge and isSessionValid delete
\* the entry when they are asked for it, and the sweep of index.ts (every 60 s)
\* when they are not.
ExpireChallenge(c) ==
  /\ c \in challenges
  /\ challenges' = challenges \ {c}
  /\ UNCHANGED <<sessions, authorizedVerifyingKey, registry, unread>>

ExpireSession(t) ==
  /\ isSessionValid(t)
  /\ sessions' = [sessions EXCEPT ![t] = NoKey]
  /\ UNCHANGED <<challenges, authorizedVerifyingKey, registry, unread>>

\* A new process: nothing survives but the file.
NewProcess ==
  /\ challenges' = {}
  /\ sessions' = [t \in Tokens |-> NoKey]
  /\ UNCHANGED registry

\* Faulty variant: the constructor does not look for the file.
AuthRestart_Bootstraps ==
  /\ NewProcess
  /\ authorizedVerifyingKey' = NoKey
  /\ unread' = FALSE

\* The constructor takes the operator from the file, or finds that the read
\* throws and takes the agent for one that has no operator yet.
AuthRestart ==
  /\ NewProcess
  /\ authorizedVerifyingKey' \in {registry, NoKey}
  /\ unread' = (authorizedVerifyingKey' # registry)

AuthNext ==
  \/ \E c \in Challenges : issueChallenge(c) \/ ExpireChallenge(c)
  \/ \E c, n \in Challenges, k \in Keys :
       \/ VerifyRefused(c, k, n)
       \/ VerifyUnsaved(c, k, n)
       \/ \E t \in Tokens : VerifyGranted(c, k, n, t)
  \/ \E t \in Tokens : ExpireSession(t)
  \/ AuthRestart

AuthSpec == AuthInit /\ [][AuthNext]_authVars

(***************************************************************************)
(* Properties                                                              *)
(***************************************************************************)

AuthTypeOK ==
  /\ challenges \subseteq Challenges
  /\ sessions \in [Tokens -> Keys \cup {NoKey}]
  /\ authorizedVerifyingKey \in Keys \cup {NoKey}
  /\ registry \in Keys \cup {NoKey}
  /\ unread \in BOOLEAN

\* Whoever holds a session is the operator this process knows, and that is the
\* stored one: not after a bootstrap that could not be stored, nor after restarts
\* and logins of another wallet, only in a process whose read of the file failed
\* when it started.
SessionsOfOperator ==
  /\ \A t \in Tokens : sessions[t] \in {NoKey, authorizedVerifyingKey}
  /\ registry \notin {NoKey, authorizedVerifyingKey} => unread

\* "every later login must come from that same verifying key" (auth.ts:53), as far
\* as the code goes: a stored operator is replaced only by the first login to a
\* process whose read of the file failed when it started; every other process,
\* across restarts, gives sessions to the stored operator alone.
OperatorIsPermanent ==
  [][ registry # NoKey =>
        /\ registry' # registry => unread /\ authorizedVerifyingKey = NoKey
        /\ \A t \in Tokens : sessions'[t] # sessions[t] =>
                               unread \/ sessions'[t] \in {registry, NoKey} ]_authVars

=============================================================================
