# UBLP: TLA+ models and proofs

This directory holds TLA+ models of UBLP, the TLC configurations that check them on
small instances, and the TLAPS proofs of what matters most for instances of any size.
It is meant to be read next to the source; `PROJECT.json` maps every definition to the
lines it models and lists the hazards of the code line by line.

## 1. The system

UBLP has two modules over a shared library. **incoterms-escrow** settles a trade between
a seller A and a buyer B through a Midnight contract that a port authority C attests to.
**zk-customs** carries a customs document from a broker, through a ministry's signature
and a zero-knowledge proof, to a settlement ledger.

### Inventory

| component | state it keeps | operations | talks to |
|---|---|---|---|
| Escrow contract (`contracts/Escrow.compact`) | ledger: state, terms, deadline, milestone flag, five commitments, two memos; the shielded coin | `propose`, `lockEscrow`, `attestMilestone`, `claimPayout`, `releaseOnTimeout` | agents, through transactions; block time |
| Settlement agent (`src/server/actions.ts`, `routes.ts`, `db.ts`) | `pending_actions`, `incoming_offers`, `deal_private_state`, `mt_index_cache`, `trusted_ports`; the provider's private-state slot | propose, lock, approve, reject, dismiss, attest, claim, release | contract, indexer, the other agent (offer delivery), C's did:web document |
| Deal watcher (`watcher.ts`, `dealPolicy.ts`) | the `ticking` flag | one tick over all known deals | the agent's payout functions |
| Port-authority resolution (`portAuthority.ts`) | `trusted_ports` | trust on first use, hard stop | C's domain |
| Coin index discovery (`mtIndex.ts`) | `mt_index_cache` | bounded polling of the indexer | indexer |
| Login (`auth.ts`) | challenges, sessions, the first operator's key in `authorized-operator.json` | challenge, verify, sweep | panel, Odoo |
| Odoo addon | its own copy of each deal, a mirror of incoming offers, the session token | the deal's buttons, three wizards, the cron job | agent |
| Broker (`customs-broker`) | submissions, review items | submit, approve, reject, poller tick | ministry, UBLP agent |
| Ministry | review items, issued credentials, its key file | sign, approve, reject, status | broker |
| UBLP agent | its key file | check, prove and present a credential | prover, L2 verifier |
| L2 verifier, mock | settlement records, revoked keys, whitelist | settle, revoke, synchronise, query | UBLP agent, ministry |
| L2 verifier, EVM connector and `Settlement.sol` | a transaction log per connector; the contract's records | settle, query | UBLP agent, RPC node |
| SP1 circuit (`sp1-circuit/src/main.rs`) | none | `main` | the agent's prover |
| Shared agent core (`shared/src/agent-core`) | key files, review queue, transaction log, panel sessions | load or generate a key, review, log, log in | all agents |
| Shared cryptography and identity | encrypted secrets | hash, sign, verify, prove; load or create a secret | all agents |
| Attestation policies (`shared/attestation`, `policies/*.ts`), evidence log (`shared/evidence`) | none | evaluate a policy over a bundle of attestations; append evidence, read it back in order | the tests only: no service calls them |
| Panels, wallet, providers, networks | none of the protocol | – | – |

### What is hard about it

Nobody supervises the escrow. Whatever the contract accepts, from whichever caller, with
whatever witness, is final, so each circuit's asserts have to be right against every
order of transactions around the deadline. The agents are Node processes whose handlers
interleave at every `await`, that may stop between two writes, and whose submitted
transaction may land after `callTx` has thrown. The refund and payout need a salt that
exists nowhere but in the agent's own tables, and all deals of an agent pass through one
slot of the provider. Odoo keeps a second copy of a deal, in transactions that span a login
and an HTTP call. In the customs module four services hold copies of one document's state
and exchange it over requests that can fail after they took effect; three programs check
one signature in three ways; and each of them rewrites its only key file in place.

### What makes each part correct

* Contract: the deposit is never lost, paid twice or paid to the wrong party; the
  attestation window is as long as agreed; terms never change; a locked deal can always
  be resolved.
* Agent: its tables agree with the chain; a rejected action never ran; the stored witness
  always opens what is on chain; an approved action ends.
* Watcher: a locked deal is paid out with nobody's help, whatever other deals do.
* Port authority: money is locked only under a pinned key.
* Login: a session belongs to the one operator, who stays the operator.
* Odoo: its copy is true to the agent's, and no confirmed deal is lost to it.
* Customs services: a document settles only with the ministry's approval, at most once,
  and the broker's status tells what the ledger holds.
* EVM connector: its answers and its log tell what the chain holds.
* Both ledgers: a document settles once, for somebody who presented it, and stays settled. The
  verifier with its files tells this in its answers; of the EVM connector's approvals it can only
  be read together with the receipt of the transaction they name.
* Keys: a process never serves with a second key, nor with one that is not on disk.
* Credentials: what is signed, checked and proved is one and the same.

## 2. Modules

### Escrow

`EscrowContract` is the contract. Its variable `ledger` is the record of the ledger cells;
`custody` and `payouts` stand for the shielded coin pool, which the contract uses through
`receiveShielded` and `sendShielded`; `lockedAt` is a history variable. There is one action
per circuit, named after it, and one for block time. An `assert` is a conjunct; where a
property or an agent asks whether a call would be accepted, the asserts of the circuit are an
operator of their own (`lockEscrowAccepted`, `claimPayoutAccepted`, ...). Witnesses are chosen from the whole of their type, because a witness is whatever the caller
supplies. The commitment scheme is ideal: a commitment is the pair it commits to.
`Uint<64>` keeps its bound, under a small `MaxUint64`. A coin keeps its colour, which nothing in
the contract compares: what `lockEscrow` binds is a coin of the agreed amount and nonce in any
colour (`SellersCoin`).

`EscrowPromise` is what the contract promises, without commitments, witnesses or coins:
four phases, a deadline, an attested flag, and one payment, of the agreed amount in whatever
colour was deposited. `EscrowRefinement` gives the
mapping from the ledger to it.

`SettlementAgents` extends `EscrowContract` with the seller's and the buyer's agent, for one
deal. Each handler of the server is a call with a program counter; one action runs from one
`await` to the next, and its `UNCHANGED` says what the handler leaves alone:

| code | actions |
|---|---|
| `POST /deals/propose`, approve/reject | `QueuePropose`, `ApprovePropose`, `RejectPropose` |
| `proposeDeal` | `DeployDeal`, `SavePropose`, `SubmitPropose`, `DeliverOffer` (`tryDeliverOfferToBuyer`), `ProposeReturns` |
| `POST /deals/lock`, approve/reject, dismiss | `QueueLock`, `ApproveLock`, `RejectLock`, `DismissOffer` |
| `lockDeal` | `ResolvePort`, `FindDeal`, `SaveLock`, `SubmitLock`, `LockReturns` |
| `checkOneDeal`, `POST /deals/claim`, `/release-timeout` | `WatcherTick`, `OperatorPosts` |
| `claimDeal`, `releaseTimeout*` | `StartPayout`, `ResolveIndex`, `FindPayout`, `SavePayout`, `SubmitPayout`, `PayoutReturns` |
| a handler's catch block | `CallThrows`, `Throw` |
| `attestDeal` | `AttestDeal` |
| the chain and the network | `Land`, `Refuse`, `Lose`, `AdvanceTime` |
| faults | `CallFails`, `Crash`, `RotateKey` |

A stored private state is reduced to the one field on which two calls of one agent can
disagree, the address salt; the salt `lockDeal` draws is identified with its row. Whether
`acceptEscrow` accepts the pasted or delivered payload is a free choice. The qualified
coin's index is not part of a transaction: only whether it is known. A handler that was
running when its process died is `dead`: nothing at boot resumes it.

`DealSlots` takes the other cut through the same code: many deals of one seller, one
`privateStateProvider`. `DeploysContract`, `StoresPrivateState` and `SubmitsProposal` are
`proposeDeal` between its awaits; `StartsTick`, `ChecksDeal`, `StatusQueryFails`, `ClaimStarts`,
`ClaimStoresState`, `ClaimFindsAgain` and `Claims` are the watcher's loop and `claimDeal`.
The provider belongs to a library: it is modelled from the way `actions.ts` uses it, and which
of two addresses it reads under is left open.

`AuthStore` is the login: `issueChallenge`, the three outcomes of `/auth/verify`
(`VerifyRefused`, `VerifyGranted`, `VerifyUnsaved`, the last when the registry cannot be
written), expiry, and `AuthRestart`. An expired entry answers as an absent one, and so is one.
The constructor takes a file it cannot read or parse for no file: `AuthRestart` may read nothing
from a file that holds an operator, and a write that throws may leave a file that cannot be parsed
(`VerifyUnsaved`). The history variable `unread` marks a process that began with such a read.

`OdooAddon` extends it with the agent's queue as a client sees it and with the addon. A
button is a request to Odoo: one database transaction with an HTTP call, and possibly a login,
in its middle.

| code | actions |
|---|---|
| the buttons, the wizards, the cron job, up to the call | `Click` (`BeginChainOp`, `BeginRowOp`, `BeginOfferOp`, `BeginOther`) |
| `get_client`, `login`, the repetition after a 401 | `GetClient`, `Login`, `LoginUnsaved`, `Unauthorized` |
| the agent's handler | `Handle` (`HandlePropose`, `HandleLock`, ...), `ApproveEnds`, `ReceiveOffer`, `AgentRestarts` |
| the status read that follows | `ReadStatus` |
| the end of the transaction | `Succeed`, `Fail`, `Commit`, `Rollback` |
| a lost, late or failed call | `CallFails` |
| a person's wallet at the panel | `WalletLogin`, `WalletUnsaved` |

What a transaction writes is visible when it commits; `_run_chain_operation` commits by itself
before its call and after a failure. Of two transactions that wrote one row the second is
rolled back (PostgreSQL's REPEATABLE READ, under which Odoo runs); `rowStale` and `tokenStale`
say that another has committed. Each client has at most one challenge under way.

`AttestationPolicy` has the parts of the policy evaluator: a claim ends with the first of its
attestations that the verifier accepts or throws on, an `and` or an `or` is rejected if any of its
nodes is. `AttestationEvaluator` puts them together over policies of any shape, `IncotermPolicies`
has the policies of the eleven Incoterms rules, and `EvidenceLog` the append-only log with its
stable sort. They are operators, without state. `PolicyChecks` compares them with what they are
meant to compute, as assumptions over bounded inputs.

### Customs

`L2Verifier` is the settlement ledger, `l2-verifier-mock`. `authorizedPublicKeys` and
`revokedKeys` are its memory, `settled` and `revokedFile` its two files, `dbMutex` the
handler inside `runExclusive`, and `loaded` the array that handler works on. One action
runs from one `await` to the next:

| code | actions |
|---|---|
| `POST /api/verify-and-settle` | `VerifyAndSettle`, `ProofVerified`, `SettleLoad`, `SettleReplay`, `SettleSave`, `Answered` |
| `POST /api/revoke-key` | `RevokeKey`, `CollectEntries`, `PersistRevokedKeys`, `RevocationNotPersisted`, `RevokeLoad`, `RevokeMark` |
| `syncMinistryPublicKey`, `POST /api/sync` | `SyncMinistryPublicKey` |
| the process and its clock | `Restart`, `ClockTick` |

A presentation is reduced to its document hash and ministry key; whether its proof verifies is
a free choice. The time a revocation names is the caller's own, earlier or later than the clock. Writing a file
is one step, or for the revocation file a step that fails: a crash in the middle of a write, which
leaves a torn file (`writeFile` truncates first), is a hazard of the code that this model leaves out.

`CustomsPipeline` extends `L2Verifier` with the broker, the ministry and the UBLP agent, each
a process of its own. The variables of the broker are the columns of its two tables.

| code | actions |
|---|---|
| broker routes: submit, approve, reject | `CreateSubmission`, `ApproveSubmission`, `RejectSubmission`, `MinistryAnswers`, `MinistryUnreachable` |
| ministry: `POST /api/approve`, the officer's decision | `MinistryReceives`, `OfficerDecides` |
| poller `tick`, `checkMinistryDecision`, `runRestOfPipeline` | `TickStarts`, `LoopEnds`, `CheckMinistryDecision`, `StatusCheckFails`, `ResumeSubmission`, `AgentAnswers`, `AgentUnreachable` |
| agent: `POST /api/process` | `ProofGenerated`, `ProverFails`, `L2Receives`, `L2Answers`, `L2Unreachable`, `AnswerDropped` |
| a restart of the broker | `BrokerRestarts` |

An `...Unreachable` step may happen before the other side has the request or after it acted on
it; the other side carries on. That also stands for a crash of the agent, which keeps nothing.
The submissions of one poller loop are visited in any order. The ledger's 200 always says
`APPROVED`, so the poller's branch for another settlement status cannot be taken with this
ledger. A kill between two consecutive synchronous SQLite statements is not modelled; nor is
a caller of the agent other than the broker. The history variable `hit` says which rows a
restart of the broker found waiting for the agent, and which the ledger refused for their key or
proof, so that the liveness property can name its exceptions.

`L2Evm` is the other ledger: several connectors, each with its `transactions.db`, over one
`Settlement` contract. `Arrives`, `Simulates`, `Writes` and `Approves` are
`verify-and-settle` and `submitSettlement` between their awaits, `Malformed` the refusal of a
request that is not one, `Throws` a call to the node that fails or times out, `Executes` the chain.
A transaction passed the simulation and the gas estimate before it was sent, and is executed on a
later state or never. Executed, it may settle, revert because another settled, be refused by a
gateway that has changed in between (`settle`), or fail for a reason that is not the contract's: it
ran out of gas, or another transaction took its nonce (`Fails`). `tx` keeps how it ended (`Ends`),
which no connector looks at. The pre-check looks a hash up in the spelling with 0x, while the log
keeps the one that came. Requests are numbered in the order in which they come; the history field
`late` says that the document was settled before.

`SettlementLedger` is what both ledgers promise, in three variables: the settled documents, what
each client presented, and what it was told of it. A document settles once, for a client that was
not refused; the client is told so in that step, or is owed the answer, or has lost its connection;
of those who present one document only the one whose presentation settled it is ever told
"approved"; "duplicate" is said only of settled documents; a settled document stays settled.
`L2Verifier` and `L2Evm` each define a mapping to it (`SettledDocuments`, `Presented`, `Told`) and
state `FilesKeepLedgerPromise` and `ChainKeepsLedgerPromise`. The mapping of `L2Evm` reads an
approval together with its receipt (`ToldWithReceipt`), because the bare answer is not one that a
settlement ledger may give: `ApprovalsAccounted` says which transactions it can stand for.

`KeyFiles` is `keys.ts`, the ministry's `loadOrGenerateKeys` and `walletKeyStorage.ts`: three
kinds of owners, the formats each ever wrote, and a write that truncates the file before its
content is there (`GenerateKey`, `LoadEncrypted`, `MigrateMinistryKey`, `LoadPlainAgentKey`,
`Persisted`, `KeyCrash`).

`DocumentCrypto` has the pure functions of `documentCrypto.ts`, `sp1Client.ts` and the circuit
as operators over ideal hashes and signatures. It keeps what the three programs can disagree
on: the canonical order of fields, the domain prefix, which bytes are hashed together, and
that `crypto.sign(null, ...)` hashes once more for an EC key. A field in hexadecimal is a text:
it has the bytes it decodes to, and is spelled as `digest("hex")` spells them or otherwise, since
`Buffer.from(text, "hex")` takes either case and stops at the first character that is no digit. A
digest is two halves, and what is signed is a document's and an identifier's bytes end to end
(`signedBytes`), without a mark where the one stops. Only the circuit checks their lengths.

`Credentials` extends both: the ministry issues (`MinistryIssues`), the agent checks and
proves a submission (`AgentProcesses`), the verifier settles it (`L2Settles`), while the
processes boot, migrate and crash (`ProcessStep`). The verifier asks no caller who he is:
`L2SettlesPosted` is the same request from anybody, with the proof of a credential and fields cut
and spelled as he likes. The verifier looks for an earlier record by the text of the identifier,
here as in `L2Verifier`, whose documents are therefore texts.

### Proofs and instances

`EscrowContractProofs`, `SettlementAgentsProofs`, `L2VerifierProofs`, `CustomsPipelineProofs`,
`L2EvmProofs`, `CredentialsProofs` (the key files' too), `OdooAddonProofs` and
`AttestationProofs` hold the theorems of section 5. The `MC...` modules define the finite
instances and their symmetries; `MCEscrowContract` also extends `PolicyChecks`.

## 3. Runs

| run | instance | shows |
|---|---|---|
| `contract` | 2 addresses, 2 salts, 2 colours, 2 amounts, 2 role keys, windows of 0, 2 and 6, tolerance 1, `MaxUint64` 6, time up to 4 | the contract's invariants, `TermsImmutable`, and that it implements `EscrowPromise` |
| `agents_safety` | 2 locks of one deal, 2 role keys, clock off by one, one crash or failed call, one key change | the agents' invariants |
| `agents_settle` | 1 lock, watchers plus a buyer who also posts, one crash or failed call | `SettlementCompletes`, `SubmissionsResolve`, and `BuyerCanBeRefunded` while the deal is locked once |
| `slots` | 3 deals, two failed queries or restarts | every attested deal is claimed (`AttestedIsClaimed`) |
| `odoo` | 2 requests at a time, 2 tokens, 1 offer, 1 action, two keys, one failure, restart (which may fail to read the operator file) or expiry | `ClearedRowKnowsOutcome`, `ConfirmedRowRecoverable`, `OneOperationPerDeal`; `SessionsOfOperator`, `OperatorIsPermanent` |
| `pipeline_safety` | 2 submissions, 2 documents, 2 agent calls, 1 key, one outage, one restart of broker or ledger | what is on the ledger was approved by both people, `SettledOnce`, `OutcomeIsFinal`; and of the ledger: no document settles twice, no approved record is lost, a revocation in the file holds |
| `pipeline_completes` | 1 submission, 2 agent calls, clock up to 1, one outage, one restart of broker or ledger | a submission the ministry has decided settles or is rejected, but for the named failures (`PipelineCompletes`); settlements and revocations that rewrite one file lose nothing (`HistoryKept`); every request to it is answered |
| `evm` | 3 requests, 2 connectors, 1 document | `RecordsOfExecuted`, `ApprovalsAccounted`, that connectors and contract implement `SettlementLedger` (`ChainKeepsLedgerPromise`), `EveryRequestEnds` |
| `credentials` | 3 key files, 2 passphrases, 2 identifiers, 1 body, 2 credentials, 1 request of the agent's, presentations posted by anybody while there is no record, mock proofs | `OneKeyPerOwner`, `RunningKeyIsStored`, `OnlyIssuedSettles`, `IssuedIsAccepted`, `AgentAndVerifierAgree` |
| `relock` (violation) | 2 locks | finding 1 |
| `slots_terms` (violation) | 2 deals | finding 2 |
| `credentials_sp1` (violation) | as `credentials`, with the prover network | finding 3 |

Before its states `contract` evaluates the assumptions of `PolicyChecks`: `ClaimsAreMet` (every
claim of two, with a threshold up to 2 and open or restricted issuers, over bundles of up to two
attestations), `PoliciesMeanWhatTheySay` (nested `and` and `or`, empty ones included),
`RulesAreClaims`, `HistoryIsOrdered` and `LogIsAppendOnly` (logs of up to three entries). Two
attestations, and three entries, are what an order takes: a verifier that throws before or
after a good proof, entries of one time before or after an earlier one.

Type invariants are not checked by the runs of their own (but for `ChainTypeOK`, whose bound on
the deadline says something): the proofs of section 5 contain them.

Bounds. In `contract`, two values of each kind are enough to tell a right opening from a
wrong one; a window of 6 makes the cast to `Uint<64>` fail for every lock time but 0, a
window of 0 puts the deadline at the lock itself, and time 4 is beyond the deadline of the
window of 2 even when the lock is late by the tolerance. In the agents' runs two locks are
needed for a race between locks and one for everything else. `MaxFaults` is 1: a fault is
a crash, a failed call or a lost transaction, and each property is about a single one
striking at any point. `AdvanceTime` waits at `MaxLockTime` until the deal is locked, so
that the window always ends within `MaxTime`; this bounds when a deal is locked, and
nothing else. In `slots` three deals give a tick one before and one behind the deal in
question, and two faults let a restart follow a failed query. In `odoo` two
requests are what a conflict of transactions takes, and one action and one offer what one
deal takes; a failure costs a fault, the agent's refusals are free. In
`pipeline_safety` the two submissions may carry the same document or different
ones, which is what a race for one record needs. In `pipeline_completes` a clock of two values
tells a record before the compromise from one after it; it
has one agent call more than outages, since a lost call may keep its
element of `Req` occupied while the next one runs. In `evm` three requests over two
connectors give a race within a connector and one between connectors; documents do not
interact. In `credentials` one request is enough, since records are only added, and
the second identifier, with the document that names it, is there to be put in the place of the
first. A direct caller cuts the signed bytes within the first digest or between the two (`Cuts`);
a cut within the second shows nothing else. He posts while the ledger has no record (`MaxRecords`
1): a record refuses later ones only with its own text, and the agent's request still comes after
or before him.
`CHECK_DEADLOCK FALSE` is used in every configuration, because a deal that is released, a
submission that has its outcome, or a request that is answered is really over.

Symmetry is used only where no liveness property is checked: `agents_safety`,
`pipeline_safety`, `odoo`, `credentials` and `credentials_sp1`.

Fairness. In `SettlementAgents`, weak fairness on every step of a running handler: the event
loop runs every ready continuation, and each awaited call returns or throws. Weak fairness on
`WatcherTick`: `setInterval` keeps firing and `ticking` is cleared in a `finally`. Weak
fairness on block time and on the chain's verdict about a submitted transaction. Operators,
C, key changes and faults are unfair: nothing makes them happen, and the number of faults is
bounded, which is what "eventually" needs.
In `L2Verifier` and `CustomsPipeline` every handler runs to its end, and the poller keeps
ticking (`setInterval`, with its flag cleared in a `finally`). Taking the mutex is strongly
fair, because async-mutex serves its waiters in the order they came. People, key
synchronisation, revocations, restarts and outages are unfair; restarts and outages are
bounded by `MaxRestarts` and `MaxOutages`.
In `L2Evm` only the handlers are fair: viem's calls end with an answer or a timeout, and the
chain owes nothing. In `DealSlots` only the watcher is fair, taken as a whole: it is one
loop, which does one thing at a time.
No liveness is claimed of `OdooAddon`, `KeyFiles` and `Credentials`.

## 4. Findings

1. `relock`. `lockDeal` stores the new refund salt (actions.ts:419) before `lockEscrow` is
   accepted, and `POST /deals/lock` refuses only rows still in flight. Locking a deal that
   is already locked, or whose lock was reported failed although it landed, leaves the
   buyer's agent with a salt that does not open the refund address on chain;
   every later `releaseOnTimeout` to the buyer fails. (`BuyerCanBeRefunded` in `agents_settle` has one
   lock and shows what holds without a second.) The memo on chain still holds the old
   salt, so the money can be recovered by hand, but the agent never reads it.
2. `slots_terms`. Between `privateStateProvider.set` (actions.ts:220) and `callTx.propose`
   another approved proposal, or a claim of the watcher, may put its own private state into
   the same slot. The deal then commits the other deal's amount, address and deposit, although
   the "seller signs the exact terms it's about to submit on-chain" (actions.ts:203). The buyer's
   lock is refused, so no money is lost. `AttestedIsClaimed` shows that payouts recover from the
   same race at the next tick.
3. `credentials_sp1`. `signDocument` and `signHolderProof` hand a hash to
   `crypto.sign(null, ...)`, which hashes it again for an EC key; the circuit calls
   `verify_prehash` on the hash itself and panics on every credential, against
   sp1-circuit/src/main.rs:26. Mock proofs, which verify with Node, are not affected
   (`IssuedIsAccepted`).

Behaviours that the models contain and no property forbids: either no document promises otherwise,
or a document does, and the property states what is left of the promise and names the exception:

* The approve route marks a row `failed` when `callTx` throws (routes.ts:210), even if the
  transaction is still pending; the lock can be queued again. On chain only one can land
  (`ConfirmedIsOnChain`).
* The contract compares the coin's colour with nothing (Escrow.compact:243-266), although the price
  check is there so that nobody locks another worth (lines 98-102) and the pre-committed coin
  parameters so that the seller can always rebuild the coin (lines 35-44): a buyer may lock the
  agreed number in another colour. The seller's agent rebuilds the coin with the native colour
  (actions.ts:689-690, 735-738), so that it neither verifies such a deposit nor can claim it; only
  who knows the colour can. `DepositMatchesTerms` therefore says "in some colour". The agents' runs
  have one colour, since the agents pay in no other.
* A crash inside approve leaves its row `submitted_pending` for ever. `SubmissionsResolve`
  states this exception and no other.
* `verify-and-settle` looks at `revokedKeys` before it awaits the proof's verification and not
  again: a revocation that runs to its end in between misses the record, which is written
  `APPROVED` after the compromise time. `RevocationHolds` speaks of requests let in.
* Two revocations write `revoked-keys.json` outside the mutex; the older list may be written
  last, and the other key is accepted again after a restart.
* The list of revoked keys is assigned in memory before the file is written: when the write fails,
  the caller is told of an error, the key is refused until the next restart, and accepted after it
  (`RevocationNotPersisted`). `RevocationHolds` speaks of what the file holds.
* The poller stores `proof_requested` before it calls the agent (poller.ts:72) and selects that
  status nowhere: a restart of the broker during the call strands the submission, although the
  poller should drive it "automatically and unattended" (poller.ts:4-6). `PipelineCompletes` has
  this exception (`Stranded`).
* When the agent cannot reach its prover or the ledger it answers an error, which the poller stores
  as `failed` (poller.ts:81), although a row should not be "marked failed just because a downstream
  service was briefly unreachable" (poller.ts:9-11). `PipelineCompletes` has this exception, and a refusal of the ledger
  (`FailedForAReason`); it does not except a failure of the broker's own calls.
* After a lost connection the first agent call keeps running while the poller makes a second, which
  the ledger then refuses as a duplicate; the broker shows `failed` for a document that the ledger
  holds. `SettledOnce` shows that the reverse cannot happen.
* The operator's file is taken for absent when it cannot be read or parsed (auth.ts:108-115),
  although "every later login must come from that same verifying key" (auth.ts:51-53): the next
  login becomes the operator and overwrites it. So does the first login after a restart when the
  file could not be written at the first (`VerifyUnsaved`), perhaps only in half.
  `OperatorIsPermanent` and `SessionsOfOperator` state the first exception; in the second nothing
  is stored that could be kept.
* In the addon, a queued action whose answer is lost leaves no row; a failed approve leaves
  its pending id in the row, which the agent no longer approves; `is_submitting` stays set
  if the status read after a successful call raises.
* The connector's pre-check finds no hash that came without 0x; the contract's own check decides.
* The connector does not read the status of a receipt (chain.ts:132). Of two racing settlements of
  one document both are answered APPROVED, each with its own transaction, although the contract's
  `AlreadySettled` is called authoritative and answered 409 (server.ts:73-74, chain.ts:112-115); and
  so is a transaction that ran out of gas, was replaced, or was refused by a gateway that had changed
  since the estimate. In the last cases nothing is settled, and the entry in the log makes that
  connector refuse the document for ever. `ApprovalsAccounted` says that an approval stands for one
  of these endings and that no request which came after the settlement gets one.
* The mock ledger compares an identifier as text
  (l2-verifier-mock/src/index.ts:245), while the signature is checked over the bytes that it decodes
  to. Whoever has a presentation can post it again in another spelling, or with bytes of one field
  moved to the other (documentCrypto.ts:107-113 checks no length), and has a second record.
  `OnlyIssuedSettles` says what such a record still is: the bytes of two fields, put together, that
  the ministry signed; and that what an agent was told is APPROVED is recorded as it submitted it.
* A crash in the middle of migrating a key file loses the key. What `OneKeyPerOwner` shows is
  that the process does not replace it.
* A policy's threshold is compared with the length of `issuerSet` (verify.ts:40), whoever it
  names, while every rule admits one issuer: a threshold above one is met only by naming that
  issuer more than once (`ThresholdIsMetByRepeating`). types.ts:20 says that the "length alone
  isn't enough"; an attestation's own `threshold` is read nowhere.
* A verifier that throws rejects the whole evaluation, also under an `or` with another
  satisfied node; so the same attestations can satisfy a policy in one order and not in another.

The header of Escrow.compact (lines 18-19) says the timeout releases to the seller; the code
pays whichever party `timeoutDirection` names. The model follows the code.

## 5. Proofs

All are for every value of the constants that satisfies the named assumptions of the modules.

`EscrowContractProofs` (`ContractAssumption`: amounts, windows and bounds are naturals;
`NilAssumption`: an unset cell differs from every commitment) proves the invariants that the
run `contract` checks (`TypeCorrect`, `FundsSafe`, `PayeeCorrect`, `DepositCorrect`,
`WindowCorrect`, `NeverStuck`), the action property `TermsStayFixed`, and `ContractKeepsPromise`: the contract
implements `EscrowPromise`. None of these invariants is inductive. `FundsConserved`, for
example, speaks of the coin in custody, but a payout pays the coin that the caller
names: that this is the coin in custody follows only from what `heldCommitment` opens to, and
that the payee is the seller only from what `sellerAddressCommitment` opens to. `ChainInv` is
therefore their conjunction together with what each phase knows about every commitment cell
(unset before, and opened by a value of the right type after), about the deadline, and about
the coin pool. It is shown to hold initially and to be kept by each circuit, one lemma per
circuit; the theorems follow. The refinement has one step per circuit, and uses the invariant to
show that the payment on chain is the payment the abstract escrow makes. `DepositCorrect` is about the coin's amount, nonce and opening, not about its colour. `NeverStuck` reads the
same invariant backwards: every commitment cell of a locked deal is opened by some value of its
type, and the coin it commits to is owned, so that whoever knows these openings is accepted.

`SettlementAgentsProofs` (`AgentAssumption`, `DistinctAssumption` and `MemoAssumption`: the
constants are of the contract's types, the rows, calls and salts are told apart, and a memo is an
address with its salt) proves that the two agents implement the contract's specification
(`AgentsUseTheContract`: a transaction that lands is a call of the contract with witnesses of
the right types, and every other step leaves the chain alone), so that the contract's theorems
hold of the deal they run, and with them the promise (`AgentsKeepPromise`); and then
`ConfirmedRowsAreTrue`, `RejectionIsFinal`, `LocksAreSerial`, `SellerKeepsItsWitness` and
`PinnedKeyOnly`, for any number of locks, crashes, failed calls and key changes, and any skew of
the clocks. The salt a transaction carries is read from the provider's slot several awaits after
it was stored, and other calls write that slot in between; so the inductive invariant `AgentInv`
says of every place that can hold a salt (`SaltInv`) whose it may be, of every submitted
transaction (`TxInv`) which agent it comes from and which single call awaits it, and of a lock that
was never approved (`UntouchedInv`) that its salt is in none of these places. `PortInv` carries the
key the buyer pinned from its resolution to the deposit, `DoneInv` the landing of a
transaction to the row that reports it, and `LedgerInv` says that what the chain holds was
committed with the salt in the seller's table.

The buyer's row is different: every lock stores a fresh salt over the last one, and finding 1 shows
what a second lock does. `OnlyOneLockRan` says that at most one lock row went past approval;
as long as it holds, `BuyerKeepsItsWitness` proves what the run `agents_settle` checks of one lock.
Its invariant `BuyerInv` says that a row is stored before a lock is submitted and that what is
locked refunds to the salt of some lock. `SellerCanClose` and `BuyerCanClose` join this with the
contract: the payout that an agent builds from its own store, when its party is entitled to it,
satisfies the contract's asserts (the buyer's with the same condition).

`L2VerifierProofs` (`L2Assumption`: the two kinds of requests are disjoint, `Null` is none of the
values) proves `L2TypeCorrect`, `NoDoubleSettlement`, `ApprovalsRecorded`, `LedgerHistoryKept`
and `RevocationsHold` of `L2Spec`, whose requests come from anybody. `OneRecordPerDocument` is not
inductive: `SettleSave` checks for a duplicate in `loaded`, not in the file. The inductive
invariant `L2Inv` adds `MutexInv` (the mutex is held exactly by the handler between `loadDB` and
`saveDB`, and what that handler loaded is what the file holds) and `RevocationInv` (the key of a
revocation under way is refused in memory, and so is every key in the file or about to be written
to it), on which the two action properties rest. `FilesImplementLedger` proves, from the same
invariant, that the verifier with its files implements `SettlementLedger`: every step is one of the
abstract ledger or none, a restart being the loss of every connection at work. That a handler has a
document exactly when it has started (`CallHasDocument`) is the only addition. No run checks
this refinement, because on the pipeline's instance TLC needs several minutes for it.

`CustomsPipelineProofs` proves that the whole pipeline implements the ledger's specification
(`PipelineImplementsLedger`: every step of the four services is a step of `L2Spec` or leaves the
ledger alone), so that the ledger's theorems hold of it too, `SettlementLedger`'s promise among
them (`PipelineKeepsLedgerPromise`); and then `OnlyApproved`,
`SettledOnceAlways` and `OutcomesFinal`. Their invariant `PipeInv` follows a document through the
services: `ApprovalInv` says how a submission comes by its two approvals, `LedgerInv` that
nothing else is on the ledger or on its way there, `RowInv` that whoever is about to write a row
has found it in the status it still has, and `WinnerInv` that an approval of the ledger is in one
place at a time (the ledger's answer, the agent's, or the broker's row), which is what makes
`SettledOnce` survive retries.

`L2EvmProofs` (`NoneAssumption`: requests are numbered, `None` is none of the values) proves
`EvmTypes`, `EvmRecords`, `EvmApprovals` and `EvmRefusals` for any number of
requests, connectors and documents. `EvmApprovals` is `ApprovalsAccounted`: for each approval what
its own transaction did. The invariant `EvmInv` adds that a handler which waits for a
receipt has sent a transaction, that every transaction has a valid proof and came before its document
was settled, and that one which ended with `AlreadySettled` found a record of another.
`EvmImplementsLedger` proves that connectors with logs of their own and a shared contract implement
`SettlementLedger`, for clients that read their receipts. It needs besides that a transaction is still to be executed only while its client
knows no outcome (`UnknownWhilePending`), for else the chain could settle a document behind the back
of a client that was refused.

`CredentialsProofs` proves of the key files `KeyTypes`, `KeyStays` and `KeyIsOnDisk`. The invariant
adds that what is on disk, or about to be, is the only key ever shown, and that a file is only
missing while none was. It then proves `OnlySignedSettles` for any documents, requests and keys, in either
proof mode, and for presentations that anybody posts in any cut and spelling: its invariant `CredInv`
follows a signature from the ministry to the presentation, and
rests on `SignatureBinds`, that a signature which verifies is over the key and over the bytes of the two
fields together, and, for what the agent presents, on `SignedBytesTell`, that of two whole digests
these bytes tell which they are. If prover and
verifier are set up alike (`SP1`, or `PROOF_MODE` is `dev`), `ProofsAreAccepted` and
`CredentialsAreAccepted` follow. `CredentialsImplementKeys` shows that the key files are used as
`KeyFiles` has them, so that `SigningKeyStays` holds of the whole. The ideal hashes are an
assumption in all of this: a hash is a term, equal only if its inputs are. Texts in hexadecimal are
not hashes, and are equal in bytes without being equal.

`OdooAddonProofs` first proves the two properties of the login for `AuthSpec`, from
`AuthInv`, and then that every step of the addon, the panel and the agent is a step of the login or
leaves it alone (`OdooImplementsLogin`), which carries them over (`OdooSessions`, `OdooOperator`).
Restarts that could not read the operator's file are among the steps: the invariant `AuthInv` says
that memory and file disagree only after one of these (`unread`), or while nothing is stored.
The deals follow from `OdooInv`: `OdooOutcomes`, `OdooRecovers` and `OdooOneOperation`, for any
number of clients, deals, offers, failures and restarts. A row and the agent's queue are two
copies that are compared only inside a transaction, so the invariant says what a row may show
(`RowOK`), what a request has read in which it still trusts (`RequestOK`: a chain operation whose
row nobody else has committed holds `is_submitting` and the row's pending id), and that of two
chain operations on one row one cannot commit any more (`Apart`). It is kept because an outcome of
the agent's queue is never taken back (`Evolves`) and because a commit marks every other request at
work on the row as stale.

`AttestationProofs` is about bundles of any length. `ClaimIsWitnessed` says what a satisfied claim
means, `AnswersStand` that more attestations at the end change no answer, from the lemma that
the attestation which ends the loop is a least one (`FirstEnd`). With `RulesAreClaims` they
say of the eleven rules that only C confirms (`OnlyCConfirms`), that a threshold is met by
repeating C, and that the evidence of one transfer point is worth nothing at another
(`PointsDoNotMix`). What the evaluator computes for policies of any depth is induction over data
and stays with TLC; so does the evidence log.

Every safety property that a passing run checks is stated by a theorem, `BuyerCanBeRefunded` with the
condition above. Only model-checked are the liveness properties (`SettlementCompletes`,
`SubmissionsResolve`, `AttestedIsClaimed`, `PipelineCompletes`, `RequestsAnswered`,
`EveryRequestEnds`), which are out of the provers' reach. `IssuedIsAccepted` is checked in mock mode and proved in both; in the prover network's mode it holds
because no proof is ever made (finding 3).

## 6. Not modelled

Cryptography and byte layouts: hashes, signatures and encryption are ideal or reduced to their
outcome, so the dual-recipient memo, the commitments' encodings in TypeScript, did:web parsing and
the regular expressions over the indexer's dump are left out. The panels, the wallet and provider
set-up have no protocol state. The reasons that the policy evaluator collects are wording. The panel sessions of `simpleAuth.ts`, the addon's connection test and
its open-deal wizard are left out; so is viem's handling of nonces, which is not in this code.

## 7. Plan

Done: the contract with its promise and proofs; the agents for one deal and for several; login
and Odoo addon; the ledger, the pipeline over it and the proof that it implements the ledger; the
EVM connector; the promise both ledgers keep; keys, credentials and the circuit; the attestation policies.

Left, in this order:

1. `SubmittedTermsAreSigned` with one slot per deal, as a specification of what a repair owes.
