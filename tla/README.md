# Verdict Layer in TLA+

A verification project for the Verdict Layer protocol: the Solidity contracts that
take an assertion, a judge's verdict, a challenge and a panel's ruling
(`src/apps/contracts`), the four applications that act on rulings, the backend
that judges, appeals, indexes and finalises (`src/apps/api`), and the web site through
which people open records, file evidence and watch a verdict (`src/apps/web`).

Paths below are relative to `src/apps/contracts/contracts` (contracts),
`src/apps/api/src` (backend) or `src/apps/web/src` (`app/(app)`, `components`, `lib/api.ts`
and `lib/web3`: the site).

## 1. Inventory

### The protocol

| Part | State | Operations | Talks to |
|---|---|---|---|
| `protocol/AssertionRegistry.sol` | the record of every assertion, the challenger's bond, enforcer and fee sink, one ether balance for all bonds | createAssertion, submitVerdict, challengeAssertion, resolveAssertion, forceResolve, setEnforcer, setFeeSink | calls the enforcer, sends ether to asserter, challenger, fee sink |
| `protocol/VerdictEnforcer.sol` | registries it trusts | authorizeRegistry, revokeRegistry, dispatch | calls `onVerdict` of the application |
| `protocol/EscalationManager.sol` | one appeal per assertion: judge and call on record, up to three votes | openAppeal, recordPanelVote, closeAppeal | resolves in the registry, writes reputation |
| `reputation/ReputationRegistry.sol` | judge tokens (ERC-7857) and their scores | mint, transfer, clone, update, approvals; recordVerdict, recordAppealLost | verifies proofs with `verifiers/*` |
| `verifiers/Verifier.sol` | nonces of the proofs it accepted | verifyTransferValidity, verifyPreimage | nobody |

An assertion moves OPEN → VERDICTED → (CHALLENGED) → RESOLVED. INSTANT assertions go
from OPEN to RESOLVED inside submitVerdict. AUDITED ones wait out a challenge
window; a challenge must match the asserter's bond and is decided by a panel of
three; anyone may finalise a verdict nobody challenged; an administrator may force
any live assertion to any ruling, without telling the application.

*Correct* means: bonds are conserved and go to the party the rules name; a resolved
assertion is final; an application hears the recorded outcome at most once; nobody
can finalise while a challenge is still possible; an appeal and the registry never
disagree; an assertion whose callback is reachable always has a way on; a judge
token always has an owner, a proof moves it once, and approvals end with the owner who
gave them.

### The applications

`applications/base/VerdictConsumer.sol` lets an application ask a question and
receive one callback. On top of it:

* `Escrow.sol`: a client's tokens go to the freelancer, or back after a dispute or
  after the deadline plus 30 days. Correct: one party is paid, once, in line with
  the last question's answer, and never out of another escrow's tokens.
* `ParametricInsurance.sol`: an insurer's collateral pays one TRUE claim or is
  reclaimed after the coverage. Correct: collateral is never spent twice, and a
  policy does not get stuck.
* `MilestoneVault.sol`: a DAO's tokens are released milestone by milestone; the
  residue may be reclaimed. Correct: a grant gives out no more than it took in.
* `AuthenticityCertifier.sol`: a hash is certified by a TRUE answer. Correct: a
  certificate exists exactly if there was such an answer, for ever.

### The backend

* `workers/indexer.ts` reads each contract's events from a checkpoint, updates rows,
  enqueues jobs, and at the end of a pass finalises due AUDITED verdicts.
* `lib/queue.ts`, `workers/judgment.ts`, `services/judgment.ts`: one judgment job per
  assertion: read the row, infer, send the verdict, insert a public log, update the
  row; three attempts with back-off.
* `workers/appeal.ts`, `services/appeal.ts`: one appeal job per challenge: three
  inferences, then five transactions, then logs and an announcement.
* `services/assertion.ts`, `db/schema.ts`: the rows that mirror the chain, the
  assertions' and those of escrows, policies, grants and checks.
* `lib/events.ts`, `routes/verdict.ts`: a live stream of a judgment, over a bus in the
  memory of one process.
* `services/storage.ts`, `services/evidence.ts`, `routes/evidence.ts`: files are uploaded
  to a storage network, registered, and later attached to an assertion.
* `services/compute.ts`, `services/inference.ts`: model calls, and the ledger they share.
* `services/oracle-flight.ts`, `routes/oracle.ts`: evidence fetched by the service.
* `server.ts`: the process that embeds workers, indexer and routes, and loses whatever
  they were doing when it stops.

*Correct* means: rows never claim what the chain did not do; the checkpoint never
passes work that was not done; the public log is of the verdict that counted; every
question is judged or its job is exhausted; every due verdict is finalised; what was
uploaded for an assertion can be fetched; a shortfall of the ledger is deposited once and
every chat is settled; whoever follows a case learns its outcome.

### The web site

* `app/(app)/{escrow,milestones,insurance}/new`: forms that approve tokens, open a
  record and go to its page. State: the steps of a submission, in several tabs.
* `app/(app)/{escrow,insurance,milestones,authenticity}/[id]`: a record's page. It reads
  the row (milestones: also the chain) and offers buttons by role and status; its dialogs
  upload evidence, send a transaction and attach the evidence to the new assertion.
* `components/verdict/reasoning-stream.tsx`, `appeal-panel.tsx`: the outcome as it comes,
  and the appeal as chain and logs have it.
* `components/verdict/vusdc-faucet.tsx`: the faucet of the demo token.

*Correct* means: a page offers what the contract takes and withholds nothing that is
needed; a form leads to the record it opened and opens one; the judge is not made to
decide without evidence that was on its way; what a page says of an appeal is true.

### What is hard here

Interleaving of users, relayer, administrator and clock on one assertion; money of
many entities in one balance; three contracts changed by one transaction that may
revert half way through; callbacks that may be unreachable; retries of jobs whose
transactions were already mined; replayed event batches; rows written from two
sides; reads that fail and are swallowed; passes that overlap; evidence, indexer and
judge racing each other after one transaction; two tabs sharing an allowance; a page
that combines what it read at different times. The list with source lines is under
`hazards` in `PROJECT.json`.

## 2. Modules

```
VerdictTypes                 enumerations
Sums                         facts about sums over finite sets, and about rows that are
                             written column by column, used by the proofs
VerdictOracle                what the protocol promises an application (abstract)
  ^ implemented by
AssertionRegistry            registry + enforcer + wiring + block time
AssertionRegistryProofs      theorems about it
Reputation                   judge tokens and scores
JudgeToken                   = Reputation + ERC-7857 ownership + verifiers
JudgePanel                   = EscalationManager + JudgeToken
EscalationManager            = AssertionRegistry + Reputation + appeals
VerdictConsumer              an application's side of VerdictOracle
  Escrow, ParametricInsurance, MilestoneVault, AuthenticityCertifier
ApplicationIndexer           passes over a contract's events, without its handlers
  EscrowApp                  = Escrow + ApplicationIndexer + table + page
  InsuranceApp               = ParametricInsurance + ApplicationIndexer + table + page
  EscrowProofs, InsuranceProofs   theorems about the contract, then about its App
  VaultApp                   = MilestoneVault + ApplicationIndexer + table + page
  CertifierApp               = AuthenticityCertifier + ApplicationIndexer + table + page
  SharedTick                 = VaultApp + CertifierApp under one timer tick
  SharedTickProofs           theorems about it, both contracts, their tables and pages
Backend                      = AssertionRegistry + ApplicationIndexer + queue + judge + row
BackendProofs                theorems about it, on top of AssertionRegistryProofs
AppealWorker                 = EscalationManager + appeal queue + worker + appeal panel
EscalationProofs             theorems about appeals, JudgePanel and AppealWorker, on top of
                             AssertionRegistryProofs
Storage, Evidence            uploads; evidence rows and the browser that attaches them
FlightOracle                 = Storage + Evidence + snapshots by the service
Inference                    model calls and their ledger
EventStream                  a live stream and its readers
Case                         = FlightOracle + Inference + EventStream + dialog, row, judge
FundingForms                 the forms that open records, the wallet, the faucet
Site                         = Case + FundingForms
SiteProofs                   theorems about it
MC*                          instances for TLC
```

The applications are composed with the promise `VerdictOracle` and not with the
registry: what is checked about them holds over everything that keeps the promise,
and the registry is shown to keep it (run `MCRegistryLife`, theorem `Refinement`).
`Backend` and `AppealWorker` are composed with the full contract models. `Case` follows
one assertion through the parts of the service that `Backend` takes as given, and
takes the registry as given in turn: one verdict, accepted once.

How state and actions correspond to the code:

* **AssertionRegistry.** `assertion[i]` is the storage struct; claim, evidence roots,
  attestation and target are left out because no guard reads them (the target is the
  relation `Trusts`: which dispatchers the callback of `i` accepts). `elapsed[i]` is
  block time since `verdictedAt`; it stops counting past `MaxPeriod`, where every
  comparison with the period has one answer. `pot` is the contract's balance;
  `paid[i]` and `delivered[i]` record the ether and the callbacks that left it. One
  action per external function; `_finalise`, `_settleBonds`, `_safeSendValue` and
  `dispatch` are operators inside the actions, so a transfer or a callback that
  reverts disables the whole action, as it undoes the whole transaction.
  `resolveAssertion` is two actions, one per branch. Accounts in `Rejecting` refuse
  ether. `Init` covers a registry just constructed and one wired by
  `scripts/deploy.ts`.
* **EscalationManager.** One action per function. `votes` is a function from token to
  outcome for the two parallel arrays (their order is read by no contract), with
  `votesRecorded` and `tally` beside it as in the struct. `closeAppeal` is one action
  over three contracts.
* **JudgeToken.** One action per function of the token, `Clone` for the two that differ in
  the caller they admit. `verifyTransferValidity` is `Verify`: inside a move it is part of
  that transaction, and on its own anybody may call it. A proof is a record of what its
  bytes come to; `usedProofs` is kept per verifier, as each contract has its own.
  `accepted` and `approver` are history variables, read only by properties.
* **JudgePanel.** A step of the protocol or a step of the tokens' owners; a mint is both.
  A behaviour's scope is a set that says which of the two it has; the theorems hold for
  every scope, also for the one with both.
* **VerdictConsumer and the applications.** One action per function. A callback and the answer
  it reacts to are one step. `held` is the pooled token or ether balance.
  `ParametricInsurance!Receive` is the `receive()` that `VerdictConsumer` gives every
  application: anyone may send ether. Dates become phases (`overdue`, `phase`, `expired`) that
  a separate step advances. A party in `Unpayable` makes the transfer, and with it the
  transaction, revert.
* **Backend.** Each await that changes something is an action: a pass is `StartPass`, one
  `HandleEvent` per event, `SaveCheckpoint`, over `ApplicationIndexer`, so that a pass over
  the registry may outlive its tick like any other; the row of a new assertion (`InsertRow`)
  and its job (`HandleCreated`) are two steps. A judgment is `Start`, `Load`, `DecideOutcome`,
  `Submit`, `InsertLog`, `UpdateOutcome`. `TickRejects` (this pass throws, or a neighbour's
  does and this one goes on), `JudgeThrows`, `SubmitUnheard` (mined, but the wait for the
  receipt fails) and `Restart` can strike between any two. The log of events is the chain's; a
  transaction's events carry its number, and a pass never ends inside one.
* **AppealWorker.** One action per transaction of `runAppealSwarm`. `Throw` is any
  failing call, `Revert` a transaction the chain refuses. `cutShort` is a history
  variable, read only by a property. `screen` is what an open appeal panel has read: the
  registry once, the logs every six seconds.
* **ApplicationIndexer.** `StartPass` reads the range from the checkpoint to the tip,
  `HandleNext` hands over one event, `SaveCheckpoint` is the upsert that ends the pass.
  A throw anywhere in the `Promise.all` ends the tick (`NeighbourThrows`) while the other
  passes go on, so that two passes over one contract can overlap; `straggled` remembers
  that. `Restart` starts again from the checkpoints.
* **EscrowApp, InsuranceApp, VaultApp, CertifierApp.** `ContractStep` pairs each
  transaction of the contract with the event it emits; `Updated` is the handler's `switch`,
  `Handled` its insert-or-update. `Offers` (`OffersSubmission`, ...) is what the page shows,
  computed from what the page reads; what the contract takes is the guard of its action,
  which has a name of its own (`CanDeliver`, `CanClaim`, `CanSubmit`, ...). Pressing
  a button adds no action of its own: it sends a call that anyone may send, and is a step of
  the contract. The one state a page adds, the claim dialog's mark, is `filed`.
* **SharedTick.** Two application sides with their own passes and one tick.
* **Storage, Evidence, FlightOracle.** A blob's root is submitted, its segments follow,
  the upload returns; each step may throw. `client` is the browser's life of one file:
  upload, transaction, receipt, up to five attach calls with 1, 2, 3 and 4 seconds between
  them. Time is counted in half seconds, in timers that `Tick` runs down; an answer may
  come at any moment within `Latency`.
* **Inference.** `gate` and `holder` are `ledgerPromise` and those who await it; a call
  connects, streams, settles; or its answer names a chat and has no body (`AnswerHasNoBody`),
  which throws before anything is settled. Balances are counted in units of what a call may
  cost.
* **EventStream.** A reader subscribes, then the row is read and replayed; events reach those
  subscribed at that moment. `lost` is a connection the browser will open again, `refused` one
  that the server answered with its rate limit (`server.ts:39-42`), which the browser gives
  up.
* **Case.** The dialog with its uploads and attach calls, the indexer's row and, a step later,
  its job (`InsertRow`, `AddJob`), the judge's attempt await by await, the queue, the pages,
  `Restart` of the process. `Dialogs` lists the dialogs of the site by what they file.
* **FundingForms.** `handleSubmit` await by await in each tab; the wallet's transactions
  are mined in nonce order; allowances and balances decide whether a creation reverts.

A definition marked `Fault:` is a mutated form of the one beside it. No behaviour of
the specifications contains it; each property is confronted with the fault it must
detect.

## 3. Runs

Deadlock checking is off in all of them: a system in which everything is resolved
and every bound used up may stop.

| Run | Distinct states | Question and bounds |
|---|---|---|
| `MCRegistryBooks` | 1.4 M | Is the money right? Two assertions, two accounts and bonds of 1 and 2 in one pot, so that a settlement could reach for another's bond. Symmetric in assertions and accounts. |
| `MCRegistryLife` | 108 k | Is the life cycle right? One assertion, periods below, at and above the legal range, two dispatchers of which the application trusts one, an account that rejects ether, zero bonds, donations, all administration. Is there always a way on, does the administrator's work, and does the registry keep the promise? |
| `MCEscalation` | 936 k | Do appeal, registry and scoreboard agree? Two appeals whose panels share three tokens, all orders of minting (or not), voting, closing and forcing. The clock is coarse: a tick is longer than the window, which `MCRegistryLife` checks finely. Two scopes: this, or who holds a judge and how often a proof counts: two tokens of two equal slots, two owners, two verifiers of different families, and bundles of up to two of five proofs: public, private, unsigned, of the other family, and two that share a nonce. |
| `MCEscrow` | 447 k | Is each escrow paid once and rightly, does a dispute end, and do table and page agree with the contract? Two scopes: two escrows with different amounts in one balance, two questions and a freelancer the token refuses; or one escrow whose events run through up to two overlapping passes with a throw or a restart. |
| `MCInsurance` | 2.0 M | Is collateral safe, does a policy get stuck, do table and page agree? Three scopes: two policies, three claims and a holder that rejects ether; the same with two claims and ether sent by anyone; or one policy with two claims and its row. |
| `MCVault` | 1.2 M | Is every token accounted for, when is a hash certified, and what do totals, tables and pages make of it? Five scopes: two grants of two milestones with three submissions; three checks of two hashes; one grant, or two checks, with the table; and both sides under one tick, where one's failing handler overtakes the other's pass. |
| `MCBackend` | 956 k | Do row, log, queue and chain agree through a fault or restart, a failed read and a pass that outlives its tick, and does every question get its answer? One assertion, two passes, two attempts per job: enough for a retry of mined work, a replayed batch, a late write and an overwritten row. The clock is coarse: a tick is longer than the window. |
| `MCAppeals` | 1.1 M | Does the worker's record match the chain's through throws at any point, is a page told the truth, and when is a challenge not ruled on? One assertion, a full panel, two attempts. |
| `MCSite` | 1.4 M | Does a case get through? Four scopes, with one fault each: all six dialogs with two files and every order of uploads, attach calls, indexer and judge; two readers; two concurrent model calls on a ledger that is missing, empty or full; two forms over any two contracts, two submissions each. |
| `MCVaultOverpaid` | stops | Finding 1 |
| `MCBackendBadRead` | stops | Finding 2 |
| `MCAppealsStuck` | stops | Finding 3 |

Why the bounds are enough: entities interact only through the pooled balance, the shared
scoreboard, the shared tick, the ledger and the allowance, for which two of each are present;
rows of one table never meet, so that one is followed; one assertion's life has no counter
that grows; each retry starts from nothing, so two attempts show what any number does; two
passes are what it takes to overlap, and one fault what it takes to redeliver. A *scope* is a
bound that is part of the initial state: it says which part of a composition varies in a
behaviour while the others are still or take their plain course, where the parts meet in so
few places that varying them together multiplies the states. The theorems do not depend on it:
they hold for every scope. The bounds are the sets themselves, `Scopes`, `MaxDonation`,
`MaxTokens`, `MaxSlots`, `DataLists`, `Users`, `MaxHeld`, `MaxChecks`, `MaxPasses`,
`MaxFaults`, `MaxBadReads`, `Calls` (outcomes tried; in `Inference` the calls under way),
`ATTEMPTS` (2 where the queue has 3), `Latency` (half a second), `MaxRows` (a file registered
twice), `Runs` (submissions of one form), `MaxClaims` (faucet claims not mined) and
`FAUCET_CAP` (in the units of `Need`).

### Properties

* Money: `Solvent`, `SettledExactly`, `FairSettlement`; `EscrowInv`, `PolicyInv` and
  `GrantInv` (each application's pool covers what it owes, and each record pays one party
  once); `OverpaidAfterReclaimOnly`; `CallsAreSound` (one deposit per shortfall, every chat
  settled but that of an answer without a body); `FormsInv` (what a wallet spent is what its
  records hold).
* Order: `ResolvedIsFinal`, `WindowHonoured`, `RulingObeyed`,
  `KeepsThePromise`, `ReadsWhatArrived`, `ApprovedInTime`.
* Life-cycle invariants with the type invariant of their module as first conjunct:
  `RegistryInv`, `AppealInv`, `EscrowInv`, `PolicyInv`, `GrantInv`, `CheckInv`,
  `MirrorInv`, `WorkerInv`, `CaseInv`, `FormsInv`, `TokenInv`. `TokenInv` has, beside
  types, that a judge never loses its owner, that a verifier accepts a proof once and that
  no approval outlives the owner who gave it.
* Agreement of parts: `AppealLanded`, `ScoresAddUp`,
  `LoggedIsOnChain`, `NothingSkipped`, `MirrorSettles`, `RulingAsTold` (logs, announcement
  and headline), `SiteAgrees` (contract, table and page of each application).
* Ways out: `NeverStuck` (a live assertion whose callback is reachable and whose parties
  accept ether can be ruled, challenged, finalised or closed, or waits for the window of a
  verdict without a bond), `EscapeHatch`, `StrandedByForceOnly`, `PanelCloses` (a complete
  panel can close its appeal while the callback is reachable and the accounts concerned accept
  ether, unless the verdict was filed under a token nobody minted).
* Liveness: `DisputeEnds`, `JudgedOrGivenUp`, `VerdictsAreFinalised`,
  `ChallengeIsRuled`, `WatcherLearns`.

### Fairness

* `AssertionRegistry` has none. That every assertion ends would need a judge, a sweep and an
  appeal worker that keep trying, and the code's give up: a job after three attempts
  (`lib/queue.ts:30-35`), the sweep on a row without `verdictedAt` (finding 2), an appeal after
  its opening (finding 3). What holds without them is `NeverStuck`.
* `EscrowApp!FairAppSpec`: time passes, and a client entitled to a refund asks for it.
  Nothing is assumed of the indexer.
* `Backend!Fairness`: the indexer's timer and the queue's workers run. A throw stays
  possible at every step, restarts are bounded by `MaxFaults`; nothing is assumed of
  users, panel or administrator.
* `AppealWorker!FairWorkerSpec`: the indexer hands every challenge over, the worker runs its
  jobs. Throws are limited by the queue's attempts.
* `Case!Fairness`: the queue hands jobs out and the judge goes on (`JudgeNext`: awaits return
  or throw), model calls return (they are aborted after ninety seconds), timers run (`Tick`),
  the service answers attach calls and the browser's pause ends, a subscribed stream reads the
  row, and `EventSource` opens a broken stream again (`retry: 3000`), unless the server
  refuses it. People, the indexer and faults owe nothing.

## 4. What the runs show

The three violation runs, each against a sentence of the repository:

1. **A reclaimed grant can be paid again** (`MilestoneVault.sol:231`). `reclaim` takes
   everything not yet released, including a milestone under judgment. If the verdict
   is TRUE, the callback pays that milestone from the vault's balance, which is other
   grants' money, or reverts if there is none. `OverpaidAfterReclaimOnly` shows that a
   grant gives out more than it took in only after its residue was reclaimed, and then by a
   milestone that the residue covers.
2. **One failed read leaves a verdict unfinalised** (`workers/indexer.ts:240`).
   `verdictedAt` is only written there; if the metadata read fails the error is logged,
   the checkpoint moves on, and the sweep, which selects on `verdictedAt`, never finds
   the row. `VerdictsAreFinalised` shows it is the only obstacle.
3. **An interrupted appeal is never continued** (`services/appeal.ts:123`). Every retry
   opens the appeal first, and opening it twice reverts. `ChallengeIsRuled` shows that
   a challenge goes unruled only if no attempt got as far as opening, or one was cut
   short afterwards.

Other places where comment and code differ, met while modelling. The checked
properties state what the code does:

* `interfaces/IVerdictCallback.sol:14` has `onVerdict` "called exactly once"; after
  forceResolve it is never called. `RegistryInv`: at most once.
* `AssertionRegistry.sol:151` has forceResolve accept any outcome in any live status;
  an outcome that pays an account that rejects ether reverts. `EscapeHatch`: it works
  when the accounts concerned accept ether.
* `Escrow.sol:22` has funds "stay locked" on INVALID; the code reopens the escrow for
  another dispute. `EscrowInv` and `RulingObeyed` hold with that.
* `ParametricInsurance.sol:21` lets an insurer reclaim when a policy expires without a
  TRUE verdict; after a claim forced to FALSE it cannot, and after one forced to TRUE
  nobody is paid. `StrandedByForceOnly`.
* `EscalationManager.sol:22` penalises the first judge "if majority flipped the
  outcome"; a three-way tie (INVALID) does too. `ScoresAddUp` counts it so.
* `EscalationManager.sol:133` refuses unknown panellists so that closing cannot lock;
  an unknown *first* judge, which submitVerdict accepts, still locks an overturning
  appeal. `PanelCloses` has the exception.
* `services/assertion.ts:4` calls the table a cache of the registry; the judge's last
  write can replace a final outcome the indexer had already mirrored, for good
  (`services/judgment.ts:207`). A pass over the registry that outlived its tick can write the
  judge's outcome late as well, below a checkpoint that the next pass saved.
  `MirrorSettles` allows exactly these two.
* `workers/indexer.ts:5` promises that restarts resume cleanly; a `MilestoneReleased`
  delivered again is added again, to `releasedAmount` and `milestonesReleased`.
  `SiteAgrees` (`VaultApp!LedgerNeverShort`): the totals err upwards only, and are exact
  if nothing failed. After a straggler even that is lost, and an escrow's or policy's row
  may stay stale: the late write is below the checkpoint, and nothing repeats it.
* The pages say "Actions below are what the contract allows for your role right now".
  `SiteAgrees` holds with the differences it names: the rescue of a policy is offered while
  its claim is still judged, where the contract refuses it; after a claim was denied, the
  page that filed it hides the claim button until it is loaded again; the grant's page is
  told `reclaimed={false}` and offers a second reclaim, and offers a submission after the
  grant expired.
* `app/(app)/escrow/[id]/actions.tsx` (RespondDialog) has the judge re-read the case once a
  response is filed; a judge that has read it does not, and the response's file is attached
  for nobody. A dispute and a claim under a specification cite two roots while the dialog
  attaches one (the specification, `evidenceSpec`, is the hash of a text that `insurance/new`
  never stores, so that nobody can fetch it and `CaseInv` leaves it out), so that the judge
  always waits its fifteen seconds in vain: `ReadsWhatArrived` speaks of the files that are
  attached at all.
* A file registered twice (its first answer lost) counts as two rows for the judge's wait,
  which may end before the second file is there. `ReadsWhatArrived` excepts it.
* `workers/judgment.ts:54-58` publishes `done` after the last failure so that readers stop
  waiting; the `error` before it has already ended every stream, and the page opens it
  again three seconds later, when nobody publishes. A reader of an abandoned case waits
  for ever, and `WatcherLearns` speaks of a known outcome only.
* `workers/judgment.ts:6` has the worker run "in its own process in production"; the bus
  is the memory of one process (`server.ts:79-82` says so), and `Case` models that one.
* `src/README.md:121` has every response go through `processResponse()`, and
  `services/inference.ts:182` that settlement must run if there is a chat id, "regardless of
  downstream parse/stream failures". An answer without a body has named its chat in a header
  by then, and throws before that point (`inference.ts:113`). `CallsAreSound` has this
  exception and no other.
* `services/oracle-flight.ts:8` has repeated snapshots share a root; they contain the time
  they were fetched at. `FlightOracle` makes each a new blob.
* A form whose receipt was never heard is free to be submitted again and then opens a
  second record; `FormsInv` counts one more record for each such receipt. Two tabs of one
  wallet overwrite each other's allowance; `ApprovedInTime` excepts exactly that.
* `interfaces/IERC7857DataVerifier.sol:53` asks for "one proof per data slot". Transfer and
  clone loop over the proofs they are given (`ReputationRegistry.sol:513`): a short bundle,
  even an empty one, goes through and the other slots are gone; one proof too many reverts.
  `Move` and `Clone` do the same. Users authorised by one owner stay so under the next.
* `base/BaseVerifier.sol` has a nonce keep a proof from counting for "a second token". It
  does for one verifier (`TokenInv`); a replacement set by updateVerifier starts with no
  nonces. A public proof has no old hash, so that it serves transferFrom only.
* `components/verdict/appeal-panel.tsx` tells a reader of any RESOLVED assertion, also one
  that was never appealed, that the panel upheld the verdict. `RulingAsTold` requires the
  headline to be right when three votes are shown with it.

## 5. Proofs

Every theorem holds for all constants: any number of assertions, accounts, records,
tokens and questions, any bonds, amounts and windows, any number of attempts, throws and
restarts.

| Module | Theorem | Statement |
|---|---|---|
| `AssertionRegistryProofs` | `InvariantHolds` | `Spec => []RegistryInv` |
| | `TypeCorrect` | `Spec => []TypeOK`; in particular the balance never goes below zero |
| | `SettlementCorrect` | `Spec => []SettledExactly` |
| | `SettlementFair` | `Spec => []FairSettlement` |
| | `CallbackOnce` | `Spec => []HeardOnce` |
| | `WindowsDisjoint` | `Spec => []WindowHonoured` |
| | `VerdictStands` | `Spec => []JudgeStands` |
| | `AlwaysSolvent` | `Spec => []Solvent`: the pot covers every live bond, owed once |
| | `HatchOpens` | `Spec => []EscapeHatch`: the administrator can end any live assertion |
| | `AlwaysAWayOn` | `Spec => []NeverStuck`: without the administrator there is a next step |
| | `Finality` | `Spec => ResolvedIsFinal` |
| | `Refinement` | `Spec => KeepsThePromise`, i.e. `Spec => Oracle!Spec` |
| `EscalationProofs` | `StillARegistry` | `Spec => Registry!Spec` |
| | `AppealTypes` | `Spec => []TypeOK` |
| | `ClosingLands` | `Spec => []AppealLanded` |
| | `AppealStands` | `Spec => []AppealInv` |
| | `ScoresAreExact` | `Spec => []ScoresAddUp` |
| | `PanelsClose` | `Spec => []PanelCloses` |
| | `OwnersDisturbNothing` | `PanelSpec => Spec`: tokens that change hands disturb no appeal, in any scope |
| | `TokensWellHeld` | `PanelSpec => []TokenInv`, in any scope |
| `EscrowProofs` | `EscrowCorrect` | `Spec => []EscrowInv`, the whole of what the run checks |
| | `EscrowTypes`, `BalanceExact`, `OnePayee`, `DisputesStand` | its parts: `TypeOK`, `Solvent`, `PaidOnce`, the dispute on record is the only open one |
| | `RulingsObeyed` | `Spec => []RulingObeyed` |
| | `EscrowUnderSite` | `AppSpec => Spec`: indexer and page do nothing to the contract |
| | `EscrowSite` | `AppSpec => []SiteAgrees`: at rest table and page are the contract's record, unless a pass straggled |
| `InsuranceProofs` | `PolicyCorrect` | `Spec => []PolicyInv`, the whole of what the run checks |
| | `InsuranceTypes`, `AlwaysCollateralised`, `OneBeneficiary`, `LatestClaimPays` | its parts: `TypeOK`, `Collateralised`, `PaidOnce`, `LatestClaimOnly` |
| | `PendingForAReason` | a pending claim waits, or was decided unheard |
| | `OnlyForceStrands` | `Spec => []StrandedByForceOnly` |
| | `InsuranceUnderSite` | `AppSpec => Spec` |
| | `InsuranceSite` | `AppSpec => []SiteAgrees`: likewise, with the differences the property names |
| `SharedTickProofs` | `SiteRunsTheVault` | `Spec => Vault!Spec`: the vault as it is alone |
| | `SiteRunsTheCertifier` | `Spec => Certifier!Spec` |
| | `VaultCorrect` | `Spec => []GrantInv` |
| | `SubmittedStands` | a submitted milestone waits, or was decided unheard |
| | `OverpaidOnlyLate` | `Spec => []OverpaidAfterReclaimOnly`: after a reclaim, by a milestone that the residue covers |
| | `CertificatesFollow` | `Spec => []CheckInv` |
| | `CertificatesStay` | `Spec => Certifier!NeverWithdrawn`, an action property that only the proof states |
| | `TablesAndPages` | `Spec => []SiteAgrees`: totals, certificates and pages of both sides under the one timer |
| `BackendProofs` | `RunsTheRegistry` | `Spec => Facts!Spec`: the service sends nothing the registry does not offer |
| | `MirrorCorrect` | `Spec => []MirrorInv` |
| | `RecordIsTheVerdict` | `Spec => []LoggedIsOnChain` |
| | `CheckpointIsSafe` | `Spec => []NothingSkipped` |
| | `TableSettles` | `Spec => []MirrorSettles`: a table that caught up shows the end, or the judge's call after a late write |
| `EscalationProofs` | `WorkerCorrect` | `WorkerSpec => []WorkerInv` |
| | `RulingPublished` | `WorkerSpec => []RulingAsTold` |
| | `OneAttemptVotes`, `LogsAreVotes` | `VotesOfOneAttempt` and `LoggedAsVoted` of every assertion, whatever the chain's types |
| | `LogsAfterRuling` | a panel's log belongs to a closed appeal |
| | `AttemptsBounded` | no job makes more attempts than the queue allows |
| `SiteProofs` | `CallsSound` | `SiteSpec => []CallsAreSound`: one deposit per shortfall, every chat settled but that of an answer without a body |
| | `CaseSound` | `SiteSpec => []CaseInv` |
| | `JudgeReadsWhatArrived` | `SiteSpec => ReadsWhatArrived`, an action property, if `LongestLag < EVIDENCE_WAIT` |
| | `FormsSound` | `SiteSpec => []FormsInv` |
| | `ApprovalsArrive` | `SiteSpec => ApprovedInTime`, an action property |

### Assumptions

* `RegistryAssumption`: the identifiers are a finite set (they are 256-bit hashes), bonds and
  periods are naturals, the window bounds are ordered, the "no account" value is no account,
  the escalation manager is no dispatcher, only accounts can refuse ether.
* `EscalationAssumption`: that, and token ids are naturals, and what judges and panels may
  call are outcomes. `PanelAssumption` adds `TokenAssumption`: the minter is a holder,
  "nobody" is not, a proof names a receiver, and no judge has more data slots than
  `MaxSlots`.
* `ConsumerAssumption`, `EscrowAssumption`, `InsuranceAssumption`, `VaultAssumption`: the
  bond is a natural number, amounts are positive, "no question" is no question, and escrows,
  policies, grants and slots are finite sets (they are fixed-width integers).
* `CertifierAssumption`: the number of checks is a natural, "no hash" is no hash. It and
  `VaultAssumption` are operators, assumed by `SharedTickAssumption`, which adds of each
  side's indexer that it may run a pass and that its faults are bounded by a natural.
* `BackendAssumption`, `WorkerAssumption`: those of the contracts they run on, at least one
  attempt, bounds that are naturals, a panel that is a sequence of token ids.
* `CaseAssumption`, `InferenceAssumption`, `FormsAssumption`, `EvidenceAssumption`: a case has
  two pieces of evidence and a transcript, which are different things; the judge makes one of
  the calls; the minimum of the ledger, every form's price and the latency are positive; the
  forms are a finite set.
* `JudgeReadsWhatArrived` has a hypothesis of its own. `LongestLag` is the browser's longest
  pause (four seconds) and `Latency`; the judge waits fifteen. The theorem therefore speaks
  of every service that answers an attach call within eleven seconds, which is an assumption on
  speed that the code makes and does not check; a slower one may leave the judge without the file.

TLC evaluates all of them in the runs of the modules concerned. An instance's assumption is
never taken for granted: a module that instantiates another derives it from its own
(`Assumed`).

### The arguments

None of the properties is inductive. Each module has an inductive invariant, or a few that
build on each other, from which its theorems follow.

**Sums.** What a contract must hold is a sum over a finite set, which the library defines by
recursion over subsets. Induction over sets is out of the provers' reach, because the
library's induction theorems take an operator as a parameter. `Smallest` replaces it: of the
subsets for which a claim fails, were there any, one is smallest; `SumInt`, `SumNat`,
`SumSame`, `SumWithout` and `SumSplit` refute it. First `SolutionExists` shows that the
recursion defines a function at all. What the other modules cite is `SumChanged`: if one
value changes, the sum changes by the difference.

**Registry.** That a settlement pays what was posted needs to know that the challenger's
bond exists exactly while the assertion is CHALLENGED and equals the asserter's; that the
windows are disjoint needs to know that a challenge was filed inside the window and the
clock has not mattered since; that a callback is heard once needs to know that nothing was
heard before resolution. `RegistryInv` says this per assertion: `Unsettled(i)` before
RESOLVED and `Settled(i)` after. `Frame` and `Closing` are the two lemmas everything uses:
a step that leaves the books of an assertion alone keeps its part of the invariant, and a
settlement by `Settlement` of an `Unsettled` record yields a `Settled` one. For `Refinement`
each action is shown to map to `Ask`, `Answer`, `Override` or a stutter; the amount the
asker gets back is one of the promise's `Returns` by `SettlementExact`. For `AlwaysSolvent`
every action changes pot and sum by the same amount (`SumChanged`). `HatchOpens` joins the two:
the stake of a live assertion is one of the terms the pot covers, so that a settlement of it
can always be paid. `AlwaysAWayOn` adds the clock: a verdict is either inside its window, where a
bond that is not zero can be matched, or past it, where silence finalises it.

**Escalation.** `StillARegistry` shows that the composition is a registry, so that
`AssertionRegistryProofs`, instantiated over its variables as `Facts`, gives `RegistryInv`
here as well (the `Same...` lemmas identify the two instances of the registry). `IInv` adds
`AppealOK`: an opened appeal remembers the judge and the call on record, its tally has one
vote per recorded voter, until it is closed the application has heard nothing, and from then
on the registry holds its plurality. `Effect` says in one formula what any step but a
closing may do to an assertion; `EffectKeeps` shows that such steps keep `AppealOK`.
`AppealStands` counts: a vote adds its token, which had not voted, to the voters of one
ruling, and so one to their cardinality and to the tally. `ScoresAreExact` adds that a
closing moves one appeal from the open ones to those that score: the sum over appeals of
what each gives a token changes by that appeal's share, which is what `Record` adds.
`PanelsClose` takes from it that the ruling is an outcome and that the panel's judges were
minted, from the registry that the settlement can be paid, and that nobody takes the
enforcer's role from the manager. Owners are separate: `OwnersDisturbNothing` maps each of
their steps to a stutter or a mint, and `HeldInv` follows owner, approver and spent proofs;
a bundle marks its own nonces, none of which were spent, and each at most once.

**Escrow and insurance.** `onVerdict` looks at the status of the record and never at the
question the verdict answers, so that `RulingObeyed` and its kin hold only because no other
question about the record can be open. That is the strengthening: an open question points to
a record which points back to it and waits for it, or is closed for good (`Standing`,
`ClaimOK`), nothing was heard of it yet (`Silent`), and a record that waits has a question
that is open or was decided unheard. A record that is not closed paid nobody (`PaidAt`), and
the balance is the sum over those; the insurance's has besides what bonds and donors added.

**Their tables and pages.** The events are read as a log that writes columns of rows. A row
is not the result of a prefix of the log: overlapping passes and redelivery after a throw or a
restart can leave an old status beside a new question. What is inductive is said of each column
alone (`Behind`): it shows what the events up to some point wrote, and that point is never
before the checkpoint nor before where the pass has come. Within one pass events come in order,
so that a handler cannot take a column back behind what the checkpoint promises; a second pass
can (`straggled`), which is the exception. `Recorded` says that the whole log, read so, is the
contract's record: every transaction emits the event that tells what it changed. At rest the
checkpoint is the length of the log, and the row is the record. The creation comes first in the
log and only once (`Founded`), so that no later handler finds the row missing. The facts about
columns of a log are stated once, in `Sums`. What the page offers is then what the guards take,
computed from equal values.

**Shared tick.** `SiteRunsTheVault` and `SiteRunsTheCertifier` map each step of the
composition to a step of one contract or a stutter; the contracts' own invariants carry over.
The vault's money needs `GrantBooks`: what a grant gave out is what its released milestones
hold and, once reclaimed, a residue that covers the ones that were not. Nothing is paid
beyond that except a milestone that was under judgment when the residue left (`PaidLate`),
which is what `OverpaidOnlyLate` says. The certifier counts: the checks of a hash that heard
TRUE are those that are CERTIFIED, so that a certificate follows one from the other.
The grants' table adds where the others overwrite. What a grant gave out is therefore also a
sum along the log (`GoneBy`), and `VaultSite` compares the row with it: the milestones counted
are never fewer than the events before the checkpoint tell (`Counted`), the money is not less
either unless a pass straggled (`Covered`), and both are exact if nothing failed (`Exact`); once
the residue has left, the total is set and not added. The checks' table needs no order at all
(`CheckSite`): what an event says of its check stays true of it for good, so that passes may
overlap and repeat as they like.

**Backend.** `LogOK` ties the log to the registry: each event says what is still true of its
assertion, a record's verdict and end are in the log, in that order, after its creation.
`HandledOK` says what handling event *n* left behind, for every *n* that the checkpoint or
some pass has got past (`Handled`), and is kept by whatever happens later, late writes
included, because a verdict is never rewritten. `JobOK` says that past its transaction a
judgment's decision is the one on record, logged once at most. A throw or restart sets pass or
job back, to a state for which less is claimed. While no two passes were ever under way
together, the passes are one after the other (`Alone`), and only the judge's write can replace
a final outcome; with a straggler its handler can. Both are exceptions in `HandledOK`, and
they are those of `MirrorSettles`.

**Appeal worker.** `WorkOK` follows an attempt: before it opens the appeal it has cast
nothing; while it votes the appeal holds exactly its decisions so far, and no log is written
(logs exist for closed appeals only, and a closed appeal cannot be opened again); afterwards
the votes are its decisions, and the logs a prefix of them. A throw sets the attempt back but
leaves the appeal opened, so that no later attempt gets past `Open`. This part uses of the
chain only what `EscalationManager` does with an appeal. `ToldInv` joins it with the chain's
own invariant: the worker's steps are steps of `EscalationManager` (`ChainStep`), so that
`IInv`, proved of appeals above, holds here as well. `Counted`
says that the chain's tally is the count of what this attempt decided, from which
`PluralityAgrees` has that service and contract compute the same ruling; `PublicOK` keeps
it for logs, announcement and page after the job is gone, although the page's two parts were
read at different times: a final record does not change, and logs only grow.

**Site.** Five invariants, each for one part of the composition; what the other parts do to it
is a stutter.

* `CallsInv`: with the promise free no deposit is under way, and one under way does not exceed
  what is missing, so that however many callers wait for it, it is made once. A caller that
  stops after sending (`unheard`) is the exception the property has. A chat that was not
  settled has its call still under way, or a call whose answer had no body. The proof found
  the model wrong: "no ledger" was a balance of four minimum deposits, which deposits whose
  callers stopped can add up to; now it is below every balance. A run with one fault could not
  get there.
* `EvidenceInv`: what the browser is doing with a file says whether it is stored, registered and
  whose row it is, for each dialog; a retry of an upload replaces no root that was sent.
* `CourtInv`: an attempt past its transaction has the decision that is on chain, an attempt past
  its upload a stored transcript, row and pages show the ruling or nothing, and a job has a row.
* `WaitInv`: once there is a row nobody is refused for want of it. What a refused browser has left
  until it is answered, and what the judge has waited, together never exceed `LongestLag`.
* `WalletInv`: what each transaction under way was sent for and against which allowance, in nonce
  order; that receipts name the record that the form's own transaction created; and that what was
  spent on records and what is left are what the faucet gave, a sum over forms (`Sums`).
  Transactions of one wallet are mined in order, so that an approval that was heard of stays
  unless another form's comes between (`crossed`).

### Only model-checked

* Liveness: `DisputeEnds`, `JudgedOrGivenUp`, `VerdictsAreFinalised`, `ChallengeIsRuled`,
  `WatcherLearns`. Liveness under fairness is out of the prover's reach.
  Every other property that a passing run checks is a theorem.

## 6. Not modelled

* Of the judge token: `updateURLs`, roles, sealed keys (published, never read), proofs of a
  wrong length (they revert), and attestation, which the verifier leaves to a later version.
* The choice of a provider among those discovered, prompt wording, parsing beyond whether
  an answer holds a decision; how a file becomes text.
* Lists, the dashboard, the judges' directory, the health probe, the marketing pages,
  sign-in, and the caches of the site's fetches: they only read.
* Drivers, pools and migrations of the database, generated ABIs, mocks, end-to-end and
  maintenance scripts other than the wiring.
* `payPremium` of the insurance, which forwards ether and writes nothing; the deliver
  dialog's evidence, which is attached to nothing.
* Several instances of the service: the code supports one, see above.
* Ether or tokens sent straight to the escrow, the vault or the certifier: they add to a
  balance that nothing there compares with what is owed. Ether sent to the registry and the
  insurance is modelled.
* Re-entrancy: guarded by `nonReentrant` in every function that sends value.

## 7. Plan

1. Done: registry, promise, proofs of the registry; appeals; applications with their
   tables and pages; backend; appeal worker; a case through evidence, inference, storage
   and stream; the funding forms.
2. Done: proofs of every safety property that a passing run checks: registry, appeals and
   token owners, the four applications with their money, tables and pages, the backend's
   mirror, the appeal worker's record, the case and the forms.
3. Left: liveness, which stays with TLC; and what section 6 lists.
