# TLA+ models of USD8 core

USD8 is a stablecoin with an insurance protocol. Users who hold an insured
DeFi token earn *score*; when the token loses its value an *incident* is
opened, holders file claims against cover pools that liquidity providers (LPs)
fund, an enclave (TEE) computes who gets what, and the chain pays it out. This
directory models the parts of the repository whose correctness depends on the
order of events: who acts first, what is stale by the time it is used, and what
a crash leaves behind. All paths below are relative to the directory above the
repository, so the repository's own `src/` folder is `src/src/`.

## 1. Inventory

### On chain (Solidity)

| component | state it keeps | operations | interacts with |
|---|---|---|---|
| `DefiInsurance.sol` | incidents, claims, claim index per account, escrow and bond counters, settlement root and budgets, signer set, insured tokens | open, file, cancel, settle, correct, void, accept, decline, recover, governance, sweep | asks Registry for gates and snapshots; settles matured exits of the pools on opening; draws on pools through `payClaim`; records spent score in Registry; verifies settlements signed by the TEE |
| `Registry.sol` | payout module, pool list, beta and pause flags, fee share, timing, payout cap, spent score | registration, clearing, configuration, `recordScoreSpend` | decides *frozen* by asking the registered module for its active incident |
| `SingleAssetCoverPool.sol` | accounted assets, withdrawal and reward reserves, shares, exit queue of epochs, reward stream | deposit, mint, transfer, request, settle, complete, claim rewards, receive profit, pay claim, caps, sweep | asks Registry whether it is frozen or paused; paid by Treasury; pays for DefiInsurance |
| `Treasury.sol`, strategies | USDC reserve, strategies, profit receivers | mint, redeem, deploy, withdraw, harvest | mints and burns USD8; distributes profit to the pools |
| `USD8.sol`, `SharedBase.sol` | token balances; roles | ERC20; role checks, sweep | used by all |
| oracle, savings adapter, bootstrap | none or one-shot | pricing arithmetic, deployment | |

### Off chain (Rust)

| component | state it keeps | operations | interacts with |
|---|---|---|---|
| JSON-RPC client (`rpc.rs`) | counters | requests with retries, log ranges with bisection and receipt fallback, batches | used by everything that reads the chain |
| settlement kernel (`lib.rs`) | none | replay the claim set, allocate losses, Merkle root and proofs | called by the engine |
| engine (`engine.rs`, `chain.rs`) | none | build a settlement from archive state at pinned blocks | reads the chain, signed by the TEE |
| incident open (`incident_open.rs`) | none | find the reference block, attest that an incident may be opened | its signature opens an incident in `fileClaim` |
| score checkpoints (`checkpoint.rs`) | one authenticated file and its lock | lock, load, advance, save | used by the engine |
| job API (`job-api/`) | work records, admission ledger, requests, results, published settlements (one S3 bucket) | submit, poll, publish, launch workers | lambdas racing one another; EC2 workers; janitor |
| advisory cache (`open_advisory_cache.rs`) | one S3 object: reservation and last result | check whether an incident could be opened before a job is | the job API's open route |
| settlement verifier (`settlement_verifier.rs`) | none | check an uploaded result against the chain before it is published | called by the job API |
| score API (`score-api/`, `score-core/`) | row per account with lease and checkpoint, work budget (DynamoDB) | load, acquire, charge, replay, save | lambdas racing one another |
| enclave runtime, KMS | none | process plumbing, parsing, cryptography | gives verdicts to the job API |

### What is hard here

* **Phases and deadlines.** An incident has a claim phase, a settlement phase, a
  payout phase and a terminal window, and the freeze of all pools follows from a
  predicate over them. Resolving the last claim, the clock and the next opening
  race each other.
* **Values that are snapshotted and used later.** Fee share, phase window, pool
  list, caps, spent score and claim set are read at one time and used at
  another; governance, LPs and even a different payout module act in between.
* **Conservation under rounding.** Gross and net payouts, exit prices, receipts
  and streamed rewards all round; the last one to act must not find too little.
* **Conditional writes from concurrent lambdas**, which can die anywhere, whose
  launch requests may be accepted after their death, whose writes may arrive late
  or twice, and whose clocks differ.
* **A chain that is read call by call.** A settlement, an opening or a score takes
  hundreds of reads; blocks are mined between them, and the provider may truncate
  an answer or move to another chain in the middle.
* **Work continued from what an earlier run left behind**: a checkpoint file after
  a crash, a stored replay of yesterday, a cached scan of a minute ago.

`PROJECT.json` lists each of these as a hazard at the line where it bites, with
the properties that would catch it going wrong.

### What makes each component correct

* *DefiInsurance*: incidents never overlap; counters and indices are exact; what
  the active incident may still draw is in the pools; a signed settlement can be
  relayed at any time of its phase and pays every claimant in any order; score
  is never spent twice; escrow can always be returned; pools thaw, claims resolve.
* *SingleAssetCoverPool*: exits leave in order at one price per epoch; receipts,
  escrow and reserve agree; nobody is diluted by anything but a claim; rewards
  promised are funded; no matured exit can revert; every exit completes.
* *Job API*: worker and start limits hold against every race and every delayed
  launch; a denied attempt never runs; only the sealed result of the current
  attempt is published, its evidence is durable, and it does get published.
* *Treasury*: USD8 stays backed; profit distributed was really earned.
* *Kernel and engine*: a settlement is the one that the claim set, policy and
  prices of one chain give; every row has a proof; only authorized results are
  promoted.
* *RPC client*: what is returned is complete and ordered; every call ends.
* *Checkpoints, score API*: a score continued from stored state equals the score
  computed from the beginning, whatever crashed, forked or arrived late.
* *Incident open, advisory cache*: an attested drop really happened on one chain;
  scans are rare and jobs rest on fresh ones.

## 2. Modules

| module | what it is |
|---|---|
| `DefiInsurance` | claim life cycle, gates of the registry, the TEE's settlement |
| `MCDefiInsurance`, `DefiInsurance_*.cfg` | its instances for TLC |
| `DefiInsuranceProofs` | its theorems: the claim life cycle, and signed settlements |
| `SingleAssetCoverPool` | one pool: vault, exit queue, rewards |
| `PoolCapital` | abstract specification: what DefiInsurance relies on of a pool |
| `MCSingleAssetCoverPool`, `CoverPool.cfg` | its instance for TLC |
| `SingleAssetCoverPoolProofs` | its theorems: the exit queue, the books, the refinement |
| `JobService` | job API lambdas, the bucket they share, EC2 workers |
| `MCJobService`, `JobService_*.cfg` | its instances for TLC |
| `JobServiceProofs` | its theorems: sealing and publication, admission |
| `SumLemmas` | sums over finite sets and induction, used by the proofs above |
| `RpcClient`, `MCRpcClient` | the JSON-RPC client against an unreliable provider |
| `ScoreCore` | score arithmetic and replays, as operators, with reference definitions |
| `ScoreCoreProofs` | its theorems: what a replay and the raw integrals compute |
| `ScoreCheckpoint`, `MCScoreCheckpoint` | settlement runs sharing the checkpoint file; extends `ScoreCore` |
| `ScoreCheckpointProofs` | its theorems: the lock, the cursors, exact files and scores, sources that agree |
| `ScoreApi`, `MCScoreApi` | score lambdas sharing a table; extends `ScoreCore` |
| `ScoreApiProofs` | its theorems: leases, saves, rows and exact scores |
| `SettlementKernel` | claim-set replay, allocation and Merkle tree, as operators |
| `SettlementRun`, `MCSettlementRun` | engine and verifier reading a moving chain; extends `SettlementKernel` |
| `IncidentOpen`, `MCIncidentOpen` | advisory cache, open jobs and the enclave's attestation |
| `IncidentOpenProofs` | its theorems: the advisory cache, and attested drops |

A definition whose comment says *Mutated form* is a plausible bug in the
definition that follows it. No specification uses it; it exists so that it can
be put in place of the original to see the property it belongs to fail.

### `DefiInsurance`

One step is one Ethereum transaction, which is atomic; a revert is a step not
taken, so every `revert` and every checked subtraction is a conjunct of a guard.
Only `Tick` moves the clock. The correspondence:

* `incidents`, `claims` are the two mappings with ids from 1. `unresolvedClaims`,
  `phaseDeadline`, `resolvedAt`, `claimIdOf` are the contract's fields. `root`
  says who committed the current root (`none`, `tee`, `admin`), `rows` is the
  row the Merkle root proves for each claim (`NoRow` when it proves none): the
  tree is taken to be binding, so a root *is* its rows.
* `claimSet` is the sequence of `+id` and `-id` that the rolling hash commits to.
* `LiveAt` / `ActiveIncidentId` are `activeIncidentId`; `PayoutIncidentActive` is
  the registry's freeze.
* `SignSettlement` is the engine: phase checks, replayed claim set, and archive
  reads at the open block (`capAtOpen`, `spentAtOpen`). How losses are divided
  is left open: `Attested` is what the kernel guarantees per row and per pool.
  The engine is deterministic, so one signature per incident exists.
* `FileOpeningClaim` is `fileClaim` with a TEE open signature, `FileClaim` is
  `fileClaim` during the claim phase, `OpenClaimIncident` is the admin opening.
* Opening settles matured exits of the listed pools, which may take assets out:
  `MaturedExitsSettled`. A delisted pool is not settled.
* `PoolFlow` is everything LPs do; its guard (not while frozen) is discharged by
  `CapitalContract` below. `OtherModulePays` is a replacement payout module.

Abstractions: scores, rows and amounts are small numbers with the contract's own
integer division (`Bps = 10` keeps rounding visible); PCR allow-lists,
eligibility hashes and the age of the reference block are folded into "a
signature exists"; the booster configuration is taken to be set. Pause blocks
opening, filing, settling and accepting only, as in the code. Callbacks during
token transfers are not interleaved.

### `SingleAssetCoverPool`

One step is one transaction. Of the registry the pool sees `paused`, `frozen`
and `exitTiming`; `OpenIncident` (which settles matured exits first when the pool
is listed) and `CloseIncident` stand for DefiInsurance, and `PayClaim` needs
`frozen`, which the theorem `PaidWhileFrozen` justifies. OpenZeppelin's ERC-4626
conversions are external but kept with their rounding and virtual share.
Settlement of a queue prefix is a fold over the epochs (`Settled`), and
`StopsAfter` says how far a bounded settlement gets. `ShareLimit` is the headroom
below the largest `uint256`. Allowances and permits are left out: an action is a
call by the owner.

### `PoolCapital`

Four actions: capital flows freely while not frozen, a freeze can only release
capital, claims reduce it, a thaw leaves it. `SingleAssetCoverPool` implements it
(`CapitalContract`), which is exactly what `PoolFlow`, `MaturedExitsSettled` and
`AcceptPayout` of `DefiInsurance` assume of a pool.

### `JobService`

Invocations are processes that share a bucket; one step is one call to the bucket
or to EC2 together with the local decisions up to the next call, so that any two
invocations interleave between a read and the write based on it. An invocation's
program counter is `at[p]`; `read`, `mine`, `ledgerRead`, `kept` and `time` are the
local variables of `submit_canonical`, `reserve_worker`, `poll` and
`publish_settlement`.

* `work`, `requests`, `terminal`, `completions`, `completionRequests`, `settlements`
  and `ledger` are the key prefixes of the bucket. A job is a work and a
  generation, from which its id is derived. `NoWork` is an absent record, 0 an
  absent request (no clock ever reads 0).
* A revision is an ETag, hence the content: `Exchanged` succeeds when the object
  still equals what was read.
* A call that fails, before or after taking effect, ends the invocation: `Abort`,
  possible everywhere. So is a crash.
* `LaunchBefore` sends RunInstances; EC2 may `Accept` it, also after the sender's
  death, or `Drop` it. The client token makes a second launch of a job harmless.
  `Terminate` is the janitor, a shutdown or a crash of the instance.
* The safety contract written in `admission_reconciliation.rs` is an assumption on
  constants: an invocation lives no longer than the fence (900 s), and the
  configured ambiguity covers late acceptance plus clock lag. Without a
  configured ambiguity, or with cost-only admission, nothing is assumed about lag.

Abstractions: settlement requests only (open requests skip verification and
publication); verification is its verdict; a valid result of an incident has one
root, so one locator per work; the 16-try limits of the loops, `MAX_RESERVATIONS`
and legacy reservations without a time stamp are left out; the slots of one
inventory query are queried in one step; the capability object is left out.

### `RpcClient`

One step is one transport attempt with the local decisions up to the next one, for
one call of `get_logs_chunked` or `batch_request`. `pending` is the stack of ranges,
`requests`, `bisections` and `attempts` the budgets of a chunk; the attempt counter
belongs to the client, so `OtherReader` may consume it. The provider (`GetLogsAnswers`
and the like) returns the truth in any order, cut at its own cap, with a log repeated,
removed or foreign; a block that is not the one asked for; receipts that do not match;
batches with members missing, repeated or failed. Errors are the classes that
`retryable` and `range_limited` tell apart. Assumed (`RpcAssumption`): the configured
result cap is at most what the provider returns, otherwise a cut answer cannot be told
from a complete one.

### `ScoreCore`, `ScoreCheckpoint`, `ScoreApi`

`ScoreCore` has the integer arithmetic of `score-core` (account, rate segments, deferred
rounding), the sliced replay of `checkpoint.rs`, and the integrals and minimum balances
of `chain.rs`; `ReferenceNumerator` and `ReferenceMinimum` define directly, block by
block, what they should give. Decimals are kept with `Base` and `Digits` in place of
10 and 18, so that both scaling directions round. The loops of the replay
(`advance_segments`, `apply_slice`, `apply_slices`, `apply_deltas`, `add_areas`, and
`apply_transfers` of `ScoreApi`) are recursive functions over the index, which TLC evaluates and the provers can use.

`ScoreCheckpoint` follows settlement runs: lock, load, one step per token, scores, write,
rename, directory sync. A file is its content, the key that authenticated it, and
whether its bytes were synced; `PowerLoss` keeps either the renamed or the durable file
and damages an unsynced one; `Die` leaves the lock, `ClearLock` is the operator. Between
runs the operator may move to a node on another chain (once). `balanceOf` may change
without a transfer (`RebaseAt`), which the code must detect. `ChainAssumption` says what
a chain is: logs in block order, none in the first block, amounts and rates that are
natural numbers, accounts that are not the zero address, and nobody who sends more than
he has (`Solvent`), which an ERC-20 token does not allow; what a rebase has added counts
from the block after it.

`ScoreApi` follows invocations of the score lambda between their DynamoDB and provider
calls. `row` is an account's item, `writes` are saves on their way, which can arrive
after their sender's death or twice. Clocks differ by `Lag`; `ScoreApiAssumption` says
how much: a request's timeout plus the difference stays below lease plus cooldown.
The code enforces the timeout below the lease, the bound on clocks is the deployment's.
`ScoreChainAssumption` says what both chains have in common: logs in the order of blocks,
rates that pass `validate_rates`, and nobody with a negative balance, which an ERC-20
token does not allow.
The re-read after a lost lease is part of the step that loses it. Not in the model: the
retry without a snapshot when the provider has no state for its cursor, the list route,
the version of the snapshot format, the HTTP layer.

### `SettlementKernel`, `SettlementRun`

Hashes are symbolic (a hash is what was hashed). The kernel is kept for one pool and
without boosters, with its divisions. `SettlementRun` has a chain whose blocks are
sequences of transactions; `StateOf` is the incident at a block. `Begin` to `Confirm`
are the reads of `build_settlement` in their order, each at its own block; `Delivered`
loses or repeats a log; `Switch` moves the provider once to a chain whose later blocks
are empty. A result is signed by a key of the enclave, relayed into the chain through
one of several call shapes (directly, by a wrapper, by a wrapper whose first try
reverted), corrected, voided, and uploaded, unchanged or changed, to the verifier
(`VerifyCandidate` to `Promote`), which reads the chain in the same way. A run and a
verification share only the chain and take turns. The reads that fix the two anchor
blocks are one step (`Anchor`). A frame of a trace is a call of the module or not: its
type and its target are not apart. A price that is too old ends a run without a
signature (`PriceUsable`); prices of this instance are never that old.

### `IncidentOpen`

The enclave's `build_incident_open` reads the finalized block, the head, the contract
and the ratios, and checks both hashes again. The cache's check is a step per S3 or
provider call; the precheck scan is one step, since its own hash checks confine it to
one chain. Time passes only in the cache, where it matters. A cached result's
configuration is compared before and after its scan, not with the scan's own reads,
which is harmless: the worker of the job discovers the drop again. All invocations read
one clock, where the code reads the time of each host
(`src/offchain-rust/job-api/src/bin/lambda.rs:84`); hosts whose clocks differ are in
`JobService` and `ScoreApi` only. A run has one opening and
one job, so checks and builds that meet an active incident are left to the proofs.

## 3. Runs

`tlc -workers 2 -config <cfg> <MC module>`; every bound is a named constant.

| run | instance | shows |
|---|---|---|
| `settlement` | 2 users, 1 incident, any number of corrections, unending time, 2 fee shares | exact counters, a TEE root pays everybody in any order, a used root is never replaced; pools thaw and claims resolve if corrections end |
| `policy` | 1 user, caps, windows, bonds, pools, tokens, signers all changing, donations and sweeps | budgets stay covered; a signed settlement never goes stale in its phase; the module holds what it owes |
| `incidents` | 1 user, 2 incidents, 3 claims, pauses, module replaced and put back | incidents never overlap, the spent score read at opening stays current, score is never overspent |
| `pool` | 2 LPs, asset = USD8, 2 timings, 1 incident with a loss, profit, cap, donation, pause | queue order, receipts and reserves, rewards funded, everything held at once, no dilution, the capital contract, every exit completes |
| `job_workers` | 2 lambdas, 2 incidents, 1 worker slot, EC2 late by 1 | no slot is reused under a delayed launch |
| `job_clocks` | 2 lambdas, one 3 units behind, 2 incidents, 1 start per window | the budget holds; a denied attempt never runs |
| `job_completion` | 2 lambdas, 1 incident, 2 generations, polls, expiry | only the sealed attempt is published, evidence first, publication happens |
| `rpc` | 4 blocks, 4 kinds of content, 6 reads and 3 batches, caps 2 and 3, 1 retry, 2 bisections | answers are complete and ordered; calls end |
| `score_checkpoint` | 2 runs, 2 tokens (one rebases), 2 accounts, 2 histories, 2 keys, blocks 2 to 4, a fork at 3 | incremental scores are exact, three sources agree, the file survives, cursors never go back |
| `score_api` | 2 lambdas, 1 account, 2 tokens, 2 days, a fork at 7, 1 attempt per budget window | saved scores are exact, served scores were saved, rows never go back, one replay at a time |
| `settlement_run` | 3 claims of 3 users, 7 blocks, 2 keys, 2 policies and prices, a fork after 3 | a settlement is the one of a single chain, rows are provable, promoted results are authorized |
| `incident_open` | 2 invocations, 2 histories, 2 policies, 14 blocks sampled every second, a fork after 12 | attested drops are real, scans never overlap, jobs are fresh |

Every property has a mutant in `PROJECT.json`: a plausible bug in one definition under
which TLC finds the property violated.

Why the bounds suffice. Two claimants make order matter; a second incident is enough for
overlap, because only the last one can be active; three claim ids allow cancel
and re-file. `MaxTime` lies past the terminal deadline of the last incident that
can open (`OpenUntil`). In `settlement` time has to go on after `MaxTime`, since each
correction sets a new deadline: there (`UnendingSpec` of `MCDefiInsurance`) the clock
stays and the deadline comes closer instead, which keeps their distance, the only thing
that the contract compares once the time to settle is over. Two LPs and two requests
per epoch or epoch pair give
first and last receipt; two timings in both orders give the overtaking request;
`RequestUntil` leaves time for the last epoch to end. Deadlock checking is off in
the contract runs, in `settlement_run` and in `incident_open`, because they end when
the clock or the chain has reached its bound; it is on in the others.

In the job runs two invocations are enough for every race the code describes (an
owner and the one that replaces it), and a limit of one worker or one start makes
each overshoot visible with two works. `MaxTime` lets a slot age past deadline,
fence and ambiguity (`job_workers`), the window pass and a slow clock come back
(`job_clocks`), and an attempt expire and be replaced (`job_completion`). There
time does not pass during an invocation (`Lifetime = 0`), but any number of
invocations interleave at each instant, before and after expiry.

In `rpc` a block holds more than the cap, as much as the cap, or less. With a cap of 3
an answer of two logs is accepted, so an answer in the wrong order has to be sorted and
one log sent twice has to be refused; `AnswerIsComplete` has a mutant for each of the
two and one for the comparison with the cap. Four blocks need
two bisections, one more than a chunk of two does, and the budget of requests and of
attempts runs out in some behaviours. In `score_checkpoint` ranges of two blocks put
transfers on both sides of a slice's edge, a rate begins in the middle of a slice, and
two runs give every order of writer and successor. In `score_api` the two days give one
continued replay and one refresh, lease, cooldown and timeout all pass in the three
units of time after the start, and the fork falls between the two reference blocks. In
`settlement_run` three rows make an unbalanced tree; a cancel, a market change, a
rotation, a settlement, a correction or void and a resolution may each happen once, in
all orders that the contracts allow. In `incident_open` the window holds two samples on
each side and the candidate itself, and the histories have a deepening drop and two
separate ones; a second policy sees drops that the first does not.

Symmetry is used for users, works and lambdas with equal clocks in safety runs
only, and never in liveness runs.

### Fairness

* `DefiInsurance`: `WF(Tick)`, because blocks keep coming, and `WF(Leave(k))`: a
  claimant who can decline or recover eventually does. Nothing is assumed of
  relayers or the TEE. Of administrators `PoolsThaw` and `ClaimsResolve` assume one
  thing, which they state (`FinitelyManyCorrections`): no incident is corrected for
  ever. It is needed. In beta mode `adminCorrectSettlement` with a nonzero root starts
  a fresh window (`src/src/DefiInsurance.sol:735`), as often as it is called in time, and
  without the assumption TLC finds both properties violated by administrators who never
  stop. The model has no limit on corrections. After `endBetaMode` the assumption holds
  by itself. `ClaimsResolve` has one exception, stated in it: a claim for which an
  *admin-corrected* root has no usable row (`Stranded`); its owner gets the escrow back only if the module is deregistered.
* `SingleAssetCoverPool`: `WF(Tick)`; `WF(CloseIncident)`, which is `PoolsThaw` of
  the run `settlement`, with its assumption on corrections; `WF(SetPaused(FALSE))`:
  governance lifts a pause; and
  `SF(CompleteRedeem(u))`: an owner who can collect again and again does so once.
* `JobService`: `SF(Submit(p, w))`, because clients ask again until they have a
  result (the API's contract is to be polled or re-submitted); `WF` of an
  invocation's own steps, because a lambda that is alive runs; and failures end:
  from some time on an invocation stops only where the code answers. Nothing is
  assumed of EC2, workers or time.
* `RpcClient`: `WF(Step)`: the call is awaited, and every attempt ends, with an
  answer, an error or the client's own timeout. Nothing is assumed of the provider.


### Findings

The claim lifecycle in `src/README.md` gives the correction phase "3 days from when the
result is submitted" (line 135) and says of the pools' freeze (line 148): "That ends as
soon as every claim is resolved, or at the latest end above, whichever comes first." That
is four phases after the opening. In the code every correction starts the window again
(`src/src/DefiInsurance.sol:735`, and the comment on `adminCorrectSettlement` says so), so
one correction can already keep pools frozen for a fifth phase, and more for longer. The
correction is meant; the sentence on the freeze leaves it out.

`src/README.md` line 198 says "You can have one claim at a time." The code keeps
one claim per account *and incident*: a claim left open when its incident expires
stays open (its escrow recoverable) while the same account files in the next
incident, as `fileClaim` (`src/src/DefiInsurance.sol:549`) looks up the claim of this
incident only. Nothing is lost by it; the sentence is stronger than the code. No other
disagreement between the code and its documents was met.

## 4. Proofs

TLAPS proves the following for all values of the constants that satisfy the named
assumptions (`ConstantsAssumption`, `PoolConstantsAssumption`, `JobConstantsAssumption`,
`ScoreApiAssumption`, `ScoreChainAssumption`, `OpenAssumption`, `ScoreCoreAssumption`,
`CheckpointAssumption`, `ChainAssumption`), which TLC evaluates in every run of the module.
TLC has checked each inductive invariant on the instances of the runs before it was proved. `PROJECT.json` lists the theorems and the run property
each one states.

### `DefiInsuranceProofs`

The inductive invariant is

    Inv == TypeOK /\ IndexSound /\ UnresolvedMatchesClaims /\ OpenClaimIsIndexed
             /\ EarlierIncidentsClosed /\ BudgetBacked /\ SpentUnmoved

`IndexSound` (an index entry points to a claim of that user and incident) is
needed because a cancel writes through the index. `SpentUnmoved` strengthens
`SpentSnapshotFresh` to *every* user as long as the incident has no root: whoever
may still join it must find the spent score unmoved.
`BudgetBacked` and `SpentUnmoved` survive deregistration because the module can
only be registered again when it has no active incident.

The argument has one lemma per kind of step: *static* steps leave incidents alone
and use that `LiveAt` never becomes true again with time; *resolutions* remove
one open claim and shrink a budget by what the pool pays; *commit and void* put a
budget under caps that are fractions of the assets, or end the incident (the
window is shorter than `StartTime`, an assumption on constants that holds since
block time is decades past the epoch); *opening and filing* add one record.

Consequences: `TypeCorrect`, `UnresolvedExact`, `OneOpenClaimPerIncident`, `NoOverlap`,
`BudgetAlwaysBacked`, `SpentAlwaysFresh`, `PaidWhileFrozen` (an action property).

The second part of the module is about signed settlements:

    FullInv   == Inv /\ LedgerInv /\ NoneRecovered /\ CapFrozen /\ CustodyBacked
    LedgerInv == PhaseSound /\ FinalizedUnderRoot /\ SignedSound /\ TeeRootSigned
                   /\ TeeRootFunded

`SignedSound` is what the engine's signature guarantees for the claim set it names,
and `TeeRootSigned` that the rows of a TEE root are those of a signature.
`TeeRootFunded` is the sum form of "everybody can be paid": the draws of *all* open
claims together fit into what is left of the budget, which an acceptance preserves
because both sides lose the same draw. A signature is made from the caps and the spent
scores at `openBlock` and relayed later: `CapFrozen` (the caps have not moved while
there is no root, because pools are frozen and the policy is locked) and
`NoneRecovered` (claims leave by cancellation only, which changes the claim set) bridge
the time between. `CustodyBacked` is inductive with the exact counters of `Inv`.

Consequences: `CustodyAlwaysBacked`, `SignedAlwaysRelayable`, `TeeRootAlwaysPays`, and the
action properties `ScoreWithinEarned` and `UsedRootsAreFixed`.

### `SumLemmas`

The models sum rows, receipts and rewards with folds over finite sets. The provers
cannot use the library's induction theorems, which take an operator as a parameter,
but they can use that a nonempty set of naturals has a smallest element, which is
first order. With it `SumLemmas` derives that a fold over a finite set is the sum its
name says: one more element adds its value, a changed value changes the sum by the
difference, parts add up. The settlement loop of the pool, the window filter of the
job ledger, the sliding window of `discover` and the loops of the score replay are
recursive functions that are handled in the same way: the function that the equation
defines exists because its values can be computed one index after the other.

### `SingleAssetCoverPoolProofs`

    QueueInv   == QueueType /\ JoinedIsQueued /\ Ordered /\ EndedBy
    AccountInv == QueueInv /\ AccountType /\ RequestsHaveEpochs /\ QueuedWhenJoined
                    /\ EscrowIsQueued /\ ReserveIsOwed /\ PoolBacked
    RewardInv  == RewardType /\ RewardOrder /\ Funded(...)
    PoolInv    == AccountInv /\ RewardInv

The queue is strictly increasing, the settled prefix lies in the past, and every
queued epoch has shares. The last part is what makes "pushed once" inductive:
the code pushes an epoch when its `totalShares` is zero. A request lands at or after
the tail when something is outstanding, and strictly in the future because the
cooldown is positive. `ExitsInOrder` is the property `ExitQueueOrdered`.

The books rest on it: the escrowed shares are the sum over unsettled epochs
(`EscrowIsQueued`), the reserve is the sum over settled ones (`ReserveIsOwed`), and an
epoch without open shares owes nothing, because the last receipt takes what is left
and the rounding of the earlier ones is not lost. Settling a prefix moves
epochs from one sum to the other; every single settlement takes at most what there is
and leaves the price where it was or higher (`FloorPayout`). Rewards are kept scaled:
`Funded` says that the reserve covers accrued rewards, the unsettled share of every
balance and the rest of the stream, and that rounding goes to the reserve.

Consequences: `ReserveIsReceipts`, `PoolAlwaysBacked`, `RewardsAlwaysFunded`,
`NobodyDiluted` (an action property) and `PoolKeepsContract`, the refinement of
`PoolCapital`: each step of the pool is a step of the abstract specification or
leaves its state alone.

### `JobServiceProofs`

    SealInv == SharedType /\ LocalType /\ (stored attempts are dated)
                 /\ SealedHasEvidence /\ PublishedIsSealed /\ \A p : LocalInv(p)

`LocalInv(p)` says what invocation `p` may rely on at each place: whoever claims,
denies or marks a launch holds a record that is *not* sealed (`Unsealed`), whoever
seals has retained result and request (`Evident`), whoever publishes sees its own
attempt sealed (`Sealed`). It survives the steps of all others because sealed
records, retained results and retained requests never change (`Durable`; the
request needs the creation time to be non-zero, which is why attempts are
*dated*). Consequences: `EvidenceBeforeSeal`, `OnlySealedIsPublished` and
`SealsAreFinal`, an action property, for any number of incidents, invocations and
generations, any clocks and any delays.

    AdmissionInv == SealInv /\ AdmissionType /\ LedgerRemembers /\ BudgetNeverExceeded
                      /\ LaunchesTimely /\ Distinct /\ OneDeadline
                      /\ \A p : Timely(p) /\ Claiming(p) /\ Counts(p)
                      /\ ResultsAreEarned /\ TouchedIsHeld /\ DeniedUntouched /\ Slots

`LedgerRemembers` says that the ledger holds the latest charges and has forgotten only
those that were outside the window at its last write, so that counting its entries is
counting charges. `Counts(p)`: a reservation that an invocation leaves out of its next
ledger is past its fence and, under a limit on workers, that of a finished launch.
`TouchedIsHeld` and `DeniedUntouched` are the two sides of a denial: a job that EC2 was
or may be asked for has its reservation in the ledger, or the ledger is too late for
anyone to be denied, and a denied job was never asked for. `Slots` gives every worker
and every launch under way a reservation in the ledger; `Timely(p)` and `LaunchesTimely`
bound the time of the launch by the lifetime of the invocation and the delay of EC2, so
that no slot is taken away before. Consequences: `StartsWithinBudget`,
`DeniedIsNeverLaunched`, `WorkersAlwaysBounded`.

### `ScoreApiProofs`

    ApiInv == ApiType /\ \A u : RowSound(u) /\ \A p : CallSound(p)
                /\ \A w \in writes : WriteSound(w) /\ Generations /\ ServedWasSaved

`CallSound(p)` has three parts: what was read is what the row still holds unless its
version has moved on (`Loaded`); the day and block to be saved are not before those that
were read (`Forward`, which needs that days do not overlap and that only a refresh
computes a day again); and whoever holds an older generation than the row has timed
out, while the current holder's cooldown is in the row (`Leased`). An invocation gets
the lease after the cooldown of the last holder, whose timeout has then passed on every
permitted clock: this is where the assumption on clocks is used. `WriteSound` says that
a save under way belongs to nobody who still works and may only replace the version it
was computed from. Consequences: `ServedAlwaysSaved`, `OneLiveReplay`, and the action
property `RowsMoveForward`. There what a replay computes is opaque.

    ScoreInv == now, finalized, fork in range /\ (\A s \in saved : PayloadOk(...))
                  /\ (\A w \in writes : PayloadOk(...)) /\ \A p : CallExact(...)

The second part opens it, with the closed form of `ScoreCoreProofs`. A stored checkpoint
of a token is the exact account at its cursor on one of the two chains, the one whose
hash it carries (`Made`); replaying the account's own logs from there, or from
`balanceOf` at the first block that counts, gives the exact account at the target, for
`score_token` continues only under an equal hash and rates that were extended after the
cursor (`MadeFork`, `MadeLonger`, `MadeNext`, `MadeNew`). The two replays of an invocation
may each have been made on either chain, but on none older than its anchor's (`Since`);
the hash that is compared after them puts both on the chain of the reference block
(`CallExact`). The payload is then exact (`PayloadExact`), and its parts, each rounded down and
the last one taking the rest, are not negative and add up (`PartsAddUp`). Consequence:
`SavedScoresAreExact`.

### `IncidentOpenProofs`

    CacheInv == CacheType /\ RecordSound(record) /\ \A p : CheckSound(p) /\ Apart
                  /\ JobsAreFresh

Reservations are `Hold` apart (`Apart`): an invocation writes its reservation over
exactly the object it read, in which the last reservation was `Hold` old, and every
earlier one is older, which `CheckSound` records as "the object's attempt is not before
mine". A publication keeps the attempt's time, and a write that outlives its sender is
one of these two. Every snapshot, in the object, in a copy of it or under submission, is
a finished scan's. Consequences: `ScansNeverOverlap`, from the budget being at most
`Hold`, and `JobsAlwaysFresh`. There what a scan finds is opaque.

    BuildInv == ChainOk /\ BuildShape(build) /\ BuildSound /\ AttestedDropIsReal

The second part opens it. The running sums of `discover` are the sums of the windows
they stand for, so that a candidate is recorded exactly when the reference definition
has a drop there, and the last one recorded is the beginning of the last drop.
`BuildSound` says what a build knows at each place: as long as the provider has not
changed, everything read is the chain's; once it has, the finalized block's hash or the
head's no longer compares equal and nothing is attested. Consequence: `DropsAreReal`.

### `ScoreCoreProofs`

The running state of an account has a closed form, `At(a, h, rates, dec, T)`: with `h[b]`
the balance at the end of block `b`, `done` is the sum over the finished segments of the
normalised area times the rate, and `integral` is the area of the segment that runs at
`T`. Advancing by one segment, by all of them, and from one block to another keeps the
form (areas of adjacent intervals add up; a segment is normalised once, when it ends,
which is what makes the result independent of where the work is cut). A log changes the
balance of its two accounts and nothing else; a slice applies the logs of its blocks; the
slices of `advance_token` partition the blocks after the cursor. So an account that has
been replayed is a function of history and block (`Standing`), for any cut into slices
and runs, and the numerator is `ReferenceNumerator` (`ReplayIsExact`). Rates that are
added after the cursor do not change it (`Longer`), and neither do transfers after it
(`SameUntil`).

The sources of `chain.rs` and the bulk replay begin at what `balanceOf` gives for a block
and add logs from there on. The balances they believe in (`Believed`) are the token's
until the end exactly when no rebase changed the account's balance in between
(`Smooth`), and that is what the last comparison with `balanceOf` decides. The loop of
`token_block_integral` is the same closed form for a token without rates; the bulk replay
is the replay above from another start (`Carried`); that neither underflows follows from
`Solvent`. The minimum that `apply_deltas` keeps ranges over the account's own logs only,
and the others repeat a balance (`CandidatesAre`). Results: `RawIs`, `BulkIs`,
`MinimumIs`.

### `ScoreCheckpointProofs`

    StoreInv == StoreType /\ LockHeld /\ Ahead

Whoever is past the lock made the lock file (`LockHeld`), also after deaths, power
losses and an operator who clears the lock of a dead run; and a run that has loaded the
file is at least as far as the file for every token (`Ahead`). Consequence:
`CommitsMoveForward`, an action property.

    ExactInv == WorldOk(...) /\ (\A p : TokensExact(mem[p], ...) /\ RunExact(...))
                  /\ FileExact(file, ...) /\ FileExact(durable, ...)

Every token that a run or a file holds is `Standing` at its cursor on *one of the chains
so far*, the one whose hash it carries, under rates that the Registry has only extended
after the cursor (`TokenExact`). A file keeps this while it lies there, also when the
chain is replaced; a run that continues it compares the hash, and equal hashes mean equal
transfers up to that block. What is renamed was synced, so a power loss never leaves
damaged bytes. `RunExact` says that whatever has left `todo` is indexed up to the run's
own block. Consequences: `CheckpointsSurvive`, and `ScoresAreExact`: the last step shows
that a balance that agrees with `balanceOf` at the end leaves no room for a rebase that
touched the account before. `SourcesAlwaysAgree` applies `RawIs`, `BulkIs` and
`MinimumIs` to every reachable chain, the replaced one included (`ForkedSolvent`).

### Model-checked only

Liveness (`PoolsThaw`, `ClaimsResolve`, `ExitCompletes`, `SealedIsPublished`, `CallEnds`) is
outside this prover. These safety properties rest on what sorting, filtering and folds
over sequences compute, and are model-checked only:

* `AnswerIsComplete`: `RpcClient` flattens, filters and sorts the answers of a stack of
  ranges.
* `SettlesTheChain`, `RowsProvable`, `PromotedIsAuthorized`: the claim-set replay, the
  allocation, the sorted Merkle tree, and an engine and a verifier that read the chain
  through them.

## 5. Not modelled

* Treasury and strategies: minting, redeeming and harvesting do not touch the claim
  path; only the profit that reaches a pool appears, as an input.
* Callbacks in the middle of a transaction (token hooks).
* Boosters and several pools in the kernel; minimum ERC-1155 balances; the decoding of
  price feeds, pool topology and code checks in the engine.
* `setSettlementParams` and coverage terms, roles, addresses: data that only
  the abstracted signature check reads.
* Oracles, adapters, bootstrap: stateless arithmetic or deployment helpers.
* KMS envelopes, attestation documents, serialisation, HTTP layers: byte-level parsing
  and cryptography; the models use the verdict.

## 6. Plan

1. `DefiInsurance`, `SingleAssetCoverPool` with `PoolCapital`, and `JobService`, with
   their proofs (done).
2. `RpcClient`, `ScoreCheckpoint`, `ScoreApi`, `SettlementRun` and `IncidentOpen` with the
   operators of `ScoreCore` and `SettlementKernel` (done).
3. Proofs of the protocols: settlement, custody, pool books and refinement, admission,
   score API, advisory cache, checkpoint lock (done).
4. Proofs about what is computed: attested drops, replayed scores, checkpoint files,
   saved scores, raw integrals and the bulk replay (done).
5. Next: the claim-set replay of `SettlementKernel` and with it `PromotedIsAuthorized`.
6. `Treasury`: mint, redeem, harvest against gains and losses of strategies; backing as
   an invariant. Callbacks during transfers as separate steps of `DefiInsurance`.
