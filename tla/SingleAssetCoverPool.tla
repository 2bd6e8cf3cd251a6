------------------------ MODULE SingleAssetCoverPool ------------------------
(***************************************************************************)
(* One cover pool, src/src/SingleAssetCoverPool.sol: an ERC-4626 vault     *)
(* whose exits are queued in epochs, whose capital pays claims, and which  *)
(* streams USD8 rewards to the shares that are not leaving.                *)
(*                                                                         *)
(* One step is one transaction.  Of the registry the pool sees its pause   *)
(* flag, the exit timing and whether an incident is active (frozen); when  *)
(* an incident opens, DefiInsurance first settles the pool's matured exits.*)
(***************************************************************************)
EXTENDS Integers, Sequences, FiniteSets, SequencesExt, FiniteSetsExt

CONSTANTS
    Users,           \* accounts that hold shares
    Asset, Usd8,     \* the staked asset and the reward token; they may coincide
    VirtualShares,   \* 10 ** _decimalsOffset()
    ShareLimit,      \* type(uint256).max - VirtualShares
    RewardScale,     \* REWARD_SCALE
    AssetAmounts, ShareAmounts,        \* amounts users deposit, mint, move, redeem
    Payouts, Profits, Donations,       \* claims paid, USD8 distributed, stray tokens
    Caps, Durations, Timings,          \* values governance chooses among
    PauseChoices,                      \* pause flags set
    SettleLimits,                      \* maxEpochs of a permissionless settlement
    RequestUntil, MaxEpoch, MaxTime, MaxIncidents, MaxHeld  \* bounds

Tokens == {Asset, Usd8}
Epochs == 1 .. MaxEpoch

ASSUME PoolConstantsAssumption ==
    /\ IsFiniteSet(Users)
    /\ VirtualShares \in Nat \ {0} /\ ShareLimit \in Nat
    /\ RewardScale \in Nat \ {0}
    /\ AssetAmounts \subseteq Nat /\ ShareAmounts \subseteq Nat \ {0}
    /\ Payouts \subseteq Nat \ {0} /\ Profits \subseteq Nat \ {0}
    /\ Donations \subseteq Nat \ {0} /\ Caps \subseteq Nat
    /\ Durations \subseteq Nat \ {0} /\ SettleLimits \subseteq Nat
    /\ Timings \subseteq [unstakeCooldown : Nat \ {0}, exitBatchInterval : Nat \ {0}]
    /\ PauseChoices \subseteq BOOLEAN
    /\ RequestUntil \in Nat /\ MaxEpoch \in Nat /\ MaxTime \in Nat
    /\ MaxIncidents \in Nat /\ MaxHeld \in Nat

VARIABLES
    now,                       \* block.timestamp
    frozen, incidentCount,     \* Registry.payoutIncidentActive; incidents so far
    paused, exitTiming,        \* Registry.paused(pool), Registry.exitTimingConfig
    accountedAssets, withdrawalReserve,
    held,                      \* token balances of the pool
    balanceOf, escrowedShares, \* shares of users, shares held by the pool itself
    exitRequests, exitEpochs, exitEpochQueue, nextExitEpochIndex,
    depositCap, rewardsDuration,
    stream,                    \* rewardRate, periodFinish and the accumulator
    rewardReserve, rewardState

envVars    == <<now, frozen, incidentCount, paused, exitTiming>>
policyVars == <<depositCap, rewardsDuration>>
exitVars   == <<exitRequests, exitEpochs, exitEpochQueue, nextExitEpochIndex,
                withdrawalReserve, escrowedShares>>
rewardVars == <<stream, rewardReserve, rewardState>>
vars == <<envVars, policyVars, accountedAssets, held, balanceOf, exitVars, rewardVars>>

-----------------------------------------------------------------------------
(* Shares and assets *)

EarningShares == MapThenSumSet(LAMBDA u : balanceOf[u], Users)
TotalSupply   == EarningShares + escrowedShares

CeilDiv(a, b) == (a + b - 1) \div b

ToShares(assets) == (assets * (TotalSupply + VirtualShares)) \div (accountedAssets + 1)
ToAssets(shares, assets, supply) == (shares * (assets + 1)) \div (supply + VirtualShares)

\* Mutated form: minting rounds in favour of the minter.
MintRoundedDown(shares) == (shares * (accountedAssets + 1)) \div (TotalSupply + VirtualShares)

PreviewMint(shares) == CeilDiv(shares * (accountedAssets + 1), TotalSupply + VirtualShares)

ShareHeadroom == IF ShareLimit > TotalSupply THEN ShareLimit - TotalSupply ELSE 0
CapHeadroom   == IF depositCap > accountedAssets THEN depositCap - accountedAssets ELSE 0

\* Mutated form: deposits stay open during an incident.
DepositWhileFrozen(assets) == ~paused /\ (depositCap # 0 => assets <= CapHeadroom)

\* maxDeposit and maxMint as predicates on the amount asked for.
WithinMaxDeposit(assets) ==
    /\ ~paused /\ ~frozen
    /\ ShareHeadroom = 0 => assets = 0
    /\ depositCap # 0 => assets <= CapHeadroom
    /\ ShareHeadroom <= (ShareLimit + VirtualShares) \div (accountedAssets + 1) =>
          assets <= ToAssets(ShareHeadroom, accountedAssets, TotalSupply)

WithinMaxMint(shares) ==
    /\ ~paused /\ ~frozen
    /\ shares <= ShareHeadroom
    /\ depositCap # 0 => shares <= ToShares(CapHeadroom)

-----------------------------------------------------------------------------
(* Rewards *)

Least(a, b) == IF a < b THEN a ELSE b

\* _checkpointGlobalRewards: with nobody earning, the unstreamed window is moved.
Checkpointed ==
    LET t == Least(now, stream.periodFinish)
        numerator == (t - stream.lastUpdateTime) * stream.rewardRate * RewardScale
                       + stream.rewardResidual
    IN  IF EarningShares = 0
        THEN [stream EXCEPT
                !.periodFinish = IF stream.rewardRate # 0 /\ @ > stream.lastUpdateTime
                                 THEN now + (@ - stream.lastUpdateTime) ELSE @,
                !.lastUpdateTime = now]
        ELSE IF t > stream.lastUpdateTime
        THEN [stream EXCEPT
                !.rewardPerShare = @ + numerator \div EarningShares,
                !.rewardResidual = numerator % EarningShares,
                !.lastUpdateTime = t]
        ELSE [stream EXCEPT !.lastUpdateTime = t]

\* _checkpointUserRewards, right after the global checkpoint.
Accrued(u) ==
    LET perShare == Checkpointed.rewardPerShare
        state    == rewardState[u]
    IN  [paid |-> perShare,
         rewards |-> (balanceOf[u] * (perShare - state.paid)) \div RewardScale
                       + state.rewards]

\* Mutated form: accounts are not checkpointed before their balance changes.
OnlyGlobalCheckpoint(us) == stream' = Checkpointed /\ UNCHANGED rewardState

\* The accounts whose balance changes, checkpointed as _update does.
CheckpointUsers(us) ==
    /\ stream' = Checkpointed
    /\ rewardState' = [u \in Users |-> IF u \in us THEN Accrued(u) ELSE rewardState[u]]

-----------------------------------------------------------------------------
(* Exit epochs *)

Outstanding == Len(exitEpochQueue) - nextExitEpochIndex

QueuedEpochs(n) == {exitEpochQueue[nextExitEpochIndex + j] : j \in 1 .. n}

\* A settlement of at most maxEpochs stops after n of them: those have ended,
\* and the limit, the end of the queue or an epoch that has not ended follows.
StopsAfter(n, maxEpochs) ==
    /\ n \in 0 .. Least(maxEpochs, Outstanding)
    /\ \A e \in QueuedEpochs(n) : e <= now
    /\ n < Least(maxEpochs, Outstanding) => exitEpochQueue[nextExitEpochIndex + n + 1] > now

\* The final shares take all assets, so that virtual rounding leaves no dust.
ExitPrice(shares, pool) ==
    IF shares = pool.supply THEN pool.assets ELSE ToAssets(shares, pool.assets, pool.supply)

SettleEpoch(pool, e) ==
    LET shares == exitEpochs[e].totalShares
        assets == ExitPrice(shares, pool)
    IN  [assets |-> pool.assets - assets, supply |-> pool.supply - shares,
         reserve |-> pool.reserve + assets, price |-> [pool.price EXCEPT ![e] = assets]]

\* The pool before anything is settled, and after each of the outstanding epochs
\* has been settled in the order of the queue.
UnsettledPool ==
    [assets |-> accountedAssets, supply |-> TotalSupply,
     reserve |-> withdrawalReserve, price |-> [e \in Epochs |-> 0]]

SettledPools ==
    LET pool[n \in 0 .. Outstanding] ==
            IF n = 0 THEN UnsettledPool
            ELSE SettleEpoch(pool[n - 1], exitEpochQueue[nextExitEpochIndex + n])
    IN  pool

Settled(n) == SettledPools[n]

\* exitEpochs after that: the settled epochs have a price and open receipts.
EpochsPriced(n, pool) ==
    [e \in Epochs |->
        IF e \in QueuedEpochs(n)
        THEN [totalShares |-> exitEpochs[e].totalShares, totalAssets |-> pool.price[e],
              remainingShares |-> exitEpochs[e].totalShares,
              remainingAssets |-> pool.price[e]]
        ELSE exitEpochs[e]]

\* Mutated form: the queue tail is not consulted.
UnclampedExitEpoch(settled) ==
    CeilDiv(now + exitTiming.unstakeCooldown, exitTiming.exitBatchInterval)
        * exitTiming.exitBatchInterval

\* _calculateExitEpoch when `settled` epochs have just left the queue.
ExitEpochFor(settled) ==
    LET boundary == CeilDiv(now + exitTiming.unstakeCooldown, exitTiming.exitBatchInterval)
                      * exitTiming.exitBatchInterval
    IN  IF settled < Outstanding /\ boundary < Last(exitEpochQueue)
        THEN Last(exitEpochQueue) ELSE boundary

\* The queue when a request joins epoch e: a new epoch is pushed once.
Enqueued(epochs, e) ==
    IF epochs[e].totalShares = 0 THEN Append(exitEpochQueue, e) ELSE exitEpochQueue

-----------------------------------------------------------------------------
(* Users *)

NoExit  == [shares |-> 0, exitEpoch |-> 0]
NoEpoch == [totalShares |-> 0, totalAssets |-> 0, remainingShares |-> 0, remainingAssets |-> 0]

Init ==
    /\ now = 1 /\ frozen = FALSE /\ incidentCount = 0 /\ paused = FALSE
    /\ exitTiming \in Timings
    /\ accountedAssets = 0 /\ withdrawalReserve = 0
    /\ held = [t \in Tokens |-> 0]
    /\ balanceOf = [u \in Users |-> 0] /\ escrowedShares = 0
    /\ exitRequests = [u \in Users |-> NoExit]
    /\ exitEpochs = [e \in Epochs |-> NoEpoch]
    /\ exitEpochQueue = <<>> /\ nextExitEpochIndex = 0
    /\ depositCap = 0 /\ rewardsDuration \in Durations
    /\ stream = [rewardRate |-> 0, periodFinish |-> 0, lastUpdateTime |-> 0,
                 rewardPerShare |-> 0, rewardResidual |-> 0]
    /\ rewardReserve = 0 /\ rewardState = [u \in Users |-> [paid |-> 0, rewards |-> 0]]

\* _deposit: shares are minted before the assets are accounted.
TakeDeposit(receiver, assets, shares) ==
    /\ shares <= ShareHeadroom
    /\ CheckpointUsers({receiver})
    /\ balanceOf' = [balanceOf EXCEPT ![receiver] = @ + shares]
    /\ held' = [held EXCEPT ![Asset] = @ + assets]
    /\ accountedAssets' = accountedAssets + assets
    /\ UNCHANGED <<envVars, policyVars, exitVars, rewardReserve>>

Deposit(receiver, assets) ==
    /\ WithinMaxDeposit(assets)
    /\ held[Asset] + assets <= MaxHeld                        \* bound
    /\ TakeDeposit(receiver, assets, ToShares(assets))

Mint(receiver, shares) ==
    /\ WithinMaxMint(shares)
    /\ held[Asset] + PreviewMint(shares) <= MaxHeld           \* bound
    /\ TakeDeposit(receiver, PreviewMint(shares), shares)

\* ERC20 transfer between users; not gated by pause or freeze.
Transfer(from, to, shares) ==
    /\ shares <= balanceOf[from]
    /\ CheckpointUsers({from, to})
    /\ balanceOf' = [u \in Users |-> balanceOf[u] - (IF u = from THEN shares ELSE 0)
                                      + (IF u = to THEN shares ELSE 0)]
    /\ UNCHANGED <<envVars, policyVars, accountedAssets, held, exitVars, rewardReserve>>

RequestRedeem(u, shares) ==
    /\ ~paused
    /\ shares <= balanceOf[u]
    /\ exitRequests[u].shares = 0
    /\ now <= RequestUntil                                    \* bound
    /\ \E n \in 0 .. Outstanding :
        LET pool   == Settled(n)
            epochs == EpochsPriced(n, pool)
            e      == ExitEpochFor(n)
        IN  /\ IF frozen THEN n = 0 ELSE StopsAfter(n, Outstanding)
            /\ e \in Epochs                                  \* bound
            /\ exitRequests' = [exitRequests EXCEPT ![u] = [shares |-> shares, exitEpoch |-> e]]
            /\ exitEpochQueue' = Enqueued(epochs, e)
            /\ exitEpochs' = [epochs EXCEPT ![e].totalShares = @ + shares]
            /\ nextExitEpochIndex' = nextExitEpochIndex + n
            /\ accountedAssets' = pool.assets /\ withdrawalReserve' = pool.reserve
            /\ escrowedShares' = escrowedShares - (TotalSupply - pool.supply) + shares
    /\ balanceOf' = [balanceOf EXCEPT ![u] = @ - shares]
    /\ CheckpointUsers({u})
    /\ UNCHANGED <<envVars, policyVars, held, rewardReserve>>

\* _settleMaturedExitEpochs of n epochs; burning escrow checkpoints the stream.
SettleQueue(n) ==
    LET pool == Settled(n) IN
    /\ exitEpochs' = EpochsPriced(n, pool)
    /\ nextExitEpochIndex' = nextExitEpochIndex + n
    /\ accountedAssets' = pool.assets /\ withdrawalReserve' = pool.reserve
    /\ escrowedShares' = escrowedShares - (TotalSupply - pool.supply)
    /\ stream' = IF n = 0 THEN stream ELSE Checkpointed
    /\ UNCHANGED <<policyVars, held, balanceOf, exitRequests, exitEpochQueue,
                   rewardReserve, rewardState>>

SettleMaturedExitEpochs(maxEpochs) ==
    /\ ~frozen
    /\ \E n \in 0 .. Outstanding : StopsAfter(n, maxEpochs) /\ SettleQueue(n)
    /\ UNCHANGED envVars

\* Mutated form: rounding dust is not given to the last claimant.
FlooredReceipt(epoch, shares) == (epoch.totalAssets * shares) \div epoch.totalShares

\* A receipt is worth its share of the epoch; the last one takes the rest.
ReceiptValue(epoch, shares) ==
    IF shares = epoch.remainingShares THEN epoch.remainingAssets
    ELSE (epoch.totalAssets * shares) \div epoch.totalShares

\* Mutated form: a receipt expires one tick after its epoch.
CollectWindow(e, mustSettle) == now >= e /\ now <= e + 1 /\ ~frozen

\* A settled epoch can be collected at any time, others once they can settle.
Collectable(e, mustSettle) == mustSettle => now >= e /\ ~frozen

\* completeRedeem settles the queue itself when the caller's epoch is unsettled.
Settles(e, n) == IF exitEpochs[e].remainingShares = 0 THEN StopsAfter(n, Outstanding) ELSE n = 0

\* The checked subtractions and the transfer of completeRedeem, in that pool.
ReceiptCovered(shares, epoch, pool) ==
    /\ shares <= epoch.remainingShares
    /\ ReceiptValue(epoch, shares) <= epoch.remainingAssets
    /\ ReceiptValue(epoch, shares) <= pool.reserve
    /\ ReceiptValue(epoch, shares) <= held[Asset]

Collected(epoch, shares) ==
    [totalShares |-> epoch.totalShares, totalAssets |-> epoch.totalAssets,
     remainingShares |-> epoch.remainingShares - shares,
     remainingAssets |-> epoch.remainingAssets - ReceiptValue(epoch, shares)]

CompleteRedeem(u) ==
    LET shares == exitRequests[u].shares
        e      == exitRequests[u].exitEpoch
    IN  /\ ~paused
        /\ shares # 0
        /\ Collectable(e, exitEpochs[e].remainingShares = 0)
        /\ \E n \in 0 .. Outstanding : \E pool \in {Settled(n)} :
           \E epoch \in {EpochsPriced(n, pool)[e]} :
           LET assets == ReceiptValue(epoch, shares) IN
            /\ Settles(e, n)
            /\ ReceiptCovered(shares, epoch, pool)
            /\ exitEpochs' = [EpochsPriced(n, pool) EXCEPT ![e] = Collected(epoch, shares)]
            /\ nextExitEpochIndex' = nextExitEpochIndex + n
            /\ accountedAssets' = pool.assets
            /\ withdrawalReserve' = pool.reserve - assets
            /\ escrowedShares' = escrowedShares - (TotalSupply - pool.supply)
            /\ held' = [held EXCEPT ![Asset] = @ - assets]
            /\ stream' = IF n = 0 THEN stream ELSE Checkpointed
        /\ exitRequests' = [exitRequests EXCEPT ![u] = NoExit]
        /\ UNCHANGED <<envVars, policyVars, balanceOf, exitEpochQueue,
                       rewardReserve, rewardState>>

RewardCovered(reward) == reward <= rewardReserve /\ reward <= held[Usd8]

ClaimReward(u) ==
    LET reward == Accrued(u).rewards IN
    /\ ~paused
    /\ RewardCovered(reward)
    /\ stream' = Checkpointed
    /\ rewardState' = [rewardState EXCEPT ![u] = [Accrued(u) EXCEPT !.rewards = 0]]
    /\ rewardReserve' = rewardReserve - reward
    /\ held' = [held EXCEPT ![Usd8] = @ - reward]
    /\ UNCHANGED <<envVars, policyVars, accountedAssets, balanceOf, exitVars>>

-----------------------------------------------------------------------------
(* Profit, claims, governance *)

RemainingWindow(s) == IF now < s.periodFinish THEN s.periodFinish - now ELSE 0

\* The new profit is blended with what is left of the current stream.
ReceiveProfitDistribution(amount) ==
    LET s         == Checkpointed
        remaining == RemainingWindow(s)
        leftover  == remaining * s.rewardRate
        total     == leftover + amount
        blended   == (leftover * remaining + amount * rewardsDuration) \div total
        duration  == IF blended = 0 THEN rewardsDuration ELSE blended
    IN  /\ ~paused
        /\ EarningShares # 0
        /\ total \div duration # 0
        /\ held[Usd8] + amount <= MaxHeld                     \* bound
        /\ stream' = [s EXCEPT !.rewardRate = total \div duration,
                               !.lastUpdateTime = now, !.periodFinish = now + duration]
        /\ rewardReserve' = rewardReserve + amount
        /\ held' = [held EXCEPT ![Usd8] = @ + amount]
        /\ UNCHANGED <<envVars, policyVars, accountedAssets, balanceOf, exitVars, rewardState>>

\* Called by the registered payout module, which pays only during its incident
\* (PaidOnlyWhileFrozen of DefiInsurance).
PayClaim(amount) ==
    /\ frozen /\ ~paused
    /\ amount <= accountedAssets
    /\ accountedAssets' = accountedAssets - amount
    /\ held' = [held EXCEPT ![Asset] = @ - amount]
    /\ UNCHANGED <<envVars, policyVars, balanceOf, exitVars, rewardVars>>

SetRewardsDuration(d) ==
    /\ rewardsDuration' = d
    /\ UNCHANGED <<envVars, depositCap, accountedAssets, held, balanceOf, exitVars, rewardVars>>

SetDepositCap(cap) ==
    /\ depositCap' = cap
    /\ UNCHANGED <<envVars, rewardsDuration, accountedAssets, held, balanceOf, exitVars, rewardVars>>

\* Mutated form: assets reserved for exits are not protected.
SweepableWithoutReserve(t) ==
    held[t] - (IF t = Asset THEN accountedAssets ELSE 0) - (IF t = Usd8 THEN rewardReserve ELSE 0)

Sweepable(t) ==
    LET accounted == (IF t = Asset THEN accountedAssets + withdrawalReserve ELSE 0)
                       + (IF t = Usd8 THEN rewardReserve ELSE 0)
    IN  IF held[t] > accounted THEN held[t] - accounted ELSE 0

SweepToken(t) ==
    /\ Sweepable(t) # 0
    /\ held' = [held EXCEPT ![t] = @ - Sweepable(t)]
    /\ UNCHANGED <<envVars, policyVars, accountedAssets, balanceOf, exitVars, rewardVars>>

-----------------------------------------------------------------------------
(* Registry and environment *)

notEnv == <<policyVars, accountedAssets, held, balanceOf, exitVars, rewardVars>>

\* An incident opens: DefiInsurance settles the matured exits of every listed
\* pool and only then the pools freeze; a delisted pool is not settled.
OpenIncident(listed) ==
    /\ ~frozen
    /\ incidentCount < MaxIncidents                           \* bound
    /\ frozen' = TRUE /\ incidentCount' = incidentCount + 1
    /\ \E n \in 0 .. Outstanding :
        (IF listed THEN StopsAfter(n, Outstanding) ELSE n = 0) /\ SettleQueue(n)
    /\ UNCHANGED <<now, paused, exitTiming>>

CloseIncident ==
    /\ frozen
    /\ frozen' = FALSE
    /\ UNCHANGED <<now, incidentCount, paused, exitTiming, notEnv>>

SetExitTimingConfig(timing) ==
    /\ ~frozen
    /\ exitTiming' = timing
    /\ UNCHANGED <<now, frozen, incidentCount, paused, notEnv>>

SetPaused(b) ==
    /\ paused' = b
    /\ UNCHANGED <<now, frozen, incidentCount, exitTiming, notEnv>>

Donate(t, amount) ==
    /\ held[t] + amount <= MaxHeld                            \* bound
    /\ held' = [held EXCEPT ![t] = @ + amount]
    /\ UNCHANGED <<envVars, policyVars, accountedAssets, balanceOf, exitVars, rewardVars>>

Tick ==
    /\ now < MaxTime                                          \* bound
    /\ now' = now + 1
    /\ UNCHANGED <<frozen, incidentCount, paused, exitTiming, notEnv>>

UserStep ==
    \/ \E u \in Users, a \in AssetAmounts : Deposit(u, a)
    \/ \E u \in Users, n \in ShareAmounts : Mint(u, n)
    \/ \E u, v \in Users, n \in ShareAmounts : Transfer(u, v, n)
    \/ \E u \in Users, n \in ShareAmounts : RequestRedeem(u, n)
    \/ \E n \in SettleLimits : SettleMaturedExitEpochs(n)
    \/ \E u \in Users : CompleteRedeem(u)
    \/ \E u \in Users : ClaimReward(u)

ProtocolStep ==
    \/ \E a \in Profits : ReceiveProfitDistribution(a)
    \/ \E a \in Payouts : PayClaim(a)
    \/ \E d \in Durations : SetRewardsDuration(d)
    \/ \E cap \in Caps : SetDepositCap(cap)
    \/ \E t \in Tokens : SweepToken(t)

EnvironmentStep ==
    \/ \E listed \in BOOLEAN : OpenIncident(listed)
    \/ CloseIncident
    \/ \E timing \in Timings : SetExitTimingConfig(timing)
    \/ \E b \in PauseChoices : SetPaused(b)
    \/ \E t \in Tokens, a \in Donations : Donate(t, a)
    \/ Tick

Next == UserStep \/ ProtocolStep \/ EnvironmentStep

Spec == Init /\ [][Next]_vars

\* Blocks keep coming, incidents end (PoolsThaw of DefiInsurance), a pause is
\* lifted, and a user with a receipt eventually collects it.
Fairness ==
    /\ WF_vars(Tick) /\ WF_vars(CloseIncident) /\ WF_vars(SetPaused(FALSE))
    /\ \A u \in Users : SF_vars(CompleteRedeem(u))

LiveSpec == Spec /\ Fairness

-----------------------------------------------------------------------------
(* Properties *)

Leaving(u)   == exitRequests[u].shares # 0

SettledEpochs   == {exitEpochQueue[j] : j \in 1 .. nextExitEpochIndex}

\* Exits leave in the order of the queue: epochs are queued once, in increasing
\* order, whatever the timing configuration was when they were requested, and
\* nobody joins an epoch that has been priced.
ExitQueueOrdered ==
    /\ \A i, j \in DOMAIN exitEpochQueue : i < j => exitEpochQueue[i] < exitEpochQueue[j]
    /\ \A e \in SettledEpochs : e <= now

\* What is reserved for exits is what the receipts are worth; the last receipt
\* of an epoch leaves nothing behind.
ReserveMatchesReceipts ==
    /\ withdrawalReserve = MapThenSumSet(LAMBDA e : exitEpochs[e].remainingAssets, SettledEpochs)
    /\ \A e \in SettledEpochs :
          exitEpochs[e].remainingShares = 0 => exitEpochs[e].remainingAssets = 0

\* The pool holds its capital, its exit reserve and its reward reserve at the
\* same time, also when the asset is USD8 and whatever is swept.
PoolBacked ==
    \A t \in Tokens :
        held[t] >= (IF t = Asset THEN accountedAssets + withdrawalReserve ELSE 0)
                     + (IF t = Usd8 THEN rewardReserve ELSE 0)

\* The reward reserve covers, at every moment, what all users have accrued,
\* the carried remainder and the rest of the stream (in units of RewardScale).
RewardsFunded ==
    rewardReserve * RewardScale >=
        MapThenSumSet(LAMBDA u : rewardState[u].rewards * RewardScale
                        + balanceOf[u] * (stream.rewardPerShare - rewardState[u].paid), Users)
        + stream.rewardResidual
        + stream.rewardRate * RewardScale
            * (IF stream.periodFinish > stream.lastUpdateTime
               THEN stream.periodFinish - stream.lastUpdateTime ELSE 0)

\* Assets per share, with the virtual share and asset, never fall for the
\* holders who stay, except by a claim paid during an incident: neither
\* deposits, mints, exits of others nor rounding take value from them.
NoDilution ==
    [][\/ TotalSupply' = 0
       \/ frozen /\ frozen' /\ TotalSupply' = TotalSupply
       \/ (accountedAssets' + 1) * (TotalSupply + VirtualShares)
             >= (accountedAssets + 1) * (TotalSupply' + VirtualShares)]_vars

\* Whoever requests an exit gets it, through pauses and incidents.
ExitCompletes == \A u \in Users : Leaving(u) ~> ~Leaving(u)

\* To the payout module the pool is the capital that PoolCapital describes.
Capital == INSTANCE PoolCapital WITH assets <- accountedAssets
CapitalContract == Capital!Spec
=============================================================================
