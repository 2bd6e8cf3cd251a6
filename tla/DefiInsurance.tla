---------------------------- MODULE DefiInsurance ----------------------------
(***************************************************************************)
(* The claim life cycle of the insurance payout module, src/src/           *)
(* DefiInsurance.sol, together with the part of Registry.sol that gates it *)
(* (registration, freeze, beta mode, pause, fee, timing, payout cap, score *)
(* ledger) and the settlement a TEE signs for it off chain.                *)
(*                                                                         *)
(* One step is one Ethereum transaction: a call that reverts is a step     *)
(* that is not taken, so every revert is a conjunct of a guard.  Block     *)
(* time advances in Tick only.  Cover pools appear through the asset       *)
(* balance that payClaim draws on; what LPs do to it between incidents is  *)
(* PoolFlow.  Whatever another payout module does while this one is not    *)
(* registered is OtherModulePays.                                          *)
(***************************************************************************)
EXTENDS Integers, Sequences, FiniteSets, FiniteSetsExt

CONSTANTS
    Users,           \* claimants
    Tokens,          \* ERC20s that can be insured; Usd8 is one of them
    Usd8,            \* the token claim bonds are posted in
    Pools,           \* cover pools
    NoRow,           \* "the root proves no row for this claim id"
    Bps,             \* BPS_DENOMINATOR (a small number keeps rounding visible)
    BoostBps,        \* Registry.boosterConfig.boostBps
    EarnedScore,     \* score a user has earned before any incident's cutoff
    Amounts,         \* insured-token amounts a claim can escrow
    Boosters,        \* booster amounts a claim can escrow
    RowChoices,      \* payout rows a settlement can contain
    BudgetChoices,   \* pool budgets an admin correction can name
    PoolLevels,      \* balances LP activity can leave in a pool
    Fees, Windows, Bonds, CapChoices,  \* values governance chooses among
    PauseChoices, SignerChoices,       \* pause flags and signer states set
    TokenEdits, PoolEdits,  \* tokens relisted or delisted, pools added or removed
    OtherClaimants,  \* users that another payout module can pay
    Donations,       \* stray tokens somebody may send to the module
    StartTime, OpenUntil, MaxTime,     \* bounds on the clock
    MaxIncidents, MaxClaims, MaxHeld  \* bounds on counters

ClaimIds == 1 .. MaxClaims

Row == [eligible : Nat, score : Nat, boosted : Nat, booster : Nat,
        pay : [Pools -> Nat]]

ASSUME ConstantsAssumption ==
    /\ Usd8 \in Tokens
    /\ NoRow \notin Row
    /\ Bps \in Nat \ {0} /\ BoostBps \in Nat \ {0} /\ EarnedScore \in Nat
    /\ Amounts \subseteq Nat \ {0} /\ Boosters \subseteq Nat
    /\ RowChoices \subseteq Row
    /\ BudgetChoices \subseteq Nat /\ PoolLevels \subseteq Nat
    /\ Fees \subseteq 0 .. (Bps - 1) /\ CapChoices \subseteq 1 .. (Bps - 1)
    /\ Windows \subseteq Nat \ {0} /\ Bonds \subseteq Nat
    /\ PauseChoices \subseteq BOOLEAN /\ SignerChoices \subseteq BOOLEAN
    /\ OtherClaimants \subseteq Users
    /\ TokenEdits \subseteq Tokens /\ PoolEdits \subseteq Pools
    /\ Donations \subseteq Nat
    /\ StartTime \in Nat /\ OpenUntil \in Nat /\ MaxTime \in Nat
    /\ MaxIncidents \in Nat /\ MaxClaims \in Nat /\ MaxHeld \in Nat
    \* block.timestamp is decades past the epoch; a phase window is days.
    /\ \A w \in Windows : w < StartTime

VARIABLES
    now,                    \* block.timestamp
    registry,               \* Registry: topology, gates and policy
    scoreSpent,             \* Registry.scoreSpent
    insuredTokens,          \* tokens with a nonzero maxCoverageBps
    claimBondAmount, isTeeSigner,
    incidents,              \* incident id |-> record; nextIncidentId = Len + 1
    claims,                 \* claim id |-> record; nextClaimId = Len + 1
    escrowedInsuredTokens, escrowedClaimBonds,
    held, heldBoosters,     \* token and booster balances of the module
    poolAssets,             \* SingleAssetCoverPool._accountedAssets
    signed                  \* settlements the TEE has signed

configVars   == <<insuredTokens, claimBondAmount, isTeeSigner>>
custodyVars  == <<escrowedInsuredTokens, escrowedClaimBonds, held, heldBoosters>>
vars == <<now, registry, scoreSpent, configVars, incidents, claims,
          custodyVars, poolAssets, signed>>

-----------------------------------------------------------------------------
(* Types *)

NoRows    == [k \in ClaimIds |-> NoRow]
NoBudget  == [p \in Pools |-> 0]
Settlement == [ClaimIds -> Row \cup {NoRow}]

\* registered: Registry.defiInsurance is this module.  coverPools is the list of
\* pools as a set: their order only fixes the layout of a payout row.
Registry == [registered : BOOLEAN, betaMode : BOOLEAN, paused : BOOLEAN,
             pausedPools : SUBSET Pools, coverPools : SUBSET Pools,
             feeShareBps : Fees, phaseWindow : Windows, maxPayoutBps : CapChoices]

\* Incident.root, by who committed it: "none" is bytes32(0).  capAtOpen and
\* spentAtOpen are what the engine reads from the archive at openBlock.
Incident == [insuredToken : Tokens, openedAt : Nat, phaseDeadline : Nat,
             phaseWindow : Windows, resolvedAt : Nat,
             root : {"none", "tee", "admin"}, rows : Settlement,
             unresolvedClaims : Nat, claimSet : Seq(Int),
             claimIdOf : [Users -> Nat], pools : SUBSET Pools,
             poolBudget : [Pools -> Nat], feeShareBps : 0 .. (Bps - 1),
             capAtOpen : [Pools -> Nat], spentAtOpen : [Users -> Nat]]

\* Claim.resolved is outcome # "open"; the outcome says which path resolved it.
Outcomes == {"open", "cancelled", "paid", "declined", "recovered"}
Claim == [user : Users, incidentId : Nat, amount : Nat, booster : Nat,
          bond : Nat, outcome : Outcomes]

Signature == [incidentId : Nat, rows : Settlement, poolPayouts : [Pools -> Nat],
              unresolvedClaims : Nat, claimSet : Seq(Int)]

-----------------------------------------------------------------------------
(* Reading the state *)

\* Mutated form: recovery forgets to mark the claim resolved.
RecoveredStaysOpen(k) == claims[k].outcome \notin {"open", "recovered"}

Resolved(k)  == claims[k].outcome # "open"
ClaimsOf(i)  == {k \in DOMAIN claims : claims[k].incidentId = i}
OpenClaims(i) == {k \in ClaimsOf(i) : claims[k].outcome = "open"}

TerminalDeadline(inc) == inc.phaseDeadline + inc.phaseWindow

\* Mutated forms: no terminal window; no deadline.
LiveUntilPhaseDeadline(inc, t) == t <= inc.phaseDeadline

LiveUntilResolved(inc, t) == t <= inc.phaseDeadline \/ inc.unresolvedClaims # 0

\* Is the incident live at time t?
LiveAt(inc, t) ==
    \/ t <= inc.phaseDeadline
    \/ inc.unresolvedClaims # 0 /\ t <= TerminalDeadline(inc)

ActiveIncidentId ==
    IF Len(incidents) # 0 /\ LiveAt(incidents[Len(incidents)], now)
    THEN Len(incidents) ELSE 0

PayoutIncidentActive == registry.registered /\ ActiveIncidentId # 0
NotFrozen == ~PayoutIncidentActive

MaxPayoutPerIncident(p) == (poolAssets[p] * registry.maxPayoutBps) \div Bps

\* Mutated form: the fee in force now instead of the incident's snapshot.
GrossAtCurrentFee(amount, fee) == (amount * Bps) \div (Bps - registry.feeShareBps)

\* The gross draw that leaves the claimant `amount` after the protocol fee.
GrossAmount(amount, fee) == (amount * Bps) \div (Bps - fee)
BoostedScore(score, booster) == (score * (Bps + booster * BoostBps)) \div Bps

Init ==
    /\ now = StartTime
    /\ registry \in
         [registered : {TRUE}, betaMode : {TRUE}, paused : {FALSE}, pausedPools : {{}},
          coverPools : {Pools}, feeShareBps : Fees, phaseWindow : Windows,
          maxPayoutBps : CapChoices]
    /\ scoreSpent = [u \in Users |-> 0]
    /\ insuredTokens = Tokens
    /\ claimBondAmount \in Bonds
    /\ isTeeSigner = TRUE
    /\ incidents = <<>> /\ claims = <<>>
    /\ escrowedInsuredTokens = [t \in Tokens |-> 0]
    /\ escrowedClaimBonds = 0
    /\ held = [t \in Tokens |-> 0] /\ heldBoosters = 0
    /\ poolAssets \in [Pools -> PoolLevels]
    /\ signed = {}

-----------------------------------------------------------------------------
(* Opening an incident and joining it *)

\* _openIncident: what must hold, and the record it stores.  Exits that have
\* matured are settled first, so a pool can hold less afterwards (assets).
CanOpen(t) ==
    /\ ~registry.paused
    /\ t \in insuredTokens
    /\ ActiveIncidentId = 0
    /\ registry.registered
    /\ Len(incidents) < MaxIncidents /\ now <= OpenUntil     \* bounds

MaturedExitsSettled(assets) ==
    \A p \in Pools : /\ assets[p] <= poolAssets[p]
                     /\ p \notin registry.coverPools => assets[p] = poolAssets[p]

NewIncident(t, assets) ==
    [insuredToken |-> t, openedAt |-> now, phaseDeadline |-> now + registry.phaseWindow,
     phaseWindow |-> registry.phaseWindow, resolvedAt |-> 0, root |-> "none",
     rows |-> NoRows, unresolvedClaims |-> 0, claimSet |-> <<>>,
     claimIdOf |-> [u \in Users |-> 0], pools |-> registry.coverPools,
     poolBudget |-> NoBudget, feeShareBps |-> registry.feeShareBps,
     capAtOpen |-> [p \in Pools |-> IF p \in registry.coverPools
                        THEN (assets[p] * registry.maxPayoutBps) \div Bps ELSE 0],
     spentAtOpen |-> scoreSpent]

\* The exit queues of the pools decide how much leaves; any level is possible.
ExitOutcomes == [Pools -> PoolLevels]

OpenClaimIncident(t) ==
    /\ CanOpen(t)
    /\ \E assets \in {poolAssets} \cup ExitOutcomes :
          /\ MaturedExitsSettled(assets)
          /\ poolAssets' = assets
          /\ incidents' = Append(incidents, NewIncident(t, assets))
    /\ UNCHANGED <<now, registry, scoreSpent, configVars, claims,
                   custodyVars, signed>>

\* The claim record and custody effects shared by both branches of fileClaim.
NewClaim(u, i, a, b) ==
    [user |-> u, incidentId |-> i, amount |-> a, booster |-> b,
     bond |-> claimBondAmount, outcome |-> "open"]

Joined(inc, u, k) ==
    [inc EXCEPT !.unresolvedClaims = @ + 1, !.claimSet = Append(@, k),
                !.claimIdOf[u] = k]

TakeCustody(t, a, b) ==
    /\ escrowedInsuredTokens' = [escrowedInsuredTokens EXCEPT ![t] = @ + a]
    /\ escrowedClaimBonds' = escrowedClaimBonds + claimBondAmount
    /\ held' = [x \in Tokens |-> held[x] + (IF x = t THEN a ELSE 0)
                                 + (IF x = Usd8 THEN claimBondAmount ELSE 0)]
    /\ heldBoosters' = heldBoosters + b

\* fileClaim with no active incident: a TEE open signature for nextIncidentId
\* opens the incident and the caller's claim is its first.
FileOpeningClaim(u, t, a, b) ==
    /\ isTeeSigner
    /\ CanOpen(t)
    /\ Len(claims) < MaxClaims                                \* bound
    /\ \E assets \in {poolAssets} \cup ExitOutcomes :
          /\ MaturedExitsSettled(assets)
          /\ poolAssets' = assets
          /\ incidents' = Append(incidents,
                Joined(NewIncident(t, assets), u, Len(claims) + 1))
    /\ claims' = Append(claims, NewClaim(u, Len(incidents) + 1, a, b))
    /\ TakeCustody(t, a, b)
    /\ UNCHANGED <<now, registry, scoreSpent, configVars, signed>>

ClaimPhaseOpen(inc) == inc.root = "none" /\ now <= inc.phaseDeadline
NotYetClaimed(inc, u) == inc.claimIdOf[u] = 0

\* fileClaim while an incident is active.
FileClaim(u, a, b) ==
    LET i == ActiveIncidentId IN
    /\ ~registry.paused /\ registry.registered
    /\ i # 0
    /\ ClaimPhaseOpen(incidents[i])
    /\ NotYetClaimed(incidents[i], u)
    /\ Len(claims) < MaxClaims                                \* bound
    /\ incidents' = [incidents EXCEPT ![i] = Joined(@, u, Len(claims) + 1)]
    /\ claims' = Append(claims, NewClaim(u, i, a, b))
    /\ TakeCustody(incidents[i].insuredToken, a, b)
    /\ UNCHANGED <<now, registry, scoreSpent, configVars, poolAssets, signed>>

-----------------------------------------------------------------------------
(* Resolving a claim *)

BondOwed(c) == c.bond

\* Balances and checked subtractions that a release needs.
Releasable(k, tokensOut, boostersOut) ==
    LET c == claims[k]
        t == incidents[c.incidentId].insuredToken
    IN  /\ c.amount <= escrowedInsuredTokens[t]
        /\ BondOwed(c) <= escrowedClaimBonds
        /\ tokensOut + (IF t = Usd8 THEN BondOwed(c) ELSE 0) <= held[t]
        /\ BondOwed(c) <= held[Usd8]
        /\ boostersOut <= heldBoosters

\* Escrow and bond counters always drop by the whole claim; tokensOut of the
\* insured token go back to the claimant, boostersOut leave (returned or
\* burned) and the bond goes to the claimant or to the treasury.
ReleaseCustody(k, tokensOut, boostersOut) ==
    LET c == claims[k]
        t == incidents[c.incidentId].insuredToken
    IN  /\ Releasable(k, tokensOut, boostersOut)
        /\ escrowedInsuredTokens' = [escrowedInsuredTokens EXCEPT ![t] = @ - c.amount]
        /\ escrowedClaimBonds' = escrowedClaimBonds - BondOwed(c)
        /\ held' = [x \in Tokens |-> held[x] - (IF x = t THEN tokensOut ELSE 0)
                                     - (IF x = Usd8 THEN BondOwed(c) ELSE 0)]
        /\ heldBoosters' = heldBoosters - boostersOut

Left(inc, u, k) ==
    [inc EXCEPT !.unresolvedClaims = @ - 1, !.claimSet = Append(@, -k),
                !.claimIdOf[u] = 0]

CancelClaim(u) ==
    LET i == ActiveIncidentId
        k == incidents[i].claimIdOf[u]
    IN  /\ i # 0
        /\ k # 0
        /\ ClaimPhaseOpen(incidents[i])
        /\ ~Resolved(k)
        /\ claims' = [claims EXCEPT ![k].outcome = "cancelled"]
        /\ incidents' = [incidents EXCEPT ![i] = Left(@, u, k)]
        /\ ReleaseCustody(k, claims[k].amount, claims[k].booster)
        /\ UNCHANGED <<now, registry, scoreSpent, configVars, poolAssets, signed>>

\* One claim of the incident is resolved after its claim phase.
OneResolved(inc) ==
    [inc EXCEPT !.unresolvedClaims = @ - 1,
                !.resolvedAt = IF inc.unresolvedClaims = 1 /\ @ = 0
                               THEN now ELSE @]

Eligible(row) == row.eligible # 0 /\ row.score # 0

\* The Merkle row is proven and consistent with the claim it names.
RowUsable(k) ==
    LET c == claims[k]
        inc == incidents[c.incidentId]
        row == inc.rows[k]
    IN  /\ row # NoRow
        /\ \A p \in Pools \ inc.pools : row.pay[p] = 0
        /\ row.booster <= c.booster
        /\ row.boosted = BoostedScore(row.score, row.booster)
        /\ row.eligible <= c.amount

\* Mutated form: declining expires with the payout.
FinalizeExpires(inc) == now > inc.phaseDeadline /\ now <= TerminalDeadline(inc)

FinalizeOpen(inc) == now > inc.phaseDeadline
AcceptOpen(inc)   == now <= TerminalDeadline(inc)

\* _payClaimAmounts: hard budgets and the pools' own checks in payClaim.
Payable(inc, row) ==
    \A p \in inc.pools : row.pay[p] # 0 =>
        /\ GrossAmount(row.pay[p], inc.feeShareBps) <= inc.poolBudget[p]
        /\ GrossAmount(row.pay[p], inc.feeShareBps) <= poolAssets[p]
        /\ p \notin registry.pausedPools

Draw(inc, row, p) ==
    IF p \in inc.pools THEN GrossAmount(row.pay[p], inc.feeShareBps) ELSE 0

Charged(inc, row) ==
    [inc EXCEPT !.poolBudget = [p \in Pools |-> @[p] - Draw(inc, row, p)]]

\* finalizeClaim under a standing root, accepted by the claimant, eligible.
AcceptPayout(k) ==
    LET c == claims[k]
        i == c.incidentId
        inc == incidents[i]
        row == inc.rows[k]
    IN  /\ ~Resolved(k)
        /\ registry.registered /\ inc.root # "none"
        /\ FinalizeOpen(inc) /\ AcceptOpen(inc) /\ ~registry.paused
        /\ RowUsable(k) /\ Eligible(row) /\ Payable(inc, row)
        /\ claims' = [claims EXCEPT ![k].outcome = "paid"]
        /\ incidents' = [incidents EXCEPT ![i] = Charged(OneResolved(@), row)]
        /\ poolAssets' = [p \in Pools |-> poolAssets[p] - Draw(inc, row, p)]
        /\ scoreSpent' = [scoreSpent EXCEPT ![c.user] = @ + row.score]
        /\ ReleaseCustody(k, c.amount - row.eligible, c.booster)
        /\ UNCHANGED <<now, registry, configVars, signed>>

\* finalizeClaim under a standing root without a payout: the claimant declines
\* (or accepts an ineligible row), or anyone closes a proven ineligible row.
DeclinePayout(k, byClaimant) ==
    LET c == claims[k]
        i == c.incidentId
        inc == incidents[i]
    IN  /\ ~Resolved(k)
        /\ registry.registered /\ inc.root # "none"
        /\ FinalizeOpen(inc)
        /\ RowUsable(k)
        /\ byClaimant \/ ~Eligible(inc.rows[k])
        /\ claims' = [claims EXCEPT ![k].outcome = "declined"]
        /\ incidents' = [incidents EXCEPT ![i] = OneResolved(@)]
        /\ ReleaseCustody(k, c.amount, c.booster)
        /\ UNCHANGED <<now, registry, scoreSpent, configVars, poolAssets, signed>>

\* finalizeClaim with no usable root: the module was removed, or the time to
\* settle has passed (a voided incident has phaseDeadline 0).
RecoverClaim(k) ==
    LET c == claims[k]
        i == c.incidentId
        inc == incidents[i]
    IN  /\ ~Resolved(k)
        /\ \/ ~registry.registered
           \/ inc.root = "none" /\ now > TerminalDeadline(inc)
        /\ claims' = [claims EXCEPT ![k].outcome = "recovered"]
        /\ incidents' = [incidents EXCEPT ![i] = OneResolved(@)]
        /\ ReleaseCustody(k, c.amount, c.booster)
        /\ UNCHANGED <<now, registry, scoreSpent, configVars, poolAssets, signed>>

-----------------------------------------------------------------------------
(* Settlement: the TEE signs, anyone relays, beta governance corrects *)

KernelGross(amount, fee) == (amount * Bps) \div (Bps - fee)

\* Mutated form: score spent in earlier incidents is not deducted.
GrossEarned(inc, u) == EarnedScore

\* gross_earned_score less what Registry.scoreSpent held at openBlock.
Unspent(inc, u) == EarnedScore - inc.spentAtOpen[u]

\* What the rows of the live claims draw from pool p together.
PoolGross(inc, rows, p, live) ==
    MapThenSumSet(LAMBDA k : KernelGross(rows[k].pay[p], inc.feeShareBps), live)

\* What the kernel guarantees of the rows it allocates over the live claims.
Attested(inc, rows, live) ==
    /\ \A k \in live :
        LET row == rows[k]
            c   == claims[k]
            unspent == Unspent(inc, c.user)
        IN  /\ row.eligible <= c.amount
            /\ row.booster <= c.booster
            /\ row.boosted = BoostedScore(row.score, row.booster)
            /\ row.score <= (IF row.eligible = 0 \/ unspent < 0 THEN 0 ELSE unspent)
            /\ \A p \in Pools : p \notin inc.pools \/ row.score = 0 => row.pay[p] = 0
    /\ \A p \in inc.pools : PoolGross(inc, rows, p, live) <= inc.capAtOpen[p]

\* build_settlement, once the finalized head is past the claim deadline.  The
\* engine replays every registration and cancellation of the claim phase and
\* is deterministic, so there is one signature per incident.
SignSettlement(i) ==
    LET inc  == incidents[i]
        live == {k \in ClaimsOf(i) : claims[k].outcome # "cancelled"}
    IN  /\ \A s \in signed : s.incidentId # i
        /\ now > inc.openedAt + inc.phaseWindow
        /\ inc.root = "none" => now <= inc.openedAt + 2 * inc.phaseWindow
        /\ live # {}
        /\ \E rows \in [live -> RowChoices] :
            LET payouts == [p \in Pools |->
                  IF p \in inc.pools THEN PoolGross(inc, rows, p, live) ELSE 0]
            IN  /\ Attested(inc, rows, live)
                /\ payouts \in [Pools -> Nat]                 \* BigUint
                /\ signed' = signed \cup
                     {[incidentId |-> i,
                       rows |-> [k \in ClaimIds |-> IF k \in live THEN rows[k] ELSE NoRow],
                       poolPayouts |-> payouts,
                       unresolvedClaims |-> Cardinality(live),
                       claimSet |-> inc.claimSet]}
        /\ UNCHANGED <<now, registry, scoreSpent, configVars, incidents,
                       claims, custodyVars, poolAssets>>

\* _commitRoot: budgets within the pools' caps, a fresh window, token delisted.
BudgetWithinCaps(inc, budget) ==
    \A p \in Pools : IF p \in inc.pools THEN budget[p] <= MaxPayoutPerIncident(p)
                     ELSE budget[p] = 0

Committed(inc, source, rows, budget) ==
    [inc EXCEPT !.root = source, !.rows = rows, !.poolBudget = budget,
                !.phaseDeadline = IF registry.betaMode THEN now + inc.phaseWindow ELSE now]

CommitRoot(i, source, rows, budget) ==
    /\ BudgetWithinCaps(incidents[i], budget)
    /\ incidents' = [incidents EXCEPT ![i] = Committed(@, source, rows, budget)]
    /\ insuredTokens' = insuredTokens \ {incidents[i].insuredToken}

SettlementPhase(inc) == inc.phaseDeadline < now /\ now <= TerminalDeadline(inc)

\* The signature names this incident and exactly its claim set.
Binds(s, i) ==
    /\ s.incidentId = i
    /\ s.unresolvedClaims = incidents[i].unresolvedClaims
    /\ s.claimSet = incidents[i].claimSet

SettleIncident(s) ==
    LET i == ActiveIncidentId IN
    /\ ~registry.paused /\ registry.registered
    /\ i # 0
    /\ incidents[i].root = "none"
    /\ SettlementPhase(incidents[i])
    /\ Binds(s, i) /\ isTeeSigner
    /\ CommitRoot(i, "tee", s.rows, s.poolPayouts)
    /\ UNCHANGED <<now, registry, scoreSpent, claimBondAmount, isTeeSigner,
                   claims, custodyVars, poolAssets, signed>>

\* Mutated form: a root can be corrected at any time.
CorrectionAnyTime(inc) == inc.root # "none"

CorrectionOpen(inc) == inc.root # "none" /\ now <= inc.phaseDeadline

CanCorrect(i) == registry.betaMode /\ registry.registered /\ i # 0 /\ CorrectionOpen(incidents[i])

AdminCorrectSettlement(rows, budget) ==
    LET i == ActiveIncidentId IN
    /\ CanCorrect(i)
    /\ CommitRoot(i, "admin", rows, budget)
    /\ UNCHANGED <<now, registry, scoreSpent, claimBondAmount, isTeeSigner,
                   claims, custodyVars, poolAssets, signed>>

Voided(inc) ==
    [inc EXCEPT !.root = "none", !.rows = NoRows, !.poolBudget = NoBudget,
                !.phaseDeadline = 0, !.resolvedAt = now]

AdminVoidSettlement ==
    LET i == ActiveIncidentId IN
    /\ CanCorrect(i)
    /\ incidents' = [incidents EXCEPT ![i] = Voided(@)]
    /\ UNCHANGED <<now, registry, scoreSpent, configVars, claims,
                   custodyVars, poolAssets, signed>>

-----------------------------------------------------------------------------
(* Governance of this module *)

claimState == <<scoreSpent, incidents, claims, poolAssets, signed>>

\* editInsuredToken: listing a new token is never blocked, delisting is.
ListInsuredToken(t) ==
    /\ t \notin insuredTokens
    /\ insuredTokens' = insuredTokens \cup {t}
    /\ UNCHANGED <<now, registry, claimBondAmount, isTeeSigner, custodyVars, claimState>>

DelistInsuredToken(t) ==
    /\ t \in insuredTokens
    /\ ActiveIncidentId = 0
    /\ insuredTokens' = insuredTokens \ {t}
    /\ UNCHANGED <<now, registry, claimBondAmount, isTeeSigner, custodyVars, claimState>>

SetClaimBondAmount(b) ==
    /\ claimBondAmount' = b
    /\ UNCHANGED <<now, registry, insuredTokens, isTeeSigner, custodyVars, claimState>>

SetTeeSigner(authorized) ==
    /\ ActiveIncidentId = 0
    /\ isTeeSigner' = authorized
    /\ UNCHANGED <<now, registry, insuredTokens, claimBondAmount, custodyVars, claimState>>

\* Mutated form: bonds are not protected when USD8 is swept.
SweepableWithoutBonds(t) ==
    IF held[t] > escrowedInsuredTokens[t] THEN held[t] - escrowedInsuredTokens[t] ELSE 0

Sweepable(t) ==
    LET accounted == escrowedInsuredTokens[t] + (IF t = Usd8 THEN escrowedClaimBonds ELSE 0)
    IN  IF held[t] > accounted THEN held[t] - accounted ELSE 0

SweepToken(t) ==
    /\ Sweepable(t) # 0
    /\ held' = [held EXCEPT ![t] = @ - Sweepable(t)]
    /\ UNCHANGED <<now, registry, configVars, escrowedInsuredTokens,
                   escrowedClaimBonds, heldBoosters, claimState>>

-----------------------------------------------------------------------------
(* Registry governance *)

notRegistry == <<now, scoreSpent, configVars, incidents, claims, custodyVars,
                 poolAssets, signed>>

\* Mutated form: the candidate may report an active incident.
RegisterActiveModule ==
    /\ ~registry.registered
    /\ registry' = [registry EXCEPT !.registered = TRUE]
    /\ UNCHANGED notRegistry

\* setDefiInsurance with this module, or with another one in its place.
RegisterModule ==
    /\ ~registry.registered
    /\ ActiveIncidentId = 0
    /\ registry' = [registry EXCEPT !.registered = TRUE]
    /\ UNCHANGED notRegistry

ReplaceModule ==
    /\ registry.registered /\ NotFrozen
    /\ registry' = [registry EXCEPT !.registered = FALSE]
    /\ UNCHANGED notRegistry

\* The emergency escape, also available in the middle of an incident.
ClearDefiInsurance(expectedIncidentId) ==
    /\ registry.registered
    /\ ActiveIncidentId \in {0, expectedIncidentId}
    /\ registry' = [registry EXCEPT !.registered = FALSE]
    /\ UNCHANGED notRegistry

EndBetaMode ==
    /\ NotFrozen
    /\ registry' = [registry EXCEPT !.betaMode = FALSE]
    /\ UNCHANGED notRegistry

SetPaused(b) ==
    /\ registry' = [registry EXCEPT !.paused = b]
    /\ UNCHANGED notRegistry

SetPoolPaused(p, b) ==
    /\ registry' = [registry EXCEPT !.pausedPools = IF b THEN @ \cup {p} ELSE @ \ {p}]
    /\ UNCHANGED notRegistry

\* Not frozen during an incident: the incident keeps the share it opened with.
SetProtocolFeeConfig(f) ==
    /\ registry' = [registry EXCEPT !.feeShareBps = f]
    /\ UNCHANGED notRegistry

SetIncidentTimingConfig(w) ==
    /\ NotFrozen
    /\ registry' = [registry EXCEPT !.phaseWindow = w]
    /\ UNCHANGED notRegistry

\* Mutated form: the cap is not frozen during an incident.
SetPayoutCapAnyTime(b) ==
    /\ registry' = [registry EXCEPT !.maxPayoutBps = b]
    /\ UNCHANGED notRegistry

SetMaxCoverPoolPayoutBps(b) ==
    /\ NotFrozen
    /\ registry' = [registry EXCEPT !.maxPayoutBps = b]
    /\ UNCHANGED notRegistry

AddPool(p) ==
    /\ NotFrozen
    /\ p \notin registry.coverPools
    /\ registry' = [registry EXCEPT !.coverPools = @ \cup {p}]
    /\ UNCHANGED notRegistry

RemovePool(p) ==
    /\ NotFrozen
    /\ p \in registry.coverPools
    /\ registry' = [registry EXCEPT !.coverPools = @ \ {p}]
    /\ UNCHANGED notRegistry

-----------------------------------------------------------------------------
(* The environment *)

\* Deposits, matured exits and reward capital move a pool's assets only while
\* no incident is active; another registered module can also pay claims.
PoolFlow(p, level) ==
    /\ NotFrozen
    /\ poolAssets' = [poolAssets EXCEPT ![p] = level]
    /\ UNCHANGED <<now, registry, scoreSpent, configVars, incidents, claims,
                   custodyVars, signed>>

\* Another registered module records score spent within what is earned.
OtherModulePays(u) ==
    /\ ~registry.registered
    /\ scoreSpent[u] < EarnedScore
    /\ scoreSpent' = [scoreSpent EXCEPT ![u] = @ + 1]
    /\ UNCHANGED <<now, registry, configVars, incidents, claims, custodyVars,
                   poolAssets, signed>>

Donate(t, d) ==
    /\ held[t] + d <= MaxHeld                                 \* bound
    /\ held' = [held EXCEPT ![t] = @ + d]
    /\ UNCHANGED <<now, registry, configVars, escrowedInsuredTokens,
                   escrowedClaimBonds, heldBoosters, claimState>>

Tick ==
    /\ now < MaxTime                                          \* bound
    /\ now' = now + 1
    /\ UNCHANGED <<registry, configVars, custodyVars, claimState>>

-----------------------------------------------------------------------------
(* The specification *)

ClaimantStep ==
    \/ \E u \in Users, t \in Tokens, a \in Amounts, b \in Boosters :
          FileOpeningClaim(u, t, a, b)
    \/ \E u \in Users, a \in Amounts, b \in Boosters : FileClaim(u, a, b)
    \/ \E u \in Users : CancelClaim(u)
    \/ \E k \in DOMAIN claims : AcceptPayout(k)
    \/ \E k \in DOMAIN claims, byClaimant \in BOOLEAN : DeclinePayout(k, byClaimant)
    \/ \E k \in DOMAIN claims : RecoverClaim(k)

SettlementStep ==
    \/ \E t \in Tokens : OpenClaimIncident(t)
    \/ \E i \in DOMAIN incidents : SignSettlement(i)
    \/ \E s \in signed : SettleIncident(s)
    \/ \E rows \in [ClaimsOf(Len(incidents)) -> RowChoices \cup {NoRow}],
          budget \in [Pools -> BudgetChoices] :
          AdminCorrectSettlement(
              [k \in ClaimIds |-> IF k \in DOMAIN rows THEN rows[k] ELSE NoRow], budget)
    \/ AdminVoidSettlement

GovernanceStep ==
    \/ \E t \in TokenEdits : ListInsuredToken(t) \/ DelistInsuredToken(t)
    \/ \E t \in Tokens : SweepToken(t)
    \/ \E b \in Bonds : SetClaimBondAmount(b)
    \/ \E b \in SignerChoices : SetTeeSigner(b)
    \/ RegisterModule \/ ReplaceModule
    \/ \E i \in 0 .. Len(incidents) : ClearDefiInsurance(i)
    \/ EndBetaMode
    \/ \E b \in PauseChoices : SetPaused(b) \/ \E p \in Pools : SetPoolPaused(p, b)
    \/ \E f \in Fees : SetProtocolFeeConfig(f)
    \/ \E w \in Windows : SetIncidentTimingConfig(w)
    \/ \E b \in CapChoices : SetMaxCoverPoolPayoutBps(b)
    \/ \E p \in PoolEdits : AddPool(p) \/ RemovePool(p)

EnvironmentStep ==
    \/ \E p \in Pools, level \in PoolLevels : PoolFlow(p, level)
    \/ \E u \in OtherClaimants : OtherModulePays(u)
    \/ \E t \in Tokens, d \in Donations : Donate(t, d)
    \/ Tick

Next == ClaimantStep \/ SettlementStep \/ GovernanceStep \/ EnvironmentStep

Spec == Init /\ [][Next]_vars

\* A claimant who can leave eventually does.
Leave(k) == k \in DOMAIN claims /\ (DeclinePayout(k, TRUE) \/ RecoverClaim(k))

ClaimantsLeave == \A k \in ClaimIds : WF_vars(Leave(k))

-----------------------------------------------------------------------------
(* Properties *)

ConfigType ==
    /\ now \in Nat /\ now >= StartTime
    /\ registry \in Registry
    /\ scoreSpent \in [Users -> Nat]
    /\ insuredTokens \in SUBSET Tokens
    /\ claimBondAmount \in Bonds /\ isTeeSigner \in BOOLEAN

LedgerType ==
    /\ incidents \in Seq(Incident) /\ claims \in Seq(Claim)
    /\ Len(claims) <= MaxClaims
    /\ \A k \in DOMAIN claims : claims[k].incidentId \in DOMAIN incidents

CustodyType ==
    /\ escrowedInsuredTokens \in [Tokens -> Nat]
    /\ escrowedClaimBonds \in Nat
    /\ held \in [Tokens -> Nat] /\ heldBoosters \in Nat

PoolType ==
    /\ poolAssets \in [Pools -> Nat]
    /\ \A s \in signed : s \in Signature

\* The state is well formed: balances, budgets and counters never go negative,
\* and every claim belongs to an incident that exists.
TypeOK == ConfigType /\ LedgerType /\ CustodyType /\ PoolType

\* unresolvedClaims, which decides when an incident is over and which the TEE
\* signs, always equals the number of claims that are still open.
UnresolvedMatchesClaims ==
    \A i \in DOMAIN incidents :
        incidents[i].unresolvedClaims = Cardinality(OpenClaims(i))

\* An incident is never superseded while one of its claims could still be
\* paid: when a later incident exists, the earlier one is past its terminal
\* deadline or has no open claim.
EarlierIncidentsClosed ==
    \A i \in 1 .. (Len(incidents) - 1) :
        incidents[i].unresolvedClaims = 0 \/ now > TerminalDeadline(incidents[i])

\* An open claim is the one its user is indexed under, so no account holds two
\* open claims of an incident (score-budget multiplication by splitting).
OpenClaimIsIndexed ==
    \A k \in DOMAIN claims : ~Resolved(k) =>
        incidents[claims[k].incidentId].claimIdOf[claims[k].user] = k

\* While pools are frozen, what the incident may still draw from a pool is
\* there: no order of payouts, LP exits and module changes undercuts a budget.
BudgetBacked ==
    PayoutIncidentActive =>
        \A p \in Pools : incidents[ActiveIncidentId].poolBudget[p] <= poolAssets[p]

\* The spent score that the engine reads at openBlock is still current for
\* every claimant who can accept: nothing was spent in between.
SpentSnapshotFresh ==
    PayoutIncidentActive =>
        \A k \in OpenClaims(ActiveIncidentId) :
            scoreSpent[claims[k].user] =
                incidents[ActiveIncidentId].spentAtOpen[claims[k].user]

\* A payout always comes out of the incident that freezes the pools now.
PaidOnlyWhileFrozen ==
    [][\A k \in DOMAIN claims :
        claims[k].outcome = "open" /\ claims'[k].outcome = "paid" =>
            PayoutIncidentActive /\ claims[k].incidentId = ActiveIncidentId]_vars

\* Under a TEE root nobody is ever paid with score they have not earned, over
\* any sequence of incidents, corrections and module replacements.
ScoreNeverOverspent ==
    [][\A k \in DOMAIN claims :
        /\ claims[k].outcome = "open" /\ claims'[k].outcome = "paid"
        /\ incidents[claims[k].incidentId].root = "tee"
        => scoreSpent'[claims[k].user] <= EarnedScore]_vars

\* What the claims in S would draw from pool p under the standing root.
DrawsOf(inc, S, p) == MapThenSumSet(LAMBDA k : Draw(inc, inc.rows[k], p), S)

\* Under a TEE root first come is not first served: the remaining budget
\* covers the gross payouts of all open claims together, and every open claim
\* has a row it can use.
TeeRootPaysEveryone ==
    LET i == ActiveIncidentId IN
    PayoutIncidentActive /\ incidents[i].root = "tee" =>
        /\ \A k \in OpenClaims(i) : RowUsable(k)
        /\ \A p \in incidents[i].pools :
             DrawsOf(incidents[i], OpenClaims(i), p) <= incidents[i].poolBudget[p]

\* A settlement the TEE signed can be relayed at any time of the settlement
\* phase: neither its claim set nor its budgets go stale while it is in transit.
SignedStaysRelayable ==
    LET i == ActiveIncidentId IN
    PayoutIncidentActive /\ incidents[i].root = "none" /\ SettlementPhase(incidents[i]) =>
        \A s \in signed : s.incidentId = i =>
            Binds(s, i) /\ BudgetWithinCaps(incidents[i], s.poolPayouts)

\* Once a claim was finalized against a root, that root and its rows stay.
RootFixedOnceUsed ==
    [][\A k \in DOMAIN claims : claims[k].outcome \in {"paid", "declined"} =>
        LET i == claims[k].incidentId IN
        incidents'[i].root = incidents[i].root /\ incidents'[i].rows = incidents[i].rows]_vars

\* The module holds every token it owes, also when USD8 itself is insured and
\* bonds and escrow share one balance, whatever is swept.
CustodyBacked ==
    \A t \in Tokens : held[t] >= escrowedInsuredTokens[t]
                                  + (IF t = Usd8 THEN escrowedClaimBonds ELSE 0)

\* A step that corrects the root of incident i, which renews its window.
Correction(i) ==
    /\ i = ActiveIncidentId
    /\ AdminCorrectSettlement(incidents'[i].rows, incidents'[i].poolBudget)

\* What the liveness properties assume of administrators: no incident is
\* corrected for ever.  The contract sets no limit to corrections.
FinitelyManyCorrections ==
    \A i \in 1 .. MaxIncidents : <>[][~Correction(i)]_vars

\* Pools do not stay frozen: every incident ends, by its last resolution or its
\* deadlines, unless administrators correct it for ever.
PoolsThaw ==
    FinitelyManyCorrections => (PayoutIncidentActive ~> ~PayoutIncidentActive)

\* A claim for which an admin-corrected root has no usable row.
Stranded(k) ==
    LET inc == incidents[claims[k].incidentId] IN
    inc.root = "admin" /\ ~RowUsable(k)

\* A claimant is never locked in by an incident that is not corrected for
\* ever: the only claims that may stay open are the stranded ones.
ClaimsResolve ==
    FinitelyManyCorrections =>
        \A k \in ClaimIds :
            (k \in DOMAIN claims /\ ~Resolved(k)) ~>
                (k \in DOMAIN claims /\ (Resolved(k) \/ Stranded(k)))

=============================================================================
