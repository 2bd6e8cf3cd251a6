------------------------ MODULE DefiInsuranceProofs ------------------------
(***************************************************************************)
(* Safety of the claim life cycle for every value of the constants, and    *)
(* what a signed settlement guarantees: it can be relayed while the        *)
(* settlement phase lasts, the root it leaves pays every claimant, nobody  *)
(* is paid with score they have not earned, and a root that was used       *)
(* stays.  Custody is covered throughout.                                  *)
(***************************************************************************)
EXTENDS DefiInsurance, SumLemmas, FiniteSetTheorems, SequenceTheorems, TLAPS

-----------------------------------------------------------------------------
(* Arithmetic *)

\* The gross draw of a payout is a natural number, and nothing draws nothing.
LEMMA GrossType ==
    ASSUME NEW a \in Nat, NEW f \in 0 .. (Bps - 1)
    PROVE  GrossAmount(a, f) \in Nat /\ GrossAmount(0, f) = 0
<1>1. Bps \in Nat \ {0} BY ConstantsAssumption
<1>2. Bps - f \in Nat \ {0} BY <1>1
<1>3. a * Bps \in Nat BY <1>1
<1>4. \A x \in Nat, y \in Nat \ {0} : x \div y \in Nat OBVIOUS
<1>5. 0 * Bps = 0 BY <1>1
<1>6. \A y \in Nat \ {0} : 0 \div y = 0 OBVIOUS
<1> QED BY <1>2, <1>3, <1>4, <1>5, <1>6 DEF GrossAmount

\* A payout cap is at most the assets it caps.
LEMMA CapBelowAssets ==
    ASSUME NEW a \in Nat, NEW b \in 0 .. Bps
    PROVE  (a * b) \div Bps \in Nat /\ (a * b) \div Bps <= a
<1>1. Bps \in Nat \ {0} BY ConstantsAssumption
<1>2. a * b \in Nat /\ a * b <= a * Bps BY <1>1
<1>3. \A x \in Nat, y \in Nat \ {0}, z \in Nat : x <= z * y => x \div y <= z OBVIOUS
<1>4. \A x \in Nat, y \in Nat \ {0} : x \div y \in Nat OBVIOUS
<1> QED BY <1>1, <1>2, <1>3, <1>4

-----------------------------------------------------------------------------
(* Types of the records each operation stores *)

\* The values that stand for "no root" are well formed.
LEMMA NoRowsType == NoRows \in Settlement /\ NoBudget \in [Pools -> Nat]
BY DEF NoRows, Settlement, NoBudget

\* The record _openIncident stores is an incident.
LEMMA NewIncidentType ==
    ASSUME NEW t \in Tokens, NEW assets \in [Pools -> Nat], TypeOK
    PROVE  NewIncident(t, assets) \in Incident
<1>1. registry \in Registry /\ now \in Nat /\ scoreSpent \in [Users -> Nat]
  BY DEF TypeOK, ConfigType
<1>2. /\ registry.phaseWindow \in Windows /\ registry.feeShareBps \in Fees
      /\ registry.coverPools \in SUBSET Pools /\ registry.maxPayoutBps \in CapChoices
  BY <1>1 DEF Registry
<1>3. /\ registry.phaseWindow \in Nat /\ registry.feeShareBps \in 0 .. (Bps - 1)
      /\ registry.maxPayoutBps \in 0 .. Bps /\ now + registry.phaseWindow \in Nat
  <2>1. registry.phaseWindow \in Nat BY <1>2, ConstantsAssumption
  <2>2. /\ registry.feeShareBps \in 0 .. (Bps - 1)
        /\ registry.maxPayoutBps \in 1 .. (Bps - 1)
    BY <1>2, ConstantsAssumption, Zenon
  <2>3. Bps \in Nat BY ConstantsAssumption
  <2>4. registry.maxPayoutBps \in 0 .. Bps BY <2>2, <2>3
  <2> QED BY <1>1, <2>1, <2>2, <2>4
<1>4. [p \in Pools |-> IF p \in registry.coverPools
           THEN (assets[p] * registry.maxPayoutBps) \div Bps ELSE 0] \in [Pools -> Nat]
  BY <1>3, CapBelowAssets
<1>5. [u \in Users |-> 0] \in [Users -> Nat] /\ <<>> \in Seq(Int) OBVIOUS
<1> QED BY <1>1, <1>2, <1>3, <1>4, <1>5, NoRowsType DEF NewIncident, Incident

\* fileClaim keeps the incident it joins well formed.
LEMMA JoinedType ==
    ASSUME NEW inc \in Incident, NEW u \in Users, NEW k \in Nat
    PROVE  Joined(inc, u, k) \in Incident
<1>1. /\ inc.unresolvedClaims \in Nat /\ inc.claimSet \in Seq(Int)
      /\ inc.claimIdOf \in [Users -> Nat]
  BY DEF Incident
<1>2. /\ inc.unresolvedClaims + 1 \in Nat /\ Append(inc.claimSet, k) \in Seq(Int)
      /\ [inc.claimIdOf EXCEPT ![u] = k] \in [Users -> Nat]
  BY <1>1
<1> QED BY <1>2 DEF Joined, Incident

\* So does cancelClaim, when the incident has an unresolved claim to subtract.
LEMMA LeftType ==
    ASSUME NEW inc \in Incident, NEW u \in Users, NEW k \in Nat,
           inc.unresolvedClaims # 0
    PROVE  Left(inc, u, k) \in Incident
<1>1. /\ inc.unresolvedClaims \in Nat /\ inc.claimSet \in Seq(Int)
      /\ inc.claimIdOf \in [Users -> Nat] /\ -k \in Int
  BY DEF Incident
<1>2. /\ inc.unresolvedClaims - 1 \in Nat /\ Append(inc.claimSet, -k) \in Seq(Int)
      /\ [inc.claimIdOf EXCEPT ![u] = 0] \in [Users -> Nat]
  BY <1>1
<1> QED BY <1>2 DEF Left, Incident

\* So does finalizeClaim, under the same condition.
LEMMA OneResolvedType ==
    ASSUME NEW inc \in Incident, inc.unresolvedClaims # 0, now \in Nat
    PROVE  OneResolved(inc) \in Incident
<1>1. inc.unresolvedClaims \in Nat /\ inc.resolvedAt \in Nat BY DEF Incident
<1>2. inc.unresolvedClaims - 1 \in Nat BY <1>1
<1> QED BY <1>1, <1>2 DEF OneResolved, Incident

\* A payable row draws no more than the budget and the assets of each pool.
LEMMA DrawBounded ==
    ASSUME NEW inc \in Incident, NEW row \in Row, NEW p \in Pools,
           Payable(inc, row), poolAssets \in [Pools -> Nat]
    PROVE  /\ Draw(inc, row, p) \in Nat
           /\ Draw(inc, row, p) <= inc.poolBudget[p]
           /\ Draw(inc, row, p) <= poolAssets[p]
<1>1. /\ row.pay[p] \in Nat /\ inc.feeShareBps \in 0 .. (Bps - 1)
      /\ inc.poolBudget[p] \in Nat /\ poolAssets[p] \in Nat
  BY DEF Incident, Row
<1>2. /\ GrossAmount(row.pay[p], inc.feeShareBps) \in Nat
      /\ GrossAmount(0, inc.feeShareBps) = 0
  BY <1>1, GrossType
<1>3. CASE p \in inc.pools /\ row.pay[p] # 0
  BY <1>2, <1>3 DEF Payable, Draw
<1>4. CASE p \in inc.pools /\ row.pay[p] = 0
  BY <1>1, <1>2, <1>4 DEF Draw
<1>5. CASE p \notin inc.pools
  BY <1>1, <1>5 DEF Draw
<1> QED BY <1>3, <1>4, <1>5

\* _payClaimAmounts never takes a remaining budget below zero.
LEMMA ChargedType ==
    ASSUME NEW inc \in Incident, NEW row \in Row, Payable(inc, row),
           poolAssets \in [Pools -> Nat]
    PROVE  Charged(inc, row) \in Incident
<1>1. inc.poolBudget \in [Pools -> Nat] BY DEF Incident
<1>2. [p \in Pools |-> inc.poolBudget[p] - Draw(inc, row, p)] \in [Pools -> Nat]
  <2>1. ASSUME NEW p \in Pools PROVE inc.poolBudget[p] - Draw(inc, row, p) \in Nat
    BY <1>1, DrawBounded
  <2> QED BY <2>1
<1> QED BY <1>2 DEF Charged, Incident

\* _commitRoot stores a well-formed incident.
LEMMA CommittedType ==
    ASSUME NEW inc \in Incident, NEW source \in {"tee", "admin"},
           NEW rows \in Settlement, NEW budget \in [Pools -> Nat], now \in Nat
    PROVE  Committed(inc, source, rows, budget) \in Incident
<1>1. inc.phaseWindow \in Nat
  BY ConstantsAssumption DEF Incident
<1>2. now + inc.phaseWindow \in Nat BY <1>1
<1> QED BY <1>1, <1>2 DEF Committed, Incident

\* So does the voiding branch of adminCorrectSettlement.
LEMMA VoidedType ==
    ASSUME NEW inc \in Incident, now \in Nat
    PROVE  Voided(inc) \in Incident
BY NoRowsType DEF Voided, Incident

-----------------------------------------------------------------------------
(* The inductive invariant *)

\* A nonzero index entry names a claim of that incident and that account.
IndexSound ==
    \A i \in DOMAIN incidents, u \in Users :
        LET k == incidents[i].claimIdOf[u] IN
        k # 0 => k \in DOMAIN claims /\ claims[k].incidentId = i /\ claims[k].user = u

\* SpentSnapshotFresh, and until a root stands, for every account: anybody may
\* still join the incident.
SpentUnmoved ==
    PayoutIncidentActive =>
        \A u \in Users :
            \/ incidents[ActiveIncidentId].root = "none"
            \/ \E k \in OpenClaims(ActiveIncidentId) : claims[k].user = u
            => scoreSpent[u] = incidents[ActiveIncidentId].spentAtOpen[u]

Inv == /\ TypeOK
       /\ IndexSound
       /\ UnresolvedMatchesClaims
       /\ OpenClaimIsIndexed
       /\ EarlierIncidentsClosed
       /\ BudgetBacked
       /\ SpentUnmoved

\* The counter of an incident with an open claim is not zero, so no checked
\* subtraction of finalizeClaim or cancelClaim underflows.
LEMMA OpenClaimCounted ==
    ASSUME TypeOK, UnresolvedMatchesClaims, NEW k \in DOMAIN claims, ~Resolved(k)
    PROVE  /\ claims[k].incidentId \in 1 .. Len(incidents)
           /\ incidents[claims[k].incidentId] \in Incident
           /\ incidents[claims[k].incidentId].unresolvedClaims # 0
<1> DEFINE i == claims[k].incidentId
<1>1. /\ incidents \in Seq(Incident) /\ claims \in Seq(Claim) /\ i \in DOMAIN incidents
      /\ DOMAIN incidents = 1 .. Len(incidents) /\ DOMAIN claims = 1 .. Len(claims)
      /\ Len(claims) \in Nat
  BY DEF TypeOK, LedgerType
<1>2. incidents[i] \in Incident BY <1>1, ElementOfSeq
<1>3. IsFiniteSet(OpenClaims(i))
  <2> DEFINE n == Len(claims)
  <2>1. 1 \in Int /\ n \in Int BY <1>1
  <2>2. IsFiniteSet(1 .. n)
    <3> HIDE DEF n
    <3> QED BY <2>1, FS_Interval, Zenon
  <2>3. OpenClaims(i) \subseteq 1 .. n BY <1>1 DEF OpenClaims, ClaimsOf
  <2> QED BY <2>2, <2>3, FS_Subset
<1>4. k \in OpenClaims(i) BY DEF OpenClaims, ClaimsOf, Resolved
<1>5. Cardinality(OpenClaims(i)) # 0 BY <1>3, <1>4, FS_EmptySet
<1> QED BY <1>1, <1>2, <1>5 DEF UnresolvedMatchesClaims

\* fileClaim's transfers only add to the custody counters.
LEMMA TakeCustodyType ==
    ASSUME CustodyType, claimBondAmount \in Nat,
           NEW t \in Tokens, NEW a \in Nat, NEW b \in Nat, TakeCustody(t, a, b)
    PROVE  CustodyType'
BY DEF TakeCustody, CustodyType

\* The checked subtractions of a release keep every custody counter natural.
LEMMA ReleaseCustodyType ==
    ASSUME TypeOK, UnresolvedMatchesClaims, NEW k \in DOMAIN claims, ~Resolved(k),
           NEW tokensOut \in Nat, NEW boostersOut \in Nat,
           ReleaseCustody(k, tokensOut, boostersOut)
    PROVE  CustodyType'
<1> DEFINE c == claims[k]
           t == incidents[c.incidentId].insuredToken
<1>1. CustodyType /\ claims \in Seq(Claim) BY DEF TypeOK, LedgerType
<1>2. c \in Claim BY <1>1, ElementOfSeq, LenProperties
<1>3. incidents[c.incidentId] \in Incident BY OpenClaimCounted
<1>4. t \in Tokens /\ c.amount \in Nat /\ c.bond \in Nat BY <1>2, <1>3 DEF Incident, Claim
<1>5. Usd8 \in Tokens BY ConstantsAssumption
<1>6. /\ c.amount <= escrowedInsuredTokens[t] /\ c.bond <= escrowedClaimBonds
      /\ tokensOut + (IF t = Usd8 THEN c.bond ELSE 0) <= held[t]
      /\ c.bond <= held[Usd8] /\ boostersOut <= heldBoosters
  BY DEF ReleaseCustody, Releasable, BondOwed
<1>7. /\ escrowedInsuredTokens' = [escrowedInsuredTokens EXCEPT ![t] = @ - c.amount]
      /\ escrowedClaimBonds' = escrowedClaimBonds - c.bond
      /\ held' = [x \in Tokens |-> held[x] - (IF x = t THEN tokensOut ELSE 0)
                                     - (IF x = Usd8 THEN c.bond ELSE 0)]
      /\ heldBoosters' = heldBoosters - boostersOut
  BY DEF ReleaseCustody, BondOwed
<1> HIDE DEF c, t
<1>8. escrowedInsuredTokens' \in [Tokens -> Nat] /\ escrowedClaimBonds' \in Nat
      /\ heldBoosters' \in Nat
  <2>1. escrowedInsuredTokens[t] \in Nat BY <1>1, <1>4 DEF CustodyType
  <2>2. escrowedInsuredTokens[t] - c.amount \in Nat
    <3>1. c.amount \in Nat /\ c.amount <= escrowedInsuredTokens[t] BY <1>4, <1>6
    <3> QED BY <2>1, <3>1
  <2>3. escrowedInsuredTokens' \in [Tokens -> Nat] BY <2>2, <1>1, <1>4, <1>7 DEF CustodyType
  <2>4. escrowedClaimBonds' \in Nat
    <3>1. escrowedClaimBonds \in Nat BY <1>1 DEF CustodyType
    <3>2. c.bond \in Nat /\ c.bond <= escrowedClaimBonds BY <1>4, <1>6
    <3>3. escrowedClaimBonds - c.bond \in Nat BY <3>1, <3>2
    <3> QED BY <3>3, <1>7
  <2>5. heldBoosters' \in Nat
    <3>1. heldBoosters \in Nat BY <1>1 DEF CustodyType
    <3>2. heldBoosters - boostersOut \in Nat BY <3>1, <1>6
    <3> QED BY <3>2, <1>7
  <2> QED BY <2>3, <2>4, <2>5
<1>9. ASSUME NEW x \in Tokens
      PROVE  held[x] - (IF x = t THEN tokensOut ELSE 0)
                     - (IF x = Usd8 THEN c.bond ELSE 0) \in Nat
  <2>1. held[x] \in Nat /\ c.bond \in Nat /\ tokensOut \in Nat
    BY <1>1, <1>4 DEF CustodyType
  <2>2. CASE x = t
    <3>1. tokensOut + (IF x = Usd8 THEN c.bond ELSE 0) <= held[x]
      BY <1>6, <2>2
    <3> QED BY <2>1, <2>2, <3>1
  <2>3. CASE x # t
    <3>1. (IF x = Usd8 THEN c.bond ELSE 0) <= held[x]
      BY <1>6, <2>1
    <3> QED BY <2>1, <2>3, <3>1
  <2> QED BY <2>2, <2>3
<1> QED BY <1>7, <1>8, <1>9 DEF CustodyType

-----------------------------------------------------------------------------
(* How the two ledgers, incidents and claims, change *)

\* Storing one incident record leaves the others alone.
LEMMA UpdateIncident ==
    ASSUME incidents \in Seq(Incident), NEW i \in 1 .. Len(incidents),
           NEW e \in Incident, incidents' = [incidents EXCEPT ![i] = e]
    PROVE  /\ incidents' \in Seq(Incident)
           /\ Len(incidents') = Len(incidents)
           /\ DOMAIN incidents' = DOMAIN incidents
           /\ incidents'[i] = e
           /\ \A j \in DOMAIN incidents : j # i => incidents'[j] = incidents[j]
<1>1. /\ incidents' \in Seq(Incident) /\ Len(incidents') = Len(incidents)
      /\ \A j \in 1 .. Len(incidents) :
            incidents'[j] = IF j = i THEN e ELSE incidents[j]
  BY ExceptSeq
<1>2. DOMAIN incidents' = 1 .. Len(incidents') /\ DOMAIN incidents = 1 .. Len(incidents)
  BY <1>1, LenProperties
<1> QED BY <1>1, <1>2

\* Opening an incident leaves the existing ones alone.
LEMMA AppendIncident ==
    ASSUME incidents \in Seq(Incident), NEW e \in Incident,
           incidents' = Append(incidents, e)
    PROVE  /\ incidents' \in Seq(Incident)
           /\ Len(incidents') = Len(incidents) + 1
           /\ DOMAIN incidents' = 1 .. (Len(incidents) + 1)
           /\ DOMAIN incidents = 1 .. Len(incidents)
           /\ Len(incidents) \in Nat
           /\ incidents'[Len(incidents) + 1] = e
           /\ \A j \in DOMAIN incidents : incidents'[j] = incidents[j]
<1>1. DOMAIN incidents = 1 .. Len(incidents) /\ Len(incidents) \in Nat
  BY LenProperties
<1>2. /\ incidents' \in Seq(Incident) /\ Len(incidents') = Len(incidents) + 1
      /\ incidents'[Len(incidents) + 1] = e
      /\ \A j \in 1 .. Len(incidents) : incidents'[j] = incidents[j]
  BY AppendProperties
<1>3. DOMAIN incidents' = 1 .. Len(incidents') BY <1>2, LenProperties
<1> QED BY <1>1, <1>2, <1>3

\* Filing a claim leaves the existing ones alone.
LEMMA AppendClaim ==
    ASSUME claims \in Seq(Claim), NEW e \in Claim, claims' = Append(claims, e)
    PROVE  /\ claims' \in Seq(Claim)
           /\ Len(claims') = Len(claims) + 1
           /\ DOMAIN claims' = 1 .. (Len(claims) + 1)
           /\ DOMAIN claims = 1 .. Len(claims)
           /\ Len(claims) \in Nat
           /\ claims'[Len(claims) + 1] = e
           /\ \A j \in DOMAIN claims : claims'[j] = claims[j]
<1>1. DOMAIN claims = 1 .. Len(claims) /\ Len(claims) \in Nat
  BY LenProperties
<1>2. /\ claims' \in Seq(Claim) /\ Len(claims') = Len(claims) + 1
      /\ claims'[Len(claims) + 1] = e
      /\ \A j \in 1 .. Len(claims) : claims'[j] = claims[j]
  BY AppendProperties
<1>3. DOMAIN claims' = 1 .. Len(claims') BY <1>2, LenProperties
<1> QED BY <1>1, <1>2, <1>3

\* Resolving a claim changes its outcome and nothing else.
LEMMA ResolveClaim ==
    ASSUME claims \in Seq(Claim), NEW k \in DOMAIN claims, NEW o \in Outcomes \ {"open"},
           claims' = [claims EXCEPT ![k].outcome = o]
    PROVE  /\ claims' \in Seq(Claim)
           /\ Len(claims') = Len(claims)
           /\ DOMAIN claims' = DOMAIN claims
           /\ claims'[k].outcome = o
           /\ \A j \in DOMAIN claims :
                 /\ claims'[j].user = claims[j].user
                 /\ claims'[j].incidentId = claims[j].incidentId
                 /\ claims'[j].amount = claims[j].amount
                 /\ claims'[j].booster = claims[j].booster
                 /\ j # k => claims'[j] = claims[j]
<1> DEFINE e == [claims[k] EXCEPT !.outcome = o]
<1>1. DOMAIN claims = 1 .. Len(claims) /\ k \in 1 .. Len(claims) BY LenProperties
<1>2. claims[k] \in Claim BY <1>1, ElementOfSeq
<1>3. /\ e \in Claim /\ e.outcome = o /\ e.user = claims[k].user
      /\ e.incidentId = claims[k].incidentId
      /\ e.amount = claims[k].amount /\ e.booster = claims[k].booster
  BY <1>2 DEF Claim
<1>4. claims' = [claims EXCEPT ![k] = e] OBVIOUS
<1> HIDE DEF e
<1>5. /\ claims' \in Seq(Claim) /\ Len(claims') = Len(claims)
      /\ \A j \in 1 .. Len(claims) : claims'[j] = IF j = k THEN e ELSE claims[j]
  BY <1>1, <1>3, <1>4, ExceptSeq
<1>6. DOMAIN claims' = 1 .. Len(claims') BY <1>5, LenProperties
<1> QED BY <1>1, <1>3, <1>5, <1>6

-----------------------------------------------------------------------------
(* Type correctness of a step *)

\* _activeIncidentId only ever names the newest incident.
LEMMA ActiveIsLast ==
    ASSUME TypeOK, ActiveIncidentId # 0
    PROVE  /\ ActiveIncidentId = Len(incidents)
           /\ ActiveIncidentId \in 1 .. Len(incidents)
           /\ ActiveIncidentId \in DOMAIN incidents
           /\ incidents[ActiveIncidentId] \in Incident
<1>1. incidents \in Seq(Incident) BY DEF TypeOK, LedgerType
<1>2. Len(incidents) \in Nat /\ DOMAIN incidents = 1 .. Len(incidents) BY <1>1, LenProperties
<1>3. ActiveIncidentId = Len(incidents) /\ ActiveIncidentId \in 1 .. Len(incidents)
  BY <1>2 DEF ActiveIncidentId
<1>4. incidents[ActiveIncidentId] \in Incident BY <1>1, <1>3, ElementOfSeq
<1> QED BY <1>2, <1>3, <1>4

\* The input sets hold what their names say.
LEMMA ConstantSets ==
    /\ Amounts \subseteq Nat /\ Boosters \subseteq Nat /\ Bonds \subseteq Nat
    /\ PoolLevels \subseteq Nat /\ BudgetChoices \subseteq Nat
    /\ RowChoices \subseteq Row /\ MaxClaims \in Nat
BY ConstantsAssumption

\* Settling matured exits leaves natural balances.
LEMMA ExitAssetsType ==
    ASSUME TypeOK, NEW assets \in {poolAssets} \cup ExitOutcomes
    PROVE  assets \in [Pools -> Nat]
BY ConstantSets DEF TypeOK, PoolType, ExitOutcomes

\* openClaimIncident keeps the state well formed.
LEMMA OpenClaimIncidentType ==
    ASSUME TypeOK, NEW t \in Tokens, OpenClaimIncident(t)
    PROVE  TypeOK'
<1>1. PICK assets \in {poolAssets} \cup ExitOutcomes :
         poolAssets' = assets /\ incidents' = Append(incidents, NewIncident(t, assets))
  BY DEF OpenClaimIncident
<1>2. assets \in [Pools -> Nat] BY ExitAssetsType
<1>3. NewIncident(t, assets) \in Incident BY <1>2, NewIncidentType
<1>4. incidents \in Seq(Incident) BY DEF TypeOK, LedgerType
<1>5. /\ incidents' \in Seq(Incident) /\ DOMAIN incidents' = 1 .. (Len(incidents) + 1)
      /\ DOMAIN incidents = 1 .. Len(incidents) /\ Len(incidents) \in Nat
  BY <1>1, <1>3, <1>4, AppendIncident
<1>6. LedgerType'
  BY <1>5 DEF OpenClaimIncident, TypeOK, LedgerType
<1>7. CustodyType' /\ ConfigType'
  BY DEF OpenClaimIncident, TypeOK, CustodyType, ConfigType, configVars, custodyVars
<1>8. PoolType' BY <1>1, <1>2 DEF OpenClaimIncident, TypeOK, PoolType
<1> QED BY <1>6, <1>7, <1>8 DEF TypeOK

\* The record fileClaim stores is a claim.
LEMMA NewClaimType ==
    ASSUME TypeOK, NEW u \in Users, NEW i \in Nat, NEW a \in Amounts, NEW b \in Boosters
    PROVE  NewClaim(u, i, a, b) \in Claim
BY ConstantSets DEF TypeOK, ConfigType, NewClaim, Claim, Outcomes

\* fileClaim that opens an incident keeps the state well formed.
LEMMA FileOpeningClaimType ==
    ASSUME TypeOK, NEW u \in Users, NEW t \in Tokens, NEW a \in Amounts, NEW b \in Boosters,
           FileOpeningClaim(u, t, a, b)
    PROVE  TypeOK'
<1>1. PICK assets \in {poolAssets} \cup ExitOutcomes :
         /\ poolAssets' = assets
         /\ incidents' = Append(incidents,
                Joined(NewIncident(t, assets), u, Len(claims) + 1))
  BY DEF FileOpeningClaim
<1>2. assets \in [Pools -> Nat] BY ExitAssetsType
<1>3. NewIncident(t, assets) \in Incident BY <1>2, NewIncidentType
<1>4. /\ incidents \in Seq(Incident) /\ claims \in Seq(Claim)
      /\ Len(claims) \in Nat /\ Len(incidents) \in Nat
  BY DEF TypeOK, LedgerType
<1>5. Joined(NewIncident(t, assets), u, Len(claims) + 1) \in Incident
  BY <1>3, <1>4, JoinedType
<1>6. /\ incidents' \in Seq(Incident) /\ DOMAIN incidents' = 1 .. (Len(incidents) + 1)
      /\ DOMAIN incidents = 1 .. Len(incidents)
  BY <1>1, <1>4, <1>5, AppendIncident
<1>7. NewClaim(u, Len(incidents) + 1, a, b) \in Claim BY <1>4, NewClaimType
<1>8. claims' = Append(claims, NewClaim(u, Len(incidents) + 1, a, b))
  BY DEF FileOpeningClaim
<1>9. /\ claims' \in Seq(Claim) /\ Len(claims') = Len(claims) + 1
      /\ DOMAIN claims' = 1 .. (Len(claims) + 1) /\ DOMAIN claims = 1 .. Len(claims)
      /\ claims'[Len(claims) + 1] = NewClaim(u, Len(incidents) + 1, a, b)
      /\ \A j \in DOMAIN claims : claims'[j] = claims[j]
  BY <1>4, <1>7, <1>8, AppendClaim
<1>10. LedgerType'
  <2>1. Len(claims') <= MaxClaims
    BY <1>4, <1>9, ConstantSets DEF FileOpeningClaim
  <2>2. ASSUME NEW k \in DOMAIN claims' PROVE claims'[k].incidentId \in DOMAIN incidents'
    <3>1. CASE k = Len(claims) + 1
      BY <3>1, <1>4, <1>6, <1>9 DEF NewClaim
    <3>2. CASE k \in DOMAIN claims
      BY <3>2, <1>4, <1>6, <1>9 DEF TypeOK, LedgerType
    <3> QED BY <3>1, <3>2, <1>4, <1>9
  <2> QED BY <2>1, <2>2, <1>6, <1>9 DEF LedgerType
<1>11. CustodyType'
  <2>1. a \in Nat /\ b \in Nat /\ claimBondAmount \in Nat
    BY ConstantSets DEF TypeOK, ConfigType
  <2> QED BY <2>1, TakeCustodyType DEF FileOpeningClaim, TypeOK
<1>12. ConfigType' BY DEF FileOpeningClaim, TypeOK, ConfigType, configVars
<1>13. PoolType' BY <1>1, <1>2 DEF FileOpeningClaim, TypeOK, PoolType
<1> QED BY <1>10, <1>11, <1>12, <1>13 DEF TypeOK

\* fileClaim into the active incident keeps the state well formed.
LEMMA FileClaimType ==
    ASSUME TypeOK, NEW u \in Users, NEW a \in Amounts, NEW b \in Boosters,
           FileClaim(u, a, b)
    PROVE  TypeOK'
<1> DEFINE i == ActiveIncidentId
           e == Joined(incidents[i], u, Len(claims) + 1)
           c == NewClaim(u, i, a, b)
<1>1. i # 0 BY DEF FileClaim
<1>2. i \in 1 .. Len(incidents) /\ i \in DOMAIN incidents /\ incidents[i] \in Incident
  BY <1>1, ActiveIsLast
<1>3. incidents \in Seq(Incident) /\ claims \in Seq(Claim) /\ Len(claims) \in Nat
  BY DEF TypeOK, LedgerType
<1>4. incidents' = [incidents EXCEPT ![i] = e] /\ claims' = Append(claims, c)
  BY DEF FileClaim
<1>5. e \in Incident BY <1>2, <1>3, JoinedType
<1>6. c \in Claim /\ c.incidentId = i
  <2>1. i \in Nat BY <1>2
  <2> QED BY <2>1, NewClaimType DEF NewClaim
<1>7. incidents[i].insuredToken \in Tokens BY <1>2 DEF Incident
<1> HIDE DEF i, e, c
<1>8. incidents' \in Seq(Incident) /\ DOMAIN incidents' = DOMAIN incidents
  BY <1>2, <1>3, <1>4, <1>5, UpdateIncident
<1>9. /\ claims' \in Seq(Claim) /\ Len(claims') = Len(claims) + 1
      /\ DOMAIN claims' = 1 .. (Len(claims) + 1) /\ DOMAIN claims = 1 .. Len(claims)
      /\ claims'[Len(claims) + 1] = c
      /\ \A j \in DOMAIN claims : claims'[j] = claims[j]
  BY <1>3, <1>4, <1>6, AppendClaim
<1>10. LedgerType'
  <2>1. Len(claims') <= MaxClaims
    BY <1>3, <1>9, ConstantSets DEF FileClaim
  <2>2. ASSUME NEW k \in DOMAIN claims' PROVE claims'[k].incidentId \in DOMAIN incidents'
    <3>1. CASE k = Len(claims) + 1 BY <3>1, <1>2, <1>6, <1>8, <1>9
    <3>2. CASE k \in DOMAIN claims BY <3>2, <1>8, <1>9 DEF TypeOK, LedgerType
    <3> QED BY <3>1, <3>2, <1>3, <1>9
  <2> QED BY <2>1, <2>2, <1>8, <1>9 DEF LedgerType
<1>11. CustodyType'
  <2>1. a \in Nat /\ b \in Nat /\ claimBondAmount \in Nat
    BY ConstantSets DEF TypeOK, ConfigType
  <2>2. TakeCustody(incidents[i].insuredToken, a, b) BY DEF FileClaim, i
  <2> QED BY <1>7, <2>1, <2>2, TakeCustodyType DEF TypeOK
<1>12. ConfigType' /\ PoolType'
  BY DEF FileClaim, TypeOK, ConfigType, PoolType, configVars
<1> QED BY <1>10, <1>11, <1>12 DEF TypeOK

\* Resolving a claim and storing its incident keeps both ledgers well formed.
LEMMA ResolutionLedger ==
    ASSUME TypeOK, NEW k \in DOMAIN claims, NEW o \in Outcomes \ {"open"},
           claims' = [claims EXCEPT ![k].outcome = o],
           NEW i \in 1 .. Len(incidents), NEW e \in Incident,
           incidents' = [incidents EXCEPT ![i] = e]
    PROVE  LedgerType'
<1>1. incidents \in Seq(Incident) /\ claims \in Seq(Claim) BY DEF TypeOK, LedgerType
<1>2. incidents' \in Seq(Incident) /\ DOMAIN incidents' = DOMAIN incidents
  BY <1>1, UpdateIncident
<1>3. /\ claims' \in Seq(Claim) /\ Len(claims') = Len(claims)
      /\ DOMAIN claims' = DOMAIN claims
      /\ \A j \in DOMAIN claims : claims'[j].incidentId = claims[j].incidentId
  BY <1>1, ResolveClaim
<1> QED BY <1>2, <1>3 DEF TypeOK, LedgerType

\* The claim a user is indexed under exists and belongs to that incident.
LEMMA IndexedClaim ==
    ASSUME TypeOK, IndexSound, NEW i \in DOMAIN incidents, NEW u \in Users,
           incidents[i].claimIdOf[u] # 0
    PROVE  LET k == incidents[i].claimIdOf[u] IN
           k \in DOMAIN claims /\ claims[k].incidentId = i /\ claims[k].user = u
BY DEF IndexSound

\* A stored claim has natural amounts and a known user.
LEMMA ClaimFields ==
    ASSUME TypeOK, NEW k \in DOMAIN claims
    PROVE  /\ claims[k].amount \in Nat /\ claims[k].booster \in Nat
           /\ claims[k].bond \in Nat /\ claims[k].user \in Users /\ k \in Nat
           /\ k # 0
<1>1. claims \in Seq(Claim) BY DEF TypeOK, LedgerType
<1>2. DOMAIN claims = 1 .. Len(claims) BY <1>1, LenProperties
<1>3. claims[k] \in Claim BY <1>1, <1>2, ElementOfSeq
<1> QED BY <1>2, <1>3 DEF Claim

\* cancelClaim keeps the state well formed.
LEMMA CancelClaimType ==
    ASSUME TypeOK, IndexSound, UnresolvedMatchesClaims, NEW u \in Users, CancelClaim(u)
    PROVE  TypeOK'
<1> DEFINE i == ActiveIncidentId
           k == incidents[i].claimIdOf[u]
           e == Left(incidents[i], u, k)
<1>1. i # 0 /\ k # 0 /\ ~Resolved(k) BY DEF CancelClaim
<1>2. i \in 1 .. Len(incidents) /\ i \in DOMAIN incidents /\ incidents[i] \in Incident
  BY <1>1, ActiveIsLast
<1>3. k \in DOMAIN claims /\ claims[k].incidentId = i BY <1>1, <1>2, IndexedClaim
<1>4. claims' = [claims EXCEPT ![k].outcome = "cancelled"]
      /\ incidents' = [incidents EXCEPT ![i] = e]
      /\ ReleaseCustody(k, claims[k].amount, claims[k].booster)
  BY DEF CancelClaim
<1>5. e \in Incident
  <2>1. incidents[i].unresolvedClaims # 0 BY <1>1, <1>3, OpenClaimCounted
  <2>2. k \in Nat BY <1>3, ClaimFields
  <2> QED BY <1>2, <2>1, <2>2, LeftType
<1> HIDE DEF i, k, e
<1>6. LedgerType'
  <2>1. "cancelled" \in Outcomes \ {"open"} BY DEF Outcomes
  <2> QED BY <1>2, <1>3, <1>4, <1>5, <2>1, ResolutionLedger
<1>7. CustodyType'
  BY <1>1, <1>3, <1>4, ClaimFields, ReleaseCustodyType
<1>8. ConfigType' /\ PoolType'
  BY DEF CancelClaim, TypeOK, ConfigType, PoolType, configVars
<1> QED BY <1>6, <1>7, <1>8 DEF TypeOK

\* finalizeClaim without a payout keeps the state well formed, on either branch.
LEMMA ReturnType ==
    ASSUME TypeOK, UnresolvedMatchesClaims, NEW k \in DOMAIN claims,
           \/ \E byClaimant \in BOOLEAN : DeclinePayout(k, byClaimant)
           \/ RecoverClaim(k)
    PROVE  TypeOK'
<1> DEFINE i == claims[k].incidentId
           e == OneResolved(incidents[i])
<1>1. PICK o \in {"declined", "recovered"} :
         claims' = [claims EXCEPT ![k].outcome = o]
  BY DEF DeclinePayout, RecoverClaim
<1>2. /\ ~Resolved(k) /\ incidents' = [incidents EXCEPT ![i] = e]
      /\ ReleaseCustody(k, claims[k].amount, claims[k].booster)
  BY DEF DeclinePayout, RecoverClaim
<1>3. /\ i \in 1 .. Len(incidents) /\ incidents[i] \in Incident
      /\ incidents[i].unresolvedClaims # 0
  BY <1>2, OpenClaimCounted
<1>4. e \in Incident BY <1>3, OneResolvedType DEF TypeOK, ConfigType
<1> HIDE DEF i, e
<1>5. LedgerType'
  <2>1. o \in Outcomes \ {"open"} BY DEF Outcomes
  <2> QED BY <1>1, <1>2, <1>3, <1>4, <2>1, ResolutionLedger
<1>6. CustodyType' BY <1>2, ClaimFields, ReleaseCustodyType
<1>7. ConfigType' /\ PoolType'
  BY DEF DeclinePayout, RecoverClaim, TypeOK, ConfigType, PoolType, configVars
<1> QED BY <1>5, <1>6, <1>7 DEF TypeOK

\* The row a root proves for a claim is well formed.
LEMMA RowType ==
    ASSUME TypeOK, NEW k \in DOMAIN claims, NEW inc \in Incident, inc.rows[k] # NoRow
    PROVE  inc.rows[k] \in Row
<1>1. claims \in Seq(Claim) /\ Len(claims) <= MaxClaims BY DEF TypeOK, LedgerType
<1>2. k \in 1 .. Len(claims) /\ Len(claims) \in Nat BY <1>1, LenProperties
<1>3. k \in ClaimIds BY <1>1, <1>2, ConstantSets DEF ClaimIds
<1>4. inc.rows \in Settlement BY DEF Incident
<1> QED BY <1>3, <1>4 DEF Settlement

\* Resolving a claim does not change what the incident may draw.
LEMMA OneResolvedPayable ==
    ASSUME NEW inc \in Incident, NEW row \in Row
    PROVE  /\ Payable(OneResolved(inc), row) = Payable(inc, row)
           /\ \A p \in Pools : Draw(OneResolved(inc), row, p) = Draw(inc, row, p)
           /\ OneResolved(inc).poolBudget = inc.poolBudget
<1>1. /\ OneResolved(inc).pools = inc.pools
      /\ OneResolved(inc).poolBudget = inc.poolBudget
      /\ OneResolved(inc).feeShareBps = inc.feeShareBps
  BY DEF OneResolved, Incident
<1> QED BY <1>1 DEF Payable, Draw

\* finalizeClaim with a payout keeps the state well formed: budgets, pool assets
\* and custody all cover what leaves.
LEMMA AcceptPayoutType ==
    ASSUME TypeOK, UnresolvedMatchesClaims, NEW k \in DOMAIN claims, AcceptPayout(k)
    PROVE  TypeOK'
<1> DEFINE i == claims[k].incidentId
           inc == incidents[i]
           row == inc.rows[k]
           e == Charged(OneResolved(inc), row)
<1>1. /\ ~Resolved(k) /\ RowUsable(k) /\ Payable(inc, row)
      /\ claims' = [claims EXCEPT ![k].outcome = "paid"]
      /\ incidents' = [incidents EXCEPT ![i] = e]
      /\ poolAssets' = [p \in Pools |-> poolAssets[p] - Draw(inc, row, p)]
      /\ scoreSpent' = [scoreSpent EXCEPT ![claims[k].user] = @ + row.score]
      /\ ReleaseCustody(k, claims[k].amount - row.eligible, claims[k].booster)
      /\ UNCHANGED <<now, registry, configVars, signed>>
  BY DEF AcceptPayout
<1>2. i \in 1 .. Len(incidents) /\ inc \in Incident /\ inc.unresolvedClaims # 0
  BY <1>1, OpenClaimCounted
<1>3. row # NoRow /\ row.eligible <= claims[k].amount BY <1>1 DEF RowUsable
<1>4. row \in Row BY <1>2, <1>3, RowType
<1>5. e \in Incident
  <2>1. OneResolved(inc) \in Incident BY <1>2, OneResolvedType DEF TypeOK, ConfigType
  <2>2. Payable(OneResolved(inc), row) BY <1>1, <1>2, <1>4, OneResolvedPayable
  <2> QED BY <1>4, <2>1, <2>2, ChargedType DEF TypeOK, PoolType
<1>6. row.eligible \in Nat /\ row.score \in Nat BY <1>4 DEF Row
<1>7. PoolType'
  <2>1. poolAssets \in [Pools -> Nat] BY DEF TypeOK, PoolType
  <2>2. ASSUME NEW p \in Pools PROVE poolAssets[p] - Draw(inc, row, p) \in Nat
    <3>1. Draw(inc, row, p) \in Nat /\ Draw(inc, row, p) <= poolAssets[p]
      BY <1>1, <1>2, <1>4, <2>1, DrawBounded
    <3> HIDE DEF inc, row
    <3> QED BY <2>1, <3>1
  <2> HIDE DEF inc, row
  <2> QED BY <1>1, <2>2 DEF TypeOK, PoolType
<1>8. ConfigType'
  BY <1>1, <1>6, ClaimFields DEF TypeOK, ConfigType, configVars
<1> HIDE DEF i, inc, row, e
<1>9. LedgerType'
  <2>1. "paid" \in Outcomes \ {"open"} BY DEF Outcomes
  <2> QED BY <1>1, <1>2, <1>5, <2>1, ResolutionLedger
<1>10. CustodyType'
  <2>1. claims[k].amount - row.eligible \in Nat /\ claims[k].booster \in Nat
    BY <1>3, <1>6, ClaimFields
  <2> QED BY <1>1, <2>1, ReleaseCustodyType
<1> QED BY <1>7, <1>8, <1>9, <1>10 DEF TypeOK

\* A set of claims is finite.
LEMMA ClaimsFinite ==
    ASSUME TypeOK, NEW S \in SUBSET DOMAIN claims
    PROVE  IsFiniteSet(S)
<1> DEFINE n == Len(claims)
<1>1. DOMAIN claims = 1 .. n /\ n \in Nat BY LenProperties DEF TypeOK, LedgerType
<1>2. 1 \in Int /\ n \in Int BY <1>1
<1>3. IsFiniteSet(1 .. n)
  <2> HIDE DEF n
  <2> QED BY <1>2, FS_Interval, Zenon
<1> QED BY <1>1, <1>3, FS_Subset

\* What the TEE signs is well formed.
LEMMA SignSettlementType ==
    ASSUME TypeOK, NEW i \in DOMAIN incidents, SignSettlement(i)
    PROVE  TypeOK'
<1> DEFINE inc == incidents[i]
           live == {k \in ClaimsOf(i) : claims[k].outcome # "cancelled"}
           full(rows) == [k \in ClaimIds |-> IF k \in live THEN rows[k] ELSE NoRow]
<1>1. PICK rows \in [live -> RowChoices], payouts \in [Pools -> Nat] :
         signed' = signed \cup
             {[incidentId |-> i, rows |-> full(rows), poolPayouts |-> payouts,
               unresolvedClaims |-> Cardinality(live), claimSet |-> inc.claimSet]}
  BY DEF SignSettlement
<1>2. incidents \in Seq(Incident) /\ DOMAIN incidents = 1 .. Len(incidents)
  BY LenProperties DEF TypeOK, LedgerType
<1>3. i \in Nat /\ inc \in Incident BY <1>2, ElementOfSeq
<1>4. full(rows) \in Settlement BY ConstantSets DEF Settlement
<1>5. Cardinality(live) \in Nat
  <2>1. live \in SUBSET DOMAIN claims BY DEF ClaimsOf
  <2>2. IsFiniteSet(live) BY <2>1, ClaimsFinite
  <2> QED BY <2>2, FS_CardinalityType
<1>6. inc.claimSet \in Seq(Int) BY <1>3 DEF Incident
<1>7. PoolType'
  <2> DEFINE f == full(rows)
             n == Cardinality(live)
             h == inc.claimSet
             s == [incidentId |-> i, rows |-> f, poolPayouts |-> payouts,
                   unresolvedClaims |-> n, claimSet |-> h]
  <2>1. f \in Settlement /\ n \in Nat /\ h \in Seq(Int) BY <1>4, <1>5, <1>6
  <2>2. signed' = signed \cup {s} BY <1>1
  <2>3. poolAssets' = poolAssets BY DEF SignSettlement
  <2>4. s \in Signature
    <3> HIDE DEF f, n, h
    <3> QED BY <1>3, <2>1 DEF Signature
  <2> HIDE DEF s
  <2> QED BY <2>2, <2>3, <2>4 DEF TypeOK, PoolType
<1>8. ConfigType' /\ LedgerType' /\ CustodyType'
  BY DEF SignSettlement, TypeOK, ConfigType, LedgerType, CustodyType, configVars, custodyVars
<1> QED BY <1>7, <1>8 DEF TypeOK

\* Storing one incident and nothing of the claims keeps the ledgers well formed.
LEMMA IncidentLedger ==
    ASSUME TypeOK, NEW i \in 1 .. Len(incidents), NEW e \in Incident,
           incidents' = [incidents EXCEPT ![i] = e], claims' = claims
    PROVE  LedgerType'
<1>1. incidents \in Seq(Incident) BY DEF TypeOK, LedgerType
<1>2. incidents' \in Seq(Incident) /\ DOMAIN incidents' = DOMAIN incidents
  BY <1>1, UpdateIncident
<1> QED BY <1>2 DEF TypeOK, LedgerType

\* Committing a root, by relay or by correction, keeps the state well formed.
LEMMA CommitRootType ==
    ASSUME TypeOK, ActiveIncidentId # 0, NEW source \in {"tee", "admin"},
           NEW rows \in Settlement, NEW budget \in [Pools -> Nat],
           CommitRoot(ActiveIncidentId, source, rows, budget),
           UNCHANGED <<now, registry, scoreSpent, claimBondAmount, isTeeSigner,
                       claims, custodyVars, poolAssets, signed>>
    PROVE  TypeOK'
<1> DEFINE i == ActiveIncidentId
           e == Committed(incidents[i], source, rows, budget)
<1>1. i \in 1 .. Len(incidents) /\ incidents[i] \in Incident BY ActiveIsLast
<1>2. e \in Incident BY <1>1, CommittedType DEF TypeOK, ConfigType
<1>3. incidents' = [incidents EXCEPT ![i] = e] BY DEF CommitRoot
<1> HIDE DEF i, e
<1>4. LedgerType' BY <1>1, <1>2, <1>3, IncidentLedger
<1>5. ConfigType' /\ CustodyType' /\ PoolType'
  BY DEF CommitRoot, TypeOK, ConfigType, CustodyType, PoolType, custodyVars
<1> QED BY <1>4, <1>5 DEF TypeOK

\* settleIncident keeps the state well formed.
LEMMA SettleIncidentType ==
    ASSUME TypeOK, NEW s \in signed, SettleIncident(s)
    PROVE  TypeOK'
<1>1. s \in Signature BY DEF TypeOK, PoolType
<1>2. s.rows \in Settlement /\ s.poolPayouts \in [Pools -> Nat] BY <1>1 DEF Signature
<1>3. /\ ActiveIncidentId # 0
      /\ CommitRoot(ActiveIncidentId, "tee", s.rows, s.poolPayouts)
      /\ UNCHANGED <<now, registry, scoreSpent, claimBondAmount, isTeeSigner,
                     claims, custodyVars, poolAssets, signed>>
  BY DEF SettleIncident
<1> QED BY <1>2, <1>3, CommitRootType

\* The rows and budgets an admin correction can name are well formed.
LEMMA CorrectionInputs ==
    ASSUME NEW S, NEW rows \in [S -> RowChoices \cup {NoRow}],
           NEW budget \in [Pools -> BudgetChoices]
    PROVE  /\ [k \in ClaimIds |-> IF k \in DOMAIN rows THEN rows[k] ELSE NoRow] \in Settlement
           /\ budget \in [Pools -> Nat]
BY ConstantSets DEF Settlement

\* adminCorrectSettlement keeps the state well formed, with a new root...
LEMMA AdminCorrectSettlementType ==
    ASSUME TypeOK, NEW rows \in Settlement, NEW budget \in [Pools -> Nat],
           AdminCorrectSettlement(rows, budget)
    PROVE  TypeOK'
<1>1. /\ ActiveIncidentId # 0
      /\ CommitRoot(ActiveIncidentId, "admin", rows, budget)
      /\ UNCHANGED <<now, registry, scoreSpent, claimBondAmount, isTeeSigner,
                     claims, custodyVars, poolAssets, signed>>
  BY DEF AdminCorrectSettlement, CanCorrect
<1> QED BY <1>1, CommitRootType

\* ... and when it voids the incident.
LEMMA AdminVoidSettlementType ==
    ASSUME TypeOK, AdminVoidSettlement
    PROVE  TypeOK'
<1> DEFINE i == ActiveIncidentId
           e == Voided(incidents[i])
<1>1. i # 0 /\ incidents' = [incidents EXCEPT ![i] = e] BY DEF AdminVoidSettlement, CanCorrect
<1>2. i \in 1 .. Len(incidents) /\ incidents[i] \in Incident BY <1>1, ActiveIsLast
<1>3. e \in Incident BY <1>2, VoidedType DEF TypeOK, ConfigType
<1> HIDE DEF i, e
<1>4. LedgerType' BY <1>1, <1>2, <1>3, IncidentLedger DEF AdminVoidSettlement
<1>5. ConfigType' /\ CustodyType' /\ PoolType'
  BY DEF AdminVoidSettlement, TypeOK, ConfigType, CustodyType, PoolType, configVars, custodyVars
<1> QED BY <1>4, <1>5 DEF TypeOK

\* What a governance or environment step leaves to the claims is well formed.
LEMMA StaticLedger ==
    ASSUME TypeOK, UNCHANGED <<incidents, claims, signed>>
    PROVE  LedgerType' /\ (poolAssets' \in [Pools -> Nat] => PoolType')
BY DEF TypeOK, LedgerType, PoolType

\* Governance keeps the state well formed.
LEMMA GovernanceType ==
    ASSUME TypeOK, GovernanceStep
    PROVE  TypeOK'
<1>1. LedgerType' /\ PoolType'
  <2>1. UNCHANGED <<incidents, claims, signed, poolAssets>>
    BY DEF GovernanceStep, ListInsuredToken, DelistInsuredToken, SweepToken,
       SetClaimBondAmount, SetTeeSigner, RegisterModule, ReplaceModule, ClearDefiInsurance,
       EndBetaMode, SetPaused, SetPoolPaused, SetProtocolFeeConfig,
       SetIncidentTimingConfig, SetMaxCoverPoolPayoutBps, AddPool, RemovePool,
       notRegistry, claimState
  <2> QED BY <2>1, StaticLedger DEF TypeOK, PoolType
<1>2. CASE \E t \in Tokens : SweepToken(t)
  <2>1. PICK t \in Tokens : SweepToken(t) BY <1>2
  <2>2. ConfigType' BY <2>1 DEF SweepToken, TypeOK, ConfigType, configVars, claimState
  <2>3. held[t] \in Nat /\ escrowedInsuredTokens[t] \in Nat /\ escrowedClaimBonds \in Nat
    BY DEF TypeOK, CustodyType
  <2>4. held[t] - Sweepable(t) \in Nat BY <2>3 DEF Sweepable
  <2>5. CustodyType' BY <2>1, <2>4 DEF SweepToken, TypeOK, CustodyType
  <2> QED BY <1>1, <2>2, <2>5 DEF TypeOK
<1>3. CASE ~ \E t \in Tokens : SweepToken(t)
  <2>1. CustodyType'
    BY <1>3 DEF GovernanceStep, ListInsuredToken, DelistInsuredToken, SetClaimBondAmount,
       SetTeeSigner, RegisterModule, ReplaceModule, ClearDefiInsurance, EndBetaMode,
       SetPaused, SetPoolPaused, SetProtocolFeeConfig, SetIncidentTimingConfig,
       SetMaxCoverPoolPayoutBps, AddPool, RemovePool, notRegistry, custodyVars,
       TypeOK, CustodyType
  <2>2. ConfigType'
    <3>1. registry \in Registry /\ ConfigType BY DEF TypeOK, ConfigType
    <3>2. CASE \/ \E t \in TokenEdits : ListInsuredToken(t) \/ DelistInsuredToken(t)
               \/ \E b \in Bonds : SetClaimBondAmount(b)
               \/ \E b \in SignerChoices : SetTeeSigner(b)
      <4>1. TokenEdits \subseteq Tokens /\ SignerChoices \subseteq BOOLEAN
        BY ConstantsAssumption
      <4> QED BY <3>1, <3>2, <4>1 DEF ListInsuredToken, DelistInsuredToken,
               SetClaimBondAmount, SetTeeSigner, ConfigType, claimState
    <3>3. CASE registry' \in Registry /\ UNCHANGED notRegistry
      BY <3>1, <3>3 DEF ConfigType, notRegistry, configVars
    <3>4. CASE \/ RegisterModule \/ ReplaceModule
               \/ \E i \in 0 .. Len(incidents) : ClearDefiInsurance(i)
               \/ EndBetaMode
               \/ \E f \in Fees : SetProtocolFeeConfig(f)
               \/ \E w \in Windows : SetIncidentTimingConfig(w)
               \/ \E b \in CapChoices : SetMaxCoverPoolPayoutBps(b)
      <4>1. registry' \in Registry /\ UNCHANGED notRegistry
        BY <3>1, <3>4 DEF RegisterModule, ReplaceModule, ClearDefiInsurance, EndBetaMode,
           SetProtocolFeeConfig, SetIncidentTimingConfig, SetMaxCoverPoolPayoutBps, Registry
      <4> QED BY <4>1, <3>3
    <3>5. CASE \/ \E b \in PauseChoices : SetPaused(b) \/ \E p \in Pools : SetPoolPaused(p, b)
               \/ \E p \in PoolEdits : AddPool(p) \/ RemovePool(p)
      <4>1. PauseChoices \subseteq BOOLEAN /\ PoolEdits \subseteq Pools
        BY ConstantsAssumption
      <4>2. registry' \in Registry /\ UNCHANGED notRegistry
        BY <3>1, <3>5, <4>1 DEF SetPaused, SetPoolPaused, AddPool, RemovePool, Registry
      <4> QED BY <4>2, <3>3
    <3> QED BY <1>3, <3>2, <3>4, <3>5 DEF GovernanceStep
  <2> QED BY <1>1, <2>1, <2>2 DEF TypeOK
<1> QED BY <1>2, <1>3

\* So do deposits, exits, donations, other modules and the clock.
LEMMA EnvironmentType ==
    ASSUME TypeOK, EnvironmentStep
    PROVE  TypeOK'
<1>1. CASE \E p \in Pools, level \in PoolLevels : PoolFlow(p, level)
  <2>1. PICK p \in Pools, level \in PoolLevels : PoolFlow(p, level) BY <1>1
  <2>2. level \in Nat BY ConstantSets
  <2>3. poolAssets' \in [Pools -> Nat] BY <2>1, <2>2 DEF PoolFlow, TypeOK, PoolType
  <2>4. LedgerType' /\ PoolType' BY <2>1, <2>3, StaticLedger DEF PoolFlow
  <2>5. ConfigType' /\ CustodyType'
    BY <2>1 DEF PoolFlow, TypeOK, ConfigType, CustodyType, configVars, custodyVars
  <2> QED BY <2>4, <2>5 DEF TypeOK
<1>2. CASE \E u \in OtherClaimants : OtherModulePays(u)
  <2>1. PICK u \in Users : OtherModulePays(u) BY <1>2, ConstantsAssumption
  <2>2. LedgerType' /\ PoolType' BY <2>1, StaticLedger DEF OtherModulePays, TypeOK, PoolType
  <2>3. ConfigType' /\ CustodyType'
    BY <2>1 DEF OtherModulePays, TypeOK, ConfigType, CustodyType, configVars, custodyVars
  <2> QED BY <2>2, <2>3 DEF TypeOK
<1>3. CASE \E t \in Tokens, d \in Donations : Donate(t, d)
  <2>1. PICK t \in Tokens, d \in Nat : Donate(t, d) BY <1>3, ConstantsAssumption
  <2>2. LedgerType' /\ PoolType'
    BY <2>1, StaticLedger DEF Donate, claimState, TypeOK, PoolType
  <2>3. ConfigType' BY <2>1 DEF Donate, claimState, TypeOK, ConfigType, configVars
  <2>4. CustodyType' BY <2>1 DEF Donate, TypeOK, CustodyType
  <2> QED BY <2>2, <2>3, <2>4 DEF TypeOK
<1>4. CASE Tick
  <2>1. LedgerType' /\ PoolType' BY <1>4, StaticLedger DEF Tick, claimState, TypeOK, PoolType
  <2>2. ConfigType' /\ CustodyType'
    BY <1>4, ConstantsAssumption DEF Tick, claimState, TypeOK, ConfigType, CustodyType,
       configVars, custodyVars
  <2> QED BY <2>1, <2>2 DEF TypeOK
<1> QED BY <1>1, <1>2, <1>3, <1>4 DEF EnvironmentStep

-----------------------------------------------------------------------------
(* Steps that leave incidents and claims alone *)

\* The deadlines of an incident are natural numbers.
LEMMA DeadlinesType ==
    ASSUME NEW inc \in Incident
    PROVE  /\ inc.phaseDeadline \in Nat /\ inc.phaseWindow \in Windows
           /\ inc.phaseWindow \in Nat /\ TerminalDeadline(inc) \in Nat
           /\ TerminalDeadline(inc) = inc.phaseDeadline + inc.phaseWindow
<1>1. inc.phaseDeadline \in Nat /\ inc.phaseWindow \in Windows BY DEF Incident
<1>2. inc.phaseWindow \in Nat BY <1>1, ConstantsAssumption
<1> QED BY <1>1, <1>2 DEF TerminalDeadline

\* LiveAt only ever turns false as time passes, and a module is only registered
\* while it reports no incident: such a step cannot freeze the pools.
LEMMA StaysFrozen ==
    ASSUME TypeOK, TypeOK', incidents' = incidents, now <= now',
           registry.registered' => registry.registered \/ ActiveIncidentId = 0,
           PayoutIncidentActive'
    PROVE  PayoutIncidentActive /\ ActiveIncidentId' = ActiveIncidentId
<1> DEFINE n == Len(incidents)
           inc == incidents[n]
<1>1. incidents \in Seq(Incident) /\ n \in Nat /\ now \in Nat /\ now' \in Nat
  BY DEF TypeOK, LedgerType, ConfigType
<1>2. n # 0 /\ LiveAt(inc, now') /\ ActiveIncidentId' = n
  BY DEF PayoutIncidentActive, ActiveIncidentId
<1>3. inc \in Incident BY <1>1, <1>2, ElementOfSeq
<1>4. inc.phaseDeadline \in Nat /\ TerminalDeadline(inc) \in Nat BY <1>3, DeadlinesType
<1> HIDE DEF inc
<1>6. LiveAt(inc, now) BY <1>1, <1>2, <1>4 DEF LiveAt
<1>7. ActiveIncidentId = n BY <1>2, <1>6 DEF ActiveIncidentId, inc
<1> QED BY <1>1, <1>2, <1>7 DEF PayoutIncidentActive

\* A step that touches neither ledger keeps the invariant, provided pools and
\* spent score do not move while the pools are frozen.
LEMMA StaticInv ==
    ASSUME Inv, TypeOK', UNCHANGED <<incidents, claims>>, now <= now',
           registry.registered' => registry.registered \/ ActiveIncidentId = 0,
           PayoutIncidentActive' => UNCHANGED <<poolAssets, scoreSpent>>
    PROVE  Inv'
<1>1. TypeOK BY DEF Inv
<1>2. IndexSound' BY DEF Inv, IndexSound
<1>3. UnresolvedMatchesClaims'
  BY DEF Inv, UnresolvedMatchesClaims, OpenClaims, ClaimsOf
<1>4. OpenClaimIsIndexed' BY DEF Inv, OpenClaimIsIndexed, Resolved
<1>5. EarlierIncidentsClosed'
  <2>1. ASSUME NEW i \in 1 .. (Len(incidents) - 1)
        PROVE  incidents[i].unresolvedClaims = 0 \/ now' > TerminalDeadline(incidents[i])
    <3>1. incidents \in Seq(Incident) /\ Len(incidents) \in Nat /\ now \in Nat /\ now' \in Nat
      BY <1>1 DEF TypeOK, LedgerType, ConfigType
    <3>2. incidents[i] \in Incident BY <3>1, ElementOfSeq
    <3>3. TerminalDeadline(incidents[i]) \in Nat BY <3>2, DeadlinesType
    <3>4. incidents[i].unresolvedClaims = 0 \/ now > TerminalDeadline(incidents[i])
      BY DEF Inv, EarlierIncidentsClosed
    <3> QED BY <3>1, <3>3, <3>4
  <2> QED BY <2>1 DEF EarlierIncidentsClosed, TerminalDeadline
<1>6. BudgetBacked'
  <2>1. SUFFICES ASSUME PayoutIncidentActive'
                 PROVE  \A p \in Pools : incidents[ActiveIncidentId'].poolBudget[p] <= poolAssets'[p]
    BY DEF BudgetBacked
  <2>2. PayoutIncidentActive /\ ActiveIncidentId' = ActiveIncidentId
    BY <1>1, <2>1, StaysFrozen
  <2> QED BY <2>1, <2>2 DEF Inv, BudgetBacked
<1>7. SpentUnmoved'
  <2>1. CASE PayoutIncidentActive'
    <3>1. PayoutIncidentActive /\ ActiveIncidentId' = ActiveIncidentId
      BY <1>1, <2>1, StaysFrozen
    <3>2. OpenClaims(ActiveIncidentId)' = OpenClaims(ActiveIncidentId)
      BY <3>1 DEF OpenClaims, ClaimsOf
    <3> QED BY <2>1, <3>1, <3>2 DEF Inv, SpentUnmoved
  <2> QED BY <2>1 DEF SpentUnmoved
<1> QED BY <1>2, <1>3, <1>4, <1>5, <1>6, <1>7 DEF Inv

\* Governance keeps the invariant.
LEMMA GovernanceInv ==
    ASSUME Inv, GovernanceStep
    PROVE  Inv'
<1>1. TypeOK' BY GovernanceType DEF Inv
<1>2. /\ UNCHANGED <<incidents, claims, poolAssets, scoreSpent, now>>
      /\ registry.registered' => registry.registered \/ ActiveIncidentId = 0
  <2>1. registry \in Registry BY DEF Inv, TypeOK, ConfigType
  <2> QED BY <2>1 DEF GovernanceStep, ListInsuredToken, DelistInsuredToken, SweepToken,
         SetClaimBondAmount, SetTeeSigner, RegisterModule, ReplaceModule, ClearDefiInsurance,
         EndBetaMode, SetPaused, SetPoolPaused, SetProtocolFeeConfig,
         SetIncidentTimingConfig, SetMaxCoverPoolPayoutBps, AddPool, RemovePool,
         notRegistry, claimState, Registry
<1>3. now <= now' BY <1>2 DEF Inv, TypeOK, ConfigType
<1> QED BY <1>1, <1>2, <1>3, StaticInv

\* So does the environment: pool assets move only while no incident is active,
\* and another module records spent score only while this one is not registered.
LEMMA EnvironmentInv ==
    ASSUME Inv, EnvironmentStep
    PROVE  Inv'
<1>1. TypeOK' BY EnvironmentType DEF Inv
<1>2. TypeOK BY DEF Inv
<1>3. /\ UNCHANGED <<incidents, claims, registry>> /\ now' \in {now, now + 1}
  BY DEF EnvironmentStep, PoolFlow, OtherModulePays, Donate, Tick, claimState
<1>4. now <= now' BY <1>3 DEF Inv, TypeOK, ConfigType
<1>5. ASSUME PayoutIncidentActive' PROVE UNCHANGED <<poolAssets, scoreSpent>>
  <2>1. PayoutIncidentActive BY <1>1, <1>2, <1>3, <1>4, <1>5, StaysFrozen
  <2> QED BY <2>1 DEF EnvironmentStep, PoolFlow, OtherModulePays, Donate, Tick, claimState,
         NotFrozen, PayoutIncidentActive
<1> QED BY <1>1, <1>3, <1>4, <1>5, StaticInv

\* Signing happens off chain.
LEMMA SignSettlementInv ==
    ASSUME Inv, NEW i \in DOMAIN incidents, SignSettlement(i)
    PROVE  Inv'
<1>1. TypeOK' BY SignSettlementType DEF Inv
<1>2. UNCHANGED <<incidents, claims, registry, now, poolAssets, scoreSpent>>
  BY DEF SignSettlement
<1>3. now <= now' BY <1>2 DEF Inv, TypeOK, ConfigType
<1> QED BY <1>1, <1>2, <1>3, StaticInv

-----------------------------------------------------------------------------
(* Steps that resolve one claim *)

\* Resolving claim k takes k, and only k, out of the open claims.
LEMMA OpenClaimsShrink ==
    ASSUME TypeOK, NEW k \in DOMAIN claims, ~Resolved(k), NEW o \in Outcomes \ {"open"},
           claims' = [claims EXCEPT ![k].outcome = o]
    PROVE  /\ \A j : OpenClaims(j)' = OpenClaims(j) \ {k}
           /\ k \in OpenClaims(claims[k].incidentId)
           /\ \A j : j # claims[k].incidentId => k \notin OpenClaims(j)
<1>1. /\ DOMAIN claims' = DOMAIN claims /\ claims'[k].outcome = o
      /\ \A j \in DOMAIN claims :
            /\ claims'[j].incidentId = claims[j].incidentId
            /\ j # k => claims'[j] = claims[j]
  BY ResolveClaim DEF TypeOK, LedgerType
<1>2. ASSUME NEW j PROVE OpenClaims(j)' = OpenClaims(j) \ {k}
  BY <1>1 DEF OpenClaims, ClaimsOf
<1>3. k \in OpenClaims(claims[k].incidentId) BY DEF OpenClaims, ClaimsOf, Resolved
<1>4. ASSUME NEW j, j # claims[k].incidentId PROVE k \notin OpenClaims(j)
  BY <1>4 DEF OpenClaims, ClaimsOf
<1> QED BY <1>2, <1>3, <1>4

\* Decrementing the counter with it keeps the count exact.
LEMMA ResolvedCount ==
    ASSUME TypeOK, UnresolvedMatchesClaims, NEW k \in DOMAIN claims, ~Resolved(k),
           NEW o \in Outcomes \ {"open"}, claims' = [claims EXCEPT ![k].outcome = o],
           NEW e \in Incident,
           incidents' = [incidents EXCEPT ![claims[k].incidentId] = e],
           e.unresolvedClaims = incidents[claims[k].incidentId].unresolvedClaims - 1
    PROVE  UnresolvedMatchesClaims'
<1> DEFINE i == claims[k].incidentId
<1>1. i \in 1 .. Len(incidents) BY OpenClaimCounted
<1>2. /\ DOMAIN incidents' = DOMAIN incidents /\ incidents'[i] = e
      /\ \A j \in DOMAIN incidents : j # i => incidents'[j] = incidents[j]
  BY <1>1, UpdateIncident DEF TypeOK, LedgerType
<1>3. \A j : OpenClaims(j)' = OpenClaims(j) \ {k} BY OpenClaimsShrink
<1>4. k \in OpenClaims(i) /\ \A j : j # i => k \notin OpenClaims(j) BY OpenClaimsShrink
<1>5. \A j \in DOMAIN incidents : incidents[j].unresolvedClaims = Cardinality(OpenClaims(j))
  BY DEF UnresolvedMatchesClaims
<1>6. ASSUME NEW j \in DOMAIN incidents
      PROVE  incidents'[j].unresolvedClaims = Cardinality(OpenClaims(j) \ {k})
  <2>1. CASE j # i
    <3>1. OpenClaims(j) \ {k} = OpenClaims(j) BY <2>1, <1>4
    <3> QED BY <2>1, <3>1, <1>2, <1>5
  <2>2. CASE j = i
    <3>1. IsFiniteSet(OpenClaims(i))
      <4>1. OpenClaims(i) \in SUBSET DOMAIN claims BY DEF OpenClaims, ClaimsOf
      <4> QED BY <4>1, ClaimsFinite
    <3>2. Cardinality(OpenClaims(i) \ {k}) = Cardinality(OpenClaims(i)) - 1
      BY <1>4, <3>1, FS_RemoveElement
    <3> QED BY <2>2, <3>2, <1>2, <1>5
  <2> QED BY <2>1, <2>2
<1> HIDE DEF i
<1>7. ASSUME NEW j \in DOMAIN incidents'
      PROVE  incidents'[j].unresolvedClaims = Cardinality(OpenClaims(j)')
  BY <1>2, <1>3, <1>6
<1> QED BY <1>7 DEF UnresolvedMatchesClaims

\* What every resolution does to the incident it belongs to.
Resolution(k, i, e) ==
    /\ i = claims[k].incidentId
    /\ \E o \in Outcomes \ {"open"} : claims' = [claims EXCEPT ![k].outcome = o]
    /\ incidents' = [incidents EXCEPT ![i] = e]
    /\ e.unresolvedClaims = incidents[i].unresolvedClaims - 1
    /\ e.phaseDeadline = incidents[i].phaseDeadline
    /\ e.phaseWindow = incidents[i].phaseWindow
    /\ e.root = incidents[i].root
    /\ e.spentAtOpen = incidents[i].spentAtOpen
    /\ e.claimIdOf \in {incidents[i].claimIdOf,
                        [incidents[i].claimIdOf EXCEPT ![claims[k].user] = 0]}

\* The conjuncts about the ledgers survive every resolution.
LEMMA ResolutionKeepsLedgers ==
    ASSUME Inv, NEW k \in DOMAIN claims, ~Resolved(k), NEW e \in Incident,
           NEW i, Resolution(k, i, e), now' = now
    PROVE  IndexSound' /\ UnresolvedMatchesClaims' /\ OpenClaimIsIndexed'
           /\ EarlierIncidentsClosed'
<1>1. TypeOK /\ UnresolvedMatchesClaims BY DEF Inv
<1>2. PICK o \in Outcomes \ {"open"} : claims' = [claims EXCEPT ![k].outcome = o]
  BY DEF Resolution
<1>3. /\ i = claims[k].incidentId /\ incidents' = [incidents EXCEPT ![i] = e]
      /\ e.unresolvedClaims = incidents[i].unresolvedClaims - 1
  BY DEF Resolution
<1>4. /\ i \in 1 .. Len(incidents) /\ incidents[i] \in Incident
      /\ incidents[i].unresolvedClaims # 0
  BY <1>1, <1>3, OpenClaimCounted
<1>5. /\ DOMAIN incidents' = DOMAIN incidents /\ Len(incidents') = Len(incidents)
      /\ incidents'[i] = e
      /\ \A j \in DOMAIN incidents : j # i => incidents'[j] = incidents[j]
  BY <1>1, <1>3, <1>4, UpdateIncident DEF TypeOK, LedgerType
<1>6. /\ DOMAIN claims' = DOMAIN claims /\ claims'[k].outcome = o
      /\ \A j \in DOMAIN claims :
            /\ claims'[j].user = claims[j].user
            /\ claims'[j].incidentId = claims[j].incidentId
            /\ j # k => claims'[j] = claims[j]
  BY <1>1, <1>2, ResolveClaim DEF TypeOK, LedgerType
<1>7. UnresolvedMatchesClaims' BY <1>1, <1>2, <1>3, ResolvedCount
<1>8. /\ DOMAIN incidents = 1 .. Len(incidents) /\ Len(incidents) \in Nat
      /\ incidents \in Seq(Incident)
  BY <1>1 DEF TypeOK, LedgerType
<1>9. incidents[i].claimIdOf \in [Users -> Nat] /\ claims[k].user \in Users
  BY <1>1, <1>4, ClaimFields DEF Incident
<1>10. IndexSound'
  <2>1. ASSUME NEW j \in DOMAIN incidents, NEW u \in Users, incidents'[j].claimIdOf[u] # 0
        PROVE  /\ incidents'[j].claimIdOf[u] = incidents[j].claimIdOf[u]
    <3>1. CASE j # i BY <3>1, <1>5
    <3>2. CASE j = i BY <2>1, <3>2, <1>5, <1>9 DEF Resolution
    <3> QED BY <3>1, <3>2
  <2>2. ASSUME NEW j \in DOMAIN incidents', NEW u \in Users, incidents'[j].claimIdOf[u] # 0
        PROVE  LET m == incidents'[j].claimIdOf[u] IN
               m \in DOMAIN claims' /\ claims'[m].incidentId = j /\ claims'[m].user = u
    BY <2>1, <2>2, <1>5, <1>6 DEF Inv, IndexSound
  <2> QED BY <2>2 DEF IndexSound
<1>11. OpenClaimIsIndexed'
  <2>1. ASSUME NEW m \in DOMAIN claims', claims'[m].outcome = "open"
        PROVE  incidents'[claims'[m].incidentId].claimIdOf[claims'[m].user] = m
    <3> DEFINE j == claims[m].incidentId
               u == claims[m].user
    <3>1. m # k /\ m \in DOMAIN claims /\ claims[m].outcome = "open" BY <2>1, <1>6
    <3>2. incidents[j].claimIdOf[u] = m BY <3>1 DEF Inv, OpenClaimIsIndexed, Resolved
    <3>3. incidents[i].claimIdOf[claims[k].user] = k
      BY <1>3 DEF Inv, OpenClaimIsIndexed
    <3>4. j \in DOMAIN incidents /\ u \in Users
      BY <3>1, <1>1, ClaimFields DEF TypeOK, LedgerType
    <3>5. incidents'[j].claimIdOf[u] = m
      <4>1. CASE j # i BY <4>1, <3>2, <3>4, <1>5
      <4>2. CASE j = i
        <5>1. u # claims[k].user BY <4>2, <3>1, <3>2, <3>3
        <5>2. e.claimIdOf[u] = incidents[i].claimIdOf[u]
          BY <5>1, <3>4, <1>9 DEF Resolution
        <5> QED BY <4>2, <5>2, <3>2, <1>5
      <4> QED BY <4>1, <4>2
    <3> QED BY <3>1, <3>5, <1>6
  <2> QED BY <2>1 DEF OpenClaimIsIndexed, Resolved
<1>12. EarlierIncidentsClosed'
  <2>1. ASSUME NEW j \in 1 .. (Len(incidents) - 1)
        PROVE  incidents'[j].unresolvedClaims = 0 \/ now > TerminalDeadline(incidents'[j])
    <3>1. incidents[j].unresolvedClaims = 0 \/ now > TerminalDeadline(incidents[j])
      BY DEF Inv, EarlierIncidentsClosed
    <3>2. j \in DOMAIN incidents BY <1>8
    <3>3. CASE j # i BY <3>1, <3>2, <3>3, <1>5
    <3>4. CASE j = i
      <4>1. TerminalDeadline(e) = TerminalDeadline(incidents[i])
        BY DEF Resolution, TerminalDeadline
      <4> QED BY <3>1, <3>4, <4>1, <1>4, <1>5
    <3> QED BY <3>3, <3>4
  <2> QED BY <2>1, <1>5 DEF EarlierIncidentsClosed, TerminalDeadline
<1> QED BY <1>7, <1>10, <1>11, <1>12

\* A resolution can only thaw the pools.
LEMMA ResolutionStaysFrozen ==
    ASSUME Inv, NEW k \in DOMAIN claims, ~Resolved(k), NEW e \in Incident,
           NEW i, Resolution(k, i, e), UNCHANGED <<now, registry>>, PayoutIncidentActive'
    PROVE  /\ PayoutIncidentActive /\ ActiveIncidentId' = ActiveIncidentId
           /\ DOMAIN incidents' = DOMAIN incidents /\ ActiveIncidentId \in DOMAIN incidents
           /\ incidents'[i] = e
           /\ \A j \in DOMAIN incidents : j # i => incidents'[j] = incidents[j]
<1>1. TypeOK /\ UnresolvedMatchesClaims BY DEF Inv
<1>2. /\ i = claims[k].incidentId /\ incidents' = [incidents EXCEPT ![i] = e]
      /\ e.phaseDeadline = incidents[i].phaseDeadline
      /\ e.phaseWindow = incidents[i].phaseWindow
  BY DEF Resolution
<1>3. /\ i \in 1 .. Len(incidents) /\ incidents[i] \in Incident
      /\ incidents[i].unresolvedClaims # 0
  BY <1>1, <1>2, OpenClaimCounted
<1>4. /\ DOMAIN incidents' = DOMAIN incidents /\ Len(incidents') = Len(incidents)
      /\ incidents'[i] = e
      /\ \A j \in DOMAIN incidents : j # i => incidents'[j] = incidents[j]
  BY <1>1, <1>2, <1>3, UpdateIncident DEF TypeOK, LedgerType
<1>5. DOMAIN incidents = 1 .. Len(incidents) /\ Len(incidents) \in Nat
  BY <1>1 DEF TypeOK, LedgerType
<1> DEFINE n == Len(incidents)
<1>6. n # 0 /\ LiveAt(incidents'[n], now) /\ ActiveIncidentId' = n
  BY <1>4 DEF PayoutIncidentActive, ActiveIncidentId, LiveAt, TerminalDeadline
<1>7. LiveAt(incidents[n], now)
  <2>1. CASE n # i BY <2>1, <1>4, <1>5, <1>6
  <2>2. CASE n = i BY <2>2, <1>2, <1>3, <1>4, <1>6 DEF LiveAt, TerminalDeadline
  <2> QED BY <2>1, <2>2
<1>8. ActiveIncidentId = n BY <1>6, <1>7 DEF ActiveIncidentId
<1>9. PayoutIncidentActive BY <1>5, <1>6, <1>8 DEF PayoutIncidentActive
<1> QED BY <1>4, <1>5, <1>6, <1>8, <1>9

\* Budgets stay backed when a resolution draws the same from budget and pool,
\* or nothing from either.
LEMMA ResolutionKeepsBudget ==
    ASSUME Inv, NEW k \in DOMAIN claims, ~Resolved(k), NEW e \in Incident,
           NEW i, Resolution(k, i, e), UNCHANGED <<now, registry>>,
           \/ poolAssets' = poolAssets /\ e.poolBudget = incidents[i].poolBudget
           \/ /\ i = ActiveIncidentId
              /\ \A p \in Pools : incidents[i].poolBudget[p] <= poolAssets[p]
                                     => e.poolBudget[p] <= poolAssets'[p]
    PROVE  BudgetBacked'
<1> SUFFICES ASSUME PayoutIncidentActive', NEW p \in Pools
             PROVE  incidents'[ActiveIncidentId'].poolBudget[p] <= poolAssets'[p]
  BY DEF BudgetBacked
<1>1. /\ PayoutIncidentActive /\ ActiveIncidentId' = ActiveIncidentId
      /\ ActiveIncidentId \in DOMAIN incidents /\ incidents'[i] = e
      /\ \A j \in DOMAIN incidents : j # i => incidents'[j] = incidents[j]
  BY ResolutionStaysFrozen
<1>2. incidents[ActiveIncidentId].poolBudget[p] <= poolAssets[p]
  BY <1>1 DEF Inv, BudgetBacked
<1>3. CASE i = ActiveIncidentId BY <1>1, <1>2, <1>3
<1>4. CASE i # ActiveIncidentId BY <1>1, <1>2, <1>4
<1> QED BY <1>3, <1>4

\* Spent score stays fresh when a resolution spends only its own user's score:
\* that user has no other open claim in the incident.
LEMMA ResolutionKeepsSpent ==
    ASSUME Inv, NEW k \in DOMAIN claims, ~Resolved(k), NEW e \in Incident,
           NEW i, Resolution(k, i, e), UNCHANGED <<now, registry>>,
           \/ scoreSpent' = scoreSpent
           \/ /\ i = ActiveIncidentId /\ incidents[i].root # "none"
              /\ \A u \in Users : u # claims[k].user => scoreSpent'[u] = scoreSpent[u]
    PROVE  SpentUnmoved'
<1> SUFFICES ASSUME PayoutIncidentActive', NEW u \in Users,
                    \/ incidents'[ActiveIncidentId'].root = "none"
                    \/ \E m \in OpenClaims(ActiveIncidentId)' : claims'[m].user = u
             PROVE  scoreSpent'[u] = incidents'[ActiveIncidentId'].spentAtOpen[u]
  BY DEF SpentUnmoved
<1> DEFINE a == ActiveIncidentId
<1>1. /\ PayoutIncidentActive /\ ActiveIncidentId' = a
      /\ a \in DOMAIN incidents /\ incidents'[i] = e
      /\ \A j \in DOMAIN incidents : j # i => incidents'[j] = incidents[j]
  BY ResolutionStaysFrozen
<1>2. incidents'[a].root = incidents[a].root /\ incidents'[a].spentAtOpen = incidents[a].spentAtOpen
  BY <1>1 DEF Resolution
<1>3. TypeOK BY DEF Inv
<1>4. PICK o \in Outcomes \ {"open"} : claims' = [claims EXCEPT ![k].outcome = o]
  BY DEF Resolution
<1>5. OpenClaims(a)' = OpenClaims(a) \ {k}
  BY <1>1, <1>3, <1>4, OpenClaimsShrink
<1>6. \A j \in DOMAIN claims : claims'[j].user = claims[j].user
  BY <1>3, <1>4, ResolveClaim DEF TypeOK, LedgerType
<1>7. \A m \in OpenClaims(a) : m \in DOMAIN claims /\ claims[m].incidentId = a /\ ~Resolved(m)
  BY DEF OpenClaims, ClaimsOf, Resolved
<1>8. i = claims[k].incidentId BY DEF Resolution
<1>9. \/ incidents[a].root = "none"
      \/ \E m \in OpenClaims(a) : m # k /\ claims[m].user = u
  BY <1>1, <1>2, <1>5, <1>6, <1>7
<1> HIDE DEF a
<1>10. scoreSpent[u] = incidents[a].spentAtOpen[u]
  BY <1>1, <1>9 DEF Inv, SpentUnmoved, a
<1>11. scoreSpent'[u] = scoreSpent[u]
  <2>1. CASE scoreSpent' = scoreSpent BY <2>1
  <2>2. CASE scoreSpent' # scoreSpent
    <3>1. i = a /\ incidents[a].root # "none"
          /\ \A v \in Users : v # claims[k].user => scoreSpent'[v] = scoreSpent[v]
      BY <2>2 DEF a
    <3>2. PICK m \in OpenClaims(a) : m # k /\ claims[m].user = u BY <1>9, <3>1
    <3>3. incidents[i].claimIdOf[claims[k].user] = k
      BY <1>8 DEF Inv, OpenClaimIsIndexed
    <3>4. incidents[i].claimIdOf[u] = m
      BY <1>7, <3>1, <3>2 DEF Inv, OpenClaimIsIndexed
    <3>5. u # claims[k].user BY <3>2, <3>3, <3>4
    <3> QED BY <3>1, <3>5
  <2> QED BY <2>1, <2>2
<1> QED BY <1>1, <1>2, <1>10, <1>11

\* cancelClaim keeps the invariant.
LEMMA CancelClaimInv ==
    ASSUME Inv, NEW u \in Users, CancelClaim(u)
    PROVE  Inv'
<1> DEFINE i == ActiveIncidentId
           k == incidents[i].claimIdOf[u]
           e == Left(incidents[i], u, k)
<1>1. TypeOK /\ IndexSound /\ UnresolvedMatchesClaims BY DEF Inv
<1>2. /\ i # 0 /\ k # 0 /\ ~Resolved(k) /\ incidents' = [incidents EXCEPT ![i] = e]
      /\ claims' = [claims EXCEPT ![k].outcome = "cancelled"]
      /\ UNCHANGED <<now, registry, scoreSpent, poolAssets>>
  BY DEF CancelClaim
<1>3. i \in DOMAIN incidents /\ incidents[i] \in Incident BY <1>1, <1>2, ActiveIsLast
<1>4. k \in DOMAIN claims /\ claims[k].incidentId = i /\ claims[k].user = u
  BY <1>1, <1>2, <1>3, IndexedClaim
<1>5. e \in Incident
  <2>1. incidents[i].unresolvedClaims # 0 BY <1>1, <1>2, <1>4, OpenClaimCounted
  <2>2. k \in Nat BY <1>1, <1>4, ClaimFields
  <2> QED BY <1>3, <2>1, <2>2, LeftType
<1>6. /\ e.unresolvedClaims = incidents[i].unresolvedClaims - 1
      /\ e.phaseDeadline = incidents[i].phaseDeadline
      /\ e.phaseWindow = incidents[i].phaseWindow
      /\ e.root = incidents[i].root
      /\ e.spentAtOpen = incidents[i].spentAtOpen
      /\ e.poolBudget = incidents[i].poolBudget
      /\ e.claimIdOf = [incidents[i].claimIdOf EXCEPT ![u] = 0]
  BY <1>3 DEF Left, Incident
<1>7. TypeOK' BY <1>1, CancelClaimType
<1> HIDE DEF i, k, e
<1>8. Resolution(k, i, e)
  <2>1. "cancelled" \in Outcomes \ {"open"} BY DEF Outcomes
  <2> QED BY <1>2, <1>4, <1>6, <2>1 DEF Resolution
<1>9. IndexSound' /\ UnresolvedMatchesClaims' /\ OpenClaimIsIndexed' /\ EarlierIncidentsClosed'
  BY <1>2, <1>4, <1>5, <1>8, ResolutionKeepsLedgers
<1>10. BudgetBacked' BY <1>2, <1>4, <1>5, <1>6, <1>8, ResolutionKeepsBudget
<1>11. SpentUnmoved' BY <1>2, <1>4, <1>5, <1>8, ResolutionKeepsSpent
<1> QED BY <1>7, <1>9, <1>10, <1>11 DEF Inv

\* finalizeClaim without a payout keeps the invariant.
LEMMA ReturnInv ==
    ASSUME Inv, NEW k \in DOMAIN claims,
           \/ \E byClaimant \in BOOLEAN : DeclinePayout(k, byClaimant)
           \/ RecoverClaim(k)
    PROVE  Inv'
<1> DEFINE i == claims[k].incidentId
           e == OneResolved(incidents[i])
<1>1. TypeOK /\ UnresolvedMatchesClaims BY DEF Inv
<1>2. PICK o \in {"declined", "recovered"} :
         claims' = [claims EXCEPT ![k].outcome = o]
  BY DEF DeclinePayout, RecoverClaim
<1>3. /\ ~Resolved(k) /\ incidents' = [incidents EXCEPT ![i] = e]
      /\ UNCHANGED <<now, registry, scoreSpent, poolAssets>>
  BY DEF DeclinePayout, RecoverClaim
<1>4. incidents[i] \in Incident /\ incidents[i].unresolvedClaims # 0
  BY <1>1, <1>3, OpenClaimCounted
<1>5. e \in Incident BY <1>1, <1>4, OneResolvedType DEF TypeOK, ConfigType
<1>6. /\ e.unresolvedClaims = incidents[i].unresolvedClaims - 1
      /\ e.phaseDeadline = incidents[i].phaseDeadline
      /\ e.phaseWindow = incidents[i].phaseWindow
      /\ e.root = incidents[i].root
      /\ e.spentAtOpen = incidents[i].spentAtOpen
      /\ e.poolBudget = incidents[i].poolBudget
      /\ e.claimIdOf = incidents[i].claimIdOf
  BY <1>4 DEF OneResolved, Incident
<1>7. TypeOK' BY <1>1, ReturnType
<1>8. Resolution(k, i, e)
  <2>1. o \in Outcomes \ {"open"} BY DEF Outcomes
  <2> HIDE DEF e
  <2> QED BY <1>2, <1>3, <1>6, <2>1 DEF Resolution
<1> HIDE DEF i, e
<1>9. IndexSound' /\ UnresolvedMatchesClaims' /\ OpenClaimIsIndexed' /\ EarlierIncidentsClosed'
  BY <1>3, <1>5, <1>8, ResolutionKeepsLedgers
<1>10. BudgetBacked' BY <1>3, <1>5, <1>6, <1>8, ResolutionKeepsBudget
<1>11. SpentUnmoved' BY <1>3, <1>5, <1>8, ResolutionKeepsSpent
<1> QED BY <1>7, <1>9, <1>10, <1>11 DEF Inv

\* An accepted claim belongs to the incident that freezes the pools now.
LEMMA AcceptedIsActive ==
    ASSUME Inv, NEW k \in DOMAIN claims, AcceptPayout(k)
    PROVE  PayoutIncidentActive /\ claims[k].incidentId = ActiveIncidentId
<1> DEFINE i == claims[k].incidentId
<1>1. TypeOK /\ UnresolvedMatchesClaims BY DEF Inv
<1>2. /\ ~Resolved(k) /\ registry.registered
      /\ now > incidents[i].phaseDeadline /\ now <= TerminalDeadline(incidents[i])
  BY DEF AcceptPayout, FinalizeOpen, AcceptOpen
<1>3. /\ i \in 1 .. Len(incidents) /\ incidents[i] \in Incident
      /\ incidents[i].unresolvedClaims # 0
  BY <1>1, <1>2, OpenClaimCounted
<1>4. now \in Nat /\ TerminalDeadline(incidents[i]) \in Nat /\ Len(incidents) \in Nat
  BY <1>1, <1>3, DeadlinesType DEF TypeOK, ConfigType, LedgerType
<1>5. i = Len(incidents)
  <2>1. i \notin 1 .. (Len(incidents) - 1)
    BY <1>2, <1>3, <1>4 DEF Inv, EarlierIncidentsClosed
  <2> QED BY <1>3, <1>4, <2>1
<1>6. LiveAt(incidents[i], now) BY <1>2, <1>3 DEF LiveAt
<1>7. ActiveIncidentId = i BY <1>3, <1>5, <1>6 DEF ActiveIncidentId
<1> QED BY <1>2, <1>3, <1>7 DEF PayoutIncidentActive

\* finalizeClaim with a payout keeps the invariant.
LEMMA AcceptPayoutInv ==
    ASSUME Inv, NEW k \in DOMAIN claims, AcceptPayout(k)
    PROVE  Inv'
<1> DEFINE i == claims[k].incidentId
           inc == incidents[i]
           row == inc.rows[k]
           e == Charged(OneResolved(inc), row)
<1>1. TypeOK /\ UnresolvedMatchesClaims BY DEF Inv
<1>2. /\ ~Resolved(k) /\ RowUsable(k) /\ Payable(inc, row) /\ inc.root # "none"
      /\ claims' = [claims EXCEPT ![k].outcome = "paid"]
      /\ incidents' = [incidents EXCEPT ![i] = e]
      /\ poolAssets' = [p \in Pools |-> poolAssets[p] - Draw(inc, row, p)]
      /\ scoreSpent' = [scoreSpent EXCEPT ![claims[k].user] = @ + row.score]
      /\ UNCHANGED <<now, registry>>
  BY DEF AcceptPayout
<1>3. inc \in Incident /\ inc.unresolvedClaims # 0 BY <1>1, <1>2, OpenClaimCounted
<1>4. row \in Row BY <1>1, <1>2, <1>3, RowType DEF RowUsable
<1>5. OneResolved(inc) \in Incident BY <1>1, <1>3, OneResolvedType DEF TypeOK, ConfigType
<1>6. Payable(OneResolved(inc), row) BY <1>2, <1>3, <1>4, OneResolvedPayable
<1>7. e \in Incident BY <1>1, <1>4, <1>5, <1>6, ChargedType DEF TypeOK, PoolType
<1>8. /\ e.unresolvedClaims = inc.unresolvedClaims - 1
      /\ e.phaseDeadline = inc.phaseDeadline
      /\ e.phaseWindow = inc.phaseWindow
      /\ e.root = inc.root
      /\ e.spentAtOpen = inc.spentAtOpen
      /\ e.claimIdOf = inc.claimIdOf
      /\ e.poolBudget = [p \in Pools |-> OneResolved(inc).poolBudget[p]
                                           - Draw(OneResolved(inc), row, p)]
  BY <1>3, <1>5 DEF Charged, OneResolved, Incident
<1>9. TypeOK' BY <1>1, AcceptPayoutType
<1>10. i = ActiveIncidentId BY AcceptedIsActive
<1>11. ASSUME NEW p \in Pools, inc.poolBudget[p] <= poolAssets[p]
       PROVE  e.poolBudget[p] <= poolAssets'[p]
  <2>1. e.poolBudget[p] = inc.poolBudget[p] - Draw(inc, row, p)
    BY <1>3, <1>4, <1>8, OneResolvedPayable
  <2>2. poolAssets'[p] = poolAssets[p] - Draw(inc, row, p) BY <1>2
  <2>3. /\ Draw(inc, row, p) \in Nat /\ inc.poolBudget[p] \in Nat /\ poolAssets[p] \in Nat
    <3>1. poolAssets \in [Pools -> Nat] BY <1>1 DEF TypeOK, PoolType
    <3>2. Draw(inc, row, p) \in Nat BY <1>2, <1>3, <1>4, <3>1, DrawBounded
    <3> QED BY <1>3, <3>1, <3>2 DEF Incident
  <2> QED BY <1>11, <2>1, <2>2, <2>3
<1>12. \A u \in Users : u # claims[k].user => scoreSpent'[u] = scoreSpent[u]
  BY <1>1, <1>2 DEF TypeOK, ConfigType
<1>13. Resolution(k, i, e)
  <2>1. "paid" \in Outcomes \ {"open"} BY DEF Outcomes
  <2> HIDE DEF e
  <2> QED BY <1>2, <1>8, <2>1 DEF Resolution
<1>14. incidents[i].root # "none"
       /\ \A p \in Pools : incidents[i].poolBudget[p] <= poolAssets[p]
                             => e.poolBudget[p] <= poolAssets'[p]
  BY <1>2, <1>11
<1> HIDE DEF i, inc, row, e
<1>15. IndexSound' /\ UnresolvedMatchesClaims' /\ OpenClaimIsIndexed' /\ EarlierIncidentsClosed'
  BY <1>2, <1>7, <1>13, ResolutionKeepsLedgers
<1>16. BudgetBacked' BY <1>2, <1>7, <1>10, <1>13, <1>14, ResolutionKeepsBudget
<1>17. SpentUnmoved'
  BY <1>2, <1>7, <1>10, <1>12, <1>13, <1>14, ResolutionKeepsSpent
<1> QED BY <1>9, <1>15, <1>16, <1>17 DEF Inv

-----------------------------------------------------------------------------
(* Steps that store a root, or drop it *)

\* The conjuncts about the ledgers survive a step that rewrites the active
\* incident but neither its claims nor its counter and index.
LEMMA RewriteKeepsLedgers ==
    ASSUME Inv, ActiveIncidentId # 0, NEW e \in Incident,
           incidents' = [incidents EXCEPT ![ActiveIncidentId] = e],
           UNCHANGED <<claims, now>>,
           e.unresolvedClaims = incidents[ActiveIncidentId].unresolvedClaims,
           e.claimIdOf = incidents[ActiveIncidentId].claimIdOf
    PROVE  /\ IndexSound' /\ UnresolvedMatchesClaims' /\ OpenClaimIsIndexed'
           /\ EarlierIncidentsClosed'
           /\ Len(incidents') = Len(incidents) /\ incidents'[Len(incidents)] = e
<1> DEFINE i == ActiveIncidentId
<1>1. TypeOK BY DEF Inv
<1>2. i \in 1 .. Len(incidents) /\ i = Len(incidents) BY <1>1, ActiveIsLast
<1>3. /\ DOMAIN incidents' = DOMAIN incidents /\ Len(incidents') = Len(incidents)
      /\ incidents'[i] = e
      /\ \A j \in DOMAIN incidents : j # i => incidents'[j] = incidents[j]
  BY <1>1, <1>2, UpdateIncident DEF TypeOK, LedgerType
<1>4. \A j \in DOMAIN incidents :
         /\ incidents'[j].unresolvedClaims = incidents[j].unresolvedClaims
         /\ incidents'[j].claimIdOf = incidents[j].claimIdOf
  BY <1>3
<1>5. DOMAIN incidents = 1 .. Len(incidents) /\ Len(incidents) \in Nat
  BY <1>1 DEF TypeOK, LedgerType
<1>6. IndexSound' BY <1>3, <1>4 DEF Inv, IndexSound
<1>7. UnresolvedMatchesClaims'
  BY <1>3, <1>4 DEF Inv, UnresolvedMatchesClaims, OpenClaims, ClaimsOf
<1>8. OpenClaimIsIndexed'
  <2>1. \A k \in DOMAIN claims : claims[k].incidentId \in DOMAIN incidents
    BY <1>1 DEF TypeOK, LedgerType
  <2> QED BY <1>4, <2>1 DEF Inv, OpenClaimIsIndexed, Resolved
<1>9. EarlierIncidentsClosed'
  <2>1. ASSUME NEW j \in 1 .. (Len(incidents) - 1)
        PROVE  incidents'[j].unresolvedClaims = 0 \/ now > TerminalDeadline(incidents'[j])
    <3>1. j \in DOMAIN incidents /\ j # i BY <1>2, <1>5
    <3> QED BY <3>1, <1>3 DEF Inv, EarlierIncidentsClosed
  <2> QED BY <2>1, <1>3 DEF EarlierIncidentsClosed, TerminalDeadline
<1> QED BY <1>2, <1>3, <1>6, <1>7, <1>8, <1>9

\* _commitRoot keeps the invariant: its caps are below the pools' assets.
LEMMA CommitRootInv ==
    ASSUME Inv, PayoutIncidentActive, NEW source \in {"tee", "admin"},
           NEW rows \in Settlement, NEW budget \in [Pools -> Nat],
           CommitRoot(ActiveIncidentId, source, rows, budget),
           UNCHANGED <<now, registry, scoreSpent, claimBondAmount, isTeeSigner,
                       claims, custodyVars, poolAssets, signed>>
    PROVE  Inv'
<1> DEFINE i == ActiveIncidentId
           inc == incidents[i]
           e == Committed(inc, source, rows, budget)
<1>1. TypeOK /\ i # 0 BY DEF Inv, PayoutIncidentActive
<1>2. TypeOK' BY <1>1, CommitRootType
<1>3. i = Len(incidents) /\ inc \in Incident BY <1>1, ActiveIsLast
<1>4. e \in Incident BY <1>1, <1>3, CommittedType DEF TypeOK, ConfigType
<1>5. /\ e.unresolvedClaims = inc.unresolvedClaims /\ e.claimIdOf = inc.claimIdOf
      /\ e.root # "none" /\ e.spentAtOpen = inc.spentAtOpen /\ e.poolBudget = budget
  BY <1>3 DEF Committed, Incident
<1>6. incidents' = [incidents EXCEPT ![i] = e] BY DEF CommitRoot
<1>7. /\ IndexSound' /\ UnresolvedMatchesClaims' /\ OpenClaimIsIndexed'
      /\ EarlierIncidentsClosed'
      /\ Len(incidents') = Len(incidents) /\ incidents'[Len(incidents)] = e
  <2> HIDE DEF e
  <2> QED BY <1>1, <1>4, <1>5, <1>6, RewriteKeepsLedgers
<1>8. ASSUME PayoutIncidentActive'
      PROVE  ActiveIncidentId' = ActiveIncidentId /\ incidents'[ActiveIncidentId'] = e
  BY <1>3, <1>7, <1>8 DEF PayoutIncidentActive, ActiveIncidentId
<1>9. \A p \in Pools : budget[p] <= poolAssets[p]
  <2> SUFFICES ASSUME NEW p \in Pools PROVE budget[p] <= poolAssets[p] OBVIOUS
  <2>1. poolAssets[p] \in Nat BY <1>1 DEF TypeOK, PoolType
  <2>2. CASE p \in inc.pools
    <3>1. budget[p] <= MaxPayoutPerIncident(p)
      BY <2>2 DEF CommitRoot, BudgetWithinCaps
    <3>2. registry.maxPayoutBps \in CapChoices
      BY <1>1 DEF TypeOK, ConfigType, Registry
    <3>3. registry.maxPayoutBps \in 1 .. (Bps - 1) BY <3>2, ConstantsAssumption, Zenon
    <3>4. Bps \in Nat BY ConstantsAssumption
    <3>5. registry.maxPayoutBps \in 0 .. Bps BY <3>3, <3>4
    <3>6. MaxPayoutPerIncident(p) \in Nat /\ MaxPayoutPerIncident(p) <= poolAssets[p]
      BY <2>1, <3>5, CapBelowAssets DEF MaxPayoutPerIncident
    <3>7. budget[p] \in Nat OBVIOUS
    <3> QED BY <2>1, <3>1, <3>6, <3>7
  <2>3. CASE p \notin inc.pools
    <3>1. budget[p] = 0 BY <2>3 DEF CommitRoot, BudgetWithinCaps
    <3> QED BY <2>1, <3>1
  <2> QED BY <2>2, <2>3
<1>10. BudgetBacked' BY <1>5, <1>8, <1>9 DEF BudgetBacked
<1>11. SpentUnmoved'
  <2> SUFFICES ASSUME PayoutIncidentActive', NEW u \in Users,
                    \/ incidents'[ActiveIncidentId'].root = "none"
                    \/ \E m \in OpenClaims(ActiveIncidentId)' : claims'[m].user = u
             PROVE  scoreSpent'[u] = incidents'[ActiveIncidentId'].spentAtOpen[u]
    BY DEF SpentUnmoved
  <2>1. ActiveIncidentId' = ActiveIncidentId /\ incidents'[ActiveIncidentId'] = e
    BY <1>8
  <2>2. OpenClaims(ActiveIncidentId)' = OpenClaims(ActiveIncidentId)
    BY <2>1 DEF OpenClaims, ClaimsOf
  <2> QED BY <1>5, <2>1, <2>2 DEF Inv, SpentUnmoved
<1> QED BY <1>2, <1>7, <1>10, <1>11 DEF Inv

\* Voiding keeps the invariant: it ends the incident.
LEMMA AdminVoidSettlementInv ==
    ASSUME Inv, AdminVoidSettlement
    PROVE  Inv' /\ ~PayoutIncidentActive'
<1> DEFINE i == ActiveIncidentId
           inc == incidents[i]
           e == Voided(inc)
<1>1. TypeOK BY DEF Inv
<1>2. /\ i # 0 /\ incidents' = [incidents EXCEPT ![i] = e]
      /\ UNCHANGED <<claims, now>>
  BY DEF AdminVoidSettlement, CanCorrect
<1>3. TypeOK' BY <1>1, AdminVoidSettlementType
<1>4. i = Len(incidents) /\ inc \in Incident BY <1>1, <1>2, ActiveIsLast
<1>5. e \in Incident BY <1>1, <1>4, VoidedType DEF TypeOK, ConfigType
<1>6. /\ e.unresolvedClaims = inc.unresolvedClaims /\ e.claimIdOf = inc.claimIdOf
      /\ e.phaseDeadline = 0 /\ e.phaseWindow = inc.phaseWindow
  BY <1>4 DEF Voided, Incident
<1>7. inc.phaseWindow \in Windows /\ inc.phaseWindow \in Nat BY <1>4, DeadlinesType
<1> HIDE DEF e
<1>8. /\ IndexSound' /\ UnresolvedMatchesClaims' /\ OpenClaimIsIndexed'
      /\ EarlierIncidentsClosed'
      /\ Len(incidents') = Len(incidents) /\ incidents'[Len(incidents)] = e
  BY <1>2, <1>5, <1>6, RewriteKeepsLedgers
<1>9. ~LiveAt(e, now)
  <2>1. inc.phaseWindow < StartTime BY <1>7, ConstantsAssumption
  <2>2. now \in Nat /\ now >= StartTime /\ StartTime \in Nat
    BY <1>1, ConstantsAssumption DEF TypeOK, ConfigType
  <2>3. TerminalDeadline(e) = inc.phaseWindow BY <1>6, <1>7 DEF TerminalDeadline
  <2> QED BY <1>6, <1>7, <2>1, <2>2, <2>3 DEF LiveAt
<1>10. ~PayoutIncidentActive'
  BY <1>2, <1>8, <1>9 DEF PayoutIncidentActive, ActiveIncidentId, LiveAt, TerminalDeadline
<1> QED BY <1>3, <1>8, <1>10 DEF Inv, BudgetBacked, SpentUnmoved

-----------------------------------------------------------------------------
(* Steps that open an incident or file a claim *)

\* A new incident supersedes only a closed one.
LEMMA OpeningClosesEarlier ==
    ASSUME Inv, NEW t, CanOpen(t), NEW e \in Incident, incidents' = Append(incidents, e),
           now' = now
    PROVE  EarlierIncidentsClosed'
<1>1. TypeOK /\ ActiveIncidentId = 0 BY DEF Inv, CanOpen
<1>2. /\ Len(incidents') = Len(incidents) + 1 /\ Len(incidents) \in Nat
      /\ DOMAIN incidents = 1 .. Len(incidents)
      /\ \A j \in DOMAIN incidents : incidents'[j] = incidents[j]
  BY <1>1, AppendIncident DEF TypeOK, LedgerType
<1>3. ASSUME NEW j \in 1 .. Len(incidents)
      PROVE  incidents[j].unresolvedClaims = 0 \/ now > TerminalDeadline(incidents[j])
  <2>1. CASE j \in 1 .. (Len(incidents) - 1) BY <2>1 DEF Inv, EarlierIncidentsClosed
  <2>2. CASE j = Len(incidents)
    <3>1. ~LiveAt(incidents[j], now) BY <1>1, <1>2, <2>2 DEF ActiveIncidentId
    <3>2. incidents[j] \in Incident BY <1>1, ElementOfSeq DEF TypeOK, LedgerType
    <3>3. TerminalDeadline(incidents[j]) \in Nat /\ now \in Nat
      BY <1>1, <3>2, DeadlinesType DEF TypeOK, ConfigType
    <3> QED BY <3>1, <3>3 DEF LiveAt
  <2>3. j \in 1 .. (Len(incidents) - 1) \/ j = Len(incidents)
    <3>1. Len(incidents) \in Nat BY <1>2
    <3> QED BY <3>1
  <2> QED BY <2>1, <2>2, <2>3, Zenon
<1>4. ASSUME NEW j \in 1 .. (Len(incidents') - 1)
      PROVE  incidents'[j].unresolvedClaims = 0 \/ now > TerminalDeadline(incidents'[j])
  <2>1. j \in 1 .. Len(incidents) BY <1>2
  <2> QED BY <2>1, <1>2, <1>3
<1> QED BY <1>4 DEF EarlierIncidentsClosed, TerminalDeadline

\* What a fresh incident record says.
LEMMA NewIncidentFields ==
    ASSUME NEW t \in Tokens, NEW assets \in [Pools -> Nat], TypeOK
    PROVE  LET inc == NewIncident(t, assets) IN
           /\ inc.unresolvedClaims = 0 /\ inc.claimIdOf = [u \in Users |-> 0]
           /\ inc.poolBudget = NoBudget /\ inc.spentAtOpen = scoreSpent
BY DEF NewIncident

\* No claim belongs to an incident that does not exist yet.
LEMMA NoClaimsAhead ==
    ASSUME TypeOK
    PROVE  /\ \A k \in DOMAIN claims : claims[k].incidentId # Len(incidents) + 1
           /\ OpenClaims(Len(incidents) + 1) = {}
<1>1. DOMAIN incidents = 1 .. Len(incidents) /\ Len(incidents) \in Nat
  BY DEF TypeOK, LedgerType
<1>2. \A k \in DOMAIN claims : claims[k].incidentId # Len(incidents) + 1
  BY <1>1 DEF TypeOK, LedgerType
<1> QED BY <1>2 DEF OpenClaims, ClaimsOf

\* The pools' state right after an incident opens: nothing is budgeted, nothing
\* was spent since.
LEMMA OpeningBacked ==
    ASSUME TypeOK, TypeOK', NEW e \in Incident, incidents' = Append(incidents, e),
           e.poolBudget = NoBudget, e.spentAtOpen = scoreSpent, scoreSpent' = scoreSpent
    PROVE  BudgetBacked' /\ SpentUnmoved'
<1>1. Len(incidents') = Len(incidents) + 1 /\ incidents'[Len(incidents) + 1] = e
  BY AppendIncident DEF TypeOK, LedgerType
<1>2. ASSUME PayoutIncidentActive' PROVE incidents'[ActiveIncidentId'] = e
  BY <1>1, <1>2 DEF PayoutIncidentActive, ActiveIncidentId
<1>3. \A p \in Pools : poolAssets'[p] \in Nat BY DEF TypeOK, PoolType
<1>4. BudgetBacked'
  <2>1. \A p \in Pools : e.poolBudget[p] <= poolAssets'[p] BY <1>3 DEF NoBudget
  <2> QED BY <1>2, <2>1 DEF BudgetBacked
<1>5. SpentUnmoved'
  <2>1. CASE PayoutIncidentActive'
    <3>1. incidents'[ActiveIncidentId'].spentAtOpen = scoreSpent' BY <1>2, <2>1
    <3> QED BY <3>1 DEF SpentUnmoved
  <2> QED BY <2>1 DEF SpentUnmoved
<1> QED BY <1>4, <1>5

\* openClaimIncident keeps the invariant.
LEMMA OpenClaimIncidentInv ==
    ASSUME Inv, NEW t \in Tokens, OpenClaimIncident(t)
    PROVE  Inv'
<1>1. TypeOK BY DEF Inv
<1>2. PICK assets \in {poolAssets} \cup ExitOutcomes :
         incidents' = Append(incidents, NewIncident(t, assets))
  BY DEF OpenClaimIncident
<1>3. assets \in [Pools -> Nat] BY <1>1, ExitAssetsType
<1> DEFINE e == NewIncident(t, assets)
           n == Len(incidents) + 1
<1>4. e \in Incident BY <1>1, <1>3, NewIncidentType
<1>5. /\ e.unresolvedClaims = 0 /\ e.claimIdOf = [u \in Users |-> 0]
      /\ e.poolBudget = NoBudget /\ e.spentAtOpen = scoreSpent
  BY <1>1, <1>3, NewIncidentFields
<1>6. TypeOK' BY <1>1, OpenClaimIncidentType
<1>7. CanOpen(t) /\ UNCHANGED <<now, scoreSpent, claims>> BY DEF OpenClaimIncident
<1>8. incidents' = Append(incidents, e) BY <1>2
<1> HIDE DEF e
<1>9. /\ DOMAIN incidents' = 1 .. n /\ DOMAIN incidents = 1 .. Len(incidents)
      /\ Len(incidents) \in Nat /\ incidents'[n] = e
      /\ \A j \in DOMAIN incidents : incidents'[j] = incidents[j]
  BY <1>1, <1>4, <1>8, AppendIncident DEF TypeOK, LedgerType
<1>10. \A j \in DOMAIN incidents' : j \in DOMAIN incidents \/ j = n BY <1>9
<1>11. IndexSound'
  <2> HIDE DEF n
  <2> QED BY <1>5, <1>7, <1>9, <1>10 DEF Inv, IndexSound
<1>12. UnresolvedMatchesClaims'
  <2>1. ASSUME NEW j \in DOMAIN incidents'
        PROVE  incidents'[j].unresolvedClaims = Cardinality(OpenClaims(j))
    <3>1. CASE j \in DOMAIN incidents
      BY <3>1, <1>9 DEF Inv, UnresolvedMatchesClaims
    <3>2. CASE j = n
      <4>1. OpenClaims(j) = {} BY <1>1, <3>2, NoClaimsAhead
      <4> QED BY <3>2, <4>1, <1>5, <1>9, FS_EmptySet
    <3> QED BY <3>1, <3>2, <1>10
  <2> QED BY <1>7, <2>1 DEF UnresolvedMatchesClaims, OpenClaims, ClaimsOf
<1>13. OpenClaimIsIndexed'
  <2>1. \A k \in DOMAIN claims : claims[k].incidentId \in DOMAIN incidents
    BY <1>1 DEF TypeOK, LedgerType
  <2> QED BY <1>7, <1>9, <2>1 DEF Inv, OpenClaimIsIndexed, Resolved
<1>14. EarlierIncidentsClosed' BY <1>4, <1>7, <1>8, OpeningClosesEarlier
<1>15. BudgetBacked' /\ SpentUnmoved'
  BY <1>1, <1>4, <1>5, <1>6, <1>7, <1>8, OpeningBacked
<1> QED BY <1>6, <1>11, <1>12, <1>13, <1>14, <1>15 DEF Inv

\* A new claim is one more open claim of its incident.
LEMMA OpenClaimsGrow ==
    ASSUME TypeOK, NEW c \in Claim, c.outcome = "open", claims' = Append(claims, c)
    PROVE  LET k == Len(claims) + 1 IN
           /\ \A j : OpenClaims(j)' = IF j = c.incidentId
                        THEN OpenClaims(j) \cup {k} ELSE OpenClaims(j)
           /\ k \notin DOMAIN claims /\ k # 0
           /\ Cardinality(OpenClaims(c.incidentId) \cup {k})
                = Cardinality(OpenClaims(c.incidentId)) + 1
<1> DEFINE k == Len(claims) + 1
           i == c.incidentId
<1>1. /\ DOMAIN claims' = 1 .. k /\ DOMAIN claims = 1 .. Len(claims) /\ Len(claims) \in Nat
      /\ claims'[k] = c /\ \A j \in DOMAIN claims : claims'[j] = claims[j]
  BY AppendClaim DEF TypeOK, LedgerType
<1>2. DOMAIN claims' = DOMAIN claims \cup {k} /\ k \notin DOMAIN claims /\ k # 0 BY <1>1
<1>3. IsFiniteSet(OpenClaims(i)) /\ k \notin OpenClaims(i)
  <2>1. OpenClaims(i) \in SUBSET DOMAIN claims BY DEF OpenClaims, ClaimsOf
  <2>2. IsFiniteSet(OpenClaims(i)) BY <2>1, ClaimsFinite
  <2> QED BY <1>2, <2>1, <2>2
<1>4. Cardinality(OpenClaims(i) \cup {k}) = Cardinality(OpenClaims(i)) + 1
  BY <1>3, FS_AddElement
<1> HIDE DEF k
<1>5. \A j : OpenClaims(j)' = IF j = i THEN OpenClaims(j) \cup {k} ELSE OpenClaims(j)
  BY <1>1, <1>2 DEF OpenClaims, ClaimsOf
<1> QED BY <1>2, <1>4, <1>5 DEF k

\* The conjuncts about the ledgers survive filing claim c of incident i, when
\* the incident's record counts and indexes it and the account had none.
LEMMA FilingKeepsLedgers ==
    ASSUME Inv, NEW c \in Claim, c.outcome = "open", claims' = Append(claims, c),
           NEW i \in DOMAIN incidents', c.incidentId = i,
           DOMAIN incidents \subseteq DOMAIN incidents',
           \A j \in DOMAIN incidents' : j # i =>
               j \in DOMAIN incidents /\ incidents'[j] = incidents[j],
           i \notin DOMAIN incidents \/ incidents[i].claimIdOf[c.user] = 0,
           NEW old \in [Users -> Nat],
           i \in DOMAIN incidents => old = incidents[i].claimIdOf,
           i \notin DOMAIN incidents => old = [u \in Users |-> 0],
           incidents'[i].claimIdOf = [old EXCEPT ![c.user] = Len(claims) + 1],
           incidents'[i].unresolvedClaims = Cardinality(OpenClaims(i)) + 1
    PROVE  IndexSound' /\ UnresolvedMatchesClaims' /\ OpenClaimIsIndexed'
<1> DEFINE n == Len(claims) + 1
<1>1. TypeOK /\ c.user \in Users BY DEF Inv, Claim
<1>2. /\ \A j : OpenClaims(j)' = IF j = i THEN OpenClaims(j) \cup {n} ELSE OpenClaims(j)
      /\ n \notin DOMAIN claims /\ n # 0
      /\ Cardinality(OpenClaims(i) \cup {n}) = Cardinality(OpenClaims(i)) + 1
  BY <1>1, OpenClaimsGrow
<1>3. /\ DOMAIN claims' = 1 .. n /\ DOMAIN claims = 1 .. Len(claims) /\ Len(claims) \in Nat
      /\ claims'[n] = c /\ \A j \in DOMAIN claims : claims'[j] = claims[j]
  BY <1>1, AppendClaim DEF TypeOK, LedgerType
<1>4. DOMAIN claims' = DOMAIN claims \cup {n} BY <1>3
<1>5. incidents'[i].claimIdOf = [old EXCEPT ![c.user] = n] OBVIOUS
<1> HIDE DEF n
<1>6. UnresolvedMatchesClaims'
  <2>1. ASSUME NEW j \in DOMAIN incidents'
        PROVE  incidents'[j].unresolvedClaims = Cardinality(OpenClaims(j)')
    <3>1. CASE j = i BY <3>1, <1>2
    <3>2. CASE j # i
      <4>1. j \in DOMAIN incidents /\ incidents'[j] = incidents[j] BY <3>2
      <4>2. OpenClaims(j)' = OpenClaims(j) BY <3>2, <1>2
      <4> QED BY <4>1, <4>2 DEF Inv, UnresolvedMatchesClaims
    <3> QED BY <3>1, <3>2
  <2> QED BY <2>1 DEF UnresolvedMatchesClaims
<1>7. IndexSound'
  <2>1. ASSUME NEW j \in DOMAIN incidents', NEW u \in Users, incidents'[j].claimIdOf[u] # 0
        PROVE  LET m == incidents'[j].claimIdOf[u] IN
               m \in DOMAIN claims' /\ claims'[m].incidentId = j /\ claims'[m].user = u
    <3>1. CASE j = i /\ u = c.user
      BY <3>1, <1>1, <1>3, <1>4, <1>5
    <3>2. CASE j = i /\ u # c.user
      <4>1. incidents'[j].claimIdOf[u] = old[u] BY <3>2, <1>5
      <4>2. i \in DOMAIN incidents BY <2>1, <4>1
      <4>3. incidents'[j].claimIdOf[u] = incidents[j].claimIdOf[u] BY <3>2, <4>1, <4>2
      <4> QED BY <2>1, <3>2, <4>2, <4>3, <1>3, <1>4 DEF Inv, IndexSound
    <3>3. CASE j # i
      <4>1. j \in DOMAIN incidents /\ incidents'[j] = incidents[j] BY <3>3
      <4> QED BY <2>1, <4>1, <1>3, <1>4 DEF Inv, IndexSound
    <3> QED BY <3>1, <3>2, <3>3
  <2> QED BY <2>1 DEF IndexSound
<1>8. OpenClaimIsIndexed'
  <2>1. ASSUME NEW m \in DOMAIN claims', claims'[m].outcome = "open"
        PROVE  incidents'[claims'[m].incidentId].claimIdOf[claims'[m].user] = m
    <3>1. CASE m = n BY <3>1, <1>1, <1>3, <1>5
    <3>2. CASE m \in DOMAIN claims
      <4> DEFINE j == claims[m].incidentId
                 u == claims[m].user
      <4>1. claims'[m] = claims[m] /\ claims[m].outcome = "open" BY <2>1, <3>2, <1>3
      <4>2. j \in DOMAIN incidents /\ u \in Users /\ m # 0
        BY <3>2, <1>1, ClaimFields DEF TypeOK, LedgerType
      <4>3. incidents[j].claimIdOf[u] = m
        BY <3>2, <4>1 DEF Inv, OpenClaimIsIndexed, Resolved
      <4>4. incidents'[j].claimIdOf[u] = m
        <5>1. CASE j # i BY <5>1, <4>2, <4>3
        <5>2. CASE j = i
          <6>1. u # c.user BY <5>2, <4>2, <4>3
          <6>2. old = incidents[i].claimIdOf BY <5>2, <4>2
          <6> QED BY <5>2, <6>1, <6>2, <4>2, <4>3, <1>5
        <5> QED BY <5>1, <5>2
      <4> QED BY <4>1, <4>4
    <3> QED BY <3>1, <3>2, <1>4
  <2> QED BY <2>1 DEF OpenClaimIsIndexed, Resolved
<1> QED BY <1>6, <1>7, <1>8

\* fileClaim that opens an incident keeps the invariant.
LEMMA FileOpeningClaimInv ==
    ASSUME Inv, NEW u \in Users, NEW t \in Tokens, NEW a \in Amounts, NEW b \in Boosters,
           FileOpeningClaim(u, t, a, b)
    PROVE  Inv'
<1>1. TypeOK /\ Len(claims) \in Nat /\ Len(incidents) \in Nat
  BY DEF Inv, TypeOK, LedgerType
<1>2. PICK assets \in {poolAssets} \cup ExitOutcomes :
         incidents' = Append(incidents, Joined(NewIncident(t, assets), u, Len(claims) + 1))
  BY DEF FileOpeningClaim
<1>3. assets \in [Pools -> Nat] BY <1>1, ExitAssetsType
<1> DEFINE inc == NewIncident(t, assets)
           e == Joined(inc, u, Len(claims) + 1)
           i == Len(incidents) + 1
           c == NewClaim(u, i, a, b)
           zero == [v \in Users |-> 0]
<1>4. inc \in Incident BY <1>1, <1>3, NewIncidentType
<1>5. e \in Incident BY <1>1, <1>4, JoinedType
<1>6. /\ inc.unresolvedClaims = 0 /\ inc.claimIdOf = zero
      /\ inc.poolBudget = NoBudget /\ inc.spentAtOpen = scoreSpent
  BY <1>1, <1>3, NewIncidentFields
<1> HIDE DEF inc
<1>7. /\ e.unresolvedClaims = 1 /\ e.claimIdOf = [zero EXCEPT ![u] = Len(claims) + 1]
      /\ e.poolBudget = NoBudget /\ e.spentAtOpen = scoreSpent
  <2>1. /\ e.unresolvedClaims = inc.unresolvedClaims + 1
        /\ e.claimIdOf = [inc.claimIdOf EXCEPT ![u] = Len(claims) + 1]
        /\ e.poolBudget = inc.poolBudget /\ e.spentAtOpen = inc.spentAtOpen
    BY <1>4 DEF Joined, Incident
  <2> HIDE DEF e, zero
  <2> QED BY <1>6, <2>1
<1>8. c \in Claim /\ c.outcome = "open" /\ c.incidentId = i /\ c.user = u
  BY <1>1, NewClaimType DEF NewClaim
<1>9. TypeOK' BY <1>1, FileOpeningClaimType
<1>10. /\ CanOpen(t) /\ UNCHANGED <<now, scoreSpent>> /\ claims' = Append(claims, c)
       /\ incidents' = Append(incidents, e)
  BY <1>2 DEF FileOpeningClaim, inc
<1> HIDE DEF e, c
<1>11. /\ DOMAIN incidents' = 1 .. i /\ DOMAIN incidents = 1 .. Len(incidents)
       /\ incidents'[i] = e
       /\ \A j \in DOMAIN incidents : incidents'[j] = incidents[j]
  BY <1>1, <1>5, <1>10, AppendIncident DEF TypeOK, LedgerType
<1>12. /\ i \in DOMAIN incidents' /\ i \notin DOMAIN incidents
       /\ DOMAIN incidents \subseteq DOMAIN incidents'
       /\ \A j \in DOMAIN incidents' : j # i =>
             j \in DOMAIN incidents /\ incidents'[j] = incidents[j]
  BY <1>1, <1>11
<1>13. incidents'[i].unresolvedClaims = Cardinality(OpenClaims(i)) + 1
  <2>1. OpenClaims(i) = {} BY <1>1, NoClaimsAhead
  <2>2. Cardinality({}) = 0 BY FS_EmptySet
  <2>3. incidents'[i].unresolvedClaims = 1 BY <1>7, <1>11
  <2> HIDE DEF i
  <2> QED BY <2>1, <2>2, <2>3
<1>14. IndexSound' /\ UnresolvedMatchesClaims' /\ OpenClaimIsIndexed'
  <2>1. zero \in [Users -> Nat] OBVIOUS
  <2>2. PICK x \in DOMAIN incidents' : x = i BY <1>12
  <2> HIDE DEF i
  <2>3. incidents'[x].claimIdOf = [zero EXCEPT ![c.user] = Len(claims) + 1]
    BY <1>7, <1>8, <1>11, <2>2
  <2>4. /\ c.incidentId = x /\ x \notin DOMAIN incidents
        /\ DOMAIN incidents \subseteq DOMAIN incidents'
        /\ \A j \in DOMAIN incidents' : j # x =>
             j \in DOMAIN incidents /\ incidents'[j] = incidents[j]
        /\ incidents'[x].unresolvedClaims = Cardinality(OpenClaims(x)) + 1
    BY <1>8, <1>12, <1>13, <2>2
  <2> QED BY <1>8, <1>10, <2>1, <2>3, <2>4, FilingKeepsLedgers
<1>15. EarlierIncidentsClosed' BY <1>5, <1>10, OpeningClosesEarlier
<1>16. BudgetBacked' /\ SpentUnmoved'
  BY <1>1, <1>5, <1>7, <1>9, <1>10, OpeningBacked
<1> QED BY <1>9, <1>14, <1>15, <1>16 DEF Inv

\* fileClaim into the active incident keeps the invariant.
LEMMA FileClaimInv ==
    ASSUME Inv, NEW u \in Users, NEW a \in Amounts, NEW b \in Boosters, FileClaim(u, a, b)
    PROVE  Inv'
<1> DEFINE act == ActiveIncidentId
<1>1. TypeOK /\ Len(claims) \in Nat /\ act # 0 BY DEF Inv, TypeOK, LedgerType, FileClaim
<1>2. PICK i \in DOMAIN incidents : i = act BY <1>1, ActiveIsLast
<1>3. i \in 1 .. Len(incidents) /\ i = Len(incidents) /\ incidents[i] \in Incident
  BY <1>1, <1>2, ActiveIsLast
<1> DEFINE inc == incidents[i]
           e == Joined(inc, u, Len(claims) + 1)
           c == NewClaim(u, i, a, b)
<1>4. /\ registry.registered /\ inc.root = "none" /\ now <= inc.phaseDeadline
      /\ inc.claimIdOf[u] = 0
      /\ incidents' = [incidents EXCEPT ![i] = e] /\ claims' = Append(claims, c)
      /\ UNCHANGED <<now, registry, scoreSpent, poolAssets>>
  BY <1>2 DEF FileClaim, ClaimPhaseOpen, NotYetClaimed
<1>5. e \in Incident BY <1>1, <1>3, JoinedType
<1>6. inc.claimIdOf \in [Users -> Nat] /\ i \in Nat BY <1>3 DEF Incident
<1>7. /\ e.unresolvedClaims = inc.unresolvedClaims + 1
      /\ e.claimIdOf = [inc.claimIdOf EXCEPT ![u] = Len(claims) + 1]
      /\ e.poolBudget = inc.poolBudget /\ e.spentAtOpen = inc.spentAtOpen
      /\ e.root = inc.root /\ e.phaseDeadline = inc.phaseDeadline
      /\ e.phaseWindow = inc.phaseWindow
  BY <1>3 DEF Joined, Incident
<1>8. c \in Claim /\ c.outcome = "open" /\ c.incidentId = i /\ c.user = u
  BY <1>1, <1>6, NewClaimType DEF NewClaim
<1>9. TypeOK' BY <1>1, FileClaimType
<1> HIDE DEF e, c, act
<1>10. /\ DOMAIN incidents' = DOMAIN incidents /\ Len(incidents') = Len(incidents)
       /\ incidents'[i] = e
       /\ \A j \in DOMAIN incidents : j # i => incidents'[j] = incidents[j]
  BY <1>1, <1>3, <1>4, <1>5, UpdateIncident DEF TypeOK, LedgerType
<1>11. IndexSound' /\ UnresolvedMatchesClaims' /\ OpenClaimIsIndexed'
  <2>1. incidents'[i].unresolvedClaims = Cardinality(OpenClaims(i)) + 1
    BY <1>7, <1>10 DEF Inv, UnresolvedMatchesClaims
  <2>2. incidents'[i].claimIdOf = [inc.claimIdOf EXCEPT ![c.user] = Len(claims) + 1]
    BY <1>7, <1>8, <1>10
  <2> QED BY <1>4, <1>6, <1>8, <1>10, <2>1, <2>2, FilingKeepsLedgers
<1>12. EarlierIncidentsClosed'
  <2>1. Len(incidents) \in Nat /\ DOMAIN incidents = 1 .. Len(incidents)
    BY <1>1 DEF TypeOK, LedgerType
  <2>2. ASSUME NEW j \in 1 .. (Len(incidents) - 1)
        PROVE  incidents'[j].unresolvedClaims = 0 \/ now > TerminalDeadline(incidents'[j])
    <3>1. j \in DOMAIN incidents /\ j # i BY <1>3, <2>1
    <3> QED BY <3>1, <1>10 DEF Inv, EarlierIncidentsClosed
  <2> QED BY <1>4, <1>10, <2>2 DEF EarlierIncidentsClosed, TerminalDeadline
<1>13. PayoutIncidentActive /\ ActiveIncidentId = i
  BY <1>1, <1>2, <1>4 DEF PayoutIncidentActive, act
<1>14. ASSUME PayoutIncidentActive' PROVE ActiveIncidentId' = i
  BY <1>3, <1>10, <1>14 DEF PayoutIncidentActive, ActiveIncidentId
<1>15. BudgetBacked'
  <2>1. \A p \in Pools : inc.poolBudget[p] <= poolAssets[p]
    BY <1>13 DEF Inv, BudgetBacked
  <2> QED BY <2>1, <1>4, <1>7, <1>10, <1>14 DEF BudgetBacked
<1>16. SpentUnmoved'
  <2>1. \A v \in Users : scoreSpent[v] = inc.spentAtOpen[v]
    BY <1>4, <1>13 DEF Inv, SpentUnmoved
  <2>2. CASE PayoutIncidentActive'
    <3>1. incidents'[ActiveIncidentId'].spentAtOpen = inc.spentAtOpen
      BY <1>7, <1>10, <1>14, <2>2
    <3> QED BY <1>4, <2>1, <3>1 DEF SpentUnmoved
  <2> QED BY <2>2 DEF SpentUnmoved
<1> QED BY <1>9, <1>11, <1>12, <1>15, <1>16 DEF Inv

-----------------------------------------------------------------------------
(* The theorems *)

\* The initial state satisfies the inductive invariant.
LEMMA InitInv == Init => Inv
<1> SUFFICES ASSUME Init PROVE Inv OBVIOUS
<1>1. incidents = <<>> /\ claims = <<>> /\ Len(incidents) = 0 BY DEF Init
<1>2. ConfigType
  <2>1. registry \in Registry BY DEF Init, Registry
  <2> QED BY <2>1, ConstantsAssumption DEF Init, ConfigType
<1>3. LedgerType BY <1>1, ConstantsAssumption DEF LedgerType
<1>4. CustodyType BY DEF Init, CustodyType
<1>5. PoolType BY ConstantSets DEF Init, PoolType
<1>6. ActiveIncidentId = 0 BY <1>1 DEF ActiveIncidentId
<1>7. IndexSound /\ UnresolvedMatchesClaims /\ OpenClaimIsIndexed /\ EarlierIncidentsClosed
  BY <1>1 DEF IndexSound, UnresolvedMatchesClaims, OpenClaimIsIndexed, EarlierIncidentsClosed
<1>8. BudgetBacked /\ SpentUnmoved
  BY <1>6 DEF BudgetBacked, SpentUnmoved, PayoutIncidentActive
<1> QED BY <1>2, <1>3, <1>4, <1>5, <1>7, <1>8 DEF Inv, TypeOK

\* settleIncident and adminCorrectSettlement keep the invariant.
LEMMA SettlementInv ==
    ASSUME Inv, SettlementStep
    PROVE  Inv'
<1>1. CASE \E t \in Tokens : OpenClaimIncident(t) BY <1>1, OpenClaimIncidentInv
<1>2. CASE \E i \in DOMAIN incidents : SignSettlement(i) BY <1>2, SignSettlementInv
<1>3. CASE \E s \in signed : SettleIncident(s)
  <2>1. PICK s \in signed : SettleIncident(s) BY <1>3
  <2>2. s \in Signature BY DEF Inv, TypeOK, PoolType
  <2>3. s.rows \in Settlement /\ s.poolPayouts \in [Pools -> Nat] BY <2>2 DEF Signature
  <2>4. /\ PayoutIncidentActive
        /\ CommitRoot(ActiveIncidentId, "tee", s.rows, s.poolPayouts)
        /\ UNCHANGED <<now, registry, scoreSpent, claimBondAmount, isTeeSigner,
                       claims, custodyVars, poolAssets, signed>>
    BY <2>1 DEF SettleIncident, PayoutIncidentActive
  <2> QED BY <2>3, <2>4, CommitRootInv
<1>4. ASSUME NEW rows \in Settlement, NEW budget \in [Pools -> Nat],
             AdminCorrectSettlement(rows, budget)
      PROVE  Inv'
  <2>1. /\ PayoutIncidentActive
        /\ CommitRoot(ActiveIncidentId, "admin", rows, budget)
        /\ UNCHANGED <<now, registry, scoreSpent, claimBondAmount, isTeeSigner,
                       claims, custodyVars, poolAssets, signed>>
    BY <1>4 DEF AdminCorrectSettlement, CanCorrect, PayoutIncidentActive
  <2> QED BY <2>1, CommitRootInv
<1>5. CASE \E rows \in [ClaimsOf(Len(incidents)) -> RowChoices \cup {NoRow}],
              budget \in [Pools -> BudgetChoices] :
              AdminCorrectSettlement(
                  [k \in ClaimIds |-> IF k \in DOMAIN rows THEN rows[k] ELSE NoRow], budget)
  <2>1. PICK rows \in [ClaimsOf(Len(incidents)) -> RowChoices \cup {NoRow}],
             budget \in [Pools -> BudgetChoices] :
             AdminCorrectSettlement(
                 [k \in ClaimIds |-> IF k \in DOMAIN rows THEN rows[k] ELSE NoRow], budget)
    BY <1>5
  <2> QED BY <2>1, <1>4, CorrectionInputs
<1>6. CASE AdminVoidSettlement BY <1>6, AdminVoidSettlementInv
<1> QED BY <1>1, <1>2, <1>3, <1>5, <1>6 DEF SettlementStep

\* Every step keeps the inductive invariant.
LEMMA InvStep == Inv /\ [Next]_vars => Inv'
<1> SUFFICES ASSUME Inv, [Next]_vars PROVE Inv' OBVIOUS
<1>1. CASE ClaimantStep
  <2>1. CASE \E u \in Users, t \in Tokens, a \in Amounts, b \in Boosters :
                FileOpeningClaim(u, t, a, b)
    BY <2>1, FileOpeningClaimInv
  <2>2. CASE \E u \in Users, a \in Amounts, b \in Boosters : FileClaim(u, a, b)
    BY <2>2, FileClaimInv
  <2>3. CASE \E u \in Users : CancelClaim(u) BY <2>3, CancelClaimInv
  <2>4. CASE \E k \in DOMAIN claims : AcceptPayout(k) BY <2>4, AcceptPayoutInv
  <2>5. CASE \E k \in DOMAIN claims :
                \/ \E byClaimant \in BOOLEAN : DeclinePayout(k, byClaimant)
                \/ RecoverClaim(k)
    BY <2>5, ReturnInv
  <2> QED BY <1>1, <2>1, <2>2, <2>3, <2>4, <2>5 DEF ClaimantStep
<1>2. CASE SettlementStep BY <1>2, SettlementInv
<1>3. CASE GovernanceStep BY <1>3, GovernanceInv
<1>4. CASE EnvironmentStep BY <1>4, EnvironmentInv
<1>5. CASE UNCHANGED vars
  <2>1. /\ UNCHANGED <<incidents, claims, now, poolAssets, scoreSpent, registry>>
        /\ TypeOK' /\ now <= now'
    BY <1>5 DEF vars, configVars, custodyVars, Inv, TypeOK, ConfigType, LedgerType,
       CustodyType, PoolType
  <2> QED BY <2>1, StaticInv
<1> QED BY <1>1, <1>2, <1>3, <1>4, <1>5 DEF Next

\* The inductive invariant holds in every reachable state.
THEOREM InvHolds == Spec => []Inv
BY InitInv, InvStep, PTL DEF Spec

\* Whatever claimants, relayers, governance and the clock do, no balance,
\* budget or counter of the module goes below zero.
THEOREM TypeCorrect == Spec => []TypeOK
<1>1. Inv => TypeOK BY DEF Inv
<1> QED BY <1>1, InvHolds, PTL

\* The unresolvedClaims counter of finalizeClaim and cancelClaim is exact.
THEOREM UnresolvedExact == Spec => []UnresolvedMatchesClaims
<1>1. Inv => UnresolvedMatchesClaims BY DEF Inv
<1> QED BY <1>1, InvHolds, PTL

\* One account never has two open claims of the same incident.
THEOREM OneOpenClaimPerIncident == Spec => []OpenClaimIsIndexed
<1>1. Inv => OpenClaimIsIndexed BY DEF Inv
<1> QED BY <1>1, InvHolds, PTL

\* An incident is never superseded while one of its claims could be paid.
THEOREM NoOverlap == Spec => []EarlierIncidentsClosed
<1>1. Inv => EarlierIncidentsClosed BY DEF Inv
<1> QED BY <1>1, InvHolds, PTL

\* Every pool covers the remaining budget of the incident that freezes it, for
\* any fee, cap, pool set and history of payouts.
THEOREM BudgetAlwaysBacked == Spec => []BudgetBacked
<1>1. Inv => BudgetBacked BY DEF Inv
<1> QED BY <1>1, InvHolds, PTL

\* The spent score read at openBlock is still current when a claimant accepts.
THEOREM SpentAlwaysFresh == Spec => []SpentSnapshotFresh
<1>1. ASSUME Inv PROVE SpentSnapshotFresh
  <2> SUFFICES ASSUME PayoutIncidentActive, NEW k \in OpenClaims(ActiveIncidentId)
               PROVE  scoreSpent[claims[k].user] =
                        incidents[ActiveIncidentId].spentAtOpen[claims[k].user]
    BY DEF SpentSnapshotFresh
  <2>1. TypeOK /\ k \in DOMAIN claims BY <1>1 DEF Inv, OpenClaims, ClaimsOf
  <2>2. claims[k].user \in Users BY <2>1, ClaimFields
  <2> QED BY <1>1, <2>2 DEF Inv, SpentUnmoved
<1> QED BY <1>1, InvHolds, PTL

\* Only finalizeClaim with a payout marks a claim paid.
LEMMA PaidByAccept ==
    ASSUME Inv, [Next]_vars, NEW k \in DOMAIN claims,
           claims[k].outcome = "open", claims'[k].outcome = "paid"
    PROVE  AcceptPayout(k)
<1>1. TypeOK /\ claims \in Seq(Claim) BY DEF Inv, TypeOK, LedgerType
<1>2. claims' # claims OBVIOUS
<1>3. ASSUME NEW m \in DOMAIN claims, NEW o \in Outcomes \ {"open", "paid"},
             claims' = [claims EXCEPT ![m].outcome = o]
      PROVE  FALSE
  <2>1. o \in Outcomes \ {"open"} OBVIOUS
  <2>2. /\ claims'[m].outcome = o
        /\ \A j \in DOMAIN claims : j # m => claims'[j] = claims[j]
    BY <1>1, <1>3, <2>1, ResolveClaim
  <2> QED BY <2>2
<1>4. ASSUME NEW c, claims' = Append(claims, c) PROVE FALSE
  <2>1. DOMAIN claims = 1 .. Len(claims) BY <1>1, LenProperties
  <2>2. claims'[k] = claims[k] BY <1>1, <1>4, <2>1
  <2> QED BY <2>2
<1>5. ClaimantStep
  BY <1>2 DEF Next, vars, configVars, custodyVars, SettlementStep, GovernanceStep,
     EnvironmentStep, OpenClaimIncident, SignSettlement, SettleIncident,
     AdminCorrectSettlement, AdminVoidSettlement, ListInsuredToken, DelistInsuredToken,
     SweepToken, SetClaimBondAmount, SetTeeSigner, RegisterModule, ReplaceModule,
     ClearDefiInsurance, EndBetaMode, SetPaused, SetPoolPaused, SetProtocolFeeConfig,
     SetIncidentTimingConfig, SetMaxCoverPoolPayoutBps, AddPool, RemovePool,
     notRegistry, claimState, PoolFlow, OtherModulePays, Donate, Tick
<1>6. \A u \in Users : ~CancelClaim(u)
  <2> SUFFICES ASSUME NEW u \in Users, CancelClaim(u) PROVE FALSE OBVIOUS
  <2> DEFINE i == ActiveIncidentId
             m == incidents[i].claimIdOf[u]
  <2>1. i # 0 /\ m # 0 /\ claims' = [claims EXCEPT ![m].outcome = "cancelled"]
    BY DEF CancelClaim
  <2>2. m \in DOMAIN claims BY <1>1, <2>1, ActiveIsLast, IndexedClaim
  <2>3. "cancelled" \in Outcomes \ {"open", "paid"} BY DEF Outcomes
  <2> HIDE DEF m
  <2> QED BY <1>3, <2>1, <2>2, <2>3
<1>7. ASSUME NEW m \in DOMAIN claims,
             \/ \E byClaimant \in BOOLEAN : DeclinePayout(m, byClaimant)
             \/ RecoverClaim(m)
      PROVE  FALSE
  <2>1. \E o \in {"declined", "recovered"} : claims' = [claims EXCEPT ![m].outcome = o]
    BY <1>7 DEF DeclinePayout, RecoverClaim
  <2> QED BY <1>3, <2>1 DEF Outcomes
<1>8. \A u \in Users, a \in Amounts, b \in Boosters :
         /\ ~FileClaim(u, a, b)
         /\ \A t \in Tokens : ~FileOpeningClaim(u, t, a, b)
  BY <1>4 DEF FileClaim, FileOpeningClaim
<1>9. PICK m \in DOMAIN claims : AcceptPayout(m)
  BY <1>5, <1>6, <1>7, <1>8 DEF ClaimantStep
<1>10. m = k
  <2>1. "paid" \in Outcomes \ {"open"} BY DEF Outcomes
  <2>2. claims' = [claims EXCEPT ![m].outcome = "paid"] BY <1>9 DEF AcceptPayout
  <2>3. \A j \in DOMAIN claims : j # m => claims'[j] = claims[j]
    BY <1>1, <2>1, <2>2, ResolveClaim
  <2> QED BY <2>3
<1> QED BY <1>9, <1>10

\* A payout always comes out of the incident that freezes the pools now.
THEOREM PaidWhileFrozen == Spec => PaidOnlyWhileFrozen
<1> DEFINE A == \A k \in DOMAIN claims :
        claims[k].outcome = "open" /\ claims'[k].outcome = "paid" =>
            PayoutIncidentActive /\ claims[k].incidentId = ActiveIncidentId
<1>1. Inv /\ [Next]_vars => [A]_vars
  <2> SUFFICES ASSUME Inv, [Next]_vars, NEW k \in DOMAIN claims,
                      claims[k].outcome = "open", claims'[k].outcome = "paid"
               PROVE  PayoutIncidentActive /\ claims[k].incidentId = ActiveIncidentId
    OBVIOUS
  <2>1. AcceptPayout(k) BY PaidByAccept
  <2> QED BY <2>1, AcceptedIsActive
<1>2. Spec => [][A]_vars BY <1>1, InvHolds, PTL DEF Spec
<1> QED BY <1>2 DEF PaidOnlyWhileFrozen

-----------------------------------------------------------------------------
(* The two sums of the model *)

\* What a set of claims draws from a pool, as a sum of a function.
LEMMA DrawsTotal ==
    ASSUME NEW inc, NEW S, IsFiniteSet(S), NEW p
    PROVE  DrawsOf(inc, S, p) = Total([k \in S |-> Draw(inc, inc.rows[k], p)], S)
<1> DEFINE d(k) == Draw(inc, inc.rows[k], p)
           f == [k \in S |-> d(k)]
           D(g) == g = [s \in SUBSET S |->
                          IF s = {} THEN 0 ELSE d(Pick(s)) + g[s \ {Pick(s)}]]
<1>1. DrawsOf(inc, S, p) = (CHOOSE g : D(g))[S]
  BY DEF DrawsOf, MapThenSumSet, MapThenFoldSet, Pick
<1> HIDE DEF d
<1>2. ASSUME NEW g PROVE D(g) <=> Iterates(f, S, g)
  <2> DEFINE A(s) == IF s = {} THEN 0 ELSE d(Pick(s)) + g[s \ {Pick(s)}]
             B(s) == IF s = {} THEN 0 ELSE f[Pick(s)] + g[s \ {Pick(s)}]
  <2>1. ASSUME NEW s \in SUBSET S PROVE A(s) = B(s)
    <3>1. CASE s = {} BY <3>1
    <3>2. CASE s # {}
      <4>1. Pick(s) \in S BY <3>2, PickIn
      <4>2. f[Pick(s)] = d(Pick(s)) BY <4>1
      <4> HIDE DEF f
      <4> QED BY <3>2, <4>2
    <3> QED BY <3>1, <3>2
  <2>2. [s \in SUBSET S |-> A(s)] = [s \in SUBSET S |-> B(s)]
    <3> HIDE DEF A, B
    <3> QED BY <2>1
  <2> HIDE DEF f
  <2> QED BY <2>2 DEF Iterates
<1> HIDE DEF f, D
<1>3. \E g : D(g) BY <1>2, IteratorExists
<1>4. D(CHOOSE g : D(g)) BY <1>3
<1>5. Iterates(f, S, CHOOSE g : D(g)) BY <1>2, <1>4
<1>6. (CHOOSE g : D(g))[S] = Total(f, S) BY <1>5, IteratorIsTotal
<1> QED BY <1>1, <1>6 DEF f, d

\* What the kernel's rows draw from a pool, as a sum of a function.
LEMMA GrossTotal ==
    ASSUME NEW inc, NEW rows, NEW S, IsFiniteSet(S), NEW p
    PROVE  PoolGross(inc, rows, p, S)
             = Total([k \in S |-> KernelGross(rows[k].pay[p], inc.feeShareBps)], S)
<1> DEFINE d(k) == KernelGross(rows[k].pay[p], inc.feeShareBps)
           f == [k \in S |-> d(k)]
           D(g) == g = [s \in SUBSET S |->
                          IF s = {} THEN 0 ELSE d(Pick(s)) + g[s \ {Pick(s)}]]
<1>1. PoolGross(inc, rows, p, S) = (CHOOSE g : D(g))[S]
  BY DEF PoolGross, MapThenSumSet, MapThenFoldSet, Pick
<1> HIDE DEF d
<1>2. ASSUME NEW g PROVE D(g) <=> Iterates(f, S, g)
  <2> DEFINE A(s) == IF s = {} THEN 0 ELSE d(Pick(s)) + g[s \ {Pick(s)}]
             B(s) == IF s = {} THEN 0 ELSE f[Pick(s)] + g[s \ {Pick(s)}]
  <2>1. ASSUME NEW s \in SUBSET S PROVE A(s) = B(s)
    <3>1. CASE s = {} BY <3>1
    <3>2. CASE s # {}
      <4>1. Pick(s) \in S BY <3>2, PickIn
      <4>2. f[Pick(s)] = d(Pick(s)) BY <4>1
      <4> HIDE DEF f
      <4> QED BY <3>2, <4>2
    <3> QED BY <3>1, <3>2
  <2>2. [s \in SUBSET S |-> A(s)] = [s \in SUBSET S |-> B(s)]
    <3> HIDE DEF A, B
    <3> QED BY <2>1
  <2> HIDE DEF f
  <2> QED BY <2>2 DEF Iterates
<1> HIDE DEF f, D
<1>3. \E g : D(g) BY <1>2, IteratorExists
<1>4. D(CHOOSE g : D(g)) BY <1>3
<1>5. Iterates(f, S, CHOOSE g : D(g)) BY <1>2, <1>4
<1>6. (CHOOSE g : D(g))[S] = Total(f, S) BY <1>5, IteratorIsTotal
<1> QED BY <1>1, <1>6 DEF f, d

\* Only the fee and the rows matter to the kernel's sum.
LEMMA GrossSame ==
    ASSUME NEW a, NEW b, a.feeShareBps = b.feeShareBps, NEW p, NEW S, IsFiniteSet(S),
           NEW ra, NEW rb, \A k \in S : ra[k] = rb[k]
    PROVE  PoolGross(a, ra, p, S) = PoolGross(b, rb, p, S)
<1> DEFINE F == [k \in S |-> KernelGross(ra[k].pay[p], a.feeShareBps)]
           G == [k \in S |-> KernelGross(rb[k].pay[p], b.feeShareBps)]
<1>1. F = G OBVIOUS
<1>2. PoolGross(a, ra, p, S) = Total(F, S) /\ PoolGross(b, rb, p, S) = Total(G, S)
  BY GrossTotal
<1> HIDE DEF F, G
<1> QED BY <1>1, <1>2

\* Only the rows, the pools and the fee matter to what a set of claims draws.
LEMMA DrawsSame ==
    ASSUME NEW a, NEW b, a.rows = b.rows, a.pools = b.pools,
           a.feeShareBps = b.feeShareBps, NEW p, NEW S, IsFiniteSet(S)
    PROVE  DrawsOf(a, S, p) = DrawsOf(b, S, p)
<1> DEFINE F == [k \in S |-> Draw(a, a.rows[k], p)]
           G == [k \in S |-> Draw(b, b.rows[k], p)]
<1>1. F = G BY DEF Draw
<1>2. DrawsOf(a, S, p) = Total(F, S) /\ DrawsOf(b, S, p) = Total(G, S)
  BY DrawsTotal
<1> HIDE DEF F, G
<1> QED BY <1>1, <1>2

\* A row draws a natural amount.
LEMMA DrawNat ==
    ASSUME NEW inc \in Incident, NEW row \in Row, NEW p \in Pools
    PROVE  Draw(inc, row, p) \in Nat
<1>1. row.pay[p] \in Nat /\ inc.feeShareBps \in 0 .. (Bps - 1) BY DEF Incident, Row
<1>2. GrossAmount(row.pay[p], inc.feeShareBps) \in Nat BY <1>1, GrossType
<1> QED BY <1>2 DEF Draw

\* When a claim leaves, its draw leaves the sum.
LEMMA DrawsRemove ==
    ASSUME NEW inc \in Incident, NEW p \in Pools, NEW S, IsFiniteSet(S),
           \A k \in S : inc.rows[k] \in Row, NEW k \in S
    PROVE  /\ DrawsOf(inc, S, p) = Draw(inc, inc.rows[k], p) + DrawsOf(inc, S \ {k}, p)
           /\ Draw(inc, inc.rows[k], p) \in Nat
           /\ DrawsOf(inc, S \ {k}, p) \in Nat
<1> DEFINE F == [x \in S |-> Draw(inc, inc.rows[x], p)]
           R == S \ {k}
           G == [x \in R |-> Draw(inc, inc.rows[x], p)]
<1>1. \A x \in S : F[x] \in Nat BY DrawNat
<1>2. IsFiniteSet(R) /\ R \subseteq S BY FS_Subset
<1>3. DrawsOf(inc, S, p) = Total(F, S) /\ DrawsOf(inc, R, p) = Total(G, R)
  BY <1>2, DrawsTotal
<1>4. \A x \in R : G[x] = F[x] BY <1>2
<1>5. F[k] = Draw(inc, inc.rows[k], p) OBVIOUS
<1> HIDE DEF F, G
<1>6. Total(G, R) = Total(F, R) BY <1>1, <1>2, <1>4, TotalSame
<1>7. Total(F, S) = F[k] + Total(F, R) BY <1>1, TotalRemove
<1>8. Total(F, R) \in Nat BY <1>1, <1>2, TotalNat
<1> QED BY <1>1, <1>3, <1>5, <1>6, <1>7, <1>8

\* The claims still open never draw more than the kernel allocated in total.
LEMMA DrawsWithinGross ==
    ASSUME NEW inc \in Incident, NEW e, e.pools = inc.pools,
           e.feeShareBps = inc.feeShareBps, NEW p \in inc.pools,
           NEW S, IsFiniteSet(S), NEW R \in SUBSET S, \A k \in S : e.rows[k] \in Row
    PROVE  DrawsOf(e, R, p) <= PoolGross(inc, e.rows, p, S)
<1> DEFINE F == [k \in S |-> KernelGross(e.rows[k].pay[p], inc.feeShareBps)]
           G == [k \in R |-> Draw(e, e.rows[k], p)]
<1>1. p \in Pools /\ inc.feeShareBps \in 0 .. (Bps - 1) BY DEF Incident
<1>2. ASSUME NEW k \in S
      PROVE  /\ KernelGross(e.rows[k].pay[p], inc.feeShareBps) \in Nat
             /\ KernelGross(e.rows[k].pay[p], inc.feeShareBps) = Draw(e, e.rows[k], p)
  <2>1. e.rows[k].pay[p] \in Nat BY <1>1 DEF Row
  <2>2. GrossAmount(e.rows[k].pay[p], inc.feeShareBps) \in Nat BY <1>1, <2>1, GrossType
  <2> QED BY <2>2 DEF KernelGross, GrossAmount, Draw
<1>3. \A k \in S : F[k] \in Nat BY <1>2
<1>4. \A k \in R : G[k] = F[k] BY <1>2
<1>5. IsFiniteSet(R) BY FS_Subset
<1>6. PoolGross(inc, e.rows, p, S) = Total(F, S) /\ DrawsOf(e, R, p) = Total(G, R)
  BY <1>5, DrawsTotal, GrossTotal
<1> HIDE DEF F, G
<1>7. Total(G, R) = Total(F, R) BY <1>3, <1>4, <1>5, TotalSame
<1>8. Total(F, R) <= Total(F, S) BY <1>3, TotalSubset
<1> QED BY <1>6, <1>7, <1>8

-----------------------------------------------------------------------------
(* The inductive invariant *)

\* The claims the engine settles: those that were not cancelled.
Live(i) == {k \in ClaimsOf(i) : claims[k].outcome # "cancelled"}

PastClaimPhase(inc) == now > inc.openedAt + inc.phaseWindow

\* An incident without a root is in its first claim phase or was voided, and a
\* root only ever stands after the claim phase.
PhaseSound ==
    \A i \in DOMAIN incidents : LET inc == incidents[i] IN
        \/ inc.root = "none" /\ inc.phaseDeadline = inc.openedAt + inc.phaseWindow
        \/ PastClaimPhase(inc) /\ (inc.root = "none" => inc.phaseDeadline = 0)

\* A claim finalized under a root is past the deadline for correcting it.
FinalizedUnderRoot ==
    \A k \in DOMAIN claims : claims[k].outcome \in {"paid", "declined"} =>
        LET inc == incidents[claims[k].incidentId] IN
        inc.root # "none" /\ now > inc.phaseDeadline

\* What the TEE signed still describes its incident: same claim set, same live
\* claims, rows as the kernel attests them, budgets as it summed them.
SignatureSound(s) ==
    LET i == s.incidentId
        inc == incidents[i]
    IN  /\ i \in DOMAIN incidents
        /\ PastClaimPhase(inc)
        /\ s.claimSet = inc.claimSet
        /\ s.unresolvedClaims = Cardinality(Live(i))
        /\ \A k \in Live(i) : s.rows[k] \in Row
        /\ Attested(inc, s.rows, Live(i))
        /\ \A p \in Pools : s.poolPayouts[p] =
              IF p \in inc.pools THEN PoolGross(inc, s.rows, p, Live(i)) ELSE 0

SignedSound == \A s \in signed : SignatureSound(s)

\* A TEE root holds the rows of a signed settlement of that incident, and its
\* remaining budgets cover the open claims together.
TeeRootSigned ==
    \A i \in DOMAIN incidents : incidents[i].root = "tee" =>
        \E s \in signed : s.incidentId = i /\ s.rows = incidents[i].rows

TeeRootFunded ==
    \A i \in DOMAIN incidents : incidents[i].root = "tee" =>
        \A p \in incidents[i].pools :
            DrawsOf(incidents[i], OpenClaims(i), p) <= incidents[i].poolBudget[p]

LedgerInv == PhaseSound /\ FinalizedUnderRoot /\ SignedSound /\ TeeRootSigned /\ TeeRootFunded

\* While an incident without a root freezes the pools, no claim of it has been
\* recovered and the caps read at openBlock are the caps in force.
NoneRecovered ==
    PayoutIncidentActive /\ incidents[ActiveIncidentId].root = "none" =>
        \A k \in ClaimsOf(ActiveIncidentId) : claims[k].outcome \in {"open", "cancelled"}

CapFrozen ==
    PayoutIncidentActive /\ incidents[ActiveIncidentId].root = "none" =>
        \A p \in incidents[ActiveIncidentId].pools :
            incidents[ActiveIncidentId].capAtOpen[p] = MaxPayoutPerIncident(p)

FullInv == Inv /\ LedgerInv /\ NoneRecovered /\ CapFrozen /\ CustodyBacked

-----------------------------------------------------------------------------
(* What a signature says survives *)

\* The terms an incident opens with and never changes.
SameTerms(a, b) ==
    /\ a.insuredToken = b.insuredToken /\ a.openedAt = b.openedAt
    /\ a.phaseWindow = b.phaseWindow /\ a.pools = b.pools
    /\ a.feeShareBps = b.feeShareBps /\ a.capAtOpen = b.capAtOpen
    /\ a.spentAtOpen = b.spentAtOpen

\* The live claims of an incident are finitely many.
LEMMA LiveFinite ==
    ASSUME TypeOK, NEW i
    PROVE  IsFiniteSet(Live(i)) /\ IsFiniteSet(OpenClaims(i)) /\ OpenClaims(i) \subseteq Live(i)
<1>1. Live(i) \in SUBSET DOMAIN claims /\ OpenClaims(i) \in SUBSET DOMAIN claims
  BY DEF Live, OpenClaims, ClaimsOf
<1>2. OpenClaims(i) \subseteq Live(i) BY DEF Live, OpenClaims
<1> QED BY <1>1, <1>2, ClaimsFinite

\* A signature stays sound as long as its incident keeps its terms, its claim
\* set and its live claims.
LEMMA SignatureKept ==
    ASSUME TypeOK, TypeOK', NEW s, SignatureSound(s), now <= now', NEW i, i = s.incidentId,
           i \in DOMAIN incidents', SameTerms(incidents[i], incidents'[i]),
           incidents'[i].claimSet = incidents[i].claimSet, Live(i)' = Live(i),
           \A k \in Live(i) : /\ claims'[k].user = claims[k].user
                              /\ claims'[k].amount = claims[k].amount
                              /\ claims'[k].booster = claims[k].booster
    PROVE  SignatureSound(s)'
<1> DEFINE a == incidents[i]
           b == incidents'[i]
           L == Live(i)
<1>1. /\ i \in DOMAIN incidents /\ PastClaimPhase(a) /\ s.claimSet = a.claimSet
      /\ s.unresolvedClaims = Cardinality(L) /\ \A k \in L : s.rows[k] \in Row
      /\ Attested(a, s.rows, L)
      /\ \A p \in Pools : s.poolPayouts[p] =
            IF p \in a.pools THEN PoolGross(a, s.rows, p, L) ELSE 0
  BY DEF SignatureSound
<1>2. IsFiniteSet(L) BY LiveFinite
<1>3. \A p : PoolGross(a, s.rows, p, L) = PoolGross(b, s.rows, p, L)
  BY <1>2, GrossSame DEF SameTerms
<1>4. PastClaimPhase(incidents[i])'
  <2>1. a \in Incident BY <1>1, LenProperties, ElementOfSeq DEF TypeOK, LedgerType
  <2>2. a.openedAt \in Nat /\ a.phaseWindow \in Nat BY <2>1, DeadlinesType DEF Incident
  <2>3. now \in Nat /\ now' \in Nat BY DEF TypeOK, ConfigType
  <2> HIDE DEF a
  <2>4. now' > a.openedAt + a.phaseWindow BY <1>1, <2>2, <2>3 DEF PastClaimPhase
  <2> QED BY <2>4 DEF PastClaimPhase, SameTerms, a
<1>5. Attested(incidents[i], s.rows, Live(i))'
  <2>1. \A k \in L : Unspent(b, claims'[k].user) = Unspent(a, claims[k].user)
    BY DEF Unspent, SameTerms
  <2>2. \A k \in L :
        LET row == s.rows[k]
            unspent == Unspent(b, claims'[k].user)
        IN  /\ row.eligible <= claims'[k].amount
            /\ row.booster <= claims'[k].booster
            /\ row.boosted = BoostedScore(row.score, row.booster)
            /\ row.score <= (IF row.eligible = 0 \/ unspent < 0 THEN 0 ELSE unspent)
            /\ \A p \in Pools : p \notin b.pools \/ row.score = 0 => row.pay[p] = 0
    <3> HIDE DEF L
    <3>1. b.pools = a.pools BY DEF SameTerms
    <3> HIDE DEF a, b
    <3> QED BY <1>1, <2>1, <3>1 DEF Attested, L
  <2>3. \A p \in b.pools : PoolGross(b, s.rows, p, L) <= b.capAtOpen[p]
    <3>1. b.pools = a.pools /\ b.capAtOpen = a.capAtOpen BY DEF SameTerms
    <3> HIDE DEF a, b, L
    <3> QED BY <1>1, <1>3, <3>1 DEF Attested
  <2>4. Live(i)' = L OBVIOUS
  <2> HIDE DEF L
  <2> QED BY <2>2, <2>3, <2>4 DEF Attested
<1>6. \A p \in Pools : s.poolPayouts[p] =
            IF p \in b.pools THEN PoolGross(b, s.rows, p, L) ELSE 0
  <2>1. b.pools = a.pools BY DEF SameTerms
  <2> HIDE DEF a, b, L
  <2> QED BY <1>1, <1>3, <2>1
<1> HIDE DEF L
<1> QED BY <1>1, <1>4, <1>5, <1>6 DEF SignatureSound, L

-----------------------------------------------------------------------------
(* Steps that leave the two ledgers alone *)

\* Record types of the ledgers' entries.
LEMMA EntryTypes ==
    ASSUME TypeOK
    PROVE  /\ \A i \in DOMAIN incidents : incidents[i] \in Incident
           /\ \A i \in DOMAIN incidents :
                 incidents[i].openedAt \in Nat /\ incidents[i].phaseWindow \in Nat
           /\ \A k \in DOMAIN claims : claims[k] \in Claim
           /\ \A k \in DOMAIN claims : claims[k].incidentId \in DOMAIN incidents
           /\ now \in Nat
<1>1. /\ incidents \in Seq(Incident) /\ claims \in Seq(Claim)
      /\ \A k \in DOMAIN claims : claims[k].incidentId \in DOMAIN incidents
      /\ now \in Nat
  BY DEF TypeOK, LedgerType, ConfigType
<1>2. DOMAIN incidents = 1 .. Len(incidents) /\ DOMAIN claims = 1 .. Len(claims)
  BY <1>1, LenProperties
<1>3. \A i \in DOMAIN incidents : incidents[i] \in Incident BY <1>1, <1>2, ElementOfSeq
<1>4. \A k \in DOMAIN claims : claims[k] \in Claim BY <1>1, <1>2, ElementOfSeq
<1>5. \A i \in DOMAIN incidents :
         incidents[i].openedAt \in Nat /\ incidents[i].phaseWindow \in Nat
  BY <1>3, DeadlinesType DEF Incident
<1> QED BY <1>1, <1>3, <1>4, <1>5

\* The rows of a TEE root name every claim that is still open.
LEMMA TeeRowsTyped ==
    ASSUME TypeOK, SignedSound, TeeRootSigned,
           NEW i \in DOMAIN incidents, incidents[i].root = "tee"
    PROVE  \A k \in OpenClaims(i) : incidents[i].rows[k] \in Row
<1>1. PICK s \in signed : s.incidentId = i /\ s.rows = incidents[i].rows
  BY DEF TeeRootSigned
<1>2. \A k \in Live(i) : s.rows[k] \in Row BY <1>1 DEF SignedSound, SignatureSound
<1> QED BY <1>1, <1>2, LiveFinite

\* Time, governance and the environment do not disturb the ledgers.
LEMMA StaticLedgerInv ==
    ASSUME TypeOK, TypeOK', LedgerInv, UNCHANGED <<incidents, claims>>, now <= now',
           signed \subseteq signed', \A s \in signed' \ signed : SignatureSound(s)'
    PROVE  LedgerInv'
<1>1. now \in Nat /\ now' \in Nat BY DEF TypeOK, ConfigType
<1>2. PhaseSound'
  <2> SUFFICES ASSUME NEW i \in DOMAIN incidents
               PROVE  LET inc == incidents'[i] IN
                      \/ inc.root = "none" /\ inc.phaseDeadline = inc.openedAt + inc.phaseWindow
                      \/ /\ now' > inc.openedAt + inc.phaseWindow
                         /\ inc.root = "none" => inc.phaseDeadline = 0
    BY DEF PhaseSound, PastClaimPhase
  <2>1. incidents[i].openedAt \in Nat /\ incidents[i].phaseWindow \in Nat BY EntryTypes
  <2>2. \/ incidents[i].root = "none"
           /\ incidents[i].phaseDeadline = incidents[i].openedAt + incidents[i].phaseWindow
        \/ /\ now > incidents[i].openedAt + incidents[i].phaseWindow
           /\ incidents[i].root = "none" => incidents[i].phaseDeadline = 0
    BY DEF LedgerInv, PhaseSound, PastClaimPhase
  <2> QED BY <1>1, <2>1, <2>2
<1>3. FinalizedUnderRoot'
  <2>1. \A k \in DOMAIN claims : incidents[claims[k].incidentId].phaseDeadline \in Nat
    BY EntryTypes DEF Incident
  <2> QED BY <1>1, <2>1 DEF LedgerInv, FinalizedUnderRoot
<1>4. SignedSound'
  <2> SUFFICES ASSUME NEW s \in signed' PROVE SignatureSound(s)' BY DEF SignedSound
  <2>1. CASE s \in signed
    <3> DEFINE i == s.incidentId
    <3>1. SignatureSound(s) /\ i \in DOMAIN incidents
      BY <2>1 DEF LedgerInv, SignedSound, SignatureSound
    <3>2. Live(i)' = Live(i) BY DEF Live, ClaimsOf
    <3>3. SameTerms(incidents[i], incidents'[i]) BY DEF SameTerms
    <3> HIDE DEF i
    <3> QED BY <3>1, <3>2, <3>3, SignatureKept DEF i
  <2>2. CASE s \notin signed BY <2>2
  <2> QED BY <2>1, <2>2
<1>5. TeeRootSigned' BY DEF LedgerInv, TeeRootSigned
<1>6. TeeRootFunded'
  <2>1. \A i : OpenClaims(i)' = OpenClaims(i) BY DEF OpenClaims, ClaimsOf
  <2> QED BY <2>1 DEF LedgerInv, TeeRootFunded
<1> QED BY <1>2, <1>3, <1>4, <1>5, <1>6 DEF LedgerInv

\* What build_settlement signs is sound when it is signed.
LEMMA SignLedgerInv ==
    ASSUME TypeOK, TypeOK', LedgerInv, NEW i \in DOMAIN incidents, SignSettlement(i)
    PROVE  LedgerInv'
<1> DEFINE inc == incidents[i]
           L == Live(i)
<1>1. PICK rows \in [L -> RowChoices] :
        LET payouts == [p \in Pools |->
                  IF p \in inc.pools THEN PoolGross(inc, rows, p, L) ELSE 0]
        IN  /\ Attested(inc, rows, L)
            /\ signed' = signed \cup
                 {[incidentId |-> i,
                   rows |-> [k \in ClaimIds |-> IF k \in L THEN rows[k] ELSE NoRow],
                   poolPayouts |-> payouts,
                   unresolvedClaims |-> Cardinality(L),
                   claimSet |-> inc.claimSet]}
  BY DEF SignSettlement, Live
<1>2. /\ now > inc.openedAt + inc.phaseWindow
      /\ UNCHANGED <<now, incidents, claims>>
  BY DEF SignSettlement
<1> DEFINE full == [k \in ClaimIds |-> IF k \in L THEN rows[k] ELSE NoRow]
           payouts == [p \in Pools |->
                  IF p \in inc.pools THEN PoolGross(inc, rows, p, L) ELSE 0]
           n == Cardinality(L)
           cs == inc.claimSet
           s == [incidentId |-> i, rows |-> full, poolPayouts |-> payouts,
                 unresolvedClaims |-> n, claimSet |-> cs]
<1>3. signed' = signed \cup {s} /\ Attested(inc, rows, L) BY <1>1
<1>4. /\ s.incidentId = i /\ s.rows = full /\ s.poolPayouts = payouts
      /\ s.unresolvedClaims = n /\ s.claimSet = cs
  <2> HIDE DEF full, payouts, n, cs
  <2> QED OBVIOUS
<1>5. L \subseteq ClaimIds /\ IsFiniteSet(L)
  <2>1. Len(claims) <= MaxClaims /\ claims \in Seq(Claim) BY DEF TypeOK, LedgerType
  <2>2. DOMAIN claims = 1 .. Len(claims) /\ Len(claims) \in Nat BY <2>1, LenProperties
  <2>3. DOMAIN claims \subseteq 1 .. MaxClaims BY <2>1, <2>2, ConstantsAssumption
  <2> QED BY <2>3, LiveFinite DEF ClaimIds, Live, ClaimsOf
<1>6. \A k \in L : full[k] = rows[k] /\ full[k] \in Row
  <2> HIDE DEF L
  <2> QED BY <1>5, ConstantSets
<1>7. \A p : PoolGross(inc, full, p, L) = PoolGross(inc, rows, p, L)
  <2> HIDE DEF full, L, inc
  <2> QED BY <1>5, <1>6, GrossSame
<1>8. Attested(inc, full, L)
  <2> HIDE DEF full, L, inc
  <2> QED BY <1>3, <1>6, <1>7 DEF Attested
<1>9. \A p \in Pools : payouts[p] = IF p \in inc.pools THEN PoolGross(inc, full, p, L) ELSE 0
  <2> HIDE DEF full, L, inc
  <2> QED BY <1>7
<1> HIDE DEF s, full, payouts
<1>10. SignatureSound(s)
  BY <1>2, <1>4, <1>6, <1>8, <1>9 DEF SignatureSound, PastClaimPhase
<1>11. PICK t : t = s OBVIOUS
<1>12. SignatureSound(t)'
  <2>1. Live(i)' = Live(i) BY <1>2 DEF Live, ClaimsOf
  <2>2. SameTerms(incidents[i], incidents'[i]) BY <1>2 DEF SameTerms
  <2>3. now <= now' BY <1>2 DEF TypeOK, ConfigType
  <2>4. SignatureSound(t) /\ i = t.incidentId BY <1>4, <1>10, <1>11
  <2> QED BY <1>2, <2>1, <2>2, <2>3, <2>4, SignatureKept
<1>13. now <= now' BY <1>2 DEF TypeOK, ConfigType
<1>14. \A x \in signed' \ signed : SignatureSound(x)' BY <1>3, <1>11, <1>12
<1> QED BY <1>2, <1>3, <1>13, <1>14, StaticLedgerInv

-----------------------------------------------------------------------------
(* Steps that change one incident *)

\* How the other incidents fare when one is rewritten: only the changed one has
\* to be looked at.
LEMMA OthersKept ==
    ASSUME TypeOK, NEW i \in DOMAIN incidents, NEW e \in Incident,
           incidents' = [incidents EXCEPT ![i] = e]
    PROVE  /\ DOMAIN incidents' = DOMAIN incidents
           /\ incidents'[i] = e
           /\ \A j \in DOMAIN incidents : j # i => incidents'[j] = incidents[j]
<1>1. incidents \in Seq(Incident) /\ i \in 1 .. Len(incidents)
  BY LenProperties DEF TypeOK, LedgerType
<1> QED BY <1>1, UpdateIncident

\* Cancelling is possible in the claim phase only, so nothing is signed yet.
LEMMA ClaimPhaseUnsigned ==
    ASSUME TypeOK, LedgerInv, NEW i \in DOMAIN incidents, ClaimPhaseOpen(incidents[i])
    PROVE  /\ ~PastClaimPhase(incidents[i])
           /\ incidents[i].phaseDeadline = incidents[i].openedAt + incidents[i].phaseWindow
           /\ \A s \in signed : s.incidentId # i
           /\ \A k \in ClaimsOf(i) : claims[k].outcome \notin {"paid", "declined"}
<1>1. /\ incidents[i].root = "none" /\ now <= incidents[i].phaseDeadline
  BY DEF ClaimPhaseOpen
<1>2. incidents[i].openedAt \in Nat /\ incidents[i].phaseWindow \in Nat /\ now \in Nat
  BY EntryTypes
<1>3. now > 0
  <2>1. now >= StartTime /\ StartTime \in Nat BY ConstantsAssumption DEF TypeOK, ConfigType
  <2>2. incidents[i].phaseWindow \in Windows BY EntryTypes, DeadlinesType
  <2>3. incidents[i].phaseWindow < StartTime BY <2>2, ConstantsAssumption
  <2> QED BY <1>2, <2>1, <2>3
<1>4. incidents[i].phaseDeadline # 0 BY <1>1, <1>2, <1>3
<1>5. incidents[i].phaseDeadline = incidents[i].openedAt + incidents[i].phaseWindow
  BY <1>1, <1>4 DEF LedgerInv, PhaseSound
<1>6. ~PastClaimPhase(incidents[i]) BY <1>1, <1>2, <1>5 DEF PastClaimPhase
<1>7. \A s \in signed : s.incidentId # i
  BY <1>6 DEF LedgerInv, SignedSound, SignatureSound
<1>8. \A k \in ClaimsOf(i) : claims[k].outcome \notin {"paid", "declined"}
  BY <1>1 DEF ClaimsOf, LedgerInv, FinalizedUnderRoot
<1> QED BY <1>5, <1>6, <1>7, <1>8

\* Resolving a claim, paid or not, keeps the ledgers sound.
LEMMA ResolveLedgerInv ==
    ASSUME TypeOK, TypeOK', LedgerInv, NEW k \in DOMAIN claims, ~Resolved(k),
           NEW o \in Outcomes \ {"open"}, claims' = [claims EXCEPT ![k].outcome = o],
           NEW i, i = claims[k].incidentId, NEW e \in Incident,
           incidents' = [incidents EXCEPT ![i] = e],
           SameTerms(incidents[i], e), e.root = incidents[i].root,
           e.rows = incidents[i].rows, e.phaseDeadline = incidents[i].phaseDeadline,
           UNCHANGED <<now, signed>>,
           IF o = "cancelled" THEN ClaimPhaseOpen(incidents[i])
           ELSE e.claimSet = incidents[i].claimSet,
           o \in {"paid", "declined"} => /\ incidents[i].root # "none"
                                         /\ now > incidents[i].phaseDeadline,
           \A p \in incidents[i].pools :
               \/ e.poolBudget[p] = incidents[i].poolBudget[p]
               \/ /\ incidents[i].rows[k] \in Row
                  /\ e.poolBudget[p] = incidents[i].poolBudget[p]
                                          - Draw(incidents[i], incidents[i].rows[k], p)
    PROVE  LedgerInv'
<1>1. i \in DOMAIN incidents /\ incidents[i] \in Incident BY EntryTypes
<1>2. /\ DOMAIN incidents' = DOMAIN incidents /\ incidents'[i] = e
      /\ \A j \in DOMAIN incidents : j # i => incidents'[j] = incidents[j]
  BY <1>1, OthersKept
<1>3. /\ DOMAIN claims' = DOMAIN claims /\ claims'[k].outcome = o
      /\ \A m \in DOMAIN claims :
            /\ claims'[m].user = claims[m].user
            /\ claims'[m].incidentId = claims[m].incidentId
            /\ claims'[m].amount = claims[m].amount
            /\ claims'[m].booster = claims[m].booster
            /\ m # k => claims'[m] = claims[m]
  <2>1. claims \in Seq(Claim) BY DEF TypeOK, LedgerType
  <2> QED BY <2>1, ResolveClaim
<1>4. PhaseSound'
  <2> SUFFICES ASSUME NEW j \in DOMAIN incidents
               PROVE  LET inc == incidents'[j] IN
                      \/ inc.root = "none" /\ inc.phaseDeadline = inc.openedAt + inc.phaseWindow
                      \/ /\ now > inc.openedAt + inc.phaseWindow
                         /\ inc.root = "none" => inc.phaseDeadline = 0
    BY <1>2 DEF PhaseSound, PastClaimPhase
  <2>1. CASE j = i
    BY <1>1, <1>2, <2>1 DEF LedgerInv, PhaseSound, PastClaimPhase, SameTerms
  <2>2. CASE j # i BY <1>2, <2>2 DEF LedgerInv, PhaseSound, PastClaimPhase
  <2> QED BY <2>1, <2>2
<1>5. FinalizedUnderRoot'
  <2> SUFFICES ASSUME NEW m \in DOMAIN claims, claims'[m].outcome \in {"paid", "declined"}
               PROVE  /\ incidents'[claims[m].incidentId].root # "none"
                      /\ now > incidents'[claims[m].incidentId].phaseDeadline
    BY <1>3 DEF FinalizedUnderRoot
  <2>1. claims[m].incidentId \in DOMAIN incidents BY EntryTypes
  <2>2. /\ incidents'[claims[m].incidentId].root = incidents[claims[m].incidentId].root
        /\ incidents'[claims[m].incidentId].phaseDeadline
             = incidents[claims[m].incidentId].phaseDeadline
    BY <1>2, <2>1
  <2>3. CASE m = k BY <1>3, <2>2, <2>3
  <2>4. CASE m # k BY <1>3, <2>2, <2>4 DEF LedgerInv, FinalizedUnderRoot
  <2> QED BY <2>3, <2>4
<1>6. \A j : Live(j)' = IF o = "cancelled" THEN Live(j) \ {k} ELSE Live(j)
  <2>1. claims[k].outcome = "open" BY DEF Resolved
  <2> QED BY <1>3, <2>1 DEF Live, ClaimsOf
<1>7. SignedSound'
  <2> SUFFICES ASSUME NEW s \in signed PROVE SignatureSound(s)' BY DEF SignedSound
  <2> DEFINE j == s.incidentId
  <2>1. SignatureSound(s) /\ j \in DOMAIN incidents
    BY DEF LedgerInv, SignedSound, SignatureSound
  <2>2. Live(j)' = Live(j) /\ incidents'[j].claimSet = incidents[j].claimSet
    <3>1. CASE o = "cancelled"
      <4>1. j # i BY <1>1, <3>1, ClaimPhaseUnsigned
      <4>2. k \notin Live(j) BY <4>1 DEF Live, ClaimsOf
      <4> QED BY <1>2, <1>6, <2>1, <3>1, <4>1, <4>2
    <3>2. CASE o # "cancelled" BY <1>2, <1>6, <2>1, <3>2
    <3> QED BY <3>1, <3>2
  <2>3. SameTerms(incidents[j], incidents'[j]) BY <1>2, <2>1 DEF SameTerms
  <2>4. \A m \in Live(j) : /\ claims'[m].user = claims[m].user
                           /\ claims'[m].amount = claims[m].amount
                           /\ claims'[m].booster = claims[m].booster
    BY <1>3 DEF Live, ClaimsOf
  <2>5. now <= now' BY EntryTypes
  <2> HIDE DEF j
  <2> QED BY <1>2, <2>1, <2>2, <2>3, <2>4, <2>5, SignatureKept DEF j
<1>8. TeeRootSigned'
  BY <1>2 DEF LedgerInv, TeeRootSigned
<1>9. TeeRootFunded'
  <2> SUFFICES ASSUME NEW j \in DOMAIN incidents, incidents'[j].root = "tee",
                      NEW p \in incidents'[j].pools
               PROVE  DrawsOf(incidents'[j], OpenClaims(j)', p) <= incidents'[j].poolBudget[p]
    BY <1>2 DEF TeeRootFunded
  <2>1. /\ \A n : OpenClaims(n)' = OpenClaims(n) \ {k} /\ k \in OpenClaims(i)
        /\ \A n : n # i => k \notin OpenClaims(n)
    BY OpenClaimsShrink
  <2>2. CASE j # i
    <3>1. incidents'[j] = incidents[j] /\ OpenClaims(j)' = OpenClaims(j) BY <1>2, <2>1, <2>2
    <3> QED BY <3>1 DEF LedgerInv, TeeRootFunded
  <2>3. CASE j = i
    <3> DEFINE inc == incidents[i]
               S == OpenClaims(i)
               d == Draw(inc, inc.rows[k], p)
    <3>1. /\ inc.root = "tee" /\ p \in inc.pools /\ p \in Pools
          /\ incidents'[j] = e /\ OpenClaims(j)' = S \ {k} /\ k \in S
      BY <1>1, <1>2, <2>1, <2>3 DEF SameTerms, Incident
    <3>2. DrawsOf(inc, S, p) <= inc.poolBudget[p]
      BY <1>1, <3>1 DEF LedgerInv, TeeRootFunded
    <3>3. \A m \in S : inc.rows[m] \in Row
      BY <1>1, <3>1, TeeRowsTyped DEF LedgerInv
    <3>4. IsFiniteSet(S) /\ IsFiniteSet(S \ {k}) BY LiveFinite, FS_Subset
    <3>5. /\ DrawsOf(inc, S, p) = d + DrawsOf(inc, S \ {k}, p)
          /\ d \in Nat /\ DrawsOf(inc, S \ {k}, p) \in Nat
      <4> HIDE DEF S, inc
      <4> QED BY <1>1, <3>1, <3>3, <3>4, DrawsRemove DEF inc
    <3>6. DrawsOf(e, S \ {k}, p) = DrawsOf(inc, S \ {k}, p)
      <4> HIDE DEF S
      <4> QED BY <3>4, DrawsSame DEF SameTerms
    <3>7. inc.poolBudget[p] \in Nat BY <1>1, <3>1 DEF Incident
    <3>8. e.poolBudget[p] = inc.poolBudget[p] \/ e.poolBudget[p] = inc.poolBudget[p] - d
      BY <3>1
    <3> HIDE DEF inc, S, d
    <3> QED BY <3>1, <3>2, <3>5, <3>6, <3>7, <3>8
  <2> QED BY <2>2, <2>3
<1> QED BY <1>4, <1>5, <1>7, <1>8, <1>9 DEF LedgerInv

\* Storing or dropping the root of an incident none of whose claims has been
\* finalized keeps the ledgers sound.
LEMMA RewriteLedgerInv ==
    ASSUME TypeOK, TypeOK', LedgerInv, NEW i \in DOMAIN incidents, NEW e \in Incident,
           incidents' = [incidents EXCEPT ![i] = e], UNCHANGED <<claims, signed, now>>,
           SameTerms(incidents[i], e), e.claimSet = incidents[i].claimSet,
           PastClaimPhase(incidents[i]), e.root = "none" => e.phaseDeadline = 0,
           \A k \in ClaimsOf(i) : claims[k].outcome \notin {"paid", "declined"},
           e.root = "tee" => \E s \in signed : /\ s.incidentId = i /\ e.rows = s.rows
                                               /\ e.poolBudget = s.poolPayouts
    PROVE  LedgerInv'
<1>1. incidents[i] \in Incident BY EntryTypes
<1>2. /\ DOMAIN incidents' = DOMAIN incidents /\ incidents'[i] = e
      /\ \A j \in DOMAIN incidents : j # i => incidents'[j] = incidents[j]
  BY OthersKept
<1>3. PhaseSound'
  <2> SUFFICES ASSUME NEW j \in DOMAIN incidents
               PROVE  LET inc == incidents'[j] IN
                      \/ inc.root = "none" /\ inc.phaseDeadline = inc.openedAt + inc.phaseWindow
                      \/ /\ now > inc.openedAt + inc.phaseWindow
                         /\ inc.root = "none" => inc.phaseDeadline = 0
    BY <1>2 DEF PhaseSound, PastClaimPhase
  <2>1. CASE j = i BY <1>2, <2>1 DEF PastClaimPhase, SameTerms
  <2>2. CASE j # i BY <1>2, <2>2 DEF LedgerInv, PhaseSound, PastClaimPhase
  <2> QED BY <2>1, <2>2
<1>4. FinalizedUnderRoot'
  <2> SUFFICES ASSUME NEW m \in DOMAIN claims, claims[m].outcome \in {"paid", "declined"}
               PROVE  /\ incidents'[claims[m].incidentId].root # "none"
                      /\ now > incidents'[claims[m].incidentId].phaseDeadline
    BY DEF FinalizedUnderRoot
  <2>1. claims[m].incidentId \in DOMAIN incidents BY EntryTypes
  <2>2. claims[m].incidentId # i BY DEF ClaimsOf
  <2> QED BY <1>2, <2>1, <2>2 DEF LedgerInv, FinalizedUnderRoot
<1>5. \A j : Live(j)' = Live(j) /\ OpenClaims(j)' = OpenClaims(j)
  BY DEF Live, OpenClaims, ClaimsOf
<1>6. SignedSound'
  <2> SUFFICES ASSUME NEW s \in signed PROVE SignatureSound(s)' BY DEF SignedSound
  <2> DEFINE j == s.incidentId
  <2>1. SignatureSound(s) /\ j \in DOMAIN incidents
    BY DEF LedgerInv, SignedSound, SignatureSound
  <2>2. SameTerms(incidents[j], incidents'[j]) BY <1>2, <2>1 DEF SameTerms
  <2>3. incidents'[j].claimSet = incidents[j].claimSet BY <1>2, <2>1
  <2>4. now <= now' BY EntryTypes
  <2> HIDE DEF j
  <2> QED BY <1>2, <1>5, <2>1, <2>2, <2>3, <2>4, SignatureKept DEF j
<1>7. TeeRootSigned' BY <1>2 DEF LedgerInv, TeeRootSigned
<1>8. TeeRootFunded'
  <2> SUFFICES ASSUME NEW j \in DOMAIN incidents, incidents'[j].root = "tee",
                      NEW p \in incidents'[j].pools
               PROVE  DrawsOf(incidents'[j], OpenClaims(j), p) <= incidents'[j].poolBudget[p]
    BY <1>2, <1>5 DEF TeeRootFunded
  <2>1. CASE j # i BY <1>2, <2>1 DEF LedgerInv, TeeRootFunded
  <2>2. CASE j = i
    <3>1. PICK s \in signed :
             s.incidentId = i /\ e.rows = s.rows /\ e.poolBudget = s.poolPayouts
      BY <1>2, <2>2
    <3>2. /\ \A k \in Live(i) : e.rows[k] \in Row
          /\ \A q \in Pools : e.poolBudget[q] =
               IF q \in incidents[i].pools
               THEN PoolGross(incidents[i], e.rows, q, Live(i)) ELSE 0
      BY <3>1 DEF LedgerInv, SignedSound, SignatureSound
    <3>3. p \in incidents[i].pools /\ p \in Pools
      BY <1>1, <1>2, <2>2 DEF SameTerms, Incident
    <3>4. IsFiniteSet(Live(i)) /\ OpenClaims(i) \in SUBSET Live(i) BY LiveFinite
    <3>5. DrawsOf(e, OpenClaims(i), p) <= PoolGross(incidents[i], e.rows, p, Live(i))
      BY <1>1, <3>2, <3>3, <3>4, DrawsWithinGross DEF SameTerms
    <3> QED BY <1>2, <2>2, <3>2, <3>3, <3>5
  <2> QED BY <2>1, <2>2
<1> QED BY <1>3, <1>4, <1>6, <1>7, <1>8 DEF LedgerInv

\* Opening an incident and filing a claim in its claim phase keep them sound.
LEMMA FilingLedgerInv ==
    ASSUME TypeOK, TypeOK', LedgerInv, UNCHANGED <<signed, now>>, NEW i,
           DOMAIN incidents' = DOMAIN incidents \cup {i},
           \A j \in DOMAIN incidents : j # i => incidents'[j] = incidents[j],
           incidents'[i].root = "none",
           incidents'[i].phaseDeadline = incidents'[i].openedAt + incidents'[i].phaseWindow,
           i \in DOMAIN incidents => ClaimPhaseOpen(incidents[i]),
           DOMAIN claims \subseteq DOMAIN claims',
           \A k \in DOMAIN claims : claims'[k] = claims[k],
           \A k \in DOMAIN claims' \ DOMAIN claims :
               claims'[k].incidentId = i /\ claims'[k].outcome = "open"
    PROVE  LedgerInv'
<1>1. PhaseSound'
  BY DEF LedgerInv, PhaseSound, PastClaimPhase
<1>2. \A s \in signed : s.incidentId \in DOMAIN incidents /\ s.incidentId # i
  BY ClaimPhaseUnsigned DEF LedgerInv, SignedSound, SignatureSound
<1>3. FinalizedUnderRoot'
  <2> SUFFICES ASSUME NEW m \in DOMAIN claims', claims'[m].outcome \in {"paid", "declined"}
               PROVE  /\ incidents'[claims'[m].incidentId].root # "none"
                      /\ now > incidents'[claims'[m].incidentId].phaseDeadline
    BY DEF FinalizedUnderRoot
  <2>1. m \in DOMAIN claims /\ claims'[m] = claims[m] OBVIOUS
  <2>2. claims[m].incidentId \in DOMAIN incidents BY <2>1, EntryTypes
  <2>3. claims[m].incidentId # i
    BY <2>1, <2>2, ClaimPhaseUnsigned DEF ClaimsOf
  <2> QED BY <2>1, <2>2, <2>3 DEF LedgerInv, FinalizedUnderRoot
<1>4. \A j : j # i => Live(j)' = Live(j) /\ OpenClaims(j)' = OpenClaims(j)
  BY DEF Live, OpenClaims, ClaimsOf
<1>5. SignedSound'
  <2> SUFFICES ASSUME NEW s \in signed PROVE SignatureSound(s)' BY DEF SignedSound
  <2> DEFINE j == s.incidentId
  <2>1. SignatureSound(s) /\ j \in DOMAIN incidents /\ j # i
    BY <1>2 DEF LedgerInv, SignedSound
  <2>2. SameTerms(incidents[j], incidents'[j]) BY <2>1 DEF SameTerms
  <2>3. now <= now' BY EntryTypes
  <2>4. \A k \in Live(j) : claims'[k] = claims[k] BY DEF Live, ClaimsOf
  <2>5. incidents'[j] = incidents[j] BY <2>1
  <2> HIDE DEF j
  <2> QED BY <1>4, <2>1, <2>2, <2>3, <2>4, <2>5, SignatureKept DEF j
<1>6. TeeRootSigned' BY DEF LedgerInv, TeeRootSigned
<1>7. TeeRootFunded' BY <1>4 DEF LedgerInv, TeeRootFunded
<1> QED BY <1>1, <1>3, <1>5, <1>6, <1>7 DEF LedgerInv

-----------------------------------------------------------------------------
(* The incident that freezes the pools *)

\* While the pools are frozen by an incident without a root, time and
\* governance leave its caps and its claims alone.
LEMMA StaticFrozen ==
    ASSUME Inv, TypeOK', NoneRecovered, CapFrozen, UNCHANGED <<incidents, claims>>,
           now <= now', registry.registered' => registry.registered \/ ActiveIncidentId = 0,
           PayoutIncidentActive' /\ PayoutIncidentActive =>
               poolAssets' = poolAssets /\ registry'.maxPayoutBps = registry.maxPayoutBps
    PROVE  NoneRecovered' /\ CapFrozen'
<1> SUFFICES ASSUME PayoutIncidentActive', incidents'[ActiveIncidentId'].root = "none"
             PROVE  /\ \A k \in ClaimsOf(ActiveIncidentId)' :
                          claims'[k].outcome \in {"open", "cancelled"}
                    /\ \A p \in incidents'[ActiveIncidentId'].pools :
                          incidents'[ActiveIncidentId'].capAtOpen[p] = MaxPayoutPerIncident(p)'
  BY DEF NoneRecovered, CapFrozen
<1>1. PayoutIncidentActive /\ ActiveIncidentId' = ActiveIncidentId BY StaysFrozen DEF Inv
<1>2. ClaimsOf(ActiveIncidentId)' = ClaimsOf(ActiveIncidentId) BY <1>1 DEF ClaimsOf
<1>3. \A p : MaxPayoutPerIncident(p)' = MaxPayoutPerIncident(p)
  BY <1>1 DEF MaxPayoutPerIncident
<1> QED BY <1>1, <1>2, <1>3 DEF NoneRecovered, CapFrozen

\* Resolving a claim leaves them alone too: under a standing freeze without a
\* root, claims can only be cancelled.
LEMMA ResolutionFrozen ==
    ASSUME Inv, NoneRecovered, CapFrozen, NEW k \in DOMAIN claims, ~Resolved(k),
           NEW o \in Outcomes \ {"open"}, claims' = [claims EXCEPT ![k].outcome = o],
           NEW e \in Incident, NEW i, Resolution(k, i, e),
           UNCHANGED <<now, registry>>, SameTerms(incidents[i], e),
           LET awaiting == /\ PayoutIncidentActive /\ i = ActiveIncidentId
                           /\ incidents[i].root = "none"
           IN  awaiting => o = "cancelled",
           poolAssets' = poolAssets \/ (i = ActiveIncidentId /\ incidents[i].root # "none")
    PROVE  NoneRecovered' /\ CapFrozen'
<1> DEFINE a == ActiveIncidentId
<1> SUFFICES ASSUME PayoutIncidentActive', incidents'[ActiveIncidentId'].root = "none"
             PROVE  /\ \A m \in ClaimsOf(ActiveIncidentId)' :
                          claims'[m].outcome \in {"open", "cancelled"}
                    /\ \A p \in incidents'[ActiveIncidentId'].pools :
                          incidents'[ActiveIncidentId'].capAtOpen[p] = MaxPayoutPerIncident(p)'
  BY DEF NoneRecovered, CapFrozen
<1>1. /\ PayoutIncidentActive /\ ActiveIncidentId' = a
      /\ a \in DOMAIN incidents /\ incidents'[i] = e
      /\ \A j \in DOMAIN incidents : j # i => incidents'[j] = incidents[j]
  BY ResolutionStaysFrozen
<1>2. SameTerms(incidents[a], incidents'[a]) /\ incidents'[a].root = incidents[a].root
  BY <1>1 DEF Resolution, SameTerms
<1>3. incidents[a].root = "none" BY <1>1, <1>2
<1>4. i = claims[k].incidentId BY DEF Resolution
<1>5. /\ DOMAIN claims' = DOMAIN claims /\ claims'[k].outcome = o
      /\ \A m \in DOMAIN claims : /\ claims'[m].incidentId = claims[m].incidentId
                                  /\ m # k => claims'[m] = claims[m]
  BY ResolveClaim DEF Inv, TypeOK, LedgerType
<1>6. ASSUME NEW m \in ClaimsOf(ActiveIncidentId)'
      PROVE  claims'[m].outcome \in {"open", "cancelled"}
  <2>1. m \in DOMAIN claims /\ claims[m].incidentId = a BY <1>1, <1>5 DEF ClaimsOf
  <2>2. CASE m = k BY <1>1, <1>3, <1>4, <1>5, <2>1, <2>2
  <2>3. CASE m # k
    <3>1. m \in ClaimsOf(a) BY <2>1 DEF ClaimsOf
    <3> QED BY <1>1, <1>3, <1>5, <2>1, <2>3, <3>1 DEF NoneRecovered
  <2> QED BY <2>2, <2>3
<1>7. poolAssets' = poolAssets BY <1>3
<1>8. \A p : MaxPayoutPerIncident(p)' = MaxPayoutPerIncident(p)
  BY <1>7 DEF MaxPayoutPerIncident
<1>9. \A p \in incidents'[a].pools : incidents'[a].capAtOpen[p] = MaxPayoutPerIncident(p)
  BY <1>1, <1>2, <1>3 DEF CapFrozen, SameTerms
<1> QED BY <1>1, <1>6, <1>8, <1>9

\* An incident that was just opened or joined: its claims are open or
\* cancelled, and its caps are those of the pools as they stand.
LEMMA FilingFrozen ==
    ASSUME TypeOK, TypeOK', NEW i, i = Len(incidents'), incidents'[i].root = "none",
           \A k \in DOMAIN claims' : claims'[k].incidentId = i =>
               claims'[k].outcome \in {"open", "cancelled"},
           \A p \in incidents'[i].pools :
               incidents'[i].capAtOpen[p] = MaxPayoutPerIncident(p)'
    PROVE  NoneRecovered' /\ CapFrozen'
<1>1. PayoutIncidentActive' => ActiveIncidentId' = i
  BY DEF PayoutIncidentActive, ActiveIncidentId
<1>2. NoneRecovered' BY <1>1 DEF NoneRecovered, ClaimsOf
<1>3. CapFrozen' BY <1>1 DEF CapFrozen
<1> QED BY <1>2, <1>3

-----------------------------------------------------------------------------
(* Custody *)

\* fileClaim's transfers bring in what they add to the counters.
LEMMA TakeCustodyBacked ==
    ASSUME CustodyType, CustodyBacked, claimBondAmount \in Nat, NEW t \in Tokens,
           NEW a \in Nat, NEW b \in Nat, TakeCustody(t, a, b)
    PROVE  CustodyBacked'
<1>1. /\ escrowedInsuredTokens' = [escrowedInsuredTokens EXCEPT ![t] = @ + a]
      /\ escrowedClaimBonds' = escrowedClaimBonds + claimBondAmount
      /\ held' = [x \in Tokens |-> held[x] + (IF x = t THEN a ELSE 0)
                                 + (IF x = Usd8 THEN claimBondAmount ELSE 0)]
  BY DEF TakeCustody
<1> SUFFICES ASSUME NEW x \in Tokens
             PROVE  held'[x] >= escrowedInsuredTokens'[x]
                                  + (IF x = Usd8 THEN escrowedClaimBonds' ELSE 0)
  BY DEF CustodyBacked
<1>2. /\ held[x] \in Nat /\ escrowedInsuredTokens[x] \in Nat /\ escrowedClaimBonds \in Nat
      /\ held[x] >= escrowedInsuredTokens[x] + (IF x = Usd8 THEN escrowedClaimBonds ELSE 0)
  BY DEF CustodyType, CustodyBacked
<1>3. escrowedInsuredTokens'[x] = escrowedInsuredTokens[x] + (IF x = t THEN a ELSE 0)
  BY <1>1, <1>2 DEF CustodyType
<1>4. held'[x] = held[x] + (IF x = t THEN a ELSE 0) + (IF x = Usd8 THEN claimBondAmount ELSE 0)
  BY <1>1
<1> QED BY <1>1, <1>2, <1>3, <1>4

\* A release never sends out more of the insured token than the claim escrowed.
LEMMA ReleaseCustodyBacked ==
    ASSUME TypeOK, UnresolvedMatchesClaims, CustodyBacked,
           NEW k \in DOMAIN claims, ~Resolved(k), NEW tokensOut \in Nat,
           NEW boostersOut, tokensOut <= claims[k].amount,
           ReleaseCustody(k, tokensOut, boostersOut)
    PROVE  CustodyBacked'
<1> DEFINE c == claims[k]
           t == incidents[c.incidentId].insuredToken
<1>1. CustodyType BY DEF TypeOK
<1>2. c \in Claim BY EntryTypes
<1>3. incidents[c.incidentId] \in Incident BY OpenClaimCounted
<1>4. t \in Tokens /\ c.amount \in Nat /\ c.bond \in Nat BY <1>2, <1>3 DEF Incident, Claim
<1>5. /\ escrowedInsuredTokens' = [escrowedInsuredTokens EXCEPT ![t] = @ - c.amount]
      /\ escrowedClaimBonds' = escrowedClaimBonds - c.bond
      /\ held' = [x \in Tokens |-> held[x] - (IF x = t THEN tokensOut ELSE 0)
                                     - (IF x = Usd8 THEN c.bond ELSE 0)]
  BY DEF ReleaseCustody, BondOwed
<1>6. tokensOut <= c.amount OBVIOUS
<1> HIDE DEF c, t
<1> SUFFICES ASSUME NEW x \in Tokens
             PROVE  held'[x] >= escrowedInsuredTokens'[x]
                                  + (IF x = Usd8 THEN escrowedClaimBonds' ELSE 0)
  BY DEF CustodyBacked
<1>7. /\ held[x] \in Nat /\ escrowedInsuredTokens[x] \in Nat /\ escrowedClaimBonds \in Nat
      /\ held[x] >= escrowedInsuredTokens[x] + (IF x = Usd8 THEN escrowedClaimBonds ELSE 0)
  BY <1>1 DEF CustodyType, CustodyBacked
<1>8. escrowedInsuredTokens'[x] = escrowedInsuredTokens[x] - (IF x = t THEN c.amount ELSE 0)
  BY <1>1, <1>5, <1>7 DEF CustodyType
<1>9. held'[x] = held[x] - (IF x = t THEN tokensOut ELSE 0) - (IF x = Usd8 THEN c.bond ELSE 0)
  BY <1>5
<1> QED BY <1>4, <1>5, <1>6, <1>7, <1>8, <1>9

\* sweepToken takes what is above the counters, and a donation only adds.
LEMMA SweepBacked ==
    ASSUME CustodyType, CustodyBacked, NEW t \in Tokens,
           SweepToken(t) \/ \E d \in Donations : Donate(t, d)
    PROVE  CustodyBacked'
<1>1. UNCHANGED <<escrowedInsuredTokens, escrowedClaimBonds>> BY DEF SweepToken, Donate
<1>2. /\ held \in [Tokens -> Nat] /\ escrowedInsuredTokens \in [Tokens -> Nat]
      /\ escrowedClaimBonds \in Nat
  BY DEF CustodyType
<1> DEFINE owed(x) == escrowedInsuredTokens[x] + (IF x = Usd8 THEN escrowedClaimBonds ELSE 0)
<1>3. \A x \in Tokens : owed(x) \in Nat /\ held[x] >= owed(x) BY <1>2 DEF CustodyBacked
<1>4. CASE SweepToken(t)
  <2>1. held' = [held EXCEPT ![t] = @ - Sweepable(t)] /\ Sweepable(t) # 0
    BY <1>4 DEF SweepToken
  <2>2. Sweepable(t) = IF held[t] > owed(t) THEN held[t] - owed(t) ELSE 0 BY DEF Sweepable
  <2> HIDE DEF owed
  <2>3. held[t] - Sweepable(t) = owed(t) BY <1>2, <1>3, <2>1, <2>2
  <2>4. \A x \in Tokens : held'[x] >= owed(x) BY <1>2, <1>3, <2>1, <2>3
  <2> QED BY <1>1, <2>4 DEF CustodyBacked, owed
<1>5. CASE \E d \in Donations : Donate(t, d)
  <2>1. PICK d \in Donations : held' = [held EXCEPT ![t] = @ + d] BY <1>5 DEF Donate
  <2>2. d \in Nat BY ConstantsAssumption
  <2> HIDE DEF owed
  <2>3. \A x \in Tokens : held'[x] >= owed(x) BY <1>2, <1>3, <2>1, <2>2
  <2> QED BY <1>1, <2>3 DEF CustodyBacked, owed
<1> QED BY <1>4, <1>5

-----------------------------------------------------------------------------
(* One lemma per operation *)

\* Governance keeps the settlement invariant: the caps are frozen with the pools.
LEMMA GovernanceFull ==
    ASSUME FullInv, GovernanceStep
    PROVE  FullInv'
<1>1. Inv /\ TypeOK BY DEF FullInv, Inv
<1>2. Inv' /\ TypeOK' BY <1>1, GovernanceInv DEF Inv
<1>3. /\ UNCHANGED <<incidents, claims, signed, now, poolAssets>>
      /\ registry.registered' => registry.registered \/ ActiveIncidentId = 0
      /\ registry'.maxPayoutBps = registry.maxPayoutBps \/ NotFrozen
  <2>1. registry \in Registry BY <1>1 DEF TypeOK, ConfigType
  <2> QED BY <2>1 DEF GovernanceStep, ListInsuredToken, DelistInsuredToken, SweepToken,
         SetClaimBondAmount, SetTeeSigner, RegisterModule, ReplaceModule, ClearDefiInsurance,
         EndBetaMode, SetPaused, SetPoolPaused, SetProtocolFeeConfig,
         SetIncidentTimingConfig, SetMaxCoverPoolPayoutBps, AddPool, RemovePool,
         notRegistry, claimState, Registry
<1>4. now <= now' BY <1>1, <1>3, EntryTypes
<1>5. LedgerInv' BY <1>1, <1>2, <1>3, <1>4, StaticLedgerInv DEF FullInv
<1>6. NoneRecovered' /\ CapFrozen'
  BY <1>1, <1>2, <1>3, <1>4, StaticFrozen DEF FullInv, NotFrozen
<1>7. CustodyBacked'
  <2>1. CASE \E t \in Tokens : SweepToken(t)
    BY <1>1, <2>1, SweepBacked DEF FullInv, TypeOK
  <2>2. CASE ~\E t \in Tokens : SweepToken(t)
    <3>1. UNCHANGED custodyVars
      BY <2>2 DEF GovernanceStep, ListInsuredToken, DelistInsuredToken,
         SetClaimBondAmount, SetTeeSigner, RegisterModule, ReplaceModule, ClearDefiInsurance,
         EndBetaMode, SetPaused, SetPoolPaused, SetProtocolFeeConfig,
         SetIncidentTimingConfig, SetMaxCoverPoolPayoutBps, AddPool, RemovePool, notRegistry
    <3> QED BY <3>1 DEF FullInv, CustodyBacked, custodyVars
  <2> QED BY <2>1, <2>2
<1> QED BY <1>2, <1>5, <1>6, <1>7 DEF FullInv

\* So do pool flows, other modules, donations and the clock.
LEMMA EnvironmentFull ==
    ASSUME FullInv, EnvironmentStep
    PROVE  FullInv'
<1>1. Inv /\ TypeOK BY DEF FullInv, Inv
<1>2. Inv' /\ TypeOK' BY <1>1, EnvironmentInv DEF Inv
<1>3. /\ UNCHANGED <<incidents, claims, signed, registry>> /\ now' \in {now, now + 1}
      /\ poolAssets' = poolAssets \/ NotFrozen
  BY DEF EnvironmentStep, PoolFlow, OtherModulePays, Donate, Tick, claimState
<1>4. now <= now' BY <1>1, <1>3, EntryTypes
<1>5. LedgerInv' BY <1>1, <1>2, <1>3, <1>4, StaticLedgerInv DEF FullInv
<1>6. NoneRecovered' /\ CapFrozen'
  BY <1>1, <1>2, <1>3, <1>4, StaticFrozen DEF FullInv, NotFrozen
<1>7. CustodyBacked'
  <2>1. CASE \E t \in Tokens, d \in Donations : Donate(t, d)
    BY <1>1, <2>1, SweepBacked DEF FullInv, TypeOK
  <2>2. CASE ~\E t \in Tokens, d \in Donations : Donate(t, d)
    <3>1. UNCHANGED custodyVars
      BY <2>2 DEF EnvironmentStep, PoolFlow, OtherModulePays, Tick
    <3> QED BY <3>1 DEF FullInv, CustodyBacked, custodyVars
  <2> QED BY <2>1, <2>2
<1> QED BY <1>2, <1>5, <1>6, <1>7 DEF FullInv

\* Signing keeps it: the engine reads finalized state and writes nothing.
LEMMA SignSettlementFull ==
    ASSUME FullInv, NEW i \in DOMAIN incidents, SignSettlement(i)
    PROVE  FullInv'
<1>1. Inv /\ TypeOK BY DEF FullInv, Inv
<1>2. Inv' /\ TypeOK' BY <1>1, SignSettlementInv DEF Inv
<1>3. UNCHANGED <<incidents, claims, registry, now, poolAssets, custodyVars>>
  BY DEF SignSettlement
<1>4. now <= now' BY <1>1, <1>3, EntryTypes
<1>5. LedgerInv' BY <1>1, <1>2, SignLedgerInv DEF FullInv
<1>6. NoneRecovered' /\ CapFrozen' BY <1>1, <1>2, <1>3, <1>4, StaticFrozen DEF FullInv
<1>7. CustodyBacked' BY <1>3 DEF FullInv, CustodyBacked, custodyVars
<1> QED BY <1>2, <1>5, <1>6, <1>7 DEF FullInv

\* The terms and the phase of the record _openIncident stores.
LEMMA NewIncidentTerms ==
    ASSUME NEW t, NEW assets
    PROVE  LET inc == NewIncident(t, assets) IN
           /\ inc.root = "none" /\ inc.pools = registry.coverPools
           /\ inc.openedAt = now /\ inc.phaseWindow = registry.phaseWindow
           /\ inc.phaseDeadline = now + registry.phaseWindow
           /\ inc.capAtOpen = [p \in Pools |-> IF p \in registry.coverPools
                        THEN (assets[p] * registry.maxPayoutBps) \div Bps ELSE 0]
BY DEF NewIncident

\* Joining and leaving an incident in its claim phase keep its terms.
LEMMA JoinedTerms ==
    ASSUME NEW inc \in Incident, NEW u, NEW k
    PROVE  /\ SameTerms(inc, Joined(inc, u, k)) /\ SameTerms(inc, Left(inc, u, k))
           /\ Joined(inc, u, k).root = inc.root /\ Left(inc, u, k).root = inc.root
           /\ Joined(inc, u, k).phaseDeadline = inc.phaseDeadline
           /\ Left(inc, u, k).phaseDeadline = inc.phaseDeadline
           /\ Left(inc, u, k).rows = inc.rows /\ Left(inc, u, k).poolBudget = inc.poolBudget
BY DEF Joined, Left, SameTerms, Incident

\* openClaimIncident, and a fileClaim that opens, keep the invariant: the caps
\* the engine will read are those of the pools at that moment.
LEMMA OpeningFull ==
    ASSUME FullInv, Inv', NEW t \in Tokens, NEW assets \in [Pools -> Nat],
           poolAssets' = assets, NEW e \in Incident, SameTerms(NewIncident(t, assets), e),
           e.root = "none", e.phaseDeadline = now + registry.phaseWindow,
           incidents' = Append(incidents, e),
           UNCHANGED <<signed, now, registry>>,
           \/ claims' = claims
           \/ \E c \in Claim : /\ claims' = Append(claims, c)
                               /\ c.incidentId = Len(incidents) + 1 /\ c.outcome = "open"
    PROVE  LedgerInv' /\ NoneRecovered' /\ CapFrozen'
<1> DEFINE n == Len(incidents) + 1
<1>1. TypeOK /\ TypeOK' /\ LedgerInv BY DEF FullInv, Inv
<1>2. /\ Len(incidents') = n /\ DOMAIN incidents' = 1 .. n
      /\ DOMAIN incidents = 1 .. Len(incidents)
      /\ Len(incidents) \in Nat /\ incidents'[n] = e
      /\ \A j \in DOMAIN incidents : incidents'[j] = incidents[j]
  BY <1>1, AppendIncident DEF TypeOK, LedgerType
<1>3. DOMAIN incidents' = DOMAIN incidents \cup {n} /\ n \notin DOMAIN incidents
  BY <1>2
<1>4. /\ DOMAIN claims \subseteq DOMAIN claims'
      /\ \A k \in DOMAIN claims : claims'[k] = claims[k]
      /\ \A k \in DOMAIN claims' \ DOMAIN claims :
            claims'[k].incidentId = n /\ claims'[k].outcome = "open"
  <2>1. CASE claims' = claims BY <2>1
  <2>2. CASE claims' # claims
    <3>1. PICK c \in Claim : /\ claims' = Append(claims, c)
                             /\ c.incidentId = n /\ c.outcome = "open"
      BY <2>2
    <3>2. /\ DOMAIN claims' = 1 .. (Len(claims) + 1) /\ DOMAIN claims = 1 .. Len(claims)
          /\ Len(claims) \in Nat /\ claims'[Len(claims) + 1] = c
          /\ \A j \in DOMAIN claims : claims'[j] = claims[j]
      BY <1>1, <3>1, AppendClaim DEF TypeOK, LedgerType
    <3>3. \A k \in DOMAIN claims' \ DOMAIN claims : k = Len(claims) + 1 BY <3>2
    <3>4. DOMAIN claims \subseteq DOMAIN claims' BY <3>2
    <3> HIDE DEF n
    <3>5. \A k \in DOMAIN claims' \ DOMAIN claims : claims'[k] = c BY <3>2, <3>3
    <3> QED BY <3>1, <3>2, <3>4, <3>5
  <2> QED BY <2>1, <2>2
<1>5. \A k \in DOMAIN claims : claims[k].incidentId # n BY <1>1, NoClaimsAhead
<1>6. e.openedAt = now /\ e.phaseWindow = registry.phaseWindow
      /\ e.pools = registry.coverPools
      /\ e.capAtOpen = [p \in Pools |-> IF p \in registry.coverPools
                        THEN (assets[p] * registry.maxPayoutBps) \div Bps ELSE 0]
  BY NewIncidentTerms DEF SameTerms
<1>7. registry.coverPools \subseteq Pools BY <1>1 DEF TypeOK, ConfigType, Registry
<1>8. \A p \in e.pools : e.capAtOpen[p] = MaxPayoutPerIncident(p)'
  BY <1>6, <1>7 DEF MaxPayoutPerIncident
<1> HIDE DEF n
<1>9. LedgerInv' BY <1>1, <1>2, <1>3, <1>4, <1>6, FilingLedgerInv
<1>10. \A k \in DOMAIN claims' : claims'[k].incidentId = n =>
            claims'[k].outcome \in {"open", "cancelled"}
  BY <1>4, <1>5
<1>11. NoneRecovered' /\ CapFrozen' BY <1>1, <1>2, <1>8, <1>10, FilingFrozen
<1> QED BY <1>9, <1>11

\* openClaimIncident by governance.
LEMMA OpenClaimIncidentFull ==
    ASSUME FullInv, NEW t \in Tokens, OpenClaimIncident(t)
    PROVE  FullInv'
<1>1. Inv /\ TypeOK BY DEF FullInv, Inv
<1>2. Inv' BY <1>1, OpenClaimIncidentInv
<1>3. PICK assets \in {poolAssets} \cup ExitOutcomes :
         poolAssets' = assets /\ incidents' = Append(incidents, NewIncident(t, assets))
  BY DEF OpenClaimIncident
<1>4. assets \in [Pools -> Nat] BY <1>1, ExitAssetsType
<1> DEFINE e == NewIncident(t, assets)
<1>5. e \in Incident BY <1>1, <1>4, NewIncidentType
<1>6. e.root = "none" /\ e.phaseDeadline = now + registry.phaseWindow BY NewIncidentTerms
<1>7. UNCHANGED <<now, registry, claims, custodyVars, signed>> BY DEF OpenClaimIncident
<1>8. SameTerms(e, e) BY DEF SameTerms
<1>9. LedgerInv' /\ NoneRecovered' /\ CapFrozen'
  <2>1. PICK x \in Incident : x = e BY <1>5
  <2> HIDE DEF e
  <2> QED BY <1>2, <1>3, <1>4, <1>6, <1>7, <1>8, <2>1, OpeningFull DEF e
<1>10. CustodyBacked' BY <1>7 DEF FullInv, CustodyBacked, custodyVars
<1> QED BY <1>2, <1>9, <1>10 DEF FullInv

\* fileClaim with an open signature: incident and first claim in one step.
LEMMA FileOpeningClaimFull ==
    ASSUME FullInv, NEW u \in Users, NEW t \in Tokens, NEW a \in Amounts, NEW b \in Boosters,
           FileOpeningClaim(u, t, a, b)
    PROVE  FullInv'
<1>1. Inv /\ TypeOK BY DEF FullInv, Inv
<1>2. Inv' BY <1>1, FileOpeningClaimInv
<1>3. PICK assets \in {poolAssets} \cup ExitOutcomes :
         /\ poolAssets' = assets
         /\ incidents' = Append(incidents,
                Joined(NewIncident(t, assets), u, Len(claims) + 1))
  BY DEF FileOpeningClaim
<1>4. assets \in [Pools -> Nat] BY <1>1, ExitAssetsType
<1> DEFINE inc == NewIncident(t, assets)
           e == Joined(inc, u, Len(claims) + 1)
           c == NewClaim(u, Len(incidents) + 1, a, b)
<1>5. inc \in Incident BY <1>1, <1>4, NewIncidentType
<1>6. Len(claims) \in Nat /\ Len(incidents) \in Nat BY <1>1 DEF TypeOK, LedgerType
<1>7. e \in Incident /\ c \in Claim BY <1>1, <1>5, <1>6, JoinedType, NewClaimType
<1>8. /\ SameTerms(inc, e) /\ e.root = "none"
      /\ e.phaseDeadline = now + registry.phaseWindow
  <2>1. inc.root = "none" /\ inc.phaseDeadline = now + registry.phaseWindow
    BY NewIncidentTerms
  <2> HIDE DEF inc
  <2> QED BY <1>5, <2>1, JoinedTerms
<1>9. c.incidentId = Len(incidents) + 1 /\ c.outcome = "open" BY DEF NewClaim
<1>10. /\ claims' = Append(claims, c) /\ TakeCustody(t, a, b)
       /\ UNCHANGED <<now, registry, signed>>
  BY DEF FileOpeningClaim
<1>11. LedgerInv' /\ NoneRecovered' /\ CapFrozen'
  <2>1. incidents' = Append(incidents, e) /\ poolAssets' = assets BY <1>3
  <2>2. SameTerms(NewIncident(t, assets), e) BY <1>8
  <2> HIDE DEF e, c, inc
  <2>3. \E d \in Claim : /\ claims' = Append(claims, d)
                         /\ d.incidentId = Len(incidents) + 1 /\ d.outcome = "open"
    BY <1>7, <1>9, <1>10
  <2> QED BY <1>2, <1>4, <1>7, <1>8, <1>10, <2>1, <2>2, <2>3, OpeningFull
<1>12. CustodyBacked'
  <2>1. a \in Nat /\ b \in Nat /\ claimBondAmount \in Nat
    BY <1>1, ConstantSets DEF TypeOK, ConfigType
  <2> QED BY <1>1, <1>10, <2>1, TakeCustodyBacked DEF FullInv, TypeOK
<1> QED BY <1>2, <1>11, <1>12 DEF FullInv

\* fileClaim into the active incident: it is in its claim phase, so nothing has
\* been signed for it and none of its claims was finalized.
LEMMA FileClaimFull ==
    ASSUME FullInv, NEW u \in Users, NEW a \in Amounts, NEW b \in Boosters, FileClaim(u, a, b)
    PROVE  FullInv'
<1> DEFINE act == ActiveIncidentId
<1>1. Inv /\ TypeOK /\ LedgerInv BY DEF FullInv, Inv
<1>2. Inv' /\ TypeOK' BY <1>1, FileClaimInv DEF Inv
<1>3. Len(claims) \in Nat /\ act # 0 BY <1>1 DEF TypeOK, LedgerType, FileClaim
<1>4. PICK i \in DOMAIN incidents : i = act BY <1>1, <1>3, ActiveIsLast
<1>5. i \in 1 .. Len(incidents) /\ i = Len(incidents) /\ incidents[i] \in Incident
  BY <1>1, <1>3, <1>4, ActiveIsLast
<1> DEFINE inc == incidents[i]
           e == Joined(inc, u, Len(claims) + 1)
           c == NewClaim(u, i, a, b)
<1>6. /\ registry.registered /\ ClaimPhaseOpen(inc)
      /\ incidents' = [incidents EXCEPT ![i] = e] /\ claims' = Append(claims, c)
      /\ TakeCustody(inc.insuredToken, a, b)
      /\ UNCHANGED <<now, registry, poolAssets, signed>>
  BY <1>4 DEF FileClaim
<1>7. e \in Incident BY <1>3, <1>5, JoinedType
<1>8. c \in Claim /\ c.outcome = "open" /\ c.incidentId = i
  BY <1>1, <1>5, NewClaimType DEF NewClaim
<1>9. SameTerms(inc, e) /\ e.root = inc.root /\ e.phaseDeadline = inc.phaseDeadline
  BY <1>5, JoinedTerms
<1> HIDE DEF e, c, act
<1>10. /\ DOMAIN incidents' = DOMAIN incidents /\ Len(incidents') = Len(incidents)
       /\ incidents'[i] = e
       /\ \A j \in DOMAIN incidents : j # i => incidents'[j] = incidents[j]
  BY <1>1, <1>5, <1>6, <1>7, UpdateIncident DEF TypeOK, LedgerType
<1>11. /\ DOMAIN claims \subseteq DOMAIN claims'
       /\ \A k \in DOMAIN claims : claims'[k] = claims[k]
       /\ \A k \in DOMAIN claims' \ DOMAIN claims : claims'[k] = c
  <2>1. /\ DOMAIN claims' = 1 .. (Len(claims) + 1) /\ DOMAIN claims = 1 .. Len(claims)
        /\ claims'[Len(claims) + 1] = c
        /\ \A j \in DOMAIN claims : claims'[j] = claims[j]
    BY <1>1, <1>6, <1>8, AppendClaim DEF TypeOK, LedgerType
  <2>2. \A k \in DOMAIN claims' \ DOMAIN claims : k = Len(claims) + 1 BY <1>3, <2>1
  <2>3. DOMAIN claims \subseteq DOMAIN claims' BY <1>3, <2>1
  <2> QED BY <2>1, <2>2, <2>3
<1>12. inc.root = "none" /\ inc.phaseDeadline = inc.openedAt + inc.phaseWindow
  BY <1>1, <1>6, ClaimPhaseUnsigned DEF ClaimPhaseOpen
<1>13. LedgerInv'
  <2>1. /\ incidents'[i].root = "none"
        /\ incidents'[i].phaseDeadline = incidents'[i].openedAt + incidents'[i].phaseWindow
    BY <1>9, <1>10, <1>12 DEF SameTerms
  <2>2. DOMAIN incidents' = DOMAIN incidents \cup {i} BY <1>10
  <2>3. \A k \in DOMAIN claims' \ DOMAIN claims :
               claims'[k].incidentId = i /\ claims'[k].outcome = "open"
    BY <1>8, <1>11
  <2>4. \A j \in DOMAIN incidents : j # i => incidents'[j] = incidents[j] BY <1>10
  <2>5. UNCHANGED <<signed, now>> BY <1>6
  <2> HIDE DEF inc
  <2> QED BY <1>1, <1>2, <1>6, <1>11, <2>1, <2>2, <2>3, <2>4, <2>5, FilingLedgerInv DEF inc
<1>14. PayoutIncidentActive /\ ActiveIncidentId = i
  BY <1>3, <1>4, <1>6 DEF PayoutIncidentActive, act
<1>15. \A k \in DOMAIN claims' : claims'[k].incidentId = i =>
            claims'[k].outcome \in {"open", "cancelled"}
  <2>1. \A k \in DOMAIN claims : claims[k].incidentId = i =>
            claims[k].outcome \in {"open", "cancelled"}
    BY <1>12, <1>14 DEF FullInv, NoneRecovered, ClaimsOf
  <2> QED BY <1>8, <1>11, <2>1
<1>16. \A p \in incidents'[i].pools :
            incidents'[i].capAtOpen[p] = MaxPayoutPerIncident(p)'
  <2>1. \A p \in inc.pools : inc.capAtOpen[p] = MaxPayoutPerIncident(p)
    BY <1>12, <1>14 DEF FullInv, CapFrozen
  <2>2. \A p : MaxPayoutPerIncident(p)' = MaxPayoutPerIncident(p)
    BY <1>6 DEF MaxPayoutPerIncident
  <2> QED BY <1>9, <1>10, <2>1, <2>2 DEF SameTerms
<1>17. NoneRecovered' /\ CapFrozen'
  <2>1. i = Len(incidents') /\ incidents'[i].root = "none" BY <1>5, <1>9, <1>10, <1>12
  <2> QED BY <1>1, <1>2, <1>15, <1>16, <2>1, FilingFrozen
<1>18. CustodyBacked'
  <2>1. a \in Nat /\ b \in Nat /\ claimBondAmount \in Nat
    BY <1>1, ConstantSets DEF TypeOK, ConfigType
  <2>2. inc.insuredToken \in Tokens BY <1>5 DEF Incident
  <2>3. CustodyType /\ CustodyBacked BY <1>1 DEF FullInv, TypeOK
  <2> HIDE DEF inc
  <2> QED BY <1>6, <2>1, <2>2, <2>3, TakeCustodyBacked
<1> QED BY <1>2, <1>13, <1>17, <1>18 DEF FullInv

\* cancelClaim: possible in the claim phase only.
LEMMA CancelClaimFull ==
    ASSUME FullInv, NEW u \in Users, CancelClaim(u)
    PROVE  FullInv'
<1> DEFINE i == ActiveIncidentId
           k == incidents[i].claimIdOf[u]
           e == Left(incidents[i], u, k)
<1>1. Inv /\ TypeOK /\ IndexSound /\ UnresolvedMatchesClaims BY DEF FullInv, Inv
<1>2. Inv' /\ TypeOK' BY <1>1, CancelClaimInv DEF Inv
<1>3. /\ i # 0 /\ k # 0 /\ ~Resolved(k) /\ incidents' = [incidents EXCEPT ![i] = e]
      /\ claims' = [claims EXCEPT ![k].outcome = "cancelled"]
      /\ ClaimPhaseOpen(incidents[i])
      /\ ReleaseCustody(k, claims[k].amount, claims[k].booster)
      /\ UNCHANGED <<now, registry, poolAssets, signed>>
  BY DEF CancelClaim
<1>4. i \in DOMAIN incidents /\ incidents[i] \in Incident BY <1>1, <1>3, ActiveIsLast
<1>5. k \in DOMAIN claims /\ claims[k].incidentId = i /\ claims[k].user = u
  BY <1>1, <1>3, <1>4, IndexedClaim
<1>6. e \in Incident
  <2>1. incidents[i].unresolvedClaims # 0 BY <1>1, <1>3, <1>5, OpenClaimCounted
  <2>2. k \in Nat BY <1>1, <1>5, ClaimFields
  <2> QED BY <1>4, <2>1, <2>2, LeftType
<1>7. /\ e.unresolvedClaims = incidents[i].unresolvedClaims - 1
      /\ e.phaseDeadline = incidents[i].phaseDeadline
      /\ e.phaseWindow = incidents[i].phaseWindow
      /\ e.root = incidents[i].root /\ e.rows = incidents[i].rows
      /\ e.spentAtOpen = incidents[i].spentAtOpen
      /\ e.poolBudget = incidents[i].poolBudget
      /\ e.claimIdOf = [incidents[i].claimIdOf EXCEPT ![u] = 0]
  BY <1>4 DEF Left, Incident
<1>8. SameTerms(incidents[i], e) BY <1>4, JoinedTerms
<1>9. "cancelled" \in Outcomes \ {"open"} BY DEF Outcomes
<1>10. claims[k].amount \in Nat /\ claims[k].amount <= claims[k].amount
  BY <1>1, <1>5, EntryTypes DEF Claim
<1> HIDE DEF i, k, e
<1>11. Resolution(k, i, e) BY <1>3, <1>5, <1>7, <1>9 DEF Resolution
<1>12. LedgerInv'
  <2>1. LedgerInv /\ UNCHANGED <<now, signed>> BY <1>3 DEF FullInv
  <2> QED BY <1>1, <1>2, <1>3, <1>5, <1>6, <1>7, <1>8, <1>9, <2>1, ResolveLedgerInv
<1>13. NoneRecovered' /\ CapFrozen'
  <2>1. NoneRecovered /\ CapFrozen /\ UNCHANGED <<now, registry>> /\ poolAssets' = poolAssets
    BY <1>3 DEF FullInv
  <2> QED BY <1>1, <1>3, <1>5, <1>6, <1>8, <1>9, <1>11, <2>1, ResolutionFrozen
<1>14. CustodyBacked'
  BY <1>1, <1>3, <1>5, <1>10, ReleaseCustodyBacked DEF FullInv
<1> QED BY <1>2, <1>12, <1>13, <1>14 DEF FullInv

\* Finalizing a claim keeps the terms, the root and the claim set of its incident.
LEMMA OneResolvedTerms ==
    ASSUME NEW inc \in Incident
    PROVE  LET e == OneResolved(inc) IN
           /\ SameTerms(inc, e) /\ e.root = inc.root /\ e.rows = inc.rows
           /\ e.phaseDeadline = inc.phaseDeadline /\ e.phaseWindow = inc.phaseWindow
           /\ e.claimSet = inc.claimSet /\ e.poolBudget = inc.poolBudget
           /\ e.unresolvedClaims = inc.unresolvedClaims - 1
           /\ e.spentAtOpen = inc.spentAtOpen /\ e.claimIdOf = inc.claimIdOf
BY DEF OneResolved, SameTerms, Incident

\* Charging the budgets changes nothing else.
LEMMA ChargedTerms ==
    ASSUME NEW inc \in Incident, NEW row
    PROVE  LET e == Charged(inc, row) IN
           /\ SameTerms(inc, e) /\ e.root = inc.root /\ e.rows = inc.rows
           /\ e.phaseDeadline = inc.phaseDeadline /\ e.phaseWindow = inc.phaseWindow
           /\ e.claimSet = inc.claimSet /\ e.unresolvedClaims = inc.unresolvedClaims
           /\ e.spentAtOpen = inc.spentAtOpen /\ e.claimIdOf = inc.claimIdOf
           /\ e.poolBudget = [p \in Pools |-> inc.poolBudget[p] - Draw(inc, row, p)]
BY DEF Charged, SameTerms, Incident

\* finalizeClaim without a payout: a declined claim has a standing root, and an
\* incident that still freezes the pools cannot be recovered from.
LEMMA ReturnFull ==
    ASSUME FullInv, NEW k \in DOMAIN claims,
           \/ \E byClaimant \in BOOLEAN : DeclinePayout(k, byClaimant)
           \/ RecoverClaim(k)
    PROVE  FullInv'
<1> DEFINE i == claims[k].incidentId
           inc == incidents[i]
           e == OneResolved(inc)
<1>1. Inv /\ TypeOK /\ UnresolvedMatchesClaims BY DEF FullInv, Inv
<1>2. Inv' /\ TypeOK' BY <1>1, ReturnInv DEF Inv
<1>3. PICK o \in {"declined", "recovered"} :
         /\ claims' = [claims EXCEPT ![k].outcome = o]
         /\ o = "declined" => inc.root # "none" /\ now > inc.phaseDeadline
         /\ o = "recovered" => \/ ~registry.registered
                               \/ inc.root = "none" /\ now > TerminalDeadline(inc)
  BY DEF DeclinePayout, RecoverClaim, FinalizeOpen
<1>4. /\ ~Resolved(k) /\ incidents' = [incidents EXCEPT ![i] = e]
      /\ ReleaseCustody(k, claims[k].amount, claims[k].booster)
      /\ UNCHANGED <<now, registry, poolAssets, signed>>
  BY DEF DeclinePayout, RecoverClaim
<1>5. inc \in Incident /\ inc.unresolvedClaims # 0 BY <1>1, <1>4, OpenClaimCounted
<1>6. e \in Incident BY <1>1, <1>5, OneResolvedType DEF TypeOK, ConfigType
<1>7. /\ SameTerms(inc, e) /\ e.root = inc.root /\ e.rows = inc.rows
      /\ e.phaseDeadline = inc.phaseDeadline /\ e.phaseWindow = inc.phaseWindow
      /\ e.claimSet = inc.claimSet /\ e.poolBudget = inc.poolBudget
      /\ e.unresolvedClaims = inc.unresolvedClaims - 1
      /\ e.spentAtOpen = inc.spentAtOpen /\ e.claimIdOf = inc.claimIdOf
  BY <1>5, OneResolvedTerms
<1>8. o \in Outcomes \ {"open"} /\ o # "cancelled" BY DEF Outcomes
<1>9. claims[k].amount \in Nat /\ claims[k].amount <= claims[k].amount
  BY <1>1, EntryTypes DEF Claim
<1>10. ~(/\ PayoutIncidentActive /\ i = ActiveIncidentId /\ inc.root = "none")
  <2> SUFFICES ASSUME PayoutIncidentActive, i = ActiveIncidentId, inc.root = "none"
               PROVE  FALSE
    OBVIOUS
  <2>1. registry.registered /\ now > TerminalDeadline(inc)
    BY <1>3 DEF PayoutIncidentActive
  <2>2. LiveAt(inc, now) /\ i # 0
    BY DEF PayoutIncidentActive, ActiveIncidentId
  <2>3. /\ inc.phaseDeadline \in Nat /\ inc.phaseWindow \in Nat /\ now \in Nat
    BY <1>1, <1>5, DeadlinesType, EntryTypes DEF Incident
  <2> HIDE DEF inc, i
  <2> QED BY <2>1, <2>2, <2>3 DEF LiveAt, TerminalDeadline
<1>11. Resolution(k, i, e)
  <2> HIDE DEF e
  <2> QED BY <1>3, <1>4, <1>7, <1>8 DEF Resolution
<1> HIDE DEF e
<1>13. LedgerInv'
  <2>1. LedgerInv /\ UNCHANGED <<now, signed>> BY <1>4 DEF FullInv
  <2>2. o \in {"paid", "declined"} => inc.root # "none" /\ now > inc.phaseDeadline
    BY <1>3
  <2> HIDE DEF i, inc
  <2> QED BY <1>1, <1>2, <1>3, <1>4, <1>6, <1>7, <1>8, <2>1, <2>2, ResolveLedgerInv DEF i, inc
<1>14. NoneRecovered' /\ CapFrozen'
  <2>1. NoneRecovered /\ CapFrozen /\ UNCHANGED <<now, registry>> /\ poolAssets' = poolAssets
    BY <1>4 DEF FullInv
  <2> HIDE DEF i
  <2> QED BY <1>1, <1>3, <1>4, <1>6, <1>7, <1>8, <1>10, <1>11, <2>1, ResolutionFrozen
<1>15. CustodyBacked'
  BY <1>1, <1>4, <1>9, ReleaseCustodyBacked DEF FullInv
<1> QED BY <1>2, <1>13, <1>14, <1>15 DEF FullInv

\* finalizeClaim with a payout: budget and open draws drop by the same amount.
LEMMA AcceptPayoutFull ==
    ASSUME FullInv, NEW k \in DOMAIN claims, AcceptPayout(k)
    PROVE  FullInv'
<1> DEFINE i == claims[k].incidentId
           inc == incidents[i]
           row == inc.rows[k]
           e == Charged(OneResolved(inc), row)
<1>1. Inv /\ TypeOK /\ UnresolvedMatchesClaims BY DEF FullInv, Inv
<1>2. Inv' /\ TypeOK' BY <1>1, AcceptPayoutInv DEF Inv
<1>3. /\ ~Resolved(k) /\ RowUsable(k) /\ Payable(inc, row) /\ inc.root # "none"
      /\ now > inc.phaseDeadline
      /\ claims' = [claims EXCEPT ![k].outcome = "paid"]
      /\ incidents' = [incidents EXCEPT ![i] = e]
      /\ ReleaseCustody(k, claims[k].amount - row.eligible, claims[k].booster)
      /\ UNCHANGED <<now, registry, signed>>
  BY DEF AcceptPayout, FinalizeOpen
<1>4. inc \in Incident /\ inc.unresolvedClaims # 0 BY <1>1, <1>3, OpenClaimCounted
<1>5. row \in Row BY <1>1, <1>3, <1>4, RowType DEF RowUsable
<1>6. OneResolved(inc) \in Incident BY <1>1, <1>4, OneResolvedType DEF TypeOK, ConfigType
<1>7. Payable(OneResolved(inc), row) BY <1>3, <1>4, <1>5, OneResolvedPayable
<1>8. e \in Incident BY <1>1, <1>5, <1>6, <1>7, ChargedType DEF TypeOK, PoolType
<1>9. /\ SameTerms(inc, e) /\ e.root = inc.root /\ e.rows = inc.rows
      /\ e.phaseDeadline = inc.phaseDeadline /\ e.phaseWindow = inc.phaseWindow
      /\ e.claimSet = inc.claimSet /\ e.unresolvedClaims = inc.unresolvedClaims - 1
      /\ e.spentAtOpen = inc.spentAtOpen /\ e.claimIdOf = inc.claimIdOf
      /\ \A p \in Pools : e.poolBudget[p] = inc.poolBudget[p] - Draw(inc, row, p)
  <2> DEFINE m == OneResolved(inc)
  <2>1. /\ SameTerms(inc, m) /\ m.root = inc.root /\ m.rows = inc.rows
        /\ m.phaseDeadline = inc.phaseDeadline /\ m.phaseWindow = inc.phaseWindow
        /\ m.claimSet = inc.claimSet /\ m.poolBudget = inc.poolBudget
        /\ m.unresolvedClaims = inc.unresolvedClaims - 1
        /\ m.spentAtOpen = inc.spentAtOpen /\ m.claimIdOf = inc.claimIdOf
    BY <1>4, OneResolvedTerms
  <2>2. \A p \in Pools : Draw(m, row, p) = Draw(inc, row, p)
    BY <1>4, <1>5, OneResolvedPayable
  <2> HIDE DEF m, inc, row
  <2>3. /\ SameTerms(m, e) /\ e.root = m.root /\ e.rows = m.rows
        /\ e.phaseDeadline = m.phaseDeadline /\ e.phaseWindow = m.phaseWindow
        /\ e.claimSet = m.claimSet /\ e.unresolvedClaims = m.unresolvedClaims
        /\ e.spentAtOpen = m.spentAtOpen /\ e.claimIdOf = m.claimIdOf
        /\ e.poolBudget = [p \in Pools |-> m.poolBudget[p] - Draw(m, row, p)]
    BY <1>6, ChargedTerms DEF m
  <2> HIDE DEF e
  <2> QED BY <2>1, <2>2, <2>3 DEF SameTerms
<1>10. "paid" \in Outcomes \ {"open"} BY DEF Outcomes
<1>11. i = ActiveIncidentId BY <1>1, AcceptedIsActive
<1>12. \A p \in inc.pools : p \in Pools BY <1>4 DEF Incident
<1>13. /\ claims[k].amount - row.eligible \in Nat
       /\ claims[k].amount - row.eligible <= claims[k].amount
  <2>1. claims[k].amount \in Nat /\ row.eligible \in Nat BY <1>1, <1>5, EntryTypes DEF Claim, Row
  <2>2. row.eligible <= claims[k].amount BY <1>3 DEF RowUsable
  <2> HIDE DEF row
  <2> QED BY <2>1, <2>2
<1> HIDE DEF e
<1>14. Resolution(k, i, e) BY <1>3, <1>9, <1>10 DEF Resolution
<1>15. LedgerInv'
  <2>1. LedgerInv /\ UNCHANGED <<now, signed>> BY <1>3 DEF FullInv
  <2>2. \A p \in inc.pools : /\ inc.rows[k] \in Row
                             /\ e.poolBudget[p] = inc.poolBudget[p] - Draw(inc, inc.rows[k], p)
    BY <1>5, <1>9, <1>12
  <2> HIDE DEF i, inc, row
  <2> QED BY <1>1, <1>2, <1>3, <1>8, <1>9, <1>10, <2>1, <2>2, ResolveLedgerInv DEF i, inc
<1>16. NoneRecovered' /\ CapFrozen'
  <2>1. NoneRecovered /\ CapFrozen /\ UNCHANGED <<now, registry>> BY <1>3 DEF FullInv
  <2> HIDE DEF i
  <2> QED BY <1>1, <1>3, <1>8, <1>9, <1>10, <1>11, <1>14, <2>1, ResolutionFrozen
<1>17. CustodyBacked'
  <2> HIDE DEF row
  <2> QED BY <1>1, <1>3, <1>13, ReleaseCustodyBacked DEF FullInv
<1> QED BY <1>2, <1>15, <1>16, <1>17 DEF FullInv

\* Committing and voiding change the root, not the terms.
LEMMA CommittedTerms ==
    ASSUME NEW inc \in Incident, NEW source, NEW rows, NEW budget
    PROVE  /\ LET e == Committed(inc, source, rows, budget) IN
              /\ SameTerms(inc, e) /\ e.root = source /\ e.rows = rows
              /\ e.poolBudget = budget /\ e.claimSet = inc.claimSet
           /\ LET e == Voided(inc) IN
              /\ SameTerms(inc, e) /\ e.root = "none" /\ e.phaseDeadline = 0
              /\ e.claimSet = inc.claimSet
BY DEF Committed, Voided, SameTerms, Incident

\* A correction is possible up to the deadline of the root it replaces: by then
\* the claim phase is over and no claim has been finalized.
LEMMA CorrectionUnused ==
    ASSUME TypeOK, LedgerInv, NEW i \in DOMAIN incidents, CorrectionOpen(incidents[i])
    PROVE  /\ PastClaimPhase(incidents[i])
           /\ \A k \in ClaimsOf(i) : claims[k].outcome \notin {"paid", "declined"}
<1>1. incidents[i].root # "none" /\ now <= incidents[i].phaseDeadline BY DEF CorrectionOpen
<1>2. incidents[i].phaseDeadline \in Nat /\ now \in Nat BY EntryTypes DEF Incident
<1>3. PastClaimPhase(incidents[i]) BY <1>1 DEF LedgerInv, PhaseSound
<1>4. \A k \in ClaimsOf(i) : claims[k].outcome \notin {"paid", "declined"}
  BY <1>1, <1>2 DEF ClaimsOf, LedgerInv, FinalizedUnderRoot
<1> QED BY <1>3, <1>4

\* settleIncident comes after the claim phase and before any root stood.
LEMMA SettlementUnused ==
    ASSUME TypeOK, LedgerInv, NEW i \in DOMAIN incidents, i = ActiveIncidentId,
           incidents[i].root = "none", SettlementPhase(incidents[i])
    PROVE  /\ PastClaimPhase(incidents[i])
           /\ \A k \in ClaimsOf(i) : claims[k].outcome \notin {"paid", "declined"}
<1>1. now > incidents[i].phaseDeadline BY DEF SettlementPhase
<1>2. PastClaimPhase(incidents[i]) BY <1>1 DEF LedgerInv, PhaseSound, PastClaimPhase
<1>3. \A k \in ClaimsOf(i) : claims[k].outcome \notin {"paid", "declined"}
  BY DEF ClaimsOf, LedgerInv, FinalizedUnderRoot
<1> QED BY <1>2, <1>3

\* _commitRoot keeps the invariant: budgets are the sums the kernel allocated.
LEMMA CommitRootFull ==
    ASSUME FullInv, PayoutIncidentActive, NEW source \in {"tee", "admin"},
           NEW rows \in Settlement, NEW budget \in [Pools -> Nat],
           CommitRoot(ActiveIncidentId, source, rows, budget),
           UNCHANGED <<now, registry, scoreSpent, claimBondAmount, isTeeSigner,
                       claims, custodyVars, poolAssets, signed>>,
           PastClaimPhase(incidents[ActiveIncidentId]),
           \A k \in ClaimsOf(ActiveIncidentId) : claims[k].outcome \notin {"paid", "declined"},
           source = "tee" => \E s \in signed : /\ s.incidentId = ActiveIncidentId
                                               /\ rows = s.rows /\ budget = s.poolPayouts
    PROVE  FullInv'
<1>1. Inv /\ TypeOK /\ LedgerInv BY DEF FullInv, Inv
<1>2. Inv' /\ TypeOK' BY <1>1, CommitRootInv DEF Inv
<1>3. ActiveIncidentId # 0 BY DEF PayoutIncidentActive
<1>4. PICK i \in DOMAIN incidents : i = ActiveIncidentId BY <1>1, <1>3, ActiveIsLast
<1>5. i = Len(incidents) /\ incidents[i] \in Incident BY <1>1, <1>3, <1>4, ActiveIsLast
<1> DEFINE e == Committed(incidents[i], source, rows, budget)
<1>6. e \in Incident BY <1>1, <1>5, CommittedType DEF TypeOK, ConfigType
<1>7. /\ SameTerms(incidents[i], e) /\ e.root = source /\ e.rows = rows
      /\ e.poolBudget = budget /\ e.claimSet = incidents[i].claimSet
  BY <1>5, CommittedTerms
<1>8. incidents' = [incidents EXCEPT ![i] = e] BY <1>4 DEF CommitRoot
<1> HIDE DEF e
<1>9. LedgerInv'
  <2>1. UNCHANGED <<claims, signed, now>> OBVIOUS
  <2>2. e.root = "none" => e.phaseDeadline = 0 BY <1>7
  <2>3. /\ PastClaimPhase(incidents[i])
        /\ \A k \in ClaimsOf(i) : claims[k].outcome \notin {"paid", "declined"}
    BY <1>4
  <2>4. e.root = "tee" => \E s \in signed : /\ s.incidentId = i /\ e.rows = s.rows
                                            /\ e.poolBudget = s.poolPayouts
    BY <1>4, <1>7
  <2> QED BY <1>1, <1>2, <1>6, <1>7, <1>8, <2>1, <2>2, <2>3, <2>4, RewriteLedgerInv
<1>10. NoneRecovered' /\ CapFrozen'
  <2>1. Len(incidents') = Len(incidents) /\ incidents'[i] = e
    <3>1. i \in 1 .. Len(incidents) BY <1>1, LenProperties DEF TypeOK, LedgerType
    <3> QED BY <1>1, <1>6, <1>8, <3>1, UpdateIncident DEF TypeOK, LedgerType
  <2>2. PayoutIncidentActive' => incidents'[ActiveIncidentId'].root # "none"
    BY <1>5, <1>7, <2>1 DEF PayoutIncidentActive, ActiveIncidentId
  <2> QED BY <2>2 DEF NoneRecovered, CapFrozen
<1>11. CustodyBacked' BY DEF FullInv, CustodyBacked, custodyVars
<1> QED BY <1>2, <1>9, <1>10, <1>11 DEF FullInv

\* settleIncident relays what the TEE signed for the active incident.
LEMMA SettleIncidentFull ==
    ASSUME FullInv, NEW s \in signed, SettleIncident(s)
    PROVE  FullInv'
<1>1. Inv /\ TypeOK /\ LedgerInv BY DEF FullInv, Inv
<1>2. s \in Signature BY <1>1 DEF TypeOK, PoolType
<1>3. s.rows \in Settlement /\ s.poolPayouts \in [Pools -> Nat] BY <1>2 DEF Signature
<1>4. /\ PayoutIncidentActive
      /\ CommitRoot(ActiveIncidentId, "tee", s.rows, s.poolPayouts)
      /\ UNCHANGED <<now, registry, scoreSpent, claimBondAmount, isTeeSigner,
                     claims, custodyVars, poolAssets, signed>>
      /\ s.incidentId = ActiveIncidentId
  BY DEF SettleIncident, PayoutIncidentActive, Binds
<1>5. /\ ActiveIncidentId # 0 /\ incidents[ActiveIncidentId].root = "none"
      /\ SettlementPhase(incidents[ActiveIncidentId])
  BY DEF SettleIncident
<1>6. /\ PastClaimPhase(incidents[ActiveIncidentId])
      /\ \A k \in ClaimsOf(ActiveIncidentId) : claims[k].outcome \notin {"paid", "declined"}
  BY <1>1, <1>5, ActiveIsLast, SettlementUnused
<1> QED BY <1>3, <1>4, <1>6, CommitRootFull

\* adminCorrectSettlement replaces a root nobody has used.
LEMMA AdminCorrectFull ==
    ASSUME FullInv, NEW rows \in Settlement, NEW budget \in [Pools -> Nat],
           AdminCorrectSettlement(rows, budget)
    PROVE  FullInv'
<1>1. Inv /\ TypeOK /\ LedgerInv BY DEF FullInv, Inv
<1>2. /\ PayoutIncidentActive /\ ActiveIncidentId # 0
      /\ CorrectionOpen(incidents[ActiveIncidentId])
      /\ CommitRoot(ActiveIncidentId, "admin", rows, budget)
      /\ UNCHANGED <<now, registry, scoreSpent, claimBondAmount, isTeeSigner,
                     claims, custodyVars, poolAssets, signed>>
  BY DEF AdminCorrectSettlement, CanCorrect, PayoutIncidentActive
<1>3. /\ PastClaimPhase(incidents[ActiveIncidentId])
      /\ \A k \in ClaimsOf(ActiveIncidentId) : claims[k].outcome \notin {"paid", "declined"}
  BY <1>1, <1>2, ActiveIsLast, CorrectionUnused
<1> QED BY <1>2, <1>3, CommitRootFull

\* adminVoidSettlement drops a root nobody has used and ends the incident.
LEMMA AdminVoidFull ==
    ASSUME FullInv, AdminVoidSettlement
    PROVE  FullInv'
<1>1. Inv /\ TypeOK /\ LedgerInv BY DEF FullInv, Inv
<1>2. Inv' /\ TypeOK' /\ ~PayoutIncidentActive' BY <1>1, AdminVoidSettlementInv DEF Inv
<1>3. /\ ActiveIncidentId # 0 /\ CorrectionOpen(incidents[ActiveIncidentId])
      /\ UNCHANGED <<claims, signed, now, custodyVars>>
  BY DEF AdminVoidSettlement, CanCorrect
<1>4. PICK i \in DOMAIN incidents : i = ActiveIncidentId BY <1>1, <1>3, ActiveIsLast
<1>5. incidents[i] \in Incident BY <1>1, EntryTypes
<1> DEFINE e == Voided(incidents[i])
<1>6. e \in Incident BY <1>1, <1>5, VoidedType DEF TypeOK, ConfigType
<1>7. /\ SameTerms(incidents[i], e) /\ e.root = "none" /\ e.phaseDeadline = 0
      /\ e.claimSet = incidents[i].claimSet
  BY <1>5, CommittedTerms
<1>8. incidents' = [incidents EXCEPT ![i] = e] BY <1>4 DEF AdminVoidSettlement
<1> HIDE DEF e
<1>9. /\ PastClaimPhase(incidents[i])
      /\ \A k \in ClaimsOf(i) : claims[k].outcome \notin {"paid", "declined"}
  BY <1>1, <1>3, <1>4, CorrectionUnused
<1>10. LedgerInv'
  <2>1. e.root = "tee" => \E s \in signed : /\ s.incidentId = i /\ e.rows = s.rows
                                            /\ e.poolBudget = s.poolPayouts
    BY <1>7
  <2> QED BY <1>1, <1>2, <1>3, <1>6, <1>7, <1>8, <1>9, <2>1, RewriteLedgerInv
<1>11. NoneRecovered' /\ CapFrozen' BY <1>2 DEF NoneRecovered, CapFrozen
<1>12. CustodyBacked' BY <1>3 DEF FullInv, CustodyBacked, custodyVars
<1> QED BY <1>2, <1>10, <1>11, <1>12 DEF FullInv

-----------------------------------------------------------------------------
(* The theorems *)

\* The initial state satisfies the settlement invariant.
LEMMA InitFull == Init => FullInv
<1> SUFFICES ASSUME Init PROVE FullInv OBVIOUS
<1>1. Inv BY InitInv
<1>2. incidents = <<>> /\ claims = <<>> /\ signed = {} /\ DOMAIN incidents = {}
      /\ DOMAIN claims = {} /\ Len(incidents) = 0
  BY DEF Init
<1>3. ~PayoutIncidentActive BY <1>2 DEF PayoutIncidentActive, ActiveIncidentId
<1>4. LedgerInv
  BY <1>2 DEF LedgerInv, PhaseSound, FinalizedUnderRoot, SignedSound, TeeRootSigned,
     TeeRootFunded
<1>5. NoneRecovered /\ CapFrozen BY <1>3 DEF NoneRecovered, CapFrozen
<1>6. CustodyBacked BY DEF Init, CustodyBacked
<1> QED BY <1>1, <1>4, <1>5, <1>6 DEF FullInv

\* Every step keeps the settlement invariant.
LEMMA FullStep == FullInv /\ [Next]_vars => FullInv'
<1> SUFFICES ASSUME FullInv, [Next]_vars PROVE FullInv' OBVIOUS
<1>1. CASE ClaimantStep
  <2>1. CASE \E u \in Users, t \in Tokens, a \in Amounts, b \in Boosters :
                FileOpeningClaim(u, t, a, b)
    BY <2>1, FileOpeningClaimFull
  <2>2. CASE \E u \in Users, a \in Amounts, b \in Boosters : FileClaim(u, a, b)
    BY <2>2, FileClaimFull
  <2>3. CASE \E u \in Users : CancelClaim(u) BY <2>3, CancelClaimFull
  <2>4. CASE \E k \in DOMAIN claims : AcceptPayout(k) BY <2>4, AcceptPayoutFull
  <2>5. CASE \E k \in DOMAIN claims :
                \/ \E byClaimant \in BOOLEAN : DeclinePayout(k, byClaimant)
                \/ RecoverClaim(k)
    BY <2>5, ReturnFull
  <2> QED BY <1>1, <2>1, <2>2, <2>3, <2>4, <2>5 DEF ClaimantStep
<1>2. CASE SettlementStep
  <2>1. CASE \E t \in Tokens : OpenClaimIncident(t) BY <2>1, OpenClaimIncidentFull
  <2>2. CASE \E i \in DOMAIN incidents : SignSettlement(i) BY <2>2, SignSettlementFull
  <2>3. CASE \E s \in signed : SettleIncident(s) BY <2>3, SettleIncidentFull
  <2>4. CASE \E rows \in [ClaimsOf(Len(incidents)) -> RowChoices \cup {NoRow}],
                budget \in [Pools -> BudgetChoices] :
                AdminCorrectSettlement(
                    [k \in ClaimIds |-> IF k \in DOMAIN rows THEN rows[k] ELSE NoRow], budget)
    <3>1. PICK rows \in [ClaimsOf(Len(incidents)) -> RowChoices \cup {NoRow}],
               budget \in [Pools -> BudgetChoices] :
               AdminCorrectSettlement(
                   [k \in ClaimIds |-> IF k \in DOMAIN rows THEN rows[k] ELSE NoRow], budget)
      BY <2>4
    <3> QED BY <3>1, CorrectionInputs, AdminCorrectFull
  <2>5. CASE AdminVoidSettlement BY <2>5, AdminVoidFull
  <2> QED BY <1>2, <2>1, <2>2, <2>3, <2>4, <2>5 DEF SettlementStep
<1>3. CASE GovernanceStep BY <1>3, GovernanceFull
<1>4. CASE EnvironmentStep BY <1>4, EnvironmentFull
<1>5. CASE UNCHANGED vars
  <2>1. Inv /\ TypeOK BY DEF FullInv, Inv
  <2>2. Inv' /\ TypeOK' BY <1>5, <2>1, InvStep DEF Inv
  <2>3. UNCHANGED <<incidents, claims, now, poolAssets, registry, signed, custodyVars>>
    BY <1>5 DEF vars
  <2>4. now <= now' BY <2>1, <2>3, EntryTypes
  <2>5. LedgerInv' BY <2>1, <2>2, <2>3, <2>4, StaticLedgerInv DEF FullInv
  <2>6. NoneRecovered' /\ CapFrozen' BY <2>1, <2>2, <2>3, <2>4, StaticFrozen DEF FullInv
  <2>7. CustodyBacked' BY <2>3 DEF FullInv, CustodyBacked, custodyVars
  <2> QED BY <2>2, <2>5, <2>6, <2>7 DEF FullInv
<1> QED BY <1>1, <1>2, <1>3, <1>4, <1>5 DEF Next

\* The settlement invariant holds in every reachable state.
THEOREM FullInvHolds == Spec => []FullInv
BY InitFull, FullStep, PTL DEF Spec

\* The module holds every insured token and every bond it owes, whatever is
\* swept or donated, and also when USD8 itself is the insured token.
THEOREM CustodyAlwaysBacked == Spec => []CustodyBacked
<1>1. FullInv => CustodyBacked BY DEF FullInv
<1> QED BY <1>1, FullInvHolds, PTL

\* A settlement the TEE signed names the claim set of its incident and stays
\* within the pools' caps for the whole settlement phase, for every cap, fee,
\* pool set and history of claims.
THEOREM SignedAlwaysRelayable == Spec => []SignedStaysRelayable
<1>1. ASSUME FullInv PROVE SignedStaysRelayable
  <2> DEFINE i == ActiveIncidentId
             inc == incidents[i]
  <2> SUFFICES ASSUME PayoutIncidentActive, inc.root = "none", NEW s \in signed,
                      s.incidentId = i
               PROVE  Binds(s, i) /\ BudgetWithinCaps(inc, s.poolPayouts)
    BY DEF SignedStaysRelayable
  <2>1. SignatureSound(s) BY <1>1 DEF FullInv, LedgerInv, SignedSound
  <2>2. /\ i \in DOMAIN incidents /\ s.claimSet = inc.claimSet
        /\ s.unresolvedClaims = Cardinality(Live(i)) /\ Attested(inc, s.rows, Live(i))
        /\ \A p \in Pools : s.poolPayouts[p] =
              IF p \in inc.pools THEN PoolGross(inc, s.rows, p, Live(i)) ELSE 0
    BY <2>1 DEF SignatureSound
  <2>3. Live(i) = OpenClaims(i)
    BY <1>1 DEF FullInv, NoneRecovered, Live, OpenClaims
  <2>4. inc.unresolvedClaims = Cardinality(OpenClaims(i))
    BY <1>1, <2>2 DEF FullInv, Inv, UnresolvedMatchesClaims
  <2>5. Binds(s, i) BY <2>2, <2>3, <2>4 DEF Binds
  <2>6. \A p \in inc.pools : PoolGross(inc, s.rows, p, Live(i)) <= inc.capAtOpen[p]
    BY <2>2 DEF Attested
  <2>7. \A p \in inc.pools : inc.capAtOpen[p] = MaxPayoutPerIncident(p)
    BY <1>1 DEF FullInv, CapFrozen
  <2> HIDE DEF inc, i
  <2>8. BudgetWithinCaps(inc, s.poolPayouts) BY <2>2, <2>6, <2>7 DEF BudgetWithinCaps
  <2> QED BY <2>5, <2>8 DEF inc
<1> QED BY <1>1, FullInvHolds, PTL

\* Under a TEE root the order in which claimants come does not matter: every
\* open claim has a usable row and the remaining budgets cover all of them.
THEOREM TeeRootAlwaysPays == Spec => []TeeRootPaysEveryone
<1>1. ASSUME FullInv PROVE TeeRootPaysEveryone
  <2> DEFINE i == ActiveIncidentId
             inc == incidents[i]
  <2> SUFFICES ASSUME PayoutIncidentActive, inc.root = "tee"
               PROVE  /\ \A k \in OpenClaims(i) : RowUsable(k)
                      /\ \A p \in inc.pools : DrawsOf(inc, OpenClaims(i), p) <= inc.poolBudget[p]
    BY DEF TeeRootPaysEveryone
  <2>1. TypeOK /\ LedgerInv BY <1>1 DEF FullInv, Inv
  <2>2. i \in DOMAIN incidents BY <2>1, ActiveIsLast DEF PayoutIncidentActive
  <2>3. PICK s \in signed : s.incidentId = i /\ s.rows = inc.rows
    BY <2>1, <2>2 DEF LedgerInv, TeeRootSigned
  <2>4. /\ \A k \in Live(i) : inc.rows[k] \in Row
        /\ Attested(inc, inc.rows, Live(i))
    BY <2>1, <2>3 DEF LedgerInv, SignedSound, SignatureSound
  <2>5. ASSUME NEW k \in OpenClaims(i) PROVE RowUsable(k)
    <3>1. k \in Live(i) /\ claims[k].incidentId = i
      BY <2>1, LiveFinite DEF OpenClaims, ClaimsOf
    <3>2. inc.rows[k] # NoRow BY <2>4, <3>1, ConstantsAssumption
    <3>3. /\ inc.rows[k].eligible <= claims[k].amount
          /\ inc.rows[k].booster <= claims[k].booster
          /\ inc.rows[k].boosted = BoostedScore(inc.rows[k].score, inc.rows[k].booster)
          /\ \A p \in Pools : p \notin inc.pools => inc.rows[k].pay[p] = 0
      BY <2>4, <3>1 DEF Attested
    <3> HIDE DEF i
    <3> QED BY <3>1, <3>2, <3>3 DEF RowUsable
  <2> QED BY <2>1, <2>2, <2>5 DEF LedgerInv, TeeRootFunded
<1> QED BY <1>1, FullInvHolds, PTL

\* A payout under a TEE root never takes an account above the score it earned,
\* over any sequence of incidents, corrections and module replacements.
THEOREM ScoreWithinEarned == Spec => ScoreNeverOverspent
<1> DEFINE A == \A k \in DOMAIN claims :
        /\ claims[k].outcome = "open" /\ claims'[k].outcome = "paid"
        /\ incidents[claims[k].incidentId].root = "tee"
        => scoreSpent'[claims[k].user] <= EarnedScore
<1>1. FullInv /\ [Next]_vars => [A]_vars
  <2> SUFFICES ASSUME FullInv, [Next]_vars, NEW k \in DOMAIN claims,
                      claims[k].outcome = "open", claims'[k].outcome = "paid",
                      incidents[claims[k].incidentId].root = "tee"
               PROVE  scoreSpent'[claims[k].user] <= EarnedScore
    OBVIOUS
  <2> DEFINE i == claims[k].incidentId
             inc == incidents[i]
             u == claims[k].user
             row == inc.rows[k]
  <2>1. Inv /\ TypeOK /\ LedgerInv BY DEF FullInv, Inv
  <2>2. AcceptPayout(k) BY <2>1, PaidByAccept
  <2>3. PayoutIncidentActive /\ i = ActiveIncidentId BY <2>1, <2>2, AcceptedIsActive
  <2>4. Eligible(row) /\ scoreSpent' = [scoreSpent EXCEPT ![u] = @ + row.score]
    BY <2>2 DEF AcceptPayout
  <2>5. i \in DOMAIN incidents /\ inc \in Incident /\ u \in Users
    BY <2>1, EntryTypes DEF Claim
  <2>6. k \in OpenClaims(i) /\ k \in Live(i) BY DEF OpenClaims, Live, ClaimsOf
  <2>7. PICK s \in signed : s.incidentId = i /\ s.rows = inc.rows
    BY <2>1, <2>5 DEF LedgerInv, TeeRootSigned
  <2>8. Attested(inc, inc.rows, Live(i)) /\ row \in Row
    BY <2>1, <2>6, <2>7 DEF LedgerInv, SignedSound, SignatureSound
  <2>9. row.score <= (IF row.eligible = 0 \/ Unspent(inc, u) < 0 THEN 0 ELSE Unspent(inc, u))
    BY <2>6, <2>8 DEF Attested
  <2>10. scoreSpent[u] = inc.spentAtOpen[u]
    BY <2>1, <2>3, <2>5, <2>6 DEF Inv, SpentUnmoved
  <2>11. /\ row.score \in Nat /\ row.eligible # 0 /\ row.score # 0
         /\ scoreSpent[u] \in Nat /\ EarnedScore \in Nat
    BY <2>1, <2>4, <2>5, <2>8, ConstantsAssumption DEF Row, Eligible, TypeOK, ConfigType
  <2>12. scoreSpent'[u] = scoreSpent[u] + row.score
    BY <2>1, <2>4, <2>5 DEF TypeOK, ConfigType
  <2> HIDE DEF i, inc, u, row
  <2>13. row.score <= EarnedScore - scoreSpent[u]
    BY <2>9, <2>10, <2>11 DEF Unspent
  <2>14. scoreSpent'[u] <= EarnedScore BY <2>11, <2>12, <2>13
  <2> QED BY <2>14 DEF u
<1>2. Spec => [][A]_vars BY <1>1, FullInvHolds, PTL DEF Spec
<1> QED BY <1>2 DEF ScoreNeverOverspent

\* A step that rewrites at most one incident, and only one with no finalized
\* claim unless root and rows stay, fixes the roots that were used.
LEMMA RewriteKeepsUsedRoots ==
    ASSUME TypeOK, NEW i \in DOMAIN incidents, NEW e \in Incident,
           incidents' = [incidents EXCEPT ![i] = e],
           \/ e.root = incidents[i].root /\ e.rows = incidents[i].rows
           \/ \A k \in ClaimsOf(i) : claims[k].outcome \notin {"paid", "declined"},
           NEW k \in DOMAIN claims, claims[k].outcome \in {"paid", "declined"}
    PROVE  /\ incidents'[claims[k].incidentId].root = incidents[claims[k].incidentId].root
           /\ incidents'[claims[k].incidentId].rows = incidents[claims[k].incidentId].rows
<1>1. claims[k].incidentId \in DOMAIN incidents BY EntryTypes
<1>2. /\ incidents'[i] = e
      /\ \A j \in DOMAIN incidents : j # i => incidents'[j] = incidents[j]
  BY OthersKept
<1>3. CASE claims[k].incidentId # i BY <1>1, <1>2, <1>3
<1>4. CASE claims[k].incidentId = i BY <1>1, <1>2, <1>4 DEF ClaimsOf
<1> QED BY <1>3, <1>4

\* What joining, leaving and finalizing write is not the root.
LEMMA ClaimantKeepsUsedRoots ==
    ASSUME FullInv, ClaimantStep, NEW k \in DOMAIN claims,
           claims[k].outcome \in {"paid", "declined"}
    PROVE  /\ incidents'[claims[k].incidentId].root = incidents[claims[k].incidentId].root
           /\ incidents'[claims[k].incidentId].rows = incidents[claims[k].incidentId].rows
<1>1. Inv /\ TypeOK /\ LedgerInv BY DEF FullInv, Inv
<1>2. TypeOK' BY <1>1, InvStep DEF Next, Inv
<1>3. claims[k].incidentId \in DOMAIN incidents /\ Len(claims) \in Nat /\ Len(incidents) \in Nat
  BY <1>1, EntryTypes DEF TypeOK, LedgerType
<1>4. ASSUME NEW u \in Users, NEW t \in Tokens, NEW a \in Amounts, NEW b \in Boosters,
             FileOpeningClaim(u, t, a, b)
      PROVE  \A j \in DOMAIN incidents : incidents'[j] = incidents[j]
  <2>1. PICK assets \in {poolAssets} \cup ExitOutcomes :
           incidents' = Append(incidents, Joined(NewIncident(t, assets), u, Len(claims) + 1))
    BY <1>4 DEF FileOpeningClaim
  <2>2. assets \in [Pools -> Nat] BY <1>1, ExitAssetsType
  <2> DEFINE e == Joined(NewIncident(t, assets), u, Len(claims) + 1)
  <2>3. e \in Incident BY <1>1, <1>3, <2>2, NewIncidentType, JoinedType
  <2> HIDE DEF e
  <2> QED BY <1>1, <2>1, <2>3, AppendIncident DEF TypeOK, LedgerType, e
<1>5. ASSUME NEW u \in Users, NEW a \in Amounts, NEW b \in Boosters, FileClaim(u, a, b)
      PROVE  \E i \in DOMAIN incidents, e \in Incident :
                /\ incidents' = [incidents EXCEPT ![i] = e]
                /\ e.root = incidents[i].root /\ e.rows = incidents[i].rows
  <2> DEFINE i == ActiveIncidentId
             e == Joined(incidents[i], u, Len(claims) + 1)
  <2>1. i # 0 /\ incidents' = [incidents EXCEPT ![i] = e] BY <1>5 DEF FileClaim
  <2>2. i \in DOMAIN incidents /\ incidents[i] \in Incident BY <1>1, <2>1, ActiveIsLast
  <2>3. e \in Incident BY <1>3, <2>2, JoinedType
  <2>4. e.root = incidents[i].root /\ e.rows = incidents[i].rows
    BY <2>2 DEF Joined, Incident
  <2> HIDE DEF i, e
  <2> QED BY <2>1, <2>2, <2>3, <2>4
<1>6. ASSUME NEW u \in Users, CancelClaim(u)
      PROVE  \E i \in DOMAIN incidents, e \in Incident :
                /\ incidents' = [incidents EXCEPT ![i] = e]
                /\ e.root = incidents[i].root /\ e.rows = incidents[i].rows
  <2> DEFINE i == ActiveIncidentId
             m == incidents[i].claimIdOf[u]
             e == Left(incidents[i], u, m)
  <2>1. i # 0 /\ m # 0 /\ ~Resolved(m) /\ incidents' = [incidents EXCEPT ![i] = e]
    BY <1>6 DEF CancelClaim
  <2>2. i \in DOMAIN incidents /\ incidents[i] \in Incident BY <1>1, <2>1, ActiveIsLast
  <2>3. e \in Incident
    <3>1. UnresolvedMatchesClaims /\ IndexSound BY <1>1 DEF Inv
    <3>2. m \in DOMAIN claims /\ claims[m].incidentId = i
      BY <1>1, <2>1, <2>2, <3>1, IndexedClaim
    <3>3. incidents[i].unresolvedClaims # 0 BY <1>1, <2>1, <3>1, <3>2, OpenClaimCounted
    <3>4. m \in Nat BY <1>1, <3>2, ClaimFields
    <3> QED BY <2>2, <3>3, <3>4, LeftType
  <2>4. e.root = incidents[i].root /\ e.rows = incidents[i].rows BY <2>2, JoinedTerms
  <2> HIDE DEF i, e
  <2> QED BY <2>1, <2>2, <2>3, <2>4
<1>7. ASSUME NEW m \in DOMAIN claims,
             \/ AcceptPayout(m) \/ RecoverClaim(m)
             \/ \E byClaimant \in BOOLEAN : DeclinePayout(m, byClaimant)
      PROVE  \E i \in DOMAIN incidents, e \in Incident :
                /\ incidents' = [incidents EXCEPT ![i] = e]
                /\ e.root = incidents[i].root /\ e.rows = incidents[i].rows
  <2> DEFINE i == claims[m].incidentId
             r == OneResolved(incidents[i])
  <2>1. ~Resolved(m) BY <1>7 DEF AcceptPayout, RecoverClaim, DeclinePayout
  <2>2. i \in DOMAIN incidents /\ incidents[i] \in Incident /\ incidents[i].unresolvedClaims # 0
    BY <1>1, <2>1, OpenClaimCounted, EntryTypes DEF Inv
  <2>3. r \in Incident BY <1>1, <2>2, OneResolvedType DEF TypeOK, ConfigType
  <2>4. r.root = incidents[i].root /\ r.rows = incidents[i].rows BY <2>2, OneResolvedTerms
  <2>5. CASE AcceptPayout(m)
    <3> DEFINE row == incidents[i].rows[m]
               e == Charged(r, row)
    <3>1. incidents' = [incidents EXCEPT ![i] = e] /\ RowUsable(m) /\ Payable(incidents[i], row)
      BY <2>5 DEF AcceptPayout
    <3>2. row \in Row BY <1>1, <2>2, <3>1, RowType DEF RowUsable
    <3>3. Payable(r, row) BY <2>2, <3>1, <3>2, OneResolvedPayable
    <3>4. e \in Incident BY <1>1, <2>3, <3>2, <3>3, ChargedType DEF TypeOK, PoolType
    <3> HIDE DEF r
    <3>5. e.root = r.root /\ e.rows = r.rows BY <2>3, ChargedTerms
    <3> HIDE DEF i, e
    <3> QED BY <2>2, <2>4, <3>1, <3>4, <3>5
  <2>6. CASE ~AcceptPayout(m)
    <3>1. incidents' = [incidents EXCEPT ![i] = r]
      BY <1>7, <2>6 DEF RecoverClaim, DeclinePayout
    <3> HIDE DEF i, r
    <3> QED BY <2>2, <2>3, <2>4, <3>1
  <2> QED BY <2>5, <2>6
<1>8. ASSUME NEW i \in DOMAIN incidents, NEW e \in Incident,
             incidents' = [incidents EXCEPT ![i] = e],
             e.root = incidents[i].root /\ e.rows = incidents[i].rows
      PROVE  /\ incidents'[claims[k].incidentId].root = incidents[claims[k].incidentId].root
             /\ incidents'[claims[k].incidentId].rows = incidents[claims[k].incidentId].rows
  BY <1>1, <1>8, RewriteKeepsUsedRoots
<1> QED BY <1>3, <1>4, <1>5, <1>6, <1>7, <1>8 DEF ClaimantStep

\* Roots are stored and dropped only while no claim was finalized under them.
LEMMA SettlementKeepsUsedRoots ==
    ASSUME FullInv, SettlementStep, NEW k \in DOMAIN claims,
           claims[k].outcome \in {"paid", "declined"}
    PROVE  /\ incidents'[claims[k].incidentId].root = incidents[claims[k].incidentId].root
           /\ incidents'[claims[k].incidentId].rows = incidents[claims[k].incidentId].rows
<1>1. Inv /\ TypeOK /\ LedgerInv BY DEF FullInv, Inv
<1>2. claims[k].incidentId \in DOMAIN incidents BY <1>1, EntryTypes
<1>3. ASSUME NEW t \in Tokens, OpenClaimIncident(t)
      PROVE  \A j \in DOMAIN incidents : incidents'[j] = incidents[j]
  <2>1. PICK assets \in {poolAssets} \cup ExitOutcomes :
           incidents' = Append(incidents, NewIncident(t, assets))
    BY <1>3 DEF OpenClaimIncident
  <2>2. assets \in [Pools -> Nat] BY <1>1, ExitAssetsType
  <2>3. NewIncident(t, assets) \in Incident BY <1>1, <2>2, NewIncidentType
  <2> QED BY <1>1, <2>1, <2>3, AppendIncident DEF TypeOK, LedgerType
<1>4. ASSUME NEW i \in DOMAIN incidents, i = ActiveIncidentId, NEW e \in Incident,
             incidents' = [incidents EXCEPT ![i] = e],
             \/ CorrectionOpen(incidents[i])
             \/ incidents[i].root = "none" /\ SettlementPhase(incidents[i])
      PROVE  /\ incidents'[claims[k].incidentId].root = incidents[claims[k].incidentId].root
             /\ incidents'[claims[k].incidentId].rows = incidents[claims[k].incidentId].rows
  <2>1. \A m \in ClaimsOf(i) : claims[m].outcome \notin {"paid", "declined"}
    BY <1>1, <1>4, CorrectionUnused, SettlementUnused
  <2> QED BY <1>1, <1>4, <2>1, RewriteKeepsUsedRoots
<1>5. ASSUME NEW source \in {"tee", "admin"}, NEW rows \in Settlement,
             NEW budget \in [Pools -> Nat], ActiveIncidentId # 0,
             CommitRoot(ActiveIncidentId, source, rows, budget),
             \/ CorrectionOpen(incidents[ActiveIncidentId])
             \/ /\ incidents[ActiveIncidentId].root = "none"
                /\ SettlementPhase(incidents[ActiveIncidentId])
      PROVE  /\ incidents'[claims[k].incidentId].root = incidents[claims[k].incidentId].root
             /\ incidents'[claims[k].incidentId].rows = incidents[claims[k].incidentId].rows
  <2>1. PICK i \in DOMAIN incidents : i = ActiveIncidentId BY <1>1, <1>5, ActiveIsLast
  <2> DEFINE e == Committed(incidents[i], source, rows, budget)
  <2>2. incidents[i] \in Incident BY <1>1, EntryTypes
  <2>3. e \in Incident BY <1>1, <2>2, CommittedType DEF TypeOK, ConfigType
  <2>4. incidents' = [incidents EXCEPT ![i] = e] BY <1>5, <2>1 DEF CommitRoot
  <2> HIDE DEF e
  <2> QED BY <1>4, <1>5, <2>1, <2>3, <2>4
<1>6. ASSUME NEW s \in signed, SettleIncident(s)
      PROVE  /\ incidents'[claims[k].incidentId].root = incidents[claims[k].incidentId].root
             /\ incidents'[claims[k].incidentId].rows = incidents[claims[k].incidentId].rows
  <2>1. s \in Signature BY <1>1 DEF TypeOK, PoolType
  <2>2. s.rows \in Settlement /\ s.poolPayouts \in [Pools -> Nat] BY <2>1 DEF Signature
  <2>3. /\ ActiveIncidentId # 0 /\ incidents[ActiveIncidentId].root = "none"
        /\ SettlementPhase(incidents[ActiveIncidentId])
        /\ CommitRoot(ActiveIncidentId, "tee", s.rows, s.poolPayouts)
    BY <1>6 DEF SettleIncident
  <2> QED BY <1>5, <2>2, <2>3
<1>7. ASSUME NEW rows \in Settlement, NEW budget \in [Pools -> Nat],
             AdminCorrectSettlement(rows, budget)
      PROVE  /\ incidents'[claims[k].incidentId].root = incidents[claims[k].incidentId].root
             /\ incidents'[claims[k].incidentId].rows = incidents[claims[k].incidentId].rows
  <2>1. /\ ActiveIncidentId # 0 /\ CorrectionOpen(incidents[ActiveIncidentId])
        /\ CommitRoot(ActiveIncidentId, "admin", rows, budget)
    BY <1>7 DEF AdminCorrectSettlement, CanCorrect
  <2> QED BY <1>5, <2>1
<1>8. ASSUME AdminVoidSettlement
      PROVE  /\ incidents'[claims[k].incidentId].root = incidents[claims[k].incidentId].root
             /\ incidents'[claims[k].incidentId].rows = incidents[claims[k].incidentId].rows
  <2>1. ActiveIncidentId # 0 /\ CorrectionOpen(incidents[ActiveIncidentId])
    BY <1>8 DEF AdminVoidSettlement, CanCorrect
  <2>2. PICK i \in DOMAIN incidents : i = ActiveIncidentId BY <1>1, <2>1, ActiveIsLast
  <2>3. Voided(incidents[i]) \in Incident
    BY <1>1, EntryTypes, VoidedType DEF TypeOK, ConfigType
  <2>4. incidents' = [incidents EXCEPT ![i] = Voided(incidents[i])]
    BY <1>8, <2>2 DEF AdminVoidSettlement
  <2> QED BY <1>4, <2>1, <2>2, <2>3, <2>4
<1>9. CASE \E rows \in [ClaimsOf(Len(incidents)) -> RowChoices \cup {NoRow}],
              budget \in [Pools -> BudgetChoices] :
              AdminCorrectSettlement(
                  [m \in ClaimIds |-> IF m \in DOMAIN rows THEN rows[m] ELSE NoRow], budget)
  <2>1. PICK rows \in [ClaimsOf(Len(incidents)) -> RowChoices \cup {NoRow}],
             budget \in [Pools -> BudgetChoices] :
             AdminCorrectSettlement(
                 [m \in ClaimIds |-> IF m \in DOMAIN rows THEN rows[m] ELSE NoRow], budget)
    BY <1>9
  <2> QED BY <1>7, <2>1, CorrectionInputs
<1>10. CASE \E i \in DOMAIN incidents : SignSettlement(i)
  BY <1>10 DEF SignSettlement
<1> QED BY <1>2, <1>3, <1>6, <1>8, <1>9, <1>10 DEF SettlementStep

\* Once a claimant has acted on a root, neither the relayer nor governance can
\* replace or void it, whatever the timing of the calls.
THEOREM UsedRootsAreFixed == Spec => RootFixedOnceUsed
<1> DEFINE A == \A k \in DOMAIN claims : claims[k].outcome \in {"paid", "declined"} =>
        LET i == claims[k].incidentId IN
        incidents'[i].root = incidents[i].root /\ incidents'[i].rows = incidents[i].rows
<1>1. FullInv /\ [Next]_vars => [A]_vars
  <2> SUFFICES ASSUME FullInv, [Next]_vars, NEW k \in DOMAIN claims,
                      claims[k].outcome \in {"paid", "declined"}
               PROVE  LET i == claims[k].incidentId IN
                      incidents'[i].root = incidents[i].root
                      /\ incidents'[i].rows = incidents[i].rows
    OBVIOUS
  <2>1. CASE ClaimantStep BY <2>1, ClaimantKeepsUsedRoots
  <2>2. CASE SettlementStep BY <2>2, SettlementKeepsUsedRoots
  <2>3. CASE GovernanceStep
    <3>1. incidents' = incidents
      BY <2>3 DEF GovernanceStep, ListInsuredToken, DelistInsuredToken, SweepToken,
         SetClaimBondAmount, SetTeeSigner, RegisterModule, ReplaceModule,
         ClearDefiInsurance, EndBetaMode, SetPaused, SetPoolPaused, SetProtocolFeeConfig,
         SetIncidentTimingConfig, SetMaxCoverPoolPayoutBps, AddPool, RemovePool,
         notRegistry, claimState
    <3> QED BY <3>1
  <2>4. CASE EnvironmentStep
    <3>1. incidents' = incidents
      BY <2>4 DEF EnvironmentStep, PoolFlow, OtherModulePays, Donate, Tick, claimState
    <3> QED BY <3>1
  <2>5. CASE UNCHANGED vars BY <2>5 DEF vars
  <2> QED BY <2>1, <2>2, <2>3, <2>4, <2>5 DEF Next
<1>2. Spec => [][A]_vars BY <1>1, FullInvHolds, PTL DEF Spec
<1> QED BY <1>2 DEF RootFixedOnceUsed
============================================================================
