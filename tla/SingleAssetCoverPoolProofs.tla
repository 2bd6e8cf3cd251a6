-------------------- MODULE SingleAssetCoverPoolProofs --------------------
(***************************************************************************)
(* The order of the exit queue and the books of the pool, for every number *)
(* of users, every epoch length and every sequence of timing changes:      *)
(* receipts, escrow, reserves and holdings agree, rewards are funded,      *)
(* nobody is diluted, and the promise of PoolCapital is kept.              *)
(***************************************************************************)
EXTENDS SingleAssetCoverPool, SumLemmas, TLAPS

\* The fields of an exit epoch, whatever their values.
EpochShape(r) ==
    r = [totalShares |-> r.totalShares, totalAssets |-> r.totalAssets,
         remainingShares |-> r.remainingShares, remainingAssets |-> r.remainingAssets]

QueueType ==
    /\ now \in Nat /\ exitTiming \in Timings
    /\ exitEpochQueue \in Seq(Epochs)
    /\ nextExitEpochIndex \in 0 .. Len(exitEpochQueue)
    /\ exitEpochs = [e \in Epochs |-> exitEpochs[e]]
    /\ \A e \in Epochs : EpochShape(exitEpochs[e]) /\ exitEpochs[e].totalShares \in Nat

\* An epoch is in the queue as soon as somebody has joined it.
JoinedIsQueued ==
    \A j \in DOMAIN exitEpochQueue : exitEpochs[exitEpochQueue[j]].totalShares # 0

Ordered(q) == \A i, j \in DOMAIN q : i < j => q[i] < q[j]
EndedBy(q, n, t) == \A j \in 1 .. n : q[j] <= t

\* The inductive strengthening of ExitQueueOrdered.
QueueInv ==
    /\ QueueType
    /\ JoinedIsQueued
    /\ Ordered(exitEpochQueue)
    /\ EndedBy(exitEpochQueue, nextExitEpochIndex, now)

queueVars == <<now, exitTiming, exitEpochQueue, nextExitEpochIndex, exitEpochs>>

-----------------------------------------------------------------------------
\* A user's request is stamped with an epoch that lies in the future and that
\* is not before the last outstanding one (_calculateExitEpoch).
LEMMA ExitEpochLater ==
    ASSUME QueueType, NEW n \in 0 .. Outstanding
    PROVE  /\ ExitEpochFor(n) \in Int
           /\ n < Outstanding => ExitEpochFor(n) >= exitEpochQueue[Len(exitEpochQueue)]
           /\ ExitEpochFor(n) > now
              \/ (n < Outstanding /\ ExitEpochFor(n) = exitEpochQueue[Len(exitEpochQueue)])
<1> DEFINE c == exitTiming.unstakeCooldown
           d == exitTiming.exitBatchInterval
           b == CeilDiv(now + c, d) * d
<1>1. c \in Nat \ {0} /\ d \in Nat \ {0} /\ now \in Nat
  BY PoolConstantsAssumption DEF QueueType
<1>2. b \in Int /\ b >= now + c
  <2> DEFINE x == now + c + d - 1
             k == x \div d
  <2>1. x \in Nat /\ d \in Nat /\ d > 0
    BY <1>1
  <2>2. k \in Int /\ d * k <= x /\ x < d * k + d
    <3> HIDE DEF x, d
    <3> QED BY <2>1, Z3
  <2>3. k * d \in Int /\ k * d = d * k
    BY <2>2, <2>1
  <2>4. b = k * d
    BY DEF CeilDiv
  <2> QED
    <3> DEFINE y == k * d
    <3>1. y \in Int /\ x < y + d /\ b = y
      BY <2>2, <2>3, <2>4, <2>1
    <3> HIDE DEF y, k, b
    <3> QED BY <3>1, <1>1
<1>3. Len(exitEpochQueue) \in Nat /\ nextExitEpochIndex \in Nat
  BY DEF QueueType
<1>4. n < Outstanding => exitEpochQueue[Len(exitEpochQueue)] \in Int
  BY <1>3 DEF QueueType, Outstanding, Epochs
<1>5. ExitEpochFor(n) = IF n < Outstanding /\ b < exitEpochQueue[Len(exitEpochQueue)]
                        THEN exitEpochQueue[Len(exitEpochQueue)] ELSE b
  BY DEF ExitEpochFor, Last
<1> HIDE DEF b, c
<1> QED BY <1>1, <1>2, <1>4, <1>5

\* The epochs a settlement prices have ended, so the settled part of the queue
\* stays a part of ended epochs.
LEMMA SettledHaveEnded ==
    ASSUME QueueInv, NEW n \in 0 .. Outstanding,
           n = 0 \/ (\A e \in QueuedEpochs(n) : e <= now)
    PROVE  /\ nextExitEpochIndex + n \in 0 .. Len(exitEpochQueue)
           /\ EndedBy(exitEpochQueue, nextExitEpochIndex + n, now)
<1>1. Len(exitEpochQueue) \in Nat /\ nextExitEpochIndex \in Nat /\ n \in Nat
      /\ nextExitEpochIndex + n <= Len(exitEpochQueue)
  BY DEF QueueInv, QueueType, Outstanding
<1>2. ASSUME NEW j \in 1 .. (nextExitEpochIndex + n) PROVE exitEpochQueue[j] <= now
  <2>1. CASE j <= nextExitEpochIndex
    BY <2>1, <1>1 DEF QueueInv, EndedBy
  <2>2. CASE j > nextExitEpochIndex
    <3>1. j - nextExitEpochIndex \in 1 .. n /\ j = nextExitEpochIndex + (j - nextExitEpochIndex)
      BY <2>2, <1>1
    <3>2. exitEpochQueue[j] \in QueuedEpochs(n)
      BY <3>1 DEF QueuedEpochs
    <3> QED BY <3>1, <3>2, <1>1
  <2> QED BY <2>1, <2>2, <1>1
<1> QED BY <1>1, <1>2 DEF EndedBy

\* Pricing epochs leaves the shares that joined them alone.
LEMMA PricingKeepsShares ==
    ASSUME QueueType, NEW n, NEW pool
    PROVE  /\ EpochsPriced(n, pool) = [e \in Epochs |-> EpochsPriced(n, pool)[e]]
           /\ \A e \in Epochs :
                /\ EpochShape(EpochsPriced(n, pool)[e])
                /\ EpochsPriced(n, pool)[e].totalShares = exitEpochs[e].totalShares
<1>1. \A e \in Epochs : EpochsPriced(n, pool)[e] =
        IF e \in QueuedEpochs(n)
        THEN [totalShares |-> exitEpochs[e].totalShares, totalAssets |-> pool.price[e],
              remainingShares |-> exitEpochs[e].totalShares,
              remainingAssets |-> pool.price[e]]
        ELSE exitEpochs[e]
  BY DEF EpochsPriced
<1>2. EpochsPriced(n, pool) = [e \in Epochs |-> EpochsPriced(n, pool)[e]]
  BY DEF EpochsPriced
<1>3. ASSUME NEW e \in Epochs
      PROVE  /\ EpochShape(EpochsPriced(n, pool)[e])
             /\ EpochsPriced(n, pool)[e].totalShares = exitEpochs[e].totalShares
  <2>1. CASE e \in QueuedEpochs(n)
    <3> DEFINE s == exitEpochs[e].totalShares
               p == pool.price[e]
               r == [totalShares |-> s, totalAssets |-> p,
                     remainingShares |-> s, remainingAssets |-> p]
    <3>1. EpochsPriced(n, pool)[e] = r
      BY <1>1, <2>1
    <3>2. r.totalShares = s /\ EpochShape(r)
      <4> HIDE DEF s, p
      <4> QED BY DEF EpochShape
    <3> HIDE DEF r
    <3> QED BY <3>1, <3>2
  <2>2. CASE e \notin QueuedEpochs(n)
    BY <1>1, <2>2 DEF QueueType
  <2> QED BY <2>1, <2>2
<1> QED BY <1>2, <1>3

\* The part of a step that settles n ended epochs and pushes nothing.
LEMMA SettlingInv ==
    ASSUME QueueInv, NEW n \in 0 .. Outstanding,
           n = 0 \/ (\A e \in QueuedEpochs(n) : e <= now),
           now' = now, exitTiming' = exitTiming, exitEpochQueue' = exitEpochQueue,
           nextExitEpochIndex' = nextExitEpochIndex + n,
           exitEpochs' = [e \in Epochs |-> exitEpochs'[e]],
           \A e \in Epochs : /\ EpochShape(exitEpochs'[e])
                             /\ exitEpochs'[e].totalShares = exitEpochs[e].totalShares
    PROVE  QueueInv'
<1>1. nextExitEpochIndex' \in 0 .. Len(exitEpochQueue')
      /\ EndedBy(exitEpochQueue', nextExitEpochIndex', now')
  BY SettledHaveEnded
<1>2. QueueType'
  BY <1>1 DEF QueueInv, QueueType
<1>3. JoinedIsQueued'
  <2>1. ASSUME NEW j \in DOMAIN exitEpochQueue
        PROVE  exitEpochs'[exitEpochQueue[j]].totalShares # 0
    <3>1. exitEpochQueue[j] \in Epochs
      BY DEF QueueInv, QueueType
    <3>2. exitEpochs[exitEpochQueue[j]].totalShares # 0
      BY DEF QueueInv, JoinedIsQueued
    <3> QED BY <3>1, <3>2
  <2> QED BY <2>1 DEF JoinedIsQueued
<1> QED BY <1>1, <1>2, <1>3 DEF QueueInv, Ordered

\* requestRedeem: the request joins an epoch that is already in the queue or
\* pushes one that is later than all others.
LEMMA RequestRedeemInv ==
    ASSUME QueueInv, NEW u \in Users, NEW shares \in ShareAmounts, RequestRedeem(u, shares)
    PROVE  QueueInv'
<1>1. PICK n \in 0 .. Outstanding :
        LET pool   == Settled(n)
            epochs == EpochsPriced(n, pool)
            e      == ExitEpochFor(n)
        IN  /\ IF frozen THEN n = 0 ELSE StopsAfter(n, Outstanding)
            /\ e \in Epochs
            /\ exitEpochQueue' = Enqueued(epochs, e)
            /\ exitEpochs' = [epochs EXCEPT ![e].totalShares = @ + shares]
            /\ nextExitEpochIndex' = nextExitEpochIndex + n
  BY DEF RequestRedeem
<1> DEFINE epochs == EpochsPriced(n, Settled(n))
           e == ExitEpochFor(n)
           q == exitEpochQueue
<1>2. n = 0 \/ (\A x \in QueuedEpochs(n) : x <= now)
  BY <1>1 DEF StopsAfter
<1>3. nextExitEpochIndex + n \in 0 .. Len(q) /\ EndedBy(q, nextExitEpochIndex + n, now)
  BY <1>2, SettledHaveEnded
<1>4. now' = now /\ exitTiming' = exitTiming
  BY DEF RequestRedeem, envVars
<1>5. /\ epochs = [x \in Epochs |-> epochs[x]]
      /\ \A x \in Epochs : EpochShape(epochs[x])
                           /\ epochs[x].totalShares = exitEpochs[x].totalShares
  BY PricingKeepsShares DEF QueueInv
<1>6. /\ e \in Epochs
      /\ n < Outstanding => e >= q[Len(q)]
      /\ e > now \/ (n < Outstanding /\ e = q[Len(q)])
  BY <1>1, ExitEpochLater DEF QueueInv
<1>7. /\ q \in Seq(Epochs) /\ Len(q) \in Nat /\ DOMAIN q = 1 .. Len(q)
      /\ nextExitEpochIndex \in Nat /\ now \in Nat /\ shares \in Nat \ {0}
      /\ Outstanding = Len(q) - nextExitEpochIndex /\ n \in Nat
  BY PoolConstantsAssumption DEF QueueInv, QueueType, Outstanding
<1>8. exitEpochs' = [x \in Epochs |-> exitEpochs'[x]]
      /\ \A x \in Epochs : /\ EpochShape(exitEpochs'[x])
                           /\ exitEpochs'[x].totalShares =
                                exitEpochs[x].totalShares + (IF x = e THEN shares ELSE 0)
  <2>1. exitEpochs' = [epochs EXCEPT ![e] = [epochs[e] EXCEPT !.totalShares = @ + shares]]
    BY <1>1
  <2> HIDE DEF epochs, e
  <2>2. ASSUME NEW x \in Epochs, x # e
        PROVE  exitEpochs'[x] = epochs[x]
    BY <2>1, <2>2, <1>5, <1>6
  <2>3. exitEpochs'[e] = [epochs[e] EXCEPT !.totalShares = @ + shares]
    BY <2>1, <1>5, <1>6
  <2>4. EpochShape(exitEpochs'[e]) /\ exitEpochs'[e].totalShares = epochs[e].totalShares + shares
    <3> DEFINE r == epochs[e]
    <3>1. EpochShape(r)
      BY <1>5, <1>6
    <3>2. exitEpochs'[e] = [r EXCEPT !.totalShares = @ + shares]
      BY <2>3
    <3> HIDE DEF r
    <3>3. [r EXCEPT !.totalShares = @ + shares] =
            [totalShares |-> r.totalShares + shares, totalAssets |-> r.totalAssets,
             remainingShares |-> r.remainingShares, remainingAssets |-> r.remainingAssets]
      BY <3>1 DEF EpochShape
    <3>4. EpochShape(exitEpochs'[e]) /\ exitEpochs'[e].totalShares = r.totalShares + shares
      BY <3>2, <3>3 DEF EpochShape
    <3> QED BY <3>4 DEF r
  <2>5. exitEpochs' = [x \in Epochs |-> exitEpochs'[x]]
    BY <2>1, <1>5
  <2>6. \A x \in Epochs : exitEpochs[x].totalShares \in Nat
    BY DEF QueueInv, QueueType
  <2> QED BY <2>2, <2>4, <2>5, <2>6, <1>5, <1>6
<1>9. exitEpochQueue' = (IF exitEpochs[e].totalShares = 0 THEN Append(q, e) ELSE q)
  <2>1. exitEpochQueue' = (IF epochs[e].totalShares = 0 THEN Append(q, e) ELSE q)
    BY <1>1 DEF Enqueued
  <2> HIDE DEF epochs, e
  <2> QED BY <2>1, <1>5, <1>6
<1>13. /\ nextExitEpochIndex' = nextExitEpochIndex + n
       /\ exitTiming' \in Timings /\ now' \in Nat
       /\ Ordered(q)
       /\ \A j \in 1 .. Len(q) : q[j] \in Epochs /\ exitEpochs[q[j]].totalShares # 0
  <2>1. \A j \in DOMAIN q : q[j] \in Epochs
    BY <1>7
  <2>2. \A j \in DOMAIN q : exitEpochs[q[j]].totalShares # 0
    BY DEF QueueInv, JoinedIsQueued
  <2>3. Ordered(q) /\ exitTiming \in Timings
    BY DEF QueueInv, QueueType
  <2> QED BY <1>1, <1>4, <1>7, <2>1, <2>2, <2>3
<1>14. \A x \in Epochs : x \in Int /\ exitEpochs'[x].totalShares \in Nat
  <2>1. \A x \in Epochs : exitEpochs[x].totalShares \in Nat /\ x \in Int
    BY PoolConstantsAssumption DEF QueueInv, QueueType, Epochs
  <2>2. shares \in Nat
    BY <1>7
  <2> HIDE DEF epochs, e, q
  <2> QED BY <2>1, <2>2, <1>8
<1> HIDE DEF epochs, e, q
<1>12. \A j \in 1 .. Len(q) : exitEpochs'[q[j]].totalShares # 0
  <2>1. ASSUME NEW j \in 1 .. Len(q) PROVE exitEpochs'[q[j]].totalShares # 0
    <3>1. q[j] \in Epochs /\ exitEpochs[q[j]].totalShares # 0
      BY <1>13
    <3>2. exitEpochs[q[j]].totalShares \in Nat
      BY <3>1 DEF QueueInv, QueueType
    <3> QED BY <3>1, <3>2, <1>7, <1>8
  <2> QED BY <2>1
<1>10. CASE exitEpochs[e].totalShares # 0
  <2>1. exitEpochQueue' = q
    BY <1>9, <1>10
  <2>2. QueueType'
    BY <2>1, <1>3, <1>7, <1>8, <1>13, <1>14 DEF QueueType
  <2>3. JoinedIsQueued'
    BY <2>1, <1>12 DEF JoinedIsQueued, q
  <2>4. Ordered(exitEpochQueue')
    BY <2>1, <1>13
  <2>5. EndedBy(exitEpochQueue', nextExitEpochIndex', now')
    BY <2>1, <1>1, <1>3, <1>4
  <2> QED BY <2>2, <2>3, <2>4, <2>5 DEF QueueInv
<1>11. CASE exitEpochs[e].totalShares = 0
  <2>1. exitEpochQueue' = Append(q, e)
    BY <1>9, <1>11
  <2>2. /\ Append(q, e) \in Seq(Epochs) /\ Len(Append(q, e)) = Len(q) + 1
        /\ DOMAIN Append(q, e) = 1 .. (Len(q) + 1)
        /\ \A j \in 1 .. Len(q) : Append(q, e)[j] = q[j]
        /\ Append(q, e)[Len(q) + 1] = e
    BY <1>6, <1>7
  <2>3. QueueType'
    <3>1. nextExitEpochIndex' \in 0 .. Len(Append(q, e))
      BY <2>2, <1>3, <1>7, <1>13
    <3> QED BY <2>1, <2>2, <3>1, <1>8, <1>13, <1>14 DEF QueueType
  <2>4. JoinedIsQueued'
    <3>1. exitEpochs'[e].totalShares # 0
      BY <1>8, <1>6, <1>7, <1>11
    <3>2. \A j \in 1 .. (Len(q) + 1) : exitEpochs'[Append(q, e)[j]].totalShares # 0
      BY <3>1, <2>2, <1>12, <1>7
    <3> QED BY <3>2, <2>1, <2>2 DEF JoinedIsQueued
  <2>5. ASSUME NEW j \in 1 .. Len(q) PROVE q[j] < e
    <3>1. q[j] \in Int /\ e \in Int /\ q[j] # e
      BY <1>6, <1>11, <1>13, <1>14
    <3>2. CASE n < Outstanding
      <4>0. Len(q) \in 1 .. Len(q) /\ j \in DOMAIN q /\ Len(q) \in DOMAIN q
        BY <1>7
      <4>1. q[Len(q)] \in Int /\ q[Len(q)] # e
        BY <4>0, <1>6, <1>11, <1>13, <1>14
      <4>2. j = Len(q) \/ q[j] < q[Len(q)]
        BY <4>0, <1>7, <1>13 DEF Ordered
      <4> QED BY <4>1, <4>2, <3>1, <3>2, <1>6
    <3>3. CASE ~(n < Outstanding)
      <4>1. nextExitEpochIndex + n = Len(q)
        BY <3>3, <1>3, <1>7, <1>1
      <4>2. q[j] <= now /\ e > now
        BY <4>1, <3>3, <1>3, <1>6 DEF EndedBy
      <4> QED BY <4>2, <3>1, <1>7
    <3> QED BY <3>2, <3>3
  <2>6. Ordered(Append(q, e))
    <3>1. \A i, j \in 1 .. Len(q) : i < j => q[i] < q[j]
      BY <1>7, <1>13 DEF Ordered
    <3> QED BY <3>1, <2>2, <2>5, <1>7 DEF Ordered
  <2>7. EndedBy(Append(q, e), nextExitEpochIndex', now')
    BY <2>2, <1>1, <1>3, <1>4, <1>7 DEF EndedBy
  <2> QED BY <2>1, <2>3, <2>4, <2>6, <2>7 DEF QueueInv
<1> QED BY <1>10, <1>11

\* completeRedeem may settle the queue; it changes receipts, not shares joined.
LEMMA CompleteRedeemInv ==
    ASSUME QueueInv, NEW u \in Users, CompleteRedeem(u)
    PROVE  QueueInv'
<1> DEFINE e == exitRequests[u].exitEpoch
           shares == exitRequests[u].shares
<1>1. PICK n \in 0 .. Outstanding :
        /\ Settles(e, n)
        /\ exitEpochs' = [EpochsPriced(n, Settled(n)) EXCEPT
              ![e] = Collected(EpochsPriced(n, Settled(n))[e], shares)]
        /\ nextExitEpochIndex' = nextExitEpochIndex + n
  BY DEF CompleteRedeem
<1> DEFINE epochs == EpochsPriced(n, Settled(n))
<1>2. n = 0 \/ (\A x \in QueuedEpochs(n) : x <= now)
  BY <1>1 DEF Settles, StopsAfter
<1>3. now' = now /\ exitTiming' = exitTiming /\ exitEpochQueue' = exitEpochQueue
  BY DEF CompleteRedeem, envVars
<1>4. /\ epochs = [x \in Epochs |-> epochs[x]]
      /\ \A x \in Epochs : EpochShape(epochs[x])
                           /\ epochs[x].totalShares = exitEpochs[x].totalShares
  BY PricingKeepsShares DEF QueueInv
<1>5. exitEpochs' = [epochs EXCEPT ![e] = Collected(epochs[e], shares)]
  BY <1>1
<1> HIDE DEF epochs, e, shares
<1>6. ASSUME NEW x \in Epochs
      PROVE  EpochShape(exitEpochs'[x]) /\ exitEpochs'[x].totalShares = exitEpochs[x].totalShares
  <2>1. CASE x # e
    <3>1. exitEpochs'[x] = epochs[x]
      BY <2>1, <1>4, <1>5
    <3> QED BY <3>1, <1>4
  <2>2. CASE x = e
    <3>1. exitEpochs'[x] = Collected(epochs[x], shares)
      BY <2>2, <1>4, <1>5
    <3>2. /\ EpochShape(Collected(epochs[x], shares))
          /\ Collected(epochs[x], shares).totalShares = epochs[x].totalShares
      BY DEF Collected, EpochShape
    <3> QED BY <3>1, <3>2, <1>4
  <2> QED BY <2>1, <2>2
<1>7. exitEpochs' = [x \in Epochs |-> exitEpochs'[x]]
  BY <1>4, <1>5
<1> QED BY <1>1, <1>2, <1>3, <1>6, <1>7, SettlingInv

\* settleMaturedExitEpochs, also when an incident opens.
LEMMA SettleQueueInv ==
    ASSUME QueueInv, NEW n \in 0 .. Outstanding, n = 0 \/ (\A e \in QueuedEpochs(n) : e <= now),
           SettleQueue(n), now' = now, exitTiming' = exitTiming
    PROVE  QueueInv'
<1>1. exitEpochs' = EpochsPriced(n, Settled(n)) /\ nextExitEpochIndex' = nextExitEpochIndex + n
      /\ exitEpochQueue' = exitEpochQueue
  BY DEF SettleQueue
<1>2. /\ exitEpochs' = [x \in Epochs |-> exitEpochs'[x]]
      /\ \A x \in Epochs : EpochShape(exitEpochs'[x])
                           /\ exitEpochs'[x].totalShares = exitEpochs[x].totalShares
  BY <1>1, PricingKeepsShares DEF QueueInv
<1> QED BY <1>1, <1>2, SettlingInv

\* A step that leaves the queue alone, time passing and a new timing included.
LEMMA QueueUntouched ==
    ASSUME QueueInv, now' \in Nat, now' >= now, exitTiming' \in Timings,
           UNCHANGED <<exitEpochQueue, nextExitEpochIndex, exitEpochs>>
    PROVE  QueueInv'
<1>1. QueueType' /\ JoinedIsQueued' /\ Ordered(exitEpochQueue')
  BY DEF QueueInv, QueueType, JoinedIsQueued
<1>2. \A j \in 1 .. nextExitEpochIndex : exitEpochQueue[j] \in Int
  <2>1. \A j \in DOMAIN exitEpochQueue : exitEpochQueue[j] \in Epochs
    BY DEF QueueInv, QueueType
  <2>2. \A j \in 1 .. nextExitEpochIndex : j \in DOMAIN exitEpochQueue
    BY DEF QueueInv, QueueType
  <2> QED BY <2>1, <2>2 DEF Epochs
<1>3. EndedBy(exitEpochQueue', nextExitEpochIndex', now')
  BY <1>2 DEF QueueInv, QueueType, EndedBy
<1> QED BY <1>1, <1>3 DEF QueueInv

\* Every step keeps the queue in order.
LEMMA QueueNext == QueueInv /\ [Next]_vars => QueueInv'
<1> SUFFICES ASSUME QueueInv, [Next]_vars PROVE QueueInv'
  OBVIOUS
<1>a. now \in Nat /\ exitTiming \in Timings
  BY DEF QueueInv, QueueType
<1>1. CASE \E u \in Users, n \in ShareAmounts : RequestRedeem(u, n)
  BY <1>1, RequestRedeemInv
<1>2. CASE \E u \in Users : CompleteRedeem(u)
  BY <1>2, CompleteRedeemInv
<1>3. CASE \E n \in SettleLimits : SettleMaturedExitEpochs(n)
  <2>1. PICK m \in SettleLimits : SettleMaturedExitEpochs(m)
    BY <1>3
  <2>2. PICK n \in 0 .. Outstanding : StopsAfter(n, m) /\ SettleQueue(n)
    BY <2>1 DEF SettleMaturedExitEpochs
  <2>3. now' = now /\ exitTiming' = exitTiming
    BY <2>1 DEF SettleMaturedExitEpochs, envVars
  <2>4. \A e \in QueuedEpochs(n) : e <= now
    BY <2>2 DEF StopsAfter
  <2> QED BY <2>2, <2>3, <2>4, SettleQueueInv
<1>4. CASE \E listed \in BOOLEAN : OpenIncident(listed)
  <2>1. PICK listed \in BOOLEAN : OpenIncident(listed)
    BY <1>4
  <2>2. PICK n \in 0 .. Outstanding :
          (IF listed THEN StopsAfter(n, Outstanding) ELSE n = 0) /\ SettleQueue(n)
    BY <2>1 DEF OpenIncident
  <2>3. now' = now /\ exitTiming' = exitTiming
    BY <2>1 DEF OpenIncident
  <2>4. n = 0 \/ (\A e \in QueuedEpochs(n) : e <= now)
    BY <2>2 DEF StopsAfter
  <2> QED BY <2>2, <2>3, <2>4, SettleQueueInv
<1>5. CASE Tick
  <2>1. now' = now + 1 /\ UNCHANGED <<exitTiming, exitEpochQueue, nextExitEpochIndex, exitEpochs>>
    BY <1>5 DEF Tick, notEnv, exitVars
  <2> QED BY <2>1, <1>a, QueueUntouched
<1>6. CASE \E timing \in Timings : SetExitTimingConfig(timing)
  <2>1. exitTiming' \in Timings
        /\ UNCHANGED <<now, exitEpochQueue, nextExitEpochIndex, exitEpochs>>
    BY <1>6 DEF SetExitTimingConfig, notEnv, exitVars
  <2> QED BY <2>1, <1>a, QueueUntouched
<1>7. CASE UNCHANGED queueVars
  BY <1>7, <1>a, QueueUntouched DEF queueVars
<1>8. CASE \/ \E u \in Users, a \in AssetAmounts : Deposit(u, a)
           \/ \E u \in Users, n \in ShareAmounts : Mint(u, n)
  <2>1. UNCHANGED queueVars
    BY <1>8 DEF Deposit, Mint, TakeDeposit, queueVars, envVars, exitVars
  <2> QED BY <2>1, <1>7
<1>9. CASE \/ \E u, v \in Users, n \in ShareAmounts : Transfer(u, v, n)
           \/ \E u \in Users : ClaimReward(u)
  <2>1. UNCHANGED queueVars
    BY <1>9 DEF Transfer, ClaimReward, queueVars, envVars, exitVars
  <2> QED BY <2>1, <1>7
<1>10. CASE \E a \in Profits : ReceiveProfitDistribution(a)
  <2>1. UNCHANGED queueVars
    BY <1>10 DEF ReceiveProfitDistribution, queueVars, envVars, exitVars
  <2> QED BY <2>1, <1>7
<1>11. CASE \/ \E a \in Payouts : PayClaim(a)
            \/ \E d \in Durations : SetRewardsDuration(d)
            \/ \E cap \in Caps : SetDepositCap(cap)
            \/ \E t \in Tokens : SweepToken(t)
  <2>1. UNCHANGED queueVars
    BY <1>11 DEF PayClaim, SetRewardsDuration, SetDepositCap, SweepToken,
                 queueVars, envVars, exitVars
  <2> QED BY <2>1, <1>7
<1>12. CASE \/ CloseIncident
            \/ \E b \in PauseChoices : SetPaused(b)
            \/ \E t \in Tokens, a \in Donations : Donate(t, a)
  <2>1. UNCHANGED queueVars
    BY <1>12 DEF CloseIncident, SetPaused, Donate, queueVars, envVars, notEnv, exitVars
  <2> QED BY <2>1, <1>7
<1>13. CASE UNCHANGED vars
  BY <1>13, <1>7 DEF vars, queueVars, envVars, exitVars
<1> QED BY <1>1, <1>2, <1>3, <1>4, <1>5, <1>6, <1>8, <1>9, <1>10, <1>11, <1>12, <1>13
        DEF Next, UserStep, ProtocolStep, EnvironmentStep

\* The queue starts empty.
LEMMA QueueInit == Init => QueueInv
<1> SUFFICES ASSUME Init PROVE QueueInv
  OBVIOUS
<1>1. exitEpochs = [e \in Epochs |-> NoEpoch] /\ exitEpochQueue = <<>>
      /\ nextExitEpochIndex = 0 /\ now = 1 /\ exitTiming \in Timings
  BY DEF Init
<1>2. EpochShape(NoEpoch) /\ NoEpoch.totalShares = 0
  BY DEF EpochShape, NoEpoch
<1>3. QueueType
  BY <1>1, <1>2 DEF QueueType
<1> QED BY <1>1, <1>3 DEF QueueInv, JoinedIsQueued, Ordered, EndedBy

\* The strengthened invariant holds in every reachable state.
THEOREM QueueInvHolds == Spec => []QueueInv
BY QueueInit, QueueNext, PTL DEF Spec

\* Exits leave in the order of the queue: whatever the exit timing was when
\* they were requested, epochs are queued once and in increasing order, and an
\* epoch that has been priced lies in the past, where no request can join it.
THEOREM ExitsInOrder == Spec => []ExitQueueOrdered
<1>1. QueueInv => ExitQueueOrdered
  BY DEF QueueInv, QueueType, ExitQueueOrdered, Ordered, EndedBy, SettledEpochs
<1> QED BY <1>1, QueueInvHolds, PTL

-----------------------------------------------------------------------------
(* The books *)

EpochRecord ==
    [totalShares : Nat, totalAssets : Nat, remainingShares : Nat, remainingAssets : Nat]

Joined(epochs)   == [e \in Epochs |-> epochs[e].totalShares]
Receipts(epochs) == [e \in Epochs |-> epochs[e].remainingAssets]

\* The first k epochs of a queue, and the ones behind them.
QueueHead(q, k) == {q[j] : j \in 1 .. k}
Behind(q, k)    == {q[j] : j \in (k + 1) .. Len(q)}

AccountType ==
    /\ frozen \in BOOLEAN
    /\ accountedAssets \in Nat /\ withdrawalReserve \in Nat /\ rewardReserve \in Nat
    /\ escrowedShares \in Nat /\ balanceOf \in [Users -> Nat]
    /\ held \in [Tokens -> Nat]
    /\ exitEpochs \in [Epochs -> EpochRecord]
    /\ exitRequests \in [Users -> [shares : Nat, exitEpoch : Nat]]

\* A request that is not collected is in an epoch of the pool.
RequestsHaveEpochs ==
    \A u \in Users : exitRequests[u].shares # 0 => exitRequests[u].exitEpoch \in Epochs

\* An epoch somebody joined is in the queue (the converse of JoinedIsQueued).
QueuedWhenJoined ==
    \A e \in Epochs : exitEpochs[e].totalShares # 0
                        => e \in QueueHead(exitEpochQueue, Len(exitEpochQueue))

\* The pool holds the shares of the epochs that wait, and of no other.
EscrowIsQueued ==
    escrowedShares = Total(Joined(exitEpochs), Behind(exitEpochQueue, nextExitEpochIndex))

\* Only priced epochs have receipts, and an epoch without open shares owes nothing.
ReceiptsArePriced(epochs, priced) ==
    \A e \in Epochs :
        /\ e \notin priced => epochs[e].remainingShares = 0
        /\ epochs[e].remainingShares = 0 => epochs[e].remainingAssets = 0

ReserveIsOwed ==
    /\ withdrawalReserve = Total(Receipts(exitEpochs), Epochs)
    /\ ReceiptsArePriced(exitEpochs, QueueHead(exitEpochQueue, nextExitEpochIndex))

\* The inductive invariant.
AccountInv ==
    /\ QueueInv /\ AccountType
    /\ RequestsHaveEpochs /\ QueuedWhenJoined
    /\ EscrowIsQueued /\ ReserveIsOwed /\ PoolBacked

-----------------------------------------------------------------------------
(* Arithmetic *)

\* Paying h of s shares at the floor of their value, with the virtual share and
\* asset, takes no more than there is and leaves the price where it was or higher.
LEMMA FloorPayout ==
    ASSUME NEW a \in Nat, NEW s \in Nat, NEW h \in Nat, NEW v \in Nat \ {0}, h <= s
    PROVE  LET x == (h * (a + 1)) \div (s + v)
           IN  x \in Nat /\ x <= a
               /\ (a - x + 1) * (s + v) >= (a + 1) * (s - h + v)
<1> DEFINE n == h * (a + 1)
           d == s + v
           x == n \div d
<1>1. n \in Nat /\ d \in Nat /\ d > 0 OBVIOUS
<1>2. x \in Nat /\ x * d <= n /\ x * d \in Nat
  <2> HIDE DEF n, d
  <2> QED BY <1>1, Z3
<1>3. x <= a
  <2>1. h < d OBVIOUS
  <2>2. n < d * (a + 1)
    <3> HIDE DEF d
    <3> QED BY <2>1, <1>1
  <2>3. x * d < d * (a + 1)
    <3>1. d * (a + 1) \in Nat BY <1>1
    <3> HIDE DEF n, d, x
    <3> QED BY <2>2, <3>1, <1>1, <1>2
  <2>4. ASSUME x > a PROVE FALSE
    <3>1. x >= a + 1 BY <1>2, <2>4
    <3> HIDE DEF x, d
    <3>2. x * d >= (a + 1) * d BY <3>1, <1>1, <1>2
    <3> QED BY <3>2, <2>3, <1>1, <1>2
  <2> HIDE DEF x
  <2> QED BY <2>4, <1>2
<1>4. (a - x + 1) * d = (a + 1) * d - x * d
  <2> HIDE DEF x, d
  <2> QED BY <1>1, <1>2
<1>5. (a + 1) * (s - h + v) = (a + 1) * d - n
  OBVIOUS
<1>6. (a + 1) * d \in Nat BY <1>1
<1>7. (a - x + 1) * d >= (a + 1) * (s - h + v)
  <2> DEFINE p == (a + 1) * d
             y == x * d
             l == (a - x + 1) * d
             r == (a + 1) * (s - h + v)
  <2>1. l = p - y /\ r = p - n /\ y <= n /\ p \in Nat /\ y \in Nat /\ n \in Nat
    BY <1>1, <1>2, <1>4, <1>5, <1>6
  <2>2. l >= r
    <3> HIDE DEF p, y, l, r, n
    <3> QED BY <2>1
  <2> QED BY <2>2
<1> QED BY <1>2, <1>3, <1>7

\* Prices that do not fall in one step do not fall in two.
LEMMA RatioChain ==
    ASSUME NEW a1 \in Nat, NEW d1 \in Nat \ {0}, NEW a2 \in Nat, NEW d2 \in Nat \ {0},
           NEW a3 \in Nat, NEW d3 \in Nat \ {0},
           a2 * d1 >= a1 * d2, a3 * d2 >= a2 * d3
    PROVE  a3 * d1 >= a1 * d3
<1>1. (a3 * d2) * d1 >= (a2 * d3) * d1
  <2> DEFINE x == a3 * d2
             y == a2 * d3
  <2>1. x \in Nat /\ y \in Nat /\ x >= y OBVIOUS
  <2> HIDE DEF x, y
  <2> QED BY <2>1
<1>2. (a2 * d1) * d3 >= (a1 * d2) * d3
  <2> DEFINE x == a2 * d1
             y == a1 * d2
  <2>1. x \in Nat /\ y \in Nat /\ x >= y OBVIOUS
  <2> HIDE DEF x, y
  <2> QED BY <2>1
<1> DEFINE l == a3 * d1
           r == a1 * d3
<1>3. (a2 * d3) * d1 = (a2 * d1) * d3 /\ (a3 * d2) * d1 = l * d2 /\ (a1 * d2) * d3 = r * d2
  OBVIOUS
<1>4. l \in Nat /\ r \in Nat OBVIOUS
<1>5. l * d2 >= r * d2
  <2> DEFINE w == (a2 * d3) * d1
             y == l * d2
             z == r * d2
  <2>1. y >= w /\ w >= z /\ y \in Nat /\ w \in Nat /\ z \in Nat
    BY <1>1, <1>2, <1>3, <1>4
  <2>2. y >= z
    <3> HIDE DEF w, y, z
    <3> QED BY <2>1
  <2> QED BY <2>2
<1>6. l >= r
  <2> HIDE DEF l, r
  <2>1. ASSUME l < r PROVE FALSE
    <3>1. l + 1 <= r BY <2>1, <1>4
    <3>2. (l + 1) * d2 <= r * d2 BY <3>1, <1>4
    <3>3. (l + 1) * d2 = l * d2 + d2 BY <1>4
    <3>4. l * d2 \in Nat /\ r * d2 \in Nat BY <1>4
    <3> QED BY <3>2, <3>3, <3>4, <1>5
  <2> QED BY <2>1, <1>4
<1> QED BY <1>6

-----------------------------------------------------------------------------
(* The settlement recursion *)

\* g holds the pools after 0, 1, ..., m settled epochs.
SettlesUpTo(g, m) ==
    g = [n \in 0 .. m |-> IF n = 0 THEN UnsettledPool
                          ELSE SettleEpoch(g[n - 1], exitEpochQueue[nextExitEpochIndex + n])]

\* The loop of _settleMaturedExitEpochs has a result after any number of epochs.
LEMMA SettlementExists ==
    ASSUME NEW m \in Nat PROVE \E g : SettlesUpTo(g, m)
<1> DEFINE T == {k \in Nat : ~ \E g : SettlesUpTo(g, k)}
<1> SUFFICES ASSUME T # {} PROVE FALSE OBVIOUS
<1>1. PICK k \in T : \A j \in T : k <= j
  <2>1. T \subseteq Nat OBVIOUS
  <2> HIDE DEF T
  <2> QED BY <2>1, SmallestNat
<1>2. k \in Nat /\ ~ \E g : SettlesUpTo(g, k) OBVIOUS
<1> DEFINE E(p, n) == SettleEpoch(p, exitEpochQueue[nextExitEpochIndex + n])
<1>3. CASE k = 0
  <2> DEFINE g == [n \in 0 .. 0 |-> UnsettledPool]
             h == [n \in 0 .. 0 |-> IF n = 0 THEN UnsettledPool ELSE E(g[n - 1], n)]
  <2>1. g = h
    <3>1. \A n \in 0 .. 0 : n = 0 OBVIOUS
    <3> HIDE DEF E
    <3> QED BY <3>1, Zenon
  <2>2. SettlesUpTo(g, 0)
    <3>1. h = [n \in 0 .. 0 |-> IF n = 0 THEN UnsettledPool
                          ELSE SettleEpoch(g[n - 1], exitEpochQueue[nextExitEpochIndex + n])]
      OBVIOUS
    <3> HIDE DEF g, h, E
    <3> QED BY <2>1, <3>1 DEF SettlesUpTo
  <2> QED BY <2>2, <1>2, <1>3
<1>4. CASE k # 0
  <2>1. k - 1 \in Nat /\ k - 1 \notin T BY <1>1, <1>2, <1>4
  <2>2. PICK f : SettlesUpTo(f, k - 1) BY <2>1
  <2> DEFINE g == [n \in 0 .. k |-> IF n = k THEN E(f[k - 1], k) ELSE f[n]]
  <2> HIDE DEF E, T
  <2>3. \A n \in 0 .. (k - 1) : f[n] = IF n = 0 THEN UnsettledPool ELSE E(f[n - 1], n)
    BY <2>2 DEF SettlesUpTo, E
  <2>4. \A n \in 0 .. (k - 1) : g[n] = f[n] /\ n \in 0 .. k /\ n # k BY <1>2, <2>1
  <2>5. g[k] = E(f[k - 1], k) /\ g[k - 1] = f[k - 1]
    <3>1. k \in 0 .. k /\ k - 1 \in 0 .. (k - 1) BY <1>2, <2>1
    <3>2. g[k] = E(f[k - 1], k) BY <3>1
    <3> QED BY <3>1, <3>2, <2>4
  <2>6. ASSUME NEW n \in 0 .. k
        PROVE  g[n] = IF n = 0 THEN UnsettledPool ELSE E(g[n - 1], n)
    <3> HIDE DEF g
    <3>1. CASE n = k BY <3>1, <2>5, <1>4
    <3>2. CASE n # k /\ n # 0
      <4>1. n \in 0 .. (k - 1) /\ n - 1 \in 0 .. (k - 1) BY <3>2, <1>2, <2>1
      <4> QED BY <4>1, <2>3, <2>4, <3>2
    <3>3. CASE n # k /\ n = 0
      <4>1. n \in 0 .. (k - 1) BY <3>3, <2>1
      <4> QED BY <4>1, <2>3, <2>4, <3>3
    <3> QED BY <3>1, <3>2, <3>3
  <2> DEFINE B(n) == IF n = 0 THEN UnsettledPool ELSE E(g[n - 1], n)
  <2>7. g = [n \in 0 .. k |-> B(n)]
    <3>1. \A n \in 0 .. k : g[n] = B(n) BY <2>6
    <3>2. g = [n \in 0 .. k |-> g[n]] OBVIOUS
    <3> HIDE DEF g, B
    <3> QED BY <3>1, <3>2
  <2>8. SettlesUpTo(g, k)
    <3> HIDE DEF g
    <3> QED BY <2>7 DEF SettlesUpTo, E
  <2> HIDE DEF g
  <2> QED BY <2>8, <1>2
<1> QED BY <1>3, <1>4

\* Settled(n) is the pool after the first n epochs of the queue.
LEMMA SettledStep ==
    ASSUME QueueType
    PROVE  /\ Settled(0) = UnsettledPool
           /\ \A n \in 1 .. Outstanding :
                Settled(n) = SettleEpoch(Settled(n - 1), exitEpochQueue[nextExitEpochIndex + n])
<1>1. Outstanding \in Nat BY DEF QueueType, Outstanding
<1>2. SettledPools = CHOOSE g : SettlesUpTo(g, Outstanding)
  BY DEF SettledPools, SettlesUpTo
<1>3. SettlesUpTo(SettledPools, Outstanding)
  BY <1>1, <1>2, SettlementExists
<1> DEFINE B(n) == IF n = 0 THEN UnsettledPool
                   ELSE SettleEpoch(SettledPools[n - 1], exitEpochQueue[nextExitEpochIndex + n])
<1>4. SettledPools = [n \in 0 .. Outstanding |-> B(n)]
  BY <1>3 DEF SettlesUpTo
<1>5. \A n \in 0 .. Outstanding : SettledPools[n] = B(n)
  <2> HIDE DEF B
  <2> QED BY <1>4
<1>6. 0 \in 0 .. Outstanding /\ \A n \in 1 .. Outstanding : n \in 0 .. Outstanding /\ n # 0
  BY <1>1
<1> QED BY <1>5, <1>6 DEF Settled

-----------------------------------------------------------------------------
(* The parts of the queue *)

\* Taking the next epoch from the queue.
LEMMA QueueParts ==
    ASSUME QueueInv, NEW k \in 0 .. (Len(exitEpochQueue) - 1)
    PROVE  LET q == exitEpochQueue
               e == q[k + 1]
           IN  /\ e \in Epochs /\ exitEpochs[e].totalShares # 0
               /\ QueueHead(q, k + 1) = QueueHead(q, k) \cup {e} /\ e \notin QueueHead(q, k)
               /\ Behind(q, k) = Behind(q, k + 1) \cup {e} /\ e \notin Behind(q, k + 1)
<1> DEFINE q == exitEpochQueue
           e == q[k + 1]
<1>1. /\ q \in Seq(Epochs) /\ Len(q) \in Nat /\ DOMAIN q = 1 .. Len(q) /\ k \in Nat
      /\ k + 1 \in 1 .. Len(q)
  BY DEF QueueInv, QueueType
<1>2. \A j \in 1 .. Len(q) : q[j] \in Epochs /\ q[j] \in Int
  BY <1>1, PoolConstantsAssumption DEF Epochs
<1>3. \A i, j \in 1 .. Len(q) : i < j => q[i] < q[j]
  BY <1>1 DEF QueueInv, Ordered
<1>4. e \in Epochs /\ exitEpochs[e].totalShares # 0
  BY <1>1, <1>2 DEF QueueInv, JoinedIsQueued
<1>5. /\ 1 .. (k + 1) = (1 .. k) \cup {k + 1}
      /\ (k + 1) .. Len(q) = ((k + 1 + 1) .. Len(q)) \cup {k + 1}
  BY <1>1
<1>6. QueueHead(q, k + 1) = QueueHead(q, k) \cup {e} BY <1>5 DEF QueueHead
<1>7. Behind(q, k) = Behind(q, k + 1) \cup {e} BY <1>5 DEF Behind
<1>8. e \notin QueueHead(q, k)
  <2>1. \A j \in 1 .. k : j \in 1 .. Len(q) /\ j < k + 1 BY <1>1
  <2>2. \A j \in 1 .. k : q[j] # e BY <2>1, <1>1, <1>2, <1>3
  <2> QED BY <2>2 DEF QueueHead
<1>9. e \notin Behind(q, k + 1)
  <2>1. \A j \in (k + 1 + 1) .. Len(q) : j \in 1 .. Len(q) /\ k + 1 < j BY <1>1
  <2>2. \A j \in (k + 1 + 1) .. Len(q) : q[j] # e BY <2>1, <1>1, <1>2, <1>3
  <2> QED BY <2>2 DEF Behind
<1> QED BY <1>4, <1>6, <1>7, <1>8, <1>9

\* The epochs a settlement of n takes are the ones between two fronts.
LEMMA QueuedIsFront ==
    ASSUME QueueType, NEW n \in 0 .. Outstanding
    PROVE  /\ QueueHead(exitEpochQueue, nextExitEpochIndex + n) =
                QueueHead(exitEpochQueue, nextExitEpochIndex) \cup QueuedEpochs(n)
           /\ QueuedEpochs(n) \subseteq Epochs
           /\ Behind(exitEpochQueue, nextExitEpochIndex + n) \subseteq Epochs
           /\ QueueHead(exitEpochQueue, nextExitEpochIndex + n) \subseteq Epochs
           /\ SettledEpochs = QueueHead(exitEpochQueue, nextExitEpochIndex)
<1> DEFINE q == exitEpochQueue
           i == nextExitEpochIndex
<1>1. /\ Len(q) \in Nat /\ i \in Nat /\ n \in Nat /\ i + n <= Len(q) /\ q \in Seq(Epochs)
      /\ DOMAIN q = 1 .. Len(q)
  BY DEF QueueType, Outstanding
<1>2. \A j \in 1 .. Len(q) : q[j] \in Epochs BY <1>1
<1>3. /\ \A j \in 1 .. n : i + j \in 1 .. Len(q) /\ i + j \in 1 .. (i + n)
      /\ \A j \in 1 .. i : j \in 1 .. Len(q) /\ j \in 1 .. (i + n)
      /\ \A j \in (i + n + 1) .. Len(q) : j \in 1 .. Len(q)
      /\ \A j \in 1 .. (i + n) : j \in 1 .. Len(q)
      /\ \A j \in 1 .. (i + n) : j \notin 1 .. i => j - i \in 1 .. n /\ j = i + (j - i)
  BY <1>1
<1>4. QueuedEpochs(n) \subseteq Epochs /\ Behind(q, i + n) \subseteq Epochs
      /\ QueueHead(q, i + n) \subseteq Epochs
  BY <1>2, <1>3 DEF QueuedEpochs, Behind, QueueHead
<1>5. QueueHead(q, i) \cup QueuedEpochs(n) \subseteq QueueHead(q, i + n)
  BY <1>3 DEF QueuedEpochs, QueueHead
<1>6. ASSUME NEW j \in 1 .. (i + n) PROVE q[j] \in QueueHead(q, i) \cup QueuedEpochs(n)
  <2>1. CASE j \in 1 .. i BY <2>1 DEF QueueHead
  <2>2. CASE j \notin 1 .. i
    <3>1. PICK m \in 1 .. n : j = i + m BY <2>2, <1>3
    <3> QED BY <3>1 DEF QueuedEpochs
  <2> QED BY <2>1, <2>2
<1>7. QueueHead(q, i + n) \subseteq QueueHead(q, i) \cup QueuedEpochs(n)
  BY <1>6 DEF QueueHead
<1> QED BY <1>4, <1>5, <1>7 DEF SettledEpochs, QueueHead

-----------------------------------------------------------------------------
(* What settling does to the pool *)

\* The supply is a number of shares.
LEMMA SupplyNat ==
    ASSUME AccountType
    PROVE  /\ EarningShares = Total(balanceOf, Users) /\ EarningShares \in Nat
           /\ TotalSupply = EarningShares + escrowedShares /\ TotalSupply \in Nat
<1>1. EarningShares = Total(balanceOf, Users) BY DEF EarningShares, Total
<1>2. IsFiniteSet(Users) /\ \A u \in Users : balanceOf[u] \in Nat
  BY PoolConstantsAssumption DEF AccountType
<1>3. EarningShares \in Nat BY <1>1, <1>2, TotalNat
<1>4. escrowedShares \in Nat /\ TotalSupply = EarningShares + escrowedShares
  BY DEF AccountType, TotalSupply
<1> QED BY <1>1, <1>3, <1>4

\* The epochs are finitely many, and so are those of any part of the queue.
LEMMA EpochsFinite ==
    /\ IsFiniteSet(Epochs) /\ \A S \in SUBSET Epochs : IsFiniteSet(S)
<1>1. IsFiniteSet(Epochs)
  BY FS_Interval, PoolConstantsAssumption DEF Epochs
<1> QED BY <1>1, FS_Subset

\* The shares and receipts of the epochs are numbers.
LEMMA EpochAmounts ==
    ASSUME NEW epochs \in [Epochs -> EpochRecord]
    PROVE  /\ \A e \in Epochs : /\ Joined(epochs)[e] = epochs[e].totalShares
                                /\ Joined(epochs)[e] \in Nat
                                /\ Receipts(epochs)[e] = epochs[e].remainingAssets
                                /\ Receipts(epochs)[e] \in Nat
<1>1. \A e \in Epochs : epochs[e] \in EpochRecord OBVIOUS
<1>2. \A r \in EpochRecord : r.totalShares \in Nat /\ r.remainingAssets \in Nat
  BY DEF EpochRecord
<1> QED BY <1>1, <1>2 DEF Joined, Receipts

\* The pool p after the first n outstanding epochs: nothing is created or lost
\* between capital and reserve, the supply is what is left, and the price of a
\* share has not fallen.
PoolAfter(n, p) ==
    /\ p.assets \in Nat /\ p.supply \in Nat /\ p.reserve \in Nat
    /\ p.price \in [Epochs -> Nat]
    /\ \A e \in Epochs : e \notin QueuedEpochs(n) => p.price[e] = 0
    /\ p.assets <= accountedAssets
    /\ p.assets + p.reserve = accountedAssets + withdrawalReserve
    /\ p.reserve = withdrawalReserve + Total(p.price, Epochs)
    /\ p.supply = EarningShares
                    + Total(Joined(exitEpochs), Behind(exitEpochQueue, nextExitEpochIndex + n))
    /\ p.supply = 0 \/ (p.assets + 1) * (TotalSupply + VirtualShares)
                          >= (accountedAssets + 1) * (p.supply + VirtualShares)

\* Before anything is settled.
LEMMA UnsettledPoolAfter ==
    ASSUME AccountInv PROVE PoolAfter(0, UnsettledPool)
<1> DEFINE z == [e \in Epochs |-> 0]
           p == UnsettledPool
<1>1. /\ p.assets = accountedAssets /\ p.supply = TotalSupply
      /\ p.reserve = withdrawalReserve /\ p.price = z
  BY DEF UnsettledPool
<1>2. /\ accountedAssets \in Nat /\ withdrawalReserve \in Nat
      /\ TotalSupply \in Nat /\ TotalSupply = EarningShares + escrowedShares
  BY SupplyNat DEF AccountInv, AccountType
<1>3. z \in [Epochs -> Nat] /\ \A e \in Epochs : z[e] = 0 OBVIOUS
<1> HIDE DEF z, p
<1>4. Total(z, Epochs) = 0
  <2>1. IsFiniteSet(Epochs) BY EpochsFinite
  <2> QED BY <2>1, <1>3, TotalZero
<1>5. nextExitEpochIndex + 0 = nextExitEpochIndex BY DEF AccountInv, QueueInv, QueueType
<1>6. escrowedShares = Total(Joined(exitEpochs), Behind(exitEpochQueue, nextExitEpochIndex + 0))
  BY <1>5 DEF AccountInv, EscrowIsQueued
<1>7. (accountedAssets + 1) * (TotalSupply + VirtualShares)
        >= (accountedAssets + 1) * (TotalSupply + VirtualShares)
  BY <1>2, PoolConstantsAssumption
<1>8. p.reserve = withdrawalReserve + Total(p.price, Epochs) BY <1>1, <1>2, <1>4
<1>9. p.assets <= accountedAssets /\ p.assets + p.reserve = accountedAssets + withdrawalReserve
  BY <1>1, <1>2
<1>10. PoolAfter(0, p)
  BY <1>1, <1>2, <1>3, <1>6, <1>7, <1>8, <1>9, Zenon DEF PoolAfter
<1> QED BY <1>10 DEF p

\* One more epoch: its shares are burned, and their value moves from the
\* capital to the reserve.
LEMMA SettleEpochAfter ==
    ASSUME AccountInv, NEW n \in 0 .. (Outstanding - 1), NEW p, PoolAfter(n, p)
    PROVE  PoolAfter(n + 1, SettleEpoch(p, exitEpochQueue[nextExitEpochIndex + (n + 1)]))
<1> DEFINE k == nextExitEpochIndex + n
           e == exitEpochQueue[nextExitEpochIndex + (n + 1)]
           h == exitEpochs[e].totalShares
           x == ExitPrice(h, p)
           r == SettleEpoch(p, e)
           J == Joined(exitEpochs)
           B(i) == Behind(exitEpochQueue, i)
<1>1. /\ k \in 0 .. (Len(exitEpochQueue) - 1) /\ n \in 0 .. Outstanding
      /\ n + 1 \in 0 .. Outstanding
      /\ k + 1 = nextExitEpochIndex + (n + 1)
  BY DEF AccountInv, QueueInv, QueueType, Outstanding
<1>2. /\ e \in Epochs /\ h # 0
      /\ B(k) = B(k + 1) \cup {e} /\ e \notin B(k + 1)
      /\ QueueHead(exitEpochQueue, k + 1) = QueueHead(exitEpochQueue, k) \cup {e}
      /\ e \notin QueueHead(exitEpochQueue, k)
  <2>1. QueueInv BY DEF AccountInv
  <2> QED BY <1>1, <2>1, QueueParts
<1>3. QueuedEpochs(n + 1) = QueuedEpochs(n) \cup {e} /\ e \notin QueuedEpochs(n)
  <2>1. QueueType BY DEF AccountInv, QueueInv
  <2>2. QueueHead(exitEpochQueue, k) = QueueHead(exitEpochQueue, nextExitEpochIndex) \cup QueuedEpochs(n)
    BY <2>1, <1>1, QueuedIsFront
  <2>3. 1 .. (n + 1) = (1 .. n) \cup {n + 1} BY <1>1
  <2>4. QueuedEpochs(n + 1) = QueuedEpochs(n) \cup {e} BY <2>3 DEF QueuedEpochs
  <2> QED BY <2>2, <2>4, <1>2
<1>4. /\ \A y \in Epochs : J[y] = exitEpochs[y].totalShares /\ J[y] \in Nat
      /\ B(k) \subseteq Epochs /\ B(k + 1) \subseteq Epochs
  <2>1. QueueType /\ exitEpochs \in [Epochs -> EpochRecord]
    BY DEF AccountInv, QueueInv, AccountType
  <2>2. B(k) \subseteq Epochs /\ B(k + 1) \subseteq Epochs
    BY <2>1, <1>1, QueuedIsFront
  <2> QED BY <2>1, <2>2, EpochAmounts
<1>5. Total(J, B(k)) = h + Total(J, B(k + 1)) /\ Total(J, B(k + 1)) \in Nat
  <2>1. IsFiniteSet(B(k + 1)) BY <1>4, EpochsFinite
  <2>2. \A y \in B(k + 1) \cup {e} : J[y] \in Int BY <1>2, <1>4
  <2>3. \A y \in B(k + 1) : J[y] \in Nat BY <1>4
  <2>4. J[e] = h BY <1>2, <1>4
  <2> HIDE DEF J, e, h, B
  <2>5. Total(J, B(k + 1) \cup {e}) = J[e] + Total(J, B(k + 1)) BY <1>2, <2>1, <2>2, TotalAdd
  <2> QED BY <2>1, <2>3, <2>4, <2>5, <1>2, TotalNat
<1>6. /\ p.assets \in Nat /\ p.supply \in Nat /\ p.reserve \in Nat /\ p.price \in [Epochs -> Nat]
      /\ p.supply = EarningShares + Total(J, B(k)) /\ EarningShares \in Nat
      /\ accountedAssets \in Nat /\ withdrawalReserve \in Nat /\ TotalSupply \in Nat
      /\ h \in Nat /\ VirtualShares \in Nat \ {0}
  BY <1>2, <1>4, SupplyNat, PoolConstantsAssumption DEF PoolAfter, AccountInv, AccountType
<1>7. h <= p.supply /\ p.supply - h = EarningShares + Total(J, B(k + 1)) /\ p.supply # 0
      /\ p.supply - h \in Nat
  <2> HIDE DEF J, B, h, k
  <2> QED BY <1>2, <1>5, <1>6
<1>8. /\ x \in Nat /\ x <= p.assets
      /\ p.supply - h = 0 \/ (p.assets - x + 1) * (p.supply + VirtualShares)
                                >= (p.assets + 1) * (p.supply - h + VirtualShares)
  <2>1. CASE h = p.supply
    <3>1. x = p.assets BY <2>1 DEF ExitPrice
    <3> HIDE DEF x, h
    <3> QED BY <3>1, <2>1, <1>6
  <2>2. CASE h # p.supply
    <3>1. x = (h * (p.assets + 1)) \div (p.supply + VirtualShares)
      BY <2>2 DEF ExitPrice, ToAssets
    <3> HIDE DEF x, h
    <3>2. PICK a \in Nat, s \in Nat : a = p.assets /\ s = p.supply BY <1>6
    <3>3. LET y == (h * (a + 1)) \div (s + VirtualShares)
          IN  y \in Nat /\ y <= a
              /\ (a - y + 1) * (s + VirtualShares) >= (a + 1) * (s - h + VirtualShares)
      BY <1>6, <1>7, <3>2, FloorPayout
    <3> QED BY <3>1, <3>2, <3>3
  <2> QED BY <2>1, <2>2
<1>9. /\ r.assets = p.assets - x /\ r.supply = p.supply - h /\ r.reserve = p.reserve + x
      /\ r.price = [p.price EXCEPT ![e] = x]
  BY DEF SettleEpoch
<1> HIDE DEF x, r, h, J, B
<1>10. /\ r.price \in [Epochs -> Nat] /\ r.price[e] = x
       /\ \A y \in Epochs : y # e => r.price[y] = p.price[y]
  BY <1>2, <1>6, <1>8, <1>9
<1>11. \A y \in Epochs : y \notin QueuedEpochs(n + 1) => r.price[y] = 0
  BY <1>3, <1>10 DEF PoolAfter
<1>12. Total(r.price, Epochs) = Total(p.price, Epochs) + x /\ Total(p.price, Epochs) \in Nat
  <2>1. p.price[e] = 0 BY <1>2, <1>3 DEF PoolAfter
  <2>2. IsFiniteSet(Epochs) BY EpochsFinite
  <2> DEFINE f == p.price
             g == r.price
  <2>3. /\ \A y \in Epochs : f[y] \in Int /\ g[y] \in Int /\ f[y] \in Nat
        /\ \A y \in Epochs : y # e => g[y] = f[y]
        /\ f[e] = 0 /\ g[e] = x
    BY <1>6, <1>10, <2>1
  <2> HIDE DEF f, g, e
  <2>4. Total(g, Epochs) = Total(f, Epochs) - f[e] + g[e] BY <1>2, <2>2, <2>3, TotalChange
  <2>5. Total(f, Epochs) \in Nat BY <2>2, <2>3, TotalNat
  <2>6. Total(g, Epochs) = Total(f, Epochs) + x BY <2>3, <2>4, <2>5, <1>8
  <2> QED BY <2>5, <2>6 DEF f, g
<1>13. /\ r.assets \in Nat /\ r.supply \in Nat /\ r.reserve \in Nat
       /\ r.assets <= accountedAssets
       /\ r.assets + r.reserve = accountedAssets + withdrawalReserve
  <2>1. p.assets <= accountedAssets /\ p.assets + p.reserve = accountedAssets + withdrawalReserve
    BY DEF PoolAfter
  <2> QED BY <2>1, <1>6, <1>7, <1>8, <1>9
<1>14. r.reserve = withdrawalReserve + Total(r.price, Epochs)
  <2>1. p.reserve = withdrawalReserve + Total(p.price, Epochs)
    BY DEF PoolAfter
  <2> DEFINE f == Total(p.price, Epochs)
             g == Total(r.price, Epochs)
  <2>2. g = f + x /\ f \in Nat /\ p.reserve = withdrawalReserve + f BY <2>1, <1>12
  <2>3. r.reserve = withdrawalReserve + g
    <3> HIDE DEF f, g
    <3> QED BY <2>2, <1>6, <1>8, <1>9
  <2> QED BY <2>3
<1>15. r.supply = EarningShares + Total(J, B(nextExitEpochIndex + (n + 1)))
  BY <1>1, <1>7, <1>9
<1>16. r.supply = 0 \/ (r.assets + 1) * (TotalSupply + VirtualShares)
                          >= (accountedAssets + 1) * (r.supply + VirtualShares)
  <2> SUFFICES ASSUME r.supply # 0
               PROVE  (r.assets + 1) * (TotalSupply + VirtualShares)
                          >= (accountedAssets + 1) * (r.supply + VirtualShares)
    OBVIOUS
  <2> DEFINE a1 == accountedAssets + 1
             d1 == TotalSupply + VirtualShares
             a2 == p.assets + 1
             d2 == p.supply + VirtualShares
             a3 == r.assets + 1
             d3 == r.supply + VirtualShares
  <2>1. /\ a1 \in Nat /\ a2 \in Nat /\ a3 \in Nat /\ d1 \in Nat \ {0} /\ d2 \in Nat \ {0}
        /\ d3 \in Nat \ {0}
    BY <1>6, <1>13
  <2>2. a2 * d1 >= a1 * d2 BY <1>7 DEF PoolAfter
  <2>3. a3 * d2 >= a2 * d3
    <3>1. p.supply - h # 0 BY <1>9
    <3>2. (p.assets - x + 1) * (p.supply + VirtualShares)
                                >= (p.assets + 1) * (p.supply - h + VirtualShares)
      BY <3>1, <1>8
    <3> QED BY <3>2, <1>9
  <2> HIDE DEF a1, a2, a3, d1, d2, d3
  <2>4. a3 * d1 >= a1 * d3 BY <2>1, <2>2, <2>3, RatioChain
  <2> QED BY <2>4 DEF a1, a3, d1, d3
<1>17. PoolAfter(n + 1, r)
  BY <1>10, <1>11, <1>13, <1>14, <1>15, <1>16 DEF PoolAfter, J, B
<1> QED BY <1>17 DEF r

\* After any number of epochs.
LEMMA SettledAfter ==
    ASSUME AccountInv, NEW n \in 0 .. Outstanding
    PROVE  PoolAfter(n, Settled(n))
<1> DEFINE T == {m \in 0 .. Outstanding : ~PoolAfter(m, Settled(m))}
<1> SUFFICES ASSUME T # {} PROVE FALSE OBVIOUS
<1>1. Outstanding \in Nat /\ QueueType
  BY DEF AccountInv, QueueInv, QueueType, Outstanding
<1>2. PICK m \in T : \A j \in T : m <= j
  <2>1. T \subseteq Nat BY <1>1
  <2> HIDE DEF T
  <2> QED BY <2>1, SmallestNat
<1>3. m \in 0 .. Outstanding /\ ~PoolAfter(m, Settled(m)) OBVIOUS
<1>4. m # 0 BY <1>1, <1>3, SettledStep, UnsettledPoolAfter
<1>5. m - 1 \in 0 .. (Outstanding - 1) /\ m - 1 \in 0 .. Outstanding /\ m \in 1 .. Outstanding
      /\ ~(m <= m - 1) /\ (m - 1) + 1 = m
  BY <1>1, <1>3, <1>4
<1>6. PoolAfter(m - 1, Settled(m - 1))
  <2>1. m - 1 \notin T
    <3> HIDE DEF T
    <3> QED BY <1>2, <1>5
  <2> QED BY <2>1, <1>5
<1>7. PoolAfter(m, SettleEpoch(Settled(m - 1), exitEpochQueue[nextExitEpochIndex + m]))
  <2>1. PoolAfter((m - 1) + 1, SettleEpoch(Settled(m - 1),
                                exitEpochQueue[nextExitEpochIndex + ((m - 1) + 1)]))
    BY <1>5, <1>6, SettleEpochAfter
  <2> QED BY <2>1, <1>5
<1>8. Settled(m) = SettleEpoch(Settled(m - 1), exitEpochQueue[nextExitEpochIndex + m])
  BY <1>1, <1>5, SettledStep
<1> QED BY <1>3, <1>7, <1>8

\* The epochs about to be priced have shares and no receipts yet.
LEMMA QueuedAreUnpriced ==
    ASSUME AccountInv, NEW n \in 0 .. Outstanding, NEW e \in QueuedEpochs(n)
    PROVE  /\ e \notin QueueHead(exitEpochQueue, nextExitEpochIndex)
           /\ exitEpochs[e].totalShares # 0
           /\ exitEpochs[e].remainingShares = 0 /\ exitEpochs[e].remainingAssets = 0
<1> DEFINE q == exitEpochQueue
           i == nextExitEpochIndex
<1>1. /\ Len(q) \in Nat /\ i \in Nat /\ n \in Nat /\ i + n <= Len(q) /\ q \in Seq(Epochs)
      /\ DOMAIN q = 1 .. Len(q)
  BY DEF AccountInv, QueueInv, QueueType, Outstanding
<1>2. PICK m \in 1 .. n : e = q[i + m] BY DEF QueuedEpochs
<1>3. i + m \in 1 .. Len(q) /\ \A j \in 1 .. i : j \in 1 .. Len(q) /\ j < i + m BY <1>1
<1>4. \A j \in 1 .. Len(q) : q[j] \in Epochs /\ q[j] \in Int
  BY <1>1, PoolConstantsAssumption DEF Epochs
<1>5. \A j \in 1 .. i : q[j] < e
  BY <1>1, <1>2, <1>3 DEF AccountInv, QueueInv, Ordered
<1>6. e \notin QueueHead(q, i) BY <1>2, <1>3, <1>4, <1>5 DEF QueueHead
<1>7. e \in Epochs /\ exitEpochs[e].totalShares # 0
  BY <1>1, <1>2, <1>3, <1>4 DEF AccountInv, QueueInv, JoinedIsQueued
<1> QED BY <1>6, <1>7 DEF AccountInv, ReserveIsOwed, ReceiptsArePriced

\* The epochs after a settlement: the receipts are worth the new reserve.
LEMMA PricedEpochs ==
    ASSUME AccountInv, NEW n \in 0 .. Outstanding
    PROVE  LET pool   == Settled(n)
               epochs == EpochsPriced(n, pool)
           IN  /\ epochs \in [Epochs -> EpochRecord]
               /\ Joined(epochs) = Joined(exitEpochs)
               /\ Total(Receipts(epochs), Epochs) = pool.reserve
               /\ ReceiptsArePriced(epochs, QueueHead(exitEpochQueue, nextExitEpochIndex + n))
<1> DEFINE pool == Settled(n)
           epochs == EpochsPriced(n, pool)
           S == QueuedEpochs(n)
           price == pool.price
<1>1. PoolAfter(n, pool) BY SettledAfter
<1> HIDE DEF pool
<1>2. price \in [Epochs -> Nat] /\ \A e \in Epochs : e \notin S => price[e] = 0
  BY <1>1 DEF PoolAfter
<1>3. exitEpochs \in [Epochs -> EpochRecord] BY DEF AccountInv, AccountType
<1>4. ASSUME NEW e \in S
      PROVE  /\ epochs[e] \in EpochRecord /\ epochs[e].totalShares = exitEpochs[e].totalShares
             /\ epochs[e].remainingShares # 0 /\ epochs[e].remainingAssets = price[e]
             /\ exitEpochs[e].remainingAssets = 0
  <2>1. e \in Epochs
    <3>1. QueueType BY DEF AccountInv, QueueInv
    <3> QED BY <3>1, QueuedIsFront
  <2> DEFINE s == exitEpochs[e].totalShares
             v == price[e]
  <2>2. s \in Nat /\ v \in Nat /\ s # 0 /\ exitEpochs[e].remainingAssets = 0
    <3>1. Joined(exitEpochs)[e] = s /\ Joined(exitEpochs)[e] \in Nat BY <1>3, <2>1, EpochAmounts
    <3> QED BY <3>1, <2>1, <1>2, QueuedAreUnpriced
  <2>3. epochs[e] = [totalShares |-> s, totalAssets |-> v,
                     remainingShares |-> s, remainingAssets |-> v]
    BY <2>1 DEF EpochsPriced
  <2> HIDE DEF s, v, epochs
  <2>4. /\ epochs[e] \in EpochRecord /\ epochs[e].totalShares = s
        /\ epochs[e].remainingShares = s /\ epochs[e].remainingAssets = v
    BY <2>2, <2>3 DEF EpochRecord
  <2> QED BY <2>2, <2>4 DEF s, v
<1>5. ASSUME NEW e \in Epochs, e \notin S
      PROVE  epochs[e] = exitEpochs[e] /\ price[e] = 0
  BY <1>5, <1>2 DEF EpochsPriced
<1>6. epochs = [e \in Epochs |-> epochs[e]]
  BY DEF EpochsPriced
<1> HIDE DEF epochs, S, price
<1>7. epochs \in [Epochs -> EpochRecord]
  <2>1. \A e \in Epochs : epochs[e] \in EpochRecord BY <1>3, <1>4, <1>5
  <2> QED BY <2>1, <1>6
<1>8. \A e \in Epochs : epochs[e].totalShares = exitEpochs[e].totalShares BY <1>4, <1>5
<1>9. Joined(epochs) = Joined(exitEpochs) BY <1>8 DEF Joined
<1>10. Total(Receipts(epochs), Epochs) = pool.reserve
  <2> DEFINE f == Receipts(exitEpochs)
             h == Receipts(epochs)
  <2>1. \A e \in Epochs : /\ f[e] = exitEpochs[e].remainingAssets /\ f[e] \in Nat
                          /\ h[e] = epochs[e].remainingAssets /\ h[e] \in Nat
    BY <1>3, <1>7, EpochAmounts
  <2>2. \A e \in Epochs : price[e] \in Nat BY <1>2
  <2>3. \A e \in Epochs : f[e] \in Int /\ price[e] \in Int /\ h[e] = f[e] + price[e]
    BY <2>1, <2>2, <1>4, <1>5
  <2>4. IsFiniteSet(Epochs) BY EpochsFinite
  <2> HIDE DEF f, h
  <2>5. Total(h, Epochs) = Total(f, Epochs) + Total(price, Epochs)
    BY <2>3, <2>4, TotalPlus
  <2>6. withdrawalReserve = Total(f, Epochs) BY DEF AccountInv, ReserveIsOwed, f
  <2>7. pool.reserve = withdrawalReserve + Total(price, Epochs) BY <1>1 DEF PoolAfter, price
  <2> QED BY <2>5, <2>6, <2>7 DEF h
<1>11. ReceiptsArePriced(epochs, QueueHead(exitEpochQueue, nextExitEpochIndex + n))
  <2>1. QueueType BY DEF AccountInv, QueueInv
  <2>2. QueueHead(exitEpochQueue, nextExitEpochIndex + n) =
          QueueHead(exitEpochQueue, nextExitEpochIndex) \cup S
    BY <2>1, QueuedIsFront DEF S
  <2>3. ReceiptsArePriced(exitEpochs, QueueHead(exitEpochQueue, nextExitEpochIndex))
    BY DEF AccountInv, ReserveIsOwed
  <2> QED BY <2>2, <2>3, <1>4, <1>5 DEF ReceiptsArePriced
<1> QED BY <1>7, <1>9, <1>10, <1>11 DEF epochs, pool

\* The escrow that is left after a settlement.
LEMMA EscrowLeft ==
    ASSUME AccountInv, NEW n \in 0 .. Outstanding
    PROVE  LET left == escrowedShares - (TotalSupply - Settled(n).supply)
           IN  /\ left \in Nat
               /\ left = Total(Joined(exitEpochs), Behind(exitEpochQueue, nextExitEpochIndex + n))
               /\ Settled(n).supply = EarningShares + left
<1> DEFINE B == Behind(exitEpochQueue, nextExitEpochIndex + n)
           J == Joined(exitEpochs)
<1>1. Settled(n).supply = EarningShares + Total(J, B)
  BY SettledAfter DEF PoolAfter
<1>2. TotalSupply = EarningShares + escrowedShares /\ EarningShares \in Nat
      /\ escrowedShares \in Nat
  BY SupplyNat DEF AccountInv, AccountType
<1>3. Total(J, B) \in Nat
  <2>1. QueueType /\ exitEpochs \in [Epochs -> EpochRecord]
    BY DEF AccountInv, QueueInv, AccountType
  <2>2. B \subseteq Epochs BY <2>1, QueuedIsFront
  <2>3. \A e \in B : J[e] \in Nat BY <2>1, <2>2, EpochAmounts
  <2>4. IsFiniteSet(B) BY <2>2, EpochsFinite
  <2> HIDE DEF B, J
  <2> QED BY <2>3, <2>4, TotalNat
<1> HIDE DEF B, J
<1>4. LET left == escrowedShares - (TotalSupply - Settled(n).supply)
      IN  left \in Nat /\ left = Total(J, B) /\ Settled(n).supply = EarningShares + left
  BY <1>1, <1>2, <1>3
<1> QED BY <1>4 DEF B, J

-----------------------------------------------------------------------------
(* The steps *)

\* A step that leaves the exits alone keeps the books if it keeps the tokens.
LEMMA ExitsUntouched ==
    ASSUME AccountInv, QueueInv', AccountType', PoolBacked', UNCHANGED exitVars
    PROVE  AccountInv'
<1>1. /\ exitRequests' = exitRequests /\ exitEpochs' = exitEpochs
      /\ exitEpochQueue' = exitEpochQueue /\ nextExitEpochIndex' = nextExitEpochIndex
      /\ withdrawalReserve' = withdrawalReserve /\ escrowedShares' = escrowedShares
  BY DEF exitVars
<1>2. RequestsHaveEpochs' /\ QueuedWhenJoined'
  BY <1>1 DEF AccountInv, RequestsHaveEpochs, QueuedWhenJoined
<1>3. EscrowIsQueued' /\ ReserveIsOwed'
  BY <1>1 DEF AccountInv, EscrowIsQueued, ReserveIsOwed
<1> QED BY <1>2, <1>3 DEF AccountInv

\* What PoolBacked says of the two tokens, when they differ and when they are one.
LEMMA BackedByCases ==
    ASSUME NEW h \in [Tokens -> Nat], NEW a \in Nat, NEW w \in Nat, NEW r \in Nat
    PROVE  (\A t \in Tokens : h[t] >= (IF t = Asset THEN a + w ELSE 0)
                                        + (IF t = Usd8 THEN r ELSE 0))
             <=> IF Asset = Usd8 THEN h[Asset] >= a + w + r
                 ELSE h[Asset] >= a + w /\ h[Usd8] >= r
<1>1. Asset \in Tokens /\ Usd8 \in Tokens /\ \A t \in Tokens : t = Asset \/ t = Usd8
  BY DEF Tokens
<1>2. h[Asset] \in Nat /\ h[Usd8] \in Nat BY <1>1
<1>3. CASE Asset = Usd8 BY <1>1, <1>2, <1>3
<1>4. CASE Asset # Usd8 BY <1>1, <1>2, <1>4
<1> QED BY <1>3, <1>4

\* settleMaturedExitEpochs moves value from the capital to the reserve.
LEMMA SettleQueueAccount ==
    ASSUME AccountInv, NEW n \in 0 .. Outstanding, SettleQueue(n), QueueInv',
           frozen' \in BOOLEAN
    PROVE  AccountInv'
<1> DEFINE pool == Settled(n)
           epochs == EpochsPriced(n, pool)
           k == nextExitEpochIndex + n
           left == escrowedShares - (TotalSupply - pool.supply)
<1>1. /\ exitEpochs' = epochs /\ nextExitEpochIndex' = k /\ exitEpochQueue' = exitEpochQueue
      /\ accountedAssets' = pool.assets /\ withdrawalReserve' = pool.reserve
      /\ escrowedShares' = left
      /\ UNCHANGED <<held, balanceOf, exitRequests, rewardReserve>>
  BY DEF SettleQueue
<1>2. /\ epochs \in [Epochs -> EpochRecord]
      /\ Joined(epochs) = Joined(exitEpochs)
      /\ Total(Receipts(epochs), Epochs) = pool.reserve
      /\ ReceiptsArePriced(epochs, QueueHead(exitEpochQueue, k))
  BY PricedEpochs
<1>3. /\ left \in Nat /\ left = Total(Joined(exitEpochs), Behind(exitEpochQueue, k))
  BY EscrowLeft
<1>4. /\ pool.assets \in Nat /\ pool.reserve \in Nat
      /\ pool.assets + pool.reserve = accountedAssets + withdrawalReserve
  BY SettledAfter DEF PoolAfter
<1> HIDE DEF pool, epochs, k, left
<1>5. AccountType'
  BY <1>1, <1>2, <1>3, <1>4 DEF AccountInv, AccountType
<1>6. RequestsHaveEpochs' BY <1>1 DEF AccountInv, RequestsHaveEpochs
<1>7. QueuedWhenJoined'
  <2>1. \A e \in Epochs : epochs[e].totalShares = exitEpochs[e].totalShares
    <3>1. \A e \in Epochs : Joined(epochs)[e] = epochs[e].totalShares
                            /\ Joined(exitEpochs)[e] = exitEpochs[e].totalShares
      BY DEF Joined
    <3> QED BY <3>1, <1>2
  <2> QED BY <2>1, <1>1 DEF AccountInv, QueuedWhenJoined
<1>8. EscrowIsQueued' BY <1>1, <1>2, <1>3 DEF EscrowIsQueued
<1>9. ReserveIsOwed' BY <1>1, <1>2 DEF ReserveIsOwed
<1>10. PoolBacked'
  <2>1. \A t \in Tokens : (IF t = Asset THEN pool.assets + pool.reserve ELSE 0) =
                          (IF t = Asset THEN accountedAssets + withdrawalReserve ELSE 0)
    BY <1>4
  <2> QED BY <2>1, <1>1 DEF AccountInv, PoolBacked
<1> QED BY <1>5, <1>6, <1>7, <1>8, <1>9, <1>10 DEF AccountInv

\* completeRedeem pays a receipt out of the reserve, after settling if it has to.
LEMMA CompleteRedeemAccount ==
    ASSUME AccountInv, NEW u \in Users, CompleteRedeem(u), QueueInv'
    PROVE  AccountInv'
<1> DEFINE e == exitRequests[u].exitEpoch
           shares == exitRequests[u].shares
<1>1. PICK n \in 0 .. Outstanding :
        LET pool   == Settled(n)
            epochs == EpochsPriced(n, pool)
            assets == ReceiptValue(epochs[e], shares)
        IN  /\ ReceiptCovered(shares, epochs[e], pool)
            /\ exitEpochs' = [epochs EXCEPT ![e] = Collected(epochs[e], shares)]
            /\ nextExitEpochIndex' = nextExitEpochIndex + n
            /\ accountedAssets' = pool.assets
            /\ withdrawalReserve' = pool.reserve - assets
            /\ escrowedShares' = escrowedShares - (TotalSupply - pool.supply)
            /\ held' = [held EXCEPT ![Asset] = @ - assets]
  BY DEF CompleteRedeem
<1> DEFINE pool == Settled(n)
           epochs == EpochsPriced(n, pool)
           k == nextExitEpochIndex + n
           left == escrowedShares - (TotalSupply - pool.supply)
           r == epochs[e]
           v == ReceiptValue(r, shares)
<1>2. /\ shares # 0 /\ exitRequests' = [exitRequests EXCEPT ![u] = NoExit]
      /\ UNCHANGED <<frozen, balanceOf, exitEpochQueue, rewardReserve>>
  BY DEF CompleteRedeem, envVars
<1>3. /\ epochs \in [Epochs -> EpochRecord]
      /\ Joined(epochs) = Joined(exitEpochs)
      /\ Total(Receipts(epochs), Epochs) = pool.reserve
      /\ ReceiptsArePriced(epochs, QueueHead(exitEpochQueue, k))
  BY PricedEpochs
<1>4. /\ left \in Nat /\ left = Total(Joined(exitEpochs), Behind(exitEpochQueue, k))
  BY EscrowLeft
<1>5. /\ pool.assets \in Nat /\ pool.reserve \in Nat
      /\ pool.assets + pool.reserve = accountedAssets + withdrawalReserve
  BY SettledAfter DEF PoolAfter
<1>6. e \in Epochs /\ shares \in Nat
  BY <1>2 DEF AccountInv, AccountType, RequestsHaveEpochs
<1>7. /\ shares <= r.remainingShares /\ v <= r.remainingAssets /\ v <= pool.reserve
      /\ v <= held[Asset]
  BY <1>1 DEF ReceiptCovered
<1>8. exitEpochs' = [epochs EXCEPT ![e] = Collected(r, shares)]
  BY <1>1
<1>9. /\ nextExitEpochIndex' = k /\ accountedAssets' = pool.assets
      /\ withdrawalReserve' = pool.reserve - v /\ escrowedShares' = left
      /\ held' = [held EXCEPT ![Asset] = @ - v]
  BY <1>1
<1> HIDE DEF pool, epochs, k, left, e, shares
<1>10. r \in EpochRecord BY <1>3, <1>6
<1>11. /\ r.totalShares \in Nat /\ r.totalAssets \in Nat /\ r.remainingShares \in Nat
       /\ r.remainingAssets \in Nat
  <2> HIDE DEF r
  <2> QED BY <1>10 DEF EpochRecord
<1>12. v \in Nat
  <2>1. CASE shares = r.remainingShares
    <3>1. v = r.remainingAssets BY <2>1 DEF ReceiptValue
    <3> QED BY <3>1, <1>11
  <2>2. CASE shares # r.remainingShares
    <3>0. v = (r.totalAssets * shares) \div r.totalShares BY <2>2 DEF ReceiptValue
    <3>1. r.remainingShares # 0 BY <2>2, <1>6, <1>7, <1>11
    <3>2. r.totalShares > 0
      <4>1. e \in QueueHead(exitEpochQueue, k) BY <3>1, <1>3, <1>6 DEF ReceiptsArePriced
      <4>2. exitEpochs[e].totalShares # 0
        <5>1. QueueType BY DEF AccountInv, QueueInv
        <5>2. k \in 0 .. Len(exitEpochQueue) BY <5>1 DEF QueueType, Outstanding, k
        <5>3. DOMAIN exitEpochQueue = 1 .. Len(exitEpochQueue)
              /\ \A j \in 1 .. k : j \in 1 .. Len(exitEpochQueue)
          BY <5>1, <5>2 DEF QueueType
        <5>4. PICK j \in 1 .. k : e = exitEpochQueue[j] BY <4>1 DEF QueueHead
        <5> QED BY <5>3, <5>4 DEF AccountInv, QueueInv, JoinedIsQueued
      <4>3. Joined(epochs)[e] = r.totalShares /\ Joined(exitEpochs)[e] = exitEpochs[e].totalShares
        BY <1>6 DEF Joined
      <4>4. r.totalShares # 0 BY <4>2, <4>3, <1>3
      <4> QED BY <4>4, <1>11
    <3> DEFINE x == r.totalAssets * shares
               d == r.totalShares
    <3>3. x \in Nat /\ d \in Nat /\ d > 0 BY <3>2, <1>6, <1>11
    <3>4. x \div d \in Nat
      <4> HIDE DEF x, d
      <4> QED BY <3>3, Z3
    <3> QED BY <3>0, <3>4
  <2> QED BY <2>1, <2>2
<1> DEFINE c == Collected(r, shares)
<1>13. /\ c \in EpochRecord /\ c.totalShares = r.totalShares
       /\ c.remainingShares = r.remainingShares - shares
       /\ c.remainingAssets = r.remainingAssets - v
  <2> DEFINE rs == r.remainingShares - shares
             ra == r.remainingAssets - v
  <2>1. c = [totalShares |-> r.totalShares, totalAssets |-> r.totalAssets,
             remainingShares |-> rs, remainingAssets |-> ra]
    BY DEF Collected
  <2>2. rs \in Nat /\ ra \in Nat
    <3> HIDE DEF v, r
    <3> QED BY <1>6, <1>7, <1>11, <1>12
  <2>3. c \in EpochRecord /\ c.totalShares = r.totalShares /\ c.remainingShares = rs
        /\ c.remainingAssets = ra
    <3> HIDE DEF c, rs, ra, v, r
    <3> QED BY <2>1, <2>2, <1>11 DEF EpochRecord
  <2> QED BY <2>3
<1>14. c.remainingShares = 0 => c.remainingAssets = 0
  <2> SUFFICES ASSUME c.remainingShares = 0 PROVE c.remainingAssets = 0 OBVIOUS
  <2>1. shares = r.remainingShares
    <3> HIDE DEF c, r
    <3> QED BY <1>6, <1>11, <1>13
  <2>2. v = r.remainingAssets BY <2>1 DEF ReceiptValue
  <2> HIDE DEF c, v, r
  <2> QED BY <2>2, <1>11, <1>13
<1> HIDE DEF c, v
<1>15. /\ exitEpochs' \in [Epochs -> EpochRecord] /\ exitEpochs'[e] = c
       /\ \A x \in Epochs : x # e => exitEpochs'[x] = epochs[x]
  BY <1>3, <1>6, <1>8, <1>13 DEF c
<1>16. \A x \in Epochs : exitEpochs'[x].totalShares = epochs[x].totalShares
  BY <1>13, <1>15
<1>17. Joined(exitEpochs') = Joined(exitEpochs)
  <2>1. Joined(exitEpochs') = Joined(epochs) BY <1>16 DEF Joined
  <2> QED BY <2>1, <1>3
<1>18. Asset \in Tokens /\ held \in [Tokens -> Nat] /\ held[Asset] \in Nat
  BY DEF Tokens, AccountInv, AccountType
<1>19. /\ held' \in [Tokens -> Nat] /\ held'[Asset] = held[Asset] - v
       /\ \A t \in Tokens : t # Asset => held'[t] = held[t]
  <2>1. held[Asset] - v \in Nat BY <1>7, <1>12, <1>18
  <2> QED BY <2>1, <1>9, <1>18
<1>20. AccountType'
  <2>1. exitRequests' \in [Users -> [shares : Nat, exitEpoch : Nat]]
    <3>1. NoExit \in [shares : Nat, exitEpoch : Nat] BY DEF NoExit
    <3> QED BY <3>1, <1>2 DEF AccountInv, AccountType
  <2>2. withdrawalReserve' \in Nat BY <1>5, <1>7, <1>9, <1>12
  <2> QED BY <2>1, <2>2, <1>2, <1>4, <1>5, <1>9, <1>15, <1>19 DEF AccountInv, AccountType
<1>21. RequestsHaveEpochs'
  <2>1. NoExit.shares = 0 BY DEF NoExit
  <2>2. \A x \in Users : exitRequests'[x] = IF x = u THEN NoExit ELSE exitRequests[x]
    BY <1>2 DEF AccountInv, AccountType
  <2> QED BY <2>1, <2>2 DEF AccountInv, RequestsHaveEpochs
<1>22. QueuedWhenJoined'
  <2>1. \A x \in Epochs : exitEpochs'[x].totalShares = exitEpochs[x].totalShares
    <3>1. \A x \in Epochs : Joined(epochs)[x] = epochs[x].totalShares
                            /\ Joined(exitEpochs)[x] = exitEpochs[x].totalShares
      BY DEF Joined
    <3> QED BY <3>1, <1>3, <1>16
  <2> QED BY <2>1, <1>2 DEF AccountInv, QueuedWhenJoined
<1>23. EscrowIsQueued' BY <1>2, <1>4, <1>9, <1>17 DEF EscrowIsQueued
<1>24. ReserveIsOwed'
  <2> DEFINE f == Receipts(epochs)
             g == Receipts(exitEpochs')
  <2>1. /\ \A x \in Epochs : /\ f[x] = epochs[x].remainingAssets /\ f[x] \in Nat
                             /\ g[x] = exitEpochs'[x].remainingAssets /\ g[x] \in Nat
    BY <1>3, <1>15, EpochAmounts
  <2>2. /\ \A x \in Epochs : f[x] \in Int /\ g[x] \in Int
        /\ \A x \in Epochs : x # e => g[x] = f[x]
        /\ f[e] = r.remainingAssets /\ g[e] = r.remainingAssets - v
    BY <2>1, <1>6, <1>13, <1>15
  <2>3. IsFiniteSet(Epochs) BY EpochsFinite
  <2>4. Total(f, Epochs) = pool.reserve BY <1>3
  <2> HIDE DEF f, g, r
  <2>5. Total(g, Epochs) = Total(f, Epochs) - f[e] + g[e] BY <1>6, <2>2, <2>3, TotalChange
  <2>6. Total(g, Epochs) = pool.reserve - v BY <2>2, <2>4, <2>5, <1>5, <1>11, <1>12
  <2>7. withdrawalReserve' = Total(Receipts(exitEpochs'), Epochs) BY <2>6, <1>9 DEF g
  <2>8. ReceiptsArePriced(exitEpochs', QueueHead(exitEpochQueue', nextExitEpochIndex'))
    <3>1. ASSUME NEW x \in Epochs
          PROVE  /\ x \notin QueueHead(exitEpochQueue, k) => exitEpochs'[x].remainingShares = 0
                 /\ exitEpochs'[x].remainingShares = 0 => exitEpochs'[x].remainingAssets = 0
      <4>1. CASE x # e BY <4>1, <1>3, <1>15 DEF ReceiptsArePriced
      <4>2. CASE x = e
        <5>1. e \notin QueueHead(exitEpochQueue, k) => r.remainingShares = 0
          BY <1>3, <1>6 DEF ReceiptsArePriced, r
        <5>2. r.remainingShares = 0 => c.remainingShares = 0
          BY <1>6, <1>7, <1>13, <1>11
        <5> QED BY <4>2, <5>1, <5>2, <1>14, <1>15
      <4> QED BY <4>1, <4>2
    <3> QED BY <3>1, <1>2, <1>9 DEF ReceiptsArePriced
  <2> QED BY <2>7, <2>8 DEF ReserveIsOwed
<1>25. PoolBacked'
  <2>1. /\ accountedAssets \in Nat /\ withdrawalReserve \in Nat /\ rewardReserve \in Nat
        /\ PoolBacked
    BY DEF AccountInv, AccountType
  <2>2. Usd8 \in Tokens /\ held[Usd8] \in Nat BY <1>18 DEF Tokens
  <2>3. IF Asset = Usd8 THEN held[Asset] >= accountedAssets + withdrawalReserve + rewardReserve
        ELSE held[Asset] >= accountedAssets + withdrawalReserve /\ held[Usd8] >= rewardReserve
    BY <2>1, <1>18, BackedByCases DEF PoolBacked
  <2>4. IF Asset = Usd8 THEN held'[Asset] >= accountedAssets' + withdrawalReserve' + rewardReserve'
        ELSE held'[Asset] >= accountedAssets' + withdrawalReserve' /\ held'[Usd8] >= rewardReserve'
    BY <2>1, <2>2, <2>3, <1>2, <1>5, <1>9, <1>12, <1>18, <1>19
  <2>5. /\ held' \in [Tokens -> Nat] /\ accountedAssets' \in Nat /\ withdrawalReserve' \in Nat
        /\ rewardReserve' \in Nat
    BY <1>20 DEF AccountType
  <2> QED BY <2>4, <2>5, BackedByCases DEF PoolBacked
<1> QED BY <1>20, <1>21, <1>22, <1>23, <1>24, <1>25 DEF AccountInv

\* Where a request lands: in an epoch that still waits, which is the one it
\* pushes if nobody had joined it.
LEMMA RequestLands ==
    ASSUME AccountInv, NEW n \in 0 .. Outstanding,
           IF frozen THEN n = 0 ELSE StopsAfter(n, Outstanding),
           NEW e \in Epochs, e = ExitEpochFor(n)
    PROVE  LET q == exitEpochQueue
               k == nextExitEpochIndex + n
               r == IF exitEpochs[e].totalShares = 0 THEN Append(q, e) ELSE q
           IN  /\ exitEpochs[e].totalShares # 0 <=> e \in Behind(q, k)
               /\ Behind(r, k) = Behind(q, k) \cup {e}
               /\ QueueHead(r, k) = QueueHead(q, k)
               /\ QueueHead(r, Len(r)) = QueueHead(q, Len(q)) \cup {e}
<1> DEFINE q == exitEpochQueue
           k == nextExitEpochIndex + n
           r == IF exitEpochs[e].totalShares = 0 THEN Append(q, e) ELSE q
<1>1. /\ q \in Seq(Epochs) /\ Len(q) \in Nat /\ DOMAIN q = 1 .. Len(q) /\ k \in 0 .. Len(q)
      /\ Outstanding = Len(q) - nextExitEpochIndex /\ nextExitEpochIndex \in Nat /\ now \in Nat
  BY DEF AccountInv, QueueInv, QueueType, Outstanding
<1>2. \A j \in 1 .. k : q[j] <= now
  <2>1. n = 0 \/ (\A x \in QueuedEpochs(n) : x <= now) BY DEF StopsAfter
  <2>2. QueueInv BY DEF AccountInv
  <2> QED BY <2>1, <2>2, SettledHaveEnded DEF EndedBy
<1>3. e > now \/ (n < Outstanding /\ e = q[Len(q)])
  <2>1. QueueType BY DEF AccountInv, QueueInv
  <2> QED BY <2>1, ExitEpochLater
<1>4. /\ \A j \in 1 .. Len(q) : q[j] \in Epochs /\ q[j] \in Int
      /\ e \in Int
  BY <1>1, PoolConstantsAssumption DEF Epochs
<1>5. \A j \in 1 .. Len(q) : exitEpochs[q[j]].totalShares # 0
  BY <1>1 DEF AccountInv, QueueInv, JoinedIsQueued
<1>6. /\ \A j \in (k + 1) .. Len(q) : j \in 1 .. Len(q)
      /\ \A j \in 1 .. Len(q) : j \in (k + 1) .. Len(q) \/ j \in 1 .. k
      /\ \A j \in 1 .. k : j \in 1 .. Len(q)
  BY <1>1
<1>7. ASSUME exitEpochs[e].totalShares # 0 PROVE e \in Behind(q, k) /\ e \in QueueHead(q, Len(q))
  <2>1. e \in QueueHead(q, Len(q)) BY <1>7 DEF AccountInv, QueuedWhenJoined
  <2>2. PICK j \in 1 .. Len(q) : e = q[j] BY <2>1 DEF QueueHead
  <2>3. CASE e > now
    <3>1. j \notin 1 .. k BY <2>2, <2>3, <1>1, <1>2, <1>4
    <3>2. j \in (k + 1) .. Len(q) BY <3>1, <1>6
    <3> QED BY <2>1, <2>2, <3>2 DEF Behind
  <2>4. CASE n < Outstanding /\ e = q[Len(q)]
    <3>1. Len(q) \in (k + 1) .. Len(q) BY <2>4, <1>1
    <3> QED BY <2>1, <2>4, <3>1 DEF Behind
  <2> QED BY <1>3, <2>3, <2>4
<1>8. ASSUME e \in Behind(q, k) PROVE exitEpochs[e].totalShares # 0
  BY <1>8, <1>5, <1>6 DEF Behind
<1>9. CASE exitEpochs[e].totalShares # 0
  BY <1>7, <1>9
<1>10. CASE exitEpochs[e].totalShares = 0
  <2>1. r = Append(q, e) BY <1>10
  <2> HIDE DEF r, q, k
  <2>2. /\ Len(r) = Len(q) + 1 /\ \A j \in 1 .. Len(q) : r[j] = q[j]
        /\ r[Len(q) + 1] = e
    BY <2>1, <1>1
  <2>3. /\ (k + 1) .. Len(r) = ((k + 1) .. Len(q)) \cup {Len(q) + 1}
        /\ 1 .. Len(r) = (1 .. Len(q)) \cup {Len(q) + 1}
    BY <2>2, <1>1
  <2>4. Behind(r, k) = Behind(q, k) \cup {e}
    <3>1. {r[j] : j \in (k + 1) .. Len(q)} = {q[j] : j \in (k + 1) .. Len(q)}
      BY <2>2, <1>6
    <3>2. {r[j] : j \in (k + 1) .. Len(r)} = {r[j] : j \in (k + 1) .. Len(q)} \cup {r[Len(q) + 1]}
      BY <2>3
    <3> QED BY <3>1, <3>2, <2>2 DEF Behind
  <2>5. QueueHead(r, k) = QueueHead(q, k)
    BY <2>2, <1>6 DEF QueueHead
  <2>6. QueueHead(r, Len(r)) = QueueHead(q, Len(q)) \cup {e}
    <3>1. {r[j] : j \in 1 .. Len(q)} = {q[j] : j \in 1 .. Len(q)}
      BY <2>2
    <3> QED BY <3>1, <2>2, <2>3 DEF QueueHead
  <2> QED BY <2>4, <2>5, <2>6, <1>8, <1>10 DEF r, q, k
<1> QED BY <1>9, <1>10

\* requestRedeem moves shares from the user to the escrow, after settling what
\* has ended unless the pool is frozen.
LEMMA RequestRedeemAccount ==
    ASSUME AccountInv, NEW u \in Users, NEW shares \in ShareAmounts, RequestRedeem(u, shares),
           QueueInv'
    PROVE  AccountInv'
<1>1. PICK n \in 0 .. Outstanding :
        LET pool   == Settled(n)
            epochs == EpochsPriced(n, pool)
            e      == ExitEpochFor(n)
        IN  /\ IF frozen THEN n = 0 ELSE StopsAfter(n, Outstanding)
            /\ e \in Epochs
            /\ exitRequests' = [exitRequests EXCEPT ![u] = [shares |-> shares, exitEpoch |-> e]]
            /\ exitEpochQueue' = Enqueued(epochs, e)
            /\ exitEpochs' = [epochs EXCEPT ![e].totalShares = @ + shares]
            /\ nextExitEpochIndex' = nextExitEpochIndex + n
            /\ accountedAssets' = pool.assets /\ withdrawalReserve' = pool.reserve
            /\ escrowedShares' = escrowedShares - (TotalSupply - pool.supply) + shares
  BY DEF RequestRedeem
<1> DEFINE pool == Settled(n)
           epochs == EpochsPriced(n, pool)
           e == ExitEpochFor(n)
           k == nextExitEpochIndex + n
           left == escrowedShares - (TotalSupply - pool.supply)
           r == epochs[e]
           q == exitEpochQueue
<1>2. /\ shares <= balanceOf[u] /\ balanceOf' = [balanceOf EXCEPT ![u] = @ - shares]
      /\ UNCHANGED <<frozen, held, rewardReserve>> /\ shares \in Nat \ {0}
  BY PoolConstantsAssumption DEF RequestRedeem, envVars
<1>3. /\ epochs \in [Epochs -> EpochRecord]
      /\ Joined(epochs) = Joined(exitEpochs)
      /\ Total(Receipts(epochs), Epochs) = pool.reserve
      /\ ReceiptsArePriced(epochs, QueueHead(exitEpochQueue, k))
  BY PricedEpochs
<1>4. /\ left \in Nat /\ left = Total(Joined(exitEpochs), Behind(q, k))
  BY EscrowLeft
<1>5. /\ pool.assets \in Nat /\ pool.reserve \in Nat
      /\ pool.assets + pool.reserve = accountedAssets + withdrawalReserve
  BY SettledAfter DEF PoolAfter
<1>6. e \in Epochs /\ e \in Nat
  BY <1>1, PoolConstantsAssumption DEF Epochs
<1>7. /\ exitEpochs' = [epochs EXCEPT ![e] = [r EXCEPT !.totalShares = @ + shares]]
      /\ exitRequests' = [exitRequests EXCEPT ![u] = [shares |-> shares, exitEpoch |-> e]]
      /\ nextExitEpochIndex' = k /\ accountedAssets' = pool.assets
      /\ withdrawalReserve' = pool.reserve /\ escrowedShares' = left + shares
      /\ exitEpochQueue' = Enqueued(epochs, e)
  BY <1>1
<1>8. \A x \in Epochs : epochs[x].totalShares = exitEpochs[x].totalShares
                        /\ exitEpochs[x].totalShares \in Nat
  <2>1. \A x \in Epochs : Joined(epochs)[x] = epochs[x].totalShares
                          /\ Joined(exitEpochs)[x] = exitEpochs[x].totalShares
    BY DEF Joined
  <2>2. \A x \in Epochs : exitEpochs[x].totalShares \in Nat
    BY DEF AccountInv, QueueInv, QueueType
  <2> QED BY <2>1, <2>2, <1>3
<1>9. /\ exitEpochs[e].totalShares # 0 <=> e \in Behind(q, k)
      /\ Behind(exitEpochQueue', k) = Behind(q, k) \cup {e}
      /\ QueueHead(exitEpochQueue', k) = QueueHead(q, k)
      /\ QueueHead(exitEpochQueue', Len(exitEpochQueue')) = QueueHead(q, Len(q)) \cup {e}
  <2>1. exitEpochQueue' = IF exitEpochs[e].totalShares = 0 THEN Append(q, e) ELSE q
    BY <1>6, <1>7, <1>8 DEF Enqueued
  <2>2. IF frozen THEN n = 0 ELSE StopsAfter(n, Outstanding) BY <1>1
  <2>3. PICK x \in Epochs : x = e BY <1>6
  <2>4. LET s == IF exitEpochs[x].totalShares = 0 THEN Append(q, x) ELSE q
        IN  /\ exitEpochs[x].totalShares # 0 <=> x \in Behind(q, k)
            /\ Behind(s, k) = Behind(q, k) \cup {x}
            /\ QueueHead(s, k) = QueueHead(q, k)
            /\ QueueHead(s, Len(s)) = QueueHead(q, Len(q)) \cup {x}
    BY <2>2, <2>3, RequestLands
  <2> QED BY <2>1, <2>3, <2>4
<1>10. Behind(q, k) \subseteq Epochs
  <2>1. QueueType BY DEF AccountInv, QueueInv
  <2> QED BY <2>1, QueuedIsFront
<1> HIDE DEF pool, epochs, k, left, e, q
<1>11. r \in EpochRecord BY <1>3, <1>6
<1> DEFINE c == [r EXCEPT !.totalShares = @ + shares]
<1>12. /\ c \in EpochRecord /\ c.totalShares = r.totalShares + shares
       /\ c.remainingShares = r.remainingShares /\ c.remainingAssets = r.remainingAssets
  <2> HIDE DEF r
  <2> QED BY <1>2, <1>11 DEF EpochRecord
<1>13. exitEpochs' = [epochs EXCEPT ![e] = c] BY <1>7
<1> HIDE DEF c
<1>14. /\ exitEpochs' \in [Epochs -> EpochRecord] /\ exitEpochs'[e] = c
       /\ \A x \in Epochs : x # e => exitEpochs'[x] = epochs[x]
  BY <1>3, <1>6, <1>12, <1>13
<1>15. \A x \in Epochs :
         /\ exitEpochs'[x].remainingShares = epochs[x].remainingShares
         /\ exitEpochs'[x].remainingAssets = epochs[x].remainingAssets
  BY <1>12, <1>14
<1>16. AccountType'
  <2>1. exitRequests' \in [Users -> [shares : Nat, exitEpoch : Nat]]
    <3>1. [shares |-> shares, exitEpoch |-> e] \in [shares : Nat, exitEpoch : Nat]
      BY <1>2, <1>6
    <3> QED BY <3>1, <1>7 DEF AccountInv, AccountType
  <2>2. balanceOf' \in [Users -> Nat]
    <3>1. balanceOf[u] \in Nat /\ balanceOf[u] - shares \in Nat
      BY <1>2 DEF AccountInv, AccountType
    <3> QED BY <3>1, <1>2 DEF AccountInv, AccountType
  <2>3. escrowedShares' \in Nat BY <1>2, <1>4, <1>7
  <2> QED BY <2>1, <2>2, <2>3, <1>2, <1>5, <1>7, <1>14 DEF AccountInv, AccountType
<1>17. RequestsHaveEpochs'
  <2>1. \A x \in Users : exitRequests'[x] = IF x = u THEN [shares |-> shares, exitEpoch |-> e]
                                            ELSE exitRequests[x]
    BY <1>7 DEF AccountInv, AccountType
  <2> QED BY <2>1, <1>6 DEF AccountInv, RequestsHaveEpochs
<1>18. QueuedWhenJoined'
  <2>1. \A x \in Epochs : x # e => exitEpochs'[x].totalShares = exitEpochs[x].totalShares
    BY <1>8, <1>14
  <2> QED BY <2>1, <1>9 DEF AccountInv, QueuedWhenJoined, q
<1>19. EscrowIsQueued'
  <2> DEFINE f == Joined(exitEpochs)
             g == Joined(exitEpochs')
             B == Behind(q, k)
  <2>1. /\ \A x \in Epochs : f[x] = exitEpochs[x].totalShares /\ f[x] \in Nat
        /\ \A x \in Epochs : g[x] = exitEpochs'[x].totalShares /\ g[x] \in Nat
    <3>1. exitEpochs \in [Epochs -> EpochRecord] BY DEF AccountInv, AccountType
    <3> QED BY <3>1, <1>14, EpochAmounts
  <2>2. \A x \in Epochs : x # e => g[x] = f[x] BY <2>1, <1>8, <1>14
  <2>3. g[e] = f[e] + shares /\ f[e] \in Nat
    BY <2>1, <1>6, <1>8, <1>12, <1>14
  <2>4. IsFiniteSet(B) BY <1>10, EpochsFinite
  <2>5. B \subseteq Epochs /\ (f[e] # 0 <=> e \in B)
    BY <1>6, <1>9, <1>10, <2>1
  <2>6. left = Total(f, B) BY <1>4
  <2> HIDE DEF f, g, B
  <2>7. Total(g, B \cup {e}) = Total(f, B) + shares
    <3>1. CASE e \in B
      <4>1. /\ \A x \in B : f[x] \in Int /\ g[x] \in Int
            /\ \A x \in B : x # e => g[x] = f[x]
        BY <2>1, <2>2, <2>5
      <4>2. Total(g, B) = Total(f, B) - f[e] + g[e] BY <3>1, <4>1, <2>4, TotalChange
      <4>3. B \cup {e} = B BY <3>1
      <4>4. Total(f, B) \in Int BY <4>1, <2>4, TotalInt
      <4>5. Total(g, B) = Total(f, B) + shares BY <4>2, <4>4, <2>3, <1>2
      <4> QED BY <4>3, <4>5
    <3>2. CASE e \notin B
      <4>1. \A x \in B \cup {e} : g[x] \in Int
        <5>1. \A x \in Epochs : g[x] \in Int BY <2>1
        <5>2. B \cup {e} \subseteq Epochs BY <2>5, <1>6
        <5> QED BY <5>1, <5>2
      <4>2. Total(g, B \cup {e}) = g[e] + Total(g, B) BY <3>2, <4>1, <2>4, TotalAdd
      <4>3. \A x \in B : f[x] \in Int /\ f[x] = g[x] BY <2>1, <2>2, <2>5, <3>2
      <4>4. Total(f, B) = Total(g, B) BY <4>3, <2>4, TotalSame
      <4>5. Total(f, B) \in Int BY <4>3, <2>4, TotalInt
      <4>6. g[e] = shares BY <2>3, <2>5, <3>2, <1>2
      <4> QED BY <4>2, <4>4, <4>5, <4>6, <1>2
    <3> QED BY <3>1, <3>2
  <2>8. escrowedShares' = Total(g, B \cup {e}) BY <2>6, <2>7, <1>7
  <2>9. Behind(exitEpochQueue', nextExitEpochIndex') = B \cup {e} BY <1>7, <1>9 DEF B
  <2>10. escrowedShares' = Total(Joined(exitEpochs'), Behind(exitEpochQueue', nextExitEpochIndex'))
    BY <2>8, <2>9 DEF g
  <2> QED BY <2>10 DEF EscrowIsQueued
<1>20. ReserveIsOwed'
  <2>1. Receipts(exitEpochs') = Receipts(epochs) BY <1>15 DEF Receipts
  <2>2. ReceiptsArePriced(exitEpochs', QueueHead(exitEpochQueue', nextExitEpochIndex'))
    BY <1>3, <1>7, <1>9, <1>15 DEF ReceiptsArePriced, q
  <2> QED BY <2>1, <2>2, <1>3, <1>7 DEF ReserveIsOwed
<1>21. PoolBacked'
  <2>1. \A t \in Tokens : (IF t = Asset THEN pool.assets + pool.reserve ELSE 0) =
                          (IF t = Asset THEN accountedAssets + withdrawalReserve ELSE 0)
    BY <1>5
  <2> QED BY <2>1, <1>2, <1>7 DEF AccountInv, PoolBacked
<1> QED BY <1>16, <1>17, <1>18, <1>19, <1>20, <1>21 DEF AccountInv

-----------------------------------------------------------------------------
(* Rewards *)

StreamRecord ==
    [rewardRate : Nat, periodFinish : Nat, lastUpdateTime : Nat,
     rewardPerShare : Nat, rewardResidual : Nat]

RewardType ==
    /\ stream \in StreamRecord /\ rewardsDuration \in Durations
    /\ rewardState \in [Users -> [paid : Nat, rewards : Nat]]

\* The stream is never updated ahead of time, nor a user ahead of the stream.
RewardOrder ==
    /\ stream.lastUpdateTime <= now
    /\ \A u \in Users : rewardState[u].paid <= stream.rewardPerShare

\* What is owed to the users when rewards stand at perShare, and what the
\* stream has not handed out yet.
Owed(state, balance, perShare) ==
    [u \in Users |-> state[u].rewards * RewardScale + balance[u] * (perShare - state[u].paid)]

Window(s) == IF s.periodFinish > s.lastUpdateTime THEN s.periodFinish - s.lastUpdateTime ELSE 0

Streaming(s) == s.rewardResidual + s.rewardRate * RewardScale * Window(s)

Funded(reserve, state, balance, s) ==
    reserve * RewardScale >= Total(Owed(state, balance, s.rewardPerShare), Users) + Streaming(s)

RewardInv ==
    /\ RewardType /\ RewardOrder
    /\ Funded(rewardReserve, rewardState, balanceOf, stream)

\* The sum that RewardsFunded writes is the total of what is owed.
LEMMA OwedTotal ==
    ASSUME NEW state, NEW balance, NEW c
    PROVE  MapThenSumSet(LAMBDA u : state[u].rewards * RewardScale
                                      + balance[u] * (c - state[u].paid), Users)
             = Total(Owed(state, balance, c), Users)
<1> DEFINE d(u) == state[u].rewards * RewardScale + balance[u] * (c - state[u].paid)
           S == Users
           f == Owed(state, balance, c)
           D(g) == g = [s \in SUBSET S |->
                          IF s = {} THEN 0 ELSE d(Pick(s)) + g[s \ {Pick(s)}]]
<1>1. MapThenSumSet(LAMBDA u : state[u].rewards * RewardScale
                                 + balance[u] * (c - state[u].paid), Users)
        = (CHOOSE g : D(g))[S]
  BY DEF MapThenSumSet, MapThenFoldSet, Pick
<1>2. IsFiniteSet(S) BY PoolConstantsAssumption
<1>3. \A u \in S : f[u] = d(u) BY DEF Owed
<1> HIDE DEF d, f
<1>4. ASSUME NEW g PROVE D(g) <=> Iterates(f, S, g)
  <2> DEFINE A(s) == IF s = {} THEN 0 ELSE d(Pick(s)) + g[s \ {Pick(s)}]
             B(s) == IF s = {} THEN 0 ELSE f[Pick(s)] + g[s \ {Pick(s)}]
  <2>1. ASSUME NEW s \in SUBSET S PROVE A(s) = B(s)
    <3>1. CASE s = {} BY <3>1
    <3>2. CASE s # {}
      <4>1. Pick(s) \in S BY <3>2, PickIn
      <4>2. f[Pick(s)] = d(Pick(s)) BY <4>1, <1>3
      <4> QED BY <3>2, <4>2
    <3> QED BY <3>1, <3>2
  <2>2. [s \in SUBSET S |-> A(s)] = [s \in SUBSET S |-> B(s)]
    <3> HIDE DEF A, B
    <3> QED BY <2>1
  <2> QED BY <2>2 DEF Iterates
<1> HIDE DEF D
<1>5. \E g : D(g) BY <1>2, <1>4, IteratorExists
<1>6. D(CHOOSE g : D(g)) BY <1>5
<1>7. Iterates(f, S, CHOOSE g : D(g)) BY <1>4, <1>6
<1>8. (CHOOSE g : D(g))[S] = Total(f, S) BY <1>2, <1>7, IteratorIsTotal
<1> QED BY <1>1, <1>8 DEF f

\* RewardsFunded in these terms.
LEMMA FundedIsRewardsFunded ==
    ASSUME RewardType, AccountType
    PROVE  RewardsFunded <=> Funded(rewardReserve, rewardState, balanceOf, stream)
<1> DEFINE t == Total(Owed(rewardState, balanceOf, stream.rewardPerShare), Users)
           m == MapThenSumSet(LAMBDA u : rewardState[u].rewards * RewardScale
                        + balanceOf[u] * (stream.rewardPerShare - rewardState[u].paid), Users)
           w == stream.rewardRate * RewardScale * Window(stream)
<1>1. m = t BY OwedTotal
<1>2. RewardsFunded <=> rewardReserve * RewardScale >= m + stream.rewardResidual + w
  BY DEF RewardsFunded, Window
<1>3. stream.rewardResidual \in Int /\ w \in Int
  <2>1. /\ stream.rewardRate \in Int /\ stream.rewardResidual \in Int
        /\ stream.periodFinish \in Int /\ stream.lastUpdateTime \in Int
    BY DEF RewardType, StreamRecord
  <2>2. Window(stream) \in Int BY <2>1 DEF Window
  <2> QED BY <2>1, <2>2, PoolConstantsAssumption
<1>4. t \in Int
  <2> DEFINE f == Owed(rewardState, balanceOf, stream.rewardPerShare)
  <2>1. \A u \in Users : f[u] \in Int
    <3>1. \A u \in Users : /\ rewardState[u].rewards \in Int /\ rewardState[u].paid \in Int
                           /\ balanceOf[u] \in Int
      BY DEF RewardType, AccountType
    <3>2. stream.rewardPerShare \in Int BY DEF RewardType, StreamRecord
    <3>3. RewardScale \in Int BY PoolConstantsAssumption
    <3>4. \A a, b, c, d, e \in Int : a * b + c * (d - e) \in Int OBVIOUS
    <3> QED BY <3>1, <3>2, <3>3, <3>4 DEF Owed
  <2>2. IsFiniteSet(Users) BY PoolConstantsAssumption
  <2> HIDE DEF f
  <2>3. Total(f, Users) \in Int BY <2>1, <2>2, TotalInt
  <2> QED BY <2>3 DEF f
<1>5. Streaming(stream) = stream.rewardResidual + w BY DEF Streaming
<1>6. Funded(rewardReserve, rewardState, balanceOf, stream) <=>
        rewardReserve * RewardScale >= t + (stream.rewardResidual + w)
  BY <1>5 DEF Funded
<1>7. t + stream.rewardResidual + w = t + (stream.rewardResidual + w)
  <2> HIDE DEF t, w
  <2> QED BY <1>3, <1>4
<1> HIDE DEF t, m, w
<1> QED BY <1>1, <1>2, <1>6, <1>7

\* Handing out delta of a window of w ticks, with the remainder carried on.
LEMMA StreamSplit ==
    ASSUME NEW delta \in Nat, NEW w \in Nat, delta <= w, NEW rate \in Nat, NEW k \in Nat,
           NEW resid \in Nat, NEW shares \in Nat \ {0}
    PROVE  LET n == delta * rate * k + resid
           IN  /\ n \div shares \in Nat /\ (n % shares) \in Nat
               /\ shares * (n \div shares) + ((n % shares) + rate * k * (w - delta))
                    = resid + rate * k * w
<1> DEFINE n == delta * rate * k + resid
           p == delta * rate * k
           d == n \div shares
           m == n % shares
<1>1. p \in Nat /\ n \in Nat /\ n = p + resid OBVIOUS
<1>2. d \in Nat /\ m \in Nat /\ n = shares * d + m
  <2> HIDE DEF n
  <2> QED BY <1>1, Z3
<1>3. rate * k * (w - delta) = rate * k * w - p /\ rate * k * w \in Nat
  <2> DEFINE rk == rate * k
  <2>1. rk \in Nat OBVIOUS
  <2>2. p = delta * rk OBVIOUS
  <2>3. rk * (w - delta) = rk * w - delta * rk /\ rk * w \in Nat
    <3> HIDE DEF rk
    <3> QED BY <2>1
  <2> HIDE DEF p
  <2> QED BY <2>2, <2>3
<1> DEFINE x == shares * d
           y == rate * k * w
           z == rate * k * (w - delta)
<1>4. /\ x \in Nat BY <1>2
<1>5. x + (m + z) = resid + y
  <2>1. z = y - p /\ y \in Nat /\ n = x + m BY <1>2, <1>3
  <2> HIDE DEF x, y, z, m, n, p
  <2> QED BY <2>1, <1>1, <1>2, <1>4
<1> QED BY <1>2, <1>5

\* The fields of a checkpoint.
LEMMA CheckpointFields ==
    ASSUME RewardType
    PROVE  LET t == Least(now, stream.periodFinish)
               numerator == (t - stream.lastUpdateTime) * stream.rewardRate * RewardScale
                              + stream.rewardResidual
               c == Checkpointed
           IN  /\ c = [rewardRate |-> c.rewardRate, periodFinish |-> c.periodFinish,
                       lastUpdateTime |-> c.lastUpdateTime,
                       rewardPerShare |-> c.rewardPerShare, rewardResidual |-> c.rewardResidual]
               /\ c.rewardRate = stream.rewardRate
               /\ EarningShares = 0 =>
                    /\ c.rewardPerShare = stream.rewardPerShare
                    /\ c.rewardResidual = stream.rewardResidual
                    /\ c.lastUpdateTime = now
                    /\ c.periodFinish =
                         IF stream.rewardRate # 0 /\ stream.periodFinish > stream.lastUpdateTime
                         THEN now + (stream.periodFinish - stream.lastUpdateTime)
                         ELSE stream.periodFinish
               /\ EarningShares # 0 /\ t > stream.lastUpdateTime =>
                    /\ c.rewardPerShare = stream.rewardPerShare + numerator \div EarningShares
                    /\ c.rewardResidual = numerator % EarningShares
                    /\ c.lastUpdateTime = t /\ c.periodFinish = stream.periodFinish
               /\ EarningShares # 0 /\ ~(t > stream.lastUpdateTime) =>
                    /\ c.rewardPerShare = stream.rewardPerShare
                    /\ c.rewardResidual = stream.rewardResidual
                    /\ c.lastUpdateTime = t /\ c.periodFinish = stream.periodFinish
<1> DEFINE t == Least(now, stream.periodFinish)
           numerator == (t - stream.lastUpdateTime) * stream.rewardRate * RewardScale
                          + stream.rewardResidual
           quotient == numerator \div EarningShares
           rest == numerator % EarningShares
           pf == IF stream.rewardRate # 0 /\ stream.periodFinish > stream.lastUpdateTime
                 THEN now + (stream.periodFinish - stream.lastUpdateTime)
                 ELSE stream.periodFinish
           c == Checkpointed
<1>1. PICK s : s = stream OBVIOUS
<1>2. s = [rewardRate |-> s.rewardRate, periodFinish |-> s.periodFinish,
           lastUpdateTime |-> s.lastUpdateTime,
           rewardPerShare |-> s.rewardPerShare, rewardResidual |-> s.rewardResidual]
  BY <1>1 DEF RewardType, StreamRecord
<1>3. CASE EarningShares = 0
  <2>1. c = [stream EXCEPT !.periodFinish = pf, !.lastUpdateTime = now]
    BY <1>3 DEF Checkpointed
  <2> HIDE DEF c, pf
  <2>2. c = [rewardRate |-> s.rewardRate, periodFinish |-> pf, lastUpdateTime |-> now,
             rewardPerShare |-> s.rewardPerShare, rewardResidual |-> s.rewardResidual]
    BY <2>1, <1>1, <1>2
  <2> QED BY <2>2, <1>1, <1>3 DEF c, pf
<1>4. CASE EarningShares # 0 /\ t > stream.lastUpdateTime
  <2>1. c = [stream EXCEPT !.rewardPerShare = @ + quotient, !.rewardResidual = rest,
                           !.lastUpdateTime = t]
    BY <1>4 DEF Checkpointed
  <2> HIDE DEF c, quotient, rest
  <2>2. c = [rewardRate |-> s.rewardRate, periodFinish |-> s.periodFinish, lastUpdateTime |-> t,
             rewardPerShare |-> s.rewardPerShare + quotient, rewardResidual |-> rest]
    BY <2>1, <1>1, <1>2
  <2> QED BY <2>2, <1>1, <1>4 DEF c, quotient, rest
<1>5. CASE EarningShares # 0 /\ ~(t > stream.lastUpdateTime)
  <2>1. c = [stream EXCEPT !.lastUpdateTime = t]
    BY <1>5 DEF Checkpointed
  <2> HIDE DEF c
  <2>2. c = [rewardRate |-> s.rewardRate, periodFinish |-> s.periodFinish, lastUpdateTime |-> t,
             rewardPerShare |-> s.rewardPerShare, rewardResidual |-> s.rewardResidual]
    BY <2>1, <1>1, <1>2
  <2> QED BY <2>2, <1>1, <1>5 DEF c
<1> QED BY <1>3, <1>4, <1>5

\* _checkpointGlobalRewards hands out what the stream owes, no more and no less:
\* what the shares gain is what the stream loses.
LEMMA CheckpointKeeps ==
    ASSUME QueueInv, AccountType, RewardInv
    PROVE  LET c == Checkpointed
           IN  /\ c \in StreamRecord /\ c.lastUpdateTime <= now
               /\ c.rewardPerShare >= stream.rewardPerShare
               /\ c.rewardRate = stream.rewardRate
               /\ Streaming(c) \in Nat /\ Streaming(stream) \in Nat
               /\ EarningShares * (c.rewardPerShare - stream.rewardPerShare) + Streaming(c)
                    = Streaming(stream)
               /\ EarningShares # 0 => c.lastUpdateTime = Least(now, c.periodFinish)
<1> DEFINE c == Checkpointed
           lut == stream.lastUpdateTime
           pf == stream.periodFinish
           t == Least(now, pf)
           rate == stream.rewardRate
           ps == stream.rewardPerShare
           resid == stream.rewardResidual
           E == EarningShares
<1>1. /\ lut \in Nat /\ pf \in Nat /\ rate \in Nat /\ ps \in Nat /\ resid \in Nat
      /\ now \in Nat /\ lut <= now /\ E \in Nat /\ RewardScale \in Nat
  BY SupplyNat, PoolConstantsAssumption
     DEF RewardInv, RewardType, RewardOrder, StreamRecord, QueueInv, QueueType
<1>2. t \in Nat /\ t <= now /\ t <= pf /\ (t = now \/ t = pf)
  <2> HIDE DEF pf
  <2> QED BY <1>1 DEF Least
<1> DEFINE numerator == (t - lut) * rate * RewardScale + resid
<1>3. /\ c = [rewardRate |-> c.rewardRate, periodFinish |-> c.periodFinish,
              lastUpdateTime |-> c.lastUpdateTime,
              rewardPerShare |-> c.rewardPerShare, rewardResidual |-> c.rewardResidual]
      /\ c.rewardRate = rate
      /\ E = 0 => /\ c.rewardPerShare = ps /\ c.rewardResidual = resid /\ c.lastUpdateTime = now
                  /\ c.periodFinish = IF rate # 0 /\ pf > lut THEN now + (pf - lut) ELSE pf
      /\ E # 0 /\ t > lut =>
                  /\ c.rewardPerShare = ps + numerator \div E /\ c.rewardResidual = numerator % E
                  /\ c.lastUpdateTime = t /\ c.periodFinish = pf
      /\ E # 0 /\ ~(t > lut) =>
                  /\ c.rewardPerShare = ps /\ c.rewardResidual = resid
                  /\ c.lastUpdateTime = t /\ c.periodFinish = pf
  BY CheckpointFields DEF RewardInv
<1> DEFINE W == Window(stream)
           V == Window(c)
<1>4. W = (IF pf > lut THEN pf - lut ELSE 0) /\ W \in Nat
  <2>1. W = IF pf > lut THEN pf - lut ELSE 0 BY DEF Window
  <2> HIDE DEF W, pf, lut
  <2> QED BY <2>1, <1>1
<1>5. V = IF c.periodFinish > c.lastUpdateTime THEN c.periodFinish - c.lastUpdateTime ELSE 0
  BY DEF Window
<1>6. /\ Streaming(stream) = resid + rate * RewardScale * W
      /\ Streaming(c) = c.rewardResidual + c.rewardRate * RewardScale * V
  BY DEF Streaming
<1>7. rate * RewardScale * W \in Nat /\ Streaming(stream) \in Nat
  <2> HIDE DEF W, rate, resid
  <2>1. rate * RewardScale * W \in Nat BY <1>1, <1>4
  <2> QED BY <2>1, <1>1, <1>6
<1> DEFINE Goal == /\ c.periodFinish \in Nat /\ c.lastUpdateTime \in Nat
                   /\ c.rewardPerShare \in Nat /\ c.rewardResidual \in Nat
                   /\ c.lastUpdateTime <= now
                   /\ c.rewardPerShare >= ps
                   /\ Streaming(c) \in Nat
                   /\ E * (c.rewardPerShare - ps) + Streaming(c) = Streaming(stream)
                   /\ E # 0 => c.lastUpdateTime = Least(now, c.periodFinish)
<1>8. ASSUME E = 0 PROVE Goal
  <2> HIDE DEF c, t, lut, pf, rate, ps, resid, E, W, V
  <2>1. rate # 0 => V = W BY <1>1, <1>3, <1>4, <1>5, <1>8
  <2>2. V \in Nat BY <1>1, <1>3, <1>4, <1>5, <1>8
  <2>3. rate * RewardScale * V = rate * RewardScale * W
    <3>1. CASE rate # 0 BY <3>1, <2>1
    <3>2. CASE rate = 0
      <4>1. 0 * RewardScale = 0 /\ 0 * V = 0 /\ 0 * W = 0 BY <2>2, <1>1, <1>4
      <4> QED BY <3>2, <4>1
    <3> QED BY <3>1, <3>2
  <2>4. Streaming(c) = Streaming(stream) BY <2>3, <1>3, <1>6, <1>8
  <2>5. E * (c.rewardPerShare - ps) = 0 BY <1>1, <1>3, <1>8
  <2>6. c.periodFinish \in Nat BY <1>1, <1>3, <1>8
  <2>7. E * (c.rewardPerShare - ps) + Streaming(c) = Streaming(stream) BY <2>4, <2>5, <1>7
  <2> QED BY <2>4, <2>6, <2>7, <1>1, <1>3, <1>7, <1>8
<1>9. ASSUME E # 0 /\ t > lut PROVE Goal
  <2> DEFINE delta == t - lut
             y == numerator \div E
             z == numerator % E
  <2>1. delta \in Nat /\ delta <= W /\ V = W - delta /\ pf > lut
    <3>1. c.lastUpdateTime = t /\ c.periodFinish = pf BY <1>3, <1>9
    <3> HIDE DEF c, t, lut, pf, W, V
    <3> QED BY <3>1, <1>1, <1>2, <1>4, <1>5, <1>9
  <2>2. y \in Nat /\ z \in Nat
        /\ E * y + (z + rate * RewardScale * (W - delta)) = resid + rate * RewardScale * W
    <3>1. E \in Nat \ {0} BY <1>1, <1>9
    <3>2. PICK dd \in Nat : dd = delta BY <2>1
    <3>3. numerator = dd * rate * RewardScale + resid BY <3>2
    <3> HIDE DEF delta, W, V, E, rate, resid, numerator
    <3> QED BY <3>1, <3>2, <3>3, <2>1, <1>1, <1>4, StreamSplit
  <2>3. /\ c.rewardPerShare = ps + y /\ c.rewardResidual = z
        /\ c.lastUpdateTime = t /\ c.periodFinish = pf
    BY <1>3, <1>9
  <2> HIDE DEF y, z, delta, c, t, lut, pf, rate, ps, resid, E, W, V
  <2>4. Streaming(c) = z + rate * RewardScale * (W - delta)
    BY <2>1, <2>3, <1>3, <1>6
  <2>5. Streaming(c) \in Nat
    <3>1. W - delta \in Nat BY <2>1, <1>4
    <3>2. rate * RewardScale \in Nat BY <1>1
    <3>3. rate * RewardScale * (W - delta) \in Nat BY <3>1, <3>2
    <3> QED BY <3>3, <2>2, <2>4
  <2>6. c.rewardPerShare - ps = y BY <2>2, <2>3, <1>1
  <2>7. E * (c.rewardPerShare - ps) + Streaming(c) = Streaming(stream)
    BY <2>2, <2>4, <2>6, <1>6
  <2> QED BY <2>2, <2>3, <2>5, <2>7, <1>1, <1>2 DEF t, pf
<1>10. ASSUME E # 0 /\ ~(t > lut) PROVE Goal
  <2>1. V = W
    <3>1. c.lastUpdateTime = t /\ c.periodFinish = pf BY <1>3, <1>10
    <3> HIDE DEF c, t, lut, pf, W, V
    <3> QED BY <3>1, <1>1, <1>2, <1>4, <1>5, <1>10
  <2>2. c.rewardPerShare = ps /\ c.rewardResidual = resid /\ c.lastUpdateTime = t
        /\ c.periodFinish = pf
    BY <1>3, <1>10
  <2> HIDE DEF c, t, lut, pf, rate, ps, resid, E, W, V
  <2>3. Streaming(c) = Streaming(stream) BY <2>1, <2>2, <1>3, <1>6
  <2>4. E * (c.rewardPerShare - ps) = 0 BY <2>2, <1>1
  <2>5. E * (c.rewardPerShare - ps) + Streaming(c) = Streaming(stream) BY <2>3, <2>4, <1>7
  <2> QED BY <2>2, <2>3, <2>5, <1>1, <1>2, <1>7 DEF t, pf
<1>11. Goal BY <1>8, <1>9, <1>10, <1>1
<1>12. c \in StreamRecord
  <2>1. c.rewardRate \in Nat BY <1>1, <1>3
  <2>2. /\ c.periodFinish \in Nat /\ c.lastUpdateTime \in Nat
        /\ c.rewardPerShare \in Nat /\ c.rewardResidual \in Nat
    BY <1>11
  <2> HIDE DEF c
  <2> QED BY <2>1, <2>2, <1>3 DEF StreamRecord
<1> QED BY <1>3, <1>7, <1>11, <1>12

\* What is owed to each user is a natural number, before and after a checkpoint.
LEMMA OwedNat ==
    ASSUME AccountType, RewardType, RewardOrder, NEW c \in Nat, c >= stream.rewardPerShare
    PROVE  \A u \in Users :
             /\ Owed(rewardState, balanceOf, c)[u] =
                  rewardState[u].rewards * RewardScale
                    + balanceOf[u] * (c - rewardState[u].paid)
             /\ Owed(rewardState, balanceOf, c)[u] \in Nat
<1> SUFFICES ASSUME NEW u \in Users
             PROVE  /\ Owed(rewardState, balanceOf, c)[u] =
                         rewardState[u].rewards * RewardScale
                           + balanceOf[u] * (c - rewardState[u].paid)
                    /\ Owed(rewardState, balanceOf, c)[u] \in Nat
  OBVIOUS
<1> DEFINE w == rewardState[u].rewards
           p == rewardState[u].paid
           b == balanceOf[u]
<1>1. w \in Nat /\ p \in Nat /\ b \in Nat /\ RewardScale \in Nat /\ p <= stream.rewardPerShare
      /\ stream.rewardPerShare \in Nat
  BY PoolConstantsAssumption DEF AccountType, RewardType, RewardOrder, StreamRecord
<1>2. c - p \in Nat BY <1>1
<1>3. w * RewardScale + b * (c - p) \in Nat
  <2> HIDE DEF w, p, b
  <2>1. w * RewardScale \in Nat /\ b * (c - p) \in Nat BY <1>1, <1>2
  <2> QED BY <2>1
<1>4. Owed(rewardState, balanceOf, c)[u] = w * RewardScale + b * (c - p) BY DEF Owed
<1> QED BY <1>3, <1>4

\* When the rewards of a share rise, what is owed rises for every earning share.
LEMMA OwedRises ==
    ASSUME AccountType, RewardType, RewardOrder, NEW c \in Nat, c >= stream.rewardPerShare
    PROVE  LET before == Total(Owed(rewardState, balanceOf, stream.rewardPerShare), Users)
               after  == Total(Owed(rewardState, balanceOf, c), Users)
           IN  /\ before \in Nat /\ after \in Nat
               /\ after = before + EarningShares * (c - stream.rewardPerShare)
<1> DEFINE ps == stream.rewardPerShare
           f == Owed(rewardState, balanceOf, ps)
           h == Owed(rewardState, balanceOf, c)
           g == [u \in Users |-> balanceOf[u] * (c - ps)]
<1>1. ps \in Nat /\ c - ps \in Int /\ IsFiniteSet(Users) /\ ps >= ps
  BY PoolConstantsAssumption DEF RewardType, StreamRecord
<1>2. ASSUME NEW u \in Users
      PROVE  /\ f[u] \in Nat /\ h[u] \in Nat /\ h[u] = f[u] + g[u] /\ g[u] \in Int
             /\ balanceOf[u] \in Int /\ g[u] = balanceOf[u] * (c - ps)
  <2> DEFINE w == rewardState[u].rewards * RewardScale
             p == rewardState[u].paid
             b == balanceOf[u]
  <2>1. f[u] = w + b * (ps - p) /\ f[u] \in Nat BY <1>1, OwedNat
  <2>2. h[u] = w + b * (c - p) /\ h[u] \in Nat BY <1>1, OwedNat
  <2>3. g[u] = b * (c - ps) OBVIOUS
  <2>4. p \in Int /\ b \in Int BY DEF AccountType, RewardType
  <2>5. w \in Int
    <3>1. rewardState[u].rewards \in Int /\ RewardScale \in Int
      BY PoolConstantsAssumption DEF RewardType
    <3> QED BY <3>1
  <2> HIDE DEF f, h, g, w, p, b, ps
  <2>6. b * (c - ps) \in Int BY <2>4, <1>1
  <2>7. w + b * (c - p) = w + b * (ps - p) + b * (c - ps) BY <2>4, <2>5, <1>1
  <2> QED BY <2>1, <2>2, <2>3, <2>4, <2>6, <2>7 DEF b
<1>3. EarningShares = Total(balanceOf, Users) BY SupplyNat
<1> HIDE DEF f, g, h, ps
<1>4. Total(h, Users) = Total(f, Users) + Total(g, Users) BY <1>1, <1>2, TotalPlus
<1>5. Total(g, Users) = Total(balanceOf, Users) * (c - ps) BY <1>1, <1>2, TotalScale
<1>6. Total(f, Users) \in Nat /\ Total(h, Users) \in Nat BY <1>1, <1>2, TotalNat
<1>7. Total(h, Users) = Total(f, Users) + EarningShares * (c - ps) BY <1>3, <1>4, <1>5
<1> QED BY <1>6, <1>7 DEF f, h, ps

\* _checkpointUserRewards rounds down, in favour of the reserve.
LEMMA AccruedBound ==
    ASSUME QueueInv, AccountType, RewardInv, NEW u \in Users
    PROVE  /\ Accrued(u) = [paid |-> Checkpointed.rewardPerShare, rewards |-> Accrued(u).rewards]
           /\ Accrued(u).rewards \in Nat
           /\ Accrued(u).rewards * RewardScale
                <= Owed(rewardState, balanceOf, Checkpointed.rewardPerShare)[u]
<1> DEFINE c == Checkpointed.rewardPerShare
           w == rewardState[u].rewards
           p == rewardState[u].paid
           b == balanceOf[u]
           k == RewardScale
           x == (b * (c - p)) \div k
<1>1. w \in Nat /\ p \in Nat /\ b \in Nat /\ k \in Nat \ {0} /\ p <= stream.rewardPerShare
      /\ stream.rewardPerShare \in Nat
  BY PoolConstantsAssumption DEF AccountType, RewardInv, RewardType, RewardOrder, StreamRecord
<1>2. c \in Nat /\ c >= stream.rewardPerShare
  BY CheckpointKeeps DEF StreamRecord
<1>3. Accrued(u) = [paid |-> c, rewards |-> x + w] BY DEF Accrued
<1>4. Owed(rewardState, balanceOf, c)[u] = w * k + b * (c - p)
  BY <1>2, OwedNat DEF RewardInv
<1>5. b * (c - p) \in Nat
  <2>1. c - p \in Nat
    <3> HIDE DEF c, p
    <3> QED BY <1>1, <1>2
  <2> HIDE DEF b, c, p
  <2> QED BY <2>1, <1>1
<1>6. x \in Nat /\ x * k <= b * (c - p) /\ x * k \in Nat
  <2> DEFINE y == b * (c - p)
  <2>1. y \in Nat /\ x = y \div k BY <1>5
  <2> HIDE DEF y, k
  <2>2. y \div k \in Nat /\ (y \div k) * k <= y /\ (y \div k) * k \in Nat BY <2>1, <1>1, Z3
  <2> QED BY <2>1, <2>2 DEF y, k
<1>7. Accrued(u).rewards = x + w /\ Accrued(u) = [paid |-> c, rewards |-> Accrued(u).rewards]
  <2> HIDE DEF x, c, w
  <2> QED BY <1>3
<1>8. (x + w) * k = x * k + w * k /\ w * k \in Nat
  <2> HIDE DEF x, w, k
  <2> QED BY <1>1, <1>6
<1>9. (x + w) * k <= w * k + b * (c - p) /\ x + w \in Nat
  <2> DEFINE xk == x * k
             wk == w * k
             y == b * (c - p)
  <2>1. xk \in Nat /\ wk \in Nat /\ y \in Nat /\ xk <= y /\ (x + w) * k = xk + wk
    BY <1>5, <1>6, <1>8
  <2>2. xk + wk <= wk + y
    <3> HIDE DEF xk, wk, y
    <3> QED BY <2>1
  <2>3. x + w \in Nat
    <3> HIDE DEF x, w
    <3> QED BY <1>1, <1>6
  <2> QED BY <2>1, <2>2, <2>3
<1> QED BY <1>4, <1>7, <1>9

\* After the global checkpoint the reserve still covers everything.
LEMMA CheckpointFunded ==
    ASSUME QueueInv, AccountType, RewardInv
    PROVE  Funded(rewardReserve, rewardState, balanceOf, Checkpointed)
<1> DEFINE c == Checkpointed
           x == EarningShares * (c.rewardPerShare - stream.rewardPerShare)
           before == Total(Owed(rewardState, balanceOf, stream.rewardPerShare), Users)
           after == Total(Owed(rewardState, balanceOf, c.rewardPerShare), Users)
<1>1. /\ c.rewardPerShare \in Nat /\ c.rewardPerShare >= stream.rewardPerShare
      /\ Streaming(c) \in Nat /\ Streaming(stream) \in Nat
      /\ x + Streaming(c) = Streaming(stream)
  BY CheckpointKeeps DEF StreamRecord
<1>2. before \in Nat /\ after \in Nat /\ after = before + x
  BY <1>1, OwedRises DEF RewardInv
<1>3. rewardReserve * RewardScale >= before + Streaming(stream) BY DEF RewardInv, Funded
<1>4. x \in Int
  <2>1. EarningShares \in Int /\ stream.rewardPerShare \in Int /\ c.rewardPerShare \in Int
    BY <1>1, SupplyNat DEF RewardInv, RewardType, StreamRecord
  <2> HIDE DEF c
  <2> QED BY <2>1
<1>5. after + Streaming(c) = before + Streaming(stream)
  <2> HIDE DEF x, before, after, c
  <2> QED BY <1>1, <1>2, <1>4
<1>6. rewardReserve * RewardScale >= after + Streaming(c) BY <1>3, <1>5
<1> QED BY <1>6 DEF Funded

\* A step that checkpoints the stream, and every account whose balance changes.
LEMMA CheckpointInv ==
    ASSUME QueueInv, AccountType, RewardInv, AccountType', now' = now,
           UNCHANGED <<rewardsDuration, rewardReserve>>, stream' = Checkpointed,
           rewardState' = [u \in Users |-> rewardState'[u]],
           \A u \in Users :
             \/ rewardState'[u] = Accrued(u)
             \/ rewardState'[u] = rewardState[u] /\ balanceOf'[u] = balanceOf[u]
    PROVE  RewardInv'
<1> DEFINE c == Checkpointed
           ps == c.rewardPerShare
           f == Owed(rewardState, balanceOf, ps)
           g == Owed(rewardState', balanceOf', ps)
<1>1. /\ c \in StreamRecord /\ c.lastUpdateTime <= now /\ ps \in Nat
      /\ ps >= stream.rewardPerShare /\ Streaming(c) \in Nat
  BY CheckpointKeeps DEF StreamRecord
<1>2. RewardType /\ RewardOrder /\ RewardScale \in Nat /\ stream.rewardPerShare \in Nat
      /\ IsFiniteSet(Users)
  BY PoolConstantsAssumption DEF RewardInv, RewardType, StreamRecord
<1>3. ASSUME NEW u \in Users
      PROVE  /\ rewardState'[u] \in [paid : Nat, rewards : Nat] /\ rewardState'[u].paid <= ps
             /\ f[u] \in Int /\ g[u] \in Int /\ g[u] <= f[u]
  <2>1. f[u] = rewardState[u].rewards * RewardScale + balanceOf[u] * (ps - rewardState[u].paid)
        /\ f[u] \in Nat
    BY <1>1, <1>2, OwedNat
  <2>2. g[u] = rewardState'[u].rewards * RewardScale
                 + balanceOf'[u] * (ps - rewardState'[u].paid)
    BY DEF Owed
  <2>3. CASE rewardState'[u] = rewardState[u] /\ balanceOf'[u] = balanceOf[u]
    <3>1. f[u] = g[u] BY <2>1, <2>2, <2>3
    <3>2. rewardState[u] \in [paid : Nat, rewards : Nat] /\ rewardState[u].paid <= ps
      <4>1. rewardState[u] \in [paid : Nat, rewards : Nat]
            /\ rewardState[u].paid <= stream.rewardPerShare
        BY <1>2 DEF RewardType, RewardOrder
      <4> HIDE DEF ps
      <4> QED BY <4>1, <1>1, <1>2
    <3> HIDE DEF f, g
    <3> QED BY <2>1, <2>3, <3>1, <3>2
  <2>4. CASE rewardState'[u] = Accrued(u)
    <3>1. /\ Accrued(u) = [paid |-> ps, rewards |-> Accrued(u).rewards]
          /\ Accrued(u).rewards \in Nat /\ Accrued(u).rewards * RewardScale <= f[u]
      BY AccruedBound
    <3>2. PICK r : r = Accrued(u).rewards OBVIOUS
    <3>3. rewardState'[u] = [paid |-> ps, rewards |-> r] BY <2>4, <3>1, <3>2
    <3>4. rewardState'[u].rewards = r /\ rewardState'[u].paid = ps
          /\ rewardState'[u] \in [paid : Nat, rewards : Nat]
      <4> HIDE DEF ps
      <4> QED BY <3>1, <3>2, <3>3, <1>1
    <3>5. g[u] = r * RewardScale /\ g[u] \in Nat
      <4>1. balanceOf'[u] \in Nat BY DEF AccountType
      <4>2. g[u] = r * RewardScale + balanceOf'[u] * (ps - ps) BY <2>2, <3>4
      <4>3. r * RewardScale \in Nat BY <3>1, <3>2, <1>2
      <4> HIDE DEF g, ps
      <4>4. balanceOf'[u] * (ps - ps) = 0 BY <4>1, <1>1
      <4> QED BY <4>2, <4>3, <4>4
    <3>6. g[u] <= f[u] BY <3>1, <3>2, <3>5
    <3>7. rewardState'[u].paid <= ps
      <4> HIDE DEF ps
      <4> QED BY <3>4, <1>1
    <3> HIDE DEF f, g, ps
    <3> QED BY <2>1, <3>4, <3>5, <3>6, <3>7
  <2> QED BY <2>3, <2>4
<1>4. rewardReserve * RewardScale >= Total(f, Users) + Streaming(c)
  BY CheckpointFunded DEF Funded
<1>5. rewardReserve * RewardScale >= Total(g, Users) + Streaming(c)
  <2>1. rewardReserve * RewardScale \in Nat BY <1>2 DEF AccountType
  <2> HIDE DEF f, g, c
  <2>2. Total(g, Users) <= Total(f, Users) BY <1>2, <1>3, TotalMonotone
  <2>3. Total(f, Users) \in Int /\ Total(g, Users) \in Int BY <1>2, <1>3, TotalInt
  <2> QED BY <2>1, <2>2, <2>3, <1>1, <1>4
<1>6. RewardType'
  <2>1. rewardState' \in [Users -> [paid : Nat, rewards : Nat]] BY <1>3
  <2> QED BY <2>1, <1>1, <1>2 DEF RewardType
<1>7. RewardOrder' BY <1>1, <1>3 DEF RewardOrder
<1>8. Funded(rewardReserve', rewardState', balanceOf', stream')
  BY <1>5 DEF Funded
<1> QED BY <1>6, <1>7, <1>8 DEF RewardInv

\* A step that leaves the rewards alone.
LEMMA RewardsUntouched ==
    ASSUME QueueInv, RewardInv, now' \in Nat, now' >= now, rewardsDuration' \in Durations,
           UNCHANGED <<stream, rewardReserve, rewardState, balanceOf>>
    PROVE  RewardInv'
<1>1. RewardType' BY DEF RewardInv, RewardType
<1>2. RewardOrder'
  <2>1. stream.lastUpdateTime \in Nat /\ now \in Nat
    BY DEF RewardInv, RewardType, StreamRecord, QueueInv, QueueType
  <2> QED BY <2>1 DEF RewardInv, RewardOrder
<1> QED BY <1>1, <1>2 DEF RewardInv

\* claimReward pays what a user has accrued out of the reserve.
LEMMA ClaimRewardInv ==
    ASSUME QueueInv, AccountType, RewardInv, NEW u \in Users, ClaimReward(u)
    PROVE  RewardInv' /\ rewardReserve' \in Nat
<1> DEFINE c == Checkpointed
           ps == c.rewardPerShare
           r == Accrued(u).rewards
           f == Owed(rewardState, balanceOf, ps)
           g == Owed(rewardState', balanceOf', ps)
<1>1. /\ c \in StreamRecord /\ c.lastUpdateTime <= now /\ ps \in Nat
      /\ ps >= stream.rewardPerShare /\ Streaming(c) \in Nat
  BY CheckpointKeeps DEF StreamRecord
<1>2. RewardType /\ RewardOrder /\ RewardScale \in Nat /\ stream.rewardPerShare \in Nat
      /\ IsFiniteSet(Users) /\ rewardReserve \in Nat
  BY PoolConstantsAssumption DEF AccountType, RewardInv, RewardType, StreamRecord
<1>3. /\ Accrued(u) = [paid |-> ps, rewards |-> r] /\ r \in Nat /\ r * RewardScale <= f[u]
  BY AccruedBound
<1>4. /\ r <= rewardReserve /\ rewardReserve' = rewardReserve - r
      /\ stream' = c /\ balanceOf' = balanceOf /\ now' = now
      /\ rewardsDuration' = rewardsDuration
      /\ rewardState' = [rewardState EXCEPT ![u] = [Accrued(u) EXCEPT !.rewards = 0]]
  BY DEF ClaimReward, RewardCovered, envVars, policyVars
<1>5. [Accrued(u) EXCEPT !.rewards = 0] = [paid |-> ps, rewards |-> 0]
  <2>1. PICK a : a = Accrued(u) OBVIOUS
  <2>2. a = [paid |-> ps, rewards |-> r] BY <1>3, <2>1
  <2> HIDE DEF ps, r
  <2>3. [a EXCEPT !.rewards = 0] = [paid |-> ps, rewards |-> 0] BY <2>2
  <2> QED BY <2>1, <2>3
<1>6. /\ rewardState' \in [Users -> [paid : Nat, rewards : Nat]]
      /\ rewardState'[u] = [paid |-> ps, rewards |-> 0]
      /\ \A v \in Users : v # u => rewardState'[v] = rewardState[v]
  <2>1. rewardState' = [rewardState EXCEPT ![u] = [paid |-> ps, rewards |-> 0]]
    BY <1>4, <1>5
  <2>2. [paid |-> ps, rewards |-> 0] \in [paid : Nat, rewards : Nat] BY <1>1
  <2> HIDE DEF ps
  <2> QED BY <2>1, <2>2, <1>2 DEF RewardType
<1>7. RewardType' BY <1>1, <1>2, <1>4, <1>6 DEF RewardType
<1>8. RewardOrder'
  <2>1. ASSUME NEW v \in Users PROVE rewardState'[v].paid <= ps
    <3>1. CASE v = u
      <4> HIDE DEF ps
      <4> QED BY <3>1, <1>1, <1>6
    <3>2. CASE v # u
      <4>1. rewardState[v].paid <= stream.rewardPerShare /\ rewardState[v].paid \in Nat
        BY <1>2 DEF RewardType, RewardOrder
      <4> HIDE DEF ps
      <4> QED BY <4>1, <3>2, <1>1, <1>2, <1>6
    <3> QED BY <3>1, <3>2
  <2> QED BY <2>1, <1>1, <1>4 DEF RewardOrder
<1>9. /\ \A v \in Users : f[v] \in Nat /\ g[v] \in Int
      /\ \A v \in Users : v # u => g[v] = f[v]
      /\ g[u] = 0
  <2>1. \A v \in Users : f[v] \in Nat /\
          f[v] = rewardState[v].rewards * RewardScale
                   + balanceOf[v] * (ps - rewardState[v].paid)
    BY <1>1, <1>2, OwedNat
  <2>2. \A v \in Users :
          g[v] = rewardState'[v].rewards * RewardScale
                   + balanceOf[v] * (ps - rewardState'[v].paid)
    BY <1>4 DEF Owed
  <2>3. \A v \in Users : v # u => g[v] = f[v] BY <2>1, <2>2, <1>6
  <2>4. g[u] = 0
    <3>1. rewardState'[u].rewards = 0 /\ rewardState'[u].paid = ps BY <1>6
    <3>2. balanceOf[u] \in Nat BY DEF AccountType
    <3>3. g[u] = 0 * RewardScale + balanceOf[u] * (ps - ps) BY <3>1, <2>2
    <3> HIDE DEF ps, g
    <3>4. 0 * RewardScale = 0 /\ balanceOf[u] * (ps - ps) = 0 BY <3>2, <1>1, <1>2
    <3> QED BY <3>3, <3>4
  <2> HIDE DEF f, g
  <2> QED BY <2>1, <2>3, <2>4
<1>10. rewardReserve * RewardScale >= Total(f, Users) + Streaming(c)
  BY CheckpointFunded DEF Funded
<1>11. (rewardReserve - r) * RewardScale >= Total(g, Users) + Streaming(c)
  <2> DEFINE rk == r * RewardScale
             R == rewardReserve * RewardScale
  <2>1. rk \in Nat /\ R \in Nat BY <1>2, <1>3
  <2>2. (rewardReserve - r) * RewardScale = R - rk
    <3> HIDE DEF r
    <3> QED BY <1>2, <1>3
  <2>3. rk <= f[u] /\ R >= Total(f, Users) + Streaming(c) BY <1>3, <1>10
  <2> HIDE DEF f, g, c, r, rk, R
  <2>4. Total(g, Users) = Total(f, Users) - f[u] + g[u] BY <1>2, <1>9, TotalChange
  <2>5. Total(f, Users) \in Int BY <1>2, <1>9, TotalInt
  <2>6. f[u] \in Nat /\ g[u] = 0 BY <1>9
  <2>7. R - rk >= Total(g, Users) + Streaming(c) BY <2>1, <2>3, <2>4, <2>5, <2>6, <1>1
  <2> QED BY <2>2, <2>7
<1>12. Funded(rewardReserve', rewardState', balanceOf', stream')
  BY <1>4, <1>11 DEF Funded
<1>13. rewardReserve - r \in Nat
  <2> HIDE DEF r
  <2> QED BY <1>2, <1>3, <1>4
<1> QED BY <1>4, <1>7, <1>8, <1>12, <1>13 DEF RewardInv

\* A rate rounded down over a duration streams no more than there is.
LEMMA RateBound ==
    ASSUME NEW total \in Nat, NEW d \in Nat \ {0}, NEW k \in Nat
    PROVE  /\ total \div d \in Nat
           /\ (total \div d) * k * d \in Nat /\ (total \div d) * k * d <= total * k
<1> DEFINE y == total \div d
<1>1. y \in Nat /\ y * d <= total /\ y * d \in Nat BY Z3
<1> HIDE DEF y
<1>2. y * k * d = (y * d) * k BY <1>1
<1>3. (y * d) * k \in Nat /\ (y * d) * k <= total * k
  <2> DEFINE x == y * d
  <2>1. x \in Nat /\ x <= total BY <1>1
  <2>2. x * k \in Nat /\ x * k <= total * k
    <3> HIDE DEF x
    <3> QED BY <2>1
  <2> QED BY <2>2
<1> QED BY <1>1, <1>2, <1>3 DEF y

\* The blended duration of a new stream is positive.
LEMMA BlendPositive ==
    ASSUME NEW leftover \in Nat, NEW remaining \in Nat, NEW amount \in Nat \ {0},
           NEW d \in Nat \ {0}
    PROVE  LET blended == (leftover * remaining + amount * d) \div (leftover + amount)
           IN  (IF blended = 0 THEN d ELSE blended) \in Nat \ {0}
<1> DEFINE n == leftover * remaining + amount * d
           t == leftover + amount
<1>1. n \in Nat /\ t \in Nat \ {0}
  <2>1. leftover * remaining \in Nat /\ amount * d \in Nat OBVIOUS
  <2> QED BY <2>1
<1>2. n \div t \in Nat
  <2> HIDE DEF n, t
  <2> QED BY <1>1, Z3
<1> HIDE DEF n, t
<1>3. (IF n \div t = 0 THEN d ELSE n \div t) \in Nat \ {0} BY <1>2
<1> QED BY <1>3 DEF n, t

\* receiveProfitDistribution: the profit and what is left of the stream are
\* streamed again, at a rate that is rounded down.
LEMMA ProfitInv ==
    ASSUME QueueInv, AccountType, RewardInv, NEW amount \in Profits,
           ReceiveProfitDistribution(amount)
    PROVE  RewardInv' /\ rewardReserve' \in Nat
<1> DEFINE s == Checkpointed
           remaining == RemainingWindow(s)
           leftover == remaining * s.rewardRate
           total == leftover + amount
           blended == (leftover * remaining + amount * rewardsDuration) \div total
           duration == IF blended = 0 THEN rewardsDuration ELSE blended
           rate == total \div duration
           T == Total(Owed(rewardState, balanceOf, s.rewardPerShare), Users)
<1>1. /\ s \in StreamRecord /\ s.rewardPerShare >= stream.rewardPerShare
      /\ EarningShares # 0 => s.lastUpdateTime = Least(now, s.periodFinish)
  BY CheckpointKeeps
<1>2. /\ EarningShares # 0
      /\ stream' = [s EXCEPT !.rewardRate = rate, !.lastUpdateTime = now,
                             !.periodFinish = now + duration]
      /\ rewardReserve' = rewardReserve + amount
      /\ UNCHANGED <<now, rewardsDuration, balanceOf, rewardState>>
  BY DEF ReceiveProfitDistribution, envVars, policyVars
<1>3. /\ amount \in Nat \ {0} /\ now \in Nat /\ rewardsDuration \in Nat \ {0}
      /\ RewardScale \in Nat /\ rewardReserve \in Nat /\ RewardType /\ RewardOrder
  BY PoolConstantsAssumption DEF RewardInv, RewardType, QueueInv, QueueType, AccountType
<1>4. /\ s.rewardRate \in Nat /\ s.periodFinish \in Nat /\ s.lastUpdateTime \in Nat
      /\ s.rewardPerShare \in Nat /\ s.rewardResidual \in Nat
  <2> HIDE DEF s
  <2> QED BY <1>1 DEF StreamRecord
<1>5. remaining = Window(s) /\ remaining \in Nat
  <2>1. s.lastUpdateTime = Least(now, s.periodFinish) BY <1>1, <1>2
  <2> HIDE DEF s
  <2> QED BY <2>1, <1>3, <1>4 DEF RemainingWindow, Window, Least
<1>6. leftover \in Nat /\ total \in Nat
  <2> HIDE DEF remaining, s
  <2> QED BY <1>3, <1>4, <1>5
<1>7. duration \in Nat \ {0}
  <2> HIDE DEF leftover, remaining
  <2> QED BY <1>3, <1>5, <1>6, BlendPositive
<1>8. /\ rate \in Nat /\ rate * RewardScale * duration \in Nat
      /\ rate * RewardScale * duration <= total * RewardScale
  <2> HIDE DEF total, duration
  <2> QED BY <1>3, <1>6, <1>7, RateBound
<1> HIDE DEF rate, duration, total
<1>9. stream' = [rewardRate |-> rate, periodFinish |-> now + duration, lastUpdateTime |-> now,
                 rewardPerShare |-> s.rewardPerShare, rewardResidual |-> s.rewardResidual]
  <2>1. PICK z : z = s OBVIOUS
  <2>2. z = [rewardRate |-> z.rewardRate, periodFinish |-> z.periodFinish,
             lastUpdateTime |-> z.lastUpdateTime,
             rewardPerShare |-> z.rewardPerShare, rewardResidual |-> z.rewardResidual]
    BY <2>1, <1>1 DEF StreamRecord
  <2> QED BY <2>1, <2>2, <1>2
<1> HIDE DEF s
<1>10. /\ stream'.rewardRate = rate /\ stream'.periodFinish = now + duration
       /\ stream'.lastUpdateTime = now /\ stream'.rewardPerShare = s.rewardPerShare
       /\ stream'.rewardResidual = s.rewardResidual /\ stream' \in StreamRecord
  <2>1. now + duration \in Nat BY <1>3, <1>7
  <2> QED BY <2>1, <1>3, <1>4, <1>8, <1>9 DEF StreamRecord
<1>11. RewardType' BY <1>2, <1>3, <1>10 DEF RewardType
<1>12. RewardOrder'
  <2>1. \A u \in Users : rewardState[u].paid <= s.rewardPerShare
    <3>1. stream.rewardPerShare \in Nat BY <1>3 DEF RewardType, StreamRecord
    <3>2. \A u \in Users : rewardState[u].paid <= stream.rewardPerShare
                           /\ rewardState[u].paid \in Nat
      BY <1>3 DEF RewardType, RewardOrder
    <3> QED BY <3>1, <3>2, <1>1, <1>4
  <2> QED BY <2>1, <1>2, <1>3, <1>10 DEF RewardOrder
<1>13. rewardReserve * RewardScale >= T + Streaming(s)
  BY CheckpointFunded DEF Funded, s
<1>14. (rewardReserve + amount) * RewardScale >= T + Streaming(stream')
  <2> DEFINE sc == RewardScale
             new == rate * sc * duration
             old == s.rewardRate * sc * remaining
             ak == amount * sc
  <2>1. Window(stream') = duration BY <1>3, <1>7, <1>10 DEF Window
  <2>2. Streaming(stream') = s.rewardResidual + new BY <2>1, <1>10 DEF Streaming
  <2>3. Streaming(s) = s.rewardResidual + old BY <1>5 DEF Streaming
  <2>4. total * sc = old + ak /\ old \in Nat /\ ak \in Nat
    <3>1. total = remaining * s.rewardRate + amount BY DEF total
    <3> HIDE DEF remaining
    <3>2. (remaining * s.rewardRate + amount) * sc = s.rewardRate * sc * remaining + amount * sc
      BY <1>3, <1>4, <1>5
    <3>3. old \in Nat /\ ak \in Nat BY <1>3, <1>4, <1>5
    <3> QED BY <3>1, <3>2, <3>3
  <2>5. (rewardReserve + amount) * sc = rewardReserve * sc + ak /\ rewardReserve * sc \in Nat
    BY <1>3
  <2>6. new <= old + ak /\ new \in Nat BY <2>4, <1>8
  <2>7. T \in Int
    <3>1. T \in Nat
      <4>1. PICK w \in Nat : w = s.rewardPerShare /\ w >= stream.rewardPerShare BY <1>1, <1>4
      <4>2. Total(Owed(rewardState, balanceOf, w), Users) \in Nat BY <4>1, <1>3, OwedRises
      <4> QED BY <4>1, <4>2
    <3> QED BY <3>1
  <2> DEFINE R == rewardReserve * sc
             resid == s.rewardResidual
  <2>8. R >= T + (resid + old) /\ R \in Nat /\ resid \in Nat BY <2>3, <2>5, <1>4, <1>13
  <2>9. R + ak >= T + (resid + new)
    <3> HIDE DEF R, T, resid, old, new, ak, sc
    <3> QED BY <2>4, <2>6, <2>7, <2>8
  <2> QED BY <2>2, <2>5, <2>9
<1>15. Funded(rewardReserve', rewardState', balanceOf', stream')
  BY <1>2, <1>10, <1>14 DEF Funded
<1>16. rewardReserve' \in Nat BY <1>2, <1>3
<1> QED BY <1>11, <1>12, <1>15, <1>16 DEF RewardInv

-----------------------------------------------------------------------------
(* The invariant is inductive *)

PoolInv == AccountInv /\ RewardInv

\* What PoolBacked says now, by cases.
LEMMA BackedNow ==
    ASSUME AccountType, PoolBacked
    PROVE  /\ Asset \in Tokens /\ Usd8 \in Tokens /\ held[Asset] \in Nat /\ held[Usd8] \in Nat
           /\ accountedAssets \in Nat /\ withdrawalReserve \in Nat /\ rewardReserve \in Nat
           /\ IF Asset = Usd8
              THEN held[Asset] >= accountedAssets + withdrawalReserve + rewardReserve
              ELSE held[Asset] >= accountedAssets + withdrawalReserve
                   /\ held[Usd8] >= rewardReserve
<1>1. /\ held \in [Tokens -> Nat] /\ Asset \in Tokens /\ Usd8 \in Tokens
      /\ accountedAssets \in Nat /\ withdrawalReserve \in Nat /\ rewardReserve \in Nat
  BY DEF AccountType, Tokens
<1> QED BY <1>1, BackedByCases DEF PoolBacked

\* A step that changes one token balance and the amounts backed keeps PoolBacked
\* if it does by cases.
LEMMA BackedThen ==
    ASSUME AccountType, NEW t \in Tokens, NEW x \in Nat, held' = [held EXCEPT ![t] = x],
           accountedAssets' \in Nat, withdrawalReserve' \in Nat, rewardReserve' \in Nat,
           IF Asset = Usd8 THEN x >= accountedAssets' + withdrawalReserve' + rewardReserve'
           ELSE /\ (IF t = Asset THEN x ELSE held[Asset]) >= accountedAssets' + withdrawalReserve'
                /\ (IF t = Usd8 THEN x ELSE held[Usd8]) >= rewardReserve'
    PROVE  held' \in [Tokens -> Nat] /\ PoolBacked'
<1>1. /\ held' \in [Tokens -> Nat] /\ held'[t] = x
      /\ \A y \in Tokens : y # t => held'[y] = held[y]
  BY DEF AccountType
<1>2. Asset \in Tokens /\ Usd8 \in Tokens /\ (t = Asset \/ t = Usd8) BY DEF Tokens
<1>3. IF Asset = Usd8 THEN held'[Asset] >= accountedAssets' + withdrawalReserve' + rewardReserve'
      ELSE held'[Asset] >= accountedAssets' + withdrawalReserve' /\ held'[Usd8] >= rewardReserve'
  BY <1>1, <1>2
<1> QED BY <1>1, <1>3, BackedByCases DEF PoolBacked

\* Checkpointing the accounts whose balance changes, as _update does.
LEMMA CheckpointUsersInv ==
    ASSUME QueueInv, AccountType, RewardInv, AccountType', now' = now,
           UNCHANGED <<rewardsDuration, rewardReserve>>, NEW us, CheckpointUsers(us),
           \A u \in Users : u \notin us => balanceOf'[u] = balanceOf[u]
    PROVE  RewardInv'
<1>1. /\ stream' = Checkpointed
      /\ rewardState' = [u \in Users |-> IF u \in us THEN Accrued(u) ELSE rewardState[u]]
  BY DEF CheckpointUsers
<1>2. rewardState' = [u \in Users |-> rewardState'[u]] BY <1>1
<1>3. \A u \in Users : \/ rewardState'[u] = Accrued(u)
                       \/ rewardState'[u] = rewardState[u] /\ balanceOf'[u] = balanceOf[u]
  BY <1>1
<1> QED BY <1>1, <1>2, <1>3, CheckpointInv

\* deposit and mint: shares are minted for assets that arrive.
LEMMA TakeDepositInv ==
    ASSUME PoolInv, QueueInv', NEW u \in Users, NEW assets \in Nat, NEW shares \in Nat,
           TakeDeposit(u, assets, shares)
    PROVE  PoolInv'
<1>1. /\ CheckpointUsers({u}) /\ balanceOf' = [balanceOf EXCEPT ![u] = @ + shares]
      /\ held' = [held EXCEPT ![Asset] = @ + assets]
      /\ accountedAssets' = accountedAssets + assets
      /\ UNCHANGED <<now, frozen, rewardsDuration, rewardReserve, exitVars>>
      /\ UNCHANGED <<exitRequests, exitEpochs, withdrawalReserve, escrowedShares>>
  BY DEF TakeDeposit, envVars, policyVars, exitVars
<1>2. AccountInv /\ RewardInv /\ QueueInv /\ AccountType /\ PoolBacked
  BY DEF PoolInv, AccountInv
<1>3. /\ Asset \in Tokens /\ Usd8 \in Tokens /\ held[Asset] \in Nat /\ held[Usd8] \in Nat
      /\ accountedAssets \in Nat /\ withdrawalReserve \in Nat /\ rewardReserve \in Nat
      /\ IF Asset = Usd8
         THEN held[Asset] >= accountedAssets + withdrawalReserve + rewardReserve
         ELSE held[Asset] >= accountedAssets + withdrawalReserve /\ held[Usd8] >= rewardReserve
  BY <1>2, BackedNow
<1>4. held' \in [Tokens -> Nat] /\ PoolBacked'
  <2>1. held[Asset] + assets \in Nat /\ held' = [held EXCEPT ![Asset] = held[Asset] + assets]
    BY <1>1, <1>3
  <2>2. /\ accountedAssets' \in Nat /\ withdrawalReserve' \in Nat /\ rewardReserve' \in Nat
    BY <1>1, <1>3
  <2>3. IF Asset = Usd8
        THEN held[Asset] + assets >= accountedAssets' + withdrawalReserve' + rewardReserve'
        ELSE /\ held[Asset] + assets >= accountedAssets' + withdrawalReserve'
             /\ held[Usd8] >= rewardReserve'
    BY <1>1, <1>3
  <2> QED BY <2>1, <2>2, <2>3, <1>2, <1>3, BackedThen
<1>5. AccountType'
  <2>1. balanceOf' \in [Users -> Nat] BY <1>1, <1>2 DEF AccountType
  <2>2. accountedAssets' \in Nat BY <1>1, <1>3
  <2> QED BY <2>1, <2>2, <1>1, <1>2, <1>4 DEF AccountType
<1>6. AccountInv' BY <1>1, <1>2, <1>4, <1>5, ExitsUntouched
<1>7. \A v \in Users : v \notin {u} => balanceOf'[v] = balanceOf[v]
  BY <1>1, <1>2 DEF AccountType
<1>8. RewardInv' BY <1>1, <1>2, <1>5, <1>7, CheckpointUsersInv
<1> QED BY <1>6, <1>8 DEF PoolInv

\* The amounts of deposit and mint are numbers.
LEMMA DepositAmounts ==
    ASSUME AccountType, NEW x \in Nat
    PROVE  /\ ToShares(x) \in Nat /\ PreviewMint(x) \in Nat
           /\ ToShares(x) * (accountedAssets + 1) <= x * (TotalSupply + VirtualShares)
           /\ PreviewMint(x) * (TotalSupply + VirtualShares) >= x * (accountedAssets + 1)
<1> DEFINE a == accountedAssets + 1
           d == TotalSupply + VirtualShares
<1>1. a \in Nat \ {0} /\ d \in Nat \ {0}
  BY SupplyNat, PoolConstantsAssumption DEF AccountType
<1>2. ToShares(x) = (x * d) \div a /\ PreviewMint(x) = (x * a + d - 1) \div d
  BY DEF ToShares, PreviewMint, CeilDiv
<1> HIDE DEF a, d
<1>3. (x * d) \div a \in Nat /\ ((x * d) \div a) * a <= x * d
  <2> DEFINE n == x * d
  <2>1. n \in Nat BY <1>1
  <2> HIDE DEF n
  <2>2. n \div a \in Nat /\ (n \div a) * a <= n BY <2>1, <1>1, Z3
  <2> QED BY <2>2 DEF n
<1>4. (x * a + d - 1) \div d \in Nat /\ ((x * a + d - 1) \div d) * d >= x * a
  <2> DEFINE m == x * a
             n == m + d - 1
             y == n \div d
  <2>1. m \in Nat BY <1>1
  <2>2. y \in Nat /\ y * d >= m
    <3> HIDE DEF m
    <3>1. n \in Nat BY <2>1, <1>1
    <3>2. y \in Nat /\ n < y * d + d /\ y * d \in Nat
      <4> HIDE DEF n
      <4> QED BY <3>1, <1>1, Z3
    <3>3. m < y * d + 1
      <4> DEFINE z == y * d
      <4>1. z \in Nat /\ m + d - 1 < z + d BY <3>2
      <4>2. m < z + 1
        <5> HIDE DEF z
        <5> QED BY <4>1, <2>1, <1>1
      <4> QED BY <4>2
    <3> DEFINE z == y * d
    <3>4. z \in Nat /\ m < z + 1 BY <3>2, <3>3
    <3>5. z >= m
      <4> HIDE DEF z
      <4> QED BY <3>4, <2>1
    <3> QED BY <3>2, <3>5
  <2> QED BY <2>2
<1> QED BY <1>2, <1>3, <1>4 DEF a, d

\* Shares move between users.
LEMMA TransferInv ==
    ASSUME PoolInv, QueueInv', NEW from \in Users, NEW to \in Users,
           NEW shares \in ShareAmounts, Transfer(from, to, shares)
    PROVE  PoolInv'
<1>1. /\ shares <= balanceOf[from] /\ CheckpointUsers({from, to})
      /\ balanceOf' = [u \in Users |-> balanceOf[u] - (IF u = from THEN shares ELSE 0)
                                        + (IF u = to THEN shares ELSE 0)]
      /\ UNCHANGED <<now, frozen, rewardsDuration, rewardReserve, accountedAssets, held, exitVars>>
      /\ UNCHANGED <<exitRequests, exitEpochs, withdrawalReserve, escrowedShares>>
  BY DEF Transfer, envVars, policyVars, exitVars
<1>2. /\ AccountInv /\ RewardInv /\ QueueInv /\ AccountType /\ PoolBacked
      /\ shares \in Nat
  BY PoolConstantsAssumption DEF PoolInv, AccountInv
<1>3. AccountType'
  <2>1. \A u \in Users : balanceOf[u] \in Nat BY <1>2 DEF AccountType
  <2>2. \A u \in Users : balanceOf[u] - (IF u = from THEN shares ELSE 0)
                           + (IF u = to THEN shares ELSE 0) \in Nat
    BY <1>1, <1>2, <2>1
  <2>3. balanceOf' \in [Users -> Nat] BY <2>2, <1>1
  <2> QED BY <2>3, <1>1, <1>2 DEF AccountType
<1>4. PoolBacked' BY <1>1, <1>2 DEF PoolBacked, exitVars
<1>5. AccountInv' BY <1>1, <1>2, <1>3, <1>4, ExitsUntouched
<1>6. \A v \in Users : v \notin {from, to} => balanceOf'[v] = balanceOf[v]
  <2>1. \A u \in Users : balanceOf[u] \in Nat BY <1>2 DEF AccountType
  <2> QED BY <2>1, <1>1
<1>7. RewardInv' BY <1>1, <1>2, <1>3, <1>6, CheckpointUsersInv
<1> QED BY <1>5, <1>7 DEF PoolInv

\* A step that changes one token balance, nothing of the exits and no shares.
LEMMA TokenStep ==
    ASSUME PoolInv, QueueInv', NEW t \in Tokens, NEW x \in Nat, held' = [held EXCEPT ![t] = x],
           accountedAssets' \in Nat, rewardReserve' \in Nat,
           UNCHANGED exitVars, frozen' = frozen, balanceOf' = balanceOf,
           IF Asset = Usd8 THEN x >= accountedAssets' + withdrawalReserve + rewardReserve'
           ELSE /\ (IF t = Asset THEN x ELSE held[Asset]) >= accountedAssets' + withdrawalReserve
                /\ (IF t = Usd8 THEN x ELSE held[Usd8]) >= rewardReserve'
    PROVE  AccountInv'
<1>1. AccountInv /\ AccountType /\ withdrawalReserve \in Nat BY DEF PoolInv, AccountInv, AccountType
<1>2. UNCHANGED <<exitRequests, exitEpochs, withdrawalReserve, escrowedShares>> BY DEF exitVars
<1>3. held' \in [Tokens -> Nat] /\ PoolBacked' BY <1>1, <1>2, BackedThen
<1>4. AccountType' BY <1>1, <1>2, <1>3 DEF AccountType
<1> QED BY <1>1, <1>3, <1>4, ExitsUntouched

\* claimReward and receiveProfitDistribution move USD8 and its reserve together.
LEMMA RewardTokenInv ==
    ASSUME PoolInv, QueueInv', rewardReserve' \in Nat,
           NEW d \in Int, rewardReserve' = rewardReserve + d,
           held[Usd8] + d \in Nat, held' = [held EXCEPT ![Usd8] = held[Usd8] + d],
           UNCHANGED <<accountedAssets, exitVars, frozen, balanceOf>>
    PROVE  AccountInv'
<1>1. AccountType /\ PoolBacked BY DEF PoolInv, AccountInv
<1>2. /\ Asset \in Tokens /\ Usd8 \in Tokens /\ held[Asset] \in Nat /\ held[Usd8] \in Nat
      /\ accountedAssets \in Nat /\ withdrawalReserve \in Nat /\ rewardReserve \in Nat
      /\ IF Asset = Usd8
         THEN held[Asset] >= accountedAssets + withdrawalReserve + rewardReserve
         ELSE held[Asset] >= accountedAssets + withdrawalReserve /\ held[Usd8] >= rewardReserve
  BY <1>1, BackedNow
<1>3. IF Asset = Usd8
      THEN held[Usd8] + d >= accountedAssets' + withdrawalReserve + rewardReserve'
      ELSE /\ held[Asset] >= accountedAssets' + withdrawalReserve
           /\ held[Usd8] + d >= rewardReserve'
  BY <1>2
<1> QED BY <1>2, <1>3, TokenStep

\* payClaim takes capital, and only capital.
LEMMA PayClaimInv ==
    ASSUME PoolInv, QueueInv', NEW amount \in Payouts, PayClaim(amount)
    PROVE  PoolInv'
<1>1. /\ amount <= accountedAssets /\ accountedAssets' = accountedAssets - amount
      /\ held' = [held EXCEPT ![Asset] = @ - amount]
      /\ UNCHANGED <<now, frozen, rewardsDuration, balanceOf, exitVars, stream, rewardReserve,
                     rewardState>>
  BY DEF PayClaim, envVars, policyVars, rewardVars
<1>2. /\ AccountType /\ PoolBacked /\ QueueInv /\ RewardInv
      /\ amount \in Nat /\ now \in Nat /\ rewardsDuration \in Durations
  BY PoolConstantsAssumption DEF PoolInv, AccountInv, QueueInv, QueueType, RewardInv, RewardType
<1>3. /\ Asset \in Tokens /\ Usd8 \in Tokens /\ held[Asset] \in Nat /\ held[Usd8] \in Nat
      /\ accountedAssets \in Nat /\ withdrawalReserve \in Nat /\ rewardReserve \in Nat
      /\ IF Asset = Usd8
         THEN held[Asset] >= accountedAssets + withdrawalReserve + rewardReserve
         ELSE held[Asset] >= accountedAssets + withdrawalReserve /\ held[Usd8] >= rewardReserve
  BY <1>2, BackedNow
<1>4. held[Asset] - amount \in Nat /\ accountedAssets' \in Nat BY <1>1, <1>2, <1>3
<1>5. IF Asset = Usd8
      THEN held[Asset] - amount >= accountedAssets' + withdrawalReserve + rewardReserve'
      ELSE /\ held[Asset] - amount >= accountedAssets' + withdrawalReserve
           /\ held[Usd8] >= rewardReserve'
  BY <1>1, <1>2, <1>3
<1>6. AccountInv' BY <1>1, <1>3, <1>4, <1>5, TokenStep
<1>7. now' \in Nat /\ now' >= now /\ rewardsDuration' \in Durations BY <1>1, <1>2
<1>8. RewardInv' BY <1>1, <1>2, <1>7, RewardsUntouched
<1> QED BY <1>6, <1>8 DEF PoolInv

\* sweepToken takes only what backs nothing.
LEMMA SweepTokenInv ==
    ASSUME PoolInv, QueueInv', NEW t \in Tokens, SweepToken(t)
    PROVE  PoolInv'
<1>1. /\ held' = [held EXCEPT ![t] = @ - Sweepable(t)]
      /\ UNCHANGED <<now, frozen, rewardsDuration, accountedAssets, balanceOf, exitVars, stream,
                     rewardReserve, rewardState>>
  BY DEF SweepToken, envVars, policyVars, rewardVars
<1>2. /\ AccountType /\ PoolBacked /\ QueueInv /\ RewardInv
      /\ now \in Nat /\ rewardsDuration \in Durations
  BY DEF PoolInv, AccountInv, QueueInv, QueueType, RewardInv, RewardType
<1>3. /\ Asset \in Tokens /\ Usd8 \in Tokens /\ held[Asset] \in Nat /\ held[Usd8] \in Nat
      /\ accountedAssets \in Nat /\ withdrawalReserve \in Nat /\ rewardReserve \in Nat
      /\ IF Asset = Usd8
         THEN held[Asset] >= accountedAssets + withdrawalReserve + rewardReserve
         ELSE held[Asset] >= accountedAssets + withdrawalReserve /\ held[Usd8] >= rewardReserve
  BY <1>2, BackedNow
<1> DEFINE acc == (IF t = Asset THEN accountedAssets + withdrawalReserve ELSE 0)
                    + (IF t = Usd8 THEN rewardReserve ELSE 0)
           x == held[t] - Sweepable(t)
<1>4. held[t] \in Nat /\ acc \in Nat /\ held[t] >= acc
  BY <1>2, <1>3 DEF PoolBacked, AccountType
<1>5. Sweepable(t) = IF held[t] > acc THEN held[t] - acc ELSE 0 BY DEF Sweepable
<1>6. x = acc
  <2> HIDE DEF acc
  <2> QED BY <1>4, <1>5
<1>7. t = Asset \/ t = Usd8 BY DEF Tokens
<1>8. IF Asset = Usd8
      THEN acc >= accountedAssets' + withdrawalReserve + rewardReserve'
      ELSE /\ (IF t = Asset THEN acc ELSE held[Asset]) >= accountedAssets' + withdrawalReserve
           /\ (IF t = Usd8 THEN acc ELSE held[Usd8]) >= rewardReserve'
  BY <1>1, <1>3, <1>7
<1>9. held' = [held EXCEPT ![t] = acc] BY <1>1, <1>6
<1> HIDE DEF acc
<1>10. AccountInv' BY <1>1, <1>3, <1>4, <1>8, <1>9, TokenStep
<1>11. now' \in Nat /\ now' >= now /\ rewardsDuration' \in Durations BY <1>1, <1>2
<1>12. RewardInv' BY <1>1, <1>2, <1>11, RewardsUntouched
<1> QED BY <1>10, <1>12 DEF PoolInv

\* A donation backs nothing.
LEMMA DonateInv ==
    ASSUME PoolInv, QueueInv', NEW t \in Tokens, NEW amount \in Donations, Donate(t, amount)
    PROVE  PoolInv'
<1>1. /\ held' = [held EXCEPT ![t] = @ + amount]
      /\ UNCHANGED <<now, frozen, rewardsDuration, accountedAssets, balanceOf, exitVars, stream,
                     rewardReserve, rewardState>>
  BY DEF Donate, envVars, policyVars, rewardVars
<1>2. /\ AccountType /\ PoolBacked /\ QueueInv /\ RewardInv /\ amount \in Nat
      /\ now \in Nat /\ rewardsDuration \in Durations
  BY PoolConstantsAssumption DEF PoolInv, AccountInv, QueueInv, QueueType, RewardInv, RewardType
<1>3. /\ Asset \in Tokens /\ Usd8 \in Tokens /\ held[Asset] \in Nat /\ held[Usd8] \in Nat
      /\ accountedAssets \in Nat /\ withdrawalReserve \in Nat /\ rewardReserve \in Nat
      /\ IF Asset = Usd8
         THEN held[Asset] >= accountedAssets + withdrawalReserve + rewardReserve
         ELSE held[Asset] >= accountedAssets + withdrawalReserve /\ held[Usd8] >= rewardReserve
  BY <1>2, BackedNow
<1>4. held[t] + amount \in Nat /\ held' = [held EXCEPT ![t] = held[t] + amount]
  BY <1>1, <1>2 DEF AccountType
<1>5. t = Asset \/ t = Usd8 BY DEF Tokens
<1>6. IF Asset = Usd8
      THEN held[t] + amount >= accountedAssets' + withdrawalReserve + rewardReserve'
      ELSE /\ (IF t = Asset THEN held[t] + amount ELSE held[Asset])
                 >= accountedAssets' + withdrawalReserve
           /\ (IF t = Usd8 THEN held[t] + amount ELSE held[Usd8]) >= rewardReserve'
  BY <1>1, <1>2, <1>3, <1>5
<1>7. AccountInv' BY <1>1, <1>3, <1>4, <1>6, TokenStep
<1>8. now' \in Nat /\ now' >= now /\ rewardsDuration' \in Durations BY <1>1, <1>2
<1>9. RewardInv' BY <1>1, <1>2, <1>8, RewardsUntouched
<1> QED BY <1>7, <1>9 DEF PoolInv

\* A step of the registry or of governance changes no amount.
LEMMA AmountsUntouched ==
    ASSUME PoolInv, QueueInv', frozen' \in BOOLEAN, now' \in Nat, now' >= now,
           rewardsDuration' \in Durations,
           UNCHANGED <<accountedAssets, held, balanceOf, exitVars, rewardVars>>
    PROVE  PoolInv'
<1>1. /\ QueueInv /\ RewardInv /\ AccountInv BY DEF PoolInv, AccountInv
<1>2. UNCHANGED <<stream, rewardReserve, rewardState, balanceOf>> BY DEF rewardVars
<1>3. RewardInv' BY <1>1, <1>2, RewardsUntouched
<1>4. AccountType' BY <1>1, <1>2 DEF AccountInv, AccountType, exitVars
<1>5. PoolBacked' BY <1>1, <1>2 DEF AccountInv, PoolBacked, exitVars
<1>6. AccountInv' BY <1>1, <1>4, <1>5, ExitsUntouched
<1> QED BY <1>3, <1>6 DEF PoolInv

\* The stream of a step that settles n epochs: burning escrow checkpoints it.
LEMMA SettlingRewards ==
    ASSUME PoolInv, AccountType', now' = now, NEW n,
           UNCHANGED <<rewardsDuration, rewardReserve, rewardState, balanceOf>>,
           stream' = IF n = 0 THEN stream ELSE Checkpointed
    PROVE  RewardInv'
<1>1. /\ QueueInv /\ RewardInv /\ AccountType /\ now \in Nat /\ rewardsDuration \in Durations
      /\ rewardState \in [Users -> [paid : Nat, rewards : Nat]]
  BY DEF PoolInv, AccountInv, QueueInv, QueueType, RewardInv, RewardType
<1>2. CASE n = 0
  <2>1. stream' = stream BY <1>2
  <2>2. now' \in Nat /\ now' >= now /\ rewardsDuration' \in Durations BY <1>1
  <2> QED BY <2>1, <2>2, <1>1, RewardsUntouched
<1>3. CASE n # 0
  <2>1. stream' = Checkpointed BY <1>3
  <2>2. rewardState' = [u \in Users |-> rewardState'[u]] BY <1>1
  <2>3. \A u \in Users : \/ rewardState'[u] = Accrued(u)
                         \/ rewardState'[u] = rewardState[u] /\ balanceOf'[u] = balanceOf[u]
    OBVIOUS
  <2> QED BY <2>1, <2>2, <2>3, <1>1, CheckpointInv
<1> QED BY <1>2, <1>3

\* Every step keeps the books.
LEMMA PoolNext == PoolInv /\ [Next]_vars => PoolInv'
<1> SUFFICES ASSUME PoolInv, [Next]_vars PROVE PoolInv'
  OBVIOUS
<1>a. /\ AccountInv /\ RewardInv /\ QueueInv /\ AccountType /\ PoolBacked
      /\ now \in Nat /\ rewardsDuration \in Durations /\ frozen \in BOOLEAN
      /\ rewardReserve \in Nat
  BY DEF PoolInv, AccountInv, QueueInv, QueueType, RewardInv, RewardType, AccountType
<1>b. QueueInv' BY <1>a, QueueNext
<1>1. CASE \E u \in Users, a \in AssetAmounts : Deposit(u, a)
  <2>1. PICK u \in Users, a \in AssetAmounts : Deposit(u, a) BY <1>1
  <2>2. a \in Nat BY PoolConstantsAssumption
  <2>3. ToShares(a) \in Nat BY <2>2, <1>a, DepositAmounts
  <2> QED BY <2>1, <2>2, <2>3, <1>b, TakeDepositInv DEF Deposit
<1>2. CASE \E u \in Users, n \in ShareAmounts : Mint(u, n)
  <2>1. PICK u \in Users, n \in ShareAmounts : Mint(u, n) BY <1>2
  <2>2. n \in Nat BY PoolConstantsAssumption
  <2>3. PreviewMint(n) \in Nat BY <2>2, <1>a, DepositAmounts
  <2> QED BY <2>1, <2>2, <2>3, <1>b, TakeDepositInv DEF Mint
<1>3. CASE \E u, v \in Users, n \in ShareAmounts : Transfer(u, v, n)
  BY <1>3, <1>b, TransferInv
<1>4. CASE \E u \in Users, n \in ShareAmounts : RequestRedeem(u, n)
  <2>1. PICK u \in Users, n \in ShareAmounts : RequestRedeem(u, n) BY <1>4
  <2>2. AccountInv' BY <2>1, <1>a, <1>b, RequestRedeemAccount
  <2>3. /\ CheckpointUsers({u}) /\ balanceOf' = [balanceOf EXCEPT ![u] = @ - n]
        /\ now' = now /\ UNCHANGED <<rewardsDuration, rewardReserve>>
    BY <2>1 DEF RequestRedeem, envVars, policyVars
  <2>4. \A v \in Users : v \notin {u} => balanceOf'[v] = balanceOf[v]
    BY <2>3, <1>a DEF AccountType
  <2>5. AccountType' BY <2>2 DEF AccountInv
  <2>6. RewardInv' BY <2>3, <2>4, <2>5, <1>a, CheckpointUsersInv
  <2> QED BY <2>2, <2>6 DEF PoolInv
<1>5. CASE \E n \in SettleLimits : SettleMaturedExitEpochs(n)
  <2>1. PICK m \in SettleLimits : SettleMaturedExitEpochs(m) BY <1>5
  <2>2. PICK n \in 0 .. Outstanding : SettleQueue(n) BY <2>1 DEF SettleMaturedExitEpochs
  <2>3. frozen' \in BOOLEAN /\ now' = now
    BY <2>1, <1>a DEF SettleMaturedExitEpochs, envVars
  <2>4. AccountInv' BY <2>2, <2>3, <1>a, <1>b, SettleQueueAccount
  <2>5. AccountType' BY <2>4 DEF AccountInv
  <2>6. /\ UNCHANGED <<rewardsDuration, rewardReserve, rewardState, balanceOf>>
        /\ stream' = IF n = 0 THEN stream ELSE Checkpointed
    BY <2>2 DEF SettleQueue, policyVars
  <2>7. RewardInv' BY <2>3, <2>5, <2>6, SettlingRewards
  <2> QED BY <2>4, <2>7 DEF PoolInv
<1>6. CASE \E listed \in BOOLEAN : OpenIncident(listed)
  <2>1. PICK listed \in BOOLEAN : OpenIncident(listed) BY <1>6
  <2>2. PICK n \in 0 .. Outstanding : SettleQueue(n) BY <2>1 DEF OpenIncident
  <2>3. frozen' \in BOOLEAN /\ now' = now BY <2>1 DEF OpenIncident
  <2>4. AccountInv' BY <2>2, <2>3, <1>a, <1>b, SettleQueueAccount
  <2>5. AccountType' BY <2>4 DEF AccountInv
  <2>6. /\ UNCHANGED <<rewardsDuration, rewardReserve, rewardState, balanceOf>>
        /\ stream' = IF n = 0 THEN stream ELSE Checkpointed
    BY <2>2 DEF SettleQueue, policyVars
  <2>7. RewardInv' BY <2>3, <2>5, <2>6, SettlingRewards
  <2> QED BY <2>4, <2>7 DEF PoolInv
<1>7. CASE \E u \in Users : CompleteRedeem(u)
  <2>1. PICK u \in Users : CompleteRedeem(u) BY <1>7
  <2>2. AccountInv' BY <2>1, <1>a, <1>b, CompleteRedeemAccount
  <2>3. AccountType' BY <2>2 DEF AccountInv
  <2>4. PICK n \in 0 .. Outstanding : stream' = IF n = 0 THEN stream ELSE Checkpointed
    BY <2>1 DEF CompleteRedeem
  <2>5. now' = now /\ UNCHANGED <<rewardsDuration, rewardReserve, rewardState, balanceOf>>
    BY <2>1 DEF CompleteRedeem, envVars, policyVars
  <2>6. RewardInv' BY <2>3, <2>4, <2>5, SettlingRewards
  <2> QED BY <2>2, <2>6 DEF PoolInv
<1>8. CASE \E u \in Users : ClaimReward(u)
  <2>1. PICK u \in Users : ClaimReward(u) BY <1>8
  <2>2. RewardInv' /\ rewardReserve' \in Nat BY <2>1, <1>a, ClaimRewardInv
  <2> DEFINE r == Accrued(u).rewards
  <2>3. r \in Nat BY <1>a, AccruedBound
  <2>4. /\ r <= held[Usd8] /\ rewardReserve' = rewardReserve - r
        /\ held' = [held EXCEPT ![Usd8] = held[Usd8] - r]
        /\ UNCHANGED <<accountedAssets, exitVars, frozen, balanceOf>>
    BY <2>1 DEF ClaimReward, RewardCovered, envVars
  <2>5. PICK d \in Int : d = 0 - r BY <2>3
  <2>6. held[Usd8] \in Nat BY <1>a DEF AccountType, Tokens
  <2> HIDE DEF r
  <2>7. held[Usd8] + d \in Nat /\ held[Usd8] - r = held[Usd8] + d
        /\ rewardReserve' = rewardReserve + d
    BY <2>3, <2>4, <2>5, <2>6, <1>a
  <2>8. held' = [held EXCEPT ![Usd8] = held[Usd8] + d] BY <2>4, <2>7
  <2>9. AccountInv' BY <2>2, <2>4, <2>7, <2>8, <1>b, RewardTokenInv
  <2> QED BY <2>2, <2>9 DEF PoolInv
<1>9. CASE \E a \in Profits : ReceiveProfitDistribution(a)
  <2>1. PICK a \in Profits : ReceiveProfitDistribution(a) BY <1>9
  <2>2. RewardInv' /\ rewardReserve' \in Nat BY <2>1, <1>a, ProfitInv
  <2>3. /\ rewardReserve' = rewardReserve + a
        /\ held' = [held EXCEPT ![Usd8] = held[Usd8] + a]
        /\ UNCHANGED <<accountedAssets, exitVars, frozen, balanceOf>>
    BY <2>1 DEF ReceiveProfitDistribution, envVars
  <2>4. a \in Int /\ held[Usd8] + a \in Nat
    BY <1>a, PoolConstantsAssumption DEF AccountType, Tokens
  <2>5. AccountInv' BY <2>2, <2>3, <2>4, <1>b, RewardTokenInv
  <2> QED BY <2>2, <2>5 DEF PoolInv
<1>10. CASE \E a \in Payouts : PayClaim(a)
  BY <1>10, <1>b, PayClaimInv
<1>11. CASE \E t \in Tokens : SweepToken(t)
  BY <1>11, <1>b, SweepTokenInv
<1>12. CASE \E t \in Tokens, a \in Donations : Donate(t, a)
  BY <1>12, <1>b, DonateInv
<1>13. CASE \/ \E d \in Durations : SetRewardsDuration(d)
            \/ \E cap \in Caps : SetDepositCap(cap)
  <2>1. /\ rewardsDuration' \in Durations /\ UNCHANGED <<now, frozen>>
        /\ UNCHANGED <<accountedAssets, held, balanceOf, exitVars, rewardVars>>
    BY <1>13, <1>a DEF SetRewardsDuration, SetDepositCap, envVars
  <2>2. now' \in Nat /\ now' >= now /\ frozen' \in BOOLEAN BY <2>1, <1>a
  <2> QED BY <2>1, <2>2, <1>b, AmountsUntouched
<1>14. CASE \/ CloseIncident
            \/ \E timing \in Timings : SetExitTimingConfig(timing)
            \/ \E b \in PauseChoices : SetPaused(b)
            \/ Tick
  <2>0. now' = now \/ now' = now + 1
    BY <1>14 DEF CloseIncident, SetExitTimingConfig, SetPaused, Tick
  <2>3. frozen' = FALSE \/ frozen' = frozen
    BY <1>14 DEF CloseIncident, SetExitTimingConfig, SetPaused, Tick
  <2>4. frozen' \in BOOLEAN BY <2>3, <1>a
  <2>1. now' \in Nat /\ now' >= now BY <2>0, <1>a
  <2>2. /\ rewardsDuration' \in Durations
        /\ UNCHANGED <<accountedAssets, held, balanceOf, exitVars, rewardVars>>
    BY <1>14, <1>a DEF CloseIncident, SetExitTimingConfig, SetPaused, Tick, notEnv, policyVars
  <2> QED BY <2>1, <2>2, <2>4, <1>b, AmountsUntouched
<1>15. CASE UNCHANGED vars
  <2>1. /\ UNCHANGED <<now, frozen, rewardsDuration>>
        /\ UNCHANGED <<accountedAssets, held, balanceOf, exitVars, rewardVars>>
    BY <1>15 DEF vars, envVars, policyVars
  <2>2. now' \in Nat /\ now' >= now /\ frozen' \in BOOLEAN /\ rewardsDuration' \in Durations
    BY <2>1, <1>a
  <2> QED BY <2>1, <2>2, <1>b, AmountsUntouched
<1> QED BY <1>1, <1>2, <1>3, <1>4, <1>5, <1>6, <1>7, <1>8, <1>9, <1>10, <1>11, <1>12, <1>13,
           <1>14, <1>15
        DEF Next, UserStep, ProtocolStep, EnvironmentStep

\* The pool starts empty.
LEMMA PoolInit == Init => PoolInv
<1> SUFFICES ASSUME Init PROVE PoolInv
  OBVIOUS
<1>1. QueueInv BY QueueInit
<1>2. /\ now = 1 /\ frozen = FALSE /\ accountedAssets = 0 /\ withdrawalReserve = 0
      /\ held = [t \in Tokens |-> 0] /\ balanceOf = [u \in Users |-> 0] /\ escrowedShares = 0
      /\ exitRequests = [u \in Users |-> NoExit] /\ exitEpochs = [e \in Epochs |-> NoEpoch]
      /\ exitEpochQueue = <<>> /\ nextExitEpochIndex = 0 /\ rewardsDuration \in Durations
      /\ rewardReserve = 0 /\ rewardState = [u \in Users |-> [paid |-> 0, rewards |-> 0]]
      /\ stream = [rewardRate |-> 0, periodFinish |-> 0, lastUpdateTime |-> 0,
                   rewardPerShare |-> 0, rewardResidual |-> 0]
  BY DEF Init
<1>3. AccountType
  <2>1. NoEpoch \in EpochRecord /\ NoExit \in [shares : Nat, exitEpoch : Nat]
    BY DEF NoEpoch, NoExit, EpochRecord
  <2> QED BY <2>1, <1>2 DEF AccountType
<1>4. RequestsHaveEpochs /\ QueuedWhenJoined
  BY <1>2 DEF RequestsHaveEpochs, QueuedWhenJoined, NoExit, NoEpoch
<1>5. EscrowIsQueued
  <2>1. Behind(exitEpochQueue, nextExitEpochIndex) = {}
    <3>1. Len(exitEpochQueue) = 0 /\ nextExitEpochIndex + 1 = 1 BY <1>2
    <3>2. 1 .. 0 = {} OBVIOUS
    <3> QED BY <3>1, <3>2 DEF Behind
  <2> QED BY <2>1, <1>2, TotalEmpty DEF EscrowIsQueued
<1>6. ReserveIsOwed
  <2> DEFINE f == Receipts(exitEpochs)
  <2>1. \A e \in Epochs : f[e] = 0 BY <1>2 DEF Receipts, NoEpoch
  <2>2. IsFiniteSet(Epochs) BY EpochsFinite
  <2>3. Total(f, Epochs) = 0
    <3> HIDE DEF f
    <3> QED BY <2>1, <2>2, TotalZero
  <2>4. ReceiptsArePriced(exitEpochs, QueueHead(exitEpochQueue, nextExitEpochIndex))
    BY <1>2 DEF ReceiptsArePriced, NoEpoch
  <2> QED BY <2>3, <2>4, <1>2 DEF ReserveIsOwed
<1>7. PoolBacked BY <1>2 DEF PoolBacked
<1>8. RewardType /\ RewardOrder
  BY <1>2 DEF RewardType, RewardOrder, StreamRecord
<1>9. Funded(rewardReserve, rewardState, balanceOf, stream)
  <2> DEFINE f == Owed(rewardState, balanceOf, stream.rewardPerShare)
  <2>1. RewardScale \in Nat /\ IsFiniteSet(Users) BY PoolConstantsAssumption
  <2>2. \A u \in Users : f[u] = 0 BY <1>2, <2>1 DEF Owed
  <2>3. Total(f, Users) = 0
    <3> HIDE DEF f
    <3> QED BY <2>1, <2>2, TotalZero
  <2>4. Window(stream) = 0 BY <1>2 DEF Window
  <2>5. Streaming(stream) = 0 BY <1>2, <2>1, <2>4 DEF Streaming
  <2>6. rewardReserve * RewardScale = 0 BY <1>2, <2>1
  <2> QED BY <2>3, <2>5, <2>6 DEF Funded
<1> QED BY <1>1, <1>3, <1>4, <1>5, <1>6, <1>7, <1>8, <1>9 DEF PoolInv, AccountInv, RewardInv

\* The books are kept in every reachable state.
THEOREM PoolInvHolds == Spec => []PoolInv
BY PoolInit, PoolNext, PTL DEF Spec

-----------------------------------------------------------------------------
(* Theorems *)

\* What ReserveMatchesReceipts adds up is the receipts of the settled epochs.
LEMMA ReceiptsSum ==
    ASSUME NEW epochs, NEW S \in SUBSET Epochs
    PROVE  MapThenSumSet(LAMBDA e : epochs[e].remainingAssets, S) = Total(Receipts(epochs), S)
<1> DEFINE d(e) == epochs[e].remainingAssets
           f == Receipts(epochs)
           D(g) == g = [s \in SUBSET S |->
                          IF s = {} THEN 0 ELSE d(Pick(s)) + g[s \ {Pick(s)}]]
<1>1. MapThenSumSet(LAMBDA e : epochs[e].remainingAssets, S) = (CHOOSE g : D(g))[S]
  BY DEF MapThenSumSet, MapThenFoldSet, Pick
<1>2. IsFiniteSet(S) BY EpochsFinite
<1>3. \A e \in S : f[e] = d(e) BY DEF Receipts
<1> HIDE DEF d, f
<1>4. ASSUME NEW g PROVE D(g) <=> Iterates(f, S, g)
  <2> DEFINE A(s) == IF s = {} THEN 0 ELSE d(Pick(s)) + g[s \ {Pick(s)}]
             B(s) == IF s = {} THEN 0 ELSE f[Pick(s)] + g[s \ {Pick(s)}]
  <2>1. ASSUME NEW s \in SUBSET S PROVE A(s) = B(s)
    <3>1. CASE s = {} BY <3>1
    <3>2. CASE s # {}
      <4>1. Pick(s) \in S BY <3>2, PickIn
      <4>2. f[Pick(s)] = d(Pick(s)) BY <4>1, <1>3
      <4> QED BY <3>2, <4>2
    <3> QED BY <3>1, <3>2
  <2>2. [s \in SUBSET S |-> A(s)] = [s \in SUBSET S |-> B(s)]
    <3> HIDE DEF A, B
    <3> QED BY <2>1
  <2> QED BY <2>2 DEF Iterates
<1> HIDE DEF D
<1>5. \E g : D(g) BY <1>2, <1>4, IteratorExists
<1>6. D(CHOOSE g : D(g)) BY <1>5
<1>7. Iterates(f, S, CHOOSE g : D(g)) BY <1>4, <1>6
<1>8. (CHOOSE g : D(g))[S] = Total(f, S) BY <1>2, <1>7, IteratorIsTotal
<1> QED BY <1>1, <1>8 DEF f

\* Exits are paid in full: the reserve is, in every reachable state, exactly what
\* the open receipts of the settled epochs are worth, and an epoch whose last
\* receipt is collected leaves nothing behind (completeRedeem).
THEOREM ReserveIsReceipts == Spec => []ReserveMatchesReceipts
<1>1. PoolInv => ReserveMatchesReceipts
  <2> SUFFICES ASSUME PoolInv PROVE ReserveMatchesReceipts OBVIOUS
  <2> DEFINE S == QueueHead(exitEpochQueue, nextExitEpochIndex)
             f == Receipts(exitEpochs)
  <2>1. /\ withdrawalReserve = Total(f, Epochs) /\ ReceiptsArePriced(exitEpochs, S)
        /\ exitEpochs \in [Epochs -> EpochRecord] /\ QueueType
    BY DEF PoolInv, AccountInv, ReserveIsOwed, AccountType, QueueInv
  <2>2. SettledEpochs = S /\ S \subseteq Epochs
    <3>1. 0 \in 0 .. Outstanding /\ nextExitEpochIndex + 0 = nextExitEpochIndex
      BY <2>1 DEF QueueType, Outstanding
    <3> QED BY <3>1, <2>1, QueuedIsFront
  <2>3. \A e \in Epochs : f[e] = exitEpochs[e].remainingAssets /\ f[e] \in Nat
    BY <2>1, EpochAmounts
  <2>4. \A e \in Epochs \ S : f[e] = 0 BY <2>1, <2>3 DEF ReceiptsArePriced
  <2>5. Total(f, S) = Total(f, Epochs)
    <3>1. IsFiniteSet(Epochs) BY EpochsFinite
    <3>2. \A e \in Epochs : f[e] \in Int BY <2>3
    <3> HIDE DEF f, S
    <3> QED BY <3>1, <3>2, <2>2, <2>4, TotalWiden
  <2>6. MapThenSumSet(LAMBDA e : exitEpochs[e].remainingAssets, SettledEpochs)
          = Total(f, SettledEpochs)
    BY <2>2, ReceiptsSum
  <2>7. withdrawalReserve =
          MapThenSumSet(LAMBDA e : exitEpochs[e].remainingAssets, SettledEpochs)
    <3> HIDE DEF f, S
    <3> QED BY <2>1, <2>2, <2>5, <2>6, Zenon
  <2>8. \A e \in SettledEpochs :
          exitEpochs[e].remainingShares = 0 => exitEpochs[e].remainingAssets = 0
    BY <2>1, <2>2 DEF ReceiptsArePriced
  <2> QED BY <2>7, <2>8, Zenon DEF ReserveMatchesReceipts
<1> QED BY <1>1, PoolInvHolds, PTL

\* The pool holds its capital, its exit reserve and its reward reserve at the
\* same time, whatever is deposited, settled, claimed or swept (sweepToken), also
\* when the staked asset is USD8 itself.
THEOREM PoolAlwaysBacked == Spec => []PoolBacked
<1>1. PoolInv => PoolBacked BY DEF PoolInv, AccountInv
<1> QED BY <1>1, PoolInvHolds, PTL

\* Rewards are funded: the reserve covers what all users have accrued, the
\* carried remainder and the rest of the stream, for any number of users, any
\* sequence of transfers, exits and profits, and any rounding.
THEOREM RewardsAlwaysFunded == Spec => []RewardsFunded
<1>1. PoolInv => RewardsFunded
  <2> SUFFICES ASSUME PoolInv PROVE RewardsFunded OBVIOUS
  <2>1. RewardType /\ AccountType /\ Funded(rewardReserve, rewardState, balanceOf, stream)
    BY DEF PoolInv, AccountInv, RewardInv
  <2> QED BY <2>1, FundedIsRewardsFunded
<1> QED BY <1>1, PoolInvHolds, PTL

\* The price of a share does not fall in a step, as NoDilution says it.
Undiluted ==
    \/ TotalSupply' = 0
    \/ frozen /\ frozen' /\ TotalSupply' = TotalSupply
    \/ (accountedAssets' + 1) * (TotalSupply + VirtualShares)
          >= (accountedAssets + 1) * (TotalSupply' + VirtualShares)

\* The supply after a step.
LEMMA SupplyThen == TotalSupply' = Total(balanceOf', Users) + escrowedShares'
<1>1. EarningShares' = Total(balanceOf', Users)
  BY DEF EarningShares, Total, MapThenSumSet, MapThenFoldSet
<1>2. TotalSupply' = EarningShares' + escrowedShares' BY DEF TotalSupply
<1> QED BY <1>1, <1>2

\* A step that changes neither the capital nor the supply.
LEMMA SamePrice ==
    ASSUME AccountType, accountedAssets' = accountedAssets, TotalSupply' = TotalSupply
    PROVE  Undiluted
<1>1. accountedAssets \in Nat /\ TotalSupply \in Nat /\ VirtualShares \in Nat
  BY SupplyNat, PoolConstantsAssumption DEF AccountType
<1>2. (accountedAssets + 1) * (TotalSupply + VirtualShares)
        >= (accountedAssets + 1) * (TotalSupply + VirtualShares)
  BY <1>1
<1> QED BY <1>2 DEF Undiluted

\* Settling epochs: SettledAfter compares the prices.
LEMMA SettlingPrice ==
    ASSUME AccountInv, NEW n \in 0 .. Outstanding,
           accountedAssets' = Settled(n).assets, TotalSupply' = Settled(n).supply
    PROVE  Undiluted
BY SettledAfter DEF PoolAfter, Undiluted

\* Minting rounds against the minter, whether assets or shares are given.
LEMMA DepositPrice ==
    ASSUME AccountType, NEW u \in Users, NEW assets \in Nat, NEW shares \in Nat,
           TakeDeposit(u, assets, shares),
           shares * (accountedAssets + 1) <= assets * (TotalSupply + VirtualShares)
    PROVE  Undiluted
<1>1. /\ balanceOf' = [balanceOf EXCEPT ![u] = @ + shares]
      /\ accountedAssets' = accountedAssets + assets /\ escrowedShares' = escrowedShares
  BY DEF TakeDeposit, exitVars
<1>2. /\ accountedAssets \in Nat /\ TotalSupply \in Nat /\ VirtualShares \in Nat
      /\ TotalSupply = Total(balanceOf, Users) + escrowedShares
      /\ escrowedShares \in Nat /\ Total(balanceOf, Users) \in Nat /\ IsFiniteSet(Users)
  BY SupplyNat, PoolConstantsAssumption DEF AccountType
<1>3. TotalSupply' = TotalSupply + shares
  <2>1. /\ \A v \in Users : balanceOf[v] \in Int /\ balanceOf'[v] \in Int
        /\ \A v \in Users : v # u => balanceOf'[v] = balanceOf[v]
        /\ balanceOf'[u] = balanceOf[u] + shares /\ balanceOf[u] \in Int
    BY <1>1 DEF AccountType
  <2>2. Total(balanceOf', Users) = Total(balanceOf, Users) - balanceOf[u] + balanceOf'[u]
    BY <2>1, <1>2, TotalChange
  <2>3. Total(balanceOf', Users) = Total(balanceOf, Users) + shares BY <2>1, <2>2, <1>2
  <2> QED BY <2>3, <1>1, <1>2, SupplyThen
<1> DEFINE a == accountedAssets
           d == TotalSupply + VirtualShares
<1>4. a \in Nat /\ d \in Nat /\ shares * (a + 1) <= assets * d BY <1>2
<1>5. (a + assets + 1) * d >= (a + 1) * (d + shares)
  <2> HIDE DEF a, d
  <2>1. (a + assets + 1) * d = (a + 1) * d + assets * d BY <1>4
  <2>2. (a + 1) * (d + shares) = (a + 1) * d + shares * (a + 1) BY <1>4
  <2>3. (a + 1) * d \in Nat /\ assets * d \in Nat /\ shares * (a + 1) \in Nat BY <1>4
  <2> DEFINE x == (a + 1) * d
             y == assets * d
             z == shares * (a + 1)
  <2>4. x + y >= x + z
    <3>1. x \in Nat /\ y \in Nat /\ z \in Nat /\ z <= y BY <2>3, <1>4
    <3> HIDE DEF x, y, z
    <3> QED BY <3>1
  <2> QED BY <2>1, <2>2, <2>4
<1>6. TotalSupply' + VirtualShares = d + shares /\ accountedAssets' + 1 = a + assets + 1
  BY <1>1, <1>2, <1>3
<1> QED BY <1>5, <1>6 DEF Undiluted

\* Nobody is diluted: for every number of users and every amount, a step leaves
\* the assets per share of the holders who stay at least where they were, unless
\* it pays a claim during an incident; deposits, mints, the exits of others and
\* every rounding included.
THEOREM NobodyDiluted == Spec => NoDilution
<1>1. PoolInv /\ [Next]_vars => [Undiluted]_vars
  <2> SUFFICES ASSUME PoolInv, Next PROVE Undiluted BY DEF Undiluted
  <2>a. AccountInv /\ AccountType BY DEF PoolInv, AccountInv
  <2>b. /\ TotalSupply = Total(balanceOf, Users) + escrowedShares
        /\ escrowedShares \in Nat /\ Total(balanceOf, Users) \in Nat /\ IsFiniteSet(Users)
    BY <2>a, SupplyNat, PoolConstantsAssumption DEF AccountType
  <2>1. CASE \E u \in Users, a \in AssetAmounts : Deposit(u, a)
    <3>1. PICK u \in Users, a \in AssetAmounts : Deposit(u, a) BY <2>1
    <3>2. a \in Nat BY PoolConstantsAssumption
    <3>3. ToShares(a) \in Nat
          /\ ToShares(a) * (accountedAssets + 1) <= a * (TotalSupply + VirtualShares)
      BY <3>2, <2>a, DepositAmounts
    <3>4. TakeDeposit(u, a, ToShares(a)) BY <3>1 DEF Deposit
    <3> QED BY <3>2, <3>3, <3>4, <2>a, DepositPrice
  <2>2. CASE \E u \in Users, n \in ShareAmounts : Mint(u, n)
    <3>1. PICK u \in Users, n \in ShareAmounts : Mint(u, n) BY <2>2
    <3>2. n \in Nat BY PoolConstantsAssumption
    <3>3. PreviewMint(n) \in Nat
          /\ PreviewMint(n) * (TotalSupply + VirtualShares) >= n * (accountedAssets + 1)
      BY <3>2, <2>a, DepositAmounts
    <3>4. TakeDeposit(u, PreviewMint(n), n) BY <3>1 DEF Mint
    <3>5. n * (accountedAssets + 1) <= PreviewMint(n) * (TotalSupply + VirtualShares)
      BY <3>3, <3>2
    <3> QED BY <3>2, <3>3, <3>4, <3>5, <2>a, DepositPrice
  <2>3. CASE \E u, v \in Users, n \in ShareAmounts : Transfer(u, v, n)
    <3>1. PICK u \in Users, v \in Users, n \in ShareAmounts : Transfer(u, v, n) BY <2>3
    <3>2. /\ balanceOf' = [x \in Users |-> balanceOf[x] - (IF x = u THEN n ELSE 0)
                                             + (IF x = v THEN n ELSE 0)]
          /\ accountedAssets' = accountedAssets /\ escrowedShares' = escrowedShares
      BY <3>1 DEF Transfer, exitVars
    <3> DEFINE m == [x \in Users |-> balanceOf[x] - (IF x = u THEN n ELSE 0)]
    <3>3. \A x \in Users : balanceOf[x] \in Int BY <2>a DEF AccountType
    <3>4. n \in Int BY PoolConstantsAssumption
    <3>5. /\ \A x \in Users : m[x] \in Int
          /\ \A x \in Users : x # u => m[x] = balanceOf[x]
          /\ m[u] = balanceOf[u] - n
      BY <3>3, <3>4
    <3>6. /\ \A x \in Users : balanceOf'[x] \in Int
          /\ \A x \in Users : x # v => balanceOf'[x] = m[x]
          /\ balanceOf'[v] = m[v] + n
      BY <3>2, <3>3, <3>4
    <3> HIDE DEF m
    <3>7. Total(m, Users) = Total(balanceOf, Users) - balanceOf[u] + m[u]
      BY <3>3, <3>5, <2>b, TotalChange
    <3>8. Total(balanceOf', Users) = Total(m, Users) - m[v] + balanceOf'[v]
      BY <3>5, <3>6, <2>b, TotalChange
    <3>9. Total(m, Users) = Total(balanceOf, Users) - n BY <3>3, <3>4, <3>5, <3>7, <2>b
    <3>10. Total(balanceOf', Users) = Total(m, Users) + n
      <4>1. Total(m, Users) \in Int BY <3>9, <3>4, <2>b
      <4>2. m[v] \in Int BY <3>5
      <4> QED BY <4>1, <4>2, <3>4, <3>6, <3>8
    <3>11. Total(balanceOf', Users) = Total(balanceOf, Users) BY <3>4, <3>9, <3>10, <2>b
    <3>12. TotalSupply' = TotalSupply BY <3>2, <3>11, <2>b, SupplyThen
    <3> QED BY <3>2, <3>12, <2>a, SamePrice
  <2>4. CASE \E u \in Users, n \in ShareAmounts : RequestRedeem(u, n)
    <3>1. PICK u \in Users, m \in ShareAmounts : RequestRedeem(u, m) BY <2>4
    <3>2. PICK n \in 0 .. Outstanding :
            /\ accountedAssets' = Settled(n).assets
            /\ escrowedShares' = escrowedShares - (TotalSupply - Settled(n).supply) + m
      BY <3>1 DEF RequestRedeem
    <3> DEFINE left == escrowedShares - (TotalSupply - Settled(n).supply)
    <3>3. left \in Nat /\ Settled(n).supply = EarningShares + left BY <2>a, EscrowLeft
    <3>4. balanceOf' = [balanceOf EXCEPT ![u] = @ - m] BY <3>1 DEF RequestRedeem
    <3>5. /\ \A v \in Users : balanceOf[v] \in Int
          /\ m \in Int
      BY <2>a, PoolConstantsAssumption DEF AccountType
    <3>6. /\ \A v \in Users : balanceOf'[v] \in Int
          /\ \A v \in Users : v # u => balanceOf'[v] = balanceOf[v]
          /\ balanceOf'[u] = balanceOf[u] - m
      <4>1. balanceOf = [v \in Users |-> balanceOf[v]] BY <2>a DEF AccountType
      <4> QED BY <4>1, <3>4, <3>5
    <3>7. Total(balanceOf', Users) = Total(balanceOf, Users) - balanceOf[u] + balanceOf'[u]
      BY <3>5, <3>6, <2>b, TotalChange
    <3>8. Total(balanceOf', Users) = Total(balanceOf, Users) - m BY <3>5, <3>6, <3>7, <2>b
    <3>9. escrowedShares' = left + m BY <3>2
    <3>10. EarningShares = Total(balanceOf, Users) BY <2>a, SupplyNat
    <3> HIDE DEF left
    <3>11. TotalSupply' = Settled(n).supply BY <3>3, <3>5, <3>8, <3>9, <3>10, <2>b, SupplyThen
    <3> QED BY <3>2, <3>11, <2>a, SettlingPrice
  <2>5. ASSUME NEW n \in 0 .. Outstanding, accountedAssets' = Settled(n).assets,
               escrowedShares' = escrowedShares - (TotalSupply - Settled(n).supply),
               balanceOf' = balanceOf
        PROVE  Undiluted
    <3> DEFINE left == escrowedShares - (TotalSupply - Settled(n).supply)
    <3>1. left \in Nat /\ Settled(n).supply = EarningShares + left BY <2>a, EscrowLeft
    <3>2. EarningShares = Total(balanceOf, Users) BY <2>a, SupplyNat
    <3>3. TotalSupply' = Total(balanceOf, Users) + left BY <2>5, SupplyThen
    <3>4. TotalSupply' = Settled(n).supply BY <3>1, <3>2, <3>3
    <3> QED BY <3>4, <2>5, <2>a, SettlingPrice
  <2>6. CASE \/ \E n \in SettleLimits : SettleMaturedExitEpochs(n)
             \/ \E listed \in BOOLEAN : OpenIncident(listed)
    <3>1. PICK n \in 0 .. Outstanding : SettleQueue(n)
      BY <2>6 DEF SettleMaturedExitEpochs, OpenIncident
    <3>2. /\ accountedAssets' = Settled(n).assets /\ balanceOf' = balanceOf
          /\ escrowedShares' = escrowedShares - (TotalSupply - Settled(n).supply)
      BY <3>1 DEF SettleQueue
    <3> QED BY <3>2, <2>5
  <2>7. CASE \E u \in Users : CompleteRedeem(u)
    <3>1. PICK n \in 0 .. Outstanding :
            /\ accountedAssets' = Settled(n).assets
            /\ escrowedShares' = escrowedShares - (TotalSupply - Settled(n).supply)
      BY <2>7 DEF CompleteRedeem
    <3>2. balanceOf' = balanceOf BY <2>7 DEF CompleteRedeem
    <3> QED BY <3>1, <3>2, <2>5
  <2>8. CASE \E a \in Payouts : PayClaim(a)
    <3>1. frozen /\ frozen' = frozen /\ balanceOf' = balanceOf /\ escrowedShares' = escrowedShares
      BY <2>8 DEF PayClaim, envVars, exitVars
    <3>2. TotalSupply' = TotalSupply BY <3>1, <2>b, SupplyThen
    <3> QED BY <3>1, <3>2 DEF Undiluted
  <2>9. ASSUME UNCHANGED <<accountedAssets, balanceOf, escrowedShares>> PROVE Undiluted
    <3>1. TotalSupply' = TotalSupply BY <2>9, <2>b, SupplyThen
    <3> QED BY <3>1, <2>9, <2>a, SamePrice
  <2>10. CASE \/ \E u \in Users : ClaimReward(u)
              \/ \E a \in Profits : ReceiveProfitDistribution(a)
    <3>1. UNCHANGED <<accountedAssets, balanceOf, escrowedShares>>
      BY <2>10 DEF ClaimReward, ReceiveProfitDistribution, exitVars
    <3> QED BY <3>1, <2>9
  <2>11. CASE \/ \E d \in Durations : SetRewardsDuration(d)
              \/ \E cap \in Caps : SetDepositCap(cap)
              \/ \E t \in Tokens : SweepToken(t)
              \/ \E t \in Tokens, a \in Donations : Donate(t, a)
    <3>1. UNCHANGED <<accountedAssets, balanceOf, escrowedShares>>
      BY <2>11 DEF SetRewardsDuration, SetDepositCap, SweepToken, Donate, exitVars
    <3> QED BY <3>1, <2>9
  <2>12. CASE \/ CloseIncident
              \/ \E timing \in Timings : SetExitTimingConfig(timing)
              \/ \E b \in PauseChoices : SetPaused(b)
              \/ Tick
    <3>1. UNCHANGED <<accountedAssets, balanceOf, escrowedShares>>
      BY <2>12 DEF CloseIncident, SetExitTimingConfig, SetPaused, Tick, notEnv, exitVars
    <3> QED BY <3>1, <2>9
  <2> QED BY <2>1, <2>2, <2>3, <2>4, <2>6, <2>7, <2>8, <2>10, <2>11, <2>12
          DEF Next, UserStep, ProtocolStep, EnvironmentStep
<1> QED BY <1>1, PoolInvHolds, PTL DEF Spec, NoDilution, Undiluted

\* The pool keeps the promise DefiInsurance relies on: PoolCapital is
\* implemented, so that during an incident capital leaves by claims only, and
\* opening an incident releases capital and never adds to it.
THEOREM PoolKeepsContract == Spec => CapitalContract
<1>1. Init => Capital!Init BY DEF Init, Capital!Init
<1>2. PoolInv /\ [Next]_vars => [Capital!Next]_<<accountedAssets, frozen>>
  <2> SUFFICES ASSUME PoolInv, [Next]_vars
               PROVE  Capital!Next \/ (accountedAssets' = accountedAssets /\ frozen' = frozen)
    BY Zenon
  <2>a. /\ AccountInv /\ accountedAssets \in Nat /\ frozen \in BOOLEAN
    BY DEF PoolInv, AccountInv, AccountType
  <2>b. PoolInv' BY PoolNext
  <2>c. accountedAssets' \in Nat BY <2>b DEF PoolInv, AccountInv, AccountType
  <2>d. \A n \in 0 .. Outstanding : Settled(n).assets \in 0 .. accountedAssets
    BY <2>a, SettledAfter DEF PoolAfter
  <2>e. Settled(0).assets = accountedAssets
    <3>1. QueueType BY <2>a DEF AccountInv, QueueInv
    <3> QED BY <3>1, SettledStep DEF UnsettledPool
  <2>1. ASSUME ~frozen, frozen' = frozen PROVE Capital!Next
    BY <2>1, <2>c DEF Capital!Next, Capital!Flow
  <2>2. CASE \/ \E u \in Users, a \in AssetAmounts : Deposit(u, a)
             \/ \E u \in Users, n \in ShareAmounts : Mint(u, n)
             \/ \E n \in SettleLimits : SettleMaturedExitEpochs(n)
    <3>1. ~frozen /\ frozen' = frozen
      BY <2>2 DEF Deposit, Mint, WithinMaxDeposit, WithinMaxMint, TakeDeposit,
                  SettleMaturedExitEpochs, envVars
    <3> QED BY <3>1, <2>1
  <2>3. CASE \E u \in Users, n \in ShareAmounts : RequestRedeem(u, n)
    <3>1. PICK n \in 0 .. Outstanding : /\ accountedAssets' = Settled(n).assets
                                        /\ frozen => n = 0
      BY <2>3 DEF RequestRedeem
    <3>2. frozen' = frozen BY <2>3 DEF RequestRedeem, envVars
    <3> QED BY <3>1, <3>2, <2>1, <2>e
  <2>4. CASE \E u \in Users : CompleteRedeem(u)
    <3>1. PICK u \in Users : CompleteRedeem(u) BY <2>4
    <3> DEFINE e == exitRequests[u].exitEpoch
    <3>2. PICK n \in 0 .. Outstanding : accountedAssets' = Settled(n).assets /\ Settles(e, n)
      BY <3>1 DEF CompleteRedeem
    <3>3. Collectable(e, exitEpochs[e].remainingShares = 0) BY <3>1 DEF CompleteRedeem
    <3>4. frozen => n = 0 BY <3>2, <3>3 DEF Collectable, Settles
    <3>5. frozen' = frozen BY <3>1 DEF CompleteRedeem, envVars
    <3> QED BY <3>2, <3>4, <3>5, <2>1, <2>e
  <2>5. CASE \E listed \in BOOLEAN : OpenIncident(listed)
    <3>1. PICK n \in 0 .. Outstanding : SettleQueue(n) BY <2>5 DEF OpenIncident
    <3>2. accountedAssets' = Settled(n).assets BY <3>1 DEF SettleQueue
    <3>3. ~frozen /\ frozen' = TRUE BY <2>5 DEF OpenIncident
    <3>4. accountedAssets' \in 0 .. accountedAssets BY <3>2, <2>d
    <3>5. Capital!Freeze BY <3>3, <3>4 DEF Capital!Freeze
    <3> QED BY <3>5 DEF Capital!Next
  <2>6. CASE \E a \in Payouts : PayClaim(a)
    <3>1. PICK a \in Payouts : PayClaim(a) BY <2>6
    <3>2. a \in Nat BY PoolConstantsAssumption
    <3>3. frozen /\ frozen' = frozen BY <3>1 DEF PayClaim, envVars
    <3>4. a <= accountedAssets /\ accountedAssets' = accountedAssets - a BY <3>1 DEF PayClaim
    <3>5. accountedAssets' \in 0 .. accountedAssets BY <3>2, <3>4, <2>a
    <3>6. Capital!Pay BY <3>3, <3>5 DEF Capital!Pay
    <3> QED BY <3>6 DEF Capital!Next
  <2>7. CASE CloseIncident
    <3>1. frozen /\ frozen' = FALSE /\ accountedAssets' = accountedAssets
      BY <2>7 DEF CloseIncident, notEnv
    <3> QED BY <3>1 DEF Capital!Next, Capital!Thaw
  <2>8. CASE \/ \E u, v \in Users, n \in ShareAmounts : Transfer(u, v, n)
             \/ \E u \in Users : ClaimReward(u)
             \/ \E a \in Profits : ReceiveProfitDistribution(a)
    BY <2>8 DEF Transfer, ClaimReward, ReceiveProfitDistribution, envVars
  <2>9. CASE \/ \E d \in Durations : SetRewardsDuration(d)
             \/ \E cap \in Caps : SetDepositCap(cap)
             \/ \E t \in Tokens : SweepToken(t)
             \/ \E t \in Tokens, a \in Donations : Donate(t, a)
    BY <2>9 DEF SetRewardsDuration, SetDepositCap, SweepToken, Donate, envVars
  <2>10. CASE \/ \E timing \in Timings : SetExitTimingConfig(timing)
              \/ \E b \in PauseChoices : SetPaused(b)
              \/ Tick
              \/ UNCHANGED vars
    BY <2>10 DEF SetExitTimingConfig, SetPaused, Tick, notEnv, vars, envVars
  <2> QED BY <2>2, <2>3, <2>4, <2>5, <2>6, <2>7, <2>8, <2>9, <2>10
          DEF Next, UserStep, ProtocolStep, EnvironmentStep
<1> QED BY <1>1, <1>2, PoolInvHolds, PTL DEF Spec, CapitalContract, Capital!Spec

=============================================================================
