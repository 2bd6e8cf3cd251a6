--------------------------- MODULE ScoreCoreProofs ---------------------------
(***************************************************************************)
(* What the replay of score-core computes, for every history, every rate   *)
(* history and every way of cutting the replay into slices and runs: an    *)
(* account that has been moved to a block, however many steps it took,     *)
(* holds the integral of its balances up to that block, segment by         *)
(* segment.  All of it rests on a closed form of the running state, which  *)
(* depends on the history and the block only.                              *)
(***************************************************************************)
EXTENDS ScoreCore, SumLemmas, SequenceTheorems, TLAPS

-----------------------------------------------------------------------------
(* Powers and scales *)

\* The equation of power's recursive function.
Powers(b, n, p) == p = [i \in 0 .. n |-> IF i = 0 THEN 1 ELSE b * p[i - 1]]

LEMMA PowersAt ==
    ASSUME NEW b, NEW n \in Nat, NEW p, Powers(b, n, p), NEW i \in 0 .. n
    PROVE  p[i] = IF i = 0 THEN 1 ELSE b * p[i - 1]
<1> DEFINE F(j) == IF j = 0 THEN 1 ELSE b * p[j - 1]
<1>1. p = [j \in 0 .. n |-> F(j)]
  BY DEF Powers
<1> HIDE DEF F
<1>2. p[i] = F(i)
  BY <1>1
<1> QED BY <1>2 DEF F

LEMMA PowersExist ==
    ASSUME NEW b, NEW n \in Nat
    PROVE  \E p : Powers(b, n, p)
<1> DEFINE T == {m \in Nat : ~ \E p : Powers(b, m, p)}
<1> SUFFICES ASSUME T # {} PROVE FALSE
  OBVIOUS
<1>1. PICK m \in T : \A x \in T : m <= x
  <2>1. T \subseteq Nat
    OBVIOUS
  <2> HIDE DEF T
  <2> QED BY <2>1, SmallestNat
<1>2. m \in Nat /\ ~ \E p : Powers(b, m, p)
  OBVIOUS
<1>3. m # 0
  <2> DEFINE p == [i \in 0 .. 0 |-> 1]
             F(i) == IF i = 0 THEN 1 ELSE b * p[i - 1]
  <2>1. \A i \in 0 .. 0 : F(i) = 1
    OBVIOUS
  <2> HIDE DEF F
  <2>2. p = [i \in 0 .. 0 |-> F(i)]
    BY <2>1
  <2>3. Powers(b, 0, p)
    BY <2>2 DEF Powers, F
  <2> HIDE DEF p
  <2> QED BY <1>2, <2>3
<1>4. m - 1 \in Nat /\ m - 1 \notin T
  BY <1>1, <1>2, <1>3
<1>5. PICK p : Powers(b, m - 1, p)
  BY <1>4
<1> DEFINE q == [i \in 0 .. m |-> IF i = m THEN b * p[m - 1] ELSE p[i]]
           F(i) == IF i = 0 THEN 1 ELSE b * q[i - 1]
<1>6. ASSUME NEW i \in 0 .. m PROVE q[i] = F(i)
  <2>1. CASE i = m
    <3>1. m - 1 \in 0 .. m /\ m - 1 # m
      BY <1>2, <1>3
    <3> QED BY <1>3, <2>1, <3>1
  <2>2. CASE i # m
    <3>1. i \in 0 .. m - 1
      BY <1>2, <2>2
    <3>2. p[i] = IF i = 0 THEN 1 ELSE b * p[i - 1]
      BY <1>4, <1>5, <3>1, PowersAt, ZenonT(30)
    <3>3. i # 0 => i - 1 \in 0 .. m /\ i - 1 # m
      BY <1>2, <2>2, <3>1
    <3> QED BY <2>2, <3>1, <3>2, <3>3
  <2> QED BY <2>1, <2>2
<1>7. q = [i \in 0 .. m |-> q[i]]
  OBVIOUS
<1> HIDE DEF q, F
<1>8. q = [i \in 0 .. m |-> F(i)]
  BY <1>6, <1>7
<1>9. Powers(b, m, q)
  BY <1>8 DEF Powers, F
<1> QED BY <1>2, <1>9

\* A power of a positive number is positive.
LEMMA PowerPositive ==
    ASSUME NEW b \in Nat, b > 0, NEW n \in Nat
    PROVE  power(b, n) \in Nat /\ power(b, n) > 0
<1> DEFINE p == CHOOSE x : Powers(b, n, x)
<1>1. power(b, n) = p[n]
  BY DEF power, Powers
<1>2. Powers(b, n, p)
  BY PowersExist
<1> HIDE DEF p
<1> DEFINE T == {i \in 0 .. n : ~(p[i] \in Nat /\ p[i] > 0)}
<1>3. ASSUME T # {} PROVE FALSE
  <2>1. T \subseteq Nat
    OBVIOUS
  <2>2. PICK m \in T : \A x \in T : m <= x
    <3> HIDE DEF T
    <3> QED BY <1>3, <2>1, SmallestNat
  <2>3. m \in 0 .. n /\ ~(p[m] \in Nat /\ p[m] > 0)
    OBVIOUS
  <2>4. p[m] = IF m = 0 THEN 1 ELSE b * p[m - 1]
    BY <1>2, <2>3, PowersAt
  <2>5. m # 0
    BY <2>3, <2>4
  <2>6. m - 1 \in 0 .. n /\ m - 1 \notin T
    BY <2>2, <2>3, <2>5
  <2>7. p[m - 1] \in Nat /\ p[m - 1] > 0
    BY <2>6
  <2>8. \A x, y \in Nat : x > 0 /\ y > 0 => x * y \in Nat /\ x * y > 0
    OBVIOUS
  <2> HIDE DEF T
  <2> QED BY <2>3, <2>4, <2>5, <2>7, <2>8
<1>4. n \in 0 .. n
  OBVIOUS
<1> QED BY <1>1, <1>3, <1>4

\* What scaled_integral returns.
LEMMA ScaledIs ==
    ASSUME NEW x \in Int, NEW decimals \in Nat
    PROVE  scaled_integral(x, decimals) \in Int /\ scaled_integral(0, decimals) = 0
<1>0. Base \in Nat /\ Base > 0 /\ Digits \in Nat
  BY ScoreCoreAssumption
<1>1. CASE decimals <= Digits
  <2> DEFINE k == power(Base, Digits - decimals)
  <2>1. Digits - decimals \in Nat
    BY <1>0, <1>1
  <2>2. k \in Nat /\ k > 0
    BY <1>0, <2>1, PowerPositive
  <2>3. \A y \in Int : scaled_integral(y, decimals) = y * k
    BY <1>1 DEF scaled_integral
  <2> HIDE DEF k
  <2>4. x * k \in Int /\ 0 * k = 0
    BY <2>2
  <2> QED BY <2>3, <2>4
<1>2. CASE ~(decimals <= Digits)
  <2> DEFINE k == power(Base, decimals - Digits)
  <2>1. decimals - Digits \in Nat
    BY <1>0, <1>2
  <2>2. k \in Nat /\ k > 0
    BY <1>0, <2>1, PowerPositive
  <2>3. \A y \in Int : scaled_integral(y, decimals) = y \div k
    BY <1>2 DEF scaled_integral
  <2> HIDE DEF k
  <2>4. x \div k \in Int /\ 0 \div k = 0
    BY <2>2
  <2> QED BY <2>3, <2>4
<1> QED BY <1>1, <1>2

-----------------------------------------------------------------------------
(* Rate histories *)

\* What validate_rates accepts, of every two points.
RatesOk(rates) ==
    /\ rates \in Seq([from : Nat, rate : Nat])
    /\ \A i, j \in 1 .. Len(rates) : i < j => rates[i].from < rates[j].from

LEMMA RatePoint ==
    ASSUME NEW rates, RatesOk(rates), NEW i \in 1 .. Len(rates)
    PROVE  rates[i].from \in Nat /\ rates[i].rate \in Nat
<1> DEFINE P == [from : Nat, rate : Nat]
<1>1. rates \in Seq(P)
  BY DEF RatesOk
<1> HIDE DEF P
<1>2. rates[i] \in P
  BY <1>1
<1>3. rates[i] \in [from : Nat, rate : Nat]
  BY <1>2 DEF P
<1> QED BY <1>3

LEMMA RatesLen ==
    ASSUME NEW rates, RatesOk(rates)
    PROVE  Len(rates) \in Nat
BY DEF RatesOk

\* Points that ascend one by one ascend.
LEMMA Ascending ==
    ASSUME NEW rates \in Seq([from : Nat, rate : Nat]), validate_rates(rates)
    PROVE  RatesOk(rates)
<1> SUFFICES ASSUME NEW i \in 1 .. Len(rates), NEW j \in 1 .. Len(rates), i < j,
                    ~(rates[i].from < rates[j].from)
             PROVE  FALSE
  BY DEF RatesOk
<1>0. Len(rates) \in Nat /\ \A k \in 1 .. Len(rates) : rates[k].from \in Nat
  <2> DEFINE P == [from : Nat, rate : Nat]
  <2> HIDE DEF P
  <2>0. rates \in Seq(P)
    BY DEF P
  <2>1. Len(rates) \in Nat /\ \A k \in 1 .. Len(rates) : rates[k] \in P
    BY <2>0
  <2> USE DEF P
  <2> QED BY <2>1
<1> DEFINE T == {k \in 1 .. Len(rates) : i < k /\ ~(rates[i].from < rates[k].from)}
<1>1. T \subseteq Nat /\ T # {}
  <2>1. j \in T
    OBVIOUS
  <2>2. \A k \in T : k \in Nat
    BY <1>0
  <2> HIDE DEF T
  <2> QED BY <2>1, <2>2
<1>2. PICK m \in T : \A x \in T : m <= x
  <2> HIDE DEF T
  <2> QED BY <1>1, SmallestNat
<1>3. m \in 1 .. Len(rates) /\ i < m /\ ~(rates[i].from < rates[m].from)
  OBVIOUS
<1>4. m - 1 \in 1 .. Len(rates) - 1 /\ m - 1 \in 1 .. Len(rates) /\ i <= m - 1 /\ (m - 1) + 1 = m
  BY <1>0, <1>3
<1>5. rates[m - 1].from < rates[m].from
  BY <1>4 DEF validate_rates
<1>6. m - 1 \notin T
  BY <1>2, <1>3, <1>0
<1> HIDE DEF T
<1>7. m - 1 = i \/ rates[i].from < rates[m - 1].from
  BY <1>4, <1>6, <1>0 DEF T
<1>8. rates[i].from \in Nat /\ rates[m].from \in Nat /\ rates[m - 1].from \in Nat
  BY <1>0, <1>3, <1>4
<1>9. \A x, y, z \in Nat : (x = y \/ x < y) /\ y < z => x < z
  OBVIOUS
<1>10. rates[i].from = rates[m - 1].from \/ rates[i].from < rates[m - 1].from
  BY <1>7
<1> QED BY <1>3, <1>5, <1>8, <1>9, <1>10

\* A point is found by where it starts.
LEMMA RateFor ==
    ASSUME NEW rates, RatesOk(rates), NEW i \in 1 .. Len(rates)
    PROVE  rate_for(rates, rates[i].from) = rates[i].rate
<1> DEFINE f == rates[i].from
           Found(p) == p \in ToSet(rates) /\ p.from = f
<1>1. DOMAIN rates = 1 .. Len(rates)
  BY DEF RatesOk
<1>2. ToSet(rates) = {rates[j] : j \in 1 .. Len(rates)}
  BY <1>1 DEF ToSet
<1>3. Found(rates[i])
  BY <1>2
<1>4. ASSUME NEW p, Found(p)  PROVE p = rates[i]
  <2>1. PICK j \in 1 .. Len(rates) : p = rates[j]
    BY <1>2, <1>4
  <2>2. rates[j].from = rates[i].from
    BY <1>4, <2>1
  <2>3. rates[j].from \in Nat /\ rates[i].from \in Nat /\ Len(rates) \in Nat
    BY RatePoint, RatesLen
  <2>4. j = i
    <3>1. ~(i < j) /\ ~(j < i)
      BY <2>2, <2>3 DEF RatesOk
    <3> QED BY <2>3, <3>1
  <2> QED BY <2>1, <2>4
<1>5. (CHOOSE p \in ToSet(rates) : p.from = f) = rates[i]
  BY <1>3, <1>4
<1> QED BY <1>5 DEF rate_for

-----------------------------------------------------------------------------
(* The closed form of an account *)

\* What the blocks of a segment add up to until a block, and what that earns.
Area(h, rates, i, T) == Total(h, BlocksOf(rates, i, T))

Worth(h, rates, dec, i, T) == scaled_integral(Area(h, rates, i, T), dec) * rates[i].rate

\* The segment is over at the block, or has begun and goes on.
Full(rates, i, T)    == i < Len(rates) /\ rates[i + 1].from <= T
Running(rates, i, T) == rates[i].from < T /\ (i < Len(rates) => T < rates[i + 1].from)

Earned(h, rates, dec, T) ==
    [i \in 1 .. Len(rates) |-> IF Full(rates, i, T) THEN Worth(h, rates, dec, i, T) ELSE 0]

Done(h, rates, dec, T) == Total(Earned(h, rates, dec, T), 1 .. Len(rates))

\* The record of an account.
Account(b, l, d, s, x) == [balance |-> b, last |-> l, done |-> d, seg |-> s, integral |-> x]

\* The running state of an account whose balances were h until block T.
At(a, h, rates, dec, T) ==
    /\ a = Account(a.balance, a.last, Done(h, rates, dec, T), a.seg, a.integral)
    /\ \A i \in 1 .. Len(rates) : Running(rates, i, T) =>
            a.seg = rates[i].from /\ a.integral = Area(h, rates, i, T)
    /\ (\A i \in 1 .. Len(rates) : ~Running(rates, i, T)) => a.seg = NoSegment /\ a.integral = 0

Held(h) == \A b \in Nat : h[b] \in Int

LEMMA BlocksFinite ==
    ASSUME NEW rates, NEW i, NEW T \in Nat
    PROVE  /\ IsFiniteSet(BlocksOf(rates, i, T)) /\ BlocksOf(rates, i, T) \subseteq Nat
           /\ BlocksOf(rates, i, T) \subseteq 0 .. T - 1
<1>1. BlocksOf(rates, i, T) \subseteq 0 .. T - 1
  BY DEF BlocksOf
<1>2. IsFiniteSet(0 .. T - 1)
  BY FS_Interval
<1>3. 0 .. T - 1 \subseteq Nat
  OBVIOUS
<1> QED BY <1>1, <1>2, <1>3, FS_Subset

LEMMA AreaInt ==
    ASSUME NEW h, Held(h), NEW rates, NEW i, NEW T \in Nat
    PROVE  Area(h, rates, i, T) \in Int
<1> DEFINE S == BlocksOf(rates, i, T)
<1>1. IsFiniteSet(S) /\ S \subseteq Nat
  BY BlocksFinite
<1> HIDE DEF S
<1>2. \A b \in S : h[b] \in Int
  BY <1>1 DEF Held
<1>3. Total(h, S) \in Int
  BY <1>1, <1>2, TotalInt
<1> QED BY <1>3 DEF Area, S

LEMMA WorthInt ==
    ASSUME NEW h, Held(h), NEW rates, RatesOk(rates), NEW dec \in Nat, NEW T \in Nat,
           NEW i \in 1 .. Len(rates)
    PROVE  Worth(h, rates, dec, i, T) \in Int
<1>1. Area(h, rates, i, T) \in Int
  BY AreaInt
<1>2. scaled_integral(Area(h, rates, i, T), dec) \in Int
  BY <1>1, ScaledIs
<1>3. rates[i].rate \in Int
  BY RatePoint
<1> DEFINE x == scaled_integral(Area(h, rates, i, T), dec)
           y == rates[i].rate
<1>4. x \in Int /\ y \in Int
  BY <1>2, <1>3
<1>5. Worth(h, rates, dec, i, T) = x * y
  BY DEF Worth
<1> HIDE DEF x, y
<1> QED BY <1>4, <1>5

\* A constant balance over an interval.
Level(h, lo, hi, bal) == \A b \in lo .. hi - 1 : h[b] = bal

Below(S, lo) == S \subseteq 0 .. lo - 1

Grows(h, S, R, bal, lo, hi) == Total(h, S \cup R) = Total(h, S) + bal * (hi - lo)

LEMMA IntervalTotal ==
    ASSUME NEW h, Held(h), NEW S, IsFiniteSet(S), NEW lo \in Nat, NEW hi \in Nat,
           Below(S, lo), lo <= hi, NEW bal \in Int, Level(h, lo, hi, bal)
    PROVE  Grows(h, S, lo .. hi - 1, bal, lo, hi)
<1>0. S \subseteq Nat /\ \A b \in lo .. hi - 1 : b \notin S /\ h[b] = bal
  BY DEF Level, Below
<1> DEFINE T == {x \in Nat : x <= hi - lo /\
                    Total(h, S \cup (lo .. (lo + x) - 1)) # Total(h, S) + bal * x}
<1>1. ASSUME T # {}  PROVE FALSE
  <2>1. PICK x \in T : \A y \in T : x <= y
    <3>1. T \subseteq Nat
      OBVIOUS
    <3> HIDE DEF T
    <3> QED BY <1>1, <3>1, SmallestNat
  <2>2. x \in Nat /\ x <= hi - lo
        /\ Total(h, S \cup (lo .. (lo + x) - 1)) # Total(h, S) + bal * x
    OBVIOUS
  <2>3. Total(h, S) \in Int
    BY <1>0, TotalInt DEF Held
  <2>4. x # 0
    <3>1. ASSUME x = 0  PROVE FALSE
      <4>1. S \cup (lo .. (lo + x) - 1) = S
        BY <3>1
      <4>2. bal * x = 0
        BY <3>1
      <4>3. \A y, z \in Int : z = 0 => y + z = y
        OBVIOUS
      <4>4. Total(h, S) + bal * x = Total(h, S)
        BY <2>3, <4>2, <4>3
      <4> HIDE DEF T
      <4> QED BY <2>2, <4>1, <4>4, Zenon
    <3> QED BY <3>1
  <2>5. x - 1 \in Nat /\ x - 1 <= hi - lo /\ x - 1 \notin T
    <3> HIDE DEF T
    <3> QED BY <2>1, <2>2, <2>4
  <2>6. Total(h, S \cup (lo .. (lo + (x - 1)) - 1)) = Total(h, S) + bal * (x - 1)
    BY <2>5
  <2> HIDE DEF T
  <2> DEFINE e == (lo + x) - 1
             R == S \cup (lo .. (lo + (x - 1)) - 1)
  <2>7. e \in lo .. hi - 1 /\ e \in Nat
    BY <2>2, <2>4
  <2>8. S \cup (lo .. (lo + x) - 1) = R \cup {e} /\ e \notin R
    <3>1. e \notin S
      BY <1>0, <2>7
    <3>2. lo .. (lo + x) - 1 = (lo .. (lo + (x - 1)) - 1) \cup {e}
      BY <2>2, <2>4
    <3>3. e \notin (lo .. (lo + (x - 1)) - 1)
      BY <2>2, <2>4
    <3> HIDE DEF e
    <3> QED BY <3>1, <3>2, <3>3
  <2>9. IsFiniteSet(R) /\ R \subseteq Nat
    <3>1. IsFiniteSet(lo .. (lo + (x - 1)) - 1)
      BY <2>2, FS_Interval
    <3>2. lo .. (lo + (x - 1)) - 1 \subseteq Nat
      OBVIOUS
    <3> QED BY <1>0, <3>1, <3>2, FS_Union
  <2>10. h[e] = bal
    BY <1>0, <2>7
  <2> HIDE DEF e, R
  <2>11. \A b \in R \cup {e} : h[b] \in Int
    BY <2>7, <2>9 DEF Held
  <2>12. Total(h, R \cup {e}) = h[e] + Total(h, R)
    BY <2>8, <2>9, <2>11, TotalAdd
  <2>13. Total(h, R) = Total(h, S) + bal * (x - 1)
    BY <2>6 DEF R
  <2>14. bal * (x - 1) + bal = bal * x /\ bal * (x - 1) \in Int
    BY <2>2
  <2>15. \A y, z, w, v \in Int : z + v = w => v + (y + z) = y + w
    OBVIOUS
  <2>16. Total(h, R \cup {e}) = Total(h, S) + bal * x
    <3>1. bal * x \in Int /\ bal * (x - 1) \in Int
      BY <2>2
    <3> QED BY <2>3, <2>10, <2>12, <2>13, <2>14, <2>15, <3>1
  <2> QED BY <2>2, <2>8, <2>16, Zenon
<1>2. hi - lo \in Nat
  OBVIOUS
<1>3. hi - lo \notin T
  BY <1>1
<1>4. (lo + (hi - lo)) - 1 = hi - 1
  OBVIOUS
<1>5. Total(h, S \cup (lo .. hi - 1)) = Total(h, S) + bal * (hi - lo)
  BY <1>2, <1>3, <1>4
<1> QED BY <1>5 DEF Grows

\* Blocks lo .. hi - 1 of segment i: what the other segments show of them.
LEMMA OtherSegment ==
    ASSUME NEW rates, RatesOk(rates), NEW i \in 1 .. Len(rates), NEW lo \in Nat, NEW hi \in Nat,
           rates[i].from <= lo, lo < hi, i < Len(rates) => hi <= rates[i + 1].from,
           NEW j \in 1 .. Len(rates), j # i
    PROVE  /\ ~Running(rates, j, lo) /\ ~Running(rates, j, hi)
           /\ Full(rates, j, lo) <=> Full(rates, j, hi)
           /\ BlocksOf(rates, j, lo) = BlocksOf(rates, j, hi)
<1>0. Len(rates) \in Nat /\ rates[i].from \in Nat /\ rates[j].from \in Nat
  BY RatePoint, RatesLen
<1>1. CASE j < i
  <2>1. j < Len(rates) /\ j + 1 \in 1 .. Len(rates) /\ (j + 1 = i \/ j + 1 < i)
    BY <1>0, <1>1
  <2>2. rates[j + 1].from \in Nat
    BY <2>1, RatePoint
  <2>3. rates[j + 1].from <= rates[i].from
    <3>1. j + 1 < i => rates[j + 1].from < rates[i].from
      BY <2>1 DEF RatesOk
    <3> QED BY <1>0, <2>1, <2>2, <3>1
  <2>4. rates[j + 1].from <= lo /\ rates[j + 1].from <= hi
    BY <1>0, <2>2, <2>3
  <2>5. ~Running(rates, j, lo) /\ ~Running(rates, j, hi)
    BY <2>1, <2>2, <2>4 DEF Running
  <2>6. Full(rates, j, lo) /\ Full(rates, j, hi)
    BY <2>1, <2>4 DEF Full
  <2>7. BlocksOf(rates, j, lo) = BlocksOf(rates, j, hi)
    <3>1. ASSUME NEW b \in 0 .. hi - 1, b < rates[j + 1].from  PROVE b \in 0 .. lo - 1
      BY <2>2, <2>4, <3>1
    <3>2. 0 .. lo - 1 \subseteq 0 .. hi - 1
      OBVIOUS
    <3> QED BY <2>1, <3>1, <3>2 DEF BlocksOf
  <2> QED BY <2>5, <2>6, <2>7
<1>2. CASE ~(j < i)
  <2>1. i < j /\ i < Len(rates) /\ i + 1 \in 1 .. Len(rates) /\ (i + 1 = j \/ i + 1 < j)
    BY <1>0, <1>2
  <2>2. rates[i + 1].from \in Nat
    BY <2>1, RatePoint
  <2>3. rates[i + 1].from <= rates[j].from
    <3>1. i + 1 < j => rates[i + 1].from < rates[j].from
      BY <2>1 DEF RatesOk
    <3> QED BY <1>0, <2>1, <2>2, <3>1
  <2>4. hi <= rates[j].from /\ lo < rates[j].from
    BY <1>0, <2>1, <2>2, <2>3
  <2>5. ~Running(rates, j, lo) /\ ~Running(rates, j, hi)
    BY <1>0, <2>4 DEF Running
  <2>6. ~Full(rates, j, lo) /\ ~Full(rates, j, hi)
    <3>1. ASSUME j < Len(rates)  PROVE rates[j + 1].from > hi /\ rates[j + 1].from > lo
      <4>1. j + 1 \in 1 .. Len(rates) /\ j < j + 1
        BY <1>0, <3>1
      <4>2. rates[j + 1].from \in Nat /\ rates[j].from < rates[j + 1].from
        BY <4>1, RatePoint DEF RatesOk
      <4> QED BY <1>0, <2>4, <4>2
    <3>2. j < Len(rates) => rates[j + 1].from \in Nat
      <4>1. j < Len(rates) => j + 1 \in 1 .. Len(rates)
        BY <1>0
      <4> QED BY <4>1, RatePoint
    <3> QED BY <3>1, <3>2 DEF Full
  <2>7. BlocksOf(rates, j, lo) = {} /\ BlocksOf(rates, j, hi) = {}
    BY <1>0, <2>4 DEF BlocksOf
  <2> QED BY <2>5, <2>6, <2>7
<1> QED BY <1>1, <1>2

\* ... and what their own segment shows.
LEMMA OwnSegment ==
    ASSUME NEW rates, RatesOk(rates), NEW i \in 1 .. Len(rates), NEW lo \in Nat, NEW hi \in Nat,
           rates[i].from <= lo, lo < hi, i < Len(rates) => hi <= rates[i + 1].from
    PROVE  /\ ~Full(rates, i, lo)
           /\ Full(rates, i, hi) <=> i < Len(rates) /\ hi = rates[i + 1].from
           /\ Running(rates, i, lo) <=> rates[i].from < lo
           /\ Running(rates, i, hi) <=> ~Full(rates, i, hi)
           /\ rates[i].from = lo => BlocksOf(rates, i, lo) = {}
           /\ BlocksOf(rates, i, hi) = BlocksOf(rates, i, lo) \cup (lo .. hi - 1)
<1>0. Len(rates) \in Nat /\ rates[i].from \in Nat
  BY RatePoint, RatesLen
<1>1. i < Len(rates) => rates[i + 1].from \in Nat
  <2>1. i < Len(rates) => i + 1 \in 1 .. Len(rates)
    BY <1>0
  <2> QED BY <2>1, RatePoint
<1>2. /\ ~Full(rates, i, lo)
      /\ Full(rates, i, hi) <=> i < Len(rates) /\ hi = rates[i + 1].from
  BY <1>0, <1>1 DEF Full
<1>3. /\ Running(rates, i, lo) <=> rates[i].from < lo
      /\ Running(rates, i, hi) <=> ~Full(rates, i, hi)
  BY <1>0, <1>1 DEF Full, Running
<1>4. rates[i].from = lo => BlocksOf(rates, i, lo) = {}
  BY <1>0 DEF BlocksOf
<1>5. BlocksOf(rates, i, hi) = BlocksOf(rates, i, lo) \cup (lo .. hi - 1)
  <2> DEFINE N(b) == i < Len(rates) => b < rates[i + 1].from
             F(b) == b >= rates[i].from
  <2>1. \A b \in lo .. hi - 1 : b \in 0 .. hi - 1 /\ F(b) /\ N(b)
    BY <1>0, <1>1
  <2>2. \A b \in 0 .. hi - 1 : b \in 0 .. lo - 1 \/ b \in lo .. hi - 1
    OBVIOUS
  <2>3. \A b \in 0 .. lo - 1 : b \in 0 .. hi - 1
    OBVIOUS
  <2>4. \A T \in {lo, hi} : BlocksOf(rates, i, T) = {b \in 0 .. T - 1 : F(b) /\ N(b)}
    BY DEF BlocksOf
  <2> HIDE DEF F, N
  <2> QED BY <2>1, <2>2, <2>3, <2>4
<1> QED BY <1>2, <1>3, <1>4, <1>5

\* Its fields, and what changing one of them gives.
LEMMA AccountFields ==
    ASSUME NEW b, NEW l, NEW d, NEW s, NEW x, NEW a, a = Account(b, l, d, s, x)
    PROVE  /\ a.balance = b /\ a.last = l /\ a.done = d /\ a.seg = s /\ a.integral = x
           /\ \A y : [a EXCEPT !.balance = y] = Account(y, l, d, s, x)
           /\ \A y : [a EXCEPT !.last = y] = Account(b, y, d, s, x)
           /\ \A y : [a EXCEPT !.done = y] = Account(b, l, y, s, x)
           /\ \A y : [a EXCEPT !.seg = y] = Account(b, l, d, y, x)
           /\ \A y : [a EXCEPT !.integral = y] = Account(b, l, d, s, y)
BY DEF Account

LEMMA FinalizeIs ==
    ASSUME NEW b, NEW l, NEW d, NEW s, NEW x, NEW a, a = Account(b, l, d, s, x),
           NEW rates, NEW dec
    PROVE  finalize_active(a, rates, dec) = Account(b, l, d + ActivePart(a, rates, dec), NoSegment, 0)
<1> DEFINE p == ActivePart(a, rates, dec)
<1>1. finalize_active(a, rates, dec) = [a EXCEPT !.done = @ + p, !.seg = NoSegment, !.integral = 0]
  BY DEF finalize_active
<1> HIDE DEF p
<1>2. PICK q : q = NoSegment
  OBVIOUS
<1>3. finalize_active(a, rates, dec) = [a EXCEPT !.done = @ + p, !.seg = q, !.integral = 0]
  BY <1>1, <1>2
<1>4. finalize_active(a, rates, dec) = Account(b, l, d + p, q, 0)
  BY <1>3 DEF Account
<1> QED BY <1>2, <1>4 DEF p

\* Sums of which one summand differs.
Ints(f, S)          == \A x \in S : f[x] \in Int
AllBut(f, g, S, e)  == \A x \in S : x # e => g[x] = f[x]

LEMMA TotalAllBut ==
    ASSUME NEW f, NEW g, NEW S, NEW e, IsFiniteSet(S), e \in S, Ints(f, S), Ints(g, S),
           AllBut(f, g, S, e)
    PROVE  Total(g, S) = Total(f, S) - f[e] + g[e]
BY TotalChange DEF Ints, AllBut

LEMMA EarnedInt ==
    ASSUME NEW h, Held(h), NEW rates, RatesOk(rates), NEW dec \in Nat, NEW T \in Nat,
           NEW i \in 1 .. Len(rates)
    PROVE  /\ Earned(h, rates, dec, T)[i] \in Int
           /\ Earned(h, rates, dec, T)[i] =
                IF Full(rates, i, T) THEN Worth(h, rates, dec, i, T) ELSE 0
<1>1. Earned(h, rates, dec, T)[i] = IF Full(rates, i, T) THEN Worth(h, rates, dec, i, T) ELSE 0
  BY Zenon DEF Earned
<1>2. Worth(h, rates, dec, i, T) \in Int
  BY WorthInt
<1> QED BY <1>1, <1>2

LEMMA DoneInt ==
    ASSUME NEW h, Held(h), NEW rates, RatesOk(rates), NEW dec \in Nat, NEW T \in Nat
    PROVE  Done(h, rates, dec, T) \in Int /\ IsFiniteSet(1 .. Len(rates))
<1> DEFINE f == Earned(h, rates, dec, T)
<1>1. \A i \in 1 .. Len(rates) : f[i] \in Int
  BY EarnedInt
<1>2. IsFiniteSet(1 .. Len(rates))
  BY RatesLen, FS_Interval
<1> HIDE DEF f
<1>3. Total(f, 1 .. Len(rates)) \in Int
  BY <1>1, <1>2, TotalInt
<1> QED BY <1>2, <1>3 DEF Done, f

\* Only the segment of the blocks lo .. hi - 1 can be over when they are.
LEMMA DoneGrows ==
    ASSUME NEW h, Held(h), NEW dec \in Nat,
           NEW rates, RatesOk(rates), NEW i \in 1 .. Len(rates), NEW lo \in Nat, NEW hi \in Nat,
           rates[i].from <= lo, lo < hi, i < Len(rates) => hi <= rates[i + 1].from
    PROVE  Done(h, rates, dec, hi) =
             Done(h, rates, dec, lo) +
               (IF Full(rates, i, hi) THEN Worth(h, rates, dec, i, hi) ELSE 0)
<1> DEFINE f == Earned(h, rates, dec, lo)
           g == Earned(h, rates, dec, hi)
           w == IF Full(rates, i, hi) THEN Worth(h, rates, dec, i, hi) ELSE 0
<1>1. \A j \in 1 .. Len(rates) : f[j] \in Int /\ g[j] \in Int
  BY EarnedInt
<1>2. ASSUME NEW j \in 1 .. Len(rates), j # i  PROVE g[j] = f[j]
  <2>1. (Full(rates, j, lo) <=> Full(rates, j, hi)) /\ BlocksOf(rates, j, lo) = BlocksOf(rates, j, hi)
    BY <1>2, OtherSegment
  <2>2. Worth(h, rates, dec, j, lo) = Worth(h, rates, dec, j, hi)
    BY <2>1, Zenon DEF Worth, Area
  <2>3. /\ f[j] = IF Full(rates, j, lo) THEN Worth(h, rates, dec, j, lo) ELSE 0
        /\ g[j] = IF Full(rates, j, hi) THEN Worth(h, rates, dec, j, hi) ELSE 0
    BY EarnedInt
  <2> HIDE DEF f, g
  <2> QED BY <2>1, <2>2, <2>3
<1>3. f[i] = 0 /\ g[i] = w
  <2>1. ~Full(rates, i, lo)
    BY OwnSegment
  <2> QED BY <2>1, EarnedInt
<1>4. IsFiniteSet(1 .. Len(rates)) /\ Done(h, rates, dec, lo) \in Int
  BY DoneInt
<1>5. Done(h, rates, dec, lo) = Total(f, 1 .. Len(rates))
      /\ Done(h, rates, dec, hi) = Total(g, 1 .. Len(rates))
  BY Zenon DEF Done
<1>6. w \in Int
  BY <1>1, <1>3
<1> HIDE DEF f, g, w
<1>7. Total(g, 1 .. Len(rates)) = Total(f, 1 .. Len(rates)) - f[i] + g[i]
  <2>1. Ints(f, 1 .. Len(rates)) /\ Ints(g, 1 .. Len(rates))
    BY <1>1 DEF Ints
  <2>2. AllBut(f, g, 1 .. Len(rates), i)
    BY <1>2 DEF AllBut
  <2> QED BY <1>4, <2>1, <2>2, TotalAllBut
<1>8. Done(h, rates, dec, hi) = Done(h, rates, dec, lo) + w
  <2>1. \A x, y \in Int : x - 0 + y = x + y
    OBVIOUS
  <2> QED BY <1>3, <1>4, <1>5, <1>6, <1>7, <2>1
<1> QED BY <1>8 DEF w

LEMMA AreaGrows ==
    ASSUME NEW h, Held(h), NEW rates, RatesOk(rates), NEW i \in 1 .. Len(rates),
           NEW lo \in Nat, NEW hi \in Nat,
           rates[i].from <= lo, lo < hi, i < Len(rates) => hi <= rates[i + 1].from,
           NEW bal \in Int, Level(h, lo, hi, bal)
    PROVE  Area(h, rates, i, hi) = Area(h, rates, i, lo) + bal * (hi - lo)
<1> DEFINE S == BlocksOf(rates, i, lo)
<1>1. IsFiniteSet(S) /\ S \subseteq Nat /\ S \subseteq 0 .. lo - 1
  BY BlocksFinite
<1>2. BlocksOf(rates, i, hi) = S \cup (lo .. hi - 1)
  BY OwnSegment
<1>3. Area(h, rates, i, lo) = Total(h, S) /\ Area(h, rates, i, hi) = Total(h, S \cup (lo .. hi - 1))
  BY <1>2, Zenon DEF Area
<1> HIDE DEF S
<1>4. lo <= hi /\ IsFiniteSet(S) /\ Below(S, lo)
  BY <1>1 DEF Below
<1>5. Grows(h, S, lo .. hi - 1, bal, lo, hi)
  BY <1>4, IntervalTotal
<1> QED BY <1>3, <1>5 DEF Grows

\* advance_segment opens the segment where none is running, and grows it.
LEMMA SegmentOpened ==
    ASSUME NEW h, NEW dec \in Nat, NEW rates, RatesOk(rates), NEW i \in 1 .. Len(rates),
           NEW lo \in Nat, NEW hi \in Nat,
           rates[i].from <= lo, lo < hi, i < Len(rates) => hi <= rates[i + 1].from,
           Held(h), NEW a, At(a, h, rates, dec, lo), NEW o,
           o = IF a.seg = rates[i].from THEN a
               ELSE [finalize_active(a, rates, dec) EXCEPT !.seg = rates[i].from]
    PROVE  o = Account(a.balance, a.last, Done(h, rates, dec, lo), rates[i].from,
                       Area(h, rates, i, lo))
<1>1. PICK bal, la, d, f, x :
         bal = a.balance /\ la = a.last /\ d = Done(h, rates, dec, lo) /\ f = rates[i].from
         /\ x = Area(h, rates, i, lo)
  BY Zenon
<1>2. f \in Nat /\ f # NoSegment /\ d \in Int /\ f <= lo
  <2>1. f \in Nat
    BY <1>1, RatePoint
  <2>2. d \in Int
    BY <1>1, DoneInt
  <2> QED BY <1>1, <2>1, <2>2 DEF NoSegment
<1>3. a = Account(bal, la, d, a.seg, a.integral)
  BY <1>1 DEF At
<1>4. CASE f < lo
  <2>1. Running(rates, i, lo)
    BY <1>1, <1>4, OwnSegment
  <2>2. a.seg = f /\ a.integral = x
    BY <1>1, <2>1 DEF At
  <2> QED BY <1>1, <1>3, <2>2
<1>5. CASE f = lo
  <2>1. \A j \in 1 .. Len(rates) : ~Running(rates, j, lo)
    <3>1. ~Running(rates, i, lo)
      <4>1. ~(rates[i].from < lo)
        BY <1>1, <1>2, <1>5
      <4> QED BY <4>1, OwnSegment
    <3> QED BY <3>1, OtherSegment
  <2>2. a.seg = NoSegment /\ a.integral = 0
    BY <2>1 DEF At
  <2>3. a = Account(bal, la, d, NoSegment, 0)
    BY <1>3, <2>2
  <2>4. ActivePart(a, rates, dec) = 0
    BY <2>2 DEF ActivePart
  <2>5. finalize_active(a, rates, dec) = Account(bal, la, d + 0, NoSegment, 0)
    BY <2>3, <2>4, FinalizeIs
  <2>6. d + 0 = d
    BY <1>2
  <2>7. PICK z : z = finalize_active(a, rates, dec)
    OBVIOUS
  <2>8. z = Account(bal, la, d, NoSegment, 0)
    BY <2>5, <2>6, <2>7
  <2>9. [z EXCEPT !.seg = f] = Account(bal, la, d, f, 0)
    BY <2>8, AccountFields
  <2>10. x = 0
    <3>1. BlocksOf(rates, i, lo) = {}
      <4>1. rates[i].from = lo
        BY <1>1, <1>5
      <4>2. rates[i].from = lo => BlocksOf(rates, i, lo) = {}
        BY OwnSegment
      <4> QED BY <4>1, <4>2
    <3>2. Area(h, rates, i, lo) = Total(h, {})
      BY <3>1 DEF Area
    <3> QED BY <1>1, <3>2, TotalEmpty
  <2>11. o = [z EXCEPT !.seg = f]
    BY <1>1, <1>2, <2>2, <2>7
  <2>12. o = Account(bal, la, d, f, x)
    BY <2>9, <2>10, <2>11
  <2> QED BY <1>1, <2>12
<1> QED BY <1>2, <1>4, <1>5

\* One rate segment of advance_account that has blocks to count.
LEMMA SegmentStep ==
    ASSUME NEW h, Held(h), NEW dec \in Nat, NEW rates, RatesOk(rates), NEW i \in 1 .. Len(rates),
           NEW to \in Nat, NEW a, a.last \in Nat, a.balance \in Int, NEW lo, NEW hi,
           lo = greater(a.last, rates[i].from),
           hi = IF i < Len(rates) THEN lesser(rates[i + 1].from, to) ELSE to,
           lo < hi, At(a, h, rates, dec, lo), Level(h, lo, hi, a.balance),
           NEW n, n = advance_segment(a, i, to, rates, dec)
    PROVE  At(n, h, rates, dec, hi) /\ n.balance = a.balance /\ n.last = a.last
<1>0. rates[i].from \in Nat /\ (i < Len(rates) => rates[i + 1].from \in Nat)
  <2>1. Len(rates) \in Nat
    BY RatesLen
  <2>2. i < Len(rates) => i + 1 \in 1 .. Len(rates)
    BY <2>1
  <2> QED BY <2>2, RatePoint
<1>1. /\ lo \in Nat /\ hi \in Nat /\ rates[i].from <= lo
      /\ i < Len(rates) => hi <= rates[i + 1].from
  BY <1>0 DEF greater, lesser
<1>2. PICK bal, la, d, f, x, y :
         bal = a.balance /\ la = a.last /\ d = Done(h, rates, dec, lo) /\ f = rates[i].from
         /\ x = Area(h, rates, i, lo) /\ y = Area(h, rates, i, hi)
  BY Zenon
<1>3. PICK o : o = IF a.seg = rates[i].from THEN a
                   ELSE [finalize_active(a, rates, dec) EXCEPT !.seg = rates[i].from]
  BY Zenon
<1>4. o = Account(bal, la, d, f, x)
  BY <1>1, <1>2, <1>3, SegmentOpened
<1>5. PICK g : g = [o EXCEPT !.integral = @ + a.balance * (hi - lo)]
  OBVIOUS
<1>6. g = Account(bal, la, d, f, y)
  <2>1. o.integral = x
    BY <1>4, AccountFields
  <2>2. y = x + bal * (hi - lo)
    <3>1. /\ Held(h) /\ RatesOk(rates) /\ i \in 1 .. Len(rates) /\ lo \in Nat /\ hi \in Nat
          /\ rates[i].from <= lo /\ lo < hi /\ (i < Len(rates) => hi <= rates[i + 1].from)
          /\ bal \in Int /\ Level(h, lo, hi, bal)
      BY <1>1, <1>2
    <3>2. Area(h, rates, i, hi) = Area(h, rates, i, lo) + bal * (hi - lo)
      BY ONLY <3>1, AreaGrows
    <3> QED BY <1>2, <3>2
  <2>3. g = [o EXCEPT !.integral = y]
    BY <1>2, <1>5, <2>1, <2>2, Zenon
  <2> QED BY <1>4, <2>3, AccountFields
<1>7. n = IF i < Len(rates) /\ hi = rates[i + 1].from THEN finalize_active(g, rates, dec) ELSE g
  <2>1. ~(lo >= hi)
    BY <1>1
  <2> DEFINE L == greater(a.last, rates[i].from)
             H == IF i < Len(rates) THEN lesser(rates[i + 1].from, to) ELSE to
             O == IF a.seg = rates[i].from THEN a
                  ELSE [finalize_active(a, rates, dec) EXCEPT !.seg = rates[i].from]
             G == [O EXCEPT !.integral = @ + a.balance * (H - L)]
  <2>2. n = IF L >= H THEN a
            ELSE IF i < Len(rates) /\ H = rates[i + 1].from THEN finalize_active(G, rates, dec)
            ELSE G
    BY Zenon DEF advance_segment
  <2>3. L = lo /\ H = hi /\ O = o
    BY <1>3, Zenon
  <2>4. G = [O EXCEPT !.integral = @ + a.balance * (H - L)]
    OBVIOUS
  <2> HIDE DEF L, H, O, G
  <2>5. G = g
    BY <1>5, <2>3, <2>4, Zenon
  <2> QED BY <2>1, <2>2, <2>3, <2>5, Zenon
<1>8. Done(h, rates, dec, hi) = d + (IF Full(rates, i, hi) THEN Worth(h, rates, dec, i, hi) ELSE 0)
  BY <1>1, <1>2, DoneGrows
<1>9. /\ Full(rates, i, hi) <=> i < Len(rates) /\ hi = rates[i + 1].from
      /\ Running(rates, i, hi) <=> ~Full(rates, i, hi)
  BY <1>1, OwnSegment
<1>10. \A j \in 1 .. Len(rates) : j # i => ~Running(rates, j, hi)
  BY <1>1, OtherSegment
<1>11. CASE Full(rates, i, hi)
  <2>1. n = Account(bal, la, d + ActivePart(g, rates, dec), NoSegment, 0)
    BY <1>6, <1>7, <1>9, <1>11, FinalizeIs
  <2>2. ActivePart(g, rates, dec) = Worth(h, rates, dec, i, hi)
    <3>1. g.seg = f /\ g.integral = y /\ f # NoSegment
      <4>1. g.seg = f /\ g.integral = y
        BY <1>6, AccountFields
      <4>2. f # NoSegment
        BY <1>0, <1>2 DEF NoSegment
      <4> QED BY <4>1, <4>2
    <3>2. rate_for(rates, f) = rates[i].rate
      BY <1>2, RateFor
    <3>3. ActivePart(g, rates, dec) = scaled_integral(y, dec) * rates[i].rate
      BY <3>1, <3>2 DEF ActivePart
    <3> QED BY <1>2, <3>3 DEF Worth
  <2>3. PICK e : e = Done(h, rates, dec, hi)
    OBVIOUS
  <2>4. n = Account(bal, la, e, NoSegment, 0)
    BY <1>8, <1>11, <2>1, <2>2, <2>3
  <2>5. n.balance = bal /\ n.last = la /\ n.seg = NoSegment /\ n.integral = 0
    BY <2>4, AccountFields
  <2>6. \A j \in 1 .. Len(rates) : ~Running(rates, j, hi)
    BY <1>9, <1>10, <1>11
  <2>7. At(n, h, rates, dec, hi)
    BY <2>3, <2>4, <2>5, <2>6 DEF At
  <2> QED BY <1>2, <2>5, <2>7
<1>12. CASE ~Full(rates, i, hi)
  <2>1. n = g
    BY <1>7, <1>9, <1>12
  <2>2. PICK e : e = Done(h, rates, dec, hi)
    OBVIOUS
  <2>3. e = d
    <3>1. d \in Int
      BY <1>1, <1>2, DoneInt
    <3> QED BY <1>8, <1>12, <2>2, <3>1
  <2>4. n.balance = bal /\ n.last = la /\ n.seg = f /\ n.integral = y /\ n = Account(bal, la, e, f, y)
    BY <1>6, <2>1, <2>3, AccountFields
  <2>5. \A j \in 1 .. Len(rates) : Running(rates, j, hi) => j = i
    BY <1>10
  <2>6. Running(rates, i, hi)
    BY <1>9, <1>12
  <2>7. n = Account(n.balance, n.last, Done(h, rates, dec, hi), n.seg, n.integral)
    BY <2>2, <2>4
  <2>8. \A j \in 1 .. Len(rates) : Running(rates, j, hi) =>
            n.seg = rates[j].from /\ n.integral = Area(h, rates, j, hi)
    BY <1>2, <2>4, <2>5
  <2>9. At(n, h, rates, dec, hi)
    BY <2>6, <2>7, <2>8 DEF At
  <2> QED BY <1>2, <2>4, <2>9
<1> QED BY <1>11, <1>12

-----------------------------------------------------------------------------
(* Moving an account *)

SegmentOf(to, rates, dec, i, a) == advance_segment(a, i, to, rates, dec)

\* The equation of advance_segments's recursive function, up to n.
Segments(a, to, rates, dec, n, f) ==
    f = [i \in 0 .. n |-> IF i = 0 THEN a ELSE SegmentOf(to, rates, dec, i, f[i - 1])]

LEMMA SegmentsAt ==
    ASSUME NEW a, NEW to, NEW rates, NEW dec, NEW n \in Nat, NEW f, Segments(a, to, rates, dec, n, f), NEW i \in 0 .. n
    PROVE  f[i] = IF i = 0 THEN a ELSE SegmentOf(to, rates, dec, i, f[i - 1])
<1> DEFINE F(j) == IF j = 0 THEN a ELSE SegmentOf(to, rates, dec, j, f[j - 1])
<1>1. f = [j \in 0 .. n |-> F(j)]
  BY DEF Segments
<1> HIDE DEF F
<1>2. f[i] = F(i)
  BY <1>1
<1> QED BY <1>2 DEF F

LEMMA SegmentsStart ==
    ASSUME NEW a, NEW to, NEW rates, NEW dec, NEW n \in Nat, NEW f, Segments(a, to, rates, dec, n, f)
    PROVE  f[0] = a
<1> DEFINE F(j) == IF j = 0 THEN a ELSE SegmentOf(to, rates, dec, j, f[j - 1])
<1>1. f = [j \in 0 .. n |-> F(j)]
  BY DEF Segments
<1>2. F(0) = a
  OBVIOUS
<1>3. 0 \in 0 .. n
  OBVIOUS
<1> HIDE DEF F
<1> QED BY <1>1, <1>2, <1>3

LEMMA SegmentsExist ==
    ASSUME NEW a, NEW to, NEW rates, NEW dec, NEW n \in Nat
    PROVE  \E f : Segments(a, to, rates, dec, n, f)
<1> DEFINE T == {m \in Nat : ~ \E f : Segments(a, to, rates, dec, m, f)}
<1> SUFFICES ASSUME T # {} PROVE FALSE
  OBVIOUS
<1>1. PICK m \in T : \A x \in T : m <= x
  <2>1. T \subseteq Nat
    OBVIOUS
  <2> HIDE DEF T
  <2> QED BY <2>1, SmallestNat
<1>2. m \in Nat /\ ~ \E f : Segments(a, to, rates, dec, m, f)
  OBVIOUS
<1>3. m # 0
  <2> DEFINE f == [i \in 0 .. 0 |-> a]
             F(i) == IF i = 0 THEN a ELSE SegmentOf(to, rates, dec, i, f[i - 1])
  <2>1. \A i \in 0 .. 0 : F(i) = a
    OBVIOUS
  <2> HIDE DEF F
  <2>2. f = [i \in 0 .. 0 |-> F(i)]
    BY <2>1
  <2>3. Segments(a, to, rates, dec, 0, f)
    BY <2>2 DEF Segments, F
  <2> HIDE DEF f
  <2> QED BY <1>2, <2>3
<1>4. m - 1 \in Nat /\ m - 1 \notin T
  <2> HIDE DEF T
  <2> QED BY <1>1, <1>2, <1>3
<1>5. PICK f : Segments(a, to, rates, dec, m - 1, f)
  BY <1>4
<1> DEFINE q == [i \in 0 .. m |-> IF i = m THEN SegmentOf(to, rates, dec, m, f[m - 1]) ELSE f[i]]
           F(i) == IF i = 0 THEN a ELSE SegmentOf(to, rates, dec, i, q[i - 1])
<1>6. ASSUME NEW i \in 0 .. m PROVE q[i] = F(i)
  <2>1. CASE i = m
    <3>1. m - 1 \in 0 .. m /\ m - 1 # m
      BY <1>2, <1>3
    <3> QED BY <1>3, <2>1, <3>1
  <2>2. CASE i # m
    <3>1. i \in 0 .. m - 1
      BY <1>2, <2>2
    <3>2. f[i] = IF i = 0 THEN a ELSE SegmentOf(to, rates, dec, i, f[i - 1])
      <4> DEFINE F0(j) == IF j = 0 THEN a ELSE SegmentOf(to, rates, dec, j, f[j - 1])
      <4>1. f = [j \in 0 .. m - 1 |-> F0(j)]
        BY <1>5 DEF Segments
      <4> HIDE DEF F0
      <4>2. f[i] = F0(i)
        BY <3>1, <4>1
      <4> QED BY <4>2 DEF F0
    <3>3. i # 0 => i - 1 \in 0 .. m /\ i - 1 # m
      BY <1>2, <2>2, <3>1
    <3> QED BY <2>2, <3>1, <3>2, <3>3
  <2> QED BY <2>1, <2>2
<1>7. q = [i \in 0 .. m |-> q[i]]
  OBVIOUS
<1> HIDE DEF q, F
<1>8. q = [i \in 0 .. m |-> F(i)]
  BY <1>6, <1>7
<1>9. Segments(a, to, rates, dec, m, q)
  BY <1>8 DEF Segments, F
<1> QED BY <1>2, <1>9

\* advance_segments solves its equation.
LEMMA SegmentsSolve ==
    ASSUME NEW a, NEW to, NEW rates, RatesOk(rates), NEW dec
    PROVE  Segments(a, to, rates, dec, Len(rates), advance_segments(a, to, rates, dec))
<1>1. advance_segments(a, to, rates, dec) = CHOOSE f : Segments(a, to, rates, dec, Len(rates), f)
  BY DEF advance_segments, Segments, SegmentOf
<1>2. \E f : Segments(a, to, rates, dec, Len(rates), f)
  BY RatesLen, SegmentsExist
<1> QED BY <1>1, <1>2

\* Before the first segment nothing is earned.
LEMMA AtIdle ==
    ASSUME NEW h, Held(h), NEW dec \in Nat, NEW rates, RatesOk(rates), NEW S \in Nat, NEW T \in Nat,
           Len(rates) > 0 => S <= rates[1].from /\ T <= rates[1].from,
           NEW a, At(a, h, rates, dec, S)
    PROVE  At(a, h, rates, dec, T)
<1>1. ASSUME NEW U \in {S, T}, NEW i \in 1 .. Len(rates)
      PROVE  ~Running(rates, i, U) /\ ~Full(rates, i, U)
  <2>0. Len(rates) \in Nat /\ 1 \in 1 .. Len(rates) /\ Len(rates) > 0 /\ U \in Nat
    BY RatesLen
  <2>1. rates[1].from \in Nat /\ rates[i].from \in Nat
    BY <2>0, RatePoint
  <2>2. U <= rates[1].from
    BY <2>0
  <2>3. rates[1].from <= rates[i].from
    <3>1. 1 < i => rates[1].from < rates[i].from
      BY <2>0 DEF RatesOk
    <3>2. 1 < i \/ i = 1
      BY <2>0
    <3> QED BY <2>1, <3>1, <3>2
  <2>4. ~Running(rates, i, U)
    BY <2>0, <2>1, <2>2, <2>3 DEF Running
  <2>5. ASSUME i < Len(rates)  PROVE rates[1].from < rates[i + 1].from /\ rates[i + 1].from \in Nat
    <3>1. i + 1 \in 1 .. Len(rates) /\ 1 < i + 1
      BY <2>0, <2>5
    <3> QED BY <2>0, <3>1, RatePoint DEF RatesOk
  <2>6. ~Full(rates, i, U)
    BY <2>0, <2>1, <2>2, <2>5 DEF Full
  <2> QED BY <2>4, <2>6
<1>2. ASSUME NEW U \in {S, T}  PROVE Done(h, rates, dec, U) = 0
  <2> DEFINE f == Earned(h, rates, dec, U)
  <2>1. \A i \in 1 .. Len(rates) : f[i] = 0
    BY <1>1, EarnedInt
  <2>2. IsFiniteSet(1 .. Len(rates))
    BY DoneInt
  <2> HIDE DEF f
  <2>3. Total(f, 1 .. Len(rates)) = 0
    BY <2>1, <2>2, TotalZero
  <2> QED BY <2>3 DEF f, Done
<1>3. Done(h, rates, dec, S) = Done(h, rates, dec, T)
  BY <1>2
<1>4. \A i \in 1 .. Len(rates) : ~Running(rates, i, S) /\ ~Running(rates, i, T)
  BY <1>1
<1> QED BY <1>3, <1>4 DEF At

\* Where an account at block L that moves to block to is after i segments.
Position(rates, L, to, i) ==
    IF i = Len(rates) THEN to ELSE greater(L, lesser(to, rates[i + 1].from))

SegmentLow(rates, L, i)   == greater(L, rates[i].from)
SegmentHigh(rates, to, i) == IF i < Len(rates) THEN lesser(rates[i + 1].from, to) ELSE to

LEMMA Positions ==
    ASSUME NEW rates, RatesOk(rates), NEW L \in Nat, NEW to \in Nat, L <= to,
           NEW i \in 1 .. Len(rates)
    PROVE  LET lo == SegmentLow(rates, L, i)
               hi == SegmentHigh(rates, to, i)
           IN  /\ lo \in Nat /\ hi \in Nat /\ L <= lo /\ hi <= to
               /\ lo >= hi => Position(rates, L, to, i) = Position(rates, L, to, i - 1)
               /\ lo < hi => Position(rates, L, to, i - 1) = lo /\ Position(rates, L, to, i) = hi
<1>1. Len(rates) \in Nat /\ rates[i].from \in Nat /\ i \in Nat
  BY RatesLen, RatePoint
<1>2. i - 1 # Len(rates) /\ (i - 1) + 1 = i
  BY <1>1
<1>3. Position(rates, L, to, i - 1) = greater(L, lesser(to, rates[i].from))
  BY <1>2 DEF Position
<1>4. CASE i = Len(rates)
  BY <1>1, <1>3, <1>4 DEF Position, SegmentLow, SegmentHigh, greater, lesser
<1>5. CASE i # Len(rates)
  <2>1. i < Len(rates) /\ i + 1 \in 1 .. Len(rates) /\ i < i + 1
    BY <1>1, <1>5
  <2>2. rates[i + 1].from \in Nat /\ rates[i].from < rates[i + 1].from
    BY <2>1, RatePoint DEF RatesOk
  <2>3. /\ Position(rates, L, to, i) = greater(L, lesser(to, rates[i + 1].from))
        /\ SegmentHigh(rates, to, i) = lesser(rates[i + 1].from, to)
        /\ SegmentLow(rates, L, i) = greater(L, rates[i].from)
    BY <1>5, <2>1 DEF Position, SegmentHigh, SegmentLow
  <2> QED BY <1>1, <1>3, <2>2, <2>3, SMTT(20) DEF greater, lesser
<1> QED BY <1>4, <1>5

\* An account that moves over blocks in which its balance did not change.
LEMMA AdvanceAt ==
    ASSUME NEW h, Held(h), NEW dec \in Nat, NEW rates, RatesOk(rates), NEW to \in Nat,
           NEW a, a.last \in Nat, a.balance \in Int, a.last <= to,
           At(a, h, rates, dec, a.last), Level(h, a.last, to, a.balance),
           NEW n, n = advance_account(a, to, rates, dec)
    PROVE  At(n, h, rates, dec, to) /\ n.balance = a.balance /\ n.last = to
<1>1. PICK L, bal, f : L = a.last /\ bal = a.balance /\ f = advance_segments(a, to, rates, dec)
  BY Zenon
<1>2. Segments(a, to, rates, dec, Len(rates), f) /\ Len(rates) \in Nat
  BY <1>1, SegmentsSolve, RatesLen
<1>3. L \in Nat /\ L <= to /\ bal \in Int
  BY <1>1
<1> DEFINE Good(i) == /\ At(f[i], h, rates, dec, Position(rates, L, to, i))
                      /\ f[i].balance = bal /\ f[i].last = L
           T == {i \in 0 .. Len(rates) : ~Good(i)}
<1>4. Good(0)
  <2>1. f[0] = a
    BY <1>2, SegmentsStart
  <2>2. Len(rates) > 0 => rates[1].from \in Nat
    BY <1>2, RatePoint
  <2>3. Position(rates, L, to, 0) \in Nat
        /\ \/ Position(rates, L, to, 0) = L
           \/ Len(rates) > 0 => L <= rates[1].from /\ Position(rates, L, to, 0) <= rates[1].from
    BY <1>2, <1>3, <2>2 DEF Position, greater, lesser
  <2>4. At(a, h, rates, dec, Position(rates, L, to, 0))
    BY <1>1, <1>3, <2>3, AtIdle
  <2> QED BY <1>1, <2>1, <2>4
<1>5. ASSUME NEW i \in 1 .. Len(rates), Good(i - 1)  PROVE Good(i)
  <2>1. PICK p, q : p = f[i - 1] /\ q = f[i]
    BY Zenon
  <2>2. q = advance_segment(p, i, to, rates, dec)
    <3>1. i \in 0 .. Len(rates) /\ i # 0
      BY <1>2
    <3>2. f[i] = SegmentOf(to, rates, dec, i, f[i - 1])
      BY <1>2, <3>1, SegmentsAt
    <3> QED BY <2>1, <3>2 DEF SegmentOf
  <2>3. PICK lo, hi : lo = SegmentLow(rates, L, i) /\ hi = SegmentHigh(rates, to, i)
    BY Zenon
  <2>4. /\ lo \in Nat /\ hi \in Nat /\ L <= lo /\ hi <= to
        /\ lo >= hi => Position(rates, L, to, i) = Position(rates, L, to, i - 1)
        /\ lo < hi => Position(rates, L, to, i - 1) = lo /\ Position(rates, L, to, i) = hi
    BY <1>3, <2>3, Positions
  <2>5. /\ At(p, h, rates, dec, Position(rates, L, to, i - 1))
        /\ p.balance = bal /\ p.last = L
    BY <1>5, <2>1
  <2>6. /\ lo = greater(p.last, rates[i].from)
        /\ hi = IF i < Len(rates) THEN lesser(rates[i + 1].from, to) ELSE to
    BY <2>3, <2>5, Zenon DEF SegmentLow, SegmentHigh
  <2> HIDE DEF Good
  <2>7. CASE lo >= hi
    <3>1. q = p
      BY <2>2, <2>6, <2>7 DEF advance_segment
    <3> QED BY <2>1, <2>4, <2>5, <2>7, <3>1 DEF Good
  <2>8. CASE lo < hi
    <3>1. Level(h, lo, hi, bal)
      <4>1. Level(h, L, to, bal)
        BY <1>1
      <4>2. lo .. hi - 1 \subseteq L .. to - 1
        BY <1>3, <2>4
      <4> QED BY <4>1, <4>2 DEF Level
    <3>2. At(p, h, rates, dec, lo)
      BY <2>4, <2>5, <2>8
    <3>3. At(q, h, rates, dec, hi) /\ q.balance = p.balance /\ q.last = p.last
      <4>1. p.last \in Nat /\ p.balance \in Int /\ Level(h, lo, hi, p.balance)
        BY <1>1, <1>3, <2>5, <3>1
      <4> QED BY <2>2, <2>6, <2>8, <3>2, <4>1, SegmentStep
    <3> QED BY <2>1, <2>4, <2>5, <2>8, <3>3 DEF Good
  <2> QED BY <2>4, <2>7, <2>8
<1>6. Good(Len(rates))
  <2> SUFFICES ASSUME ~Good(Len(rates))  PROVE FALSE
    OBVIOUS
  <2> HIDE DEF Good
  <2>1. T \subseteq Nat /\ T # {}
    <3>1. Len(rates) \in T
      BY <1>2
    <3>2. 0 .. Len(rates) \subseteq Nat
      OBVIOUS
    <3> QED BY <3>1, <3>2
  <2>2. PICK m \in T : \A x \in T : m <= x
    <3> HIDE DEF T
    <3> QED BY <2>1, SmallestNat
  <2>3. m \in 0 .. Len(rates) /\ ~Good(m) /\ m # 0
    BY <1>4
  <2>4. m \in 1 .. Len(rates) /\ m - 1 \in 0 .. Len(rates) /\ ~(m <= m - 1)
    BY <1>2, <2>3
  <2>5. Good(m - 1)
    BY <2>2, <2>4
  <2> HIDE DEF T
  <2> QED BY <1>5, <2>3, <2>4, <2>5
<1>7. PICK e : e = f[Len(rates)]
  OBVIOUS
<1>8. At(e, h, rates, dec, to) /\ e.balance = bal
  BY <1>6, <1>7 DEF Position
<1>9. n = [e EXCEPT !.last = to]
  BY <1>1, <1>7 DEF advance_account
<1>10. PICK d, s, x : d = Done(h, rates, dec, to) /\ s = e.seg /\ x = e.integral
  BY Zenon
<1>11. e = Account(bal, e.last, d, s, x)
  BY <1>8, <1>10 DEF At
<1>12. n = Account(bal, to, d, s, x)
  BY <1>9, <1>11, AccountFields
<1>13. n.balance = bal /\ n.last = to /\ n.seg = e.seg /\ n.integral = e.integral
  BY <1>10, <1>12, AccountFields
<1>14. n = Account(n.balance, n.last, Done(h, rates, dec, to), n.seg, n.integral)
  BY <1>10, <1>12, <1>13
<1>15. At(n, h, rates, dec, to)
  BY <1>8, <1>13, <1>14 DEF At
<1> QED BY <1>1, <1>13, <1>15

-----------------------------------------------------------------------------
(* What the closed form depends on *)

\* The closed form determines an account.
LEMMA AtUnique ==
    ASSUME NEW h, NEW rates, NEW dec, NEW T, NEW a, NEW b, At(a, h, rates, dec, T),
           At(b, h, rates, dec, T), a.balance = b.balance, a.last = b.last
    PROVE  a = b
<1>1. a.seg = b.seg /\ a.integral = b.integral
  <2>1. CASE \E i \in 1 .. Len(rates) : Running(rates, i, T)
    BY <2>1 DEF At
  <2>2. CASE \A i \in 1 .. Len(rates) : ~Running(rates, i, T)
    BY <2>2 DEF At
  <2> QED BY <2>1, <2>2
<1>2. a = Account(a.balance, a.last, Done(h, rates, dec, T), a.seg, a.integral)
  BY DEF At
<1>3. b = Account(b.balance, b.last, Done(h, rates, dec, T), b.seg, b.integral)
  BY DEF At
<1> QED BY <1>1, <1>2, <1>3, Zenon

\* Only the balances before the block count.
Agree(h, g, T) == \A b \in 0 .. T - 1 : h[b] = g[b]

LEMMA AreaAgrees ==
    ASSUME NEW h, NEW g, Held(h), NEW T \in Nat, Agree(h, g, T), NEW rates, NEW i
    PROVE  Area(h, rates, i, T) = Area(g, rates, i, T)
<1> DEFINE S == BlocksOf(rates, i, T)
<1>1. IsFiniteSet(S) /\ S \subseteq Nat /\ S \subseteq 0 .. T - 1
  BY BlocksFinite
<1> HIDE DEF S
<1>2. \A b \in S : h[b] \in Int /\ h[b] = g[b]
  BY <1>1 DEF Held, Agree
<1>3. Total(h, S) = Total(g, S)
  BY <1>1, <1>2, TotalSame
<1> QED BY <1>3 DEF Area, S

LEMMA AtHeld ==
    ASSUME NEW h, NEW g, Held(h), NEW T \in Nat, Agree(h, g, T), NEW rates, NEW dec,
           NEW a, At(a, h, rates, dec, T)
    PROVE  At(a, g, rates, dec, T)
<1>1. \A i \in 1 .. Len(rates) : Area(h, rates, i, T) = Area(g, rates, i, T)
  BY AreaAgrees
<1>2. \A i \in 1 .. Len(rates) : Worth(h, rates, dec, i, T) = Worth(g, rates, dec, i, T)
  BY <1>1 DEF Worth
<1>3. Earned(h, rates, dec, T) = Earned(g, rates, dec, T)
  BY <1>2, Zenon DEF Earned
<1>4. Done(h, rates, dec, T) = Done(g, rates, dec, T)
  BY <1>3 DEF Done
<1> QED BY <1>1, <1>4 DEF At

\* One segment runs at a block.
LEMMA RunningUnique ==
    ASSUME NEW rates, RatesOk(rates), NEW T \in Nat, NEW i \in 1 .. Len(rates),
           NEW j \in 1 .. Len(rates), Running(rates, i, T), Running(rates, j, T)
    PROVE  i = j
<1>1. ASSUME NEW x \in 1 .. Len(rates), NEW y \in 1 .. Len(rates), x < y,
             Running(rates, x, T), Running(rates, y, T)
      PROVE  FALSE
  <2>1. Len(rates) \in Nat /\ rates[x].from \in Nat /\ rates[y].from \in Nat
    BY RatesLen, RatePoint
  <2>2. x < Len(rates) /\ x + 1 \in 1 .. Len(rates) /\ (x + 1 = y \/ x + 1 < y)
    BY <1>1, <2>1
  <2>3. rates[x + 1].from \in Nat /\ (x + 1 < y => rates[x + 1].from < rates[y].from)
    BY <2>2, RatePoint DEF RatesOk
  <2>4. T < rates[x + 1].from /\ rates[y].from < T
    BY <1>1, <2>2 DEF Running
  <2>5. rates[x + 1].from <= rates[y].from
    BY <2>1, <2>2, <2>3
  <2> QED BY <2>1, <2>3, <2>4, <2>5
<1>2. Len(rates) \in Nat
  BY RatesLen
<1>3. ~(i < j) /\ ~(j < i)
  BY <1>1
<1> QED BY <1>2, <1>3

\* A segment that has not begun is worth nothing.
LEMMA WorthNothing ==
    ASSUME NEW h, NEW dec \in Nat, NEW rates, RatesOk(rates), NEW T \in Nat,
           NEW i \in 1 .. Len(rates), BlocksOf(rates, i, T) = {}
    PROVE  Worth(h, rates, dec, i, T) = 0
<1>1. Area(h, rates, i, T) = 0
  BY TotalEmpty DEF Area
<1>2. scaled_integral(0, dec) = 0
  <2>1. 0 \in Int
    OBVIOUS
  <2> QED BY <2>1, ScaledIs
<1>3. rates[i].rate \in Nat
  BY RatePoint
<1>4. Worth(h, rates, dec, i, T) = 0 * rates[i].rate
  BY <1>1, <1>2 DEF Worth
<1>5. \A x \in Nat : 0 * x = 0
  OBVIOUS
<1> QED BY <1>3, <1>4, <1>5

LEMMA NotBegun ==
    ASSUME NEW rates, RatesOk(rates), NEW T \in Nat, NEW i \in 1 .. Len(rates),
           ~Full(rates, i, T), ~Running(rates, i, T)
    PROVE  BlocksOf(rates, i, T) = {}
<1>1. rates[i].from \in Nat /\ Len(rates) \in Nat
  BY RatePoint, RatesLen
<1>2. i < Len(rates) => rates[i + 1].from \in Nat
  <2>1. i < Len(rates) => i + 1 \in 1 .. Len(rates)
    BY <1>1
  <2> QED BY <2>1, RatePoint
<1>3. T <= rates[i].from
  BY <1>1, <1>2 DEF Full, Running
<1> QED BY <1>1, <1>3 DEF BlocksOf

Worths(h, rates, dec, T) == [i \in 1 .. Len(rates) |-> Worth(h, rates, dec, i, T)]

\* projected_numerator adds the running segment: every segment counts.
LEMMA Projection ==
    ASSUME NEW h, Held(h), NEW dec \in Nat, NEW rates, RatesOk(rates), NEW T \in Nat,
           NEW a, At(a, h, rates, dec, T)
    PROVE  a.done + ActivePart(a, rates, dec) = Total(Worths(h, rates, dec, T), 1 .. Len(rates))
<1> DEFINE f == Earned(h, rates, dec, T)
           g == Worths(h, rates, dec, T)
           I == 1 .. Len(rates)
<1>1. \A j \in I : g[j] = Worth(h, rates, dec, j, T) /\ g[j] \in Int /\ f[j] \in Int
  BY EarnedInt, WorthInt DEF Worths
<1>2. ASSUME NEW j \in I, ~Running(rates, j, T)  PROVE g[j] = f[j]
  <2>1. f[j] = IF Full(rates, j, T) THEN Worth(h, rates, dec, j, T) ELSE 0
    BY EarnedInt
  <2>2. ~Full(rates, j, T) => Worth(h, rates, dec, j, T) = 0
    BY <1>2, NotBegun, WorthNothing
  <2> QED BY <1>1, <2>1, <2>2
<1>3. IsFiniteSet(I) /\ Done(h, rates, dec, T) \in Int
  BY DoneInt
<1>4. a.done = Done(h, rates, dec, T) /\ Done(h, rates, dec, T) = Total(f, I)
  <2>1. PICK b, l, d, s, x : b = a.balance /\ l = a.last /\ d = Done(h, rates, dec, T)
                             /\ s = a.seg /\ x = a.integral
    BY Zenon
  <2>2. a = Account(b, l, d, s, x)
    BY <2>1 DEF At
  <2>3. a.done = d
    BY <2>2, AccountFields
  <2>4. Done(h, rates, dec, T) = Total(f, I)
    BY Zenon DEF Done
  <2> QED BY <2>1, <2>3, <2>4
<1>5. CASE \A j \in I : ~Running(rates, j, T)
  <2>1. a.seg = NoSegment
    BY <1>5 DEF At
  <2>2. ActivePart(a, rates, dec) = 0
    BY <2>1 DEF ActivePart
  <2>3. \A j \in I : f[j] \in Int /\ f[j] = g[j]
    BY <1>1, <1>2, <1>5
  <2> HIDE DEF f, g, I
  <2>4. Total(f, I) = Total(g, I)
    BY <1>3, <2>3, TotalSame
  <2>5. \A x \in Int : x + 0 = x
    OBVIOUS
  <2>6. a.done + ActivePart(a, rates, dec) = Total(g, I)
    BY <1>3, <1>4, <2>2, <2>4, <2>5
  <2> QED BY <2>6 DEF g, I
<1>6. ASSUME NEW r \in I, Running(rates, r, T)
      PROVE  a.done + ActivePart(a, rates, dec) = Total(g, I)
  <2>1. f[r] = 0
    <3>1. ~Full(rates, r, T)
      <4>1. r < Len(rates) => T < rates[r + 1].from
        BY <1>6 DEF Running
      <4>2. r < Len(rates) => rates[r + 1].from \in Nat
        <5>1. r < Len(rates) => r + 1 \in 1 .. Len(rates)
          BY RatesLen
        <5> QED BY <5>1, RatePoint
      <4> QED BY <4>1, <4>2 DEF Full
    <3> QED BY <3>1, EarnedInt
  <2>2. ActivePart(a, rates, dec) = g[r]
    <3>1. a.seg = rates[r].from /\ a.integral = Area(h, rates, r, T)
      BY <1>6 DEF At
    <3>2. rates[r].from # NoSegment
      BY RatePoint DEF NoSegment
    <3>3. rate_for(rates, rates[r].from) = rates[r].rate
      BY RateFor
    <3>4. ActivePart(a, rates, dec) = scaled_integral(Area(h, rates, r, T), dec) * rates[r].rate
      BY <3>1, <3>2, <3>3 DEF ActivePart
    <3> QED BY <1>1, <3>4 DEF Worth
  <2>3. Ints(f, I) /\ Ints(g, I)
    BY <1>1 DEF Ints
  <2>4. AllBut(f, g, I, r)
    <3>1. ASSUME NEW j \in I, j # r  PROVE g[j] = f[j]
      <4>1. ~Running(rates, j, T)
        BY <1>6, <3>1, RunningUnique
      <4> QED BY <1>2, <4>1
    <3> QED BY <3>1 DEF AllBut
  <2>5. f[r] \in Int /\ g[r] \in Int
    BY <1>1
  <2> HIDE DEF f, g, I
  <2>6. Total(g, I) = Total(f, I) - f[r] + g[r]
    BY <1>3, <2>3, <2>4, TotalAllBut
  <2>7. \A x, y \in Int : x - 0 + y = x + y
    OBVIOUS
  <2> QED BY <1>3, <1>4, <2>1, <2>2, <2>5, <2>6, <2>7
<1> QED BY <1>5, <1>6, Zenon

\* Rates that are added for later blocks change nothing.
Longer(rates, more, c) ==
    /\ Len(rates) <= Len(more)
    /\ \A i \in 1 .. Len(rates) : more[i] = rates[i]
    /\ \A i \in Len(rates) + 1 .. Len(more) : more[i].from > c

\* Nothing is added.
LEMMA LongerSelf ==
    ASSUME NEW a, RatesOk(a), NEW c
    PROVE  Longer(a, a, c)
<1>1. Len(a) \in Nat
  BY RatesLen
<1> QED BY <1>1 DEF Longer

LEMMA LongerSegment ==
    ASSUME NEW rates, RatesOk(rates), NEW more, RatesOk(more), NEW c \in Nat,
           Longer(rates, more, c), NEW T \in Nat, T <= c, NEW i \in 1 .. Len(rates)
    PROVE  /\ i \in 1 .. Len(more) /\ more[i] = rates[i]
           /\ Full(rates, i, T) <=> Full(more, i, T)
           /\ Running(rates, i, T) <=> Running(more, i, T)
           /\ BlocksOf(rates, i, T) = BlocksOf(more, i, T)
<1>0. Len(rates) \in Nat /\ Len(more) \in Nat /\ rates[i].from \in Nat /\ i \in Nat
  BY RatesLen, RatePoint
<1>1. i \in 1 .. Len(more) /\ more[i] = rates[i]
  BY <1>0 DEF Longer
<1>2. CASE i < Len(rates)
  <2>1. i + 1 \in 1 .. Len(rates) /\ i < Len(more)
    BY <1>0, <1>2 DEF Longer
  <2>2. more[i + 1] = rates[i + 1]
    BY <2>1 DEF Longer
  <2>3. Full(rates, i, T) <=> Full(more, i, T)
    BY <1>2, <2>1, <2>2 DEF Full
  <2>4. Running(rates, i, T) <=> Running(more, i, T)
    BY <1>1, <1>2, <2>1, <2>2 DEF Running
  <2>5. BlocksOf(rates, i, T) = BlocksOf(more, i, T)
    BY <1>1, <1>2, <2>1, <2>2 DEF BlocksOf
  <2> QED BY <1>1, <2>3, <2>4, <2>5
<1>3. CASE i = Len(rates)
  <2>1. ASSUME i < Len(more)  PROVE more[i + 1].from \in Nat /\ T < more[i + 1].from
    <3>1. i + 1 \in Len(rates) + 1 .. Len(more) /\ i + 1 \in 1 .. Len(more)
      BY <1>0, <1>3, <2>1
    <3>2. more[i + 1].from \in Nat /\ more[i + 1].from > c
      BY <3>1, RatePoint DEF Longer
    <3> QED BY <3>2
  <2>2. ~(i < Len(rates))
    BY <1>0, <1>3
  <2>3. Full(rates, i, T) <=> Full(more, i, T)
    BY <2>1, <2>2 DEF Full
  <2>4. Running(rates, i, T) <=> Running(more, i, T)
    BY <1>1, <2>1, <2>2 DEF Running
  <2>5. BlocksOf(rates, i, T) = BlocksOf(more, i, T)
    <3>1. \A b \in 0 .. T - 1 : i < Len(more) => b < more[i + 1].from
      BY <2>1
    <3> QED BY <1>1, <2>2, <3>1 DEF BlocksOf
  <2> QED BY <1>1, <2>3, <2>4, <2>5
<1> QED BY <1>0, <1>2, <1>3

LEMMA LongerNew ==
    ASSUME NEW rates, RatesOk(rates), NEW more, RatesOk(more), NEW c \in Nat,
           Longer(rates, more, c), NEW T \in Nat, T <= c,
           NEW i \in 1 .. Len(more), i \notin 1 .. Len(rates)
    PROVE  ~Full(more, i, T) /\ ~Running(more, i, T)
<1>0. Len(rates) \in Nat /\ Len(more) \in Nat /\ more[i].from \in Nat
  BY RatesLen, RatePoint
<1>1. i \in Len(rates) + 1 .. Len(more)
  BY <1>0
<1>2. T < more[i].from
  <2>1. more[i].from > c
    BY <1>1 DEF Longer
  <2> QED BY <1>0, <2>1
<1>3. ASSUME i < Len(more)  PROVE more[i + 1].from \in Nat /\ T < more[i + 1].from
  <2>1. i + 1 \in 1 .. Len(more) /\ i < i + 1
    BY <1>0, <1>3
  <2>2. more[i + 1].from \in Nat /\ more[i].from < more[i + 1].from
    BY <2>1, RatePoint DEF RatesOk
  <2> QED BY <1>0, <1>2, <2>2
<1> QED BY <1>0, <1>2, <1>3 DEF Full, Running

LEMMA AtLonger ==
    ASSUME NEW h, Held(h), NEW dec \in Nat, NEW rates, RatesOk(rates), NEW more, RatesOk(more),
           NEW c \in Nat, Longer(rates, more, c), NEW T \in Nat, T <= c,
           NEW a, At(a, h, rates, dec, T)
    PROVE  At(a, h, more, dec, T)
<1> DEFINE f == Earned(h, rates, dec, T)
           g == Earned(h, more, dec, T)
           R == 1 .. Len(rates)
           M == 1 .. Len(more)
<1>1. IsFiniteSet(R) /\ IsFiniteSet(M) /\ R \subseteq M
  <2>1. Len(rates) \in Nat /\ Len(more) \in Nat /\ Len(rates) <= Len(more)
    BY RatesLen DEF Longer
  <2>2. R \subseteq M
    BY <2>1
  <2> QED BY <2>1, <2>2, FS_Interval
<1>2. ASSUME NEW i \in R  PROVE f[i] \in Int /\ f[i] = g[i]
  <2>1. /\ i \in M /\ more[i] = rates[i] /\ (Full(rates, i, T) <=> Full(more, i, T))
        /\ BlocksOf(rates, i, T) = BlocksOf(more, i, T)
    BY LongerSegment
  <2>2. Worth(h, rates, dec, i, T) = Worth(h, more, dec, i, T)
    BY <2>1, Zenon DEF Worth, Area
  <2>3. f[i] \in Int /\ f[i] = IF Full(rates, i, T) THEN Worth(h, rates, dec, i, T) ELSE 0
    BY EarnedInt
  <2>4. g[i] = IF Full(more, i, T) THEN Worth(h, more, dec, i, T) ELSE 0
    BY <2>1, EarnedInt
  <2> HIDE DEF f, g
  <2> QED BY <2>1, <2>2, <2>3, <2>4
<1>3. ASSUME NEW i \in M, i \notin R  PROVE g[i] = 0
  <2>1. ~Full(more, i, T)
    BY <1>3, LongerNew
  <2> QED BY <2>1, EarnedInt
<1>4. \A i \in M : g[i] \in Int
  BY EarnedInt
<1>5. Done(h, rates, dec, T) = Total(f, R) /\ Done(h, more, dec, T) = Total(g, M)
  BY Zenon DEF Done
<1> HIDE DEF f, g, R, M
<1>6. Total(f, R) = Total(g, R)
  BY <1>1, <1>2, TotalSame
<1>7. Total(g, R) = Total(g, M)
  <2>1. R \in SUBSET M /\ \A i \in M \ R : g[i] = 0
    BY <1>1, <1>3
  <2> QED BY <1>1, <1>4, <2>1, TotalWiden
<1>8. Done(h, rates, dec, T) = Done(h, more, dec, T)
  BY <1>5, <1>6, <1>7
<1>9. a = Account(a.balance, a.last, Done(h, more, dec, T), a.seg, a.integral)
  BY <1>8 DEF At
<1>10. ASSUME NEW i \in 1 .. Len(more), Running(more, i, T)
       PROVE  i \in 1 .. Len(rates) /\ Running(rates, i, T)
  <2>1. i \in 1 .. Len(rates)
    BY <1>10, LongerNew
  <2> QED BY <1>10, <2>1, LongerSegment
<1>11. ASSUME NEW i \in 1 .. Len(more), Running(more, i, T)
       PROVE  a.seg = more[i].from /\ a.integral = Area(h, more, i, T)
  <2>1. i \in 1 .. Len(rates) /\ Running(rates, i, T)
    BY <1>10, <1>11
  <2>2. a.seg = rates[i].from /\ a.integral = Area(h, rates, i, T)
    BY <2>1 DEF At
  <2>3. more[i] = rates[i] /\ BlocksOf(rates, i, T) = BlocksOf(more, i, T)
    BY <2>1, LongerSegment
  <2> QED BY <2>2, <2>3 DEF Area
<1>12. ASSUME \A i \in 1 .. Len(more) : ~Running(more, i, T)
       PROVE  a.seg = NoSegment /\ a.integral = 0
  <2>1. \A i \in 1 .. Len(rates) : ~Running(rates, i, T)
    BY <1>12, LongerSegment
  <2> QED BY <2>1 DEF At
<1> QED BY <1>9, <1>11, <1>12 DEF At

-----------------------------------------------------------------------------
(* Replaying transfers *)

\* The transfers until the end of a block, what each changes for an account,
\* and the account's balances at the ends of blocks.
Cut(ts, c)    == {k \in 1 .. Len(ts) : ts[k].block <= c}
Deltas(ts, u) == [k \in 1 .. Len(ts) |-> delta(ts[k], u)]
Nets(ts, u)   == [b \in Nat |-> net(ts, u, b)]

Touches(ts, k, u) == ts[k].from = u \/ ts[k].to = u

\* An account after the transfers K of the history.
Reached(a, ts, u, rates, dec, K) ==
    /\ a.last \in Nat
    /\ At(a, Nets(ts, u), rates, dec, a.last)
    /\ a.balance = Total(Deltas(ts, u), K)
    /\ \A k \in K : Touches(ts, k, u) => ts[k].block <= a.last
    /\ a.last = 0 \/ \E k \in K : Touches(ts, k, u) /\ ts[k].block = a.last

LEMMA HistoryLen ==
    ASSUME NEW ts, IsHistory(ts)
    PROVE  Len(ts) \in Nat
BY DEF IsHistory

LEMMA HistoryAt ==
    ASSUME NEW ts, IsHistory(ts), NEW k \in 1 .. Len(ts)
    PROVE  ts[k].block \in Nat /\ ts[k].block > 0 /\ ts[k].value \in Nat
BY DEF IsHistory

LEMMA DeltaAt ==
    ASSUME NEW ts, IsHistory(ts), NEW u, NEW k \in 1 .. Len(ts)
    PROVE  /\ Deltas(ts, u)[k] = delta(ts[k], u) /\ delta(ts[k], u) \in Int
           /\ ~Touches(ts, k, u) => delta(ts[k], u) = 0
<1>1. Deltas(ts, u)[k] = delta(ts[k], u)
  BY DEF Deltas
<1>2. ts[k].value \in Nat
  BY HistoryAt
<1>3. delta(ts[k], u) \in Int
  BY <1>2 DEF delta
<1>4. ~Touches(ts, k, u) => delta(ts[k], u) = 0
  BY <1>2 DEF delta, Touches
<1> QED BY <1>1, <1>3, <1>4

LEMMA CutFinite ==
    ASSUME NEW ts, IsHistory(ts), NEW K, K \subseteq 1 .. Len(ts)
    PROVE  IsFiniteSet(K)
<1>1. IsFiniteSet(1 .. Len(ts))
  BY HistoryLen, FS_Interval
<1> QED BY <1>1, FS_Subset

LEMMA BalanceInt ==
    ASSUME NEW ts, IsHistory(ts), NEW u, NEW K, K \subseteq 1 .. Len(ts)
    PROVE  Total(Deltas(ts, u), K) \in Int
<1>1. IsFiniteSet(K)
  BY CutFinite
<1>2. \A k \in K : Deltas(ts, u)[k] \in Int
  BY DeltaAt
<1> QED BY <1>1, <1>2, TotalInt

LEMMA NetIs ==
    ASSUME NEW ts, IsHistory(ts), NEW u, NEW b
    PROVE  net(ts, u, b) = Total(Deltas(ts, u), Cut(ts, b)) /\ net(ts, u, b) \in Int
<1>1. net(ts, u, b) = Total(Deltas(ts, u), Cut(ts, b))
  BY DEF net, SumOver, Total, Deltas, Cut
<1>2. Cut(ts, b) \subseteq 1 .. Len(ts)
  BY DEF Cut
<1>3. Total(Deltas(ts, u), Cut(ts, b)) \in Int
  BY <1>2, BalanceInt
<1> QED BY <1>1, <1>3

LEMMA NetsHeld ==
    ASSUME NEW ts, IsHistory(ts), NEW u
    PROVE  Held(Nets(ts, u))
BY NetIs DEF Held, Nets

\* Between the last transfer of an account and the next one its balance does
\* not change.
LEMMA ReplayedLevel ==
    ASSUME NEW ts, IsHistory(ts), NEW u, NEW rates, NEW dec, NEW K, K \subseteq 1 .. Len(ts),
           NEW a, Reached(a, ts, u, rates, dec, K), NEW to \in Nat,
           \A j \in 1 .. Len(ts) : ts[j].block < to => j \in K
    PROVE  Level(Nets(ts, u), a.last, to, a.balance)
<1> SUFFICES ASSUME NEW b \in a.last .. to - 1  PROVE Nets(ts, u)[b] = a.balance
  BY DEF Level
<1>0. a.last \in Nat
  BY DEF Reached
<1>1. b \in Nat /\ a.last <= b /\ b < to
  BY <1>0
<1> DEFINE D == Deltas(ts, u)
           R == Cut(ts, b)
<1>2. Nets(ts, u)[b] = Total(D, R)
  BY <1>1, NetIs DEF Nets
<1>3. R \subseteq K
  <2>1. ASSUME NEW j \in R  PROVE j \in K
    <3>1. j \in 1 .. Len(ts) /\ ts[j].block <= b
      BY DEF Cut
    <3>2. ts[j].block < to
      BY <1>1, <3>1, HistoryAt
    <3> QED BY <3>1, <3>2
  <2> QED BY <2>1
<1>4. ASSUME NEW k \in K \ R  PROVE D[k] = 0
  <2>1. k \in 1 .. Len(ts) /\ ~(ts[k].block <= b)
    BY DEF Cut
  <2>2. ~(ts[k].block <= a.last)
    BY <1>0, <1>1, <2>1, HistoryAt
  <2>3. ~Touches(ts, k, u)
    BY <2>2 DEF Reached
  <2> QED BY <2>1, <2>3, DeltaAt
<1>5. \A k \in K : D[k] \in Int
  BY DeltaAt
<1>6. IsFiniteSet(K)
  BY CutFinite
<1> HIDE DEF D, R
<1>7. Total(D, R) = Total(D, K)
  <2>1. R \in SUBSET K
    BY <1>3
  <2> QED BY <1>4, <1>5, <1>6, <2>1, TotalWiden
<1> QED BY <1>2, <1>7 DEF Reached, D

\* apply_transfer moves the account to the block and changes its balance.
LEMMA Posted ==
    ASSUME NEW h, Held(h), NEW dec \in Nat, NEW rates, RatesOk(rates), NEW block \in Nat,
           NEW a, a.last \in Nat, a.balance \in Int, a.last <= block,
           At(a, h, rates, dec, a.last), Level(h, a.last, block, a.balance),
           NEW in \in Nat, NEW out \in Nat, NEW n, n = apply_transfer(a, block, in, out, rates, dec)
    PROVE  At(n, h, rates, dec, block) /\ n.last = block /\ n.balance = a.balance + (in - out)
<1>1. PICK m : m = advance_account(a, block, rates, dec)
  OBVIOUS
<1>2. At(m, h, rates, dec, block) /\ m.balance = a.balance /\ m.last = block
  BY <1>1, AdvanceAt
<1>3. n = [m EXCEPT !.balance = @ + (in - out)]
  BY <1>1 DEF apply_transfer
<1>4. PICK d, s, x, bal : d = Done(h, rates, dec, block) /\ s = m.seg /\ x = m.integral
                          /\ bal = m.balance + (in - out)
  BY Zenon
<1>5. m = Account(m.balance, block, d, s, x)
  BY <1>2, <1>4 DEF At
<1>6. n = [m EXCEPT !.balance = bal]
  BY <1>3, <1>4, Zenon
<1>7. n = Account(bal, block, d, s, x)
  BY <1>5, <1>6, AccountFields
<1>8. n.balance = bal /\ n.last = block /\ n.seg = m.seg /\ n.integral = m.integral
  BY <1>4, <1>7, AccountFields
<1>9. n = Account(n.balance, n.last, Done(h, rates, dec, block), n.seg, n.integral)
  BY <1>4, <1>7, <1>8
<1>10. At(n, h, rates, dec, block)
  BY <1>2, <1>8, <1>9 DEF At
<1> QED BY <1>2, <1>4, <1>8, <1>10

\* The two sides of a transfer, for one account.
FromSide(a, t, u, rates, dec) ==
    IF t.from = u THEN apply_transfer(a, t.block, 0, t.value, rates, dec) ELSE a
BothSides(a, t, u, rates, dec) ==
    LET m == FromSide(a, t, u, rates, dec)
    IN  IF t.to = u THEN apply_transfer(m, t.block, t.value, 0, rates, dec) ELSE m

\* The next transfer in order.
IsNext(ts, K, k) ==
    /\ k \in 1 .. Len(ts) /\ k \notin K /\ K \subseteq 1 .. Len(ts)
    /\ \A j \in K : ts[j].block <= ts[k].block
    /\ \A j \in 1 .. Len(ts) : ts[j].block < ts[k].block => j \in K

\* Both sides together move an account to the block and change its balance.
LEMMA BothSidesMove ==
    ASSUME NEW h, Held(h), NEW dec \in Nat, NEW rates, RatesOk(rates), NEW t,
           t.block \in Nat, t.value \in Nat, NEW u, t.from = u \/ t.to = u,
           NEW a, a.last \in Nat, a.balance \in Int, a.last <= t.block,
           At(a, h, rates, dec, a.last), Level(h, a.last, t.block, a.balance),
           NEW n, n = BothSides(a, t, u, rates, dec)
    PROVE  /\ n.last = t.block /\ At(n, h, rates, dec, t.block)
           /\ n.balance = a.balance + delta(t, u)
<1>1. PICK m : m = FromSide(a, t, u, rates, dec)
  OBVIOUS
<1>2. n = IF t.to = u THEN apply_transfer(m, t.block, t.value, 0, rates, dec) ELSE m
  BY <1>1 DEF BothSides
<1>3. CASE t.from = u
  <2>1. m = apply_transfer(a, t.block, 0, t.value, rates, dec)
    BY <1>1, <1>3 DEF FromSide
  <2>2. At(m, h, rates, dec, t.block) /\ m.last = t.block /\ m.balance = a.balance + (0 - t.value)
    BY <2>1, Posted
  <2>3. CASE t.to # u
    <3>1. delta(t, u) = 0 - t.value
      BY <1>3, <2>3 DEF delta
    <3> QED BY <1>2, <2>2, <2>3, <3>1
  <2>4. CASE t.to = u
    <3>1. n = apply_transfer(m, t.block, t.value, 0, rates, dec)
      BY <1>2, <2>4
    <3>2. Level(h, m.last, t.block, m.balance)
      BY <2>2 DEF Level
    <3>3. m.last \in Nat /\ m.balance \in Int /\ m.last <= t.block /\ At(m, h, rates, dec, m.last)
      BY <2>2
    <3>4. At(n, h, rates, dec, t.block) /\ n.last = t.block /\ n.balance = m.balance + (t.value - 0)
      BY <3>1, <3>2, <3>3, Posted, SMTT(20)
    <3>5. delta(t, u) = 0
      BY <1>3, <2>4 DEF delta
    <3>6. n.balance = a.balance + delta(t, u)
      BY <2>2, <3>4, <3>5
    <3> QED BY <3>4, <3>6
  <2> QED BY <2>3, <2>4
<1>4. CASE t.from # u
  <2>1. m = a /\ t.to = u
    BY <1>1, <1>4 DEF FromSide
  <2>2. n = apply_transfer(a, t.block, t.value, 0, rates, dec)
    BY <1>2, <2>1
  <2>3. At(n, h, rates, dec, t.block) /\ n.last = t.block /\ n.balance = a.balance + (t.value - 0)
    BY <2>2, Posted
  <2>4. delta(t, u) = t.value - 0
    BY <1>4, <2>1 DEF delta
  <2> QED BY <2>3, <2>4
<1> QED BY <1>3, <1>4

LEMMA ReplayedNext ==
    ASSUME NEW ts, IsHistory(ts), NEW u, NEW rates, RatesOk(rates), NEW dec \in Nat,
           NEW K, NEW k, IsNext(ts, K, k), NEW a, Reached(a, ts, u, rates, dec, K),
           NEW n, n = BothSides(a, ts[k], u, rates, dec)
    PROVE  Reached(n, ts, u, rates, dec, K \cup {k})
<1>0. k \in 1 .. Len(ts) /\ k \notin K /\ K \subseteq 1 .. Len(ts)
  BY DEF IsNext
<1>1. PICK h, t, D : h = Nets(ts, u) /\ t = ts[k] /\ D = Deltas(ts, u)
  BY Zenon
<1>2. Held(h) /\ t.block \in Nat /\ t.value \in Nat
  BY <1>0, <1>1, NetsHeld, HistoryAt
<1>3. a.last \in Nat /\ a.balance \in Int /\ At(a, h, rates, dec, a.last)
  BY <1>0, <1>1, BalanceInt DEF Reached
<1>4. a.last <= t.block
  <2>1. CASE a.last = 0
    BY <1>2, <2>1
  <2>2. CASE \E j \in K : ts[j].block = a.last
    BY <1>1, <2>2 DEF IsNext
  <2> QED BY <2>1, <2>2 DEF Reached
<1>5. Level(h, a.last, t.block, a.balance)
  <2>1. \A j \in 1 .. Len(ts) : ts[j].block < t.block => j \in K
    BY <1>1 DEF IsNext
  <2> QED BY <1>0, <1>1, <1>2, <2>1, ReplayedLevel
<1>6. Total(D, K \cup {k}) = D[k] + Total(D, K) /\ Total(D, K) \in Int
  <2>1. IsFiniteSet(K)
    BY <1>0, CutFinite
  <2>2. \A j \in K \cup {k} : D[j] \in Int
    BY <1>0, <1>1, DeltaAt
  <2>3. Total(D, K) \in Int
    BY <1>0, <1>1, BalanceInt
  <2> QED BY <1>0, <2>1, <2>2, <2>3, TotalAdd
<1>7. D[k] = delta(t, u) /\ delta(t, u) \in Int /\ a.balance = Total(D, K)
  BY <1>0, <1>1, DeltaAt DEF Reached
<1>8. CASE ~Touches(ts, k, u)
  <2>1. n = a
    BY <1>1, <1>8 DEF BothSides, FromSide, Touches
  <2>2. delta(t, u) = 0
    BY <1>0, <1>1, <1>8, DeltaAt
  <2>3. a.balance = Total(D, K \cup {k})
    <3>1. \A x \in Int : 0 + x = x
      OBVIOUS
    <3> QED BY <1>6, <1>7, <2>2, <3>1
  <2>4. \A j \in K \cup {k} : Touches(ts, j, u) => j \in K
    BY <1>8
  <2> QED BY <1>1, <2>1, <2>3, <2>4 DEF Reached
<1>9. CASE Touches(ts, k, u)
  <2>1. /\ n.last = t.block /\ At(n, h, rates, dec, t.block)
        /\ n.balance = a.balance + delta(t, u)
    BY <1>1, <1>2, <1>3, <1>4, <1>5, <1>9, BothSidesMove DEF Touches
  <2>2. n.balance = Total(D, K \cup {k})
    <3>1. \A x, y \in Int : x + y = y + x
      OBVIOUS
    <3> QED BY <1>6, <1>7, <2>1, <3>1
  <2>3. \A j \in K \cup {k} : ts[j].block <= n.last
    BY <1>1, <1>2, <2>1 DEF IsNext
  <2>4. \E j \in K \cup {k} : Touches(ts, j, u) /\ ts[j].block = n.last
    BY <1>1, <1>9, <2>1
  <2>5. n.last \in Nat /\ At(n, Nets(ts, u), rates, dec, n.last)
    BY <1>1, <1>2, <2>1
  <2> QED BY <1>1, <2>2, <2>3, <2>4, <2>5 DEF Reached
<1> QED BY <1>8, <1>9

\* The accounts of a replay.
Mapped(as, U) == as = [u \in U |-> as[u]]

AllReplayed(accounts, U, ts, rates, dec, K) ==
    /\ Mapped(accounts, U)
    /\ \A u \in U : Reached(accounts[u], ts, u, rates, dec, K)

\* apply_transfer_delta changes one account, unless it has none.
OneSide(as, new, U, x, block, in, out, rates, dec) ==
    \A u \in U : new[u] = IF x = u THEN apply_transfer(as[u], block, in, out, rates, dec) ELSE as[u]

LEMMA DeltaApplied ==
    ASSUME NEW U, Zero \notin U, NEW as, Mapped(as, U), NEW x, NEW block, NEW in, NEW out,
           NEW rates, NEW dec,
           NEW new, new = apply_transfer_delta(as, x, block, in, out, rates, dec)
    PROVE  Mapped(new, U) /\ OneSide(as, new, U, x, block, in, out, rates, dec)
<1>0. DOMAIN as = U /\ as = [u \in U |-> as[u]]
  BY DEF Mapped
<1>1. CASE x = Zero \/ x \notin U
  <2>1. new = as
    BY <1>0, <1>1 DEF apply_transfer_delta
  <2>2. \A u \in U : x # u
    BY <1>1
  <2> QED BY <1>0, <2>1, <2>2 DEF Mapped, OneSide
<1>2. CASE ~(x = Zero \/ x \notin U)
  <2>1. PICK y : y = apply_transfer(as[x], block, in, out, rates, dec)
    OBVIOUS
  <2>2. new = [as EXCEPT ![x] = y]
    BY <1>0, <1>2, <2>1 DEF apply_transfer_delta
  <2>3. new = [u \in U |-> new[u]] /\ \A u \in U : new[u] = IF x = u THEN y ELSE as[u]
    BY <1>0, <1>2, <2>2
  <2> QED BY <2>1, <2>3 DEF Mapped, OneSide
<1> QED BY <1>1, <1>2

LEMMA BothApplied ==
    ASSUME NEW U, Zero \notin U, NEW as, Mapped(as, U), NEW t, NEW rates, NEW dec,
           NEW new, new = apply_both(as, t, rates, dec)
    PROVE  /\ Mapped(new, U)
           /\ \A u \in U : new[u] = BothSides(as[u], t, u, rates, dec)
<1>1. PICK mid : mid = apply_transfer_delta(as, t.from, t.block, 0, t.value, rates, dec)
  OBVIOUS
<1>2. new = apply_transfer_delta(mid, t.to, t.block, t.value, 0, rates, dec)
  BY <1>1 DEF apply_both
<1>3. Mapped(mid, U) /\ OneSide(as, mid, U, t.from, t.block, 0, t.value, rates, dec)
  BY <1>1, DeltaApplied
<1>4. Mapped(new, U) /\ OneSide(mid, new, U, t.to, t.block, t.value, 0, rates, dec)
  BY <1>2, <1>3, DeltaApplied
<1>5. \A u \in U : new[u] = BothSides(as[u], t, u, rates, dec)
  BY <1>3, <1>4 DEF OneSide, BothSides, FromSide
<1> QED BY <1>4, <1>5

LEMMA LogReplayed ==
    ASSUME NEW ts, IsHistory(ts), NEW U, Zero \notin U, NEW rates, RatesOk(rates), NEW dec \in Nat,
           NEW K, NEW k, IsNext(ts, K, k), NEW s, AllReplayed(s.accounts, U, ts, rates, dec, K),
           NEW n, n = apply_log(s, ts[k], rates, dec)
    PROVE  AllReplayed(n.accounts, U, ts, rates, dec, K \cup {k})
<1>1. PICK as, new : as = s.accounts /\ new = apply_both(as, ts[k], rates, dec)
  BY Zenon
<1>2. n.accounts = new
  BY <1>1 DEF apply_log
<1>3. /\ Mapped(as, U)
      /\ \A u \in U : Reached(as[u], ts, u, rates, dec, K)
  BY <1>1 DEF AllReplayed
<1>4. /\ Mapped(new, U)
      /\ \A u \in U : new[u] = BothSides(as[u], ts[k], u, rates, dec)
  BY <1>1, <1>3, BothApplied
<1>5. \A u \in U : Reached(new[u], ts, u, rates, dec, K \cup {k})
  BY <1>3, <1>4, ReplayedNext
<1> QED BY <1>2, <1>4, <1>5 DEF AllReplayed

LogOf(ts, lo, hi, rates, dec, k, s) ==
    IF ts[k].block \in lo .. hi THEN apply_log(s, ts[k], rates, dec) ELSE s

\* The equation of apply_slice's recursive function, up to n.
Logs(s, ts, lo, hi, rates, dec, n, f) ==
    f = [i \in 0 .. n |-> IF i = 0 THEN s ELSE LogOf(ts, lo, hi, rates, dec, i, f[i - 1])]

LEMMA LogsAt ==
    ASSUME NEW s, NEW ts, NEW lo, NEW hi, NEW rates, NEW dec, NEW n \in Nat, NEW f, Logs(s, ts, lo, hi, rates, dec, n, f), NEW i \in 0 .. n
    PROVE  f[i] = IF i = 0 THEN s ELSE LogOf(ts, lo, hi, rates, dec, i, f[i - 1])
<1> DEFINE F(j) == IF j = 0 THEN s ELSE LogOf(ts, lo, hi, rates, dec, j, f[j - 1])
<1>1. f = [j \in 0 .. n |-> F(j)]
  BY DEF Logs
<1> HIDE DEF F
<1>2. f[i] = F(i)
  BY <1>1
<1> QED BY <1>2 DEF F

LEMMA LogsStart ==
    ASSUME NEW s, NEW ts, NEW lo, NEW hi, NEW rates, NEW dec, NEW n \in Nat, NEW f, Logs(s, ts, lo, hi, rates, dec, n, f)
    PROVE  f[0] = s
<1> DEFINE F(j) == IF j = 0 THEN s ELSE LogOf(ts, lo, hi, rates, dec, j, f[j - 1])
<1>1. f = [j \in 0 .. n |-> F(j)]
  BY DEF Logs
<1>2. F(0) = s
  OBVIOUS
<1>3. 0 \in 0 .. n
  OBVIOUS
<1> HIDE DEF F
<1> QED BY <1>1, <1>2, <1>3

LEMMA LogsExist ==
    ASSUME NEW s, NEW ts, NEW lo, NEW hi, NEW rates, NEW dec, NEW n \in Nat
    PROVE  \E f : Logs(s, ts, lo, hi, rates, dec, n, f)
<1> DEFINE T == {m \in Nat : ~ \E f : Logs(s, ts, lo, hi, rates, dec, m, f)}
<1> SUFFICES ASSUME T # {} PROVE FALSE
  OBVIOUS
<1>1. PICK m \in T : \A x \in T : m <= x
  <2>1. T \subseteq Nat
    OBVIOUS
  <2> HIDE DEF T
  <2> QED BY <2>1, SmallestNat
<1>2. m \in Nat /\ ~ \E f : Logs(s, ts, lo, hi, rates, dec, m, f)
  OBVIOUS
<1>3. m # 0
  <2> DEFINE f == [i \in 0 .. 0 |-> s]
             F(i) == IF i = 0 THEN s ELSE LogOf(ts, lo, hi, rates, dec, i, f[i - 1])
  <2>1. \A i \in 0 .. 0 : F(i) = s
    OBVIOUS
  <2> HIDE DEF F
  <2>2. f = [i \in 0 .. 0 |-> F(i)]
    BY <2>1
  <2>3. Logs(s, ts, lo, hi, rates, dec, 0, f)
    BY <2>2 DEF Logs, F
  <2> HIDE DEF f
  <2> QED BY <1>2, <2>3
<1>4. m - 1 \in Nat /\ m - 1 \notin T
  <2> HIDE DEF T
  <2> QED BY <1>1, <1>2, <1>3
<1>5. PICK f : Logs(s, ts, lo, hi, rates, dec, m - 1, f)
  BY <1>4
<1> DEFINE q == [i \in 0 .. m |-> IF i = m THEN LogOf(ts, lo, hi, rates, dec, m, f[m - 1]) ELSE f[i]]
           F(i) == IF i = 0 THEN s ELSE LogOf(ts, lo, hi, rates, dec, i, q[i - 1])
<1>6. ASSUME NEW i \in 0 .. m PROVE q[i] = F(i)
  <2>1. CASE i = m
    <3>1. m - 1 \in 0 .. m /\ m - 1 # m
      BY <1>2, <1>3
    <3> QED BY <1>3, <2>1, <3>1
  <2>2. CASE i # m
    <3>1. i \in 0 .. m - 1
      BY <1>2, <2>2
    <3>2. f[i] = IF i = 0 THEN s ELSE LogOf(ts, lo, hi, rates, dec, i, f[i - 1])
      <4> DEFINE F0(j) == IF j = 0 THEN s ELSE LogOf(ts, lo, hi, rates, dec, j, f[j - 1])
      <4>1. f = [j \in 0 .. m - 1 |-> F0(j)]
        BY <1>5 DEF Logs
      <4> HIDE DEF F0
      <4>2. f[i] = F0(i)
        BY <3>1, <4>1
      <4> QED BY <4>2 DEF F0
    <3>3. i # 0 => i - 1 \in 0 .. m /\ i - 1 # m
      BY <1>2, <2>2, <3>1
    <3> QED BY <2>2, <3>1, <3>2, <3>3
  <2> QED BY <2>1, <2>2
<1>7. q = [i \in 0 .. m |-> q[i]]
  OBVIOUS
<1> HIDE DEF q, F
<1>8. q = [i \in 0 .. m |-> F(i)]
  BY <1>6, <1>7
<1>9. Logs(s, ts, lo, hi, rates, dec, m, q)
  BY <1>8 DEF Logs, F
<1> QED BY <1>2, <1>9

LEMMA LogsSolve ==
    ASSUME NEW s, NEW ts, IsHistory(ts), NEW lo, NEW hi, NEW rates, NEW dec
    PROVE  Logs(s, ts, lo, hi, rates, dec, Len(ts), apply_slice(s, ts, lo, hi, rates, dec))
<1>1. apply_slice(s, ts, lo, hi, rates, dec) = CHOOSE f : Logs(s, ts, lo, hi, rates, dec, Len(ts), f)
  BY DEF apply_slice, Logs, LogOf
<1>2. \E f : Logs(s, ts, lo, hi, rates, dec, Len(ts), f)
  BY HistoryLen, LogsExist
<1> QED BY <1>1, <1>2

\* The transfers that count after the k-th log of a slice.
Upto(ts, lo, hi, k) ==
    {j \in 1 .. Len(ts) : ts[j].block < lo \/ (j <= k /\ ts[j].block <= hi)}

LEMMA UptoEnds ==
    ASSUME NEW ts, IsHistory(ts), NEW c \in Nat, NEW hi \in Nat, c <= hi
    PROVE  Upto(ts, c + 1, hi, 0) = Cut(ts, c) /\ Upto(ts, c + 1, hi, Len(ts)) = Cut(ts, hi)
<1>1. Len(ts) \in Nat
  BY HistoryLen
<1>2. \A j \in 1 .. Len(ts) : ts[j].block \in Nat
  BY HistoryAt
<1>3. \A j \in 1 .. Len(ts) : ts[j].block < c + 1 \/ (j <= 0 /\ ts[j].block <= hi) <=> ts[j].block <= c
  BY <1>1, <1>2
<1>4. \A j \in 1 .. Len(ts) :
        ts[j].block < c + 1 \/ (j <= Len(ts) /\ ts[j].block <= hi) <=> ts[j].block <= hi
  BY <1>1, <1>2
<1> QED BY <1>3, <1>4 DEF Upto, Cut

LEMMA UptoNext ==
    ASSUME NEW ts, IsHistory(ts), NEW lo \in Nat, NEW hi \in Nat, NEW k \in 1 .. Len(ts)
    PROVE  IF ts[k].block \in lo .. hi
           THEN IsNext(ts, Upto(ts, lo, hi, k - 1), k)
                /\ Upto(ts, lo, hi, k) = Upto(ts, lo, hi, k - 1) \cup {k}
           ELSE Upto(ts, lo, hi, k) = Upto(ts, lo, hi, k - 1)
<1>1. Len(ts) \in Nat /\ k \in Nat
  BY HistoryLen
<1>2. \A j \in 1 .. Len(ts) : ts[j].block \in Nat
  BY HistoryAt
<1>3. \A j \in 1 .. Len(ts) : j <= k <=> j <= k - 1 \/ j = k
  BY <1>1
<1>4. ~(k <= k - 1)
  BY <1>1
<1>5. CASE ts[k].block \in lo .. hi
  <2>1. ~(ts[k].block < lo) /\ ts[k].block <= hi
    BY <1>2, <1>5
  <2>2. Upto(ts, lo, hi, k) = Upto(ts, lo, hi, k - 1) \cup {k}
    BY <1>3, <2>1 DEF Upto
  <2>3. k \notin Upto(ts, lo, hi, k - 1) /\ Upto(ts, lo, hi, k - 1) \subseteq 1 .. Len(ts)
    BY <1>4, <2>1 DEF Upto
  <2>4. ASSUME NEW j \in Upto(ts, lo, hi, k - 1)  PROVE ts[j].block <= ts[k].block
    <3>1. j \in 1 .. Len(ts) /\ (ts[j].block < lo \/ j <= k - 1)
      BY DEF Upto
    <3>2. CASE ts[j].block < lo
      BY <1>2, <2>1, <3>1, <3>2
    <3>3. CASE j <= k - 1
      <4>1. j <= k
        BY <1>1, <3>1, <3>3
      <4> QED BY <3>1, <4>1 DEF IsHistory
    <3> QED BY <3>1, <3>2, <3>3
  <2>5. ASSUME NEW j \in 1 .. Len(ts), ts[j].block < ts[k].block
        PROVE  j \in Upto(ts, lo, hi, k - 1)
    <3>1. ~(k <= j)
      <4>1. k <= j => ts[k].block <= ts[j].block
        BY DEF IsHistory
      <4> QED BY <1>2, <2>5, <4>1
    <3>2. j <= k - 1 /\ ts[j].block <= hi
      BY <1>1, <1>2, <2>1, <2>5, <3>1
    <3> QED BY <3>2 DEF Upto
  <2> QED BY <1>5, <2>2, <2>3, <2>4, <2>5 DEF IsNext
<1>6. CASE ts[k].block \notin lo .. hi
  <2>1. ts[k].block < lo \/ ~(ts[k].block <= hi)
    BY <1>2, <1>6
  <2>2. Upto(ts, lo, hi, k) = Upto(ts, lo, hi, k - 1)
    BY <1>3, <2>1 DEF Upto
  <2> QED BY <1>6, <2>2
<1> QED BY <1>5, <1>6

\* A slice of the blocks c + 1 .. hi takes the accounts from block c to hi.
LEMMA SliceReplayed ==
    ASSUME NEW ts, IsHistory(ts), NEW U, Zero \notin U, NEW rates, RatesOk(rates), NEW dec \in Nat,
           NEW c \in Nat, NEW hi \in Nat, c <= hi, NEW s,
           AllReplayed(s.accounts, U, ts, rates, dec, Cut(ts, c)),
           NEW n, n = apply_slice(s, ts, c + 1, hi, rates, dec)[Len(ts)]
    PROVE  AllReplayed(n.accounts, U, ts, rates, dec, Cut(ts, hi))
<1>1. PICK f, lo : f = apply_slice(s, ts, c + 1, hi, rates, dec) /\ lo = c + 1
  BY Zenon
<1>2. Logs(s, ts, lo, hi, rates, dec, Len(ts), f) /\ Len(ts) \in Nat /\ lo \in Nat
  <2>1. Logs(s, ts, c + 1, hi, rates, dec, Len(ts), f)
    BY <1>1, LogsSolve
  <2> QED BY <1>1, <2>1, HistoryLen
<1> DEFINE Good(k) == AllReplayed(f[k].accounts, U, ts, rates, dec, Upto(ts, lo, hi, k))
           T == {k \in 0 .. Len(ts) : ~Good(k)}
<1>3. Good(0)
  <2>1. f[0] = s
    BY <1>2, LogsStart
  <2> QED BY <1>1, <2>1, UptoEnds
<1>4. ASSUME NEW k \in 1 .. Len(ts), Good(k - 1)  PROVE Good(k)
  <2>1. PICK p, q, K : p = f[k - 1] /\ q = f[k] /\ K = Upto(ts, lo, hi, k - 1)
    BY Zenon
  <2>2. q = LogOf(ts, lo, hi, rates, dec, k, p)
    <3>1. k \in 0 .. Len(ts) /\ k # 0
      BY <1>2
    <3>2. f[k] = LogOf(ts, lo, hi, rates, dec, k, f[k - 1])
      BY <1>2, <3>1, LogsAt
    <3> QED BY <2>1, <3>2
  <2>3. AllReplayed(p.accounts, U, ts, rates, dec, K)
    BY <1>4, <2>1
  <2>4. IF ts[k].block \in lo .. hi
        THEN IsNext(ts, K, k) /\ Upto(ts, lo, hi, k) = K \cup {k}
        ELSE Upto(ts, lo, hi, k) = K
    BY <1>2, <2>1, UptoNext
  <2>5. CASE ts[k].block \in lo .. hi
    <3>1. q = apply_log(p, ts[k], rates, dec)
      BY <2>2, <2>5 DEF LogOf
    <3>2. AllReplayed(q.accounts, U, ts, rates, dec, K \cup {k})
      BY <2>3, <2>4, <2>5, <3>1, LogReplayed
    <3> QED BY <2>1, <2>4, <2>5, <3>2
  <2>6. CASE ts[k].block \notin lo .. hi
    <3>1. q = p
      BY <2>2, <2>6 DEF LogOf
    <3> QED BY <2>1, <2>3, <2>4, <2>6, <3>1
  <2> QED BY <2>5, <2>6
<1>5. Good(Len(ts))
  <2> SUFFICES ASSUME ~Good(Len(ts))  PROVE FALSE
    OBVIOUS
  <2> HIDE DEF Good
  <2>1. T \subseteq Nat /\ T # {}
    <3>1. Len(ts) \in T
      BY <1>2
    <3>2. 0 .. Len(ts) \subseteq Nat
      OBVIOUS
    <3> QED BY <3>1, <3>2
  <2>2. PICK m \in T : \A x \in T : m <= x
    <3> HIDE DEF T
    <3> QED BY <2>1, SmallestNat
  <2>3. m \in 0 .. Len(ts) /\ ~Good(m) /\ m # 0
    BY <1>3
  <2>4. m \in 1 .. Len(ts) /\ m - 1 \in 0 .. Len(ts) /\ ~(m <= m - 1)
    BY <1>2, <2>3
  <2>5. Good(m - 1)
    BY <2>2, <2>4
  <2> HIDE DEF T
  <2> QED BY <1>4, <2>3, <2>4, <2>5
<1>6. Upto(ts, lo, hi, Len(ts)) = Cut(ts, hi)
  BY <1>1, UptoEnds
<1> QED BY <1>1, <1>5, <1>6

SliceOf(ts, parts, rates, dec, n, s) ==
    apply_slice(s, ts, parts[n][1], parts[n][2], rates, dec)[Len(ts)]

\* The equation of apply_slices's recursive function, up to n.
Parts(s, ts, parts, rates, dec, n, f) ==
    f = [i \in 0 .. n |-> IF i = 0 THEN s ELSE SliceOf(ts, parts, rates, dec, i, f[i - 1])]

LEMMA PartsAt ==
    ASSUME NEW s, NEW ts, NEW parts, NEW rates, NEW dec, NEW n \in Nat, NEW f, Parts(s, ts, parts, rates, dec, n, f), NEW i \in 0 .. n
    PROVE  f[i] = IF i = 0 THEN s ELSE SliceOf(ts, parts, rates, dec, i, f[i - 1])
<1> DEFINE F(j) == IF j = 0 THEN s ELSE SliceOf(ts, parts, rates, dec, j, f[j - 1])
<1>1. f = [j \in 0 .. n |-> F(j)]
  BY DEF Parts
<1> HIDE DEF F
<1>2. f[i] = F(i)
  BY <1>1
<1> QED BY <1>2 DEF F

LEMMA PartsStart ==
    ASSUME NEW s, NEW ts, NEW parts, NEW rates, NEW dec, NEW n \in Nat, NEW f, Parts(s, ts, parts, rates, dec, n, f)
    PROVE  f[0] = s
<1> DEFINE F(j) == IF j = 0 THEN s ELSE SliceOf(ts, parts, rates, dec, j, f[j - 1])
<1>1. f = [j \in 0 .. n |-> F(j)]
  BY DEF Parts
<1>2. F(0) = s
  OBVIOUS
<1>3. 0 \in 0 .. n
  OBVIOUS
<1> HIDE DEF F
<1> QED BY <1>1, <1>2, <1>3

LEMMA PartsExist ==
    ASSUME NEW s, NEW ts, NEW parts, NEW rates, NEW dec, NEW n \in Nat
    PROVE  \E f : Parts(s, ts, parts, rates, dec, n, f)
<1> DEFINE T == {m \in Nat : ~ \E f : Parts(s, ts, parts, rates, dec, m, f)}
<1> SUFFICES ASSUME T # {} PROVE FALSE
  OBVIOUS
<1>1. PICK m \in T : \A x \in T : m <= x
  <2>1. T \subseteq Nat
    OBVIOUS
  <2> HIDE DEF T
  <2> QED BY <2>1, SmallestNat
<1>2. m \in Nat /\ ~ \E f : Parts(s, ts, parts, rates, dec, m, f)
  OBVIOUS
<1>3. m # 0
  <2> DEFINE f == [i \in 0 .. 0 |-> s]
             F(i) == IF i = 0 THEN s ELSE SliceOf(ts, parts, rates, dec, i, f[i - 1])
  <2>1. \A i \in 0 .. 0 : F(i) = s
    OBVIOUS
  <2> HIDE DEF F
  <2>2. f = [i \in 0 .. 0 |-> F(i)]
    BY <2>1
  <2>3. Parts(s, ts, parts, rates, dec, 0, f)
    BY <2>2 DEF Parts, F
  <2> HIDE DEF f
  <2> QED BY <1>2, <2>3
<1>4. m - 1 \in Nat /\ m - 1 \notin T
  <2> HIDE DEF T
  <2> QED BY <1>1, <1>2, <1>3
<1>5. PICK f : Parts(s, ts, parts, rates, dec, m - 1, f)
  BY <1>4
<1> DEFINE q == [i \in 0 .. m |-> IF i = m THEN SliceOf(ts, parts, rates, dec, m, f[m - 1]) ELSE f[i]]
           F(i) == IF i = 0 THEN s ELSE SliceOf(ts, parts, rates, dec, i, q[i - 1])
<1>6. ASSUME NEW i \in 0 .. m PROVE q[i] = F(i)
  <2>1. CASE i = m
    <3>1. m - 1 \in 0 .. m /\ m - 1 # m
      BY <1>2, <1>3
    <3> QED BY <1>3, <2>1, <3>1
  <2>2. CASE i # m
    <3>1. i \in 0 .. m - 1
      BY <1>2, <2>2
    <3>2. f[i] = IF i = 0 THEN s ELSE SliceOf(ts, parts, rates, dec, i, f[i - 1])
      <4> DEFINE F0(j) == IF j = 0 THEN s ELSE SliceOf(ts, parts, rates, dec, j, f[j - 1])
      <4>1. f = [j \in 0 .. m - 1 |-> F0(j)]
        BY <1>5 DEF Parts
      <4> HIDE DEF F0
      <4>2. f[i] = F0(i)
        BY <3>1, <4>1
      <4> QED BY <4>2 DEF F0
    <3>3. i # 0 => i - 1 \in 0 .. m /\ i - 1 # m
      BY <1>2, <2>2, <3>1
    <3> QED BY <2>2, <3>1, <3>2, <3>3
  <2> QED BY <2>1, <2>2
<1>7. q = [i \in 0 .. m |-> q[i]]
  OBVIOUS
<1> HIDE DEF q, F
<1>8. q = [i \in 0 .. m |-> F(i)]
  BY <1>6, <1>7
<1>9. Parts(s, ts, parts, rates, dec, m, q)
  BY <1>8 DEF Parts, F
<1> QED BY <1>2, <1>9

LEMMA PartsSolve ==
    ASSUME NEW as, NEW ts, NEW parts, Len(parts) \in Nat, NEW rates, NEW dec, NEW s,
           s = [accounts |-> as, ok |-> TRUE]
    PROVE  Parts(s, ts, parts, rates, dec, Len(parts), apply_slices(as, ts, parts, rates, dec))
<1>1. apply_slices(as, ts, parts, rates, dec) = CHOOSE f : Parts(s, ts, parts, rates, dec, Len(parts), f)
  BY DEF apply_slices, Parts, SliceOf
<1>2. \E f : Parts(s, ts, parts, rates, dec, Len(parts), f)
  BY PartsExist
<1> QED BY <1>1, <1>2

\* Where the n-th slice of advance_token ends.
Reach(cursor, target, range, n) == lesser(cursor + n * range, target)

SliceCount(cursor, target, range) == (target - cursor + range - 1) \div range

LEMMA SlicesCount ==
    ASSUME NEW cursor \in Nat, NEW target \in Nat, cursor <= target, NEW range \in Nat, range > 0,
           NEW N, N = SliceCount(cursor, target, range)
    PROVE  /\ N \in Nat /\ cursor + N * range >= target
           /\ N > 0 => cursor + (N - 1) * range < target
<1>1. PICK x : x = (target - cursor) + (range - 1)
  OBVIOUS
<1>2. x \in Nat /\ N = x \div range
  BY <1>1 DEF SliceCount
<1>3. N \in Nat
  BY <1>2
<1>4. PICK y : y = N * range
  OBVIOUS
<1>5. y <= x /\ x < y + range /\ y \in Nat
  <2>1. x \div range \in Nat /\ range * (x \div range) <= x /\ x < range * (x \div range) + range
    BY <1>2
  <2>2. N * range = range * N
    BY <1>3
  <2> QED BY <1>2, <1>3, <1>4, <2>1, <2>2
<1>6. cursor + y >= target
  BY <1>1, <1>5
<1>7. (N - 1) * range = y - range
  BY <1>3, <1>4
<1>8. cursor + (y - range) < target
  BY <1>1, <1>5
<1> QED BY <1>3, <1>4, <1>6, <1>7, <1>8

SlicesFit(parts, cursor, target, range, N) ==
    \A n \in 1 .. N : /\ parts[n][1] = cursor + (n - 1) * range + 1
                      /\ parts[n][2] = Reach(cursor, target, range, n)

LEMMA SlicesAre ==
    ASSUME NEW cursor, NEW target, NEW range, NEW N \in Nat, N = SliceCount(cursor, target, range),
           NEW parts, parts = slices(cursor, target, range)
    PROVE  Len(parts) = N /\ SlicesFit(parts, cursor, target, range, N)
<1> DEFINE e(n) == <<cursor + (n - 1) * range + 1, Reach(cursor, target, range, n)>>
<1>1. parts = [n \in 1 .. N |-> e(n)]
  BY DEF slices, SliceCount, Reach
<1>2. \A n \in 1 .. N : e(n)[1] = cursor + (n - 1) * range + 1 /\ e(n)[2] = Reach(cursor, target, range, n)
  OBVIOUS
<1> HIDE DEF e
<1>3. Len([n \in 1 .. N |-> e(n)]) = N
  OBVIOUS
<1>4. \A n \in 1 .. N : parts[n] = e(n)
  BY <1>1
<1> QED BY <1>1, <1>2, <1>3, <1>4 DEF SlicesFit

LEMMA Reaches ==
    ASSUME NEW cursor \in Nat, NEW target \in Nat, cursor <= target, NEW range \in Nat, range > 0,
           NEW N \in Nat, N = SliceCount(cursor, target, range)
    PROVE  /\ Reach(cursor, target, range, 0) = cursor /\ Reach(cursor, target, range, N) = target
           /\ \A n \in 1 .. N : LET c == Reach(cursor, target, range, n - 1)
                                    d == Reach(cursor, target, range, n)
                                IN  c \in Nat /\ d \in Nat /\ c <= d /\ c = cursor + (n - 1) * range
<1>1. cursor + N * range >= target /\ (N > 0 => cursor + (N - 1) * range < target)
  BY SlicesCount
<1>2. Reach(cursor, target, range, 0) = cursor
  <2>1. 0 * range = 0
    OBVIOUS
  <2> QED BY <2>1 DEF Reach, lesser
<1>3. Reach(cursor, target, range, N) = target
  <2>1. PICK y : y = N * range
    OBVIOUS
  <2>2. y \in Nat
    BY <2>1
  <2> QED BY <1>1, <2>1, <2>2 DEF Reach, lesser
<1>4. ASSUME NEW n \in 1 .. N
      PROVE  LET c == Reach(cursor, target, range, n - 1)
                 d == Reach(cursor, target, range, n)
             IN  c \in Nat /\ d \in Nat /\ c <= d /\ c = cursor + (n - 1) * range
  <2>1. n \in Nat /\ n - 1 \in Nat /\ N - 1 \in Nat /\ N > 0 /\ n - 1 <= N - 1
    OBVIOUS
  <2>2. PICK y, z, w : y = n * range /\ z = (n - 1) * range /\ w = (N - 1) * range
    OBVIOUS
  <2>3. y \in Nat /\ z \in Nat /\ w \in Nat /\ y = z + range
    BY <2>1, <2>2
  <2>4. z <= w
    <3>1. PICK k : k = (N - 1) - (n - 1)
      OBVIOUS
    <3>2. k \in Nat /\ (N - 1) * range = (n - 1) * range + k * range
      BY <2>1, <3>1
    <3>3. k * range \in Nat
      BY <3>2
    <3> QED BY <2>2, <2>3, <3>2, <3>3
  <2>5. cursor + w < target
    BY <1>1, <2>1, <2>2
  <2>6. Reach(cursor, target, range, n - 1) = lesser(cursor + z, target)
        /\ Reach(cursor, target, range, n) = lesser(cursor + y, target)
    BY <2>2 DEF Reach
  <2>7. lesser(cursor + z, target) = cursor + z
    BY <2>3, <2>4, <2>5 DEF lesser
  <2>8. lesser(cursor + y, target) \in Nat /\ cursor + z <= lesser(cursor + y, target)
        /\ cursor + z \in Nat
    BY <2>3, <2>4, <2>5 DEF lesser
  <2> QED BY <2>2, <2>6, <2>7, <2>8
<1> QED BY <1>2, <1>3, <1>4

\* However the blocks are cut into slices, advance_token takes the accounts
\* from the cursor to the target.
LEMMA TokenReplayed ==
    ASSUME NEW ts, IsHistory(ts), NEW U, Zero \notin U, NEW rates, RatesOk(rates), NEW dec \in Nat,
           NEW cursor \in Nat, NEW target \in Nat, cursor <= target, NEW range \in Nat, range > 0,
           NEW as, AllReplayed(as, U, ts, rates, dec, Cut(ts, cursor)),
           NEW e, e = advance_token(as, ts, cursor, target, range, rates, dec)
    PROVE  AllReplayed(e.accounts, U, ts, rates, dec, Cut(ts, target))
<1>1. PICK N, parts, s : N = SliceCount(cursor, target, range) /\ parts = slices(cursor, target, range)
                         /\ s = [accounts |-> as, ok |-> TRUE]
  BY Zenon
<1>2. N \in Nat
  BY <1>1, SlicesCount
<1>3. Len(parts) = N /\ SlicesFit(parts, cursor, target, range, N)
  BY <1>1, <1>2, SlicesAre
<1>4. PICK f : f = apply_slices(as, ts, parts, rates, dec)
  OBVIOUS
<1>5. Parts(s, ts, parts, rates, dec, N, f) /\ e = f[N]
  <2>1. Parts(s, ts, parts, rates, dec, Len(parts), f)
    BY <1>1, <1>2, <1>3, <1>4, PartsSolve
  <2>2. e = f[Len(parts)]
    BY <1>1, <1>4 DEF advance_token
  <2> QED BY <1>3, <2>1, <2>2
<1> DEFINE R(n) == Reach(cursor, target, range, n)
           Good(n) == AllReplayed(f[n].accounts, U, ts, rates, dec, Cut(ts, R(n)))
           T == {n \in 0 .. N : ~Good(n)}
<1>6. /\ R(0) = cursor /\ R(N) = target
      /\ \A n \in 1 .. N : /\ R(n - 1) \in Nat /\ R(n) \in Nat /\ R(n - 1) <= R(n)
                           /\ R(n - 1) = cursor + (n - 1) * range
  BY <1>1, <1>2, Reaches
<1> HIDE DEF R
<1>7. Good(0)
  <2>1. f[0] = s
    BY <1>2, <1>5, PartsStart
  <2>2. s.accounts = as
    BY <1>1
  <2> QED BY <1>6, <2>1, <2>2
<1>8. ASSUME NEW n \in 1 .. N, Good(n - 1)  PROVE Good(n)
  <2>1. PICK p, q, c, d : p = f[n - 1] /\ q = f[n] /\ c = R(n - 1) /\ d = R(n)
    BY Zenon
  <2>2. q = SliceOf(ts, parts, rates, dec, n, p)
    <3>1. n \in 0 .. N /\ n # 0
      BY <1>2
    <3>2. f[n] = SliceOf(ts, parts, rates, dec, n, f[n - 1])
      BY <1>2, <1>5, <3>1, PartsAt
    <3> QED BY <2>1, <3>2
  <2>3. c \in Nat /\ d \in Nat /\ c <= d
    BY <1>6, <2>1
  <2>4. parts[n][1] = c + 1 /\ parts[n][2] = d
    BY <1>3, <1>6, <2>1 DEF R, SlicesFit
  <2>5. q = apply_slice(p, ts, c + 1, d, rates, dec)[Len(ts)]
    BY <2>2, <2>4 DEF SliceOf
  <2>6. AllReplayed(p.accounts, U, ts, rates, dec, Cut(ts, c))
    BY <1>8, <2>1
  <2>7. AllReplayed(q.accounts, U, ts, rates, dec, Cut(ts, d))
    BY <2>3, <2>5, <2>6, SliceReplayed
  <2> QED BY <2>1, <2>7
<1>9. Good(N)
  <2> SUFFICES ASSUME ~Good(N)  PROVE FALSE
    OBVIOUS
  <2> HIDE DEF Good
  <2>1. T \subseteq Nat /\ T # {}
    <3>1. N \in T
      BY <1>2
    <3>2. 0 .. N \subseteq Nat
      OBVIOUS
    <3> QED BY <3>1, <3>2
  <2>2. PICK m \in T : \A x \in T : m <= x
    <3> HIDE DEF T
    <3> QED BY <2>1, SmallestNat
  <2>3. m \in 0 .. N /\ ~Good(m) /\ m # 0
    BY <1>7
  <2>4. m \in 1 .. N /\ m - 1 \in 0 .. N /\ ~(m <= m - 1)
    BY <1>2, <2>3
  <2>5. Good(m - 1)
    BY <2>2, <2>4
  <2> HIDE DEF T
  <2> QED BY <1>8, <2>3, <2>4, <2>5
<1> QED BY <1>5, <1>6, <1>9

-----------------------------------------------------------------------------
(* What a replay stands for *)

\* The accounts at block c of the history.
Standing(as, U, ts, rates, dec, c) == AllReplayed(as, U, ts, rates, dec, Cut(ts, c))

\* Accounts that have seen nothing stand at block 0.
LEMMA NewStands ==
    ASSUME NEW ts, IsHistory(ts), NEW U, NEW rates, RatesOk(rates), NEW dec \in Nat
    PROVE  Standing([u \in U |-> NewAccount], U, ts, rates, dec, 0)
<1>1. PICK a : a = NewAccount
  OBVIOUS
<1>2. a = Account(0, 0, 0, NoSegment, 0)
  BY <1>1 DEF NewAccount, Account
<1>3. a.balance = 0 /\ a.last = 0 /\ a.done = 0 /\ a.seg = NoSegment /\ a.integral = 0
  BY <1>2, AccountFields
<1>4. Cut(ts, 0) = {}
  <2>1. \A k \in 1 .. Len(ts) : ~(ts[k].block <= 0)
    BY HistoryAt
  <2> QED BY <2>1 DEF Cut
<1>5. ASSUME NEW i \in 1 .. Len(rates)  PROVE ~Running(rates, i, 0) /\ ~Full(rates, i, 0)
  <2>1. rates[i].from \in Nat /\ Len(rates) \in Nat
    BY RatePoint, RatesLen
  <2>2. ASSUME i < Len(rates)  PROVE rates[i + 1].from \in Nat /\ rates[i].from < rates[i + 1].from
    <3>1. i + 1 \in 1 .. Len(rates) /\ i < i + 1
      BY <2>1, <2>2
    <3> QED BY <3>1, RatePoint DEF RatesOk
  <2> QED BY <2>1, <2>2 DEF Running, Full
<1>6. ASSUME NEW u \in U  PROVE Reached(a, ts, u, rates, dec, {})
  <2> DEFINE h == Nets(ts, u)
             f == Earned(h, rates, dec, 0)
  <2>1. Held(h) /\ 0 \in Nat
    BY NetsHeld
  <2>2. \A i \in 1 .. Len(rates) : f[i] = 0
    BY <1>5, <2>1, EarnedInt
  <2>3. IsFiniteSet(1 .. Len(rates))
    BY RatesLen, FS_Interval
  <2>4. Done(h, rates, dec, 0) = Total(f, 1 .. Len(rates))
    BY Zenon DEF Done
  <2> HIDE DEF f
  <2>5. Total(f, 1 .. Len(rates)) = 0
    BY <2>2, <2>3, TotalZero
  <2> HIDE DEF h
  <2>6. At(a, h, rates, dec, 0)
    BY <1>2, <1>3, <1>5, <2>4, <2>5 DEF At
  <2>7. Total(Deltas(ts, u), {}) = 0
    BY TotalEmpty
  <2> QED BY <1>3, <2>6, <2>7 DEF Reached, h
<1>7. PICK as : as = [u \in U |-> a]
  OBVIOUS
<1>8. Mapped(as, U) /\ \A u \in U : as[u] = a
  BY <1>7 DEF Mapped
<1>9. AllReplayed(as, U, ts, rates, dec, {})
  BY <1>6, <1>8 DEF AllReplayed
<1> QED BY <1>1, <1>4, <1>7, <1>9 DEF Standing

\* An account has not moved past the block.
LEMMA StandingAt ==
    ASSUME NEW ts, IsHistory(ts), NEW U, NEW rates, NEW dec, NEW c \in Nat, NEW as,
           Standing(as, U, ts, rates, dec, c), NEW u \in U
    PROVE  /\ Reached(as[u], ts, u, rates, dec, Cut(ts, c))
           /\ as[u].last \in Nat /\ as[u].last <= c /\ as[u].balance = net(ts, u, c)
<1>1. Reached(as[u], ts, u, rates, dec, Cut(ts, c))
  BY DEF Standing, AllReplayed
<1>2. PICK a : a = as[u]
  OBVIOUS
<1>3. a.last \in Nat /\ a.balance = net(ts, u, c)
  BY <1>1, <1>2, NetIs DEF Reached
<1>4. a.last = 0 \/ \E k \in Cut(ts, c) : ts[k].block = a.last
  BY <1>1, <1>2 DEF Reached
<1>5. a.last <= c
  BY <1>4 DEF Cut
<1> QED BY <1>1, <1>2, <1>3, <1>5

\* Two accounts that stand for the same are the same.
LEMMA ReplayedUnique ==
    ASSUME NEW ts, IsHistory(ts), NEW u, NEW rates, NEW dec, NEW K, K \subseteq 1 .. Len(ts),
           NEW a, NEW b, Reached(a, ts, u, rates, dec, K), Reached(b, ts, u, rates, dec, K)
    PROVE  a = b
<1>1. a.balance = b.balance /\ a.last \in Nat /\ b.last \in Nat
  BY DEF Reached
<1>2. ASSUME NEW x, NEW y, Reached(x, ts, u, rates, dec, K), Reached(y, ts, u, rates, dec, K)
      PROVE  x.last <= y.last
  <2>1. x.last \in Nat /\ y.last \in Nat
    BY <1>2 DEF Reached
  <2>2. CASE x.last = 0
    BY <2>1, <2>2
  <2>3. CASE \E k \in K : Touches(ts, k, u) /\ ts[k].block = x.last
    <3>1. PICK k \in K : Touches(ts, k, u) /\ ts[k].block = x.last
      BY <2>3
    <3>2. ts[k].block <= y.last
      BY <1>2, <3>1 DEF Reached
    <3> QED BY <3>1, <3>2
  <2> QED BY <1>2, <2>2, <2>3 DEF Reached
<1>3. a.last <= b.last /\ b.last <= a.last
  BY <1>2
<1>4. a.last = b.last
  BY <1>1, <1>3
<1>5. At(a, Nets(ts, u), rates, dec, a.last) /\ At(b, Nets(ts, u), rates, dec, a.last)
  BY <1>4 DEF Reached
<1> QED BY <1>1, <1>4, <1>5, AtUnique

LEMMA StandingUnique ==
    ASSUME NEW ts, IsHistory(ts), NEW U, NEW rates, NEW dec, NEW c, NEW as, NEW bs,
           Standing(as, U, ts, rates, dec, c), Standing(bs, U, ts, rates, dec, c)
    PROVE  as = bs
<1>1. Cut(ts, c) \subseteq 1 .. Len(ts)
  BY DEF Cut
<1>2. \A u \in U : as[u] = bs[u]
  <2>1. ASSUME NEW u \in U  PROVE as[u] = bs[u]
    <3>1. PICK a, b : a = as[u] /\ b = bs[u]
      BY Zenon
    <3>2. Reached(a, ts, u, rates, dec, Cut(ts, c)) /\ Reached(b, ts, u, rates, dec, Cut(ts, c))
      BY <3>1 DEF Standing, AllReplayed
    <3>3. a = b
      BY <1>1, <3>2, ReplayedUnique
    <3> QED BY <3>1, <3>3
  <2> QED BY <2>1
<1>3. as = [u \in U |-> as[u]] /\ bs = [u \in U |-> bs[u]]
  BY DEF Standing, AllReplayed, Mapped
<1> QED BY <1>2, <1>3

\* Rates for later blocks leave what accounts stand for alone.
LEMMA StandingLonger ==
    ASSUME NEW ts, IsHistory(ts), NEW U, NEW rates, RatesOk(rates), NEW more, RatesOk(more),
           NEW dec \in Nat, NEW c \in Nat, Longer(rates, more, c), NEW as,
           Standing(as, U, ts, rates, dec, c)
    PROVE  Standing(as, U, ts, more, dec, c)
<1>1. ASSUME NEW u \in U  PROVE Reached(as[u], ts, u, more, dec, Cut(ts, c))
  <2>1. PICK a, h, T : a = as[u] /\ h = Nets(ts, u) /\ T = as[u].last
    BY Zenon
  <2>2. Reached(a, ts, u, rates, dec, Cut(ts, c)) /\ T \in Nat /\ T <= c
    BY <2>1, StandingAt
  <2>3. At(a, h, rates, dec, T) /\ Held(h)
    BY <2>1, <2>2, NetsHeld DEF Reached
  <2>4. At(a, h, more, dec, T)
    BY <2>2, <2>3, AtLonger
  <2> QED BY <2>1, <2>2, <2>4 DEF Reached
<1> QED BY <1>1 DEF Standing, AllReplayed

\* Two chains that have the same transfers until a block.
SameUntil(ts, qs, c) == Cut(ts, c) = Cut(qs, c) /\ \A k \in Cut(ts, c) : ts[k] = qs[k]

LEMMA SameTotals ==
    ASSUME NEW ts, IsHistory(ts), NEW qs, IsHistory(qs), NEW c \in Nat, SameUntil(ts, qs, c),
           NEW u, NEW K, K \subseteq Cut(ts, c)
    PROVE  Total(Deltas(ts, u), K) = Total(Deltas(qs, u), K)
<1>1. K \subseteq 1 .. Len(ts) /\ K \subseteq 1 .. Len(qs)
  BY DEF SameUntil, Cut
<1>2. IsFiniteSet(K)
  BY <1>1, CutFinite
<1>3. \A k \in K : Deltas(ts, u)[k] \in Int /\ Deltas(ts, u)[k] = Deltas(qs, u)[k]
  <2>1. ASSUME NEW k \in K
        PROVE  Deltas(ts, u)[k] \in Int /\ Deltas(ts, u)[k] = Deltas(qs, u)[k]
    <3>1. ts[k] = qs[k] /\ k \in 1 .. Len(ts) /\ k \in 1 .. Len(qs)
      BY <1>1 DEF SameUntil
    <3>2. Deltas(ts, u)[k] = delta(ts[k], u) /\ delta(ts[k], u) \in Int
          /\ Deltas(qs, u)[k] = delta(qs[k], u)
      BY <3>1, DeltaAt
    <3> QED BY <3>1, <3>2
  <2> QED BY <2>1
<1> QED BY <1>2, <1>3, TotalSame

LEMMA SameNets ==
    ASSUME NEW ts, IsHistory(ts), NEW qs, IsHistory(qs), NEW c \in Nat, SameUntil(ts, qs, c),
           NEW u, NEW b \in Nat, b <= c
    PROVE  net(ts, u, b) = net(qs, u, b)
<1>1. Cut(ts, b) \subseteq Cut(ts, c)
  <2>1. ASSUME NEW k \in Cut(ts, b)  PROVE k \in Cut(ts, c)
    <3>1. k \in 1 .. Len(ts) /\ ts[k].block <= b
      BY DEF Cut
    <3>2. ts[k].block <= c
      BY <3>1, HistoryAt
    <3> QED BY <3>1, <3>2 DEF Cut
  <2> QED BY <2>1
<1>2. Cut(qs, b) \subseteq Cut(qs, c)
  <2>1. ASSUME NEW k \in Cut(qs, b)  PROVE k \in Cut(qs, c)
    <3>1. k \in 1 .. Len(qs) /\ qs[k].block <= b
      BY DEF Cut
    <3>2. qs[k].block <= c
      BY <3>1, HistoryAt
    <3> QED BY <3>1, <3>2 DEF Cut
  <2> QED BY <2>1
<1>3. Cut(ts, b) = Cut(qs, b)
  <2>1. \A k \in Cut(ts, c) : k \in 1 .. Len(ts) /\ k \in 1 .. Len(qs) /\ ts[k] = qs[k]
    BY DEF SameUntil, Cut
  <2>2. ASSUME NEW k \in Cut(ts, b)  PROVE k \in Cut(qs, b)
    BY <1>1, <2>1 DEF Cut
  <2>3. ASSUME NEW k \in Cut(qs, b)  PROVE k \in Cut(ts, b)
    <3>1. k \in Cut(ts, c) /\ qs[k].block <= b
      BY <1>2 DEF SameUntil, Cut
    <3> QED BY <2>1, <3>1 DEF Cut
  <2> QED BY <2>2, <2>3
<1>4. Total(Deltas(ts, u), Cut(ts, b)) = Total(Deltas(qs, u), Cut(ts, b))
  BY <1>1, SameTotals
<1> QED BY <1>3, <1>4, NetIs

LEMMA StandingFork ==
    ASSUME NEW ts, IsHistory(ts), NEW qs, IsHistory(qs), NEW c \in Nat, SameUntil(ts, qs, c),
           NEW U, NEW rates, NEW dec, NEW as, Standing(as, U, ts, rates, dec, c)
    PROVE  Standing(as, U, qs, rates, dec, c)
<1>1. ASSUME NEW u \in U  PROVE Reached(as[u], qs, u, rates, dec, Cut(qs, c))
  <2>1. PICK a, h, g, T, K : a = as[u] /\ h = Nets(ts, u) /\ g = Nets(qs, u) /\ T = as[u].last
                             /\ K = Cut(ts, c)
    BY Zenon
  <2>2. Reached(a, ts, u, rates, dec, K) /\ T \in Nat /\ T <= c
    BY <2>1, StandingAt
  <2>3. At(a, h, rates, dec, T) /\ Held(h)
    BY <2>1, <2>2, NetsHeld DEF Reached
  <2>4. Agree(h, g, T)
    <3>1. ASSUME NEW b \in 0 .. T - 1  PROVE h[b] = g[b]
      <4>1. b \in Nat /\ b <= c
        BY <2>2
      <4> QED BY <2>1, <4>1, SameNets DEF Nets
    <3> QED BY <3>1 DEF Agree
  <2>5. At(a, g, rates, dec, T)
    BY <2>2, <2>3, <2>4, AtHeld
  <2>6. Total(Deltas(ts, u), K) = Total(Deltas(qs, u), K)
    BY <2>1, SameTotals
  <2>7. \A k \in K : ts[k] = qs[k]
    BY <2>1 DEF SameUntil
  <2>8. Reached(a, qs, u, rates, dec, K)
    BY <2>1, <2>2, <2>5, <2>6, <2>7 DEF Reached, Touches
  <2> QED BY <2>1, <2>8 DEF SameUntil
<1> QED BY <1>1 DEF Standing, AllReplayed

\* The numerator that an account projects to its block counts every segment.
Projects(a, h, rates, dec, c) ==
    projected_numerator(a, c, rates, dec) = Total(Worths(h, rates, dec, c), 1 .. Len(rates))

LEMMA ProjectedIs ==
    ASSUME NEW ts, IsHistory(ts), NEW U, NEW rates, RatesOk(rates), NEW dec \in Nat, NEW c \in Nat,
           NEW as, Standing(as, U, ts, rates, dec, c), NEW u \in U
    PROVE  Projects(as[u], Nets(ts, u), rates, dec, c)
<1>1. PICK a, h, m : a = as[u] /\ h = Nets(ts, u) /\ m = advance_account(as[u], c, rates, dec)
  BY Zenon
<1>2. Reached(a, ts, u, rates, dec, Cut(ts, c)) /\ a.last \in Nat /\ a.last <= c
      /\ a.balance = net(ts, u, c)
  <2>1. Reached(as[u], ts, u, rates, dec, Cut(ts, c)) /\ as[u].last <= c
    BY StandingAt
  <2>2. as[u].last \in Nat
    BY <2>1 DEF Reached
  <2>3. as[u].balance = net(ts, u, c)
    BY <2>1, NetIs DEF Reached
  <2> QED BY <1>1, <2>1, <2>2, <2>3
<1>3. Held(h) /\ a.balance \in Int /\ At(a, h, rates, dec, a.last)
  BY <1>1, <1>2, NetsHeld, NetIs DEF Reached
<1>4. Level(h, a.last, c, a.balance)
  <2>1. Cut(ts, c) \subseteq 1 .. Len(ts)
    BY DEF Cut
  <2>2. ASSUME NEW j \in 1 .. Len(ts), ts[j].block < c  PROVE j \in Cut(ts, c)
    <3>1. ts[j].block <= c
      BY <2>2, HistoryAt
    <3> QED BY <3>1 DEF Cut
  <2> QED BY <1>1, <1>2, <2>1, <2>2, ReplayedLevel
<1>5. At(m, h, rates, dec, c)
  BY <1>1, <1>2, <1>3, <1>4, AdvanceAt
<1>6. m.done + ActivePart(m, rates, dec) = Total(Worths(h, rates, dec, c), 1 .. Len(rates))
  BY <1>3, <1>5, Projection
<1>7. projected_numerator(a, c, rates, dec) = m.done + ActivePart(m, rates, dec)
  BY <1>1 DEF projected_numerator
<1> QED BY <1>1, <1>6, <1>7 DEF Projects

\* The definition of a score, in the same terms.
Balances(ts, r, u) == [b \in Nat |-> BalanceAfter(ts, r, u, b)]

LEMMA BalancesHeld ==
    ASSUME NEW ts, IsHistory(ts), NEW r, NEW u
    PROVE  Held(Balances(ts, r, u))
<1>1. \A b \in Nat : BalanceAfter(ts, r, u, b) \in Int
  BY NetIs DEF BalanceAfter
<1> QED BY <1>1 DEF Held, Balances

LEMMA ReferenceIs ==
    ASSUME NEW ts, IsHistory(ts), NEW r, NEW u, NEW rates, NEW dec, NEW c \in Nat
    PROVE  ReferenceNumerator(ts, r, u, rates, dec, c) =
             Total(Worths(Balances(ts, r, u), rates, dec, c), 1 .. Len(rates))
<1> DEFINE g == [b \in 0 .. c - 1 |-> BalanceAfter(ts, r, u, b)]
           h == Balances(ts, r, u)
<1>1. Held(h)
  BY BalancesHeld
<1>2. Agree(h, g, c)
  BY DEF Agree, Balances
<1>3. ReferenceNumerator(ts, r, u, rates, dec, c) =
        Total([i \in 1 .. Len(rates) |-> scaled_integral(Area(g, rates, i, c), dec) * rates[i].rate],
              1 .. Len(rates))
  BY DEF ReferenceNumerator, SumOver, Total, Area
<1> HIDE DEF g, h
<1>4. \A i \in 1 .. Len(rates) : Area(h, rates, i, c) = Area(g, rates, i, c)
  BY <1>1, <1>2, AreaAgrees
<1>5. Worths(h, rates, dec, c) =
        [i \in 1 .. Len(rates) |-> scaled_integral(Area(g, rates, i, c), dec) * rates[i].rate]
  BY <1>4 DEF Worths, Worth
<1> QED BY <1>3, <1>5 DEF h

\* Balances that only transfers changed.
LEMMA SameWorths ==
    ASSUME NEW h, Held(h), NEW g, NEW rates, NEW dec, NEW c \in Nat, Agree(h, g, c)
    PROVE  Worths(h, rates, dec, c) = Worths(g, rates, dec, c)
<1>1. \A i \in 1 .. Len(rates) : Area(h, rates, i, c) = Area(g, rates, i, c)
  BY AreaAgrees
<1>2. \A i \in 1 .. Len(rates) : Worth(h, rates, dec, i, c) = Worth(g, rates, dec, i, c)
  BY <1>1 DEF Worth
<1> QED BY <1>2 DEF Worths

\* A token without a rate before the block earns nothing.
LEMMA NothingEarned ==
    ASSUME NEW h, Held(h), NEW rates, RatesOk(rates), NEW dec \in Nat, NEW c \in Nat,
           ~contributes_at(rates, c)
    PROVE  Total(Worths(h, rates, dec, c), 1 .. Len(rates)) = 0
<1>1. ASSUME NEW i \in 1 .. Len(rates)  PROVE Worth(h, rates, dec, i, c) = 0
  <2>1. rates[i].from \in Nat /\ rates[i].rate \in Nat /\ Len(rates) \in Nat
    BY RatePoint, RatesLen
  <2>2. i < Len(rates) => rates[i + 1].from \in Nat
    <3>1. i < Len(rates) => i + 1 \in 1 .. Len(rates)
      BY <2>1
    <3> QED BY <3>1, RatePoint
  <2>3. CASE rates[i].rate = 0
    <3>1. PICK x : x = scaled_integral(Area(h, rates, i, c), dec)
      OBVIOUS
    <3>2. x \in Int
      BY <3>1, AreaInt, ScaledIs
    <3>3. Worth(h, rates, dec, i, c) = x * 0
      BY <2>3, <3>1 DEF Worth
    <3> QED BY <3>2, <3>3
  <2>4. CASE rates[i].rate # 0
    <3>1. ~(rates[i].from < (IF i < Len(rates) THEN lesser(rates[i + 1].from, c) ELSE c))
      BY <2>4 DEF contributes_at, ContributingAt
    <3>2. BlocksOf(rates, i, c) = {}
      BY <2>1, <2>2, <3>1 DEF BlocksOf, lesser
    <3> QED BY <3>2, WorthNothing
  <2> QED BY <2>3, <2>4
<1>2. \A i \in 1 .. Len(rates) : Worths(h, rates, dec, c)[i] = 0
  BY <1>1 DEF Worths
<1>3. IsFiniteSet(1 .. Len(rates))
  BY RatesLen, FS_Interval
<1> QED BY <1>2, <1>3, TotalZero

LEMMA WorthsInt ==
    ASSUME NEW h, Held(h), NEW rates, RatesOk(rates), NEW dec \in Nat, NEW c \in Nat
    PROVE  Total(Worths(h, rates, dec, c), 1 .. Len(rates)) \in Int
<1>1. \A i \in 1 .. Len(rates) : Worths(h, rates, dec, c)[i] \in Int
  BY WorthInt DEF Worths
<1>2. IsFiniteSet(1 .. Len(rates))
  BY RatesLen, FS_Interval
<1> QED BY <1>1, <1>2, TotalInt

\* Rates for later blocks do not make a token contribute.
LEMMA LongerContributes ==
    ASSUME NEW rates, RatesOk(rates), NEW more, RatesOk(more), NEW c \in Nat,
           Longer(rates, more, c), NEW T \in Nat, T <= c
    PROVE  contributes_at(rates, T) <=> contributes_at(more, T)
<1> DEFINE On(rs, i) == /\ rs[i].rate # 0
                        /\ rs[i].from < (IF i < Len(rs) THEN lesser(rs[i + 1].from, T) ELSE T)
<1>0. Len(rates) \in Nat /\ Len(more) \in Nat
  BY RatesLen
<1>1. \A rs : contributes_at(rs, T) <=> \E i \in 1 .. Len(rs) : On(rs, i)
  BY DEF contributes_at, ContributingAt
<1>2. ASSUME NEW i \in 1 .. Len(rates)  PROVE On(rates, i) <=> On(more, i) /\ i \in 1 .. Len(more)
  <2>1. i \in 1 .. Len(more) /\ more[i] = rates[i]
    BY <1>0 DEF Longer
  <2>2. CASE i < Len(rates)
    <3>1. i + 1 \in 1 .. Len(rates) /\ i < Len(more)
      BY <1>0, <2>2 DEF Longer
    <3>2. more[i + 1] = rates[i + 1]
      BY <3>1 DEF Longer
    <3> QED BY <2>1, <2>2, <3>1, <3>2
  <2>3. CASE ~(i < Len(rates))
    <3>1. ASSUME i < Len(more)  PROVE lesser(more[i + 1].from, T) = T
      <4>1. i + 1 \in Len(rates) + 1 .. Len(more) /\ i + 1 \in 1 .. Len(more)
        BY <1>0, <2>3, <3>1
      <4>2. more[i + 1].from \in Nat /\ more[i + 1].from > c
        BY <4>1, RatePoint DEF Longer
      <4> QED BY <4>2 DEF lesser
    <3> QED BY <2>1, <2>3, <3>1
  <2> QED BY <2>2, <2>3
<1>3. ASSUME NEW i \in 1 .. Len(more), On(more, i)  PROVE i \in 1 .. Len(rates)
  <2> SUFFICES ASSUME i \notin 1 .. Len(rates)  PROVE FALSE
    OBVIOUS
  <2>1. i \in Len(rates) + 1 .. Len(more)
    BY <1>0
  <2>2. more[i].from \in Nat /\ more[i].from > c
    BY <2>1, RatePoint DEF Longer
  <2>3. i < Len(more) => more[i + 1].from \in Nat
    <3>1. i < Len(more) => i + 1 \in 1 .. Len(more)
      BY <1>0
    <3> QED BY <3>1, RatePoint
  <2> QED BY <1>3, <2>2, <2>3 DEF lesser
<1> HIDE DEF On
<1> QED BY <1>1, <1>2, <1>3

\* parse_state accepts what a replay left behind.
LEMMA StandingParses ==
    ASSUME NEW ts, IsHistory(ts), NEW U, NEW rates, RatesOk(rates), NEW dec, NEW c \in Nat,
           NEW as, Standing(as, U, ts, rates, dec, c), NEW u \in U
    PROVE  /\ as[u].last <= c
           /\ IF as[u].seg = NoSegment THEN as[u].integral = 0
              ELSE \E p \in ToSet(rates) : p.from = as[u].seg
<1>1. Reached(as[u], ts, u, rates, dec, Cut(ts, c)) /\ as[u].last <= c
  BY StandingAt
<1>2. PICK a, T, h : a = as[u] /\ T = as[u].last /\ h = Nets(ts, u)
  BY Zenon
<1>3. At(a, h, rates, dec, T)
  BY <1>1, <1>2 DEF Reached
<1>4. ToSet(rates) = {rates[j] : j \in 1 .. Len(rates)}
  BY DEF RatesOk, ToSet
<1>5. CASE \E i \in 1 .. Len(rates) : Running(rates, i, T)
  <2>1. PICK i \in 1 .. Len(rates) : Running(rates, i, T)
    BY <1>5
  <2>2. a.seg = rates[i].from
    BY <1>3, <2>1 DEF At
  <2>3. rates[i].from # NoSegment
    BY RatePoint DEF NoSegment
  <2>4. \E p \in ToSet(rates) : p.from = a.seg
    BY <1>4, <2>2
  <2> QED BY <1>1, <1>2, <2>2, <2>3, <2>4
<1>6. CASE \A i \in 1 .. Len(rates) : ~Running(rates, i, T)
  <2>1. a.seg = NoSegment /\ a.integral = 0
    BY <1>3, <1>6 DEF At
  <2> QED BY <1>1, <1>2, <2>1
<1> QED BY <1>5, <1>6

-----------------------------------------------------------------------------
(* A chain that is replaced *)

\* The transfers before the fork are the first ones.
LEMMA SharedPrefix ==
    ASSUME NEW ts, IsHistory(ts), NEW F \in Nat
    PROVE  \E n \in 0 .. Len(ts) : {k \in 1 .. Len(ts) : ts[k].block < F} = 1 .. n
<1> DEFINE S == {k \in 1 .. Len(ts) : ts[k].block < F}
<1>1. Len(ts) \in Nat /\ S \subseteq Nat /\ \A k \in S : k <= Len(ts)
  BY HistoryLen
<1>2. CASE S = {}
  <2>1. S = 1 .. 0 /\ 0 \in 0 .. Len(ts)
    BY <1>1, <1>2
  <2> QED BY <2>1
<1>3. CASE S # {}
  <2> HIDE DEF S
  <2>1. PICK n \in S : \A k \in S : n >= k
    BY <1>1, <1>3, LargestNat
  <2> USE DEF S
  <2>2. n \in 1 .. Len(ts) /\ ts[n].block < F
    BY <2>1
  <2>3. ASSUME NEW k \in 1 .. n  PROVE k \in S
    <3>1. k \in 1 .. Len(ts) /\ k <= n
      BY <1>1, <2>2
    <3>2. ts[k].block <= ts[n].block
      BY <2>2, <3>1 DEF IsHistory
    <3>3. ts[k].block \in Nat /\ ts[n].block \in Nat
      BY <2>2, <3>1, HistoryAt
    <3> QED BY <2>2, <3>1, <3>2, <3>3
  <2>4. S = 1 .. n
    BY <1>1, <2>1, <2>3
  <2> QED BY <1>1, <2>2, <2>4
<1> QED BY <1>2, <1>3

\* The second chain has the transfers before the fork ...
IsPart(qs, ts, F, n) ==
    /\ {k \in 1 .. Len(ts) : ts[k].block < F} = 1 .. n
    /\ qs = SubSeq(ts, 1, n) /\ Len(qs) = n /\ \A i \in 1 .. n : qs[i] = ts[i]

LEMMA ForkedPart ==
    ASSUME NEW ts, IsHistory(ts), NEW F \in Nat, NEW qs,
           qs = SubSeq(ts, 1, Cardinality({k \in 1 .. Len(ts) : ts[k].block < F}))
    PROVE  \E n \in 0 .. Len(ts) : IsPart(qs, ts, F, n)
<1>1. PICK n \in 0 .. Len(ts) : {k \in 1 .. Len(ts) : ts[k].block < F} = 1 .. n
  BY SharedPrefix
<1>2. Len(ts) \in Nat /\ n \in Nat /\ n <= Len(ts)
  BY <1>1, HistoryLen
<1>3. Cardinality(1 .. n) = n
  BY <1>2, FS_Interval
<1>4. qs = SubSeq(ts, 1, n)
  BY <1>1, <1>3
<1>6. Len(qs) = n /\ \A i \in 1 .. n : qs[i] = ts[i]
  <2>1. \A i \in 1 .. n : ts[i] \in {ts[k] : k \in 1 .. Len(ts)}
    BY <1>2
  <2>2. /\ Len(SubSeq(ts, 1, n)) = (IF 1 <= n THEN n - 1 + 1 ELSE 0)
        /\ \A i \in 1 .. n - 1 + 1 : SubSeq(ts, 1, n)[i] = ts[1 + i - 1]
    BY <1>2, <2>1, SubSeqProperties
  <2>3. \A i \in 1 .. n : SubSeq(ts, 1, n)[i] = ts[i]
    <3> SUFFICES ASSUME NEW i \in 1 .. n  PROVE SubSeq(ts, 1, n)[i] = ts[i]
      OBVIOUS
    <3>1. i \in 1 .. n - 1 + 1 /\ 1 + i - 1 = i
      BY <1>2
    <3> QED BY <2>2, <3>1
  <2>4. (IF 1 <= n THEN n - 1 + 1 ELSE 0) = n
    BY <1>2
  <2> QED BY <1>4, <2>2, <2>3, <2>4
<1> QED BY <1>1, <1>4, <1>6 DEF IsPart

\* ... and is a history that agrees with the first one until there.
LEMMA ForkedHistory ==
    ASSUME NEW ts, IsHistory(ts), NEW F \in Nat, NEW qs,
           qs = SubSeq(ts, 1, Cardinality({k \in 1 .. Len(ts) : ts[k].block < F}))
    PROVE  /\ IsHistory(qs)
           /\ \A c \in Nat : c < F => SameUntil(ts, qs, c) /\ SameUntil(qs, ts, c)
<1>0. PICK n \in 0 .. Len(ts) : IsPart(qs, ts, F, n)
  BY ForkedPart, Zenon
<1>1. {k \in 1 .. Len(ts) : ts[k].block < F} = 1 .. n
  BY <1>0 DEF IsPart
<1>2. Len(ts) \in Nat /\ n \in Nat /\ n <= Len(ts)
  BY <1>0, HistoryLen
<1>4. qs = SubSeq(ts, 1, n)
  BY <1>0 DEF IsPart
<1>5. \A k \in 1 .. Len(ts) : (k <= n) <=> (ts[k].block < F)
  <2> SUFFICES ASSUME NEW k \in 1 .. Len(ts)  PROVE (k <= n) <=> (ts[k].block < F)
    OBVIOUS
  <2>1. k \in 1 .. n <=> ts[k].block < F
    BY <1>1
  <2> QED BY <1>2, <2>1
<1>6. Len(qs) = n /\ \A i \in 1 .. n : qs[i] = ts[i]
  BY <1>0 DEF IsPart
<1>61. \A i \in 1 .. n : qs[i] = ts[i]
  BY <1>6
<1>62. \A i \in 1 .. n : i \in 1 .. Len(ts)
  BY <1>2
<1>63. Len(qs) = n
  BY <1>6
<1>7. IsHistory(qs)
  <2>1. qs \in Seq(ToSet(qs))
    <3>1. ASSUME NEW i \in 1 .. n  PROVE ts[i] \in ToSet(qs)
      <4>1. \A j \in 1 .. n : ts[j] \in {ts[k] : k \in 1 .. n}
        OBVIOUS
      <4>2. 1 \in Int /\ n \in Int
        BY <1>2
      <4>3. SubSeq(ts, 1, n) \in Seq({ts[k] : k \in 1 .. n})
        BY ONLY <4>1, <4>2, SubSeqProperties
      <4>4. DOMAIN qs = 1 .. n
        <5>1. PICK R : R = {ts[k] : k \in 1 .. n}
          OBVIOUS
        <5>2. qs \in Seq(R)
          BY <1>4, <4>3, <5>1, Zenon
        <5>3. DOMAIN qs = 1 .. Len(qs)
          BY ONLY <5>2, LenProperties
        <5> QED BY <1>63, <5>3
      <4>5. qs[i] \in ToSet(qs)
        BY <4>4 DEF ToSet
      <4>6. qs[i] = ts[i]
        BY <1>61
      <4> QED BY <4>5, <4>6
    <3>2. 1 \in Int /\ n \in Int
      BY <1>2
    <3>3. SubSeq(ts, 1, n) \in Seq(ToSet(qs))
      BY ONLY <3>1, <3>2, SubSeqProperties
    <3> QED BY <1>4, <3>3
  <2>2. \A k \in 1 .. Len(qs) : k \in 1 .. Len(ts) /\ qs[k] = ts[k]
    BY <1>61, <1>62, <1>63, Zenon
  <2>3. \A k \in 1 .. Len(qs) : qs[k].block \in Nat \ {0} /\ qs[k].value \in Nat
    BY <2>2 DEF IsHistory
  <2>4. \A j, k \in 1 .. Len(qs) : j <= k => qs[j].block <= qs[k].block
    BY <2>2 DEF IsHistory
  <2> QED BY <2>1, <2>3, <2>4 DEF IsHistory
<1>8. ASSUME NEW c \in Nat, c < F  PROVE SameUntil(ts, qs, c) /\ SameUntil(qs, ts, c)
  <2>1. \A k \in 1 .. Len(ts) : ts[k].block <= c => k \in 1 .. n
    <3> SUFFICES ASSUME NEW k \in 1 .. Len(ts), ts[k].block <= c  PROVE k \in 1 .. n
      OBVIOUS
    <3>1. ts[k].block \in Nat
      BY HistoryAt
    <3>2. ts[k].block < F
      BY <1>8, <3>1
    <3> QED BY <1>2, <1>5, <3>2
  <2>2. \A k \in 1 .. n : k \in 1 .. Len(ts) /\ qs[k] = ts[k]
    BY <1>61, <1>62, Zenon
  <2>3. Cut(ts, c) = Cut(qs, c)
    BY <1>63, <2>1, <2>2 DEF Cut
  <2>4. \A k \in Cut(qs, c) : qs[k] = ts[k]
    BY <1>63, <2>2 DEF Cut
  <2> QED BY <2>3, <2>4 DEF SameUntil
<1> QED BY <1>7, <1>8

-----------------------------------------------------------------------------
(* Replays that begin at the balance of a block *)

\* From block c to block hi the balances are those of the transfers, and o more.
Offset(h, ts, u, o, c, hi) == \A b \in c .. hi : h[b] = net(ts, u, b) + o

\* An account that has been moved to block T.
Exact(a, h, rates, dec, T) == a.last = T /\ a.balance = h[T] /\ At(a, h, rates, dec, T)

\* An account on its way from block c, after the transfers K.
Follows(a, h, ts, u, o, rates, dec, c, K) ==
    /\ a.last \in Nat /\ c <= a.last /\ At(a, h, rates, dec, a.last)
    /\ a.balance = Total(Deltas(ts, u), K) + o
    /\ \A k \in K : delta(ts[k], u) # 0 => ts[k].block <= a.last
    /\ a.last = c \/ \E k \in K : ts[k].block = a.last

LEMMA FollowsLevel ==
    ASSUME NEW ts, IsHistory(ts), NEW u, NEW h, NEW o \in Int, NEW c \in Nat, NEW hi \in Nat,
           Offset(h, ts, u, o, c, hi), NEW rates, NEW dec, NEW K, K \subseteq 1 .. Len(ts),
           NEW a, Follows(a, h, ts, u, o, rates, dec, c, K), NEW to \in Nat, to <= hi,
           \A j \in 1 .. Len(ts) : ts[j].block < to => j \in K
    PROVE  Level(h, a.last, to, a.balance)
<1> SUFFICES ASSUME NEW b \in a.last .. to - 1  PROVE h[b] = a.balance
  BY DEF Level
<1>0. a.last \in Nat /\ c <= a.last
  BY DEF Follows
<1>1. b \in Nat /\ a.last <= b /\ b < to /\ b \in c .. hi
  BY <1>0
<1> DEFINE D == Deltas(ts, u)
           R == Cut(ts, b)
<1>2. h[b] = Total(D, R) + o
  BY <1>1, NetIs DEF Offset
<1>3. R \subseteq K
  <2>1. ASSUME NEW j \in R  PROVE j \in K
    <3>1. j \in 1 .. Len(ts) /\ ts[j].block <= b
      BY DEF Cut
    <3>2. ts[j].block < to
      BY <1>1, <3>1, HistoryAt
    <3> QED BY <3>1, <3>2
  <2> QED BY <2>1
<1>4. ASSUME NEW k \in K \ R  PROVE D[k] = 0
  <2>1. k \in 1 .. Len(ts) /\ ~(ts[k].block <= b)
    BY DEF Cut
  <2>2. ~(ts[k].block <= a.last)
    BY <1>0, <1>1, <2>1, HistoryAt
  <2>3. delta(ts[k], u) = 0
    BY <2>2 DEF Follows
  <2> QED BY <2>1, <2>3, DeltaAt
<1>5. \A k \in K : D[k] \in Int
  BY DeltaAt
<1>6. IsFiniteSet(K)
  BY CutFinite
<1> HIDE DEF D, R
<1>7. Total(D, R) = Total(D, K)
  <2>1. R \in SUBSET K
    BY <1>3
  <2> QED BY <1>4, <1>5, <1>6, <2>1, TotalWiden
<1> QED BY <1>2, <1>7 DEF Follows, D

\* A transfer that was applied, and one that changes nothing.
LEMMA FollowsNext ==
    ASSUME NEW ts, IsHistory(ts), NEW u, NEW h, NEW o \in Int, NEW c \in Nat, NEW rates, NEW dec,
           NEW K, NEW k, IsNext(ts, K, k), c <= ts[k].block,
           NEW a, Follows(a, h, ts, u, o, rates, dec, c, K), NEW n,
           \/ n = a /\ delta(ts[k], u) = 0
           \/ /\ n.last = ts[k].block /\ At(n, h, rates, dec, ts[k].block)
              /\ n.balance = a.balance + delta(ts[k], u)
    PROVE  Follows(n, h, ts, u, o, rates, dec, c, K \cup {k})
<1>0. k \in 1 .. Len(ts) /\ k \notin K /\ K \subseteq 1 .. Len(ts)
  BY DEF IsNext
<1>1. PICK t, D : t = ts[k] /\ D = Deltas(ts, u)
  BY Zenon
<1>2. t.block \in Nat
  BY <1>0, <1>1, HistoryAt
<1>3. Total(D, K \cup {k}) = D[k] + Total(D, K) /\ Total(D, K) \in Int
  <2>1. IsFiniteSet(K)
    BY <1>0, CutFinite
  <2>2. \A j \in K \cup {k} : D[j] \in Int
    BY <1>0, <1>1, DeltaAt
  <2>3. Total(D, K) \in Int
    BY <1>0, <1>1, BalanceInt
  <2> QED BY <1>0, <2>1, <2>2, <2>3, TotalAdd
<1>4. D[k] = delta(t, u) /\ delta(t, u) \in Int /\ a.balance = Total(D, K) + o
  BY <1>0, <1>1, DeltaAt DEF Follows
<1>5. CASE n = a /\ delta(t, u) = 0
  <2>1. a.balance = Total(D, K \cup {k}) + o
    BY <1>3, <1>4, <1>5
  <2>2. \A j \in K \cup {k} : delta(ts[j], u) # 0 => ts[j].block <= a.last
    BY <1>1, <1>5 DEF Follows
  <2> QED BY <1>1, <1>5, <2>1, <2>2 DEF Follows
<1>6. CASE n.last = t.block /\ At(n, h, rates, dec, t.block) /\ n.balance = a.balance + delta(t, u)
  <2>1. n.balance = Total(D, K \cup {k}) + o
    BY <1>3, <1>4, <1>6
  <2>2. \A j \in K \cup {k} : ts[j].block <= n.last
    BY <1>1, <1>2, <1>6 DEF IsNext
  <2>3. n.last \in Nat /\ c <= n.last /\ At(n, h, rates, dec, n.last)
    BY <1>1, <1>2, <1>6
  <2>4. \E j \in K \cup {k} : ts[j].block = n.last
    BY <1>1, <1>6
  <2> QED BY <1>1, <2>1, <2>2, <2>3, <2>4 DEF Follows
<1> QED BY <1>1, <1>5, <1>6

\* What apply_transfer needs to know of such an account.
LEMMA FollowsReady ==
    ASSUME NEW ts, IsHistory(ts), NEW u, NEW h, NEW o \in Int, NEW c \in Nat, NEW hi \in Nat,
           Offset(h, ts, u, o, c, hi), NEW rates, NEW dec,
           NEW K, NEW k, IsNext(ts, K, k), c <= ts[k].block, ts[k].block <= hi,
           NEW a, Follows(a, h, ts, u, o, rates, dec, c, K)
    PROVE  /\ a.last \in Nat /\ a.balance \in Int /\ a.last <= ts[k].block
           /\ At(a, h, rates, dec, a.last) /\ Level(h, a.last, ts[k].block, a.balance)
           /\ ts[k].block \in Nat /\ ts[k].value \in Nat
<1>0. k \in 1 .. Len(ts) /\ k \notin K /\ K \subseteq 1 .. Len(ts)
  BY DEF IsNext
<1>1. ts[k].block \in Nat /\ ts[k].value \in Nat
  BY <1>0, HistoryAt
<1>2. a.last \in Nat /\ At(a, h, rates, dec, a.last)
  BY DEF Follows
<1>3. a.balance \in Int
  <2>1. Total(Deltas(ts, u), K) \in Int
    BY <1>0, BalanceInt
  <2> QED BY <2>1 DEF Follows
<1>4. a.last <= ts[k].block
  BY DEF Follows, IsNext
<1>5. \A j \in 1 .. Len(ts) : ts[j].block < ts[k].block => j \in K
  BY DEF IsNext
<1>6. Level(h, a.last, ts[k].block, a.balance)
  BY <1>0, <1>1, <1>5, FollowsLevel
<1> QED BY <1>1, <1>2, <1>3, <1>4, <1>6

\* The beginning and the end of such a replay.
LEMMA FollowsStart ==
    ASSUME NEW ts, IsHistory(ts), NEW u, NEW h, NEW o \in Int, NEW c \in Nat, NEW hi \in Nat,
           c <= hi, Offset(h, ts, u, o, c, hi), NEW rates, NEW dec,
           NEW a, Exact(a, h, rates, dec, c)
    PROVE  Follows(a, h, ts, u, o, rates, dec, c, Cut(ts, c))
<1>1. a.last = c /\ a.balance = h[c] /\ At(a, h, rates, dec, c)
  BY DEF Exact
<1>2. h[c] = net(ts, u, c) + o
  <2>1. c \in c .. hi
    OBVIOUS
  <2> QED BY <2>1 DEF Offset
<1>3. a.balance = Total(Deltas(ts, u), Cut(ts, c)) + o
  BY <1>1, <1>2, NetIs
<1>4. \A k \in Cut(ts, c) : ts[k].block <= c
  BY DEF Cut
<1> QED BY <1>1, <1>3, <1>4 DEF Follows

LEMMA FollowsEnd ==
    ASSUME NEW ts, IsHistory(ts), NEW u, NEW h, Held(h), NEW o \in Int, NEW c \in Nat, NEW hi \in Nat,
           c <= hi, Offset(h, ts, u, o, c, hi), NEW rates, RatesOk(rates), NEW dec \in Nat,
           NEW a, Follows(a, h, ts, u, o, rates, dec, c, Cut(ts, hi)),
           NEW n, n = advance_account(a, hi, rates, dec)
    PROVE  Exact(n, h, rates, dec, hi)
<1>1. a.last \in Nat /\ At(a, h, rates, dec, a.last)
      /\ a.balance = Total(Deltas(ts, u), Cut(ts, hi)) + o
  BY DEF Follows
<1>2. Cut(ts, hi) \subseteq 1 .. Len(ts) /\ \A k \in Cut(ts, hi) : ts[k].block <= hi
  BY DEF Cut
<1>3. a.last <= hi
  BY <1>2 DEF Follows
<1>4. \A j \in 1 .. Len(ts) : ts[j].block < hi => j \in Cut(ts, hi)
  <2>1. \A j \in 1 .. Len(ts) : ts[j].block \in Nat
    BY HistoryAt
  <2> QED BY <2>1 DEF Cut
<1>5. Level(h, a.last, hi, a.balance)
  BY <1>2, <1>4, FollowsLevel
<1>6. Total(Deltas(ts, u), Cut(ts, hi)) \in Int
  BY <1>2, BalanceInt
<1>7. a.balance \in Int
  BY <1>1, <1>6
<1>8. At(n, h, rates, dec, hi) /\ n.balance = a.balance /\ n.last = hi
  BY <1>1, <1>3, <1>5, <1>7, AdvanceAt
<1>9. h[hi] = net(ts, u, hi) + o
  <2>1. hi \in c .. hi
    OBVIOUS
  <2> QED BY <2>1 DEF Offset
<1>10. h[hi] = a.balance
  BY <1>1, <1>9, NetIs
<1> QED BY <1>8, <1>10 DEF Exact

\* An account that begins, with its balance, at the first block that counts.
LEMMA ExactNew ==
    ASSUME NEW h, Held(h), NEW rates, RatesOk(rates), NEW dec \in Nat, NEW b \in Nat,
           \E j \in 1 .. Len(rates) : rates[j].from = b,
           \A i \in 1 .. Len(rates) : rates[i].from < b => rates[i].rate = 0,
           NEW a, a = [NewAccount EXCEPT !.balance = h[b], !.last = b]
    PROVE  Exact(a, h, rates, dec, b)
<1>1. PICK x : x = h[b]
  OBVIOUS
<1>2. a = Account(x, b, 0, NoSegment, 0)
  BY <1>1 DEF NewAccount, Account
<1>3. a.balance = x /\ a.last = b /\ a.done = 0 /\ a.seg = NoSegment /\ a.integral = 0
  BY ONLY <1>2, AccountFields
<1>4. PICK j \in 1 .. Len(rates) : rates[j].from = b
  OBVIOUS
<1>5. ASSUME NEW i \in 1 .. Len(rates)
      PROVE  ~Running(rates, i, b) /\ (Full(rates, i, b) => rates[i].from < b)
  <2>1. rates[i].from \in Nat /\ Len(rates) \in Nat
    BY RatePoint, RatesLen
  <2>2. ASSUME i < Len(rates)
        PROVE  i + 1 \in 1 .. Len(rates) /\ rates[i + 1].from \in Nat
               /\ rates[i].from < rates[i + 1].from
    <3>1. i + 1 \in 1 .. Len(rates) /\ i < i + 1
      BY <2>1, <2>2
    <3> QED BY <3>1, RatePoint DEF RatesOk
  <2>3. CASE i < j
    <3>1. i < Len(rates) /\ (i + 1 = j \/ i + 1 < j)
      BY <2>1, <2>3
    <3>2. rates[i + 1].from <= b
      <4>1. CASE i + 1 = j
        BY <1>4, <4>1
      <4>2. CASE i + 1 < j
        <5>1. rates[i + 1].from < rates[j].from
          BY <1>4, <2>2, <3>1, <4>2 DEF RatesOk
        <5> QED BY <1>4, <2>2, <3>1, <5>1
      <4> QED BY <3>1, <4>1, <4>2
    <3> QED BY <2>1, <2>2, <3>1, <3>2 DEF Running, Full
  <2>4. CASE ~(i < j)
    <3>1. i = j \/ j < i
      BY <2>4
    <3>2. rates[i].from >= b
      <4>1. CASE i = j
        BY <1>4, <2>1, <4>1
      <4>2. CASE j < i
        <5>1. rates[j].from < rates[i].from
          BY <1>4, <4>2 DEF RatesOk
        <5> QED BY <1>4, <2>1, <5>1
      <4> QED BY <3>1, <4>1, <4>2
    <3> QED BY <2>1, <2>2, <3>2 DEF Running, Full
  <2> QED BY <2>3, <2>4
<1>6. ASSUME NEW i \in 1 .. Len(rates)  PROVE Earned(h, rates, dec, b)[i] = 0
  <2>1. PICK z : z = scaled_integral(Area(h, rates, i, b), dec)
    OBVIOUS
  <2>2. z \in Int
    BY <2>1, AreaInt, ScaledIs
  <2>3. rates[i].rate = 0 => Worth(h, rates, dec, i, b) = z * 0
    BY <2>1 DEF Worth
  <2>4. Full(rates, i, b) => Worth(h, rates, dec, i, b) = 0
    BY <1>5, <2>2, <2>3
  <2> QED BY <2>4, EarnedInt
<1>7. PICK f : f = Earned(h, rates, dec, b)
  OBVIOUS
<1>8. IsFiniteSet(1 .. Len(rates)) /\ \A i \in 1 .. Len(rates) : f[i] = 0
  <2>1. IsFiniteSet(1 .. Len(rates))
    BY DoneInt
  <2> QED BY <1>6, <1>7, <2>1
<1>9. Done(h, rates, dec, b) = Total(f, 1 .. Len(rates))
  BY <1>7, Zenon DEF Done
<1>10. Done(h, rates, dec, b) = 0
  BY <1>8, <1>9, TotalZero
<1>11. At(a, h, rates, dec, b)
  BY <1>2, <1>3, <1>5, <1>10 DEF At
<1> QED BY <1>1, <1>3, <1>11 DEF Exact

\* The numerator of an account at its block.
LEMMA ExactProjects ==
    ASSUME NEW h, Held(h), NEW rates, RatesOk(rates), NEW dec \in Nat, NEW T \in Nat,
           NEW a, Exact(a, h, rates, dec, T)
    PROVE  Projects(a, h, rates, dec, T)
<1>1. PICK m : m = advance_account(a, T, rates, dec)
  OBVIOUS
<1>2. a.last = T /\ a.balance = h[T] /\ At(a, h, rates, dec, T) /\ h[T] \in Int
  BY DEF Exact, Held
<1>3. Level(h, T, T, a.balance)
  BY DEF Level
<1>4. At(m, h, rates, dec, T)
  BY <1>1, <1>2, <1>3, AdvanceAt
<1>5. m.done + ActivePart(m, rates, dec) = Total(Worths(h, rates, dec, T), 1 .. Len(rates))
  BY <1>4, Projection
<1>6. projected_numerator(a, T, rates, dec) = m.done + ActivePart(m, rates, dec)
  BY <1>1 DEF projected_numerator
<1> QED BY <1>5, <1>6 DEF Projects

\* Before a token rebases, its reference numerator is that of its transfers.
LEMMA ReferenceNets ==
    ASSUME NEW ts, IsHistory(ts), NEW r \in Nat, NEW u, NEW rates, NEW dec, NEW c \in Nat, r >= c
    PROVE  ReferenceNumerator(ts, r, u, rates, dec, c) =
             Total(Worths(Nets(ts, u), rates, dec, c), 1 .. Len(rates))
<1>1. Agree(Nets(ts, u), Balances(ts, r, u), c)
  <2>1. ASSUME NEW b \in 0 .. c - 1  PROVE Nets(ts, u)[b] = Balances(ts, r, u)[b]
    <3>1. b \in Nat /\ ~(r <= b) /\ net(ts, u, b) \in Int
      BY NetIs
    <3>2. BalanceAfter(ts, r, u, b) = net(ts, u, b) + 0
      BY <3>1 DEF BalanceAfter
    <3> QED BY <3>1, <3>2 DEF Nets, Balances
  <2> QED BY <2>1 DEF Agree
<1>2. Worths(Nets(ts, u), rates, dec, c) = Worths(Balances(ts, r, u), rates, dec, c)
  BY <1>1, NetsHeld, SameWorths
<1> QED BY <1>2, ReferenceIs

\* Work that was done in two parts and in slices of any size: the numerator of
\* every account is the integral of its balances, to the last unit.
THEOREM ReplayIsExact ==
    ASSUME NEW ts, IsHistory(ts), NEW U, Zero \notin U, NEW u \in U, NEW rates, RatesOk(rates),
           NEW dec \in Nat, NEW first \in Nat, NEW c \in Nat, first <= c,
           NEW range \in Nat, range > 0, NEW r \in Nat, r > c
    PROVE  LET half  == advance_token([v \in U |-> NewAccount], ts, 0, first, range, rates, dec)
               whole == advance_token(half.accounts, ts, first, c, range, rates, dec)
           IN  projected_numerator(whole.accounts[u], c, rates, dec) =
                 ReferenceNumerator(ts, r, u, rates, dec, c)
<1>1. PICK new, half, whole :
        /\ new = [v \in U |-> NewAccount]
        /\ half = advance_token(new, ts, 0, first, range, rates, dec)
        /\ whole = advance_token(half.accounts, ts, first, c, range, rates, dec)
  BY Zenon
<1>2. Standing(new, U, ts, rates, dec, 0)
  BY <1>1, NewStands
<1>3. Standing(half.accounts, U, ts, rates, dec, first)
  <2>1. 0 \in Nat /\ 0 <= first
    OBVIOUS
  <2> QED BY <1>1, <1>2, <2>1, TokenReplayed DEF Standing
<1>4. Standing(whole.accounts, U, ts, rates, dec, c)
  BY <1>1, <1>3, TokenReplayed DEF Standing
<1>5. PICK as : as = whole.accounts
  OBVIOUS
<1>6. projected_numerator(as[u], c, rates, dec) =
        Total(Worths(Nets(ts, u), rates, dec, c), 1 .. Len(rates))
  <2>1. Standing(as, U, ts, rates, dec, c)
    BY <1>4, <1>5
  <2>2. Projects(as[u], Nets(ts, u), rates, dec, c)
    BY <2>1, ProjectedIs
  <2> QED BY <2>2 DEF Projects
<1>7. projected_numerator(as[u], c, rates, dec) = ReferenceNumerator(ts, r, u, rates, dec, c)
  BY <1>6, ReferenceNets
<1> QED BY <1>1, <1>5, <1>7

-----------------------------------------------------------------------------
(* The sources that begin at the balances of a block, and rebases *)

\* What balanceOf has beyond the transfers at block lo, since a rebase.
Gained(ts, r, u, lo) == IF r <= lo THEN net(ts, u, r) ELSE 0

\* No rebase changes the account's balance after block lo, until block hi.
Smooth(ts, r, u, lo, hi) == r <= lo \/ r > hi \/ net(ts, u, r) = 0

\* The balances that a source replays from block lo on.
Believed(ts, r, u, lo) ==
    [b \in Nat |-> IF b < lo THEN BalanceAfter(ts, r, u, b)
                   ELSE net(ts, u, b) + Gained(ts, r, u, lo)]

LEMMA BelievedIs ==
    ASSUME NEW ts, IsHistory(ts), NEW r \in Nat, NEW u, NEW lo \in Nat, NEW hi \in Nat, lo <= hi,
           NEW h, h = Believed(ts, r, u, lo), NEW o, o = Gained(ts, r, u, lo)
    PROVE  /\ o \in Int /\ Held(h) /\ Offset(h, ts, u, o, lo, hi)
           /\ h[lo] = BalanceAfter(ts, r, u, lo)
           /\ BalanceAfter(ts, r, u, hi) = net(ts, u, hi) + o <=> Smooth(ts, r, u, lo, hi)
           /\ Smooth(ts, r, u, lo, hi) => \A b \in 0 .. hi : h[b] = Balances(ts, r, u)[b]
<1> DEFINE n(b) == net(ts, u, b)
<1>1. n(r) \in Int /\ \A b \in Nat : n(b) \in Int
  BY NetIs
<1>2. \A b \in Nat : /\ BalanceAfter(ts, r, u, b) = n(b) + (IF r <= b THEN n(r) ELSE 0)
                     /\ Balances(ts, r, u)[b] = BalanceAfter(ts, r, u, b)
  BY DEF BalanceAfter, Balances
<1>3. o = IF r <= lo THEN n(r) ELSE 0
  BY DEF Gained
<1>4. \A b \in Nat : h[b] = IF b < lo THEN BalanceAfter(ts, r, u, b) ELSE n(b) + o
  BY DEF Believed
<1>5. Smooth(ts, r, u, lo, hi) <=> r <= lo \/ r > hi \/ n(r) = 0
  BY DEF Smooth
<1> HIDE DEF n
<1>6. o \in Int /\ Held(h)
  <2>1. o \in Int
    BY <1>1, <1>3
  <2>2. ASSUME NEW b \in Nat  PROVE h[b] \in Int
    BY <1>1, <1>2, <1>4, <2>1
  <2> QED BY <2>1, <2>2 DEF Held
<1>7. Offset(h, ts, u, o, lo, hi)
  <2> SUFFICES ASSUME NEW b \in lo .. hi  PROVE h[b] = net(ts, u, b) + o
    BY DEF Offset
  <2>1. b \in Nat /\ ~(b < lo)
    OBVIOUS
  <2> QED BY <1>4, <2>1 DEF n
<1>8. h[lo] = BalanceAfter(ts, r, u, lo)
  BY <1>2, <1>3, <1>4
<1>9. BalanceAfter(ts, r, u, hi) = n(hi) + o <=> Smooth(ts, r, u, lo, hi)
  BY <1>1, <1>2, <1>3, <1>5
<1>10. ASSUME Smooth(ts, r, u, lo, hi), NEW b \in 0 .. hi  PROVE h[b] = Balances(ts, r, u)[b]
  <2>1. b \in Nat /\ b <= hi
    OBVIOUS
  <2> QED BY <1>1, <1>2, <1>3, <1>4, <1>5, <1>10, <2>1
<1> QED BY <1>6, <1>7, <1>8, <1>9, <1>10 DEF n

\* The account has enough for each of its logs after block lo.
Affords(ts, u, o, lo, hi) ==
    \A k \in 1 .. Len(ts) : ts[k].block \in lo + 1 .. hi =>
        LET has == Total(Deltas(ts, u), 1 .. k - 1) + o
        IN  has >= 0 /\ (ts[k].from = u => ts[k].value <= has)

LEMMA SolventAffords ==
    ASSUME NEW ts, IsHistory(ts), NEW r \in Nat, NEW u, NEW lo \in Nat, NEW hi \in Nat,
           Solvent(ts, r, u), Smooth(ts, r, u, lo, hi)
    PROVE  Affords(ts, u, Gained(ts, r, u, lo), lo, hi)
<1> SUFFICES ASSUME NEW k \in 1 .. Len(ts), ts[k].block \in lo + 1 .. hi, NEW has,
                    has = Total(Deltas(ts, u), 1 .. k - 1) + Gained(ts, r, u, lo)
             PROVE  has >= 0 /\ (ts[k].from = u => ts[k].value <= has)
  BY DEF Affords
<1>1. (IF r < ts[k].block THEN net(ts, u, r) ELSE 0) = Gained(ts, r, u, lo)
  <2>1. ts[k].block \in Nat
    BY HistoryAt
  <2> QED BY <2>1 DEF Smooth, Gained
<1>2. has = SumOver([j \in 1 .. Len(ts) |-> delta(ts[j], u)], 1 .. k - 1)
              + (IF r < ts[k].block THEN net(ts, u, r) ELSE 0)
  BY <1>1 DEF Total, SumOver, Deltas
<1> QED BY <1>2 DEF Solvent

LEMMA UptoPrefix ==
    ASSUME NEW ts, IsHistory(ts), NEW lo \in Nat, NEW hi \in Nat, NEW k \in 1 .. Len(ts),
           ts[k].block \in lo .. hi
    PROVE  Upto(ts, lo, hi, k - 1) = 1 .. k - 1
<1>1. Len(ts) \in Nat /\ ts[k].block \in Nat
  BY HistoryLen, HistoryAt
<1>2. ASSUME NEW j \in 1 .. Len(ts)
      PROVE  ts[j].block < lo \/ (j <= k - 1 /\ ts[j].block <= hi) <=> j \in 1 .. k - 1
  <2>1. ts[j].block \in Nat /\ (j <= k => ts[j].block <= ts[k].block)
        /\ (k <= j => ts[k].block <= ts[j].block)
    BY HistoryAt DEF IsHistory
  <2> QED BY <1>1, <2>1
<1>3. 1 .. k - 1 \subseteq 1 .. Len(ts)
  BY <1>1
<1> QED BY <1>2, <1>3 DEF Upto

\* A balance and one more log.
LEMMA BalanceNext ==
    ASSUME NEW ts, IsHistory(ts), NEW u, NEW K, NEW k, IsNext(ts, K, k), NEW D, D = Deltas(ts, u)
    PROVE  /\ Total(D, K) \in Int /\ delta(ts[k], u) \in Int
           /\ Total(D, K \cup {k}) = Total(D, K) + delta(ts[k], u)
<1>0. k \in 1 .. Len(ts) /\ k \notin K /\ K \subseteq 1 .. Len(ts)
  BY DEF IsNext
<1>1. IsFiniteSet(K) /\ Total(D, K) \in Int
  BY <1>0, CutFinite, BalanceInt
<1>2. D[k] = delta(ts[k], u) /\ delta(ts[k], u) \in Int
  BY <1>0, DeltaAt
<1>3. \A j \in K \cup {k} : D[j] \in Int
  BY <1>0, DeltaAt
<1>4. Total(D, K \cup {k}) = D[k] + Total(D, K)
  BY <1>0, <1>1, <1>3, TotalAdd
<1> QED BY <1>1, <1>2, <1>4

LEMMA AffordsNext ==
    ASSUME NEW ts, IsHistory(ts), NEW u, NEW o \in Int, NEW lo \in Nat, NEW hi \in Nat,
           Affords(ts, u, o, lo, hi), NEW k \in 1 .. Len(ts), ts[k].block \in lo + 1 .. hi,
           NEW K, K = Upto(ts, lo + 1, hi, k - 1), NEW b, b = Total(Deltas(ts, u), K) + o
    PROVE  /\ b \in Nat /\ b + delta(ts[k], u) \in Nat
           /\ ts[k].from = u => ts[k].value <= b
<1>1. K = 1 .. k - 1
  <2>1. PICK m : m = lo + 1
    OBVIOUS
  <2>2. m \in Nat /\ ts[k].block \in m .. hi /\ K = Upto(ts, m, hi, k - 1)
    BY <2>1
  <2> QED BY ONLY <2>2, IsHistory(ts), hi \in Nat, k \in 1 .. Len(ts), UptoPrefix
<1>2. b >= 0 /\ (ts[k].from = u => ts[k].value <= b)
  BY <1>1 DEF Affords
<1>3. b \in Int /\ ts[k].value \in Nat
  <2>1. K \subseteq 1 .. Len(ts)
    BY DEF Upto
  <2> QED BY <2>1, BalanceInt, HistoryAt
<1>4. PICK v, in, out : /\ v = ts[k].value
                        /\ in = (IF ts[k].to = u THEN v ELSE 0) /\ out = (IF ts[k].from = u THEN v ELSE 0)
  BY Zenon
<1>5. delta(ts[k], u) = in - out
  BY <1>4 DEF delta
<1>6. in \in Nat /\ out \in Nat /\ out <= b
  BY <1>2, <1>3, <1>4
<1>7. b \in Nat /\ b + (in - out) \in Nat
  BY <1>2, <1>3, <1>6
<1> QED BY <1>2, <1>5, <1>7

\* One log of add_areas, and the equation of its recursive function.
AreaOf(ts, u, mine, k, s) ==
    IF k \in mine THEN add_area(s, ts[k].block, delta(ts[k], u)) ELSE s

Areas(s, ts, u, mine, n, f) ==
    f = [i \in 0 .. n |-> IF i = 0 THEN s ELSE AreaOf(ts, u, mine, i, f[i - 1])]

LEMMA AreasAt ==
    ASSUME NEW s, NEW ts, NEW u, NEW mine, NEW n \in Nat, NEW f, Areas(s, ts, u, mine, n, f),
           NEW i \in 0 .. n
    PROVE  f[i] = IF i = 0 THEN s ELSE AreaOf(ts, u, mine, i, f[i - 1])
<1> DEFINE F(j) == IF j = 0 THEN s ELSE AreaOf(ts, u, mine, j, f[j - 1])
<1>1. f = [j \in 0 .. n |-> F(j)]
  BY DEF Areas
<1> HIDE DEF F
<1>2. f[i] = F(i)
  BY <1>1
<1> QED BY <1>2 DEF F

LEMMA AreasStart ==
    ASSUME NEW s, NEW ts, NEW u, NEW mine, NEW n \in Nat, NEW f, Areas(s, ts, u, mine, n, f)
    PROVE  f[0] = s
<1> DEFINE F(j) == IF j = 0 THEN s ELSE AreaOf(ts, u, mine, j, f[j - 1])
<1>1. f = [j \in 0 .. n |-> F(j)]
  BY DEF Areas
<1>2. F(0) = s
  OBVIOUS
<1>3. 0 \in 0 .. n
  OBVIOUS
<1> HIDE DEF F
<1> QED BY <1>1, <1>2, <1>3

LEMMA AreasExist ==
    ASSUME NEW s, NEW ts, NEW u, NEW mine, NEW n \in Nat
    PROVE  \E f : Areas(s, ts, u, mine, n, f)
<1> DEFINE T == {m \in Nat : ~ \E f : Areas(s, ts, u, mine, m, f)}
<1> SUFFICES ASSUME T # {} PROVE FALSE
  OBVIOUS
<1>1. PICK m \in T : \A x \in T : m <= x
  <2>1. T \subseteq Nat
    OBVIOUS
  <2> HIDE DEF T
  <2> QED BY <2>1, SmallestNat
<1>2. m \in Nat /\ ~ \E f : Areas(s, ts, u, mine, m, f)
  OBVIOUS
<1>3. m # 0
  <2> DEFINE f == [i \in 0 .. 0 |-> s]
             F(i) == IF i = 0 THEN s ELSE AreaOf(ts, u, mine, i, f[i - 1])
  <2>1. \A i \in 0 .. 0 : F(i) = s
    OBVIOUS
  <2> HIDE DEF F
  <2>2. f = [i \in 0 .. 0 |-> F(i)]
    BY <2>1
  <2>3. Areas(s, ts, u, mine, 0, f)
    BY <2>2 DEF Areas, F
  <2> HIDE DEF f
  <2> QED BY <1>2, <2>3
<1>4. m - 1 \in Nat /\ m - 1 \notin T
  <2> HIDE DEF T
  <2> QED BY <1>1, <1>2, <1>3
<1>5. PICK f : Areas(s, ts, u, mine, m - 1, f)
  BY <1>4
<1> DEFINE q == [i \in 0 .. m |-> IF i = m THEN AreaOf(ts, u, mine, m, f[m - 1]) ELSE f[i]]
           F(i) == IF i = 0 THEN s ELSE AreaOf(ts, u, mine, i, q[i - 1])
<1>6. ASSUME NEW i \in 0 .. m PROVE q[i] = F(i)
  <2>1. CASE i = m
    <3>1. m - 1 \in 0 .. m /\ m - 1 # m
      BY <1>2, <1>3
    <3> QED BY <1>3, <2>1, <3>1
  <2>2. CASE i # m
    <3>1. i \in 0 .. m - 1
      BY <1>2, <2>2
    <3>2. f[i] = IF i = 0 THEN s ELSE AreaOf(ts, u, mine, i, f[i - 1])
      <4> DEFINE F0(j) == IF j = 0 THEN s ELSE AreaOf(ts, u, mine, j, f[j - 1])
      <4>1. f = [j \in 0 .. m - 1 |-> F0(j)]
        BY <1>5 DEF Areas
      <4> HIDE DEF F0
      <4>2. f[i] = F0(i)
        BY <3>1, <4>1
      <4> QED BY <4>2 DEF F0
    <3>3. i # 0 => i - 1 \in 0 .. m /\ i - 1 # m
      BY <1>2, <2>2, <3>1
    <3> QED BY <2>2, <3>1, <3>2, <3>3
  <2> QED BY <2>1, <2>2
<1>7. q = [i \in 0 .. m |-> q[i]]
  OBVIOUS
<1> HIDE DEF q, F
<1>8. q = [i \in 0 .. m |-> F(i)]
  BY <1>6, <1>7
<1>9. Areas(s, ts, u, mine, m, q)
  BY <1>8 DEF Areas, F
<1> QED BY <1>2, <1>9


LEMMA AreasSolve ==
    ASSUME NEW ts, IsHistory(ts), NEW u, NEW mine, NEW lo, NEW b, NEW s,
           s = [sum |-> 0, cursor |-> lo, balance |-> b, ok |-> TRUE]
    PROVE  Areas(s, ts, u, mine, Len(ts), add_areas(ts, u, mine, lo, b))
<1>1. add_areas(ts, u, mine, lo, b) = CHOOSE f : Areas(s, ts, u, mine, Len(ts), f)
  BY DEF add_areas, Areas, AreaOf
<1>2. \E f : Areas(s, ts, u, mine, Len(ts), f)
  BY HistoryLen, AreasExist
<1> QED BY <1>1, <1>2

\* A state of add_areas as an account of a token that has no rates.
Bare(s) == Account(s.balance, s.cursor, 0, NoSegment, 0)

LEMMA BareAt ==
    ASSUME NEW h, NEW b, NEW c, NEW a, a = Account(b, c, 0, NoSegment, 0), NEW T
    PROVE  At(a, h, <<>>, 0, T) /\ a.balance = b /\ a.last = c
<1>1. a.balance = b /\ a.last = c /\ a.seg = NoSegment /\ a.integral = 0
  BY AccountFields
<1>2. Len(<<>>) = 0 /\ 1 .. 0 = {}
  OBVIOUS
<1>3. Done(h, <<>>, 0, T) = Total(Earned(h, <<>>, 0, T), {})
  BY <1>2 DEF Done
<1>4. Done(h, <<>>, 0, T) = 0
  BY <1>3, TotalEmpty
<1> QED BY <1>1, <1>2, <1>4 DEF At

\* After the logs K the sum is that of the balances before the cursor.
Summed(s, h, ts, u, o, lo, hi, K) ==
    /\ Follows(Bare(s), h, ts, u, o, <<>>, 0, lo, K)
    /\ s.sum = Total(h, lo .. s.cursor - 1)
    /\ Affords(ts, u, o, lo, hi) => s.ok = TRUE /\ s.sum >= 0

\* The sum over an interval, and over one that goes on at the same level.
LEMMA AreaNext ==
    ASSUME NEW h, Held(h), NEW lo \in Nat, NEW c \in Nat, NEW d \in Nat, lo <= c, c <= d,
           NEW b \in Int, Level(h, c, d, b)
    PROVE  /\ Total(h, lo .. c - 1) \in Int /\ b * (d - c) \in Int
           /\ Total(h, lo .. d - 1) = Total(h, lo .. c - 1) + b * (d - c)
<1>1. PICK S : S = lo .. c - 1
  OBVIOUS
<1>2. IsFiniteSet(S) /\ Below(S, c) /\ S \subseteq Nat
  <2>1. lo \in Int /\ c - 1 \in Int
    OBVIOUS
  <2>2. IsFiniteSet(S)
    BY <1>1, <2>1, FS_Interval
  <2> QED BY <1>1, <2>2 DEF Below
<1>3. Grows(h, S, c .. d - 1, b, c, d)
  BY <1>2, IntervalTotal
<1>4. S \cup (c .. d - 1) = lo .. d - 1
  BY <1>1
<1>5. Total(h, S) \in Int
  BY <1>2, TotalInt DEF Held
<1>6. b * (d - c) \in Int
  OBVIOUS
<1> QED BY <1>1, <1>3, <1>4, <1>5, <1>6 DEF Grows

\* What an account has after a log.
LEMMA AfterLog ==
    ASSUME NEW ts, IsHistory(ts), NEW r \in Nat, NEW u, Solvent(ts, r, u), NEW k \in 1 .. Len(ts)
    PROVE  Total(Deltas(ts, u), 1 .. k) + (IF r < ts[k].block THEN net(ts, u, r) ELSE 0) >= 0
<1>1. PICK D, x, g : /\ D = Deltas(ts, u) /\ x = Total(D, 1 .. k - 1)
                     /\ g = IF r < ts[k].block THEN net(ts, u, r) ELSE 0
  BY Zenon
<1>2. x + g >= 0 /\ (ts[k].from = u => ts[k].value <= x + g)
  <2>1. x = SumOver([j \in 1 .. Len(ts) |-> delta(ts[j], u)], 1 .. k - 1)
    BY <1>1 DEF Total, SumOver, Deltas
  <2> QED BY <1>1, <2>1 DEF Solvent
<1>3. Len(ts) \in Nat /\ k \in Nat /\ 1 .. k - 1 \subseteq 1 .. Len(ts)
  <2>1. Len(ts) \in Nat
    BY HistoryLen
  <2> QED BY <2>1
<1>4. x \in Int /\ g \in Int /\ ts[k].value \in Nat
  <2>1. x \in Int
    BY <1>1, <1>3, BalanceInt
  <2>2. g \in Int
    BY <1>1, NetIs
  <2> QED BY <2>1, <2>2, HistoryAt
<1>5. Total(D, 1 .. k) = delta(ts[k], u) + x
  <2>1. (1 .. k - 1) \cup {k} = 1 .. k /\ k \notin 1 .. k - 1
    BY <1>3
  <2>2. IsFiniteSet(1 .. k - 1)
    BY <1>3, CutFinite
  <2>3. \A j \in (1 .. k - 1) \cup {k} : D[j] \in Int
    BY <1>1, <1>3, DeltaAt
  <2>4. Total(D, (1 .. k - 1) \cup {k}) = D[k] + Total(D, 1 .. k - 1)
    BY <2>1, <2>2, <2>3, TotalAdd
  <2>5. D[k] = delta(ts[k], u)
    BY <1>1, DeltaAt
  <2> QED BY <1>1, <2>1, <2>4, <2>5
<1>6. delta(ts[k], u) = (IF ts[k].to = u THEN ts[k].value ELSE 0)
                          - (IF ts[k].from = u THEN ts[k].value ELSE 0)
  BY DEF delta
<1>7. (delta(ts[k], u) + x) + g >= 0
  BY <1>2, <1>4, <1>6
<1> QED BY <1>1, <1>5, <1>7

LEMMA CutPrefix ==
    ASSUME NEW ts, IsHistory(ts), NEW b \in Nat
    PROVE  \E n \in 0 .. Len(ts) : Cut(ts, b) = 1 .. n
<1>1. b + 1 \in Nat
  OBVIOUS
<1>2. PICK n \in 0 .. Len(ts) : {k \in 1 .. Len(ts) : ts[k].block < b + 1} = 1 .. n
  BY <1>1, SharedPrefix
<1>3. \A k \in 1 .. Len(ts) : ts[k].block < b + 1 <=> ts[k].block <= b
  BY HistoryAt
<1>4. Cut(ts, b) = 1 .. n
  BY <1>2, <1>3 DEF Cut
<1> QED BY <1>4

\* Nobody has less than nothing at the end of a block.
LEMMA NeverNegative ==
    ASSUME NEW ts, IsHistory(ts), NEW r \in Nat, NEW u, Solvent(ts, r, u), NEW b \in Nat
    PROVE  BalanceAfter(ts, r, u, b) \in Nat
<1> DEFINE N(c) == net(ts, u, c)
<1>1. ASSUME NEW c \in Nat
      PROVE  \/ N(c) = 0
             \/ \E k \in 1 .. Len(ts) : /\ ts[k].block <= c
                                        /\ N(c) + (IF r < ts[k].block THEN N(r) ELSE 0) >= 0
  <2>1. PICK n \in 0 .. Len(ts) : Cut(ts, c) = 1 .. n
    BY CutPrefix
  <2>2. N(c) = Total(Deltas(ts, u), 1 .. n)
    BY <2>1, NetIs
  <2>3. Len(ts) \in Nat
    BY HistoryLen
  <2>4. CASE n = 0
    <3>1. 1 .. n = {}
      BY <2>4
    <3> QED BY <2>2, <3>1, TotalEmpty
  <2>5. CASE n # 0
    <3>1. n \in 1 .. Len(ts) /\ n \in 1 .. n
      BY <2>3, <2>5
    <3>2. ts[n].block <= c
      BY <2>1, <3>1 DEF Cut
    <3>3. Total(Deltas(ts, u), 1 .. n) + (IF r < ts[n].block THEN N(r) ELSE 0) >= 0
      BY <3>1, AfterLog
    <3> QED BY <2>2, <3>1, <3>2, <3>3
  <2> QED BY <2>4, <2>5
<1>2. N(r) \in Int /\ N(b) \in Int
  BY NetIs
<1>3. BalanceAfter(ts, r, u, b) = N(b) + (IF r <= b THEN N(r) ELSE 0)
  BY DEF BalanceAfter
<1> HIDE DEF N
<1>4. \A k \in 1 .. Len(ts) : ts[k].block \in Nat
  BY HistoryAt
<1>5. N(r) >= 0
  BY <1>1, <1>2, <1>4
<1>6. N(b) + (IF r <= b THEN N(r) ELSE 0) >= 0
  BY <1>1, <1>2, <1>4, <1>5
<1> QED BY <1>2, <1>3, <1>6

LEMMA SummedNext ==
    ASSUME NEW ts, IsHistory(ts), NEW u, NEW h, Held(h), NEW o \in Int, NEW lo \in Nat, NEW hi \in Nat,
           Offset(h, ts, u, o, lo, hi), NEW k \in 1 .. Len(ts), ts[k].block \in lo + 1 .. hi,
           NEW K, K = Upto(ts, lo + 1, hi, k - 1), NEW s, Summed(s, h, ts, u, o, lo, hi, K),
           NEW n, n = AreaOf(ts, u, NetDeltas(ts, u, lo + 1, hi), k, s)
    PROVE  Summed(n, h, ts, u, o, lo, hi, K \cup {k})
<1>1. PICK B, d : B = ts[k].block /\ d = delta(ts[k], u)
  BY Zenon
<1>2. B \in Nat /\ lo <= B /\ B <= hi /\ IsNext(ts, K, k) /\ d \in Int
  <2>1. lo + 1 \in Nat /\ ts[k].block \in Nat
    BY HistoryAt
  <2>2. IsNext(ts, K, k)
    BY <2>1, UptoNext
  <2>3. d \in Int
    BY <1>1, DeltaAt
  <2>4. B \in Nat /\ lo <= B /\ B <= hi
    BY <1>1, <2>1
  <2> QED BY <2>2, <2>3, <2>4
<1>3. PICK bal, cur, x : bal = s.balance /\ cur = s.cursor /\ x = s.sum
  BY Zenon
<1>4. PICK a : a = Bare(s)
  OBVIOUS
<1>5. a.balance = bal /\ a.last = cur /\ Follows(a, h, ts, u, o, <<>>, 0, lo, K)
  <2>1. a = Account(bal, cur, 0, NoSegment, 0)
    BY <1>3, <1>4 DEF Bare
  <2>2. a.balance = bal /\ a.last = cur
    BY <2>1, BareAt
  <2> QED BY <1>4, <2>2 DEF Summed
<1>6. CASE k \notin NetDeltas(ts, u, lo + 1, hi)
  <2>1. n = s /\ d = 0
    <3>1. ~Touches(ts, k, u)
      BY <1>6 DEF NetDeltas, Touches
    <3> QED BY <1>1, <1>6, <3>1, DeltaAt DEF AreaOf
  <2>2. Follows(a, h, ts, u, o, <<>>, 0, lo, K \cup {k})
    BY <1>1, <1>2, <1>5, <2>1, FollowsNext
  <2> QED BY <1>4, <2>1, <2>2 DEF Summed
<1>7. CASE k \in NetDeltas(ts, u, lo + 1, hi)
  <2>1. /\ n.sum = x + bal * (B - cur) /\ n.cursor = B /\ n.balance = bal + d
        /\ n.ok = (s.ok /\ bal + d >= 0)
    BY <1>1, <1>3, <1>7 DEF AreaOf, add_area
  <2>2. cur \in Nat /\ lo <= cur /\ bal \in Int /\ cur <= B /\ Level(h, cur, B, bal)
    <3>1. /\ a.last \in Nat /\ a.balance \in Int /\ a.last <= ts[k].block
          /\ Level(h, a.last, ts[k].block, a.balance)
      BY <1>1, <1>2, <1>5, FollowsReady
    <3>2. lo <= a.last
      BY <1>5 DEF Follows
    <3> QED BY <1>1, <1>5, <3>1, <3>2
  <2>3. PICK z : z = Bare(n)
    OBVIOUS
  <2>4. z.balance = bal + d /\ z.last = B /\ At(z, h, <<>>, 0, B)
    <3>1. z = Account(bal + d, B, 0, NoSegment, 0)
      BY <2>1, <2>3 DEF Bare
    <3> QED BY <3>1, BareAt
  <2>5. Follows(z, h, ts, u, o, <<>>, 0, lo, K \cup {k})
    BY <1>1, <1>2, <1>5, <2>4, FollowsNext
  <2>6. PICK p : p = bal * (B - cur)
    OBVIOUS
  <2>7. x = Total(h, lo .. cur - 1)
    BY <1>3 DEF Summed
  <2>8. Total(h, lo .. B - 1) = x + p /\ x \in Int /\ p \in Int
    BY <1>2, <2>2, <2>6, <2>7, AreaNext
  <2>9. n.sum = Total(h, lo .. n.cursor - 1)
    BY <2>1, <2>6, <2>8
  <2>10. ASSUME Affords(ts, u, o, lo, hi)  PROVE n.ok = TRUE /\ n.sum >= 0
    <3>1. bal = Total(Deltas(ts, u), K) + o
      BY <1>5 DEF Follows
    <3>2. bal \in Nat /\ bal + d \in Nat
      BY <1>1, <2>10, <3>1, AffordsNext
    <3>3. s.ok = TRUE /\ x >= 0
      BY <1>3, <2>10 DEF Summed
    <3>4. B - cur \in Nat /\ bal * (B - cur) \in Nat
      BY <1>2, <2>2, <3>2
    <3>5. n.sum >= 0
      BY <2>1, <2>6, <2>8, <3>3, <3>4
    <3>6. bal + d >= 0
      BY <3>2
    <3> QED BY <2>1, <3>3, <3>5, <3>6, Zenon
  <2> QED BY <2>3, <2>5, <2>9, <2>10 DEF Summed
<1> QED BY <1>6, <1>7

LEMMA SummedAll ==
    ASSUME NEW ts, IsHistory(ts), NEW u, NEW h, Held(h), NEW o \in Int, NEW lo \in Nat, NEW hi \in Nat,
           lo <= hi, Offset(h, ts, u, o, lo, hi), NEW b, b = h[lo],
           NEW n, n = add_areas(ts, u, NetDeltas(ts, u, lo + 1, hi), lo, b)[Len(ts)]
    PROVE  Summed(n, h, ts, u, o, lo, hi, Cut(ts, hi))
<1>1. PICK f, mine, s : /\ f = add_areas(ts, u, mine, lo, b) /\ mine = NetDeltas(ts, u, lo + 1, hi)
                        /\ s = [sum |-> 0, cursor |-> lo, balance |-> b, ok |-> TRUE]
  BY Zenon
<1>2. Areas(s, ts, u, mine, Len(ts), f) /\ Len(ts) \in Nat /\ n = f[Len(ts)]
  BY <1>1, AreasSolve, HistoryLen
<1> DEFINE Good(k) == Summed(f[k], h, ts, u, o, lo, hi, Upto(ts, lo + 1, hi, k))
           T == {k \in 0 .. Len(ts) : ~Good(k)}
<1>3. Good(0)
  <2>1. f[0] = s
    BY <1>2, AreasStart
  <2>2. PICK a : a = Bare(s)
    OBVIOUS
  <2>3. a = Account(b, lo, 0, NoSegment, 0)
    BY <1>1, <2>2 DEF Bare
  <2>4. Exact(a, h, <<>>, 0, lo)
    BY <2>3, BareAt DEF Exact
  <2>5. Follows(a, h, ts, u, o, <<>>, 0, lo, Cut(ts, lo))
    BY <2>4, FollowsStart
  <2>6. Total(h, lo .. lo - 1) = 0
    <3>1. lo .. lo - 1 = {}
      OBVIOUS
    <3> QED BY <3>1, TotalEmpty
  <2>7. Upto(ts, lo + 1, hi, 0) = Cut(ts, lo)
    BY UptoEnds
  <2>8. s.sum = 0 /\ s.cursor = lo /\ s.ok = TRUE
    BY <1>1
  <2> QED BY <2>1, <2>2, <2>5, <2>6, <2>7, <2>8 DEF Summed
<1>4. ASSUME NEW k \in 1 .. Len(ts), Good(k - 1)  PROVE Good(k)
  <2>1. PICK p, q, K : p = f[k - 1] /\ q = f[k] /\ K = Upto(ts, lo + 1, hi, k - 1)
    BY Zenon
  <2>2. q = AreaOf(ts, u, mine, k, p)
    <3>1. k \in 0 .. Len(ts) /\ k # 0
      BY <1>2
    <3>2. f[k] = AreaOf(ts, u, mine, k, f[k - 1])
      BY <1>2, <3>1, AreasAt
    <3> QED BY <2>1, <3>2
  <2>3. Summed(p, h, ts, u, o, lo, hi, K)
    BY <1>4, <2>1
  <2>4. IF ts[k].block \in lo + 1 .. hi THEN Upto(ts, lo + 1, hi, k) = K \cup {k}
        ELSE Upto(ts, lo + 1, hi, k) = K
    <3>1. lo + 1 \in Nat
      OBVIOUS
    <3> QED BY <2>1, <3>1, UptoNext
  <2>5. CASE ts[k].block \in lo + 1 .. hi
    <3>1. Summed(q, h, ts, u, o, lo, hi, K \cup {k})
      BY <1>1, <2>1, <2>2, <2>3, <2>5, SummedNext
    <3> QED BY <2>1, <2>4, <2>5, <3>1
  <2>6. CASE ts[k].block \notin lo + 1 .. hi
    <3>1. q = p
      BY <1>1, <2>2, <2>6 DEF AreaOf, NetDeltas
    <3> QED BY <2>1, <2>3, <2>4, <2>6, <3>1
  <2> QED BY <2>5, <2>6
<1>5. Good(Len(ts))
  <2> SUFFICES ASSUME ~Good(Len(ts))  PROVE FALSE
    OBVIOUS
  <2> HIDE DEF Good
  <2>1. T \subseteq Nat /\ T # {}
    <3>1. Len(ts) \in T
      BY <1>2
    <3>2. 0 .. Len(ts) \subseteq Nat
      OBVIOUS
    <3> QED BY <3>1, <3>2
  <2>2. PICK m \in T : \A y \in T : m <= y
    <3> HIDE DEF T
    <3> QED BY <2>1, SmallestNat
  <2>3. m \in 0 .. Len(ts) /\ ~Good(m) /\ m # 0
    BY <1>3
  <2>4. m \in 1 .. Len(ts) /\ m - 1 \in 0 .. Len(ts) /\ ~(m <= m - 1)
    BY <1>2, <2>3
  <2>5. Good(m - 1)
    BY <2>2, <2>4
  <2> HIDE DEF T
  <2> QED BY <1>4, <2>3, <2>4, <2>5
<1>6. Upto(ts, lo + 1, hi, Len(ts)) = Cut(ts, hi)
  BY UptoEnds
<1> QED BY <1>2, <1>5, <1>6

\* What token_block_integral returns.
LEMMA IntegralIs ==
    ASSUME NEW ts, IsHistory(ts), NEW r \in Nat, NEW u, Solvent(ts, r, u),
           NEW lo \in Nat, NEW hi \in Nat, lo <= hi
    PROVE  IF Smooth(ts, r, u, lo, hi)
           THEN /\ token_block_integral(ts, r, u, lo, hi) = Total(Balances(ts, r, u), lo .. hi - 1)
                /\ token_block_integral(ts, r, u, lo, hi) >= 0
           ELSE token_block_integral(ts, r, u, lo, hi) = Failed
<1>1. PICK h, o, b, n : /\ h = Believed(ts, r, u, lo) /\ o = Gained(ts, r, u, lo)
                        /\ b = BalanceAfter(ts, r, u, lo)
                        /\ n = add_areas(ts, u, NetDeltas(ts, u, lo + 1, hi), lo, b)[Len(ts)]
  BY Zenon
<1>2. /\ o \in Int /\ Held(h) /\ Offset(h, ts, u, o, lo, hi) /\ h[lo] = b
      /\ BalanceAfter(ts, r, u, hi) = net(ts, u, hi) + o <=> Smooth(ts, r, u, lo, hi)
      /\ Smooth(ts, r, u, lo, hi) => \A x \in 0 .. hi : h[x] = Balances(ts, r, u)[x]
  BY <1>1, BelievedIs
<1>3. Summed(n, h, ts, u, o, lo, hi, Cut(ts, hi))
  BY <1>1, <1>2, SummedAll
<1>4. PICK bal, cur, a : bal = n.balance /\ cur = n.cursor /\ a = Bare(n)
  BY Zenon
<1>5. a.balance = bal /\ a.last = cur /\ Follows(a, h, ts, u, o, <<>>, 0, lo, Cut(ts, hi))
  <2>1. a = Account(bal, cur, 0, NoSegment, 0)
    BY <1>4 DEF Bare
  <2>2. a.balance = bal /\ a.last = cur
    BY <2>1, BareAt
  <2> QED BY <1>3, <1>4, <2>2 DEF Summed
<1>6. cur \in Nat /\ lo <= cur /\ cur <= hi /\ bal = net(ts, u, hi) + o
  <2>1. Cut(ts, hi) \subseteq 1 .. Len(ts) /\ \A k \in Cut(ts, hi) : ts[k].block <= hi
    BY DEF Cut
  <2>2. bal = Total(Deltas(ts, u), Cut(ts, hi)) + o
    BY <1>5 DEF Follows
  <2>3. cur \in Nat /\ lo <= cur /\ cur <= hi
    BY <1>5, <2>1 DEF Follows
  <2> QED BY <2>2, <2>3, NetIs
<1>7. token_block_integral(ts, r, u, lo, hi) =
        IF ~n.ok \/ bal # BalanceAfter(ts, r, u, hi) THEN Failed
        ELSE n.sum + bal * (hi - cur)
  BY <1>1, <1>4, Zenon DEF token_block_integral
<1>8. CASE ~Smooth(ts, r, u, lo, hi)
  <2>1. bal # BalanceAfter(ts, r, u, hi)
    BY <1>2, <1>6, <1>8
  <2> QED BY <1>7, <1>8, <2>1, Zenon
<1>9. CASE Smooth(ts, r, u, lo, hi)
  <2>1. bal = BalanceAfter(ts, r, u, hi)
    BY <1>2, <1>6, <1>9
  <2>2. Affords(ts, u, o, lo, hi)
    BY <1>1, <1>9, SolventAffords
  <2>3. n.ok = TRUE /\ n.sum >= 0 /\ n.sum = Total(h, lo .. cur - 1)
    BY <1>3, <1>4, <2>2 DEF Summed
  <2>4. token_block_integral(ts, r, u, lo, hi) = n.sum + bal * (hi - cur)
    BY <1>7, <2>1, <2>3, Zenon
  <2>5. Level(h, cur, hi, bal) /\ bal \in Int
    <3>1. \A j \in 1 .. Len(ts) : ts[j].block < hi => j \in Cut(ts, hi)
      <4>1. \A j \in 1 .. Len(ts) : ts[j].block \in Nat
        BY HistoryAt
      <4> QED BY <4>1 DEF Cut
    <3>2. Cut(ts, hi) \subseteq 1 .. Len(ts)
      BY DEF Cut
    <3>3. Level(h, a.last, hi, a.balance)
      BY <1>2, <1>5, <3>1, <3>2, FollowsLevel
    <3>4. bal \in Int
      BY <1>2, <1>6, NetIs
    <3> QED BY <1>5, <3>3, <3>4
  <2>6. PICK x, p : x = n.sum /\ p = bal * (hi - cur)
    BY Zenon
  <2>7. Total(h, lo .. hi - 1) = x + p /\ x \in Int /\ p \in Int
    <3>1. /\ Held(h) /\ lo \in Nat /\ cur \in Nat /\ hi \in Nat /\ lo <= cur /\ cur <= hi
          /\ bal \in Int /\ Level(h, cur, hi, bal)
      BY <1>2, <1>6, <2>5
    <3>2. /\ Total(h, lo .. cur - 1) \in Int /\ bal * (hi - cur) \in Int
          /\ Total(h, lo .. hi - 1) = Total(h, lo .. cur - 1) + bal * (hi - cur)
      BY ONLY <3>1, AreaNext
    <3> QED BY <2>3, <2>6, <3>2
  <2>8. Total(h, lo .. hi - 1) = Total(Balances(ts, r, u), lo .. hi - 1)
    <3>1. PICK S : S = lo .. hi - 1
      OBVIOUS
    <3>2. IsFiniteSet(S)
      <4>1. lo \in Int /\ hi - 1 \in Int
        OBVIOUS
      <4> QED BY <3>1, <4>1, FS_Interval
    <3>3. \A y \in S : h[y] \in Int /\ h[y] = Balances(ts, r, u)[y]
      <4>1. \A y \in S : y \in Nat /\ y \in 0 .. hi
        BY <3>1
      <4> QED BY <1>2, <1>9, <4>1 DEF Held
    <3> QED BY <3>1, <3>2, <3>3, TotalSame
  <2>9. p >= 0
    <3>1. bal \in Nat /\ hi - cur \in Nat
      BY <1>6, <2>1, NeverNegative
    <3>2. bal * (hi - cur) \in Nat
      BY <3>1
    <3> QED BY <2>6, <3>2
  <2> QED BY <1>9, <2>3, <2>4, <2>6, <2>7, <2>8, <2>9
<1> QED BY <1>8, <1>9

\* The segments that earned_score_of counts, and what it integrates there.
Counted(rates, c) ==
    {i \in 1 .. Len(rates) : rates[i].rate # 0 /\ rates[i].from < SegmentEnd(rates, i, c)}

Integrals(ts, r, u, rates, c) ==
    [i \in Counted(rates, c) |->
        token_block_integral(ts, r, u, rates[i].from, SegmentEnd(rates, i, c))]

Weighed(p, rates, dec, c) ==
    [i \in Counted(rates, c) |-> scaled_integral(p[i], dec) * rates[i].rate]

LEMMA SegmentBlocks ==
    ASSUME NEW rates, RatesOk(rates), NEW c \in Nat, NEW i \in 1 .. Len(rates)
    PROVE  /\ SegmentEnd(rates, i, c) \in Nat /\ SegmentEnd(rates, i, c) <= c
           /\ rates[i].from \in Nat /\ rates[i].rate \in Nat
           /\ BlocksOf(rates, i, c) = rates[i].from .. SegmentEnd(rates, i, c) - 1
<1>1. rates[i].from \in Nat /\ rates[i].rate \in Nat /\ Len(rates) \in Nat
  BY RatePoint, RatesLen
<1>2. i < Len(rates) => rates[i + 1].from \in Nat
  <2>1. i < Len(rates) => i + 1 \in 1 .. Len(rates)
    BY <1>1
  <2> QED BY <2>1, RatePoint
<1>3. SegmentEnd(rates, i, c) \in Nat /\ SegmentEnd(rates, i, c) <= c
  BY <1>2 DEF SegmentEnd, lesser
<1>4. \A b \in Nat : b < SegmentEnd(rates, i, c) <=> b < c /\ (i < Len(rates) => b < rates[i + 1].from)
  BY <1>2 DEF SegmentEnd, lesser
<1>5. BlocksOf(rates, i, c) = rates[i].from .. SegmentEnd(rates, i, c) - 1
  <2>1. ASSUME NEW b  PROVE b \in BlocksOf(rates, i, c) <=> b \in rates[i].from .. SegmentEnd(rates, i, c) - 1
    <3>1. b \in 0 .. c - 1 <=> b \in Nat /\ b < c
      OBVIOUS
    <3>2. b \in rates[i].from .. SegmentEnd(rates, i, c) - 1 <=>
            b \in Nat /\ b >= rates[i].from /\ b < SegmentEnd(rates, i, c)
      BY <1>1, <1>3
    <3>3. b \in BlocksOf(rates, i, c) <=>
            b \in 0 .. c - 1 /\ b >= rates[i].from /\ (i < Len(rates) => b < rates[i + 1].from)
      BY DEF BlocksOf
    <3> QED BY <1>4, <3>1, <3>2, <3>3
  <2> QED BY <2>1
<1> QED BY <1>1, <1>3, <1>5

\* Nothing was earned in the others.
LEMMA NotCounted ==
    ASSUME NEW h, Held(h), NEW rates, RatesOk(rates), NEW dec \in Nat, NEW c \in Nat,
           NEW i \in 1 .. Len(rates), i \notin Counted(rates, c)
    PROVE  Worth(h, rates, dec, i, c) = 0
<1>1. /\ rates[i].from \in Nat /\ SegmentEnd(rates, i, c) \in Nat
      /\ BlocksOf(rates, i, c) = rates[i].from .. SegmentEnd(rates, i, c) - 1
  BY SegmentBlocks
<1>2. CASE rates[i].rate = 0
  <2>1. PICK x : x = scaled_integral(Area(h, rates, i, c), dec)
    OBVIOUS
  <2>2. x \in Int
    BY <2>1, AreaInt, ScaledIs
  <2>3. Worth(h, rates, dec, i, c) = x * 0
    BY <1>2, <2>1 DEF Worth
  <2> QED BY <2>2, <2>3
<1>3. CASE rates[i].rate # 0
  <2>1. ~(rates[i].from < SegmentEnd(rates, i, c))
    BY <1>3 DEF Counted
  <2>2. BlocksOf(rates, i, c) = {}
    BY <1>1, <2>1
  <2> QED BY <2>2, WorthNothing
<1> QED BY <1>2, <1>3

\* earned_score_of: exact, or it fails because of a rebase.
LEMMA RawIs ==
    ASSUME NEW ts, IsHistory(ts), NEW r \in Nat, NEW u, Solvent(ts, r, u), NEW rates, RatesOk(rates),
           NEW dec \in Nat, NEW c \in Nat, NEW x, x = RawNumerator(ts, r, u, rates, dec, c)
    PROVE  \/ x = ReferenceNumerator(ts, r, u, rates, dec, c)
           \/ x = Failed /\ r <= c /\ net(ts, u, r) # 0
<1>1. PICK C, p, w, h : /\ C = Counted(rates, c) /\ p = Integrals(ts, r, u, rates, c)
                        /\ w = Weighed(p, rates, dec, c) /\ h = Balances(ts, r, u)
  BY Zenon
<1>2. x = IF \E i \in C : p[i] = Failed THEN Failed ELSE Total(w, C)
  BY <1>1 DEF RawNumerator, Counted, Integrals, Weighed, SumOver, Total
<1>3. Held(h) /\ C \subseteq 1 .. Len(rates)
  BY <1>1, BalancesHeld DEF Counted
<1>4. ASSUME NEW i \in C
      PROVE  IF Smooth(ts, r, u, rates[i].from, SegmentEnd(rates, i, c))
             THEN p[i] = Area(h, rates, i, c) /\ p[i] >= 0
             ELSE p[i] = Failed /\ r <= c /\ net(ts, u, r) # 0
  <2>1. PICK lo, hi : lo = rates[i].from /\ hi = SegmentEnd(rates, i, c)
    BY Zenon
  <2>2. lo \in Nat /\ hi \in Nat /\ hi <= c /\ BlocksOf(rates, i, c) = lo .. hi - 1
    BY <1>3, <2>1, SegmentBlocks
  <2>3. lo <= hi
    BY <1>1, <2>1, <2>2 DEF Counted
  <2>4. p[i] = token_block_integral(ts, r, u, lo, hi)
    BY <1>1, <2>1 DEF Integrals
  <2>5. IF Smooth(ts, r, u, lo, hi) THEN p[i] = Total(h, lo .. hi - 1) /\ p[i] >= 0 ELSE p[i] = Failed
    BY <1>1, <2>2, <2>3, <2>4, IntegralIs
  <2>6. ~Smooth(ts, r, u, lo, hi) => r <= c /\ net(ts, u, r) # 0
    BY <2>2 DEF Smooth
  <2>7. Area(h, rates, i, c) = Total(h, lo .. hi - 1)
    BY <2>2 DEF Area
  <2> QED BY <2>1, <2>5, <2>6, <2>7
<1>5. CASE \E i \in C : p[i] = Failed
  <2>1. PICK i \in C : p[i] = Failed
    BY <1>5
  <2>2. ~(p[i] >= 0)
    BY <2>1 DEF Failed
  <2> QED BY <1>2, <1>4, <1>5, <2>2
<1>6. CASE ~\E i \in C : p[i] = Failed
  <2>1. \A i \in C : p[i] = Area(h, rates, i, c)
    BY <1>4, <1>6
  <2>2. PICK W : W = Worths(h, rates, dec, c)
    OBVIOUS
  <2>3. ASSUME NEW i \in C  PROVE w[i] = W[i]
    <3>1. w[i] = scaled_integral(p[i], dec) * rates[i].rate
      BY <1>1 DEF Weighed
    <3>2. W[i] = Worth(h, rates, dec, i, c)
      BY <1>3, <2>2 DEF Worths
    <3> QED BY <2>1, <3>1, <3>2 DEF Worth
  <2>4. ASSUME NEW i \in 1 .. Len(rates)  PROVE W[i] \in Int /\ (i \notin C => W[i] = 0)
    <3>1. W[i] = Worth(h, rates, dec, i, c)
      BY <2>2 DEF Worths
    <3> QED BY <1>1, <1>3, <3>1, WorthInt, NotCounted
  <2>5. IsFiniteSet(1 .. Len(rates))
    BY RatesLen, FS_Interval
  <2>6. Total(W, C) = Total(W, 1 .. Len(rates))
    <3>1. C \in SUBSET (1 .. Len(rates)) /\ \A i \in (1 .. Len(rates)) \ C : W[i] = 0
      BY <1>3, <2>4
    <3> QED BY <2>4, <2>5, <3>1, TotalWiden
  <2>7. Total(W, C) = Total(w, C)
    <3>1. IsFiniteSet(C)
      BY <1>3, <2>5, FS_Subset
    <3>2. \A i \in C : W[i] \in Int /\ W[i] = w[i]
      BY <1>3, <2>3, <2>4
    <3> QED BY <3>1, <3>2, TotalSame
  <2>8. ReferenceNumerator(ts, r, u, rates, dec, c) = Total(W, 1 .. Len(rates))
    BY <1>1, <2>2, ReferenceIs
  <2> QED BY <1>2, <1>6, <2>6, <2>7, <2>8
<1> QED BY <1>5, <1>6

-----------------------------------------------------------------------------
(* The least balance *)

\* One log of apply_deltas, and the equation of its recursive function.
LowOf(ts, u, mine, k, s) == IF k \in mine THEN apply_delta(s, delta(ts[k], u)) ELSE s

Lows(s, ts, u, mine, n, f) ==
    f = [i \in 0 .. n |-> IF i = 0 THEN s ELSE LowOf(ts, u, mine, i, f[i - 1])]

LEMMA LowsAt ==
    ASSUME NEW s, NEW ts, NEW u, NEW mine, NEW n \in Nat, NEW f, Lows(s, ts, u, mine, n, f),
           NEW i \in 0 .. n
    PROVE  f[i] = IF i = 0 THEN s ELSE LowOf(ts, u, mine, i, f[i - 1])
<1> DEFINE F(j) == IF j = 0 THEN s ELSE LowOf(ts, u, mine, j, f[j - 1])
<1>1. f = [j \in 0 .. n |-> F(j)]
  BY DEF Lows
<1> HIDE DEF F
<1>2. f[i] = F(i)
  BY <1>1
<1> QED BY <1>2 DEF F

LEMMA LowsStart ==
    ASSUME NEW s, NEW ts, NEW u, NEW mine, NEW n \in Nat, NEW f, Lows(s, ts, u, mine, n, f)
    PROVE  f[0] = s
<1> DEFINE F(j) == IF j = 0 THEN s ELSE LowOf(ts, u, mine, j, f[j - 1])
<1>1. f = [j \in 0 .. n |-> F(j)]
  BY DEF Lows
<1>2. F(0) = s
  OBVIOUS
<1>3. 0 \in 0 .. n
  OBVIOUS
<1> HIDE DEF F
<1> QED BY <1>1, <1>2, <1>3

LEMMA LowsExist ==
    ASSUME NEW s, NEW ts, NEW u, NEW mine, NEW n \in Nat
    PROVE  \E f : Lows(s, ts, u, mine, n, f)
<1> DEFINE T == {m \in Nat : ~ \E f : Lows(s, ts, u, mine, m, f)}
<1> SUFFICES ASSUME T # {} PROVE FALSE
  OBVIOUS
<1>1. PICK m \in T : \A x \in T : m <= x
  <2>1. T \subseteq Nat
    OBVIOUS
  <2> HIDE DEF T
  <2> QED BY <2>1, SmallestNat
<1>2. m \in Nat /\ ~ \E f : Lows(s, ts, u, mine, m, f)
  OBVIOUS
<1>3. m # 0
  <2> DEFINE f == [i \in 0 .. 0 |-> s]
             F(i) == IF i = 0 THEN s ELSE LowOf(ts, u, mine, i, f[i - 1])
  <2>1. \A i \in 0 .. 0 : F(i) = s
    OBVIOUS
  <2> HIDE DEF F
  <2>2. f = [i \in 0 .. 0 |-> F(i)]
    BY <2>1
  <2>3. Lows(s, ts, u, mine, 0, f)
    BY <2>2 DEF Lows, F
  <2> HIDE DEF f
  <2> QED BY <1>2, <2>3
<1>4. m - 1 \in Nat /\ m - 1 \notin T
  <2> HIDE DEF T
  <2> QED BY <1>1, <1>2, <1>3
<1>5. PICK f : Lows(s, ts, u, mine, m - 1, f)
  BY <1>4
<1> DEFINE q == [i \in 0 .. m |-> IF i = m THEN LowOf(ts, u, mine, m, f[m - 1]) ELSE f[i]]
           F(i) == IF i = 0 THEN s ELSE LowOf(ts, u, mine, i, q[i - 1])
<1>6. ASSUME NEW i \in 0 .. m PROVE q[i] = F(i)
  <2>1. CASE i = m
    <3>1. m - 1 \in 0 .. m /\ m - 1 # m
      BY <1>2, <1>3
    <3> QED BY <1>3, <2>1, <3>1
  <2>2. CASE i # m
    <3>1. i \in 0 .. m - 1
      BY <1>2, <2>2
    <3>2. f[i] = IF i = 0 THEN s ELSE LowOf(ts, u, mine, i, f[i - 1])
      <4> DEFINE F0(j) == IF j = 0 THEN s ELSE LowOf(ts, u, mine, j, f[j - 1])
      <4>1. f = [j \in 0 .. m - 1 |-> F0(j)]
        BY <1>5 DEF Lows
      <4> HIDE DEF F0
      <4>2. f[i] = F0(i)
        BY <3>1, <4>1
      <4> QED BY <4>2 DEF F0
    <3>3. i # 0 => i - 1 \in 0 .. m /\ i - 1 # m
      BY <1>2, <2>2, <3>1
    <3> QED BY <2>2, <3>1, <3>2, <3>3
  <2> QED BY <2>1, <2>2
<1>7. q = [i \in 0 .. m |-> q[i]]
  OBVIOUS
<1> HIDE DEF q, F
<1>8. q = [i \in 0 .. m |-> F(i)]
  BY <1>6, <1>7
<1>9. Lows(s, ts, u, mine, m, q)
  BY <1>8 DEF Lows, F
<1> QED BY <1>2, <1>9


LEMMA LowsSolve ==
    ASSUME NEW ts, IsHistory(ts), NEW u, NEW mine, NEW b, NEW s,
           s = [balance |-> b, ok |-> TRUE, least |-> b]
    PROVE  Lows(s, ts, u, mine, Len(ts), apply_deltas(ts, u, mine, b))
<1>1. apply_deltas(ts, u, mine, b) = CHOOSE f : Lows(s, ts, u, mine, Len(ts), f)
  BY DEF apply_deltas, Lows, LowOf
<1>2. \E f : Lows(s, ts, u, mine, Len(ts), f)
  BY HistoryLen, LowsExist
<1> QED BY <1>1, <1>2

\* The balance after the k-th log of the blocks after lo.
Reading(ts, u, o, lo, hi, k) == Total(Deltas(ts, u), Upto(ts, lo + 1, hi, k)) + o

Lowest(s, ts, u, o, lo, hi, k) ==
    /\ s.balance = Reading(ts, u, o, lo, hi, k)
    /\ Affords(ts, u, o, lo, hi) => s.ok = TRUE
    /\ \E j \in 0 .. k : s.least = Reading(ts, u, o, lo, hi, j)
    /\ \A j \in 0 .. k : s.least <= Reading(ts, u, o, lo, hi, j)

LEMMA ReadingInt ==
    ASSUME NEW ts, IsHistory(ts), NEW u, NEW o \in Int, NEW lo, NEW hi, NEW k
    PROVE  Reading(ts, u, o, lo, hi, k) \in Int
<1>1. Upto(ts, lo + 1, hi, k) \subseteq 1 .. Len(ts)
  BY DEF Upto
<1>2. Total(Deltas(ts, u), Upto(ts, lo + 1, hi, k)) \in Int
  BY <1>1, BalanceInt
<1> QED BY <1>2 DEF Reading

LEMMA LowestNext ==
    ASSUME NEW ts, IsHistory(ts), NEW u, NEW o \in Int, NEW lo \in Nat, NEW hi \in Nat,
           NEW k \in 1 .. Len(ts), NEW s, Lowest(s, ts, u, o, lo, hi, k - 1),
           NEW n, n = LowOf(ts, u, NetDeltas(ts, u, lo + 1, hi), k, s)
    PROVE  Lowest(n, ts, u, o, lo, hi, k)
<1> DEFINE V(j) == Reading(ts, u, o, lo, hi, j)
           mine == NetDeltas(ts, u, lo + 1, hi)
<1>1. PICK K, d : K = Upto(ts, lo + 1, hi, k - 1) /\ d = delta(ts[k], u)
  BY Zenon
<1>2. d \in Int /\ lo + 1 \in Nat /\ Len(ts) \in Nat
  <2>1. d \in Int
    BY <1>1, DeltaAt
  <2> QED BY <2>1, HistoryLen
<1>3. \A j : V(j) \in Int
  BY ReadingInt
<1>4. V(k) = IF k \in mine THEN V(k - 1) + d ELSE V(k - 1)
  <2>1. IF ts[k].block \in lo + 1 .. hi
        THEN IsNext(ts, K, k) /\ Upto(ts, lo + 1, hi, k) = K \cup {k}
        ELSE Upto(ts, lo + 1, hi, k) = K
    BY <1>1, <1>2, UptoNext
  <2>2. CASE ts[k].block \notin lo + 1 .. hi
    <3>1. k \notin mine
      BY <2>2 DEF NetDeltas
    <3> QED BY <1>1, <2>1, <2>2, <3>1 DEF Reading
  <2>3. CASE ts[k].block \in lo + 1 .. hi
    <3>1. PICK D, x, y : D = Deltas(ts, u) /\ x = Total(D, K) /\ y = Total(D, K \cup {k})
      BY Zenon
    <3>2. x \in Int /\ y = x + d
      BY <1>1, <2>1, <2>3, <3>1, BalanceNext
    <3>3. V(k) = y + o /\ V(k - 1) = x + o
      BY <1>1, <2>1, <2>3, <3>1 DEF Reading
    <3>4. k \notin mine => d = 0
      <4>1. k \notin mine => ~Touches(ts, k, u)
        BY <2>3 DEF NetDeltas, Touches
      <4> QED BY <1>1, <4>1, DeltaAt
    <3> QED BY <1>2, <3>2, <3>3, <3>4
  <2> QED BY <2>2, <2>3
<1>5. /\ s.balance = V(k - 1) /\ (Affords(ts, u, o, lo, hi) => s.ok = TRUE)
      /\ \E j \in 0 .. k - 1 : s.least = V(j)
      /\ \A j \in 0 .. k - 1 : s.least <= V(j)
  BY DEF Lowest
<1>6. k - 1 \in 0 .. k - 1 /\ \A j \in 0 .. k : j \in 0 .. k - 1 \/ j = k
  BY <1>2
<1>7. 0 .. k - 1 \subseteq 0 .. k /\ k \in 0 .. k
  BY <1>2
<1>8. CASE k \notin mine
  <2>1. n = s
    BY <1>8 DEF LowOf
  <2>2. \A j \in 0 .. k : n.least <= V(j)
    BY <1>4, <1>5, <1>6, <1>8, <2>1
  <2>3. \E j \in 0 .. k : n.least = V(j)
    BY <1>5, <1>7, <2>1
  <2> QED BY <1>4, <1>5, <1>8, <2>1, <2>2, <2>3 DEF Lowest
<1>9. CASE k \in mine
  <2>1. /\ n.balance = s.balance + d /\ n.ok = (s.ok /\ s.balance + d >= 0)
        /\ n.least = lesser(s.least, s.balance + d)
    BY <1>1, <1>9 DEF LowOf, apply_delta
  <2>2. n.balance = V(k)
    BY <1>4, <1>5, <1>9, <2>1
  <2>3. s.least \in Int /\ s.balance + d = V(k)
    BY <1>3, <1>5, <2>1, <2>2
  <2>4. n.least = IF s.least < V(k) THEN s.least ELSE V(k)
    BY <2>1, <2>3 DEF lesser
  <2>5. \E j \in 0 .. k : n.least = V(j)
    BY <1>5, <1>7, <2>4
  <2>6. \A j \in 0 .. k : n.least <= V(j)
    <3> HIDE DEF V
    <3>1. n.least <= V(k) /\ n.least <= s.least /\ n.least \in Int
      BY <1>3, <2>3, <2>4
    <3>2. ASSUME NEW j \in 0 .. k - 1  PROVE n.least <= V(j)
      BY <1>3, <1>5, <2>3, <3>1
    <3> QED BY <1>6, <3>1, <3>2
  <2>7. ASSUME Affords(ts, u, o, lo, hi)  PROVE n.ok = TRUE
    <3>1. ts[k].block \in lo + 1 .. hi
      BY <1>9 DEF NetDeltas
    <3>2. V(k - 1) = Total(Deltas(ts, u), K) + o
      BY <1>1 DEF Reading
    <3>3. V(k - 1) + d \in Nat
      BY <1>1, <2>7, <3>1, <3>2, AffordsNext
    <3>4. s.balance + d >= 0
      BY <1>5, <3>3
    <3> QED BY <1>5, <2>1, <2>7, <3>4, Zenon
  <2> QED BY <2>2, <2>5, <2>6, <2>7 DEF Lowest
<1> QED BY <1>8, <1>9

LEMMA LowestAll ==
    ASSUME NEW ts, IsHistory(ts), NEW u, NEW o \in Int, NEW lo \in Nat, NEW hi \in Nat, lo <= hi,
           NEW b, b = net(ts, u, lo) + o,
           NEW n, n = apply_deltas(ts, u, NetDeltas(ts, u, lo + 1, hi), b)[Len(ts)]
    PROVE  Lowest(n, ts, u, o, lo, hi, Len(ts))
<1>1. PICK f, mine, s : /\ f = apply_deltas(ts, u, mine, b) /\ mine = NetDeltas(ts, u, lo + 1, hi)
                        /\ s = [balance |-> b, ok |-> TRUE, least |-> b]
  BY Zenon
<1>2. Lows(s, ts, u, mine, Len(ts), f) /\ Len(ts) \in Nat /\ n = f[Len(ts)]
  BY <1>1, LowsSolve, HistoryLen
<1> DEFINE Good(k) == Lowest(f[k], ts, u, o, lo, hi, k)
           T == {k \in 0 .. Len(ts) : ~Good(k)}
<1>3. Good(0)
  <2>1. f[0] = s
    BY <1>2, LowsStart
  <2>2. b = Reading(ts, u, o, lo, hi, 0) /\ b \in Int
    <3>1. Upto(ts, lo + 1, hi, 0) = Cut(ts, lo)
      BY UptoEnds
    <3>2. b = Reading(ts, u, o, lo, hi, 0)
      BY <3>1, NetIs DEF Reading
    <3> QED BY <3>2, ReadingInt
  <2>3. s.balance = b /\ s.least = b /\ s.ok = TRUE
    BY <1>1
  <2>4. \A j \in 0 .. 0 : j = 0
    OBVIOUS
  <2>5. 0 \in 0 .. 0 /\ b <= b
    BY <2>2
  <2> QED BY <2>1, <2>2, <2>3, <2>4, <2>5 DEF Lowest
<1>4. ASSUME NEW k \in 1 .. Len(ts), Good(k - 1)  PROVE Good(k)
  <2>1. PICK p, q : p = f[k - 1] /\ q = f[k]
    BY Zenon
  <2>2. q = LowOf(ts, u, mine, k, p)
    <3>1. k \in 0 .. Len(ts) /\ k # 0
      BY <1>2
    <3>2. f[k] = LowOf(ts, u, mine, k, f[k - 1])
      BY <1>2, <3>1, LowsAt
    <3> QED BY <2>1, <3>2
  <2>3. Lowest(p, ts, u, o, lo, hi, k - 1)
    BY <1>4, <2>1
  <2>4. Lowest(q, ts, u, o, lo, hi, k)
    BY <1>1, <2>2, <2>3, LowestNext
  <2> QED BY <2>1, <2>4
<1>5. Good(Len(ts))
  <2> SUFFICES ASSUME ~Good(Len(ts))  PROVE FALSE
    OBVIOUS
  <2> HIDE DEF Good
  <2>1. T \subseteq Nat /\ T # {}
    <3>1. Len(ts) \in T
      BY <1>2
    <3>2. 0 .. Len(ts) \subseteq Nat
      OBVIOUS
    <3> QED BY <3>1, <3>2
  <2>2. PICK m \in T : \A y \in T : m <= y
    <3> HIDE DEF T
    <3> QED BY <2>1, SmallestNat
  <2>3. m \in 0 .. Len(ts) /\ ~Good(m) /\ m # 0
    BY <1>3
  <2>4. m \in 1 .. Len(ts) /\ m - 1 \in 0 .. Len(ts) /\ ~(m <= m - 1)
    BY <1>2, <2>3
  <2>5. Good(m - 1)
    BY <2>2, <2>4
  <2> HIDE DEF T
  <2> QED BY <1>4, <2>3, <2>4, <2>5
<1> QED BY <1>2, <1>5

\* The balances that the reference definition compares.
Candidates(ts, u, o, lo, hi) ==
    {Total(Deltas(ts, u), 1 .. n) + o : n \in LogsUntil(ts, lo) .. LogsUntil(ts, hi)}

LEMMA UntilIs ==
    ASSUME NEW ts, IsHistory(ts), NEW b \in Nat
    PROVE  LogsUntil(ts, b) \in 0 .. Len(ts) /\ Cut(ts, b) = 1 .. LogsUntil(ts, b)
<1>1. PICK n \in 0 .. Len(ts) : Cut(ts, b) = 1 .. n
  BY CutPrefix
<1>2. n \in Nat
  OBVIOUS
<1>3. Cardinality(1 .. n) = n
  BY ONLY <1>2, FS_Interval
<1>4. LogsUntil(ts, b) = Cardinality(Cut(ts, b))
  BY DEF LogsUntil, Cut
<1> QED BY <1>1, <1>3, <1>4

LEMMA CandidatesAre ==
    ASSUME NEW ts, IsHistory(ts), NEW u, NEW o \in Int, NEW lo \in Nat, NEW hi \in Nat, lo <= hi
    PROVE  Candidates(ts, u, o, lo, hi) = {Reading(ts, u, o, lo, hi, k) : k \in 0 .. Len(ts)}
<1>1. PICK a, z : a = LogsUntil(ts, lo) /\ z = LogsUntil(ts, hi)
  BY Zenon
<1>2. Len(ts) \in Nat /\ a \in 0 .. Len(ts) /\ z \in 0 .. Len(ts)
      /\ Cut(ts, lo) = 1 .. a /\ Cut(ts, hi) = 1 .. z
  BY <1>1, HistoryLen, UntilIs
<1>3. a <= z
  <2>1. Cut(ts, lo) \subseteq Cut(ts, hi)
    <3>1. \A k \in 1 .. Len(ts) : ts[k].block \in Nat
      BY HistoryAt
    <3> QED BY <3>1 DEF Cut
  <2>2. a # 0 => a \in 1 .. a
    BY <1>2
  <2> QED BY <1>2, <2>1, <2>2
<1> DEFINE clamp(k) == IF k < a THEN a ELSE IF z < k THEN z ELSE k
<1>4. ASSUME NEW k \in 0 .. Len(ts)  PROVE Upto(ts, lo + 1, hi, k) = 1 .. clamp(k)
  <2>1. ASSUME NEW j \in 1 .. Len(ts)
        PROVE  ts[j].block < lo + 1 \/ (j <= k /\ ts[j].block <= hi) <=> j \in 1 .. clamp(k)
    <3>1. ts[j].block \in Nat
      BY HistoryAt
    <3>2. (ts[j].block <= lo <=> j \in 1 .. a) /\ (ts[j].block <= hi <=> j \in 1 .. z)
      BY <1>2 DEF Cut
    <3>3. ts[j].block < lo + 1 <=> ts[j].block <= lo
      BY <3>1
    <3> QED BY <1>2, <1>3, <3>2, <3>3
  <2>2. 1 .. clamp(k) \subseteq 1 .. Len(ts)
    BY <1>2
  <2> HIDE DEF clamp
  <2> QED BY <2>1, <2>2 DEF Upto
<1>5. \A k \in 0 .. Len(ts) : clamp(k) \in a .. z
  BY <1>2, <1>3
<1>6. \A n \in a .. z : n \in 0 .. Len(ts) /\ clamp(n) = n
  BY <1>2, <1>3
<1>7. \A k \in 0 .. Len(ts) : Reading(ts, u, o, lo, hi, k) = Total(Deltas(ts, u), 1 .. clamp(k)) + o
  BY <1>4 DEF Reading
<1> HIDE DEF clamp
<1>8. Candidates(ts, u, o, lo, hi) = {Total(Deltas(ts, u), 1 .. n) + o : n \in a .. z}
  BY <1>1 DEF Candidates
<1> QED BY <1>5, <1>6, <1>7, <1>8

LEMMA MinIs ==
    ASSUME NEW S, S \subseteq Int, NEW x \in S, \A y \in S : x <= y
    PROVE  Min(S) = x
<1>1. Min(S) \in S /\ \A y \in S : Min(S) <= y
  BY DEF Min
<1>2. Min(S) \in Int /\ x \in Int /\ x <= Min(S) /\ Min(S) <= x
  BY <1>1
<1> QED BY <1>2

\* What min_balances_over returns.
LEMMA MinimumIs ==
    ASSUME NEW ts, IsHistory(ts), NEW r \in Nat, NEW u, Solvent(ts, r, u),
           NEW lo \in Nat, NEW hi \in Nat, lo <= hi
    PROVE  min_balance_over(ts, r, u, lo, hi) =
             IF Smooth(ts, r, u, lo, hi) THEN Min(Candidates(ts, u, Gained(ts, r, u, lo), lo, hi))
             ELSE Failed
<1>1. PICK h, o, b, n, S :
        /\ h = Believed(ts, r, u, lo) /\ o = Gained(ts, r, u, lo) /\ b = BalanceAfter(ts, r, u, lo)
        /\ n = apply_deltas(ts, u, NetDeltas(ts, u, lo + 1, hi), b)[Len(ts)]
        /\ S = Candidates(ts, u, o, lo, hi)
  BY Zenon
<1>2. /\ o \in Int /\ Offset(h, ts, u, o, lo, hi) /\ h[lo] = b
      /\ BalanceAfter(ts, r, u, hi) = net(ts, u, hi) + o <=> Smooth(ts, r, u, lo, hi)
  BY <1>1, BelievedIs
<1>3. b = net(ts, u, lo) + o /\ b \in Int
  <2>1. lo \in lo .. hi
    OBVIOUS
  <2>2. b = net(ts, u, lo) + o
    BY <1>2, <2>1 DEF Offset
  <2> QED BY <1>2, <2>2, NetIs
<1>4. S = {Reading(ts, u, o, lo, hi, k) : k \in 0 .. Len(ts)}
  BY <1>1, <1>2, CandidatesAre
<1>5. Lowest(n, ts, u, o, lo, hi, Len(ts))
  BY <1>1, <1>2, <1>3, LowestAll
<1>6. n.least = Min(S)
  <2>1. S \subseteq Int
    BY <1>2, <1>4, ReadingInt
  <2>2. n.least \in S /\ \A y \in S : n.least <= y
    BY <1>4, <1>5 DEF Lowest
  <2> QED BY <2>1, <2>2, MinIs
<1>7. min_balance_over(ts, r, u, lo, hi) =
        IF hi <= lo THEN b
        ELSE IF ~n.ok \/ n.balance # BalanceAfter(ts, r, u, hi) THEN Failed ELSE n.least
  BY <1>1, Zenon DEF min_balance_over
<1>8. n.balance = net(ts, u, hi) + o
  <2>1. Upto(ts, lo + 1, hi, Len(ts)) = Cut(ts, hi)
    BY UptoEnds
  <2> QED BY <1>5, <2>1, NetIs DEF Lowest, Reading
<1>9. CASE hi <= lo
  <2>1. hi = lo /\ Smooth(ts, r, u, lo, hi)
    BY <1>9 DEF Smooth
  <2>2. LogsUntil(ts, lo) .. LogsUntil(ts, hi) = {LogsUntil(ts, lo)}
    BY <2>1, UntilIs
  <2>3. S = {Total(Deltas(ts, u), 1 .. LogsUntil(ts, lo)) + o}
    BY <1>1, <2>2 DEF Candidates
  <2>4. S = {b}
    BY <1>3, <2>3, UntilIs, NetIs
  <2>5. Min(S) = b
    BY <1>3, <2>4, MinIs
  <2> QED BY <1>1, <1>7, <1>9, <2>1, <2>5
<1>10. CASE ~(hi <= lo) /\ ~Smooth(ts, r, u, lo, hi)
  <2>1. n.balance # BalanceAfter(ts, r, u, hi)
    BY <1>2, <1>8, <1>10
  <2> QED BY <1>7, <1>10, <2>1, Zenon
<1>11. CASE ~(hi <= lo) /\ Smooth(ts, r, u, lo, hi)
  <2>1. n.balance = BalanceAfter(ts, r, u, hi)
    BY <1>2, <1>8, <1>11
  <2>2. n.ok = TRUE
    BY <1>1, <1>5, <1>11, SolventAffords DEF Lowest
  <2>3. min_balance_over(ts, r, u, lo, hi) = n.least
    BY <1>7, <1>11, <2>1, <2>2, Zenon
  <2> QED BY <1>1, <1>6, <1>11, <2>3
<1> QED BY <1>9, <1>10, <1>11

-----------------------------------------------------------------------------
(* The bulk replay *)

\* The accounts of a bulk replay that began at block lo, after the logs K.
Carried(as, U, ts, r, rates, dec, lo, K) ==
    /\ Mapped(as, U)
    /\ \A v \in U : Follows(as[v], Believed(ts, r, v, lo), ts, v, Gained(ts, r, v, lo),
                            rates, dec, lo, K)

Enough(U, ts, r, lo, hi) == \A v \in U : Affords(ts, v, Gained(ts, r, v, lo), lo, hi)

Carries(s, U, ts, r, rates, dec, lo, hi, K) ==
    /\ Carried(s.accounts, U, ts, r, rates, dec, lo, K)
    /\ Enough(U, ts, r, lo, hi) => s.ok = TRUE

LEMMA LogCarried ==
    ASSUME NEW ts, IsHistory(ts), NEW r \in Nat, NEW U, Zero \notin U, NEW rates, RatesOk(rates),
           NEW dec \in Nat, NEW lo \in Nat, NEW hi \in Nat, lo <= hi,
           NEW k \in 1 .. Len(ts), ts[k].block \in lo + 1 .. hi, NEW K, K = 1 .. k - 1, IsNext(ts, K, k),
           NEW s, Carries(s, U, ts, r, rates, dec, lo, hi, K),
           NEW n, n = apply_log(s, ts[k], rates, dec)
    PROVE  Carries(n, U, ts, r, rates, dec, lo, hi, K \cup {k})
<1>1. PICK as, new : as = s.accounts /\ new = apply_both(as, ts[k], rates, dec)
  BY Zenon
<1>2. n.accounts = new
      /\ n.ok = (/\ s.ok
                 /\ ts[k].from # Zero /\ ts[k].from \in DOMAIN as => ts[k].value <= as[ts[k].from].balance)
  BY <1>1 DEF apply_log
<1>3. Mapped(as, U)
  BY <1>1 DEF Carries, Carried
<1>4. ASSUME NEW v \in U
      PROVE  Follows(as[v], Believed(ts, r, v, lo), ts, v, Gained(ts, r, v, lo), rates, dec, lo, K)
  BY <1>1 DEF Carries, Carried
<1>5. Mapped(new, U) /\ \A v \in U : new[v] = BothSides(as[v], ts[k], v, rates, dec)
  BY <1>1, <1>3, BothApplied
<1>6. ASSUME NEW v \in U
      PROVE  Follows(new[v], Believed(ts, r, v, lo), ts, v, Gained(ts, r, v, lo), rates, dec, lo,
                     K \cup {k})
  <2>1. PICK h, o, a, m : /\ h = Believed(ts, r, v, lo) /\ o = Gained(ts, r, v, lo)
                          /\ a = as[v] /\ m = new[v]
    BY Zenon
  <2>2. o \in Int /\ Held(h) /\ Offset(h, ts, v, o, lo, hi)
    BY <2>1, BelievedIs
  <2>3. Follows(a, h, ts, v, o, rates, dec, lo, K) /\ m = BothSides(a, ts[k], v, rates, dec)
    BY <1>4, <1>5, <2>1
  <2>4. lo <= ts[k].block /\ ts[k].block <= hi
    OBVIOUS
  <2>5. /\ a.last \in Nat /\ a.balance \in Int /\ a.last <= ts[k].block
        /\ At(a, h, rates, dec, a.last) /\ Level(h, a.last, ts[k].block, a.balance)
        /\ ts[k].block \in Nat /\ ts[k].value \in Nat
    BY <2>2, <2>3, <2>4, FollowsReady
  <2>6. \/ m = a /\ delta(ts[k], v) = 0
        \/ /\ m.last = ts[k].block /\ At(m, h, rates, dec, ts[k].block)
           /\ m.balance = a.balance + delta(ts[k], v)
    <3>1. CASE ~Touches(ts, k, v)
      <4>1. m = a
        BY <2>3, <3>1 DEF BothSides, FromSide, Touches
      <4>2. delta(ts[k], v) = 0
        BY <3>1, DeltaAt
      <4> QED BY <4>1, <4>2
    <3>2. CASE Touches(ts, k, v)
      <4>1. PICK t : t = ts[k]
        OBVIOUS
      <4>2. t.from = v \/ t.to = v
        BY <3>2, <4>1 DEF Touches
      <4>3. /\ t.block \in Nat /\ t.value \in Nat /\ a.last \in Nat /\ a.balance \in Int
            /\ a.last <= t.block /\ At(a, h, rates, dec, a.last) /\ Level(h, a.last, t.block, a.balance)
            /\ m = BothSides(a, t, v, rates, dec) /\ Held(h) /\ RatesOk(rates) /\ dec \in Nat
        BY <2>2, <2>3, <2>5, <4>1
      <4>4. /\ m.last = t.block /\ At(m, h, rates, dec, t.block)
            /\ m.balance = a.balance + delta(t, v)
        BY ONLY <4>2, <4>3, BothSidesMove, SMTT(20)
      <4> QED BY <4>1, <4>4
    <3> QED BY <3>1, <3>2
  <2>7. Follows(m, h, ts, v, o, rates, dec, lo, K \cup {k})
    BY <2>2, <2>3, <2>4, <2>6, FollowsNext
  <2> QED BY <2>1, <2>7
<1>7. ASSUME Enough(U, ts, r, lo, hi)  PROVE n.ok = TRUE
  <2>1. s.ok = TRUE
    BY <1>7 DEF Carries
  <2>2. ASSUME ts[k].from \in DOMAIN as  PROVE ts[k].value <= as[ts[k].from].balance
    <3>1. PICK v : v = ts[k].from
      OBVIOUS
    <3>2. v \in U
      BY <1>3, <2>2, <3>1 DEF Mapped
    <3>3. ts[k].value <= Total(Deltas(ts, v), 1 .. k - 1) + Gained(ts, r, v, lo)
      BY <1>7, <3>1, <3>2 DEF Enough, Affords
    <3>4. as[v].balance = Total(Deltas(ts, v), 1 .. k - 1) + Gained(ts, r, v, lo)
      BY <1>4, <3>2 DEF Follows
    <3> QED BY <3>1, <3>3, <3>4
  <2> QED BY <1>2, <2>1, <2>2, Zenon
<1>8. Carried(new, U, ts, r, rates, dec, lo, K \cup {k})
  BY <1>5, <1>6 DEF Carried
<1> QED BY <1>2, <1>7, <1>8 DEF Carries

LEMMA SliceCarried ==
    ASSUME NEW ts, IsHistory(ts), NEW r \in Nat, NEW U, Zero \notin U, NEW rates, RatesOk(rates),
           NEW dec \in Nat, NEW from \in Nat, NEW to \in Nat, from <= to,
           NEW c \in Nat, NEW hi \in Nat, c <= hi, from <= c, hi <= to, NEW s,
           Carries(s, U, ts, r, rates, dec, from, to, Cut(ts, c)),
           NEW n, n = apply_slice(s, ts, c + 1, hi, rates, dec)[Len(ts)]
    PROVE  Carries(n, U, ts, r, rates, dec, from, to, Cut(ts, hi))
<1>1. PICK f, lo : f = apply_slice(s, ts, c + 1, hi, rates, dec) /\ lo = c + 1
  BY Zenon
<1>2. Logs(s, ts, lo, hi, rates, dec, Len(ts), f) /\ Len(ts) \in Nat /\ lo \in Nat
  <2>1. Logs(s, ts, c + 1, hi, rates, dec, Len(ts), f)
    BY <1>1, LogsSolve
  <2> QED BY <1>1, <2>1, HistoryLen
<1> DEFINE Good(k) == Carries(f[k], U, ts, r, rates, dec, from, to, Upto(ts, lo, hi, k))
           T == {k \in 0 .. Len(ts) : ~Good(k)}
<1>3. Good(0)
  <2>1. f[0] = s
    BY <1>2, LogsStart
  <2> QED BY <1>1, <2>1, UptoEnds
<1>4. ASSUME NEW k \in 1 .. Len(ts), Good(k - 1)  PROVE Good(k)
  <2>1. PICK p, q, K : p = f[k - 1] /\ q = f[k] /\ K = Upto(ts, lo, hi, k - 1)
    BY Zenon
  <2>2. q = LogOf(ts, lo, hi, rates, dec, k, p)
    <3>1. k \in 0 .. Len(ts) /\ k # 0
      BY <1>2
    <3>2. f[k] = LogOf(ts, lo, hi, rates, dec, k, f[k - 1])
      BY <1>2, <3>1, LogsAt
    <3> QED BY <2>1, <3>2
  <2>3. Carries(p, U, ts, r, rates, dec, from, to, K)
    BY <1>4, <2>1
  <2>4. IF ts[k].block \in lo .. hi
        THEN IsNext(ts, K, k) /\ Upto(ts, lo, hi, k) = K \cup {k}
        ELSE Upto(ts, lo, hi, k) = K
    BY <1>2, <2>1, UptoNext
  <2>5. CASE ts[k].block \in lo .. hi
    <3>1. q = apply_log(p, ts[k], rates, dec)
      BY <2>2, <2>5 DEF LogOf
    <3>2. ts[k].block \in from + 1 .. to
      BY <1>1, <2>5
    <3>3. K = 1 .. k - 1
      BY <1>2, <2>1, <2>5, UptoPrefix
    <3>4. Carries(q, U, ts, r, rates, dec, from, to, K \cup {k})
      BY <2>3, <2>4, <2>5, <3>1, <3>2, <3>3, LogCarried
    <3> QED BY <2>1, <2>4, <2>5, <3>4
  <2>6. CASE ts[k].block \notin lo .. hi
    <3>1. q = p
      BY <2>2, <2>6 DEF LogOf
    <3> QED BY <2>1, <2>3, <2>4, <2>6, <3>1
  <2> QED BY <2>5, <2>6
<1>5. Good(Len(ts))
  <2> SUFFICES ASSUME ~Good(Len(ts))  PROVE FALSE
    OBVIOUS
  <2> HIDE DEF Good
  <2>1. T \subseteq Nat /\ T # {}
    <3>1. Len(ts) \in T
      BY <1>2
    <3>2. 0 .. Len(ts) \subseteq Nat
      OBVIOUS
    <3> QED BY <3>1, <3>2
  <2>2. PICK m \in T : \A x \in T : m <= x
    <3> HIDE DEF T
    <3> QED BY <2>1, SmallestNat
  <2>3. m \in 0 .. Len(ts) /\ ~Good(m) /\ m # 0
    BY <1>3
  <2>4. m \in 1 .. Len(ts) /\ m - 1 \in 0 .. Len(ts) /\ ~(m <= m - 1)
    BY <1>2, <2>3
  <2>5. Good(m - 1)
    BY <2>2, <2>4
  <2> HIDE DEF T
  <2> QED BY <1>4, <2>3, <2>4, <2>5
<1>6. Upto(ts, lo, hi, Len(ts)) = Cut(ts, hi)
  BY <1>1, UptoEnds
<1> QED BY <1>1, <1>5, <1>6

LEMMA TokenCarried ==
    ASSUME NEW ts, IsHistory(ts), NEW r \in Nat, NEW U, Zero \notin U, NEW rates, RatesOk(rates),
           NEW dec \in Nat, NEW from \in Nat, NEW to \in Nat, from <= to, NEW range \in Nat, range > 0,
           NEW as, Carried(as, U, ts, r, rates, dec, from, Cut(ts, from)),
           NEW e, e = advance_token(as, ts, from, to, range, rates, dec)
    PROVE  Carries(e, U, ts, r, rates, dec, from, to, Cut(ts, to))
<1>1. PICK N, parts, s : N = SliceCount(from, to, range) /\ parts = slices(from, to, range)
                         /\ s = [accounts |-> as, ok |-> TRUE]
  BY Zenon
<1>2. N \in Nat
  BY <1>1, SlicesCount
<1>3. Len(parts) = N /\ SlicesFit(parts, from, to, range, N)
  BY <1>1, <1>2, SlicesAre
<1>4. PICK f : f = apply_slices(as, ts, parts, rates, dec)
  OBVIOUS
<1>5. Parts(s, ts, parts, rates, dec, N, f) /\ e = f[N]
  <2>1. Parts(s, ts, parts, rates, dec, Len(parts), f)
    BY <1>1, <1>2, <1>3, <1>4, PartsSolve
  <2>2. e = f[Len(parts)]
    BY <1>1, <1>4 DEF advance_token
  <2> QED BY <1>3, <2>1, <2>2
<1> DEFINE R(n) == Reach(from, to, range, n)
           Good(n) == Carries(f[n], U, ts, r, rates, dec, from, to, Cut(ts, R(n)))
           T == {n \in 0 .. N : ~Good(n)}
<1>6. /\ R(0) = from /\ R(N) = to
      /\ \A n \in 1 .. N : /\ R(n - 1) \in Nat /\ R(n) \in Nat /\ R(n - 1) <= R(n)
                           /\ R(n - 1) = from + (n - 1) * range
  BY <1>1, <1>2, Reaches
<1>7. \A n \in 1 .. N : from <= R(n - 1) /\ R(n) <= to
  <2> SUFFICES ASSUME NEW n \in 1 .. N  PROVE from <= R(n - 1) /\ R(n) <= to
    OBVIOUS
  <2>1. PICK x : x = (n - 1) * range
    OBVIOUS
  <2>2. PICK y : y = n * range
    OBVIOUS
  <2>3. n - 1 \in Nat
    BY <1>2
  <2>4. x \in Nat /\ y \in Nat
    BY <2>1, <2>2, <2>3
  <2>5. R(n - 1) = from + x
    BY <1>6, <2>1
  <2>6. R(n) = lesser(from + y, to)
    BY <2>2 DEF Reach
  <2>7. R(n) <= to
    BY <2>4, <2>6 DEF lesser
  <2> HIDE DEF R
  <2> QED BY <2>4, <2>5, <2>7
<1> HIDE DEF R
<1>8. Good(0)
  <2>1. f[0] = s
    BY <1>2, <1>5, PartsStart
  <2>2. s.accounts = as /\ s.ok = TRUE
    BY <1>1
  <2>3. Carries(s, U, ts, r, rates, dec, from, to, Cut(ts, from))
    BY <2>2 DEF Carries
  <2> QED BY <1>6, <2>1, <2>3
<1>9. ASSUME NEW n \in 1 .. N, Good(n - 1)  PROVE Good(n)
  <2>1. PICK p, q, c, d : p = f[n - 1] /\ q = f[n] /\ c = R(n - 1) /\ d = R(n)
    BY Zenon
  <2>2. q = SliceOf(ts, parts, rates, dec, n, p)
    <3>1. n \in 0 .. N /\ n # 0
      BY <1>2
    <3>2. f[n] = SliceOf(ts, parts, rates, dec, n, f[n - 1])
      BY <1>2, <1>5, <3>1, PartsAt
    <3> QED BY <2>1, <3>2
  <2>3. c \in Nat /\ d \in Nat /\ c <= d /\ from <= c /\ d <= to
    BY <1>6, <1>7, <2>1
  <2>4. parts[n][1] = c + 1 /\ parts[n][2] = d
    BY <1>3, <1>6, <2>1 DEF R, SlicesFit
  <2>5. q = apply_slice(p, ts, c + 1, d, rates, dec)[Len(ts)]
    BY <2>2, <2>4 DEF SliceOf
  <2>6. Carries(p, U, ts, r, rates, dec, from, to, Cut(ts, c))
    BY <1>9, <2>1
  <2>7. Carries(q, U, ts, r, rates, dec, from, to, Cut(ts, d))
    BY <2>3, <2>5, <2>6, SliceCarried
  <2> QED BY <2>1, <2>7
<1>10. Good(N)
  <2> SUFFICES ASSUME ~Good(N)  PROVE FALSE
    OBVIOUS
  <2> HIDE DEF Good
  <2>1. T \subseteq Nat /\ T # {}
    <3>1. N \in T
      BY <1>2
    <3>2. 0 .. N \subseteq Nat
      OBVIOUS
    <3> QED BY <3>1, <3>2
  <2>2. PICK m \in T : \A x \in T : m <= x
    <3> HIDE DEF T
    <3> QED BY <2>1, SmallestNat
  <2>3. m \in 0 .. N /\ ~Good(m) /\ m # 0
    BY <1>8
  <2>4. m \in 1 .. N /\ m - 1 \in 0 .. N /\ ~(m <= m - 1)
    BY <1>2, <2>3
  <2>5. Good(m - 1)
    BY <2>2, <2>4
  <2> HIDE DEF T
  <2> QED BY <1>9, <2>3, <2>4, <2>5
<1> QED BY <1>5, <1>6, <1>10

\* Where a bulk replay starts; nothing counts before.
IdleBefore(rates, b) == \A i \in 1 .. Len(rates) : rates[i].from < b => rates[i].rate = 0

LEMMA FirstContributes ==
    ASSUME NEW rates, RatesOk(rates), NEW c \in Nat, contributes_at(rates, c),
           NEW b, b = first_contributing_block(rates, c)
    PROVE  b \in Nat /\ b < c /\ (\E j \in 1 .. Len(rates) : rates[j].from = b) /\ IdleBefore(rates, b)
<1>1. PICK S : S = ContributingAt(rates, c)
  OBVIOUS
<1>2. ASSUME NEW i \in 1 .. Len(rates)
      PROVE  /\ rates[i].from \in Nat /\ SegmentEnd(rates, i, c) <= c /\ SegmentEnd(rates, i, c) \in Nat
             /\ SegmentEnd(rates, i, c) =
                  (IF i < Len(rates) THEN lesser(rates[i + 1].from, c) ELSE c)
  BY SegmentBlocks DEF SegmentEnd
<1>3. S = {rates[i].from : i \in {j \in 1 .. Len(rates) :
                rates[j].rate # 0 /\ rates[j].from < SegmentEnd(rates, j, c)}}
  BY <1>1, <1>2 DEF ContributingAt
<1>4. ASSUME NEW x \in S
      PROVE  x \in Nat /\ x < c /\ \E j \in 1 .. Len(rates) : rates[j].from = x
  <2>1. PICK j \in 1 .. Len(rates) : x = rates[j].from /\ rates[j].from < SegmentEnd(rates, j, c)
    BY <1>3, <1>4
  <2> QED BY <1>2, <2>1
<1>5. S \subseteq Nat /\ S # {}
  BY <1>1, <1>4 DEF contributes_at
<1>6. \E x \in S : \A y \in S : x <= y
  BY <1>5, SmallestNat
<1>7. b \in S /\ \A y \in S : b <= y
  BY <1>1, <1>6 DEF Min, first_contributing_block
<1>8. b \in Nat /\ b < c
  BY <1>4, <1>7
<1>9. PICK m \in 1 .. Len(rates) : rates[m].from = b
  BY <1>4, <1>7
<1>10. ASSUME NEW i \in 1 .. Len(rates), rates[i].from < b  PROVE rates[i].rate = 0
  <2>1. Len(rates) \in Nat /\ rates[i].from \in Nat
    BY RatesLen, RatePoint
  <2>2. i < m
    <3>1. ~(m < i)
      <4> SUFFICES ASSUME m < i  PROVE FALSE
        OBVIOUS
      <4>1. rates[m].from < rates[i].from
        BY DEF RatesOk
      <4> QED BY <1>8, <1>9, <1>10, <2>1, <4>1
    <3>2. i # m
      BY <1>8, <1>9, <1>10
    <3> QED BY <2>1, <3>1, <3>2
  <2>3. i < Len(rates) /\ i + 1 \in 1 .. Len(rates)
    BY <2>1, <2>2
  <2>4. rates[i + 1].from \in Nat /\ rates[i].from < rates[i + 1].from
    <3>1. i < i + 1
      BY <2>1
    <3> QED BY <2>3, <3>1, RatePoint DEF RatesOk
  <2>5. rates[i].from < SegmentEnd(rates, i, c)
    BY <1>2, <1>8, <1>10, <2>1, <2>3, <2>4 DEF lesser
  <2>6. ~(b <= rates[i].from)
    BY <1>8, <1>10, <2>1
  <2> QED BY <1>3, <1>7, <2>5, <2>6
<1> QED BY <1>8, <1>9, <1>10 DEF IdleBefore

\* BulkScoreSource: exact, or it fails because of a rebase of some account.
LEMMA BulkIs ==
    ASSUME NEW ts, IsHistory(ts), NEW r \in Nat, NEW U, Zero \notin U, NEW u \in U,
           \A v \in U : Solvent(ts, r, v), NEW rates, RatesOk(rates), NEW dec \in Nat,
           NEW c \in Nat, NEW range \in Nat, range > 0,
           NEW x, x = BulkNumerator(ts, r, U, u, rates, dec, c, range)
    PROVE  \/ x = ReferenceNumerator(ts, r, u, rates, dec, c)
           \/ x = Failed /\ r <= c /\ \E w \in U : net(ts, w, r) # 0
<1>1. PICK from, begin, end :
        /\ from = first_contributing_block(rates, c)
        /\ begin = [v \in U |-> [NewAccount EXCEPT !.balance = BalanceAfter(ts, r, v, from),
                                                   !.last = from]]
        /\ end = advance_token(begin, ts, from, c, range, rates, dec)
  BY Zenon
<1>2. x = IF ~contributes_at(rates, c) THEN 0
          ELSE IF ~end.ok \/ \E v \in U : end.accounts[v].balance # BalanceAfter(ts, r, v, c)
          THEN Failed
          ELSE projected_numerator(end.accounts[u], c, rates, dec)
  BY <1>1, Zenon DEF BulkNumerator
<1>3. CASE ~contributes_at(rates, c)
  <2>1. Total(Worths(Balances(ts, r, u), rates, dec, c), 1 .. Len(rates)) = 0
    BY <1>3, BalancesHeld, NothingEarned
  <2>2. ReferenceNumerator(ts, r, u, rates, dec, c) = 0
    BY <2>1, ReferenceIs
  <2> QED BY <1>2, <1>3, <2>2
<1>4. CASE contributes_at(rates, c)
  <2>1. /\ from \in Nat /\ from <= c
        /\ \E j \in 1 .. Len(rates) : rates[j].from = from
        /\ \A i \in 1 .. Len(rates) : rates[i].from < from => rates[i].rate = 0
    <3>1. from \in Nat /\ from < c
      BY <1>1, <1>4, FirstContributes
    <3>2. from <= c
      BY <3>1
    <3>3. \E j \in 1 .. Len(rates) : rates[j].from = from
      BY <1>1, <1>4, FirstContributes
    <3>4. IdleBefore(rates, from)
      BY <1>1, <1>4, FirstContributes
    <3> QED BY <3>1, <3>2, <3>3, <3>4, Zenon DEF IdleBefore
  <2>2. ASSUME NEW v \in U, NEW h, h = Believed(ts, r, v, from), NEW o, o = Gained(ts, r, v, from)
        PROVE  Follows(begin[v], h, ts, v, o, rates, dec, from, Cut(ts, from))
    <3>1. o \in Int /\ Held(h) /\ Offset(h, ts, v, o, from, c) /\ h[from] = BalanceAfter(ts, r, v, from)
      BY <2>1, <2>2, BelievedIs
    <3>2. begin[v] = [NewAccount EXCEPT !.balance = h[from], !.last = from]
      BY <1>1, <3>1
    <3>3. Exact(begin[v], h, rates, dec, from)
      BY <2>1, <3>1, <3>2, ExactNew
    <3> QED BY <2>1, <3>1, <3>3, FollowsStart
  <2>3. Carried(begin, U, ts, r, rates, dec, from, Cut(ts, from))
    <3>1. Mapped(begin, U)
      BY <1>1 DEF Mapped
    <3> QED BY <2>2, <3>1 DEF Carried
  <2>4. Carries(end, U, ts, r, rates, dec, from, c, Cut(ts, c))
    BY <1>1, <2>1, <2>3, TokenCarried
  <2>5. PICK as : as = end.accounts
    OBVIOUS
  <2>6. ASSUME NEW v \in U
        PROVE  /\ Follows(as[v], Believed(ts, r, v, from), ts, v, Gained(ts, r, v, from),
                          rates, dec, from, Cut(ts, c))
               /\ as[v].balance = BalanceAfter(ts, r, v, c) <=> Smooth(ts, r, v, from, c)
    <3>1. Follows(as[v], Believed(ts, r, v, from), ts, v, Gained(ts, r, v, from),
                  rates, dec, from, Cut(ts, c))
      BY <2>4, <2>5 DEF Carries, Carried
    <3>2. as[v].balance = Total(Deltas(ts, v), Cut(ts, c)) + Gained(ts, r, v, from)
      BY <3>1 DEF Follows
    <3>3. as[v].balance = net(ts, v, c) + Gained(ts, r, v, from)
      BY <3>2, NetIs
    <3>4. BalanceAfter(ts, r, v, c) = net(ts, v, c) + Gained(ts, r, v, from)
            <=> Smooth(ts, r, v, from, c)
      BY <2>1, BelievedIs
    <3> QED BY <3>1, <3>3, <3>4
  <2>7. CASE \E v \in U : ~Smooth(ts, r, v, from, c)
    <3>1. x = Failed
      BY <1>2, <1>4, <2>5, <2>6, <2>7
    <3>2. r <= c /\ \E w \in U : net(ts, w, r) # 0
      BY <2>1, <2>7 DEF Smooth
    <3> QED BY <3>1, <3>2
  <2>8. CASE \A v \in U : Smooth(ts, r, v, from, c)
    <3>1. Enough(U, ts, r, from, c)
      BY <2>1, <2>8, SolventAffords DEF Enough
    <3>2. end.ok = TRUE
      BY <2>4, <3>1 DEF Carries
    <3>3. x = projected_numerator(as[u], c, rates, dec)
      BY <1>2, <1>4, <2>5, <2>6, <2>8, <3>2
    <3>4. PICK h, o, a, n : /\ h = Believed(ts, r, u, from) /\ o = Gained(ts, r, u, from)
                            /\ a = as[u] /\ n = advance_account(a, c, rates, dec)
      BY Zenon
    <3>5. /\ o \in Int /\ Held(h) /\ Offset(h, ts, u, o, from, c)
          /\ \A b \in 0 .. c : h[b] = Balances(ts, r, u)[b]
      BY <2>1, <2>8, <3>4, BelievedIs
    <3>6. Follows(a, h, ts, u, o, rates, dec, from, Cut(ts, c))
      BY <2>6, <3>4
    <3>7. At(n, h, rates, dec, c)
      <4>1. Exact(n, h, rates, dec, c)
        BY <2>1, <3>4, <3>5, <3>6, FollowsEnd
      <4> QED BY <4>1 DEF Exact
    <3>8. x = Total(Worths(h, rates, dec, c), 1 .. Len(rates))
      <4>1. n.done + ActivePart(n, rates, dec) = Total(Worths(h, rates, dec, c), 1 .. Len(rates))
        BY <3>5, <3>7, Projection
      <4> QED BY <3>3, <3>4, <4>1 DEF projected_numerator
    <3>9. Agree(h, Balances(ts, r, u), c)
      BY <3>5 DEF Agree
    <3>10. Worths(h, rates, dec, c) = Worths(Balances(ts, r, u), rates, dec, c)
      BY <3>5, <3>9, SameWorths
    <3> QED BY <3>8, <3>10, ReferenceIs
  <2> QED BY <2>7, <2>8
<1> QED BY <1>3, <1>4

\* What the least balance is compared with.
LEMMA ReferenceMinimumIs ==
    ASSUME NEW ts, NEW r, NEW u, NEW lo, NEW hi
    PROVE  ReferenceMinimum(ts, r, u, lo, hi) = Min(Candidates(ts, u, Gained(ts, r, u, lo), lo, hi))
BY Zenon DEF ReferenceMinimum, Candidates, Gained, SumOver, Total, Deltas

\* On the second chain nobody sends more than he has either.
LEMMA ForkedSolvent ==
    ASSUME NEW ts, IsHistory(ts), NEW F \in Nat, NEW qs,
           qs = SubSeq(ts, 1, Cardinality({k \in 1 .. Len(ts) : ts[k].block < F})),
           NEW r \in Nat, NEW u, Solvent(ts, r, u)
    PROVE  Solvent(qs, r, u)
<1> DEFINE Has(h, k) == SumOver([j \in 1 .. Len(h) |-> delta(h[j], u)], 1 .. k - 1)
                          + (IF r < h[k].block THEN net(h, u, r) ELSE 0)
<1> SUFFICES ASSUME NEW k \in 1 .. Len(qs)
             PROVE  Has(qs, k) >= 0 /\ (qs[k].from = u => qs[k].value <= Has(qs, k))
  BY Zenon DEF Solvent
<1>1. /\ IsHistory(qs)
      /\ \A c \in Nat : c < F => SameUntil(ts, qs, c)
      /\ \A j \in 1 .. Len(qs) : j \in 1 .. Len(ts) /\ qs[j] = ts[j] /\ ts[j].block < F
  <2>1. IsHistory(qs)
    BY ForkedHistory
  <2>2. ASSUME NEW c \in Nat, c < F  PROVE SameUntil(ts, qs, c)
    BY <2>2, ForkedHistory
  <2>3. PICK n \in 0 .. Len(ts) : IsPart(qs, ts, F, n)
    BY ForkedPart, Zenon
  <2>4. ASSUME NEW j \in 1 .. Len(qs)  PROVE j \in 1 .. Len(ts) /\ qs[j] = ts[j] /\ ts[j].block < F
    <3>1. j \in 1 .. n /\ qs[j] = ts[j]
      BY <2>3 DEF IsPart
    <3>2. j \in {i \in 1 .. Len(ts) : ts[i].block < F}
      BY <2>3, <3>1 DEF IsPart
    <3> QED BY <3>1, <3>2
  <2> QED BY <2>1, <2>2, <2>4
<1>2. k \in 1 .. Len(ts) /\ qs[k] = ts[k] /\ ts[k].block < F /\ ts[k].block \in Nat
  BY <1>1, HistoryAt
<1>3. PICK c : c = F - 1
  OBVIOUS
<1>4. c \in Nat /\ c < F /\ ts[k].block <= c
  BY <1>2, <1>3
<1>5. SameUntil(ts, qs, c)
  BY <1>1, <1>4
<1>6. Total(Deltas(ts, u), 1 .. k - 1) = Total(Deltas(qs, u), 1 .. k - 1)
  <2>1. ASSUME NEW j \in 1 .. k - 1  PROVE j \in Cut(ts, c)
    <3>1. j \in 1 .. Len(ts) /\ j <= k
      BY <1>2, HistoryLen
    <3>2. ts[j].block <= ts[k].block /\ ts[j].block \in Nat
      BY <1>2, <3>1, HistoryAt DEF IsHistory
    <3>3. ts[j].block <= c
      BY <1>2, <1>4, <3>2
    <3> QED BY <3>1, <3>3 DEF Cut
  <2>2. 1 .. k - 1 \subseteq Cut(ts, c)
    BY <2>1
  <2> QED BY <1>1, <1>4, <1>5, <2>2, SameTotals
<1>7. r < ts[k].block => net(ts, u, r) = net(qs, u, r)
  <2>1. r < ts[k].block => r <= c
    BY <1>2, <1>4
  <2> QED BY <1>1, <1>4, <1>5, <2>1, SameNets
<1>8. /\ Has(ts, k) = Total(Deltas(ts, u), 1 .. k - 1) + (IF r < ts[k].block THEN net(ts, u, r) ELSE 0)
      /\ Has(qs, k) = Total(Deltas(qs, u), 1 .. k - 1) + (IF r < qs[k].block THEN net(qs, u, r) ELSE 0)
  BY Zenon DEF SumOver, Total, Deltas
<1>9. Has(ts, k) >= 0 /\ (ts[k].from = u => ts[k].value <= Has(ts, k))
  BY <1>2, Zenon DEF Solvent
<1> HIDE DEF Has
<1>10. Has(qs, k) = Has(ts, k)
  BY <1>2, <1>6, <1>7, <1>8
<1> QED BY <1>2, <1>9, <1>10

=============================================================================
