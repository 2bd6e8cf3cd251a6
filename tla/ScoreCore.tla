------------------------------ MODULE ScoreCore ------------------------------
(***************************************************************************)
(* How insurance scores are computed: the running account state of         *)
(* src/offchain-rust/score-core, the sources of src/offchain-rust/src that *)
(* replay transfers with it (checkpoint.rs) or from the balance at a block *)
(* (chain.rs), and the integral that all of them stand for.                *)
(*                                                                         *)
(* A token's transfers are a sequence of [block, from, to, value] in block *)
(* and log order.  Amounts are natural numbers; only the division by the   *)
(* token's surplus decimals and by SCORE_SCALE rounds, as in the code.     *)
(* Scores are what the properties compare, so no rounding is left out.     *)
(***************************************************************************)
EXTENDS Integers, Sequences, FiniteSets, SequencesExt, FiniteSetsExt

CONSTANTS
    Zero,            \* the zero address: mints come from it, burns go to it
    Base, Digits,    \* 10 and 18: token amounts are normalised to Digits decimals
    ScoreScale       \* SCORE_SCALE

ASSUME ScoreCoreAssumption ==
    Base \in Nat \ {0, 1} /\ Digits \in Nat /\ ScoreScale \in Nat \ {0}

NoSegment == -1      \* active_segment_from: None

lesser(a, b)  == IF a < b THEN a ELSE b
greater(a, b) == IF a < b THEN b ELSE a

\* The sum of a function over a set.
SumOver(f, S) == MapThenSumSet(LAMBDA x : f[x], S)

\* b to the n-th power.
power(b, n) ==
    LET p[i \in 0 .. n] == IF i = 0 THEN 1 ELSE b * p[i - 1]
    IN  p[n]

-----------------------------------------------------------------------------
(* Token history. *)

\* Logs come in the order of their blocks, and the first block has none.
IsHistory(ts) ==
    /\ ts \in Seq(ToSet(ts))
    /\ \A k \in 1 .. Len(ts) : ts[k].block \in Nat \ {0} /\ ts[k].value \in Nat
    /\ \A j, k \in 1 .. Len(ts) : j <= k => ts[j].block <= ts[k].block

\* What a transfer changes for an account, and what all of them until the end
\* of a block have changed.
delta(t, u) == (IF t.to = u THEN t.value ELSE 0) - (IF t.from = u THEN t.value ELSE 0)

net(ts, u, b) ==
    SumOver([k \in 1 .. Len(ts) |-> delta(ts[k], u)], {k \in 1 .. Len(ts) : ts[k].block <= b})

\* What the token's balanceOf returns at the end of a block.  A token that
\* rebases doubles what its holders have at the end of block r without a log.
BalanceAfter(ts, r, u, b) == net(ts, u, b) + (IF r <= b THEN net(ts, u, r) ELSE 0)

\* What an account has before the k-th log is never negative, and it sends no
\* more than that.
Solvent(ts, r, u) ==
    \A k \in 1 .. Len(ts) :
        LET has == SumOver([j \in 1 .. Len(ts) |-> delta(ts[j], u)], 1 .. k - 1)
                     + (IF r < ts[k].block THEN net(ts, u, r) ELSE 0)
        IN  has >= 0 /\ (ts[k].from = u => ts[k].value <= has)

\* How many logs there are until the end of a block.
LogsUntil(ts, b) == Cardinality({k \in 1 .. Len(ts) : ts[k].block <= b})

-----------------------------------------------------------------------------
(* score-core/src/lib.rs *)

NewAccount == [balance |-> 0, last |-> 0, done |-> 0, seg |-> NoSegment, integral |-> 0]

validate_rates(rates) == \A i \in 1 .. Len(rates) - 1 : rates[i].from < rates[i + 1].from

scaled_integral(x, decimals) ==
    IF decimals <= Digits THEN x * power(Base, Digits - decimals)
    ELSE x \div power(Base, decimals - Digits)

rate_for(rates, from) == (CHOOSE p \in ToSet(rates) : p.from = from).rate

\* The part of the running segment that is not yet in the numerator.
ActivePart(a, rates, decimals) ==
    IF a.seg = NoSegment THEN 0
    ELSE scaled_integral(a.integral, decimals) * rate_for(rates, a.seg)

finalize_active(a, rates, decimals) ==
    [a EXCEPT !.done = @ + ActivePart(a, rates, decimals), !.seg = NoSegment, !.integral = 0]

\* One rate segment of advance_account; the account has not moved yet.
advance_segment(a, i, to, rates, decimals) ==
    LET hasNext == i < Len(rates)
        lo      == greater(a.last, rates[i].from)
        hi      == IF hasNext THEN lesser(rates[i + 1].from, to) ELSE to
        opened  == IF a.seg = rates[i].from THEN a
                   ELSE [finalize_active(a, rates, decimals) EXCEPT !.seg = rates[i].from]
        grown   == [opened EXCEPT !.integral = @ + a.balance * (hi - lo)]
    IN  IF lo >= hi THEN a
        ELSE IF hasNext /\ hi = rates[i + 1].from THEN finalize_active(grown, rates, decimals)
        ELSE grown

\* The account after each of the rate segments.
advance_segments(a, to, rates, decimals) ==
    LET after[i \in 0 .. Len(rates)] ==
            IF i = 0 THEN a ELSE advance_segment(after[i - 1], i, to, rates, decimals)
    IN  after

\* Moving backward is an error of the callers, who check their cursors.
advance_account(a, to, rates, decimals) ==
    [advance_segments(a, to, rates, decimals)[Len(rates)] EXCEPT !.last = to]

\* A negative balance is the BalanceUnderflow error.
apply_transfer(a, block, inflow, outflow, rates, decimals) ==
    [advance_account(a, block, rates, decimals) EXCEPT !.balance = @ + inflow - outflow]

projected_numerator(a, to, rates, decimals) ==
    LET moved == advance_account(a, to, rates, decimals)
    IN  moved.done + ActivePart(moved, rates, decimals)

gross_score(numerator) == numerator \div ScoreScale

-----------------------------------------------------------------------------
(* Replaying a token for a set of accounts, checkpoint.rs. *)

\* Has the token a non-zero rate somewhere before the block, and from where on?
ContributingAt(rates, asOf) ==
    {rates[i].from : i \in {j \in 1 .. Len(rates) :
        /\ rates[j].rate # 0
        /\ rates[j].from < (IF j < Len(rates) THEN lesser(rates[j + 1].from, asOf) ELSE asOf)}}

first_contributing_block(rates, asOf) == Min(ContributingAt(rates, asOf))

contributes_at(rates, asOf) == ContributingAt(rates, asOf) # {}

\* One side of a transfer; the zero address and strangers have no account.
apply_transfer_delta(accounts, u, block, inflow, outflow, rates, decimals) ==
    IF u = Zero \/ u \notin DOMAIN accounts THEN accounts
    ELSE [accounts EXCEPT ![u] = apply_transfer(@, block, inflow, outflow, rates, decimals)]

apply_both(accounts, t, rates, decimals) ==
    apply_transfer_delta(
        apply_transfer_delta(accounts, t.from, t.block, 0, t.value, rates, decimals),
        t.to, t.block, t.value, 0, rates, decimals)

\* Mutated form: a slice begins at the last block of the one before it.
overlapping_slices(cursor, target, range) ==
    [n \in 1 .. (target - cursor + range - 1) \div range |->
        <<cursor + (n - 1) * range, lesser(cursor + n * range, target)>>]

\* The slices in which advance_token reads the transfers after its cursor.
slices(cursor, target, range) ==
    [n \in 1 .. (target - cursor + range - 1) \div range |->
        <<cursor + (n - 1) * range + 1, lesser(cursor + n * range, target)>>]

\* One log: the accounts after it, and whether no outflow exceeded a balance.
\* One that does ends the replay with an error.
apply_log(state, t, rates, decimals) ==
    [accounts |-> apply_both(state.accounts, t, rates, decimals),
     ok |-> /\ state.ok
            /\ t.from # Zero /\ t.from \in DOMAIN state.accounts
                    => t.value <= state.accounts[t.from].balance]

\* The states after each log of one slice, of the blocks lo .. hi.
apply_slice(state, ts, lo, hi, rates, decimals) ==
    LET after[k \in 0 .. Len(ts)] ==
            IF k = 0 THEN state
            ELSE IF ts[k].block \in lo .. hi THEN apply_log(after[k - 1], ts[k], rates, decimals)
            ELSE after[k - 1]
    IN  after

\* The states after each slice.
apply_slices(accounts, ts, parts, rates, decimals) ==
    LET after[n \in 0 .. Len(parts)] ==
            IF n = 0 THEN [accounts |-> accounts, ok |-> TRUE]
            ELSE apply_slice(after[n - 1], ts, parts[n][1], parts[n][2], rates, decimals)[Len(ts)]
    IN  after

advance_token(accounts, ts, cursor, target, range, rates, decimals) ==
    LET parts == slices(cursor, target, range)
    IN  apply_slices(accounts, ts, parts, rates, decimals)[Len(parts)]

-----------------------------------------------------------------------------
(* The sources that begin at a block's balances, chain.rs and checkpoint.rs. *)

Failed == -1         \* the source returned an error

\* BulkScoreSource: one replay of the tracked accounts from the first block
\* that contributes, checked against balanceOf at the end.
BulkNumerator(ts, r, users, u, rates, decimals, asOf, range) ==
    LET from  == first_contributing_block(rates, asOf)
        begin == [v \in users |-> [NewAccount EXCEPT !.balance = BalanceAfter(ts, r, v, from),
                                                     !.last = from]]
        end   == advance_token(begin, ts, from, asOf, range, rates, decimals)
    IN  IF ~contributes_at(rates, asOf) THEN 0
        ELSE IF ~end.ok \/ \E v \in users : end.accounts[v].balance # BalanceAfter(ts, r, v, asOf)
        THEN Failed
        ELSE projected_numerator(end.accounts[u], asOf, rates, decimals)

\* The positions of one account's logs; what one of them changes is delta, the
\* inflow less the outflow: a transfer to oneself is nothing.
NetDeltas(ts, u, lo, hi) ==
    {k \in 1 .. Len(ts) : ts[k].block \in lo .. hi /\ u \in {ts[k].from, ts[k].to}}

\* One log of apply_deltas; a balance below zero is the ReplayUnderflow error.
apply_delta(s, d) ==
    [balance |-> s.balance + d, ok |-> s.ok /\ s.balance + d >= 0,
     least |-> lesser(s.least, s.balance + d)]

\* The states after each log, of which those in mine are the account's.
apply_deltas(ts, u, mine, balance) ==
    LET after[k \in 0 .. Len(ts)] ==
            IF k = 0 THEN [balance |-> balance, ok |-> TRUE, least |-> balance]
            ELSE IF k \in mine THEN apply_delta(after[k - 1], delta(ts[k], u))
            ELSE after[k - 1]
    IN  after

\* min_balances_over: the least balance from the end of block lo to the end
\* of block hi.
min_balance_over(ts, r, u, lo, hi) ==
    LET begin == BalanceAfter(ts, r, u, lo)
        end   == apply_deltas(ts, u, NetDeltas(ts, u, lo + 1, hi), begin)[Len(ts)]
    IN  IF hi <= lo THEN begin
        ELSE IF ~end.ok \/ end.balance # BalanceAfter(ts, r, u, hi) THEN Failed
        ELSE end.least

\* One log of token_block_integral.
add_area(s, block, d) ==
    [sum |-> s.sum + s.balance * (block - s.cursor), cursor |-> block,
     balance |-> s.balance + d, ok |-> s.ok /\ s.balance + d >= 0]

add_areas(ts, u, mine, lo, balance) ==
    LET after[k \in 0 .. Len(ts)] ==
            IF k = 0 THEN [sum |-> 0, cursor |-> lo, balance |-> balance, ok |-> TRUE]
            ELSE IF k \in mine THEN add_area(after[k - 1], ts[k].block, delta(ts[k], u))
            ELSE after[k - 1]
    IN  after

\* The sum of the account's balances at lo .. hi - 1.
token_block_integral(ts, r, u, lo, hi) ==
    LET end == add_areas(ts, u, NetDeltas(ts, u, lo + 1, hi), lo, BalanceAfter(ts, r, u, lo))[Len(ts)]
    IN  IF ~end.ok \/ end.balance # BalanceAfter(ts, r, u, hi) THEN Failed
        ELSE end.sum + end.balance * (hi - end.cursor)

SegmentEnd(rates, i, asOf) ==
    IF i < Len(rates) THEN lesser(rates[i + 1].from, asOf) ELSE asOf

\* earned_score_of, for one token: one integral for every segment that counts.
RawNumerator(ts, r, u, rates, decimals, asOf) ==
    LET counts == {i \in 1 .. Len(rates) :
                    rates[i].rate # 0 /\ rates[i].from < SegmentEnd(rates, i, asOf)}
        part   == [i \in counts |->
                    token_block_integral(ts, r, u, rates[i].from, SegmentEnd(rates, i, asOf))]
    IN  IF \E i \in counts : part[i] = Failed THEN Failed
        ELSE SumOver([i \in counts |-> scaled_integral(part[i], decimals) * rates[i].rate], counts)

-----------------------------------------------------------------------------
(* What a score is. *)

\* A balance at the end of a block counts for that block, at the rate of the
\* segment the block belongs to; only a whole segment is normalised.
BlocksOf(rates, i, asOf) ==
    {b \in 0 .. asOf - 1 : b >= rates[i].from /\ (i < Len(rates) => b < rates[i + 1].from)}

ReferenceNumerator(ts, r, u, rates, decimals, asOf) ==
    LET held    == [b \in 0 .. asOf - 1 |-> BalanceAfter(ts, r, u, b)]
        area(i) == SumOver(held, BlocksOf(rates, i, asOf))
    IN  SumOver([i \in 1 .. Len(rates) |-> scaled_integral(area(i), decimals) * rates[i].rate],
                1 .. Len(rates))

\* The least of the balances after every transfer of the blocks after lo, for
\* a token that does not rebase there.
ReferenceMinimum(ts, r, u, lo, hi) ==
    Min({SumOver([k \in 1 .. Len(ts) |-> delta(ts[k], u)], 1 .. n)
            + (IF r <= lo THEN net(ts, u, r) ELSE 0) : n \in LogsUntil(ts, lo) .. LogsUntil(ts, hi)})
=============================================================================
