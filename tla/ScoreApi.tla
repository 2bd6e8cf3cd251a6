------------------------------ MODULE ScoreApi ------------------------------
(***************************************************************************)
(* The score API, src/offchain-rust/score-api: lambda invocations that     *)
(* answer score requests from one DynamoDB row per account and, when the   *)
(* row is not of the current day, take a lease on it, charge the shared    *)
(* work budget, continue the stored replay (ScoreCore) and save the result.*)
(*                                                                         *)
(* Invocations interleave between their calls, their clocks differ, they   *)
(* can die, and a save they sent can reach the table late or twice.  One   *)
(* block is mined in every unit of time and its number is its timestamp.   *)
(***************************************************************************)
EXTENDS ScoreCore

CONSTANTS
    Lambdas,         \* concurrent invocations
    Accounts,        \* accounts asked for, all of one network and Registry
    Tokens,          \* scored tokens, a sequence
    Transfers,       \* [token -> sequence of transfers]
    Rates, Decimals, \* the final rate history and the decimals of each token
    Margin,          \* holding_margin_blocks
    Spent,           \* scoreSpent of each account
    Deployed,        \* the block of the Registry's deployment
    ForkBlock,       \* the provider may change to a chain that differs from here
    Lag,             \* how far an invocation's clock is behind
    Refreshers,      \* invocations that may be asked for a refresh
    Day, RefreshCooldown,                  \* DAILY_EPOCH_SECONDS, REFRESH_COOLDOWN_SECONDS
    Timeout, LeaseTime, Cooldown, Window, MaxAttempts,  \* WorkPolicy
    StartTime, MaxTime,                    \* bounds
    Stale            \* a stored checkpoint that cannot be continued

\* No payload, no checkpoint, no answer.
Nothing == [none |-> TRUE]

ASSUME ScoreApiAssumption ==
    /\ Timeout \in Nat /\ LeaseTime \in Nat /\ Cooldown \in Nat \ {0}
    /\ Window \in Nat \ {0} /\ Window >= LeaseTime /\ MaxAttempts \in Nat \ {0}
    /\ Day \in Nat \ {0} /\ StartTime \in Nat /\ MaxTime \in Nat /\ StartTime >= Day
    /\ Lag \in [Lambdas -> Int]
    \* from_json makes the timeout end before the lease; clocks are synchronised
    \* well enough for the cooldown after it.
    /\ Timeout < LeaseTime
    /\ \A p, q \in Lambdas : Timeout + Lag[p] - Lag[q] < LeaseTime + Cooldown

VARIABLES
    now, finalized,  \* time, and the last finalized block
    fork,            \* which chain the provider is on
    row,             \* the table: a row for every account
    used,            \* work-budget#..: attempts of every window
    writes,          \* saves on their way to the table
    saved,           \* history: every payload the table ever held
    pc, call,        \* an invocation's place and its local variables
    answer           \* what was returned last, by any invocation

vars == <<now, finalized, fork, row, used, writes, saved, pc, call, answer>>

chain == <<now, finalized, fork>>

-----------------------------------------------------------------------------
(* The chain. *)

\* The second chain has the transfers of the first one before the fork.
Shared(t) == Cardinality({k \in 1 .. Len(Transfers[t]) : Transfers[t][k].block < ForkBlock})

HistoryOn(f, t) == IF f = 0 THEN Transfers[t] ELSE SubSeq(Transfers[t], 1, Shared(t))

HashOn(f, b) == IF b < ForkBlock THEN 0 ELSE f + 1

\* The rates the Registry knows at a block: one counts from the block of its
\* transaction on.
ScoredAt(t, b) ==
    SubSeq(Rates[t], 1, Cardinality({i \in 1 .. Len(Rates[t]) : Rates[t][i].from <= b}))

BalanceOn(f, t, u, b) == BalanceAfter(HistoryOn(f, t), MaxTime + 1, u, b)

\* Logs in the order of their blocks, rates in the order of theirs, and nobody
\* who has less than nothing.
ASSUME ScoreChainAssumption ==
    /\ Tokens \in Seq(ToSet(Tokens)) /\ ForkBlock \in Nat
    /\ StartTime > 1 /\ StartTime <= MaxTime /\ Deployed \in Nat \ {0}
    /\ Margin \in Nat /\ Spent \in [Accounts -> Nat]
    /\ \A t \in ToSet(Tokens) :
        /\ Decimals[t] \in Nat /\ IsHistory(Transfers[t])
        /\ Rates[t] \in Seq([from : Nat, rate : Nat]) /\ validate_rates(Rates[t])
        /\ \A f \in {0, 1}, u \in Accounts, b \in 0 .. MaxTime : BalanceOn(f, t, u, b) >= 0

-----------------------------------------------------------------------------
(* Continuing a replay, score-api/src/lib.rs. *)

score_cutoff_block(b) == IF b > Margin THEN b - Margin ELSE 1

\* Unlike checkpoint.rs, any earlier rate that is not zero starts a replay.
starting_blocks(rates, target) ==
    {p.from : p \in {q \in ToSet(rates) : q.rate # 0 /\ q.from < target}}

new_token_checkpoint(t, u, b) ==
    [cursor |-> b, hash |-> HashOn(fork, b), rates |-> <<>>,
     account |-> [NewAccount EXCEPT !.balance = BalanceOn(fork, t, u, b), !.last = b]]

validate_checkpoint(c, rates) ==
    /\ IsPrefix(c.rates, rates)
    /\ \A i \in Len(c.rates) + 1 .. Len(rates) : rates[i].from > c.cursor
    /\ c.account.last = c.cursor

\* Positions of outgoing and incoming logs; a transfer to oneself counts once.
erc20_transfers_for_accounts(ts, us, lo, hi) ==
    {k \in 1 .. Len(ts) : ts[k].block \in lo .. hi /\ {ts[k].from, ts[k].to} \cap us # {}}

\* The account after each of these logs; one that moves nothing is skipped.
apply_transfers(a, ts, mine, u, rates, decimals) ==
    LET after[k \in 0 .. Len(ts)] ==
            IF k = 0 THEN a
            ELSE IF k \in mine /\ ts[k].value # 0
            THEN apply_transfer(after[k - 1], ts[k].block, IF ts[k].to = u THEN ts[k].value ELSE 0,
                                IF ts[k].from = u THEN ts[k].value ELSE 0, rates, decimals)
            ELSE after[k - 1]
    IN  after

advance_token_checkpoint(c, t, u, rates, target) ==
    LET ts    == HistoryOn(fork, t)
        mine  == erc20_transfers_for_accounts(ts, {u}, c.cursor + 1, target)
        moved == apply_transfers(c.account, ts, mine, u, rates, Decimals[t])[Len(ts)]
    IN  [cursor |-> target, hash |-> HashOn(fork, target), rates |-> rates,
         account |-> advance_account(moved, target, rates, Decimals[t])]

\* One token of score_to_block: nothing yet, an error, or its new checkpoint.
score_token(old, t, u, rates, target) ==
    IF starting_blocks(rates, target) = {} THEN Nothing
    ELSE LET c == IF old # Nothing THEN old
                  ELSE [new_token_checkpoint(t, u, Min(starting_blocks(rates, target)))
                            EXCEPT !.rates = rates]
         IN  IF \/ c.hash # HashOn(fork, c.cursor)      \* CheckpointBlockHash
                \/ ~validate_checkpoint(c, rates)       \* RateHistoryMismatch, RetroactiveRate
                \/ c.cursor > target                    \* CursorRollback
             THEN Stale
             ELSE LET next == IF c.cursor = target THEN c
                              ELSE advance_token_checkpoint(c, t, u, rates, target)
                  IN  IF next.account.balance # BalanceOn(fork, t, u, target) THEN Stale ELSE next

NoTokens == [i \in DOMAIN Tokens |-> Nothing]

score_to_block(old, u, reference, target) ==
    [i \in DOMAIN Tokens |->
        score_token(old[i], Tokens[i], u, ScoredAt(Tokens[i], reference), target)]

token_numerators(tokens, reference, target) ==
    [i \in DOMAIN Tokens |->
        IF tokens[i] = Nothing THEN 0
        ELSE projected_numerator(tokens[i].account, target, ScoredAt(Tokens[i], reference),
                                 Decimals[Tokens[i]])]

Sum(s) == SumOver(s, DOMAIN s)

\* The parts are rounded one by one, and the last token takes the remainder.
allocate_token_scores(numerators) ==
    LET parts == [i \in DOMAIN numerators |-> gross_score(numerators[i])]
        n     == Len(numerators)
    IN  [parts EXCEPT ![n] = @ + gross_score(Sum(numerators)) - Sum(parts)]

\* The snapshot and checkpoint that compute_incremental_score_at returns.
Payload(u, c) ==
    LET gross   == gross_score(Sum(token_numerators(c.visible, c.reference, c.reference)))
        matured == gross_score(Sum(token_numerators(c.matured, c.reference,
                                                    score_cutoff_block(c.reference))))
    IN  [epoch |-> c.epoch, cursor |-> c.reference, hash |-> c.hash,
         tokens |-> c.matured, visible |-> c.visible, gross |-> gross,
         available |-> IF matured > Spent[u] THEN matured - Spent[u] ELSE 0,
         parts |-> allocate_token_scores(token_numerators(c.visible, c.reference, c.reference))]

-----------------------------------------------------------------------------
(* The table. *)

NewRow == [version |-> 0, payload |-> Nothing, generation |-> 0, lease |-> 0, retry |-> 0,
           admitted |-> 0, refreshed |-> 0]

\* Mutated form: neither the lease nor the cooldown is compared with the clock.
Untimed(r, version, time) == r.version = version

\* acquire's condition: nobody holds the row, the last failure is long enough
\* ago, and nothing was saved since it was read.
Acquirable(r, version, time) ==
    r.lease <= time /\ r.retry <= time /\ r.version = version

Acquired(r, epoch, time) ==
    [r EXCEPT !.lease = time + LeaseTime, !.retry = time + LeaseTime + Cooldown,
              !.admitted = epoch, !.generation = @ + 1]

\* Mutated form: a save is an unconditional write.
Unfenced(r, w) == TRUE

\* save's condition; the time in it is the sender's, when it built the request.
Saveable(r, w) ==
    /\ r.generation = w.generation /\ r.lease > w.time
    /\ r.admitted = w.payload.epoch /\ r.version = w.version

Stored(r, w) ==
    [r EXCEPT !.version = w.version + 1, !.payload = w.payload, !.lease = 0, !.retry = 0,
              !.refreshed = IF w.refresh THEN w.began ELSE @]

-----------------------------------------------------------------------------
(* An invocation. *)

Clock(p) == now - Lag[p]

completed_utc_epoch(time) == (time \div Day) * Day

NoCall == [account |-> Nothing, refresh |-> FALSE, started |-> 0, time |-> 0, epoch |-> 0,
           version |-> 0, payload |-> Nothing, generation |-> 0, reference |-> 0, hash |-> 0,
           cold |-> FALSE, matured |-> NoTokens, visible |-> NoTokens]

Init ==
    /\ now = StartTime /\ finalized = StartTime - 1 /\ fork = 0
    /\ row = [u \in Accounts |-> NewRow]
    /\ used = [w \in 0 .. MaxTime \div Window |-> 0]
    /\ writes = {} /\ saved = {}
    /\ pc = [p \in Lambdas |-> "idle"] /\ call = [p \in Lambdas |-> NoCall]
    /\ answer = Nothing

\* calculate drops the computation when its time is up.
Live(p) == now - call[p].started <= Timeout

Goes(p, from, to) == pc[p] = from /\ Live(p) /\ pc' = [pc EXCEPT ![p] = to]

Return(p, payload) ==
    /\ pc' = [pc EXCEPT ![p] = "idle"] /\ call' = [call EXCEPT ![p] = NoCall]
    /\ answer' = IF payload = Nothing THEN Nothing
                 ELSE [account |-> call[p].account, payload |-> payload]

\* deferred_score: an older snapshot, or 503 when there is none.
Defer(p, payload) == Return(p, payload)

RefreshThrottled(r, time) == r.refreshed # 0 /\ time < r.refreshed + RefreshCooldown

\* A request reads the row; today's snapshot is served from it.
Load(p) ==
    /\ pc[p] = "idle"
    /\ \E u \in Accounts, refresh \in {FALSE, (p \in Refreshers)} :
        LET r == row[u]
            c == [NoCall EXCEPT !.account = u, !.refresh = refresh, !.started = now,
                                !.time = Clock(p), !.epoch = completed_utc_epoch(Clock(p)),
                                !.version = r.version, !.payload = r.payload]
            hit == /\ r.payload # Nothing
                   /\ r.payload.epoch = c.epoch
                   /\ refresh => RefreshThrottled(r, c.time)
        IN  IF hit
            THEN /\ answer' = [account |-> u, payload |-> r.payload]
                 /\ UNCHANGED <<pc, call>>
            ELSE /\ pc' = [pc EXCEPT ![p] = "loaded"] /\ call' = [call EXCEPT ![p] = c]
                 /\ answer' = Nothing
    /\ UNCHANGED <<chain, row, used, writes, saved>>

Acquire(p) ==
    LET u == call[p].account IN
    /\ Goes(p, "loaded", "leased")
    /\ Acquirable(row[u], call[p].version, call[p].time)
    /\ row' = [row EXCEPT ![u] = Acquired(@, call[p].epoch, call[p].time)]
    /\ call' = [call EXCEPT ![p].generation = row[u].generation + 1]
    /\ UNCHANGED <<chain, used, writes, saved, answer>>

AcquireLost(p) ==
    LET u == call[p].account IN
    /\ pc[p] = "loaded" /\ Live(p)
    /\ ~Acquirable(row[u], call[p].version, call[p].time)
    /\ Defer(p, row[u].payload)
    /\ UNCHANGED <<chain, row, used, writes, saved>>

\* reserve_budget: attempts are charged and never given back.
Reserve(p) ==
    LET w == Clock(p) \div Window IN
    /\ Goes(p, "leased", "admitted") /\ used[w] < MaxAttempts
    /\ used' = [used EXCEPT ![w] = @ + 1]
    /\ UNCHANGED <<chain, row, writes, saved, call, answer>>

\* Out of budget; the lease and the cooldown stay.
ReserveDenied(p) ==
    /\ pc[p] = "leased" /\ Live(p) /\ used[Clock(p) \div Window] >= MaxAttempts
    /\ Defer(p, call[p].payload)
    /\ UNCHANGED <<chain, row, used, writes, saved>>

\* The block a request is answered at: the last of the previous day, or the
\* finalized one for a refresh and on the day of the deployment.
Reference(p) ==
    IF call[p].refresh \/ call[p].epoch - 1 < Deployed THEN finalized ELSE call[p].epoch - 1

Anchor(p) ==
    /\ completed_utc_epoch(finalized) = call[p].epoch
    /\ Goes(p, "admitted", "anchored")
    /\ call' = [call EXCEPT ![p].reference = Reference(p), ![p].hash = HashOn(fork, Reference(p))]
    /\ UNCHANGED <<chain, row, used, writes, saved, answer>>

\* The finalized block is of another day than the clock.
NoAnchor(p) ==
    /\ pc[p] = "admitted" /\ Live(p) /\ completed_utc_epoch(finalized) # call[p].epoch
    /\ Defer(p, call[p].payload)
    /\ UNCHANGED <<chain, row, used, writes, saved>>

IsStale(tokens) == \E i \in DOMAIN tokens : tokens[i] = Stale

\* A stored checkpoint that cannot be continued is discarded, once; an error
\* without one fails the request.
Replayed(p, to, tokens, next) ==
    IF ~IsStale(tokens)
    THEN /\ pc' = [pc EXCEPT ![p] = to] /\ call' = [call EXCEPT ![p] = next]
         /\ UNCHANGED answer
    ELSE IF call[p].payload # Nothing /\ ~call[p].cold
    THEN /\ pc' = [pc EXCEPT ![p] = "anchored"] /\ call' = [call EXCEPT ![p].cold = TRUE]
         /\ UNCHANGED answer
    ELSE Defer(p, Nothing)

\* The replay up to the maturity cutoff, from the stored checkpoint.
Mature(p) ==
    LET c      == call[p]
        old    == IF c.cold \/ c.payload = Nothing THEN NoTokens ELSE c.payload.tokens
        tokens == score_to_block(old, c.account, c.reference, score_cutoff_block(c.reference))
    IN  /\ pc[p] = "anchored" /\ Live(p)
        /\ Replayed(p, "matured", tokens, [c EXCEPT !.matured = tokens])
        /\ UNCHANGED <<chain, row, used, writes, saved>>

\* The replay up to the reference block, from its own stored checkpoint or
\* from where the other replay ended.
Visible(p) ==
    LET c      == call[p]
        old    == IF c.cold \/ c.payload = Nothing THEN c.matured ELSE c.payload.visible
        tokens == score_to_block(old, c.account, c.reference, c.reference)
    IN  /\ pc[p] = "matured" /\ Live(p)
        /\ Replayed(p, "visible", tokens, [c EXCEPT !.visible = tokens])
        /\ UNCHANGED <<chain, row, used, writes, saved>>

\* Mutated form: the anchors are not read again before the result is used.
UncheckedConfirm(p) ==
    /\ Goes(p, "visible", "computed")
    /\ UNCHANGED <<chain, row, used, writes, saved, call, answer>>

\* The anchor blocks still are what they were.
Confirm(p) ==
    /\ HashOn(fork, call[p].reference) = call[p].hash
    /\ Goes(p, "visible", "computed")
    /\ UNCHANGED <<chain, row, used, writes, saved, call, answer>>

AnchorChanged(p) ==
    /\ pc[p] = "visible" /\ Live(p) /\ HashOn(fork, call[p].reference) # call[p].hash
    /\ Defer(p, Nothing)
    /\ UNCHANGED <<chain, row, used, writes, saved>>

WriteOf(p) ==
    [account |-> call[p].account, generation |-> call[p].generation, version |-> call[p].version,
     time |-> Clock(p), began |-> call[p].time, refresh |-> call[p].refresh,
     payload |-> Payload(call[p].account, call[p])]

\* Mutated form: the result is returned without waiting for the table.
EagerSave(p) ==
    /\ pc[p] = "computed" /\ Live(p)
    /\ writes' = writes \cup {WriteOf(p)}
    /\ Return(p, WriteOf(p).payload)
    /\ UNCHANGED <<chain, row, used, saved>>

SendSave(p) ==
    /\ Goes(p, "computed", "saving")
    /\ writes' = writes \cup {WriteOf(p)}
    /\ UNCHANGED <<chain, row, used, saved, call, answer>>

\* A save arrives: its condition decides.  The sender, if it still waits for
\* this one, learns the outcome; the request may be repeated by the network.
Arrive(w) ==
    LET u       == w.account
        senders == {p \in Lambdas : pc[p] = "saving" /\ Live(p) /\ call[p].account = u
                                    /\ call[p].generation = w.generation}
        ok      == Saveable(row[u], w)
    IN  /\ row' = [row EXCEPT ![u] = IF ok THEN Stored(@, w) ELSE @]
        /\ saved' = saved \cup (IF ok THEN {<<u, w.payload>>} ELSE {})
        /\ \E repeated \in BOOLEAN : writes' = IF repeated /\ ok THEN writes ELSE writes \ {w}
        /\ \/ /\ senders = {} /\ UNCHANGED <<pc, call, answer>>
           \/ \E p \in senders :
                IF ok THEN Return(p, w.payload) ELSE Defer(p, row[u].payload)
           \/ senders # {} /\ UNCHANGED <<pc, call, answer>>    \* the answer is lost
        /\ UNCHANGED <<chain, used>>

\* The deadline of a request, or the death of its lambda.
TimeOut(p) ==
    /\ pc[p] # "idle" /\ Defer(p, Nothing)
    /\ UNCHANGED <<chain, row, used, writes, saved>>

-----------------------------------------------------------------------------
Tick == /\ now < MaxTime /\ now' = now + 1
        /\ UNCHANGED <<finalized, fork, row, used, writes, saved, pc, call, answer>>

Finalize == /\ finalized < now /\ finalized' = now
            /\ UNCHANGED <<now, fork, row, used, writes, saved, pc, call, answer>>

\* Once, the provider changes to another chain.
Reorganise == /\ fork = 0 /\ finalized >= ForkBlock /\ fork' = 1
              /\ UNCHANGED <<now, finalized, row, used, writes, saved, pc, call, answer>>

Next ==
    \/ Tick \/ Finalize \/ Reorganise
    \/ \E w \in writes : Arrive(w)
    \/ \E p \in Lambdas :
        \/ Load(p) \/ Acquire(p) \/ AcquireLost(p) \/ Reserve(p) \/ ReserveDenied(p)
        \/ Anchor(p) \/ NoAnchor(p) \/ Mature(p) \/ Visible(p) \/ Confirm(p)
        \/ AnchorChanged(p) \/ SendSave(p) \/ TimeOut(p)

Spec == Init /\ [][Next]_vars

-----------------------------------------------------------------------------
(* Properties. *)

ScoreOn(f, u, b, asOf) ==
    gross_score(Sum([i \in DOMAIN Tokens |->
        ReferenceNumerator(HistoryOn(f, Tokens[i]), MaxTime + 1, u, ScoredAt(Tokens[i], b),
                           Decimals[Tokens[i]], asOf)]))

\* Every payload ever saved holds the exact score of its account on the chain
\* its reference block is on: continued over days from stored checkpoints,
\* with the matured part less what was spent, and the parts of the tokens
\* adding up to the whole.
SavedScoreIsExact ==
    \A s \in saved :
        LET u == s[1]
            d == s[2]
            f == IF d.hash = 0 THEN 0 ELSE d.hash - 1
            m == ScoreOn(f, u, d.cursor, score_cutoff_block(d.cursor))
        IN  /\ d.gross = ScoreOn(f, u, d.cursor, d.cursor)
            /\ d.available = IF m > Spent[u] THEN m - Spent[u] ELSE 0
            /\ Sum(d.parts) = d.gross /\ \A i \in DOMAIN d.parts : d.parts[i] >= 0

\* A late or repeated save never replaces a newer row: versions, days and
\* blocks only move forward, whichever lambda's write arrives.
RowNeverRegresses ==
    [][\A u \in Accounts : row[u].payload # Nothing =>
        /\ row'[u].payload # Nothing
        /\ row'[u].version >= row[u].version
        /\ row'[u].payload.epoch >= row[u].payload.epoch
        /\ row'[u].payload.cursor >= row[u].payload.cursor]_row

\* What a caller receives was in the table: a result whose save was refused
\* is not served.
ServedWasSaved ==
    answer # Nothing => <<answer.account, answer.payload>> \in saved

Replaying(p) ==
    pc[p] \in {"leased", "admitted", "anchored", "matured", "visible", "computed"} /\ Live(p)

\* The lease keeps two invocations from replaying one account at a time, as
\* long as both still run.
OneReplayAtATime ==
    \A p, q \in Lambdas :
        Replaying(p) /\ Replaying(q) /\ call[p].account = call[q].account => p = q
=============================================================================
