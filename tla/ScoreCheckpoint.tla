--------------------------- MODULE ScoreCheckpoint ---------------------------
(***************************************************************************)
(* The score checkpoint of src/offchain-rust/src/checkpoint.rs: settlement *)
(* runs that share one authenticated file, extend it from its cursor to    *)
(* their block, compute scores from it and replace it.  Runs die anywhere, *)
(* the machine can lose its power, and the chain can turn out to be a      *)
(* different one than the file was made from.                              *)
(*                                                                         *)
(* Bytes are abstract: a file is what was serialised, the key of its HMAC, *)
(* whether its bytes reached the disk, and whether they are whole.         *)
(***************************************************************************)
EXTENDS ScoreCore

CONSTANTS
    Runs,            \* settlement processes
    Tokens, Accounts,
    Histories,       \* possible transfers, [Tokens -> sequence of transfers]
    RebaseAt,        \* [Tokens -> block]: when the token rebases, if it does
    Decimals,        \* [Tokens -> Nat]
    FirstRates,      \* [Tokens -> sequence of [from, rate]]
    NewRates,        \* rates governance may add
    Keys,            \* integrity keys an operator may supply
    ForkBlock,       \* the first block that differs between the two chains
    QueryRange,           \* max_range of a log query
    FirstHead, MaxHead, MaxPoints    \* bounds

\* A checkpoint file, and a token in it, that do not exist.
NoFile  == [none |-> TRUE]
NoToken == [none |-> TRUE]

NoRun == "none"

ASSUME CheckpointAssumption ==
    /\ Decimals \in [Tokens -> Nat] /\ QueryRange \in Nat \ {0}
    /\ FirstHead \in Nat /\ MaxHead \in Nat /\ MaxPoints \in Nat
    /\ \A t \in Tokens : validate_rates(FirstRates[t])
    /\ NoRun \notin Runs

ASSUME ChainAssumption ==
    /\ IsFiniteSet(Tokens) /\ Zero \notin Accounts /\ FirstHead <= MaxHead
    /\ \A h \in Histories : \A t \in Tokens :
            IsHistory(h[t]) /\ \A u \in Accounts : Solvent(h[t], RebaseAt[t], u)
    /\ ForkBlock \in Nat /\ RebaseAt \in [Tokens -> Nat]
    /\ FirstRates = [t \in Tokens |-> FirstRates[t]] /\ NewRates \subseteq Nat
    /\ \A t \in Tokens : FirstRates[t] \in Seq([from : Nat, rate : Nat])

VARIABLES
    transfers,       \* what happened on the first chain
    fork,            \* which of the two chains is canonical, 0 or 1
    head,            \* the finalized block
    rates,           \* the Registry's rate history, by token
    file, durable,   \* the checkpoint: as processes see it, and after a power loss
    lock,            \* does the .lock file exist, and who made it?
    place,           \* where a run is
    asOf, key, mem, todo, claimants   \* a run's block, key, state, tokens left, users

world == <<transfers, fork, head, rates>>
local == <<asOf, key, mem, todo, claimants>>
vars == <<world, file, durable, lock, place, local>>

-----------------------------------------------------------------------------
(* The chain. *)

\* The second chain has the transfers of the first one before the fork.
Shared(t) == Cardinality({k \in 1 .. Len(transfers[t]) : transfers[t][k].block < ForkBlock})

History(t) == IF fork = 0 THEN transfers[t] ELSE SubSeq(transfers[t], 1, Shared(t))

BlockHash(b) == IF b = 0 THEN 0 ELSE IF b < ForkBlock THEN 1 ELSE 2 + fork

balance_of_at(t, u, b) == BalanceAfter(History(t), RebaseAt[t], u, b)

Mine == /\ head < MaxHead /\ head' = head + 1
        /\ UNCHANGED <<transfers, fork, rates, file, durable, lock, place, local>>

\* A rate counts from a block that is not final yet.
AddRate(t) ==
    /\ Len(rates[t]) < MaxPoints
    /\ rates[t] # <<>> => Last(rates[t]).from <= head
    /\ \E r \in NewRates : rates' = [rates EXCEPT ![t] = Append(@, [from |-> head + 1, rate |-> r])]
    /\ UNCHANGED <<transfers, fork, head, file, durable, lock, place, local>>

Down == {p \in Runs : place[p] \in {"idle", "dead"}}

\* Between two runs the operator moves to a node on another chain.
Reorganise ==
    /\ fork = 0 /\ Down = Runs /\ fork' = 1
    /\ UNCHANGED <<transfers, head, rates, file, durable, lock, place, local>>

-----------------------------------------------------------------------------
(* Token states and the file. *)

EmptyToken(t) ==
    [decimals |-> Decimals[t], cursor |-> 0, hash |-> 0, rates |-> rates[t],
     accounts |-> [u \in Accounts |-> NewAccount]]

\* What parse_state refuses in a token.
parse_token(s) ==
    /\ s.cursor = 0 => s.hash = 0
    /\ validate_rates(s.rates)
    /\ \A u \in Accounts :
        LET a == s.accounts[u] IN
        /\ a.last <= s.cursor
        /\ IF a.seg = NoSegment THEN a.integral = 0
           ELSE \E p \in ToSet(s.rates) : p.from = a.seg

parse_state(c) == \A t \in Tokens : c[t] # NoToken => parse_token(c[t])

serialize_state(p, synced) ==
    [tokens |-> mem[p], key |-> key[p], synced |-> synced, whole |-> TRUE]

\* Truncated bytes do not parse, and another key does not authenticate them.
Loadable(f, k) == f # NoFile => f.whole /\ f.key = k /\ parse_state(f.tokens)

\* The stored rates are a prefix of the current ones, and what was added to
\* them starts after the blocks already replayed.
validate_stored_token(s, t) ==
    /\ s.decimals = Decimals[t]
    /\ IsPrefix(s.rates, rates[t])
    /\ \A i \in Len(s.rates) + 1 .. Len(rates[t]) : rates[t][i].from > s.cursor

-----------------------------------------------------------------------------
(* A run. *)

Init ==
    /\ transfers \in Histories /\ fork = 0 /\ head = FirstHead /\ rates = FirstRates
    /\ file = NoFile /\ durable = NoFile /\ lock = NoRun
    /\ place = [p \in Runs |-> "idle"]
    /\ asOf = [p \in Runs |-> 0] /\ key = [p \in Runs |-> NoRun]
    /\ mem = [p \in Runs |-> [t \in Tokens |-> NoToken]]
    /\ todo = [p \in Runs |-> {}] /\ claimants = [p \in Runs |-> {}]

\* The fields of a run that is over mean nothing.
Forget(p) ==
    /\ asOf' = [asOf EXCEPT ![p] = 0] /\ key' = [key EXCEPT ![p] = NoRun]
    /\ mem' = [mem EXCEPT ![p] = [t \in Tokens |-> NoToken]]
    /\ todo' = [todo EXCEPT ![p] = {}] /\ claimants' = [claimants EXCEPT ![p] = {}]

\* An error ends the run, and dropping its guard removes the lock file.
Release(p) ==
    /\ place' = [place EXCEPT ![p] = "idle"] /\ lock' = NoRun /\ Forget(p)
    /\ UNCHANGED world

\* Mutated form: the lock file is written over where one exists.
UnlockedOpen(p) ==
    /\ place[p] = "idle"
    /\ \E b \in 1 .. head, k \in Keys :
        asOf' = [asOf EXCEPT ![p] = b] /\ key' = [key EXCEPT ![p] = k]
    /\ lock' = p /\ place' = [place EXCEPT ![p] = "locked"]
    /\ UNCHANGED <<world, file, durable, mem, todo, claimants>>

\* LockGuard::acquire creates the file or the run ends at once.
Open(p) ==
    /\ place[p] = "idle" /\ lock = NoRun
    /\ \E b \in 1 .. head, k \in Keys :
        asOf' = [asOf EXCEPT ![p] = b] /\ key' = [key EXCEPT ![p] = k]
    /\ lock' = p /\ place' = [place EXCEPT ![p] = "locked"]
    /\ UNCHANGED <<world, file, durable, mem, todo, claimants>>

\* load_checkpoint; a missing file is an empty checkpoint.
Load(p) ==
    /\ place[p] = "locked" /\ Loadable(file, key[p])
    /\ mem' = [mem EXCEPT ![p] = IF file = NoFile THEN [t \in Tokens |-> NoToken] ELSE file.tokens]
    /\ todo' = [todo EXCEPT ![p] = {t \in Tokens : contributes_at(rates[t], asOf[p])}]
    /\ place' = [place EXCEPT ![p] = "indexing"]
    /\ UNCHANGED <<world, file, durable, lock, asOf, key, claimants>>

LoadFails(p) ==
    /\ place[p] = "locked" /\ ~Loadable(file, key[p])
    /\ Release(p) /\ UNCHANGED <<file, durable>>

\* Mutated form: the chain a checkpoint was made from is not compared with today's.
TrustingAdvanceable(p, s, t) ==
    /\ validate_stored_token(s, t)
    /\ asOf[p] >= s.cursor

\* The checks of open before a token is advanced, and advance_token's own.
Advanceable(p, s, t) ==
    /\ validate_stored_token(s, t)
    /\ s.cursor # 0 => s.hash = BlockHash(s.cursor)
    /\ asOf[p] >= s.cursor

Extended(p, s, t) ==
    LET end == advance_token(s.accounts, History(t), s.cursor, asOf[p], QueryRange, rates[t], s.decimals)
    IN  [ok |-> end.ok,
         token |-> IF asOf[p] = s.cursor THEN s
                   ELSE [s EXCEPT !.accounts = end.accounts, !.cursor = asOf[p],
                                  !.hash = BlockHash(asOf[p]), !.rates = rates[t]]]

IndexToken(p) ==
    /\ place[p] = "indexing"
    /\ \E t \in todo[p] :
        LET s    == IF mem[p][t] = NoToken THEN EmptyToken(t) ELSE mem[p][t]
            next == Extended(p, s, t)
        IN  IF Advanceable(p, s, t) /\ next.ok
            THEN /\ mem' = [mem EXCEPT ![p][t] = next.token]
                 /\ todo' = [todo EXCEPT ![p] = @ \ {t}]
                 /\ UNCHANGED <<world, file, durable, lock, place, asOf, key, claimants>>
            ELSE Release(p) /\ UNCHANGED <<file, durable>>

\* A run that has all its tokens is asked for the scores of its claimants.
Opened(p) ==
    /\ place[p] = "indexing" /\ todo[p] = {}
    /\ place' = [place EXCEPT ![p] = "ready"]
    /\ \E us \in SUBSET Accounts : claimants' = [claimants EXCEPT ![p] = us]
    /\ UNCHANGED <<world, file, durable, lock, asOf, key, mem, todo>>

Active(p) == {t \in Tokens : contributes_at(rates[t], asOf[p])}

\* gross_score_of, which compares the indexed balance with balanceOf.
gross_score_of(p, u) ==
    IF \E t \in Active(p) : mem[p][t].accounts[u].balance # balance_of_at(t, u, asOf[p])
    THEN Failed
    ELSE gross_score(SumOver([t \in Active(p) |->
            projected_numerator(mem[p][t].accounts[u], asOf[p], rates[t], Decimals[t])], Active(p)))

\* Only a settlement that could score all its claimants is committed.
\* save_checkpoint: the bytes are on disk and were read back before ...
WriteTemporary(p) ==
    /\ place[p] = "ready"
    /\ \A u \in claimants[p] : gross_score_of(p, u) # Failed
    /\ place' = [place EXCEPT ![p] = "written"]
    /\ UNCHANGED <<world, file, durable, lock, local>>

\* Mutated form: the temporary file is renamed without waiting for its bytes.
UnsyncedRename(p) ==
    /\ place[p] = "written"
    /\ file' = serialize_state(p, FALSE) /\ place' = [place EXCEPT ![p] = "renamed"]
    /\ UNCHANGED <<world, durable, lock, local>>

\* ... the temporary file takes the name of the checkpoint, ...
Rename(p) ==
    /\ place[p] = "written"
    /\ file' = serialize_state(p, TRUE) /\ place' = [place EXCEPT ![p] = "renamed"]
    /\ UNCHANGED <<world, durable, lock, local>>

\* ... and the directory is synced.  The run is over.
SyncDirectory(p) ==
    /\ place[p] = "renamed" /\ durable' = file
    /\ Release(p) /\ UNCHANGED file

\* An RPC or I/O error, or a score that cannot be computed.
Fails(p) ==
    /\ place[p] \notin {"idle", "dead"}
    /\ Release(p) /\ UNCHANGED <<file, durable>>

-----------------------------------------------------------------------------
(* Crashes. *)

\* The lock file of a dead process stays.
Die(p) ==
    /\ place[p] \notin {"idle", "dead"}
    /\ place' = [place EXCEPT ![p] = "dead"] /\ Forget(p)
    /\ UNCHANGED <<world, file, durable, lock>>

\* What is left of a file whose bytes may not have reached the disk.
Settled(f) == IF f = NoFile \/ f.synced THEN f ELSE [f EXCEPT !.whole = FALSE]

PowerLoss ==
    /\ Down # Runs
    /\ place' = [p \in Runs |-> IF place[p] = "idle" THEN "idle" ELSE "dead"]
    /\ \E f \in {file, durable} : file' = Settled(f) /\ durable' = Settled(f)
    /\ asOf' = [p \in Runs |-> 0] /\ key' = [p \in Runs |-> NoRun]
    /\ mem' = [p \in Runs |-> [t \in Tokens |-> NoToken]]
    /\ todo' = [p \in Runs |-> {}] /\ claimants' = [p \in Runs |-> {}]
    /\ UNCHANGED <<world, lock>>

\* The operator removes the lock of a process that is gone.
ClearLock(p) ==
    /\ place[p] = "dead"
    /\ place' = [place EXCEPT ![p] = "idle"]
    /\ lock' = IF lock = p THEN NoRun ELSE lock
    /\ UNCHANGED <<world, file, durable, local>>

RunStep(p) ==
    \/ Open(p) \/ Load(p) \/ LoadFails(p) \/ IndexToken(p) \/ Opened(p)
    \/ WriteTemporary(p) \/ Rename(p) \/ SyncDirectory(p) \/ Fails(p)

Next ==
    \/ Mine \/ Reorganise \/ PowerLoss
    \/ \E t \in Tokens : AddRate(t)
    \/ \E p \in Runs : RunStep(p) \/ Die(p) \/ ClearLock(p)

Spec == Init /\ [][Next]_vars

-----------------------------------------------------------------------------
(* Properties. *)

\* The token has changed this account's balance without a transfer.
Rebased(t, u, b) == RebaseAt[t] <= b /\ balance_of_at(t, u, RebaseAt[t]) # 0

Reference(u, b) ==
    gross_score(SumOver([t \in Tokens |->
        ReferenceNumerator(History(t), RebaseAt[t], u, rates[t], Decimals[t], b)], Tokens))

\* The score of every account, computed by a run that took over the work of
\* earlier runs, is the integral of its balances over the whole history, to
\* the last unit; a token that changes balances without transfers makes the
\* run fail instead.
IncrementalScoreIsExact ==
    \A p \in Runs : place[p] \in {"ready", "written", "renamed"} =>
        \A u \in Accounts :
            \/ gross_score_of(p, u) = Reference(u, asOf[p])
            \/ gross_score_of(p, u) = Failed /\ \E t \in Active(p) : Rebased(t, u, asOf[p])

\* What is at the checkpoint's path parses, and its accounts are what one
\* replay of the chain it was made from gives, whatever crashed on the way.
CheckpointSurvivesCrashes ==
    \A f \in {file, durable} \ {NoFile} :
        /\ Loadable(f, f.key)
        /\ \A t \in Tokens : f.tokens[t] # NoToken /\ f.tokens[t].hash = BlockHash(f.tokens[t].cursor) =>
            f.tokens[t].accounts =
                advance_token([u \in Accounts |-> NewAccount], History(t), 0, f.tokens[t].cursor,
                              MaxHead, f.tokens[t].rates, Decimals[t]).accounts

CursorOf(f, t) == IF f = NoFile \/ f.tokens[t] = NoToken THEN 0 ELSE f.tokens[t].cursor

\* A commit never replaces what a later run has already indexed further.
CursorNeverRegresses ==
    [][\A p \in Runs : Rename(p) => \A t \in Tokens : CursorOf(file', t) >= CursorOf(file, t)]_vars

\* The three ways to a score agree with its definition: the per-segment
\* integrals of chain.rs and the bulk replay of checkpoint.rs, which both
\* start from a block's balances, and so does the least balance held.
SourcesAgree ==
    Down = Runs /\ lock = NoRun =>
        \A t \in Tokens, u \in Accounts, b \in 0 .. head :
            LET ts  == History(t)
                r   == RebaseAt[t]
                ref == ReferenceNumerator(ts, r, u, rates[t], Decimals[t], b)
            IN  /\ RawNumerator(ts, r, u, rates[t], Decimals[t], b) \in
                        {ref} \cup IF Rebased(t, u, b) THEN {Failed} ELSE {}
                /\ BulkNumerator(ts, r, Accounts, u, rates[t], Decimals[t], b, QueryRange) \in
                        {ref} \cup IF \E w \in Accounts : Rebased(t, w, b) THEN {Failed} ELSE {}
                /\ \A lo \in 0 .. b :
                        min_balance_over(ts, r, u, lo, b) \in
                            IF r \in lo + 1 .. b THEN {Failed, ReferenceMinimum(ts, MaxHead + 1, u, lo, b)}
                            ELSE {ReferenceMinimum(ts, r, u, lo, b)}
=============================================================================
