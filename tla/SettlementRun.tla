---------------------------- MODULE SettlementRun ----------------------------
(***************************************************************************)
(* A settlement run, src/offchain-rust/src/engine.rs with the reads of     *)
(* chain.rs: the engine rebuilds an incident from a provider, call by      *)
(* call, while blocks are mined and finalized and the provider may change  *)
(* to another chain; the result is signed, and settleIncident takes it.    *)
(* And its verification before publication, job-api's                      *)
(* settlement_verifier.rs, which trusts the chain and not the uploader.    *)
(*                                                                         *)
(* A block is the sequence of its transactions and its hash is everything  *)
(* up to it.  One incident is followed; block OpenBlock opened it.         *)
(***************************************************************************)
EXTENDS SettlementKernel, TLC

CONSTANTS
    Claims, ClaimUser,       \* claim numbers 1 .. n and who files them
    Amount, Score,           \* escrow and score to spend of a claim
    Held, Earned,            \* of a user at the reference block
    Keys,                    \* TEE signer keys
    Stranger,                \* a key nobody trusts
    Time,                    \* block timestamps
    ReferenceBlock, OpenBlock, PhaseWindow, Staleness,
    Policies, Prices,        \* payout caps and prices, sequences; the first are initial
    Balance, Fee,            \* of the pool, and the protocol's share
    ForkBlocks,              \* the provider may change to a chain that differs after one of these
    MaxBlock, MaxSigned, MaxPromoted,  \* bounds
    Limit                    \* bound on the transactions of each kind

ASSUME RunAssumption ==
    /\ OpenBlock \in 1 .. MaxBlock /\ ReferenceBlock \in 1 .. OpenBlock
    /\ \A n \in 1 .. MaxBlock - 1 : Time[n] < Time[n + 1]
    /\ ForkBlocks \subseteq OpenBlock .. MaxBlock

VARIABLES
    chain,       \* the provider's chain
    finalized,   \* the number of its finalized block
    switched,    \* has the provider changed chains?
    run,         \* the engine's run in progress
    signed,      \* artifacts of finished runs, with their signature
    check,       \* a verification in progress
    promoted     \* artifacts a verification accepted, with the head it read

vars == <<chain, finalized, switched, run, signed, check, promoted>>

-----------------------------------------------------------------------------
(* The contract, as far as the engine reads it. *)

Deadline == Time[OpenBlock] + PhaseWindow

Opened == [log |-> <<>>, resolved |-> 0, root |-> NoRoot, voided |-> FALSE, deadline |-> Deadline,
           key |-> CHOOSE k \in Keys : TRUE, cap |-> Policies[1], price |-> Prices[1],
           updated |-> Time[OpenBlock], settled |-> <<>>]

EventOf(tx, n, i) ==
    [kind |-> tx.kind, claim |-> tx.claim, user |-> ClaimUser[tx.claim],
     amount |-> Amount[tx.claim], score |-> Score[tx.claim], block |-> n, index |-> i]

\* A beta incident waits for corrections after its root was committed.
Committed(s, root, beta, n) ==
    [s EXCEPT !.root = root, !.deadline = IF beta THEN Time[n] + PhaseWindow ELSE Time[n]]

Effect(s, tx, n, i) ==
    CASE tx.kind \in {"register", "cancel"} -> [s EXCEPT !.log = Append(@, EventOf(tx, n, i))]
      [] tx.kind = "market"  -> [s EXCEPT !.cap = tx.cap, !.price = tx.price, !.updated = Time[n]]
      [] tx.kind = "rotate"  -> [s EXCEPT !.key = tx.key]
      [] tx.kind = "settle"  -> [Committed(s, tx.root, tx.beta, n)
                                    EXCEPT !.settled = Append(@, [block |-> n, tx |-> tx])]
      [] tx.kind = "correct" -> Committed(s, tx.root, TRUE, n)
      [] tx.kind = "void"    -> [s EXCEPT !.root = NoRoot, !.deadline = 0, !.voided = TRUE]
      [] tx.kind = "resolve" -> [s EXCEPT !.resolved = @ + 1]

\* The contract's state after block n of a chain.
StateOf(blocks, n) ==
    LET after[m \in OpenBlock .. MaxBlock] ==
            IF m = OpenBlock THEN Opened
            ELSE LET apply[i \in 0 .. Len(blocks[m])] ==
                         IF i = 0 THEN after[m - 1] ELSE Effect(apply[i - 1], blocks[m][i], m, i)
                 IN  apply[Len(blocks[m])]
    IN  after[n]

Registered(s) == ToSet(ClaimsOf(Of(s.log, "register")))
Cancelled(s)  == ToSet(ClaimsOf(Of(s.log, "cancel")))
Unresolved(s) == Cardinality(Registered(s) \ Cancelled(s)) - s.resolved

Latest    == Len(chain)
At(n)     == StateOf(chain, n)
HashAt(n) == SubSeq(chain, 1, n)

-----------------------------------------------------------------------------
(* Artifacts. *)

\* The typed data that is signed.
settlement_digest(a) == [root |-> a.root, unresolved |-> a.unresolved, payout |-> a.payout,
                         claimSet |-> a.claimSet]

Signed(a, k) == [artifact |-> a, key |-> k, digest |-> settlement_digest(a)]

\* A signature over something else recovers to a key nobody knows.
Signer(x) == IF x.digest = settlement_digest(x.artifact) THEN x.key ELSE Stranger

\* The calldata of settleIncident: the counts and the claim set are not in it.
CallOf(x) == [root |-> x.artifact.root, payout |-> x.artifact.payout,
              key |-> x.key, digest |-> x.digest]

\* settleIncident accepts what the current key signed of the current claim set.
Accepts(s, x, t) ==
    /\ s.root = NoRoot /\ ~s.voided /\ x.artifact.root # NoRoot
    /\ s.deadline < t /\ t <= s.deadline + PhaseWindow
    /\ x.key = s.key
    /\ x.digest = [root |-> x.artifact.root, unresolved |-> Unresolved(s),
                   payout |-> x.artifact.payout, claimSet |-> claim_set_hash(s.log)]

NoCall == [none |-> TRUE]

\* Frames of a transaction: a direct call; a call from a wrapper; and one from
\* a wrapper that first tried another signature, under a frame that reverted.
Frame(parent, failed, x) == [parent |-> parent, failed |-> failed, call |-> x]
Traces(x) ==
    {<<Frame(0, FALSE, CallOf(x))>>, <<Frame(0, FALSE, NoCall), Frame(1, FALSE, CallOf(x))>>}
    \cup {<<Frame(0, FALSE, NoCall), Frame(1, TRUE, NoCall), Frame(2, FALSE, CallOf(y)),
            Frame(1, FALSE, CallOf(x))>> : y \in signed \ {x}}

-----------------------------------------------------------------------------
(* The chain grows. *)

\* The transactions the contracts accept in block n.
Txs(s, n) ==
    LET t == Time[n]
        live == Registered(s) \ Cancelled(s)
    IN  {[kind |-> "register", claim |-> c] : c \in
            {d \in Claims : /\ t <= Deadline /\ d = Cardinality(Registered(s)) + 1
                            /\ \A e \in live : ClaimUser[e] # ClaimUser[d]}}
        \cup {[kind |-> "cancel", claim |-> c] : c \in {d \in live : t <= Deadline}}
        \cup {[kind |-> "market", cap |-> c, price |-> v] :
                c \in ToSet(Policies) \ {s.cap}, v \in ToSet(Prices) \ {s.price}}
        \cup {[kind |-> "rotate", key |-> k] : k \in Keys \ {s.key}}
        \cup UNION {{[kind |-> "settle", root |-> x.artifact.root, beta |-> b, trace |-> c] :
                        b \in BOOLEAN, c \in Traces(x)} : x \in {y \in signed : Accepts(s, y, t)}}
        \cup {[kind |-> "correct", root |-> r] : r \in
                {q \in {[corrected |-> TRUE]} : s.root # NoRoot /\ t <= s.deadline}}
        \cup {[kind |-> "void"] : q \in {r \in {1} : s.root # NoRoot /\ t <= s.deadline}}
        \cup {[kind |-> "resolve"] : q \in
                {r \in {1} : s.root # NoRoot /\ t > s.deadline /\ Unresolved(s) > 0}}

Count(kind) == Len(SelectSeq(FlattenSeq(chain), LAMBDA tx : tx.kind = kind))

Allowed(s, n) == {tx \in Txs(s, n) : Count(tx.kind) < Limit[tx.kind]}

Mine ==
    LET n == Latest + 1
        s == At(Latest)
    IN  /\ n <= MaxBlock
        /\ \/ chain' = Append(chain, <<>>)
           \/ \E x \in Allowed(s, n) : chain' = Append(chain, <<x>>)
           \/ \E x \in Allowed(s, n) : \E y \in Allowed(Effect(s, x, n, 1), n) :
                /\ {x.kind, y.kind} \subseteq {"register", "cancel"}
                /\ chain' = Append(chain, <<x, y>>)
        /\ UNCHANGED <<finalized, switched, run, signed, check, promoted>>

Finalize ==
    /\ finalized < Latest /\ finalized' = Latest
    /\ UNCHANGED <<chain, switched, run, signed, check, promoted>>

\* Once, the provider changes to a chain on which later blocks are empty.
Switch ==
    /\ ~switched /\ switched' = TRUE
    /\ \E b \in ForkBlocks :
        /\ b < Latest
        /\ chain' = [n \in 1 .. Latest |-> IF n <= b THEN chain[n] ELSE <<>>]
    /\ UNCHANGED <<finalized, run, signed, check, promoted>>

-----------------------------------------------------------------------------
(* Reading the chain, chain.rs. *)

\* The last block that is not after a time, by bisection.
block_at_or_before_timestamp(t, upper) ==
    LET search[w \in (1 .. upper) \X (0 .. upper)] ==
            LET middle == w[1] + (w[2] - w[1] + 1) \div 2
            IN  IF w[1] >= w[2] THEN w[1]
                ELSE IF Time[middle] <= t THEN search[<<middle, w[2]>>]
                ELSE search[<<w[1], middle - 1>>]
    IN  search[<<1, upper>>]

finalized_settlement_anchors ==
    LET window == block_at_or_before_timestamp(Deadline, finalized)
    IN  [window |-> window, head |-> finalized,
         windowHash |-> HashAt(window), headHash |-> HashAt(finalized)]

\* Every input is read at a block of its own: the policy where the incident
\* opened, the price at the end of the claim window.
Inputs(window) ==
    [cap |-> At(OpenBlock).cap, price |-> At(window).price, fee |-> Fee, coverage |-> Bps,
     balance |-> Balance]

\* price_usd_1e18 refuses a round that is too old at the pinned block.
PriceUsable(window) == Time[window] - At(window).updated <= Staleness

\* The logs of read_input_events, sorted: all of them, or without or with a
\* repeated one, if the provider errs.
Delivered(log) ==
    {log} \cup {RemoveAt(log, i) : i \in DOMAIN log}
          \cup {InsertAt(log, i, log[i]) : i \in DOMAIN log}

-----------------------------------------------------------------------------
(* A run of the engine. *)

Idle == [pc |-> "idle"]

Init ==
    /\ chain = [n \in 1 .. OpenBlock |-> <<>>] /\ finalized = OpenBlock /\ switched = FALSE
    /\ run = Idle /\ signed = {} /\ check = Idle /\ promoted = {}

notRun == <<chain, finalized, switched, check, promoted>>

Fails == run' = Idle /\ UNCHANGED signed

\* The incident is read at the latest block.  A run and a verification share
\* nothing but the chain and the artifact, so they take turns.
Begin ==
    /\ run = Idle /\ check = Idle /\ Cardinality(signed) < MaxSigned
    /\ run' = [pc |-> "begun", root |-> At(Latest).root]
    /\ UNCHANGED <<notRun, signed>>

\* The anchors are finalized, and an unsettled incident is in its settlement
\* phase.
Anchor ==
    /\ run.pc = "begun"
    /\ LET t == Time[finalized] IN
       IF \/ t < Deadline
          \/ run.root = NoRoot /\ (t <= Deadline \/ t > Deadline + PhaseWindow)
       THEN Fails
       ELSE run' = [pc |-> "anchored"] @@ finalized_settlement_anchors /\ UNCHANGED signed
    /\ UNCHANGED notRun

ReadEvents ==
    /\ run.pc = "anchored"
    /\ \E events \in Delivered(At(run.window).log) :
        run' = [run EXCEPT !.pc = "events"] @@ [events |-> events]
    /\ UNCHANGED <<notRun, signed>>

\* Mutated form: the events are compared with nothing.
Trusting(replay, end) == replay # Invalid

\* The replay must give the contract's count and commitment at the window's end.
Replays(replay, end) ==
    replay # Invalid =>
        /\ Len(replay.live) = Unresolved(end)
        /\ replay.hash = claim_set_hash(end.log)

ReadWindow ==
    /\ run.pc = "events"
    /\ LET end    == At(run.window)
           replay == replay_claim_set(run.events)
       IN  IF replay = Invalid \/ ~Replays(replay, end) \/ end.deadline # Deadline THEN Fails
           ELSE /\ run' = [run EXCEPT !.pc = "window"]
                            @@ [live |-> replay.live, unresolved |-> Unresolved(end),
                                claimSet |-> replay.hash]
                /\ UNCHANGED signed
    /\ UNCHANGED notRun

ClaimInput(c) ==
    [claim |-> c, user |-> ClaimUser[c], amount |-> Amount[c], score |-> Score[c],
     held |-> Held[ClaimUser[c]], gross |-> Earned[ClaimUser[c]], spent |-> 0]

\* allocate_with_events: the rows follow the order of registration.
ReadInputs ==
    /\ run.pc = "window"
    /\ IF ~PriceUsable(run.window) THEN Fails
       ELSE LET rows == allocate([i \in DOMAIN run.live |-> ClaimInput(run.live[i])], Inputs(run.window))
            IN  /\ run' = [run EXCEPT !.pc = "computed"]
                          @@ [artifact |-> [rows |-> rows, root |-> RootOf(rows),
                                            unresolved |-> run.unresolved,
                                            payout |-> PoolPayout(rows, Fee),
                                            claimSet |-> run.claimSet, window |-> run.windowHash]]
                /\ UNCHANGED signed
    /\ UNCHANGED notRun

ReadLatest ==
    /\ run.pc = "computed"
    /\ run' = [run EXCEPT !.pc = "latest"] @@ [standing |-> At(Latest).root]
    /\ UNCHANGED <<notRun, signed>>

assert_anchors_unchanged ==
    HashAt(run.window) = run.windowHash /\ HashAt(run.head) = run.headHash

\* A standing root must be the one computed; the enclave signs the result.
Confirm ==
    /\ run.pc = "latest"
    /\ IF ~assert_anchors_unchanged \/ run.standing \notin {NoRoot, run.artifact.root} THEN Fails
       ELSE /\ run' = Idle
            /\ \E k \in Keys : signed' = signed \cup {Signed(run.artifact, k)}
    /\ UNCHANGED notRun

-----------------------------------------------------------------------------
(* The verification of an upload, settlement_verifier.rs. *)

notCheck == <<chain, finalized, switched, run, signed>>

\* What may be uploaded: an artifact, or one with a row, the payout or the
\* count changed, recomputed or not, under the old signature.
Uploads(x) ==
    LET a == x.artifact
        short == SubSeq(a.rows, 1, Len(a.rows) - 1)
    IN  {x, [x EXCEPT !.artifact.payout = @ + 1], [x EXCEPT !.artifact.unresolved = @ + 1]}
        \cup (IF a.rows = <<>> THEN {}
              ELSE {[x EXCEPT !.artifact.rows = short],
                    [x EXCEPT !.artifact.rows = short, !.artifact.root = RootOf(short),
                              !.artifact.unresolved = @ - 1,
                              !.artifact.payout = PoolPayout(short, Fee)]})

\* Root, totals and counts follow from the rows.
verify_candidate(x) ==
    LET a == x.artifact IN
    /\ a.root # NoRoot /\ a.rows # <<>> /\ IsInjective([i \in DOMAIN a.rows |-> a.rows[i].claim])
    /\ a.unresolved = Len(a.rows) /\ a.root = RootOf(a.rows) /\ a.payout = PoolPayout(a.rows, Fee)

Refuse == check' = Idle /\ UNCHANGED promoted

VerifyCandidate ==
    /\ check = Idle /\ run = Idle /\ Cardinality(promoted) < MaxPromoted
    /\ \E x \in signed : \E u \in Uploads(x) :
        check' = IF verify_candidate(u) THEN [pc |-> "candidate", upload |-> u] ELSE Idle
    /\ UNCHANGED <<notCheck, promoted>>

\* One finalized head, and the incident and the signer at it.
ReadHead ==
    /\ check.pc = "candidate"
    /\ LET s == At(finalized) IN
       IF Time[finalized] <= Deadline THEN Refuse
       ELSE /\ check' = [check EXCEPT !.pc = "head"]
                        @@ [head |-> finalized, headHash |-> HashAt(finalized), state |-> s,
                            window |-> block_at_or_before_timestamp(Deadline, finalized)]
            /\ UNCHANGED promoted
    /\ UNCHANGED notCheck

\* An unsettled incident needs the current signer; a settled one its root,
\* and the current signer or the exact call that was executed.
ReadSnapshot ==
    /\ check.pc = "head"
    /\ LET a == check.upload.artifact
           s == check.state
           snapshot == At(check.window)
           current == Signer(check.upload) = s.key
           standing == IF s.root = NoRoot
                       THEN /\ current /\ ~s.voided /\ s.deadline = Deadline
                            /\ Unresolved(s) = a.unresolved /\ claim_set_hash(s.log) = a.claimSet
                       ELSE s.root = a.root
       IN  IF Unresolved(snapshot) # a.unresolved \/ claim_set_hash(snapshot.log) # a.claimSet
              \/ ~standing
           THEN Refuse
           ELSE /\ check' = [check EXCEPT !.pc = IF current THEN "authorized" ELSE "search"]
                            @@ [windowHash |-> HashAt(check.window)]
                /\ UNCHANGED promoted
    /\ UNCHANGED notCheck

\* Mutated form: every frame of a trace counts.
AnyFrame(trace, i) == TRUE

\* A frame counts when it and all frames above it succeeded.
Executed(trace, i) ==
    LET ok[j \in DOMAIN trace] ==
            ~trace[j].failed /\ (trace[j].parent = 0 \/ ok[trace[j].parent])
    IN  ok[i]

traced_settlement(trace, x) ==
    \E i \in DOMAIN trace : trace[i].call = CallOf(x) /\ Executed(trace, i)

\* Logs of IncidentSettled from the window's end to the last commit.
accepted_onchain ==
    /\ check.pc = "search"
    /\ LET s  == check.state
           to == IF Deadline < s.deadline /\ s.deadline < Time[check.head]
                 THEN block_at_or_before_timestamp(s.deadline, check.head) ELSE check.head
           logs == {l \in ToSet(At(to).settled) :
                        l.block >= check.window /\ l.tx.root = check.upload.artifact.root}
       IN  IF \E l \in logs : traced_settlement(l.tx.trace, check.upload)
           THEN check' = [check EXCEPT !.pc = "authorized"] /\ UNCHANGED promoted
           ELSE Refuse
    /\ UNCHANGED notCheck

Promote ==
    /\ check.pc = "authorized"
    /\ IF HashAt(check.head) # check.headHash \/ HashAt(check.window) # check.windowHash THEN Refuse
       ELSE /\ check' = Idle
            /\ promoted' = promoted \cup {[upload |-> check.upload, head |-> check.headHash]}
    /\ UNCHANGED notCheck

\* A transport error, a used up budget of calls or bytes, or a missing trace:
\* the verification is tried again later.
Unavailable ==
    /\ check # Idle /\ Refuse
    /\ UNCHANGED notCheck

Next ==
    \/ Mine \/ Finalize \/ Switch
    \/ Begin \/ Anchor \/ ReadEvents \/ ReadWindow \/ ReadInputs \/ ReadLatest \/ Confirm
    \/ VerifyCandidate \/ ReadHead \/ ReadSnapshot \/ accepted_onchain \/ Promote \/ Unavailable

Spec == Init /\ [][Next]_vars

-----------------------------------------------------------------------------
(* Properties. *)

\* Blocks of a chain that end with a given one.
EndOf(hash) == StateOf(hash, Len(hash))

\* Every signed settlement is the one of the chain its window ends on,
\* whatever the provider dropped or repeated and whenever it changed chains:
\* exactly the live claims in their order, priced at the blocks the protocol
\* fixes, so that any two runs for one window agree.
SettlesTheChain ==
    \A x \in signed :
        LET a    == x.artifact
            end  == EndOf(a.window)
            live == SelectSeq(ClaimsOf(Of(end.log, "register")), LAMBDA c : c \notin Cancelled(end))
            m    == [cap |-> Policies[1], price |-> end.price, fee |-> Fee, coverage |-> Bps,
                     balance |-> Balance]
        IN  /\ a.rows = allocate([i \in DOMAIN live |-> ClaimInput(live[i])], m)
            /\ a.claimSet = claim_set_hash(end.log)
            /\ Time[Len(a.window)] <= Deadline /\ Deadline < Time[Len(a.window) + 1]

\* Every row of a signed settlement can be proved to the contract, and no
\* proof serves another row.
RowsProvable ==
    \A x \in signed : \A r, s \in ToSet(x.artifact.rows) :
        Proves(ProofOf(x.artifact.rows, r), s, x.artifact.root) <=> r = s

\* What is promoted is a settlement the engine signed, its root stands or is
\* still to be settled on the chain of the head that was read, and its
\* signature is of the current key or was executed by the contract itself.
PromotedIsAuthorized ==
    \A p \in promoted :
        LET s == EndOf(p.head)
            u == p.upload
        IN  /\ u \in signed
            /\ s.root \in {NoRoot, u.artifact.root} /\ ~s.voided
            /\ u.key = s.key
               \/ \E l \in ToSet(s.settled) : l.tx.trace[Len(l.tx.trace)].call = CallOf(u)
=============================================================================
