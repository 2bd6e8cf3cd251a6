-------------------------- MODULE SettlementKernel --------------------------
(***************************************************************************)
(* The settlement kernel, src/offchain-rust/src/lib.rs, as operators: the  *)
(* commitment to the claim set, the replay of its events, the allocation   *)
(* and the Merkle tree of the rows.                                        *)
(*                                                                         *)
(* Hashes are symbolic and free of collisions: a hash is what was hashed.  *)
(* There is one cover pool, so a row pays one amount.                      *)
(***************************************************************************)
EXTENDS Integers, Sequences, FiniteSets, SequencesExt, FiniteSetsExt

CONSTANTS
    Bps,             \* the basis-point denominator
    Invalid,         \* the result of an operation that fails
    HashRank         \* the order of the leaf hashes, by claim

-----------------------------------------------------------------------------
(* The claim set. *)

\* What the rolling hash binds of an event: a cancellation only its claim.
Encoded(e) == IF e.kind = "register" THEN <<e.claim, e.user, e.amount, e.score>> ELSE <<e.claim>>

claim_set_hash(events) == [i \in DOMAIN events |-> Encoded(events[i])]

Before(e, f) == e.block < f.block \/ (e.block = f.block /\ e.index < f.index)

Of(events, kind) == SelectSeq(events, LAMBDA e : e.kind = kind)

ClaimsOf(events) == [i \in DOMAIN events |-> events[i].claim]

\* The live claims in the order of their registration, or an error.
replay_claim_set(events) ==
    LET registered == ClaimsOf(Of(events, "register"))
        cancelled  == ClaimsOf(Of(events, "cancel"))
    IN  IF /\ \A i \in 1 .. Len(events) - 1 : Before(events[i], events[i + 1])   \* EventOrder
           /\ IsInjective(registered) /\ IsInjective(cancelled)
           /\ \A j \in DOMAIN events : events[j].kind = "cancel" =>              \* UnknownCancellation
                \E i \in 1 .. j - 1 : events[i].kind = "register" /\ events[i].claim = events[j].claim
        THEN [hash |-> claim_set_hash(events),
              live |-> SelectSeq(registered, LAMBDA c : c \notin ToSet(cancelled))]
        ELSE Invalid

-----------------------------------------------------------------------------
(* The allocation. *)

Lesser(a, b) == IF a < b THEN a ELSE b

Total(f) == FoldLeft(LAMBDA s, x : s + x, 0, f)

\* What a claim may spend and how much of it counts.
ScoreRow(c) ==
    LET eligible == Lesser(c.held, c.amount)
        unspent  == IF c.gross > c.spent THEN c.gross - c.spent ELSE 0
    IN  [claim |-> c.claim, user |-> c.user, eligible |-> eligible,
         score |-> IF eligible = 0 THEN 0 ELSE Lesser(c.score, unspent)]

Gross(amount, fee) == (amount * Bps) \div (Bps - fee)

\* The market m: coverage, cap and fee, the price and the pool's balance.
allocate(claims, m) ==
    LET rows    == [i \in DOMAIN claims |-> ScoreRow(claims[i])]
        scores  == Total([i \in DOMAIN rows |-> rows[i].score])
        payable == (((m.balance * m.cap) \div Bps) * (Bps - m.fee)) \div Bps
        share(r) == IF scores = 0 THEN 0
                    ELSE Lesser((payable * r.score) \div scores,
                                (r.eligible * m.price * m.coverage) \div Bps)
    IN  [i \in DOMAIN rows |->
            [claim |-> rows[i].claim, user |-> rows[i].user, eligible |-> rows[i].eligible,
             score |-> rows[i].score, amount |-> IF m.balance = 0 THEN 0 ELSE share(rows[i])]]

PoolPayout(rows, fee) == Total([i \in DOMAIN rows |-> Gross(rows[i].amount, fee)])

-----------------------------------------------------------------------------
(* The Merkle tree, an array of 2n - 1 hashes with the root at 0. *)

LeafHash(row) == [leaf |-> row]

\* standard_node_hash sorts its two arguments, so it hashes a set.
NodeHash(a, b) == [node |-> {a, b}]

\* Mutated form: the sibling is always taken to the left.
LeftSibling(i) == i - 1

sibling_index(i) == IF i % 2 = 0 THEN i - 1 ELSE i + 1

Sorted(rows) == SortSeq(rows, LAMBDA r, s : HashRank[r.claim] < HashRank[s.claim])

\* Leaves are stored from the end of the array.
TreeOf(rows) ==
    LET n      == Len(rows)
        sorted == Sorted(rows)
        tree[i \in 0 .. 2 * n - 2] ==
            IF i >= n - 1 THEN LeafHash(sorted[2 * n - 1 - i])
            ELSE NodeHash(tree[2 * i + 1], tree[2 * i + 2])
    IN  tree

NoRoot == [none |-> TRUE]

RootOf(rows) == IF rows = <<>> THEN NoRoot ELSE TreeOf(rows)[0]

\* From a row's leaf to the root, every node's sibling.
ProofOf(rows, row) ==
    LET n    == Len(rows)
        tree == TreeOf(rows)
        at   == CHOOSE i \in n - 1 .. 2 * n - 2 : tree[i] = LeafHash(row)
        climb[i \in 0 .. 2 * n - 2] ==
            IF i = 0 THEN <<>> ELSE <<tree[sibling_index(i)]>> \o climb[(i - 1) \div 2]
    IN  climb[at]

\* What the contract does with a proof (OpenZeppelin's MerkleProof).
Proves(proof, row, root) == FoldLeft(NodeHash, LeafHash(row), proof) = root
=============================================================================
