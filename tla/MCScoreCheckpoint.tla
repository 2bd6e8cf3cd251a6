-------------------------- MODULE MCScoreCheckpoint --------------------------
(* A small instance of ScoreCheckpoint for TLC. *)
EXTENDS ScoreCheckpoint

CONSTANTS p1, p2, t1, t2, u, v, k1, k2, zero

mint(b, x, n)    == [block |-> b, from |-> zero, to |-> x, value |-> n]
send(b, x, y, n) == [block |-> b, from |-> x, to |-> y, value |-> n]

\* Two transfers in one block, a transfer to oneself, one at a slice's edge
\* and one on the block where the fork begins.
Busy  == <<mint(1, u, 3), send(1, u, v, 1), send(2, u, u, 2), send(3, u, v, 1)>>
\* On the first chain balances leave and come back.
Swing == <<mint(1, u, 3), mint(2, v, 2), send(3, u, v, 3), send(4, v, u, 3), send(4, u, zero, 1)>>
Quiet == <<mint(2, v, 1)>>

SomeHistories == {[t \in Tokens |-> IF t = t1 THEN h ELSE Quiet] : h \in {Busy, Swing}}
\* The second token rebases, has surplus decimals and starts later.
Rebases  == [t \in Tokens |-> IF t = t1 THEN 99 ELSE 3]
Surplus  == [t \in Tokens |-> IF t = t1 THEN 2 ELSE 0]
Rates1   == [t \in Tokens |-> IF t = t1 THEN <<[from |-> 1, rate |-> 3]>>
                              ELSE <<[from |-> 0, rate |-> 0], [from |-> 2, rate |-> 1]>>]
=============================================================================
