----------------------------- MODULE MCScoreApi -----------------------------
(* A small instance of ScoreApi for TLC. *)
EXTENDS ScoreApi

CONSTANTS p1, p2, t1, t2, u1, zero

mint(b, x, n) == [block |-> b, from |-> zero, to |-> x, value |-> n]
burn(b, x, n) == [block |-> b, from |-> x, to |-> zero, value |-> n]

TwoTokens  == <<t1, t2>>
Both       == {t1, t2}
Moves      == [t \in Both |-> IF t = t1 THEN <<mint(2, u1, 3), burn(6, u1, 2), mint(8, u1, 2)>>
                              ELSE <<mint(3, u1, 1), burn(7, u1, 1)>>]
RateSteps  == [t \in Both |-> IF t = t1 THEN <<[from |-> 1, rate |-> 3], [from |-> 7, rate |-> 1]>>
                              ELSE <<[from |-> 5, rate |-> 1]>>]
Digits2    == [t \in Both |-> IF t = t1 THEN 2 ELSE 0]
OneSpent   == [x \in Accounts |-> 2]
Skew       == [p \in Lambdas |-> IF p = p1 THEN 0 ELSE 1]
=============================================================================
