---------------------------- MODULE MCJobService ----------------------------
(* Small instances of JobService for TLC. *)
EXTENDS JobService, TLC

CONSTANTS w1, w2, l1, l2

\* The second invocation's clock is further behind than the launch deadline
\* and the fence together allow.
FarBehind == [p \in Lambdas |-> IF p = l2 THEN 3 ELSE 0]
InSync    == [p \in Lambdas |-> 0]
SymmWorks == Permutations(Works)
SymmBoth  == Permutations(Works) \cup Permutations(Lambdas)
=============================================================================
