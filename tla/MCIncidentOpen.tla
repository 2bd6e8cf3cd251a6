--------------------------- MODULE MCIncidentOpen ---------------------------
(* A small instance of IncidentOpen for TLC. *)
EXTENDS IncidentOpen, TLC

CONSTANTS a, b, l1, l2

\* A drop that deepens, so that policies date it differently, and one that
\* only the second policy sees.
Shapes   == {<<4, 4, 4, 3, 1, 1, 1>>, <<4, 1, 4, 4, 1, 4, 1>>}
DropOf   == [p \in {a, b} |-> IF p = a THEN 5 ELSE 2]
Symm     == Permutations({l1, l2})
=============================================================================
