--------------------------- MODULE MCSettlementRun ---------------------------
(* A small instance of SettlementRun for TLC. *)
EXTENDS SettlementRun

CONSTANTS k1, k2, u1, u2, u3

Users3    == <<u1, u2, u3>>
Amounts3  == <<2, 3, 1>>
Scores3   == <<1, 2, 1>>
HeldOf    == [x \in {u1, u2, u3} |-> IF x = u1 THEN 1 ELSE 3]
EarnedOf  == [x \in {u1, u2, u3} |-> 2]
Ranks     == <<2, 3, 1>>
Stamps    == <<1, 2, 4, 5, 7, 8, 10>>
Caps2     == <<5, 10>>
Prices2   == <<2, 1>>
Limits    == [k \in {"register", "cancel", "market", "rotate", "settle", "correct", "void", "resolve"} |->
                IF k = "register" THEN 3 ELSE 1]
=============================================================================
