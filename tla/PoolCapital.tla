----------------------------- MODULE PoolCapital -----------------------------
(***************************************************************************)
(* What DefiInsurance relies on of a cover pool: while an incident is       *)
(* active, its capital goes down by claims paid and changes in no other    *)
(* way, and opening an incident can only release capital, never add to it. *)
(***************************************************************************)
EXTENDS Integers

VARIABLES assets, frozen

Init == assets = 0 /\ frozen = FALSE

Flow   == ~frozen /\ assets' \in Nat /\ UNCHANGED frozen
Freeze == ~frozen /\ frozen' = TRUE /\ assets' \in 0 .. assets
Pay    == frozen /\ assets' \in 0 .. assets /\ UNCHANGED frozen
Thaw   == frozen /\ frozen' = FALSE /\ UNCHANGED assets

Next == Flow \/ Freeze \/ Pay \/ Thaw

Spec == Init /\ [][Next]_<<assets, frozen>>
=============================================================================
