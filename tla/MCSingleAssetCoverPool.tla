---------------------- MODULE MCSingleAssetCoverPool ----------------------
(* Small instances of SingleAssetCoverPool for TLC. *)
EXTENDS SingleAssetCoverPool

CONSTANTS u1, u2, asset, usd8

Timing(cooldown, interval) ==
    [unstakeCooldown |-> cooldown, exitBatchInterval |-> interval]

TwoTimings == {Timing(2, 1), Timing(1, 2)}

============================================================================
