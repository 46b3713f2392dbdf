------------------------------- MODULE MCFleet -------------------------------
(* Three services of the registry for TLC: the base, and two of one layer   *)
(* that need sidecars (dep_map.rs).                                        *)
EXTENDS Fleet, TLC

CONSTANTS mlx, identity, cowork, postgres, redis

Layers == mlx :> 0 @@ identity :> 2 @@ cowork :> 2
Tiers == mlx :> "T0" @@ identity :> "T0" @@ cowork :> "T1"
Deps == mlx :> {} @@ identity :> {postgres} @@ cowork :> {postgres, redis}
=============================================================================
