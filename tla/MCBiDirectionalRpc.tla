------------------------- MODULE MCBiDirectionalRpc -------------------------
(* Instances of BiDirectionalRpc for TLC.                                   *)
EXTENDS BiDirectionalRpc, TLC

\* How many requests each end issues.
Budget20 == (Left :> 2 @@ Right :> 0)
Budget30 == (Left :> 3 @@ Right :> 0)
Budget21 == (Left :> 2 @@ Right :> 1)
Budget11 == (Left :> 1 @@ Right :> 1)

\* Uuids are only compared for equality.
UuidSymmetry == Permutations(Uuid)
=============================================================================
