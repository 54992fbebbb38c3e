------------------------------ MODULE MCMyPeer ------------------------------
(* Instances of MyPeer: what the games put in, and how far each peer gets.   *)
EXTENDS MyPeer, TLC

CONSTANTS k1, k2, v1, v2

\* The first peer changes a button and uses a second one; the other one keeps pressing.
Plays == 1 :> {(k1 :> v1), (k1 :> v2 @@ k2 :> v1)} @@ 2 :> {(k1 :> v1)}

\* A button that is always pressed.
Pressed == [p \in Peer |-> {(k1 :> v1)}]

Far == 1 :> 3 @@ 2 :> 1
Even == 1 :> 1 @@ 2 :> 1

\* The hypothesis of MapsStayAlive.
ASSUME InputsAssumption == GamesHaveInputs
=============================================================================
