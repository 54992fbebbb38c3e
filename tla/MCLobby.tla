------------------------------ MODULE MCLobby ------------------------------
(* An instance of Lobby.                                                     *)
EXTENDS Lobby, TLC

CONSTANTS a, b, c, d, x

\* Two peers are behind routers that give them the same private address.
PrivateIps == 1 :> {x, a} @@ 2 :> {x, b} @@ 3 :> {c} @@ 4 :> {x, d}

\* The hypothesis of Lobby_proofs.
ASSUME JoinAssumption == NobodyElseJoins
=============================================================================
