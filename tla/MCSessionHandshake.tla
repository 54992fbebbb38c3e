------------------------- MODULE MCSessionHandshake -------------------------
(* Instances of SessionHandshake with two or three peers.                    *)
EXTENDS SessionHandshake, TLC

CONSTANTS p1, p2, p3, u1, u2

\* The handlers in the order in which p1, p2 and p3 meet the others' ids.
FirstHandlers == {<<p1, p2>>, <<p2, p1>>, <<p3, p1>>}

UuidSymmetry == Permutations(Uuid)
=============================================================================
