---------------------------- MODULE MCEndpoints ----------------------------
(* An instance of Endpoints: who lists what, and where packets come from.    *)
EXTENDS Endpoints, TLC

CONSTANTS a, b, c, d, e, f, g, me

\* Four peers behind one router, who all list an endpoint of mine.  The first two also list
\* the same endpoint, and the first one sends from one it did not list, too.  The third never
\* answers.  The fourth lists nothing else, so that its handler sends to this process.
ManyListed == 1 :> <<me, a, e>> @@ 2 :> <<me, e, c>> @@ 3 :> <<me, d, f, g>> @@ 4 :> <<me>>
ManySource == 1 :> {a, b} @@ 2 :> {c, e} @@ 3 :> {} @@ 4 :> {me}

\* The hypothesis of PacketsReachTheirHandler.
ASSUME SourcesAssumption == SourcesListed
=============================================================================
