----------------------------- MODULE MCClockSync -----------------------------
(* Instances of ClockSync: the host's clock may be behind or ahead.           *)
EXTENDS ClockSync, TLC

BehindOrAhead == {-3, 2}

Interchangeable == Permutations(HostRequests)
=============================================================================
