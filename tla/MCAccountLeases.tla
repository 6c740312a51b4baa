--------------------------- MODULE MCAccountLeases ---------------------------
(* Model values for the liveness of AccountLeases: one request per process.  *)
EXTENDS AccountLeases, TLC

CONSTANTS w1, w2, r1, r2, a1, a2

MCWorkers == {w1, w2}
MCRequests == {r1, r2}
MCWorkerOf == (r1 :> w1) @@ (r2 :> w2)
MCChains == {<<a1, a2>>, <<a2, a1>>}
=============================================================================
