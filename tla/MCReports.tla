----------------------------- MODULE MCReports ------------------------------
(* Reports with one of its components running in a behaviour.                *)
EXTENDS Reports, TLC

CONSTANTS
    w1, w2, j1, j2, j3,     \* AccountPool: handlers in two processes
    q1, q2                  \* UsageStats

MCWorkerOf == (j1 :> w1) @@ (j2 :> w2)
MCThreeWorkerOf == MCWorkerOf @@ (j3 :> w1)

(* What the background probes of an account that ran out of quota do.        *)
QuotaOps ==
    {[on |-> "live", err |-> "quota"], [on |-> "probe", err |-> "free"],
     [on |-> "probe ok", err |-> "none"]}

(* The instance is the same after swapping the two processes.                *)
Swap == (w1 :> w2) @@ (w2 :> w1) @@ (j1 :> j2) @@ (j2 :> j1)
Symmetry == {Swap} \cup Permutations({q1, q2})

VARIABLE part

MCInit ==
    /\ ReportsInit
    /\ part \in {"pool", "usage"}
    /\ part # "pool" => row = FreshRow

(* A bound: the two errors are of one store, and the second is on the first  *)
(* day.                                                                      *)
MCNext ==
    /\ \/ part = "pool" /\ PoolNext
       \/ part = "usage" /\ UsageNext /\ failed' # Usage!Stores /\ (errors' < 2 \/ clock' = 1)
    /\ UNCHANGED part

MCSpec == MCInit /\ [][MCNext]_<<reportVars, part>>

(* One handler after the other, of an account that nothing has been written  *)
(* of yet.                                                                   *)
MCInTurnSpec ==
    /\ MCInit /\ part = "pool" /\ row = FreshRow
    /\ [][MCNext /\ (op' # op => \A j \in Jobs : todo[j] = <<>>)]_<<reportVars, part>>
=============================================================================
