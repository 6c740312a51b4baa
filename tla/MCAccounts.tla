----------------------------- MODULE MCAccounts ------------------------------
(* One account and three threads that work on its credential, a cache of two *)
(* writers and one reader, a batch of two jobs, and the loop.  One of the    *)
(* four components runs in a behaviour.                                      *)
EXTENDS Accounts, TLC

CONSTANTS r1, s1, w1, p1, p2, c1, c2, q1

MCTasks == {r1, s1, w1}
MCProcess == (r1 :> p1) @@ (s1 :> p1) @@ (w1 :> p2)
MCKind == (r1 :> "request") @@ (s1 :> "sweep") @@ (w1 :> "admin")

(* The instance is the same after swapping the two writers of the cache.     *)
Symmetry == Permutations({c1, c2})

VARIABLE part

MCInit == AccountsInit /\ part \in {"credential", "caches", "batch", "loop"}

(* Bounds on the batch.  Only the second job takes the long ways (a second   *)
(* attempt, a session opened with the password); the other process looks at  *)
(* the batch once the first job is over; no job moves between the two steps  *)
(* of the renew thread; and a behaviour has one of these: a request to stop, *)
(* an exception in the loop, sessions dropped (after the runner has ended).  *)
LongWay(i) == i \in again' \/ jobPc'[i] \in ({"more"} \X {1, 3, 4}) \cup ({"check"} \X {4})
Asked == \E p \in {Home, Away} : stop[p] # "idle"
Dropped == \E i \in batch[Redis].ids : sess[Redis][i] = None

BatchBound ==
    /\ ~LongWay(1)
    /\ batch'[Away] # None => jobPc'[1][1] \in {"over", "noted"}
    /\ beat /\ beat' => jobPc' = jobPc /\ sess' = sess
    /\ raised' => ~Asked'
    /\ Dropped' => runner \in {"over", "dead"} /\ ~Asked' /\ ~raised'

MCNext ==
    /\ \/ part = "credential" /\ CredentialNext
       \/ part = "caches" /\ CachesNext
       \/ part = "batch" /\ BatchNext /\ BatchBound
       \/ part = "loop" /\ LoopNext
    /\ UNCHANGED part

MCSpec == MCInit /\ [][MCNext]_<<part, accountsVars>>
=============================================================================
