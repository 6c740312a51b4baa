--------------------------- MODULE RefreshSweep ----------------------------
(* The batched background refresh of oidc_auth.py (refresh_all_accounts with *)
(* strict_sweep) as token_maintainer.py runs it: which accounts a cycle      *)
(* tries when more need a refresh than one batch may hold.  The accounts a   *)
(* sweep has tried are kept in Redis, with a copy in each process for when   *)
(* Redis raises.                                                             *)
EXTENDS Integers, FiniteSets, FiniteSetsExt

CONSTANTS
    Accounts,
    Processes,      \* processes that may be leader and run the cycles
    Batch,          \* max_accounts
    MaxErrors       \* bound: Redis errors, lost keys, failed writes, failovers

SweepAssumption == IsFiniteSet(Accounts) /\ Batch \in Nat \ {0} /\ MaxErrors \in Nat

VARIABLES
    due,        \* accounts near expiry whose refresh token is not marked
    leader,     \* the process that runs the cycles
    phase,      \* "wait", "refresh", "mark"
    batch,      \* the accounts the cycle tries
    covered,    \* the Redis set
    meta,       \* the Redis generation key exists
    local,      \* local[p]: _local_refresh_sweep of process p
    errors

vars == <<due, leader, phase, batch, covered, meta, local, errors>>

TypeOK ==
    /\ due \in SUBSET Accounts
    /\ leader \in Processes
    /\ phase \in {"wait", "refresh", "mark"}
    /\ batch \in SUBSET Accounts
    /\ covered \in SUBSET Accounts
    /\ meta \in BOOLEAN
    /\ local \in [Processes -> SUBSET Accounts]
    /\ errors \in 0..MaxErrors
    /\ ~meta => covered = {}
    /\ phase = "wait" <=> batch = {}

Init ==
    /\ due \in SUBSET Accounts
    /\ leader \in Processes
    /\ phase = "wait"
    /\ batch = {}
    /\ covered = {}
    /\ meta = FALSE
    /\ local = [p \in Processes |-> {}]
    /\ errors = 0

Fail == errors < MaxErrors /\ errors' = errors + 1

Remaining(cov) == due \ cov

(* _refresh_sweep_start_new                                                  *)
StartNew(redis) ==
    /\ IF redis THEN covered' = {} /\ meta' = TRUE ELSE UNCHANGED <<covered, meta>>
    /\ local' = [local EXCEPT ![leader] = {}]

(* With no more candidates than a batch holds, all are tried.  Otherwise the *)
(* soonest to expire of those the sweep has not tried, and when it has tried *)
(* all of them, of all, in a new sweep.  redis: loading the sweep succeeds.  *)
Choose(redis) ==
    LET cov == IF redis THEN covered ELSE local[leader]
        fresh == redis /\ ~meta
        rest == IF fresh THEN due ELSE Remaining(cov)
        pool == IF rest = {} THEN due ELSE rest
    IN /\ due # {}
       /\ IF Cardinality(due) <= Batch
          THEN batch' = due /\ UNCHANGED <<covered, meta, local>>
          ELSE /\ batch' \in kSubset(IF Cardinality(pool) < Batch
                                     THEN Cardinality(pool) ELSE Batch, pool)
               /\ IF fresh \/ rest = {}
                  THEN \E up \in {redis, TRUE} : StartNew(up)
                  ELSE UNCHANGED <<covered, meta, local>>

Select ==
    /\ phase = "wait"
    /\ \/ Choose(TRUE) /\ UNCHANGED errors
       \/ Choose(FALSE) /\ Fail
    /\ phase' = "refresh"
    /\ UNCHANGED <<due, leader>>

(* Every account of the batch is tried.  A refused token is marked and is no *)
(* candidate any more; an error leaves the account due; the others are       *)
(* written at the end, all or none.                                          *)
Refresh ==
    /\ phase = "refresh"
    /\ \E failed \in SUBSET batch :
           due' = due \ (batch \ failed)
    /\ phase' = "mark"
    /\ UNCHANGED <<leader, batch, covered, meta, local, errors>>

(* The write of the batch raised: the cycle ends without a mark.             *)
WriteFails ==
    /\ phase = "refresh" /\ Fail
    /\ phase' = "wait" /\ batch' = {}
    /\ UNCHANGED <<due, leader, covered, meta, local>>

(* _refresh_sweep_mark.                                                      *)
(* Mutant: only the accounts that were refreshed are covered.                *)
MarkRefreshed ==
    /\ phase = "mark"
    /\ covered' = covered \cup (batch \ due)
    /\ meta' = TRUE
    /\ local' = [local EXCEPT ![leader] = @ \cup (batch \ due)]
    /\ phase' = "wait" /\ batch' = {}
    /\ UNCHANGED <<due, leader, errors>>

Mark ==
    /\ phase = "mark"
    /\ \/ /\ covered' = covered \cup batch
          /\ meta' = TRUE
          /\ local' = [local EXCEPT ![leader] = IF meta THEN @ \cup batch ELSE batch]
          /\ UNCHANGED errors
       \/ /\ Fail
          /\ local' = [local EXCEPT ![leader] = @ \cup batch]
          /\ UNCHANGED <<covered, meta>>
    /\ phase' = "wait" /\ batch' = {}
    /\ UNCHANGED <<due, leader>>

(* An access token comes near its expiry, or a marked account logs in again. *)
BecomeDue(a) ==
    /\ a \notin due
    /\ due' = due \cup {a}
    /\ UNCHANGED <<leader, phase, batch, covered, meta, local, errors>>

(* A request refreshes an account, or its row is removed.                    *)
Settle(a) ==
    /\ a \in due
    /\ due' = due \ {a}
    /\ UNCHANGED <<leader, phase, batch, covered, meta, local, errors>>

LoseRedis ==
    /\ Fail
    /\ covered' = {} /\ meta' = FALSE
    /\ UNCHANGED <<due, leader, phase, batch, local>>

(* The leader dies in a cycle, and another process runs the next one.        *)
Failover(p) ==
    /\ Fail
    /\ leader' = p
    /\ phase' = "wait" /\ batch' = {}
    /\ local' = [local EXCEPT ![leader] = {}]
    /\ UNCHANGED <<due, covered, meta>>

Next ==
    \/ Select \/ Refresh \/ WriteFails \/ Mark \/ LoseRedis
    \/ \E a \in Accounts : BecomeDue(a) \/ Settle(a)
    \/ \E p \in Processes : Failover(p)

Fairness ==
    /\ WF_vars(Select)
    /\ WF_vars(Refresh)
    /\ WF_vars(Mark)

Spec == Init /\ [][Next]_vars /\ Fairness

-----------------------------------------------------------------------------
(* However many accounts fail again and again, each account that needs a     *)
(* refresh is tried: failures cannot starve the rest of the pool.            *)
NobodyStarves == \A a \in Accounts : a \in due ~> (a \in batch \/ a \notin due)
=============================================================================
