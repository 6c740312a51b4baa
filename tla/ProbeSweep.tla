----------------------------- MODULE ProbeSweep -----------------------------
(* The model probe of model_health.py: each background cycle probes a batch  *)
(* of the live accounts that its sweep has not probed yet, and a sweep that  *)
(* has probed them all is followed by a new one; an administrator may have   *)
(* all accounts probed between two cycles.  The sweep is kept in Redis, with *)
(* a copy in each process for when Redis raises.  The maintenance slot keeps *)
(* two cycles from running at a time (MaintenanceSlot).                      *)
EXTENDS Integers, FiniteSets

CONSTANTS
    Accounts,       \* integers: a sweep goes by their order
    Processes,      \* processes that may lead and run the cycles
    Batch,          \* MODEL_PROBE_BATCH
    MaxErrors       \* bound of a run: Redis errors, lost keys, cut cycles

ProbeAssumption == Accounts \subseteq Int /\ Batch \in Nat \ {0} /\ MaxErrors \in Nat

VARIABLES
    live,       \* _unique_live_creds
    leader,     \* the process that runs the cycles
    source,     \* what runs: "none", "background" or "manual_all"
    batch,      \* the accounts the cycle probes
    covered,    \* the Redis set model_health:sweep covered
    meta,       \* the Redis key of the generation exists
    local,      \* _local_sweep of each process
    sweep,      \* which sweep it is, modulo 2
    probed,     \* accounts probed in it
    errors

kept == <<covered, meta, local>>
vars == <<live, leader, source, batch, kept, sweep, probed, errors>>

NoSweep == [known |-> FALSE, covered |-> {}]

Init ==
    /\ live \in SUBSET Accounts
    /\ leader \in Processes
    /\ source = "none" /\ batch = {}
    /\ covered = {} /\ meta = FALSE
    /\ local = [p \in Processes |-> NoSweep]
    /\ sweep = 0 /\ probed = {}
    /\ errors = 0

Fail == errors < MaxErrors /\ errors' = errors + 1

First(S, n) == {a \in S : Cardinality({b \in S : b < a}) < n}

-----------------------------------------------------------------------------
(* _sweep_start_new.  When Redis raises, at once or half way, the new sweep  *)
(* is known to the process only.                                             *)
StartNew(redis) ==
    /\ covered' = IF redis = "down" THEN covered ELSE {}
    /\ meta' = (meta \/ redis = "up")
    /\ local' = [local EXCEPT ![leader] = [known |-> TRUE, covered |-> {}]]
    /\ sweep' = 1 - sweep

(* _sweep_load and _select_probe_batch.                                      *)
Select(redis, up) ==
    LET known == IF redis THEN meta ELSE local[leader].known
        rest == live \ (IF ~known THEN {} ELSE IF redis THEN covered ELSE local[leader].covered)
    IN /\ batch' = First(IF rest = {} THEN live ELSE rest, Batch)
       /\ IF known /\ rest # {}
          THEN UNCHANGED <<kept, sweep>> /\ probed' = probed \cup batch'
          ELSE StartNew(up) /\ probed' = batch'

(* run_once(source="background") with the slot; without it nothing is done.  *)
Background ==
    /\ source = "none" /\ live # {}
    /\ \/ Select(TRUE, "up") /\ UNCHANGED errors
       \/ /\ Fail
          /\ \/ \E up \in {"up", "half", "down"} : Select(FALSE, up)
             \/ \E up \in {"half", "down"} : Select(TRUE, up)
    /\ source' = "background"
    /\ UNCHANGED <<live, leader>>

(* Mutant: the accounts that a probe has taken out of rotation meanwhile are *)
(* not marked.                                                               *)
MarkLive ==
    /\ source = "background"
    /\ covered' = covered \cup (batch \cap live) /\ meta' = TRUE
    /\ local' = [local EXCEPT ![leader].covered = @ \cup (batch \cap live)]
    /\ source' = "none" /\ batch' = {}
    /\ UNCHANGED <<live, leader, sweep, probed, errors>>

(* _sweep_mark_covered: of all accounts of the batch, whatever the probes    *)
(* have shown.                                                               *)
Mark ==
    /\ source = "background"
    /\ \/ /\ covered' = covered \cup batch /\ meta' = TRUE
          /\ local' = [local EXCEPT ![leader] =
                          [known |-> @.known \/ ~meta,
                           covered |-> (IF meta THEN @.covered ELSE {}) \cup batch]]
          /\ sweep' = IF meta THEN sweep ELSE 1 - sweep
          /\ probed' = IF meta THEN probed ELSE batch
          /\ UNCHANGED errors
       \/ /\ Fail
          /\ local' = [local EXCEPT ![leader].covered = @ \cup batch]
          /\ UNCHANGED <<covered, meta, sweep, probed>>
       \/ /\ Fail /\ ~meta            \* after _sweep_start_new
          /\ local' = [local EXCEPT ![leader] = [known |-> TRUE, covered |-> batch]]
          /\ covered' = {} /\ meta' = TRUE
          /\ sweep' = 1 - sweep /\ probed' = batch
    /\ source' = "none" /\ batch' = {}
    /\ UNCHANGED <<live, leader>>

(* request_run_soon: all live accounts, the sweep as it was.                 *)
ManualAll ==
    /\ source = "none" /\ live # {}
    /\ source' = "manual_all" /\ batch' = live
    /\ UNCHANGED <<live, leader, kept, sweep, probed, errors>>

ManualEnds ==
    /\ source = "manual_all"
    /\ source' = "none" /\ batch' = {}
    /\ UNCHANGED <<live, leader, kept, sweep, probed, errors>>

(* A probe disables an account, or a refresh, a login or an administrator    *)
(* brings one or takes one away.                                             *)
Change(a) ==
    /\ live' = IF a \in live THEN live \ {a} ELSE live \cup {a}
    /\ UNCHANGED <<leader, source, batch, kept, sweep, probed, errors>>

LoseRedis ==
    /\ Fail
    /\ covered' = {} /\ meta' = FALSE
    /\ UNCHANGED <<live, leader, source, batch, local, sweep, probed>>

(* Another process becomes the leader, between two cycles or when the old    *)
(* one dies in one.                                                          *)
Handover(p) ==
    /\ IF source = "none" THEN UNCHANGED errors ELSE Fail
    /\ leader' = p
    /\ source' = "none" /\ batch' = {}
    /\ local' \in {local, [local EXCEPT ![leader] = NoSweep]}
    /\ UNCHANGED <<live, covered, meta, sweep, probed>>

Next ==
    \/ Background \/ Mark \/ ManualAll \/ ManualEnds \/ LoseRedis
    \/ \E a \in Accounts : Change(a)
    \/ \E p \in Processes : Handover(p)

Fairness == WF_vars(Background) /\ WF_vars(Mark) /\ WF_vars(ManualEnds)

Spec == Init /\ [][Next]_vars /\ Fairness

-----------------------------------------------------------------------------
(* The types of the sweep and its copies.                                    *)
TypeOK ==
    /\ {live, batch, covered, probed} \subseteq SUBSET Accounts
    /\ leader \in Processes /\ source \in {"none", "background", "manual_all"}
    /\ local \in [Processes -> [known : BOOLEAN, covered : SUBSET Accounts]]
    /\ meta \in BOOLEAN /\ sweep \in {0, 1} /\ errors \in 0 .. MaxErrors

(* "Each live account is probed at most once per generation.  When all live  *)
(* accounts are covered, a new generation starts" (_select_probe_batch), and *)
(* not before: whatever processes lead one after the other, and accounts     *)
(* come and go, as long as Redis answers and no cycle is cut short.          *)
OncePerSweep ==
    [][source = "none" /\ source' = "background" /\ errors' = 0 /\ meta
          => IF sweep' = sweep THEN batch' \cap probed = {} ELSE live \subseteq probed]_vars

(* Dead leaders, lost keys and Redis errors make it probe some accounts      *)
(* again, and accounts come and go all the time; but none that stays live is *)
(* left out for ever.                                                        *)
EveryoneProbed == \A a \in Accounts : a \in live ~> (a \in batch \/ a \notin live)
=============================================================================
