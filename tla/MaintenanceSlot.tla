-------------------------- MODULE MaintenanceSlot --------------------------
(* maintenance_gate.py over store/locks_redis.py: the slot that token        *)
(* refresh and model probes take so that they do not run at the same time,   *)
(* in any process.  A Redis key with a ttl, kept by a renew thread, and a    *)
(* process-local lock when Redis raises.                                     *)
(*                                                                           *)
(* A user is one thread that runs cycles: a maintainer worker or an admin    *)
(* request.  Every call blocks with a deadline, as all callers do.  A cycle  *)
(* that is refused the slot is deferred.                                     *)
EXTENDS Integers, FiniteSets

CONSTANTS
    Users,
    Process,        \* Process[u]: the process u belongs to
    Free,           \* the key does not exist; the local lock is not taken
    Dead,           \* the key holds the token of a call that is gone
    MaxErrors,      \* bound: Redis calls that raise
    MaxLapses       \* bound: keys that lapse although their renewer runs

Processes == {Process[u] : u \in Users}

SlotAssumption ==
    /\ Process \in [Users -> Processes]
    /\ {Free, Dead} \cap Users = {} /\ Free # Dead
    /\ MaxErrors \in Nat /\ MaxLapses \in Nat

VARIABLES
    lock,       \* whose token the key holds
    local,      \* local[p]: who holds _lock of process p
    at,         \* at[u]: where the call of u is
    fails,      \* fails[u]: the body of u's with statement raised
    renewing,   \* renewing[u]: the renew thread of u's call is alive
    errors, lapses

vars == <<lock, local, at, fails, renewing, errors, lapses>>

(* ask: the SET NX loop; work: the body, under the key; release: the inner   *)
(* finally; wait: at the local lock; alone: the body, under that lock;       *)
(* again: the generator, resumed after its body, at the local lock; broken:  *)
(* the with statement raised RuntimeError.                                   *)
Places == {"idle", "ask", "work", "release", "wait", "alone", "again", "broken"}

TypeOK ==
    /\ lock \in Users \cup {Free, Dead}
    /\ local \in [Processes -> Users \cup {Free}]
    /\ at \in [Users -> Places]
    /\ fails \in [Users -> BOOLEAN]
    /\ renewing \in [Users -> BOOLEAN]
    /\ errors \in 0..MaxErrors /\ lapses \in 0..MaxLapses
    /\ \A u \in Users : renewing[u] => at[u] \in {"work", "release"}

Init ==
    /\ lock = Free
    /\ local = [p \in Processes |-> Free]
    /\ at = [u \in Users |-> "idle"]
    /\ fails = [u \in Users |-> FALSE]
    /\ renewing = [u \in Users |-> FALSE]
    /\ errors = 0 /\ lapses = 0

Goto(u, place) == at' = [at EXCEPT ![u] = place]
Raise == errors < MaxErrors /\ errors' = errors + 1

Call(u) ==
    /\ at[u] = "idle"
    /\ Goto(u, "ask")
    /\ UNCHANGED <<lock, local, fails, renewing, errors, lapses>>

-----------------------------------------------------------------------------
(* redis_maintenance_slot                                                    *)

(* Mutant: the key is set whoever holds it.                                  *)
AskBlind(u) ==
    /\ at[u] = "ask"
    /\ lock' = u
    /\ Goto(u, "work")
    /\ renewing' = [renewing EXCEPT ![u] = TRUE]
    /\ UNCHANGED <<local, fails, errors, lapses>>

Ask(u) ==
    /\ at[u] = "ask"
    /\ lock = Free
    /\ lock' = u
    /\ Goto(u, "work")
    /\ renewing' = [renewing EXCEPT ![u] = TRUE]
    /\ UNCHANGED <<local, fails, errors, lapses>>

(* The deadline passes, or a refused wait at the local lock times out.       *)
Defer(u) ==
    /\ \/ at[u] = "ask" /\ lock # Free
       \/ at[u] = "wait" /\ local[Process[u]] # Free
    /\ Goto(u, "idle")
    /\ UNCHANGED <<lock, local, fails, renewing, errors, lapses>>

(* SET raised, with or without having taken effect.                          *)
AskError(u) ==
    /\ at[u] = "ask"
    /\ Raise
    /\ lock' \in {lock, IF lock = Free THEN Dead ELSE lock}
    /\ Goto(u, "wait")
    /\ UNCHANGED <<local, fails, renewing, lapses>>

(* A failing renewal ends the renew thread: nothing in it catches.           *)
RenewError(u) ==
    /\ renewing[u] /\ at[u] = "work"
    /\ Raise
    /\ renewing' = [renewing EXCEPT ![u] = FALSE]
    /\ UNCHANGED <<lock, local, at, fails, lapses>>

Leave(u) ==
    /\ at[u] = "work"
    /\ \E raised \in BOOLEAN : fails' = [fails EXCEPT ![u] = raised]
    /\ Goto(u, "release")
    /\ UNCHANGED <<lock, local, renewing, errors, lapses>>

(* Mutant: the renew thread is not told to stop.                             *)
ReleaseKeepsRenewing(u) ==
    /\ at[u] = "release"
    /\ lock' = IF lock = u THEN Free ELSE lock
    /\ Goto(u, IF fails[u] THEN "again" ELSE "idle")
    /\ UNCHANGED <<local, fails, renewing, errors, lapses>>

(* The body's exception, if any, meets maintenance_slot's except, which      *)
(* falls through to the local lock.                                          *)
Release(u) ==
    /\ at[u] = "release"
    /\ renewing' = [renewing EXCEPT ![u] = FALSE]
    /\ lock' = IF lock = u THEN Free ELSE lock
    /\ Goto(u, IF fails[u] THEN "again" ELSE "idle")
    /\ UNCHANGED <<local, fails, errors, lapses>>

(* Mutant: the delete comes before the flag that stops the renew thread.     *)
ReleaseErrorRenews(u) ==
    /\ at[u] = "release"
    /\ Raise
    /\ Goto(u, "again")
    /\ UNCHANGED <<lock, local, fails, renewing, lapses>>

(* The delete raised: the same except.  The token lives on to its ttl.       *)
ReleaseError(u) ==
    /\ at[u] = "release"
    /\ Raise
    /\ renewing' = [renewing EXCEPT ![u] = FALSE]
    /\ lock' \in {IF lock = u THEN Dead ELSE lock, IF lock = u THEN Free ELSE lock}
    /\ Goto(u, "again")
    /\ UNCHANGED <<local, fails, lapses>>

-----------------------------------------------------------------------------
(* maintenance_slot after the Redis path                                     *)

TakeLocal(u) ==
    /\ at[u] = "wait"
    /\ local[Process[u]] = Free
    /\ local' = [local EXCEPT ![Process[u]] = u]
    /\ Goto(u, "alone")
    /\ UNCHANGED <<lock, fails, renewing, errors, lapses>>

LeaveLocal(u) ==
    /\ at[u] = "alone"
    /\ local' = [local EXCEPT ![Process[u]] = Free]
    /\ Goto(u, "idle")
    /\ UNCHANGED <<lock, fails, renewing, errors, lapses>>

(* The generator gets the local lock or a refusal and yields a second time,  *)
(* which the with statement takes for an error; the lock is given back when  *)
(* the generator is collected.                                               *)
YieldTwice(u) ==
    /\ at[u] = "again"
    /\ Goto(u, "broken")
    /\ UNCHANGED <<lock, local, fails, renewing, errors, lapses>>

(* A guarded caller goes on; a worker thread that dies is replaced.          *)
Recover(u) ==
    /\ at[u] = "broken"
    /\ Goto(u, "idle")
    /\ UNCHANGED <<lock, local, fails, renewing, errors, lapses>>

-----------------------------------------------------------------------------
Crash(p) ==
    LET gone == {u \in Users : Process[u] = p}
    IN /\ lock' = IF lock \in gone THEN Dead ELSE lock
       /\ local' = [local EXCEPT ![p] = Free]
       /\ at' = [u \in Users |-> IF u \in gone THEN "idle" ELSE at[u]]
       /\ renewing' = [u \in Users |-> renewing[u] /\ u \notin gone]
       /\ UNCHANGED <<fails, errors, lapses>>

(* A key nobody renews lapses.                                               *)
Expire ==
    /\ lock = Dead \/ (lock \in Users /\ ~renewing[lock])
    /\ lock' = Free
    /\ UNCHANGED <<local, at, fails, renewing, errors, lapses>>

(* A renewer too slow for the ttl: five seconds for a background probe.      *)
Lapse ==
    /\ lock \in Users /\ renewing[lock]
    /\ lapses < MaxLapses
    /\ lapses' = lapses + 1
    /\ lock' = Free
    /\ UNCHANGED <<local, at, fails, renewing, errors>>

Step(u) ==
    \/ Ask(u) \/ Defer(u) \/ Leave(u) \/ Release(u)
    \/ TakeLocal(u) \/ LeaveLocal(u) \/ YieldTwice(u) \/ Recover(u)

Next ==
    \/ \E u \in Users :
          Call(u) \/ Step(u) \/ AskError(u) \/ RenewError(u) \/ ReleaseError(u)
    \/ \E p \in Processes : Crash(p)
    \/ Expire \/ Lapse

Spec == Init /\ [][Next]_vars

(* Cycles end, waits have deadlines, and keys expire.                        *)
SlotFairness == (\A u \in Users : WF_vars(Step(u))) /\ WF_vars(Expire)

FairSpec == Spec /\ SlotFairness

-----------------------------------------------------------------------------
Inside(u) == at[u] \in {"work", "alone"}

(* Two cycles never run at the same time ("they must not run at the same     *)
(* time", maintenance_gate.py), in all processes together and across         *)
(* crashes, as long as no Redis call has raised and no key has lapsed under  *)
(* its renewer.  After one error a cycle under the local lock may run beside *)
(* the one that holds the key.                                               *)
Quiet == errors = 0 /\ lapses = 0

SlotExclusive == Quiet => \A u, v \in Users : Inside(u) /\ Inside(v) => u = v

(* Whatever fails, cycles that fell back to the local lock of one process    *)
(* still exclude each other, ...                                             *)
LocalExclusive ==
    \A u, v \in Users :
        at[u] = "alone" /\ at[v] = "alone" /\ Process[u] = Process[v] => u = v

(* ... and the end of a cycle never takes the key from the cycle that got it *)
(* after the first one's key had lapsed.                                     *)
KeepsForeignKey ==
    [][\A u \in Users :
          at[u] = "release" /\ at'[u] # "release" /\ lock \notin {u, Free}
              => lock' # Free]_vars

(* No key of a cycle that is over, or of a process that is gone, keeps the   *)
(* slot for ever: it is given back or runs out, also when its delete raised  *)
(* (the renew thread must be told to stop before the delete).                *)
Stale == lock = Dead \/ (lock \in Users /\ at[lock] # "work")

SlotFreed == Stale ~> ~Stale

(* The fall-through to the local lock is for a "Redis path [that] fails      *)
(* mid-flight" (maintenance_gate.py).  Failing in flight, after the body, it *)
(* yields twice and the with statement raises.                               *)
MidFlightFallback == \A u \in Users : at[u] # "broken"
=============================================================================
