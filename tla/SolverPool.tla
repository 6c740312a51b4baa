----------------------------- MODULE SolverPool -----------------------------
(* The browser pool of turnstile-solver/api_solver.py: the tasks of one      *)
(* event loop that lease a browser each, the rebuild of a cold, dead or      *)
(* degraded pool under the pool lock, and the reaper of an idle one.  What a *)
(* task does with its browser is an external call with an outcome.           *)
(*                                                                           *)
(* The loop runs a task from one suspension to the next in one step, so an   *)
(* action hands the pool it has changed to the call that follows in the same *)
(* step.  A woken getter may find the queue empty again, or time out first.  *)
EXTENDS Integers, FiniteSets

CONSTANTS
    Tasks,
    Reaper,
    None,
    Threads,        \* thread_count
    Browsers,       \* identities; a closed and forgotten one is used again
    MaxFaults       \* bound: browsers that die, launches and closings that fail

SolverAssumption ==
    /\ Threads \in Nat \ {0} /\ MaxFaults \in Nat
    /\ IsFiniteSet(Tasks) /\ IsFiniteSet(Browsers) /\ Reaper \notin Tasks
    /\ None \notin Tasks \cup Browsers \cup {Reaper}

MaxAttempts == IF Threads + 1 > 2 THEN Threads + 1 ELSE 2

VARIABLES
    pool,       \* _pool_ready, browser_pool, _owned_browsers, and whether any
                \* driver manager is kept
    alive,      \* the browsers that are connected
    made,       \* the local list of _initialize_browser
    lock,       \* holder of _pool_lock
    inFlight,   \* _in_flight
    task,       \* task[t]: see Task
    reaper,     \* "sleep", "lock" or "shutdown"
    recent,     \* _last_used is less than idle_sec ago
    faults

vars == <<pool, alive, made, lock, inFlight, task, reaper, recent, faults>>

Pool == [ready : BOOLEAN, queue : SUBSET Browsers, owned : SUBSET Browsers,
         drivers : BOOLEAN]
(* at: where the task is; why: what it called _ensure_pool for; item: its    *)
(* lease; fail: its verdict is CAPTCHA_FAIL.                                 *)
Task == [at : {"new", "lock", "shutdown", "launch", "cleanup", "get", "discard",
               "solve", "close", "drop", "done"},
         why : {"acquire", "retry", "finish"}, force : BOOLEAN,
         attempt : 0..MaxAttempts, item : Browsers \cup {None}, fail : BOOLEAN]

TypeOK ==
    /\ pool \in Pool
    /\ alive \in SUBSET Browsers /\ made \in SUBSET Browsers
    /\ lock \in Tasks \cup {Reaper, None}
    /\ inFlight \in 0..Cardinality(Tasks)
    /\ task \in [Tasks -> Task]
    /\ reaper \in {"sleep", "lock", "shutdown"}
    /\ recent \in BOOLEAN /\ faults \in 0..MaxFaults

Init ==
    /\ pool = [ready |-> FALSE, queue |-> {}, owned |-> {}, drivers |-> FALSE]
    /\ alive = {} /\ made = {} /\ lock = None /\ inFlight = 0
    /\ task = [t \in Tasks |-> [at |-> "new", why |-> "acquire", force |-> FALSE,
                                attempt |-> 0, item |-> None, fail |-> FALSE]]
    /\ reaper = "sleep" /\ recent = FALSE /\ faults = 0

Fault == faults < MaxFaults /\ faults' = faults + 1

(* The tasks in _acquire_browser, and the browsers under a lease.            *)
Waiting == {t \in Tasks : /\ task[t].why # "finish"
                          /\ task[t].at \notin {"new", "solve", "close", "drop", "done"}}
Leaseholders == {t \in Tasks : task[t].at \in {"solve", "close"}}
Leased == {task[t].item : t \in Leaseholders}

CanServe(p, force) ==
    /\ p.ready /\ p.queue # {}
    /\ force => Cardinality(p.owned \cap alive) >= Threads

Goto(t, r) == task' = [task EXCEPT ![t] = r]

-----------------------------------------------------------------------------
(* The calls of _acquire_browser raise: a failure is recorded.               *)
Over(r) == [r EXCEPT !.at = "done", !.force = FALSE, !.attempt = 0]
GiveUp(t) == Goto(t, Over([task[t] EXCEPT !.fail = TRUE]))

(* _acquire_browser: a connected browser is a lease at once, a dead one is   *)
(* discarded (its closing is awaited).                                       *)
Take(t, r, b, p) ==
    IF b \in alive
    THEN /\ Goto(t, [r EXCEPT !.at = "solve", !.item = b, !.attempt = 0])
         /\ pool' = [p EXCEPT !.queue = @ \ {b}]
         /\ inFlight' = inFlight + 1
    ELSE /\ Goto(t, [r EXCEPT !.at = "discard"])
         /\ pool' = [p EXCEPT !.queue = @ \ {b}, !.owned = @ \ {b}]
         /\ UNCHANGED inFlight

Get(t, r, p) ==
    \/ \E b \in p.queue : Take(t, r, b, p)
    \/ /\ p.queue = {}
       /\ Goto(t, [r EXCEPT !.at = "get"])
       /\ pool' = p /\ UNCHANGED inFlight

(* _ensure_pool returns to its caller, who does not hold the lock any more.  *)
Return(t, r, p) ==
    CASE r.why = "acquire" -> Get(t, r, p)
      [] r.why = "retry" ->
            LET next == [r EXCEPT !.why = "acquire", !.force = FALSE,
                                  !.attempt = @ + 1]
            IN IF CanServe(p, FALSE)
               THEN Get(t, next, p)
               ELSE Goto(t, [next EXCEPT !.at = "lock"]) /\ pool' = p /\ UNCHANGED inFlight
      [] r.why = "finish" ->
            Goto(t, Over(r)) /\ pool' = p /\ UNCHANGED inFlight

(* _ensure_pool: the pool can serve, or the task queues for the lock.        *)
Ensure(t, r, p) ==
    /\ recent' = TRUE
    /\ IF CanServe(p, r.force)
       THEN Return(t, r, p)
       ELSE Goto(t, [r EXCEPT !.at = "lock"]) /\ pool' = p /\ UNCHANGED inFlight

(* _enqueue_turnstile and the beginning of _solve_turnstile.                 *)
Begin(t) ==
    /\ task[t].at = "new"
    /\ Ensure(t, task[t], pool)
    /\ UNCHANGED <<alive, made, lock, reaper, faults>>

(* _ensure_pool with the lock: what the pool needs may have changed.         *)
Rebuild(t) ==
    /\ lock' = t /\ made' = {}
    /\ pool' = [pool EXCEPT !.queue = {}]
    /\ Goto(t, [task[t] EXCEPT !.at =
            IF pool.ready \/ pool.owned \cup pool.queue # {} \/ pool.drivers
            THEN "shutdown" ELSE "launch"])
    /\ UNCHANGED inFlight

Lock(t) ==
    /\ task[t].at = "lock" /\ lock = None
    /\ recent' = TRUE
    /\ IF CanServe(pool, task[t].force) \/ inFlight > 0
       THEN Return(t, task[t], pool) /\ UNCHANGED <<made, lock>>
       ELSE Rebuild(t)
    /\ UNCHANGED <<alive, reaper, faults>>

(* _shutdown_browsers, which drained the queue when it began, has closed     *)
(* every browser; or it took too long and _force_forget_pool drops them,     *)
(* closed or not.                                                            *)
Close(q) ==
    /\ \/ alive' = alive \ pool.owned /\ UNCHANGED faults
       \/ alive' = alive \ (pool.owned \ Leased) /\ Fault
    /\ pool' = [ready |-> FALSE, owned |-> {}, drivers |-> FALSE,
                queue |-> IF faults' = faults THEN q ELSE {}]

(* The rebuild goes on to _initialize_browser, which drains the queue again. *)
Shutdown(t) ==
    /\ task[t].at = "shutdown"
    /\ Close({})
    /\ Goto(t, [task[t] EXCEPT !.at = "launch"])
    /\ UNCHANGED <<made, lock, inFlight, reaper, recent>>

(* A browser is launched and offered.  After the last one the queue is       *)
(* counted: the rebuild has failed when a waiter has been faster.            *)
Used == pool.owned \cup pool.queue \cup Leased \cup made

Failed(t, p) ==
    /\ Goto(t, [task[t] EXCEPT !.at = "cleanup"])
    /\ pool' = [p EXCEPT !.ready = FALSE, !.queue = {}]
    /\ UNCHANGED <<lock, inFlight>>

Launch(t) ==
    /\ task[t].at = "launch" /\ ~(Browsers \subseteq Used)
    /\ LET b == CHOOSE c \in Browsers : c \notin Used
           p == [pool EXCEPT !.owned = made \cup {b}, !.queue = @ \cup {b},
                             !.drivers = TRUE]
           full == [p EXCEPT !.ready = TRUE]
       IN /\ alive' = alive \cup {b}
          /\ IF Cardinality(made) + 1 < Threads
             THEN /\ pool' = p /\ made' = made \cup {b}
                  /\ UNCHANGED <<lock, inFlight, task, recent>>
             ELSE /\ recent' = TRUE /\ made' = {}
                  /\ IF Cardinality(p.queue) < Threads
                     THEN Failed(t, full)
                     ELSE lock' = None /\ Return(t, task[t], full)
    /\ UNCHANGED <<reaper, faults>>

LaunchFails(t) ==
    /\ task[t].at = "launch" /\ Fault
    /\ Failed(t, [pool EXCEPT !.drivers = TRUE])
    /\ made' = {}
    /\ UNCHANGED <<alive, reaper, recent>>

(* _cleanup_failed_rebuild; the exception ends the acquisition, or is logged *)
(* when the solve was over.                                                  *)
(* Mutant: the pool lock is kept.                                            *)
CleanupKeepsLock(t) ==
    /\ task[t].at = "cleanup"
    /\ Close(pool.queue)
    /\ IF task[t].why = "finish" THEN Goto(t, Over(task[t])) ELSE GiveUp(t)
    /\ UNCHANGED <<lock, made, inFlight, reaper, recent>>

Cleanup(t) ==
    /\ task[t].at = "cleanup"
    /\ Close(pool.queue)
    /\ lock' = None
    /\ IF task[t].why = "finish"
       THEN Goto(t, Over(task[t]))
       ELSE GiveUp(t)
    /\ UNCHANGED <<made, inFlight, reaper, recent>>

-----------------------------------------------------------------------------
(* The bounded wait of a task for a browser to be returned.                  *)
GetReturns(t) ==
    /\ task[t].at = "get"
    /\ \E b \in pool.queue : Take(t, task[t], b, pool)
    /\ recent' = TRUE
    /\ UNCHANGED <<alive, made, lock, reaper, faults>>

GetTimesOut(t) ==
    /\ task[t].at = "get"
    /\ IF inFlight <= 0 /\ task[t].attempt + 1 < MaxAttempts
       THEN Ensure(t, [task[t] EXCEPT !.why = "retry", !.force = TRUE], pool)
       ELSE GiveUp(t) /\ UNCHANGED <<pool, inFlight, recent>>
    /\ UNCHANGED <<alive, made, lock, reaper, faults>>

(* _discard_browser, once the browser is closed.                             *)
Empty(p) ==
    [p EXCEPT !.ready = @ /\ p.owned \cup p.queue # {}]

Discarded(t) ==
    /\ task[t].at = "discard"
    /\ IF task[t].attempt + 1 = MaxAttempts
       THEN GiveUp(t) /\ pool' = Empty(pool) /\ UNCHANGED <<inFlight, recent>>
       ELSE Ensure(t, [task[t] EXCEPT !.attempt = @ + 1], Empty(pool))
    /\ UNCHANGED <<alive, made, lock, reaper, faults>>

(* The rest of _finalize_browser_lease: the last lease to end repairs a pool *)
(* that has lost a browser.                                                  *)
(* Mutant: a pool that can still serve is left as it is.                     *)
FinishLazily(t, p, reusable) ==
    LET r == [task[t] EXCEPT !.why = "finish", !.force = FALSE, !.item = None]
        n == IF inFlight > 0 THEN inFlight - 1 ELSE 0
    IN /\ inFlight' = n /\ pool' = p /\ recent' = TRUE
       /\ Goto(t, IF ~reusable /\ n <= 0 /\ ~CanServe(p, r.force)
                  THEN [r EXCEPT !.at = "lock"] ELSE Over(r))

Finish(t, p, reusable) ==
    LET degraded == p.ready /\ Cardinality(p.owned) < Threads
        r == [task[t] EXCEPT !.why = "finish", !.force = degraded, !.item = None]
        n == IF inFlight > 0 THEN inFlight - 1 ELSE 0
    IN /\ inFlight' = n /\ pool' = p /\ recent' = TRUE
       /\ Goto(t, IF (~reusable \/ degraded) /\ n <= 0 /\ ~CanServe(p, r.force)
                  THEN [r EXCEPT !.at = "lock"] ELSE Over(r))

(* The solve ends with a token or a failure, and its context is closed: the  *)
(* browser goes back if that went well and it is connected, and is discarded *)
(* otherwise.                                                                *)
Solve(t) ==
    /\ task[t].at = "solve"
    /\ \E failed \in BOOLEAN :
            Goto(t, [task[t] EXCEPT !.at = "close", !.fail = failed])
    /\ UNCHANGED <<pool, alive, made, lock, inFlight, reaper, recent, faults>>

Release(t) ==
    /\ task[t].at = "close" /\ task[t].item \in alive
    /\ Finish(t, [pool EXCEPT !.queue = @ \cup {task[t].item}], TRUE)
    /\ UNCHANGED <<alive, made, lock, reaper, faults>>

Discard(t) ==
    /\ task[t].at = "close"
    /\ IF task[t].item \in alive THEN Fault ELSE UNCHANGED faults
    /\ pool' = [pool EXCEPT !.owned = @ \ {task[t].item}]
    /\ alive' = alive \ {task[t].item}
    /\ Goto(t, [task[t] EXCEPT !.at = "drop"])
    /\ UNCHANGED <<made, lock, inFlight, reaper, recent>>

Dropped(t) ==
    /\ task[t].at = "drop"
    /\ Finish(t, Empty(pool), FALSE)
    /\ UNCHANGED <<alive, made, lock, reaper, faults>>

-----------------------------------------------------------------------------
(* _idle_reaper looks before it queues for the lock, and again with it.      *)
Idle == pool.ready /\ inFlight = 0 /\ Waiting = {} /\ ~recent

ReaperWakes ==
    /\ reaper = "sleep" /\ Idle
    /\ reaper' = "lock"
    /\ UNCHANGED <<pool, alive, made, lock, inFlight, task, recent, faults>>

ReaperIf(idle) ==
    /\ reaper = "lock" /\ lock = None
    /\ IF idle
       THEN /\ lock' = Reaper /\ reaper' = "shutdown"
            /\ pool' = [pool EXCEPT !.queue = {}]
       ELSE reaper' = "sleep" /\ UNCHANGED <<lock, pool>>
    /\ UNCHANGED <<alive, made, inFlight, task, recent, faults>>

(* Mutant: the look before the lock is trusted.                              *)
ReaperTrusts == ReaperIf(TRUE)
ReaperLocks == ReaperIf(Idle)

ReaperCloses ==
    /\ reaper = "shutdown"
    /\ Close(pool.queue)
    /\ lock' = None /\ reaper' = "sleep"
    /\ UNCHANGED <<made, inFlight, task, recent>>

(* A browser crashes; idle_sec pass without a use of the pool.               *)
Dies(b) ==
    /\ b \in alive \cap (pool.owned \cup Leased) /\ Fault
    /\ alive' = alive \ {b}
    /\ UNCHANGED <<pool, made, lock, inFlight, task, reaper, recent>>

Quiet ==
    /\ recent
    /\ recent' = FALSE
    /\ UNCHANGED <<pool, alive, made, lock, inFlight, task, reaper, faults>>

Step(t) ==
    \/ Lock(t) \/ Shutdown(t) \/ Launch(t) \/ LaunchFails(t) \/ Cleanup(t)
    \/ GetReturns(t) \/ GetTimesOut(t) \/ Discarded(t)
    \/ Solve(t) \/ Release(t) \/ Discard(t) \/ Dropped(t)

Next ==
    \/ \E t \in Tasks : Begin(t) \/ Step(t)
    \/ ReaperWakes \/ ReaperLocks \/ ReaperCloses
    \/ \E b \in Browsers : Dies(b)
    \/ Quiet

Spec == Init /\ [][Next]_vars

(* Every wait of a task and of the holder of the lock has a time limit.      *)
Fairness ==
    /\ \A t \in Tasks : WF_vars(Step(t))
    /\ WF_vars(ReaperLocks) /\ WF_vars(ReaperCloses)

-----------------------------------------------------------------------------
(* Neither the reaper nor the shutdown before a rebuild closes a browser     *)
(* that a task is using, whatever the tasks did while the lock was awaited.  *)
ReclaimSparesLeases ==
    [][ReaperCloses \/ (\E t \in Tasks : Shutdown(t))
            => Leased \cap pool.owned = {}]_vars

Ended(t) == task[t].at = "done" /\ task[t].why = "finish"

(* When the tasks there were have all ended with a lease, a pool that says   *)
(* it is ready has its whole number of browsers: the last lease to end has   *)
(* seen to it.                                                               *)
RepairedAtRest ==
    pool.ready /\ lock = None /\ (\A t \in Tasks : task[t].at = "new" \/ Ended(t))
        => Cardinality(pool.owned) >= Threads

(* A task that was accepted gets its verdict.                                *)
TaskEnds == \A t \in Tasks : task[t].at # "new" ~> task[t].at = "done"

(* "force rebuild is ignored while a real lease is active": nor does a       *)
(* rebuild that fails.  It does not hold: a rebuild that finds a faster      *)
(* waiter has failed, and what it cleans up may be under that lease.         *)
RebuildSparesLeases ==
    [][(\E t \in Tasks : Cleanup(t)) => Leased \cap pool.owned = {}]_vars
=============================================================================
