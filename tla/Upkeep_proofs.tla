---------------------------- MODULE Upkeep_proofs ----------------------------
(* Proofs about what keeps the accounts usable, for any number of processes, *)
(* accounts, tasks, browsers, errors and lapses.                             *)
(*                                                                           *)
(* The pool of the solver: the count of leases is right and the lock has one *)
(* holder, so that nothing is taken down under a lease (PoolInv); and a      *)
(* degraded pool that says it is ready has somebody to repair it (Repaired). *)
(* The sweeps: a batch is never empty, and what the probe has covered is     *)
(* what it has probed (Clean).  The jobs: the last record tells what was     *)
(* stored (JobInv).  The slot: who holds the key or the local lock (KeyHeld, *)
(* LocalHeld).                                                               *)
EXTENDS Upkeep, FiniteSetTheorems, TLAPS

-----------------------------------------------------------------------------
(* The pool of browsers                                                      *)


(* The tasks that _in_flight counts: one that drops its browser is counted   *)
(* until the browser is closed.                                              *)
Counted == {t \in Tasks : task[t].at \in {"solve", "close", "drop"}}

Whys == {"acquire", "retry", "finish"}
TaskFields == {"at", "why", "force", "attempt", "item", "fail"}
PoolFields == {"ready", "queue", "owned", "drivers"}

Shape ==
    /\ DOMAIN task = Tasks
    /\ \A t \in Tasks : DOMAIN task[t] = TaskFields /\ task[t].why \in Whys
    /\ DOMAIN pool = PoolFields

CountIsRight == inFlight = Cardinality(Counted)

Locked ==
    /\ \A t \in Tasks : task[t].at \in {"shutdown", "launch", "cleanup"} => lock = t
    /\ reaper = "shutdown" => lock = Reaper

(* While a pool is taken down no browser is leased, and none can be: nobody  *)
(* but the holder of the lock puts one into the empty queue.                 *)
TakenDown == reaper = "shutdown" \/ \E t \in Tasks : task[t].at = "shutdown"
Deserted == TakenDown => Counted = {} /\ pool.queue = {}

PoolInv == Shape /\ CountIsRight /\ Locked /\ Deserted

LEMMA InvInit == SolverAssumption /\ Init => PoolInv
<1> SUFFICES ASSUME SolverAssumption, Init PROVE PoolInv
  OBVIOUS
<1>1. Shape
  BY DEF Init, Shape, TaskFields, PoolFields, Whys
<1>2. Counted = {} /\ ~TakenDown
  BY DEF Init, Counted, TakenDown
<1>3. Locked
  BY DEF Init, Locked
<1> QED BY <1>1, <1>2, <1>3, FS_EmptySet DEF PoolInv, CountIsRight, Deserted, Init

-----------------------------------------------------------------------------
(* What the count does when one task moves.                                  *)
LEMMA CountIn ==
    ASSUME SolverAssumption, PoolInv, NEW t \in Tasks, t \notin Counted,
           Counted' = Counted \cup {t}, inFlight' = inFlight + 1
    PROVE  CountIsRight'
<1>1. IsFiniteSet(Counted)
  BY FS_Subset DEF SolverAssumption, Counted
<1> QED BY <1>1, FS_AddElement DEF PoolInv, CountIsRight

LEMMA CountOut ==
    ASSUME SolverAssumption, PoolInv, NEW t \in Tasks, t \in Counted,
           Counted' = Counted \ {t},
           inFlight' = IF inFlight > 0 THEN inFlight - 1 ELSE 0
    PROVE  CountIsRight'
<1>1. IsFiniteSet(Counted)
  BY FS_Subset DEF SolverAssumption, Counted
<1>2. inFlight \in Nat /\ inFlight # 0
  BY <1>1, FS_CardinalityType, FS_EmptySet DEF PoolInv, CountIsRight
<1>3. Cardinality(Counted \ {t}) = Cardinality(Counted) - 1
  BY <1>1, FS_RemoveElement
<1>4. inFlight' = inFlight - 1
  BY <1>2
<1> QED BY <1>3, <1>4 DEF PoolInv, CountIsRight

LEMMA NobodyCounted ==
    ASSUME SolverAssumption, PoolInv, inFlight = 0 \/ ~(inFlight > 0)
    PROVE  Counted = {}
<1>1. IsFiniteSet(Counted)
  BY FS_Subset DEF SolverAssumption, Counted
<1>2. inFlight \in Nat
  BY <1>1, FS_CardinalityType DEF PoolInv, CountIsRight
<1> QED BY <1>1, <1>2, FS_EmptySet DEF PoolInv, CountIsRight

-----------------------------------------------------------------------------
(* What _acquire_browser and _ensure_pool do to the caller and to the queue  *)
(* q they find: the caller leases a browser of the queue, or it waits, gives *)
(* up or ends without one.                                                   *)
Moved(t, q) ==
    \E s : /\ DOMAIN s = TaskFields /\ s.why \in Whys
           /\ task' = [task EXCEPT ![t] = s]
           /\ DOMAIN pool' = PoolFields /\ pool'.queue \subseteq q
           /\ \/ s.at = "solve" /\ q # {} /\ inFlight' = inFlight + 1
              \/ s.at \in {"get", "discard", "lock", "done"} /\ inFlight' = inFlight

LEMMA TakeMoves ==
    ASSUME NEW t \in Tasks, NEW r, NEW p, NEW b \in p.queue, DOMAIN r = TaskFields,
           r.why \in Whys,
           DOMAIN p = PoolFields, Take(t, r, b, p)
    PROVE  Moved(t, p.queue)
<1>1. CASE b \in alive
  <2> DEFINE s == [r EXCEPT !.at = "solve", !.item = b, !.attempt = 0]
  <2>1. DOMAIN s = TaskFields /\ s.why \in Whys /\ s.at = "solve"
    BY DEF TaskFields, Whys
  <2>2. DOMAIN pool' = PoolFields /\ pool'.queue \subseteq p.queue
    BY <1>1 DEF Take, PoolFields
  <2>3. task' = [task EXCEPT ![t] = s] /\ inFlight' = inFlight + 1
    BY <1>1 DEF Take, Goto
  <2> HIDE DEF s
  <2> QED BY <2>1, <2>2, <2>3 DEF Moved
<1>2. CASE b \notin alive
  <2> DEFINE s == [r EXCEPT !.at = "discard"]
  <2>1. DOMAIN s = TaskFields /\ s.why \in Whys /\ s.at = "discard"
    BY DEF TaskFields, Whys
  <2>2. DOMAIN pool' = PoolFields /\ pool'.queue \subseteq p.queue
    BY <1>2 DEF Take, PoolFields
  <2>3. task' = [task EXCEPT ![t] = s] /\ inFlight' = inFlight
    BY <1>2 DEF Take, Goto
  <2> HIDE DEF s
  <2> QED BY <2>1, <2>2, <2>3 DEF Moved
<1> QED BY <1>1, <1>2

LEMMA GetMoves ==
    ASSUME NEW t \in Tasks, NEW r, NEW p, DOMAIN r = TaskFields,
           r.why \in Whys, DOMAIN p = PoolFields, Get(t, r, p)
    PROVE  Moved(t, p.queue)
<1>1. CASE \E b \in p.queue : Take(t, r, b, p)
  BY <1>1, TakeMoves
<1>2. CASE /\ Goto(t, [r EXCEPT !.at = "get"])
           /\ pool' = p /\ UNCHANGED inFlight
  <2> DEFINE s == [r EXCEPT !.at = "get"]
  <2>1. DOMAIN s = TaskFields /\ s.why \in Whys /\ s.at = "get"
    BY DEF TaskFields, Whys
  <2>2. task' = [task EXCEPT ![t] = s] /\ inFlight' = inFlight /\ pool' = p
    BY <1>2 DEF Goto
  <2> HIDE DEF s
  <2> QED BY <2>1, <2>2 DEF Moved
<1> QED BY <1>1, <1>2 DEF Get

(* The caller queues for the lock, or is over.                               *)
LEMMA StopMoves ==
    ASSUME NEW t \in Tasks, NEW s, NEW p, DOMAIN s = TaskFields,
           s.why \in Whys, s.at \in {"lock", "done"}, DOMAIN p = PoolFields, Goto(t, s),
           pool' = p, inFlight' = inFlight
    PROVE  Moved(t, p.queue)
BY DEF Moved, Goto

LEMMA ReturnMoves ==
    ASSUME NEW t \in Tasks, NEW r, NEW p, DOMAIN r = TaskFields,
           r.why \in Whys,
           DOMAIN p = PoolFields, Return(t, r, p)
    PROVE  Moved(t, p.queue)
<1>1. CASE r.why = "acquire"
  BY <1>1, GetMoves DEF Return
<1>2. CASE r.why = "retry"
  <2> DEFINE next == [r EXCEPT !.why = "acquire", !.force = FALSE, !.attempt = @ + 1]
             s == [next EXCEPT !.at = "lock"]
  <2>1. DOMAIN next = TaskFields /\ next.why \in Whys /\ DOMAIN s = TaskFields
        /\ s.why \in Whys /\ s.at = "lock"
    BY DEF TaskFields, Whys
  <2>2. Get(t, next, p) \/ (Goto(t, s) /\ pool' = p /\ UNCHANGED inFlight)
    BY <1>2 DEF Return
  <2> HIDE DEF next, s
  <2> QED BY <2>1, <2>2, GetMoves, StopMoves
<1>3. CASE r.why = "finish"
  <2>1. DOMAIN Over(r) = TaskFields /\ Over(r).why \in Whys /\ Over(r).at = "done"
    BY DEF Over, TaskFields, Whys
  <2>2. Goto(t, Over(r)) /\ pool' = p /\ inFlight' = inFlight
    BY <1>3 DEF Return
  <2> QED BY <2>1, <2>2, StopMoves
<1> QED BY <1>1, <1>2, <1>3 DEF Whys

LEMMA EnsureMoves ==
    ASSUME NEW t \in Tasks, NEW r, NEW p, DOMAIN r = TaskFields,
           r.why \in Whys,
           DOMAIN p = PoolFields, Ensure(t, r, p)
    PROVE  Moved(t, p.queue)
<1> DEFINE s == [r EXCEPT !.at = "lock"]
<1>1. DOMAIN s = TaskFields /\ s.why \in Whys /\ s.at = "lock"
  BY DEF TaskFields, Whys
<1>2. Return(t, r, p) \/ (Goto(t, s) /\ pool' = p /\ UNCHANGED inFlight)
  BY DEF Ensure
<1> HIDE DEF s
<1> QED BY <1>1, <1>2, ReturnMoves, StopMoves

LEMMA GiveUpMoves ==
    ASSUME NEW t \in Tasks, NEW p, DOMAIN task[t] = TaskFields,
           task[t].why \in Whys, DOMAIN p = PoolFields,
           GiveUp(t), pool' = p, inFlight' = inFlight
    PROVE  Moved(t, p.queue)
<1> DEFINE s == Over([task[t] EXCEPT !.fail = TRUE])
<1>1. DOMAIN s = TaskFields /\ s.why \in Whys /\ s.at = "done"
  BY DEF Over, TaskFields, Whys
<1>2. Goto(t, s)
  BY DEF GiveUp
<1> HIDE DEF s
<1> QED BY <1>1, <1>2, StopMoves

(* A caller that is not counted and does not hold the lock when it is over   *)
(* keeps the invariant, whoever else does what.                              *)
LEMMA MovedKeeps ==
    ASSUME SolverAssumption, PoolInv, NEW t \in Tasks, NEW q, t \notin Counted,
           Moved(t, q), UNCHANGED reaper,
           \/ q = pool.queue /\ lock' = lock /\ task[t].at \notin {"shutdown", "launch"}
           \/ lock = t /\ lock' = None /\ task[t].at # "shutdown"
    PROVE  PoolInv'
<1> PICK s : /\ DOMAIN s = TaskFields /\ s.why \in Whys
             /\ task' = [task EXCEPT ![t] = s]
             /\ DOMAIN pool' = PoolFields /\ pool'.queue \subseteq q
             /\ \/ s.at = "solve" /\ q # {} /\ inFlight' = inFlight + 1
                \/ s.at \in {"get", "discard", "lock", "done"} /\ inFlight' = inFlight
  BY DEF Moved
<1>1. task'[t] = s /\ \A u \in Tasks \ {t} : task'[u] = task[u]
  BY DEF PoolInv, Shape
<1>2. Shape'
  BY <1>1 DEF PoolInv, Shape
<1>3. Locked'
  BY <1>1 DEF PoolInv, Locked, SolverAssumption
<1>4. TakenDown' => TakenDown
  BY <1>1 DEF TakenDown
<1>5. CASE s.at = "solve" /\ q # {} /\ inFlight' = inFlight + 1
  <2>1. Counted' = Counted \cup {t}
    BY <1>1, <1>5 DEF Counted
  <2>2. ~TakenDown
    BY <1>5 DEF PoolInv, Deserted, TakenDown, Locked, SolverAssumption
  <2> QED BY <1>2, <1>3, <1>4, <1>5, <2>1, <2>2, CountIn DEF PoolInv, Deserted
<1>6. CASE s.at \in {"get", "discard", "lock", "done"} /\ inFlight' = inFlight
  <2>1. Counted' = Counted
    BY <1>1, <1>6 DEF Counted
  <2>2. TakenDown => q = pool.queue
    BY DEF PoolInv, TakenDown, Locked, SolverAssumption
  <2> QED BY <1>2, <1>3, <1>4, <1>6, <2>1, <2>2 DEF PoolInv, Deserted, CountIsRight
<1> QED BY <1>5, <1>6

-----------------------------------------------------------------------------
LEMMA BeginKeeps ==
    ASSUME SolverAssumption, PoolInv, NEW t \in Tasks, Begin(t)
    PROVE  PoolInv'
<1>1. t \notin Counted /\ task[t].at \notin {"shutdown", "launch"}
  BY DEF Begin, Counted
<1>2. Moved(t, pool.queue)
  BY EnsureMoves DEF Begin, PoolInv, Shape
<1> QED BY <1>1, <1>2, MovedKeeps DEF Begin

LEMMA LockKeeps ==
    ASSUME SolverAssumption, PoolInv, NEW t \in Tasks, Lock(t)
    PROVE  PoolInv'
<1>1. t \notin Counted /\ task[t].at = "lock" /\ lock = None /\ reaper' = reaper
  BY DEF Lock, Counted
<1>2. CASE CanServe(pool, task[t].force) \/ inFlight > 0
  <2>1. Return(t, task[t], pool) /\ lock' = lock
    BY <1>2 DEF Lock
  <2>2. Moved(t, pool.queue)
    BY <2>1, ReturnMoves DEF PoolInv, Shape
  <2> QED BY <1>1, <2>1, <2>2, MovedKeeps
<1>3. CASE ~(CanServe(pool, task[t].force) \/ inFlight > 0)
  <2>1. Rebuild(t)
    BY <1>3 DEF Lock
  <2>2. Counted = {}
    BY <1>3, NobodyCounted
  <2>3. PICK place \in {"shutdown", "launch"} : task' = [task EXCEPT ![t] = [@ EXCEPT !.at = place]]
    BY <2>1 DEF Rebuild, Goto
  <2>4. DOMAIN task' = Tasks /\ task'[t].at = place
    BY <2>3 DEF PoolInv, Shape, TaskFields
  <2>5. Shape'
    BY <2>1, <2>3 DEF Rebuild, PoolInv, Shape, TaskFields, PoolFields
  <2>6. Counted' = {}
    BY <2>2, <2>3, <2>4 DEF PoolInv, Shape, Counted
  <2>7. Locked'
    BY <1>1, <2>1, <2>3, <2>4 DEF Rebuild, PoolInv, Shape, Locked, SolverAssumption
  <2>8. pool'.queue = {} /\ inFlight' = inFlight
    BY <2>1 DEF Rebuild, PoolInv, Shape, PoolFields
  <2> QED BY <2>2, <2>5, <2>6, <2>7, <2>8 DEF PoolInv, Deserted, CountIsRight
<1> QED BY <1>2, <1>3

(* A step that moves the holder of the lock and leases nothing.              *)
LEMMA HolderKeeps ==
    ASSUME SolverAssumption, PoolInv, NEW t \in Tasks, NEW s, lock = t, t \notin Counted,
           DOMAIN s = TaskFields, s.why \in Whys, task' = [task EXCEPT ![t] = s],
           DOMAIN pool' = PoolFields, UNCHANGED <<inFlight, reaper>>,
           \/ s.at \in {"launch", "cleanup"} /\ lock' = lock
           \/ s.at = "done" /\ lock' = None
    PROVE  PoolInv'
<1>1. task'[t] = s /\ \A u \in Tasks \ {t} : task'[u] = task[u]
  BY DEF PoolInv, Shape
<1>2. Shape'
  BY <1>1 DEF PoolInv, Shape
<1>3. Locked'
  BY <1>1 DEF PoolInv, Locked, SolverAssumption
<1>4. ~TakenDown'
  BY <1>1 DEF PoolInv, Locked, TakenDown, SolverAssumption
<1>5. Counted' = Counted
  BY <1>1 DEF Counted
<1> QED BY <1>2, <1>3, <1>4, <1>5 DEF PoolInv, Deserted, CountIsRight

LEMMA CloseShape ==
    ASSUME NEW q, Close(q)
    PROVE  DOMAIN pool' = PoolFields /\ pool'.queue \subseteq q
BY DEF Close, PoolFields

LEMMA ShutdownKeeps ==
    ASSUME SolverAssumption, PoolInv, NEW t \in Tasks, Shutdown(t)
    PROVE  PoolInv'
<1> DEFINE s == [task[t] EXCEPT !.at = "launch"]
<1>1. DOMAIN s = TaskFields /\ s.why \in Whys /\ s.at = "launch"
  BY DEF PoolInv, Shape, TaskFields
<1>2. lock = t /\ t \notin Counted
  BY DEF Shutdown, PoolInv, Locked, Counted
<1>3. task' = [task EXCEPT ![t] = s] /\ UNCHANGED <<inFlight, reaper, lock>>
  BY DEF Shutdown, Goto
<1>4. DOMAIN pool' = PoolFields
  BY CloseShape DEF Shutdown
<1> HIDE DEF s
<1> QED BY <1>1, <1>2, <1>3, <1>4, HolderKeeps

LEMMA FailedKeeps ==
    ASSUME SolverAssumption, PoolInv, NEW t \in Tasks, task[t].at = "launch", NEW p,
           DOMAIN p = PoolFields, Failed(t, p), UNCHANGED reaper
    PROVE  PoolInv'
<1> DEFINE s == [task[t] EXCEPT !.at = "cleanup"]
<1>1. DOMAIN s = TaskFields /\ s.why \in Whys /\ s.at = "cleanup"
  BY DEF PoolInv, Shape, TaskFields
<1>2. lock = t /\ t \notin Counted
  BY DEF PoolInv, Locked, Counted
<1>3. task' = [task EXCEPT ![t] = s] /\ UNCHANGED <<inFlight, lock>>
  BY DEF Failed, Goto
<1>4. DOMAIN pool' = PoolFields
  BY DEF Failed, PoolFields
<1> HIDE DEF s
<1> QED BY <1>1, <1>2, <1>3, <1>4, HolderKeeps

LEMMA LaunchKeeps ==
    ASSUME SolverAssumption, PoolInv, NEW t \in Tasks, Launch(t)
    PROVE  PoolInv'
<1> DEFINE b == CHOOSE c \in Browsers : c \notin Used
           p == [pool EXCEPT !.owned = made \cup {b}, !.queue = @ \cup {b},
                             !.drivers = TRUE]
           full == [p EXCEPT !.ready = TRUE]
<1>1. DOMAIN p = PoolFields /\ DOMAIN full = PoolFields
  BY DEF PoolInv, Shape, PoolFields
<1>2. task[t].at = "launch" /\ lock = t /\ t \notin Counted /\ reaper' = reaper
  BY DEF Launch, PoolInv, Locked, Counted
<1>3. \/ pool' = p /\ UNCHANGED <<lock, inFlight, task>>
      \/ Failed(t, full)
      \/ lock' = None /\ Return(t, task[t], full)
  BY DEF Launch
<1> HIDE DEF p, full
<1>4. CASE pool' = p /\ UNCHANGED <<lock, inFlight, task>>
  <2>1. ~TakenDown
    BY <1>2 DEF PoolInv, Locked, TakenDown, SolverAssumption
  <2>2. Shape' /\ CountIsRight' /\ Locked' /\ ~TakenDown'
    BY <1>1, <1>2, <1>4, <2>1
       DEF PoolInv, Shape, CountIsRight, Locked, TakenDown, Counted
  <2> QED BY <2>2 DEF PoolInv, Deserted
<1>5. CASE Failed(t, full)
  BY <1>1, <1>2, <1>5, FailedKeeps
<1>6. CASE lock' = None /\ Return(t, task[t], full)
  <2>1. Moved(t, full.queue)
    BY <1>1, <1>6, ReturnMoves DEF PoolInv, Shape
  <2> QED BY <1>2, <1>6, <2>1, MovedKeeps
<1> QED BY <1>3, <1>4, <1>5, <1>6

LEMMA LaunchFailsKeeps ==
    ASSUME SolverAssumption, PoolInv, NEW t \in Tasks, LaunchFails(t)
    PROVE  PoolInv'
<1>1. DOMAIN [pool EXCEPT !.drivers = TRUE] = PoolFields
  BY DEF PoolInv, Shape, PoolFields
<1> QED BY <1>1, FailedKeeps DEF LaunchFails

LEMMA CleanupKeeps ==
    ASSUME SolverAssumption, PoolInv, NEW t \in Tasks, Cleanup(t)
    PROVE  PoolInv'
<1>1. PICK s : /\ DOMAIN s = TaskFields /\ s.why \in Whys /\ s.at = "done"
               /\ task' = [task EXCEPT ![t] = s]
  <2> DEFINE r == IF task[t].why = "finish" THEN task[t] ELSE [task[t] EXCEPT !.fail = TRUE]
  <2>1. DOMAIN r = TaskFields /\ r.why \in Whys
    BY DEF PoolInv, Shape, TaskFields
  <2>2. task' = [task EXCEPT ![t] = Over(r)]
    BY DEF Cleanup, Goto, GiveUp
  <2> HIDE DEF r
  <2>3. DOMAIN Over(r) = TaskFields /\ Over(r).why \in Whys /\ Over(r).at = "done"
    BY <2>1 DEF Over, TaskFields
  <2> QED BY <2>2, <2>3
<1>2. lock = t /\ t \notin Counted
  BY DEF Cleanup, PoolInv, Locked, Counted
<1>3. DOMAIN pool' = PoolFields
  BY CloseShape DEF Cleanup
<1> QED BY <1>1, <1>2, <1>3, HolderKeeps DEF Cleanup

LEMMA WaitKeeps ==
    ASSUME SolverAssumption, PoolInv, NEW t \in Tasks,
           GetReturns(t) \/ GetTimesOut(t) \/ Discarded(t)
    PROVE  PoolInv'
<1>1. /\ t \notin Counted /\ task[t].at \in {"get", "discard"}
      /\ UNCHANGED <<lock, reaper>>
  BY DEF GetReturns, GetTimesOut, Discarded, Counted
<1>2. /\ DOMAIN task[t] = TaskFields /\ task[t].why \in Whys
      /\ DOMAIN pool = PoolFields
  BY DEF PoolInv, Shape
<1>3. CASE GetReturns(t)
  BY <1>1, <1>2, <1>3, TakeMoves, MovedKeeps DEF GetReturns
<1>4. CASE GetTimesOut(t)
  <2> DEFINE r == [task[t] EXCEPT !.why = "retry", !.force = TRUE]
  <2>1. DOMAIN r = TaskFields /\ r.why \in Whys
    BY <1>2 DEF TaskFields, Whys
  <2>2. \/ Ensure(t, r, pool)
        \/ GiveUp(t) /\ pool' = pool /\ inFlight' = inFlight
    BY <1>4 DEF GetTimesOut
  <2> HIDE DEF r
  <2>3. Moved(t, pool.queue)
    BY <1>2, <2>1, <2>2, EnsureMoves, GiveUpMoves
  <2> QED BY <1>1, <2>3, MovedKeeps
<1>5. CASE Discarded(t)
  <2> DEFINE r == [task[t] EXCEPT !.attempt = @ + 1]
  <2>1. DOMAIN r = TaskFields /\ r.why \in Whys
    BY <1>2 DEF TaskFields
  <2>2. DOMAIN Empty(pool) = PoolFields /\ Empty(pool).queue = pool.queue
    BY <1>2 DEF Empty, PoolFields
  <2>3. \/ Ensure(t, r, Empty(pool))
        \/ GiveUp(t) /\ pool' = Empty(pool) /\ inFlight' = inFlight
    BY <1>5 DEF Discarded
  <2> HIDE DEF r
  <2>4. Moved(t, pool.queue)
    BY <1>2, <2>1, <2>2, <2>3, EnsureMoves, GiveUpMoves
  <2> QED BY <1>1, <2>4, MovedKeeps
<1> QED BY <1>3, <1>4, <1>5

-----------------------------------------------------------------------------
(* A task that is counted stays so, or ends its lease and puts its browser   *)
(* back or not.  A pool with a lease is not being taken down.                *)
LEMMA CountedKeeps ==
    ASSUME SolverAssumption, PoolInv, NEW t \in Counted, NEW s,
           DOMAIN s = TaskFields, s.why \in Whys, task' = [task EXCEPT ![t] = s],
           DOMAIN pool' = PoolFields, UNCHANGED <<lock, reaper>>,
           \/ s.at \in {"close", "drop"} /\ inFlight' = inFlight
           \/ /\ s.at \in {"lock", "done"}
              /\ inFlight' = IF inFlight > 0 THEN inFlight - 1 ELSE 0
    PROVE  PoolInv'
<1>1. t \in Tasks /\ task'[t] = s /\ \A u \in Tasks \ {t} : task'[u] = task[u]
  BY DEF PoolInv, Shape, Counted
<1>2. Shape'
  BY <1>1 DEF PoolInv, Shape
<1>3. Locked'
  BY <1>1 DEF PoolInv, Locked
<1>4. ~TakenDown'
  BY <1>1 DEF PoolInv, Deserted, TakenDown
<1>5. CountIsRight'
  <2>1. CASE s.at \in {"close", "drop"} /\ inFlight' = inFlight
    <3>1. Counted' = Counted
      BY <1>1, <2>1 DEF Counted
    <3> QED BY <2>1, <3>1 DEF PoolInv, CountIsRight
  <2>2. CASE /\ s.at \in {"lock", "done"}
             /\ inFlight' = IF inFlight > 0 THEN inFlight - 1 ELSE 0
    <3>1. Counted' = Counted \ {t}
      BY <1>1, <2>2 DEF Counted
    <3> QED BY <1>1, <2>2, <3>1, CountOut
  <2> QED BY <2>1, <2>2
<1> QED BY <1>2, <1>3, <1>4, <1>5 DEF PoolInv, Deserted

LEMMA FinishKeeps ==
    ASSUME SolverAssumption, PoolInv, NEW t \in Counted, NEW p, DOMAIN p = PoolFields,
           NEW reusable, Finish(t, p, reusable), UNCHANGED <<lock, reaper>>
    PROVE  PoolInv'
<1>1. DOMAIN task[t] = TaskFields /\ t \in Tasks
  BY DEF PoolInv, Shape, Counted
<1> DEFINE degraded == p.ready /\ Cardinality(p.owned) < Threads
           r == [task[t] EXCEPT !.why = "finish", !.force = degraded, !.item = None]
           queued == [r EXCEPT !.at = "lock"]
<1>2. DOMAIN r = TaskFields /\ r.why \in Whys
  BY <1>1 DEF TaskFields, Whys
<1>3. /\ Goto(t, queued) \/ Goto(t, Over(r))
      /\ inFlight' = IF inFlight > 0 THEN inFlight - 1 ELSE 0
      /\ pool' = p
  BY DEF Finish
<1> HIDE DEF r
<1>4. /\ DOMAIN Over(r) = TaskFields /\ Over(r).why \in Whys /\ Over(r).at = "done"
      /\ DOMAIN queued = TaskFields /\ queued.why \in Whys /\ queued.at = "lock"
  BY <1>2 DEF Over, TaskFields
<1> HIDE DEF queued
<1> QED BY <1>3, <1>4, CountedKeeps DEF Goto

LEMMA LeaseKeeps ==
    ASSUME SolverAssumption, PoolInv, NEW t \in Tasks,
           Solve(t) \/ Release(t) \/ Discard(t) \/ Dropped(t)
    PROVE  PoolInv'
<1>1. t \in Counted /\ UNCHANGED <<lock, reaper>>
  BY DEF Solve, Release, Discard, Dropped, Counted
<1>2. /\ DOMAIN task[t] = TaskFields /\ task[t].why \in Whys
      /\ DOMAIN pool = PoolFields
  BY DEF PoolInv, Shape
<1>3. CASE Solve(t)
  <2> PICK failed \in BOOLEAN :
            task' = [task EXCEPT ![t] = [task[t] EXCEPT !.at = "close", !.fail = failed]]
    BY <1>3 DEF Solve, Goto
  <2> DEFINE s == [task[t] EXCEPT !.at = "close", !.fail = failed]
  <2>1. DOMAIN s = TaskFields /\ s.why \in Whys /\ s.at = "close"
    BY <1>2 DEF TaskFields
  <2> HIDE DEF s
  <2>2. task' = [task EXCEPT ![t] = s]
    BY DEF s
  <2> QED BY <1>1, <1>2, <1>3, <2>1, <2>2, CountedKeeps DEF Solve
<1>4. CASE Release(t)
  <2>1. DOMAIN [pool EXCEPT !.queue = @ \cup {task[t].item}] = PoolFields
    BY <1>2 DEF PoolFields
  <2> QED BY <1>1, <1>4, <2>1, FinishKeeps DEF Release
<1>5. CASE Discard(t)
  <2> DEFINE s == [task[t] EXCEPT !.at = "drop"]
  <2>1. DOMAIN s = TaskFields /\ s.why \in Whys /\ s.at = "drop"
    BY <1>2 DEF TaskFields
  <2>2. task' = [task EXCEPT ![t] = s] /\ inFlight' = inFlight
    BY <1>5 DEF Discard, Goto
  <2>3. DOMAIN pool' = PoolFields
    BY <1>2, <1>5 DEF Discard, PoolFields
  <2> HIDE DEF s
  <2> QED BY <1>1, <2>1, <2>2, <2>3, CountedKeeps
<1>6. CASE Dropped(t)
  <2>1. DOMAIN Empty(pool) = PoolFields
    BY <1>2 DEF Empty, PoolFields
  <2> QED BY <1>1, <1>6, <2>1, FinishKeeps DEF Dropped
<1> QED BY <1>3, <1>4, <1>5, <1>6

LEMMA ReaperKeeps ==
    ASSUME SolverAssumption, PoolInv, ReaperWakes \/ ReaperLocks \/ ReaperCloses
    PROVE  PoolInv'
<1>1. UNCHANGED <<inFlight, task>> /\ Counted' = Counted
  BY DEF ReaperWakes, ReaperLocks, ReaperIf, ReaperCloses, Counted
<1>2. CASE UNCHANGED <<pool, lock>> /\ reaper' # "shutdown"
  <2>1. TakenDown' => TakenDown
    BY <1>1, <1>2 DEF TakenDown
  <2> QED BY <1>1, <1>2, <2>1
          DEF PoolInv, Shape, CountIsRight, Locked, Deserted
<1>3. CASE /\ Idle /\ lock = None /\ lock' = Reaper
           /\ pool' = [pool EXCEPT !.queue = {}]
  <2>1. Counted = {}
    BY <1>3, NobodyCounted DEF Idle
  <2>2. DOMAIN pool' = PoolFields /\ pool'.queue = {}
    BY <1>3 DEF PoolInv, Shape, PoolFields
  <2>3. Locked'
    BY <1>1, <1>3 DEF PoolInv, Locked, SolverAssumption
  <2> QED BY <1>1, <2>1, <2>2, <2>3 DEF PoolInv, Shape, CountIsRight, Deserted
<1>4. CASE ReaperCloses
  <2>1. ~TakenDown'
    BY <1>1, <1>4 DEF ReaperCloses, PoolInv, Locked, TakenDown, SolverAssumption
  <2>2. DOMAIN pool' = PoolFields
    BY <1>4, CloseShape DEF ReaperCloses
  <2>3. Locked'
    BY <1>1, <1>4 DEF ReaperCloses, PoolInv, Locked, SolverAssumption
  <2> QED BY <1>1, <2>1, <2>2, <2>3 DEF PoolInv, Shape, CountIsRight, Deserted
<1> QED BY <1>2, <1>3, <1>4 DEF ReaperWakes, ReaperLocks, ReaperIf

LEMMA InvStep ==
    ASSUME SolverAssumption, PoolInv, [Next]_vars
    PROVE  PoolInv'
<1>1. CASE \/ UNCHANGED vars
           \/ \E b \in Browsers : Dies(b)
           \/ Quiet
  <2>1. UNCHANGED <<pool, lock, inFlight, task, reaper>>
    BY <1>1 DEF vars, Dies, Quiet
  <2> QED BY <2>1
          DEF PoolInv, Shape, CountIsRight, Counted, Locked, Deserted, TakenDown
<1>2. ASSUME NEW t \in Tasks, Begin(t) \/ Step(t) PROVE PoolInv'
  BY <1>2, BeginKeeps, LockKeeps, ShutdownKeeps, LaunchKeeps, LaunchFailsKeeps,
     CleanupKeeps, WaitKeeps, LeaseKeeps DEF Step
<1>3. CASE ReaperWakes \/ ReaperLocks \/ ReaperCloses
  BY <1>3, ReaperKeeps
<1> QED BY <1>1, <1>2, <1>3 DEF Next

LEMMA InvHolds ==
    ASSUME SolverAssumption
    PROVE  Spec => []PoolInv
<1>1. Init => PoolInv
  BY InvInit
<1>2. PoolInv /\ [Next]_vars => PoolInv'
  BY InvStep
<1> QED BY <1>1, <1>2, PTL DEF Spec

-----------------------------------------------------------------------------
(* Types, and the repair of a degraded pool                                  *)

(* A task has attempts left, one that goes back for another try has two.     *)
Tasked == {s \in Task : /\ s.attempt < MaxAttempts
                        /\ s.why = "retry" => s.attempt + 1 < MaxAttempts}

Typed ==
    /\ task \in [Tasks -> Tasked]
    /\ pool \in Pool
    /\ alive \in SUBSET Browsers /\ made \in SUBSET Browsers
    /\ lock \in Tasks \cup {Reaper, None}
    /\ reaper \in {"sleep", "lock", "shutdown"}
    /\ recent \in BOOLEAN /\ faults \in 0 .. MaxFaults

(* A lease that has ended calls _ensure_pool at most; nothing that is being  *)
(* launched is ready.                                                        *)
Placed ==
    /\ \A t \in Tasks :
         /\ task[t].at \in {"new", "get", "discard", "solve", "close",
            "drop"} => task[t].why = "acquire"
         /\ task[t].at \in {"launch", "cleanup"} => ~pool.ready

(* A task that will see to a degraded pool: it has not had its lease, or it  *)
(* has found the pool degraded when the lease ended, or it rebuilds.         *)
Repairs(t) ==
    /\ task[t].at # "new"
    /\ task[t].why # "finish" \/ (task[t].at = "lock" /\ task[t].force) \/ task[t].at = "shutdown"

Repaired == pool.ready /\ Cardinality(pool.owned) < Threads => \E t \in Tasks : Repairs(t)

RestInv == PoolInv /\ Typed /\ Placed /\ Repaired

LEMMA Attempts ==
    ASSUME SolverAssumption
    PROVE  /\ MaxAttempts \in Nat /\ 0 \in 0 .. MaxAttempts /\ 0 < MaxAttempts
              /\ 0 + 1 < MaxAttempts
           /\ \A n \in 0 .. MaxAttempts : n + 1 < MaxAttempts => n + 1 \in 0 .. MaxAttempts
BY DEF SolverAssumption, MaxAttempts

LEMMA FinitePool ==
    ASSUME SolverAssumption, NEW S \in SUBSET Browsers
    PROVE  /\ IsFiniteSet(S) /\ Cardinality(S) \in Nat
           /\ \A T : Cardinality(S \cap T) <= Cardinality(S) /\ Cardinality(S \cap T) \in Nat
<1>1. IsFiniteSet(S) /\ Cardinality(S) \in Nat
  BY FS_Subset, FS_CardinalityType DEF SolverAssumption
<1>2. ASSUME NEW T PROVE Cardinality(S \cap T) <= Cardinality(S) /\ Cardinality(S \cap T) \in Nat
  <2>1. S \cap T \in SUBSET S
    OBVIOUS
  <2> QED BY <1>1, <2>1, FS_Subset, FS_CardinalityType
<1> QED BY <1>1, <1>2

LEMMA FullServes ==
    ASSUME SolverAssumption, NEW p \in Pool, CanServe(p, TRUE)
    PROVE  ~(Cardinality(p.owned) < Threads)
<1>1. p.owned \in SUBSET Browsers
  BY DEF Pool
<1>2. Cardinality(p.owned \cap alive) >= Threads
  BY DEF CanServe
<1>3. /\ Cardinality(p.owned \cap alive) <= Cardinality(p.owned)
      /\ Cardinality(p.owned \cap alive) \in Nat /\ Cardinality(p.owned) \in Nat
  BY <1>1, FinitePool
<1> QED BY <1>2, <1>3 DEF SolverAssumption

(* Records of tasks with some fields changed.                                *)
LEMMA LeaseRecord ==
    ASSUME NEW r \in Task, NEW b \in Browsers, 0 \in 0 .. MaxAttempts
    PROVE  LET s == [r EXCEPT !.at = "solve", !.item = b, !.attempt = 0]
           IN s \in Task /\ s.at = "solve" /\ s.attempt = 0 /\ s.why = r.why
<1>1. [r EXCEPT !.at = "solve", !.item = b, !.attempt = 0] \in Task
  BY DEF Task
<1> QED BY <1>1 DEF Task

LEMMA RetryRecord ==
    ASSUME NEW r \in Task, r.attempt + 1 \in 0 .. MaxAttempts
    PROVE  LET s == [r EXCEPT !.why = "acquire", !.force = FALSE, !.attempt = @ + 1]
           IN s \in Task /\ s.why = "acquire" /\ s.attempt = r.attempt + 1
<1>1. [r EXCEPT !.why = "acquire", !.force = FALSE, !.attempt = @ + 1] \in Task
  BY DEF Task
<1> QED BY <1>1 DEF Task

LEMMA OverRecord ==
    ASSUME NEW r \in Task, 0 \in 0 .. MaxAttempts
    PROVE  Over(r) \in Task /\ Over(r).why = r.why /\ Over(r).at = "done" /\ Over(r).attempt = 0
<1>1. [r EXCEPT !.at = "done", !.force = FALSE, !.attempt = 0] \in Task
  BY DEF Task
<1> QED BY <1>1 DEF Task, Over

LEMMA NotEmpty == ASSUME NEW S, Cardinality(S) > 0 PROVE S # {}
BY FS_EmptySet

(* What the calls of _ensure_pool and _acquire_browser leave.                *)
Went(t, r, p) ==
    \E s \in Tasked :
        /\ task' = [task EXCEPT ![t] = s]
        /\ pool' \in Pool /\ pool'.ready = p.ready
        /\ s.at \in {"get", "discard", "solve"} => s.why = "acquire"
        /\ s.at \in {"get", "discard", "solve", "lock", "done"}
        /\ s.why = "finish" =>
              /\ r.why = "finish" /\ pool' = p /\ inFlight' = inFlight
              /\ s.at = "done" \/ (s.at = "lock" /\ s.force = r.force)

LEMMA WentTake ==
    ASSUME SolverAssumption, NEW t \in Tasks, NEW r \in Tasked, NEW p \in Pool,
           NEW b \in p.queue, r.why = "acquire", Take(t, r, b, p)
    PROVE  Went(t, r, p)
<1>1. CASE b \in alive
  <2> DEFINE s == [r EXCEPT !.at = "solve", !.item = b, !.attempt = 0]
  <2>1. s \in Tasked /\ s.why = "acquire" /\ s.at = "solve"
    <3>1. b \in Browsers /\ r \in Task
      BY DEF Pool, Tasked
    <3>2. s \in Task /\ s.at = "solve" /\ s.attempt = 0 /\ s.why = r.why
      BY <3>1, Attempts, LeaseRecord
    <3> QED BY <3>2, Attempts DEF Tasked
  <2>2. task' = [task EXCEPT ![t] = s] /\ pool' \in Pool /\ pool'.ready = p.ready
    BY <1>1 DEF Take, Goto, Pool
  <2> HIDE DEF s
  <2> QED BY <2>1, <2>2 DEF Went
<1>2. CASE b \notin alive
  <2> DEFINE s == [r EXCEPT !.at = "discard"]
  <2>1. s \in Tasked /\ s.why = "acquire" /\ s.at = "discard"
    BY DEF Tasked, Task
  <2>2. task' = [task EXCEPT ![t] = s] /\ pool' \in Pool /\ pool'.ready = p.ready
    BY <1>2, ZenonT(60) DEF Take, Goto, Pool
  <2> HIDE DEF s
  <2> QED BY <2>1, <2>2 DEF Went
<1> QED BY <1>1, <1>2

LEMMA WentGet ==
    ASSUME SolverAssumption, NEW t \in Tasks, NEW r \in Tasked, NEW p \in Pool,
           r.why = "acquire", Get(t, r, p)
    PROVE  Went(t, r, p)
<1>1. CASE \E b \in p.queue : Take(t, r, b, p)
  BY <1>1, WentTake
<1>2. CASE Goto(t, [r EXCEPT !.at = "get"]) /\ pool' = p
  <2> DEFINE s == [r EXCEPT !.at = "get"]
  <2>1. s \in Tasked /\ s.why = "acquire" /\ s.at = "get"
    BY DEF Tasked, Task
  <2>2. task' = [task EXCEPT ![t] = s] /\ pool' \in Pool /\ pool'.ready = p.ready
    BY <1>2 DEF Goto
  <2> HIDE DEF s
  <2> QED BY <2>1, <2>2 DEF Went
<1> QED BY <1>1, <1>2 DEF Get

LEMMA WentStop ==
    ASSUME NEW t \in Tasks, NEW r \in Tasked, NEW p \in Pool, NEW s \in Tasked,
           s.why = r.why \/ s.why # "finish",
             s.force = r.force \/ s.why # "finish" \/ s.at = "done",
           s.at \in {"lock", "done"}, Goto(t, s), pool' = p, inFlight' = inFlight
    PROVE  Went(t, r, p)
BY DEF Went, Goto

LEMMA OverTasked ==
    ASSUME SolverAssumption, NEW r \in Tasked
    PROVE  Over(r) \in Tasked /\ Over(r).why = r.why /\ Over(r).at = "done"
<1>1. r \in Task
  BY DEF Tasked
<1>2. Over(r) \in Task /\ Over(r).why = r.why /\ Over(r).at = "done" /\ Over(r).attempt = 0
  BY <1>1, Attempts, OverRecord
<1> QED BY <1>2, Attempts DEF Tasked

LEMMA WentReturn ==
    ASSUME SolverAssumption, NEW t \in Tasks, NEW r \in Tasked, NEW p \in Pool, Return(t, r, p)
    PROVE  Went(t, r, p)
<1>1. CASE r.why = "acquire"
  BY <1>1, WentGet DEF Return
<1>2. CASE r.why = "retry"
  <2> DEFINE next == [r EXCEPT !.why = "acquire", !.force = FALSE, !.attempt = @ + 1]
             s == [next EXCEPT !.at = "lock"]
  <2>1. next \in Tasked /\ next.why = "acquire" /\ s \in Tasked /\ s.why # "finish"
        /\ s.at = "lock"
    <3>1. r \in Task /\ r.attempt + 1 < MaxAttempts /\ r.attempt + 1 \in 0 .. MaxAttempts
      BY <1>2, Attempts DEF Tasked, Task
    <3>2. next \in Task /\ next.why = "acquire" /\ next.attempt = r.attempt + 1
      BY <3>1, RetryRecord
    <3> HIDE DEF next
    <3>3. s \in Task /\ s.at = "lock" /\ s.why = next.why /\ s.attempt = next.attempt
      BY <3>2 DEF Task
    <3> QED BY <3>1, <3>2, <3>3 DEF Tasked
  <2>2. Get(t, next, p) \/ (Goto(t, s) /\ pool' = p /\ UNCHANGED inFlight)
    BY <1>2 DEF Return
  <2> HIDE DEF next, s
  <2>3. CASE Get(t, next, p)
    BY <2>1, <2>3, WentGet DEF Went
  <2> QED BY <2>1, <2>2, <2>3, WentStop
<1>3. CASE r.why = "finish"
  <2>1. Goto(t, Over(r)) /\ pool' = p /\ inFlight' = inFlight
    BY <1>3 DEF Return
  <2> QED BY <2>1, OverTasked, WentStop
<1> QED BY <1>1, <1>2, <1>3 DEF Tasked, Task

LEMMA WentEnsure ==
    ASSUME SolverAssumption, NEW t \in Tasks, NEW r \in Tasked, NEW p \in Pool, Ensure(t, r, p)
    PROVE  Went(t, r, p)
<1> DEFINE s == [r EXCEPT !.at = "lock"]
<1>1. s \in Tasked /\ s.at = "lock" /\ s.why = r.why /\ s.force = r.force
  BY DEF Tasked, Task
<1>2. Return(t, r, p) \/ (Goto(t, s) /\ pool' = p /\ UNCHANGED inFlight)
  BY DEF Ensure
<1> HIDE DEF s
<1> QED BY <1>1, <1>2, WentReturn, WentStop

LEMMA WentGiveUp ==
    ASSUME SolverAssumption, NEW t \in Tasks, task[t] \in Tasked, NEW p \in Pool,
           GiveUp(t), pool' = p, inFlight' = inFlight
    PROVE  Went(t, task[t], p)
<1> DEFINE r == [task[t] EXCEPT !.fail = TRUE]
<1>1. r \in Tasked /\ r.why = task[t].why
  BY DEF Tasked, Task
<1>2. Goto(t, Over(r))
  BY DEF GiveUp
<1> HIDE DEF r
<1> QED BY <1>1, <1>2, OverTasked, WentStop

-----------------------------------------------------------------------------
(* One task moves to s, and the pool is degraded only while somebody will    *)
(* repair it.                                                                *)
LEMMA MoveRests ==
    ASSUME SolverAssumption, RestInv, PoolInv', NEW t \in Tasks, NEW s \in Tasked,
           task' = [task EXCEPT ![t] = s], pool' \in Pool,
           s.at \in {"new", "get", "discard", "solve", "close", "drop"} => s.why = "acquire",
           s.at \in {"launch", "cleanup"} => ~pool'.ready,
           \A u \in Tasks \ {t} : task[u].at \in {"launch", "cleanup"} => ~pool'.ready,
           \/ s.at # "new" /\ (s.why # "finish" \/ (s.at = "lock"
              /\ s.force) \/ s.at = "shutdown")
           \/ ~pool'.ready
           \/ ~(Cardinality(pool'.owned) < Threads)
           \/ inFlight' > 0
           \/ pool'.ready = pool.ready /\ pool'.owned = pool.owned /\ ~Repairs(t)
    PROVE  Placed' /\ Repaired'
<1>1. task'[t] = s /\ \A u \in Tasks \ {t} : task'[u] = task[u]
  BY DEF RestInv, Typed
<1>2. Placed'
  BY <1>1 DEF RestInv, Placed
<1>3. CASE s.at # "new" /\ (s.why # "finish" \/ (s.at = "lock" /\ s.force) \/ s.at = "shutdown")
  BY <1>1, <1>2, <1>3 DEF Repaired, Repairs
<1>4. CASE inFlight' > 0
  <2>1. Counted' # {}
    <3>1. inFlight' = Cardinality(Counted')
      BY DEF PoolInv, CountIsRight
    <3> QED BY <1>4, <3>1, NotEmpty
  <2>2. PICK v \in Tasks : task'[v].at \in {"solve", "close", "drop"}
    BY <2>1 DEF Counted
  <2> QED BY <1>2, <2>2 DEF Placed, Repaired, Repairs
<1>5. CASE pool'.ready = pool.ready /\ pool'.owned = pool.owned /\ ~Repairs(t)
  <2> SUFFICES ASSUME pool'.ready, Cardinality(pool'.owned) < Threads
               PROVE  \E u \in Tasks : Repairs(u)'
    BY <1>2 DEF Repaired
  <2>1. PICK u \in Tasks : Repairs(u)
    BY <1>5 DEF RestInv, Repaired
  <2> QED BY <1>1, <1>5, <2>1 DEF Repairs
<1> QED BY <1>2, <1>3, <1>4, <1>5 DEF Repaired

(* A caller that does not hold the lock and has not had its lease.           *)
LEMMA SeekerRests ==
    ASSUME SolverAssumption, RestInv, PoolInv', NEW t \in Tasks, NEW r \in Tasked, NEW p \in Pool,
           r.why # "finish", Went(t, r, p),
           \A u \in Tasks \ {t} : task[u].at \in {"launch", "cleanup"} => ~p.ready
    PROVE  task' \in [Tasks -> Tasked] /\ pool' \in Pool /\ Placed' /\ Repaired'
<1>1. PICK s \in Tasked :
        /\ task' = [task EXCEPT ![t] = s]
        /\ pool' \in Pool /\ pool'.ready = p.ready
        /\ s.at \in {"get", "discard", "solve", "lock", "done"}
        /\ s.at \in {"get", "discard", "solve"} => s.why = "acquire"
        /\ s.why # "finish"
  BY DEF Went
<1>2. Placed' /\ Repaired'
  BY <1>1, MoveRests
<1> QED BY <1>1, <1>2 DEF RestInv, Typed

-----------------------------------------------------------------------------
(* What an action on tasks and pool has to show.                             *)
Rests == task' \in [Tasks -> Tasked] /\ pool' \in Pool /\ Placed' /\ Repaired'

LEMMA TaskType ==
    ASSUME RestInv, NEW t \in Tasks
    PROVE  task[t] \in Tasked /\ task[t] \in Task /\ pool \in Pool
BY DEF RestInv, Typed, Tasked

LEMMA Holds ==
    ASSUME RestInv, NEW t \in Tasks, task[t].at \in {"shutdown", "launch", "cleanup"}
    PROVE  \A u \in Tasks \ {t} : task[u].at \notin {"shutdown", "launch", "cleanup"}
BY DEF RestInv, PoolInv, Locked

LEMMA SeekRests ==
    ASSUME SolverAssumption, RestInv, PoolInv', NEW t \in Tasks,
           Begin(t) \/ GetReturns(t) \/ GetTimesOut(t) \/ Discarded(t)
    PROVE  Rests
<1>1. task[t] \in Tasked /\ task[t] \in Task /\ pool \in Pool
  BY TaskType
<1>2. task[t].at \in {"new", "get", "discard"} /\ task[t].why = "acquire"
  BY DEF Begin, GetReturns, GetTimesOut, Discarded, RestInv, Placed
<1>3. Empty(pool) \in Pool /\ (Empty(pool).ready = pool.ready \/ ~Empty(pool).ready)
  BY <1>1 DEF Empty, Pool
<1>4. \A u \in Tasks : task[u].at \in {"launch", "cleanup"} => ~pool.ready
  BY DEF RestInv, Placed
<1>5. CASE Begin(t)
  BY <1>1, <1>2, <1>4, <1>5, WentEnsure, SeekerRests DEF Begin, Rests
<1>6. CASE GetReturns(t)
  BY <1>1, <1>2, <1>4, <1>6, WentTake, SeekerRests DEF GetReturns, Rests
<1>7. CASE /\ task[t].attempt + 1 < MaxAttempts
           /\ Ensure(t, [task[t] EXCEPT !.why = "retry", !.force = TRUE], pool)
  <2> DEFINE r == [task[t] EXCEPT !.why = "retry", !.force = TRUE]
  <2>1. Ensure(t, r, pool) /\ task[t].attempt + 1 < MaxAttempts
    BY <1>7
  <2>2. r \in Task /\ r.why = "retry" /\ r.attempt = task[t].attempt
    BY <1>1 DEF Task
  <2>3. r \in Tasked
    BY <1>1, <2>1, <2>2 DEF Tasked
  <2> HIDE DEF r
  <2> QED BY <1>1, <1>4, <2>1, <2>2, <2>3, WentEnsure, SeekerRests DEF Rests
<1>8. CASE GiveUp(t) /\ pool' = pool /\ inFlight' = inFlight
  BY <1>1, <1>2, <1>4, <1>8, WentGiveUp, SeekerRests DEF Rests
<1>9. CASE Discarded(t)
  <2>1. CASE GiveUp(t) /\ pool' = Empty(pool) /\ inFlight' = inFlight
    BY <1>1, <1>2, <1>3, <1>4, <2>1, WentGiveUp, SeekerRests DEF Rests
  <2>2. CASE /\ task[t].attempt + 1 # MaxAttempts
             /\ Ensure(t, [task[t] EXCEPT !.attempt = @ + 1], Empty(pool))
    <3> DEFINE r == [task[t] EXCEPT !.attempt = @ + 1]
    <3>1. task[t].attempt + 1 < MaxAttempts /\ task[t].attempt + 1 \in 0 .. MaxAttempts
      BY <1>1, <2>2, Attempts DEF Tasked, Task
    <3>2. r \in Task /\ r.attempt = task[t].attempt + 1 /\ r.why = task[t].why
      BY <1>1, <3>1 DEF Task
    <3>4. r \in Tasked
      BY <1>2, <3>1, <3>2 DEF Tasked
    <3> HIDE DEF r
    <3>5. Ensure(t, r, Empty(pool))
      BY <2>2 DEF r
    <3> QED BY <1>2, <1>3, <1>4, <3>2, <3>4, <3>5, WentEnsure, SeekerRests DEF Rests
  <2> QED BY <1>9, <2>1, <2>2 DEF Discarded
<1> QED BY <1>5, <1>6, <1>7, <1>8, <1>9 DEF GetTimesOut

LEMMA RebuildRests ==
    ASSUME SolverAssumption, RestInv, PoolInv', NEW t \in Tasks, task[t].at = "lock", lock = None,
           Rebuild(t)
    PROVE  Rests
<1>1. task[t] \in Tasked /\ task[t] \in Task /\ pool \in Pool
  BY TaskType
<1> DEFINE place == IF pool.ready \/ pool.owned \cup pool.queue # {} \/ pool.drivers
                    THEN "shutdown" ELSE "launch"
           s == [task[t] EXCEPT !.at = place]
<1>2. /\ place \in {"shutdown", "launch"} /\ (place = "launch" => ~pool.ready)
      /\ task' = [task EXCEPT ![t] = s]
  BY DEF Rebuild, Goto
<1> HIDE DEF place
<1>3. s \in Tasked /\ s.at = place
  BY <1>1, <1>2 DEF Tasked, Task
<1> HIDE DEF s
<1>4. pool' \in Pool /\ pool'.ready = pool.ready
  BY <1>1 DEF Rebuild, Pool
<1>5. \A u \in Tasks : task[u].at \notin {"launch", "cleanup"}
  BY DEF RestInv, PoolInv, Locked, SolverAssumption
<1>6. Placed' /\ Repaired'
  BY <1>2, <1>3, <1>4, <1>5, MoveRests
<1> QED BY <1>2, <1>3, <1>4, <1>6 DEF Rests, RestInv, Typed

LEMMA LockRests ==
    ASSUME SolverAssumption, RestInv, PoolInv', NEW t \in Tasks, Lock(t)
    PROVE  Rests
<1>1. task[t] \in Tasked /\ task[t] \in Task /\ pool \in Pool
  BY TaskType
<1>2. task[t].at = "lock" /\ lock = None
  BY DEF Lock
<1>3. \A u \in Tasks : task[u].at \notin {"launch", "cleanup"}
  BY <1>2 DEF RestInv, PoolInv, Locked, SolverAssumption
<1>4. CASE /\ CanServe(pool, task[t].force) \/ inFlight > 0
           /\ Return(t, task[t], pool)
  <2>1. PICK s \in Tasked :
        /\ task' = [task EXCEPT ![t] = s]
        /\ pool' \in Pool /\ pool'.ready = pool.ready
        /\ s.at \in {"get", "discard", "solve"} => s.why = "acquire"
        /\ s.at \in {"get", "discard", "solve", "lock", "done"}
        /\ s.why = "finish" =>
              /\ task[t].why = "finish" /\ pool' = pool /\ inFlight' = inFlight
              /\ s.at = "done" \/ (s.at = "lock" /\ s.force = task[t].force)
    BY <1>1, <1>4, WentReturn DEF Went
  <2>2. CASE s.why # "finish"
    <3>1. Placed' /\ Repaired'
      BY <1>3, <2>1, <2>2, MoveRests
    <3> QED BY <2>1, <3>1 DEF Rests, RestInv, Typed
  <2>3. CASE s.why = "finish"
    <3>1. pool' = pool /\ inFlight' = inFlight /\ task[t].why = "finish"
      BY <2>1, <2>3
    <3>2. \/ inFlight' > 0
          \/ ~(Cardinality(pool'.owned) < Threads)
          \/ ~Repairs(t)
      <4>1. CASE inFlight > 0
        BY <3>1, <4>1
      <4>2. CASE task[t].force = TRUE /\ CanServe(pool, TRUE)
        BY <1>1, <3>1, <4>2, FullServes
      <4>3. CASE task[t].force = FALSE
        BY <1>2, <3>1, <4>3 DEF Repairs
      <4>4. task[t].force \in BOOLEAN
        BY <1>1 DEF Task
      <4> QED BY <1>4, <4>1, <4>2, <4>3, <4>4
    <3>3. Placed' /\ Repaired'
      BY <1>3, <2>1, <2>3, <3>1, <3>2, MoveRests
    <3> QED BY <2>1, <3>3 DEF Rests, RestInv, Typed
  <2> QED BY <2>2, <2>3
<1>5. CASE Rebuild(t)
  BY <1>2, <1>5, RebuildRests
<1> QED BY <1>4, <1>5 DEF Lock

(* The pool is not ready after the step.                                     *)
LEMMA UnreadyRests ==
    ASSUME SolverAssumption, RestInv, PoolInv', NEW t \in Tasks, NEW s \in Tasked,
           task' = [task EXCEPT ![t] = s], pool' \in Pool, ~pool'.ready,
           s.at \in {"launch", "cleanup", "done"}
    PROVE  Rests
<1>1. Placed' /\ Repaired'
  BY MoveRests
<1> QED BY <1>1 DEF Rests, RestInv, Typed

LEMMA CloseType ==
    ASSUME RestInv, NEW q, q \subseteq Browsers, Close(q)
    PROVE  pool' \in Pool /\ ~pool'.ready /\ alive' \in SUBSET Browsers
<1>1. pool'.ready = FALSE /\ alive' \subseteq alive
  BY DEF Close
<1>2. pool' \in Pool
  BY DEF Close, Pool
<1> QED BY <1>1, <1>2 DEF RestInv, Typed

LEMMA ShutdownRests ==
    ASSUME SolverAssumption, RestInv, PoolInv', NEW t \in Tasks, Shutdown(t)
    PROVE  Rests
<1> DEFINE s == [task[t] EXCEPT !.at = "launch"]
<1>1. s \in Tasked /\ s.at = "launch"
  BY TaskType DEF Tasked, Task
<1>2. task' = [task EXCEPT ![t] = s] /\ Close({})
  BY DEF Shutdown, Goto
<1> HIDE DEF s
<1> QED BY <1>1, <1>2, CloseType, UnreadyRests

LEMMA CleanupRests ==
    ASSUME SolverAssumption, RestInv, PoolInv', NEW t \in Tasks, Cleanup(t)
    PROVE  Rests
<1> DEFINE r == IF task[t].why = "finish" THEN task[t] ELSE [task[t] EXCEPT !.fail = TRUE]
<1>1. r \in Tasked
  BY TaskType DEF Tasked, Task
<1>2. task' = [task EXCEPT ![t] = Over(r)] /\ Close(pool.queue)
  BY DEF Cleanup, Goto, GiveUp
<1> HIDE DEF r
<1>3. Over(r) \in Tasked /\ Over(r).at = "done"
  BY <1>1, OverTasked
<1>4. pool.queue \subseteq Browsers
  BY TaskType DEF Pool
<1> QED BY <1>2, <1>3, <1>4, CloseType, UnreadyRests

LEMMA FailedRests ==
    ASSUME SolverAssumption, RestInv, PoolInv', NEW t \in Tasks, NEW p \in Pool, Failed(t, p)
    PROVE  Rests
<1> DEFINE s == [task[t] EXCEPT !.at = "cleanup"]
<1>1. s \in Tasked /\ s.at = "cleanup"
  BY TaskType DEF Tasked, Task
<1>2. task' = [task EXCEPT ![t] = s]
  BY DEF Failed, Goto
<1>3. pool' \in Pool /\ ~pool'.ready
  BY DEF Failed, Pool
<1> HIDE DEF s
<1> QED BY <1>1, <1>2, <1>3, UnreadyRests

LEMMA LaunchRests ==
    ASSUME SolverAssumption, RestInv, PoolInv', NEW t \in Tasks, Launch(t)
    PROVE  Rests
<1> DEFINE b == CHOOSE c \in Browsers : c \notin Used
           p == [pool EXCEPT !.owned = made \cup {b}, !.queue = @ \cup {b},
                             !.drivers = TRUE]
           full == [p EXCEPT !.ready = TRUE]
<1>1. b \in Browsers /\ b \notin made
  BY DEF Launch, Used
<1>2. task[t] \in Tasked /\ pool \in Pool /\ made \in SUBSET Browsers
  BY TaskType DEF RestInv, Typed
<1>3. task[t].at = "launch" /\ ~pool.ready
  BY DEF Launch, RestInv, Placed
<1>4. \/ pool' = p /\ UNCHANGED task
      \/ Failed(t, full)
      \/ ~(Cardinality(made) + 1 < Threads) /\ Return(t, task[t], full)
  BY DEF Launch
<1> HIDE DEF b
<1>5. /\ p \in Pool /\ full \in Pool /\ full.owned = made \cup {b}
      /\ ~p.ready
  BY <1>1, <1>2, <1>3 DEF Pool
<1>6. \A u \in Tasks \ {t} : task[u].at \notin {"launch", "cleanup"}
  BY <1>3, Holds
<1> HIDE DEF p, full
<1>7. CASE pool' = p /\ UNCHANGED task
  <2>1. ~pool'.ready
    BY <1>5, <1>7
  <2>2. Placed' /\ Repaired'
    BY <1>7, <2>1 DEF RestInv, Placed, Repaired
  <2> QED BY <1>5, <1>7, <2>2 DEF Rests, RestInv, Typed
<1>8. CASE Failed(t, full)
  BY <1>5, <1>8, FailedRests
<1>9. CASE ~(Cardinality(made) + 1 < Threads) /\ Return(t, task[t], full)
  <2>1. PICK s \in Tasked :
        /\ task' = [task EXCEPT ![t] = s]
        /\ pool' \in Pool
        /\ s.at \in {"get", "discard", "solve"} => s.why = "acquire"
        /\ s.at \in {"get", "discard", "solve", "lock", "done"}
        /\ s.why = "finish" => pool' = full
    BY <1>2, <1>5, <1>9, WentReturn DEF Went
  <2>2. s.why = "finish" => ~(Cardinality(pool'.owned) < Threads)
    <3>1. IsFiniteSet(made) /\ Cardinality(made) \in Nat
      BY <1>2, FinitePool
    <3>2. Cardinality(made \cup {b}) = Cardinality(made) + 1
      BY <1>1, <3>1, FS_AddElement
    <3> QED BY <1>5, <1>9, <2>1, <3>2
  <2>3. Placed' /\ Repaired'
    BY <1>6, <2>1, <2>2, MoveRests
  <2> QED BY <2>1, <2>3 DEF Rests, RestInv, Typed
<1> QED BY <1>4, <1>7, <1>8, <1>9

LEMMA LaunchFailsRests ==
    ASSUME SolverAssumption, RestInv, PoolInv', NEW t \in Tasks, LaunchFails(t)
    PROVE  Rests
<1>1. [pool EXCEPT !.drivers = TRUE] \in Pool
  BY TaskType DEF Pool
<1> QED BY <1>1, FailedRests DEF LaunchFails

(* The end of a lease.                                                       *)
LEMMA FinishRecord ==
    ASSUME NEW r \in Task, NEW f \in BOOLEAN
    PROVE  LET s == [r EXCEPT !.why = "finish", !.force = f, !.item = None]
           IN s \in Task /\ s.why = "finish" /\ s.attempt = r.attempt /\ s.force = f
<1>1. [r EXCEPT !.why = "finish", !.force = f, !.item = None] \in Task
  BY DEF Task
<1> QED BY <1>1 DEF Task

LEMMA FinishRests ==
    ASSUME SolverAssumption, RestInv, PoolInv', NEW t \in Tasks,
           NEW p \in Pool, p.ready = pool.ready \/ ~p.ready,
           NEW reusable \in BOOLEAN, Finish(t, p, reusable)
    PROVE  Rests
<1> DEFINE degraded == p.ready /\ Cardinality(p.owned) < Threads
           r == [task[t] EXCEPT !.why = "finish", !.force = degraded, !.item = None]
           queued == [r EXCEPT !.at = "lock"]
           n == IF inFlight > 0 THEN inFlight - 1 ELSE 0
<1>1. pool' = p /\ inFlight' = n
  BY DEF Finish
<1>2. degraded \in BOOLEAN /\ task[t] \in Task /\ task[t] \in Tasked
  BY TaskType DEF Pool
<1>3. r \in Task /\ r.why = "finish" /\ r.attempt = task[t].attempt /\ r.force = degraded
  BY <1>2, FinishRecord
<1>4. \/ Goto(t, queued)
      \/ /\ Goto(t, Over(r))
         /\ ~((~reusable \/ degraded) /\ n <= 0 /\ ~CanServe(p, r.force))
  BY DEF Finish
<1>5. n \in Int
  <2>1. inFlight \in Nat
    BY FS_Subset, FS_CardinalityType DEF RestInv, PoolInv, CountIsRight, SolverAssumption, Counted
  <2> QED BY <2>1
<1>6. \A u \in Tasks : task[u].at \in {"launch", "cleanup"} => ~pool'.ready
  BY <1>1 DEF RestInv, Placed
<1> HIDE DEF r
<1>7. r \in Tasked
  BY <1>2, <1>3 DEF Tasked
<1>8. CASE Goto(t, queued)
  <2>1. queued \in Tasked /\ queued.at = "lock" /\ queued.force = degraded
    BY <1>3, <1>7 DEF Tasked, Task
  <2> HIDE DEF queued
  <2>2. task' = [task EXCEPT ![t] = queued]
    BY <1>8 DEF Goto
  <2>3. queued.force \/ ~pool'.ready \/ ~(Cardinality(pool'.owned) < Threads)
    BY <1>1, <2>1
  <2> HIDE DEF degraded
  <2>4. Placed' /\ Repaired'
    BY <1>1, <1>6, <2>1, <2>2, <2>3, MoveRests
  <2> QED BY <1>1, <2>1, <2>2, <2>4 DEF Rests, RestInv, Typed
<1>9. CASE /\ Goto(t, Over(r))
           /\ ~((~reusable \/ degraded) /\ n <= 0 /\ ~CanServe(p, r.force))
  <2>1. Over(r) \in Tasked /\ Over(r).at = "done"
    BY <1>7, OverTasked
  <2>2. task' = [task EXCEPT ![t] = Over(r)]
    BY <1>9 DEF Goto
  <2>3. n > 0 \/ ~degraded
    <3> SUFFICES ASSUME degraded PROVE n > 0
      OBVIOUS
    <3>1. ~CanServe(p, TRUE)
      BY FullServes
    <3>2. r.force = TRUE
      BY <1>3
    <3>3. ~(n <= 0)
      BY <1>9, <3>1, <3>2
    <3> QED BY <1>5, <3>3
  <2>4. inFlight' > 0 \/ ~pool'.ready \/ ~(Cardinality(pool'.owned) < Threads)
    BY <1>1, <2>3
  <2> HIDE DEF degraded, n
  <2>5. Placed' /\ Repaired'
    BY <1>1, <1>6, <2>1, <2>2, <2>4, MoveRests
  <2> QED BY <1>1, <2>1, <2>2, <2>5 DEF Rests, RestInv, Typed
<1> QED BY <1>4, <1>8, <1>9

LEMMA LeaseRests ==
    ASSUME SolverAssumption, RestInv, PoolInv', NEW t \in Tasks,
           Solve(t) \/ Release(t) \/ Discard(t) \/ Dropped(t)
    PROVE  Rests
<1>1. task[t] \in Tasked /\ task[t] \in Task /\ pool \in Pool
  BY TaskType
<1>2. task[t].at \in {"solve", "close", "drop"} /\ task[t].why = "acquire"
  BY DEF Solve, Release, Discard, Dropped, RestInv, Placed
<1>3. \A u \in Tasks : task[u].at \in {"launch", "cleanup"} => ~pool.ready
  BY DEF RestInv, Placed
<1>4. CASE Solve(t)
  <2> PICK failed \in BOOLEAN :
            task' = [task EXCEPT ![t] = [task[t] EXCEPT !.at = "close", !.fail = failed]]
    BY <1>4 DEF Solve, Goto
  <2> DEFINE s == [task[t] EXCEPT !.at = "close", !.fail = failed]
  <2>1. s \in Task
    BY <1>1 DEF Task
  <2>2. s.at = "close" /\ s.why = "acquire" /\ s.attempt = task[t].attempt
    BY <1>1, <1>2 DEF Task
  <2> HIDE DEF s
  <2>3. task' = [task EXCEPT ![t] = s] /\ pool' = pool
    BY <1>4 DEF s, Solve
  <2>4. s \in Tasked
    BY <1>1, <2>1, <2>2 DEF Tasked
  <2>5. Placed' /\ Repaired'
    BY <1>1, <1>3, <2>2, <2>3, <2>4, MoveRests
  <2> QED BY <1>1, <2>3, <2>4, <2>5 DEF Rests, RestInv, Typed
<1>5. CASE Release(t)
  <2> DEFINE p == [pool EXCEPT !.queue = @ \cup {task[t].item}]
  <2>1. task[t].item \in Browsers
    BY <1>5 DEF Release, RestInv, Typed
  <2>2. p \in Pool /\ p.ready = pool.ready
    BY <1>1, <2>1 DEF Pool
  <2> HIDE DEF p
  <2>3. Finish(t, p, TRUE)
    BY <1>5 DEF Release, p
  <2> QED BY <2>2, <2>3, FinishRests
<1>6. CASE Discard(t)
  <2> DEFINE s == [task[t] EXCEPT !.at = "drop"]
  <2>1. s \in Tasked /\ s.at = "drop" /\ s.why = "acquire"
    BY <1>1, <1>2 DEF Tasked, Task
  <2>2. task' = [task EXCEPT ![t] = s]
    BY <1>6 DEF Discard, Goto
  <2> HIDE DEF s
  <2>3. pool' \in Pool /\ pool'.ready = pool.ready
    BY <1>1, <1>6 DEF Discard, Pool
  <2>4. Placed' /\ Repaired'
    BY <1>3, <2>1, <2>2, <2>3, MoveRests
  <2> QED BY <2>1, <2>2, <2>3, <2>4 DEF Rests, RestInv, Typed
<1>7. CASE Dropped(t)
  <2>1. Empty(pool) \in Pool /\ (Empty(pool).ready = pool.ready \/ ~Empty(pool).ready)
    BY <1>1 DEF Empty, Pool
  <2> QED BY <1>7, <2>1, FinishRests DEF Dropped
<1> QED BY <1>4, <1>5, <1>6, <1>7

(* Steps that leave the tasks, and every browser the pool owns.              *)
LEMMA QuietRests ==
    ASSUME SolverAssumption, RestInv, UNCHANGED task, pool' \in Pool,
           (pool'.ready = pool.ready /\ pool'.owned = pool.owned) \/ ~pool'.ready
    PROVE  Rests
<1>1. Placed'
  BY DEF RestInv, Placed
<1>2. Repaired'
  BY DEF RestInv, Repaired, Repairs
<1> QED BY <1>1, <1>2 DEF Rests, RestInv, Typed

LEMMA ReaperRests ==
    ASSUME SolverAssumption, RestInv,
           \/ ReaperWakes \/ ReaperLocks \/ ReaperCloses \/ Quiet \/ UNCHANGED vars
           \/ \E b \in Browsers : Dies(b)
    PROVE  Rests
<1>1. pool \in Pool
  BY DEF RestInv, Typed
<1>2. CASE ReaperCloses
  <2>1. pool.queue \subseteq Browsers
    BY <1>1 DEF Pool
  <2> QED BY <1>2, <2>1, CloseType, QuietRests DEF ReaperCloses
<1>3. CASE UNCHANGED <<task, pool>>
  BY <1>1, <1>3, QuietRests
<1>4. CASE UNCHANGED task /\ pool' = [pool EXCEPT !.queue = {}]
  <2>1. pool' \in Pool /\ pool'.ready = pool.ready /\ pool'.owned = pool.owned
    BY <1>1, <1>4 DEF Pool
  <2> QED BY <1>4, <2>1, QuietRests
<1> QED BY <1>2, <1>3, <1>4 DEF ReaperWakes, ReaperLocks, ReaperIf, Quiet, Dies, vars

LEMMA RestsStep ==
    ASSUME SolverAssumption, RestInv, PoolInv', [Next]_vars
    PROVE  Rests
<1>1. ASSUME NEW t \in Tasks, Begin(t) \/ Step(t) PROVE Rests
  BY <1>1, SeekRests, LockRests, ShutdownRests, LaunchRests, LaunchFailsRests,
     CleanupRests, LeaseRests DEF Step
<1> QED BY <1>1, ReaperRests DEF Next

(* The types of what is neither a task nor the pool.                         *)
Others ==
    /\ alive \in SUBSET Browsers /\ made \in SUBSET Browsers
    /\ lock \in Tasks \cup {Reaper, None}
    /\ reaper \in {"sleep", "lock", "shutdown"}
    /\ recent \in BOOLEAN /\ faults \in 0 .. MaxFaults

LEMMA FaultType ==
    ASSUME SolverAssumption, faults \in 0 .. MaxFaults, Fault \/ UNCHANGED faults
    PROVE  faults' \in 0 .. MaxFaults
BY DEF SolverAssumption, Fault

LEMMA OthersStep ==
    ASSUME SolverAssumption, RestInv, [Next]_vars
    PROVE  Others'
<1>1. Others
  BY DEF RestInv, Typed, Others
<1>2. UNCHANGED vars => Others'
  BY <1>1 DEF vars, Others
<1>3. ASSUME NEW t \in Tasks, Begin(t) PROVE Others'
  BY <1>1, <1>3 DEF Begin, Ensure, Others
<1>4. ASSUME NEW t \in Tasks, Lock(t) PROVE Others'
  BY <1>1, <1>4 DEF Lock, Rebuild, Others
<1>5. ASSUME NEW t \in Tasks, Launch(t) PROVE Others'
  <2> DEFINE b == CHOOSE c \in Browsers : c \notin Used
  <2>1. b \in Browsers
    BY <1>5 DEF Launch
  <2>2. alive' = alive \cup {b} /\ made' \in {made \cup {b}, {}}
    BY <1>5 DEF Launch
  <2>3. UNCHANGED <<reaper, faults>> /\ lock' \in {lock, None} /\ recent' \in {recent, TRUE}
    BY <1>5 DEF Launch, Failed
  <2> HIDE DEF b
  <2> QED BY <1>1, <2>1, <2>2, <2>3 DEF Others
<1>6. ASSUME NEW t \in Tasks, Shutdown(t) \/ Cleanup(t) \/ LaunchFails(t) PROVE Others'
  <2>1. /\ alive' \subseteq alive /\ made' \in {made, {}} /\ lock' \in {lock, None}
        /\ UNCHANGED <<reaper, recent>> /\ (Fault \/ UNCHANGED faults)
    BY <1>6 DEF Shutdown, Cleanup, LaunchFails, Close, Failed
  <2> QED BY <1>1, <2>1, FaultType DEF Others
<1>7. ASSUME NEW t \in Tasks, GetReturns(t) \/ GetTimesOut(t) \/ Discarded(t) PROVE Others'
  <2>1. UNCHANGED <<alive, made, lock, reaper, faults>> /\ recent' \in {recent, TRUE}
    BY <1>7 DEF GetReturns, GetTimesOut, Discarded, Ensure
  <2> QED BY <1>1, <2>1 DEF Others
<1>8. ASSUME NEW t \in Tasks, Solve(t) \/ Release(t) \/ Discard(t) \/ Dropped(t) PROVE Others'
  <2>1. /\ alive' \subseteq alive /\ recent' \in {recent, TRUE}
        /\ UNCHANGED <<made, lock, reaper>> /\ (Fault \/ UNCHANGED faults)
    BY <1>8 DEF Solve, Release, Discard, Dropped, Finish
  <2> QED BY <1>1, <2>1, FaultType DEF Others
<1>9. CASE ReaperWakes \/ ReaperLocks \/ ReaperCloses \/ Quiet
  <2>1. /\ alive' \subseteq alive /\ recent' \in {recent, FALSE}
        /\ made' = made /\ lock' \in {lock, Reaper, None} /\ (Fault \/ UNCHANGED faults)
        /\ reaper' \in {reaper, "sleep", "lock", "shutdown"}
    BY <1>9 DEF ReaperWakes, ReaperLocks, ReaperIf, ReaperCloses, Close, Quiet
  <2> QED BY <1>1, <2>1, FaultType DEF Others
<1>10. ASSUME NEW b \in Browsers, Dies(b) PROVE Others'
  BY <1>1, <1>10, FaultType DEF Dies, Others
<1> QED BY <1>2, <1>3, <1>4, <1>5, <1>6, <1>7, <1>8, <1>9, <1>10 DEF Next, Step

LEMMA RestInit == SolverAssumption /\ Init => RestInv
<1> SUFFICES ASSUME SolverAssumption, Init PROVE RestInv
  OBVIOUS
<1>1. PoolInv
  BY InvInit
<1>2. Typed
  <2> DEFINE rec == [at |-> "new", why |-> "acquire", force |-> FALSE, attempt |-> 0,
                     item |-> None, fail |-> FALSE]
  <2>1. rec \in Task
    BY Attempts DEF Task
  <2>2. rec \in Tasked
    BY <2>1, Attempts DEF Tasked
  <2>3. task = [t \in Tasks |-> rec]
    BY DEF Init
  <2> HIDE DEF rec
  <2>4. task \in [Tasks -> Tasked]
    BY <2>2, <2>3
  <2>5. pool \in Pool
    BY DEF Init, Pool
  <2>6. faults \in 0 .. MaxFaults
    BY DEF Init, SolverAssumption
  <2>7. /\ alive \in SUBSET Browsers /\ made \in SUBSET Browsers
        /\ lock \in Tasks \cup {Reaper, None}
        /\ reaper \in {"sleep", "lock", "shutdown"}
        /\ recent \in BOOLEAN
    BY DEF Init
  <2> QED BY <2>4, <2>5, <2>6, <2>7 DEF Typed
<1>3. Placed /\ Repaired
  BY DEF Init, Placed, Repaired
<1> QED BY <1>1, <1>2, <1>3 DEF RestInv

LEMMA RestHolds ==
    ASSUME SolverAssumption
    PROVE  Spec => []RestInv
<1>1. Init => RestInv
  BY RestInit
<1>2. RestInv /\ [Next]_vars => RestInv'
  <2> SUFFICES ASSUME RestInv, [Next]_vars PROVE RestInv'
    OBVIOUS
  <2>1. PoolInv'
    BY InvStep DEF RestInv
  <2> QED BY <2>1, RestsStep, OthersStep DEF RestInv, Rests, Typed, Others
<1> QED BY <1>1, <1>2, PTL DEF Spec

(* The types of the pool and its tasks; no attempt beyond the last is made.  *)
THEOREM PoolTypes ==
    ASSUME SolverAssumption
    PROVE  Spec => []TypeOK
<1>1. RestInv => TypeOK
  <2> SUFFICES ASSUME RestInv PROVE TypeOK
    OBVIOUS
  <2>1. inFlight \in 0 .. Cardinality(Tasks)
    <3>1. Cardinality(Counted) <= Cardinality(Tasks) /\ IsFiniteSet(Counted)
      BY FS_Subset DEF SolverAssumption, Counted
    <3>2. Cardinality(Counted) \in Nat /\ Cardinality(Tasks) \in Nat
      BY <3>1, FS_CardinalityType DEF SolverAssumption
    <3> QED BY <3>1, <3>2 DEF RestInv, PoolInv, CountIsRight
  <2> QED BY <2>1 DEF RestInv, Typed, TypeOK, Tasked
<1> QED BY <1>1, RestHolds, PTL

(* The last lease to end sees to it that a pool which says it is ready has   *)
(* its whole number of browsers (_finalize_browser_lease).                   *)
THEOREM RepairAtRest ==
    ASSUME SolverAssumption
    PROVE  Spec => []RepairedAtRest
<1>1. RestInv => RepairedAtRest
  <2> SUFFICES ASSUME RestInv, pool.ready, \A t \in Tasks : task[t].at = "new" \/ Ended(t)
               PROVE  Cardinality(pool.owned) >= Threads
    BY DEF RepairedAtRest
  <2>1. \A t \in Tasks : ~Repairs(t)
    BY DEF Ended, Repairs
  <2>2. pool.owned \in SUBSET Browsers
    BY DEF RestInv, Typed, Pool
  <2>3. Cardinality(pool.owned) \in Nat
    BY <2>2, FinitePool
  <2> QED BY <2>1, <2>3 DEF RestInv, Repaired, SolverAssumption
<1> QED BY <1>1, RestHolds, PTL

(* _in_flight is the number of tasks that have a browser or are closing one: *)
(* no path through acquisition, retry, discard or failure loses or repeats   *)
(* a count (_acquire_browser, _finalize_browser_lease).                      *)
THEOREM LeasesAreCounted ==
    ASSUME SolverAssumption
    PROVE  Spec => []CountIsRight
BY InvHolds, PTL DEF PoolInv

(* _idle_reaper and _ensure_pool: no shutdown of the pool closes a browser   *)
(* that a task is using, although both decide before they wait for the lock. *)
THEOREM ReclaimIsSafe ==
    ASSUME SolverAssumption
    PROVE  Spec => ReclaimSparesLeases
<1>1. PoolInv /\ [Next]_vars
        => [ReaperCloses \/ (\E t \in Tasks : Shutdown(t))
                => Leased \cap pool.owned = {}]_vars
  <2> SUFFICES ASSUME PoolInv, ReaperCloses \/ (\E t \in Tasks : Shutdown(t))
               PROVE  Leased \cap pool.owned = {}
    OBVIOUS
  <2>1. TakenDown
    BY DEF ReaperCloses, Shutdown, TakenDown
  <2>2. Leaseholders = {}
    BY <2>1 DEF PoolInv, Deserted, Counted, Leaseholders
  <2> QED BY <2>2 DEF Leased
<1> QED BY <1>1, InvHolds, PTL DEF Spec, ReclaimSparesLeases
LEMMA SweepCounts ==
    ASSUME NEW S
    PROVE  (Sweep!IsFiniteSet(S) <=> IsFiniteSet(S)) /\ Sweep!Cardinality(S) = Cardinality(S)
BY DEF Sweep!IsFiniteSet, IsFiniteSet, Sweep!Cardinality, Cardinality

-----------------------------------------------------------------------------
(* The sweep of the refresh                                                  *)

(* A batch is never empty.                                                   *)
LEMMA BatchType ==
    ASSUME Sweep!SweepAssumption, Sweep!TypeOK, NEW answers \in BOOLEAN, Sweep!Choose(answers),
           leader \in Processes
    PROVE  /\ batch' \in SUBSET RefreshAccounts /\ batch' # {}
           /\ (covered' = covered /\ meta' = meta) \/ (covered' = {} /\ meta' = TRUE)
           /\ sweepLocal' \in [Processes -> SUBSET RefreshAccounts]
<1> DEFINE cov == IF answers THEN covered ELSE sweepLocal[leader]
           fresh == answers /\ ~meta
           rest == IF fresh THEN due ELSE Sweep!Remaining(cov)
           tried == IF rest = {} THEN due ELSE rest
           size == IF Cardinality(tried) < RefreshBatch THEN Cardinality(tried) ELSE RefreshBatch
<1>1. due # {} /\ due \in SUBSET RefreshAccounts
  BY DEF Sweep!Choose, Sweep!TypeOK
<1>2. tried \in SUBSET RefreshAccounts /\ tried # {}
  BY <1>1 DEF Sweep!Remaining
<1>3. /\ batch' = due \/ batch' \in Sweep!kSubset(size, tried)
      /\ UNCHANGED <<covered, meta, sweepLocal>> \/ \E up \in {answers, TRUE} : Sweep!StartNew(up)
  <2>1. Sweep!Cardinality(tried) = Cardinality(tried)
    BY SweepCounts
  <2> QED BY <2>1 DEF Sweep!Choose
<1> HIDE DEF tried
<1>4. size \in Nat /\ size # 0
  <2>1. IsFiniteSet(tried)
    BY <1>2, FS_Subset, SweepCounts DEF Sweep!SweepAssumption
  <2>2. Cardinality(tried) \in Nat /\ Cardinality(tried) # 0
    BY <1>2, <2>1, FS_CardinalityType, FS_EmptySet
  <2> QED BY <2>2 DEF Sweep!SweepAssumption
<1> HIDE DEF size
<1>5. ASSUME NEW S \in Sweep!kSubset(size, tried) PROVE S \in SUBSET RefreshAccounts /\ S # {}
  BY <1>2, <1>4, <1>5, FS_EmptySet, SweepCounts DEF Sweep!kSubset
<1>6. batch' \in SUBSET RefreshAccounts /\ batch' # {}
  BY <1>1, <1>3, <1>5
<1> QED BY <1>3, <1>6 DEF Sweep!StartNew, Sweep!TypeOK

LEMMA SweepTypesStep ==
    ASSUME Sweep!SweepAssumption, Sweep!TypeOK, [Sweep!Next]_Sweep!vars
    PROVE  Sweep!TypeOK'
<1>1. UNCHANGED Sweep!vars => Sweep!TypeOK'
  BY DEF Sweep!vars, Sweep!TypeOK
<1>2. Sweep!Fail => sweepErrors' \in 0 .. RefreshErrors
  BY DEF Sweep!Fail, Sweep!TypeOK, Sweep!SweepAssumption
<1>3. CASE Sweep!Select
  <2>1. PICK answers \in BOOLEAN : Sweep!Choose(answers) /\ (Sweep!Fail \/ UNCHANGED sweepErrors)
    BY <1>3 DEF Sweep!Select
  <2>2. /\ phase' = "refresh" /\ UNCHANGED <<due, leader>> /\ sweepErrors' \in 0 .. RefreshErrors
    BY <1>2, <1>3, <2>1 DEF Sweep!Select, Sweep!TypeOK
  <2>3. leader \in Processes
    BY DEF Sweep!TypeOK
  <2>4. /\ batch' \in SUBSET RefreshAccounts /\ batch' # {}
        /\ (covered' = covered /\ meta' = meta) \/ (covered' = {} /\ meta' = TRUE)
        /\ sweepLocal' \in [Processes -> SUBSET RefreshAccounts]
    BY <2>1, <2>3, BatchType
  <2>5. covered' \in SUBSET RefreshAccounts /\ meta' \in BOOLEAN /\ (~meta' => covered' = {})
    <3>1. CASE covered' = covered /\ meta' = meta
      BY <3>1 DEF Sweep!TypeOK
    <3>2. CASE covered' = {} /\ meta' = TRUE
      BY <3>2
    <3> QED BY <2>4, <3>1, <3>2
  <2>6. due' \in SUBSET RefreshAccounts /\ leader' \in Processes
    BY <2>2 DEF Sweep!TypeOK
  <2> QED BY <2>2, <2>4, <2>5, <2>6 DEF Sweep!TypeOK
<1>4. CASE Sweep!Refresh \/ Sweep!WriteFails
  BY <1>2, <1>4 DEF Sweep!Refresh, Sweep!WriteFails, Sweep!TypeOK
<1>5. CASE Sweep!Mark
  BY <1>2, <1>5 DEF Sweep!Mark, Sweep!TypeOK
<1>6. CASE Sweep!LoseRedis
  BY <1>2, <1>6 DEF Sweep!LoseRedis, Sweep!TypeOK
<1>7. ASSUME NEW a \in RefreshAccounts, Sweep!BecomeDue(a) \/ Sweep!Settle(a) PROVE Sweep!TypeOK'
  BY <1>7 DEF Sweep!BecomeDue, Sweep!Settle, Sweep!TypeOK
<1>8. ASSUME NEW p \in Processes, Sweep!Failover(p) PROVE Sweep!TypeOK'
  BY <1>2, <1>8 DEF Sweep!Failover, Sweep!TypeOK
<1> QED BY <1>1, <1>3, <1>4, <1>5, <1>6, <1>7, <1>8 DEF Sweep!Next

LEMMA SweepTypesInit == Sweep!SweepAssumption /\ Sweep!Init => Sweep!TypeOK
<1> SUFFICES ASSUME Sweep!SweepAssumption, Sweep!Init PROVE Sweep!TypeOK
  OBVIOUS
<1>1. sweepErrors \in 0 .. RefreshErrors
  BY DEF Sweep!SweepAssumption, Sweep!Init
<1> QED BY <1>1 DEF Sweep!Init, Sweep!TypeOK

(* The types of the sweep: an empty batch is never tried, and nothing is     *)
(* covered without the key of its generation.                                *)
THEOREM SweepTypes ==
    ASSUME Sweep!SweepAssumption
    PROVE  Sweep!Init /\ [][Sweep!Next]_Sweep!vars => []Sweep!TypeOK
BY SweepTypesInit, SweepTypesStep, PTL

-----------------------------------------------------------------------------
(* The sweep of the probe                                                    *)

(* As long as nothing has failed, what a sweep has covered is what it has    *)
(* probed but for the batch under way.                                       *)
Clean ==
    probeErrors = 0 =>
        /\ source = "background" => probeMeta
        /\ probeMeta => probed = probeCovered \cup (IF source = "background" THEN probeBatch
           ELSE {})

ProbeInv == Probe!TypeOK /\ Clean

LEMMA FirstSubset == ASSUME NEW S, NEW n PROVE Probe!First(S, n) \subseteq S
BY DEF Probe!First

LEMMA RaiseType == Probe!ProbeAssumption /\ Probe!TypeOK /\ Probe!Fail
  => probeErrors' \in 0 .. ProbeErrors /\ probeErrors' # 0
BY DEF Probe!ProbeAssumption, Probe!TypeOK, Probe!Fail

(* The batch that a sweep goes on with, or that a new one begins with.       *)
LEMMA SelectType ==
    ASSUME Probe!TypeOK, NEW answers \in BOOLEAN, NEW up \in {"up", "half", "down"},
           Probe!Select(answers, up)
    PROVE  /\ probeBatch' \subseteq live
           /\ probeCovered' \subseteq probeCovered /\ probeMeta' \in BOOLEAN
              /\ generation' \in {0, 1}
           /\ probeLocal' \in [Processes -> [known : BOOLEAN, covered : SUBSET ProbeAccounts]]
           /\ probed' \in {probeBatch', probed \cup probeBatch'}
<1> DEFINE known == IF answers THEN probeMeta ELSE probeLocal[prober].known
           rest == live \ (IF ~known THEN {} ELSE IF answers THEN probeCovered
                   ELSE probeLocal[prober].covered)
           from == IF rest = {} THEN live ELSE rest
<1>1. probeBatch' = Probe!First(from, ProbeBatch) /\ from \subseteq live
  BY DEF Probe!Select
<1>2. \/ UNCHANGED <<Probe!kept, generation>> /\ probed' = probed \cup probeBatch'
      \/ Probe!StartNew(up) /\ probed' = probeBatch'
  BY DEF Probe!Select
<1>3. [known |-> TRUE, covered |-> {}] \in [known : BOOLEAN, covered : SUBSET ProbeAccounts]
  OBVIOUS
<1> HIDE DEF from
<1>4. probeBatch' \subseteq live
  BY <1>1, FirstSubset
<1>5. probeLocal' \in [Processes -> [known : BOOLEAN, covered : SUBSET ProbeAccounts]]
  BY <1>2, <1>3 DEF Probe!StartNew, Probe!kept, Probe!TypeOK
<1>6. probeCovered' \subseteq probeCovered /\ probeMeta' \in BOOLEAN
  BY <1>2 DEF Probe!StartNew, Probe!kept, Probe!TypeOK
<1>7. generation' \in {0, 1} /\ probed' \in {probeBatch', probed \cup probeBatch'}
  BY <1>2 DEF Probe!StartNew, Probe!kept, Probe!TypeOK
<1> QED BY <1>4, <1>5, <1>6, <1>7

LEMMA ProbeTypesStep ==
    ASSUME Probe!ProbeAssumption, Probe!TypeOK, [Probe!Next]_Probe!vars
    PROVE  Probe!TypeOK'
<1>1. UNCHANGED Probe!vars => Probe!TypeOK'
  BY DEF Probe!vars, Probe!kept, Probe!TypeOK
<1>2. CASE Probe!Background
  <2>1. PICK answers \in BOOLEAN, up \in {"up", "half", "down"} : Probe!Select(answers, up)
    BY <1>2 DEF Probe!Background
  <2>2. /\ probeBatch' \subseteq live
        /\ probeCovered' \subseteq probeCovered /\ probeMeta' \in BOOLEAN
           /\ generation' \in {0, 1}
        /\ probeLocal' \in [Processes -> [known : BOOLEAN, covered : SUBSET ProbeAccounts]]
        /\ probed' \in {probeBatch', probed \cup probeBatch'}
    BY <2>1, SelectType
  <2>3. source' = "background" /\ UNCHANGED <<live, prober>> /\ probeErrors' \in 0 .. ProbeErrors
    BY <1>2, RaiseType DEF Probe!Background, Probe!TypeOK
  <2> QED BY <2>2, <2>3 DEF Probe!TypeOK
<1>3. CASE Probe!Mark
  <2>1. [known |-> TRUE, covered |-> probeBatch] \in [known : BOOLEAN,
        covered : SUBSET ProbeAccounts]
    BY DEF Probe!TypeOK
  <2>2. /\ \A e \in [known : BOOLEAN, covered : SUBSET ProbeAccounts] :
             [e EXCEPT !.covered = @ \cup probeBatch] \in [known : BOOLEAN,
               covered : SUBSET ProbeAccounts]
    BY DEF Probe!TypeOK
  <2>3. probeLocal' \in [Processes -> [known : BOOLEAN, covered : SUBSET ProbeAccounts]]
    <3>1. prober \in Processes /\ probeLocal[prober] \in [known : BOOLEAN,
          covered : SUBSET ProbeAccounts]
      BY DEF Probe!TypeOK
    <3>2. CASE probeLocal' = [probeLocal EXCEPT ![prober] =
                            [known |-> @.known \/ ~probeMeta,
                             covered |-> (IF probeMeta THEN @.covered ELSE {}) \cup probeBatch]]
      <4> DEFINE e == [known |-> probeLocal[prober].known \/ ~probeMeta,
                       covered |-> (IF probeMeta THEN probeLocal[prober].covered
                         ELSE {}) \cup probeBatch]
      <4>1. e \in [known : BOOLEAN, covered : SUBSET ProbeAccounts]
        BY <3>1 DEF Probe!TypeOK
      <4>2. probeLocal' = [probeLocal EXCEPT ![prober] = e]
        BY <3>2
      <4> HIDE DEF e
      <4> QED BY <3>1, <4>1, <4>2 DEF Probe!TypeOK
    <3>3. CASE probeLocal' = [probeLocal EXCEPT ![prober].covered = @ \cup probeBatch]
      BY <2>2, <3>1, <3>3 DEF Probe!TypeOK
    <3>4. CASE probeLocal' = [probeLocal EXCEPT ![prober] = [known |-> TRUE,
          covered |-> probeBatch]]
      BY <2>1, <3>1, <3>4 DEF Probe!TypeOK
    <3> QED BY <1>3, <3>2, <3>3, <3>4 DEF Probe!Mark
  <2>4. /\ probeCovered' \in SUBSET ProbeAccounts /\ probeMeta' \in BOOLEAN
        /\ generation' \in {0, 1} /\ probed' \in SUBSET ProbeAccounts
    <3>1. probeCovered' \in {probeCovered, {},
          probeCovered \cup probeBatch} /\ probed' \in {probed, probeBatch}
      BY <1>3 DEF Probe!Mark
    <3>2. (probeMeta' = TRUE \/ UNCHANGED probeMeta) /\ generation' \in {generation,
          1 - generation}
      BY <1>3 DEF Probe!Mark
    <3>5. generation' \in {0, 1}
      BY <3>2 DEF Probe!TypeOK
    <3>6. probeMeta' \in BOOLEAN
      BY <3>2 DEF Probe!TypeOK
    <3> QED BY <3>1, <3>5, <3>6 DEF Probe!TypeOK
  <2>5. probeErrors' \in 0 .. ProbeErrors
    BY <1>3, RaiseType DEF Probe!Mark, Probe!TypeOK
  <2>6. source' = "none" /\ probeBatch' = {} /\ UNCHANGED <<live, prober>>
    BY <1>3 DEF Probe!Mark
  <2> QED BY <2>3, <2>4, <2>5, <2>6 DEF Probe!TypeOK
<1>4. CASE Probe!ManualAll \/ Probe!ManualEnds
  BY <1>4 DEF Probe!ManualAll, Probe!ManualEnds, Probe!kept, Probe!TypeOK
<1>5. CASE Probe!LoseRedis
  BY <1>5, RaiseType DEF Probe!LoseRedis, Probe!TypeOK
<1>6. ASSUME NEW a \in ProbeAccounts, Probe!Change(a) PROVE Probe!TypeOK'
  BY <1>6 DEF Probe!Change, Probe!kept, Probe!TypeOK
<1>7. ASSUME NEW p \in Processes, Probe!Handover(p) PROVE Probe!TypeOK'
  <2>1. Probe!NoSweep \in [known : BOOLEAN, covered : SUBSET ProbeAccounts]
    BY DEF Probe!NoSweep
  <2>2. probeLocal' \in [Processes -> [known : BOOLEAN, covered : SUBSET ProbeAccounts]]
    BY <1>7, <2>1 DEF Probe!Handover, Probe!TypeOK
  <2>3. probeErrors' \in 0 .. ProbeErrors
    BY <1>7, RaiseType DEF Probe!Handover, Probe!TypeOK
  <2> QED BY <1>7, <2>2, <2>3 DEF Probe!Handover, Probe!TypeOK
<1> QED BY <1>1, <1>2, <1>3, <1>4, <1>5, <1>6, <1>7 DEF Probe!Next

LEMMA CleanStep ==
    ASSUME Probe!ProbeAssumption, Probe!TypeOK, Clean, [Probe!Next]_Probe!vars
    PROVE  Clean'
<1> SUFFICES ASSUME probeErrors' = 0
             PROVE  /\ source' = "background" => probeMeta'
                    /\ probeMeta' => probed' = probeCovered' \cup (IF source' = "background"
                       THEN probeBatch' ELSE {})
  BY DEF Clean
<1>1. probeErrors = 0 /\ ~Probe!Fail
  <2>1. UNCHANGED probeErrors \/ Probe!Fail
    BY DEF Probe!Next, Probe!vars, Probe!Background, Probe!Mark, Probe!ManualAll,
        Probe!ManualEnds, Probe!LoseRedis, Probe!Change, Probe!Handover
  <2> QED BY <2>1, RaiseType
<1>2. CASE UNCHANGED Probe!vars
  BY <1>1, <1>2 DEF Clean, Probe!vars, Probe!kept
<1>3. CASE Probe!Background
  BY <1>1, <1>3 DEF Probe!Background, Probe!Select, Probe!StartNew, Probe!kept, Clean
<1>4. CASE Probe!Mark
  BY <1>1, <1>4 DEF Probe!Mark, Clean
<1>5. CASE Probe!ManualAll \/ Probe!ManualEnds
  BY <1>1, <1>5 DEF Probe!ManualAll, Probe!ManualEnds, Probe!kept, Clean
<1>6. CASE Probe!LoseRedis
  BY <1>1, <1>6 DEF Probe!LoseRedis
<1>7. ASSUME NEW a \in ProbeAccounts, Probe!Change(a) PROVE Clean'
  BY <1>1, <1>7 DEF Probe!Change, Probe!kept, Clean
<1>8. ASSUME NEW p \in Processes, Probe!Handover(p) PROVE Clean'
  BY <1>1, <1>8 DEF Probe!Handover, Clean
<1> QED BY <1>2, <1>3, <1>4, <1>5, <1>6, <1>7, <1>8 DEF Probe!Next, Clean

LEMMA ProbeInvInit == Probe!ProbeAssumption /\ Probe!Init => ProbeInv
<1> SUFFICES ASSUME Probe!ProbeAssumption, Probe!Init PROVE ProbeInv
  OBVIOUS
<1>1. probeErrors \in 0 .. ProbeErrors
  BY DEF Probe!ProbeAssumption, Probe!Init
<1>2. probeLocal \in [Processes -> [known : BOOLEAN, covered : SUBSET ProbeAccounts]]
  BY DEF Probe!Init, Probe!NoSweep
<1> QED BY <1>1, <1>2 DEF Probe!Init, ProbeInv, Probe!TypeOK, Clean

LEMMA ProbeInvHolds ==
    ASSUME Probe!ProbeAssumption
    PROVE  Probe!Init /\ [][Probe!Next]_Probe!vars => []ProbeInv
<1>1. ProbeInv /\ [Probe!Next]_Probe!vars => ProbeInv'
  BY ProbeTypesStep, CleanStep DEF ProbeInv
<1> QED BY <1>1, ProbeInvInit, PTL

(* "Each live account is probed at most once per generation", for any number *)
(* of accounts and processes (_select_probe_batch).                          *)
THEOREM ProbedOnce ==
    ASSUME Probe!ProbeAssumption
    PROVE  Probe!Init /\ [][Probe!Next]_Probe!vars => Probe!OncePerSweep
<1> DEFINE Once == source = "none" /\ source' = "background" /\ probeErrors' = 0 /\ probeMeta
                     => IF generation' = generation THEN probeBatch' \cap probed = {}
                       ELSE live \subseteq probed
<1>1. ProbeInv /\ [Probe!Next]_Probe!vars => [Once]_Probe!vars
  <2> SUFFICES ASSUME ProbeInv, Probe!Next, source = "none", source' = "background",
      probeErrors' = 0, probeMeta
               PROVE  IF generation' = generation THEN probeBatch' \cap probed = {}
                      ELSE live \subseteq probed
    OBVIOUS
  <2>1. Probe!Background
    BY DEF Probe!Next, Probe!Mark, Probe!ManualAll, Probe!ManualEnds, Probe!LoseRedis,
        Probe!Change, Probe!Handover
  <2>2. ~Probe!Fail /\ probeErrors = 0
    BY <2>1, RaiseType DEF ProbeInv, Probe!Background
  <2>3. Probe!Select(TRUE, "up")
    BY <2>1, <2>2 DEF Probe!Background
  <2>4. probed = probeCovered
    BY <2>2 DEF ProbeInv, Clean
  <2> DEFINE rest == live \ probeCovered
  <2>5. /\ probeBatch' = Probe!First(IF rest = {} THEN live ELSE rest, ProbeBatch)
        /\ IF rest # {} THEN UNCHANGED <<Probe!kept, generation>> ELSE Probe!StartNew("up")
    BY <2>3 DEF Probe!Select
  <2>6. CASE rest # {}
    <3>1. probeBatch' \subseteq rest /\ generation' = generation
      BY <2>5, <2>6, FirstSubset
    <3> QED BY <2>4, <3>1
  <2>7. CASE rest = {}
    <3>1. generation' # generation
      BY <2>5, <2>7 DEF Probe!StartNew, ProbeInv, Probe!TypeOK
    <3> QED BY <2>4, <2>7, <3>1
  <2> QED BY <2>6, <2>7
<1> QED BY <1>1, ProbeInvHolds, PTL DEF Probe!OncePerSweep
LEMMA JobsCount ==
    ASSUME NEW S
    PROVE  (Jobs!IsFiniteSet(S) <=> IsFiniteSet(S)) /\ Jobs!Cardinality(S) = Cardinality(S)
BY DEF Jobs!IsFiniteSet, IsFiniteSet, Jobs!Cardinality, Cardinality

-----------------------------------------------------------------------------
(* The jobs of the administrator                                             *)

Truth(job, k, accounts) ==
    job.status \in {"done", "partial"} =>
        /\ k = "json_import" => job.success = Cardinality(accounts)
        /\ k = "sso_import" =>
              job.success >= Cardinality(accounts) /\ (accounts = {} => job.success = 0)

(* A record whose job has ended was written by the last step of the thread,  *)
(* when what the job stored was settled.                                     *)
Counts(job) ==
    /\ job.status \in Jobs!Ended => jobAt \in {"over", "dead"}
    /\ Truth(job, kind, stored)

(* A converted cookie holds the entry of one account.                        *)
ItemInv ==
    /\ item \in [Items -> {"new", "good", "bad"}] /\ holds \in [Items -> SUBSET JobAccounts]
    /\ jobAt = "none" => Jobs!Good = {}
    /\ kind = "sso_import" => \A i \in Jobs!Good : \E a \in JobAccounts : holds[i] = {a}

JobInv ==
    /\ Jobs!TypeOK /\ ItemInv
    /\ mem = None <=> jobAt \in {"none", "dead"}
    /\ jobAt \in {"none", "queued", "items", "write"} => stored = {}
    /\ jobAt = "report" /\ kind # "json_export" => stored = Jobs!Entries
    /\ mem # None => Counts(mem)
    /\ redis # None => Counts(redis)

LEMMA GoodType ==
    ASSUME Jobs!JobsAssumption
    PROVE  /\ Jobs!Good \in SUBSET Items /\ IsFiniteSet(Jobs!Good)
           /\ Cardinality(Jobs!Good) \in Nat
<1>1. IsFiniteSet(Items) /\ Jobs!Good \in SUBSET Items
  BY JobsCount DEF Jobs!JobsAssumption, Jobs!Good
<1>2. IsFiniteSet(Jobs!Good)
  BY <1>1, FS_Subset
<1> QED BY <1>1, <1>2, FS_CardinalityType

LEMMA EntriesType ==
    ASSUME Jobs!JobsAssumption, ItemInv
    PROVE  /\ Jobs!Entries \in SUBSET JobAccounts /\ IsFiniteSet(Jobs!Entries)
           /\ Cardinality(Jobs!Entries) \in Nat
<1>1. IsFiniteSet(JobAccounts) /\ Jobs!Good \subseteq Items
  BY JobsCount DEF Jobs!JobsAssumption, Jobs!Good
<1>2. Jobs!Entries \in SUBSET JobAccounts
  BY <1>1 DEF Jobs!Entries, ItemInv
<1>3. IsFiniteSet(Jobs!Entries)
  BY <1>1, <1>2, FS_Subset
<1> QED BY <1>2, <1>3, FS_CardinalityType

(* Converted cookies are as many as their accounts or more.                  *)
LEMMA CookiesCount ==
    ASSUME Jobs!JobsAssumption, ItemInv, kind = "sso_import"
    PROVE  /\ Cardinality(Jobs!Entries) <= Cardinality(Jobs!Good)
           /\ Jobs!Entries = {} => Cardinality(Jobs!Good) = 0
<1> DEFINE G == Jobs!Good
           E == Jobs!Entries
           f == [i \in G |-> CHOOSE a \in JobAccounts : holds[i] = {a}]
<1>1. \A i \in G : f[i] \in JobAccounts /\ holds[i] = {f[i]}
  BY DEF ItemInv
<1>2. E = UNION {holds[i] : i \in G}
  BY DEF Jobs!Entries
<1>3. f = [i \in G |-> f[i]]
  OBVIOUS
<1> HIDE DEF f, G, E
<1>4. (\A i \in G : f[i] \in E) /\ (\A a \in E : \E i \in G : f[i] = a)
  BY <1>1, <1>2
<1>5. f \in [G -> E]
  BY <1>3, <1>4
<1>6. f \in Surjection(G, E)
  BY <1>4, <1>5 DEF Surjection
<1>7. IsFiniteSet(G)
  BY GoodType DEF G
<1>8. Cardinality(E) <= Cardinality(G)
  BY <1>6, <1>7, FS_Surjection
<1>9. ASSUME E = {} PROVE Cardinality(G) = 0
  <2>1. G = {}
    BY <1>4, <1>9
  <2> QED BY <2>1, FS_EmptySet
<1> QED BY <1>8, <1>9 DEF G, E

LEMMA SameItems ==
    ASSUME ItemInv, UNCHANGED <<item, holds, kind>>, jobAt' = "none" => jobAt = "none"
    PROVE  ItemInv' /\ Jobs!Entries' = Jobs!Entries
<1>1. Jobs!Good' = Jobs!Good
  BY DEF Jobs!Good
<1>2. Jobs!Entries' = Jobs!Entries
  BY <1>1 DEF Jobs!Entries
<1> QED BY <1>1, <1>2 DEF ItemInv

LEMMA RaisedType ==
    ASSUME Jobs!JobsAssumption, jobErrors \in 0 .. JobErrors, Jobs!Raise \/ UNCHANGED jobErrors
    PROVE  jobErrors' \in 0 .. JobErrors
BY DEF Jobs!JobsAssumption, Jobs!Raise

(* A record that is put is in the memory, and in Redis but for its bytes, or *)
(* Redis has what it had.                                                    *)
LEMMA PutType ==
    ASSUME Jobs!JobsAssumption, Jobs!TypeOK, NEW job \in Jobs!Record, Jobs!Put(job)
    PROVE  /\ mem' = job /\ mem' \in Jobs!Record /\ mem' # None
           /\ jobErrors' \in 0 .. JobErrors
           /\ \/ redis' = redis
              \/ redis' \in Jobs!Record /\ redis'.status = job.status
                 /\ redis'.success = job.success
<1>1. Jobs!Public(job) \in Jobs!Record /\ Jobs!Public(job).status = job.status
      /\ Jobs!Public(job).success = job.success
  BY DEF Jobs!Public, Jobs!Record
<1>2. job # None
  BY DEF Jobs!JobsAssumption
<1> QED BY <1>1, <1>2, RaisedType DEF Jobs!Put, Jobs!TypeOK

JobPlaces == {"none", "queued", "items", "write", "report", "failed", "over", "dead"}

(* A step that puts a record, of a thread that was not over yet.             *)
LEMMA PutKeeps ==
    ASSUME Jobs!JobsAssumption, JobInv, NEW job \in Jobs!Record, Jobs!Put(job),
           jobAt \notin {"over", "dead"},
           jobAt' \in {"queued", "items", "write", "over"},
           job.status \in Jobs!Ended => jobAt' = "over", Truth(job, kind', stored),
           UNCHANGED stored, kind' \in Jobs!Kinds, ItemInv',
           jobAt' # "over" => stored = {},
           asks' \in [Jobs!Processes -> {"nothing", "poll", "file"}], UNCHANGED told
    PROVE  JobInv'
<1>1. /\ mem' = job /\ mem' \in Jobs!Record /\ mem' # None
      /\ jobErrors' \in 0 .. JobErrors
      /\ \/ redis' = redis
         \/ redis' \in Jobs!Record /\ redis'.status = job.status /\ redis'.success = job.success
  BY PutType DEF JobInv
<1>2. redis # None => redis.status \notin Jobs!Ended
  BY DEF JobInv, Counts
<1>3. redis' # None => Counts(redis)'
  BY <1>1, <1>2 DEF Counts, Jobs!Ended, Truth
<1>4. Counts(mem)'
  BY <1>1 DEF Counts, Truth
<1>5. Jobs!TypeOK'
  BY <1>1 DEF JobInv, Jobs!TypeOK, ItemInv
<1> QED BY <1>1, <1>3, <1>4, <1>5 DEF JobInv

(* A step that puts nothing.                                                 *)
LEMMA NoPutKeeps ==
    ASSUME Jobs!JobsAssumption, JobInv, UNCHANGED <<mem, redis, kind>>,
           Jobs!Raise \/ UNCHANGED jobErrors,
           jobAt' \in JobPlaces, (jobAt' = "dead") = (jobAt = "dead"),
             (jobAt' = "none") = (jobAt = "none"),
           stored' \subseteq JobAccounts, ItemInv',
           jobAt' \in {"none", "queued", "items", "write"} => stored' = {},
           jobAt' = "report" /\ kind # "json_export" => stored' = Jobs!Entries',
           jobAt \in {"over", "dead"} => jobAt' = jobAt /\ stored' = stored,
           asks' \in [Jobs!Processes -> {"nothing", "poll", "file"}],
           told' \in [Jobs!Processes -> Jobs!Ended \cup {"nothing", "not found", "file",
             "unavailable"}]
    PROVE  JobInv'
<1>2. (mem' # None => Counts(mem)') /\ (redis' # None => Counts(redis)')
  <2>1. CASE jobAt \in {"over", "dead"}
    BY <2>1 DEF JobInv, Counts, Truth
  <2>2. CASE jobAt \notin {"over", "dead"}
    BY <2>2 DEF JobInv, Counts, Truth, Jobs!Ended
  <2> QED BY <2>1, <2>2
<1>3. jobErrors' \in 0 .. JobErrors
  BY RaisedType DEF JobInv, Jobs!TypeOK
<1>4. Jobs!TypeOK'
  BY <1>3 DEF JobInv, Jobs!TypeOK, JobPlaces, ItemInv
<1> QED BY <1>2, <1>4 DEF JobInv

LEMMA PatchRecord ==
    ASSUME NEW job \in Jobs!Record, NEW status \in {"queued", "running"} \cup Jobs!Ended
    PROVE  LET new == [job EXCEPT !.status = status] IN new \in Jobs!Record /\ new.status = status
BY DEF Jobs!Record

LEMMA SubmitKeeps ==
    ASSUME Jobs!JobsAssumption, JobInv, NEW k \in Jobs!Kinds, Jobs!Submit(k)
    PROVE  JobInv'
<1> DEFINE job == [status |-> "queued", success |-> 0, bytes |-> FALSE]
<1>2. job \in Jobs!Record /\ job.status = "queued"
  BY DEF Jobs!Record
<1>3. Jobs!Put(job)
  BY DEF Jobs!Submit
<1> HIDE DEF job
<1>4. asks' \in [Jobs!Processes -> {"nothing", "poll", "file"}]
  BY DEF Jobs!Submit
<1>5. /\ jobAt = "none" /\ jobAt' = "queued" /\ kind' \in Jobs!Kinds /\ stored' = stored
         /\ told' = told
      /\ item' = item /\ holds' = holds
  BY DEF Jobs!Submit
<1>6. stored = {} /\ Jobs!Good = {} /\ ItemInv
  BY <1>5 DEF JobInv, ItemInv
<1>7. ItemInv'
  BY <1>5, <1>6 DEF ItemInv, Jobs!Good
<1>8. Truth(job, kind', stored)
  BY <1>2 DEF Truth
<1> QED BY <1>2, <1>3, <1>4, <1>5, <1>6, <1>7, <1>8, PutKeeps DEF Jobs!Ended

(* A record of a running thread gets another status.                         *)
LEMMA PatchKeeps ==
    ASSUME Jobs!JobsAssumption, JobInv, Jobs!Patch("running") \/ (Jobs!Patch("error")
           /\ jobAt' = "over"),
           jobAt \notin {"none", "over", "dead"},
           jobAt' \in {"queued", "items", "write", "over"}, jobAt' # "over" => stored = {},
           UNCHANGED <<kind, stored, Jobs!clients>>, ItemInv'
    PROVE  JobInv'
<1>1. mem \in Jobs!Record
  BY DEF JobInv, Jobs!TypeOK
<1>2. kind' \in Jobs!Kinds /\ asks' \in [Jobs!Processes -> {"nothing", "poll",
      "file"}] /\ told' = told
  BY DEF JobInv, Jobs!TypeOK, Jobs!clients
<1>3. CASE Jobs!Patch("running")
  <2>1. /\ [mem EXCEPT !.status = "running"] \in Jobs!Record
        /\ [mem EXCEPT !.status = "running"].status = "running"
    BY <1>1, PatchRecord
  <2>2. Jobs!Put([mem EXCEPT !.status = "running"])
    BY <1>3 DEF Jobs!Patch
  <2>3. Truth([mem EXCEPT !.status = "running"], kind', stored)
    BY <2>1 DEF Truth
  <2> QED BY <1>2, <2>1, <2>2, <2>3, PutKeeps DEF Jobs!Ended
<1>4. CASE Jobs!Patch("error") /\ jobAt' = "over"
  <2>1. /\ [mem EXCEPT !.status = "error"] \in Jobs!Record
        /\ [mem EXCEPT !.status = "error"].status = "error"
    BY <1>1, PatchRecord DEF Jobs!Ended
  <2>2. Jobs!Put([mem EXCEPT !.status = "error"])
    BY <1>4 DEF Jobs!Patch
  <2>3. Truth([mem EXCEPT !.status = "error"], kind', stored)
    BY <2>1 DEF Truth
  <2> QED BY <1>2, <1>4, <2>1, <2>2, <2>3, PutKeeps
<1> QED BY <1>3, <1>4

LEMMA ItemsKeep ==
    ASSUME Jobs!JobsAssumption, JobInv,
           Jobs!Begin \/ Jobs!Export \/ Jobs!Decide \/ (\E i \in Items : Jobs!Convert(i)
             \/ Jobs!Parse(i))
    PROVE  JobInv'
<1>1. jobAt \in {"queued", "items"} /\ stored = {} /\ ItemInv
  BY DEF Jobs!Begin, Jobs!Convert, Jobs!Parse, Jobs!Judge, Jobs!Export, Jobs!Decide, JobInv
<1>2. CASE Jobs!Begin
  <2>1. jobAt' = "items" /\ UNCHANGED <<kind, item, holds, stored, Jobs!clients>>
    BY <1>2 DEF Jobs!Begin
  <2>2. ItemInv'
    BY <1>1, <2>1 DEF ItemInv, Jobs!Good
  <2> QED BY <1>1, <1>2, <2>1, <2>2, PatchKeeps DEF Jobs!Begin
<1>3. /\ asks \in [Jobs!Processes -> {"nothing", "poll", "file"}]
      /\ told \in [Jobs!Processes -> Jobs!Ended \cup {"nothing", "not found", "file",
         "unavailable"}]
  BY DEF JobInv, Jobs!TypeOK
<1>4. ASSUME NEW i \in Items, Jobs!Convert(i) PROVE JobInv'
  <2>1. /\ kind = "sso_import" /\ jobAt = "items" /\ jobAt' = jobAt
        /\ UNCHANGED <<kind, stored, Jobs!clients>>
        /\ Jobs!Judge(i, {{a} : a \in JobAccounts})
        /\ Jobs!Patch("running") \/ UNCHANGED <<mem, redis, jobErrors>>
    BY <1>4 DEF Jobs!Convert, Jobs!Judge
  <2>2. \/ /\ item' = [item EXCEPT ![i] = "good"]
           /\ \E a \in JobAccounts : holds' = [holds EXCEPT ![i] = {a}]
        \/ /\ item' = [item EXCEPT ![i] = "bad"]
           /\ UNCHANGED holds
    BY <2>1 DEF Jobs!Judge
  <2>3. ItemInv'
    BY <1>1, <2>1, <2>2 DEF ItemInv, Jobs!Good
  <2> QED BY <1>1, <1>3, <2>1, <2>3, PatchKeeps, NoPutKeeps DEF Jobs!clients, JobPlaces
<1>5. ASSUME NEW i \in Items, Jobs!Parse(i) PROVE JobInv'
  <2> DEFINE job == [mem EXCEPT !.status = "running", !.success = Cardinality(Jobs!Good')]
  <2>1. /\ kind = "json_import" /\ jobAt = "items" /\ jobAt' = jobAt
        /\ UNCHANGED <<kind, stored, Jobs!clients>> /\ Jobs!Judge(i, SUBSET JobAccounts)
        /\ Jobs!Put(job)
    BY <1>5, JobsCount DEF Jobs!Parse, Jobs!Judge
  <2>2. item' \in [Items -> {"new", "good", "bad"}] /\ holds' \in [Items -> SUBSET JobAccounts]
    BY <1>1, <2>1 DEF ItemInv, Jobs!Judge
  <2>3. ItemInv'
    BY <2>1, <2>2 DEF ItemInv
  <2>4. Cardinality(Jobs!Good') \in Nat
    <3>1. IsFiniteSet(Items) /\ Jobs!Good' \in SUBSET Items
      BY JobsCount DEF Jobs!JobsAssumption, Jobs!Good
    <3>2. IsFiniteSet(Jobs!Good')
      BY <3>1, FS_Subset
    <3> QED BY <3>2, FS_CardinalityType
  <2>5. mem \in Jobs!Record
    BY <2>1 DEF JobInv, Jobs!TypeOK
  <2>6. job \in Jobs!Record /\ job.status = "running"
    BY <2>4, <2>5 DEF Jobs!Record
  <2>7. Truth(job, kind', stored)
    BY <2>6 DEF Truth
  <2>8. asks' \in [Jobs!Processes -> {"nothing", "poll", "file"}] /\ told' = told
        /\ kind' \in Jobs!Kinds
    BY <1>3, <2>1 DEF Jobs!clients, JobInv, Jobs!TypeOK
  <2> HIDE DEF job
  <2> QED BY <1>1, <2>1, <2>3, <2>6, <2>7, <2>8, PutKeeps DEF Jobs!Ended
<1>6. CASE Jobs!Export
  <2>1. /\ kind = "json_export" /\ jobAt = "items" /\ item' \in [Items -> {"good", "bad"}]
        /\ UNCHANGED <<kind, jobAt, holds, mem, redis, stored, asks, told, jobErrors>>
    BY <1>6 DEF Jobs!Export, Jobs!clients
  <2>2. ItemInv'
    BY <1>1, <2>1 DEF ItemInv
  <2> QED BY <1>1, <1>3, <2>1, <2>2, NoPutKeeps DEF JobPlaces, JobInv, Jobs!TypeOK
<1>7. CASE Jobs!Decide
  <2>1. /\ jobAt = "items" /\ jobAt' \in {"report", "write"}
        /\ UNCHANGED <<kind, item, holds, stored, asks, told, Jobs!clients>>
    BY <1>7 DEF Jobs!Decide, Jobs!clients
  <2>2. ItemInv' /\ Jobs!Good' = Jobs!Good
    BY <1>1, <2>1 DEF ItemInv, Jobs!Good
  <2>3. CASE Jobs!Good = {} /\ jobAt' = "report" /\ UNCHANGED <<mem, redis, jobErrors>>
    <3>1. Jobs!Entries' = {}
      BY <2>2, <2>3 DEF Jobs!Entries
    <3> QED BY <1>1, <1>3, <2>1, <2>2, <2>3, <3>1, NoPutKeeps DEF JobPlaces, JobInv, Jobs!TypeOK
  <2>4. CASE jobAt' = "write" /\ Jobs!Patch("running")
    BY <1>1, <2>1, <2>2, <2>4, PatchKeeps
  <2> QED BY <1>7, <2>3, <2>4 DEF Jobs!Decide
<1> QED BY <1>2, <1>4, <1>5, <1>6, <1>7

LEMMA WriteKeeps ==
    ASSUME Jobs!JobsAssumption, JobInv, Jobs!Write \/ Jobs!Fail
    PROVE  JobInv'
<1>1. /\ ItemInv /\ Jobs!Entries \subseteq JobAccounts /\ stored \subseteq JobAccounts
      /\ asks \in [Jobs!Processes -> {"nothing", "poll", "file"}]
      /\ told \in [Jobs!Processes -> Jobs!Ended \cup {"nothing", "not found", "file",
         "unavailable"}]
  BY EntriesType DEF JobInv, Jobs!TypeOK
<1>2. CASE Jobs!Write
  <2>1. /\ jobAt = "write" /\ jobAt' = "report"
        /\ UNCHANGED <<kind, holds, mem, redis, asks, told, jobErrors>>
    BY <1>2 DEF Jobs!Write, Jobs!clients
  <2>2. CASE kind = "json_export"
    <3>1. UNCHANGED <<item, stored>>
      BY <1>2, <2>2 DEF Jobs!Write
    <3>2. ItemInv'
      BY <1>1, <2>1, <3>1 DEF ItemInv, Jobs!Good
    <3> QED BY <1>1, <2>1, <2>2, <3>1, <3>2, NoPutKeeps DEF JobPlaces
  <2>3. CASE kind # "json_export" /\ Jobs!Entries # {}
    <3>1. item' = item /\ stored' = Jobs!Entries
      BY <1>2, <2>3 DEF Jobs!Write
    <3>2. ItemInv' /\ Jobs!Entries' = Jobs!Entries
      BY <1>1, <2>1, <3>1 DEF ItemInv, Jobs!Good, Jobs!Entries
    <3> QED BY <1>1, <2>1, <3>1, <3>2, NoPutKeeps DEF JobPlaces
  <2>4. CASE kind # "json_export" /\ Jobs!Entries = {}
    <3>1. item' = [i \in Items |-> "bad"] /\ stored' = {}
      BY <1>2, <2>4 DEF Jobs!Write
    <3>2. Jobs!Good' = {}
      BY <3>1 DEF Jobs!Good
    <3>3. ItemInv' /\ Jobs!Entries' = {}
      BY <1>1, <2>1, <3>1, <3>2 DEF ItemInv, Jobs!Entries
    <3> QED BY <1>1, <2>1, <3>1, <3>3, NoPutKeeps DEF JobPlaces
  <2> QED BY <2>2, <2>3, <2>4
<1>3. CASE Jobs!Fail
  <2>1. /\ jobAt \in {"items", "write"} /\ jobAt' = "failed"
        /\ UNCHANGED <<kind, item, holds, mem, redis, asks, told, jobErrors>>
        /\ stored' \in {stored, Jobs!Entries}
    BY <1>3 DEF Jobs!Fail, Jobs!clients
  <2>2. ItemInv'
    BY <1>1, <2>1 DEF ItemInv, Jobs!Good
  <2> QED BY <1>1, <2>1, <2>2, NoPutKeeps DEF JobPlaces
<1> QED BY <1>2, <1>3

LEMMA ReportKeeps ==
    ASSUME Jobs!JobsAssumption, JobInv, Jobs!Report \/ Jobs!ReportError
    PROVE  JobInv'
<1>1. /\ ItemInv /\ kind \in Jobs!Kinds /\ kind' = kind
      /\ asks \in [Jobs!Processes -> {"nothing", "poll", "file"}]
      /\ jobAt' = "over" /\ UNCHANGED <<item, holds, stored, asks, told, Jobs!clients>>
  BY DEF JobInv, Jobs!TypeOK, Jobs!Report, Jobs!ReportError, Jobs!clients
<1>2. ItemInv'
  BY <1>1 DEF ItemInv, Jobs!Good
<1>3. CASE Jobs!ReportError
  <2>1. jobAt = "failed" /\ Jobs!Patch("error")
    BY <1>3 DEF Jobs!ReportError
  <2> QED BY <1>1, <1>2, <2>1, PatchKeeps
<1>4. CASE Jobs!Report
  <2> DEFINE verdict == CASE kind = "sso_import" -> Jobs!CookiesVerdict
                          [] kind = "json_import" -> Jobs!FilesVerdict
                          [] OTHER -> Jobs!ExportVerdict
             job == [status |-> verdict, success |-> Jobs!Successes,
                     bytes |-> kind = "json_export" /\ verdict = "done"]
  <2>1. verdict \in Jobs!Ended
    BY DEF Jobs!CookiesVerdict, Jobs!FilesVerdict, Jobs!ExportVerdict, Jobs!Ended
  <2>2. Jobs!Put(job) /\ jobAt = "report"
    BY <1>4 DEF Jobs!Report
  <2> HIDE DEF verdict
  <2>3. Jobs!Successes = IF kind = "json_import" THEN Cardinality(Jobs!Entries)
                         ELSE Cardinality(Jobs!Good)
    BY JobsCount DEF Jobs!Successes
  <2>4. Jobs!Successes \in Nat
    BY <1>1, <2>3, GoodType, EntriesType
  <2>5. job \in Jobs!Record /\ job.success = Jobs!Successes
    BY <2>1, <2>4 DEF Jobs!Record
  <2> HIDE DEF job
  <2>6. kind # "json_export" => stored = Jobs!Entries
    BY <2>2 DEF JobInv
  <2>7. CASE kind = "json_import"
    <3>1. Truth(job, kind', stored)
      BY <1>1, <2>3, <2>5, <2>6, <2>7 DEF Truth
    <3> QED BY <1>1, <1>2, <2>2, <2>5, <3>1, PutKeeps
  <2>8. CASE kind = "sso_import"
    <3>1. Cardinality(stored) \in Nat /\ Cardinality(Jobs!Good) \in Nat
      BY <1>1, <2>6, <2>8, GoodType, EntriesType
    <3>2. Truth(job, kind', stored)
      BY <1>1, <2>3, <2>5, <2>6, <2>8, <3>1, CookiesCount DEF Truth
    <3> QED BY <1>1, <1>2, <2>2, <2>5, <3>2, PutKeeps
  <2>9. CASE kind = "json_export"
    <3>1. Truth(job, kind', stored)
      BY <1>1, <2>9 DEF Truth
    <3> QED BY <1>1, <1>2, <2>2, <2>5, <3>1, PutKeeps
  <2> QED BY <1>1, <2>7, <2>8, <2>9 DEF Jobs!Kinds
<1> QED BY <1>3, <1>4

LEMMA LossKeeps ==
    ASSUME Jobs!JobsAssumption, JobInv, Jobs!Crash \/ Jobs!Expire
    PROVE  JobInv'
<1>1. CASE Jobs!Crash
  <2>1. /\ jobAt \notin {"none", "dead"} /\ jobAt' = "dead" /\ mem' = None
        /\ UNCHANGED <<kind, item, holds, redis, stored, asks, told, jobErrors>>
    BY <1>1 DEF Jobs!Crash, Jobs!clients
  <2>2. redis' # None => Counts(redis)'
    BY <2>1 DEF JobInv, Counts
  <2>3. Jobs!TypeOK' /\ ItemInv'
    BY <2>1 DEF JobInv, Jobs!TypeOK, ItemInv, Jobs!Good
  <2> QED BY <2>1, <2>2, <2>3 DEF JobInv
<1>2. CASE Jobs!Expire
  <2>1. redis' = None /\ UNCHANGED <<kind, jobAt, item, holds, mem, stored, asks, told, jobErrors>>
    BY <1>2 DEF Jobs!Expire, Jobs!clients
  <2>2. Jobs!TypeOK'
    BY <2>1 DEF JobInv, Jobs!TypeOK
  <2>4. ItemInv' /\ Jobs!Entries' = Jobs!Entries
    BY <2>1, SameItems DEF JobInv
  <2>3. mem' # None => Counts(mem)'
    BY <2>1 DEF JobInv, Counts
  <2> QED BY <2>1, <2>2, <2>3, <2>4 DEF JobInv
<1> QED BY <1>1, <1>2

LEMMA ClientKeeps ==
    ASSUME Jobs!JobsAssumption, JobInv, NEW p \in Jobs!Processes, Jobs!Poll(p) \/ Jobs!Download(p)
    PROVE  JobInv'
<1> DEFINE Words == Jobs!Ended \cup {"nothing", "not found", "file", "unavailable"}
<1>1. PICK word \in Words, next \in {"nothing", "file"} :
          Jobs!Answer(p, word, next) /\ (Jobs!Raise \/ UNCHANGED jobErrors)
  <2>1. CASE Jobs!Poll(p)
    <3>1. PICK up \in BOOLEAN : Jobs!PollOnce(p, up) /\ (Jobs!Raise \/ UNCHANGED jobErrors)
      BY <2>1 DEF Jobs!Poll
    <3>2. Jobs!Get(p, up) # None => Jobs!Get(p, up).status \in Jobs!Ended
      BY <3>1 DEF Jobs!PollOnce
    <3> QED BY <3>1, <3>2 DEF Jobs!PollOnce
  <2>2. CASE Jobs!Download(p)
    BY <2>2 DEF Jobs!Download
  <2> QED BY <2>1, <2>2
<1>2. UNCHANGED <<kind, jobAt, item, holds, mem, redis, stored>>
  BY <1>1 DEF Jobs!Answer
<1>3. /\ asks' \in [Jobs!Processes -> {"nothing", "poll", "file"}]
      /\ told' \in [Jobs!Processes -> Words]
  BY <1>1 DEF Jobs!Answer, JobInv, Jobs!TypeOK
<1>4. ItemInv' /\ Jobs!Entries' = Jobs!Entries
  BY <1>2, SameItems DEF JobInv
<1>5. /\ jobAt' \in JobPlaces /\ stored' \subseteq JobAccounts
      /\ jobAt' \in {"none", "queued", "items", "write"} => stored' = {}
      /\ jobAt' = "report" /\ kind # "json_export" => stored' = Jobs!Entries'
  BY <1>2, <1>4 DEF JobInv, Jobs!TypeOK, JobPlaces
<1> QED BY <1>1, <1>2, <1>3, <1>4, <1>5, NoPutKeeps

LEMMA JobStep ==
    ASSUME Jobs!JobsAssumption, JobInv, [Jobs!Next]_Jobs!vars
    PROVE  JobInv'
<1>1. CASE UNCHANGED Jobs!vars
  <2>1. UNCHANGED <<kind, jobAt, item, holds, mem, redis, stored, asks, told, jobErrors>>
    BY <1>1 DEF Jobs!vars, Jobs!clients
  <2>2. Jobs!TypeOK'
    BY <2>1 DEF JobInv, Jobs!TypeOK
  <2>4. ItemInv' /\ Jobs!Entries' = Jobs!Entries
    BY <2>1, SameItems DEF JobInv
  <2>3. (mem' # None => Counts(mem)') /\ (redis' # None => Counts(redis)')
    BY <2>1 DEF JobInv, Counts
  <2> QED BY <2>1, <2>2, <2>3, <2>4 DEF JobInv
<1>2. CASE Jobs!SubmitCookies \/ Jobs!SubmitFiles \/ Jobs!SubmitExport
  BY <1>2, SubmitKeeps DEF Jobs!SubmitCookies, Jobs!SubmitFiles, Jobs!SubmitExport, Jobs!Kinds
<1> QED BY <1>1, <1>2, ItemsKeep, WriteKeeps, ReportKeeps, LossKeeps, ClientKeeps
        DEF Jobs!Next, Jobs!Thread

LEMMA JobInit == Jobs!JobsAssumption /\ Jobs!Init => JobInv
<1> SUFFICES ASSUME Jobs!JobsAssumption, Jobs!Init PROVE JobInv
  OBVIOUS
<1>1. jobErrors \in 0 .. JobErrors
  BY DEF Jobs!JobsAssumption, Jobs!Init
<1>2. asks \in [Jobs!Processes -> {"nothing"}] /\ told \in [Jobs!Processes -> {"nothing"}]
  BY DEF Jobs!Init
<1>3. item = [i \in Items |-> "new"] /\ holds = [i \in Items |-> {}]
  BY DEF Jobs!Init
<1>4. ItemInv
  BY <1>3 DEF ItemInv, Jobs!Good
<1> QED BY <1>1, <1>2, <1>3, <1>4 DEF Jobs!Init, JobInv, Jobs!TypeOK, Jobs!Kinds

(* The record of a finished import, mirrored or not, tells what was stored,  *)
(* whatever fails: the number of accounts of files, and of cookies at least  *)
(* as many as accounts, none if there is none.                               *)
THEOREM RecordsCount ==
    ASSUME Jobs!JobsAssumption
    PROVE  Jobs!Init /\ [][Jobs!Next]_Jobs!vars => [](Jobs!TypeOK /\ Jobs!JobsCounted)
<1>1. JobInv => Jobs!TypeOK /\ Jobs!JobsCounted
  BY JobsCount DEF JobInv, Jobs!JobsCounted, Jobs!Tells, Counts, Truth
<1> QED BY <1>1, JobInit, JobStep, PTL
-----------------------------------------------------------------------------
(* The slot of the maintenance cycles                                        *)
LEMMA SlotParameters == Slot!SlotAssumption
BY UpkeepAssumption

USE DEF Slot!Places

LEMMA ProcessType == Slot!SlotAssumption => \A u \in Users : Process[u] \in Slot!Processes
BY DEF Slot!SlotAssumption, Slot!Processes

LEMMA SlotInit == Slot!SlotAssumption /\ Slot!Init => Slot!TypeOK
BY DEF Slot!SlotAssumption, Slot!Init, Slot!TypeOK

LEMMA SlotStep ==
    ASSUME Slot!SlotAssumption, Slot!TypeOK, [Slot!Next]_Slot!vars
    PROVE  Slot!TypeOK'
<1> USE DEF Slot!TypeOK, Slot!Goto, Slot!Raise
<1>1. CASE UNCHANGED Slot!vars
  BY <1>1 DEF Slot!vars
<1>2. ASSUME NEW u \in Users, Slot!Call(u) \/ Slot!Ask(u) \/ Slot!Defer(u) \/ Slot!Leave(u)
             PROVE Slot!TypeOK'
  BY <1>2, ProcessType DEF Slot!Call, Slot!Ask, Slot!Defer, Slot!Leave
<1>3. ASSUME NEW u \in Users, Slot!Release(u) \/ Slot!TakeLocal(u) \/ Slot!LeaveLocal(u)
             PROVE Slot!TypeOK'
  <2>1. CASE Slot!Release(u)
    BY <2>1 DEF Slot!Release
  <2>2. CASE Slot!TakeLocal(u)
    BY <2>2, ProcessType DEF Slot!TakeLocal
  <2>3. CASE Slot!LeaveLocal(u)
    BY <2>3, ProcessType DEF Slot!LeaveLocal
  <2> QED BY <1>3, <2>1, <2>2, <2>3
<1>4. ASSUME NEW u \in Users, Slot!YieldTwice(u) \/ Slot!Recover(u) PROVE Slot!TypeOK'
  BY <1>4 DEF Slot!YieldTwice, Slot!Recover
<1>5. ASSUME NEW u \in Users, Slot!AskError(u) \/ Slot!RenewError(u) PROVE Slot!TypeOK'
  <2>1. CASE Slot!AskError(u)
    BY <2>1 DEF Slot!AskError, Slot!SlotAssumption
  <2>2. CASE Slot!RenewError(u)
    BY <2>2 DEF Slot!RenewError, Slot!SlotAssumption
  <2> QED BY <1>5, <2>1, <2>2
<1>6. ASSUME NEW u \in Users, Slot!ReleaseError(u) PROVE Slot!TypeOK'
  BY <1>6 DEF Slot!ReleaseError, Slot!SlotAssumption
<1>7. ASSUME NEW p \in Slot!Processes, Slot!Crash(p) PROVE Slot!TypeOK'
  BY <1>7 DEF Slot!Crash
<1>8. CASE Slot!Expire \/ Slot!Lapse
  BY <1>8 DEF Slot!Expire, Slot!Lapse, Slot!SlotAssumption
<1> QED BY <1>1, <1>2, <1>3, <1>4, <1>5, <1>6, <1>7, <1>8 DEF Slot!Next, Slot!Step

(* Every variable keeps its type, and no renew thread outlives the with      *)
(* statement of its call.                                                    *)
THEOREM SlotTypes == Slot!Spec => []Slot!TypeOK
BY SlotParameters, SlotInit, SlotStep, PTL DEF Slot!Spec

-----------------------------------------------------------------------------
(* The local lock                                                            *)

LocalHeld ==
    \A u \in Users : slotAt[u] = "alone" => local[Process[u]] = u

LEMMA LocalStep ==
    ASSUME Slot!SlotAssumption, Slot!TypeOK, LocalHeld, [Slot!Next]_Slot!vars
    PROVE  LocalHeld'
<1> USE DEF LocalHeld, Slot!Goto
<1>1. CASE UNCHANGED Slot!vars
  BY <1>1 DEF Slot!vars
<1>2. ASSUME NEW u \in Users,
             \/ Slot!Call(u) \/ Slot!Ask(u) \/ Slot!Defer(u) \/ Slot!Leave(u) \/ Slot!Release(u)
             \/ Slot!YieldTwice(u) \/ Slot!Recover(u) \/ Slot!AskError(u)
                \/ Slot!RenewError(u) \/ Slot!ReleaseError(u)
      PROVE LocalHeld'
  BY <1>2 DEF Slot!Call, Slot!Ask, Slot!Defer, Slot!Leave, Slot!Release, Slot!YieldTwice,
      Slot!Recover, Slot!AskError,
              Slot!RenewError, Slot!ReleaseError, Slot!TypeOK
<1>3. ASSUME NEW u \in Users, Slot!TakeLocal(u) PROVE LocalHeld'
  BY <1>3, ProcessType DEF Slot!TakeLocal, Slot!TypeOK, Slot!SlotAssumption
<1>4. ASSUME NEW u \in Users, Slot!LeaveLocal(u) PROVE LocalHeld'
  <2>1. local[Process[u]] = u
    BY <1>4 DEF Slot!LeaveLocal
  <2>2. ASSUME NEW v \in Users, slotAt'[v] = "alone" PROVE local'[Process[v]] = v
    BY <1>4, <2>1, <2>2, ProcessType DEF Slot!LeaveLocal, Slot!TypeOK
  <2> QED BY <2>2
<1>5. ASSUME NEW p \in Slot!Processes, Slot!Crash(p) PROVE LocalHeld'
  BY <1>5, ProcessType DEF Slot!Crash, Slot!TypeOK
<1>6. CASE Slot!Expire \/ Slot!Lapse
  BY <1>6 DEF Slot!Expire, Slot!Lapse
<1> QED BY <1>1, <1>2, <1>3, <1>4, <1>5, <1>6 DEF Slot!Next, Slot!Step

(* Whatever Redis does, the cycles that fell back to the local lock of one   *)
(* process exclude each other.                                               *)
THEOREM LocalLock == Slot!Spec => []Slot!LocalExclusive
<1>1. Slot!Init => Slot!TypeOK /\ LocalHeld
  BY SlotParameters, SlotInit DEF Slot!Init, LocalHeld
<1>2. Slot!TypeOK /\ LocalHeld /\ [Slot!Next]_Slot!vars => (Slot!TypeOK /\ LocalHeld)'
  BY SlotParameters, SlotStep, LocalStep
<1>3. LocalHeld => Slot!LocalExclusive
  BY DEF LocalHeld, Slot!LocalExclusive
<1> QED BY <1>1, <1>2, <1>3, PTL DEF Slot!Spec

-----------------------------------------------------------------------------
(* The key                                                                   *)

(* Until something fails nobody goes the local way, and whoever works has    *)
(* the key and its renewer.                                                  *)
KeyHeld ==
    Slot!Quiet => \A u \in Users :
        /\ slotAt[u] \notin {"wait", "alone"}
        /\ slotAt[u] = "work" => slotLock = u /\ renewing[u]

LEMMA KeyStep ==
    ASSUME Slot!SlotAssumption, Slot!TypeOK, KeyHeld, [Slot!Next]_Slot!vars
    PROVE  KeyHeld'
<1> USE DEF KeyHeld, Slot!Goto, Slot!Quiet
<1>1. CASE UNCHANGED Slot!vars
  BY <1>1 DEF Slot!vars
<1>2. ASSUME NEW u \in Users, Slot!Call(u) \/ Slot!Defer(u) \/ Slot!Leave(u) PROVE KeyHeld'
  BY <1>2 DEF Slot!Call, Slot!Defer, Slot!Leave, Slot!TypeOK
<1>3. ASSUME NEW u \in Users, Slot!Ask(u) PROVE KeyHeld'
  BY <1>3 DEF Slot!Ask, Slot!TypeOK, Slot!SlotAssumption
<1>4. ASSUME NEW u \in Users, Slot!Release(u) PROVE KeyHeld'
  BY <1>4 DEF Slot!Release, Slot!TypeOK
<1>5. ASSUME NEW u \in Users, Slot!YieldTwice(u) \/ Slot!Recover(u) \/ Slot!TakeLocal(u)
             \/ Slot!LeaveLocal(u)
      PROVE KeyHeld'
  BY <1>5 DEF Slot!YieldTwice, Slot!Recover, Slot!TakeLocal, Slot!LeaveLocal, Slot!TypeOK
<1>6. ASSUME NEW u \in Users, Slot!AskError(u) \/ Slot!RenewError(u) \/ Slot!ReleaseError(u)
             PROVE KeyHeld'
  BY <1>6 DEF Slot!AskError, Slot!RenewError, Slot!ReleaseError, Slot!Raise, Slot!TypeOK
<1>7. ASSUME NEW p \in Slot!Processes, Slot!Crash(p) PROVE KeyHeld'
  BY <1>7 DEF Slot!Crash, Slot!TypeOK
<1>8. CASE Slot!Expire
  BY <1>8 DEF Slot!Expire, Slot!TypeOK, Slot!SlotAssumption
<1>9. CASE Slot!Lapse
  BY <1>9 DEF Slot!Lapse, Slot!TypeOK
<1> QED BY <1>1, <1>2, <1>3, <1>4, <1>5, <1>6, <1>7, <1>8, <1>9 DEF Slot!Next, Slot!Step

(* While no Redis call raises and no key lapses under its renewer, one cycle *)
(* runs at a time in all processes together, crashes included.               *)
THEOREM OneCycle == Slot!Spec => []Slot!SlotExclusive
<1>1. Slot!Init => Slot!TypeOK /\ KeyHeld
  BY SlotParameters, SlotInit DEF Slot!Init, KeyHeld
<1>2. Slot!TypeOK /\ KeyHeld /\ [Slot!Next]_Slot!vars => (Slot!TypeOK /\ KeyHeld)'
  BY SlotParameters, SlotStep, KeyStep
<1>3. KeyHeld => Slot!SlotExclusive
  BY DEF KeyHeld, Slot!SlotExclusive, Slot!Inside
<1> QED BY <1>1, <1>2, <1>3, PTL DEF Slot!Spec

-----------------------------------------------------------------------------
(* The release compares before it deletes, so a cycle whose key lapsed never *)
(* frees the key of the one that took it.                                    *)
THEOREM ForeignKeyKept == Slot!Spec => Slot!KeepsForeignKey
<1> DEFINE Kept == \A u \in Users :
                     slotAt[u] = "release" /\ slotAt'[u] # "release" /\ slotLock \notin {u, Free}
                         => slotLock' # Free
<1>1. Slot!TypeOK /\ [Slot!Next]_Slot!vars => [Kept]_Slot!vars
  <2> SUFFICES ASSUME Slot!TypeOK, Slot!Next, NEW u \in Users,
                      slotAt[u] = "release", slotAt'[u] # "release", slotLock \notin {u, Free}
               PROVE  slotLock' # Free
    BY DEF Slot!vars
  <2> USE DEF Slot!Goto, Slot!TypeOK
  <2>1. CASE \E v \in Users : Slot!Call(v) \/ Slot!Step(v) \/ Slot!AskError(v)
        \/ Slot!RenewError(v) \/ Slot!ReleaseError(v)
    BY <2>1, SlotParameters DEF Slot!SlotAssumption, Slot!Step, Slot!Call, Slot!Ask,
        Slot!Defer, Slot!Leave, Slot!Release, Slot!TakeLocal,
           Slot!LeaveLocal, Slot!YieldTwice, Slot!Recover, Slot!AskError, Slot!RenewError,
             Slot!ReleaseError
  <2>2. CASE \E p \in Slot!Processes : Slot!Crash(p)
    BY <2>2, SlotParameters DEF Slot!Crash, Slot!SlotAssumption
  <2>3. CASE Slot!Expire \/ Slot!Lapse
    BY <2>3 DEF Slot!Expire, Slot!Lapse
  <2> QED BY <2>1, <2>2, <2>3 DEF Slot!Next
<1> QED BY <1>1, SlotTypes, PTL DEF Slot!Spec, Slot!KeepsForeignKey

-----------------------------------------------------------------------------
(* The composition: each component does what its own module says, whatever   *)
(* the others do beside it.                                                  *)
LEMMA Runs ==
    UpkeepSpec => /\ Spec
                  /\ Sweep!Init /\ [][Sweep!Next]_Sweep!vars
                  /\ Probe!Init /\ [][Probe!Next]_Probe!vars
                  /\ Jobs!Init /\ [][Jobs!Next]_Jobs!vars
                  /\ Slot!Spec
<1>1. UpkeepInit => Init /\ Sweep!Init /\ Probe!Init /\ Jobs!Init /\ Slot!Init
  BY DEF UpkeepInit
<1> DEFINE Any == [SolverNext \/ SweepNext \/ ProbeNext \/ JobsNext \/ SlotNext]_upkeepVars
<1> USE DEF SolverNext, SweepNext, ProbeNext, JobsNext, SlotNext, upkeepVars
<1>2. Any => [Next]_vars
  OBVIOUS
<1>3. Any => [Sweep!Next]_Sweep!vars
  BY DEF sweepVars, Sweep!vars
<1>4. Any => [Probe!Next]_Probe!vars
  BY DEF probeVars, Probe!vars, Probe!kept
<1>5. Any => [Jobs!Next]_Jobs!vars
  BY DEF jobVars, Jobs!vars, Jobs!clients
<1>6. Any => [Slot!Next]_Slot!vars
  BY DEF slotVars, Slot!vars
<1> QED BY <1>1, <1>2, <1>3, <1>4, <1>5, <1>6, PTL DEF UpkeepSpec, Spec, Slot!Spec

(* The types of the five components.                                         *)
THEOREM UpkeepTypes == UpkeepSpec => []TypesOK
<1>1. SolverAssumption /\ Sweep!SweepAssumption /\ Probe!ProbeAssumption /\ Jobs!JobsAssumption
  BY UpkeepAssumption
<1>2. Sweep!Init /\ [][Sweep!Next]_Sweep!vars => []Sweep!TypeOK
  BY <1>1, SweepTypes
<1>3. Probe!Init /\ [][Probe!Next]_Probe!vars => []ProbeInv
  BY <1>1, ProbeInvHolds
<1>4. Spec => []TypeOK
  BY <1>1, PoolTypes
<1>5. Jobs!Init /\ [][Jobs!Next]_Jobs!vars => [](Jobs!TypeOK /\ Jobs!JobsCounted)
  BY <1>1, RecordsCount
<1>6. ProbeInv => Probe!TypeOK
  BY DEF ProbeInv
<1> QED BY <1>2, <1>3, <1>4, <1>5, <1>6, Runs, SlotTypes, PTL DEF TypesOK

(* When the tasks there were have all ended with a lease, a pool that says   *)
(* it is ready has its whole number of browsers (_finalize_browser_lease).   *)
THEOREM PoolIsRepaired == UpkeepSpec => []RepairedAtRest
<1>1. Spec => []RepairedAtRest
  BY RepairAtRest, UpkeepAssumption
<1> QED BY <1>1, Runs, PTL

(* Neither the reaper nor a rebuild closes a browser that a task is using    *)
(* (_idle_reaper, _ensure_pool), although both decide before they wait for   *)
(* the lock.                                                                 *)
THEOREM NoLeaseReclaimed == UpkeepSpec => ReclaimSparesLeases
<1>1. Spec => ReclaimSparesLeases
  BY ReclaimIsSafe, UpkeepAssumption
<1> QED BY <1>1, Runs, PTL

(* "Each live account is probed at most once per generation"                 *)
(* (_select_probe_batch).                                                    *)
THEOREM ProbedOncePerSweep == UpkeepSpec => OncePerSweep
<1>1. Probe!Init /\ [][Probe!Next]_Probe!vars => Probe!OncePerSweep
  BY ProbedOnce, UpkeepAssumption
<1>2. Probe!OncePerSweep => OncePerSweep
  BY DEF OncePerSweep
<1> QED BY <1>1, <1>2, Runs, PTL

(* Two maintenance cycles never run at the same time while Redis answers and *)
(* renewers are in time (maintenance_gate.py).                               *)
THEOREM UpkeepExclusive == UpkeepSpec => []SlotExclusive
BY Runs, OneCycle, PTL DEF SlotExclusive
=============================================================================
