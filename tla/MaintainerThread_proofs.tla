----------------------- MODULE MaintainerThread_proofs -----------------------
(* Proofs about MaintainerThread, for any number of worker threads, callers  *)
(* and requests: its types, and that a forced cycle is always one that       *)
(* somebody has asked for and nobody else was given.                         *)
EXTENDS MaintainerThread, TLAPS

(* A reference to a thread is to one that was started; and the credits are   *)
(* at most the requests, so that they stay within their bound.               *)
Started == thread # None => at[thread] # "new"
Covered == credit <= asked

ThreadInv == TypeOK /\ Started /\ Covered /\ ForceUsesRequest

LEMMA InvInit == ThreadAssumption /\ Init => ThreadInv
<1> SUFFICES ASSUME ThreadAssumption, Init PROVE ThreadInv
  OBVIOUS
<1> USE DEF ThreadAssumption, Init
<1>1. at \in [Threads -> Places]
  BY DEF Places
<1>2. {enabled, stop, wakeup, forceNext} \subseteq BOOLEAN
  OBVIOUS
<1> QED BY <1>1, <1>2 DEF ThreadInv, TypeOK, Started, Covered, ForceUsesRequest

(* A step of a worker moves one thread, and never back to "new".             *)
LEMMA MoveKeeps ==
    ASSUME TypeOK, Started, NEW t \in Threads, NEW place \in Places \ {"new"},
           Goto(t, place), UNCHANGED <<thread, joins>>
    PROVE  /\ at' \in [Threads -> Places]
           /\ thread' # None => at'[thread'] # "new"
           /\ \A c \in Callers : joins'[c] # None => at'[joins'[c]] # "new"
BY DEF TypeOK, Started, Goto, Places

LEMMA WorkerKeeps ==
    ASSUME ThreadAssumption, ThreadInv, NEW t \in Threads, Work(t)
    PROVE  ThreadInv'
<1> USE DEF ThreadInv, Covered, ForceUsesRequest, events, calls
<1>1. CASE Delay(t)
  <2>1. (IF stop THEN "dead" ELSE "top") \in Places \ {"new"}
    BY DEF Places
  <2> QED BY <1>1, <2>1, MoveKeeps DEF Delay, TypeOK, Started
<1>2. CASE Top(t)
  <2>1. (CASE stop -> "dead" [] ~stop /\ enabled -> "cycle" [] OTHER -> "pausing")
            \in Places \ {"new"}
    BY DEF Places
  <2> QED BY <1>2, <2>1, MoveKeeps DEF Top, TypeOK, Started
<1>3. CASE Pausing(t)
  BY <1>3, MoveKeeps DEF Pausing, TypeOK, Started, Places
<1>4. CASE Paused(t)
  BY <1>4, MoveKeeps DEF Paused, TypeOK, Started, Places
<1>5. CASE Cycle(t)
  <2>1. (IF at[t] = "cycle" THEN "clear" ELSE "top") \in Places \ {"new"}
    BY DEF Places
  <2> QED BY <1>5, <2>1, MoveKeeps DEF Cycle, TypeOK, Started
<1>6. CASE Clear(t)
  BY <1>6, MoveKeeps DEF Clear, TypeOK, Started, Places
<1>7. CASE Sleep(t)
  <2>1. (IF wakeup THEN "woken" ELSE "waiting") \in Places \ {"new"}
    BY DEF Places
  <2> QED BY <1>7, <2>1, MoveKeeps DEF Sleep, TypeOK, Started
<1>8. CASE Timeout(t)
  BY <1>8, MoveKeeps DEF Timeout, TypeOK, Started, Places
<1>9. CASE Slept(t)
  <2>1. (IF stop THEN "dead" ELSE "top") \in Places \ {"new"}
    BY DEF Places
  <2> QED BY <1>9, <2>1, MoveKeeps DEF Slept, TypeOK, Started
<1>10. CASE Woken(t)
  <2>1. CASE stop
    BY <1>10, <2>1, MoveKeeps DEF Woken, TypeOK, Started, Places
  <2>2. CASE ~stop
    <3>1. /\ Goto(t, "again") /\ forceNext' = FALSE
          /\ forced' = [forced EXCEPT ![t] = forceNext]
          /\ credit' = IF forceNext THEN credit - 1 ELSE credit
          /\ UNCHANGED <<enabled, stop, wakeup, thread, caller, joins, asked>>
      BY <1>10, <2>2 DEF Woken
    <3>2. credit' \in 0..MaxRequests /\ credit' <= asked'
      BY <3>1 DEF TypeOK, ThreadAssumption
    <3>3. /\ at' \in [Threads -> Places]
          /\ thread' # None => at'[thread'] # "new"
          /\ \A c \in Callers : joins'[c] # None => at'[joins'[c]] # "new"
      BY <3>1, MoveKeeps DEF Places
    <3>4. forced' \in [Threads -> BOOLEAN]
      BY <3>1 DEF TypeOK
    <3>5. {enabled', stop', wakeup', forceNext'} \subseteq BOOLEAN
      BY <3>1 DEF TypeOK
    <3>6. TypeOK'
      BY <3>1, <3>2, <3>3, <3>4, <3>5 DEF TypeOK
    <3> QED BY <3>1, <3>2, <3>3, <3>6 DEF TypeOK, Started
  <2> QED BY <2>1, <2>2
<1> QED
  BY <1>1, <1>2, <1>3, <1>4, <1>5, <1>6, <1>7, <1>8, <1>9, <1>10 DEF Work

(* An event that is set wakes the threads that wait for it, and no other.    *)
LEMMA WakeKeeps ==
    ASSUME TypeOK, Started, SetWakeup, UNCHANGED thread
    PROVE  /\ at' \in [Threads -> Places] /\ wakeup' \in BOOLEAN
           /\ \A t \in Threads : at[t] # "new" => at'[t] # "new"
           /\ thread' # None => at'[thread'] # "new"
BY DEF TypeOK, Started, SetWakeup, Places

LEMMA CallerKeeps ==
    ASSUME ThreadAssumption, ThreadInv, NEW c \in Callers,
           \/ \E force \in BOOLEAN : Request(c, force)
           \/ StartCheck(c) \/ StopSet(c) \/ Finish(c)
    PROVE  ThreadInv'
<1> USE DEF ThreadInv, Covered, ForceUsesRequest, events, worker, calls, Call
<1>1. ASSUME NEW force \in BOOLEAN, Request(c, force) PROVE ThreadInv'
  <2>1. credit' \in 0..MaxRequests /\ asked' \in 0..MaxRequests /\ credit' <= asked'
    BY <1>1 DEF Request, TypeOK, ThreadAssumption
  <2> QED BY <1>1, <2>1 DEF Request, TypeOK, Started
<1>2. CASE StartCheck(c)
  BY <1>2 DEF StartCheck, TypeOK, Started
<1>3. CASE StopSet(c)
  BY <1>3 DEF StopSet, TypeOK, Started
<1>4. CASE Poke(c)
  BY <1>4, WakeKeeps DEF Poke, TypeOK, Started
<1>5. CASE StartThread(c)
  <2>1. PICK t \in Threads : at[t] = "new" /\ thread' = t /\ Goto(t, "delay")
    BY <1>5 DEF StartThread
  <2>2. at' \in [Threads -> Places] /\ at'[thread'] # "new"
    BY <2>1 DEF Goto, TypeOK, Places
  <2>3. \A d \in Callers : joins'[d] # None => at'[joins'[d]] # "new"
    BY <1>5, <2>1 DEF StartThread, Goto, TypeOK
  <2> QED BY <1>5, <2>1, <2>2, <2>3 DEF StartThread, TypeOK, Started
<1>6. CASE StopWake(c)
  <2>1. joins' \in [Callers -> Threads \cup {None}]
    BY <1>6 DEF StopWake, TypeOK
  <2>2. \A d \in Callers : joins'[d] # None => at'[joins'[d]] # "new"
    <3>1. joins' = [joins EXCEPT ![c] = thread] /\ thread' = thread
      BY <1>6 DEF StopWake
    <3> QED BY <1>6, <3>1, WakeKeeps DEF StopWake, TypeOK
  <2> QED BY <1>6, <2>1, <2>2, WakeKeeps DEF StopWake, TypeOK, Started
<1>7. CASE StopJoined(c)
  BY <1>7 DEF StopJoined, TypeOK, Started
<1> QED BY <1>1, <1>2, <1>3, <1>4, <1>5, <1>6, <1>7 DEF Finish

LEMMA InvStep == ThreadAssumption /\ ThreadInv /\ [Next]_vars => ThreadInv'
<1> SUFFICES ASSUME ThreadAssumption, ThreadInv, [Next]_vars PROVE ThreadInv'
  OBVIOUS
<1>1. CASE UNCHANGED vars
  BY <1>1 DEF vars, events, worker, calls, ThreadInv, TypeOK, Started, Covered,
              ForceUsesRequest
<1>2. CASE Toggle
  BY <1>2 DEF Toggle, events, worker, calls, ThreadInv, TypeOK, Started, Covered,
              ForceUsesRequest
<1> QED BY <1>1, <1>2, WorkerKeeps, CallerKeeps DEF Next

(* The whole invariant holds for ever.                                       *)
LEMMA InvHolds == Spec => []ThreadInv
<1> QED BY ThreadAssumption, InvInit, InvStep, PTL DEF Spec

(* Type correctness of the thread, its events and its callers                *)
(* (token_maintainer.py): also that a stop only ever waits for a thread that *)
(* was started.                                                              *)
THEOREM TypeCorrect == Spec => []TypeOK
BY InvHolds, PTL DEF ThreadInv

(* request_run_soon and _worker: a request forces at most one cycle, however *)
(* many workers wake up and whatever stops and starts come between.          *)
THEOREM ForcesAreAsked == Spec => []ForceUsesRequest
BY InvHolds, PTL DEF ThreadInv
=============================================================================
