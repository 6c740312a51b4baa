-------------------------- MODULE MaintainerThread --------------------------
(* token_maintainer.py in one process: the worker thread, the two events it  *)
(* sleeps on, and the callers that start, stop and wake it (the leader watch *)
(* thread and admin requests).  model_health.py and registration_maintainer  *)
(* .py have the same start and stop.  What a cycle does is not part of this  *)
(* module; LeaderElection says which process starts a worker.                *)
EXTENDS Integers, FiniteSets

CONSTANTS
    Threads,        \* bound: identities of the worker threads ever started
    Callers,
    None,
    MaxRequests     \* bound: calls of request_run_soon

ASSUME ThreadAssumption == None \notin Threads /\ MaxRequests \in Nat

VARIABLES
    enabled,    \* the stored feature flag, which any process may change
    stop,       \* _stop
    wakeup,     \* _wakeup
    forceNext,  \* _force_next
    thread,     \* _thread
    at,         \* at[t]: where worker t is
    forced,     \* forced[t]: the cycle t is in was started with force
    caller,     \* caller[c]: what caller c is in the middle of
    joins,      \* joins[c]: the thread its stop_background waits for
    asked,      \* calls of request_run_soon, up to MaxRequests
    credit      \* those with force=True that no forced cycle has used up

events == <<stop, wakeup, forceNext, thread>>
worker == <<at, forced>>
calls  == <<caller, joins>>
vars   == <<enabled, events, worker, calls, asked, credit>>

Places == {"new", "delay", "top", "pausing", "paused", "cycle", "clear",
           "sleep", "waiting", "woken", "slept", "again", "dead"}

TypeOK ==
    /\ {enabled, stop, wakeup, forceNext} \subseteq BOOLEAN
    /\ thread \in Threads \cup {None}
    /\ at \in [Threads -> Places]
    /\ forced \in [Threads -> BOOLEAN]
    /\ caller \in [Callers -> {"idle", "starting", "waking", "joining", "poking"}]
    /\ joins \in [Callers -> Threads \cup {None}]
    /\ \A c \in Callers : joins[c] # None => at[joins[c]] # "new"
    /\ asked \in 0..MaxRequests /\ credit \in 0..MaxRequests

Init ==
    /\ enabled \in BOOLEAN
    /\ stop = FALSE /\ wakeup = FALSE /\ forceNext = FALSE
    /\ thread = None
    /\ at = [t \in Threads |-> "new"]
    /\ forced = [t \in Threads |-> FALSE]
    /\ caller = [c \in Callers |-> "idle"]
    /\ joins = [c \in Callers |-> None]
    /\ asked = 0 /\ credit = 0

Alive(t) == at[t] \notin {"new", "dead"}
Running  == thread # None /\ Alive(thread)

Goto(t, place) == at' = [at EXCEPT ![t] = place]
Call(c, step)  == caller' = [caller EXCEPT ![c] = step]

-----------------------------------------------------------------------------
(* _worker                                                                   *)

(* _stop.wait(startup_delay)                                                 *)
Delay(t) ==
    /\ at[t] = "delay"
    /\ Goto(t, IF stop THEN "dead" ELSE "top")
    /\ UNCHANGED <<enabled, events, forced, calls, asked, credit>>

(* Mutant: the pause is checked before the stop.                             *)
TopPausesFirst(t) ==
    /\ at[t] = "top"
    /\ Goto(t, CASE ~enabled -> "pausing"
                 [] stop /\ enabled -> "dead"
                 [] OTHER -> "cycle")
    /\ UNCHANGED <<enabled, events, forced, calls, asked, credit>>

Top(t) ==
    /\ at[t] = "top"
    /\ Goto(t, CASE stop             -> "dead"
                 [] ~stop /\ enabled -> "cycle"
                 [] OTHER            -> "pausing")
    /\ UNCHANGED <<enabled, events, forced, calls, asked, credit>>

Pausing(t) ==
    /\ at[t] = "pausing"
    /\ wakeup' = FALSE
    /\ Goto(t, "paused")
    /\ UNCHANGED <<enabled, stop, forceNext, thread, forced, calls, asked, credit>>

(* Mutant: a pause without a timeout.                                        *)
PausedForever(t) ==
    /\ at[t] = "paused" /\ wakeup
    /\ Goto(t, "top")
    /\ UNCHANGED <<enabled, events, forced, calls, asked, credit>>

(* The wait ends with the event or after five seconds.                       *)
Paused(t) ==
    /\ at[t] = "paused"
    /\ Goto(t, "top")
    /\ UNCHANGED <<enabled, events, forced, calls, asked, credit>>

Cycle(t) ==
    /\ at[t] \in {"cycle", "again"}
    /\ Goto(t, IF at[t] = "cycle" THEN "clear" ELSE "top")
    /\ forced' = [forced EXCEPT ![t] = FALSE]
    /\ UNCHANGED <<enabled, events, calls, asked, credit>>

Clear(t) ==
    /\ at[t] = "clear"
    /\ wakeup' = FALSE
    /\ Goto(t, "sleep")
    /\ UNCHANGED <<enabled, stop, forceNext, thread, forced, calls, asked, credit>>

(* _wakeup.wait(timeout=wait): returns at once if the event is set, else a   *)
(* set() ends the wait, or its timeout does.                                 *)
Sleep(t) ==
    /\ at[t] = "sleep"
    /\ Goto(t, IF wakeup THEN "woken" ELSE "waiting")
    /\ UNCHANGED <<enabled, events, forced, calls, asked, credit>>

Timeout(t) ==
    /\ at[t] = "waiting"
    /\ Goto(t, "slept")
    /\ UNCHANGED <<enabled, events, forced, calls, asked, credit>>

SetWakeup ==
    /\ wakeup' = TRUE
    /\ at' = [t \in Threads |-> IF at[t] = "waiting" THEN "woken" ELSE at[t]]

Slept(t) ==
    /\ at[t] = "slept"
    /\ Goto(t, IF stop THEN "dead" ELSE "top")
    /\ UNCHANGED <<enabled, events, forced, calls, asked, credit>>

Woken(t) ==
    /\ at[t] = "woken"
    /\ IF stop
       THEN /\ Goto(t, "dead")
            /\ UNCHANGED <<forceNext, forced, credit>>
       ELSE /\ Goto(t, "again")
            /\ forced' = [forced EXCEPT ![t] = forceNext]
            /\ forceNext' = FALSE
            /\ credit' = IF forceNext THEN credit - 1 ELSE credit
    /\ UNCHANGED <<enabled, stop, wakeup, thread, calls, asked>>

-----------------------------------------------------------------------------
(* request_run_soon                                                          *)

Request(c, force) ==
    /\ caller[c] = "idle" /\ asked < MaxRequests
    /\ asked' = asked + 1
    /\ forceNext' = force
    /\ credit' = IF force THEN credit + 1 ELSE credit
    /\ Call(c, "poking")
    /\ UNCHANGED <<enabled, stop, wakeup, thread, worker, joins>>

Poke(c) ==
    /\ caller[c] = "poking"
    /\ SetWakeup
    /\ Call(c, "idle")
    /\ UNCHANGED <<enabled, stop, forceNext, thread, forced, joins, asked, credit>>

(* start_background: two checks, then an unguarded start.                    *)
StartCheck(c) ==
    /\ caller[c] = "idle"
    /\ enabled
    /\ ~Running
    /\ Call(c, "starting")
    /\ UNCHANGED <<enabled, events, worker, joins, asked, credit>>

StartThread(c) ==
    /\ caller[c] = "starting"
    /\ stop' = FALSE
    /\ \E t \in Threads :
          /\ at[t] = "new"
          /\ thread' = t
          /\ Goto(t, "delay")
    /\ Call(c, "idle")
    /\ UNCHANGED <<enabled, wakeup, forceNext, forced, joins, asked, credit>>

(* stop_background: both events, a join of two seconds, and the reference.   *)
StopSet(c) ==
    /\ caller[c] = "idle"
    /\ stop' = TRUE
    /\ Call(c, "waking")
    /\ UNCHANGED <<enabled, wakeup, forceNext, thread, worker, joins, asked, credit>>

StopWake(c) ==
    /\ caller[c] = "waking"
    /\ SetWakeup
    /\ joins' = [joins EXCEPT ![c] = thread]
    /\ Call(c, "joining")
    /\ UNCHANGED <<enabled, stop, forceNext, thread, forced, asked, credit>>

(* A cycle, which talks to the upstream, may last longer than the two        *)
(* seconds of the join, and so may a wait whose wakeup was cleared.          *)
Outlasts(t) ==
    \/ at[t] \in {"cycle", "again"}
    \/ at[t] \in {"waiting", "paused"} /\ ~wakeup

StopJoined(c) ==
    /\ caller[c] = "joining"
    /\ joins[c] # None => at[joins[c]] = "dead" \/ Outlasts(joins[c])
    /\ thread' = None
    /\ joins' = [joins EXCEPT ![c] = None]
    /\ Call(c, "idle")
    /\ UNCHANGED <<enabled, stop, wakeup, forceNext, worker, asked, credit>>

Toggle ==
    /\ enabled' = ~enabled
    /\ UNCHANGED <<events, worker, calls, asked, credit>>

-----------------------------------------------------------------------------
Work(t) ==
    \/ Delay(t) \/ Top(t) \/ Pausing(t) \/ Paused(t) \/ Cycle(t) \/ Clear(t)
    \/ Sleep(t) \/ Timeout(t) \/ Slept(t) \/ Woken(t)

Finish(c) == Poke(c) \/ StartThread(c) \/ StopWake(c) \/ StopJoined(c)

Next ==
    \/ \E t \in Threads : Work(t)
    \/ \E c \in Callers :
          \/ \E force \in BOOLEAN : Request(c, force)
          \/ StartCheck(c) \/ StopSet(c) \/ Finish(c)
    \/ Toggle

Spec == Init /\ [][Next]_vars

(* Threads keep running and every wait has a timeout; calls return.          *)
Fairness ==
    /\ \A t \in Threads : WF_vars(Work(t))
    /\ \A c \in Callers : WF_vars(Finish(c))

FairSpec == Spec /\ Fairness

-----------------------------------------------------------------------------
(* A forced cycle uses up a request that asked for one: _force_next is taken *)
(* and reset under one lock, so however many workers wake up, and whatever   *)
(* stops and starts come between, a request forces at most one cycle.        *)
ForceUsesRequest == (forceNext => credit > 0) /\ credit >= 0

(* stop_background ends every worker, the ones it did not wait for and the   *)
(* paused ones included, unless something starts one again.                  *)
StopEnds ==
    \A t \in Threads : (stop /\ Alive(t)) ~> (~stop \/ ~Alive(t))

(* Switching the feature on in another process wakes nobody here, but a      *)
(* paused worker sees it ("idle until re-enabled / stop").                   *)
EnabledRuns ==
    \A t \in Threads :
        (Alive(t) /\ enabled) ~> (at[t] \in {"cycle", "again"} \/ ~enabled \/ stop)
=============================================================================
