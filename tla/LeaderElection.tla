--------------------------- MODULE LeaderElection ---------------------------
(* store/leader.py: the election, over one Redis key with a ttl, of the      *)
(* process that runs the background maintainers; app.py's startup and the    *)
(* admin switch of settings_store.py, which also elect and start them.       *)
(*                                                                           *)
(* Each process has two agents that run this code: its watch thread and its  *)
(* main thread (startup, then admin requests).  Both go through              *)
(* try_become_leader and _set_leader_state, whose _lock covers the flags but *)
(* not the starting and stopping of the maintainer thread.                   *)
EXTENDS Integers, FiniteSets

CONSTANTS
    Workers,
    Free,           \* the key does not exist
    Dead,           \* the key holds the id of a process that is gone
    MaxErrors,      \* bound: Redis calls that raise
    MaxCrashes,     \* bound: processes that die
    MaxToggles,     \* bound: uses of the admin switch
    MaxStalls,      \* bound: keys that lapse before a live owner renews
    MaxEvents       \* bound: all of these together

ASSUME ElectionAssumption ==
    /\ {Free, Dead} \cap Workers = {}
    /\ MaxErrors \in Nat /\ MaxCrashes \in Nat
    /\ MaxToggles \in Nat /\ MaxStalls \in Nat /\ MaxEvents \in Nat

VARIABLES
    lock,       \* the value of the maintainer_leader key
    leader,     \* leader[w]: _is_leader
    started,    \* started[w]: _maintainers_started
    runs,       \* runs[w]: a maintainer thread of w is alive
    enabled,    \* the stored feature flag
    agent,      \* agent[w][k]: what thread k of process w is about to do
    errors, crashes, toggles, stalls    \* counted up to their bounds

flags  == <<leader, started, runs>>
counts == <<errors, crashes, toggles, stalls>>
vars   == <<lock, flags, enabled, agent, counts>>

Threads == {"watch", "main"}

(* Who called try_become_leader: the watch loop, startup, or the first or    *)
(* the second attempt of the admin switch.                                   *)
Callers == {"watch", "boot", "first", "second"}

Steps == {"off", "idle", "claim", "look", "renew", "lead", "start", "spawn",
          "follow", "stop", "kill", "arm", "run"}

Agent == [at : Steps, by : Callers, won : BOOLEAN]

TypeOK ==
    /\ lock \in Workers \cup {Free, Dead}
    /\ leader \in [Workers -> BOOLEAN]
    /\ started \in [Workers -> BOOLEAN]
    /\ runs \in [Workers -> BOOLEAN]
    /\ enabled \in BOOLEAN
    /\ agent \in [Workers -> [Threads -> Agent]]
    /\ \A w \in Workers :
          /\ agent[w]["watch"].by = "watch"
          /\ agent[w]["watch"].at \notin {"arm", "run"}
          /\ agent[w]["main"].by # "watch"
          /\ agent[w]["main"].at # "off"
    /\ errors \in 0..MaxErrors
    /\ crashes \in 0..MaxCrashes
    /\ toggles \in 0..MaxToggles
    /\ stalls \in 0..MaxStalls

Booting ==
    [k \in Threads |->
        IF k = "watch" THEN [at |-> "off", by |-> "watch", won |-> FALSE]
                       ELSE [at |-> "claim", by |-> "boot", won |-> FALSE]]

Init ==
    /\ lock = Free
    /\ leader = [w \in Workers |-> FALSE]
    /\ started = [w \in Workers |-> FALSE]
    /\ runs = [w \in Workers |-> FALSE]
    /\ enabled \in BOOLEAN
    /\ agent = [w \in Workers |-> Booting]
    /\ errors = 0 /\ crashes = 0 /\ toggles = 0 /\ stalls = 0

(* One more error, crash, use of the switch or lapse is within the bounds.   *)
Bounded(n, max) == n < max /\ errors + crashes + toggles + stalls < MaxEvents

At(w, k, step)   == agent[w][k].at = step
Goto(w, k, step) == agent' = [agent EXCEPT ![w][k].at = step]

(* try_become_leader and should_start_maintainers return to their caller.    *)
Resume(a) ==
    CASE a.by = "watch"             -> "idle"
      [] a.by \in {"boot", "first"} -> "arm"
      [] a.by = "second"            -> IF a.won THEN "run" ELSE "idle"

Return(w, k) == Goto(w, k, Resume(agent[w][k]))

-----------------------------------------------------------------------------
(* try_become_leader: SET NX EX, and if the key is taken, GET and renew.     *)

Claim(w, k) ==
    /\ At(w, k, "claim")
    /\ IF lock = Free
       THEN lock' = w /\ Goto(w, k, "lead")
       ELSE UNCHANGED lock /\ Goto(w, k, "look")
    /\ UNCHANGED <<flags, enabled, counts>>

Look(w, k) ==
    /\ At(w, k, "look")
    /\ Goto(w, k, IF lock = w THEN "renew" ELSE "follow")
    /\ UNCHANGED <<lock, flags, enabled, counts>>

Renew(w, k) ==
    /\ At(w, k, "renew")
    /\ Goto(w, k, IF lock = w THEN "lead" ELSE "follow")
    /\ UNCHANGED <<lock, flags, enabled, counts>>

(* Mutant: a key that somebody holds ends the turn.                          *)
WatchTurnKeeps(w) ==
    /\ At(w, "watch", "idle")
    /\ Goto(w, "watch", CASE lock = w    -> "renew"
                          [] lock = Free -> "claim"
                          [] OTHER       -> "idle")
    /\ UNCHANGED <<lock, flags, enabled, counts>>

(* One turn of the watch loop starts with a GET.                             *)
WatchTurn(w) ==
    /\ At(w, "watch", "idle")
    /\ Goto(w, "watch", CASE lock = w    -> "renew"
                          [] lock = Free -> "claim"
                          [] OTHER       -> "follow")
    /\ UNCHANGED <<lock, flags, enabled, counts>>

-----------------------------------------------------------------------------
(* _set_leader_state: flip the flags under _lock, then start or stop the     *)
(* maintainers outside it when leadership was gained or lost.                *)

Lead(w, k) ==
    /\ At(w, k, "lead")
    /\ leader' = [leader EXCEPT ![w] = TRUE]
    /\ LET a == [agent[w][k] EXCEPT !.won = TRUE]
       IN agent' = [agent EXCEPT ![w][k] =
                       [a EXCEPT !.at = IF leader[w] THEN Resume(a) ELSE "start"]]
    /\ UNCHANGED <<lock, started, runs, enabled, counts>>

Follow(w, k) ==
    /\ At(w, k, "follow")
    /\ leader' = [leader EXCEPT ![w] = FALSE]
    /\ LET a == [agent[w][k] EXCEPT !.won = FALSE]
       IN agent' = [agent EXCEPT ![w][k] =
                       [a EXCEPT !.at = IF leader[w] THEN "stop" ELSE Resume(a)]]
    /\ UNCHANGED <<lock, started, runs, enabled, counts>>

Start(w, k) ==
    /\ At(w, k, "start")
    /\ started' = [started EXCEPT ![w] = TRUE]
    /\ IF started[w] THEN Return(w, k) ELSE Goto(w, k, "spawn")
    /\ UNCHANGED <<lock, leader, runs, enabled, counts>>

(* start_background returns at once when the feature is switched off.        *)
StartBackground(w) == runs' = [runs EXCEPT ![w] = runs[w] \/ enabled]

Spawn(w, k) ==
    /\ At(w, k, "spawn")
    /\ StartBackground(w)
    /\ Return(w, k)
    /\ UNCHANGED <<lock, leader, started, enabled, counts>>

(* Mutant: _maintainers_started survives the loss of leadership.             *)
StopKeepsFlag(w, k) ==
    /\ At(w, k, "stop")
    /\ IF started[w] THEN Goto(w, k, "kill") ELSE Return(w, k)
    /\ UNCHANGED <<lock, flags, enabled, counts>>

Stop(w, k) ==
    /\ At(w, k, "stop")
    /\ started' = [started EXCEPT ![w] = FALSE]
    /\ IF started[w] THEN Goto(w, k, "kill") ELSE Return(w, k)
    /\ UNCHANGED <<lock, leader, runs, enabled, counts>>

Kill(w, k) ==
    /\ At(w, k, "kill")
    /\ runs' = [runs EXCEPT ![w] = FALSE]
    /\ Return(w, k)
    /\ UNCHANGED <<lock, leader, started, enabled, counts>>

-----------------------------------------------------------------------------
(* Mutant: only a process that lost its first election is left unwatched.    *)
ArmWinner(w) ==
    /\ At(w, "main", "arm")
    /\ LET a == agent[w]["main"]
       IN agent' = [agent EXCEPT
            ![w]["main"].at = IF a.won THEN "run" ELSE "idle",
            ![w]["watch"].at = IF a.won /\ @ = "off" THEN "idle" ELSE @]
    /\ UNCHANGED <<lock, flags, enabled, counts>>

(* should_start_maintainers arms the watcher whatever the outcome; startup   *)
(* and the switch then start the maintainers themselves if it returned True, *)
(* and the switch tries once more if it returned False.                      *)
Arm(w) ==
    /\ At(w, "main", "arm")
    /\ LET a    == agent[w]["main"]
           next == CASE a.won -> "run"
                     [] ~a.won /\ a.by = "boot" -> "idle"
                     [] OTHER -> "claim"
       IN agent' = [agent EXCEPT
            ![w]["main"] = [a EXCEPT !.at = next,
                                  !.by = IF next = "claim" THEN "second" ELSE @],
            ![w]["watch"].at = IF @ = "off" THEN "idle" ELSE @]
    /\ UNCHANGED <<lock, flags, enabled, counts>>

RunHere(w) ==
    /\ At(w, "main", "run")
    /\ StartBackground(w)
    /\ Goto(w, "main", "idle")
    /\ UNCHANGED <<lock, leader, started, enabled, counts>>

(* Mutant: the switch starts the maintainers of whichever process serves it. *)
SwitchOnHere(w) ==
    /\ At(w, "main", "idle")
    /\ Bounded(toggles, MaxToggles)
    /\ toggles' = toggles + 1
    /\ enabled' = TRUE
    /\ Goto(w, "main", "run")
    /\ UNCHANGED <<lock, flags, errors, crashes, stalls>>

(* The switch: ON elects here unless this process leads already; what it     *)
(* writes to Redis when it cannot lead is read by nobody.  OFF stops the     *)
(* thread of this process only; elsewhere the threads idle.                  *)
SwitchOn(w) ==
    /\ At(w, "main", "idle")
    /\ Bounded(toggles, MaxToggles)
    /\ toggles' = toggles + 1
    /\ enabled' = TRUE
    /\ agent' = [agent EXCEPT ![w]["main"] =
                    [at |-> IF leader[w] THEN "run" ELSE "claim",
                     by |-> "first", won |-> FALSE]]
    /\ UNCHANGED <<lock, flags, errors, crashes, stalls>>

SwitchOff(w) ==
    /\ At(w, "main", "idle")
    /\ Bounded(toggles, MaxToggles)
    /\ toggles' = toggles + 1
    /\ enabled' = FALSE
    /\ runs' = [runs EXCEPT ![w] = FALSE]
    /\ UNCHANGED <<lock, leader, started, agent, errors, crashes, stalls>>

-----------------------------------------------------------------------------
(* A Redis call raises; SET NX may have taken effect before its reply was    *)
(* lost.  The watch loop catches the exception and sleeps, with the flags    *)
(* as they are.  Startup and the switch catch it and go on as if elected,    *)
(* without having armed the watcher.                                         *)
RedisError(w, k) ==
    /\ \/ At(w, k, "claim") /\ lock' \in {lock, IF lock = Free THEN w ELSE lock}
       \/ At(w, k, "look") /\ UNCHANGED lock
       \/ At(w, k, "renew") /\ UNCHANGED lock
       \/ k = "watch" /\ At(w, k, "idle") /\ UNCHANGED lock
    /\ Bounded(errors, MaxErrors)
    /\ errors' = errors + 1
    /\ Goto(w, k, IF k = "watch" THEN "idle" ELSE "run")
    /\ UNCHANGED <<flags, enabled, crashes, toggles, stalls>>

(* Nothing releases the key on the way out (release_leader has no caller),   *)
(* and a restarted process has another pid, so its old key is a stranger's.  *)
Crash(w) ==
    /\ Bounded(crashes, MaxCrashes)
    /\ crashes' = crashes + 1
    /\ lock' = IF lock = w THEN Dead ELSE lock
    /\ leader' = [leader EXCEPT ![w] = FALSE]
    /\ started' = [started EXCEPT ![w] = FALSE]
    /\ runs' = [runs EXCEPT ![w] = FALSE]
    /\ agent' = [agent EXCEPT ![w] = Booting]
    /\ UNCHANGED <<enabled, errors, toggles, stalls>>

(* Only the watcher renews, so the key of a process without one lapses too.  *)
Abandoned ==
    \/ lock = Dead
    \/ /\ lock \in Workers
       /\ At(lock, "watch", "off")
       /\ agent[lock]["main"].at \in {"idle", "run"}

Expire ==
    /\ Abandoned
    /\ lock' = Free
    /\ UNCHANGED <<flags, enabled, agent, counts>>

(* A live owner is too slow, or its renewals fail, for longer than the ttl.  *)
Stall ==
    /\ lock \in Workers
    /\ Bounded(stalls, MaxStalls)
    /\ stalls' = stalls + 1
    /\ lock' = Free
    /\ UNCHANGED <<flags, enabled, agent, errors, crashes, toggles>>

-----------------------------------------------------------------------------
Turn(w, k) ==
    \/ Claim(w, k) \/ Look(w, k) \/ Renew(w, k)
    \/ Lead(w, k) \/ Follow(w, k)
    \/ Start(w, k) \/ Spawn(w, k) \/ Stop(w, k) \/ Kill(w, k)

Main(w) == Turn(w, "main") \/ Arm(w) \/ RunHere(w)
Watch(w) == Turn(w, "watch") \/ WatchTurn(w)

Next ==
    \/ \E w \in Workers :
          \/ Main(w) \/ Watch(w)
          \/ SwitchOn(w) \/ SwitchOff(w) \/ Crash(w)
          \/ \E k \in Threads : RedisError(w, k)
    \/ Expire \/ Stall

Spec == Init /\ [][Next]_vars

(* Both threads of a process keep running, and a key nobody renews expires.  *)
FairSpec ==
    /\ Spec
    /\ \A w \in Workers : WF_vars(Main(w)) /\ WF_vars(Watch(w))
    /\ WF_vars(Expire)

-----------------------------------------------------------------------------
(* Until a Redis call has failed or a key has lapsed under its owner, at     *)
(* most one process believes it leads ("so only one process runs background  *)
(* jobs", store/leader.py): every leader still owns the key.                 *)
Calm == errors = 0 /\ stalls = 0

LeaderOwnsLock == Calm => \A w \in Workers : leader[w] => lock = w

(* ... and only the owner of the key runs maintainers, through startup, the  *)
(* watch loop and the admin switch alike.                                    *)
RunnerOwnsLock == Calm => \A w \in Workers : runs[w] => lock = w

(* When keys lapse under their owners and Redis calls fail, two processes    *)
(* may both believe they lead, but the watch loops end that.                 *)
Two(flag) == \E v, w \in Workers : v # w /\ flag[v] /\ flag[w]

TwoLeadersEnd == Two(leader) ~> ~Two(leader)

(* A process whose startup met no Redis error has a watcher, so whoever      *)
(* crashes holding the key, somebody leads again ("every worker can miss     *)
(* leadership at startup ... we keep a watcher", store/leader.py).           *)
Unwatched(w) == errors > 0 /\ agent[w]["watch"].at = "off"

Elected ==
    \A w \in Workers :
        ~Unwatched(w) ~> Unwatched(w) \/ \E v \in Workers : leader[v]

(* Losing and regaining the key stops and starts the maintainers again: as   *)
(* long as nobody uses the switch, a process that goes on leading runs them. *)
LeaderRuns ==
    \A w \in Workers :
        (leader[w] /\ enabled /\ toggles = 0) ~> (runs[w] \/ ~leader[w] \/ toggles > 0)

(* What the docstring promises when Redis may raise once: no second process  *)
(* keeps running maintainers.  Startup takes the exception for an election,  *)
(* starts them and never arms the watcher that would stop them.              *)
StrayRunnerEnds == Two(runs) ~> ~Two(runs)
=============================================================================
