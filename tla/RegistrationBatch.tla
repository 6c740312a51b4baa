------------------------- MODULE RegistrationBatch -------------------------
(* One registration batch of grok_build_adapter.py: the runner thread and    *)
(* its jobs in one process, requests to stop the batch in that process and   *)
(* in another, and the three copies of the batch and of each session (two    *)
(* process maps and the Redis mirror) through which they find each other.    *)
(* Each external call of a sign-up is a step with any outcome, but for those *)
(* of the first attempt before the account is asked for: a stop is looked    *)
(* for before each of them, and they are one step.                           *)
(*                                                                           *)
(* A copy is mirrored whole.  Of the time stamps that decide a merge only    *)
(* the order is kept: whether Redis holds something newer than a process.    *)
EXTENDS Integers, Sequences, FiniteSets

CONSTANTS
    Home,           \* the process of the runner
    Away,           \* another worker process
    Redis,
    None,
    Count,          \* jobs of the batch
    Workers,        \* jobs in flight at once
    MaxStops        \* bound: processes that are asked to stop the batch

Jobs == 1..Count
Processes == {Home, Away}
Copies == {Home, Away, Redis}

BatchEnded == {"done", "partial", "error", "cancelled"}
Batch == [st : {"running", "stopping"} \cup BatchEnded, cancel : BOOLEAN,
          ids : SUBSET Jobs]
SessionEnded == {"imported", "error", "cancelled"}      \* _TERMINAL_STATUSES
Session == [st : {"queued", "started", "busy", "stopping"} \cup SessionEnded,
            cancel : BOOLEAN]

BatchAssumption ==
    /\ Count \in Nat \ {0} /\ Workers \in Nat \ {0} /\ MaxStops \in Nat
    /\ Home # Away /\ Redis \notin Processes
    /\ None \notin Batch \cup Session

Stages == <<"signup", "create", "fetch", "session", "import", "probe", "report", "error">>
Closing == {"report", "error"}
Calls == {"work", "more"}       \* the first external call of a stage, a further one
AtStage == ({"check", "write"} \cup Calls) \X DOMAIN Stages
Place == AtStage \cup ({"new", "begin", "prepare", "launch", "ended", "over", "noted"} \X {0})

VARIABLES
    batch,      \* batch[c]: the copy of the batch
    sess,       \* sess[c][i]: the copy of the session of job i
    newer,      \* newer[p]: Redis has a batch younger than the copy of p
    snewer,     \* snewer[p]: sessions of which Redis has a younger one
    runner,     \* "spawn", "top", "submit", "wait", "drain", "final", "release",
                \* "over", "dead"
    raised,     \* ghost: an exception has ended the loop of the runner
    beat,       \* the renew thread is about to mirror the batch
    lockKey,    \* the runner lock in Redis exists
    pc,         \* pc[i]: where job i is
    again,      \* jobs in their second attempt to create the account
    ok,         \* jobs whose result was a success
    stop,       \* stop[p]: a request to stop: "idle", "sessions", "done", or
                \* "undone": it came before the batch was spawned, and was reset
    toStop,     \* toStop[p]: sessions it has still to stop
    pool        \* ghost: jobs whose account is in the pool

jobVars == <<pc, again, ok, pool>>
stopVars == <<stop, toStop>>
vars == <<batch, sess, newer, snewer, runner, raised, beat, lockKey, jobVars, stopVars>>

TypeOK ==
    /\ batch \in [Copies -> Batch \cup {None}]
    /\ sess \in [Copies -> [Jobs -> Session \cup {None}]]
    /\ newer \in [Processes -> BOOLEAN]
    /\ snewer \in [Processes -> SUBSET Jobs]
    /\ runner \in {"spawn", "top", "submit", "wait", "drain", "final", "release", "over", "dead"}
    /\ raised \in BOOLEAN /\ beat \in BOOLEAN /\ lockKey \in BOOLEAN
    /\ pc \in [Jobs -> Place]
    /\ again \in SUBSET Jobs /\ ok \in SUBSET Jobs /\ pool \in SUBSET Jobs
    /\ stop \in [Processes -> {"idle", "sessions", "done", "undone"}]
    /\ toStop \in [Processes -> SUBSET Jobs]
    /\ Cardinality({i \in Jobs : pc[i][1] \notin {"new", "noted"}}) <= Workers

(* start_registration has stored the new batch and not yet spawned it.       *)
Init ==
    /\ batch = [c \in Copies |-> IF c = Away THEN None
                ELSE [st |-> "running", cancel |-> FALSE, ids |-> {}]]
    /\ sess = [c \in Copies |-> [i \in Jobs |-> None]]
    /\ newer = [p \in Processes |-> FALSE]
    /\ snewer = [p \in Processes |-> {}]
    /\ runner = "spawn" /\ raised = FALSE /\ beat = FALSE /\ lockKey = FALSE
    /\ pc = [i \in Jobs |-> <<"new", 0>>]
    /\ again = {} /\ ok = {} /\ pool = {}
    /\ stop = [p \in Processes |-> "idle"]
    /\ toStop = [p \in Processes |-> {}]

Other(p) == CHOOSE q \in Processes : q # p

(* Under the lock of a process: change its copy and mirror it.               *)
PutBatch(p, b) ==
    /\ batch' = [batch EXCEPT ![p] = b, ![Redis] = b]
    /\ newer' = [newer EXCEPT ![p] = FALSE, ![Other(p)] = TRUE]

PutSession(p, i, s) ==
    /\ sess' = [sess EXCEPT ![p][i] = s, ![Redis][i] = s]
    /\ snewer' = [snewer EXCEPT ![p] = @ \ {i}, ![Other(p)] = @ \cup {i}]

(* What a process works on: its own copy, however old, else that of Redis.   *)
LoadBatch(p) == IF batch[p] = None THEN batch[Redis] ELSE batch[p]
LoadSession(p, i) == IF sess[p][i] = None THEN sess[Redis][i] ELSE sess[p][i]

Stopping(b) == [b EXCEPT !.cancel = TRUE,
                         !.st = IF @ \in BatchEnded THEN @ ELSE "stopping"]
Running(b) == IF b.cancel THEN b ELSE [b EXCEPT !.st = "running"]

(* _batch_cancel_requested, and the same in _refresh_cancel_from_redis: the  *)
(* process adopts a stop that another one has left in Redis.                 *)
CancelSeen == batch[Home].cancel \/ batch[Redis].cancel
Adopted == [batch[Home] EXCEPT !.cancel = TRUE,
                               !.st = IF @ \in BatchEnded THEN @ ELSE batch[Redis].st]
AdoptStop ==
    IF batch[Redis].cancel /\ ~batch[Home].cancel
    THEN /\ batch' = [batch EXCEPT ![Home] = Adopted]
         /\ newer' = [newer EXCEPT ![Home] = FALSE]
    ELSE UNCHANGED <<batch, newer>>

-----------------------------------------------------------------------------
(* The runner.                                                               *)

(* _spawn_batch_runner: take the runner lock and reset the batch.            *)
Spawn ==
    /\ runner = "spawn"
    /\ lockKey' = TRUE
    /\ PutBatch(Home, [batch[Home] EXCEPT !.st = "running", !.cancel = FALSE])
    /\ runner' = "top"
    /\ stop' = [p \in Processes |-> IF stop[p] = "done" THEN "undone" ELSE stop[p]]
    /\ UNCHANGED <<sess, snewer, raised, beat, jobVars, toStop>>

InFlight == {i \in Jobs : pc[i][1] \notin {"new", "noted"}}
Unsubmitted == {i \in Jobs : pc[i][1] = "new"}

(* The head of the loop that fills the pool.                                 *)
(* Mutant: jobs are submitted however many are in flight.                    *)
TopUnbounded ==
    /\ runner = "top"
    /\ IF Unsubmitted # {} THEN AdoptStop ELSE UNCHANGED <<batch, newer>>
    /\ runner' = IF Unsubmitted # {} /\ ~CancelSeen THEN "submit"
                 ELSE IF InFlight = {} THEN "final" ELSE "wait"
    /\ UNCHANGED <<sess, snewer, raised, beat, lockKey, jobVars, stopVars>>

Top ==
    /\ runner = "top"
    /\ IF Unsubmitted # {} /\ Cardinality(InFlight) < Workers
       THEN AdoptStop ELSE UNCHANGED <<batch, newer>>
    /\ runner' = IF Unsubmitted # {} /\ Cardinality(InFlight) < Workers /\ ~CancelSeen
                 THEN "submit"
                 ELSE IF InFlight = {} THEN "final" ELSE "wait"
    /\ UNCHANGED <<sess, snewer, raised, beat, lockKey, jobVars, stopVars>>

Submit ==
    /\ runner = "submit"
    /\ LET i == CHOOSE j \in Unsubmitted : \A k \in Unsubmitted : j <= k
       IN pc' = [pc EXCEPT ![i] = <<"begin", 0>>]
    /\ PutBatch(Home, Running(batch[Home]))
    /\ runner' = "top"
    /\ UNCHANGED <<sess, snewer, raised, beat, lockKey, again, ok, pool, stopVars>>

(* The executor takes no more work: the loop ends there.  The job may have   *)
(* joined the queue of the executor, whose exit waits for what is in it.     *)
SubmitRaises ==
    /\ runner = "submit"
    /\ LET i == CHOOSE j \in Unsubmitted : \A k \in Unsubmitted : j <= k
       IN pc' \in {pc, [pc EXCEPT ![i] = <<"begin", 0>>]}
    /\ raised' = TRUE
    /\ runner' = "drain"
    /\ UNCHANGED <<batch, newer, sess, snewer, beat, lockKey, again, ok, pool, stopVars>>

Drained ==
    /\ runner = "drain"
    /\ \A i \in InFlight : pc[i][1] = "over"
    /\ runner' = "final"
    /\ UNCHANGED <<batch, sess, newer, snewer, raised, beat, lockKey, jobVars, stopVars>>

(* _note_result of a finished job, or half a second without one.             *)
Note(i) ==
    /\ runner = "wait" /\ pc[i][1] = "over"
    /\ pc' = [pc EXCEPT ![i] = <<"noted", 0>>]
    /\ PutBatch(Home, Running(batch[Home]))
    /\ runner' = "top"
    /\ UNCHANGED <<sess, snewer, raised, beat, lockKey, again, ok, pool, stopVars>>

Timeout ==
    /\ runner = "wait"
    /\ AdoptStop
    /\ UNCHANGED <<sess, snewer, runner, raised, beat, lockKey, jobVars, stopVars>>

(* The end of the runner, under the lock, however its loop has ended: only   *)
(* the results it has noted count.                                           *)
Final ==
    /\ runner = "final"
    /\ LET b == batch[Home]
           finished == {i \in Jobs : pc[i][1] = "noted"}
           st == IF b.cancel /\ finished # Jobs THEN "cancelled"
                 ELSE IF finished \subseteq ok THEN "done"
                 ELSE IF finished \cap ok = {} THEN "error" ELSE "partial"
       IN PutBatch(Home, [b EXCEPT !.st = st])
    /\ runner' = "release"
    /\ UNCHANGED <<sess, snewer, raised, beat, lockKey, jobVars, stopVars>>

Release ==
    /\ runner = "release"
    /\ lockKey' = FALSE
    /\ runner' = "over"
    /\ UNCHANGED <<batch, sess, newer, snewer, raised, beat, jobVars, stopVars>>

(* _renew_loop: look for a stop, renew the lock, then mirror the batch.      *)
BeatCheck ==
    /\ runner \in {"top", "submit", "wait", "drain"} /\ ~beat
    /\ IF CancelSeen
       THEN PutBatch(Home, Stopping(batch[Home]))
       ELSE UNCHANGED <<batch, newer>>
    /\ beat' = TRUE
    /\ UNCHANGED <<sess, snewer, runner, raised, lockKey, jobVars, stopVars>>

Beat ==
    /\ beat /\ runner # "dead"
    /\ PutBatch(Home, batch[Home])
    /\ beat' = FALSE
    /\ UNCHANGED <<sess, snewer, runner, raised, lockKey, jobVars, stopVars>>

-----------------------------------------------------------------------------
(* A job.                                                                    *)

Goto(i, place, k) == pc' = [pc EXCEPT ![i] = <<place, k>>]

(* It does not begin once the batch is stopped.                              *)
Begin(i) ==
    /\ pc[i] = <<"begin", 0>>
    /\ AdoptStop
    /\ Goto(i, IF CancelSeen THEN "over" ELSE "prepare", 0)
    /\ UNCHANGED <<sess, snewer, runner, raised, beat, lockKey, again, ok, pool, stopVars>>

(* _prepare_registration_session: a mailbox, or none; the session is stored  *)
(* and joins the batch.                                                      *)
PrepareFails(i) ==
    /\ pc[i] = <<"prepare", 0>>
    /\ Goto(i, "over", 0)
    /\ UNCHANGED <<batch, newer, sess, snewer, runner, raised, beat, lockKey, again, ok, pool, stopVars>>

Prepare(i) ==
    /\ pc[i] = <<"prepare", 0>>
    /\ PutBatch(Home, [batch[Home] EXCEPT !.ids = @ \cup {i}])
    /\ PutSession(Home, i, [st |-> "queued", cancel |-> FALSE])
    /\ Goto(i, "launch", 0)
    /\ UNCHANGED <<runner, raised, beat, lockKey, again, ok, pool, stopVars>>

(* Mutant: the worker starts without a second look at the batch.             *)
LaunchUnchecked(i) ==
    /\ pc[i] = <<"launch", 0>>
    /\ PutSession(Home, i, [st |-> "started", cancel |-> FALSE])
    /\ Goto(i, "work", 1)
    /\ UNCHANGED <<batch, newer, runner, raised, beat, lockKey, again, ok, pool, stopVars>>

Launch(i) ==
    /\ pc[i] = <<"launch", 0>>
    /\ IF batch[Home].cancel \/ sess[Home][i].cancel
       THEN /\ PutSession(Home, i, [st |-> "cancelled", cancel |-> TRUE])
            /\ Goto(i, "over", 0)
       ELSE /\ PutSession(Home, i, [st |-> "started", cancel |-> FALSE])
            /\ Goto(i, "check", 1)
    /\ UNCHANGED <<batch, newer, runner, raised, beat, lockKey, again, ok, pool, stopVars>>

(* _refresh_cancel_from_redis, before every change of status.                *)
Check(i) ==
    /\ pc[i][1] = "check"
    /\ AdoptStop
    /\ LET r == sess[Redis][i]
           s == sess[Home][i]
           st == IF s.st \in SessionEnded THEN s.st
                 ELSE IF r.cancel /\ r.st \in {"stopping", "cancelled"} THEN r.st
                 ELSE IF batch[Redis].cancel THEN "stopping" ELSE s.st
       IN sess' = IF r.cancel \/ batch[Redis].cancel
                  THEN [sess EXCEPT ![Home][i] = [st |-> st, cancel |-> TRUE]]
                  ELSE sess
    /\ Goto(i, "write", pc[i][2])
    /\ UNCHANGED <<snewer, runner, raised, beat, lockKey, again, ok, pool, stopVars>>

(* update: a stopped session is cancelled; another one shows its stage.      *)
Cancelled(i) == batch[Home].cancel \/ sess[Home][i].cancel

Cancel(i) ==
    /\ pc[i][1] = "write" /\ Stages[pc[i][2]] \notin Closing /\ Cancelled(i)
    /\ PutSession(Home, i, [st |-> "cancelled", cancel |-> TRUE])
    /\ Goto(i, "ended", 0)
    /\ UNCHANGED <<batch, newer, runner, raised, beat, lockKey, again, ok, pool, stopVars>>

Show(i) ==
    /\ pc[i][1] = "write" /\ Stages[pc[i][2]] \notin Closing /\ ~Cancelled(i)
    /\ PutSession(Home, i, [st |-> "busy", cancel |-> FALSE])
    /\ Goto(i, "work", pc[i][2])
    /\ UNCHANGED <<batch, newer, runner, raised, beat, lockKey, again, ok, pool, stopVars>>

(* The last update is made whether or not a stop was asked for.              *)
Report(i) ==
    /\ pc[i][1] = "write" /\ Stages[pc[i][2]] \in Closing
    /\ PutSession(Home, i, [st |-> IF Stages[pc[i][2]] = "report" THEN "imported" ELSE "error",
                           cancel |-> Cancelled(i)])
    /\ Goto(i, "ended", 0)
    /\ UNCHANGED <<batch, newer, runner, raised, beat, lockKey, again, ok, pool, stopVars>>

(* The external calls of a stage.  Before most of them a stop is looked for, *)
(* as before a stage; a call without such a look before it is "more".        *)
At(i, calls, stage) == pc[i][1] \in calls /\ Stages[pc[i][2]] = stage
Enter(i, stage) ==
    /\ Goto(i, "check", CHOOSE k \in DOMAIN Stages : Stages[k] = stage)
    /\ UNCHANGED <<batch, newer, sess, snewer, runner, raised, beat, lockKey, ok, stopVars>>
CallAgain(i) ==
    /\ Goto(i, "more", pc[i][2])
    /\ UNCHANGED <<batch, newer, sess, snewer, runner, raised, beat, lockKey, ok, stopVars>>

(* Everything before the account is created.  In the second attempt a new    *)
(* challenge is solved and then a new code asked for; if either fails, or is *)
(* stopped, the attempt ends without an account being asked for again.       *)
SignUp(i) ==
    /\ \/ At(i, {"work"}, "signup") /\ i \notin again /\ Enter(i, "create")
       \/ At(i, {"work"}, "signup") /\ i \in again /\ (CallAgain(i) \/ Enter(i, "fetch"))
       \/ At(i, {"more"}, "signup") /\ (Enter(i, "create") \/ Enter(i, "fetch"))
    /\ UNCHANGED <<again, pool>>

(* An answer that may be recovered from is tried once more, from the start.  *)
Create(i) ==
    /\ At(i, {"work"}, "create")
    /\ \/ Enter(i, "fetch") /\ UNCHANGED again
       \/ i \notin again /\ again' = again \cup {i} /\ Enter(i, "signup")
    /\ UNCHANGED pool

(* The cookie of the session is asked for, then looked for in the answer; if *)
(* there is none, a session is opened with the password.                     *)
FetchSession(i) ==
    /\ At(i, Calls, "fetch")
    /\ \/ Enter(i, "import") \/ Enter(i, "session")
       \/ pc[i][1] = "work" /\ CallAgain(i)
    /\ UNCHANGED <<again, pool>>

(* A challenge, whatever becomes of it, and the password, once or twice.     *)
OpenSession(i) ==
    /\ \/ At(i, {"work"}, "session") /\ CallAgain(i)
       \/ At(i, {"more"}, "session") /\ Enter(i, "import")
    /\ UNCHANGED <<again, pool>>

Import(i) ==
    /\ At(i, {"work"}, "import")
    /\ pool' = pool \cup {i}
    /\ Enter(i, "probe")
    /\ UNCHANGED again

(* The first probe of the account: its result does not matter here.          *)
Probe(i) ==
    /\ At(i, {"work"}, "probe")
    /\ Enter(i, "report")
    /\ UNCHANGED <<again, pool>>

(* What is raised elsewhere ends the session with an error.                  *)
Fail(i) ==
    /\ \/ At(i, {"work"}, "signup") /\ i \notin again
       \/ At(i, {"work"}, "create") \/ At(i, {"work"}, "import")
       \/ At(i, {"more"}, "session")
    /\ Enter(i, "error")
    /\ UNCHANGED <<again, pool>>

(* The result of the job is read from the session.                           *)
(* Mutant: anything but an error counts as a success.                        *)
CollectLax(i) ==
    /\ pc[i] = <<"ended", 0>>
    /\ ok' = IF sess[Home][i].st # "error" THEN ok \cup {i} ELSE ok
    /\ Goto(i, "over", 0)
    /\ UNCHANGED <<batch, newer, sess, snewer, runner, raised, beat, lockKey, again, pool, stopVars>>

Collect(i) ==
    /\ pc[i] = <<"ended", 0>>
    /\ ok' = IF sess[Home][i].st = "imported" THEN ok \cup {i} ELSE ok
    /\ Goto(i, "over", 0)
    /\ UNCHANGED <<batch, newer, sess, snewer, runner, raised, beat, lockKey, again, pool, stopVars>>

-----------------------------------------------------------------------------
(* stop_registration_batch, in any process: by an operator, or because the   *)
(* maintainer finds a batch without a runner.  A process that has a copy     *)
(* works on it, however old; else it loads the one of Redis.                 *)
StopBegin(p) ==
    /\ stop[p] = "idle" /\ ~(p = Home /\ runner = "dead")
    /\ Cardinality({q \in Processes : stop[q] # "idle"}) < MaxStops
    /\ LET b == LoadBatch(p)
       IN /\ PutBatch(p, Stopping(b))
          /\ toStop' = [toStop EXCEPT ![p] = b.ids]
    /\ stop' = [stop EXCEPT ![p] = "sessions"]
    /\ UNCHANGED <<sess, snewer, runner, raised, beat, lockKey, jobVars>>

StopSession(p, i) ==
    /\ i \in toStop[p]
    /\ toStop' = [toStop EXCEPT ![p] = @ \ {i}]
    /\ LET s == LoadSession(p, i)
       IN IF s = None \/ s.st \in SessionEnded
          THEN /\ sess' = [sess EXCEPT ![p][i] = s]
               /\ UNCHANGED snewer
          ELSE PutSession(p, i, [st |-> "stopping", cancel |-> TRUE])
    /\ UNCHANGED <<batch, newer, runner, raised, beat, lockKey, jobVars, stop>>

StopEnd(p) ==
    /\ stop[p] = "sessions" /\ toStop[p] = {}
    /\ PutBatch(p, Stopping(batch[p]))
    /\ stop' = [stop EXCEPT ![p] = "done"]
    /\ UNCHANGED <<sess, snewer, runner, raised, beat, lockKey, jobVars, toStop>>

(* list_registration_sessions: what Redis has and is not older than the copy *)
(* of the process is merged into it (one step here, an entry at a time there).*)
List(p) ==
    /\ ~(p = Home /\ runner = "dead")
    /\ batch[p] = None \/ newer[p] \/ snewer[p] # {}
    /\ batch' = [batch EXCEPT ![p] =
                    IF @ = None THEN batch[Redis]
                    ELSE IF newer[p] THEN [batch[Redis] EXCEPT !.ids = @ \cup batch[p].ids]
                    ELSE @]
    /\ sess' = [sess EXCEPT ![p] = [i \in Jobs |-> IF i \in snewer[p] THEN sess[Redis][i] ELSE @[i]]]
    /\ newer' = [newer EXCEPT ![p] = FALSE]
    /\ snewer' = [snewer EXCEPT ![p] = {}]
    /\ UNCHANGED <<runner, raised, beat, lockKey, jobVars, stopVars>>

(* Six hours after its last change a session is dropped: Redis lets its key  *)
(* run out, and a process removes it from its map and from Redis.  A job     *)
(* takes less than that.                                                     *)
Aged(i) == pc[i][1] \in {"over", "noted"}
Drop(i, copies) ==
    /\ Aged(i)
    /\ \E c \in copies : sess[c][i] # None
    /\ sess' = [c \in Copies |-> IF c \in copies THEN [sess[c] EXCEPT ![i] = None] ELSE sess[c]]
    /\ snewer' = [p \in Processes |-> snewer[p] \ {i}]
    /\ UNCHANGED <<batch, newer, runner, raised, beat, lockKey, jobVars, stopVars>>
Expire(i) == Drop(i, {Redis})
Clean(p, i) == ~(p = Home /\ runner = "dead") /\ sess[p][i] # None /\ Drop(i, {p, Redis})

(* What a poll through a process shows: the sessions it can see, judged      *)
(* together, unless the runner has left a verdict (alive: its flag in the    *)
(* batch).  With no session left and no verdict it has to guess, from the    *)
(* counters in the message of the batch.  A poll keeps what it had to load.  *)
Visible(p) == {i \in LoadBatch(p).ids : LoadSession(p, i) # None}
Seen(p, statuses) == {i \in Visible(p) : LoadSession(p, i).st \in statuses}
Busy(p) == Visible(p) \ Seen(p, SessionEnded)

Judged(p) ==
    LET stored == LoadBatch(p).st
        ids == LoadBatch(p).ids
        status ==
            IF Visible(p) = {}
            THEN IF stored \in BatchEnded THEN stored
                 ELSE IF ids # {} THEN "guessed" ELSE "running"
            ELSE IF Visible(p) = ids /\ ids # Jobs THEN "running"
            ELSE IF Seen(p, {"imported"}) = Jobs THEN "done"
            ELSE IF Seen(p, {"imported"}) # {} THEN "partial"
            ELSE IF Seen(p, {"error"}) # {} THEN "error" ELSE "cancelled"
    IN IF Busy(p) # {} THEN "running"
       ELSE IF status # "running" \/ stored \notin {"stopping", "cancelled"} THEN status
       ELSE IF Seen(p, {"cancelled"}) # {} \/ stored = "cancelled" THEN "cancelled" ELSE "stopped"

Shown(p, alive) ==
    LET stored == LoadBatch(p).st
    IN IF ~alive /\ stored \in BatchEnded THEN stored
       ELSE IF Busy(p) = {} \/ stored = "running" THEN Judged(p) ELSE stored

Poll(p) ==
    LET b == LoadBatch(p)
        loaded == {i \in b.ids : sess[p][i] = None /\ sess[Redis][i] # None}
    IN /\ ~(p = Home /\ runner = "dead")
       /\ batch[p] = None \/ loaded # {}
       /\ batch' = [batch EXCEPT ![p] = b]
       /\ newer' = [newer EXCEPT ![p] = @ /\ batch[p] # None]
       /\ sess' = [sess EXCEPT ![p] = [i \in Jobs |-> IF i \in loaded THEN sess[Redis][i] ELSE @[i]]]
       /\ snewer' = [snewer EXCEPT ![p] = @ \ loaded]
       /\ UNCHANGED <<runner, raised, beat, lockKey, jobVars, stopVars>>

(* The process of the runner dies; later its lock runs out.                  *)
Crash ==
    /\ runner \notin {"over", "dead"}
    /\ runner' = "dead" /\ beat' = FALSE
    /\ pc' = [i \in Jobs |-> <<"noted", 0>>]
    /\ stop' = [stop EXCEPT ![Home] = "idle"]
    /\ toStop' = [toStop EXCEPT ![Home] = {}]
    /\ UNCHANGED <<batch, sess, newer, snewer, raised, lockKey, again, ok, pool>>

Lapse ==
    /\ runner = "dead" /\ lockKey
    /\ lockKey' = FALSE
    /\ UNCHANGED <<batch, sess, newer, snewer, runner, raised, beat, jobVars, stopVars>>

RunnerStep ==
    \/ Spawn \/ Top \/ Submit \/ (\E i \in Jobs : Note(i)) \/ Final \/ Release
    \/ SubmitRaises \/ Drained
Job(i) ==
    \/ Begin(i) \/ PrepareFails(i) \/ Prepare(i) \/ Launch(i)
    \/ Check(i) \/ Cancel(i) \/ Show(i) \/ Report(i)
    \/ SignUp(i) \/ Create(i) \/ FetchSession(i) \/ OpenSession(i) \/ Import(i) \/ Probe(i)
    \/ Fail(i) \/ Collect(i)
Stop(p) == StopBegin(p) \/ StopEnd(p) \/ \E i \in Jobs : StopSession(p, i)

Next ==
    \/ RunnerStep \/ Timeout \/ BeatCheck \/ Beat \/ Crash \/ Lapse
    \/ \E i \in Jobs : Job(i) \/ Expire(i) \/ \E p \in Processes : Clean(p, i)
    \/ \E p \in Processes : Stop(p) \/ List(p) \/ Poll(p)

Spec == Init /\ [][Next]_vars

-----------------------------------------------------------------------------
(* Once a stop made in the process of the runner has returned, no job enters *)
(* a further stage, whatever copies of the batch other processes mirror and  *)
(* whatever this one merges: no account is created or imported that was not  *)
(* on the way.  A job may still make the calls that its stage makes without  *)
(* looking for a stop (a code after a challenge, the password after the      *)
(* search for the cookie).                                                   *)
StopHolds ==
    [][stop[Home] = "done" =>
        \A i \in Jobs : pc'[i][1] \in Calls => pc[i][1] \in Calls /\ pc'[i][2] = pc[i][2]]_vars

(* A batch that any copy calls done, or that any process shows as done, from *)
(* however old a view of its sessions and with some of them dropped, has put *)
(* an account of every job into the pool, unless an exception has ended the  *)
(* loop of the runner, and a partial one has put some.  (When the runner is  *)
(* not alive what is shown may also be the verdict of a copy, and when every *)
(* session has been dropped and there is no verdict it is a guess.)          *)
DoneMeansImported ==
    LET verdicts == {batch[c].st : c \in {k \in Copies : batch[k] # None}}
                    \cup {Shown(p, TRUE) : p \in Processes}
    IN /\ "done" \in verdicts => pool = Jobs \/ raised
       /\ "partial" \in verdicts => pool # {}
=============================================================================
