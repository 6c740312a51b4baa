----------------------- MODULE RegistrationMaintainer -----------------------
(* The container that keeps the number of accounts up: the loop of           *)
(* registration_maintainer.py, which starts a batch, follows it and rests,   *)
(* and the main thread of registration_worker.py, which samples the host     *)
(* with registration_controller.py and gives up when the host is not safe.   *)
(* The state of the loop is saved in Redis at every change, and the process  *)
(* may be killed at any point.  A batch runs in this process (see            *)
(* RegistrationBatch); a point of time is past or still to come.             *)
EXTENDS Integers

CONSTANTS
    Promote,        \* promote_after_samples
    MaxEvents       \* bound: kills, Redis errors and unsafe samples

MaintainerAssumption == Promote \in Nat \ {0} /\ MaxEvents \in Nat

VARIABLES
    pc,         \* the loop: "down", "boot", "top", "settle", "count", "start", "publish"
    local,      \* its _state: current_batch_id is set, rest_until is to come
    saved,      \* the same in Redis
    batch,      \* "none", "running" or "ended", as Redis has it
    runner,     \* the runner thread of the batch lives
    key,        \* the runner lock in Redis exists
    allowed,    \* allowed_concurrency
    stable,     \* stable_samples
    sampled,    \* the controller has evaluated a sample
    success,    \* single_slot_succeeded
    events,
    owed,       \* ghost: a batch was started and no rest has passed since
    lost        \* ghost: a change of the state did not reach Redis

ctl == <<allowed, stable, sampled, success>>
vars == <<pc, local, saved, batch, runner, key, ctl, events, owed, lost>>

State == [cur : BOOLEAN, rest : BOOLEAN]
Fresh == [cur |-> FALSE, rest |-> FALSE]

TypeOK ==
    /\ pc \in {"down", "boot", "top", "settle", "count", "start", "publish"}
    /\ local \in State /\ saved \in State
    /\ batch \in {"none", "running", "ended"}
    /\ runner \in BOOLEAN /\ key \in BOOLEAN
    /\ allowed \in 1..2 /\ stable \in 0..Promote
    /\ sampled \in BOOLEAN /\ success \in BOOLEAN
    /\ events \in 0..MaxEvents
    /\ owed \in BOOLEAN /\ lost \in BOOLEAN
    /\ runner => batch = "running" /\ pc # "down"

Init ==
    /\ pc = "down"
    /\ local = Fresh /\ saved = Fresh
    /\ batch = "none" /\ runner = FALSE /\ key = FALSE
    /\ allowed = 1 /\ stable = 0 /\ sampled = FALSE /\ success = FALSE
    /\ events = 0
    /\ owed = FALSE /\ lost = FALSE

Event == events < MaxEvents /\ events' = events + 1

(* _publish: a write that Redis refuses is forgotten.                        *)
Publish(s) ==
    /\ local' = s
    /\ \/ saved' = s /\ UNCHANGED <<events, lost>>
       \/ Event /\ lost' = TRUE /\ UNCHANGED saved

-----------------------------------------------------------------------------
(* run: a new controller, a first sample, and the loop is started.           *)
Start ==
    /\ pc = "down"
    /\ pc' = "boot"
    /\ allowed' = 1 /\ stable' = 0 /\ sampled' = TRUE /\ success' = FALSE
    /\ UNCHANGED <<local, saved, batch, runner, key, events, owed, lost>>

(* The saved state is taken over, unless Redis cannot be read.               *)
(* Mutant: the loop begins with nothing.                                     *)
BootFresh ==
    /\ pc = "boot"
    /\ Publish(Fresh)
    /\ pc' = "top"
    /\ UNCHANGED <<batch, runner, key, ctl, owed>>

Boot ==
    /\ pc = "boot"
    /\ \/ Publish(saved)
       \/ local' = Fresh /\ saved' = Fresh /\ Event /\ lost' = TRUE
    /\ pc' = "top"
    /\ UNCHANGED <<batch, runner, key, ctl, owed>>

(* _find_active_batch: a batch with a runner is followed; one without is     *)
(* closed, and there is none.                                                *)
Follow ==
    /\ pc = "top" /\ batch = "running" /\ key
    /\ Publish([local EXCEPT !.cur = TRUE])
    /\ UNCHANGED <<pc, batch, runner, key, ctl, owed>>

NoneActive ==
    /\ pc = "top" /\ ~(batch = "running" /\ key)
    /\ batch' = IF batch = "running" THEN "ended" ELSE batch
    /\ runner' = FALSE
    /\ pc' = "settle"
    /\ UNCHANGED <<local, saved, key, ctl, events, owed, lost>>

(* The batch that was followed is over: rest.                                *)
Settle ==
    /\ pc = "settle"
    /\ IF local.cur
       THEN Publish([cur |-> FALSE, rest |-> TRUE])
       ELSE UNCHANGED <<local, saved, events, lost>>
    /\ pc' = "count"
    /\ UNCHANGED <<batch, runner, key, ctl, owed>>

(* The count of usable accounts: enough, a rest to finish, or a batch to     *)
(* start; or it raises and the loop goes on a minute later.                  *)
Count ==
    /\ pc = "count"
    /\ pc' \in IF local.rest THEN {"top"} ELSE {"top", "start"}
    /\ UNCHANGED <<local, saved, batch, runner, key, ctl, events, owed, lost>>

(* _start_batch.  A failure is retried after a minute's rest.                *)
StartBatch ==
    /\ pc = "start"
    /\ batch' = "running" /\ runner' = TRUE /\ key' = TRUE
    /\ owed' = TRUE
    /\ pc' = "publish"
    /\ UNCHANGED <<local, saved, ctl, events, lost>>

StartFails ==
    /\ pc = "start"
    /\ Publish([local EXCEPT !.rest = TRUE])
    /\ pc' = "top"
    /\ UNCHANGED <<batch, runner, key, ctl, owed>>

Announce ==
    /\ pc = "publish"
    /\ Publish([cur |-> TRUE, rest |-> FALSE])
    /\ pc' = "top"
    /\ UNCHANGED <<batch, runner, key, ctl, owed>>

-----------------------------------------------------------------------------
(* The runner ends its batch; the lock of a dead one lapses; a rest passes.  *)
BatchEnds ==
    /\ runner
    /\ batch' = "ended" /\ runner' = FALSE /\ key' = FALSE
    /\ UNCHANGED <<pc, local, saved, ctl, events, owed, lost>>

Lapse ==
    /\ key /\ ~runner
    /\ key' = FALSE
    /\ UNCHANGED <<pc, local, saved, batch, runner, ctl, events, owed, lost>>

RestPasses ==
    /\ local.rest \/ saved.rest
    /\ local' = [local EXCEPT !.rest = FALSE]
    /\ saved' = [saved EXCEPT !.rest = FALSE]
    /\ owed' = (owed /\ batch = "running")
    /\ UNCHANGED <<pc, batch, runner, key, ctl, events, lost>>

(* A batch of one slot that registered something, seen by the main thread.   *)
SlotSucceeds ==
    /\ pc # "down" /\ batch = "ended" /\ allowed = 1 /\ ~success
    /\ success' = TRUE
    /\ UNCHANGED <<pc, local, saved, batch, runner, key, allowed, stable, sampled,
                   events, owed, lost>>

(* evaluate, on a safe sample: hold one slot until it has succeeded, then    *)
(* promote after enough samples in a row.                                    *)
Safe ==
    /\ pc # "down" /\ sampled
    /\ IF ~success /\ allowed < 2 THEN stable' = 0 /\ UNCHANGED allowed
       ELSE IF allowed < 2 /\ stable + 1 >= Promote
            THEN allowed' = allowed + 1 /\ stable' = 0
            ELSE /\ stable' = IF stable < Promote THEN stable + 1 ELSE stable
                 /\ UNCHANGED allowed
    /\ UNCHANGED <<pc, local, saved, batch, runner, key, sampled, success, events,
                   owed, lost>>

(* An unsafe sample, a stop signal or a dead loop ends the process after it  *)
(* has asked its batch to stop; a kill does not ask.  The runner dies.       *)
Exit ==
    /\ pc # "down" /\ Event
    /\ pc' = "down"
    /\ local' = Fresh
    /\ runner' = FALSE
    /\ lost' = (lost \/ pc = "publish")
    /\ UNCHANGED <<saved, batch, key, ctl, owed>>

Next ==
    \/ Start \/ Boot \/ Follow \/ NoneActive \/ Settle \/ Count
    \/ StartBatch \/ StartFails \/ Announce
    \/ BatchEnds \/ Lapse \/ RestPasses
    \/ SlotSucceeds \/ Safe \/ Exit

Spec == Init /\ [][Next]_vars

-----------------------------------------------------------------------------
(* A batch is not started before a rest has passed since the last one, also  *)
(* when the process was killed during the batch, at its end or in the rest;  *)
(* unless the change it was killed at had not been saved.                    *)
RestsBetween ==
    [][batch # "running" /\ batch' = "running" => ~owed \/ lost]_vars
=============================================================================
