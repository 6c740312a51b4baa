------------------------------ MODULE Accounts ------------------------------
(* Where accounts come from and how their tokens are kept: the credential of *)
(* an account, the caches of a process, a registration batch, and the loop   *)
(* that starts batches.  They share no state.                                *)
EXTENDS CredentialRefresh

CONSTANTS
    Writers, Readers, Empty, MaxCommits,                    \* CredentialCache
    Home, Away, Redis, BatchSize, BatchWorkers, MaxStops,   \* RegistrationBatch
    Promote, LoopEvents                                     \* RegistrationMaintainer

VARIABLES
    table, mapCache, mapLock, live, fresh, generation, refreshing, throttled,
    writer, wrote, builder, read, gen, done,
    batch, sess, newer, snewer, runner, raised, beat, runnerLock, jobPc, again, ok, pool,
    stop, toStop,
    loopPc, local, saved, loopBatch, loopRunner, key, allowed, stable, sampled,
    success, events, owed, lost

cacheVars == <<table, mapCache, mapLock, live, fresh, generation, refreshing, throttled,
               writer, wrote, builder, read, gen, done>>
batchVars == <<batch, sess, newer, snewer, runner, raised, beat, runnerLock, jobPc, again, ok,
               pool, stop, toStop>>
loopVars == <<loopPc, local, saved, loopBatch, loopRunner, key, allowed, stable, sampled,
              success, events, owed, lost>>
accountsVars == <<vars, cacheVars, batchVars, loopVars>>

Caches == INSTANCE CredentialCache
Batches == INSTANCE RegistrationBatch
    WITH Count <- BatchSize, Workers <- BatchWorkers, lockKey <- runnerLock, pc <- jobPc
Loop == INSTANCE RegistrationMaintainer
    WITH MaxEvents <- LoopEvents, pc <- loopPc, batch <- loopBatch, runner <- loopRunner

ASSUME AccountsAssumption ==
    /\ Caches!CacheAssumption /\ Batches!BatchAssumption /\ Loop!MaintainerAssumption

AccountsInit == Init /\ Caches!Init /\ Batches!Init /\ Loop!Init

CredentialNext == Next /\ UNCHANGED <<cacheVars, batchVars, loopVars>>
CachesNext == Caches!Next /\ UNCHANGED <<vars, batchVars, loopVars>>
BatchNext == Batches!Next /\ UNCHANGED <<vars, cacheVars, loopVars>>
LoopNext == Loop!Next /\ UNCHANGED <<vars, cacheVars, batchVars>>

AccountsSpec ==
    AccountsInit /\ [][CredentialNext \/ CachesNext \/ BatchNext \/ LoopNext]_accountsVars

-----------------------------------------------------------------------------
(* The types of the four.                                                    *)
TypesOK == TypeOK /\ Caches!TypeOK /\ Batches!TypeOK /\ Loop!TypeOK

(* The properties of the other three, stated in their modules.               *)
FreshHoldsOwnWrites == Caches!FreshHoldsOwnWrites
DoneMeansImported == Batches!DoneMeansImported
StopHolds == Batches!StopHolds
RestsBetween == Loop!RestsBetween
=============================================================================
