-------------------------------- MODULE Upkeep --------------------------------
(* What keeps the accounts usable whatever fails: the slot that keeps        *)
(* maintenance cycles apart, the batched token refresh and the model probe   *)
(* that cycles run, the browser pool of the solver, and the background jobs  *)
(* of the administrator.  They share no state.                               *)
EXTENDS SolverPool

CONSTANTS
    RefreshAccounts, RefreshBatch, RefreshErrors,           \* RefreshSweep
    ProbeAccounts, ProbeBatch, ProbeErrors,                 \* ProbeSweep
    Home, Away, Items, JobAccounts, JobErrors,              \* AdminJobs
    Users, Process, Free, Dead, SlotErrors, SlotLapses      \* MaintenanceSlot

VARIABLES
    due, leader, phase, batch, covered, meta, sweepLocal, sweepErrors,
    live, prober, source, probeBatch, probeCovered, probeMeta, probeLocal, generation,
    probed, probeErrors,
    kind, jobAt, item, holds, mem, redis, stored, asks, told, jobErrors,
    slotLock, local, slotAt, fails, renewing, slotErrors, lapses

sweepVars == <<due, leader, phase, batch, covered, meta, sweepLocal, sweepErrors>>
probeVars == <<live, prober, source, probeBatch, probeCovered, probeMeta, probeLocal,
               generation, probed, probeErrors>>
jobVars == <<kind, jobAt, item, holds, mem, redis, stored, asks, told, jobErrors>>
slotVars == <<slotLock, local, slotAt, fails, renewing, slotErrors, lapses>>
upkeepVars == <<vars, sweepVars, probeVars, jobVars, slotVars>>

Slot == INSTANCE MaintenanceSlot
    WITH MaxErrors <- SlotErrors, MaxLapses <- SlotLapses, lock <- slotLock,
         at <- slotAt, errors <- slotErrors

(* The sweeps are run by the processes that take the slot.                   *)
Processes == Slot!Processes
Sweep == INSTANCE RefreshSweep
    WITH Accounts <- RefreshAccounts, Batch <- RefreshBatch, MaxErrors <- RefreshErrors,
         local <- sweepLocal, errors <- sweepErrors
Probe == INSTANCE ProbeSweep
    WITH Accounts <- ProbeAccounts, Batch <- ProbeBatch, MaxErrors <- ProbeErrors,
         leader <- prober, batch <- probeBatch, covered <- probeCovered, meta <- probeMeta,
         local <- probeLocal, sweep <- generation, errors <- probeErrors
Jobs == INSTANCE AdminJobs
    WITH Accounts <- JobAccounts, MaxErrors <- JobErrors, at <- jobAt, errors <- jobErrors

ASSUME UpkeepAssumption ==
    /\ SolverAssumption /\ Sweep!SweepAssumption /\ Probe!ProbeAssumption
    /\ Jobs!JobsAssumption /\ Slot!SlotAssumption

UpkeepInit == Init /\ Sweep!Init /\ Probe!Init /\ Jobs!Init /\ Slot!Init

SolverNext == Next /\ UNCHANGED <<sweepVars, probeVars, jobVars, slotVars>>
SweepNext == Sweep!Next /\ UNCHANGED <<vars, probeVars, jobVars, slotVars>>
ProbeNext == Probe!Next /\ UNCHANGED <<vars, sweepVars, jobVars, slotVars>>
JobsNext == Jobs!Next /\ UNCHANGED <<vars, sweepVars, probeVars, slotVars>>
SlotNext == Slot!Next /\ UNCHANGED <<vars, sweepVars, probeVars, jobVars>>

UpkeepSpec ==
    UpkeepInit /\ [][SolverNext \/ SweepNext \/ ProbeNext \/ JobsNext \/ SlotNext]_upkeepVars

-----------------------------------------------------------------------------
(* The types of the five.                                                    *)
TypesOK == TypeOK /\ Sweep!TypeOK /\ Probe!TypeOK /\ Jobs!TypeOK /\ Slot!TypeOK

(* No account that keeps being due, and none that keeps being live, is left  *)
(* out by the refresh and by the probe for ever.                             *)
NobodyStarves == Sweep!NobodyStarves /\ Probe!EveryoneProbed

(* The other properties of the probe, the jobs and the slot, stated in       *)
(* their modules.                                                            *)
OncePerSweep == Probe!OncePerSweep
JobsAnswered == Jobs!JobsAnswered
SlotExclusive == Slot!SlotExclusive
SlotFreed == Slot!SlotFreed
=============================================================================
