------------------------------ MODULE Reports -------------------------------
(* What a request leaves behind when it has ended: the state of its account  *)
(* in the pool, and its place in the counts of usage.  They share no state.  *)
EXTENDS AccountPool

CONSTANTS
    Recorders,                          \* the processes that count
    MaxDay, MaxRequests, MaxErrors      \* UsageStats: bounds of a run

VARIABLES
    clock, redis, daily, rec, shown, light, finished, done, before, crossed, failed,
    doubled, errors

usageVars == <<clock, redis, daily, rec, shown, light, finished, done, before, crossed,
               failed, doubled, errors>>
reportVars == <<vars, usageVars>>

Usage == INSTANCE UsageStats WITH Workers <- Recorders, snap <- shown

ASSUME ReportsAssumption == IsFiniteSet(Recorders) /\ Usage!UsageAssumption

ReportsInit == Init /\ Usage!Init

PoolNext == Next /\ UNCHANGED usageVars
UsageNext == Usage!Next /\ UNCHANGED vars

ReportsSpec == ReportsInit /\ [][PoolNext \/ UsageNext]_reportVars

-----------------------------------------------------------------------------
(* The properties of the statistics, stated in their module.                 *)
UsageCounted == Usage!CountsOnce /\ Usage!OneStoreSuffices /\ Usage!TypeOK
=============================================================================
