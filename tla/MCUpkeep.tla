------------------------------ MODULE MCUpkeep ------------------------------
(* Upkeep with one of its components running in a behaviour: they share no   *)
(* state.                                                                    *)
EXTENDS Upkeep, TLC

CONSTANTS u1, u2, u3, p1, p2

MCUsers == {u1, u2, u3}
MCProcess == (u1 :> p1) @@ (u2 :> p1) @@ (u3 :> p2)

VARIABLE part

MCInit ==
    /\ UpkeepInit
    /\ part \in {"slot", "sweep", "solver", "probe", "jobs"}
    /\ part # "sweep" => due = {} /\ leader = p1
    /\ part # "probe" => live = {} /\ prober = p1

MCNext ==
    /\ \/ part = "slot" /\ SlotNext
       \/ part = "sweep" /\ SweepNext
       \/ part = "solver" /\ SolverNext
       \/ part = "probe" /\ ProbeNext
       \/ part = "jobs" /\ JobsNext
    /\ UNCHANGED part

(* In the components that rest, no step that fairness asks for is enabled.   *)
MCSpec ==
    /\ MCInit /\ [][MCNext]_<<upkeepVars, part>>
    /\ Fairness /\ Sweep!Fairness /\ Probe!Fairness /\ Jobs!Fairness /\ Slot!SlotFairness
=============================================================================
