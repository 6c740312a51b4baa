-------------------------- MODULE MCLeaderElection --------------------------
(* Model values for LeaderElection.                                          *)
EXTENDS LeaderElection, TLC

CONSTANTS w1, w2

MCTwo == {w1, w2}
=============================================================================
