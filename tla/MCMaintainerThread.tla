------------------------- MODULE MCMaintainerThread -------------------------
(* Model values for MaintainerThread.                                        *)
EXTENDS MaintainerThread, TLC

CONSTANTS t1, t2, watcher, admin
=============================================================================
