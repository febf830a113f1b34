---------------------------- MODULE MCScheduler -----------------------------
(* Two lanes of ProtectedScheduler with the proportions of the watcher: the *)
(* second lane has a minimum interval and starts later.                     *)
EXTENDS ProtectedScheduler, TLC

CONSTANTS earn, global

MCLane == {earn, global}
MCOrder == (earn :> 0) @@ (global :> 1)
MCPeriod == (earn :> 2) @@ (global :> 4)
MCMinimumInterval == (earn :> 0) @@ (global :> 3)
MCFirstPeriodic == (earn :> 0) @@ (global :> 1)
=============================================================================
