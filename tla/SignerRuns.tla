------------------------------ MODULE SignerRuns ------------------------------
(* The signing lanes that share the barrier, in two parts of one run: board and *)
(* maintenance with a crash or a replaced block, and board and Global under two *)
(* authorizations in a row, whose mutations only the watcher reconciles.        *)
EXTENDS MCSharedSigner

VARIABLE part

SharingLanes == {"board", "maint", "global"}

PartLanes == [crash |-> BoardAndMaintenance, authorizations |-> BoardAndGlobal]

RunsInit == Init /\ part \in DOMAIN PartLanes

(* A step of the part: its lanes take jobs, within its bounds. *)
InPart ==
  /\ job'.lane \in PartLanes[part] \union {"none"} /\ child'.lane \in PartLanes[part] \union {"none"}
  /\ part = "crash" => arms' <= 1 /\ crashes' + reorgs' <= 1
  /\ part = "authorizations" => crashes' = 0 /\ reorgs' = 0 /\ ~(job'.proc = "cli" /\ job'.kind = "reconcile")

RunsNext == Next /\ InPart /\ UNCHANGED part

RunsSpec == RunsInit /\ [][RunsNext]_<<vars, part>>
===============================================================================
