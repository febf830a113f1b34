------------------------------- MODULE GlobalLane -------------------------------
(* The Global program and its own files: the deployment of the universal        *)
(* executor, an execution from a search's result to its entry in the ledger,    *)
(* and the reconciliation of either.  SharedSigner has the program among the    *)
(* other lanes, with finality and the nonce; here a transaction that is mined   *)
(* is final, and what counts is that the ledger, written before the audit, and  *)
(* the chain tell the same story wherever the program dies.                     *)
EXTENDS Naturals, FiniteSets, Sequences

CONSTANTS
  MaxSigned,  \* bound: transactions signed
  MaxKills,   \* bound: programs killed
  MaxArms,    \* bound: authorizations
  MaxMarket,  \* bound: the gross profit a transaction can earn
  MaxGifts,   \* bound: transfers to the executor from elsewhere
  Floor       \* the net profit an execution must keep

VARIABLES
  raws,      \* what was signed, in order
  ledger,    \* the deployment file: the executor, its status, the executions listed
  held,      \* the executor's balance of the settlement token
  authority, \* the shared arm: its number, whether it is in force
  watching,  \* the shared watcher is alive
  run,       \* the program under way, holder of wallet.lock
  gifts, kills

globalVars == <<raws, ledger, held, authority, watching, run, gifts, kills>>

Raws == DOMAIN raws
NoRun == [pc |-> "off", kind |-> "none", auth |-> 0, plan |-> [nonce |-> 0, base |-> 0, minimum |-> 0], raw |-> 0]

GlobalInit ==
  /\ raws = <<>> /\ held = 0 /\ gifts = 0 /\ kills = 0
  /\ ledger = [executor |-> 0, status |-> "none", listed |-> <<>>]
  /\ authority = [id |-> 0, live |-> FALSE] /\ watching = FALSE
  /\ run = NoRun

Unresolved == {i \in Raws : raws[i].audit = "signed"}
Mined == {i \in Raws : raws[i].chain # "none"}
NonceClean == \A i \in Raws : raws[i].sent => raws[i].chain # "none"

--------------------------------------------------------------------------------
(* The outside: the chain, transfers to the executor, the arm and the watcher *)

(* A deployment succeeds or reverts; an execution earns at least the floor its  *)
(* plan carries, or reverts (UniversalExecutor).  Gas is paid in ETH: its price *)
(* in the settlement token is the one of that block.                            *)
MineRaw(i, gross, cost) ==
  /\ raws[i].sent /\ raws[i].chain = "none" /\ raws[i].plan.nonce = Cardinality(Mined)
  /\ LET wins == IF raws[i].kind = "deploy" THEN gross = 0 ELSE gross >= raws[i].plan.minimum IN
     \/ /\ wins /\ held' = held + gross
        /\ raws' = [raws EXCEPT ![i].chain = "success", ![i].gross = gross, ![i].after = held + gross, ![i].cost = cost]
     \/ /\ gross = 0 /\ UNCHANGED held
        /\ raws' = [raws EXCEPT ![i].chain = "reverted", ![i].cost = cost]
  /\ UNCHANGED <<ledger, authority, watching, run, gifts, kills>>

Gift ==
  /\ gifts < MaxGifts /\ gifts' = gifts + 1
  /\ held' = held + 1
  /\ UNCHANGED <<raws, ledger, authority, watching, run, kills>>

(* Arming and the watcher's start need a clean audit (SharedSigner). *)
ArmShared ==
  /\ ~authority.live /\ authority.id < MaxArms /\ ledger.executor # 0 /\ Unresolved = {} /\ run.pc = "off"
  /\ authority' = [id |-> authority.id + 1, live |-> TRUE] /\ watching' = TRUE
  /\ UNCHANGED <<raws, ledger, held, run, gifts, kills>>

RevokeShared ==
  /\ authority.live /\ authority' = [authority EXCEPT !.live = FALSE]
  /\ UNCHANGED <<raws, ledger, held, watching, run, gifts, kills>>

WatcherLeaves ==
  /\ watching /\ watching' = FALSE
  /\ UNCHANGED <<raws, ledger, held, authority, run, gifts, kills>>

--------------------------------------------------------------------------------
(* Steps every command shares *)

leaves == run' = NoRun
continues(pc) == run' = [run EXCEPT !.pc = pc]

(* assertSharedAuthorization: a child of the watcher needs it alive and its     *)
(* authorization in force and of this executor; by hand, neither may be.        *)
authorized(auth) ==
  IF auth = 0 THEN ~watching /\ ~authority.live
  ELSE watching /\ authority.live /\ authority.id = auth

(* deployPreflight: an executor on record, a live watcher, an unresolved        *)
(* mutation or a pending nonce refuse it.                                       *)
deployable == ledger.executor = 0 /\ ~watching /\ Unresolved = {} /\ NonceClean

StartDeploy ==
  /\ run.pc = "off" /\ deployable
  /\ run' = [NoRun EXCEPT !.pc = "planned", !.kind = "deploy", !.plan.nonce = Cardinality(Mined)]
  /\ UNCHANGED <<raws, ledger, held, authority, watching, gifts, kills>>

(* execute looks for an unresolved mutation, then searches, or rebuilds the     *)
(* candidate a resident search handed over; either needs the deployment.        *)
StartExecute(auth) ==
  /\ run.pc = "off" /\ Unresolved = {} /\ ledger.executor # 0
  /\ auth # 0 => watching
  /\ run' = [NoRun EXCEPT !.pc = "searching", !.kind = "execute", !.auth = auth]
  /\ UNCHANGED <<raws, ledger, held, authority, watching, gifts, kills>>

(* The preflight finds nothing, its budget of calls is spent, or it fails. *)
SearchEnds ==
  /\ run.pc = "searching" /\ leaves
  /\ UNCHANGED <<raws, ledger, held, authority, watching, gifts, kills>>

(* A candidate: authorization, nonce, then funding, quote, simulation and the   *)
(* balance, each at the wallet's block, any of which may refuse it.             *)
FinalValidation ==
  /\ run.pc = "searching"
  /\ \/ leaves
     \/ /\ authorized(run.auth) /\ NonceClean
        /\ \E gas \in 1 .. MaxMarket - Floor :
             run' = [run EXCEPT !.pc = "planned",
                       !.plan = [nonce |-> Cardinality(Mined), base |-> held, minimum |-> gas + Floor]]
  /\ UNCHANGED <<raws, ledger, held, authority, watching, gifts, kills>>

(* The plan is in the audit; a child asserts its authorization again.  The raw  *)
(* is persisted, then the signature is recorded.                                *)
SignPersisted ==
  /\ run.pc = "planned" /\ Len(raws) < MaxSigned
  /\ IF run.auth # 0 /\ ~authorized(run.auth) THEN leaves /\ UNCHANGED raws
     ELSE /\ raws' = Append(raws, [kind |-> run.kind, auth |-> run.auth, plan |-> run.plan, audit |-> "signed",
                                   sent |-> FALSE, chain |-> "none", gross |-> 0, after |-> 0, cost |-> 0])
          /\ run' = [run EXCEPT !.pc = "signed", !.raw = Len(raws) + 1]
  /\ UNCHANGED <<ledger, held, authority, watching, gifts, kills>>

(* To the sequencer, and by the managed reader when that fails; it may reach    *)
(* neither.                                                                     *)
BroadcastPersisted(reached) ==
  /\ run.pc = "signed"
  /\ raws' = [raws EXCEPT ![run.raw].sent = reached]
  /\ continues("sent")
  /\ UNCHANGED <<ledger, held, authority, watching, gifts, kills>>

(* No receipt in time, or a read of the accounting fails: it stays unresolved.  *)
ReceiptUnknown ==
  /\ run.pc \in {"sent", "judging"} /\ leaves
  /\ UNCHANGED <<raws, ledger, held, authority, watching, gifts, kills>>

closes(result) == raws' = [raws EXCEPT ![run.raw].audit = result]

AuditReverted ==
  /\ run.pc \in {"sent", "judging"} /\ raws[run.raw].chain = "reverted"
  /\ closes("reverted") /\ leaves
  /\ UNCHANGED <<ledger, held, authority, watching, gifts, kills>>

--------------------------------------------------------------------------------
(* A canonical success: the ledger first, then the audit *)

(* The balance must have risen by what the event says, and what is left after   *)
(* the gas must be above the floor; otherwise the effect is not recorded.       *)
realised(i) == raws[i].after - raws[i].plan.base
acceptable(i) ==
  /\ raws[i].after >= raws[i].plan.base /\ realised(i) = raws[i].gross
  /\ raws[i].gross >= raws[i].cost + Floor

entry(i) == [raw |-> i, net |-> raws[i].gross - raws[i].cost]

(* A prior entry of the same hash must agree with the replay. *)
listedWith(i) == IF \E k \in DOMAIN ledger.listed : ledger.listed[k].raw = i THEN ledger.listed
                 ELSE Append(ledger.listed, entry(i))

WriteDeployment ==
  /\ run.pc \in {"sent", "judging"} /\ raws[run.raw].kind = "deploy" /\ raws[run.raw].chain = "success"
  /\ IF ledger.executor \in {0, run.raw}
     THEN /\ ledger' = [ledger EXCEPT !.executor = run.raw,
                                      !.status = IF ledger.status = "none" THEN "deployed" ELSE ledger.status]
          /\ continues("written")
     ELSE leaves /\ UNCHANGED ledger
  /\ UNCHANGED <<raws, held, authority, watching, gifts, kills>>

WriteExecution ==
  /\ run.pc \in {"sent", "judging"} /\ raws[run.raw].kind = "execute" /\ raws[run.raw].chain = "success"
  /\ IF acceptable(run.raw)
     THEN /\ ledger' = [ledger EXCEPT !.status = "live_net_validated", !.listed = listedWith(run.raw)]
          /\ continues("written")
     ELSE leaves /\ UNCHANGED ledger
  /\ UNCHANGED <<raws, held, authority, watching, gifts, kills>>

AuditEffect ==
  /\ run.pc = "written"
  /\ closes("effect") /\ leaves
  /\ UNCHANGED <<ledger, held, authority, watching, gifts, kills>>

--------------------------------------------------------------------------------
(* reconcile: by hand without a watcher, or as its child under an authorization *)
(* in force.  The raw must be the plan's.  It judges what two readers see and   *)
(* never sends anything.                                                        *)
StartReconcile(auth) ==
  /\ run.pc = "off" /\ Unresolved # {}
  /\ IF auth = 0 THEN ~watching ELSE authorized(auth)
  /\ \E i \in Unresolved : run' = [NoRun EXCEPT !.pc = "judging", !.kind = "reconcile", !.auth = auth, !.raw = i]
  /\ UNCHANGED <<raws, ledger, held, authority, watching, gifts, kills>>

KillProgram ==
  /\ run.pc # "off" /\ kills < MaxKills /\ kills' = kills + 1
  /\ leaves
  /\ UNCHANGED <<raws, ledger, held, authority, watching, gifts>>

GlobalNext ==
  \/ \E i \in Raws, gross \in 0 .. MaxMarket, cost \in 0 .. MaxMarket : MineRaw(i, gross, cost)
  \/ Gift \/ ArmShared \/ RevokeShared \/ WatcherLeaves
  \/ StartDeploy \/ \E auth \in {0, authority.id} : StartExecute(auth) \/ StartReconcile(auth)
  \/ SearchEnds \/ FinalValidation \/ SignPersisted \/ \E reached \in BOOLEAN : BroadcastPersisted(reached)
  \/ ReceiptUnknown \/ AuditReverted \/ WriteDeployment \/ WriteExecution \/ AuditEffect \/ KillProgram

GlobalSpec == GlobalInit /\ [][GlobalNext]_globalVars

--------------------------------------------------------------------------------
(* Properties *)

GlobalTypeOK ==
  /\ \A i \in Raws : /\ raws[i].audit \in {"signed", "effect", "reverted"} /\ raws[i].auth \in 0 .. MaxArms
                     /\ raws[i].chain \in {"none", "success", "reverted"} /\ raws[i].plan.minimum \in 0 .. MaxMarket
  /\ ledger.executor \in 0 .. MaxSigned /\ authority.id \in 0 .. MaxArms /\ kills \in 0 .. MaxKills

(* Whatever was killed, lost or read again: the i-th signature has the i-th     *)
(* nonce, so that no two signed transactions compete.                           *)
SignedInOrder == \A i \in Raws : raws[i].plan.nonce = i - 1

(* A closed mutation ended on the chain as the audit says; every execution      *)
(* closed as a success is in the ledger, once, with what it kept; the ledger    *)
(* lists nothing else; and one executor is deployed, the one it names.          *)
LedgerMatchesChain ==
  LET listed == {ledger.listed[k].raw : k \in DOMAIN ledger.listed}
      deployed == {i \in Raws : raws[i].kind = "deploy" /\ raws[i].chain = "success"} IN
  /\ \A i \in Raws : /\ raws[i].audit = "reverted" => raws[i].chain = "reverted"
                     /\ raws[i].audit = "effect" => raws[i].chain = "success"
                     /\ (raws[i].audit = "effect" /\ raws[i].kind = "execute") => i \in listed
                     /\ (raws[i].audit = "effect" /\ raws[i].kind = "deploy") => ledger.executor = i
  /\ Cardinality(listed) = Len(ledger.listed)
  /\ \A k \in DOMAIN ledger.listed :
       LET i == ledger.listed[k].raw IN
       raws[i].kind = "execute" /\ raws[i].chain = "success" /\ ledger.listed[k].net = raws[i].gross - raws[i].cost
  /\ Cardinality(deployed) <= 1 /\ (ledger.executor # 0 => ledger.executor \in deployed)
================================================================================
