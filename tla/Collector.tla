-------------------------------- MODULE Collector --------------------------------
(* The collector of legacy funds: it freezes one plan and one fee envelope for   *)
(* every executor that still holds USDG, and withdraws them one after the other, *)
(* each checked again before it is signed.  A withdrawal is booked in the        *)
(* target's state file, then closed in the audit.  It takes over no lock, and    *)
(* what it cannot close waits for its own reconcile.                             *)
EXTENDS Naturals, FiniteSets, Sequences

CONSTANTS
  Target,     \* the allowlisted executors
  Place,      \* Place[t]: the place of an executor in that list
  Retained,   \* the ETH that stays in the wallet
  MaxPrice,   \* bound: the gas price, here of a whole withdrawal
  MaxSigned,  \* bound: withdrawals signed
  MaxKills,   \* bound: programs killed
  MaxGifts    \* bound: transfers of USDG from elsewhere

VARIABLES
  signed,    \* the withdrawals signed, in order
  eth,       \* the wallet's ETH
  usdg,      \* its USDG
  funds,     \* funds[t]: the USDG an executor holds
  state,     \* state[t]: the withdrawal its state file names, 0: none
  lock,      \* wallet.lock: free, held, or left by a dead process
  run,       \* the program under way
  gifts, kills

collectorVars == <<signed, eth, usdg, funds, state, lock, run, gifts, kills>>

Signed == DOMAIN signed
NoPlan == [left |-> {}, amount |-> [t \in Target |-> 0], fee |-> 0, nonce |-> 0]
NoRun == [pc |-> "off", plan |-> NoPlan, base |-> [usdg |-> 0, eth |-> 0], raw |-> 0]

CollectorInit ==
  /\ signed = <<>> /\ usdg = 0 /\ eth \in Retained + 2 .. Retained + 4
  /\ funds \in [Target -> 0 .. 1] /\ state = [t \in Target |-> 0]
  /\ \E t \in Target : funds[t] # 0
  /\ lock = "free" /\ run = NoRun /\ gifts = 0 /\ kills = 0

Unresolved == {i \in Signed : signed[i].audit = "signed"}
Mined == {i \in Signed : signed[i].chain # "none"}
NonceClean == \A i \in Signed : signed[i].sent => signed[i].chain # "none"

--------------------------------------------------------------------------------
(* The outside *)

MineWithdrawal(i, paid) ==
  LET s == signed[i] IN
  /\ s.sent /\ s.chain = "none" /\ paid <= s.fee
  /\ eth' = eth - paid
  /\ \/ /\ funds[s.target] >= s.amount
        /\ funds' = [funds EXCEPT ![s.target] = @ - s.amount] /\ usdg' = usdg + s.amount
        /\ signed' = [signed EXCEPT ![i].chain = "success", ![i].paid = paid]
     \/ signed' = [signed EXCEPT ![i].chain = "reverted", ![i].paid = paid] /\ UNCHANGED <<funds, usdg>>
  /\ UNCHANGED <<state, lock, run, gifts, kills>>

GiftOf(t) ==
  /\ gifts < MaxGifts /\ gifts' = gifts + 1
  /\ \/ usdg' = usdg + 1 /\ UNCHANGED funds
     \/ funds' = [funds EXCEPT ![t] = @ + 1] /\ UNCHANGED usdg
  /\ UNCHANGED <<signed, eth, state, lock, run, kills>>

(* A lock left behind is reconciled, and removed, by hand. *)
OperatorUnlocks ==
  /\ lock = "stale" /\ lock' = "free"
  /\ UNCHANGED <<signed, eth, usdg, funds, state, run, gifts, kills>>

--------------------------------------------------------------------------------
(* execute *)

leaves == run' = NoRun /\ lock' = "free"
continues(pc) == run' = [run EXCEPT !.pc = pc] /\ UNCHANGED lock

(* collectionSnapshot and its budget: an executor without USDG must have been   *)
(* withdrawn; the envelope is above the price and is kept for every target.     *)
collectable == {t \in Target : funds[t] # 0}
envelope(price) == price + 1
Freeze(price) ==
  /\ run.pc = "off" /\ lock = "free"
  /\ Unresolved = {} /\ NonceClean /\ collectable # {}
  /\ \A t \in Target : funds[t] = 0 => state[t] # 0
  /\ eth >= Retained + Cardinality(collectable) * envelope(price)
  /\ lock' = "held"
  /\ run' = [NoRun EXCEPT !.pc = "target",
               !.plan = [left |-> collectable, amount |-> funds, fee |-> envelope(price), nonce |-> Cardinality(Mined)]]
  /\ UNCHANGED <<signed, eth, usdg, funds, state, gifts, kills>>

(* What is left of the plan is withdrawn in its order, one nonce after the other. *)
current == CHOOSE t \in run.plan.left : \A u \in run.plan.left : Place[t] <= Place[u]

coversRest == eth >= Retained + Cardinality(run.plan.left) * run.plan.fee

(* Balance, nonce, price, and the ETH for what is left of the plan. *)
CheckTarget(price) ==
  /\ run.pc = "target" /\ run.plan.left # {}
  /\ IF /\ funds[current] = run.plan.amount[current] /\ NonceClean
        /\ Cardinality(Mined) = run.plan.nonce
        /\ price <= run.plan.fee /\ coversRest
     THEN run' = [run EXCEPT !.pc = "planned", !.base = [usdg |-> usdg, eth |-> eth]] /\ UNCHANGED lock
     ELSE leaves
  /\ UNCHANGED <<signed, eth, usdg, funds, state, gifts, kills>>

(* The plan in the audit, the raw on disk, its signature in the audit. *)
SignWithdrawal ==
  /\ run.pc = "planned" /\ Len(signed) < MaxSigned
  /\ signed' = Append(signed, [target |-> current, amount |-> run.plan.amount[current], fee |-> run.plan.fee,
                               nonce |-> run.plan.nonce, base |-> run.base,
                               audit |-> "signed", sent |-> FALSE, chain |-> "none", paid |-> 0])
  /\ run' = [run EXCEPT !.pc = "signed", !.raw = Len(signed) + 1]
  /\ UNCHANGED <<eth, usdg, funds, state, lock, gifts, kills>>

SendWithdrawal(reached) ==
  /\ run.pc = "signed"
  /\ signed' = [signed EXCEPT ![run.raw].sent = reached]
  /\ continues("sent")
  /\ UNCHANGED <<eth, usdg, funds, state, gifts, kills>>

(* No receipt, or a balance that disagrees: it stays unresolved.                *)
GiveUp ==
  /\ run.pc \in {"sent", "judging"} /\ leaves
  /\ UNCHANGED <<signed, eth, usdg, funds, state, gifts, kills>>

AuditReverted ==
  /\ run.pc \in {"sent", "judging"} /\ signed[run.raw].chain = "reverted"
  /\ signed' = [signed EXCEPT ![run.raw].audit = "reverted"] /\ leaves
  /\ UNCHANGED <<eth, usdg, funds, state, gifts, kills>>

(* postStateForPlan: the balances now, against those before the signature.      *)
exact(s) ==
  /\ funds[s.target] = 0 /\ usdg = s.base.usdg + s.amount /\ s.base.eth = eth + s.paid
  /\ Cardinality(Mined) = s.nonce + 1 /\ NonceClean

BookWithdrawal ==
  /\ run.pc \in {"sent", "judging"} /\ signed[run.raw].chain = "success" /\ exact(signed[run.raw])
  /\ state' = [state EXCEPT ![signed[run.raw].target] = run.raw]
  /\ run' = [run EXCEPT !.pc = IF run.pc = "sent" THEN "booked" ELSE "rebooked"]
  /\ UNCHANGED <<signed, eth, usdg, funds, lock, gifts, kills>>

CloseWithdrawal ==
  /\ run.pc \in {"booked", "rebooked"}
  /\ signed' = [signed EXCEPT ![run.raw].audit = "effect"]
  /\ IF run.pc = "booked" THEN run' = [run EXCEPT !.pc = "target", !.plan.left = @ \ {current}, !.plan.nonce = @ + 1]
                          /\ UNCHANGED lock
     ELSE leaves
  /\ UNCHANGED <<eth, usdg, funds, state, gifts, kills>>

(* The aggregate is only reported. *)
Complete ==
  /\ run.pc = "target" /\ run.plan.left = {} /\ leaves
  /\ UNCHANGED <<signed, eth, usdg, funds, state, gifts, kills>>

(* reconcile: one reader; without a receipt it does nothing. *)
Reconcile ==
  /\ run.pc = "off" /\ lock = "free" /\ Unresolved # {}
  /\ lock' = "held"
  /\ \E i \in Unresolved : run' = [NoRun EXCEPT !.pc = "judging", !.raw = i]
  /\ UNCHANGED <<signed, eth, usdg, funds, state, gifts, kills>>

KillCollector ==
  /\ run.pc # "off" /\ kills < MaxKills /\ kills' = kills + 1
  /\ run' = NoRun /\ lock' = "stale"
  /\ UNCHANGED <<signed, eth, usdg, funds, state, gifts>>

CollectorNext ==
  \/ \E i \in Signed, paid \in 1 .. MaxPrice + 1 : MineWithdrawal(i, paid)
  \/ \E t \in Target : GiftOf(t)
  \/ \E price \in 1 .. MaxPrice : Freeze(price)
  \/ \E price \in 1 .. MaxPrice + 1 : CheckTarget(price)
  \/ \E reached \in BOOLEAN : SendWithdrawal(reached)
  \/ OperatorUnlocks \/ SignWithdrawal \/ GiveUp \/ AuditReverted \/ BookWithdrawal \/ CloseWithdrawal
  \/ Complete \/ Reconcile \/ KillCollector

CollectorSpec == CollectorInit /\ [][CollectorNext]_collectorVars

--------------------------------------------------------------------------------
(* Properties *)

CollectorTypeOK ==
  /\ funds \in [Target -> 0 .. 1 + MaxGifts] /\ state \in [Target -> 0 .. MaxSigned]
  /\ lock \in {"free", "held", "stale"} /\ kills \in 0 .. MaxKills
  /\ run.pc # "off" => lock = "held"

(* The wallet keeps its retained ETH whatever reverts, is lost or is repeated,  *)
(* what is signed and may yet be mined included.                                *)
RetainedKept ==
  LET open == {i \in Signed : signed[i].chain = "none"} IN
  /\ Cardinality(open) <= 1 /\ \A i \in open : eth >= Retained + signed[i].fee
  /\ eth >= Retained

SignedInOrder == \A i \in Signed : signed[i].nonce = i - 1

(* A closed withdrawal ended on the chain as the audit says, and its target's   *)
(* state names it or a later one; a state names a withdrawal that succeeded.    *)
StatesMatchChain ==
  /\ \A i \in Signed : /\ signed[i].audit = "reverted" => signed[i].chain = "reverted"
                       /\ signed[i].audit = "effect" => signed[i].chain = "success" /\ state[signed[i].target] >= i
  /\ \A t \in Target : state[t] # 0 => signed[state[t]].target = t /\ signed[state[t]].chain = "success"
================================================================================
