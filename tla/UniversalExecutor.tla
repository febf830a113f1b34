--------------------------- MODULE UniversalExecutor ---------------------------
(* contracts/UniversalAtomicExecutor.sol: a typed plan of swaps, run on bounded *)
(* inventory or on a Morpho flash loan.  A call hands control to foreign code   *)
(* between its steps: pools, the PoolManager, the Earn router and Morpho call   *)
(* back or pull tokens, and any of them, or a token, may refuse, which undoes   *)
(* the whole call.  One action per stretch of code between two such points.     *)
EXTENDS Integers, Sequences

CONSTANTS
  Token,      \* the tokens of the plans, pool shares included
  Pools,      \* canonical pools: kind of action -> pool -> the tokens it trades
  Plan,       \* the plans an operator may submit, wrong ones included
  Principal,  \* the principals an operator may name
  MaxOut,     \* bound: what a venue pays in one action
  MaxHeld     \* bound: no call starts while the executor holds more of a token

NoToken == "none"
EarnKinds == {"earnSwap", "earnAdd", "earnRemove"}
Spender == {"morpho", "router"}
Nothing == [t \in Token |-> 0]
NoAllowance == [s \in Spender |-> Nothing]
NoContext == [token |-> NoToken, amount |-> 0]
NoCall == [pc |-> "idle"]

VARIABLES
  bal,        \* the executor's balances
  allowance,  \* what each spender may pull, through Permit2 or directly
  phase,      \* the transient phase: 0, or what the executor is in
  ctx,        \* the transient context of a V3 swap
  call        \* the call in progress

execVars == <<bal, allowance, phase, ctx, call>>

ExecInit ==
  /\ bal \in [Token -> 0..MaxHeld]
  /\ allowance = NoAllowance
  /\ phase = "none"
  /\ ctx = NoContext
  /\ call = NoCall

--------------------------------------------------------------------------------
(* The plan and its tokens *)

tracked(plan) == DOMAIN plan.tracked

requiresTracked(plan, a) ==
  IF a.kind \in {"earnAdd", "earnRemove"}
  THEN a.pool \in tracked(plan)
  ELSE /\ a.in # NoToken /\ a.out # NoToken /\ a.in # a.out
       /\ {a.in, a.out} \subseteq tracked(plan)

validPlan(plan) ==
  /\ plan.minimumProfit # 0
  /\ plan.settlement \in tracked(plan)
  /\ plan.actions # <<>>
  /\ \A i \in DOMAIN plan.actions : requiresTracked(plan, plan.actions[i])

(* The baseline that no action may touch: settlement inventory beyond the       *)
(* principal, and all of any other token.                                       *)
baselines(plan, principal) == [bal EXCEPT ![plan.settlement] = @ - principal]

action == call.plan.actions[call.at]

(* Mutant: the whole balance is available. *)
heldInAll(t) == bal[t]

available(t) == bal[t] - call.base[t]
amountFor(t) == IF action.amount = 0 THEN available(t) ELSE action.amount

tokensIn == IF action.kind = "earnAdd" THEN Pools["earnAdd"][action.pool] ELSE {action.in}

(* What the action takes: all that is available of its token, or what it asks.  *)
availableAmounts ==
  [t \in Token |-> IF t \in tokensIn THEN amountFor(t) ELSE 0]
suffices ==
  \A t \in tokensIn : t \in tracked(call.plan) /\ available(t) > 0 /\ amountFor(t) <= available(t)

canonical ==
  /\ action.pool \in DOMAIN Pools[action.kind]
  /\ action.kind = "earnAdd" => action.out = action.pool /\ action.in = NoToken
  /\ action.kind = "earnRemove" =>
       /\ action.in = action.pool /\ action.out = NoToken
       /\ Pools["earnRemove"][action.pool] \subseteq tracked(call.plan)
  /\ action.kind \notin {"earnAdd", "earnRemove"} =>
       {action.in, action.out} \subseteq Pools[action.kind][action.pool]

--------------------------------------------------------------------------------
(* One action of the plan *)

runs(kinds) ==
  /\ call.pc = "act" /\ call.at <= Len(call.plan.actions)
  /\ action.kind \in kinds
  /\ canonical /\ suffices

just(t, n) == [Nothing EXCEPT ![t] = n]
moved(spent, gained) == [t \in Token |-> bal[t] - spent[t] + gained[t]]

(* The venue reports an output; a token that takes a fee credits less of it.    *)
settlesOutput(reported, credited) ==
  reported > 0 /\ credited = reported /\ reported >= action.minimum

goesTo(pc, amounts) == call' = [call EXCEPT !.pc = pc, !.amounts = amounts]
nextAction == call' = [call EXCEPT !.pc = "act", !.at = @ + 1, !.amounts = Nothing]

SwapV2 ==
  /\ runs({"v2"})
  /\ \E reported, credited \in 0..MaxOut :
       /\ settlesOutput(reported, credited)
       /\ bal' = moved(availableAmounts, just(action.out, credited))
  /\ nextAction
  /\ UNCHANGED <<allowance, phase, ctx>>

SwapV3 ==
  /\ runs({"v3"})
  /\ ctx' = [token |-> action.in, amount |-> availableAmounts[action.in]]
  /\ goesTo("v3", availableAmounts)
  /\ UNCHANGED <<bal, allowance, phase>>

(* The pool pays, then asks for its input; a price limit makes it ask for less. *)
V3Callback ==
  /\ call.pc = "v3"
  /\ \E asked \in 1..call.amounts[action.in], reported, credited \in 0..MaxOut :
       /\ asked = ctx.amount
       /\ settlesOutput(reported, credited)
       /\ bal' = moved(just(ctx.token, asked), just(action.out, credited))
  /\ ctx' = NoContext
  /\ nextAction
  /\ UNCHANGED <<allowance, phase>>

SwapV4 ==
  /\ runs({"v4"})
  /\ phase' = "v4Unlock"
  /\ call' = [call EXCEPT !.pc = "v4", !.amounts = availableAmounts, !.outer = phase]
  /\ UNCHANGED <<bal, allowance, ctx>>

(* Inside the unlock: swap, settle the whole input, take the output, and hand   *)
(* the phase back.                                                              *)
UnlockCallback ==
  /\ call.pc = "v4" /\ phase = "v4Unlock"
  /\ call.outer \in {"inventory", "flash", "quote"}
  /\ \E swapped \in 1..call.amounts[action.in], settled \in 0..call.amounts[action.in],
        reported, credited \in 0..MaxOut :
       /\ swapped = call.amounts[action.in]
       /\ settled = call.amounts[action.in]
       /\ settlesOutput(reported, credited)
       /\ bal' = moved(call.amounts, just(action.out, credited))
  /\ phase' = call.outer
  /\ nextAction
  /\ UNCHANGED <<allowance, ctx>>

ApproveEarn ==
  /\ runs(EarnKinds)
  /\ allowance' = [allowance EXCEPT !["router"] = availableAmounts]
  /\ goesTo("earn", availableAmounts)
  /\ UNCHANGED <<bal, phase, ctx>>

earnOutputs ==
  IF action.kind = "earnRemove"
  THEN {outs \in [Token -> 0..MaxOut] : \A t \in Token : outs[t] > 0 => t \in Pools["earnRemove"][action.pool]}
  ELSE {just(action.out, credited) : credited \in {n \in 0..MaxOut : n >= action.minimum}}

(* The router pulls what it was allowed and pays; the allowance is withdrawn.   *)
RouteEarn ==
  /\ call.pc = "earn"
  /\ \A t \in Token : allowance["router"][t] >= call.amounts[t]
  /\ \E outs \in earnOutputs : bal' = moved(call.amounts, outs)
  /\ allowance' = [allowance EXCEPT !["router"] = Nothing]
  /\ nextAction
  /\ UNCHANGED <<phase, ctx>>

--------------------------------------------------------------------------------
(* A call from its first to its last check *)

begins(mode, plan, principal, reserved) ==
  /\ call.pc = "idle" /\ phase = "none"
  /\ \A t \in Token : bal[t] <= MaxHeld
  /\ validPlan(plan)
  /\ phase' = mode
  /\ call' = [pc |-> IF mode = "inventory" THEN "act" ELSE "loan", mode |-> mode, plan |-> plan,
              principal |-> principal, base |-> baselines(plan, reserved), before |-> bal,
              at |-> 1, amounts |-> Nothing, outer |-> "none"]
  /\ UNCHANGED <<bal, allowance, ctx>>

ExecuteWithInventory(plan, principal) ==
  principal <= bal[plan.settlement] /\ begins("inventory", plan, principal, principal)
ExecuteWithFlash(plan, principal) == principal # 0 /\ begins("flash", plan, principal, 0)
QuoteWithFlash(plan, principal) == principal # 0 /\ begins("quote", plan, principal, 0)

(* Morpho lends, and calls back. *)
OnMorphoFlashLoan ==
  /\ call.pc = "loan" /\ phase \in {"flash", "quote"}
  /\ bal' = [bal EXCEPT ![call.plan.settlement] = @ + call.principal]
  /\ call' = [call EXCEPT !.pc = "act"]
  /\ UNCHANGED <<allowance, phase, ctx>>

ran == call.pc = "act" /\ call.at = Len(call.plan.actions) + 1

validResiduals ==
  \A t \in tracked(call.plan) \ {call.plan.settlement} : available(t) <= call.plan.tracked[t]

(* Mutant: the principal counts as profit. *)
requiredAbove == call.base[call.plan.settlement] + call.plan.minimumProfit

required == call.base[call.plan.settlement] + call.principal + call.plan.minimumProfit

enough == validResiduals /\ bal[call.plan.settlement] >= required

FinishInventory ==
  /\ ran /\ call.mode = "inventory" /\ enough
  /\ phase' = "none"
  /\ call' = NoCall
  /\ UNCHANGED <<bal, allowance, ctx>>

(* The callback ends by letting Morpho pull the loan back; a quote never does. *)
ApproveRepayment ==
  /\ ran /\ call.mode = "flash" /\ enough
  /\ allowance' = [allowance EXCEPT !["morpho"] = just(call.plan.settlement, call.principal)]
  /\ call' = [call EXCEPT !.pc = "repay"]
  /\ UNCHANGED <<bal, phase, ctx>>

FinishFlash ==
  /\ call.pc = "repay"
  /\ allowance["morpho"][call.plan.settlement] >= call.principal
  /\ bal' = moved(just(call.plan.settlement, call.principal), Nothing)
  /\ bal'[call.plan.settlement] >= call.before[call.plan.settlement] + call.plan.minimumProfit
  /\ allowance' = [allowance EXCEPT !["morpho"] = Nothing]
  /\ phase' = "none"
  /\ call' = NoCall
  /\ UNCHANGED ctx

(* A check that fails, a venue or a token that refuses, a quote's own answer:   *)
(* nothing of the call remains.                                                 *)
Reverts ==
  /\ call.pc # "idle"
  /\ bal' = call.before
  /\ allowance' = NoAllowance
  /\ phase' = "none"
  /\ ctx' = NoContext
  /\ call' = NoCall

Withdraw(t, amount) ==
  /\ call.pc = "idle" /\ phase = "none"
  /\ amount <= bal[t]
  /\ bal' = [bal EXCEPT ![t] = @ - amount]
  /\ UNCHANGED <<allowance, phase, ctx, call>>

Begin ==
  \E plan \in Plan, principal \in Principal :
    \/ ExecuteWithInventory(plan, principal)
    \/ ExecuteWithFlash(plan, principal)
    \/ QuoteWithFlash(plan, principal)

ExecNext ==
  \/ Begin
  \/ OnMorphoFlashLoan \/ SwapV2 \/ SwapV3 \/ V3Callback \/ SwapV4 \/ UnlockCallback
  \/ ApproveEarn \/ RouteEarn
  \/ FinishInventory \/ ApproveRepayment \/ FinishFlash \/ Reverts
  \/ \E t \in Token : \E amount \in 1..bal[t] : Withdraw(t, amount)

ExecSpec == ExecInit /\ [][ExecNext]_execVars

--------------------------------------------------------------------------------
(* Properties *)

(* The plans are plans, and the pools trade tokens. *)
PlanAction(a) ==
  /\ a.kind \in DOMAIN Pools /\ a.amount \in Nat
  /\ {a.in, a.out} \subseteq Token \union {NoToken}

ExecAssumption ==
  /\ NoToken \notin Token
  /\ Principal \subseteq Nat /\ MaxOut \in Nat
  /\ \A k \in DOMAIN Pools : \A p \in DOMAIN Pools[k] : Pools[k][p] \subseteq Token
  /\ \A p \in Plan :
       /\ p.settlement \in Token /\ p.minimumProfit \in Nat
       /\ tracked(p) \subseteq Token /\ \A t \in tracked(p) : p.tracked[t] \in Nat
       /\ Len(p.actions) \in Nat /\ DOMAIN p.actions = 1..Len(p.actions)
       /\ \A i \in DOMAIN p.actions : PlanAction(p.actions[i])

Call == [pc : {"loan", "act", "v3", "v4", "earn", "repay"}, mode : {"inventory", "flash", "quote"},
         plan : Plan, principal : Principal, base : [Token -> Nat],
         before : [Token -> Nat], at : Nat \ {0}, amounts : [Token -> Nat],
         outer : {"none", "inventory", "flash", "quote"}]

(* Balances stay natural numbers in every step of a call. *)
ExecTypeOK ==
  /\ bal \in [Token -> Nat]
  /\ allowance \in [Spender -> [Token -> Nat]]
  /\ phase \in {"none", "inventory", "flash", "quote", "v4Unlock"}
  /\ ctx \in [token : Token \union {NoToken}, amount : Nat]
  /\ call \in {NoCall} \union Call

(* In no step of a call, foreign code's included, does the executor hold less   *)
(* of a tracked token than the baseline it set aside, and it touches no other.  *)
Protected ==
  call.pc # "idle" =>
    /\ \A t \in tracked(call.plan) : bal[t] >= call.base[t]
    /\ \A t \in Token \ tracked(call.plan) : bal[t] = call.before[t]

(* Outside a call no spender holds an allowance, and the transient phase and    *)
(* context are clear; inside one, no spender may pull what a baseline covers.   *)
Allowed ==
  /\ call.pc = "idle" => allowance = NoAllowance /\ phase = "none" /\ ctx = NoContext
  /\ call.pc # "idle" => \A s \in Spender : \A t \in Token :
       allowance[s][t] > 0 => t \in tracked(call.plan) /\ allowance[s][t] <= available(t)

(* Seen from outside, a call earns its floor and protects the rest, or does     *)
(* nothing.                                                                     *)
heldOutside == IF call.pc = "idle" THEN bal ELSE call.before

residualOf(p) == [t \in Token |-> IF t \in tracked(p) THEN p.tracked[t] ELSE 0]
promiseOf(p) == [settlement |-> p.settlement, floor |-> p.minimumProfit, residual |-> residualOf(p)]

Outside == INSTANCE AtomicCall
  WITH held <- heldOutside, open <- call.pc # "idle",
       Promise <- {promiseOf(p) : p \in Plan}

AtomicSpec == Outside!AtomicSpec
================================================================================
