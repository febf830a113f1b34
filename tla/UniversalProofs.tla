---------------------------- MODULE UniversalProofs ----------------------------
(* The universal executor's calls are atomic, for any plans, tokens and pools:  *)
(* from outside, a call earns its floor and takes nothing else away, or does    *)
(* nothing.                                                                     *)
EXTENDS UniversalExecutor, TLAPS

(* What a call keeps while it runs.  The baselines are what was held, less the  *)
(* principal it may spend; no step takes a token below its baseline or touches  *)
(* one the plan does not track, because what an action in foreign hands may     *)
(* still spend lies above the baseline; and a repayment starts from enough.     *)
Running ==
  /\ call.plan \in Plan /\ validPlan(call.plan)
  /\ call.principal \in Principal
  /\ call.mode \in {"inventory", "flash", "quote"}
  /\ call.before \in [Token -> Nat] /\ call.base \in [Token -> Int] /\ call.at \in Nat \ {0}
  /\ call.base = [call.before EXCEPT ![call.plan.settlement] =
                    @ - (IF call.mode = "inventory" THEN call.principal ELSE 0)]

Spending ==
  /\ call.amounts \in [Token -> Nat]
  /\ \A t \in tracked(call.plan) : bal[t] - call.amounts[t] >= call.base[t]
  /\ \A t \in Token \ tracked(call.plan) : call.amounts[t] = 0

Foreign ==
  /\ call.pc \in {"v3", "v4", "earn"} => call.at \in DOMAIN call.plan.actions /\ canonical /\ Spending
  /\ call.pc = "v3" => action.kind = "v3" /\ ctx.token = action.in /\ ctx.amount = call.amounts[action.in]
  /\ call.pc = "v4" => action.kind = "v4"
  /\ call.pc = "earn" => action.kind \in EarnKinds
  /\ call.pc = "repay" => call.mode = "flash" /\ enough

CallInv ==
  /\ bal \in [Token -> Int]
  /\ call.pc \in {"idle", "loan", "act", "v3", "v4", "earn", "repay"}
  /\ call.pc = "idle" => call = NoCall
  /\ call.pc # "idle" => Running /\ Protected /\ Foreign

(* No call runs at first. *)
LEMMA CallInit == ExecInit => CallInv
  BY DEF ExecInit, CallInv, NoCall

(* What is spent above the baselines and paid in tracked tokens keeps both the  *)
(* baselines and the rest.                                                      *)
LEMMA MovedProtects ==
  ASSUME NEW spent \in [Token -> Nat], NEW gained \in [Token -> Nat],
         ExecAssumption, bal \in [Token -> Int], Running, Protected, call.pc # "idle",
         \A t \in tracked(call.plan) : bal[t] - spent[t] >= call.base[t],
         \A t \in Token \ tracked(call.plan) : spent[t] = 0 /\ gained[t] = 0,
         bal' = moved(spent, gained), call'.base = call.base, call'.before = call.before,
         call'.plan = call.plan
  PROVE  bal' \in [Token -> Int] /\ Protected'
<1>1. bal' \in [Token -> Int]
  BY DEF moved
<1>2. tracked(call.plan) \subseteq Token
  BY DEF ExecAssumption, Running
<1>3. tracked(call.plan)' = tracked(call.plan)
  BY DEF tracked
<1>4. \A t \in tracked(call.plan) : bal'[t] >= call.base[t]
  BY <1>2 DEF moved, Running
<1>5. \A t \in Token \ tracked(call.plan) : bal'[t] = call.before[t]
  BY DEF moved, Protected, Running
<1> QED
  BY <1>1, <1>3, <1>4, <1>5 DEF Protected, tracked

(* An action that may run takes tracked tokens only, above their baselines.     *)
LEMMA TakesAvailable ==
  ASSUME ExecAssumption, CallInv, NEW kinds, runs(kinds)
  PROVE  /\ Running /\ Protected /\ call.pc = "act" /\ call.at \in DOMAIN call.plan.actions
         /\ action.kind \in kinds /\ canonical
         /\ availableAmounts \in [Token -> Nat]
         /\ \A t \in tracked(call.plan) : bal[t] - availableAmounts[t] >= call.base[t]
         /\ \A t \in Token \ tracked(call.plan) : availableAmounts[t] = 0
<1>1. Running /\ Protected /\ call.pc = "act" /\ action.kind \in kinds /\ canonical /\ suffices
  BY DEF runs, CallInv
<1>2. call.plan \in Plan /\ call.at \in DOMAIN call.plan.actions
  BY <1>1 DEF runs, ExecAssumption, Running
<1>3. PlanAction(action) /\ tracked(call.plan) \subseteq Token
  BY <1>2 DEF ExecAssumption, action
<1>4. \A t \in tokensIn : t \in tracked(call.plan) /\ available(t) > 0 /\ amountFor(t) <= available(t)
  BY <1>1 DEF suffices
<1>5. \A t \in Token : bal[t] \in Int /\ call.base[t] \in Int /\ available(t) = bal[t] - call.base[t]
  BY <1>1 DEF CallInv, Running, available
<1>6. \A t \in tokensIn : t \in Token /\ amountFor(t) \in Nat /\ bal[t] - amountFor(t) >= call.base[t]
  <2> SUFFICES ASSUME NEW t \in tokensIn
               PROVE  t \in Token /\ amountFor(t) \in Nat /\ bal[t] - amountFor(t) >= call.base[t]
    OBVIOUS
  <2>1. t \in Token
    BY <1>3, <1>4
  <2>2. available(t) \in Nat /\ amountFor(t) <= available(t)
    BY <1>4, <1>5, <2>1
  <2>3. amountFor(t) \in Nat
    BY <1>3, <2>2 DEF amountFor, PlanAction
  <2> QED
    BY <1>5, <2>1, <2>2, <2>3
<1>7. \A t \in tracked(call.plan) : bal[t] >= call.base[t]
  BY <1>1 DEF Protected
<1>8. availableAmounts \in [Token -> Nat]
  BY <1>6 DEF availableAmounts
<1>9. \A t \in tracked(call.plan) : bal[t] - availableAmounts[t] >= call.base[t]
  <2> SUFFICES ASSUME NEW t \in tracked(call.plan)
               PROVE  bal[t] - availableAmounts[t] >= call.base[t]
    OBVIOUS
  <2>1. t \in Token
    BY <1>3
  <2>2. CASE t \in tokensIn
    BY <1>6, <2>1, <2>2 DEF availableAmounts
  <2>3. CASE t \notin tokensIn
    BY <1>5, <1>7, <2>1, <2>3 DEF availableAmounts
  <2> QED
    BY <2>2, <2>3
<1>10. \A t \in Token \ tracked(call.plan) : availableAmounts[t] = 0
  BY <1>4 DEF availableAmounts
<1> QED
  BY <1>1, <1>2, <1>8, <1>9, <1>10

(* An action pays tracked tokens only. *)
LEMMA PaysTracked ==
  ASSUME ExecAssumption, Running, call.at \in DOMAIN call.plan.actions, canonical,
         action.kind \in {"v2", "v3", "v4", "earnSwap", "earnAdd"}
  PROVE  action.out \in tracked(call.plan) /\ action.out \in Token
<1>1. requiresTracked(call.plan, action)
  BY DEF Running, validPlan, action
<1>2. tracked(call.plan) \subseteq Token
  BY DEF ExecAssumption, Running
<1>3. CASE action.kind = "earnAdd"
  BY <1>1, <1>2, <1>3 DEF requiresTracked, canonical
<1>4. CASE action.kind # "earnAdd"
  BY <1>1, <1>2, <1>4 DEF requiresTracked
<1> QED
  BY <1>3, <1>4

(* So what a venue credits for one output is a gain in a tracked token.         *)
LEMMA GainIsTracked ==
  ASSUME ExecAssumption, Running, NEW t \in tracked(call.plan), NEW n \in 0..MaxOut
  PROVE  just(t, n) \in [Token -> Nat] /\ \A u \in Token \ tracked(call.plan) : just(t, n)[u] = 0
  BY DEF just, Nothing, ExecAssumption, Running

(* An action that completes passes to the next one: only the place changes.     *)
LEMMA NextActionKeeps ==
  ASSUME Running, call.pc \in {"act", "v3", "v4", "earn"}, nextAction,
         bal' \in [Token -> Int], Protected'
  PROVE  CallInv'
<1>1. /\ call'.pc = "act" /\ call'.at = call.at + 1 /\ call'.plan = call.plan
      /\ call'.principal = call.principal /\ call'.mode = call.mode
      /\ call'.before = call.before /\ call'.base = call.base
  BY DEF nextAction
<1>2. Running'
  BY <1>1 DEF Running, validPlan, tracked
<1> QED
  BY <1>1, <1>2 DEF CallInv, Foreign

(* An action in one piece. *)
LEMMA SwapV2Keeps == ExecAssumption /\ CallInv /\ SwapV2 => CallInv'
<1> SUFFICES ASSUME ExecAssumption, CallInv, SwapV2 PROVE CallInv'
  OBVIOUS
<1>1. runs({"v2"})
  BY DEF SwapV2
<1>2. /\ Running /\ Protected /\ call.pc = "act" /\ call.at \in DOMAIN call.plan.actions
      /\ action.kind \in {"v2"} /\ canonical /\ availableAmounts \in [Token -> Nat]
      /\ \A t \in tracked(call.plan) : bal[t] - availableAmounts[t] >= call.base[t]
      /\ \A t \in Token \ tracked(call.plan) : availableAmounts[t] = 0
  BY <1>1, TakesAvailable
<1>3. action.out \in tracked(call.plan)
  BY <1>2, PaysTracked
<1>4. PICK credited \in 0..MaxOut : bal' = moved(availableAmounts, just(action.out, credited))
  BY DEF SwapV2, settlesOutput
<1>5. /\ just(action.out, credited) \in [Token -> Nat]
      /\ \A t \in Token \ tracked(call.plan) : just(action.out, credited)[t] = 0
  BY <1>2, <1>3, GainIsTracked
<1>6. nextAction /\ call'.base = call.base /\ call'.before = call.before /\ call'.plan = call.plan
  BY DEF SwapV2, nextAction
<1>7. bal \in [Token -> Int]
  BY DEF CallInv
<1>8. bal' \in [Token -> Int] /\ Protected'
  BY <1>2, <1>4, <1>5, <1>6, <1>7, MovedProtects
<1> QED
  BY <1>2, <1>6, <1>8, NextActionKeeps

(* Control goes to foreign code with an amount to spend: a swap is asked for,   *)
(* the PoolManager unlocked, the router approved.                               *)
LEMMA HandsOver ==
  ASSUME ExecAssumption, CallInv, NEW kinds, runs(kinds), NEW pc \in {"v3", "v4", "earn"}, bal' = bal,
         pc = "v3" => action.kind = "v3" /\ ctx' = [token |-> action.in, amount |-> availableAmounts[action.in]],
         pc = "v4" => action.kind = "v4", pc = "earn" => action.kind \in EarnKinds,
         call'.pc = pc, call'.amounts = availableAmounts, call'.at = call.at,
         call'.plan = call.plan, call'.principal = call.principal, call'.mode = call.mode,
         call'.before = call.before, call'.base = call.base
  PROVE  CallInv'
<1>1. /\ Running /\ Protected /\ call.pc = "act" /\ call.at \in DOMAIN call.plan.actions
      /\ action.kind \in kinds /\ canonical /\ availableAmounts \in [Token -> Nat]
      /\ \A t \in tracked(call.plan) : bal[t] - availableAmounts[t] >= call.base[t]
      /\ \A t \in Token \ tracked(call.plan) : availableAmounts[t] = 0
  BY TakesAvailable
<1>2. action' = action /\ canonical'
  BY <1>1 DEF action, canonical, tracked
<1>3. Running'
  BY <1>1 DEF Running
<1>4. Protected'
  BY <1>1 DEF Protected, tracked
<1>5. Spending'
  BY <1>1 DEF Spending, tracked
<1>6. bal' \in [Token -> Int]
  BY DEF CallInv
<1> QED
  BY <1>1, <1>2, <1>3, <1>4, <1>5, <1>6 DEF CallInv, Foreign

LEMMA SwapV3Keeps == ExecAssumption /\ CallInv /\ SwapV3 => CallInv'
<1> SUFFICES ASSUME ExecAssumption, CallInv, SwapV3 PROVE CallInv'
  OBVIOUS
<1>1. runs({"v3"}) /\ action.kind = "v3"
  BY DEF SwapV3, runs
<1>2. /\ call'.pc = "v3" /\ call'.amounts = availableAmounts /\ call'.at = call.at
      /\ call'.plan = call.plan /\ call'.principal = call.principal /\ call'.mode = call.mode
      /\ call'.before = call.before /\ call'.base = call.base /\ bal' = bal
      /\ ctx' = [token |-> action.in, amount |-> availableAmounts[action.in]]
  BY DEF SwapV3, goesTo
<1> QED
  BY <1>1, <1>2, HandsOver

LEMMA SwapV4Keeps == ExecAssumption /\ CallInv /\ SwapV4 => CallInv'
<1> SUFFICES ASSUME ExecAssumption, CallInv, SwapV4 PROVE CallInv'
  OBVIOUS
<1>1. runs({"v4"}) /\ action.kind = "v4"
  BY DEF SwapV4, runs
<1>2. /\ call'.pc = "v4" /\ call'.amounts = availableAmounts /\ call'.at = call.at
      /\ call'.plan = call.plan /\ call'.principal = call.principal /\ call'.mode = call.mode
      /\ call'.before = call.before /\ call'.base = call.base /\ bal' = bal
  BY DEF SwapV4
<1> QED
  BY <1>1, <1>2, HandsOver

LEMMA ApproveEarnKeeps == ExecAssumption /\ CallInv /\ ApproveEarn => CallInv'
<1> SUFFICES ASSUME ExecAssumption, CallInv, ApproveEarn PROVE CallInv'
  OBVIOUS
<1>1. runs(EarnKinds) /\ action.kind \in EarnKinds
  BY DEF ApproveEarn, runs
<1>2. /\ call'.pc = "earn" /\ call'.amounts = availableAmounts /\ call'.at = call.at
      /\ call'.plan = call.plan /\ call'.principal = call.principal /\ call'.mode = call.mode
      /\ call'.before = call.before /\ call'.base = call.base /\ bal' = bal
  BY DEF ApproveEarn, goesTo
<1> QED
  BY <1>1, <1>2, HandsOver

(* Foreign code takes no more than it was handed, and pays tracked tokens.      *)
LEMMA CompletesKeeps ==
  ASSUME ExecAssumption, CallInv, call.pc \in {"v3", "v4", "earn"},
         NEW spent \in [Token -> Nat], NEW gained \in [Token -> Nat],
         \A t \in Token : spent[t] <= call.amounts[t],
         \A t \in Token \ tracked(call.plan) : gained[t] = 0,
         bal' = moved(spent, gained), nextAction
  PROVE  CallInv'
<1>1. Running /\ Protected /\ Spending
  BY DEF CallInv, Foreign
<1>2. tracked(call.plan) \subseteq Token
  BY <1>1 DEF Running, ExecAssumption
<1>3. bal \in [Token -> Int] /\ call.base \in [Token -> Int]
  BY <1>1 DEF CallInv, Running
<1>4. \A t \in tracked(call.plan) : bal[t] - spent[t] >= call.base[t]
  BY <1>1, <1>2, <1>3 DEF Spending
<1>5. \A t \in Token \ tracked(call.plan) : spent[t] = 0
  BY <1>1 DEF Spending
<1>6. call'.base = call.base /\ call'.before = call.before /\ call'.plan = call.plan
  BY DEF nextAction
<1>7. bal' \in [Token -> Int] /\ Protected'
  BY <1>1, <1>3, <1>4, <1>5, <1>6, MovedProtects
<1> QED
  BY <1>1, <1>7, NextActionKeeps

LEMMA V3CallbackKeeps == ExecAssumption /\ CallInv /\ V3Callback => CallInv'
<1> SUFFICES ASSUME ExecAssumption, CallInv, V3Callback PROVE CallInv'
  OBVIOUS
<1>1. /\ Running /\ Spending /\ call.at \in DOMAIN call.plan.actions /\ canonical /\ action.kind = "v3"
      /\ ctx.token = action.in /\ ctx.amount = call.amounts[action.in]
  BY DEF V3Callback, CallInv, Foreign
<1>2. action.out \in tracked(call.plan)
  BY <1>1, PaysTracked
<1>3. action.in \in Token
  BY <1>1 DEF Running, validPlan, requiresTracked, ExecAssumption, action
<1>4. PICK credited \in 0..MaxOut : bal' = moved(just(action.in, ctx.amount), just(action.out, credited))
  BY <1>1 DEF V3Callback, settlesOutput
<1>5. /\ just(action.out, credited) \in [Token -> Nat]
      /\ \A t \in Token \ tracked(call.plan) : just(action.out, credited)[t] = 0
  BY <1>1, <1>2, GainIsTracked
<1>6. /\ just(action.in, ctx.amount) \in [Token -> Nat]
      /\ \A t \in Token : just(action.in, ctx.amount)[t] <= call.amounts[t]
  BY <1>1, <1>3 DEF Spending, just, Nothing
<1>7. nextAction /\ call.pc = "v3"
  BY DEF V3Callback
<1> QED
  BY <1>4, <1>5, <1>6, <1>7, CompletesKeeps

LEMMA UnlockCallbackKeeps == ExecAssumption /\ CallInv /\ UnlockCallback => CallInv'
<1> SUFFICES ASSUME ExecAssumption, CallInv, UnlockCallback PROVE CallInv'
  OBVIOUS
<1>1. Running /\ Spending /\ call.at \in DOMAIN call.plan.actions /\ canonical /\ action.kind = "v4"
  BY DEF UnlockCallback, CallInv, Foreign
<1>2. action.out \in tracked(call.plan)
  BY <1>1, PaysTracked
<1>3. PICK credited \in 0..MaxOut : bal' = moved(call.amounts, just(action.out, credited))
  BY DEF UnlockCallback, settlesOutput
<1>4. /\ just(action.out, credited) \in [Token -> Nat]
      /\ \A t \in Token \ tracked(call.plan) : just(action.out, credited)[t] = 0
  BY <1>1, <1>2, GainIsTracked
<1>5. call.amounts \in [Token -> Nat] /\ \A t \in Token : call.amounts[t] <= call.amounts[t]
  BY <1>1 DEF Spending
<1>6. nextAction /\ call.pc = "v4"
  BY DEF UnlockCallback
<1> QED
  BY <1>3, <1>4, <1>5, <1>6, CompletesKeeps

LEMMA RouteEarnKeeps == ExecAssumption /\ CallInv /\ RouteEarn => CallInv'
<1> SUFFICES ASSUME ExecAssumption, CallInv, RouteEarn PROVE CallInv'
  OBVIOUS
<1>1. Running /\ Spending /\ call.at \in DOMAIN call.plan.actions /\ canonical /\ action.kind \in EarnKinds
  BY DEF RouteEarn, CallInv, Foreign
<1>2. PICK outs \in earnOutputs : bal' = moved(call.amounts, outs)
  BY DEF RouteEarn
<1>3. outs \in [Token -> Nat] /\ \A t \in Token \ tracked(call.plan) : outs[t] = 0
  <2>1. CASE action.kind = "earnRemove"
    <3>1. outs \in [Token -> 0..MaxOut] /\ \A t \in Token : outs[t] > 0 => t \in tracked(call.plan)
      BY <1>1, <2>1 DEF earnOutputs, canonical
    <3> QED
      BY <3>1 DEF ExecAssumption
  <2>2. CASE action.kind # "earnRemove"
    <3>1. action.out \in tracked(call.plan)
      BY <1>1, <2>2, PaysTracked DEF EarnKinds
    <3>2. PICK credited \in 0..MaxOut : outs = just(action.out, credited)
      BY <2>2 DEF earnOutputs
    <3> QED
      BY <1>1, <3>1, <3>2, GainIsTracked
  <2> QED
    BY <2>1, <2>2
<1>4. call.amounts \in [Token -> Nat] /\ \A t \in Token : call.amounts[t] <= call.amounts[t]
  BY <1>1 DEF Spending
<1>5. nextAction /\ call.pc = "earn"
  BY DEF RouteEarn
<1> QED
  BY <1>2, <1>3, <1>4, <1>5, CompletesKeeps

(* A call begins with what is held as its baseline, but for the principal.      *)
LEMMA BeginsKeeps ==
  ASSUME ExecAssumption, CallInv, NEW plan \in Plan, NEW principal \in Principal,
         NEW mode \in {"inventory", "flash", "quote"}, NEW reserved,
         reserved = (IF mode = "inventory" THEN principal ELSE 0),
         reserved <= bal[plan.settlement],
         begins(mode, plan, principal, reserved), bal \in [Token -> Nat]
  PROVE  CallInv'
<1>1. /\ call' = [pc |-> IF mode = "inventory" THEN "act" ELSE "loan", mode |-> mode, plan |-> plan,
                  principal |-> principal, base |-> baselines(plan, reserved), before |-> bal,
                  at |-> 1, amounts |-> Nothing, outer |-> "none"]
      /\ validPlan(plan) /\ bal' = bal
  BY DEF begins
<1>2. principal \in Nat /\ plan.settlement \in Token /\ tracked(plan) \subseteq Token
  BY DEF ExecAssumption
<1>3. call'.base = [bal EXCEPT ![plan.settlement] = @ - reserved] /\ call'.base \in [Token -> Int]
  BY <1>1, <1>2 DEF baselines
<1>4. Running'
  BY <1>1, <1>3 DEF Running
<1>5. Protected'
  <2>1. \A t \in tracked(plan) : bal[t] >= call'.base[t]
    BY <1>2, <1>3
  <2> QED
    BY <1>1, <2>1 DEF Protected
<1>6. Foreign'
  BY <1>1 DEF Foreign
<1> QED
  BY <1>1, <1>4, <1>5, <1>6 DEF CallInv

(* Outside a call the balances are natural numbers. *)
HeldInv == heldOutside \in [Token -> Nat]

LEMMA BeginKeeps == ExecAssumption /\ CallInv /\ HeldInv /\ Begin => CallInv'
<1> SUFFICES ASSUME ExecAssumption, CallInv, HeldInv, Begin PROVE CallInv'
  OBVIOUS
<1>1. PICK plan \in Plan, principal \in Principal :
        \/ ExecuteWithInventory(plan, principal)
        \/ ExecuteWithFlash(plan, principal)
        \/ QuoteWithFlash(plan, principal)
  BY DEF Begin
<1>2. call.pc = "idle" /\ bal \in [Token -> Nat]
  BY <1>1 DEF ExecuteWithInventory, ExecuteWithFlash, QuoteWithFlash, begins, HeldInv, heldOutside
<1>3. plan.settlement \in Token /\ 0 <= bal[plan.settlement]
  BY <1>2 DEF ExecAssumption
<1>4. CASE ExecuteWithInventory(plan, principal)
  BY <1>2, <1>4, BeginsKeeps DEF ExecuteWithInventory
<1>5. CASE ExecuteWithFlash(plan, principal)
  BY <1>2, <1>3, <1>5, BeginsKeeps DEF ExecuteWithFlash
<1>6. CASE QuoteWithFlash(plan, principal)
  BY <1>2, <1>3, <1>6, BeginsKeeps DEF QuoteWithFlash
<1> QED
  BY <1>1, <1>4, <1>5, <1>6

LEMMA LoanKeeps == ExecAssumption /\ CallInv /\ OnMorphoFlashLoan => CallInv'
<1> SUFFICES ASSUME ExecAssumption, CallInv, OnMorphoFlashLoan PROVE CallInv'
  OBVIOUS
<1>1. Running /\ Protected /\ call.pc = "loan" /\ bal \in [Token -> Int]
  BY DEF OnMorphoFlashLoan, CallInv
<1>2. /\ bal' = [bal EXCEPT ![call.plan.settlement] = @ + call.principal]
      /\ call'.pc = "act" /\ call'.at = call.at /\ call'.plan = call.plan
      /\ call'.principal = call.principal /\ call'.mode = call.mode
      /\ call'.before = call.before /\ call'.base = call.base
  BY DEF OnMorphoFlashLoan
<1>3. /\ call.principal \in Nat /\ call.plan.settlement \in tracked(call.plan)
      /\ tracked(call.plan) \subseteq Token
  BY <1>1 DEF Running, ExecAssumption, validPlan
<1>4. bal' \in [Token -> Int] /\ \A t \in Token : bal'[t] >= bal[t]
  BY <1>1, <1>2, <1>3
<1>5. \A t \in Token \ tracked(call.plan) : bal'[t] = bal[t]
  BY <1>1, <1>2, <1>3
<1>6. \A t \in tracked(call.plan) : bal'[t] >= call.base[t]
  BY <1>1, <1>3, <1>4 DEF Protected, Running
<1>7. Protected'
  BY <1>1, <1>2, <1>5, <1>6 DEF Protected, tracked
<1>8. Running'
  BY <1>1, <1>2 DEF Running
<1> QED
  BY <1>2, <1>4, <1>7, <1>8 DEF CallInv, Foreign

LEMMA ApproveRepaymentKeeps == ExecAssumption /\ CallInv /\ ApproveRepayment => CallInv'
<1> SUFFICES ASSUME ExecAssumption, CallInv, ApproveRepayment PROVE CallInv'
  OBVIOUS
<1>1. Running /\ Protected /\ bal \in [Token -> Int] /\ enough /\ call.mode = "flash"
  BY DEF ApproveRepayment, CallInv, ran
<1>2. /\ bal' = bal /\ call'.pc = "repay" /\ call'.at = call.at /\ call'.plan = call.plan
      /\ call'.principal = call.principal /\ call'.mode = call.mode
      /\ call'.before = call.before /\ call'.base = call.base
  BY DEF ApproveRepayment
<1>3. Running' /\ call'.mode = "flash"
  BY <1>1, <1>2 DEF Running
<1>4. Protected'
  BY <1>1, <1>2 DEF Protected, ApproveRepayment, ran, tracked
<1>5. enough'
  BY <1>1, <1>2 DEF enough, validResiduals, required, available, tracked
<1> QED
  BY <1>1, <1>2, <1>3, <1>4, <1>5 DEF CallInv, Foreign

(* Outside a call there is little to keep. *)
LEMMA IdleKeeps == CallInv /\ call' = NoCall /\ bal' \in [Token -> Int] => CallInv'
  BY DEF CallInv, NoCall

(* What was not the settlement token stays within its residual; what the plan   *)
(* does not track, as it was.                                                   *)
LEMMA RestProtected ==
  ASSUME ExecAssumption, Running, Protected, call.pc # "idle", bal \in [Token -> Int], validResiduals,
         NEW t \in Token \ {call.plan.settlement}
  PROVE  bal[t] >= call.before[t] /\ bal[t] <= call.before[t] + residualOf(call.plan)[t]
<1>1. call.base[t] = call.before[t] /\ call.before[t] \in Int
  BY DEF Running
<1>2. CASE t \in tracked(call.plan)
  <2>1. call.plan.tracked[t] \in Nat /\ residualOf(call.plan)[t] = call.plan.tracked[t]
    BY <1>2 DEF Running, ExecAssumption, residualOf
  <2>2. bal[t] >= call.base[t] /\ bal[t] - call.base[t] <= call.plan.tracked[t]
    BY <1>2 DEF Protected, validResiduals, available
  <2> QED
    BY <1>1, <2>1, <2>2
<1>3. CASE t \notin tracked(call.plan)
  BY <1>1, <1>3 DEF Protected, residualOf
<1> QED
  BY <1>2, <1>3

(* Ending on inventory: the principal came back, and the floor on top.          *)
LEMMA InventoryEarns == ExecAssumption /\ CallInv /\ FinishInventory => Outside!Earns(promiseOf(call.plan))
<1> SUFFICES ASSUME ExecAssumption, CallInv, FinishInventory PROVE Outside!Earns(promiseOf(call.plan))
  OBVIOUS
<1>1. Running /\ Protected /\ bal \in [Token -> Int] /\ enough /\ call.mode = "inventory"
      /\ call.pc = "act" /\ bal' = bal /\ call' = NoCall
  BY DEF FinishInventory, ran, CallInv
<1>2. heldOutside = call.before /\ heldOutside' = bal /\ call.pc # "idle" /\ call'.pc = "idle"
  BY <1>1 DEF heldOutside, NoCall
<1>3. call.plan.settlement \in Token /\ call.principal \in Nat /\ call.plan.minimumProfit \in Nat
  BY <1>1 DEF Running, ExecAssumption
<1>4. bal[call.plan.settlement] >= call.before[call.plan.settlement] + call.plan.minimumProfit
  <2>1. call.base[call.plan.settlement] = call.before[call.plan.settlement] - call.principal
    BY <1>1, <1>3 DEF Running
  <2>2. call.before[call.plan.settlement] \in Int
    BY <1>1, <1>3 DEF Running
  <2> QED
    BY <1>1, <1>3, <2>1, <2>2 DEF enough, required
<1>5. \A t \in Token \ {call.plan.settlement} :
        bal[t] >= call.before[t] /\ bal[t] <= call.before[t] + residualOf(call.plan)[t]
  BY <1>1, RestProtected DEF enough
<1> QED
  BY <1>2, <1>4, <1>5 DEF Outside!Earns, promiseOf

(* Ending on a loan: it is paid back out of what the actions brought in.        *)
LEMMA FlashEarns == ExecAssumption /\ CallInv /\ FinishFlash => Outside!Earns(promiseOf(call.plan))
<1> SUFFICES ASSUME ExecAssumption, CallInv, FinishFlash PROVE Outside!Earns(promiseOf(call.plan))
  OBVIOUS
<1>1. Running /\ Protected /\ bal \in [Token -> Int] /\ enough /\ call.pc = "repay"
      /\ bal' = moved(just(call.plan.settlement, call.principal), Nothing) /\ call' = NoCall
  BY DEF FinishFlash, CallInv, Foreign
<1>2. heldOutside = call.before /\ heldOutside' = bal' /\ call.pc # "idle" /\ call'.pc = "idle"
  BY <1>1 DEF heldOutside, NoCall
<1>3. bal'[call.plan.settlement] >= call.before[call.plan.settlement] + call.plan.minimumProfit
  BY DEF FinishFlash
<1>4. \A t \in Token \ {call.plan.settlement} : bal'[t] = bal[t]
  BY <1>1 DEF moved, just, Nothing
<1>5. \A t \in Token \ {call.plan.settlement} :
        bal[t] >= call.before[t] /\ bal[t] <= call.before[t] + residualOf(call.plan)[t]
  BY <1>1, RestProtected DEF enough
<1> QED
  BY <1>2, <1>3, <1>4, <1>5 DEF Outside!Earns, promiseOf

(* The steps of a call that do not end it are not seen from outside.            *)
Inside ==
  \/ OnMorphoFlashLoan \/ SwapV2 \/ SwapV3 \/ V3Callback \/ SwapV4 \/ UnlockCallback
  \/ ApproveEarn \/ RouteEarn \/ ApproveRepayment

LEMMA InsideUnseen == Inside => UNCHANGED <<heldOutside, call.pc # "idle">>
<1> SUFFICES ASSUME Inside PROVE UNCHANGED <<heldOutside, call.pc # "idle">>
  OBVIOUS
<1>1. call.pc # "idle" /\ call'.pc # "idle" /\ call'.before = call.before
  <2>1. CASE OnMorphoFlashLoan
    BY <2>1 DEF OnMorphoFlashLoan
  <2>2. CASE SwapV2
    BY <2>2 DEF SwapV2, runs, nextAction
  <2>3. CASE SwapV3
    BY <2>3 DEF SwapV3, runs, goesTo
  <2>4. CASE V3Callback
    BY <2>4 DEF V3Callback, nextAction
  <2>5. CASE SwapV4
    BY <2>5 DEF SwapV4, runs
  <2>6. CASE UnlockCallback
    BY <2>6 DEF UnlockCallback, nextAction
  <2>7. CASE ApproveEarn
    BY <2>7 DEF ApproveEarn, runs, goesTo
  <2>8. CASE RouteEarn
    BY <2>8 DEF RouteEarn, nextAction
  <2>9. CASE ApproveRepayment
    BY <2>9 DEF ApproveRepayment, ran
  <2> QED
    BY <2>1, <2>2, <2>3, <2>4, <2>5, <2>6, <2>7, <2>8, <2>9 DEF Inside
<1> QED
  BY <1>1 DEF heldOutside

LEMMA InsideKeeps == ExecAssumption /\ CallInv /\ Inside => CallInv'
  BY LoanKeeps, SwapV2Keeps, SwapV3Keeps, V3CallbackKeeps, SwapV4Keeps, UnlockCallbackKeeps,
     ApproveEarnKeeps, RouteEarnKeeps, ApproveRepaymentKeeps DEF Inside

(* The whole invariant, and its induction. *)
ExecInv == CallInv /\ HeldInv

LEMMA ExecInvInit == ExecAssumption /\ ExecInit => ExecInv
<1> SUFFICES ASSUME ExecAssumption, ExecInit PROVE ExecInv
  OBVIOUS
<1>1. call.pc = "idle" /\ bal \in [Token -> Nat]
  <2>1. bal \in [Token -> 0..MaxHeld] /\ call = NoCall
    BY DEF ExecInit
  <2> QED
    BY <2>1 DEF NoCall
<1> QED
  BY <1>1, CallInit DEF ExecInv, HeldInv, heldOutside, ExecInit, CallInv, NoCall

(* A call that ends well leaves natural numbers, as it earned. *)
LEMMA EarnsHeld ==
  ASSUME ExecAssumption, ExecInv, call.pc # "idle", call' = NoCall, bal' \in [Token -> Int],
         Outside!Earns(promiseOf(call.plan))
  PROVE  ExecInv'
<1>1. Running /\ heldOutside = call.before /\ heldOutside' = bal' /\ call.before \in [Token -> Nat]
  BY DEF ExecInv, CallInv, Running, heldOutside, NoCall
<1>2. call.plan.settlement \in Token /\ call.plan.minimumProfit \in Nat
  BY <1>1 DEF Running, ExecAssumption
<1>3. \A t \in Token : bal'[t] >= call.before[t]
  <2> SUFFICES ASSUME NEW t \in Token PROVE bal'[t] >= call.before[t]
    OBVIOUS
  <2>1. CASE t = call.plan.settlement
    BY <1>1, <1>2, <2>1 DEF Outside!Earns, promiseOf
  <2>2. CASE t # call.plan.settlement
    BY <1>1, <2>2 DEF Outside!Earns, promiseOf
  <2> QED
    BY <2>1, <2>2
<1>4. bal' \in [Token -> Nat]
  <2>1. \A t \in Token : bal'[t] \in Nat
    BY <1>1, <1>3
  <2> QED
    BY <2>1
<1> QED
  BY <1>1, <1>4, IdleKeeps DEF ExecInv, HeldInv

(* Each step keeps the invariant and is one of the abstract call's, or unseen.  *)
LEMMA ExecStep ==
  ASSUME ExecAssumption, ExecInv, [ExecNext]_execVars
  PROVE  ExecInv' /\ (Outside!AtomicNext \/ UNCHANGED <<heldOutside, call.pc # "idle">>)
<1>0. CallInv /\ HeldInv /\ bal \in [Token -> Int]
  BY DEF ExecInv, CallInv
<1>1. CASE Begin
  <2>1. CallInv'
    BY <1>0, <1>1, BeginKeeps
  <2>2. call.pc = "idle" /\ call'.pc # "idle" /\ call'.before = bal
    <3>1. PICK plan \in Plan, principal \in Principal :
            \/ ExecuteWithInventory(plan, principal)
            \/ ExecuteWithFlash(plan, principal)
            \/ QuoteWithFlash(plan, principal)
      BY <1>1 DEF Begin
    <3> QED
      BY <3>1 DEF ExecuteWithInventory, ExecuteWithFlash, QuoteWithFlash, begins
  <2>3. heldOutside' = heldOutside /\ Outside!Opens
    BY <2>2 DEF heldOutside, Outside!Opens
  <2> QED
    BY <1>0, <2>1, <2>3 DEF ExecInv, HeldInv, Outside!AtomicNext
<1>2. CASE Inside
  BY <1>0, <1>2, InsideKeeps, InsideUnseen DEF ExecInv, HeldInv
<1>3. CASE FinishInventory
  <2>1. Outside!Earns(promiseOf(call.plan)) /\ call.plan \in Plan
    BY <1>0, <1>3, InventoryEarns DEF FinishInventory, ran, CallInv, Running
  <2>2. call.pc # "idle" /\ call' = NoCall /\ bal' = bal
    BY <1>3 DEF FinishInventory, ran
  <2>3. promiseOf(call.plan) \in {promiseOf(p) : p \in Plan}
    BY <2>1
  <2> QED
    BY <1>0, <2>1, <2>2, <2>3, EarnsHeld DEF Outside!AtomicNext
<1>4. CASE FinishFlash
  <2>1. Outside!Earns(promiseOf(call.plan)) /\ call.plan \in Plan
    BY <1>0, <1>4, FlashEarns DEF FinishFlash, CallInv, Running
  <2>2. call.pc # "idle" /\ call' = NoCall
    BY <1>4 DEF FinishFlash
  <2>3. bal' \in [Token -> Int]
    <3>1. call.principal \in Principal
      BY <1>0, <2>2 DEF CallInv, Running
    <3>2. Principal \subseteq Nat
      BY DEF ExecAssumption
    <3>3. call.principal \in Nat
      BY <3>1, <3>2
    <3> QED
      BY <1>0, <1>4, <3>3 DEF FinishFlash, moved, just, Nothing
  <2>4. promiseOf(call.plan) \in {promiseOf(p) : p \in Plan}
    BY <2>1
  <2> QED
    BY <2>1, <2>2, <2>3, <2>4, EarnsHeld DEF Outside!AtomicNext
<1>5. CASE Reverts
  <2>1. call.pc # "idle" /\ call'.pc = "idle" /\ call' = NoCall /\ bal' = call.before
    BY <1>5 DEF Reverts, NoCall
  <2>2. heldOutside' = heldOutside /\ Outside!DoesNothing
    BY <2>1 DEF heldOutside, Outside!DoesNothing
  <2>3. bal' \in [Token -> Int]
    BY <1>0, <2>1 DEF CallInv, Running
  <2> QED
    BY <1>0, <2>1, <2>2, <2>3, IdleKeeps DEF ExecInv, HeldInv, Outside!AtomicNext
<1>6. CASE \E t \in Token : \E amount \in 1..bal[t] : Withdraw(t, amount)
  <2>0. PICK t \in Token : \E amount \in 1..bal[t] : Withdraw(t, amount)
    BY <1>6
  <2>1. PICK amount \in 1..bal[t] : Withdraw(t, amount)
    BY <2>0
  <2>2. /\ call.pc = "idle" /\ call = NoCall /\ call' = NoCall /\ call'.pc = "idle"
        /\ bal \in [Token -> Nat] /\ bal' = [bal EXCEPT ![t] = @ - amount]
    BY <1>0, <2>1 DEF Withdraw, CallInv, HeldInv, heldOutside, NoCall
  <2>3. bal' \in [Token -> Nat]
    BY <2>2
  <2>4. heldOutside = bal /\ heldOutside' = bal' /\ Outside!Withdrawn(t, amount) /\ amount \in 0..bal[t]
    BY <2>2 DEF heldOutside, Outside!Withdrawn
  <2> QED
    BY <2>2, <2>3, <2>4, IdleKeeps DEF ExecInv, HeldInv, Outside!AtomicNext
<1>7. CASE UNCHANGED execVars
  <2>1. heldOutside' = heldOutside /\ (call.pc # "idle")' = (call.pc # "idle")
    BY <1>7 DEF execVars, heldOutside
  <2>2. CallInv'
    BY <1>0, <1>7 DEF execVars, CallInv, Running, Protected, Foreign, Spending, enough, validResiduals,
         required, available, canonical, action, tracked
  <2> QED
    BY <1>0, <2>1, <2>2 DEF ExecInv, HeldInv
<1> QED
  BY <1>1, <1>2, <1>3, <1>4, <1>5, <1>6, <1>7 DEF ExecNext, Inside

--------------------------------------------------------------------------------
(* The allowances, the phase and the context.  Nothing is open but what the     *)
(* point of the call needs: the input of a V3 swap in its context, the input of *)
(* an Earn action and the repayment in an allowance, and during an unlock the   *)
(* phase to hand back.                                                          *)
Opened ==
  /\ call.pc = "idle" => phase = "none"
  /\ call.pc \notin {"idle", "v4"} => phase = call.mode
  /\ call.pc = "v4" => phase = "v4Unlock" /\ call.outer = call.mode
  /\ call.pc # "v3" => ctx = NoContext
  /\ call.pc \notin {"earn", "repay"} => allowance = NoAllowance
  /\ call.pc = "earn" => allowance = [NoAllowance EXCEPT !["router"] = call.amounts]
  /\ call.pc = "repay" =>
       allowance = [NoAllowance EXCEPT !["morpho"] = just(call.plan.settlement, call.principal)]

GuardInv == call \in {NoCall} \union Call /\ ctx \in [token : Token \union {NoToken}, amount : Nat] /\ Opened

LEMMA GuardInit == ExecInit => GuardInv
  BY DEF ExecInit, GuardInv, Opened, NoContext, NoCall

LEMMA RunningCall == ASSUME GuardInv, call.pc # "idle" PROVE call \in Call
  BY DEF GuardInv, NoCall

(* What an action takes is a natural number of each token.                      *)
LEMMA HandsOverGuarded ==
  ASSUME ExecAssumption, CallInv, GuardInv, SwapV3 \/ SwapV4 \/ ApproveEarn
  PROVE  GuardInv'
<1>1. /\ call.pc = "act" /\ call \in Call /\ availableAmounts \in [Token -> Nat]
      /\ phase = call.mode /\ ctx = NoContext /\ allowance = NoAllowance
      /\ call.at \in DOMAIN call.plan.actions /\ Running
  <2>1. PICK kinds : runs(kinds)
    BY DEF SwapV3, SwapV4, ApproveEarn
  <2> QED
    BY <2>1, TakesAvailable, RunningCall DEF GuardInv, Opened
<1>2. CASE SwapV3
  <2>1. action.in \in Token
    BY <1>1, <1>2 DEF SwapV3, runs, Running, validPlan, requiresTracked, ExecAssumption, action
  <2>2. ctx' \in [token : Token \union {NoToken}, amount : Nat]
    BY <1>1, <1>2, <2>1 DEF SwapV3
  <2>3. call' \in Call /\ call'.pc = "v3" /\ call'.mode = call.mode
    BY <1>1, <1>2 DEF SwapV3, goesTo, Call
  <2> QED
    BY <1>1, <1>2, <2>2, <2>3 DEF SwapV3, GuardInv, Opened
<1>3. CASE SwapV4
  <2>1. call' = [call EXCEPT !.pc = "v4", !.amounts = availableAmounts, !.outer = phase]
    BY <1>3 DEF SwapV4
  <2>2. call' \in Call /\ call'.pc = "v4" /\ call'.mode = call.mode /\ call'.outer = call.mode
    BY <1>1, <2>1 DEF Call
  <2> QED
    BY <1>1, <1>3, <2>2 DEF SwapV4, GuardInv, Opened
<1>4. CASE ApproveEarn
  <2>1. call' \in Call /\ call'.pc = "earn" /\ call'.mode = call.mode /\ call'.amounts = availableAmounts
    BY <1>1, <1>4 DEF ApproveEarn, goesTo, Call
  <2> QED
    BY <1>1, <1>4, <2>1 DEF ApproveEarn, GuardInv, Opened
<1> QED
  BY <1>2, <1>3, <1>4

(* What was opened for an action is closed by its end.                          *)
LEMMA CompletesGuarded ==
  ASSUME ExecAssumption, CallInv, GuardInv, SwapV2 \/ V3Callback \/ UnlockCallback \/ RouteEarn
  PROVE  GuardInv'
<1>1. call.pc \in {"act", "v3", "v4", "earn"} /\ call \in Call
  <2>1. call.pc \in {"act", "v3", "v4", "earn"}
    BY DEF SwapV2, V3Callback, UnlockCallback, RouteEarn, runs
  <2> QED
    BY <2>1, RunningCall
<1>2. nextAction
  BY DEF SwapV2, V3Callback, UnlockCallback, RouteEarn
<1>3. Nothing \in [Token -> Nat]
  BY DEF Nothing
<1>4. call' \in Call /\ call'.pc = "act" /\ call'.mode = call.mode
  <2>1. call.at + 1 \in Nat \ {0}
    BY <1>1 DEF Call
  <2>2. call' = [call EXCEPT !.pc = "act", !.at = call.at + 1, !.amounts = Nothing]
    BY <1>2 DEF nextAction
  <2> QED
    BY <1>1, <1>3, <2>1, <2>2 DEF Call
<1>5. NoContext \in [token : Token \union {NoToken}, amount : Nat]
  BY DEF NoContext
<1>6. phase' = call.mode
  BY <1>1 DEF SwapV2, V3Callback, UnlockCallback, RouteEarn, GuardInv, Opened, runs
<1>7. ctx' = NoContext
  BY <1>1 DEF SwapV2, V3Callback, UnlockCallback, RouteEarn, GuardInv, Opened, runs
<1>8. allowance' = NoAllowance
  <2>1. CASE RouteEarn
    BY <1>1, <2>1 DEF RouteEarn, GuardInv, Opened, NoAllowance, Spender
  <2>2. CASE SwapV2 \/ V3Callback \/ UnlockCallback
    BY <2>2 DEF SwapV2, V3Callback, UnlockCallback, GuardInv, Opened, runs
  <2> QED
    BY <2>1, <2>2
<1> QED
  BY <1>4, <1>5, <1>6, <1>7, <1>8 DEF GuardInv, Opened

LEMMA LendsGuarded ==
  ASSUME ExecAssumption, CallInv, GuardInv, OnMorphoFlashLoan \/ ApproveRepayment
  PROVE  GuardInv'
<1>1. call.pc \in {"loan", "act"} /\ call \in Call
  <2>1. call.pc \in {"loan", "act"}
    BY DEF OnMorphoFlashLoan, ApproveRepayment, ran
  <2> QED
    BY <2>1, RunningCall
<1>2. CASE OnMorphoFlashLoan
  <2>1. call' \in Call /\ call'.pc = "act" /\ call'.mode = call.mode
    BY <1>1, <1>2 DEF OnMorphoFlashLoan, Call
  <2> QED
    BY <1>1, <1>2, <2>1 DEF OnMorphoFlashLoan, GuardInv, Opened
<1>3. CASE ApproveRepayment
  <2>1. /\ call' \in Call /\ call'.pc = "repay" /\ call'.mode = call.mode
        /\ call'.plan = call.plan /\ call'.principal = call.principal
    BY <1>1, <1>3 DEF ApproveRepayment, Call
  <2> QED
    BY <1>1, <1>3, <2>1 DEF ApproveRepayment, ran, GuardInv, Opened
<1> QED
  BY <1>2, <1>3

(* A call that begins sets a baseline of natural numbers aside.                 *)
LEMMA BeginsGuarded ==
  ASSUME ExecAssumption, CallInv, HeldInv, GuardInv, Begin
  PROVE  GuardInv'
<1>1. PICK plan \in Plan, principal \in Principal, mode \in {"inventory", "flash", "quote"}, reserved \in Nat :
        begins(mode, plan, principal, reserved) /\ reserved <= bal[plan.settlement]
  <2>1. PICK plan \in Plan, principal \in Principal :
          \/ ExecuteWithInventory(plan, principal)
          \/ ExecuteWithFlash(plan, principal)
          \/ QuoteWithFlash(plan, principal)
    BY DEF Begin
  <2>2. principal \in Nat /\ 0 <= bal[plan.settlement]
    <3>1. bal \in [Token -> Nat]
      BY <2>1 DEF HeldInv, heldOutside, ExecuteWithInventory, ExecuteWithFlash, QuoteWithFlash, begins
    <3> QED
      BY <3>1 DEF ExecAssumption
  <2>3. CASE ExecuteWithInventory(plan, principal)
    BY <2>2, <2>3 DEF ExecuteWithInventory
  <2>4. CASE ExecuteWithFlash(plan, principal)
    BY <2>2, <2>4 DEF ExecuteWithFlash
  <2>5. CASE QuoteWithFlash(plan, principal)
    BY <2>2, <2>5 DEF QuoteWithFlash
  <2> QED
    BY <2>1, <2>3, <2>4, <2>5
<1>2. call.pc = "idle" /\ bal \in [Token -> Nat]
  BY <1>1 DEF begins, HeldInv, heldOutside
<1>3. baselines(plan, reserved) \in [Token -> Nat]
  BY <1>1, <1>2 DEF baselines, ExecAssumption
<1>4. /\ call' = [pc |-> IF mode = "inventory" THEN "act" ELSE "loan", mode |-> mode, plan |-> plan,
                  principal |-> principal, base |-> baselines(plan, reserved), before |-> bal,
                  at |-> 1, amounts |-> Nothing, outer |-> "none"]
      /\ phase' = mode /\ allowance' = allowance /\ ctx' = ctx
  BY <1>1 DEF begins
<1>5. Nothing \in [Token -> Nat]
  BY DEF Nothing
<1>6. call' \in Call
  BY <1>2, <1>3, <1>4, <1>5 DEF Call
<1>7. call'.pc \in {"act", "loan"} /\ call'.mode = mode
  BY <1>4
<1> QED
  BY <1>2, <1>4, <1>6, <1>7 DEF GuardInv, Opened

(* The end of a call leaves nothing open. *)
LEMMA ClosedGuarded ==
  ASSUME call' = NoCall, phase' = "none", ctx' = NoContext, allowance' = NoAllowance
  PROVE  GuardInv'
  BY DEF GuardInv, Opened, NoCall, NoContext

LEMMA EndsGuarded ==
  ASSUME ExecAssumption, CallInv, GuardInv, FinishInventory \/ FinishFlash \/ Reverts
  PROVE  GuardInv'
<1>1. CASE FinishInventory
  BY <1>1, ClosedGuarded DEF FinishInventory, ran, GuardInv, Opened
<1>2. CASE FinishFlash
  <2>1. allowance' = NoAllowance /\ ctx' = NoContext
    BY <1>2 DEF FinishFlash, GuardInv, Opened, NoAllowance, Spender
  <2> QED
    BY <1>2, <2>1, ClosedGuarded DEF FinishFlash
<1>3. CASE Reverts
  BY <1>3, ClosedGuarded DEF Reverts
<1> QED
  BY <1>1, <1>2, <1>3

LEMMA GuardStep ==
  ASSUME ExecAssumption, ExecInv, GuardInv, [ExecNext]_execVars
  PROVE  GuardInv'
<1>0. CallInv /\ HeldInv
  BY DEF ExecInv
<1>1. CASE \E t \in Token : \E amount \in 1..bal[t] : Withdraw(t, amount)
  BY <1>1 DEF Withdraw, GuardInv, Opened
<1>2. CASE UNCHANGED execVars
  BY <1>2 DEF execVars, GuardInv, Opened
<1> QED
  BY <1>0, <1>1, <1>2, HandsOverGuarded, CompletesGuarded, LendsGuarded, BeginsGuarded, EndsGuarded DEF ExecNext

(* What may be pulled lies above the baseline. *)
LEMMA GuardAllows == ASSUME ExecAssumption, ExecInv, GuardInv PROVE Allowed
<1>1. call.pc = "idle" => allowance = NoAllowance /\ phase = "none" /\ ctx = NoContext
  BY DEF GuardInv, Opened
<1>2. ASSUME call.pc # "idle", NEW s \in Spender, NEW t \in Token, allowance[s][t] > 0
      PROVE  t \in tracked(call.plan) /\ allowance[s][t] <= available(t)
  <2>1. /\ Running /\ Protected /\ Foreign /\ bal \in [Token -> Int] /\ call.base \in [Token -> Int]
        /\ call.plan \in Plan /\ tracked(call.plan) \subseteq Token
    BY <1>2 DEF ExecInv, CallInv, Running, ExecAssumption
  <2>2. call.pc \in {"earn", "repay"}
    <3>1. ~(NoAllowance[s][t] > 0)
      BY DEF NoAllowance, Nothing
    <3> QED
      BY <1>2, <3>1 DEF GuardInv, Opened
  <2>3. CASE call.pc = "earn"
    <3>1. allowance = [NoAllowance EXCEPT !["router"] = call.amounts] /\ Spending
      BY <2>1, <2>3 DEF GuardInv, Opened, Foreign
    <3>2. allowance[s][t] = call.amounts[t]
      BY <1>2, <3>1 DEF NoAllowance, Nothing, Spender
    <3> QED
      BY <1>2, <2>1, <3>1, <3>2 DEF Spending, available
  <2>4. CASE call.pc = "repay"
    <3>1. allowance = [NoAllowance EXCEPT !["morpho"] = just(call.plan.settlement, call.principal)] /\ enough
      BY <2>1, <2>4 DEF GuardInv, Opened, Foreign
    <3>2. t = call.plan.settlement /\ allowance[s][t] = call.principal
      BY <1>2, <3>1 DEF NoAllowance, Nothing, Spender, just
    <3>3. call.principal \in Nat /\ call.plan.minimumProfit \in Nat /\ t \in tracked(call.plan)
      BY <2>1, <3>2 DEF Running, validPlan, ExecAssumption
    <3>4. bal[t] >= call.base[t] + call.principal + call.plan.minimumProfit
      BY <3>1, <3>2 DEF enough, required
    <3> QED
      BY <1>2, <2>1, <3>2, <3>3, <3>4 DEF available
  <2> QED
    BY <2>2, <2>3, <2>4
<1> QED
  BY <1>1, <1>2 DEF Allowed

(* Every balance of a call stays a natural number: above a baseline of natural  *)
(* numbers, or as it was.                                                       *)
LEMMA GuardTypes == ASSUME ExecAssumption, ExecInv, GuardInv PROVE ExecTypeOK
<1>1. bal \in [Token -> Nat]
  <2>1. CASE call.pc = "idle"
    BY <2>1 DEF ExecInv, HeldInv, heldOutside
  <2>2. CASE call.pc # "idle"
    <3>1. Protected /\ bal \in [Token -> Int] /\ call \in Call
      BY <2>2, RunningCall DEF ExecInv, CallInv
    <3>2. call.base \in [Token -> Nat] /\ call.before \in [Token -> Nat]
      BY <3>1 DEF Call
    <3>3. ASSUME NEW t \in Token PROVE bal[t] \in Nat
      <4>1. call.base[t] \in Nat /\ call.before[t] \in Nat /\ bal[t] \in Int
        BY <3>1, <3>2
      <4>2. bal[t] >= call.base[t] \/ bal[t] = call.before[t]
        BY <2>2, <3>1 DEF Protected
      <4> QED
        BY <4>1, <4>2
    <3> QED
      BY <3>1, <3>3
  <2> QED
    BY <2>1, <2>2
<1>2. Nothing \in [Token -> Nat] /\ NoAllowance \in [Spender -> [Token -> Nat]]
  BY DEF Nothing, NoAllowance
<1>3. allowance \in [Spender -> [Token -> Nat]]
  <2>1. CASE call.pc = "earn"
    <3>1. call.amounts \in [Token -> Nat]
      BY <2>1, RunningCall DEF Call
    <3> QED
      BY <1>2, <2>1, <3>1 DEF GuardInv, Opened, Spender
  <2>2. CASE call.pc = "repay"
    <3>1. just(call.plan.settlement, call.principal) \in [Token -> Nat]
      <4>1. call.principal \in Nat
        BY <2>2, RunningCall DEF Call, ExecAssumption
      <4> QED
        BY <1>2, <4>1 DEF just, Nothing
    <3> QED
      BY <1>2, <2>2, <3>1 DEF GuardInv, Opened, Spender
  <2> QED
    BY <1>2, <2>1, <2>2 DEF GuardInv, Opened
<1>4. phase \in {"none", "inventory", "flash", "quote", "v4Unlock"}
  <2>1. CASE call.pc \in {"idle", "v4"}
    BY <2>1 DEF GuardInv, Opened
  <2>2. CASE call.pc \notin {"idle", "v4"}
    BY <2>2, RunningCall DEF GuardInv, Opened, Call
  <2> QED
    BY <2>1, <2>2
<1> QED
  BY <1>1, <1>3, <1>4 DEF GuardInv, ExecTypeOK

(* For any plans, principals, tokens and canonical pools: no step of a call     *)
(* takes a token below its baseline.                                            *)
THEOREM CallsProtect == ASSUME ExecAssumption PROVE ExecSpec => []Protected
<1>1. ExecInit => ExecInv
  BY ExecInvInit
<1>2. ExecInv /\ [ExecNext]_execVars => ExecInv'
  BY ExecStep
<1>3. ExecInv => Protected
  BY DEF ExecInv, CallInv, Protected
<1> QED
  BY <1>1, <1>2, <1>3, PTL DEF ExecSpec

(* No spender may pull what a baseline covers, and a call that ended leaves no  *)
(* allowance, phase or context behind; its balances are natural numbers.        *)
THEOREM CallsGuard == ASSUME ExecAssumption PROVE ExecSpec => [](Allowed /\ ExecTypeOK)
<1>1. ExecInit => ExecInv /\ GuardInv
  BY ExecInvInit, GuardInit
<1>2. ExecInv /\ GuardInv /\ [ExecNext]_execVars => ExecInv' /\ GuardInv'
  BY ExecStep, GuardStep
<1>3. ExecInv /\ GuardInv => Allowed /\ ExecTypeOK
  BY GuardAllows, GuardTypes
<1> QED
  BY <1>1, <1>2, <1>3, PTL DEF ExecSpec

(* And from outside a call earns its plan's floor, leaves everything else, or   *)
(* does nothing at all: UniversalAtomicExecutor implements the atomic call.     *)
THEOREM CallsAreAtomic == ASSUME ExecAssumption PROVE ExecSpec => AtomicSpec
<1>1. ExecInit => ExecInv /\ Outside!AtomicInit
  BY ExecInvInit DEF ExecInv, HeldInv, Outside!AtomicInit, ExecInit, NoCall
<1>2. ExecInv /\ [ExecNext]_execVars => ExecInv' /\ [Outside!AtomicNext]_<<heldOutside, call.pc # "idle">>
  BY ExecStep
<1> QED
  BY <1>1, <1>2, PTL DEF ExecSpec, AtomicSpec, Outside!AtomicSpec
================================================================================
