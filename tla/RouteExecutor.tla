----------------------------- MODULE RouteExecutor -----------------------------
(* contracts/GenericAtomicArb.sol, WethAtomicArb.sol and FixedRouteAtomicArb.sol:*)
(* an executor that enters one PAIR pool of the PoolManager, leaves through      *)
(* another, and reaches the pools' quote tokens over Uniswap V3, all inside one  *)
(* unlock.  Generic settles in USDG and Weth in WETH on any valid route; Fixed   *)
(* knows one route and trusts the amounts its pools report.                      *)
EXTENDS Integers

CONSTANTS
  Token,      \* the tokens of the routes, USDG and WETH included
  Routes,     \* the routes an operator may submit, wrong ones included
  FixedRoute, \* the route of the fixed contract
  MaxAmountIn, MinGrossProfit,  \* what the contracts allow, and the floor they insist on
  Seeds,      \* what a deployment may put in
  MaxOut,     \* bound: what a pool pays
  MaxHeld     \* bound: no call starts while the executor holds more of a token

Nothing == [t \in Token |-> 0]
NoContext == [token |-> "none", amount |-> 0]
NoCall == [pc |-> "idle"]
NoContract == [kind |-> "none", max |-> 0, floor |-> 0]

VARIABLES
  contract,   \* which contract was deployed, and its bounds
  bal,        \* the executor's balances
  owed,       \* the PoolManager's account of the executor, per token
  allowance,  \* what the V3 router may pull
  phase,      \* the transient phase
  ctx,        \* the transient context of a direct V3 swap
  call        \* the call in progress

routeVars == <<contract, bal, owed, allowance, phase, ctx, call>>

RouteInit ==
  /\ contract = NoContract
  /\ bal = Nothing
  /\ owed = Nothing
  /\ allowance = Nothing
  /\ phase = "none"
  /\ ctx = NoContext
  /\ call = NoCall

settlement == IF contract.kind = "weth" THEN "weth" ELSE "usdg"
fixed == contract.kind = "fixed"

--------------------------------------------------------------------------------
(* Deployment *)

deploys(kind, max, floor, token, seed) ==
  /\ contract.kind = "none"
  /\ contract' = [kind |-> kind, max |-> max, floor |-> floor]
  /\ bal' = [bal EXCEPT ![token] = seed]
  /\ UNCHANGED <<owed, allowance, phase, ctx, call>>

(* Ether sent along is swapped to USDG, at no less than the minimum asked for.  *)
DeployGeneric(seed, minimumSeedOut) ==
  /\ seed >= minimumSeedOut
  /\ deploys("generic", MaxAmountIn, MinGrossProfit, "usdg", seed)
DeployFixed(seed, minimumSeedOut) ==
  /\ seed >= minimumSeedOut
  /\ deploys("fixed", MaxAmountIn, MinGrossProfit, "usdg", seed)

(* Ether sent along is wrapped, all of it; the bounds are the deployer's.       *)
DeployWeth(seed, max, floor) ==
  /\ max > 0 /\ max <= MaxAmountIn /\ floor > 0 /\ floor <= max
  /\ seed <= max
  /\ deploys("weth", max, floor, "weth", seed)

--------------------------------------------------------------------------------
(* The route: how the quote token of each PAIR pool is reached over V3 *)

fits(path, from, to) == (path = "none") <=> (from = to)

validRoute(r) ==
  /\ r.target \notin {settlement, r.entryToken, r.exitToken}
  /\ contract.kind = "weth" => r.target # "usdg"
  /\ r.entryPool # r.exitPool
  /\ fits(r.entryPath, settlement, r.entryToken)
  /\ fits(r.exitPath, r.exitToken, settlement)

begins(r, amountIn, minProfit) ==
  /\ contract.kind # "none" /\ call.pc = "idle" /\ phase = "none"
  /\ \A t \in Token : bal[t] <= MaxHeld
  /\ amountIn > 0 /\ amountIn <= contract.max
  /\ minProfit >= contract.floor
  /\ phase' = "unlock"
  /\ call' = [pc |-> "entry", route |-> r, amountIn |-> amountIn, minProfit |-> minProfit,
              swap |-> 0, output |-> 0, before |-> bal]
  /\ UNCHANGED <<contract, bal, owed, allowance, ctx>>

Execute(r, amountIn, minProfit) ==
  /\ ~fixed /\ validRoute(r)
  /\ bal[settlement] >= amountIn
  /\ begins(r, amountIn, minProfit)

(* The fixed contract does not look at its balance first: the transfer will.    *)
ExecuteFixed(amountIn, minProfit) == fixed /\ begins(FixedRoute, amountIn, minProfit)

--------------------------------------------------------------------------------
(* Inside the unlock *)

at(pc, path) == call.pc = pc /\ phase = "unlock" /\ path
credit(account, t, n) == [account EXCEPT ![t] = @ + n]
debit(account, t, n) == [account EXCEPT ![t] = @ - n]
next(pc, amount) == call' = [call EXCEPT !.pc = pc, !.swap = amount]

(* The quote token is the settlement token: it is paid in as it is.             *)
EntryOwn ==
  /\ at("entry", call.route.entryPath = "none")
  /\ bal' = debit(bal, settlement, call.amountIn)
  /\ owed' = credit(owed, settlement, call.amountIn)
  /\ next("swapEntry", call.amountIn)
  /\ UNCHANGED <<contract, allowance, phase, ctx>>

setsContext(pc, direct, token, amount) ==
  /\ phase' = direct
  /\ ctx' = IF fixed THEN ctx ELSE [token |-> token, amount |-> amount]
  /\ next(pc, amount)
  /\ UNCHANGED <<contract, bal, owed, allowance>>

EntryDirect ==
  /\ at("entry", call.route.entryPath = "one")
  /\ setsContext("entryDirect", "entryDirect", settlement, call.amountIn)

(* The fixed contract pays what its pool asks and compares afterwards.          *)
expectedAmount == IF fixed THEN call.swap ELSE ctx.amount

(* The pool has paid the PoolManager, and asks the executor for its input: all  *)
(* of it, or less at a price limit.                                             *)
EntryCallback ==
  /\ call.pc = "entryDirect" /\ phase = "entryDirect"
  /\ \E asked \in 1..call.swap, out, settled \in 1..MaxOut :
       /\ asked = expectedAmount /\ asked <= bal[settlement]
       /\ settled = out
       /\ bal' = debit(bal, settlement, asked)
       /\ owed' = credit(owed, call.route.entryToken, settled)
       /\ next("swapEntry", out)
  /\ phase' = "unlock"
  /\ ctx' = NoContext
  /\ UNCHANGED <<contract, allowance>>

approves(pc, token, amount) ==
  /\ allowance' = [allowance EXCEPT ![token] = amount]
  /\ call' = [call EXCEPT !.pc = pc]

EntryApprove ==
  /\ at("entry", call.route.entryPath = "two")
  /\ approves("entryRouter", settlement, call.amountIn)
  /\ UNCHANGED <<contract, bal, owed, phase, ctx>>

EntryRouter ==
  /\ call.pc = "entryRouter" /\ allowance[settlement] >= call.amountIn
  /\ bal' = debit(bal, settlement, call.amountIn)
  /\ allowance' = debit(allowance, settlement, call.amountIn)
  /\ \E out, settled \in 1..MaxOut :
       /\ settled = out
       /\ owed' = credit(owed, call.route.entryToken, settled)
       /\ next("swapEntry", out)
  /\ UNCHANGED <<contract, phase, ctx>>

(* A PAIR pool takes the whole input, or the call ends.                         *)
pairSwap(pc, nextPc, from, to) ==
  /\ call.pc = pc /\ phase = "unlock"
  /\ \E taken \in 1..call.swap, out \in 1..MaxOut :
       /\ taken = call.swap
       /\ owed' = credit(debit(owed, from, taken), to, out)
       /\ next(nextPc, out)
  /\ UNCHANGED <<contract, bal, allowance, phase, ctx>>

SwapEntry == pairSwap("swapEntry", "swapExit", call.route.entryToken, call.route.target)
SwapExit == pairSwap("swapExit", "exit", call.route.target, call.route.exitToken)

leaves(output) == call' = [call EXCEPT !.pc = "finish", !.output = output]

ExitOwn ==
  /\ at("exit", call.route.exitPath = "none")
  /\ owed' = debit(owed, settlement, call.swap)
  /\ bal' = credit(bal, settlement, call.swap)
  /\ leaves(call.swap)
  /\ UNCHANGED <<contract, allowance, phase, ctx>>

ExitDirect ==
  /\ at("exit", call.route.exitPath = "one")
  /\ setsContext("exitDirect", "exitDirect", call.route.exitToken, call.swap)

(* The pool has paid the executor, and its input is taken from the PoolManager. *)
ExitCallback ==
  /\ call.pc = "exitDirect" /\ phase = "exitDirect"
  /\ \E asked \in 1..call.swap, out \in 1..MaxOut :
       /\ asked = expectedAmount
       /\ owed' = debit(owed, call.route.exitToken, asked)
       /\ bal' = credit(bal, settlement, out)
       /\ leaves(out)
  /\ phase' = "unlock"
  /\ ctx' = NoContext
  /\ UNCHANGED <<contract, allowance>>

ExitApprove ==
  /\ at("exit", call.route.exitPath = "two")
  /\ owed' = debit(owed, call.route.exitToken, call.swap)
  /\ bal' = credit(bal, call.route.exitToken, call.swap)
  /\ approves("exitRouter", call.route.exitToken, call.swap)
  /\ UNCHANGED <<contract, phase, ctx>>

ExitRouter ==
  /\ call.pc = "exitRouter" /\ allowance[call.route.exitToken] >= call.swap
  /\ allowance' = debit(allowance, call.route.exitToken, call.swap)
  /\ \E out \in 1..MaxOut :
       /\ bal' = credit(debit(bal, call.route.exitToken, call.swap), settlement, out)
       /\ leaves(out)
  /\ UNCHANGED <<contract, owed, phase, ctx>>

--------------------------------------------------------------------------------
(* The end of a call *)

(* What the call earned, by the balance; the fixed contract's, by the report.   *)
grossProfit ==
  IF fixed THEN call.output - call.amountIn ELSE bal[settlement] - call.before[settlement]
reportFits == fixed \/ call.output = call.amountIn + grossProfit

(* The PoolManager ends an unlock only when every account is even.              *)
Finish ==
  /\ call.pc = "finish" /\ phase = "unlock"
  /\ owed = Nothing
  /\ reportFits
  /\ grossProfit >= call.minProfit
  /\ phase' = "none"
  /\ call' = NoCall
  /\ UNCHANGED <<contract, bal, owed, allowance, ctx>>

Reverts ==
  /\ call.pc # "idle"
  /\ bal' = call.before
  /\ owed' = Nothing
  /\ allowance' = Nothing
  /\ phase' = "none"
  /\ ctx' = NoContext
  /\ call' = NoCall
  /\ UNCHANGED contract

Withdraw(t, amount) ==
  /\ call.pc = "idle" /\ amount <= bal[t]
  /\ bal' = [bal EXCEPT ![t] = @ - amount]
  /\ UNCHANGED <<contract, owed, allowance, phase, ctx, call>>

Deploy ==
  \E seed \in Seeds :
    \/ \E minimum \in Seeds : DeployGeneric(seed, minimum) \/ DeployFixed(seed, minimum)
    \/ \E max, floor \in 0..MaxAmountIn : DeployWeth(seed, max, floor)

Begin ==
  \E amountIn \in 0..MaxAmountIn + 1, minProfit \in 0..MinGrossProfit + 1 :
    ExecuteFixed(amountIn, minProfit) \/ \E r \in Routes : Execute(r, amountIn, minProfit)

RouteNext ==
  \/ Deploy \/ Begin
  \/ EntryOwn \/ EntryDirect \/ EntryCallback \/ EntryApprove \/ EntryRouter
  \/ SwapEntry \/ SwapExit
  \/ ExitOwn \/ ExitDirect \/ ExitCallback \/ ExitApprove \/ ExitRouter
  \/ Finish \/ Reverts
  \/ \E t \in Token : \E amount \in 1..bal[t] : Withdraw(t, amount)

RouteSpec == RouteInit /\ [][RouteNext]_routeVars

--------------------------------------------------------------------------------
(* Properties *)

(* Routes are over these tokens; the fixed contract's is direct on both sides,  *)
(* over distinct tokens.                                                        *)
RouteAssumption ==
  /\ {"usdg", "weth"} \subseteq Token /\ Seeds \subseteq Nat
  /\ MaxAmountIn \in Nat /\ MinGrossProfit \in 1..MaxAmountIn
  /\ \A r \in Routes \union {FixedRoute} :
       /\ {r.target, r.entryToken, r.exitToken} \subseteq Token
       /\ {r.entryPath, r.exitPath} \subseteq {"none", "one", "two"}
  /\ FixedRoute.entryPath = "one" /\ FixedRoute.exitPath = "one"
  /\ "usdg" \notin {FixedRoute.target, FixedRoute.entryToken, FixedRoute.exitToken}

RouteTypeOK ==
  /\ contract \in [kind : {"none", "generic", "weth", "fixed"}, max : 0..MaxAmountIn, floor : 0..MaxAmountIn]
  /\ bal \in [Token -> Nat]
  /\ owed \in [Token -> Int]
  /\ allowance \in [Token -> Nat]
  /\ phase \in {"none", "unlock", "entryDirect", "exitDirect"}
  /\ ctx \in [token : Token \union {"none"}, amount : Nat]

(* Outside a call nothing is open: no account with the PoolManager, no          *)
(* allowance, no phase and no context; and no quote or target token stayed.     *)
NothingOpen ==
  call.pc = "idle" =>
    /\ owed = Nothing /\ allowance = Nothing /\ phase = "none" /\ ctx = NoContext
    /\ \A t \in Token \ {settlement} : bal[t] = 0

heldOutside == IF call.pc = "idle" THEN bal ELSE call.before

promise == [settlement |-> settlement, floor |-> contract.floor, residual |-> Nothing]

Outside == INSTANCE AtomicCall
  WITH held <- heldOutside, open <- call.pc # "idle",
       Promise <- [settlement : {"usdg", "weth"}, floor : 1..MaxAmountIn, residual : {Nothing}]

(* Once deployed, a call earns its contract's floor or does nothing.            *)
EarnsOrNothing ==
  [][\/ contract.kind = "none"
     \/ Outside!Opens \/ Outside!DoesNothing \/ Outside!Earns(promise)
     \/ \E t \in Token : \E amount \in 0..bal[t] : Outside!Withdrawn(t, amount)]_<<heldOutside, call.pc = "idle">>
================================================================================
