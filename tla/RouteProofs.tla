------------------------------ MODULE RouteProofs ------------------------------
(* The executors over PAIR pools, for any tokens, routes, seeds and floors:     *)
(* between calls nothing is open and only the settlement token is held, and     *)
(* from outside a call earns its floor or does nothing.                         *)
EXTENDS RouteExecutor, TLAPS

just(t, n) == [Nothing EXCEPT ![t] = n]

(* The route in progress is one that fits, of a contract that was deployed.     *)
Deployed ==
  /\ contract.kind \in {"generic", "weth", "fixed"}
  /\ contract.max \in 0..MaxAmountIn /\ contract.floor \in 1..MaxAmountIn

RouteFits(r) ==
  /\ {r.target, r.entryToken, r.exitToken} \subseteq Token
  /\ {r.entryPath, r.exitPath} \subseteq {"none", "one", "two"}
  /\ fits(r.entryPath, settlement, r.entryToken) /\ fits(r.exitPath, r.exitToken, settlement)

Running ==
  /\ Deployed /\ RouteFits(call.route)
  /\ call.amountIn \in Nat \ {0} /\ call.minProfit \in Int /\ call.minProfit >= contract.floor
  /\ call.before \in [Token -> Nat] /\ \A t \in Token \ {settlement} : call.before[t] = 0
  /\ call.pc \notin {"entry", "entryDirect", "entryRouter"} \/ ~fixed => call.amountIn <= call.before[settlement]
  /\ call.pc \notin {"entry", "entryRouter"} => call.swap \in Nat \ {0}
  /\ call.pc = "finish" => call.output \in Nat
  /\ call.pc \in {"entry", "entryDirect", "entryRouter", "swapEntry", "swapExit",
                  "exit", "exitDirect", "exitRouter", "finish"}
  /\ fixed => call.route.entryPath = "one" /\ call.route.exitPath = "one"

(* What the executor holds, owes and has allowed, at each point of a call.      *)
paidIn == debit(call.before, settlement, call.amountIn)

Holds ==
  /\ call.pc \in {"entry", "entryDirect", "entryRouter"} => bal = call.before
  /\ call.pc \in {"swapEntry", "swapExit", "exit", "exitDirect"} => bal = paidIn
  /\ call.pc = "exitRouter" => bal = credit(paidIn, call.route.exitToken, call.swap)
  /\ call.pc = "finish" => bal = credit(paidIn, settlement, call.output)

Owes ==
  /\ call.pc \in {"entry", "entryDirect", "entryRouter", "exitRouter", "finish"} => owed = Nothing
  /\ call.pc = "swapEntry" => owed = just(call.route.entryToken, call.swap)
  /\ call.pc = "swapExit" => owed = just(call.route.target, call.swap)
  /\ call.pc \in {"exit", "exitDirect"} => owed = just(call.route.exitToken, call.swap)

Allows ==
  /\ call.pc \notin {"entryRouter", "exitRouter"} => allowance = Nothing
  /\ call.pc = "entryRouter" =>
       allowance = just(settlement, call.amountIn) /\ call.route.entryPath = "two"
  /\ call.pc = "exitRouter" =>
       allowance = just(call.route.exitToken, call.swap) /\ call.route.exitPath = "two"

(* A direct swap is on its way, with its whole input in the context.            *)
Directs ==
  /\ phase = IF call.pc \in {"entryDirect", "exitDirect"} THEN call.pc ELSE "unlock"
  /\ call.pc \notin {"entryDirect", "exitDirect"} => ctx = NoContext
  /\ call.pc = "entryDirect" =>
       /\ call.swap = call.amountIn
       /\ ctx = IF fixed THEN NoContext ELSE [token |-> settlement, amount |-> call.amountIn]
  /\ call.pc = "exitDirect" =>
       ctx = IF fixed THEN NoContext ELSE [token |-> call.route.exitToken, amount |-> call.swap]

Idle ==
  /\ call = NoCall /\ NothingOpen /\ bal \in [Token -> Nat]
  /\ contract = NoContract \/ Deployed
  /\ contract = NoContract => bal = Nothing

RouteInv ==
  /\ contract \in [kind : {"none", "generic", "weth", "fixed"}, max : 0..MaxAmountIn, floor : 0..MaxAmountIn]
  /\ IF call.pc = "idle" THEN Idle ELSE Running /\ Holds /\ Owes /\ Allows /\ Directs

--------------------------------------------------------------------------------
(* Accounts *)

LEMMA NothingIs == Nothing \in [Token -> Int] /\ Nothing \in [Token -> Nat] /\ \A t \in Token : Nothing[t] = 0
  BY DEF Nothing

LEMMA Credited == ASSUME NEW t \in Token, NEW n \in Int PROVE credit(Nothing, t, n) = just(t, n)
  BY DEF credit, just, Nothing

LEMMA Evened == ASSUME NEW t \in Token, NEW n \in Int PROVE debit(just(t, n), t, n) = Nothing
<1>1. \A u \in Token : debit(just(t, n), t, n)[u] = 0
  BY DEF debit, just, Nothing
<1> QED
  BY <1>1 DEF debit, just, Nothing

LEMMA Exchanged ==
  ASSUME NEW t \in Token, NEW n \in Int, NEW u \in Token, NEW m \in Int
  PROVE  credit(debit(just(t, n), t, n), u, m) = just(u, m)
  BY Evened, Credited

LEMMA TakenAgain ==
  ASSUME NEW b \in [Token -> Int], NEW t \in Token, NEW n \in Int
  PROVE  debit(credit(b, t, n), t, n) = b
<1>1. \A u \in Token : debit(credit(b, t, n), t, n)[u] = b[u]
  BY DEF debit, credit
<1> QED
  BY <1>1 DEF debit, credit

--------------------------------------------------------------------------------
(* Steps of a call *)

LEMMA Contracts == ASSUME RouteAssumption PROVE settlement \in Token
  BY DEF RouteAssumption, settlement

(* What a call works with does not change while it runs.                        *)
Same ==
  /\ contract' = contract /\ call'.route = call.route /\ call'.amountIn = call.amountIn
  /\ call'.minProfit = call.minProfit /\ call'.before = call.before

LEMMA StaysRunning ==
  ASSUME Running, Same, NEW p, call'.pc = p,
         p \in {"entryDirect", "entryRouter", "swapEntry", "swapExit", "exit", "exitDirect", "exitRouter", "finish"},
         p # "entryRouter" => call'.swap \in Nat \ {0},
         p = "finish" => call'.output \in Nat,
         p \notin {"entryDirect", "entryRouter"} => call.amountIn <= call.before[settlement]
  PROVE  Running' /\ settlement' = settlement /\ fixed' = fixed /\ paidIn' = paidIn
<1>1. settlement' = settlement /\ fixed' = fixed
  BY DEF Same, settlement, fixed
<1>2. paidIn' = paidIn
  BY <1>1 DEF paidIn, Same
<1>3. Deployed' /\ RouteFits(call.route)'
  BY <1>1 DEF Same, Running, Deployed, RouteFits, fits
<1>4. call'.pc \notin {"entry", "entryDirect", "entryRouter"} \/ ~fixed' => call'.amountIn <= call'.before[settlement']
  BY <1>1 DEF Running, Same
<1>5. call'.amountIn \in Nat \ {0} /\ call'.minProfit \in Int /\ call'.minProfit >= contract'.floor
  BY DEF Running, Same
<1>6. call'.before \in [Token -> Nat] /\ \A t \in Token \ {settlement'} : call'.before[t] = 0
  BY <1>1 DEF Running, Same
<1>7. fixed' => call'.route.entryPath = "one" /\ call'.route.exitPath = "one"
  BY <1>1 DEF Running, Same
<1> QED
  BY <1>1, <1>2, <1>3, <1>4, <1>5, <1>6, <1>7 DEF Running

(* A step of a call changes its place and its amounts only.                     *)
LEMMA Nexts ==
  ASSUME NEW p, NEW n, next(p, n), contract' = contract
  PROVE  call'.pc = p /\ call'.swap = n /\ Same
  BY DEF next, Same

LEMMA Leaves ==
  ASSUME NEW n, leaves(n), contract' = contract
  PROVE  call'.pc = "finish" /\ call'.swap = call.swap /\ call'.output = n /\ Same
  BY DEF leaves, Same

LEMMA InCall == ASSUME RouteInv, call.pc # "idle" PROVE Running /\ Holds /\ Owes /\ Allows /\ Directs
  BY DEF RouteInv

LEMMA OutOfCall == ASSUME RouteInv, call.pc = "idle" PROVE Idle
  BY DEF RouteInv

LEMMA CallKept ==
  ASSUME RouteInv, Same, call'.pc # "idle", Running', Holds', Owes', Allows', Directs'
  PROVE  RouteInv'
  BY DEF RouteInv, Same

(* The first pool is entered in the settlement token: nothing was swapped yet.  *)
LEMMA EntryDirectKeeps == ASSUME RouteAssumption, RouteInv, EntryDirect PROVE RouteInv'
<1>1. /\ call.pc = "entry" /\ call.route.entryPath = "one" /\ contract' = contract /\ bal' = bal
      /\ owed' = owed /\ allowance' = allowance /\ phase' = "entryDirect"
      /\ ctx' = IF fixed THEN ctx ELSE [token |-> settlement, amount |-> call.amountIn]
      /\ call'.pc = "entryDirect" /\ call'.swap = call.amountIn /\ Same
  BY DEF EntryDirect, at, setsContext, next, Same
<1>2. Running /\ Holds /\ Owes /\ Allows /\ Directs
  BY <1>1, InCall
<1>3. Running' /\ settlement' = settlement /\ fixed' = fixed /\ paidIn' = paidIn
  BY <1>1, <1>2, StaysRunning DEF Running
<1>4. Holds' /\ Owes' /\ Allows'
  BY <1>1, <1>2 DEF Holds, Owes, Allows, Same
<1>5. Directs'
  BY <1>1, <1>2, <1>3 DEF Directs, Same
<1> QED
  BY <1>1, <1>3, <1>4, <1>5, CallKept

LEMMA EntryOwnKeeps == ASSUME RouteAssumption, RouteInv, EntryOwn PROVE RouteInv'
<1>1. /\ call.pc = "entry" /\ call.route.entryPath = "none" /\ contract' = contract /\ phase' = phase
      /\ bal' = debit(bal, settlement, call.amountIn) /\ owed' = credit(owed, settlement, call.amountIn)
      /\ allowance' = allowance /\ ctx' = ctx
      /\ call'.pc = "swapEntry" /\ call'.swap = call.amountIn /\ Same
  BY DEF EntryOwn, at, next, Same
<1>2. Running /\ Holds /\ Owes /\ Allows /\ Directs
  BY <1>1, InCall
<1>3. Running' /\ settlement' = settlement /\ fixed' = fixed /\ paidIn' = paidIn
  BY <1>1, <1>2, StaysRunning DEF Running
<1>4. Holds'
  BY <1>1, <1>2, <1>3 DEF Holds, paidIn
<1>5. Owes'
  <2>1. call.route.entryToken = settlement /\ call.amountIn \in Int
    BY <1>1, <1>2 DEF Running, RouteFits, fits
  <2>2. owed' = just(call.route.entryToken, call.amountIn)
    BY <1>1, <1>2, <2>1, Contracts, Credited DEF Owes
  <2> QED
    BY <1>1, <2>2 DEF Owes, Same
<1>6. Allows' /\ Directs'
  BY <1>1, <1>2 DEF Allows, Directs
<1> QED
  BY <1>1, <1>3, <1>4, <1>5, <1>6, CallKept

LEMMA EntryCallbackKeeps == ASSUME RouteAssumption, RouteInv, EntryCallback PROVE RouteInv'
<1>1. PICK asked \in 1..call.swap, out \in 1..MaxOut :
        /\ asked = expectedAmount /\ asked <= bal[settlement]
        /\ bal' = debit(bal, settlement, asked)
        /\ owed' = credit(owed, call.route.entryToken, out)
        /\ next("swapEntry", out)
  BY DEF EntryCallback
<1>2. /\ call.pc = "entryDirect" /\ contract' = contract /\ phase' = "unlock" /\ ctx' = NoContext
      /\ allowance' = allowance /\ call'.pc = "swapEntry" /\ call'.swap = out /\ Same
  <2>1. contract' = contract
    BY DEF EntryCallback
  <2> QED
    BY <1>1, <2>1, Nexts DEF EntryCallback
<1>3. Running /\ Holds /\ Owes /\ Allows /\ Directs
  BY <1>2, InCall
<1>4. asked = call.amountIn /\ out \in Nat \ {0} /\ call.amountIn <= call.before[settlement]
  <2>1. out \in Nat \ {0}
    BY DEF RouteAssumption
  <2>2. asked = call.amountIn
    BY <1>1, <1>2, <1>3 DEF expectedAmount, Directs
  <2> QED
    BY <1>1, <1>2, <1>3, <2>1, <2>2 DEF Holds
<1>5. Running' /\ settlement' = settlement /\ fixed' = fixed /\ paidIn' = paidIn
  BY <1>2, <1>3, <1>4, StaysRunning
<1>6. Holds'
  BY <1>1, <1>2, <1>3, <1>4, <1>5 DEF Holds, paidIn
<1>7. Owes'
  <2>1. owed' = just(call.route.entryToken, out)
    <3>1. call.route.entryToken \in Token /\ out \in Int
      BY <1>3, <1>4 DEF Running, RouteFits
    <3> QED
      BY <1>1, <1>2, <1>3, <3>1, Credited DEF Owes
  <2> QED
    BY <1>2, <2>1 DEF Owes, Same
<1>8. Allows' /\ Directs'
  BY <1>2, <1>3 DEF Allows, Directs
<1> QED
  BY <1>2, <1>5, <1>6, <1>7, <1>8, CallKept

LEMMA EntryApproveKeeps == ASSUME RouteAssumption, RouteInv, EntryApprove PROVE RouteInv'
<1>1. /\ call.pc = "entry" /\ call.route.entryPath = "two" /\ contract' = contract /\ phase' = phase
      /\ bal' = bal /\ owed' = owed /\ allowance' = [allowance EXCEPT ![settlement] = call.amountIn]
      /\ ctx' = ctx /\ call'.pc = "entryRouter" /\ Same
  BY DEF EntryApprove, at, approves, Same
<1>2. Running /\ Holds /\ Owes /\ Allows /\ Directs
  BY <1>1, InCall
<1>3. Running' /\ settlement' = settlement /\ fixed' = fixed /\ paidIn' = paidIn
  BY <1>1, <1>2, StaysRunning DEF Running
<1>4. Holds' /\ Owes' /\ Directs'
  BY <1>1, <1>2, <1>3 DEF Holds, Owes, Directs, Same
<1>5. Allows'
  BY <1>1, <1>2, <1>3 DEF Allows, Same, just
<1> QED
  BY <1>1, <1>3, <1>4, <1>5, CallKept

LEMMA EntryRouterKeeps == ASSUME RouteAssumption, RouteInv, EntryRouter PROVE RouteInv'
<1>1. PICK out \in 1..MaxOut :
        owed' = credit(owed, call.route.entryToken, out) /\ next("swapEntry", out)
  BY DEF EntryRouter
<1>2. /\ call.pc = "entryRouter" /\ contract' = contract /\ phase' = phase /\ ctx' = ctx
      /\ bal' = debit(bal, settlement, call.amountIn)
      /\ allowance' = debit(allowance, settlement, call.amountIn)
      /\ call'.pc = "swapEntry" /\ call'.swap = out /\ Same
  <2>1. contract' = contract
    BY DEF EntryRouter
  <2> QED
    BY <1>1, <2>1, Nexts DEF EntryRouter
<1>3. Running /\ Holds /\ Owes /\ Allows /\ Directs
  BY <1>2, InCall
<1>4. out \in Nat \ {0} /\ call.amountIn \in Int /\ call.route.entryToken \in Token
  BY <1>3 DEF RouteAssumption, Running, RouteFits
<1>5. ~fixed
  BY <1>2, <1>3 DEF Running, Allows
<1>6. Running' /\ settlement' = settlement /\ fixed' = fixed /\ paidIn' = paidIn
  BY <1>2, <1>3, <1>4, <1>5, StaysRunning DEF Running
<1>7. Holds'
  BY <1>2, <1>3, <1>6 DEF Holds, paidIn
<1>8. Owes'
  <2>1. owed' = just(call.route.entryToken, out)
    BY <1>1, <1>2, <1>3, <1>4, Credited DEF Owes
  <2> QED
    BY <1>2, <2>1 DEF Owes, Same
<1>9. Allows'
  BY <1>2, <1>3, <1>4, Contracts, Evened DEF Allows
<1>10. Directs'
  BY <1>2, <1>3 DEF Directs
<1> QED
  BY <1>2, <1>6, <1>7, <1>8, <1>9, <1>10, CallKept

(* A PAIR pool takes what is owed in one token for another.                     *)
LEMMA PairKeeps ==
  ASSUME RouteAssumption, RouteInv, NEW p, NEW q, NEW from, NEW to, pairSwap(p, q, from, to),
         \/ p = "swapEntry" /\ q = "swapExit" /\ from = call.route.entryToken /\ to = call.route.target
         \/ p = "swapExit" /\ q = "exit" /\ from = call.route.target /\ to = call.route.exitToken
  PROVE  RouteInv'
<1>1. PICK out \in 1..MaxOut :
        owed' = credit(debit(owed, from, call.swap), to, out) /\ next(q, out)
  BY DEF pairSwap
<1>2. /\ call.pc = p /\ contract' = contract /\ bal' = bal /\ allowance' = allowance
      /\ phase' = phase /\ ctx' = ctx /\ call'.pc = q /\ call'.swap = out /\ Same
  <2>1. contract' = contract
    BY DEF pairSwap
  <2> QED
    BY <1>1, <2>1, Nexts DEF pairSwap
<1>3. Running /\ Holds /\ Owes /\ Allows /\ Directs
  BY <1>2, InCall
<1>4. /\ out \in Nat \ {0} /\ call.swap \in Nat \ {0} /\ {from, to} \subseteq Token
      /\ call.amountIn <= call.before[settlement]
  BY <1>2, <1>3 DEF RouteAssumption, Running, RouteFits
<1>5. Running' /\ settlement' = settlement /\ fixed' = fixed /\ paidIn' = paidIn
  BY <1>2, <1>3, <1>4, StaysRunning
<1>6. Holds' /\ Allows' /\ Directs'
  BY <1>2, <1>3, <1>5 DEF Holds, Allows, Directs
<1>7. Owes'
  <2>1. owed = just(from, call.swap)
    BY <1>2, <1>3 DEF Owes
  <2>2. owed' = just(to, out)
    BY <1>1, <1>4, <2>1, Exchanged
  <2> QED
    BY <1>2, <2>2 DEF Owes, Same
<1> QED
  BY <1>2, <1>5, <1>6, <1>7, CallKept

LEMMA ExitOwnKeeps == ASSUME RouteAssumption, RouteInv, ExitOwn PROVE RouteInv'
<1>1. /\ call.pc = "exit" /\ call.route.exitPath = "none" /\ contract' = contract /\ phase' = phase
      /\ owed' = debit(owed, settlement, call.swap) /\ bal' = credit(bal, settlement, call.swap)
      /\ allowance' = allowance /\ ctx' = ctx
      /\ call'.pc = "finish" /\ call'.swap = call.swap /\ call'.output = call.swap /\ Same
  BY DEF ExitOwn, at, leaves, Same
<1>2. Running /\ Holds /\ Owes /\ Allows /\ Directs
  BY <1>1, InCall
<1>3. call.swap \in Nat \ {0} /\ call.route.exitToken = settlement /\ call.amountIn <= call.before[settlement]
  BY <1>1, <1>2 DEF Running, RouteFits, fits
<1>4. Running' /\ settlement' = settlement /\ fixed' = fixed /\ paidIn' = paidIn
  BY <1>1, <1>2, <1>3, StaysRunning
<1>5. Holds'
  BY <1>1, <1>2, <1>4 DEF Holds
<1>6. Owes'
  BY <1>1, <1>2, <1>3, Contracts, Evened DEF Owes
<1>7. Allows' /\ Directs'
  BY <1>1, <1>2 DEF Allows, Directs
<1> QED
  BY <1>1, <1>4, <1>5, <1>6, <1>7, CallKept

LEMMA ExitDirectKeeps == ASSUME RouteAssumption, RouteInv, ExitDirect PROVE RouteInv'
<1>1. /\ call.pc = "exit" /\ call.route.exitPath = "one" /\ contract' = contract /\ bal' = bal
      /\ owed' = owed /\ allowance' = allowance /\ phase' = "exitDirect"
      /\ ctx' = IF fixed THEN ctx ELSE [token |-> call.route.exitToken, amount |-> call.swap]
      /\ call'.pc = "exitDirect" /\ call'.swap = call.swap /\ Same
  BY DEF ExitDirect, at, setsContext, next, Same
<1>2. Running /\ Holds /\ Owes /\ Allows /\ Directs
  BY <1>1, InCall
<1>3. call.swap \in Nat \ {0} /\ call.amountIn <= call.before[settlement]
  BY <1>1, <1>2 DEF Running
<1>4. Running' /\ settlement' = settlement /\ fixed' = fixed /\ paidIn' = paidIn
  BY <1>1, <1>2, <1>3, StaysRunning
<1>5. Holds' /\ Owes' /\ Allows'
  BY <1>1, <1>2, <1>4 DEF Holds, Owes, Allows, Same
<1>6. Directs'
  BY <1>1, <1>2, <1>4 DEF Directs, Same
<1> QED
  BY <1>1, <1>4, <1>5, <1>6, CallKept

LEMMA ExitCallbackKeeps == ASSUME RouteAssumption, RouteInv, ExitCallback PROVE RouteInv'
<1>1. PICK asked \in 1..call.swap, out \in 1..MaxOut :
        /\ asked = expectedAmount
        /\ owed' = debit(owed, call.route.exitToken, asked)
        /\ bal' = credit(bal, settlement, out) /\ leaves(out)
  BY DEF ExitCallback
<1>2. /\ call.pc = "exitDirect" /\ contract' = contract /\ phase' = "unlock" /\ ctx' = NoContext
      /\ allowance' = allowance /\ call'.pc = "finish" /\ call'.swap = call.swap /\ call'.output = out /\ Same
  <2>1. contract' = contract
    BY DEF ExitCallback
  <2> QED
    BY <1>1, <2>1, Leaves DEF ExitCallback
<1>3. Running /\ Holds /\ Owes /\ Allows /\ Directs
  BY <1>2, InCall
<1>4. /\ out \in Nat /\ call.swap \in Nat \ {0} /\ asked = call.swap /\ call.route.exitToken \in Token
      /\ call.amountIn <= call.before[settlement]
  <2>1. asked = call.swap
    BY <1>1, <1>2, <1>3 DEF expectedAmount, Directs
  <2> QED
    BY <1>2, <1>3, <2>1 DEF RouteAssumption, Running, RouteFits
<1>5. Running' /\ settlement' = settlement /\ fixed' = fixed /\ paidIn' = paidIn
  BY <1>2, <1>3, <1>4, StaysRunning
<1>6. Holds'
  BY <1>1, <1>2, <1>3, <1>5 DEF Holds
<1>7. Owes'
  BY <1>1, <1>2, <1>3, <1>4, Evened DEF Owes
<1>8. Allows' /\ Directs'
  BY <1>2, <1>3 DEF Allows, Directs
<1> QED
  BY <1>2, <1>5, <1>6, <1>7, <1>8, CallKept

LEMMA ExitApproveKeeps == ASSUME RouteAssumption, RouteInv, ExitApprove PROVE RouteInv'
<1>1. /\ call.pc = "exit" /\ call.route.exitPath = "two" /\ contract' = contract /\ phase' = phase
      /\ owed' = debit(owed, call.route.exitToken, call.swap)
      /\ bal' = credit(bal, call.route.exitToken, call.swap)
      /\ allowance' = [allowance EXCEPT ![call.route.exitToken] = call.swap]
      /\ ctx' = ctx /\ call'.pc = "exitRouter" /\ call'.swap = call.swap /\ Same
  BY DEF ExitApprove, at, approves, Same
<1>2. Running /\ Holds /\ Owes /\ Allows /\ Directs
  BY <1>1, InCall
<1>3. call.swap \in Nat \ {0} /\ call.route.exitToken \in Token /\ call.amountIn <= call.before[settlement]
  BY <1>1, <1>2 DEF Running, RouteFits
<1>4. Running' /\ settlement' = settlement /\ fixed' = fixed /\ paidIn' = paidIn
  BY <1>1, <1>2, <1>3, StaysRunning
<1>5. Holds'
  BY <1>1, <1>2, <1>4 DEF Holds, Same
<1>6. Owes'
  BY <1>1, <1>2, <1>3, Evened DEF Owes
<1>7. Allows'
  BY <1>1, <1>2 DEF Allows, just, Same
<1>8. Directs'
  BY <1>1, <1>2 DEF Directs
<1> QED
  BY <1>1, <1>4, <1>5, <1>6, <1>7, <1>8, CallKept

LEMMA ExitRouterKeeps == ASSUME RouteAssumption, RouteInv, ExitRouter PROVE RouteInv'
<1>1. PICK out \in 1..MaxOut :
        bal' = credit(debit(bal, call.route.exitToken, call.swap), settlement, out) /\ leaves(out)
  BY DEF ExitRouter
<1>2. /\ call.pc = "exitRouter" /\ contract' = contract /\ phase' = phase /\ ctx' = ctx /\ owed' = owed
      /\ allowance' = debit(allowance, call.route.exitToken, call.swap)
      /\ call'.pc = "finish" /\ call'.swap = call.swap /\ call'.output = out /\ Same
  <2>1. contract' = contract
    BY DEF ExitRouter
  <2> QED
    BY <1>1, <2>1, Leaves DEF ExitRouter
<1>3. Running /\ Holds /\ Owes /\ Allows /\ Directs
  BY <1>2, InCall
<1>4. /\ out \in Nat /\ call.swap \in Nat \ {0} /\ call.route.exitToken \in Token
      /\ call.amountIn <= call.before[settlement]
  BY <1>2, <1>3 DEF RouteAssumption, Running, RouteFits
<1>5. Running' /\ settlement' = settlement /\ fixed' = fixed /\ paidIn' = paidIn
  BY <1>2, <1>3, <1>4, StaysRunning
<1>6. Holds'
  <2>1. paidIn \in [Token -> Int]
    BY <1>3, Contracts DEF Running, paidIn, debit
  <2>2. debit(bal, call.route.exitToken, call.swap) = paidIn
    BY <1>2, <1>3, <1>4, <2>1, TakenAgain DEF Holds
  <2> QED
    BY <1>1, <1>2, <1>5, <2>2 DEF Holds
<1>7. Owes'
  BY <1>2, <1>3 DEF Owes
<1>8. Allows'
  BY <1>2, <1>3, <1>4, Evened DEF Allows
<1>9. Directs'
  BY <1>2, <1>3 DEF Directs
<1> QED
  BY <1>2, <1>5, <1>6, <1>7, <1>8, <1>9, CallKept

--------------------------------------------------------------------------------
(* The ends of a call, and what lies between calls *)

LEMMA DeployKeeps == ASSUME RouteAssumption, RouteInv, Deploy PROVE RouteInv' /\ contract.kind = "none"
<1>1. PICK kind \in {"generic", "weth", "fixed"}, max \in 0..MaxAmountIn, floor \in 1..MaxAmountIn,
           token \in {"usdg", "weth"}, seed \in Nat :
        deploys(kind, max, floor, token, seed) /\ token = (IF kind = "weth" THEN "weth" ELSE "usdg")
  <2>1. PICK seed \in Seeds :
          \/ \E minimum \in Seeds : DeployGeneric(seed, minimum) \/ DeployFixed(seed, minimum)
          \/ \E max, floor \in 0..MaxAmountIn : DeployWeth(seed, max, floor)
    BY DEF Deploy
  <2>2. seed \in Nat /\ MaxAmountIn \in 0..MaxAmountIn /\ MinGrossProfit \in 1..MaxAmountIn
    BY DEF RouteAssumption
  <2>3. CASE \E minimum \in Seeds : DeployGeneric(seed, minimum)
    BY <2>2, <2>3 DEF DeployGeneric
  <2>4. CASE \E minimum \in Seeds : DeployFixed(seed, minimum)
    BY <2>2, <2>4 DEF DeployFixed
  <2>5. CASE \E max, floor \in 0..MaxAmountIn : DeployWeth(seed, max, floor)
    <3>1. PICK max \in 0..MaxAmountIn, floor \in 0..MaxAmountIn : DeployWeth(seed, max, floor)
      BY <2>5
    <3>2. floor \in 1..MaxAmountIn /\ deploys("weth", max, floor, "weth", seed)
      BY <3>1 DEF DeployWeth, RouteAssumption
    <3> QED
      BY <2>2, <3>2
  <2> QED
    BY <2>1, <2>3, <2>4, <2>5
<1>2. call.pc = "idle"
  BY <1>1, InCall DEF deploys, Running, Deployed
<1>3. Idle /\ contract = NoContract /\ bal = Nothing
  BY <1>1, <1>2, OutOfCall DEF deploys, Idle, Deployed
<1>4. /\ contract' = [kind |-> kind, max |-> max, floor |-> floor] /\ bal' = [Nothing EXCEPT ![token] = seed]
      /\ owed' = owed /\ allowance' = allowance /\ phase' = phase /\ ctx' = ctx /\ call' = call
      /\ contract.kind = "none"
  BY <1>1, <1>3 DEF deploys
<1>5. settlement' = token
  BY <1>1, <1>4 DEF settlement
<1>6. bal' \in [Token -> Nat] /\ \A t \in Token \ {token} : bal'[t] = 0
  BY <1>4 DEF Nothing
<1>7. contract' \in [kind : {"none", "generic", "weth", "fixed"}, max : 0..MaxAmountIn, floor : 0..MaxAmountIn]
      /\ Deployed' /\ contract' # NoContract
  <2>1. floor \in 0..MaxAmountIn
    BY DEF RouteAssumption
  <2> QED
    BY <1>4, <2>1 DEF Deployed, NoContract
<1>8. Idle'
  BY <1>3, <1>4, <1>5, <1>6, <1>7 DEF Idle, NothingOpen, NoCall
<1> QED
  BY <1>2, <1>4, <1>7, <1>8 DEF RouteInv

LEMMA BeginKeeps ==
  ASSUME RouteAssumption, RouteInv, Begin
  PROVE  RouteInv' /\ call.pc = "idle" /\ call'.pc # "idle" /\ call'.before = bal
<1>1. PICK r \in Routes \union {FixedRoute}, amountIn \in 0..MaxAmountIn + 1, minProfit \in 0..MinGrossProfit + 1 :
        /\ begins(r, amountIn, minProfit)
        /\ \/ fixed /\ r = FixedRoute
           \/ ~fixed /\ validRoute(r) /\ bal[settlement] >= amountIn
  BY DEF Begin, Execute, ExecuteFixed
<1>2. /\ call.pc = "idle" /\ contract.kind # "none" /\ amountIn > 0 /\ minProfit >= contract.floor
      /\ phase' = "unlock" /\ contract' = contract /\ bal' = bal /\ owed' = owed /\ allowance' = allowance
      /\ ctx' = ctx
      /\ call' = [pc |-> "entry", route |-> r, amountIn |-> amountIn, minProfit |-> minProfit,
                  swap |-> 0, output |-> 0, before |-> bal]
  BY <1>1 DEF begins
<1>3. Idle /\ Deployed /\ bal \in [Token -> Nat]
  BY <1>2, OutOfCall DEF Idle, NoContract
<1>4. settlement' = settlement /\ fixed' = fixed
  BY <1>2 DEF settlement, fixed
<1>5. RouteFits(r)
  <2>1. {r.target, r.entryToken, r.exitToken} \subseteq Token /\ {r.entryPath, r.exitPath} \subseteq {"none", "one", "two"}
    BY DEF RouteAssumption
  <2>2. CASE fixed /\ r = FixedRoute
    BY <2>1, <2>2 DEF RouteFits, RouteAssumption, fits, settlement, fixed
  <2>3. CASE validRoute(r)
    BY <2>1, <2>3 DEF RouteFits, validRoute
  <2> QED
    BY <1>1, <2>2, <2>3
<1>6. Running'
  <2>1. amountIn \in Nat \ {0} /\ minProfit \in Int
    BY <1>2 DEF RouteAssumption
  <2>2. RouteFits(call.route)' /\ Deployed'
    BY <1>2, <1>3, <1>4, <1>5 DEF RouteFits, fits, Deployed
  <2>3. \A t \in Token \ {settlement} : bal[t] = 0
    BY <1>2, <1>3 DEF Idle, NothingOpen
  <2>4. fixed => r.entryPath = "one" /\ r.exitPath = "one"
    BY <1>1 DEF RouteAssumption
  <2>5. ~fixed => amountIn <= bal[settlement]
    BY <1>1, <2>1, <1>3, Contracts
  <2> QED
    BY <1>2, <1>3, <1>4, <2>1, <2>2, <2>3, <2>4, <2>5 DEF Running
<1>7. Holds' /\ Owes' /\ Allows' /\ Directs'
  BY <1>2, <1>3 DEF Holds, Owes, Allows, Directs, Idle, NothingOpen
<1> QED
  BY <1>2, <1>6, <1>7 DEF RouteInv

(* Whatever ends a call leaves nothing open. *)
LEMMA Closes ==
  ASSUME RouteInv, Deployed, contract' = contract, call' = NoCall, phase' = "none", ctx' = NoContext,
         owed' = Nothing, allowance' = Nothing, bal' \in [Token -> Nat],
         \A t \in Token \ {settlement} : bal'[t] = 0
  PROVE  RouteInv'
<1>1. settlement' = settlement /\ Deployed' /\ contract # NoContract
  BY DEF settlement, Deployed, NoContract
<1>2. Idle'
  BY <1>1 DEF Idle, NothingOpen
<1> QED
  BY <1>2 DEF RouteInv, NoCall

(* At its end the executor holds what it held, less what it paid in, and what   *)
(* came out.                                                                    *)
LEMMA FinishKeeps == ASSUME RouteAssumption, RouteInv, Finish PROVE RouteInv' /\ Outside!Earns(promise)
<1>1. /\ call.pc = "finish" /\ grossProfit >= call.minProfit /\ contract' = contract /\ call' = NoCall
      /\ phase' = "none" /\ bal' = bal /\ owed' = owed /\ allowance' = allowance /\ ctx' = ctx
  BY DEF Finish
<1>2. Running /\ Holds /\ Owes /\ Allows /\ Directs
  BY <1>1, InCall
<1>3. /\ call.amountIn \in Nat /\ call.output \in Nat /\ call.before \in [Token -> Nat] /\ settlement \in Token
      /\ call.amountIn <= call.before[settlement] /\ call.minProfit \in Int /\ call.minProfit >= contract.floor
      /\ contract.floor \in Int
  BY <1>1, <1>2, Contracts DEF Running, Deployed, RouteAssumption
<1>4. /\ bal = credit(paidIn, settlement, call.output)
      /\ \A t \in Token \ {settlement} : bal[t] = call.before[t]
      /\ bal[settlement] = call.before[settlement] - call.amountIn + call.output
  <2>1. bal = credit(paidIn, settlement, call.output)
    BY <1>1, <1>2 DEF Holds
  <2> QED
    BY <1>3, <2>1 DEF credit, debit, paidIn
<1>5. bal[settlement] >= call.before[settlement] + contract.floor
  <2>1. grossProfit = call.output - call.amountIn
    BY <1>3, <1>4 DEF grossProfit
  <2>2. call.before[settlement] \in Int
    BY <1>3
  <2> QED
    BY <1>1, <1>3, <1>4, <2>1, <2>2
<1>6. bal \in [Token -> Nat]
  <2>1. ASSUME NEW t \in Token PROVE bal[t] \in Nat
    <3>1. CASE t = settlement
      <4>1. call.before[settlement] \in Nat
        BY <1>3
      <4> QED
        BY <1>3, <1>4, <3>1, <4>1
    <3>2. CASE t # settlement
      BY <1>3, <1>4, <3>2
    <3> QED
      BY <3>1, <3>2
  <2> QED
    BY <1>3, <1>4, <2>1 DEF credit, debit, paidIn
<1>7. \A t \in Token \ {settlement} : bal[t] = 0
  BY <1>2, <1>4 DEF Running
<1>8. RouteInv'
  <2>1. owed' = Nothing /\ allowance' = Nothing /\ ctx' = NoContext
    BY <1>1, <1>2 DEF Owes, Allows, Directs
  <2>2. Deployed
    BY <1>2 DEF Running
  <2> QED
    BY <1>1, <1>6, <1>7, <2>1, <2>2, Closes
<1>9. Outside!Earns(promise)
  <2>1. heldOutside = call.before /\ heldOutside' = bal /\ call.pc # "idle" /\ call'.pc = "idle"
    BY <1>1 DEF heldOutside, NoCall
  <2>2. \A t \in Token \ {settlement} :
          bal[t] >= call.before[t] /\ bal[t] <= call.before[t] + Nothing[t]
    <3> SUFFICES ASSUME NEW t \in Token \ {settlement}
                 PROVE  bal[t] >= call.before[t] /\ bal[t] <= call.before[t] + Nothing[t]
      OBVIOUS
    <3>1. bal[t] = call.before[t] /\ call.before[t] \in Int /\ Nothing[t] = 0
      BY <1>3, <1>4 DEF Nothing
    <3> QED
      BY <3>1
  <2> QED
    BY <1>5, <2>1, <2>2 DEF Outside!Earns, promise
<1> QED
  BY <1>8, <1>9

LEMMA RevertKeeps == ASSUME RouteAssumption, RouteInv, Reverts PROVE RouteInv' /\ Outside!DoesNothing
<1>1. /\ call.pc # "idle" /\ contract' = contract /\ call' = NoCall /\ phase' = "none" /\ bal' = call.before
      /\ owed' = Nothing /\ allowance' = Nothing /\ ctx' = NoContext
  BY DEF Reverts
<1>2. Running
  BY <1>1, InCall
<1>3. RouteInv'
  BY <1>1, <1>2, Closes DEF Running
<1> QED
  BY <1>1, <1>3 DEF Outside!DoesNothing, heldOutside, NoCall

LEMMA WithdrawKeeps ==
  ASSUME RouteAssumption, RouteInv, NEW t \in Token, NEW amount \in 1..bal[t], Withdraw(t, amount)
  PROVE  RouteInv' /\ Outside!Withdrawn(t, amount) /\ amount \in 0..bal[t]
<1>1. /\ call.pc = "idle" /\ call' = call /\ contract' = contract /\ bal' = [bal EXCEPT ![t] = @ - amount]
      /\ owed' = owed /\ allowance' = allowance /\ phase' = phase /\ ctx' = ctx
  BY DEF Withdraw
<1>2. Idle /\ bal \in [Token -> Nat] /\ bal[t] \in Nat
  BY <1>1, OutOfCall DEF Idle
<1>3. /\ bal' \in [Token -> Nat] /\ \A u \in Token : bal[u] = 0 => bal'[u] = 0
      /\ contract # NoContract /\ amount \in 0..bal[t]
  <2>1. bal' \in [Token -> Nat] /\ \A u \in Token : bal[u] = 0 => bal'[u] = 0
    BY <1>1, <1>2
  <2>2. contract # NoContract
    BY <1>2, NothingIs DEF Idle
  <2> QED
    BY <1>2, <2>1, <2>2
<1>4. settlement' = settlement /\ (Deployed <=> Deployed')
  BY <1>1 DEF settlement, Deployed
<1>5. Idle'
  BY <1>1, <1>2, <1>3, <1>4 DEF Idle, NothingOpen
<1> QED
  BY <1>1, <1>3, <1>5 DEF RouteInv, Outside!Withdrawn, heldOutside

--------------------------------------------------------------------------------
(* The whole *)

Inside ==
  \/ EntryOwn \/ EntryDirect \/ EntryCallback \/ EntryApprove \/ EntryRouter
  \/ SwapEntry \/ SwapExit
  \/ ExitOwn \/ ExitDirect \/ ExitCallback \/ ExitApprove \/ ExitRouter

LEMMA InsideKeeps == ASSUME RouteAssumption, RouteInv, Inside PROVE RouteInv'
<1>1. CASE SwapEntry
  BY <1>1, PairKeeps DEF SwapEntry
<1>2. CASE SwapExit
  BY <1>2, PairKeeps DEF SwapExit
<1> QED
  BY <1>1, <1>2, EntryOwnKeeps, EntryDirectKeeps, EntryCallbackKeeps, EntryApproveKeeps, EntryRouterKeeps,
     ExitOwnKeeps, ExitDirectKeeps, ExitCallbackKeeps, ExitApproveKeeps, ExitRouterKeeps DEF Inside

LEMMA InsideUnseen == ASSUME Inside PROVE UNCHANGED <<heldOutside, call.pc = "idle">>
<1>0. contract' = contract
  BY DEF Inside, EntryOwn, EntryDirect, EntryCallback, EntryApprove, EntryRouter, SwapEntry, SwapExit, pairSwap,
     ExitOwn, ExitDirect, ExitCallback, ExitApprove, ExitRouter, setsContext
<1>1. call.pc # "idle" /\ call'.pc # "idle" /\ call'.before = call.before
  <2>1. CASE EntryOwn \/ EntryDirect \/ ExitDirect
    BY <1>0, <2>1, Nexts DEF EntryOwn, EntryDirect, ExitDirect, at, setsContext, Same
  <2>2. CASE EntryCallback
    <3>1. PICK out : next("swapEntry", out)
      BY <2>2 DEF EntryCallback
    <3> QED
      BY <1>0, <2>2, <3>1, Nexts DEF EntryCallback, Same
  <2>3. CASE EntryRouter
    <3>1. PICK out : next("swapEntry", out)
      BY <2>3 DEF EntryRouter
    <3> QED
      BY <1>0, <2>3, <3>1, Nexts DEF EntryRouter, Same
  <2>4. ASSUME NEW p \in {"swapEntry", "swapExit"}, NEW q \in {"swapExit", "exit"}, NEW from, NEW to,
               pairSwap(p, q, from, to)
        PROVE  call.pc # "idle" /\ call'.pc # "idle" /\ call'.before = call.before
    <3>1. PICK out : next(q, out)
      BY <2>4 DEF pairSwap
    <3> QED
      BY <1>0, <2>4, <3>1, Nexts DEF pairSwap, Same
  <2>5. CASE ExitOwn
    BY <1>0, <2>5, Leaves DEF ExitOwn, at, Same
  <2>6. CASE ExitCallback
    <3>1. PICK out : leaves(out)
      BY <2>6 DEF ExitCallback
    <3> QED
      BY <1>0, <2>6, <3>1, Leaves DEF ExitCallback, Same
  <2>7. CASE ExitRouter
    <3>1. PICK out : leaves(out)
      BY <2>7 DEF ExitRouter
    <3> QED
      BY <1>0, <2>7, <3>1, Leaves DEF ExitRouter, Same
  <2>8. CASE EntryApprove \/ ExitApprove
    <3>1. PICK p \in {"entryRouter", "exitRouter"} : call' = [call EXCEPT !.pc = p]
      BY <2>8 DEF EntryApprove, ExitApprove, approves
    <3> QED
      BY <2>8, <3>1 DEF EntryApprove, ExitApprove, at
  <2>9. CASE SwapEntry \/ SwapExit
    BY <2>4, <2>9 DEF SwapEntry, SwapExit
  <2> QED
    BY <2>1, <2>2, <2>3, <2>5, <2>6, <2>7, <2>8, <2>9 DEF Inside
<1> QED
  BY <1>1 DEF heldOutside

Seen ==
  \/ contract.kind = "none"
  \/ Outside!Opens \/ Outside!DoesNothing \/ Outside!Earns(promise)
  \/ \E t \in Token : \E amount \in 0..bal[t] : Outside!Withdrawn(t, amount)

LEMMA RouteInit_ == ASSUME RouteAssumption, RouteInit PROVE RouteInv
<1>1. contract = NoContract /\ call = NoCall /\ bal = Nothing /\ NothingOpen
  BY NothingIs DEF RouteInit, NothingOpen
<1>2. NoContract \in [kind : {"none", "generic", "weth", "fixed"}, max : 0..MaxAmountIn, floor : 0..MaxAmountIn]
  BY DEF NoContract, RouteAssumption
<1>3. Idle
  BY <1>1, NothingIs DEF Idle
<1> QED
  BY <1>1, <1>2, <1>3 DEF RouteInv, NoCall

LEMMA RouteStep ==
  ASSUME RouteAssumption, RouteInv, [RouteNext]_routeVars
  PROVE  RouteInv' /\ (Seen \/ UNCHANGED <<heldOutside, call.pc = "idle">>)
<1>1. CASE Deploy
  BY <1>1, DeployKeeps DEF Seen
<1>2. CASE Begin
  <2>1. RouteInv' /\ call.pc = "idle" /\ call'.pc # "idle" /\ call'.before = bal
    BY <1>2, BeginKeeps
  <2> QED
    BY <2>1 DEF Seen, Outside!Opens, heldOutside
<1>3. CASE Inside
  BY <1>3, InsideKeeps, InsideUnseen
<1>4. CASE Finish
  BY <1>4, FinishKeeps DEF Seen
<1>5. CASE Reverts
  BY <1>5, RevertKeeps DEF Seen
<1>6. CASE \E t \in Token : \E amount \in 1..bal[t] : Withdraw(t, amount)
  <2>1. PICK t \in Token : \E amount \in 1..bal[t] : Withdraw(t, amount)
    BY <1>6
  <2>2. PICK amount \in 1..bal[t] : Withdraw(t, amount)
    BY <2>1
  <2>3. RouteInv' /\ Outside!Withdrawn(t, amount) /\ amount \in 0..bal[t]
    BY <2>2, WithdrawKeeps
  <2> QED
    BY <2>3 DEF Seen
<1>7. CASE UNCHANGED routeVars
  <2>1. RouteInv'
    BY <1>7 DEF routeVars, RouteInv, Idle, NothingOpen, Running, Deployed, RouteFits, Holds, Owes, Allows, Directs,
       paidIn, settlement, fixed
  <2> QED
    BY <1>7, <2>1 DEF routeVars, heldOutside
<1> QED
  BY <1>1, <1>2, <1>3, <1>4, <1>5, <1>6, <1>7 DEF RouteNext, Inside

LEMMA RouteFollows == ASSUME RouteAssumption, RouteInv PROVE NothingOpen /\ RouteTypeOK
<1>1. CASE call.pc = "idle"
  <2>1. Idle /\ NoContext \in [token : Token \union {"none"}, amount : Nat]
    BY <1>1, OutOfCall DEF NoContext
  <2> QED
    BY <1>1, <2>1, NothingIs DEF RouteInv, Idle, NothingOpen, RouteTypeOK
<1>2. CASE call.pc # "idle"
  <2>1. Running /\ Holds /\ Owes /\ Allows /\ Directs
    BY <1>2, InCall
  <2>2. settlement \in Token /\ call.route.entryToken \in Token /\ call.route.exitToken \in Token
        /\ call.route.target \in Token /\ call.amountIn \in Nat /\ call.before \in [Token -> Nat]
        /\ (call.pc \notin {"entry", "entryRouter"} => call.swap \in Nat)
        /\ (call.pc \notin {"entry", "entryDirect", "entryRouter"} => call.amountIn <= call.before[settlement])
    BY <2>1, Contracts DEF Running, RouteFits
  <2>3. bal \in [Token -> Nat]
    <3>1. call.pc \notin {"entry", "entryDirect", "entryRouter"} => paidIn \in [Token -> Nat]
      <4>1. call.before[settlement] \in Nat
        BY <2>2
      <4>2. call.amountIn <= call.before[settlement] => call.before[settlement] - call.amountIn \in Nat
        BY <2>2, <4>1
      <4> QED
        BY <2>2, <4>2 DEF paidIn, debit
    <3>2. CASE call.pc \in {"entry", "entryDirect", "entryRouter"}
      BY <2>1, <2>2, <3>2 DEF Holds
    <3>3. CASE call.pc \in {"swapEntry", "swapExit", "exit", "exitDirect"}
      BY <2>1, <3>1, <3>3 DEF Holds
    <3>4. CASE call.pc = "exitRouter"
      BY <2>1, <2>2, <3>1, <3>4 DEF Holds, credit
    <3>5. CASE call.pc = "finish"
      BY <2>1, <2>2, <3>1, <3>5 DEF Holds, credit, Running
    <3> QED
      BY <2>1, <3>2, <3>3, <3>4, <3>5 DEF Running
  <2>4. owed \in [Token -> Int]
    BY <2>1, <2>2, NothingIs DEF Owes, Running, just
  <2>5. allowance \in [Token -> Nat]
    BY <2>1, <2>2, NothingIs DEF Allows, just
  <2>6. phase \in {"none", "unlock", "entryDirect", "exitDirect"}
    BY <2>1 DEF Directs
  <2>7. ctx \in [token : Token \union {"none"}, amount : Nat]
    BY <2>1, <2>2 DEF Directs, NoContext
  <2> QED
    BY <1>2, <2>3, <2>4, <2>5, <2>6, <2>7 DEF RouteInv, RouteTypeOK, NothingOpen
<1> QED
  BY <1>1, <1>2

(* For any routes and seeds: outside a call nothing is open and nothing but the *)
(* settlement token is held, in all three contracts.                            *)
THEOREM RoutesClosed == ASSUME RouteAssumption PROVE RouteSpec => [](NothingOpen /\ RouteTypeOK)
<1>1. RouteInit => RouteInv
  BY RouteInit_
<1>2. RouteInv /\ [RouteNext]_routeVars => RouteInv'
  BY RouteStep
<1>3. RouteInv => NothingOpen /\ RouteTypeOK
  BY RouteFollows
<1> QED
  BY <1>1, <1>2, <1>3, PTL DEF RouteSpec

(* Seen from outside, a call earns its contract's floor or does nothing, also   *)
(* in the fixed contract, which goes by what its pools report.                  *)
THEOREM RoutesEarn == ASSUME RouteAssumption PROVE RouteSpec => EarnsOrNothing
<1>1. RouteInit => RouteInv
  BY RouteInit_
<1>2. RouteInv /\ [RouteNext]_routeVars => RouteInv'
  BY RouteStep
<1>3. RouteInv /\ [RouteNext]_routeVars =>
        [\/ contract.kind = "none"
         \/ Outside!Opens \/ Outside!DoesNothing \/ Outside!Earns(promise)
         \/ \E t \in Token : \E amount \in 0..bal[t] : Outside!Withdrawn(t, amount)]_<<heldOutside, call.pc = "idle">>
  BY RouteStep DEF Seen
<1> QED
  BY <1>1, <1>2, <1>3, PTL DEF RouteSpec, EarnsOrNothing
================================================================================
