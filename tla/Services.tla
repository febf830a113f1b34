------------------------------- MODULE Services -------------------------------
(* What goes on around the signatures, checked in one run: the watcher's        *)
(* scheduler, the Earn lane from a market signal to a recorded outcome, and the *)
(* board's hot poll, its source catalogs and its publication, the executors, a  *)
(* search of the Global program, the sequencer feed, the budgets of the managed *)
(* endpoint, and the health check.  They share no variable; a behaviour is one  *)
(* of a single part, and the rest stands still.                                 *)
EXTENDS MCScheduler

CONSTANTS
  Parts,          \* the parts a run explores
  HotBlocks, HotReorgs, HotFailures, HotRestarts,               \* bounds of the hot poll
  Confirmations, MaxBlockRange, MaxLagBlocks, ReorgLookback,    \* EVENT_* of the board
  SourceLaunch, SourcePool, PairBlock,                          \* what the chain's launchers and pools hold
  BlockRange, Batches, ChainBatches,                            \* *_CATALOG_* of the board
  SourceBlocks, SourceFailures, SourceRestarts,                 \* bounds of the catalogs
  MaxBad,         \* bound: launch logs an adapter cannot decode or store
  MaxUnwritten,   \* bound: failed writes of the chain catalog
  MaxPublished, MaxGaps, MaxCrashes,                            \* bounds of the publications
  MaxBusy,        \* bound: SQLite transactions that fail
  PairToken, PairRoute, FixedRoute, MaxAmountIn, MinGrossProfit, \* the executors over PAIR pools
  PairSeeds, PairOut, PairHeld,                                 \* their deployments, and bounds
  Requested,      \* the first number asked of the sequencer feed
  MaxNumber, MaxSockets, MaxFrames,                             \* bounds of the feed
  WakeCap, DailyCap, EventCap, Batch,                           \* budgets of managed calls, and calls of one body
  MaxDay,         \* bound: days
  Ages, MaxUntold \* ages the health check reads; bound: messages it never learnt of

(* The lookback is within a range, as deployed; the catalogs begin at block 1,  *)
(* and a pool is no older than the launch of its token; bodies are not empty.   *)
ASSUME ServicesAssumption ==
  /\ {Confirmations, MaxBlockRange, MaxLagBlocks, ReorgLookback, BlockRange, WakeCap, DailyCap, EventCap} \subseteq Nat
  /\ 0 < MaxBlockRange /\ ReorgLookback <= MaxBlockRange
  /\ SourceLaunch \subseteq [by : {"long", "doppler"}, block : Nat \ {0}]
  /\ SourcePool \subseteq [block : Nat, of : SourceLaunch] /\ \A p \in SourcePool : p.of.block <= p.block
  /\ PairBlock \subseteq Nat
  /\ Requested \in Nat \ {0} /\ MaxNumber \in Nat /\ Batch \subseteq Nat \ {0}
  /\ {MaxAmountIn, MinGrossProfit} \subseteq Nat /\ 0 < MinGrossProfit /\ MinGrossProfit <= MaxAmountIn
  /\ PairSeeds \subseteq Nat /\ {PairOut, PairHeld} \subseteq Nat

(* There is a first day. *)
ASSUME BoundsAssumption == {HotBlocks, SourceBlocks, MaxUntold} \subseteq Nat /\ MaxDay \in Nat \ {0}

VARIABLES
  part,
  chain, cursor, hotSaved, queue, poll, first, gaps, read, torn, hotFaults,
  head, mem, disk, checkpoint, sourceCycle, hot, refresh, ingested, sourceFaults,
  catalog, obs, prev, cycle, feed, log, ledger, saved, faults,
  height, hostClock, flight, waiting, arm, child, shots, quarantine, swaps, deaths,
  held, allowed, phase, ctx, call,
  contract, float, accounts, routerMay, unlock, direct, routeCall,
  file, search,
  lastNumber, sockets, timer, stopped, heard, reported, frameHoles, firstNumber, badFrames,
  today, budgetFile, budgets, wakeCalls, routed, sent, shared,
  health, told, since, unrecorded

(* A launch of each adapter, in two blocks, and the pools of their tokens. *)
launches == {[by |-> "long", block |-> 1], [by |-> "doppler", block |-> 2]}
poolsOf == {p \in [block : {1, 2}, of : launches] : p.of.block <= p.block}

Hot == INSTANCE HotLog
  WITH saved <- hotSaved, faults <- hotFaults,
       MaxBlock <- HotBlocks, MaxReorgs <- HotReorgs, MaxFailures <- HotFailures, MaxRestarts <- HotRestarts

Source == INSTANCE SourceCatalog
  WITH cycle <- sourceCycle, owed <- ingested, faults <- sourceFaults,
       Launch <- SourceLaunch, MaxBlock <- SourceBlocks, MaxFailures <- SourceFailures, MaxRestarts <- SourceRestarts

Board == INSTANCE Publication WITH Candidate <- Value

(* Two routes that share a pool. *)
routePools == [r1 |-> {"a"}, r2 |-> {"a", "b"}]

Shot == INSTANCE EarnShot
  WITH now <- hostClock, Pool <- {"a", "b"}, Route <- DOMAIN routePools, RoutePools <- routePools,
       InitialNet <- 3, GasCosts <- {1, 4, 5}, Ceiling <- 4,
       MaxSwaps <- 2, MaxShots <- 2, MaxArms <- 2, MaxDeaths <- 1

(* Plans over one pool of each kind, and a pool share "b" of s and a.           *)
share == [b |-> {"s", "a"}]
canonicalPools ==
  [v2 |-> [p2 |-> {"s", "a"}], v3 |-> [p3 |-> {"s", "a"}], v4 |-> [p4 |-> {"s", "a"}],
   earnSwap |-> share, earnAdd |-> share, earnRemove |-> share]
planStep(kind, pool, in, out, amount) ==
  [kind |-> kind, pool |-> pool, in |-> in, out |-> out, amount |-> amount, minimum |-> 0]
planOf(residuals, actions) ==
  [settlement |-> "s", tracked |-> residuals, actions |-> actions, minimumProfit |-> 1]
plans == {
  planOf([s |-> 0, a |-> 1], <<planStep("v3", "p3", "s", "a", 0), planStep("v4", "p4", "a", "s", 0)>>),
  planOf([s |-> 0, a |-> 0], <<planStep("v4", "p4", "s", "a", 1), planStep("v2", "p2", "a", "s", 1)>>),
  planOf([s |-> 0, a |-> 1, b |-> 0],
         <<planStep("earnSwap", "b", "s", "a", 1), planStep("earnAdd", "b", "none", "b", 0),
           planStep("earnRemove", "b", "b", "none", 0)>>),
  planOf([s |-> 0, b |-> 0], <<planStep("earnRemove", "b", "b", "none", 0)>>),
  planOf([a |-> 0], <<planStep("v2", "p2", "s", "a", 1)>>)}

Universal == INSTANCE UniversalExecutor
  WITH bal <- held, allowance <- allowed,
       Token <- {"s", "a", "b"}, Pools <- canonicalPools, Plan <- plans, Principal <- 0..2,
       MaxOut <- 3, MaxHeld <- 2

(* Every way over V3 to a quote token, and routes that are not valid.           *)
routeOf(entryPath, entryToken, exitToken, exitPath) ==
  [target |-> "t", entryPath |-> entryPath, entryToken |-> entryToken,
   exitToken |-> exitToken, exitPath |-> exitPath, entryPool |-> 1, exitPool |-> 2]
tokens == {"usdg", "weth", "q", "t"}
fixedRoute == routeOf("one", "q", "weth", "one")
pairRoutes == {
  routeOf("none", "usdg", "q", "one"), routeOf("one", "q", "usdg", "none"),
  routeOf("two", "q", "q", "two"), routeOf("one", "usdg", "weth", "none"),
  [fixedRoute EXCEPT !.exitPool = 1], [fixedRoute EXCEPT !.target = "q"],
  routeOf("none", "weth", "usdg", "one")}

Routed == INSTANCE RouteExecutor
  WITH bal <- float, owed <- accounts, allowance <- routerMay, phase <- unlock, ctx <- direct, call <- routeCall,
       Token <- PairToken, Routes <- PairRoute, Seeds <- PairSeeds, MaxOut <- PairOut, MaxHeld <- PairHeld

ASSUME RoutesAssumption == Routed!RouteAssumption

(* One asset of the configuration and two others, of which one search checks    *)
(* one; a route over a pool share; a market that yields nothing and one that    *)
(* does.                                                                        *)
searchPools == [USDG |-> {"p1", "p2"}, WETH |-> {"p1", "p3"}, SPX |-> {"p2", "p3"}]
routeAt(id, rank, bpt, pools) == [id |-> id, rank |-> rank, bpt |-> bpt, pools |-> pools]
searchRoutes ==
  [USDG |-> <<routeAt("u1", 1, TRUE, {"p1"}), routeAt("u2", 2, FALSE, {"p1", "p2"})>>,
   WETH |-> <<routeAt("w1", 1, FALSE, {"p1", "p3"})>>, SPX |-> <<routeAt("x1", 1, FALSE, {"p2", "p3"})>>]
searchAssets == <<"USDG", "WETH", "SPX">>
byAddress == <<"WETH", "SPX", "USDG">>
searchWakes == {{}, {"p1"}, {"p2", "p3"}}
fundings == [flash |-> 500, inventory |-> 2]
familiar == <<1, 2, 3, 4, 5, 6, 8>>
curves == {[peak |-> 4, height |-> 0], [peak |-> 4, height |-> 4]}
Searching == INSTANCE GlobalSearch
  WITH Asset <- searchAssets, ByAddress <- byAddress, Seeds <- {"USDG"}, Valued <- DOMAIN searchRoutes,
       AssetPools <- searchPools, Routes <- searchRoutes, Wakes <- searchWakes,
       Balance <- fundings, Familiar <- familiar, MaxDigits <- 3, Curve <- curves, Required <- 2,
       MaxChecks <- 2, MaxAdmitted <- 2, MaxRoutes <- 2, MaxEventRoutes <- 2, MaxManaged <- 2, MaxRefreshes <- 1

Sequencer == INSTANCE FeedClient
  WITH last <- lastNumber, holes <- frameHoles, from <- firstNumber, bad <- badFrames, MaxBad <- MaxFrames

(* The Global program's file, of its resident worker and its children; and the  *)
(* board's.                                                                     *)
Fallback == INSTANCE RpcBudget
  WITH day <- today, file <- budgetFile, mine <- budgets, wake <- wakeCalls,
       Searcher <- {"worker", "child"}, Resident <- {"worker"}, Quoting <- {}
HotRpc == INSTANCE RpcBudget
  WITH day <- today, file <- budgetFile, mine <- budgets, wake <- wakeCalls,
       Searcher <- {}, Resident <- {}, Quoting <- {"board"}

Watched == INSTANCE Alerts
  WITH record <- health, lost <- unrecorded, MaxLost <- MaxUntold

hotVars == <<chain, cursor, hotSaved, queue, poll, first, gaps, read, torn, hotFaults>>
sourceVars == <<head, mem, disk, checkpoint, sourceCycle, hot, refresh, ingested, sourceFaults>>
boardVars == <<catalog, obs, prev, cycle, feed, log, ledger, saved, faults>>
shotVars == <<height, hostClock, flight, waiting, arm, child, shots, quarantine, swaps, deaths>>
universalVars == <<held, allowed, phase, ctx, call>>
routedVars == <<contract, float, accounts, routerMay, unlock, direct, routeCall>>
executorVars == <<universalVars, routedVars>>
searchVars == <<file, search>>
sequencerVars == <<lastNumber, sockets, timer, stopped, heard, reported, frameHoles, firstNumber, badFrames>>
budgetVars == <<today, budgetFile, budgets, wakeCalls, routed, sent, shared>>
alertVars == <<health, told, since, unrecorded>>
aroundVars == <<budgetVars, alertVars>>
restVars == <<searchVars, sequencerVars, aroundVars>>
serviceVars == <<part, vars, hotVars, sourceVars, boardVars, shotVars, executorVars, restVars>>

ServicesInit ==
  /\ part \in Parts
  /\ Init /\ Hot!HotInit /\ Source!SourceInit /\ Board!PubInit /\ Shot!ShotInit
  /\ Routed!RouteInit /\ Sequencer!FeedInit /\ Watched!AlertInit
  /\ IF part = "hotRpc" THEN HotRpc!BudgetInit ELSE Fallback!BudgetInit
  /\ Searching!SearchInit /\ (part = "search" \/ file.state = "complete")
  /\ Universal!ExecInit /\ (part = "universal" \/ held = Universal!Nothing)

(* Bound: the market moves where all shots are of one authorization and cost 1, *)
(* and nothing dies; deaths, authorizations and gas are free where it rests.    *)
oneMarket == arm.id = 1 /\ arm.live /\ deaths = 0 /\ child.cap <= 1 /\ \A i \in DOMAIN shots : shots[i].cap = 1

(* Bound: every event names one pool or result.                                 *)
SchedulerStep ==
  /\ part = "scheduler" /\ Next /\ \A l \in Lane : pendingEvent'[l] # NoEvent => pendingEvent'[l].values # {}
  /\ UNCHANGED <<part, hotVars, sourceVars, boardVars, shotVars, executorVars, restVars>>
HotStep ==
  part = "hot" /\ Hot!HotNext /\ UNCHANGED <<part, vars, sourceVars, boardVars, shotVars, executorVars, restVars>>
SourceStep ==
  part = "source" /\ Source!SourceNext /\ UNCHANGED <<part, vars, hotVars, boardVars, shotVars, executorVars, restVars>>
BoardStep ==
  part = "board" /\ Board!PubNext /\ UNCHANGED <<part, vars, hotVars, sourceVars, shotVars, executorVars, restVars>>
ShotStep ==
  /\ part = "shot" /\ Shot!ShotNext /\ (swaps' = 0 \/ oneMarket')
  /\ UNCHANGED <<part, vars, hotVars, sourceVars, boardVars, executorVars, restVars>>

UniversalStep ==
  /\ part = "universal" /\ Universal!ExecNext
  /\ UNCHANGED <<part, vars, hotVars, sourceVars, boardVars, shotVars, routedVars, restVars>>
RoutedStep ==
  /\ part = "routed" /\ Routed!RouteNext
  /\ UNCHANGED <<part, vars, hotVars, sourceVars, boardVars, shotVars, universalVars, restVars>>

SearchStep ==
  /\ part = "search" /\ Searching!SearchNext
  /\ UNCHANGED <<part, vars, hotVars, sourceVars, boardVars, shotVars, executorVars, sequencerVars, aroundVars>>

SequencerStep ==
  /\ part = "sequencer" /\ Sequencer!FeedNext
  /\ UNCHANGED <<part, vars, hotVars, sourceVars, boardVars, shotVars, executorVars, searchVars, aroundVars>>

servesVars == <<vars, hotVars, sourceVars, boardVars, shotVars, executorVars, searchVars, sequencerVars>>
FallbackStep == part = "fallback" /\ Fallback!BudgetNext /\ UNCHANGED <<part, servesVars, alertVars>>
HotRpcStep == part = "hotRpc" /\ HotRpc!BudgetNext /\ UNCHANGED <<part, servesVars, alertVars>>
AlertStep == part = "alert" /\ Watched!AlertNext /\ UNCHANGED <<part, servesVars, budgetVars>>

ServicesNext ==
  \/ SchedulerStep \/ HotStep \/ SourceStep \/ BoardStep \/ ShotStep \/ UniversalStep \/ RoutedStep
  \/ SearchStep \/ SequencerStep \/ FallbackStep \/ HotRpcStep \/ AlertStep

ServicesSpec == ServicesInit /\ [][ServicesNext]_serviceVars

(* The results of the scheduler's events and the board's candidates are alike.   *)
ValueSymmetry == Permutations(Value)

--------------------------------------------------------------------------------
(* Properties, as their modules state them; the scheduler's under their names *)

(* Every part keeps its types. *)
ServicesTypeOK ==
  /\ part = "scheduler" => TypeOK
  /\ part = "hot" => Hot!HotTypeOK
  /\ part = "source" => Source!SourceTypeOK
  /\ part = "board" => Board!PubTypeOK
  /\ part = "shot" => Shot!ShotTypeOK
  /\ part = "universal" => Universal!ExecAssumption /\ Universal!ExecTypeOK
  /\ part = "routed" => Routed!RouteTypeOK
  /\ part = "search" => Searching!SearchTypeOK
  /\ part = "sequencer" => Sequencer!FeedTypeOK
  /\ part = "fallback" => Fallback!BudgetTypeOK
  /\ part = "hotRpc" => HotRpc!BudgetTypeOK
  /\ part = "alert" => Watched!AlertTypeOK

(* The hot cursor passes no busy block in silence, and blocks replaced by a     *)
(* reorganisation are read again.  Of the sequencer feed no message is heard    *)
(* twice, none is passed in silence except one missing inside a frame, and one  *)
(* connection lives.                                                            *)
EventsFollowed ==
  /\ part = "hot" => Hot!NoSilentGap /\ Hot!ReorgReread
  /\ part = "sequencer" => Sequencer!HeardOnce /\ Sequencer!OneConnection

(* Below the cursors of state.json every launch is on disk, wherever the board  *)
(* died, and no pool of a launched token is skipped; a pool the hot poll found  *)
(* is in the graph, or a refresh is requested.                                  *)
SourcesKept ==
  part = "source" => Source!LaunchesKept /\ Source!LaunchPoolsKept /\ Source!RefreshRequested

(* Of the above, where an adapter cannot decode a log; the PAIR pools, where a  *)
(* catalog cannot be written.                                                   *)
LaunchPoolsKept == part = "source" => Source!LaunchPoolsKept
ChainPoolsKept == part = "source" => Source!ChainPoolsKept

(* An episode is entered once until its end; between cycles the open episodes   *)
(* are those of the last fresh quotes, and a signer sees no candidate whose     *)
(* last quote was not positive.  Once the board runs again, every record of the *)
(* ledger is in SQLite.  The operator's last message tells whether the watcher  *)
(* can trade.                                                                   *)
PublishedCurrent ==
  /\ part = "board" => Board!EnteredOnce /\ Board!EpisodeCurrent /\ Board!FeedCleared /\ Board!LedgerReplayed
  /\ part = "alert" => Watched!OperatorTold

(* The committed offset passes no record that SQLite does not hold. *)
OffsetCoversEvidence == part = "board" => Board!OffsetCoversEvidence

(* The Earn lane stays net-positive over its life, whatever becomes of what it  *)
(* sent; a route that reverted waits for a wake that names one of its pools and *)
(* holds something new.  That it is its own pool that moved is not so.          *)
EarnLaneKept == part = "shot" => Shot!EverySolvent /\ Shot!RevertedWaits
ReleasedByOwnPool == part = "shot" => Shot!ReleasedByOwnPool

(* No step of a call, foreign code's included, finds the executor below what it *)
(* set aside or a spender allowed more than that; a call that ended left        *)
(* nothing open.                                                                *)
ExecutorsGuard ==
  /\ part = "universal" => Universal!Protected /\ Universal!Allowed
  /\ part = "routed" => Routed!NothingOpen

(* A Global search shares its routes among the assets, decides nothing that its *)
(* reads do not bear out, and keeps to the day's ceiling of managed calls, as   *)
(* the board does.                                                              *)
SearchHonest ==
  /\ part = "search" => Searching!BudgetShared /\ Searching!DecisionHonest
  /\ part = "fallback" => Fallback!CeilingKept
  /\ part = "hotRpc" => HotRpc!CeilingKept

(* From outside, a call of any executor earns its floor and takes nothing else  *)
(* away, or does nothing.                                                       *)
CallsAtomic == Universal!AtomicSpec /\ Routed!EarnsOrNothing
================================================================================
