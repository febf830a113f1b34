------------------------------ MODULE GlobalSearch ------------------------------
(* One search of the Global program: which assets can fund it, which routes a   *)
(* wake has it quote, what the quotes and the exact evaluation say, and the     *)
(* decision it writes down; then the candidate rebuilt by the program that      *)
(* signs.  Any read may fail.  What counts is that the decision does not pass   *)
(* off what could not be read as what was read.                                 *)
EXTENDS Integers, FiniteSets, Sequences

CONSTANTS
  Asset,       \* the settlement assets of the graph, by rank
  ByAddress,   \* the same, by address
  Seeds,       \* those of the configuration
  AssetPools,  \* AssetPools[a]: the pools of an asset
  Routes,      \* Routes[a]: the routes from an asset and back, [id, rank, bpt, pools]
  Valued,      \* the assets with V3 edges from WETH and to USDG
  Balance,     \* Balance[mode]: what a way of funding lends when it lends
  Familiar,    \* the usual amounts, ascending
  Curve,       \* what a route may yield: [peak, height]
  Wakes,       \* the pools an event names; none: no event
  MaxDigits,   \* bound: the digits of an amount
  Required,    \* the gas and the floor of an exact evaluation
  MaxChecks, MaxAdmitted,     \* assets checked, assets admitted, per search
  MaxRoutes, MaxEventRoutes,  \* routes quoted: with no event, with one
  MaxManaged,                 \* candidates evaluated exactly
  MaxRefreshes                \* bound: catalogs published

VARIABLES
  file,    \* the catalog published: its version, "complete", "partial" or "stale"
  search   \* the search under way, and its decision

searchVars == <<file, search>>

PickMin(a, b) == IF a < b THEN a ELSE b
PickMax(a, b) == IF a > b THEN a ELSE b
take(s, n) == [i \in 1 .. PickMin(n, Len(s)) |-> s[i]]
rotate(s, k) == [i \in DOMAIN s |-> s[((i - 1 + k) % Len(s)) + 1]]
(* Those elements of s that are in S, in their order. *)
among(s, S) ==
  [i \in 1 .. Cardinality({k \in DOMAIN s : s[k] \in S}) |->
     s[CHOOSE k \in DOMAIN s : s[k] \in S /\ Cardinality({j \in 1 .. k : s[j] \in S}) = i]]
(* The elements of S, in an order that is total on them. *)
sorted(S, Before(_, _)) ==
  [i \in 1 .. Cardinality(S) |-> CHOOSE v \in S : Cardinality({u \in S : Before(u, v)}) = i - 1]
AssetSet == {Asset[i] : i \in DOMAIN Asset}

Idle == [pc |-> "idle", wake |-> {}, block |-> 0, version |-> 0, complete |-> FALSE,
         funds |-> [a \in AssetSet |-> {}], checked |-> <<>>, funded |-> {}, sure |-> TRUE, admitted |-> <<>>,
         worksets |-> <<>>, lane |-> 1, gain |-> FALSE, seen |-> {}, positive |-> {},
         managed |-> {}, left |-> {}, exactSeen |-> {}, exact |-> {}, status |-> "none", coverage |-> "none", selected |-> {}]

SearchInit == file \in [version : {1}, state : {"complete", "partial", "stale"}] /\ search = Idle

--------------------------------------------------------------------------------
(* What an evaluation says *)

Definite == {"PROFITABLE", "VALID_NON_PROFITABLE", "POLICY_FILTERED", "UNSUPPORTED"}
Unavailable == {"RPC_ERROR", "STATE_UNAVAILABLE"}
Valid == {"PROFITABLE", "VALID_NON_PROFITABLE"}

classifyQuoteOutcome(delta) == IF delta > 0 THEN "PROFITABLE" ELSE "VALID_NON_PROFITABLE"

(* summarizeEvaluationOutcomes *)
coverageOf(seen) ==
  IF seen = {} THEN "EMPTY" ELSE IF seen \cap Unavailable = {} THEN "COMPLETE"
  ELSE IF seen \cap Definite # {} THEN "PARTIAL" ELSE "UNAVAILABLE"

--------------------------------------------------------------------------------
(* Which assets, which routes, which amounts *)

eventWake == search.wake # {}
touched(a) == AssetPools[a] \cap search.wake # {}

(* Seeds, then assets a pool of the event belongs to, then the others in turn;  *)
(* on an event those are left out.                                              *)
rankDynamicSettlementCandidates(block) ==
  LET named == {a \in AssetSet : touched(a)}
      rest == AssetSet \ named IN
  take(among(Asset, named \cap Seeds) \o among(Asset, rest \cap Seeds) \o among(Asset, named \ Seeds)
         \o rotate(among(Asset, rest \ Seeds), block), MaxChecks)
selectSettlementFundingCandidates(block) ==
  among(rankDynamicSettlementCandidates(block), {a \in AssetSet : eventWake => a \in Seeds \/ touched(a)})

matches(r) == Cardinality(r.pools \cap search.wake)
closer(r, q) == matches(r) > matches(q) \/ (matches(r) = matches(q) /\ r.rank < q.rank)

(* An event's routes are those it touches; with none, some of the pool shares'  *)
(* routes in turn, and the rest in turn.                                        *)
selectGlobalRouteWorkset(routes, block) ==
  LET all == {routes[i] : i \in DOMAIN routes}
      priority == take(rotate(among(routes, {r \in all : r.bpt}), block), PickMax(1, MaxRoutes \div 4))
      broad == among(routes, all \ {priority[i] : i \in DOMAIN priority}) IN
  IF eventWake THEN take(sorted({r \in all : matches(r) > 0}, closer), MaxEventRoutes)
  ELSE take(priority \o rotate(broad, block), MaxRoutes)

(* One from each lane per round, until the budget is spent. *)
before(lanes, lane, rank) ==
  Cardinality({c \in (DOMAIN lanes) \X (1 .. rank) :
                 c[2] <= Len(lanes[c[1]]) /\ (c[2] < rank \/ (c[2] = rank /\ c[1] < lane))})
shareBudget(lanes, budget) ==
  [lane \in DOMAIN lanes |->
     take(lanes[lane], Cardinality({k \in DOMAIN lanes[lane] : before(lanes, lane, k) < budget}))]

(* The amounts up to what is available, the last ten times larger as often as   *)
(* fits, and what is available; past eight, eight of them.                      *)
dynamicProbeAmounts(available) ==
  LET values == {Familiar[i] : i \in {i \in DOMAIN Familiar : Familiar[i] <= available}}
      last == Familiar[Cardinality(values)]
      grown == {v \in {last * (10 ^ k) : k \in 1 .. PickMin(15 - Cardinality(values), MaxDigits)} : v < available} IN
  IF values = {} THEN {} ELSE values \cup grown \cup {available}
coarseProbeAmounts(available) ==
  LET values == sorted(dynamicProbeAmounts(available), LAMBDA u, v : u < v)
      n == Len(values) IN
  {values[i] : i \in IF n <= 8 THEN 1 .. n ELSE {1, 2, 4, 6, 8, n - 2, n - 1, n}}
refinementProbeAmounts(coarse, best, available) ==
  LET lower == {v \in coarse : v < best}
      higher == {v \in coarse : v > best}
      below == {(v + best) \div 2 : v \in {v \in lower : \A u \in lower : u <= v}}
      above == IF higher = {} THEN {available} ELSE {(v + best) \div 2 : v \in {v \in higher : \A u \in higher : u >= v}} IN
  {v \in {best \div 2, (best * 3) \div 4, (best * 5) \div 4, (best * 3) \div 2} \cup below \cup above :
     v > 0 /\ v <= available /\ v \notin coarse}

(* Both, by the way of funding. *)
Coarse == [m \in DOMAIN Balance |-> coarseProbeAmounts(Balance[m])]
Between == [m \in DOMAIN Balance |-> [p \in Coarse[m] |-> refinementProbeAmounts(Coarse[m], p, Balance[m])]]

--------------------------------------------------------------------------------
(* The search *)

(* The maintenance service publishes a catalog; what could not be read of it is *)
(* kept from the one before, and said so.  (A search looks at the file when it   *)
(* begins and when its candidate is rebuilt: only there a new one matters.)     *)
PublishCatalog(state) ==
  /\ file.version <= MaxRefreshes /\ search.pc = "decided" /\ search.selected # {}
  /\ file' = [version |-> file.version + 1, state |-> state]
  /\ UNCHANGED search

StartSearch(wake, block) ==
  /\ search.pc = "idle"
  /\ search' = [search EXCEPT !.pc = "graph", !.wake = wake, !.block = block]
  /\ UNCHANGED file

decides(status, coverage, selected) ==
  search' = [search EXCEPT !.pc = "decided", !.status = status, !.coverage = coverage, !.selected = selected]

(* The graph of the catalog on file; none is built from a stale one.            *)
LoadGraph ==
  /\ search.pc = "graph"
  /\ IF file.state = "stale" THEN decides("PREFLIGHT_FAILED_NO_SIGNATURE", "UNAVAILABLE", {})
     ELSE search' = [search EXCEPT !.pc = "funding", !.version = file.version, !.complete = file.state = "complete"]
  /\ UNCHANGED file

(* Two readings at a time of what Morpho and the executor hold, each tried      *)
(* twice.  An asset with nothing to lend is refused by policy; a failed read is *)
(* not that.                                                                    *)
(* Mutant: what could not be read is taken to hold nothing. *)
fundingWhenRead(funds, read) ==
  IF read # "ok" \/ funds = {} THEN "POLICY_FILTERED" ELSE "FUNDED"
fundingOutcome(funds, read) ==
  IF read # "ok" THEN read ELSE IF funds = {} THEN "POLICY_FILTERED" ELSE "FUNDED"
ReadFunding ==
  /\ search.pc = "funding"
  /\ LET candidates == selectSettlementFundingCandidates(search.block)
         checked == among(candidates, Valued)
         names == {checked[i] : i \in DOMAIN checked} IN
     \E funds \in [names -> SUBSET DOMAIN Balance], read \in [names -> {"ok", "RPC_ERROR", "UNSUPPORTED"}] :
       LET outcome(a) == fundingOutcome(funds[a], read[a])
           rejected == {outcome(a) : a \in names} \ {"FUNDED"} IN
       search' = [search EXCEPT !.pc = "valuation", !.checked = checked,
                    !.funds = [a \in AssetSet |-> IF a \in names THEN funds[a] ELSE {}],
                    !.funded = {a \in names : outcome(a) = "FUNDED"},
                    !.sure = rejected \subseteq {"POLICY_FILTERED"},
                    !.seen = rejected \cup (IF Len(checked) = Len(candidates) THEN {} ELSE {"UNSUPPORTED"})]
  /\ UNCHANGED file

(* A quote from WETH and one to USDG, the best over the paths; without a usable *)
(* one it is what the failures say, or a quote of zero.                         *)
valuationOutcomes == {"ok", "VALID_NON_PROFITABLE", "STATE_UNAVAILABLE"}

topology(admitted) ==
  among(Asset, Seeds) \o among(admitted, AssetSet \ Seeds)
allWorksets(assets) == [i \in DOMAIN assets |-> selectGlobalRouteWorkset(Routes[assets[i]], search.block)]

ValueAssets ==
  /\ search.pc = "valuation"
  /\ \E value \in [search.funded -> valuationOutcomes] :
       LET lenders == among(search.checked, search.funded)
           good(i) == {j \in 1 .. i : value[lenders[j]] = "ok"}
           tried == {lenders[i] : i \in {i \in DOMAIN lenders : Cardinality(good(i - 1)) < MaxAdmitted}}
           admitted == {a \in tried : value[a] = "ok"}
           funded == among(topology(among(lenders, admitted)), admitted) IN
       search' = [search EXCEPT !.pc = "quote", !.admitted = funded,
                    !.worksets = shareBudget(allWorksets(funded), IF eventWake THEN MaxEventRoutes ELSE MaxRoutes),
                    !.seen = @ \cup ({value[a] : a \in tried} \ {"ok"})]
  /\ UNCHANGED file

yield(curve, principal) == curve.height - (IF principal < curve.peak THEN curve.peak - principal ELSE principal - curve.peak)

(* A route no plan can be built of.                                             *)
Unbuildable == [peak |-> 0, height |-> 0]

(* A quote is what the executor answers by its revert, or a failure.  With its  *)
(* own funds it reverts when nothing is earned: by the message POLICY_FILTERED  *)
(* or UNSUPPORTED, as definite as each other, and the latter stands for both.   *)
quotePlan(curve, mode, amounts, failed) ==
  {IF mode = "inventory" /\ yield(curve, p) <= 0 THEN "UNSUPPORTED" ELSE classifyQuoteOutcome(yield(curve, p)) : p \in amounts}
  \cup (IF failed = {} THEN {} ELSE {"RPC_ERROR"})

(* What the quotes of a route say: every amount of a way of funding; then,      *)
(* around the best of them, the amounts between.  A read may fail for every    *)
(* amount, or for those between.  gain tells, for the properties, whether any   *)
(* amount would have yielded something.                                         *)
bestAmounts(gains, curve) ==
  {p \in gains : \A q \in gains : yield(curve, q) < yield(curve, p) \/ (yield(curve, q) = yield(curve, p) /\ p <= q)}
quotesOf(curve, mode, fails) ==
  LET coarse == Coarse[mode]
      lost == IF fails = "all" THEN coarse ELSE {}
      gains == {p \in coarse \ lost : yield(curve, p) > 0}
      between == UNION {Between[mode][p] : p \in bestAmounts(gains, curve)}
      quoted == (coarse \ lost) \cup (IF fails = "between" THEN {} ELSE between)
      failed == lost \cup (IF fails = "between" THEN between ELSE {}) IN
  IF curve = Unbuildable THEN [good |-> {}, seen |-> {"UNSUPPORTED"}]
  ELSE [good |-> {[mode |-> mode, principal |-> p, delta |-> yield(curve, p), refined |-> p \notin coarse] :
                    p \in {p \in quoted : yield(curve, p) > 0}},
        seen |-> quotePlan(curve, mode, quoted, failed)]

routesAt(lane) == {search.worksets[lane][i] : i \in DOMAIN search.worksets[lane]}

Failures == {"none", "all", "between"}
QuoteAsset ==
  /\ search.pc = "quote" /\ search.lane <= Len(search.admitted)
  /\ LET asset == search.admitted[search.lane]
         routes == routesAt(search.lane)
         markets == Curve \cup {Unbuildable}
         says == [c \in markets |-> [m \in search.funds[asset] |-> [f \in Failures |-> quotesOf(c, m, f)]]]
         yields == [c \in markets |-> \E m \in search.funds[asset] : \E p \in Coarse[m] : yield(c, p) > 0] IN
     \E market \in [routes -> markets], fails \in [routes -> Failures] :
       LET quotes == [r \in routes |-> {says[market[r]][m][fails[r]] : m \in search.funds[asset]}] IN
       search' = [search EXCEPT !.lane = @ + 1, !.gain = @ \/ \E r \in routes : yields[market[r]],
                    !.positive = @ \cup UNION {{[asset |-> asset, route |-> r, quote |-> q] : q \in UNION {x.good : x \in quotes[r]}} : r \in routes},
                    !.seen = @ \cup UNION {x.seen : x \in UNION {quotes[r] : r \in routes}}]
  /\ UNCHANGED file

(* The best amount of each route, at the same yield the executor's own funds    *)
(* first, then what was quoted first (of the amounts between, the smallest);    *)
(* then one from each asset per round.                                          *)
preferred(c, d) ==
  \/ c.quote.delta > d.quote.delta
  \/ /\ c.quote.delta = d.quote.delta
     /\ \/ c.quote.mode = "inventory" /\ d.quote.mode # "inventory"
        \/ /\ c.quote.mode = d.quote.mode
           /\ (~c.quote.refined /\ d.quote.refined) \/ (c.quote.refined = d.quote.refined /\ c.quote.principal <= d.quote.principal)
bestOfRoutes(asset) ==
  {c \in search.positive : c.asset = asset /\ \A d \in search.positive : d.asset = asset /\ d.route = c.route => preferred(c, d)}
larger(c, d) == c.quote.delta > d.quote.delta \/ (c.quote.delta = d.quote.delta /\ c.route.rank < d.route.rank)
selectBoundedManagedCandidates ==
  LET lanes == [i \in DOMAIN ByAddress |-> sorted(bestOfRoutes(ByAddress[i]), larger)]
      shared == shareBudget(lanes, MaxManaged) IN
  UNION {{shared[i][k] : k \in DOMAIN shared[i]} : i \in DOMAIN shared}

SelectCandidates ==
  /\ search.pc = "quote" /\ search.lane > Len(search.admitted)
  /\ search' = [search EXCEPT !.pc = "exact", !.positive = {},
                  !.managed = selectBoundedManagedCandidates, !.left = selectBoundedManagedCandidates]
  /\ UNCHANGED file

(* Quoted, priced and simulated again at the latest block, where the market and *)
(* the gas may have moved.                                                      *)
exactNetEvaluation(delta, read) ==
  IF read = "lost" THEN "RPC_ERROR"
  ELSE IF delta <= 0 THEN "VALID_NON_PROFITABLE"
  ELSE IF delta < Required THEN "POLICY_FILTERED"
  ELSE IF read = "reverts" THEN "UNSUPPORTED" ELSE "PROFITABLE"
EvaluateExact(c, curve, read) ==
  /\ search.pc = "exact" /\ c \in search.left
  /\ LET delta == yield(curve, c.quote.principal)
         outcome == exactNetEvaluation(delta, read) IN
     search' = [search EXCEPT !.left = @ \ {c}, !.exactSeen = @ \cup {outcome},
                  !.exact = IF outcome = "PROFITABLE" THEN @ \cup {[candidate |-> c, delta |-> delta]} ELSE @]
  /\ UNCHANGED file

(* classifyGlobalSearchReadiness, over what the exact evaluations say, or, with *)
(* none, over everything before them.                                           *)
evaluated == IF search.managed # {} THEN search.exactSeen ELSE search.seen
searchable ==
  LET roots == topology(search.admitted) IN
  \E i \in DOMAIN roots : selectGlobalRouteWorkset(Routes[roots[i]], search.block) # <<>>
fundingBlocked == search.exact = {} /\ searchable /\ search.funded = {} /\ search.sure
evaluationIncomplete ==
  /\ search.exact = {} /\ ~fundingBlocked
  /\ ~search.complete \/ (evaluated \cap Valid = {} /\ coverageOf(evaluated) # "COMPLETE")
readiness ==
  IF search.exact # {} THEN "EXACT_NET_POSITIVE" ELSE IF fundingBlocked THEN "NO_EXECUTABLE_FUNDING"
  ELSE IF evaluationIncomplete THEN "EVALUATION_INCOMPLETE_NO_SIGNATURE" ELSE "NO_EXACT_NET_OPPORTUNITY"

Decide ==
  /\ search.pc = "exact" /\ search.left = {}
  /\ \E selected \in SUBSET search.exact :
       /\ Cardinality(selected) = IF search.exact = {} THEN 0 ELSE 1
       /\ \A c \in selected, d \in search.exact : d.delta <= c.delta
       /\ decides(readiness, IF fundingBlocked \/ evaluationIncomplete THEN "PARTIAL" ELSE coverageOf(evaluated), selected)
  /\ UNCHANGED file

(* The program that signs takes no plan over, only which candidate it was: the  *)
(* catalog must be the one it came from, and the funds still there.             *)
Rebuild(available) ==
  /\ search.pc = "decided" /\ search.selected # {}
  /\ search' = [search EXCEPT !.pc =
                  IF /\ file.version = search.version /\ file.state # "stale"
                     /\ \A c \in search.selected : c.candidate.quote.principal <= available
                  THEN "rebuilt" ELSE "refused"]
  /\ UNCHANGED file

SearchNext ==
  \/ \E state \in {"complete", "partial", "stale"} : PublishCatalog(state)
  \/ \E wake \in Wakes : \E block \in (IF wake = {} THEN 0 .. 1 ELSE {0}) : StartSearch(wake, block)
  \/ LoadGraph \/ ReadFunding \/ ValueAssets \/ QuoteAsset \/ SelectCandidates
  \/ \E c \in search.left, curve \in Curve, read \in {"ok", "lost", "reverts"} : EvaluateExact(c, curve, read)
  \/ Decide \/ \E available \in {Balance[m] : m \in DOMAIN Balance} : Rebuild(available)

SearchSpec == SearchInit /\ [][SearchNext]_searchVars

--------------------------------------------------------------------------------
(* Properties *)

(* Assets are distinct, and each of them has a list of routes; the amounts are  *)
(* whole numbers; there are two ways of funding; and the budgets are what       *)
(* selectGlobalRouteWorkset and selectBoundedManagedCandidates accept.          *)
SearchAssumption ==
  /\ Asset \in Seq(AssetSet) /\ \A i, j \in DOMAIN Asset : Asset[i] = Asset[j] => i = j
  /\ ByAddress \in Seq(AssetSet) /\ AssetSet \subseteq {ByAddress[i] : i \in DOMAIN ByAddress}
  /\ \E Route : Routes \in [AssetSet -> Seq(Route)]
  /\ DOMAIN Balance \subseteq {"flash", "inventory"} /\ \A m \in DOMAIN Balance : Balance[m] \in Nat
  /\ Familiar \in Seq(Nat \ {0}) /\ MaxDigits \in Nat /\ Curve \subseteq [peak : Int, height : Int]
  /\ MaxRoutes \in Nat \ {0} /\ MaxEventRoutes \in 1 .. MaxRoutes /\ MaxManaged \in Nat \ {0}
  /\ MaxChecks \in Nat /\ MaxAdmitted \in Nat

SearchTypeOK ==
  /\ search.seen \cup search.exactSeen \subseteq Definite \cup Unavailable
  /\ Cardinality(search.managed) <= MaxManaged /\ Len(search.admitted) <= MaxAdmitted
  /\ search.coverage \in {"none", "EMPTY", "COMPLETE", "PARTIAL", "UNAVAILABLE"}

(* The routes of a wake are shared: the budget is spent while there is work,    *)
(* and an asset that had to leave a route out is at most one behind any other.  *)
BudgetShared ==
  search.pc = "quote" /\ search.lane = 1 =>
    LET all == allWorksets(search.admitted)
        budget == IF eventWake THEN MaxEventRoutes ELSE MaxRoutes
        quoted == {c \in (DOMAIN all) \X (1 .. MaxRoutes) : c[2] <= Len(search.worksets[c[1]])}
        work == {c \in (DOMAIN all) \X (1 .. MaxRoutes) : c[2] <= Len(all[c[1]])} IN
    /\ Cardinality(quoted) = PickMin(budget, Cardinality(work))
    /\ \A i, j \in DOMAIN all : Len(search.worksets[i]) < Len(all[i]) => Len(search.worksets[j]) <= Len(search.worksets[i]) + 1

(* What is decided is so.  Where funding is said to be missing, no asset that   *)
(* was checked has any.  Where no opportunity is said to be left on complete    *)
(* evidence, and no candidate reached the exact evaluation, none of the amounts *)
(* quoted first for the routes that the budget admitted yields anything.        *)
DecisionHonest ==
  /\ search.status = "NO_EXECUTABLE_FUNDING" => \A a \in AssetSet : search.funds[a] = {}
  /\ (search.status = "NO_EXACT_NET_OPPORTUNITY" /\ search.coverage = "COMPLETE" /\ search.managed = {}) =>
       search.complete /\ ~search.gain
================================================================================
