# Verification of the atomic-arbitrage programs

The repository is a bot that looks for atomic arbitrage on the Robinhood chain and executes it from
one wallet. It is a set of Node programs that share a directory of files (`RUN_DIR`), a few processes
that live for months, operators' commands that live for seconds, and on-chain executors. This directory
holds TLA+ models of the parts whose correctness is hard to test, the TLC configurations that check
them on small instances, and proofs TLAPS checks for every size.

Run from this directory: `tlc -workers 2 -config SignerRuns.cfg SignerRuns`, `tlapm SharedSignerProofs.tla`.

## 1. Inventory

| Component | State | Operations | What is hard | What makes it correct |
| --- | --- | --- | --- | --- |
| Signing lanes: `scripts/dual-base-arb.mjs` (board, maintenance, resident watcher), `earnonhood-live.mjs`, `global-arb.mjs` | shared `audit.jsonl`, the Earn program's own audit, ledgers, arm file, revocation marker, signed raws | execute, deploy, withdraw, reconcile, arm, disarm, watch | four programs and the operator over one nonce; crashes between any two appends; readers that lag and disagree; reorganised blocks; a lockless disarm | one unresolved mutation, write-ahead record, nonce accounting, settled = final, revocation final, gas budget kept |
| Locks: `acquireLock` (three copies) | `wallet.lock`, `dual-watch.lock` | open, inspect, take over, release | create and fill are two steps, remove is by path | exclusion, leftovers do not block |
| Reconciliation judgements: `src/policy.mjs` | none | classify, abandon, replay | partial and contradictory evidence | abandon and replay exclude each other; traces keep a mutation open |
| Authorization policy: `policy.mjs`, `dual-live-policy.mjs`, `earnonhood-live-policy.mjs` | arm record, usage folded from audits | budgets, leases, surplus, quarantine, nonce | counting the same event in two files, once | counted once; budget and surplus never overrun; a reverted route waits |
| Protected scheduler: `protected-strategy-scheduler.mjs` | per lane: next periodic time, last start, one pending event | enqueue (merge), claim | urgent events and two overdue lanes compete for one signer lane | recovery starts within a bound; a merge loses no dependency |
| Sequencer feed, coalescer | socket, reconnect timer, high-water mark, pending signals | connect, select unseen, reconnect, stop, merge | ends reported twice, frames late, overlapping, with gaps | one connection; every message once, in a reported gap, or missing inside one frame |
| Earn event sources: `managed-earn-event-source.mjs`, `pollEarnOnHoodWake` | one block cursor, subscription, dedupe cache | handle logs, handle error, start, poll | two sources move one cursor; replays; lagging reader | what the cursor has passed was found, is coming, or is counted as skipped |
| Resident searches: `resident-global-search.mjs`, `resident-earn-search.mjs`, callbacks and claims in `dual-base-arb.mjs` | child, generation, request in flight, pending signal, ready answers, the lane's event | start, enqueue, consume, deadline, restart, claim | events of a killed worker, windows between exit and close, merged signals of different fates | no wake forgotten, one worker, killed for cause |
| Global search: `global-arb.mjs` with `global-settlement-assets`, `global-route-selection`, `evaluation-outcome` | catalog file, the search under way | read, select, fund, value, quote, evaluate, decide, rebuild | any read may fail; budgets leave assets and routes out | what is decided is borne out by what was read |
| Board service: `opportunity-board.mjs`, `event-driven-shadow.mjs`, `board-store.mjs` | cursors in `state.json`, catalogs, snapshot, episodes, feed, `events.jsonl`, evidence ledger, SQLite | hot poll, source cycle, event cycle, publish, restart | reorganisations, failed reads, crashes between files, two loops over the same catalogs | nothing skipped in silence; files agree after a restart |
| Executor contracts (`contracts/*.sol`) | balances, allowances, transient phase and context | execute on inventory or flash loan, quote, withdraw | foreign code between any two steps | earns its floor or leaves no trace |
| Legacy signers: `manga-chan-arb.mjs`, `generic-arb.mjs`; collector: `legacy-funds-collector.mjs` | their own states, arms, audits | watch, execute, arm, disarm, renew, recover, collect | crashes between state and audit; leases renewed across awaits; two lanes looking at each other's files | nonces consecutive, books match the chain, a revert ends the arm, lanes exclusive |
| Incremental JSONL reader | offset, pending tail, records | read | chunks, torn lines, overlong lines, replaced files | what was read is what is in the file, or it throws |
| Managed RPC budgets: `rpc.mjs`, `managed-rpc-*`, `global-arb.mjs`, `opportunity-board.mjs` | a budget file per program, each process's copy, the wake's allowance | open, debit, refuse, new day | several processes write one file whole; a worker lives over many wakes | the day's ceiling |
| Health alerts: `critical-alert.mjs`, `critical-alert-policy.mjs` | last health and notification | check, deliver, record | a message delivered and not recorded; states between critical and healthy | the operator's last word is the current one |
| RPC lanes, plans and economics, catalogs' numbers, reports, UI, provenance, configuration | | | | not modelled or partly (section 8) |

How they interact. The watcher holds `dual-watch.lock`. Its loop reads the arm file, the ledgers and the
audit, asserts the authorization, and then either starts a reconciliation (when the last `mutation_signed`
has no terminal record) or goes on to a signing decision: the board lane signs in the watcher's process,
Earn and Global in a child that it spawns and that takes `wallet.lock` itself. The operator's commands take
`wallet.lock` too, except `disarm`, which takes no lock. What wakes a lane comes from the sequencer feed, the
Earn subscription and public reader, the resident searches and the clock; the scheduler decides between them. The
board runs by itself and is read through its files. Everything one program must know of another goes
through files. The hazards of the code are listed one by one in `PROJECT.json`, each at its line.

## 2. Modules

| Module | Models |
| --- | --- |
| `Reconciliation`, `ReconciliationReads` | the judgements of `policy.mjs` as operators; two readers polled about one mutation |
| `SharedSigner`, `MutationBarrier` | the lifecycle of a signature over all lanes; the abstract barrier it implements |
| `MCSharedSigner`, `SignerRuns` | lane sets; the two parts of the signer run |
| `WalletLock` | `acquireLock` and its release in their system calls |
| `EarnShot` | the Earn lane from signals to a recorded outcome, with the two folds over its audits |
| `GlobalLane` | the Global program's files: deployment, execution, ledger, reconciliation |
| `GlobalSearch` | one search of the Global program and its decision |
| `FixedLane`, `GenericLane`, `LaneExclusion`, `Collector` | the older signers, what keeps them apart, and the collector |
| `AuditReader` | the incremental reader of an audit ledger |
| `ProtectedScheduler`, `MCScheduler` | the scheduler's queues, merges and claims under the watcher's loop, with time |
| `ResidentSearch`, `EarnEvents`, `FeedClient` | the worker and its client; the two Earn sources over one cursor; the feed's sockets and frames |
| `HotLog`, `SourceCatalog`, `Publication` | the board: hot poll, catalogs and cursors, cycles and publication |
| `RpcBudget`, `Alerts` | the budgets of managed calls of the Global program and of the board; the health check and its messages |
| `UniversalExecutor`, `RouteExecutor`, `AtomicCall` | the executors; the abstract call they implement |
| `SigningPrograms`, `Services`, `Wakes` | compositions for TLC: a behaviour is one of a single part, the rest stands still |
| `SharedSignerProofs` | theorems of `SharedSigner`: barrier and write-ahead; closings, ledgers, revocation; nonces |
| `ProgramsInvariants` | what holds of each program of `SigningPrograms` between its steps: the inductive invariants |
| `ProgramsProofs` | theorems of `SigningPrograms` |
| `WakesProofs` | theorems of `Wakes` |
| `UniversalProofs`, `RouteProofs`, `ShotProofs`, `SearchProofs` | theorems of `UniversalExecutor`, `RouteExecutor`, `EarnShot`, `GlobalSearch`, each for any constants |
| `ServicesProofs` | theorems of `Services`: of the parts it holds itself (scheduler, board, feed, budgets, alerts), and those of the four modules before it, carried over to the instances |

The parts of a composition share no variable. Where parts do interact (lanes over one audit, two sources over one
cursor, worker, callbacks and scheduler, hot poll and source cycle over one catalog) they are one module.

### SharedSigner

*State.* A raw transaction is a number in `1..MaxRaw`, in the order they are signed. `raw[r]` is its plan
(lane, authorization, nonce, deadline), `journal[r]` the last lifecycle event of `r` in the shared audit
(the code keeps an append-only list; what its readers ask of it needs the last event per hash and the order of the
signatures, which the numbers give). `local[r]` is the same in the Earn program's own audit. `ledger` is the set of
raws that have an entry in a deployment ledger, `halted` the ledgers' `halted_wallet_delta_mismatch`
status. `job` is whoever holds `wallet.lock` and how far it has got; that at most one process holds it
is what `WalletLock` is about. `head`, `block`, `failed`, `sent` are the chain.

*Actions* follow an execution from `Preflight` (barrier, authorization, nonce of a reader) through
`AuthorizeSigning` (the second nonce read and assertion), `SignAndPersist`, `JournalSigned` (or
`EarnJournalSigned`, `EarnMirrorSigned`: two appends), `Broadcast` (sent, or refused by both endpoints),
`Receipt`, `WriteLedger`, `AppendTerminal`. There is a step boundary at every `await` and between
every two writes, so a crash, a disarm, a mined block or another program falls in between. `Abort` is any thrown error.
`Observe` is a reconciliation's observation with the settlement, abandonment or rebroadcast it leads to.
The quotes, simulations and gas checks of a preflight can fail (`Abort`), and they can succeed.

*Readers.* A reader's block is at most `Lag` behind the head. `observeMutation` issues its five requests
concurrently, so the receipt and the nonces may be of a state up to `Skew` behind the block reported with
them (or newer). With `Skew = 2` and `Window = 1` TLC shows an abandoned mutation that was mined:
abandonment is safe only while a reader's state is less behind its block than a chain block is long in
deadline terms. The code assumes this and the model names it. In the same way the Global lane, which reads the nonce
once and compares it with nothing, keeps `NonceLane` only for `Lag < Finality`.

*Crash.* Processes die; files stay. A child of a dead watcher lives on (`orphan`). The lock of a dead
holder is free for the next acquirer.

### WalletLock

One file path, its creator, and for each process what it does next: `open(wx)`, read pid, judge, `unlink`, `open(wx)`
again, write pid, release (`unlink` by path). The other modules take and release the lock in one step each; this one says
when that is justified (nobody took over a leftover concurrently) and when not.

### EarnShot and GlobalLane

`SharedSigner` has these lanes' signatures; these modules have what each of the two programs folds from its own files. In `EarnShot`
signals merge while a child runs (`feed-signal-coalescer.mjs`: pools united, block of the last, source time of the first), a wake starts
the next child, and its attempt must leave the lane's lifetime surplus positive if it reverts. `quarantine` is a reverted route with the
wake that released it. A child may die between its two audits; the reconciler appends to both. Manual runs outside an authorization are left out.
In `GlobalLane` a mined transaction is final; the ledger is written before the audit, the reconciler may find either
order, and `globalGifts` are transfers to the executor by others.

### GlobalSearch

One action per stage of `globalPreflight`: load the graph, read funding, value assets, quote each admitted asset, select, evaluate exactly, decide;
then `Rebuild` is the signing program's reconstruction from a hint. Assets, routes and amounts are small sets; the pools are a `Curve` chosen once, and what a
quote yields is `yield`. At every stage reads fail for nobody, everybody or only some (`Failures`). `gain` remembers whether any quote of the wake could have
yielded anything, which is what `COMPLETE` claims to know.

### FixedLane, GenericLane, LaneExclusion, Collector

`FixedLane` has the watcher's loop with the event revision queue (retries, identities), its executions and the operator's commands, each in the order of their
writes; it is instantiated twice (mutations under crashes; the loop over blocks and errors). A deployment is recovered in two writes, `RecoverDeployment` (the state file) and `AppendEffect`
(`deployment_recovered`, which closes it); killed in between, the command leaves it to a reconciler, which writes the file again. `GenericLane` is about authority: leases renewed by the watcher itself,
a marker that disarm writes first, and what is read again at each boundary; also instantiated twice. `LaneExclusion` has the files each of the two looks at before it does anything.
`Collector` has one frozen plan and fee envelope over several executors. Its audit is a file of its own, which the shared barrier does not see. The order of the
targets is the constant `Place`; what is still to withdraw is the set `plan.left`, and the target at hand the one of the lowest place in it.

### AuditReader

A line is a sequence of pieces, a chunk a number of them; the first piece of a record holds its event (the code keeps a tail of what it scanned, so a name split by a chunk
is found, and a piece is whole here). Writers append piece by piece and may be killed within a line; the next line is then glued to it. `throws` leaves the reader where it is.

### ProtectedScheduler

`nextPeriodicAt`, `lastStartedAt` and `pendingEvent` are the lane's fields. `enqueueEvent` is the method, with the merge of
`feed-signal-coalescer.mjs` reduced to what it must keep: the union of the values a signal depends on, and its bound (a
signal that does not fit throws and changes nothing). `claimNext` is three actions, one per thing it can return; the sort orders
are `dueBefore` and `eventBefore`. The loop asks at `turnEnd`; a turn takes `1..MaxTurn`. While a mutation is unresolved the loop does not
ask (`Quarantine`), and `lost` counts that time. History variables state the bound: `recoverBy` is moved by recovery only, `passed` remembers who recovered
while a lane was past its deadline, `owed` what was enqueued and not handed out.

### ResidentSearch

A *wake* is a reason to search and a signal is a set of wakes. The client's fields are variables of the same name; processes
are known by the generation they were started in, `running` and `closing` are those that run and those whose close event is to come,
`answers` what is in their stdout. An action is one callback. `ready` and `event` are the ready map and the lane's pending event in the scheduler;
`Claim` is the claim with the prepared result it selects. `handed` collects the wakes that something decided: complete evidence about a signal they were in, or the bounded child.
`NothingForgotten` and `EventuallyHanded` except two kinds of wakes the code lets go of, each held in a history variable: `thrown`, whose
dispatch threw because the worker had exited and its close event had not come, and `inconclusive`, which an incomplete answer was about that
was dropped or overwritten (section 6).

### EarnEvents and FeedClient

A block has at most one swap. `HandleLogs` is `handleLogs` with the watcher's `onWake`, for one log. `pollEarnOnHoodWake` is `PollStart`,
`PollHead`, `PollLogs`, `PollFail`: steps end at its two awaits, and it writes the cursor it computed from the one it was given. `overtaken` holds the blocks below a
log that moved the cursor: the public reader does not go back for them; the properties of the backstop except them.
In `FeedClient` a socket may end while its frames are still on their way, and error, close and refusal come in any order; `heard` counts how often a number was handed on.
A frame is any set of numbers: what is missing below the lowest new one is `reported`, what is missing between two of them goes to `holes` and is told to nobody.

### HotLog, SourceCatalog, Publication

`HotLog`: the poll's four awaits with the cursor written after the wakes are queued; one candidate stands for all. `SourceCatalog`: `mem` is the process, `disk` the files; a cycle defers its
cursors (`checkpoint`) while hot polls persist `state.json`, and commits at its end. `Publication`: one cycle's quotes at a fixed block, the reconciliation of episodes, and the order of the
writes (feed, `events.jsonl`, ledger, SQLite, snapshot), with a crash between any two.

### RpcBudget, Alerts

`RpcBudget` has the file as each process knows it: read once, written whole with every debit. A resident worker serves one wake after another, a child one; `Quoting` is the board. `shared`
remembers that a process debited while another one had the file open, where the ceiling is not kept (section 6). `Alerts` has the judgement as a function of what the check reads, in the order of its returns,
and the check as a step that may be lost between delivery and record. `told` is the operator's last message and `since` what was judged after it.

### UniversalExecutor, RouteExecutor, AtomicCall

One action per stretch of code between two points where foreign code runs. A step of a venue chooses what it takes (no more than it is allowed) and what it pays. A revert undoes the call.
External, named in the map: canonical pools pay what they report or the call reverts, USDG and WETH credit what is sent, and the operator is an EOA, so an outer call does not nest.
`AtomicCall` is what both promise.

## 3. Runs

| Run | Instance | Shows |
| --- | --- | --- |
| `SignerRuns` | board and maintenance with one crash or one replaced block; board and Global under two authorizations with a disarm at any time; 2 raws, 3 blocks | types; one unresolved mutation, write-ahead record, nonces, closings true to the chain, failed-gas breaker, ledger ownership, revocation, refinement of `MutationBarrier` |
| `SignerLive` | board and Earn, 1 raw, a crash and a replaced block, `Lag` 0, fairness | a healthy watcher settles what is final; the Earn audit is never behind the shared one |
| `Wakes` | resident search (2 wakes, a death, a failed spawn, room for 1 answer), Earn sources (3 blocks, window 2, lag 1, 3 replays, cache 2), lock (3 processes), with the fairness of each | no wake forgotten, the fence, backstop, no swap twice, lock discipline; every wake is decided, every swap found, a leftover taken |
| `SigningPrograms` | the parts of section 2, each with a kill, lost broadcasts, and manual commands | nonces consecutive, books match the chain, what is signed is armed and paid for, retries kept, authorizations, exclusion, judgements and ledger reads |
| `Services` | scheduler (2 lanes), hot poll (4 blocks, a reorganisation, a failure, a restart), catalogs (2 launches, 3 blocks), publication (2 candidates), Earn shots (2 routes sharing a pool), executors, search (3 assets, 4 routes), feed (frames of any of 4 numbers, 3 sockets), managed calls (3 a day, 2 a wake, 2 processes, 2 days), health check (ages on both sides of each limit, a lost record) | the recovery bound; events followed; sources kept; published state current, the operator told; surplus and quarantine; executors atomic; search honest, ceilings kept |
| `EarnBarrier`, `WalletLockRace`, `WorkerExit`, `ExpiredLease`, `SourceGap`, `LedgerOffset`, `EarnRelease` | | violations, section 6 |

*Bounds.* Two raws are what a nonce conflict, a second unresolved mutation and a late mutation need; three
processes are what a takeover race with a bystander needs. `Finality = 2` makes a receipt provisional for one block,
`Lag = 1` and `Skew = 1` give readers that are behind and that split an observation, `Window = 1` lets
the deadline pass within three blocks. Two authorizations are what a disarm that is slower than the next arm needs. `MaxFailed = 1` opens the breaker at the first revert.
All `Max...` constants appear in guards only; the proofs hold for any value of them. Two wakes are one in flight and one pending (and, merged, one signal of both); a bound
of one answer makes the eviction happen at once. The scheduler reaches 6 time units, more than period, deferral and two turns together; in its part every event names one value, and the theorems
cover the rest. Four blocks and a lookback of two let a reorganisation replace a block on either side of the range's end. Two adapters with one launch each, in different blocks, are what a
shared pool limit needs. Two routes that share a pool and one that is only in one of them are what a wrong release needs; where the market moves, the shots are of one authorization and cost 1 (`oneMarket`), and everything
else is free where it rests. Three assets with two admitted and a route budget of two leave assets and routes out. Three sockets are one that ends twice, its successor, and one whose end was already acted on.
Lines of one to five pieces, read two at a time with a limit of two, are split, glued and passed over. In `SigningPrograms` and `Services` every bound is a constant that the configuration sets, so that the theorems hold for
all of them; two shots with a budget of two never reach the budget there, that part of `ShotsTakenOnce` is the theorem's. In `Services` the scheduler's events and the board's candidates are interchangeable, and the run uses that
symmetry (nothing orders or names them, and the run checks no liveness).
Deadlock is not checked where the bounds end the behaviours.

*Fairness.* `SharedSigner!FairSpec`: a job continues or gives up (timers in the code: 120 s receipts, child deadlines). The
watcher retries every five seconds (`WatchReconcile`, strongly fair because the lock comes and goes). `SomeConfirm` assumes that
readers asked again and again answer at some time; `WriteLedger` and the appends assume that a settlement tried
again and again is not cut off each time. A receipt whose amounts never agree with the balances would be (the code throws each time);
that is outside the assumption. `Wakes` takes the fairness of its modules: timers fire, pending events of processes are delivered, the loop claims, and nothing is assumed of the worker, which may
never answer; the Earn loop comes round, and a reader asked again and again answers at some time with the last block (strong, since failures may come between), and nothing is
assumed of the subscription; a process in the middle of acquiring a lock goes on.

## 4. What is proved

Every theorem holds for all values of the constants that its hypotheses and the named assumptions of the modules (`BoundsAssumption`, `LimitsAssumption`, `ProgramsAssumption`, `ExecAssumption`, ...: types only) allow. The
assumptions say that a bound is a natural number, a set is finite, an order is an order. Everything else a theorem needs of its constants stands in its statement and is explained here.

**Signing lanes, `SharedSignerProofs`.** `TypeCorrect` (`TypeOK /\ HasRaw`; a job past signing names a raw); `WriteAhead` (`SentIsRecorded`: a job about to broadcast has recorded its raw in the audit
its reconciler reads; for every lane and across crashes); `OneMutation` and `BarrierImplemented`, without the Earn lane, whose preflight makes no check (finding `EarnBarrier`): `LaneInv` says that whoever is between
preflight and record holds the lock and found nothing unresolved, and that a settlement in progress is of the one unresolved mutation; from it `OneUnresolved` and the refinement of `MutationBarrier` follow, step by step.

**Their books**, with every lane in play. `LifeInv` ties chain, audits, ledgers and the job in hand together per raw (what was sent is recorded, a job that settles names the raw whose record it is), and gives `EarnMirrored`.
`AuthInv` (only issued authorizations are named; an armed file is the newest) and `LateInv` (a late raw's authorization has no force, and no job is about to sign under it) give `Revocation`: one late raw at most, because the job that signs
it is the one that held the lock. `Ownership` follows from which executions a live authorization's baseline leaves out. `Closing` is `ClosedTrue`: `SettledInv` remembers that a job past a final observation is about a
final raw, and `AbandonedDead` that an abandoned raw's deadline has passed and it did not succeed. Its hypothesis `Skew <= 1` is the limit the code's own evidence has: with readers whose receipt is two blocks older than the block they report, TLC shows an abandoned mutation that was mined.

**Their nonces**, without the Earn lane. `ChainInv` (a block's transaction has the nonce that many predecessors leave) turns nonces into cardinalities of sets of mined raws. `NoncesOnce` needs `Lag < Finality`: the
Global lane reads its nonce once, so a reader must see what is final. `FailedGas` (`FailedGasBound`): reverts on the chain under an authorization are those the audit counts plus the one that is open; it holds if nothing crashes or the
Global lane is not in play (section 6 tells what happens otherwise). `Accounting` (`NonceAccounting`) shows, per live authorization with nothing open, that baseline, executions and reverts make up the wallet's nonce.

**The other programs, `ProgramsProofs`** (theorems of `SigningPrograms`; every bound of its instances is a constant; the invariants named here are those of `ProgramsInvariants`):
- `AbandonOrReplay`, for every array of observations.
- `LanesApart`: who is past its look at the other lane's files holds its own lock (an armed lane's wallet lock among them), and finds the other lane disarmed; who is past both looks excludes the other lane's from being so.
- `Authorizations`. Leases: the marker names the authorization a disarm was for, and one a marker was written for is `Dead` for good, whatever renews. Shots: an attempt is listed before its signature, the unsigned pair is one, and who signs holds the lock.
- `RetriesKept`: what the queue remembers of blocks not yet quoted is numbered below the count of consecutive errors, so the next retry is new to it.
- `NoncesInOrder` and `BooksAgree`, from one invariant per program. Fixed lane (`FixedInv`): one command is under way; past its checks nothing is open and its nonce is the number of those signed; deployments precede every execution, so a deployment that resets the list, recovered or not, loses none; and none is closed while there is no state file. Global (`GlobalInv`): nothing is open
when a transaction is planned, the ledger precedes the audit, and the one deployed executor is the ledger's unless its deployment is still open. Collector (`CollectorInv`): nothing is open at the start of each target, and the wallet pays the fee of what is open. Shots (`BookInv`): one mutation is open, and its holder has the lock.
- `ArmedSignatures`: `RevertEndsArm`, `AtMostOneLateSignature` and `RetainedKept`. A watcher is `Poised` from the loop's top until it signs; `ServedInv` says that what it signed under this arm before is then settled with success and in time, and leaves an attempt, and that a revert or a lost arm, once counted, keeps it from being poised again. The commands may sign and settle meanwhile.
- `ProgramsTyped`: types, at any bounds (`LimitsAssumption`: they are numbers, and a watcher is allowed one error at least). `LimitsInv` says of each program that what it names was issued and what it counts stays below the limit that ends it (`Streak`: a watcher's consecutive errors), that a planned minimum lies within the market,
and that an executor of the collector holds the seed and the gifts it was sent at most. The rest comes from the invariants above.
- `ReadersAgree`. Reads (`Observed`): what `reconciliationObservation` concludes of two sources is the same in either order (`OrderLeaves`, by turning every clause of the judgement over), and conclusive and inconclusive exclude each other.
Audit reader (`AuditInv`): until a throw, the records are those of the lines that ended within what was read and `pending` is the rest, unless that rest is longer than a line may be and is being passed over. It needs what the lines of a concatenation are, and that the places at which a growing list of pieces
has its newlines are the old ones and the new (`inOrder`: the elements of a finite set of numbers, in order, as a function). Its assumption is that a chunk has at least one piece (`AuditAssumption`).

**Wakes, `WakesProofs`.** Lock: a process that has created a file and has not been taken over is the file's owner; who judged a file stale read no live pid in it; then `Disciplined` (`Exclusion`, `OnlyTheDeadRemoved`) for any set of processes.
Resident search: `FenceInv` (whatever bears the current generation is the child's; every process that was not killed is the child) gives `FencedAlone`; `WakeInv` adds where each wake is (in flight, pending, ready, in the event) and gives
`NoneForgotten`, with the two exceptions the property names. Earn sources: `Backstop` has to speak of the cursor a poll under way was given, since a poll that finds nothing new writes that one back; `ReplayBounded` says that the cache holds the
latest `MaxKeys` of what was handled, so one that comes again has been pushed out. `WakesTyped` and `WakesSafe` put the parts together.

**Scheduler** (`ServicesProofs`; theorems of `ProtectedScheduler`), for any lanes, periods, priorities and durations: types; `DependenciesKept` (nothing a merge united is lost); `RecoveryOnTime` and `DeadlineIsHard`. The argument counts: a lane past its
deadline is preceded by recovery only, and by each other lane once, because that lane's next time is then later than the one that waits. So the
turns a lane can still lose are the lanes that have not passed it, and the invariant bounds `now` by that number of turns.

**Executor, `UniversalProofs`**, for any plans, principals, tokens and canonical pools: `CallsProtect` and `CallsAreAtomic`. `Protected` alone is not inductive: between two
steps foreign code may still spend what the current action set free, so `CallInv` adds that those amounts lie above the baselines (`Spending`), what action is under way (`Foreign`), and that a repayment starts from enough;
`ExecInv` adds that outside a call the balances are what the abstract call holds. From these each step maps to one of `AtomicCall` or a stutter. `CallsGuard` has what the contract's checks are for: outside a call nothing is allowed to anybody and the
transient context is clear (`Allowed`).

**Executors over PAIR pools, `RouteProofs`**, for any tokens, seeds, floors and routes that fit together (`RouteAssumption`): `RoutesClosed` (nothing owed, allowed or left over in another token between calls) and `RoutesEarn` (`EarnsOrNothing`: a call that ends well earned its floor, any other changes nothing).
`RouteInv` says of every point of a call what the executor holds (`Holds`), owes (`Owes`) and has allowed, in terms of the balances before the call; foreign code between two steps may take what is allowed and no more.

**Earn lane, `ShotProofs`**, for any pools, routes, gas costs and bounds (`ShotAssumption`): `EarnLaneSolvent` has `EverySolvent` and `RevertedWaits`. The surplus is a fold over all shots of an authorization. That a fold does not depend on the order it takes is a question of induction over sets; it is put as the least number of elements
for which two orders would differ. Then one shot more, or one that changes its outcome, changes the sum by that shot alone, and the invariant says that the surplus is positive even if every shot under way reverts. `RevertedWaits` needs that a merged signal's pools are those of its parts, and what the two audits lack of each other between the child's appends.

**Global search, `SearchProofs`**, for any assets, routes, amounts, market and budgets (`SearchAssumption`): `SearchDecides` has `BudgetShared` and `DecisionHonest`. `BudgetShared` counts: in a finite set with a total order the ranks of the elements are distinct and fill `0 .. n - 1`, so what a budget of `k` admits are `k` elements
or all. `SearchInv` keeps for each stage what was read to get there, so that what the decision shows (`COMPLETE`, a candidate, a reason) follows from the reads and not from those that failed.

**The services, `ServicesProofs`** (theorems of `Services`; every bound of its instances is a constant):
- `NothingInSilence`. Hot cursor (`HotInv`): `Covered` (every event below a cursor was read, in some version, or is in a gap that was told), `Current` (while the cursor's anchor is on the chain, what was read just below it is what is there), and the same of the cursor
on disk, of the poll under way and of what is queued. It needs a lookback no longer than one range (`ServicesAssumption`; deployed 12 and 200): with a lookback of three and ranges of one TLC finds an event that a recovery passes over. Feed: nothing above the last number was heard, a number at or below it was heard, reported or missing inside the frame that passed it (one of the three), and until a stop either a timer runs and nothing lives, or one socket does.
- `CeilingsKept`: until a process debits while another has the file open, the file and every copy of it count what was sent, if they are of today; one invariant for both programs, over their sets of processes.
- `PublishedAsQuoted`. Board (`BoardInv`): what `events.jsonl` opened is open in the snapshot a start goes on from (`EntryInv`), a known candidate stays listed, every record below the ledger's end is in SQLite, and an event cycle leaves all but its own candidates as they were published, remembers whether one of those was seen or open, and publishes a positive at once (`CycleInv`).
Alerts: a critical record was delivered, and after an alert the record is critical or trading was held up since. The exceptions are those the properties name (section 6).
- `LaunchesAndRequests`. The durable cursors (those any write of `state.json` carries: a checkpoint while a cycle runs) never pass a launch that is not on disk; between the two writes of a commit the disk has what memory has. It holds for any number of batches and for adapters that fail alone.
- `NothingSkipped` adds the pools (`Balanced`): both adapters stand at one block, no pool cursor is beyond it, the index has every launch whenever pools are read, and a pool is no older than its launch. Its hypotheses are the limits the code has: with `MaxBad = 1` the run `SourceGap`
shows a skipped pool, and with two batches in a cycle TLC finds one without it (section 6); `SOURCE_CATALOG_BATCHES_PER_CYCLE` is 1 where nothing else is set.
- `PartsTyped`: types of all parts. Of the catalog it needs that pools are read no further than launches and an adapter that waits stands at or below the block the cycle fixed; of the hot queue that what is pending was seen; of the ledger that nothing is committed that was not read; of the budgets that no file is of a day to come.
- `ExecutorsKeepGuard`, `CallsStayAtomic`, `LaneStaysSolvent`, `SearchesHonest`: what was proved of the executors, the Earn lane and the search for any constants holds of the instances in `Services`, whose plans, routes, costs and market are chosen by the configuration's sets. `PlansFit`, `RoutesAssumption`, `ServicesAssumption` say that those choices are ones the modules assume.

How the proofs are made. Induction over data is out of reach, so arguments that would run over a list are put as counts: "the first n" as `1 .. n`, one more by `FS_AddElement`. Operators of the library reached through an instance are equal to those the theorems of the library are about, by their definitions (`FixedCardinality`, ...).
`SelectSeq` cannot be expanded, which is why the collector's remaining plan is a set with a place for each target, and the lists of the audit reader are functions whose domain and values are given. Where a least counterexample is wanted (sums, ranks) it comes from the well-foundedness of the numbers, with a named relation.

Only model-checked: the four liveness properties (`SettlesWhileHealthy`; `EventuallyHanded`, `SwapsFound`, `LeftoverTaken`), since neither fairness nor ENABLED is within the prover's reach, and the properties of the runs that expect a violation.
Every invariant and every safety property of the passing runs is a theorem, where a hypothesis is named above under that hypothesis; outside it (the Earn lane next to the others' barrier and nonces, readers two blocks apart, single adapters that fail) the property is false, or sections 4 and 6 say what was seen of it.

## 5. Plan

1. done: the signing lanes, locks, judgements, wakes; the older signers and the collector; the board's files; the executors; the Global search; feed and ledger reader; budgets and alerts; the theorems of section 4.
2. done: a theorem for every invariant and every safety property that a passing run checks. Left: the liveness properties, once the prover has fairness; and the hypotheses `"earn" \notin Lanes`, which could go if the Earn preflight looked for open mutations.
3. Composition of `ProtectedScheduler` with `ResidentSearch` (periodic claims become wakes of the worker), and of `FeedClient` with `EarnShot`.
4. Economics: floors and gas bounds against reference definitions.

## 6. Findings

Shown by a run:

- `EarnBarrier`: the Earn program's `execute` does not look for an unresolved mutation, and a manual one journals only locally. The barrier
  documents (ADR 0073, `docs/spec.md`) speak of every lane.
- `WalletLockRace`: two processes can hold the lock file together, when one finds the other's file before its pid is in it or when two take over
  the same leftover.
- `WorkerExit`: a wake between a worker's exit and its close event makes the client throw; depending on the caller the watcher halts, crashes or loses
  the wake. The operations guide says a worker crash degrades its adapter only.
- `ExpiredLease`: a renewal takes the clock before its chain reads and extends a lease that ran out during them (`generic-arb.mjs:1861`; `policy.mjs:365` says an expired lease cannot revive itself).
- `SourceGap`: when the adapters stand at different blocks and the second group's read fails, the target index is not rebuilt and the pool scan passes a launch's pools (`opportunity-board.mjs:1802`; ADR 0010).
- `LedgerOffset`: after a failed SQLite transaction the next commit's offset passes the records that were not inserted (`board-store.mjs:610`; ADR 0010).
- `EarnRelease`: a merged wake with an old swap of the route's own pool and a new one elsewhere releases a reverted route (`feed-signal-coalescer.mjs:164`; comment at `earnonhood-live-policy.mjs:388`).

Excepted by name in a property or a bound, so that dropping the exception shows it:

- After `halted_wallet_delta_mismatch` the watcher shows `RECONCILING_UNKNOWN` and never reconciles, because the loop asserts the
  authorization (`dual-base-arb.mjs:3362`) before it starts a reconciliation. The halt is meant; `docs/operations.md:102-104` describes a
  watcher that retries and must not be stopped. `SettlesWhileHealthy` without `~halted` fails.
- An answer with incomplete evidence is dropped when a newer signal is pending (`dual-base-arb.mjs:3150`, `3205`), and a later complete negative of
  the same event hides it (`3629`, `3676`): its pools are searched again by the periodic recovery only. `NothingForgotten` without `inconclusive` fails.
- A log of the subscription moves the public reader's cursor past blocks whose own logs were lost (`dual-base-arb.mjs:3246`); they are neither read nor
  counted as skipped. ADR 0080 and 0075 call the public reader the completeness backstop. `BackstopCovers` without `overtaken` fails.
- `EpisodeContinuity` (`docs/spec.md:269-271`) fails when a catalog refresh misses a known candidate, or when a start goes on from a snapshot older than `events.jsonl`; `EnteredOnce` excepts the two.
- `ChainPoolsKept` (ADR 0039) fails with `MaxUnwritten = 1`: a failed write of `chain-catalog.json` does not keep the cursor back.
- A number missing inside one frame of the feed is not reported, and is dropped as a duplicate when it comes later (`sequencer-feed.mjs:105-118`); the comment above (`86-90`) says a gap is surfaced. `HeardOnce` without `holes` fails.
- A hot poll whose two anchors straddle a reorganisation notices nothing (`torn`), and one that fails after it ingested a pool requests no refresh.

Noted while reading, with no run:

- Catalogs: with more than one batch in a cycle, a launch read that fails after one that succeeded throws before the target index is rebuilt (`opportunity-board.mjs:1789-1866`), and the pool scan that follows passes the pools of the launches just found. The hypothesis `Batches = 1` of `NothingSkipped` is the exception.
- Feed: when `onWake` throws, the wake is counted malformed and is lost (its numbers are consumed). Frames are consumed after `stop`.
- Audit reader: after a throw the offset is past the chunk and `pending` is stale, so a second read in the same process returns without the record that made it throw. The watcher halts on the first. A file that was truncated and grew past the offset again is not recognised.
- Search: when candidates reach the exact evaluation, its outcomes alone decide the coverage shown (`global-arb.mjs:1570`), so `COMPLETE` can be shown although other routes' quotes failed; a route without a plan and a valuation of zero count as definite.
- A Global success under its floor, or with a transfer to the executor in between, is closed by no program (`global-arb.mjs:1980-2025`); neither is an Earn success whose balances disagree.
- The collector compares current balances when it reconciles, and never sends an unknown withdrawal again.
- Generic lane: an arm lost between signature and broadcast leaves a mutation open although the status is `STOPPED_POLICY`.
- Failed gas: with the Global lane and one death of the watcher, an authorization can lose `MaxFailed + 1` reverts. The watcher dies after its Global child has asserted the authorization (`global-arb.mjs:2401`); the orphan signs on. The next watcher takes `dual-watch.lock`
  only (`dual-base-arb.mjs:2842`), passes its gas check and starts a child that waits for the lock; the orphan's revert is recorded; the child, which looks at the arm and its parent only (`global-arb.mjs:2131-2182`), signs too. The theorem's hypothesis is the exception.
- Alerts: `docs/operations.md` says that after a delivered incident one recovery is sent when viable coverage returns. It is not when a check in grace or without an authorization comes between the critical and the healthy one (`critical-alert-policy.mjs:175`). A message delivered but not recorded is repeated, and can leave
  a recovery as the last word while the state is critical. The notification state `PENDING` is never written. `OperatorTold` excepts the first two by name.
- Budgets: `README.md:40` speaks of a persisted daily ceiling of 20,000 logical calls. The Global worker and its child, or a worker and its successor, each keep what they read and write it whole (`global-arb.mjs:171-210`), so debits are lost; without `shared` TLC shows 7 calls with a ceiling of 3.
- The Earn worker sets no wake reason and never resets its wake's allowance (`earnonhood-live.mjs:259`; the Global worker does, `global-arb.mjs:1456`), so its 192 managed calls are for its whole life; `docs/operations.md:250-251` gives them to each wake.

## 7. Traceability

`PROJECT.json` maps every definition that models code to its lines, lists what can be mutated to break each property, and the hazards with
the properties that cover them.

## 8. Not modelled

Pool mathematics, route enumeration and the optimizer (numeric, no shared state; the search gets lists of routes); execution plans and economics (256-bit rational arithmetic; what the executors enforce is modelled);
RPC lanes (a read succeeds or fails in every model; the budgets of managed calls are in `RpcBudget`); HTTP, retention and imports of the board; decoding in source adapters and provenance (succeeds or fails); UI,
reports and dashboards (they read what the others write); configuration. The preemption of a board pass by an Earn event is code that nothing reaches. The last line of a ledger that a killed process left torn makes
the reader throw at the next line (it fails closed), and an operator repairs it; no program does.
Amounts, gas prices and profit floors are abstracted where no property is about them. Narrower than the code: `withinGasBudget` has no clause for the Earn surplus (the bound on reverts does not need it); a stale positive of
the board keeps its open episode, where `recoverOpenEpisode` may also open one again (`opportunity-board.mjs:595-600`); the search's amounts are those for 6 and 18 decimals, up to the first 16, and its cycles are not preselected (`global-arb.mjs:436`, `936`); a feed client that was stopped is not started again (no program does).
