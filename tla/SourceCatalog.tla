----------------------------- MODULE SourceCatalog -----------------------------
(* The board's source catalogs: launches by two adapters, the pools of what     *)
(* they launched, and the PAIR chain catalog.  A periodic cycle advances them   *)
(* read by read and commits at its end; the hot poll ingests the same pools in  *)
(* between, and persists state.json at any time.                                *)
EXTENDS Naturals, Sequences, FiniteSets, FiniteSetsExt

CONSTANTS
  Launch,        \* launches on the chain: records of adapter (by) and block
  SourcePool,    \* pools of a launched token: records of block and launch (of)
  PairBlock,     \* blocks with a PAIR pool
  MaxBlock,      \* bound: blocks
  BlockRange,    \* blocks of one read
  Batches,       \* SOURCE_CATALOG_BATCHES_PER_CYCLE
  ChainBatches,  \* CHAIN_CATALOG_BATCHES_PER_CYCLE
  MaxFailures,   \* bound: failed reads and failed commits
  MaxUnwritten,  \* bound: failed writes of chain-catalog.json
  MaxBad,        \* bound: failures of one adapter to decode or store what was read
  MaxRestarts    \* bound: restarts

VARIABLES
  head,        \* the last block
  mem,         \* facts and cursors in memory, the index of targets, the PAIR pools in the strategy graph
  disk,        \* source-catalog.json (launches, pools), chain-catalog.json (pair), state.json (cursors, hot)
  checkpoint,  \* deferredSourceProjection: the durable cursors while a cycle advances, or << >>
  cycle,       \* the periodic cycle: what it awaits, its fixed block, batches done, groups left
  hot,         \* the hot poll: next block, whether it awaits its last read, and what it found
  refresh,     \* catalogRefreshRequested
  owed,        \* PAIR pools that polls found, and said so
  faults

sourceVars == <<head, mem, disk, checkpoint, cycle, hot, refresh, owed, faults>>

Adapter == {"long", "doppler"}
Idle == [pc |-> "idle", fixed |-> 0, batch |-> 0, left |-> << >>, found |-> FALSE, changed |-> FALSE]
Start == [long |-> 1, doppler |-> 1, pool |-> 1, chain |-> 1]

SourceInit ==
  /\ head = 0 /\ checkpoint = << >> /\ cycle = Idle /\ refresh = FALSE /\ owed = {}
  /\ mem = [launches |-> {}, index |-> {}, pools |-> {}, pair |-> {}, graph |-> {}, cursors |-> Start]
  /\ disk = [launches |-> {}, pools |-> {}, pair |-> {}, cursors |-> Start, hot |-> 1]
  /\ hot = [next |-> 1, pc |-> "idle", found |-> FALSE, pair |-> {}]
  /\ faults = [failures |-> 0, unwritten |-> 0, bad |-> 0, restarts |-> 0]

NewBlock == head < MaxBlock /\ head' = head + 1 /\ UNCHANGED <<mem, disk, checkpoint, cycle, hot, refresh, owed, faults>>

Failing == faults.failures < MaxFailures /\ faults' = [faults EXCEPT !.failures = @ + 1]

--------------------------------------------------------------------------------
(* Facts *)

launchCursor(c) == Min({c.long, c.doppler})
rangeEnd(from, limit) == Min({from + BlockRange - 1, limit})

(* Pools are kept when their target is known to the index; PAIR pools always. *)
ingested(m, blocks) ==
  [m EXCEPT !.pools = @ \union {p \in SourcePool : p.block \in blocks /\ p.of \in m.index},
            !.pair = @ \union (PairBlock \intersect blocks)]
discovered(m, blocks) == ingested(m, blocks) # m

indexed(m) == [m EXCEPT !.index = m.launches]
rebuilt(m) == [m EXCEPT !.graph = m.pair]

(* Mutant: what is persisted are the cursors of the scan in progress. *)
memoryCursors(m) == m.cursors

(* The cursors every write of state.json carries. *)
durableCursors(m) == IF checkpoint = << >> THEN m.cursors ELSE checkpoint[1]

--------------------------------------------------------------------------------
(* The periodic cycle *)

BeginCycle(due) ==
  /\ cycle.pc = "idle" /\ head > 0
  /\ checkpoint' = IF checkpoint = << >> THEN <<mem.cursors>> ELSE checkpoint
  /\ cycle' = [Idle EXCEPT !.pc = IF due \/ refresh THEN "refresh" ELSE "fixed"]
  /\ UNCHANGED <<head, mem, disk, hot, refresh, owed, faults>>

(* refreshCatalog prunes and rebuilds after its last read; then the request,   *)
(* made before or meanwhile, is cleared.                                       *)
RefreshCatalog ==
  /\ cycle.pc = "refresh"
  /\ mem' = rebuilt([indexed(mem) EXCEPT !.pools = {p \in mem.pools : p.of \in mem.launches}])
  /\ refresh' = FALSE
  /\ cycle' = [cycle EXCEPT !.pc = "fixed"]
  /\ UNCHANGED <<head, disk, checkpoint, hot, owed, faults>>

FixedBlock ==
  /\ cycle.pc = "fixed"
  /\ cycle' = [cycle EXCEPT !.pc = "launches", !.fixed = head]
  /\ UNCHANGED <<head, mem, disk, checkpoint, hot, refresh, owed, faults>>

(* A read before the maintenance fails: the cycle ends with its checkpoint.    *)
AbandonCycle ==
  /\ cycle.pc \in {"refresh", "fixed"} /\ Failing
  /\ cycle' = Idle
  /\ disk' = [disk EXCEPT !.cursors = durableCursors(mem)]
  /\ UNCHANGED <<head, mem, checkpoint, hot, refresh, owed>>

(* The adapters behind the fixed block, and not too far before the pools, read *)
(* together when they stand at the same block and else one after the other.    *)
active ==
  {a \in Adapter : mem.cursors[a] <= cycle.fixed /\ mem.cursors[a] < mem.cursors.pool + BlockRange * Batches}
groups ==
  IF active = Adapter /\ mem.cursors.long = mem.cursors.doppler THEN <<Adapter>>
  ELSE (IF "long" \in active THEN <<{"long"}>> ELSE << >>) \o (IF "doppler" \in active THEN <<{"doppler"}>> ELSE << >>)

PlanLaunches ==
  /\ cycle.pc = "launches" /\ cycle.left = << >>
  /\ IF cycle.batch < Batches /\ active # {}
       THEN /\ cycle' = [cycle EXCEPT !.batch = @ + 1, !.left = groups]
            /\ UNCHANGED mem
       ELSE /\ cycle' = [cycle EXCEPT !.pc = "pools", !.batch = 0]
            /\ mem' = IF cycle.changed THEN indexed(mem) ELSE mem
  /\ UNCHANGED <<head, disk, checkpoint, hot, refresh, owed, faults>>

(* An adapter that cannot decode or store its logs stays where it was.         *)
ReadLaunches(bad) ==
  /\ cycle.pc = "launches" /\ cycle.left # << >>
  /\ LET group == Head(cycle.left)
         from == mem.cursors[CHOOSE a \in group : TRUE]
         to == rangeEnd(from, cycle.fixed)
         new == {l \in Launch : l.by \in group \ bad /\ l.block \in from..to}
     IN /\ bad \subseteq group
        /\ faults.bad + Cardinality(bad) <= MaxBad
        /\ faults' = [faults EXCEPT !.bad = @ + Cardinality(bad)]
        /\ mem' = [mem EXCEPT !.launches = @ \union new,
                     !.cursors = [c \in DOMAIN @ |-> IF c \in group \ bad THEN to + 1 ELSE @[c]]]
        /\ cycle' = [cycle EXCEPT !.left = Tail(@), !.changed = @ \/ new # {}]
  /\ UNCHANGED <<head, disk, checkpoint, hot, refresh, owed>>

(* A failed read leaves the stage at once.                                     *)
LaunchReadFails ==
  /\ cycle.pc = "launches" /\ cycle.left # << >> /\ Failing
  /\ cycle' = [cycle EXCEPT !.pc = "pools", !.batch = 0, !.left = << >>]
  /\ UNCHANGED <<head, mem, disk, checkpoint, hot, refresh, owed>>

(* Pools are read up to where both launch adapters have been.                  *)
poolLimit == Min({launchCursor(mem.cursors) - 1, cycle.fixed})

readsPools == cycle.pc = "pools" /\ cycle.batch < Batches /\ mem.cursors.pool <= poolLimit
readsChain == cycle.pc = "chain" /\ cycle.batch < ChainBatches /\ mem.cursors.chain <= cycle.fixed

ReadPools ==
  /\ cycle.pc = "pools"
  /\ IF readsPools
       THEN LET to == rangeEnd(mem.cursors.pool, poolLimit)
                blocks == mem.cursors.pool..to
            IN /\ mem' = [ingested(mem, blocks) EXCEPT !.cursors.pool = to + 1]
               /\ cycle' = [cycle EXCEPT !.batch = @ + 1, !.found = @ \/ ingested(mem, blocks).pools # mem.pools]
       ELSE /\ cycle' = [cycle EXCEPT !.pc = "chain", !.batch = 0, !.found = FALSE]
            /\ mem' = IF cycle.found THEN rebuilt(mem) ELSE mem
  /\ UNCHANGED <<head, disk, checkpoint, hot, refresh, owed, faults>>

(* The PAIR chain catalog has a cursor and a file of its own, written when all *)
(* batches are through.                                                        *)
ReadChain ==
  /\ cycle.pc = "chain"
  /\ IF readsChain
       THEN LET to == rangeEnd(mem.cursors.chain, cycle.fixed)
                blocks == mem.cursors.chain..to
            IN /\ mem' = [ingested(mem, blocks) EXCEPT !.cursors.chain = to + 1]
               /\ cycle' = [cycle EXCEPT !.batch = @ + 1, !.found = @ \/ ingested(mem, blocks).pair # mem.pair]
               /\ UNCHANGED disk
       ELSE /\ disk' = [disk EXCEPT !.pair = mem.pair]
            /\ mem' = IF cycle.found THEN rebuilt(mem) ELSE mem
            /\ cycle' = [cycle EXCEPT !.pc = "project"]
  /\ UNCHANGED <<head, checkpoint, hot, refresh, owed, faults>>

(* A failed read skips the rest of its stage, and so does a failed write.      *)
StageFails ==
  /\ readsPools \/ readsChain
  /\ Failing
  /\ cycle' = [cycle EXCEPT !.pc = IF @ = "pools" THEN "chain" ELSE "project", !.batch = 0, !.found = FALSE]
  /\ UNCHANGED <<head, mem, disk, checkpoint, hot, refresh, owed>>

ChainWriteFails ==
  /\ cycle.pc = "chain" /\ ~readsChain /\ faults.unwritten < MaxUnwritten
  /\ faults' = [faults EXCEPT !.unwritten = @ + 1]
  /\ cycle' = [cycle EXCEPT !.pc = "project"]
  /\ UNCHANGED <<head, mem, disk, checkpoint, hot, refresh, owed>>

(* commitDeferredSourceProjection: the projection first, then the cursors.     *)
WriteProjection ==
  /\ cycle.pc = "project"
  /\ disk' = [disk EXCEPT !.launches = mem.launches, !.pools = mem.pools]
  /\ cycle' = [cycle EXCEPT !.pc = "cursors"]
  /\ UNCHANGED <<head, mem, checkpoint, hot, refresh, owed, faults>>

CommitCursors ==
  /\ cycle.pc = "cursors"
  /\ disk' = [disk EXCEPT !.cursors = mem.cursors]
  /\ checkpoint' = << >> /\ cycle' = Idle
  /\ UNCHANGED <<head, mem, hot, refresh, owed, faults>>

(* Either write fails: the checkpoint stays, or is restored.                   *)
CommitFails ==
  /\ cycle.pc \in {"project", "cursors"} /\ Failing
  /\ cycle' = Idle
  /\ UNCHANGED <<head, mem, disk, checkpoint, hot, refresh, owed>>

--------------------------------------------------------------------------------
(* The hot poll, and a restart (with an empty graph, so its first cycle refreshes) *)

(* Between the projection and the cursors nothing else runs.                   *)
HotIngest ==
  /\ hot.pc = "idle" /\ hot.next <= head /\ cycle.pc # "cursors"
  /\ mem' = ingested(mem, {hot.next})
  /\ hot' = [hot EXCEPT !.pc = "final", !.found = discovered(mem, {hot.next}),
                           !.pair = mem'.pair \ mem.pair]
  /\ UNCHANGED <<head, disk, checkpoint, cycle, refresh, owed, faults>>

requested == refresh \/ hot.found

HotAdvance ==
  /\ hot.pc = "final" /\ cycle.pc # "cursors"
  /\ hot' = [next |-> hot.next + 1, pc |-> "idle", found |-> FALSE, pair |-> {}]
  /\ disk' = [disk EXCEPT !.cursors = durableCursors(mem), !.hot = hot.next + 1]
  /\ refresh' = requested /\ owed' = owed \union hot.pair
  /\ UNCHANGED <<head, mem, checkpoint, cycle, faults>>

(* The last read of the poll fails; its range is read again, as known facts.   *)
HotFails ==
  /\ hot.pc = "final" /\ cycle.pc # "cursors" /\ Failing
  /\ hot' = [hot EXCEPT !.pc = "idle", !.found = FALSE, !.pair = {}]
  /\ UNCHANGED <<head, mem, disk, checkpoint, cycle, refresh, owed>>

Restart ==
  /\ faults.restarts < MaxRestarts
  /\ faults' = [faults EXCEPT !.restarts = @ + 1]
  /\ mem' = [launches |-> disk.launches, index |-> disk.launches,
             pools |-> {p \in disk.pools : p.of \in disk.launches}, pair |-> disk.pair, graph |-> {},
             cursors |-> [disk.cursors EXCEPT !.pool = Min({@, launchCursor(disk.cursors)})]]
  /\ checkpoint' = << >> /\ cycle' = Idle /\ refresh' = TRUE /\ owed' = {}
  /\ hot' = [next |-> disk.hot, pc |-> "idle", found |-> FALSE, pair |-> {}]
  /\ UNCHANGED <<head, disk>>

SourceNext ==
  \/ NewBlock \/ \E due \in BOOLEAN : BeginCycle(due)
  \/ RefreshCatalog \/ FixedBlock \/ AbandonCycle
  \/ PlanLaunches \/ LaunchReadFails \/ \E bad \in SUBSET Adapter : ReadLaunches(bad)
  \/ ReadPools \/ ReadChain \/ StageFails \/ ChainWriteFails
  \/ WriteProjection \/ CommitCursors \/ CommitFails
  \/ HotIngest \/ HotAdvance \/ HotFails \/ Restart

SourceSpec == SourceInit /\ [][SourceNext]_sourceVars

--------------------------------------------------------------------------------
(* Properties *)

SourceTypeOK ==
  /\ head \in 0..MaxBlock /\ cycle.fixed <= head
  /\ mem.launches \subseteq Launch /\ mem.index \subseteq mem.launches
  /\ mem.pools \subseteq SourcePool /\ mem.pair \subseteq PairBlock
  /\ \A c \in {mem.cursors, disk.cursors} : c.pool <= launchCursor(c) /\ c.chain <= MaxBlock + 1

(* No launch is skipped (ADR 0039): below the cursor that state.json holds     *)
(* every launch is in source-catalog.json, wherever the board died.            *)
LaunchesKept == \A l \in Launch : l.block < disk.cursors[l.by] => l \in disk.launches

(* No pool of a launched token is skipped (ADR 0010): when the pool cursor has *)
(* passed its block the pool is kept, in memory and on disk.                   *)
LaunchPoolsKept ==
  \A p \in SourcePool : /\ p.block < mem.cursors.pool => p \in mem.pools
                        /\ p.block < disk.cursors.pool => p \in disk.pools

(* No PAIR pool is skipped: below the chain cursor of state.json every PAIR    *)
(* pool is in chain-catalog.json.                                              *)
ChainPoolsKept == \A b \in PairBlock : b < disk.cursors.chain => b \in disk.pair

(* A PAIR pool the hot poll found gets into the strategy graph: while it is    *)
(* not in it, a refresh is requested; no cycle and no later poll takes the     *)
(* request back.  (A poll that fails after it found a pool requests nothing.)  *)
RefreshRequested == owed \subseteq mem.graph \/ refresh
================================================================================
