------------------------------ MODULE Publication ------------------------------
(* The board's cycle and what it publishes: quotes at a fixed block, economic   *)
(* episodes, the signer's feed, the event log, the evidence ledger and SQLite.  *)
(* Publication is one synchronous stretch of writes, so only a crash can come   *)
(* between two of them.                                                         *)
EXTENDS Naturals, FiniteSets

CONSTANTS
  Candidate,
  MaxPublished,  \* bound: publications
  MaxGaps,       \* bound: catalog refreshes that miss a known candidate
  MaxBusy,       \* bound: SQLite transactions that fail
  MaxCrashes     \* bound: crashes

VARIABLES
  catalog,  \* the candidates of the strategy graph
  obs,      \* observations: none, positive, negative, unknown (unquotable or aged), stale (an aged positive)
  prev,     \* previousSnapshot: its candidates, its open episodes, its observations
  cycle,    \* pc, whether an event woke it, its candidates and what they were when selected
  feed,     \* execution snapshot: the candidates a signer may see
  log,      \* events.jsonl: candidates whose last event opened an episode, and those opened twice in a row
  ledger,   \* evidence.jsonl: its length in batches, the batches in SQLite, the committed offset
  saved,    \* snapshot.json and SQLite's current snapshot, << >> before the first
  faults    \* how often; and whether SQLite's snapshot is behind events.jsonl, or a start went on from it

pubVars == <<catalog, obs, prev, cycle, feed, log, ledger, saved, faults>>

NoItems == [ids |-> {}, open |-> {}, obs |-> [c \in Candidate |-> "none"]]
Rest == [pc |-> "idle", event |-> FALSE, selected |-> {}, inFeed |-> FALSE, hadEpisode |-> FALSE, published |-> FALSE]

PubInit ==
  /\ catalog = {} /\ obs = NoItems.obs /\ prev = NoItems /\ cycle = Rest /\ feed = {}
  /\ log = [open |-> {}, twice |-> {}]
  /\ ledger = [length |-> 0, inserted |-> {}, offset |-> 0]
  /\ saved = [file |-> << >>, sqlite |-> << >>]
  /\ faults = [published |-> 0, gaps |-> 0, busy |-> 0, crashes |-> 0, behind |-> "no"]

aged(o) == IF o \in {"positive", "stale"} THEN "stale" ELSE IF o = "none" THEN o ELSE "unknown"

--------------------------------------------------------------------------------
(* Episodes *)

(* Only a fresh quote without profit closes an episode; a stale, unquotable or  *)
(* missing one leaves it open, its continuity unknown.                          *)
closes(c) == c \in prev.open /\ obs[c] = "negative"

(* reconcileOpportunityEpisodes: a first snapshot, or one after an empty one,   *)
(* is a baseline; a candidate of an earlier snapshot keeps its open episode.    *)
baseline == prev.ids = {}
opened == {c \in catalog : obs[c] = "positive" /\ (baseline \/ c \notin prev.open)}
left == {c \in catalog : ~baseline /\ closes(c)}

kept == (prev.open \intersect catalog) \ left
reconciled ==
  [ids |-> catalog, open |-> opened \union (IF baseline THEN {} ELSE kept),
   obs |-> [c \in Candidate |-> IF c \in catalog THEN obs[c] ELSE "none"]]

(* The events appended, the baseline counting as the entry of its positives.    *)
appendEvents == [open |-> (log.open \union opened) \ left, twice |-> log.twice \union (log.open \intersect opened)]

--------------------------------------------------------------------------------
(* The store *)

(* The ledger is appended to and synced first.                                  *)
appended(led) == [led EXCEPT !.length = @ + 1]

(* One transaction: the batch's evidence, the current snapshot, and the offset  *)
(* at the end of the ledger.                                                    *)
committed(led) == [led EXCEPT !.inserted = @ \union {led.length}, !.offset = led.length]

(* A start replays what lies beyond the offset, in one transaction.             *)
replayed(led) == [led EXCEPT !.inserted = @ \union (led.offset + 1)..led.length, !.offset = led.length]

(* A publication writes snapshot.json, the signer's feed, events.jsonl, the     *)
(* ledger and SQLite; a failed transaction is only reported as degraded health. *)
Publish(commit) ==
  /\ faults.published < MaxPublished
  /\ commit \/ faults.busy < MaxBusy
  /\ saved' = [file |-> <<reconciled>>, sqlite |-> IF commit THEN <<reconciled>> ELSE saved.sqlite]
  /\ feed' = {c \in catalog : obs[c] = "positive"}
  /\ log' = appendEvents
  /\ ledger' = IF commit THEN committed(appended(ledger)) ELSE appended(ledger)
  /\ prev' = reconciled
  /\ faults' = [faults EXCEPT !.published = @ + 1, !.busy = IF commit THEN @ ELSE @ + 1,
                               !.behind = IF @ = "lost" THEN @ ELSE IF commit THEN "no" ELSE "behind"]

--------------------------------------------------------------------------------
(* The cycle *)

Age == \E c \in Candidate : obs[c] # aged(obs[c]) /\ obs' = [obs EXCEPT ![c] = aged(@)]
                            /\ UNCHANGED <<catalog, prev, cycle, feed, log, ledger, saved, faults>>

(* A periodic cycle may refresh the catalog before it selects; at a start it    *)
(* must.  A refresh can miss a token: pages shift, or the API is down.          *)
BeginPeriodic(refreshed, selected) ==
  /\ cycle.pc = "idle" /\ faults.published < MaxPublished
  /\ refreshed \in {catalog, Candidate} \/ prev.ids \ refreshed # {}
  /\ prev.ids \subseteq refreshed \/ faults.gaps < MaxGaps
  /\ selected \subseteq refreshed
  /\ catalog' = refreshed
  /\ cycle' = [Rest EXCEPT !.pc = "quoting", !.selected = selected]
  /\ faults' = [faults EXCEPT !.gaps = IF prev.ids \ refreshed # {} THEN @ + 1 ELSE @]
  /\ UNCHANGED <<obs, prev, feed, log, ledger, saved>>

(* An event's candidates, those that are still in the catalog, remembering      *)
(* whether one was visible to a signer or had an open episode.                  *)
BeginEvent(woken) ==
  /\ cycle.pc = "idle" /\ catalog # {} /\ faults.published < MaxPublished
  /\ LET selected == woken \intersect catalog
     IN cycle' = [pc |-> "quoting", event |-> TRUE, selected |-> selected, published |-> FALSE,
                  inFeed |-> selected \intersect feed # {}, hadEpisode |-> selected \intersect prev.open # {}]
  /\ UNCHANGED <<catalog, obs, prev, feed, log, ledger, saved, faults>>

(* What quoteCandidate finds; the USDG lane that cannot be quoted fails it, the *)
(* WETH lane only leaves a lane out.                                            *)
quotes == {"positive", "negative", "unknown"}

(* The candidates quoted so far; the others once the RPC circuit is open fail.  *)
QuoteCandidates(results) ==
  /\ cycle.pc = "quoting"
  /\ obs' = [c \in Candidate |-> IF c \in cycle.selected THEN results[c] ELSE obs[c]]
  /\ cycle' = [cycle EXCEPT !.pc = "quoted"]
  /\ UNCHANGED <<catalog, prev, feed, log, ledger, saved, faults>>

(* A read before the quotes failed, or the provider did meanwhile: the cycle    *)
(* ends with a publication of what it has.                                      *)
CycleFails(commit) ==
  /\ cycle.pc \in {"quoting", "quoted"} \/ (cycle.pc = "maintain" /\ ~cycle.event)
  /\ Publish(commit)
  /\ cycle' = Rest
  /\ UNCHANGED <<catalog, obs>>

(* A cycle that quoted a positive publishes at once, before any maintenance.    *)
PositiveCheckpoint(commit) ==
  /\ cycle.pc = "quoted"
  /\ IF \E c \in cycle.selected : obs[c] \in {"positive", "stale"}
       THEN Publish(commit) /\ cycle' = [cycle EXCEPT !.pc = "maintain", !.published = TRUE]
       ELSE /\ commit
            /\ cycle' = [cycle EXCEPT !.pc = "maintain"]
            /\ UNCHANGED <<prev, feed, log, ledger, saved, faults>>
  /\ UNCHANGED <<catalog, obs>>

(* Mutant: an event without a positive quote always waits. *)
publishesPeriodic == ~cycle.event

(* eventCyclePublicationPolicy: a periodic cycle always publishes; an event     *)
(* whose checkpoint did not, only for a candidate a signer saw or an episode.   *)
publishes == ~cycle.event \/ (~cycle.published /\ (cycle.inFeed \/ cycle.hadEpisode))

FinishCycle(commit) ==
  /\ cycle.pc = "maintain"
  /\ IF publishes THEN Publish(commit) ELSE commit /\ UNCHANGED <<prev, feed, log, ledger, saved, faults>>
  /\ cycle' = Rest
  /\ UNCHANGED <<catalog, obs>>

--------------------------------------------------------------------------------
(* Crash and start *)

(* The process dies, in a publication after its first n durable writes or      *)
(* elsewhere (n = 0), and starts again: the ledger is replayed, a snapshot file *)
(* without SQLite's is migrated, the feed written again from the snapshot.      *)
Restart(n) ==
  /\ faults.crashes < MaxCrashes
  /\ n = 0 \/ cycle.pc \in {"quoting", "quoted"} \/ (cycle.pc = "maintain" /\ publishes)
  /\ LET file == IF n >= 1 THEN <<reconciled>> ELSE saved.file
         loaded == IF saved.sqlite # << >> THEN saved.sqlite ELSE file
         start == IF loaded = << >> THEN NoItems ELSE loaded[1]
         tail == replayed(IF n >= 4 THEN appended(ledger) ELSE ledger)
     IN /\ saved' = [file |-> file, sqlite |-> loaded]
        /\ ledger' = IF saved.sqlite # loaded THEN committed(appended(tail)) ELSE tail
        /\ prev' = start
        /\ obs' = [c \in Candidate |-> IF obs[c] \in {"stale", "unknown"} THEN aged(start.obs[c]) ELSE start.obs[c]]
        /\ feed' = {c \in start.ids : start.obs[c] = "positive"}
  /\ log' = IF n >= 3 THEN appendEvents ELSE log
  /\ catalog' = {} /\ cycle' = Rest
  /\ faults' = [faults EXCEPT !.crashes = @ + 1, !.behind = IF @ = "behind" \/ n >= 3 THEN "lost" ELSE @]

PubNext ==
  \/ Age
  \/ \E refreshed \in SUBSET Candidate : \E selected \in SUBSET refreshed : BeginPeriodic(refreshed, selected)
  \/ \E woken \in SUBSET Candidate \ {{}} : BeginEvent(woken)
  \/ \E results \in [Candidate -> quotes] : QuoteCandidates(results)
  \/ \E commit \in BOOLEAN : CycleFails(commit) \/ PositiveCheckpoint(commit) \/ FinishCycle(commit)
  \/ \E n \in 0..4 : Restart(n)

PubSpec == PubInit /\ [][PubNext]_pubVars

--------------------------------------------------------------------------------
(* Properties *)

PubTypeOK ==
  /\ catalog \subseteq Candidate /\ feed \subseteq Candidate
  /\ prev.open \subseteq prev.ids /\ log.twice \subseteq Candidate
  /\ ledger.offset <= ledger.length /\ ledger.inserted \subseteq 1..ledger.length

(* No episode is entered twice (docs/spec.md): stale, unquotable and missing    *)
(* observations preserve an open episode, only a fresh non-positive quote ends  *)
(* it, so between two entries of a candidate events.jsonl tells of its end.     *)
EpisodeContinuity == log.twice = {}

(* The same where no refresh missed a candidate and no start went on from a     *)
(* snapshot older than events.jsonl.                                            *)
EnteredOnce == faults.gaps = 0 /\ faults.behind # "lost" => log.twice = {}

(* Between cycles, for every candidate listed: a fresh positive has an open     *)
(* episode and a fresh negative none; no event cycle deferred either (ADR 0040).*)
EpisodeCurrent ==
  cycle.pc = "idle" => \A c \in catalog : /\ obs[c] = "positive" => c \in prev.open
                                          /\ obs[c] = "negative" => c \notin prev.open

(* Between cycles a signer sees no candidate whose last quote was not positive. *)
FeedCleared == cycle.pc = "idle" => \A c \in feed \intersect catalog : obs[c] \in {"positive", "stale"}

(* Wherever a crash fell, every record of the ledger is in SQLite once the      *)
(* board runs again, as long as no transaction failed (ADR 0010).               *)
LedgerReplayed == faults.busy = 0 => ledger.inserted = 1..ledger.length

(* The committed offset never passes a record that SQLite does not hold: what   *)
(* is not inserted is replayed at the next start (ADR 0010).                    *)
OffsetCoversEvidence == 1..ledger.offset \subseteq ledger.inserted
================================================================================
