----------------------------- MODULE EarnEvents -----------------------------
(***************************************************************************)
(* How the watcher learns of swaps in the Earn vault: the managed WSS       *)
(* subscription (src/managed-earn-event-source.mjs) and the public HTTP     *)
(* reader (pollEarnOnHoodWake in scripts/dual-base-arb.mjs), which share    *)
(* one block cursor.                                                       *)
(*                                                                         *)
(* A block has at most one swap; its log is known by the block's number.    *)
(***************************************************************************)
EXTENDS Integers, FiniteSets, SequencesExt

CONSTANTS Window,     \* blocks one poll reads at most (200)
          MaxKeys,    \* maximumDedupeKeys
          Lag,        \* how far the public reader may be behind the chain
          MaxReplays, MaxBlock  \* bounds of the model

ASSUME WindowAssumption == Window \in Nat \ {0}
ASSUME MaxKeysAssumption == MaxKeys \in Nat \ {0}
ASSUME LagAssumption == Lag \in Nat

VARIABLES
    head, swaps,          \* the chain: its last block, the blocks with a swap
    pipe, replays,        \* logs the provider has sent; how many of them again
    cursor,               \* earnEventCursor
    poll,                 \* the poll under way: the cursor it was given, the head it saw
    status, active,       \* state.status, unwatch # null
    cache,                 \* dedupe keys, oldest first
    woken,                \* history: swaps the subscription woke for, in that order
    polled, skipped,      \* history: swaps found by a poll, blocks reported as skipped
    overtaken             \* history: blocks below a log that moved the cursor

source == <<status, active, cache, woken, overtaken>>
reader == <<poll, polled, skipped>>
eventVars == <<head, swaps, pipe, replays, cursor, source, reader>>

Block == Nat \ {0}
Idle == [phase |-> "idle", from |-> 0, upTo |-> 0]

EventsTypeOK ==
    /\ head \in Nat /\ swaps \subseteq 1..head
    /\ pipe \subseteq swaps /\ replays \in Nat
    /\ cursor \in Nat
    /\ poll \in [phase : {"idle", "head", "logs"}, from : Nat, upTo : Nat]
    /\ status \in {"IDLE", "SUBSCRIBED", "DEGRADED"} /\ active \in BOOLEAN
    /\ cache \in Seq(swaps) /\ Len(cache) <= MaxKeys
    /\ woken \in Seq(swaps)
    /\ polled \subseteq swaps
    /\ skipped \subseteq 1..head /\ overtaken \subseteq 1..head

\* The cursor starts at the block of the startup's wallet snapshot.
EventsInit ==
    /\ head = 0 /\ swaps = {} /\ pipe = {} /\ replays = 0
    /\ cursor = 0 /\ poll = Idle
    /\ status = "IDLE" /\ active = FALSE /\ cache = << >> /\ woken = << >>
    /\ polled = {} /\ skipped = {} /\ overtaken = {}

-----------------------------------------------------------------------------
(* The chain and the provider *)

\* A block with or without a swap; a subscription that works is sent the log.
Mine(swap, sent) ==
    /\ head < MaxBlock
    /\ head' = head + 1
    /\ swaps' = IF swap THEN swaps \cup {head + 1} ELSE swaps
    /\ pipe' = IF swap /\ sent /\ active THEN pipe \cup {head + 1} ELSE pipe
    /\ UNCHANGED <<replays, cursor, source, reader>>

\* After a reconnect the provider sends a log again, or for the first time.
Replay(b) ==
    /\ active /\ replays < MaxReplays
    /\ b \in swaps \ pipe
    /\ replays' = replays + 1
    /\ pipe' = pipe \cup {b}
    /\ UNCHANGED <<head, swaps, cursor, source, reader>>

-----------------------------------------------------------------------------
(* ManagedEarnEventSource *)

\* start(), at first and, from the loop, whenever it is degraded and has no
\* subscription; the endpoint accepts it or not.  The loop is in one place: it
\* is not polling meanwhile.
Start(accepted) ==
    /\ ~active /\ status \in {"IDLE", "DEGRADED"}
    /\ poll.phase = "idle"
    /\ active' = accepted
    /\ status' = IF accepted THEN "SUBSCRIBED" ELSE "DEGRADED"
    /\ UNCHANGED <<head, swaps, pipe, replays, cursor, cache, woken, overtaken, reader>>

\* handleError: the connection is lost, and what was under way with it.  The
\* subscription is kept: the transport reconnects by itself.
HandleError ==
    /\ active
    /\ status' = "DEGRADED"
    /\ pipe' = {}
    /\ UNCHANGED <<head, swaps, replays, cursor, active, cache, woken, overtaken, reader>>

evictEarly(keys) == IF Len(keys) >= MaxKeys THEN Tail(keys) ELSE keys

evicted(keys) == IF Len(keys) > MaxKeys THEN Tail(keys) ELSE keys

remembered(b) == \E i \in DOMAIN cache : cache[i] = b

\* handleLogs and onWake: a log that is not remembered wakes the searches and
\* moves the cursor.
HandleLogs(b) ==
    /\ active /\ b \in pipe
    /\ pipe' = pipe \ {b}
    /\ IF remembered(b)
       THEN UNCHANGED <<cursor, source>>
       ELSE /\ cache' = evicted(Append(cache, b))
            /\ woken' = Append(woken, b)
            /\ cursor' = IF b > cursor THEN b ELSE cursor
            /\ overtaken' = overtaken \cup ((cursor + 1)..(b - 1))
            /\ status' = "SUBSCRIBED"
            /\ UNCHANGED active
    /\ UNCHANGED <<head, swaps, replays, reader>>

-----------------------------------------------------------------------------
(* pollEarnOnHoodWake, between its two awaits *)

PollStart ==
    /\ poll.phase = "idle"
    /\ status # "IDLE"
    /\ poll' = [phase |-> "head", from |-> cursor, upTo |-> 0]
    /\ UNCHANGED <<head, swaps, pipe, replays, cursor, source, polled, skipped>>

\* getBlockNumber answers h.  Nothing new: the cursor is set to what it was
\* when the poll began.
PollHead(h) ==
    /\ poll.phase = "head"
    /\ h \in 0..head /\ h >= head - Lag
    /\ IF h <= poll.from
       THEN cursor' = poll.from /\ poll' = Idle
       ELSE poll' = [poll EXCEPT !.phase = "logs", !.upTo = h] /\ UNCHANGED cursor
    /\ UNCHANGED <<head, swaps, pipe, replays, source, polled, skipped>>

scannedFrom(from, upTo) == IF upTo - from > Window THEN upTo - Window + 1 ELSE from + 1

\* getLogs answers: what it found is a wake, what it did not read is counted.
PollLogs ==
    /\ poll.phase = "logs"
    /\ LET first == scannedFrom(poll.from, poll.upTo)
       IN  /\ polled' = polled \cup {b \in swaps : first <= b /\ b <= poll.upTo}
           /\ skipped' = skipped \cup ((poll.from + 1)..(first - 1))
    /\ cursor' = poll.upTo
    /\ poll' = Idle
    /\ UNCHANGED <<head, swaps, pipe, replays, source>>

\* Either request fails: the cursor stays.
cursorAdvanced == poll.upTo

cursorAfterFailure == cursor

PollFail ==
    /\ poll.phase # "idle"
    /\ cursor' = cursorAfterFailure
    /\ poll' = Idle
    /\ UNCHANGED <<head, swaps, pipe, replays, source, polled, skipped>>

EventsNext ==
    \/ \E swap, sent \in BOOLEAN : Mine(swap, sent)
    \/ \E b \in swaps : Replay(b) \/ HandleLogs(b)
    \/ \E accepted \in BOOLEAN : Start(accepted)
    \/ HandleError
    \/ PollStart \/ (\E h \in 0..head : PollHead(h)) \/ PollLogs \/ PollFail

EventsSpec == EventsInit /\ [][EventsNext]_eventVars

\* The loop comes round.  A reader that is asked again and again answers at
\* some time, and is not behind the same block for ever.
EventsFairSpec ==
    /\ EventsSpec
    /\ WF_eventVars(\E accepted \in BOOLEAN : Start(accepted)) /\ WF_eventVars(PollStart)
    /\ SF_eventVars(PollHead(head)) /\ SF_eventVars(PollLogs)

-----------------------------------------------------------------------------
found == polled \cup {woken[i] : i \in DOMAIN woken}

(* ADR 0075 and 0080: the public reader is the backstop.  Of the blocks the *)
(* cursor has passed, every swap was found or was in a stretch the poll     *)
(* reported as skipped, whatever fails, lags or goes back.  One exception   *)
(* of the code is excepted here: the blocks below a log that moved the      *)
(* cursor, whose own logs the subscription may have lost.                  *)
BackstopCovers == \A b \in swaps : b <= cursor => b \in found \cup skipped \cup overtaken

(* ADR 0080: reconnect replay is suppressed under a bounded cache.  A swap  *)
(* wakes twice only if MaxKeys others came between.                        *)
ReplaySuppressed ==
    \A i, j \in DOMAIN woken : i < j /\ woken[i] = woken[j] => j - i > MaxKeys

(* The same backstop as a promise: every swap is found or reported in the   *)
(* end, whatever becomes of the subscription, with the same exception.     *)
SwapsFound == \A b \in 1..MaxBlock : b \in swaps ~> b \in found \cup skipped \cup overtaken
=============================================================================
