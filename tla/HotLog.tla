-------------------------------- MODULE HotLog --------------------------------
(* The board's hot poll: a cursor that follows the pool events near the head,  *)
(* and the queue of candidates to quote again.  The poll awaits the chain four *)
(* times; blocks, reorganisations, failed reads and restarts come in between.  *)
(* One candidate stands for all: a block is busy when its pools were swapped.  *)
EXTENDS Naturals, FiniteSets, FiniteSetsExt

CONSTANTS
  MaxBlock,       \* bound: blocks
  MaxReorgs,      \* bound: reorganisations
  MaxFailures,    \* bound: reads that fail
  MaxRestarts,    \* bound: restarts of the board
  Confirmations,  \* EVENT_CONFIRMATIONS
  MaxBlockRange,  \* EVENT_MAX_BLOCK_RANGE
  MaxLagBlocks,   \* EVENT_MAX_LAG_BLOCKS
  ReorgLookback   \* EVENT_REORG_LOOKBACK

VARIABLES
  chain,   \* chain[b]: version of block b (each reorganisation makes a new one) and whether it is busy
  cursor,  \* hotCursor; next 0 and last 0 stand for null
  saved,   \* hotCursor in state.json
  queue,   \* CandidateWakeQueue: transactions seen, latest block of the pending wake (0: none)
  poll,    \* the poll in flight: what it awaits, head read, range
  first,   \* the first block the cursor ever stood at
  gaps,    \* blocks reported as skipped
  read,    \* <<b, v>>: block b was read in version v, and its wake accepted or joined to a later one
  torn,    \* a reorganisation came between a poll's check of the anchor and its next one
  faults   \* what went wrong so far, for the bounds

hotVars == <<chain, cursor, saved, queue, poll, first, gaps, read, torn, faults>>

NoCursor == [next |-> 0, last |-> 0, hash |-> 0]
NoQueue == [seen |-> {}, pending |-> 0]
NoPoll == [pc |-> "idle", head |-> 0, from |-> 0, to |-> 0]

Height == Cardinality(DOMAIN chain)
safeHead(head) == IF head > Confirmations THEN head - Confirmations ELSE 0

HotInit ==
  /\ chain = << >> /\ cursor = NoCursor /\ saved = NoCursor
  /\ queue = NoQueue /\ poll = NoPoll
  /\ first = 0 /\ gaps = {} /\ read = {} /\ torn = FALSE
  /\ faults = [reorgs |-> 0, failures |-> 0, restarts |-> 0]

--------------------------------------------------------------------------------
(* The chain *)

NewBlock(busy) ==
  /\ Height < MaxBlock
  /\ chain' = [b \in 1..Height + 1 |-> IF b <= Height THEN chain[b] ELSE [version |-> 0, busy |-> busy]]
  /\ UNCHANGED <<cursor, saved, queue, poll, first, gaps, read, torn, faults>>

(* The last blocks are replaced: the same transactions, in other blocks. *)
Reorganise(depth) ==
  /\ faults.reorgs < MaxReorgs /\ depth <= Height
  /\ faults' = [faults EXCEPT !.reorgs = @ + 1]
  /\ chain' = [b \in DOMAIN chain |->
                 IF b > Height - depth THEN [chain[b] EXCEPT !.version = faults'.reorgs] ELSE chain[b]]
  /\ torn' = (torn \/ poll.pc \in {"logs", "final"} \/ \E b \in queue.seen : b >= cursor.next)
  /\ UNCHANGED <<cursor, saved, queue, poll, first, gaps, read>>

--------------------------------------------------------------------------------
(* Ranges *)

(* What recoverStaleHotCursor makes of a cursor too far behind. *)
resumeBlock(head) == IF safeHead(head) + 1 > ReorgLookback THEN safeHead(head) + 1 - ReorgLookback ELSE 0
stale(c, head) ==
  /\ c.next # 0 /\ c.next <= safeHead(head)
  /\ safeHead(head) - c.next + 1 > MaxLagBlocks
  /\ resumeBlock(head) > c.next
recovered(c, head) ==
  IF stale(c, head) THEN [next |-> resumeBlock(head), last |-> 0, hash |-> 0] ELSE c

rangeEnd(next, head) == Min({next + MaxBlockRange - 1, safeHead(head)})

(* The anchor is not what was processed: rewind, with nothing anchored. *)
reconciled(c) ==
  [next |-> IF c.last >= ReorgLookback THEN c.last - ReorgLookback + 1 ELSE 1, last |-> 0, hash |-> 0]

--------------------------------------------------------------------------------
(* The poll *)

Fail ==
  /\ poll.pc # "idle" /\ faults.failures < MaxFailures
  /\ faults' = [faults EXCEPT !.failures = @ + 1]
  /\ poll' = NoPoll
  /\ UNCHANGED <<chain, cursor, saved, queue, first, gaps, read, torn>>

(* The first poll places the cursor after the confirmed head; the first cycle,  *)
(* if it is sooner, after the block it quotes at, as it read it (between that   *)
(* read and this write a cursor that is still null is nobody's concern).        *)
StartCursor ==
  /\ poll.pc = "idle" /\ Height > 0 /\ cursor.next = 0
  /\ \/ cursor' = [NoCursor EXCEPT !.next = safeHead(Height) + 1]
     \/ \E fixed \in DOMAIN chain :
          cursor' = [next |-> fixed + 1, last |-> fixed, hash |-> chain[fixed].version]
  /\ saved' = cursor'
  /\ first' = IF first = 0 THEN cursor'.next ELSE first
  /\ UNCHANGED <<chain, queue, poll, gaps, read, torn, faults>>

(* Head read.  A stale cursor jumps ahead, reports what it passes over and     *)
(* starts an empty queue; without a confirmed range the poll only persists.    *)
ReadHead ==
  /\ poll.pc = "idle" /\ cursor.next # 0
  /\ LET c == recovered(cursor, Height)
     IN /\ cursor' = c
        /\ queue' = IF stale(cursor, Height) THEN NoQueue ELSE queue
        /\ gaps' = gaps \union IF stale(cursor, Height) THEN cursor.next..c.next - 1 ELSE {}
        /\ IF c.next > safeHead(Height)
             THEN saved' = c /\ UNCHANGED poll
             ELSE /\ UNCHANGED saved
                  /\ poll' = [pc |-> IF c.last = 0 THEN "logs" ELSE "anchor", head |-> Height,
                              from |-> c.next, to |-> rangeEnd(c.next, Height)]
  /\ UNCHANGED <<chain, first, read, torn, faults>>

(* The anchor's hash is compared before anything is read after it. *)
CheckAnchor ==
  /\ poll.pc = "anchor"
  /\ IF chain[cursor.last].version = cursor.hash
       THEN poll' = [poll EXCEPT !.pc = "logs"] /\ UNCHANGED <<cursor, queue>>
       ELSE /\ cursor' = reconciled(cursor)
            /\ queue' = NoQueue
            /\ poll' = [poll EXCEPT !.pc = "logs", !.from = cursor'.next,
                                    !.to = rangeEnd(cursor'.next, poll.head)]
  /\ UNCHANGED <<chain, saved, first, gaps, read, torn, faults>>

(* One event per pool, the latest, stands for those of the range.  The queue   *)
(* takes it unless it has seen its transaction.                                *)
latestSwap(from, to) == LET busy == {b \in from..to : chain[b].busy} IN IF busy = {} THEN 0 ELSE Max(busy)

offered(b) ==
  IF b = 0 \/ b \in queue.seen THEN queue
  ELSE [seen |-> queue.seen \union {b}, pending |-> Max({queue.pending, b})]

(* The logs come and are queued at once; the cursor waits for the last block's *)
(* hash.                                                                       *)
QueueLogs ==
  /\ poll.pc = "logs"
  /\ LET latest == latestSwap(poll.from, poll.to)
     IN /\ queue' = offered(latest)
        /\ read' = read \union
             IF latest \in queue.seen /\ <<latest, chain[latest].version>> \notin read THEN {}
             ELSE {<<b, chain[b].version>> : b \in poll.from..poll.to}
  /\ poll' = [poll EXCEPT !.pc = "final"]
  /\ UNCHANGED <<chain, cursor, saved, first, gaps, torn, faults>>

(* Mutant: the cursor goes to the head, past the end of the bounded range. *)
AdvanceToHead ==
  /\ poll.pc = "final"
  /\ cursor' = LET head == safeHead(poll.head)
               IN [next |-> head + 1, last |-> head, hash |-> chain[head].version]
  /\ saved' = cursor' /\ poll' = NoPoll
  /\ UNCHANGED <<chain, queue, first, gaps, read, torn, faults>>

Advance ==
  /\ poll.pc = "final"
  /\ cursor' = [next |-> poll.to + 1, last |-> poll.to, hash |-> chain[poll.to].version]
  /\ saved' = cursor' /\ poll' = NoPoll
  /\ UNCHANGED <<chain, queue, first, gaps, read, torn, faults>>

--------------------------------------------------------------------------------
(* The rest of the board *)

(* waitForEventWake drains the queue, the stale candidates included. *)
TakeWake ==
  /\ queue.pending # 0
  /\ queue' = [queue EXCEPT !.pending = 0]
  /\ UNCHANGED <<chain, cursor, saved, poll, first, gaps, read, torn, faults>>

(* Every publication persists the cursor as it stands. *)
PersistState ==
  /\ saved # cursor /\ saved' = cursor
  /\ UNCHANGED <<chain, cursor, queue, poll, first, gaps, read, torn, faults>>

Restart ==
  /\ faults.restarts < MaxRestarts
  /\ faults' = [faults EXCEPT !.restarts = @ + 1]
  /\ cursor' = saved /\ queue' = NoQueue /\ poll' = NoPoll
  /\ UNCHANGED <<chain, saved, first, gaps, read, torn>>

HotNext ==
  \/ \E busy \in BOOLEAN : NewBlock(busy)
  \/ \E depth \in 1..ReorgLookback : Reorganise(depth)
  \/ Fail \/ StartCursor \/ ReadHead \/ CheckAnchor \/ QueueLogs \/ Advance
  \/ TakeWake \/ PersistState \/ Restart

HotSpec == HotInit /\ [][HotNext]_hotVars

--------------------------------------------------------------------------------
(* Properties *)

HotTypeOK ==
  /\ cursor.next \in 0..MaxBlock + 1 /\ cursor.last \in 0..MaxBlock
  /\ cursor.last # 0 => cursor.next = cursor.last + 1
  /\ poll.pc \in {"idle", "anchor", "logs", "final"}
  /\ poll.pc # "idle" => poll.from <= poll.to /\ poll.to <= safeHead(poll.head)
  /\ queue.pending \in queue.seen \union {0}
  /\ gaps \subseteq 1..MaxBlock

(* No swap goes by in silence: a busy block below the cursor was read in some  *)
(* version, or is in a reported gap; also for the cursor that a restart finds. *)
Passed(c) == {b \in first..c.next - 1 : first # 0 /\ b \in DOMAIN chain /\ chain[b].busy}
NoSilentGap ==
  \A c \in {cursor, saved} : \A b \in Passed(c) : b \in gaps \/ \E r \in read : r[1] = b

(* After a reorganisation the replaced blocks are read again and wake again:   *)
(* while the anchor is on the chain, the blocks within the lookback were read  *)
(* in the version they have now.  (Unless the chain changed between the two    *)
(* anchors of a poll, which nothing notices.)                                  *)
Anchored(c) == c.last # 0 /\ chain[c.last].version = c.hash
Reread(c) == \A b \in Passed(c) : b + ReorgLookback > c.last /\ b \notin gaps => <<b, chain[b].version>> \in read
ReorgReread == ~torn /\ poll.pc = "idle" /\ Anchored(cursor) => Reread(cursor)

================================================================================
