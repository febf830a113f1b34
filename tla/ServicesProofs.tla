---------------------------- MODULE ServicesProofs ----------------------------
(* The parts of Services keep what their run checks, and their types, for any   *)
(* chain, catalogs, candidates, frames, budgets and bounds: the hot poll, the   *)
(* sequencer feed, the health check, the budgets, the board's publication and   *)
(* its source catalogs, the scheduler; and, from the proofs of their own        *)
(* modules, the executors, the Earn lane and a search.                          *)
EXTENDS Services, SequenceTheorems, FiniteSetTheorems, WellFoundedInduction, TLAPS

--------------------------------------------------------------------------------
(* Arithmetic *)

LEMMA LeastNumber ==
  ASSUME NEW S \in SUBSET Nat, S # {}
  PROVE  \E m \in S : \A k \in S : m <= k
<1> DEFINE R == OpToRel(<, Nat)
<1>1. IsWellFoundedOn(R, Nat)
  BY NatLessThanWellFounded
<1>2. \A x, y \in Nat : x < y => <<x, y>> \in R
  BY Zenon DEF OpToRel
<1> HIDE DEF R
<1>3. PICK x \in S : \A y \in S : ~(<<y, x>> \in R)
  BY <1>1, WFMin
<1>4. ASSUME NEW k \in S PROVE x <= k
  <2>1. ~(k < x)
    BY <1>2, <1>3
  <2> QED
    BY <2>1
<1> QED
  BY <1>4

--------------------------------------------------------------------------------
(* The hot cursor *)

Cursors == [next : Nat, last : Nat, hash : Nat]
Passes(n) == {b \in DOMAIN chain : first <= b /\ b < n /\ chain[b].busy}
Now(b) == <<b, chain[b].version>>

(* Below n every busy block was read in some version, or reported; from the     *)
(* lookback on, in the version it has now.                                      *)
Covered(n) == \A b \in Passes(n) : b \in gaps \/ \E r \in read : r[1] = b
Fresh(n, last) == \A b \in Passes(n) : b + ReorgLookback > last => b \in gaps \/ Now(b) \in read

HotTypes ==
  /\ Hot!Height \in Nat /\ chain \in [1 .. Hot!Height -> [version : Nat, busy : BOOLEAN]]
  /\ hotFaults \in [reorgs : Nat, failures : Nat, restarts : Nat]
  /\ \A b \in DOMAIN chain : chain[b].version <= hotFaults.reorgs
  /\ cursor \in Cursors /\ hotSaved \in Cursors
  /\ poll \in [pc : {"idle", "anchor", "logs", "final"}, head : Nat, from : Nat, to : Nat]
  /\ queue = [seen |-> queue.seen, pending |-> queue.pending] /\ queue.seen \subseteq DOMAIN chain
  /\ first \in Nat /\ torn \in BOOLEAN

(* A cursor is within the chain.  One without an anchor stands where it began,  *)
(* or lies the lookback behind the head.                                        *)
Placed(c) ==
  /\ c.next <= Hot!Height + 1 /\ (first = 0 <=> c.next = 0)
  /\ c.last # 0 => c.next = c.last + 1 /\ c.hash <= hotFaults.reorgs
  /\ c.last = 0 /\ first < c.next => c.next + ReorgLookback <= Hot!safeHead(Hot!Height) + 1

(* While its anchor is on the chain, the last blocks were read as they are now. *)
Current(c) == ~torn /\ c.last # 0 /\ chain[c.last].version = c.hash => Fresh(c.next, c.last)

CursorInv(c) == Placed(c) /\ Covered(c.next) /\ Current(c)

(* What was queued was read with all before it, and where the cursor has not    *)
(* passed it, as it is now.                                                     *)
Queued(s) ==
  /\ cursor.next # 0 /\ Covered(s + 1)
  /\ ~torn => \A b \in Passes(s + 1) : cursor.next <= b => Now(b) \in read
QueueInv == \A s \in queue.seen : Queued(s)

(* A poll works on the range after the cursor, whose anchor it has checked.     *)
PollPlaced ==
  poll.pc # "idle" =>
    /\ cursor.next # 0 /\ poll.from = cursor.next /\ poll.from <= poll.to
    /\ poll.to = Hot!rangeEnd(poll.from, poll.head) /\ poll.head <= Hot!Height
    /\ poll.pc = "anchor" => cursor.last # 0
    /\ cursor.last = 0 /\ first < cursor.next => cursor.next + ReorgLookback <= Hot!safeHead(poll.head) + 1
PollAnchored ==
  poll.pc \in {"logs", "final"} /\ ~torn /\ cursor.last # 0 => chain[cursor.last].version = cursor.hash
PollRead == poll.pc = "final" => Covered(poll.to + 1) /\ (~torn => Fresh(poll.to + 1, poll.to))

HotInv ==
  /\ HotTypes /\ CursorInv(cursor) /\ CursorInv(hotSaved) /\ QueueInv
  /\ PollPlaced /\ PollAnchored /\ PollRead

LEMMA HotMin == ASSUME NEW a \in Int, NEW b \in Int PROVE Hot!Min({a, b}) = IF a <= b THEN a ELSE b
  BY DEF Hot!Min

LEMMA HotMax == ASSUME NEW a \in Int, NEW b \in Int PROVE Hot!Max({a, b}) = IF a >= b THEN a ELSE b
  BY DEF Hot!Max

(* A set of blocks that is not empty has a latest. *)
LEMMA LatestBlock ==
  ASSUME NEW n \in Nat, NEW S \in SUBSET (1 .. n), S # {}
  PROVE  Hot!Max(S) \in S /\ \A b \in S : b <= Hot!Max(S)
<1> DEFINE D == {n - b : b \in S}
<1>1. PICK a \in S : TRUE
  OBVIOUS
<1>2. n - a \in D /\ \A b \in S : b \in Int /\ n - b \in Nat
  BY <1>1
<1>3. D \subseteq Nat
  BY <1>2
<1>4. PICK d \in D : \A e \in D : d <= e
  BY <1>2, <1>3, LeastNumber
<1>5. PICK x \in S : d = n - x
  BY <1>4
<1>6. \A y \in S : x >= y
  <2> TAKE y \in S
  <2>1. n - x <= n - y
    BY <1>4, <1>5
  <2> QED
    BY <1>2, <2>1
<1> QED
  BY <1>2, <1>6 DEF Hot!Max

LEMMA Confirmed ==
  ASSUME NEW h \in Nat
  PROVE  Hot!safeHead(h) \in Nat /\ Hot!safeHead(h) <= h
  BY ServicesAssumption DEF Hot!safeHead

LEMMA LaterConfirmed ==
  ASSUME NEW h \in Nat, NEW k \in Nat, h <= k
  PROVE  Hot!safeHead(h) <= Hot!safeHead(k)
  BY ServicesAssumption DEF Hot!safeHead

LEMMA RangeEnd ==
  ASSUME NEW n \in Nat, NEW h \in Nat, n <= Hot!safeHead(h)
  PROVE  /\ Hot!rangeEnd(n, h) \in Nat /\ n <= Hot!rangeEnd(n, h) /\ Hot!rangeEnd(n, h) <= Hot!safeHead(h)
         /\ Hot!rangeEnd(n, h) = Hot!safeHead(h) \/ Hot!rangeEnd(n, h) + 1 = n + MaxBlockRange
<1>1. MaxBlockRange \in Nat /\ 0 < MaxBlockRange
  BY ServicesAssumption
<1>2. n + MaxBlockRange - 1 \in Int /\ Hot!safeHead(h) \in Nat
  BY <1>1, Confirmed
<1> QED
  BY <1>1, <1>2, HotMin DEF Hot!rangeEnd

LEMMA HotCardinality == \A S : Hot!Cardinality(S) = Cardinality(S)
  BY DEF Hot!Cardinality, Cardinality

LEMMA HotInit == Hot!HotInit => HotInv
<1> SUFFICES ASSUME Hot!HotInit PROVE HotInv
  OBVIOUS
<1>1. DOMAIN chain = {}
  BY DEF Hot!HotInit
<1>2. Hot!Height = 0
  BY <1>1, FS_EmptySet, HotCardinality DEF Hot!Height
<1>3. chain \in [1 .. Hot!Height -> [version : Nat, busy : BOOLEAN]]
  BY <1>2 DEF Hot!HotInit
<1>4. HotTypes
  BY <1>1, <1>2, <1>3 DEF Hot!HotInit, HotTypes, Cursors, Hot!NoCursor, Hot!NoPoll, Hot!NoQueue
<1>5. \A n : Passes(n) = {}
  BY <1>1 DEF Passes
<1>6. /\ cursor.next = 0 /\ hotSaved.next = 0 /\ cursor.last = 0 /\ hotSaved.last = 0 /\ first = 0
      /\ queue.seen = {} /\ poll.pc = "idle"
  BY DEF Hot!HotInit, Hot!NoCursor, Hot!NoPoll, Hot!NoQueue
<1>7. CursorInv(cursor) /\ CursorInv(hotSaved)
  BY <1>2, <1>5, <1>6 DEF CursorInv, Placed, Current, Covered
<1> QED
  BY <1>4, <1>6, <1>7 DEF HotInv, QueueInv, PollPlaced, PollAnchored, PollRead

LEMMA HotFacts ==
  ASSUME HotTypes
  PROVE  /\ Hot!Height \in Nat /\ DOMAIN chain = 1 .. Hot!Height /\ 0 \notin DOMAIN chain
         /\ \A b \in DOMAIN chain : b \in Nat /\ 0 < b /\ b <= Hot!Height
         /\ \A b \in DOMAIN chain : chain[b] \in [version : Nat, busy : BOOLEAN] /\ chain[b].version <= hotFaults.reorgs
         /\ queue.seen \subseteq DOMAIN chain
         /\ cursor.next \in Nat /\ cursor.last \in Nat /\ cursor.hash \in Nat /\ hotFaults.reorgs \in Nat
         /\ first \in Nat /\ poll.head \in Nat /\ poll.from \in Nat /\ poll.to \in Nat
         /\ ReorgLookback \in Nat /\ MaxBlockRange \in Nat /\ 0 < MaxBlockRange /\ ReorgLookback <= MaxBlockRange
<1>1. Hot!Height \in Nat /\ DOMAIN chain = 1 .. Hot!Height /\ \A b \in DOMAIN chain : chain[b] \in [version : Nat, busy : BOOLEAN]
  BY DEF HotTypes
<1>2. 0 \notin DOMAIN chain /\ \A b \in DOMAIN chain : b \in Nat /\ 0 < b /\ b <= Hot!Height
  BY <1>1
<1>3. (\A b \in DOMAIN chain : chain[b].version <= hotFaults.reorgs) /\ queue.seen \subseteq DOMAIN chain
  BY DEF HotTypes
<1>4. cursor.next \in Nat /\ cursor.last \in Nat /\ cursor.hash \in Nat /\ hotFaults.reorgs \in Nat
  BY DEF HotTypes, Cursors
<1>5. first \in Nat /\ poll.head \in Nat /\ poll.from \in Nat /\ poll.to \in Nat
  BY DEF HotTypes
<1> QED
  BY <1>1, <1>2, <1>3, <1>4, <1>5, ServicesAssumption

(* What a poll reads is on the chain. *)
LEMMA PollWithin ==
  ASSUME HotTypes, PollPlaced, poll.pc # "idle"
  PROVE  /\ poll.to \in Nat /\ 0 < poll.from /\ poll.from <= poll.to /\ poll.from = cursor.next
         /\ poll.to \in DOMAIN chain
         /\ poll.to <= Hot!safeHead(poll.head) /\ Hot!safeHead(poll.head) \in Nat
         /\ poll.to = Hot!safeHead(poll.head) \/ poll.to + 1 = poll.from + MaxBlockRange
<1>1. /\ poll.to \in Nat /\ poll.head \in Nat /\ poll.from \in Nat /\ poll.from <= poll.to /\ Hot!Height \in Nat
      /\ poll.to = Hot!rangeEnd(poll.from, poll.head) /\ poll.head <= Hot!Height
      /\ poll.from = cursor.next /\ cursor.next # 0
  BY DEF HotTypes, PollPlaced
<1>2. Hot!safeHead(poll.head) \in Nat /\ Hot!safeHead(poll.head) <= poll.head
  BY <1>1, Confirmed
<1>3. MaxBlockRange \in Nat /\ 0 < MaxBlockRange
  BY ServicesAssumption
<1>4. /\ poll.to <= Hot!safeHead(poll.head)
      /\ poll.to = Hot!safeHead(poll.head) \/ poll.to + 1 = poll.from + MaxBlockRange
  BY <1>1, <1>2, <1>3, HotMin DEF Hot!rangeEnd
<1>5. poll.to \in 1 .. Hot!Height
  BY <1>1, <1>2, <1>4
<1> QED
  BY <1>1, <1>2, <1>4, <1>5, HotFacts

(* Where the chain stands still, what was read stays read. *)
LEMMA StillRead ==
  ASSUME UNCHANGED <<chain, first>>, gaps \subseteq gaps', read \subseteq read'
  PROVE  /\ Hot!Height' = Hot!Height /\ (\A n : Passes(n)' = Passes(n)) /\ \A b : Now(b)' = Now(b)
         /\ \A n : Covered(n) => Covered(n)'
         /\ \A n, l : Fresh(n, l) => Fresh(n, l)'
<1>1. Hot!Height' = Hot!Height /\ (\A n : Passes(n)' = Passes(n)) /\ \A b : Now(b)' = Now(b)
  BY DEF Hot!Height, Passes, Now
<1>2. ASSUME NEW n, Covered(n) PROVE Covered(n)'
  BY <1>1, <1>2 DEF Covered
<1>3. ASSUME NEW n, NEW l, Fresh(n, l) PROVE Fresh(n, l)'
  BY <1>1, <1>3 DEF Fresh
<1> QED
  BY <1>1, <1>2, <1>3

LEMMA StillPlaced ==
  ASSUME UNCHANGED <<chain, first, torn>>, gaps \subseteq gaps', read \subseteq read', hotFaults'.reorgs = hotFaults.reorgs,
         NEW c, CursorInv(c)
  PROVE  CursorInv(c)'
<1>1. Placed(c)'
  BY StillRead DEF CursorInv, Placed, Hot!safeHead
<1>2. Covered(c.next)'
  BY StillRead DEF CursorInv
<1>3. Current(c)'
  BY StillRead DEF CursorInv, Current
<1> QED
  BY <1>1, <1>2, <1>3 DEF CursorInv

LEMMA StillQueued ==
  ASSUME UNCHANGED <<chain, first, torn>>, gaps \subseteq gaps', read \subseteq read',
         NEW s, Queued(s), cursor'.next \in Nat, cursor.next \in Nat, cursor.next <= cursor'.next, HotTypes
  PROVE  Queued(s)'
<1>1. Covered(s + 1)' /\ cursor.next # 0 /\ cursor'.next # 0
  BY StillRead DEF Queued
<1>2. ASSUME ~torn, NEW b \in Passes(s + 1), cursor'.next <= b PROVE Now(b) \in read
  <2>1. b \in Nat
    BY HotFacts DEF Passes
  <2>2. cursor.next <= b
    BY <1>2, <2>1
  <2> QED
    BY <1>2, <2>2 DEF Queued
<1> QED
  BY <1>1, <1>2, StillRead DEF Queued

LEMMA CoveredBelow ==
  ASSUME HotTypes, NEW m \in Nat, NEW n \in Nat, m <= n, Covered(n)
  PROVE  Covered(m)
<1>1. ASSUME NEW b \in Passes(m) PROVE b \in Passes(n)
  BY HotFacts DEF Passes
<1> QED
  BY <1>1 DEF Covered

(* The chain grows, or its last blocks are replaced. *)
LEMMA NewBlockKeeps == ASSUME HotInv, NEW busy \in BOOLEAN, Hot!NewBlock(busy) PROVE HotInv'
<1>1. HotTypes /\ CursorInv(cursor) /\ CursorInv(hotSaved) /\ QueueInv /\ PollPlaced /\ PollAnchored /\ PollRead
  BY DEF HotInv
<1>2. Hot!Height \in Nat /\ DOMAIN chain = 1 .. Hot!Height /\ \A b \in DOMAIN chain : b \in Nat /\ b <= Hot!Height
  BY <1>1, HotFacts
<1>3. /\ chain' = [b \in 1 .. Hot!Height + 1 |-> IF b <= Hot!Height THEN chain[b] ELSE [version |-> 0, busy |-> busy]]
      /\ UNCHANGED <<cursor, hotSaved, queue, poll, first, gaps, read, torn, hotFaults>>
  BY DEF Hot!NewBlock
<1>4. Hot!Height' = Hot!Height + 1
  <2>1. DOMAIN chain' = 1 .. Hot!Height + 1
    BY <1>3
  <2>2. Cardinality(1 .. Hot!Height + 1) = Hot!Height + 1
    BY <1>2, FS_Interval
  <2> QED
    BY <2>1, <2>2, HotCardinality DEF Hot!Height
<1>5. /\ DOMAIN chain' = 1 .. Hot!Height + 1
      /\ \A b \in DOMAIN chain : b \in DOMAIN chain' /\ chain'[b] = chain[b]
      /\ chain'[Hot!Height + 1] = [version |-> 0, busy |-> busy]
  BY <1>2, <1>3
<1>6. HotTypes'
  <2>1. \A b \in 1 .. Hot!Height + 1 : b = Hot!Height + 1 \/ b \in DOMAIN chain
    BY <1>2
  <2>2. \A b \in 1 .. Hot!Height + 1 : chain'[b] \in [version : Nat, busy : BOOLEAN] /\ chain'[b].version <= hotFaults.reorgs
    <3>1. \A b \in DOMAIN chain : chain[b] \in [version : Nat, busy : BOOLEAN] /\ chain[b].version <= hotFaults.reorgs
      BY <1>1, HotFacts
    <3>2. [version |-> 0, busy |-> busy] \in [version : Nat, busy : BOOLEAN] /\ 0 <= hotFaults.reorgs
      BY <1>1, HotFacts
    <3> QED
      BY <1>5, <2>1, <3>1, <3>2
  <2>3. chain' \in [1 .. Hot!Height' -> [version : Nat, busy : BOOLEAN]]
    BY <1>3, <1>4, <1>5, <2>2
  <2>4. DOMAIN chain \subseteq DOMAIN chain'
    BY <1>5
  <2> QED
    BY <1>1, <1>2, <1>3, <1>4, <1>5, <2>2, <2>3, <2>4 DEF HotTypes
<1>7. ASSUME NEW n \in Nat, n <= Hot!Height + 1 PROVE Passes(n)' = Passes(n) /\ \A b \in Passes(n) : Now(b)' = Now(b)
  <2>1. ASSUME NEW b \in DOMAIN chain', b < n PROVE b \in DOMAIN chain
    BY <1>2, <1>5, <1>7, <2>1
  <2>2. Passes(n)' = Passes(n)
    BY <1>3, <1>5, <2>1 DEF Passes
  <2> QED
    BY <1>5, <2>2 DEF Passes, Now
<1>8. ASSUME NEW n \in Nat, n <= Hot!Height + 1 PROVE (Covered(n)' <=> Covered(n)) /\ \A l : Fresh(n, l)' <=> Fresh(n, l)
  BY <1>3, <1>7, <1>8 DEF Covered, Fresh
<1>9. ASSUME NEW c \in Cursors, CursorInv(c) PROVE CursorInv(c)'
  <2>1. c.next \in Nat /\ c.last \in Nat /\ c.next <= Hot!Height + 1 /\ (c.last # 0 => c.next = c.last + 1)
    BY <1>9 DEF Cursors, CursorInv, Placed
  <2>2. Hot!safeHead(Hot!Height) <= Hot!safeHead(Hot!Height') /\ Hot!safeHead(Hot!Height) \in Nat /\ Hot!safeHead(Hot!Height') \in Nat
    BY <1>2, <1>4, LaterConfirmed, Confirmed
  <2>3. Placed(c)'
    <3>1. c.next <= Hot!Height' + 1 /\ (first' = 0 <=> c.next = 0) /\ (c.last # 0 => c.next = c.last + 1 /\ c.hash <= hotFaults'.reorgs)
      BY <1>2, <1>3, <1>4, <1>9, <2>1 DEF CursorInv, Placed
    <3>2. c.last = 0 /\ first < c.next => c.next + ReorgLookback <= Hot!safeHead(Hot!Height') + 1
      <4>1. ReorgLookback \in Nat
        BY ServicesAssumption
      <4>2. c.last = 0 /\ first < c.next => c.next + ReorgLookback <= Hot!safeHead(Hot!Height) + 1
        BY <1>9 DEF CursorInv, Placed
      <4> QED
        BY <2>1, <2>2, <4>1, <4>2
    <3> QED
      BY <1>3, <3>1, <3>2 DEF Placed, Hot!safeHead
  <2>4. Covered(c.next)'
    BY <1>8, <1>9, <2>1 DEF CursorInv
  <2>5. c.last # 0 => c.last \in DOMAIN chain
    BY <1>2, <2>1
  <2>6. Current(c)'
    BY <1>3, <1>5, <1>8, <1>9, <2>1, <2>5 DEF CursorInv, Current
  <2> QED
    BY <2>3, <2>4, <2>6 DEF CursorInv
<1>10. CursorInv(cursor)' /\ CursorInv(hotSaved)'
  BY <1>1, <1>3, <1>9 DEF HotTypes
<1>11. QueueInv'
  <2> SUFFICES ASSUME NEW s \in queue.seen PROVE Queued(s)'
    BY <1>3 DEF QueueInv
  <2>1. s + 1 \in Nat /\ s + 1 <= Hot!Height + 1
    BY SMTT(30), <1>1, <1>2, HotFacts
  <2> QED
    BY <1>1, <1>3, <1>7, <1>8, <2>1 DEF QueueInv, Queued
<1>12. PollPlaced'
  <2>1. poll.pc # "idle" => poll.head <= Hot!Height'
    BY <1>1, <1>2, <1>4, HotFacts DEF PollPlaced
  <2> QED
    BY <1>1, <1>3, <2>1 DEF PollPlaced, Hot!rangeEnd, Hot!safeHead
<1>13. PollAnchored'
  <2>1. cursor.last # 0 => cursor.last \in DOMAIN chain
    BY SMTT(30), <1>1, <1>2, HotFacts DEF CursorInv, Placed
  <2> QED
    BY <1>1, <1>3, <1>5, <2>1 DEF PollAnchored
<1>14. PollRead'
  <2>1. poll.pc = "final" => poll.to + 1 \in Nat /\ poll.to + 1 <= Hot!Height + 1
    <3>1. poll.pc = "final" => poll.to \in DOMAIN chain /\ poll.to \in Nat
      BY <1>1, PollWithin
    <3> QED
      BY <1>2, <3>1
  <2> QED
    BY <1>1, <1>3, <1>8, <2>1 DEF PollRead
<1> QED
  BY <1>6, <1>10, <1>11, <1>12, <1>13, <1>14 DEF HotInv

LEMMA ReorganiseKeeps == ASSUME HotInv, NEW depth \in 1 .. ReorgLookback, Hot!Reorganise(depth) PROVE HotInv'
<1>1. HotTypes /\ CursorInv(cursor) /\ CursorInv(hotSaved) /\ QueueInv /\ PollPlaced /\ PollAnchored /\ PollRead
  BY DEF HotInv
<1>2. /\ Hot!Height \in Nat /\ DOMAIN chain = 1 .. Hot!Height /\ \A b \in DOMAIN chain : b \in Nat /\ b <= Hot!Height
      /\ depth \in Nat /\ hotFaults.reorgs \in Nat /\ cursor.next \in Nat
  BY <1>1, HotFacts
<1>3. /\ hotFaults' = [hotFaults EXCEPT !.reorgs = @ + 1]
      /\ chain' = [b \in DOMAIN chain |->
                     IF b > Hot!Height - depth THEN [chain[b] EXCEPT !.version = hotFaults'.reorgs] ELSE chain[b]]
      /\ torn' = (torn \/ poll.pc \in {"logs", "final"} \/ \E b \in queue.seen : b >= cursor.next)
      /\ UNCHANGED <<cursor, hotSaved, queue, poll, first, gaps, read>>
  BY DEF Hot!Reorganise
<1>4. DOMAIN chain' = DOMAIN chain /\ Hot!Height' = Hot!Height
  BY <1>3 DEF Hot!Height
<1>5. hotFaults'.reorgs = hotFaults.reorgs + 1 /\ hotFaults' \in [reorgs : Nat, failures : Nat, restarts : Nat]
  <2>1. hotFaults \in [reorgs : Nat, failures : Nat, restarts : Nat]
    BY <1>1 DEF HotTypes
  <2> QED
    BY <1>2, <1>3, <2>1
<1>6. ASSUME NEW b \in DOMAIN chain
      PROVE  /\ chain'[b] \in [version : Nat, busy : BOOLEAN] /\ chain'[b].busy = chain[b].busy
             /\ chain'[b].version <= hotFaults'.reorgs
             /\ b <= Hot!Height - depth => chain'[b] = chain[b]
             /\ b > Hot!Height - depth => chain'[b].version = hotFaults.reorgs + 1
  <2>1. chain[b] \in [version : Nat, busy : BOOLEAN] /\ chain[b].version <= hotFaults.reorgs /\ b \in Nat
    BY <1>1, HotFacts
  <2>2. CASE b > Hot!Height - depth
    <3>1. chain'[b] = [chain[b] EXCEPT !.version = hotFaults.reorgs + 1]
      BY <1>3, <1>5, <2>2
    <3> QED
      BY SMTT(30), <1>2, <1>5, <2>1, <2>2, <3>1
  <2>3. CASE ~(b > Hot!Height - depth)
    <3>1. chain'[b] = chain[b]
      BY <1>3, <2>3
    <3> QED
      BY <1>2, <1>5, <2>1, <2>3, <3>1
  <2> QED
    BY <2>2, <2>3
<1>7. HotTypes'
  <2>1. chain' \in [1 .. Hot!Height' -> [version : Nat, busy : BOOLEAN]]
    BY <1>2, <1>3, <1>4, <1>6
  <2>2. torn' \in BOOLEAN
    BY <1>1, <1>3 DEF HotTypes
  <2>3. \A b \in DOMAIN chain' : chain'[b].version <= hotFaults'.reorgs
    BY <1>4, <1>6
  <2> QED
    BY <1>1, <1>3, <1>4, <1>5, <2>1, <2>2, <2>3 DEF HotTypes
<1>8. \A n : Passes(n)' = Passes(n) /\ (Covered(n)' <=> Covered(n))
  <2>1. \A n : Passes(n)' = Passes(n)
    BY <1>3, <1>4, <1>6 DEF Passes
  <2> QED
    BY <1>3, <2>1 DEF Covered
<1>9. torn => torn'
  BY <1>3
<1>10. ASSUME NEW c \in Cursors, CursorInv(c) PROVE CursorInv(c)'
  <2>1. c.next \in Nat /\ c.last \in Nat /\ c.hash \in Nat /\ c.next <= Hot!Height + 1
        /\ (c.last # 0 => c.next = c.last + 1 /\ c.hash <= hotFaults.reorgs)
    BY <1>10 DEF Cursors, CursorInv, Placed
  <2>2. Placed(c)'
    <3>1. c.last # 0 => c.next = c.last + 1 /\ c.hash <= hotFaults'.reorgs
      BY <1>2, <1>5, <2>1
    <3> QED
      BY <1>3, <1>4, <1>10, <2>1, <3>1 DEF CursorInv, Placed, Hot!safeHead
  <2>3. ASSUME ~torn', c.last # 0, chain'[c.last].version = c.hash PROVE Fresh(c.next, c.last)'
    <3>1. c.last \in DOMAIN chain
      BY <1>2, <2>1, <2>3
    <3>2. ~(c.last > Hot!Height - depth)
      BY <1>2, <1>6, <2>1, <2>3, <3>1
    <3>3. c.last <= Hot!Height - depth
      BY <1>2, <2>1, <3>2
    <3>4. Fresh(c.next, c.last)
      BY <1>6, <1>9, <1>10, <2>3, <3>1, <3>3 DEF CursorInv, Current
    <3>5. ASSUME NEW b \in Passes(c.next) PROVE chain'[b] = chain[b]
      <4>1. b \in DOMAIN chain /\ b \in Nat /\ b < c.next
        BY <1>2 DEF Passes
      <4>2. b <= Hot!Height - depth
        BY <1>2, <2>1, <2>3, <3>3, <4>1
      <4> QED
        BY <1>6, <4>1, <4>2
    <3>6. Passes(c.next)' = Passes(c.next) /\ \A b \in Passes(c.next) : Now(b)' = Now(b)
      BY <1>8, <3>5 DEF Now
    <3>7. UNCHANGED <<gaps, read>>
      BY <1>3
    <3> QED
      BY <3>4, <3>6, <3>7 DEF Fresh
  <2> QED
    BY <1>3, <1>8, <1>10, <2>2, <2>3 DEF CursorInv, Current
<1>11. CursorInv(cursor)' /\ CursorInv(hotSaved)'
  BY <1>1, <1>3, <1>10 DEF HotTypes
<1>12. QueueInv'
  <2> SUFFICES ASSUME NEW s \in queue.seen PROVE Queued(s)'
    BY <1>3 DEF QueueInv
  <2>1. Queued(s) /\ s \in Nat
    BY <1>1, <1>2, HotFacts DEF QueueInv
  <2>2. ASSUME ~torn', NEW b \in Passes(s + 1), cursor.next <= b PROVE FALSE
    <3>1. s < cursor.next
      <4>1. ~(s >= cursor.next)
        BY <1>3, <2>2, Zenon
      <4> QED
        BY <1>2, <2>1, <4>1
    <3>2. b \in Nat /\ b < s + 1
      BY <1>2 DEF Passes
    <3> QED
      BY <1>2, <2>1, <2>2, <3>1, <3>2
  <2> QED
    BY <1>3, <1>8, <2>1, <2>2 DEF Queued
<1>13. PollPlaced'
  BY <1>1, <1>3, <1>4 DEF PollPlaced, Hot!rangeEnd, Hot!safeHead
<1>14. PollAnchored' /\ PollRead'
  <2>1. torn' \/ poll.pc \notin {"logs", "final"}
    BY <1>3
  <2>2. poll.pc = "final" => Covered(poll.to + 1)'
    BY <1>1, <1>3, <1>8 DEF PollRead
  <2> QED
    BY <1>3, <2>1, <2>2 DEF PollAnchored, PollRead
<1> QED
  BY <1>7, <1>11, <1>12, <1>13, <1>14 DEF HotInv

(* A poll that fails leaves what it queued. *)
LEMMA FailKeeps == ASSUME HotInv, Hot!Fail PROVE HotInv'
<1>1. HotTypes /\ CursorInv(cursor) /\ CursorInv(hotSaved) /\ QueueInv
  BY DEF HotInv
<1>2. /\ hotFaults' = [hotFaults EXCEPT !.failures = @ + 1] /\ poll' = Hot!NoPoll
      /\ UNCHANGED <<chain, cursor, hotSaved, queue, first, gaps, read, torn>>
  BY DEF Hot!Fail
<1>3. hotFaults'.reorgs = hotFaults.reorgs /\ hotFaults' \in [reorgs : Nat, failures : Nat, restarts : Nat]
  <2>1. hotFaults \in [reorgs : Nat, failures : Nat, restarts : Nat]
    BY <1>1 DEF HotTypes
  <2> QED
    BY <1>2, <2>1
<1>4. CursorInv(cursor)' /\ CursorInv(hotSaved)'
  BY <1>1, <1>2, <1>3, StillPlaced
<1>5. QueueInv'
  BY <1>1, <1>2, StillRead DEF QueueInv, Queued
<1>6. HotTypes'
  BY <1>1, <1>2, <1>3, StillRead DEF HotTypes, Hot!NoPoll
<1>7. PollPlaced' /\ PollAnchored' /\ PollRead'
  BY <1>2 DEF PollPlaced, PollAnchored, PollRead, Hot!NoPoll
<1> QED
  BY <1>4, <1>5, <1>6, <1>7 DEF HotInv

(* The cursor's first place is where what it owes begins. *)
LEMMA StartKeeps == ASSUME HotInv, Hot!StartCursor PROVE HotInv'
<1>1. HotTypes /\ CursorInv(cursor) /\ QueueInv
  BY DEF HotInv
<1>0. PICK n \in Nat, last \in Nat, hash \in Nat :
        /\ cursor' = [next |-> n, last |-> last, hash |-> hash]
        /\ n # 0 /\ n <= Hot!Height + 1 /\ (last # 0 => n = last + 1 /\ hash <= hotFaults.reorgs)
  <2>1. Hot!Height \in Nat /\ DOMAIN chain = 1 .. Hot!Height /\ hotFaults.reorgs \in Nat
    BY <1>1, HotFacts DEF HotTypes
  <2>2. CASE cursor' = [Hot!NoCursor EXCEPT !.next = Hot!safeHead(Hot!Height) + 1]
    <3>1. cursor' = [next |-> Hot!safeHead(Hot!Height) + 1, last |-> 0, hash |-> 0]
      BY <2>2 DEF Hot!NoCursor
    <3>2. PICK n \in Nat : n = Hot!safeHead(Hot!Height) + 1 /\ n # 0 /\ n <= Hot!Height + 1
      BY <2>1, Confirmed
    <3> QED
      BY <3>1, <3>2
  <2>3. ASSUME NEW fixed \in DOMAIN chain,
               cursor' = [next |-> fixed + 1, last |-> fixed, hash |-> chain[fixed].version]
        PROVE  \E n \in Nat, last \in Nat, hash \in Nat :
                 /\ cursor' = [next |-> n, last |-> last, hash |-> hash]
                 /\ n # 0 /\ n <= Hot!Height + 1 /\ (last # 0 => n = last + 1 /\ hash <= hotFaults.reorgs)
    <3>1. fixed \in Nat /\ fixed + 1 \in Nat /\ fixed + 1 # 0 /\ fixed + 1 <= Hot!Height + 1
          /\ chain[fixed].version \in Nat /\ chain[fixed].version <= hotFaults.reorgs
      BY <1>1, <2>1, <2>3 DEF HotTypes
    <3> QED
      BY <2>3, <3>1
  <2> QED
    BY <2>2, <2>3 DEF Hot!StartCursor
<1>2. hotSaved' = cursor' /\ first' = (IF first = 0 THEN cursor'.next ELSE first)
      /\ poll.pc = "idle" /\ cursor.next = 0
      /\ UNCHANGED <<chain, queue, poll, gaps, read, torn, hotFaults>>
  BY DEF Hot!StartCursor
<1>3. Hot!Height' = Hot!Height
  BY <1>2 DEF Hot!Height
<1>4. n \in Nat /\ n # 0 /\ n <= Hot!Height + 1
  BY <1>0
<1>5. first = 0 /\ first' = n /\ cursor'.next = n /\ cursor'.last = last
  BY <1>0, <1>1, <1>2 DEF CursorInv, Placed
<1>6. HotTypes'
  <2>1. cursor' \in Cursors
    BY <1>0 DEF Cursors
  <2> QED
    BY <1>1, <1>2, <1>3, <1>4, <1>5, <2>1 DEF HotTypes
<1>7. Passes(n)' = {}
  <2>1. \A b \in DOMAIN chain : b \in Nat
    BY <1>1, HotFacts
  <2> QED
    BY <1>2, <1>4, <1>5, <2>1 DEF Passes
<1>8. CursorInv(cursor)'
  <2>1. Covered(n)'
    BY <1>7 DEF Covered
  <2>2. ~(n < n)
    BY <1>4
  <2> QED
    BY <1>0, <1>2, <1>3, <1>5, <1>7, <2>1, <2>2 DEF CursorInv, Placed, Current, Fresh
<1>9. CursorInv(hotSaved)'
  BY <1>2, <1>8
<1>10. QueueInv'
  BY <1>1, <1>2 DEF QueueInv, Queued
<1>11. PollPlaced' /\ PollAnchored' /\ PollRead'
  BY <1>2 DEF PollPlaced, PollAnchored, PollRead
<1> QED
  BY <1>6, <1>8, <1>9, <1>10, <1>11 DEF HotInv

(* The head is read, and the cursor not too far behind. *)
LEMMA ReadHeadKeeps == ASSUME HotInv, Hot!ReadHead, ~Hot!stale(cursor, Hot!Height) PROVE HotInv'
<1>1. HotTypes /\ CursorInv(cursor) /\ CursorInv(hotSaved) /\ QueueInv
  BY DEF HotInv
<1>2. /\ poll.pc = "idle" /\ cursor.next # 0 /\ cursor' = cursor /\ queue' = queue /\ gaps' = gaps
      /\ hotSaved' = hotSaved \/ hotSaved' = cursor'
      /\ \/ poll' = poll
         \/ /\ ~(cursor.next > Hot!safeHead(Hot!Height))
            /\ poll' = [pc |-> IF cursor.last = 0 THEN "logs" ELSE "anchor", head |-> Hot!Height,
                        from |-> cursor.next, to |-> Hot!rangeEnd(cursor.next, Hot!Height)]
      /\ UNCHANGED <<chain, first, read, torn, hotFaults>>
  BY DEF Hot!ReadHead, Hot!recovered
<1>3. Hot!Height \in Nat /\ cursor.next \in Nat /\ Hot!safeHead(Hot!Height) \in Nat /\ Hot!Height' = Hot!Height
  BY <1>1, <1>2, HotFacts, Confirmed, StillRead
<1>4. CursorInv(cursor)' /\ CursorInv(hotSaved)'
  BY <1>1, <1>2, StillPlaced
<1>5. QueueInv'
  BY <1>1, <1>2, StillRead DEF QueueInv, Queued
<1>6. HotTypes' /\ PollPlaced' /\ PollAnchored' /\ PollRead'
  <2>1. CASE poll' = poll
    <3>1. HotTypes'
      BY <1>1, <1>2, <1>3, <2>1 DEF HotTypes
    <3> QED
      BY <1>2, <2>1, <3>1 DEF PollPlaced, PollAnchored, PollRead
  <2>2. CASE poll' # poll
    <3>1. cursor.next <= Hot!safeHead(Hot!Height)
      BY <1>2, <1>3, <2>2
    <3>2. Hot!rangeEnd(cursor.next, Hot!Height) \in Nat /\ cursor.next <= Hot!rangeEnd(cursor.next, Hot!Height)
      BY <1>3, <3>1, RangeEnd
    <3>3. /\ poll'.pc = IF cursor.last = 0 THEN "logs" ELSE "anchor"
          /\ poll'.head = Hot!Height /\ poll'.from = cursor.next /\ poll'.to = Hot!rangeEnd(cursor.next, Hot!Height)
          /\ poll' \in [pc : {"idle", "anchor", "logs", "final"}, head : Nat, from : Nat, to : Nat]
      BY <1>2, <1>3, <2>2, <3>2
    <3>4. HotTypes'
      BY <1>1, <1>2, <1>3, <3>3 DEF HotTypes
    <3>5. PollPlaced'
      <4>1. Hot!Height <= Hot!Height
        BY <1>3
      <4>2. cursor.last = 0 /\ first < cursor.next => cursor.next + ReorgLookback <= Hot!safeHead(Hot!Height) + 1
        BY <1>1 DEF CursorInv, Placed
      <4> QED
        BY <1>2, <1>3, <3>2, <3>3, <4>1, <4>2 DEF PollPlaced, Hot!rangeEnd, Hot!safeHead
    <3>6. PollAnchored' /\ PollRead'
      BY <1>2, <3>3 DEF PollAnchored, PollRead
    <3> QED
      BY <3>4, <3>5, <3>6
  <2> QED
    BY <2>1, <2>2
<1> QED
  BY <1>4, <1>5, <1>6 DEF HotInv

(* The cursor jumps ahead: what it passes over is reported, and it lies the     *)
(* lookback behind the head.                                                    *)
LEMMA StaleKeeps == ASSUME HotInv, Hot!ReadHead, Hot!stale(cursor, Hot!Height) PROVE HotInv'
<1>1. HotTypes /\ CursorInv(cursor) /\ CursorInv(hotSaved)
  BY DEF HotInv
<1>0. PICK n \in Nat : n = Hot!resumeBlock(Hot!Height)
  <2>1. Hot!Height \in Nat /\ ReorgLookback \in Nat
    BY <1>1, HotFacts
  <2> QED
    BY <2>1, Confirmed DEF Hot!resumeBlock
<1>2. /\ poll.pc = "idle" /\ cursor.next # 0 /\ cursor' = [next |-> n, last |-> 0, hash |-> 0] /\ queue' = Hot!NoQueue
      /\ gaps' = gaps \union (cursor.next .. n - 1)
      /\ hotSaved' = hotSaved \/ hotSaved' = cursor'
      /\ \/ poll' = poll
         \/ /\ ~(n > Hot!safeHead(Hot!Height))
            /\ poll' = [pc |-> "logs", head |-> Hot!Height, from |-> n, to |-> Hot!rangeEnd(n, Hot!Height)]
      /\ UNCHANGED <<chain, first, read, torn, hotFaults>>
  BY <1>0 DEF Hot!ReadHead, Hot!recovered
<1>3. Hot!Height \in Nat /\ cursor.next \in Nat /\ Hot!safeHead(Hot!Height) \in Nat /\ Hot!safeHead(Hot!Height) <= Hot!Height
      /\ Hot!Height' = Hot!Height /\ ReorgLookback \in Nat
  BY <1>1, <1>2, HotFacts, Confirmed, StillRead
<1>4. n \in Nat /\ cursor.next < n /\ n + ReorgLookback = Hot!safeHead(Hot!Height) + 1 /\ n <= Hot!Height + 1 /\ n # 0
  <2>1. n > cursor.next
    BY <1>0 DEF Hot!stale
  <2>2. n = IF Hot!safeHead(Hot!Height) + 1 > ReorgLookback THEN Hot!safeHead(Hot!Height) + 1 - ReorgLookback ELSE 0
    BY <1>0 DEF Hot!resumeBlock
  <2> QED
    BY <1>2, <1>3, <2>1, <2>2
<1>5. first # 0
  BY <1>1, <1>2 DEF CursorInv, Placed
<1>6. cursor' \in Cursors /\ cursor'.next = n /\ cursor'.last = 0
  BY <1>2, <1>4 DEF Cursors
<1>7. gaps \subseteq gaps' /\ \A b \in Nat : cursor.next <= b /\ b < n => b \in gaps'
  BY <1>2, <1>3, <1>4
<1>8. Covered(n)'
  <2> SUFFICES ASSUME NEW b \in Passes(n) PROVE b \in gaps' \/ \E r \in read : r[1] = b
    BY <1>2, <1>7, StillRead DEF Covered
  <2>1. b \in DOMAIN chain /\ b \in Nat /\ b < n /\ (b < cursor.next => b \in Passes(cursor.next))
    BY <1>1, HotFacts DEF Passes
  <2>2. CASE b < cursor.next
    BY <1>1, <1>7, <2>1, <2>2 DEF CursorInv, Covered
  <2>3. CASE ~(b < cursor.next)
    BY <1>3, <1>7, <2>1, <2>3
  <2> QED
    BY <2>2, <2>3
<1>9. CursorInv(cursor)'
  <2>1. Placed(cursor)'
    BY <1>2, <1>3, <1>4, <1>5, <1>6 DEF Placed, Hot!safeHead
  <2> QED
    BY <1>6, <1>8, <2>1 DEF CursorInv, Current
<1>10. CursorInv(hotSaved)'
  <2>1. CASE hotSaved' = hotSaved
    BY <1>1, <1>2, <1>7, <2>1, StillPlaced
  <2> QED
    BY <1>2, <1>9, <2>1
<1>11. QueueInv'
  BY <1>2 DEF QueueInv, Hot!NoQueue
<1>12. HotTypes' /\ PollPlaced' /\ PollAnchored' /\ PollRead'
  <2>1. hotSaved' \in Cursors /\ queue'.seen = {} /\ queue' = [seen |-> queue'.seen, pending |-> queue'.pending]
    BY <1>1, <1>2, <1>6 DEF HotTypes, Hot!NoQueue
  <2>2. CASE poll' = poll
    <3>1. HotTypes'
      BY <1>1, <1>2, <1>3, <1>6, <2>1, <2>2 DEF HotTypes
    <3> QED
      BY <1>2, <2>2, <3>1 DEF PollPlaced, PollAnchored, PollRead
  <2>3. CASE poll' # poll
    <3>1. n <= Hot!safeHead(Hot!Height)
      BY <1>2, <1>3, <1>4, <2>3
    <3>2. Hot!rangeEnd(n, Hot!Height) \in Nat /\ n <= Hot!rangeEnd(n, Hot!Height)
      BY <1>3, <1>4, <3>1, RangeEnd
    <3>3. /\ poll'.pc = "logs" /\ poll'.head = Hot!Height /\ poll'.from = n /\ poll'.to = Hot!rangeEnd(n, Hot!Height)
          /\ poll' \in [pc : {"idle", "anchor", "logs", "final"}, head : Nat, from : Nat, to : Nat]
      BY <1>2, <1>3, <1>4, <2>3, <3>2
    <3>4. HotTypes'
      BY <1>1, <1>2, <1>3, <1>6, <2>1, <3>3 DEF HotTypes
    <3>5. PollPlaced'
      <4>1. Hot!Height <= Hot!Height /\ n + ReorgLookback <= Hot!safeHead(Hot!Height) + 1
        BY <1>3, <1>4
      <4> QED
        BY <1>2, <1>3, <1>4, <1>6, <3>2, <3>3, <4>1 DEF PollPlaced, Hot!rangeEnd, Hot!safeHead
    <3>6. PollAnchored' /\ PollRead'
      BY <1>6, <3>3 DEF PollAnchored, PollRead
    <3> QED
      BY <3>4, <3>5, <3>6
  <2> QED
    BY <2>2, <2>3
<1> QED
  BY <1>9, <1>10, <1>11, <1>12 DEF HotInv

(* The anchor was replaced: the cursor goes back, never ahead.                  *)
LEMMA AnchorKeeps == ASSUME HotInv, Hot!CheckAnchor PROVE HotInv'
<1>1. HotTypes /\ CursorInv(cursor) /\ CursorInv(hotSaved) /\ QueueInv /\ PollPlaced
  BY DEF HotInv
<1>2. poll.pc = "anchor" /\ cursor.last # 0 /\ UNCHANGED <<chain, hotSaved, first, gaps, read, torn, hotFaults>>
  BY <1>1 DEF Hot!CheckAnchor, PollPlaced
<1>3. Hot!Height' = Hot!Height /\ CursorInv(hotSaved)'
  BY <1>1, <1>2, StillPlaced, StillRead
<1>4. CASE chain[cursor.last].version = cursor.hash
  <2>1. poll' = [poll EXCEPT !.pc = "logs"] /\ UNCHANGED <<cursor, queue>>
    BY <1>4 DEF Hot!CheckAnchor
  <2>2. /\ poll' \in [pc : {"idle", "anchor", "logs", "final"}, head : Nat, from : Nat, to : Nat]
        /\ poll'.pc = "logs" /\ poll'.head = poll.head /\ poll'.from = poll.from /\ poll'.to = poll.to
    <3>1. poll \in [pc : {"idle", "anchor", "logs", "final"}, head : Nat, from : Nat, to : Nat]
      BY <1>1 DEF HotTypes
    <3> QED
      BY <2>1, <3>1
  <2>3. HotTypes'
    BY <1>1, <1>2, <1>3, <2>1, <2>2 DEF HotTypes
  <2>4. CursorInv(cursor)' /\ QueueInv'
    BY <1>1, <1>2, <2>1, StillPlaced, StillRead DEF QueueInv, Queued
  <2>5. PollPlaced'
    BY <1>1, <1>2, <1>3, <2>1, <2>2 DEF PollPlaced, Hot!rangeEnd, Hot!safeHead
  <2>6. PollAnchored' /\ PollRead'
    BY <1>2, <1>4, <2>1, <2>2 DEF PollAnchored, PollRead
  <2> QED
    BY <1>3, <2>3, <2>4, <2>5, <2>6 DEF HotInv
<1>5. CASE chain[cursor.last].version # cursor.hash
  <2>0. PICK n \in Int : n = IF cursor.last >= ReorgLookback THEN cursor.last - ReorgLookback + 1 ELSE 1
    BY <1>1, HotFacts
  <2>1. /\ cursor' = [next |-> n, last |-> 0, hash |-> 0] /\ queue' = Hot!NoQueue
        /\ poll' = [poll EXCEPT !.pc = "logs", !.from = cursor'.next, !.to = Hot!rangeEnd(cursor'.next, poll.head)]
    BY <1>5, <2>0 DEF Hot!CheckAnchor, Hot!reconciled
  <2>2. /\ cursor.last \in Nat /\ cursor.next \in Nat /\ ReorgLookback \in Nat /\ Hot!Height \in Nat /\ poll.head \in Nat
        /\ first \in Nat
    BY <1>1, HotFacts
  <2>3. cursor.next = cursor.last + 1 /\ cursor.next <= Hot!Height + 1 /\ first # 0
    BY <1>1, <1>2, <2>2 DEF CursorInv, Placed
  <2>4. n \in Nat /\ n # 0 /\ n <= cursor.next /\ (first < n => n + ReorgLookback = cursor.last + 1)
    BY <1>2, <2>0, <2>2, <2>3
  <2>5. cursor.next <= Hot!safeHead(poll.head) /\ Hot!safeHead(poll.head) \in Nat /\ poll.head <= Hot!Height
        /\ Hot!safeHead(poll.head) <= Hot!safeHead(Hot!Height) /\ Hot!safeHead(Hot!Height) \in Nat
    <3>1. poll.head <= Hot!Height
      BY <1>1, <1>2 DEF PollPlaced
    <3>2. poll.from = cursor.next /\ poll.from <= poll.to /\ poll.to <= Hot!safeHead(poll.head) /\ poll.to \in Nat
      BY <1>1, <1>2, PollWithin
    <3> QED
      BY <2>2, <3>1, <3>2, Confirmed, LaterConfirmed
  <2>6. cursor' \in Cursors /\ cursor'.next = n /\ cursor'.last = 0
    BY <2>1, <2>4 DEF Cursors
  <2>7. Hot!rangeEnd(n, poll.head) \in Nat /\ n <= Hot!rangeEnd(n, poll.head)
    <3>1. n <= Hot!safeHead(poll.head)
      BY <2>2, <2>4, <2>5
    <3> QED
      BY <2>2, <2>4, <3>1, RangeEnd
  <2>8. /\ poll' \in [pc : {"idle", "anchor", "logs", "final"}, head : Nat, from : Nat, to : Nat]
        /\ poll'.pc = "logs" /\ poll'.head = poll.head /\ poll'.from = n /\ poll'.to = Hot!rangeEnd(n, poll.head)
    <3>1. poll \in [pc : {"idle", "anchor", "logs", "final"}, head : Nat, from : Nat, to : Nat]
      BY <1>1 DEF HotTypes
    <3> QED
      BY <2>1, <2>4, <2>6, <2>7, <3>1
  <2>9. HotTypes'
    <3>1. queue'.seen = {} /\ queue' = [seen |-> queue'.seen, pending |-> queue'.pending]
      BY <2>1 DEF Hot!NoQueue
    <3> QED
      BY <1>1, <1>2, <1>3, <2>6, <2>8, <3>1 DEF HotTypes
  <2>10. CursorInv(cursor)'
    <3>1. Covered(n)'
      BY <1>1, <1>2, <2>2, <2>4, CoveredBelow, StillRead DEF CursorInv
    <3>2. Placed(cursor)'
      <4>1. n <= Hot!Height + 1 /\ (first < n => n + ReorgLookback <= Hot!safeHead(Hot!Height) + 1)
        BY <2>2, <2>3, <2>4, <2>5
      <4> QED
        BY <1>2, <1>3, <2>3, <2>4, <2>6, <4>1 DEF Placed, Hot!safeHead
    <3> QED
      BY <2>6, <3>1, <3>2 DEF CursorInv, Current
  <2>11. QueueInv'
    BY <2>1 DEF QueueInv, Hot!NoQueue
  <2>12. PollPlaced'
    <3>1. first < n => n + ReorgLookback <= Hot!safeHead(poll.head) + 1
      BY <2>2, <2>3, <2>4, <2>5
    <3> QED
      BY <1>2, <1>3, <2>4, <2>5, <2>6, <2>7, <2>8, <3>1 DEF PollPlaced, Hot!rangeEnd, Hot!safeHead
  <2>13. PollAnchored' /\ PollRead'
    BY <2>6, <2>8 DEF PollAnchored, PollRead
  <2> QED
    BY <1>3, <2>9, <2>10, <2>11, <2>12, <2>13 DEF HotInv
<1> QED
  BY <1>4, <1>5

(* What the range holds is read as it is now, or its latest event was before.   *)
LEMMA QueueLogsKeeps == ASSUME HotInv, Hot!QueueLogs PROVE HotInv'
<1>1. HotTypes /\ CursorInv(cursor) /\ CursorInv(hotSaved) /\ QueueInv /\ PollPlaced /\ PollAnchored
  BY DEF HotInv
<1>0. PICK latest : latest = Hot!latestSwap(poll.from, poll.to)
  OBVIOUS
<1>2. /\ poll.pc = "logs" /\ queue' = Hot!offered(latest) /\ poll' = [poll EXCEPT !.pc = "final"]
      /\ read' = read \union
           IF latest \in queue.seen /\ <<latest, chain[latest].version>> \notin read THEN {}
           ELSE {<<b, chain[b].version>> : b \in poll.from .. poll.to}
      /\ UNCHANGED <<chain, cursor, hotSaved, first, gaps, torn, hotFaults>>
  BY <1>0 DEF Hot!QueueLogs
<1>3. /\ Hot!Height \in Nat /\ DOMAIN chain = 1 .. Hot!Height /\ 0 \notin DOMAIN chain
      /\ \A b \in DOMAIN chain : b \in Nat /\ 0 < b /\ b <= Hot!Height
      /\ queue.seen \subseteq DOMAIN chain
      /\ cursor.next \in Nat /\ cursor.last \in Nat /\ first \in Nat
      /\ ReorgLookback \in Nat /\ MaxBlockRange \in Nat /\ ReorgLookback <= MaxBlockRange
  BY <1>1, HotFacts
<1>4. /\ poll.from \in Nat /\ poll.to \in Nat /\ 0 < poll.from /\ poll.from <= poll.to /\ poll.from = cursor.next
      /\ poll.to \in DOMAIN chain /\ cursor.next # 0
      /\ poll.to <= Hot!safeHead(poll.head) /\ Hot!safeHead(poll.head) \in Nat
      /\ poll.to = Hot!safeHead(poll.head) \/ poll.to + 1 = poll.from + MaxBlockRange
  BY <1>1, <1>2, <1>3, PollWithin
<1>a. PICK swapped : swapped = {b \in poll.from .. poll.to : chain[b].busy}
  OBVIOUS
<1>5. /\ latest = 0 => swapped = {}
      /\ latest # 0 => latest \in swapped /\ \A b \in swapped : b <= latest
  <2>1. swapped \subseteq 1 .. poll.to
    BY <1>a, <1>4
  <2>2. latest = IF swapped = {} THEN 0 ELSE Hot!Max(swapped)
    BY <1>0, <1>a DEF Hot!latestSwap
  <2>3. CASE swapped = {}
    BY <2>2, <2>3
  <2>4. CASE swapped # {}
    <3>1. Hot!Max(swapped) \in swapped /\ \A b \in swapped : b <= Hot!Max(swapped)
      BY <1>4, <2>1, <2>4, LatestBlock
    <3>2. Hot!Max(swapped) # 0
      BY <1>4, <2>1, <3>1
    <3> QED
      BY <2>2, <2>4, <3>1, <3>2
  <2> QED
    BY <2>3, <2>4
<1>6. ASSUME NEW b \in Passes(poll.to + 1), cursor.next <= b PROVE latest # 0 /\ b \in swapped /\ b <= latest /\ b \in Nat
  <2>1. b \in DOMAIN chain /\ b \in Nat /\ b <= poll.to /\ chain[b].busy
    BY <1>3, <1>4 DEF Passes
  <2>2. b \in swapped
    BY <1>a, <1>4, <1>6, <2>1
  <2> QED
    BY <1>5, <2>1, <2>2
<1>7. latest # 0 => latest \in DOMAIN chain /\ latest \in Nat /\ cursor.next <= latest /\ latest <= poll.to /\ chain[latest].busy
  BY <1>a, <1>3, <1>4, <1>5
<1>8. gaps \subseteq gaps' /\ read \subseteq read'
  BY <1>2
<1>9. (\A b \in poll.from .. poll.to : Now(b) \in read') \/ (latest \in queue.seen /\ Now(latest) \notin read)
  BY <1>2 DEF Now
<1>10. latest \notin queue.seen => \A b \in poll.from .. poll.to : Now(b) \in read'
  BY <1>9
<1>11. CursorInv(cursor)' /\ CursorInv(hotSaved)'
  BY <1>1, <1>2, <1>8, StillPlaced
<1>12. Covered(poll.to + 1)'
  <2> SUFFICES ASSUME NEW b \in Passes(poll.to + 1) PROVE b \in gaps \/ \E r \in read' : r[1] = b
    BY <1>2, <1>8, StillRead DEF Covered
  <2>1. b \in DOMAIN chain /\ b \in Nat /\ b <= poll.to /\ (\A n \in Nat : b < n => b \in Passes(n))
    BY <1>3, <1>4 DEF Passes
  <2>2. CASE b < cursor.next
    BY <1>1, <1>3, <1>8, <2>1, <2>2 DEF CursorInv, Covered
  <2>3. CASE cursor.next <= b /\ \A k \in poll.from .. poll.to : Now(k) \in read'
    <3>1. b \in poll.from .. poll.to
      BY <1>4, <2>1, <2>3
    <3>2. Now(b) \in read' /\ Now(b)[1] = b
      BY <2>3, <3>1 DEF Now
    <3> QED
      BY <3>2
  <2>4. CASE cursor.next <= b /\ latest \in queue.seen
    <3>1. Covered(latest + 1)
      BY <1>1, <2>4 DEF QueueInv, Queued
    <3>2. b \in Passes(latest + 1)
      <4>1. b < latest + 1 /\ latest + 1 \in Nat
        BY <1>6, <1>7, <2>4
      <4> QED
        BY <2>1, <4>1
    <3> QED
      BY <1>8, <3>1, <3>2 DEF Covered
  <2> QED
    BY <1>3, <1>9, <2>1, <2>2, <2>3, <2>4
<1>13. ASSUME ~torn PROVE Fresh(poll.to + 1, poll.to)'
  <2> SUFFICES ASSUME NEW b \in Passes(poll.to + 1), b + ReorgLookback > poll.to PROVE b \in gaps \/ Now(b) \in read'
    BY <1>2, <1>8, StillRead DEF Fresh
  <2>1. b \in DOMAIN chain /\ b \in Nat /\ b <= poll.to /\ first <= b /\ (\A n \in Nat : b < n => b \in Passes(n))
    BY <1>3, <1>4 DEF Passes
  <2>2. CASE b < cursor.next /\ cursor.last # 0
    <3>1. Fresh(cursor.next, cursor.last)
      BY <1>1, <1>2, <1>13, <2>2 DEF CursorInv, Current, PollAnchored
    <3>2. cursor.next = cursor.last + 1
      BY <1>1, <2>2 DEF CursorInv, Placed
    <3>3. b \in Passes(cursor.next) /\ b + ReorgLookback > cursor.last
      BY <1>3, <1>4, <2>1, <2>2, <3>2
    <3> QED
      BY <1>8, <3>1, <3>3 DEF Fresh
  <2>3. CASE b < cursor.next /\ cursor.last = 0
    <3>1. first < cursor.next
      BY <1>3, <2>1, <2>3
    <3>2. cursor.next + ReorgLookback <= Hot!safeHead(poll.head) + 1
      BY <1>1, <1>2, <2>3, <3>1 DEF PollPlaced
    <3>3. b + ReorgLookback <= poll.to
      BY SMTT(30), <1>3, <1>4, <2>1, <2>3, <3>2
    <3> QED
      BY <1>3, <1>4, <2>1, <3>3
  <2>4. CASE cursor.next <= b /\ \A k \in poll.from .. poll.to : Now(k) \in read'
    <3>1. b \in poll.from .. poll.to
      BY <1>4, <2>1, <2>4
    <3> QED
      BY <2>4, <3>1
  <2>5. CASE cursor.next <= b /\ latest \in queue.seen /\ Now(latest) \notin read
    <3>1. latest # 0 /\ b <= latest
      BY <1>6, <2>5
    <3>2. latest \in Passes(latest + 1)
      <4>1. first <= latest /\ latest < latest + 1
        BY <1>3, <1>7, <2>1, <3>1
      <4> QED
        BY <1>7, <3>1, <4>1 DEF Passes
    <3>3. Now(latest) \in read
      BY <1>1, <1>7, <1>13, <2>5, <3>1, <3>2 DEF QueueInv, Queued
    <3> QED
      BY <2>5, <3>3
  <2> QED
    BY <1>3, <1>9, <2>1, <2>2, <2>3, <2>4, <2>5
<1>14. ASSUME NEW s \in queue'.seen PROVE s \in queue.seen \/ (s = latest /\ latest # 0 /\ latest \notin queue.seen)
  BY <1>2 DEF Hot!offered
<1>15. QueueInv'
  <2> SUFFICES ASSUME NEW s \in queue'.seen PROVE Queued(s)'
    BY DEF QueueInv
  <2>1. CASE s \in queue.seen
    BY <1>1, <1>2, <1>8, <2>1, StillRead DEF QueueInv, Queued
  <2>2. CASE s = latest /\ latest # 0 /\ latest \notin queue.seen
    <3>1. latest + 1 \in Nat /\ poll.to + 1 \in Nat /\ latest + 1 <= poll.to + 1
      BY <1>4, <1>7, <2>2
    <3>2. ASSUME NEW b \in Passes(latest + 1) PROVE b \in Passes(poll.to + 1)
      BY <1>3, <3>1 DEF Passes
    <3>3. Covered(latest + 1)'
      BY <1>2, <1>8, <1>12, <3>2, StillRead DEF Covered
    <3>4. ASSUME NEW b \in Passes(latest + 1), cursor.next <= b PROVE Now(b) \in read'
      <4>1. b \in poll.from .. poll.to
        BY <1>3, <1>4, <1>7, <2>2, <3>4 DEF Passes
      <4> QED
        BY <1>10, <2>2, <4>1
    <3> QED
      BY <1>2, <1>4, <1>8, <2>2, <3>3, <3>4, StillRead DEF Queued
  <2> QED
    BY <1>14, <2>1, <2>2
<1>16. /\ poll' \in [pc : {"idle", "anchor", "logs", "final"}, head : Nat, from : Nat, to : Nat]
       /\ poll'.pc = "final" /\ poll'.head = poll.head /\ poll'.from = poll.from /\ poll'.to = poll.to
  <2>1. poll \in [pc : {"idle", "anchor", "logs", "final"}, head : Nat, from : Nat, to : Nat]
    BY <1>1 DEF HotTypes
  <2> QED
    BY <1>2, <2>1
<1>17. HotTypes'
  <2>1. queue'.seen \subseteq DOMAIN chain
    BY <1>3, <1>7, <1>14
  <2>2. queue' = [seen |-> queue'.seen, pending |-> queue'.pending]
    BY <1>1, <1>2 DEF HotTypes, Hot!offered
  <2> QED
    BY <1>1, <1>2, <1>8, <1>16, <2>1, <2>2, StillRead DEF HotTypes
<1>18. PollPlaced' /\ PollAnchored' /\ PollRead'
  <2>1. PollPlaced'
    BY <1>1, <1>2, <1>8, <1>16, StillRead DEF PollPlaced, Hot!rangeEnd, Hot!safeHead
  <2>2. PollAnchored'
    BY <1>1, <1>2, <1>16 DEF PollAnchored
  <2>3. PollRead'
    BY <1>2, <1>12, <1>13, <1>16 DEF PollRead
  <2> QED
    BY <2>1, <2>2, <2>3
<1> QED
  BY <1>11, <1>15, <1>17, <1>18 DEF HotInv

(* The cursor passes what the poll read. *)
LEMMA AdvanceKeeps == ASSUME HotInv, Hot!Advance PROVE HotInv'
<1>1. HotTypes /\ CursorInv(cursor) /\ QueueInv /\ PollPlaced /\ PollRead
  BY DEF HotInv
<1>0. PICK n, v : n = poll.to /\ v = chain[poll.to].version
  OBVIOUS
<1>2. /\ poll.pc = "final" /\ cursor' = [next |-> n + 1, last |-> n, hash |-> v]
      /\ hotSaved' = cursor' /\ poll' = Hot!NoPoll
      /\ UNCHANGED <<chain, queue, first, gaps, read, torn, hotFaults>>
  BY <1>0 DEF Hot!Advance
<1>3. n \in DOMAIN chain /\ n \in Nat /\ n # 0 /\ n <= Hot!Height /\ Hot!Height \in Nat /\ v \in Nat /\ v <= hotFaults.reorgs
      /\ cursor.next <= n /\ cursor.next \in Nat /\ cursor.next # 0
  <2>1. n \in DOMAIN chain /\ cursor.next <= n /\ cursor.next # 0
    BY <1>0, <1>1, <1>2, PollWithin DEF PollPlaced
  <2> QED
    BY <1>0, <1>1, <2>1, HotFacts
<1>4. cursor' \in Cursors /\ cursor'.next = n + 1 /\ cursor'.last = n /\ cursor'.hash = v
  BY <1>2, <1>3 DEF Cursors
<1>5. Covered(n + 1)' /\ (~torn => Fresh(n + 1, n)')
  BY <1>0, <1>1, <1>2, StillRead DEF PollRead
<1>6. CursorInv(cursor)'
  <2>1. first # 0 /\ n + 1 # 0 /\ n + 1 <= Hot!Height + 1
    BY <1>1, <1>3 DEF CursorInv, Placed
  <2>2. Placed(cursor)'
    BY <1>2, <1>3, <1>4, <2>1, StillRead DEF Placed
  <2> QED
    BY <1>2, <1>4, <1>5, <2>2 DEF CursorInv, Current
<1>7. CursorInv(hotSaved)'
  BY <1>2, <1>6
<1>8. QueueInv'
  <2> SUFFICES ASSUME NEW s \in queue.seen PROVE Queued(s)'
    BY <1>2 DEF QueueInv
  <2>1. cursor'.next \in Nat /\ cursor.next <= cursor'.next
    BY <1>3, <1>4
  <2> QED
    BY <1>1, <1>2, <1>3, <2>1, StillQueued DEF QueueInv
<1>9. HotTypes'
  BY <1>1, <1>2, <1>4, StillRead DEF HotTypes, Hot!NoPoll
<1>10. PollPlaced' /\ PollAnchored' /\ PollRead'
  BY <1>2 DEF PollPlaced, PollAnchored, PollRead, Hot!NoPoll
<1> QED
  BY <1>6, <1>7, <1>8, <1>9, <1>10 DEF HotInv

(* The wake is taken, the state persisted, the board restarted. *)
LEMMA RestKeeps == ASSUME HotInv, Hot!TakeWake \/ Hot!PersistState \/ Hot!Restart \/ UNCHANGED hotVars PROVE HotInv'
<1>1. HotTypes /\ CursorInv(cursor) /\ CursorInv(hotSaved) /\ QueueInv /\ PollPlaced /\ PollAnchored /\ PollRead
  BY DEF HotInv
<1>2. CASE Hot!TakeWake
  <2>1. queue' = [queue EXCEPT !.pending = 0] /\ UNCHANGED <<chain, cursor, hotSaved, poll, first, gaps, read, torn, hotFaults>>
    BY <1>2 DEF Hot!TakeWake
  <2>2. queue'.seen = queue.seen /\ queue' = [seen |-> queue'.seen, pending |-> queue'.pending]
    BY <1>1, <2>1 DEF HotTypes
  <2>3. HotTypes' /\ CursorInv(cursor)' /\ CursorInv(hotSaved)'
    BY <1>1, <2>1, <2>2, StillPlaced, StillRead DEF HotTypes
  <2>4. QueueInv'
    BY <1>1, <2>1, <2>2, StillRead DEF QueueInv, Queued
  <2>5. PollPlaced' /\ PollAnchored' /\ PollRead'
    BY <1>1, <2>1, StillRead DEF PollPlaced, PollAnchored, PollRead, Hot!rangeEnd, Hot!safeHead
  <2> QED
    BY <2>3, <2>4, <2>5 DEF HotInv
<1>3. CASE Hot!PersistState
  <2>1. hotSaved' = cursor /\ UNCHANGED <<chain, cursor, queue, poll, first, gaps, read, torn, hotFaults>>
    BY <1>3 DEF Hot!PersistState
  <2>2. HotTypes' /\ CursorInv(cursor)'
    BY <1>1, <2>1, StillPlaced, StillRead DEF HotTypes
  <2>3. CursorInv(hotSaved)'
    BY <2>1, <2>2
  <2>4. QueueInv'
    BY <1>1, <2>1, StillRead DEF QueueInv, Queued
  <2>5. PollPlaced' /\ PollAnchored' /\ PollRead'
    BY <1>1, <2>1, StillRead DEF PollPlaced, PollAnchored, PollRead, Hot!rangeEnd, Hot!safeHead
  <2> QED
    BY <2>2, <2>3, <2>4, <2>5 DEF HotInv
<1>4. CASE Hot!Restart
  <2>1. /\ hotFaults' = [hotFaults EXCEPT !.restarts = @ + 1]
        /\ cursor' = hotSaved /\ queue' = Hot!NoQueue /\ poll' = Hot!NoPoll
        /\ UNCHANGED <<chain, hotSaved, first, gaps, read, torn>>
    BY <1>4 DEF Hot!Restart
  <2>2. hotFaults'.reorgs = hotFaults.reorgs /\ hotFaults' \in [reorgs : Nat, failures : Nat, restarts : Nat]
    <3>1. hotFaults \in [reorgs : Nat, failures : Nat, restarts : Nat]
      BY <1>1 DEF HotTypes
    <3> QED
      BY <2>1, <3>1
  <2>3. CursorInv(hotSaved)'
    BY <1>1, <2>1, <2>2, StillPlaced
  <2>4. CursorInv(cursor)'
    BY <2>1, <2>3
  <2>5. HotTypes'
    BY <1>1, <2>1, <2>2, StillRead DEF HotTypes, Hot!NoPoll, Hot!NoQueue
  <2>6. QueueInv' /\ PollPlaced' /\ PollAnchored' /\ PollRead'
    BY <2>1 DEF QueueInv, PollPlaced, PollAnchored, PollRead, Hot!NoPoll, Hot!NoQueue
  <2> QED
    BY <2>3, <2>4, <2>5, <2>6 DEF HotInv
<1>5. CASE UNCHANGED hotVars
  <2>1. UNCHANGED <<chain, cursor, hotSaved, queue, poll, first, gaps, read, torn, hotFaults>>
    BY <1>5 DEF hotVars
  <2>2. HotTypes' /\ CursorInv(cursor)' /\ CursorInv(hotSaved)'
    BY <1>1, <2>1, StillPlaced, StillRead DEF HotTypes
  <2>3. QueueInv'
    BY <1>1, <2>1, StillRead DEF QueueInv, Queued
  <2>4. PollPlaced' /\ PollAnchored' /\ PollRead'
    BY <1>1, <2>1, StillRead DEF PollPlaced, PollAnchored, PollRead, Hot!rangeEnd, Hot!safeHead
  <2> QED
    BY <2>2, <2>3, <2>4 DEF HotInv
<1> QED
  BY <1>2, <1>3, <1>4, <1>5

LEMMA HotStepKeeps == ASSUME HotInv, [Hot!HotNext]_hotVars PROVE HotInv'
<1>1. CASE Hot!ReadHead
  BY <1>1, ReadHeadKeeps, StaleKeeps
<1> QED
  BY <1>1, NewBlockKeeps, ReorganiseKeeps, FailKeeps, StartKeeps, AnchorKeeps, QueueLogsKeeps, AdvanceKeeps, RestKeeps, Zenon
     DEF Hot!HotNext

(* What is between the cursor's first place and the cursor was read, or reported *)
(* as skipped; and while the anchor holds, read as it is now.                    *)
LEMMA HotFollows == HotInv => Hot!NoSilentGap /\ Hot!ReorgReread
<1> SUFFICES ASSUME HotInv PROVE Hot!NoSilentGap /\ Hot!ReorgReread
  OBVIOUS
<1>1. HotTypes /\ CursorInv(cursor) /\ CursorInv(hotSaved)
  BY DEF HotInv
<1>2. ASSUME NEW c \in Cursors, NEW b \in Hot!Passed(c) PROVE b \in Passes(c.next)
  <2>1. c.next \in Nat /\ first \in Nat /\ b \in first .. c.next - 1 /\ b \in DOMAIN chain /\ chain[b].busy
    BY <1>1, <1>2, HotFacts DEF Cursors, Hot!Passed
  <2>2. first <= b /\ b < c.next
    BY <2>1
  <2> QED
    BY <2>1, <2>2 DEF Passes
<1>3. cursor \in Cursors /\ hotSaved \in Cursors
  BY <1>1 DEF HotTypes
<1>4. Hot!NoSilentGap
  BY <1>1, <1>2, <1>3 DEF Hot!NoSilentGap, CursorInv, Covered
<1>5. Hot!ReorgReread
  BY <1>1, <1>2, <1>3 DEF Hot!ReorgReread, Hot!Anchored, Hot!Reread, CursorInv, Current, Fresh, Now
<1> QED
  BY <1>4, <1>5

--------------------------------------------------------------------------------
(* The sequencer feed *)

(* Nothing above the last number was heard, reported or passed over, and        *)
(* counting starts with the first.                                              *)
HeardInv ==
  /\ lastNumber \in 0 .. MaxNumber /\ firstNumber \in 0 .. MaxNumber /\ (lastNumber = 0 <=> firstNumber = 0) /\ firstNumber <= lastNumber
  /\ heard \in [Sequencer!Number -> Nat] /\ reported \subseteq Sequencer!Number /\ frameHoles \subseteq Sequencer!Number
  /\ Sequencer!HeardOnce

(* Whoever leaves the numbers alone keeps it. *)
LEMMA QuietHears ==
  ASSUME HeardInv, UNCHANGED <<lastNumber, heard, reported, frameHoles, firstNumber>>
  PROVE  HeardInv'
  BY DEF HeardInv, Sequencer!HeardOnce, Sequencer!Number

(* Above the last number, what a frame holds is heard, what lies below it is    *)
(* reported, and what it lacks between is a hole.                               *)
LEMMA FrameHears ==
  ASSUME HeardInv, NEW s, NEW frame \in SUBSET (Requested .. MaxNumber), Sequencer!Message(s, frame)
  PROVE  HeardInv'
<1>1. PICK lo \in frame, hi \in frame :
        /\ \A n \in frame : lo <= n /\ n <= hi
        /\ lastNumber' = IF hi > lastNumber THEN hi ELSE lastNumber
        /\ firstNumber' = IF lastNumber = 0 THEN lo ELSE firstNumber
  BY DEF Sequencer!Message
<1>2. /\ lo \in Sequencer!Number /\ hi \in Sequencer!Number /\ lo <= hi /\ 0 < lo
      /\ lastNumber \in Nat /\ firstNumber \in Nat /\ MaxNumber \in Nat /\ \A n \in frame : n \in Nat
  <2>1. Requested \in Nat \ {0} /\ MaxNumber \in Nat
    BY ServicesAssumption
  <2>2. \A n \in frame : n \in Sequencer!Number /\ 0 < n
    BY <2>1 DEF Sequencer!Number
  <2>3. lastNumber \in Nat /\ firstNumber \in Nat
    BY <2>1 DEF HeardInv
  <2> QED
    BY <1>1, <2>1, <2>2, <2>3 DEF Sequencer!Number
<1>3. /\ heard \in [Sequencer!Number -> Nat] /\ reported \subseteq Sequencer!Number /\ frameHoles \subseteq Sequencer!Number
      /\ (lastNumber = 0 <=> firstNumber = 0) /\ firstNumber <= lastNumber
  BY DEF HeardInv
<1>4. /\ lastNumber' \in 0 .. MaxNumber /\ firstNumber' \in 0 .. MaxNumber /\ (lastNumber' = 0 <=> firstNumber' = 0)
      /\ firstNumber' <= lastNumber'
  BY <1>1, <1>2, <1>3 DEF HeardInv, Sequencer!Number
<1>5. /\ heard' = [n \in Sequencer!Number |-> IF n \in Sequencer!fresh(frame) THEN heard[n] + 1 ELSE heard[n]]
      /\ reported' = reported \cup Sequencer!skipped(frame) /\ frameHoles' = frameHoles \cup Sequencer!lacked(frame)
  BY DEF Sequencer!Message
<1>6. /\ heard' \in [Sequencer!Number -> Nat] /\ reported' \subseteq Sequencer!Number
      /\ frameHoles' \subseteq Sequencer!Number
  <2>1. \A n \in Sequencer!Number : heard[n] \in Nat /\ heard[n] + 1 \in Nat
    BY <1>3
  <2>2. Sequencer!skipped(frame) \subseteq Sequencer!Number /\ Sequencer!lacked(frame) \subseteq Sequencer!Number
    BY DEF Sequencer!skipped, Sequencer!lacked
  <2> QED
    BY <1>3, <1>5, <2>1, <2>2
<1>7. ASSUME NEW n \in Sequencer!Number
      PROVE  heard'[n] + (IF n \in reported' THEN 1 ELSE 0) + (IF n \in frameHoles' THEN 1 ELSE 0)
               = IF firstNumber' <= n /\ n <= lastNumber' THEN 1 ELSE 0
  <2>1. /\ n \in Nat /\ 0 < n /\ heard[n] \in Nat
        /\ heard[n] + (IF n \in reported THEN 1 ELSE 0) + (IF n \in frameHoles THEN 1 ELSE 0)
             = IF firstNumber <= n /\ n <= lastNumber THEN 1 ELSE 0
    BY <1>2, <1>3 DEF HeardInv, Sequencer!HeardOnce, Sequencer!Number
  <2>2. /\ heard'[n] = IF n \in Sequencer!fresh(frame) THEN heard[n] + 1 ELSE heard[n]
        /\ n \in reported' <=> n \in reported \/ n \in Sequencer!skipped(frame)
        /\ n \in frameHoles' <=> n \in frameHoles \/ n \in Sequencer!lacked(frame)
    BY <1>5
  <2>3. n \in Sequencer!fresh(frame) <=> n \in frame /\ lastNumber < n
    BY <1>2, <2>1 DEF Sequencer!fresh
  <2>4. CASE n <= lastNumber
    <3>1. n \notin Sequencer!fresh(frame)
      BY <1>2, <2>1, <2>3, <2>4
    <3>2. n \notin Sequencer!skipped(frame)
      <4>1. n \in Sequencer!skipped(frame) => lastNumber < n
        BY Zenon DEF Sequencer!skipped
      <4> QED
        BY <1>2, <2>1, <2>4, <4>1
    <3>3. n \notin Sequencer!lacked(frame)
      BY <1>2, <2>1, <2>4 DEF Sequencer!lacked, Sequencer!fresh
    <3>4. (firstNumber' <= n /\ n <= lastNumber') <=> (firstNumber <= n /\ n <= lastNumber)
      BY <1>1, <1>2, <1>3, <2>1, <2>4
    <3> QED
      BY <2>1, <2>2, <3>1, <3>2, <3>3, <3>4
  <2>5. CASE n > lastNumber
    <3>1. heard[n] = 0 /\ n \notin reported /\ n \notin frameHoles
      BY <1>2, <2>1, <2>5
    <3>2. CASE hi < n
      <4>1. n \notin Sequencer!fresh(frame)
        BY <1>1, <1>2, <2>1, <2>3, <3>2
      <4>2. n \notin Sequencer!skipped(frame)
        <5>1. n \in Sequencer!skipped(frame) => \E m \in Sequencer!fresh(frame) : n < m
          BY Zenon DEF Sequencer!skipped
        <5>2. \A m \in Sequencer!fresh(frame) : m \in frame
          BY DEF Sequencer!fresh
        <5>3. ASSUME NEW m \in frame PROVE ~(n < m)
          <6>1. m <= hi /\ m \in Nat /\ hi \in Nat /\ n \in Nat
            BY <1>1, <1>2, <2>1 DEF Sequencer!Number
          <6> QED
            BY <3>2, <6>1
        <5> QED
          BY <5>1, <5>2, <5>3
      <4>3. n \notin Sequencer!lacked(frame)
        BY <1>1, <1>2, <2>1, <3>2 DEF Sequencer!lacked, Sequencer!fresh
      <4>4. ~(n <= lastNumber')
        BY <1>1, <1>2, <2>1, <2>5, <3>2
      <4> QED
        BY <2>2, <3>1, <4>1, <4>2, <4>3, <4>4
    <3>3. CASE n <= hi
      <4>1. hi \in Sequencer!fresh(frame) /\ n <= lastNumber'
        BY <1>1, <1>2, <2>1, <2>5, <3>3 DEF Sequencer!fresh
      <4>2. firstNumber' <= n <=> (lastNumber # 0 \/ lo <= n)
        BY <1>1, <1>2, <1>3, <2>1, <2>5
      <4>3. CASE n \in frame
        <5>1. n \in Sequencer!fresh(frame) /\ lo <= n
          BY <1>1, <2>3, <2>5, <4>3
        <5>2. n \notin Sequencer!skipped(frame)
          BY <2>1, <5>1 DEF Sequencer!skipped
        <5>3. n \notin Sequencer!lacked(frame)
          BY <4>3 DEF Sequencer!lacked
        <5> QED
          BY <2>2, <3>1, <4>1, <4>2, <5>1, <5>2, <5>3
      <4>4. CASE n \notin frame /\ \E m \in Sequencer!fresh(frame) : m < n
        <5>1. n < hi /\ lo <= n
          BY <1>1, <1>2, <2>1, <3>3, <4>4 DEF Sequencer!fresh
        <5>2. n \in Sequencer!lacked(frame)
          BY <4>1, <4>4, <5>1 DEF Sequencer!lacked
        <5>3. n \notin Sequencer!skipped(frame)
          <6>1. n \in Sequencer!skipped(frame) => \A m \in Sequencer!fresh(frame) : n < m
            BY Zenon DEF Sequencer!skipped
          <6>2. \A m \in Sequencer!fresh(frame) : m \in Nat
            BY <1>2 DEF Sequencer!fresh
          <6> QED
            BY <2>1, <4>4, <6>1, <6>2
        <5>4. n \notin Sequencer!fresh(frame)
          BY <2>3, <4>4
        <5> QED
          BY <2>2, <3>1, <4>1, <4>2, <5>1, <5>2, <5>3, <5>4
      <4>5. CASE n \notin frame /\ ~\E m \in Sequencer!fresh(frame) : m < n
        <5>1. n \notin Sequencer!fresh(frame) /\ n \notin Sequencer!lacked(frame)
          BY <2>3, <4>5 DEF Sequencer!lacked
        <5>2. \A m \in Sequencer!fresh(frame) : n < m
          BY <1>2, <2>1, <4>5 DEF Sequencer!fresh
        <5>3. n \in Sequencer!skipped(frame) <=> lastNumber # 0
          BY <2>5, <4>1, <5>2 DEF Sequencer!skipped
        <5>4. lastNumber = 0 => ~(lo <= n)
          <6>1. lastNumber = 0 => lo \in Sequencer!fresh(frame)
            BY <1>1, <1>2 DEF Sequencer!fresh
          <6> QED
            BY <1>2, <2>1, <5>2, <6>1
        <5> QED
          BY <2>2, <3>1, <4>1, <4>2, <5>1, <5>3, <5>4
      <4> QED
        BY <4>3, <4>4, <4>5
    <3> QED
      BY <1>2, <2>1, <3>2, <3>3
  <2> QED
    BY <1>2, <2>1, <2>4, <2>5
<1> QED
  BY <1>4, <1>6, <1>7 DEF HeardInv, Sequencer!HeardOnce

live == {s \in DOMAIN sockets : sockets[s] \in {"connecting", "open"}}

(* Until a stop a reconnect is scheduled and nothing lives, or one socket does. *)
Connected == (timer /\ live = {}) \/ (~timer /\ \E s \in DOMAIN sockets : live = {s})

ConnectionInv ==
  /\ sockets \in Seq({"connecting", "open", "over", "ended"}) /\ timer \in BOOLEAN
  /\ sockets = <<>> => stopped
  /\ ~stopped => Connected

(* A connection is opened where none lives. *)
LEMMA ConnectionOpens ==
  ASSUME ConnectionInv, live = {}, NEW works \in BOOLEAN, Sequencer!connect(works)
  PROVE  sockets' \in Seq({"connecting", "open", "over", "ended"}) /\ sockets' # <<>> /\ timer' \in BOOLEAN /\ Connected'
<1>1. PICK state \in {"connecting", "ended"} : sockets' = Append(sockets, state) /\ (timer' <=> state = "ended") /\ timer' \in BOOLEAN
  BY DEF Sequencer!connect
<1>2. /\ Len(sockets) \in Nat /\ DOMAIN sockets = 1 .. Len(sockets)
      /\ sockets' \in Seq({"connecting", "open", "over", "ended"})
      /\ DOMAIN sockets' = 1 .. Len(sockets) + 1
      /\ sockets'[Len(sockets) + 1] = state
      /\ \A s \in DOMAIN sockets : sockets'[s] = sockets[s]
  BY <1>1 DEF ConnectionInv
<1>3. live' = IF state = "connecting" THEN {Len(sockets) + 1} ELSE {}
  <2>1. \A s \in DOMAIN sockets : s \notin live'
    BY <1>2 DEF live
  <2>2. Len(sockets) + 1 \in live' <=> state = "connecting"
    BY <1>1, <1>2 DEF live
  <2>3. live' \subseteq DOMAIN sockets \cup {Len(sockets) + 1}
    BY <1>2 DEF live
  <2> QED
    BY <2>1, <2>2, <2>3
<1>4. Len(sockets) + 1 \in DOMAIN sockets' /\ sockets' # <<>>
  BY <1>2
<1> QED
  BY <1>1, <1>2, <1>3, <1>4 DEF Connected

(* A socket that ends asks once, and nothing lives until the timer fires. *)
LEMMA ConnectionEnds ==
  ASSUME ConnectionInv, NEW s \in DOMAIN sockets, Sequencer!reconnect(s), UNCHANGED stopped
  PROVE  ConnectionInv'
<1>1. CASE sockets[s] \in {"over", "ended"}
  BY <1>1 DEF Sequencer!reconnect, ConnectionInv, Connected, live
<1>2. CASE sockets[s] \notin {"over", "ended"}
  <2>1. PICK state \in {"over", "ended"} : sockets' = [sockets EXCEPT ![s] = state]
    BY <1>2 DEF Sequencer!reconnect
  <2>2. timer' = (timer \/ ~stopped)
    BY <1>2 DEF Sequencer!reconnect, Sequencer!scheduled
  <2>3. /\ sockets' \in Seq({"connecting", "open", "over", "ended"}) /\ DOMAIN sockets' = DOMAIN sockets
        /\ sockets' # <<>> /\ sockets'[s] = state
        /\ \A r \in DOMAIN sockets : r # s => sockets'[r] = sockets[r]
    BY <2>1 DEF ConnectionInv
  <2>4. s \in live
    BY <1>2 DEF ConnectionInv, live
  <2>5. live' = live \ {s}
    BY <2>1, <2>3 DEF live
  <2>6. ~stopped => timer' /\ live' = {}
    BY <2>2, <2>4, <2>5 DEF ConnectionInv, Connected
  <2> QED
    BY <2>2, <2>3, <2>6 DEF ConnectionInv, Connected
<1> QED
  BY <1>1, <1>2

FeedInv == HeardInv /\ ConnectionInv

LEMMA FeedStarts == Sequencer!FeedInit => FeedInv
<1> SUFFICES ASSUME Sequencer!FeedInit PROVE HeardInv /\ ConnectionInv
  BY DEF FeedInv
<1>1. /\ lastNumber = 0 /\ firstNumber = 0 /\ reported = {} /\ frameHoles = {} /\ heard \in [Sequencer!Number -> Nat]
      /\ \A n \in Sequencer!Number : heard[n] = 0 /\ 0 < n
  BY DEF Sequencer!FeedInit, Sequencer!Number
<1>2. Sequencer!HeardOnce
  BY <1>1 DEF Sequencer!HeardOnce, Sequencer!Number
<1>3. ConnectionInv
  <2>1. sockets = <<>> /\ timer = FALSE /\ stopped = TRUE
    BY DEF Sequencer!FeedInit
  <2>2. sockets \in Seq({"connecting", "open", "over", "ended"})
    BY <2>1
  <2> QED
    BY <2>1, <2>2, Zenon DEF ConnectionInv
<1> QED
  BY <1>1, <1>2, <1>3, ServicesAssumption DEF HeardInv, FeedInv

(* One step per action of the client. *)
LEMMA FeedStep == ASSUME FeedInv, [Sequencer!FeedNext]_sequencerVars PROVE FeedInv'
<1>1. ASSUME NEW works \in BOOLEAN, Sequencer!Start(works) PROVE FeedInv'
  <2>1. live = {} /\ Sequencer!connect(works) /\ ~stopped'
    BY <1>1 DEF Sequencer!Start, live
  <2> QED
    BY <1>1, <2>1, QuietHears, ConnectionOpens DEF Sequencer!Start, Sequencer!quiet, FeedInv, ConnectionInv
<1>2. ASSUME NEW works \in BOOLEAN, Sequencer!TimerFires(works) PROVE FeedInv'
  <2>1. live = {} /\ Sequencer!connect(works)
    BY <1>2 DEF Sequencer!TimerFires, FeedInv, ConnectionInv, Connected
  <2> QED
    BY <1>2, <2>1, QuietHears, ConnectionOpens DEF Sequencer!TimerFires, Sequencer!quiet, FeedInv, ConnectionInv
<1>3. ASSUME NEW s \in DOMAIN sockets, Sequencer!Open(s) PROVE FeedInv'
  <2>1. /\ sockets' \in Seq({"connecting", "open", "over", "ended"}) /\ DOMAIN sockets' = DOMAIN sockets
        /\ sockets' # <<>> /\ live' = live
    BY <1>3 DEF Sequencer!Open, FeedInv, ConnectionInv, live
  <2> QED
    BY <1>3, <2>1, QuietHears DEF Sequencer!Open, Sequencer!quiet, FeedInv, ConnectionInv, Connected
<1>4. ASSUME NEW s \in DOMAIN sockets, Sequencer!Ends(s) PROVE FeedInv'
  BY <1>4, QuietHears, ConnectionEnds DEF Sequencer!Ends, Sequencer!quiet, FeedInv
<1>5. ASSUME NEW s \in DOMAIN sockets, Sequencer!Oversized(s) PROVE FeedInv'
  BY <1>5, QuietHears, ConnectionEnds DEF Sequencer!Oversized, FeedInv
<1>6. ASSUME NEW s \in DOMAIN sockets, NEW frame \in SUBSET (Requested .. MaxNumber), Sequencer!Message(s, frame)
      PROVE  FeedInv'
  <2>1. UNCHANGED <<sockets, timer, stopped>>
    BY <1>6 DEF Sequencer!Message
  <2> QED
    BY <1>6, <2>1, FrameHears DEF FeedInv, ConnectionInv, Connected, live
<1>7. CASE Sequencer!Stop
  BY <1>7, QuietHears DEF Sequencer!Stop, Sequencer!quiet, FeedInv, ConnectionInv
<1>8. CASE UNCHANGED sequencerVars
  BY <1>8, QuietHears DEF sequencerVars, FeedInv, ConnectionInv, Connected, live
<1> QED
  BY <1>1, <1>2, <1>3, <1>4, <1>5, <1>6, <1>7, <1>8 DEF Sequencer!FeedNext

LEMMA FeedCardinality == \A S : Sequencer!Cardinality(S) = Cardinality(S)
  BY DEF Sequencer!Cardinality, Cardinality

(* Every number from the first to the last was heard once, or lies in a reported *)
(* gap or in a hole of one frame, and one connection lives or is scheduled.                               *)
LEMMA FeedFollows == FeedInv => Sequencer!HeardOnce /\ Sequencer!OneConnection
<1>1. FeedInv => Sequencer!HeardOnce
  BY DEF FeedInv, HeardInv
<1>2. FeedInv => Sequencer!OneConnection
  <2> SUFFICES ASSUME FeedInv, ~stopped
               PROVE  Sequencer!Cardinality(live) + (IF timer THEN 1 ELSE 0) = 1
    BY DEF Sequencer!OneConnection, live
  <2>1. Sequencer!Cardinality({}) = 0 /\ \A s \in DOMAIN sockets : Sequencer!Cardinality({s}) = 1
    BY FS_EmptySet, FS_Singleton, FeedCardinality
  <2>2. Connected
    BY DEF FeedInv, ConnectionInv
  <2>3. CASE timer /\ live = {}
    BY <2>1, <2>3
  <2>4. CASE ~timer /\ \E s \in DOMAIN sockets : live = {s}
    BY <2>1, <2>4
  <2> QED
    BY <2>2, <2>3, <2>4 DEF Connected
<1> QED
  BY <1>1, <1>2

--------------------------------------------------------------------------------
(* The health check *)

(* While every delivery is recorded, a critical record was delivered, and after *)
(* an alert the record is critical or trading was held up since.                *)
AlertInv ==
  /\ health = [state |-> health.state, notification |-> health.notification] /\ unrecorded \in Nat
  /\ unrecorded = 0 =>
       /\ health.state = "CRITICAL" => health.notification = "DELIVERED" /\ told = "ALERT"
       /\ told = "ALERT" => health.state = "CRITICAL" \/ since \cap {"GRACE", "INACTIVE"} # {}

LEMMA HealthsAre == Watched!Healths \subseteq {"INACTIVE", "CRITICAL", "GRACE", "DEGRADED", "HEALTHY"}
<1> SUFFICES ASSUME NEW r PROVE Watched!evaluateCriticalTradingHealth(r) \in {"INACTIVE", "CRITICAL", "GRACE", "DEGRADED", "HEALTHY"}
  BY DEF Watched!Healths
<1> QED
  BY DEF Watched!evaluateCriticalTradingHealth

LEMMA AlertBegins == Watched!AlertInit => AlertInv
  BY DEF Watched!AlertInit, AlertInv

LEMMA AlertKeeps == ASSUME AlertInv, [Watched!AlertNext]_alertVars PROVE AlertInv'
<1>1. ASSUME NEW h \in Watched!Healths, Watched!CheckQuietly(h) PROVE AlertInv'
  <2>1. /\ health' = [state |-> h, notification |-> health.notification] /\ since' = since \cup {h}
        /\ UNCHANGED <<told, unrecorded>>
    BY <1>1 DEF Watched!CheckQuietly, AlertInv
  <2>2. /\ h = "CRITICAL" => health.state = "CRITICAL"
        /\ health.state = "CRITICAL" /\ health.notification = "DELIVERED" => h \notin {"HEALTHY", "DEGRADED"}
    BY <1>1 DEF Watched!CheckQuietly, Watched!criticalAlertTransition, Watched!tradable
  <2>3. health.state = "CRITICAL" /\ health.notification = "DELIVERED" => h \in {"CRITICAL", "GRACE", "INACTIVE"}
    BY <2>2, HealthsAre
  <2> QED
    BY <2>1, <2>2, <2>3 DEF AlertInv
<1>2. ASSUME NEW h \in Watched!Healths, Watched!CheckAndTell(h) PROVE AlertInv'
  <2>1. /\ told' = Watched!criticalAlertTransition(health, h) /\ told' # "NONE"
        /\ health' = [state |-> h, notification |-> "DELIVERED"] /\ UNCHANGED unrecorded
    BY <1>2 DEF Watched!CheckAndTell
  <2>2. (told' = "ALERT" /\ h = "CRITICAL") \/ (told' = "RECOVERY" /\ h # "CRITICAL")
    BY <2>1 DEF Watched!criticalAlertTransition
  <2> QED
    BY <2>1, <2>2 DEF AlertInv
<1>3. ASSUME NEW h \in Watched!Healths, Watched!TellUnrecorded(h) PROVE AlertInv'
  <2>1. unrecorded' \in Nat /\ unrecorded' # 0 /\ UNCHANGED health
    BY <1>3 DEF Watched!TellUnrecorded, AlertInv
  <2> QED
    BY <2>1 DEF AlertInv
<1>4. CASE UNCHANGED alertVars
  BY <1>4 DEF alertVars, AlertInv
<1> QED
  BY <1>1, <1>2, <1>3, <1>4 DEF Watched!AlertNext

LEMMA AlertFollows == AlertInv => Watched!OperatorTold
  BY DEF AlertInv, Watched!OperatorTold, Watched!tradable

--------------------------------------------------------------------------------
(* The budgets of the managed endpoint *)

(* What the processes P do to the day's budget, whichever they are.             *)
Closed == Fallback!Closed
Debited(p, n) == [Fallback!refreshDay(p) EXCEPT !.used = @ + n]
Admitted(p, n) == [Fallback!refreshDay(p) EXCEPT !.admitted = @ + n]

BudgetMoves(P) ==
  \/ UNCHANGED <<today, budgetFile, budgets, sent, shared>>
  \/ \E p \in P : Fallback!keeps(p, Fallback!refreshDay(p)) /\ UNCHANGED <<today, sent, shared>>
  \/ \E p \in P, n \in Batch :
       /\ Fallback!admitEventCandidates(Fallback!refreshDay(p), n) /\ Fallback!keeps(p, Admitted(p, n))
       /\ UNCHANGED <<today, sent, shared>>
  \/ \E p \in P, n \in Batch :
       /\ Fallback!affords(Fallback!refreshDay(p), n) /\ Fallback!keeps(p, Debited(p, n))
       /\ sent' = sent + n /\ shared' = (shared \/ \E q \in P \ {p} : budgets[q] # Closed) /\ UNCHANGED today
  \/ \E p \in P : budgets' = [budgets EXCEPT ![p] = Closed] /\ UNCHANGED <<today, budgetFile, sent, shared>>
  \/ today' = today + 1 /\ sent' = 0 /\ shared' = FALSE /\ UNCHANGED <<budgetFile, budgets>>

(* A budget within its bounds, of no later day. *)
Within(b) ==
  /\ b \in [day : Nat, admitted : Nat, used : Nat] /\ b.day <= today
  /\ b.admitted <= EventCap /\ b.used <= DailyCap

(* Who has the file open, and the file itself, count what was sent. *)
Counts(b) == (b.day = today => b.used = sent) /\ (sent # 0 => b.day = today)

BudgetInv(P) ==
  /\ today \in Nat /\ 0 < today /\ sent \in Nat /\ shared \in BOOLEAN
  /\ budgets \in [P -> [day : Nat, admitted : Nat, used : Nat]]
  /\ Within(budgetFile) /\ \A p \in P : Within(budgets[p])
  /\ ~shared => Counts(budgetFile) /\ \A p \in P : budgets[p] # Closed => Counts(budgets[p])

LEMMA ClosedIs == Closed = [day |-> 0, admitted |-> 0, used |-> 0]
  BY DEF Closed, Fallback!Closed, Fallback!Budget

(* What a process knows, on its day. *)
LEMMA Known ==
  ASSUME NEW P, BudgetInv(P), NEW p \in P
  PROVE  /\ Within(Fallback!refreshDay(p)) /\ Fallback!refreshDay(p).day = today /\ Fallback!refreshDay(p) # Closed
         /\ ~shared => Fallback!refreshDay(p).used = sent
<1>1. Within(Fallback!known(p)) /\ (~shared => Counts(Fallback!known(p)))
  BY DEF BudgetInv, Fallback!known, Closed
<1>2. today \in Nat /\ 0 < today /\ 0 <= EventCap /\ 0 <= DailyCap
  BY ServicesAssumption DEF BudgetInv
<1>3. CASE Fallback!known(p).day = today
  <2>1. Fallback!refreshDay(p) = Fallback!known(p)
    BY <1>3 DEF Fallback!refreshDay
  <2>2. Fallback!refreshDay(p) # Closed
    BY <1>2, <1>3, <2>1, ClosedIs
  <2> QED
    BY <1>1, <1>3, <2>1, <2>2 DEF Counts
<1>4. CASE Fallback!known(p).day # today
  <2>1. Fallback!refreshDay(p) = [day |-> today, admitted |-> 0, used |-> 0]
    BY <1>4 DEF Fallback!refreshDay, Fallback!Budget
  <2>2. Fallback!refreshDay(p) # Closed
    BY <1>2, <2>1, ClosedIs
  <2>3. ~shared => sent = 0
    BY <1>1, <1>4 DEF Counts
  <2> QED
    BY <1>2, <2>1, <2>2, <2>3 DEF Within
<1> QED
  BY <1>3, <1>4

(* A process that writes what counts right leaves all who know counting right.  *)
LEMMA KeepsCount ==
  ASSUME NEW P, BudgetInv(P), NEW p \in P, NEW b, Fallback!keeps(p, b), Within(b), UNCHANGED today,
         b.day = today, sent' \in Nat, shared' \in BOOLEAN,
         ~shared' => /\ b.used = sent' /\ (sent' = sent \/ b # Fallback!known(p)) /\ ~shared
                     /\ sent' = sent \/ \A q \in P \ {p} : budgets[q] = Closed
  PROVE  BudgetInv(P)'
<1>1. /\ budgets' = [budgets EXCEPT ![p] = b]
      /\ budgetFile' = IF b = Fallback!known(p) THEN budgetFile ELSE b
  BY DEF Fallback!keeps
<1>2. budgets' \in [P -> [day : Nat, admitted : Nat, used : Nat]] /\ budgets'[p] = b /\ \A q \in P \ {p} : budgets'[q] = budgets[q]
  BY <1>1 DEF BudgetInv, Within
<1>3. Within(b)' /\ Within(budgetFile)' /\ \A q \in P : Within(budgets[q])'
  <2>1. ASSUME NEW c, Within(c) PROVE Within(c)'
    BY <2>1 DEF Within
  <2>2. Within(b)' /\ \A q \in P \ {p} : Within(budgets[q])'
    BY <1>2, <2>1 DEF BudgetInv, Within
  <2> QED
    BY <1>1, <1>2, <2>2 DEF BudgetInv, Within
<1>4. ASSUME ~shared' PROVE Counts(budgetFile)' /\ \A q \in P : budgets'[q] # Closed => Counts(budgets[q])'
  <2>1. Counts(b)'
    BY <1>4 DEF Counts
  <2>2. CASE sent' = sent
    <3>1. ASSUME NEW c, Counts(c) PROVE Counts(c)'
      BY <2>2, <3>1 DEF Counts
    <3>2. Counts(budgetFile)'
      BY <1>1, <1>4, <2>1, <3>1 DEF BudgetInv, Counts
    <3>3. ASSUME NEW q \in P \ {p}, budgets'[q] # Closed PROVE Counts(budgets[q])'
      BY <1>2, <1>4, <3>1, <3>3 DEF BudgetInv, Counts
    <3> QED
      BY <1>2, <2>1, <3>2, <3>3 DEF Counts
  <2>3. CASE sent' # sent
    BY <1>1, <1>2, <1>4, <2>1, <2>3 DEF Counts
  <2> QED
    BY <2>2, <2>3
<1>5. Closed' = Closed
  BY ClosedIs DEF Closed, Fallback!Closed, Fallback!Budget
<1> QED
  BY <1>2, <1>3, <1>4, <1>5 DEF BudgetInv

LEMMA BudgetKeeps == ASSUME NEW P, BudgetInv(P), BudgetMoves(P) PROVE BudgetInv(P)'
<1>0. today \in Nat /\ 0 < today /\ sent \in Nat /\ shared \in BOOLEAN /\ \A n \in Batch : n \in Nat /\ 0 < n
  <2>1. today \in Nat /\ 0 < today /\ sent \in Nat /\ shared \in BOOLEAN
    BY DEF BudgetInv
  <2>2. Batch \subseteq Nat \ {0}
    BY ServicesAssumption
  <2> QED
    BY <2>1, <2>2
<1>1. CASE UNCHANGED <<today, budgetFile, budgets, sent, shared>>
  BY <1>1 DEF BudgetInv, Within, Counts, Closed, Fallback!Closed, Fallback!Budget
<1>2. ASSUME NEW p \in P, Fallback!keeps(p, Fallback!refreshDay(p)), UNCHANGED <<today, sent, shared>> PROVE BudgetInv(P)'
  BY <1>0, <1>2, Known, KeepsCount
<1>3. ASSUME NEW p \in P, NEW n \in Batch, Fallback!admitEventCandidates(Fallback!refreshDay(p), n),
             Fallback!keeps(p, Admitted(p, n)), UNCHANGED <<today, sent, shared>>
      PROVE  BudgetInv(P)'
  <2>1. Within(Admitted(p, n)) /\ Admitted(p, n).day = today /\ (~shared => Admitted(p, n).used = sent)
    BY <1>0, <1>3, Known DEF Admitted, Within, Fallback!admitEventCandidates
  <2> QED
    BY <1>0, <1>3, <2>1, KeepsCount
<1>4. ASSUME NEW p \in P, NEW n \in Batch, Fallback!affords(Fallback!refreshDay(p), n),
             Fallback!keeps(p, Debited(p, n)), sent' = sent + n,
             shared' = (shared \/ \E q \in P \ {p} : budgets[q] # Closed), UNCHANGED today
      PROVE  BudgetInv(P)'
  <2>1. /\ Within(Debited(p, n)) /\ Debited(p, n).day = today /\ (~shared => Debited(p, n).used = sent')
        /\ Debited(p, n).used # Fallback!refreshDay(p).used
    BY <1>0, <1>4, Known DEF Debited, Within, Fallback!affords
  <2>2. Debited(p, n) # Fallback!known(p)
    <3>1. Fallback!known(p).day = today => Fallback!refreshDay(p) = Fallback!known(p)
      BY DEF Fallback!refreshDay
    <3> QED
      BY <2>1, <3>1
  <2>3. sent' \in Nat /\ shared' \in BOOLEAN /\ (~shared' => ~shared /\ \A q \in P \ {p} : budgets[q] = Closed)
    <3>1. sent' \in Nat
      BY <1>0, <1>4
    <3>2. shared' \in BOOLEAN
      BY <1>0, <1>4, Zenon
    <3>3. ~shared' => ~shared /\ \A q \in P \ {p} : budgets[q] = Closed
      BY <1>4, Zenon
    <3> QED
      BY <3>1, <3>2, <3>3
  <2> QED
    BY <1>4, <2>1, <2>2, <2>3, KeepsCount
<1>5. ASSUME NEW p \in P, budgets' = [budgets EXCEPT ![p] = Closed], UNCHANGED <<today, budgetFile, sent, shared>> PROVE BudgetInv(P)'
  <2>1. Closed \in [day : Nat, admitted : Nat, used : Nat] /\ Within(Closed) /\ Closed' = Closed
    BY <1>0, ClosedIs, ServicesAssumption DEF Within, Closed, Fallback!Closed, Fallback!Budget
  <2>2. budgets' \in [P -> [day : Nat, admitted : Nat, used : Nat]] /\ \A q \in P : budgets'[q] = Closed \/ budgets'[q] = budgets[q]
    BY <1>5, <2>1 DEF BudgetInv
  <2>3. ASSUME NEW c PROVE (Within(c)' <=> Within(c)) /\ (Counts(c)' <=> Counts(c))
    BY <1>5 DEF Within, Counts
  <2>4. Within(budgetFile)' /\ \A q \in P : Within(budgets[q])'
    BY <1>5, <2>1, <2>2 DEF BudgetInv, Within
  <2>5. ASSUME ~shared PROVE Counts(budgetFile)' /\ \A q \in P : budgets'[q] # Closed => Counts(budgets[q])'
    BY <1>5, <2>2, <2>5 DEF BudgetInv, Counts
  <2>6. today' \in Nat /\ 0 < today' /\ sent' \in Nat /\ shared' \in BOOLEAN
    BY <1>0, <1>5
  <2>7. ~shared' => Counts(budgetFile)' /\ \A q \in P : budgets'[q] # Closed' => Counts(budgets[q])'
    BY <1>5, <2>1, <2>5
  <2> QED
    BY <2>2, <2>4, <2>6, <2>7 DEF BudgetInv
<1>6. CASE today' = today + 1 /\ sent' = 0 /\ shared' = FALSE /\ UNCHANGED <<budgetFile, budgets>>
  <2>1. ASSUME NEW c, Within(c) PROVE Within(c)' /\ Counts(c)'
    BY <1>0, <1>6, <2>1 DEF Within, Counts
  <2>2. Within(budgetFile)' /\ Counts(budgetFile)' /\ \A q \in P : Within(budgets[q])' /\ Counts(budgets[q])'
    BY <1>6, <2>1 DEF BudgetInv, Within, Counts
  <2>3. today' \in Nat /\ 0 < today' /\ sent' \in Nat /\ shared' \in BOOLEAN
    <3>1. today' \in Nat /\ 0 < today' /\ sent' \in Nat
      BY <1>0, <1>6
    <3>2. shared' \in BOOLEAN
      BY <1>6, Zenon
    <3> QED
      BY <3>1, <3>2
  <2>4. budgets' \in [P -> [day : Nat, admitted : Nat, used : Nat]]
    BY <1>6 DEF BudgetInv
  <2> QED
    BY <1>6, <2>2, <2>3, <2>4 DEF BudgetInv
<1> QED
  BY <1>1, <1>2, <1>3, <1>4, <1>5, <1>6 DEF BudgetMoves

LEMMA BudgetFollows == ASSUME NEW P, BudgetInv(P) PROVE Fallback!CeilingKept /\ HotRpc!CeilingKept
<1>1. ~shared => sent <= DailyCap /\ (sent # 0 => budgetFile.day = today /\ budgetFile.used = sent)
  BY ServicesAssumption DEF BudgetInv, Counts, Within
<1> QED
  BY <1>1 DEF BudgetInv, Within, Fallback!CeilingKept, HotRpc!CeilingKept

LEMMA FallbackMoves == ASSUME [Fallback!BudgetNext]_budgetVars PROVE BudgetMoves({"worker", "child"})
<1>1. Fallback!Process = {"worker", "child"}
  BY DEF Fallback!Process
<1>2. ASSUME NEW p \in {"worker", "child"}, Fallback!BeginWake(p) PROVE BudgetMoves({"worker", "child"})
  BY <1>2 DEF Fallback!BeginWake, BudgetMoves
<1>3. ASSUME NEW p \in {"worker", "child"}, NEW n \in Batch, Fallback!FallBack(p, n) PROVE BudgetMoves({"worker", "child"})
  BY <1>1, <1>3 DEF Fallback!FallBack, Fallback!consumeNestedLogicalCallBudgets, Fallback!debit, BudgetMoves, Debited, Closed
<1>4. ASSUME NEW p \in {"worker", "child"}, Fallback!Restart(p) PROVE BudgetMoves({"worker", "child"})
  BY <1>4 DEF Fallback!Restart, BudgetMoves, Closed
<1>5. CASE Fallback!LeaveHot \/ Fallback!Midnight \/ UNCHANGED budgetVars
  BY <1>5 DEF Fallback!LeaveHot, Fallback!Midnight, budgetVars, BudgetMoves
<1> QED
  BY <1>1, <1>2, <1>3, <1>4, <1>5 DEF Fallback!BudgetNext

LEMMA HotRpcMoves == ASSUME [HotRpc!BudgetNext]_budgetVars PROVE BudgetMoves({"board"})
<1>1. HotRpc!Process = {"board"}
  BY DEF HotRpc!Process
<1>2. \A p : /\ HotRpc!refreshDay(p) = Fallback!refreshDay(p) /\ (HotRpc!known(p) = Fallback!known(p))
             /\ \A b : HotRpc!keeps(p, b) <=> Fallback!keeps(p, b)
  BY DEF HotRpc!refreshDay, Fallback!refreshDay, HotRpc!known, Fallback!known, HotRpc!keeps, Fallback!keeps,
         HotRpc!Budget, Fallback!Budget, HotRpc!Closed, Fallback!Closed
<1>3. ASSUME NEW p \in {"board"}, NEW n \in Batch, HotRpc!QuoteCall(p, n) PROVE BudgetMoves({"board"})
  BY <1>1, <1>2, <1>3 DEF HotRpc!QuoteCall, HotRpc!affords, Fallback!affords, HotRpc!debit, BudgetMoves, Debited, Closed,
         HotRpc!Closed, Fallback!Closed, HotRpc!Budget, Fallback!Budget
<1>4. ASSUME NEW p \in {"board"}, NEW n \in Batch, NEW priority, HotRpc!BeginCycle(p, priority, n) PROVE BudgetMoves({"board"})
  BY <1>2, <1>4 DEF HotRpc!BeginCycle, HotRpc!admitEventCandidates, Fallback!admitEventCandidates, BudgetMoves, Admitted
<1>5. ASSUME NEW p \in {"board"}, HotRpc!Restart(p) PROVE BudgetMoves({"board"})
  BY <1>5 DEF HotRpc!Restart, BudgetMoves, Closed, HotRpc!Closed, Fallback!Closed, HotRpc!Budget, Fallback!Budget
<1>6. CASE HotRpc!LeaveHot \/ HotRpc!Midnight \/ UNCHANGED budgetVars
  BY <1>6 DEF HotRpc!LeaveHot, HotRpc!Midnight, budgetVars, BudgetMoves
<1> QED
  BY <1>1, <1>3, <1>4, <1>5, <1>6 DEF HotRpc!BudgetNext

LEMMA BudgetBegins ==
  /\ Fallback!BudgetInit => BudgetInv({"worker", "child"})
  /\ HotRpc!BudgetInit => BudgetInv({"board"})
<1>0. Closed \in [day : Nat, admitted : Nat, used : Nat] /\ 0 <= EventCap /\ 0 <= DailyCap
  BY ClosedIs, ServicesAssumption
<1>1. ASSUME NEW P, today = 1, budgetFile = Closed, budgets = [p \in P |-> Closed], sent = 0, shared = FALSE
      PROVE  BudgetInv(P)
  <2>1. Within(Closed) /\ Counts(Closed)
    BY <1>0, <1>1, ClosedIs DEF Within, Counts
  <2>2. today \in Nat /\ 0 < today /\ sent \in Nat
    BY <1>1
  <2>3. shared \in BOOLEAN
    BY <1>1, Zenon
  <2>4. budgets \in [P -> [day : Nat, admitted : Nat, used : Nat]] /\ \A p \in P : budgets[p] = Closed
    BY <1>0, <1>1
  <2> QED
    BY <1>1, <2>1, <2>2, <2>3, <2>4 DEF BudgetInv
<1>2. ASSUME Fallback!BudgetInit PROVE BudgetInv({"worker", "child"})
  BY <1>1, <1>2 DEF Fallback!BudgetInit, Fallback!Process, Closed, Fallback!Closed
<1>3. ASSUME HotRpc!BudgetInit PROVE BudgetInv({"board"})
  BY <1>1, <1>3 DEF HotRpc!BudgetInit, HotRpc!Process, HotRpc!Closed, HotRpc!Budget, Closed, Fallback!Closed, Fallback!Budget
<1> QED
  BY <1>2, <1>3

--------------------------------------------------------------------------------
(* The board's publication *)

Snapshot(s) == s = << >> \/ (s = <<s[1]>> /\ s[1].open \subseteq s[1].ids)

BoardTypes ==
  /\ catalog \subseteq Value /\ obs = [c \in Value |-> obs[c]]
  /\ prev.open \subseteq prev.ids /\ Snapshot(saved.file) /\ Snapshot(saved.sqlite)
  /\ cycle = [pc |-> cycle.pc, event |-> cycle.event, selected |-> cycle.selected, inFeed |-> cycle.inFeed,
              hadEpisode |-> cycle.hadEpisode, published |-> cycle.published]
  /\ faults = [published |-> faults.published, gaps |-> faults.gaps, busy |-> faults.busy, crashes |-> faults.crashes,
               behind |-> faults.behind]
  /\ faults.gaps \in Nat /\ faults.busy \in Nat /\ faults.behind \in {"no", "behind", "lost"}

(* While nothing known was missed and no start went back, what events.jsonl     *)
(* opened is open in the snapshot; and SQLite's is the last one, unless a       *)
(* transaction failed.                                                          *)
EntryInv ==
  /\ faults.gaps = 0 /\ faults.behind # "lost" => log.twice = {} /\ log.open \subseteq prev.open
  /\ faults.behind = "no" => IF saved.sqlite = << >> THEN log.open = {} ELSE saved.sqlite = <<prev>>

(* A known candidate stays listed; at a start nothing is listed yet.            *)
ListInv == faults.gaps = 0 => (catalog = {} /\ cycle.pc = "idle") \/ prev.ids \subseteq catalog

LedgerInv ==
  /\ ledger = [length |-> ledger.length, inserted |-> ledger.inserted, offset |-> ledger.offset]
  /\ ledger.length \in Nat /\ ledger.offset \in Nat /\ ledger.offset <= ledger.length
  /\ faults.busy = 0 => ledger.inserted = 1 .. ledger.length

(* What was published of a candidate is what its last quote says. *)
Told(c) ==
  c \in catalog =>
    /\ obs[c] = "positive" => c \in prev.open
    /\ obs[c] = "negative" => c \notin prev.open
    /\ c \in feed => obs[c] \in {"positive", "stale"}

(* An event cycle leaves all but its own candidates as published, remembers     *)
(* whether any of these was seen or open, and publishes a positive at once.     *)
CycleInv ==
  /\ cycle.pc = "idle" => \A c : Told(c)
  /\ cycle.event /\ cycle.pc \in {"quoting", "quoted"} => ~cycle.published
  /\ cycle.event /\ cycle.published => \A c : Told(c)
  /\ cycle.event /\ ~cycle.published =>
       /\ \A c : c \notin cycle.selected => Told(c)
       /\ ~cycle.inFeed => cycle.selected \cap feed = {}
       /\ ~cycle.hadEpisode => cycle.selected \cap prev.open = {}
       /\ cycle.pc = "maintain" => \A c \in cycle.selected : obs[c] \notin {"positive", "stale"}

BoardInv == BoardTypes /\ EntryInv /\ ListInv /\ LedgerInv /\ CycleInv

LEMMA LedgerWrites ==
  ASSUME NEW led, led = [length |-> led.length, inserted |-> led.inserted, offset |-> led.offset]
  PROVE  /\ Board!appended(led) = [length |-> led.length + 1, inserted |-> led.inserted, offset |-> led.offset]
         /\ Board!committed(led) = [length |-> led.length, inserted |-> led.inserted \cup {led.length}, offset |-> led.length]
         /\ Board!replayed(led) = [length |-> led.length, inserted |-> led.inserted \cup ((led.offset + 1) .. led.length),
                                   offset |-> led.length]
<1>1. ASSUME NEW X, NEW n PROVE [led EXCEPT !.inserted = X, !.offset = n] = [length |-> led.length, inserted |-> X, offset |-> n]
  <2>1. PICK r : r = [led EXCEPT !.inserted = X, !.offset = n]
    OBVIOUS
  <2>2. r = [length |-> r.length, inserted |-> r.inserted, offset |-> r.offset]
    BY <2>1
  <2>3. r.length = led.length /\ r.inserted = X /\ r.offset = n
    BY <2>1
  <2> QED
    BY <2>1, <2>2, <2>3
<1>2. Board!committed(led) = [led EXCEPT !.inserted = led.inserted \cup {led.length}, !.offset = led.length]
  BY DEF Board!committed
<1>3. Board!replayed(led) = [led EXCEPT !.inserted = led.inserted \cup ((led.offset + 1) .. led.length), !.offset = led.length]
  BY DEF Board!replayed
<1>4. Board!appended(led) = [length |-> led.length + 1, inserted |-> led.inserted, offset |-> led.offset]
  BY DEF Board!appended
<1> QED
  BY <1>1, <1>2, <1>3, <1>4

LEMMA LedgerFields ==
  ASSUME NEW led, led = [length |-> led.length, inserted |-> led.inserted, offset |-> led.offset],
         NEW k, NEW X, (k = Board!committed(led) /\ X = led.inserted \cup {led.length})
                       \/ (k = Board!replayed(led) /\ X = led.inserted \cup ((led.offset + 1) .. led.length))
  PROVE  /\ k.length = led.length /\ k.offset = led.length /\ k.inserted = X
         /\ k = [length |-> k.length, inserted |-> k.inserted, offset |-> k.offset]
<1>1. k = [length |-> led.length, inserted |-> X, offset |-> led.length]
  BY LedgerWrites, Zenon
<1> QED
  BY <1>1

LEMMA BoardBegins == Board!PubInit => BoardInv
<1> SUFFICES ASSUME Board!PubInit PROVE BoardInv
  OBVIOUS
<1>1. BoardTypes
  BY DEF Board!PubInit, BoardTypes, Board!NoItems, Board!Rest, Snapshot
<1>2. EntryInv /\ ListInv
  BY DEF Board!PubInit, EntryInv, ListInv, Board!NoItems, Board!Rest
<1>3. LedgerInv
  BY DEF Board!PubInit, LedgerInv
<1>4. CycleInv
  BY DEF Board!PubInit, CycleInv, Told, Board!Rest
<1> QED
  BY <1>1, <1>2, <1>3, <1>4 DEF BoardInv

(* After a publication, whatever cycle made it, all of the catalog is told.     *)
LEMMA Publishes ==
  ASSUME BoardInv, cycle.pc # "idle", NEW commit \in BOOLEAN, Board!Publish(commit), UNCHANGED <<catalog, obs>>,
         cycle' = [pc |-> cycle'.pc, event |-> cycle'.event, selected |-> cycle'.selected, inFeed |-> cycle'.inFeed,
                   hadEpisode |-> cycle'.hadEpisode, published |-> cycle'.published]
  PROVE  BoardTypes' /\ EntryInv' /\ ListInv' /\ LedgerInv' /\ \A c : Told(c)'
<1>1. BoardTypes /\ EntryInv /\ ListInv /\ LedgerInv
  BY DEF BoardInv
<1>2. /\ saved' = [file |-> <<Board!reconciled>>, sqlite |-> IF commit THEN <<Board!reconciled>> ELSE saved.sqlite]
      /\ feed' = {c \in catalog : obs[c] = "positive"}
      /\ log' = Board!appendEvents
      /\ ledger' = IF commit THEN Board!committed(Board!appended(ledger)) ELSE Board!appended(ledger)
      /\ prev' = Board!reconciled
      /\ faults' = [faults EXCEPT !.published = @ + 1, !.busy = IF commit THEN @ ELSE @ + 1,
                                   !.behind = IF @ = "lost" THEN @ ELSE IF commit THEN "no" ELSE "behind"]
  BY DEF Board!Publish
<1>3. /\ faults' = [published |-> faults'.published, gaps |-> faults'.gaps, busy |-> faults'.busy, crashes |-> faults'.crashes,
                    behind |-> faults'.behind]
      /\ faults'.gaps = faults.gaps /\ faults'.busy = (IF commit THEN faults.busy ELSE faults.busy + 1)
      /\ faults'.behind = IF faults.behind = "lost" THEN "lost" ELSE IF commit THEN "no" ELSE "behind"
  BY <1>1, <1>2 DEF BoardTypes
<1>4. prev'.ids = catalog /\ prev'.open = Board!opened \cup (IF Board!baseline THEN {} ELSE Board!kept)
  BY <1>2 DEF Board!reconciled
<1>5. prev'.open \subseteq prev'.ids
  BY <1>4 DEF Board!opened, Board!kept
<1>6. BoardTypes'
  <2>1. saved'.file = <<prev'>> /\ saved'.sqlite = IF commit THEN <<prev'>> ELSE saved.sqlite
    BY <1>2
  <2>2. Snapshot(<<prev'>>)
    BY <1>5 DEF Snapshot
  <2>3. Snapshot(saved.file)' /\ Snapshot(saved.sqlite)'
    BY <1>1, <2>1, <2>2 DEF BoardTypes, Snapshot
  <2>4. faults'.gaps \in Nat /\ faults'.busy \in Nat /\ faults'.behind \in {"no", "behind", "lost"}
    BY <1>1, <1>3 DEF BoardTypes
  <2> QED
    BY <1>1, <1>3, <1>5, <2>3, <2>4 DEF BoardTypes
<1>7. ListInv'
  BY <1>4 DEF ListInv
<1>8. log'.open = (log.open \cup Board!opened) \ Board!left /\ log'.twice = log.twice \cup (log.open \cap Board!opened)
  BY <1>2 DEF Board!appendEvents
<1>9. EntryInv'
  <2>1. ASSUME faults'.gaps = 0, faults'.behind # "lost" PROVE log'.twice = {} /\ log'.open \subseteq prev'.open
    <3>1. log.twice = {} /\ log.open \subseteq prev.open /\ prev.open \subseteq prev.ids /\ prev.ids \subseteq catalog
      BY <1>1, <1>3, <2>1 DEF BoardTypes, EntryInv, ListInv
    <3>2. log.open \cap Board!opened = {}
      BY <3>1 DEF Board!opened, Board!baseline
    <3>3. log.open \ Board!left \subseteq prev'.open
      BY <1>4, <3>1 DEF Board!baseline, Board!kept
    <3> QED
      BY <1>4, <1>8, <3>1, <3>2, <3>3
  <2>2. ASSUME faults'.behind = "no" PROVE saved'.sqlite = <<prev'>>
    BY <1>2, <1>3, <2>2
  <2> QED
    BY <2>1, <2>2 DEF EntryInv
<1>10. LedgerInv'
  <2> DEFINE n == ledger.length
  <2>1. n \in Nat /\ ledger.offset \in Nat /\ ledger.offset <= n
    BY <1>1 DEF LedgerInv
  <2>2. Board!appended(ledger) = [length |-> n + 1, inserted |-> ledger.inserted, offset |-> ledger.offset]
    BY <1>1, LedgerWrites DEF LedgerInv
  <2>3. CASE commit
    <3>1. ledger' = [length |-> n + 1, inserted |-> ledger.inserted \cup {n + 1}, offset |-> n + 1]
      <4>1. PICK led : led = Board!appended(ledger)
        OBVIOUS
      <4>2. led = [length |-> led.length, inserted |-> led.inserted, offset |-> led.offset]
            /\ led.length = n + 1 /\ led.inserted = ledger.inserted
        BY <2>2, <4>1
      <4> QED
        BY <1>2, <2>3, <4>1, <4>2, LedgerWrites
    <3>2. faults'.busy = 0 => ledger'.inserted = 1 .. n + 1
      BY <1>1, <1>3, <2>1, <2>3, <3>1 DEF LedgerInv
    <3> QED
      BY <2>1, <3>1, <3>2 DEF LedgerInv
  <2>4. CASE ~commit
    <3>1. faults'.busy # 0
      BY <1>1, <1>3, <2>4 DEF BoardTypes
    <3> QED
      BY <1>2, <2>1, <2>2, <2>4, <3>1 DEF LedgerInv
  <2> QED
    BY <2>3, <2>4
<1>11. ASSUME NEW c PROVE Told(c)'
  BY <1>2, <1>4 DEF Told, Board!opened, Board!baseline, Board!kept, Board!left, Board!closes
<1> QED
  BY <1>6, <1>7, <1>9, <1>10, <1>11

LEMMA AgeKeeps == ASSUME BoardInv, Board!Age PROVE BoardInv'
<1>1. BoardTypes /\ EntryInv /\ ListInv /\ LedgerInv /\ CycleInv
  BY DEF BoardInv
<1>2. PICK c \in Value : obs' = [obs EXCEPT ![c] = Board!aged(@)] /\ UNCHANGED <<catalog, prev, cycle, feed, log, ledger, saved, faults>>
  BY DEF Board!Age
<1>3. obs' = [d \in Value |-> obs'[d]] /\ \A d \in Value : obs'[d] = obs[d] \/ obs'[d] = Board!aged(obs[d])
  BY <1>1, <1>2 DEF BoardTypes
<1>4. BoardTypes'
  BY <1>1, <1>2, <1>3 DEF BoardTypes, Snapshot
<1>5. EntryInv' /\ ListInv' /\ LedgerInv'
  BY <1>1, <1>2 DEF EntryInv, ListInv, LedgerInv
<1>6. ASSUME NEW d PROVE Told(d) => Told(d)'
  BY <1>1, <1>2, <1>3 DEF BoardTypes, Told, Board!aged
<1>7. ASSUME NEW d \in Value, obs[d] \notin {"positive", "stale"} PROVE obs'[d] \notin {"positive", "stale"}
  BY <1>3, <1>7 DEF Board!aged
<1>8. CycleInv'
  BY <1>1, <1>2, <1>6, <1>7 DEF CycleInv
<1> QED
  BY <1>4, <1>5, <1>8 DEF BoardInv

LEMMA PeriodicKeeps ==
  ASSUME BoardInv, NEW refreshed \in SUBSET Value, NEW selected \in SUBSET refreshed, Board!BeginPeriodic(refreshed, selected)
  PROVE  BoardInv'
<1>1. BoardTypes /\ EntryInv /\ ListInv /\ LedgerInv
  BY DEF BoardInv
<1>2. /\ catalog' = refreshed /\ cycle' = [Board!Rest EXCEPT !.pc = "quoting", !.selected = selected]
      /\ faults' = [faults EXCEPT !.gaps = IF prev.ids \ refreshed # {} THEN @ + 1 ELSE @]
      /\ UNCHANGED <<obs, prev, feed, log, ledger, saved>>
  BY DEF Board!BeginPeriodic
<1>3. /\ faults' = [published |-> faults.published, gaps |-> faults'.gaps, busy |-> faults.busy, crashes |-> faults.crashes,
                    behind |-> faults.behind]
      /\ faults'.gaps = IF prev.ids \ refreshed # {} THEN faults.gaps + 1 ELSE faults.gaps
  BY <1>1, <1>2 DEF BoardTypes
<1>4. faults'.gaps \in Nat /\ (faults'.gaps = 0 => faults.gaps = 0 /\ prev.ids \subseteq refreshed)
  <2>1. faults.gaps \in Nat
    BY <1>1 DEF BoardTypes
  <2> QED
    BY <1>3, <2>1
<1>5. cycle' = [pc |-> "quoting", event |-> FALSE, selected |-> selected, inFeed |-> FALSE, hadEpisode |-> FALSE, published |-> FALSE]
  BY <1>2 DEF Board!Rest
<1>6. BoardTypes'
  BY <1>1, <1>2, <1>3, <1>4, <1>5 DEF BoardTypes, Snapshot
<1>7. EntryInv' /\ LedgerInv'
  BY <1>1, <1>2, <1>3, <1>4 DEF EntryInv, LedgerInv
<1>8. ListInv'
  BY <1>2, <1>4 DEF ListInv
<1>9. CycleInv'
  BY <1>5 DEF CycleInv
<1> QED
  BY <1>6, <1>7, <1>8, <1>9 DEF BoardInv

LEMMA EventKeeps == ASSUME BoardInv, NEW woken, Board!BeginEvent(woken) PROVE BoardInv'
<1>1. BoardTypes /\ EntryInv /\ ListInv /\ LedgerInv /\ CycleInv
  BY DEF BoardInv
<1>0. PICK selected : selected = woken \cap catalog
  OBVIOUS
<1>2. /\ cycle.pc = "idle" /\ catalog # {}
      /\ cycle' = [pc |-> "quoting", event |-> TRUE, selected |-> selected, published |-> FALSE,
                   inFeed |-> selected \cap feed # {}, hadEpisode |-> selected \cap prev.open # {}]
      /\ UNCHANGED <<catalog, obs, prev, feed, log, ledger, saved, faults>>
  BY <1>0 DEF Board!BeginEvent
<1>3. BoardTypes'
  BY <1>1, <1>2 DEF BoardTypes, Snapshot
<1>4. EntryInv' /\ LedgerInv' /\ ListInv'
  BY <1>1, <1>2 DEF EntryInv, LedgerInv, ListInv
<1>5. \A c : Told(c)'
  BY <1>1, <1>2 DEF CycleInv, Told
<1>6. cycle'.pc = "quoting" /\ ~cycle'.published /\ cycle'.selected = selected
      /\ (~cycle'.inFeed => selected \cap feed = {}) /\ (~cycle'.hadEpisode => selected \cap prev.open = {})
  BY <1>2
<1>7. CycleInv'
  BY <1>2, <1>5, <1>6 DEF CycleInv
<1> QED
  BY <1>3, <1>4, <1>7 DEF BoardInv

LEMMA QuotesKeep == ASSUME BoardInv, NEW results, Board!QuoteCandidates(results) PROVE BoardInv'
<1>1. BoardTypes /\ EntryInv /\ ListInv /\ LedgerInv /\ CycleInv
  BY DEF BoardInv
<1>2. /\ cycle.pc = "quoting"
      /\ obs' = [c \in Value |-> IF c \in cycle.selected THEN results[c] ELSE obs[c]]
      /\ cycle' = [cycle EXCEPT !.pc = "quoted"]
      /\ UNCHANGED <<catalog, prev, feed, log, ledger, saved, faults>>
  BY DEF Board!QuoteCandidates
<1>3. cycle' = [pc |-> "quoted", event |-> cycle.event, selected |-> cycle.selected, inFeed |-> cycle.inFeed,
                hadEpisode |-> cycle.hadEpisode, published |-> cycle.published]
  BY <1>1, <1>2 DEF BoardTypes
<1>4. BoardTypes'
  BY <1>1, <1>2, <1>3 DEF BoardTypes, Snapshot
<1>5. EntryInv' /\ LedgerInv' /\ ListInv'
  BY <1>1, <1>2, <1>3 DEF EntryInv, LedgerInv, ListInv
<1>6. ASSUME NEW c, c \notin cycle.selected, Told(c) PROVE Told(c)'
  BY <1>1, <1>2, <1>6 DEF Told, BoardTypes
<1>7. CycleInv'
  BY <1>1, <1>2, <1>3, <1>6 DEF CycleInv
<1> QED
  BY <1>4, <1>5, <1>7 DEF BoardInv

LEMMA FailsKeeps == ASSUME BoardInv, NEW commit \in BOOLEAN, Board!CycleFails(commit) PROVE BoardInv'
<1>1. cycle.pc # "idle" /\ Board!Publish(commit) /\ cycle' = Board!Rest /\ UNCHANGED <<catalog, obs>>
  BY DEF Board!CycleFails
<1>2. BoardTypes' /\ EntryInv' /\ ListInv' /\ LedgerInv' /\ \A c : Told(c)'
  BY <1>1, Publishes DEF Board!Rest
<1>3. CycleInv'
  BY <1>1, <1>2 DEF CycleInv, Board!Rest
<1> QED
  BY <1>2, <1>3 DEF BoardInv

LEMMA CheckpointKeeps == ASSUME BoardInv, NEW commit \in BOOLEAN, Board!PositiveCheckpoint(commit) PROVE BoardInv'
<1>1. BoardTypes /\ EntryInv /\ ListInv /\ LedgerInv /\ CycleInv
  BY DEF BoardInv
<1>2. cycle.pc = "quoted" /\ UNCHANGED <<catalog, obs>>
  BY DEF Board!PositiveCheckpoint
<1>3. CASE \E c \in cycle.selected : obs[c] \in {"positive", "stale"}
  <2>1. Board!Publish(commit) /\ cycle' = [cycle EXCEPT !.pc = "maintain", !.published = TRUE]
    BY <1>3 DEF Board!PositiveCheckpoint
  <2>2. /\ cycle' = [pc |-> cycle'.pc, event |-> cycle'.event, selected |-> cycle'.selected, inFeed |-> cycle'.inFeed,
                     hadEpisode |-> cycle'.hadEpisode, published |-> cycle'.published]
        /\ cycle'.pc = "maintain" /\ cycle'.published = TRUE
    BY <1>1, <2>1 DEF BoardTypes
  <2>3. BoardTypes' /\ EntryInv' /\ ListInv' /\ LedgerInv' /\ \A c : Told(c)'
    BY <1>2, <2>1, <2>2, Publishes
  <2>4. CycleInv'
    BY <2>2, <2>3 DEF CycleInv
  <2> QED
    BY <2>3, <2>4 DEF BoardInv
<1>4. CASE ~\E c \in cycle.selected : obs[c] \in {"positive", "stale"}
  <2>1. cycle' = [cycle EXCEPT !.pc = "maintain"] /\ UNCHANGED <<prev, feed, log, ledger, saved, faults>>
    BY <1>4 DEF Board!PositiveCheckpoint
  <2>2. cycle' = [pc |-> "maintain", event |-> cycle.event, selected |-> cycle.selected, inFeed |-> cycle.inFeed,
                  hadEpisode |-> cycle.hadEpisode, published |-> cycle.published]
    BY <1>1, <2>1 DEF BoardTypes
  <2>3. BoardTypes' /\ EntryInv' /\ ListInv' /\ LedgerInv'
    BY <1>1, <1>2, <2>1, <2>2 DEF BoardTypes, Snapshot, EntryInv, ListInv, LedgerInv
  <2>4. \A c : Told(c)' <=> Told(c)
    BY <1>2, <2>1 DEF Told
  <2>5. CycleInv'
    BY <1>1, <1>2, <1>4, <2>1, <2>2, <2>4 DEF CycleInv
  <2> QED
    BY <2>3, <2>5 DEF BoardInv
<1> QED
  BY <1>3, <1>4

LEMMA FinishKeeps == ASSUME BoardInv, NEW commit \in BOOLEAN, Board!FinishCycle(commit) PROVE BoardInv'
<1>1. BoardTypes /\ EntryInv /\ ListInv /\ LedgerInv /\ CycleInv
  BY DEF BoardInv
<1>2. cycle.pc = "maintain" /\ cycle' = Board!Rest /\ UNCHANGED <<catalog, obs>>
  BY DEF Board!FinishCycle
<1>3. CASE Board!publishes
  <2>1. Board!Publish(commit)
    BY <1>3 DEF Board!FinishCycle
  <2>2. BoardTypes' /\ EntryInv' /\ ListInv' /\ LedgerInv' /\ \A c : Told(c)'
    BY <1>2, <2>1, Publishes DEF Board!Rest
  <2>3. CycleInv'
    BY <1>2, <2>2 DEF CycleInv, Board!Rest
  <2> QED
    BY <2>2, <2>3 DEF BoardInv
<1>4. CASE ~Board!publishes
  <2>1. UNCHANGED <<prev, feed, log, ledger, saved, faults>>
    BY <1>4 DEF Board!FinishCycle
  <2>2. cycle.event /\ (cycle.published \/ (~cycle.inFeed /\ ~cycle.hadEpisode))
    BY <1>4 DEF Board!publishes
  <2>3. ASSUME NEW c PROVE Told(c)
    <3>1. CASE cycle.published
      BY <1>1, <2>2, <3>1 DEF CycleInv
    <3>2. CASE ~cycle.published
      <4>1. cycle.selected \cap feed = {} /\ cycle.selected \cap prev.open = {}
            /\ (c \in cycle.selected => obs[c] \notin {"positive", "stale"}) /\ (c \notin cycle.selected => Told(c))
        BY <1>1, <1>2, <2>2, <3>2 DEF CycleInv
      <4> QED
        BY <4>1 DEF Told
    <3> QED
      BY <3>1, <3>2
  <2>4. BoardTypes' /\ EntryInv' /\ ListInv' /\ LedgerInv'
    BY <1>1, <1>2, <2>1 DEF BoardTypes, Snapshot, EntryInv, ListInv, LedgerInv, Board!Rest
  <2>5. \A c : Told(c)'
    BY <1>2, <2>1, <2>3 DEF Told
  <2>6. CycleInv'
    BY <1>2, <2>5 DEF CycleInv, Board!Rest
  <2> QED
    BY <2>4, <2>6 DEF BoardInv
<1> QED
  BY <1>3, <1>4

(* A start goes on from SQLite's snapshot, and replays the ledger's tail.       *)
LEMMA BoardRestartKeeps == ASSUME BoardInv, NEW n \in 0 .. 4, Board!Restart(n) PROVE BoardInv'
<1>1. BoardTypes /\ EntryInv /\ LedgerInv
  BY DEF BoardInv
<1>2. PICK written, loaded, start, tail :
        /\ written = IF n >= 1 THEN <<Board!reconciled>> ELSE saved.file
        /\ loaded = IF saved.sqlite # << >> THEN saved.sqlite ELSE written
        /\ start = IF loaded = << >> THEN Board!NoItems ELSE loaded[1]
        /\ tail = Board!replayed(IF n >= 4 THEN Board!appended(ledger) ELSE ledger)
        /\ saved' = [file |-> written, sqlite |-> loaded]
        /\ ledger' = IF saved.sqlite # loaded THEN Board!committed(Board!appended(tail)) ELSE tail
        /\ prev' = start
        /\ obs' = [c \in Value |-> IF obs[c] \in {"stale", "unknown"} THEN Board!aged(start.obs[c]) ELSE start.obs[c]]
  BY DEF Board!Restart
<1>3. /\ log' = IF n >= 3 THEN Board!appendEvents ELSE log
      /\ catalog' = {} /\ cycle' = Board!Rest
      /\ faults' = [faults EXCEPT !.crashes = @ + 1, !.behind = IF @ = "behind" \/ n >= 3 THEN "lost" ELSE @]
  BY DEF Board!Restart
<1>4. /\ faults' = [published |-> faults'.published, gaps |-> faults'.gaps, busy |-> faults'.busy, crashes |-> faults'.crashes,
                    behind |-> faults'.behind]
      /\ faults'.gaps = faults.gaps /\ faults'.busy = faults.busy
      /\ faults'.behind = IF faults.behind = "behind" \/ n >= 3 THEN "lost" ELSE faults.behind
  BY <1>1, <1>3 DEF BoardTypes
<1>5. Snapshot(<<Board!reconciled>>) /\ Snapshot(written) /\ Snapshot(loaded)
  <2>1. Board!reconciled.open \subseteq Board!reconciled.ids
    BY DEF Board!reconciled, Board!opened, Board!kept
  <2>2. Snapshot(<<Board!reconciled>>)
    BY <2>1 DEF Snapshot
  <2> QED
    BY <1>1, <1>2, <2>2 DEF BoardTypes
<1>6. start.open \subseteq start.ids /\ (loaded # << >> => loaded = <<start>>)
  BY <1>2, <1>5 DEF Snapshot, Board!NoItems
<1>7. BoardTypes'
  <2>1. Snapshot(written)' /\ Snapshot(loaded)'
    BY <1>5 DEF Snapshot
  <2>2. saved'.file = written /\ saved'.sqlite = loaded
    BY <1>2
  <2>3. Snapshot(saved.file)' /\ Snapshot(saved.sqlite)'
    BY <1>5, <2>2 DEF Snapshot
  <2> QED
    BY <1>1, <1>2, <1>3, <1>4, <1>6, <2>3 DEF BoardTypes, Board!Rest
<1>8. EntryInv'
  <2>1. ASSUME faults'.behind # "lost" PROVE faults.behind \notin {"lost", "behind"} /\ ~(n >= 3) /\ log' = log
    BY <1>3, <1>4, <2>1
  <2>2. ASSUME faults'.behind = "no" PROVE IF saved'.sqlite = << >> THEN log'.open = {} ELSE saved'.sqlite = <<prev'>>
    <3>1. faults.behind = "no" /\ log' = log
      BY <1>4, <2>1, <2>2
    <3>2. saved'.sqlite = loaded /\ prev' = start
      BY <1>2
    <3>3. loaded = << >> => saved.sqlite = << >>
      BY <1>2
    <3> QED
      BY <1>1, <1>6, <3>1, <3>2, <3>3 DEF EntryInv
  <2>3. ASSUME faults'.gaps = 0, faults'.behind # "lost" PROVE log'.twice = {} /\ log'.open \subseteq prev'.open
    <3>1. faults.behind = "no" /\ log' = log /\ faults.gaps = 0 /\ prev' = start
      BY <1>1, <1>2, <1>4, <2>1, <2>3 DEF BoardTypes
    <3>2. log.twice = {} /\ log.open \subseteq prev.open
      BY <1>1, <3>1 DEF EntryInv
    <3>3. CASE saved.sqlite = << >>
      BY <1>1, <3>1, <3>2, <3>3 DEF EntryInv
    <3>4. CASE saved.sqlite # << >>
      <4>1. saved.sqlite = <<prev>> /\ loaded = saved.sqlite
        BY <1>1, <1>2, <3>1, <3>4 DEF EntryInv
      <4>2. start = prev
        BY <1>2, <3>4, <4>1
      <4> QED
        BY <3>1, <3>2, <4>2
    <3> QED
      BY <3>3, <3>4
  <2> QED
    BY <2>2, <2>3 DEF EntryInv
<1>9. ListInv'
  BY <1>3 DEF ListInv, Board!Rest
<1>10. LedgerInv'
  <2> DEFINE Whole(l) ==
        /\ l = [length |-> l.length, inserted |-> l.inserted, offset |-> l.offset]
        /\ l.length \in Nat /\ l.offset \in Nat /\ l.offset <= l.length
        /\ faults.busy = 0 => l.inserted = 1 .. l.length
  <2>1. ASSUME NEW l, Whole(l), NEW k, k = Board!replayed(l) \/ k = Board!committed(Board!appended(l)) PROVE Whole(k)
    <3>1. CASE k = Board!replayed(l)
      <4>1. k.length = l.length /\ k.offset = l.length /\ k.inserted = l.inserted \cup ((l.offset + 1) .. l.length)
            /\ k = [length |-> k.length, inserted |-> k.inserted, offset |-> k.offset]
        BY <2>1, <3>1, LedgerFields, Zenon
      <4>2. faults.busy = 0 => k.inserted = 1 .. l.length
        BY <2>1, <4>1
      <4> QED
        BY <2>1, <4>1, <4>2
    <3>2. CASE k = Board!committed(Board!appended(l))
      <4>1. PICK m : m = Board!appended(l)
        OBVIOUS
      <4>2. m = [length |-> m.length, inserted |-> m.inserted, offset |-> m.offset]
            /\ m.length = l.length + 1 /\ m.inserted = l.inserted
        BY <2>1, <4>1, LedgerWrites
      <4>3. k.length = l.length + 1 /\ k.offset = l.length + 1 /\ k.inserted = l.inserted \cup {l.length + 1}
            /\ k = [length |-> k.length, inserted |-> k.inserted, offset |-> k.offset]
        <5>1. k.length = m.length /\ k.offset = m.length /\ k.inserted = m.inserted \cup {m.length}
              /\ k = [length |-> k.length, inserted |-> k.inserted, offset |-> k.offset]
          <6>1. k = Board!committed(m) /\ m = [length |-> m.length, inserted |-> m.inserted, offset |-> m.offset]
            BY <3>2, <4>1, <4>2
          <6> QED
            BY <6>1, LedgerFields, Zenon
        <5> QED
          BY <4>2, <5>1
      <4>4. faults.busy = 0 => k.inserted = 1 .. l.length + 1
        BY <2>1, <4>3
      <4> QED
        BY <2>1, <4>3, <4>4
    <3> QED
      BY <2>1, <3>1, <3>2
  <2>2. Whole(ledger)
    BY <1>1 DEF LedgerInv
  <2>3. Whole(tail)
    <3>1. CASE n >= 4
      <4>1. PICK m : m = Board!appended(ledger)
        OBVIOUS
      <4>2. m = [length |-> m.length, inserted |-> m.inserted, offset |-> m.offset]
            /\ m.length = ledger.length + 1 /\ m.inserted = ledger.inserted /\ m.offset = ledger.offset
        BY <2>2, <4>1, LedgerWrites
      <4>3. tail = Board!replayed(m)
        BY <1>2, <3>1, <4>1
      <4>4. tail.length = m.length /\ tail.offset = m.length /\ tail.inserted = m.inserted \cup ((m.offset + 1) .. m.length)
            /\ tail = [length |-> tail.length, inserted |-> tail.inserted, offset |-> tail.offset]
        BY <4>2, <4>3, LedgerFields, ZenonT(40)
      <4>5. faults.busy = 0 => tail.inserted = 1 .. ledger.length + 1
        BY <2>2, <4>2, <4>4
      <4> QED
        BY <2>2, <4>2, <4>4, <4>5
    <3>2. CASE ~(n >= 4)
      BY <1>2, <2>1, <2>2, <3>2
    <3> QED
      BY <3>1, <3>2
  <2>4. Whole(ledger')
    BY <1>2, <2>1, <2>3
  <2> QED
    BY <1>4, <2>4 DEF LedgerInv
<1>11. CycleInv'
  BY <1>3 DEF CycleInv, Told, Board!Rest
<1> QED
  BY <1>7, <1>8, <1>9, <1>10, <1>11 DEF BoardInv

LEMMA BoardKeeps == ASSUME BoardInv, [Board!PubNext]_boardVars PROVE BoardInv'
<1>1. CASE UNCHANGED boardVars
  <2>1. BoardTypes /\ EntryInv /\ ListInv /\ LedgerInv /\ CycleInv
    BY DEF BoardInv
  <2>2. UNCHANGED <<catalog, obs, prev, cycle, feed, log, ledger, saved, faults>>
    BY <1>1 DEF boardVars
  <2>3. BoardTypes' /\ EntryInv' /\ ListInv' /\ LedgerInv'
    BY <2>1, <2>2 DEF BoardTypes, Snapshot, EntryInv, ListInv, LedgerInv
  <2>4. CycleInv'
    BY <2>1, <2>2 DEF CycleInv, Told
  <2> QED
    BY <2>3, <2>4 DEF BoardInv
<1> QED
  BY <1>1, AgeKeeps, PeriodicKeeps, EventKeeps, QuotesKeep, FailsKeeps, CheckpointKeeps, FinishKeeps, BoardRestartKeeps, Zenon
     DEF Board!PubNext

LEMMA BoardFollows ==
  BoardInv => Board!EnteredOnce /\ Board!EpisodeCurrent /\ Board!FeedCleared /\ Board!LedgerReplayed
<1> SUFFICES ASSUME BoardInv PROVE Board!EnteredOnce /\ Board!EpisodeCurrent /\ Board!FeedCleared /\ Board!LedgerReplayed
  OBVIOUS
<1>1. Board!EnteredOnce /\ Board!LedgerReplayed
  BY DEF BoardInv, EntryInv, LedgerInv, Board!EnteredOnce, Board!LedgerReplayed
<1>2. Board!EpisodeCurrent /\ Board!FeedCleared
  BY DEF BoardInv, CycleInv, Told, Board!EpisodeCurrent, Board!FeedCleared
<1> QED
  BY <1>1, <1>2

--------------------------------------------------------------------------------
(* The source catalogs *)

CursorNames == {"long", "doppler", "pool", "chain"}
Adapters == {"long", "doppler"}
Durable == Source!durableCursors(mem)

IsMem(m) == m = [launches |-> m.launches, index |-> m.index, pools |-> m.pools, pair |-> m.pair, graph |-> m.graph,
                 cursors |-> m.cursors]

SourceTypes ==
  /\ IsMem(mem) /\ mem.cursors \in [CursorNames -> Int] /\ disk.cursors \in [CursorNames -> Int]
  /\ disk = [launches |-> disk.launches, pools |-> disk.pools, pair |-> disk.pair, cursors |-> disk.cursors, hot |-> disk.hot]
  /\ checkpoint = << >> \/ (checkpoint = <<checkpoint[1]>> /\ checkpoint[1] \in [CursorNames -> Int])
  /\ sourceCycle = [pc |-> sourceCycle.pc, fixed |-> sourceCycle.fixed, batch |-> sourceCycle.batch,
                    left |-> sourceCycle.left, found |-> sourceCycle.found, changed |-> sourceCycle.changed]
  /\ hot = [next |-> hot.next, pc |-> hot.pc, found |-> hot.found, pair |-> hot.pair]
  /\ head \in Nat /\ sourceCycle.fixed \in Nat /\ sourceCycle.batch \in Nat
  /\ sourceCycle.pc # "idle" => checkpoint # << >>

(* The adapters a cycle has yet to read: those of one read stand together.      *)
LeftInv ==
  /\ sourceCycle.changed \in BOOLEAN
  /\ sourceCycle.left \in {<< >>, <<Adapters>>, <<{"long"}>>, <<{"doppler"}>>, <<{"long"}, {"doppler"}>>}
  /\ sourceCycle.left = <<Adapters>> => mem.cursors["long"] = mem.cursors["doppler"]
  /\ sourceCycle.left # << >> => sourceCycle.pc = "launches"

(* Below cursors c every launch is in L, and every pool is in P. *)
HasLaunches(c, L) == \A l \in SourceLaunch : l.block < c[l.by] => l \in L
HasPools(c, P) == \A p \in SourcePool : p.block < c["pool"] => p \in P

LaunchInv ==
  /\ HasLaunches(mem.cursors, mem.launches) /\ HasLaunches(disk.cursors, disk.launches) /\ HasLaunches(Durable, disk.launches)
  /\ disk.launches \subseteq mem.launches
  /\ sourceCycle.pc = "cursors" => disk.launches = mem.launches /\ disk.pools = mem.pools

(* What polls found is known, and in the graph or asked for.                    *)
RefreshInv ==
  /\ refresh \/ ingested \subseteq mem.graph
  /\ ingested \subseteq mem.pair /\ hot.pair \subseteq mem.pair /\ (hot.pair # {} => hot.found)

SourceInv == SourceTypes /\ LeftInv /\ LaunchInv /\ RefreshInv

(* While no adapter fails alone both stand at one block, and no pool cursor is  *)
(* beyond it.                                                                   *)
Even(c) == c["long"] = c["doppler"] /\ c["pool"] <= c["long"]

EvenInv ==
  /\ sourceFaults = [failures |-> sourceFaults.failures, unwritten |-> sourceFaults.unwritten, bad |-> sourceFaults.bad,
                     restarts |-> sourceFaults.restarts]
  /\ sourceFaults.bad = 0 /\ Even(mem.cursors) /\ Even(disk.cursors) /\ Even(Durable)

(* A cycle of one batch has added no launch before its read.                    *)
BatchInv ==
  /\ sourceCycle.left # << >> =>
       /\ sourceCycle.left = <<Adapters>> /\ sourceCycle.batch = 1 /\ ~sourceCycle.changed
       /\ mem.cursors["long"] <= sourceCycle.fixed
  /\ sourceCycle.pc \in {"refresh", "fixed"} => ~sourceCycle.changed /\ sourceCycle.batch = 0
  /\ sourceCycle.pc = "launches" /\ sourceCycle.batch = 0 => ~sourceCycle.changed

(* The index has every launch when pools are read.                              *)
IndexInv ==
  /\ mem.index \subseteq mem.launches
  /\ ~(sourceCycle.pc = "launches" /\ sourceCycle.changed) => mem.index = mem.launches

PoolInv ==
  /\ HasPools(mem.cursors, mem.pools) /\ HasPools(disk.cursors, disk.pools) /\ HasPools(Durable, disk.pools)
  /\ disk.pools \subseteq mem.pools
  /\ (\A p \in mem.pools : p.of \in mem.launches) /\ (\A p \in disk.pools : p.of \in disk.launches)

LEMMA SourceMin == ASSUME NEW a \in Int, NEW b \in Int PROVE Source!Min({a, b}) = IF a <= b THEN a ELSE b
  BY DEF Source!Min

LEMMA IngestWrites ==
  ASSUME NEW m, IsMem(m), NEW B
  PROVE  /\ IsMem(Source!ingested(m, B))
         /\ Source!ingested(m, B).launches = m.launches /\ Source!ingested(m, B).index = m.index
         /\ Source!ingested(m, B).graph = m.graph /\ Source!ingested(m, B).cursors = m.cursors
         /\ Source!ingested(m, B).pools = m.pools \cup {p \in SourcePool : p.block \in B /\ p.of \in m.index}
         /\ m.pair \subseteq Source!ingested(m, B).pair /\ Source!ingested(m, B).pair \subseteq m.pair \cup PairBlock
<1>1. PICK X : X = {p \in SourcePool : p.block \in B /\ p.of \in m.index}
  OBVIOUS
<1>2. PICK Y : Y = PairBlock \cap B
  OBVIOUS
<1>3. Source!ingested(m, B) = [m EXCEPT !.pools = @ \cup X, !.pair = @ \cup Y]
  BY <1>1, <1>2 DEF Source!ingested
<1>4. /\ IsMem(Source!ingested(m, B))
      /\ Source!ingested(m, B).launches = m.launches /\ Source!ingested(m, B).index = m.index
      /\ Source!ingested(m, B).graph = m.graph /\ Source!ingested(m, B).cursors = m.cursors
      /\ Source!ingested(m, B).pools = m.pools \cup X /\ Source!ingested(m, B).pair = m.pair \cup Y
  BY <1>3 DEF IsMem
<1> QED
  BY <1>1, <1>2, <1>4

LEMMA MemWrites ==
  ASSUME NEW m, IsMem(m)
  PROVE  /\ IsMem(Source!indexed(m)) /\ IsMem(Source!rebuilt(m))
         /\ Source!indexed(m).launches = m.launches /\ Source!indexed(m).index = m.launches /\ Source!indexed(m).pools = m.pools
         /\ Source!indexed(m).pair = m.pair /\ Source!indexed(m).graph = m.graph /\ Source!indexed(m).cursors = m.cursors
         /\ Source!rebuilt(m).launches = m.launches /\ Source!rebuilt(m).index = m.index /\ Source!rebuilt(m).pools = m.pools
         /\ Source!rebuilt(m).pair = m.pair /\ Source!rebuilt(m).graph = m.pair /\ Source!rebuilt(m).cursors = m.cursors
  BY DEF Source!indexed, Source!rebuilt, IsMem

LEMMA SourceBegins == Source!SourceInit => SourceInv
<1> SUFFICES ASSUME Source!SourceInit PROVE SourceInv
  OBVIOUS
<1>1. mem.cursors = Source!Start /\ disk.cursors = Source!Start /\ Durable = Source!Start
  BY DEF Source!SourceInit, Durable, Source!durableCursors
<1>2. Source!Start \in [CursorNames -> Int] /\ Source!Start["long"] = 1 /\ Source!Start["doppler"] = 1
  BY DEF Source!Start, CursorNames
<1>3. SourceTypes /\ LeftInv /\ RefreshInv
  BY <1>1, <1>2 DEF Source!SourceInit, SourceTypes, LeftInv, RefreshInv, IsMem, Source!Idle
<1>4. \A L : HasLaunches(Source!Start, L)
  BY <1>2, ServicesAssumption DEF HasLaunches
<1>5. LaunchInv
  BY <1>1, <1>4 DEF LaunchInv, Source!SourceInit, Source!Idle
<1> QED
  BY <1>3, <1>5 DEF SourceInv

PoolAt(m, n) == [m EXCEPT !.cursors.pool = n]
ChainAt(m, n) == [m EXCEPT !.cursors.chain = n]

LEMMA CursorWrites ==
  ASSUME NEW m, IsMem(m), m.cursors \in [CursorNames -> Int], NEW n \in Int
  PROVE  /\ IsMem(PoolAt(m, n)) /\ PoolAt(m, n).launches = m.launches /\ PoolAt(m, n).index = m.index
         /\ PoolAt(m, n).pools = m.pools /\ PoolAt(m, n).pair = m.pair /\ PoolAt(m, n).graph = m.graph
         /\ PoolAt(m, n).cursors \in [CursorNames -> Int] /\ PoolAt(m, n).cursors["pool"] = n
         /\ \A c \in CursorNames \ {"pool"} : PoolAt(m, n).cursors[c] = m.cursors[c]
         /\ IsMem(ChainAt(m, n)) /\ ChainAt(m, n).launches = m.launches /\ ChainAt(m, n).index = m.index
         /\ ChainAt(m, n).pools = m.pools /\ ChainAt(m, n).pair = m.pair /\ ChainAt(m, n).graph = m.graph
         /\ ChainAt(m, n).cursors \in [CursorNames -> Int] /\ ChainAt(m, n).cursors["chain"] = n
         /\ \A c \in CursorNames \ {"chain"} : ChainAt(m, n).cursors[c] = m.cursors[c]
<1>1. PICK u : u = [m.cursors EXCEPT !["pool"] = n]
  OBVIOUS
<1>2. PICK v : v = [m.cursors EXCEPT !["chain"] = n]
  OBVIOUS
<1>3. u \in [CursorNames -> Int] /\ u["pool"] = n /\ \A c \in CursorNames \ {"pool"} : u[c] = m.cursors[c]
  BY <1>1 DEF CursorNames
<1>4. v \in [CursorNames -> Int] /\ v["chain"] = n /\ \A c \in CursorNames \ {"chain"} : v[c] = m.cursors[c]
  BY <1>2 DEF CursorNames
<1>5. PoolAt(m, n) = [m EXCEPT !.cursors = u] /\ ChainAt(m, n) = [m EXCEPT !.cursors = v]
  BY <1>1, <1>2 DEF PoolAt, ChainAt
<1>6. /\ IsMem(PoolAt(m, n)) /\ PoolAt(m, n).launches = m.launches /\ PoolAt(m, n).index = m.index
      /\ PoolAt(m, n).pools = m.pools /\ PoolAt(m, n).pair = m.pair /\ PoolAt(m, n).graph = m.graph
      /\ PoolAt(m, n).cursors = u
  BY <1>5 DEF IsMem
<1>7. /\ IsMem(ChainAt(m, n)) /\ ChainAt(m, n).launches = m.launches /\ ChainAt(m, n).index = m.index
      /\ ChainAt(m, n).pools = m.pools /\ ChainAt(m, n).pair = m.pair /\ ChainAt(m, n).graph = m.graph
      /\ ChainAt(m, n).cursors = v
  BY <1>5 DEF IsMem
<1> QED
  BY <1>3, <1>4, <1>6, <1>7

(* Where a read ends. *)
LEMMA RangeEnds ==
  ASSUME NEW a \in Int, NEW b \in Int
  PROVE  /\ Source!rangeEnd(a, b) \in Int /\ Source!rangeEnd(a, b) <= b
         /\ a <= b => a <= Source!rangeEnd(a, b) + 1
<1>1. BlockRange \in Nat
  BY ServicesAssumption
<1> QED
  BY <1>1, SourceMin DEF Source!rangeEnd

LEMMA PoolLimits ==
  ASSUME SourceTypes
  PROVE  /\ Source!poolLimit \in Int /\ Source!poolLimit <= sourceCycle.fixed
         /\ Source!poolLimit < mem.cursors["long"] /\ Source!poolLimit < mem.cursors["doppler"]
<1>1. mem.cursors["long"] \in Int /\ mem.cursors["doppler"] \in Int /\ sourceCycle.fixed \in Nat
  BY DEF SourceTypes, CursorNames
<1>2. PICK c \in Int : c = Source!launchCursor(mem.cursors)
  BY <1>1, SourceMin DEF Source!launchCursor
<1>3. c <= mem.cursors["long"] /\ c <= mem.cursors["doppler"]
  BY <1>1, <1>2, SourceMin DEF Source!launchCursor
<1>4. Source!poolLimit = Source!Min({c - 1, sourceCycle.fixed})
  BY <1>2 DEF Source!poolLimit
<1> QED
  BY <1>1, <1>2, <1>3, <1>4, SourceMin

(* What a step of the catalogs does to the memory. *)
SameLaunches == mem'.launches = mem.launches /\ mem'.cursors = mem.cursors

RefreshEffect ==
  /\ IsMem(mem') /\ SameLaunches /\ mem'.index = mem.launches /\ mem'.pools = {p \in mem.pools : p.of \in mem.launches}
  /\ mem'.pair = mem.pair /\ mem'.graph = mem.pair

LEMMA RefreshWrites == ASSUME SourceTypes, Source!RefreshCatalog PROVE RefreshEffect
<1>1. PICK S : S = {p \in mem.pools : p.of \in mem.launches}
  OBVIOUS
<1>2. PICK n : n = Source!indexed(mem)
  OBVIOUS
<1>3. /\ IsMem(n) /\ n.launches = mem.launches /\ n.index = mem.launches /\ n.pair = mem.pair
      /\ n.cursors = mem.cursors
  BY <1>2, MemWrites DEF SourceTypes
<1>4. PICK w : w = [n EXCEPT !.pools = S]
  OBVIOUS
<1>5. /\ IsMem(w) /\ w.launches = mem.launches /\ w.index = mem.launches /\ w.pair = mem.pair /\ w.pools = S
      /\ w.cursors = mem.cursors
  BY <1>3, <1>4 DEF IsMem
<1>6. mem' = Source!rebuilt(w)
  BY <1>1, <1>2, <1>4 DEF Source!RefreshCatalog
<1> QED
  BY <1>1, <1>5, <1>6, MemWrites DEF RefreshEffect, SameLaunches

PlanEffect ==
  /\ IsMem(mem') /\ SameLaunches /\ mem'.pools = mem.pools /\ mem'.pair = mem.pair /\ mem'.graph = mem.graph
  /\ mem'.index = IF ~(sourceCycle.batch < Batches /\ Source!active # {}) /\ sourceCycle.changed
                    THEN mem.launches ELSE mem.index

LEMMA PlanWrites == ASSUME SourceTypes, Source!PlanLaunches PROVE PlanEffect
<1>1. IsMem(mem)
  BY DEF SourceTypes
<1>2. PICK n : n = Source!indexed(mem)
  OBVIOUS
<1>3. /\ IsMem(n) /\ n.launches = mem.launches /\ n.index = mem.launches /\ n.pair = mem.pair /\ n.pools = mem.pools
      /\ n.cursors = mem.cursors /\ n.graph = mem.graph
  BY <1>1, <1>2, MemWrites
<1>4. mem' = IF ~(sourceCycle.batch < Batches /\ Source!active # {}) /\ sourceCycle.changed THEN n ELSE mem
  BY <1>2 DEF Source!PlanLaunches
<1> QED
  BY <1>1, <1>3, <1>4 DEF PlanEffect, SameLaunches

(* The adapters in good stood at from, and are read to the block to. *)
LaunchesEffect(group, good, from, to) ==
  /\ from \in Int /\ to \in Int /\ \A c \in group : mem.cursors[c] = from
  /\ to <= sourceCycle.fixed /\ (from <= sourceCycle.fixed => from <= to + 1)
  /\ IsMem(mem') /\ mem'.launches = mem.launches \cup {l \in SourceLaunch : l.by \in good /\ l.block \in from..to}
  /\ mem'.index = mem.index /\ mem'.pools = mem.pools /\ mem'.pair = mem.pair /\ mem'.graph = mem.graph
  /\ mem'.cursors \in [CursorNames -> Int]
  /\ \A c \in CursorNames : mem'.cursors[c] = IF c \in good THEN to + 1 ELSE mem.cursors[c]
  /\ sourceCycle'.changed <=> sourceCycle.changed \/ {l \in SourceLaunch : l.by \in good /\ l.block \in from..to} # {}

LEMMA LaunchesWrites ==
  ASSUME SourceTypes, LeftInv, NEW bad, Source!ReadLaunches(bad)
  PROVE  /\ Head(sourceCycle.left) \in {Adapters, {"long"}, {"doppler"}} /\ bad \subseteq Head(sourceCycle.left)
         /\ \E from, to : LaunchesEffect(Head(sourceCycle.left), Head(sourceCycle.left) \ bad, from, to)
<1>1. PICK g : g = Head(sourceCycle.left)
  OBVIOUS
<1>2. sourceCycle.left # << >> /\ bad \subseteq g
  BY <1>1 DEF Source!ReadLaunches
<1>3. g \in {Adapters, {"long"}, {"doppler"}} /\ (g = Adapters => mem.cursors["long"] = mem.cursors["doppler"])
  BY <1>1, <1>2 DEF LeftInv, Adapters
<1>4. PICK from : from = mem.cursors[CHOOSE a \in g : TRUE]
  OBVIOUS
<1>5. (CHOOSE a \in g : TRUE) \in g
  BY <1>3 DEF Adapters
<1>6. mem.cursors \in [CursorNames -> Int] /\ sourceCycle.fixed \in Nat /\ IsMem(mem)
  BY DEF SourceTypes
<1>7. from \in Int /\ \A c \in g : mem.cursors[c] = from
  BY <1>3, <1>4, <1>5, <1>6 DEF Adapters, CursorNames
<1>8. PICK to : to = Source!rangeEnd(from, sourceCycle.fixed)
  OBVIOUS
<1>9. to \in Int /\ to <= sourceCycle.fixed /\ (from <= sourceCycle.fixed => from <= to + 1)
  <2>1. PICK f \in Int : f = sourceCycle.fixed
    BY <1>6
  <2>2. PICK a \in Int : a = from
    BY <1>7
  <2> QED
    BY <1>8, <2>1, <2>2, RangeEnds
<1>10. PICK new : new = {l \in SourceLaunch : l.by \in g \ bad /\ l.block \in from..to}
  OBVIOUS
<1>11. PICK cs : cs = [c \in DOMAIN mem.cursors |-> IF c \in g \ bad THEN to + 1 ELSE mem.cursors[c]]
  OBVIOUS
<1>12. mem' = [mem EXCEPT !.launches = mem.launches \cup new, !.cursors = cs]
  BY <1>1, <1>4, <1>8, <1>10, <1>11 DEF Source!ReadLaunches
<1>13. sourceCycle' = [sourceCycle EXCEPT !.left = Tail(sourceCycle.left), !.changed = (sourceCycle.changed \/ new # {})]
  BY <1>1, <1>4, <1>8, <1>10 DEF Source!ReadLaunches
<1>14. cs \in [CursorNames -> Int] /\ \A c \in CursorNames : cs[c] = IF c \in g \ bad THEN to + 1 ELSE mem.cursors[c]
  BY <1>6, <1>9, <1>11 DEF CursorNames
<1>15. /\ IsMem(mem') /\ mem'.launches = mem.launches \cup new /\ mem'.cursors = cs
       /\ mem'.index = mem.index /\ mem'.pools = mem.pools /\ mem'.pair = mem.pair /\ mem'.graph = mem.graph
  BY <1>6, <1>12 DEF IsMem
<1>16. sourceCycle'.changed <=> sourceCycle.changed \/ new # {}
  BY <1>13 DEF SourceTypes, LeftInv
<1>17. LaunchesEffect(g, g \ bad, from, to)
  BY <1>7, <1>9, <1>10, <1>14, <1>15, <1>16 DEF LaunchesEffect
<1> QED
  BY <1>1, <1>2, <1>3, <1>17

(* Pools are read from the pool cursor to the block to; or the stage ends. *)
PoolsEffect ==
  /\ IsMem(mem') /\ mem'.launches = mem.launches /\ mem'.index = mem.index
  /\ mem'.cursors \in [CursorNames -> Int] /\ \A c \in CursorNames \ {"pool"} : mem'.cursors[c] = mem.cursors[c]
  /\ mem.pair \subseteq mem'.pair /\ mem'.pair \subseteq mem.pair \cup PairBlock
  /\ \/ /\ mem'.pools = mem.pools /\ mem'.cursors = mem.cursors /\ mem'.graph \in {mem.graph, mem.pair}
     \/ \E to \in Int :
          /\ to < mem.cursors["long"] /\ to < mem.cursors["doppler"] /\ to <= sourceCycle.fixed
          /\ mem.cursors["pool"] <= to + 1
          /\ mem'.pools = mem.pools \cup {p \in SourcePool : p.block \in mem.cursors["pool"]..to /\ p.of \in mem.index}
          /\ mem'.cursors["pool"] = to + 1 /\ mem'.graph = mem.graph

LEMMA PoolsWrites == ASSUME SourceTypes, Source!ReadPools PROVE PoolsEffect
<1>1. IsMem(mem) /\ mem.cursors \in [CursorNames -> Int] /\ mem.cursors["pool"] \in Int
  BY DEF SourceTypes, CursorNames
<1>2. CASE ~Source!readsPools
  <2>1. mem' = Source!rebuilt(mem) \/ mem' = mem
    BY <1>2 DEF Source!ReadPools
  <2> QED
    BY <1>1, <2>1, MemWrites DEF PoolsEffect
<1>3. CASE Source!readsPools
  <2>1. PICK from \in Int : from = mem.cursors["pool"]
    BY <1>1
  <2>2. PICK limit \in Int : /\ limit = Source!poolLimit /\ limit <= sourceCycle.fixed
                             /\ limit < mem.cursors["long"] /\ limit < mem.cursors["doppler"]
    BY PoolLimits
  <2>3. from <= limit
    BY <1>3, <2>1, <2>2 DEF Source!readsPools
  <2>4. PICK to \in Int : to = Source!rangeEnd(from, limit) /\ to <= limit /\ from <= to + 1
    BY <2>3, RangeEnds
  <2>5. PICK m : m = Source!ingested(mem, from..to)
    OBVIOUS
  <2>6. mem' = [m EXCEPT !.cursors.pool = to + 1]
    BY <1>3, <2>1, <2>2, <2>4, <2>5 DEF Source!ReadPools
  <2>7. /\ IsMem(m) /\ m.launches = mem.launches /\ m.index = mem.index /\ m.graph = mem.graph /\ m.cursors = mem.cursors
        /\ m.pools = mem.pools \cup {p \in SourcePool : p.block \in from..to /\ p.of \in mem.index}
        /\ mem.pair \subseteq m.pair /\ m.pair \subseteq mem.pair \cup PairBlock
    BY <1>1, <2>5, IngestWrites
  <2>8. /\ IsMem(mem') /\ mem'.launches = m.launches /\ mem'.index = m.index /\ mem'.pools = m.pools
        /\ mem'.pair = m.pair /\ mem'.graph = m.graph /\ mem'.cursors \in [CursorNames -> Int]
        /\ mem'.cursors["pool"] = to + 1 /\ \A c \in CursorNames \ {"pool"} : mem'.cursors[c] = m.cursors[c]
    <3>1. PICK n \in Int : n = to + 1
      OBVIOUS
    <3>2. m.cursors \in [CursorNames -> Int]
      BY <1>1, <2>7
    <3>3. mem' = PoolAt(m, n)
      BY <2>6, <3>1 DEF PoolAt
    <3> QED
      BY <2>7, <3>1, <3>2, <3>3, CursorWrites
  <2>9. to < mem.cursors["long"] /\ to < mem.cursors["doppler"] /\ to <= sourceCycle.fixed
    <3>1. mem.cursors["long"] \in Int /\ mem.cursors["doppler"] \in Int
      BY <1>1 DEF CursorNames
    <3>2. sourceCycle.fixed \in Nat
      BY DEF SourceTypes
    <3> QED
      BY <2>2, <2>4, <3>1, <3>2
  <2> QED
    BY <2>1, <2>4, <2>7, <2>8, <2>9 DEF PoolsEffect
<1> QED
  BY <1>2, <1>3

ChainEffect ==
  /\ IsMem(mem') /\ mem'.launches = mem.launches /\ mem'.index = mem.index
  /\ mem'.cursors \in [CursorNames -> Int] /\ \A c \in CursorNames \ {"chain"} : mem'.cursors[c] = mem.cursors[c]
  /\ mem'.cursors["chain"] = mem.cursors["chain"] \/ mem'.cursors["chain"] <= sourceCycle.fixed + 1
  /\ \E B : mem'.pools = mem.pools \cup {p \in SourcePool : p.block \in B /\ p.of \in mem.index}
  /\ mem'.pair \subseteq mem.pair \cup PairBlock
  /\ mem.pair \subseteq mem'.pair /\ (mem'.graph = mem.graph \/ mem'.graph = mem'.pair)

LEMMA ChainWrites == ASSUME SourceTypes, Source!ReadChain PROVE ChainEffect
<1>1. IsMem(mem) /\ mem.cursors \in [CursorNames -> Int] /\ mem.cursors["chain"] \in Int
  BY DEF SourceTypes, CursorNames
<1>2. CASE ~Source!readsChain
  <2>1. mem' = Source!rebuilt(mem) \/ mem' = mem
    BY <1>2 DEF Source!ReadChain
  <2>2. /\ IsMem(mem') /\ mem'.launches = mem.launches /\ mem'.index = mem.index /\ mem'.cursors = mem.cursors
        /\ mem'.pools = mem.pools /\ mem'.pair = mem.pair /\ (mem'.graph = mem.graph \/ mem'.graph = mem'.pair)
    BY <1>1, <2>1, MemWrites
  <2>3. \E B : mem'.pools = mem.pools \cup {p \in SourcePool : p.block \in B /\ p.of \in mem.index}
    <3>1. mem'.pools = mem.pools \cup {p \in SourcePool : p.block \in {} /\ p.of \in mem.index}
      BY <2>2
    <3> QED
      BY <3>1
  <2> QED
    BY <1>1, <2>2, <2>3 DEF ChainEffect
<1>3. CASE Source!readsChain
  <2>1. PICK from \in Int : from = mem.cursors["chain"]
    BY <1>1
  <2>2. PICK limit \in Int : limit = sourceCycle.fixed
    BY DEF SourceTypes
  <2>3. PICK to \in Int : to = Source!rangeEnd(from, limit) /\ to <= limit
    BY RangeEnds
  <2>4. PICK m : m = Source!ingested(mem, from..to)
    OBVIOUS
  <2>5. mem' = [m EXCEPT !.cursors.chain = to + 1]
    BY <1>3, <2>1, <2>2, <2>3, <2>4 DEF Source!ReadChain
  <2>6. /\ IsMem(m) /\ m.launches = mem.launches /\ m.index = mem.index /\ m.graph = mem.graph /\ m.cursors = mem.cursors
        /\ m.pools = mem.pools \cup {p \in SourcePool : p.block \in from..to /\ p.of \in mem.index}
        /\ mem.pair \subseteq m.pair /\ m.pair \subseteq mem.pair \cup PairBlock
    BY <1>1, <2>4, IngestWrites
  <2>7. /\ IsMem(mem') /\ mem'.launches = m.launches /\ mem'.index = m.index /\ mem'.pools = m.pools
        /\ mem'.pair = m.pair /\ mem'.graph = m.graph /\ mem'.cursors \in [CursorNames -> Int]
        /\ mem'.cursors["chain"] = to + 1 /\ \A c \in CursorNames \ {"chain"} : mem'.cursors[c] = m.cursors[c]
    <3>1. PICK n \in Int : n = to + 1
      OBVIOUS
    <3>2. m.cursors \in [CursorNames -> Int]
      BY <1>1, <2>6
    <3>3. mem' = ChainAt(m, n)
      BY <2>5, <3>1 DEF ChainAt
    <3> QED
      BY <2>6, <3>1, <3>2, <3>3, CursorWrites
  <2>8. \E B : mem'.pools = mem.pools \cup {p \in SourcePool : p.block \in B /\ p.of \in mem.index}
    <3>1. mem'.pools = mem.pools \cup {p \in SourcePool : p.block \in from..to /\ p.of \in mem.index}
      BY <2>6, <2>7
    <3> QED
      BY <3>1
  <2>9. /\ mem'.graph = mem.graph /\ mem.pair \subseteq mem'.pair /\ mem'.pair \subseteq mem.pair \cup PairBlock
        /\ mem'.launches = mem.launches /\ mem'.index = mem.index
    BY <2>6, <2>7
  <2>10. mem'.cursors["chain"] <= sourceCycle.fixed + 1
    BY <2>2, <2>3, <2>7
  <2>11. \A c \in CursorNames \ {"chain"} : mem'.cursors[c] = mem.cursors[c]
    BY <2>6, <2>7
  <2> QED
    BY <2>7, <2>8, <2>9, <2>10, <2>11 DEF ChainEffect
<1> QED
  BY <1>2, <1>3

PollEffect ==
  /\ IsMem(mem') /\ SameLaunches /\ mem'.index = mem.index /\ mem'.graph = mem.graph
  /\ \E B : mem'.pools = mem.pools \cup {p \in SourcePool : p.block \in B /\ p.of \in mem.index}
  /\ mem.pair \subseteq mem'.pair /\ mem'.pair \subseteq mem.pair \cup PairBlock
  /\ hot' = [hot EXCEPT !.pc = "final", !.found = (mem' # mem), !.pair = mem'.pair \ mem.pair]

LEMMA PollWrites == ASSUME SourceTypes, Source!HotIngest PROVE PollEffect
<1>1. IsMem(mem)
  BY DEF SourceTypes
<1>2. mem' = Source!ingested(mem, {hot.next})
  BY DEF Source!HotIngest
<1>3. /\ IsMem(mem') /\ mem'.launches = mem.launches /\ mem'.cursors = mem.cursors
      /\ mem'.index = mem.index /\ mem'.graph = mem.graph
      /\ mem.pair \subseteq mem'.pair /\ mem'.pair \subseteq mem.pair \cup PairBlock
      /\ mem'.pools = mem.pools \cup {p \in SourcePool : p.block \in {hot.next} /\ p.of \in mem.index}
  BY <1>1, <1>2, IngestWrites
<1>4. hot' = [hot EXCEPT !.pc = "final", !.found = (mem' # mem), !.pair = mem'.pair \ mem.pair]
  BY <1>2 DEF Source!HotIngest, Source!discovered
<1> QED
  BY <1>3, <1>4 DEF PollEffect, SameLaunches

(* What a restart reads, pools again from the launch cursors. *)
RestartEffect ==
  /\ IsMem(mem') /\ mem'.launches = disk.launches /\ mem'.index = disk.launches
  /\ mem'.pools = {p \in disk.pools : p.of \in disk.launches} /\ mem'.pair = disk.pair
  /\ mem'.cursors \in [CursorNames -> Int] /\ \A c \in CursorNames \ {"pool"} : mem'.cursors[c] = disk.cursors[c]
  /\ mem'.cursors["pool"] <= disk.cursors["pool"]
  /\ mem'.cursors["pool"] <= disk.cursors["long"] /\ mem'.cursors["pool"] <= disk.cursors["doppler"]

LEMMA RestartWrites == ASSUME SourceTypes, Source!Restart PROVE RestartEffect
<1>1. /\ disk.cursors \in [CursorNames -> Int] /\ disk.cursors["pool"] \in Int
      /\ disk.cursors["long"] \in Int /\ disk.cursors["doppler"] \in Int
  BY DEF SourceTypes, CursorNames
<1>2. PICK n : n = Source!Min({disk.cursors.pool, Source!launchCursor(disk.cursors)})
  OBVIOUS
<1>3. n \in Int /\ n <= disk.cursors["pool"] /\ n <= disk.cursors["long"] /\ n <= disk.cursors["doppler"]
  <2>1. PICK c \in Int : c = Source!launchCursor(disk.cursors) /\ c <= disk.cursors["long"] /\ c <= disk.cursors["doppler"]
    BY <1>1, SourceMin DEF Source!launchCursor
  <2>2. PICK a \in Int : a = disk.cursors["pool"]
    BY <1>1
  <2> QED
    BY <1>1, <1>2, <2>1, <2>2, SourceMin
<1>4. PICK cs : cs = [disk.cursors EXCEPT !["pool"] = n]
  OBVIOUS
<1>5. cs \in [CursorNames -> Int] /\ cs["pool"] = n /\ \A c \in CursorNames \ {"pool"} : cs[c] = disk.cursors[c]
  BY <1>1, <1>3, <1>4 DEF CursorNames
<1>6. PICK S : S = {p \in disk.pools : p.of \in disk.launches}
  OBVIOUS
<1>7. mem' = [launches |-> disk.launches, index |-> disk.launches, pools |-> S, pair |-> disk.pair, graph |-> {}, cursors |-> cs]
  BY <1>2, <1>4, <1>6 DEF Source!Restart
<1> QED
  BY <1>3, <1>5, <1>6, <1>7 DEF RestartEffect, IsMem

(* The steps that leave the memory alone, and those that do not. *)
SourceSteps ==
  \/ mem' = mem /\ \/ Source!NewBlock \/ (\E late \in BOOLEAN : Source!BeginCycle(late)) \/ Source!FixedBlock
                   \/ Source!AbandonCycle \/ Source!LaunchReadFails \/ Source!StageFails \/ Source!ChainWriteFails
                   \/ Source!WriteProjection \/ Source!CommitCursors \/ Source!CommitFails
                   \/ Source!HotAdvance \/ Source!HotFails
  \/ Source!RefreshCatalog /\ RefreshEffect
  \/ Source!PlanLaunches /\ PlanEffect
  \/ Source!ReadPools /\ PoolsEffect
  \/ Source!ReadChain /\ ChainEffect
  \/ Source!HotIngest /\ PollEffect
  \/ Source!Restart /\ RestartEffect

LEMMA SourceMoves ==
  ASSUME SourceTypes, Source!SourceNext
  PROVE  SourceSteps \/ \E bad \in SUBSET Adapters : Source!ReadLaunches(bad)
<1>1. Source!Adapter = Adapters
  BY DEF Source!Adapter, Adapters
<1>2. CASE \/ Source!NewBlock \/ (\E late \in BOOLEAN : Source!BeginCycle(late)) \/ Source!FixedBlock
           \/ Source!AbandonCycle \/ Source!LaunchReadFails \/ Source!StageFails \/ Source!ChainWriteFails
  <2>1. mem' = mem
    BY <1>2 DEF Source!NewBlock, Source!BeginCycle, Source!FixedBlock, Source!AbandonCycle, Source!LaunchReadFails,
                Source!StageFails, Source!ChainWriteFails
  <2> QED
    BY <1>2, <2>1, Zenon DEF SourceSteps
<1>3. CASE \/ Source!WriteProjection \/ Source!CommitCursors \/ Source!CommitFails \/ Source!HotAdvance \/ Source!HotFails
  <2>1. mem' = mem
    BY <1>3 DEF Source!WriteProjection, Source!CommitCursors, Source!CommitFails, Source!HotAdvance, Source!HotFails
  <2> QED
    BY <1>3, <2>1, Zenon DEF SourceSteps
<1>4. CASE \/ Source!RefreshCatalog \/ Source!PlanLaunches \/ Source!ReadPools \/ Source!ReadChain
           \/ Source!HotIngest \/ Source!Restart
  BY <1>4, RefreshWrites, PlanWrites, PoolsWrites, ChainWrites, PollWrites, RestartWrites, Zenon DEF SourceSteps
<1> QED
  BY <1>1, <1>2, <1>3, <1>4, Zenon DEF Source!SourceNext

MemTypes == IsMem(mem) /\ mem.cursors \in [CursorNames -> Int]
DiskTypes ==
  /\ disk = [launches |-> disk.launches, pools |-> disk.pools, pair |-> disk.pair, cursors |-> disk.cursors, hot |-> disk.hot]
  /\ disk.cursors \in [CursorNames -> Int]
CheckpointTypes == checkpoint = << >> \/ (checkpoint = <<checkpoint[1]>> /\ checkpoint[1] \in [CursorNames -> Int])
IsCycle(c) ==
  c = [pc |-> c.pc, fixed |-> c.fixed, batch |-> c.batch, left |-> c.left, found |-> c.found, changed |-> c.changed]
CycleTypes ==
  /\ IsCycle(sourceCycle) /\ head \in Nat /\ sourceCycle.fixed \in Nat /\ sourceCycle.batch \in Nat
  /\ sourceCycle.pc # "idle" => checkpoint # << >>
PollTypes == hot = [next |-> hot.next, pc |-> hot.pc, found |-> hot.found, pair |-> hot.pair]

LEMMA SourceTypesParts == SourceTypes <=> MemTypes /\ DiskTypes /\ CheckpointTypes /\ CycleTypes /\ PollTypes
  BY DEF SourceTypes, IsCycle, MemTypes, DiskTypes, CheckpointTypes, CycleTypes, PollTypes

(* What a step does to the cycle. *)
CycleIs(pc, fixed, batch, left) ==
  /\ IsCycle(sourceCycle') /\ sourceCycle'.pc = pc /\ sourceCycle'.fixed = fixed /\ sourceCycle'.batch = batch
  /\ sourceCycle'.left = left
Keeps(pc, batch) == CycleIs(pc, sourceCycle.fixed, batch, sourceCycle.left) /\ sourceCycle'.changed = sourceCycle.changed

LEMMA CycleBegins ==
  ASSUME NEW late \in BOOLEAN, Source!BeginCycle(late)
  PROVE  /\ CycleIs("refresh", 0, 0, << >>) \/ CycleIs("fixed", 0, 0, << >>)
         /\ sourceCycle'.changed = FALSE /\ checkpoint' # << >> /\ head' = head
<1>1. PICK p : p = IF late \/ refresh THEN "refresh" ELSE "fixed"
  OBVIOUS
<1>2. p = "refresh" \/ p = "fixed"
  BY <1>1
<1>3. sourceCycle' = [Source!Idle EXCEPT !.pc = p]
  BY <1>1 DEF Source!BeginCycle
<1>4. sourceCycle' = [pc |-> p, fixed |-> 0, batch |-> 0, left |-> << >>, found |-> FALSE, changed |-> FALSE]
  BY <1>3 DEF Source!Idle
<1>5. checkpoint' # << >> /\ head' = head
  BY DEF Source!BeginCycle
<1> QED
  BY <1>2, <1>4, <1>5 DEF CycleIs, IsCycle

LEMMA CycleEnds ==
  ASSUME sourceCycle' = Source!Idle
  PROVE  CycleIs("idle", 0, 0, << >>) /\ sourceCycle'.changed = FALSE
  BY DEF CycleIs, IsCycle, Source!Idle

LEMMA CycleGoesOn ==
  ASSUME CycleTypes
  PROVE  /\ Source!RefreshCatalog => Keeps("fixed", sourceCycle.batch)
         /\ Source!FixedBlock => /\ CycleIs("launches", head, sourceCycle.batch, sourceCycle.left)
                                 /\ sourceCycle'.changed = sourceCycle.changed
         /\ Source!LaunchReadFails => /\ CycleIs("pools", sourceCycle.fixed, 0, << >>)
                                      /\ sourceCycle'.changed = sourceCycle.changed
         /\ Source!ReadPools => Keeps("pools", sourceCycle.batch + 1) \/ Keeps("chain", 0)
         /\ Source!ReadChain => Keeps("chain", sourceCycle.batch + 1) \/ Keeps("project", sourceCycle.batch)
         /\ Source!StageFails => Keeps("chain", 0) \/ Keeps("project", 0)
         /\ Source!ChainWriteFails => Keeps("project", sourceCycle.batch)
         /\ Source!WriteProjection => Keeps("cursors", sourceCycle.batch)
<1> USE DEF CycleTypes, CycleIs, Keeps, IsCycle
<1>1. Source!RefreshCatalog => Keeps("fixed", sourceCycle.batch)
  BY DEF Source!RefreshCatalog
<1>2. Source!FixedBlock => /\ CycleIs("launches", head, sourceCycle.batch, sourceCycle.left)
                          /\ sourceCycle'.changed = sourceCycle.changed
  BY DEF Source!FixedBlock
<1>3. Source!LaunchReadFails => /\ CycleIs("pools", sourceCycle.fixed, 0, << >>)
                               /\ sourceCycle'.changed = sourceCycle.changed
  BY DEF Source!LaunchReadFails
<1>4. ASSUME Source!ReadPools PROVE Keeps("pools", sourceCycle.batch + 1) \/ Keeps("chain", 0)
  <2>1. sourceCycle.pc = "pools"
    BY <1>4 DEF Source!ReadPools
  <2>2. (\E x : sourceCycle' = [sourceCycle EXCEPT !.batch = @ + 1, !.found = x])
         \/ sourceCycle' = [sourceCycle EXCEPT !.pc = "chain", !.batch = 0, !.found = FALSE]
    BY <1>4, Zenon DEF Source!ReadPools
  <2> QED
    BY <2>1, <2>2
<1>5. ASSUME Source!ReadChain PROVE Keeps("chain", sourceCycle.batch + 1) \/ Keeps("project", sourceCycle.batch)
  <2>1. sourceCycle.pc = "chain"
    BY <1>5 DEF Source!ReadChain
  <2>2. (\E x : sourceCycle' = [sourceCycle EXCEPT !.batch = @ + 1, !.found = x])
         \/ sourceCycle' = [sourceCycle EXCEPT !.pc = "project"]
    BY <1>5, Zenon DEF Source!ReadChain
  <2> QED
    BY <2>1, <2>2
<1>6. ASSUME Source!StageFails PROVE Keeps("chain", 0) \/ Keeps("project", 0)
  <2>1. PICK p : p = IF sourceCycle.pc = "pools" THEN "chain" ELSE "project"
    OBVIOUS
  <2>2. sourceCycle' = [sourceCycle EXCEPT !.pc = p, !.batch = 0, !.found = FALSE]
    BY <1>6, <2>1 DEF Source!StageFails
  <2> QED
    BY <2>1, <2>2
<1>7. Source!ChainWriteFails => Keeps("project", sourceCycle.batch)
  BY DEF Source!ChainWriteFails
<1>8. Source!WriteProjection => Keeps("cursors", sourceCycle.batch)
  BY DEF Source!WriteProjection
<1> HIDE DEF CycleTypes, CycleIs, Keeps, IsCycle
<1> QED
  BY <1>1, <1>2, <1>3, <1>4, <1>5, <1>6, <1>7, <1>8

LEMMA CyclePlans ==
  ASSUME CycleTypes, Source!PlanLaunches
  PROVE  \/ /\ CycleIs("launches", sourceCycle.fixed, sourceCycle.batch + 1, Source!groups)
            /\ sourceCycle'.changed = sourceCycle.changed /\ sourceCycle.batch < Batches /\ Source!active # {}
         \/ /\ CycleIs("pools", sourceCycle.fixed, 0, << >>) /\ sourceCycle'.changed = sourceCycle.changed
            /\ ~(sourceCycle.batch < Batches /\ Source!active # {})
<1>1. sourceCycle.pc = "launches" /\ sourceCycle.left = << >>
  BY DEF Source!PlanLaunches
<1>2. \/ /\ sourceCycle' = [sourceCycle EXCEPT !.batch = @ + 1, !.left = Source!groups]
         /\ sourceCycle.batch < Batches /\ Source!active # {}
      \/ /\ sourceCycle' = [sourceCycle EXCEPT !.pc = "pools", !.batch = 0]
         /\ ~(sourceCycle.batch < Batches /\ Source!active # {})
  BY Zenon DEF Source!PlanLaunches
<1>3. PICK g : g = Source!groups
  OBVIOUS
<1> QED
  BY <1>1, <1>2, <1>3 DEF CycleTypes, CycleIs, IsCycle

LEMMA CycleReads ==
  ASSUME CycleTypes, NEW bad, Source!ReadLaunches(bad)
  PROVE  CycleIs("launches", sourceCycle.fixed, sourceCycle.batch, Tail(sourceCycle.left))
<1>1. sourceCycle.pc = "launches"
  BY DEF Source!ReadLaunches
<1>2. \E x : sourceCycle' = [sourceCycle EXCEPT !.left = Tail(@), !.changed = x]
  BY Zenon DEF Source!ReadLaunches
<1> QED
  BY <1>1, <1>2 DEF CycleTypes, CycleIs, IsCycle

LEMMA SourceTyped ==
  ASSUME SourceTypes, LeftInv, Source!SourceNext
  PROVE  SourceTypes'
<1>1. MemTypes /\ DiskTypes /\ CheckpointTypes /\ CycleTypes /\ PollTypes
  BY SourceTypesParts
<1>2. MemTypes'
  <2>1. CASE SourceSteps
    BY <1>1, <2>1 DEF SourceSteps, MemTypes, RefreshEffect, PlanEffect, PoolsEffect, ChainEffect, PollEffect, RestartEffect,
                      SameLaunches
  <2>2. CASE \E bad \in SUBSET Adapters : Source!ReadLaunches(bad)
    BY <2>2, LaunchesWrites DEF LaunchesEffect, MemTypes, LeftInv
  <2> QED
    BY <2>1, <2>2, SourceMoves
<1>3. Durable \in [CursorNames -> Int]
  BY <1>1 DEF Durable, Source!durableCursors, MemTypes, CheckpointTypes
<1>4. DiskTypes'
  <2>1. CASE disk' = disk
    BY <1>1, <2>1 DEF DiskTypes
  <2>2. CASE Source!AbandonCycle \/ Source!HotAdvance
    BY <1>1, <1>3, <2>2 DEF DiskTypes, Source!AbandonCycle, Source!HotAdvance, Durable
  <2>3. CASE Source!ReadChain \/ Source!WriteProjection \/ Source!CommitCursors
    BY <1>1, <2>3 DEF DiskTypes, MemTypes, Source!ReadChain, Source!WriteProjection, Source!CommitCursors
  <2>4. \A bad : Source!ReadLaunches(bad) => disk' = disk
    BY DEF Source!ReadLaunches
  <2>5. SourceSteps => disk' = disk \/ Source!AbandonCycle \/ Source!HotAdvance \/ Source!ReadChain \/ Source!WriteProjection
                       \/ Source!CommitCursors
    BY DEF SourceSteps, Source!NewBlock, Source!BeginCycle, Source!FixedBlock, Source!LaunchReadFails, Source!StageFails,
           Source!ChainWriteFails, Source!CommitFails, Source!HotFails, Source!RefreshCatalog, Source!PlanLaunches,
           Source!ReadPools, Source!HotIngest, Source!Restart
  <2> QED
    BY <2>1, <2>2, <2>3, <2>4, <2>5, SourceMoves
<1>5. checkpoint' = checkpoint \/ checkpoint' = << >> \/ (checkpoint' = <<mem.cursors>> /\ mem' = mem)
  <2>1. \A bad : Source!ReadLaunches(bad) => checkpoint' = checkpoint
    BY DEF Source!ReadLaunches
  <2>2. SourceSteps => checkpoint' = checkpoint \/ checkpoint' = << >> \/ (checkpoint' = <<mem.cursors>> /\ mem' = mem)
    BY DEF SourceSteps, Source!NewBlock, Source!BeginCycle, Source!FixedBlock, Source!LaunchReadFails, Source!StageFails,
           Source!ChainWriteFails, Source!CommitFails, Source!HotFails, Source!RefreshCatalog, Source!PlanLaunches,
           Source!ReadPools, Source!HotIngest, Source!Restart, Source!AbandonCycle, Source!HotAdvance, Source!ReadChain,
           Source!WriteProjection, Source!CommitCursors
  <2> QED
    BY <2>1, <2>2, SourceMoves
<1>6. CheckpointTypes'
  BY <1>1, <1>5 DEF CheckpointTypes, MemTypes
<1>7. PollTypes'
  <2>1. CASE hot' = hot
    BY <1>1, <2>1 DEF PollTypes
  <2>2. CASE Source!HotAdvance \/ Source!HotFails \/ Source!Restart
    BY <1>1, <2>2 DEF PollTypes, Source!HotAdvance, Source!HotFails, Source!Restart
  <2>3. CASE PollEffect
    BY <1>1, <2>3 DEF PollTypes, PollEffect
  <2>4. \A bad : Source!ReadLaunches(bad) => hot' = hot
    BY DEF Source!ReadLaunches
  <2>5. SourceSteps => hot' = hot \/ PollEffect \/ Source!HotAdvance \/ Source!HotFails \/ Source!Restart
    BY DEF SourceSteps, Source!NewBlock, Source!BeginCycle, Source!FixedBlock, Source!LaunchReadFails, Source!StageFails,
           Source!ChainWriteFails, Source!CommitFails, Source!RefreshCatalog, Source!PlanLaunches,
           Source!ReadPools, Source!AbandonCycle, Source!ReadChain, Source!WriteProjection, Source!CommitCursors
  <2> QED
    BY <2>1, <2>2, <2>3, <2>4, <2>5, SourceMoves
<1>8. head' \in Nat
  <2>1. head' = head \/ Source!NewBlock
    <3>1. \A bad : Source!ReadLaunches(bad) => head' = head
      BY DEF Source!ReadLaunches
    <3>2. SourceSteps => head' = head \/ Source!NewBlock
      BY DEF SourceSteps, Source!BeginCycle, Source!FixedBlock, Source!LaunchReadFails, Source!StageFails,
             Source!ChainWriteFails, Source!CommitFails, Source!HotFails, Source!RefreshCatalog, Source!PlanLaunches,
             Source!ReadPools, Source!HotIngest, Source!Restart, Source!AbandonCycle, Source!HotAdvance, Source!ReadChain,
             Source!WriteProjection, Source!CommitCursors
    <3> QED
      BY <3>1, <3>2, SourceMoves
  <2> QED
    BY <1>1, <2>1 DEF CycleTypes, Source!NewBlock
<1>9. CycleTypes'
  <2>1. CASE sourceCycle' = Source!Idle
    BY <1>8, <2>1, CycleEnds DEF CycleTypes, CycleIs
  <2>2. CASE sourceCycle' = sourceCycle /\ checkpoint' = checkpoint
    BY <1>1, <1>8, <2>2 DEF CycleTypes
  <2>3. CASE \E late \in BOOLEAN : Source!BeginCycle(late)
    <3>1. PICK late \in BOOLEAN : Source!BeginCycle(late)
      BY <2>3
    <3>2. /\ CycleIs("refresh", 0, 0, << >>) \/ CycleIs("fixed", 0, 0, << >>)
          /\ checkpoint' # << >>
      BY <3>1, CycleBegins, Zenon
    <3> QED
      BY <1>8, <3>2 DEF CycleTypes, CycleIs
  <2>4. CASE \/ Source!RefreshCatalog \/ Source!FixedBlock \/ Source!LaunchReadFails \/ Source!ReadPools \/ Source!ReadChain
             \/ Source!StageFails \/ Source!ChainWriteFails \/ Source!WriteProjection
    <3>1. checkpoint' = checkpoint /\ sourceCycle.pc # "idle"
      BY <2>4 DEF Source!RefreshCatalog, Source!FixedBlock, Source!LaunchReadFails, Source!ReadPools, Source!ReadChain,
                  Source!StageFails, Source!ChainWriteFails, Source!WriteProjection, Source!readsPools, Source!readsChain
    <3>2. IsCycle(sourceCycle') /\ sourceCycle'.fixed \in {sourceCycle.fixed, head}
          /\ sourceCycle'.batch \in {0, sourceCycle.batch, sourceCycle.batch + 1}
      BY <1>1, <2>4, CycleGoesOn DEF CycleIs, Keeps
    <3> QED
      BY <1>1, <1>8, <3>1, <3>2 DEF CycleTypes
  <2>5. CASE Source!PlanLaunches
    <3>1. checkpoint' = checkpoint /\ sourceCycle.pc # "idle"
      BY <2>5 DEF Source!PlanLaunches
    <3>2. IsCycle(sourceCycle') /\ sourceCycle'.fixed = sourceCycle.fixed
          /\ sourceCycle'.batch \in {0, sourceCycle.batch + 1}
      BY <1>1, <2>5, CyclePlans DEF CycleIs
    <3> QED
      BY <1>1, <1>8, <3>1, <3>2 DEF CycleTypes
  <2>6. CASE \E bad \in SUBSET Adapters : Source!ReadLaunches(bad)
    <3>1. checkpoint' = checkpoint /\ sourceCycle.pc # "idle"
      BY <2>6 DEF Source!ReadLaunches
    <3>2. IsCycle(sourceCycle') /\ sourceCycle'.fixed = sourceCycle.fixed /\ sourceCycle'.batch = sourceCycle.batch
      BY <1>1, <2>6, CycleReads DEF CycleIs
    <3> QED
      BY <1>1, <1>8, <3>1, <3>2 DEF CycleTypes
  <2>7. \/ Source!NewBlock \/ Source!HotAdvance \/ Source!HotFails \/ Source!HotIngest
        => sourceCycle' = sourceCycle /\ checkpoint' = checkpoint
    BY DEF Source!NewBlock, Source!HotAdvance, Source!HotFails, Source!HotIngest
  <2>8. \/ Source!AbandonCycle \/ Source!CommitCursors \/ Source!CommitFails \/ Source!Restart => sourceCycle' = Source!Idle
    BY DEF Source!AbandonCycle, Source!CommitCursors, Source!CommitFails, Source!Restart
  <2> QED
    BY <2>1, <2>2, <2>3, <2>4, <2>5, <2>6, <2>7, <2>8, SourceMoves, Zenon DEF SourceSteps
<1> QED
  BY <1>2, <1>4, <1>6, <1>7, <1>9 DEF SourceTypes, IsCycle, MemTypes, DiskTypes, CheckpointTypes, CycleTypes, PollTypes

LEMMA ShortSequences ==
  /\ \A x, y : <<x>> \o <<y>> = <<x, y>>
  /\ \A x : <<x>> \o << >> = <<x>> /\ << >> \o <<x>> = <<x>>
  /\ << >> \o << >> = << >>
  /\ \A x : Tail(<<x>>) = << >>
  /\ \A x, y : Tail(<<x, y>>) = <<y>>
<1>1. ASSUME NEW x, NEW y PROVE <<x>> \o <<y>> = <<x, y>>
  <2> DEFINE T == {x, y}
  <2>1. <<x>> \in Seq(T) /\ <<y>> \in Seq(T) /\ <<x, y>> \in Seq(T)
    OBVIOUS
  <2>2. <<x>> \o <<y>> \in Seq(T)
    BY <2>1
  <2>3. Len(<<x>> \o <<y>>) = 2 /\ (<<x>> \o <<y>>)[1] = x /\ (<<x>> \o <<y>>)[2] = y
    BY <2>1
  <2>4. Len(<<x, y>>) = 2 /\ <<x, y>>[1] = x /\ <<x, y>>[2] = y
    OBVIOUS
  <2> HIDE DEF T
  <2>5. \A i \in 1..2 : (<<x>> \o <<y>>)[i] = <<x, y>>[i]
    BY <2>3, <2>4
  <2> QED
    BY <2>1, <2>2, <2>3, <2>4, <2>5, SeqEqual
<1>2. \A x : <<x>> \o << >> = <<x>> /\ << >> \o <<x>> = <<x>>
  OBVIOUS
<1>3. << >> \o << >> = << >>
  OBVIOUS
<1>4. \A x : Tail(<<x>>) = << >>
  OBVIOUS
<1>5. \A x, y : Tail(<<x, y>>) = <<y>>
  OBVIOUS
<1> QED
  BY <1>1, <1>2, <1>3, <1>4, <1>5

LEMMA GroupsOrder ==
  ASSUME SourceTypes
  PROVE  /\ Source!groups \in {<< >>, <<Adapters>>, <<{"long"}>>, <<{"doppler"}>>, <<{"long"}, {"doppler"}>>}
         /\ Source!groups = <<Adapters>> => mem.cursors["long"] = mem.cursors["doppler"]
<1>1. CASE Source!active = Source!Adapter /\ mem.cursors.long = mem.cursors.doppler
  BY <1>1 DEF Source!groups, Source!Adapter, Adapters
<1>2. CASE ~(Source!active = Source!Adapter /\ mem.cursors.long = mem.cursors.doppler)
  <2>1. Source!groups = (IF "long" \in Source!active THEN <<{"long"}>> ELSE << >>)
                        \o (IF "doppler" \in Source!active THEN <<{"doppler"}>> ELSE << >>)
    BY <1>2 DEF Source!groups
  <2>2. <<{"long"}>> \o <<{"doppler"}>> = <<{"long"}, {"doppler"}>> /\ <<{"long"}>> \o << >> = <<{"long"}>>
        /\ << >> \o <<{"doppler"}>> = <<{"doppler"}>> /\ << >> \o << >> = << >>
    BY ShortSequences, Zenon
  <2>3. {"long"} # Adapters /\ {"doppler"} # Adapters
    BY DEF Adapters
  <2>4. Source!groups \in {<< >>, <<{"long"}>>, <<{"doppler"}>>, <<{"long"}, {"doppler"}>>}
    BY <2>1, <2>2
  <2>5. <<Adapters>> \notin {<< >>, <<{"long"}>>, <<{"doppler"}>>, <<{"long"}, {"doppler"}>>}
    BY <2>3
  <2> QED
    BY <2>4, <2>5
<1> QED
  BY <1>1, <1>2

(* Only a read of launches moves their cursors, and a restart takes them from disk. *)
LaunchCursorsStay == mem'.cursors["long"] = mem.cursors["long"] /\ mem'.cursors["doppler"] = mem.cursors["doppler"]

LEMMA SourceLeft == ASSUME SourceTypes, LeftInv, Source!SourceNext PROVE LeftInv'
<1>1. CycleTypes /\ sourceCycle.changed \in BOOLEAN
  BY SourceTypesParts DEF LeftInv
<1>2. LaunchCursorsStay \/ Source!Restart \/ \E bad \in SUBSET Adapters : Source!ReadLaunches(bad)
  BY SourceMoves DEF SourceSteps, LaunchCursorsStay, RefreshEffect, PlanEffect, PoolsEffect, ChainEffect, PollEffect,
                     SameLaunches, CursorNames
<1>3. sourceCycle'.left = << >> /\ sourceCycle'.changed \in BOOLEAN => LeftInv'
  BY DEF LeftInv
<1>4. CASE sourceCycle' = Source!Idle
  BY <1>3, <1>4, CycleEnds DEF CycleIs
<1>5. CASE sourceCycle' = sourceCycle /\ LaunchCursorsStay
  BY <1>5 DEF LeftInv, LaunchCursorsStay
<1>6. CASE \E late \in BOOLEAN : Source!BeginCycle(late)
  <2>1. PICK late \in BOOLEAN : Source!BeginCycle(late)
    BY <1>6
  <2>2. sourceCycle'.left = << >> /\ sourceCycle'.changed = FALSE
    BY <2>1, CycleBegins DEF CycleIs
  <2> QED
    BY <1>3, <2>2
<1>7. CASE \/ Source!RefreshCatalog \/ Source!FixedBlock \/ Source!LaunchReadFails \/ Source!ReadPools \/ Source!ReadChain
           \/ Source!StageFails \/ Source!ChainWriteFails \/ Source!WriteProjection
  <2>1. sourceCycle.pc # "launches" \/ Source!LaunchReadFails
    BY <1>7 DEF Source!RefreshCatalog, Source!FixedBlock, Source!ReadPools, Source!ReadChain,
                Source!StageFails, Source!ChainWriteFails, Source!WriteProjection, Source!readsPools, Source!readsChain
  <2>2. sourceCycle.left = << >> \/ Source!LaunchReadFails
    BY <2>1 DEF LeftInv
  <2>3. sourceCycle'.left = << >> /\ sourceCycle'.changed = sourceCycle.changed
    BY <1>1, <1>7, <2>2, CycleGoesOn DEF CycleIs, Keeps
  <2> QED
    BY <1>1, <1>3, <2>3
<1>8. CASE Source!PlanLaunches
  <2>1. mem' .cursors = mem.cursors
    BY <1>8, PlanWrites DEF PlanEffect, SameLaunches
  <2>2. CASE sourceCycle'.left = << >> /\ sourceCycle'.changed = sourceCycle.changed
    BY <1>1, <1>3, <2>2
  <2>3. CASE sourceCycle'.pc = "launches" /\ sourceCycle'.left = Source!groups /\ sourceCycle'.changed = sourceCycle.changed
    BY <1>1, <2>1, <2>3, GroupsOrder DEF LeftInv
  <2> QED
    BY <1>1, <1>8, <2>2, <2>3, CyclePlans DEF CycleIs
<1>9. CASE \E bad \in SUBSET Adapters : Source!ReadLaunches(bad)
  <2>1. PICK bad \in SUBSET Adapters : Source!ReadLaunches(bad)
    BY <1>9
  <2>2. sourceCycle'.pc = "launches" /\ sourceCycle'.left = Tail(sourceCycle.left)
    BY <1>1, <2>1, CycleReads DEF CycleIs
  <2>3. sourceCycle.left \in {<<Adapters>>, <<{"long"}>>, <<{"doppler"}>>, <<{"long"}, {"doppler"}>>}
    BY <2>1 DEF LeftInv, Source!ReadLaunches
  <2>4. sourceCycle'.left \in {<< >>, <<{"doppler"}>>}
    <3>1. CASE sourceCycle.left = <<{"long"}, {"doppler"}>>
      BY <2>2, <3>1, ShortSequences
    <3>2. CASE sourceCycle.left \in {<<Adapters>>, <<{"long"}>>, <<{"doppler"}>>}
      <4>1. PICK x : sourceCycle.left = <<x>>
        BY <3>2
      <4> QED
        BY <2>2, <4>1, ShortSequences
    <3> QED
      BY <2>3, <3>1, <3>2
  <2>5. <<{"doppler"}>> # <<Adapters>>
    <3>1. {"doppler"} # Adapters
      BY DEF Adapters
    <3> QED
      BY <3>1
  <2>6. sourceCycle'.changed \in BOOLEAN
    <3>1. PICK x : x = (sourceCycle.changed \/ {l \in SourceLaunch : /\ l.by \in Head(sourceCycle.left) \ bad
             /\ l.block \in mem.cursors[CHOOSE a \in Head(sourceCycle.left) : TRUE]
                            ..Source!rangeEnd(mem.cursors[CHOOSE a \in Head(sourceCycle.left) : TRUE], sourceCycle.fixed)} # {})
      OBVIOUS
    <3>2. sourceCycle' = [sourceCycle EXCEPT !.left = Tail(@), !.changed = x]
      BY <2>1, <3>1 DEF Source!ReadLaunches
    <3>3. x \in BOOLEAN
      BY <1>1, <3>1, Zenon
    <3> QED
      BY <1>1, <3>2, <3>3 DEF CycleTypes, IsCycle
  <2> QED
    BY <2>2, <2>4, <2>5, <2>6 DEF LeftInv
<1>10. \/ Source!NewBlock \/ Source!HotAdvance \/ Source!HotFails \/ Source!HotIngest => sourceCycle' = sourceCycle /\ LaunchCursorsStay
  <2>1. \/ Source!NewBlock \/ Source!HotAdvance \/ Source!HotFails \/ Source!HotIngest => sourceCycle' = sourceCycle
    BY DEF Source!NewBlock, Source!HotAdvance, Source!HotFails, Source!HotIngest
  <2>2. Source!NewBlock \/ Source!HotAdvance \/ Source!HotFails => LaunchCursorsStay
    BY DEF Source!NewBlock, Source!HotAdvance, Source!HotFails, LaunchCursorsStay
  <2>3. Source!HotIngest => LaunchCursorsStay
    BY PollWrites DEF PollEffect, SameLaunches, LaunchCursorsStay
  <2> QED
    BY <2>1, <2>2, <2>3
<1>11. \/ Source!AbandonCycle \/ Source!CommitCursors \/ Source!CommitFails \/ Source!Restart => sourceCycle' = Source!Idle
  BY DEF Source!AbandonCycle, Source!CommitCursors, Source!CommitFails, Source!Restart
<1> QED
  BY <1>4, <1>5, <1>6, <1>7, <1>8, <1>9, <1>10, <1>11, SourceMoves, Zenon DEF SourceSteps

(* Launches *)

LEMMA LaunchBlocks == \A l \in SourceLaunch : l.by \in {"long", "doppler"} /\ l.block \in Nat /\ l.block >= 1
  BY ServicesAssumption

LEMMA HasLaunchesOf ==
  ASSUME NEW c, NEW d, NEW L, NEW M, HasLaunches(c, L), L \subseteq M, d["long"] = c["long"], d["doppler"] = c["doppler"]
  PROVE  HasLaunches(d, M)
  BY LaunchBlocks DEF HasLaunches

(* The cursors a write of state.json carries change only with the memory's, at  *)
(* a commit, and at a restart.                                                  *)
LEMMA DurableStays ==
  ASSUME SourceTypes, SourceSteps, ~Source!CommitCursors, ~Source!Restart
  PROVE  Durable' = Durable \/ (checkpoint = << >> /\ Durable = mem.cursors /\ Durable' = mem'.cursors)
<1>1. CheckpointTypes
  BY SourceTypesParts
<1>2. checkpoint' = checkpoint \/ (\E late \in BOOLEAN : Source!BeginCycle(late) /\ mem' = mem)
  BY DEF SourceSteps, Source!NewBlock, Source!FixedBlock, Source!LaunchReadFails, Source!StageFails,
         Source!ChainWriteFails, Source!CommitFails, Source!HotFails, Source!RefreshCatalog, Source!PlanLaunches,
         Source!ReadPools, Source!HotIngest, Source!AbandonCycle, Source!HotAdvance, Source!ReadChain,
         Source!WriteProjection
<1>3. CASE checkpoint' = checkpoint
  BY <1>3 DEF Durable, Source!durableCursors
<1>4. CASE \E late \in BOOLEAN : Source!BeginCycle(late) /\ mem' = mem
  <2>1. checkpoint' = IF checkpoint = << >> THEN <<mem.cursors>> ELSE checkpoint
    BY <1>4 DEF Source!BeginCycle
  <2>2. CASE checkpoint = << >>
    <3>1. checkpoint' = <<mem.cursors>> /\ <<mem.cursors>> # << >>
      BY <2>1, <2>2
    <3>2. Durable' = mem.cursors
      BY <3>1 DEF Durable, Source!durableCursors
    <3> QED
      BY <1>4, <2>2, <3>2 DEF Durable, Source!durableCursors
  <2>3. CASE checkpoint # << >>
    BY <1>4, <2>1, <2>3 DEF Durable, Source!durableCursors
  <2> QED
    BY <2>2, <2>3
<1> QED
  BY <1>2, <1>3, <1>4

LEMMA LaunchesKeptAlone ==
  ASSUME SourceTypes, LaunchInv, SourceSteps, ~Source!CommitCursors, ~Source!Restart, ~Source!WriteProjection
  PROVE  /\ mem'.launches = mem.launches /\ LaunchCursorsStay /\ disk'.launches = disk.launches
         /\ disk'.cursors \in {disk.cursors, Durable}
<1>1. mem'.launches = mem.launches /\ LaunchCursorsStay
  BY DEF SourceSteps, LaunchCursorsStay, RefreshEffect, PlanEffect, PoolsEffect, ChainEffect, PollEffect,
         SameLaunches, CursorNames
<1>2. CASE disk' = disk
  BY <1>1, <1>2
<1>3. CASE Source!AbandonCycle \/ Source!HotAdvance \/ Source!ReadChain
  <2>1. DiskTypes
    BY SourceTypesParts
  <2>2. \/ disk' = disk \/ disk' = [disk EXCEPT !.cursors = Durable] \/ disk' = [disk EXCEPT !.pair = mem.pair]
        \/ \E n : disk' = [disk EXCEPT !.cursors = Durable, !.hot = n]
    BY <1>3 DEF Source!AbandonCycle, Source!HotAdvance, Source!ReadChain, Durable
  <2> QED
    BY <1>1, <2>1, <2>2 DEF DiskTypes
<1>4. disk' = disk \/ Source!AbandonCycle \/ Source!HotAdvance \/ Source!ReadChain
  BY DEF SourceSteps, Source!NewBlock, Source!BeginCycle, Source!FixedBlock, Source!LaunchReadFails, Source!StageFails,
         Source!ChainWriteFails, Source!CommitFails, Source!HotFails, Source!RefreshCatalog, Source!PlanLaunches,
         Source!ReadPools, Source!HotIngest
<1> QED
  BY <1>2, <1>3, <1>4

CursorsPc == sourceCycle.pc = "cursors" => disk.launches = mem.launches /\ disk.pools = mem.pools

(* Only the write of the projection leads to the write of the cursors. *)
LEMMA CursorsNext ==
  ASSUME SourceTypes, SourceSteps, CursorsPc
  PROVE  CursorsPc'
<1>1. CycleTypes /\ DiskTypes
  BY SourceTypesParts
<1>2. CASE sourceCycle' = Source!Idle
  BY <1>2, CycleEnds DEF CycleIs, CursorsPc
<1>3. CASE Source!NewBlock
  BY <1>3 DEF Source!NewBlock, CursorsPc
<1>4. CASE Source!HotAdvance \/ Source!HotFails \/ Source!HotIngest
  BY <1>4 DEF Source!HotAdvance, Source!HotFails, Source!HotIngest, CursorsPc
<1>5. CASE Source!WriteProjection
  <2>1. disk' = [disk EXCEPT !.launches = mem.launches, !.pools = mem.pools] /\ mem' = mem
    BY <1>5 DEF Source!WriteProjection
  <2> QED
    BY <1>1, <2>1 DEF DiskTypes, CursorsPc
<1>6. CASE \E late \in BOOLEAN : Source!BeginCycle(late)
  <2>1. PICK late \in BOOLEAN : Source!BeginCycle(late)
    BY <1>6
  <2>2. sourceCycle'.pc # "cursors"
    BY <2>1, CycleBegins DEF CycleIs
  <2> QED
    BY <2>2 DEF CursorsPc
<1>7. CASE \/ Source!RefreshCatalog \/ Source!FixedBlock \/ Source!LaunchReadFails \/ Source!ReadPools \/ Source!ReadChain
           \/ Source!StageFails \/ Source!ChainWriteFails
  <2>1. sourceCycle'.pc # "cursors"
    BY <1>1, <1>7, CycleGoesOn DEF CycleIs, Keeps
  <2> QED
    BY <2>1 DEF CursorsPc
<1>8. CASE Source!PlanLaunches
  <2>1. sourceCycle'.pc # "cursors"
    BY <1>1, <1>8, CyclePlans DEF CycleIs
  <2> QED
    BY <2>1 DEF CursorsPc
<1>9. \/ Source!AbandonCycle \/ Source!CommitCursors \/ Source!CommitFails \/ Source!Restart => sourceCycle' = Source!Idle
  BY DEF Source!AbandonCycle, Source!CommitCursors, Source!CommitFails, Source!Restart
<1> QED
  BY <1>2, <1>3, <1>4, <1>5, <1>6, <1>7, <1>8, <1>9, Zenon DEF SourceSteps

LEMMA ReadsLaunches ==
  ASSUME SourceTypes, LeftInv, LaunchInv, NEW bad, Source!ReadLaunches(bad)
  PROVE  LaunchInv'
<1>1. PICK g, from, to : g \in {Adapters, {"long"}, {"doppler"}} /\ LaunchesEffect(g, g \ bad, from, to)
  <2>1. PICK g : g = Head(sourceCycle.left)
    OBVIOUS
  <2>2. g \in {Adapters, {"long"}, {"doppler"}} /\ \E from, to : LaunchesEffect(g, g \ bad, from, to)
    BY <2>1, LaunchesWrites
  <2> QED
    BY <2>2
<1>2. PICK G : G = g \ bad
  OBVIOUS
<1>3. G \subseteq g /\ LaunchesEffect(g, G, from, to)
  BY <1>1, <1>2
<1>4. from \in Int /\ to \in Int /\ mem.cursors \in [CursorNames -> Int]
  BY <1>3 DEF LaunchesEffect, SourceTypes
<1>5. disk' = disk /\ checkpoint' = checkpoint /\ checkpoint # << >>
  <2>1. CycleTypes
    BY SourceTypesParts
  <2> QED
    BY <2>1 DEF Source!ReadLaunches, CycleTypes
<1>6. Durable' = Durable
  BY <1>5 DEF Durable, Source!durableCursors
<1>7. mem.launches \subseteq mem'.launches
  BY <1>3 DEF LaunchesEffect
<1>8. HasLaunches(mem'.cursors, mem'.launches)
  <2> SUFFICES ASSUME NEW l \in SourceLaunch, l.block < mem'.cursors[l.by] PROVE l \in mem'.launches
    BY DEF HasLaunches
  <2>1. l.by \in CursorNames /\ l.block \in Nat
    BY LaunchBlocks DEF CursorNames
  <2>2. CASE l.by \notin G
    <3>1. mem'.cursors[l.by] = mem.cursors[l.by]
      BY <1>3, <2>1, <2>2 DEF LaunchesEffect
    <3> QED
      BY <1>7, <3>1 DEF LaunchInv, HasLaunches
  <2>3. CASE l.by \in G
    <3>1. mem'.cursors[l.by] = to + 1 /\ mem.cursors[l.by] = from
      BY <1>3, <2>1, <2>3 DEF LaunchesEffect
    <3>2. CASE l.block < from
      BY <1>7, <3>1, <3>2 DEF LaunchInv, HasLaunches
    <3>3. CASE ~(l.block < from)
      <4>1. l.block \in from..to
        BY <1>4, <2>1, <3>1, <3>3
      <4> QED
        BY <1>3, <2>3, <4>1 DEF LaunchesEffect
    <3> QED
      BY <3>2, <3>3
  <2> QED
    BY <2>2, <2>3
<1>9. sourceCycle'.pc = "launches"
  <2>1. CycleTypes
    BY SourceTypesParts
  <2> QED
    BY <2>1, CycleReads DEF CycleIs
<1> QED
  BY <1>5, <1>6, <1>7, <1>8, <1>9 DEF LaunchInv

LEMMA SourceKeepsLaunches ==
  ASSUME SourceTypes, LeftInv, LaunchInv, Source!SourceNext
  PROVE  LaunchInv'
<1>1. CASE \E bad \in SUBSET Adapters : Source!ReadLaunches(bad)
  BY <1>1, ReadsLaunches
<1>2. ASSUME SourceSteps PROVE CursorsPc'
  <2>1. CursorsPc
    BY DEF LaunchInv, CursorsPc
  <2> QED
    BY <1>2, <2>1, CursorsNext
<1>3. DiskTypes
  BY SourceTypesParts
<1>4. CASE SourceSteps /\ ~Source!CommitCursors /\ ~Source!Restart /\ ~Source!WriteProjection
  <2>1. /\ mem'.launches = mem.launches /\ LaunchCursorsStay /\ disk'.launches = disk.launches
        /\ disk'.cursors \in {disk.cursors, Durable}
    BY <1>4, LaunchesKeptAlone
  <2>2. HasLaunches(mem'.cursors, mem'.launches)
    BY <2>1, HasLaunchesOf DEF LaunchInv, LaunchCursorsStay
  <2>3. HasLaunches(disk'.cursors, disk'.launches)
    BY <2>1 DEF LaunchInv
  <2>4. HasLaunches(Durable', disk'.launches)
    <3>1. CASE Durable' = Durable
      BY <2>1, <3>1 DEF LaunchInv
    <3>2. CASE checkpoint = << >> /\ Durable = mem.cursors /\ Durable' = mem'.cursors
      BY <2>1, <3>2, HasLaunchesOf DEF LaunchInv, LaunchCursorsStay
    <3> QED
      BY <1>4, <3>1, <3>2, DurableStays
  <2> QED
    BY <1>2, <1>4, <2>1, <2>2, <2>3, <2>4 DEF LaunchInv, CursorsPc
<1>5. CASE SourceSteps /\ Source!WriteProjection
  <2>1. disk' = [disk EXCEPT !.launches = mem.launches, !.pools = mem.pools] /\ mem' = mem /\ checkpoint' = checkpoint
    BY <1>5 DEF Source!WriteProjection
  <2>2. disk'.launches = mem.launches /\ disk'.cursors = disk.cursors
    BY <1>3, <2>1 DEF DiskTypes
  <2>3. Durable' = Durable
    BY <2>1 DEF Durable, Source!durableCursors
  <2>4. HasLaunches(disk.cursors, mem.launches) /\ HasLaunches(Durable, mem.launches)
    BY HasLaunchesOf DEF LaunchInv
  <2> QED
    BY <1>2, <1>5, <2>1, <2>2, <2>3, <2>4 DEF LaunchInv, CursorsPc
<1>6. CASE SourceSteps /\ Source!CommitCursors
  <2>1. disk' = [disk EXCEPT !.cursors = mem.cursors] /\ mem' = mem /\ checkpoint' = << >> /\ sourceCycle.pc = "cursors"
    BY <1>6 DEF Source!CommitCursors
  <2>2. disk'.launches = mem.launches /\ disk'.cursors = mem.cursors
    BY <1>3, <2>1 DEF DiskTypes, LaunchInv
  <2>3. Durable' = mem.cursors
    BY <2>1 DEF Durable, Source!durableCursors
  <2> QED
    BY <1>2, <1>6, <2>1, <2>2, <2>3 DEF LaunchInv, CursorsPc
<1>7. CASE SourceSteps /\ Source!Restart
  <2>1. RestartEffect
    BY <1>7, RestartWrites
  <2>2. disk' = disk /\ checkpoint' = << >>
    BY <1>7 DEF Source!Restart
  <2>3. Durable' = mem'.cursors
    BY <2>2 DEF Durable, Source!durableCursors
  <2>4. mem'.launches = disk.launches /\ mem'.cursors["long"] = disk.cursors["long"]
        /\ mem'.cursors["doppler"] = disk.cursors["doppler"]
    BY <2>1 DEF RestartEffect, CursorNames
  <2>5. HasLaunches(mem'.cursors, disk.launches)
    BY <2>4, HasLaunchesOf DEF LaunchInv
  <2> QED
    BY <1>2, <1>7, <2>2, <2>3, <2>4, <2>5 DEF LaunchInv, CursorsPc
<1> QED
  BY <1>1, <1>4, <1>5, <1>6, <1>7, SourceMoves, Zenon

(* The requested refresh *)

LEMMA SourceKeepsRefresh ==
  ASSUME SourceTypes, LeftInv, RefreshInv, Source!SourceNext
  PROVE  RefreshInv'
<1>1. PollTypes
  BY SourceTypesParts
<1>2. CASE Source!RefreshCatalog /\ RefreshEffect
  BY <1>2 DEF Source!RefreshCatalog, RefreshEffect, RefreshInv
<1>3. CASE /\ refresh' = refresh /\ ingested' = ingested /\ hot' = hot /\ mem.pair \subseteq mem'.pair
           /\ (mem'.graph = mem.graph \/ mem'.graph = mem'.pair)
  BY <1>3 DEF RefreshInv
<1>4. CASE Source!HotIngest /\ PollEffect
  <2>1. hot'.pair = mem'.pair \ mem.pair /\ (hot'.found <=> mem' # mem)
    <3>1. PICK f : f = (mem' # mem)
      OBVIOUS
    <3>2. hot' = [hot EXCEPT !.pc = "final", !.found = f, !.pair = mem'.pair \ mem.pair]
      BY <1>4, <3>1 DEF PollEffect
    <3>3. hot'.pair = mem'.pair \ mem.pair /\ hot'.found = f
      BY <1>1, <3>2 DEF PollTypes
    <3> QED
      BY <3>1, <3>3
  <2>2. hot'.pair # {} => hot'.found
    BY <2>1
  <2>3. refresh' = refresh /\ ingested' = ingested
    BY <1>4 DEF Source!HotIngest
  <2>4. mem'.graph = mem.graph /\ mem.pair \subseteq mem'.pair
    BY <1>4 DEF PollEffect
  <2> QED
    BY <2>1, <2>2, <2>3, <2>4 DEF RefreshInv
<1>5. CASE Source!HotAdvance
  <2>1. hot' = [next |-> hot.next + 1, pc |-> "idle", found |-> FALSE, pair |-> {}] /\ mem' = mem
        /\ ingested' = ingested \cup hot.pair
    BY <1>5 DEF Source!HotAdvance
  <2>2. refresh' <=> refresh \/ hot.found
    BY <1>5, Zenon DEF Source!HotAdvance, Source!requested
  <2>3. hot'.pair = {}
    BY <2>1
  <2>4. CASE hot.pair = {}
    BY <2>1, <2>2, <2>3, <2>4 DEF RefreshInv
  <2>5. CASE hot.pair # {}
    BY <2>1, <2>2, <2>3, <2>5 DEF RefreshInv
  <2> QED
    BY <2>4, <2>5
<1>6. CASE Source!HotFails
  <2>1. hot'.pair = {} /\ mem' = mem /\ refresh' = refresh /\ ingested' = ingested
    BY <1>1, <1>6 DEF Source!HotFails, PollTypes
  <2> QED
    BY <2>1 DEF RefreshInv
<1>7. CASE Source!Restart
  BY <1>7 DEF Source!Restart, RefreshInv
<1>8. CASE \E bad \in SUBSET Adapters : Source!ReadLaunches(bad)
  <2>1. mem'.pair = mem.pair /\ mem'.graph = mem.graph
    BY <1>8, LaunchesWrites DEF LaunchesEffect
  <2>2. refresh' = refresh /\ ingested' = ingested /\ hot' = hot
    BY <1>8 DEF Source!ReadLaunches
  <2> QED
    BY <1>3, <2>1, <2>2
<1>9. CASE \/ mem' = mem /\ \/ Source!NewBlock \/ (\E late \in BOOLEAN : Source!BeginCycle(late)) \/ Source!FixedBlock
                            \/ Source!AbandonCycle \/ Source!LaunchReadFails \/ Source!StageFails \/ Source!ChainWriteFails
                            \/ Source!WriteProjection \/ Source!CommitCursors \/ Source!CommitFails
           \/ Source!PlanLaunches /\ PlanEffect
           \/ Source!ReadPools /\ PoolsEffect
           \/ Source!ReadChain /\ ChainEffect
  <2>1. refresh' = refresh /\ ingested' = ingested /\ hot' = hot
    BY <1>9 DEF Source!NewBlock, Source!BeginCycle, Source!FixedBlock, Source!LaunchReadFails, Source!StageFails,
         Source!ChainWriteFails, Source!CommitFails, Source!PlanLaunches,
         Source!ReadPools, Source!AbandonCycle, Source!ReadChain, Source!WriteProjection, Source!CommitCursors
  <2>2. mem.pair \subseteq mem'.pair /\ (mem'.graph = mem.graph \/ mem'.graph = mem'.pair \/ mem'.graph = mem.pair)
    BY <1>9 DEF PlanEffect, PoolsEffect, ChainEffect
  <2> QED
    BY <2>1, <2>2 DEF RefreshInv
<1> QED
  BY <1>2, <1>4, <1>5, <1>6, <1>7, <1>8, <1>9, SourceMoves, Zenon DEF SourceSteps

LEMMA SourceKeeps == SourceInv /\ [Source!SourceNext]_sourceVars => SourceInv'
<1> SUFFICES ASSUME SourceInv, [Source!SourceNext]_sourceVars PROVE SourceInv'
  OBVIOUS
<1>1. CASE Source!SourceNext
  BY <1>1, SourceTyped, SourceLeft, SourceKeepsLaunches, SourceKeepsRefresh DEF SourceInv
<1>2. CASE UNCHANGED sourceVars
  <2>1. /\ head' = head /\ mem' = mem /\ disk' = disk /\ checkpoint' = checkpoint /\ sourceCycle' = sourceCycle /\ hot' = hot
        /\ refresh' = refresh /\ ingested' = ingested
    BY <1>2 DEF sourceVars
  <2>2. Durable' = Durable
    BY <2>1 DEF Durable, Source!durableCursors
  <2>3. SourceTypes' /\ LeftInv' /\ RefreshInv'
    BY <2>1 DEF SourceInv, SourceTypes, LeftInv, RefreshInv
  <2>4. LaunchInv'
    BY <2>1, <2>2 DEF SourceInv, LaunchInv
  <2> QED
    BY <2>3, <2>4 DEF SourceInv
<1> QED
  BY <1>1, <1>2

LEMMA SourceFollows == SourceInv => Source!LaunchesKept /\ Source!RefreshRequested
  BY DEF SourceInv, LaunchInv, HasLaunches, RefreshInv, Source!LaunchesKept, Source!RefreshRequested

(* Pools *)

FaultRecord ==
  sourceFaults = [failures |-> sourceFaults.failures, unwritten |-> sourceFaults.unwritten, bad |-> sourceFaults.bad,
                  restarts |-> sourceFaults.restarts]
Balanced == EvenInv /\ BatchInv /\ IndexInv /\ PoolInv

LEMMA SameCount == \A S : Source!Cardinality(S) = Cardinality(S)
  BY DEF Source!Cardinality, Cardinality

LEMMA NoneBad ==
  ASSUME MaxBad = 0, sourceFaults.bad = 0, FaultRecord, NEW bad \in SUBSET Adapters, Source!ReadLaunches(bad)
  PROVE  bad = {} /\ FaultRecord' /\ sourceFaults'.bad = 0
<1>1. IsFiniteSet(bad)
  <2>1. IsFiniteSet(Adapters)
    <3>1. IsFiniteSet({"long"} \cup {"doppler"})
      BY FS_Singleton, FS_Union
    <3>2. Adapters = {"long"} \cup {"doppler"}
      BY DEF Adapters
    <3> QED
      BY <3>1, <3>2
  <2> QED
    BY <2>1, FS_Subset
<1>2. Cardinality(bad) \in Nat
  BY <1>1, FS_CardinalityType
<1>3. PICK n \in Nat : n = Cardinality(bad)
  BY <1>2
<1>4. n = 0
  <2>1. sourceFaults.bad + Source!Cardinality(bad) <= MaxBad
    BY Zenon DEF Source!ReadLaunches
  <2>2. Source!Cardinality(bad) = n
    BY <1>3, SameCount
  <2> QED
    BY <2>1, <2>2
<1>5. bad = {}
  BY <1>1, <1>3, <1>4, FS_EmptySet
<1>6. sourceFaults' = [sourceFaults EXCEPT !.bad = @ + n]
  <2>1. Source!Cardinality(bad) = n
    BY <1>3, SameCount
  <2> QED
    BY <2>1 DEF Source!ReadLaunches
<1> QED
  BY <1>4, <1>5, <1>6 DEF FaultRecord

LEMMA FaultsCounted ==
  ASSUME FaultRecord, SourceSteps
  PROVE  FaultRecord' /\ sourceFaults'.bad = sourceFaults.bad
<1>1. \/ sourceFaults' = sourceFaults \/ sourceFaults' = [sourceFaults EXCEPT !.failures = @ + 1]
      \/ sourceFaults' = [sourceFaults EXCEPT !.unwritten = @ + 1] \/ sourceFaults' = [sourceFaults EXCEPT !.restarts = @ + 1]
  BY DEF SourceSteps, Source!NewBlock, Source!BeginCycle, Source!FixedBlock, Source!LaunchReadFails, Source!StageFails,
         Source!ChainWriteFails, Source!CommitFails, Source!HotFails, Source!RefreshCatalog, Source!PlanLaunches,
         Source!ReadPools, Source!HotIngest, Source!Restart, Source!AbandonCycle, Source!HotAdvance, Source!ReadChain,
         Source!WriteProjection, Source!CommitCursors, Source!Failing
<1> QED
  BY <1>1 DEF FaultRecord

(* In a step that is neither commit nor restart the pool cursor stays, or has   *)
(* read up to below both launch cursors.                                        *)
LEMMA PoolCursorMoves ==
  ASSUME SourceTypes, SourceSteps, ~Source!Restart
  PROVE  \/ mem'.cursors["pool"] = mem.cursors["pool"]
         \/ \E to \in Int :
              /\ sourceCycle.pc = "pools" /\ to < mem.cursors["long"] /\ to < mem.cursors["doppler"]
              /\ mem'.pools = mem.pools \cup {p \in SourcePool : p.block \in mem.cursors["pool"]..to /\ p.of \in mem.index}
              /\ mem'.cursors["pool"] = to + 1
<1>1. CASE Source!ReadPools
  <2>1. sourceCycle.pc = "pools"
    BY <1>1 DEF Source!ReadPools
  <2>2. PoolsEffect
    BY <1>1, PoolsWrites
  <2> QED
    BY <2>1, <2>2 DEF PoolsEffect
<1>2. CASE ~Source!ReadPools
  <2>1. CASE Source!ReadChain /\ ChainEffect
    BY <2>1 DEF ChainEffect, CursorNames
  <2>2. CASE mem' = mem \/ RefreshEffect \/ PlanEffect \/ PollEffect
    BY <2>2 DEF RefreshEffect, PlanEffect, PollEffect, SameLaunches
  <2> QED
    BY <1>2, <2>1, <2>2, Zenon DEF SourceSteps
<1> QED
  BY <1>1, <1>2

LEMMA ReadsTogether ==
  ASSUME MaxBad = 0, SourceTypes, LeftInv, EvenInv, BatchInv, NEW bad \in SUBSET Adapters, Source!ReadLaunches(bad)
  PROVE  /\ \E from, to : LaunchesEffect(Adapters, Adapters, from, to) /\ from <= to + 1
         /\ sourceCycle'.left = << >> /\ FaultRecord' /\ sourceFaults'.bad = 0
         /\ sourceCycle'.pc = "launches" /\ sourceCycle'.batch = 1 /\ ~sourceCycle.changed
<1>1. sourceCycle.left = <<Adapters>> /\ sourceCycle.batch = 1 /\ ~sourceCycle.changed
      /\ mem.cursors["long"] <= sourceCycle.fixed
  BY DEF BatchInv, Source!ReadLaunches
<1>2. bad = {} /\ FaultRecord' /\ sourceFaults'.bad = 0
  BY NoneBad DEF EvenInv, FaultRecord
<1>3. Head(sourceCycle.left) = Adapters /\ Tail(sourceCycle.left) = << >>
  BY <1>1, ShortSequences
<1>4. Adapters \ {} = Adapters
  OBVIOUS
<1>5. PICK from, to : LaunchesEffect(Adapters, Adapters, from, to)
  <2>1. PICK g : g = Head(sourceCycle.left)
    OBVIOUS
  <2>2. \E from, to : LaunchesEffect(g, g \ bad, from, to)
    BY <2>1, LaunchesWrites
  <2> QED
    BY <1>2, <1>3, <1>4, <2>1, <2>2
<1>6. from <= to + 1
  BY <1>1, <1>5 DEF LaunchesEffect, Adapters
<1>7. CycleTypes
  BY SourceTypesParts
<1>8. sourceCycle'.left = << >> /\ sourceCycle'.pc = "launches" /\ sourceCycle'.batch = 1
  BY <1>1, <1>3, <1>7, CycleReads DEF CycleIs
<1> QED
  BY <1>1, <1>2, <1>5, <1>6, <1>8

LEMMA EvenKept ==
  ASSUME MaxBad = 0, SourceTypes, LeftInv, LaunchInv, EvenInv, BatchInv, Source!SourceNext
  PROVE  EvenInv'
<1>1. mem.cursors \in [CursorNames -> Int] /\ disk.cursors \in [CursorNames -> Int] /\ DiskTypes
  BY SourceTypesParts DEF SourceTypes
<1>2. CASE \E bad \in SUBSET Adapters : Source!ReadLaunches(bad)
  <2>1. PICK bad \in SUBSET Adapters : Source!ReadLaunches(bad)
    BY <1>2
  <2>2. PICK from, to : LaunchesEffect(Adapters, Adapters, from, to) /\ from <= to + 1
    BY <2>1, ReadsTogether
  <2>3. FaultRecord' /\ sourceFaults'.bad = 0
    BY <2>1, ReadsTogether
  <2>4. disk' = disk /\ checkpoint' = checkpoint /\ checkpoint # << >>
    <3>1. CycleTypes
      BY SourceTypesParts
    <3> QED
      BY <2>1, <3>1 DEF Source!ReadLaunches, CycleTypes
  <2>5. Durable' = Durable
    BY <2>4 DEF Durable, Source!durableCursors
  <2>6. Even(mem'.cursors)
    <3>1. /\ mem'.cursors["long"] = to + 1 /\ mem'.cursors["doppler"] = to + 1 /\ mem'.cursors["pool"] = mem.cursors["pool"]
          /\ mem.cursors["long"] = from /\ from \in Int /\ to \in Int
      BY <2>2 DEF LaunchesEffect, Adapters, CursorNames
    <3>2. mem.cursors["pool"] \in Int
      BY <1>1 DEF CursorNames
    <3> QED
      BY <2>2, <3>1, <3>2 DEF Even, EvenInv
  <2> QED
    BY <2>3, <2>4, <2>5, <2>6 DEF EvenInv, FaultRecord
<1>3. ASSUME SourceSteps PROVE FaultRecord' /\ sourceFaults'.bad = 0
  BY <1>3, FaultsCounted DEF EvenInv, FaultRecord
<1>4. ASSUME SourceSteps, ~Source!Restart, LaunchCursorsStay PROVE Even(mem'.cursors)
  <2>1. mem.cursors["long"] \in Int /\ mem.cursors["doppler"] \in Int /\ mem.cursors["pool"] \in Int
    BY <1>1 DEF CursorNames
  <2>2. mem'.cursors["pool"] <= mem.cursors["long"]
    <3>1. CASE mem'.cursors["pool"] = mem.cursors["pool"]
      BY <3>1 DEF EvenInv, Even
    <3>2. CASE \E to \in Int : to < mem.cursors["long"] /\ mem'.cursors["pool"] = to + 1
      BY <2>1, <3>2
    <3> QED
      BY <1>4, <3>1, <3>2, PoolCursorMoves
  <2> QED
    BY <1>4, <2>2 DEF LaunchCursorsStay, EvenInv, Even
<1>5. CASE SourceSteps /\ ~Source!CommitCursors /\ ~Source!Restart /\ ~Source!WriteProjection
  <2>1. LaunchCursorsStay /\ disk'.cursors \in {disk.cursors, Durable}
    BY <1>5, LaunchesKeptAlone
  <2>2. Even(mem'.cursors)
    BY <1>4, <1>5, <2>1
  <2>3. Even(Durable')
    BY <1>5, <2>2, DurableStays DEF EvenInv
  <2>4. Even(disk'.cursors)
    BY <2>1 DEF EvenInv
  <2> QED
    BY <1>3, <1>5, <2>2, <2>3, <2>4 DEF EvenInv, FaultRecord
<1>6. CASE SourceSteps /\ Source!WriteProjection
  <2>1. disk' = [disk EXCEPT !.launches = mem.launches, !.pools = mem.pools] /\ mem' = mem /\ checkpoint' = checkpoint
    BY <1>6 DEF Source!WriteProjection
  <2>2. disk'.cursors = disk.cursors
    BY <1>1, <2>1 DEF DiskTypes
  <2>3. Durable' = Durable
    BY <2>1 DEF Durable, Source!durableCursors
  <2> QED
    BY <1>3, <1>6, <2>1, <2>2, <2>3 DEF EvenInv, FaultRecord
<1>7. CASE SourceSteps /\ Source!CommitCursors
  <2>1. disk' = [disk EXCEPT !.cursors = mem.cursors] /\ mem' = mem /\ checkpoint' = << >>
    BY <1>7 DEF Source!CommitCursors
  <2>2. disk'.cursors = mem.cursors
    BY <1>1, <2>1 DEF DiskTypes
  <2>3. Durable' = mem.cursors
    BY <2>1 DEF Durable, Source!durableCursors
  <2> QED
    BY <1>3, <1>7, <2>1, <2>2, <2>3 DEF EvenInv, FaultRecord
<1>8. CASE SourceSteps /\ Source!Restart
  <2>1. RestartEffect
    BY <1>8, RestartWrites
  <2>2. disk' = disk /\ checkpoint' = << >>
    BY <1>8 DEF Source!Restart
  <2>3. Durable' = mem'.cursors
    BY <2>2 DEF Durable, Source!durableCursors
  <2>4. Even(mem'.cursors)
    <3>1. mem'.cursors["long"] = disk.cursors["long"] /\ mem'.cursors["doppler"] = disk.cursors["doppler"]
          /\ mem'.cursors["pool"] <= disk.cursors["pool"] /\ mem'.cursors \in [CursorNames -> Int]
      BY <2>1 DEF RestartEffect, CursorNames
    <3>2. mem'.cursors["pool"] \in Int /\ disk.cursors["pool"] \in Int /\ disk.cursors["long"] \in Int
      BY <1>1, <3>1 DEF CursorNames
    <3> QED
      BY <3>1, <3>2 DEF EvenInv, Even
  <2> QED
    BY <1>3, <1>8, <2>2, <2>3, <2>4 DEF EvenInv, FaultRecord
<1> QED
  BY <1>2, <1>5, <1>6, <1>7, <1>8, SourceMoves, Zenon

LEMMA GroupsTogether ==
  ASSUME SourceTypes, Even(mem.cursors), Source!active # {}
  PROVE  Source!groups = <<Adapters>> /\ mem.cursors["long"] <= sourceCycle.fixed
<1>1. mem.cursors.long = mem.cursors.doppler
  BY DEF Even
<1>2. PICK a \in Source!active : TRUE
  OBVIOUS
<1>3. a \in {"long", "doppler"} /\ mem.cursors[a] <= sourceCycle.fixed /\ mem.cursors[a] < mem.cursors.pool + BlockRange * Batches
  BY <1>2 DEF Source!active, Source!Adapter
<1>4. mem.cursors[a] = mem.cursors["long"]
  BY <1>1, <1>3
<1>5. \A b \in {"long", "doppler"} : mem.cursors[b] <= sourceCycle.fixed /\ mem.cursors[b] < mem.cursors.pool + BlockRange * Batches
  BY <1>1, <1>3, <1>4
<1>6. Source!active = Source!Adapter
  BY <1>5 DEF Source!active, Source!Adapter
<1> QED
  BY <1>1, <1>5, <1>6 DEF Source!groups, Source!Adapter, Adapters

LEMMA BatchKept ==
  ASSUME MaxBad = 0, Batches = 1, SourceTypes, LeftInv, EvenInv, BatchInv, Source!SourceNext
  PROVE  BatchInv'
<1>1. CycleTypes
  BY SourceTypesParts
<1>2. LaunchCursorsStay \/ Source!Restart \/ \E bad \in SUBSET Adapters : Source!ReadLaunches(bad)
  BY SourceMoves DEF SourceSteps, LaunchCursorsStay, RefreshEffect, PlanEffect, PoolsEffect, ChainEffect, PollEffect,
                     SameLaunches, CursorNames
<1>3. CASE sourceCycle' = Source!Idle
  BY <1>3, CycleEnds DEF CycleIs, BatchInv
<1>4. CASE sourceCycle' = sourceCycle /\ LaunchCursorsStay
  BY <1>4 DEF BatchInv, LaunchCursorsStay
<1>5. CASE \E late \in BOOLEAN : Source!BeginCycle(late)
  <2>1. PICK late \in BOOLEAN : Source!BeginCycle(late)
    BY <1>5
  <2>2. sourceCycle'.left = << >> /\ sourceCycle'.changed = FALSE /\ sourceCycle'.batch = 0
    BY <2>1, CycleBegins DEF CycleIs
  <2> QED
    BY <2>2 DEF BatchInv
<1>6. CASE Source!RefreshCatalog \/ Source!FixedBlock
  <2>1. sourceCycle.pc \in {"refresh", "fixed"}
    BY <1>6 DEF Source!RefreshCatalog, Source!FixedBlock
  <2>2. sourceCycle.left = << >> /\ ~sourceCycle.changed /\ sourceCycle.batch = 0
    BY <2>1 DEF BatchInv, LeftInv
  <2>3. sourceCycle'.left = << >> /\ sourceCycle'.changed = sourceCycle.changed /\ sourceCycle'.batch = 0
    BY <1>1, <1>6, <2>2, CycleGoesOn DEF CycleIs, Keeps
  <2> QED
    BY <2>2, <2>3 DEF BatchInv
<1>7. CASE \/ Source!LaunchReadFails \/ Source!ReadPools \/ Source!ReadChain
           \/ Source!StageFails \/ Source!ChainWriteFails \/ Source!WriteProjection
  <2>1. sourceCycle.pc # "launches" \/ Source!LaunchReadFails
    BY <1>7 DEF Source!ReadPools, Source!ReadChain, Source!StageFails, Source!ChainWriteFails, Source!WriteProjection,
                Source!readsPools, Source!readsChain
  <2>2. sourceCycle.left = << >> \/ Source!LaunchReadFails
    BY <2>1 DEF LeftInv
  <2>3. sourceCycle'.left = << >> /\ sourceCycle'.pc \in {"pools", "chain", "project", "cursors"}
    BY <1>1, <1>7, <2>2, CycleGoesOn DEF CycleIs, Keeps
  <2> QED
    BY <2>3 DEF BatchInv
<1>8. CASE Source!PlanLaunches
  <2>1. mem'.cursors = mem.cursors /\ sourceCycle.pc = "launches"
    BY <1>8, PlanWrites DEF PlanEffect, SameLaunches, Source!PlanLaunches
  <2>2. CASE CycleIs("pools", sourceCycle.fixed, 0, << >>)
    BY <2>2 DEF BatchInv, CycleIs
  <2>3. CASE /\ CycleIs("launches", sourceCycle.fixed, sourceCycle.batch + 1, Source!groups)
             /\ sourceCycle'.changed = sourceCycle.changed /\ sourceCycle.batch < Batches /\ Source!active # {}
    <3>1. sourceCycle.batch = 0
      BY <1>1, <2>3 DEF CycleTypes
    <3>2. ~sourceCycle.changed
      BY <2>1, <3>1 DEF BatchInv
    <3>3. Source!groups = <<Adapters>> /\ mem.cursors["long"] <= sourceCycle.fixed
      BY <2>3, GroupsTogether DEF EvenInv
    <3>4. /\ sourceCycle'.pc = "launches" /\ sourceCycle'.fixed = sourceCycle.fixed /\ sourceCycle'.batch = 1
          /\ sourceCycle'.left = <<Adapters>> /\ sourceCycle'.changed = sourceCycle.changed
      BY <2>3, <3>1, <3>3 DEF CycleIs
    <3> QED
      BY <2>1, <3>2, <3>3, <3>4 DEF BatchInv
  <2> QED
    BY <1>1, <1>8, <2>2, <2>3, CyclePlans
<1>9. CASE \E bad \in SUBSET Adapters : Source!ReadLaunches(bad)
  <2>1. sourceCycle'.left = << >> /\ sourceCycle'.pc = "launches" /\ sourceCycle'.batch = 1
    BY <1>9, ReadsTogether
  <2> QED
    BY <2>1 DEF BatchInv
<1>10. \/ Source!NewBlock \/ Source!HotAdvance \/ Source!HotFails \/ Source!HotIngest => sourceCycle' = sourceCycle /\ LaunchCursorsStay
  <2>1. \/ Source!NewBlock \/ Source!HotAdvance \/ Source!HotFails \/ Source!HotIngest => sourceCycle' = sourceCycle
    BY DEF Source!NewBlock, Source!HotAdvance, Source!HotFails, Source!HotIngest
  <2>2. Source!NewBlock \/ Source!HotAdvance \/ Source!HotFails => LaunchCursorsStay
    BY DEF Source!NewBlock, Source!HotAdvance, Source!HotFails, LaunchCursorsStay
  <2>3. Source!HotIngest => LaunchCursorsStay
    BY PollWrites DEF PollEffect, SameLaunches, LaunchCursorsStay
  <2> QED
    BY <2>1, <2>2, <2>3
<1>11. \/ Source!AbandonCycle \/ Source!CommitCursors \/ Source!CommitFails \/ Source!Restart => sourceCycle' = Source!Idle
  BY DEF Source!AbandonCycle, Source!CommitCursors, Source!CommitFails, Source!Restart
<1> QED
  BY <1>3, <1>4, <1>5, <1>6, <1>7, <1>8, <1>9, <1>10, <1>11, SourceMoves, Zenon DEF SourceSteps

LEMMA IndexKept ==
  ASSUME MaxBad = 0, SourceTypes, LeftInv, LaunchInv, EvenInv, BatchInv, IndexInv, Source!SourceNext
  PROVE  IndexInv'
<1>1. CycleTypes
  BY SourceTypesParts
<1>2. mem.index \subseteq mem.launches
  BY DEF IndexInv
<1>3. CASE mem'.index = mem'.launches
  BY <1>3 DEF IndexInv
<1>4. CASE sourceCycle' = sourceCycle /\ mem'.index = mem.index /\ mem'.launches = mem.launches
  BY <1>4 DEF IndexInv
<1>5. CASE /\ mem'.index = mem.index /\ mem'.launches = mem.launches
           /\ sourceCycle.pc # "launches" \/ ~sourceCycle.changed
  BY <1>5 DEF IndexInv
<1>6. Source!NewBlock \/ Source!HotAdvance \/ Source!HotFails \/ Source!HotIngest => sourceCycle' = sourceCycle
  BY DEF Source!NewBlock, Source!HotAdvance, Source!HotFails, Source!HotIngest
<1>7. mem' = mem \/ PollEffect \/ PoolsEffect \/ ChainEffect => mem'.index = mem.index /\ mem'.launches = mem.launches
  BY DEF PollEffect, PoolsEffect, ChainEffect, SameLaunches
<1>8. RefreshEffect \/ RestartEffect => mem'.index = mem'.launches
  BY DEF RefreshEffect, RestartEffect, SameLaunches
<1>9. \/ (\E late \in BOOLEAN : Source!BeginCycle(late)) \/ Source!FixedBlock \/ Source!AbandonCycle
      \/ Source!StageFails \/ Source!ChainWriteFails \/ Source!WriteProjection \/ Source!CommitCursors \/ Source!CommitFails
      \/ Source!ReadPools \/ Source!ReadChain
      => sourceCycle.pc # "launches"
  BY DEF Source!BeginCycle, Source!FixedBlock, Source!AbandonCycle, Source!StageFails, Source!ChainWriteFails,
         Source!WriteProjection, Source!CommitCursors, Source!CommitFails, Source!ReadPools, Source!ReadChain,
         Source!readsPools, Source!readsChain
<1>10. Source!LaunchReadFails => ~sourceCycle.changed
  BY DEF Source!LaunchReadFails, BatchInv
<1>11. CASE Source!PlanLaunches /\ PlanEffect
  <2>1. mem'.launches = mem.launches
    BY <1>11 DEF PlanEffect, SameLaunches
  <2>2. CASE sourceCycle.changed /\ ~(sourceCycle.batch < Batches /\ Source!active # {})
    BY <1>3, <1>11, <2>1, <2>2 DEF PlanEffect
  <2>3. CASE ~sourceCycle.changed
    BY <1>5, <1>11, <2>1, <2>3 DEF PlanEffect
  <2>4. CASE sourceCycle.changed /\ sourceCycle.batch < Batches /\ Source!active # {}
    <3>1. sourceCycle'.pc = "launches" /\ sourceCycle'.changed = sourceCycle.changed
      BY <1>1, <1>11, <2>4, CyclePlans DEF CycleIs
    <3>2. mem'.index = mem.index
      BY <1>11, <2>4 DEF PlanEffect
    <3> QED
      BY <1>2, <2>1, <2>4, <3>1, <3>2 DEF IndexInv
  <2> QED
    BY <2>2, <2>3, <2>4
<1>12. CASE \E bad \in SUBSET Adapters : Source!ReadLaunches(bad)
  <2>1. PICK from, to : LaunchesEffect(Adapters, Adapters, from, to)
    BY <1>12, ReadsTogether
  <2>2. ~sourceCycle.changed
    BY <1>12, ReadsTogether
  <2>3. PICK new : new = {l \in SourceLaunch : l.by \in Adapters /\ l.block \in from..to}
    OBVIOUS
  <2>4. mem'.launches = mem.launches \cup new /\ mem'.index = mem.index /\ (sourceCycle'.changed <=> sourceCycle.changed \/ new # {})
    BY <2>1, <2>3 DEF LaunchesEffect
  <2>5. mem.index = mem.launches
    BY <2>2 DEF IndexInv
  <2>6. mem'.index \subseteq mem'.launches
    BY <2>4, <2>5
  <2>7. ~sourceCycle'.changed => mem'.index = mem'.launches
    BY <2>4, <2>5
  <2>8. sourceCycle'.pc = "launches"
    BY <1>12, ReadsTogether
  <2> QED
    BY <2>6, <2>7, <2>8 DEF IndexInv
<1> QED
  BY <1>3, <1>4, <1>5, <1>6, <1>7, <1>8, <1>9, <1>10, <1>11, <1>12, SourceMoves, Zenon DEF SourceSteps

(* A pool below the pool cursor is of a launch below it, which is known. *)
LEMMA PoolsKnown ==
  ASSUME LaunchInv, Even(mem.cursors), mem.cursors \in [CursorNames -> Int],
         NEW p \in SourcePool, p.block < mem.cursors["long"]
  PROVE  p.of \in mem.launches
<1>1. p.of \in SourceLaunch /\ p.of.block <= p.block /\ p.block \in Nat
  BY ServicesAssumption
<1>2. p.of.by \in {"long", "doppler"} /\ p.of.block \in Nat
  BY <1>1, LaunchBlocks
<1>3. mem.cursors[p.of.by] = mem.cursors["long"] /\ mem.cursors["long"] \in Int
  BY <1>2 DEF Even, CursorNames
<1>4. p.of.block < mem.cursors[p.of.by]
  BY <1>1, <1>2, <1>3
<1> QED
  BY <1>1, <1>4 DEF LaunchInv, HasLaunches

LEMMA PoolsGrow ==
  ASSUME SourceTypes, IndexInv, PoolInv, SourceSteps, ~Source!Restart
  PROVE  mem.pools \subseteq mem'.pools /\ (\A p \in mem'.pools : p.of \in mem'.launches)
<1>1. mem.index \subseteq mem.launches /\ \A p \in mem.pools : p.of \in mem.launches
  BY DEF IndexInv, PoolInv
<1>2. CASE \E B : mem'.pools = mem.pools \cup {p \in SourcePool : p.block \in B /\ p.of \in mem.index}
  <2>1. mem.launches \subseteq mem'.launches
    BY DEF SourceSteps, RefreshEffect, PlanEffect, PoolsEffect, ChainEffect, PollEffect, SameLaunches
  <2> QED
    BY <1>1, <1>2, <2>1
<1>3. CASE mem'.pools = mem.pools /\ mem'.launches = mem.launches
  BY <1>1, <1>3
<1>4. CASE RefreshEffect
  BY <1>1, <1>4 DEF RefreshEffect, SameLaunches
<1>5. mem' = mem \/ PlanEffect => mem'.pools = mem.pools /\ mem'.launches = mem.launches
  BY DEF PlanEffect, SameLaunches
<1>6. ChainEffect \/ PollEffect => \E B : mem'.pools = mem.pools \cup {p \in SourcePool : p.block \in B /\ p.of \in mem.index}
  BY DEF ChainEffect, PollEffect
<1>7. ASSUME PoolsEffect
      PROVE  \/ mem'.pools = mem.pools /\ mem'.launches = mem.launches
             \/ \E B : mem'.pools = mem.pools \cup {p \in SourcePool : p.block \in B /\ p.of \in mem.index}
  <2>1. mem'.launches = mem.launches
    BY <1>7 DEF PoolsEffect
  <2>2. \/ mem'.pools = mem.pools
        \/ \E to \in Int : mem'.pools = mem.pools \cup {p \in SourcePool : p.block \in mem.cursors["pool"]..to /\ p.of \in mem.index}
    BY <1>7 DEF PoolsEffect
  <2> QED
    BY <2>1, <2>2
<1> QED
  BY <1>2, <1>3, <1>4, <1>5, <1>6, <1>7, Zenon DEF SourceSteps

LEMMA PoolsAtCursor ==
  ASSUME SourceTypes, LaunchInv, EvenInv, IndexInv, PoolInv, SourceSteps, ~Source!Restart
  PROVE  HasPools(mem'.cursors, mem'.pools)
<1>1. mem.cursors \in [CursorNames -> Int]
  BY DEF SourceTypes
<1>2. mem.pools \subseteq mem'.pools
  BY PoolsGrow
<1>3. HasPools(mem.cursors, mem.pools)
  BY DEF PoolInv
<1>4. CASE mem'.cursors["pool"] = mem.cursors["pool"]
  BY <1>2, <1>3, <1>4 DEF HasPools
<1>5. ASSUME NEW to \in Int, sourceCycle.pc = "pools", to < mem.cursors["long"], mem'.cursors["pool"] = to + 1,
             mem'.pools = mem.pools \cup {p \in SourcePool : p.block \in mem.cursors["pool"]..to /\ p.of \in mem.index}
      PROVE  HasPools(mem'.cursors, mem'.pools)
  <2> SUFFICES ASSUME NEW p \in SourcePool, p.block < to + 1 PROVE p \in mem'.pools
    BY <1>5 DEF HasPools
  <2>1. p.block \in Nat /\ mem.cursors["pool"] \in Int /\ mem.cursors["long"] \in Int
    BY <1>1, ServicesAssumption DEF CursorNames
  <2>2. CASE p.block < mem.cursors["pool"]
    BY <1>2, <1>3, <2>2 DEF HasPools
  <2>3. CASE ~(p.block < mem.cursors["pool"])
    <3>1. p.block \in mem.cursors["pool"]..to /\ p.block < mem.cursors["long"]
      BY <1>5, <2>1, <2>3
    <3>2. p.of \in mem.launches
      BY <1>1, <3>1, PoolsKnown DEF EvenInv
    <3>3. mem.index = mem.launches
      BY <1>5 DEF IndexInv
    <3> QED
      BY <1>5, <3>1, <3>2, <3>3
  <2> QED
    BY <2>2, <2>3
<1> QED
  BY <1>4, <1>5, PoolCursorMoves

LEMMA PoolsKept ==
  ASSUME MaxBad = 0, SourceTypes, LeftInv, LaunchInv, Balanced, Source!SourceNext
  PROVE  PoolInv'
<1> USE DEF Balanced
<1>1. DiskTypes
  BY SourceTypesParts
<1>2. \A c, d, P, Q : HasPools(c, P) /\ P \subseteq Q /\ d["pool"] = c["pool"] => HasPools(d, Q)
  BY DEF HasPools
<1>3. CASE \E bad \in SUBSET Adapters : Source!ReadLaunches(bad)
  <2>1. PICK from, to : LaunchesEffect(Adapters, Adapters, from, to)
    BY <1>3, ReadsTogether
  <2>2. mem'.pools = mem.pools /\ mem.launches \subseteq mem'.launches /\ mem'.cursors["pool"] = mem.cursors["pool"]
    BY <2>1 DEF LaunchesEffect, Adapters, CursorNames
  <2>3. disk' = disk /\ checkpoint' = checkpoint /\ checkpoint # << >>
    <3>1. CycleTypes
      BY SourceTypesParts
    <3> QED
      BY <1>3, <3>1 DEF Source!ReadLaunches, CycleTypes
  <2>4. Durable' = Durable
    BY <2>3 DEF Durable, Source!durableCursors
  <2>5. HasPools(mem'.cursors, mem'.pools)
    BY <1>2, <2>2 DEF PoolInv
  <2> QED
    BY <2>2, <2>3, <2>4, <2>5 DEF PoolInv
<1>4. CASE SourceSteps /\ ~Source!CommitCursors /\ ~Source!Restart /\ ~Source!WriteProjection
  <2>1. mem'.launches = mem.launches /\ disk'.launches = disk.launches /\ disk'.cursors \in {disk.cursors, Durable}
    BY <1>4, LaunchesKeptAlone
  <2>2. disk'.pools = disk.pools
    <3>1. disk' = disk \/ Source!AbandonCycle \/ Source!HotAdvance \/ Source!ReadChain
      BY <1>4 DEF SourceSteps, Source!NewBlock, Source!BeginCycle, Source!FixedBlock, Source!LaunchReadFails,
                  Source!StageFails, Source!ChainWriteFails, Source!CommitFails, Source!HotFails, Source!RefreshCatalog,
                  Source!PlanLaunches, Source!ReadPools, Source!HotIngest
    <3>2. \/ disk' = disk \/ disk' = [disk EXCEPT !.cursors = Durable] \/ disk' = [disk EXCEPT !.pair = mem.pair]
          \/ \E n : disk' = [disk EXCEPT !.cursors = Durable, !.hot = n]
      BY <3>1 DEF Source!AbandonCycle, Source!HotAdvance, Source!ReadChain, Durable
    <3> QED
      BY <1>1, <3>2 DEF DiskTypes
  <2>3. mem.pools \subseteq mem'.pools /\ (\A p \in mem'.pools : p.of \in mem'.launches)
    BY <1>4, PoolsGrow
  <2>4. HasPools(mem'.cursors, mem'.pools)
    BY <1>4, PoolsAtCursor
  <2>5. HasPools(disk'.cursors, disk'.pools)
    BY <2>1, <2>2 DEF PoolInv
  <2>6. HasPools(Durable', disk'.pools)
    <3>1. CASE Durable' = Durable
      BY <2>2, <3>1 DEF PoolInv
    <3>2. CASE checkpoint = << >> /\ Durable = mem.cursors /\ Durable' = mem'.cursors
      <4>1. mem'.cursors["pool"] = mem.cursors["pool"]
        <5>1. ~Source!ReadPools
          BY <3>2, SourceTypesParts DEF Source!ReadPools, CycleTypes
        <5>2. CASE Source!ReadChain /\ ChainEffect
          BY <5>2 DEF ChainEffect, CursorNames
        <5>3. CASE mem' = mem \/ RefreshEffect \/ PlanEffect \/ PollEffect
          BY <5>3 DEF RefreshEffect, PlanEffect, PollEffect, SameLaunches
        <5> QED
          BY <1>4, <5>1, <5>2, <5>3, Zenon DEF SourceSteps
      <4>2. HasPools(mem.cursors, disk.pools)
        BY <3>2 DEF PoolInv
      <4> QED
        BY <1>2, <2>2, <3>2, <4>1, <4>2
    <3> QED
      BY <1>4, <3>1, <3>2, DurableStays
  <2> QED
    BY <2>1, <2>2, <2>3, <2>4, <2>5, <2>6 DEF PoolInv
<1>5. CASE SourceSteps /\ Source!WriteProjection
  <2>1. disk' = [disk EXCEPT !.launches = mem.launches, !.pools = mem.pools] /\ mem' = mem /\ checkpoint' = checkpoint
    BY <1>5 DEF Source!WriteProjection
  <2>2. disk'.launches = mem.launches /\ disk'.pools = mem.pools /\ disk'.cursors = disk.cursors
    BY <1>1, <2>1 DEF DiskTypes
  <2>3. Durable' = Durable
    BY <2>1 DEF Durable, Source!durableCursors
  <2>4. HasPools(disk.cursors, mem.pools) /\ HasPools(Durable, mem.pools)
    BY <1>2 DEF PoolInv
  <2> QED
    BY <2>1, <2>2, <2>3, <2>4 DEF PoolInv
<1>6. CASE SourceSteps /\ Source!CommitCursors
  <2>1. disk' = [disk EXCEPT !.cursors = mem.cursors] /\ mem' = mem /\ checkpoint' = << >> /\ sourceCycle.pc = "cursors"
    BY <1>6 DEF Source!CommitCursors
  <2>2. disk'.launches = disk.launches /\ disk'.pools = mem.pools /\ disk'.cursors = mem.cursors /\ disk.pools = mem.pools
    BY <1>1, <2>1 DEF DiskTypes, LaunchInv
  <2>3. Durable' = mem.cursors
    BY <2>1 DEF Durable, Source!durableCursors
  <2> QED
    BY <2>1, <2>2, <2>3 DEF PoolInv
<1>7. CASE SourceSteps /\ Source!Restart
  <2>1. RestartEffect
    BY <1>7, RestartWrites
  <2>2. disk' = disk /\ checkpoint' = << >>
    BY <1>7 DEF Source!Restart
  <2>3. Durable' = mem'.cursors
    BY <2>2 DEF Durable, Source!durableCursors
  <2>4. mem'.launches = disk.launches /\ mem'.pools = disk.pools
    BY <2>1 DEF RestartEffect, PoolInv
  <2>5. HasPools(mem'.cursors, disk.pools)
    <3>1. mem'.cursors["pool"] <= disk.cursors["pool"] /\ mem'.cursors \in [CursorNames -> Int] /\ disk.cursors \in [CursorNames -> Int]
      BY <2>1 DEF RestartEffect, SourceTypes
    <3>2. mem'.cursors["pool"] \in Int /\ disk.cursors["pool"] \in Int
      BY <3>1 DEF CursorNames
    <3>3. \A p \in SourcePool : p.block \in Nat
      BY ServicesAssumption
    <3>4. \A p \in SourcePool : p.block < mem'.cursors["pool"] => p.block < disk.cursors["pool"]
      BY <3>1, <3>2, <3>3
    <3> QED
      BY <3>4 DEF PoolInv, HasPools
  <2> QED
    BY <2>2, <2>3, <2>4, <2>5 DEF PoolInv
<1> QED
  BY <1>3, <1>4, <1>5, <1>6, <1>7, SourceMoves, Zenon

LEMMA BalancedBegins == Source!SourceInit => Balanced
<1> SUFFICES ASSUME Source!SourceInit PROVE Balanced
  OBVIOUS
<1>1. mem.cursors = Source!Start /\ disk.cursors = Source!Start /\ Durable = Source!Start
  BY DEF Source!SourceInit, Durable, Source!durableCursors
<1>2. Source!Start["long"] = 1 /\ Source!Start["doppler"] = 1 /\ Source!Start["pool"] = 1
  BY DEF Source!Start
<1>3. \A P : HasPools(Source!Start, P)
  <2>1. \A p \in SourcePool : p.block \in Nat /\ p.block >= 1
    BY LaunchBlocks, ServicesAssumption
  <2> QED
    BY <1>2, <2>1 DEF HasPools
<1>4. EvenInv
  BY <1>1, <1>2 DEF EvenInv, Even, Source!SourceInit
<1>5. BatchInv /\ IndexInv
  BY DEF BatchInv, IndexInv, Source!SourceInit, Source!Idle
<1>6. PoolInv
  BY <1>1, <1>3 DEF PoolInv, Source!SourceInit
<1> QED
  BY <1>4, <1>5, <1>6 DEF Balanced

LEMMA BalancedKept ==
  ASSUME MaxBad = 0, Batches = 1
  PROVE  SourceInv /\ Balanced /\ [Source!SourceNext]_sourceVars => Balanced'
<1> SUFFICES ASSUME SourceInv, Balanced, [Source!SourceNext]_sourceVars PROVE Balanced'
  OBVIOUS
<1>1. CASE Source!SourceNext
  <2>1. SourceTypes /\ LeftInv /\ LaunchInv /\ EvenInv /\ BatchInv /\ IndexInv /\ PoolInv
    BY DEF SourceInv, Balanced
  <2>2. EvenInv' /\ BatchInv' /\ IndexInv' /\ PoolInv'
    BY <1>1, <2>1, EvenKept, BatchKept, IndexKept, PoolsKept
  <2> QED
    BY <2>2 DEF Balanced
<1>2. CASE UNCHANGED sourceVars
  <2>1. /\ mem' = mem /\ disk' = disk /\ checkpoint' = checkpoint /\ sourceCycle' = sourceCycle /\ sourceFaults' = sourceFaults
    BY <1>2 DEF sourceVars
  <2>2. Durable' = Durable
    BY <2>1 DEF Durable, Source!durableCursors
  <2> QED
    BY <2>1, <2>2 DEF Balanced, EvenInv, BatchInv, IndexInv, PoolInv
<1> QED
  BY <1>1, <1>2

LEMMA BalancedFollows == Balanced => Source!LaunchPoolsKept
  BY DEF Balanced, PoolInv, HasPools, Source!LaunchPoolsKept

--------------------------------------------------------------------------------
(* One part at a time *)

LEMMA PartSteps ==
  ASSUME [ServicesNext]_serviceVars
  PROVE  /\ part' = part
         /\ part = "hot" => [Hot!HotNext]_hotVars
         /\ part = "source" => [Source!SourceNext]_sourceVars
         /\ part = "board" => [Board!PubNext]_boardVars
         /\ part = "sequencer" => [Sequencer!FeedNext]_sequencerVars
         /\ part = "fallback" => [Fallback!BudgetNext]_budgetVars
         /\ part = "hotRpc" => [HotRpc!BudgetNext]_budgetVars
         /\ part = "alert" => [Watched!AlertNext]_alertVars
<1>1. CASE UNCHANGED serviceVars
  BY <1>1 DEF serviceVars, restVars, aroundVars
<1>2. CASE HotStep \/ SourceStep \/ BoardStep \/ SequencerStep
  BY <1>2 DEF HotStep, SourceStep, BoardStep, SequencerStep
<1>3. CASE FallbackStep \/ HotRpcStep \/ AlertStep
  BY <1>3 DEF FallbackStep, HotRpcStep, AlertStep
<1>4. CASE SchedulerStep \/ ShotStep \/ UniversalStep \/ RoutedStep \/ SearchStep
  BY <1>4 DEF SchedulerStep, ShotStep, UniversalStep, RoutedStep, SearchStep
<1> QED
  BY <1>1, <1>2, <1>3, <1>4 DEF ServicesNext

(* For any chain, any bounds and any numbers, of the pool events below the hot  *)
(* cursor, also of one a restart finds, none goes by in silence, whatever is    *)
(* reorganised, fails or is jumped over.  Of the sequencer's messages, in any   *)
(* frames and over any sockets, none is heard twice and none goes by in silence *)
(* except one that was missing inside a frame; and one connection lives.        *)
THEOREM NothingInSilence == ServicesSpec => []EventsFollowed
<1> DEFINE Inv == (part = "hot" => HotInv) /\ (part = "sequencer" => FeedInv)
<1>1. ServicesInit => Inv
  BY HotInit, FeedStarts DEF ServicesInit
<1>2. Inv /\ [ServicesNext]_serviceVars => Inv'
  BY PartSteps, HotStepKeeps, FeedStep
<1>3. Inv => EventsFollowed
  BY HotFollows, FeedFollows DEF EventsFollowed
<1> QED
  BY <1>1, <1>2, <1>3, PTL DEF ServicesSpec

(* For any allowances and any days: while one process at a time has the budget  *)
(* file open, it counts what was sent today and none sends more than the day's  *)
(* ceiling, over any restarts and midnights, of the searches and of the board.  *)
THEOREM CeilingsKept ==
  ServicesSpec => [](/\ part = "fallback" => Fallback!CeilingKept
                     /\ part = "hotRpc" => HotRpc!CeilingKept)
<1> DEFINE Inv == (part = "fallback" => BudgetInv({"worker", "child"})) /\ (part = "hotRpc" => BudgetInv({"board"}))
           Kept == (part = "fallback" => Fallback!CeilingKept) /\ (part = "hotRpc" => HotRpc!CeilingKept)
<1>1. ServicesInit => Inv
  BY BudgetBegins DEF ServicesInit
<1>2. Inv /\ [ServicesNext]_serviceVars => Inv'
  BY PartSteps, FallbackMoves, HotRpcMoves, BudgetKeeps
<1>3. Inv => Kept
  BY BudgetFollows
<1> QED
  BY <1>1, <1>2, <1>3, PTL DEF ServicesSpec

(* For any candidates, refreshes, failures and crashes: an episode is entered   *)
(* once until its end, between cycles what is open and what a signer sees are   *)
(* what the last quotes say, every record of the ledger reaches SQLite, and     *)
(* the operator's last message tells whether the watcher can trade.             *)
THEOREM PublishedAsQuoted == ServicesSpec => []PublishedCurrent
<1> DEFINE Inv == (part = "board" => BoardInv) /\ (part = "alert" => AlertInv)
<1>1. ServicesInit => Inv
  BY BoardBegins, AlertBegins DEF ServicesInit
<1>2. Inv /\ [ServicesNext]_serviceVars => Inv'
  BY PartSteps, BoardKeeps, AlertKeeps
<1>3. Inv => PublishedCurrent
  BY BoardFollows, AlertFollows DEF PublishedCurrent
<1> QED
  BY <1>1, <1>2, <1>3, PTL DEF ServicesSpec

(* For any launches, pools, ranges, batches and failures, adapters alone among  *)
(* them: no cursor on disk is past a launch that is not, wherever the board     *)
(* died, and a PAIR pool a poll found is in the strategy graph or asked for.    *)
THEOREM LaunchesAndRequests ==
  ServicesSpec => [](part = "source" => Source!LaunchesKept /\ Source!RefreshRequested)
<1> DEFINE Inv == part = "source" => SourceInv
           Kept == part = "source" => Source!LaunchesKept /\ Source!RefreshRequested
<1>1. ServicesInit => Inv
  BY SourceBegins DEF ServicesInit
<1>2. Inv /\ [ServicesNext]_serviceVars => Inv'
  BY PartSteps, SourceKeeps
<1>3. Inv => Kept
  BY SourceFollows
<1> QED
  BY <1>1, <1>2, <1>3, PTL DEF ServicesSpec

(* In cycles of one batch, as deployed, and while no adapter fails alone, no    *)
(* pool of a launched token is below a pool cursor and missing either, for any  *)
(* launches and pools, blocks of a read, failed reads and commits, and restarts. *)
THEOREM NothingSkipped ==
  ASSUME MaxBad = 0, Batches = 1
  PROVE  ServicesSpec => []SourcesKept
<1> DEFINE Inv == part = "source" => SourceInv /\ Balanced
<1>1. ServicesInit => Inv
  BY SourceBegins, BalancedBegins DEF ServicesInit
<1>2. Inv /\ [ServicesNext]_serviceVars => Inv'
  BY PartSteps, SourceKeeps, BalancedKept
<1>3. Inv => SourcesKept
  BY SourceFollows, BalancedFollows DEF SourcesKept
<1> QED
  BY <1>1, <1>2, <1>3, PTL DEF ServicesSpec

--------------------------------------------------------------------------------
(* The scheduler: recovery work is never put off indefinitely, for any lanes,  *)
(* periods and turns (ADR 0076, ADR 0098).                                      *)

\* The lanes that went before l since its deadline are due after it now.
PassedLater ==
    \A l \in Lane : \A k \in passed[l] : nextPeriodicAt[l] < nextPeriodicAt[k]

\* Up to the deadline the loop may end a turn anywhere; from then on each
\* turn is quarantine or belongs to a lane that has not gone before.
TurnBound ==
    \A l \in Lane :
        turnEnd <= nextPeriodicAt[l] + MaxDeferral + lost[l]
                     + (MaxTurn + MaxTurn * Cardinality(passed[l]))

IInv ==
    /\ TypeOK
    /\ recoverBy = nextPeriodicAt
    /\ now <= turnEnd
    /\ PassedLater
    /\ TurnBound

-----------------------------------------------------------------------------

LEMMA MergeTyped ==
    ASSUME NEW p \in Event \cup {NoEvent}, NEW e \in Event
    PROVE  merged(p, e) \in Event
<1>1. CASE p = NoEvent
  BY <1>1 DEF merged
<1>2. CASE p # NoEvent
  <2>1. p \in Event
    BY <1>2
  <2>2. larger(p.priority, e.priority) \in Priority
    BY <2>1 DEF Event, larger
  <2>3. smaller(p.enqueuedAt, e.enqueuedAt) \in Nat
    BY <2>1 DEF Event, smaller
  <2>4. mergePendingMarketSignals(p.values, e.values) \in SUBSET Value
    BY <2>1 DEF Event, mergePendingMarketSignals
  <2>. QED
    BY <1>2, <2>2, <2>3, <2>4 DEF merged, Event
<1>. QED
  BY <1>1, <1>2

LEMMA TypeInit == Init => TypeOK
<1>. SUFFICES ASSUME Init PROVE TypeOK
  OBVIOUS
<1>1. NoEvent.values = {} /\ Cardinality({}) = 0
  BY FS_EmptySet DEF NoEvent
<1>. QED
  BY <1>1, DurationAssumption, EventAssumption, LaneAssumption DEF Init, TypeOK, Never

LEMMA TypeStep == TypeOK /\ [Next]_vars => TypeOK'
<1>. SUFFICES ASSUME TypeOK, [Next]_vars PROVE TypeOK'
  OBVIOUS
<1>. USE DurationAssumption, EventAssumption
<1>1. NoEvent.values = {} /\ Cardinality({}) = 0
  BY FS_EmptySet DEF NoEvent
<1>2. CASE Tick
  BY <1>2 DEF Tick, TypeOK, laneState, history
<1>3. ASSUME NEW l \in Lane, NEW p \in Priority, NEW age \in 0..MaxAge, NEW vs \in SUBSET Value,
             age <= now,
             enqueueEvent(l, [priority |-> p, enqueuedAt |-> now - age, values |-> vs])
      PROVE  TypeOK'
  <2>. DEFINE e == [priority |-> p, enqueuedAt |-> now - age, values |-> vs]
  <2>1. e \in Event
    BY <1>3 DEF Event, TypeOK
  <2>2. merged(pendingEvent[l], e) \in Event
    BY <2>1, MergeTyped DEF TypeOK
  <2>3. pendingEvent' \in [Lane -> Event \cup {NoEvent}]
    BY <1>3, <2>2 DEF enqueueEvent, TypeOK
  <2>4. \A k \in Lane : Cardinality(pendingEvent'[k].values) <= MaxValues
    BY <1>3 DEF enqueueEvent, withinBound, TypeOK
  <2>5. owed' \in [Lane -> SUBSET Value]
    BY <1>3 DEF enqueueEvent, TypeOK
  <2>. QED
    BY <1>3, <2>3, <2>4, <2>5 DEF enqueueEvent, TypeOK, clock
<1>4. ASSUME NEW d \in 1..MaxTurn, NEW l \in Lane, ClaimPeriodic(l, d)
      PROVE  TypeOK'
  <2>1. passed' \in [Lane -> SUBSET Lane]
    BY <1>4 DEF ClaimPeriodic, TypeOK
  <2>2. nextPeriodicAt' \in [Lane -> Nat] /\ recoverBy' \in [Lane -> Nat] /\ lost' \in [Lane -> Nat]
    BY <1>4 DEF ClaimPeriodic, TypeOK
  <2>3. lastStartedAt' \in [Lane -> Nat \cup {Never}] /\ turnEnd' \in Nat
    BY <1>4 DEF ClaimPeriodic, TypeOK, startTurn
  <2>. QED
    BY <1>4, <2>1, <2>2, <2>3 DEF ClaimPeriodic, TypeOK, startTurn
<1>5. ASSUME NEW d \in 1..MaxTurn, NEW l \in Lane, ClaimEvent(l, d)
      PROVE  TypeOK'
  <2>1. pendingEvent' \in [Lane -> Event \cup {NoEvent}]
    BY <1>5 DEF ClaimEvent, TypeOK
  <2>2. ASSUME NEW k \in Lane PROVE Cardinality(pendingEvent'[k].values) <= MaxValues
    <3>1. CASE k = l
      <4>1. pendingEvent'[k] = NoEvent
        BY <1>5, <3>1 DEF ClaimEvent, TypeOK
      <4>. QED
        BY <4>1, <1>1
    <3>2. CASE k # l
      <4>1. pendingEvent'[k] = pendingEvent[k]
        BY <1>5, <3>2 DEF ClaimEvent, TypeOK
      <4>. QED
        BY <4>1 DEF TypeOK
    <3>. QED
      BY <3>1, <3>2
  <2>3. lastStartedAt' \in [Lane -> Nat \cup {Never}] /\ turnEnd' \in Nat
    BY <1>5 DEF ClaimEvent, TypeOK, startTurn
  <2>. QED
    BY <1>5, <2>1, <2>2, <2>3 DEF ClaimEvent, TypeOK, startTurn
<1>6. ASSUME NEW d \in 1..MaxTurn, ClaimNothing(d)
      PROVE  TypeOK'
  BY <1>6 DEF ClaimNothing, TypeOK, startTurn, laneState, history
<1>7. ASSUME NEW d \in 1..MaxTurn, Quarantine(d)
      PROVE  TypeOK'
  BY <1>7 DEF Quarantine, TypeOK, startTurn, laneState
<1>8. CASE UNCHANGED vars
  BY <1>8 DEF vars, clock, laneState, history, TypeOK
<1>. QED
  BY <1>2, <1>3, <1>4, <1>5, <1>6, <1>7, <1>8 DEF Next, Enqueue

(* The state of the scheduler is well formed, and a pending event never     *)
(* depends on more than the bound of the coalescer.                         *)
THEOREM TypeCorrect == Spec => []TypeOK
<1>. QED
  BY TypeInit, TypeStep, PTL DEF Spec

-----------------------------------------------------------------------------

\* An event goes first only while nothing is past its deadline.
LEMMA EventInTime ==
    ASSUME TypeOK, NEW l \in Lane, NEW d \in 1..MaxTurn, ClaimEvent(l, d), NEW k \in Lane
    PROVE  ~pastDeadline(k)
<1>1. nextPeriodicAt[k] \in Nat /\ now \in Nat
  BY DEF TypeOK
<1>. QED
  BY <1>1, DurationAssumption DEF ClaimEvent, due, mayPrecede, pastDeadline, lateness

\* A recovery that goes before one past its deadline has not gone before.
LEMMA NotAgain ==
    ASSUME IInv, NEW l \in Lane, NEW d \in 1..MaxTurn, ClaimPeriodic(l, d),
           NEW k \in Lane, pastDeadline(k)
    PROVE  /\ l \notin passed[k]
           /\ nextPeriodicAt[l] <= nextPeriodicAt[k]
<1>1. /\ now \in Nat
      /\ nextPeriodicAt[k] \in Nat
      /\ nextPeriodicAt[l] \in Nat
  BY DEF IInv, TypeOK
<1>2. due(k)
  BY <1>1, DurationAssumption DEF pastDeadline, lateness, due
<1>3. nextPeriodicAt[l] <= nextPeriodicAt[k]
  BY <1>1, <1>2 DEF ClaimPeriodic, periodicLane, dueBefore
<1>. QED
  BY <1>1, <1>3 DEF IInv, PassedLater

LEMMA InvInit == Init => IInv
<1>. SUFFICES ASSUME Init PROVE IInv
  OBVIOUS
<1>1. Cardinality({}) = 0
  BY FS_EmptySet
<1>2. TurnBound
  BY <1>1, DurationAssumption DEF Init, TurnBound
<1>. QED
  BY <1>2, TypeInit DEF Init, IInv, PassedLater

LEMMA InvStep == IInv /\ [Next]_vars => IInv'
<1>. SUFFICES ASSUME IInv, [Next]_vars PROVE IInv'
  OBVIOUS
<1>. USE DurationAssumption
<1>1. TypeOK /\ TypeOK'
  BY TypeStep DEF IInv
<1>2. \A k \in Lane : Cardinality(passed[k]) \in Nat /\ IsFiniteSet(passed[k])
  BY <1>1, LaneAssumption, FS_Subset, FS_CardinalityType DEF TypeOK
<1>3. ASSUME UNCHANGED <<nextPeriodicAt, recoverBy, passed, lost>>, turnEnd' = turnEnd, now' <= turnEnd'
      PROVE  IInv'
  BY <1>1, <1>3 DEF IInv, PassedLater, TurnBound
<1>4. CASE Tick
  <2>1. now' <= turnEnd'
    BY <1>1, <1>4 DEF Tick, TypeOK
  <2>. QED
    BY <1>3, <1>4, <2>1 DEF Tick, laneState, history
<1>5. CASE Enqueue
  BY <1>3, <1>5 DEF Enqueue, enqueueEvent, clock, IInv
<1>6. ASSUME NEW d \in 1..MaxTurn, NEW l \in Lane, ClaimPeriodic(l, d)
      PROVE  IInv'
  <2>1. /\ now' = now /\ now = turnEnd /\ turnEnd' = now + d /\ now \in Nat
        /\ nextPeriodicAt' = [nextPeriodicAt EXCEPT ![l] = now + Period[l]]
        /\ recoverBy' = [recoverBy EXCEPT ![l] = now + Period[l]]
        /\ lost' = [lost EXCEPT ![l] = 0]
        /\ now >= nextPeriodicAt[l]
    BY <1>1, <1>6 DEF ClaimPeriodic, asking, startTurn, TypeOK, periodicLane, due
  <2>2. PassedLater'
    <3>. SUFFICES ASSUME NEW k \in Lane, NEW j \in passed'[k]
                  PROVE  nextPeriodicAt'[k] < nextPeriodicAt'[j]
      BY DEF PassedLater
    <3>1. k # l
      BY <1>6 DEF ClaimPeriodic
    <3>2. j \in Lane /\ nextPeriodicAt'[k] = nextPeriodicAt[k]
      BY <1>1, <2>1, <3>1 DEF TypeOK
    <3>3. CASE j = l
      <4>1. j \in passed[k] \/ pastDeadline(k)
        BY <1>6, <3>1 DEF ClaimPeriodic
      <4>2. nextPeriodicAt[k] <= now
        <5>1. CASE pastDeadline(k)
          BY <1>1, <5>1 DEF pastDeadline, lateness, TypeOK
        <5>2. CASE j \in passed[k]
          BY <1>1, <2>1, <3>3, <5>2 DEF IInv, PassedLater, TypeOK
        <5>. QED
          BY <4>1, <5>1, <5>2
      <4>3. nextPeriodicAt'[j] = now + Period[l] /\ Period[l] \in Nat \ {0}
        BY <1>1, <2>1, <3>3 DEF TypeOK
      <4>4. nextPeriodicAt[k] \in Nat
        BY <1>1 DEF TypeOK
      <4>. QED
        BY <2>1, <3>2, <4>2, <4>3, <4>4
    <3>4. CASE j # l
      <4>1. j \in passed[k]
        BY <1>6, <3>1, <3>4 DEF ClaimPeriodic
      <4>. QED
        BY <1>1, <2>1, <3>2, <3>4, <4>1 DEF IInv, PassedLater, TypeOK
    <3>. QED
      BY <3>3, <3>4
  <2>3. TurnBound'
    <3>. SUFFICES ASSUME NEW k \in Lane
                  PROVE  turnEnd' <= nextPeriodicAt'[k] + MaxDeferral + lost'[k]
                                       + (MaxTurn + MaxTurn * Cardinality(passed'[k]))
      BY DEF TurnBound
    <3>1. CASE k = l
      <4>1. passed'[k] = {}
        BY <1>6, <3>1 DEF ClaimPeriodic
      <4>2. MaxTurn * Cardinality(passed'[k]) = 0
        BY <4>1, FS_EmptySet
      <4>. QED
        BY <1>1, <2>1, <3>1, <4>2 DEF TypeOK
    <3>2. CASE k # l /\ pastDeadline(k)
      <4>1. passed'[k] = passed[k] \cup {l}
        BY <1>6, <3>2 DEF ClaimPeriodic
      <4>2. l \notin passed[k]
        BY <1>6, <3>2, NotAgain
      <4>3. Cardinality(passed'[k]) = Cardinality(passed[k]) + 1
        BY <1>2, <4>1, <4>2, FS_AddElement
      <4>4. MaxTurn * Cardinality(passed'[k]) = MaxTurn * Cardinality(passed[k]) + MaxTurn
        BY <1>2, <4>3
      <4>5. MaxTurn * Cardinality(passed[k]) \in Nat
        BY <1>2
      <4>6. turnEnd <= nextPeriodicAt[k] + MaxDeferral + lost[k]
                         + (MaxTurn + MaxTurn * Cardinality(passed[k]))
        BY DEF IInv, TurnBound
      <4>7. nextPeriodicAt'[k] = nextPeriodicAt[k] /\ lost'[k] = lost[k]
        BY <1>1, <2>1, <3>2 DEF TypeOK
      <4>. HIDE <4>3
      <4>. QED
        BY <1>1, <2>1, <4>4, <4>5, <4>6, <4>7 DEF TypeOK
    <3>3. CASE k # l /\ ~pastDeadline(k)
      <4>1. passed'[k] = passed[k]
        BY <1>6, <3>3 DEF ClaimPeriodic
      <4>2. MaxTurn * Cardinality(passed[k]) \in Nat
        BY <1>2
      <4>3. nextPeriodicAt'[k] = nextPeriodicAt[k] /\ lost'[k] = lost[k] /\ lost[k] \in Nat
        BY <1>1, <2>1, <3>3 DEF TypeOK
      <4>. QED
        BY <1>1, <2>1, <3>3, <4>1, <4>2, <4>3 DEF TypeOK, pastDeadline, lateness
    <3>. QED
      BY <3>1, <3>2, <3>3
  <2>. QED
    BY <1>1, <2>1, <2>2, <2>3 DEF IInv
<1>7. ASSUME NEW d \in 1..MaxTurn,
             now' = now, now = turnEnd, turnEnd' = now + d,
             UNCHANGED <<nextPeriodicAt, recoverBy, passed, lost>>,
             \A k \in Lane : ~pastDeadline(k)
      PROVE  IInv'
  <2>1. TurnBound'
    <3>. SUFFICES ASSUME NEW k \in Lane
                  PROVE  turnEnd' <= nextPeriodicAt[k] + MaxDeferral + lost[k]
                                       + (MaxTurn + MaxTurn * Cardinality(passed[k]))
      BY <1>7 DEF TurnBound
    <3>1. MaxTurn * Cardinality(passed[k]) \in Nat
      BY <1>2
    <3>. QED
      BY <1>1, <1>7, <3>1 DEF TypeOK, pastDeadline, lateness
  <2>2. now' <= turnEnd'
    BY <1>1, <1>7 DEF TypeOK
  <2>. QED
    BY <1>1, <1>7, <2>1, <2>2 DEF IInv, PassedLater
<1>8. ASSUME NEW d \in 1..MaxTurn, NEW l \in Lane, ClaimEvent(l, d)
      PROVE  IInv'
  <2>1. \A k \in Lane : ~pastDeadline(k)
    BY <1>1, <1>8, EventInTime
  <2>. QED
    BY <1>7, <1>8, <2>1 DEF ClaimEvent, asking, startTurn
<1>9. ASSUME NEW d \in 1..MaxTurn, ClaimNothing(d)
      PROVE  IInv'
  <2>1. \A k \in Lane : ~pastDeadline(k)
    BY <1>1, <1>9 DEF ClaimNothing, due, pastDeadline, lateness, TypeOK
  <2>. QED
    BY <1>7, <1>9, <2>1 DEF ClaimNothing, asking, startTurn, laneState, history
<1>10. ASSUME NEW d \in 1..MaxTurn, Quarantine(d)
      PROVE  IInv'
  <2>1. /\ now' = now /\ now = turnEnd /\ turnEnd' = now + d
        /\ lost' = [l \in Lane |-> lost[l] + d]
        /\ UNCHANGED <<nextPeriodicAt, recoverBy, passed>>
    BY <1>10 DEF Quarantine, asking, startTurn, laneState
  <2>2. TurnBound'
    <3>. SUFFICES ASSUME NEW k \in Lane
                  PROVE  turnEnd' <= nextPeriodicAt[k] + MaxDeferral + (lost[k] + d)
                                       + (MaxTurn + MaxTurn * Cardinality(passed[k]))
      BY <2>1 DEF TurnBound
    <3>1. MaxTurn * Cardinality(passed[k]) \in Nat
      BY <1>2
    <3>2. turnEnd <= nextPeriodicAt[k] + MaxDeferral + lost[k]
                       + (MaxTurn + MaxTurn * Cardinality(passed[k]))
      BY DEF IInv, TurnBound
    <3>. QED
      BY <1>1, <2>1, <3>1, <3>2 DEF TypeOK
  <2>3. now' <= turnEnd'
    BY <1>1, <2>1 DEF TypeOK
  <2>. QED
    BY <1>1, <2>1, <2>2, <2>3 DEF IInv, PassedLater
<1>11. CASE UNCHANGED vars
  BY <1>3, <1>11 DEF vars, clock, laneState, history, IInv
<1>. QED
  BY <1>4, <1>5, <1>6, <1>8, <1>9, <1>10, <1>11 DEF Next

(* However busy the market, a lane's recovery runs at the latest a deferral *)
(* and one turn per lane after it is due, quarantines apart: the invariant  *)
(* counts the turns since the deadline by the lanes that took them.         *)
THEOREM RecoveryOnTime == Spec => []RecoveryBound
<1>1. IInv => RecoveryBound
  <2>. SUFFICES ASSUME IInv, NEW l \in Lane
                PROVE  now <= recoverBy[l] + MaxDeferral + MaxTurn * Cardinality(Lane) + lost[l]
    BY DEF RecoveryBound
  <2>1. l \notin passed[l] /\ passed[l] \subseteq Lane
    BY DEF IInv, PassedLater, TypeOK
  <2>2. IsFiniteSet(passed[l] \cup {l}) /\ passed[l] \cup {l} \subseteq Lane
    BY <2>1, LaneAssumption, FS_Subset
  <2>3. IsFiniteSet(passed[l])
    BY <2>1, LaneAssumption, FS_Subset
  <2>4. Cardinality(passed[l]) + 1 <= Cardinality(Lane)
    BY <2>1, <2>2, <2>3, LaneAssumption, FS_Subset, FS_AddElement, FS_CardinalityType
  <2>5. Cardinality(passed[l]) \in Nat /\ Cardinality(Lane) \in Nat
    BY <2>3, LaneAssumption, FS_CardinalityType
  <2>6. MaxTurn + MaxTurn * Cardinality(passed[l]) <= MaxTurn * Cardinality(Lane)
    <3>. DEFINE c == Cardinality(passed[l])
                n == Cardinality(Lane)
    <3>1. MaxTurn * (c + 1) <= MaxTurn * n
      <4>. HIDE DEF c, n
      <4>. QED
        BY <2>4, <2>5, DurationAssumption DEF c, n
    <3>2. MaxTurn * (c + 1) = MaxTurn + MaxTurn * c
      BY <2>5, DurationAssumption
    <3>. QED
      BY <3>1, <3>2
  <2>7. MaxTurn * Cardinality(passed[l]) \in Nat /\ MaxTurn * Cardinality(Lane) \in Nat
    BY <2>5, DurationAssumption
  <2>8. turnEnd <= nextPeriodicAt[l] + MaxDeferral + lost[l]
                     + (MaxTurn + MaxTurn * Cardinality(passed[l]))
    BY DEF IInv, TurnBound
  <2>. QED
    BY <2>6, <2>7, <2>8, DurationAssumption DEF IInv, TypeOK
<1>. QED
  BY <1>1, InvInit, InvStep, PTL DEF Spec

(* Past its hard deadline a lane waits for recoveries only, and for each    *)
(* other lane's at most once.                                               *)
THEOREM DeadlineIsHard == Spec => PassedOnce
<1>1. IInv /\ [Next]_vars =>
        [\A l \in Lane :
            (asking /\ pastDeadline(l) /\ lastStartedAt' # lastStartedAt) =>
                \E k \in Lane : /\ nextPeriodicAt'[k] # nextPeriodicAt[k]
                                /\ k = l \/ k \notin passed[l]]_vars
  <2>. SUFFICES ASSUME IInv, Next, NEW l \in Lane,
                       asking, pastDeadline(l), lastStartedAt' # lastStartedAt
                PROVE  \E k \in Lane : /\ nextPeriodicAt'[k] # nextPeriodicAt[k]
                                       /\ k = l \/ k \notin passed[l]
    OBVIOUS
  <2>1. PICK d \in 1..MaxTurn, k \in Lane : ClaimPeriodic(k, d) \/ ClaimEvent(k, d)
    BY DEF Next, Tick, Enqueue, enqueueEvent, ClaimNothing, Quarantine, laneState
  <2>2. ClaimPeriodic(k, d)
    BY <2>1, EventInTime DEF IInv
  <2>3. nextPeriodicAt'[k] # nextPeriodicAt[k]
    <3>1. /\ nextPeriodicAt'[k] = now + Period[k]
          /\ now >= nextPeriodicAt[k]
          /\ now \in Nat /\ nextPeriodicAt[k] \in Nat /\ Period[k] \in Nat \ {0}
      BY <2>2, DurationAssumption DEF ClaimPeriodic, IInv, TypeOK, periodicLane, due
    <3>. QED
      BY <3>1
  <2>4. k \notin passed[l]
    BY <2>2, NotAgain
  <2>. QED
    BY <2>3, <2>4
<1>. QED
  BY <1>1, InvInit, InvStep, PTL DEF Spec, PassedOnce

-----------------------------------------------------------------------------
(* What a lane was woken for. *)

(* Merged, an event depends on what either depended on. *)
LEMMA MergedValues ==
    ASSUME NEW pending, NEW event
    PROVE  merged(pending, event).values =
             IF pending = NoEvent THEN event.values ELSE pending.values \cup event.values
  BY DEF merged, mergePendingMarketSignals

(* Every step keeps the dependencies. *)
LEMMA KeepStep == TypeOK /\ KeepsDependencies /\ [Next]_vars => KeepsDependencies'
<1>. SUFFICES ASSUME TypeOK, KeepsDependencies, [Next]_vars PROVE KeepsDependencies'
  OBVIOUS
<1>1. /\ pendingEvent \in [Lane -> Event \cup {NoEvent}] /\ owed \in [Lane -> SUBSET Value]
      /\ \A l \in Lane : owed[l] = pendingEvent[l].values
  BY DEF TypeOK, KeepsDependencies
<1>2. NoEvent.values = {}
  BY DEF NoEvent
<1>3. ASSUME UNCHANGED <<pendingEvent, owed>> PROVE KeepsDependencies'
  BY <1>3 DEF KeepsDependencies
<1>4. ASSUME NEW l \in Lane, NEW event, enqueueEvent(l, event) PROVE KeepsDependencies'
  <2>1. /\ pendingEvent' = [pendingEvent EXCEPT ![l] = merged(pendingEvent[l], event)]
        /\ owed' = [owed EXCEPT ![l] = owed[l] \cup event.values]
    BY <1>4 DEF enqueueEvent
  <2>2. merged(pendingEvent[l], event).values = owed[l] \cup event.values
    <3>1. CASE pendingEvent[l] = NoEvent
      <4>1. merged(pendingEvent[l], event).values = event.values /\ owed[l] = {}
        BY <1>1, <1>2, <3>1, MergedValues
      <4>. QED
        BY <4>1
    <3>2. CASE pendingEvent[l] # NoEvent
      <4>1. merged(pendingEvent[l], event).values = pendingEvent[l].values \cup event.values
        BY <3>2, MergedValues, Zenon
      <4>2. owed[l] = pendingEvent[l].values
        BY <1>1
      <4>. QED
        BY <4>1, <4>2
    <3>. QED
      BY <3>1, <3>2
  <2>. QED
    BY <1>1, <2>1, <2>2 DEF KeepsDependencies
<1>5. ASSUME NEW d \in 1..MaxTurn, NEW l \in Lane, ClaimEvent(l, d) PROVE KeepsDependencies'
  <2>1. /\ pendingEvent' = [pendingEvent EXCEPT ![l] = NoEvent]
        /\ owed' = [owed EXCEPT ![l] = owed[l] \ pendingEvent[l].values]
    BY <1>5 DEF ClaimEvent
  <2>. QED
    BY <1>1, <1>2, <2>1 DEF KeepsDependencies
<1>6. CASE Tick \/ UNCHANGED vars
  BY <1>3, <1>6 DEF Tick, vars, laneState, history
<1>7. ASSUME NEW d \in 1..MaxTurn, NEW l \in Lane,
             ClaimPeriodic(l, d) \/ ClaimNothing(d) \/ Quarantine(d)
      PROVE  KeepsDependencies'
  BY <1>3, <1>7 DEF ClaimPeriodic, ClaimNothing, Quarantine, laneState, history
<1>8. ASSUME NEW d \in 1..MaxTurn, ClaimNothing(d) \/ Quarantine(d) PROVE KeepsDependencies'
  BY <1>3, <1>8 DEF ClaimNothing, Quarantine, laneState, history
<1>. QED
  BY <1>4, <1>5, <1>6, <1>7, <1>8 DEF Next, Enqueue

(* For any lanes, periods and bounds: what a lane was woken for and has not     *)
(* been given is in its pending event, and nothing else is.                     *)
THEOREM DependenciesKept == Spec => []KeepsDependencies
<1>1. Init => KeepsDependencies
  BY DEF Init, KeepsDependencies, NoEvent
<1>. QED
  BY <1>1, KeepStep, TypeCorrect, PTL DEF Spec

--------------------------------------------------------------------------------
(* The types.  What the invariants above leave out: nothing is beyond what the  *)
(* bounds allow, and what a part lists is of its configuration.                 *)

HotRange ==
  /\ Hot!Height <= HotBlocks /\ gaps \subseteq 1 .. HotBlocks
  /\ queue.pending \in queue.seen \cup {0}

LEMMA HotRangeBegins == Hot!HotInit => HotRange
<1> SUFFICES ASSUME Hot!HotInit PROVE HotRange
  OBVIOUS
<1>1. Hot!Height = 0
  BY FS_EmptySet, HotCardinality DEF Hot!Height, Hot!HotInit
<1> QED
  BY <1>1, BoundsAssumption DEF Hot!HotInit, HotRange, Hot!NoQueue

LEMMA HotRangeKept ==
  ASSUME HotInv, HotInv', HotRange, [Hot!HotNext]_hotVars
  PROVE  HotRange'
<1>0. /\ Hot!Height \in Nat /\ Hot!Height' \in Nat /\ HotBlocks \in Nat
      /\ DOMAIN chain = 1 .. Hot!Height /\ DOMAIN chain' = 1 .. Hot!Height'
      /\ queue = [seen |-> queue.seen, pending |-> queue.pending] /\ queue.seen \subseteq 1 .. Hot!Height
      /\ Hot!Height <= HotBlocks /\ gaps \subseteq 1 .. HotBlocks /\ queue.pending \in queue.seen \cup {0}
  <2>1. HotTypes /\ HotTypes'
    BY DEF HotInv
  <2>2. queue = [seen |-> queue.seen, pending |-> queue.pending]
    BY <2>1 DEF HotTypes
  <2>3. DOMAIN chain' = 1 .. Hot!Height' /\ Hot!Height' \in Nat
    BY <2>1 DEF HotTypes
  <2> QED
    BY <2>1, <2>2, <2>3, HotFacts, BoundsAssumption DEF HotRange
<1>1. ASSUME UNCHANGED chain PROVE Hot!Height' = Hot!Height
  BY <1>1 DEF Hot!Height
<1>2. ASSUME UNCHANGED <<chain, gaps>>, queue' = queue \/ queue' = Hot!NoQueue PROVE HotRange'
  BY <1>0, <1>1, <1>2 DEF HotRange, Hot!NoQueue
<1>3. ASSUME NEW busy \in BOOLEAN, Hot!NewBlock(busy) PROVE HotRange'
  <2>1. Hot!Height < HotBlocks /\ DOMAIN chain' = 1 .. Hot!Height + 1 /\ UNCHANGED <<gaps, queue>>
    BY <1>3 DEF Hot!NewBlock
  <2>2. Hot!Height' <= Hot!Height + 1
    <3>1. Hot!Height' > 0 => Hot!Height' \in DOMAIN chain'
      BY <1>0
    <3> QED
      BY <1>0, <2>1, <3>1
  <2> QED
    BY <1>0, <2>1, <2>2 DEF HotRange
<1>4. ASSUME NEW depth \in 1 .. ReorgLookback, Hot!Reorganise(depth) PROVE HotRange'
  <2>1. DOMAIN chain' = DOMAIN chain /\ UNCHANGED <<gaps, queue>>
    BY <1>4 DEF Hot!Reorganise
  <2>2. Hot!Height' = Hot!Height
    BY <2>1 DEF Hot!Height
  <2> QED
    BY <1>0, <2>1, <2>2 DEF HotRange
<1>5. CASE Hot!ReadHead
  <2>1. /\ queue' = IF Hot!stale(cursor, Hot!Height) THEN Hot!NoQueue ELSE queue
        /\ gaps' = gaps \cup IF Hot!stale(cursor, Hot!Height) THEN cursor.next .. Hot!recovered(cursor, Hot!Height).next - 1 ELSE {}
        /\ UNCHANGED chain
    BY <1>5 DEF Hot!ReadHead
  <2>2. CASE ~Hot!stale(cursor, Hot!Height)
    <3>1. gaps' = gaps /\ queue' = queue
      BY <2>1, <2>2
    <3> QED
      BY <1>2, <2>1, <3>1
  <2>3. CASE Hot!stale(cursor, Hot!Height)
    <3>1. Hot!recovered(cursor, Hot!Height).next = Hot!resumeBlock(Hot!Height) /\ cursor.next # 0
      BY <2>3 DEF Hot!recovered, Hot!stale
    <3>2. Hot!safeHead(Hot!Height) \in Nat /\ Hot!safeHead(Hot!Height) <= Hot!Height
      BY <1>0, Confirmed
    <3>3. Hot!resumeBlock(Hot!Height) \in Nat /\ Hot!resumeBlock(Hot!Height) <= Hot!Height + 1
      <4>1. ReorgLookback \in Nat
        BY ServicesAssumption
      <4> QED
        BY <1>0, <3>2, <4>1 DEF Hot!resumeBlock
    <3>4. cursor.next \in Nat
      BY HotFacts DEF HotInv
    <3>5. gaps' \subseteq 1 .. HotBlocks
      BY <1>0, <2>1, <2>3, <3>1, <3>3, <3>4
    <3> QED
      BY <1>0, <1>1, <2>1, <2>3, <3>5 DEF HotRange, Hot!NoQueue
  <2> QED
    BY <2>2, <2>3
<1>6. CASE Hot!QueueLogs
  <2>1. PICK latest : latest = Hot!latestSwap(poll.from, poll.to)
    OBVIOUS
  <2>2. queue' = Hot!offered(latest) /\ UNCHANGED <<chain, gaps>>
    BY <1>6, <2>1 DEF Hot!QueueLogs
  <2>3. CASE latest = 0 \/ latest \in queue.seen
    BY <1>2, <2>2, <2>3 DEF Hot!offered
  <2>4. CASE ~(latest = 0 \/ latest \in queue.seen)
    <3>1. queue' = [seen |-> queue.seen \cup {latest}, pending |-> Hot!Max({queue.pending, latest})]
      BY <2>2, <2>4 DEF Hot!offered
    <3>2. latest \in queue'.seen /\ queue'.seen \subseteq 1 .. Hot!Height
      <4>1. queue'.seen \subseteq DOMAIN chain'
        BY DEF HotInv, HotTypes
      <4> QED
        BY <1>0, <2>2, <3>1, <4>1
    <3>3. latest \in Int /\ queue.pending \in Int
      BY <1>0, <3>2
    <3>4. queue'.pending \in {queue.pending, latest}
      BY <3>1, <3>3, HotMax
    <3> QED
      BY <1>0, <1>1, <2>2, <3>1, <3>4 DEF HotRange
  <2> QED
    BY <2>3, <2>4
<1>7. CASE Hot!TakeWake
  <2>1. queue' = [seen |-> queue.seen, pending |-> 0] /\ UNCHANGED <<chain, gaps>>
    BY <1>0, <1>7 DEF Hot!TakeWake
  <2> QED
    BY <1>0, <1>1, <2>1 DEF HotRange
<1>8. CASE Hot!Fail \/ Hot!StartCursor \/ Hot!CheckAnchor \/ Hot!Advance \/ Hot!PersistState \/ Hot!Restart \/ UNCHANGED hotVars
  BY <1>2, <1>8 DEF Hot!Fail, Hot!StartCursor, Hot!CheckAnchor, Hot!Advance, Hot!PersistState, Hot!Restart, hotVars
<1> QED
  BY <1>3, <1>4, <1>5, <1>6, <1>7, <1>8 DEF Hot!HotNext

LEMMA HotTyped == HotInv /\ HotRange => Hot!HotTypeOK
<1> SUFFICES ASSUME HotInv, HotRange PROVE Hot!HotTypeOK
  OBVIOUS
<1>1. HotTypes /\ Placed(cursor) /\ PollPlaced
  BY DEF HotInv, CursorInv
<1>2. cursor.next \in Nat /\ cursor.last \in Nat /\ Hot!Height \in Nat /\ HotBlocks \in Nat
  BY <1>1, HotFacts, BoundsAssumption
<1>3. cursor.next <= Hot!Height + 1 /\ (cursor.last # 0 => cursor.next = cursor.last + 1)
  BY <1>1 DEF Placed
<1>4. poll.pc # "idle" => poll.from <= poll.to /\ poll.to <= Hot!safeHead(poll.head)
  BY <1>1, PollWithin
<1>5. poll.pc \in {"idle", "anchor", "logs", "final"}
  BY <1>1 DEF HotTypes
<1> QED
  BY <1>2, <1>3, <1>4, <1>5 DEF HotRange, Hot!HotTypeOK

LEMMA FeedTyped == FeedInv => Sequencer!FeedTypeOK
<1> SUFFICES ASSUME FeedInv PROVE Sequencer!FeedTypeOK
  OBVIOUS
<1>1. lastNumber \in 0 .. MaxNumber /\ heard \in [Sequencer!Number -> Nat] /\ reported \subseteq Sequencer!Number
  BY DEF FeedInv, HeardInv
<1>2. ASSUME NEW n \in Sequencer!Number PROVE heard[n] \in 0 .. 2
  <2>1. heard[n] \in Nat
    BY <1>1
  <2>2. heard[n] + (IF n \in reported THEN 1 ELSE 0) + (IF n \in frameHoles THEN 1 ELSE 0) \in {0, 1}
    BY DEF FeedInv, HeardInv, Sequencer!HeardOnce
  <2> QED
    BY <2>1, <2>2
<1>3. \A s \in DOMAIN sockets : sockets[s] \in {"connecting", "open", "over", "ended"}
  BY DEF FeedInv, ConnectionInv
<1>4. heard \in [Sequencer!Number -> 0 .. 2]
  BY <1>1, <1>2
<1> QED
  BY <1>1, <1>3, <1>4 DEF Sequencer!FeedTypeOK

BudgetRange(P) == today <= MaxDay /\ wakeCalls \in [P -> 0 .. WakeCap]

LEMMA BudgetRangeBegins ==
  /\ Fallback!BudgetInit => BudgetRange({"worker", "child"})
  /\ HotRpc!BudgetInit => BudgetRange({})
<1>1. 0 \in 0 .. WakeCap /\ 1 <= MaxDay
  BY ServicesAssumption, BoundsAssumption
<1>2. ASSUME Fallback!BudgetInit PROVE BudgetRange({"worker", "child"})
  <2>1. today = 1 /\ wakeCalls = [p \in {"worker", "child"} |-> 0]
    BY <1>2 DEF Fallback!BudgetInit
  <2> QED
    BY <1>1, <2>1 DEF BudgetRange
<1>3. ASSUME HotRpc!BudgetInit PROVE BudgetRange({})
  <2>1. today = 1 /\ wakeCalls = [p \in {} |-> 0]
    BY <1>3 DEF HotRpc!BudgetInit
  <2> QED
    BY <1>1, <2>1 DEF BudgetRange
<1> QED
  BY <1>2, <1>3

LEMMA BudgetRangeKept ==
  /\ BudgetInv({"worker", "child"}) /\ BudgetRange({"worker", "child"}) /\ [Fallback!BudgetNext]_budgetVars
       => BudgetRange({"worker", "child"})'
  /\ BudgetInv({"board"}) /\ BudgetRange({}) /\ [HotRpc!BudgetNext]_budgetVars => BudgetRange({})'
<1>0. WakeCap \in Nat /\ MaxDay \in Nat /\ \A n \in Batch : n \in Nat
  BY ServicesAssumption, BoundsAssumption
<1>1. ASSUME NEW P, today \in Nat, BudgetRange(P), today < MaxDay, today' = today + 1, UNCHANGED wakeCalls
      PROVE  BudgetRange(P)'
  BY <1>0, <1>1 DEF BudgetRange
<1>2. ASSUME NEW P, BudgetRange(P), UNCHANGED <<today, wakeCalls>>
      PROVE  BudgetRange(P)'
  BY <1>2 DEF BudgetRange
<1>3. ASSUME BudgetInv({"worker", "child"}), BudgetRange({"worker", "child"}), [Fallback!BudgetNext]_budgetVars
      PROVE  BudgetRange({"worker", "child"})'
  <2> DEFINE P == {"worker", "child"}
  <2>0. today \in Nat /\ Fallback!Process = P
    BY <1>3 DEF BudgetInv, Fallback!Process
  <2>1. ASSUME NEW p \in P, Fallback!BeginWake(p) PROVE BudgetRange(P)'
    <3>1. UNCHANGED today /\ wakeCalls' = [wakeCalls EXCEPT ![p] = 0]
      BY <2>1 DEF Fallback!BeginWake
    <3> QED
      BY <1>0, <1>3, <3>1 DEF BudgetRange
  <2>2. ASSUME NEW p \in P, NEW n \in Batch, Fallback!FallBack(p, n) PROVE BudgetRange(P)'
    <3>1. UNCHANGED today
      BY <2>2 DEF Fallback!FallBack
    <3>2. CASE UNCHANGED wakeCalls
      BY <1>2, <1>3, <3>1, <3>2
    <3>3. CASE Fallback!allows(p, n) /\ wakeCalls' = [wakeCalls EXCEPT ![p] = @ + n]
      <4>1. wakeCalls[p] + n <= WakeCap /\ wakeCalls[p] \in Nat /\ wakeCalls' = [wakeCalls EXCEPT ![p] = wakeCalls[p] + n]
        BY <1>3, <3>3 DEF Fallback!allows, BudgetRange
      <4>2. wakeCalls[p] + n \in 0 .. WakeCap
        BY <1>0, <4>1
      <4> QED
        BY <1>3, <3>1, <4>1, <4>2 DEF BudgetRange
    <3> QED
      BY <2>2, <3>2, <3>3 DEF Fallback!FallBack, Fallback!consumeNestedLogicalCallBudgets
  <2>3. ASSUME NEW p \in P, Fallback!Restart(p) PROVE BudgetRange(P)'
    <3>1. UNCHANGED today /\ wakeCalls' = [q \in P |-> IF q = p THEN 0 ELSE wakeCalls[q]]
      BY <2>3 DEF Fallback!Restart
    <3> QED
      BY <1>0, <1>3, <3>1 DEF BudgetRange
  <2>4. CASE Fallback!Midnight
    BY <1>1, <1>3, <2>0, <2>4 DEF Fallback!Midnight
  <2>5. CASE Fallback!LeaveHot \/ UNCHANGED budgetVars
    BY <1>2, <1>3, <2>5 DEF Fallback!LeaveHot, budgetVars
  <2> QED
    BY <1>3, <2>0, <2>1, <2>2, <2>3, <2>4, <2>5 DEF Fallback!BudgetNext
<1>4. ASSUME BudgetInv({"board"}), BudgetRange({}), [HotRpc!BudgetNext]_budgetVars
      PROVE  BudgetRange({})'
  <2>0. today \in Nat /\ HotRpc!Process = {"board"}
    BY <1>4 DEF BudgetInv, HotRpc!Process
  <2>1. ASSUME NEW p \in {"board"}, NEW n \in Batch, HotRpc!QuoteCall(p, n) PROVE BudgetRange({})'
    BY <1>2, <1>4, <2>1 DEF HotRpc!QuoteCall
  <2>2. ASSUME NEW p \in {"board"}, NEW n \in Batch, NEW priority, HotRpc!BeginCycle(p, priority, n) PROVE BudgetRange({})'
    BY <1>2, <1>4, <2>2 DEF HotRpc!BeginCycle
  <2>3. ASSUME NEW p \in {"board"}, HotRpc!Restart(p) PROVE BudgetRange({})'
    <3>1. UNCHANGED today /\ wakeCalls' = [q \in {} |-> IF q = p THEN 0 ELSE wakeCalls[q]]
      BY <2>3 DEF HotRpc!Restart
    <3> QED
      BY <1>0, <1>4, <3>1 DEF BudgetRange
  <2>4. CASE HotRpc!Midnight
    BY <1>1, <1>4, <2>0, <2>4 DEF HotRpc!Midnight
  <2>5. CASE HotRpc!LeaveHot \/ UNCHANGED budgetVars
    BY <1>2, <1>4, <2>5 DEF HotRpc!LeaveHot, budgetVars
  <2> QED
    BY <1>4, <2>0, <2>1, <2>2, <2>3, <2>4, <2>5 DEF HotRpc!BudgetNext
<1> QED
  BY <1>3, <1>4

LEMMA BudgetTyped ==
  /\ BudgetInv({"worker", "child"}) /\ BudgetRange({"worker", "child"}) => Fallback!BudgetTypeOK
  /\ BudgetInv({"board"}) /\ BudgetRange({}) => HotRpc!BudgetTypeOK
<1>1. ASSUME NEW P, BudgetInv(P), today <= MaxDay
      PROVE  today \in 1 .. MaxDay /\ budgetFile.day \in 0 .. today /\ \A p \in P : budgets[p].day \in 0 .. today
  BY <1>1, BoundsAssumption DEF BudgetInv, Within
<1>2. ASSUME BudgetInv({"worker", "child"}), BudgetRange({"worker", "child"}) PROVE Fallback!BudgetTypeOK
  BY <1>1, <1>2 DEF BudgetRange, Fallback!BudgetTypeOK, Fallback!Process
<1>3. ASSUME BudgetInv({"board"}), BudgetRange({}) PROVE HotRpc!BudgetTypeOK
  BY <1>1, <1>3 DEF BudgetRange, HotRpc!BudgetTypeOK, HotRpc!Process
<1> QED
  BY <1>2, <1>3

AlertRange ==
  /\ health.state \in {"none", "INACTIVE", "GRACE", "CRITICAL", "DEGRADED", "HEALTHY"}
  /\ told \in {"none", "ALERT", "RECOVERY"} /\ since \subseteq {"INACTIVE", "GRACE", "CRITICAL", "DEGRADED", "HEALTHY"}
  /\ unrecorded \in 0 .. MaxUntold

LEMMA AlertRangeBegins == Watched!AlertInit => AlertRange
  BY BoundsAssumption DEF Watched!AlertInit, AlertRange

LEMMA AlertRangeKept == ASSUME AlertInv, AlertRange, [Watched!AlertNext]_alertVars PROVE AlertRange'
<1>0. \A h \in Watched!Healths : h \in {"INACTIVE", "CRITICAL", "GRACE", "DEGRADED", "HEALTHY"}
  BY HealthsAre
<1>1. ASSUME NEW h \in Watched!Healths, Watched!CheckQuietly(h) PROVE AlertRange'
  <2>1. health' = [state |-> h, notification |-> health.notification] /\ since' = since \cup {h} /\ UNCHANGED <<told, unrecorded>>
    BY <1>1 DEF Watched!CheckQuietly, AlertInv
  <2> QED
    BY <1>0, <2>1 DEF AlertRange
<1>2. ASSUME NEW h \in Watched!Healths, Watched!CheckAndTell(h) PROVE AlertRange'
  BY <1>0, <1>2 DEF Watched!CheckAndTell, Watched!criticalAlertTransition, AlertRange
<1>3. ASSUME NEW h \in Watched!Healths, Watched!TellUnrecorded(h) PROVE AlertRange'
  BY <1>0, <1>3, BoundsAssumption DEF Watched!TellUnrecorded, Watched!criticalAlertTransition, AlertRange
<1>4. CASE UNCHANGED alertVars
  BY <1>4 DEF alertVars, AlertRange
<1> QED
  BY <1>1, <1>2, <1>3, <1>4 DEF Watched!AlertNext

LEMMA AlertTyped == AlertRange => Watched!AlertTypeOK
  BY DEF AlertRange, Watched!AlertTypeOK, Watched!tradable

Listed(s) == s = << >> \/ s[1].ids \subseteq Value
BoardRange ==
  /\ feed \subseteq Value /\ prev.ids \subseteq Value /\ log.twice \subseteq Value
  /\ Listed(saved.file) /\ Listed(saved.sqlite) /\ ledger.inserted \subseteq 1 .. ledger.length

LEMMA BoardRangeBegins == Board!PubInit => BoardRange
  BY DEF Board!PubInit, BoardRange, Board!NoItems, Listed

(* A ledger of n records, of which those in S are inserted. *)
LEMMA LedgerBounds ==
  ASSUME NEW led, led = [length |-> led.length, inserted |-> led.inserted, offset |-> led.offset],
         led.length \in Nat, led.offset \in Nat, led.inserted \subseteq 1 .. led.length,
         NEW k, \/ k = Board!appended(led) \/ k = Board!replayed(led) \/ k = Board!committed(Board!appended(led))
  PROVE  /\ k = [length |-> k.length, inserted |-> k.inserted, offset |-> k.offset]
         /\ k.length \in Nat /\ k.offset \in Nat /\ k.inserted \subseteq 1 .. k.length
<1>1. CASE k = Board!appended(led)
  <2>1. k = [length |-> led.length + 1, inserted |-> led.inserted, offset |-> led.offset]
    BY <1>1, LedgerWrites
  <2> QED
    BY <2>1
<1>2. CASE k = Board!replayed(led)
  <2>1. k.length = led.length /\ k.offset = led.length /\ k.inserted = led.inserted \cup ((led.offset + 1) .. led.length)
        /\ k = [length |-> k.length, inserted |-> k.inserted, offset |-> k.offset]
    BY <1>2, LedgerFields, ZenonT(40)
  <2> QED
    BY <2>1
<1>3. CASE k = Board!committed(Board!appended(led))
  <2>1. PICK m : m = Board!appended(led)
    OBVIOUS
  <2>2. m = [length |-> m.length, inserted |-> m.inserted, offset |-> m.offset]
        /\ m.length = led.length + 1 /\ m.inserted = led.inserted
    BY <2>1, LedgerWrites
  <2>3. k = Board!committed(m)
    BY <1>3, <2>1
  <2>4. k.length = m.length /\ k.offset = m.length /\ k.inserted = m.inserted \cup {m.length}
        /\ k = [length |-> k.length, inserted |-> k.inserted, offset |-> k.offset]
    BY <2>2, <2>3, LedgerFields, Zenon
  <2> QED
    BY <2>2, <2>4
<1> QED
  BY <1>1, <1>2, <1>3

LEMMA PublishRange == ASSUME BoardInv, BoardRange, NEW commit \in BOOLEAN, Board!Publish(commit) PROVE BoardRange'
<1>1. catalog \subseteq Value /\ LedgerInv
  BY DEF BoardInv, BoardTypes
<1>2. /\ saved' = [file |-> <<Board!reconciled>>, sqlite |-> IF commit THEN <<Board!reconciled>> ELSE saved.sqlite]
      /\ feed' = {c \in catalog : obs[c] = "positive"} /\ prev' = Board!reconciled
      /\ log' = Board!appendEvents
      /\ ledger' = IF commit THEN Board!committed(Board!appended(ledger)) ELSE Board!appended(ledger)
  BY DEF Board!Publish
<1>3. Board!reconciled.ids = catalog
  BY DEF Board!reconciled
<1>4. Listed(<<Board!reconciled>>)
  BY <1>1, <1>3 DEF Listed
<1>5. Listed(saved.file)' /\ Listed(saved.sqlite)'
  <2>1. saved'.file = <<Board!reconciled>> /\ saved'.sqlite \in {<<Board!reconciled>>, saved.sqlite}
    BY <1>2
  <2>2. Listed(saved'.file) /\ Listed(saved'.sqlite)
    BY <1>4, <2>1 DEF BoardRange
  <2> QED
    BY <2>2 DEF Listed
<1>6. log'.twice \subseteq Value
  BY <1>1, <1>2 DEF Board!appendEvents, Board!opened, BoardRange
<1>7. ledger'.inserted \subseteq 1 .. ledger'.length
  <2>1. ledger' = Board!appended(ledger) \/ ledger' = Board!committed(Board!appended(ledger))
    BY <1>2
  <2> QED
    BY <1>1, <2>1, LedgerBounds DEF LedgerInv, BoardRange
<1> QED
  BY <1>1, <1>2, <1>3, <1>5, <1>6, <1>7 DEF BoardRange

LEMMA RestartRange == ASSUME BoardInv, BoardRange, NEW n \in 0 .. 4, Board!Restart(n) PROVE BoardRange'
<1>1. catalog \subseteq Value /\ LedgerInv
  BY DEF BoardInv, BoardTypes
<1>2. PICK written, loaded, start, tail :
        /\ written = IF n >= 1 THEN <<Board!reconciled>> ELSE saved.file
        /\ loaded = IF saved.sqlite # << >> THEN saved.sqlite ELSE written
        /\ start = IF loaded = << >> THEN Board!NoItems ELSE loaded[1]
        /\ tail = Board!replayed(IF n >= 4 THEN Board!appended(ledger) ELSE ledger)
        /\ saved' = [file |-> written, sqlite |-> loaded]
        /\ ledger' = IF saved.sqlite # loaded THEN Board!committed(Board!appended(tail)) ELSE tail
        /\ prev' = start
        /\ obs' = [c \in Value |-> IF obs[c] \in {"stale", "unknown"} THEN Board!aged(start.obs[c]) ELSE start.obs[c]]
  BY DEF Board!Restart
<1>3. log' = (IF n >= 3 THEN Board!appendEvents ELSE log) /\ feed' \subseteq prev'.ids
  BY DEF Board!Restart
<1>4. Listed(written) /\ Listed(loaded)
  <2>1. Board!reconciled.ids = catalog
    BY DEF Board!reconciled
  <2>2. Listed(<<Board!reconciled>>)
    BY <1>1, <2>1 DEF Listed
  <2> QED
    BY <1>2, <2>2 DEF BoardRange
<1>5. start.ids \subseteq Value
  BY <1>2, <1>4 DEF Listed, Board!NoItems
<1>6. Listed(saved.file)' /\ Listed(saved.sqlite)'
  <2>1. Listed(saved'.file) /\ Listed(saved'.sqlite)
    BY <1>2, <1>4
  <2> QED
    BY <2>1 DEF Listed
<1>7. log'.twice \subseteq Value
  BY <1>1, <1>3 DEF Board!appendEvents, Board!opened, BoardRange
<1>8. ledger'.inserted \subseteq 1 .. ledger'.length
  <2> DEFINE Bounded(k) ==
        /\ k = [length |-> k.length, inserted |-> k.inserted, offset |-> k.offset]
        /\ k.length \in Nat /\ k.offset \in Nat /\ k.inserted \subseteq 1 .. k.length
  <2>1. Bounded(ledger)
    BY <1>1 DEF LedgerInv, BoardRange
  <2>2. \A led : Bounded(led) => Bounded(Board!appended(led)) /\ Bounded(Board!replayed(led))
                                 /\ Bounded(Board!committed(Board!appended(led)))
    BY LedgerBounds
  <2> HIDE DEF Bounded
  <2>3. Bounded(tail)
    BY <1>2, <2>1, <2>2
  <2>4. Bounded(ledger')
    BY <1>2, <2>2, <2>3
  <2> QED
    BY <2>4 DEF Bounded
<1> QED
  BY <1>2, <1>3, <1>5, <1>6, <1>7, <1>8 DEF BoardRange

LEMMA BoardRangeKept == ASSUME BoardInv, BoardRange, [Board!PubNext]_boardVars PROVE BoardRange'
<1>1. ASSUME UNCHANGED <<prev, feed, log, ledger, saved>> PROVE BoardRange'
  BY <1>1 DEF BoardRange, Listed
<1>2. CASE \/ Board!Age \/ UNCHANGED boardVars
           \/ (\E refreshed \in SUBSET Value : \E selected \in SUBSET refreshed : Board!BeginPeriodic(refreshed, selected))
           \/ (\E woken \in SUBSET Value \ {{}} : Board!BeginEvent(woken))
           \/ (\E results \in [Value -> Board!quotes] : Board!QuoteCandidates(results))
  BY <1>1, <1>2 DEF Board!Age, Board!BeginPeriodic, Board!BeginEvent, Board!QuoteCandidates, boardVars
<1>3. ASSUME NEW commit \in BOOLEAN, Board!CycleFails(commit) \/ Board!PositiveCheckpoint(commit) \/ Board!FinishCycle(commit)
      PROVE  BoardRange'
  <2>1. Board!Publish(commit) \/ UNCHANGED <<prev, feed, log, ledger, saved>>
    BY <1>3 DEF Board!CycleFails, Board!PositiveCheckpoint, Board!FinishCycle
  <2> QED
    BY <1>1, <2>1, PublishRange
<1> QED
  BY <1>2, <1>3, RestartRange, Zenon DEF Board!PubNext

LEMMA BoardTyped == BoardInv /\ BoardRange => Board!PubTypeOK
  BY DEF BoardInv, BoardTypes, LedgerInv, BoardRange, Board!PubTypeOK

(* A catalog's cursors: pools are read no further than launches. *)
InRange(c) == c["pool"] <= c["long"] /\ c["pool"] <= c["doppler"] /\ c["chain"] <= SourceBlocks + 1
HeadRange == head <= SourceBlocks /\ sourceCycle.fixed <= head
FactRange ==
  /\ mem.launches \subseteq SourceLaunch /\ mem.index \subseteq mem.launches
  /\ mem.pools \subseteq SourcePool /\ mem.pair \subseteq PairBlock
  /\ disk.pools \subseteq SourcePool /\ disk.pair \subseteq PairBlock
CursorRange == InRange(mem.cursors) /\ InRange(disk.cursors) /\ InRange(Durable)

(* An adapter yet to be read stands where something is left to read. *)
Waits(a) == sourceCycle.left \in {<<Adapters>>, <<{a}>>, <<{"long"}, {"doppler"}>>}
Behind == \A a \in Adapters : Waits(a) => mem.cursors[a] <= sourceCycle.fixed

SourceRange == HeadRange /\ FactRange /\ CursorRange /\ Behind

LEMMA SourceRangeBegins == Source!SourceInit => SourceRange
<1> SUFFICES ASSUME Source!SourceInit PROVE SourceRange
  OBVIOUS
<1>1. mem.cursors = Source!Start /\ disk.cursors = Source!Start /\ Durable = Source!Start
  BY DEF Source!SourceInit, Durable, Source!durableCursors
<1>2. InRange(Source!Start)
  BY BoundsAssumption DEF InRange, Source!Start
<1>3. HeadRange /\ FactRange /\ Behind
  BY BoundsAssumption DEF Source!SourceInit, HeadRange, FactRange, Behind, Waits, Source!Idle
<1> QED
  BY <1>1, <1>2, <1>3 DEF SourceRange, CursorRange

LEMMA HeadKept == ASSUME SourceTypes, HeadRange, Source!SourceNext PROVE HeadRange'
<1>1. CycleTypes
  BY SourceTypesParts
<1>2. head \in Nat /\ sourceCycle.fixed \in Nat /\ SourceBlocks \in Nat
  BY <1>1, BoundsAssumption DEF CycleTypes
<1>3. CASE Source!NewBlock
  BY <1>2, <1>3 DEF Source!NewBlock, HeadRange
<1>4. ASSUME head' = head, sourceCycle'.fixed \in {0, head, sourceCycle.fixed} PROVE HeadRange'
  BY <1>2, <1>4 DEF HeadRange
<1>5. CASE sourceCycle' = Source!Idle /\ head' = head
  BY <1>4, <1>5, CycleEnds DEF CycleIs
<1>6. CASE \E late \in BOOLEAN : Source!BeginCycle(late)
  BY <1>4, <1>6, CycleBegins DEF CycleIs
<1>7. CASE \/ Source!RefreshCatalog \/ Source!FixedBlock \/ Source!LaunchReadFails \/ Source!ReadPools \/ Source!ReadChain
           \/ Source!StageFails \/ Source!ChainWriteFails \/ Source!WriteProjection
  <2>1. head' = head
    BY <1>7 DEF Source!RefreshCatalog, Source!FixedBlock, Source!LaunchReadFails, Source!ReadPools, Source!ReadChain,
                Source!StageFails, Source!ChainWriteFails, Source!WriteProjection
  <2>2. sourceCycle'.fixed \in {head, sourceCycle.fixed}
    BY <1>1, <1>7, CycleGoesOn DEF CycleIs, Keeps
  <2> QED
    BY <1>4, <2>1, <2>2
<1>8. CASE Source!PlanLaunches
  <2>1. head' = head
    BY <1>8 DEF Source!PlanLaunches
  <2>2. sourceCycle'.fixed = sourceCycle.fixed
    BY <1>1, <1>8, CyclePlans DEF CycleIs
  <2> QED
    BY <1>4, <2>1, <2>2
<1>9. CASE \E bad \in SUBSET Adapters : Source!ReadLaunches(bad)
  <2>1. head' = head
    BY <1>9 DEF Source!ReadLaunches
  <2>2. sourceCycle'.fixed = sourceCycle.fixed
    BY <1>1, <1>9, CycleReads DEF CycleIs
  <2> QED
    BY <1>4, <2>1, <2>2
<1>10. CASE Source!HotAdvance \/ Source!HotFails \/ Source!HotIngest
  BY <1>4, <1>10 DEF Source!HotAdvance, Source!HotFails, Source!HotIngest
<1>11. \/ Source!AbandonCycle \/ Source!CommitCursors \/ Source!CommitFails \/ Source!Restart
       => sourceCycle' = Source!Idle /\ head' = head
  BY DEF Source!AbandonCycle, Source!CommitCursors, Source!CommitFails, Source!Restart
<1> QED
  BY <1>3, <1>5, <1>6, <1>7, <1>8, <1>9, <1>10, <1>11, SourceMoves, Zenon DEF SourceSteps

LEMMA FactKept == ASSUME SourceTypes, LeftInv, LaunchInv, FactRange, Source!SourceNext PROVE FactRange'
<1>1. DiskTypes
  BY SourceTypesParts
<1>2. /\ mem'.launches \subseteq SourceLaunch /\ mem'.index \subseteq mem'.launches
      /\ mem'.pools \subseteq SourcePool /\ mem'.pair \subseteq PairBlock
  <2>1. CASE \E bad \in SUBSET Adapters : Source!ReadLaunches(bad)
    BY <2>1, LaunchesWrites DEF LaunchesEffect, FactRange
  <2>2. CASE mem' = mem \/ RefreshEffect \/ PlanEffect \/ PollEffect
    BY <2>2 DEF RefreshEffect, PlanEffect, PollEffect, SameLaunches, FactRange
  <2>3. CASE PoolsEffect
    BY <2>3 DEF PoolsEffect, FactRange
  <2>4. CASE ChainEffect
    BY <2>4 DEF ChainEffect, FactRange
  <2>5. CASE RestartEffect
    BY <2>5 DEF RestartEffect, FactRange, LaunchInv
  <2> QED
    BY <2>1, <2>2, <2>3, <2>4, <2>5, SourceMoves, Zenon DEF SourceSteps
<1>3. disk'.pools \in {disk.pools, mem.pools} /\ disk'.pair \in {disk.pair, mem.pair}
  <2>1. \/ disk' = disk \/ (\E c : disk' = [disk EXCEPT !.cursors = c]) \/ disk' = [disk EXCEPT !.pair = mem.pair]
        \/ (\E c, n : disk' = [disk EXCEPT !.cursors = c, !.hot = n])
        \/ disk' = [disk EXCEPT !.launches = mem.launches, !.pools = mem.pools]
    <3>1. \A bad : Source!ReadLaunches(bad) => disk' = disk
      BY DEF Source!ReadLaunches
    <3>2. CASE Source!AbandonCycle \/ Source!HotAdvance \/ Source!ReadChain \/ Source!WriteProjection \/ Source!CommitCursors
      BY <3>2 DEF Source!AbandonCycle, Source!HotAdvance, Source!ReadChain, Source!WriteProjection, Source!CommitCursors
    <3>3. SourceSteps => disk' = disk \/ Source!AbandonCycle \/ Source!HotAdvance \/ Source!ReadChain \/ Source!WriteProjection
                         \/ Source!CommitCursors
      BY DEF SourceSteps, Source!NewBlock, Source!BeginCycle, Source!FixedBlock, Source!LaunchReadFails, Source!StageFails,
             Source!ChainWriteFails, Source!CommitFails, Source!HotFails, Source!RefreshCatalog, Source!PlanLaunches,
             Source!ReadPools, Source!HotIngest, Source!Restart
    <3> QED
      BY <3>1, <3>2, <3>3, SourceMoves
  <2> QED
    BY <1>1, <2>1 DEF DiskTypes
<1> QED
  BY <1>2, <1>3 DEF FactRange

LEMMA GroupsBehind ==
  ASSUME NEW a \in Adapters, Source!groups \in {<<Adapters>>, <<{a}>>, <<{"long"}, {"doppler"}>>}
  PROVE  mem.cursors[a] <= sourceCycle.fixed
<1>1. a \in Source!active
  <2>1. CASE Source!active = Source!Adapter
    BY <2>1 DEF Source!Adapter, Adapters
  <2>2. CASE Source!active # Source!Adapter /\ a \notin Source!active
    <3>1. Source!groups = (IF "long" \in Source!active THEN <<{"long"}>> ELSE << >>)
                          \o (IF "doppler" \in Source!active THEN <<{"doppler"}>> ELSE << >>)
      BY <2>2 DEF Source!groups
    <3>2. <<{"long"}>> \o << >> = <<{"long"}>> /\ << >> \o <<{"doppler"}>> = <<{"doppler"}>> /\ << >> \o << >> = << >>
      BY ShortSequences, Zenon
    <3>3. {"long"} # Adapters /\ {"doppler"} # Adapters /\ {"long"} # {"doppler"}
      BY DEF Adapters
    <3>4. CASE a = "long"
      <4>1. Source!groups \in {<< >>, <<{"doppler"}>>}
        BY <2>2, <3>1, <3>2, <3>4
      <4>2. << >> \notin {<<Adapters>>, <<{"long"}>>, <<{"long"}, {"doppler"}>>}
            /\ <<{"doppler"}>> \notin {<<Adapters>>, <<{"long"}>>, <<{"long"}, {"doppler"}>>}
        BY <3>3
      <4> QED
        BY <3>4, <4>1, <4>2
    <3>5. CASE a = "doppler"
      <4>1. Source!groups \in {<< >>, <<{"long"}>>}
        BY <2>2, <3>1, <3>2, <3>5
      <4>2. << >> \notin {<<Adapters>>, <<{"doppler"}>>, <<{"long"}, {"doppler"}>>}
            /\ <<{"long"}>> \notin {<<Adapters>>, <<{"doppler"}>>, <<{"long"}, {"doppler"}>>}
        BY <3>3
      <4> QED
        BY <3>5, <4>1, <4>2
    <3> QED
      BY <3>4, <3>5 DEF Adapters
  <2> QED
    BY <2>1, <2>2
<1> QED
  BY <1>1 DEF Source!active

LEMMA ReadBehind ==
  ASSUME LeftInv, Behind, sourceCycle.left # << >>
  PROVE  \A a \in Head(sourceCycle.left) : mem.cursors[a] <= sourceCycle.fixed
<1> SUFFICES ASSUME NEW a \in Head(sourceCycle.left) PROVE a \in Adapters /\ Waits(a)
  BY DEF Behind
<1>1. CASE sourceCycle.left \in {<<Adapters>>, <<{"long"}>>, <<{"doppler"}>>}
  <2>1. PICK x : sourceCycle.left = <<x>> /\ x \in {Adapters, {"long"}, {"doppler"}}
    BY <1>1
  <2>2. a \in x
    BY <2>1
  <2> QED
    BY <2>1, <2>2 DEF Waits, Adapters
<1>2. CASE sourceCycle.left = <<{"long"}, {"doppler"}>>
  BY <1>2 DEF Waits, Adapters
<1> QED
  BY <1>1, <1>2 DEF LeftInv

LEMMA BehindKept == ASSUME SourceTypes, LeftInv, Behind, Source!SourceNext PROVE Behind'
<1>1. CycleTypes
  BY SourceTypesParts
<1>2. sourceCycle'.left = << >> => Behind'
  BY DEF Behind, Waits
<1>3. CASE sourceCycle' = Source!Idle
  BY <1>2, <1>3, CycleEnds DEF CycleIs
<1>4. CASE \E late \in BOOLEAN : Source!BeginCycle(late)
  BY <1>2, <1>4, CycleBegins DEF CycleIs
<1>5. CASE \/ Source!RefreshCatalog \/ Source!FixedBlock \/ Source!LaunchReadFails \/ Source!ReadPools \/ Source!ReadChain
           \/ Source!StageFails \/ Source!ChainWriteFails \/ Source!WriteProjection
  <2>1. sourceCycle.pc # "launches" \/ Source!LaunchReadFails
    BY <1>5 DEF Source!RefreshCatalog, Source!FixedBlock, Source!ReadPools, Source!ReadChain,
                Source!StageFails, Source!ChainWriteFails, Source!WriteProjection, Source!readsPools, Source!readsChain
  <2>2. sourceCycle.left = << >> \/ Source!LaunchReadFails
    BY <2>1 DEF LeftInv
  <2>3. sourceCycle'.left = << >>
    BY <1>1, <1>5, <2>2, CycleGoesOn DEF CycleIs, Keeps
  <2> QED
    BY <1>2, <2>3
<1>6. CASE Source!PlanLaunches
  <2>1. mem'.cursors = mem.cursors
    BY <1>6, PlanWrites DEF PlanEffect, SameLaunches
  <2>2. sourceCycle'.left = << >> \/ (sourceCycle'.left = Source!groups /\ sourceCycle'.fixed = sourceCycle.fixed)
    BY <1>1, <1>6, CyclePlans DEF CycleIs
  <2>3. CASE sourceCycle'.left = Source!groups /\ sourceCycle'.fixed = sourceCycle.fixed
    <3> SUFFICES ASSUME NEW a \in Adapters, Waits(a)' PROVE mem'.cursors[a] <= sourceCycle'.fixed
      BY DEF Behind
    <3>1. Source!groups \in {<<Adapters>>, <<{a}>>, <<{"long"}, {"doppler"}>>}
      BY <2>3 DEF Waits
    <3> QED
      BY <2>1, <2>3, <3>1, GroupsBehind
  <2> QED
    BY <1>2, <2>2, <2>3
<1>7. CASE \E bad \in SUBSET Adapters : Source!ReadLaunches(bad)
  <2>1. PICK bad \in SUBSET Adapters : Source!ReadLaunches(bad)
    BY <1>7
  <2>2. sourceCycle'.left = Tail(sourceCycle.left) /\ sourceCycle'.fixed = sourceCycle.fixed
    BY <1>1, <2>1, CycleReads DEF CycleIs
  <2>3. sourceCycle.left \in {<<Adapters>>, <<{"long"}>>, <<{"doppler"}>>, <<{"long"}, {"doppler"}>>}
    BY <2>1 DEF LeftInv, Source!ReadLaunches
  <2>4. CASE sourceCycle.left \in {<<Adapters>>, <<{"long"}>>, <<{"doppler"}>>}
    <3>1. PICK x : sourceCycle.left = <<x>>
      BY <2>4
    <3> QED
      BY <1>2, <2>2, <3>1, ShortSequences
  <2>5. CASE sourceCycle.left = <<{"long"}, {"doppler"}>>
    <3>1. sourceCycle'.left = <<{"doppler"}>>
      BY <2>2, <2>5, ShortSequences
    <3>2. PICK g : g = Head(sourceCycle.left)
      OBVIOUS
    <3>3. g = {"long"} /\ \E from, to : LaunchesEffect(g, g \ bad, from, to)
      <4>1. \E from, to : LaunchesEffect(g, g \ bad, from, to)
        BY <2>1, <3>2, LaunchesWrites
      <4>2. g = {"long"}
        BY <2>5, <3>2
      <4> QED
        BY <4>1, <4>2
    <3>4. mem'.cursors["doppler"] = mem.cursors["doppler"]
      BY <3>3 DEF LaunchesEffect, CursorNames
    <3>5. mem.cursors["doppler"] <= sourceCycle.fixed
      BY <2>5 DEF Behind, Waits, Adapters
    <3> SUFFICES ASSUME NEW a \in Adapters, Waits(a)' PROVE a = "doppler"
      BY <2>2, <3>4, <3>5 DEF Behind
    <3>6. {"long"} # Adapters /\ {"doppler"} # Adapters /\ {"long"} # {"doppler"}
      BY DEF Adapters
    <3>7. <<{"doppler"}>> \notin {<<Adapters>>, <<{"long"}>>, <<{"long"}, {"doppler"}>>}
      BY <3>6
    <3> QED
      BY <3>1, <3>7 DEF Waits, Adapters
  <2> QED
    BY <2>3, <2>4, <2>5
<1>8. CASE Source!NewBlock \/ Source!HotAdvance \/ Source!HotFails \/ Source!HotIngest
  <2>1. sourceCycle' = sourceCycle
    BY <1>8 DEF Source!NewBlock, Source!HotAdvance, Source!HotFails, Source!HotIngest
  <2>2. Source!NewBlock \/ Source!HotAdvance \/ Source!HotFails => mem' = mem
    BY DEF Source!NewBlock, Source!HotAdvance, Source!HotFails
  <2>3. Source!HotIngest => mem'.cursors = mem.cursors
    BY PollWrites DEF PollEffect, SameLaunches
  <2>4. mem'.cursors = mem.cursors
    BY <1>8, <2>2, <2>3
  <2> QED
    BY <2>1, <2>4 DEF Behind, Waits
<1>9. \/ Source!AbandonCycle \/ Source!CommitCursors \/ Source!CommitFails \/ Source!Restart => sourceCycle' = Source!Idle
  BY DEF Source!AbandonCycle, Source!CommitCursors, Source!CommitFails, Source!Restart
<1> QED
  BY <1>3, <1>4, <1>5, <1>6, <1>7, <1>8, <1>9, SourceMoves, Zenon DEF SourceSteps

LEMMA CursorRangeKept ==
  ASSUME SourceTypes, LeftInv, LaunchInv, HeadRange, CursorRange, Behind, Source!SourceNext
  PROVE  CursorRange'
<1>1. mem.cursors \in [CursorNames -> Int] /\ disk.cursors \in [CursorNames -> Int] /\ DiskTypes
  BY SourceTypesParts DEF SourceTypes
<1>2. CASE \E bad \in SUBSET Adapters : Source!ReadLaunches(bad)
  <2>1. PICK bad \in SUBSET Adapters : Source!ReadLaunches(bad)
    BY <1>2
  <2>2. PICK g : g = Head(sourceCycle.left)
    OBVIOUS
  <2>3. PICK from, to : LaunchesEffect(g, g \ bad, from, to)
    BY <2>1, <2>2, LaunchesWrites
  <2>4. g \in {Adapters, {"long"}, {"doppler"}} /\ \A a \in g : mem.cursors[a] <= sourceCycle.fixed
    BY <2>1, <2>2, LaunchesWrites, ReadBehind DEF Source!ReadLaunches
  <2>5. disk' = disk /\ checkpoint' = checkpoint /\ checkpoint # << >>
    <3>1. CycleTypes
      BY SourceTypesParts
    <3> QED
      BY <2>1, <3>1 DEF Source!ReadLaunches, CycleTypes
  <2>6. Durable' = Durable
    BY <2>5 DEF Durable, Source!durableCursors
  <2>7. \A a \in Adapters : mem.cursors[a] <= mem'.cursors[a]
    <3> SUFFICES ASSUME NEW a \in Adapters PROVE mem.cursors[a] <= mem'.cursors[a]
      OBVIOUS
    <3>1. a \in CursorNames /\ mem.cursors[a] \in Int
      BY <1>1 DEF Adapters, CursorNames
    <3>2. CASE a \in g \ bad
      <4>1. mem.cursors[a] = from /\ mem'.cursors[a] = to + 1 /\ from <= to + 1
        BY <2>3, <2>4, <3>1, <3>2 DEF LaunchesEffect
      <4> QED
        BY <4>1
    <3>3. CASE a \notin g \ bad
      BY <2>3, <3>1, <3>3 DEF LaunchesEffect
    <3> QED
      BY <3>2, <3>3
  <2>8. mem'.cursors["pool"] = mem.cursors["pool"] /\ mem'.cursors["chain"] = mem.cursors["chain"]
    <3>1. "pool" \notin g /\ "chain" \notin g
      BY <2>4 DEF Adapters
    <3> QED
      BY <2>3, <3>1 DEF LaunchesEffect, CursorNames
  <2>9. InRange(mem'.cursors)
    <3>1. \A c \in CursorNames : mem.cursors[c] \in Int /\ mem'.cursors[c] \in Int
      BY <1>1, <2>3 DEF LaunchesEffect
    <3>2. /\ mem.cursors["long"] \in Int /\ mem.cursors["doppler"] \in Int /\ mem.cursors["pool"] \in Int
          /\ mem'.cursors["long"] \in Int /\ mem'.cursors["doppler"] \in Int
      BY <3>1 DEF CursorNames
    <3>3. mem.cursors["long"] <= mem'.cursors["long"] /\ mem.cursors["doppler"] <= mem'.cursors["doppler"]
      BY <2>7 DEF Adapters
    <3> QED
      BY <2>8, <3>2, <3>3 DEF CursorRange, InRange
  <2> QED
    BY <2>5, <2>6, <2>9 DEF CursorRange, InRange
<1>3. ASSUME SourceSteps, ~Source!Restart, LaunchCursorsStay PROVE InRange(mem'.cursors)
  <2>1. mem.cursors["long"] \in Int /\ mem.cursors["doppler"] \in Int /\ mem.cursors["pool"] \in Int /\ mem.cursors["chain"] \in Int
    BY <1>1 DEF CursorNames
  <2>2. mem'.cursors["pool"] <= mem.cursors["long"] /\ mem'.cursors["pool"] <= mem.cursors["doppler"]
    <3>1. CASE mem'.cursors["pool"] = mem.cursors["pool"]
      BY <3>1 DEF CursorRange, InRange
    <3>2. CASE \E to \in Int : to < mem.cursors["long"] /\ to < mem.cursors["doppler"] /\ mem'.cursors["pool"] = to + 1
      BY <2>1, <3>2
    <3> QED
      BY <1>3, <3>1, <3>2, PoolCursorMoves
  <2>3. mem'.cursors["chain"] = mem.cursors["chain"] \/ mem'.cursors["chain"] <= sourceCycle.fixed + 1
    <3>1. CASE mem' = mem \/ RefreshEffect \/ PlanEffect \/ PollEffect
      BY <3>1 DEF RefreshEffect, PlanEffect, PollEffect, SameLaunches
    <3>2. CASE PoolsEffect
      BY <3>2 DEF PoolsEffect, CursorNames
    <3>3. CASE ChainEffect
      BY <3>3 DEF ChainEffect
    <3> QED
      BY <1>3, <3>1, <3>2, <3>3, Zenon DEF SourceSteps
  <2>4. mem'.cursors["chain"] <= SourceBlocks + 1
    <3>1. mem'.cursors \in [CursorNames -> Int]
      BY SourceTyped, SourceTypesParts DEF SourceTypes
    <3>2. mem'.cursors["chain"] \in Int
      BY <3>1 DEF CursorNames
    <3>3. sourceCycle.fixed \in Nat /\ head \in Nat /\ SourceBlocks \in Nat
      BY BoundsAssumption DEF SourceTypes
    <3> QED
      BY <2>1, <2>3, <3>2, <3>3 DEF CursorRange, InRange, HeadRange
  <2> QED
    BY <1>3, <2>2, <2>4 DEF LaunchCursorsStay, InRange
<1>4. CASE SourceSteps /\ ~Source!CommitCursors /\ ~Source!Restart /\ ~Source!WriteProjection
  <2>1. LaunchCursorsStay /\ disk'.cursors \in {disk.cursors, Durable}
    BY <1>4, LaunchesKeptAlone
  <2>2. InRange(mem'.cursors)
    BY <1>3, <1>4, <2>1
  <2>3. InRange(Durable')
    BY <1>4, <2>2, DurableStays DEF CursorRange
  <2>4. InRange(disk'.cursors)
    BY <2>1 DEF CursorRange
  <2> QED
    BY <2>2, <2>3, <2>4 DEF CursorRange, InRange
<1>5. CASE SourceSteps /\ Source!WriteProjection
  <2>1. disk' = [disk EXCEPT !.launches = mem.launches, !.pools = mem.pools] /\ mem' = mem /\ checkpoint' = checkpoint
    BY <1>5 DEF Source!WriteProjection
  <2>2. disk'.cursors = disk.cursors
    BY <1>1, <2>1 DEF DiskTypes
  <2>3. Durable' = Durable
    BY <2>1 DEF Durable, Source!durableCursors
  <2> QED
    BY <2>1, <2>2, <2>3 DEF CursorRange, InRange
<1>6. CASE SourceSteps /\ Source!CommitCursors
  <2>1. disk' = [disk EXCEPT !.cursors = mem.cursors] /\ mem' = mem /\ checkpoint' = << >>
    BY <1>6 DEF Source!CommitCursors
  <2>2. disk'.cursors = mem.cursors
    BY <1>1, <2>1 DEF DiskTypes
  <2>3. Durable' = mem.cursors
    BY <2>1 DEF Durable, Source!durableCursors
  <2> QED
    BY <2>1, <2>2, <2>3 DEF CursorRange, InRange
<1>7. CASE SourceSteps /\ Source!Restart
  <2>1. RestartEffect
    BY <1>7, RestartWrites
  <2>2. disk' = disk /\ checkpoint' = << >>
    BY <1>7 DEF Source!Restart
  <2>3. Durable' = mem'.cursors
    BY <2>2 DEF Durable, Source!durableCursors
  <2>4. InRange(mem'.cursors)
    BY <2>1 DEF RestartEffect, CursorNames, CursorRange, InRange
  <2> QED
    BY <2>2, <2>3, <2>4 DEF CursorRange, InRange
<1> QED
  BY <1>2, <1>4, <1>5, <1>6, <1>7, SourceMoves, Zenon

LEMMA SourceRangeKept == ASSUME SourceInv, SourceRange, [Source!SourceNext]_sourceVars PROVE SourceRange'
<1>1. CASE Source!SourceNext
  BY <1>1, HeadKept, FactKept, CursorRangeKept, BehindKept DEF SourceInv, SourceRange
<1>2. CASE UNCHANGED sourceVars
  <2>1. UNCHANGED <<head, mem, disk, checkpoint, sourceCycle>>
    BY <1>2 DEF sourceVars
  <2>2. Durable' = Durable
    BY <2>1 DEF Durable, Source!durableCursors
  <2> QED
    BY <2>1, <2>2 DEF SourceRange, HeadRange, FactRange, CursorRange, InRange, Behind, Waits
<1> QED
  BY <1>1, <1>2

LEMMA SourceRangeTyped == SourceInv /\ SourceRange => Source!SourceTypeOK
<1> SUFFICES ASSUME SourceInv, SourceRange PROVE Source!SourceTypeOK
  OBVIOUS
<1>1. head \in 0 .. SourceBlocks /\ sourceCycle.fixed <= head
  BY BoundsAssumption DEF SourceInv, SourceTypes, SourceRange, HeadRange
<1>2. ASSUME NEW c \in {mem.cursors, disk.cursors}
      PROVE  c.pool <= Source!launchCursor(c) /\ c.chain <= SourceBlocks + 1
  <2>1. c \in [CursorNames -> Int] /\ InRange(c)
    BY <1>2 DEF SourceInv, SourceTypes, SourceRange, CursorRange
  <2>2. PICK l \in Int, d \in Int : l = c["long"] /\ d = c["doppler"]
    BY <2>1 DEF CursorNames
  <2>3. Source!launchCursor(c) = Source!Min({l, d})
    BY <2>2 DEF Source!launchCursor
  <2>4. Source!launchCursor(c) \in {l, d}
    BY <2>2, <2>3, SourceMin
  <2> QED
    BY <2>1, <2>2, <2>4 DEF InRange
<1> QED
  BY <1>1, <1>2 DEF SourceRange, FactRange, Source!SourceTypeOK

--------------------------------------------------------------------------------
UniversalFacts == INSTANCE UniversalProofs
  WITH bal <- held, allowance <- allowed,
       Token <- {"s", "a", "b"}, Pools <- canonicalPools, Plan <- plans, Principal <- 0..2,
       MaxOut <- 3, MaxHeld <- 2

RouteFacts == INSTANCE RouteProofs
  WITH bal <- float, owed <- accounts, allowance <- routerMay, phase <- unlock, ctx <- direct, call <- routeCall,
       Token <- PairToken, Routes <- PairRoute, Seeds <- PairSeeds, MaxOut <- PairOut, MaxHeld <- PairHeld

ShotFacts == INSTANCE ShotProofs
  WITH now <- hostClock, Pool <- {"a", "b"}, Route <- DOMAIN routePools, RoutePools <- routePools,
       InitialNet <- 3, GasCosts <- {1, 4, 5}, Ceiling <- 4,
       MaxSwaps <- 2, MaxShots <- 2, MaxArms <- 2, MaxDeaths <- 1

SearchFacts == INSTANCE SearchProofs
  WITH Asset <- searchAssets, ByAddress <- byAddress, Seeds <- {"USDG"}, Valued <- DOMAIN searchRoutes,
       AssetPools <- searchPools, Routes <- searchRoutes, Wakes <- searchWakes,
       Balance <- fundings, Familiar <- familiar, MaxDigits <- 3, Curve <- curves, Required <- 2,
       MaxChecks <- 2, MaxAdmitted <- 2, MaxRoutes <- 2, MaxEventRoutes <- 2, MaxManaged <- 2, MaxRefreshes <- 1

(* The rest stands still while one part moves. *)
LEMMA PartMoves ==
  ASSUME [ServicesNext]_serviceVars
  PROVE  /\ part' = part
         /\ [Universal!ExecNext]_universalVars
         /\ [Routed!RouteNext]_routedVars
         /\ [Shot!ShotNext]_shotVars
         /\ [Searching!SearchNext]_searchVars
         /\ [Next]_vars
<1>1. CASE UNCHANGED serviceVars
  BY <1>1 DEF serviceVars, executorVars, restVars
<1>2. CASE SchedulerStep \/ HotStep \/ SourceStep \/ BoardStep \/ ShotStep
  BY <1>2 DEF SchedulerStep, HotStep, SourceStep, BoardStep, ShotStep, executorVars, restVars
<1>3. CASE UniversalStep \/ RoutedStep
  BY <1>3 DEF UniversalStep, RoutedStep, restVars
<1>4. CASE SearchStep \/ SequencerStep \/ FallbackStep \/ HotRpcStep \/ AlertStep
  BY <1>4 DEF SearchStep, SequencerStep, FallbackStep, HotRpcStep, AlertStep, servesVars, executorVars
<1> QED
  BY <1>1, <1>2, <1>3, <1>4 DEF ServicesNext

--------------------------------------------------------------------------------
(* The executors *)

(* The plans of the run are plans. *)
LEMMA PlansFit == UniversalFacts!ExecAssumption
<1>1. \A k \in DOMAIN canonicalPools : \A p \in DOMAIN canonicalPools[k] : canonicalPools[k][p] \subseteq {"s", "a", "b"}
  BY DEF canonicalPools, share
<1>2. ASSUME NEW p \in plans
      PROVE  /\ p.settlement \in {"s", "a", "b"} /\ p.minimumProfit \in Nat
             /\ DOMAIN p.tracked \subseteq {"s", "a", "b"} /\ \A t \in DOMAIN p.tracked : p.tracked[t] \in Nat
  BY DEF plans, planOf
<1>3. ASSUME NEW kind \in DOMAIN canonicalPools, NEW pool, NEW in \in {"s", "a", "b", "none"},
             NEW out \in {"s", "a", "b", "none"}, NEW amount \in Nat
      PROVE  UniversalFacts!PlanAction(planStep(kind, pool, in, out, amount))
  BY DEF UniversalFacts!PlanAction, UniversalFacts!NoToken, planStep
<1> DEFINE Fits(actions) ==
             /\ Len(actions) \in Nat /\ DOMAIN actions = 1..Len(actions)
             /\ \A i \in DOMAIN actions : UniversalFacts!PlanAction(actions[i])
<1>4. ASSUME NEW x, NEW y, NEW z, UniversalFacts!PlanAction(x), UniversalFacts!PlanAction(y), UniversalFacts!PlanAction(z)
      PROVE  Fits(<<x>>) /\ Fits(<<x, y>>) /\ Fits(<<x, y, z>>)
  <2>1. Len(<<x>>) = 1 /\ DOMAIN <<x>> = 1..1 /\ <<x>>[1] = x
    OBVIOUS
  <2>2. Len(<<x, y>>) = 2 /\ DOMAIN <<x, y>> = 1..2 /\ <<x, y>>[1] = x /\ <<x, y>>[2] = y
    OBVIOUS
  <2>3. Len(<<x, y, z>>) = 3 /\ DOMAIN <<x, y, z>> = 1..3
        /\ <<x, y, z>>[1] = x /\ <<x, y, z>>[2] = y /\ <<x, y, z>>[3] = z
    OBVIOUS
  <2>4. 1..1 = {1} /\ 1..2 = {1, 2} /\ 1..3 = {1, 2, 3} /\ 1 \in Nat /\ 2 \in Nat /\ 3 \in Nat
    OBVIOUS
  <2> HIDE DEF Fits
  <2>5. Fits(<<x>>)
    BY <1>4, <2>1, <2>4 DEF Fits
  <2>6. Fits(<<x, y>>)
    BY <1>4, <2>2, <2>4 DEF Fits
  <2>7. Fits(<<x, y, z>>)
    BY <1>4, <2>3, <2>4 DEF Fits
  <2> QED
    BY <2>5, <2>6, <2>7
<1> HIDE DEF Fits
<1>5. ASSUME NEW p \in plans PROVE Fits(p.actions)
  <2>1. {"v2", "v3", "v4", "earnSwap", "earnAdd", "earnRemove"} \subseteq DOMAIN canonicalPools
    BY DEF canonicalPools
  <2>2. /\ UniversalFacts!PlanAction(planStep("v3", "p3", "s", "a", 0))
        /\ UniversalFacts!PlanAction(planStep("v4", "p4", "a", "s", 0))
        /\ UniversalFacts!PlanAction(planStep("v4", "p4", "s", "a", 1))
        /\ UniversalFacts!PlanAction(planStep("v2", "p2", "a", "s", 1))
        /\ UniversalFacts!PlanAction(planStep("v2", "p2", "s", "a", 1))
    BY <1>3, <2>1
  <2>3. /\ UniversalFacts!PlanAction(planStep("earnSwap", "b", "s", "a", 1))
        /\ UniversalFacts!PlanAction(planStep("earnAdd", "b", "none", "b", 0))
        /\ UniversalFacts!PlanAction(planStep("earnRemove", "b", "b", "none", 0))
    BY <1>3, <2>1
  <2>4. \/ p.actions = <<planStep("v3", "p3", "s", "a", 0), planStep("v4", "p4", "a", "s", 0)>>
        \/ p.actions = <<planStep("v4", "p4", "s", "a", 1), planStep("v2", "p2", "a", "s", 1)>>
        \/ p.actions = <<planStep("earnSwap", "b", "s", "a", 1), planStep("earnAdd", "b", "none", "b", 0),
                         planStep("earnRemove", "b", "b", "none", 0)>>
        \/ p.actions = <<planStep("earnRemove", "b", "b", "none", 0)>>
        \/ p.actions = <<planStep("v2", "p2", "s", "a", 1)>>
    <3>1. \A residuals, actions : planOf(residuals, actions).actions = actions
      BY DEF planOf
    <3> QED
      BY <3>1 DEF plans
  <2> QED
    BY <1>4, <2>2, <2>3, <2>4
<1>6. ASSUME NEW p \in plans
      PROVE  /\ Len(p.actions) \in Nat /\ DOMAIN p.actions = 1..Len(p.actions)
             /\ \A i \in DOMAIN p.actions : UniversalFacts!PlanAction(p.actions[i])
  BY <1>5 DEF Fits
<1> QED
  BY <1>1, <1>2, <1>6 DEF UniversalFacts!ExecAssumption, UniversalFacts!NoToken, UniversalFacts!tracked

ExecutorsInv ==
  /\ UniversalFacts!ExecInv /\ UniversalFacts!GuardInv
  /\ RouteFacts!RouteInv

(* A call of the executor is the same seen from either place. *)
LEMMA UniversalSame ==
  ASSUME [Universal!ExecNext]_universalVars
  PROVE  [UniversalFacts!ExecNext]_(UniversalFacts!execVars)
<1>1. Universal!ExecNext <=> UniversalFacts!ExecNext
  BY DEF Universal!NoToken, UniversalFacts!NoToken, Universal!EarnKinds, UniversalFacts!EarnKinds,
     Universal!Spender, UniversalFacts!Spender, Universal!Nothing, UniversalFacts!Nothing,
     Universal!NoAllowance, UniversalFacts!NoAllowance, Universal!NoContext, UniversalFacts!NoContext,
     Universal!NoCall, UniversalFacts!NoCall, Universal!tracked, UniversalFacts!tracked,
     Universal!requiresTracked, UniversalFacts!requiresTracked, Universal!validPlan,
     UniversalFacts!validPlan, Universal!baselines, UniversalFacts!baselines, Universal!action,
     UniversalFacts!action, Universal!available, UniversalFacts!available, Universal!amountFor,
     UniversalFacts!amountFor, Universal!tokensIn, UniversalFacts!tokensIn, Universal!availableAmounts,
     UniversalFacts!availableAmounts, Universal!suffices, UniversalFacts!suffices, Universal!canonical,
     UniversalFacts!canonical, Universal!runs, UniversalFacts!runs, Universal!just, UniversalFacts!just,
     Universal!moved, UniversalFacts!moved, Universal!settlesOutput, UniversalFacts!settlesOutput,
     Universal!goesTo, UniversalFacts!goesTo, Universal!nextAction, UniversalFacts!nextAction,
     Universal!SwapV2, UniversalFacts!SwapV2, Universal!SwapV3, UniversalFacts!SwapV3,
     Universal!V3Callback, UniversalFacts!V3Callback, Universal!SwapV4, UniversalFacts!SwapV4,
     Universal!UnlockCallback, UniversalFacts!UnlockCallback, Universal!ApproveEarn,
     UniversalFacts!ApproveEarn, Universal!earnOutputs, UniversalFacts!earnOutputs, Universal!RouteEarn,
     UniversalFacts!RouteEarn, Universal!begins, UniversalFacts!begins, Universal!ExecuteWithInventory,
     UniversalFacts!ExecuteWithInventory, Universal!ExecuteWithFlash, UniversalFacts!ExecuteWithFlash,
     Universal!QuoteWithFlash, UniversalFacts!QuoteWithFlash, Universal!OnMorphoFlashLoan,
     UniversalFacts!OnMorphoFlashLoan, Universal!ran, UniversalFacts!ran, Universal!validResiduals,
     UniversalFacts!validResiduals, Universal!required, UniversalFacts!required, Universal!enough,
     UniversalFacts!enough, Universal!FinishInventory, UniversalFacts!FinishInventory,
     Universal!ApproveRepayment, UniversalFacts!ApproveRepayment, Universal!FinishFlash,
     UniversalFacts!FinishFlash, Universal!Reverts, UniversalFacts!Reverts, Universal!Withdraw,
     UniversalFacts!Withdraw, Universal!Begin, UniversalFacts!Begin, Universal!ExecNext,
     UniversalFacts!ExecNext
<1>2. UNCHANGED universalVars => UNCHANGED UniversalFacts!execVars
  BY DEF UniversalFacts!execVars, universalVars
<1> QED
  BY <1>1, <1>2, Zenon

LEMMA RoutedSame ==
  ASSUME [Routed!RouteNext]_routedVars
  PROVE  [RouteFacts!RouteNext]_(RouteFacts!routeVars)
<1>1. Routed!RouteNext <=> RouteFacts!RouteNext
  BY DEF Routed!Nothing, RouteFacts!Nothing, Routed!NoContext, RouteFacts!NoContext, Routed!NoCall,
     RouteFacts!NoCall, Routed!NoContract, RouteFacts!NoContract, Routed!settlement,
     RouteFacts!settlement, Routed!fixed, RouteFacts!fixed, Routed!deploys, RouteFacts!deploys,
     Routed!DeployGeneric, RouteFacts!DeployGeneric, Routed!DeployFixed, RouteFacts!DeployFixed,
     Routed!DeployWeth, RouteFacts!DeployWeth, Routed!fits, RouteFacts!fits, Routed!validRoute,
     RouteFacts!validRoute, Routed!begins, RouteFacts!begins, Routed!Execute, RouteFacts!Execute,
     Routed!ExecuteFixed, RouteFacts!ExecuteFixed, Routed!at, RouteFacts!at, Routed!credit,
     RouteFacts!credit, Routed!debit, RouteFacts!debit, Routed!next, RouteFacts!next, Routed!EntryOwn,
     RouteFacts!EntryOwn, Routed!setsContext, RouteFacts!setsContext, Routed!EntryDirect,
     RouteFacts!EntryDirect, Routed!expectedAmount, RouteFacts!expectedAmount, Routed!EntryCallback,
     RouteFacts!EntryCallback, Routed!approves, RouteFacts!approves, Routed!EntryApprove,
     RouteFacts!EntryApprove, Routed!EntryRouter, RouteFacts!EntryRouter, Routed!pairSwap,
     RouteFacts!pairSwap, Routed!SwapEntry, RouteFacts!SwapEntry, Routed!SwapExit, RouteFacts!SwapExit,
     Routed!leaves, RouteFacts!leaves, Routed!ExitOwn, RouteFacts!ExitOwn, Routed!ExitDirect,
     RouteFacts!ExitDirect, Routed!ExitCallback, RouteFacts!ExitCallback, Routed!ExitApprove,
     RouteFacts!ExitApprove, Routed!ExitRouter, RouteFacts!ExitRouter, Routed!grossProfit,
     RouteFacts!grossProfit, Routed!reportFits, RouteFacts!reportFits, Routed!Finish, RouteFacts!Finish,
     Routed!Reverts, RouteFacts!Reverts, Routed!Withdraw, RouteFacts!Withdraw, Routed!Deploy,
     RouteFacts!Deploy, Routed!Begin, RouteFacts!Begin, Routed!RouteNext, RouteFacts!RouteNext
<1>2. UNCHANGED routedVars => UNCHANGED RouteFacts!routeVars
  BY DEF RouteFacts!routeVars, routedVars
<1> QED
  BY <1>1, <1>2, Zenon

LEMMA ExecutorsBegin == ASSUME ServicesInit PROVE ExecutorsInv
<1>1. UniversalFacts!ExecInit
  <2>1. Universal!ExecInit
    BY DEF ServicesInit
  <2> QED
    BY <2>1 DEF Universal!ExecInit, UniversalFacts!ExecInit, Universal!NoAllowance, UniversalFacts!NoAllowance,
       Universal!Nothing, UniversalFacts!Nothing, Universal!Spender, UniversalFacts!Spender,
       Universal!NoContext, UniversalFacts!NoContext, Universal!NoToken, UniversalFacts!NoToken,
       Universal!NoCall, UniversalFacts!NoCall
<1>2. RouteFacts!RouteInit
  <2>1. Routed!RouteInit
    BY DEF ServicesInit
  <2> QED
    BY <2>1 DEF Routed!RouteInit, RouteFacts!RouteInit, Routed!NoContract, RouteFacts!NoContract,
       Routed!Nothing, RouteFacts!Nothing, Routed!NoContext, RouteFacts!NoContext, Routed!NoCall, RouteFacts!NoCall
<1>3. RouteFacts!RouteAssumption
  BY RoutesAssumption DEF Routed!RouteAssumption, RouteFacts!RouteAssumption
<1> QED
  BY <1>1, <1>2, <1>3, PlansFit, UniversalFacts!ExecInvInit, UniversalFacts!GuardInit, RouteFacts!RouteInit_ DEF ExecutorsInv

LEMMA RoutesFit == RouteFacts!RouteAssumption
  BY RoutesAssumption DEF Routed!RouteAssumption, RouteFacts!RouteAssumption

LEMMA ExecutorsKeep ==
  ASSUME ExecutorsInv, [ServicesNext]_serviceVars
  PROVE  ExecutorsInv'
<1>1. [UniversalFacts!ExecNext]_(UniversalFacts!execVars) /\ [RouteFacts!RouteNext]_(RouteFacts!routeVars)
  BY PartMoves, UniversalSame, RoutedSame
<1>2. UniversalFacts!ExecInv' /\ UniversalFacts!GuardInv'
  BY <1>1, PlansFit, UniversalFacts!ExecStep, UniversalFacts!GuardStep DEF ExecutorsInv
<1>3. RouteFacts!RouteInv'
  BY <1>1, RoutesFit, RouteFacts!RouteStep DEF ExecutorsInv
<1> QED
  BY <1>2, <1>3 DEF ExecutorsInv

LEMMA ExecutorsFollow ==
  ASSUME ExecutorsInv
  PROVE  /\ ExecutorsGuard /\ Universal!ExecAssumption /\ Universal!ExecTypeOK /\ Routed!RouteTypeOK
<1>1. UniversalFacts!Protected /\ UniversalFacts!Allowed /\ UniversalFacts!ExecTypeOK
  <2>1. UniversalFacts!Protected
    BY DEF ExecutorsInv, UniversalFacts!ExecInv, UniversalFacts!CallInv, UniversalFacts!Protected
  <2> QED
    BY <2>1, PlansFit, UniversalFacts!GuardAllows, UniversalFacts!GuardTypes DEF ExecutorsInv
<1>2. RouteFacts!NothingOpen /\ RouteFacts!RouteTypeOK
  BY RoutesFit, RouteFacts!RouteFollows DEF ExecutorsInv
<1>3. Universal!Protected /\ Universal!Allowed
  BY <1>1 DEF Universal!Protected, UniversalFacts!Protected, Universal!Allowed, UniversalFacts!Allowed,
     Universal!tracked, UniversalFacts!tracked, Universal!available, UniversalFacts!available,
     Universal!NoAllowance, UniversalFacts!NoAllowance, Universal!Nothing, UniversalFacts!Nothing,
     Universal!Spender, UniversalFacts!Spender, Universal!NoContext, UniversalFacts!NoContext,
     Universal!NoToken, UniversalFacts!NoToken
<1>4. Universal!ExecTypeOK
  BY <1>1 DEF Universal!ExecTypeOK, UniversalFacts!ExecTypeOK, Universal!Spender, UniversalFacts!Spender,
     Universal!NoToken, UniversalFacts!NoToken, Universal!NoCall, UniversalFacts!NoCall,
     Universal!Call, UniversalFacts!Call
<1>5. Universal!ExecAssumption
  BY PlansFit DEF Universal!ExecAssumption, UniversalFacts!ExecAssumption, Universal!NoToken, UniversalFacts!NoToken,
     Universal!tracked, UniversalFacts!tracked, Universal!PlanAction, UniversalFacts!PlanAction
<1>6. Routed!NothingOpen /\ Routed!RouteTypeOK
  BY <1>2 DEF Routed!NothingOpen, RouteFacts!NothingOpen, Routed!RouteTypeOK, RouteFacts!RouteTypeOK,
     Routed!Nothing, RouteFacts!Nothing, Routed!NoContext, RouteFacts!NoContext,
     Routed!settlement, RouteFacts!settlement
<1> QED
  BY <1>3, <1>4, <1>5, <1>6 DEF ExecutorsGuard

(* Of all executors, for any tokens, routes and seeds of the PAIR pools' and    *)
(* the run's plans: no step of a call finds the executor below what it set      *)
(* aside or a spender allowed more, and a call that ended left nothing open.    *)
THEOREM ExecutorsKeepGuard == ServicesSpec => []ExecutorsGuard
<1>1. ServicesInit => ExecutorsInv
  BY ExecutorsBegin
<1>2. ExecutorsInv /\ [ServicesNext]_serviceVars => ExecutorsInv'
  BY ExecutorsKeep
<1>3. ExecutorsInv => ExecutorsGuard
  BY ExecutorsFollow
<1> QED
  BY <1>1, <1>2, <1>3, PTL DEF ServicesSpec

(* And from outside each call earns its floor and takes nothing else away, or   *)
(* does nothing.                                                                *)
LEMMA UniversalSeen ==
  ASSUME ExecutorsInv, [ServicesNext]_serviceVars
  PROVE  [Universal!Outside!AtomicNext]_<<Universal!heldOutside, call.pc # "idle">>
<1>1. [UniversalFacts!ExecNext]_(UniversalFacts!execVars)
  BY PartMoves, UniversalSame
<1>2. \/ UniversalFacts!Outside!AtomicNext
      \/ UNCHANGED <<UniversalFacts!heldOutside, call.pc # "idle">>
  BY <1>1, PlansFit, UniversalFacts!ExecStep DEF ExecutorsInv
<1>3. UniversalFacts!Outside!AtomicNext <=> Universal!Outside!AtomicNext
  BY DEF UniversalFacts!Outside!AtomicNext, Universal!Outside!AtomicNext,
     UniversalFacts!Outside!Opens, Universal!Outside!Opens,
     UniversalFacts!Outside!DoesNothing, Universal!Outside!DoesNothing,
     UniversalFacts!Outside!Earns, Universal!Outside!Earns,
     UniversalFacts!Outside!Withdrawn, Universal!Outside!Withdrawn,
     UniversalFacts!heldOutside, Universal!heldOutside, UniversalFacts!promiseOf, Universal!promiseOf,
     UniversalFacts!residualOf, Universal!residualOf, UniversalFacts!tracked, Universal!tracked
<1>4. UniversalFacts!heldOutside = Universal!heldOutside /\ (UniversalFacts!heldOutside = Universal!heldOutside)'
  BY DEF UniversalFacts!heldOutside, Universal!heldOutside
<1> QED
  BY <1>2, <1>3, <1>4, Zenon

RoutedSees ==
  \/ contract.kind = "none"
  \/ Routed!Outside!Opens \/ Routed!Outside!DoesNothing \/ Routed!Outside!Earns(Routed!promise)
  \/ \E t \in PairToken : \E amount \in 0..float[t] : Routed!Outside!Withdrawn(t, amount)

LEMMA RoutedSeen ==
  ASSUME ExecutorsInv, [ServicesNext]_serviceVars
  PROVE  [RoutedSees]_<<Routed!heldOutside, routeCall.pc = "idle">>
<1>1. [RouteFacts!RouteNext]_(RouteFacts!routeVars)
  BY PartMoves, RoutedSame
<1>2. \/ RouteFacts!Seen
      \/ UNCHANGED <<RouteFacts!heldOutside, routeCall.pc = "idle">>
  BY <1>1, RoutesFit, RouteFacts!RouteStep DEF ExecutorsInv
<1>3. RouteFacts!Seen <=> RoutedSees
  BY DEF RouteFacts!Seen, RoutedSees, RouteFacts!Outside!Opens, Routed!Outside!Opens,
     RouteFacts!Outside!DoesNothing, Routed!Outside!DoesNothing,
     RouteFacts!Outside!Earns, Routed!Outside!Earns,
     RouteFacts!Outside!Withdrawn, Routed!Outside!Withdrawn,
     RouteFacts!heldOutside, Routed!heldOutside, RouteFacts!promise, Routed!promise,
     RouteFacts!settlement, Routed!settlement, RouteFacts!Nothing, Routed!Nothing
<1>4. RouteFacts!heldOutside = Routed!heldOutside /\ (RouteFacts!heldOutside = Routed!heldOutside)'
  BY DEF RouteFacts!heldOutside, Routed!heldOutside
<1> QED
  BY <1>2, <1>3, <1>4, Zenon

THEOREM CallsStayAtomic == ServicesSpec => CallsAtomic
<1>1. ServicesInit => ExecutorsInv /\ Universal!Outside!AtomicInit
  <2> SUFFICES ASSUME ServicesInit PROVE ExecutorsInv /\ Universal!Outside!AtomicInit
    OBVIOUS
  <2>1. ExecutorsInv
    BY ExecutorsBegin
  <2>2. call.pc = "idle"
    BY DEF ServicesInit, Universal!ExecInit, Universal!NoCall
  <2>3. held \in [{"s", "a", "b"} -> Nat]
    BY <2>1, ExecutorsFollow DEF Universal!ExecTypeOK
  <2> QED
    BY <2>1, <2>2, <2>3 DEF Universal!Outside!AtomicInit, Universal!heldOutside
<1>2. ExecutorsInv /\ [ServicesNext]_serviceVars => ExecutorsInv'
  BY ExecutorsKeep
<1>3. ExecutorsInv /\ [ServicesNext]_serviceVars =>
        [Universal!Outside!AtomicNext]_<<Universal!heldOutside, call.pc # "idle">>
  BY UniversalSeen
<1>4. ExecutorsInv /\ [ServicesNext]_serviceVars =>
        [\/ contract.kind = "none"
         \/ Routed!Outside!Opens \/ Routed!Outside!DoesNothing \/ Routed!Outside!Earns(Routed!promise)
         \/ \E t \in PairToken : \E amount \in 0..float[t] :
              Routed!Outside!Withdrawn(t, amount)]_<<Routed!heldOutside, routeCall.pc = "idle">>
  BY RoutedSeen DEF RoutedSees
<1> QED
  BY <1>1, <1>2, <1>3, <1>4, PTL
     DEF ServicesSpec, CallsAtomic, Universal!AtomicSpec, Universal!Outside!AtomicSpec, Routed!EarnsOrNothing

--------------------------------------------------------------------------------
(* The Earn lane *)

LEMMA LaneFits == ShotFacts!ShotAssumption
  BY DEF ShotFacts!ShotAssumption, routePools

LEMMA LaneSame ==
  ASSUME [Shot!ShotNext]_shotVars
  PROVE  [ShotFacts!ShotNext]_(ShotFacts!shotVars)
<1>1. Shot!earnGasSurplus = ShotFacts!earnGasSurplus
  BY DEF Shot!earnGasSurplus, ShotFacts!earnGasSurplus, Shot!Shots, ShotFacts!Shots,
     Shot!SumOf, ShotFacts!SumOf, Shot!MapThenSumSet, ShotFacts!MapThenSumSet,
     Shot!MapThenFoldSet, ShotFacts!MapThenFoldSet
<1>2. Shot!historicalSurplus = ShotFacts!historicalSurplus
  BY DEF Shot!historicalSurplus, ShotFacts!historicalSurplus, Shot!Shots, ShotFacts!Shots,
     Shot!SumOf, ShotFacts!SumOf, Shot!MapThenSumSet, ShotFacts!MapThenSumSet,
     Shot!MapThenFoldSet, ShotFacts!MapThenFoldSet
<1>3. Shot!gasRiskAllowance = ShotFacts!gasRiskAllowance
  BY <1>1 DEF Shot!gasRiskAllowance, ShotFacts!gasRiskAllowance, Shot!Min, ShotFacts!Min
<1>4. Shot!unresolved = ShotFacts!unresolved /\ Shot!last = ShotFacts!last
  BY DEF Shot!unresolved, ShotFacts!unresolved, Shot!Shots, ShotFacts!Shots, Shot!last, ShotFacts!last
<1>5. (Shot!authorized <=> ShotFacts!authorized) /\ (Shot!eligible <=> ShotFacts!eligible)
  BY <1>1 DEF Shot!authorized, ShotFacts!authorized, Shot!eligible, ShotFacts!eligible
<1>6. ASSUME NEW cap PROVE Shot!preservesLongTermProfit(cap) <=> ShotFacts!preservesLongTermProfit(cap)
  BY <1>1 DEF Shot!preservesLongTermProfit, ShotFacts!preservesLongTermProfit
<1>7. ASSUME NEW w PROVE Shot!afterWake(w) = ShotFacts!afterWake(w)
  BY DEF Shot!afterWake, ShotFacts!afterWake, Shot!releases, ShotFacts!releases,
     Shot!eventPools, ShotFacts!eventPools, Shot!sourceReceivedAt, ShotFacts!sourceReceivedAt,
     Shot!eventBlockNumber, ShotFacts!eventBlockNumber, Shot!Min, ShotFacts!Min
<1>8. ASSUME NEW p PROVE Shot!Swap(p) <=> ShotFacts!Swap(p)
  BY DEF Shot!Swap, ShotFacts!Swap
<1>9. ASSUME NEW s PROVE Shot!Observe(s) <=> ShotFacts!Observe(s)
  BY DEF Shot!Observe, ShotFacts!Observe
<1>10. Shot!Wake <=> ShotFacts!Wake
  BY <1>1, <1>4, <1>7 DEF Shot!Wake, ShotFacts!Wake,
     Shot!NoShotChild, ShotFacts!NoShotChild
<1>11. Shot!Disarm <=> ShotFacts!Disarm
  BY DEF Shot!Disarm, ShotFacts!Disarm
<1>12. Shot!Arm <=> ShotFacts!Arm
  BY <1>2, <1>4 DEF Shot!Arm, ShotFacts!Arm
<1>13. ASSUME NEW r PROVE Shot!Screen(r) <=> ShotFacts!Screen(r)
  BY <1>3, <1>5 DEF Shot!Screen, ShotFacts!Screen, Shot!chainUnchanged, ShotFacts!chainUnchanged
<1>14. ASSUME NEW cap PROVE Shot!Exact(cap) <=> ShotFacts!Exact(cap)
  BY <1>3, <1>5, <1>6 DEF Shot!Exact, ShotFacts!Exact, Shot!chainUnchanged, ShotFacts!chainUnchanged
<1>15. Shot!Sign <=> ShotFacts!Sign
  BY <1>5, <1>6 DEF Shot!Sign, ShotFacts!Sign, Shot!chainUnchanged, ShotFacts!chainUnchanged,
     Shot!goes, ShotFacts!goes
<1>16. Shot!JournalShared <=> ShotFacts!JournalShared
  BY <1>4 DEF Shot!JournalShared, ShotFacts!JournalShared, Shot!chainUnchanged, ShotFacts!chainUnchanged,
     Shot!goes, ShotFacts!goes
<1>17. Shot!Send <=> ShotFacts!Send
  BY <1>4, <1>5, <1>6 DEF Shot!Send, ShotFacts!Send, Shot!chainUnchanged, ShotFacts!chainUnchanged,
     Shot!goes, ShotFacts!goes
<1>18. Shot!RecordLocal <=> ShotFacts!RecordLocal
  BY <1>4 DEF Shot!RecordLocal, ShotFacts!RecordLocal, Shot!chainUnchanged, ShotFacts!chainUnchanged,
     Shot!goes, ShotFacts!goes
<1>19. Shot!RecordShared <=> ShotFacts!RecordShared
  BY <1>4 DEF Shot!RecordShared, ShotFacts!RecordShared, Shot!chainUnchanged, ShotFacts!chainUnchanged,
     Shot!stops, ShotFacts!stops, Shot!NoShotChild, ShotFacts!NoShotChild,
     Shot!afterOutcome, ShotFacts!afterOutcome, Shot!NeverReverted, ShotFacts!NeverReverted
<1>20. Shot!Reconcile <=> ShotFacts!Reconcile
  BY <1>1, <1>4 DEF Shot!Reconcile, ShotFacts!Reconcile, Shot!chainUnchanged, ShotFacts!chainUnchanged,
     Shot!NoShotChild, ShotFacts!NoShotChild
<1>21. Shot!GiveUp <=> ShotFacts!GiveUp
  BY DEF Shot!GiveUp, ShotFacts!GiveUp, Shot!chainUnchanged, ShotFacts!chainUnchanged,
     Shot!stops, ShotFacts!stops, Shot!NoShotChild, ShotFacts!NoShotChild
<1>22. Shot!Die <=> ShotFacts!Die
  BY DEF Shot!Die, ShotFacts!Die, Shot!chainUnchanged, ShotFacts!chainUnchanged,
     Shot!stops, ShotFacts!stops, Shot!NoShotChild, ShotFacts!NoShotChild
<1>23. ASSUME NEW i PROVE Shot!Mine(i) <=> ShotFacts!Mine(i)
  BY DEF Shot!Mine, ShotFacts!Mine
<1>24. Shot!ShotNext <=> ShotFacts!ShotNext
  BY <1>8, <1>9, <1>10, <1>11, <1>12, <1>13, <1>14, <1>15, <1>16, <1>17, <1>18, <1>19, <1>20, <1>21, <1>22, <1>23
     DEF Shot!ShotNext, ShotFacts!ShotNext, Shot!Shots, ShotFacts!Shots
<1>25. UNCHANGED shotVars => UNCHANGED ShotFacts!shotVars
  BY DEF ShotFacts!shotVars, shotVars
<1> QED
  BY <1>24, <1>25, Zenon

LEMMA LaneBegins == ASSUME ServicesInit PROVE ShotFacts!ShotInv
<1>1. ShotFacts!ShotInit
  <2>1. Shot!ShotInit
    BY DEF ServicesInit
  <2> QED
    BY <2>1 DEF Shot!ShotInit, ShotFacts!ShotInit, Shot!NoShotChild, ShotFacts!NoShotChild,
       Shot!NeverReverted, ShotFacts!NeverReverted
<1> QED
  BY <1>1, LaneFits, ShotFacts!ShotBegins

LEMMA LaneFollows ==
  ASSUME ShotFacts!ShotInv
  PROVE  Shot!EverySolvent /\ Shot!RevertedWaits /\ Shot!ShotTypeOK
<1>1. ShotFacts!EverySolvent /\ ShotFacts!RevertedWaits /\ ShotFacts!ShotTypeOK
  BY ShotFacts!ShotFollows
<1>2. Shot!EverySolvent
  BY <1>1 DEF ShotFacts!EverySolvent, Shot!EverySolvent, ShotFacts!SumOf, Shot!SumOf, ShotFacts!Shots, Shot!Shots,
     ShotFacts!MapThenSumSet, Shot!MapThenSumSet, ShotFacts!MapThenFoldSet, Shot!MapThenFoldSet
<1>3. Shot!RevertedWaits
  BY <1>1 DEF ShotFacts!RevertedWaits, Shot!RevertedWaits, ShotFacts!chosen, Shot!chosen,
     ShotFacts!eventPools, Shot!eventPools
<1>4. Shot!ShotTypeOK
  BY <1>1 DEF ShotFacts!ShotTypeOK, Shot!ShotTypeOK, ShotFacts!unresolved, Shot!unresolved,
     ShotFacts!Shots, Shot!Shots, ShotFacts!Cardinality, Shot!Cardinality
<1> QED
  BY <1>2, <1>3, <1>4

(* The Earn lane of the parts stays net-positive, and a reverted route waits.   *)
THEOREM LaneStaysSolvent == ServicesSpec => []EarnLaneKept
<1>1. ServicesInit => ShotFacts!ShotInv
  BY LaneBegins
<1>2. ShotFacts!ShotInv /\ [ServicesNext]_serviceVars => ShotFacts!ShotInv'
  BY PartMoves, LaneSame, LaneFits, ShotFacts!ShotKeeps
<1>3. ShotFacts!ShotInv => EarnLaneKept
  BY LaneFollows DEF EarnLaneKept
<1> QED
  BY <1>1, <1>2, <1>3, PTL DEF ServicesSpec
--------------------------------------------------------------------------------
(* The search *)

(* A search is the same seen from either place. *)
LEMMA ListsSame ==
  /\ \A s, n : Searching!take(s, n) = SearchFacts!take(s, n)
  /\ \A s, k : Searching!rotate(s, k) = SearchFacts!rotate(s, k)
  /\ \A s, S : Searching!among(s, S) = SearchFacts!among(s, S)
  /\ \A lanes, budget : Searching!shareBudget(lanes, budget) = SearchFacts!shareBudget(lanes, budget)
  /\ Searching!AssetSet = SearchFacts!AssetSet
  /\ \A a, b : Searching!PickMax(a, b) = SearchFacts!PickMax(a, b)
<1>1. /\ \A s, n : Searching!take(s, n) = SearchFacts!take(s, n)
      /\ \A s, k : Searching!rotate(s, k) = SearchFacts!rotate(s, k)
  BY DEF Searching!take, SearchFacts!take, Searching!rotate, SearchFacts!rotate, Searching!PickMin, SearchFacts!PickMin
<1>2. \A s, S : Searching!among(s, S) = SearchFacts!among(s, S)
  BY DEF Searching!among, SearchFacts!among, Searching!Cardinality, SearchFacts!Cardinality
<1>3. \A lanes, budget : Searching!shareBudget(lanes, budget) = SearchFacts!shareBudget(lanes, budget)
  BY DEF Searching!shareBudget, SearchFacts!shareBudget, Searching!before, SearchFacts!before,
     Searching!take, SearchFacts!take, Searching!PickMin, SearchFacts!PickMin,
     Searching!Cardinality, SearchFacts!Cardinality
<1>4. Searching!AssetSet = SearchFacts!AssetSet
  BY DEF Searching!AssetSet, SearchFacts!AssetSet
<1>5. \A a, b : Searching!PickMax(a, b) = SearchFacts!PickMax(a, b)
  BY DEF Searching!PickMax, SearchFacts!PickMax
<1> QED
  BY <1>1, <1>2, <1>3, <1>4, <1>5

LEMMA CandidatesSame ==
  \A block : Searching!selectSettlementFundingCandidates(block) = SearchFacts!selectSettlementFundingCandidates(block)
<1> TAKE block
<1> DEFINE named == {a \in SearchFacts!AssetSet : SearchFacts!touched(a)}
           rest == SearchFacts!AssetSet \ named
           open == {a \in SearchFacts!AssetSet : SearchFacts!eventWake => a \in {"USDG"} \/ SearchFacts!touched(a)}
           ranked(N, R) ==
             SearchFacts!take(SearchFacts!among(searchAssets, N \cap {"USDG"}) \o SearchFacts!among(searchAssets, R \cap {"USDG"})
               \o SearchFacts!among(searchAssets, N \ {"USDG"})
               \o SearchFacts!rotate(SearchFacts!among(searchAssets, R \ {"USDG"}), block), 2)
           ranked2(N, R) ==
             Searching!take(Searching!among(searchAssets, N \cap {"USDG"}) \o Searching!among(searchAssets, R \cap {"USDG"})
               \o Searching!among(searchAssets, N \ {"USDG"})
               \o Searching!rotate(Searching!among(searchAssets, R \ {"USDG"}), block), 2)
<1>1. SearchFacts!rankDynamicSettlementCandidates(block) = ranked(named, rest)
  BY DEF SearchFacts!rankDynamicSettlementCandidates
<1>2. {a \in Searching!AssetSet : Searching!touched(a)} = named
  BY ListsSame DEF Searching!touched, SearchFacts!touched
<1>3. Searching!rankDynamicSettlementCandidates(block) = ranked2(named, rest)
  <2> HIDE DEF named
  <2>1. Searching!rankDynamicSettlementCandidates(block)
          = ranked2({a \in Searching!AssetSet : Searching!touched(a)}, Searching!AssetSet \ {a \in Searching!AssetSet : Searching!touched(a)})
    BY DEF Searching!rankDynamicSettlementCandidates
  <2> QED
    BY <1>2, <2>1, ListsSame
<1>4. ranked2(named, rest) = ranked(named, rest)
  BY ListsSame
<1>5. {a \in Searching!AssetSet : Searching!eventWake => a \in {"USDG"} \/ Searching!touched(a)} = open
  BY ListsSame DEF Searching!touched, SearchFacts!touched, Searching!eventWake, SearchFacts!eventWake
<1>6. Searching!rankDynamicSettlementCandidates(block) = SearchFacts!rankDynamicSettlementCandidates(block)
  <2> HIDE DEF named, rest, ranked, ranked2
  <2> QED
    BY <1>1, <1>3, <1>4
<1>7. SearchFacts!selectSettlementFundingCandidates(block) = SearchFacts!among(SearchFacts!rankDynamicSettlementCandidates(block), open)
  BY DEF SearchFacts!selectSettlementFundingCandidates
<1>8. Searching!selectSettlementFundingCandidates(block)
        = Searching!among(Searching!rankDynamicSettlementCandidates(block),
            {a \in Searching!AssetSet : Searching!eventWake => a \in {"USDG"} \/ Searching!touched(a)})
  BY DEF Searching!selectSettlementFundingCandidates
<1> HIDE DEF open
<1> QED
  BY <1>5, <1>6, <1>7, <1>8, ListsSame

LEMMA WorksetsSame ==
  /\ \A routes, block : Searching!selectGlobalRouteWorkset(routes, block) = SearchFacts!selectGlobalRouteWorkset(routes, block)
  /\ \A assets : Searching!allWorksets(assets) = SearchFacts!allWorksets(assets)
<1>1. ASSUME NEW routes, NEW block
      PROVE  Searching!selectGlobalRouteWorkset(routes, block) = SearchFacts!selectGlobalRouteWorkset(routes, block)
  <2> DEFINE all == {routes[i] : i \in DOMAIN routes}
             shares == {r \in all : r.bpt}
             priority == SearchFacts!take(SearchFacts!rotate(SearchFacts!among(routes, shares), block), SearchFacts!PickMax(1, 2 \div 4))
             touched == SearchFacts!sorted({r \in all : SearchFacts!matches(r) > 0}, SearchFacts!closer)
             taken(p) == {p[i] : i \in DOMAIN p}
  <2>1. SearchFacts!selectGlobalRouteWorkset(routes, block) =
          IF SearchFacts!eventWake THEN SearchFacts!take(touched, 2)
          ELSE SearchFacts!take(priority \o SearchFacts!rotate(SearchFacts!among(routes, all \ taken(priority)), block), 2)
    BY DEF SearchFacts!selectGlobalRouteWorkset
  <2> DEFINE priority2 == Searching!take(Searching!rotate(Searching!among(routes, shares), block), Searching!PickMax(1, 2 \div 4))
             touched2 == Searching!sorted({r \in all : Searching!matches(r) > 0}, Searching!closer)
  <2>2. Searching!selectGlobalRouteWorkset(routes, block) =
          IF Searching!eventWake THEN Searching!take(touched2, 2)
          ELSE Searching!take(priority2 \o Searching!rotate(Searching!among(routes, all \ taken(priority2)), block), 2)
    BY DEF Searching!selectGlobalRouteWorkset
  <2>3. priority2 = priority
    <3> HIDE DEF shares
    <3> QED
      BY ListsSame
  <2>4. touched2 = touched
    <3> HIDE DEF all
    <3> QED
      BY DEF Searching!sorted, SearchFacts!sorted, Searching!closer, SearchFacts!closer, Searching!matches, SearchFacts!matches,
         Searching!Cardinality, SearchFacts!Cardinality
  <2>5. Searching!eventWake <=> SearchFacts!eventWake
    BY DEF Searching!eventWake, SearchFacts!eventWake
  <2> HIDE DEF all, priority, priority2, touched, touched2, taken
  <2> QED
    BY <2>1, <2>2, <2>3, <2>4, <2>5, ListsSame
<1>2. ASSUME NEW assets PROVE Searching!allWorksets(assets) = SearchFacts!allWorksets(assets)
  BY <1>1 DEF Searching!allWorksets, SearchFacts!allWorksets
<1> QED
  BY <1>1, <1>2

LEMMA AmountsSame ==
  /\ Searching!Coarse = SearchFacts!Coarse /\ Searching!Between = SearchFacts!Between
  /\ \A curve, principal : Searching!yield(curve, principal) = SearchFacts!yield(curve, principal)
<1>1. \A available : Searching!dynamicProbeAmounts(available) = SearchFacts!dynamicProbeAmounts(available)
  BY DEF Searching!dynamicProbeAmounts, SearchFacts!dynamicProbeAmounts, Searching!PickMin, SearchFacts!PickMin,
     Searching!Cardinality, SearchFacts!Cardinality
<1>2. ASSUME NEW available PROVE Searching!coarseProbeAmounts(available) = SearchFacts!coarseProbeAmounts(available)
  <2> DEFINE picked(values) == {values[i] : i \in IF Len(values) <= 8 THEN 1 .. Len(values)
                                                  ELSE {1, 2, 4, 6, 8, Len(values) - 2, Len(values) - 1, Len(values)}}
             ascending(S) == SearchFacts!sorted(S, LAMBDA u, v : u < v)
             ascending2(S) == Searching!sorted(S, LAMBDA u, v : u < v)
  <2>1. SearchFacts!coarseProbeAmounts(available) = picked(ascending(SearchFacts!dynamicProbeAmounts(available)))
    BY DEF SearchFacts!coarseProbeAmounts
  <2>2. Searching!coarseProbeAmounts(available) = picked(ascending2(Searching!dynamicProbeAmounts(available)))
    BY DEF Searching!coarseProbeAmounts
  <2>3. \A S : ascending2(S) = ascending(S)
    BY DEF Searching!sorted, SearchFacts!sorted, Searching!Cardinality, SearchFacts!Cardinality
  <2> HIDE DEF picked, ascending, ascending2
  <2> QED
    BY <1>1, <2>1, <2>2, <2>3
<1>3. \A coarse, best, available :
        Searching!refinementProbeAmounts(coarse, best, available) = SearchFacts!refinementProbeAmounts(coarse, best, available)
  BY DEF Searching!refinementProbeAmounts, SearchFacts!refinementProbeAmounts
<1>4. Searching!Coarse = SearchFacts!Coarse
  BY <1>2 DEF Searching!Coarse, SearchFacts!Coarse
<1>5. Searching!Between = SearchFacts!Between
  <2>1. Searching!Between = [m \in DOMAIN fundings |-> [p \in Searching!Coarse[m] |->
                               Searching!refinementProbeAmounts(Searching!Coarse[m], p, fundings[m])]]
    BY DEF Searching!Between
  <2>2. SearchFacts!Between = [m \in DOMAIN fundings |-> [p \in SearchFacts!Coarse[m] |->
                               SearchFacts!refinementProbeAmounts(SearchFacts!Coarse[m], p, fundings[m])]]
    BY DEF SearchFacts!Between
  <2>3. \A m \in DOMAIN fundings :
          [p \in Searching!Coarse[m] |-> Searching!refinementProbeAmounts(Searching!Coarse[m], p, fundings[m])]
            = [p \in SearchFacts!Coarse[m] |-> SearchFacts!refinementProbeAmounts(SearchFacts!Coarse[m], p, fundings[m])]
    BY <1>3, <1>4
  <2> QED
    BY <2>1, <2>2, <2>3
<1>6. \A curve, principal : Searching!yield(curve, principal) = SearchFacts!yield(curve, principal)
  BY DEF Searching!yield, SearchFacts!yield
<1> QED
  BY <1>4, <1>5, <1>6

LEMMA QuotesSame ==
  \A curve, mode, fails : Searching!quotesOf(curve, mode, fails) = SearchFacts!quotesOf(curve, mode, fails)
<1> SUFFICES ASSUME NEW curve, NEW mode, NEW fails
             PROVE  Searching!quotesOf(curve, mode, fails) = SearchFacts!quotesOf(curve, mode, fails)
  OBVIOUS
<1> DEFINE says(coarse, refined) ==
             LET missed == IF fails = "all" THEN coarse ELSE {}
                 gains == {p \in coarse \ missed : SearchFacts!yield(curve, p) > 0}
                 between == UNION {refined[p] : p \in SearchFacts!bestAmounts(gains, curve)}
                 quoted == (coarse \ missed) \cup (IF fails = "between" THEN {} ELSE between)
                 failed == missed \cup (IF fails = "between" THEN between ELSE {}) IN
             IF curve = SearchFacts!Unbuildable THEN [good |-> {}, seen |-> {"UNSUPPORTED"}]
             ELSE [good |-> {[mode |-> mode, principal |-> p, delta |-> SearchFacts!yield(curve, p), refined |-> p \notin coarse] :
                               p \in {p \in quoted : SearchFacts!yield(curve, p) > 0}},
                   seen |-> SearchFacts!quotePlan(curve, mode, quoted, failed)]
<1>1. SearchFacts!quotesOf(curve, mode, fails) = says(SearchFacts!Coarse[mode], SearchFacts!Between[mode])
  BY DEF SearchFacts!quotesOf
<1>2. Searching!quotesOf(curve, mode, fails) = says(Searching!Coarse[mode], Searching!Between[mode])
  BY DEF Searching!quotesOf, Searching!yield, SearchFacts!yield, Searching!bestAmounts, SearchFacts!bestAmounts,
     Searching!Unbuildable, SearchFacts!Unbuildable, Searching!quotePlan, SearchFacts!quotePlan,
     Searching!classifyQuoteOutcome, SearchFacts!classifyQuoteOutcome
<1> HIDE DEF says
<1> QED
  BY <1>1, <1>2, AmountsSame

LEMMA ReadFundingSame == Searching!ReadFunding <=> SearchFacts!ReadFunding
<1> DEFINE reads(candidates) ==
       LET checked == SearchFacts!among(candidates, DOMAIN searchRoutes)
           names == {checked[i] : i \in DOMAIN checked} IN
       \E funds \in [names -> SUBSET DOMAIN fundings], answer \in [names -> {"ok", "RPC_ERROR", "UNSUPPORTED"}] :
         LET outcome(a) == SearchFacts!fundingOutcome(funds[a], answer[a])
             rejected == {outcome(a) : a \in names} \ {"FUNDED"} IN
         search' = [search EXCEPT !.pc = "valuation", !.checked = checked,
                      !.funds = [a \in SearchFacts!AssetSet |-> IF a \in names THEN funds[a] ELSE {}],
                      !.funded = {a \in names : outcome(a) = "FUNDED"},
                      !.sure = rejected \subseteq {"POLICY_FILTERED"},
                      !.seen = rejected \cup (IF Len(checked) = Len(candidates) THEN {} ELSE {"UNSUPPORTED"})]
<1>1. SearchFacts!ReadFunding <=> /\ search.pc = "funding" /\ reads(SearchFacts!selectSettlementFundingCandidates(search.block)) /\ UNCHANGED file
  BY DEF SearchFacts!ReadFunding
<1> DEFINE reads2(candidates, checked) ==
       LET names == {checked[i] : i \in DOMAIN checked} IN
       \E funds \in [names -> SUBSET DOMAIN fundings], answer \in [names -> {"ok", "RPC_ERROR", "UNSUPPORTED"}] :
         LET outcome(a) == SearchFacts!fundingOutcome(funds[a], answer[a])
             rejected == {outcome(a) : a \in names} \ {"FUNDED"} IN
         search' = [search EXCEPT !.pc = "valuation", !.checked = checked,
                      !.funds = [a \in SearchFacts!AssetSet |-> IF a \in names THEN funds[a] ELSE {}],
                      !.funded = {a \in names : outcome(a) = "FUNDED"},
                      !.sure = rejected \subseteq {"POLICY_FILTERED"},
                      !.seen = rejected \cup (IF Len(checked) = Len(candidates) THEN {} ELSE {"UNSUPPORTED"})]
<1>2. \A candidates : reads(candidates) <=> reads2(candidates, SearchFacts!among(candidates, DOMAIN searchRoutes))
  OBVIOUS
<1>3. LET candidates == Searching!selectSettlementFundingCandidates(search.block) IN
      Searching!ReadFunding <=> /\ search.pc = "funding" /\ reads2(candidates, Searching!among(candidates, DOMAIN searchRoutes)) /\ UNCHANGED file
  BY DEF Searching!ReadFunding, Searching!fundingOutcome, SearchFacts!fundingOutcome, Searching!AssetSet, SearchFacts!AssetSet
<1> HIDE DEF reads, reads2
<1> QED
  BY <1>1, <1>2, <1>3, CandidatesSame, ListsSame

LEMMA ValueAssetsSame == Searching!ValueAssets <=> SearchFacts!ValueAssets
<1> DEFINE good(value, lenders, i) == {j \in 1 .. i : value[lenders[j]] = "ok"}
           tried(value, lenders) == {lenders[i] : i \in {i \in DOMAIN lenders : SearchFacts!Cardinality(good(value, lenders, i - 1)) < 2}}
           admitted(value, lenders) == {a \in tried(value, lenders) : value[a] = "ok"}
           goes(value, lenders, funded, worksets) ==
             search' = [search EXCEPT !.pc = "quote", !.admitted = funded, !.worksets = worksets,
                          !.seen = @ \cup ({value[a] : a \in tried(value, lenders)} \ {"ok"})]
           lent == SearchFacts!among(search.checked, search.funded)
           lent2 == Searching!among(search.checked, search.funded)
           roots(S) == SearchFacts!among(SearchFacts!topology(SearchFacts!among(lent, S)), S)
           roots2(S) == Searching!among(Searching!topology(Searching!among(lent2, S)), S)
           limit == IF SearchFacts!eventWake THEN 2 ELSE 2
           limit2 == IF Searching!eventWake THEN 2 ELSE 2
<1>1. SearchFacts!ValueAssets <=>
        /\ search.pc = "valuation"
        /\ \E value \in [search.funded -> SearchFacts!valuationOutcomes] :
             goes(value, lent, roots(admitted(value, lent)), SearchFacts!shareBudget(SearchFacts!allWorksets(roots(admitted(value, lent))), limit))
        /\ UNCHANGED file
  BY DEF SearchFacts!ValueAssets
<1>2. Searching!ValueAssets <=>
        /\ search.pc = "valuation"
        /\ \E value \in [search.funded -> Searching!valuationOutcomes] :
             goes(value, lent2, roots2(admitted(value, lent2)), Searching!shareBudget(Searching!allWorksets(roots2(admitted(value, lent2))), limit2))
        /\ UNCHANGED file
  BY DEF Searching!ValueAssets, Searching!Cardinality, SearchFacts!Cardinality
<1>3. lent2 = lent /\ limit2 = limit
  BY ListsSame DEF Searching!eventWake, SearchFacts!eventWake
<1>4. \A S : Searching!topology(S) = SearchFacts!topology(S)
  BY ListsSame DEF Searching!topology, SearchFacts!topology
<1>5. \A S : roots2(S) = roots(S)
  <2> HIDE DEF lent, lent2
  <2> QED
    BY <1>3, <1>4, ListsSame
<1>6. Searching!valuationOutcomes = SearchFacts!valuationOutcomes
  BY DEF Searching!valuationOutcomes, SearchFacts!valuationOutcomes
<1> HIDE DEF admitted, goes, lent, lent2, roots, roots2, limit, limit2
<1>7. \A S : Searching!shareBudget(Searching!allWorksets(roots2(S)), limit2) = SearchFacts!shareBudget(SearchFacts!allWorksets(roots(S)), limit)
  BY <1>3, <1>5, WorksetsSame, ListsSame
<1> QED
  BY <1>1, <1>2, <1>3, <1>5, <1>6, <1>7

LEMMA QuoteAssetSame == Searching!QuoteAsset <=> SearchFacts!QuoteAsset
<1> DEFINE asset == search.admitted[search.lane]
           lent == search.funds[asset]
           Market == curves \cup {SearchFacts!Unbuildable}
           says == [c \in Market |-> [m \in lent |-> [f \in SearchFacts!Failures |-> SearchFacts!quotesOf(c, m, f)]]]
           yields == [c \in Market |-> \E m \in lent : \E p \in SearchFacts!Coarse[m] : SearchFacts!yield(c, p) > 0]
           says2 == [c \in Market |-> [m \in lent |-> [f \in SearchFacts!Failures |-> Searching!quotesOf(c, m, f)]]]
           yields2 == [c \in Market |-> \E m \in lent : \E p \in Searching!Coarse[m] : Searching!yield(c, p) > 0]
           quoted(S, Y, routes) ==
             \E market \in [routes -> Market], fails \in [routes -> SearchFacts!Failures] :
               LET quotes == [r \in routes |-> {S[market[r]][m][fails[r]] : m \in lent}] IN
               search' = [search EXCEPT !.lane = @ + 1, !.gain = @ \/ \E r \in routes : Y[market[r]],
                            !.positive = @ \cup UNION {{[asset |-> asset, route |-> r, quote |-> q] : q \in UNION {x.good : x \in quotes[r]}} : r \in routes},
                            !.seen = @ \cup UNION {x.seen : x \in UNION {quotes[r] : r \in routes}}]
<1>1. SearchFacts!QuoteAsset <=>
        /\ search.pc = "quote" /\ search.lane <= Len(search.admitted)
        /\ quoted(says, yields, SearchFacts!routesAt(search.lane)) /\ UNCHANGED file
  BY DEF SearchFacts!QuoteAsset
<1>2. Searching!QuoteAsset <=>
        /\ search.pc = "quote" /\ search.lane <= Len(search.admitted)
        /\ quoted(says2, yields2, Searching!routesAt(search.lane)) /\ UNCHANGED file
  BY DEF Searching!QuoteAsset, Searching!Failures, SearchFacts!Failures, Searching!Unbuildable, SearchFacts!Unbuildable
<1>3. Searching!routesAt(search.lane) = SearchFacts!routesAt(search.lane)
  BY DEF Searching!routesAt, SearchFacts!routesAt
<1>4. says2 = says
  <2>1. ASSUME NEW c, NEW m
        PROVE  [f \in SearchFacts!Failures |-> Searching!quotesOf(c, m, f)] = [f \in SearchFacts!Failures |-> SearchFacts!quotesOf(c, m, f)]
    BY QuotesSame
  <2>2. ASSUME NEW c
        PROVE  [m \in lent |-> [f \in SearchFacts!Failures |-> Searching!quotesOf(c, m, f)]]
                 = [m \in lent |-> [f \in SearchFacts!Failures |-> SearchFacts!quotesOf(c, m, f)]]
    BY <2>1
  <2> QED
    BY <2>2
<1>5. yields2 = yields
  <2>1. ASSUME NEW c
        PROVE  (\E m \in lent : \E p \in Searching!Coarse[m] : Searching!yield(c, p) > 0)
                 = (\E m \in lent : \E p \in SearchFacts!Coarse[m] : SearchFacts!yield(c, p) > 0)
    <3>1. (\E m \in lent : \E p \in Searching!Coarse[m] : Searching!yield(c, p) > 0)
            <=> (\E m \in lent : \E p \in SearchFacts!Coarse[m] : SearchFacts!yield(c, p) > 0)
      BY AmountsSame
    <3> QED
      BY <3>1
  <2> QED
    BY <2>1
<1> HIDE DEF says, yields, says2, yields2, quoted
<1> QED
  BY <1>1, <1>2, <1>3, <1>4, <1>5

LEMMA SelectSame == Searching!SelectCandidates <=> SearchFacts!SelectCandidates
<1> DEFINE lanes == [i \in DOMAIN byAddress |-> SearchFacts!sorted(SearchFacts!bestOfRoutes(byAddress[i]), SearchFacts!larger)]
           lanes2 == [i \in DOMAIN byAddress |-> Searching!sorted(Searching!bestOfRoutes(byAddress[i]), Searching!larger)]
           drawn(given) == UNION {{given[i][k] : k \in DOMAIN given[i]} : i \in DOMAIN given}
<1>1. \A a : Searching!bestOfRoutes(a) = SearchFacts!bestOfRoutes(a)
  BY DEF Searching!bestOfRoutes, SearchFacts!bestOfRoutes, Searching!preferred, SearchFacts!preferred
<1>2. \A S : Searching!sorted(S, Searching!larger) = SearchFacts!sorted(S, SearchFacts!larger)
  BY DEF Searching!sorted, SearchFacts!sorted, Searching!larger, SearchFacts!larger, Searching!Cardinality, SearchFacts!Cardinality
<1>3. lanes2 = lanes
  <2>1. \A i : Searching!sorted(Searching!bestOfRoutes(byAddress[i]), Searching!larger)
                 = SearchFacts!sorted(SearchFacts!bestOfRoutes(byAddress[i]), SearchFacts!larger)
    <3> TAKE i
    <3>1. Searching!sorted(SearchFacts!bestOfRoutes(byAddress[i]), Searching!larger)
            = SearchFacts!sorted(SearchFacts!bestOfRoutes(byAddress[i]), SearchFacts!larger)
      BY <1>2
    <3> QED
      BY <1>1, <3>1
  <2> QED
    BY <2>1
<1>4. SearchFacts!selectBoundedManagedCandidates = drawn(SearchFacts!shareBudget(lanes, 2))
  BY DEF SearchFacts!selectBoundedManagedCandidates
<1>5. Searching!selectBoundedManagedCandidates = drawn(Searching!shareBudget(lanes2, 2))
  BY DEF Searching!selectBoundedManagedCandidates
<1>6. Searching!selectBoundedManagedCandidates = SearchFacts!selectBoundedManagedCandidates
  <2> HIDE DEF lanes, lanes2, drawn
  <2> QED
    BY <1>3, <1>4, <1>5, ListsSame
<1> QED
  BY <1>6 DEF Searching!SelectCandidates, SearchFacts!SelectCandidates

LEMMA DecideSame == Searching!Decide <=> SearchFacts!Decide
<1>1. Searching!topology(search.admitted) = SearchFacts!topology(search.admitted)
  BY ListsSame DEF Searching!topology, SearchFacts!topology
<1>2. Searching!searchable <=> SearchFacts!searchable
  <2> DEFINE some(roots) == \E i \in DOMAIN roots : SearchFacts!selectGlobalRouteWorkset(searchRoutes[roots[i]], search.block) # <<>>
             some2(roots) == \E i \in DOMAIN roots : Searching!selectGlobalRouteWorkset(searchRoutes[roots[i]], search.block) # <<>>
  <2>1. SearchFacts!searchable <=> some(SearchFacts!topology(search.admitted))
    BY DEF SearchFacts!searchable
  <2>2. Searching!searchable <=> some2(Searching!topology(search.admitted))
    BY DEF Searching!searchable
  <2>3. \A roots : some2(roots) <=> some(roots)
    BY WorksetsSame
  <2> HIDE DEF some, some2
  <2> QED
    BY <1>1, <2>1, <2>2, <2>3
<1>3. \A S : Searching!coverageOf(S) = SearchFacts!coverageOf(S)
  BY DEF Searching!coverageOf, SearchFacts!coverageOf, Searching!Unavailable, SearchFacts!Unavailable,
     Searching!Definite, SearchFacts!Definite
<1>4. Searching!evaluated = SearchFacts!evaluated
  BY DEF Searching!evaluated, SearchFacts!evaluated
<1>5. Searching!fundingBlocked <=> SearchFacts!fundingBlocked
  BY <1>2 DEF Searching!fundingBlocked, SearchFacts!fundingBlocked
<1>6. Searching!evaluationIncomplete <=> SearchFacts!evaluationIncomplete
  BY <1>3, <1>4, <1>5 DEF Searching!evaluationIncomplete, SearchFacts!evaluationIncomplete, Searching!Valid, SearchFacts!Valid
<1>7. Searching!readiness = SearchFacts!readiness
  BY <1>5, <1>6 DEF Searching!readiness, SearchFacts!readiness
<1>8. ASSUME NEW status, NEW coverage, NEW selected
      PROVE  Searching!decides(status, coverage, selected) <=> SearchFacts!decides(status, coverage, selected)
  BY DEF Searching!decides, SearchFacts!decides
<1>9. (IF Searching!fundingBlocked \/ Searching!evaluationIncomplete THEN "PARTIAL" ELSE Searching!coverageOf(Searching!evaluated))
        = (IF SearchFacts!fundingBlocked \/ SearchFacts!evaluationIncomplete THEN "PARTIAL" ELSE SearchFacts!coverageOf(SearchFacts!evaluated))
  BY <1>3, <1>4, <1>5, <1>6
<1> DEFINE ends(status, coverage) ==
             \E selected \in SUBSET search.exact :
               /\ SearchFacts!Cardinality(selected) = IF search.exact = {} THEN 0 ELSE 1
               /\ \A c \in selected, d \in search.exact : d.delta <= c.delta
               /\ SearchFacts!decides(status, coverage, selected)
<1>10. SearchFacts!Decide <=>
         /\ search.pc = "exact" /\ search.left = {} /\ UNCHANGED file
         /\ ends(SearchFacts!readiness, IF SearchFacts!fundingBlocked \/ SearchFacts!evaluationIncomplete THEN "PARTIAL"
                                        ELSE SearchFacts!coverageOf(SearchFacts!evaluated))
  BY DEF SearchFacts!Decide
<1>11. Searching!Decide <=>
         /\ search.pc = "exact" /\ search.left = {} /\ UNCHANGED file
         /\ ends(Searching!readiness, IF Searching!fundingBlocked \/ Searching!evaluationIncomplete THEN "PARTIAL"
                                      ELSE Searching!coverageOf(Searching!evaluated))
  BY <1>8 DEF Searching!Decide, Searching!Cardinality, SearchFacts!Cardinality
<1> HIDE DEF ends
<1> QED
  BY <1>7, <1>9, <1>10, <1>11

LEMMA SearchSame ==
  ASSUME [Searching!SearchNext]_searchVars
  PROVE  [SearchFacts!SearchNext]_(SearchFacts!searchVars)
<1>1. ASSUME NEW state PROVE Searching!PublishCatalog(state) <=> SearchFacts!PublishCatalog(state)
  BY DEF Searching!PublishCatalog, SearchFacts!PublishCatalog
<1>2. ASSUME NEW wake, NEW block PROVE Searching!StartSearch(wake, block) <=> SearchFacts!StartSearch(wake, block)
  BY DEF Searching!StartSearch, SearchFacts!StartSearch
<1>3. Searching!LoadGraph <=> SearchFacts!LoadGraph
  BY DEF Searching!LoadGraph, SearchFacts!LoadGraph, Searching!decides, SearchFacts!decides
<1>4. ASSUME NEW c, NEW curve, NEW read_ PROVE Searching!EvaluateExact(c, curve, read_) <=> SearchFacts!EvaluateExact(c, curve, read_)
  BY DEF Searching!EvaluateExact, SearchFacts!EvaluateExact, Searching!exactNetEvaluation, SearchFacts!exactNetEvaluation,
     Searching!yield, SearchFacts!yield
<1>5. ASSUME NEW available PROVE Searching!Rebuild(available) <=> SearchFacts!Rebuild(available)
  BY DEF Searching!Rebuild, SearchFacts!Rebuild
<1>6. Searching!SearchNext => SearchFacts!SearchNext
  BY <1>1, <1>2, <1>3, <1>4, <1>5, ReadFundingSame, ValueAssetsSame, QuoteAssetSame, SelectSame, DecideSame
     DEF Searching!SearchNext, SearchFacts!SearchNext
<1>7. UNCHANGED searchVars => UNCHANGED SearchFacts!searchVars
  BY DEF SearchFacts!searchVars, searchVars
<1> QED
  BY <1>6, <1>7, Zenon

LEMMA SearchFits == SearchFacts!SearchAssumption
<1>1. SearchFacts!AssetSet = {"USDG", "WETH", "SPX"}
  BY DEF SearchFacts!AssetSet, searchAssets
<1>2. searchAssets \in Seq(SearchFacts!AssetSet) /\ \A i, j \in DOMAIN searchAssets : searchAssets[i] = searchAssets[j] => i = j
  BY <1>1 DEF searchAssets
<1>3. byAddress \in Seq(SearchFacts!AssetSet) /\ SearchFacts!AssetSet \subseteq {byAddress[i] : i \in DOMAIN byAddress}
  BY <1>1 DEF byAddress
<1>4. \E Route : searchRoutes \in [SearchFacts!AssetSet -> Seq(Route)]
  <2> DEFINE u1 == routeAt("u1", 1, TRUE, {"p1"})
             u2 == routeAt("u2", 2, FALSE, {"p1", "p2"})
             w1 == routeAt("w1", 1, FALSE, {"p1", "p3"})
             x1 == routeAt("x1", 1, FALSE, {"p2", "p3"})
  <2>1. searchRoutes = [USDG |-> <<u1, u2>>, WETH |-> <<w1>>, SPX |-> <<x1>>]
    BY DEF searchRoutes
  <2> HIDE DEF u1, u2, w1, x1
  <2>2. <<u1, u2>> \in Seq({u1, u2, w1, x1}) /\ <<w1>> \in Seq({u1, u2, w1, x1}) /\ <<x1>> \in Seq({u1, u2, w1, x1})
    OBVIOUS
  <2>3. searchRoutes \in [SearchFacts!AssetSet -> Seq({u1, u2, w1, x1})]
    <3> DEFINE S == Seq({u1, u2, w1, x1})
    <3>1. \A A, B, C : A \in S /\ B \in S /\ C \in S => [USDG |-> A, WETH |-> B, SPX |-> C] \in [{"USDG", "WETH", "SPX"} -> S]
      <4> HIDE DEF S
      <4> QED
        OBVIOUS
    <3> QED
      BY <1>1, <2>1, <2>2, <3>1
  <2> QED
    BY <2>3
<1>5. DOMAIN fundings \subseteq {"flash", "inventory"} /\ \A m \in DOMAIN fundings : fundings[m] \in Nat
  BY DEF fundings
<1>6. familiar \in Seq(Nat \ {0})
  BY DEF familiar
<1>7. curves \subseteq [peak : Int, height : Int]
  BY DEF curves
<1> QED
  BY <1>2, <1>3, <1>4, <1>5, <1>6, <1>7 DEF SearchFacts!SearchAssumption

LEMMA SearchBegins == ASSUME ServicesInit PROVE SearchFacts!SearchInv
<1>1. SearchFacts!SearchInit
  <2>1. Searching!SearchInit
    BY DEF ServicesInit
  <2> QED
    BY <2>1 DEF Searching!SearchInit, SearchFacts!SearchInit, Searching!Idle, SearchFacts!Idle, Searching!AssetSet, SearchFacts!AssetSet
<1> QED
  BY <1>1, SearchFits, SearchFacts!SearchBegins

LEMMA SearchFollows ==
  ASSUME SearchFacts!SearchInv
  PROVE  Searching!BudgetShared /\ Searching!DecisionHonest /\ Searching!SearchTypeOK
<1>1. SearchFacts!BudgetShared /\ SearchFacts!DecisionHonest /\ SearchFacts!SearchTypeOK
  BY SearchFits, SearchFacts!SearchFollows
<1>2. Searching!BudgetShared
  <2> DEFINE shared_(all, budget, given) ==
        LET quoted == {c \in (DOMAIN all) \X (1 .. 2) : c[2] <= Len(given[c[1]])}
            work == {c \in (DOMAIN all) \X (1 .. 2) : c[2] <= Len(all[c[1]])} IN
        /\ SearchFacts!Cardinality(quoted) = SearchFacts!PickMin(budget, SearchFacts!Cardinality(work))
        /\ \A i, j \in DOMAIN all : Len(given[i]) < Len(all[i]) => Len(given[j]) <= Len(given[i]) + 1
  <2>1. search.pc = "quote" /\ search.lane = 1 =>
          shared_(SearchFacts!allWorksets(search.admitted), IF SearchFacts!eventWake THEN 2 ELSE 2, search.worksets)
    BY <1>1 DEF SearchFacts!BudgetShared
  <2>2. Searching!BudgetShared <=> (search.pc = "quote" /\ search.lane = 1 =>
          shared_(Searching!allWorksets(search.admitted), IF SearchFacts!eventWake THEN 2 ELSE 2, search.worksets))
    BY DEF Searching!BudgetShared, Searching!eventWake, SearchFacts!eventWake, Searching!PickMin, SearchFacts!PickMin,
       Searching!Cardinality, SearchFacts!Cardinality
  <2> HIDE DEF shared_
  <2> QED
    BY <2>1, <2>2, WorksetsSame
<1>3. Searching!DecisionHonest
  BY <1>1, ListsSame DEF Searching!DecisionHonest, SearchFacts!DecisionHonest
<1>4. Searching!SearchTypeOK
  BY <1>1 DEF Searching!SearchTypeOK, SearchFacts!SearchTypeOK, Searching!Definite, SearchFacts!Definite,
     Searching!Unavailable, SearchFacts!Unavailable, Searching!Cardinality, SearchFacts!Cardinality
<1> QED
  BY <1>2, <1>3, <1>4

(* The search of the parts shares its routes and decides nothing its reads do   *)
(* not bear out, and with the board keeps to the day's ceiling.                 *)
THEOREM SearchesHonest == ServicesSpec => []SearchHonest
<1>1. ServicesInit => SearchFacts!SearchInv
  BY SearchBegins
<1>2. SearchFacts!SearchInv /\ [ServicesNext]_serviceVars => SearchFacts!SearchInv'
  BY PartMoves, SearchSame, SearchFits, SearchFacts!SearchKeeps
<1> DEFINE Kept == (part = "fallback" => Fallback!CeilingKept) /\ (part = "hotRpc" => HotRpc!CeilingKept)
<1>3. SearchFacts!SearchInv /\ Kept => SearchHonest
  BY SearchFollows DEF SearchHonest
<1>4. ServicesSpec => []Kept
  BY CeilingsKept, PTL
<1> HIDE DEF Kept
<1> QED
  BY <1>1, <1>2, <1>3, <1>4, PTL DEF ServicesSpec

(* What the types of the parts rest on. *)
PartsInv ==
  /\ part = "hot" => HotInv /\ HotRange
  /\ part = "source" => SourceInv /\ SourceRange
  /\ part = "board" => BoardInv /\ BoardRange
  /\ part = "sequencer" => FeedInv
  /\ part = "fallback" => BudgetInv({"worker", "child"}) /\ BudgetRange({"worker", "child"})
  /\ part = "hotRpc" => BudgetInv({"board"}) /\ BudgetRange({})
  /\ part = "alert" => AlertInv /\ AlertRange

LEMMA PartsBegin == ASSUME ServicesInit PROVE PartsInv
<1>1. Hot!HotInit /\ Source!SourceInit /\ Board!PubInit /\ Sequencer!FeedInit /\ Watched!AlertInit
      /\ IF part = "hotRpc" THEN HotRpc!BudgetInit ELSE Fallback!BudgetInit
  BY DEF ServicesInit
<1>2. HotInv /\ HotRange /\ SourceInv /\ SourceRange /\ BoardInv /\ BoardRange
  BY <1>1, HotInit, HotRangeBegins, SourceBegins, SourceRangeBegins, BoardBegins, BoardRangeBegins
<1>3. FeedInv /\ AlertInv /\ AlertRange
  BY <1>1, FeedStarts, AlertBegins, AlertRangeBegins
<1>4. /\ part = "fallback" => BudgetInv({"worker", "child"}) /\ BudgetRange({"worker", "child"})
      /\ part = "hotRpc" => BudgetInv({"board"}) /\ BudgetRange({})
  BY <1>1, BudgetBegins, BudgetRangeBegins
<1> QED
  BY <1>2, <1>3, <1>4 DEF PartsInv

LEMMA PartsKeep == ASSUME PartsInv, [ServicesNext]_serviceVars PROVE PartsInv'
<1>1. CASE part = "hot"
  BY <1>1, PartSteps, HotStepKeeps, HotRangeKept DEF PartsInv
<1>2. CASE part = "source"
  BY <1>2, PartSteps, SourceKeeps, SourceRangeKept DEF PartsInv
<1>3. CASE part = "board"
  BY <1>3, PartSteps, BoardKeeps, BoardRangeKept DEF PartsInv
<1>4. CASE part = "sequencer"
  BY <1>4, PartSteps, FeedStep DEF PartsInv
<1>5. CASE part = "fallback"
  BY <1>5, PartSteps, FallbackMoves, BudgetKeeps, BudgetRangeKept DEF PartsInv
<1>6. CASE part = "hotRpc"
  BY <1>6, PartSteps, HotRpcMoves, BudgetKeeps, BudgetRangeKept DEF PartsInv
<1>7. CASE part = "alert"
  BY <1>7, PartSteps, AlertKeeps, AlertRangeKept DEF PartsInv
<1>8. CASE part \notin {"hot", "source", "board", "sequencer", "fallback", "hotRpc", "alert"}
  BY <1>8, PartSteps DEF PartsInv
<1> QED
  BY <1>1, <1>2, <1>3, <1>4, <1>5, <1>6, <1>7, <1>8

(* Every part keeps its types, for any chain, catalogs, candidates, frames,     *)
(* budgets and bounds: no cursor passes what was read, no catalog holds what    *)
(* the chain does not, no budget is of a day to come, and the ledger is not     *)
(* ahead of itself.                                                             *)
THEOREM PartsTyped == ServicesSpec => []ServicesTypeOK
<1> DEFINE Inv == TypeOK /\ ExecutorsInv /\ ShotFacts!ShotInv /\ SearchFacts!SearchInv /\ PartsInv
<1>1. ServicesInit => Inv
  <2>1. ServicesInit => TypeOK
    BY TypeInit DEF ServicesInit
  <2> QED
    BY <2>1, ExecutorsBegin, LaneBegins, SearchBegins, PartsBegin
<1>2. Inv /\ [ServicesNext]_serviceVars => Inv'
  <2> SUFFICES ASSUME Inv, [ServicesNext]_serviceVars PROVE Inv'
    OBVIOUS
  <2>1. TypeOK'
    BY PartMoves, TypeStep
  <2>2. ExecutorsInv' /\ PartsInv'
    BY ExecutorsKeep, PartsKeep
  <2>3. ShotFacts!ShotInv'
    BY PartMoves, LaneSame, LaneFits, ShotFacts!ShotKeeps
  <2>4. SearchFacts!SearchInv'
    BY PartMoves, SearchSame, SearchFits, SearchFacts!SearchKeeps
  <2> QED
    BY <2>1, <2>2, <2>3, <2>4
<1>3. Inv => ServicesTypeOK
  <2> SUFFICES ASSUME Inv PROVE ServicesTypeOK
    OBVIOUS
  <2>1. Universal!ExecAssumption /\ Universal!ExecTypeOK /\ Routed!RouteTypeOK /\ Shot!ShotTypeOK /\ Searching!SearchTypeOK
    BY ExecutorsFollow, LaneFollows, SearchFollows
  <2>2. /\ part = "hot" => Hot!HotTypeOK
        /\ part = "source" => Source!SourceTypeOK
        /\ part = "board" => Board!PubTypeOK
        /\ part = "sequencer" => Sequencer!FeedTypeOK
    BY HotTyped, SourceRangeTyped, BoardTyped, FeedTyped DEF PartsInv
  <2>3. /\ part = "fallback" => Fallback!BudgetTypeOK
        /\ part = "hotRpc" => HotRpc!BudgetTypeOK
        /\ part = "alert" => Watched!AlertTypeOK
    BY BudgetTyped, AlertTyped DEF PartsInv
  <2> QED
    BY <2>1, <2>2, <2>3 DEF ServicesTypeOK
<1> QED
  BY <1>1, <1>2, <1>3, PTL DEF ServicesSpec

================================================================================
