------------------------------ MODULE AuditReader ------------------------------
(* The reader of the safety events of an audit ledger: it reads on from where   *)
(* it stood, chunk by chunk, while other processes append, are killed in the    *)
(* middle of a line, or the file is replaced.  A line is a sequence of pieces;  *)
(* the first piece of a record holds its event.                                 *)
EXTENDS Naturals, Sequences, FiniteSets

CONSTANTS
  Pieces,   \* Pieces[kind]: of a "safety" record, an "other", a "wake", a "dump"
  MaxLine,  \* maxLineBytes; a wake and a dump are longer
  Chunk,    \* chunkBytes
  MaxLines, MaxTorn, MaxReplaced  \* bounds: lines, lines cut short, files

(* What an instance assumes of these: a chunk has at least a piece.             *)
ReaderAssumption == MaxLine \in Nat /\ Chunk \in Nat \ {0}

VARIABLES
  ledger,  \* the file: its inode and its pieces, <<kind, number of the line, piece>>; "nl" ends a line
  writer,  \* the line being appended: kind, number, pieces written; lines cut short
  reader   \* IncrementalJsonlEventReader, with the read under way

readerVars == <<ledger, writer, reader>>

nl == <<"nl", 0, 0>>

Fresh(inode) ==
  [inode |-> inode, offset |-> 0, pending |-> <<>>, records |-> <<>>, skipping |-> FALSE,
   target |-> 0, reading |-> FALSE, threw |-> FALSE]

ReaderInit ==
  /\ ledger = [inode |-> 1, bytes |-> <<>>]
  /\ writer = [kind |-> "none", number |-> 0, written |-> 0, torn |-> 0]
  /\ reader = Fresh(0)

--------------------------------------------------------------------------------
(* The processes that append, one line at a time *)

Begin(kind) ==
  /\ writer.kind = "none" /\ writer.number < MaxLines
  /\ writer' = [writer EXCEPT !.kind = kind, !.number = @ + 1, !.written = 0]
  /\ UNCHANGED <<ledger, reader>>

WritePiece ==
  /\ writer.kind # "none"
  /\ LET done == writer.written = Pieces[writer.kind]
         piece == IF done THEN nl ELSE <<writer.kind, writer.number, writer.written + 1>> IN
     /\ ledger' = [ledger EXCEPT !.bytes = Append(@, piece)]
     /\ writer' = IF done THEN [writer EXCEPT !.kind = "none", !.written = 0] ELSE [writer EXCEPT !.written = @ + 1]
  /\ UNCHANGED reader

(* A process killed in the middle of a line: the next line is appended to it.   *)
Tear ==
  /\ writer.kind # "none" /\ writer.written > 0 /\ writer.torn < MaxTorn
  /\ writer' = [writer EXCEPT !.kind = "none", !.written = 0, !.torn = @ + 1]
  /\ UNCHANGED <<ledger, reader>>

Replace ==
  /\ writer.kind = "none" /\ ~reader.reading /\ ledger.inode <= MaxReplaced
  /\ ledger' = [inode |-> ledger.inode + 1, bytes |-> <<>>]
  /\ UNCHANGED <<writer, reader>>

--------------------------------------------------------------------------------
(* A line *)

namesEvent(line) == \E i \in DOMAIN line : line[i][1] = "safety" /\ line[i][3] = 1
isRecord(line) ==
  /\ Len(line) = Pieces["safety"]
  /\ \A i \in DOMAIN line : line[i] = <<"safety", line[1][2], i>>

(* beginOversizeSkip: only the one diagnostic known to be that long is passed   *)
(* over, and only while no safety event is found in it.                         *)
skippable(line) == line[1][1] = "wake" /\ line[1][3] = 1 /\ ~namesEvent(line)

parseLine(line) ==
  IF Len(line) > MaxLine THEN IF skippable(line) THEN "nothing" ELSE "throws"
  ELSE IF ~namesEvent(line) THEN "nothing" ELSE IF isRecord(line) THEN "record" ELSE "throws"

--------------------------------------------------------------------------------
(* A read *)

(* A file that is another one, or shorter, is read from its start.              *)
StartRead ==
  /\ ~reader.reading
  /\ LET r == IF ledger.inode # reader.inode \/ Len(ledger.bytes) < reader.offset THEN Fresh(ledger.inode) ELSE reader IN
     reader' = [r EXCEPT !.reading = Len(ledger.bytes) > r.offset, !.target = Len(ledger.bytes)]
  /\ UNCHANGED <<ledger, writer>>

(* The numbers of S from the least on. *)
inOrder(S) == [k \in 1 .. Cardinality(S) |-> CHOOSE n \in S : Cardinality({m \in S : m <= n}) = k]
newlines(bytes) == inOrder({i \in DOMAIN bytes : bytes[i] = nl})
(* The k-th line of bytes; the last one has no end yet.                         *)
lineAt(bytes, k) ==
  LET ends == newlines(bytes) IN
  SubSeq(bytes, IF k = 1 THEN 1 ELSE ends[k - 1] + 1, IF k > Len(ends) THEN Len(bytes) ELSE ends[k] - 1)
linesOf(bytes) == [k \in DOMAIN newlines(bytes) |-> lineAt(bytes, k)]
recordsOf(lines) ==
  LET found == inOrder({k \in DOMAIN lines : parseLine(lines[k]) = "record"}) IN
  [i \in DOMAIN found |-> lines[found[i]]]

(* A throw leaves the reader where it is: past the chunk, with the tail of the  *)
(* one before.                                                                  *)
throws(r) == [r EXCEPT !.reading = FALSE, !.threw = TRUE]

(* The lines that end in the bytes, then what is left of them.                  *)
consume(r, bytes) ==
  LET lines == linesOf(bytes)
      rest == lineAt(bytes, Len(lines) + 1)
      bad == {k \in DOMAIN lines : parseLine(lines[k]) = "throws"}
      read == IF bad = {} THEN lines ELSE SubSeq(lines, 1, (CHOOSE k \in bad : \A j \in bad : k <= j) - 1)
      kept == [r EXCEPT !.records = @ \o recordsOf(read)] IN
  IF bad # {} THEN throws(kept)
  ELSE IF Len(rest) <= MaxLine THEN [kept EXCEPT !.pending = rest]
  ELSE IF skippable(rest) THEN [kept EXCEPT !.pending = <<>>, !.skipping = TRUE]
  ELSE throws([kept EXCEPT !.pending = rest])

(* Within a line that is passed over: its bytes are looked at for an event.     *)
skip(r, bytes) ==
  LET ends == newlines(bytes)
      passed == IF ends = <<>> THEN bytes ELSE SubSeq(bytes, 1, ends[1] - 1) IN
  IF namesEvent(passed) THEN throws(r)
  ELSE IF ends = <<>> THEN r
  ELSE consume([r EXCEPT !.skipping = FALSE], SubSeq(bytes, ends[1] + 1, Len(bytes)))

ReadChunk ==
  /\ reader.reading
  /\ LET upTo == IF reader.offset + Chunk < reader.target THEN reader.offset + Chunk ELSE reader.target
         bytes == SubSeq(ledger.bytes, reader.offset + 1, upTo)
         r == [reader EXCEPT !.offset = upTo, !.reading = upTo < reader.target] IN
     reader' = IF reader.skipping THEN skip(r, bytes) ELSE consume(r, reader.pending \o bytes)
  /\ UNCHANGED <<ledger, writer>>

ReaderNext ==
  \/ \E kind \in DOMAIN Pieces : Begin(kind)
  \/ WritePiece \/ Tear \/ Replace \/ StartRead \/ ReadChunk

ReaderSpec == ReaderInit /\ [][ReaderNext]_readerVars

--------------------------------------------------------------------------------
(* Properties *)

ReaderTypeOK ==
  /\ reader.offset <= reader.target /\ (~reader.threw => Len(reader.pending) <= MaxLine)
  /\ reader.reading => reader.inode = ledger.inode

(* Until a read throws, what was read is what is in the ledger: the records are *)
(* those of the lines that ended, in their order, whatever chunks they came in; *)
(* and every line that should have made a read throw did.                       *)
LedgerRead ==
  reader.inode = ledger.inode /\ ~reader.reading /\ ~reader.threw =>
    LET lines == linesOf(SubSeq(ledger.bytes, 1, reader.offset)) IN
    /\ reader.records = recordsOf(lines)
    /\ \A k \in DOMAIN lines : parseLine(lines[k]) # "throws"
================================================================================
