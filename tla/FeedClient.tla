------------------------------ MODULE FeedClient ------------------------------
(* The client of the sequencer feed: one socket at a time, whose events may     *)
(* come in any order and after the next socket is up; frames that overlap, skip *)
(* or cannot be read.  A message is a hint to search: none is a hint twice, and *)
(* what is missing before a frame is reported.  What is missing inside one is   *)
(* not.  Nobody starts a client again that was stopped.                         *)
EXTENDS Naturals, FiniteSets, Sequences

CONSTANTS
  Requested,   \* the first sequence number asked for
  MaxNumber,   \* bound: sequence numbers
  MaxSockets,  \* bound: sockets
  MaxBad       \* bound: frames that cannot be read

VARIABLES
  last,      \* the highest number consumed; 0: none yet
  sockets,   \* per socket: "connecting", "open", "over" or "ended"; over: its reconnect was asked for
  timer,     \* a reconnect is scheduled
  stopped,
  heard,     \* how often a number was handed to the filter
  reported,  \* the numbers a gap was reported for
  holes,     \* the numbers missing inside a frame that were passed over with no report
  from,      \* the first number consumed
  bad        \* frames that could not be read, for the bound

feedVars == <<last, sockets, timer, stopped, heard, reported, holes, from, bad>>

Number == 1 .. MaxNumber

FeedInit ==
  /\ last = 0 /\ from = 0 /\ sockets = <<>> /\ timer = FALSE /\ stopped = TRUE
  /\ heard = [n \in Number |-> 0] /\ reported = {} /\ holes = {} /\ bad = 0

quiet == UNCHANGED <<last, heard, reported, holes, from, bad>>

(* A constructor that throws asks for a reconnect of its own.                   *)
connect(works) ==
  /\ Len(sockets) < MaxSockets
  /\ IF works THEN sockets' = Append(sockets, "connecting") /\ timer' = FALSE
     ELSE sockets' = Append(sockets, "ended") /\ timer' = TRUE

Start(works) == stopped /\ sockets = <<>> /\ stopped' = FALSE /\ connect(works) /\ quiet

(* What is scheduled while another is scheduled, or after a stop, is nothing.   *)
(* A socket asks once.                                                          *)
scheduled == timer \/ ~stopped
reconnect(s) ==
  IF sockets[s] \in {"over", "ended"} THEN UNCHANGED <<sockets, timer>>
  ELSE sockets' = [sockets EXCEPT ![s] = IF sockets[s] = "open" THEN "over" ELSE "ended"] /\ timer' = scheduled

TimerFires(works) == timer /\ ~stopped /\ connect(works) /\ UNCHANGED stopped /\ quiet

Open(s) ==
  /\ sockets[s] = "connecting"
  /\ sockets' = [sockets EXCEPT ![s] = "open"] /\ UNCHANGED <<timer, stopped>> /\ quiet

(* An error, a close, or a refusal of the handshake; an error and a refusal are *)
(* followed by a close.                                                         *)
Ends(s) == sockets[s] # "ended" /\ reconnect(s) /\ UNCHANGED stopped /\ quiet

(* What a frame, a set of numbers in any order, holds beyond those consumed;    *)
(* what it skips below all of that, which is a gap; and what it lacks between.  *)
fresh(frame) == {n \in frame : n > last}
skipped(frame) ==
  {n \in Number : last # 0 /\ last < n /\ fresh(frame) # {} /\ \A m \in fresh(frame) : n < m}
lacked(frame) ==
  {n \in Number \ frame : (\E m \in fresh(frame) : m < n) /\ \E m \in fresh(frame) : n < m}

(* The handler looks at no flag of its socket: a frame that was on its way is   *)
(* consumed after the socket's end, and after a stop.                           *)
Message(s, frame) ==
  /\ sockets[s] \in {"open", "over"}
  /\ heard' = [n \in Number |-> IF n \in fresh(frame) THEN heard[n] + 1 ELSE heard[n]]
  /\ reported' = reported \cup skipped(frame)
  /\ holes' = holes \cup lacked(frame)
  /\ \E least, highest \in frame :
       /\ \A n \in frame : least <= n /\ n <= highest
       /\ last' = IF highest > last THEN highest ELSE last
       /\ from' = IF last = 0 THEN least ELSE from
  /\ UNCHANGED <<sockets, timer, stopped, bad>>

(* A frame past its bound ends the socket, one that is no envelope does not.    *)
Oversized(s) ==
  /\ sockets[s] \in {"open", "over"} /\ bad < MaxBad /\ bad' = bad + 1
  /\ reconnect(s) /\ UNCHANGED <<last, stopped, heard, reported, holes, from>>

Stop ==
  /\ ~stopped /\ stopped' = TRUE /\ timer' = FALSE
  /\ UNCHANGED sockets /\ quiet

FeedNext ==
  \/ \E works \in BOOLEAN : Start(works) \/ TimerFires(works)
  \/ \E s \in DOMAIN sockets :
       \/ Open(s) \/ Ends(s) \/ Oversized(s)
       \/ \E frame \in SUBSET (Requested .. MaxNumber) : Message(s, frame)
  \/ Stop

FeedSpec == FeedInit /\ [][FeedNext]_feedVars

--------------------------------------------------------------------------------
(* Properties *)

FeedTypeOK ==
  /\ last \in 0 .. MaxNumber /\ heard \in [Number -> 0 .. 2] /\ reported \subseteq Number
  /\ \A s \in DOMAIN sockets : sockets[s] \in {"connecting", "open", "over", "ended"}

(* From the first number consumed to the last, each was handed to the filter    *)
(* once or lies in a gap that was reported, whatever socket its frame came by;  *)
(* except a number that was missing inside a frame (holes), which is not        *)
(* reported, and is dropped as a duplicate when it comes later.                 *)
HeardOnce ==
  \A n \in Number :
    heard[n] + (IF n \in reported THEN 1 ELSE 0) + (IF n \in holes THEN 1 ELSE 0)
      = IF from <= n /\ n <= last THEN 1 ELSE 0

(* Until a stop one socket lives or one reconnect is scheduled, never both and  *)
(* never two, whichever of its ends a socket reports first.                     *)
OneConnection ==
  sockets # <<>> /\ ~stopped =>
    Cardinality({s \in DOMAIN sockets : sockets[s] \in {"connecting", "open"}}) + (IF timer THEN 1 ELSE 0) = 1
================================================================================
