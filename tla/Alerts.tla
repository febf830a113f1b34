--------------------------------- MODULE Alerts ---------------------------------
(* The health check of the live watcher, a timer's process each minute: it judges *)
(* what the arm, the revocation and the watcher's state file say, tells the       *)
(* operator when trading becomes impossible and when it is possible again, and    *)
(* remembers in a file of its own what it judged and whether that was delivered.  *)
EXTENDS Naturals

CONSTANTS
  Ages,     \* minutes since the watcher's state was written, or its pause began
  MaxLost   \* bound: messages delivered that the check never learnt of

VARIABLES
  record,   \* state.json: the health last judged, and whether a message was delivered
  told,     \* the last message the operator got
  since,    \* the healths written since that message
  lost

alertVars == <<record, told, since, lost>>

AlertInit ==
  /\ record = [state |-> "none", notification |-> "none"]
  /\ told = "none" /\ since = {} /\ lost = 0

--------------------------------------------------------------------------------
(* evaluateCriticalTradingHealth; the limits are minutes and counts of errors     *)

StaleAfter == 3
PlannedStopGrace == 15
ArmStartGrace == 5
ReconciliationAlert == 3

Adapter == {"global", "earn", "board"}

(* What a check may read.  tired: lanes whose consecutive errors are at their     *)
(* limit; deaf: realtime inputs that are down.                                    *)
Reading ==
  [active : BOOLEAN, written : BOOLEAN, alive : BOOLEAN, age : Ages, pause : Ages,
   status : {"RUNNING", "HALTED", "STOPPED_BY_SIGNAL", "ARMED_NOT_RUNNING", "RECONCILING_UNKNOWN"},
   tired : SUBSET (Adapter \cup {"execution"}), deaf : SUBSET {"earn", "sequencer"}]

inGrace(r) ==
  \/ r.status = "STOPPED_BY_SIGNAL" /\ r.age <= PlannedStopGrace
  \/ r.status = "ARMED_NOT_RUNNING" /\ r.age <= ArmStartGrace

(* Each judgement in the order of its return. *)
evaluateCriticalTradingHealth(r) ==
  IF ~r.active THEN "INACTIVE"
  ELSE IF ~r.written \/ r.status = "HALTED" THEN "CRITICAL"
  ELSE IF ~r.alive THEN IF inGrace(r) THEN "GRACE" ELSE "CRITICAL"
  ELSE IF r.age > StaleAfter THEN "CRITICAL"
  ELSE IF r.status = "RECONCILING_UNKNOWN" THEN IF r.pause < ReconciliationAlert THEN "GRACE" ELSE "CRITICAL"
  ELSE IF "execution" \in r.tired \/ Adapter \subseteq r.tired THEN "CRITICAL"
  ELSE IF r.tired # {} \/ r.deaf = {"earn", "sequencer"} THEN "DEGRADED"
  ELSE "HEALTHY"

Healths == {evaluateCriticalTradingHealth(r) : r \in Reading}

--------------------------------------------------------------------------------
(* The check *)

tradable == {"HEALTHY", "DEGRADED"}

(* Mutant: any health but a critical one is a recovery. *)
recoversEarly(previous, health) ==
  IF health = "CRITICAL" THEN IF previous.state # "CRITICAL" THEN "ALERT" ELSE "NONE"
  ELSE IF previous.state = "CRITICAL" THEN "RECOVERY" ELSE "NONE"

criticalAlertTransition(previous, health) ==
  IF health = "CRITICAL" THEN IF previous.state # "CRITICAL" THEN "ALERT" ELSE "NONE"
  ELSE IF health \in tradable /\ previous.state = "CRITICAL" /\ previous.notification = "DELIVERED"
  THEN "RECOVERY" ELSE "NONE"

(* Nothing to say: only the record is written. *)
CheckQuietly(health) ==
  /\ criticalAlertTransition(record, health) = "NONE"
  /\ record' = [record EXCEPT !.state = health] /\ since' = since \cup {health}
  /\ UNCHANGED <<told, lost>>

(* A message is delivered first.  When it is refused the check throws, and the    *)
(* next one begins anew.                                                          *)
CheckAndTell(health) ==
  LET message == criticalAlertTransition(record, health) IN
  /\ message # "NONE"
  /\ told' = message /\ since' = {}
  /\ record' = [state |-> health, notification |-> "DELIVERED"]
  /\ UNCHANGED lost

(* It is delivered, but the answer is late or unreadable, or the check dies       *)
(* before it writes.                                                              *)
TellUnrecorded(health) ==
  LET message == criticalAlertTransition(record, health) IN
  /\ message # "NONE" /\ lost < MaxLost
  /\ told' = message /\ since' = {} /\ lost' = lost + 1
  /\ UNCHANGED record

AlertNext == \E health \in Healths : CheckQuietly(health) \/ CheckAndTell(health) \/ TellUnrecorded(health)

AlertSpec == AlertInit /\ [][AlertNext]_alertVars

--------------------------------------------------------------------------------
(* Properties *)

AlertTypeOK ==
  /\ record.state \in tradable \cup {"none", "INACTIVE", "GRACE", "CRITICAL"}
  /\ told \in {"none", "ALERT", "RECOVERY"}
  /\ since \subseteq tradable \cup {"INACTIVE", "GRACE", "CRITICAL"} /\ lost \in 0 .. MaxLost

(* Unless a delivery went unrecorded: while the record says critical, the last    *)
(* the operator heard is the alert; and trading is possible again without a word  *)
(* of it only when a grace or an end of the authorization came between.           *)
OperatorTold ==
  lost = 0 => /\ record.state = "CRITICAL" => told = "ALERT"
              /\ told = "ALERT" /\ record.state \in tradable => since \cap {"GRACE", "INACTIVE"} # {}
================================================================================
