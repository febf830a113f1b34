------------------------------- MODULE EarnShot -------------------------------
(* One Earn shot after the other: market signals merge while a child runs, a    *)
(* wake is appended and starts the next child, which quotes, signs, sends and   *)
(* records in its own audit and then in the shared one; what died is            *)
(* reconciled.  Two things are folded from the audits: the lifetime gas surplus *)
(* that every attempt must leave positive, and the quarantine of the routes     *)
(* that reverted.                                                               *)
EXTENDS Integers, Sequences, FiniteSets, FiniteSetsExt

CONSTANTS
  Pool, Route,
  RoutePools,   \* the pools of each route
  InitialNet,   \* what the Earn lane had earned before the first authorization
  GasCosts,     \* maximum gas costs the fee market may ask for
  Ceiling,      \* perAttemptGasCeilingWei
  MaxSwaps,     \* bound: swaps by others
  MaxShots,     \* bound: signed transactions
  MaxArms,      \* bound: authorizations
  MaxDeaths     \* bound: children that die or are killed

VARIABLES
  height,      \* blocks on the chain
  now,         \* the host's clock
  flight,      \* signals of swaps under way to the watcher
  waiting,     \* signals merged into the pending Earn event
  arm,         \* the authorization: its number, its initial surplus, whether it is live
  child,       \* the running child; pc "idle" when there is none
  shots,       \* every signed transaction, in order, with what each audit says of it
  quarantine,  \* fold of the shared audit: the last revert of a route, whether it is held, what released it
  swaps, deaths

shotVars == <<height, now, flight, waiting, arm, child, shots, quarantine, swaps, deaths>>

NoShotChild == [pc |-> "idle", auth |-> 0, excluded |-> {}, route |-> {}, cap |-> 0]
NeverReverted == [held |-> FALSE, block |-> 0, at |-> 0, wake |-> {}]
Shots == DOMAIN shots

SumOf(S, net(_)) == MapThenSumSet(net, S)

ShotInit ==
  /\ height = 1 /\ now = 0 /\ swaps = 0 /\ deaths = 0
  /\ flight = {} /\ waiting = {}
  /\ arm = [id |-> 1, initial |-> InitialNet, live |-> TRUE]
  /\ child = NoShotChild /\ shots = << >>
  /\ quarantine = [r \in Route |-> NeverReverted]

--------------------------------------------------------------------------------
(* Signals: the subscription's log carries its block, the feed's frame none *)

Swap(p) ==
  /\ swaps < MaxSwaps /\ Len(shots) < MaxShots /\ swaps' = swaps + 1
  /\ height' = height + 1
  /\ \E block \in {0, height'} : flight' = flight \union {[pools |-> {p}, block |-> block]}
  /\ UNCHANGED <<now, waiting, arm, child, shots, quarantine, deaths>>

(* A signal arrives, late or never, and is merged into the pending event. *)
Observe(s) ==
  /\ s \in flight /\ Len(shots) < MaxShots /\ flight' = flight \ {s}
  /\ now' = now + 1
  /\ waiting' = waiting \union {[pools |-> s.pools, block |-> s.block, at |-> now']}
  /\ UNCHANGED <<height, arm, child, shots, quarantine, swaps, deaths>>

(* The merged event: every pool, the earliest time, and the block of the last   *)
(* signal that has one.                                                         *)
eventPools(w) == UNION {s.pools : s \in w}
sourceReceivedAt(w) == Min({s.at : s \in w})
eventBlockNumber(w) ==
  LET carrying == {s \in w : s.block # 0}
  IN IF carrying = {} THEN 0 ELSE (CHOOSE s \in carrying : \A t \in carrying : t.at <= s.at).block

--------------------------------------------------------------------------------
(* The folds *)

releases(w, entry) ==
  IF eventBlockNumber(w) # 0 THEN eventBlockNumber(w) > entry.block
  ELSE sourceReceivedAt(w) > entry.at

(* earnOnHoodRouteQuarantine goes on over an appended earn_watch_wake. *)
afterWake(w) ==
  [r \in Route |->
     IF quarantine[r].held /\ RoutePools[r] \intersect eventPools(w) # {} /\ releases(w, quarantine[r])
     THEN [quarantine[r] EXCEPT !.held = FALSE, !.wake = w]
     ELSE quarantine[r]]

(* The same over an appended outcome of shot i. *)
afterOutcome(i) ==
  [quarantine EXCEPT ![shots[i].route] =
     IF shots[i].net < 0
     THEN [held |-> TRUE, block |-> shots[i].block, at |-> shots[i].at, wake |-> {}]
     ELSE NeverReverted]

(* Mutant: every record of an effect counts, also the second one of a transaction. *)
everyRecord == InitialNet + SumOf(Shots, LAMBDA i : shots[i].local * shots[i].net)

(* earnOnHoodGasSolvency of the Earn audit, by hash. *)
historicalSurplus ==
  InitialNet + SumOf({i \in Shots : shots[i].local > 0}, LAMBDA i : shots[i].net)

(* earnGasSurplusWei of the authorization, of the shared audit. *)
earnGasSurplus ==
  arm.initial + SumOf({i \in Shots : shots[i].shared /\ shots[i].auth = arm.id}, LAMBDA i : shots[i].net)

preservesLongTermProfit(cap) == cap > 0 /\ earnGasSurplus - cap > 0

(* What prepareOnClient may risk: with nothing left the principal is not sized. *)
gasRiskAllowance == Min({Ceiling, earnGasSurplus - 1})

authorized == arm.live /\ arm.id = child.auth /\ earnGasSurplus > 0

(* latestUnresolvedMutation of the shared audit. *)
unresolved == {i \in Shots : shots[i].journaled /\ ~shots[i].shared}

--------------------------------------------------------------------------------
(* The watcher *)

(* executeEarnWatcherWake: the wake is appended, with the merged event or, when *)
(* it is periodic, none; a read-only result of the resident search may be used  *)
(* instead of a child, and none starts while an orphan holds the wallet lock.   *)
Wake ==
  /\ arm.live /\ unresolved = {} /\ earnGasSurplus > 0
  /\ quarantine' = IF waiting = {} THEN quarantine ELSE afterWake(waiting)
  /\ waiting' = {}
  /\ \/ waiting # {} /\ UNCHANGED child
     \/ /\ child.pc = "idle" /\ Len(shots) < MaxShots
        /\ child' = [NoShotChild EXCEPT !.pc = "start", !.auth = arm.id]
  /\ UNCHANGED <<height, now, flight, arm, shots, swaps, deaths>>

(* disarmDualWatcher *)
Disarm ==
  /\ arm.live /\ arm' = [arm EXCEPT !.live = FALSE]
  /\ UNCHANGED <<height, now, flight, waiting, child, shots, quarantine, swaps, deaths>>

(* armDualWatcher, with the wallet lock: the new authorization begins with the  *)
(* surplus of the whole history.                                                *)
Arm ==
  /\ ~arm.live /\ arm.id < MaxArms /\ child.pc = "idle"
  /\ unresolved = {} /\ historicalSurplus > 0
  /\ arm' = [id |-> arm.id + 1, initial |-> historicalSurplus, live |-> TRUE]
  /\ UNCHANGED <<height, now, flight, waiting, child, shots, quarantine, swaps, deaths>>

--------------------------------------------------------------------------------
(* The child *)

goes(pc) == child' = [child EXCEPT !.pc = pc]
stops == child' = NoShotChild
chainUnchanged == UNCHANGED <<height, flight, swaps>>

(* preflight reads which routes are quarantined; the candidate is the resident  *)
(* search's hint, whatever that knew, or the public screen's.                   *)
Screen(r) ==
  /\ child.pc = "start" /\ authorized /\ gasRiskAllowance > 0
  /\ child' = [child EXCEPT !.pc = "exact", !.route = {r},
                            !.excluded = {q \in Route : quarantine[q].held}]
  /\ chainUnchanged /\ UNCHANGED <<now, waiting, arm, shots, quarantine, deaths>>

eligible == child.route \intersect child.excluded = {}

(* The exact quotes, with the surplus read again: a cap the market asks for is  *)
(* within the ceiling and the surplus.                                          *)
Exact(cap) ==
  /\ child.pc = "exact" /\ authorized /\ gasRiskAllowance > 0 /\ eligible
  /\ cap <= Ceiling /\ preservesLongTermProfit(cap)
  /\ child' = [child EXCEPT !.pc = "ready", !.cap = cap]
  /\ chainUnchanged /\ UNCHANGED <<now, waiting, arm, shots, quarantine, deaths>>

(* execute asserts the authorization and the surplus again, signs, and appends  *)
(* to its own audit.                                                            *)
Sign ==
  /\ child.pc = "ready" /\ authorized /\ preservesLongTermProfit(child.cap)
  /\ shots' = Append(shots, [route |-> CHOOSE r \in child.route : TRUE, cap |-> child.cap, auth |-> child.auth,
                              journaled |-> FALSE, chain |-> "held", net |-> 0, block |-> 0,
                              local |-> 0, at |-> 0, shared |-> FALSE])
  /\ goes("signed")
  /\ chainUnchanged /\ UNCHANGED <<now, waiting, arm, quarantine, deaths>>

last == Len(shots)

JournalShared ==
  /\ child.pc = "signed"
  /\ shots' = [shots EXCEPT ![last].journaled = TRUE]
  /\ goes("journaled")
  /\ chainUnchanged /\ UNCHANGED <<now, waiting, arm, quarantine, deaths>>

(* Asserted once more, with this attempt the only unresolved one, it is sent;   *)
(* the sender's answer, or its failure, changes nothing.                        *)
Send ==
  /\ child.pc = "journaled" /\ authorized /\ preservesLongTermProfit(child.cap) /\ unresolved = {last}
  /\ \/ shots' = [shots EXCEPT ![last].chain = "sent"]
     \/ UNCHANGED shots
  /\ goes("sent")
  /\ chainUnchanged /\ UNCHANGED <<now, waiting, arm, quarantine, deaths>>

(* The receipt: the outcome goes to the Earn audit, then to the shared one. The *)
(* reconciler does the same for a child that stopped before.                    *)
RecordLocal ==
  /\ child.pc \in {"sent", "reconcile"} /\ shots[last].chain = "mined"
  /\ now' = now + 1
  /\ shots' = [shots EXCEPT ![last].local = @ + 1, ![last].at = now']
  /\ goes("recorded")
  /\ chainUnchanged /\ UNCHANGED <<waiting, arm, quarantine, deaths>>

RecordShared ==
  /\ child.pc = "recorded"
  /\ shots' = [shots EXCEPT ![last].shared = TRUE]
  /\ quarantine' = afterOutcome(last)
  /\ stops
  /\ chainUnchanged /\ UNCHANGED <<now, waiting, arm, deaths>>

Reconcile ==
  /\ child.pc = "idle" /\ arm.live /\ earnGasSurplus > 0 /\ unresolved # {}
  /\ child' = [NoShotChild EXCEPT !.pc = "reconcile", !.auth = arm.id]
  /\ chainUnchanged /\ UNCHANGED <<now, waiting, arm, shots, quarantine, deaths>>

(* NO_SHOT, an assertion that fails, a receipt that is UNKNOWN or not final,    *)
(* or its end at the deadline.                                                  *)
GiveUp ==
  /\ child.pc \notin {"idle", "signed", "recorded"}
  /\ stops
  /\ chainUnchanged /\ UNCHANGED <<now, waiting, arm, shots, quarantine, deaths>>

(* It dies between its two audits. *)
Die ==
  /\ child.pc \in {"signed", "recorded"} /\ deaths < MaxDeaths /\ deaths' = deaths + 1
  /\ stops
  /\ chainUnchanged /\ UNCHANGED <<now, waiting, arm, shots, quarantine>>

(* The chain includes it: a success earns, and swaps the route's pools; a       *)
(* revert costs gas, up to the cap.                                             *)
Mine(i) ==
  /\ shots[i].chain = "sent" /\ height' = height + 1
  /\ \/ /\ shots' = [shots EXCEPT ![i].chain = "mined", ![i].block = height', ![i].net = 1]
        /\ flight' = flight \union {[pools |-> RoutePools[shots[i].route], block |-> height']}
     \/ \E gas \in {1, shots[i].cap} :
          shots' = [shots EXCEPT ![i].chain = "mined", ![i].block = height', ![i].net = -gas]
        /\ UNCHANGED flight
  /\ UNCHANGED <<now, waiting, arm, child, quarantine, swaps, deaths>>

ShotNext ==
  \/ \E p \in Pool : Swap(p)
  \/ \E s \in flight : Observe(s)
  \/ Wake \/ Disarm \/ Arm
  \/ \E r \in Route : Screen(r)
  \/ \E cap \in GasCosts : Exact(cap)
  \/ Sign \/ JournalShared \/ Send \/ RecordLocal \/ RecordShared
  \/ Reconcile \/ GiveUp \/ Die
  \/ \E i \in Shots : Mine(i)

--------------------------------------------------------------------------------
(* Properties *)

(* The lane has earned before it is first armed, as armDualWatcher asks; gas    *)
(* costs are amounts, and a route knows its pools.                              *)
ShotAssumption ==
  InitialNet \in Nat \ {0} /\ GasCosts \subseteq Nat /\ RoutePools \in [Route -> SUBSET Pool]

ShotTypeOK ==
  /\ waiting \subseteq [pools : SUBSET Pool, block : 0..height, at : 1..now]
  /\ child.pc \in {"idle", "start", "exact", "ready", "signed", "journaled", "sent", "recorded", "reconcile"}
  /\ \A i \in Shots :
       /\ shots[i].shared => shots[i].journaled /\ shots[i].local > 0
       /\ shots[i].chain # "held" => shots[i].journaled
  /\ Cardinality(unresolved) <= 1

(* The Earn lane stays strictly net-positive over its life, whatever becomes of *)
(* what was sent (preservesEarnOnHoodLongTermProfit): across children that die  *)
(* between their two audits, reconcilers, and authorizations that begin anew.   *)
EverySolvent ==
  InitialNet + SumOf(Shots, LAMBDA i :
    CASE shots[i].chain = "mined" -> shots[i].net
      [] shots[i].chain = "sent" -> -shots[i].cap
      [] OTHER -> 0) > 0

(* A route that reverted is shot again only after a wake that named one of its  *)
(* pools and in which something was new: a swap in a later block, or one heard  *)
(* of after the revert was recorded.                                            *)
chosen == IF child.pc \in {"ready", "signed", "journaled"} THEN child.route ELSE {}

RevertedWaits ==
  \A r \in chosen : quarantine[r].block # 0 =>
    /\ RoutePools[r] \intersect eventPools(quarantine[r].wake) # {}
    /\ \E s \in quarantine[r].wake : s.block > quarantine[r].block \/ s.at > quarantine[r].at

(* The same, told of the pools of the route: the frame that was there before a  *)
(* revert does not release its route (comment of earnOnHoodRouteQuarantine).    *)
ReleasedByOwnPool ==
  \A r \in chosen : quarantine[r].block # 0 =>
    \E s \in quarantine[r].wake :
      s.pools \intersect RoutePools[r] # {} /\ (s.block > quarantine[r].block \/ s.at > quarantine[r].at)
================================================================================
