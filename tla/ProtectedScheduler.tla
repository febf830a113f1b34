------------------------- MODULE ProtectedScheduler -------------------------
(***************************************************************************)
(* ProtectedStrategyScheduler (src/protected-strategy-scheduler.mjs) under  *)
(* the loop that drives it (scripts/dual-base-arb.mjs): one serial signer   *)
(* lane, market events that may briefly go before recovery work, and a      *)
(* deadline after which recovery work goes first.                           *)
(*                                                                         *)
(* Time is a number.  The loop asks for work at the end of a turn, and a    *)
(* turn (a child's run, a board pass, a sleep) takes 1..MaxTurn.  While a    *)
(* mutation is unresolved the loop takes turns without asking for work.     *)
(***************************************************************************)
EXTENDS Integers, FiniteSets

CONSTANTS Lane,             \* the strategies (EARN, GLOBAL)
          Order,            \* their position in the constructor's list
          Period,           \* periodMs of each
          MinimumInterval,  \* minimumIntervalMs of each
          FirstPeriodic,    \* firstPeriodicAt of each
          Priority,         \* the priorities events come with
          PriorityFloor,    \* priorityEventFloor
          MaxDeferral,      \* maximumPeriodicDeferralMs
          Value,            \* pools, addresses, result ids of a signal
          MaxValues,        \* MAXIMUM_SIGNAL_VALUES
          MaxTurn,          \* the longest turn of the loop
          MaxAge,           \* how old the source time of a signal may be
          MaxLost, MaxTime  \* bounds of the model

ASSUME LaneAssumption == IsFiniteSet(Lane)
ASSUME OrderAssumption ==
    /\ Order \in [Lane -> Nat]
    /\ \A l, k \in Lane : Order[l] = Order[k] => l = k
ASSUME DurationAssumption ==
    /\ Period \in [Lane -> Nat \ {0}]
    /\ MinimumInterval \in [Lane -> Nat]
    /\ FirstPeriodic \in [Lane -> Nat]
    /\ MaxDeferral \in Nat
    /\ MaxTurn \in Nat \ {0}
ASSUME EventAssumption ==
    /\ Priority \subseteq Nat
    /\ PriorityFloor \in Nat
    /\ MaxAge \in Nat /\ MaxValues \in Nat

VARIABLES now,
          turnEnd,          \* when the loop asks next
          nextPeriodicAt, lastStartedAt, pendingEvent,  \* per lane, as in the code
          recoverBy,        \* history: when each lane's recovery should run next
          passed,           \* history: lanes that recovered while this one was past its deadline
          lost,             \* history: time spent in quarantine while waiting
          owed              \* history: values enqueued and not yet handed out

clock == <<now, turnEnd>>
laneState == <<nextPeriodicAt, lastStartedAt, pendingEvent>>
history == <<recoverBy, passed, lost, owed>>
vars == <<clock, laneState, history>>

Never == -1
NoEvent == [priority |-> -1, enqueuedAt |-> 0, values |-> {}]
Event == [priority : Priority, enqueuedAt : Nat, values : SUBSET Value]

TypeOK ==
    /\ now \in Nat /\ turnEnd \in Nat
    /\ nextPeriodicAt \in [Lane -> Nat]
    /\ lastStartedAt \in [Lane -> Nat \cup {Never}]
    /\ pendingEvent \in [Lane -> Event \cup {NoEvent}]
    /\ \A l \in Lane : Cardinality(pendingEvent[l].values) <= MaxValues
    /\ recoverBy \in [Lane -> Nat]
    /\ passed \in [Lane -> SUBSET Lane]
    /\ lost \in [Lane -> Nat]
    /\ owed \in [Lane -> SUBSET Value]

Init ==
    /\ now = 0 /\ turnEnd = 0
    /\ nextPeriodicAt = FirstPeriodic
    /\ lastStartedAt = [l \in Lane |-> Never]
    /\ pendingEvent = [l \in Lane |-> NoEvent]
    /\ recoverBy = FirstPeriodic
    /\ passed = [l \in Lane |-> {}]
    /\ lost = [l \in Lane |-> 0]
    /\ owed = [l \in Lane |-> {}]

-----------------------------------------------------------------------------
(* mergePendingMarketSignals and enqueueEvent *)

eventsAlwaysFirst(event, periodic) == pendingEvent[event].priority >= PriorityFloor

byOrder(l, k) == Order[l] <= Order[k]

latestSignal(left, right) == right

fitsOneMore(values) == Cardinality(values) <= MaxValues + 1

larger(a, b) == IF a >= b THEN a ELSE b
smaller(a, b) == IF a <= b THEN a ELSE b

\* The union of what two signals depend on; the code throws above its bound.
mergePendingMarketSignals(left, right) == left \cup right

withinBound(values) == Cardinality(values) <= MaxValues

merged(pending, event) ==
    IF pending = NoEvent THEN event
    ELSE [priority |-> larger(pending.priority, event.priority),
          enqueuedAt |-> smaller(pending.enqueuedAt, event.enqueuedAt),
          values |-> mergePendingMarketSignals(pending.values, event.values)]

\* Callbacks enqueue at any moment.  A signal that does not fit throws and
\* leaves the pending event as it was.
enqueueEvent(l, event) ==
    /\ withinBound(merged(pendingEvent[l], event).values)
    /\ pendingEvent' = [pendingEvent EXCEPT ![l] = merged(@, event)]
    /\ owed' = [owed EXCEPT ![l] = @ \cup event.values]
    /\ UNCHANGED <<clock, nextPeriodicAt, lastStartedAt, recoverBy, passed, lost>>

-----------------------------------------------------------------------------
(* claimNext *)

asking == now = turnEnd

due(l) == now >= nextPeriodicAt[l]

dueBefore(l, k) ==
    \/ nextPeriodicAt[l] < nextPeriodicAt[k]
    \/ nextPeriodicAt[l] = nextPeriodicAt[k] /\ Order[l] <= Order[k]

periodicLane(l) == due(l) /\ \A k \in Lane : due(k) => dueBefore(l, k)

eligible(l) ==
    /\ pendingEvent[l] # NoEvent
    /\ \/ lastStartedAt[l] = Never
       \/ now - lastStartedAt[l] >= MinimumInterval[l]

eventBefore(l, k) ==
    LET e == pendingEvent[l]
        f == pendingEvent[k]
    IN  \/ e.priority > f.priority
        \/ e.priority = f.priority /\ e.enqueuedAt < f.enqueuedAt
        \/ e.priority = f.priority /\ e.enqueuedAt = f.enqueuedAt /\ Order[l] <= Order[k]

eventLane(l) == eligible(l) /\ \A k \in Lane : eligible(k) => eventBefore(l, k)

lateness(l) == now - nextPeriodicAt[l]

\* priorityEventMayPrecedePeriodic
mayPrecede(event, periodic) ==
    /\ pendingEvent[event].priority >= PriorityFloor
    /\ lateness(periodic) < MaxDeferral

\* The turn that a claim starts takes 1..MaxTurn.
startTurn(d) == turnEnd' = now + d /\ UNCHANGED now

pastDeadline(l) == lateness(l) >= MaxDeferral

ClaimPeriodic(l, d) ==
    /\ asking
    /\ periodicLane(l)
    /\ \A e \in Lane : eventLane(e) => ~mayPrecede(e, l)
    /\ lastStartedAt' = [lastStartedAt EXCEPT ![l] = now]
    /\ nextPeriodicAt' = [nextPeriodicAt EXCEPT ![l] = now + Period[l]]
    /\ recoverBy' = [recoverBy EXCEPT ![l] = now + Period[l]]
    /\ passed' = [k \in Lane |-> IF k = l THEN {}
                                 ELSE IF pastDeadline(k) THEN passed[k] \cup {l} ELSE passed[k]]
    /\ lost' = [lost EXCEPT ![l] = 0]
    /\ startTurn(d)
    /\ UNCHANGED <<pendingEvent, owed>>

\* The oldest due lane is the latest one: to precede it is to precede them all.
ClaimEvent(l, d) ==
    /\ asking
    /\ eventLane(l)
    /\ \A p \in Lane : due(p) => mayPrecede(l, p)
    /\ lastStartedAt' = [lastStartedAt EXCEPT ![l] = now]
    /\ owed' = [owed EXCEPT ![l] = @ \ pendingEvent[l].values]
    /\ pendingEvent' = [pendingEvent EXCEPT ![l] = NoEvent]
    /\ startTurn(d)
    /\ UNCHANGED <<nextPeriodicAt, recoverBy, passed, lost>>

\* null: the loop looks at the board instead.
ClaimNothing(d) ==
    /\ asking
    /\ \A l \in Lane : ~due(l) /\ ~eligible(l)
    /\ startTurn(d)
    /\ UNCHANGED <<laneState, history>>

\* A mutation is unresolved: the loop takes its turn without asking.
Quarantine(d) ==
    /\ asking
    /\ \A l \in Lane : lost[l] + d <= MaxLost
    /\ startTurn(d)
    /\ lost' = [l \in Lane |-> lost[l] + d]
    /\ UNCHANGED <<laneState, recoverBy, passed, owed>>

Tick ==
    /\ now < turnEnd /\ now < MaxTime
    /\ now' = now + 1
    /\ UNCHANGED <<turnEnd, laneState, history>>

Enqueue ==
    \E l \in Lane, p \in Priority, age \in 0..MaxAge, vs \in SUBSET Value :
        /\ age <= now
        /\ enqueueEvent(l, [priority |-> p, enqueuedAt |-> now - age, values |-> vs])

Next ==
    \/ Tick
    \/ Enqueue
    \/ \E d \in 1..MaxTurn :
          \/ \E l \in Lane : ClaimPeriodic(l, d) \/ ClaimEvent(l, d)
          \/ ClaimNothing(d)
          \/ Quarantine(d)

Spec == Init /\ [][Next]_vars

-----------------------------------------------------------------------------
(* ADR 0076 and 0098: recovery work is never put off indefinitely.  However *)
(* busy the market, a lane's recovery runs at the latest when it is due,    *)
(* plus the deferral, plus one turn for each lane, plus the time the loop   *)
(* was in quarantine.  Measured on recoverBy, which only a recovery moves. *)
RecoveryBound ==
    \A l \in Lane :
        now <= recoverBy[l] + MaxDeferral + MaxTurn * Cardinality(Lane) + lost[l]

(* ADR 0076, decision 3: when a lane is past its hard deadline, nothing but *)
(* recovery runs before it, and of each other lane at most one.            *)
PassedOnce ==
    [][\A l \in Lane :
          (asking /\ pastDeadline(l) /\ lastStartedAt' # lastStartedAt) =>
              \E k \in Lane : /\ nextPeriodicAt'[k] # nextPeriodicAt[k]
                              /\ k = l \/ k \notin passed[l]]_vars

(* ADR 0075, decision 6: coalescing saves starts and never dependencies.    *)
(* What a lane was woken for and has not been given is in its pending event. *)
KeepsDependencies == \A l \in Lane : owed[l] = pendingEvent[l].values
=============================================================================
