--------------------------- MODULE ResidentSearch ---------------------------
(***************************************************************************)
(* One resident search worker (src/resident-global-search.mjs, and          *)
(* resident-earn-search.mjs, which extends it), the callbacks that          *)
(* scripts/dual-base-arb.mjs gives it and the claim that uses its answers.  *)
(*                                                                         *)
(* A wake is a reason to search: a feed match, an Earn event, a periodic    *)
(* recovery.  It travels as part of a signal, and signals are merged; here  *)
(* a signal is the set of its wakes.  A worker process is known by the      *)
(* generation it was started in.                                           *)
(***************************************************************************)
EXTENDS Integers, FiniteSets

CONSTANTS Wake,
          Verdict,      \* the evidence an answer may carry
          MaxReady,     \* how many answers are kept for the scheduler
          MaxExits,     \* bound: how often a worker dies of itself
          MaxSpawnErrors \* bound: how often spawn throws

ASSUME VerdictAssumption == Verdict \subseteq {"positive", "negative", "incomplete"}
ASSUME MaxReadyAssumption == MaxReady \in Nat \ {0}

VARIABLES
    child,          \* generation of the child, 0 for null
    generation, sequence, inFlight, pendingSignal, restartTimer,  \* as in the code
    running,        \* worker processes that run
    closing,        \* those that exited and whose close event is still to come
    answers,        \* answers in their stdout
    ready,          \* readySearchResults
    event,          \* the scheduler's pending event of this lane
    watcher,        \* "running", or how it stopped
    arrived, handed, unproven,  \* history: wakes, see Claim
    thrown,         \* history: wakes whose dispatch threw
    inconclusive,   \* history: wakes that an incomplete answer was about
    killed, atFault, exits, spawnErrors  \* history and bounds

client == <<child, generation, sequence, inFlight, pendingSignal, restartTimer>>
worker == <<running, closing, answers>>
signer == <<ready, event, handed, unproven, inconclusive>>
blame == <<killed, atFault>>
bounds == <<exits, spawnErrors>>
vars == <<client, worker, signer, watcher, arrived, thrown, blame, bounds>>

NoEvent == [wakes |-> {}, legacy |-> FALSE, ids |-> {}]
Evidence == {"positive", "negative", "incomplete"}

TypeOK ==
    /\ child \in Nat /\ generation \in Nat /\ sequence \in Nat
    /\ inFlight \subseteq [id : Nat, wakes : SUBSET Wake] /\ Cardinality(inFlight) <= 1
    /\ pendingSignal \subseteq Wake
    /\ restartTimer \in BOOLEAN
    /\ running \subseteq Nat /\ closing \subseteq Nat
    /\ answers \subseteq [generation : Nat, id : Nat, verdict : Evidence]
    /\ ready \subseteq [id : Nat, verdict : Evidence] /\ Cardinality(ready) <= MaxReady
    /\ event \in [wakes : SUBSET Wake, legacy : BOOLEAN, ids : SUBSET Nat]
    /\ watcher \in {"running", "halted", "crashed"}
    /\ arrived \subseteq Wake /\ handed \subseteq Wake /\ unproven \subseteq Wake
    /\ thrown \subseteq Wake /\ inconclusive \subseteq Wake
    /\ killed \subseteq Nat /\ atFault \subseteq Nat
    /\ exits \in Nat /\ spawnErrors \in Nat

\* The watcher constructs the client and starts it; spawn may throw already.
Init ==
    /\ child \in {0, 1} /\ generation = 1 /\ sequence = 0
    /\ inFlight = {} /\ pendingSignal = {} /\ restartTimer = (child = 0)
    /\ running = {child} \ {0} /\ closing = {} /\ answers = {}
    /\ ready = {} /\ event = NoEvent /\ watcher = "running"
    /\ arrived = {} /\ handed = {} /\ unproven = {} /\ thrown = {} /\ inconclusive = {}
    /\ killed = {} /\ atFault = {} /\ exits = 0 /\ spawnErrors = 1 - child

wakesOf(requests) == UNION {r.wakes : r \in requests}

-----------------------------------------------------------------------------
(* What the callbacks put into the scheduler *)

mergedWith(wakes, legacy, ids) ==
    [wakes |-> event.wakes \cup wakes, legacy |-> event.legacy \/ legacy, ids |-> event.ids \cup ids]

\* enqueueLegacyGlobalFeedWake, enqueueLegacyEarnWake
enqueueLegacy(wakes) ==
    /\ event' = mergedWith(wakes, TRUE, {})
    /\ unproven' = unproven \cup wakes

keepAll(results) == results

oldest(results) == CHOOSE r \in results : \A s \in results : r.id <= s.id

kept(results) == IF Cardinality(results) > MaxReady THEN results \ {oldest(results)} ELSE results

\* onResult: an answer that a newer signal has superseded counts only if it
\* is positive.
onResult(request, verdict) ==
    /\ inconclusive' = IF verdict = "incomplete" THEN inconclusive \cup request.wakes ELSE inconclusive
    /\ IF pendingSignal # {} /\ verdict # "positive"
       THEN /\ handed' = IF verdict = "negative" THEN handed \cup request.wakes ELSE handed
            /\ UNCHANGED <<ready, event, unproven>>
       ELSE /\ ready' = kept(ready \cup {[id |-> request.id, verdict |-> verdict]})
            /\ event' = mergedWith(request.wakes, FALSE, {request.id})
            /\ unproven' = IF verdict = "incomplete" THEN unproven \cup request.wakes ELSE unproven
            /\ UNCHANGED handed

-----------------------------------------------------------------------------
(* The client *)

hasChild == child # 0

writable == child \in running

dispatch(wakes) ==
    /\ inFlight' = {[id |-> sequence + 1, wakes |-> wakes]}
    /\ sequence' = sequence + 1

startedIdle(pending) ==
    /\ generation' = generation + 1
    /\ child' = generation + 1
    /\ running' = running \cup {generation + 1}
    /\ pendingSignal' = pending
    /\ UNCHANGED <<inFlight, sequence, closing, answers>>

\* start() with a signal pending: the new child gets it at once.
started(pending) ==
    /\ generation' = generation + 1
    /\ child' = generation + 1
    /\ running' = running \cup {generation + 1}
    /\ pendingSignal' = {}
    /\ IF pending = {} THEN UNCHANGED <<inFlight, sequence>> ELSE dispatch(pending)
    /\ UNCHANGED <<closing, answers>>

\* spawn throws: start() counts the generation and sets the restart timer.
notStarted ==
    /\ spawnErrors < MaxSpawnErrors
    /\ spawnErrors' = spawnErrors + 1
    /\ generation' = generation + 1
    /\ restartTimer' = TRUE

arrives(w) ==
    /\ watcher = "running"
    /\ w \notin arrived
    /\ arrived' = arrived \cup {w}

\* enqueue: the worker is busy.
Coalesce(w) ==
    /\ arrives(w)
    /\ inFlight # {}
    /\ pendingSignal' = pendingSignal \cup {w}
    /\ UNCHANGED <<child, generation, sequence, inFlight, restartTimer, worker, signer,
                   watcher, thrown, blame, bounds>>

\* enqueue: there is no child, and it can be started.
EnqueueAndStart(w) ==
    /\ arrives(w)
    /\ ~hasChild
    /\ started(pendingSignal \cup {w})
    /\ UNCHANGED <<restartTimer, signer, watcher, thrown, blame, bounds>>

\* enqueue: there is no child and it cannot be started.  The signal stays
\* pending, and enqueue returns false, so the wake takes the legacy path too.
EnqueueNoWorker(w) ==
    /\ arrives(w)
    /\ ~hasChild
    /\ pendingSignal' = pendingSignal \cup {w}
    /\ notStarted
    /\ enqueueLegacy({w})
    /\ UNCHANGED <<child, sequence, inFlight, worker, ready, handed, inconclusive, watcher, thrown,
                   blame, exits>>

EnqueueDispatch(w) ==
    /\ arrives(w)
    /\ hasChild /\ inFlight = {} /\ writable
    /\ dispatch({w})
    /\ UNCHANGED <<child, generation, pendingSignal, restartTimer, worker, signer, watcher,
                   thrown, blame, bounds>>

\* The signal does not pass the sanitizer, or the Earn lane's context cannot be
\* read: the bounded child takes it.
EnqueueRejected(w) ==
    /\ arrives(w)
    /\ enqueueLegacy({w})
    /\ UNCHANGED <<client, worker, ready, handed, inconclusive, watcher, thrown, blame, bounds>>

\* #dispatch throws.  A feed callback's error is counted as a malformed
\* message; the loop's own enqueue (a periodic claim) halts the watcher.
EnqueueThrows(w, how) ==
    /\ arrives(w)
    /\ hasChild /\ inFlight = {} /\ ~writable
    /\ watcher' = how
    /\ thrown' = thrown \cup {w}
    /\ UNCHANGED <<client, worker, signer, blame, bounds>>

\* start() from the restart timer.
Restart ==
    /\ watcher = "running" /\ restartTimer
    /\ \/ /\ hasChild
          /\ restartTimer' = FALSE
          /\ UNCHANGED <<child, generation, sequence, inFlight, pendingSignal, worker, spawnErrors>>
       \/ /\ ~hasChild
          /\ restartTimer' = FALSE
          /\ started(pendingSignal)
          /\ UNCHANGED spawnErrors
       \/ /\ ~hasChild
          /\ notStarted
          /\ UNCHANGED <<child, sequence, inFlight, pendingSignal, worker>>
    /\ UNCHANGED <<signer, watcher, arrived, thrown, blame, exits>>

\* #workerFailed of the child in place, by the fault of process g.  The fence
\* is the new generation: later events of the killed child are ignored.
workerFailed(g) ==
    /\ generation' = generation + 1
    /\ killed' = killed \cup {child}
    /\ atFault' = atFault \cup {g}
    /\ child' = 0
    /\ inFlight' = {}
    /\ restartTimer' = TRUE
    /\ IF inFlight = {} THEN UNCHANGED <<event, unproven>> ELSE enqueueLegacy(wakesOf(inFlight))
    /\ UNCHANGED <<sequence, pendingSignal, ready, handed, inconclusive>>

unfenced(g) == FALSE

fenced(g) == g # generation

\* The request's deadline passes first.
Deadline ==
    /\ watcher = "running" /\ inFlight # {}
    /\ workerFailed(child)
    /\ UNCHANGED <<worker, watcher, arrived, thrown, bounds>>

\* The worker writes a line that is too long, malformed or of another request.
ProtocolFailure ==
    /\ watcher = "running" /\ child \in running /\ exits < MaxExits
    /\ exits' = exits + 1
    /\ workerFailed(child)
    /\ UNCHANGED <<worker, watcher, arrived, thrown, spawnErrors>>

\* #consume of a complete line.
Consume(a) ==
    /\ watcher = "running"
    /\ a \in answers
    /\ answers' = answers \ {a}
    /\ IF fenced(a.generation)
       THEN UNCHANGED <<client, signer, watcher, blame>>
       ELSE \E request \in inFlight :
              IF a.id # request.id
              THEN workerFailed(a.generation) /\ UNCHANGED watcher
              ELSE /\ onResult(request, a.verdict)
                   /\ pendingSignal' = {}
                   /\ \/ /\ pendingSignal = {}
                         /\ inFlight' = {}
                         /\ UNCHANGED <<sequence, watcher>>
                      \/ /\ pendingSignal # {} /\ writable
                         /\ dispatch(pendingSignal)
                         /\ UNCHANGED watcher
                      \/ /\ pendingSignal # {} /\ ~writable
                         /\ inFlight' = {}
                         /\ watcher' = "crashed"   \* thrown in a data listener
                         /\ UNCHANGED sequence
                   /\ UNCHANGED <<child, generation, restartTimer, blame>>
    /\ UNCHANGED <<running, closing, arrived, thrown, bounds>>

-----------------------------------------------------------------------------
(* The worker processes *)

\* A worker reads one request at a time and answers it.
Answer(v) ==
    /\ child \in running
    /\ \E request \in inFlight :
         /\ \A a \in answers : a.generation = child => a.id # request.id
         /\ answers' = answers \cup {[generation |-> child, id |-> request.id, verdict |-> v]}
    /\ UNCHANGED <<client, running, closing, signer, watcher, arrived, thrown, blame, bounds>>

pipeEmpty(g) == \A a \in answers : a.generation # g

Exit(g) ==
    /\ g \in running
    /\ \/ g \in killed /\ UNCHANGED exits
       \/ exits < MaxExits /\ exits' = exits + 1
    /\ running' = running \ {g}
    /\ closing' = closing \cup {g}
    /\ atFault' = atFault \cup {g}
    /\ UNCHANGED <<client, answers, signer, watcher, arrived, thrown, killed, spawnErrors>>

\* The close event comes when the process is gone and its output was read.
Close(g) ==
    /\ watcher = "running"
    /\ g \in closing /\ pipeEmpty(g)
    /\ closing' = closing \ {g}
    /\ IF fenced(g) THEN UNCHANGED <<client, signer, blame>> ELSE workerFailed(g)
    /\ UNCHANGED <<running, answers, watcher, arrived, thrown, bounds>>

-----------------------------------------------------------------------------
(* The scheduler claims the lane's event *)

\* The answers of the event that are still kept.
preparedResults == {r \in ready : r.id \in event.ids}

newest(results) == CHOOSE r \in results : \A s \in results : s.id <= r.id

regardlessOfLegacy ==
    LET positives == {r \in preparedResults : r.verdict = "positive"}
    IN  IF preparedResults = {} THEN {}
        ELSE IF positives # {} THEN {oldest(positives)}
        ELSE {newest(preparedResults)}

\* The positive with the lowest id, else the latest answer, if any.
preparedSearchResult ==
    LET positives == {r \in preparedResults : r.verdict = "positive"}
    IN  IF event.legacy \/ preparedResults = {} THEN {}
        ELSE IF positives # {} THEN {oldest(positives)}
        ELSE {newest(preparedResults)}

\* classifyGlobalSearchHandoff, classifyEarnSearchHandoff; fresh stands for the
\* age limits (60 s a Global positive, 15 s a negative; an Earn positive has none).
needsChild(fresh) ==
    \A r \in preparedSearchResult : ~fresh \/ r.verdict = "incomplete"

\* Without usable evidence the bounded child searches for the whole signal.
\* With it, what complete evidence has decided is decided; unproven are the
\* wakes of the event that no complete evidence is about.
Claim(fresh) ==
    /\ watcher = "running"
    /\ event # NoEvent
    /\ handed' = handed \cup IF needsChild(fresh) THEN event.wakes ELSE event.wakes \ unproven
    /\ unproven' = unproven \ event.wakes
    /\ ready' = {r \in ready : r.id \notin event.ids}
    /\ event' = NoEvent
    /\ UNCHANGED <<client, worker, watcher, arrived, thrown, inconclusive, blame, bounds>>

Next ==
    \/ \E w \in Wake : \/ Coalesce(w) \/ EnqueueAndStart(w) \/ EnqueueNoWorker(w)
                       \/ EnqueueDispatch(w) \/ EnqueueRejected(w)
                       \/ \E how \in {"running", "halted"} : EnqueueThrows(w, how)
    \/ Restart \/ Deadline \/ ProtocolFailure
    \/ \E a \in answers : Consume(a)
    \/ \E v \in Verdict : Answer(v)
    \/ \E g \in running : Exit(g)
    \/ \E g \in closing : Close(g)
    \/ \E fresh \in BOOLEAN : Claim(fresh)

Spec == Init /\ [][Next]_vars

\* Timers fire, events that have happened are delivered, the loop claims.
FairSpec ==
    /\ Spec
    /\ WF_vars(Restart) /\ WF_vars(Deadline)
    /\ WF_vars(\E a \in answers : Consume(a))
    /\ WF_vars(\E g \in closing : Close(g))
    /\ WF_vars(\E fresh \in BOOLEAN : Claim(fresh))

-----------------------------------------------------------------------------
(* ADR 0084 and 0099: whatever the worker does, a wake is being searched,   *)
(* waits for it, or was decided by complete evidence or the bounded child.  *)
(* Two exceptions of the code are excepted here: a wake whose dispatch      *)
(* threw, and one that an incomplete answer was about, which a newer signal *)
(* or a later answer can hide.                                             *)
NothingForgotten ==
    watcher # "crashed" =>
        arrived \ (thrown \cup inconclusive)
            \subseteq wakesOf(inFlight) \cup pendingSignal \cup event.wakes \cup handed

(* The comment in #workerFailed: a killed child's later events must not be  *)
(* taken for its successor's.  No worker is killed that did nothing wrong.  *)
KilledForCause == killed \subseteq atFault

(* ADR 0099, decision 1: one worker.  Whatever is not killed is the child.  *)
OneWorker == Cardinality(running \ killed) <= 1

(* Both: the fence around a killed worker, and that there is one at a time. *)
WorkerFenced == KilledForCause /\ OneWorker

(* ADR 0099, decision 6: a worker that crashes, hangs or talks nonsense     *)
(* degrades its adapter only.  The watcher goes on.                        *)
WatcherSurvives == watcher = "running"

(* ADR 0084: every wake is decided in the end, though workers die and       *)
(* answers expire, as long as the watcher runs; with the same exceptions.   *)
EventuallyHanded ==
    \A w \in Wake : w \in arrived ~> \/ w \in handed \cup thrown \cup inconclusive
                                     \/ watcher # "running"
=============================================================================
