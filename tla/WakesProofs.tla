------------------------------ MODULE WakesProofs ------------------------------
(* What runs beside the signing, for any set of wakes and processes, any window *)
(* and cache, and any limits: the resident search, the Earn event sources, and *)
(* the lock files, each on its own and as parts of Wakes.                      *)
EXTENDS Wakes, FiniteSetTheorems, WellFoundedInduction, TLAPS

--------------------------------------------------------------------------------
(* The resident search.  A killed worker's events never fall on its successor,  *)
(* there is one worker, and no wake is forgotten but for the two exceptions the *)
(* property names.                                                             *)

-----------------------------------------------------------------------------
(* The fence.  What bears the current generation is the child's. *)

OfChild(g) == g \in 1..generation /\ (g = generation => child = generation)

FenceInv ==
    /\ generation \in Nat \ {0}
    /\ child = 0 \/ child = generation
    /\ \A g \in running \cup closing : OfChild(g)
    /\ \A a \in answers : OfChild(a.generation)
    /\ running \ killed \subseteq {child}
    /\ \A k \in killed : k \in Nat /\ k < generation
    /\ KilledForCause

(* The initial states satisfy it. *)
LEMMA FenceInit == Init => FenceInv
  BY DEF Init, FenceInv, OfChild, KilledForCause

(* A failure of the child by its own fault keeps it: what was the child's is   *)
(* of an older generation from then on.                                        *)
LEMMA FenceFailed ==
  ASSUME FenceInv, workerFailed(child),
         running' \cup closing' \subseteq running \cup closing, running' \subseteq running,
         answers' \subseteq answers
  PROVE  FenceInv'
<1>1. generation' = generation + 1 /\ generation' \in Nat \ {0} /\ child' = 0
  BY DEF workerFailed, FenceInv
<1>2. \A h \in running' \cup closing' : OfChild(h)'
  <2> SUFFICES ASSUME NEW h \in running' \cup closing' PROVE OfChild(h)'
    OBVIOUS
  <2>1. h \in 1..generation
    BY DEF FenceInv, OfChild
  <2> QED
    BY <1>1, <2>1 DEF OfChild, FenceInv
<1>3. \A a \in answers' : OfChild(a.generation)'
  <2> SUFFICES ASSUME NEW a \in answers' PROVE OfChild(a.generation)'
    OBVIOUS
  <2>1. a.generation \in 1..generation
    BY DEF FenceInv, OfChild
  <2> QED
    BY <1>1, <2>1 DEF OfChild, FenceInv
<1>4. killed' = killed \cup {child} /\ atFault' = atFault \cup {child}
  BY DEF workerFailed
<1>5. running' \ killed' \subseteq {child'}
  BY <1>4 DEF FenceInv
<1>6. \A k \in killed' : k \in Nat /\ k < generation'
  <2>1. child \in Nat /\ child <= generation
    BY DEF FenceInv
  <2> QED
    BY <1>1, <1>4, <2>1 DEF FenceInv
<1>7. KilledForCause'
  BY <1>4 DEF KilledForCause, FenceInv
<1> QED
  BY <1>1, <1>2, <1>3, <1>5, <1>6, <1>7 DEF FenceInv

(* Starting a child keeps it: nothing bears the new generation yet. *)
LEMMA FenceStarted ==
  ASSUME FenceInv, NEW pending, started(pending), child = 0, blame' = blame
  PROVE  FenceInv'
<1>1. /\ generation' = generation + 1 /\ generation' \in Nat \ {0} /\ child' = generation'
      /\ running' = running \cup {generation'} /\ closing' = closing /\ answers' = answers
  BY DEF started, FenceInv
<1>2. \A h \in running' \cup closing' : OfChild(h)'
  <2> SUFFICES ASSUME NEW h \in running' \cup closing' PROVE OfChild(h)'
    OBVIOUS
  <2>1. h = generation' \/ h \in 1..generation
    BY <1>1 DEF FenceInv, OfChild
  <2> QED
    BY <1>1, <2>1 DEF OfChild, FenceInv
<1>3. \A a \in answers' : OfChild(a.generation)'
  <2> SUFFICES ASSUME NEW a \in answers' PROVE OfChild(a.generation)'
    OBVIOUS
  <2>1. a.generation \in 1..generation
    BY <1>1 DEF FenceInv, OfChild
  <2> QED
    BY <1>1, <2>1 DEF OfChild, FenceInv
<1>4. running' \ killed' \subseteq {child'}
  <2>1. 0 \notin running
    BY DEF FenceInv, OfChild
  <2> QED
    BY <1>1, <2>1 DEF FenceInv, blame
<1>5. (\A k \in killed' : k \in Nat /\ k < generation') /\ KilledForCause'
  BY <1>1 DEF FenceInv, blame, KilledForCause
<1> QED
  BY <1>1, <1>2, <1>3, <1>4, <1>5 DEF FenceInv

(* A spawn that throws keeps it: the child is still null. *)
LEMMA FenceNotStarted ==
  ASSUME FenceInv, notStarted, child = 0, child' = child, worker' = worker, blame' = blame
  PROVE  FenceInv'
<1>1. generation' = generation + 1 /\ generation' \in Nat \ {0}
  BY DEF notStarted, FenceInv
<1>2. \A h \in 1..generation : OfChild(h)'
  BY <1>1 DEF FenceInv, OfChild
<1> QED
  BY <1>1, <1>2 DEF FenceInv, OfChild, worker, blame, KilledForCause

(* A step that leaves child, generation, processes and blame alone keeps it. *)
LEMMA FenceSame ==
  ASSUME FenceInv, child' = child, generation' = generation, worker' = worker, blame' = blame
  PROVE  FenceInv'
  BY DEF FenceInv, OfChild, worker, blame, KilledForCause

(* Every step keeps it. *)
LEMMA FenceStep == FenceInv /\ [Next]_vars => FenceInv'
<1> SUFFICES ASSUME FenceInv, [Next]_vars PROVE FenceInv'
  OBVIOUS
<1>1. ASSUME NEW w \in Wake, Coalesce(w) \/ EnqueueDispatch(w) \/ EnqueueRejected(w)
      PROVE FenceInv'
  BY <1>1, FenceSame DEF Coalesce, EnqueueDispatch, EnqueueRejected, client
<1>2. ASSUME NEW w \in Wake, EnqueueAndStart(w) PROVE FenceInv'
  BY <1>2, FenceStarted DEF EnqueueAndStart, hasChild
<1>3. ASSUME NEW w \in Wake, EnqueueNoWorker(w) PROVE FenceInv'
  BY <1>3, FenceNotStarted DEF EnqueueNoWorker, hasChild
<1>4. ASSUME NEW w \in Wake, NEW how \in {"running", "halted"}, EnqueueThrows(w, how) PROVE FenceInv'
  BY <1>4, FenceSame DEF EnqueueThrows, client
<1>5. CASE Restart
  <2>1. CASE hasChild
    BY <1>5, <2>1, FenceSame DEF Restart
  <2>2. CASE ~hasChild
    BY <1>5, <2>2, FenceStarted, FenceNotStarted DEF Restart, hasChild
  <2> QED
    BY <2>1, <2>2
<1>6. CASE Deadline
  BY <1>6, FenceFailed DEF Deadline, worker
<1>7. CASE ProtocolFailure
  BY <1>7, FenceFailed DEF ProtocolFailure, worker
<1>8. ASSUME NEW a \in answers, Consume(a) PROVE FenceInv'
  <2>1. running' = running /\ closing' = closing /\ answers' \subseteq answers
    BY <1>8 DEF Consume
  <2>2. CASE child' = child /\ generation' = generation /\ blame' = blame
    BY <2>1, <2>2 DEF FenceInv, OfChild, blame, KilledForCause
  <2>3. CASE ~(child' = child /\ generation' = generation /\ blame' = blame)
    <3>1. ~fenced(a.generation) /\ workerFailed(a.generation)
      BY <1>8, <2>3 DEF Consume, client
    <3>2. a.generation = child
      BY <3>1 DEF fenced, FenceInv, OfChild
    <3> QED
      BY <2>1, <3>1, <3>2, FenceFailed
  <2> QED
    BY <2>2, <2>3
<1>9. ASSUME NEW v \in Verdict, Answer(v) PROVE FenceInv'
  <2>1. PICK request \in inFlight :
          answers' = answers \cup {[generation |-> child, id |-> request.id, verdict |-> v]}
    BY <1>9 DEF Answer
  <2>2. OfChild(child)
    BY <1>9 DEF Answer, FenceInv
  <2>3. \A a \in answers' : OfChild(a.generation)
    BY <2>1, <2>2 DEF FenceInv
  <2> QED
    BY <1>9, <2>3 DEF Answer, FenceInv, OfChild, client, blame, KilledForCause
<1>10. ASSUME NEW g \in running, Exit(g) PROVE FenceInv'
  BY <1>10 DEF Exit, FenceInv, OfChild, client, KilledForCause
<1>11. ASSUME NEW g \in closing, Close(g) PROVE FenceInv'
  <2>1. running' = running /\ closing' \subseteq closing /\ answers' = answers
    BY <1>11 DEF Close
  <2>2. CASE fenced(g)
    BY <1>11, <2>1, <2>2 DEF Close, client, blame, FenceInv, OfChild, KilledForCause
  <2>3. CASE ~fenced(g)
    <3>1. g = child
      BY <2>3 DEF fenced, FenceInv, OfChild
    <3> QED
      BY <1>11, <2>1, <2>3, <3>1, FenceFailed DEF Close
  <2> QED
    BY <2>2, <2>3
<1>12. ASSUME NEW fresh \in BOOLEAN, Claim(fresh) PROVE FenceInv'
  BY <1>12, FenceSame DEF Claim, client
<1>13. CASE UNCHANGED vars
  BY <1>13, FenceSame DEF vars, client
<1> QED
  BY <1>1, <1>2, <1>3, <1>4, <1>5, <1>6, <1>7, <1>8, <1>9, <1>10, <1>11, <1>12, <1>13 DEF Next

LEMMA FenceAlways == Spec => []FenceInv
<1> QED
  BY FenceInit, FenceStep, PTL DEF Spec

(* For any wakes and limits: no worker is killed for an event of another, the  *)
(* window between exit and close included.                                    *)
THEOREM Fenced == Spec => []KilledForCause
<1>1. FenceInv => KilledForCause
  BY DEF FenceInv
<1> QED
  BY <1>1, FenceAlways, PTL

(* For any wakes and limits: at most one worker runs that was not killed. *)
THEOREM SingleWorker == Spec => []OneWorker
<1>1. FenceInv => OneWorker
  <2> SUFFICES ASSUME FenceInv PROVE OneWorker
    OBVIOUS
  <2>1. running \ killed \subseteq {child}
    BY DEF FenceInv
  <2>2. IsFiniteSet({child}) /\ Cardinality({child}) = 1
    BY FS_Singleton
  <2>3. Cardinality(running \ killed) <= Cardinality({child})
    BY <2>1, <2>2, FS_Subset
  <2> QED
    BY <2>2, <2>3 DEF OneWorker
<1> QED
  BY <1>1, FenceAlways, PTL

(* For any wakes and limits: the fence holds and the worker is alone. *)
THEOREM FencedAlone == Spec => []WorkerFenced
<1>1. KilledForCause /\ OneWorker => WorkerFenced
  BY DEF WorkerFenced
<1> QED
  BY <1>1, Fenced, SingleWorker, PTL
-----------------------------------------------------------------------------
(* The wakes.  Without a legacy flag only incomplete answers are unproven.      *)

WakeInv ==
    /\ \A r, s \in inFlight : r = s
    /\ child = 0 => inFlight = {}
    /\ \A a \in answers : a.verdict \in Verdict
    /\ unproven \subseteq event.wakes
    /\ ~event.legacy => unproven \subseteq inconclusive
    /\ NothingForgotten

(* The initial states satisfy it. *)
LEMMA WakeInit == Init => WakeInv
  BY DEF Init, WakeInv, NoEvent, NothingForgotten, wakesOf

(* The one request is all that is in flight. *)
LEMMA OneRequest ==
  ASSUME WakeInv, NEW request \in inFlight
  PROVE  wakesOf(inFlight) = request.wakes
<1>1. inFlight = {request}
  BY DEF WakeInv
<1> QED
  BY <1>1 DEF wakesOf

(* A dispatched signal is what is then in flight. *)
LEMMA Dispatched ==
  ASSUME NEW wakes, dispatch(wakes)
  PROVE  /\ wakesOf(inFlight') = wakes
         /\ \A r, s \in inFlight' : r = s
  BY DEF dispatch, wakesOf

(* A failed child's request goes to the bounded child. *)
LEMMA WakeFailed ==
  ASSUME WakeInv, NEW g, workerFailed(g), arrived' = arrived, thrown' = thrown,
         watcher' = watcher, answers' \subseteq answers
  PROVE  WakeInv'
<1>1. inFlight' = {} /\ wakesOf(inFlight') = {} /\ inconclusive' = inconclusive
  BY DEF workerFailed, wakesOf
<1>2. event'.wakes = event.wakes \cup wakesOf(inFlight)
  BY DEF workerFailed, enqueueLegacy, mergedWith, wakesOf
<1>3. unproven' \subseteq event'.wakes /\ (~event'.legacy => unproven' \subseteq inconclusive')
  <2>1. CASE inFlight = {}
    BY <1>1, <2>1 DEF workerFailed, WakeInv
  <2>2. CASE inFlight # {}
    <3>1. enqueueLegacy(wakesOf(inFlight))
      BY <2>2 DEF workerFailed
    <3>2. event'.legacy /\ unproven' = unproven \cup wakesOf(inFlight)
      BY <3>1 DEF enqueueLegacy, mergedWith
    <3> QED
      BY <1>2, <3>2 DEF WakeInv
  <2> QED
    BY <2>1, <2>2
<1>4. NothingForgotten'
  BY <1>1, <1>2 DEF workerFailed, WakeInv, NothingForgotten
<1> QED
  BY <1>1, <1>3, <1>4 DEF WakeInv

(* A child that starts takes what was pending. *)
LEMMA WakeStarted ==
  ASSUME FenceInv, WakeInv, NEW pending, started(pending), child = 0, signer' = signer,
         watcher' = watcher, thrown' = thrown,
         pendingSignal \subseteq pending, arrived' \subseteq arrived \cup pending
  PROVE  WakeInv'
<1>1. inFlight = {} /\ wakesOf(inFlight) = {} /\ answers' = answers /\ child' # 0
  BY DEF WakeInv, wakesOf, started, FenceInv
<1>2. wakesOf(inFlight') = pending /\ \A r, s \in inFlight' : r = s
  <2>1. CASE pending = {}
    BY <1>1, <2>1 DEF started
  <2>2. CASE pending # {}
    BY <2>2, Dispatched DEF started
  <2> QED
    BY <2>1, <2>2
<1>3. NothingForgotten'
  BY <1>1, <1>2 DEF WakeInv, NothingForgotten, signer
<1> QED
  BY <1>1, <1>2, <1>3 DEF WakeInv, signer

(* A step that moves no wake keeps it. *)
LEMMA WakeSame ==
  ASSUME WakeInv, child' = child, inFlight' = inFlight, signer' = signer, pendingSignal' = pendingSignal,
         answers' \subseteq answers, arrived' = arrived, thrown' = thrown, watcher' = watcher
  PROVE  WakeInv'
  BY DEF WakeInv, NothingForgotten, signer

(* A wake that goes to the bounded child is in the event, which says so. *)
LEMMA WakeLegacy ==
  ASSUME WakeInv, NEW w, enqueueLegacy({w}), arrived' = arrived \cup {w},
         child' = child, inFlight' = inFlight, answers' = answers, pendingSignal \subseteq pendingSignal',
         handed' = handed, inconclusive' = inconclusive, thrown' = thrown, watcher' = watcher
  PROVE  WakeInv'
<1>1. event'.wakes = event.wakes \cup {w} /\ event'.legacy /\ unproven' = unproven \cup {w}
  BY DEF enqueueLegacy, mergedWith
<1>2. NothingForgotten'
  BY <1>1 DEF WakeInv, NothingForgotten
<1> QED
  BY <1>1, <1>2 DEF WakeInv

(* An answer decides its request, or puts it into the event. *)
LEMMA WakeAnswered ==
  ASSUME VerdictAssumption, WakeInv, NEW request \in inFlight,
         NEW verdict \in Verdict, onResult(request, verdict)
  PROVE  /\ event.wakes \cup handed \cup request.wakes
               \subseteq event'.wakes \cup handed' \cup inconclusive'
         /\ event.wakes \cup handed \subseteq event'.wakes \cup handed'
         /\ inconclusive \subseteq inconclusive'
         /\ unproven' \subseteq event'.wakes
         /\ ~event'.legacy => unproven' \subseteq inconclusive'
<1>1. /\ verdict = "incomplete" => inconclusive' = inconclusive \cup request.wakes
      /\ verdict # "incomplete" => inconclusive' = inconclusive
  BY DEF onResult
<1>2. CASE pendingSignal # {} /\ verdict # "positive"
  <2>1. /\ verdict = "negative" => handed' = handed \cup request.wakes
        /\ verdict # "negative" => handed' = handed
        /\ event' = event /\ unproven' = unproven
    BY <1>2 DEF onResult
  <2>2. verdict = "negative" \/ verdict = "incomplete"
    BY <1>2 DEF VerdictAssumption
  <2> QED
    BY <1>1, <2>1, <2>2 DEF WakeInv
<1>3. CASE ~(pendingSignal # {} /\ verdict # "positive")
  <2>1. /\ event' = mergedWith(request.wakes, FALSE, {request.id})
        /\ handed' = handed
        /\ verdict = "incomplete" => unproven' = unproven \cup request.wakes
        /\ verdict # "incomplete" => unproven' = unproven
    BY <1>3 DEF onResult
  <2>2. event'.wakes = event.wakes \cup request.wakes /\ event'.legacy = (event.legacy \/ FALSE)
    BY <2>1 DEF mergedWith
  <2>3. unproven' \subseteq event'.wakes
    BY <2>1, <2>2 DEF WakeInv
  <2>4. ~event'.legacy => unproven' \subseteq inconclusive'
    <3> SUFFICES ASSUME ~event'.legacy PROVE unproven' \subseteq inconclusive'
      OBVIOUS
    <3>1. ~event.legacy
      BY <2>2
    <3> QED
      BY <1>1, <2>1, <3>1 DEF WakeInv
  <2> QED
    BY <1>1, <2>1, <2>2, <2>3, <2>4
<1> QED
  BY <1>2, <1>3

(* Every step keeps it. *)
LEMMA WakeStep == FenceInv /\ WakeInv /\ [Next]_vars => WakeInv'
<1> SUFFICES ASSUME FenceInv, WakeInv, [Next]_vars PROVE WakeInv'
  OBVIOUS
<1>1. ASSUME NEW w \in Wake, Coalesce(w) PROVE WakeInv'
  BY <1>1 DEF Coalesce, arrives, WakeInv, NothingForgotten, worker, signer
<1>2. ASSUME NEW w \in Wake, EnqueueDispatch(w) PROVE WakeInv'
  <2>1. wakesOf(inFlight') = {w} /\ \A r, s \in inFlight' : r = s
    BY <1>2, Dispatched DEF EnqueueDispatch
  <2>2. wakesOf(inFlight) = {}
    BY <1>2 DEF EnqueueDispatch, wakesOf
  <2>3. NothingForgotten'
    BY <1>2, <2>1, <2>2 DEF EnqueueDispatch, arrives, WakeInv, NothingForgotten, signer
  <2> QED
    BY <1>2, <2>1, <2>3 DEF EnqueueDispatch, hasChild, WakeInv, worker, signer
<1>3. ASSUME NEW w \in Wake, EnqueueAndStart(w) PROVE WakeInv'
  BY <1>3, WakeStarted DEF EnqueueAndStart, hasChild, arrives
<1>4. ASSUME NEW w \in Wake, EnqueueNoWorker(w) \/ EnqueueRejected(w) PROVE WakeInv'
  BY <1>4, WakeLegacy DEF EnqueueNoWorker, EnqueueRejected, arrives, worker, client
<1>5. ASSUME NEW w \in Wake, NEW how \in {"running", "halted"}, EnqueueThrows(w, how) PROVE WakeInv'
  BY <1>5 DEF EnqueueThrows, arrives, WakeInv, NothingForgotten, client, worker, signer
<1>6. CASE Restart
  <2>1. CASE hasChild
    BY <1>6, <2>1, WakeSame DEF Restart, worker
  <2>2. CASE ~hasChild
    BY <1>6, <2>2, WakeStarted, WakeSame DEF Restart, hasChild, worker
  <2> QED
    BY <2>1, <2>2
<1>7. CASE Deadline
  BY <1>7, WakeFailed DEF Deadline, worker
<1>8. CASE ProtocolFailure
  BY <1>8, WakeFailed DEF ProtocolFailure, worker
<1>9. ASSUME NEW a \in answers, Consume(a) PROVE WakeInv'
  <2>1. answers' \subseteq answers /\ arrived' = arrived /\ thrown' = thrown
    BY <1>9 DEF Consume
  <2>2. CASE fenced(a.generation)
    BY <1>9, <2>1, <2>2, WakeSame DEF Consume, client
  <2>3. CASE ~fenced(a.generation)
    <3>1. PICK request \in inFlight :
            \/ workerFailed(a.generation) /\ watcher' = watcher
            \/ /\ onResult(request, a.verdict)
               /\ pendingSignal' = {} /\ child' = child
               /\ \/ pendingSignal = {} /\ inFlight' = {} /\ watcher' = watcher
                  \/ pendingSignal # {} /\ dispatch(pendingSignal) /\ watcher' = watcher
                  \/ pendingSignal # {} /\ inFlight' = {} /\ watcher' = "crashed"
      BY <1>9, <2>3 DEF Consume
    <3>2. CASE workerFailed(a.generation) /\ watcher' = watcher
      BY <2>1, <3>2, WakeFailed
    <3>3. CASE ~(workerFailed(a.generation) /\ watcher' = watcher)
      <4>1. /\ watcher' # "crashed" => wakesOf(inFlight') = pendingSignal /\ watcher' = watcher
            /\ \A r, s \in inFlight' : r = s
            /\ child' = child /\ child # 0
        <5>1. CASE pendingSignal = {}
          BY <3>1, <3>3, <5>1 DEF wakesOf, WakeInv
        <5>2. CASE pendingSignal # {}
          BY <3>1, <3>3, <5>2, Dispatched DEF WakeInv
        <5> QED
          BY <5>1, <5>2
      <4>2. /\ event.wakes \cup handed \cup request.wakes
                  \subseteq event'.wakes \cup handed' \cup inconclusive'
            /\ event.wakes \cup handed \subseteq event'.wakes \cup handed'
            /\ inconclusive \subseteq inconclusive'
            /\ unproven' \subseteq event'.wakes
            /\ ~event'.legacy => unproven' \subseteq inconclusive'
        <5>1. a.verdict \in Verdict /\ onResult(request, a.verdict)
          BY <3>1, <3>3 DEF WakeInv
        <5> QED
          BY <5>1, VerdictAssumption, WakeAnswered
      <4>3. NothingForgotten'
        BY <2>1, <4>1, <4>2, OneRequest DEF WakeInv, NothingForgotten
      <4> QED
        BY <2>1, <4>1, <4>2, <4>3 DEF WakeInv
    <3> QED
      BY <3>2, <3>3
  <2> QED
    BY <2>2, <2>3
<1>10. ASSUME NEW v \in Verdict, Answer(v) PROVE WakeInv'
  <2>1. \A a \in answers' : a.verdict \in Verdict
    BY <1>10 DEF Answer, WakeInv
  <2> QED
    BY <1>10, <2>1 DEF Answer, WakeInv, NothingForgotten, client, signer
<1>11. ASSUME NEW g \in running, Exit(g) PROVE WakeInv'
  BY <1>11, WakeSame DEF Exit, client
<1>12. ASSUME NEW g \in closing, Close(g) PROVE WakeInv'
  <2>1. CASE fenced(g)
    BY <1>12, <2>1, WakeSame DEF Close, client
  <2>2. CASE ~fenced(g)
    BY <1>12, <2>2, WakeFailed DEF Close
  <2> QED
    BY <2>1, <2>2
<1>13. ASSUME NEW fresh \in BOOLEAN, Claim(fresh) PROVE WakeInv'
  <2>1. handed \cup (event.wakes \ inconclusive) \subseteq handed'
    <3>1. CASE event.legacy
      <4>1. needsChild(fresh)
        BY <3>1 DEF needsChild, preparedSearchResult
      <4> QED
        BY <1>13, <4>1 DEF Claim
    <3>2. CASE ~event.legacy
      <4>1. unproven \subseteq inconclusive
        BY <3>2 DEF WakeInv
      <4> QED
        BY <1>13, <4>1 DEF Claim
    <3> QED
      BY <3>1, <3>2
  <2>2. unproven' = {} /\ event'.wakes = {}
    BY <1>13 DEF Claim, WakeInv, NoEvent
  <2> QED
    BY <1>13, <2>1, <2>2 DEF Claim, WakeInv, NothingForgotten, client, worker
<1>14. CASE UNCHANGED vars
  BY <1>14, WakeSame DEF vars, client, worker
<1> QED
  BY <1>1, <1>2, <1>3, <1>4, <1>5, <1>6, <1>7, <1>8, <1>9, <1>10, <1>11, <1>12, <1>13, <1>14
     DEF Next

(* For any wakes and limits: no wake is forgotten, whichever workers crash,     *)
(* hang or cannot be started, however signals merge.                           *)
THEOREM NoneForgotten == Spec => []NothingForgotten
<1>1. WakeInv => NothingForgotten
  BY DEF WakeInv
<1> QED
  BY <1>1, WakeInit, WakeStep, FenceAlways, PTL DEF Spec

--------------------------------------------------------------------------------
(* The types of the resident search, and how many answers it keeps. *)

Result == [id : Nat, verdict : Evidence]

SearchTypes == TypeOK /\ IsFiniteSet(ready)

(* A set of numbers has a least one. *)
LEMMA LeastNumber ==
  ASSUME NEW S \in SUBSET Nat, S # {}
  PROVE  \E m \in S : \A k \in S : m <= k
<1> DEFINE R == OpToRel(<, Nat)
<1>1. IsWellFoundedOn(R, Nat)
  BY NatLessThanWellFounded
<1>2. \A x, y \in Nat : x < y => <<x, y>> \in R
  BY Zenon DEF OpToRel
<1> HIDE DEF R
<1>3. PICK x \in S : \A y \in S : ~(<<y, x>> \in R)
  BY <1>1, WFMin
<1>4. ASSUME NEW k \in S PROVE x <= k
  <2>1. ~(k < x)
    BY <1>2, <1>3
  <2> QED
    BY <2>1
<1> QED
  BY <1>4

(* So the oldest of several answers is one of them. *)
LEMMA OldestAmong ==
  ASSUME NEW results \in SUBSET Result, results # {}
  PROVE  oldest(results) \in results
<1> DEFINE ids == {r.id : r \in results}
<1>1. ids \in SUBSET Nat /\ ids # {}
  BY DEF Result
<1> HIDE DEF ids
<1>2. PICK m \in ids : \A k \in ids : m <= k
  BY <1>1, LeastNumber
<1>3. \E r \in results : \A s \in results : r.id <= s.id
  BY <1>2 DEF ids
<1> QED
  BY <1>3 DEF oldest

(* One answer more, and the oldest dropped: the limit is kept. *)
LEMMA KeptBounded ==
  ASSUME TypeOK, IsFiniteSet(ready), NEW r \in Result
  PROVE  /\ kept(ready \cup {r}) \subseteq Result /\ IsFiniteSet(kept(ready \cup {r}))
         /\ Cardinality(kept(ready \cup {r})) <= MaxReady
<1> DEFINE results == ready \cup {r}
<1>1. /\ IsFiniteSet(results) /\ results \in SUBSET Result /\ results # {}
      /\ Cardinality(results) <= Cardinality(ready) + 1
      /\ Cardinality(ready) \in Nat /\ Cardinality(results) \in Nat
  <2>1. IsFiniteSet(results) /\ Cardinality(ready) \in Nat
        /\ (Cardinality(results) = Cardinality(ready) \/ Cardinality(results) = Cardinality(ready) + 1)
    BY FS_AddElement, FS_CardinalityType
  <2>2. results \in SUBSET Result /\ results # {}
    BY DEF TypeOK, Result
  <2> HIDE DEF results
  <2> QED
    BY <2>1, <2>2
<1>2. Cardinality(ready) <= MaxReady /\ MaxReady \in Nat
  BY MaxReadyAssumption DEF TypeOK
<1> HIDE DEF results
<1>3. /\ kept(results) \subseteq Result /\ IsFiniteSet(kept(results))
      /\ Cardinality(kept(results)) <= MaxReady
  <2>1. CASE Cardinality(results) <= MaxReady
    BY <1>1, <1>2, <2>1 DEF kept
  <2>2. CASE ~(Cardinality(results) <= MaxReady)
    <3>1. kept(results) = results \ {oldest(results)}
      BY <1>1, <1>2, <2>2 DEF kept
    <3>2. /\ IsFiniteSet(results \ {oldest(results)})
          /\ Cardinality(results \ {oldest(results)}) = Cardinality(results) - 1
      BY <1>1, OldestAmong, FS_RemoveElement
    <3> QED
      BY <1>1, <1>2, <3>1, <3>2
  <2> QED
    BY <2>1, <2>2
<1> QED
  BY <1>3 DEF results

(* What is handed to the bounded child is a set of wakes. *)
LEMMA LegacyTypes ==
  ASSUME TypeOK, NEW wakes \in SUBSET Wake, enqueueLegacy(wakes)
  PROVE  /\ event' \in [wakes : SUBSET Wake, legacy : BOOLEAN, ids : SUBSET Nat]
         /\ unproven' \in SUBSET Wake
  BY DEF TypeOK, enqueueLegacy, mergedWith

(* So are the wakes of what is in flight. *)
LEMMA InFlightTypes ==
  ASSUME TypeOK
  PROVE  wakesOf(inFlight) \in SUBSET Wake
  BY DEF TypeOK, wakesOf

(* A dispatched signal is one request. *)
LEMMA DispatchTypes ==
  ASSUME TypeOK, NEW wakes \in SUBSET Wake, dispatch(wakes)
  PROVE  /\ inFlight' \subseteq [id : Nat, wakes : SUBSET Wake]
         /\ Cardinality(inFlight') <= 1 /\ sequence' \in Nat
<1>1. Cardinality({[id |-> sequence + 1, wakes |-> wakes]}) = 1
  BY FS_Singleton
<1> QED
  BY <1>1 DEF TypeOK, dispatch

(* Nothing in flight is no request. *)
LEMMA NoneInFlight == Cardinality({}) = 0
  BY FS_EmptySet

(* A child that fails, or starts, leaves everything of its type. *)
LEMMA FailedTypes ==
  ASSUME SearchTypes, NEW g \in Nat, workerFailed(g), UNCHANGED <<watcher, arrived, thrown>>,
         running' = running, closing' \subseteq closing, answers' \subseteq answers,
         exits' \in Nat, spawnErrors' = spawnErrors
  PROVE  SearchTypes'
<1>1. /\ event' \in [wakes : SUBSET Wake, legacy : BOOLEAN, ids : SUBSET Nat]
      /\ unproven' \in SUBSET Wake
  BY LegacyTypes, InFlightTypes DEF workerFailed, SearchTypes, TypeOK
<1>2. /\ generation' = generation + 1 /\ killed' = killed \cup {child} /\ atFault' = atFault \cup {g}
      /\ child' = 0 /\ inFlight' = {} /\ restartTimer' = TRUE
      /\ UNCHANGED <<sequence, pendingSignal, ready, handed, inconclusive>>
  BY DEF workerFailed
<1> QED
  BY <1>1, <1>2, NoneInFlight DEF SearchTypes, TypeOK

LEMMA StartedTypes ==
  ASSUME SearchTypes, NEW pending \in SUBSET Wake, started(pending),
         UNCHANGED <<signer, watcher, thrown, blame, bounds>>,
         arrived' \subseteq Wake, restartTimer' \in BOOLEAN
  PROVE  SearchTypes'
<1>1. /\ inFlight' \subseteq [id : Nat, wakes : SUBSET Wake]
      /\ Cardinality(inFlight') <= 1 /\ sequence' \in Nat
  BY DispatchTypes DEF started, SearchTypes, TypeOK
<1>2. /\ generation' = generation + 1 /\ child' = generation + 1
      /\ running' = running \cup {generation + 1} /\ pendingSignal' = {}
      /\ UNCHANGED <<closing, answers>>
  BY DEF started
<1> QED
  BY <1>1, <1>2 DEF SearchTypes, TypeOK, signer, blame, bounds

(* Every step keeps the types. *)
LEMMA SearchTypeStep == SearchTypes /\ [Next]_vars => SearchTypes'
<1> SUFFICES ASSUME SearchTypes, [Next]_vars PROVE SearchTypes'
  OBVIOUS
<1> USE DEF SearchTypes
<1>1. ASSUME NEW w \in Wake, Coalesce(w) PROVE SearchTypes'
  BY <1>1 DEF Coalesce, arrives, TypeOK, worker, signer, blame, bounds
<1>2. ASSUME NEW w \in Wake, EnqueueAndStart(w) PROVE SearchTypes'
  <2>1. pendingSignal \cup {w} \in SUBSET Wake /\ arrived' \subseteq Wake /\ restartTimer' \in BOOLEAN
    BY <1>2 DEF EnqueueAndStart, arrives, TypeOK
  <2> QED
    BY <1>2, <2>1, StartedTypes DEF EnqueueAndStart, arrives
<1>3. ASSUME NEW w \in Wake, EnqueueNoWorker(w) PROVE SearchTypes'
  <2>1. /\ event' \in [wakes : SUBSET Wake, legacy : BOOLEAN, ids : SUBSET Nat]
        /\ unproven' \in SUBSET Wake
    BY <1>3, LegacyTypes DEF EnqueueNoWorker
  <2>2. generation' = generation + 1 /\ restartTimer' = TRUE /\ spawnErrors' = spawnErrors + 1
    BY <1>3 DEF EnqueueNoWorker, notStarted
  <2> QED
    BY <1>3, <2>1, <2>2 DEF EnqueueNoWorker, arrives, TypeOK, worker, blame
<1>4. ASSUME NEW w \in Wake, EnqueueDispatch(w) PROVE SearchTypes'
  <2>1. /\ inFlight' \subseteq [id : Nat, wakes : SUBSET Wake]
        /\ Cardinality(inFlight') <= 1 /\ sequence' \in Nat
    BY <1>4, DispatchTypes DEF EnqueueDispatch
  <2> QED
    BY <1>4, <2>1 DEF EnqueueDispatch, arrives, TypeOK, worker, signer, blame, bounds
<1>5. ASSUME NEW w \in Wake, EnqueueRejected(w) PROVE SearchTypes'
  <2>1. /\ event' \in [wakes : SUBSET Wake, legacy : BOOLEAN, ids : SUBSET Nat]
        /\ unproven' \in SUBSET Wake
    BY <1>5, LegacyTypes DEF EnqueueRejected
  <2> QED
    BY <1>5, <2>1 DEF EnqueueRejected, arrives, TypeOK, client, worker, blame, bounds
<1>6. ASSUME NEW w \in Wake, NEW how \in {"running", "halted"}, EnqueueThrows(w, how)
      PROVE  SearchTypes'
  BY <1>6 DEF EnqueueThrows, arrives, TypeOK, client, worker, signer, blame, bounds
<1>7. CASE Restart
  <2>1. CASE hasChild
    BY <1>7, <2>1 DEF Restart, TypeOK, worker, signer, blame
  <2>2. CASE ~hasChild /\ notStarted /\ UNCHANGED <<child, sequence, inFlight, pendingSignal, worker>>
    BY <1>7, <2>2 DEF Restart, notStarted, TypeOK, worker, signer, blame
  <2>3. CASE restartTimer' = FALSE /\ started(pendingSignal) /\ UNCHANGED spawnErrors
    <3>1. pendingSignal \in SUBSET Wake /\ arrived' \subseteq Wake
      BY <1>7 DEF Restart, TypeOK
    <3> QED
      BY <1>7, <2>3, <3>1, StartedTypes DEF Restart, bounds
  <2> QED
    BY <1>7, <2>1, <2>2, <2>3 DEF Restart
<1>8. CASE Deadline
  BY <1>8, FailedTypes DEF Deadline, worker, bounds, TypeOK
<1>9. CASE ProtocolFailure
  BY <1>9, FailedTypes DEF ProtocolFailure, worker, TypeOK
<1>10. ASSUME NEW a \in answers, Consume(a) PROVE SearchTypes'
  <2>1. /\ UNCHANGED <<running, closing, arrived, thrown, bounds>> /\ answers' = answers \ {a}
        /\ a.generation \in Nat /\ a.verdict \in Evidence
    BY <1>10 DEF Consume, TypeOK
  <2>2. CASE fenced(a.generation)
    BY <1>10, <2>1, <2>2 DEF Consume, TypeOK, client, signer, blame, bounds
  <2>3. CASE ~fenced(a.generation)
    <3>1. PICK request \in inFlight :
            \/ workerFailed(a.generation) /\ UNCHANGED watcher
            \/ /\ onResult(request, a.verdict)
               /\ pendingSignal' = {}
               /\ \/ inFlight' = {} /\ UNCHANGED <<sequence, watcher>>
                  \/ dispatch(pendingSignal) /\ UNCHANGED watcher
                  \/ inFlight' = {} /\ watcher' = "crashed" /\ UNCHANGED sequence
               /\ UNCHANGED <<child, generation, restartTimer, blame>>
      BY <1>10, <2>3 DEF Consume
    <3>2. CASE workerFailed(a.generation) /\ UNCHANGED watcher
      BY <2>1, <3>2, FailedTypes DEF bounds, TypeOK
    <3>3. CASE ~(workerFailed(a.generation) /\ UNCHANGED watcher)
      <4>1. /\ inFlight' \subseteq [id : Nat, wakes : SUBSET Wake]
            /\ Cardinality(inFlight') <= 1 /\ sequence' \in Nat
            /\ watcher' \in {"running", "halted", "crashed"}
        <5>1. CASE dispatch(pendingSignal) /\ UNCHANGED watcher
          BY <5>1, DispatchTypes DEF TypeOK
        <5>2. CASE inFlight' = {} /\ UNCHANGED sequence /\ (UNCHANGED watcher \/ watcher' = "crashed")
          BY <5>2, NoneInFlight DEF TypeOK
        <5> QED
          BY <3>1, <3>3, <5>1, <5>2
      <4>2. onResult(request, a.verdict) /\ pendingSignal' = {}
            /\ UNCHANGED <<child, generation, restartTimer, blame>>
        BY <3>1, <3>3
      <4>3. request.id \in Nat /\ request.wakes \in SUBSET Wake
        BY <3>1 DEF TypeOK
      <4>4. /\ inconclusive' \subseteq Wake /\ handed' \subseteq Wake /\ unproven' \subseteq Wake
            /\ event' \in [wakes : SUBSET Wake, legacy : BOOLEAN, ids : SUBSET Nat]
        BY <4>2, <4>3 DEF onResult, mergedWith, TypeOK
      <4>5. ready' \subseteq Result /\ IsFiniteSet(ready') /\ Cardinality(ready') <= MaxReady
        <5>1. CASE ready' = ready
          BY <5>1 DEF TypeOK, Result
        <5>2. CASE ready' = kept(ready \cup {[id |-> request.id, verdict |-> a.verdict]})
          <6>1. [id |-> request.id, verdict |-> a.verdict] \in Result
            BY <2>1, <4>3 DEF Result
          <6> QED
            BY <5>2, <6>1, KeptBounded
        <5> QED
          BY <4>2, <5>1, <5>2 DEF onResult
      <4> QED
        BY <2>1, <4>1, <4>2, <4>4, <4>5 DEF TypeOK, Result, blame, bounds
    <3> QED
      BY <3>2, <3>3
  <2> QED
    BY <2>2, <2>3
<1>11. ASSUME NEW v \in Verdict, Answer(v) PROVE SearchTypes'
  <2>1. PICK request \in inFlight :
          answers' = answers \cup {[generation |-> child, id |-> request.id, verdict |-> v]}
    BY <1>11 DEF Answer
  <2>2. v \in Evidence
    BY VerdictAssumption DEF Evidence
  <2>3. answers' \subseteq [generation : Nat, id : Nat, verdict : Evidence]
    BY <2>1, <2>2 DEF TypeOK
  <2> QED
    BY <1>11, <2>3 DEF Answer, TypeOK, client, signer, blame, bounds
<1>12. ASSUME NEW g \in running, Exit(g) PROVE SearchTypes'
  BY <1>12 DEF Exit, TypeOK, client, signer
<1>13. ASSUME NEW g \in closing, Close(g) PROVE SearchTypes'
  <2>1. g \in Nat
    BY DEF TypeOK
  <2>2. CASE fenced(g)
    BY <1>13, <2>2 DEF Close, TypeOK, client, signer, blame, bounds
  <2>3. CASE ~fenced(g)
    BY <1>13, <2>1, <2>3, FailedTypes DEF Close, TypeOK, bounds
  <2> QED
    BY <2>2, <2>3
<1>14. ASSUME NEW fresh \in BOOLEAN, Claim(fresh) PROVE SearchTypes'
  <2>1. ready' \subseteq ready /\ IsFiniteSet(ready') /\ Cardinality(ready') <= Cardinality(ready)
    BY <1>14, FS_Subset DEF Claim
  <2>2. Cardinality(ready') <= MaxReady
    BY <2>1, MaxReadyAssumption, FS_CardinalityType DEF TypeOK
  <2>3. NoEvent \in [wakes : SUBSET Wake, legacy : BOOLEAN, ids : SUBSET Nat]
    BY DEF NoEvent
  <2> QED
    BY <1>14, <2>1, <2>2, <2>3 DEF Claim, TypeOK, client, worker, blame, bounds
<1>15. CASE UNCHANGED vars
  BY <1>15 DEF vars, TypeOK, client, worker, signer, blame, bounds
<1> QED
  BY <1>1, <1>2, <1>3, <1>4, <1>5, <1>6, <1>7, <1>8, <1>9, <1>10, <1>11, <1>12, <1>13, <1>14, <1>15
     DEF Next

(* The initial states have their types. *)
LEMMA SearchTypeInit == Init => SearchTypes
<1> SUFFICES ASSUME Init PROVE SearchTypes
  OBVIOUS
<1>1. IsFiniteSet({}) /\ Cardinality({}) = 0
  BY FS_EmptySet
<1> QED
  BY <1>1, MaxReadyAssumption DEF Init, SearchTypes, TypeOK, NoEvent

--------------------------------------------------------------------------------
(* The Earn event sources.  The public reader covers the chain but for what a  *)
(* log of the subscription has overtaken.                                      *)

(* The strengthening: a poll under way began at a cursor below which all was   *)
(* covered, which need not be today's; and neither is ahead of the chain.      *)
Covered(upTo) == \A b \in swaps : b <= upTo => b \in found \cup skipped \cup overtaken

CoverInv ==
    /\ head \in Nat /\ swaps \subseteq Nat /\ \A b \in swaps : b <= head
    /\ cursor \in Nat /\ cursor <= head
    /\ poll \in [phase : {"idle", "head", "logs"}, from : Nat, upTo : Nat]
    /\ poll.phase # "idle" => poll.from <= head /\ Covered(poll.from)
    /\ poll.phase = "logs" => poll.upTo <= head
    /\ woken \in Seq(Nat)
    /\ Covered(cursor)

(* The initial states satisfy it. *)
LEMMA CoverInit == EventsInit => CoverInv
  BY DEF EventsInit, CoverInv, Idle, Covered

(* What is covered stays so while the histories grow and no block is added.    *)
LEMMA StillCovered ==
  ASSUME NEW upTo, Covered(upTo), swaps' = swaps, found \subseteq found',
         skipped \subseteq skipped', overtaken \subseteq overtaken'
  PROVE  \A b \in swaps' : b <= upTo => b \in found' \cup skipped' \cup overtaken'
  BY DEF Covered

(* A step that finds nothing and moves no cursor keeps the coverage. *)
LEMMA CoverSame ==
  ASSUME CoverInv, head' = head, swaps' = swaps, cursor' = cursor,
         poll' = poll \/ poll' = Idle,
         woken' = woken, polled' = polled, skipped' = skipped, overtaken' = overtaken
  PROVE  CoverInv'
<1>1. found' = found
  BY DEF found
<1>2. Covered(cursor)' /\ (Covered(poll.from) => \A b \in swaps' :
         b <= poll.from => b \in found' \cup skipped' \cup overtaken')
  BY <1>1 DEF Covered, CoverInv
<1>3. CASE poll' = poll
  BY <1>2, <1>3 DEF CoverInv, Covered
<1>4. CASE poll' = Idle
  BY <1>2, <1>4 DEF CoverInv, Idle
<1> QED
  BY <1>3, <1>4

(* Every step keeps it. *)
LEMMA CoverStep == CoverInv /\ [EventsNext]_eventVars => CoverInv'
<1> SUFFICES ASSUME CoverInv, [EventsNext]_eventVars PROVE CoverInv'
  OBVIOUS
<1>1. ASSUME NEW swap \in BOOLEAN, NEW sent \in BOOLEAN, Mine(swap, sent) PROVE CoverInv'
  <2>1. /\ head' = head + 1 /\ swaps \subseteq swaps' /\ swaps' \subseteq swaps \cup {head + 1}
        /\ UNCHANGED <<cursor, poll, woken, polled, skipped, overtaken>>
    BY <1>1 DEF Mine, source, reader
  <2>2. found' = found
    BY <2>1 DEF found
  <2>3. ASSUME NEW upTo \in Nat, upTo <= head, Covered(upTo)
        PROVE  \A b \in swaps' : b <= upTo => b \in found' \cup skipped' \cup overtaken'
    <3>1. ~(head + 1 <= upTo)
      BY <2>3 DEF CoverInv
    <3> QED
      BY <2>1, <2>2, <2>3, <3>1 DEF Covered
  <2>4. Covered(cursor)' /\ (poll'.phase # "idle" => Covered(poll.from)')
    BY <2>1, <2>3 DEF CoverInv, Covered
  <2> QED
    BY <2>1, <2>4 DEF CoverInv
<1>2. ASSUME NEW b \in swaps, Replay(b) PROVE CoverInv'
  BY <1>2, CoverSame DEF Replay, source, reader
<1>3. ASSUME NEW b \in swaps, HandleLogs(b) PROVE CoverInv'
  <2>1. CASE remembered(b)
    BY <1>3, <2>1, CoverSame DEF HandleLogs, source, reader
  <2>2. CASE ~remembered(b)
    <3>1. /\ woken' = Append(woken, b)
          /\ cursor' = IF b > cursor THEN b ELSE cursor
          /\ overtaken' = overtaken \cup ((cursor + 1)..(b - 1))
          /\ UNCHANGED <<head, swaps, poll, polled, skipped>>
      BY <1>3, <2>2 DEF HandleLogs, reader
    <3>2. b \in Nat /\ b <= head /\ woken \in Seq(Nat) /\ cursor \in Nat
      BY DEF CoverInv
    <3>3. found \subseteq found' /\ b \in found' /\ woken' \in Seq(Nat)
      <4>1. /\ woken' \in Seq(Nat) /\ DOMAIN woken = 1..Len(woken) /\ Len(woken) \in Nat
            /\ DOMAIN woken' = 1..(Len(woken) + 1) /\ woken'[Len(woken) + 1] = b
            /\ \A i \in 1..Len(woken) : woken'[i] = woken[i]
        BY <3>1, <3>2
      <4> QED
        BY <3>1, <4>1 DEF found
    <3>4. Covered(cursor)'
      <4>1. ASSUME NEW c \in swaps, c <= cursor'
            PROVE  c \in found' \cup skipped' \cup overtaken'
        <5>1. c \in Nat
          BY DEF CoverInv
        <5>2. CASE c <= cursor
          BY <3>1, <3>3, <5>2 DEF CoverInv, Covered
        <5>3. CASE cursor < c /\ c <= b
          BY <3>1, <3>2, <3>3, <5>1, <5>3
        <5> QED
          BY <3>1, <3>2, <4>1, <5>1, <5>2, <5>3
      <4> QED
        BY <3>1, <4>1 DEF Covered
    <3>5. poll.phase # "idle" => Covered(poll.from)'
      BY <3>1, <3>3, StillCovered DEF CoverInv, Covered
    <3> QED
      BY <3>1, <3>2, <3>3, <3>4, <3>5 DEF CoverInv
  <2> QED
    BY <2>1, <2>2
<1>4. ASSUME NEW accepted \in BOOLEAN, Start(accepted) PROVE CoverInv'
  BY <1>4, CoverSame DEF Start, reader
<1>5. CASE HandleError
  BY <1>5, CoverSame DEF HandleError, reader
<1>6. CASE PollStart
  <2>1. /\ poll' = [phase |-> "head", from |-> cursor, upTo |-> 0]
        /\ UNCHANGED <<head, swaps, cursor, woken, polled, skipped, overtaken>>
    BY <1>6 DEF PollStart, source
  <2>2. found' = found
    BY <2>1 DEF found
  <2> QED
    BY <2>1, <2>2 DEF CoverInv, Covered
<1>7. ASSUME NEW h \in 0..head, PollHead(h) PROVE CoverInv'
  <2>1. UNCHANGED <<head, swaps, woken, polled, skipped, overtaken>>
    BY <1>7 DEF PollHead, source
  <2>2. found' = found
    BY <2>1 DEF found
  <2>3. poll.phase = "head" /\ poll \in [phase : {"idle", "head", "logs"}, from : Nat, upTo : Nat]
    BY <1>7 DEF PollHead, CoverInv
  <2>4. CASE h <= poll.from
    <3>1. cursor' = poll.from /\ poll' = Idle
      BY <1>7, <2>4 DEF PollHead
    <3>2. Covered(cursor)'
      BY <2>1, <2>2, <2>3, <3>1 DEF CoverInv, Covered
    <3> QED
      BY <2>1, <2>3, <3>1, <3>2 DEF CoverInv, Idle
  <2>5. CASE ~(h <= poll.from)
    <3>1. cursor' = cursor /\ poll' = [phase |-> "logs", from |-> poll.from, upTo |-> h]
      BY <1>7, <2>3, <2>5 DEF PollHead
    <3>2. Covered(cursor)' /\ Covered(poll.from)'
      BY <2>1, <2>2, <2>3, <3>1 DEF CoverInv, Covered
    <3>3. h \in Nat /\ h <= head
      BY DEF CoverInv
    <3> QED
      BY <2>1, <2>3, <3>1, <3>2, <3>3 DEF CoverInv
  <2> QED
    BY <2>4, <2>5
<1>8. CASE PollLogs
  <2> DEFINE first == scannedFrom(poll.from, poll.upTo)
  <2>1. /\ poll.from \in Nat /\ poll.upTo \in Nat /\ poll.upTo <= head
        /\ Covered(poll.from)
    BY <1>8 DEF PollLogs, CoverInv
  <2>2. first \in Int
    BY <2>1, WindowAssumption DEF scannedFrom
  <2>3. /\ polled' = polled \cup {b \in swaps : first <= b /\ b <= poll.upTo}
        /\ skipped' = skipped \cup ((poll.from + 1)..(first - 1))
        /\ cursor' = poll.upTo /\ poll' = Idle
        /\ UNCHANGED <<head, swaps, woken, overtaken>>
    BY <1>8 DEF PollLogs, source
  <2> HIDE DEF first
  <2>4. ASSUME NEW b \in swaps, b <= poll.upTo
        PROVE  b \in found' \cup skipped' \cup overtaken'
    <3>1. b \in Nat
      BY DEF CoverInv
    <3>2. CASE b <= poll.from
      BY <2>1, <2>3, <3>2 DEF Covered, found
    <3>3. CASE poll.from < b /\ b < first
      BY <2>1, <2>2, <2>3, <3>1, <3>3
    <3>4. CASE first <= b
      BY <2>3, <2>4, <3>4 DEF found
    <3> QED
      BY <2>1, <2>2, <3>1, <3>2, <3>3, <3>4
  <2>5. Covered(cursor)'
    BY <2>3, <2>4 DEF Covered
  <2> QED
    BY <2>1, <2>3, <2>5 DEF CoverInv, Idle
<1>9. CASE PollFail
  BY <1>9, CoverSame DEF PollFail, cursorAfterFailure, source
<1>10. CASE UNCHANGED eventVars
  BY <1>10, CoverSame DEF eventVars, source, reader
<1> QED
  BY <1>1, <1>2, <1>3, <1>4, <1>5, <1>6, <1>7, <1>8, <1>9, <1>10 DEF EventsNext

(* For any window, cache, lag and chain, whatever fails: every swap the cursor *)
(* has passed was found, was reported as skipped, or was below a log that      *)
(* moved the cursor.                                                          *)
THEOREM Backstop == EventsSpec => []BackstopCovers
<1>1. CoverInv => BackstopCovers
  BY DEF CoverInv, Covered, BackstopCovers
<1>2. CoverInv /\ [EventsNext]_eventVars => CoverInv'
  BY CoverStep
<1> QED
  BY <1>1, <1>2, CoverInit, PTL DEF EventsSpec

--------------------------------------------------------------------------------
(* The types of the event sources, and the dedupe cache: it holds the latest    *)
(* wakes, as many as fit, so a swap that is not in it woke long ago or never.   *)

CacheIsLatest ==
    /\ Len(cache) <= Len(woken)
    /\ Len(cache) < Len(woken) => Len(cache) = MaxKeys
    /\ \A i \in 1..Len(cache) : cache[i] = woken[Len(woken) - Len(cache) + i]

EventsInv == CoverInv /\ EventsTypeOK /\ CacheIsLatest /\ ReplaySuppressed

(* A sequence over some blocks is one over more. *)
LEMMA SeqOverMore ==
  ASSUME NEW S, NEW T, S \subseteq T, NEW s \in Seq(S)
  PROVE  s \in Seq(T)
  OBVIOUS

(* What cache d is to cache c: b is the last, and at most the first went.       *)
ThenLatest(S, d, c, b) ==
    /\ d \in Seq(S)
    /\ Len(d) = IF Len(c) < MaxKeys THEN Len(c) + 1 ELSE MaxKeys
    /\ \A i \in 1..Len(d) : d[i] = IF i = Len(d) THEN b ELSE c[Len(c) + 1 - Len(d) + i]

LEMMA CacheAppended ==
  ASSUME NEW S, NEW c \in Seq(S), NEW b \in S, Len(c) <= MaxKeys, NEW d, d = evicted(Append(c, b))
  PROVE  ThenLatest(S, d, c, b)
<1> USE DEF ThenLatest
<1> DEFINE e == Append(c, b)
<1>1. /\ d = evicted(e) /\ e \in Seq(S) /\ Len(e) = Len(c) + 1 /\ Len(c) \in Nat
      /\ \A i \in 1..Len(e) : e[i] = IF i = Len(e) THEN b ELSE c[i]
  OBVIOUS
<1> HIDE DEF e
<1>2. MaxKeys \in Nat /\ MaxKeys > 0
  BY MaxKeysAssumption
<1>3. CASE Len(c) < MaxKeys
  <2>1. d = e
    BY <1>1, <1>2, <1>3 DEF evicted
  <2> QED
    BY <1>1, <1>2, <1>3, <2>1
<1>4. CASE ~(Len(c) < MaxKeys)
  <2>1. d = Tail(e) /\ Len(c) = MaxKeys
    BY <1>1, <1>2, <1>4 DEF evicted
  <2>2. /\ d \in Seq(S) /\ Len(d) = MaxKeys
        /\ \A i \in 1..MaxKeys : d[i] = e[i + 1]
    BY <1>1, <1>2, <2>1
  <2>3. ASSUME NEW i \in 1..MaxKeys PROVE d[i] = IF i = MaxKeys THEN b ELSE c[i + 1]
    <3>1. i + 1 \in 1..Len(e) /\ (i = MaxKeys <=> i + 1 = Len(e))
      BY <1>1, <1>2, <2>1
    <3> QED
      BY <1>1, <2>2, <3>1
  <2>4. \A i \in 1..MaxKeys : Len(c) + 1 - Len(d) + i = i + 1
    BY <1>2, <2>1, <2>2
  <2> QED
    BY <1>4, <2>1, <2>2, <2>3, <2>4
<1> QED
  BY <1>3, <1>4

(* A log that is not remembered: the cache stays the latest wakes, and a wake   *)
(* for the same swap was more than MaxKeys wakes before.                       *)
LEMMA ReplayStep ==
  ASSUME EventsInv, NEW b \in swaps, ~remembered(b), swaps' = swaps,
         cache' = evicted(Append(cache, b)), woken' = Append(woken, b)
  PROVE  /\ cache' \in Seq(swaps) /\ Len(cache') <= MaxKeys /\ woken' \in Seq(swaps)
         /\ CacheIsLatest' /\ ReplaySuppressed'
<1>1. /\ cache \in Seq(swaps) /\ woken \in Seq(swaps) /\ Len(cache) <= MaxKeys
      /\ Len(cache) \in Nat /\ Len(woken) \in Nat /\ MaxKeys \in Nat /\ MaxKeys > 0
  BY MaxKeysAssumption DEF EventsInv, EventsTypeOK
<1>2. /\ cache' \in Seq(swaps)
      /\ Len(cache') = IF Len(cache) < MaxKeys THEN Len(cache) + 1 ELSE MaxKeys
      /\ \A i \in 1..Len(cache') :
            cache'[i] = IF i = Len(cache') THEN b ELSE cache[Len(cache) + 1 - Len(cache') + i]
  <2>1. cache \in Seq(swaps) /\ b \in swaps /\ Len(cache) <= MaxKeys /\ cache' = evicted(Append(cache, b))
    BY <1>1
  <2>2. ThenLatest(swaps, cache', cache, b)
    BY <2>1, CacheAppended, Zenon
  <2> QED
    BY <2>2 DEF ThenLatest
<1>3. /\ woken' \in Seq(swaps) /\ Len(woken') = Len(woken) + 1
      /\ DOMAIN woken' = 1..(Len(woken) + 1)
      /\ \A i \in 1..(Len(woken) + 1) :
            woken'[i] = IF i = Len(woken) + 1 THEN b ELSE woken[i]
  BY <1>1
<1>4. /\ Len(cache) <= Len(woken) /\ (Len(cache) < Len(woken) => Len(cache) = MaxKeys)
      /\ \A i \in 1..Len(cache) : cache[i] = woken[Len(woken) - Len(cache) + i]
  BY DEF EventsInv, CacheIsLatest
<1>5. CacheIsLatest'
  <2>1. Len(cache') <= Len(woken') /\ (Len(cache') < Len(woken') => Len(cache') = MaxKeys)
    BY <1>1, <1>2, <1>3, <1>4
  <2>2. ASSUME NEW i \in 1..Len(cache')
        PROVE  cache'[i] = woken'[Len(woken') - Len(cache') + i]
    <3>1. CASE i = Len(cache')
      <4>1. i = Len(cache') /\ cache'[i] = b
        BY <1>2, <3>1
      <4>2. Len(cache') \in Nat /\ Len(woken') = Len(woken) + 1
        BY <1>1, <1>2, <1>3
      <4>3. Len(woken') - Len(cache') + i = Len(woken) + 1
        BY <1>1, <4>1, <4>2
      <4> QED
        BY <1>1, <1>3, <4>1, <4>3
    <3>2. ASSUME i # Len(cache') PROVE cache'[i] = woken'[Len(woken') - Len(cache') + i]
      <4> DEFINE j == Len(cache) + 1 - Len(cache') + i
                 k == Len(woken') - Len(cache') + i
      <4>1. j \in 1..Len(cache)
        BY <1>1, <1>2, <3>2
      <4>0. cache'[i] = cache[j]
        BY <1>2, <3>2
      <4>3. Len(cache') \in Nat /\ Len(woken') \in Nat
        BY <1>1, <1>2, <1>3
      <4>2. k \in 1..Len(woken) /\ k = Len(woken) - Len(cache) + j
        BY <1>1, <1>2, <1>3, <2>1, <3>2
      <4>4. woken'[k] = woken[k]
        BY <1>1, <1>3, <4>2
      <4>5. cache[j] = woken[Len(woken) - Len(cache) + j]
        BY <1>4, <4>1
      <4> HIDE DEF j
      <4> QED
        BY <4>0, <4>2, <4>4, <4>5
    <3> QED
      BY <3>1, <3>2
  <2> QED
    BY <2>1, <2>2 DEF CacheIsLatest
<1>6. ReplaySuppressed'
  <2> SUFFICES ASSUME NEW i \in DOMAIN woken', NEW j \in DOMAIN woken', i < j, woken'[i] = woken'[j]
               PROVE  j - i > MaxKeys
    BY DEF ReplaySuppressed
  <2>1. i \in 1..Len(woken) /\ j \in 1..(Len(woken) + 1) /\ woken'[i] = woken[i]
    BY <1>1, <1>3
  <2>2. CASE j # Len(woken) + 1
    <3>0. DOMAIN woken = 1..Len(woken) /\ j \in 1..Len(woken)
      BY <1>1, <2>1, <2>2
    <3>1. j \in DOMAIN woken /\ i \in DOMAIN woken /\ woken[i] = woken[j]
      BY <1>3, <2>1, <2>2, <3>0
    <3> QED
      BY <3>1 DEF EventsInv, ReplaySuppressed
  <2>3. CASE j = Len(woken) + 1
    <3>1. woken[i] = b
      BY <1>3, <2>1, <2>3
    <3>2. ~(i > Len(woken) - Len(cache))
      <4> SUFFICES ASSUME i > Len(woken) - Len(cache) PROVE FALSE
        OBVIOUS
      <4> DEFINE k == i - (Len(woken) - Len(cache))
      <4>1. k \in 1..Len(cache) /\ i = Len(woken) - Len(cache) + k
        BY <1>1, <1>4, <2>1
      <4> HIDE DEF k
      <4>2. cache[k] = b /\ k \in DOMAIN cache
        BY <1>1, <1>4, <3>1, <4>1
      <4> QED
        BY <4>2 DEF remembered
    <3> QED
      BY <1>1, <1>4, <2>1, <2>3, <3>2
  <2> QED
    BY <2>2, <2>3
<1> QED
  BY <1>1, <1>2, <1>3, <1>5, <1>6

(* Every step keeps them. *)
LEMMA EventsInvStep == EventsInv /\ [EventsNext]_eventVars => EventsInv'
<1> SUFFICES ASSUME EventsInv, [EventsNext]_eventVars PROVE EventsInv'
  OBVIOUS
<1>1. CoverInv'
  BY CoverStep DEF EventsInv
<1>2. /\ EventsTypeOK /\ CoverInv
      /\ (cache' = cache /\ woken' = woken => CacheIsLatest' /\ ReplaySuppressed')
  BY DEF EventsInv, CacheIsLatest, ReplaySuppressed
<1> SUFFICES EventsTypeOK' /\ CacheIsLatest' /\ ReplaySuppressed'
  BY <1>1 DEF EventsInv
<1>3. ASSUME NEW swap \in BOOLEAN, NEW sent \in BOOLEAN, Mine(swap, sent)
      PROVE  EventsTypeOK' /\ CacheIsLatest' /\ ReplaySuppressed'
  <2>1. /\ head' = head + 1 /\ swaps \subseteq swaps' /\ swaps' \subseteq 1..(head + 1)
        /\ pipe' \subseteq swaps'
    BY <1>2, <1>3 DEF Mine, EventsTypeOK
  <2>2. cache \in Seq(swaps') /\ woken \in Seq(swaps')
    BY <1>2, <2>1, SeqOverMore DEF EventsTypeOK
  <2> QED
    BY <1>2, <1>3, <2>1, <2>2 DEF Mine, EventsTypeOK, source, reader
<1>4. ASSUME NEW b \in swaps, Replay(b) PROVE EventsTypeOK' /\ CacheIsLatest' /\ ReplaySuppressed'
  BY <1>2, <1>4 DEF Replay, EventsTypeOK, source, reader
<1>5. ASSUME NEW b \in swaps, HandleLogs(b) PROVE EventsTypeOK' /\ CacheIsLatest' /\ ReplaySuppressed'
  <2>1. CASE remembered(b)
    BY <1>2, <1>5, <2>1 DEF HandleLogs, EventsTypeOK, source, reader
  <2>2. CASE ~remembered(b)
    <3>1. /\ cache' = evicted(Append(cache, b)) /\ woken' = Append(woken, b)
          /\ cursor' = IF b > cursor THEN b ELSE cursor
          /\ overtaken' = overtaken \cup ((cursor + 1)..(b - 1))
          /\ status' = "SUBSCRIBED" /\ active' = active
          /\ UNCHANGED <<head, swaps, replays, reader>> /\ pipe' = pipe \ {b}
      BY <1>5, <2>2 DEF HandleLogs
    <3>2. /\ cache' \in Seq(swaps) /\ Len(cache') <= MaxKeys /\ woken' \in Seq(swaps)
          /\ CacheIsLatest' /\ ReplaySuppressed'
      BY <2>2, <3>1, ReplayStep
    <3>3. b \in 1..head /\ cursor' \in Nat /\ overtaken' \subseteq 1..head
      BY <1>2, <3>1 DEF EventsTypeOK
    <3> QED
      BY <1>2, <3>1, <3>2, <3>3 DEF EventsTypeOK, reader
  <2> QED
    BY <2>1, <2>2
<1>6. ASSUME NEW accepted \in BOOLEAN, Start(accepted)
      PROVE  EventsTypeOK' /\ CacheIsLatest' /\ ReplaySuppressed'
  BY <1>2, <1>6 DEF Start, EventsTypeOK, reader
<1>7. CASE HandleError
  BY <1>2, <1>7 DEF HandleError, EventsTypeOK, reader
<1>8. CASE PollStart
  BY <1>2, <1>8 DEF PollStart, EventsTypeOK, source
<1>9. ASSUME NEW h \in 0..head, PollHead(h) PROVE EventsTypeOK' /\ CacheIsLatest' /\ ReplaySuppressed'
  <2>1. /\ poll \in [phase : {"idle", "head", "logs"}, from : Nat, upTo : Nat] /\ h \in Nat
        /\ UNCHANGED <<head, swaps, pipe, replays, source, polled, skipped>>
    BY <1>2, <1>9 DEF PollHead, EventsTypeOK
  <2>2. poll' \in [phase : {"idle", "head", "logs"}, from : Nat, upTo : Nat] /\ cursor' \in Nat
    <3>1. CASE h <= poll.from
      BY <1>9, <2>1, <3>1 DEF PollHead, Idle
    <3>2. CASE ~(h <= poll.from)
      <4>1. poll' = [poll EXCEPT !.phase = "logs", !.upTo = h] /\ cursor' = cursor
        BY <1>9, <3>2 DEF PollHead
      <4> QED
        BY <1>2, <2>1, <4>1 DEF EventsTypeOK
    <3> QED
      BY <3>1, <3>2
  <2> QED
    BY <1>2, <2>1, <2>2 DEF EventsTypeOK, source
<1>10. CASE PollLogs
  <2> DEFINE before == scannedFrom(poll.from, poll.upTo)
  <2>1. poll.from \in Nat /\ poll.upTo \in Nat /\ poll.upTo <= head /\ head \in Nat
    BY <1>2, <1>10 DEF PollLogs, CoverInv
  <2>2. before \in Int /\ (before <= poll.upTo \/ before = poll.from + 1)
    BY <2>1, WindowAssumption DEF scannedFrom
  <2>3. /\ polled' = polled \cup {b \in swaps : before <= b /\ b <= poll.upTo}
        /\ skipped' = skipped \cup ((poll.from + 1)..(before - 1))
    BY <1>10 DEF PollLogs
  <2> HIDE DEF before
  <2>4. polled' \subseteq swaps /\ skipped' \subseteq 1..head
    <3>1. ASSUME NEW b \in (poll.from + 1)..(before - 1) PROVE b \in 1..head
      BY <2>1, <2>2, <3>1
    <3>2. polled \subseteq swaps /\ skipped \subseteq 1..head
      BY <1>2 DEF EventsTypeOK
    <3> QED
      BY <2>3, <3>1, <3>2
  <2> QED
    BY <1>2, <1>10, <2>1, <2>4 DEF PollLogs, EventsTypeOK, source, Idle
<1>11. CASE PollFail
  BY <1>2, <1>11 DEF PollFail, cursorAfterFailure, EventsTypeOK, source, Idle
<1>12. CASE UNCHANGED eventVars
  BY <1>2, <1>12 DEF eventVars, EventsTypeOK, source, reader
<1> QED
  BY <1>3, <1>4, <1>5, <1>6, <1>7, <1>8, <1>9, <1>10, <1>11, <1>12 DEF EventsNext

(* The initial states satisfy them. *)
LEMMA EventsInvInit == EventsInit => EventsInv
<1> SUFFICES ASSUME EventsInit PROVE EventsInv
  OBVIOUS
<1>1. cache = << >> /\ woken = << >> /\ Len(<< >>) = 0 /\ DOMAIN woken = {}
  BY DEF EventsInit
<1>2. CacheIsLatest /\ ReplaySuppressed
  BY <1>1, MaxKeysAssumption DEF CacheIsLatest, ReplaySuppressed
<1>3. cache \in Seq(swaps) /\ woken \in Seq(swaps) /\ Len(cache) <= MaxKeys
  BY <1>1, MaxKeysAssumption
<1>4. EventsTypeOK
  BY <1>3 DEF EventsInit, EventsTypeOK, Idle
<1> QED
  BY <1>2, <1>4, CoverInit DEF EventsInv

LEMMA EventsAlways == EventsSpec => []EventsInv
<1> QED
  BY EventsInvInit, EventsInvStep, PTL DEF EventsSpec

(* For any cache, window and lag: a swap wakes the watcher a second time only   *)
(* after more than MaxKeys others.                                              *)
THEOREM ReplayBounded == EventsSpec => []ReplaySuppressed
<1>1. EventsInv => ReplaySuppressed
  BY DEF EventsInv
<1> QED
  BY <1>1, EventsAlways, PTL

--------------------------------------------------------------------------------
(* The lock files.  The lock excludes as long as no file was taken over, and no *)
(* file is removed on the strength of a live holder's own pid.                 *)

(* The strengthening: before any takeover the file is that of whoever is       *)
(* acquiring or holding; a stale judgement is of nobody or of the dead.        *)
Acquiring == {"created", "held"}
FileIsTheirs ==
  (\A p \in Procs : ~took[p]) =>
    \A p \in Procs : /\ pc[p] \in Acquiring => file = p
                     /\ pc[p] # "unlinked"
JudgedDead == \A p \in Procs : pc[p] = "stale" => seen[p] = Nobody \/ pc[seen[p]] \in Ended

IInv == LockTypeOK /\ FileIsTheirs /\ JudgedDead

(* The initial states satisfy it. *)
LEMMA InitInv == ASSUME LockInit PROVE IInv
<1>1. LockTypeOK
  <2>1. written \in [Procs -> BOOLEAN] /\ took \in [Procs -> BOOLEAN]
    BY Zenon DEF LockInit
  <2> QED
    BY <2>1 DEF LockInit, LockTypeOK, PCs
<1>2. FileIsTheirs /\ JudgedDead
  BY DEF LockInit, FileIsTheirs, JudgedDead, Acquiring
<1> QED
  BY <1>1, <1>2 DEF IInv

(* Every step keeps it. *)
LEMMA StepInv == ASSUME IInv, [LockNext]_lockVars PROVE IInv'
<1> USE NobodyAssumption DEF IInv, LockTypeOK, PCs, Ended, Acquiring
<1>1. ASSUME NEW p \in Procs, Open(p) PROVE IInv'
  BY <1>1 DEF Open, exclusiveOpen, FileIsTheirs, JudgedDead
<1>2. ASSUME NEW p \in Procs, Inspect(p) PROVE IInv'
  <2>1. lockHolder \in Procs \cup {Nobody}
    BY DEF lockHolder
  <2>2. judgement \in {"stale", "refused"}
    BY DEF judgement
  <2>3. judgement = "stale" => lockHolder = Nobody \/ pc[lockHolder] \in Ended
    BY DEF judgement, processIsAlive
  <2>4. LockTypeOK' /\ FileIsTheirs'
    BY <1>2, <2>1, <2>2 DEF Inspect, FileIsTheirs
  <2>5. JudgedDead'
    BY <1>2, <2>1, <2>2, <2>3 DEF Inspect, JudgedDead
  <2> QED
    BY <2>4, <2>5
<1>3. ASSUME NEW p \in Procs, Unlink(p) PROVE IInv'
  <2>1. CASE file = Nobody
    <3>1. took' = took
      <4>1. took' = [took EXCEPT ![p] = took[p]]
        BY <1>3, <2>1 DEF Unlink
      <4> QED
        BY <4>1
    <3> QED
      BY <1>3, <2>1, <3>1 DEF Unlink, FileIsTheirs, JudgedDead
  <2>2. CASE file # Nobody
    <3>1. took' = [took EXCEPT ![p] = TRUE]
      BY <1>3, <2>2 DEF Unlink
    <3>2. took' \in [Procs -> BOOLEAN] /\ took'[p]
      BY <3>1
    <3>3. FileIsTheirs'
      BY <3>2 DEF FileIsTheirs
    <3> QED
      BY <1>3, <2>2, <3>2, <3>3 DEF Unlink, JudgedDead
  <2> QED
    BY <2>1, <2>2
<1>4. ASSUME NEW p \in Procs, Reopen(p) PROVE IInv'
  BY <1>4 DEF Reopen, exclusiveOpen, FileIsTheirs, JudgedDead
<1>5. ASSUME NEW p \in Procs, WritePid(p) PROVE IInv'
  BY <1>5 DEF WritePid, FileIsTheirs, JudgedDead
<1>6. ASSUME NEW p \in Procs, Release(p) PROVE IInv'
  BY <1>6 DEF Release, FileIsTheirs, JudgedDead
<1>7. ASSUME NEW p \in Procs, Crash(p) PROVE IInv'
  BY <1>7 DEF Crash, FileIsTheirs, JudgedDead
<1>8. CASE UNCHANGED lockVars
  BY <1>8 DEF lockVars, FileIsTheirs, JudgedDead
<1> QED
  BY <1>1, <1>2, <1>3, <1>4, <1>5, <1>6, <1>7, <1>8 DEF LockNext, Acquire

(* The inductive invariant holds in every reachable state. *)
THEOREM LockInvariant == LockSpec => []IInv
  BY InitInv, StepInv, PTL DEF LockSpec

(* While nobody has taken a file over, at most one process holds the lock.     *)
THEOREM Exclusion == LockSpec => []ExclusiveWithoutTakeover
<1>1. IInv => ExclusiveWithoutTakeover
  BY DEF IInv, FileIsTheirs, Acquiring, ExclusiveWithoutTakeover, MutualExclusion, Holds
<1> QED
  BY <1>1, LockInvariant, PTL

(* A live holder's file is never removed by a process that examined that file  *)
(* with its pid in it.                                                         *)
THEOREM OnlyTheDeadRemoved == LockSpec => RemovesOnlyTheDead
<1> DEFINE Removal == \A p \in Procs :
      (pc[p] = "stale" /\ pc'[p] = "unlinked" /\ processIsAlive(lockHolder)) => seen[p] # file
<1>1. IInv => Removal
  BY NobodyAssumption DEF IInv, JudgedDead, processIsAlive, lockHolder
<1> QED
  BY <1>1, LockInvariant, PTL DEF RemovesOnlyTheDead

(* Both of them, as one property of the lock. *)
THEOREM Disciplined == LockSpec => LockDiscipline
  BY Exclusion, OnlyTheDeadRemoved, PTL DEF LockDiscipline

--------------------------------------------------------------------------------
(* A behaviour of Wakes is one of each part, and so has what each part has. *)

(* The parts, of which two stand still. *)
LEMMA PartsStep ==
  [WakesNext]_wakeVars => [Next]_vars /\ [EventsNext]_eventVars /\ [LockNext]_lockVars
  BY DEF WakesNext, SearchStep, EventsStep, LockStep, wakeVars

LEMMA PartsInit == WakesInit => Init /\ EventsInit /\ LockInit
  BY DEF WakesInit

(* For any constants: every variable of every part keeps its type, the limit of *)
(* the kept answers and the bound of the dedupe cache included.                 *)
THEOREM WakesTyped == WakesSpec => []WakesTypeOK
<1>1. SearchTypes /\ EventsInv /\ IInv => WakesTypeOK
  BY DEF WakesTypeOK, SearchTypes, EventsInv, IInv
<1>2. WakesInit => SearchTypes /\ EventsInv /\ IInv
  BY PartsInit, SearchTypeInit, EventsInvInit, InitInv
<1>3. SearchTypes /\ EventsInv /\ IInv /\ [WakesNext]_wakeVars => SearchTypes' /\ EventsInv' /\ IInv'
  BY PartsStep, SearchTypeStep, EventsInvStep, StepInv
<1> QED
  BY <1>1, <1>2, <1>3, PTL DEF WakesSpec

(* For any constants: the safety of the three parts holds of Wakes.             *)
THEOREM WakesSafe ==
  WakesSpec => [](NothingForgotten /\ WorkerFenced /\ BackstopCovers /\ ReplaySuppressed) /\ LockDiscipline
<1>1. WakesSpec => Spec /\ EventsSpec /\ LockSpec
  BY PartsInit, PartsStep, PTL DEF WakesSpec, Spec, EventsSpec, LockSpec
<1> QED
  BY <1>1, NoneForgotten, FencedAlone, Backstop, ReplayBounded, Disciplined, PTL

================================================================================
