------------------------------- MODULE FixedLane -------------------------------
(* The fixed-route program: its watcher and the operator's commands (deploy,   *)
(* execute, withdraw, recover, reconcile, arm, disarm) are separate processes  *)
(* over one wallet.  They share wallet.lock, the audit, the deployment state   *)
(* and the watch arm.  A reader of the chain sees every mined block (how a     *)
(* lagging reader is judged is the subject of ReconciliationReads).            *)
EXTENDS Naturals, Sequences, FiniteSets

CONSTANTS
  MaxTx,          \* bound: transactions ever signed
  MaxArms,        \* bound: authorizations ever issued
  MaxBlock,       \* bound: blocks with an event of the watched pools
  MaxCrash,       \* bound: processes killed
  MaxAttempts,    \* the arm's maxAttempts
  MaxExecutions,  \* the arm's maxConfirmedExecutions
  MaxErrors       \* WATCH_MAX_CONSECUTIVE_RPC_ERRORS

VARIABLES
  txs,      \* the mutations of the audit, in order, and what the chain did with them
  state,    \* the deployment state file: status and the executions it lists
  arm,      \* the watch arm file, its baselines, and what was recorded since it
  arming,   \* the arm command between its reads and its write
  jobs,     \* jobs[p]: how far process p is in a command under wallet.lock
  watch,    \* the watcher: program counter, status it wrote, loop variables
  queue,    \* its EventRevisionQueue: pending block and the retries it has seen
  tip,      \* the last block with a pool event
  kills

laneVars == <<txs, state, arm, arming, jobs, watch, queue, tip, kills>>

Procs == {"watch", "cli"}
Open == {i \in DOMAIN txs : txs[i].audit = "signed"}
MinedCount == Cardinality({i \in DOMAIN txs : txs[i].chain # "none"})

(* No transaction of ours waits in the pool. *)
NonceClean == \A i \in DOMAIN txs : txs[i].sent => txs[i].chain # "none"

NoJob == [pc |-> "idle", kind |-> "none", nonce |-> 0, tx |-> 0]
NoWatch == [pc |-> "off", status |-> "none", errors |-> 0, last |-> 0, target |-> 0,
            stop |-> FALSE, arm |-> 0]
NoArming == [busy |-> FALSE, nonce |-> 0, count |-> 0]

LaneInit ==
  /\ txs = << >>
  /\ state = [status |-> "none", executions |-> << >>]
  /\ arm = [status |-> "none", id |-> 0, nonce |-> 0, count |-> 0, attempts |-> 0, failed |-> 0]
  /\ arming = NoArming
  /\ jobs = [p \in Procs |-> NoJob]
  /\ watch = NoWatch
  /\ queue = [pending |-> 0, seen |-> {}]
  /\ tip = 1 /\ kills = 0

--------------------------------------------------------------------------------
(* The chain *)

(* A transaction is mined in nonce order; a deployment or a withdrawal may     *)
(* revert like an execution.                                                   *)
MineTx(i, result) ==
  /\ txs[i].sent /\ txs[i].chain = "none" /\ txs[i].nonce = MinedCount
  /\ txs' = [txs EXCEPT ![i].chain = result]
  /\ UNCHANGED <<state, arm, arming, jobs, watch, queue, tip, kills>>

(* EventRevisionQueue.offer: an identity seen before is dropped, others are    *)
(* merged into one pending revision that keeps the highest block.              *)
higher(a, b) == IF a > b THEN a ELSE b
offered(q, b) == [q EXCEPT !.pending = higher(q.pending, b)]

(* Mutant: a retry is known by its number alone. *)
offerNumbered(q, b, n) ==
  IF \E s \in q.seen : s[2] = n THEN q
  ELSE [offered(q, b) EXCEPT !.seen = @ \cup {<<b, n>>}]

offerRetry(q, b, n) ==
  IF <<b, n>> \in q.seen THEN q
  ELSE [offered(q, b) EXCEPT !.seen = @ \cup {<<b, n>>}]

(* A block with a swap of a watched pool; its WSS event arrives or is lost.    *)
PoolEvent ==
  /\ tip < MaxBlock
  /\ tip' = tip + 1
  /\ queue' \in IF watch.pc = "off" THEN {queue} ELSE {queue, offered(queue, tip + 1)}
  /\ UNCHANGED <<txs, state, arm, arming, jobs, watch, kills>>

--------------------------------------------------------------------------------
(* Commands under wallet.lock *)

LockFree == \A p \in Procs : jobs[p].pc = "idle"

(* What the three mutations need: no unresolved mutation, their deployment     *)
(* state, and a clean nonce.  Neither the arm nor the state's status is read.  *)
deployPreflight == Open = {} /\ state.status = "none" /\ NonceClean
executionPreflight == Open = {} /\ state.status # "none" /\ NonceClean
withdrawable == Open = {} /\ state.status # "none" /\ NonceClean

(* Mutant: an execution looks at the nonce only. *)
nonceOnlyPreflight(kind) ==
  (kind = "deploy") = (state.status = "none") /\ NonceClean

preflight(kind) ==
  CASE kind = "deploy"  -> deployPreflight
    [] kind = "execute" -> executionPreflight
    [] OTHER            -> withdrawable

Preflight(p, kind) ==
  /\ LockFree
  /\ p = "watch" => kind = "execute"
  /\ preflight(kind)
  /\ jobs' = [jobs EXCEPT ![p] = [pc |-> "checked", kind |-> kind, nonce |-> MinedCount, tx |-> 0]]
  /\ UNCHANGED <<txs, state, arm, arming, watch, queue, tip, kills>>

(* Execute and deploy read the nonce again. *)
sameNonce(j) == j.kind # "withdraw" => j.nonce = MinedCount /\ NonceClean

(* The plan, the raw on disk and mutation_signed.  An execution carries the    *)
(* arm's id if it still says ARMED.                                            *)
SignAndRecord(p) ==
  LET j == jobs[p] IN
  /\ j.pc = "checked" /\ Len(txs) < MaxTx
  /\ sameNonce(j)
  /\ txs' = Append(txs, [kind |-> j.kind, nonce |-> j.nonce, audit |-> "signed", by |-> p,
                         under |-> IF p = "watch" THEN watch.arm ELSE 0,
                         late |-> p = "watch" /\ arm.status # "ARMED",
                         sent |-> FALSE, chain |-> "none", notes |-> {}])
  /\ arm' = [arm EXCEPT !.attempts = @ + (IF j.kind = "execute" THEN 1 ELSE 0)]
  /\ jobs' = [jobs EXCEPT ![p].pc = "signed", ![p].tx = Len(txs) + 1]
  /\ UNCHANGED <<state, arming, watch, queue, tip, kills>>

(* A deployment can be recovered only after a note of acceptance. *)
noted(i, note) == IF txs[i].kind = "deploy" THEN note ELSE {}

(* Accepted, accepted with the answer lost, or refused: the command only notes *)
(* which.                                                                      *)
Broadcast(p) ==
  /\ jobs[p].pc = "signed"
  /\ \E reached \in BOOLEAN, note \in {{}, {"accepted"}} :
       /\ note # {} => reached
       /\ txs' = [txs EXCEPT ![jobs[p].tx].sent = reached, ![jobs[p].tx].notes = noted(jobs[p].tx, note)]
  /\ jobs' = [jobs EXCEPT ![p].pc = "sent"]
  /\ UNCHANGED <<state, arm, arming, watch, queue, tip, kills>>

(* Mutant: an execution found listed is listed again. *)
appendExecution(s, i) == [status |-> "live_validated", executions |-> Append(s.executions, i)]

addExecution(s, i) ==
  [status |-> "live_validated",
   executions |-> IF \E k \in DOMAIN s.executions : s.executions[k] = i
                  THEN s.executions ELSE Append(s.executions, i)]

deployed == [status |-> "deployed", executions |-> << >>]
withdrawn(s) == [s EXCEPT !.status = "withdrawn"]

(* What a success writes to the state file. *)
settledState(s, i) ==
  CASE txs[i].kind = "execute"  -> addExecution(s, i)
    [] txs[i].kind = "withdraw" -> withdrawn(s)
    [] OTHER                    -> deployed

(* Mutant: a mined transaction is a success. *)
WriteMined(p) ==
  LET i == jobs[p].tx IN
  /\ jobs[p].pc = "sent" /\ txs[i].chain # "none"
  /\ state' = settledState(state, i)
  /\ jobs' = [jobs EXCEPT ![p].pc = "effect"]
  /\ UNCHANGED <<txs, arm, arming, watch, queue, tip, kills>>

(* The receipt is a success and balances and nonce agree: the state file first. *)
WriteSuccess(p) ==
  LET i == jobs[p].tx IN
  /\ jobs[p].pc = "sent" /\ txs[i].chain = "success"
  /\ state' = settledState(state, i)
  /\ jobs' = [jobs EXCEPT ![p].pc = "effect"]
  /\ UNCHANGED <<txs, arm, arming, watch, queue, tip, kills>>

(* mutation_effect, or deployment_recovered, and the lock is released. *)
AppendEffect(p) ==
  /\ jobs[p].pc = "effect"
  /\ txs' = [txs EXCEPT ![jobs[p].tx].audit = "effect"]
  /\ jobs' = [jobs EXCEPT ![p].pc = "done"]
  /\ UNCHANGED <<state, arm, arming, watch, queue, tip, kills>>

(* A reverted execution halts the lane before it is written to the audit; a    *)
(* reverted deployment or withdrawal leaves the state file alone.              *)
WriteRevert(p) ==
  LET i == jobs[p].tx IN
  /\ jobs[p].pc = "sent" /\ txs[i].chain = "reverted"
  /\ state' = IF txs[i].kind = "execute" THEN [state EXCEPT !.status = "halted_after_revert"] ELSE state
  /\ jobs' = [jobs EXCEPT ![p].pc = "revert"]
  /\ UNCHANGED <<txs, arm, arming, watch, queue, tip, kills>>

appendReverted(i) ==
  /\ txs' = [txs EXCEPT ![i].audit = "reverted"]
  /\ arm' = [arm EXCEPT !.failed = @ + (IF txs[i].kind = "execute" THEN 1 ELSE 0)]

AppendRevert(p) ==
  /\ jobs[p].pc = "revert"
  /\ appendReverted(jobs[p].tx)
  /\ jobs' = [jobs EXCEPT ![p].pc = "invariant"]
  /\ UNCHANGED <<state, arming, watch, queue, tip, kills>>

(* The command throws: no shot, a transient RPC error, or a violated check.    *)
(* After the signature it throws because the receipt is not seen in 120 s or   *)
(* because balances or nonce disagree with it; the mutation stays open.        *)
CommandFails(p, error) ==
  /\ jobs[p].pc \in {"checked", "sent"}
  /\ (jobs[p].pc = "sent" \/ p = "cli") => error = "invariant"
  /\ jobs' = [jobs EXCEPT ![p].pc = error]
  /\ UNCHANGED <<txs, state, arm, arming, watch, queue, tip, kills>>

CliEnds ==
  /\ jobs["cli"].pc \in {"done", "noshot", "transient", "invariant"}
  /\ jobs' = [jobs EXCEPT !["cli"] = NoJob]
  /\ UNCHANGED <<txs, state, arm, arming, watch, queue, tip, kills>>

(* deploy:recover rebuilds the state file from the last noted deployment if it  *)
(* succeeded.  deployment_recovered, which closes the mutation, is the append   *)
(* that follows; a command killed before it leaves the mutation open, and a     *)
(* reconciler writes the state file again.                                      *)
RecoverDeployment ==
  /\ LockFree /\ state.status = "none"
  /\ \E i \in DOMAIN txs :
       /\ txs[i].kind = "deploy" /\ "accepted" \in txs[i].notes /\ txs[i].chain = "success"
       /\ NonceClean /\ MinedCount = txs[i].nonce + 1
       /\ \A k \in DOMAIN txs : k > i => txs[k].kind # "deploy" \/ "accepted" \notin txs[k].notes
       /\ jobs' = [jobs EXCEPT !["cli"] = [pc |-> "effect", kind |-> "recover", nonce |-> 0, tx |-> i]]
  /\ state' = deployed
  /\ UNCHANGED <<txs, arm, arming, watch, queue, tip, kills>>

--------------------------------------------------------------------------------
(* Reconciling the open mutation *)

Reconcile(next) ==
  /\ LockFree /\ Open # {}
  /\ jobs' = [jobs EXCEPT !["cli"] = [pc |-> next, kind |-> "reconcile", nonce |-> 0,
                                      tx |-> CHOOSE i \in Open : TRUE]]

(* finalizeReconciledSuccess, whose balance checks may refuse, then the effect. *)
ReconcileSuccess ==
  /\ Reconcile("effect")
  /\ LET i == jobs'["cli"].tx IN
     /\ txs[i].chain = "success"
     /\ txs[i].kind # "deploy" => state.status # "none"
     /\ state' = settledState(state, i)
  /\ UNCHANGED <<txs, arm, arming, watch, queue, tip, kills>>

(* A revert found by the reconciler: the audit first, then any lane is halted. *)
ReconcileRevert ==
  /\ Reconcile("halt")
  /\ LET i == jobs'["cli"].tx IN txs[i].chain = "reverted" /\ appendReverted(i)
  /\ UNCHANGED <<state, arming, watch, queue, tip, kills>>

ReconcileHalt ==
  /\ jobs["cli"].pc = "halt"
  /\ state' = IF state.status = "none" THEN state ELSE [state EXCEPT !.status = "halted_after_revert"]
  /\ jobs' = [jobs EXCEPT !["cli"].pc = "done"]
  /\ UNCHANGED <<txs, arm, arming, watch, queue, tip, kills>>

(* --rebroadcast-same-raw: nothing of it was observed.  No new signature. *)
RebroadcastSameRaw ==
  /\ LockFree
  /\ \E i \in Open : ~txs[i].sent /\ txs' = [txs EXCEPT ![i].sent = TRUE]
  /\ UNCHANGED <<state, arm, arming, jobs, watch, queue, tip, kills>>

--------------------------------------------------------------------------------
(* Arming and disarming *)

WatchLockFree == watch.pc = "off" /\ ~arming.busy

(* armWatcher holds watch.lock, not wallet.lock, and awaits between its reads  *)
(* and its write.                                                              *)
ArmRead ==
  /\ WatchLockFree /\ arm.id < MaxArms
  /\ Open = {} /\ NonceClean /\ state.status # "none"
  /\ arming' = [busy |-> TRUE, nonce |-> MinedCount, count |-> Len(state.executions)]
  /\ UNCHANGED <<txs, state, arm, jobs, watch, queue, tip, kills>>

ArmWrite ==
  /\ arming.busy
  /\ arm' = [status |-> "ARMED", id |-> arm.id + 1, nonce |-> arming.nonce, count |-> arming.count,
             attempts |-> 0, failed |-> 0]
  /\ arming' = NoArming
  /\ UNCHANGED watch
  /\ UNCHANGED <<txs, state, jobs, queue, tip, kills>>

(* disarm takes no lock; it signals the watcher. *)
Disarm ==
  /\ arm.status = "ARMED"
  /\ arm' = [arm EXCEPT !.status = "DISARMED"]
  /\ watch' = [watch EXCEPT !.stop = watch.pc # "off"]
  /\ UNCHANGED <<txs, state, arming, jobs, queue, tip, kills>>

(* The 24 hours of the arm pass. *)
Expire ==
  /\ arm.status = "ARMED"
  /\ arm' = [arm EXCEPT !.status = "EXPIRED"]
  /\ UNCHANGED <<txs, state, arming, jobs, watch, queue, tip, kills>>

--------------------------------------------------------------------------------
(* The watcher *)

completed == Len(state.executions) - arm.count

(* The failed-gas cap is worth one revert here. *)
assertWatchArm ==
  /\ arm.status = "ARMED"
  /\ completed < MaxExecutions /\ arm.attempts < MaxAttempts /\ arm.failed < 1
  /\ state.status \in {"deployed", "live_validated"}

nonceAgrees == NonceClean /\ MinedCount = arm.nonce + completed

stops(status) == watch' = NoWatch

(* Startup: policy, barrier and nonce, else HALTED_*; a first revision. *)
WatchStart ==
  /\ WatchLockFree
  /\ IF assertWatchArm /\ Open = {} /\ nonceAgrees
     THEN /\ watch' = [NoWatch EXCEPT !.pc = "loop", !.arm = arm.id]
          /\ queue' = [pending |-> tip, seen |-> {}]
     ELSE /\ stops(IF Open # {} THEN "HALTED_UNKNOWN" ELSE "HALTED_STARTUP")
          /\ UNCHANGED queue
  /\ UNCHANGED <<txs, state, arm, arming, jobs, tip, kills>>

(* The loop's top: a signal, the arm and its budgets, the barrier; else wait.  *)
WatchLoop ==
  /\ watch.pc = "loop"
  /\ IF watch.stop THEN stops("STOPPED_BY_SIGNAL")
     ELSE IF ~assertWatchArm THEN stops("STOPPED_POLICY")
     ELSE IF Open # {} THEN stops("HALTED_UNKNOWN")
     ELSE watch' = [watch EXCEPT !.pc = "wait"]
  /\ UNCHANGED <<txs, state, arm, arming, jobs, queue, tip, kills>>

(* A revision, or after 30 s the head; a block not above the last one quoted   *)
(* is skipped.                                                                 *)
WatchTarget ==
  /\ watch.pc = "wait"
  /\ LET block == IF queue.pending # 0 THEN queue.pending ELSE tip IN
     watch' = IF block <= watch.last THEN [watch EXCEPT !.pc = "loop", !.target = 0]
              ELSE [watch EXCEPT !.pc = "quote", !.target = block]
  /\ queue' = [queue EXCEPT !.pending = 0]
  /\ UNCHANGED <<txs, state, arm, arming, jobs, tip, kills>>

(* awaitReadableBlock and quoteGrid succeed. *)
WatchQuote(candidate) ==
  /\ watch.pc = "quote"
  /\ watch' = [watch EXCEPT !.pc = IF candidate THEN "execute" ELSE "heartbeat",
                            !.errors = 0, !.last = watch.target, !.target = 0]
  /\ UNCHANGED <<txs, state, arm, arming, jobs, queue, tip, kills>>

(* The watcher's own execute ended: confirmed or evaporated, it goes on; an    *)
(* open mutation or a violated check stops it.  (It begins with Preflight.)    *)
WatchExecuted ==
  /\ watch.pc = "execute" /\ jobs["watch"].pc \in {"done", "noshot", "invariant"}
  /\ IF Open # {} /\ jobs["watch"].pc # "done" THEN stops("HALTED_UNKNOWN")
     ELSE IF jobs["watch"].pc = "invariant" THEN stops("HALTED_INVARIANT")
     ELSE watch' = [watch EXCEPT !.pc = "heartbeat"]
  /\ jobs' = [jobs EXCEPT !["watch"] = NoJob]
  /\ UNCHANGED <<txs, state, arm, arming, queue, tip, kills>>

(* wallet.lock is held, or the preflight finds the barrier or the nonce dirty. *)
WatchRefused ==
  /\ watch.pc = "execute" /\ jobs["watch"].pc = "idle"
  /\ ~LockFree \/ Open # {} \/ ~NonceClean
  /\ stops(IF Open # {} THEN "HALTED_UNKNOWN" ELSE "HALTED_INVARIANT")
  /\ UNCHANGED <<txs, state, arm, arming, jobs, queue, tip, kills>>

(* Every 60 s the nonce is compared with the executions the state lists. *)
WatchHeartbeat(due) ==
  /\ watch.pc = "heartbeat"
  /\ IF due /\ ~nonceAgrees THEN stops("HALTED_NONCE_CONFLICT")
     ELSE watch' = [watch EXCEPT !.pc = "loop"]
  /\ UNCHANGED <<txs, state, arm, arming, jobs, queue, tip, kills>>

(* Mutant: the last error is counted one too late. *)
tooMany(errors) == errors > MaxErrors

errorsExhausted(errors) == errors >= MaxErrors

(* A read fails while waiting, quoting or in the heartbeat, or the execution   *)
(* ended in a transient error: the ladder of the loop's catch.                 *)
WatchError(transient) ==
  /\ \/ watch.pc \in {"quote", "heartbeat"}
     \/ watch.pc = "wait" /\ queue.pending = 0
     \/ watch.pc = "execute" /\ jobs["watch"].pc = "transient" /\ transient
  /\ jobs' = [jobs EXCEPT !["watch"] = NoJob]
  /\ IF Open # {} THEN stops("HALTED_UNKNOWN") /\ UNCHANGED queue
     ELSE IF ~transient THEN stops("HALTED_INVARIANT") /\ UNCHANGED queue
     ELSE IF errorsExhausted(watch.errors + 1) THEN stops("HALTED_RPC") /\ UNCHANGED queue
     ELSE /\ watch' = [watch EXCEPT !.pc = "backoff", !.errors = @ + 1]
          /\ UNCHANGED queue
  /\ UNCHANGED <<txs, state, arm, arming, tip, kills>>

(* The failed block, or the head when there was none, is offered again; when   *)
(* reading that head fails too the watcher ends.                               *)
WatchRetry ==
  /\ watch.pc = "backoff"
  /\ LET block == IF watch.target # 0 THEN watch.target ELSE tip IN
     \/ /\ queue' = offerRetry(queue, block, watch.errors)
        /\ watch' = [watch EXCEPT !.pc = "loop"]
     \/ /\ watch.target = 0
        /\ stops(IF Open # {} THEN "HALTED_UNKNOWN" ELSE "HALTED_STARTUP")
        /\ UNCHANGED queue
  /\ UNCHANGED <<txs, state, arm, arming, jobs, tip, kills>>

(* A process is killed: its locks go stale and are taken over. *)
Kill(p) ==
  /\ kills < MaxCrash
  /\ kills' = kills + 1
  /\ jobs' = [jobs EXCEPT ![p] = NoJob]
  /\ IF p = "watch" THEN watch.pc # "off" /\ watch' = NoWatch ELSE UNCHANGED watch
  /\ IF p = "cli" THEN (jobs["cli"].pc # "idle" \/ arming.busy) /\ arming' = NoArming ELSE UNCHANGED arming
  /\ UNCHANGED <<txs, state, arm, queue, tip>>

LaneNext ==
  \/ \E i \in DOMAIN txs, result \in {"success", "reverted"} : MineTx(i, result)
  \/ PoolEvent
  \/ watch.pc = "execute" /\ jobs["watch"].pc = "idle" /\ Preflight("watch", "execute")
  \/ \E kind \in {"deploy", "execute", "withdraw"} : Preflight("cli", kind)
  \/ \E p \in Procs : \/ SignAndRecord(p) \/ Broadcast(p) \/ WriteSuccess(p) \/ AppendEffect(p)
                      \/ WriteRevert(p) \/ AppendRevert(p) \/ Kill(p)
                      \/ \E error \in {"noshot", "transient", "invariant"} : CommandFails(p, error)
  \/ CliEnds \/ RecoverDeployment
  \/ ReconcileSuccess \/ ReconcileRevert \/ ReconcileHalt \/ RebroadcastSameRaw
  \/ ArmRead \/ ArmWrite \/ Disarm \/ Expire
  \/ WatchStart \/ WatchLoop \/ WatchTarget \/ WatchExecuted \/ WatchRefused \/ WatchRetry
  \/ \E b \in BOOLEAN : WatchQuote(b) \/ WatchHeartbeat(b) \/ WatchError(b)

LaneSpec == LaneInit /\ [][LaneNext]_laneVars

--------------------------------------------------------------------------------
(* Properties *)

LaneTypeOK ==
  /\ \A i \in DOMAIN txs : /\ txs[i].audit \in {"signed", "effect", "reverted"}
                           /\ txs[i].chain \in {"none", "success", "reverted"}
  /\ watch.pc \in {"off", "loop", "wait", "quote", "execute", "heartbeat", "backoff"}
  /\ watch.errors < MaxErrors

(* Whatever the watcher, the commands, crashes and lost broadcasts do, the i-th *)
(* signed transaction carries the i-th nonce: none is reused, none is skipped,  *)
(* and at most the last one is open.                                            *)
NoncesConsecutive ==
  \A i \in DOMAIN txs : /\ txs[i].nonce = i - 1
                        /\ txs[i].audit = "signed" => i = Len(txs)

(* A closed mutation is closed as the chain closed it, and the executions the   *)
(* state file lists are the successful ones, each once: every closed one and at *)
(* most the open one, across a crash between the state file and the audit.  Nor *)
(* does a deployment close before the state file has it, recovered or not.      *)
ExecutionsMatchChain ==
  LET listed == state.executions IN
  /\ \A i \in DOMAIN txs : txs[i].audit \in {"effect", "reverted"} =>
       txs[i].chain = (IF txs[i].audit = "effect" THEN "success" ELSE "reverted")
  /\ \A k, m \in DOMAIN listed : listed[k] = listed[m] => k = m
  /\ \A k \in DOMAIN listed : txs[listed[k]].chain = "success" /\ txs[listed[k]].kind = "execute"
  /\ \A i \in DOMAIN txs : (txs[i].kind = "execute" /\ txs[i].audit = "effect") =>
       \E k \in DOMAIN listed : listed[k] = i
  /\ state.status = "none" => \A i \in DOMAIN txs : txs[i].audit # "effect"

SignedByWatch(a) == {i \in DOMAIN txs : txs[i].by = "watch" /\ txs[i].under = a}

(* After an execution the watcher signed reverts, it signs nothing more under   *)
(* that arm: the status stops it, and when a crash or a manual success undid    *)
(* the status, the nonce no longer agrees with the listed executions.           *)
RevertEndsArm ==
  \A a \in 1 .. MaxArms : \A i, j \in SignedByWatch(a) : i < j => txs[i].chain # "reverted"

(* The watcher checks the arm at the loop's top, waits up to 30 s and signs     *)
(* without reading it again: a disarm or the expiry lets at most one more       *)
(* signature through, and the budget of attempts is never exceeded.             *)
AtMostOneLateSignature ==
  \A a \in 1 .. MaxArms :
    /\ Cardinality({i \in SignedByWatch(a) : txs[i].late}) <= 1
    /\ Cardinality(SignedByWatch(a)) <= MaxAttempts

(* A block whose quote failed is quoted later, or a higher one is pending: the  *)
(* queue's memory of identities never swallows the retry.                       *)
RetryKept ==
  (watch.pc = "loop" /\ watch.target # 0) => queue.pending >= watch.target
================================================================================
