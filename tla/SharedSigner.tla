----------------------------- MODULE SharedSigner -----------------------------
(* One wallet, one nonce lane, several programs that sign with it: the         *)
(* resident watcher (board lane, in its own process), the Earn and Global      *)
(* children it spawns, and the operator's commands (execute, deploy, withdraw, *)
(* reconcile, arm, disarm).  They share wallet.lock, the dual-watch lock, the  *)
(* append-only audit, the execution ledgers, the arm file and the revocation   *)
(* marker; the chain mines what they send, or does not.                        *)
EXTENDS Reconciliation

CONSTANTS
  Lanes,      \* the signing lanes in play, a subset of AllLanes
  MaxRaw,     \* bound: raw transactions ever signed
  MaxHead,    \* bound: chain height
  MaxArms,    \* bound: authorizations ever created
  MaxCrash,   \* bound: process crashes
  MaxReorg,   \* bound: blocks replaced by the sequencer
  Window,     \* blocks between the quoted block and the signed deadline
  Finality,   \* finalityConfirmations
  Lag,        \* how far behind the head a reader's block may be
  Skew,       \* how far behind its own block a reader's state may be
  MaxFailed   \* reverts that exhaust the failed-gas breaker

AllLanes == {"board", "earn", "global", "maint"}

ASSUME LanesAssumption == Lanes \subseteq AllLanes
ASSUME BoundsAssumption ==
  /\ MaxRaw \in Nat /\ MaxHead \in Nat /\ MaxArms \in Nat
  /\ MaxCrash \in Nat /\ MaxReorg \in Nat /\ Window \in Nat
ASSUME PolicyAssumption == Finality \in Nat \ {0} /\ Lag \in Nat /\ Skew \in Nat /\ MaxFailed \in Nat

Raws == 1 .. MaxRaw
Arms == 1 .. MaxArms
Heights == 0 .. MaxHead
Sources == 1 .. 2                  \* primary and secondary reader

VARIABLES
  head,       \* latest block
  block,      \* block[r]: the block r is mined in, 0 when it is not
  failed,     \* failed[r]: r is mined and its receipt is a revert
  sent,       \* sent[r]: who put r on the wire: "no", "signer" or "operator"
  reorgs,
  count,      \* raws persisted so far
  raw,        \* raw[r]: lane, authorization (0: none), nonce, deadline, late
  journal,    \* journal[r]: the last lifecycle event of r in the shared audit
  local,      \* local[r]: the same in the Earn process's own audit
  ledger,     \* raws recorded as executions in the deployment ledgers
  halted,     \* a ledger's status is halted_wallet_delta_mismatch
  arm,        \* the arm file: authorization id and whether it says ARMED
  arms,       \* authorizations created so far
  revoked,    \* the authorization named by the revocation marker, 0 for none
  base,       \* base[a]: wallet nonce and ledger when a was armed
  disarm,     \* the disarm command under way
  watching,   \* the watcher holds the dual-watch lock and runs its loop
  stop,       \* the watcher was asked to stop
  child,      \* the child the watcher spawned, before it has wallet.lock
  job,        \* the holder of wallet.lock
  crashes

chainVars == <<head, block, failed, sent, reorgs>>
auditVars == <<count, raw, journal, local, ledger, halted>>
armVars == <<arm, arms, revoked, base, disarm>>
watchVars == <<watching, stop, child>>
vars == <<chainVars, auditVars, armVars, watchVars, job, crashes>>

NoRaw == [lane |-> "board", auth |-> 0, nonce |-> 0, deadline |-> 0, late |-> FALSE]
NoChild == [lane |-> "none", auth |-> 0]
NoDisarm == [id |-> 0, step |-> "none"]
Idle == [pc |-> "idle", kind |-> "none", proc |-> "none", lane |-> "none", auth |-> 0,
         raw |-> 0, nonce |-> 0, deadline |-> 0]

Init ==
  /\ head = 0 /\ reorgs = 0 /\ count = 0 /\ crashes = 0
  /\ block = [r \in Raws |-> 0]
  /\ failed = [r \in Raws |-> FALSE]
  /\ sent = [r \in Raws |-> "no"]
  /\ raw = [r \in Raws |-> NoRaw]
  /\ journal = [r \in Raws |-> "none"]
  /\ local = [r \in Raws |-> "none"]
  /\ ledger = {} /\ halted = FALSE
  /\ arm = [id |-> 0, armed |-> FALSE] /\ arms = 0 /\ revoked = 0
  /\ base = [a \in Arms |-> [nonce |-> 0, ledger |-> {}]]
  /\ disarm = NoDisarm
  /\ watching = FALSE /\ stop = FALSE /\ child = NoChild
  /\ job = Idle

-------------------------------------------------------------------------------
(* What the readers see of the chain *)

NonceAt(h) == Cardinality({r \in Raws : block[r] # 0 /\ block[r] <= h})

Recent(h, behind) == {x \in Heights : x <= h /\ x + behind >= h}

(* A reader's latest nonce.  The code also requires its pending nonce to be    *)
(* the same, which tells nothing of a transaction the reader has not received. *)
SeesNonce(n) == \E h \in Recent(head, Lag) : NonceAt(h) = n

(* Mutant: one confirmation is enough. *)
minedAt(r, h) == block[r] # 0 /\ block[r] <= h

ConfirmedAt(r, h) ==
  /\ block[r] # 0 /\ block[r] <= h
  /\ h - block[r] + 1 >= Finality

Final(r) == ConfirmedAt(r, head)

receiptAt(r, h) ==
  IF block[r] # 0 /\ block[r] <= h
  THEN [blockNumber |-> block[r], blockHash |-> block[r], success |-> ~failed[r]]
  ELSE NoReceipt

(* observeMutation: the block, the two nonces, the transaction and the receipt *)
(* are five concurrent requests, so the state may be older (by Skew) or newer  *)
(* than the block reported with it.                                            *)
viewOf(r, h, s, seen) ==
  [error |-> FALSE, head |-> h, headTimestamp |-> h, latestNonce |-> NonceAt(s),
   pendingNonce |-> NonceAt(s) + (IF seen /\ raw[r].nonce = NonceAt(s) THEN 1 ELSE 0),
   transaction |-> seen, receipt |-> receiptAt(r, s)]

viewsAt(r, h) ==
  {viewOf(r, h, s, seen) : s \in {x \in 0 .. head : x + Skew >= h},
                           seen \in {x \in BOOLEAN : x => sent[r] # "no"}}

observeMutation(r) == {FailedRead} \cup UNION {viewsAt(r, h) : h \in Recent(head, Lag)}

-------------------------------------------------------------------------------
(* What the programs read from the files *)

Unresolved == {r \in Raws : journal[r] = "signed"}
LocalOpen == {r \in Raws : local[r] = "signed"}

(* The last signed record without a terminal record of the same hash. *)
latestUnresolved(open) == CHOOSE r \in open : \A q \in open : q <= r

Live(a) == arm.armed /\ arm.id = a /\ revoked # a

(* Nonce consumptions accounted to authorization a: ledger entries since its   *)
(* baseline, effects of the lanes without such a ledger, reverts.              *)
executionsSince(a) == ledger \ base[a].ledger
effectsOf(a) == {r \in Raws : journal[r] = "effect" /\ raw[r].auth = a /\ raw[r].lane \in {"earn", "global"}}
revertsOf(a) == {r \in Raws : journal[r] = "reverted" /\ raw[r].auth = a}

(* Mutant: reverts are not nonce consumptions. *)
profitableUsage(a) == executionsSince(a) \cup effectsOf(a)

dualAuthorizationUsage(a) == executionsSince(a) \cup effectsOf(a) \cup revertsOf(a)

expectedDualWalletNonce(a) == base[a].nonce + Cardinality(dualAuthorizationUsage(a))

(* Mutant: the breaker opens one revert late. *)
lateGasBreaker(a) == Cardinality(revertsOf(a)) <= MaxFailed

(* The failed-gas breaker, each revert costing one unit. *)
withinGasBudget(a) == Cardinality(revertsOf(a)) < MaxFailed

(* dualSpendablePrincipal throws on an execution of another authorization. *)
ledgerOwned(a) == \A r \in executionsSince(a) : raw[r].auth = a

assertDualAuthorization(a) ==
  Live(a) /\ ~halted /\ ledgerOwned(a) /\ withinGasBudget(a)

(* The Earn child checks the arm and the budget, not the ledgers' status. *)
assertEarnAuthorization(a) == Live(a) /\ withinGasBudget(a)

(* The Global child checks the arm and that its parent still holds the lock. *)
assertGlobalAuthorization(j) == Live(j.auth) /\ j.proc = "child"

(* The signed record must be the latest unresolved mutation of its arm. *)
validateDualSignedAttempt(j) ==
  /\ j.raw \in Unresolved
  /\ latestUnresolved(Unresolved) = j.raw
  /\ \A r \in Raws : (journal[r] # "none" /\ raw[r].auth = j.auth) => r <= j.raw

-------------------------------------------------------------------------------
(* The chain *)

(* A transaction past its deadline can only be mined as a revert. *)
Mine(r, ok) ==
  /\ sent[r] # "no" /\ block[r] = 0 /\ head < MaxHead
  /\ raw[r].nonce = NonceAt(head)
  /\ ok => raw[r].lane = "maint" \/ head + 1 <= raw[r].deadline
  /\ head' = head + 1
  /\ block' = [block EXCEPT ![r] = head + 1]
  /\ failed' = [failed EXCEPT ![r] = ~ok]
  /\ UNCHANGED <<sent, reorgs, auditVars, armVars, watchVars, job, crashes>>

Tick ==
  /\ head < MaxHead
  /\ head' = head + 1
  /\ UNCHANGED <<block, failed, sent, reorgs, auditVars, armVars, watchVars, job, crashes>>

(* A block that is not final is replaced by one without r. *)
Reorg(r) ==
  /\ reorgs < MaxReorg
  /\ block[r] # 0 /\ ~Final(r) /\ NonceAt(head) = raw[r].nonce + 1
  /\ reorgs' = reorgs + 1
  /\ block' = [block EXCEPT ![r] = 0]
  /\ failed' = [failed EXCEPT ![r] = FALSE]
  /\ UNCHANGED <<head, sent, auditVars, armVars, watchVars, job, crashes>>

-------------------------------------------------------------------------------
(* Taking wallet.lock *)

Free == job.pc = "idle"

(* The watcher is not waiting for a child and not executing or reconciling. *)
WatcherIdle == watching /\ child = NoChild /\ job.proc \notin {"watch", "child"}

Holder(proc, lane, auth) ==
  [pc |-> "locked", kind |-> "exec", proc |-> proc, lane |-> lane, auth |-> auth,
   raw |-> 0, nonce |-> 0, deadline |-> 0]

(* The watcher's loop reached a signing decision: authorization valid and the *)
(* lane not quarantined.                                                       *)
LoopMaySign == WatcherIdle /\ ~stop /\ assertDualAuthorization(arm.id) /\ Unresolved = {}

(* The board lane signs in the watcher's own process. *)
WatchExecute ==
  /\ "board" \in Lanes
  /\ LoopMaySign /\ Free
  /\ job' = Holder("watch", "board", arm.id)
  /\ UNCHANGED <<chainVars, auditVars, armVars, watchVars, crashes>>

SpawnChild(lane) ==
  /\ lane \in Lanes \cap {"earn", "global"}
  /\ LoopMaySign
  /\ child' = [lane |-> lane, auth |-> arm.id]
  /\ UNCHANGED <<chainVars, auditVars, armVars, watching, stop, job, crashes>>

(* The child finds wallet.lock free, or fails because somebody holds it. *)
ChildLock ==
  /\ child # NoChild
  /\ child' = NoChild
  /\ job' = IF Free THEN Holder("child", child.lane, child.auth) ELSE job
  /\ UNCHANGED <<chainVars, auditVars, armVars, watching, stop, crashes>>

(* The operator's execute, deploy and withdraw. *)
CliExecute(lane) ==
  /\ lane \in Lanes
  /\ Free
  /\ job' = Holder("cli", lane, 0)
  /\ UNCHANGED <<chainVars, auditVars, armVars, watchVars, crashes>>

-------------------------------------------------------------------------------
(* Executing: preflight, sign, persist, journal, broadcast *)

(* A manual command refuses while the watcher is active; a manual board or    *)
(* global execution also refuses while an authorization is live.               *)
manualContext(lane) ==
  /\ ~watching
  /\ lane \in {"board", "global"} => ~Live(arm.id)

(* Who may sign now.  Nothing is asserted again for a manual command. *)
contextHolds(j) ==
  IF j.auth = 0 THEN manualContext(j.lane)
  ELSE CASE j.lane = "board" -> assertDualAuthorization(j.auth)
         [] j.lane = "earn"  -> j.proc = "child" /\ assertEarnAuthorization(j.auth)
         [] OTHER            -> assertGlobalAuthorization(j)

(* Mutants: no lane looks for an unresolved mutation, or only for its own. *)
noBarrier(j) == TRUE
ownLaneBarrier(j) == \A r \in Unresolved : raw[r].lane # j.lane

(* Every preflight but Earn's refuses while a mutation is unresolved. *)
barrierOpen(j) == j.lane # "earn" => Unresolved = {}

(* The board and Earn lanes demand the nonce the authorization accounts for. *)
nonceAuthorized(j, n) ==
  (j.auth # 0 /\ j.lane \in {"board", "earn"}) => n = expectedDualWalletNonce(j.auth)

Preflight ==
  /\ job.pc = "locked" /\ job.kind = "exec"
  /\ contextHolds(job) /\ barrierOpen(job)
  /\ \E h \in Recent(head, Lag) :
       /\ nonceAuthorized(job, NonceAt(h))
       /\ job' = [job EXCEPT !.pc = "ready", !.nonce = NonceAt(h),
                             !.deadline = IF job.lane = "maint" THEN MaxHead ELSE h + Window]
  /\ UNCHANGED <<chainVars, auditVars, armVars, watchVars, crashes>>

(* What a shared execution asserts again before it signs. *)
stillAuthorized(j) ==
  j.auth # 0 =>
    CASE j.lane = "board" -> ~stop /\ assertDualAuthorization(j.auth)
      [] j.lane = "earn"  -> assertEarnAuthorization(j.auth)
      [] OTHER            -> assertGlobalAuthorization(j)

(* Board and Earn read the nonce again and refuse when it moved. *)
nonceUnmoved(j) == j.lane \in {"board", "earn"} => SeesNonce(j.nonce)

AuthorizeSigning ==
  /\ job.pc = "ready"
  /\ nonceUnmoved(job) /\ stillAuthorized(job)
  /\ job' = [job EXCEPT !.pc = "signing"]
  /\ UNCHANGED <<chainVars, auditVars, armVars, watchVars, crashes>>

(* Mutant: the raw is sent before its mutation is recorded. *)
SignAndSend ==
  /\ job.pc = "signing" /\ count < MaxRaw
  /\ count' = count + 1
  /\ raw' = [raw EXCEPT ![count + 1] = [lane |-> job.lane, auth |-> job.auth, nonce |-> job.nonce,
                                        deadline |-> job.deadline, late |-> FALSE]]
  /\ sent' = [sent EXCEPT ![count + 1] = "signer"]
  /\ job' = [job EXCEPT !.pc = "signed", !.raw = count + 1]
  /\ UNCHANGED <<head, block, failed, reorgs, journal, local, ledger, halted, armVars, watchVars, crashes>>

(* signTransaction was awaited; the board lane asserts once more, and the raw  *)
(* is on disk before anything is recorded or sent.                             *)
SignAndPersist ==
  /\ job.pc = "signing" /\ count < MaxRaw
  /\ job.lane = "board" => stillAuthorized(job)
  /\ count' = count + 1
  /\ raw' = [raw EXCEPT ![count + 1] = [lane |-> job.lane, auth |-> job.auth, nonce |-> job.nonce,
                                        deadline |-> job.deadline, late |-> FALSE]]
  /\ job' = [job EXCEPT !.pc = "signed", !.raw = count + 1]
  /\ UNCHANGED <<chainVars, journal, local, ledger, halted, armVars, watchVars, crashes>>

(* late: the authorization was revoked before its mutation was recorded. *)
recorded(r) == [raw EXCEPT ![r].late = raw[r].auth # 0 /\ ~Live(raw[r].auth)]

(* mutation_signed in the shared audit. *)
JournalSigned ==
  /\ job.pc = "signed" /\ job.lane # "earn"
  /\ journal' = [journal EXCEPT ![job.raw] = "signed"]
  /\ raw' = recorded(job.raw)
  /\ job' = [job EXCEPT !.pc = "journaled"]
  /\ UNCHANGED <<chainVars, count, local, ledger, halted, armVars, watchVars, crashes>>

(* Mutant: the shared audit first. *)
EarnJournalShared ==
  /\ job.pc = "signed" /\ job.lane = "earn"
  /\ journal' = [journal EXCEPT ![job.raw] = "signed"]
  /\ job' = [job EXCEPT !.pc = IF job.auth # 0 THEN "mirroring" ELSE "journaled"]
  /\ UNCHANGED <<chainVars, count, raw, local, ledger, halted, armVars, watchVars, crashes>>

(* The Earn process writes its own audit first; only an execution under a      *)
(* shared authorization is mirrored into the shared audit.                     *)
EarnJournalSigned ==
  /\ job.pc = "signed" /\ job.lane = "earn"
  /\ local' = [local EXCEPT ![job.raw] = "signed"]
  /\ job' = [job EXCEPT !.pc = IF job.auth # 0 THEN "mirroring" ELSE "journaled"]
  /\ UNCHANGED <<chainVars, count, raw, journal, ledger, halted, armVars, watchVars, crashes>>

EarnMirrorSigned ==
  /\ job.pc = "mirroring"
  /\ journal' = [journal EXCEPT ![job.raw] = "signed"]
  /\ raw' = recorded(job.raw)
  /\ job' = [job EXCEPT !.pc = "journaled"]
  /\ UNCHANGED <<chainVars, count, local, ledger, halted, armVars, watchVars, crashes>>

(* Mutant: nothing is asserted after the mutation is recorded. *)
alwaysBroadcast(j) == TRUE

(* The last assertion before the raw leaves the process (Global makes none). *)
mayBroadcast(j) ==
  (j.auth # 0 /\ j.lane \in {"board", "earn"}) =>
    /\ stillAuthorized(j)
    /\ validateDualSignedAttempt(j)

(* Sent to the sequencer, then to the fallback; either or neither may accept. *)
Broadcast(accepted) ==
  /\ job.pc = "journaled" /\ mayBroadcast(job)
  /\ sent' = [sent EXCEPT ![job.raw] = IF accepted THEN "signer" ELSE @]
  /\ job' = [job EXCEPT !.pc = "waiting"]
  /\ UNCHANGED <<head, block, failed, reorgs, auditVars, armVars, watchVars, crashes>>

BroadcastRefused ==
  /\ job.pc = "journaled" /\ ~mayBroadcast(job)
  /\ job' = Idle
  /\ UNCHANGED <<chainVars, auditVars, armVars, watchVars, crashes>>

(* waitForTransactionReceipt returned a receipt with enough confirmations. *)
Receipt ==
  /\ job.pc = "waiting"
  /\ \E h \in Recent(head, Lag) : ConfirmedAt(job.raw, h)
  /\ job' = [job EXCEPT !.pc = IF failed[job.raw] THEN "reverted" ELSE "succeeded"]
  /\ UNCHANGED <<chainVars, auditVars, armVars, watchVars, crashes>>

(* A failed read, a failed check or the 120 s receipt timeout: the lock is     *)
(* released and whatever was journaled stays as it is.                         *)
Abort ==
  /\ job.pc \in {"locked", "ready", "signing", "waiting", "succeeded"}
  /\ job' = Idle
  /\ UNCHANGED <<chainVars, auditVars, armVars, watchVars, crashes>>

-------------------------------------------------------------------------------
(* Settling a confirmed receipt, in an execution or in a reconciliation *)

(* The board execution finds a wallet delta that is not its gas. *)
WalletDeltaMismatch ==
  /\ job.pc = "succeeded" /\ job.kind = "exec" /\ job.lane = "board"
  /\ halted' = TRUE
  /\ job' = Idle
  /\ UNCHANGED <<chainVars, count, raw, journal, local, ledger, armVars, watchVars, crashes>>

(* The execution enters the deployment ledger once per hash, and the ledger's *)
(* status becomes live_gross_validated.                                        *)
WriteLedger ==
  /\ job.pc = "succeeded" /\ job.lane = "board"
  /\ ledger' = ledger \cup {job.raw}
  /\ halted' = FALSE
  /\ job' = [job EXCEPT !.pc = "ledgered"]
  /\ UNCHANGED <<chainVars, count, raw, journal, local, armVars, watchVars, crashes>>

(* Mutant: an event no reader counts as terminal. *)
unknownVerdict(j) ==
  CASE j.pc = "reverted" -> "failed"
    [] j.pc = "ledgered" \/ (j.pc = "succeeded" /\ j.lane # "board") -> "effect"
    [] OTHER -> "none"

(* The terminal event the job is about to append. *)
verdict(j) ==
  CASE j.pc = "reverted" -> "reverted"
    [] j.pc = "ledgered" \/ (j.pc = "succeeded" /\ j.lane # "board") -> "effect"
    [] OTHER -> "none"

(* mutation_effect or mutation_reverted in the shared audit. *)
AppendTerminal ==
  /\ verdict(job) # "none" /\ job.lane # "earn"
  /\ journal' = [journal EXCEPT ![job.raw] = verdict(job)]
  /\ job' = Idle
  /\ UNCHANGED <<chainVars, count, raw, local, ledger, halted, armVars, watchVars, crashes>>

(* Earn appends to its own audit, and then to the shared one when mirrored. *)
EarnAppendTerminal ==
  /\ verdict(job) # "none" /\ job.lane = "earn"
  /\ local' = [local EXCEPT ![job.raw] = verdict(job)]
  /\ job' = IF raw[job.raw].auth # 0
            THEN [job EXCEPT !.pc = IF verdict(job) = "effect" THEN "mirrorEffect" ELSE "mirrorRevert"]
            ELSE Idle
  /\ UNCHANGED <<chainVars, count, raw, journal, ledger, halted, armVars, watchVars, crashes>>

EarnMirrorTerminal ==
  /\ job.pc \in {"mirrorEffect", "mirrorRevert"}
  /\ journal' = [journal EXCEPT ![job.raw] = IF job.pc = "mirrorEffect" THEN "effect" ELSE "reverted"]
  /\ job' = Idle
  /\ UNCHANGED <<chainVars, count, raw, local, ledger, halted, armVars, watchVars, crashes>>

-------------------------------------------------------------------------------
(* Reconciling the latest unresolved mutation *)

(* Earn's reconciler falls back to its own audit. *)
reconcileTarget ==
  IF Unresolved # {} THEN latestUnresolved(Unresolved) ELSE latestUnresolved(LocalOpen)

Reconciling(proc, r) ==
  [pc |-> "observing", kind |-> "reconcile", proc |-> proc, lane |-> raw[r].lane,
   auth |-> raw[r].auth, raw |-> r, nonce |-> 0, deadline |-> 0]

(* Mutant: the watcher reconciles the mutations of its own process only. *)
ReconcileOwn ==
  /\ WatcherIdle /\ ~stop /\ Free
  /\ assertDualAuthorization(arm.id)
  /\ Unresolved # {}
  /\ raw[latestUnresolved(Unresolved)].lane \notin {"earn", "global"}
  /\ job' = Reconciling("watch", latestUnresolved(Unresolved))
  /\ UNCHANGED <<chainVars, auditVars, armVars, watchVars, crashes>>

(* The watcher's loop, quarantined: it asserts the authorization first, then   *)
(* reconciles in its own process or in a child of the mutation's lane.         *)
WatchReconcile ==
  /\ WatcherIdle /\ ~stop /\ Free
  /\ assertDualAuthorization(arm.id)
  /\ Unresolved # {}
  /\ job' = LET r == latestUnresolved(Unresolved)
            IN  Reconciling(IF raw[r].lane \in {"earn", "global"} THEN "child" ELSE "watch", r)
  /\ UNCHANGED <<chainVars, auditVars, armVars, watchVars, crashes>>

CliReconcile ==
  /\ ~watching /\ Free
  /\ Unresolved # {} \/ LocalOpen # {}
  /\ job' = Reconciling("cli", reconcileTarget)
  /\ UNCHANGED <<chainVars, auditVars, armVars, watchVars, crashes>>

(* Earn's reconciler asks one reader, the others two. *)
Observations(j) ==
  IF j.lane = "earn" THEN [1 .. 1 -> observeMutation(j.raw)] ELSE [Sources -> observeMutation(j.raw)]

outcome(j, obs) == classifyReconciliation(obs, raw[j.raw].nonce, Finality)

(* A confirmed receipt is settled as an execution's is. *)
Confirm(j, obs) ==
  /\ outcome(j, obs) \in {"CONFIRMED_SUCCESS", "CONFIRMED_REVERTED"}
  /\ job' = [j EXCEPT !.pc = IF outcome(j, obs) = "CONFIRMED_SUCCESS" THEN "succeeded" ELSE "reverted"]
  /\ UNCHANGED <<sent, journal>>

(* Only the two board kinds carry a deadline the code can abandon on. *)
hasDeadline(r) == raw[r].lane = "board"

mayAbandon(r, obs) ==
  evaluateExpiredMutationAbandonment(hasDeadline(r), raw[r].nonce, raw[r].deadline, obs)

(* reconcile --abandon-expired *)
Abandon(j, obs) ==
  /\ j.proc = "cli" /\ j.lane \in {"board", "maint"}
  /\ mayAbandon(j.raw, obs)
  /\ journal' = [journal EXCEPT ![j.raw] = "abandoned"]
  /\ job' = Idle
  /\ UNCHANGED sent

(* reconcile --rebroadcast-same-raw: no authorization is asserted. *)
Rebroadcast(j, obs) ==
  /\ j.proc = "cli" /\ j.lane \in {"board", "maint"}
  /\ outcome(j, obs) = "NOT_OBSERVED"
  /\ evaluateRawReplayDeadline(hasDeadline(j.raw), raw[j.raw].deadline, obs)
  /\ sent' = [sent EXCEPT ![j.raw] = IF @ = "no" THEN "operator" ELSE @]
  /\ job' = Idle
  /\ UNCHANGED journal

Observe ==
  /\ job.pc = "observing"
  /\ \E obs \in Observations(job) :
       Confirm(job, obs) \/ Abandon(job, obs) \/ Rebroadcast(job, obs)
  /\ UNCHANGED <<head, block, failed, reorgs, count, raw, local, ledger, halted,
                 armVars, watchVars, crashes>>

(* Any other outcome is reported and leaves the mutation unresolved; readers   *)
(* that do not answer always make it possible.                                 *)
Inconclusive ==
  /\ job.pc = "observing"
  /\ job' = Idle
  /\ UNCHANGED <<chainVars, auditVars, armVars, watchVars, crashes>>

-------------------------------------------------------------------------------
(* Arming, disarming, starting and stopping the watcher *)

(* Mutant: arming does not look for an unresolved mutation. *)
armsOverUnresolved == ~watching /\ Free /\ ~Live(arm.id)

(* Under both locks: no live authorization, nothing unresolved; the baselines  *)
(* are the nonce a reader reports and the ledgers as they are.                 *)
mayArm == ~watching /\ Free /\ ~Live(arm.id) /\ Unresolved = {}

Arm ==
  /\ arms < MaxArms /\ mayArm
  /\ \E h \in Recent(head, Lag) :
       base' = [base EXCEPT ![arms + 1] = [nonce |-> NonceAt(h), ledger |-> ledger]]
  /\ arms' = arms + 1
  /\ arm' = [id |-> arms + 1, armed |-> TRUE]
  /\ UNCHANGED <<chainVars, auditVars, revoked, disarm, watchVars, job, crashes>>

(* disarm takes no lock: it reads the arm, writes the one-slot revocation      *)
(* marker, writes the arm back as DISARMED and signals the watcher.            *)
DisarmRead ==
  /\ disarm = NoDisarm /\ arm.id # 0
  /\ disarm' = [id |-> arm.id, step |-> "read"]
  /\ UNCHANGED <<chainVars, auditVars, arm, arms, revoked, base, watchVars, job, crashes>>

DisarmMark ==
  /\ disarm.step = "read"
  /\ revoked' = disarm.id
  /\ disarm' = [disarm EXCEPT !.step = "marked"]
  /\ UNCHANGED <<chainVars, auditVars, arm, arms, base, watchVars, job, crashes>>

DisarmWrite ==
  /\ disarm.step = "marked"
  /\ arm' = [id |-> disarm.id, armed |-> FALSE]
  /\ stop' = watching
  /\ disarm' = NoDisarm
  /\ UNCHANGED <<chainVars, auditVars, arms, revoked, base, watching, child, job, crashes>>

(* evaluateDualWalletNonce: nothing unresolved and the nonce accounted for, or *)
(* the unresolved mutation is this authorization's and holds the next nonce.   *)
walletNonceAllowed(a) ==
  IF Unresolved = {} THEN SeesNonce(expectedDualWalletNonce(a))
  ELSE LET r == latestUnresolved(Unresolved)
           next == expectedDualWalletNonce(a)
       IN  /\ raw[r].auth = a /\ raw[r].nonce = next
           /\ SeesNonce(next) \/ SeesNonce(next + 1)

WatchStart ==
  /\ ~watching
  /\ assertDualAuthorization(arm.id)
  /\ walletNonceAllowed(arm.id)
  /\ watching' = TRUE
  /\ stop' = FALSE
  /\ UNCHANGED <<chainVars, auditVars, armVars, child, job, crashes>>

orphaned(j) == IF j.proc \in {"watch", "child"} THEN [j EXCEPT !.proc = "orphan"] ELSE j

(* The loop ends: asked to stop, out of authorization, or on an error it halts *)
(* on.  It awaits its executions, but not a reconciliation, which goes on.     *)
WatchExit ==
  /\ watching /\ child = NoChild
  /\ job.proc \in {"watch", "child"} => job.kind = "reconcile"
  /\ watching' = FALSE
  /\ stop' = FALSE
  /\ job' = orphaned(job)
  /\ UNCHANGED <<chainVars, auditVars, armVars, child, crashes>>

(* The watcher dies: an execution in its process dies with it, a child that   *)
(* holds wallet.lock lives on without a parent.                                *)
WatchCrash ==
  /\ watching /\ crashes < MaxCrash
  /\ crashes' = crashes + 1
  /\ watching' = FALSE /\ stop' = FALSE /\ child' = NoChild
  /\ job' = IF job.proc = "watch" THEN Idle ELSE orphaned(job)
  /\ UNCHANGED <<chainVars, auditVars, armVars>>

(* A child (also one killed at its deadline) or a command dies with the lock;  *)
(* the next acquirer finds a dead pid and takes it over.                       *)
HolderCrash ==
  /\ job.proc \in {"child", "orphan", "cli"} /\ crashes < MaxCrash
  /\ crashes' = crashes + 1
  /\ job' = Idle
  /\ UNCHANGED <<chainVars, auditVars, armVars, watchVars>>

DisarmCrash ==
  /\ disarm # NoDisarm /\ crashes < MaxCrash
  /\ crashes' = crashes + 1
  /\ disarm' = NoDisarm
  /\ UNCHANGED <<chainVars, auditVars, arm, arms, revoked, base, watchVars, job>>

-------------------------------------------------------------------------------
ChainStep == Tick \/ \E r \in Raws : Mine(r, TRUE) \/ Mine(r, FALSE) \/ Reorg(r)

Take == WatchExecute \/ ChildLock \/ \E lane \in AllLanes : SpawnChild(lane) \/ CliExecute(lane)

Execute ==
  \/ Preflight \/ AuthorizeSigning \/ SignAndPersist
  \/ JournalSigned \/ EarnJournalSigned \/ EarnMirrorSigned
  \/ Broadcast(TRUE) \/ Broadcast(FALSE) \/ BroadcastRefused
  \/ Receipt \/ Abort

Settle ==
  WalletDeltaMismatch \/ WriteLedger \/ AppendTerminal \/ EarnAppendTerminal \/ EarnMirrorTerminal

Reconcile == WatchReconcile \/ CliReconcile \/ Observe \/ Inconclusive

Authorize == Arm \/ DisarmRead \/ DisarmMark \/ DisarmWrite

Supervise == WatchStart \/ WatchExit \/ WatchCrash \/ HolderCrash \/ DisarmCrash

Next == ChainStep \/ Take \/ Execute \/ Settle \/ Reconcile \/ Authorize \/ Supervise

Spec == Init /\ [][Next]_vars

-------------------------------------------------------------------------------
(* Properties *)

RawRecord == [lane : AllLanes, auth : 0 .. MaxArms, nonce : Nat, deadline : Nat, late : BOOLEAN]

LocalStates == {"none", "signed", "effect", "reverted"}
JournalStates == LocalStates \cup {"abandoned"}

Steps == {"locked", "ready", "signing", "signed", "mirroring", "journaled", "waiting",
          "observing", "succeeded", "ledgered", "reverted", "mirrorEffect", "mirrorRevert"}
JobRecord == [pc : Steps, kind : {"exec", "reconcile"}, proc : {"watch", "child", "orphan", "cli"},
              lane : AllLanes, auth : 0 .. MaxArms, raw : 0 .. MaxRaw, nonce : Nat, deadline : Nat]

ChainType ==
  /\ head \in Heights /\ block \in [Raws -> Heights] /\ failed \in [Raws -> BOOLEAN]
  /\ sent \in [Raws -> {"no", "signer", "operator"}] /\ reorgs \in 0 .. MaxReorg
AuditType ==
  /\ count \in 0 .. MaxRaw /\ raw \in [Raws -> RawRecord]
  /\ journal \in [Raws -> JournalStates] /\ local \in [Raws -> LocalStates]
  /\ ledger \in SUBSET Raws /\ halted \in BOOLEAN
ArmType ==
  /\ arm \in [id : 0 .. MaxArms, armed : BOOLEAN] /\ arms \in 0 .. MaxArms
  /\ revoked \in 0 .. MaxArms
  /\ base \in [Arms -> [nonce : Nat, ledger : SUBSET Raws]]
  /\ disarm \in [id : 0 .. MaxArms, step : {"none", "read", "marked"}]
WatchType ==
  /\ watching \in BOOLEAN /\ stop \in BOOLEAN
  /\ child \in [lane : {"earn", "global"}, auth : 0 .. MaxArms] \cup {NoChild}
  /\ crashes \in 0 .. MaxCrash

(* Every variable keeps its type. *)
TypeOK == ChainType /\ AuditType /\ ArmType /\ WatchType /\ job \in JobRecord \cup {Idle}

(* The nonce domain is quarantined as a whole: at no time are two signed       *)
(* mutations both without a terminal record in the shared audit.               *)
OneUnresolved == \A p, r \in Unresolved : p = r

(* A nonce is signed for again only after the mutation that held it has been   *)
(* closed as expired and never observed.                                       *)
NonceLane ==
  \A p, r \in Raws :
    (/\ p < r /\ journal[p] # "none" /\ journal[r] # "none"
     /\ raw[p].nonce = raw[r].nonce) => journal[p] = "abandoned"

(* Write-ahead: a raw that reached the wire, by whoever's hand, is recorded as *)
(* signed in the audit its reconciler reads, across every crash.               *)
SentIsRecorded == \A r \in Raws : sent[r] # "no" => journal[r] # "none" \/ local[r] # "none"

(* A mutation closed as expired never turns out to have executed.              *)
AbandonedNeverSucceeds ==
  \A r \in Raws : journal[r] = "abandoned" => block[r] = 0 \/ failed[r]

(* What the audit and the ledger call settled is final on the chain, with that *)
(* result, whatever the sequencer replaced meanwhile.                          *)
SettledMatchesChain ==
  \A r \in Raws :
    /\ journal[r] = "effect" \/ r \in ledger => Final(r) /\ ~failed[r]
    /\ journal[r] = "reverted" => Final(r) /\ failed[r]

(* Both: how a mutation was closed never disagrees with the chain. *)
ClosedTrue == AbandonedNeverSucceeds /\ SettledMatchesChain

(* Between mutations the nonce a live authorization accounts for is the        *)
(* wallet's nonce, successes and reverts alike, unless maintenance signed      *)
(* under it or a raw that had been sent was abandoned and can be mined yet.    *)
outsideNonce(r, a) ==
  /\ sent[r] # "no"
  /\ \/ raw[r].lane = "maint" /\ raw[r].nonce >= base[a].nonce
     \/ journal[r] = "abandoned"
NonceAccounting ==
  (Live(arm.id) /\ Unresolved = {} /\ \A r \in Raws : ~outsideNonce(r, arm.id))
    => expectedDualWalletNonce(arm.id) = NonceAt(head)

(* No execution of another authorization, or of none, enters a live            *)
(* authorization's share of the ledger.                                        *)
LedgerOwnership == Live(arm.id) => ledgerOwned(arm.id)

(* The failed-gas breaker bounds what every lane together can lose under one   *)
(* authorization, though it counts a revert only when that is recorded: on the *)
(* chain there are no more of them.  A raw that was abandoned and is mined and *)
(* reverts all the same is counted by nobody.                                  *)
minedReverts(a) ==
  {r \in Raws : block[r] # 0 /\ failed[r] /\ raw[r].auth = a /\ journal[r] # "abandoned"}
FailedGasBound == \A a \in 1 .. arms : Cardinality(minedReverts(a)) <= MaxFailed

(* A revocation can be overtaken by the one transaction then being signed, and *)
(* by no other; of the lanes that look again before broadcasting, that one is  *)
(* never sent by its signer.                                                   *)
LateRaws(a) == {r \in Raws : raw[r].auth = a /\ raw[r].late}
RevocationBound ==
  /\ \A a \in 1 .. arms : \A p, r \in LateRaws(a) : p = r
  /\ \A r \in Raws : (raw[r].late /\ raw[r].lane \in {"board", "earn"}) => sent[r] # "signer"

(* Whatever becomes of a revocation, it lets no more through than that, and an  *)
(* authorization that lost its force never regains it, though the marker has    *)
(* one slot and a slow disarm may write over a newer arm.                       *)
RevocationHolds == [][RevocationBound' /\ \A a \in 1 .. arms : ~Live(a) => ~Live(a)']_vars

(* The Earn process's own audit is never behind the shared one: what the       *)
(* shared audit calls signed or settled, Earn's audit has recorded the same;   *)
(* and nothing is on the wire that neither of them names.                      *)
EarnMirror ==
  /\ SentIsRecorded
  /\ \A r \in Raws :
       (raw[r].lane = "earn" /\ journal[r] # "none") =>
         /\ local[r] # "none"
         /\ journal[r] # "signed" => local[r] = journal[r]

(* No mutation is open in either audit while another one is: an unknown result *)
(* blocks every signature of the wallet, whichever program signs.              *)
UnknownBlocksSigning == \A p, r \in Unresolved \cup LocalOpen : p = r

(* The lifecycle the audit shows refines the mutation barrier. *)
lifecycle == [r \in Raws |-> CASE journal[r] = "none" -> "absent"
                               [] journal[r] = "signed" -> "unresolved"
                               [] OTHER -> journal[r]]
Barrier == INSTANCE MutationBarrier WITH mutation <- lifecycle
BarrierSpec == Barrier!Spec

-------------------------------------------------------------------------------
(* Liveness *)

SomeConfirm == job.pc = "observing" /\ Observe /\ job'.pc \in {"succeeded", "reverted"}

(* A job takes its next step or gives up; the watcher retries a reconciliation *)
(* every five seconds; readers that keep being asked answer in the end, and    *)
(* then the files are written.                                                 *)
FairSpec ==
  /\ Spec
  /\ WF_vars(Execute \/ Settle \/ Inconclusive) /\ WF_vars(ChildLock)
  /\ SF_vars(WatchReconcile)
  /\ SF_vars(SomeConfirm)
  /\ SF_vars(WriteLedger)
  /\ SF_vars(AppendTerminal)
  /\ SF_vars(EarnAppendTerminal)

Settled(r) == journal[r] \in {"effect", "reverted", "abandoned"}

Serving == watching /\ ~stop /\ Live(arm.id) /\ withinGasBudget(arm.id)

(* While the watcher keeps serving a valid authorization over ledgers that are *)
(* not halted, an unresolved mutation that is final on the chain is settled.   *)
SettlesWhileHealthy ==
  \A r \in Raws :
    <>[](Serving /\ ~halted) => (journal[r] = "signed" /\ Final(r) ~> Settled(r))

===============================================================================
