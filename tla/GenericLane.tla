------------------------------ MODULE GenericLane ------------------------------
(* The generic-v2 program: a watcher that follows the board's snapshots, and   *)
(* the operator's commands.  What is at stake here is authority: an arm with a *)
(* lease that the watcher itself renews, a revocation marker that disarm       *)
(* writes first, and assertions at every boundary of an execution.             *)
EXTENDS Naturals, FiniteSets

CONSTANTS
  Opportunity,  \* the opportunities of the board's snapshots
  MaxMuts,      \* bound: mutations ever signed
  MaxAuths,     \* bound: authorizations ever issued
  MaxClock,     \* bound: clock
  MaxLosses,    \* bound: processes killed
  LeaseTime,    \* leaseDurationHours
  RenewBefore,  \* renewBeforeHours
  Budget,       \* the arm's maxAttempts
  MaxMisses     \* genericWatchMaxConsecutiveErrors

VARIABLES
  muts,       \* muts[i]: the i-th signed mutation and what became of it
  count,      \* mutations signed so far
  book,       \* the generic state file: deployed, eligible for automation, executions
  auth,       \* the arm file
  issued,     \* authorizations issued so far
  tried,      \* <<authorization, opportunity>>: the exact preflights the audit lists
  revoked,    \* every authorization a marker was ever written for
  marker,     \* the authorization named by generic-watch-revocation.json, 0: none
  disarming,  \* the disarm command under way, with the arm it read
  keeper,     \* the watcher
  signer,     \* the holder of wallet.lock
  clock, losses

laneVars == <<muts, count, book, auth, issued, tried, revoked, marker, disarming, keeper, signer, clock, losses>>

Muts == 1 .. MaxMuts
NoMut == [audit |-> "none", kind |-> "none", nonce |-> 0, auth |-> 0, shot |-> "none", sent |-> FALSE, chain |-> "none"]
NoAuth == [id |-> 0, armed |-> FALSE, revision |-> 0, expires |-> 0, nonce |-> 0, listed |-> {}]
NoSigner == [pc |-> "idle", by |-> "none", kind |-> "none", auth |-> 0, nonce |-> 0, mut |-> 0, shot |-> "none"]
NoKeeper == [pc |-> "off", status |-> "none", stop |-> FALSE, seen |-> "none", lease |-> NoAuth, now |-> 0,
             retryAt |-> 0, misses |-> 0]
NoDisarm == [pc |-> "none", auth |-> NoAuth]

LaneInit ==
  /\ muts = [i \in Muts |-> NoMut] /\ count = 0
  /\ book \in [deployed : BOOLEAN, eligible : {TRUE}, listed : {{}}]
  /\ auth = NoAuth /\ issued = 0 /\ tried = {} /\ revoked = {} /\ marker = 0 /\ disarming = NoDisarm
  /\ keeper = NoKeeper /\ signer = NoSigner
  /\ clock = 0 /\ losses = 0

Unresolved == {i \in Muts : muts[i].audit = "signed"}
Mined == {i \in Muts : muts[i].chain # "none"}
NonceClean == \A i \in Muts : (muts[i].sent /\ muts[i].chain = "none") => muts[i].audit = "abandoned"

--------------------------------------------------------------------------------
(* The outside: time and the chain.  An abandoned raw was past its deadline on *)
(* every reader (ReconciliationReads); a node drops it.                        *)

Tick ==
  /\ clock < MaxClock
  /\ clock' = clock + 1
  /\ UNCHANGED <<muts, count, book, auth, issued, tried, revoked, marker, disarming, keeper, signer, losses>>

MineMutation(i, result) ==
  /\ muts[i].sent /\ muts[i].chain = "none" /\ muts[i].audit = "signed"
  /\ muts[i].nonce = Cardinality(Mined)
  /\ muts' = [muts EXCEPT ![i].chain = result]
  /\ UNCHANGED <<count, book, auth, issued, tried, revoked, marker, disarming, keeper, signer, clock, losses>>

--------------------------------------------------------------------------------
(* The authorization *)

leaseAlive(a, now) == now < a.expires
renewalDue(a, now) == leaseAlive(a, now) /\ now + RenewBefore >= a.expires

signedUnder(a) == {i \in Muts : muts[i].audit # "none" /\ muts[i].auth = a}
confirmedSince(a) == book.listed \ a.listed

(* The policy part of assertGenericWatchArm: armed, not revoked, not expired,  *)
(* within its attempts; a recorded attempt does not count against itself.      *)
withinPolicy(a, reserved) ==
  /\ marker # a.id /\ a.armed /\ leaseAlive(a, clock)
  /\ Cardinality(signedUnder(a.id) \ reserved) < Budget

(* Otherwise it stops for policy; a status that is not eligible is an error.   *)
assertWatchArm(a, reserved) == withinPolicy(a, reserved) /\ book.eligible

(* At broadcast the attempt must be the arm's last and the one unresolved. *)
reservation(i) == IF Unresolved = {i} /\ \A k \in signedUnder(muts[i].auth) : k <= i THEN {i} ELSE {}

expectedNonce(a) == a.nonce + Cardinality(confirmedSince(a))

(* armGenericWatcher holds both locks; an unexpired arm is never replaced.     *)
ArmGeneric ==
  /\ keeper.pc = "off" /\ signer.pc = "idle" /\ issued < MaxAuths
  /\ ~(auth.armed /\ leaseAlive(auth, clock))
  /\ book.deployed /\ Unresolved = {} /\ NonceClean
  /\ issued' = issued + 1
  /\ auth' = [id |-> issued + 1, armed |-> TRUE, revision |-> 0, expires |-> clock + LeaseTime,
              nonce |-> Cardinality(Mined), listed |-> book.listed]
  /\ UNCHANGED <<muts, count, book, tried, revoked, marker, disarming, keeper, signer, clock, losses>>

(* disarm takes no lock: it reads the arm, writes the marker, then the arm it  *)
(* read with DISARMED, then signals the watcher.                               *)
(* Mutant: the arm only, and no marker. *)
DisarmUnmarked ==
  /\ disarming.pc = "none" /\ auth.id # 0
  /\ disarming' = [pc |-> "marked", auth |-> auth]
  /\ revoked' = revoked \cup {auth.id}
  /\ UNCHANGED <<muts, count, book, auth, issued, tried, marker, keeper, signer, clock, losses>>

DisarmMark ==
  /\ disarming.pc = "none" /\ auth.id # 0
  /\ disarming' = [pc |-> "marked", auth |-> auth]
  /\ marker' = auth.id
  /\ revoked' = revoked \cup {auth.id}
  /\ UNCHANGED <<muts, count, book, auth, issued, tried, keeper, signer, clock, losses>>

DisarmWrite ==
  /\ disarming.pc = "marked"
  /\ auth' = [disarming.auth EXCEPT !.armed = FALSE]
  /\ keeper' = [keeper EXCEPT !.stop = keeper.pc # "off"]
  /\ disarming' = NoDisarm
  /\ UNCHANGED <<muts, count, book, issued, tried, revoked, marker, signer, clock, losses>>

--------------------------------------------------------------------------------
(* The watcher *)

ends(status) == keeper' = [NoKeeper EXCEPT !.status = status]
goes(pc) == keeper' = [keeper EXCEPT !.pc = pc]

(* The ladder of the loop's catch, in its order: a policy stop is reported     *)
(* before the audit is consulted.                                              *)
stopsFor(reason) ==
  ends(CASE reason = "policy"    -> "STOPPED_POLICY"
         [] Unresolved # {}      -> "HALTED_UNKNOWN"
         [] reason = "nonce"     -> "HALTED_NONCE_CONFLICT"
         [] reason = "transport" -> "HALTED_RPC"
         [] OTHER                -> "HALTED_INVARIANT")

refusedBy(a, reserved) == IF withinPolicy(a, reserved) THEN "invariant" ELSE "policy"

WatchStart ==
  /\ keeper.pc = "off"
  /\ IF ~assertWatchArm(auth, {}) THEN stopsFor(refusedBy(auth, {}))
     ELSE IF Unresolved # {} THEN stopsFor("unknown")
     ELSE IF ~NonceClean \/ Cardinality(Mined) # expectedNonce(auth) THEN ends("HALTED_STARTUP")
     ELSE keeper' = [NoKeeper EXCEPT !.pc = "top", !.status = "RUNNING"]
  /\ UNCHANGED <<muts, count, book, auth, issued, tried, revoked, marker, disarming, signer, clock, losses>>

(* The loop: stop flag, authorization, barrier, then renewal when it is due.   *)
WatchTop ==
  /\ keeper.pc = "top"
  /\ IF keeper.stop THEN ends("STOPPED_BY_SIGNAL")
     ELSE IF ~assertWatchArm(auth, {}) THEN stopsFor(refusedBy(auth, {}))
     ELSE IF Unresolved # {} THEN stopsFor("unknown")
     ELSE IF clock >= keeper.retryAt /\ renewalDue(auth, clock)
          THEN keeper' = [keeper EXCEPT !.pc = "renew", !.lease = auth, !.now = clock]
          ELSE goes("board")
  /\ UNCHANGED <<muts, count, book, auth, issued, tried, revoked, marker, disarming, signer, clock, losses>>

(* Renewal awaits the chain; a transport failure schedules another attempt.    *)
RenewFails(transport) ==
  /\ keeper.pc = "renew"
  /\ IF transport THEN keeper' = [keeper EXCEPT !.pc = "top", !.retryAt = clock + 1, !.lease = NoAuth, !.now = 0]
     ELSE stopsFor("invariant")
  /\ UNCHANGED <<muts, count, book, auth, issued, tried, revoked, marker, disarming, signer, clock, losses>>

(* Then the arm file must be the one it began with and no marker may name it;  *)
(* the new expiry counts from the time the renewal began.                      *)
RenewCheck ==
  /\ keeper.pc = "renew"
  /\ IF auth.armed /\ auth.id = keeper.lease.id /\ auth.revision = keeper.lease.revision
        /\ auth.expires = keeper.lease.expires /\ marker # auth.id
     THEN goes("renewWrite") ELSE stopsFor("policy")
  /\ UNCHANGED <<muts, count, book, auth, issued, tried, revoked, marker, disarming, signer, clock, losses>>

renewed(a) == [a EXCEPT !.revision = @ + 1, !.expires = keeper.now + LeaseTime]

RenewWrite ==
  /\ keeper.pc = "renewWrite"
  /\ auth' = renewed(keeper.lease)
  /\ goes("renewVerify")
  /\ UNCHANGED <<muts, count, book, issued, tried, revoked, marker, disarming, signer, clock, losses>>

(* A marker written meanwhile is found, and the renewal undone. *)
RenewVerify ==
  /\ keeper.pc = "renewVerify"
  /\ IF marker = auth.id
     THEN auth' = [auth EXCEPT !.armed = FALSE] /\ stopsFor("policy")
     ELSE UNCHANGED auth /\ keeper' = [keeper EXCEPT !.pc = "board", !.lease = NoAuth, !.now = 0, !.retryAt = 0]
  /\ UNCHANGED <<muts, count, book, issued, tried, revoked, marker, disarming, signer, clock, losses>>

(* The board is unreachable, or its snapshot has nothing: it costs nothing.    *)
BoardIdle ==
  /\ keeper.pc = "board"
  /\ goes("top")
  /\ UNCHANGED <<muts, count, book, auth, issued, tried, revoked, marker, disarming, signer, clock, losses>>

(* selectGenericWatchCandidate: an opportunity the audit does not list for     *)
(* this arm.  It is listed before its exact preflight begins.                  *)
listed(o) == tried \cup {<<auth.id, o>>}

BoardCandidate(o) ==
  /\ keeper.pc = "board" /\ <<auth.id, o>> \notin tried
  /\ tried' = listed(o)
  /\ keeper' = [keeper EXCEPT !.pc = "execute", !.seen = o, !.lease = NoAuth]
  /\ UNCHANGED <<muts, count, book, auth, issued, revoked, marker, disarming, signer, clock, losses>>

(* execute came back: confirmed, or one of its errors. *)
ExecutionEnds(outcome) ==
  /\ keeper.pc = "execute" /\ signer.by = "watch" /\ signer.pc = outcome
  /\ signer' = NoSigner
  /\ CASE outcome = "done" \/ (outcome = "miss" /\ Unresolved = {}) ->
            keeper' = [keeper EXCEPT !.pc = "top", !.seen = "none", !.misses = 0]
       [] outcome = "transport" /\ Unresolved = {} /\ keeper.misses + 1 < MaxMisses ->
            keeper' = [keeper EXCEPT !.pc = "top", !.seen = "none", !.misses = @ + 1]
       [] OTHER -> stopsFor(outcome)
  /\ UNCHANGED <<muts, count, book, auth, issued, tried, revoked, marker, disarming, clock, losses>>

--------------------------------------------------------------------------------
(* Execution, deployment and withdrawal under wallet.lock *)

fails(reason) == signer' = [signer EXCEPT !.pc = reason]

(* The watcher's execute. *)
LockForWatch ==
  /\ keeper.pc = "execute" /\ signer.pc = "idle"
  /\ signer' = [NoSigner EXCEPT !.pc = "locked", !.by = "watch", !.kind = "execute", !.auth = auth.id,
                                !.shot = keeper.seen]
  /\ UNCHANGED <<muts, count, book, auth, issued, tried, revoked, marker, disarming, keeper, clock, losses>>

(* What the operator's commands need besides. *)
executable == book.deployed /\ ~(auth.armed /\ leaseAlive(auth, clock))
deployable == ~book.deployed
withdrawable == book.deployed

(* The operator's commands: refused while the watcher is alive, and an         *)
(* execution also while an arm is live.                                        *)
LockForCli(kind) ==
  /\ keeper.pc = "off" /\ signer.pc = "idle"
  /\ CASE kind = "execute" -> executable [] kind = "deploy" -> deployable [] OTHER -> withdrawable
  /\ signer' = [NoSigner EXCEPT !.pc = "locked", !.by = "cli", !.kind = kind]
  /\ UNCHANGED <<muts, count, book, auth, issued, tried, revoked, marker, disarming, keeper, clock, losses>>

(* The same arm as at the trigger, with its budgets and the stop flag. *)
stillAuthorized(reserved) ==
  signer.auth # 0 => /\ auth.id = signer.auth /\ assertWatchArm(auth, reserved) /\ ~keeper.stop

refusal(reserved) ==
  IF auth.id # signer.auth THEN "invariant"
  ELSE IF keeper.stop THEN "policy" ELSE refusedBy(auth, reserved)

(* executionPreflight, then the nonce the authorization accounts for. *)
settled == Unresolved = {} /\ NonceClean

PreflightGeneric ==
  /\ signer.pc = "locked"
  /\ IF ~settled THEN fails("invariant")
     ELSE IF signer.auth # 0 /\ (auth.id # signer.auth \/ ~assertWatchArm(auth, {})) THEN fails(refusal({}))
     ELSE IF signer.auth # 0 /\ Cardinality(Mined) # expectedNonce(auth) THEN fails("nonce")
     ELSE signer' = [signer EXCEPT !.pc = "ready", !.nonce = Cardinality(Mined)]
  /\ UNCHANGED <<muts, count, book, auth, issued, tried, revoked, marker, disarming, keeper, clock, losses>>

(* The selection, the nonce and the economics are read again; then asserted.   *)
AuthorizeGeneric ==
  /\ signer.pc = "ready"
  /\ IF stillAuthorized({}) THEN fails("signing") ELSE fails(refusal({}))
  /\ UNCHANGED <<muts, count, book, auth, issued, tried, revoked, marker, disarming, keeper, clock, losses>>

(* signTransaction was awaited: asserted once more, then raw and audit.        *)
PersistSigned ==
  /\ signer.pc = "signing"
  /\ IF ~stillAuthorized({}) THEN fails(refusal({})) /\ UNCHANGED <<muts, count>>
     ELSE /\ count < MaxMuts
          /\ count' = count + 1
          /\ muts' = [muts EXCEPT ![count + 1] =
               [NoMut EXCEPT !.audit = "signed", !.kind = signer.kind, !.nonce = signer.nonce,
                              !.auth = signer.auth, !.shot = signer.shot]]
          /\ signer' = [signer EXCEPT !.pc = "signed", !.mut = count + 1]
  /\ UNCHANGED <<book, auth, issued, tried, revoked, marker, disarming, keeper, clock, losses>>

(* The last assertion, with the attempt reserved: when it fails the mutation   *)
(* is recorded and open, and never sent.                                       *)
BroadcastSigned ==
  /\ signer.pc = "signed"
  /\ IF ~stillAuthorized(reservation(signer.mut)) THEN fails(refusal(reservation(signer.mut))) /\ UNCHANGED muts
     ELSE /\ \E reached \in BOOLEAN : muts' = [muts EXCEPT ![signer.mut].sent = reached]
          /\ fails("sent")
  /\ UNCHANGED <<count, book, auth, issued, tried, revoked, marker, disarming, keeper, clock, losses>>

(* Before the signature: no longer profitable, or an RPC failure.  After the   *)
(* broadcast: no receipt in time, or a balance that disagrees.                 *)
GenericFails(reason) ==
  /\ \/ signer.pc \in {"locked", "ready"} /\ (signer.by = "cli" => reason = "invariant")
     \/ signer.pc = "sent" /\ reason = "invariant"
  /\ fails(reason)
  /\ UNCHANGED <<muts, count, book, auth, issued, tried, revoked, marker, disarming, keeper, clock, losses>>

(* What a success writes: an execution is listed once and makes the lane       *)
(* eligible again, whatever halted it; a withdrawal ends automation.           *)
executionState(i) == [book EXCEPT !.eligible = TRUE, !.listed = @ \cup {i}]
deploymentState == [book EXCEPT !.deployed = TRUE]
withdrawalState == [book EXCEPT !.eligible = FALSE]

booked(kind, i) ==
  CASE kind = "execute" -> executionState(i)
    [] kind = "deploy"  -> deploymentState
    [] OTHER            -> withdrawalState

(* The state file first; a wallet delta that disagrees with the receipt halts. *)
BookSuccess ==
  /\ signer.pc = "sent" /\ muts[signer.mut].chain = "success"
  /\ \/ book' = booked(signer.kind, signer.mut) /\ fails("booked")
     \/ signer.kind = "execute" /\ book' = [book EXCEPT !.eligible = FALSE] /\ fails("invariant")
  /\ UNCHANGED <<muts, count, auth, issued, tried, revoked, marker, disarming, keeper, clock, losses>>

(* A reverted execution or withdrawal halts first. *)
BookRevert ==
  /\ signer.pc = "sent" /\ muts[signer.mut].chain = "reverted"
  /\ book' = [book EXCEPT !.eligible = @ /\ signer.kind = "deploy"]
  /\ fails("halted")
  /\ UNCHANGED <<muts, count, auth, issued, tried, revoked, marker, disarming, keeper, clock, losses>>

CloseMutation ==
  /\ signer.pc \in {"booked", "halted"}
  /\ muts' = [muts EXCEPT ![signer.mut].audit = IF signer.pc = "booked" THEN "effect" ELSE "reverted"]
  /\ fails(IF signer.pc = "booked" THEN "done" ELSE "invariant")
  /\ UNCHANGED <<count, book, auth, issued, tried, revoked, marker, disarming, keeper, clock, losses>>

CliEnds ==
  /\ signer.by = "cli" /\ signer.pc \in {"done", "miss", "transport", "invariant", "nonce", "policy"}
  /\ signer' = NoSigner
  /\ UNCHANGED <<muts, count, book, auth, issued, tried, revoked, marker, disarming, keeper, clock, losses>>

(* reconcile: the watcher must not be alive.  A success is booked and closed,  *)
(* a revert closed and then halted, an unsent raw sent again or abandoned.     *)
ReconcileGeneric ==
  /\ keeper.pc = "off" /\ signer.pc = "idle"
  /\ \E i \in Unresolved :
       \/ /\ muts[i].chain = "success"
          /\ signer' = [NoSigner EXCEPT !.pc = "booked", !.by = "cli", !.mut = i]
          /\ book' = booked(muts[i].kind, i)
          /\ UNCHANGED muts
       \/ /\ muts[i].chain = "reverted"
          /\ muts' = [muts EXCEPT ![i].audit = "reverted"]
          /\ signer' = [NoSigner EXCEPT !.pc = "halting", !.by = "cli"]
          /\ UNCHANGED book
       \/ /\ ~muts[i].sent
          /\ \E again \in BOOLEAN :
               muts' = [muts EXCEPT ![i].sent = again, ![i].audit = IF again THEN "signed" ELSE "abandoned"]
          /\ UNCHANGED <<signer, book>>
  /\ UNCHANGED <<count, auth, issued, tried, revoked, marker, disarming, keeper, clock, losses>>

ReconcileHalts ==
  /\ signer.pc = "halting"
  /\ book' = [book EXCEPT !.eligible = FALSE]
  /\ fails("done")
  /\ UNCHANGED <<muts, count, auth, issued, tried, revoked, marker, disarming, keeper, clock, losses>>

(* A process is killed; its locks are taken over as stale. *)
LoseWatcher ==
  /\ keeper.pc # "off" /\ losses < MaxLosses
  /\ losses' = losses + 1
  /\ keeper' = NoKeeper
  /\ signer' = IF signer.by = "watch" THEN NoSigner ELSE signer
  /\ UNCHANGED <<muts, count, book, auth, issued, tried, revoked, marker, disarming, clock>>

LoseCommand ==
  /\ losses < MaxLosses
  /\ losses' = losses + 1
  /\ \/ signer.by = "cli" /\ signer' = NoSigner /\ UNCHANGED disarming
     \/ disarming.pc # "none" /\ disarming' = NoDisarm /\ UNCHANGED signer
  /\ UNCHANGED <<muts, count, book, auth, issued, tried, revoked, marker, keeper, clock>>

LaneNext ==
  \/ Tick \/ \E i \in Muts, result \in {"success", "reverted"} : MineMutation(i, result)
  \/ ArmGeneric \/ DisarmMark \/ DisarmWrite
  \/ WatchStart \/ WatchTop \/ RenewCheck \/ RenewWrite \/ RenewVerify \/ BoardIdle
  \/ \E b \in BOOLEAN : RenewFails(b)
  \/ \E o \in Opportunity : BoardCandidate(o)
  \/ \E out \in {"done", "miss", "transport", "invariant", "nonce", "policy"} : ExecutionEnds(out)
  \/ LockForWatch \/ \E kind \in {"deploy", "execute", "withdraw"} : LockForCli(kind)
  \/ PreflightGeneric \/ AuthorizeGeneric \/ PersistSigned \/ BroadcastSigned
  \/ \E reason \in {"miss", "transport", "invariant"} : GenericFails(reason)
  \/ BookSuccess \/ BookRevert \/ CloseMutation \/ CliEnds
  \/ ReconcileGeneric \/ ReconcileHalts \/ LoseWatcher \/ LoseCommand

LaneSpec == LaneInit /\ [][LaneNext]_laneVars

--------------------------------------------------------------------------------
(* Properties *)

GenericTypeOK ==
  /\ count \in 0 .. MaxMuts /\ marker \in 0 .. MaxAuths /\ revoked \subseteq 1 .. MaxAuths
  /\ \A i \in Muts : muts[i].audit \in {"none", "signed", "effect", "reverted", "abandoned"}

live(a) == auth.id = a /\ auth.armed /\ marker # a

(* Once a revocation marker was written for an authorization, no interleaving  *)
(* of a renewal, a disarm, a crash and a new arm makes it valid again.         *)
RevocationFinal == \A a \in revoked : ~live(a)

(* Under one authorization an opportunity is signed at most once, and no more  *)
(* than maxAttempts mutations are, over restarts, misses and reconciliations.  *)
ShotsTakenOnce ==
  \A a \in 1 .. MaxAuths :
    /\ Cardinality(signedUnder(a)) <= Budget
    /\ \A i, k \in signedUnder(a) : muts[i].shot = muts[k].shot => i = k

(* The executions of the state file are the successes of the chain, each       *)
(* closed in the audit or still open; and a nonce is mined for one of them.    *)
BookMatchesChain ==
  /\ \A i \in book.listed : muts[i].chain = "success" /\ muts[i].audit \in {"signed", "effect"}
  /\ Cardinality(Unresolved) <= 1
  /\ \A i, k \in Mined : muts[i].nonce = muts[k].nonce => i = k

(* An expired lease cannot revive itself (the comment on                       *)
(* evaluateGenericRollingLease): refuted, the renewal reads the clock before   *)
(* its chain reads and writes the new expiry after them.                       *)
ExpiredStaysExpired ==
  [][(auth'.id = auth.id /\ auth'.expires > auth.expires) => clock < auth.expires]_laneVars
================================================================================
