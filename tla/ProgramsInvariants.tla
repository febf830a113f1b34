-------------------------- MODULE ProgramsInvariants --------------------------
(* What holds of the programs of SigningPrograms between their steps: the       *)
(* inductive invariants from which ProgramsProofs has its theorems, the shapes  *)
(* of the values they speak of, and what a step may make of them.               *)
EXTENDS SigningPrograms, Sequences

--------------------------------------------------------------------------------
(* The exclusion of the lanes: a program that is under way has its lock.      *)

Programs == Exclusion!Program
Roles == Exclusion!Role
Locks == Exclusion!Lock
theOther(lane) == Exclusion!other(lane)

HasLock(p) ==
  /\ pc[p] # "off" => holder[Exclusion!own(p)] = p
  /\ pc[p] = "opened" => file[Exclusion!own(p)] = "empty"
  /\ pc[p] \in {"locked", "checked", "signing"} => file[Exclusion!own(p)] = "pid"
  /\ pc[p] = "checked" => p[2] # "command"
  /\ pc[p] = "signing" => p[2] # "arm" /\ holder["wallet"] = p

ArmHasWallet == pc[<<"generic", "arm">>] = "checked" => holder["wallet"] = <<"generic", "arm">>
CommandAlone == pc[<<"fixed", "command">>] = "signing" => ~armed["generic"]

ExclusionInv ==
  /\ pc \in [Programs -> {"off", "opened", "locked", "checked", "signing"}]
  /\ file \in [Locks -> {"absent", "empty", "pid"}]
  /\ holder \in [Locks -> Programs \cup {Exclusion!Nobody}]
  /\ armed \in [{"fixed", "generic"} -> BOOLEAN]
  /\ \A l \in Locks : holder[l] # Exclusion!Nobody => file[l] # "absent"
  /\ \A p \in Programs : HasLock(p)
  /\ ArmHasWallet /\ CommandAlone
  /\ Exclusion!LanesExclusive
  /\ \A lane \in {"fixed", "generic"} : Exclusion!Past(lane) => ~armed[theOther(lane)]

--------------------------------------------------------------------------------
(* The leases of the generic lane: what a disarm wrote stays written.         *)

(* An arm file has its fields, whatever they hold. *)
AuthShape(a) ==
  /\ a = [id |-> a.id, armed |-> a.armed, revision |-> a.revision, expires |-> a.expires, nonce |-> a.nonce,
          listed |-> a.listed]
  /\ a.id \in 0 .. issued

KeeperShape ==
  /\ keeper = [pc |-> keeper.pc, status |-> keeper.status, stop |-> keeper.stop, seen |-> keeper.seen,
               lease |-> keeper.lease, now |-> keeper.now, retryAt |-> keeper.retryAt, misses |-> keeper.misses]
  /\ AuthShape(keeper.lease)

DisarmShape ==
  /\ disarming = [pc |-> disarming.pc, auth |-> disarming.auth] /\ AuthShape(disarming.auth)

Dead(a) ==
  /\ auth.id = a => ~auth.armed
  /\ keeper.pc = "renewWrite" => keeper.lease.id # a

LeaseInv ==
  /\ issued \in Nat /\ revoked \subseteq 0 .. issued /\ marker \in 0 .. issued
  /\ AuthShape(auth) /\ KeeperShape /\ DisarmShape
  /\ disarming.pc = "marked" => disarming.auth.id = marker
  /\ keeper.pc = "renewWrite" /\ marker = keeper.lease.id => auth.id = marker
  /\ \A a \in revoked : a # marker => Dead(a)

(* A watcher that holds no lease. *)
Ended(where, status) ==
  [pc |-> where, status |-> status, stop |-> FALSE, seen |-> "none", lease |-> Leases!NoAuth, now |-> 0,
   retryAt |-> 0, misses |-> 0]

--------------------------------------------------------------------------------
(* The shots of the generic lane: listed first, signed once.                  *)

Shot == ShotOpportunity \cup {"none"}

Kind == {"none", "deploy", "execute", "withdraw"}
Outcome == {"done", "miss", "transport", "invariant", "nonce", "policy"}
Progress == {"idle", "locked", "ready", "signing", "signed", "sent", "booked", "halted", "halting"} \cup Outcome

MutRecord ==
  [audit : {"none", "signed", "effect", "reverted", "abandoned"}, kind : Kind, nonce : Nat, auth : Nat,
   shot : Shot, sent : BOOLEAN, chain : {"none", "success", "reverted"}]

SignerRecord ==
  [pc : Progress, by : {"none", "watch", "cli"}, kind : Kind, auth : Nat, nonce : Nat, mut : Nat, shot : Shot]

ShotTypes ==
  /\ issued \in Nat /\ AuthShape(auth) /\ KeeperShape /\ DisarmShape /\ keeper.seen \in Shot
  /\ muts \in [1 .. ShotMuts -> MutRecord] /\ count \in 0 .. ShotMuts
  /\ signer \in SignerRecord

(* What a step makes of the watcher. *)
KeeperStep ==
  /\ KeeperShape' /\ keeper'.seen \in Shot
  /\ keeper'.pc = "execute" =>
       \/ keeper.pc = "execute" /\ keeper'.seen = keeper.seen
       \/ keeper.pc = "board" /\ signer' = signer /\ muts' = muts /\ auth' = auth
          /\ <<auth.id, keeper'.seen>> \notin tried /\ tried' = tried \cup {<<auth.id, keeper'.seen>>}
  /\ keeper'.pc # "off" => keeper.pc # "off" \/ auth.armed
  /\ keeper'.pc \in {"renew", "renewWrite"} =>
       \/ auth.armed /\ keeper'.lease = auth
       \/ keeper.pc \in {"renew", "renewWrite"} /\ keeper'.lease = keeper.lease

(* What a step makes of the arm file and of a disarm. *)
AuthStep ==
  /\ issued' \in Nat /\ AuthShape(auth)' /\ DisarmShape'
  /\ auth'.armed => \/ auth'.id = auth.id /\ auth.armed
                    \/ keeper.pc = "off" /\ keeper' = keeper /\ auth'.id = issued + 1
                    \/ keeper.pc = "renewWrite" /\ keeper'.pc = "renewVerify" /\ auth'.id = keeper.lease.id
  /\ \/ auth'.id = auth.id
     \/ auth'.id = issued + 1
     \/ disarming.pc = "marked" /\ auth'.id = disarming.auth.id
     \/ keeper.pc = "renewWrite" /\ auth'.id = keeper.lease.id
  /\ disarming'.pc = "marked" => \/ disarming' = disarming
                                 \/ auth.id # 0 /\ disarming'.auth = auth

(* Who holds the wallet lock for the watcher serves the watcher's execution. *)
Serving ==
  /\ signer.by = "watch" => keeper.pc = "execute" /\ signer.shot = keeper.seen
  /\ signer.by # "watch" => signer.auth = 0
  /\ signer.pc = "idle" => signer.by = "none"

(* The watcher has not signed for the opportunity it is at. *)
Unsigned == signer.by # "watch" \/ signer.pc \in {"locked", "ready", "signing"}

(* What a step makes of the holder of the wallet lock. *)
SignerStep ==
  /\ signer' \in SignerRecord /\ Serving'
  /\ Unsigned' => Unsigned \/ keeper'.pc # "execute"

Audits == {"none", "signed", "effect", "reverted", "abandoned"}

(* A mutation whose fate is rewritten. *)
Fate(r, a, s, c) == [r EXCEPT !.audit = a, !.sent = s, !.chain = c]

(* The one mutation a step rewrites, and what becomes of it. *)
Rewritten(i, a, s, c) == muts' = [muts EXCEPT ![i] = Fate(muts[i], a, s, c)]

(* What a step makes of a mutation once signed: its authorization and its shot *)
(* stay, and it stays in the audit.                                            *)
Kept(i) ==
  /\ muts'[i].auth = muts[i].auth /\ muts'[i].shot = muts[i].shot
  /\ muts[i].audit # "none" => muts'[i].audit # "none"

(* A mutation more, under the authority of the arm. *)
Signs ==
  /\ signer.pc = "signing" /\ signer'.pc = "signed" /\ signer'.by = signer.by /\ signer'.mut = count + 1
  /\ count < ShotMuts /\ count' = count + 1 /\ UNCHANGED <<auth, keeper, tried, book>>
  /\ \A i \in (1 .. ShotMuts) \ {count + 1} : muts'[i] = muts[i]
  /\ muts'[count + 1] = [Shots!NoMut EXCEPT !.audit = "signed", !.kind = signer.kind, !.nonce = signer.nonce,
                                            !.auth = signer.auth, !.shot = signer.shot]
  /\ signer.auth # 0 => /\ auth.id = signer.auth /\ auth.armed
                        /\ Cardinality(Shots!signedUnder(auth.id)) < ShotBudget

(* An arm in force, a disarm, a renewal and a watcher have an authorization. *)
Named ==
  /\ auth.armed => auth.id # 0
  /\ disarming.pc = "marked" => disarming.auth.id # 0
  /\ keeper.pc \in {"renew", "renewWrite"} => keeper.lease.id # 0
  /\ keeper.pc # "off" => auth.id # 0

(* Until the watcher signs for it, the opportunity it is at is listed for the *)
(* arm in force, and unsigned.                                                *)
Listed ==
  keeper.pc = "execute" /\ auth.armed =>
    /\ <<auth.id, keeper.seen>> \in tried
    /\ Unsigned => \A i \in 1 .. ShotMuts : ~(muts[i].auth = auth.id /\ muts[i].shot = keeper.seen)

(* What was signed under an authorization. *)
Once ==
  /\ \A i \in 1 .. ShotMuts : muts[i].auth # 0 => muts[i].audit # "none" /\ <<muts[i].auth, muts[i].shot>> \in tried
  /\ \A i, k \in 1 .. ShotMuts :
       muts[i].auth # 0 /\ muts[i].auth = muts[k].auth /\ muts[i].shot = muts[k].shot => i = k
  /\ \A a \in Nat \ {0} : Cardinality(Shots!signedUnder(a)) <= ShotBudget

ShotInv == ShotTypes /\ Serving /\ Named /\ Listed /\ Once

--------------------------------------------------------------------------------
(* The retries of the fixed lane: what the queue remembers of blocks not      *)
(* quoted.                                                                    *)

WatchShape ==
  /\ watch = [pc |-> watch.pc, status |-> watch.status, errors |-> watch.errors, last |-> watch.last,
              target |-> watch.target, stop |-> watch.stop, arm |-> watch.arm]
  /\ watch.errors \in Nat /\ watch.last \in Nat /\ watch.target \in Nat
  /\ watch.pc \in {"off", "loop", "wait", "quote", "execute", "heartbeat", "backoff"}

QueueShape ==
  /\ queue = [pending |-> queue.pending, seen |-> queue.seen]
  /\ queue.pending \in Nat /\ queue.seen \subseteq Nat \X Nat

(* The highest block the queue may remember above the last one quoted. *)
reach == IF watch.pc \in {"loop", "wait"} THEN queue.pending ELSE watch.target

RetryInv ==
  /\ tip \in Nat /\ WatchShape /\ QueueShape
  /\ watch.pc \in {"loop", "wait"} /\ watch.target # 0 => queue.pending >= watch.target
  /\ watch.pc \in {"execute", "heartbeat"} => watch.target = 0
  /\ watch.pc = "quote" => watch.target > watch.last
  /\ watch.pc = "backoff" => watch.target = 0 \/ watch.target > watch.last
  /\ watch.pc # "off" => \A s \in queue.seen :
       s[1] <= watch.last \/ (s[1] <= reach /\ s[2] <= watch.errors /\ (watch.pc = "backoff" => s[2] < watch.errors))

--------------------------------------------------------------------------------
(* The books of the generic lane: one mutation is open, and its holder has    *)
(* the lock.                                                                  *)

MutsKept ==
  /\ \A i \in 1 .. ShotMuts : /\ i > count => muts[i].audit = "none"
                              /\ muts[i].audit = "none" => muts[i].chain = "none"
                              /\ muts[i].chain # "none" => muts[i].sent
  /\ \A i, k \in 1 .. ShotMuts : muts[i].audit = "signed" /\ muts[k].audit = "signed" => i = k

MinedKept ==
  /\ \A i \in 1 .. ShotMuts : muts[i].chain # "none" => muts[i].nonce < Cardinality(Shots!Mined)
  /\ \A i, k \in 1 .. ShotMuts :
       muts[i].chain # "none" /\ muts[k].chain # "none" /\ muts[i].nonce = muts[k].nonce => i = k

HolderKept ==
  /\ signer.pc \in {"ready", "signing"} => \A i \in 1 .. ShotMuts : muts[i].audit # "signed"
  /\ signer.pc \in {"signed", "sent", "booked", "halted"} =>
       signer.mut \in 1 .. ShotMuts /\ muts[signer.mut].audit = "signed"
  /\ signer.pc = "signed" => ~muts[signer.mut].sent
  /\ signer.pc = "booked" => muts[signer.mut].chain = "success"
  /\ signer.pc = "halted" => muts[signer.mut].chain = "reverted"

BookKept ==
  /\ book = [deployed |-> book.deployed, eligible |-> book.eligible, listed |-> book.listed]
  /\ \A i \in book.listed : /\ i \in 1 .. ShotMuts /\ muts[i].chain = "success"
                            /\ muts[i].audit \in {"signed", "effect"}

BookInv == MutsKept /\ MinedKept /\ HolderKept /\ BookKept

(* The holder of the lock goes nowhere near a mutation. *)
Elsewhere ==
  \/ signer'.pc \notin {"ready", "signing", "signed", "sent", "booked", "halted"}
  \/ signer'.pc = signer.pc /\ signer'.mut = signer.mut

--------------------------------------------------------------------------------
(* The Global program: nothing is open when it signs; the ledger precedes the *)
(* audit.                                                                     *)

PlanRecord == [nonce : Nat, base : Nat, minimum : Nat]

RawRecord ==
  [kind : {"deploy", "execute"}, auth : Nat, plan : PlanRecord, audit : {"signed", "effect", "reverted"},
   sent : BOOLEAN, chain : {"none", "success", "reverted"}, gross : Nat, after : Nat, cost : Nat]

CommandRecord ==
  [pc : {"off", "searching", "planned", "signed", "sent", "judging", "written"},
   kind : {"none", "deploy", "execute", "reconcile"}, auth : Nat, plan : PlanRecord, raw : Nat]

LedgerRecord ==
  [executor : Nat, status : {"none", "deployed", "live_net_validated"}, listed : Seq([raw : Nat, net : Int])]

GlobalTypes ==
  /\ raws \in Seq(RawRecord) /\ ledger \in LedgerRecord /\ held \in Nat
  /\ authority \in [id : Nat, live : BOOLEAN] /\ command \in CommandRecord

Listing(i) == \E k \in DOMAIN ledger.listed : ledger.listed[k].raw = i

RawsKept ==
  \A i \in DOMAIN raws :
    /\ raws[i].plan.nonce = i - 1
    /\ raws[i].audit = "signed" => i = Len(raws)
    /\ raws[i].audit = "reverted" => raws[i].chain = "reverted"
    /\ raws[i].audit = "effect" => raws[i].chain = "success"
    /\ raws[i].audit = "effect" /\ raws[i].kind = "execute" => Listing(i)

ListedKept ==
  /\ \A k \in DOMAIN ledger.listed :
       /\ ledger.listed[k].raw \in DOMAIN raws
       /\ raws[ledger.listed[k].raw].kind = "execute" /\ raws[ledger.listed[k].raw].chain = "success"
       /\ ledger.listed[k].net = raws[ledger.listed[k].raw].gross - raws[ledger.listed[k].raw].cost
  /\ \A k, m \in DOMAIN ledger.listed : ledger.listed[k].raw = ledger.listed[m].raw => k = m

(* One executor, which the ledger names unless its deployment is still open. *)
ExecutorKept ==
  /\ ledger.executor # 0 => /\ ledger.executor \in DOMAIN raws
                            /\ raws[ledger.executor].kind = "deploy" /\ raws[ledger.executor].chain = "success"
  /\ \A i \in DOMAIN raws : raws[i].kind = "deploy" =>
       /\ raws[i].chain = "success" => ledger.executor = i \/ (ledger.executor = 0 /\ raws[i].audit = "signed")
       /\ raws[i].audit = "signed" => ledger.executor \in {0, i}
       /\ raws[i].audit = "effect" => ledger.executor = i

CommandKept ==
  /\ command.pc \in {"searching", "planned"} => \A i \in DOMAIN raws : raws[i].audit # "signed"
  /\ command.pc = "searching" => command.kind = "execute"
  /\ command.pc = "planned" => /\ command.plan.nonce = Len(raws) /\ command.kind \in {"deploy", "execute"}
                               /\ command.kind = "deploy" => ledger.executor = 0
  /\ command.pc \in {"signed", "sent", "judging", "written"} =>
       command.raw \in DOMAIN raws /\ raws[command.raw].audit = "signed"
  /\ command.pc = "written" =>
       /\ raws[command.raw].chain = "success"
       /\ raws[command.raw].kind = "execute" => Listing(command.raw)
       /\ raws[command.raw].kind = "deploy" => ledger.executor = command.raw

GlobalInv == GlobalTypes /\ RawsKept /\ ListedKept /\ ExecutorKept /\ CommandKept

--------------------------------------------------------------------------------
(* The collector: a target begins with nothing open, and the fee is there.    *)

Targets == {"MANGA", "SPX"}

WithdrawalRecord ==
  [target : Targets, amount : Nat, fee : Nat, nonce : Nat, base : [usdg : Nat, eth : Int],
   audit : {"signed", "effect", "reverted"}, sent : BOOLEAN, chain : {"none", "success", "reverted"}, paid : Nat]

FrozenPlan == [left : SUBSET Targets, amount : [Targets -> Nat], fee : Nat, nonce : Nat]

CollectingRecord ==
  [pc : {"off", "target", "planned", "signed", "sent", "judging", "booked", "rebooked"},
   plan : FrozenPlan, base : [usdg : Nat, eth : Int], raw : Nat]

CollectorTypes ==
  /\ signed \in Seq(WithdrawalRecord) /\ eth \in Int /\ usdg \in Nat
  /\ funds \in [Targets -> Nat] /\ collected \in [Targets -> Nat] /\ collecting \in CollectingRecord

WithdrawalsKept ==
  \A i \in DOMAIN signed :
    /\ signed[i].nonce = i - 1
    /\ signed[i].audit = "signed" => i = Len(signed)
    /\ signed[i].audit = "reverted" => signed[i].chain = "reverted"
    /\ signed[i].audit = "effect" => signed[i].chain = "success" /\ collected[signed[i].target] >= i
    /\ signed[i].chain = "none" => eth >= Retained + signed[i].fee

StatesKept ==
  \A t \in Targets : collected[t] # 0 =>
    collected[t] \in DOMAIN signed /\ signed[collected[t]].target = t /\ signed[collected[t]].chain = "success"

CollectingKept ==
  /\ collecting.pc \in {"target", "planned"} => \A i \in DOMAIN signed : signed[i].audit # "signed"
  /\ collecting.pc = "planned" => /\ collecting.plan.left # {} /\ collecting.plan.nonce = Len(signed)
                                  /\ eth >= Retained + collecting.plan.fee
  /\ collecting.pc \in {"signed", "sent", "judging", "booked", "rebooked"} =>
       collecting.raw \in DOMAIN signed /\ signed[collecting.raw].audit = "signed"
  /\ collecting.pc \in {"booked", "rebooked"} =>
       /\ signed[collecting.raw].chain = "success"
       /\ collected[signed[collecting.raw].target] = collecting.raw

CollectorInv ==
  CollectorTypes /\ WithdrawalsKept /\ StatesKept /\ CollectingKept /\ eth >= Retained

(* The program at rest. *)
CollectorRest ==
  [pc |-> "off", plan |-> [left |-> {}, amount |-> [t \in Targets |-> 0], fee |-> 0, nonce |-> 0],
   base |-> [usdg |-> 0, eth |-> 0], raw |-> 0]

--------------------------------------------------------------------------------
(* The fixed lane's books: one command, and deployments before executions.    *)

Workers == {"watch", "cli"}

TxRecord ==
  [kind : {"deploy", "execute", "withdraw"}, nonce : Nat, audit : {"signed", "effect", "reverted"},
   by : Workers, under : Nat, late : BOOLEAN, sent : BOOLEAN, chain : {"none", "success", "reverted"},
   notes : SUBSET {"accepted"}]

StateRecord ==
  [status : {"none", "deployed", "live_validated", "withdrawn", "halted_after_revert"}, executions : Seq(Nat)]

JobRecord ==
  [pc : {"idle", "checked", "signed", "sent", "effect", "revert", "done", "noshot", "transient", "invariant", "halt"},
   kind : {"none", "deploy", "execute", "withdraw", "reconcile", "recover"}, nonce : Nat, tx : Nat]

FixedTypes ==
  /\ txs \in Seq(TxRecord) /\ state \in StateRecord /\ jobs \in [Workers -> JobRecord]

(* The number of an authorization, and of the one the watcher serves. *)
Numbered(w) ==
  /\ w = [pc |-> w.pc, status |-> w.status, errors |-> w.errors, last |-> w.last, target |-> w.target,
          stop |-> w.stop, arm |-> w.arm]
  /\ w.arm \in Nat

ArmNumbers ==
  /\ arm = [status |-> arm.status, id |-> arm.id, nonce |-> arm.nonce, count |-> arm.count,
            attempts |-> arm.attempts, failed |-> arm.failed]
  /\ arm.id \in Nat /\ Numbered(watch)

Executed(i) == \E k \in DOMAIN state.executions : state.executions[k] = i

TxsKept ==
  \A i \in DOMAIN txs :
    /\ txs[i].nonce = i - 1
    /\ txs[i].audit = "signed" => i = Len(txs)
    /\ txs[i].audit = "reverted" => txs[i].chain = "reverted"
    /\ txs[i].audit = "effect" => txs[i].chain = "success"
    /\ txs[i].audit = "effect" /\ txs[i].kind = "execute" => Executed(i)

StateKept ==
  /\ \A k \in DOMAIN state.executions :
       /\ state.executions[k] \in DOMAIN txs
       /\ txs[state.executions[k]].kind = "execute" /\ txs[state.executions[k]].chain = "success"
  /\ \A k, m \in DOMAIN state.executions : state.executions[k] = state.executions[m] => k = m

(* Executions and withdrawals follow a deployment on record, and a deployment   *)
(* is on record before its mutation is closed.                                  *)
DeployedFirst ==
  /\ state.status = "none" => \A i \in DOMAIN txs : txs[i].kind = "deploy" /\ txs[i].audit # "effect"
  /\ \A i \in DOMAIN txs : txs[i].kind = "deploy" /\ txs[i].audit = "signed" =>
       \A k \in DOMAIN txs : txs[k].kind = "deploy"

(* What a command relies on at each of its steps. *)
JobKept(j) ==
  /\ j.pc = "checked" => /\ \A i \in DOMAIN txs : txs[i].audit # "signed"
                         /\ j.nonce = Len(txs) /\ j.kind \in {"deploy", "execute", "withdraw"}
                         /\ (j.kind = "deploy") = (state.status = "none")
  /\ j.pc \in {"signed", "sent", "effect", "revert"} => j.tx \in DOMAIN txs /\ txs[j.tx].audit = "signed"
  /\ j.pc = "effect" => /\ txs[j.tx].chain = "success" /\ state.status # "none"
                        /\ txs[j.tx].kind = "execute" => Executed(j.tx)
  /\ j.pc = "revert" => txs[j.tx].chain = "reverted"

Alone == \A p, q \in Workers : jobs[p].pc # "idle" /\ jobs[q].pc # "idle" => p = q

JobsKept == \A p \in Workers : JobKept(jobs[p])

FixedInv == FixedTypes /\ ArmNumbers /\ TxsKept /\ StateKept /\ DeployedFirst /\ Alone /\ JobsKept

--------------------------------------------------------------------------------
(* The programs that keep nonces and books, together.                         *)

ProgramsInv ==
  /\ part = "fixed" => FixedInv
  /\ part = "global" => GlobalInv
  /\ part = "collector" => CollectorInv
  /\ part = "shots" => ShotInv /\ BookInv

--------------------------------------------------------------------------------
(* Types and bounds: what was named was issued, what is counted ends below a  *)
(* limit.                                                                     *)

LostBound == lost \in 0 .. MaxLost

Stages == {"off", "loop", "wait", "quote", "execute", "heartbeat", "backoff"}

(* A watcher has not yet had the errors that end it. *)
Streak(limit) ==
  /\ watch = [pc |-> watch.pc, status |-> watch.status, errors |-> watch.errors, last |-> watch.last,
              target |-> watch.target, stop |-> watch.stop, arm |-> watch.arm]
  /\ watch.pc \in Stages /\ watch.errors \in Nat /\ watch.errors < limit

(* What a step may make of the watcher, if it counts errors below a limit. *)
StreakMoves(limit) ==
  \/ watch' = watch
  \/ watch' = Fixed!NoWatch
  \/ \E stop : watch' = [watch EXCEPT !.stop = stop]
  \/ \E armId : watch' = [Fixed!NoWatch EXCEPT !.pc = "loop", !.arm = armId]
  \/ \E stage \in Stages : watch' = [watch EXCEPT !.pc = stage]
  \/ \E stage \in Stages : \E block : watch' = [watch EXCEPT !.pc = stage, !.target = block]
  \/ \E stage \in Stages : \E block : watch' = [watch EXCEPT !.pc = stage, !.errors = 0, !.last = block, !.target = 0]
  \/ ~(watch.errors + 1 >= limit) /\ watch' = [watch EXCEPT !.pc = "backoff", !.errors = watch.errors + 1]

(* A transaction of the audit has its fields; the retries' program keeps them.  *)
TxShape(t) ==
  /\ t = [kind |-> t.kind, nonce |-> t.nonce, audit |-> t.audit, by |-> t.by, under |-> t.under, late |-> t.late,
          sent |-> t.sent, chain |-> t.chain, notes |-> t.notes]
  /\ t.audit \in {"signed", "effect", "reverted"} /\ t.chain \in {"none", "success", "reverted"}

TxsShaped == (\E S : txs \in Seq(S)) /\ \A i \in DOMAIN txs : TxShape(txs[i])

(* The generic lane, with either set of bounds: an authorization is issued before *)
(* a marker names it.                                                            *)
Announced(n) == issued \in 0 .. n /\ marker \in 0 .. issued /\ revoked \subseteq 1 .. issued

MutShape(m) ==
  /\ m = [audit |-> m.audit, kind |-> m.kind, nonce |-> m.nonce, auth |-> m.auth, shot |-> m.shot,
          sent |-> m.sent, chain |-> m.chain]
  /\ m.audit \in {"none", "signed", "effect", "reverted", "abandoned"}

MutsShaped ==
  /\ muts = [i \in 1 .. LeaseMuts |-> muts[i]] /\ \A i \in 1 .. LeaseMuts : MutShape(muts[i])
  /\ count \in 0 .. LeaseMuts

(* The Global program: what it signed carries an authorization that was issued,  *)
(* and a floor within what a market can earn.                                    *)
GlobalBounds ==
  /\ Len(raws) <= GlobalSigned /\ authority.id <= MaxArms /\ globalKills \in 0 .. GlobalKills
  /\ command.auth <= authority.id /\ command.plan.minimum <= MaxMarket
  /\ \A i \in DOMAIN raws : raws[i].auth <= authority.id /\ raws[i].plan.minimum <= MaxMarket

(* Nothing is signed: what was keeps its authorization and its plan. *)
RawsSame ==
  /\ Len(raws') = Len(raws) /\ DOMAIN raws' = DOMAIN raws
  /\ \A i \in DOMAIN raws : raws'[i].auth = raws[i].auth /\ raws'[i].plan = raws[i].plan

(* The collector: an executor holds no more than it began with and was given. *)
CollectorBounds ==
  /\ Len(signed) <= CollectorSigned /\ gifts \in 0 .. MaxGifts /\ collectorKills \in 0 .. CollectorKills
  /\ \A t \in Targets : funds[t] <= 1 + gifts
  /\ lock \in {"free", "held", "stale"} /\ (collecting.pc # "off" => lock = "held")

--------------------------------------------------------------------------------
(* The fixed lane's watcher under its authorization.                          *)

Own(a) == {i \in DOMAIN txs : txs[i].by = "watch" /\ txs[i].under = a}

(* The watcher passed the loop's top and has not signed since. *)
Poised ==
  \/ watch.pc \in {"wait", "quote"}
  \/ watch.pc = "execute" /\ jobs["watch"].pc \in {"idle", "checked"}

(* While it runs the arm file is the one it serves, and its command executes.   *)
WatchServes ==
  /\ arm.attempts \in Nat /\ arm.failed \in Nat
  /\ watch.pc # "off" => watch.arm = arm.id /\ ~arming.busy
  /\ jobs["watch"].pc # "idle" => watch.pc = "execute" /\ jobs["watch"].kind = "execute"

(* What was recorded since the arm counts what the watcher signed under it.     *)
OwnCounted ==
  /\ \A i \in DOMAIN txs : txs[i].by = "watch" => txs[i].under <= arm.id /\ txs[i].kind = "execute"
  /\ \A i \in Own(arm.id) : /\ txs[i].audit = "reverted" => arm.failed >= 1
                            /\ txs[i].late => arm.status # "ARMED"
  /\ Cardinality(Own(arm.id)) <= arm.attempts

PoisedKept ==
  Poised => /\ \A i \in Own(arm.id) : txs[i].audit = "effect" /\ ~txs[i].late
            /\ Cardinality(Own(arm.id)) + 1 <= MaxAttempts

ArmsEnd ==
  \A a \in Nat :
    /\ \A i, j \in Own(a) : i < j => txs[i].chain # "reverted"
    /\ \A i, j \in Own(a) : txs[i].late /\ txs[j].late => i = j
    /\ Cardinality(Own(a)) <= MaxAttempts

ServedInv == WatchServes /\ OwnCounted /\ PoisedKept /\ ArmsEnd

PoisedFacts ==
  /\ \A i \in Own(arm.id) : txs[i].audit = "effect" /\ ~txs[i].late
  /\ Cardinality(Own(arm.id)) + 1 <= MaxAttempts

--------------------------------------------------------------------------------
(* Numbers in their order.  Those up to the k-th of a list that grows are k;    *)
(* so a list that grows is the order of its numbers.                            *)
Grows(f, n) == \A i, j \in 1 .. n : i < j => f[i] < f[j]
Numbers(f, n) == {f[i] : i \in 1 .. n}
UpTo(S, x) == {y \in S : y <= x}

(* The order of some numbers and of higher ones. *)
Above(S, n, R) == S \cup {n + r : r \in R}

Joined(a, b, n, c) ==
  /\ Len(c) = Len(a) + Len(b)
  /\ \A i \in 1 .. Len(a) : c[i] = a[i]
  /\ \A i \in 1 .. Len(b) : c[Len(a) + i] = n + b[i]

--------------------------------------------------------------------------------
(* Lines of an audit ledger.                                                  *)

Ends(s) == {i \in DOMAIN s : s[i] = Audit!nl}
Count(s) == Len(Audit!newlines(s))

(* What a line is, and the bytes after the last end. *)
rest(s) == Audit!lineAt(s, Count(s) + 1)

--------------------------------------------------------------------------------
(* Records of its lines.                                                      *)

Found(w) == {k \in DOMAIN w : Audit!parseLine(w[k]) = "record"}
Throws(w) == \E k \in DOMAIN w : Audit!parseLine(w[k]) = "throws"

--------------------------------------------------------------------------------
(* The reader of the ledger: it knows what ended in what it read, and keeps   *)
(* the rest.                                                                  *)

Kinds == {"safety", "other", "wake", "dump"}
AuditPiece == (Kinds \cup {"nl"}) \X Nat \X Nat

Readers(P, Q) ==
  [inode : Nat, offset : Nat, pending : P, records : Q, skipping : BOOLEAN, target : Nat, reading : BOOLEAN,
   threw : BOOLEAN]
ReaderShape(r) == \E P, Q : r \in Readers(P, Q)

Knows(r, s) == r.records = Audit!recordsOf(Audit!linesOf(s)) /\ ~Throws(Audit!linesOf(s))
InStep(r, s) ==
  /\ Knows(r, s)
  /\ r.skipping => r.pending = <<>> /\ Len(rest(s)) > LineLimit /\ Audit!skippable(rest(s))
  /\ ~r.skipping => r.pending = rest(s) /\ Len(rest(s)) <= LineLimit

(* What a step of the reader leaves of the rest. *)
Same(r, q) ==
  /\ ReaderShape(q) /\ q.inode = r.inode /\ q.offset = r.offset /\ q.target = r.target
  /\ q.reading \in {r.reading, FALSE} /\ (r.threw = TRUE => q.threw = TRUE)

AuditInv ==
  /\ auditFile \in [inode : Nat, bytes : Seq(AuditPiece)]
  /\ writer \in [kind : Kinds \cup {"none"}, number : Nat, written : Nat, torn : Nat]
  /\ ReaderShape(reader)
  /\ reader.inode <= auditFile.inode /\ reader.offset <= reader.target
  /\ reader.threw = FALSE => Len(reader.pending) <= LineLimit
  /\ reader.reading = TRUE => reader.inode = auditFile.inode
  /\ reader.inode = auditFile.inode =>
       /\ reader.target <= Len(auditFile.bytes)
       /\ reader.threw = FALSE => InStep(reader, SubSeq(auditFile.bytes, 1, reader.offset))

--------------------------------------------------------------------------------
(* The two readers of a mutation, and what keeps every program within its     *)
(* bounds.                                                                    *)

Observed == obs \in [Sources -> Views]

(* The sources listed the other way round. *)
Turned(o) == [i \in Sources |-> o[3 - i]]
Mirror(S) == {3 - i : i \in S}

(* What keeps each program within its types and its bounds. *)
LimitsInv ==
  /\ part = "fixed" => Streak(FixedErrors)
  /\ part = "retries" => Streak(RetryErrors) /\ TxsShaped
  /\ part = "leases" => LeaseInv /\ MutsShaped /\ Announced(LeaseAuths)
  /\ part = "shots" => Announced(ShotAuths)
  /\ part = "exclusion" => LostBound
  /\ part = "global" => GlobalBounds
  /\ part = "collector" => CollectorBounds

================================================================================
