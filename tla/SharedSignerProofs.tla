-------------------------- MODULE SharedSignerProofs --------------------------
(* For every value of the bounds: the variables keep their types, and every    *)
(* raw on the wire is recorded (for every set of lanes); without Earn at most  *)
(* one mutation is unresolved and the audit refines the mutation barrier; how  *)
(* a mutation was closed is what became of it, no nonce is signed for twice,   *)
(* and a live authorization's account of the wallet is right.                  *)
EXTENDS SharedSigner, FiniteSetTheorems, WellFoundedInduction, TLAPS

-------------------------------------------------------------------------------
(* Facts about the operators *)

(* The nonce at any height is a natural number. *)
LEMMA NonceAtType == ASSUME NEW h PROVE NonceAt(h) \in Nat
<1>1. IsFiniteSet(Raws) /\ MaxRaw \in Int /\ 1 \in Int
  BY FS_Interval, BoundsAssumption DEF Raws
<1>2. IsFiniteSet({r \in Raws : block[r] # 0 /\ block[r] <= h})
  BY <1>1, FS_Subset
<1> QED
  BY <1>2, FS_CardinalityType DEF NonceAt

(* The last open record is one of the open records. *)
LEMMA LatestIsOpen ==
  ASSUME NEW open \in SUBSET Raws, open # {}
  PROVE  latestUnresolved(open) \in open
<1> DEFINE T == {MaxRaw - r : r \in open}
<1>1. T \subseteq Nat /\ T # {}
  <2>1. \A r \in open : MaxRaw - r \in Nat
    BY BoundsAssumption DEF Raws
  <2>2. PICK r \in open : TRUE
    OBVIOUS
  <2> QED
    BY <2>1, <2>2
<1>2. IsWellFoundedOn(OpToRel(<, Nat), Nat)
  BY NatLessThanWellFounded
<1>3. PICK x \in T : \A y \in T : ~(<<y, x>> \in OpToRel(<, Nat))
  <2> HIDE DEF T
  <2> QED
    BY <1>1, <1>2, WFMin
<1>4. PICK r \in open : x = MaxRaw - r
  OBVIOUS
<1>5. ASSUME NEW q \in open PROVE q <= r
  <2>1. MaxRaw - q \in T /\ MaxRaw - q \in Nat /\ x \in Nat
    BY <1>1
  <2>2. ~(MaxRaw - q < x)
    BY <1>3, <2>1 DEF OpToRel
  <2> QED
    BY <1>4, <2>2, BoundsAssumption DEF Raws
<1> QED
  BY <1>4, <1>5 DEF latestUnresolved

(* A reconciliation is of a mutation that one of the audits calls open. *)
LEMMA TargetIsOpen ==
  ASSUME Unresolved # {} \/ LocalOpen # {}
  PROVE  reconcileTarget \in Unresolved \cup LocalOpen
<1>1. Unresolved \in SUBSET Raws /\ LocalOpen \in SUBSET Raws
  BY DEF Unresolved, LocalOpen
<1> QED
  BY <1>1, LatestIsOpen DEF reconcileTarget

-------------------------------------------------------------------------------
(* Types *)

(* From signing on, a job has its raw in hand. *)
WithRaw == Steps \ {"locked", "ready", "signing"}
HasRaw == job.pc \in WithRaw => job.raw \in Raws

(* The initial states are typed. *)
LEMMA InitType == ASSUME Init PROVE TypeOK
<1> USE BoundsAssumption
<1>1. ChainType
  BY DEF Init, ChainType, Heights
<1>2. AuditType
  <2>1. NoRaw \in RawRecord
    BY DEF NoRaw, RawRecord, AllLanes
  <2>2. raw \in [Raws -> RawRecord]
    BY <2>1 DEF Init
  <2>3. "none" \in LocalStates /\ "none" \in JournalStates
    BY DEF LocalStates, JournalStates
  <2>4. journal \in [Raws -> JournalStates] /\ local \in [Raws -> LocalStates]
    BY <2>3 DEF Init
  <2>5. count \in 0 .. MaxRaw /\ ledger \in SUBSET Raws
    BY DEF Init
  <2>6. halted \in BOOLEAN
    BY Zenon DEF Init
  <2> QED
    BY <2>2, <2>4, <2>5, <2>6 DEF AuditType
<1>3. ArmType
  BY DEF Init, ArmType, NoDisarm
<1>4. WatchType
  <2>1. child = NoChild
    BY DEF Init
  <2>2. crashes \in 0 .. MaxCrash
    BY DEF Init
  <2>3. watching \in BOOLEAN /\ stop \in BOOLEAN
    BY Zenon DEF Init
  <2> QED
    BY <2>1, <2>2, <2>3 DEF WatchType
<1> QED
  BY <1>1, <1>2, <1>3, <1>4 DEF TypeOK, Init

(* Variables left alone keep their types. *)
LEMMA ChainKept == ASSUME ChainType, UNCHANGED chainVars PROVE ChainType'
  BY DEF ChainType, chainVars
LEMMA AuditKept == ASSUME AuditType, UNCHANGED auditVars PROVE AuditType'
  BY DEF AuditType, auditVars
LEMMA ArmKept == ASSUME ArmType, UNCHANGED armVars PROVE ArmType'
  BY DEF ArmType, armVars
LEMMA WatchKept == ASSUME WatchType, UNCHANGED <<watchVars, crashes>> PROVE WatchType'
  BY DEF WatchType, watchVars

(* Moving the job's program counter keeps the job's type. *)
LEMMA JobMoves ==
  ASSUME job \in JobRecord, NEW pc \in Steps
  PROVE  [job EXCEPT !.pc = pc] \in JobRecord
  BY DEF JobRecord

(* A new holder of the lock, executing or reconciling. *)
LEMMA HolderType ==
  ASSUME NEW proc \in {"watch", "child", "orphan", "cli"},
         NEW lane \in AllLanes, NEW auth \in 0 .. MaxArms
  PROVE  Holder(proc, lane, auth) \in JobRecord
<1>1. 0 \in 0 .. MaxRaw /\ 0 \in Nat /\ "locked" \in Steps
  BY BoundsAssumption DEF Steps
<1> QED
  BY <1>1 DEF Holder, JobRecord
LEMMA ReconcilingType ==
  ASSUME AuditType, NEW proc \in {"watch", "child", "cli"}, NEW r \in Raws
  PROVE  Reconciling(proc, r) \in JobRecord
<1>1. raw[r].lane \in AllLanes /\ raw[r].auth \in 0 .. MaxArms /\ r \in 0 .. MaxRaw
  BY BoundsAssumption DEF AuditType, RawRecord, Raws
<1>2. 0 \in Nat /\ "observing" \in Steps
  BY DEF Steps
<1> QED
  BY <1>1, <1>2 DEF Reconciling, JobRecord

(* Whoever is past "idle" is a typed holder. *)
LEMMA Busy == ASSUME TypeOK, job.pc # "idle" PROVE job \in JobRecord
  BY DEF TypeOK, Idle

(* A job that lost its watcher is the same job. *)
LEMMA OrphanedType ==
  ASSUME TypeOK
  PROVE  /\ orphaned(job) \in JobRecord \cup {Idle}
         /\ orphaned(job).pc = job.pc /\ orphaned(job).raw = job.raw
         /\ orphaned(job).lane = job.lane
<1>1. CASE job = Idle
  BY <1>1 DEF orphaned, Idle
<1>2. CASE job \in JobRecord
  BY <1>2 DEF orphaned, JobRecord
<1> QED
  BY <1>1, <1>2 DEF TypeOK

(* The chain's own steps. *)
LEMMA ChainStepType == ASSUME TypeOK, ChainStep PROVE TypeOK'
<1> USE DEF TypeOK
<1>1. CASE Tick
  <2>1. ChainType'
    BY <1>1, BoundsAssumption DEF Tick, ChainType, Heights
  <2> QED
    BY <1>1, <2>1, AuditKept, ArmKept, WatchKept DEF Tick
<1>2. ASSUME NEW r \in Raws, NEW ok \in BOOLEAN, Mine(r, ok) PROVE TypeOK'
  <2>1. head' \in Heights /\ block' \in [Raws -> Heights]
    BY <1>2, BoundsAssumption DEF Mine, ChainType, Heights
  <2>2. failed' \in [Raws -> BOOLEAN]
    BY <1>2 DEF Mine, ChainType
  <2>3. ChainType'
    BY <1>2, <2>1, <2>2 DEF Mine, ChainType
  <2> QED
    BY <1>2, <2>3, AuditKept, ArmKept, WatchKept DEF Mine
<1>3. ASSUME NEW r \in Raws, Reorg(r) PROVE TypeOK'
  <2>1. block' \in [Raws -> Heights] /\ failed' \in [Raws -> BOOLEAN]
    BY <1>3, BoundsAssumption DEF Reorg, ChainType, Heights
  <2>2. reorgs' \in 0 .. MaxReorg
    BY <1>3, BoundsAssumption DEF Reorg, ChainType
  <2>3. ChainType'
    BY <1>3, <2>1, <2>2 DEF Reorg, ChainType
  <2> QED
    BY <1>3, <2>3, AuditKept, ArmKept, WatchKept DEF Reorg
<1> QED
  BY <1>1, <1>2, <1>3 DEF ChainStep

(* Taking the lock. *)
LEMMA TakeType == ASSUME TypeOK, Take PROVE TypeOK'
<1> USE DEF TypeOK
<1>1. arm.id \in 0 .. MaxArms
  BY DEF ArmType
<1>2. CASE WatchExecute
  <2>1. job' \in JobRecord
    BY <1>1, <1>2, HolderType DEF WatchExecute, AllLanes
  <2> QED
    BY <1>2, <2>1, ChainKept, AuditKept, ArmKept, WatchKept DEF WatchExecute
<1>3. CASE ChildLock
  <2>1. child.lane \in AllLanes /\ child.auth \in 0 .. MaxArms
    BY <1>3 DEF ChildLock, WatchType, AllLanes
  <2>2. job' \in JobRecord \cup {Idle}
    BY <1>3, <2>1, HolderType DEF ChildLock
  <2>3. WatchType'
    BY <1>3, BoundsAssumption DEF ChildLock, WatchType, NoChild
  <2> QED
    BY <1>3, <2>2, <2>3, ChainKept, AuditKept, ArmKept DEF ChildLock
<1>4. ASSUME NEW lane \in AllLanes, SpawnChild(lane) PROVE TypeOK'
  <2>1. WatchType'
    BY <1>1, <1>4 DEF SpawnChild, WatchType
  <2> QED
    BY <1>4, <2>1, ChainKept, AuditKept, ArmKept DEF SpawnChild
<1>5. ASSUME NEW lane \in AllLanes, CliExecute(lane) PROVE TypeOK'
  <2>1. job' \in JobRecord
    BY <1>5, HolderType, BoundsAssumption DEF CliExecute
  <2> QED
    BY <1>5, <2>1, ChainKept, AuditKept, ArmKept, WatchKept DEF CliExecute
<1> QED
  BY <1>2, <1>3, <1>4, <1>5 DEF Take

(* Recording whether the authorization still stands changes no other field. *)
LEMMA RecordedType ==
  ASSUME raw \in [Raws -> RawRecord], NEW r
  PROVE  recorded(r) \in [Raws -> RawRecord]
<1>1. CASE r \in Raws
  <2> DEFINE is == raw[r].auth # 0 /\ ~Live(raw[r].auth)
  <2>1. [raw[r] EXCEPT !.late = is] \in RawRecord
    <3>1. raw[r] \in RawRecord
      BY <1>1
    <3>2. is \in BOOLEAN
      BY Zenon
    <3> HIDE DEF is
    <3> QED
      BY <3>1, <3>2 DEF RawRecord
  <2>2. recorded(r) = [raw EXCEPT ![r] = [raw[r] EXCEPT !.late = is]]
    BY DEF recorded
  <2> HIDE DEF is
  <2> QED
    BY <2>1, <2>2
<1>2. CASE r \notin Raws
  BY <1>2 DEF recorded
<1> QED
  BY <1>1, <1>2

(* Executing, up to the receipt. *)
LEMMA ExecuteType == ASSUME TypeOK, Execute PROVE TypeOK'
<1> USE DEF TypeOK
<1>1. CASE Preflight
  <2>1. PICK h \in Recent(head, Lag) :
          job' = [job EXCEPT !.pc = "ready", !.nonce = NonceAt(h),
                             !.deadline = IF job.lane = "maint" THEN MaxHead ELSE h + Window]
    BY <1>1 DEF Preflight
  <2>2. h + Window \in Nat /\ MaxHead \in Nat /\ NonceAt(h) \in Nat
    BY BoundsAssumption, NonceAtType DEF Recent, Heights
  <2>3. job \in JobRecord /\ "ready" \in Steps
    BY <1>1, Busy DEF Preflight, Steps
  <2>4. job' \in JobRecord
    BY <2>1, <2>2, <2>3 DEF JobRecord
  <2> QED
    BY <1>1, <2>4, ChainKept, AuditKept, ArmKept, WatchKept DEF Preflight
<1>2. CASE AuthorizeSigning
  <2>1. job' \in JobRecord
    BY <1>2, Busy, JobMoves DEF AuthorizeSigning, Steps
  <2> QED
    BY <1>2, <2>1, ChainKept, AuditKept, ArmKept, WatchKept DEF AuthorizeSigning
<1>3. CASE SignAndPersist
  <2> DEFINE signed == [lane |-> job.lane, auth |-> job.auth, nonce |-> job.nonce,
                        deadline |-> job.deadline, late |-> FALSE]
  <2>1. count + 1 \in Raws /\ count' \in 0 .. MaxRaw
    BY <1>3, BoundsAssumption DEF SignAndPersist, AuditType, Raws
  <2>2. job \in JobRecord /\ "signed" \in Steps
    BY <1>3, Busy DEF SignAndPersist, Steps
  <2>3. job' \in JobRecord
    BY <1>3, <2>1, <2>2 DEF SignAndPersist, JobRecord, Raws
  <2>4. signed \in RawRecord
    BY <2>2 DEF JobRecord, RawRecord
  <2>5. raw' \in [Raws -> RawRecord]
    <3>1. raw' = [raw EXCEPT ![count + 1] = signed]
      BY <1>3 DEF SignAndPersist
    <3> QED
      BY <2>4, <3>1 DEF AuditType
  <2>6. AuditType'
    BY <1>3, <2>1, <2>5 DEF SignAndPersist, AuditType
  <2> QED
    BY <1>3, <2>3, <2>6, ChainKept, ArmKept, WatchKept DEF SignAndPersist
<1>4. CASE JournalSigned
  <2>1. job \in JobRecord /\ "journaled" \in Steps
    BY <1>4, Busy DEF JournalSigned, Steps
  <2>2. job' \in JobRecord
    BY <1>4, <2>1, JobMoves DEF JournalSigned
  <2>3. journal' \in [Raws -> JournalStates]
    BY <1>4 DEF JournalSigned, AuditType, JournalStates, LocalStates
  <2>4. AuditType'
    BY <1>4, <2>3, RecordedType DEF JournalSigned, AuditType
  <2> QED
    BY <1>4, <2>2, <2>4, ChainKept, ArmKept, WatchKept DEF JournalSigned
<1>5. CASE EarnJournalSigned
  <2>1. job \in JobRecord /\ {"mirroring", "journaled"} \subseteq Steps
    BY <1>5, Busy DEF EarnJournalSigned, Steps
  <2>2. job' \in JobRecord
    BY <1>5, <2>1, JobMoves DEF EarnJournalSigned
  <2>3. local' \in [Raws -> LocalStates]
    BY <1>5 DEF EarnJournalSigned, AuditType, LocalStates
  <2>4. AuditType'
    BY <1>5, <2>3 DEF EarnJournalSigned, AuditType
  <2> QED
    BY <1>5, <2>2, <2>4, ChainKept, ArmKept, WatchKept DEF EarnJournalSigned
<1>6. CASE EarnMirrorSigned
  <2>1. job \in JobRecord /\ "journaled" \in Steps
    BY <1>6, Busy DEF EarnMirrorSigned, Steps
  <2>2. job' \in JobRecord
    BY <1>6, <2>1, JobMoves DEF EarnMirrorSigned
  <2>3. journal' \in [Raws -> JournalStates]
    BY <1>6 DEF EarnMirrorSigned, AuditType, JournalStates, LocalStates
  <2>4. AuditType'
    BY <1>6, <2>3, RecordedType DEF EarnMirrorSigned, AuditType
  <2> QED
    BY <1>6, <2>2, <2>4, ChainKept, ArmKept, WatchKept DEF EarnMirrorSigned
<1>7. ASSUME NEW accepted \in BOOLEAN, Broadcast(accepted) PROVE TypeOK'
  <2>1. job' \in JobRecord
    BY <1>7, Busy, JobMoves DEF Broadcast, Steps
  <2>2. ChainType'
    BY <1>7 DEF Broadcast, ChainType
  <2> QED
    BY <1>7, <2>1, <2>2, AuditKept, ArmKept, WatchKept DEF Broadcast
<1>8. CASE BroadcastRefused
  BY <1>8, ChainKept, AuditKept, ArmKept, WatchKept DEF BroadcastRefused
<1>9. CASE Receipt
  <2>1. job' \in JobRecord
    BY <1>9, Busy, JobMoves DEF Receipt, Steps
  <2> QED
    BY <1>9, <2>1, ChainKept, AuditKept, ArmKept, WatchKept DEF Receipt
<1>10. CASE Abort
  BY <1>10, ChainKept, AuditKept, ArmKept, WatchKept DEF Abort
<1> QED
  BY <1>1, <1>2, <1>3, <1>4, <1>5, <1>6, <1>7, <1>8, <1>9, <1>10 DEF Execute

(* Settling a confirmed receipt. *)
LEMMA SettleType == ASSUME TypeOK, HasRaw, Settle PROVE TypeOK'
<1> USE DEF TypeOK
<1>1. CASE WalletDeltaMismatch
  <2>1. halted' \in BOOLEAN
    BY <1>1, Zenon DEF WalletDeltaMismatch
  <2>2. AuditType'
    BY <1>1, <2>1 DEF WalletDeltaMismatch, AuditType
  <2> QED
    BY <1>1, <2>2, ChainKept, ArmKept, WatchKept DEF WalletDeltaMismatch
<1>2. CASE WriteLedger
  <2>1. halted' \in BOOLEAN
    BY <1>2, Zenon DEF WriteLedger
  <2>2. ledger' \in SUBSET Raws
    BY <1>2 DEF WriteLedger, AuditType, HasRaw, WithRaw, Steps
  <2>3. AuditType'
    BY <1>2, <2>1, <2>2 DEF WriteLedger, AuditType
  <2>4. job' \in JobRecord
    BY <1>2, Busy, JobMoves DEF WriteLedger, Steps
  <2> QED
    BY <1>2, <2>3, <2>4, ChainKept, ArmKept, WatchKept DEF WriteLedger
<1>3. CASE AppendTerminal
  <2>1. journal' \in [Raws -> JournalStates]
    BY <1>3 DEF AppendTerminal, AuditType, JournalStates, LocalStates, verdict
  <2>2. AuditType'
    BY <1>3, <2>1 DEF AppendTerminal, AuditType
  <2> QED
    BY <1>3, <2>2, ChainKept, ArmKept, WatchKept DEF AppendTerminal
<1>4. CASE EarnAppendTerminal
  <2>1. local' \in [Raws -> LocalStates]
    BY <1>4 DEF EarnAppendTerminal, AuditType, LocalStates, verdict
  <2>2. AuditType'
    BY <1>4, <2>1 DEF EarnAppendTerminal, AuditType
  <2>3. job \in JobRecord
    BY <1>4, Busy DEF EarnAppendTerminal, verdict
  <2>4. job' \in JobRecord \cup {Idle}
    BY <1>4, <2>3, JobMoves DEF EarnAppendTerminal, Steps
  <2> QED
    BY <1>4, <2>2, <2>4, ChainKept, ArmKept, WatchKept DEF EarnAppendTerminal
<1>5. CASE EarnMirrorTerminal
  <2>1. journal' \in [Raws -> JournalStates]
    BY <1>5 DEF EarnMirrorTerminal, AuditType, JournalStates, LocalStates
  <2>2. AuditType'
    BY <1>5, <2>1 DEF EarnMirrorTerminal, AuditType
  <2> QED
    BY <1>5, <2>2, ChainKept, ArmKept, WatchKept DEF EarnMirrorTerminal
<1> QED
  BY <1>1, <1>2, <1>3, <1>4, <1>5 DEF Settle

(* Reconciling. *)
LEMMA ReconcileType == ASSUME TypeOK, Reconcile PROVE TypeOK'
<1> USE DEF TypeOK
<1>1. CASE WatchReconcile
  <2>1. latestUnresolved(Unresolved) \in Raws
    BY <1>1, LatestIsOpen DEF WatchReconcile, Unresolved
  <2>2. job' \in JobRecord
    BY <1>1, <2>1, ReconcilingType DEF WatchReconcile
  <2> QED
    BY <1>1, <2>2, ChainKept, AuditKept, ArmKept, WatchKept DEF WatchReconcile
<1>2. CASE CliReconcile
  <2>1. reconcileTarget \in Raws
    BY <1>2, TargetIsOpen DEF CliReconcile, Unresolved, LocalOpen
  <2>2. job' \in JobRecord
    BY <1>2, <2>1, ReconcilingType DEF CliReconcile
  <2> QED
    BY <1>2, <2>2, ChainKept, AuditKept, ArmKept, WatchKept DEF CliReconcile
<1>3. CASE Observe
  <2>1. PICK obs : Confirm(job, obs) \/ Abandon(job, obs) \/ Rebroadcast(job, obs)
    BY <1>3 DEF Observe
  <2>2. job \in JobRecord
    BY <1>3, Busy DEF Observe
  <2>3. job' \in JobRecord \cup {Idle}
    BY <2>1, <2>2, JobMoves DEF Confirm, Abandon, Rebroadcast, Steps
  <2>4. sent' \in [Raws -> {"no", "signer", "operator"}]
    BY <2>1 DEF Confirm, Abandon, Rebroadcast, ChainType
  <2>5. journal' \in [Raws -> JournalStates]
    BY <2>1 DEF Confirm, Abandon, Rebroadcast, AuditType, JournalStates
  <2>6. ChainType' /\ AuditType'
    BY <1>3, <2>4, <2>5 DEF Observe, ChainType, AuditType
  <2> QED
    BY <1>3, <2>3, <2>6, ArmKept, WatchKept DEF Observe
<1>4. CASE Inconclusive
  BY <1>4, ChainKept, AuditKept, ArmKept, WatchKept DEF Inconclusive
<1> QED
  BY <1>1, <1>2, <1>3, <1>4 DEF Reconcile

(* Arming and disarming. *)
LEMMA AuthorizeType == ASSUME TypeOK, Authorize PROVE TypeOK'
<1> USE DEF TypeOK
<1>1. CASE Arm
  <2>1. arms + 1 \in Arms /\ arms' \in 0 .. MaxArms
    BY <1>1, BoundsAssumption DEF Arm, ArmType, Arms
  <2>2. PICK h \in Recent(head, Lag) :
          base' = [base EXCEPT ![arms + 1] = [nonce |-> NonceAt(h), ledger |-> ledger]]
    BY <1>1 DEF Arm
  <2>3. [nonce |-> NonceAt(h), ledger |-> ledger] \in [nonce : Nat, ledger : SUBSET Raws]
    BY NonceAtType DEF AuditType
  <2>4. base' \in [Arms -> [nonce : Nat, ledger : SUBSET Raws]]
    BY <2>2, <2>3 DEF ArmType
  <2>5. arms + 1 \in 0 .. MaxArms /\ TRUE \in BOOLEAN
    BY <2>1 DEF Arms
  <2>6. arm' \in [id : 0 .. MaxArms, armed : BOOLEAN]
    BY <1>1, <2>5 DEF Arm
  <2>7. ArmType'
    BY <1>1, <2>1, <2>4, <2>6 DEF Arm, ArmType
  <2> QED
    BY <1>1, <2>7, ChainKept, AuditKept, WatchKept DEF Arm
<1>2. CASE DisarmRead
  <2>1. ArmType'
    BY <1>2 DEF DisarmRead, ArmType
  <2> QED
    BY <1>2, <2>1, ChainKept, AuditKept, WatchKept DEF DisarmRead
<1>3. CASE DisarmMark
  <2>1. ArmType'
    BY <1>3 DEF DisarmMark, ArmType
  <2> QED
    BY <1>3, <2>1, ChainKept, AuditKept, WatchKept DEF DisarmMark
<1>4. CASE DisarmWrite
  <2>1. arm' \in [id : 0 .. MaxArms, armed : BOOLEAN]
    <3>1. disarm.id \in 0 .. MaxArms /\ FALSE \in BOOLEAN
      BY DEF ArmType
    <3> QED
      BY <1>4, <3>1 DEF DisarmWrite
  <2>2. ArmType'
    BY <1>4, <2>1, BoundsAssumption DEF DisarmWrite, ArmType, NoDisarm
  <2>3. stop' \in BOOLEAN
    BY <1>4, Zenon DEF DisarmWrite, WatchType
  <2>4. WatchType'
    BY <1>4, <2>3 DEF DisarmWrite, WatchType
  <2> QED
    BY <1>4, <2>2, <2>4, ChainKept, AuditKept DEF DisarmWrite
<1> QED
  BY <1>1, <1>2, <1>3, <1>4 DEF Authorize

(* Starting, stopping and crashing. *)
LEMMA SuperviseType == ASSUME TypeOK, Supervise PROVE TypeOK'
<1> USE DEF TypeOK
<1>1. CASE WatchStart
  <2>1. watching' \in BOOLEAN /\ stop' \in BOOLEAN
    BY <1>1, Zenon DEF WatchStart
  <2>2. WatchType'
    BY <1>1, <2>1 DEF WatchStart, WatchType
  <2> QED
    BY <1>1, <2>2, ChainKept, AuditKept, ArmKept DEF WatchStart
<1>2. CASE WatchExit
  <2>1. watching' \in BOOLEAN /\ stop' \in BOOLEAN
    BY <1>2, Zenon DEF WatchExit
  <2>2. WatchType'
    BY <1>2, <2>1 DEF WatchExit, WatchType
  <2> QED
    BY <1>2, <2>2, OrphanedType, ChainKept, AuditKept, ArmKept DEF WatchExit
<1>3. CASE WatchCrash
  <2>1. watching' \in BOOLEAN /\ stop' \in BOOLEAN
    BY <1>3, Zenon DEF WatchCrash
  <2>2. crashes' \in 0 .. MaxCrash
    BY <1>3, BoundsAssumption DEF WatchCrash, WatchType
  <2>3. WatchType'
    BY <1>3, <2>1, <2>2 DEF WatchCrash, WatchType
  <2> QED
    BY <1>3, <2>3, OrphanedType, ChainKept, AuditKept, ArmKept DEF WatchCrash
<1>4. CASE HolderCrash
  <2>1. crashes' \in 0 .. MaxCrash
    BY <1>4, BoundsAssumption DEF HolderCrash, WatchType
  <2>2. WatchType'
    BY <1>4, <2>1 DEF HolderCrash, WatchType, watchVars
  <2> QED
    BY <1>4, <2>2, ChainKept, AuditKept, ArmKept DEF HolderCrash
<1>5. CASE DisarmCrash
  <2>1. crashes' \in 0 .. MaxCrash
    BY <1>5, BoundsAssumption DEF DisarmCrash, WatchType
  <2>2. WatchType'
    BY <1>5, <2>1 DEF DisarmCrash, WatchType, watchVars
  <2>3. ArmType'
    BY <1>5, BoundsAssumption DEF DisarmCrash, ArmType, NoDisarm
  <2> QED
    BY <1>5, <2>2, <2>3, ChainKept, AuditKept DEF DisarmCrash
<1> QED
  BY <1>1, <1>2, <1>3, <1>4, <1>5 DEF Supervise

(* A job acquires its raw when it signs or is told what to reconcile. *)
LEMMA HasRawStep == ASSUME TypeOK, HasRaw, Next PROVE HasRaw'
<1> USE DEF HasRaw
<1>1. CASE UNCHANGED job
  BY <1>1
<1>2. CASE job' = Idle
  BY <1>2 DEF Idle, WithRaw, Steps
<1>3. CASE ChainStep \/ Authorize
  BY <1>1, <1>3 DEF ChainStep, Mine, Tick, Reorg, Authorize, Arm, DisarmRead, DisarmMark, DisarmWrite
<1>4. CASE Take
  BY <1>1, <1>4 DEF Take, WatchExecute, ChildLock, SpawnChild, CliExecute, Holder, WithRaw
<1>5. CASE Execute
  <2>1. CASE SignAndPersist
    <3>1. count + 1 \in Raws
      BY <2>1, BoundsAssumption DEF SignAndPersist, TypeOK, AuditType, Raws
    <3>2. job \in JobRecord
      BY <2>1, Busy DEF SignAndPersist
    <3> QED
      BY <2>1, <3>1, <3>2 DEF SignAndPersist, JobRecord
  <2>2. CASE Preflight \/ AuthorizeSigning
    <3>1. job \in JobRecord
      BY <2>2, Busy DEF Preflight, AuthorizeSigning
    <3> QED
      BY <2>2, <3>1 DEF Preflight, AuthorizeSigning, JobRecord, WithRaw
  <2>3. CASE JournalSigned \/ EarnJournalSigned \/ EarnMirrorSigned \/ Receipt \/ \E accepted \in BOOLEAN : Broadcast(accepted)
    <3>1. job \in JobRecord /\ job.pc \in WithRaw
      BY <2>3, Busy DEF JournalSigned, EarnJournalSigned, EarnMirrorSigned, Receipt, Broadcast, WithRaw, Steps
    <3> QED
      BY <2>3, <3>1 DEF JournalSigned, EarnJournalSigned, EarnMirrorSigned, Receipt, Broadcast, JobRecord
  <2>4. CASE BroadcastRefused \/ Abort
    BY <1>2, <2>4 DEF BroadcastRefused, Abort
  <2> QED
    BY <1>5, <2>1, <2>2, <2>3, <2>4 DEF Execute
<1>6. CASE Settle
  <2>1. CASE WriteLedger \/ EarnAppendTerminal
    <3>1. job \in JobRecord /\ job.pc \in WithRaw
      BY <2>1, Busy DEF WriteLedger, EarnAppendTerminal, verdict, WithRaw, Steps
    <3> QED
      BY <1>2, <2>1, <3>1 DEF WriteLedger, EarnAppendTerminal, JobRecord
  <2> QED
    BY <1>2, <1>6, <2>1 DEF Settle, WalletDeltaMismatch, AppendTerminal, EarnMirrorTerminal
<1>7. CASE Reconcile
  <2>1. CASE WatchReconcile
    BY <2>1, LatestIsOpen DEF WatchReconcile, Unresolved, Reconciling
  <2>2. CASE CliReconcile
    BY <2>2, TargetIsOpen DEF CliReconcile, Unresolved, LocalOpen, Reconciling
  <2>3. CASE Observe
    <3>1. job \in JobRecord /\ job.pc \in WithRaw
      BY <2>3, Busy DEF Observe, WithRaw, Steps
    <3>2. job'.raw = job.raw \/ job' = Idle
      BY <2>3, <3>1 DEF Observe, Confirm, Abandon, Rebroadcast, JobRecord
    <3> QED
      BY <1>2, <3>1, <3>2
  <2> QED
    BY <1>2, <1>7, <2>1, <2>2, <2>3 DEF Reconcile, Inconclusive
<1>8. CASE Supervise
  <2>1. CASE WatchCrash \/ WatchExit
    BY <1>2, <2>1, OrphanedType DEF WatchCrash, WatchExit
  <2> QED
    BY <1>1, <1>2, <1>8, <2>1 DEF Supervise, WatchStart, HolderCrash, DisarmCrash
<1> QED
  BY <1>3, <1>4, <1>5, <1>6, <1>7, <1>8 DEF Next

(* Every step keeps the types. *)
LEMMA TypeStep == ASSUME TypeOK, HasRaw, [Next]_vars PROVE TypeOK' /\ HasRaw'
<1>1. CASE Next
  BY <1>1, HasRawStep, ChainStepType, TakeType, ExecuteType, SettleType, ReconcileType,
     AuthorizeType, SuperviseType DEF Next
<1>2. CASE UNCHANGED vars
  <2>1. TypeOK'
    BY <1>2, ChainKept, AuditKept, ArmKept, WatchKept DEF vars, TypeOK
  <2> QED
    BY <1>2, <2>1 DEF vars, HasRaw
<1> QED
  BY <1>1, <1>2

(* Every variable keeps its type, and a job past signing has a raw in hand,    *)
(* for every set of lanes and every value of the bounds.                       *)
THEOREM TypeCorrect == Spec => [](TypeOK /\ HasRaw)
<1>1. Init => TypeOK
  BY InitType
<1>2. Init => HasRaw
  BY DEF Init, HasRaw, WithRaw, Steps, Idle
<1> QED
  BY <1>1, <1>2, TypeStep, PTL DEF Spec

-------------------------------------------------------------------------------
(* Write-ahead *)

OnRecord(r) == journal[r] # "none" \/ local[r] # "none"

(* What the job is about to broadcast, or to settle, is on record. *)
RecordFirst == job.pc \in WithRaw \ {"signed"} => OnRecord(job.raw)

WriteAheadInv == SentIsRecorded /\ RecordFirst

(* No step takes a record back. *)
LEMMA RecordsStay ==
  ASSUME TypeOK, Next, NEW r \in Raws, OnRecord(r)
  PROVE  OnRecord(r)'
<1> USE DEF OnRecord, TypeOK, AuditType
<1>1. CASE UNCHANGED <<journal, local>>
  BY <1>1
<1>2. CASE ChainStep \/ Take \/ Authorize \/ Supervise
  BY <1>1, <1>2 DEF ChainStep, Mine, Tick, Reorg, Take, WatchExecute, ChildLock, SpawnChild,
    CliExecute, Authorize, Arm, DisarmRead, DisarmMark, DisarmWrite, Supervise, WatchStart,
    WatchExit, WatchCrash, HolderCrash, DisarmCrash, auditVars
<1>3. CASE Execute
  BY <1>1, <1>3 DEF Execute, Preflight, AuthorizeSigning, SignAndPersist, JournalSigned,
    EarnJournalSigned, EarnMirrorSigned, Broadcast, BroadcastRefused, Receipt, Abort, auditVars
<1>4. CASE Settle
  BY <1>1, <1>4 DEF Settle, WalletDeltaMismatch, WriteLedger, AppendTerminal,
    EarnAppendTerminal, EarnMirrorTerminal, verdict
<1>5. CASE Reconcile
  BY <1>1, <1>5 DEF Reconcile, WatchReconcile, CliReconcile, Observe, Confirm, Abandon,
    Rebroadcast, Inconclusive, auditVars
<1> QED
  BY <1>2, <1>3, <1>4, <1>5 DEF Next

(* A raw reaches the wire from the job that has it in hand, on record. *)
LEMMA SentStep ==
  ASSUME TypeOK, HasRaw, WriteAheadInv, Next
  PROVE  SentIsRecorded'
<1> SUFFICES ASSUME NEW r \in Raws, sent'[r] # "no" PROVE OnRecord(r)'
  BY DEF SentIsRecorded, OnRecord
<1>1. CASE sent[r] # "no"
  BY <1>1, RecordsStay DEF WriteAheadInv, SentIsRecorded, OnRecord
<1>2. CASE sent[r] = "no"
  <2>1. job.pc \in {"journaled", "observing"} /\ r = job.raw
    BY <1>2 DEF TypeOK, ChainType, Next, ChainStep, Mine, Tick, Reorg, Take, WatchExecute,
      ChildLock, SpawnChild, CliExecute, Execute, Preflight, AuthorizeSigning, SignAndPersist,
      JournalSigned, EarnJournalSigned, EarnMirrorSigned, Broadcast, BroadcastRefused, Receipt,
      Abort, Settle, WalletDeltaMismatch, WriteLedger, AppendTerminal, EarnAppendTerminal,
      EarnMirrorTerminal, Reconcile, WatchReconcile, CliReconcile, Observe, Confirm, Abandon,
      Rebroadcast, Inconclusive, Authorize, Arm, DisarmRead, DisarmMark, DisarmWrite, Supervise,
      WatchStart, WatchExit, WatchCrash, HolderCrash, DisarmCrash, chainVars
  <2> QED
    BY <2>1, RecordsStay DEF WriteAheadInv, RecordFirst, WithRaw, Steps
<1> QED
  BY <1>1, <1>2

(* The job records its raw before it goes on with it. *)
LEMMA RecordFirstStep ==
  ASSUME TypeOK, HasRaw, WriteAheadInv, Next
  PROVE  RecordFirst'
<1> USE DEF RecordFirst
<1>1. CASE job' = Idle
  BY <1>1 DEF Idle, WithRaw, Steps
<1>2. CASE job'.pc \notin WithRaw \ {"signed"}
  BY <1>2
<1>3. CASE job.pc \in WithRaw \ {"signed"} /\ job'.raw = job.raw
  BY <1>3, RecordsStay DEF WriteAheadInv, HasRaw, OnRecord
<1>4. CASE ChainStep \/ Authorize
  <2>1. UNCHANGED job
    BY <1>4 DEF ChainStep, Mine, Tick, Reorg, Authorize, Arm, DisarmRead, DisarmMark, DisarmWrite
  <2> QED
    BY <1>2, <1>3, <2>1
<1>5. CASE Take
  BY <1>2, <1>3, <1>5 DEF Take, WatchExecute, ChildLock, SpawnChild, CliExecute, Holder, WithRaw
<1>6. CASE Execute
  <2>1. job \in JobRecord
    BY <1>6, Busy DEF Execute, Preflight, AuthorizeSigning, SignAndPersist, JournalSigned,
      EarnJournalSigned, EarnMirrorSigned, Broadcast, BroadcastRefused, Receipt, Abort
  <2>2. CASE Preflight \/ AuthorizeSigning \/ SignAndPersist
    BY <1>2, <2>1, <2>2 DEF Preflight, AuthorizeSigning, SignAndPersist, JobRecord, WithRaw
  <2>3. CASE JournalSigned \/ EarnJournalSigned
    BY <2>1, <2>3 DEF JournalSigned, EarnJournalSigned, OnRecord, HasRaw, WithRaw, Steps,
      TypeOK, AuditType, JobRecord
  <2>4. CASE EarnMirrorSigned \/ Receipt \/ \E accepted \in BOOLEAN : Broadcast(accepted)
    BY <1>3, <2>1, <2>4 DEF EarnMirrorSigned, Receipt, Broadcast, WithRaw, Steps, JobRecord
  <2>5. CASE BroadcastRefused \/ Abort
    BY <1>1, <2>5 DEF BroadcastRefused, Abort
  <2> QED
    BY <1>6, <2>2, <2>3, <2>4, <2>5 DEF Execute
<1>7. CASE Settle
  <2>1. CASE WriteLedger \/ EarnAppendTerminal
    <3>1. job \in JobRecord /\ job.pc \in WithRaw \ {"signed"}
      BY <2>1, Busy DEF WriteLedger, EarnAppendTerminal, verdict, WithRaw, Steps
    <3> QED
      BY <1>1, <1>3, <2>1, <3>1 DEF WriteLedger, EarnAppendTerminal, JobRecord
  <2> QED
    BY <1>1, <1>7, <2>1 DEF Settle, WalletDeltaMismatch, AppendTerminal, EarnMirrorTerminal
<1>8. CASE Reconcile
  <2>1. CASE WatchReconcile
    BY <2>1, LatestIsOpen DEF WatchReconcile, Unresolved, Reconciling, OnRecord, auditVars
  <2>2. CASE CliReconcile
    BY <2>2, TargetIsOpen DEF CliReconcile, Unresolved, LocalOpen, Reconciling, OnRecord, auditVars
  <2>3. CASE Observe
    <3>1. job \in JobRecord /\ job.pc \in WithRaw \ {"signed"}
      BY <2>3, Busy DEF Observe, WithRaw, Steps
    <3>2. job'.raw = job.raw \/ job' = Idle
      BY <2>3, <3>1 DEF Observe, Confirm, Abandon, Rebroadcast, JobRecord
    <3> QED
      BY <1>1, <1>3, <3>1, <3>2
  <2> QED
    BY <1>1, <1>8, <2>1, <2>2, <2>3 DEF Reconcile, Inconclusive
<1>9. CASE Supervise
  <2>1. CASE WatchCrash \/ WatchExit
    BY <1>1, <1>2, <1>3, <2>1, OrphanedType DEF WatchCrash, WatchExit
  <2>2. CASE WatchStart \/ DisarmCrash
    BY <1>2, <1>3, <2>2 DEF WatchStart, DisarmCrash
  <2> QED
    BY <1>1, <1>9, <2>1, <2>2 DEF Supervise, HolderCrash
<1> QED
  BY <1>4, <1>5, <1>6, <1>7, <1>8, <1>9 DEF Next

(* Write-ahead: whatever reached the wire is recorded as signed in an audit a  *)
(* reconciler reads, across every crash, for every set of lanes.               *)
THEOREM WriteAhead == Spec => []SentIsRecorded
<1>1. Init => WriteAheadInv
  BY DEF Init, WriteAheadInv, SentIsRecorded, RecordFirst, WithRaw, Steps, Idle
<1>2. TypeOK /\ HasRaw /\ WriteAheadInv /\ [Next]_vars => WriteAheadInv'
  <2>1. ASSUME UNCHANGED vars, WriteAheadInv PROVE WriteAheadInv'
    BY <2>1 DEF vars, chainVars, auditVars, WriteAheadInv, SentIsRecorded, RecordFirst, OnRecord
  <2> QED
    BY <2>1, SentStep, RecordFirstStep DEF WriteAheadInv
<1>3. WriteAheadInv => SentIsRecorded
  BY DEF WriteAheadInv
<1> QED
  BY <1>1, <1>2, <1>3, TypeCorrect, PTL DEF Spec

-------------------------------------------------------------------------------
(* One unresolved mutation *)

(* Nothing of Earn appears while its lane is not in play. *)
NoEarn ==
  /\ child.lane # "earn"
  /\ job.lane # "earn" /\ job.pc \notin {"mirroring", "mirrorEffect", "mirrorRevert"}
  /\ \A r \in Raws : raw[r].lane # "earn" /\ local[r] = "none"

(* What the job knows of the audit while it holds wallet.lock: that nothing is *)
(* unresolved, that its new raw is not recorded yet, that its mutation is      *)
(* the open one.                                                               *)
Unsigned == {"ready", "signing", "signed"}
InHand == WithRaw \ {"signed"}
LockInv ==
  /\ job.pc \in Unsigned => Unresolved = {}
  /\ job.pc = "signed" => job.raw <= count /\ journal[job.raw] = "none"
  /\ job.pc \in InHand => journal[job.raw] = "signed"
  /\ \A r \in Raws : r > count => journal[r] = "none"

LaneInv == NoEarn /\ LockInv /\ OneUnresolved

(* Without its lane, no step brings Earn in. *)
LEMMA NoEarnStep ==
  ASSUME "earn" \notin Lanes, TypeOK, HasRaw, NoEarn, Next
  PROVE  NoEarn'
<1> USE DEF NoEarn
<1>1. CASE job' = Idle /\ UNCHANGED <<child, raw, local>>
  BY <1>1 DEF Idle
<1>2. CASE UNCHANGED <<child, job, raw, local>>
  BY <1>2
<1>3. CASE ChainStep \/ Authorize
  BY <1>2, <1>3 DEF ChainStep, Mine, Tick, Reorg, Authorize, Arm, DisarmRead, DisarmMark,
    DisarmWrite, auditVars, watchVars
<1>4. CASE Take
  BY <1>4 DEF Take, WatchExecute, ChildLock, SpawnChild, CliExecute, Holder, NoChild, auditVars, watchVars
<1>5. CASE Execute
  <2>1. job \in JobRecord
    BY <1>5, Busy DEF Execute, Preflight, AuthorizeSigning, SignAndPersist, JournalSigned,
      EarnJournalSigned, EarnMirrorSigned, Broadcast, BroadcastRefused, Receipt, Abort
  <2>2. CASE Preflight \/ AuthorizeSigning \/ Receipt \/ \E accepted \in BOOLEAN : Broadcast(accepted)
    BY <2>1, <2>2 DEF Preflight, AuthorizeSigning, Receipt, Broadcast, JobRecord, auditVars, watchVars
  <2>3. CASE SignAndPersist
    <3>1. \A r \in Raws : raw'[r].lane # "earn"
      BY <2>3 DEF SignAndPersist, TypeOK, AuditType
    <3> QED
      BY <2>1, <2>3, <3>1 DEF SignAndPersist, JobRecord, watchVars
  <2>4. CASE JournalSigned
    <3>1. \A r \in Raws : raw'[r].lane = raw[r].lane
      BY <2>4 DEF JournalSigned, recorded, TypeOK, AuditType, RawRecord
    <3> QED
      BY <2>1, <2>4, <3>1 DEF JournalSigned, JobRecord, watchVars
  <2>5. CASE EarnJournalSigned \/ EarnMirrorSigned
    BY <2>5 DEF EarnJournalSigned, EarnMirrorSigned
  <2>6. CASE BroadcastRefused \/ Abort
    BY <1>1, <2>6 DEF BroadcastRefused, Abort, auditVars, watchVars
  <2> QED
    BY <1>5, <2>2, <2>3, <2>4, <2>5, <2>6 DEF Execute
<1>6. CASE Settle
  <2>1. CASE WriteLedger
    BY <2>1, Busy DEF WriteLedger, JobRecord, watchVars
  <2> QED
    BY <1>1, <1>6, <2>1 DEF Settle, WalletDeltaMismatch, AppendTerminal, EarnAppendTerminal,
      EarnMirrorTerminal, watchVars
<1>7. CASE Reconcile
  <2>1. CASE WatchReconcile
    BY <2>1, LatestIsOpen DEF WatchReconcile, Unresolved, Reconciling, auditVars, watchVars
  <2>2. CASE CliReconcile
    <3>1. LocalOpen = {}
      BY DEF LocalOpen
    <3> QED
      BY <2>2, <3>1, TargetIsOpen DEF CliReconcile, Unresolved, Reconciling, auditVars, watchVars
  <2>3. CASE Observe
    <3>1. job \in JobRecord
      BY <2>3, Busy DEF Observe
    <3>2. job' = Idle \/ (job'.lane = job.lane /\ job'.pc \in {"succeeded", "reverted"})
      BY <2>3, <3>1 DEF Observe, Confirm, Abandon, Rebroadcast, JobRecord
    <3> QED
      BY <2>3, <3>2 DEF Observe, Idle, watchVars
  <2>4. CASE Inconclusive
    BY <1>1, <2>4 DEF Inconclusive, auditVars, watchVars
  <2> QED
    BY <1>7, <2>1, <2>2, <2>3, <2>4 DEF Reconcile
<1>8. CASE Supervise
  <2>1. CASE WatchCrash \/ WatchExit
    <3>1. job' = Idle \/ (job'.lane = job.lane /\ job'.pc = job.pc)
      BY <2>1, OrphanedType DEF WatchCrash, WatchExit
    <3> QED
      BY <2>1, <3>1 DEF WatchCrash, WatchExit, NoChild, Idle, auditVars
  <2> QED
    BY <1>1, <1>2, <1>8, <2>1 DEF Supervise, WatchStart, HolderCrash, DisarmCrash,
      auditVars, watchVars
<1> QED
  BY <1>3, <1>4, <1>5, <1>6, <1>7, <1>8 DEF Next

(* Only the job in hand changes the audit: it opens its mutation when nothing  *)
(* is open, or closes the one that is.                                         *)
LEMMA JournalStep ==
  ASSUME TypeOK, HasRaw, NoEarn, LockInv, Next
  PROVE  \/ UNCHANGED journal
         \/ /\ job.pc = "signed" /\ job'.pc = "journaled" /\ job'.raw = job.raw
            /\ count' = count
            /\ journal' = [journal EXCEPT ![job.raw] = "signed"]
         \/ /\ job.pc \in InHand /\ job' = Idle /\ count' = count
            /\ \E how \in {"effect", "reverted", "abandoned"} :
                 journal' = [journal EXCEPT ![job.raw] = how]
<1>1. CASE ChainStep \/ Take \/ Authorize \/ Supervise
  BY <1>1 DEF ChainStep, Mine, Tick, Reorg, Take, WatchExecute, ChildLock, SpawnChild,
    CliExecute, Authorize, Arm, DisarmRead, DisarmMark, DisarmWrite, Supervise, WatchStart,
    WatchExit, WatchCrash, HolderCrash, DisarmCrash, auditVars
<1>2. CASE Execute
  <2>1. CASE JournalSigned
    BY <2>1, Busy DEF JournalSigned, JobRecord
  <2>2. CASE EarnMirrorSigned
    BY <2>2 DEF EarnMirrorSigned, NoEarn
  <2> QED
    BY <1>2, <2>1, <2>2 DEF Execute, Preflight, AuthorizeSigning, SignAndPersist,
      EarnJournalSigned, Broadcast, BroadcastRefused, Receipt, Abort, auditVars
<1>3. CASE Settle
  <2>1. CASE AppendTerminal
    BY <2>1 DEF AppendTerminal, verdict, InHand, WithRaw, Steps
  <2> QED
    BY <1>3, <2>1 DEF Settle, WalletDeltaMismatch, WriteLedger, EarnAppendTerminal,
      EarnMirrorTerminal, NoEarn
<1>4. CASE Reconcile
  BY <1>4 DEF Reconcile, WatchReconcile, CliReconcile, Observe, Confirm, Abandon,
    Rebroadcast, Inconclusive, InHand, WithRaw, Steps, auditVars
<1> QED
  BY <1>1, <1>2, <1>3, <1>4 DEF Next

(* The steps that leave the audit as it is. *)
LEMMA LockKept ==
  ASSUME "earn" \notin Lanes, TypeOK, HasRaw, LaneInv, Next, UNCHANGED journal
  PROVE  LockInv'
<1>1. Unresolved' = Unresolved
  BY DEF Unresolved
<1>2. \A r \in Raws : r > count' => journal'[r] = "none"
  <2>1. count \in Nat
    BY BoundsAssumption DEF TypeOK, AuditType
  <2>2. count' = count \/ count' = count + 1
    <3>1. CASE ChainStep \/ Take \/ Authorize \/ Supervise
      BY <3>1 DEF ChainStep, Mine, Tick, Reorg, Take, WatchExecute, ChildLock, SpawnChild,
        CliExecute, Authorize, Arm, DisarmRead, DisarmMark, DisarmWrite, Supervise, WatchStart,
        WatchExit, WatchCrash, HolderCrash, DisarmCrash, auditVars
    <3>2. CASE Execute
      BY <3>2 DEF Execute, Preflight, AuthorizeSigning, SignAndPersist, JournalSigned,
        EarnJournalSigned, EarnMirrorSigned, Broadcast, BroadcastRefused, Receipt, Abort, auditVars
    <3>3. CASE Settle \/ Reconcile
      BY <3>3 DEF Settle, WalletDeltaMismatch, WriteLedger, AppendTerminal, EarnAppendTerminal,
        EarnMirrorTerminal, Reconcile, WatchReconcile, CliReconcile, Observe, Inconclusive, auditVars
    <3> QED
      BY <3>1, <3>2, <3>3 DEF Next
  <2> QED
    BY <2>1, <2>2 DEF LaneInv, LockInv, Raws
<1>3. CASE job'.pc \notin Unsigned \cup InHand
  BY <1>2, <1>3 DEF LockInv, Unsigned, InHand, WithRaw, Steps
<1>4. CASE job'.pc = job.pc /\ job'.raw = job.raw /\ count' = count
  BY <1>1, <1>2, <1>4 DEF LaneInv, LockInv
<1>5. CASE job'.pc \in {"ready", "signing"} /\ Unresolved = {}
  BY <1>1, <1>2, <1>5 DEF LockInv, InHand, WithRaw, Steps
<1>6. CASE job.pc \in InHand /\ job'.pc \in InHand /\ job'.raw = job.raw
  BY <1>2, <1>6 DEF LaneInv, LockInv, InHand, WithRaw, Steps, Unsigned
<1>7. CASE ChainStep \/ Authorize
  BY <1>4, <1>7 DEF ChainStep, Mine, Tick, Reorg, Authorize, Arm, DisarmRead, DisarmMark,
    DisarmWrite, auditVars
<1>8. CASE Take
  BY <1>3, <1>4, <1>8 DEF Take, WatchExecute, ChildLock, SpawnChild, CliExecute, Holder,
    Unsigned, InHand, WithRaw, Steps, auditVars
<1>9. job' = Idle => LockInv'
  BY <1>3 DEF Idle, Unsigned, InHand, WithRaw, Steps
<1>10. CASE Execute
  <2>1. job \in JobRecord
    BY <1>10, Busy DEF Execute, Preflight, AuthorizeSigning, SignAndPersist, JournalSigned,
      EarnJournalSigned, EarnMirrorSigned, Broadcast, BroadcastRefused, Receipt, Abort
  <2>2. CASE Preflight
    BY <1>5, <2>1, <2>2 DEF Preflight, barrierOpen, LaneInv, NoEarn, JobRecord
  <2>3. CASE AuthorizeSigning
    BY <1>5, <2>1, <2>3 DEF AuthorizeSigning, LaneInv, LockInv, Unsigned, JobRecord
  <2>4. CASE SignAndPersist
    <3>1. count + 1 \in Raws /\ count + 1 > count
      BY <2>4, BoundsAssumption DEF SignAndPersist, TypeOK, AuditType, Raws
    <3>2. job'.pc = "signed" /\ job'.raw = count + 1 /\ count' = count + 1
      BY <2>1, <2>4 DEF SignAndPersist, JobRecord
    <3>3. Unresolved = {} /\ journal[count + 1] = "none"
      BY <2>4, <3>1 DEF SignAndPersist, LaneInv, LockInv, Unsigned
    <3> QED
      BY <1>1, <1>2, <3>1, <3>2, <3>3 DEF LockInv, Unsigned, InHand, Raws
  <2>5. CASE JournalSigned
    BY <2>5 DEF JournalSigned, LaneInv, LockInv, HasRaw, WithRaw, Steps, TypeOK, AuditType
  <2>6. CASE EarnJournalSigned \/ EarnMirrorSigned
    BY <2>6 DEF EarnJournalSigned, EarnMirrorSigned, LaneInv, NoEarn
  <2>7. CASE Receipt \/ \E accepted \in BOOLEAN : Broadcast(accepted)
    BY <1>6, <2>1, <2>7 DEF Receipt, Broadcast, InHand, WithRaw, Steps, JobRecord
  <2> QED
    BY <1>9, <1>10, <2>2, <2>3, <2>4, <2>5, <2>6, <2>7 DEF Execute, BroadcastRefused, Abort
<1>11. CASE Settle
  <2>1. CASE WriteLedger
    BY <1>6, <2>1, Busy DEF WriteLedger, InHand, WithRaw, Steps, JobRecord
  <2> QED
    BY <1>9, <1>11, <2>1 DEF Settle, WalletDeltaMismatch, AppendTerminal, EarnAppendTerminal,
      EarnMirrorTerminal, LaneInv, NoEarn
<1>12. CASE Reconcile
  <2>1. ASSUME job'.pc = "observing", job'.raw \in Unresolved PROVE LockInv'
    BY <1>2, <2>1 DEF LockInv, Unresolved, Unsigned, InHand, WithRaw, Steps
  <2>2. CASE WatchReconcile
    BY <2>1, <2>2, LatestIsOpen DEF WatchReconcile, Unresolved, Reconciling
  <2>3. CASE CliReconcile
    <3>1. LocalOpen = {}
      BY DEF LocalOpen, LaneInv, NoEarn
    <3> QED
      BY <2>1, <2>3, <3>1, TargetIsOpen DEF CliReconcile, Reconciling
  <2>4. CASE Observe
    <3>1. job \in JobRecord /\ job.pc \in InHand
      BY <2>4, Busy DEF Observe, InHand, WithRaw, Steps
    <3>2. job' = Idle \/ (job'.raw = job.raw /\ job'.pc \in InHand)
      BY <2>4, <3>1 DEF Observe, Confirm, Abandon, Rebroadcast, JobRecord, InHand, WithRaw, Steps
    <3> QED
      BY <1>6, <1>9, <3>1, <3>2
  <2> QED
    BY <1>9, <1>12, <2>2, <2>3, <2>4 DEF Reconcile, Inconclusive
<1>13. CASE Supervise
  <2>1. CASE WatchCrash \/ WatchExit
    BY <1>4, <1>9, <2>1, OrphanedType DEF WatchCrash, WatchExit, auditVars
  <2> QED
    BY <1>4, <1>9, <1>13, <2>1 DEF Supervise, WatchStart, HolderCrash, DisarmCrash, auditVars
<1> QED
  BY <1>7, <1>8, <1>10, <1>11, <1>12, <1>13 DEF Next

(* The job in hand opens its mutation or closes it; the lock says nothing else *)
(* is open.                                                                    *)
LEMMA LaneStep ==
  ASSUME "earn" \notin Lanes, TypeOK, HasRaw, LaneInv, Next
  PROVE  LaneInv'
<1>1. NoEarn'
  BY NoEarnStep DEF LaneInv
<1>2. journal \in [Raws -> JournalStates] /\ count \in Nat
  BY BoundsAssumption DEF TypeOK, AuditType
<1>3. CASE UNCHANGED journal
  BY <1>1, <1>3, LockKept DEF LaneInv, OneUnresolved, Unresolved
<1>4. CASE /\ job.pc = "signed" /\ job'.pc = "journaled" /\ job'.raw = job.raw
           /\ count' = count
           /\ journal' = [journal EXCEPT ![job.raw] = "signed"]
  <2>1. job.raw \in Raws /\ job.raw <= count
    BY <1>4 DEF HasRaw, WithRaw, Steps, LaneInv, LockInv
  <2>2. Unresolved' = {job.raw}
    BY <1>2, <1>4, <2>1 DEF LaneInv, LockInv, Unsigned, Unresolved
  <2>3. \A r \in Raws : r > count' => journal'[r] = "none"
    BY <1>2, <1>4, <2>1 DEF LaneInv, LockInv, Raws
  <2>4. LockInv'
    BY <1>2, <1>4, <2>1, <2>3 DEF LockInv, Unsigned
  <2> QED
    BY <1>1, <2>2, <2>4 DEF LaneInv, OneUnresolved
<1>5. CASE /\ job.pc \in InHand /\ job' = Idle /\ count' = count
           /\ \E how \in {"effect", "reverted", "abandoned"} :
                journal' = [journal EXCEPT ![job.raw] = how]
  <2>1. job.raw \in Raws /\ job.raw \in Unresolved
    BY <1>5 DEF HasRaw, InHand, LaneInv, LockInv, Unresolved
  <2>2. Unresolved' = {}
    BY <1>2, <1>5, <2>1 DEF LaneInv, OneUnresolved, Unresolved
  <2>3. \A r \in Raws : r > count' => journal'[r] = "none"
    BY <1>2, <1>5, <2>1 DEF LaneInv, LockInv, Unresolved
  <2>4. LockInv'
    BY <1>5, <2>3 DEF LockInv, Unsigned, InHand, WithRaw, Steps, Idle
  <2> QED
    BY <1>1, <2>2, <2>4 DEF LaneInv, OneUnresolved
<1> QED
  BY <1>3, <1>4, <1>5, JournalStep DEF LaneInv

(* Without Earn the invariant holds in every reachable state. *)
THEOREM LaneCorrect == ASSUME "earn" \notin Lanes PROVE Spec => []LaneInv
<1>1. Init => LaneInv
  <2>1. ASSUME Init PROVE Unresolved = {}
    BY <2>1 DEF Init, Unresolved
  <2>2. ASSUME Init PROVE NoEarn
    BY <2>2 DEF Init, NoEarn, NoChild, NoRaw, Idle
  <2>3. ASSUME Init PROVE LockInv
    BY <2>3 DEF Init, LockInv, Unsigned, InHand, WithRaw, Steps, Idle
  <2> QED
    BY <2>1, <2>2, <2>3 DEF LaneInv, OneUnresolved
<1>2. TypeOK /\ HasRaw /\ LaneInv /\ [Next]_vars => LaneInv'
  <2>1. ASSUME UNCHANGED vars, LaneInv PROVE LaneInv'
    BY <2>1 DEF vars, auditVars, watchVars, LaneInv, NoEarn, LockInv, OneUnresolved, Unresolved
  <2> QED
    BY <2>1, LaneStep
<1> QED
  BY <1>1, <1>2, TypeCorrect, PTL DEF Spec

(* At most one mutation of the wallet is unresolved, whatever the board,       *)
(* global and maintenance signers, the operator and crashes do.                *)
THEOREM OneMutation == ASSUME "earn" \notin Lanes PROVE Spec => []OneUnresolved
<1>1. LaneInv => OneUnresolved
  BY DEF LaneInv
<1> QED
  BY <1>1, LaneCorrect, PTL

-------------------------------------------------------------------------------
(* Refinement *)

(* Every step opens the barrier's one mutation, closes it, or stutters. *)
LEMMA BarrierStep ==
  ASSUME TypeOK, HasRaw, LaneInv, Next
  PROVE  [Barrier!Next]_lifecycle
<1>1. journal \in [Raws -> JournalStates]
  BY DEF TypeOK, AuditType
<1>2. CASE UNCHANGED journal
  BY <1>2 DEF lifecycle
<1>3. CASE job.pc = "signed" /\ journal' = [journal EXCEPT ![job.raw] = "signed"]
  <2>1. job.raw \in Raws /\ journal[job.raw] = "none" /\ \A q \in Raws : journal[q] # "signed"
    BY <1>3 DEF HasRaw, WithRaw, Steps, LaneInv, LockInv, Unsigned, Unresolved
  <2>2. lifecycle[job.raw] = "absent" /\ \A q \in Raws : lifecycle[q] # "unresolved"
    BY <1>1, <2>1 DEF JournalStates, LocalStates, lifecycle
  <2>3. lifecycle' = [lifecycle EXCEPT ![job.raw] = "unresolved"]
    BY <1>1, <1>3, <2>1 DEF lifecycle
  <2>4. Barrier!Open(job.raw)
    BY <2>2, <2>3 DEF Barrier!Open
  <2> QED
    BY <2>1, <2>4 DEF Barrier!Next
<1>4. ASSUME NEW how \in {"effect", "reverted", "abandoned"}, job.pc \in InHand,
             journal' = [journal EXCEPT ![job.raw] = how]
      PROVE  Barrier!Next
  <2>1. job.raw \in Raws /\ journal[job.raw] = "signed"
    BY <1>4 DEF HasRaw, InHand, LaneInv, LockInv
  <2>2. lifecycle[job.raw] = "unresolved"
    BY <2>1 DEF lifecycle
  <2>3. lifecycle' = [lifecycle EXCEPT ![job.raw] = how]
    BY <1>1, <1>4, <2>1 DEF lifecycle
  <2>4. Barrier!Close(job.raw, how) /\ how \in Barrier!Closed
    BY <2>2, <2>3 DEF Barrier!Close, Barrier!Closed
  <2> QED
    BY <2>1, <2>4 DEF Barrier!Next
<1> QED
  <2>1. \/ UNCHANGED journal
        \/ job.pc = "signed" /\ journal' = [journal EXCEPT ![job.raw] = "signed"]
        \/ /\ job.pc \in InHand
           /\ \E how \in {"effect", "reverted", "abandoned"} : journal' = [journal EXCEPT ![job.raw] = how]
    BY JournalStep DEF LaneInv
  <2> QED
    BY <1>2, <1>3, <1>4, <2>1

(* Without Earn, the shared audit implements the mutation barrier: one open    *)
(* mutation at a time, and a closed one stays closed as it was.                *)
THEOREM BarrierImplemented == ASSUME "earn" \notin Lanes PROVE Spec => BarrierSpec
<1>1. Init => Barrier!Init
  BY DEF Init, Barrier!Init, lifecycle
<1>2. TypeOK /\ HasRaw /\ LaneInv /\ [Next]_vars => [Barrier!Next]_lifecycle
  <2>1. ASSUME UNCHANGED vars PROVE UNCHANGED lifecycle
    BY <2>1 DEF vars, auditVars, lifecycle
  <2> QED
    BY <2>1, BarrierStep
<1> QED
  BY <1>1, <1>2, TypeCorrect, LaneCorrect, PTL DEF Spec, BarrierSpec, Barrier!Spec



-------------------------------------------------------------------------------
(* The books and the job *)

(* Nobody knows of r: it was not signed, or its signature is not recorded yet. *)
Fresh(r) == journal[r] = "none" /\ local[r] = "none" /\ sent[r] = "no"

(* The chain has what was sent, a success is in time; only Earn has an audit   *)
(* of its own, and it is not behind the shared one.                            *)
OnChain ==
  \A r \in Raws :
    /\ block[r] # 0 => sent[r] # "no" /\ block[r] <= head
    /\ failed[r] => block[r] # 0
    /\ (block[r] # 0 /\ ~failed[r] /\ raw[r].lane # "maint") => block[r] <= raw[r].deadline
EarnBooks ==
  \A r \in Raws :
    /\ local[r] # "none" => raw[r].lane = "earn"
    /\ (raw[r].lane = "earn" /\ journal[r] # "none") =>
         /\ local[r] # "none"
         /\ journal[r] # "signed" => local[r] = journal[r]
Unused == \A r \in Raws : r > count => Fresh(r)
BookInv == OnChain /\ EarnBooks /\ Unused

(* Whoever holds a raw holds the one its plan describes, and knows where its   *)
(* record stands.                                                              *)
HoldsPlan ==
  job.pc \in WithRaw =>
    /\ job.raw <= count
    /\ raw[job.raw].lane = job.lane /\ raw[job.raw].auth = job.auth
HoldsRecord ==
  /\ job.pc = "signed" => Fresh(job.raw)
  /\ job.pc = "mirroring" =>
       /\ job.lane = "earn" /\ job.auth # 0
       /\ journal[job.raw] = "none" /\ local[job.raw] = "signed" /\ sent[job.raw] = "no"
  /\ (job.pc \in InHand /\ job.lane # "earn") => journal[job.raw] = "signed"
  /\ (job.pc \in InHand /\ job.lane = "earn") => journal[job.raw] \in {"none", "signed"} /\ local[job.raw] # "none"
  /\ job.pc = "ledgered" => job.lane = "board"
  /\ job.pc = "mirrorEffect" => job.lane = "earn" /\ local[job.raw] = "effect"
  /\ job.pc = "mirrorRevert" => job.lane = "earn" /\ local[job.raw] = "reverted"
JobInv == HoldsPlan /\ HoldsRecord

LifeInv == BookInv /\ JobInv

(* The job in hand and the record it is of. *)
LEMMA InHandTyped ==
  ASSUME TypeOK, HasRaw, job.pc \in WithRaw
  PROVE  job \in JobRecord /\ job.raw \in Raws
  BY DEF TypeOK, HasRaw, Idle, WithRaw, Steps

(* Recording changes nothing of the plan but whether it came late. *)
LEMMA RecordedPlan ==
  ASSUME TypeOK, NEW q
  PROVE  \A r \in Raws : /\ recorded(q)[r].lane = raw[r].lane /\ recorded(q)[r].auth = raw[r].auth
                         /\ recorded(q)[r].nonce = raw[r].nonce /\ recorded(q)[r].deadline = raw[r].deadline
  BY DEF recorded, TypeOK, AuditType, RawRecord

(* Steps of the chain. *)
LEMMA ChainLife == ASSUME TypeOK, HasRaw, LifeInv, ChainStep PROVE LifeInv'
<1> USE BoundsAssumption
<1>1. UNCHANGED <<count, raw, journal, local, sent, job>>
  BY DEF ChainStep, Tick, Mine, Reorg, auditVars
<1>2. EarnBooks' /\ Unused' /\ JobInv'
  BY <1>1 DEF LifeInv, BookInv, EarnBooks, Unused, Fresh, JobInv, HoldsPlan, HoldsRecord
<1>3. block \in [Raws -> Heights] /\ failed \in [Raws -> BOOLEAN] /\ head \in Nat
  BY DEF TypeOK, ChainType, Heights
<1>4. OnChain'
  <2>1. CASE Tick
    BY <1>1, <1>3, <2>1 DEF Tick, LifeInv, BookInv, OnChain, Heights
  <2>2. ASSUME NEW r \in Raws, NEW ok \in BOOLEAN, Mine(r, ok) PROVE OnChain'
    <3>1. block'[r] = head + 1 /\ head' = head + 1 /\ failed'[r] = ~ok /\ sent[r] # "no"
      BY <1>3, <2>2 DEF Mine
    <3>2. \A q \in Raws : q # r => block'[q] = block[q] /\ failed'[q] = failed[q]
      BY <1>3, <2>2 DEF Mine
    <3>3. ok => raw[r].lane = "maint" \/ head + 1 <= raw[r].deadline
      BY <2>2 DEF Mine
    <3>4. \A q \in Raws : block[q] \in Nat /\ raw[q].deadline \in Nat /\ failed[q] \in BOOLEAN
      BY <1>3 DEF TypeOK, AuditType, RawRecord, Heights
    <3>5. ASSUME NEW q \in Raws, q # r PROVE OnChain!(q)'
      BY <1>1, <1>3, <3>1, <3>2, <3>4, <3>5 DEF LifeInv, BookInv, OnChain
    <3>6. OnChain!(r)'
      <4>1. block'[r] # 0 /\ sent'[r] # "no" /\ block'[r] <= head'
        BY <1>1, <1>3, <3>1
      <4>2. (~failed'[r] /\ raw[r].lane # "maint") => block'[r] <= raw[r].deadline
        BY <3>1, <3>3, Zenon
      <4> QED
        BY <1>1, <4>1, <4>2
    <3> QED
      BY <3>5, <3>6 DEF OnChain
  <2>3. ASSUME NEW r \in Raws, Reorg(r) PROVE OnChain'
    <3>1. block'[r] = 0 /\ failed'[r] = FALSE /\ head' = head
      BY <1>3, <2>3 DEF Reorg
    <3>2. \A q \in Raws : q # r => block'[q] = block[q] /\ failed'[q] = failed[q]
      BY <1>3, <2>3 DEF Reorg
    <3> QED
      BY <1>1, <1>3, <3>1, <3>2 DEF LifeInv, BookInv, OnChain
  <2> QED
    BY <2>1, <2>2, <2>3 DEF ChainStep
<1> QED
  BY <1>2, <1>4 DEF LifeInv, BookInv

(* Steps that touch neither the chain nor the books. *)
LEMMA BooksKept ==
  ASSUME BookInv, UNCHANGED <<chainVars, auditVars>>
  PROVE  BookInv'
  BY DEF BookInv, OnChain, EarnBooks, Unused, Fresh, chainVars, auditVars

LEMMA JobRests ==
  ASSUME job'.pc \notin WithRaw
  PROVE  JobInv'
  BY DEF JobInv, HoldsPlan, HoldsRecord, WithRaw, InHand, Steps

LEMMA JobKept ==
  ASSUME JobInv, UNCHANGED <<chainVars, auditVars>>,
         job'.pc = job.pc /\ job'.raw = job.raw /\ job'.lane = job.lane /\ job'.auth = job.auth
  PROVE  JobInv'
  BY DEF JobInv, HoldsPlan, HoldsRecord, Fresh, chainVars, auditVars

LEMMA Resting == Idle.pc \notin WithRaw
  BY DEF Idle, WithRaw, Steps

(* Taking the lock, supervising and authorizing give nobody a raw.             *)
LEMMA TakeLife == ASSUME TypeOK, HasRaw, LifeInv, Take \/ Authorize \/ Supervise PROVE LifeInv'
<1>1. UNCHANGED <<chainVars, auditVars>>
  BY DEF Take, WatchExecute, ChildLock, SpawnChild, CliExecute, Authorize, Arm, DisarmRead, DisarmMark,
    DisarmWrite, Supervise, WatchStart, WatchExit, WatchCrash, HolderCrash, DisarmCrash
<1>2. \/ job'.pc \notin WithRaw
      \/ job'.pc = job.pc /\ job'.raw = job.raw /\ job'.lane = job.lane /\ job'.auth = job.auth
  <2>1. Holder("watch", "board", arm.id).pc \notin WithRaw
    BY DEF Holder, WithRaw
  <2>2. \A proc, lane, auth : Holder(proc, lane, auth).pc \notin WithRaw
    BY DEF Holder, WithRaw
  <2>3. orphaned(job).auth = job.auth
    BY DEF orphaned, TypeOK, Idle, JobRecord
  <2> QED
    BY <2>2, <2>3, Resting, OrphanedType DEF Take, WatchExecute, ChildLock, SpawnChild, CliExecute,
      Authorize, Arm, DisarmRead, DisarmMark, DisarmWrite, Supervise, WatchStart, WatchExit,
      WatchCrash, HolderCrash, DisarmCrash
<1> QED
  BY <1>1, <1>2, BooksKept, JobRests, JobKept DEF LifeInv

(* A raw that is signed and persisted is fresh. *)
LEMMA PersistLife == ASSUME TypeOK, HasRaw, LifeInv, SignAndPersist PROVE LifeInv'
<1>0. PICK r \in Raws : r = count + 1
  BY BoundsAssumption DEF SignAndPersist, TypeOK, AuditType, Raws
<1>1. r > count /\ count' = r /\ count \in Nat
  BY <1>0, BoundsAssumption DEF SignAndPersist, TypeOK, AuditType, Raws
<1>2. job \in JobRecord
  BY Busy DEF SignAndPersist
<1>3. job'.pc = "signed" /\ job'.raw = r /\ job'.lane = job.lane /\ job'.auth = job.auth
  BY <1>0, <1>2 DEF SignAndPersist, JobRecord
<1>4. UNCHANGED <<head, block, failed, sent, journal, local>>
  BY DEF SignAndPersist, chainVars
<1>5. \A q \in Raws : q # r => raw'[q] = raw[q]
  BY <1>0 DEF SignAndPersist, TypeOK, AuditType
<1>6. raw'[r].lane = job.lane /\ raw'[r].auth = job.auth
  BY <1>0 DEF SignAndPersist, TypeOK, AuditType
<1>7. Fresh(r) /\ Fresh(r)' /\ block[r] = 0
  BY <1>1, <1>4 DEF LifeInv, BookInv, Unused, Fresh, OnChain
<1>8. OnChain' /\ EarnBooks'
  BY <1>1, <1>4, <1>5, <1>7 DEF LifeInv, BookInv, OnChain, EarnBooks, Fresh
<1>9. Unused'
  BY <1>1, <1>4 DEF LifeInv, BookInv, Unused, Fresh, Raws
<1>10. JobInv'
  <2>1. job'.raw <= count'
    BY <1>0, <1>1, <1>3
  <2> QED
    BY <1>3, <1>6, <1>7, <2>1 DEF JobInv, HoldsPlan, HoldsRecord, InHand
<1> QED
  BY <1>8, <1>9, <1>10 DEF LifeInv, BookInv

(* Recording a signature, in the shared audit or in Earn's own. *)
LEMMA JournalLife ==
  ASSUME TypeOK, HasRaw, LifeInv, JournalSigned \/ EarnJournalSigned \/ EarnMirrorSigned
  PROVE  LifeInv'
<1>1. job.pc \in {"signed", "mirroring"}
  BY DEF JournalSigned, EarnJournalSigned, EarnMirrorSigned
<1>2. job \in JobRecord /\ job.raw \in Raws /\ journal \in [Raws -> JournalStates] /\ local \in [Raws -> LocalStates]
  BY <1>1, InHandTyped DEF WithRaw, Steps, TypeOK, AuditType
<1>3. job'.raw = job.raw /\ job'.lane = job.lane /\ job'.auth = job.auth
  BY <1>2 DEF JournalSigned, EarnJournalSigned, EarnMirrorSigned, JobRecord
<1>4. UNCHANGED <<chainVars, count>>
  BY DEF JournalSigned, EarnJournalSigned, EarnMirrorSigned
<1>5. \A r \in Raws : raw'[r].lane = raw[r].lane /\ raw'[r].auth = raw[r].auth /\ raw'[r].deadline = raw[r].deadline
  BY RecordedPlan DEF JournalSigned, EarnJournalSigned, EarnMirrorSigned
<1>6. \A r \in Raws : r # job.raw => journal'[r] = journal[r] /\ local'[r] = local[r]
  BY <1>2 DEF JournalSigned, EarnJournalSigned, EarnMirrorSigned
<1>7. raw[job.raw].lane = job.lane /\ raw[job.raw].auth = job.auth /\ job.raw <= count /\ journal[job.raw] = "none"
  BY <1>1 DEF LifeInv, JobInv, HoldsPlan, HoldsRecord, Fresh, WithRaw, Steps
<1>8. OnChain'
  BY <1>4, <1>5 DEF LifeInv, BookInv, OnChain, chainVars
<1>9. Unused'
  <2>1. \A r \in Raws : r > count => r # job.raw
    BY <1>2, <1>7 DEF TypeOK, AuditType, Raws
  <2> QED
    BY <1>4, <1>6, <2>1 DEF LifeInv, BookInv, Unused, Fresh, chainVars
<1>10. HoldsPlan'
  BY <1>2, <1>3, <1>4, <1>5, <1>7 DEF HoldsPlan
<1>11. CASE JournalSigned
  <2>1. journal'[job.raw] = "signed" /\ job'.pc = "journaled" /\ job.lane # "earn"
    BY <1>2, <1>11 DEF JournalSigned, JobRecord
  <2>2. EarnBooks'
    BY <1>5, <1>6, <1>7, <2>1, <1>11 DEF LifeInv, BookInv, EarnBooks, JournalSigned
  <2>3. HoldsRecord'
    BY <1>3, <2>1 DEF HoldsRecord
  <2> QED
    BY <1>8, <1>9, <1>10, <2>2, <2>3 DEF LifeInv, BookInv, JobInv
<1>12. CASE EarnJournalSigned
  <2>1. local'[job.raw] = "signed" /\ job.lane = "earn" /\ UNCHANGED journal
    BY <1>2, <1>12 DEF EarnJournalSigned
  <2>2. job'.pc = IF job.auth # 0 THEN "mirroring" ELSE "journaled"
    BY <1>2, <1>12 DEF EarnJournalSigned, JobRecord
  <2>3. EarnBooks'
    BY <1>5, <1>6, <1>7, <2>1 DEF LifeInv, BookInv, EarnBooks
  <2>4. sent'[job.raw] = "no"
    BY <1>4, <1>12 DEF LifeInv, JobInv, HoldsRecord, Fresh, chainVars, EarnJournalSigned
  <2>5. HoldsRecord'
    BY <1>3, <1>7, <2>1, <2>2, <2>4 DEF HoldsRecord
  <2> QED
    BY <1>8, <1>9, <1>10, <2>3, <2>5 DEF LifeInv, BookInv, JobInv
<1>13. CASE EarnMirrorSigned
  <2>1. journal'[job.raw] = "signed" /\ job'.pc = "journaled" /\ UNCHANGED local
    BY <1>2, <1>13 DEF EarnMirrorSigned, JobRecord
  <2>2. job.lane = "earn" /\ local[job.raw] = "signed"
    BY <1>13 DEF EarnMirrorSigned, LifeInv, JobInv, HoldsRecord
  <2>3. EarnBooks'
    BY <1>5, <1>6, <1>7, <2>1, <2>2 DEF LifeInv, BookInv, EarnBooks
  <2>4. HoldsRecord'
    BY <1>3, <2>1, <2>2 DEF HoldsRecord
  <2> QED
    BY <1>8, <1>9, <1>10, <2>3, <2>4 DEF LifeInv, BookInv, JobInv
<1> QED
  BY <1>11, <1>12, <1>13

(* Sending, waiting and giving up. *)
LEMMA SendLife ==
  ASSUME TypeOK, HasRaw, LifeInv, NEW accepted \in BOOLEAN, Broadcast(accepted)
  PROVE  LifeInv'
<1>1. job \in JobRecord /\ job.raw \in Raws /\ sent \in [Raws -> {"no", "signer", "operator"}]
  BY InHandTyped DEF Broadcast, WithRaw, Steps, TypeOK, ChainType
<1>2. job'.pc = "waiting" /\ job'.raw = job.raw /\ job'.lane = job.lane /\ job'.auth = job.auth
  BY <1>1 DEF Broadcast, JobRecord
<1>3. UNCHANGED <<head, block, failed, auditVars>>
  BY DEF Broadcast
<1>4. \A r \in Raws : r # job.raw => sent'[r] = sent[r]
  BY <1>1 DEF Broadcast
<1>5. \A r \in Raws : sent[r] # "no" => sent'[r] # "no"
  BY <1>1 DEF Broadcast
<1>6. \A r \in Raws : r > count => r # job.raw
  BY <1>1 DEF Broadcast, LifeInv, JobInv, HoldsPlan, WithRaw, Steps, TypeOK, AuditType, Raws
<1>7. BookInv'
  BY <1>3, <1>4, <1>5, <1>6 DEF LifeInv, BookInv, OnChain, EarnBooks, Unused, Fresh, auditVars
<1>8. JobInv'
  BY <1>2, <1>3 DEF Broadcast, LifeInv, JobInv, HoldsPlan, HoldsRecord, InHand, WithRaw, Steps, auditVars
<1> QED
  BY <1>7, <1>8 DEF LifeInv

LEMMA ExecuteLife == ASSUME TypeOK, HasRaw, LifeInv, Execute PROVE LifeInv'
<1>1. CASE Preflight \/ AuthorizeSigning
  <2>1. job'.pc \notin WithRaw
    BY <1>1, Busy DEF Preflight, AuthorizeSigning, WithRaw, JobRecord
  <2> QED
    BY <1>1, <2>1, BooksKept, JobRests DEF Preflight, AuthorizeSigning, LifeInv
<1>2. CASE BroadcastRefused \/ Abort
  BY <1>2, Resting, BooksKept, JobRests DEF BroadcastRefused, Abort, LifeInv
<1>3. CASE Receipt
  <2>1. job \in JobRecord
    BY <1>3, Busy DEF Receipt
  <2>2. /\ job'.pc \in {"reverted", "succeeded"}
        /\ job'.raw = job.raw /\ job'.lane = job.lane /\ job'.auth = job.auth
    BY <1>3, <2>1 DEF Receipt, JobRecord
  <2>3. JobInv'
    BY <1>3, <2>2 DEF Receipt, LifeInv, JobInv, HoldsPlan, HoldsRecord, InHand, WithRaw, Steps, auditVars
  <2> QED
    BY <1>3, <2>3, BooksKept DEF Receipt, LifeInv
<1> QED
  BY <1>1, <1>2, <1>3, PersistLife, JournalLife, SendLife DEF Execute

(* Settling: the ledger, and the terminal records. *)
LEMMA SettleLife == ASSUME TypeOK, HasRaw, LifeInv, Settle PROVE LifeInv'
<1>1. CASE WalletDeltaMismatch
  <2>1. BookInv'
    BY <1>1 DEF WalletDeltaMismatch, LifeInv, BookInv, OnChain, EarnBooks, Unused, Fresh, chainVars
  <2> QED
    BY <1>1, <2>1, Resting, JobRests DEF WalletDeltaMismatch, LifeInv
<1>2. job.pc \in InHand /\ job \in JobRecord /\ job.raw \in Raws /\ job.raw <= count
  <2>1. job.pc \in InHand
    BY DEF Settle, WalletDeltaMismatch, WriteLedger, AppendTerminal, EarnAppendTerminal,
      EarnMirrorTerminal, verdict, InHand, WithRaw, Steps
  <2> QED
    BY <2>1, InHandTyped DEF InHand, LifeInv, JobInv, HoldsPlan
<1>3. \A r \in Raws : r > count => r # job.raw
  BY <1>2 DEF TypeOK, AuditType, Raws
<1>4. journal \in [Raws -> JournalStates] /\ local \in [Raws -> LocalStates]
  BY DEF TypeOK, AuditType
<1>5. CASE WriteLedger
  <2>1. job'.pc = "ledgered" /\ job'.raw = job.raw /\ job'.lane = job.lane /\ job'.auth = job.auth
    BY <1>2, <1>5 DEF WriteLedger, JobRecord
  <2>2. BookInv'
    BY <1>5 DEF WriteLedger, LifeInv, BookInv, OnChain, EarnBooks, Unused, Fresh, chainVars
  <2>3. JobInv'
    BY <1>2, <1>5, <2>1 DEF WriteLedger, LifeInv, JobInv, HoldsPlan, HoldsRecord, InHand, WithRaw, Steps
  <2> QED
    BY <2>2, <2>3 DEF LifeInv
<1>6. CASE AppendTerminal
  <2>1. \A r \in Raws : r # job.raw => journal'[r] = journal[r]
    BY <1>4, <1>6 DEF AppendTerminal
  <2>2. raw[job.raw].lane # "earn"
    BY <1>2, <1>6 DEF AppendTerminal, LifeInv, JobInv, HoldsPlan, InHand
  <2>3. BookInv'
    BY <1>3, <1>6, <2>1, <2>2 DEF AppendTerminal, LifeInv, BookInv, OnChain, EarnBooks, Unused, Fresh, chainVars
  <2> QED
    BY <1>6, <2>3, Resting, JobRests DEF AppendTerminal, LifeInv
<1>7. CASE EarnAppendTerminal
  <2>1. \A r \in Raws : r # job.raw => local'[r] = local[r]
    BY <1>4, <1>7 DEF EarnAppendTerminal
  <2>2. local'[job.raw] = verdict(job) /\ verdict(job) \in {"effect", "reverted"}
    BY <1>2, <1>4, <1>7 DEF EarnAppendTerminal, verdict
  <2>3. raw[job.raw].lane = "earn" /\ journal[job.raw] \in {"none", "signed"} /\ job.lane = "earn"
    BY <1>2, <1>7 DEF EarnAppendTerminal, LifeInv, JobInv, HoldsPlan, HoldsRecord, InHand
  <2>4. BookInv'
    BY <1>3, <1>7, <2>1, <2>2, <2>3 DEF EarnAppendTerminal, LifeInv, BookInv, OnChain, EarnBooks, Unused, Fresh, chainVars
  <2>5. CASE job' = Idle
    BY <2>4, <2>5, Resting, JobRests DEF LifeInv
  <2>6. CASE raw[job.raw].auth # 0
    <3>1. /\ job'.pc = IF verdict(job) = "effect" THEN "mirrorEffect" ELSE "mirrorRevert"
          /\ job'.raw = job.raw /\ job'.lane = job.lane /\ job'.auth = job.auth
      BY <1>2, <1>7, <2>6 DEF EarnAppendTerminal, JobRecord
    <3>2. JobInv'
      BY <1>2, <1>7, <2>2, <2>3, <3>1 DEF EarnAppendTerminal, LifeInv, JobInv, HoldsPlan, HoldsRecord, InHand, WithRaw, Steps
    <3> QED
      BY <2>4, <3>2 DEF LifeInv
  <2> QED
    BY <1>7, <2>5, <2>6 DEF EarnAppendTerminal
<1>8. CASE EarnMirrorTerminal
  <2>1. \A r \in Raws : r # job.raw => journal'[r] = journal[r]
    BY <1>4, <1>8 DEF EarnMirrorTerminal
  <2>2. journal'[job.raw] = local[job.raw] /\ local[job.raw] # "none"
    BY <1>2, <1>4, <1>8 DEF EarnMirrorTerminal, LifeInv, JobInv, HoldsRecord
  <2>3. BookInv'
    BY <1>3, <1>8, <2>1, <2>2 DEF EarnMirrorTerminal, LifeInv, BookInv, OnChain, EarnBooks, Unused, Fresh, chainVars
  <2> QED
    BY <1>8, <2>3, Resting, JobRests DEF EarnMirrorTerminal, LifeInv
<1> QED
  BY <1>1, <1>5, <1>6, <1>7, <1>8 DEF Settle

(* A reconciler takes up a mutation that one of the audits calls signed. *)
LEMMA TargetLife ==
  ASSUME TypeOK, LifeInv, NEW proc, NEW r \in Unresolved \cup LocalOpen, job' = Reconciling(proc, r),
         UNCHANGED <<chainVars, auditVars>>,
         r \notin Unresolved => Unresolved = {}
  PROVE  LifeInv'
<1>1. r \in Raws /\ (journal[r] = "signed" \/ local[r] = "signed")
  BY DEF Unresolved, LocalOpen
<1>2. r <= count /\ count \in Nat /\ r \in Nat
  BY <1>1, BoundsAssumption DEF LifeInv, BookInv, Unused, Fresh, TypeOK, AuditType, Raws
<1>3. job'.pc = "observing" /\ job'.raw = r /\ job'.lane = raw[r].lane /\ job'.auth = raw[r].auth
  BY DEF Reconciling
<1>4. raw[r].lane # "earn" => journal[r] = "signed"
  BY <1>1 DEF LifeInv, BookInv, EarnBooks
<1>5. raw[r].lane = "earn" => journal[r] \in {"none", "signed"} /\ local[r] # "none"
  BY <1>1, Zenon DEF LifeInv, BookInv, EarnBooks
<1>6. HoldsPlan'
  BY <1>2, <1>3 DEF HoldsPlan, auditVars
<1>7. HoldsRecord'
  BY <1>1, <1>3, <1>4, <1>5 DEF HoldsRecord, InHand, WithRaw, Steps, auditVars
<1> QED
  BY <1>6, <1>7, BooksKept DEF LifeInv, JobInv

LEMMA ReconcileLife == ASSUME TypeOK, HasRaw, LifeInv, Reconcile PROVE LifeInv'
<1>1. CASE WatchReconcile
  <2>1. latestUnresolved(Unresolved) \in Unresolved
    BY <1>1, LatestIsOpen DEF WatchReconcile, Unresolved
  <2> QED
    BY <1>1, <2>1, TargetLife DEF WatchReconcile
<1>2. CASE CliReconcile
  <2>1. reconcileTarget \in Unresolved \cup LocalOpen
    BY <1>2, TargetIsOpen DEF CliReconcile
  <2>2. Unresolved # {} => reconcileTarget \in Unresolved
    BY LatestIsOpen DEF reconcileTarget, Unresolved
  <2> QED
    BY <1>2, <2>1, <2>2, TargetLife DEF CliReconcile
<1>3. CASE Inconclusive
  BY <1>3, Resting, BooksKept, JobRests DEF Inconclusive, LifeInv
<1>4. CASE Observe
  <2>1. job \in JobRecord /\ job.raw \in Raws /\ job.raw <= count
    BY <1>4, InHandTyped DEF Observe, LifeInv, JobInv, HoldsPlan, WithRaw, Steps
  <2>2. raw[job.raw].lane = job.lane
    BY <1>4 DEF Observe, LifeInv, JobInv, HoldsPlan, WithRaw, Steps
  <2>3. \A r \in Raws : r > count => r # job.raw
    BY <2>1 DEF TypeOK, AuditType, Raws
  <2>4. UNCHANGED <<head, block, failed, count, raw, local>>
    BY <1>4 DEF Observe
  <2>5. PICK obs \in Observations(job) : Confirm(job, obs) \/ Abandon(job, obs) \/ Rebroadcast(job, obs)
    BY <1>4 DEF Observe
  <2>6. journal \in [Raws -> JournalStates] /\ sent \in [Raws -> {"no", "signer", "operator"}]
    BY DEF TypeOK, AuditType, ChainType
  <2>7. CASE Confirm(job, obs)
    <3>1. /\ job'.pc \in {"succeeded", "reverted"} /\ UNCHANGED <<sent, journal>>
          /\ job'.raw = job.raw /\ job'.lane = job.lane /\ job'.auth = job.auth
      BY <2>1, <2>7 DEF Confirm, JobRecord
    <3>2. BookInv'
      BY <2>4, <3>1 DEF LifeInv, BookInv, OnChain, EarnBooks, Unused, Fresh
    <3>3. JobInv'
      BY <1>4, <2>4, <3>1 DEF Observe, LifeInv, JobInv, HoldsPlan, HoldsRecord, InHand, WithRaw, Steps
    <3> QED
      BY <3>2, <3>3 DEF LifeInv
  <2>8. CASE Abandon(job, obs)
    <3>1. \A r \in Raws : r # job.raw => journal'[r] = journal[r]
      BY <2>6, <2>8 DEF Abandon
    <3>2. BookInv'
      BY <2>2, <2>3, <2>4, <2>8, <3>1 DEF Abandon, LifeInv, BookInv, OnChain, EarnBooks, Unused, Fresh
    <3> QED
      BY <2>8, <3>2, Resting, JobRests DEF Abandon, LifeInv
  <2>9. CASE Rebroadcast(job, obs)
    <3>1. \A r \in Raws : r # job.raw => sent'[r] = sent[r]
      BY <2>6, <2>9 DEF Rebroadcast
    <3>2. \A r \in Raws : sent[r] # "no" => sent'[r] # "no"
      BY <2>6, <2>9 DEF Rebroadcast
    <3>3. BookInv'
      BY <2>3, <2>4, <2>9, <3>1, <3>2 DEF Rebroadcast, LifeInv, BookInv, OnChain, EarnBooks, Unused, Fresh
    <3> QED
      BY <2>9, <3>3, Resting, JobRests DEF Rebroadcast, LifeInv
  <2> QED
    BY <2>5, <2>7, <2>8, <2>9
<1> QED
  BY <1>1, <1>2, <1>3, <1>4 DEF Reconcile

LEMMA LifeStep == ASSUME TypeOK, HasRaw, LifeInv, [Next]_vars PROVE LifeInv'
<1>1. ASSUME UNCHANGED vars PROVE LifeInv'
  <2>1. UNCHANGED <<chainVars, auditVars, job>>
    BY <1>1 DEF vars
  <2> QED
    BY <2>1, BooksKept, JobKept DEF LifeInv
<1> QED
  BY <1>1, ChainLife, TakeLife, ExecuteLife, SettleLife, ReconcileLife DEF Next

(* The chain, the audits and the job in hand agree on the life of every raw,    *)
(* whatever crashes, with every lane in play.                                   *)
THEOREM LifeCorrect == Spec => []LifeInv
<1>1. Init => LifeInv
  BY DEF Init, LifeInv, BookInv, OnChain, EarnBooks, Unused, Fresh, JobInv, HoldsPlan, HoldsRecord,
    NoRaw, Idle, WithRaw, InHand, Steps
<1>2. TypeOK /\ HasRaw /\ LifeInv /\ [Next]_vars => LifeInv'
  BY LifeStep
<1> QED
  BY <1>1, <1>2, TypeCorrect, PTL DEF Spec

(* EarnMirror, for every value of the bounds and every choice of lanes.         *)
THEOREM EarnMirrored == Spec => []EarnMirror
<1>1. LifeInv /\ SentIsRecorded => EarnMirror
  BY DEF LifeInv, BookInv, EarnBooks, EarnMirror
<1> QED
  BY <1>1, LifeCorrect, WriteAhead, PTL

-------------------------------------------------------------------------------
(* Authorizations *)

(* Numbers are given out once; the arm in force is the last one; a disarm that *)
(* is about to write over the marker does not find the arm's own name there.   *)
ArmFiles ==
  /\ arm.armed => arm.id = arms /\ arms # 0
  /\ arm.id <= arms /\ disarm.id <= arms /\ revoked <= arms
  /\ (disarm.step = "read" /\ disarm.id # arm.id) => revoked # arm.id
Numbered ==
  /\ job.auth <= arms /\ child.auth <= arms
  /\ \A r \in Raws : raw[r].auth <= arms
AuthInv == ArmFiles /\ Numbered

(* What was persisted keeps its plan. *)
LEMMA PlanKept ==
  ASSUME TypeOK, Next, NEW r \in Raws, r <= count
  PROVE  /\ raw'[r].lane = raw[r].lane /\ raw'[r].auth = raw[r].auth
         /\ raw'[r].nonce = raw[r].nonce /\ raw'[r].deadline = raw[r].deadline
<1>1. CASE SignAndPersist
  <2>1. r # count + 1
    BY BoundsAssumption DEF TypeOK, AuditType, Raws
  <2> QED
    BY <1>1, <2>1 DEF SignAndPersist, TypeOK, AuditType
<1>2. CASE JournalSigned \/ EarnMirrorSigned
  BY <1>2, RecordedPlan DEF JournalSigned, EarnMirrorSigned
<1>3. CASE UNCHANGED raw
  BY <1>3
<1> QED
  BY <1>1, <1>2, <1>3 DEF Next, ChainStep, Tick, Mine, Reorg, Take, WatchExecute, SpawnChild, ChildLock,
    CliExecute, Execute, Preflight, AuthorizeSigning, EarnJournalSigned, Broadcast, BroadcastRefused,
    Receipt, Abort, Settle, WalletDeltaMismatch, WriteLedger, AppendTerminal, EarnAppendTerminal,
    EarnMirrorTerminal, Reconcile, WatchReconcile, CliReconcile, Observe, Inconclusive, Authorize,
    Arm, DisarmRead, DisarmMark, DisarmWrite, Supervise, WatchStart, WatchExit, WatchCrash,
    HolderCrash, DisarmCrash, auditVars

(* What is on record was persisted. *)
LEMMA RecordedCounted ==
  ASSUME TypeOK, LifeInv, NEW r \in Raws, journal[r] # "none" \/ sent[r] # "no"
  PROVE  r <= count
  BY BoundsAssumption DEF LifeInv, BookInv, Unused, Fresh, TypeOK, AuditType, Raws

(* Where the authorization of a job, of a child and of a raw comes from. *)
LEMMA ChildAuth ==
  ASSUME Next
  PROVE  UNCHANGED child \/ child' = NoChild \/ \E lane \in AllLanes : SpawnChild(lane)
  BY DEF Next, ChainStep, Tick, Mine, Reorg, Take, WatchExecute, ChildLock, CliExecute,
    Execute, Preflight, AuthorizeSigning, SignAndPersist, JournalSigned, EarnJournalSigned,
    EarnMirrorSigned, Broadcast, BroadcastRefused, Receipt, Abort, Settle, WalletDeltaMismatch,
    WriteLedger, AppendTerminal, EarnAppendTerminal, EarnMirrorTerminal, Reconcile, WatchReconcile,
    CliReconcile, Observe, Inconclusive, Authorize, Arm, DisarmRead, DisarmMark, DisarmWrite,
    Supervise, WatchStart, WatchExit, WatchCrash, HolderCrash, DisarmCrash, watchVars

LEMMA RawAuth ==
  ASSUME TypeOK, Next
  PROVE  \/ /\ SignAndPersist
            /\ \A r \in Raws : raw'[r] = raw[r] \/ (r = count + 1 /\ raw'[r].auth = job.auth)
         \/ \A r \in Raws : raw'[r].auth = raw[r].auth /\ raw'[r].lane = raw[r].lane
<1>1. CASE SignAndPersist
  BY <1>1 DEF SignAndPersist, TypeOK, AuditType
<1>2. CASE UNCHANGED raw
  BY <1>2
<1>3. CASE JournalSigned \/ EarnMirrorSigned
  BY <1>3, RecordedPlan DEF JournalSigned, EarnMirrorSigned
<1> QED
  BY <1>1, <1>2, <1>3 DEF Next, ChainStep, Tick, Mine, Reorg, Take, WatchExecute, SpawnChild,
    ChildLock, CliExecute, Execute, Preflight, AuthorizeSigning, EarnJournalSigned, Broadcast,
    BroadcastRefused, Receipt, Abort, Settle, WalletDeltaMismatch, WriteLedger, AppendTerminal,
    EarnAppendTerminal, EarnMirrorTerminal, Reconcile, WatchReconcile, CliReconcile, Observe,
    Inconclusive, Authorize, Arm, DisarmRead, DisarmMark, DisarmWrite, Supervise, WatchStart,
    WatchExit, WatchCrash, HolderCrash, DisarmCrash, auditVars

LEMMA JobAuth ==
  ASSUME TypeOK, HasRaw, Next
  PROVE  \/ job'.auth \in {job.auth, 0, arm.id, child.auth}
         \/ \E r \in Raws : job'.auth = raw[r].auth
<1>1. Idle.auth = 0
  BY DEF Idle
<1>2. orphaned(job).auth = job.auth
  BY DEF orphaned, TypeOK, Idle, JobRecord
<1>3. \A proc, lane, auth : Holder(proc, lane, auth).auth = auth
  BY DEF Holder
<1>4. CASE Execute
  <2>1. job \in JobRecord
    BY <1>4, Busy DEF Execute, Preflight, AuthorizeSigning, SignAndPersist, JournalSigned,
      EarnJournalSigned, EarnMirrorSigned, Broadcast, BroadcastRefused, Receipt, Abort
  <2> QED
    BY <1>1, <1>4, <2>1 DEF Execute, Preflight, AuthorizeSigning, SignAndPersist, JournalSigned,
      EarnJournalSigned, EarnMirrorSigned, Broadcast, BroadcastRefused, Receipt, Abort, JobRecord
<1>5. CASE Settle
  <2>1. job \in JobRecord
    BY <1>5, Busy DEF Settle, WalletDeltaMismatch, WriteLedger, AppendTerminal, EarnAppendTerminal,
      EarnMirrorTerminal, verdict
  <2> QED
    BY <1>1, <1>5, <2>1 DEF Settle, WalletDeltaMismatch, WriteLedger, AppendTerminal, EarnAppendTerminal,
      EarnMirrorTerminal, JobRecord
<1>6. CASE Reconcile
  <2>1. \A proc, r : Reconciling(proc, r).auth = raw[r].auth
    BY DEF Reconciling
  <2>2. CASE WatchReconcile
    <3>1. latestUnresolved(Unresolved) \in Raws
      BY <2>2, LatestIsOpen DEF WatchReconcile, Unresolved
    <3> QED
      BY <2>1, <2>2, <3>1 DEF WatchReconcile
  <2>3. CASE CliReconcile
    <3>1. reconcileTarget \in Raws
      BY <2>3, TargetIsOpen DEF CliReconcile, Unresolved, LocalOpen
    <3> QED
      BY <2>1, <2>3, <3>1 DEF CliReconcile
  <2>4. CASE Observe
    <3>1. job \in JobRecord
      BY <2>4, Busy DEF Observe
    <3> QED
      BY <1>1, <2>4, <3>1 DEF Observe, Confirm, Abandon, Rebroadcast, JobRecord
  <2> QED
    BY <1>1, <1>6, <2>2, <2>3, <2>4 DEF Reconcile, Inconclusive
<1>7. CASE ChainStep \/ Take \/ Authorize \/ Supervise
  BY <1>1, <1>2, <1>3, <1>7 DEF ChainStep, Tick, Mine, Reorg, Take, WatchExecute, SpawnChild,
    ChildLock, CliExecute, Authorize, Arm, DisarmRead, DisarmMark, DisarmWrite, Supervise, WatchStart,
    WatchExit, WatchCrash, HolderCrash, DisarmCrash
<1> QED
  BY <1>4, <1>5, <1>6, <1>7 DEF Next

(* Only arming, disarming and a disarm that dies touch the arm's files. *)
LEMMA ArmFilesChange ==
  ASSUME Next
  PROVE  UNCHANGED armVars \/ Authorize \/ DisarmCrash
  BY DEF Next, ChainStep, Tick, Mine, Reorg, Take, WatchExecute, SpawnChild, ChildLock, CliExecute,
    Execute, Preflight, AuthorizeSigning, SignAndPersist, JournalSigned, EarnJournalSigned,
    EarnMirrorSigned, Broadcast, BroadcastRefused, Receipt, Abort, Settle, WalletDeltaMismatch,
    WriteLedger, AppendTerminal, EarnAppendTerminal, EarnMirrorTerminal, Reconcile, WatchReconcile,
    CliReconcile, Observe, Inconclusive, Supervise, WatchStart, WatchExit, WatchCrash, HolderCrash

LEMMA AuthStep ==
  ASSUME TypeOK, HasRaw, AuthInv, [Next]_vars
  PROVE  AuthInv'
<1> USE BoundsAssumption
<1>1. arm \in [id : Nat, armed : BOOLEAN] /\ arms \in Nat /\ revoked \in Nat
  BY DEF TypeOK, ArmType
<1>2. disarm \in [id : 0 .. MaxArms, step : {"none", "read", "marked"}]
  BY DEF TypeOK, ArmType
<1>3. ArmFiles' /\ arms' \in Nat /\ arms <= arms'
  <2>1. CASE UNCHANGED armVars
    BY <1>1, <2>1 DEF AuthInv, ArmFiles, armVars
  <2>2. CASE Arm
    BY <1>1, <1>2, <2>2 DEF Arm, AuthInv, ArmFiles
  <2>3. CASE DisarmRead
    BY <1>1, <1>2, <2>3 DEF DisarmRead, AuthInv, ArmFiles
  <2>4. CASE DisarmMark
    BY <1>1, <1>2, <2>4 DEF DisarmMark, AuthInv, ArmFiles
  <2>5. CASE DisarmWrite
    BY <1>1, <1>2, <2>5 DEF DisarmWrite, AuthInv, ArmFiles, NoDisarm
  <2>6. CASE DisarmCrash
    BY <1>1, <1>2, <2>6 DEF DisarmCrash, AuthInv, ArmFiles, NoDisarm
  <2>7. CASE UNCHANGED vars
    BY <2>1, <2>7 DEF vars
  <2> QED
    BY <2>1, <2>2, <2>3, <2>4, <2>5, <2>6, <2>7, ArmFilesChange DEF Authorize
<1>4. Numbered'
  <2>1. CASE UNCHANGED vars
    BY <2>1 DEF AuthInv, Numbered, vars, armVars, auditVars, watchVars
  <2>2. CASE Next
    <3>1. job.auth \in Nat /\ child.auth \in Nat /\ \A r \in Raws : raw[r].auth \in Nat
      BY DEF TypeOK, JobRecord, Idle, WatchType, NoChild, AuditType, RawRecord
    <3>2. job'.auth <= arms'
      BY <1>1, <1>3, <2>2, <3>1, JobAuth DEF AuthInv, ArmFiles, Numbered
    <3>3. child'.auth <= arms'
      <4>1. child'.auth \in {child.auth, 0, arm.id}
        BY <2>2, ChildAuth DEF SpawnChild, NoChild
      <4> QED
        BY <1>1, <1>3, <3>1, <4>1 DEF AuthInv, ArmFiles, Numbered
    <3>4. \A r \in Raws : raw'[r].auth <= arms'
      BY <1>1, <1>3, <2>2, <3>1, RawAuth DEF AuthInv, Numbered
    <3> QED
      BY <3>2, <3>3, <3>4 DEF Numbered
  <2> QED
    BY <2>1, <2>2
<1> QED
  BY <1>3, <1>4 DEF AuthInv

(* Only authorizations that were issued are named by files, jobs, children and  *)
(* raws; an armed file is the newest one's; and a disarm that has read another  *)
(* one than the file holds has not marked that one.  Whatever crashes.          *)
THEOREM AuthCorrect == Spec => []AuthInv
<1>1. Init => AuthInv
  BY BoundsAssumption DEF Init, AuthInv, ArmFiles, Numbered, NoDisarm, Idle, NoChild, NoRaw
<1>2. TypeOK /\ HasRaw /\ AuthInv /\ [Next]_vars => AuthInv'
  BY AuthStep
<1> QED
  BY <1>1, <1>2, TypeCorrect, PTL DEF Spec

(* An authorization that is not in force does not come into force. *)
LEMMA ForceLost ==
  ASSUME TypeOK, AuthInv, [Next]_vars, NEW a \in Nat, a <= arms, ~Live(a)
  PROVE  ~Live(a)'
<1> USE BoundsAssumption
<1>1. arms \in Nat /\ disarm \in [id : 0 .. MaxArms, step : {"none", "read", "marked"}]
  BY DEF TypeOK, ArmType
<1>2. CASE UNCHANGED armVars
  BY <1>2 DEF Live, armVars
<1>3. CASE Arm
  BY <1>1, <1>3 DEF Arm, Live
<1>4. CASE DisarmRead \/ DisarmCrash
  BY <1>4 DEF DisarmRead, DisarmCrash, Live
<1>5. CASE DisarmMark
  BY <1>5 DEF DisarmMark, Live, AuthInv, ArmFiles
<1>6. CASE DisarmWrite
  BY <1>6 DEF DisarmWrite, Live
<1>7. CASE UNCHANGED vars
  BY <1>2, <1>7 DEF vars
<1> QED
  BY <1>2, <1>3, <1>4, <1>5, <1>6, <1>7, ArmFilesChange DEF Authorize

(* Revocation *)

Signing == {"signing", "signed", "mirroring"}

(* A raw recorded too late belongs to an authorization that has lost its       *)
(* force, and nobody is signing for that one any more.                         *)
LateInv ==
  /\ \A r \in Raws : raw[r].late =>
       /\ raw[r].auth # 0 /\ ~Live(raw[r].auth)
       /\ job.pc \in Signing => job.auth # raw[r].auth
  /\ RevocationBound

(* Only the recording of a raw finds out that it is late. *)
LEMMA LateFrom ==
  ASSUME TypeOK, HasRaw, Next, NEW r \in Raws, raw'[r].late
  PROVE  /\ raw'[r].lane = raw[r].lane /\ raw'[r].auth = raw[r].auth
         /\ \/ raw[r].late /\ ~(JournalSigned \/ EarnMirrorSigned)
            \/ raw[r].late /\ r # job.raw
            \/ /\ JournalSigned \/ EarnMirrorSigned
               /\ r = job.raw /\ raw[r].auth # 0 /\ ~Live(raw[r].auth)
<1>1. CASE SignAndPersist
  <2>1. raw \in [Raws -> RawRecord]
    BY DEF TypeOK, AuditType
  <2>2. r # count + 1
    BY <1>1, <2>1 DEF SignAndPersist
  <2> QED
    BY <1>1, <2>1, <2>2 DEF SignAndPersist, JournalSigned, EarnMirrorSigned
<1>2. CASE JournalSigned \/ EarnMirrorSigned
  <2>1. raw' = recorded(job.raw)
    BY <1>2 DEF JournalSigned, EarnMirrorSigned
  <2>2. raw \in [Raws -> RawRecord]
    BY DEF TypeOK, AuditType
  <2>3. r # job.raw => raw'[r] = raw[r]
    BY <2>1, <2>2 DEF recorded
  <2>4. r = job.raw => raw'[r].late = (raw[r].auth # 0 /\ ~Live(raw[r].auth))
    BY <2>1, <2>2 DEF recorded, RawRecord
  <2>5. raw'[r].lane = raw[r].lane /\ raw'[r].auth = raw[r].auth
    BY <2>1, RecordedPlan
  <2> QED
    BY <1>2, <2>3, <2>4, <2>5
<1>3. CASE UNCHANGED raw /\ ~(JournalSigned \/ EarnMirrorSigned)
  BY <1>3
<1> QED
  BY <1>1, <1>2, <1>3 DEF Next, ChainStep, Tick, Mine, Reorg, Take, WatchExecute, SpawnChild,
    ChildLock, CliExecute, Execute, Preflight, AuthorizeSigning, EarnJournalSigned, Broadcast,
    BroadcastRefused, Receipt, Abort, Settle, WalletDeltaMismatch, WriteLedger, AppendTerminal,
    EarnAppendTerminal, EarnMirrorTerminal, Reconcile, WatchReconcile, CliReconcile, Observe,
    Inconclusive, Authorize, Arm, DisarmRead, DisarmMark, DisarmWrite, Supervise, WatchStart,
    WatchExit, WatchCrash, HolderCrash, DisarmCrash, auditVars

(* A signer starts from an authorization that was just asserted. *)
LEMMA SigningFrom ==
  ASSUME TypeOK, HasRaw, Next, job'.pc \in Signing
  PROVE  /\ job'.auth = job.auth
         /\ job.pc \in Signing \/ (AuthorizeSigning /\ job.pc = "ready")
<1>1. \A proc, r : Reconciling(proc, r).pc \notin Signing
  BY DEF Reconciling, Signing
<1>2. \A proc, lane, auth : Holder(proc, lane, auth).pc \notin Signing
  BY DEF Holder, Signing
<1>3. Idle.pc \notin Signing
  BY DEF Idle, Signing
<1>4. orphaned(job).auth = job.auth /\ orphaned(job).pc = job.pc
  BY OrphanedType DEF orphaned, TypeOK, Idle, JobRecord
<1>5. CASE Execute \/ Settle
  <2>1. job \in JobRecord
    BY <1>5, Busy DEF Execute, Preflight, AuthorizeSigning, SignAndPersist, JournalSigned,
      EarnJournalSigned, EarnMirrorSigned, Broadcast, BroadcastRefused, Receipt, Abort,
      Settle, WalletDeltaMismatch, WriteLedger, AppendTerminal, EarnAppendTerminal,
      EarnMirrorTerminal, verdict
  <2> QED
    BY <1>3, <1>5, <2>1 DEF Execute, Preflight, AuthorizeSigning, SignAndPersist, JournalSigned,
      EarnJournalSigned, EarnMirrorSigned, Broadcast, BroadcastRefused, Receipt, Abort, JobRecord,
      Settle, WalletDeltaMismatch, WriteLedger, AppendTerminal, EarnAppendTerminal,
      EarnMirrorTerminal, Signing
<1>6. CASE Reconcile
  <2>1. CASE Observe
    <3>1. job \in JobRecord
      BY <2>1, Busy DEF Observe
    <3> QED
      BY <1>3, <2>1, <3>1 DEF Observe, Confirm, Abandon, Rebroadcast, JobRecord, Signing
  <2> QED
    BY <1>1, <1>3, <1>6, <2>1 DEF Reconcile, WatchReconcile, CliReconcile, Inconclusive
<1> QED
  BY <1>2, <1>3, <1>4, <1>5, <1>6 DEF Next, ChainStep, Tick, Mine, Reorg, Take, WatchExecute,
    SpawnChild, ChildLock, CliExecute, Authorize, Arm, DisarmRead, DisarmMark, DisarmWrite,
    Supervise, WatchStart, WatchExit, WatchCrash, HolderCrash, DisarmCrash

(* A signer sends what it has just asserted. *)
LEMMA SignerSends ==
  ASSUME TypeOK, HasRaw, Next, NEW r \in Raws, sent'[r] = "signer"
  PROVE  sent[r] = "signer" \/ (Broadcast(TRUE) /\ r = job.raw)
<1>1. sent \in [Raws -> {"no", "signer", "operator"}]
  BY DEF TypeOK, ChainType
<1>2. CASE UNCHANGED sent
  BY <1>2
<1>3. CASE Observe
  BY <1>1, <1>3 DEF Observe, Confirm, Abandon, Rebroadcast
<1>4. CASE Broadcast(TRUE) \/ Broadcast(FALSE)
  BY <1>1, <1>4 DEF Broadcast
<1> QED
  BY <1>2, <1>3, <1>4 DEF Next, ChainStep, Tick, Mine, Reorg, Take, WatchExecute, SpawnChild,
    ChildLock, CliExecute, Execute, Preflight, AuthorizeSigning, SignAndPersist, JournalSigned,
    EarnJournalSigned, EarnMirrorSigned, BroadcastRefused, Receipt, Abort, Settle,
    WalletDeltaMismatch, WriteLedger, AppendTerminal, EarnAppendTerminal, EarnMirrorTerminal,
    Reconcile, WatchReconcile, CliReconcile, Inconclusive, Authorize, Arm, DisarmRead, DisarmMark,
    DisarmWrite, Supervise, WatchStart, WatchExit, WatchCrash, HolderCrash, DisarmCrash, chainVars

LEMMA LateStep ==
  ASSUME TypeOK, HasRaw, LifeInv, AuthInv, LateInv, Next
  PROVE  LateInv'
<1>1. ASSUME NEW r \in Raws, raw'[r].late
      PROVE  (raw[r].auth # 0 /\ ~Live(raw[r].auth))'
  <2>1. raw[r].auth # 0 /\ ~Live(raw[r].auth) /\ raw'[r].auth = raw[r].auth
    BY <1>1, LateFrom DEF LateInv
  <2>2. PICK a \in Nat : a = raw[r].auth /\ a <= arms
    BY BoundsAssumption DEF AuthInv, Numbered, TypeOK, AuditType, RawRecord
  <2>3. ~Live(a)'
    BY <2>1, <2>2, ForceLost
  <2> QED
    BY <2>1, <2>2, <2>3 DEF Live
<1>2. ASSUME NEW r \in Raws, raw'[r].late, job'.pc \in Signing
      PROVE  job'.auth # raw'[r].auth
  <2>1. ~(JournalSigned \/ EarnMirrorSigned)
    BY <1>2, Busy DEF JournalSigned, EarnMirrorSigned, Signing, JobRecord
  <2>2. raw[r].late /\ raw'[r].auth = raw[r].auth
    BY <1>2, <2>1, LateFrom
  <2>3. CASE job.pc \in Signing
    BY <1>2, <2>2, <2>3, SigningFrom DEF LateInv
  <2>4. CASE AuthorizeSigning
    <3>1. job.auth # 0 => Live(job.auth)
      BY <2>4 DEF AuthorizeSigning, stillAuthorized, assertDualAuthorization, assertEarnAuthorization,
        assertGlobalAuthorization
    <3> QED
      BY <1>2, <2>2, <3>1, SigningFrom DEF LateInv
  <2> QED
    BY <1>2, <2>3, <2>4, SigningFrom
<1>3. CASE JournalSigned \/ EarnMirrorSigned
  <2>1. job.pc \in {"signed", "mirroring"} /\ sent' = sent /\ arms' = arms
    BY <1>3 DEF JournalSigned, EarnMirrorSigned, chainVars, armVars
  <2>2. job.raw \in Raws /\ raw[job.raw].auth = job.auth /\ sent[job.raw] = "no"
    BY <2>1, InHandTyped DEF LifeInv, JobInv, HoldsPlan, HoldsRecord, Fresh, WithRaw, Steps
  <2>3. ASSUME NEW p \in Raws, p # job.raw, raw'[p].late
        PROVE  raw[p].late /\ raw'[p].auth # job.auth
    BY <1>3, <2>1, <2>3, LateFrom DEF LateInv, Signing
  <2>4. raw'[job.raw].late => raw'[job.raw].auth = job.auth
    BY <2>2, LateFrom
  <2>5. ASSUME NEW a \in 1 .. arms', NEW p \in LateRaws(a)', NEW r \in LateRaws(a)' PROVE p = r
    <3>1. p \in Raws /\ r \in Raws /\ raw'[p].late /\ raw'[r].late /\ raw'[p].auth = a /\ raw'[r].auth = a
      BY <2>5 DEF LateRaws
    <3>2. CASE p = job.raw \/ r = job.raw
      BY <2>3, <2>4, <3>1, <3>2
    <3>3. CASE p # job.raw /\ r # job.raw
      <4>1. raw[p].late /\ raw[r].late /\ raw[p].auth = a /\ raw[r].auth = a
        BY <2>3, <3>1, <3>3, LateFrom
      <4> QED
        BY <2>1, <2>5, <3>1, <4>1 DEF LateInv, RevocationBound, LateRaws
    <3> QED
      BY <3>2, <3>3
  <2>6. ASSUME NEW r \in Raws, raw'[r].late, raw'[r].lane \in {"board", "earn"}
        PROVE  sent'[r] # "signer"
    BY <2>1, <2>2, <2>3, <2>6, LateFrom DEF LateInv, RevocationBound
  <2> QED
    BY <1>1, <1>2, <2>5, <2>6 DEF LateInv, RevocationBound
<1>4. CASE ~(JournalSigned \/ EarnMirrorSigned)
  <2>1. ASSUME NEW r \in Raws, raw'[r].late
        PROVE  raw[r].late /\ raw'[r].auth = raw[r].auth /\ raw'[r].lane = raw[r].lane
    BY <1>4, <2>1, LateFrom
  <2>2. ASSUME NEW a \in 1 .. arms', NEW p \in LateRaws(a)', NEW r \in LateRaws(a)' PROVE p = r
    <3>1. p \in Raws /\ r \in Raws /\ raw[p].late /\ raw[r].late /\ raw[p].auth = a /\ raw[r].auth = a
      BY <2>1, <2>2 DEF LateRaws
    <3>2. a \in 1 .. arms
      BY <2>2, <3>1, BoundsAssumption DEF AuthInv, Numbered, TypeOK, ArmType
    <3> QED
      BY <3>1, <3>2 DEF LateInv, RevocationBound, LateRaws
  <2>3. ASSUME NEW r \in Raws, raw'[r].late, raw'[r].lane \in {"board", "earn"}
        PROVE  sent'[r] # "signer"
    <3>1. raw[r].late /\ raw[r].lane \in {"board", "earn"} /\ sent[r] # "signer"
      BY <2>1, <2>3 DEF LateInv, RevocationBound
    <3>2. CASE Broadcast(TRUE) /\ r = job.raw
      <4>1. job.lane = raw[r].lane /\ job.auth = raw[r].auth
        BY <3>2 DEF Broadcast, LifeInv, JobInv, HoldsPlan, WithRaw, Steps
      <4>2. job.auth # 0 /\ ~Live(job.auth)
        BY <3>1, <4>1 DEF LateInv
      <4> QED
        BY <3>1, <3>2, <4>1, <4>2 DEF Broadcast, mayBroadcast, stillAuthorized, assertDualAuthorization,
          assertEarnAuthorization
    <3> QED
      BY <3>1, <3>2, SignerSends
  <2> QED
    BY <1>1, <1>2, <2>2, <2>3 DEF LateInv, RevocationBound
<1> QED
  BY <1>3, <1>4

LEMMA LateKept == ASSUME LateInv, UNCHANGED vars PROVE LateInv'
  BY DEF LateInv, RevocationBound, LateRaws, Live, vars, chainVars, auditVars, armVars

(* A raw recorded late belongs to an authorization that has no force and that   *)
(* no job is about to sign under; so there is at most one of each               *)
(* authorization, and the lanes that look again before sending do not send it.  *)
THEOREM LateCorrect == Spec => []LateInv
<1>1. Init => LateInv
  BY DEF Init, LateInv, RevocationBound, LateRaws, NoRaw
<1>2. TypeOK /\ HasRaw /\ LifeInv /\ AuthInv /\ LateInv /\ [Next]_vars => LateInv'
  BY LateStep, LateKept
<1> QED
  BY <1>1, <1>2, TypeCorrect, LifeCorrect, AuthCorrect, PTL DEF Spec

(* RevocationHolds: with every lane in play, through every crash, a revocation *)
(* is overtaken by at most one raw, which the lanes that look again never       *)
(* send, and an authorization that lost its force stays without it.            *)
THEOREM Revocation == Spec => RevocationHolds
<1>1. LateInv => RevocationBound
  BY DEF LateInv
<1>2. TypeOK /\ AuthInv /\ RevocationBound' /\ [Next]_vars
        => [RevocationBound' /\ \A a \in 1 .. arms : ~Live(a) => ~Live(a)']_vars
  <2>1. ASSUME TypeOK, AuthInv, [Next]_vars, NEW a \in 1 .. arms, ~Live(a) PROVE ~Live(a)'
    BY <2>1, ForceLost, BoundsAssumption DEF TypeOK, ArmType
  <2> QED
    BY <2>1
<1> QED
  BY <1>1, <1>2, TypeCorrect, AuthCorrect, LateCorrect, PTL DEF Spec, RevocationHolds

-------------------------------------------------------------------------------
(* The share of the ledger *)

(* A job is taken, let go, or goes on with the same lane and authorization. *)
LEMMA JobFrom ==
  ASSUME TypeOK, HasRaw, Next
  PROVE  \/ job' = Idle
         \/ /\ job'.lane = job.lane /\ job'.auth = job.auth
            /\ job'.pc = "locked" <=> job.pc = "locked"
         \/ Preflight
         \/ WatchExecute
         \/ ChildLock
         \/ \E lane \in AllLanes : CliExecute(lane)
         \/ WatchReconcile \/ CliReconcile
<1>1. orphaned(job).auth = job.auth /\ orphaned(job).pc = job.pc /\ orphaned(job).lane = job.lane
  BY OrphanedType DEF orphaned, TypeOK, Idle, JobRecord
<1>2. CASE Execute \/ Settle \/ Observe
  <2>1. job \in JobRecord
    BY <1>2, Busy DEF Execute, Preflight, AuthorizeSigning, SignAndPersist, JournalSigned,
      EarnJournalSigned, EarnMirrorSigned, Broadcast, BroadcastRefused, Receipt, Abort,
      Settle, WalletDeltaMismatch, WriteLedger, AppendTerminal, EarnAppendTerminal,
      EarnMirrorTerminal, verdict, Observe
  <2> QED
    BY <1>2, <2>1 DEF Execute, AuthorizeSigning, SignAndPersist, JournalSigned,
      EarnJournalSigned, EarnMirrorSigned, Broadcast, BroadcastRefused, Receipt, Abort, JobRecord,
      Settle, WalletDeltaMismatch, WriteLedger, AppendTerminal, EarnAppendTerminal,
      EarnMirrorTerminal, verdict, Observe, Confirm, Abandon, Rebroadcast
<1> QED
  BY <1>1, <1>2 DEF Next, ChainStep, Tick, Mine, Reorg, Take, SpawnChild, Reconcile, Inconclusive,
    Authorize, Arm, DisarmRead, DisarmMark, DisarmWrite, Supervise, WatchStart, WatchExit, WatchCrash,
    HolderCrash, DisarmCrash

(* A live authorization was live before, or is being armed. *)
LEMMA LiveFrom ==
  ASSUME TypeOK, AuthInv, Next, Live(arm.id)'
  PROVE  Arm \/ (Live(arm.id) /\ arm' = arm /\ base' = base)
<1>1. CASE DisarmMark \/ DisarmRead \/ DisarmCrash
  <2>1. arm' = arm /\ base' = base
    BY <1>1 DEF DisarmMark, DisarmRead, DisarmCrash
  <2>2. PICK a \in Nat : a = arm.id /\ a <= arms
    BY BoundsAssumption DEF AuthInv, ArmFiles, TypeOK, ArmType
  <2>3. Live(a)'
    BY <2>1, <2>2 DEF Live
  <2>4. Live(a)
    BY <2>2, <2>3, ForceLost
  <2> QED
    BY <2>1, <2>2, <2>4 DEF Live
<1>2. CASE DisarmWrite
  BY <1>2 DEF DisarmWrite, Live
<1>3. CASE UNCHANGED armVars
  BY <1>3 DEF armVars, Live
<1> QED
  BY <1>1, <1>2, <1>3, ArmFilesChange DEF Authorize

(* A mutation becomes unresolved when its signer records it. *)
LEMMA UnresolvedFrom ==
  ASSUME TypeOK, HasRaw, LifeInv, Next, NEW r \in Unresolved'
  PROVE  /\ r \in Raws /\ raw'[r].lane = raw[r].lane /\ raw'[r].auth = raw[r].auth
         /\ \/ r \in Unresolved
            \/ r = job.raw /\ job.pc \in {"signed", "mirroring"} /\ (JournalSigned \/ EarnMirrorSigned)
<1>1. r \in Raws /\ journal'[r] = "signed"
  BY DEF Unresolved
<1>2. journal \in [Raws -> JournalStates]
  BY DEF TypeOK, AuditType
<1>3. journal[r] = "signed" \/ (r = job.raw /\ (JournalSigned \/ EarnMirrorSigned))
  <2>1. CASE UNCHANGED journal
    BY <1>1, <2>1
  <2>2. CASE JournalSigned \/ EarnMirrorSigned
    BY <1>1, <1>2, <2>2 DEF JournalSigned, EarnMirrorSigned
  <2>3. CASE AppendTerminal
    BY <1>1, <1>2, <2>3 DEF AppendTerminal, verdict
  <2>4. CASE EarnMirrorTerminal
    BY <1>1, <1>2, <2>4 DEF EarnMirrorTerminal
  <2>5. CASE Observe
    BY <1>1, <1>2, <2>5 DEF Observe, Confirm, Abandon, Rebroadcast
  <2> QED
    BY <2>1, <2>2, <2>3, <2>4, <2>5 DEF Next, ChainStep, Tick, Mine, Reorg, Take, WatchExecute,
      SpawnChild, ChildLock, CliExecute, Execute, Preflight, AuthorizeSigning, SignAndPersist,
      EarnJournalSigned, Broadcast, BroadcastRefused, Receipt, Abort, Settle, WalletDeltaMismatch,
      WriteLedger, EarnAppendTerminal, Reconcile, WatchReconcile, CliReconcile, Inconclusive,
      Authorize, Arm, DisarmRead, DisarmMark, DisarmWrite, Supervise, WatchStart, WatchExit,
      WatchCrash, HolderCrash, DisarmCrash, auditVars
<1>4. ~SignAndPersist \/ r # count + 1
  <2>1. r = count + 1 => journal[r] = "none"
    BY <1>1, BoundsAssumption DEF LifeInv, BookInv, Unused, Fresh, Raws, TypeOK, AuditType
  <2>2. SignAndPersist => journal' = journal
    BY DEF SignAndPersist
  <2> QED
    BY <1>1, <2>1, <2>2
<1> QED
  BY <1>1, <1>3, <1>4, RawAuth DEF Unresolved, JournalSigned, EarnMirrorSigned

(* Raws are numbered as they are persisted. *)
LEMMA CountFrom == ASSUME Next PROVE UNCHANGED count \/ (SignAndPersist /\ count' = count + 1)
  BY DEF Next, ChainStep, Tick, Mine, Reorg, Take, WatchExecute, SpawnChild, ChildLock, CliExecute,
    Execute, Preflight, AuthorizeSigning, SignAndPersist, JournalSigned, EarnJournalSigned,
    EarnMirrorSigned, Broadcast, BroadcastRefused, Receipt, Abort, Settle, WalletDeltaMismatch,
    WriteLedger, AppendTerminal, EarnAppendTerminal, EarnMirrorTerminal, Reconcile, WatchReconcile,
    CliReconcile, Observe, Inconclusive, Authorize, Arm, DisarmRead, DisarmMark, DisarmWrite,
    Supervise, WatchStart, WatchExit, WatchCrash, HolderCrash, DisarmCrash, auditVars

(* The execution ledgers hold what the board lane settled. *)
LedgerInv == \A r \in ledger : r <= count /\ raw[r].lane = "board"

LEMMA LedgerFrom ==
  ASSUME TypeOK, HasRaw, Next, NEW r \in ledger'
  PROVE  r \in ledger \/ (WriteLedger /\ r = job.raw)
  BY DEF Next, ChainStep, Tick, Mine, Reorg, Take, WatchExecute, SpawnChild, ChildLock, CliExecute,
    Execute, Preflight, AuthorizeSigning, SignAndPersist, JournalSigned, EarnJournalSigned,
    EarnMirrorSigned, Broadcast, BroadcastRefused, Receipt, Abort, Settle, WalletDeltaMismatch,
    WriteLedger, AppendTerminal, EarnAppendTerminal, EarnMirrorTerminal, Reconcile, WatchReconcile,
    CliReconcile, Observe, Inconclusive, Authorize, Arm, DisarmRead, DisarmMark, DisarmWrite,
    Supervise, WatchStart, WatchExit, WatchCrash, HolderCrash, DisarmCrash, auditVars

(* What is or enters the ledger keeps its plan. *)
LEMMA LedgerRaw ==
  ASSUME TypeOK, HasRaw, LifeInv, LedgerInv, Next, NEW r \in ledger'
  PROVE  /\ r \in Raws /\ r <= count /\ raw[r].lane = "board"
         /\ raw'[r].lane = raw[r].lane /\ raw'[r].auth = raw[r].auth
         /\ r \notin ledger => WriteLedger /\ r = job.raw
<1>1. r \in Raws /\ r <= count /\ raw[r].lane = "board"
  <2>1. CASE r \in ledger
    BY <2>1 DEF LedgerInv, TypeOK, AuditType
  <2>2. CASE WriteLedger /\ r = job.raw
    BY <2>2, InHandTyped DEF WriteLedger, LifeInv, JobInv, HoldsPlan, WithRaw, Steps
  <2> QED
    BY <2>1, <2>2, LedgerFrom
<1>2. r # count + 1
  BY <1>1, BoundsAssumption DEF TypeOK, AuditType, Raws
<1> QED
  BY <1>1, <1>2, RawAuth, LedgerFrom

LEMMA LedgerStep == ASSUME TypeOK, HasRaw, LifeInv, LedgerInv, [Next]_vars PROVE LedgerInv'
<1>1. ASSUME UNCHANGED vars PROVE LedgerInv'
  BY <1>1 DEF LedgerInv, vars, auditVars
<1>2. ASSUME Next PROVE LedgerInv'
  <2>1. count \in Nat /\ count' \in Nat /\ count <= count'
    BY <1>2, CountFrom, BoundsAssumption DEF TypeOK, AuditType
  <2>2. ASSUME NEW r \in ledger' PROVE r <= count' /\ raw'[r].lane = "board"
    <3>1. r \in Raws /\ r <= count /\ raw'[r].lane = "board"
      BY <1>2, <2>2, LedgerRaw
    <3>2. r \in Nat
      BY <3>1, BoundsAssumption DEF Raws
    <3> QED
      BY <2>1, <3>1, <3>2
  <2> QED
    BY <2>2 DEF LedgerInv
<1> QED
  BY <1>1, <1>2

(* Whoever can enter a live authorization's ledger signed under it. *)
OwnInv ==
  Live(arm.id) =>
    /\ ledgerOwned(arm.id)
    /\ (job.lane = "board" /\ (job.pc # "locked" \/ job.auth # 0)) => job.auth = arm.id
    /\ \A r \in Unresolved : raw[r].lane = "board" => raw[r].auth = arm.id

LEMMA OwnStep ==
  ASSUME TypeOK, HasRaw, LifeInv, AuthInv, LedgerInv, OwnInv, Next
  PROVE  OwnInv'
<1> SUFFICES ASSUME Live(arm.id)' PROVE OwnInv'
  BY DEF OwnInv
<1>1. CASE Arm
  <2>1. Unresolved' = {} /\ job' = job /\ job.pc = "idle"
    BY <1>1 DEF Arm, mayArm, Free, Unresolved, auditVars
  <2>2. job = Idle
    BY <2>1 DEF TypeOK, JobRecord, Steps
  <2>3. arms + 1 \in Arms
    BY <1>1, BoundsAssumption DEF Arm, TypeOK, ArmType, Arms
  <2>4. base'[arms + 1].ledger = ledger /\ ledger' = ledger /\ arm'.id = arms + 1
    BY <1>1, <2>3 DEF Arm, auditVars, TypeOK, ArmType
  <2>5. ledgerOwned(arm.id)'
    BY <2>4 DEF ledgerOwned, executionsSince
  <2> QED
    BY <2>1, <2>2, <2>5 DEF OwnInv, Idle
<1>2. CASE Live(arm.id) /\ arm' = arm /\ base' = base
  <2>1. ledgerOwned(arm.id)'
    <3>1. ASSUME NEW r \in ledger', r \notin base[arm.id].ledger PROVE raw'[r].auth = arm.id
      <4>1. CASE r \in ledger
        BY <1>2, <3>1, <4>1, LedgerRaw DEF OwnInv, ledgerOwned, executionsSince
      <4>2. CASE WriteLedger /\ r = job.raw
        <5>1. job.lane = "board" /\ job.pc # "locked" /\ raw[r].auth = job.auth
          BY <4>2 DEF WriteLedger, LifeInv, JobInv, HoldsPlan, WithRaw, Steps
        <5> QED
          BY <1>2, <3>1, <5>1, LedgerRaw DEF OwnInv
      <4> QED
        BY <3>1, <4>1, <4>2, LedgerRaw
    <3> QED
      BY <1>2, <3>1 DEF ledgerOwned, executionsSince
  <2>2. ASSUME job'.lane = "board", job'.pc # "locked" \/ job'.auth # 0 PROVE job'.auth = arm.id
    <3>1. CASE job' = Idle
      BY <2>2, <3>1 DEF Idle
    <3>2. CASE /\ job'.lane = job.lane /\ job'.auth = job.auth
               /\ job'.pc = "locked" <=> job.pc = "locked"
      BY <1>2, <2>2, <3>2 DEF OwnInv
    <3>3. CASE Preflight
      <4>1. job'.auth = job.auth /\ job'.lane = job.lane
        BY <3>3, Busy DEF Preflight, JobRecord
      <4>2. job.auth # 0
        BY <1>2, <2>2, <3>3, <4>1 DEF Preflight, contextHolds, manualContext
      <4> QED
        BY <1>2, <2>2, <4>1, <4>2 DEF OwnInv
    <3>4. CASE WatchExecute
      BY <3>4 DEF WatchExecute, Holder
    <3>5. CASE ChildLock
      <4>1. child.lane # "board"
        BY <3>5 DEF ChildLock, TypeOK, WatchType
      <4> QED
        BY <1>2, <2>2, <3>5, <4>1 DEF ChildLock, Holder, OwnInv
    <3>6. CASE \E lane \in AllLanes : CliExecute(lane)
      BY <2>2, <3>6 DEF CliExecute, Holder
    <3>7. CASE WatchReconcile
      <4>1. latestUnresolved(Unresolved) \in Unresolved
        BY <3>7, LatestIsOpen DEF WatchReconcile, Unresolved
      <4> QED
        BY <1>2, <2>2, <3>7, <4>1 DEF WatchReconcile, Reconciling, OwnInv
    <3>8. CASE CliReconcile
      <4>1. reconcileTarget \in Unresolved \cup LocalOpen
        BY <3>8, TargetIsOpen DEF CliReconcile
      <4>2. reconcileTarget \notin Unresolved => raw[reconcileTarget].lane = "earn"
        BY <4>1 DEF LocalOpen, LifeInv, BookInv, EarnBooks
      <4> QED
        BY <1>2, <2>2, <3>8, <4>1, <4>2 DEF CliReconcile, Reconciling, OwnInv
    <3> QED
      BY <3>1, <3>2, <3>3, <3>4, <3>5, <3>6, <3>7, <3>8, JobFrom
  <2>3. ASSUME NEW r \in Unresolved', raw'[r].lane = "board" PROVE raw'[r].auth = arm.id
    <3>1. CASE r \in Unresolved
      BY <1>2, <2>3, <3>1, UnresolvedFrom DEF OwnInv
    <3>2. CASE r = job.raw /\ job.pc \in {"signed", "mirroring"}
      BY <1>2, <2>3, <3>2, UnresolvedFrom DEF OwnInv, LifeInv, JobInv, HoldsPlan, WithRaw, Steps
    <3> QED
      BY <2>3, <3>1, <3>2, UnresolvedFrom
  <2> QED
    BY <1>2, <2>1, <2>2, <2>3 DEF OwnInv
<1> QED
  BY <1>1, <1>2, LiveFrom

LEMMA OwnKept == ASSUME OwnInv, UNCHANGED vars PROVE OwnInv'
  BY DEF OwnInv, Live, ledgerOwned, executionsSince, Unresolved, vars, auditVars, armVars

(* LedgerOwnership, with every lane in play. *)
THEOREM Ownership == Spec => []LedgerOwnership
<1>1. Init => LedgerInv /\ OwnInv
  BY DEF Init, LedgerInv, OwnInv, Live
<1>2. TypeOK /\ HasRaw /\ LifeInv /\ AuthInv /\ LedgerInv /\ OwnInv /\ [Next]_vars => LedgerInv' /\ OwnInv'
  BY LedgerStep, OwnStep, OwnKept
<1>3. OwnInv => LedgerOwnership
  BY DEF OwnInv, LedgerOwnership
<1> QED
  BY <1>1, <1>2, <1>3, TypeCorrect, LifeCorrect, AuthCorrect, PTL DEF Spec

-------------------------------------------------------------------------------
(* How a mutation was closed *)

(* What a reader of the chain can return. *)
LEMMA SourceView ==
  ASSUME NEW r \in Raws, NEW view \in observeMutation(r), ~view.error
  PROVE  \E h \in Heights, s \in Nat :
           /\ h <= head /\ s <= head /\ s + Skew >= h
           /\ view.head = h /\ view.headTimestamp = h /\ view.receipt = receiptAt(r, s)
<1>1. view # FailedRead
  BY DEF FailedRead
<1>2. PICK h \in Recent(head, Lag) : view \in viewsAt(r, h)
  BY <1>1 DEF observeMutation
<1>3. PICK s \in {x \in 0 .. head : x + Skew >= h}, seen \in {x \in BOOLEAN : x => sent[r] # "no"} :
        view = viewOf(r, h, s, seen)
  <2> DEFINE S == {x \in 0 .. head : x + Skew >= h}
             B == {x \in BOOLEAN : x => sent[r] # "no"}
  <2>1. view \in {viewOf(r, h, s, seen) : s \in S, seen \in B}
    BY <1>2 DEF viewsAt
  <2> HIDE DEF S, B
  <2>2. \E s \in S, seen \in B : view = viewOf(r, h, s, seen)
    BY <2>1
  <2> QED
    BY <2>2 DEF S, B
<1> QED
  BY <1>2, <1>3 DEF viewOf, Recent

(* A receipt says where its transaction is and what became of it. *)
LEMMA ReceiptSays ==
  ASSUME TypeOK, NEW r \in Raws, NEW s \in Nat
  PROVE  /\ receiptAt(r, s) = NoReceipt <=> (block[r] = 0 \/ block[r] > s)
         /\ receiptAt(r, s) # NoReceipt =>
              receiptAt(r, s).blockNumber = block[r] /\ receiptAt(r, s).success = ~failed[r]
<1>1. block[r] \in Nat
  BY BoundsAssumption DEF TypeOK, ChainType, Heights
<1>2. CASE block[r] = 0 \/ block[r] > s
  <2>1. ~(block[r] # 0 /\ block[r] <= s)
    BY <1>1, <1>2
  <2> QED
    BY <1>2, <2>1 DEF receiptAt
<1>3. CASE block[r] # 0 /\ block[r] <= s
  <2>1. receiptAt(r, s) = [blockNumber |-> block[r], blockHash |-> block[r], success |-> ~failed[r]]
    BY <1>3 DEF receiptAt
  <2>2. receiptAt(r, s).blockNumber = block[r] /\ NoReceipt.blockNumber = 0
    BY <2>1 DEF NoReceipt
  <2>3. PICK ok \in BOOLEAN : ok = ~failed[r]
    BY Zenon
  <2>4. receiptAt(r, s) = [blockNumber |-> block[r], blockHash |-> block[r], success |-> ok]
    BY <2>1, <2>3, Zenon
  <2>5. receiptAt(r, s).success = ok
    BY <2>4
  <2>6. receiptAt(r, s).success = ~failed[r]
    BY <2>3, <2>5, Zenon
  <2> QED
    BY <1>1, <1>3, <2>2, <2>6
<1> QED
  BY <1>1, <1>2, <1>3

(* A job asks one reader or two. *)
LEMMA Asked ==
  ASSUME NEW obs \in Observations(job)
  PROVE  /\ \A i \in DOMAIN obs : i \in Int /\ 1 <= i /\ i <= 2
         /\ \A i \in DOMAIN obs : obs[i] \in observeMutation(job.raw)
<1>1. CASE obs \in [1 .. 1 -> observeMutation(job.raw)]
  BY <1>1
<1>2. CASE obs \in [Sources -> observeMutation(job.raw)]
  BY <1>2 DEF Sources
<1> QED
  BY <1>1, <1>2 DEF Observations

LEMMA FirstIsReceipt ==
  ASSUME NEW obs, \A i \in DOMAIN obs : i \in Int /\ 1 <= i /\ i <= 2, withReceipt(obs) # {}
  PROVE  \E i \in withReceipt(obs) : firstReceipt(obs) = obs[i]
<1>1. \E i \in withReceipt(obs) : \A j \in withReceipt(obs) : i <= j
  <2>1. \A i \in withReceipt(obs) : i = 1 \/ i = 2
    BY DEF withReceipt, usable
  <2>2. CASE 1 \in withReceipt(obs)
    BY <2>1, <2>2
  <2>3. CASE 1 \notin withReceipt(obs)
    BY <2>1, <2>3
  <2> QED
    BY <2>2, <2>3
<1> QED
  BY <1>1 DEF firstReceipt

(* What a reconciler calls confirmed is final, with the result it found. *)
LEMMA ConfirmedIsFinal ==
  ASSUME TypeOK, HasRaw, job.pc = "observing", NEW obs \in Observations(job),
         outcome(job, obs) \in {"CONFIRMED_SUCCESS", "CONFIRMED_REVERTED"}
  PROVE  /\ Final(job.raw)
         /\ failed[job.raw] <=> outcome(job, obs) = "CONFIRMED_REVERTED"
<1>1. job.raw \in Raws
  BY InHandTyped DEF WithRaw, Steps
<1>2. ~conflict(obs) /\ withReceipt(obs) # {}
  BY DEF outcome, classifyReconciliation
<1>3. PICK i \in withReceipt(obs) : firstReceipt(obs) = obs[i]
  BY <1>2, Asked, FirstIsReceipt
<1>4. confirmations(obs[i]) >= Finality /\ (obs[i].receipt.success <=> outcome(job, obs) = "CONFIRMED_SUCCESS")
  BY <1>2, <1>3 DEF outcome, classifyReconciliation
<1>5. obs[i] \in observeMutation(job.raw) /\ ~obs[i].error /\ obs[i].receipt # NoReceipt
  BY Asked DEF withReceipt, usable
<1>6. PICK h \in Heights, s \in Nat :
        /\ h <= head /\ s <= head
        /\ obs[i].head = h /\ obs[i].receipt = receiptAt(job.raw, s)
  BY <1>1, <1>5, SourceView
<1>7. /\ block[job.raw] # 0 /\ block[job.raw] <= s
      /\ obs[i].receipt.blockNumber = block[job.raw] /\ obs[i].receipt.success = ~failed[job.raw]
  <2>1. block[job.raw] \in Nat
    BY <1>1, BoundsAssumption DEF TypeOK, ChainType, Heights
  <2> QED
    BY <1>1, <1>5, <1>6, <2>1, ReceiptSays
<1>8. failed[job.raw] <=> outcome(job, obs) = "CONFIRMED_REVERTED"
  <2>1. failed[job.raw] \in BOOLEAN
    BY <1>1 DEF TypeOK, ChainType
  <2> QED
    BY <1>4, <1>7, <2>1, Zenon
<1>9. Final(job.raw)
  <2>1. block[job.raw] \in Nat /\ head \in Nat /\ h \in Nat /\ Finality \in Nat \ {0}
    BY <1>1, BoundsAssumption, PolicyAssumption DEF TypeOK, ChainType, Heights
  <2> QED
    BY <1>4, <1>6, <1>7, <2>1 DEF confirmations, Final, ConfirmedAt
<1> QED
  BY <1>8, <1>9

(* What is closed as expired has not executed, and its deadline has passed. *)
LEMMA AbandonedIsDead ==
  ASSUME Skew <= 1, TypeOK, HasRaw, LifeInv, job.pc = "observing", NEW obs \in Observations(job),
         mayAbandon(job.raw, obs)
  PROVE  /\ raw[job.raw].lane = "board" /\ raw[job.raw].deadline < head
         /\ block[job.raw] = 0 \/ failed[job.raw]
<1>1. job.raw \in Raws
  BY InHandTyped DEF WithRaw, Steps
<1>2. /\ raw[job.raw].lane = "board"
      /\ classifyReconciliation(obs, raw[job.raw].nonce, 3) = "NOT_OBSERVED"
      /\ expiredEverywhere(obs, raw[job.raw].deadline)
  BY DEF mayAbandon, evaluateExpiredMutationAbandonment, hasDeadline
<1>3. untouchedNonce(obs, raw[job.raw].nonce) /\ withReceipt(obs) = {}
  BY <1>2 DEF classifyReconciliation
<1>4. PICK i \in usable(obs) : TRUE
  <2>1. Cardinality({}) = 0
    BY FS_EmptySet
  <2> QED
    BY <1>3, <2>1 DEF untouchedNonce
<1>5. obs[i].receipt = NoReceipt /\ obs[i] \in observeMutation(job.raw) /\ ~obs[i].error
  BY <1>3, <1>4, Asked DEF withReceipt, usable
<1>6. PICK h \in Heights, s \in Nat :
        /\ h <= head /\ s <= head /\ s + Skew >= h
        /\ obs[i].headTimestamp = h /\ obs[i].receipt = receiptAt(job.raw, s)
  BY <1>1, <1>5, SourceView
<1>7. block[job.raw] = 0 \/ block[job.raw] > s
  BY <1>1, <1>5, <1>6, ReceiptSays
<1>8. /\ block[job.raw] \in Nat /\ head \in Nat /\ h \in Nat /\ Skew \in Nat
      /\ raw[job.raw].deadline \in Nat
  BY <1>1, BoundsAssumption, PolicyAssumption DEF TypeOK, ChainType, AuditType, RawRecord, Heights
<1>9. h > raw[job.raw].deadline
  BY <1>2, <1>4, <1>6 DEF expiredEverywhere
<1>10. (block[job.raw] # 0 /\ ~failed[job.raw]) => block[job.raw] <= raw[job.raw].deadline
  BY <1>1, <1>2 DEF LifeInv, BookInv, OnChain
<1>11. s >= raw[job.raw].deadline
  BY <1>6, <1>8, <1>9
<1>12. raw[job.raw].deadline < head
  BY <1>6, <1>8, <1>9
<1>13. (block[job.raw] # 0 /\ ~failed[job.raw]) => FALSE
  BY <1>7, <1>8, <1>10, <1>11
<1> QED
  BY <1>2, <1>12, <1>13

(* What is final stays so. *)
LEMMA FinalStays ==
  ASSUME TypeOK, [Next]_vars, NEW r \in Raws, Final(r)
  PROVE  Final(r)' /\ block'[r] = block[r] /\ failed'[r] = failed[r]
<1> USE BoundsAssumption, PolicyAssumption
<1>1. block \in [Raws -> Nat] /\ failed \in [Raws -> BOOLEAN] /\ head \in Nat /\ Finality \in Nat \ {0}
  BY DEF TypeOK, ChainType, Heights
<1>2. CASE UNCHANGED <<head, block, failed>>
  BY <1>2 DEF Final, ConfirmedAt
<1>3. CASE Tick
  BY <1>1, <1>3 DEF Tick, Final, ConfirmedAt
<1>4. ASSUME NEW q \in Raws, NEW ok \in BOOLEAN, Mine(q, ok) PROVE Final(r)' /\ block'[r] = block[r] /\ failed'[r] = failed[r]
  BY <1>1, <1>4 DEF Mine, Final, ConfirmedAt
<1>5. ASSUME NEW q \in Raws, Reorg(q) PROVE Final(r)' /\ block'[r] = block[r] /\ failed'[r] = failed[r]
  BY <1>1, <1>5 DEF Reorg, Final, ConfirmedAt
<1> QED
  BY <1>2, <1>3, <1>4, <1>5 DEF Next, vars, ChainStep, Take, WatchExecute, SpawnChild, ChildLock, CliExecute,
    Execute, Preflight, AuthorizeSigning, SignAndPersist, JournalSigned, EarnJournalSigned,
    EarnMirrorSigned, Broadcast, BroadcastRefused, Receipt, Abort, Settle, WalletDeltaMismatch,
    WriteLedger, AppendTerminal, EarnAppendTerminal, EarnMirrorTerminal, Reconcile, WatchReconcile,
    CliReconcile, Observe, Inconclusive, Authorize, Arm, DisarmRead, DisarmMark, DisarmWrite,
    Supervise, WatchStart, WatchExit, WatchCrash, HolderCrash, DisarmCrash, chainVars

(* The last record of a mutation changes in four ways. *)
LEMMA JournalFrom ==
  ASSUME TypeOK, Next, NEW r \in Raws, journal'[r] # journal[r]
  PROVE  /\ r = job.raw
         /\ \/ (JournalSigned \/ EarnMirrorSigned) /\ journal'[r] = "signed"
            \/ AppendTerminal /\ journal'[r] = verdict(job)
            \/ EarnMirrorTerminal /\ journal'[r] = IF job.pc = "mirrorEffect" THEN "effect" ELSE "reverted"
            \/ \E obs \in Observations(job) :
                 Observe /\ Abandon(job, obs) /\ journal'[r] = "abandoned"
<1>1. journal \in [Raws -> JournalStates]
  BY DEF TypeOK, AuditType
<1>2. CASE UNCHANGED journal
  BY <1>2
<1>3. CASE JournalSigned \/ EarnMirrorSigned
  BY <1>1, <1>3 DEF JournalSigned, EarnMirrorSigned
<1>4. CASE AppendTerminal
  BY <1>1, <1>4 DEF AppendTerminal
<1>5. CASE EarnMirrorTerminal
  BY <1>1, <1>5 DEF EarnMirrorTerminal
<1>6. CASE Observe
  BY <1>1, <1>6 DEF Observe, Confirm, Abandon, Rebroadcast
<1> QED
  BY <1>2, <1>3, <1>4, <1>5, <1>6 DEF Next, ChainStep, Tick, Mine, Reorg, Take, WatchExecute,
    SpawnChild, ChildLock, CliExecute, Execute, Preflight, AuthorizeSigning, SignAndPersist,
    EarnJournalSigned, Broadcast, BroadcastRefused, Receipt, Abort, Settle, WalletDeltaMismatch,
    WriteLedger, EarnAppendTerminal, Reconcile, WatchReconcile, CliReconcile, Inconclusive,
    Authorize, Arm, DisarmRead, DisarmMark, DisarmWrite, Supervise, WatchStart, WatchExit,
    WatchCrash, HolderCrash, DisarmCrash, auditVars

(* What a job is about to settle is final, with the result it will record. *)
Succeeding == {"succeeded", "ledgered", "mirrorEffect"}
Reverting == {"reverted", "mirrorRevert"}
HeldFinal ==
  /\ job.pc \in Succeeding => Final(job.raw) /\ ~failed[job.raw]
  /\ job.pc \in Reverting => Final(job.raw) /\ failed[job.raw]

SettledInv == SettledMatchesChain /\ HeldFinal

(* A job comes to hold a result from a receipt or from a reconciliation. *)
LEMMA HeldFrom ==
  ASSUME TypeOK, HasRaw, Next, job'.pc \in Succeeding \cup Reverting
  PROVE  \/ job'.pc = job.pc /\ job'.raw = job.raw
         \/ Receipt
         \/ \E obs \in Observations(job) : Observe /\ Confirm(job, obs)
         \/ WriteLedger
         \/ EarnAppendTerminal
<1>1. \A proc, r : Reconciling(proc, r).pc = "observing"
  BY DEF Reconciling
<1>2. \A proc, lane, auth : Holder(proc, lane, auth).pc = "locked"
  BY DEF Holder
<1>3. Idle.pc = "idle"
  BY DEF Idle
<1>4. CASE Execute \/ Settle
  <2>1. job \in JobRecord
    BY <1>4, Busy DEF Execute, Preflight, AuthorizeSigning, SignAndPersist, JournalSigned,
      EarnJournalSigned, EarnMirrorSigned, Broadcast, BroadcastRefused, Receipt, Abort,
      Settle, WalletDeltaMismatch, WriteLedger, AppendTerminal, EarnAppendTerminal,
      EarnMirrorTerminal, verdict
  <2> QED
    BY <1>3, <1>4, <2>1 DEF Execute, Preflight, AuthorizeSigning, SignAndPersist, JournalSigned,
      EarnJournalSigned, EarnMirrorSigned, Broadcast, BroadcastRefused, Receipt, Abort, JobRecord,
      Settle, WalletDeltaMismatch, AppendTerminal, EarnMirrorTerminal, Succeeding, Reverting
<1>5. CASE Observe
  BY <1>3, <1>5 DEF Observe, Abandon, Rebroadcast, Succeeding, Reverting
<1>6. CASE WatchReconcile \/ CliReconcile \/ Inconclusive
  BY <1>1, <1>3, <1>6 DEF WatchReconcile, CliReconcile, Inconclusive, Succeeding, Reverting
<1> QED
  BY <1>2, <1>3, <1>4, <1>5, <1>6, OrphanedType DEF Next, ChainStep, Tick, Mine, Reorg, Take,
    WatchExecute, SpawnChild, ChildLock, CliExecute, Reconcile, Authorize, Arm, DisarmRead, DisarmMark,
    DisarmWrite, Supervise, WatchStart, WatchExit, WatchCrash, HolderCrash, DisarmCrash, Succeeding,
    Reverting

LEMMA HeldStep ==
  ASSUME TypeOK, HasRaw, SettledInv, Next
  PROVE  HeldFinal'
<1> USE DEF Succeeding, Reverting
<1> SUFFICES ASSUME job'.pc \in Succeeding \cup Reverting PROVE HeldFinal'
  BY DEF HeldFinal
<1>1. job.pc \in WithRaw /\ job'.raw = job.raw /\ job \in JobRecord
  <2>1. job.pc \in WithRaw
    BY HeldFrom DEF WithRaw, Steps, Receipt, Observe, WriteLedger, EarnAppendTerminal, verdict
  <2>2. job \in JobRecord
    BY <2>1, InHandTyped
  <2>3. CASE Receipt \/ WriteLedger \/ EarnAppendTerminal
    BY <2>1, <2>2, <2>3 DEF Receipt, WriteLedger, EarnAppendTerminal, JobRecord, Idle
  <2>4. ASSUME NEW obs \in Observations(job), Confirm(job, obs) PROVE job'.raw = job.raw
    BY <2>2, <2>4 DEF Confirm, JobRecord
  <2> QED
    BY <2>1, <2>2, <2>3, <2>4, HeldFrom
<1>2. PICK r \in Raws : r = job.raw
  BY <1>1, InHandTyped
<1>3. ASSUME Final(r), job'.pc \in Succeeding => ~failed[r], job'.pc \in Reverting => failed[r]
      PROVE  HeldFinal'
  <2>1. Final(r)' /\ failed'[r] = failed[r]
    BY <1>3, FinalStays
  <2>2. Final(job.raw)'
    BY <1>1, <1>2, <2>1 DEF Final, ConfirmedAt
  <2>3. job'.pc \in Succeeding => ~failed'[r]
    BY <1>3, <2>1, Zenon
  <2>4. job'.pc \in Reverting => failed'[r]
    BY <1>3, <2>1, Zenon
  <2> QED
    BY <1>1, <1>2, <2>2, <2>3, <2>4 DEF HeldFinal
<1>4. CASE job'.pc = job.pc
  BY <1>2, <1>3, <1>4 DEF SettledInv, HeldFinal
<1>5. CASE Receipt
  <2>1. Final(r)
    <3>1. head \in Nat /\ block[r] \in Nat /\ Finality \in Nat
      BY BoundsAssumption, PolicyAssumption DEF TypeOK, ChainType, Heights
    <3>2. PICK h \in Recent(head, Lag) : ConfirmedAt(r, h)
      BY <1>2, <1>5 DEF Receipt
    <3>3. h \in Nat /\ h <= head
      BY <3>2, BoundsAssumption DEF Recent, Heights
    <3> QED
      BY <3>1, <3>2, <3>3 DEF Final, ConfirmedAt
  <2>2. job'.pc = IF failed[r] THEN "reverted" ELSE "succeeded"
    BY <1>1, <1>2, <1>5 DEF Receipt, JobRecord
  <2> QED
    BY <1>3, <2>1, <2>2
<1>6. ASSUME NEW obs \in Observations(job), Observe, Confirm(job, obs) PROVE HeldFinal'
  <2>1. job'.pc = IF outcome(job, obs) = "CONFIRMED_SUCCESS" THEN "succeeded" ELSE "reverted"
    BY <1>1, <1>6 DEF Confirm, JobRecord
  <2>2. Final(r) /\ (failed[r] <=> outcome(job, obs) = "CONFIRMED_REVERTED")
    BY <1>2, <1>6, ConfirmedIsFinal DEF Observe, Confirm
  <2>3. outcome(job, obs) \in {"CONFIRMED_SUCCESS", "CONFIRMED_REVERTED"}
    BY <1>6 DEF Confirm
  <2> QED
    BY <1>3, <2>1, <2>2, <2>3
<1>7. CASE WriteLedger
  BY <1>1, <1>2, <1>3, <1>7 DEF WriteLedger, SettledInv, HeldFinal, JobRecord
<1>8. CASE EarnAppendTerminal
  <2>1. job'.pc = IF verdict(job) = "effect" THEN "mirrorEffect" ELSE "mirrorRevert"
    BY <1>1, <1>8 DEF EarnAppendTerminal, JobRecord, Idle
  <2>2. verdict(job) = "effect" => job.pc \in Succeeding
    BY DEF verdict
  <2>3. verdict(job) # "effect" => job.pc \in Reverting
    BY <1>8 DEF EarnAppendTerminal, verdict
  <2> QED
    BY <1>2, <1>3, <2>1, <2>2, <2>3 DEF SettledInv, HeldFinal
<1> QED
  BY <1>1, <1>4, <1>5, <1>6, <1>7, <1>8, HeldFrom

LEMMA SettledStep ==
  ASSUME TypeOK, HasRaw, LifeInv, SettledInv, Next
  PROVE  SettledMatchesChain'
<1>1. ASSUME NEW r \in Raws, journal'[r] = "effect" \/ r \in ledger'
      PROVE  (Final(r) /\ ~failed[r])'
  <2>1. Final(r) /\ ~failed[r]
    <3>1. CASE journal[r] = "effect" \/ r \in ledger
      BY <3>1 DEF SettledInv, SettledMatchesChain
    <3>2. CASE journal[r] # "effect" /\ journal'[r] = "effect"
      <4>1. r = job.raw /\ job.pc \in Succeeding
        BY <3>2, JournalFrom DEF AppendTerminal, EarnMirrorTerminal, verdict, Succeeding
      <4> QED
        BY <4>1 DEF SettledInv, HeldFinal
    <3>3. CASE WriteLedger /\ r = job.raw
      BY <3>3 DEF WriteLedger, SettledInv, HeldFinal, Succeeding
    <3> QED
      BY <1>1, <3>1, <3>2, <3>3, LedgerFrom
  <2>2. Final(r)' /\ failed'[r] = failed[r]
    BY <2>1, FinalStays
  <2> QED
    BY <2>1, <2>2, Zenon
<1>2. ASSUME NEW r \in Raws, journal'[r] = "reverted"
      PROVE  (Final(r) /\ failed[r])'
  <2>1. Final(r) /\ failed[r]
    <3>1. CASE journal[r] = "reverted"
      BY <3>1 DEF SettledInv, SettledMatchesChain
    <3>2. CASE journal[r] # "reverted"
      <4>1. r = job.raw /\ job.pc \in Reverting
        BY <1>2, <3>2, JournalFrom DEF AppendTerminal, EarnMirrorTerminal, verdict, Reverting
      <4> QED
        BY <4>1 DEF SettledInv, HeldFinal
    <3> QED
      BY <3>1, <3>2
  <2>2. Final(r)' /\ failed'[r] = failed[r]
    BY <2>1, FinalStays
  <2> QED
    BY <2>1, <2>2, Zenon
<1> QED
  BY <1>1, <1>2 DEF SettledMatchesChain

LEMMA SettledKept == ASSUME SettledInv, UNCHANGED vars PROVE SettledInv'
  BY DEF SettledInv, SettledMatchesChain, HeldFinal, Final, ConfirmedAt, vars, chainVars, auditVars

(* What is recorded as executed or reverted, and what enters the ledger, is    *)
(* final with that result, with every lane in play.                            *)
THEOREM SettledCorrect == Spec => []SettledInv
<1>1. Init => SettledInv
  BY DEF Init, SettledInv, SettledMatchesChain, HeldFinal, Idle, Succeeding, Reverting
<1>2. TypeOK /\ HasRaw /\ LifeInv /\ SettledInv /\ [Next]_vars => SettledInv'
  BY HeldStep, SettledStep, SettledKept DEF SettledInv
<1> QED
  BY <1>1, <1>2, TypeCorrect, LifeCorrect, PTL DEF Spec

(* What was abandoned can only be mined as a revert any more. *)
AbandonedDead ==
  \A r \in Raws : journal[r] = "abandoned" =>
    /\ raw[r].lane = "board" /\ raw[r].deadline < head
    /\ block[r] = 0 \/ failed[r]

(* Only readers whose state is no further behind than one block let nothing    *)
(* be abandoned that has executed.                                             *)
LEMMA AbandonedStep ==
  ASSUME Skew <= 1, TypeOK, HasRaw, LifeInv, AbandonedDead, Next
  PROVE  AbandonedDead'
<1> USE BoundsAssumption
<1>1. block \in [Raws -> Nat] /\ failed \in [Raws -> BOOLEAN] /\ head \in Nat /\ head' \in Nat /\ head <= head'
  <2>1. UNCHANGED head \/ head' = head + 1
    BY DEF Next, ChainStep, Tick, Mine, Reorg, Take, WatchExecute, SpawnChild, ChildLock, CliExecute,
      Execute, Preflight, AuthorizeSigning, SignAndPersist, JournalSigned, EarnJournalSigned,
      EarnMirrorSigned, Broadcast, BroadcastRefused, Receipt, Abort, Settle, WalletDeltaMismatch,
      WriteLedger, AppendTerminal, EarnAppendTerminal, EarnMirrorTerminal, Reconcile, WatchReconcile,
      CliReconcile, Observe, Inconclusive, Authorize, Arm, DisarmRead, DisarmMark, DisarmWrite,
      Supervise, WatchStart, WatchExit, WatchCrash, HolderCrash, DisarmCrash, chainVars
  <2> QED
    BY <2>1 DEF TypeOK, ChainType, Heights
<1>2. ASSUME NEW r \in Raws, journal'[r] = "abandoned"
      PROVE  /\ raw'[r].lane = "board" /\ raw'[r].deadline < head'
             /\ block'[r] = 0 \/ failed'[r]
  <2>1. /\ raw[r].lane = "board" /\ raw[r].deadline < head
        /\ block[r] = 0 \/ failed[r]
    <3>1. CASE journal[r] = "abandoned"
      BY <3>1 DEF AbandonedDead
    <3>2. CASE journal[r] # "abandoned"
      <4>1. PICK obs \in Observations(job) : Observe /\ Abandon(job, obs) /\ r = job.raw
        BY <1>2, <3>2, JournalFrom DEF AppendTerminal, verdict
      <4>2. job.pc = "observing" /\ mayAbandon(r, obs)
        BY <4>1 DEF Observe, Abandon
      <4> QED
        BY <4>1, <4>2, AbandonedIsDead
    <3> QED
      BY <3>1, <3>2
  <2>2. raw'[r].lane = raw[r].lane /\ raw'[r].deadline = raw[r].deadline
    <3>1. r <= count
      <4>1. CASE journal[r] # "none"
        BY <4>1, RecordedCounted
      <4>2. CASE journal[r] = "none"
        <5>1. r = job.raw /\ job.pc = "observing"
          BY <1>2, <4>2, JournalFrom DEF AppendTerminal, verdict, Observe
        <5> QED
          BY <5>1 DEF LifeInv, JobInv, HoldsPlan, WithRaw, Steps
      <4> QED
        BY <4>1, <4>2
    <3> QED
      BY <3>1, PlanKept
  <2>3. block'[r] = 0 \/ failed'[r]
    <3>1. ASSUME NEW q \in Raws, NEW ok \in BOOLEAN, Mine(q, ok) PROVE block'[r] = 0 \/ failed'[r]
      <4>1. CASE q # r
        <5>1. block'[r] = block[r] /\ failed'[r] = failed[r]
          BY <1>1, <3>1, <4>1 DEF Mine
        <5> QED
          BY <2>1, <5>1, Zenon
      <4>2. CASE q = r
        <5>1. ~ok
          BY <1>1, <2>1, <3>1, <4>2 DEF Mine, TypeOK, AuditType, RawRecord
        <5>2. failed'[r] = ~ok
          BY <1>1, <3>1, <4>2 DEF Mine
        <5> QED
          BY <5>1, <5>2, Zenon
      <4> QED
        BY <4>1, <4>2
    <3>2. ASSUME NEW q \in Raws, Reorg(q) PROVE block'[r] = 0 \/ failed'[r]
      BY <1>1, <2>1, <3>2 DEF Reorg
    <3>3. CASE UNCHANGED <<block, failed>>
      BY <2>1, <3>3
    <3> QED
      BY <3>1, <3>2, <3>3 DEF Next, ChainStep, Tick, Take, WatchExecute, SpawnChild, ChildLock, CliExecute,
        Execute, Preflight, AuthorizeSigning, SignAndPersist, JournalSigned, EarnJournalSigned,
        EarnMirrorSigned, Broadcast, BroadcastRefused, Receipt, Abort, Settle, WalletDeltaMismatch,
        WriteLedger, AppendTerminal, EarnAppendTerminal, EarnMirrorTerminal, Reconcile, WatchReconcile,
        CliReconcile, Observe, Inconclusive, Authorize, Arm, DisarmRead, DisarmMark, DisarmWrite,
        Supervise, WatchStart, WatchExit, WatchCrash, HolderCrash, DisarmCrash, chainVars
  <2> QED
    BY <1>1, <2>1, <2>2, <2>3 DEF TypeOK, AuditType, RawRecord
<1> QED
  BY <1>2 DEF AbandonedDead

(* A mutation recorded as abandoned is the board lane's, its deadline is behind *)
(* the head, and it was not mined or it failed, when a reader's state is at most *)
(* one block behind what it reports.                                            *)
THEOREM AbandonedCorrect == ASSUME Skew <= 1 PROVE Spec => []AbandonedDead
<1>1. Init => AbandonedDead
  BY DEF Init, AbandonedDead
<1>2. TypeOK /\ HasRaw /\ LifeInv /\ AbandonedDead /\ [Next]_vars => AbandonedDead'
  <2>1. ASSUME AbandonedDead, UNCHANGED vars PROVE AbandonedDead'
    BY <2>1 DEF AbandonedDead, vars, chainVars, auditVars
  <2> QED
    BY <2>1, AbandonedStep
<1> QED
  BY <1>1, <1>2, TypeCorrect, LifeCorrect, PTL DEF Spec

(* ClosedTrue, with every lane in play, however many blocks are replaced, as    *)
(* long as no reader's state is more than one block behind what it reports.    *)
THEOREM Closing == ASSUME Skew <= 1 PROVE Spec => []ClosedTrue
<1>1. SettledInv /\ AbandonedDead => ClosedTrue
  BY DEF SettledInv, AbandonedDead, ClosedTrue, AbandonedNeverSucceeds
<1> QED
  BY <1>1, SettledCorrect, AbandonedCorrect, PTL



-------------------------------------------------------------------------------
(* The chain's nonces *)

MinedBy(h) == {r \in Raws : block[r] # 0 /\ block[r] <= h}

(* One transaction to a block, in the order of the nonces, from zero. *)
ChainInv ==
  /\ \A p, q \in Raws : (block[p] # 0 /\ block[p] = block[q]) => p = q
  /\ \A p \in Raws, h \in Nat : (h # 0 /\ block[p] = h) => NonceAt(h) = raw[p].nonce + 1

LEMMA RawsFinite == IsFiniteSet(Raws)
  BY FS_Interval, BoundsAssumption DEF Raws

LEMMA MinedFinite == ASSUME NEW h PROVE IsFiniteSet(MinedBy(h)) /\ NonceAt(h) = Cardinality(MinedBy(h))
<1>1. MinedBy(h) \subseteq Raws
  BY DEF MinedBy
<1> QED
  BY <1>1, RawsFinite, FS_Subset DEF MinedBy, NonceAt

(* More is mined by a later block. *)
LEMMA NonceMonotone ==
  ASSUME TypeOK, NEW g \in Nat, NEW h \in Nat, g <= h
  PROVE  NonceAt(g) <= NonceAt(h)
<1>1. MinedBy(g) \subseteq MinedBy(h)
  BY BoundsAssumption DEF MinedBy, TypeOK, ChainType, Heights
<1> QED
  BY <1>1, MinedFinite, FS_Subset

(* A transaction that is mined after block g is one more. *)
LEMMA NonceGrows ==
  ASSUME TypeOK, NEW g \in Nat, NEW h \in Nat, NEW p \in Raws, g < block[p], block[p] <= h
  PROVE  NonceAt(g) + 1 <= NonceAt(h)
<1>1. block \in [Raws -> Nat]
  BY BoundsAssumption DEF TypeOK, ChainType, Heights
<1>2. p \notin MinedBy(g) /\ MinedBy(g) \cup {p} \subseteq MinedBy(h)
  BY <1>1 DEF MinedBy
<1>3. Cardinality(MinedBy(g) \cup {p}) = Cardinality(MinedBy(g)) + 1
  BY <1>2, MinedFinite, FS_AddElement
<1>4. Cardinality(MinedBy(g) \cup {p}) <= Cardinality(MinedBy(h))
  BY <1>2, MinedFinite, FS_Subset
<1> QED
  BY <1>3, <1>4, MinedFinite

LEMMA MinedSame ==
  ASSUME NEW h, \A r \in Raws : (block'[r] # 0 /\ block'[r] <= h) <=> (block[r] # 0 /\ block[r] <= h)
  PROVE  NonceAt(h)' = NonceAt(h)
<1>1. {r \in Raws : block'[r] # 0 /\ block'[r] <= h} = {r \in Raws : block[r] # 0 /\ block[r] <= h}
  OBVIOUS
<1> QED
  BY <1>1 DEF NonceAt

LEMMA ChainStepNonces ==
  ASSUME TypeOK, HasRaw, LifeInv, ChainInv, Next
  PROVE  ChainInv'
<1>1. block \in [Raws -> Nat] /\ head \in Nat /\ \A r \in Raws : block[r] <= head
  <2>1. block \in [Raws -> Nat] /\ head \in Nat
    BY BoundsAssumption DEF TypeOK, ChainType, Heights
  <2> QED
    BY <2>1 DEF LifeInv, BookInv, OnChain
<1>2. \A r \in Raws : block[r] # 0 => raw'[r].nonce = raw[r].nonce
  <2>1. ASSUME NEW r \in Raws, block[r] # 0 PROVE raw'[r].nonce = raw[r].nonce
    <3>1. r <= count
      BY <2>1, RecordedCounted DEF LifeInv, BookInv, OnChain
    <3> QED
      BY <3>1, PlanKept
  <2> QED
    BY <2>1
<1>3. CASE UNCHANGED block
  <2>1. \A h : NonceAt(h)' = NonceAt(h)
    BY <1>3 DEF NonceAt
  <2> QED
    BY <1>2, <1>3, <2>1 DEF ChainInv
<1>4. ASSUME NEW r \in Raws, NEW ok \in BOOLEAN, Mine(r, ok) PROVE ChainInv'
  <2>1. /\ block[r] = 0 /\ raw[r].nonce = NonceAt(head) /\ UNCHANGED raw
        /\ block'[r] = head + 1 /\ \A q \in Raws : q # r => block'[q] = block[q]
    BY <1>1, <1>4 DEF Mine, auditVars
  <2>2. \A p, q \in Raws : (block'[p] # 0 /\ block'[p] = block'[q]) => p = q
    BY <1>1, <2>1 DEF ChainInv
  <2>3. ASSUME NEW h \in Nat, h <= head PROVE NonceAt(h)' = NonceAt(h)
    BY <1>1, <2>1, <2>3, MinedSame
  <2>4. ASSUME NEW h \in Nat, h = head + 1 PROVE NonceAt(h)' = NonceAt(head) + 1
    <3> DEFINE S == {q \in Raws : block'[q] # 0 /\ block'[q] <= h}
    <3>1. S = MinedBy(head) \cup {r} /\ r \notin MinedBy(head)
      BY <1>1, <2>1, <2>4 DEF MinedBy
    <3>2. NonceAt(h)' = Cardinality(S)
      BY DEF NonceAt
    <3> QED
      BY ZenonT(40), <3>1, <3>2, MinedFinite, FS_AddElement
  <2>5. ASSUME NEW p \in Raws, NEW h \in Nat, h # 0, block'[p] = h
        PROVE  NonceAt(h)' = raw'[p].nonce + 1
    <3>1. CASE p = r
      BY <1>1, <2>1, <2>4, <2>5, <3>1
    <3>2. CASE p # r
      BY <1>1, <2>1, <2>3, <2>5, <3>2 DEF ChainInv
    <3> QED
      BY <3>1, <3>2
  <2> QED
    BY <2>2, <2>5 DEF ChainInv
<1>5. ASSUME NEW r \in Raws, Reorg(r) PROVE ChainInv'
  <2>1. /\ block[r] # 0 /\ NonceAt(head) = raw[r].nonce + 1 /\ UNCHANGED raw
        /\ block'[r] = 0 /\ \A q \in Raws : q # r => block'[q] = block[q]
    BY <1>1, <1>5 DEF Reorg, auditVars
  <2>2. \A p, q \in Raws : (block'[p] # 0 /\ block'[p] = block'[q]) => p = q
    BY <1>1, <2>1 DEF ChainInv
  <2>3. ASSUME NEW p \in Raws, p # r, block[p] # 0 PROVE block[p] < block[r]
    <3>1. PICK k \in Nat : k = block[r]
      BY <1>1
    <3>2. NonceAt(k) = raw[r].nonce + 1
      BY <2>1, <3>1 DEF ChainInv
    <3>3. ~(k < block[p])
      BY <1>1, <2>1, <3>1, <3>2, NonceGrows, NonceAtType
    <3> QED
      BY <1>1, <2>3, <3>1, <3>3 DEF ChainInv
  <2>4. ASSUME NEW p \in Raws, NEW h \in Nat, h # 0, block'[p] = h
        PROVE  NonceAt(h)' = raw'[p].nonce + 1
    <3>1. p # r /\ block[p] = h /\ h < block[r]
      BY <2>1, <2>3, <2>4
    <3>2. NonceAt(h)' = NonceAt(h)
      BY <1>1, <2>1, <3>1, MinedSame
    <3> QED
      BY <2>1, <2>4, <3>1, <3>2 DEF ChainInv
  <2> QED
    BY <2>2, <2>4 DEF ChainInv
<1> QED
  BY <1>3, <1>4, <1>5 DEF Next, ChainStep, Tick, Take, WatchExecute, SpawnChild, ChildLock, CliExecute,
    Execute, Preflight, AuthorizeSigning, SignAndPersist, JournalSigned, EarnJournalSigned,
    EarnMirrorSigned, Broadcast, BroadcastRefused, Receipt, Abort, Settle, WalletDeltaMismatch,
    WriteLedger, AppendTerminal, EarnAppendTerminal, EarnMirrorTerminal, Reconcile, WatchReconcile,
    CliReconcile, Observe, Inconclusive, Authorize, Arm, DisarmRead, DisarmMark, DisarmWrite,
    Supervise, WatchStart, WatchExit, WatchCrash, HolderCrash, DisarmCrash, chainVars

(* The chain mines one transaction to a block and in the order of the nonces,   *)
(* however many blocks are replaced.                                            *)
THEOREM ChainCorrect == Spec => []ChainInv
<1>1. Init => ChainInv
  BY DEF Init, ChainInv
<1>2. TypeOK /\ HasRaw /\ LifeInv /\ ChainInv /\ [Next]_vars => ChainInv'
  <2>1. ASSUME ChainInv, UNCHANGED vars PROVE ChainInv'
    BY <2>1 DEF ChainInv, NonceAt, vars, chainVars, auditVars
  <2> QED
    BY <2>1, ChainStepNonces
<1> QED
  BY <1>1, <1>2, TypeCorrect, LifeCorrect, PTL DEF Spec

-------------------------------------------------------------------------------
(* No nonce twice *)

(* The plan's nonce is past that of every mutation that was not abandoned. *)
Ahead(n) == \A p \in Raws : journal[p] \notin {"none", "abandoned"} => raw[p].nonce < n

NonceLaneInv ==
  /\ job.pc \in {"ready", "signing"} => Ahead(job.nonce)
  /\ job.pc = "signed" => job.raw = count /\ Ahead(raw[job.raw].nonce)
  /\ NonceLane

(* A reader that is less behind than finality has seen whatever was settled.   *)
LEMMA ClosedSeen ==
  ASSUME Lag < Finality, TypeOK, NEW r \in Raws, Final(r), NEW h \in Recent(head, Lag)
  PROVE  h \in Nat /\ h <= head /\ block[r] \in Nat /\ block[r] # 0 /\ block[r] <= h
  BY BoundsAssumption, PolicyAssumption DEF TypeOK, ChainType, Heights, Final, ConfirmedAt, Recent

LEMMA PlanAhead ==
  ASSUME Lag < Finality, TypeOK, SettledInv, ChainInv, Unresolved = {},
         NEW h \in Recent(head, Lag)
  PROVE  Ahead(NonceAt(h))
<1> SUFFICES ASSUME NEW p \in Raws, journal[p] \notin {"none", "abandoned"}
             PROVE  raw[p].nonce < NonceAt(h)
  BY DEF Ahead
<1>1. journal[p] \in {"effect", "reverted"}
  BY DEF Unresolved, TypeOK, AuditType, JournalStates, LocalStates
<1>2. Final(p)
  BY <1>1 DEF SettledInv, SettledMatchesChain
<1>3. PICK k \in Nat : k = block[p] /\ k # 0 /\ k <= h /\ h \in Nat
  BY <1>2, ClosedSeen
<1>4. NonceAt(k) = raw[p].nonce + 1 /\ NonceAt(k) <= NonceAt(h)
  BY <1>3, NonceMonotone DEF ChainInv
<1>5. raw[p].nonce \in Nat
  BY DEF TypeOK, AuditType, RawRecord
<1> QED
  BY <1>4, <1>5, NonceAtType

(* Until it is recorded, a signature is planned, authorized and persisted. *)
LEMMA UnsignedFrom ==
  ASSUME TypeOK, HasRaw, Next, job'.pc \in {"ready", "signing", "signed"}
  PROVE  /\ UNCHANGED journal
         /\ \/ Preflight
            \/ AuthorizeSigning /\ job'.nonce = job.nonce /\ job'.pc = "signing"
            \/ SignAndPersist /\ job'.pc = "signed"
            \/ job'.pc = job.pc /\ job'.nonce = job.nonce /\ job'.raw = job.raw /\ ~SignAndPersist
<1> DEFINE un == {"ready", "signing", "signed"}
<1>1. \A proc, r : Reconciling(proc, r).pc \notin un
  BY DEF Reconciling
<1>2. \A proc, lane, auth : Holder(proc, lane, auth).pc \notin un
  BY DEF Holder
<1>3. Idle.pc \notin un
  BY DEF Idle
<1>4. orphaned(job).nonce = job.nonce /\ orphaned(job).pc = job.pc /\ orphaned(job).raw = job.raw
  BY OrphanedType DEF orphaned, TypeOK, Idle, JobRecord
<1>5. CASE Execute \/ Settle \/ Observe
  <2>1. job \in JobRecord
    BY <1>5, Busy DEF Execute, Preflight, AuthorizeSigning, SignAndPersist, JournalSigned,
      EarnJournalSigned, EarnMirrorSigned, Broadcast, BroadcastRefused, Receipt, Abort,
      Settle, WalletDeltaMismatch, WriteLedger, AppendTerminal, EarnAppendTerminal,
      EarnMirrorTerminal, verdict, Observe
  <2> QED
    BY <1>3, <1>5, <2>1 DEF Execute, Preflight, AuthorizeSigning, SignAndPersist, JournalSigned,
      EarnJournalSigned, EarnMirrorSigned, Broadcast, BroadcastRefused, Receipt, Abort, JobRecord,
      Settle, WalletDeltaMismatch, WriteLedger, AppendTerminal, EarnAppendTerminal,
      EarnMirrorTerminal, Observe, Confirm, Abandon, Rebroadcast, auditVars
<1>6. ~SignAndPersist \/ Execute
  BY DEF Execute
<1>7. CASE ~(Execute \/ Settle \/ Observe)
  BY <1>1, <1>2, <1>3, <1>4, <1>6, <1>7 DEF Next, ChainStep, Tick, Mine, Reorg, Take, WatchExecute, SpawnChild,
    ChildLock, CliExecute, Reconcile, WatchReconcile, CliReconcile, Inconclusive, Authorize, Arm,
    DisarmRead, DisarmMark, DisarmWrite, Supervise, WatchStart, WatchExit, WatchCrash, HolderCrash,
    DisarmCrash, auditVars
<1> QED
  BY <1>5, <1>7

(* A step that leaves the journal leaves the plans it names. *)
LEMMA AheadKept ==
  ASSUME TypeOK, LifeInv, Next, UNCHANGED journal, NEW n \in Nat, Ahead(n)
  PROVE  Ahead(n)'
<1>1. ASSUME NEW p \in Raws, journal'[p] \notin {"none", "abandoned"}
      PROVE  raw'[p].nonce < n
  <2>1. p <= count
    BY <1>1, RecordedCounted
  <2> QED
    BY <1>1, <2>1, PlanKept DEF Ahead
<1> QED
  BY <1>1 DEF Ahead

LEMMA NonceLaneStep ==
  ASSUME "earn" \notin Lanes, Lag < Finality, TypeOK, HasRaw, LifeInv, LaneInv, SettledInv, ChainInv,
         NonceLaneInv, Next
  PROVE  NonceLaneInv'
<1>1. count \in Nat /\ \A r \in Raws : raw[r].nonce \in Nat
  BY BoundsAssumption DEF TypeOK, AuditType, RawRecord
<1>2. ASSUME job'.pc \in {"ready", "signing", "signed"}
      PROVE  /\ job'.pc \in {"ready", "signing"} => Ahead(job.nonce)'
             /\ job'.pc = "signed" => job'.raw = count' /\ Ahead(raw[job.raw].nonce)'
  <2>0. UNCHANGED journal
    BY <1>2, UnsignedFrom
  <2>1. CASE Preflight
    <3>1. job \in JobRecord
      BY <2>1, Busy DEF Preflight
    <3>2. Unresolved = {}
      BY <2>1 DEF Preflight, barrierOpen, LaneInv, NoEarn
    <3>3. PICK h \in Recent(head, Lag) : job'.nonce = NonceAt(h) /\ job'.pc = "ready"
      BY <2>1, <3>1 DEF Preflight, JobRecord
    <3>4. PICK n \in Nat : n = NonceAt(h)
      BY NonceAtType
    <3>5. Ahead(n)
      BY <3>2, <3>4, PlanAhead
    <3>6. Ahead(n)'
      BY <2>0, <3>5, AheadKept
    <3> QED
      BY <3>3, <3>4, <3>6 DEF Ahead
  <2>2. CASE AuthorizeSigning /\ job'.nonce = job.nonce /\ job'.pc = "signing"
    <3>1. PICK n \in Nat : n = job.nonce
      BY <2>2, Busy DEF AuthorizeSigning, JobRecord
    <3>2. Ahead(n)
      BY <2>2, <3>1 DEF AuthorizeSigning, NonceLaneInv, Ahead
    <3>3. Ahead(n)'
      BY <2>0, <3>2, AheadKept
    <3> QED
      BY <2>2, <3>1, <3>3 DEF Ahead
  <2>3. CASE SignAndPersist /\ job'.pc = "signed"
    <3>1. job \in JobRecord
      BY <2>3, Busy DEF SignAndPersist
    <3>2. PICK r \in Raws : r = count + 1
      BY <2>3, BoundsAssumption DEF SignAndPersist, TypeOK, AuditType, Raws
    <3>3. job'.raw = r /\ count' = r /\ raw'[r].nonce = job.nonce
      BY <2>3, <3>1, <3>2 DEF SignAndPersist, JobRecord, TypeOK, AuditType
    <3>4. PICK n \in Nat : n = job.nonce
      BY <3>1 DEF JobRecord
    <3>5. Ahead(n)
      BY <2>3, <3>4 DEF SignAndPersist, NonceLaneInv, Ahead
    <3>6. Ahead(n)'
      BY <2>0, <3>5, AheadKept
    <3> QED
      BY <2>3, <3>3, <3>4, <3>6 DEF Ahead
  <2>4. CASE job'.pc = job.pc /\ job'.nonce = job.nonce /\ job'.raw = job.raw /\ ~SignAndPersist
    <3>1. CASE job.pc \in {"ready", "signing"}
      <4>1. PICK n \in Nat : n = job.nonce
        BY <3>1, Busy DEF JobRecord
      <4>2. Ahead(n)
        BY <3>1, <4>1 DEF NonceLaneInv, Ahead
      <4>3. Ahead(n)'
        BY <2>0, <4>2, AheadKept
      <4> QED
        BY <2>4, <3>1, <4>1, <4>3 DEF Ahead
    <3>2. CASE job.pc = "signed"
      <4>1. job.raw \in Raws /\ job.raw <= count
        BY <3>2, InHandTyped DEF WithRaw, Steps, LifeInv, JobInv, HoldsPlan
      <4>2. PICK r \in Raws : r = job.raw
        BY <4>1
      <4>3. PICK n \in Nat : n = raw[r].nonce
        BY <1>1
      <4>4. raw'[r].nonce = n
        BY <4>1, <4>2, <4>3, PlanKept
      <4>5. Ahead(n)
        BY <3>2, <4>2, <4>3 DEF NonceLaneInv, Ahead
      <4>6. Ahead(n)'
        BY <2>0, <4>5, AheadKept
      <4>7. count' = count
        BY <2>4, CountFrom
      <4> QED
        BY <2>4, <3>2, <4>2, <4>4, <4>6, <4>7 DEF NonceLaneInv, Ahead
    <3> QED
      BY <1>2, <2>4, <3>1, <3>2
  <2> QED
    BY <1>2, <2>1, <2>2, <2>3, <2>4, UnsignedFrom
<1>3. NonceLane'
  <2> SUFFICES ASSUME NEW p \in Raws, NEW r \in Raws, p < r, journal'[p] # "none", journal'[r] # "none",
                      raw'[p].nonce = raw'[r].nonce
               PROVE  journal'[p] = "abandoned"
    BY DEF NonceLane
  <2>1. ASSUME NEW q \in Raws, journal'[q] # "none"
        PROVE  q <= count
    <3>1. CASE journal[q] # "none"
      BY <3>1, RecordedCounted
    <3>2. CASE journal[q] = "none"
      <4>1. q = job.raw /\ job.pc \in WithRaw
        BY <2>1, <3>2, JournalFrom DEF JournalSigned, EarnMirrorSigned, AppendTerminal, EarnMirrorTerminal,
          verdict, Observe, WithRaw, Steps
      <4> QED
        BY <4>1 DEF LifeInv, JobInv, HoldsPlan
    <3> QED
      BY <3>1, <3>2
  <2>2. raw'[p].nonce = raw[p].nonce /\ raw'[r].nonce = raw[r].nonce
    BY <2>1, PlanKept
  <2>3. CASE journal[p] # "none" /\ journal[r] # "none"
    <3>1. journal[p] = "abandoned"
      BY <2>2, <2>3 DEF NonceLaneInv, NonceLane
    <3>2. journal'[p] = journal[p]
      BY <3>1, JournalFrom DEF JournalSigned, EarnMirrorSigned, AppendTerminal, EarnMirrorTerminal,
        verdict, Observe, LaneInv, LockInv, NoEarn, InHand, WithRaw, Steps
    <3> QED
      BY <3>1, <3>2
  <2>4. CASE journal[r] = "none"
    <3>1. r = job.raw /\ JournalSigned
      BY <2>4, JournalFrom DEF EarnMirrorSigned, AppendTerminal, EarnMirrorTerminal,
        verdict, Observe, LaneInv, LockInv, NoEarn, InHand, WithRaw, Steps
    <3>2. job.pc = "signed" /\ journal'[p] = journal[p]
      <4>1. p # job.raw
        BY <3>1, BoundsAssumption DEF Raws
      <4> QED
        BY <3>1, <4>1, JournalFrom DEF JournalSigned
    <3>3. Ahead(raw[r].nonce)
      BY <3>1, <3>2 DEF NonceLaneInv
    <3>4. journal[p] # "none" /\ ~(raw[p].nonce < raw[r].nonce)
      <4>1. raw[p].nonce = raw[r].nonce /\ raw[p].nonce \in Nat
        BY <1>1, <2>2
      <4> QED
        BY <3>2, <4>1
    <3> QED
      BY <3>2, <3>3, <3>4 DEF Ahead
  <2>5. CASE journal[p] = "none"
    <3>1. p = job.raw /\ JournalSigned
      BY <2>5, JournalFrom DEF EarnMirrorSigned, AppendTerminal, EarnMirrorTerminal,
        verdict, Observe, LaneInv, LockInv, NoEarn, InHand, WithRaw, Steps
    <3>2. p = count
      BY <3>1 DEF JournalSigned, NonceLaneInv
    <3>3. r <= count /\ r \in Nat /\ p \in Nat
      BY <2>1, BoundsAssumption DEF Raws
    <3> QED
      BY <3>2, <3>3
  <2> QED
    BY <2>3, <2>4, <2>5
<1> QED
  BY <1>2, <1>3 DEF NonceLaneInv

(* NonceLane, whenever the readers' blocks are less behind than finality. *)
THEOREM NoncesOnce ==
  ASSUME "earn" \notin Lanes, Lag < Finality
  PROVE  Spec => []NonceLane
<1>1. Init => NonceLaneInv
  BY DEF Init, NonceLaneInv, NonceLane, Idle
<1>2. TypeOK /\ HasRaw /\ LifeInv /\ LaneInv /\ SettledInv /\ ChainInv /\ NonceLaneInv /\ [Next]_vars
        => NonceLaneInv'
  <2>1. ASSUME NonceLaneInv, UNCHANGED vars PROVE NonceLaneInv'
    BY <2>1 DEF NonceLaneInv, NonceLane, Ahead, vars, auditVars
  <2> QED
    BY <2>1, NonceLaneStep
<1>3. NonceLaneInv => NonceLane
  BY DEF NonceLaneInv
<1> QED
  BY <1>1, <1>2, <1>3, TypeCorrect, LifeCorrect, LaneCorrect, SettledCorrect, ChainCorrect, PTL DEF Spec

-------------------------------------------------------------------------------
(* The failed-gas breaker *)

OpenOf(a) == {r \in Unresolved : raw[r].auth = a}

(* What authorization a has lost, and may be losing now. *)
Spent(a) == revertsOf(a) \cup OpenOf(a)

(* The breaker is closed and nothing of a is open. *)
Unspent(a) == Cardinality(revertsOf(a)) < MaxFailed /\ OpenOf(a) = {}

(* Who runs what: a manual execution has no authorization, a reconciler has a  *)
(* raw in hand, and only a watcher that crashed leaves an execution behind.    *)
KindInv ==
  /\ (job.kind = "exec" /\ job.proc = "cli") => job.auth = 0
  /\ job.kind = "reconcile" => job.pc \in InHand
  /\ (job.proc = "orphan" /\ MaxCrash = 0) => job.kind = "reconcile"

(* Nobody is about to sign under an authorization whose breaker is open, and   *)
(* while a child waits for the wallet lock nobody signs under its own.         *)
BreakerInv ==
  /\ \A a \in Arms : Cardinality(Spent(a)) <= MaxFailed
  /\ (job.auth # 0 /\ job.pc \in {"locked", "ready", "signing", "signed"}) => Unspent(job.auth)
  /\ child # NoChild =>
       /\ watching /\ "global" \in Lanes
       /\ job.auth = 0 /\ child.auth # 0 /\ Unspent(child.auth)

LEMMA AccountsFinite ==
  ASSUME NEW a
  PROVE  /\ IsFiniteSet(revertsOf(a)) /\ IsFiniteSet(OpenOf(a)) /\ IsFiniteSet(Spent(a))
         /\ Cardinality(revertsOf(a)) \in Nat /\ Cardinality(Spent(a)) \in Nat
<1>1. revertsOf(a) \subseteq Raws /\ OpenOf(a) \subseteq Raws /\ Spent(a) \subseteq Raws
  BY DEF revertsOf, OpenOf, Spent, Unresolved
<1> QED
  BY <1>1, RawsFinite, FS_Subset, FS_CardinalityType

(* Only the record of a mutation of a changes what a has lost. *)
LEMMA AccountKept ==
  ASSUME TypeOK, HasRaw, LifeInv, Next, NEW a, UNCHANGED journal \/ raw[job.raw].auth # a
  PROVE  revertsOf(a)' = revertsOf(a) /\ OpenOf(a)' = OpenOf(a)
<1>1. ASSUME NEW r \in Raws, r <= count
      PROVE  raw'[r].auth = raw[r].auth /\ (raw[r].auth = a => journal'[r] = journal[r])
  BY <1>1, PlanKept, JournalFrom
<1>2. ASSUME NEW r \in Raws, ~(r <= count)
      PROVE  journal[r] = "none" /\ journal'[r] = "none"
  <2>1. journal[r] = "none"
    BY <1>2, RecordedCounted
  <2>2. job.pc \in WithRaw => r # job.raw
    BY <1>2 DEF LifeInv, JobInv, HoldsPlan
  <2>3. journal'[r] = journal[r]
    BY <2>2, JournalFrom DEF JournalSigned, EarnMirrorSigned, AppendTerminal, EarnMirrorTerminal,
      verdict, Observe, WithRaw, Steps
  <2> QED
    BY <2>1, <2>3
<1>3. revertsOf(a)' = {r \in Raws : journal'[r] = "reverted" /\ raw'[r].auth = a}
  BY DEF revertsOf
<1>4. OpenOf(a)' = {r \in Raws : journal'[r] = "signed" /\ raw'[r].auth = a}
  BY DEF OpenOf, Unresolved
<1>5. OpenOf(a) = {r \in Raws : journal[r] = "signed" /\ raw[r].auth = a}
  BY DEF OpenOf, Unresolved
<1> QED
  BY <1>1, <1>2, <1>3, <1>4, <1>5 DEF revertsOf

(* The journal changes by a signer's record, or of an open mutation in hand. *)
LEMMA JournalOpen ==
  ASSUME TypeOK, HasRaw, LaneInv, Next, NEW r \in Raws, journal'[r] # journal[r]
  PROVE  r = job.raw /\ (JournalSigned \/ (~JournalSigned /\ job.pc \in InHand /\ journal[r] = "signed"))
  BY JournalFrom DEF JournalSigned, EarnMirrorSigned, AppendTerminal, EarnMirrorTerminal,
    verdict, Observe, LaneInv, LockInv, NoEarn, InHand, WithRaw, Steps

LEMMA SpentStep ==
  ASSUME TypeOK, HasRaw, LifeInv, LaneInv, BreakerInv, Next, NEW a \in Arms
  PROVE  Cardinality(Spent(a))' <= MaxFailed
<1>1. a # 0 /\ MaxFailed \in Nat
  BY BoundsAssumption, PolicyAssumption DEF Arms
<1>2. ASSUME NEW S, S = Spent(a)', S \subseteq Spent(a) PROVE Cardinality(Spent(a))' <= MaxFailed
  BY <1>1, <1>2, AccountsFinite, FS_Subset, FS_CardinalityType DEF BreakerInv
<1>3. CASE JournalSigned /\ job.auth = a
  <2>1. job.pc = "signed" /\ job.raw \in Raws /\ journal[job.raw] = "none"
    BY <1>3, InHandTyped DEF JournalSigned, WithRaw, Steps, LaneInv, LockInv
  <2>2. Unspent(a)
    BY <1>1, <1>3, <2>1 DEF BreakerInv
  <2>3. PICK q \in Raws : q = job.raw
    BY <2>1
  <2>4. PICK S : S = Spent(a)'
    OBVIOUS
  <2>5. S \subseteq revertsOf(a) \cup {q}
    <3>1. \A r \in Raws : r # q => journal'[r] = journal[r]
      BY <2>3, JournalFrom
    <3>2. journal'[q] = "signed"
      BY <1>3, <2>3 DEF JournalSigned, TypeOK, AuditType
    <3>3. ASSUME NEW r \in Raws, journal'[r] \in {"signed", "reverted"}, raw'[r].auth = a, r # q
          PROVE  r \in revertsOf(a)
      <4>1. journal[r] \in {"signed", "reverted"} /\ raw[r].auth = a
        BY <3>1, <3>3, RecordedCounted, PlanKept
      <4> QED
        BY <2>2, <4>1 DEF Unspent, OpenOf, Unresolved, revertsOf
    <3>4. S = {r \in Raws : journal'[r] \in {"signed", "reverted"} /\ raw'[r].auth = a}
      BY <2>4 DEF Spent, revertsOf, OpenOf, Unresolved
    <3> QED
      BY <3>3, <3>4
  <2>6. Cardinality(S) <= Cardinality(revertsOf(a)) + 1
    <3>0. q \notin revertsOf(a)
      BY <2>1, <2>3 DEF revertsOf
    <3>1. /\ IsFiniteSet(revertsOf(a) \cup {q})
          /\ Cardinality(revertsOf(a) \cup {q}) = Cardinality(revertsOf(a)) + 1
      BY <3>0, AccountsFinite, FS_AddElement
    <3>2. Cardinality(S) <= Cardinality(revertsOf(a) \cup {q}) /\ Cardinality(S) \in Nat
          /\ Cardinality(revertsOf(a) \cup {q}) \in Nat
      BY <2>5, <3>1, FS_Subset, FS_CardinalityType
    <3> QED
      BY <3>1, <3>2, AccountsFinite
  <2>7. Cardinality(S) \in Nat
    BY <2>5, AccountsFinite, FS_AddElement, FS_Subset, FS_CardinalityType
  <2> QED
    BY <1>1, <2>2, <2>4, <2>6, <2>7, AccountsFinite DEF Unspent
<1>4. CASE ~(JournalSigned /\ job.auth = a)
  <2>1. PICK S : S = Spent(a)'
    OBVIOUS
  <2>2. S = {r \in Raws : journal'[r] \in {"signed", "reverted"} /\ raw'[r].auth = a}
    BY <2>1 DEF Spent, revertsOf, OpenOf, Unresolved
  <2>3. ASSUME NEW r \in Raws, journal'[r] \in {"signed", "reverted"}, raw'[r].auth = a
        PROVE  r \in Spent(a)
    <3>1. CASE journal'[r] = journal[r]
      <4>1. raw[r].auth = a
        BY <2>3, <3>1, RecordedCounted, PlanKept
      <4> QED
        BY <2>3, <3>1, <4>1 DEF Spent, revertsOf, OpenOf, Unresolved
    <3>2. CASE journal'[r] # journal[r]
      <4>1. r = job.raw /\ job.pc \in WithRaw
        BY <3>2, JournalOpen DEF JournalSigned, InHand, WithRaw, Steps
      <4>2. r <= count /\ raw[r].auth = job.auth
        BY <4>1 DEF LifeInv, JobInv, HoldsPlan
      <4>3. raw[r].auth = a
        BY <2>3, <4>2, PlanKept
      <4>4. journal[r] = "signed"
        BY <1>4, <3>2, <4>2, <4>3, JournalOpen
      <4> QED
        BY <4>3, <4>4 DEF Spent, OpenOf, Unresolved
    <3> QED
      BY <3>1, <3>2
  <2>4. S \subseteq Spent(a)
    BY <2>2, <2>3
  <2> QED
    BY <1>2, <2>1, <2>4
<1> QED
  BY <1>3, <1>4

LEMMA KindStep == ASSUME TypeOK, HasRaw, KindInv, Next PROVE KindInv'
<1>1. MaxCrash \in Nat /\ crashes \in 0 .. MaxCrash
  BY BoundsAssumption DEF TypeOK, WatchType
<1>2. Idle.kind = "none" /\ Idle.proc = "none"
  BY DEF Idle
<1>3. CASE Execute \/ Settle \/ Observe
  <2>1. job \in JobRecord
    BY <1>3, Busy DEF Execute, Preflight, AuthorizeSigning, SignAndPersist, JournalSigned,
      EarnJournalSigned, EarnMirrorSigned, Broadcast, BroadcastRefused, Receipt, Abort,
      Settle, WalletDeltaMismatch, WriteLedger, AppendTerminal, EarnAppendTerminal,
      EarnMirrorTerminal, verdict, Observe
  <2>2. \/ job' = Idle
        \/ /\ job'.kind = job.kind /\ job'.proc = job.proc /\ job'.auth = job.auth
           /\ job.pc \in InHand => job'.pc \in InHand
    BY ZenonT(40), <1>3, <2>1 DEF Execute, Preflight, AuthorizeSigning, SignAndPersist, JournalSigned,
      EarnJournalSigned, EarnMirrorSigned, Broadcast, BroadcastRefused, Receipt, Abort, JobRecord,
      Settle, WalletDeltaMismatch, WriteLedger, AppendTerminal, EarnAppendTerminal,
      EarnMirrorTerminal, Observe, Confirm, Abandon, Rebroadcast, InHand, WithRaw, Steps
  <2> QED
    BY <1>2, <2>2 DEF KindInv
<1>4. CASE \/ WatchExecute \/ ChildLock \/ \E lane \in AllLanes : SpawnChild(lane) \/ CliExecute(lane)
  BY <1>4 DEF WatchExecute, ChildLock, SpawnChild, CliExecute, Holder, KindInv
<1>5. CASE WatchReconcile \/ CliReconcile \/ Inconclusive
  <2>1. "observing" \in InHand
    BY DEF InHand, WithRaw, Steps
  <2> QED
    BY <1>2, <1>5, <2>1 DEF WatchReconcile, CliReconcile, Inconclusive, Reconciling, KindInv
<1>6. CASE WatchExit \/ WatchCrash \/ HolderCrash
  <2>1. /\ orphaned(job).kind = job.kind /\ orphaned(job).auth = job.auth /\ orphaned(job).pc = job.pc
        /\ orphaned(job).proc = IF job.proc \in {"watch", "child"} THEN "orphan" ELSE job.proc
    BY DEF orphaned, TypeOK, Idle, JobRecord
  <2>2. CASE WatchExit
    BY <2>1, <2>2 DEF WatchExit, KindInv
  <2>3. CASE WatchCrash \/ HolderCrash
    <3>1. MaxCrash # 0
      BY <1>1, <2>3 DEF WatchCrash, HolderCrash
    <3> QED
      BY <1>2, <2>1, <2>3, <3>1 DEF WatchCrash, HolderCrash, KindInv
  <2> QED
    BY <1>6, <2>2, <2>3
<1>7. CASE UNCHANGED job
  BY <1>7 DEF KindInv
<1> QED
  BY <1>3, <1>4, <1>5, <1>6, <1>7 DEF Next, ChainStep, Tick, Mine, Reorg, Take, Reconcile, Authorize,
    Arm, DisarmRead, DisarmMark, DisarmWrite, Supervise, WatchStart, DisarmCrash

(* The watcher stops with no child waiting. *)
LEMMA WatchingFrom ==
  ASSUME Next, watching, ~watching'
  PROVE  child' = NoChild
  BY DEF Next, ChainStep, Tick, Mine, Reorg, Take, WatchExecute, SpawnChild, ChildLock, CliExecute,
    Execute, Preflight, AuthorizeSigning, SignAndPersist, JournalSigned, EarnJournalSigned,
    EarnMirrorSigned, Broadcast, BroadcastRefused, Receipt, Abort, Settle, WalletDeltaMismatch,
    WriteLedger, AppendTerminal, EarnAppendTerminal, EarnMirrorTerminal, Reconcile, WatchReconcile,
    CliReconcile, Observe, Inconclusive, Authorize, Arm, DisarmRead, DisarmMark, DisarmWrite,
    Supervise, WatchStart, WatchExit, WatchCrash, HolderCrash, DisarmCrash, watchVars

(* A signing decision of the loop finds the breaker closed and nothing open.   *)
LEMMA LoopUnspent ==
  ASSUME TypeOK, AuthInv, LoopMaySign
  PROVE  arm.id # 0 /\ Unspent(arm.id)
  BY DEF LoopMaySign, assertDualAuthorization, withinGasBudget, Unspent, OpenOf, Live, AuthInv, ArmFiles

LEMMA UnspentKept ==
  ASSUME TypeOK, HasRaw, LifeInv, Next, NEW a, Unspent(a), UNCHANGED journal \/ raw[job.raw].auth # a
  PROVE  Unspent(a)'
  BY AccountKept DEF Unspent

LEMMA BreakerStep ==
  ASSUME MaxCrash = 0 \/ "global" \notin Lanes, "earn" \notin Lanes,
         TypeOK, HasRaw, LifeInv, LaneInv, AuthInv, KindInv, BreakerInv, Next
  PROVE  BreakerInv'
<1>1. \A a \in Arms : Cardinality(Spent(a))' <= MaxFailed
  BY SpentStep
<1>2. ASSUME job'.auth # 0, job'.pc \in {"locked", "ready", "signing", "signed"}
      PROVE  Unspent(job.auth)'
  <2>1. PICK a : a = job'.auth
    OBVIOUS
  <2>2. SUFFICES Unspent(a) /\ UNCHANGED journal
    <3>1. ASSUME Unspent(a) /\ UNCHANGED journal PROVE Unspent(a)'
      BY <3>1, UnspentKept
    <3> QED
      BY <2>1, <3>1 DEF Unspent, revertsOf, OpenOf
  <2>3. CASE job'.pc = "locked"
    <3>1. CASE WatchExecute
      BY <2>1, <3>1, LoopUnspent DEF WatchExecute, Holder, auditVars
    <3>2. CASE ChildLock
      <4>1. UNCHANGED journal
        BY <3>2 DEF ChildLock, auditVars
      <4>2. CASE job.pc = "idle"
        BY <2>1, <3>2, <4>1, <4>2 DEF ChildLock, Free, Holder, BreakerInv
      <4>3. CASE job.pc # "idle"
        BY <1>2, <2>1, <3>2, <4>1, <4>3 DEF ChildLock, Free, BreakerInv
      <4> QED
        BY <4>2, <4>3
    <3>3. CASE \E lane \in AllLanes : CliExecute(lane)
      BY <1>2, <3>3 DEF CliExecute, Holder
    <3>4. CASE job.pc = "locked" /\ job'.auth = job.auth
      <4>1. UNCHANGED journal
        <5>1. \A r \in Raws : journal'[r] = journal[r]
          BY <3>4, JournalOpen DEF JournalSigned, InHand, WithRaw, Steps
        <5>2. journal \in [Raws -> JournalStates] /\ journal' \in [Raws -> JournalStates]
          BY TypeStep DEF TypeOK, AuditType
        <5> QED
          BY <5>1, <5>2
      <4> QED
        BY <1>2, <2>1, <3>4, <4>1 DEF BreakerInv
    <3>5. CASE job' = Idle \/ Preflight \/ WatchReconcile \/ CliReconcile
      <4>1. Preflight => job'.pc = "ready"
        BY Busy DEF Preflight, JobRecord
      <4>2. WatchReconcile \/ CliReconcile => job'.pc = "observing"
        BY DEF WatchReconcile, CliReconcile, Reconciling
      <4> QED
        BY <2>3, <3>5, <4>1, <4>2 DEF Idle
    <3> QED
      BY <2>3, <3>1, <3>2, <3>3, <3>4, <3>5, JobFrom
  <2>4. CASE job'.pc \in {"ready", "signing", "signed"}
    <3>1. job.pc \in {"locked", "ready", "signing", "signed"} /\ UNCHANGED journal
      BY <2>4, UnsignedFrom DEF Preflight, AuthorizeSigning, SignAndPersist
    <3>2. job'.auth = job.auth
      <4>1. ASSUME Preflight PROVE job'.auth = job.auth
        BY <4>1, Busy DEF Preflight, JobRecord
      <4>2. \A proc, lane, auth : Holder(proc, lane, auth).pc = "locked"
        BY DEF Holder
      <4>3. ~(WatchReconcile \/ CliReconcile \/ WatchExecute)
        BY <3>1 DEF WatchReconcile, CliReconcile, WatchExecute, Free
      <4>4. ASSUME ChildLock PROVE job'.auth = job.auth
        BY <3>1, <4>4 DEF ChildLock, Free
      <4>5. ~(\E lane \in AllLanes : CliExecute(lane))
        BY <3>1 DEF CliExecute, Free
      <4>6. job' # Idle
        BY <2>4 DEF Idle
      <4> QED
        BY <4>1, <4>3, <4>4, <4>5, <4>6, JobFrom
    <3> QED
      BY <1>2, <2>1, <3>1, <3>2 DEF BreakerInv
  <2> QED
    BY <1>2, <2>3, <2>4
<1>3. ASSUME child' # NoChild
      PROVE  /\ watching' /\ "global" \in Lanes
             /\ job'.auth = 0 /\ child'.auth # 0 /\ Unspent(child.auth)'
  <2>1. CASE UNCHANGED child
    <3>1. /\ watching /\ "global" \in Lanes
          /\ job.auth = 0 /\ child.auth # 0 /\ Unspent(child.auth)
      BY <1>3, <2>1 DEF BreakerInv
    <3>2. watching'
      BY <1>3, <3>1, WatchingFrom
    <3>3. job'.auth = 0
      <4>1. ~(WatchExecute \/ WatchReconcile \/ CliReconcile \/ ChildLock)
        BY <1>3, <2>1, <3>1 DEF WatchExecute, LoopMaySign, WatcherIdle, WatchReconcile, CliReconcile, ChildLock
      <4>2. ASSUME Preflight PROVE job'.auth = job.auth
        BY <4>2, Busy DEF Preflight, JobRecord
      <4>3. ASSUME NEW lane \in AllLanes, CliExecute(lane) PROVE job'.auth = 0
        BY <4>3 DEF CliExecute, Holder
      <4> QED
        BY <3>1, <4>1, <4>2, <4>3, JobFrom DEF Idle
    <3>4. PICK a : a = child.auth
      OBVIOUS
    <3>5. UNCHANGED journal \/ raw[job.raw].auth # a
      <4>1. CASE job.pc \in WithRaw
        BY <3>1, <3>4, <4>1 DEF LifeInv, JobInv, HoldsPlan
      <4>2. CASE job.pc \notin WithRaw
        <5>1. \A r \in Raws : journal'[r] = journal[r]
          BY <4>2, JournalOpen DEF JournalSigned, InHand, WithRaw, Steps
        <5>2. journal \in [Raws -> JournalStates] /\ journal' \in [Raws -> JournalStates]
          BY TypeStep DEF TypeOK, AuditType
        <5> QED
          BY <5>1, <5>2
      <4> QED
        BY <4>1, <4>2
    <3>6. Unspent(a)'
      BY <3>1, <3>4, <3>5, UnspentKept
    <3> QED
      BY <2>1, <3>1, <3>2, <3>3, <3>4, <3>6 DEF Unspent, revertsOf, OpenOf
  <2>2. ASSUME NEW lane \in AllLanes, SpawnChild(lane)
        PROVE  /\ watching' /\ "global" \in Lanes
               /\ job'.auth = 0 /\ child'.auth # 0 /\ Unspent(child.auth)'
    <3>1. /\ "global" \in Lanes /\ LoopMaySign /\ UNCHANGED <<watching, job, auditVars>>
          /\ child'.auth = arm.id
      BY <2>2 DEF SpawnChild
    <3>2. arm.id # 0 /\ Unspent(arm.id)
      BY <3>1, LoopUnspent
    <3>3. job.auth = 0
      <4>1. Unresolved = {} /\ job.proc \notin {"watch", "child"} /\ MaxCrash = 0
        BY <3>1 DEF LoopMaySign, WatcherIdle
      <4>2. job.pc \notin InHand
        <5>1. ASSUME job.pc \in InHand PROVE FALSE
          <6>1. journal[job.raw] = "signed" /\ job.raw \in Raws
            BY <5>1, InHandTyped DEF InHand, LaneInv, LockInv
          <6> QED
            BY <4>1, <6>1 DEF Unresolved
        <5> QED
          BY <5>1
      <4>3. job.kind # "reconcile"
        BY <4>2 DEF KindInv
      <4> QED
        BY <4>1, <4>3 DEF KindInv, TypeOK, JobRecord, Idle
    <3>4. PICK a : a = arm.id
      OBVIOUS
    <3>5. Unspent(a)'
      BY <3>1, <3>2, <3>4, UnspentKept DEF auditVars
    <3> QED
      BY <3>1, <3>2, <3>3, <3>4, <3>5 DEF LoopMaySign, WatcherIdle, Unspent, revertsOf, OpenOf
  <2> QED
    BY <1>3, <2>1, <2>2, ChildAuth
<1> QED
  BY <1>1, <1>2, <1>3 DEF BreakerInv

(* FailedGasBound: what the chain took as reverts under one authorization is    *)
(* what the audit counts, and what is open now.  A crash of the watcher can     *)
(* leave an orphaned Global child that signs on beside the next watcher's, so   *)
(* either nothing crashes or that lane is not in play.                          *)
THEOREM FailedGas ==
  ASSUME MaxCrash = 0 \/ "global" \notin Lanes, "earn" \notin Lanes
  PROVE  Spec => []FailedGasBound
<1>1. Init => KindInv /\ BreakerInv
  <2> SUFFICES ASSUME Init PROVE KindInv /\ BreakerInv
    OBVIOUS
  <2>1. KindInv /\ child = NoChild /\ job.pc = "idle"
    BY DEF Init, KindInv, Idle, NoChild
  <2>2. \A a \in Arms : Spent(a) = {}
    BY DEF Init, Spent, revertsOf, OpenOf, Unresolved
  <2> QED
    BY <2>1, <2>2, FS_EmptySet, PolicyAssumption DEF BreakerInv
<1>2. /\ TypeOK /\ HasRaw /\ LifeInv /\ LaneInv /\ AuthInv /\ KindInv /\ BreakerInv
      /\ [Next]_vars
      => KindInv' /\ BreakerInv'
  <2>1. ASSUME KindInv, BreakerInv, UNCHANGED vars PROVE KindInv' /\ BreakerInv'
    BY <2>1 DEF KindInv, BreakerInv, Spent, Unspent, revertsOf, OpenOf, Unresolved, vars, auditVars, watchVars
  <2> QED
    BY <2>1, KindStep, BreakerStep
<1>3. TypeOK /\ LifeInv /\ LaneInv /\ SentIsRecorded /\ SettledInv /\ BreakerInv => FailedGasBound
  <2> SUFFICES ASSUME TypeOK, LifeInv, LaneInv, SentIsRecorded, SettledInv, BreakerInv, NEW a \in 1 .. arms
               PROVE  Cardinality(minedReverts(a)) <= MaxFailed
    BY DEF FailedGasBound
  <2>1. a \in Arms
    BY BoundsAssumption DEF Arms, TypeOK, ArmType
  <2>2. minedReverts(a) \subseteq Spent(a)
    <3>1. ASSUME NEW r \in Raws, block[r] # 0, failed[r], raw[r].auth = a, journal[r] # "abandoned"
          PROVE  r \in Spent(a)
      <4>1. journal[r] # "none"
        BY <3>1 DEF LifeInv, BookInv, OnChain, SentIsRecorded, LaneInv, NoEarn
      <4>2. journal[r] # "effect"
        BY <3>1 DEF SettledInv, SettledMatchesChain
      <4>3. journal[r] \in JournalStates
        BY DEF TypeOK, AuditType
      <4> QED
        BY <3>1, <4>1, <4>2, <4>3 DEF Spent, revertsOf, OpenOf, Unresolved, JournalStates, LocalStates
    <3> QED
      BY <3>1 DEF minedReverts
  <2>3. Cardinality(minedReverts(a)) <= Cardinality(Spent(a)) /\ Cardinality(minedReverts(a)) \in Nat
    BY <2>2, AccountsFinite, FS_Subset, FS_CardinalityType
  <2> QED
    BY <2>1, <2>3, AccountsFinite, PolicyAssumption DEF BreakerInv
<1> QED
  BY <1>1, <1>2, <1>3, TypeCorrect, LifeCorrect, LaneCorrect, AuthCorrect, SettledCorrect, WriteAhead, PTL DEF Spec

-------------------------------------------------------------------------------
(* The account of the wallet's nonce *)

Closed == {r \in Raws : journal[r] \in {"effect", "reverted"}}

(* Nothing that was sent has been abandoned, nor is outside a's account. *)
Clean(a) == \A r \in Raws : ~outsideNonce(r, a)

(* A signature under a, or of the operator's maintenance from a's baseline on. *)
InAccount(a, auth, lane, nonce) ==
  \/ auth = a /\ lane \in {"board", "global"}
  \/ lane = "maint" /\ nonce >= base[a].nonce

(* What was closed and a does not account for came before a; whatever is being *)
(* signed or waits for its result, a accounts for.                             *)
LiveAccount(a) ==
  /\ Cardinality(Closed \ dualAuthorizationUsage(a)) = base[a].nonce
  /\ base[a].ledger \subseteq Closed
  /\ \A r \in Unresolved : InAccount(a, raw[r].auth, raw[r].lane, raw[r].nonce)
  /\ job.pc \in {"ready", "signing"} => InAccount(a, job.auth, job.lane, job.nonce)
  /\ job.pc = "signed" => InAccount(a, raw[job.raw].auth, raw[job.raw].lane, raw[job.raw].nonce)
  /\ (job.pc = "locked" /\ job.auth # 0) => job.auth = a /\ job.lane \in {"board", "global"}
  /\ child # NoChild => child.auth = a /\ child.lane = "global"

(* The board lane's successes are in the ledger, and nothing else is. *)
LedgerBooks ==
  /\ \A r \in ledger : journal[r] \in {"signed", "effect"}
  /\ \A r \in Raws : (journal[r] = "effect" /\ raw[r].lane = "board") => r \in ledger
  /\ job.pc = "ledgered" => job.raw \in ledger
  /\ child # NoChild => watching

AccountInv == LedgerBooks /\ \A a \in Arms : (Live(arm.id) /\ arm.id = a /\ Clean(a)) => LiveAccount(a)

LEMMA ClosedFinite == IsFiniteSet(Closed) /\ Cardinality(Closed) \in Nat
<1>1. Closed \subseteq Raws
  BY DEF Closed
<1> QED
  BY <1>1, RawsFinite, FS_Subset, FS_CardinalityType

(* With nothing open and nothing loose, a reader that is less behind than      *)
(* finality counts exactly what was closed.                                    *)
LEMMA CleanNonce ==
  ASSUME Lag < Finality, TypeOK, LifeInv, LaneInv, SentIsRecorded, SettledInv, Unresolved = {},
         \A r \in Raws : sent[r] # "no" => journal[r] # "abandoned",
         NEW h \in Nat, h = head \/ h \in Recent(head, Lag)
  PROVE  NonceAt(h) = Cardinality(Closed)
<1>1. ASSUME NEW r \in Raws, block[r] # 0 PROVE r \in Closed
  <2>1. sent[r] # "no" /\ journal[r] # "none" /\ journal[r] # "abandoned" /\ journal[r] # "signed"
    BY <1>1 DEF LifeInv, BookInv, OnChain, SentIsRecorded, LaneInv, NoEarn, Unresolved
  <2> QED
    BY <2>1 DEF Closed, TypeOK, AuditType, JournalStates, LocalStates
<1>2. ASSUME NEW r \in Closed PROVE r \in Raws /\ block[r] # 0 /\ block[r] <= h
  <2>1. r \in Raws /\ Final(r)
    BY <1>2 DEF Closed, SettledInv, SettledMatchesChain
  <2> QED
    BY <2>1, ClosedSeen DEF Final, ConfirmedAt
<1>3. MinedBy(h) = Closed
  BY <1>1, <1>2 DEF MinedBy
<1> QED
  BY <1>3, MinedFinite

(* What is closed stays as it was closed. *)
LEMMA ClosedStays ==
  ASSUME TypeOK, HasRaw, LaneInv, Next, NEW r \in Raws, journal[r] \in {"effect", "reverted", "abandoned"}
  PROVE  journal'[r] = journal[r]
<1> SUFFICES ASSUME journal'[r] # journal[r] PROVE FALSE
  OBVIOUS
<1>1. JournalSigned => journal[job.raw] = "none"
  BY DEF JournalSigned, LaneInv, LockInv
<1> QED
  BY <1>1, JournalOpen

(* A loose raw stays loose. *)
LEMMA CleanFrom ==
  ASSUME TypeOK, HasRaw, LifeInv, LaneInv, Next, NEW a \in Arms, base' = base, Clean(a)'
  PROVE  Clean(a)
<1> SUFFICES ASSUME NEW r \in Raws, outsideNonce(r, a) PROVE outsideNonce(r, a)'
  BY DEF Clean
<1>1. sent[r] # "no" /\ r <= count
  BY RecordedCounted DEF outsideNonce
<1>2. sent'[r] # "no"
  <2>1. sent \in [Raws -> {"no", "signer", "operator"}]
    BY DEF TypeOK, ChainType
  <2>2. ASSUME NEW accepted \in BOOLEAN, Broadcast(accepted) PROVE sent'[r] # "no"
    BY <1>1, <2>1, <2>2 DEF Broadcast
  <2>3. CASE Observe
    BY <1>1, <2>1, <2>3 DEF Observe, Confirm, Abandon, Rebroadcast
  <2>4. CASE UNCHANGED sent
    BY <1>1, <2>4
  <2> QED
    BY <2>2, <2>3, <2>4 DEF Next, ChainStep, Tick, Mine, Reorg, Take, WatchExecute, SpawnChild, ChildLock,
      CliExecute, Execute, Preflight, AuthorizeSigning, SignAndPersist, JournalSigned, EarnJournalSigned,
      EarnMirrorSigned, BroadcastRefused, Receipt, Abort, Settle, WalletDeltaMismatch, WriteLedger,
      AppendTerminal, EarnAppendTerminal, EarnMirrorTerminal, Reconcile, WatchReconcile, CliReconcile,
      Inconclusive, Authorize, Arm, DisarmRead, DisarmMark, DisarmWrite, Supervise, WatchStart,
      WatchExit, WatchCrash, HolderCrash, DisarmCrash, chainVars
<1>3. raw'[r].lane = raw[r].lane /\ raw'[r].nonce = raw[r].nonce
  BY <1>1, PlanKept
<1>4. journal[r] = "abandoned" => journal'[r] = "abandoned"
  BY ClosedStays
<1> QED
  BY <1>1, <1>2, <1>3, <1>4 DEF outsideNonce

LEMMA LedgerBooksStep ==
  ASSUME Skew <= 1, TypeOK, HasRaw, LifeInv, LaneInv, SettledInv, LedgerInv, LedgerBooks, Next
  PROVE  LedgerBooks'
<1>1. ASSUME NEW r \in ledger' PROVE journal'[r] \in {"signed", "effect"}
  <2>1. r \in Raws
    BY <1>1, LedgerRaw
  <2>2. CASE r \in ledger /\ journal'[r] # journal[r]
    <3>1. journal[r] = "signed" /\ r = job.raw /\ ~JournalSigned /\ job.pc \in InHand
      <4>1. JournalSigned => journal[job.raw] = "none"
        BY DEF JournalSigned, LaneInv, LockInv
      <4> QED
        BY <2>1, <2>2, <4>1, JournalOpen DEF LedgerBooks
    <3>2. Final(r) /\ ~failed[r]
      BY <2>1, <2>2 DEF SettledInv, SettledMatchesChain
    <3>3. CASE AppendTerminal /\ journal'[r] = verdict(job)
      <4>1. job.pc \notin Reverting
        BY <3>1, <3>2 DEF SettledInv, HeldFinal
      <4> QED
        BY <3>3, <4>1 DEF AppendTerminal, verdict, Reverting
    <3>4. ASSUME NEW obs \in Observations(job), Observe, Abandon(job, obs) PROVE FALSE
      <4>1. block[r] = 0 \/ failed[r]
        BY <3>1, <3>4, AbandonedIsDead DEF Observe, Abandon
      <4> QED
        BY <3>2, <4>1 DEF Final, ConfirmedAt
    <3>5. ~EarnMirrorSigned /\ ~EarnMirrorTerminal
      BY DEF EarnMirrorSigned, EarnMirrorTerminal, LaneInv, NoEarn
    <3> QED
      BY <2>1, <2>2, <3>1, <3>3, <3>4, <3>5, JournalFrom
  <2>3. CASE r \in ledger /\ journal'[r] = journal[r]
    BY <2>3 DEF LedgerBooks
  <2>4. CASE WriteLedger /\ r = job.raw
    BY <2>4 DEF WriteLedger, LaneInv, LockInv, InHand, WithRaw, Steps
  <2> QED
    BY <1>1, <2>2, <2>3, <2>4, LedgerFrom
<1>2. ledger \subseteq ledger'
  BY DEF Next, ChainStep, Tick, Mine, Reorg, Take, WatchExecute, SpawnChild, ChildLock, CliExecute,
    Execute, Preflight, AuthorizeSigning, SignAndPersist, JournalSigned, EarnJournalSigned,
    EarnMirrorSigned, Broadcast, BroadcastRefused, Receipt, Abort, Settle, WalletDeltaMismatch,
    WriteLedger, AppendTerminal, EarnAppendTerminal, EarnMirrorTerminal, Reconcile, WatchReconcile,
    CliReconcile, Observe, Inconclusive, Authorize, Arm, DisarmRead, DisarmMark, DisarmWrite,
    Supervise, WatchStart, WatchExit, WatchCrash, HolderCrash, DisarmCrash, auditVars
<1>3. ASSUME NEW r \in Raws, journal'[r] = "effect", raw'[r].lane = "board" PROVE r \in ledger'
  <2>1. CASE journal[r] = "effect"
    BY <1>2, <1>3, <2>1, RecordedCounted, PlanKept DEF LedgerBooks
  <2>2. CASE journal[r] # "effect"
    <3>1. AppendTerminal /\ r = job.raw /\ verdict(job) = "effect"
      BY <1>3, <2>2, JournalFrom DEF EarnMirrorTerminal, LaneInv, NoEarn
    <3>2. job.pc \in WithRaw /\ r <= count /\ raw[r].lane = job.lane
      BY <3>1 DEF verdict, LifeInv, JobInv, HoldsPlan, WithRaw, Steps
    <3>3. job.pc = "ledgered"
      BY <1>3, <3>1, <3>2, PlanKept DEF verdict
    <3> QED
      BY <1>2, <3>1, <3>3 DEF LedgerBooks
  <2> QED
    BY <2>1, <2>2
<1>4. job'.pc = "ledgered" => job'.raw \in ledger'
  <2>1. CASE WriteLedger
    BY <2>1, Busy DEF WriteLedger, JobRecord
  <2>2. CASE ~WriteLedger /\ job'.pc = "ledgered"
    <3>1. job'.pc = job.pc /\ job'.raw = job.raw
      <4>1. ~Receipt /\ ~EarnAppendTerminal /\ ~(\E obs \in Observations(job) : Observe /\ Confirm(job, obs))
        BY <2>2, Busy DEF Receipt, EarnAppendTerminal, Observe, Confirm, JobRecord, Idle, LaneInv, NoEarn
      <4> QED
        BY <2>2, <4>1, HeldFrom DEF Succeeding
    <3> QED
      BY <1>2, <2>2, <3>1 DEF LedgerBooks
  <2> QED
    BY <2>1, <2>2
<1>5. child' # NoChild => watching'
  <2>1. CASE UNCHANGED child
    BY <2>1, WatchingFrom DEF LedgerBooks
  <2>2. CASE \E lane \in AllLanes : SpawnChild(lane)
    BY <2>2 DEF SpawnChild, LoopMaySign, WatcherIdle
  <2> QED
    BY <2>1, <2>2, ChildAuth
<1> QED
  BY <1>1, <1>3, <1>4, <1>5 DEF LedgerBooks

(* Nothing of a new authorization is on any book yet, and what is closed is     *)
(* the baseline it is given.                                                    *)
LEMMA ArmAccount ==
  ASSUME Lag < Finality, TypeOK, HasRaw, LifeInv, LaneInv, AuthInv, SentIsRecorded, SettledInv, LedgerInv,
         LedgerBooks, Arm, NEW a \in Arms, a = arms + 1, Clean(a)'
  PROVE  LiveAccount(a)'
<1>1. UNCHANGED <<sent, count, raw, journal, ledger, job, child>> /\ arms \in Nat
  BY BoundsAssumption DEF Arm, chainVars, auditVars, watchVars, TypeOK, ArmType
<1>2. Unresolved = {} /\ job = Idle /\ child = NoChild
  BY DEF Arm, mayArm, Free, TypeOK, JobRecord, Steps, LedgerBooks
<1>3. \A r \in Raws : sent[r] # "no" => journal[r] # "abandoned"
  BY <1>1 DEF Clean, outsideNonce
<1>4. PICK h \in Recent(head, Lag) : base' = [base EXCEPT ![arms + 1] = [nonce |-> NonceAt(h), ledger |-> ledger]]
  BY DEF Arm
<1>5. base'[a].nonce = NonceAt(h) /\ base'[a].ledger = ledger
  BY <1>4 DEF TypeOK, ArmType
<1>6. NonceAt(h) = Cardinality(Closed)
  BY <1>2, <1>3, CleanNonce DEF Recent, Heights
<1>7. \A r \in Raws : raw[r].auth # a
  BY <1>1 DEF AuthInv, Numbered
<1>8. dualAuthorizationUsage(a)' = {}
  BY <1>1, <1>5, <1>7 DEF dualAuthorizationUsage, executionsSince, effectsOf, revertsOf
<1>9. Closed' = Closed
  BY <1>1 DEF Closed
<1>10. (Closed \ dualAuthorizationUsage(a))' = Closed
  BY <1>8, <1>9
<1>11. ledger \subseteq Closed
  BY <1>2 DEF LedgerBooks, Closed, Unresolved, TypeOK, AuditType
<1>12. Unresolved' = {}
  BY <1>1, <1>2 DEF Unresolved
<1>13. Cardinality(Closed \ dualAuthorizationUsage(a))' = Cardinality(Closed)
  BY <1>10
<1> QED
  BY <1>1, <1>2, <1>5, <1>6, <1>9, <1>11, <1>12, <1>13 DEF LiveAccount, Idle

(* A mutation that is closed enters the account of the live authorization, and *)
(* nothing leaves it.                                                          *)
LEMMA UsageStep ==
  ASSUME TypeOK, HasRaw, LifeInv, LaneInv, SettledInv, LedgerInv, LedgerBooks, Next,
         NEW a \in Arms, Clean(a), LiveAccount(a), base' = base
  PROVE  (Closed \ dualAuthorizationUsage(a))' = Closed \ dualAuthorizationUsage(a)
<1> DEFINE U == dualAuthorizationUsage(a)
<1>1. ASSUME NEW r \in Raws, journal[r] \in {"effect", "reverted"}
      PROVE  journal'[r] = journal[r] /\ (r \in U' <=> r \in U)
  <2>1. journal'[r] = journal[r] /\ raw'[r].auth = raw[r].auth /\ raw'[r].lane = raw[r].lane
    BY <1>1, ClosedStays, RecordedCounted, PlanKept
  <2>2. r \in ledger' <=> r \in ledger
    <3>1. WriteLedger => journal[job.raw] = "signed"
      BY DEF WriteLedger, LaneInv, LockInv, InHand, WithRaw, Steps
    <3>2. ledger \subseteq ledger'
      BY DEF Next, ChainStep, Tick, Mine, Reorg, Take, WatchExecute, SpawnChild, ChildLock, CliExecute,
        Execute, Preflight, AuthorizeSigning, SignAndPersist, JournalSigned, EarnJournalSigned,
        EarnMirrorSigned, Broadcast, BroadcastRefused, Receipt, Abort, Settle, WalletDeltaMismatch,
        WriteLedger, AppendTerminal, EarnAppendTerminal, EarnMirrorTerminal, Reconcile, WatchReconcile,
        CliReconcile, Observe, Inconclusive, Authorize, Arm, DisarmRead, DisarmMark, DisarmWrite,
        Supervise, WatchStart, WatchExit, WatchCrash, HolderCrash, DisarmCrash, auditVars
    <3> QED
      BY <1>1, <3>1, <3>2, LedgerFrom
  <2> QED
    BY <2>1, <2>2 DEF dualAuthorizationUsage, executionsSince, effectsOf, revertsOf
<1>2. ASSUME NEW r \in Raws, journal[r] \notin {"effect", "reverted"}, journal'[r] \in {"effect", "reverted"}
      PROVE  r \in U'
  <2>1. AppendTerminal /\ r = job.raw /\ journal'[r] = verdict(job)
    BY <1>2, JournalFrom DEF EarnMirrorTerminal, LaneInv, NoEarn
  <2>2. job.pc \in {"reverted", "ledgered", "succeeded"} /\ r <= count /\ raw[r].lane = job.lane
    BY <2>1 DEF AppendTerminal, verdict, LifeInv, JobInv, HoldsPlan, WithRaw, Steps
  <2>3. r \in Unresolved
    BY <2>1, <2>2 DEF LaneInv, LockInv, InHand, WithRaw, Steps, Unresolved
  <2>4. raw'[r].lane = raw[r].lane /\ raw'[r].auth = raw[r].auth
    BY <2>2, PlanKept
  <2>5. raw[r].lane # "maint"
    <3>1. block[r] # 0
      BY <2>1, <2>2 DEF SettledInv, HeldFinal, Succeeding, Reverting, Final, ConfirmedAt
    <3>2. sent[r] # "no"
      BY <3>1 DEF LifeInv, BookInv, OnChain
    <3> QED
      BY <2>3, <3>2 DEF LiveAccount, InAccount, Clean, outsideNonce
  <2>6. raw[r].auth = a /\ raw[r].lane \in {"board", "global"}
    BY <2>3, <2>5 DEF LiveAccount, InAccount
  <2>7. CASE journal'[r] = "reverted"
    BY <2>4, <2>6, <2>7 DEF dualAuthorizationUsage, revertsOf
  <2>8. CASE journal'[r] = "effect" /\ raw[r].lane = "global"
    BY <2>4, <2>6, <2>8 DEF dualAuthorizationUsage, effectsOf
  <2>9. CASE journal'[r] = "effect" /\ raw[r].lane = "board"
    <3>1. job.pc = "ledgered"
      BY <2>1, <2>2, <2>9 DEF verdict
    <3>2. r \in ledger /\ ledger' = ledger
      BY <2>1, <3>1 DEF LedgerBooks, AppendTerminal
    <3>3. r \notin base[a].ledger
      BY <1>2 DEF LiveAccount, Closed
    <3> QED
      BY <3>2, <3>3 DEF dualAuthorizationUsage, executionsSince
  <2> QED
    BY <1>2, <2>6, <2>7, <2>8, <2>9
<1>3. (Closed \ dualAuthorizationUsage(a))' = {r \in Raws : journal'[r] \in {"effect", "reverted"} /\ r \notin U'}
  BY DEF Closed
<1>4. Closed \ dualAuthorizationUsage(a) = {r \in Raws : journal[r] \in {"effect", "reverted"} /\ r \notin U}
  BY DEF Closed
<1> HIDE DEF U
<1>5. \A r \in Raws : (journal'[r] \in {"effect", "reverted"} /\ r \notin U') <=> (journal[r] \in {"effect", "reverted"} /\ r \notin U)
  BY <1>1, <1>2
<1> QED
  BY <1>3, <1>4, <1>5

LEMMA LiveAccountStep ==
  ASSUME "earn" \notin Lanes, Lag < Finality, TypeOK, HasRaw, LifeInv, LaneInv, AuthInv, SentIsRecorded,
         SettledInv, LedgerInv, LedgerBooks, Next, NEW a \in Arms, a = arm.id, Live(a), Clean(a),
         LiveAccount(a), arm' = arm, base' = base
  PROVE  LiveAccount(a)'
<1>1. Cardinality(Closed \ dualAuthorizationUsage(a))' = base'[a].nonce
  <2>1. (Closed \ dualAuthorizationUsage(a))' = Closed \ dualAuthorizationUsage(a)
    BY UsageStep
  <2> QED
    BY <2>1 DEF LiveAccount
<1>2. base'[a].ledger \subseteq Closed'
  BY ClosedStays DEF LiveAccount, Closed
<1>3. ASSUME NEW r \in Unresolved'
      PROVE  InAccount(a, raw[r].auth, raw[r].lane, raw[r].nonce)'
  <2>1. r \in Raws /\ r <= count
    <3>1. CASE r \in Unresolved
      BY <3>1, RecordedCounted DEF Unresolved
    <3>2. CASE r = job.raw /\ job.pc \in {"signed", "mirroring"}
      BY <1>3, <3>2, UnresolvedFrom DEF LifeInv, JobInv, HoldsPlan, WithRaw, Steps
    <3> QED
      BY <1>3, <3>1, <3>2, UnresolvedFrom
  <2>2. /\ raw'[r].lane = raw[r].lane /\ raw'[r].auth = raw[r].auth /\ raw'[r].nonce = raw[r].nonce
    BY <2>1, PlanKept
  <2>3. InAccount(a, raw[r].auth, raw[r].lane, raw[r].nonce)
    <3>1. CASE r \in Unresolved
      BY <3>1 DEF LiveAccount
    <3>2. CASE r = job.raw /\ job.pc \in {"signed", "mirroring"}
      BY <3>2 DEF LiveAccount, LaneInv, NoEarn
    <3> QED
      BY <1>3, <3>1, <3>2, UnresolvedFrom
  <2> QED
    BY <2>2, <2>3 DEF InAccount
<1>4. ASSUME job'.pc \in {"ready", "signing", "signed"}
      PROVE  /\ job'.pc \in {"ready", "signing"} => InAccount(a, job.auth, job.lane, job.nonce)'
             /\ job'.pc = "signed" => InAccount(a, raw[job.raw].auth, raw[job.raw].lane, raw[job.raw].nonce)'
  <2>1. CASE Preflight
    <3>1. job \in JobRecord
      BY <2>1, Busy DEF Preflight
    <3>2. PICK h \in Recent(head, Lag) :
            job'.nonce = NonceAt(h) /\ job'.pc = "ready" /\ job'.auth = job.auth /\ job'.lane = job.lane
      BY <2>1, <3>1 DEF Preflight, JobRecord
    <3>3. CASE job.auth # 0
      BY <2>1, <3>2, <3>3 DEF Preflight, LiveAccount, InAccount
    <3>4. CASE job.auth = 0
      <4>1. job.lane = "maint"
        BY <2>1, <3>1, <3>4 DEF Preflight, contextHolds, manualContext, LaneInv, NoEarn, JobRecord, AllLanes
      <4>2. Unresolved = {}
        BY <2>1, <4>1 DEF Preflight, barrierOpen
      <4>3. NonceAt(h) = Cardinality(Closed)
        BY <4>2, CleanNonce DEF Clean, outsideNonce, Recent, Heights
      <4>4. Cardinality(Closed \ dualAuthorizationUsage(a)) <= Cardinality(Closed)
        BY ClosedFinite, FS_Subset
      <4>5. NonceAt(h) >= base[a].nonce
        BY <4>3, <4>4, ClosedFinite DEF LiveAccount, TypeOK, ArmType
      <4> QED
        BY <3>2, <4>1, <4>5 DEF InAccount
    <3> QED
      BY <3>3, <3>4
  <2>2. CASE AuthorizeSigning /\ job'.nonce = job.nonce /\ job'.pc = "signing"
    <3>1. job'.auth = job.auth /\ job'.lane = job.lane
      BY <2>2, Busy DEF AuthorizeSigning, JobRecord
    <3> QED
      BY <2>2, <3>1 DEF AuthorizeSigning, LiveAccount, InAccount
  <2>3. CASE SignAndPersist /\ job'.pc = "signed"
    <3>1. job \in JobRecord
      BY <2>3, Busy DEF SignAndPersist
    <3>2. PICK r \in Raws : r = count + 1
      BY <2>3, BoundsAssumption DEF SignAndPersist, TypeOK, AuditType, Raws
    <3>3. /\ job'.raw = r
          /\ raw'[r].nonce = job.nonce /\ raw'[r].auth = job.auth /\ raw'[r].lane = job.lane
      BY <2>3, <3>1, <3>2 DEF SignAndPersist, JobRecord, TypeOK, AuditType
    <3> QED
      BY <2>3, <3>3 DEF SignAndPersist, LiveAccount, InAccount
  <2>4. CASE job'.pc = job.pc /\ job'.nonce = job.nonce /\ job'.raw = job.raw /\ ~SignAndPersist
    <3>1. CASE job.pc \in {"ready", "signing"}
      <4>1. job'.auth = job.auth /\ job'.lane = job.lane
        <5>1. ~(WatchReconcile \/ CliReconcile \/ WatchExecute \/ Preflight)
          BY <3>1 DEF WatchReconcile, CliReconcile, WatchExecute, Free, Preflight
        <5>2. ASSUME ChildLock PROVE job' = job
          BY <3>1, <5>2 DEF ChildLock, Free
        <5>3. ~(\E lane \in AllLanes : CliExecute(lane))
          BY <3>1 DEF CliExecute, Free
        <5>4. job' # Idle
          BY <1>4 DEF Idle
        <5> QED
          BY <5>1, <5>2, <5>3, <5>4, JobFrom
      <4> QED
        BY <2>4, <3>1, <4>1 DEF LiveAccount, InAccount
    <3>2. CASE job.pc = "signed"
      <4>1. job.raw \in Raws /\ job.raw <= count
        BY <3>2, InHandTyped DEF WithRaw, Steps, LifeInv, JobInv, HoldsPlan
      <4>2. PICK r \in Raws : r = job.raw
        BY <4>1
      <4>3. raw'[r].lane = raw[r].lane /\ raw'[r].auth = raw[r].auth /\ raw'[r].nonce = raw[r].nonce
        BY <4>1, <4>2, PlanKept
      <4>4. InAccount(a, raw[r].auth, raw[r].lane, raw[r].nonce)
        BY <3>2, <4>2 DEF LiveAccount
      <4> QED
        BY <2>4, <3>2, <4>2, <4>3, <4>4 DEF InAccount
    <3> QED
      BY <1>4, <2>4, <3>1, <3>2
  <2> QED
    BY <1>4, <2>1, <2>2, <2>3, <2>4, UnsignedFrom
<1>5. ASSUME job'.pc = "locked", job'.auth # 0
      PROVE  job'.auth = a /\ job'.lane \in {"board", "global"}
  <2>1. CASE job' = Idle
    BY <1>5, <2>1 DEF Idle
  <2>2. CASE job'.lane = job.lane /\ job'.auth = job.auth /\ job.pc = "locked"
    BY <1>5, <2>2 DEF LiveAccount
  <2>3. CASE WatchExecute
    BY <2>3 DEF WatchExecute, Holder
  <2>4. CASE ChildLock
    BY <1>5, <2>4 DEF ChildLock, Holder, LiveAccount
  <2>5. ~Preflight /\ ~WatchReconcile /\ ~CliReconcile
    <3>1. Preflight => job'.pc = "ready"
      BY Busy DEF Preflight, JobRecord
    <3>2. WatchReconcile \/ CliReconcile => job'.pc = "observing"
      BY DEF WatchReconcile, CliReconcile, Reconciling
    <3> QED
      BY <1>5, <3>1, <3>2
  <2>6. ~(\E lane \in AllLanes : CliExecute(lane))
    BY <1>5 DEF CliExecute, Holder
  <2> QED
    BY <1>5, <2>1, <2>2, <2>3, <2>4, <2>5, <2>6, JobFrom
<1>6. ASSUME child' # NoChild PROVE child'.auth = a /\ child'.lane = "global"
  <2>1. CASE UNCHANGED child
    BY <1>6, <2>1 DEF LiveAccount
  <2>2. CASE \E lane \in AllLanes : SpawnChild(lane)
    BY <2>2 DEF SpawnChild
  <2> QED
    BY <1>6, <2>1, <2>2, ChildAuth
<1> QED
  BY <1>1, <1>2, <1>3, <1>4, <1>5, <1>6 DEF LiveAccount

LEMMA AccountStep ==
  ASSUME "earn" \notin Lanes, Lag < Finality, Skew <= 1, TypeOK, HasRaw, LifeInv, LaneInv, AuthInv,
         SentIsRecorded, SettledInv, LedgerInv, AccountInv, Next
  PROVE  AccountInv'
<1>1. LedgerBooks'
  BY LedgerBooksStep DEF AccountInv
<1>2. ASSUME NEW a \in Arms, Live(arm.id)', arm'.id = a, Clean(a)' PROVE LiveAccount(a)'
  <2>1. CASE Arm
    <3>1. a = arms + 1
      BY <1>2, <2>1 DEF Arm
    <3> QED
      BY <1>2, <2>1, <3>1, ArmAccount DEF AccountInv
  <2>2. CASE Live(arm.id) /\ arm' = arm /\ base' = base
    <3>1. Clean(a)
      BY <1>2, <2>2, CleanFrom
    <3>2. LiveAccount(a)
      BY <1>2, <2>2, <3>1 DEF AccountInv
    <3> QED
      BY <1>2, <2>2, <3>1, <3>2, LiveAccountStep DEF AccountInv
  <2> QED
    BY <1>2, <2>1, <2>2, LiveFrom
<1> QED
  BY <1>1, <1>2 DEF AccountInv

LEMMA AccountStays == ASSUME AccountInv, UNCHANGED vars PROVE AccountInv'
  BY DEF AccountInv, LedgerBooks, Live, Clean, outsideNonce, LiveAccount, InAccount, Closed, Unresolved,
    dualAuthorizationUsage, executionsSince, effectsOf, revertsOf, vars, chainVars, auditVars, armVars,
    watchVars

(* NonceAccounting: with nothing open, a live authorization's count of nonces   *)
(* is the wallet's, when the readers' blocks are less behind than finality and *)
(* their states no more than one block behind those.                           *)
THEOREM Accounting ==
  ASSUME "earn" \notin Lanes, Lag < Finality, Skew <= 1
  PROVE  Spec => []NonceAccounting
<1>1. Init => AccountInv
  BY DEF Init, AccountInv, LedgerBooks, Live, Idle
<1>2. /\ TypeOK /\ HasRaw /\ LifeInv /\ LaneInv /\ AuthInv /\ SentIsRecorded /\ SettledInv /\ LedgerInv
      /\ AccountInv /\ [Next]_vars
      => AccountInv'
  BY AccountStep, AccountStays
<1>3. Init => LedgerInv
  BY DEF Init, LedgerInv
<1>4. TypeOK /\ HasRaw /\ LifeInv /\ LedgerInv /\ [Next]_vars => LedgerInv'
  BY LedgerStep
<1>5. TypeOK /\ LifeInv /\ LaneInv /\ AuthInv /\ SentIsRecorded /\ SettledInv /\ AccountInv => NonceAccounting
  <2> SUFFICES ASSUME TypeOK, LifeInv, LaneInv, AuthInv, SentIsRecorded, SettledInv, AccountInv,
                      Live(arm.id), Unresolved = {}, \A r \in Raws : ~outsideNonce(r, arm.id)
               PROVE  expectedDualWalletNonce(arm.id) = NonceAt(head)
    BY DEF NonceAccounting
  <2>1. PICK a \in Arms : a = arm.id
    BY BoundsAssumption DEF AuthInv, ArmFiles, Live, TypeOK, ArmType, Arms
  <2>2. LiveAccount(a)
    BY <2>1 DEF AccountInv, Clean
  <2>3. NonceAt(head) = Cardinality(Closed)
    BY <2>1, CleanNonce, BoundsAssumption DEF outsideNonce, TypeOK, ChainType, Heights
  <2> DEFINE U == dualAuthorizationUsage(a)
  <2>4. U \subseteq Closed
    BY DEF dualAuthorizationUsage, executionsSince, effectsOf, revertsOf, Closed, AccountInv, LedgerBooks,
      Unresolved, TypeOK, AuditType
  <2> HIDE DEF U
  <2>5. Closed \cap U = U /\ IsFiniteSet(U)
    BY <2>4, ClosedFinite, FS_Subset
  <2>6. Cardinality(Closed \ U) = Cardinality(Closed) - Cardinality(U)
    BY <2>5, ClosedFinite, FS_Difference
  <2>7. Cardinality(U) \in Nat
    BY <2>5, FS_CardinalityType
  <2>8. Cardinality(Closed \ U) = base[a].nonce
    BY <2>2 DEF LiveAccount, U
  <2> QED
    BY <2>1, <2>3, <2>6, <2>7, <2>8, ClosedFinite DEF expectedDualWalletNonce, U
<1> QED
  BY <1>1, <1>2, <1>3, <1>4, <1>5, TypeCorrect, LifeCorrect, LaneCorrect, AuthCorrect, WriteAhead,
    SettledCorrect, PTL DEF Spec

===============================================================================
