------------------------------ MODULE ProgramsProofs ----------------------------
(* The programs that sign besides the shared lanes, each for every value of its *)
(* constants: the judgements they take of what readers observe, the locks that  *)
(* keep the fixed and the generic lane apart, the authorizations they sign       *)
(* under, the retries of failed quotes, the nonces and books of each, and what a *)
(* reader of an audit ledger has of it.                                          *)
EXTENDS ProgramsInvariants, SequenceTheorems, FiniteSetTheorems, WellFoundedInduction, TLAPS

--------------------------------------------------------------------------------
(* The judgements, for every array of observations.                            *)

(* Two answering sources are at least one. *)
LEMMA SomebodyAnswered ==
  ASSUME NEW o, Cardinality(usable(o)) >= 2
  PROVE  \E i \in DOMAIN o : i \in usable(o)
<1>1. usable(o) # {}
  <2>1. Cardinality({}) = 0
    BY FS_EmptySet
  <2> QED
    BY <2>1
<1> QED
  BY <1>1 DEF usable

(* NOT_OBSERVED is a statement of at least two readers that all saw nothing.   *)
LEMMA NotObserved ==
  ASSUME NEW o, NEW n, NEW depth, classifyReconciliation(o, n, depth) = "NOT_OBSERVED"
  PROVE  /\ Cardinality(usable(o)) >= 2
         /\ \A i \in usable(o) : /\ o[i].receipt = NoReceipt /\ ~o[i].transaction
                                 /\ o[i].latestNonce <= n /\ o[i].pendingNonce <= n
<1>1. withReceipt(o) = {} /\ ~(\E i \in usable(o) : o[i].transaction) /\ untouchedNonce(o, n)
  BY DEF classifyReconciliation
<1> QED
  BY <1>1 DEF untouchedNonce, withReceipt

(* Whatever the readers return, a mutation that may be closed as expired may   *)
(* not be sent again, and the other way round.                                 *)
THEOREM AbandonOrReplay ==
  ASSUME NEW o, NEW n, NEW deadline, NEW depth, \A i \in usable(o) : o[i].headTimestamp \in Int,
         deadline \in Int
  PROVE  ~( /\ evaluateExpiredMutationAbandonment(TRUE, n, deadline, o)
            /\ classifyReconciliation(o, n, depth) = "NOT_OBSERVED"
            /\ evaluateRawReplayDeadline(TRUE, deadline, o))
<1> SUFFICES ASSUME evaluateExpiredMutationAbandonment(TRUE, n, deadline, o),
                    evaluateRawReplayDeadline(TRUE, deadline, o)
             PROVE  FALSE
  OBVIOUS
<1>1. PICK i \in usable(o) : TRUE
  BY SomebodyAnswered DEF evaluateRawReplayDeadline
<1>2. o[i].headTimestamp > deadline /\ o[i].headTimestamp <= deadline
  BY <1>1 DEF evaluateExpiredMutationAbandonment, expiredEverywhere, evaluateRawReplayDeadline
<1> QED
  BY <1>1, <1>2

--------------------------------------------------------------------------------
(* The exclusion of the lanes.  A program that is under way has its lock, with  *)
(* its pid once it has looked at the other lane; so of two programs that looked *)
(* at each other's lane one saw the other, and an arm is written only by one    *)
(* that the other lane cannot have passed.                                     *)

(* A program is a lane and a role, and has a lock of its own. *)
LEMMA ProgramShape ==
  ASSUME NEW p \in Programs
  PROVE  /\ p = <<p[1], p[2]>> /\ p[1] \in {"fixed", "generic"} /\ p[2] \in Roles
         /\ p # Exclusion!Nobody
         /\ Exclusion!own(p) \in Locks /\ Exclusion!second(p) \subseteq {"wallet"}
         /\ Exclusion!own(p) = IF p[2] = "command" THEN "wallet" ELSE p[1]
         /\ theOther(p[1]) \in {"fixed", "generic"} /\ theOther(p[1]) # p[1]
  BY DEF Programs, Roles, Locks, theOther, Exclusion!Program, Exclusion!Lane, Exclusion!Role,
         Exclusion!Lock, Exclusion!Nobody, Exclusion!own, Exclusion!second, Exclusion!other

(* A lock that may be taken is no live program's. *)
LEMMA TakableFree ==
  ASSUME ExclusionInv, NEW l \in Locks, Exclusion!takable(l), NEW p \in Programs
  PROVE  /\ holder[l] # p
         /\ Exclusion!own(p) = l => pc[p] = "off"
<1>1. holder[l] = Exclusion!Nobody
  BY DEF ExclusionInv, Exclusion!takable
<1>2. p # Exclusion!Nobody
  BY ProgramShape
<1> QED
  BY <1>1, <1>2 DEF ExclusionInv, HasLock

(* Who sees no conflict in the other lane: none of its programs has got past    *)
(* the look, nor is it armed.                                                   *)
LEMMA NoConflict ==
  ASSUME ExclusionInv, NEW lane \in {"fixed", "generic"}, ~Exclusion!laneConflict(lane)
  PROVE  /\ ~Exclusion!Past(lane) /\ ~armed[lane]
         /\ \A role \in {"watch", "arm"} : pc[<<lane, role>>] = "off"
<1>1. ASSUME NEW role \in {"watch", "arm"} PROVE pc[<<lane, role>>] = "off"
  <2> DEFINE p == <<lane, role>>
  <2>1. p \in Programs /\ p[1] = lane /\ p[2] = role
    BY DEF Programs, Exclusion!Program, Exclusion!Lane, Exclusion!Role
  <2> HIDE DEF p
  <2>2. Exclusion!own(p) = lane /\ p # Exclusion!Nobody
    BY <2>1, ProgramShape
  <2>3. HasLock(p) /\ pc[p] \in {"off", "opened", "locked", "checked", "signing"}
    BY <2>1 DEF ExclusionInv
  <2>4. pc[p] = "off"
    BY <2>2, <2>3 DEF HasLock, Exclusion!laneConflict
  <2> QED
    BY <2>4 DEF p
<1> QED
  BY <1>1 DEF Exclusion!Past, Exclusion!laneConflict

(* A program that keeps its place and its locks keeps what they are. *)
LEMMA HasLockSame ==
  ASSUME NEW q \in Programs, HasLock(q), pc'[q] = pc[q],
         pc[q] # "off" => /\ file'[Exclusion!own(q)] = file[Exclusion!own(q)]
                          /\ holder'[Exclusion!own(q)] = holder[Exclusion!own(q)],
         pc[q] = "signing" => holder'["wallet"] = holder["wallet"]
  PROVE  HasLock(q)'
  BY DEF HasLock

(* A step after which fewer have passed and fewer are armed keeps the lanes     *)
(* apart.                                                                       *)
LEMMA ApartSame ==
  ASSUME ExclusionInv,
         \A lane \in {"fixed", "generic"} :
           /\ (Exclusion!Past(lane))' => Exclusion!Past(lane)
           /\ armed'[lane] => armed[lane]
  PROVE  /\ (Exclusion!LanesExclusive)'
         /\ \A lane \in {"fixed", "generic"} : (Exclusion!Past(lane))' => ~armed'[theOther(lane)]
<1>1. \A lane \in {"fixed", "generic"} : theOther(lane) \in {"fixed", "generic"}
  BY DEF theOther, Exclusion!other
<1> QED
  BY <1>1 DEF ExclusionInv, Exclusion!LanesExclusive

(* Past, of a lane whose two programs are where they were or not past. *)
LEMMA PastSame ==
  ASSUME NEW lane \in {"fixed", "generic"},
         \A role \in {"watch", "arm"} :
           pc'[<<lane, role>>] \in {"checked", "signing"} => pc[<<lane, role>>] \in {"checked", "signing"}
  PROVE  (Exclusion!Past(lane))' => Exclusion!Past(lane)
  BY DEF Exclusion!Past

(* A program of a lane's watch or arm is one of the programs. *)
LEMMA LanePrograms ==
  \A lane \in {"fixed", "generic"}, role \in {"watch", "arm", "command"} :
    /\ <<lane, role>> \in Programs /\ <<lane, role>>[1] = lane /\ <<lane, role>>[2] = role
  BY DEF Programs, Exclusion!Program, Exclusion!Lane, Exclusion!Role

LEMMA OpenLockStep == ASSUME ExclusionInv, NEW p \in Programs, Exclusion!OpenLock(p) PROVE ExclusionInv'
<1> DEFINE l == Exclusion!own(p)
<1>1. /\ pc[p] = "off" /\ pc' = [pc EXCEPT ![p] = "opened"] /\ armed' = armed
      /\ Exclusion!takable(l) /\ l \in Locks
      /\ file' = [k \in Locks |-> IF k \in {l} THEN "empty" ELSE file[k]]
      /\ holder' = [k \in Locks |-> IF k \in {l} THEN p ELSE holder[k]]
  BY ProgramShape DEF Exclusion!OpenLock, Exclusion!takes, Locks
<1>2. p # Exclusion!Nobody
  BY ProgramShape
<1> HIDE DEF l
<1>3. /\ pc' \in [Programs -> {"off", "opened", "locked", "checked", "signing"}]
      /\ file' \in [Locks -> {"absent", "empty", "pid"}]
      /\ holder' \in [Locks -> Programs \cup {Exclusion!Nobody}]
      /\ armed' \in [{"fixed", "generic"} -> BOOLEAN]
      /\ \A k \in Locks : holder'[k] # Exclusion!Nobody => file'[k] # "absent"
  BY <1>1, <1>2 DEF ExclusionInv
<1>4. \A q \in Programs : q # p => pc'[q] = pc[q]
  BY <1>1 DEF ExclusionInv
<1>5. ASSUME NEW q \in Programs PROVE HasLock(q)'
  <2>1. CASE q = p
    <3>1. pc'[p] = "opened"
      BY <1>1 DEF ExclusionInv
    <3>2. holder'[l] = p /\ file'[l] = "empty"
      BY <1>1
    <3> QED
      BY <2>1, <3>1, <3>2 DEF HasLock, l
  <2>2. CASE q # p
    <3>1. Exclusion!own(q) \in Locks /\ "wallet" \in Locks
      BY ProgramShape DEF Locks, Exclusion!Lock
    <3>2. HasLock(q)
      BY DEF ExclusionInv
    <3>3. pc[q] # "off" => Exclusion!own(q) # l
      BY <1>1, TakableFree
    <3>4. pc[q] = "signing" => "wallet" # l
      BY <1>1, <3>2, TakableFree DEF HasLock
    <3> QED
      BY <1>1, <1>4, <2>2, <3>1, <3>2, <3>3, <3>4, HasLockSame
  <2> QED
    BY <2>1, <2>2
<1>6. \A q \in Programs : pc'[q] \in {"checked", "signing"} => pc'[q] = pc[q]
  BY <1>1 DEF ExclusionInv
<1>7. ArmHasWallet'
  <2> SUFFICES ASSUME pc'[<<"generic", "arm">>] = "checked"
               PROVE  holder'["wallet"] = <<"generic", "arm">>
    BY DEF ArmHasWallet
  <2>1. holder["wallet"] = <<"generic", "arm">> /\ <<"generic", "arm">> \in Programs
    BY <1>6, LanePrograms DEF ExclusionInv, ArmHasWallet
  <2>2. l # "wallet"
    BY <1>1, <2>1, TakableFree
  <2> QED
    BY <1>1, <2>1, <2>2 DEF Locks, Exclusion!Lock
<1>8. CommandAlone'
  BY <1>1, <1>6, LanePrograms DEF ExclusionInv, CommandAlone
<1>9. \A lane \in {"fixed", "generic"} : (Exclusion!Past(lane))' => Exclusion!Past(lane)
  BY <1>6, LanePrograms, PastSame
<1> QED
  BY <1>1, <1>3, <1>5, <1>7, <1>8, <1>9, ApartSame DEF ExclusionInv

LEMMA WritePidStep == ASSUME ExclusionInv, NEW p \in Programs, Exclusion!WritePid(p) PROVE ExclusionInv'
<1> DEFINE l == Exclusion!own(p)
<1>1. /\ pc[p] = "opened" /\ pc' = [pc EXCEPT ![p] = "locked"] /\ armed' = armed /\ holder' = holder
      /\ file' = [file EXCEPT ![l] = "pid"] /\ l \in Locks
  BY ProgramShape DEF Exclusion!WritePid
<1> HIDE DEF l
<1>2. /\ pc' \in [Programs -> {"off", "opened", "locked", "checked", "signing"}]
      /\ file' \in [Locks -> {"absent", "empty", "pid"}]
      /\ \A k \in Locks : holder'[k] # Exclusion!Nobody => file'[k] # "absent"
  BY <1>1 DEF ExclusionInv
<1>3. ASSUME NEW q \in Programs PROVE HasLock(q)'
  <2>1. HasLock(q) /\ HasLock(p)
    BY DEF ExclusionInv
  <2>2. CASE q = p
    <3>1. pc'[p] = "locked" /\ file'[l] = "pid" /\ holder'[l] = p
      BY <1>1, <2>1 DEF ExclusionInv, HasLock, l
    <3> QED
      BY <2>2, <3>1 DEF HasLock, l
  <2>3. CASE q # p
    <3>1. pc[q] # "off" => Exclusion!own(q) # l
      BY <1>1, <2>1, <2>3 DEF HasLock, l
    <3>2. Exclusion!own(q) \in Locks /\ pc'[q] = pc[q]
      BY <1>1, <2>3, ProgramShape DEF ExclusionInv
    <3> QED
      BY <1>1, <2>1, <3>1, <3>2, HasLockSame DEF ExclusionInv
  <2> QED
    BY <2>2, <2>3
<1>4. \A q \in Programs : pc'[q] \in {"checked", "signing"} => pc'[q] = pc[q]
  BY <1>1 DEF ExclusionInv
<1>5. ArmHasWallet' /\ CommandAlone'
  BY <1>1, <1>4, LanePrograms DEF ExclusionInv, ArmHasWallet, CommandAlone
<1>6. \A lane \in {"fixed", "generic"} : (Exclusion!Past(lane))' => Exclusion!Past(lane)
  BY <1>4, LanePrograms, PastSame
<1> QED
  BY <1>1, <1>2, <1>3, <1>5, <1>6, ApartSame DEF ExclusionInv

(* A program that is gone, with what it held: the others keep theirs. *)
LEMMA GoneStep ==
  ASSUME ExclusionInv, NEW p \in Programs, pc' = [pc EXCEPT ![p] = "off"],
         holder' = [l \in Locks |-> IF holder[l] = p THEN Exclusion!Nobody ELSE holder[l]],
         file' \in [Locks -> {"absent", "empty", "pid"}],
         \A l \in Locks : file'[l] = file[l] \/ holder[l] = p
  PROVE  /\ pc' \in [Programs -> {"off", "opened", "locked", "checked", "signing"}]
         /\ holder' \in [Locks -> Programs \cup {Exclusion!Nobody}]
         /\ \A l \in Locks : holder'[l] # Exclusion!Nobody => file'[l] # "absent"
         /\ \A q \in Programs : HasLock(q)'
         /\ ArmHasWallet'
         /\ \A q \in Programs : pc'[q] # "off" => pc'[q] = pc[q]
<1>1. /\ pc' \in [Programs -> {"off", "opened", "locked", "checked", "signing"}]
      /\ holder' \in [Locks -> Programs \cup {Exclusion!Nobody}]
      /\ \A l \in Locks : holder'[l] # Exclusion!Nobody => file'[l] # "absent"
      /\ \A q \in Programs : pc'[q] # "off" => pc'[q] = pc[q]
  BY DEF ExclusionInv
<1>2. ASSUME NEW q \in Programs PROVE HasLock(q)'
  <2>1. HasLock(q) /\ Exclusion!own(q) \in Locks /\ "wallet" \in Locks
    BY ProgramShape DEF ExclusionInv, Locks, Exclusion!Lock
  <2>2. CASE q = p
    <3>1. pc'[q] = "off"
      BY <2>2 DEF ExclusionInv
    <3> QED
      BY <3>1 DEF HasLock
  <2>3. CASE q # p
    <3>1. pc'[q] = pc[q]
      BY <2>3 DEF ExclusionInv
    <3>2. pc[q] # "off" => /\ file'[Exclusion!own(q)] = file[Exclusion!own(q)]
                           /\ holder'[Exclusion!own(q)] = holder[Exclusion!own(q)]
      BY <2>1, <2>3 DEF HasLock
    <3>3. pc[q] = "signing" => holder'["wallet"] = holder["wallet"]
      BY <2>1, <2>3 DEF HasLock
    <3> QED
      BY <2>1, <3>1, <3>2, <3>3, HasLockSame
  <2> QED
    BY <2>2, <2>3
<1>3. ArmHasWallet'
  <2> SUFFICES ASSUME pc'[<<"generic", "arm">>] = "checked"
               PROVE  holder'["wallet"] = <<"generic", "arm">>
    BY DEF ArmHasWallet
  <2>1. <<"generic", "arm">> \in Programs
    BY LanePrograms
  <2>2. <<"generic", "arm">> # p /\ pc[<<"generic", "arm">>] = "checked"
    BY <1>1, <2>1 DEF ExclusionInv
  <2> QED
    BY <2>2 DEF ExclusionInv, ArmHasWallet, Locks, Exclusion!Lock
<1> QED
  BY <1>1, <1>2, <1>3

(* What releases all that a program holds. *)
LEMMA DropsAll ==
  ASSUME ExclusionInv, NEW p \in Programs, Exclusion!drops(p, Exclusion!Lock)
  PROVE  /\ holder' = [l \in Locks |-> IF holder[l] = p THEN Exclusion!Nobody ELSE holder[l]]
         /\ file' \in [Locks -> {"absent", "empty", "pid"}]
         /\ \A l \in Locks : file'[l] = file[l] \/ holder[l] = p
  BY DEF ExclusionInv, Exclusion!drops, Locks

LEMMA LeaveStep ==
  ASSUME ExclusionInv, NEW p \in Programs, Exclusion!Leave(p) \/ Exclusion!LoseProgram(p)
  PROVE  ExclusionInv'
<1>1. /\ pc' = [pc EXCEPT ![p] = "off"] /\ armed' = armed
      /\ holder' = [l \in Locks |-> IF holder[l] = p THEN Exclusion!Nobody ELSE holder[l]]
      /\ file' \in [Locks -> {"absent", "empty", "pid"}]
      /\ \A l \in Locks : file'[l] = file[l] \/ holder[l] = p
  <2>1. CASE Exclusion!Leave(p)
    BY <2>1, DropsAll DEF Exclusion!Leave
  <2>2. CASE Exclusion!LoseProgram(p)
    BY <2>2 DEF Exclusion!LoseProgram, ExclusionInv, Locks
  <2> QED
    BY <2>1, <2>2
<1>2. /\ pc' \in [Programs -> {"off", "opened", "locked", "checked", "signing"}]
      /\ holder' \in [Locks -> Programs \cup {Exclusion!Nobody}]
      /\ \A l \in Locks : holder'[l] # Exclusion!Nobody => file'[l] # "absent"
      /\ \A q \in Programs : HasLock(q)'
      /\ ArmHasWallet'
      /\ \A q \in Programs : pc'[q] # "off" => pc'[q] = pc[q]
  BY <1>1, GoneStep
<1>3. CommandAlone'
  BY <1>1, <1>2, LanePrograms DEF ExclusionInv, CommandAlone
<1>4. \A lane \in {"fixed", "generic"} : (Exclusion!Past(lane))' => Exclusion!Past(lane)
  BY <1>2, LanePrograms, PastSame
<1> QED
  BY <1>1, <1>2, <1>3, <1>4, ApartSame DEF ExclusionInv

(* The arm is written by a program that is past the other lane's; the fixed     *)
(* command signs only while the wallet's lock is its own.                       *)
LEMMA WriteArmStep == ASSUME ExclusionInv, NEW p \in Programs, Exclusion!WriteArm(p) PROVE ExclusionInv'
<1>1. /\ pc[p] = "checked" /\ p[2] = "arm" /\ pc' = [pc EXCEPT ![p] = "off"]
      /\ armed' = [armed EXCEPT ![p[1]] = TRUE] /\ p[1] \in {"fixed", "generic"}
      /\ p = <<p[1], p[2]>>
  BY ProgramShape DEF Exclusion!WriteArm
<1>2. /\ pc' \in [Programs -> {"off", "opened", "locked", "checked", "signing"}]
      /\ holder' \in [Locks -> Programs \cup {Exclusion!Nobody}]
      /\ file' \in [Locks -> {"absent", "empty", "pid"}]
      /\ \A l \in Locks : holder'[l] # Exclusion!Nobody => file'[l] # "absent"
      /\ \A q \in Programs : HasLock(q)'
      /\ ArmHasWallet'
      /\ \A q \in Programs : pc'[q] # "off" => pc'[q] = pc[q]
  BY <1>1, DropsAll, GoneStep DEF Exclusion!WriteArm
<1>3. CommandAlone'
  <2> SUFFICES ASSUME pc'[<<"fixed", "command">>] = "signing" PROVE ~armed'["generic"]
    BY DEF CommandAlone
  <2>1. pc[<<"fixed", "command">>] = "signing" /\ <<"fixed", "command">> \in Programs
    BY <1>2, LanePrograms
  <2>2. holder["wallet"] = <<"fixed", "command">> /\ ~armed["generic"]
    BY <2>1 DEF ExclusionInv, HasLock, CommandAlone
  <2>3. p[1] # "generic"
    <3>1. SUFFICES ASSUME p[1] = "generic" PROVE FALSE
      OBVIOUS
    <3>2. p = <<"generic", "arm">>
      BY <1>1, <3>1
    <3>3. holder["wallet"] = <<"generic", "arm">>
      BY <1>1, <3>2 DEF ExclusionInv, ArmHasWallet
    <3> QED
      BY <2>2, <3>3
  <2> QED
    BY <1>1, <2>2, <2>3 DEF ExclusionInv
<1>4. \A lane \in {"fixed", "generic"} : (Exclusion!Past(lane))' => Exclusion!Past(lane)
  BY <1>2, LanePrograms, PastSame
<1>5. Exclusion!Past(p[1]) /\ ~armed[theOther(p[1])] /\ ~Exclusion!Past(theOther(p[1]))
  <2>1. Exclusion!Past(p[1])
    BY <1>1 DEF Exclusion!Past
  <2> QED
    BY <1>1, <2>1 DEF ExclusionInv, Exclusion!LanesExclusive, theOther, Exclusion!other
<1>6. /\ armed'[p[1]] /\ ~armed'[theOther(p[1])]
      /\ armed' \in [{"fixed", "generic"} -> BOOLEAN]
  BY <1>1, <1>5 DEF ExclusionInv, theOther, Exclusion!other
<1>7. /\ (Exclusion!LanesExclusive)'
      /\ \A lane \in {"fixed", "generic"} : (Exclusion!Past(lane))' => ~armed'[theOther(lane)]
  BY <1>1, <1>4, <1>5, <1>6 DEF ExclusionInv, Exclusion!LanesExclusive, theOther, Exclusion!other
<1> QED
  BY <1>2, <1>3, <1>6, <1>7 DEF ExclusionInv

LEMMA UnarmStep ==
  ASSUME ExclusionInv, NEW lane \in {"fixed", "generic"}, Exclusion!Unarm(lane) PROVE ExclusionInv'
<1>1. armed' = [armed EXCEPT ![lane] = FALSE] /\ UNCHANGED <<pc, file, holder>>
  BY DEF Exclusion!Unarm
<1>2. armed' \in [{"fixed", "generic"} -> BOOLEAN] /\ \A k \in {"fixed", "generic"} : armed'[k] => armed[k]
  BY <1>1 DEF ExclusionInv
<1>3. \A q \in Programs : HasLock(q)'
  BY <1>1, HasLockSame DEF ExclusionInv
<1>4. ArmHasWallet' /\ CommandAlone'
  BY <1>1, <1>2 DEF ExclusionInv, ArmHasWallet, CommandAlone
<1>5. \A k \in {"fixed", "generic"} : (Exclusion!Past(k))' => Exclusion!Past(k)
  BY <1>1, PastSame
<1> QED
  BY <1>1, <1>2, <1>3, <1>4, <1>5, ApartSame DEF ExclusionInv

(* Taking wallet.lock with the pid, where it is free. *)
LEMMA WalletTaken ==
  ASSUME ExclusionInv, NEW p \in Programs, Exclusion!takable("wallet"),
         Exclusion!takes(p, {"wallet"}, "pid")
  PROVE  /\ file' \in [Locks -> {"absent", "empty", "pid"}]
         /\ holder' \in [Locks -> Programs \cup {Exclusion!Nobody}]
         /\ \A l \in Locks : holder'[l] # Exclusion!Nobody => file'[l] # "absent"
         /\ holder'["wallet"] = p /\ file'["wallet"] = "pid"
         /\ \A l \in Locks : l # "wallet" => file'[l] = file[l] /\ holder'[l] = holder[l]
         /\ \A q \in Programs : holder["wallet"] # q
<1>1. "wallet" \in Locks
  BY DEF Locks, Exclusion!Lock
<1>2. \A q \in Programs : holder["wallet"] # q
  BY <1>1, TakableFree
<1> QED
  BY <1>1, <1>2 DEF ExclusionInv, Exclusion!takes, Locks

LEMMA WatchSignsStep == ASSUME ExclusionInv, NEW p \in Programs, Exclusion!WatchSigns(p) PROVE ExclusionInv'
<1>1. /\ pc[p] = "checked" /\ p[2] = "watch" /\ pc' = [pc EXCEPT ![p] = "signing"] /\ armed' = armed
      /\ Exclusion!takable("wallet") /\ Exclusion!takes(p, {"wallet"}, "pid")
  BY DEF Exclusion!WatchSigns, Exclusion!maySign
<1>2. /\ file' \in [Locks -> {"absent", "empty", "pid"}]
      /\ holder' \in [Locks -> Programs \cup {Exclusion!Nobody}]
      /\ \A l \in Locks : holder'[l] # Exclusion!Nobody => file'[l] # "absent"
      /\ holder'["wallet"] = p /\ file'["wallet"] = "pid"
      /\ \A l \in Locks : l # "wallet" => file'[l] = file[l] /\ holder'[l] = holder[l]
      /\ \A q \in Programs : holder["wallet"] # q
  BY <1>1, WalletTaken
<1>3. ASSUME NEW q \in Programs PROVE HasLock(q)'
  <2>1. HasLock(q) /\ Exclusion!own(q) \in Locks
    BY ProgramShape DEF ExclusionInv
  <2>2. pc[q] # "off" => Exclusion!own(q) # "wallet"
    BY <1>2, <2>1 DEF HasLock
  <2>3. pc[q] # "signing"
    BY <1>2, <2>1 DEF HasLock
  <2>4. CASE q = p
    <3>1. pc'[p] = "signing"
      BY <1>1 DEF ExclusionInv
    <3>2. file'[Exclusion!own(p)] = "pid" /\ holder'[Exclusion!own(p)] = p
      BY <1>1, <1>2, <2>1, <2>2, <2>4 DEF HasLock
    <3> QED
      BY <1>1, <1>2, <2>4, <3>1, <3>2 DEF HasLock
  <2>5. CASE q # p
    <3>1. pc'[q] = pc[q]
      BY <1>1, <2>5 DEF ExclusionInv
    <3> QED
      BY <1>2, <2>1, <2>2, <2>3, <3>1, HasLockSame
  <2> QED
    BY <2>4, <2>5
<1>4. \A q \in Programs : pc'[q] \in {"checked", "signing"} => pc[q] \in {"checked", "signing"}
  BY <1>1 DEF ExclusionInv
<1>5. ArmHasWallet'
  <2>1. <<"generic", "arm">> \in Programs /\ p # <<"generic", "arm">>
    BY <1>1, LanePrograms
  <2>2. pc'[<<"generic", "arm">>] = pc[<<"generic", "arm">>]
    BY <1>1, <2>1 DEF ExclusionInv
  <2>3. pc[<<"generic", "arm">>] # "checked"
    BY <1>2, <2>1 DEF ExclusionInv, ArmHasWallet
  <2> QED
    BY <2>2, <2>3 DEF ArmHasWallet
<1>6. CommandAlone'
  <2>1. <<"fixed", "command">> \in Programs /\ p # <<"fixed", "command">>
    BY <1>1, LanePrograms
  <2>2. pc'[<<"fixed", "command">>] = pc[<<"fixed", "command">>]
    BY <1>1, <2>1 DEF ExclusionInv
  <2> QED
    BY <1>1, <2>2 DEF ExclusionInv, CommandAlone
<1>7. \A lane \in {"fixed", "generic"} : (Exclusion!Past(lane))' => Exclusion!Past(lane)
  BY <1>4, LanePrograms, PastSame
<1>8. pc' \in [Programs -> {"off", "opened", "locked", "checked", "signing"}]
  BY <1>1 DEF ExclusionInv
<1> QED
  BY <1>1, <1>2, <1>3, <1>5, <1>6, <1>7, <1>8, ApartSame DEF ExclusionInv

LEMMA WatchSignedStep == ASSUME ExclusionInv, NEW p \in Programs, Exclusion!WatchSigned(p) PROVE ExclusionInv'
<1>1. /\ pc[p] = "signing" /\ p[2] = "watch" /\ pc' = [pc EXCEPT ![p] = "checked"] /\ armed' = armed
      /\ Exclusion!drops(p, {"wallet"})
  BY DEF Exclusion!WatchSigned
<1>2. "wallet" \in Locks /\ holder["wallet"] = p
  BY <1>1 DEF ExclusionInv, HasLock, Locks, Exclusion!Lock
<1>3. /\ file' \in [Locks -> {"absent", "empty", "pid"}]
      /\ holder' \in [Locks -> Programs \cup {Exclusion!Nobody}]
      /\ \A l \in Locks : holder'[l] # Exclusion!Nobody => file'[l] # "absent"
      /\ \A l \in Locks : l # "wallet" => file'[l] = file[l] /\ holder'[l] = holder[l]
  BY <1>1, <1>2 DEF ExclusionInv, Exclusion!drops, Locks
<1>4. ASSUME NEW q \in Programs PROVE HasLock(q)'
  <2>1. HasLock(q) /\ Exclusion!own(q) \in Locks
    BY ProgramShape DEF ExclusionInv
  <2>2. CASE q = p
    <3>1. pc'[p] = "checked" /\ Exclusion!own(p) # "wallet"
      BY <1>1, ProgramShape DEF ExclusionInv
    <3> QED
      BY <1>1, <1>3, <2>1, <2>2, <3>1 DEF HasLock
  <2>3. CASE q # p
    <3>1. pc'[q] = pc[q]
      BY <1>1, <2>3 DEF ExclusionInv
    <3>2. pc[q] # "off" => Exclusion!own(q) # "wallet"
      BY <1>2, <2>1, <2>3 DEF HasLock
    <3>3. pc[q] # "signing"
      BY <1>2, <2>1, <2>3 DEF HasLock
    <3> QED
      BY <1>3, <2>1, <3>1, <3>2, <3>3, HasLockSame
  <2> QED
    BY <2>2, <2>3
<1>5. \A q \in Programs : q # p => pc'[q] = pc[q]
  BY <1>1 DEF ExclusionInv
<1>6. ArmHasWallet' /\ CommandAlone'
  <2>1. /\ <<"generic", "arm">> \in Programs /\ p # <<"generic", "arm">>
        /\ <<"fixed", "command">> \in Programs /\ p # <<"fixed", "command">>
    BY <1>1, LanePrograms
  <2>2. pc[<<"generic", "arm">>] # "checked"
    BY <1>2, <2>1 DEF ExclusionInv, ArmHasWallet
  <2> QED
    BY <1>1, <1>5, <2>1, <2>2 DEF ExclusionInv, ArmHasWallet, CommandAlone
<1>7. \A lane \in {"fixed", "generic"} : (Exclusion!Past(lane))' => Exclusion!Past(lane)
  <2>1. \A q \in Programs : pc'[q] \in {"checked", "signing"} => pc[q] \in {"checked", "signing"}
    BY <1>1, <1>5
  <2> QED
    BY <2>1, LanePrograms, PastSame
<1>8. pc' \in [Programs -> {"off", "opened", "locked", "checked", "signing"}]
  BY <1>1 DEF ExclusionInv
<1> QED
  BY <1>1, <1>3, <1>4, <1>6, <1>7, <1>8, ApartSame DEF ExclusionInv

(* The look at the other lane: nobody there has passed, nor can pass now.       *)
LEMMA CheckLaneStep == ASSUME ExclusionInv, NEW p \in Programs, Exclusion!CheckLane(p) PROVE ExclusionInv'
<1> DEFINE there == theOther(p[1])
<1>1. /\ pc[p] = "locked" /\ armed' = armed /\ ~Exclusion!laneConflict(there)
      /\ pc' = [pc EXCEPT ![p] = IF p[2] = "command" THEN "signing" ELSE "checked"]
      /\ \A l \in Exclusion!second(p) : Exclusion!takable(l)
      /\ Exclusion!takes(p, Exclusion!second(p), "pid")
  BY DEF Exclusion!CheckLane, Exclusion!mayProceed, theOther
<1>2. /\ p = <<p[1], p[2]>> /\ p[1] \in {"fixed", "generic"} /\ p[2] \in {"watch", "arm", "command"}
      /\ there \in {"fixed", "generic"} /\ there # p[1]
  BY ProgramShape DEF Roles, Exclusion!Role
<1> HIDE DEF there
<1>3. /\ ~Exclusion!Past(there) /\ ~armed[there]
      /\ \A role \in {"watch", "arm"} : pc[<<there, role>>] = "off"
  BY <1>1, <1>2, NoConflict
<1>4. \A q \in Programs : q # p => pc'[q] = pc[q]
  BY <1>1 DEF ExclusionInv
<1>5. /\ pc' \in [Programs -> {"off", "opened", "locked", "checked", "signing"}]
      /\ pc'[p] = IF p[2] = "command" THEN "signing" ELSE "checked"
  BY <1>1 DEF ExclusionInv
<1>6. /\ file' \in [Locks -> {"absent", "empty", "pid"}]
      /\ holder' \in [Locks -> Programs \cup {Exclusion!Nobody}]
      /\ \A l \in Locks : holder'[l] # Exclusion!Nobody => file'[l] # "absent"
      /\ \A l \in Locks : l # "wallet" => file'[l] = file[l] /\ holder'[l] = holder[l]
      /\ p = <<"generic", "arm">> => holder'["wallet"] = p /\ \A q \in Programs : holder["wallet"] # q
      /\ p # <<"generic", "arm">> => file' = file /\ holder' = holder
  <2>1. CASE p = <<"generic", "arm">>
    <3>1. Exclusion!takable("wallet") /\ Exclusion!takes(p, {"wallet"}, "pid")
      BY <1>1, <2>1 DEF Exclusion!second
    <3> QED
      BY <2>1, <3>1, WalletTaken
  <2>2. CASE p # <<"generic", "arm">>
    <3>1. file' = [l \in Locks |-> file[l]] /\ holder' = [l \in Locks |-> holder[l]]
      BY <1>1, <2>2 DEF Exclusion!second, Exclusion!takes, Locks
    <3>2. file' = file /\ holder' = holder
      BY <3>1 DEF ExclusionInv
    <3> QED
      BY <2>2, <3>2 DEF ExclusionInv
  <2> QED
    BY <2>1, <2>2
<1>7. ASSUME NEW q \in Programs PROVE HasLock(q)'
  <2>1. HasLock(q) /\ Exclusion!own(q) \in Locks
    BY ProgramShape DEF ExclusionInv
  <2>2. pc[q] # "off" => /\ file'[Exclusion!own(q)] = file[Exclusion!own(q)]
                         /\ holder'[Exclusion!own(q)] = holder[Exclusion!own(q)]
    BY <1>6, <2>1 DEF HasLock
  <2>3. pc[q] = "signing" => holder'["wallet"] = holder["wallet"]
    BY <1>6, <2>1 DEF HasLock
  <2>4. CASE q = p
    <3>1. holder'[Exclusion!own(p)] = p /\ file'[Exclusion!own(p)] = "pid"
      BY <1>1, <2>1, <2>2, <2>4 DEF HasLock
    <3>2. p[2] = "command" => holder'["wallet"] = p
      BY <3>1, ProgramShape
    <3> QED
      BY <1>5, <2>4, <3>1, <3>2 DEF HasLock
  <2>5. CASE q # p
    BY <1>4, <2>1, <2>2, <2>3, <2>5, HasLockSame
  <2> QED
    BY <2>4, <2>5
<1>8. ArmHasWallet'
  <2> SUFFICES ASSUME pc'[<<"generic", "arm">>] = "checked"
               PROVE  holder'["wallet"] = <<"generic", "arm">>
    BY DEF ArmHasWallet
  <2>1. <<"generic", "arm">> \in Programs
    BY LanePrograms
  <2>2. CASE p # <<"generic", "arm">>
    BY <1>4, <1>6, <2>1, <2>2 DEF ExclusionInv, ArmHasWallet
  <2> QED
    BY <1>6, <2>2
<1>9. CommandAlone'
  <2> SUFFICES ASSUME pc'[<<"fixed", "command">>] = "signing" PROVE ~armed["generic"]
    BY <1>1 DEF CommandAlone
  <2>1. <<"fixed", "command">> \in Programs
    BY LanePrograms
  <2>2. CASE p = <<"fixed", "command">>
    BY <1>2, <1>3, <2>2
  <2>3. CASE p # <<"fixed", "command">>
    BY <1>4, <2>1, <2>3 DEF ExclusionInv, CommandAlone
  <2> QED
    BY <2>2, <2>3
<1>10. \A lane \in {"fixed", "generic"} : lane # p[1] => ~(Exclusion!Past(lane))' /\ ~armed[lane]
  <2>1. \A lane \in {"fixed", "generic"} : lane # p[1] => lane = there
    BY <1>2
  <2>2. ASSUME NEW role \in {"watch", "arm"} PROVE pc'[<<there, role>>] = "off"
    <3>1. <<there, role>> \in Programs /\ <<there, role>> # p
      BY <1>2, LanePrograms
    <3> QED
      BY <1>3, <1>4, <3>1
  <2> QED
    BY <1>3, <2>1, <2>2 DEF Exclusion!Past
<1>11. /\ (Exclusion!LanesExclusive)'
       /\ \A lane \in {"fixed", "generic"} : (Exclusion!Past(lane))' => ~armed'[theOther(lane)]
  BY <1>1, <1>2, <1>10 DEF ExclusionInv, Exclusion!LanesExclusive, theOther, Exclusion!other
<1> QED
  BY <1>1, <1>5, <1>6, <1>7, <1>8, <1>9, <1>11 DEF ExclusionInv

LEMMA ExclusionUnchanged == ASSUME ExclusionInv, UNCHANGED exclusionVars PROVE ExclusionInv'
<1>1. \A q \in Programs : HasLock(q)'
  BY HasLockSame DEF exclusionVars, ExclusionInv
<1>2. \A lane \in {"fixed", "generic"} : (Exclusion!Past(lane))' => Exclusion!Past(lane)
  BY PastSame DEF exclusionVars
<1>3. ArmHasWallet' /\ CommandAlone'
  BY DEF exclusionVars, ExclusionInv, ArmHasWallet, CommandAlone
<1> QED
  BY <1>1, <1>2, <1>3, ApartSame DEF exclusionVars, ExclusionInv

(* Every step keeps it. *)
LEMMA ExclusionInvStep == ExclusionInv /\ [Next]_vars => ExclusionInv'
<1> SUFFICES ASSUME ExclusionInv, [Next]_vars PROVE ExclusionInv'
  OBVIOUS
<1>1. CASE UNCHANGED exclusionVars
  BY <1>1, ExclusionUnchanged
<1>2. CASE Exclusion!ExclusionNext
  <2>1. ASSUME NEW p \in Programs,
               \/ Exclusion!OpenLock(p) \/ Exclusion!WritePid(p) \/ Exclusion!CheckLane(p)
               \/ Exclusion!WriteArm(p) \/ Exclusion!WatchSigns(p) \/ Exclusion!WatchSigned(p)
               \/ Exclusion!Leave(p) \/ Exclusion!LoseProgram(p)
        PROVE  ExclusionInv'
    BY <2>1, OpenLockStep, WritePidStep, CheckLaneStep, WriteArmStep, WatchSignsStep, WatchSignedStep,
       LeaveStep
  <2>2. ASSUME NEW lane \in {"fixed", "generic"}, Exclusion!Unarm(lane) PROVE ExclusionInv'
    BY <2>2, UnarmStep
  <2> QED
    BY <1>2, <2>1, <2>2 DEF Exclusion!ExclusionNext, Programs, Exclusion!Lane
<1>3. UNCHANGED exclusionVars \/ Exclusion!ExclusionNext
  BY DEF Next, vars, FixedStep, RetriesStep, LeasesStep, ShotsStep, ExclusionStep, ReadsStep, GlobalStep,
         CollectorStep, AuditStep
<1> QED
  BY <1>1, <1>2, <1>3

(* The initial states satisfy it. *)
LEMMA ExclusionInvInit == Exclusion!ExclusionInit => ExclusionInv
<1> SUFFICES ASSUME Exclusion!ExclusionInit PROVE ExclusionInv
  OBVIOUS
<1>1. /\ pc = [p \in Programs |-> "off"] /\ file = [l \in Locks |-> "absent"]
      /\ holder = [l \in Locks |-> Exclusion!Nobody] /\ armed = [l \in {"fixed", "generic"} |-> FALSE]
  BY DEF Exclusion!ExclusionInit, Programs, Locks, Exclusion!Lane
<1>2. \A p \in Programs : HasLock(p)
  BY <1>1 DEF HasLock
<1>3. /\ pc[<<"generic", "arm">>] = "off" /\ pc[<<"fixed", "command">>] = "off"
      /\ \A lane \in {"fixed", "generic"}, role \in {"watch", "arm"} : pc[<<lane, role>>] = "off"
  BY <1>1, LanePrograms
<1>4. ArmHasWallet /\ CommandAlone /\ \A lane \in {"fixed", "generic"} : ~Exclusion!Past(lane)
  BY <1>3 DEF ArmHasWallet, CommandAlone, Exclusion!Past
<1>5. armed \in [{"fixed", "generic"} -> BOOLEAN] /\ ~armed["fixed"]
  BY <1>1
<1> QED
  BY <1>1, <1>2, <1>4, <1>5 DEF ExclusionInv, Exclusion!LanesExclusive

(* An instance carries the library operators its module extends along. *)
LEMMA SameCardinality == \A S : Exclusion!Cardinality(S) = Cardinality(S)
BY DEF Exclusion!Cardinality, Cardinality

(* Who signs holds wallet.lock, which one program can hold. *)
LEMMA SignerAlone == ASSUME ExclusionInv PROVE Exclusion!SignsAlone
<1> DEFINE signing == {p \in Programs : pc[p] = "signing"}
<1>1. Cardinality(signing) <= 1
  <2>1. \A p, q \in signing : p = q
    BY DEF ExclusionInv, HasLock
  <2> HIDE DEF signing
  <2>2. CASE signing = {}
    BY <2>2, FS_EmptySet
  <2>3. CASE signing # {}
    <3>1. PICK p \in signing : TRUE
      BY <2>3
    <3>2. signing = {p}
      BY <2>1, <3>1
    <3>3. Cardinality({p}) = 1
      BY FS_Singleton
    <3> QED
      BY <3>2, <3>3
  <2> QED
    BY <2>2, <2>3
<1>2. ASSUME NEW p \in signing, p # <<"generic", "command">> PROVE ~armed[theOther(p[1])]
  <2>1. /\ p = <<p[1], p[2]>> /\ p[1] \in {"fixed", "generic"} /\ p[2] \in {"watch", "arm", "command"}
        /\ HasLock(p) /\ pc[p] = "signing"
    BY ProgramShape DEF Roles, Exclusion!Role, ExclusionInv
  <2>2. CASE p[2] = "watch"
    <3>1. Exclusion!Past(p[1])
      BY <2>1, <2>2 DEF Exclusion!Past
    <3> QED
      BY <2>1, <3>1 DEF ExclusionInv
  <2>3. CASE p[2] = "command"
    <3>1. p = <<"fixed", "command">> /\ p[1] = "fixed"
      BY <1>2, <2>1, <2>3
    <3> QED
      BY <2>1, <3>1 DEF ExclusionInv, CommandAlone, theOther, Exclusion!other
  <2> QED
    BY <2>1, <2>2, <2>3 DEF HasLock
<1>3. signing = {p \in Exclusion!Program : pc[p] = "signing"}
  BY DEF Programs
<1> HIDE DEF signing
<1>4. \A p \in signing \ {<<"generic", "command">>} : ~armed[Exclusion!other(p[1])]
  BY <1>2 DEF theOther
<1> QED
  BY <1>1, <1>3, <1>4, SameCardinality DEF Exclusion!SignsAlone

(* For any number of programs killed, wherever they die: the fixed and the      *)
(* generic lane never serve together and are never armed together, and who      *)
(* signs, signs alone, its lane's rival disarmed.                               *)
THEOREM LanesApart == Spec => []LanesExclusive
<1>1. ExclusionInv => LanesExclusive
  BY SignerAlone DEF ExclusionInv, LanesExclusive
<1>2. Init => ExclusionInv
  BY ExclusionInvInit DEF Init
<1> QED
  BY <1>1, <1>2, ExclusionInvStep, PTL DEF Spec

--------------------------------------------------------------------------------
(* The parts of a step.                                                         *)

(* A behaviour is one of a single part, and only its own step moves it. *)
LEMMA PartStep ==
  ASSUME [Next]_vars
  PROVE  /\ part' = part
         /\ part = "leases" => Leases!LaneNext \/ UNCHANGED genericVars
         /\ part = "shots" => Shots!LaneNext \/ UNCHANGED genericVars
         /\ part = "fixed" => Fixed!LaneNext \/ UNCHANGED fixedVars
         /\ part = "retries" => Retries!LaneNext \/ UNCHANGED fixedVars
         /\ part = "global" => Global!GlobalNext \/ UNCHANGED globalVars
         /\ part = "collector" => Collecting!CollectorNext \/ UNCHANGED collectorVars
         /\ part = "exclusion" => Exclusion!ExclusionNext \/ UNCHANGED exclusionVars
         /\ part = "reads" => ReadsNext \/ UNCHANGED obs
         /\ part # "reads" => UNCHANGED obs
         /\ part = "audit" => Audit!ReaderNext \/ UNCHANGED auditVars
<1>1. CASE UNCHANGED vars
  BY <1>1 DEF vars, otherVars
<1>2. ASSUME Next PROVE part' = part
  BY <1>2 DEF Next, FixedStep, RetriesStep, LeasesStep, ShotsStep, ExclusionStep, ReadsStep, GlobalStep,
    CollectorStep, AuditStep
<1>3. ASSUME Next, part = "leases" PROVE Leases!LaneNext
  BY <1>3 DEF Next, FixedStep, RetriesStep, LeasesStep, ShotsStep, ExclusionStep, ReadsStep, GlobalStep,
    CollectorStep, AuditStep
<1>4. ASSUME Next, part = "shots" PROVE Shots!LaneNext
  BY <1>4 DEF Next, FixedStep, RetriesStep, LeasesStep, ShotsStep, ExclusionStep, ReadsStep, GlobalStep,
    CollectorStep, AuditStep
<1>5. ASSUME Next, part = "fixed" PROVE Fixed!LaneNext
  BY <1>5 DEF Next, FixedStep, RetriesStep, LeasesStep, ShotsStep, ExclusionStep, ReadsStep, GlobalStep,
    CollectorStep, AuditStep
<1>6. ASSUME Next, part = "retries" PROVE Retries!LaneNext
  BY <1>6 DEF Next, FixedStep, RetriesStep, LeasesStep, ShotsStep, ExclusionStep, ReadsStep, GlobalStep,
    CollectorStep, AuditStep
<1>7. ASSUME Next, part = "global" PROVE Global!GlobalNext
  BY <1>7 DEF Next, FixedStep, RetriesStep, LeasesStep, ShotsStep, ExclusionStep, ReadsStep, GlobalStep,
    CollectorStep, AuditStep
<1>8. ASSUME Next, part = "collector" PROVE Collecting!CollectorNext
  BY <1>8 DEF Next, FixedStep, RetriesStep, LeasesStep, ShotsStep, ExclusionStep, ReadsStep, GlobalStep,
    CollectorStep, AuditStep
<1>9. ASSUME Next, part = "reads" PROVE ReadsNext
  BY <1>9 DEF Next, FixedStep, RetriesStep, LeasesStep, ShotsStep, ExclusionStep, ReadsStep, GlobalStep,
    CollectorStep, AuditStep
<1>10. ASSUME Next, part # "reads" PROVE UNCHANGED obs
  BY <1>10 DEF Next, FixedStep, RetriesStep, LeasesStep, ShotsStep, ExclusionStep, ReadsStep, GlobalStep,
    CollectorStep, AuditStep
<1>11. ASSUME Next, part = "audit" PROVE Audit!ReaderNext
  BY <1>11 DEF Next, FixedStep, RetriesStep, LeasesStep, ShotsStep, ExclusionStep, ReadsStep, GlobalStep,
    CollectorStep, AuditStep
<1>12. ASSUME Next, part = "exclusion" PROVE Exclusion!ExclusionNext
  BY <1>12 DEF Next, FixedStep, RetriesStep, LeasesStep, ShotsStep, ExclusionStep, ReadsStep, GlobalStep,
    CollectorStep, AuditStep
<1> QED
  BY <1>1, <1>2, <1>3, <1>4, <1>5, <1>6, <1>7, <1>8, <1>9, <1>10, <1>11, <1>12

--------------------------------------------------------------------------------
(* The leases of the generic lane.  A marker names the authorization of the last *)
(* disarm, and what disarm writes is that one; so while a renewal is about to    *)
(* write, a marker that names its lease finds the arm file still of that         *)
(* authorization, and no other disarm can take the marker away from it.          *)

LEMMA NoLease ==
  ASSUME issued' = issued, issued \in Nat
  PROVE  /\ AuthShape(Leases!NoAuth)'
         /\ \A where, status : keeper' = Ended(where, status) => KeeperShape' /\ keeper'.pc = where
         /\ \A reason : Leases!stopsFor(reason) => KeeperShape' /\ keeper'.pc = "off"
         /\ Leases!NoKeeper = Ended("off", "none")
<1>1. AuthShape(Leases!NoAuth)'
  BY DEF AuthShape, Leases!NoAuth
<1>2. ASSUME NEW where, NEW status, keeper' = Ended(where, status) PROVE KeeperShape' /\ keeper'.pc = where
  BY <1>1, <1>2 DEF KeeperShape, Ended
<1>3. ASSUME NEW status, Leases!ends(status) PROVE keeper' = Ended("off", status)
  BY <1>3 DEF Leases!ends, Leases!NoKeeper, Ended
<1>4. Leases!NoKeeper = Ended("off", "none")
  BY DEF Leases!NoKeeper, Ended
<1>5. ASSUME NEW reason, Leases!stopsFor(reason) PROVE KeeperShape' /\ keeper'.pc = "off"
  BY <1>2, <1>3, <1>5 DEF Leases!stopsFor
<1> QED
  BY <1>1, <1>2, <1>4, <1>5

LEMMA LeaseInvInit == Init /\ part = "leases" => LeaseInv
  BY DEF Init, Leases!LaneInit, LeaseInv, AuthShape, KeeperShape, DisarmShape, Leases!NoAuth, Leases!NoKeeper,
    Leases!NoDisarm

(* Where no file and no disarm moves, only the watcher matters, and it only as *)
(* it comes to write a renewal.                                                *)
LEMMA LeaseSame ==
  ASSUME LeaseInv, UNCHANGED <<auth, issued, revoked, marker, disarming>>, KeeperShape',
         keeper'.pc = "renewWrite" => keeper.pc = "renewWrite" /\ keeper'.lease = keeper.lease
  PROVE  LeaseInv'
  BY DEF LeaseInv, Dead, DisarmShape, AuthShape

(* What the watcher does besides renewing. *)
LEMMA LeaseWatch ==
  ASSUME LeaseInv,
         \/ Leases!WatchStart \/ Leases!WatchTop \/ Leases!BoardIdle \/ \E b \in BOOLEAN : Leases!RenewFails(b)
         \/ \E o \in LeaseOpportunity : Leases!BoardCandidate(o)
         \/ \E out \in {"done", "miss", "transport", "invariant", "nonce", "policy"} : Leases!ExecutionEnds(out)
         \/ Leases!LoseWatcher
  PROVE  LeaseInv'
<1>0. KeeperShape /\ AuthShape(auth) /\ issued \in Nat
  BY DEF LeaseInv
<1>1. CASE Leases!WatchStart
  <2>0. issued' = issued
    BY <1>1 DEF Leases!WatchStart
  <2>1. \/ \E reason : Leases!stopsFor(reason)
        \/ keeper' = Ended("off", "HALTED_STARTUP") \/ keeper' = Ended("top", "RUNNING")
    BY <1>1 DEF Leases!WatchStart, Leases!ends, Leases!NoKeeper, Ended
  <2>2. ASSUME NEW reason, Leases!stopsFor(reason) PROVE KeeperShape' /\ keeper'.pc # "renewWrite"
    BY <1>0, <2>0, <2>2, NoLease
  <2>3. KeeperShape' /\ keeper'.pc # "renewWrite"
    BY <1>0, <2>0, <2>1, <2>2, NoLease
  <2> QED
    BY <1>1, <2>3, LeaseSame DEF Leases!WatchStart
<1>2. CASE Leases!WatchTop
  <2>0. issued' = issued
    BY <1>2 DEF Leases!WatchTop
  <2>1. \/ \E reason : Leases!stopsFor(reason)
        \/ keeper' = Ended("off", "STOPPED_BY_SIGNAL")
        \/ keeper' = [keeper EXCEPT !.pc = "renew", !.lease = auth, !.now = clock]
        \/ keeper' = [keeper EXCEPT !.pc = "board"]
    BY <1>2 DEF Leases!WatchTop, Leases!ends, Leases!goes, Leases!NoKeeper, Ended
  <2>2. ASSUME keeper' = [keeper EXCEPT !.pc = "renew", !.lease = auth, !.now = clock]
        PROVE  KeeperShape' /\ keeper'.pc # "renewWrite"
    BY <1>0, <2>0, <2>2 DEF KeeperShape, AuthShape
  <2>3. ASSUME keeper' = [keeper EXCEPT !.pc = "board"] PROVE KeeperShape' /\ keeper'.pc # "renewWrite"
    BY <1>0, <2>0, <2>3 DEF KeeperShape, AuthShape
  <2>4. ASSUME NEW reason, Leases!stopsFor(reason) PROVE KeeperShape' /\ keeper'.pc # "renewWrite"
    BY <1>0, <2>0, <2>4, NoLease
  <2>5. KeeperShape' /\ keeper'.pc # "renewWrite"
    BY <1>0, <2>0, <2>1, <2>2, <2>3, <2>4, NoLease
  <2> QED
    BY <1>2, <2>5, LeaseSame DEF Leases!WatchTop
<1>3. CASE Leases!BoardIdle
  <2>1. KeeperShape' /\ keeper'.pc # "renewWrite"
    BY <1>0, <1>3, NoLease DEF Leases!BoardIdle, Leases!goes, KeeperShape, AuthShape
  <2> QED
    BY <1>3, <2>1, LeaseSame DEF Leases!BoardIdle
<1>4. ASSUME NEW b \in BOOLEAN, Leases!RenewFails(b) PROVE LeaseInv'
  <2>1. KeeperShape' /\ keeper'.pc # "renewWrite"
    BY <1>0, <1>4, NoLease DEF Leases!RenewFails, Leases!ends, KeeperShape, AuthShape
  <2> QED
    BY <1>4, <2>1, LeaseSame DEF Leases!RenewFails
<1>5. ASSUME NEW o \in LeaseOpportunity, Leases!BoardCandidate(o) PROVE LeaseInv'
  <2>1. KeeperShape' /\ keeper'.pc # "renewWrite"
    BY <1>0, <1>5, NoLease DEF Leases!BoardCandidate, KeeperShape, AuthShape
  <2> QED
    BY <1>5, <2>1, LeaseSame DEF Leases!BoardCandidate
<1>6. ASSUME NEW out, Leases!ExecutionEnds(out) PROVE LeaseInv'
  <2>0. issued' = issued
    BY <1>6 DEF Leases!ExecutionEnds
  <2>1. \/ Leases!stopsFor(out)
        \/ keeper' = [keeper EXCEPT !.pc = "top", !.seen = "none", !.misses = 0]
        \/ keeper' = [keeper EXCEPT !.pc = "top", !.seen = "none", !.misses = @ + 1]
    BY <1>6 DEF Leases!ExecutionEnds
  <2>2. ASSUME NEW misses, keeper' = [keeper EXCEPT !.pc = "top", !.seen = "none", !.misses = misses]
        PROVE  KeeperShape' /\ keeper'.pc # "renewWrite"
    BY <1>0, <2>0, <2>2 DEF KeeperShape, AuthShape
  <2>3. ASSUME Leases!stopsFor(out) PROVE KeeperShape' /\ keeper'.pc # "renewWrite"
    BY <1>0, <2>0, <2>3, NoLease
  <2>4. KeeperShape' /\ keeper'.pc # "renewWrite"
    BY <2>1, <2>2, <2>3, Zenon
  <2> QED
    BY <1>6, <2>4, LeaseSame DEF Leases!ExecutionEnds
<1>7. CASE Leases!LoseWatcher
  <2>1. KeeperShape' /\ keeper'.pc # "renewWrite"
    BY <1>0, <1>7, NoLease DEF Leases!LoseWatcher, KeeperShape, AuthShape
  <2> QED
    BY <1>7, <2>1, LeaseSame DEF Leases!LoseWatcher
<1> QED
  BY <1>1, <1>2, <1>3, <1>4, <1>5, <1>6, <1>7

(* The renewal checks the file and the marker, writes, and looks again. *)
LEMMA LeaseRenews ==
  ASSUME LeaseInv, Leases!RenewCheck \/ Leases!RenewWrite \/ Leases!RenewVerify
  PROVE  LeaseInv'
<1>0. KeeperShape /\ AuthShape(auth) /\ issued \in Nat
  BY DEF LeaseInv
<1>1. CASE Leases!RenewCheck
  <2>1. /\ UNCHANGED <<auth, issued, revoked, marker, disarming>> /\ KeeperShape'
        /\ keeper'.pc = "renewWrite" =>
             auth.armed /\ auth.id = keeper'.lease.id /\ marker # keeper'.lease.id
    BY <1>0, <1>1, NoLease DEF Leases!RenewCheck, Leases!ends, Leases!goes, KeeperShape, AuthShape
  <2> QED
    BY <2>1 DEF LeaseInv, Dead, DisarmShape, AuthShape
<1>2. CASE Leases!RenewWrite
  <2>1. /\ UNCHANGED <<issued, revoked, marker, disarming>> /\ KeeperShape' /\ keeper'.pc = "renewVerify"
        /\ AuthShape(auth)' /\ auth'.id = keeper.lease.id
    BY <1>0, <1>2, NoLease DEF Leases!RenewWrite, Leases!renewed, Leases!goes, KeeperShape, AuthShape
  <2> QED
    BY <1>2, <2>1 DEF LeaseInv, Dead, DisarmShape, AuthShape, Leases!RenewWrite
<1>3. CASE Leases!RenewVerify
  <2>1. UNCHANGED <<issued, revoked, marker, disarming>>
    BY <1>3 DEF Leases!RenewVerify
  <2>2. KeeperShape' /\ keeper'.pc # "renewWrite"
    BY <1>0, <1>3, <2>1, NoLease DEF Leases!RenewVerify, Leases!ends, KeeperShape, AuthShape
  <2>3. AuthShape(auth)' /\ auth'.id = auth.id /\ (auth'.armed => auth.armed)
    BY <1>0, <1>3, <2>1, NoLease DEF Leases!RenewVerify, AuthShape
  <2> QED
    BY <2>1, <2>2, <2>3 DEF LeaseInv, Dead, DisarmShape, AuthShape
<1> QED
  BY <1>1, <1>2, <1>3

(* An arm, and the two writes of a disarm. *)
LEMMA LeaseArms ==
  ASSUME LeaseInv, Leases!ArmGeneric \/ Leases!DisarmMark \/ Leases!DisarmWrite
  PROVE  LeaseInv'
<1>0. KeeperShape /\ AuthShape(auth) /\ DisarmShape /\ issued \in Nat
  BY DEF LeaseInv
<1>1. CASE Leases!ArmGeneric
  <2>1. /\ UNCHANGED <<revoked, marker, disarming, keeper>> /\ issued' = issued + 1 /\ keeper.pc = "off"
        /\ AuthShape(auth)' /\ auth'.id = issued + 1
    BY <1>0, <1>1 DEF Leases!ArmGeneric, AuthShape
  <2>2. KeeperShape' /\ DisarmShape'
    BY <1>0, <2>1 DEF KeeperShape, DisarmShape, AuthShape
  <2> QED
    BY <2>1, <2>2 DEF LeaseInv, Dead
<1>2. CASE Leases!DisarmMark
  <2>1. /\ UNCHANGED <<auth, issued, keeper>> /\ marker' = auth.id /\ revoked' = revoked \cup {auth.id}
        /\ disarming' = [pc |-> "marked", auth |-> auth]
    BY <1>2 DEF Leases!DisarmMark
  <2>2. KeeperShape' /\ DisarmShape' /\ AuthShape(auth)'
    BY <1>0, <2>1 DEF KeeperShape, DisarmShape, AuthShape
  <2>3. \A a \in revoked' : a # marker' => Dead(a)'
    BY <2>1 DEF LeaseInv, Dead
  <2> QED
    BY <1>0, <2>1, <2>2, <2>3 DEF LeaseInv, AuthShape
<1>3. CASE Leases!DisarmWrite
  <2>1. /\ UNCHANGED <<issued, revoked, marker>> /\ disarming' = Leases!NoDisarm /\ disarming.pc = "marked"
        /\ keeper' = [keeper EXCEPT !.stop = keeper.pc # "off"] /\ auth' = [disarming.auth EXCEPT !.armed = FALSE]
    BY <1>3 DEF Leases!DisarmWrite
  <2>2. KeeperShape' /\ DisarmShape' /\ keeper'.pc = keeper.pc /\ keeper'.lease = keeper.lease
    BY <1>0, <2>1 DEF KeeperShape, DisarmShape, AuthShape, Leases!NoDisarm, Leases!NoAuth
  <2>3. AuthShape(auth)' /\ auth'.id = disarming.auth.id /\ ~auth'.armed
    BY <1>0, <2>1 DEF DisarmShape, AuthShape
  <2> QED
    BY <2>1, <2>2, <2>3 DEF LeaseInv, Dead, Leases!NoDisarm
<1> QED
  BY <1>1, <1>2, <1>3

LEMMA LeaseInvStep == ASSUME LeaseInv, Leases!LaneNext PROVE LeaseInv'
<1>0. KeeperShape /\ AuthShape(auth) /\ DisarmShape /\ issued \in Nat
  BY DEF LeaseInv
<1>1. ASSUME UNCHANGED <<auth, issued, revoked, marker, disarming, keeper>> PROVE LeaseInv'
  BY <1>0, <1>1, LeaseSame DEF KeeperShape, AuthShape
<1>2. CASE Leases!LoseCommand
  <2>1. /\ UNCHANGED <<auth, issued, revoked, marker, keeper>> /\ disarming' \in {disarming, Leases!NoDisarm}
    BY <1>2 DEF Leases!LoseCommand
  <2> QED
    BY <1>0, <2>1 DEF LeaseInv, Dead, KeeperShape, DisarmShape, AuthShape, Leases!NoDisarm, Leases!NoAuth
<1>3. ASSUME NEW i, NEW result, Leases!MineMutation(i, result) PROVE LeaseInv'
  BY <1>1, <1>3 DEF Leases!MineMutation
<1>4. ASSUME \/ Leases!Tick \/ Leases!LockForWatch \/ Leases!PreflightGeneric \/ Leases!AuthorizeGeneric
             \/ Leases!PersistSigned \/ Leases!BroadcastSigned \/ Leases!BookSuccess \/ Leases!BookRevert
             \/ Leases!CloseMutation \/ Leases!CliEnds \/ Leases!ReconcileGeneric \/ Leases!ReconcileHalts
             \/ \E kind \in {"deploy", "execute", "withdraw"} : Leases!LockForCli(kind)
             \/ \E reason \in {"miss", "transport", "invariant"} : Leases!GenericFails(reason)
      PROVE LeaseInv'
  BY <1>1, <1>4 DEF Leases!Tick, Leases!LockForWatch, Leases!PreflightGeneric, Leases!AuthorizeGeneric,
    Leases!PersistSigned, Leases!BroadcastSigned, Leases!BookSuccess, Leases!BookRevert, Leases!CloseMutation,
    Leases!CliEnds, Leases!ReconcileGeneric, Leases!ReconcileHalts, Leases!LockForCli, Leases!GenericFails
<1> QED
  BY <1>2, <1>3, <1>4, LeaseWatch, LeaseRenews, LeaseArms DEF Leases!LaneNext

(* RevocationFinal: for any number of authorizations, mutations and deaths, and *)
(* any times of leases: no interleaving of renewals, disarms, crashes and arms  *)
(* revives an authorization a marker was written for.                           *)
LEMMA RevocationStays == ASSUME LeaseInv PROVE Leases!RevocationFinal
  BY DEF LeaseInv, Dead, Leases!RevocationFinal, Leases!live

--------------------------------------------------------------------------------
(* The shots of the generic lane.  An opportunity is listed for the arm in force *)
(* before the watcher turns to it, and until it signs nothing else can be signed *)
(* for the pair; what the watcher finds in force when it signs is that arm or,   *)
(* by a disarm, none.                                                            *)

LEMMA ShotTypesInit == Init /\ part = "shots" => ShotTypes
<1>1. ASSUME Init, part = "shots" PROVE Shots!LaneInit
  BY <1>1 DEF Init
<1>2. ASSUME Shots!LaneInit PROVE ShotTypes
  <2>1. issued \in Nat /\ AuthShape(auth) /\ KeeperShape /\ DisarmShape /\ keeper.seen \in Shot
    BY <1>2 DEF Shots!LaneInit, AuthShape, KeeperShape, DisarmShape, Shots!NoAuth, Shots!NoKeeper,
      Shots!NoDisarm, Shot
  <2>2. muts \in [1 .. ShotMuts -> MutRecord] /\ count \in 0 .. ShotMuts
    <3>1. Shots!NoMut \in MutRecord
      BY DEF Shots!NoMut, MutRecord, Shot, Kind
    <3>2. muts = [i \in 1 .. ShotMuts |-> Shots!NoMut] /\ count = 0
      BY <1>2 DEF Shots!LaneInit, Shots!Muts
    <3> QED
      BY <3>1, <3>2, ProgramsAssumption
  <2>3. signer \in SignerRecord
    <3>1. Shots!NoSigner \in SignerRecord
      BY DEF Shots!NoSigner, SignerRecord, Shot, Kind, Progress
    <3> QED
      BY <1>2, <3>1 DEF Shots!LaneInit
  <2> QED
    BY <2>1, <2>2, <2>3 DEF ShotTypes
<1> QED
  BY <1>1, <1>2

(* Which actions move the mutations, the arm file, and a disarm. *)
LEMMA ShotMoves ==
  ASSUME Shots!LaneNext
  PROVE  /\ \/ UNCHANGED <<muts, count>>
            \/ \E i \in Shots!Muts, result \in {"success", "reverted"} : Shots!MineMutation(i, result)
            \/ Shots!PersistSigned \/ Shots!BroadcastSigned \/ Shots!CloseMutation \/ Shots!ReconcileGeneric
         /\ \/ UNCHANGED <<auth, issued>>
            \/ Shots!ArmGeneric \/ Shots!DisarmWrite \/ Shots!RenewWrite \/ Shots!RenewVerify
         /\ UNCHANGED disarming \/ Shots!DisarmMark \/ Shots!DisarmWrite \/ Shots!LoseCommand
         /\ UNCHANGED tried \/ \E o \in ShotOpportunity : Shots!BoardCandidate(o)
         /\ UNCHANGED book \/ Shots!BookSuccess \/ Shots!BookRevert \/ Shots!ReconcileGeneric \/ Shots!ReconcileHalts
  BY DEF Shots!LaneNext, Shots!Tick, Shots!MineMutation, Shots!ArmGeneric, Shots!DisarmMark, Shots!DisarmWrite,
    Shots!WatchStart, Shots!WatchTop, Shots!RenewCheck, Shots!RenewWrite, Shots!RenewVerify, Shots!BoardIdle,
    Shots!RenewFails, Shots!BoardCandidate, Shots!ExecutionEnds, Shots!LockForWatch, Shots!LockForCli,
    Shots!PreflightGeneric, Shots!AuthorizeGeneric, Shots!PersistSigned, Shots!BroadcastSigned,
    Shots!GenericFails, Shots!BookSuccess, Shots!BookRevert, Shots!CloseMutation, Shots!CliEnds,
    Shots!ReconcileGeneric, Shots!ReconcileHalts, Shots!LoseWatcher, Shots!LoseCommand

(* A watcher that ends. *)
LEMMA ShotWatchEnds ==
  ASSUME issued' = issued, issued \in Nat
  PROVE  /\ \A status : keeper' = Ended("off", status) => KeeperStep
         /\ \A reason : Shots!stopsFor(reason) => KeeperStep
         /\ Shots!NoKeeper = Ended("off", "none") /\ AuthShape(Shots!NoAuth)'
<1>1. ASSUME NEW status, keeper' = Ended("off", status) PROVE KeeperStep
  <2>1. KeeperShape' /\ keeper'.pc = "off"
    BY <1>1, NoLease
  <2>2. keeper'.seen = "none"
    BY <1>1 DEF Ended
  <2> QED
    BY <2>1, <2>2 DEF KeeperStep, Shot
<1>2. Shots!NoAuth = Leases!NoAuth
  BY DEF Shots!NoAuth, Leases!NoAuth
<1>3. Shots!NoKeeper = Ended("off", "none")
  BY <1>2 DEF Shots!NoKeeper, Ended
<1>4. ASSUME NEW status, Shots!ends(status) PROVE keeper' = Ended("off", status)
  BY <1>2, <1>4 DEF Shots!ends, Shots!NoKeeper, Ended
<1>5. ASSUME NEW reason, Shots!stopsFor(reason) PROVE KeeperStep
  BY <1>1, <1>4, <1>5 DEF Shots!stopsFor
<1>6. AuthShape(Shots!NoAuth)'
  BY DEF AuthShape, Shots!NoAuth
<1> QED
  BY <1>1, <1>3, <1>5, <1>6

(* It looks at its arm, and turns to the board. *)
LEMMA ShotWatchTurns ==
  ASSUME ShotTypes,
         \/ Shots!WatchStart \/ Shots!WatchTop \/ Shots!BoardIdle
         \/ \E o \in ShotOpportunity : Shots!BoardCandidate(o)
  PROVE  KeeperStep
<1>0. KeeperShape /\ AuthShape(auth) /\ issued \in Nat /\ keeper.seen \in Shot
  BY DEF ShotTypes
<1>a. Shots!NoAuth = Leases!NoAuth
  BY DEF Shots!NoAuth, Leases!NoAuth
<1>1. CASE Shots!WatchStart
  <2>0. issued' = issued
    BY <1>1 DEF Shots!WatchStart
  <2>1. \/ \E reason : Shots!stopsFor(reason)
        \/ keeper' = Ended("off", "HALTED_STARTUP")
        \/ keeper' = Ended("top", "RUNNING") /\ auth.armed
    BY <1>1, <1>a DEF Shots!WatchStart, Shots!ends, Shots!NoKeeper, Ended, Shots!assertWatchArm, Shots!withinPolicy
  <2>2. ASSUME NEW reason, Shots!stopsFor(reason) PROVE KeeperStep
    BY <1>0, <2>0, <2>2, ShotWatchEnds
  <2>3. ASSUME keeper' = Ended("top", "RUNNING"), auth.armed PROVE KeeperStep
    <3>1. KeeperShape' /\ keeper'.pc = "top"
      BY <1>0, <2>0, <2>3, NoLease
    <3>2. keeper'.seen = "none"
      BY <2>3 DEF Ended
    <3> QED
      BY <2>3, <3>1, <3>2 DEF KeeperStep, Shot
  <2> QED
    BY <1>0, <2>0, <2>1, <2>2, <2>3, ShotWatchEnds
<1>2. CASE Shots!WatchTop
  <2>0. issued' = issued
    BY <1>2 DEF Shots!WatchTop
  <2>1. \/ \E reason : Shots!stopsFor(reason)
        \/ keeper' = Ended("off", "STOPPED_BY_SIGNAL")
        \/ keeper' = [keeper EXCEPT !.pc = "renew", !.lease = auth, !.now = clock] /\ auth.armed
        \/ keeper' = [keeper EXCEPT !.pc = "board"] /\ keeper.pc = "top"
    BY <1>2, <1>a DEF Shots!WatchTop, Shots!ends, Shots!goes, Shots!NoKeeper, Ended, Shots!assertWatchArm,
      Shots!withinPolicy
  <2>2. ASSUME keeper' = [keeper EXCEPT !.pc = "renew", !.lease = auth, !.now = clock], auth.armed
        PROVE  KeeperStep
    BY <1>0, <2>0, <2>2 DEF KeeperShape, AuthShape, KeeperStep
  <2>3. ASSUME keeper' = [keeper EXCEPT !.pc = "board"], keeper.pc = "top" PROVE KeeperStep
    BY <1>0, <2>0, <2>3 DEF KeeperShape, AuthShape, KeeperStep
  <2>4. ASSUME NEW reason, Shots!stopsFor(reason) PROVE KeeperStep
    BY <1>0, <2>0, <2>4, ShotWatchEnds
  <2> QED
    BY <1>0, <2>0, <2>1, <2>2, <2>3, <2>4, ShotWatchEnds
<1>3. CASE Shots!BoardIdle
  BY <1>0, <1>3 DEF Shots!BoardIdle, Shots!goes, KeeperShape, AuthShape, KeeperStep
<1>4. ASSUME NEW o \in ShotOpportunity, Shots!BoardCandidate(o) PROVE KeeperStep
  <2>1. /\ keeper' = [keeper EXCEPT !.pc = "execute", !.seen = o, !.lease = Shots!NoAuth]
        /\ issued' = issued /\ AuthShape(Shots!NoAuth)'
    BY <1>0, <1>4, ShotWatchEnds DEF Shots!BoardCandidate
  <2>2. KeeperShape' /\ keeper'.pc = "execute" /\ keeper'.seen = o
    BY <1>0, <2>1 DEF KeeperShape
  <2> QED
    BY <1>4, <2>2 DEF KeeperStep, Shots!BoardCandidate, Shots!listed, Shot
<1> QED
  BY <1>1, <1>2, <1>3, <1>4

(* It renews, and its execution ends. *)
LEMMA ShotWatchRenews ==
  ASSUME ShotTypes,
         \/ Shots!RenewCheck \/ Shots!RenewWrite \/ Shots!RenewVerify \/ \E b \in BOOLEAN : Shots!RenewFails(b)
         \/ \E out \in Outcome : Shots!ExecutionEnds(out)
  PROVE  KeeperStep
<1>0. KeeperShape /\ AuthShape(auth) /\ issued \in Nat /\ keeper.seen \in Shot
  BY DEF ShotTypes
<1>1. CASE Shots!RenewCheck
  <2>0. issued' = issued
    BY <1>1 DEF Shots!RenewCheck
  <2>1. \/ Shots!stopsFor("policy")
        \/ keeper' = [keeper EXCEPT !.pc = "renewWrite"] /\ keeper.pc = "renew"
    BY <1>1 DEF Shots!RenewCheck, Shots!goes
  <2>2. ASSUME keeper' = [keeper EXCEPT !.pc = "renewWrite"], keeper.pc = "renew" PROVE KeeperStep
    BY <1>0, <2>0, <2>2 DEF KeeperShape, AuthShape, KeeperStep
  <2> QED
    BY <1>0, <2>0, <2>1, <2>2, ShotWatchEnds
<1>2. CASE Shots!RenewWrite
  BY <1>0, <1>2 DEF Shots!RenewWrite, Shots!goes, KeeperShape, AuthShape, KeeperStep
<1>3. CASE Shots!RenewVerify
  <2>0. issued' = issued /\ keeper.pc = "renewVerify"
    BY <1>3 DEF Shots!RenewVerify
  <2>1. \/ Shots!stopsFor("policy")
        \/ keeper' = [keeper EXCEPT !.pc = "board", !.lease = Shots!NoAuth, !.now = 0, !.retryAt = 0]
    BY <1>3 DEF Shots!RenewVerify
  <2>2. ASSUME keeper' = [keeper EXCEPT !.pc = "board", !.lease = Shots!NoAuth, !.now = 0, !.retryAt = 0]
        PROVE  KeeperStep
    <3>1. AuthShape(Shots!NoAuth)'
      BY <1>0, <2>0, ShotWatchEnds
    <3> QED
      BY <1>0, <2>0, <2>2, <3>1 DEF KeeperShape, KeeperStep
  <2> QED
    BY <1>0, <2>0, <2>1, <2>2, ShotWatchEnds
<1>4. ASSUME NEW b \in BOOLEAN, Shots!RenewFails(b) PROVE KeeperStep
  <2>0. issued' = issued /\ keeper.pc = "renew"
    BY <1>4 DEF Shots!RenewFails
  <2>1. \/ Shots!stopsFor("invariant")
        \/ keeper' = [keeper EXCEPT !.pc = "top", !.retryAt = clock + 1, !.lease = Shots!NoAuth, !.now = 0]
    BY <1>4 DEF Shots!RenewFails
  <2>2. ASSUME keeper' = [keeper EXCEPT !.pc = "top", !.retryAt = clock + 1, !.lease = Shots!NoAuth, !.now = 0]
        PROVE  KeeperStep
    <3>1. AuthShape(Shots!NoAuth)'
      BY <1>0, <2>0, ShotWatchEnds
    <3> QED
      BY <1>0, <2>0, <2>2, <3>1 DEF KeeperShape, KeeperStep
  <2> QED
    BY <1>0, <2>0, <2>1, <2>2, ShotWatchEnds
<1>5. ASSUME NEW out, Shots!ExecutionEnds(out) PROVE KeeperStep
  <2>0. issued' = issued /\ keeper.pc = "execute"
    BY <1>5 DEF Shots!ExecutionEnds
  <2>1. \/ Shots!stopsFor(out)
        \/ keeper' = [keeper EXCEPT !.pc = "top", !.seen = "none", !.misses = 0]
        \/ keeper' = [keeper EXCEPT !.pc = "top", !.seen = "none", !.misses = @ + 1]
    BY <1>5 DEF Shots!ExecutionEnds
  <2>2. ASSUME NEW misses, keeper' = [keeper EXCEPT !.pc = "top", !.seen = "none", !.misses = misses]
        PROVE  KeeperStep
    BY <1>0, <2>0, <2>2 DEF KeeperShape, AuthShape, KeeperStep, Shot
  <2>3. ASSUME Shots!stopsFor(out) PROVE KeeperStep
    BY <1>0, <2>0, <2>3, ShotWatchEnds
  <2> QED
    BY <2>1, <2>2, <2>3, Zenon
<1> QED
  BY <1>1, <1>2, <1>3, <1>4, <1>5

LEMMA ShotKeeper == ASSUME ShotTypes, Shots!LaneNext PROVE KeeperStep
<1>0. KeeperShape /\ AuthShape(auth) /\ issued \in Nat /\ keeper.seen \in Shot
  BY DEF ShotTypes
<1>1. ASSUME keeper' = keeper, issued' \in Nat, issued' >= issued PROVE KeeperStep
  BY <1>0, <1>1 DEF KeeperShape, AuthShape, KeeperStep
<1>2. CASE Shots!DisarmWrite
  <2>1. keeper' = [keeper EXCEPT !.stop = keeper.pc # "off"] /\ issued' = issued
    BY <1>2 DEF Shots!DisarmWrite
  <2> QED
    BY <1>0, <2>1 DEF KeeperShape, AuthShape, KeeperStep
<1>3. CASE Shots!LoseWatcher
  BY <1>0, <1>3, ShotWatchEnds DEF Shots!LoseWatcher
<1>4. ASSUME NEW i, NEW result, Shots!MineMutation(i, result) PROVE KeeperStep
  BY <1>0, <1>1, <1>4 DEF Shots!MineMutation
<1>5. ASSUME \/ Shots!Tick \/ Shots!ArmGeneric \/ Shots!DisarmMark \/ Shots!LockForWatch
             \/ Shots!PreflightGeneric \/ Shots!AuthorizeGeneric \/ Shots!PersistSigned
             \/ Shots!BroadcastSigned \/ Shots!BookSuccess \/ Shots!BookRevert \/ Shots!CloseMutation
             \/ Shots!CliEnds \/ Shots!ReconcileGeneric \/ Shots!ReconcileHalts \/ Shots!LoseCommand
             \/ \E kind \in {"deploy", "execute", "withdraw"} : Shots!LockForCli(kind)
             \/ \E reason \in {"miss", "transport", "invariant"} : Shots!GenericFails(reason)
      PROVE KeeperStep
  <2>1. keeper' = keeper /\ issued' \in {issued, issued + 1}
    BY <1>5 DEF Shots!Tick, Shots!ArmGeneric, Shots!DisarmMark, Shots!LockForWatch, Shots!PreflightGeneric,
      Shots!AuthorizeGeneric, Shots!PersistSigned, Shots!BroadcastSigned, Shots!BookSuccess, Shots!BookRevert,
      Shots!CloseMutation, Shots!CliEnds, Shots!ReconcileGeneric, Shots!ReconcileHalts, Shots!LoseCommand,
      Shots!LockForCli, Shots!GenericFails
  <2> QED
    BY <1>0, <1>1, <2>1
<1> QED
  BY <1>2, <1>3, <1>4, <1>5, ShotWatchTurns, ShotWatchRenews DEF Shots!LaneNext, Outcome

LEMMA ShotAuth == ASSUME ShotTypes, Shots!LaneNext PROVE AuthStep
<1>0. KeeperShape /\ AuthShape(auth) /\ DisarmShape /\ issued \in Nat
  BY DEF ShotTypes
<1>1. ASSUME UNCHANGED <<auth, issued, disarming>> PROVE AuthStep
  BY <1>0, <1>1 DEF AuthShape, DisarmShape, AuthStep
<1>2. CASE Shots!ArmGeneric
  <2>1. AuthShape(auth)' /\ auth'.id = issued + 1 /\ issued' = issued + 1 /\ UNCHANGED <<disarming, keeper>>
    BY <1>0, <1>2 DEF Shots!ArmGeneric, AuthShape
  <2>2. keeper.pc = "off"
    BY <1>2 DEF Shots!ArmGeneric
  <2> QED
    BY <1>0, <2>1, <2>2 DEF AuthShape, DisarmShape, AuthStep
<1>3. CASE Shots!DisarmWrite
  <2>1. /\ auth' = [disarming.auth EXCEPT !.armed = FALSE] /\ issued' = issued /\ disarming' = Shots!NoDisarm
        /\ disarming.pc = "marked"
    BY <1>3 DEF Shots!DisarmWrite
  <2>2. AuthShape(auth)' /\ auth'.id = disarming.auth.id /\ ~auth'.armed
    BY <1>0, <2>1 DEF DisarmShape, AuthShape
  <2>3. DisarmShape' /\ disarming'.pc = "none"
    BY <1>0, <2>1, ShotWatchEnds DEF Shots!NoDisarm, DisarmShape
  <2> QED
    BY <1>0, <2>1, <2>2, <2>3 DEF AuthStep
<1>4. CASE Shots!DisarmMark
  <2>1. UNCHANGED <<auth, issued>> /\ disarming' = [pc |-> "marked", auth |-> auth] /\ auth.id # 0
    BY <1>4 DEF Shots!DisarmMark
  <2> QED
    BY <1>0, <2>1 DEF AuthShape, DisarmShape, AuthStep
<1>5. CASE Shots!LoseCommand
  <2>1. UNCHANGED <<auth, issued>> /\ (disarming' = disarming \/ disarming' = Shots!NoDisarm)
    BY <1>5 DEF Shots!LoseCommand
  <2>2. ASSUME disarming' = Shots!NoDisarm PROVE DisarmShape' /\ disarming'.pc = "none"
    BY <1>0, <2>1, <2>2, ShotWatchEnds DEF Shots!NoDisarm, DisarmShape
  <2> QED
    BY <1>0, <2>1, <2>2 DEF AuthShape, DisarmShape, AuthStep
<1>6. CASE Shots!RenewWrite
  <2>1. /\ auth' = Shots!renewed(keeper.lease) /\ issued' = issued /\ disarming' = disarming
        /\ keeper.pc = "renewWrite" /\ keeper' = [keeper EXCEPT !.pc = "renewVerify"]
    BY <1>6 DEF Shots!RenewWrite, Shots!goes
  <2>2. AuthShape(auth)' /\ auth'.id = keeper.lease.id /\ keeper'.pc = "renewVerify"
    BY <1>0, <2>1 DEF KeeperShape, AuthShape, Shots!renewed
  <2> QED
    BY <1>0, <2>1, <2>2 DEF AuthStep, DisarmShape, AuthShape
<1>7. CASE Shots!RenewVerify
  <2>1. /\ auth' = auth \/ auth' = [auth EXCEPT !.armed = FALSE]
        /\ issued' = issued /\ disarming' = disarming
    BY <1>7 DEF Shots!RenewVerify
  <2>2. AuthShape(auth)' /\ auth'.id = auth.id /\ (auth'.armed => auth.armed)
    BY <1>0, <2>1 DEF AuthShape
  <2> QED
    BY <1>0, <2>1, <2>2 DEF AuthStep, DisarmShape, AuthShape
<1> QED
  BY <1>1, <1>2, <1>3, <1>4, <1>5, <1>6, <1>7, ShotMoves

(* The chain's count of what was mined is a number, and grows by one. *)
LEMMA ShotMined ==
  ASSUME ShotTypes
  PROVE  /\ Cardinality(Shots!Mined) \in Nat
         /\ IsFiniteSet(1 .. ShotMuts)
         /\ \A S \in SUBSET (1 .. ShotMuts) : IsFiniteSet(S) /\ Cardinality(S) \in Nat
<1>1. IsFiniteSet(1 .. ShotMuts)
  BY ProgramsAssumption, FS_Interval
<1>2. \A S \in SUBSET (1 .. ShotMuts) : IsFiniteSet(S) /\ Cardinality(S) \in Nat
  BY <1>1, FS_Subset, FS_CardinalityType
<1>3. Shots!Mined \in SUBSET (1 .. ShotMuts)
  BY DEF Shots!Mined, Shots!Muts
<1> QED
  BY <1>1, <1>2, <1>3

LEMMA ShotCardinality == \A S : Shots!Cardinality(S) = Cardinality(S)
  BY DEF Shots!Cardinality, Cardinality

LEMMA ShotSigner == ASSUME ShotTypes, Serving, Shots!LaneNext PROVE SignerStep
<1>0. /\ signer \in SignerRecord /\ KeeperShape /\ AuthShape(auth) /\ issued \in Nat /\ keeper.seen \in Shot
      /\ muts \in [1 .. ShotMuts -> MutRecord] /\ count \in 0 .. ShotMuts /\ ProgramsAssumption
  BY ProgramsAssumption DEF ShotTypes
<1>a. KeeperShape' /\ keeper'.seen \in Shot
  BY ShotKeeper DEF KeeperStep
<1>b. Shots!NoSigner \in SignerRecord
  BY DEF Shots!NoSigner, SignerRecord, Shot, Kind, Progress
<1>1. ASSUME signer' = Shots!NoSigner, keeper'.pc # "execute" \/ signer.by # "watch" PROVE SignerStep
  BY <1>b, <1>1 DEF Shots!NoSigner, SignerStep, Serving, Unsigned
<1>2. ASSUME signer' = signer, keeper'.pc = keeper.pc, keeper'.seen = keeper.seen PROVE SignerStep
  BY <1>0, <1>2 DEF SignerStep, Serving, Unsigned
<1>3. ASSUME NEW p \in Progress \ {"idle"}, signer' = [signer EXCEPT !.pc = p], keeper' = keeper,
             p \in {"locked", "ready", "signing"} => signer.pc \in {"locked", "ready", "signing"}
      PROVE  SignerStep
  <2>1. /\ signer' \in SignerRecord /\ signer'.pc = p /\ signer'.by = signer.by /\ signer'.shot = signer.shot
        /\ signer'.auth = signer.auth
    BY <1>0, <1>3 DEF SignerRecord
  <2> QED
    BY <1>3, <2>1 DEF SignerStep, Serving, Unsigned
<1>4. ASSUME signer' = signer, signer.by # "watch" PROVE SignerStep
  BY <1>0, <1>4 DEF SignerStep, Serving, Unsigned
<1>5. CASE Shots!WatchStart \/ Shots!WatchTop \/ Shots!RenewCheck \/ Shots!RenewWrite \/ Shots!RenewVerify
           \/ Shots!BoardIdle \/ (\E b \in BOOLEAN : Shots!RenewFails(b))
           \/ (\E o \in ShotOpportunity : Shots!BoardCandidate(o))
  <2>1. signer' = signer /\ muts' = muts /\ keeper.pc # "execute"
    BY <1>5 DEF Shots!WatchStart, Shots!WatchTop, Shots!RenewCheck, Shots!RenewWrite, Shots!RenewVerify,
      Shots!BoardIdle, Shots!RenewFails, Shots!BoardCandidate
  <2> QED
    BY <1>4, <2>1 DEF Serving
<1>6. CASE Shots!Tick \/ Shots!ArmGeneric \/ Shots!DisarmMark
  BY <1>2, <1>6 DEF Shots!Tick, Shots!ArmGeneric, Shots!DisarmMark
<1>7. CASE Shots!DisarmWrite
  <2>1. keeper'.pc = keeper.pc /\ keeper'.seen = keeper.seen /\ signer' = signer /\ muts' = muts
    BY <1>0, <1>7 DEF Shots!DisarmWrite, KeeperShape
  <2> QED
    BY <1>2, <2>1
<1>8. ASSUME NEW i, NEW result, Shots!MineMutation(i, result) PROVE SignerStep
  BY <1>2, <1>8 DEF Shots!MineMutation
<1>9. ASSUME NEW out \in Outcome, Shots!ExecutionEnds(out) PROVE SignerStep
  <2>1. signer' = Shots!NoSigner /\ issued' = issued
    BY <1>9 DEF Shots!ExecutionEnds
  <2>2. \/ Shots!stopsFor(out)
        \/ \E misses : keeper' = [keeper EXCEPT !.pc = "top", !.seen = "none", !.misses = misses]
    BY <1>9 DEF Shots!ExecutionEnds
  <2>3. ASSUME Shots!stopsFor(out) PROVE keeper'.pc # "execute"
    BY <2>3 DEF Shots!stopsFor, Shots!ends, Shots!NoKeeper
  <2>4. ASSUME NEW misses, keeper' = [keeper EXCEPT !.pc = "top", !.seen = "none", !.misses = misses]
        PROVE  keeper'.pc # "execute"
    BY <1>0, <2>4 DEF KeeperShape
  <2>5. keeper'.pc # "execute"
    BY <2>2, <2>3, <2>4, Zenon
  <2> QED
    BY <1>1, <2>1, <2>5
<1>10. CASE Shots!LockForWatch
  <2>0. /\ signer' = [Shots!NoSigner EXCEPT !.pc = "locked", !.by = "watch", !.kind = "execute", !.auth = auth.id,
                                            !.shot = keeper.seen]
        /\ keeper.pc = "execute" /\ keeper' = keeper /\ signer.pc = "idle"
    BY <1>10 DEF Shots!LockForWatch
  <2>a. auth.id \in Nat
    BY <1>0 DEF AuthShape
  <2>1. signer' \in SignerRecord /\ signer'.by = "watch" /\ signer'.shot = keeper.seen /\ signer'.pc = "locked"
    BY <1>0, <2>0, <2>a DEF Shots!NoSigner, SignerRecord, Kind, Progress
  <2> QED
    BY <2>0, <2>1 DEF SignerStep, Serving, Unsigned
<1>11. ASSUME NEW kind \in {"deploy", "execute", "withdraw"}, Shots!LockForCli(kind) PROVE SignerStep
  <2>0. signer' = [Shots!NoSigner EXCEPT !.pc = "locked", !.by = "cli", !.kind = kind] /\ signer.pc = "idle"
    BY <1>11 DEF Shots!LockForCli
  <2>1. signer' \in SignerRecord /\ signer'.by = "cli" /\ signer'.auth = 0 /\ signer'.pc = "locked"
    BY <2>0 DEF Shots!NoSigner, SignerRecord, Shot, Kind, Progress
  <2> QED
    BY <2>0, <2>1 DEF SignerStep, Serving, Unsigned
<1>12. CASE Shots!PreflightGeneric
  <2>0. keeper' = keeper /\ signer.pc = "locked"
    BY <1>12 DEF Shots!PreflightGeneric
  <2>1. \/ \E p \in {"invariant", "policy", "nonce"} : signer' = [signer EXCEPT !.pc = p]
        \/ signer' = [signer EXCEPT !.pc = "ready", !.nonce = Shots!Cardinality(Shots!Mined)]
    BY <1>12 DEF Shots!PreflightGeneric, Shots!fails, Shots!refusal, Shots!refusedBy
  <2>2. ASSUME signer' = [signer EXCEPT !.pc = "ready", !.nonce = Shots!Cardinality(Shots!Mined)] PROVE SignerStep
    <3>1. Shots!Cardinality(Shots!Mined) \in Nat
      BY ShotMined, ShotCardinality
    <3>2. /\ signer' \in SignerRecord /\ signer'.pc = "ready" /\ signer'.by = signer.by
          /\ signer'.shot = signer.shot /\ signer'.auth = signer.auth
      BY <1>0, <2>2, <3>1 DEF SignerRecord, Progress
    <3> QED
      BY <2>0, <3>2 DEF SignerStep, Serving, Unsigned
  <2>3. ASSUME NEW p \in {"invariant", "policy", "nonce"}, signer' = [signer EXCEPT !.pc = p] PROVE SignerStep
    BY <1>3, <2>0, <2>3 DEF Progress, Outcome
  <2> QED
    BY <2>1, <2>2, <2>3
<1>13. CASE Shots!AuthorizeGeneric
  <2>0. keeper' = keeper /\ signer.pc = "ready"
    BY <1>13 DEF Shots!AuthorizeGeneric
  <2>1. \E p \in {"signing", "invariant", "policy"} : signer' = [signer EXCEPT !.pc = p]
    BY <1>13 DEF Shots!AuthorizeGeneric, Shots!fails, Shots!refusal, Shots!refusedBy
  <2> QED
    BY <1>3, <2>0, <2>1 DEF Progress, Outcome
<1>14. CASE Shots!PersistSigned
  <2>0. keeper' = keeper /\ signer.pc = "signing"
    BY <1>14 DEF Shots!PersistSigned
  <2>1. \/ \E p \in {"invariant", "policy"} : signer' = [signer EXCEPT !.pc = p]
        \/ signer' = [signer EXCEPT !.pc = "signed", !.mut = count + 1]
    BY <1>14 DEF Shots!PersistSigned, Shots!fails, Shots!refusal, Shots!refusedBy
  <2>2. ASSUME signer' = [signer EXCEPT !.pc = "signed", !.mut = count + 1] PROVE SignerStep
    <3>1. count + 1 \in Nat
      BY <1>0
    <3>2. /\ signer' \in SignerRecord /\ signer'.pc = "signed" /\ signer'.by = signer.by
          /\ signer'.shot = signer.shot /\ signer'.auth = signer.auth
      BY <1>0, <2>2, <3>1 DEF SignerRecord, Progress
    <3> QED
      BY <2>0, <3>2 DEF SignerStep, Serving, Unsigned
  <2>3. ASSUME NEW p \in {"invariant", "policy"}, signer' = [signer EXCEPT !.pc = p] PROVE SignerStep
    BY <1>3, <2>0, <2>3 DEF Progress, Outcome
  <2> QED
    BY <2>1, <2>2, <2>3
<1>15. CASE Shots!BroadcastSigned
  <2>1. /\ keeper' = keeper
        /\ \E p \in {"sent", "invariant", "policy"} : signer' = [signer EXCEPT !.pc = p]
    BY <1>15 DEF Shots!BroadcastSigned, Shots!fails, Shots!refusal, Shots!refusedBy
  <2> QED
    BY <1>3, <2>1 DEF Progress, Outcome
<1>16. ASSUME NEW reason \in {"miss", "transport", "invariant"}, Shots!GenericFails(reason) PROVE SignerStep
  BY <1>3, <1>16 DEF Shots!GenericFails, Shots!fails, Progress, Outcome
<1>17. CASE Shots!BookSuccess \/ Shots!BookRevert \/ Shots!CloseMutation \/ Shots!ReconcileHalts
  <2>1. /\ keeper' = keeper
        /\ \E p \in {"booked", "invariant", "halted", "done"} : signer' = [signer EXCEPT !.pc = p]
    BY <1>17 DEF Shots!BookSuccess, Shots!BookRevert, Shots!CloseMutation, Shots!ReconcileHalts, Shots!fails
  <2> QED
    BY <1>3, <2>1 DEF Progress, Outcome
<1>18. CASE Shots!CliEnds
  BY <1>1, <1>18 DEF Shots!CliEnds
<1>19. CASE Shots!ReconcileGeneric
  <2>1. keeper' = keeper /\ keeper.pc = "off" /\ signer.pc = "idle"
    BY <1>19 DEF Shots!ReconcileGeneric
  <2>2. \/ signer' = signer
        \/ signer' = [Shots!NoSigner EXCEPT !.pc = "halting", !.by = "cli"]
        \/ \E i \in 1 .. ShotMuts : signer' = [Shots!NoSigner EXCEPT !.pc = "booked", !.by = "cli", !.mut = i]
    BY <1>19 DEF Shots!ReconcileGeneric, Shots!Unresolved, Shots!Muts
  <2>3. ASSUME NEW i \in 1 .. ShotMuts, signer' = [Shots!NoSigner EXCEPT !.pc = "booked", !.by = "cli", !.mut = i]
        PROVE  SignerStep
    <3>0. i \in Nat
      BY <1>0, <2>3 DEF ProgramsAssumption
    <3>1. signer' \in SignerRecord /\ signer'.by = "cli" /\ signer'.auth = 0 /\ signer'.pc = "booked"
      BY <2>3, <3>0 DEF Shots!NoSigner, SignerRecord, Shot, Kind, Progress
    <3> QED
      BY <2>1, <3>1 DEF SignerStep, Serving, Unsigned
  <2>4. ASSUME signer' = [Shots!NoSigner EXCEPT !.pc = "halting", !.by = "cli"] PROVE SignerStep
    <3>1. signer' \in SignerRecord /\ signer'.by = "cli" /\ signer'.auth = 0 /\ signer'.pc = "halting"
      BY <2>4 DEF Shots!NoSigner, SignerRecord, Shot, Kind, Progress
    <3> QED
      BY <2>1, <3>1 DEF SignerStep, Serving, Unsigned
  <2> QED
    BY <1>2, <2>1, <2>2, <2>3, <2>4
<1>20. CASE Shots!LoseWatcher
  <2>1. keeper'.pc = "off" /\ (signer.by = "watch" => signer' = Shots!NoSigner) /\ (signer.by # "watch" => signer' = signer)
    BY <1>20 DEF Shots!LoseWatcher, Shots!NoKeeper
  <2> QED
    BY <1>1, <1>4, <2>1
<1>21. CASE Shots!LoseCommand
  BY <1>1, <1>2, <1>21 DEF Shots!LoseCommand
<1> QED
  BY <1>5, <1>6, <1>7, <1>8, <1>9, <1>10, <1>11, <1>12, <1>13, <1>14, <1>15, <1>16, <1>17, <1>18, <1>19, <1>20, <1>21
  DEF Shots!LaneNext, Outcome

LEMMA FateRecord ==
  ASSUME NEW r \in MutRecord, NEW a \in Audits, NEW s \in BOOLEAN, NEW c \in {"none", "success", "reverted"}
  PROVE  /\ Fate(r, a, s, c) \in MutRecord
         /\ Fate(r, a, s, c).audit = a /\ Fate(r, a, s, c).sent = s /\ Fate(r, a, s, c).chain = c
         /\ Fate(r, a, s, c).auth = r.auth /\ Fate(r, a, s, c).shot = r.shot
         /\ Fate(r, a, s, c).nonce = r.nonce /\ Fate(r, a, s, c).kind = r.kind
  BY DEF MutRecord, Fate, Audits

LEMMA RewrittenMuts ==
  ASSUME ShotTypes, NEW i \in 1 .. ShotMuts, NEW a \in Audits, NEW s \in BOOLEAN,
         NEW c \in {"none", "success", "reverted"}, Rewritten(i, a, s, c)
  PROVE  /\ muts' \in [1 .. ShotMuts -> MutRecord]
         /\ \A k \in 1 .. ShotMuts : k # i => muts'[k] = muts[k]
         /\ muts'[i].audit = a /\ muts'[i].sent = s /\ muts'[i].chain = c
         /\ muts'[i].auth = muts[i].auth /\ muts'[i].shot = muts[i].shot
         /\ muts'[i].nonce = muts[i].nonce /\ muts'[i].kind = muts[i].kind
<1>1. muts \in [1 .. ShotMuts -> MutRecord] /\ Fate(muts[i], a, s, c) \in MutRecord
  BY FateRecord DEF ShotTypes
<1>2. muts' = [muts EXCEPT ![i] = Fate(muts[i], a, s, c)]
  BY DEF Rewritten
<1>3. muts' \in [1 .. ShotMuts -> MutRecord] /\ muts'[i] = Fate(muts[i], a, s, c)
      /\ \A k \in 1 .. ShotMuts : k # i => muts'[k] = muts[k]
  BY <1>1, <1>2
<1>4. /\ Fate(muts[i], a, s, c).audit = a /\ Fate(muts[i], a, s, c).sent = s /\ Fate(muts[i], a, s, c).chain = c
      /\ Fate(muts[i], a, s, c).auth = muts[i].auth /\ Fate(muts[i], a, s, c).shot = muts[i].shot
      /\ Fate(muts[i], a, s, c).nonce = muts[i].nonce /\ Fate(muts[i], a, s, c).kind = muts[i].kind
  BY <1>1, FateRecord
<1> QED
  BY <1>3, <1>4

(* Each action that touches a mutation already signed, as a rewriting of one. *)
LEMMA ShotRewrites ==
  ASSUME ShotTypes
  PROVE  /\ \A i \in 1 .. ShotMuts, c \in {"success", "reverted"} :
              Shots!MineMutation(i, c) => Rewritten(i, muts[i].audit, muts[i].sent, c)
         /\ Shots!BroadcastSigned =>
              muts' = muts \/ \E s \in BOOLEAN :
                signer.mut \in 1 .. ShotMuts /\ Rewritten(signer.mut, muts[signer.mut].audit, s, muts[signer.mut].chain)
         /\ Shots!CloseMutation =>
              muts' = muts \/ \E a \in {"effect", "reverted"} :
                /\ signer.mut \in 1 .. ShotMuts /\ a = (IF signer.pc = "booked" THEN "effect" ELSE "reverted")
                /\ Rewritten(signer.mut, a, muts[signer.mut].sent, muts[signer.mut].chain)
         /\ Shots!ReconcileGeneric => \E i \in 1 .. ShotMuts :
              /\ muts[i].audit = "signed"
              /\ \/ muts' = muts /\ muts[i].chain = "success" /\ signer'.mut = i /\ signer'.pc = "booked"
                    /\ book' = Shots!booked(muts[i].kind, i)
                 \/ muts[i].chain = "reverted" /\ Rewritten(i, "reverted", muts[i].sent, muts[i].chain)
                    /\ signer'.pc = "halting" /\ book' = book
                 \/ ~muts[i].sent /\ Rewritten(i, "signed", TRUE, muts[i].chain) /\ UNCHANGED <<signer, book>>
                 \/ ~muts[i].sent /\ Rewritten(i, "abandoned", FALSE, muts[i].chain) /\ UNCHANGED <<signer, book>>
<1>0. muts \in [1 .. ShotMuts -> MutRecord]
  BY DEF ShotTypes
<1>a. \A i \in 1 .. ShotMuts : muts[i].audit \in Audits /\ muts[i].sent \in BOOLEAN
                               /\ muts[i].chain \in {"none", "success", "reverted"}
  BY <1>0 DEF MutRecord, Audits
<1>1. ASSUME NEW i \in 1 .. ShotMuts, NEW c \in {"success", "reverted"}, Shots!MineMutation(i, c)
      PROVE  Rewritten(i, muts[i].audit, muts[i].sent, c)
  <2>1. muts' = [muts EXCEPT ![i] = [muts[i] EXCEPT !.chain = c]]
    BY <1>0, <1>1 DEF Shots!MineMutation
  <2>2. [muts[i] EXCEPT !.chain = c] = Fate(muts[i], muts[i].audit, muts[i].sent, c)
    <3>1. muts[i] \in MutRecord
      BY <1>0
    <3> QED
      BY <3>1 DEF MutRecord, Fate
  <2> QED
    BY <2>1, <2>2 DEF Rewritten
<1>2. ASSUME Shots!BroadcastSigned, muts' # muts
      PROVE  \E s \in BOOLEAN : signer.mut \in 1 .. ShotMuts
                /\ Rewritten(signer.mut, muts[signer.mut].audit, s, muts[signer.mut].chain)
  <2>1. PICK s \in BOOLEAN : muts' = [muts EXCEPT ![signer.mut].sent = s]
    BY <1>2 DEF Shots!BroadcastSigned
  <2>2. signer.mut \in 1 .. ShotMuts
    BY <1>0, <1>2, <2>1
  <2>3. muts' = [muts EXCEPT ![signer.mut] = [muts[signer.mut] EXCEPT !.sent = s]]
    BY <1>0, <2>1, <2>2
  <2>4. [muts[signer.mut] EXCEPT !.sent = s] = Fate(muts[signer.mut], muts[signer.mut].audit, s, muts[signer.mut].chain)
    <3>1. muts[signer.mut] \in MutRecord
      BY <1>0, <2>2
    <3> QED
      BY <3>1 DEF MutRecord, Fate
  <2> QED
    BY <2>2, <2>3, <2>4 DEF Rewritten
<1>3. ASSUME Shots!CloseMutation, muts' # muts
      PROVE  \E a \in {"effect", "reverted"} :
                /\ signer.mut \in 1 .. ShotMuts /\ a = (IF signer.pc = "booked" THEN "effect" ELSE "reverted")
                /\ Rewritten(signer.mut, a, muts[signer.mut].sent, muts[signer.mut].chain)
  <2>1. PICK a \in {"effect", "reverted"} :
          /\ a = (IF signer.pc = "booked" THEN "effect" ELSE "reverted")
          /\ muts' = [muts EXCEPT ![signer.mut].audit = a]
    BY <1>3 DEF Shots!CloseMutation
  <2>2. signer.mut \in 1 .. ShotMuts
    BY <1>0, <1>3, <2>1
  <2>3. muts' = [muts EXCEPT ![signer.mut] = [muts[signer.mut] EXCEPT !.audit = a]]
    BY <1>0, <2>1, <2>2
  <2>4. [muts[signer.mut] EXCEPT !.audit = a] = Fate(muts[signer.mut], a, muts[signer.mut].sent, muts[signer.mut].chain)
    <3>1. muts[signer.mut] \in MutRecord /\ a \in Audits
      BY <1>0, <2>2 DEF Audits
    <3> QED
      BY <3>1 DEF MutRecord, Fate
  <2> QED
    BY <2>1, <2>2, <2>3, <2>4 DEF Rewritten
<1>4. ASSUME Shots!ReconcileGeneric
      PROVE \E i \in 1 .. ShotMuts :
              /\ muts[i].audit = "signed"
              /\ \/ muts' = muts /\ muts[i].chain = "success" /\ signer'.mut = i /\ signer'.pc = "booked"
                    /\ book' = Shots!booked(muts[i].kind, i)
                 \/ muts[i].chain = "reverted" /\ Rewritten(i, "reverted", muts[i].sent, muts[i].chain)
                    /\ signer'.pc = "halting" /\ book' = book
                 \/ ~muts[i].sent /\ Rewritten(i, "signed", TRUE, muts[i].chain) /\ UNCHANGED <<signer, book>>
                 \/ ~muts[i].sent /\ Rewritten(i, "abandoned", FALSE, muts[i].chain) /\ UNCHANGED <<signer, book>>
  <2>1. PICK i \in 1 .. ShotMuts :
          /\ muts[i].audit = "signed"
          /\ \/ muts' = muts /\ muts[i].chain = "success" /\ book' = Shots!booked(muts[i].kind, i)
                /\ signer' = [Shots!NoSigner EXCEPT !.pc = "booked", !.by = "cli", !.mut = i]
             \/ muts[i].chain = "reverted" /\ muts' = [muts EXCEPT ![i].audit = "reverted"]
                /\ signer' = [Shots!NoSigner EXCEPT !.pc = "halting", !.by = "cli"] /\ book' = book
             \/ ~muts[i].sent /\ muts' = [muts EXCEPT ![i].sent = TRUE, ![i].audit = "signed"]
                /\ UNCHANGED <<signer, book>>
             \/ ~muts[i].sent /\ muts' = [muts EXCEPT ![i].sent = FALSE, ![i].audit = "abandoned"]
                /\ UNCHANGED <<signer, book>>
    BY <1>4 DEF Shots!ReconcileGeneric, Shots!Unresolved, Shots!Muts
  <2>2. /\ muts' = [muts EXCEPT ![i].audit = "reverted"] =>
             muts' = [muts EXCEPT ![i] = [muts[i] EXCEPT !.audit = "reverted"]]
        /\ muts' = [muts EXCEPT ![i].sent = TRUE, ![i].audit = "signed"] =>
             muts' = [muts EXCEPT ![i] = [muts[i] EXCEPT !.sent = TRUE, !.audit = "signed"]]
        /\ muts' = [muts EXCEPT ![i].sent = FALSE, ![i].audit = "abandoned"] =>
             muts' = [muts EXCEPT ![i] = [muts[i] EXCEPT !.sent = FALSE, !.audit = "abandoned"]]
    BY <1>0
  <2>3. /\ muts' = [muts EXCEPT ![i].audit = "reverted"] => Rewritten(i, "reverted", muts[i].sent, muts[i].chain)
        /\ muts' = [muts EXCEPT ![i].sent = TRUE, ![i].audit = "signed"] => Rewritten(i, "signed", TRUE, muts[i].chain)
        /\ muts' = [muts EXCEPT ![i].sent = FALSE, ![i].audit = "abandoned"] =>
             Rewritten(i, "abandoned", FALSE, muts[i].chain)
    <3>1. muts[i] \in MutRecord /\ "reverted" \in Audits /\ "signed" \in Audits /\ "abandoned" \in Audits
      BY <1>0 DEF Audits
    <3>2. /\ [muts[i] EXCEPT !.audit = "reverted"] = Fate(muts[i], "reverted", muts[i].sent, muts[i].chain)
          /\ [muts[i] EXCEPT !.sent = TRUE, !.audit = "signed"] = Fate(muts[i], "signed", TRUE, muts[i].chain)
          /\ [muts[i] EXCEPT !.sent = FALSE, !.audit = "abandoned"] = Fate(muts[i], "abandoned", FALSE, muts[i].chain)
      BY <3>1, <1>a DEF MutRecord, Fate
    <3> QED
      BY <2>2, <3>2 DEF Rewritten
  <2>4. /\ signer' = [Shots!NoSigner EXCEPT !.pc = "booked", !.by = "cli", !.mut = i] =>
             signer'.mut = i /\ signer'.pc = "booked"
        /\ signer' = [Shots!NoSigner EXCEPT !.pc = "halting", !.by = "cli"] => signer'.pc = "halting"
    BY DEF Shots!NoSigner
  <2> QED
    BY <2>1, <2>3, <2>4
<1> QED
  BY <1>1, <1>2, <1>3, <1>4

LEMMA ShotSigns ==
  ASSUME ShotTypes, Shots!PersistSigned
  PROVE  \/ muts' = muts /\ count' = count /\ \E p \in {"invariant", "policy"} : signer' = [signer EXCEPT !.pc = p]
         \/ Signs /\ muts' \in [1 .. ShotMuts -> MutRecord]
<1>0. /\ signer \in SignerRecord /\ muts \in [1 .. ShotMuts -> MutRecord] /\ count \in 0 .. ShotMuts
      /\ ShotMuts \in Nat
  BY ProgramsAssumption DEF ShotTypes, ProgramsAssumption
<1>1. \/ muts' = muts /\ count' = count /\ \E p \in {"invariant", "policy"} : signer' = [signer EXCEPT !.pc = p]
      \/ /\ count < ShotMuts /\ count' = count + 1 /\ UNCHANGED <<auth, keeper, tried, book>> /\ signer.pc = "signing"
         /\ muts' = [muts EXCEPT ![count + 1] =
              [Shots!NoMut EXCEPT !.audit = "signed", !.kind = signer.kind, !.nonce = signer.nonce,
                                  !.auth = signer.auth, !.shot = signer.shot]]
         /\ signer' = [signer EXCEPT !.pc = "signed", !.mut = count + 1]
         /\ Shots!stillAuthorized({})
  BY DEF Shots!PersistSigned, Shots!fails, Shots!refusal, Shots!refusedBy
<1>2. ASSUME count < ShotMuts, count' = count + 1, UNCHANGED <<auth, keeper, tried, book>>, signer.pc = "signing",
             muts' = [muts EXCEPT ![count + 1] =
              [Shots!NoMut EXCEPT !.audit = "signed", !.kind = signer.kind, !.nonce = signer.nonce,
                                  !.auth = signer.auth, !.shot = signer.shot]],
             signer' = [signer EXCEPT !.pc = "signed", !.mut = count + 1], Shots!stillAuthorized({})
      PROVE  Signs /\ muts' \in [1 .. ShotMuts -> MutRecord]
  <2>1. [Shots!NoMut EXCEPT !.audit = "signed", !.kind = signer.kind, !.nonce = signer.nonce,
                            !.auth = signer.auth, !.shot = signer.shot] \in MutRecord
    BY <1>0 DEF Shots!NoMut, MutRecord, SignerRecord
  <2>2. count + 1 \in 1 .. ShotMuts
    BY <1>0, <1>2
  <2>3. signer'.pc = "signed" /\ signer'.by = signer.by /\ signer'.mut = count + 1
    BY <1>0, <1>2 DEF SignerRecord
  <2>4. signer.auth # 0 => /\ auth.id = signer.auth /\ auth.armed
                           /\ Cardinality(Shots!signedUnder(auth.id)) < ShotBudget
    <3>1. Shots!signedUnder(auth.id) \ {} = Shots!signedUnder(auth.id)
      OBVIOUS
    <3> QED
      BY <1>2, <3>1, ShotCardinality DEF Shots!stillAuthorized, Shots!assertWatchArm, Shots!withinPolicy
  <2>5. Signs
    BY <1>0, <1>2, <2>2, <2>3, <2>4 DEF Signs
  <2> QED
    BY <1>0, <1>2, <2>1, <2>2, <2>5
<1> QED
  BY <1>1, <1>2

LEMMA ShotMuts1 ==
  ASSUME ShotTypes, Shots!LaneNext
  PROVE  /\ muts' \in [1 .. ShotMuts -> MutRecord] /\ count' \in 0 .. ShotMuts
         /\ Signs \/ (count' = count /\ \A i \in 1 .. ShotMuts : Kept(i))
<1>0. muts \in [1 .. ShotMuts -> MutRecord] /\ count \in 0 .. ShotMuts /\ ShotMuts \in Nat
  BY ProgramsAssumption DEF ShotTypes, ProgramsAssumption
<1>a. \A i \in 1 .. ShotMuts : muts[i].audit \in Audits /\ muts[i].sent \in BOOLEAN
                               /\ muts[i].chain \in {"none", "success", "reverted"}
  BY <1>0 DEF MutRecord, Audits
<1> DEFINE Fine == /\ muts' \in [1 .. ShotMuts -> MutRecord] /\ count' \in 0 .. ShotMuts
                   /\ Signs \/ (count' = count /\ \A i \in 1 .. ShotMuts : Kept(i))
<1>1. ASSUME UNCHANGED <<muts, count>> PROVE Fine
  BY <1>0, <1>1 DEF Kept
<1>2. ASSUME NEW i \in 1 .. ShotMuts, NEW a \in Audits, NEW s \in BOOLEAN, NEW c \in {"none", "success", "reverted"},
             Rewritten(i, a, s, c), count' = count, muts[i].audit # "none" => a # "none"
      PROVE  Fine
  <2>1. \A k \in 1 .. ShotMuts : Kept(k)
    BY <1>2, RewrittenMuts DEF Kept
  <2> QED
    BY <1>0, <1>2, <2>1, RewrittenMuts
<1>3. ASSUME NEW i \in Shots!Muts, NEW c \in {"success", "reverted"}, Shots!MineMutation(i, c) PROVE Fine
  <2>1. i \in 1 .. ShotMuts /\ count' = count /\ Rewritten(i, muts[i].audit, muts[i].sent, c)
    BY <1>3, ShotRewrites DEF Shots!Muts, Shots!MineMutation
  <2> QED
    BY <1>2, <1>a, <2>1
<1>4. CASE Shots!PersistSigned
  BY <1>0, <1>1, <1>4, ShotSigns DEF Signs
<1>5. CASE Shots!BroadcastSigned
  <2>1. count' = count
    BY <1>5 DEF Shots!BroadcastSigned
  <2> QED
    BY <1>1, <1>2, <1>5, <1>a, <2>1, ShotRewrites
<1>6. CASE Shots!CloseMutation
  <2>1. count' = count
    BY <1>6 DEF Shots!CloseMutation
  <2> QED
    BY <1>1, <1>2, <1>6, <1>a, <2>1, ShotRewrites DEF Audits
<1>7. CASE Shots!ReconcileGeneric
  <2>1. count' = count
    BY <1>7 DEF Shots!ReconcileGeneric
  <2>2. PICK i \in 1 .. ShotMuts :
          \/ muts' = muts
          \/ Rewritten(i, "reverted", muts[i].sent, muts[i].chain)
          \/ Rewritten(i, "signed", TRUE, muts[i].chain)
          \/ Rewritten(i, "abandoned", FALSE, muts[i].chain)
    BY <1>7, ShotRewrites
  <2>3. muts[i].chain \in {"none", "success", "reverted"} /\ muts[i].sent \in BOOLEAN
        /\ {"reverted", "signed", "abandoned"} \subseteq Audits
    BY <1>a DEF Audits
  <2>4. ASSUME Rewritten(i, "reverted", muts[i].sent, muts[i].chain) PROVE Fine
    BY <1>2, <2>1, <2>3, <2>4
  <2>5. ASSUME Rewritten(i, "signed", TRUE, muts[i].chain) PROVE Fine
    BY <1>2, <2>1, <2>3, <2>5
  <2>6. ASSUME Rewritten(i, "abandoned", FALSE, muts[i].chain) PROVE Fine
    BY <1>2, <2>1, <2>3, <2>6
  <2> QED
    BY <1>1, <2>1, <2>2, <2>4, <2>5, <2>6
<1> QED
  BY <1>1, <1>3, <1>4, <1>5, <1>6, <1>7, ShotMoves

LEMMA ShotInvInit == ASSUME Init, part = "shots" PROVE ShotInv
<1>0. ShotTypes
  BY ShotTypesInit
<1>1. /\ keeper = Shots!NoKeeper /\ signer = Shots!NoSigner /\ auth = Shots!NoAuth /\ disarming = Shots!NoDisarm
      /\ muts = [i \in 1 .. ShotMuts |-> Shots!NoMut]
  BY DEF Init, Shots!LaneInit, Shots!Muts
<1>2. keeper.pc = "off" /\ signer.by = "none" /\ signer.auth = 0 /\ auth.armed = FALSE /\ disarming.pc = "none"
  BY <1>1 DEF Shots!NoKeeper, Shots!NoSigner, Shots!NoAuth, Shots!NoDisarm
<1>3. \A i \in 1 .. ShotMuts : muts[i].auth = 0
  BY <1>1 DEF Shots!NoMut
<1>4. \A a \in Nat \ {0} : Shots!signedUnder(a) = {}
  BY <1>3 DEF Shots!signedUnder, Shots!Muts
<1>5. Once
  BY SMTT(30), <1>3, <1>4, FS_EmptySet, ProgramsAssumption DEF Once, ProgramsAssumption
<1> QED
  BY <1>0, <1>2, <1>5 DEF ShotInv, Serving, Named, Listed

LEMMA ShotNamed == ASSUME ShotInv, Shots!LaneNext PROVE Named'
<1>1. KeeperStep /\ AuthStep /\ issued \in Nat
  BY ShotKeeper, ShotAuth DEF ShotInv, ShotTypes
<1> QED
  BY <1>1 DEF ShotInv, Named, KeeperStep, AuthStep

(* The list of shots only grows. *)
LEMMA ShotTried == ASSUME Shots!LaneNext PROVE tried \subseteq tried'
  BY ShotMoves DEF Shots!BoardCandidate, Shots!listed

LEMMA ShotListed == ASSUME ShotInv, Shots!LaneNext PROVE Listed'
<1>0. /\ ShotTypes /\ Serving /\ Named /\ Listed /\ Once /\ tried \subseteq tried' /\ ShotMuts \in Nat
      /\ muts \in [1 .. ShotMuts -> MutRecord] /\ count \in 0 .. ShotMuts
  BY ShotTried, ProgramsAssumption DEF ShotInv, ShotTypes, ProgramsAssumption
<1> SUFFICES ASSUME keeper'.pc = "execute", auth'.armed
             PROVE  /\ <<auth'.id, keeper'.seen>> \in tried'
                    /\ Unsigned' => \A i \in 1 .. ShotMuts : ~(muts'[i].auth = auth'.id /\ muts'[i].shot = keeper'.seen)
  BY DEF Listed
<1>1. auth'.id = auth.id /\ auth.armed /\ auth.id # 0
  BY <1>0, ShotAuth DEF AuthStep, Named
<1>2. \/ keeper.pc = "execute" /\ keeper'.seen = keeper.seen
      \/ /\ keeper.pc = "board" /\ signer' = signer /\ muts' = muts
         /\ <<auth.id, keeper'.seen>> \notin tried /\ tried' = tried \cup {<<auth.id, keeper'.seen>>}
  BY <1>0, ShotKeeper DEF KeeperStep
<1>3. CASE keeper.pc = "board" /\ muts' = muts /\ <<auth.id, keeper'.seen>> \notin tried
           /\ tried' = tried \cup {<<auth.id, keeper'.seen>>}
  BY <1>0, <1>1, <1>3 DEF Once
<1>4. CASE keeper.pc = "execute" /\ keeper'.seen = keeper.seen
  <2>1. <<auth'.id, keeper'.seen>> \in tried'
    BY <1>0, <1>1, <1>4 DEF Listed
  <2>2. ASSUME Unsigned', NEW i \in 1 .. ShotMuts
        PROVE  ~(muts'[i].auth = auth'.id /\ muts'[i].shot = keeper'.seen)
    <3>1. Unsigned
      BY <1>0, <2>2, ShotSigner DEF SignerStep
    <3>2. ~(muts[i].auth = auth.id /\ muts[i].shot = keeper.seen)
      BY <1>0, <1>1, <1>4, <3>1 DEF Listed
    <3>3. CASE Kept(i)
      BY <1>1, <1>4, <3>2, <3>3 DEF Kept
    <3>4. CASE Signs
      <4>1. signer'.by # "watch"
        BY <2>2, <3>4 DEF Signs, Unsigned
      <4>2. signer.auth = 0
        BY <1>0, <3>4, <4>1 DEF Signs, Serving
      <4>3. muts'[count + 1].auth = 0
        BY <3>4, <4>2 DEF Signs, Shots!NoMut
      <4>4. i # count + 1 => muts'[i] = muts[i]
        BY <3>4 DEF Signs
      <4> QED
        BY <1>1, <1>4, <3>2, <4>3, <4>4
    <3> QED
      BY <1>0, <3>3, <3>4, ShotMuts1
  <2> QED
    BY <2>1, <2>2
<1> QED
  BY <1>2, <1>3, <1>4

LEMMA ShotOnce == ASSUME ShotInv, Shots!LaneNext PROVE Once'
<1>0. /\ ShotTypes /\ Serving /\ Named /\ Listed /\ Once /\ tried \subseteq tried' /\ ShotMuts \in Nat
      /\ muts \in [1 .. ShotMuts -> MutRecord] /\ count \in 0 .. ShotMuts /\ ShotBudget \in Nat
  BY ShotTried, ProgramsAssumption DEF ShotInv, ShotTypes, ProgramsAssumption
<1>a. \A a \in Nat \ {0} : Shots!signedUnder(a) = {i \in 1 .. ShotMuts : muts[i].auth = a}
  BY <1>0 DEF Shots!signedUnder, Shots!Muts, Once
<1>1. CASE \A i \in 1 .. ShotMuts : Kept(i)
  <2>1. \A i \in 1 .. ShotMuts : muts'[i].auth # 0 => muts'[i].audit # "none" /\ <<muts'[i].auth, muts'[i].shot>> \in tried'
    BY <1>0, <1>1 DEF Kept, Once
  <2>2. \A i, k \in 1 .. ShotMuts :
       muts'[i].auth # 0 /\ muts'[i].auth = muts'[k].auth /\ muts'[i].shot = muts'[k].shot => i = k
    BY <1>0, <1>1 DEF Kept, Once
  <2>3. ASSUME NEW a \in Nat \ {0} PROVE Cardinality(Shots!signedUnder(a))' <= ShotBudget
    <3>1. Shots!signedUnder(a)' = {i \in 1 .. ShotMuts : muts'[i].auth = a}
      BY <2>1 DEF Shots!signedUnder, Shots!Muts
    <3>2. Shots!signedUnder(a)' = Shots!signedUnder(a)
      BY <1>1, <1>a, <3>1 DEF Kept
    <3> QED
      BY <1>0, <3>2 DEF Once
  <2> QED
    BY <2>1, <2>2, <2>3 DEF Once
<1>2. CASE Signs
  <2>0. count + 1 \in 1 .. ShotMuts
    BY <1>0, <1>2 DEF Signs
  <2>1. /\ muts'[count + 1].auth = signer.auth /\ muts'[count + 1].shot = signer.shot
        /\ muts'[count + 1].audit = "signed" /\ \A i \in 1 .. ShotMuts : i # count + 1 => muts'[i] = muts[i]
    BY <1>2 DEF Signs, Shots!NoMut
  <2>2. ASSUME signer.auth # 0
        PROVE  /\ auth.id = signer.auth /\ <<signer.auth, signer.shot>> \in tried
               /\ \A i \in 1 .. ShotMuts : ~(muts[i].auth = signer.auth /\ muts[i].shot = signer.shot)
    <3>1. signer.by = "watch" /\ keeper.pc = "execute" /\ signer.shot = keeper.seen
      BY <1>0, <2>2 DEF Serving
    <3>2. auth.id = signer.auth /\ auth.armed /\ Unsigned
      BY <1>2, <2>2 DEF Signs, Unsigned
    <3> QED
      BY <1>0, <3>1, <3>2 DEF Listed
  <2>3. \A i \in 1 .. ShotMuts : muts'[i].auth # 0 => muts'[i].audit # "none" /\ <<muts'[i].auth, muts'[i].shot>> \in tried'
    BY <1>0, <2>1, <2>2 DEF Once
  <2>4. \A i, k \in 1 .. ShotMuts :
       muts'[i].auth # 0 /\ muts'[i].auth = muts'[k].auth /\ muts'[i].shot = muts'[k].shot => i = k
    BY <1>0, <2>1, <2>2 DEF Once
  <2>5. ASSUME NEW a \in Nat \ {0} PROVE Cardinality(Shots!signedUnder(a))' <= ShotBudget
    <3>1. Shots!signedUnder(a)' = {i \in 1 .. ShotMuts : muts'[i].auth = a}
      BY <2>3 DEF Shots!signedUnder, Shots!Muts
    <3>2. Shots!signedUnder(a) \in SUBSET (1 .. ShotMuts) /\ Cardinality(Shots!signedUnder(a)) <= ShotBudget
      BY <1>0, <1>a DEF Once
    <3>3. IsFiniteSet(Shots!signedUnder(a)) /\ Cardinality(Shots!signedUnder(a)) \in Nat
      BY <1>0, <3>2, ShotMined
    <3>4. CASE a # signer.auth
      <4>1. Shots!signedUnder(a)' \in SUBSET Shots!signedUnder(a)
        BY <1>a, <2>1, <3>1, <3>4
      <4>2. Cardinality(Shots!signedUnder(a)') <= Cardinality(Shots!signedUnder(a))
            /\ Cardinality(Shots!signedUnder(a)') \in Nat
        BY <3>3, <4>1, FS_Subset, FS_CardinalityType
      <4> QED
        BY <1>0, <3>2, <3>3, <4>2
    <3>5. CASE a = signer.auth
      <4>1. Shots!signedUnder(a)' \in SUBSET (Shots!signedUnder(a) \cup {count + 1})
        BY <1>a, <2>1, <3>1
      <4>2. /\ IsFiniteSet(Shots!signedUnder(a) \cup {count + 1})
            /\ Cardinality(Shots!signedUnder(a) \cup {count + 1}) <= Cardinality(Shots!signedUnder(a)) + 1
            /\ Cardinality(Shots!signedUnder(a) \cup {count + 1}) \in Nat
        <5> DEFINE S == Shots!signedUnder(a)
        <5> HIDE DEF S
        <5>1. IsFiniteSet(S) => /\ IsFiniteSet(S \cup {count + 1})
                               /\ \/ Cardinality(S \cup {count + 1}) = Cardinality(S)
                                  \/ Cardinality(S \cup {count + 1}) = Cardinality(S) + 1
          BY FS_AddElement
        <5>2. /\ IsFiniteSet(S) /\ Cardinality(S) \in Nat
          BY <3>3 DEF S
        <5>3. /\ IsFiniteSet(S \cup {count + 1}) /\ Cardinality(S \cup {count + 1}) <= Cardinality(S) + 1
              /\ Cardinality(S \cup {count + 1}) \in Nat
          BY <5>1, <5>2
        <5> QED
          BY <5>3 DEF S
      <4>3. Cardinality(Shots!signedUnder(a)') <= Cardinality(Shots!signedUnder(a) \cup {count + 1})
            /\ Cardinality(Shots!signedUnder(a)') \in Nat
        BY <4>1, <4>2, FS_Subset, FS_CardinalityType
      <4>4. Cardinality(Shots!signedUnder(a)) < ShotBudget
        BY <1>2, <3>5 DEF Signs
      <4> HIDE DEF Shots!signedUnder
      <4> QED
        BY <1>0, <3>3, <4>2, <4>3, <4>4
    <3> QED
      BY <3>4, <3>5
  <2> QED
    BY <2>3, <2>4, <2>5 DEF Once
<1> QED
  BY <1>0, <1>1, <1>2, ShotMuts1

LEMMA ShotInvStep == ASSUME ShotInv, Shots!LaneNext PROVE ShotInv'
<1>1. ShotTypes'
  BY ShotKeeper, ShotAuth, ShotMuts1, ShotSigner DEF ShotInv, ShotTypes, KeeperStep, AuthStep, SignerStep
<1> QED
  BY <1>1, ShotNamed, ShotListed, ShotOnce, ShotSigner DEF ShotInv, SignerStep

(* ShotsTakenOnce: for any number of mutations, authorizations, opportunities  *)
(* and deaths, and any budget.                                                 *)
LEMMA ShotsOnce == ASSUME ShotInv PROVE Shots!ShotsTakenOnce
<1>1. ASSUME NEW a \in 1 .. ShotAuths PROVE a \in Nat \ {0}
  BY <1>1
<1>2. \A a \in Nat \ {0} : Shots!signedUnder(a) = {i \in 1 .. ShotMuts : muts[i].auth = a}
  BY DEF ShotInv, Shots!signedUnder, Shots!Muts, Once
<1> QED
  BY <1>1, <1>2, ShotCardinality DEF ShotInv, Once, Shots!ShotsTakenOnce

(* For any number of mutations, authorizations, opportunities, budgets and      *)
(* deaths, and any lease times: an authorization a revocation marker was        *)
(* written for never becomes valid again, and one signs for an opportunity at   *)
(* most once and never more than its attempts.                                  *)
THEOREM Authorizations == Spec => []AuthorizationsHold
<1> DEFINE IInv == /\ part = "leases" => LeaseInv
                   /\ part = "shots" => ShotInv
<1>1. Init => IInv
  BY LeaseInvInit, ShotInvInit
<1>2. IInv /\ [Next]_vars => IInv'
  <2> SUFFICES ASSUME IInv, [Next]_vars PROVE IInv'
    OBVIOUS
  <2>1. ASSUME part = "leases" PROVE LeaseInv'
    <3>1. ASSUME UNCHANGED genericVars PROVE LeaseInv'
      BY <2>1, <3>1 DEF genericVars, LeaseInv, AuthShape, KeeperShape, DisarmShape, Dead
    <3> QED
      BY <2>1, <3>1, LeaseInvStep, PartStep
  <2>2. ASSUME part = "shots" PROVE ShotInv'
    <3>1. ASSUME UNCHANGED genericVars PROVE ShotInv'
      <4>1. ShotTypes' /\ Serving' /\ Named' /\ Listed'
        BY <2>2, <3>1 DEF genericVars, ShotInv, ShotTypes, Serving, Named, Listed, Unsigned, AuthShape, KeeperShape,
          DisarmShape
      <4>2. \A a : Shots!signedUnder(a)' = Shots!signedUnder(a)
        BY <3>1 DEF genericVars, Shots!signedUnder
      <4>3. Once'
        BY <2>2, <3>1, <4>2 DEF genericVars, ShotInv, Once
      <4> QED
        BY <4>1, <4>3 DEF ShotInv
    <3> QED
      BY <2>2, <3>1, ShotInvStep, PartStep
  <2> QED
    BY <2>1, <2>2, PartStep
<1>3. IInv => AuthorizationsHold
  BY RevocationStays, ShotsOnce DEF AuthorizationsHold
<1> QED
  BY <1>1, <1>2, <1>3, PTL DEF Spec

--------------------------------------------------------------------------------
(* The retries of the fixed lane.  What the queue remembers of a block above    *)
(* the last one quoted was offered with fewer errors than the watcher counts    *)
(* now, so the retry of the block that failed is never taken for one of them.   *)

LEMMA RetryInvInit == ASSUME Init PROVE RetryInv
  BY DEF Init, Fixed!LaneInit, RetryInv, WatchShape, QueueShape, Fixed!NoWatch

LEMMA RetryMoves ==
  ASSUME Retries!LaneNext
  PROVE  \/ UNCHANGED <<watch, queue, tip>>
         \/ Retries!PoolEvent \/ Retries!Disarm \/ (\E p \in Retries!Procs : Retries!Kill(p))
         \/ Retries!WatchStart \/ Retries!WatchLoop \/ Retries!WatchTarget \/ Retries!WatchExecuted
         \/ Retries!WatchRefused \/ Retries!WatchRetry
         \/ \E b \in BOOLEAN : Retries!WatchQuote(b) \/ Retries!WatchHeartbeat(b) \/ Retries!WatchError(b)
  BY DEF Retries!LaneNext, Retries!MineTx, Retries!Preflight, Retries!SignAndRecord, Retries!Broadcast,
    Retries!WriteSuccess, Retries!AppendEffect, Retries!WriteRevert, Retries!AppendRevert, Retries!CommandFails,
    Retries!CliEnds, Retries!RecoverDeployment, Retries!ReconcileSuccess, Retries!ReconcileRevert,
    Retries!ReconcileHalt, Retries!RebroadcastSameRaw, Retries!ArmRead, Retries!ArmWrite, Retries!Expire

(* A watcher that ends remembers nothing. *)
LEMMA RetryEnds ==
  ASSUME RetryInv, UNCHANGED <<queue, tip>>
  PROVE  /\ watch' = Retries!NoWatch => RetryInv'
         /\ \A status : Retries!stops(status) => RetryInv'
  BY DEF RetryInv, WatchShape, QueueShape, Retries!NoWatch, Retries!stops

LEMMA RetryInvStep == ASSUME RetryInv, Retries!LaneNext PROVE RetryInv'
<1>0. tip \in Nat /\ WatchShape /\ QueueShape
  BY DEF RetryInv
<1>1. ASSUME UNCHANGED <<watch, queue, tip>> PROVE RetryInv'
  BY <1>1 DEF RetryInv, WatchShape, QueueShape, reach
<1>2. CASE Retries!PoolEvent
  <2>1. /\ tip' = tip + 1 /\ watch' = watch
        /\ queue' = queue \/ (watch.pc # "off" /\ queue' = Retries!offered(queue, tip + 1))
    BY <1>2 DEF Retries!PoolEvent
  <2>2. ASSUME queue' = Retries!offered(queue, tip + 1) PROVE RetryInv'
    <3>1. /\ queue'.seen = queue.seen /\ queue'.pending \in Nat /\ queue'.pending >= queue.pending
          /\ queue' = [pending |-> queue'.pending, seen |-> queue'.seen]
      BY <1>0, <2>2 DEF QueueShape, Retries!offered, Retries!higher
    <3> QED
      BY <1>0, <2>1, <3>1 DEF RetryInv, WatchShape, QueueShape, reach
  <2>3. ASSUME queue' = queue PROVE RetryInv'
    BY <1>0, <2>1, <2>3 DEF RetryInv, WatchShape, QueueShape, reach
  <2> QED
    BY <2>1, <2>2, <2>3
<1>3. CASE Retries!Disarm
  <2>1. /\ UNCHANGED <<queue, tip>> /\ watch' = [watch EXCEPT !.stop = watch.pc # "off"]
    BY <1>3 DEF Retries!Disarm
  <2>2. /\ WatchShape' /\ watch'.pc = watch.pc /\ watch'.errors = watch.errors /\ watch'.last = watch.last
        /\ watch'.target = watch.target
    BY <1>0, <2>1 DEF WatchShape
  <2> QED
    BY <1>0, <2>1, <2>2 DEF RetryInv, QueueShape, reach
<1>4. ASSUME NEW p \in Retries!Procs, Retries!Kill(p) PROVE RetryInv'
  BY <1>1, <1>4, RetryEnds DEF Retries!Kill
<1>5. CASE Retries!WatchStart
  <2>1. /\ tip' = tip
        /\ \/ watch' = [Retries!NoWatch EXCEPT !.pc = "loop", !.arm = arm.id] /\ queue' = [pending |-> tip, seen |-> {}]
           \/ watch' = Retries!NoWatch /\ queue' = queue
    BY <1>5 DEF Retries!WatchStart, Retries!stops
  <2>2. ASSUME watch' = [Retries!NoWatch EXCEPT !.pc = "loop", !.arm = arm.id], queue' = [pending |-> tip, seen |-> {}]
        PROVE  RetryInv'
    BY <1>0, <2>1, <2>2 DEF RetryInv, WatchShape, QueueShape, Retries!NoWatch
  <2> QED
    BY <2>1, <2>2, RetryEnds
<1>6. CASE Retries!WatchLoop
  <2>1. /\ UNCHANGED <<queue, tip>> /\ watch.pc = "loop"
        /\ \/ \E status : Retries!stops(status)
           \/ watch' = [watch EXCEPT !.pc = "wait"]
    BY <1>6 DEF Retries!WatchLoop
  <2>2. ASSUME watch' = [watch EXCEPT !.pc = "wait"] PROVE RetryInv'
    <3>1. /\ WatchShape' /\ watch'.pc = "wait" /\ watch'.errors = watch.errors /\ watch'.last = watch.last
          /\ watch'.target = watch.target
      BY <1>0, <2>2 DEF WatchShape
    <3> QED
      BY <1>0, <2>1, <3>1 DEF RetryInv, QueueShape, reach
  <2> QED
    BY <2>1, <2>2, RetryEnds
<1>7. CASE Retries!WatchTarget
  <2> DEFINE block == IF queue.pending # 0 THEN queue.pending ELSE tip
  <2>1. /\ tip' = tip /\ watch.pc = "wait" /\ queue' = [queue EXCEPT !.pending = 0]
        /\ watch' = IF block <= watch.last THEN [watch EXCEPT !.pc = "loop", !.target = 0]
                    ELSE [watch EXCEPT !.pc = "quote", !.target = block]
    BY <1>7 DEF Retries!WatchTarget
  <2>2. QueueShape' /\ queue'.seen = queue.seen /\ queue'.pending = 0
    BY <1>0, <2>1 DEF QueueShape
  <2>3. block \in Nat /\ block >= queue.pending
    BY <1>0 DEF QueueShape
  <2> HIDE DEF block
  <2>4. CASE block <= watch.last
    <3>1. /\ WatchShape' /\ watch'.pc = "loop" /\ watch'.errors = watch.errors /\ watch'.last = watch.last
          /\ watch'.target = 0
      BY <1>0, <2>1, <2>4 DEF WatchShape
    <3>2. \A s \in queue.seen : s[1] <= watch.last
      BY <1>0, <2>1, <2>3, <2>4 DEF RetryInv, reach, WatchShape, QueueShape
    <3> QED
      BY <1>0, <2>1, <2>2, <3>1, <3>2 DEF RetryInv
  <2>5. CASE ~(block <= watch.last)
    <3>1. /\ WatchShape' /\ watch'.pc = "quote" /\ watch'.errors = watch.errors /\ watch'.last = watch.last
          /\ watch'.target = block
      BY <1>0, <2>1, <2>3, <2>5 DEF WatchShape
    <3>2. \A s \in queue.seen : s[1] <= watch.last \/ (s[1] <= block /\ s[2] <= watch.errors)
      BY <1>0, <2>1, <2>3 DEF RetryInv, reach, WatchShape, QueueShape
    <3>3. block > watch.last
      BY <1>0, <2>3, <2>5 DEF WatchShape
    <3> QED
      BY <1>0, <2>1, <2>2, <3>1, <3>2, <3>3 DEF RetryInv, reach
  <2> QED
    BY <2>4, <2>5
<1>8. ASSUME NEW b \in BOOLEAN, Retries!WatchQuote(b) PROVE RetryInv'
  <2>1. /\ UNCHANGED <<queue, tip>> /\ watch.pc = "quote"
        /\ \E pc1 \in {"execute", "heartbeat"} :
             watch' = [watch EXCEPT !.pc = pc1, !.errors = 0, !.last = watch.target, !.target = 0]
    BY <1>8 DEF Retries!WatchQuote
  <2>a. PICK pc1 \in {"execute", "heartbeat"} :
          watch' = [watch EXCEPT !.pc = pc1, !.errors = 0, !.last = watch.target, !.target = 0]
    BY <2>1
  <2>2. /\ WatchShape' /\ watch'.pc \in {"execute", "heartbeat"} /\ watch'.errors = 0 /\ watch'.last = watch.target
        /\ watch'.target = 0
    BY <1>0, <2>a DEF WatchShape
  <2>3. \A s \in queue.seen : s[1] <= watch.target
    BY <1>0, <2>1 DEF RetryInv, reach, WatchShape, QueueShape
  <2> QED
    BY <1>0, <2>1, <2>2, <2>3 DEF RetryInv, QueueShape
<1>9. ASSUME watch.pc \in {"execute", "heartbeat"}, UNCHANGED <<queue, tip>>,
             \/ \E status : Retries!stops(status)
             \/ \E pc1 \in {"loop", "heartbeat"} : watch' = [watch EXCEPT !.pc = pc1]
      PROVE  RetryInv'
  <2>1. ASSUME NEW pc1 \in {"loop", "heartbeat"}, watch' = [watch EXCEPT !.pc = pc1] PROVE RetryInv'
    <3>1. /\ WatchShape' /\ watch'.pc \in {"loop", "heartbeat"} /\ watch'.errors = watch.errors
          /\ watch'.last = watch.last /\ watch'.target = watch.target /\ watch.target = 0
      BY <1>0, <1>9, <2>1 DEF WatchShape, RetryInv
    <3>2. \A s \in queue.seen : s[1] <= watch.last
      BY <1>0, <1>9, <3>1 DEF RetryInv, reach, WatchShape, QueueShape
    <3> QED
      BY <1>0, <1>9, <3>1, <3>2 DEF RetryInv, QueueShape
  <2> QED
    BY <1>9, <2>1, RetryEnds
<1>10. CASE Retries!WatchExecuted \/ Retries!WatchRefused \/ \E b \in BOOLEAN : Retries!WatchHeartbeat(b)
  BY <1>9, <1>10 DEF Retries!WatchExecuted, Retries!WatchRefused, Retries!WatchHeartbeat
<1>11. ASSUME NEW b \in BOOLEAN, Retries!WatchError(b) PROVE RetryInv'
  <2>1. /\ UNCHANGED <<queue, tip>>
        /\ watch.pc \in {"quote", "heartbeat", "execute"} \/ (watch.pc = "wait" /\ queue.pending = 0)
        /\ \/ \E status : Retries!stops(status)
           \/ watch' = [watch EXCEPT !.pc = "backoff", !.errors = @ + 1]
    BY <1>11 DEF Retries!WatchError
  <2>2. ASSUME watch' = [watch EXCEPT !.pc = "backoff", !.errors = @ + 1] PROVE RetryInv'
    <3> DEFINE more == watch.errors + 1
    <3>a. watch' = [watch EXCEPT !.pc = "backoff", !.errors = more]
      BY <2>2
    <3>b. more \in Nat
      BY <1>0 DEF WatchShape
    <3> HIDE DEF more
    <3>c. /\ WatchShape' /\ watch'.pc = "backoff" /\ watch'.errors = more
          /\ watch'.last = watch.last /\ watch'.target = watch.target
      BY <1>0, <3>a, <3>b DEF WatchShape
    <3>1. /\ WatchShape' /\ watch'.pc = "backoff" /\ watch'.errors = watch.errors + 1
          /\ watch'.last = watch.last /\ watch'.target = watch.target
      BY <3>c DEF more
    <3>2. watch.target = 0 \/ watch.target > watch.last
      BY <1>0, <2>1 DEF RetryInv, WatchShape, QueueShape
    <3>3. \A s \in queue.seen : s[1] <= watch.last \/ (s[1] <= watch.target /\ s[2] <= watch.errors)
      BY <1>0, <2>1 DEF RetryInv, reach, WatchShape, QueueShape
    <3>4. \A s \in queue.seen : s[2] \in Nat
      BY <1>0 DEF QueueShape
    <3> QED
      BY <1>0, <2>1, <3>1, <3>2, <3>3, <3>4 DEF RetryInv, QueueShape, reach, WatchShape
  <2> QED
    BY <2>1, <2>2, RetryEnds
<1>12. CASE Retries!WatchRetry
  <2> DEFINE block == IF watch.target # 0 THEN watch.target ELSE tip
  <2>1. /\ tip' = tip /\ watch.pc = "backoff"
        /\ \/ queue' = Retries!offerRetry(queue, block, watch.errors) /\ watch' = [watch EXCEPT !.pc = "loop"]
           \/ queue' = queue /\ \E status : Retries!stops(status)
    BY <1>12 DEF Retries!WatchRetry
  <2>2. ASSUME queue' = Retries!offerRetry(queue, block, watch.errors), watch' = [watch EXCEPT !.pc = "loop"]
        PROVE  RetryInv'
    <3>1. /\ WatchShape' /\ watch'.pc = "loop" /\ watch'.errors = watch.errors
          /\ watch'.last = watch.last /\ watch'.target = watch.target
      BY <1>0, <2>2 DEF WatchShape
    <3>2. \A s \in queue.seen : s[1] <= watch.last \/ (s[1] <= watch.target /\ s[2] < watch.errors)
      BY <1>0, <2>1 DEF RetryInv, reach
    <3>3. CASE <<block, watch.errors>> \in queue.seen
      <4>1. watch.target = 0
        BY <1>0, <2>1, <3>2, <3>3 DEF RetryInv, WatchShape
      <4>2. queue' = queue
        BY <2>2, <3>3 DEF Retries!offerRetry
      <4>3. \A s \in queue.seen : s[1] <= watch.last
        BY <1>0, <3>2, <4>1 DEF WatchShape, QueueShape
      <4> QED
        BY <1>0, <2>1, <3>1, <4>1, <4>2, <4>3 DEF RetryInv, QueueShape
    <3>4. CASE <<block, watch.errors>> \notin queue.seen
      <4>0. block \in Nat /\ block >= watch.target
        BY <1>0 DEF WatchShape
      <4>1. /\ queue'.seen = queue.seen \cup {<<block, watch.errors>>} /\ queue'.pending \in Nat
            /\ queue'.pending >= block /\ queue' = [pending |-> queue'.pending, seen |-> queue'.seen]
        <5>1. queue' = [Retries!offered(queue, block) EXCEPT !.seen = @ \cup {<<block, watch.errors>>}]
          BY <2>2, <3>4 DEF Retries!offerRetry
        <5>2. Retries!higher(queue.pending, block) \in Nat /\ Retries!higher(queue.pending, block) >= block
          BY <1>0, <4>0 DEF Retries!higher, QueueShape
        <5> HIDE DEF block
        <5>3. Retries!offered(queue, block) = [pending |-> Retries!higher(queue.pending, block), seen |-> queue.seen]
          BY <1>0 DEF Retries!offered, QueueShape
        <5> QED
          BY <5>1, <5>2, <5>3
      <4> HIDE DEF block
      <4>2. QueueShape'
        BY <1>0, <4>0, <4>1 DEF QueueShape, WatchShape
      <4>3. \A s \in queue'.seen : s[1] <= watch.last \/ (s[1] <= queue'.pending /\ s[2] <= watch.errors)
        BY <1>0, <3>2, <4>0, <4>1 DEF QueueShape, WatchShape
      <4>4. queue'.pending >= watch.target
        BY <1>0, <4>0, <4>1 DEF WatchShape
      <4> QED
        BY <1>0, <2>1, <3>1, <4>2, <4>3, <4>4 DEF RetryInv, reach
    <3> QED
      BY <3>3, <3>4
  <2> QED
    BY <2>1, <2>2, RetryEnds
<1> QED
  BY <1>1, <1>2, <1>3, <1>4, <1>5, <1>6, <1>7, <1>8, <1>10, <1>11, <1>12, RetryMoves

(* For any number of blocks, errors and deaths: after a quote failed, the block *)
(* it was for is pending again when the watcher turns round, or a higher one.   *)
THEOREM RetriesKept == Spec => []RetryKept
<1> DEFINE IInv == part = "retries" => RetryInv
<1>1. Init => IInv
  BY RetryInvInit
<1>2. IInv /\ [Next]_vars => IInv'
  <2> SUFFICES ASSUME IInv, [Next]_vars, part = "retries" PROVE RetryInv'
    BY PartStep
  <2>1. ASSUME UNCHANGED fixedVars PROVE RetryInv'
    BY <2>1 DEF fixedVars, RetryInv, WatchShape, QueueShape, reach
  <2> QED
    BY <2>1, PartStep, RetryInvStep
<1>3. IInv => RetryKept
  BY DEF RetryKept, Retries!RetryKept, RetryInv
<1> QED
  BY <1>1, <1>2, <1>3, PTL DEF Spec

--------------------------------------------------------------------------------
(* The books of the generic lane.  One mutation at most is open, and while one   *)
(* is nothing is signed; who holds the wallet lock past its signature holds it   *)
(* for that mutation, and books of it what the chain did.                        *)

LEMMA BookInvInit == ASSUME Init, part = "shots" PROVE BookInv
<1>0. Shots!LaneInit
  BY DEF Init
<1>1. /\ signer.pc = "idle" /\ muts = [i \in 1 .. ShotMuts |-> Shots!NoMut]
      /\ book \in [deployed : BOOLEAN, eligible : {TRUE}, listed : {{}}]
  BY <1>0 DEF Shots!LaneInit, Shots!Muts, Shots!NoSigner
<1>2. \A i \in 1 .. ShotMuts : muts[i].audit = "none" /\ muts[i].chain = "none"
  BY <1>1 DEF Shots!NoMut
<1> QED
  BY <1>1, <1>2 DEF BookInv, MutsKept, MinedKept, HolderKept, BookKept

LEMMA BookQuiet ==
  ASSUME BookInv, UNCHANGED <<muts, count>>, Elsewhere,
         book' = [deployed |-> book'.deployed, eligible |-> book'.eligible, listed |-> book.listed]
  PROVE  BookInv'
<1>1. Shots!Mined' = Shots!Mined
  BY DEF Shots!Mined
<1>2. MutsKept' /\ MinedKept'
  BY <1>1 DEF BookInv, MutsKept, MinedKept
<1>3. HolderKept'
  BY DEF BookInv, HolderKept, Elsewhere
<1>4. BookKept'
  BY DEF BookInv, BookKept
<1> QED
  BY <1>2, <1>3, <1>4 DEF BookInv

(* A mutation's place in the audit, or on its way to the chain, is rewritten. *)
LEMMA BookRewrites ==
  ASSUME ShotTypes, BookInv, NEW i \in 1 .. ShotMuts, NEW a \in Audits \ {"none"}, NEW s \in BOOLEAN,
         Rewritten(i, a, s, muts[i].chain), count' = count, book' = book,
         muts[i].audit = "signed", muts[i].chain # "none" => s,
         a = "reverted" => muts[i].chain = "reverted", a = "abandoned" => muts[i].chain = "none",
         HolderKept'
  PROVE  BookInv'
<1>0. /\ muts \in [1 .. ShotMuts -> MutRecord] /\ muts[i].chain \in {"none", "success", "reverted"}
      /\ MutsKept /\ MinedKept /\ BookKept
  BY DEF ShotTypes, MutRecord, BookInv
<1>1. /\ \A k \in 1 .. ShotMuts : k # i => muts'[k] = muts[k]
      /\ muts'[i].audit = a /\ muts'[i].sent = s /\ muts'[i].chain = muts[i].chain /\ muts'[i].nonce = muts[i].nonce
  BY <1>0, RewrittenMuts
<1>2. \A k \in 1 .. ShotMuts : muts'[k].chain = muts[k].chain /\ muts'[k].nonce = muts[k].nonce
  BY <1>1
<1>3. Shots!Mined' = Shots!Mined
  BY <1>2 DEF Shots!Mined, Shots!Muts
<1>4. MutsKept'
  BY <1>0, <1>1 DEF MutsKept
<1>5. MinedKept'
  BY <1>0, <1>2, <1>3 DEF MinedKept
<1>6. BookKept'
  BY <1>0, <1>1 DEF BookKept, Audits
<1> QED
  BY <1>4, <1>5, <1>6 DEF BookInv

LEMMA BookMines ==
  ASSUME ShotTypes, BookInv, NEW i \in 1 .. ShotMuts, NEW c \in {"success", "reverted"}, Shots!MineMutation(i, c)
  PROVE  BookInv'
<1>0. /\ muts \in [1 .. ShotMuts -> MutRecord] /\ muts[i].audit \in Audits /\ muts[i].sent \in BOOLEAN
      /\ MutsKept /\ MinedKept /\ BookKept /\ HolderKept
  BY DEF ShotTypes, MutRecord, Audits, BookInv
<1>a. /\ muts[i].sent /\ muts[i].chain = "none" /\ muts[i].audit = "signed" /\ UNCHANGED <<count, book, signer>>
      /\ muts[i].nonce = Cardinality(Shots!Mined)
  BY ShotCardinality DEF Shots!MineMutation
<1>1. /\ \A k \in 1 .. ShotMuts : k # i => muts'[k] = muts[k]
      /\ muts'[i].audit = muts[i].audit /\ muts'[i].sent = muts[i].sent /\ muts'[i].chain = c
      /\ muts'[i].nonce = muts[i].nonce
  BY <1>0, RewrittenMuts, ShotRewrites
<1>2. Shots!Mined' = Shots!Mined \cup {i} /\ i \notin Shots!Mined
  BY <1>a, <1>1 DEF Shots!Mined, Shots!Muts
<1>3. Cardinality(Shots!Mined') = Cardinality(Shots!Mined) + 1 /\ Cardinality(Shots!Mined) \in Nat
  <2>1. Cardinality(Shots!Mined) \in Nat /\ IsFiniteSet(Shots!Mined)
    BY ShotMined DEF Shots!Mined, Shots!Muts
  <2> QED
    BY <1>2, <2>1, FS_AddElement
<1>4. MutsKept'
  BY ZenonT(40), <1>0, <1>a, <1>1 DEF MutsKept
<1>5. MinedKept'
  <2>1. \A k \in 1 .. ShotMuts : muts'[k].nonce = muts[k].nonce /\ (k # i => muts'[k].chain = muts[k].chain)
    BY <1>1
  <2>2. \A k \in 1 .. ShotMuts : k # i /\ muts[k].chain # "none" =>
          muts[k].nonce \in Nat /\ muts[k].nonce < muts[i].nonce
    BY <1>0, <1>a DEF MinedKept, MutRecord
  <2>3. muts[i].nonce \in Nat /\ muts[i].nonce < Cardinality(Shots!Mined')
    BY <1>a, <1>3
  <2>4. \A k \in 1 .. ShotMuts : muts'[k].chain # "none" => muts'[k].nonce < Cardinality(Shots!Mined')
    BY <2>1, <2>2, <2>3, <1>3
  <2>5. \A k, m \in 1 .. ShotMuts :
          muts'[k].chain # "none" /\ muts'[m].chain # "none" /\ muts'[k].nonce = muts'[m].nonce => k = m
    BY <1>0, <2>1, <2>2, <2>3 DEF MinedKept
  <2> QED
    BY <2>4, <2>5 DEF MinedKept
<1>6. HolderKept'
  BY <1>0, <1>a, <1>1 DEF HolderKept
<1>7. BookKept'
  BY <1>0, <1>a, <1>1 DEF BookKept
<1> QED
  BY <1>4, <1>5, <1>6, <1>7 DEF BookInv

LEMMA BookSigns ==
  ASSUME ShotTypes, BookInv, Signs
  PROVE  BookInv'
<1>0. /\ muts \in [1 .. ShotMuts -> MutRecord] /\ count \in 0 .. ShotMuts /\ ShotMuts \in Nat
      /\ MutsKept /\ MinedKept /\ BookKept /\ HolderKept
  BY ProgramsAssumption DEF ShotTypes, BookInv, ProgramsAssumption
<1>1. /\ \A k \in 1 .. ShotMuts : k # count + 1 => muts'[k] = muts[k]
      /\ muts'[count + 1].audit = "signed" /\ muts'[count + 1].chain = "none" /\ muts'[count + 1].sent = FALSE
      /\ count' = count + 1 /\ signer'.pc = "signed" /\ signer'.mut = count + 1 /\ book' = book
      /\ \A k \in 1 .. ShotMuts : muts[k].audit # "signed"
  BY <1>0 DEF Signs, Shots!NoMut, HolderKept
<1>2. count + 1 \in 1 .. ShotMuts /\ muts[count + 1].audit = "none" /\ muts[count + 1].chain = "none"
  BY <1>0 DEF Signs, MutsKept
<1>3. Shots!Mined' = Shots!Mined
  BY <1>1, <1>2 DEF Shots!Mined, Shots!Muts
<1>4. MutsKept'
  BY <1>0, <1>1, <1>2 DEF MutsKept
<1>5. MinedKept'
  BY <1>0, <1>1, <1>2, <1>3 DEF MinedKept
<1>6. HolderKept'
  BY <1>1, <1>2 DEF HolderKept
<1>7. BookKept'
  BY <1>0, <1>1, <1>2 DEF BookKept
<1> QED
  BY <1>4, <1>5, <1>6, <1>7 DEF BookInv

(* Which actions do more than leave the mutations, the book and their holder. *)
LEMMA BookMoves ==
  ASSUME Shots!LaneNext, signer \in SignerRecord
  PROVE  \/ UNCHANGED <<muts, count, book>> /\ Elsewhere
         \/ \E i \in 1 .. ShotMuts, c \in {"success", "reverted"} : Shots!MineMutation(i, c)
         \/ Shots!PreflightGeneric \/ Shots!AuthorizeGeneric \/ Shots!PersistSigned \/ Shots!BroadcastSigned
         \/ Shots!BookSuccess \/ Shots!BookRevert \/ Shots!CloseMutation
         \/ Shots!ReconcileGeneric \/ Shots!ReconcileHalts
<1>1. ASSUME \/ Shots!WatchStart \/ Shots!WatchTop \/ Shots!RenewCheck \/ Shots!RenewWrite \/ Shots!RenewVerify
             \/ Shots!BoardIdle \/ (\E b \in BOOLEAN : Shots!RenewFails(b))
             \/ (\E o \in ShotOpportunity : Shots!BoardCandidate(o))
             \/ Shots!Tick \/ Shots!ArmGeneric \/ Shots!DisarmMark \/ Shots!DisarmWrite
      PROVE  UNCHANGED <<muts, count, book, signer>>
  BY <1>1 DEF Shots!WatchStart, Shots!WatchTop, Shots!RenewCheck, Shots!RenewWrite, Shots!RenewVerify,
    Shots!BoardIdle, Shots!RenewFails, Shots!BoardCandidate, Shots!Tick, Shots!ArmGeneric, Shots!DisarmMark,
    Shots!DisarmWrite
<1>2. ASSUME \/ Shots!LockForWatch \/ Shots!CliEnds \/ Shots!LoseWatcher \/ Shots!LoseCommand
             \/ (\E out \in Outcome : Shots!ExecutionEnds(out))
             \/ (\E kind \in {"deploy", "execute", "withdraw"} : Shots!LockForCli(kind))
      PROVE  UNCHANGED <<muts, count, book>> /\ Elsewhere
  <2>1. CASE Shots!LockForWatch \/ \E kind \in {"deploy", "execute", "withdraw"} : Shots!LockForCli(kind)
    BY <2>1 DEF Shots!LockForWatch, Shots!LockForCli, Shots!NoSigner, Elsewhere
  <2>2. ASSUME \/ Shots!CliEnds \/ Shots!LoseWatcher \/ Shots!LoseCommand
               \/ \E out \in Outcome : Shots!ExecutionEnds(out)
        PROVE  UNCHANGED <<muts, count, book>> /\ signer' \in {signer, Shots!NoSigner}
    BY <2>2 DEF Shots!CliEnds, Shots!LoseWatcher, Shots!LoseCommand, Shots!ExecutionEnds
  <2>3. Shots!NoSigner.pc = "idle"
    BY DEF Shots!NoSigner
  <2> QED
    BY <1>2, <2>1, <2>2, <2>3 DEF Elsewhere
<1>3. ASSUME NEW reason \in {"miss", "transport", "invariant"}, Shots!GenericFails(reason)
      PROVE  UNCHANGED <<muts, count, book>> /\ Elsewhere
  <2>1. signer' = [signer EXCEPT !.pc = reason] /\ UNCHANGED <<muts, count, book>>
    BY <1>3 DEF Shots!GenericFails, Shots!fails
  <2>2. signer'.pc = reason
    BY <2>1 DEF SignerRecord
  <2> QED
    BY <2>1, <2>2 DEF Elsewhere
<1> QED
  BY <1>1, <1>2, <1>3 DEF Shots!LaneNext, Shots!Muts, Outcome, Elsewhere

LEMMA BookSteps ==
  ASSUME ShotTypes, BookInv,
         Shots!PreflightGeneric \/ Shots!AuthorizeGeneric \/ Shots!BookSuccess \/ Shots!BookRevert
         \/ Shots!ReconcileHalts
  PROVE  BookInv'
<1>0. signer \in SignerRecord /\ HolderKept /\ BookKept /\ MutsKept /\ MinedKept
  BY DEF ShotTypes, BookInv
<1>a. ASSUME NEW p \in {"invariant", "policy", "nonce", "done"}, signer' = [signer EXCEPT !.pc = p] PROVE Elsewhere
  BY <1>0, <1>a DEF SignerRecord, Elsewhere
<1>b. ASSUME UNCHANGED <<muts, count>>, HolderKept', BookKept' PROVE BookInv'
  <2>1. Shots!Mined' = Shots!Mined
    BY <1>b DEF Shots!Mined
  <2> QED
    BY <1>0, <1>b, <2>1 DEF BookInv, MutsKept, MinedKept
<1>c. ASSUME UNCHANGED <<muts, book>> PROVE BookKept'
  BY <1>0, <1>c DEF BookKept
<1>1. CASE Shots!PreflightGeneric
  <2>1. /\ UNCHANGED <<muts, count, book>>
        /\ \/ \E p \in {"invariant", "policy", "nonce"} : signer' = [signer EXCEPT !.pc = p]
           \/ /\ signer' = [signer EXCEPT !.pc = "ready", !.nonce = Shots!Cardinality(Shots!Mined)]
              /\ Shots!Unresolved = {}
    BY <1>1 DEF Shots!PreflightGeneric, Shots!fails, Shots!refusal, Shots!refusedBy, Shots!settled
  <2>2. ASSUME signer' = [signer EXCEPT !.pc = "ready", !.nonce = Shots!Cardinality(Shots!Mined)],
               Shots!Unresolved = {}
        PROVE  HolderKept'
    <3>1. signer'.pc = "ready"
      BY <1>0, <2>2 DEF SignerRecord
    <3>2. \A i \in 1 .. ShotMuts : muts[i].audit # "signed"
      BY <2>2 DEF Shots!Unresolved, Shots!Muts
    <3> QED
      BY <2>1, <3>1, <3>2 DEF HolderKept
  <2> QED
    BY <1>0, <1>a, <1>b, <1>c, <2>1, <2>2, BookQuiet DEF BookKept
<1>2. CASE Shots!AuthorizeGeneric
  <2>1. /\ UNCHANGED <<muts, count, book>> /\ signer.pc = "ready"
        /\ \/ \E p \in {"invariant", "policy"} : signer' = [signer EXCEPT !.pc = p]
           \/ signer' = [signer EXCEPT !.pc = "signing"]
    BY <1>2 DEF Shots!AuthorizeGeneric, Shots!fails, Shots!refusal, Shots!refusedBy
  <2>2. ASSUME signer' = [signer EXCEPT !.pc = "signing"] PROVE HolderKept'
    <3>1. signer'.pc = "signing"
      BY <1>0, <2>2 DEF SignerRecord
    <3> QED
      BY <1>0, <2>1, <3>1 DEF HolderKept
  <2> QED
    BY <1>0, <1>a, <1>b, <1>c, <2>1, <2>2, BookQuiet DEF BookKept
<1>3. CASE Shots!BookSuccess
  <2>1. /\ UNCHANGED <<muts, count>> /\ signer.pc = "sent" /\ muts[signer.mut].chain = "success"
        /\ \/ book' = Shots!booked(signer.kind, signer.mut) /\ signer' = [signer EXCEPT !.pc = "booked"]
           \/ book' = [book EXCEPT !.eligible = FALSE] /\ signer' = [signer EXCEPT !.pc = "invariant"]
    BY <1>3 DEF Shots!BookSuccess, Shots!fails
  <2>2. signer.mut \in 1 .. ShotMuts /\ muts[signer.mut].audit = "signed"
    BY <1>0, <2>1 DEF HolderKept
  <2>3. HolderKept'
    <3>1. signer'.pc \in {"booked", "invariant"} /\ signer'.mut = signer.mut
      BY <1>0, <2>1 DEF SignerRecord
    <3> QED
      BY <2>1, <2>2, <3>1 DEF HolderKept
  <2>4. BookKept'
    <3>1. /\ book' = [deployed |-> book'.deployed, eligible |-> book'.eligible, listed |-> book'.listed]
          /\ book'.listed \subseteq book.listed \cup {signer.mut}
      BY <1>0, <2>1 DEF BookKept, Shots!booked, Shots!executionState, Shots!deploymentState, Shots!withdrawalState
    <3> QED
      BY <1>0, <2>1, <2>2, <3>1 DEF BookKept
  <2> QED
    BY <1>b, <2>1, <2>3, <2>4
<1>4. CASE Shots!BookRevert
  <2>1. /\ UNCHANGED <<muts, count>> /\ signer.pc = "sent" /\ muts[signer.mut].chain = "reverted"
        /\ signer' = [signer EXCEPT !.pc = "halted"]
    BY <1>4 DEF Shots!BookRevert, Shots!fails
  <2>2. HolderKept'
    <3>1. signer'.pc = "halted" /\ signer'.mut = signer.mut
      BY <1>0, <2>1 DEF SignerRecord
    <3> QED
      BY <1>0, <2>1, <3>1 DEF HolderKept
  <2>3. BookKept'
    <3>1. book' = [deployed |-> book'.deployed, eligible |-> book'.eligible, listed |-> book.listed]
      BY <1>0, <1>4 DEF BookKept, Shots!BookRevert
    <3> QED
      BY <1>0, <2>1, <3>1 DEF BookKept
  <2> QED
    BY <1>b, <2>1, <2>2, <2>3
<1>5. CASE Shots!ReconcileHalts
  <2>1. /\ UNCHANGED <<muts, count>> /\ signer' = [signer EXCEPT !.pc = "done"] /\ book' = [book EXCEPT !.eligible = FALSE]
    BY <1>5 DEF Shots!ReconcileHalts, Shots!fails
  <2>2. book' = [deployed |-> book'.deployed, eligible |-> book'.eligible, listed |-> book.listed]
    BY <1>0, <2>1 DEF BookKept
  <2> QED
    BY <1>0, <1>a, <2>1, <2>2, BookQuiet
<1> QED
  BY <1>1, <1>2, <1>3, <1>4, <1>5

LEMMA BookInvStep == ASSUME ShotTypes, BookInv, Shots!LaneNext PROVE BookInv'
<1>0. /\ muts \in [1 .. ShotMuts -> MutRecord] /\ signer \in SignerRecord
      /\ HolderKept /\ BookKept /\ MutsKept /\ MinedKept
  BY DEF ShotTypes, BookInv
<1>a. \A i \in 1 .. ShotMuts : muts[i].sent \in BOOLEAN /\ muts[i].chain \in {"none", "success", "reverted"}
  BY <1>0 DEF MutRecord
<1>1. ASSUME UNCHANGED <<muts, count, book>>, Elsewhere PROVE BookInv'
  BY <1>0, <1>1, BookQuiet DEF BookKept
<1>2. CASE Shots!PersistSigned
  <2>1. book' = book
    BY <1>2 DEF Shots!PersistSigned
  <2>2. ASSUME NEW p \in {"invariant", "policy"}, signer' = [signer EXCEPT !.pc = p] PROVE Elsewhere
    BY <1>0, <2>2 DEF SignerRecord, Elsewhere
  <2> QED
    BY <1>1, <1>2, <2>1, <2>2, ShotSigns, BookSigns
<1>3. CASE Shots!BroadcastSigned
  <2>1. /\ UNCHANGED <<count, book>> /\ signer.pc = "signed"
        /\ \E p \in {"sent", "invariant", "policy"} : signer' = [signer EXCEPT !.pc = p]
    BY <1>3 DEF Shots!BroadcastSigned, Shots!fails, Shots!refusal, Shots!refusedBy
  <2>2. signer'.pc \in {"sent", "invariant", "policy"} /\ signer'.mut = signer.mut
    BY <1>0, <2>1 DEF SignerRecord
  <2>3. signer.mut \in 1 .. ShotMuts /\ muts[signer.mut].audit = "signed" /\ muts[signer.mut].chain = "none"
    BY <1>0, <2>1 DEF HolderKept, MutsKept
  <2>4. CASE muts' = muts
    <3>1. HolderKept'
      BY <2>2, <2>3, <2>4 DEF HolderKept
    <3>2. Shots!Mined' = Shots!Mined
      BY <2>4 DEF Shots!Mined
    <3> QED
      BY <1>0, <2>1, <2>4, <3>1, <3>2 DEF BookInv, MutsKept, MinedKept, BookKept
  <2>5. ASSUME NEW s \in BOOLEAN, Rewritten(signer.mut, muts[signer.mut].audit, s, muts[signer.mut].chain)
        PROVE  BookInv'
    <3>1. Rewritten(signer.mut, "signed", s, "none")
      BY <2>3, <2>5
    <3>2. muts'[signer.mut].audit = "signed"
      BY <2>3, <3>1, RewrittenMuts DEF Audits
    <3>3. HolderKept'
      BY <2>2, <2>3, <3>2 DEF HolderKept
    <3> QED
      BY <2>1, <2>3, <3>1, <3>3, BookRewrites DEF Audits
  <2> QED
    BY <1>3, <2>4, <2>5, ShotRewrites
<1>4. CASE Shots!CloseMutation
  <2>1. /\ UNCHANGED <<count, book>> /\ signer.pc \in {"booked", "halted"}
        /\ \E p \in {"done", "invariant"} : signer' = [signer EXCEPT !.pc = p]
    BY <1>4 DEF Shots!CloseMutation, Shots!fails
  <2>2. signer'.pc \in {"done", "invariant"}
    BY <1>0, <2>1 DEF SignerRecord
  <2>3. /\ signer.mut \in 1 .. ShotMuts /\ muts[signer.mut].audit = "signed"
        /\ muts[signer.mut].chain \in {"success", "reverted"}
        /\ signer.pc # "booked" => muts[signer.mut].chain = "reverted"
        /\ muts[signer.mut].sent = TRUE
    BY <1>0, <1>a, <2>1 DEF HolderKept, MutsKept
  <2>4. HolderKept'
    BY <2>2 DEF HolderKept
  <2>5. CASE muts' = muts
    BY <1>1, <2>1, <2>2, <2>5 DEF Elsewhere
  <2>6. ASSUME NEW a \in {"effect", "reverted"}, a = (IF signer.pc = "booked" THEN "effect" ELSE "reverted"),
               Rewritten(signer.mut, a, muts[signer.mut].sent, muts[signer.mut].chain)
        PROVE  BookInv'
    <3>1. a = "reverted" => muts[signer.mut].chain = "reverted"
      BY <2>3, <2>6
    <3>2. a \in Audits \ {"none"} /\ a # "abandoned"
      BY DEF Audits
    <3> QED
      BY <1>a, <2>1, <2>3, <2>4, <2>6, <3>1, <3>2, BookRewrites
  <2> QED
    BY <1>4, <2>5, <2>6, ShotRewrites
<1>5. CASE Shots!ReconcileGeneric
  <2>1. count' = count /\ signer.pc = "idle"
    BY <1>5 DEF Shots!ReconcileGeneric
  <2>2. PICK i \in 1 .. ShotMuts :
          /\ muts[i].audit = "signed"
          /\ \/ muts' = muts /\ muts[i].chain = "success" /\ signer'.mut = i /\ signer'.pc = "booked"
                /\ book' = Shots!booked(muts[i].kind, i)
             \/ muts[i].chain = "reverted" /\ Rewritten(i, "reverted", muts[i].sent, muts[i].chain)
                /\ signer'.pc = "halting" /\ book' = book
             \/ ~muts[i].sent /\ Rewritten(i, "signed", TRUE, muts[i].chain) /\ UNCHANGED <<signer, book>>
             \/ ~muts[i].sent /\ Rewritten(i, "abandoned", FALSE, muts[i].chain) /\ UNCHANGED <<signer, book>>
    BY <1>5, ShotRewrites
  <2>a. muts[i].sent \in BOOLEAN /\ muts[i].chain \in {"none", "success", "reverted"}
        /\ (muts[i].chain # "none" => muts[i].sent)
    BY <1>0, <1>a DEF MutsKept
  <2>3. ASSUME muts' = muts, muts[i].chain = "success", signer'.mut = i, signer'.pc = "booked",
               book' = Shots!booked(muts[i].kind, i)
        PROVE  BookInv'
    <3>1. HolderKept'
      BY <2>2, <2>3 DEF HolderKept
    <3>2. /\ book' = [deployed |-> book'.deployed, eligible |-> book'.eligible, listed |-> book'.listed]
          /\ book'.listed \subseteq book.listed \cup {i}
      BY <1>0, <2>3 DEF BookKept, Shots!booked, Shots!executionState, Shots!deploymentState, Shots!withdrawalState
    <3>3. BookKept'
      BY <1>0, <2>2, <2>3, <3>2 DEF BookKept
    <3>4. Shots!Mined' = Shots!Mined
      BY <2>3 DEF Shots!Mined
    <3> QED
      BY <1>0, <2>1, <2>3, <3>1, <3>3, <3>4 DEF BookInv, MutsKept, MinedKept
  <2>4. ASSUME muts[i].chain = "reverted", Rewritten(i, "reverted", muts[i].sent, muts[i].chain),
               signer'.pc = "halting", book' = book
        PROVE  BookInv'
    <3>1. HolderKept'
      BY <2>4 DEF HolderKept
    <3> QED
      BY <2>1, <2>2, <2>a, <2>4, <3>1, BookRewrites DEF Audits
  <2>5. ASSUME ~muts[i].sent, UNCHANGED <<signer, book>>,
               NEW a \in {"signed", "abandoned"}, NEW s \in BOOLEAN, Rewritten(i, a, s, muts[i].chain)
        PROVE  BookInv'
    <3>1. HolderKept'
      BY <2>1, <2>5 DEF HolderKept
    <3>2. muts[i].chain = "none"
      BY <2>a, <2>5
    <3>3. a \in Audits \ {"none"} /\ a # "reverted"
      BY DEF Audits
    <3> QED
      BY <2>1, <2>2, <2>5, <3>1, <3>2, <3>3, BookRewrites
  <2> QED
    BY <2>2, <2>3, <2>4, <2>5
<1> QED
  BY <1>0, <1>1, <1>2, <1>3, <1>4, <1>5, BookMoves, BookMines, BookSteps

LEMMA AtMostOne == ASSUME NEW S, \A a, b \in S : a = b PROVE Cardinality(S) <= 1
<1>1. CASE S = {}
  BY <1>1, FS_EmptySet
<1>2. CASE S # {}
  <2>1. PICK a \in S : TRUE
    BY <1>2
  <2>2. S = {a}
    BY <2>1
  <2>3. Cardinality({a}) = 1
    BY FS_Singleton
  <2> QED
    BY <2>2, <2>3
<1> QED
  BY <1>1, <1>2

(* BookMatchesChain, of any number of mutations. *)
LEMMA ShotBooks == ASSUME ShotTypes, BookInv PROVE Shots!BookMatchesChain
<1>1. \A i, k \in Shots!Unresolved : i = k
  BY DEF BookInv, MutsKept, Shots!Unresolved, Shots!Muts
<1>2. Cardinality(Shots!Unresolved) <= 1
  BY <1>1, AtMostOne
<1> QED
  BY <1>2, ShotCardinality DEF BookInv, MinedKept, BookKept, Shots!BookMatchesChain, Shots!Mined, Shots!Muts

--------------------------------------------------------------------------------
(* The Global program.  Whoever may sign finds every transaction closed, hence  *)
(* mined, so that the nonce it reads is the number of those signed; and what it *)
(* closes it has written to the ledger before.                                  *)

LEMMA GlobalInvInit == ASSUME Init PROVE GlobalInv
<1>1. Global!GlobalInit
  BY DEF Init
<1>2. /\ raws = <<>> /\ held = 0 /\ ledger = [executor |-> 0, status |-> "none", listed |-> <<>>]
      /\ authority = [id |-> 0, live |-> FALSE] /\ command = Global!NoRun
  BY <1>1 DEF Global!GlobalInit
<1>3. GlobalTypes
  BY <1>2 DEF GlobalTypes, LedgerRecord, CommandRecord, PlanRecord, Global!NoRun
<1>4. command.pc = "off" /\ DOMAIN raws = {} /\ DOMAIN ledger.listed = {} /\ ledger.executor = 0
  BY <1>2 DEF Global!NoRun
<1> QED
  BY <1>3, <1>4 DEF GlobalInv, RawsKept, ListedKept, ExecutorKept, CommandKept

LEMMA GlobalCardinality == \A S : Global!Cardinality(S) = Cardinality(S)
  BY DEF Global!Cardinality, Cardinality

LEMMA CountTo == \A n \in Nat : IsFiniteSet(1 .. n) /\ Cardinality(1 .. n) = n
<1>1. TAKE n \in Nat
<1>2. /\ IsFiniteSet(1 .. n)
      /\ Cardinality(1 .. n) = IF 1 > n THEN 0 ELSE n - 1 + 1
  BY <1>1, FS_Interval
<1> QED
  BY <1>1, <1>2

LEMMA Counted ==
  ASSUME NEW n \in Nat, NEW S, NEW f \in [1 .. n -> S],
         \A k, m \in 1 .. n : f[k] = f[m] => k = m, \A x \in S : \E k \in 1 .. n : f[k] = x
  PROVE  Cardinality(S) = n
<1>1. f \in Bijection(1 .. n, S)
  BY DEF Bijection, Injection, Surjection, IsInjective
<1>2. IsFiniteSet(1 .. n) /\ Cardinality(1 .. n) = n
  BY CountTo
<1> QED
  BY <1>1, <1>2, FS_Bijection DEF ExistsBijection

(* The nonce the chain counts. *)
LEMMA GlobalMined ==
  ASSUME GlobalInv
  PROVE  /\ Global!Cardinality(Global!Mined) \in Nat
         /\ (\A i \in DOMAIN raws : raws[i].audit # "signed") => Global!Cardinality(Global!Mined) = Len(raws)
<1>1. DOMAIN raws = 1 .. Len(raws) /\ Len(raws) \in Nat
  BY DEF GlobalInv, GlobalTypes
<1>2. IsFiniteSet(1 .. Len(raws)) /\ Cardinality(1 .. Len(raws)) = Len(raws)
  BY <1>1, CountTo
<1>3. Global!Mined \in SUBSET (1 .. Len(raws))
  BY <1>1 DEF Global!Mined, Global!Raws
<1>4. Cardinality(Global!Mined) \in Nat
  BY <1>2, <1>3, FS_Subset, FS_CardinalityType
<1>5. ASSUME \A i \in DOMAIN raws : raws[i].audit # "signed" PROVE Global!Mined = 1 .. Len(raws)
  <2>1. \A i \in DOMAIN raws : raws[i].audit \in {"signed", "effect", "reverted"}
    <3>1. raws \in Seq(RawRecord)
      BY DEF GlobalInv, GlobalTypes
    <3>2. \A i \in DOMAIN raws : raws[i] \in RawRecord
      BY <3>1
    <3> QED
      BY <3>2 DEF RawRecord
  <2>2. \A i \in DOMAIN raws : raws[i].chain # "none"
    BY <1>5, <2>1 DEF GlobalInv, RawsKept
  <2> QED
    BY <1>1, <2>2 DEF Global!Mined, Global!Raws
<1> QED
  BY <1>2, <1>4, <1>5, GlobalCardinality

(* The files and the chain stand still; only the command moves on. *)
LEMMA GlobalQuiet ==
  ASSUME GlobalInv, UNCHANGED <<raws, ledger>>, held' \in Nat, authority' \in [id : Nat, live : BOOLEAN],
         command' \in CommandRecord, CommandKept'
  PROVE  GlobalInv'
  BY DEF GlobalInv, GlobalTypes, RawsKept, ListedKept, ExecutorKept, Listing

LEMMA GlobalLeaves ==
  ASSUME GlobalInv, Global!leaves PROVE command' \in CommandRecord /\ CommandKept'
<1>1. command' = [pc |-> "off", kind |-> "none", auth |-> 0, plan |-> [nonce |-> 0, base |-> 0, minimum |-> 0], raw |-> 0]
  BY DEF Global!leaves, Global!NoRun
<1>2. command' \in CommandRecord
  BY <1>1 DEF CommandRecord, PlanRecord
<1>3. command'.pc = "off"
  BY <1>1
<1> QED
  BY <1>2, <1>3 DEF CommandKept

(* Everything that touches neither what was signed nor the ledger. *)
LEMMA GlobalOutside ==
  ASSUME GlobalInv,
         \/ Global!Gift \/ Global!ArmShared \/ Global!RevokeShared \/ Global!WatcherLeaves
         \/ Global!SearchEnds \/ Global!ReceiptUnknown \/ Global!KillProgram
  PROVE  GlobalInv'
<1>0. held \in Nat /\ authority \in [id : Nat, live : BOOLEAN] /\ command \in CommandRecord /\ CommandKept
  BY DEF GlobalInv, GlobalTypes
<1>1. ASSUME UNCHANGED <<raws, ledger, command>> PROVE CommandKept'
  BY <1>0, <1>1 DEF CommandKept, Listing
<1>2. CASE Global!Gift \/ Global!ArmShared \/ Global!RevokeShared \/ Global!WatcherLeaves
  <2>1. UNCHANGED <<raws, ledger, command>> /\ held' \in Nat
    BY <1>0, <1>2 DEF Global!Gift, Global!ArmShared, Global!RevokeShared, Global!WatcherLeaves
  <2>2. \/ authority' = authority
        \/ authority' = [id |-> authority.id + 1, live |-> TRUE]
        \/ authority' = [authority EXCEPT !.live = FALSE]
    BY <1>2 DEF Global!Gift, Global!ArmShared, Global!RevokeShared, Global!WatcherLeaves
  <2>3. authority.id \in Nat /\ authority.id + 1 \in Nat
    BY <1>0
  <2>4. CASE authority' = [id |-> authority.id + 1, live |-> TRUE]
    BY <1>0, <1>1, <2>1, <2>3, <2>4, GlobalQuiet
  <2>5. CASE authority' = [authority EXCEPT !.live = FALSE]
    <3>1. authority' \in [id : Nat, live : BOOLEAN]
      BY <1>0, <2>5
    <3> QED
      BY <1>0, <1>1, <2>1, <3>1, GlobalQuiet
  <2> QED
    BY <1>0, <1>1, <2>1, <2>2, <2>4, <2>5, GlobalQuiet
<1>3. CASE Global!SearchEnds \/ Global!ReceiptUnknown \/ Global!KillProgram
  BY <1>0, <1>3, GlobalQuiet, GlobalLeaves DEF Global!SearchEnds, Global!ReceiptUnknown, Global!KillProgram
<1> QED
  BY <1>2, <1>3

(* A command begins, or comes to its plan: nothing is open. *)
LEMMA GlobalPlans ==
  ASSUME GlobalInv,
         \/ Global!StartDeploy \/ Global!FinalValidation
         \/ \E auth1 \in {0, authority.id} : Global!StartExecute(auth1) \/ Global!StartReconcile(auth1)
  PROVE  GlobalInv'
<1>0. /\ held \in Nat /\ authority \in [id : Nat, live : BOOLEAN] /\ command \in CommandRecord /\ CommandKept
      /\ raws \in Seq(RawRecord) /\ Len(raws) \in Nat /\ DOMAIN raws = 1 .. Len(raws)
      /\ MaxMarket \in Nat /\ Floor \in Nat
  BY ProgramsAssumption DEF GlobalInv, GlobalTypes, ProgramsAssumption
<1>a. Global!Unresolved = {} => \A i \in DOMAIN raws : raws[i].audit # "signed"
  BY DEF Global!Unresolved, Global!Raws
<1>1. CASE Global!StartDeploy
  <2>1. /\ UNCHANGED <<raws, ledger, held, authority>> /\ Global!Unresolved = {} /\ ledger.executor = 0
        /\ command' = [Global!NoRun EXCEPT !.pc = "planned", !.kind = "deploy",
                                           !.plan.nonce = Global!Cardinality(Global!Mined)]
    BY <1>1 DEF Global!StartDeploy, Global!deployable
  <2>2. Global!Cardinality(Global!Mined) = Len(raws)
    BY <1>a, <2>1, GlobalMined
  <2>3. command' = [pc |-> "planned", kind |-> "deploy", auth |-> 0,
                    plan |-> [nonce |-> Len(raws), base |-> 0, minimum |-> 0], raw |-> 0]
    BY <2>1, <2>2 DEF Global!NoRun
  <2>4. command' \in CommandRecord
    BY <1>0, <2>3 DEF CommandRecord, PlanRecord
  <2>a. command'.pc = "planned" /\ command'.plan.nonce = Len(raws) /\ command'.kind = "deploy"
    BY <2>3
  <2>b. \A i \in DOMAIN raws : raws[i].audit # "signed"
    BY <1>a, <2>1
  <2>5. CommandKept'
    BY <2>1, <2>a, <2>b DEF CommandKept
  <2> QED
    BY <1>0, <2>1, <2>4, <2>5, GlobalQuiet
<1>2. CASE Global!FinalValidation
  <2>1. UNCHANGED <<raws, ledger, held, authority>> /\ command.pc = "searching"
    BY <1>2 DEF Global!FinalValidation
  <2>2. \/ Global!leaves
        \/ \E gas \in 1 .. MaxMarket - Floor :
             command' = [command EXCEPT !.pc = "planned",
                           !.plan = [nonce |-> Global!Cardinality(Global!Mined), base |-> held, minimum |-> gas + Floor]]
    BY <1>2 DEF Global!FinalValidation
  <2>3. ASSUME NEW gas \in 1 .. MaxMarket - Floor,
               command' = [command EXCEPT !.pc = "planned",
                             !.plan = [nonce |-> Global!Cardinality(Global!Mined), base |-> held, minimum |-> gas + Floor]]
        PROVE  GlobalInv'
    <3>1. Global!Cardinality(Global!Mined) = Len(raws)
      BY <1>0, <2>1, GlobalMined DEF CommandKept
    <3>2. gas + Floor \in Nat
      BY <1>0, <2>3
    <3>3. [nonce |-> Len(raws), base |-> held, minimum |-> gas + Floor] \in PlanRecord
      BY <1>0, <3>2 DEF PlanRecord
    <3>4. /\ command' \in CommandRecord /\ command'.pc = "planned" /\ command'.kind = command.kind
          /\ command'.plan = [nonce |-> Len(raws), base |-> held, minimum |-> gas + Floor]
      BY <1>0, <2>3, <3>1, <3>3 DEF CommandRecord
    <3>5. CommandKept'
      BY <1>0, <2>1, <3>4 DEF CommandKept
    <3> QED
      BY <1>0, <2>1, <3>4, <3>5, GlobalQuiet
  <2> QED
    BY <1>0, <2>1, <2>2, <2>3, GlobalQuiet, GlobalLeaves
<1>3. ASSUME NEW auth1 \in {0, authority.id}, Global!StartExecute(auth1) PROVE GlobalInv'
  <2>1. /\ UNCHANGED <<raws, ledger, held, authority>> /\ Global!Unresolved = {}
        /\ command' = [Global!NoRun EXCEPT !.pc = "searching", !.kind = "execute", !.auth = auth1]
    BY <1>3 DEF Global!StartExecute
  <2>a. auth1 \in Nat
    BY <1>0
  <2>b. command' = [pc |-> "searching", kind |-> "execute", auth |-> auth1,
                    plan |-> [nonce |-> 0, base |-> 0, minimum |-> 0], raw |-> 0]
    BY <2>1 DEF Global!NoRun
  <2>2. command' \in CommandRecord /\ command'.pc = "searching" /\ command'.kind = "execute"
    BY <2>a, <2>b DEF CommandRecord, PlanRecord
  <2>3. CommandKept'
    BY <1>a, <2>1, <2>2 DEF CommandKept
  <2> QED
    BY <1>0, <2>1, <2>2, <2>3, GlobalQuiet
<1>4. ASSUME NEW auth1 \in {0, authority.id}, Global!StartReconcile(auth1) PROVE GlobalInv'
  <2>1. /\ UNCHANGED <<raws, ledger, held, authority>>
        /\ \E i \in Global!Unresolved :
             command' = [Global!NoRun EXCEPT !.pc = "judging", !.kind = "reconcile", !.auth = auth1, !.raw = i]
    BY <1>4 DEF Global!StartReconcile
  <2>2. PICK i \in DOMAIN raws :
          /\ raws[i].audit = "signed"
          /\ command' = [Global!NoRun EXCEPT !.pc = "judging", !.kind = "reconcile", !.auth = auth1, !.raw = i]
    BY <2>1 DEF Global!Unresolved, Global!Raws
  <2>3. command' \in CommandRecord /\ command'.pc = "judging" /\ command'.raw = i
    <3>1. i \in Nat /\ auth1 \in Nat
      BY <1>0
    <3>2. command' = [pc |-> "judging", kind |-> "reconcile", auth |-> auth1,
                      plan |-> [nonce |-> 0, base |-> 0, minimum |-> 0], raw |-> i]
      BY <2>2 DEF Global!NoRun
    <3> QED
      BY <3>1, <3>2 DEF CommandRecord, PlanRecord
  <2>4. CommandKept'
    BY <2>1, <2>2, <2>3 DEF CommandKept
  <2> QED
    BY <1>0, <2>1, <2>3, <2>4, GlobalQuiet
<1> QED
  BY <1>1, <1>2, <1>3, <1>4

(* One signed transaction is rewritten: what was known of it stays true. *)
LEMMA GlobalRewrites ==
  ASSUME GlobalInv, UNCHANGED ledger, held' \in Nat, UNCHANGED authority, command' \in CommandRecord, CommandKept',
         NEW i \in DOMAIN raws, NEW r \in RawRecord, raws' = [raws EXCEPT ![i] = r],
         r.kind = raws[i].kind, r.plan = raws[i].plan, r.audit = "signed" => raws[i].audit = "signed",
         r.audit = "reverted" => r.chain = "reverted", r.audit = "effect" => r.chain = "success",
         r.audit = "effect" /\ r.kind = "execute" => Listing(i),
         raws[i].chain = "success" => r.chain = "success" /\ r.gross = raws[i].gross /\ r.cost = raws[i].cost,
         r.kind = "deploy" => /\ r.chain = "success" => ledger.executor = i \/ (ledger.executor = 0 /\ r.audit = "signed")
                              /\ r.audit = "effect" => ledger.executor = i
  PROVE  GlobalInv'
<1>0. /\ raws \in Seq(RawRecord) /\ RawsKept /\ ListedKept /\ ExecutorKept
  BY DEF GlobalInv, GlobalTypes
<1>1. /\ raws' \in Seq(RawRecord) /\ Len(raws') = Len(raws) /\ DOMAIN raws' = DOMAIN raws
      /\ raws'[i] = r /\ \A j \in DOMAIN raws : j # i => raws'[j] = raws[j]
  BY <1>0
<1>2. GlobalTypes'
  BY <1>1 DEF GlobalInv, GlobalTypes
<1>3. RawsKept'
  <2>1. ASSUME NEW j \in DOMAIN raws
        PROVE  /\ raws'[j].plan.nonce = j - 1
               /\ raws'[j].audit = "signed" => j = Len(raws)
               /\ raws'[j].audit = "reverted" => raws'[j].chain = "reverted"
               /\ raws'[j].audit = "effect" => raws'[j].chain = "success"
               /\ raws'[j].audit = "effect" /\ raws'[j].kind = "execute" => Listing(j)
    BY <1>0, <1>1, <2>1 DEF RawsKept
  <2>2. \A j : Listing(j)' <=> Listing(j)
    BY DEF Listing
  <2> QED
    BY <1>1, <2>1, <2>2 DEF RawsKept
<1>4. ListedKept'
  BY <1>0, <1>1 DEF ListedKept
<1>5. ExecutorKept'
  <2>1. ASSUME NEW j \in DOMAIN raws, raws'[j].kind = "deploy"
        PROVE  /\ raws'[j].chain = "success" => ledger.executor = j \/ (ledger.executor = 0 /\ raws'[j].audit = "signed")
               /\ raws'[j].audit = "signed" => ledger.executor \in {0, j}
               /\ raws'[j].audit = "effect" => ledger.executor = j
    BY <1>0, <1>1, <2>1 DEF ExecutorKept
  <2>2. ledger.executor # 0 => /\ ledger.executor \in DOMAIN raws
                               /\ raws'[ledger.executor].kind = "deploy" /\ raws'[ledger.executor].chain = "success"
    BY <1>0, <1>1 DEF ExecutorKept
  <2> QED
    BY <1>1, <2>1, <2>2 DEF ExecutorKept
<1> QED
  BY <1>2, <1>3, <1>4, <1>5 DEF GlobalInv

LEMMA GlobalMines ==
  ASSUME GlobalInv, NEW i \in DOMAIN raws, NEW gross \in 0 .. MaxMarket, NEW cost \in 0 .. MaxMarket,
         Global!MineRaw(i, gross, cost)
  PROVE  GlobalInv'
<1>0. /\ raws \in Seq(RawRecord) /\ held \in Nat /\ command \in CommandRecord
      /\ RawsKept /\ ListedKept /\ ExecutorKept /\ CommandKept
  BY DEF GlobalInv, GlobalTypes
<1>1. raws[i] \in RawRecord /\ gross \in Nat /\ cost \in Nat /\ held + gross \in Nat
  BY <1>0, ProgramsAssumption DEF ProgramsAssumption
<1>2. UNCHANGED <<ledger, authority, command>> /\ raws[i].chain = "none"
  BY DEF Global!MineRaw
<1>3. raws[i].audit = "signed"
  BY <1>0, <1>1, <1>2 DEF RawsKept, RawRecord
<1>4. ASSUME NEW r \in RawRecord, raws' = [raws EXCEPT ![i] = r], held' \in Nat,
             r.kind = raws[i].kind, r.plan = raws[i].plan, r.audit = "signed"
      PROVE  GlobalInv'
  <2>1. DOMAIN raws' = DOMAIN raws /\ Len(raws') = Len(raws)
        /\ raws'[i] = r /\ \A j \in DOMAIN raws : j # i => raws'[j] = raws[j]
    BY <1>0, <1>4
  <2>2. CommandKept'
    BY <1>0, <1>2, <1>3, <1>4, <2>1 DEF CommandKept, Listing
  <2>3. r.kind = "deploy" => ledger.executor = i \/ ledger.executor = 0
    BY <1>0, <1>3, <1>4 DEF ExecutorKept
  <2> QED
    BY <1>0, <1>2, <1>3, <1>4, <2>2, <2>3, GlobalRewrites
<1>5. \/ /\ held' = held + gross
         /\ raws' = [raws EXCEPT ![i].chain = "success", ![i].gross = gross, ![i].after = held + gross, ![i].cost = cost]
      \/ /\ held' = held
         /\ raws' = [raws EXCEPT ![i].chain = "reverted", ![i].cost = cost]
  BY DEF Global!MineRaw
<1>6. CASE /\ held' = held + gross
           /\ raws' = [raws EXCEPT ![i].chain = "success", ![i].gross = gross, ![i].after = held + gross, ![i].cost = cost]
  <2> DEFINE r == [raws[i] EXCEPT !.chain = "success", !.gross = gross, !.after = held + gross, !.cost = cost]
  <2>1. raws' = [raws EXCEPT ![i] = r]
    BY <1>0, <1>6
  <2>2. r \in RawRecord /\ r.kind = raws[i].kind /\ r.plan = raws[i].plan /\ r.audit = "signed"
    BY <1>1, <1>3 DEF RawRecord
  <2> QED
    BY <1>1, <1>4, <1>6, <2>1, <2>2
<1>7. CASE /\ held' = held
           /\ raws' = [raws EXCEPT ![i].chain = "reverted", ![i].cost = cost]
  <2> DEFINE r == [raws[i] EXCEPT !.chain = "reverted", !.cost = cost]
  <2>1. raws' = [raws EXCEPT ![i] = r]
    BY <1>0, <1>7
  <2>2. r \in RawRecord /\ r.kind = raws[i].kind /\ r.plan = raws[i].plan /\ r.audit = "signed"
    BY <1>1, <1>3 DEF RawRecord
  <2> QED
    BY <1>0, <1>4, <1>7, <2>1, <2>2
<1> QED
  BY <1>5, <1>6, <1>7

LEMMA GlobalSends ==
  ASSUME GlobalInv, NEW reached \in BOOLEAN, Global!BroadcastPersisted(reached) PROVE GlobalInv'
<1>0. /\ raws \in Seq(RawRecord) /\ held \in Nat /\ command \in CommandRecord
      /\ RawsKept /\ ListedKept /\ ExecutorKept /\ CommandKept
  BY DEF GlobalInv, GlobalTypes
<1> DEFINE i == command.raw
           r == [raws[i] EXCEPT !.sent = reached]
<1>1. /\ UNCHANGED <<ledger, held, authority>> /\ command.pc = "signed"
      /\ raws' = [raws EXCEPT ![i].sent = reached] /\ command' = [command EXCEPT !.pc = "sent"]
  BY DEF Global!BroadcastPersisted, Global!continues
<1>2. i \in DOMAIN raws /\ raws[i].audit = "signed"
  BY <1>0, <1>1 DEF CommandKept
<1>3. raws[i] \in RawRecord
  BY <1>0, <1>2
<1>4. raws' = [raws EXCEPT ![i] = r]
  BY <1>0, <1>1
<1>5. /\ r \in RawRecord /\ r.kind = raws[i].kind /\ r.plan = raws[i].plan /\ r.audit = "signed"
      /\ r.chain = raws[i].chain /\ r.gross = raws[i].gross /\ r.cost = raws[i].cost
  BY <1>2, <1>3 DEF RawRecord
<1>6. command' \in CommandRecord /\ command'.pc = "sent" /\ command'.raw = i
  BY <1>0, <1>1 DEF CommandRecord
<1>7. DOMAIN raws' = DOMAIN raws /\ raws'[i] = r
  BY <1>0, <1>2, <1>4
<1> HIDE DEF r, i
<1>8. CommandKept'
  BY <1>2, <1>5, <1>6, <1>7 DEF CommandKept
<1>9. r.kind = "deploy" /\ r.chain = "success" => ledger.executor = i \/ (ledger.executor = 0 /\ r.audit = "signed")
  BY <1>0, <1>2, <1>5 DEF ExecutorKept
<1>10. UNCHANGED ledger /\ held' \in Nat /\ UNCHANGED authority
  BY <1>0, <1>1
<1> QED
  BY <1>2, <1>4, <1>5, <1>6, <1>8, <1>9, <1>10, GlobalRewrites

LEMMA GlobalCloses ==
  ASSUME GlobalInv, Global!AuditReverted \/ Global!AuditEffect PROVE GlobalInv'
<1>0. /\ raws \in Seq(RawRecord) /\ held \in Nat /\ command \in CommandRecord
      /\ RawsKept /\ ListedKept /\ ExecutorKept /\ CommandKept
  BY DEF GlobalInv, GlobalTypes
<1> DEFINE i == command.raw
<1>1. PICK result \in {"reverted", "effect"} :
        /\ UNCHANGED <<ledger, held, authority>> /\ Global!leaves
        /\ raws' = [raws EXCEPT ![i].audit = result]
        /\ result = "reverted" => command.pc \in {"sent", "judging"} /\ raws[i].chain = "reverted"
        /\ result = "effect" => command.pc = "written"
  BY DEF Global!AuditReverted, Global!AuditEffect, Global!closes
<1> DEFINE r == [raws[i] EXCEPT !.audit = result]
<1>2. /\ i \in DOMAIN raws
      /\ result = "effect" => /\ raws[i].chain = "success"
                              /\ raws[i].kind = "execute" => Listing(i)
                              /\ raws[i].kind = "deploy" => ledger.executor = i
  BY <1>0, <1>1 DEF CommandKept
<1>3. raws[i] \in RawRecord
  BY <1>0, <1>2
<1>4. raws' = [raws EXCEPT ![i] = r]
  BY <1>0, <1>1
<1>5. /\ r \in RawRecord /\ r.kind = raws[i].kind /\ r.plan = raws[i].plan /\ r.audit = result
      /\ r.chain = raws[i].chain /\ r.gross = raws[i].gross /\ r.cost = raws[i].cost
  BY <1>3 DEF RawRecord
<1>6. command' \in CommandRecord /\ CommandKept'
  BY <1>1, GlobalLeaves
<1>7. UNCHANGED ledger /\ held' \in Nat /\ UNCHANGED authority
  BY <1>0, <1>1
<1> HIDE DEF r, i
<1>8. r.kind = "deploy" => /\ r.chain = "success" => ledger.executor = i \/ (ledger.executor = 0 /\ r.audit = "signed")
                           /\ r.audit = "effect" => ledger.executor = i
  BY <1>1, <1>2, <1>5
<1>9. /\ r.audit = "reverted" => r.chain = "reverted"
      /\ r.audit = "effect" => r.chain = "success"
      /\ r.audit = "effect" /\ r.kind = "execute" => Listing(i)
      /\ r.audit # "signed"
  BY <1>1, <1>2, <1>5
<1> QED
  BY <1>2, <1>4, <1>5, <1>6, <1>7, <1>8, <1>9, GlobalRewrites

LEMMA GlobalSigns == ASSUME GlobalInv, Global!SignPersisted PROVE GlobalInv'
<1>0. /\ raws \in Seq(RawRecord) /\ held \in Nat /\ command \in CommandRecord
      /\ authority \in [id : Nat, live : BOOLEAN] /\ ledger \in LedgerRecord
      /\ RawsKept /\ ListedKept /\ ExecutorKept /\ CommandKept
  BY DEF GlobalInv, GlobalTypes
<1>1. UNCHANGED <<ledger, held, authority>> /\ command.pc = "planned"
  BY DEF Global!SignPersisted
<1> DEFINE r == [kind |-> command.kind, auth |-> command.auth, plan |-> command.plan, audit |-> "signed",
                 sent |-> FALSE, chain |-> "none", gross |-> 0, after |-> 0, cost |-> 0]
           n == Len(raws) + 1
<1>2. \/ Global!leaves /\ UNCHANGED raws
      \/ raws' = Append(raws, r) /\ command' = [command EXCEPT !.pc = "signed", !.raw = n]
  BY DEF Global!SignPersisted
<1>3. CASE Global!leaves /\ UNCHANGED raws
  BY <1>0, <1>1, <1>3, GlobalQuiet, GlobalLeaves
<1>4. CASE raws' = Append(raws, r) /\ command' = [command EXCEPT !.pc = "signed", !.raw = n]
  <2>1. /\ command.plan.nonce = Len(raws) /\ command.kind \in {"deploy", "execute"}
        /\ command.kind = "deploy" => ledger.executor = 0
        /\ \A j \in DOMAIN raws : raws[j].audit # "signed"
    BY <1>0, <1>1 DEF CommandKept
  <2>2. r \in RawRecord
    BY <1>0, <2>1 DEF RawRecord, CommandRecord
  <2>3. /\ r.kind = command.kind /\ r.plan.nonce = n - 1 /\ r.audit = "signed" /\ r.chain = "none" /\ n \in Nat
        /\ n # 0
    BY <1>0, <2>1
  <2>4. command' \in CommandRecord /\ command'.pc = "signed" /\ command'.raw = n
    BY <1>0, <1>4, <2>3 DEF CommandRecord
  <2>5. /\ raws' \in Seq(RawRecord) /\ Len(raws') = n /\ DOMAIN raws' = DOMAIN raws \cup {n} /\ n \notin DOMAIN raws
        /\ raws'[n] = r /\ \A j \in DOMAIN raws : raws'[j] = raws[j]
    <3> HIDE DEF r
    <3> QED
      BY <1>0, <1>4, <2>2
  <2> HIDE DEF r, n
  <2>6. GlobalTypes'
    BY <1>0, <1>1, <2>4, <2>5 DEF GlobalTypes
  <2>7. \A j : Listing(j)' <=> Listing(j)
    BY <1>1 DEF Listing
  <2>8. RawsKept'
    BY <1>0, <2>1, <2>3, <2>5, <2>7 DEF RawsKept
  <2>9. ListedKept'
    BY <1>0, <1>1, <2>5 DEF ListedKept
  <2>10. ExecutorKept'
    BY <1>0, <1>1, <2>1, <2>3, <2>5 DEF ExecutorKept
  <2>11. CommandKept'
    BY <2>3, <2>4, <2>5 DEF CommandKept
  <2> QED
    BY <2>6, <2>8, <2>9, <2>10, <2>11 DEF GlobalInv
<1> QED
  BY <1>2, <1>3, <1>4

LEMMA GlobalWrites ==
  ASSUME GlobalInv, Global!WriteDeployment \/ Global!WriteExecution PROVE GlobalInv'
<1>0. /\ raws \in Seq(RawRecord) /\ held \in Nat /\ command \in CommandRecord
      /\ authority \in [id : Nat, live : BOOLEAN] /\ ledger \in LedgerRecord
      /\ RawsKept /\ ListedKept /\ ExecutorKept /\ CommandKept
  BY DEF GlobalInv, GlobalTypes
<1>i. PICK i \in Nat : i = command.raw
  BY <1>0 DEF CommandRecord
<1>1. /\ UNCHANGED <<raws, held, authority>> /\ command.pc \in {"sent", "judging"} /\ raws[i].chain = "success"
  BY <1>i DEF Global!WriteDeployment, Global!WriteExecution
<1>2. /\ i \in DOMAIN raws /\ raws[i].audit = "signed" /\ i # 0
  BY <1>0, <1>1, <1>i DEF CommandKept
<1>3. raws[i] \in RawRecord
  BY <1>0, <1>2
<1>4. CASE Global!leaves /\ UNCHANGED ledger
  BY <1>0, <1>1, <1>4, GlobalQuiet, GlobalLeaves
<1>5. ASSUME command' = [command EXCEPT !.pc = "written"], ledger' \in LedgerRecord, ListedKept', ExecutorKept',
             \A j : Listing(j) => Listing(j)',
             raws[i].kind = "execute" => Listing(i)', raws[i].kind = "deploy" => ledger'.executor = i
      PROVE  GlobalInv'
  <2>1. command' \in CommandRecord /\ command'.pc = "written" /\ command'.raw = i
    BY <1>0, <1>5, <1>i DEF CommandRecord
  <2>2. GlobalTypes'
    BY <1>0, <1>1, <1>5, <2>1 DEF GlobalTypes
  <2>3. RawsKept'
    BY <1>0, <1>1, <1>5 DEF RawsKept
  <2>4. CommandKept'
    BY <1>1, <1>2, <1>5, <2>1 DEF CommandKept
  <2> QED
    BY <1>5, <2>2, <2>3, <2>4 DEF GlobalInv
<1>6. ASSUME raws[i].kind = "deploy", ledger.executor \in {0, i}, command' = [command EXCEPT !.pc = "written"],
             ledger' = [ledger EXCEPT !.executor = i,
                                      !.status = IF ledger.status = "none" THEN "deployed" ELSE ledger.status]
      PROVE  GlobalInv'
  <2>1. ledger' \in LedgerRecord /\ ledger'.executor = i /\ ledger'.listed = ledger.listed
    BY <1>0, <1>2, <1>6 DEF LedgerRecord
  <2>2. ListedKept'
    BY <1>0, <1>1, <2>1 DEF ListedKept
  <2>3. ExecutorKept'
    <3>1. ASSUME NEW j \in DOMAIN raws, raws[j].kind = "deploy"
          PROVE  /\ raws[j].chain = "success" => j = i
                 /\ raws[j].audit = "signed" => j = i
                 /\ raws[j].audit = "effect" => j = i
      BY <1>0, <1>2, <1>6, <3>1 DEF ExecutorKept, RawsKept
    <3> QED
      BY <1>1, <1>2, <1>6, <2>1, <3>1 DEF ExecutorKept
  <2>4. \A j : Listing(j) => Listing(j)'
    BY <2>1 DEF Listing
  <2> QED
    BY <1>5, <1>6, <2>1, <2>2, <2>3, <2>4
<1>7. ASSUME raws[i].kind = "execute", command' = [command EXCEPT !.pc = "written"],
             ledger' = [ledger EXCEPT !.status = "live_net_validated", !.listed = Global!listedWith(i)]
      PROVE  GlobalInv'
  <2> DEFINE e == [raw |-> i, net |-> raws[i].gross - raws[i].cost]
  <2>1. e \in [raw : Nat, net : Int]
    BY <1>2, <1>3 DEF RawRecord
  <2>2. Global!listedWith(i) = IF Listing(i) THEN ledger.listed ELSE Append(ledger.listed, e)
    BY DEF Global!listedWith, Global!entry, Listing
  <2>3. CASE Listing(i)
    <3>1. ledger' \in LedgerRecord /\ ledger'.executor = ledger.executor /\ ledger'.listed = ledger.listed
      BY <1>0, <1>7, <2>2, <2>3 DEF LedgerRecord
    <3>2. ListedKept' /\ ExecutorKept'
      BY <1>0, <1>1, <3>1 DEF ListedKept, ExecutorKept
    <3>3. \A j : Listing(j) => Listing(j)'
      BY <3>1 DEF Listing
    <3> QED
      BY <1>5, <1>7, <2>3, <3>1, <3>2, <3>3
  <2>4. CASE ~Listing(i)
    <3>1. ledger.listed \in Seq([raw : Nat, net : Int])
      BY <1>0 DEF LedgerRecord
    <3>2. PICK list : list = Append(ledger.listed, e)
      OBVIOUS
    <3>3. /\ list \in Seq([raw : Nat, net : Int]) /\ DOMAIN list = DOMAIN ledger.listed \cup {Len(ledger.listed) + 1}
          /\ Len(ledger.listed) + 1 \notin DOMAIN ledger.listed /\ list[Len(ledger.listed) + 1] = e
          /\ \A k \in DOMAIN ledger.listed : list[k] = ledger.listed[k]
      <4> HIDE DEF e
      <4> QED
        BY SMTT(30), <2>1, <3>1, <3>2
    <3>4. PICK n : n = Len(ledger.listed) + 1
      OBVIOUS
    <3>5. /\ list \in Seq([raw : Nat, net : Int]) /\ DOMAIN list = DOMAIN ledger.listed \cup {n}
          /\ n \notin DOMAIN ledger.listed /\ list[n].raw = i /\ list[n].net = raws[i].gross - raws[i].cost
          /\ \A k \in DOMAIN ledger.listed : list[k] = ledger.listed[k]
      BY <3>3, <3>4
    <3>6. ledger' \in LedgerRecord /\ ledger'.executor = ledger.executor /\ ledger'.listed = list
      BY <1>0, <1>7, <2>2, <2>4, <3>2, <3>5 DEF LedgerRecord
    <3>7. \A k \in DOMAIN ledger.listed : ledger.listed[k].raw # i
      BY <2>4 DEF Listing
    <3>8. ListedKept'
      BY <1>0, <1>1, <1>2, <1>7, <3>5, <3>6, <3>7 DEF ListedKept
    <3>9. ExecutorKept'
      BY <1>0, <1>1, <3>6 DEF ExecutorKept
    <3>10. Listing(i)'
      BY <3>5, <3>6 DEF Listing
    <3>11. \A j : Listing(j) => Listing(j)'
      BY <3>5, <3>6 DEF Listing
    <3> QED
      BY <1>5, <1>7, <3>6, <3>8, <3>9, <3>10, <3>11
  <2> QED
    BY <2>3, <2>4
<1>8. CASE Global!WriteDeployment
  BY <1>4, <1>6, <1>8, <1>i DEF Global!WriteDeployment, Global!continues
<1>9. CASE Global!WriteExecution
  BY <1>4, <1>7, <1>9, <1>i DEF Global!WriteExecution, Global!continues
<1> QED
  BY <1>8, <1>9

LEMMA GlobalInvStep == ASSUME GlobalInv, Global!GlobalNext PROVE GlobalInv'
<1>1. \/ \E i \in DOMAIN raws, gross \in 0 .. MaxMarket, cost \in 0 .. MaxMarket : Global!MineRaw(i, gross, cost)
      \/ \/ Global!Gift \/ Global!ArmShared \/ Global!RevokeShared \/ Global!WatcherLeaves
         \/ Global!SearchEnds \/ Global!ReceiptUnknown \/ Global!KillProgram
      \/ \/ Global!StartDeploy \/ Global!FinalValidation
         \/ \E auth1 \in {0, authority.id} : Global!StartExecute(auth1) \/ Global!StartReconcile(auth1)
      \/ Global!SignPersisted
      \/ \E reached \in BOOLEAN : Global!BroadcastPersisted(reached)
      \/ Global!AuditReverted \/ Global!AuditEffect
      \/ Global!WriteDeployment \/ Global!WriteExecution
  BY DEF Global!GlobalNext, Global!Raws
<1> QED
  BY <1>1, GlobalMines, GlobalOutside, GlobalPlans, GlobalSigns, GlobalSends, GlobalCloses, GlobalWrites

(* LedgerMatchesChain and SignedInOrder, of any number of transactions. *)
LEMMA GlobalBooks == ASSUME GlobalInv PROVE Global!SignedInOrder /\ Global!LedgerMatchesChain
<1>0. /\ raws \in Seq(RawRecord) /\ ledger \in LedgerRecord /\ RawsKept /\ ListedKept /\ ExecutorKept
  BY DEF GlobalInv, GlobalTypes
<1> DEFINE listed == {ledger.listed[k].raw : k \in DOMAIN ledger.listed}
           deployed == {i \in DOMAIN raws : raws[i].kind = "deploy" /\ raws[i].chain = "success"}
<1>1. Global!SignedInOrder
  BY <1>0 DEF Global!SignedInOrder, Global!Raws, RawsKept
<1>2. Cardinality(listed) = Len(ledger.listed)
  <2>1. /\ Len(ledger.listed) \in Nat /\ DOMAIN ledger.listed = 1 .. Len(ledger.listed)
    BY <1>0 DEF LedgerRecord
  <2> DEFINE f == [k \in 1 .. Len(ledger.listed) |-> ledger.listed[k].raw]
  <2>2. \A k, m \in 1 .. Len(ledger.listed) : f[k] = f[m] => k = m
    BY <1>0, <2>1 DEF ListedKept
  <2>3. f \in [1 .. Len(ledger.listed) -> listed]
    BY <2>1
  <2>4. \A x \in listed : \E k \in 1 .. Len(ledger.listed) : f[k] = x
    BY <2>1
  <2> HIDE DEF f, listed
  <2> QED
    BY <2>1, <2>2, <2>3, <2>4, Counted
<1>3. Cardinality(deployed) <= 1
  <2>1. \A i, j \in deployed : i = j
    BY <1>0 DEF ExecutorKept, RawsKept
  <2> HIDE DEF deployed
  <2> QED
    BY <2>1, AtMostOne
<1>4. ledger.executor # 0 => ledger.executor \in deployed
  BY <1>0 DEF ExecutorKept
<1>5. \A i \in DOMAIN raws : /\ raws[i].audit = "reverted" => raws[i].chain = "reverted"
                             /\ raws[i].audit = "effect" => raws[i].chain = "success"
                             /\ (raws[i].audit = "effect" /\ raws[i].kind = "execute") => i \in listed
                             /\ (raws[i].audit = "effect" /\ raws[i].kind = "deploy") => ledger.executor = i
  BY <1>0 DEF RawsKept, ExecutorKept, Listing
<1>6. \A k \in DOMAIN ledger.listed :
        LET i == ledger.listed[k].raw IN
        raws[i].kind = "execute" /\ raws[i].chain = "success" /\ ledger.listed[k].net = raws[i].gross - raws[i].cost
  BY <1>0 DEF ListedKept
<1>7. Global!LedgerMatchesChain
  BY <1>2, <1>3, <1>4, <1>5, <1>6, GlobalCardinality DEF Global!LedgerMatchesChain, Global!Raws
<1> QED
  BY <1>1, <1>7

--------------------------------------------------------------------------------
(* The collector.  Its plan counts the nonces it will use from one that was     *)
(* read; that they are the next ones rests, at every target, on nothing being   *)
(* open, and so does the ETH it may still spend.                                *)

LEMMA CollectorAtRest ==
  /\ Collecting!NoRun = CollectorRest /\ CollectorRest \in CollectingRecord /\ CollectorRest.pc = "off"
  BY DEF Collecting!NoRun, Collecting!NoPlan, CollectorRest, Targets, CollectingRecord, FrozenPlan

LEMMA CollectorInvInit == ASSUME Init PROVE CollectorInv
<1>0. Retained \in Nat
  BY ProgramsAssumption DEF ProgramsAssumption
<1>1. Collecting!CollectorInit
  BY DEF Init
<1>2. /\ signed = <<>> /\ usdg = 0 /\ eth \in Retained + 2 .. Retained + 4
      /\ funds \in [Targets -> 0 .. 1] /\ collected = [t \in Targets |-> 0] /\ collecting = CollectorRest
  BY <1>1, CollectorAtRest DEF Collecting!CollectorInit, Targets
<1>3. eth \in Int /\ eth >= Retained
  BY <1>0, <1>2
<1>4. CollectorTypes
  BY <1>2, <1>3, CollectorAtRest DEF CollectorTypes
<1>5. DOMAIN signed = {} /\ \A t \in Targets : collected[t] = 0
  BY <1>2
<1>6. collecting.pc = "off"
  BY <1>2, CollectorAtRest
<1> QED
  BY <1>3, <1>4, <1>5, <1>6 DEF CollectorInv, WithdrawalsKept, StatesKept, CollectingKept

LEMMA CollectorCardinality == \A S : Collecting!Cardinality(S) = Cardinality(S)
  BY DEF Collecting!Cardinality, Cardinality

(* Nothing open: the nonce the chain counts is the number of those signed. *)
LEMMA CollectorMined ==
  ASSUME CollectorInv, \A i \in DOMAIN signed : signed[i].audit # "signed"
  PROVE  /\ Collecting!Cardinality(Collecting!Mined) = Len(signed)
         /\ \A i \in DOMAIN signed : signed[i].chain # "none"
<1>1. signed \in Seq(WithdrawalRecord) /\ DOMAIN signed = 1 .. Len(signed) /\ Len(signed) \in Nat
  BY DEF CollectorInv, CollectorTypes
<1>2. \A i \in DOMAIN signed : signed[i] \in WithdrawalRecord
  BY <1>1
<1>3. \A i \in DOMAIN signed : signed[i].audit \in {"signed", "effect", "reverted"}
  BY <1>2 DEF WithdrawalRecord
<1>4. \A i \in DOMAIN signed : signed[i].chain # "none"
  BY <1>3 DEF CollectorInv, WithdrawalsKept
<1>5. Collecting!Mined = 1 .. Len(signed)
  BY <1>1, <1>4 DEF Collecting!Mined, Collecting!Signed
<1> QED
  BY <1>1, <1>4, <1>5, CountTo, CollectorCardinality

(* What was signed, the wallet's ETH and the state files stand still. *)
LEMMA CollectorQuiet ==
  ASSUME CollectorInv, UNCHANGED <<signed, eth, collected>>, usdg' \in Nat, funds' \in [Targets -> Nat],
         collecting' \in CollectingRecord, CollectingKept'
  PROVE  CollectorInv'
  BY DEF CollectorInv, CollectorTypes, WithdrawalsKept, StatesKept

LEMMA CollectorLeaves ==
  ASSUME CollectorInv, Collecting!leaves \/ collecting' = Collecting!NoRun
  PROVE  collecting' \in CollectingRecord /\ CollectingKept'
<1>1. collecting' = CollectorRest
  BY CollectorAtRest DEF Collecting!leaves
<1> QED
  BY <1>1, CollectorAtRest DEF CollectingKept

(* One withdrawal is rewritten: what was known of it stays true. *)
LEMMA WithdrawalRewrites ==
  ASSUME CollectorInv, usdg' \in Nat, funds' \in [Targets -> Nat], UNCHANGED collected,
         eth' \in Int, eth' >= Retained, collecting' \in CollectingRecord, CollectingKept',
         NEW i \in DOMAIN signed, NEW r \in WithdrawalRecord, signed' = [signed EXCEPT ![i] = r],
         r.target = signed[i].target, r.nonce = signed[i].nonce, r.audit = "signed" => signed[i].audit = "signed",
         r.audit = "reverted" => r.chain = "reverted",
         r.audit = "effect" => r.chain = "success" /\ collected[r.target] >= i,
         signed[i].chain = "success" => r.chain = "success",
         r.chain = "none" => eth' >= Retained + r.fee,
         \A j \in DOMAIN signed : j # i /\ signed[j].chain = "none" => eth' >= Retained + signed[j].fee
  PROVE  CollectorInv'
<1>0. signed \in Seq(WithdrawalRecord) /\ WithdrawalsKept /\ StatesKept
  BY DEF CollectorInv, CollectorTypes
<1>1. /\ signed' \in Seq(WithdrawalRecord) /\ Len(signed') = Len(signed) /\ DOMAIN signed' = DOMAIN signed
      /\ signed'[i] = r /\ \A j \in DOMAIN signed : j # i => signed'[j] = signed[j]
  BY <1>0
<1>2. CollectorTypes'
  BY <1>1 DEF CollectorInv, CollectorTypes
<1>3. WithdrawalsKept'
  BY <1>0, <1>1 DEF WithdrawalsKept
<1>4. StatesKept'
  BY <1>0, <1>1 DEF StatesKept
<1> QED
  BY <1>2, <1>3, <1>4 DEF CollectorInv

(* The price is paid from what the wallet keeps for it. *)
LEMMA CollectorMines ==
  ASSUME CollectorInv, NEW i \in DOMAIN signed, NEW paid \in 1 .. MaxPrice + 1, Collecting!MineWithdrawal(i, paid)
  PROVE  CollectorInv'
<1>0. /\ signed \in Seq(WithdrawalRecord) /\ eth \in Int /\ usdg \in Nat /\ funds \in [Targets -> Nat]
      /\ collecting \in CollectingRecord /\ WithdrawalsKept /\ CollectingKept
      /\ Retained \in Nat /\ MaxPrice \in Nat
  BY ProgramsAssumption DEF CollectorInv, CollectorTypes, ProgramsAssumption
<1>1. signed[i] \in WithdrawalRecord /\ paid \in Nat
  BY <1>0
<1>2. /\ UNCHANGED <<collected, collecting>> /\ signed[i].chain = "none" /\ paid <= signed[i].fee /\ eth' = eth - paid
  BY DEF Collecting!MineWithdrawal
<1>3. signed[i].audit = "signed" /\ i = Len(signed) /\ eth >= Retained + signed[i].fee
  BY <1>0, <1>1, <1>2 DEF WithdrawalsKept, WithdrawalRecord
<1>4. signed[i].fee \in Nat
  BY <1>1 DEF WithdrawalRecord
<1>5. eth' \in Int /\ eth' >= Retained
  BY <1>0, <1>1, <1>2, <1>3, <1>4
<1>6. \A j \in DOMAIN signed : signed[j].chain = "none" => j = i
  <2>1. \A j \in DOMAIN signed : signed[j] \in WithdrawalRecord
    BY <1>0
  <2>2. \A j \in DOMAIN signed : signed[j].audit \in {"signed", "effect", "reverted"}
    BY <2>1 DEF WithdrawalRecord
  <2> QED
    BY <1>0, <1>3, <2>2 DEF WithdrawalsKept
<1>7. ASSUME NEW r \in WithdrawalRecord, signed' = [signed EXCEPT ![i] = r],
             r.target = signed[i].target, r.nonce = signed[i].nonce, r.audit = "signed", r.chain # "none",
             usdg' \in Nat, funds' \in [Targets -> Nat]
      PROVE  CollectorInv'
  <2>1. DOMAIN signed' = DOMAIN signed /\ Len(signed') = Len(signed)
        /\ signed'[i] = r /\ \A j \in DOMAIN signed : j # i => signed'[j] = signed[j]
    BY <1>0, <1>7
  <2>2. collecting' \in CollectingRecord /\ UNCHANGED collected
    BY <1>0, <1>2
  <2>3. CollectingKept'
    BY <1>0, <1>2, <1>3, <1>7, <2>1 DEF CollectingKept
  <2> QED
    BY <1>2, <1>3, <1>5, <1>6, <1>7, <2>2, <2>3, WithdrawalRewrites
<1>8. \/ /\ funds[signed[i].target] >= signed[i].amount
         /\ funds' = [funds EXCEPT ![signed[i].target] = funds[signed[i].target] - signed[i].amount]
         /\ usdg' = usdg + signed[i].amount
         /\ signed' = [signed EXCEPT ![i].chain = "success", ![i].paid = paid]
      \/ signed' = [signed EXCEPT ![i].chain = "reverted", ![i].paid = paid] /\ UNCHANGED <<funds, usdg>>
  BY DEF Collecting!MineWithdrawal
<1>9. CASE /\ funds[signed[i].target] >= signed[i].amount
           /\ funds' = [funds EXCEPT ![signed[i].target] = funds[signed[i].target] - signed[i].amount]
           /\ usdg' = usdg + signed[i].amount
           /\ signed' = [signed EXCEPT ![i].chain = "success", ![i].paid = paid]
  <2> DEFINE r == [signed[i] EXCEPT !.chain = "success", !.paid = paid]
  <2>1. signed' = [signed EXCEPT ![i] = r]
    BY <1>0, <1>9
  <2>2. /\ r \in WithdrawalRecord /\ r.target = signed[i].target /\ r.nonce = signed[i].nonce
        /\ r.audit = "signed" /\ r.chain # "none"
    BY <1>1, <1>3 DEF WithdrawalRecord
  <2>3. signed[i].amount \in Nat /\ signed[i].target \in Targets
    BY <1>1 DEF WithdrawalRecord
  <2>4. funds[signed[i].target] - signed[i].amount \in Nat /\ usdg + signed[i].amount \in Nat
    BY <1>0, <1>9, <2>3
  <2>5. usdg' \in Nat /\ funds' \in [Targets -> Nat]
    BY <1>0, <1>9, <2>4
  <2> HIDE DEF r
  <2> QED
    BY <1>7, <2>1, <2>2, <2>5
<1>10. CASE signed' = [signed EXCEPT ![i].chain = "reverted", ![i].paid = paid] /\ UNCHANGED <<funds, usdg>>
  <2> DEFINE r == [signed[i] EXCEPT !.chain = "reverted", !.paid = paid]
  <2>1. signed' = [signed EXCEPT ![i] = r]
    BY <1>0, <1>10
  <2>2. /\ r \in WithdrawalRecord /\ r.target = signed[i].target /\ r.nonce = signed[i].nonce
        /\ r.audit = "signed" /\ r.chain # "none"
    BY <1>1, <1>3 DEF WithdrawalRecord
  <2> HIDE DEF r
  <2> QED
    BY <1>0, <1>7, <1>10, <2>1, <2>2
<1> QED
  BY <1>8, <1>9, <1>10

(* What moves neither the withdrawals nor the ETH, towards the next target. *)
LEMMA CollectorOutside ==
  ASSUME CollectorInv,
         \/ \E t \in Targets : Collecting!GiftOf(t)
         \/ \E price \in 1 .. MaxPrice : Collecting!Freeze(price)
         \/ \E price \in 1 .. MaxPrice + 1 : Collecting!CheckTarget(price)
         \/ Collecting!OperatorUnlocks \/ Collecting!GiveUp \/ Collecting!Complete
         \/ Collecting!Reconcile \/ Collecting!KillCollector
  PROVE  CollectorInv'
<1>0. /\ signed \in Seq(WithdrawalRecord) /\ eth \in Int /\ usdg \in Nat /\ funds \in [Targets -> Nat]
      /\ collecting \in CollectingRecord /\ WithdrawalsKept /\ CollectingKept
      /\ Retained \in Nat /\ MaxPrice \in Nat
  BY ProgramsAssumption DEF CollectorInv, CollectorTypes, ProgramsAssumption
<1>a. Collecting!Unresolved = {} => \A i \in DOMAIN signed : signed[i].audit # "signed"
  BY DEF Collecting!Unresolved, Collecting!Signed
<1>b. ASSUME UNCHANGED <<signed, eth, collected, collecting>> PROVE CollectingKept'
  BY <1>0, <1>b DEF CollectingKept
<1>1. ASSUME NEW t \in Targets, Collecting!GiftOf(t) PROVE CollectorInv'
  <2>1. UNCHANGED <<signed, eth, collected, collecting>>
    BY <1>1 DEF Collecting!GiftOf
  <2>2. \/ usdg' = usdg + 1 /\ UNCHANGED funds
        \/ funds' = [funds EXCEPT ![t] = funds[t] + 1] /\ UNCHANGED usdg
    BY <1>1 DEF Collecting!GiftOf
  <2>3. usdg' \in Nat
    BY <1>0, <2>2
  <2>4. funds[t] + 1 \in Nat
    BY <1>0, <1>1
  <2>5. funds' \in [Targets -> Nat]
    BY <1>0, <2>2, <2>4
  <2> QED
    BY <1>0, <1>b, <2>1, <2>3, <2>5, CollectorQuiet
<1>2. ASSUME NEW price \in 1 .. MaxPrice, Collecting!Freeze(price) PROVE CollectorInv'
  <2>1. /\ UNCHANGED <<signed, eth, usdg, funds, collected>> /\ Collecting!Unresolved = {}
        /\ collecting' = [CollectorRest EXCEPT !.pc = "target",
                            !.plan = [left |-> Collecting!collectable, amount |-> funds, fee |-> Collecting!envelope(price),
                                      nonce |-> Collecting!Cardinality(Collecting!Mined)]]
    BY <1>2, CollectorAtRest DEF Collecting!Freeze
  <2>2. Collecting!Cardinality(Collecting!Mined) = Len(signed) /\ Len(signed) \in Nat
    BY <1>0, <1>a, <2>1, CollectorMined
  <2>3. Collecting!collectable \in SUBSET Targets /\ Collecting!envelope(price) \in Nat
    BY <1>0, <1>2 DEF Collecting!collectable, Collecting!envelope, Targets
  <2> DEFINE plan == [left |-> Collecting!collectable, amount |-> funds, fee |-> Collecting!envelope(price),
                      nonce |-> Collecting!Cardinality(Collecting!Mined)]
  <2>4. plan \in FrozenPlan
    BY <1>0, <2>2, <2>3 DEF FrozenPlan
  <2> HIDE DEF plan
  <2>5. collecting' = [CollectorRest EXCEPT !.pc = "target", !.plan = plan]
    BY <2>1 DEF plan
  <2>6. collecting' \in CollectingRecord /\ collecting'.pc = "target"
    BY <2>4, <2>5, CollectorAtRest DEF CollectingRecord
  <2>7. CollectingKept'
    BY <1>a, <2>1, <2>6 DEF CollectingKept
  <2> QED
    BY <1>0, <2>1, <2>6, <2>7, CollectorQuiet
<1>3. ASSUME NEW price \in 1 .. MaxPrice + 1, Collecting!CheckTarget(price) PROVE CollectorInv'
  <2>1. UNCHANGED <<signed, eth, usdg, funds, collected>> /\ collecting.pc = "target" /\ collecting.plan.left # {}
    BY <1>3 DEF Collecting!CheckTarget
  <2>2. \/ Collecting!leaves
        \/ /\ Collecting!Cardinality(Collecting!Mined) = collecting.plan.nonce /\ Collecting!coversRest
           /\ collecting' = [collecting EXCEPT !.pc = "planned", !.base = [usdg |-> usdg, eth |-> eth]]
    BY <1>3 DEF Collecting!CheckTarget
  <2>3. ASSUME Collecting!Cardinality(Collecting!Mined) = collecting.plan.nonce, Collecting!coversRest,
               collecting' = [collecting EXCEPT !.pc = "planned", !.base = [usdg |-> usdg, eth |-> eth]]
        PROVE  CollectorInv'
    <3>1. \A i \in DOMAIN signed : signed[i].audit # "signed"
      BY <1>0, <2>1 DEF CollectingKept
    <3>2. collecting.plan.nonce = Len(signed)
      BY <2>3, <3>1, CollectorMined
    <3>3. collecting.plan \in FrozenPlan
      BY <1>0 DEF CollectingRecord
    <3>4. eth >= Retained + collecting.plan.fee
      <4> DEFINE left == collecting.plan.left
                 fee == collecting.plan.fee
                 n == Cardinality(left)
      <4>1. left \in SUBSET Targets /\ fee \in Nat /\ left # {}
        BY <2>1, <3>3 DEF FrozenPlan
      <4>2. IsFiniteSet(left)
        <5>1. IsFiniteSet(Targets)
          <6>1. IsFiniteSet({"MANGA"}) /\ IsFiniteSet({"SPX"})
            BY FS_Singleton
          <6>2. IsFiniteSet({"MANGA"} \cup {"SPX"})
            BY <6>1, FS_Union
          <6>3. Targets = {"MANGA"} \cup {"SPX"}
            BY DEF Targets
          <6> QED
            BY <6>2, <6>3
        <5> HIDE DEF left
        <5> QED
          BY <4>1, <5>1, FS_Subset
      <4>3. n \in Nat /\ n # 0
        BY <4>1, <4>2, FS_CardinalityType, FS_EmptySet
      <4>4. eth >= Retained + n * fee
        BY <2>3, CollectorCardinality DEF Collecting!coversRest
      <4> HIDE DEF n, fee
      <4>5. n * fee >= fee
        BY <4>1, <4>3
      <4>6. n * fee \in Nat
        BY <4>1, <4>3
      <4> QED
        BY <1>0, <4>1, <4>4, <4>5, <4>6 DEF fee
    <3>5. /\ collecting' \in CollectingRecord /\ collecting'.pc = "planned" /\ collecting'.plan = collecting.plan
      <4>1. [usdg |-> usdg, eth |-> eth] \in [usdg : Nat, eth : Int]
        BY <1>0
      <4> QED
        BY <1>0, <2>3, <4>1 DEF CollectingRecord
    <3>6. CollectingKept'
      BY <2>1, <3>1, <3>2, <3>4, <3>5 DEF CollectingKept
    <3> QED
      BY <1>0, <2>1, <3>5, <3>6, CollectorQuiet
  <2> QED
    BY <1>0, <2>1, <2>2, <2>3, CollectorQuiet, CollectorLeaves
<1>4. CASE Collecting!OperatorUnlocks
  BY <1>0, <1>4, <1>b, CollectorQuiet DEF Collecting!OperatorUnlocks
<1>5. CASE Collecting!GiveUp \/ Collecting!Complete \/ Collecting!KillCollector
  BY <1>0, <1>5, CollectorQuiet, CollectorLeaves DEF Collecting!GiveUp, Collecting!Complete, Collecting!KillCollector
<1>6. CASE Collecting!Reconcile
  <2>1. UNCHANGED <<signed, eth, usdg, funds, collected>>
    BY <1>6 DEF Collecting!Reconcile
  <2>2. PICK i \in DOMAIN signed :
          signed[i].audit = "signed" /\ collecting' = [CollectorRest EXCEPT !.pc = "judging", !.raw = i]
    BY <1>6, CollectorAtRest DEF Collecting!Reconcile, Collecting!Unresolved, Collecting!Signed
  <2>3. i \in Nat
    BY <1>0
  <2>4. collecting' \in CollectingRecord /\ collecting'.pc = "judging" /\ collecting'.raw = i
    BY <2>2, <2>3, CollectorAtRest DEF CollectingRecord
  <2>5. CollectingKept'
    BY <2>1, <2>2, <2>4 DEF CollectingKept
  <2> QED
    BY <1>0, <2>1, <2>4, <2>5, CollectorQuiet
<1> QED
  BY <1>1, <1>2, <1>3, <1>4, <1>5, <1>6

LEMMA CollectorSigns == ASSUME CollectorInv, Collecting!SignWithdrawal PROVE CollectorInv'
<1>0. /\ signed \in Seq(WithdrawalRecord) /\ eth \in Int /\ usdg \in Nat /\ funds \in [Targets -> Nat]
      /\ collected \in [Targets -> Nat] /\ collecting \in CollectingRecord /\ eth >= Retained
      /\ WithdrawalsKept /\ StatesKept /\ CollectingKept
  BY DEF CollectorInv, CollectorTypes
<1>1. UNCHANGED <<eth, usdg, funds, collected>> /\ collecting.pc = "planned"
  BY DEF Collecting!SignWithdrawal
<1>2. /\ collecting.plan.left # {} /\ collecting.plan.nonce = Len(signed) /\ eth >= Retained + collecting.plan.fee
      /\ \A j \in DOMAIN signed : signed[j].audit # "signed"
  BY <1>0, <1>1 DEF CollectingKept
<1>3. \A j \in DOMAIN signed : signed[j].chain # "none"
  BY <1>2, CollectorMined
<1>4. collecting.plan \in FrozenPlan /\ collecting.base \in [usdg : Nat, eth : Int]
  BY <1>0 DEF CollectingRecord
<1>5. Collecting!current \in Targets
  <2>1. collecting.plan.left \in SUBSET Targets
    BY <1>4 DEF FrozenPlan
  <2> DEFINE place == [MANGA |-> 1, SPX |-> 2]
  <2>2. \E t \in collecting.plan.left : \A u \in collecting.plan.left : place[t] <= place[u]
    BY <1>2, <2>1 DEF Targets
  <2>3. Collecting!current = CHOOSE t \in collecting.plan.left : \A u \in collecting.plan.left : place[t] <= place[u]
    BY DEF Collecting!current
  <2> HIDE DEF place
  <2>4. (CHOOSE t \in collecting.plan.left : \A u \in collecting.plan.left : place[t] <= place[u]) \in collecting.plan.left
    BY <2>2
  <2> QED
    BY <2>1, <2>3, <2>4
<1> DEFINE r == [target |-> Collecting!current, amount |-> collecting.plan.amount[Collecting!current],
                 fee |-> collecting.plan.fee, nonce |-> collecting.plan.nonce, base |-> collecting.base,
                 audit |-> "signed", sent |-> FALSE, chain |-> "none", paid |-> 0]
<1>6. signed' = Append(signed, r) /\ collecting' = [collecting EXCEPT !.pc = "signed", !.raw = Len(signed) + 1]
  BY DEF Collecting!SignWithdrawal
<1>7. PICK n : n = Len(signed) + 1
  OBVIOUS
<1>8. n \in Nat /\ Len(signed) \in Nat
  BY <1>0, <1>7
<1>9. r \in WithdrawalRecord
  <2>1. collecting.plan.amount[Collecting!current] \in Nat /\ collecting.plan.fee \in Nat /\ collecting.plan.nonce \in Nat
    BY <1>4, <1>5 DEF FrozenPlan
  <2> HIDE DEF Collecting!current
  <2> QED
    BY <1>4, <1>5, <2>1 DEF WithdrawalRecord
<1>10. r.nonce = n - 1 /\ r.audit = "signed" /\ r.chain = "none" /\ eth >= Retained + r.fee
  BY <1>2, <1>7, <1>8
<1>11. collecting' \in CollectingRecord /\ collecting'.pc = "signed" /\ collecting'.raw = n
  BY <1>0, <1>6, <1>7, <1>8 DEF CollectingRecord
<1> HIDE DEF r
<1>12. /\ signed' \in Seq(WithdrawalRecord) /\ Len(signed') = n /\ DOMAIN signed' = DOMAIN signed \cup {n}
       /\ n \notin DOMAIN signed /\ signed'[n] = r /\ \A j \in DOMAIN signed : signed'[j] = signed[j]
  BY <1>0, <1>6, <1>7, <1>9
<1>13. CollectorTypes'
  BY <1>0, <1>1, <1>11, <1>12 DEF CollectorTypes
<1>14. WithdrawalsKept'
  BY <1>0, <1>1, <1>2, <1>3, <1>10, <1>12 DEF WithdrawalsKept
<1>15. StatesKept'
  BY <1>0, <1>1, <1>12 DEF StatesKept
<1>16. CollectingKept'
  BY <1>10, <1>11, <1>12 DEF CollectingKept
<1> QED
  BY <1>0, <1>1, <1>13, <1>14, <1>15, <1>16 DEF CollectorInv

LEMMA CollectorSends ==
  ASSUME CollectorInv, NEW reached \in BOOLEAN, Collecting!SendWithdrawal(reached) PROVE CollectorInv'
<1>0. /\ signed \in Seq(WithdrawalRecord) /\ eth \in Int /\ usdg \in Nat /\ funds \in [Targets -> Nat]
      /\ collecting \in CollectingRecord /\ eth >= Retained /\ WithdrawalsKept /\ CollectingKept
  BY DEF CollectorInv, CollectorTypes
<1>1. PICK i : i = collecting.raw
  OBVIOUS
<1> DEFINE r == [signed[i] EXCEPT !.sent = reached]
<1>2. /\ UNCHANGED <<eth, usdg, funds, collected>> /\ collecting.pc = "signed"
      /\ signed' = [signed EXCEPT ![i].sent = reached] /\ collecting' = [collecting EXCEPT !.pc = "sent"]
  BY <1>1 DEF Collecting!SendWithdrawal, Collecting!continues
<1>3. i \in DOMAIN signed /\ signed[i].audit = "signed"
  BY <1>0, <1>1, <1>2 DEF CollectingKept
<1>4. signed[i] \in WithdrawalRecord
  BY <1>0, <1>3
<1>5. signed' = [signed EXCEPT ![i] = r]
  BY <1>0, <1>2
<1>6. /\ r \in WithdrawalRecord /\ r.target = signed[i].target /\ r.nonce = signed[i].nonce /\ r.audit = "signed"
      /\ r.chain = signed[i].chain /\ r.fee = signed[i].fee
  BY <1>3, <1>4 DEF WithdrawalRecord
<1>7. collecting' \in CollectingRecord /\ collecting'.pc = "sent" /\ collecting'.raw = i
  BY <1>0, <1>1, <1>2 DEF CollectingRecord
<1>8. DOMAIN signed' = DOMAIN signed /\ signed'[i] = r
  BY <1>0, <1>3, <1>5
<1> HIDE DEF r
<1>9. CollectingKept'
  BY <1>3, <1>6, <1>7, <1>8 DEF CollectingKept
<1>10. \A j \in DOMAIN signed : signed[j].chain = "none" => eth' >= Retained + signed[j].fee
  BY <1>0, <1>2 DEF WithdrawalsKept
<1>11. usdg' \in Nat /\ funds' \in [Targets -> Nat] /\ UNCHANGED collected /\ eth' \in Int /\ eth' >= Retained
  BY <1>0, <1>2
<1> QED
  BY <1>3, <1>5, <1>6, <1>7, <1>9, <1>10, <1>11, WithdrawalRewrites

LEMMA CollectorCloses ==
  ASSUME CollectorInv, Collecting!AuditReverted \/ Collecting!CloseWithdrawal PROVE CollectorInv'
<1>0. /\ signed \in Seq(WithdrawalRecord) /\ eth \in Int /\ usdg \in Nat /\ funds \in [Targets -> Nat]
      /\ collected \in [Targets -> Nat] /\ collecting \in CollectingRecord /\ eth >= Retained
      /\ WithdrawalsKept /\ CollectingKept
  BY DEF CollectorInv, CollectorTypes
<1>1. PICK i : i = collecting.raw
  OBVIOUS
<1>2. PICK result \in {"reverted", "effect"} :
        /\ UNCHANGED <<eth, usdg, funds, collected>>
        /\ signed' = [signed EXCEPT ![i].audit = result]
        /\ result = "reverted" => collecting.pc \in {"sent", "judging"} /\ signed[i].chain = "reverted"
        /\ result = "effect" => collecting.pc \in {"booked", "rebooked"}
        /\ \/ Collecting!leaves
           \/ collecting' = [collecting EXCEPT !.pc = "target", !.plan.left = collecting.plan.left \ {Collecting!current},
                                               !.plan.nonce = collecting.plan.nonce + 1]
  BY <1>1 DEF Collecting!AuditReverted, Collecting!CloseWithdrawal
<1> DEFINE r == [signed[i] EXCEPT !.audit = result]
<1>3. /\ i \in DOMAIN signed /\ signed[i].audit = "signed" /\ i = Len(signed)
      /\ result = "effect" => signed[i].chain = "success" /\ collected[signed[i].target] = i
  BY <1>0, <1>1, <1>2 DEF CollectingKept, WithdrawalsKept
<1>4. signed[i] \in WithdrawalRecord /\ i \in Nat
  BY <1>0, <1>3
<1>5. signed' = [signed EXCEPT ![i] = r]
  BY <1>0, <1>2
<1>6. /\ r \in WithdrawalRecord /\ r.target = signed[i].target /\ r.nonce = signed[i].nonce /\ r.audit = result
      /\ r.chain = signed[i].chain /\ r.fee = signed[i].fee
  BY <1>4 DEF WithdrawalRecord
<1>7. /\ DOMAIN signed' = DOMAIN signed /\ signed'[i] = r /\ \A j \in DOMAIN signed : j # i => signed'[j] = signed[j]
  BY <1>0, <1>3, <1>5
<1> HIDE DEF r
<1>8. \A j \in DOMAIN signed' : signed'[j].audit # "signed"
  BY <1>0, <1>2, <1>3, <1>6, <1>7 DEF WithdrawalsKept
<1>9. collecting' \in CollectingRecord /\ CollectingKept'
  <2>1. CASE Collecting!leaves
    BY <2>1, CollectorLeaves
  <2>2. CASE collecting' = [collecting EXCEPT !.pc = "target", !.plan.left = collecting.plan.left \ {Collecting!current},
                                              !.plan.nonce = collecting.plan.nonce + 1]
    <3> DEFINE plan == [collecting.plan EXCEPT !.left = collecting.plan.left \ {Collecting!current},
                                               !.nonce = collecting.plan.nonce + 1]
    <3>1. collecting.plan \in FrozenPlan
      BY <1>0 DEF CollectingRecord
    <3>2. plan \in FrozenPlan
      <4>1. collecting.plan.left \ {Collecting!current} \in SUBSET Targets /\ collecting.plan.nonce + 1 \in Nat
        BY <3>1 DEF FrozenPlan
      <4> QED
        BY <3>1, <4>1 DEF FrozenPlan
    <3>3. collecting' = [collecting EXCEPT !.pc = "target", !.plan = plan]
      BY <1>0, <2>2 DEF CollectingRecord
    <3> HIDE DEF plan
    <3>4. collecting' \in CollectingRecord /\ collecting'.pc = "target"
      BY <1>0, <3>2, <3>3 DEF CollectingRecord
    <3>5. CollectingKept'
      BY <1>8, <3>4 DEF CollectingKept
    <3> QED
      BY <3>4, <3>5
  <2> QED
    BY <1>2, <2>1, <2>2
<1>10. /\ r.audit = "reverted" => r.chain = "reverted"
       /\ r.audit = "effect" => r.chain = "success" /\ collected[r.target] >= i
       /\ r.audit # "signed" /\ r.chain # "none"
  BY <1>2, <1>3, <1>4, <1>6
<1>11. \A j \in DOMAIN signed : signed[j].chain = "none" => eth' >= Retained + signed[j].fee
  BY <1>0, <1>2 DEF WithdrawalsKept
<1>12. usdg' \in Nat /\ funds' \in [Targets -> Nat] /\ UNCHANGED collected /\ eth' \in Int /\ eth' >= Retained
  BY <1>0, <1>2
<1> QED
  BY <1>3, <1>5, <1>6, <1>9, <1>10, <1>11, <1>12, WithdrawalRewrites

LEMMA CollectorBooksOne == ASSUME CollectorInv, Collecting!BookWithdrawal PROVE CollectorInv'
<1>0. /\ signed \in Seq(WithdrawalRecord) /\ eth \in Int /\ usdg \in Nat /\ funds \in [Targets -> Nat]
      /\ collected \in [Targets -> Nat] /\ collecting \in CollectingRecord /\ eth >= Retained
      /\ WithdrawalsKept /\ StatesKept /\ CollectingKept
  BY DEF CollectorInv, CollectorTypes
<1>1. PICK i : i = collecting.raw
  OBVIOUS
<1>2. PICK pc1 \in {"booked", "rebooked"} :
        /\ UNCHANGED <<signed, eth, usdg, funds>> /\ collecting.pc \in {"sent", "judging"} /\ signed[i].chain = "success"
        /\ collected' = [collected EXCEPT ![signed[i].target] = i] /\ collecting' = [collecting EXCEPT !.pc = pc1]
  BY <1>1 DEF Collecting!BookWithdrawal
<1>3. i \in DOMAIN signed /\ signed[i].audit = "signed" /\ i = Len(signed) /\ i \in Nat
  BY <1>0, <1>1, <1>2 DEF CollectingKept, WithdrawalsKept
<1>4. signed[i] \in WithdrawalRecord
  BY <1>0, <1>3
<1>5. signed[i].target \in Targets
  BY <1>4 DEF WithdrawalRecord
<1>6. /\ collected' \in [Targets -> Nat] /\ collected'[signed[i].target] = i
      /\ \A t \in Targets : t # signed[i].target => collected'[t] = collected[t]
  BY <1>0, <1>2, <1>3, <1>5
<1>7. collecting' \in CollectingRecord /\ collecting'.pc = pc1 /\ collecting'.raw = i
  BY <1>0, <1>1, <1>2 DEF CollectingRecord
<1>8. CollectorTypes'
  BY <1>0, <1>2, <1>6, <1>7 DEF CollectorTypes
<1>9. WithdrawalsKept'
  <2>1. \A j \in DOMAIN signed : signed[j] \in WithdrawalRecord /\ j <= i /\ j \in Nat
    BY <1>0, <1>3
  <2>2. \A j \in DOMAIN signed : signed[j].target \in Targets
    BY <2>1 DEF WithdrawalRecord
  <2>3. \A j \in DOMAIN signed : collected[signed[j].target] >= j => collected'[signed[j].target] >= j
    BY <1>6, <2>1, <2>2
  <2> QED
    BY <1>0, <1>2, <2>3 DEF WithdrawalsKept
<1>10. StatesKept'
  BY <1>0, <1>2, <1>3, <1>6 DEF StatesKept
<1>11. CollectingKept'
  BY <1>2, <1>3, <1>6, <1>7 DEF CollectingKept
<1> QED
  BY <1>0, <1>2, <1>8, <1>9, <1>10, <1>11 DEF CollectorInv

LEMMA CollectorInvStep == ASSUME CollectorInv, Collecting!CollectorNext PROVE CollectorInv'
<1>1. \/ \E i \in DOMAIN signed, paid \in 1 .. MaxPrice + 1 : Collecting!MineWithdrawal(i, paid)
      \/ \/ \E t \in Targets : Collecting!GiftOf(t)
         \/ \E price \in 1 .. MaxPrice : Collecting!Freeze(price)
         \/ \E price \in 1 .. MaxPrice + 1 : Collecting!CheckTarget(price)
         \/ Collecting!OperatorUnlocks \/ Collecting!GiveUp \/ Collecting!Complete
         \/ Collecting!Reconcile \/ Collecting!KillCollector
      \/ Collecting!SignWithdrawal \/ \E reached \in BOOLEAN : Collecting!SendWithdrawal(reached)
      \/ Collecting!AuditReverted \/ Collecting!CloseWithdrawal \/ Collecting!BookWithdrawal
  BY DEF Collecting!CollectorNext, Collecting!Signed, Targets
<1> QED
  BY <1>1, CollectorMines, CollectorOutside, CollectorSigns, CollectorSends, CollectorCloses, CollectorBooksOne

(* SignedInOrder, StatesMatchChain and RetainedKept, of any number of targets'  *)
(* withdrawals.                                                                 *)
LEMMA CollectorBooks ==
  ASSUME CollectorInv
  PROVE  Collecting!SignedInOrder /\ Collecting!StatesMatchChain /\ Collecting!RetainedKept
<1>0. /\ signed \in Seq(WithdrawalRecord) /\ eth >= Retained /\ WithdrawalsKept /\ StatesKept
  BY DEF CollectorInv, CollectorTypes
<1>1. \A i \in DOMAIN signed : signed[i].audit \in {"signed", "effect", "reverted"}
  <2>1. \A i \in DOMAIN signed : signed[i] \in WithdrawalRecord
    BY <1>0
  <2> QED
    BY <2>1 DEF WithdrawalRecord
<1>2. Collecting!SignedInOrder
  BY <1>0 DEF Collecting!SignedInOrder, Collecting!Signed, WithdrawalsKept
<1>3. Collecting!StatesMatchChain
  BY <1>0 DEF Collecting!StatesMatchChain, Collecting!Signed, WithdrawalsKept, StatesKept, Targets
<1> DEFINE open == {i \in DOMAIN signed : signed[i].chain = "none"}
<1>4. \A a, b \in open : a = b
  BY <1>0, <1>1 DEF WithdrawalsKept
<1>5. \A i \in open : eth >= Retained + signed[i].fee
  BY <1>0 DEF WithdrawalsKept
<1>6. Cardinality(open) <= 1
  <2> HIDE DEF open
  <2> QED
    BY <1>4, AtMostOne
<1>7. Collecting!RetainedKept
  BY <1>0, <1>5, <1>6, CollectorCardinality DEF Collecting!RetainedKept, Collecting!Signed
<1> QED
  BY <1>2, <1>3, <1>7

--------------------------------------------------------------------------------
(* The fixed lane's nonces and books.  Whoever may sign holds the lock, found   *)
(* nothing open and has the next nonce; a deployment is signed before any       *)
(* execution, so that what it writes to the state file loses none.              *)

LEMMA FixedInvInit == ASSUME Init PROVE FixedInv
<1>1. Fixed!LaneInit
  BY DEF Init
<1>2. /\ txs = <<>> /\ state = [status |-> "none", executions |-> <<>>]
      /\ arm = [status |-> "none", id |-> 0, nonce |-> 0, count |-> 0, attempts |-> 0, failed |-> 0]
      /\ jobs = [p \in Workers |-> [pc |-> "idle", kind |-> "none", nonce |-> 0, tx |-> 0]]
      /\ watch = [pc |-> "off", status |-> "none", errors |-> 0, last |-> 0, target |-> 0, stop |-> FALSE, arm |-> 0]
  BY <1>1 DEF Fixed!LaneInit, Fixed!NoJob, Fixed!NoWatch, Fixed!Procs, Workers
<1>3. \A p \in Workers : jobs[p].pc = "idle"
  BY <1>2
<1>4. FixedTypes
  BY <1>2 DEF FixedTypes, StateRecord, JobRecord
<1>5. ArmNumbers
  BY <1>2 DEF ArmNumbers, Numbered
<1>6. DOMAIN txs = {} /\ DOMAIN state.executions = {}
  BY <1>2
<1> QED
  BY <1>3, <1>4, <1>5, <1>6 DEF FixedInv, TxsKept, StateKept, DeployedFirst, Alone, JobsKept, JobKept

LEMMA FixedCardinality == \A S : Fixed!Cardinality(S) = Cardinality(S)
  BY DEF Fixed!Cardinality, Cardinality

(* Nothing open: the nonce the chain counts is the number of those signed. *)
LEMMA FixedMined ==
  ASSUME FixedInv, Fixed!Open = {}
  PROVE  /\ Fixed!MinedCount = Len(txs)
         /\ \A i \in DOMAIN txs : txs[i].audit # "signed"
<1>1. txs \in Seq(TxRecord) /\ DOMAIN txs = 1 .. Len(txs) /\ Len(txs) \in Nat
  BY DEF FixedInv, FixedTypes
<1>2. \A i \in DOMAIN txs : txs[i].audit # "signed"
  BY DEF Fixed!Open
<1>3. \A i \in DOMAIN txs : txs[i] \in TxRecord
  BY <1>1
<1>4. \A i \in DOMAIN txs : txs[i].audit \in {"signed", "effect", "reverted"}
  BY <1>3 DEF TxRecord
<1>5. \A i \in DOMAIN txs : txs[i].chain # "none"
  BY <1>2, <1>4 DEF FixedInv, TxsKept
<1>6. {i \in DOMAIN txs : txs[i].chain # "none"} = 1 .. Len(txs)
  BY <1>1, <1>5
<1> QED
  BY <1>1, <1>2, <1>6, CountTo, FixedCardinality DEF Fixed!MinedCount

(* The authorization the watcher serves is one that was issued. *)
LEMMA FixedNumbers == ASSUME FixedInv, Fixed!LaneNext PROVE ArmNumbers'
<1>0. ArmNumbers
  BY DEF FixedInv
<1>1. \/ arm' = arm
      \/ \E n : arm' = [arm EXCEPT !.attempts = n]
      \/ \E n : arm' = [arm EXCEPT !.failed = n]
      \/ arm' = [status |-> "ARMED", id |-> arm.id + 1, nonce |-> arming.nonce, count |-> arming.count,
                 attempts |-> 0, failed |-> 0]
      \/ \E status : arm' = [arm EXCEPT !.status = status]
  BY DEF Fixed!LaneNext, Fixed!MineTx, Fixed!PoolEvent, Fixed!Preflight, Fixed!SignAndRecord, Fixed!Broadcast,
    Fixed!WriteSuccess, Fixed!AppendEffect, Fixed!WriteRevert, Fixed!AppendRevert, Fixed!CommandFails, Fixed!Kill,
    Fixed!CliEnds, Fixed!RecoverDeployment, Fixed!ReconcileSuccess, Fixed!ReconcileRevert, Fixed!ReconcileHalt,
    Fixed!RebroadcastSameRaw, Fixed!ArmRead, Fixed!ArmWrite, Fixed!Disarm, Fixed!Expire, Fixed!WatchStart,
    Fixed!WatchLoop, Fixed!WatchTarget, Fixed!WatchExecuted, Fixed!WatchRefused, Fixed!WatchRetry,
    Fixed!WatchQuote, Fixed!WatchHeartbeat, Fixed!WatchError, Fixed!appendReverted
<1>2. arm' = [status |-> arm'.status, id |-> arm'.id, nonce |-> arm'.nonce, count |-> arm'.count,
              attempts |-> arm'.attempts, failed |-> arm'.failed] /\ arm'.id \in Nat
  BY <1>0, <1>1 DEF ArmNumbers
<1>3. Numbered(watch')
  <2>0. Numbered(watch) /\ arm.id \in Nat
    BY <1>0 DEF ArmNumbers
  <2>1. Numbered(Fixed!NoWatch)
    BY DEF Numbered, Fixed!NoWatch
  <2>2. ASSUME NEW status, Fixed!stops(status) PROVE Numbered(watch')
    BY <2>1, <2>2 DEF Fixed!stops
  <2>3. ASSUME NEW p \in Fixed!Procs, Fixed!Kill(p) PROVE Numbered(watch')
    BY <2>0, <2>1, <2>3 DEF Fixed!Kill
  <2>4. CASE Fixed!Disarm
    BY <2>0, <2>4 DEF Fixed!Disarm, Numbered
  <2>5. CASE Fixed!WatchStart
    <3>1. \/ \E status : Fixed!stops(status)
          \/ watch' = [Fixed!NoWatch EXCEPT !.pc = "loop", !.arm = arm.id]
      BY <2>5 DEF Fixed!WatchStart
    <3>2. ASSUME watch' = [Fixed!NoWatch EXCEPT !.pc = "loop", !.arm = arm.id] PROVE Numbered(watch')
      BY <2>0, <3>2 DEF Numbered, Fixed!NoWatch
    <3> QED
      BY <2>2, <3>1, <3>2
  <2>6. CASE Fixed!WatchLoop
    <3>1. \/ \E status : Fixed!stops(status)
          \/ watch' = [watch EXCEPT !.pc = "wait"]
      BY <2>6 DEF Fixed!WatchLoop
    <3> QED
      BY <2>0, <2>2, <3>1 DEF Numbered
  <2>7. CASE Fixed!WatchTarget
    BY <2>0, <2>7 DEF Fixed!WatchTarget, Numbered
  <2>8. ASSUME NEW b \in BOOLEAN, Fixed!WatchQuote(b) PROVE Numbered(watch')
    BY <2>0, <2>8 DEF Fixed!WatchQuote, Numbered
  <2>9. CASE Fixed!WatchExecuted
    <3>1. \/ \E status : Fixed!stops(status)
          \/ watch' = [watch EXCEPT !.pc = "heartbeat"]
      BY <2>9 DEF Fixed!WatchExecuted
    <3> QED
      BY <2>0, <2>2, <3>1 DEF Numbered
  <2>10. CASE Fixed!WatchRefused
    BY <2>2, <2>10 DEF Fixed!WatchRefused
  <2>11. ASSUME NEW b \in BOOLEAN, Fixed!WatchHeartbeat(b) PROVE Numbered(watch')
    <3>1. \/ \E status : Fixed!stops(status)
          \/ watch' = [watch EXCEPT !.pc = "loop"]
      BY <2>11 DEF Fixed!WatchHeartbeat
    <3> QED
      BY <2>0, <2>2, <3>1 DEF Numbered
  <2>12. ASSUME NEW b \in BOOLEAN, Fixed!WatchError(b) PROVE Numbered(watch')
    <3>1. \/ \E status : Fixed!stops(status)
          \/ watch' = [watch EXCEPT !.pc = "backoff", !.errors = watch.errors + 1]
      BY <2>12 DEF Fixed!WatchError
    <3> QED
      BY <2>0, <2>2, <3>1 DEF Numbered
  <2>13. CASE Fixed!WatchRetry
    <3>1. \/ \E status : Fixed!stops(status)
          \/ watch' = [watch EXCEPT !.pc = "loop"]
      BY <2>13 DEF Fixed!WatchRetry
    <3> QED
      BY <2>0, <2>2, <3>1 DEF Numbered
  <2>14. \/ UNCHANGED watch
         \/ Fixed!Disarm \/ (\E p \in Fixed!Procs : Fixed!Kill(p))
         \/ Fixed!WatchStart \/ Fixed!WatchLoop \/ Fixed!WatchTarget \/ Fixed!WatchExecuted
         \/ Fixed!WatchRefused \/ Fixed!WatchRetry
         \/ \E b \in BOOLEAN : Fixed!WatchQuote(b) \/ Fixed!WatchHeartbeat(b) \/ Fixed!WatchError(b)
    BY DEF Fixed!LaneNext, Fixed!MineTx, Fixed!PoolEvent, Fixed!Preflight, Fixed!SignAndRecord, Fixed!Broadcast,
      Fixed!WriteSuccess, Fixed!AppendEffect, Fixed!WriteRevert, Fixed!AppendRevert, Fixed!CommandFails,
      Fixed!CliEnds, Fixed!RecoverDeployment, Fixed!ReconcileSuccess, Fixed!ReconcileRevert,
      Fixed!ReconcileHalt, Fixed!RebroadcastSameRaw, Fixed!ArmRead, Fixed!ArmWrite, Fixed!Expire
  <2> QED
    BY <2>0, <2>3, <2>4, <2>5, <2>6, <2>7, <2>8, <2>9, <2>10, <2>11, <2>12, <2>13, <2>14
<1> QED
  BY <1>2, <1>3 DEF ArmNumbers

(* A command goes on, or begins while none is under way: it is alone. *)
LEMMA JobGoesOn ==
  ASSUME FixedInv, NEW p \in Workers, NEW j \in JobRecord, jobs' = [jobs EXCEPT ![p] = j],
         jobs[p].pc # "idle" \/ Fixed!LockFree
  PROVE  /\ jobs' \in [Workers -> JobRecord] /\ Alone'
         /\ jobs'[p] = j /\ \A q \in Workers : q # p => jobs[q].pc = "idle" /\ jobs'[q] = jobs[q]
<1>1. jobs \in [Workers -> JobRecord] /\ Alone
  BY DEF FixedInv, FixedTypes
<1>2. jobs'[p] = j /\ \A q \in Workers : q # p => jobs'[q] = jobs[q]
  BY <1>1
<1>3. \A q \in Workers : q # p => jobs[q].pc = "idle"
  BY <1>1 DEF Alone, Fixed!LockFree, Fixed!Procs, Workers
<1>4. jobs' \in [Workers -> JobRecord]
  BY <1>1
<1> QED
  BY <1>2, <1>3, <1>4 DEF Alone

LEMMA IdleKept == ASSUME NEW j, j.pc = "idle" PROVE JobKept(j)
  BY DEF JobKept

(* The audit and the state file stand still. *)
LEMMA FixedQuiet ==
  ASSUME FixedInv, UNCHANGED <<txs, state>>
  PROVE  /\ \A j : JobKept(j)' <=> JobKept(j)
         /\ (jobs' \in [Workers -> JobRecord] /\ Alone' /\ JobsKept' /\ ArmNumbers') => FixedInv'
<1>1. \A i : Executed(i)' <=> Executed(i)
  BY DEF Executed
<1>2. \A j : JobKept(j)' <=> JobKept(j)
  BY <1>1 DEF JobKept
<1>3. TxsKept' /\ StateKept' /\ DeployedFirst'
  BY <1>1 DEF FixedInv, TxsKept, StateKept, DeployedFirst
<1> QED
  BY <1>2, <1>3 DEF FixedInv, FixedTypes

(* Only the commands move: one goes on, ends, or is killed. *)
LEMMA FixedJobs ==
  ASSUME FixedInv, ArmNumbers', UNCHANGED <<txs, state>>,
         \/ UNCHANGED jobs
         \/ \E p \in Workers : jobs' = [jobs EXCEPT ![p] = Fixed!NoJob]
         \/ \E p \in Workers, kind \in {"deploy", "execute", "withdraw"} : Fixed!Preflight(p, kind)
         \/ \E p \in Workers, error \in {"noshot", "transient", "invariant"} : Fixed!CommandFails(p, error)
  PROVE  FixedInv'
<1>0. jobs \in [Workers -> JobRecord] /\ Alone /\ JobsKept
  BY DEF FixedInv, FixedTypes
<1>1. CASE UNCHANGED jobs
  <2>1. Alone' /\ JobsKept'
    BY <1>0, <1>1, FixedQuiet DEF Alone, JobsKept
  <2> QED
    BY <1>0, <1>1, <2>1, FixedQuiet
<1>2. ASSUME NEW p \in Workers, jobs' = [jobs EXCEPT ![p] = Fixed!NoJob] PROVE FixedInv'
  <2>1. Fixed!NoJob \in JobRecord /\ Fixed!NoJob.pc = "idle"
    BY DEF Fixed!NoJob, JobRecord
  <2>2. /\ jobs' \in [Workers -> JobRecord] /\ jobs'[p].pc = "idle" /\ \A q \in Workers : q # p => jobs'[q] = jobs[q]
    BY <1>0, <1>2, <2>1
  <2>3. Alone'
    BY <1>0, <2>2 DEF Alone
  <2>4. ASSUME NEW q \in Workers PROVE JobKept(jobs'[q])
    BY <1>0, <2>2, IdleKept DEF JobsKept
  <2>5. JobsKept'
    BY <2>4, FixedQuiet DEF JobsKept
  <2> QED
    BY <2>2, <2>3, <2>5, FixedQuiet
<1>3. ASSUME NEW p \in Workers, NEW j \in JobRecord, jobs' = [jobs EXCEPT ![p] = j],
             jobs[p].pc # "idle" \/ Fixed!LockFree, JobKept(j)
      PROVE  FixedInv'
  <2>1. /\ jobs' \in [Workers -> JobRecord] /\ Alone' /\ jobs'[p] = j
        /\ \A q \in Workers : q # p => jobs[q].pc = "idle" /\ jobs'[q] = jobs[q]
    BY <1>3, JobGoesOn
  <2>2. \A q \in Workers : JobKept(jobs'[q])
    BY <1>3, <2>1, IdleKept
  <2>3. JobsKept'
    BY <2>2, FixedQuiet DEF JobsKept
  <2> QED
    BY <2>1, <2>3, FixedQuiet
<1>4. ASSUME NEW p \in Workers, NEW kind \in {"deploy", "execute", "withdraw"}, Fixed!Preflight(p, kind) PROVE FixedInv'
  <2>1. /\ Fixed!LockFree /\ Fixed!preflight(kind)
        /\ jobs' = [jobs EXCEPT ![p] = [pc |-> "checked", kind |-> kind, nonce |-> Fixed!MinedCount, tx |-> 0]]
    BY <1>4 DEF Fixed!Preflight
  <2>2. Fixed!Open = {} /\ (kind = "deploy") = (state.status = "none")
    BY <2>1 DEF Fixed!preflight, Fixed!deployPreflight, Fixed!executionPreflight, Fixed!withdrawable
  <2>3. Fixed!MinedCount = Len(txs) /\ \A i \in DOMAIN txs : txs[i].audit # "signed"
    BY <2>2, FixedMined
  <2>4. Len(txs) \in Nat
    BY DEF FixedInv, FixedTypes
  <2>5. PICK j : j = [pc |-> "checked", kind |-> kind, nonce |-> Len(txs), tx |-> 0]
    OBVIOUS
  <2>6. j \in JobRecord
    BY <2>4, <2>5 DEF JobRecord
  <2>7. JobKept(j)
    <3>1. j.pc = "checked" /\ j.nonce = Len(txs) /\ j.kind = kind
      BY <2>5
    <3> QED
      BY <2>2, <2>3, <3>1 DEF JobKept
  <2> QED
    BY <1>3, <2>1, <2>3, <2>5, <2>6, <2>7
<1>5. ASSUME NEW p \in Workers, NEW error \in {"noshot", "transient", "invariant"}, Fixed!CommandFails(p, error)
      PROVE  FixedInv'
  <2>1. jobs[p].pc \in {"checked", "sent"} /\ jobs' = [jobs EXCEPT ![p].pc = error]
    BY <1>5 DEF Fixed!CommandFails
  <2>2. PICK j : j = [jobs[p] EXCEPT !.pc = error]
    OBVIOUS
  <2>3. jobs' = [jobs EXCEPT ![p] = j]
    BY <1>0, <2>1, <2>2
  <2>4. j \in JobRecord /\ j.pc = error
    <3>1. jobs[p] \in JobRecord
      BY <1>0
    <3> QED
      BY <2>2, <3>1 DEF JobRecord
  <2>5. JobKept(j)
    BY <2>4 DEF JobKept
  <2> QED
    BY <1>3, <2>1, <2>3, <2>4, <2>5
<1> QED
  BY <1>1, <1>2, <1>4, <1>5

(* One mutation is rewritten: what was known of it stays true. *)
LEMMA TxRewrites ==
  ASSUME FixedInv, ArmNumbers', UNCHANGED state, jobs' \in [Workers -> JobRecord], Alone', JobsKept',
         NEW i \in DOMAIN txs, NEW r \in TxRecord, txs' = [txs EXCEPT ![i] = r],
         r.kind = txs[i].kind, r.nonce = txs[i].nonce, r.audit = "signed" => txs[i].audit = "signed",
         r.audit = "reverted" => r.chain = "reverted",
         r.audit = "effect" => r.chain = "success" /\ state.status # "none" /\ (r.kind = "execute" => Executed(i)),
         txs[i].chain = "success" => r.chain = "success"
  PROVE  FixedInv'
<1>0. txs \in Seq(TxRecord) /\ TxsKept /\ StateKept /\ DeployedFirst
  BY DEF FixedInv, FixedTypes
<1>1. /\ txs' \in Seq(TxRecord) /\ Len(txs') = Len(txs) /\ DOMAIN txs' = DOMAIN txs
      /\ txs'[i] = r /\ \A j \in DOMAIN txs : j # i => txs'[j] = txs[j]
  BY <1>0
<1>2. \A j : Executed(j)' <=> Executed(j)
  BY DEF Executed
<1>3. TxsKept'
  BY <1>0, <1>1, <1>2 DEF TxsKept
<1>4. StateKept'
  BY <1>0, <1>1 DEF StateKept
<1>5. DeployedFirst'
  <2>1. \A j \in DOMAIN txs : /\ txs'[j].kind = txs[j].kind /\ (txs'[j].audit = "signed" => txs[j].audit = "signed")
                             /\ txs'[j].audit = "effect" => txs[j].audit = "effect" \/ state.status # "none"
    BY <1>1
  <2> QED
    BY <1>0, <1>1, <2>1 DEF DeployedFirst
<1> QED
  BY <1>1, <1>3, <1>4, <1>5 DEF FixedInv, FixedTypes

(* A mutation that stays open disturbs no command. *)
LEMMA OpenRewrites ==
  ASSUME FixedInv, UNCHANGED state, NEW i \in DOMAIN txs, NEW r \in TxRecord, txs' = [txs EXCEPT ![i] = r],
         txs[i].audit = "signed", r.audit = "signed", r.kind = txs[i].kind,
         txs[i].chain # "none" => r.chain = txs[i].chain
  PROVE  \A j : JobKept(j) => JobKept(j)'
<1>1. txs \in Seq(TxRecord)
  BY DEF FixedInv, FixedTypes
<1>2. DOMAIN txs' = DOMAIN txs /\ txs'[i] = r /\ \A j \in DOMAIN txs : j # i => txs'[j] = txs[j]
  BY <1>1
<1>3. \A j : Executed(j)' <=> Executed(j)
  BY DEF Executed
<1> QED
  BY <1>2, <1>3 DEF JobKept

LEMMA FixedMines ==
  ASSUME FixedInv, ArmNumbers',
         \/ \E i \in DOMAIN txs, result \in {"success", "reverted"} : Fixed!MineTx(i, result)
         \/ Fixed!RebroadcastSameRaw
  PROVE  FixedInv'
<1>0. txs \in Seq(TxRecord) /\ jobs \in [Workers -> JobRecord] /\ TxsKept /\ Alone /\ JobsKept
  BY DEF FixedInv, FixedTypes
<1>1. PICK i \in DOMAIN txs :
        /\ UNCHANGED <<state, jobs>>
        /\ \/ txs[i].chain = "none" /\ \E result \in {"success", "reverted"} : txs' = [txs EXCEPT ![i].chain = result]
           \/ txs[i].audit = "signed" /\ txs' = [txs EXCEPT ![i].sent = TRUE]
  BY DEF Fixed!MineTx, Fixed!RebroadcastSameRaw, Fixed!Open
<1>2. txs[i] \in TxRecord
  BY <1>0
<1>3. txs[i].audit = "signed"
  BY <1>0, <1>1, <1>2 DEF TxsKept, TxRecord
<1>4. ASSUME NEW r \in TxRecord, txs' = [txs EXCEPT ![i] = r], r.audit = "signed", r.kind = txs[i].kind,
             r.nonce = txs[i].nonce, txs[i].chain # "none" => r.chain = txs[i].chain
      PROVE  FixedInv'
  <2>1. \A j : JobKept(j) => JobKept(j)'
    BY <1>1, <1>3, <1>4, OpenRewrites
  <2>2. JobsKept' /\ Alone' /\ jobs' \in [Workers -> JobRecord]
    BY <1>0, <1>1, <2>1 DEF JobsKept, Alone
  <2> QED
    BY <1>1, <1>3, <1>4, <2>2, TxRewrites
<1>5. ASSUME NEW result \in {"success", "reverted"}, txs[i].chain = "none", txs' = [txs EXCEPT ![i].chain = result]
      PROVE  FixedInv'
  <2>1. PICK r : r = [txs[i] EXCEPT !.chain = result]
    OBVIOUS
  <2>2. txs' = [txs EXCEPT ![i] = r]
    BY <1>0, <1>5, <2>1
  <2>3. r \in TxRecord /\ r.audit = "signed" /\ r.kind = txs[i].kind /\ r.nonce = txs[i].nonce
    BY <1>2, <1>3, <2>1 DEF TxRecord
  <2> QED
    BY <1>4, <1>5, <2>2, <2>3
<1>6. CASE txs' = [txs EXCEPT ![i].sent = TRUE]
  <2>1. PICK r : r = [txs[i] EXCEPT !.sent = TRUE]
    OBVIOUS
  <2>2. txs' = [txs EXCEPT ![i] = r]
    BY <1>0, <1>6, <2>1
  <2>3. r \in TxRecord /\ r.audit = "signed" /\ r.kind = txs[i].kind /\ r.nonce = txs[i].nonce /\ r.chain = txs[i].chain
    BY <1>2, <1>3, <2>1 DEF TxRecord
  <2> QED
    BY <1>4, <2>2, <2>3
<1> QED
  BY <1>1, <1>5, <1>6

LEMMA FixedSends ==
  ASSUME FixedInv, ArmNumbers', NEW p \in Workers, Fixed!Broadcast(p) PROVE FixedInv'
<1>0. txs \in Seq(TxRecord) /\ jobs \in [Workers -> JobRecord] /\ TxsKept /\ Alone /\ JobsKept
  BY DEF FixedInv, FixedTypes
<1>1. PICK i : i = jobs[p].tx
  OBVIOUS
<1>2. PICK reached \in BOOLEAN, note \in {{}, {"accepted"}} :
        txs' = [txs EXCEPT ![i].sent = reached, ![i].notes = Fixed!noted(i, note)]
  BY <1>1 DEF Fixed!Broadcast
<1>3. UNCHANGED state /\ jobs[p].pc = "signed" /\ jobs' = [jobs EXCEPT ![p].pc = "sent"]
  BY DEF Fixed!Broadcast
<1>4. i \in DOMAIN txs /\ txs[i].audit = "signed"
  BY <1>0, <1>1, <1>3 DEF JobsKept, JobKept
<1>5. PICK notes : notes = Fixed!noted(i, note)
  OBVIOUS
<1>6. PICK r : r = [txs[i] EXCEPT !.sent = reached, !.notes = notes]
  OBVIOUS
<1>7. txs' = [txs EXCEPT ![i] = r]
  BY <1>0, <1>2, <1>5, <1>6
<1>8. notes \in SUBSET {"accepted"}
  BY <1>2, <1>5 DEF Fixed!noted
<1>9. /\ r \in TxRecord /\ r.audit = "signed" /\ r.kind = txs[i].kind /\ r.nonce = txs[i].nonce
      /\ r.chain = txs[i].chain
  <2>1. txs[i] \in TxRecord
    BY <1>0, <1>4
  <2> QED
    BY <1>2, <1>4, <1>6, <1>8, <2>1 DEF TxRecord
<1>10. PICK j : j = [jobs[p] EXCEPT !.pc = "sent"]
  OBVIOUS
<1>11. /\ j \in JobRecord /\ j.pc = "sent" /\ j.tx = i /\ jobs' = [jobs EXCEPT ![p] = j]
  <2>1. jobs[p] \in JobRecord
    BY <1>0
  <2> QED
    BY <1>0, <1>1, <1>3, <1>10, <2>1 DEF JobRecord
<1>12. /\ jobs' \in [Workers -> JobRecord] /\ Alone' /\ jobs'[p] = j
       /\ \A q \in Workers : q # p => jobs[q].pc = "idle" /\ jobs'[q] = jobs[q]
  BY <1>3, <1>11, JobGoesOn
<1>13. JobKept(j)
  BY <1>4, <1>11 DEF JobKept
<1>14. \A q \in Workers : JobKept(jobs'[q])
  BY <1>12, <1>13, IdleKept
<1>15. \A k : JobKept(k) => JobKept(k)'
  BY <1>3, <1>4, <1>7, <1>9, OpenRewrites
<1>16. JobsKept'
  BY <1>14, <1>15 DEF JobsKept
<1> QED
  BY <1>3, <1>4, <1>7, <1>9, <1>12, <1>16, TxRewrites

(* A mutation is closed: by the command that sent it, or by a reconciler.       *)
LEMMA FixedCloses ==
  ASSUME FixedInv, ArmNumbers',
         (\E p \in Workers : Fixed!AppendEffect(p) \/ Fixed!AppendRevert(p)) \/ Fixed!ReconcileRevert
  PROVE  FixedInv'
<1>0. txs \in Seq(TxRecord) /\ jobs \in [Workers -> JobRecord] /\ TxsKept /\ Alone /\ JobsKept
  BY DEF FixedInv, FixedTypes
<1>1. ASSUME NEW p \in Workers, NEW j \in JobRecord, jobs' = [jobs EXCEPT ![p] = j],
             jobs[p].pc # "idle" \/ Fixed!LockFree, j.pc \in {"done", "invariant", "halt"},
             NEW i \in DOMAIN txs, NEW result \in {"effect", "reverted"}, txs' = [txs EXCEPT ![i].audit = result],
             result = "reverted" => txs[i].chain = "reverted",
             result = "effect" => txs[i].chain = "success" /\ state.status # "none" /\ (txs[i].kind = "execute" => Executed(i)),
             UNCHANGED state
      PROVE  FixedInv'
  <2>1. /\ jobs' \in [Workers -> JobRecord] /\ Alone' /\ jobs'[p] = j
        /\ \A q \in Workers : q # p => jobs[q].pc = "idle" /\ jobs'[q] = jobs[q]
    BY <1>1, JobGoesOn
  <2>2. \A q \in Workers : jobs'[q].pc \in {"idle", "done", "invariant", "halt"}
    BY <1>1, <2>1
  <2>3. JobsKept'
    BY <2>2 DEF JobsKept, JobKept
  <2>4. PICK r : r = [txs[i] EXCEPT !.audit = result]
    OBVIOUS
  <2>5. txs' = [txs EXCEPT ![i] = r]
    BY <1>0, <1>1, <2>4
  <2>6. /\ r \in TxRecord /\ r.audit = result /\ r.kind = txs[i].kind /\ r.nonce = txs[i].nonce
        /\ r.chain = txs[i].chain
    <3>1. txs[i] \in TxRecord
      BY <1>0, <1>1
    <3> QED
      BY <1>1, <2>4, <3>1 DEF TxRecord
  <2>7. /\ r.audit = "reverted" => r.chain = "reverted"
        /\ r.audit = "effect" => r.chain = "success" /\ state.status # "none" /\ (r.kind = "execute" => Executed(i))
        /\ r.audit # "signed"
    BY <1>1, <2>6
  <2> QED
    BY <1>1, <2>1, <2>3, <2>5, <2>6, <2>7, TxRewrites
<1>2. ASSUME NEW p \in Workers, Fixed!AppendEffect(p) \/ Fixed!AppendRevert(p) PROVE FixedInv'
  <2>1. PICK i : i = jobs[p].tx
    OBVIOUS
  <2>2. PICK result \in {"effect", "reverted"}, next \in {"done", "invariant"} :
          /\ UNCHANGED state /\ jobs[p].pc = (IF result = "effect" THEN "effect" ELSE "revert")
          /\ txs' = [txs EXCEPT ![i].audit = result] /\ jobs' = [jobs EXCEPT ![p].pc = next]
    BY <1>2, <2>1 DEF Fixed!AppendEffect, Fixed!AppendRevert, Fixed!appendReverted
  <2>3. /\ i \in DOMAIN txs
        /\ result = "reverted" => txs[i].chain = "reverted"
        /\ result = "effect" => txs[i].chain = "success" /\ state.status # "none" /\ (txs[i].kind = "execute" => Executed(i))
    BY <1>0, <2>1, <2>2 DEF JobsKept, JobKept
  <2>4. PICK j : j = [jobs[p] EXCEPT !.pc = next]
    OBVIOUS
  <2>5. j \in JobRecord /\ j.pc = next /\ jobs' = [jobs EXCEPT ![p] = j]
    <3>1. jobs[p] \in JobRecord
      BY <1>0
    <3> QED
      BY <1>0, <2>2, <2>4, <3>1 DEF JobRecord
  <2> QED
    BY <1>1, <2>2, <2>3, <2>5
<1>3. CASE Fixed!ReconcileRevert
  <2>1. PICK i : i = CHOOSE k \in Fixed!Open : TRUE
    OBVIOUS
  <2>2. PICK j : j = [pc |-> "halt", kind |-> "reconcile", nonce |-> 0, tx |-> i]
    OBVIOUS
  <2>3. Fixed!LockFree /\ Fixed!Open # {} /\ jobs' = [jobs EXCEPT !["cli"] = j]
    BY <1>3, <2>1, <2>2 DEF Fixed!ReconcileRevert, Fixed!Reconcile
  <2>4. jobs'["cli"].tx = i
    BY <1>0, <2>2, <2>3 DEF Workers
  <2>5. UNCHANGED state /\ txs[i].chain = "reverted" /\ txs' = [txs EXCEPT ![i].audit = "reverted"]
    BY <1>3, <2>4 DEF Fixed!ReconcileRevert, Fixed!appendReverted
  <2>6. i \in DOMAIN txs /\ i \in Nat
    <3>1. i \in Fixed!Open
      BY <2>1, <2>3
    <3> QED
      BY <1>0, <3>1 DEF Fixed!Open
  <2>7. j \in JobRecord /\ j.pc = "halt" /\ "cli" \in Workers
    BY <2>2, <2>6 DEF JobRecord, Workers
  <2> QED
    BY <1>1, <2>3, <2>5, <2>6, <2>7
<1> QED
  BY <1>2, <1>3

LEMMA FixedSigns ==
  ASSUME FixedInv, ArmNumbers', NEW p \in Workers, Fixed!SignAndRecord(p) PROVE FixedInv'
<1>0. /\ txs \in Seq(TxRecord) /\ jobs \in [Workers -> JobRecord] /\ ArmNumbers
      /\ TxsKept /\ StateKept /\ DeployedFirst /\ JobsKept
  BY DEF FixedInv, FixedTypes
<1>1. UNCHANGED state /\ jobs[p].pc = "checked"
  BY DEF Fixed!SignAndRecord
<1>2. /\ \A i \in DOMAIN txs : txs[i].audit # "signed"
      /\ jobs[p].nonce = Len(txs) /\ jobs[p].kind \in {"deploy", "execute", "withdraw"}
      /\ (jobs[p].kind = "deploy") = (state.status = "none")
  BY <1>0, <1>1 DEF JobsKept, JobKept
<1>3. PICK under : under = IF p = "watch" THEN watch.arm ELSE 0
  OBVIOUS
<1>4. PICK late \in BOOLEAN : late = (p = "watch" /\ arm.status # "ARMED")
  OBVIOUS
<1>5. PICK r : r = [kind |-> jobs[p].kind, nonce |-> jobs[p].nonce, audit |-> "signed", by |-> p, under |-> under,
                    late |-> late, sent |-> FALSE, chain |-> "none", notes |-> {}]
  OBVIOUS
<1>6. PICK n : n = Len(txs) + 1
  OBVIOUS
<1>7. PICK j : j = [jobs[p] EXCEPT !.pc = "signed", !.tx = n]
  OBVIOUS
<1>8. txs' = Append(txs, r)
  BY <1>3, <1>4, <1>5 DEF Fixed!SignAndRecord
<1>9. n \in Nat /\ Len(txs) \in Nat
  BY <1>0, <1>6
<1>10. under \in Nat
  BY <1>0, <1>3 DEF ArmNumbers, Numbered
<1>11. r \in TxRecord /\ r.kind = jobs[p].kind /\ r.nonce = n - 1 /\ r.audit = "signed" /\ r.chain = "none"
  BY <1>2, <1>4, <1>5, <1>6, <1>9, <1>10 DEF TxRecord
<1>12. j \in JobRecord /\ j.pc = "signed" /\ j.tx = n /\ jobs' = [jobs EXCEPT ![p] = j]
  <2>1. jobs[p] \in JobRecord
    BY <1>0
  <2>2. jobs' = [jobs EXCEPT ![p].pc = "signed", ![p].tx = n]
    BY <1>6 DEF Fixed!SignAndRecord
  <2> QED
    BY <1>0, <1>7, <1>9, <2>1, <2>2 DEF JobRecord
<1>13. /\ txs' \in Seq(TxRecord) /\ Len(txs') = n /\ DOMAIN txs' = DOMAIN txs \cup {n} /\ n \notin DOMAIN txs
       /\ txs'[n] = r /\ \A i \in DOMAIN txs : txs'[i] = txs[i]
  BY <1>0, <1>6, <1>8, <1>11
<1>14. \A i : Executed(i)' <=> Executed(i)
  BY <1>1 DEF Executed
<1>15. TxsKept'
  BY <1>0, <1>2, <1>11, <1>13, <1>14 DEF TxsKept
<1>16. StateKept'
  BY <1>0, <1>1, <1>13 DEF StateKept
<1>17. DeployedFirst'
  <2>1. state.status = "none" => \A i \in DOMAIN txs' : txs'[i].kind = "deploy" /\ txs'[i].audit # "effect"
    BY <1>0, <1>2, <1>11, <1>13 DEF DeployedFirst
  <2>2. \A i \in DOMAIN txs' : txs'[i].audit = "signed" => i = n
    BY <1>2, <1>13
  <2>3. txs'[n].kind = "deploy" => state.status = "none"
    BY <1>2, <1>11, <1>13
  <2> QED
    BY <1>1, <2>1, <2>2, <2>3 DEF DeployedFirst
<1>18. /\ jobs' \in [Workers -> JobRecord] /\ Alone' /\ jobs'[p] = j
       /\ \A q \in Workers : q # p => jobs[q].pc = "idle" /\ jobs'[q] = jobs[q]
  BY <1>1, <1>12, JobGoesOn
<1>19. \A q \in Workers : jobs'[q].pc = "idle" \/ (jobs'[q].pc = "signed" /\ jobs'[q].tx = n)
  BY <1>12, <1>18
<1>20. JobsKept'
  BY <1>11, <1>13, <1>19 DEF JobsKept, JobKept
<1> QED
  BY <1>1, <1>13, <1>15, <1>16, <1>17, <1>18, <1>20 DEF FixedInv, FixedTypes

(* What a success writes to the state file. *)
LEMMA FixedSettles ==
  ASSUME FixedInv, UNCHANGED txs, NEW i \in DOMAIN txs, txs[i].audit = "signed", txs[i].chain = "success",
         state' = Fixed!settledState(state, i), txs[i].kind # "deploy" => state.status # "none"
  PROVE  /\ state' \in StateRecord /\ TxsKept' /\ StateKept' /\ DeployedFirst'
         /\ state'.status # "none" /\ (txs[i].kind = "execute" => Executed(i)')
<1>0. txs \in Seq(TxRecord) /\ state \in StateRecord /\ TxsKept /\ StateKept /\ DeployedFirst
  BY DEF FixedInv, FixedTypes
<1>1. txs[i] \in TxRecord /\ i \in Nat
  BY <1>0
<1>2. txs[i].kind \in {"deploy", "execute", "withdraw"}
  BY <1>1 DEF TxRecord
<1>3. state.executions \in Seq(Nat)
  BY <1>0 DEF StateRecord
<1>4. CASE txs[i].kind = "execute"
  <2>1. state' = Fixed!addExecution(state, i)
    BY <1>4 DEF Fixed!settledState
  <2>2. CASE Executed(i)
    <3>1. state' = [status |-> "live_validated", executions |-> state.executions]
      BY <2>1, <2>2 DEF Fixed!addExecution, Executed
    <3>2. state' \in StateRecord /\ state'.executions = state.executions /\ state'.status = "live_validated"
      BY <1>3, <3>1 DEF StateRecord
    <3>3. \A k : Executed(k)' <=> Executed(k)
      BY <3>2 DEF Executed
    <3> QED
      BY <1>0, <2>2, <3>2, <3>3 DEF TxsKept, StateKept, DeployedFirst
  <2>3. CASE ~Executed(i)
    <3>1. PICK list : list = Append(state.executions, i)
      OBVIOUS
    <3>2. state' = [status |-> "live_validated", executions |-> list]
      BY <2>1, <2>3, <3>1 DEF Fixed!addExecution, Executed
    <3>3. PICK n : n = Len(state.executions) + 1
      OBVIOUS
    <3>4. /\ list \in Seq(Nat) /\ DOMAIN list = DOMAIN state.executions \cup {n} /\ n \notin DOMAIN state.executions
          /\ list[n] = i /\ \A k \in DOMAIN state.executions : list[k] = state.executions[k]
      BY <1>1, <1>3, <3>1, <3>3
    <3>5. state' \in StateRecord /\ state'.executions = list /\ state'.status = "live_validated"
      BY <3>2, <3>4 DEF StateRecord
    <3>6. Executed(i)' /\ \A k : Executed(k) => Executed(k)'
      BY <3>4, <3>5 DEF Executed
    <3>7. \A k \in DOMAIN state.executions : state.executions[k] # i
      BY <2>3 DEF Executed
    <3>8. StateKept'
      BY <1>0, <1>4, <3>4, <3>5, <3>7 DEF StateKept
    <3> QED
      BY <1>0, <3>5, <3>6, <3>8 DEF TxsKept, DeployedFirst
  <2> QED
    BY <2>2, <2>3
<1>5. CASE txs[i].kind = "withdraw"
  <2>1. state' = [state EXCEPT !.status = "withdrawn"]
    BY <1>5 DEF Fixed!settledState, Fixed!withdrawn
  <2>2. state' \in StateRecord /\ state'.executions = state.executions /\ state'.status = "withdrawn"
    BY <1>0, <2>1 DEF StateRecord
  <2>3. \A k : Executed(k)' <=> Executed(k)
    BY <2>2 DEF Executed
  <2> QED
    BY <1>0, <1>5, <2>2, <2>3 DEF TxsKept, StateKept, DeployedFirst
<1>6. CASE txs[i].kind = "deploy"
  <2>1. state' = [status |-> "deployed", executions |-> <<>>]
    BY <1>6 DEF Fixed!settledState, Fixed!deployed
  <2>2. state' \in StateRecord /\ DOMAIN state'.executions = {} /\ state'.status = "deployed"
    BY <2>1 DEF StateRecord
  <2>3. \A k \in DOMAIN txs : txs[k].kind = "deploy"
    BY <1>0, <1>6 DEF DeployedFirst
  <2> QED
    BY <1>0, <1>6, <2>2, <2>3 DEF TxsKept, StateKept, DeployedFirst
<1> QED
  BY <1>2, <1>4, <1>5, <1>6

(* The status alone is written: the lane halts. *)
LEMMA FixedMarks ==
  ASSUME FixedInv, UNCHANGED txs,
         \/ state' = state
         \/ state.status # "none" /\ state' = [state EXCEPT !.status = "halted_after_revert"]
  PROVE  /\ state' \in StateRecord /\ TxsKept' /\ StateKept' /\ DeployedFirst'
<1>0. state \in StateRecord /\ TxsKept /\ StateKept /\ DeployedFirst
  BY DEF FixedInv, FixedTypes
<1>1. ASSUME state' \in StateRecord, state'.executions = state.executions, state'.status = "none" => state.status = "none"
      PROVE  state' \in StateRecord /\ TxsKept' /\ StateKept' /\ DeployedFirst'
  <2>1. \A k : Executed(k)' <=> Executed(k)
    BY <1>1 DEF Executed
  <2> QED
    BY <1>0, <1>1, <2>1 DEF TxsKept, StateKept, DeployedFirst
<1>2. CASE state' = state
  BY <1>0, <1>1, <1>2
<1>3. CASE state' = [state EXCEPT !.status = "halted_after_revert"]
  <2>1. state' \in StateRecord /\ state'.executions = state.executions /\ state'.status = "halted_after_revert"
    BY <1>0, <1>3 DEF StateRecord
  <2> QED
    BY <1>1, <2>1
<1> QED
  BY <1>2, <1>3

(* A step of a command that writes the state file, or halts the lane.           *)
LEMMA FixedWrites ==
  ASSUME FixedInv, ArmNumbers',
         \/ \E p \in Workers : Fixed!WriteSuccess(p) \/ Fixed!WriteRevert(p)
         \/ Fixed!ReconcileSuccess \/ Fixed!ReconcileHalt \/ Fixed!RecoverDeployment
  PROVE  FixedInv'
<1>0. /\ txs \in Seq(TxRecord) /\ state \in StateRecord /\ jobs \in [Workers -> JobRecord]
      /\ TxsKept /\ DeployedFirst /\ Alone /\ JobsKept
  BY DEF FixedInv, FixedTypes
<1>1. ASSUME NEW p \in Workers, NEW j \in JobRecord, jobs' = [jobs EXCEPT ![p] = j],
             jobs[p].pc # "idle" \/ Fixed!LockFree, UNCHANGED txs,
             state' \in StateRecord /\ TxsKept' /\ StateKept' /\ DeployedFirst', JobKept(j)'
      PROVE  FixedInv'
  <2>1. /\ jobs' \in [Workers -> JobRecord] /\ Alone' /\ jobs'[p] = j
        /\ \A q \in Workers : q # p => jobs[q].pc = "idle" /\ jobs'[q] = jobs[q]
    BY <1>1, JobGoesOn
  <2>2. ASSUME NEW q \in Workers, q # p PROVE jobs'[q].pc = "idle"
    BY <2>1, <2>2
  <2>3. JobsKept'
    BY <1>1, <2>1, <2>2 DEF JobsKept, JobKept
  <2> QED
    BY <1>0, <1>1, <2>1, <2>3 DEF FixedInv, FixedTypes
<1>2. ASSUME NEW i \in DOMAIN txs, txs[i].audit = "signed", txs[i].chain = "success",
             state' = Fixed!settledState(state, i), UNCHANGED txs,
             NEW p \in Workers, NEW j \in JobRecord, jobs' = [jobs EXCEPT ![p] = j],
             jobs[p].pc # "idle" \/ Fixed!LockFree, j.pc = "effect", j.tx = i
      PROVE  FixedInv'
  <2>1. txs[i].kind # "deploy" => state.status # "none"
    BY <1>0 DEF DeployedFirst
  <2>2. /\ state' \in StateRecord /\ TxsKept' /\ StateKept' /\ DeployedFirst'
        /\ state'.status # "none" /\ (txs[i].kind = "execute" => Executed(i)')
    BY <1>2, <2>1, FixedSettles
  <2>3. JobKept(j)'
    BY <1>2, <2>2 DEF JobKept
  <2> QED
    BY <1>1, <1>2, <2>2, <2>3
<1>3. ASSUME NEW p \in Workers, NEW next \in {"effect", "revert", "done"}, jobs' = [jobs EXCEPT ![p].pc = next]
      PROVE  \E j \in JobRecord : j.pc = next /\ j.tx = jobs[p].tx /\ jobs' = [jobs EXCEPT ![p] = j]
  <2>1. jobs[p] \in JobRecord
    BY <1>0
  <2>2. PICK j : j = [jobs[p] EXCEPT !.pc = next]
    OBVIOUS
  <2>3. j \in JobRecord /\ j.pc = next /\ j.tx = jobs[p].tx /\ jobs' = [jobs EXCEPT ![p] = j]
    BY <1>0, <1>3, <2>1, <2>2 DEF JobRecord
  <2> QED
    BY <2>3
<1>4. ASSUME NEW p \in Workers, Fixed!WriteSuccess(p) PROVE FixedInv'
  <2>1. PICK i : i = jobs[p].tx
    OBVIOUS
  <2>2. /\ UNCHANGED txs /\ jobs[p].pc = "sent" /\ txs[i].chain = "success"
        /\ state' = Fixed!settledState(state, i) /\ jobs' = [jobs EXCEPT ![p].pc = "effect"]
    BY <1>4, <2>1 DEF Fixed!WriteSuccess
  <2>3. i \in DOMAIN txs /\ txs[i].audit = "signed"
    BY <1>0, <2>1, <2>2 DEF JobsKept, JobKept
  <2>4. PICK j \in JobRecord : j.pc = "effect" /\ j.tx = i /\ jobs' = [jobs EXCEPT ![p] = j]
    BY ZenonT(40), <1>3, <2>1, <2>2
  <2> QED
    BY <1>2, <2>2, <2>3, <2>4
<1>5. ASSUME NEW p \in Workers, Fixed!WriteRevert(p) PROVE FixedInv'
  <2>1. PICK i : i = jobs[p].tx
    OBVIOUS
  <2>2. /\ UNCHANGED txs /\ jobs[p].pc = "sent" /\ txs[i].chain = "reverted"
        /\ state' = IF txs[i].kind = "execute" THEN [state EXCEPT !.status = "halted_after_revert"] ELSE state
        /\ jobs' = [jobs EXCEPT ![p].pc = "revert"]
    BY <1>5, <2>1 DEF Fixed!WriteRevert
  <2>3. i \in DOMAIN txs /\ txs[i].audit = "signed"
    BY <1>0, <2>1, <2>2 DEF JobsKept, JobKept
  <2>4. txs[i].kind = "execute" => state.status # "none"
    BY <1>0, <2>3 DEF DeployedFirst
  <2>5. state' \in StateRecord /\ TxsKept' /\ StateKept' /\ DeployedFirst'
    BY <2>2, <2>4, FixedMarks
  <2>6. PICK j \in JobRecord : j.pc = "revert" /\ j.tx = i /\ jobs' = [jobs EXCEPT ![p] = j]
    BY <1>3, <2>1, <2>2
  <2>7. JobKept(j)'
    BY <2>2, <2>3, <2>6 DEF JobKept
  <2> QED
    BY <1>1, <2>2, <2>5, <2>6, <2>7
<1>6. CASE Fixed!ReconcileSuccess
  <2>1. PICK i : i = CHOOSE k \in Fixed!Open : TRUE
    OBVIOUS
  <2>2. PICK j : j = [pc |-> "effect", kind |-> "reconcile", nonce |-> 0, tx |-> i]
    OBVIOUS
  <2>3. Fixed!LockFree /\ Fixed!Open # {} /\ jobs' = [jobs EXCEPT !["cli"] = j] /\ UNCHANGED txs
    BY <1>6, <2>1, <2>2 DEF Fixed!ReconcileSuccess, Fixed!Reconcile
  <2>4. jobs'["cli"].tx = i
    BY <1>0, <2>2, <2>3 DEF Workers
  <2>5. txs[i].chain = "success" /\ state' = Fixed!settledState(state, i)
    BY <1>6, <2>4 DEF Fixed!ReconcileSuccess
  <2>6. i \in DOMAIN txs /\ i \in Nat /\ txs[i].audit = "signed"
    <3>1. i \in Fixed!Open
      BY <2>1, <2>3
    <3> QED
      BY <1>0, <3>1 DEF Fixed!Open
  <2>7. j \in JobRecord /\ j.pc = "effect" /\ j.tx = i /\ "cli" \in Workers
    BY <2>2, <2>6 DEF JobRecord, Workers
  <2> QED
    BY <1>2, <2>3, <2>5, <2>6, <2>7
<1>7. CASE Fixed!ReconcileHalt
  <2>1. /\ UNCHANGED txs /\ jobs["cli"].pc = "halt" /\ jobs' = [jobs EXCEPT !["cli"].pc = "done"]
        /\ state' = IF state.status = "none" THEN state ELSE [state EXCEPT !.status = "halted_after_revert"]
    BY <1>7 DEF Fixed!ReconcileHalt
  <2>2. state' \in StateRecord /\ TxsKept' /\ StateKept' /\ DeployedFirst'
    BY <2>1, FixedMarks
  <2>3. "cli" \in Workers
    BY DEF Workers
  <2>4. PICK j \in JobRecord : j.pc = "done" /\ jobs' = [jobs EXCEPT !["cli"] = j]
    BY <1>3, <2>1, <2>3
  <2>5. JobKept(j)'
    BY <2>4 DEF JobKept
  <2> QED
    BY <1>1, <2>1, <2>2, <2>3, <2>4, <2>5
<1>8. CASE Fixed!RecoverDeployment
  <2>1. /\ UNCHANGED txs /\ Fixed!LockFree /\ state.status = "none" /\ state' = Fixed!deployed
        /\ \E i \in DOMAIN txs :
             /\ txs[i].kind = "deploy" /\ txs[i].chain = "success"
             /\ jobs' = [jobs EXCEPT !["cli"] = [pc |-> "effect", kind |-> "recover", nonce |-> 0, tx |-> i]]
    BY <1>8 DEF Fixed!RecoverDeployment
  <2>2. PICK i \in DOMAIN txs :
          /\ txs[i].kind = "deploy" /\ txs[i].chain = "success"
          /\ jobs' = [jobs EXCEPT !["cli"] = [pc |-> "effect", kind |-> "recover", nonce |-> 0, tx |-> i]]
    BY <2>1
  <2>3. i \in Nat /\ txs[i] \in TxRecord
    BY <1>0
  <2>4. txs[i].audit = "signed"
    BY <1>0, <2>1, <2>2, <2>3 DEF TxRecord, TxsKept, DeployedFirst
  <2>5. state' = Fixed!settledState(state, i)
    BY <2>1, <2>2 DEF Fixed!settledState
  <2>6. PICK j : j = [pc |-> "effect", kind |-> "recover", nonce |-> 0, tx |-> i]
    OBVIOUS
  <2>7. j \in JobRecord /\ j.pc = "effect" /\ j.tx = i /\ "cli" \in Workers
    BY <2>3, <2>6 DEF JobRecord, Workers
  <2> QED
    BY <1>2, <2>1, <2>2, <2>4, <2>5, <2>6, <2>7
<1> QED
  BY <1>4, <1>5, <1>6, <1>7, <1>8

LEMMA FixedInvStep == ASSUME FixedInv, Fixed!LaneNext PROVE FixedInv'
<1>1. ArmNumbers'
  BY FixedNumbers
<1>2. ASSUME UNCHANGED <<txs, state, jobs>> PROVE FixedInv'
  BY <1>1, <1>2, FixedJobs
<1>3. ASSUME NEW p \in Workers, UNCHANGED <<txs, state>>, jobs' = [jobs EXCEPT ![p] = Fixed!NoJob] PROVE FixedInv'
  BY <1>1, <1>3, FixedJobs
<1>4. ASSUME NEW p \in Workers, NEW kind \in {"deploy", "execute", "withdraw"}, Fixed!Preflight(p, kind) PROVE FixedInv'
  BY <1>1, <1>4, FixedJobs DEF Fixed!Preflight
<1>5. ASSUME NEW p \in Workers, NEW error \in {"noshot", "transient", "invariant"}, Fixed!CommandFails(p, error)
      PROVE  FixedInv'
  BY <1>1, <1>5, FixedJobs DEF Fixed!CommandFails
<1>6. CASE Fixed!CliEnds
  BY <1>3, <1>6 DEF Fixed!CliEnds, Workers
<1>7. ASSUME NEW p \in Workers, Fixed!Kill(p) PROVE FixedInv'
  BY <1>3, <1>7 DEF Fixed!Kill
<1>8. CASE Fixed!WatchExecuted
  BY <1>3, <1>8 DEF Fixed!WatchExecuted, Workers
<1>9. ASSUME NEW b \in BOOLEAN, Fixed!WatchError(b) PROVE FixedInv'
  BY <1>3, <1>9 DEF Fixed!WatchError, Workers
<1>10. ASSUME \/ Fixed!PoolEvent \/ Fixed!ArmRead \/ Fixed!ArmWrite \/ Fixed!Disarm \/ Fixed!Expire
              \/ Fixed!WatchStart \/ Fixed!WatchLoop \/ Fixed!WatchTarget \/ Fixed!WatchRefused \/ Fixed!WatchRetry
              \/ \E b \in BOOLEAN : Fixed!WatchQuote(b) \/ Fixed!WatchHeartbeat(b)
       PROVE  FixedInv'
  <2>1. UNCHANGED <<txs, state, jobs>>
    BY <1>10 DEF Fixed!PoolEvent, Fixed!ArmRead, Fixed!ArmWrite, Fixed!Disarm, Fixed!Expire, Fixed!WatchStart,
      Fixed!WatchLoop, Fixed!WatchTarget, Fixed!WatchRefused, Fixed!WatchRetry, Fixed!WatchQuote, Fixed!WatchHeartbeat
  <2> QED
    BY <1>2, <2>1
<1>11. \/ \E i \in DOMAIN txs, result \in {"success", "reverted"} : Fixed!MineTx(i, result)
       \/ Fixed!PoolEvent \/ Fixed!Preflight("watch", "execute")
       \/ \E kind \in {"deploy", "execute", "withdraw"} : Fixed!Preflight("cli", kind)
       \/ \E p \in Workers : \/ Fixed!SignAndRecord(p) \/ Fixed!Broadcast(p) \/ Fixed!WriteSuccess(p)
                             \/ Fixed!AppendEffect(p) \/ Fixed!WriteRevert(p) \/ Fixed!AppendRevert(p) \/ Fixed!Kill(p)
                             \/ \E error \in {"noshot", "transient", "invariant"} : Fixed!CommandFails(p, error)
       \/ Fixed!CliEnds \/ Fixed!RecoverDeployment
       \/ Fixed!ReconcileSuccess \/ Fixed!ReconcileRevert \/ Fixed!ReconcileHalt \/ Fixed!RebroadcastSameRaw
       \/ Fixed!ArmRead \/ Fixed!ArmWrite \/ Fixed!Disarm \/ Fixed!Expire
       \/ Fixed!WatchStart \/ Fixed!WatchLoop \/ Fixed!WatchTarget \/ Fixed!WatchExecuted \/ Fixed!WatchRefused
       \/ Fixed!WatchRetry
       \/ \E b \in BOOLEAN : Fixed!WatchQuote(b) \/ Fixed!WatchHeartbeat(b) \/ Fixed!WatchError(b)
  BY DEF Fixed!LaneNext, Fixed!Procs, Workers
<1>12. "watch" \in Workers /\ "cli" \in Workers
  BY DEF Workers
<1> QED
  BY <1>1, <1>4, <1>5, <1>6, <1>7, <1>8, <1>9, <1>10, <1>11, <1>12,
    FixedMines, FixedSigns, FixedSends, FixedCloses, FixedWrites

(* NoncesConsecutive and ExecutionsMatchChain, of any number of mutations.      *)
LEMMA FixedBooks == ASSUME FixedInv PROVE Fixed!NoncesConsecutive /\ Fixed!ExecutionsMatchChain
<1>1. TxsKept /\ StateKept /\ DeployedFirst
  BY DEF FixedInv
<1>2. Fixed!NoncesConsecutive
  BY <1>1 DEF TxsKept, Fixed!NoncesConsecutive
<1>3. Fixed!ExecutionsMatchChain
  BY <1>1 DEF TxsKept, StateKept, DeployedFirst, Executed, Fixed!ExecutionsMatchChain
<1> QED
  BY <1>2, <1>3

--------------------------------------------------------------------------------
(* The programs that keep nonces and books, together.                           *)

LEMMA ProgramsStand ==
  /\ FixedInv /\ UNCHANGED fixedVars => FixedInv'
  /\ GlobalInv /\ UNCHANGED globalVars => GlobalInv'
  /\ CollectorInv /\ UNCHANGED collectorVars => CollectorInv'
  /\ ShotInv /\ BookInv /\ UNCHANGED genericVars => ShotInv' /\ BookInv'
<1>1. ASSUME FixedInv, UNCHANGED fixedVars PROVE FixedInv'
  <2>1. UNCHANGED <<txs, state, jobs, arm, watch>>
    BY <1>1 DEF fixedVars
  <2>2. ArmNumbers'
    BY <1>1, <2>1 DEF FixedInv, ArmNumbers, Numbered
  <2> QED
    BY <1>1, <2>1, <2>2, FixedJobs
<1>2. ASSUME GlobalInv, UNCHANGED globalVars PROVE GlobalInv'
  <2>1. UNCHANGED <<raws, ledger, held, authority, command>>
    BY <1>2 DEF globalVars
  <2>2. CommandKept'
    BY <1>2, <2>1 DEF GlobalInv, CommandKept, Listing
  <2>3. held' \in Nat /\ authority' \in [id : Nat, live : BOOLEAN] /\ command' \in CommandRecord
    BY <1>2, <2>1 DEF GlobalInv, GlobalTypes
  <2> QED
    BY <1>2, <2>1, <2>2, <2>3, GlobalQuiet
<1>3. ASSUME CollectorInv, UNCHANGED collectorVars PROVE CollectorInv'
  <2>1. UNCHANGED <<signed, eth, usdg, funds, collected, collecting>>
    BY <1>3 DEF collectorVars
  <2>2. CollectingKept'
    BY <1>3, <2>1 DEF CollectorInv, CollectingKept
  <2>3. usdg' \in Nat /\ funds' \in [Targets -> Nat] /\ collecting' \in CollectingRecord
    BY <1>3, <2>1 DEF CollectorInv, CollectorTypes
  <2> QED
    BY <1>3, <2>1, <2>2, <2>3, CollectorQuiet
<1>4. ASSUME ShotInv, BookInv, UNCHANGED genericVars PROVE ShotInv' /\ BookInv'
  <2>1. ShotTypes' /\ Serving' /\ Named' /\ Listed'
    BY <1>4 DEF genericVars, ShotInv, ShotTypes, Serving, Named, Listed, Unsigned, AuthShape, KeeperShape, DisarmShape
  <2>2. \A a : Shots!signedUnder(a)' = Shots!signedUnder(a)
    BY <1>4 DEF genericVars, Shots!signedUnder
  <2>3. Once'
    BY <1>4, <2>2 DEF genericVars, ShotInv, Once
  <2>4. Shots!Mined' = Shots!Mined
    BY <1>4 DEF genericVars, Shots!Mined
  <2>5. BookInv'
    BY <1>4, <2>4 DEF genericVars, BookInv, MutsKept, MinedKept, HolderKept, BookKept
  <2> QED
    BY <2>1, <2>3, <2>5 DEF ShotInv
<1> QED
  BY <1>1, <1>2, <1>3, <1>4

LEMMA ProgramsInvStep == ASSUME ProgramsInv, [Next]_vars PROVE ProgramsInv'
<1>1. ASSUME part = "fixed" PROVE FixedInv'
  BY <1>1, PartStep, ProgramsStand, FixedInvStep DEF ProgramsInv
<1>2. ASSUME part = "global" PROVE GlobalInv'
  BY <1>2, PartStep, ProgramsStand, GlobalInvStep DEF ProgramsInv
<1>3. ASSUME part = "collector" PROVE CollectorInv'
  BY <1>3, PartStep, ProgramsStand, CollectorInvStep DEF ProgramsInv
<1>4. ASSUME part = "shots" PROVE ShotInv' /\ BookInv'
  <2>1. ShotInv /\ BookInv /\ (Shots!LaneNext \/ UNCHANGED genericVars)
    BY <1>4, PartStep DEF ProgramsInv
  <2>2. ShotTypes
    BY <2>1 DEF ShotInv
  <2> QED
    BY <2>1, <2>2, ProgramsStand, ShotInvStep, BookInvStep
<1> QED
  BY <1>1, <1>2, <1>3, <1>4, PartStep DEF ProgramsInv

LEMMA ProgramsInvInit == ASSUME Init PROVE ProgramsInv
  BY FixedInvInit, GlobalInvInit, CollectorInvInit, ShotInvInit, BookInvInit DEF ProgramsInv

(* In every program the i-th transaction signed carries the i-th nonce, however *)
(* many are signed, lost, killed or reverted.                                   *)
THEOREM NoncesInOrder == Spec => []NoncesConsecutive
<1>1. Init => ProgramsInv
  BY ProgramsInvInit
<1>2. ProgramsInv /\ [Next]_vars => ProgramsInv'
  BY ProgramsInvStep
<1>3. ProgramsInv => NoncesConsecutive
  BY FixedBooks, GlobalBooks, CollectorBooks DEF ProgramsInv, NoncesConsecutive
<1> QED
  BY <1>1, <1>2, <1>3, PTL DEF Spec

(* In every program the files tell of the same outcomes as the chain, whichever *)
(* process dies between two of its writes.                                      *)
THEOREM BooksAgree == Spec => []BooksMatchChain
<1>1. Init => ProgramsInv
  BY ProgramsInvInit
<1>2. ProgramsInv /\ [Next]_vars => ProgramsInv'
  BY ProgramsInvStep
<1>3. ProgramsInv => BooksMatchChain
  BY FixedBooks, GlobalBooks, CollectorBooks, ShotBooks DEF ProgramsInv, BooksMatchChain, ShotInv
<1> QED
  BY <1>1, <1>2, <1>3, PTL DEF Spec

--------------------------------------------------------------------------------
(* The types of the programs and their bounds.  What a program is at, and what  *)
(* it wrote, is of one of a few kinds; a number it was given is no higher than  *)
(* the last one issued; and an error streak ends at its limit.                  *)

LEMMA LostStep == ASSUME LostBound, Exclusion!ExclusionNext PROVE LostBound'
<1>1. lost' = lost \/ (lost < MaxLost /\ lost' = lost + 1)
  BY DEF Exclusion!ExclusionNext, Exclusion!OpenLock, Exclusion!WritePid,
    Exclusion!CheckLane, Exclusion!WriteArm, Exclusion!WatchSigns, Exclusion!WatchSigned, Exclusion!Leave,
    Exclusion!LoseProgram, Exclusion!Unarm
<1> QED
  BY <1>1, LimitsAssumption DEF LostBound, LimitsAssumption

LEMMA StreakStep ==
  ASSUME NEW limit \in Nat \ {0}, Streak(limit), StreakMoves(limit)
  PROVE  Streak(limit)'
<1>1. CASE watch' = watch
  BY <1>1 DEF Streak
<1>2. CASE watch' = Fixed!NoWatch
  BY <1>2 DEF Streak, Stages, Fixed!NoWatch
<1>3. ASSUME NEW stop, watch' = [watch EXCEPT !.stop = stop] PROVE Streak(limit)'
  BY <1>3 DEF Streak
<1>4. ASSUME NEW armId, watch' = [Fixed!NoWatch EXCEPT !.pc = "loop", !.arm = armId] PROVE Streak(limit)'
  <2>1. watch' = [pc |-> "loop", status |-> "none", errors |-> 0, last |-> 0, target |-> 0, stop |-> FALSE,
                  arm |-> armId]
    BY <1>4 DEF Fixed!NoWatch
  <2> QED
    BY <2>1 DEF Streak, Stages
<1>5. ASSUME NEW stage \in Stages, watch' = [watch EXCEPT !.pc = stage] PROVE Streak(limit)'
  BY <1>5 DEF Streak
<1>6. ASSUME NEW stage \in Stages, NEW block, watch' = [watch EXCEPT !.pc = stage, !.target = block]
      PROVE  Streak(limit)'
  BY <1>6 DEF Streak, Stages
<1>7. ASSUME NEW stage \in Stages, NEW block,
             watch' = [watch EXCEPT !.pc = stage, !.errors = 0, !.last = block, !.target = 0]
      PROVE  Streak(limit)'
  <2>1. watch' = [pc |-> stage, status |-> watch.status, errors |-> 0, last |-> block, target |-> 0,
                  stop |-> watch.stop, arm |-> watch.arm]
    BY <1>7 DEF Streak
  <2> QED
    BY <2>1 DEF Streak
<1>8. CASE ~(watch.errors + 1 >= limit) /\ watch' = [watch EXCEPT !.pc = "backoff", !.errors = watch.errors + 1]
  <2>1. PICK more \in Nat : more = watch.errors + 1
    BY DEF Streak
  <2>2. watch' = [watch EXCEPT !.pc = "backoff", !.errors = more] /\ more < limit
    BY <1>8, <2>1
  <2> QED
    BY <2>2 DEF Streak, Stages
<1> QED
  BY <1>1, <1>2, <1>3, <1>4, <1>5, <1>6, <1>7, <1>8 DEF StreakMoves

LEMMA FixedWatches == ASSUME Fixed!LaneNext PROVE StreakMoves(FixedErrors)
<1>0. Fixed!NoWatch = Fixed!NoWatch
  BY DEF Fixed!NoWatch, Fixed!NoWatch
<1>1. ASSUME NEW status, Fixed!stops(status) PROVE StreakMoves(FixedErrors)
  BY <1>0, <1>1 DEF Fixed!stops, StreakMoves
<1>2. ASSUME NEW stage \in Stages, watch' = [watch EXCEPT !.pc = stage] PROVE StreakMoves(FixedErrors)
  BY <1>2 DEF StreakMoves
<1>3. ASSUME NEW p \in Fixed!Procs, Fixed!Kill(p) PROVE StreakMoves(FixedErrors)
  BY <1>0, <1>3 DEF Fixed!Kill, StreakMoves
<1>4. CASE Fixed!Disarm
  BY <1>4 DEF Fixed!Disarm, StreakMoves
<1>5. CASE Fixed!WatchStart
  BY <1>0, <1>1, <1>5 DEF Fixed!WatchStart, StreakMoves
<1>6. CASE Fixed!WatchLoop
  BY <1>1, <1>2, <1>6 DEF Fixed!WatchLoop, Stages
<1>7. CASE Fixed!WatchTarget
  BY <1>7 DEF Fixed!WatchTarget, StreakMoves, Stages
<1>8. ASSUME NEW b \in BOOLEAN, Fixed!WatchQuote(b) PROVE StreakMoves(FixedErrors)
  BY <1>8 DEF Fixed!WatchQuote, StreakMoves, Stages
<1>9. CASE Fixed!WatchExecuted \/ Fixed!WatchRefused
  BY <1>1, <1>2, <1>9 DEF Fixed!WatchExecuted, Fixed!WatchRefused, Stages
<1>10. ASSUME NEW b \in BOOLEAN, Fixed!WatchHeartbeat(b) PROVE StreakMoves(FixedErrors)
  BY <1>1, <1>2, <1>10 DEF Fixed!WatchHeartbeat, Stages
<1>11. ASSUME NEW b \in BOOLEAN, Fixed!WatchError(b) PROVE StreakMoves(FixedErrors)
  BY <1>1, <1>11 DEF Fixed!WatchError, Fixed!errorsExhausted, StreakMoves
<1>12. CASE Fixed!WatchRetry
  BY <1>1, <1>2, <1>12 DEF Fixed!WatchRetry, Stages
<1>13. \/ UNCHANGED watch
       \/ Fixed!Disarm \/ (\E p \in Fixed!Procs : Fixed!Kill(p))
       \/ Fixed!WatchStart \/ Fixed!WatchLoop \/ Fixed!WatchTarget \/ Fixed!WatchExecuted \/ Fixed!WatchRefused
       \/ Fixed!WatchRetry
       \/ \E b \in BOOLEAN : Fixed!WatchQuote(b) \/ Fixed!WatchHeartbeat(b) \/ Fixed!WatchError(b)
  BY DEF Fixed!LaneNext, Fixed!MineTx, Fixed!PoolEvent, Fixed!Preflight, Fixed!SignAndRecord, Fixed!Broadcast,
    Fixed!WriteSuccess, Fixed!AppendEffect, Fixed!WriteRevert, Fixed!AppendRevert, Fixed!CommandFails,
    Fixed!CliEnds, Fixed!RecoverDeployment, Fixed!ReconcileSuccess, Fixed!ReconcileRevert,
    Fixed!ReconcileHalt, Fixed!RebroadcastSameRaw, Fixed!ArmRead, Fixed!ArmWrite, Fixed!Expire
<1>14. UNCHANGED watch => StreakMoves(FixedErrors)
  BY DEF StreakMoves
<1> QED
  BY <1>3, <1>4, <1>5, <1>6, <1>7, <1>8, <1>9, <1>10, <1>11, <1>12, <1>13, <1>14

LEMMA RetryWatches == ASSUME Retries!LaneNext PROVE StreakMoves(RetryErrors)
<1>0. Retries!NoWatch = Fixed!NoWatch
  BY DEF Retries!NoWatch, Fixed!NoWatch
<1>1. ASSUME NEW status, Retries!stops(status) PROVE StreakMoves(RetryErrors)
  BY <1>0, <1>1 DEF Retries!stops, StreakMoves
<1>2. ASSUME NEW stage \in Stages, watch' = [watch EXCEPT !.pc = stage] PROVE StreakMoves(RetryErrors)
  BY <1>2 DEF StreakMoves
<1>3. ASSUME NEW p \in Retries!Procs, Retries!Kill(p) PROVE StreakMoves(RetryErrors)
  BY <1>0, <1>3 DEF Retries!Kill, StreakMoves
<1>4. CASE Retries!Disarm
  BY <1>4 DEF Retries!Disarm, StreakMoves
<1>5. CASE Retries!WatchStart
  BY <1>0, <1>1, <1>5 DEF Retries!WatchStart, StreakMoves
<1>6. CASE Retries!WatchLoop
  BY <1>1, <1>2, <1>6 DEF Retries!WatchLoop, Stages
<1>7. CASE Retries!WatchTarget
  BY <1>7 DEF Retries!WatchTarget, StreakMoves, Stages
<1>8. ASSUME NEW b \in BOOLEAN, Retries!WatchQuote(b) PROVE StreakMoves(RetryErrors)
  BY <1>8 DEF Retries!WatchQuote, StreakMoves, Stages
<1>9. CASE Retries!WatchExecuted \/ Retries!WatchRefused
  BY <1>1, <1>2, <1>9 DEF Retries!WatchExecuted, Retries!WatchRefused, Stages
<1>10. ASSUME NEW b \in BOOLEAN, Retries!WatchHeartbeat(b) PROVE StreakMoves(RetryErrors)
  BY <1>1, <1>2, <1>10 DEF Retries!WatchHeartbeat, Stages
<1>11. ASSUME NEW b \in BOOLEAN, Retries!WatchError(b) PROVE StreakMoves(RetryErrors)
  BY <1>1, <1>11 DEF Retries!WatchError, Retries!errorsExhausted, StreakMoves
<1>12. CASE Retries!WatchRetry
  BY <1>1, <1>2, <1>12 DEF Retries!WatchRetry, Stages
<1>13. \/ UNCHANGED watch
       \/ Retries!Disarm \/ (\E p \in Retries!Procs : Retries!Kill(p))
       \/ Retries!WatchStart \/ Retries!WatchLoop \/ Retries!WatchTarget \/ Retries!WatchExecuted \/ Retries!WatchRefused
       \/ Retries!WatchRetry
       \/ \E b \in BOOLEAN : Retries!WatchQuote(b) \/ Retries!WatchHeartbeat(b) \/ Retries!WatchError(b)
  BY DEF Retries!LaneNext, Retries!MineTx, Retries!PoolEvent, Retries!Preflight, Retries!SignAndRecord, Retries!Broadcast,
    Retries!WriteSuccess, Retries!AppendEffect, Retries!WriteRevert, Retries!AppendRevert, Retries!CommandFails,
    Retries!CliEnds, Retries!RecoverDeployment, Retries!ReconcileSuccess, Retries!ReconcileRevert,
    Retries!ReconcileHalt, Retries!RebroadcastSameRaw, Retries!ArmRead, Retries!ArmWrite, Retries!Expire
<1>14. UNCHANGED watch => StreakMoves(RetryErrors)
  BY DEF StreakMoves
<1> QED
  BY <1>3, <1>4, <1>5, <1>6, <1>7, <1>8, <1>9, <1>10, <1>11, <1>12, <1>13, <1>14

LEMMA TxsRewritten ==
  ASSUME TxsShaped, NEW i, NEW t, TxShape(txs[i]) => TxShape(t), txs' = [txs EXCEPT ![i] = t]
  PROVE  TxsShaped'
<1>1. PICK S : txs \in Seq(S)
  BY DEF TxsShaped
<1>2. PICK T : T = S \cup {t}
  OBVIOUS
<1>3. txs \in Seq(T) /\ t \in T
  BY <1>1, <1>2
<1>4. CASE i \in DOMAIN txs
  <2>1. txs' \in Seq(T) /\ DOMAIN txs' = DOMAIN txs /\ \A k \in DOMAIN txs : txs'[k] = IF k = i THEN t ELSE txs[k]
    BY <1>3, <1>4
  <2> QED
    BY <1>4, <2>1 DEF TxsShaped
<1>5. CASE i \notin DOMAIN txs
  <2>1. txs' = txs
    BY <1>3, <1>5
  <2> QED
    BY <2>1 DEF TxsShaped
<1> QED
  BY <1>4, <1>5

LEMMA TxsSigned ==
  ASSUME TxsShaped, NEW t, TxShape(t), txs' = Append(txs, t)
  PROVE  TxsShaped'
<1>1. PICK S : txs \in Seq(S)
  BY DEF TxsShaped
<1>2. PICK T : T = S \cup {t}
  OBVIOUS
<1>3. txs \in Seq(T) /\ t \in T
  BY <1>1, <1>2
<1>4. txs' \in Seq(T) /\ DOMAIN txs' = 1 .. Len(txs) + 1 /\ DOMAIN txs = 1 .. Len(txs) /\ Len(txs) \in Nat
      /\ \A k \in 1 .. Len(txs) + 1 : txs'[k] = IF k \in DOMAIN txs THEN txs[k] ELSE t
  BY <1>3
<1> QED
  BY <1>4 DEF TxsShaped

LEMMA RetryTxs == ASSUME TxsShaped, Retries!LaneNext PROVE TxsShaped'
<1>1. \/ txs' = txs
      \/ \E i \in DOMAIN txs, result \in {"success", "reverted"} : Retries!MineTx(i, result)
      \/ \E p \in Retries!Procs :
           Retries!SignAndRecord(p) \/ Retries!Broadcast(p) \/ Retries!AppendEffect(p) \/ Retries!AppendRevert(p)
      \/ Retries!ReconcileRevert \/ Retries!RebroadcastSameRaw
  BY DEF Retries!LaneNext, Retries!PoolEvent, Retries!Preflight,
    Retries!WriteSuccess, Retries!WriteRevert, Retries!CommandFails,
    Retries!Kill, Retries!CliEnds, Retries!RecoverDeployment, Retries!ReconcileSuccess,
    Retries!ReconcileHalt, Retries!ArmRead, Retries!ArmWrite, Retries!Disarm,
    Retries!Expire, Retries!WatchStart, Retries!WatchLoop, Retries!WatchTarget, Retries!WatchExecuted,
    Retries!WatchRefused, Retries!WatchRetry, Retries!WatchQuote, Retries!WatchHeartbeat, Retries!WatchError
<1>2. txs' = txs => TxsShaped'
  BY DEF TxsShaped
<1>3. ASSUME NEW i, NEW result \in {"success", "reverted"}, txs' = [txs EXCEPT ![i].chain = result] PROVE TxsShaped'
  <2>1. PICK t : t = [txs[i] EXCEPT !.chain = result]
    OBVIOUS
  <2>2. txs' = [txs EXCEPT ![i] = t]
    BY <1>3, <2>1
  <2>3. TxShape(txs[i]) => TxShape(t)
    BY <2>1 DEF TxShape
  <2> QED
    BY <2>2, <2>3, TxsRewritten
<1>4. ASSUME NEW i, NEW result \in {"effect", "reverted"}, txs' = [txs EXCEPT ![i].audit = result] PROVE TxsShaped'
  <2>1. PICK t : t = [txs[i] EXCEPT !.audit = result]
    OBVIOUS
  <2>2. txs' = [txs EXCEPT ![i] = t]
    BY <1>4, <2>1
  <2>3. TxShape(txs[i]) => TxShape(t)
    BY <2>1 DEF TxShape
  <2> QED
    BY <2>2, <2>3, TxsRewritten
<1>5. ASSUME NEW i, NEW reached, NEW notes, txs' = [txs EXCEPT ![i].sent = reached, ![i].notes = notes]
      PROVE  TxsShaped'
  <2>1. PICK t : t = [txs[i] EXCEPT !.sent = reached, !.notes = notes]
    OBVIOUS
  <2>2. txs' = [txs EXCEPT ![i] = t]
    <3>1. PICK S : txs \in Seq(S)
      BY DEF TxsShaped
    <3> QED
      BY <1>5, <2>1, <3>1
  <2>3. TxShape(txs[i]) => TxShape(t)
    BY <2>1 DEF TxShape
  <2> QED
    BY <2>2, <2>3, TxsRewritten
<1>6. ASSUME NEW i, txs' = [txs EXCEPT ![i].sent = TRUE] PROVE TxsShaped'
  <2>1. PICK t : t = [txs[i] EXCEPT !.sent = TRUE]
    OBVIOUS
  <2>2. txs' = [txs EXCEPT ![i] = t]
    BY <1>6, <2>1
  <2>3. TxShape(txs[i]) => TxShape(t)
    BY <2>1 DEF TxShape
  <2> QED
    BY <2>2, <2>3, TxsRewritten
<1>7. ASSUME NEW p \in Retries!Procs, Retries!SignAndRecord(p) PROVE TxsShaped'
  <2>1. PICK t : /\ t = [kind |-> jobs[p].kind, nonce |-> jobs[p].nonce, audit |-> "signed", by |-> p,
                         under |-> IF p = "watch" THEN watch.arm ELSE 0,
                         late |-> p = "watch" /\ arm.status # "ARMED",
                         sent |-> FALSE, chain |-> "none", notes |-> {}]
                 /\ txs' = Append(txs, t)
    BY <1>7 DEF Retries!SignAndRecord
  <2>2. TxShape(t)
    BY <2>1 DEF TxShape
  <2> QED
    BY <2>1, <2>2, TxsSigned
<1>8. ASSUME NEW i \in DOMAIN txs, NEW result \in {"success", "reverted"}, Retries!MineTx(i, result) PROVE TxsShaped'
  BY <1>3, <1>8 DEF Retries!MineTx
<1>9. ASSUME NEW p \in Retries!Procs, Retries!Broadcast(p) PROVE TxsShaped'
  BY <1>5, <1>9 DEF Retries!Broadcast
<1>10. ASSUME NEW p \in Retries!Procs, Retries!AppendEffect(p) \/ Retries!AppendRevert(p) PROVE TxsShaped'
  BY <1>4, <1>10 DEF Retries!AppendEffect, Retries!AppendRevert, Retries!appendReverted
<1>11. CASE Retries!ReconcileRevert
  BY <1>4, <1>11 DEF Retries!ReconcileRevert, Retries!appendReverted
<1>12. CASE Retries!RebroadcastSameRaw
  BY <1>6, <1>12 DEF Retries!RebroadcastSameRaw
<1> QED
  BY <1>1, <1>2, <1>7, <1>8, <1>9, <1>10, <1>11, <1>12

LEMMA LeasesAnnounce ==
  ASSUME Announced(LeaseAuths), AuthShape(auth), Leases!LaneNext
  PROVE  Announced(LeaseAuths)'
<1>1. \/ UNCHANGED <<issued, marker, revoked>>
      \/ issued < LeaseAuths /\ issued' = issued + 1 /\ UNCHANGED <<marker, revoked>>
      \/ auth.id # 0 /\ issued' = issued /\ marker' = auth.id /\ revoked' = revoked \cup {auth.id}
  BY DEF Leases!LaneNext, Leases!Tick, Leases!MineMutation, Leases!ArmGeneric, Leases!DisarmMark, Leases!DisarmWrite,
    Leases!WatchStart, Leases!WatchTop, Leases!RenewCheck, Leases!RenewWrite, Leases!RenewVerify, Leases!BoardIdle,
    Leases!RenewFails, Leases!BoardCandidate, Leases!ExecutionEnds, Leases!LockForWatch, Leases!LockForCli,
    Leases!PreflightGeneric, Leases!AuthorizeGeneric, Leases!PersistSigned, Leases!BroadcastSigned,
    Leases!GenericFails, Leases!BookSuccess, Leases!BookRevert, Leases!CloseMutation, Leases!CliEnds,
    Leases!ReconcileGeneric, Leases!ReconcileHalts, Leases!LoseWatcher, Leases!LoseCommand
<1>2. /\ auth.id \in 0 .. issued /\ LeaseAuths \in Nat /\ issued \in Nat /\ issued <= LeaseAuths
      /\ marker \in 0 .. issued /\ revoked \subseteq 1 .. issued
  BY LimitsAssumption DEF LimitsAssumption, AuthShape, Announced
<1>3. CASE UNCHANGED <<issued, marker, revoked>>
  BY <1>3 DEF Announced
<1>4. CASE issued < LeaseAuths /\ issued' = issued + 1 /\ UNCHANGED <<marker, revoked>>
  <2>1. issued' \in 0 .. LeaseAuths /\ marker \in 0 .. issued + 1 /\ \A a \in 1 .. issued : a \in 1 .. issued + 1
    BY <1>2, <1>4
  <2> QED
    BY <1>2, <1>4, <2>1 DEF Announced
<1>5. CASE auth.id # 0 /\ issued' = issued /\ marker' = auth.id /\ revoked' = revoked \cup {auth.id}
  <2>1. auth.id \in 1 .. issued
    BY <1>2, <1>5
  <2> QED
    BY <1>2, <1>5, <2>1 DEF Announced
<1> QED
  BY <1>1, <1>3, <1>4, <1>5

LEMMA ShotsAnnounce ==
  ASSUME Announced(ShotAuths), AuthShape(auth), Shots!LaneNext
  PROVE  Announced(ShotAuths)'
<1>1. \/ UNCHANGED <<issued, marker, revoked>>
      \/ issued < ShotAuths /\ issued' = issued + 1 /\ UNCHANGED <<marker, revoked>>
      \/ auth.id # 0 /\ issued' = issued /\ marker' = auth.id /\ revoked' = revoked \cup {auth.id}
  BY DEF Shots!LaneNext, Shots!Tick, Shots!MineMutation, Shots!ArmGeneric, Shots!DisarmMark, Shots!DisarmWrite,
    Shots!WatchStart, Shots!WatchTop, Shots!RenewCheck, Shots!RenewWrite, Shots!RenewVerify, Shots!BoardIdle,
    Shots!RenewFails, Shots!BoardCandidate, Shots!ExecutionEnds, Shots!LockForWatch, Shots!LockForCli,
    Shots!PreflightGeneric, Shots!AuthorizeGeneric, Shots!PersistSigned, Shots!BroadcastSigned,
    Shots!GenericFails, Shots!BookSuccess, Shots!BookRevert, Shots!CloseMutation, Shots!CliEnds,
    Shots!ReconcileGeneric, Shots!ReconcileHalts, Shots!LoseWatcher, Shots!LoseCommand
<1>2. /\ auth.id \in 0 .. issued /\ ShotAuths \in Nat /\ issued \in Nat /\ issued <= ShotAuths
      /\ marker \in 0 .. issued /\ revoked \subseteq 1 .. issued
  BY LimitsAssumption DEF LimitsAssumption, AuthShape, Announced
<1>3. CASE UNCHANGED <<issued, marker, revoked>>
  BY <1>3 DEF Announced
<1>4. CASE issued < ShotAuths /\ issued' = issued + 1 /\ UNCHANGED <<marker, revoked>>
  <2>1. issued' \in 0 .. ShotAuths /\ marker \in 0 .. issued + 1 /\ \A a \in 1 .. issued : a \in 1 .. issued + 1
    BY <1>2, <1>4
  <2> QED
    BY <1>2, <1>4, <2>1 DEF Announced
<1>5. CASE auth.id # 0 /\ issued' = issued /\ marker' = auth.id /\ revoked' = revoked \cup {auth.id}
  <2>1. auth.id \in 1 .. issued
    BY <1>2, <1>5
  <2> QED
    BY <1>2, <1>5, <2>1 DEF Announced
<1> QED
  BY <1>1, <1>3, <1>4, <1>5

LEMMA MutRewritten ==
  ASSUME MutsShaped, UNCHANGED count, NEW i, NEW m, MutShape(muts[i]) => MutShape(m), muts' = [muts EXCEPT ![i] = m]
  PROVE  MutsShaped'
  BY DEF MutsShaped

LEMMA LeaseMutsKept == ASSUME MutsShaped, Leases!LaneNext PROVE MutsShaped'
<1>1. \/ UNCHANGED <<muts, count>>
      \/ \E i \in Leases!Muts, result \in {"success", "reverted"} : Leases!MineMutation(i, result)
      \/ Leases!PersistSigned \/ Leases!BroadcastSigned \/ Leases!CloseMutation \/ Leases!ReconcileGeneric
  BY DEF Leases!LaneNext, Leases!Tick, Leases!ArmGeneric, Leases!DisarmMark, Leases!DisarmWrite,
    Leases!WatchStart, Leases!WatchTop, Leases!RenewCheck, Leases!RenewWrite, Leases!RenewVerify, Leases!BoardIdle,
    Leases!RenewFails, Leases!BoardCandidate, Leases!ExecutionEnds, Leases!LockForWatch, Leases!LockForCli,
    Leases!PreflightGeneric, Leases!AuthorizeGeneric, Leases!GenericFails, Leases!BookSuccess, Leases!BookRevert,
    Leases!CliEnds, Leases!ReconcileHalts, Leases!LoseWatcher, Leases!LoseCommand
<1>2. UNCHANGED <<muts, count>> => MutsShaped'
  BY DEF MutsShaped
<1>3. ASSUME NEW i, NEW result, UNCHANGED count, muts' = [muts EXCEPT ![i].chain = result] PROVE MutsShaped'
  <2>1. PICK m : m = [muts[i] EXCEPT !.chain = result]
    OBVIOUS
  <2>2. muts' = [muts EXCEPT ![i] = m] /\ (MutShape(muts[i]) => MutShape(m))
    BY <1>3, <2>1 DEF MutShape
  <2> QED
    BY <1>3, <2>2, MutRewritten
<1>4. ASSUME NEW i, NEW result \in {"effect", "reverted"}, UNCHANGED count, muts' = [muts EXCEPT ![i].audit = result]
      PROVE  MutsShaped'
  <2>1. PICK m : m = [muts[i] EXCEPT !.audit = result]
    OBVIOUS
  <2>2. muts' = [muts EXCEPT ![i] = m] /\ (MutShape(muts[i]) => MutShape(m))
    BY <1>4, <2>1 DEF MutShape
  <2> QED
    BY <1>4, <2>2, MutRewritten
<1>5. ASSUME NEW i, NEW reached, UNCHANGED count, muts' = [muts EXCEPT ![i].sent = reached] PROVE MutsShaped'
  <2>1. PICK m : m = [muts[i] EXCEPT !.sent = reached]
    OBVIOUS
  <2>2. muts' = [muts EXCEPT ![i] = m] /\ (MutShape(muts[i]) => MutShape(m))
    BY <1>5, <2>1 DEF MutShape
  <2> QED
    BY <1>5, <2>2, MutRewritten
<1>6. ASSUME NEW i, NEW again \in BOOLEAN, UNCHANGED count,
             muts' = [muts EXCEPT ![i].sent = again, ![i].audit = IF again THEN "signed" ELSE "abandoned"]
      PROVE  MutsShaped'
  <2>1. PICK m : m = [muts[i] EXCEPT !.sent = again, !.audit = IF again THEN "signed" ELSE "abandoned"]
    OBVIOUS
  <2>2. muts' = [muts EXCEPT ![i] = m]
    BY <1>6, <2>1 DEF MutsShaped
  <2>3. MutShape(muts[i]) => MutShape(m)
    BY <2>1 DEF MutShape
  <2> QED
    BY <1>6, <2>2, <2>3, MutRewritten
<1>7. CASE Leases!PersistSigned
  <2>1. \/ UNCHANGED <<muts, count>>
        \/ /\ count < LeaseMuts /\ count' = count + 1
           /\ muts' = [muts EXCEPT ![count + 1] =
                [Leases!NoMut EXCEPT !.audit = "signed", !.kind = signer.kind, !.nonce = signer.nonce,
                                     !.auth = signer.auth, !.shot = signer.shot]]
    BY <1>7 DEF Leases!PersistSigned
  <2>2. PICK m : m = [Leases!NoMut EXCEPT !.audit = "signed", !.kind = signer.kind, !.nonce = signer.nonce,
                                          !.auth = signer.auth, !.shot = signer.shot]
    OBVIOUS
  <2>3. MutShape(m)
    BY <2>2 DEF MutShape, Leases!NoMut
  <2>4. LeaseMuts \in Nat
    BY LimitsAssumption DEF LimitsAssumption
  <2>5. CASE count < LeaseMuts /\ count' = count + 1 /\ muts' = [muts EXCEPT ![count + 1] = m]
    <3>1. count' \in 0 .. LeaseMuts
      BY <2>4, <2>5 DEF MutsShaped
    <3> QED
      BY <2>3, <2>5, <3>1 DEF MutsShaped
  <2> QED
    BY <1>2, <2>1, <2>2, <2>5
<1>8. CASE Leases!ReconcileGeneric
  BY <1>2, <1>4, <1>6, <1>8 DEF Leases!ReconcileGeneric
<1>9. CASE Leases!BroadcastSigned
  BY <1>2, <1>5, <1>9 DEF Leases!BroadcastSigned
<1>10. CASE Leases!CloseMutation
  BY <1>4, <1>10 DEF Leases!CloseMutation
<1>11. ASSUME NEW i \in Leases!Muts, NEW result \in {"success", "reverted"}, Leases!MineMutation(i, result)
       PROVE  MutsShaped'
  BY <1>3, <1>11 DEF Leases!MineMutation
<1> QED
  BY <1>1, <1>2, <1>7, <1>8, <1>9, <1>10, <1>11

LEMMA RawRewritten ==
  ASSUME GlobalTypes, NEW i \in DOMAIN raws, NEW r, r.auth = raws[i].auth, r.plan = raws[i].plan,
         raws' = [raws EXCEPT ![i] = r]
  PROVE  RawsSame
<1>1. PICK T : T = RawRecord \cup {r}
  OBVIOUS
<1>2. raws \in Seq(T) /\ r \in T
  <2>1. raws \in Seq(RawRecord)
    BY DEF GlobalTypes
  <2> QED
    BY <1>1, <2>1
<1>3. Len(raws') = Len(raws) /\ DOMAIN raws' = DOMAIN raws /\ \A k \in DOMAIN raws : raws'[k] = IF k = i THEN r ELSE raws[k]
  BY <1>2
<1> QED
  BY <1>3 DEF RawsSame

LEMMA GlobalRaws ==
  ASSUME GlobalInv, Global!GlobalNext
  PROVE  RawsSame \/ (Global!SignPersisted /\ raws' # raws)
<1>0. GlobalTypes /\ CommandKept /\ raws \in Seq(RawRecord) /\ \A i \in DOMAIN raws : raws[i] \in RawRecord
  BY DEF GlobalInv, GlobalTypes
<1>1. raws' = raws => RawsSame
  BY DEF RawsSame
<1>2. ASSUME NEW i \in DOMAIN raws, NEW gross, NEW cost, Global!MineRaw(i, gross, cost) PROVE RawsSame
  <2>1. raws[i] \in RawRecord
    BY <1>0
  <2>2. CASE raws' = [raws EXCEPT ![i].chain = "success", ![i].gross = gross, ![i].after = held + gross, ![i].cost = cost]
    <3>1. PICK r : r = [raws[i] EXCEPT !.chain = "success", !.gross = gross, !.after = held + gross, !.cost = cost]
      OBVIOUS
    <3>2. raws' = [raws EXCEPT ![i] = r]
      BY <1>0, <2>2, <3>1
    <3>3. r.auth = raws[i].auth /\ r.plan = raws[i].plan
      BY <2>1, <3>1 DEF RawRecord
    <3> QED
      BY <1>0, <3>2, <3>3, RawRewritten
  <2>3. CASE raws' = [raws EXCEPT ![i].chain = "reverted", ![i].cost = cost]
    <3>1. PICK r : r = [raws[i] EXCEPT !.chain = "reverted", !.cost = cost]
      OBVIOUS
    <3>2. raws' = [raws EXCEPT ![i] = r]
      BY <1>0, <2>3, <3>1
    <3>3. r.auth = raws[i].auth /\ r.plan = raws[i].plan
      BY <2>1, <3>1 DEF RawRecord
    <3> QED
      BY <1>0, <3>2, <3>3, RawRewritten
  <2> QED
    BY <1>2, <2>2, <2>3 DEF Global!MineRaw
<1>3. ASSUME NEW reached, Global!BroadcastPersisted(reached) PROVE RawsSame
  <2>1. command.raw \in DOMAIN raws /\ raws' = [raws EXCEPT ![command.raw].sent = reached]
    BY <1>0, <1>3 DEF Global!BroadcastPersisted, CommandKept
  <2>2. PICK r : r = [raws[command.raw] EXCEPT !.sent = reached]
    OBVIOUS
  <2>3. raws' = [raws EXCEPT ![command.raw] = r]
    BY <2>1, <2>2
  <2>4. r.auth = raws[command.raw].auth /\ r.plan = raws[command.raw].plan
    BY <1>0, <2>1, <2>2 DEF RawRecord
  <2> QED
    BY <1>0, <2>1, <2>3, <2>4, RawRewritten
<1>4. CASE Global!AuditReverted \/ Global!AuditEffect
  <2>1. PICK result : command.raw \in DOMAIN raws /\ raws' = [raws EXCEPT ![command.raw].audit = result]
    BY <1>0, <1>4 DEF Global!AuditReverted, Global!AuditEffect, Global!closes, CommandKept
  <2>2. PICK r : r = [raws[command.raw] EXCEPT !.audit = result]
    OBVIOUS
  <2>3. raws' = [raws EXCEPT ![command.raw] = r]
    BY <2>1, <2>2
  <2>4. r.auth = raws[command.raw].auth /\ r.plan = raws[command.raw].plan
    BY <1>0, <2>1, <2>2 DEF RawRecord
  <2> QED
    BY <1>0, <2>1, <2>3, <2>4, RawRewritten
<1>5. \/ raws' = raws
      \/ \E i \in DOMAIN raws, gross \in 0 .. MaxMarket, cost \in 0 .. MaxMarket : Global!MineRaw(i, gross, cost)
      \/ \E reached \in BOOLEAN : Global!BroadcastPersisted(reached)
      \/ Global!AuditReverted \/ Global!AuditEffect \/ Global!SignPersisted
  BY DEF Global!GlobalNext, Global!Raws, Global!Gift, Global!ArmShared, Global!RevokeShared, Global!WatcherLeaves,
    Global!StartDeploy, Global!StartExecute, Global!StartReconcile, Global!SearchEnds, Global!FinalValidation,
    Global!ReceiptUnknown, Global!WriteDeployment, Global!WriteExecution, Global!KillProgram
<1> QED
  BY <1>1, <1>2, <1>3, <1>4, <1>5

(* What the program under way carries. *)
LEMMA GlobalCommand ==
  ASSUME GlobalInv, GlobalBounds, Global!GlobalNext
  PROVE  /\ authority'.id \in Nat /\ authority'.id >= authority.id /\ authority'.id <= MaxArms
         /\ command'.auth <= authority'.id /\ command'.plan.minimum <= MaxMarket
<1>0. /\ authority \in [id : Nat, live : BOOLEAN] /\ command \in CommandRecord /\ MaxArms \in Nat
      /\ {MaxMarket, Floor} \subseteq Nat /\ authority.id <= MaxArms
      /\ command.auth <= authority.id /\ command.plan.minimum <= MaxMarket
  BY LimitsAssumption, ProgramsAssumption DEF LimitsAssumption, ProgramsAssumption, GlobalInv, GlobalTypes, GlobalBounds
<1>1. /\ authority'.id \in Nat /\ authority'.id >= authority.id /\ authority'.id <= MaxArms
      /\ authority'.id # authority.id => UNCHANGED command
  <2>1. \/ UNCHANGED authority
        \/ authority.id < MaxArms /\ authority' = [id |-> authority.id + 1, live |-> TRUE] /\ UNCHANGED command
        \/ authority' = [authority EXCEPT !.live = FALSE]
    BY DEF Global!GlobalNext, Global!MineRaw, Global!Gift, Global!ArmShared, Global!RevokeShared,
      Global!WatcherLeaves, Global!StartDeploy, Global!StartExecute, Global!StartReconcile, Global!SearchEnds,
      Global!FinalValidation, Global!SignPersisted, Global!BroadcastPersisted, Global!ReceiptUnknown,
      Global!AuditReverted, Global!WriteDeployment, Global!WriteExecution, Global!AuditEffect, Global!KillProgram
  <2> QED
    BY <1>0, <2>1
<1>2. \/ UNCHANGED command
      \/ command' = Global!NoRun
      \/ \E stage : command' = [command EXCEPT !.pc = stage]
      \/ \E raw : command' = [command EXCEPT !.pc = "signed", !.raw = raw]
      \/ Global!StartDeploy \/ Global!FinalValidation
      \/ \E auth1 \in {0, authority.id} : Global!StartExecute(auth1) \/ Global!StartReconcile(auth1)
  BY DEF Global!GlobalNext, Global!MineRaw, Global!Gift, Global!ArmShared, Global!RevokeShared,
    Global!WatcherLeaves, Global!SearchEnds, Global!SignPersisted, Global!BroadcastPersisted, Global!ReceiptUnknown,
    Global!AuditReverted, Global!WriteDeployment, Global!WriteExecution, Global!AuditEffect, Global!KillProgram,
    Global!leaves, Global!continues
<1> DEFINE Within == command'.auth <= authority'.id /\ command'.plan.minimum <= MaxMarket
<1> SUFFICES Within
  BY <1>1
<1>3. CASE UNCHANGED command
  BY <1>0, <1>1, <1>3 DEF CommandRecord
<1>4. CASE command' = Global!NoRun
  BY <1>0, <1>1, <1>4 DEF Global!NoRun
<1>5. ASSUME NEW stage, command' = [command EXCEPT !.pc = stage] PROVE Within
  <2>1. command'.auth = command.auth /\ command'.plan = command.plan
    BY <1>0, <1>5 DEF CommandRecord
  <2> QED
    BY <1>0, <1>1, <2>1 DEF CommandRecord
<1>6. ASSUME NEW raw, command' = [command EXCEPT !.pc = "signed", !.raw = raw] PROVE Within
  <2>1. command'.auth = command.auth /\ command'.plan = command.plan
    BY <1>0, <1>6 DEF CommandRecord
  <2> QED
    BY <1>0, <1>1, <2>1 DEF CommandRecord
<1>7. CASE Global!StartDeploy
  <2>1. command'.auth = 0 /\ command'.plan.minimum = 0
    BY <1>7 DEF Global!StartDeploy, Global!NoRun
  <2> QED
    BY <1>0, <1>1, <2>1
<1>8. ASSUME NEW auth1 \in {0, authority.id}, Global!StartExecute(auth1) \/ Global!StartReconcile(auth1) PROVE Within
  <2>1. \/ command' = [Global!NoRun EXCEPT !.pc = "searching", !.kind = "execute", !.auth = auth1]
        \/ \E i : command' = [Global!NoRun EXCEPT !.pc = "judging", !.kind = "reconcile", !.auth = auth1, !.raw = i]
    BY <1>8 DEF Global!StartExecute, Global!StartReconcile
  <2>2. \E stage, kind, raw :
          command' = [pc |-> stage, kind |-> kind, auth |-> auth1, plan |-> [nonce |-> 0, base |-> 0, minimum |-> 0],
                      raw |-> raw]
    <3>1. ASSUME NEW i, command' = [Global!NoRun EXCEPT !.pc = "judging", !.kind = "reconcile", !.auth = auth1, !.raw = i]
          PROVE  command' = [pc |-> "judging", kind |-> "reconcile", auth |-> auth1,
                             plan |-> [nonce |-> 0, base |-> 0, minimum |-> 0], raw |-> i]
      BY <3>1 DEF Global!NoRun
    <3>2. CASE command' = [Global!NoRun EXCEPT !.pc = "searching", !.kind = "execute", !.auth = auth1]
      BY <3>2 DEF Global!NoRun
    <3> QED
      BY <2>1, <3>1, <3>2
  <2>3. command'.auth = auth1 /\ command'.plan.minimum = 0
    BY <2>2
  <2> QED
    BY <1>0, <1>1, <1>8, <2>3
<1>9. CASE Global!FinalValidation
  <2>1. \/ command' = Global!NoRun
        \/ \E gas \in 1 .. MaxMarket - Floor :
             command' = [command EXCEPT !.pc = "planned",
                           !.plan = [nonce |-> Cardinality(Global!Mined), base |-> held, minimum |-> gas + Floor]]
    BY <1>9 DEF Global!FinalValidation, Global!leaves, Global!Cardinality, Cardinality
  <2>2. ASSUME NEW gas \in 1 .. MaxMarket - Floor,
               command' = [command EXCEPT !.pc = "planned",
                             !.plan = [nonce |-> Cardinality(Global!Mined), base |-> held, minimum |-> gas + Floor]]
        PROVE  Within
    <3>1. command'.auth = command.auth /\ command'.plan.minimum = gas + Floor
      BY <1>0, <2>2 DEF CommandRecord
    <3>2. gas + Floor <= MaxMarket
      BY <1>0
    <3> QED
      BY <1>0, <1>1, <3>1, <3>2 DEF CommandRecord
  <2> QED
    BY <1>4, <2>1, <2>2
<1> HIDE DEF Within
<1> QED
  BY <1>2, <1>3, <1>4, <1>5, <1>6, <1>7, <1>8, <1>9

LEMMA GlobalBoundsStep == ASSUME GlobalInv, GlobalBounds, Global!GlobalNext PROVE GlobalBounds'
<1>0. /\ authority.id \in Nat /\ raws \in Seq(RawRecord) /\ command \in CommandRecord
      /\ {MaxArms, GlobalSigned, GlobalKills, MaxMarket} \subseteq Nat
  BY LimitsAssumption, ProgramsAssumption DEF LimitsAssumption, ProgramsAssumption, GlobalInv, GlobalTypes
<1>1. globalKills' \in 0 .. GlobalKills
  <2>1. globalKills' = globalKills \/ (globalKills < GlobalKills /\ globalKills' = globalKills + 1)
    BY DEF Global!GlobalNext, Global!MineRaw, Global!Gift, Global!ArmShared, Global!RevokeShared,
      Global!WatcherLeaves, Global!StartDeploy, Global!StartExecute, Global!StartReconcile, Global!SearchEnds,
      Global!FinalValidation, Global!SignPersisted, Global!BroadcastPersisted, Global!ReceiptUnknown,
      Global!AuditReverted, Global!WriteDeployment, Global!WriteExecution, Global!AuditEffect, Global!KillProgram
  <2> QED
    BY <1>0, <2>1 DEF GlobalBounds
<1>2. \A i \in DOMAIN raws : raws[i].auth \in Nat /\ raws[i].auth <= authority.id /\ raws[i].plan.minimum <= MaxMarket
  <2>1. \A i \in DOMAIN raws : raws[i] \in RawRecord
    BY <1>0
  <2> QED
    BY <2>1 DEF GlobalBounds, RawRecord
<1>3. CASE RawsSame
  BY <1>0, <1>1, <1>2, <1>3, GlobalCommand DEF GlobalBounds, RawsSame
<1>4. CASE Global!SignPersisted /\ raws' # raws
  <2>1. PICK r : /\ r.auth = command.auth /\ r.plan = command.plan
                 /\ raws' = Append(raws, r) /\ Len(raws) < GlobalSigned
    BY <1>4 DEF Global!SignPersisted
  <2>2. PICK T : T = RawRecord \cup {r}
    OBVIOUS
  <2>3. raws \in Seq(T) /\ r \in T
    BY <1>0, <2>2
  <2>4. /\ Len(raws') = Len(raws) + 1 /\ DOMAIN raws' = 1 .. Len(raws) + 1 /\ DOMAIN raws = 1 .. Len(raws)
        /\ Len(raws) \in Nat
        /\ \A k \in 1 .. Len(raws) + 1 : raws'[k] = IF k \in DOMAIN raws THEN raws[k] ELSE r
    BY <2>1, <2>3
  <2>5. authority' = authority /\ r.auth \in Nat /\ r.auth <= authority.id /\ r.plan.minimum <= MaxMarket
    BY <1>0, <1>4, <2>1 DEF Global!SignPersisted, GlobalBounds, CommandRecord
  <2>6. Len(raws') <= GlobalSigned
    BY <1>0, <2>1, <2>4
  <2> QED
    BY <1>0, <1>1, <1>2, <2>4, <2>5, <2>6, GlobalCommand DEF GlobalBounds
<1> QED
  BY <1>3, <1>4, GlobalRaws

LEMMA GlobalTyped == ASSUME GlobalInv, GlobalBounds PROVE Global!GlobalTypeOK
<1>0. /\ raws \in Seq(RawRecord) /\ ledger \in LedgerRecord /\ authority \in [id : Nat, live : BOOLEAN]
      /\ {MaxArms, GlobalSigned, MaxMarket} \subseteq Nat /\ ExecutorKept
  BY LimitsAssumption, ProgramsAssumption DEF LimitsAssumption, ProgramsAssumption, GlobalInv, GlobalTypes
<1>1. ASSUME NEW i \in DOMAIN raws
      PROVE  /\ raws[i].audit \in {"signed", "effect", "reverted"} /\ raws[i].auth \in 0 .. MaxArms
             /\ raws[i].chain \in {"none", "success", "reverted"} /\ raws[i].plan.minimum \in 0 .. MaxMarket
  <2>1. raws[i] \in RawRecord /\ raws[i].auth <= authority.id /\ authority.id <= MaxArms
        /\ raws[i].plan.minimum <= MaxMarket
    BY <1>0 DEF GlobalBounds
  <2> QED
    <3>1. raws[i].plan \in PlanRecord /\ raws[i].auth \in Nat
          /\ raws[i].audit \in {"signed", "effect", "reverted"} /\ raws[i].chain \in {"none", "success", "reverted"}
      BY <2>1 DEF RawRecord
    <3>2. raws[i].plan.minimum \in Nat
      BY <3>1 DEF PlanRecord
    <3> QED
      BY <1>0, <2>1, <3>1, <3>2
<1>2. ledger.executor \in 0 .. GlobalSigned
  <2>1. ledger.executor \in Nat /\ (ledger.executor # 0 => ledger.executor \in 1 .. Len(raws))
    BY <1>0 DEF LedgerRecord, ExecutorKept
  <2>2. Len(raws) \in Nat /\ Len(raws) <= GlobalSigned
    BY <1>0 DEF GlobalBounds
  <2> QED
    BY <1>0, <2>1, <2>2
<1> QED
  BY <1>0, <1>1, <1>2 DEF GlobalBounds, Global!GlobalTypeOK, Global!Raws

LEMMA CollectorNumbers ==
  ASSUME CollectorInv, CollectorBounds, Collecting!CollectorNext
  PROVE  /\ gifts' \in 0 .. MaxGifts /\ gifts' >= gifts /\ collectorKills' \in 0 .. CollectorKills
         /\ Len(signed') <= CollectorSigned
<1>0. {MaxGifts, CollectorSigned, CollectorKills} \subseteq Nat /\ signed \in Seq(WithdrawalRecord)
  BY LimitsAssumption DEF LimitsAssumption, CollectorInv, CollectorTypes
<1>1. /\ gifts' = gifts \/ (gifts < MaxGifts /\ gifts' = gifts + 1)
      /\ \/ collectorKills' = collectorKills
         \/ collectorKills < CollectorKills /\ collectorKills' = collectorKills + 1
  BY DEF Collecting!CollectorNext, Collecting!MineWithdrawal, Collecting!GiftOf, Collecting!OperatorUnlocks,
    Collecting!Freeze, Collecting!CheckTarget, Collecting!SignWithdrawal, Collecting!SendWithdrawal,
    Collecting!GiveUp, Collecting!AuditReverted, Collecting!BookWithdrawal, Collecting!CloseWithdrawal,
    Collecting!Complete, Collecting!Reconcile, Collecting!KillCollector
<1>2. Len(signed') <= CollectorSigned
  <2>1. \/ signed' = signed
        \/ \E i \in DOMAIN signed, paid \in 1 .. MaxPrice + 1 : Collecting!MineWithdrawal(i, paid)
        \/ \E reached \in BOOLEAN : Collecting!SendWithdrawal(reached)
        \/ Collecting!AuditReverted \/ Collecting!CloseWithdrawal \/ Collecting!SignWithdrawal
    BY DEF Collecting!Signed, Collecting!CollectorNext, Collecting!GiftOf, Collecting!OperatorUnlocks,
      Collecting!Freeze, Collecting!CheckTarget, Collecting!GiveUp, Collecting!BookWithdrawal,
      Collecting!Complete, Collecting!Reconcile, Collecting!KillCollector
  <2>2. Len(signed) \in Nat /\ Len(signed) <= CollectorSigned /\ DOMAIN signed = 1 .. Len(signed)
    BY <1>0 DEF CollectorBounds
  <2>3. CASE Collecting!SignWithdrawal
    <3>1. PICK w : Len(signed) < CollectorSigned /\ signed' = Append(signed, w)
      BY <2>3 DEF Collecting!SignWithdrawal
    <3>2. PICK T : T = WithdrawalRecord \cup {w}
      OBVIOUS
    <3>3. signed \in Seq(T) /\ w \in T
      BY <1>0, <3>2
    <3>4. Len(signed') = Len(signed) + 1
      BY <3>1, <3>3
    <3> QED
      BY <1>0, <2>2, <3>1, <3>4
  <2>4. DOMAIN signed' = DOMAIN signed /\ signed' \in Seq(WithdrawalRecord) => Len(signed') <= CollectorSigned
    BY <2>2
  <2>5. signed' \in Seq(WithdrawalRecord)
    BY CollectorInvStep DEF CollectorInv, CollectorTypes
  <2>6. ASSUME NEW i, NEW paid, Collecting!MineWithdrawal(i, paid) PROVE DOMAIN signed' = DOMAIN signed
    BY <1>0, <2>6 DEF Collecting!MineWithdrawal
  <2>7. ASSUME NEW reached, Collecting!SendWithdrawal(reached) PROVE DOMAIN signed' = DOMAIN signed
    BY <1>0, <2>7 DEF Collecting!SendWithdrawal
  <2>8. CASE Collecting!AuditReverted
    BY <1>0, <2>4, <2>5, <2>8 DEF Collecting!AuditReverted
  <2>9. CASE Collecting!CloseWithdrawal
    BY <1>0, <2>4, <2>5, <2>9 DEF Collecting!CloseWithdrawal
  <2> QED
    BY <2>1, <2>2, <2>3, <2>4, <2>5, <2>6, <2>7, <2>8, <2>9
<1> QED
  BY <1>0, <1>1, <1>2 DEF CollectorBounds

LEMMA CollectorFunds ==
  ASSUME CollectorInv, CollectorBounds, Collecting!CollectorNext, NEW t \in Targets
  PROVE  funds'[t] <= 1 + gifts'
<1>0. /\ funds \in [Targets -> Nat] /\ funds[t] \in Nat /\ funds[t] <= 1 + gifts /\ gifts \in Nat
      /\ gifts' \in Nat /\ gifts' >= gifts
      /\ \A i \in DOMAIN signed : signed[i] \in WithdrawalRecord
  BY CollectorNumbers DEF CollectorInv, CollectorTypes, CollectorBounds
<1>1. \/ funds' = funds
      \/ \E i \in DOMAIN signed : /\ funds[signed[i].target] >= signed[i].amount
                                  /\ funds' = [funds EXCEPT ![signed[i].target] = @ - signed[i].amount]
      \/ \E u \in Targets : gifts' = gifts + 1 /\ funds' = [funds EXCEPT ![u] = @ + 1]
  BY DEF Targets, Collecting!Signed, Collecting!CollectorNext, Collecting!MineWithdrawal, Collecting!GiftOf,
    Collecting!OperatorUnlocks, Collecting!Freeze, Collecting!CheckTarget, Collecting!SignWithdrawal,
    Collecting!SendWithdrawal, Collecting!GiveUp, Collecting!AuditReverted, Collecting!BookWithdrawal,
    Collecting!CloseWithdrawal, Collecting!Complete, Collecting!Reconcile, Collecting!KillCollector
<1>2. ASSUME NEW i \in DOMAIN signed, funds' = [funds EXCEPT ![signed[i].target] = @ - signed[i].amount]
      PROVE  funds'[t] <= 1 + gifts'
  <2>1. signed[i].amount \in Nat
    BY <1>0 DEF WithdrawalRecord
  <2> QED
    BY <1>0, <1>2, <2>1
<1>3. ASSUME NEW u \in Targets, gifts' = gifts + 1, funds' = [funds EXCEPT ![u] = @ + 1] PROVE funds'[t] <= 1 + gifts'
  BY <1>0, <1>3
<1>4. funds' = funds => funds'[t] <= 1 + gifts'
  BY <1>0
<1> QED
  BY <1>1, <1>2, <1>3, <1>4

LEMMA CollectorLock ==
  ASSUME CollectorInv, CollectorBounds, Collecting!CollectorNext
  PROVE  lock' \in {"free", "held", "stale"} /\ (collecting'.pc # "off" => lock' = "held")
<1>0. collecting \in CollectingRecord /\ lock \in {"free", "held", "stale"} /\ (collecting.pc # "off" => lock = "held")
  BY DEF CollectorInv, CollectorTypes, CollectorBounds
<1>1. \/ UNCHANGED <<collecting, lock>>
      \/ lock = "stale" /\ lock' = "free" /\ UNCHANGED collecting
      \/ collecting' = Collecting!NoRun /\ lock' \in {"free", "stale"}
      \/ lock' = "held"
      \/ collecting.pc # "off" /\ UNCHANGED lock
  BY <1>0 DEF Collecting!leaves, Collecting!continues, Collecting!CollectorNext, Collecting!MineWithdrawal,
    Collecting!GiftOf, Collecting!OperatorUnlocks, Collecting!Freeze, Collecting!CheckTarget,
    Collecting!SignWithdrawal, Collecting!SendWithdrawal, Collecting!GiveUp, Collecting!AuditReverted,
    Collecting!BookWithdrawal, Collecting!CloseWithdrawal, Collecting!Complete, Collecting!Reconcile,
    Collecting!KillCollector
<1> QED
  BY <1>0, <1>1 DEF Collecting!NoRun

LEMMA CollectorBoundsStep == ASSUME CollectorInv, CollectorBounds, Collecting!CollectorNext PROVE CollectorBounds'
  BY CollectorNumbers, CollectorFunds, CollectorLock DEF CollectorBounds

LEMMA CollectorTyped == ASSUME CollectorInv, CollectorBounds PROVE Collecting!CollectorTypeOK
<1>0. /\ {MaxGifts, CollectorSigned} \subseteq Nat /\ signed \in Seq(WithdrawalRecord) /\ gifts \in 0 .. MaxGifts
      /\ funds \in [Targets -> Nat] /\ collected \in [Targets -> Nat] /\ StatesKept
  BY LimitsAssumption DEF LimitsAssumption, CollectorInv, CollectorTypes, CollectorBounds
<1>1. \A t \in Targets : funds[t] \in 0 .. 1 + MaxGifts
  BY <1>0 DEF CollectorBounds
<1>2. \A t \in Targets : collected[t] \in 0 .. CollectorSigned
  <2>1. Len(signed) \in Nat /\ Len(signed) <= CollectorSigned /\ DOMAIN signed = 1 .. Len(signed)
    BY <1>0 DEF CollectorBounds
  <2> QED
    BY <1>0, <2>1 DEF StatesKept
<1>3. funds \in [Targets -> 0 .. 1 + MaxGifts] /\ collected \in [Targets -> 0 .. CollectorSigned]
  BY <1>0, <1>1, <1>2
<1> QED
  BY <1>3 DEF CollectorBounds, Collecting!CollectorTypeOK, Targets

--------------------------------------------------------------------------------
(* The fixed lane's watcher under its authorization.  Between the loop's top     *)
(* and its signature it reads the authorization no more; what it found there    *)
(* stays true of what it signed itself, whatever the commands do meanwhile.     *)

LEMMA ServedInvInit == ASSUME Init PROVE ServedInv
<1>1. Fixed!LaneInit
  BY DEF Init
<1>2. /\ txs = <<>>
      /\ arm = [status |-> "none", id |-> 0, nonce |-> 0, count |-> 0, attempts |-> 0, failed |-> 0]
      /\ jobs = [p \in Workers |-> [pc |-> "idle", kind |-> "none", nonce |-> 0, tx |-> 0]]
      /\ watch = [pc |-> "off", status |-> "none", errors |-> 0, last |-> 0, target |-> 0, stop |-> FALSE, arm |-> 0]
  BY <1>1 DEF Fixed!LaneInit, Fixed!NoJob, Fixed!NoWatch, Fixed!Procs, Workers
<1>3. jobs["watch"].pc = "idle" /\ watch.pc = "off" /\ arm.attempts = 0 /\ arm.failed = 0
  BY <1>2 DEF Workers
<1>4. \A a : Own(a) = {}
  BY <1>2 DEF Own
<1>5. Cardinality({}) = 0
  BY FS_EmptySet
<1>6. MaxAttempts \in Nat
  BY ProgramsAssumption
<1>7. DOMAIN txs = {}
  BY <1>2
<1>8. WatchServes
  BY <1>3 DEF WatchServes
<1>9. OwnCounted
  <2>1. Own(arm.id) = {} /\ Cardinality(Own(arm.id)) = 0
    BY <1>4, <1>5, Zenon
  <2>2. Cardinality(Own(arm.id)) <= arm.attempts
    BY <2>1, <1>3
  <2>3. /\ \A i \in DOMAIN txs : txs[i].by = "watch" => txs[i].under <= arm.id /\ txs[i].kind = "execute"
        /\ \A i \in Own(arm.id) : /\ txs[i].audit = "reverted" => arm.failed >= 1
                                  /\ txs[i].late => arm.status # "ARMED"
    BY <2>1, <1>7, Zenon
  <2> QED
    BY <2>2, <2>3, Zenon DEF OwnCounted
<1>10. PoisedKept
  BY <1>3 DEF PoisedKept, Poised
<1>11. ArmsEnd
  BY <1>4, <1>5, <1>6 DEF ArmsEnd
<1> QED
  BY <1>8, <1>9, <1>10, <1>11 DEF ServedInv

LEMMA OwnFinite ==
  ASSUME FixedInv
  PROVE  \A a : IsFiniteSet(Own(a)) /\ Cardinality(Own(a)) \in Nat
<1>1. DOMAIN txs = 1 .. Len(txs) /\ Len(txs) \in Nat
  BY DEF FixedInv, FixedTypes
<1>2. IsFiniteSet(DOMAIN txs)
  BY <1>1, FS_Interval
<1>3. \A a : Own(a) \subseteq DOMAIN txs
  BY DEF Own
<1> QED
  BY <1>2, <1>3, FS_Subset, FS_CardinalityType

(* The watcher's own steps.  It is poised by the loop's top alone. *)
LEMMA WatchMoves ==
  ASSUME FixedInv, WatchServes, Fixed!LaneNext
  PROVE  /\ watch'.pc # "off" => watch'.arm = arm'.id /\ ~arming'.busy
         /\ jobs'["watch"].pc # "idle" => watch'.pc = "execute" /\ jobs'["watch"].kind = "execute"
         /\ Poised' => \/ Poised /\ arm'.id = arm.id
                       \/ Fixed!WatchLoop /\ Fixed!assertWatchArm /\ Fixed!Open = {}
<1> DEFINE Goal == /\ watch'.pc # "off" => watch'.arm = arm'.id /\ ~arming'.busy
                   /\ jobs'["watch"].pc # "idle" => watch'.pc = "execute" /\ jobs'["watch"].kind = "execute"
                   /\ Poised' => \/ Poised /\ arm'.id = arm.id
                                 \/ Fixed!WatchLoop /\ Fixed!assertWatchArm /\ Fixed!Open = {}
<1>0. /\ jobs \in [Workers -> JobRecord] /\ "watch" \in Workers /\ "cli" \in Workers
      /\ arm = [status |-> arm.status, id |-> arm.id, nonce |-> arm.nonce, count |-> arm.count,
                attempts |-> arm.attempts, failed |-> arm.failed]
      /\ watch = [pc |-> watch.pc, status |-> watch.status, errors |-> watch.errors, last |-> watch.last,
                  target |-> watch.target, stop |-> watch.stop, arm |-> watch.arm]
  BY DEF FixedInv, FixedTypes, ArmNumbers, Workers, Numbered
<1>1. /\ watch.pc # "off" => watch.arm = arm.id /\ ~arming.busy
      /\ jobs["watch"].pc # "idle" => watch.pc = "execute" /\ jobs["watch"].kind = "execute"
  BY DEF WatchServes
<1>2. /\ Fixed!NoWatch.pc = "off" /\ Fixed!NoJob.pc = "idle" /\ Fixed!NoArming.busy = FALSE
      /\ Fixed!Procs = Workers
  BY DEF Fixed!NoWatch, Fixed!NoJob, Fixed!NoArming, Fixed!Procs, Workers
(* The watcher stands, and its command. *)
<1>3. ASSUME UNCHANGED <<watch, arming>>, arm'.id = arm.id, jobs'["watch"] = jobs["watch"] PROVE Goal
  BY <1>1, <1>3 DEF Poised
<1>4. ASSUME UNCHANGED <<watch, arming>>, arm'.id = arm.id, NEW j, jobs' = [jobs EXCEPT !["cli"] = j] PROVE Goal
  BY <1>0, <1>3, <1>4
<1>5. ASSUME watch'.pc = "off", jobs'["watch"].pc = "idle" PROVE Goal
  BY <1>5 DEF Poised
(* The watcher goes on with no command of its own. *)
<1>6. ASSUME UNCHANGED <<jobs, arming, arm>>, jobs["watch"].pc = "idle", watch.pc # "off",
             watch'.arm = watch.arm,
             Poised' => Poised \/ (Fixed!WatchLoop /\ Fixed!assertWatchArm /\ Fixed!Open = {})
      PROVE  Goal
  BY <1>1, <1>6
<1>7. CASE \/ Fixed!PoolEvent \/ Fixed!RebroadcastSameRaw \/ Fixed!Expire
           \/ \E i \in DOMAIN txs, result \in {"success", "reverted"} : Fixed!MineTx(i, result)
  BY <1>0, <1>3, <1>7 DEF Fixed!PoolEvent, Fixed!RebroadcastSameRaw, Fixed!Expire, Fixed!MineTx
<1>8. CASE \/ Fixed!CliEnds \/ Fixed!RecoverDeployment \/ Fixed!ReconcileSuccess \/ Fixed!ReconcileRevert \/ Fixed!ReconcileHalt
           \/ \E kind \in {"deploy", "execute", "withdraw"} : Fixed!Preflight("cli", kind)
  <2>1. UNCHANGED <<watch, arming>>
    BY <1>8 DEF Fixed!CliEnds, Fixed!RecoverDeployment, Fixed!ReconcileSuccess, Fixed!ReconcileRevert, Fixed!ReconcileHalt, Fixed!Preflight
  <2>2. arm'.id = arm.id
    BY <1>0, <1>8 DEF Fixed!CliEnds, Fixed!RecoverDeployment, Fixed!ReconcileSuccess, Fixed!ReconcileRevert, Fixed!ReconcileHalt, Fixed!Preflight,
      Fixed!appendReverted
  <2>3. \E j : jobs' = [jobs EXCEPT !["cli"] = j]
    BY <1>8 DEF Fixed!CliEnds, Fixed!RecoverDeployment, Fixed!ReconcileSuccess, Fixed!ReconcileRevert, Fixed!ReconcileHalt, Fixed!Preflight,
      Fixed!Reconcile
  <2> QED
    BY <2>1, <2>2, <2>3, <1>4
<1>9. ASSUME NEW p \in Workers,
             \/ Fixed!SignAndRecord(p) \/ Fixed!Broadcast(p) \/ Fixed!WriteSuccess(p) \/ Fixed!AppendEffect(p)
             \/ Fixed!WriteRevert(p) \/ Fixed!AppendRevert(p)
             \/ \E error \in {"noshot", "transient", "invariant"} : Fixed!CommandFails(p, error)
      PROVE  Goal
  <2>1. UNCHANGED <<watch, arming>>
    BY <1>9 DEF Fixed!SignAndRecord, Fixed!Broadcast, Fixed!WriteSuccess, Fixed!AppendEffect, Fixed!WriteRevert,
      Fixed!AppendRevert, Fixed!CommandFails
  <2>2. arm'.id = arm.id
    BY <1>0, <1>9 DEF Fixed!SignAndRecord, Fixed!Broadcast, Fixed!WriteSuccess, Fixed!AppendEffect, Fixed!WriteRevert,
      Fixed!AppendRevert, Fixed!CommandFails, Fixed!appendReverted
  <2>3. \E next \in {"signed", "sent", "effect", "done", "revert", "invariant", "noshot", "transient"} : \E tx :
          jobs' = [jobs EXCEPT ![p] = [jobs[p] EXCEPT !.pc = next, !.tx = tx]]
    <3>1. \E next \in {"signed", "sent", "effect", "done", "revert", "invariant", "noshot", "transient"} :
            jobs' = [jobs EXCEPT ![p].pc = next, ![p].tx = Len(txs) + 1] \/ jobs' = [jobs EXCEPT ![p].pc = next]
      BY <1>9 DEF Fixed!SignAndRecord, Fixed!Broadcast, Fixed!WriteSuccess, Fixed!AppendEffect, Fixed!WriteRevert,
        Fixed!AppendRevert, Fixed!CommandFails
    <3>2. jobs[p] \in JobRecord
      BY <1>0
    <3>3. PICK next \in {"signed", "sent", "effect", "done", "revert", "invariant", "noshot", "transient"} :
            jobs' = [jobs EXCEPT ![p].pc = next, ![p].tx = Len(txs) + 1] \/ jobs' = [jobs EXCEPT ![p].pc = next]
      BY <3>1
    <3>4. ASSUME jobs' = [jobs EXCEPT ![p].pc = next]
          PROVE  jobs' = [jobs EXCEPT ![p] = [jobs[p] EXCEPT !.pc = next, !.tx = jobs[p].tx]]
      <4>1. [jobs[p] EXCEPT !.pc = next] = [jobs[p] EXCEPT !.pc = next, !.tx = jobs[p].tx]
        BY <3>2 DEF JobRecord
      <4>2. jobs' = [jobs EXCEPT ![p] = [jobs[p] EXCEPT !.pc = next]]
        BY <3>4
      <4> QED
        BY <4>1, <4>2
    <3>5. ASSUME jobs' = [jobs EXCEPT ![p].pc = next, ![p].tx = Len(txs) + 1]
          PROVE  jobs' = [jobs EXCEPT ![p] = [jobs[p] EXCEPT !.pc = next, !.tx = Len(txs) + 1]]
      BY <1>0, <3>2, <3>5 DEF JobRecord
    <3> QED
      BY <3>3, <3>4, <3>5
  <2>4. jobs[p].pc # "idle"
    BY <1>9 DEF Fixed!SignAndRecord, Fixed!Broadcast, Fixed!WriteSuccess, Fixed!AppendEffect, Fixed!WriteRevert,
      Fixed!AppendRevert, Fixed!CommandFails
  <2>5. CASE p = "cli"
    BY <1>4, <2>1, <2>2, <2>3, <2>5
  <2>6. CASE p = "watch"
    <3>1. jobs["watch"] \in JobRecord /\ watch.pc = "execute" /\ jobs["watch"].kind = "execute"
      BY <1>0, <1>1, <2>4, <2>6
    <3>2. jobs'["watch"].kind = "execute" /\ jobs'["watch"].pc \notin {"idle", "checked"}
      BY <1>0, <2>3, <2>6, <3>1 DEF JobRecord
    <3> QED
      BY <1>1, <2>1, <2>2, <3>1, <3>2 DEF Poised
  <2> QED
    BY <2>5, <2>6 DEF Workers
<1>10. ASSUME NEW p \in Workers, Fixed!Kill(p) PROVE Goal
  <2>1. jobs' = [jobs EXCEPT ![p] = Fixed!NoJob] /\ arm' = arm
    BY <1>10 DEF Fixed!Kill
  <2>2. CASE p = "watch"
    BY <1>0, <1>2, <1>5, <1>10, <2>1, <2>2 DEF Fixed!Kill
  <2>3. CASE p = "cli"
    <3>1. watch' = watch /\ arming' = Fixed!NoArming /\ jobs'["watch"] = jobs["watch"]
      BY <1>0, <1>10, <2>1, <2>3 DEF Fixed!Kill
    <3> QED
      BY <1>1, <1>2, <2>1, <3>1 DEF Poised
  <2> QED
    BY <2>2, <2>3 DEF Workers
<1>11. CASE watch.pc = "execute" /\ jobs["watch"].pc = "idle" /\ Fixed!Preflight("watch", "execute")
  <2>1. UNCHANGED <<watch, arm, arming>>
    BY <1>11 DEF Fixed!Preflight
  <2>2. jobs'["watch"].kind = "execute"
    BY <1>0, <1>11 DEF Fixed!Preflight
  <2> QED
    BY <1>1, <1>11, <2>1, <2>2 DEF Poised
<1>12. CASE Fixed!ArmRead
  <2>1. UNCHANGED <<watch, jobs>> /\ watch.pc = "off"
    BY <1>12 DEF Fixed!ArmRead, Fixed!WatchLockFree
  <2> QED
    BY <1>1, <1>5, <2>1
<1>13. CASE Fixed!ArmWrite
  <2>1. UNCHANGED <<watch, jobs>> /\ watch.pc = "off"
    BY <1>1, <1>13 DEF Fixed!ArmWrite
  <2> QED
    BY <1>1, <1>5, <2>1
<1>14. CASE Fixed!Disarm
  <2>1. UNCHANGED <<arming, jobs>> /\ watch'.pc = watch.pc /\ watch'.arm = watch.arm /\ arm'.id = arm.id
    BY <1>0, <1>14 DEF Fixed!Disarm
  <2> QED
    BY <1>1, <2>1 DEF Poised
<1>15. CASE Fixed!WatchStart
  <2>1. UNCHANGED <<arm, arming, jobs>> /\ watch.pc = "off" /\ ~arming.busy
    BY <1>15 DEF Fixed!WatchStart, Fixed!WatchLockFree
  <2>2. jobs["watch"].pc = "idle"
    BY <1>1, <2>1
  <2>3. watch'.pc = "off" \/ (watch'.pc = "loop" /\ watch'.arm = arm.id)
    BY <1>2, <1>15 DEF Fixed!WatchStart, Fixed!stops, Fixed!NoWatch
  <2> QED
    BY <1>5, <2>1, <2>2, <2>3 DEF Poised
<1>16. CASE Fixed!WatchLoop
  <2>1. UNCHANGED <<arm, arming, jobs>> /\ watch.pc = "loop"
    BY <1>16 DEF Fixed!WatchLoop
  <2>2. jobs["watch"].pc = "idle"
    BY <1>1, <2>1
  <2>3. \/ watch'.pc = "off"
        \/ watch'.pc = "wait" /\ watch'.arm = watch.arm /\ Fixed!assertWatchArm /\ Fixed!Open = {}
    BY <1>0, <1>2, <1>16 DEF Fixed!WatchLoop, Fixed!stops
  <2> QED
    BY <1>5, <1>6, <1>16, <2>1, <2>2, <2>3
<1>17. CASE Fixed!WatchTarget
  <2>1. UNCHANGED <<arm, arming, jobs>> /\ watch.pc = "wait"
    BY <1>17 DEF Fixed!WatchTarget
  <2>2. jobs["watch"].pc = "idle" /\ watch'.arm = watch.arm /\ Poised
    BY <1>0, <1>1, <1>17, <2>1 DEF Fixed!WatchTarget, Poised
  <2> QED
    BY <1>6, <2>1, <2>2
<1>18. ASSUME NEW b \in BOOLEAN, Fixed!WatchQuote(b) PROVE Goal
  <2>1. UNCHANGED <<arm, arming, jobs>> /\ watch.pc = "quote"
    BY <1>18 DEF Fixed!WatchQuote
  <2>2. jobs["watch"].pc = "idle" /\ watch'.arm = watch.arm /\ Poised
    BY <1>0, <1>1, <1>18, <2>1 DEF Fixed!WatchQuote, Poised
  <2> QED
    BY <1>6, <2>1, <2>2
<1>19. ASSUME NEW b \in BOOLEAN, Fixed!WatchHeartbeat(b) PROVE Goal
  <2>1. UNCHANGED <<arm, arming, jobs>> /\ watch.pc = "heartbeat"
    BY <1>19 DEF Fixed!WatchHeartbeat
  <2>2. jobs["watch"].pc = "idle"
    BY <1>1, <2>1
  <2>3. watch'.pc = "off" \/ (watch'.pc = "loop" /\ watch'.arm = watch.arm)
    BY <1>0, <1>2, <1>19 DEF Fixed!WatchHeartbeat, Fixed!stops
  <2> QED
    BY <1>5, <1>6, <2>1, <2>2, <2>3 DEF Poised
<1>20. CASE Fixed!WatchRetry
  <2>1. UNCHANGED <<arm, arming, jobs>> /\ watch.pc = "backoff"
    BY <1>20 DEF Fixed!WatchRetry
  <2>2. jobs["watch"].pc = "idle"
    BY <1>1, <2>1
  <2>3. watch'.pc = "off" \/ (watch'.pc = "loop" /\ watch'.arm = watch.arm)
    BY <1>0, <1>2, <1>20 DEF Fixed!WatchRetry, Fixed!stops
  <2> QED
    BY <1>5, <1>6, <2>1, <2>2, <2>3 DEF Poised
<1>21. CASE Fixed!WatchRefused
  <2>1. jobs' = jobs /\ jobs["watch"].pc = "idle" /\ watch'.pc = "off"
    BY <1>2, <1>21 DEF Fixed!WatchRefused, Fixed!stops
  <2> QED
    BY <1>5, <2>1
(* The command's end, or an error. *)
<1>22. ASSUME UNCHANGED <<arm, arming>>, jobs' = [jobs EXCEPT !["watch"] = Fixed!NoJob], watch.pc # "off",
              \/ watch'.pc = "off"
              \/ watch'.pc \in {"heartbeat", "backoff"} /\ watch'.arm = watch.arm
       PROVE  Goal
  <2>1. jobs'["watch"].pc = "idle"
    BY <1>0, <1>2, <1>22
  <2> QED
    BY <1>1, <1>22, <2>1 DEF Poised
<1>23. CASE Fixed!WatchExecuted
  <2>1. UNCHANGED <<arm, arming>> /\ jobs' = [jobs EXCEPT !["watch"] = Fixed!NoJob] /\ watch.pc = "execute"
    BY <1>23 DEF Fixed!WatchExecuted
  <2>2. watch'.pc = "off" \/ (watch'.pc = "heartbeat" /\ watch'.arm = watch.arm)
    BY <1>0, <1>2, <1>23 DEF Fixed!WatchExecuted, Fixed!stops
  <2> QED
    BY <1>22, <2>1, <2>2
<1>24. ASSUME NEW b \in BOOLEAN, Fixed!WatchError(b) PROVE Goal
  <2>1. UNCHANGED <<arm, arming>> /\ jobs' = [jobs EXCEPT !["watch"] = Fixed!NoJob] /\ watch.pc # "off"
    BY <1>24 DEF Fixed!WatchError
  <2>2. watch'.pc = "off" \/ (watch'.pc = "backoff" /\ watch'.arm = watch.arm)
    BY <1>0, <1>2, <1>24 DEF Fixed!WatchError, Fixed!stops
  <2> QED
    BY <1>22, <2>1, <2>2
<1> QED
  BY <1>2, <1>7, <1>8, <1>9, <1>10, <1>11, <1>12, <1>13, <1>14, <1>15, <1>16, <1>17, <1>18, <1>19, <1>20, <1>21,
    <1>23, <1>24 DEF Fixed!LaneNext

(* A signature recorded, whoever's: what was signed before stays as it was.     *)
LEMMA OwnGrows ==
  ASSUME FixedInv, NEW r, txs' = Append(txs, r)
  PROVE  /\ DOMAIN txs' = DOMAIN txs \cup {Len(txs) + 1} /\ Len(txs) + 1 \notin DOMAIN txs
         /\ txs'[Len(txs) + 1] = r /\ \A i \in DOMAIN txs : txs'[i] = txs[i] /\ i < Len(txs) + 1
         /\ \A a : Own(a)' = Own(a) \cup {i \in {Len(txs) + 1} : r.by = "watch" /\ r.under = a}
<1>1. txs \in Seq(TxRecord) /\ DOMAIN txs = 1 .. Len(txs) /\ Len(txs) \in Nat
  BY DEF FixedInv, FixedTypes
<1>2. DOMAIN txs' = 1 .. (Len(txs) + 1) /\ txs'[Len(txs) + 1] = r /\ \A i \in DOMAIN txs : txs'[i] = txs[i]
  BY <1>1
<1>3. DOMAIN txs' = DOMAIN txs \cup {Len(txs) + 1} /\ Len(txs) + 1 \notin DOMAIN txs /\ \A i \in DOMAIN txs : i < Len(txs) + 1
  BY <1>1, <1>2
<1>4. ASSUME NEW a PROVE Own(a)' = Own(a) \cup {i \in {Len(txs) + 1} : r.by = "watch" /\ r.under = a}
  BY <1>2, <1>3 DEF Own
<1> QED
  BY <1>2, <1>3, <1>4

(* The watcher signs: what it signed before under this arm succeeded, in time,  *)
(* and left an attempt.  What a command signs is none of the watcher's.         *)
LEMMA ServedSigns ==
  ASSUME FixedInv, ServedInv, NEW p \in Workers, Fixed!SignAndRecord(p)
  PROVE  OwnCounted' /\ ArmsEnd' /\ (Poised /\ Poised' => PoisedFacts') /\ arm'.attempts \in Nat /\ arm'.failed \in Nat
<1>0. /\ txs \in Seq(TxRecord) /\ jobs \in [Workers -> JobRecord] /\ TxsKept /\ JobsKept
      /\ arm = [status |-> arm.status, id |-> arm.id, nonce |-> arm.nonce, count |-> arm.count,
                attempts |-> arm.attempts, failed |-> arm.failed] /\ arm.id \in Nat
      /\ arm.attempts \in Nat /\ arm.failed \in Nat
      /\ OwnCounted /\ PoisedKept /\ ArmsEnd /\ WatchServes
  BY DEF FixedInv, FixedTypes, ArmNumbers, ServedInv, WatchServes
<1>1. PICK r : /\ txs' = Append(txs, r)
               /\ r = [kind |-> jobs[p].kind, nonce |-> jobs[p].nonce, audit |-> "signed", by |-> p,
                       under |-> IF p = "watch" THEN watch.arm ELSE 0,
                       late |-> p = "watch" /\ arm.status # "ARMED",
                       sent |-> FALSE, chain |-> "none", notes |-> {}]
  BY DEF Fixed!SignAndRecord
<1>2. /\ r.kind = jobs[p].kind /\ r.by = p /\ (p = "watch" => r.under = watch.arm) /\ r.audit = "signed"
      /\ r.late <=> p = "watch" /\ arm.status # "ARMED"
  BY <1>1
<1>3. PICK n : n = Len(txs) + 1
  OBVIOUS
<1>4. /\ DOMAIN txs' = DOMAIN txs \cup {n} /\ n \notin DOMAIN txs
      /\ txs'[n] = r /\ \A i \in DOMAIN txs : txs'[i] = txs[i] /\ i < n
      /\ \A a : Own(a)' = Own(a) \cup {i \in {n} : r.by = "watch" /\ r.under = a}
  BY <1>1, <1>3, OwnGrows
<1>5. n \in Nat /\ DOMAIN txs \subseteq Nat
  BY <1>0, <1>3
<1>6. /\ arm'.id = arm.id /\ arm'.failed = arm.failed /\ arm'.status = arm.status
      /\ arm'.attempts \in Nat /\ arm'.attempts >= arm.attempts
      /\ jobs[p].kind = "execute" => arm'.attempts = arm.attempts + 1
  BY <1>0 DEF Fixed!SignAndRecord
<1>7. \A a : Own(a) \subseteq DOMAIN txs
  BY DEF Own
<1>8. jobs[p].pc = "checked" /\ watch' = watch /\ jobs' = [jobs EXCEPT ![p].pc = "signed", ![p].tx = Len(txs) + 1]
  BY DEF Fixed!SignAndRecord
<1>9. CASE p = "cli"
  <2>1. \A a : Own(a)' = Own(a)
    BY <1>2, <1>4, <1>9
  <2>2. \A i \in DOMAIN txs' : txs'[i].by = "watch" => txs'[i].under <= arm'.id /\ txs'[i].kind = "execute"
    BY <1>0, <1>2, <1>4, <1>6, <1>9 DEF OwnCounted
  <2>3. \A i \in Own(arm.id) :   /\ txs'[i].audit = "reverted" => arm'.failed >= 1
                                 /\ txs'[i].late => arm'.status # "ARMED"
    BY <1>0, <1>4, <1>6, <1>7, <2>1 DEF OwnCounted
  <2>4. Cardinality(Own(arm.id)') <= arm'.attempts
    <3>1. Cardinality(Own(arm.id)) <= arm.attempts /\ Cardinality(Own(arm.id)) \in Nat
      BY <1>0, OwnFinite DEF OwnCounted
    <3> QED
      BY <1>0, <1>6, <2>1, <3>1
  <2>5. OwnCounted'
    BY <1>6, <2>1, <2>2, <2>3, <2>4 DEF OwnCounted
  <2>6. ArmsEnd'
    <3> SUFFICES ASSUME NEW a \in Nat
                 PROVE  /\ \A i, j \in Own(a) : i < j => txs'[i].chain # "reverted"
                        /\ \A i, j \in Own(a) : txs'[i].late /\ txs'[j].late => i = j
                        /\ Cardinality(Own(a)) <= MaxAttempts
      BY <2>1 DEF ArmsEnd
    <3> QED
      BY <1>0, <1>4, <1>7 DEF ArmsEnd
  <2>7. ASSUME Poised PROVE PoisedFacts'
    <3>1. PoisedFacts
      BY <1>0, <2>7 DEF PoisedKept, PoisedFacts
    <3>2. \A i \in Own(arm.id) : txs'[i] = txs[i]
      BY <1>4, <1>7
    <3> QED
      BY <1>6, <2>1, <3>1, <3>2 DEF PoisedFacts
  <2> QED
    BY <1>6, <1>0, <2>5, <2>6, <2>7
<1>10. CASE p = "watch"
  <2>1. watch.pc = "execute" /\ jobs["watch"].kind = "execute" /\ watch.arm = arm.id
    BY <1>0, <1>8, <1>10 DEF WatchServes
  <2>2. Poised
    BY <1>8, <1>10, <2>1 DEF Poised
  <2>3. PoisedFacts
    BY <1>0, <2>2 DEF PoisedKept, PoisedFacts
  <2>4. Own(arm.id)' = Own(arm.id) \cup {n} /\ \A a : a # arm.id => Own(a)' = Own(a)
    BY <1>2, <1>4, <1>6, <1>10, <2>1
  <2>5. \A i \in Own(arm.id) : txs[i].chain = "success" /\ ~txs[i].late
    BY <1>0, <1>7, <2>3 DEF TxsKept, PoisedFacts
  <2>6. Cardinality(Own(arm.id)') = Cardinality(Own(arm.id)) + 1
    <3>1. n \notin Own(arm.id) /\ IsFiniteSet(Own(arm.id))
      BY <1>4, <1>7, OwnFinite
    <3> QED
      BY <2>4, <3>1, FS_AddElement
  <2>7. Cardinality(Own(arm.id)) \in Nat
    BY OwnFinite
  <2>8. \A i \in DOMAIN txs' : txs'[i].by = "watch" => txs'[i].under <= arm'.id /\ txs'[i].kind = "execute"
    BY <1>0, <1>2, <1>4, <1>6, <1>10, <2>1 DEF OwnCounted
  <2>9. \A i \in Own(arm.id) \cup {n} : /\ txs'[i].audit = "reverted" => arm'.failed >= 1
                                        /\ txs'[i].late => arm'.status # "ARMED"
    BY <1>0, <1>2, <1>4, <1>6, <1>7 DEF OwnCounted
  <2>10. OwnCounted'
    <3>1. Cardinality(Own(arm.id)') <= arm'.attempts
      BY <1>0, <1>6, <1>10, <2>1, <2>6, <2>7 DEF OwnCounted
    <3> QED
      BY <1>6, <2>4, <2>8, <2>9, <3>1 DEF OwnCounted
  <2>11. ArmsEnd'
    <3>1. ASSUME NEW a \in Nat, a # arm.id
          PROVE  /\ \A i, j \in Own(a) : i < j => txs'[i].chain # "reverted"
                 /\ \A i, j \in Own(a) : txs'[i].late /\ txs'[j].late => i = j
                 /\ Cardinality(Own(a)) <= MaxAttempts
      BY <1>0, <1>4, <1>7 DEF ArmsEnd
    <3>2. \A i, j \in Own(arm.id) \cup {n} : i < j => txs'[i].chain # "reverted"
      <4> SUFFICES ASSUME NEW i \in Own(arm.id) \cup {n}, NEW j \in Own(arm.id) \cup {n}, i < j
                   PROVE  txs'[i].chain # "reverted"
        OBVIOUS
      <4>1. i # n
        BY <1>4, <1>5, <1>7
      <4>2. i \in Own(arm.id) /\ txs'[i] = txs[i]
        BY <1>4, <1>7, <4>1
      <4> QED
        BY <2>5, <4>2
    <3>3. \A i, j \in Own(arm.id) \cup {n} : txs'[i].late /\ txs'[j].late => i = j
      <4>1. \A i \in Own(arm.id) : txs'[i] = txs[i]
        BY <1>4, <1>7
      <4> QED
        BY <2>5, <4>1
    <3>4. Cardinality(Own(arm.id)') <= MaxAttempts
      BY <2>3, <2>6 DEF PoisedFacts
    <3>5. ASSUME NEW a \in Nat
          PROVE  /\ \A i, j \in Own(a)' : i < j => txs'[i].chain # "reverted"
                 /\ \A i, j \in Own(a)' : txs'[i].late /\ txs'[j].late => i = j
                 /\ Cardinality(Own(a)') <= MaxAttempts
      <4>1. CASE a = arm.id
        BY <1>6, <2>4, <3>2, <3>3, <3>4, <4>1
      <4>2. CASE a # arm.id
        BY <2>4, <3>1, <4>2
      <4> QED
        BY <4>1, <4>2
    <3> QED
      BY <3>5 DEF ArmsEnd
  <2>12. ~Poised'
    <3>1. jobs'["watch"].pc = "signed"
      BY <1>0, <1>8, <1>10 DEF JobRecord
    <3> QED
      BY <1>8, <2>1, <3>1 DEF Poised
  <2> QED
    BY <1>0, <1>6, <2>10, <2>11, <2>12
<1> QED
  BY <1>9, <1>10 DEF Workers

(* The open mutation is rewritten: sent, mined, closed.  It is the last one, and *)
(* none of those a poised watcher relies on.                                     *)
LEMMA ServedRewrites ==
  ASSUME FixedInv, ServedInv, NEW i \in DOMAIN txs, NEW r \in TxRecord, txs' = [txs EXCEPT ![i] = r],
         txs[i].audit = "signed", r.by = txs[i].by, r.under = txs[i].under, r.late = txs[i].late, r.kind = txs[i].kind,
         arm'.id = arm.id, arm'.status = arm.status, arm'.attempts = arm.attempts, arm'.failed \in Nat,
         arm'.failed >= arm.failed, r.audit = "reverted" /\ r.kind = "execute" => arm'.failed >= 1
  PROVE  OwnCounted' /\ ArmsEnd' /\ (Poised => PoisedFacts')
<1>0. /\ txs \in Seq(TxRecord) /\ TxsKept /\ OwnCounted /\ PoisedKept /\ ArmsEnd /\ arm.failed \in Nat
  BY DEF FixedInv, FixedTypes, ServedInv, WatchServes
<1>1. DOMAIN txs' = DOMAIN txs /\ txs'[i] = r /\ \A j \in DOMAIN txs : j # i => txs'[j] = txs[j]
  BY <1>0
<1>2. \A a : Own(a)' = Own(a) /\ Own(a) \subseteq DOMAIN txs
  BY <1>1 DEF Own
<1>3. i = Len(txs) /\ DOMAIN txs = 1 .. Len(txs) /\ Len(txs) \in Nat
  BY <1>0 DEF TxsKept
<1>4. OwnCounted'
  <2>1. \A j \in DOMAIN txs' : txs'[j].by = "watch" => txs'[j].under <= arm'.id /\ txs'[j].kind = "execute"
    BY <1>0, <1>1 DEF OwnCounted
  <2>2. \A j \in Own(arm.id) : /\ txs'[j].audit = "reverted" => arm'.failed >= 1
                               /\ txs'[j].late => arm'.status # "ARMED"
    <3> SUFFICES ASSUME NEW j \in Own(arm.id)
                 PROVE  /\ txs'[j].audit = "reverted" => arm'.failed >= 1
                        /\ txs'[j].late => arm'.status # "ARMED"
      OBVIOUS
    <3>1. txs[j].kind = "execute" /\ j \in DOMAIN txs
      BY <1>0 DEF OwnCounted, Own
    <3>2. CASE j = i
      BY <1>0, <1>1, <3>1, <3>2 DEF OwnCounted
    <3>3. CASE j # i
      BY <1>0, <1>1, <3>1, <3>3 DEF OwnCounted
    <3> QED
      BY <3>2, <3>3
  <2> QED
    BY <1>0, <1>2, <2>1, <2>2 DEF OwnCounted
<1>5. ArmsEnd'
  <2> SUFFICES ASSUME NEW a \in Nat
               PROVE  /\ \A k, j \in Own(a) : k < j => txs'[k].chain # "reverted"
                      /\ \A k, j \in Own(a) : txs'[k].late /\ txs'[j].late => k = j
                      /\ Cardinality(Own(a)) <= MaxAttempts
    BY <1>2 DEF ArmsEnd
  <2>1. ASSUME NEW k \in Own(a), NEW j \in Own(a), k < j PROVE txs'[k].chain # "reverted"
    <3>1. k # i
      BY <1>2, <1>3, <2>1
    <3> QED
      BY <1>0, <1>1, <1>2, <2>1, <3>1 DEF ArmsEnd
  <2>2. \A k \in Own(a) : txs'[k].late = txs[k].late
    BY <1>1, <1>2
  <2> QED
    BY <1>0, <2>1, <2>2 DEF ArmsEnd
<1>6. ASSUME Poised PROVE PoisedFacts'
  <2>1. PoisedFacts
    BY <1>0, <1>6 DEF PoisedKept, PoisedFacts
  <2>2. i \notin Own(arm.id)
    BY <2>1 DEF PoisedFacts
  <2>3. \A k \in Own(arm.id) : txs'[k] = txs[k]
    BY <1>1, <1>2, <2>2
  <2> QED
    BY <1>2, <2>1, <2>3 DEF PoisedFacts
<1> QED
  BY <1>4, <1>5, <1>6

(* Nothing is signed, mined or closed: the arm stands, or loses its force. *)
LEMMA ServedStands ==
  ASSUME FixedInv, ServedInv, txs' = txs, arm'.id = arm.id, arm'.attempts = arm.attempts, arm'.failed = arm.failed,
         arm'.status = arm.status \/ arm'.status # "ARMED"
  PROVE  OwnCounted' /\ ArmsEnd' /\ (PoisedFacts => PoisedFacts')
<1>1. \A a : Own(a)' = Own(a)
  BY DEF Own
<1>2. OwnCounted /\ ArmsEnd
  BY DEF ServedInv
<1>3. OwnCounted'
  BY <1>1, <1>2 DEF OwnCounted
<1>4. ArmsEnd'
  BY <1>1, <1>2 DEF ArmsEnd
<1>5. PoisedFacts => PoisedFacts'
  BY <1>1 DEF PoisedFacts
<1> QED
  BY <1>3, <1>4, <1>5

(* A new authorization: nothing was signed under it. *)
LEMMA ServedRearms ==
  ASSUME FixedInv, ServedInv, Fixed!ArmWrite
  PROVE  OwnCounted' /\ ArmsEnd' /\ arm'.attempts \in Nat /\ arm'.failed \in Nat
<1>0. OwnCounted /\ ArmsEnd /\ arm.id \in Nat
  BY DEF ServedInv, FixedInv, ArmNumbers
<1>1. txs' = txs /\ arm'.id = arm.id + 1 /\ arm'.attempts = 0 /\ arm'.failed = 0
  BY DEF Fixed!ArmWrite
<1>2. \A a : Own(a)' = Own(a)
  BY <1>1 DEF Own
<1>3. txs \in Seq(TxRecord)
  BY DEF FixedInv, FixedTypes
<1>4. \A j \in DOMAIN txs : txs[j].under \in Nat
  <2>1. \A j \in DOMAIN txs : txs[j] \in TxRecord
    BY <1>3
  <2> QED
    BY <2>1 DEF TxRecord
<1>5. Own(arm.id + 1) = {}
  BY <1>0, <1>4 DEF OwnCounted, Own
<1>6. Cardinality({}) = 0
  BY FS_EmptySet
<1>7. \A j \in DOMAIN txs : txs[j].by = "watch" => txs[j].under <= arm.id + 1 /\ txs[j].kind = "execute"
  BY <1>0, <1>4 DEF OwnCounted
<1>8. OwnCounted'
  BY <1>1, <1>2, <1>5, <1>6, <1>7 DEF OwnCounted
<1>9. ArmsEnd'
  BY <1>0, <1>1, <1>2 DEF ArmsEnd
<1> QED
  BY <1>1, <1>8, <1>9

(* At the loop's top: nothing is open, no revert was counted and attempts are   *)
(* left, under an arm that is in force.                                         *)
LEMMA LoopFinds ==
  ASSUME FixedInv, ServedInv, Fixed!assertWatchArm, Fixed!Open = {}
  PROVE  PoisedFacts
<1>0. OwnCounted /\ arm.failed \in Nat /\ arm.attempts \in Nat /\ txs \in Seq(TxRecord)
  BY DEF ServedInv, WatchServes, FixedInv, FixedTypes
<1>1. arm.status = "ARMED" /\ arm.attempts < MaxAttempts /\ arm.failed < 1
  BY DEF Fixed!assertWatchArm
<1>2. \A i \in Own(arm.id) : txs[i].audit # "signed" /\ txs[i] \in TxRecord
  BY <1>0 DEF Fixed!Open, Own
<1>3. \A i \in Own(arm.id) : txs[i].audit = "effect" /\ ~txs[i].late
  BY <1>0, <1>1, <1>2 DEF OwnCounted, TxRecord
<1>4. Cardinality(Own(arm.id)) + 1 <= MaxAttempts
  <2>1. Cardinality(Own(arm.id)) \in Nat /\ MaxAttempts \in Nat
    BY OwnFinite, ProgramsAssumption
  <2> QED
    BY <1>0, <1>1, <2>1 DEF OwnCounted
<1> QED
  BY <1>3, <1>4 DEF PoisedFacts

LEMMA ServedInvStep == ASSUME FixedInv, ServedInv, Fixed!LaneNext PROVE ServedInv'
<1>0. /\ txs \in Seq(TxRecord) /\ jobs \in [Workers -> JobRecord] /\ TxsKept /\ JobsKept
      /\ arm = [status |-> arm.status, id |-> arm.id, nonce |-> arm.nonce, count |-> arm.count,
                attempts |-> arm.attempts, failed |-> arm.failed]
      /\ arm.attempts \in Nat /\ arm.failed \in Nat
      /\ WatchServes /\ PoisedKept
  BY DEF FixedInv, FixedTypes, ArmNumbers, ServedInv, WatchServes
<1>1. /\ watch'.pc # "off" => watch'.arm = arm'.id /\ ~arming'.busy
      /\ jobs'["watch"].pc # "idle" => watch'.pc = "execute" /\ jobs'["watch"].kind = "execute"
      /\ Poised' => \/ Poised /\ arm'.id = arm.id
                    \/ Fixed!WatchLoop /\ Fixed!assertWatchArm /\ Fixed!Open = {}
  BY <1>0, WatchMoves
<1>2. ASSUME OwnCounted', ArmsEnd', Poised' => PoisedFacts', arm'.attempts \in Nat, arm'.failed \in Nat
      PROVE  ServedInv'
  BY <1>1, <1>2 DEF ServedInv, WatchServes, PoisedKept, PoisedFacts
<1>3. Poised => PoisedFacts
  BY <1>0 DEF PoisedKept, PoisedFacts
<1>4. ASSUME txs' = txs, arm'.id = arm.id, arm'.attempts = arm.attempts, arm'.failed = arm.failed,
             arm'.status = arm.status \/ arm'.status # "ARMED"
      PROVE  ServedInv'
  <2>1. Poised' => PoisedFacts
    BY <1>1, <1>3, LoopFinds
  <2> QED
    BY <1>0, <1>2, <1>4, <2>1, ServedStands
<1>5. ASSUME NEW i \in DOMAIN txs, NEW r \in TxRecord, txs' = [txs EXCEPT ![i] = r],
             txs[i].audit = "signed", r.by = txs[i].by, r.under = txs[i].under, r.late = txs[i].late, r.kind = txs[i].kind,
             arm'.id = arm.id, arm'.status = arm.status, arm'.attempts = arm.attempts, arm'.failed \in Nat,
             arm'.failed >= arm.failed, r.audit = "reverted" /\ r.kind = "execute" => arm'.failed >= 1
      PROVE  ServedInv'
  <2>1. OwnCounted' /\ ArmsEnd' /\ (Poised => PoisedFacts')
    BY <1>5, ServedRewrites
  <2>2. CASE Fixed!WatchLoop
    BY <1>4, <2>2 DEF Fixed!WatchLoop
  <2>3. CASE ~Fixed!WatchLoop
    BY <1>0, <1>1, <1>2, <1>5, <2>1, <2>3
  <2> QED
    BY <2>2, <2>3
(* Only the chain and the wire of the open mutation move, or it is closed with  *)
(* an effect.                                                                  *)
<1>6. ASSUME arm' = arm, NEW i \in DOMAIN txs, NEW r \in TxRecord, txs' = [txs EXCEPT ![i] = r],
             txs[i].audit = "signed", r.by = txs[i].by, r.under = txs[i].under, r.late = txs[i].late, r.kind = txs[i].kind,
             r.audit # "reverted"
      PROVE  ServedInv'
  <2>1. /\ arm'.id = arm.id /\ arm'.status = arm.status /\ arm'.attempts = arm.attempts /\ arm'.failed \in Nat
        /\ arm'.failed >= arm.failed
    BY <1>0, <1>6
  <2> QED
    BY <1>5, <1>6, <2>1
<1>7. ASSUME NEW i \in DOMAIN txs, NEW result \in {"success", "reverted"}, Fixed!MineTx(i, result) PROVE ServedInv'
  <2>1. txs[i] \in TxRecord
    BY <1>0
  <2>2. txs[i].audit = "signed"
    BY <1>0, <1>7, <2>1 DEF Fixed!MineTx, TxsKept, TxRecord
  <2>3. PICK r : r = [txs[i] EXCEPT !.chain = result]
    OBVIOUS
  <2>4. arm' = arm /\ txs' = [txs EXCEPT ![i] = r]
    BY <1>7, <2>3 DEF Fixed!MineTx
  <2>5. /\ r \in TxRecord /\ r.by = txs[i].by /\ r.under = txs[i].under /\ r.late = txs[i].late /\ r.kind = txs[i].kind
        /\ r.audit # "reverted"
    BY <2>1, <2>2, <2>3 DEF TxRecord
  <2> QED
    BY <1>6, <2>2, <2>4, <2>5
<1>8. ASSUME NEW p \in Workers, Fixed!Broadcast(p) PROVE ServedInv'
  <2>1. PICK i : i = jobs[p].tx
    OBVIOUS
  <2>2. i \in DOMAIN txs /\ txs[i].audit = "signed"
    BY <1>0, <1>8, <2>1 DEF Fixed!Broadcast, JobsKept, JobKept
  <2>3. PICK sends \in BOOLEAN, notes \in SUBSET {"accepted"} :
          txs' = [txs EXCEPT ![i].sent = sends, ![i].notes = notes]
    BY <1>8, <2>1 DEF Fixed!Broadcast, Fixed!noted
  <2>4. txs[i] \in TxRecord
    BY <1>0, <2>2
  <2>5. PICK r : r = [[txs[i] EXCEPT !.sent = sends] EXCEPT !.notes = notes]
    OBVIOUS
  <2>6. arm' = arm /\ txs' = [txs EXCEPT ![i] = r]
    BY <1>0, <1>8, <2>2, <2>3, <2>4, <2>5 DEF TxRecord, Fixed!Broadcast
  <2>7. /\ r \in TxRecord /\ r.by = txs[i].by /\ r.under = txs[i].under /\ r.late = txs[i].late /\ r.kind = txs[i].kind
        /\ r.audit # "reverted"
    BY <2>2, <2>4, <2>5 DEF TxRecord
  <2> QED
    BY <1>6, <2>2, <2>6, <2>7
<1>9. CASE Fixed!RebroadcastSameRaw
  <2>1. PICK i \in Fixed!Open : txs' = [txs EXCEPT ![i].sent = TRUE]
    BY <1>9 DEF Fixed!RebroadcastSameRaw
  <2>2. i \in DOMAIN txs /\ txs[i].audit = "signed" /\ txs[i] \in TxRecord
    BY <1>0, <2>1 DEF Fixed!Open
  <2>3. PICK r : r = [txs[i] EXCEPT !.sent = TRUE]
    OBVIOUS
  <2>4. arm' = arm /\ txs' = [txs EXCEPT ![i] = r]
    BY <1>9, <2>1, <2>3 DEF Fixed!RebroadcastSameRaw
  <2>5. /\ r \in TxRecord /\ r.by = txs[i].by /\ r.under = txs[i].under /\ r.late = txs[i].late /\ r.kind = txs[i].kind
        /\ r.audit # "reverted"
    BY <2>2, <2>3 DEF TxRecord
  <2> QED
    BY <1>6, <2>2, <2>4, <2>5
<1>10. ASSUME NEW p \in Workers, Fixed!AppendEffect(p) PROVE ServedInv'
  <2>1. PICK i : i = jobs[p].tx
    OBVIOUS
  <2>2. i \in DOMAIN txs /\ txs[i].audit = "signed"
    BY <1>0, <1>10, <2>1 DEF Fixed!AppendEffect, JobsKept, JobKept
  <2>3. PICK r : r = [txs[i] EXCEPT !.audit = "effect"]
    OBVIOUS
  <2>4. arm' = arm /\ txs' = [txs EXCEPT ![i] = r]
    BY <1>10, <2>1, <2>3 DEF Fixed!AppendEffect
  <2>5. txs[i] \in TxRecord
    BY <1>0, <2>2
  <2>6. /\ r \in TxRecord /\ r.by = txs[i].by /\ r.under = txs[i].under /\ r.late = txs[i].late /\ r.kind = txs[i].kind
        /\ r.audit # "reverted"
    BY <2>2, <2>3, <2>5 DEF TxRecord
  <2> QED
    BY <1>6, <2>2, <2>4, <2>6
(* A revert recorded counts against the arm. *)
<1>11. ASSUME NEW i \in DOMAIN txs, txs[i].audit = "signed", Fixed!appendReverted(i) PROVE ServedInv'
  <2>1. txs[i] \in TxRecord
    BY <1>0
  <2>2. PICK r : r = [txs[i] EXCEPT !.audit = "reverted"]
    OBVIOUS
  <2>3. /\ r \in TxRecord /\ r.by = txs[i].by /\ r.under = txs[i].under /\ r.late = txs[i].late /\ r.kind = txs[i].kind
    BY <2>1, <2>2 DEF TxRecord
  <2>4. txs' = [txs EXCEPT ![i] = r]
    BY <1>11, <2>2 DEF Fixed!appendReverted
  <2>5. /\ arm'.id = arm.id /\ arm'.status = arm.status /\ arm'.attempts = arm.attempts
        /\ arm'.failed = arm.failed + (IF txs[i].kind = "execute" THEN 1 ELSE 0)
    BY <1>0, <1>11 DEF Fixed!appendReverted
  <2>6. arm'.failed \in Nat /\ arm'.failed >= arm.failed /\ (r.kind = "execute" => arm'.failed >= 1)
    BY <1>0, <2>3, <2>5
  <2> QED
    BY <1>5, <1>11, <2>3, <2>4, <2>5, <2>6
<1>12. ASSUME NEW p \in Workers, Fixed!AppendRevert(p) PROVE ServedInv'
  <2>1. jobs[p].tx \in DOMAIN txs /\ txs[jobs[p].tx].audit = "signed" /\ Fixed!appendReverted(jobs[p].tx)
    BY <1>0, <1>12 DEF Fixed!AppendRevert, JobsKept, JobKept
  <2> QED
    BY <1>11, <2>1
<1>13. CASE Fixed!ReconcileRevert
  <2>1. PICK i : i = jobs'["cli"].tx
    OBVIOUS
  <2>2. Fixed!Open # {} /\ jobs' = [jobs EXCEPT !["cli"] = [pc |-> "halt", kind |-> "reconcile", nonce |-> 0,
                                                           tx |-> CHOOSE k \in Fixed!Open : TRUE]]
    BY <1>13 DEF Fixed!ReconcileRevert, Fixed!Reconcile
  <2>3. i = CHOOSE k \in Fixed!Open : TRUE
    BY <1>0, <2>1, <2>2 DEF Workers
  <2>4. i \in DOMAIN txs /\ txs[i].audit = "signed"
    BY <2>2, <2>3 DEF Fixed!Open
  <2>5. Fixed!appendReverted(i)
    BY <1>13, <2>1 DEF Fixed!ReconcileRevert
  <2> QED
    BY <1>11, <2>4, <2>5
<1>14. ASSUME NEW p \in Workers, Fixed!SignAndRecord(p) PROVE ServedInv'
  <2>1. ~Fixed!WatchLoop
    <3>1. txs' # txs
      <4>1. PICK r : txs' = Append(txs, r)
        BY <1>14 DEF Fixed!SignAndRecord
      <4>2. Len(txs') = Len(txs) + 1 /\ Len(txs) \in Nat
        BY <1>0, <4>1
      <4> QED
        BY <4>2
    <3> QED
      BY <3>1 DEF Fixed!WatchLoop
  <2> QED
    BY <1>1, <1>2, <1>14, <2>1, ServedSigns
<1>15. CASE Fixed!ArmWrite
  <2>1. ~Poised'
    BY <1>0, <1>15 DEF Fixed!ArmWrite, WatchServes, Poised
  <2> QED
    BY <1>2, <1>15, <2>1, ServedRearms
<1>16. CASE Fixed!Disarm \/ Fixed!Expire
  <2>1. /\ txs' = txs /\ arm'.id = arm.id /\ arm'.attempts = arm.attempts /\ arm'.failed = arm.failed
        /\ arm'.status # "ARMED"
    BY <1>0, <1>16 DEF Fixed!Disarm, Fixed!Expire
  <2> QED
    BY <1>4, <2>1
<1>17. ASSUME UNCHANGED <<txs, arm>> PROVE ServedInv'
  BY <1>4, <1>17
<1>18. ASSUME \/ Fixed!PoolEvent \/ Fixed!CliEnds \/ Fixed!RecoverDeployment \/ Fixed!ReconcileSuccess \/ Fixed!ReconcileHalt
            \/ Fixed!ArmRead \/ Fixed!WatchStart \/ Fixed!WatchLoop \/ Fixed!WatchTarget \/ Fixed!WatchExecuted
            \/ Fixed!WatchRefused \/ Fixed!WatchRetry
            \/ \E b \in BOOLEAN : Fixed!WatchQuote(b) \/ Fixed!WatchHeartbeat(b) \/ Fixed!WatchError(b)
       PROVE  ServedInv'
  BY <1>17, <1>18 DEF Fixed!PoolEvent, Fixed!CliEnds, Fixed!RecoverDeployment, Fixed!ReconcileSuccess, Fixed!ReconcileHalt,
    Fixed!ArmRead, Fixed!WatchStart, Fixed!WatchLoop, Fixed!WatchTarget, Fixed!WatchExecuted, Fixed!WatchRefused,
    Fixed!WatchRetry, Fixed!WatchQuote, Fixed!WatchHeartbeat, Fixed!WatchError
<1>19. ASSUME NEW p \in Workers,
              \/ Fixed!WriteSuccess(p) \/ Fixed!WriteRevert(p) \/ Fixed!Kill(p)
              \/ \E error \in {"noshot", "transient", "invariant"} : Fixed!CommandFails(p, error)
              \/ \E kind \in {"deploy", "execute", "withdraw"} : Fixed!Preflight(p, kind)
       PROVE  ServedInv'
  BY <1>17, <1>19 DEF Fixed!WriteSuccess, Fixed!WriteRevert, Fixed!Kill, Fixed!CommandFails, Fixed!Preflight
<1>20. Fixed!Procs = Workers /\ "watch" \in Workers /\ "cli" \in Workers
  BY DEF Fixed!Procs, Workers
<1> QED
  BY <1>7, <1>8, <1>9, <1>10, <1>12, <1>13, <1>14, <1>15, <1>16, <1>18, <1>19, <1>20 DEF Fixed!LaneNext

LEMMA ServedKept == ASSUME FixedInv, ServedInv, UNCHANGED fixedVars PROVE ServedInv'
<1>1. UNCHANGED <<txs, arm, arming, jobs, watch>>
  BY DEF fixedVars
<1>2. \A a : Own(a)' = Own(a)
  BY <1>1 DEF Own
<1> QED
  BY <1>1, <1>2 DEF ServedInv, WatchServes, OwnCounted, PoisedKept, ArmsEnd, Poised

(* RevertEndsArm and AtMostOneLateSignature, of any number of mutations.        *)
LEMMA ServedSignsArmed == ASSUME ServedInv PROVE Fixed!RevertEndsArm /\ Fixed!AtMostOneLateSignature
<1>1. \A a : Fixed!SignedByWatch(a) = Own(a)
  BY DEF Fixed!SignedByWatch, Own
<1>2. \A a \in 1 .. MaxArms : a \in Nat
  OBVIOUS
<1>3. ArmsEnd
  BY DEF ServedInv
<1>4. Fixed!RevertEndsArm
  BY <1>1, <1>2, <1>3 DEF ArmsEnd, Fixed!RevertEndsArm
<1>5. ASSUME NEW a \in 1 .. MaxArms PROVE Cardinality({i \in Own(a) : txs[i].late}) <= 1
  <2>1. PICK S : S = {i \in Own(a) : txs[i].late}
    OBVIOUS
  <2>2. \A i, j \in S : i = j
    BY <1>2, <1>3, <2>1 DEF ArmsEnd
  <2>3. Cardinality(S) <= 1
    BY <2>2, AtMostOne
  <2> QED
    BY <2>1, <2>3
<1>6. Fixed!AtMostOneLateSignature
  BY <1>1, <1>2, <1>3, <1>5, FixedCardinality DEF ArmsEnd, Fixed!AtMostOneLateSignature
<1> QED
  BY <1>4, <1>6

(* The collector never owes more than the wallet can pay and keep its retained  *)
(* ETH; the fixed lane's watcher signs nothing under an arm after a revert, at  *)
(* most one transaction after the arm was lost, and no more than its attempts:  *)
(* for any number of mutations, arms and deaths.                                *)
THEOREM ArmedSignatures == Spec => []SignsArmed
<1> DEFINE SignsInv == ProgramsInv /\ (part = "fixed" => ServedInv)
<1>1. Init => SignsInv
  BY ProgramsInvInit, ServedInvInit
<1>2. SignsInv /\ [Next]_vars => SignsInv'
  <2> SUFFICES ASSUME SignsInv, [Next]_vars, part = "fixed" PROVE ServedInv'
    BY ProgramsInvStep, PartStep
  <2>1. FixedInv /\ ServedInv
    BY DEF ProgramsInv
  <2>2. CASE Fixed!LaneNext
    BY <2>1, <2>2, ServedInvStep
  <2>3. CASE UNCHANGED fixedVars
    BY <2>1, <2>3, ServedKept
  <2> QED
    BY <2>2, <2>3, PartStep
<1>3. SignsInv => SignsArmed
  BY ServedSignsArmed, CollectorBooks DEF ProgramsInv, SignsArmed
<1> QED
  BY <1>1, <1>2, <1>3, PTL DEF Spec

--------------------------------------------------------------------------------
(* The reader of an audit ledger.                                               *)

LEMMA AuditCardinality == \A S : Audit!Cardinality(S) = Cardinality(S)
BY DEF Audit!Cardinality, Cardinality

LEMMA GrowsCounts ==
  ASSUME NEW n \in Nat, NEW f \in [1 .. n -> Nat], Grows(f, n), NEW k \in 1 .. n
  PROVE  Cardinality(UpTo(Numbers(f, n), f[k])) = k
<1> DEFINE S == UpTo(Numbers(f, n), f[k])
           g == [i \in 1 .. k |-> f[i]]
<1>1. \A i \in 1 .. k : i \in 1 .. n /\ f[i] \in Nat /\ f[i] <= f[k]
  BY DEF Grows
<1>2. g \in [1 .. k -> S]
  BY <1>1 DEF Numbers, UpTo
<1>3. \A i, j \in 1 .. k : g[i] = g[j] => i = j
  BY <1>1 DEF Grows
<1>4. ASSUME NEW x \in S PROVE \E i \in 1 .. k : g[i] = x
  <2>1. PICK i \in 1 .. n : x = f[i]
    BY <1>4 DEF Numbers, UpTo
  <2>2. f[i] <= f[k]
    BY <2>1, <1>4 DEF UpTo
  <2>3. i <= k
    BY <2>2 DEF Grows
  <2> QED
    BY <2>1, <2>3
<1>5. Cardinality(S) = k
  <2> HIDE DEF S, g
  <2> QED
    BY <1>2, <1>3, <1>4, Counted
<1> QED
  BY <1>5

LEMMA GrowsCardinality ==
  ASSUME NEW n \in Nat, NEW f \in [1 .. n -> Nat], Grows(f, n)
  PROVE  Cardinality(Numbers(f, n)) = n
<1>1. \A i, j \in 1 .. n : f[i] = f[j] => i = j
  BY DEF Grows
<1>2. f \in [1 .. n -> Numbers(f, n)]
  BY DEF Numbers
<1> QED
  BY <1>1, <1>2, Counted DEF Numbers

LEMMA OrderIs ==
  ASSUME NEW n \in Nat, NEW f \in [1 .. n -> Nat], Grows(f, n)
  PROVE  Audit!inOrder(Numbers(f, n)) = f
<1> DEFINE S == Numbers(f, n)
<1>1. Audit!Cardinality(S) = n
  BY GrowsCardinality, AuditCardinality
<1>2. \A k \in 1 .. n : f[k] \in S /\ Audit!Cardinality({y \in S : y <= f[k]}) = k
  BY GrowsCounts, AuditCardinality DEF Numbers, UpTo
<1>3. \A x \in S : \E j \in 1 .. n : x = f[j]
  BY DEF Numbers
<1>4. Audit!inOrder(S) = [k \in 1 .. n |-> CHOOSE x \in S : Audit!Cardinality({y \in S : y <= x}) = k]
  BY <1>1 DEF Audit!inOrder
<1> HIDE DEF S
<1>5. ASSUME NEW k \in 1 .. n PROVE (CHOOSE x \in S : Audit!Cardinality({y \in S : y <= x}) = k) = f[k]
  <2> DEFINE x == CHOOSE z \in S : Audit!Cardinality({y \in S : y <= z}) = k
  <2>1. x \in S /\ Audit!Cardinality({y \in S : y <= x}) = k
    BY <1>2
  <2>2. PICK j \in 1 .. n : x = f[j]
    BY <1>3, <2>1
  <2>3. j = k
    BY <1>2, <2>1, <2>2
  <2> QED
    BY <2>2, <2>3
<1>6. Audit!inOrder(S) = [k \in 1 .. n |-> f[k]]
  BY <1>4, <1>5
<1> QED
  BY <1>6 DEF S

(* Every finite set of numbers has such a list. *)
LEMMA OrderHas ==
  ASSUME NEW m \in Nat, NEW S \in SUBSET (1 .. m)
  PROVE  \E n \in Nat : \E f \in [1 .. n -> 1 .. m] : Grows(f, n) /\ S = Numbers(f, n) /\ Audit!inOrder(S) = f
<1> DEFINE n == Cardinality(S)
           place == [x \in S |-> Cardinality(UpTo(S, x))]
           T == {place[x] : x \in S}
<1>1. IsFiniteSet(S) /\ n \in Nat
  BY CountTo, FS_Subset, FS_CardinalityType
<1>2. \A x \in S : UpTo(S, x) \in SUBSET S /\ IsFiniteSet(UpTo(S, x)) /\ x \in UpTo(S, x) /\ x \in Nat
  BY <1>1, FS_Subset DEF UpTo
<1>3. ASSUME NEW x \in S PROVE place[x] \in 1 .. n
  <2>1. Cardinality(UpTo(S, x)) <= n /\ Cardinality(UpTo(S, x)) \in Nat
    BY <1>1, <1>2, FS_Subset, FS_CardinalityType
  <2>2. Cardinality(UpTo(S, x)) # 0
    BY <1>2, FS_EmptySet
  <2> QED
    BY <2>1, <2>2
<1>4. ASSUME NEW x \in S, NEW y \in S, x < y PROVE place[x] < place[y]
  <2>1. UpTo(S, x) \in SUBSET UpTo(S, y) /\ UpTo(S, x) # UpTo(S, y)
    <3>1. x \in Nat /\ y \in Nat /\ x < y
      BY <1>2, <1>4
    <3>2. y \in UpTo(S, y) /\ y \notin UpTo(S, x)
      BY <3>1 DEF UpTo
    <3>3. \A z \in S : z \in Nat
      BY <1>2
    <3>4. \A z \in UpTo(S, x) : z \in UpTo(S, y)
      BY <3>1, <3>3 DEF UpTo
    <3> QED
      BY <3>2, <3>4
  <2>2. Cardinality(UpTo(S, x)) < Cardinality(UpTo(S, y))
    BY <2>1, <1>2, <1>3, FS_Subset, FS_CardinalityType
  <2> QED
    BY <2>2
<1>5. \A x, y \in S : place[x] = place[y] => x = y
  BY <1>2, <1>3, <1>4
<1>6. T = 1 .. n
  <2>1. T \in SUBSET (1 .. n)
    BY <1>3
  <2>2. place \in Bijection(S, T)
    <3> HIDE DEF place
    <3>1. place \in [S -> T]
      BY DEF place
    <3> QED
      BY <3>1, <1>5 DEF Bijection, Injection, Surjection, IsInjective
  <2>3. IsFiniteSet(T) /\ Cardinality(T) = n
    <3> HIDE DEF place, T
    <3> QED
      BY <1>1, <2>2, FS_Bijection DEF ExistsBijection
  <2> HIDE DEF T, n, place
  <2> QED
    BY <1>1, <2>1, <2>3, CountTo, FS_Subset
<1> DEFINE f == [k \in 1 .. n |-> CHOOSE x \in S : place[x] = k]
<1> HIDE DEF place
<1>7. \A k \in 1 .. n : f[k] \in S /\ place[f[k]] = k
  <2> HIDE DEF n
  <2> QED
    BY <1>6
<1>8. Numbers(f, n) = S
  <2>1. \A x \in S : x = f[place[x]]
    BY <1>3, <1>5, <1>7
  <2> HIDE DEF f, n
  <2> QED
    BY <1>3, <1>7, <2>1 DEF Numbers
<1>9. Grows(f, n)
  <2> HIDE DEF f
  <2>1. ASSUME NEW i \in 1 .. n, NEW j \in 1 .. n, i < j PROVE f[i] < f[j]
    <3>1. f[i] \in Nat /\ f[j] \in Nat
      BY <1>2, <1>7
    <3>2. f[i] # f[j] /\ ~(f[j] < f[i])
      <4>1. place[f[i]] = i /\ place[f[j]] = j /\ f[i] \in S /\ f[j] \in S /\ i \in Nat /\ j \in Nat
        BY <1>1, <1>7, <2>1
      <4>2. f[j] < f[i] => place[f[j]] < place[f[i]]
        BY <4>1, <1>4
      <4> QED
        BY <4>1, <4>2, <2>1
    <3> QED
      BY <3>1, <3>2
  <2> QED
    BY <2>1 DEF Grows
<1>10. f \in [1 .. n -> 1 .. m] /\ f \in [1 .. n -> Nat]
  BY <1>2, <1>7
<1>11. Audit!inOrder(S) = f
  <2> HIDE DEF f, n
  <2> QED
    BY <1>1, <1>8, <1>9, <1>10, OrderIs
<1> HIDE DEF f, n
<1> QED
  BY <1>1, <1>8, <1>9, <1>10, <1>11

LEMMA OrderShape ==
  ASSUME NEW m \in Nat, NEW S \in SUBSET (1 .. m)
  PROVE  /\ Audit!inOrder(S) \in Seq(1 .. m) /\ Grows(Audit!inOrder(S), Len(Audit!inOrder(S)))
         /\ S = Numbers(Audit!inOrder(S), Len(Audit!inOrder(S)))
<1>1. PICK n \in Nat : \E f \in [1 .. n -> 1 .. m] : Grows(f, n) /\ S = Numbers(f, n) /\ Audit!inOrder(S) = f
  BY OrderHas
<1>2. PICK f \in [1 .. n -> 1 .. m] : Grows(f, n) /\ S = Numbers(f, n) /\ Audit!inOrder(S) = f
  BY <1>1
<1>3. f \in Seq(1 .. m) /\ Len(f) = n
  OBVIOUS
<1> QED
  BY <1>2, <1>3

LEMMA OrderJoins ==
  ASSUME NEW n \in Nat, NEW m \in Nat, NEW S \in SUBSET (1 .. n), NEW R \in SUBSET (1 .. m)
  PROVE  /\ Audit!inOrder(S) \in Seq(1 .. n) /\ Audit!inOrder(R) \in Seq(1 .. m)
         /\ Audit!inOrder(Above(S, n, R)) \in Seq(1 .. n + m)
         /\ Joined(Audit!inOrder(S), Audit!inOrder(R), n, Audit!inOrder(Above(S, n, R)))
<1> DEFINE a == Audit!inOrder(S)
           b == Audit!inOrder(R)
           N ==  Len(a) + Len(b)
           c == [i \in 1 .. N |-> IF i <= Len(a) THEN a[i] ELSE n + b[i - Len(a)]]
           U == Above(S, n, R)
<1>1. a \in Seq(1 .. n) /\ Grows(a, Len(a)) /\ S = Numbers(a, Len(a))
  BY OrderShape
<1>2. b \in Seq(1 .. m) /\ Grows(b, Len(b)) /\ R = Numbers(b, Len(b))
  BY OrderShape
<1> HIDE DEF a, b
<1>3. /\ Len(a) \in Nat /\ Len(b) \in Nat /\ N \in Nat
      /\ \A i \in 1 .. Len(a) : a[i] \in 1 .. n
      /\ \A i \in 1 .. Len(b) : b[i] \in 1 .. m
  BY <1>1, <1>2
<1>4. c \in [1 .. N -> 1 .. n + m] /\ c \in [1 .. N -> Nat]
  <2>1. ASSUME NEW i \in 1 .. N PROVE c[i] \in 1 .. n + m
    <3>1. CASE i <= Len(a)
      <4>1. i \in 1 .. Len(a) /\ c[i] = a[i]
        BY <3>1, <1>3
      <4> QED
        BY <4>1, <1>3
    <3>2. CASE ~(i <= Len(a))
      <4>1. i - Len(a) \in 1 .. Len(b)
        BY <3>2, <1>3
      <4> QED
        BY <3>2, <4>1, <1>3
    <3> QED
      BY <3>1, <3>2
  <2> QED
    BY <2>1
<1>5. Grows(c, N)
  <2>1. ASSUME NEW i \in 1 .. N, NEW j \in 1 .. N, i < j PROVE c[i] < c[j]
    <3>1. CASE j <= Len(a)
      BY <2>1, <3>1, <1>1, <1>3 DEF Grows
    <3>2. CASE ~(j <= Len(a)) /\ i <= Len(a)
      <4>1. j - Len(a) \in 1 .. Len(b) /\ i \in 1 .. Len(a)
        BY <3>2, <1>3
      <4>2. a[i] \in 1 .. n /\ b[j - Len(a)] \in 1 .. m
        BY <4>1, <1>3
      <4>3. c[i] = a[i] /\ c[j] = n + b[j - Len(a)]
        BY <3>2
      <4> QED
        BY <4>2, <4>3
    <3>3. CASE ~(j <= Len(a)) /\ ~(i <= Len(a))
      <4>1. j - Len(a) \in 1 .. Len(b) /\ i - Len(a) \in 1 .. Len(b) /\ i - Len(a) < j - Len(a)
        BY <2>1, <3>3, <1>3
      <4>2. b[i - Len(a)] < b[j - Len(a)]
        BY <4>1, <1>2 DEF Grows
      <4>3. b[i - Len(a)] \in 1 .. m /\ b[j - Len(a)] \in 1 .. m
        BY <4>1, <1>3
      <4>4. c[i] = n + b[i - Len(a)] /\ c[j] = n + b[j - Len(a)]
        BY <3>3
      <4> QED
        BY <4>2, <4>3, <4>4
    <3> QED
      BY <3>1, <3>2, <3>3
  <2> HIDE DEF c
  <2> QED
    BY <2>1 DEF Grows
<1>6. Numbers(c, N) = U
  <2>1. ASSUME NEW i \in 1 .. N PROVE c[i] \in U
    <3>1. CASE i <= Len(a)
      <4>1. i \in 1 .. Len(a) /\ c[i] = a[i]
        BY <3>1, <1>3
      <4> QED
        BY <4>1, <1>1 DEF Numbers, Above
    <3>2. CASE ~(i <= Len(a))
      <4>1. i - Len(a) \in 1 .. Len(b)
        BY <3>2, <1>3
      <4> QED
        BY <3>2, <4>1, <1>2 DEF Numbers, Above
    <3> QED
      BY <3>1, <3>2
  <2>2. ASSUME NEW x \in S PROVE \E i \in 1 .. N : c[i] = x
    <3>1. PICK i \in 1 .. Len(a) : a[i] = x
      BY <1>1 DEF Numbers, Above
    <3>2. i \in 1 .. N /\ c[i] = x
      BY <3>1, <1>3
    <3> QED
      BY <3>2
  <2>3. ASSUME NEW x \in R PROVE \E i \in 1 .. N : c[i] = n + x
    <3>1. PICK i \in 1 .. Len(b) : b[i] = x
      BY <1>2 DEF Numbers, Above
    <3>2. Len(a) + i \in 1 .. N /\ ~(Len(a) + i <= Len(a)) /\ (Len(a) + i) - Len(a) = i
      BY <3>1, <1>3
    <3>3. c[Len(a) + i] = n + x
      BY <3>1, <3>2
    <3> QED
      BY <3>2, <3>3
  <2> HIDE DEF c, N
  <2> QED
    BY <2>1, <2>2, <2>3 DEF Numbers, Above
<1>7. Audit!inOrder(U) = c
  <2> HIDE DEF c, N, U
  <2> QED
    BY <1>3, <1>4, <1>5, <1>6, OrderIs
<1>8. c \in Seq(1 .. n + m) /\ Len(c) = N
  BY SMTT(30), <1>3, <1>4
<1>9. ASSUME NEW i \in 1 .. Len(a) PROVE c[i] = a[i]
  BY <1>3
<1>10. ASSUME NEW i \in 1 .. Len(b) PROVE c[Len(a) + i] = n + b[i]
  <2>1. Len(a) + i \in 1 .. N /\ ~(Len(a) + i <= Len(a)) /\ (Len(a) + i) - Len(a) = i
    BY <1>3
  <2> QED
    BY <2>1
<1> HIDE DEF c
<1> QED
  BY <1>1, <1>2, <1>7, <1>8, <1>9, <1>10 DEF a, b, Joined

--------------------------------------------------------------------------------
(* Lines.  Where the bytes are cut behind a line's end, the lines are those of  *)
(* the one part and those of the other.                                         *)

LEMMA Parts ==
  ASSUME NEW X, NEW s \in Seq(X), NEW e \in 0 .. Len(s)
  PROVE  /\ SubSeq(s, 1, e) \in Seq(X) /\ Len(SubSeq(s, 1, e)) = e
         /\ \A i \in 1 .. e : SubSeq(s, 1, e)[i] = s[i]
         /\ SubSeq(s, e + 1, Len(s)) \in Seq(X) /\ Len(SubSeq(s, e + 1, Len(s))) = Len(s) - e
         /\ \A i \in 1 .. Len(s) - e : SubSeq(s, e + 1, Len(s))[i] = s[e + i]
         /\ \A a \in Nat \ {0}, b \in 0 .. e : SubSeq(SubSeq(s, 1, e), a, b) = SubSeq(s, a, b)
         /\ \A a \in Nat \ {0}, b \in 0 .. Len(s) - e :
              SubSeq(SubSeq(s, e + 1, Len(s)), a, b) = SubSeq(s, e + a, e + b)
<1> DEFINE h == SubSeq(s, 1, e)
           x == SubSeq(s, e + 1, Len(s))
<1>1. h \in Seq(X) /\ Len(h) = e /\ \A i \in 1 .. e : h[i] = s[i]
  OBVIOUS
<1>2. x \in Seq(X) /\ Len(x) = Len(s) - e /\ \A i \in 1 .. Len(s) - e : x[i] = s[e + i]
  OBVIOUS
<1> HIDE DEF h, x
<1>3. ASSUME NEW a \in Nat \ {0}, NEW b \in 0 .. e PROVE SubSeq(h, a, b) = SubSeq(s, a, b)
  <2>1. SubSeq(h, a, b) \in Seq(X) /\ SubSeq(s, a, b) \in Seq(X)
    BY <1>1
  <2>2. Len(SubSeq(h, a, b)) = Len(SubSeq(s, a, b))
    BY <1>1
  <2>3. ASSUME NEW i \in 1 .. Len(SubSeq(h, a, b)) PROVE SubSeq(h, a, b)[i] = SubSeq(s, a, b)[i]
    BY <1>1
  <2> QED
    BY <2>1, <2>2, <2>3, SeqEqual
<1>4. ASSUME NEW a \in Nat \ {0}, NEW b \in 0 .. Len(s) - e PROVE SubSeq(x, a, b) = SubSeq(s, e + a, e + b)
  <2>1. SubSeq(x, a, b) \in Seq(X) /\ SubSeq(s, e + a, e + b) \in Seq(X)
    BY <1>2
  <2>2. Len(SubSeq(x, a, b)) = Len(SubSeq(s, e + a, e + b))
    BY <1>2
  <2>3. ASSUME NEW i \in 1 .. Len(SubSeq(x, a, b)) PROVE SubSeq(x, a, b)[i] = SubSeq(s, e + a, e + b)[i]
    <3>1. a <= b /\ i \in 1 .. b - a + 1 /\ (a + i) - 1 \in 1 .. Len(s) - e
      BY <1>2
    <3>2. SubSeq(x, a, b)[i] = x[(a + i) - 1]
      BY <1>2, <3>1
    <3>3. SubSeq(s, e + a, e + b)[i] = s[e + ((a + i) - 1)]
      BY SMTT(30), <3>1
    <3> QED
      BY <1>2, <3>1, <3>2, <3>3
  <2> QED
    BY <2>1, <2>2, <2>3, SeqEqual
<1> QED
  BY <1>1, <1>2, <1>3, <1>4 DEF h, x

LEMMA EndsShape ==
  ASSUME NEW X, NEW s \in Seq(X)
  PROVE  /\ Audit!newlines(s) \in Seq(1 .. Len(s)) /\ Count(s) \in Nat
         /\ Grows(Audit!newlines(s), Count(s)) /\ Ends(s) = Numbers(Audit!newlines(s), Count(s))
<1>1. Ends(s) \in SUBSET (1 .. Len(s)) /\ Len(s) \in Nat
  BY DEF Ends
<1>2. Audit!newlines(s) = Audit!inOrder(Ends(s))
  BY Zenon DEF Audit!newlines, Ends
<1> QED
  BY <1>1, <1>2, OrderShape DEF Count

LEMMA Splits ==
  ASSUME NEW X, NEW s \in Seq(X), NEW e \in 0 .. Len(s), e = 0 \/ s[e] = Audit!nl
  PROVE  LET h == SubSeq(s, 1, e)
             x == SubSeq(s, e + 1, Len(s)) IN
         /\ Count(s) = Count(h) + Count(x)
         /\ \A k \in 1 .. Count(h) : Audit!lineAt(s, k) = Audit!lineAt(h, k)
         /\ \A k \in 1 .. Count(x) + 1 : Audit!lineAt(s, Count(h) + k) = Audit!lineAt(x, k)
<1> DEFINE h == SubSeq(s, 1, e)
           x == SubSeq(s, e + 1, Len(s))
           m == Len(s) - e
           S == Ends(h)
           R == Ends(x)
           a == Audit!inOrder(S)
           b == Audit!inOrder(R)
           T == Ends(s)
           c == Audit!inOrder(T)
<1>1. /\ h \in Seq(X) /\ Len(h) = e /\ \A i \in 1 .. e : h[i] = s[i]
      /\ x \in Seq(X) /\ Len(x) = m /\ \A i \in 1 .. m : x[i] = s[e + i]
      /\ e \in Nat /\ m \in Nat /\ Len(s) = e + m
  BY Parts
<1>2. /\ \A k \in Nat \ {0}, j \in 0 .. e : SubSeq(h, k, j) = SubSeq(s, k, j)
      /\ \A k \in Nat \ {0}, j \in 0 .. m : SubSeq(x, k, j) = SubSeq(s, e + k, e + j)
  BY Parts
<1> HIDE DEF h, x, m
<1>3. S \in SUBSET (1 .. e) /\ R \in SUBSET (1 .. m) /\ T = Above(S, e, R)
  <2>1. S \in SUBSET (1 .. e) /\ R \in SUBSET (1 .. m)
    BY <1>1 DEF Ends
  <2>2. \A i \in S : i \in Ends(s)
    BY <1>1 DEF Ends
  <2>3. ASSUME NEW i \in R PROVE e + i \in Ends(s)
    <3>1. i \in 1 .. m /\ x[i] = Audit!nl
      BY <1>1 DEF Ends
    <3>2. e + i \in 1 .. Len(s) /\ s[e + i] = Audit!nl
      BY <1>1, <3>1
    <3> QED
      BY <3>2 DEF Ends
  <2>4. ASSUME NEW i \in Ends(s) PROVE i \in S \/ \E r \in R : i = e + r
    <3>1. i \in 1 .. e + m /\ s[i] = Audit!nl
      BY <1>1 DEF Ends
    <3>2. CASE i <= e
      BY <1>1, <3>1, <3>2 DEF Ends
    <3>3. CASE ~(i <= e)
      <4>1. i - e \in 1 .. m /\ i = e + (i - e)
        BY <1>1, <3>1, <3>3
      <4>2. x[i - e] = Audit!nl
        BY <1>1, <3>1, <4>1
      <4> QED
        BY <4>1, <4>2, <1>1 DEF Ends
    <3> QED
      BY <3>2, <3>3
  <2> HIDE DEF S, R, T
  <2>5. \A i \in S : i \in T
    BY <2>2 DEF T
  <2>6. \A i \in R : e + i \in T
    BY <2>3 DEF T
  <2>7. \A i \in T : i \in S \/ \E r \in R : i = e + r
    BY <2>4 DEF T
  <2> QED
    BY <2>1, <2>5, <2>6, <2>7 DEF Above
<1>4. /\ a \in Seq(1 .. e) /\ b \in Seq(1 .. m) /\ c \in Seq(1 .. e + m) /\ Len(c) = Len(a) + Len(b)
      /\ \A i \in 1 .. Len(a) : c[i] = a[i]
      /\ \A i \in 1 .. Len(b) : c[Len(a) + i] = e + b[i]
  <2> HIDE DEF S, R, T
  <2> QED
    <3>1. e \in Nat /\ m \in Nat /\ S \in SUBSET (1 .. e) /\ R \in SUBSET (1 .. m)
      BY <1>1, <1>3
    <3>2. /\ Audit!inOrder(S) \in Seq(1 .. e) /\ Audit!inOrder(R) \in Seq(1 .. m)
          /\ Audit!inOrder(Above(S, e, R)) \in Seq(1 .. e + m)
          /\ Joined(Audit!inOrder(S), Audit!inOrder(R), e, Audit!inOrder(Above(S, e, R)))
      BY <3>1, OrderJoins
    <3>3. T = Above(S, e, R)
      BY <1>3
    <3> QED
      BY <3>2, <3>3 DEF Joined
<1>5. Audit!newlines(h) = a /\ Audit!newlines(x) = b /\ Audit!newlines(s) = c
  BY <1>3, Zenon DEF Audit!newlines, Ends
<1>6. e > 0 => Len(a) > 0 /\ a[Len(a)] = e
  <2>1. SUFFICES ASSUME e > 0 PROVE Len(a) > 0 /\ a[Len(a)] = e
    OBVIOUS
  <2>2. e \in S
    BY <1>1, <2>1 DEF Ends
  <2>3. Grows(a, Len(a)) /\ S = Numbers(a, Len(a))
    <3> HIDE DEF S
    <3> QED
      BY <1>1, <1>3, OrderShape
  <2> HIDE DEF a, S
  <2>4. PICK i \in 1 .. Len(a) : a[i] = e
    BY <2>2, <2>3 DEF Numbers
  <2>5. Len(a) \in Nat /\ a[Len(a)] \in 1 .. e
    BY <1>4, <2>4
  <2>6. i < Len(a) => a[i] < a[Len(a)]
    BY <2>3, <2>5 DEF Grows
  <2> QED
    BY <2>4, <2>5, <2>6, <1>1
<1> HIDE DEF a, b, c
<1>7. /\ Len(a) \in Nat /\ Len(b) \in Nat
      /\ \A i \in 1 .. Len(a) : a[i] \in 1 .. e
      /\ \A i \in 1 .. Len(b) : b[i] \in 1 .. m
  <2>1. Len(a) \in Nat /\ Len(b) \in Nat
    BY <1>4
  <2>2. \A i \in 1 .. Len(a) : a[i] \in 1 .. e
    BY <1>4, ElementOfSeq
  <2>3. \A i \in 1 .. Len(b) : b[i] \in 1 .. m
    BY <1>4, ElementOfSeq
  <2> QED
    BY <2>1, <2>2, <2>3
<1>8. e = 0 => Len(a) = 0
  BY <1>7
<1>9. ASSUME NEW k \in 1 .. Len(a) PROVE Audit!lineAt(s, k) = Audit!lineAt(h, k)
  <2> DEFINE from == IF k = 1 THEN 1 ELSE a[k - 1] + 1
             to == a[k] - 1
  <2>0. ~(k > Len(a)) /\ ~(k > Len(c)) /\ c[k] = a[k] /\ (k # 1 => c[k - 1] = a[k - 1])
    <3>1. ~(k > Len(a)) /\ ~(k > Len(c)) /\ (k # 1 => k - 1 \in 1 .. Len(a))
      BY <1>4, <1>7
    <3> QED
      BY <1>4, <3>1
  <2>1. Audit!lineAt(h, k) = SubSeq(h, from, to)
    BY <1>5, <2>0, Zenon DEF Audit!lineAt
  <2>2. Audit!lineAt(s, k) = SubSeq(s, from, to)
    BY <1>5, <2>0, Zenon DEF Audit!lineAt
  <2>3. from \in Nat \ {0} /\ to \in 0 .. e
    <3>1. k # 1 => k - 1 \in 1 .. Len(a)
      BY <1>7
    <3>2. a[k] \in 1 .. e /\ (k # 1 => a[k - 1] \in 1 .. e)
      BY <1>7, <3>1
    <3> QED
      BY SMTT(30), <3>2, <1>1
  <2> HIDE DEF from, to
  <2> QED
    BY <2>1, <2>2, <2>3, <1>2
<1>10. ASSUME NEW k \in 1 .. Len(b) + 1 PROVE Audit!lineAt(s, Len(a) + k) = Audit!lineAt(x, k)
  <2> DEFINE from == IF k = 1 THEN 1 ELSE b[k - 1] + 1
             to == IF k > Len(b) THEN m ELSE b[k] - 1
             start == IF Len(a) + k = 1 THEN 1 ELSE c[(Len(a) + k) - 1] + 1
             stop == IF Len(a) + k > Len(c) THEN Len(s) ELSE c[Len(a) + k] - 1
  <2>1. Audit!lineAt(x, k) = SubSeq(x, from, to)
    BY <1>1, <1>5 DEF Audit!lineAt
  <2>2. Audit!lineAt(s, Len(a) + k) = SubSeq(s, start, stop)
    BY <1>5 DEF Audit!lineAt
  <2>3. from \in Nat \ {0} /\ to \in 0 .. m
    <3>1. (k # 1 => k - 1 \in 1 .. Len(b)) /\ (~(k > Len(b)) => k \in 1 .. Len(b))
      BY <1>7
    <3>2. (~(k > Len(b)) => b[k] \in 1 .. m) /\ (k # 1 => b[k - 1] \in 1 .. m)
      BY <1>7, <3>1
    <3> QED
      BY SMTT(30), <3>2, <1>1
  <2>4. start = e + from
    <3>1. CASE k = 1 /\ Len(a) = 0
      <4>1. e = 0
        BY <3>1, <1>1, <1>6
      <4> QED
        BY <3>1, <4>1
    <3>2. CASE k = 1 /\ Len(a) > 0
      <4>1. (Len(a) + k) - 1 = Len(a) /\ Len(a) \in 1 .. Len(a) /\ Len(a) + k # 1
        BY <3>2, <1>7
      <4>2. c[Len(a)] = a[Len(a)] /\ a[Len(a)] = e
        BY <4>1, <3>2, <1>1, <1>4, <1>6, <1>8
      <4> QED
        BY <4>1, <4>2, <3>2
    <3>3. CASE k # 1
      <4>1. (Len(a) + k) - 1 = Len(a) + (k - 1) /\ k - 1 \in 1 .. Len(b) /\ Len(a) + k # 1
        BY <3>3, <1>7
      <4>2. c[Len(a) + (k - 1)] = e + b[k - 1]
        BY <4>1, <1>4
      <4> QED
        BY SMTT(30), <4>1, <4>2, <3>3, <1>1, <1>7
    <3> QED
      BY <3>1, <3>2, <3>3, <1>7
  <2>5. stop = e + to
    <3>1. CASE k > Len(b)
      BY <3>1, <1>1, <1>4, <1>7
    <3>2. CASE ~(k > Len(b))
      <4>1. k \in 1 .. Len(b) /\ ~(Len(a) + k > Len(c))
        BY <3>2, <1>4, <1>7
      <4>2. c[Len(a) + k] = e + b[k]
        BY <4>1, <1>4
      <4> QED
        BY <4>1, <4>2, <3>2, <1>1, <1>7
    <3> QED
      BY <3>1, <3>2
  <2> HIDE DEF from, to, start, stop
  <2> QED
    BY <2>1, <2>2, <2>3, <2>4, <2>5, <1>2
<1> QED
  BY <1>4, <1>5, <1>9, <1>10 DEF h, x, Count

LEMMA LineShape ==
  ASSUME NEW X, NEW s \in Seq(X)
  PROVE  /\ \A k \in 1 .. Count(s) + 1 : Audit!lineAt(s, k) \in Seq(X)
         /\ Audit!linesOf(s) \in Seq(Seq(X)) /\ Len(Audit!linesOf(s)) = Count(s) /\ Count(s) \in Nat
         /\ \A k \in 1 .. Count(s) : Audit!linesOf(s)[k] = Audit!lineAt(s, k)
         /\ rest(s) \in Seq(X)
<1> DEFINE a == Audit!newlines(s)
           n == Count(s)
<1>1. a \in Seq(1 .. Len(s)) /\ n \in Nat /\ n = Len(a) /\ DOMAIN a = 1 .. n
  BY EndsShape DEF Count
<1>2. \A i \in 1 .. n : a[i] \in 1 .. Len(s)
  BY <1>1, ElementOfSeq
<1>3. ASSUME NEW k \in 1 .. n + 1 PROVE Audit!lineAt(s, k) \in Seq(X)
  <2> DEFINE from == IF k = 1 THEN 1 ELSE a[k - 1] + 1
             to == IF k > Len(a) THEN Len(s) ELSE a[k] - 1
  <2>1. Audit!lineAt(s, k) = SubSeq(s, from, to)
    BY Zenon DEF Audit!lineAt
  <2>2. (k # 1 => k - 1 \in 1 .. n) /\ (~(k > Len(a)) => k \in 1 .. n)
    BY <1>1
  <2>3. (k # 1 => a[k - 1] \in 1 .. Len(s)) /\ (~(k > Len(a)) => a[k] \in 1 .. Len(s))
    BY <1>2, <2>2
  <2> HIDE DEF a, n
  <2>4. from \in Nat \ {0} /\ to \in 0 .. Len(s)
    BY <2>3
  <2> HIDE DEF from, to
  <2> QED
    BY <2>1, <2>4
<1>4. Audit!linesOf(s) = [k \in 1 .. n |-> Audit!lineAt(s, k)]
  BY <1>1, Zenon DEF Audit!linesOf
<1> HIDE DEF a, n
<1>5. n + 1 \in 1 .. n + 1
  BY <1>1
<1>6. /\ Audit!linesOf(s) \in Seq(Seq(X)) /\ Len(Audit!linesOf(s)) = n
      /\ \A k \in 1 .. n : Audit!linesOf(s)[k] = Audit!lineAt(s, k)
  BY <1>1, <1>3, <1>4
<1> QED
  BY <1>1, <1>3, <1>5, <1>6 DEF rest, n

LEMMA LinesJoin ==
  ASSUME NEW X, NEW s \in Seq(X), NEW e \in 0 .. Len(s), e = 0 \/ s[e] = Audit!nl
  PROVE  /\ Audit!linesOf(s) = Audit!linesOf(SubSeq(s, 1, e)) \o Audit!linesOf(SubSeq(s, e + 1, Len(s)))
         /\ rest(s) = rest(SubSeq(s, e + 1, Len(s)))
<1> DEFINE h == SubSeq(s, 1, e)
           x == SubSeq(s, e + 1, Len(s))
<1>1. h \in Seq(X) /\ x \in Seq(X)
  BY Parts
<1>2. /\ Count(s) = Count(h) + Count(x)
      /\ \A k \in 1 .. Count(h) : Audit!lineAt(s, k) = Audit!lineAt(h, k)
      /\ \A k \in 1 .. Count(x) + 1 : Audit!lineAt(s, Count(h) + k) = Audit!lineAt(x, k)
  BY Splits
<1> HIDE DEF h, x
<1>3. /\ Audit!linesOf(s) \in Seq(Seq(X)) /\ Len(Audit!linesOf(s)) = Count(s)
      /\ \A k \in 1 .. Count(s) : Audit!linesOf(s)[k] = Audit!lineAt(s, k)
  BY LineShape
<1>4. /\ Audit!linesOf(h) \in Seq(Seq(X)) /\ Len(Audit!linesOf(h)) = Count(h) /\ Count(h) \in Nat
      /\ \A k \in 1 .. Count(h) : Audit!linesOf(h)[k] = Audit!lineAt(h, k)
  BY <1>1, LineShape
<1>5. /\ Audit!linesOf(x) \in Seq(Seq(X)) /\ Len(Audit!linesOf(x)) = Count(x) /\ Count(x) \in Nat
      /\ \A k \in 1 .. Count(x) : Audit!linesOf(x)[k] = Audit!lineAt(x, k)
  BY <1>1, LineShape
<1> DEFINE u == Audit!linesOf(h)
           v == Audit!linesOf(x)
           w == Audit!linesOf(s)
<1>6. ASSUME NEW k \in 1 .. Count(s) PROVE w[k] = (u \o v)[k]
  <2>1. (u \o v)[k] = IF k <= Count(h) THEN u[k] ELSE v[k - Count(h)]
    <3>1. u \in Seq(Seq(X)) /\ v \in Seq(Seq(X)) /\ Len(u) = Count(h) /\ k \in 1 .. Len(u) + Len(v)
      BY <1>2, <1>4, <1>5
    <3> HIDE DEF u, v
    <3> QED
      BY <3>1, ConcatProperties
  <2>2. CASE k <= Count(h)
    <3>1. k \in 1 .. Count(h)
      BY <2>2, <1>4
    <3> QED
      BY <3>1, <2>1, <2>2, <1>2, <1>3, <1>4
  <2>3. CASE ~(k <= Count(h))
    <3>1. k - Count(h) \in 1 .. Count(x) /\ k - Count(h) \in 1 .. Count(x) + 1 /\ Count(h) + (k - Count(h)) = k
      BY <2>3, <1>2, <1>4, <1>5
    <3>2. Audit!lineAt(s, Count(h) + (k - Count(h))) = Audit!lineAt(x, k - Count(h))
      BY <3>1, <1>2
    <3> QED
      BY <3>1, <3>2, <2>1, <2>3, <1>3, <1>5
  <2> QED
    BY <2>2, <2>3
<1>7. w = u \o v
  <2>1. u \o v \in Seq(Seq(X)) /\ Len(u \o v) = Count(s)
    BY <1>2, <1>4, <1>5, ConcatProperties
  <2> HIDE DEF u, v, w
  <2> QED
    BY <1>3, <1>6, <2>1, SeqEqual DEF w
<1>8. rest(s) = rest(x)
  <2>1. Count(x) + 1 \in 1 .. Count(x) + 1 /\ Count(s) + 1 = Count(h) + (Count(x) + 1)
    BY <1>2, <1>4, <1>5
  <2> QED
    BY <2>1, <1>2 DEF rest
<1> QED
  BY <1>7, <1>8 DEF h, x

LEMMA NoEnds ==
  ASSUME NEW X, NEW s \in Seq(X), Ends(s) = {}
  PROVE  Audit!linesOf(s) = <<>> /\ rest(s) = s
<1> DEFINE a == Audit!newlines(s)
<1>1. Grows(a, Count(s)) /\ Ends(s) = Numbers(a, Count(s)) /\ Count(s) \in Nat /\ Count(s) = Len(a)
  BY EndsShape DEF Count
<1> HIDE DEF a
<1>2. Count(s) = 0
  <2>1. ~(Count(s) >= 1)
    BY <1>1 DEF Numbers
  <2> QED
    BY <1>1, <2>1
<1>3. Audit!linesOf(s) = <<>>
  BY <1>2, LineShape, EmptySeq
<1>4. Audit!lineAt(s, 1) = SubSeq(s, 1, Len(s))
  BY <1>1, <1>2 DEF Audit!lineAt, a
<1> QED
  BY <1>2, <1>3, <1>4, SubSeqFull DEF rest

LEMMA OneLine ==
  ASSUME NEW X, NEW s \in Seq(X), Len(s) > 0, Ends(s) = {Len(s)}
  PROVE  Audit!linesOf(s) = <<SubSeq(s, 1, Len(s) - 1)>> /\ rest(s) = <<>>
<1> DEFINE a == Audit!newlines(s)
<1>1. Grows(a, Count(s)) /\ Ends(s) = Numbers(a, Count(s)) /\ Count(s) \in Nat /\ Count(s) = Len(a) /\ a \in Seq(1 .. Len(s))
  BY EndsShape DEF Count
<1> HIDE DEF a
<1>2. \A i \in 1 .. Count(s) : a[i] = Len(s)
  BY <1>1 DEF Numbers
<1>3. Count(s) = 1 /\ a[1] = Len(s)
  <2>1. Count(s) # 0
    BY <1>1 DEF Numbers
  <2>2. ~(Count(s) > 1)
    <3>1. SUFFICES ASSUME Count(s) > 1 PROVE FALSE
      OBVIOUS
    <3>2. 1 \in 1 .. Count(s) /\ 2 \in 1 .. Count(s)
      BY <1>1, <3>1
    <3>3. a[1] < a[2] /\ a[1] = Len(s) /\ a[2] = Len(s)
      BY <3>2, <1>1, <1>2 DEF Grows
    <3> QED
      BY <3>3
  <2>3. Count(s) = 1
    BY <1>1, <2>1, <2>2
  <2> QED
    BY <2>3, <1>2
<1>4. Audit!lineAt(s, 1) = SubSeq(s, 1, Len(s) - 1) /\ Audit!lineAt(s, 2) = SubSeq(s, Len(s) + 1, Len(s))
  BY <1>1, <1>3 DEF Audit!lineAt, a
<1>5. SubSeq(s, Len(s) + 1, Len(s)) = <<>>
  BY SubSeqEmpty
<1>6. Audit!linesOf(s) = <<SubSeq(s, 1, Len(s) - 1)>>
  <2>1. /\ Audit!linesOf(s) \in Seq(Seq(X)) /\ Len(Audit!linesOf(s)) = 1
        /\ Audit!linesOf(s)[1] = SubSeq(s, 1, Len(s) - 1)
    <3>1. /\ Audit!linesOf(s) \in Seq(Seq(X)) /\ Len(Audit!linesOf(s)) = Count(s)
          /\ \A k \in 1 .. Count(s) : Audit!linesOf(s)[k] = Audit!lineAt(s, k)
      BY LineShape
    <3> QED
      BY <3>1, <1>3, <1>4
  <2> DEFINE w == Audit!linesOf(s)
  <2> HIDE DEF w
  <2>2. w = <<w[1]>>
    BY <2>1 DEF w
  <2> QED
    BY <2>1, <2>2 DEF w
<1> QED
  BY <1>3, <1>4, <1>5, <1>6 DEF rest

(* Behind its last end there is none. *)
LEMMA RestIs ==
  ASSUME NEW X, NEW s \in Seq(X)
  PROVE  \E e \in 0 .. Len(s) : /\ e = 0 \/ s[e] = Audit!nl
                                /\ rest(s) = SubSeq(s, e + 1, Len(s)) /\ Ends(rest(s)) = {}
<1> DEFINE a == Audit!newlines(s)
           n == Count(s)
           e == IF n = 0 THEN 0 ELSE a[n]
<1>1. a \in Seq(1 .. Len(s)) /\ Grows(a, n) /\ Ends(s) = Numbers(a, n) /\ n \in Nat /\ n = Len(a)
  BY EndsShape DEF Count
<1> HIDE DEF a, n
<1>2. n # 0 => a[n] \in 1 .. Len(s) /\ a[n] \in Ends(s)
  BY <1>1 DEF Numbers
<1>3. e \in 0 .. Len(s) /\ (e = 0 \/ s[e] = Audit!nl)
  BY <1>1, <1>2 DEF Ends
<1>4. \A i \in Ends(s) : i <= e
  <2>1. ASSUME NEW i \in Ends(s) PROVE i <= e
    <3>1. PICK k \in 1 .. n : a[k] = i
      BY <1>1 DEF Numbers
    <3>2. n # 0 /\ k \in Nat /\ (k = n \/ k < n) /\ n \in 1 .. n
      BY <1>1, <3>1
    <3>3. k < n => a[k] < a[n]
      BY <1>1, <3>1, <3>2 DEF Grows
    <3>4. e = a[n] /\ a[n] \in Nat /\ i \in Nat
      BY <1>2, <3>1, <3>2, <1>1, ElementOfSeq
    <3> QED
      BY <3>1, <3>2, <3>3, <3>4
  <2> QED
    BY <2>1
<1>5. rest(s) = SubSeq(s, e + 1, Len(s))
  <2>1. Audit!lineAt(s, n + 1) = SubSeq(s, IF n + 1 = 1 THEN 1 ELSE a[(n + 1) - 1] + 1, IF n + 1 > n THEN Len(s) ELSE a[n + 1] - 1)
    BY <1>1, Zenon DEF Audit!lineAt, a
  <2>2. (n + 1) - 1 = n /\ n + 1 > n /\ (n + 1 = 1 <=> n = 0)
    BY <1>1
  <2>3. Audit!lineAt(s, n + 1) = SubSeq(s, IF n = 0 THEN 1 ELSE a[n] + 1, Len(s))
    BY <2>1, <2>2
  <2>4. (IF n = 0 THEN 1 ELSE a[n] + 1) = e + 1
    BY <1>2
  <2> QED
    BY <2>3, <2>4 DEF rest, n
<1> HIDE DEF e
<1>6. Ends(rest(s)) = {}
  <2>1. ASSUME NEW i \in Ends(rest(s)) PROVE FALSE
    <3>0. /\ Len(rest(s)) = Len(s) - e /\ rest(s) \in Seq(X) /\ e \in Nat
          /\ \A j \in 1 .. Len(s) - e : rest(s)[j] = s[e + j]
      BY <1>3, <1>5
    <3>1. i \in 1 .. Len(s) - e /\ rest(s)[i] = s[e + i] /\ rest(s)[i] = Audit!nl
      BY <2>1, <3>0 DEF Ends
    <3>2. e + i \in 1 .. Len(s) /\ s[e + i] = Audit!nl /\ DOMAIN s = 1 .. Len(s)
      BY <3>0, <3>1
    <3>3. e + i \in Ends(s)
      BY <3>2 DEF Ends
    <3> QED
      BY <3>0, <3>1, <3>3, <1>4
  <2> QED
    BY <2>1
<1> QED
  BY <1>3, <1>5, <1>6

(* More bytes: the lines go on from what was left. *)
LEMMA Grown ==
  ASSUME NEW X, NEW s \in Seq(X), NEW c \in Seq(X)
  PROVE  /\ Audit!linesOf(s \o c) = Audit!linesOf(s) \o Audit!linesOf(rest(s) \o c)
         /\ rest(s \o c) = rest(rest(s) \o c) /\ Ends(rest(s)) = {} /\ rest(s) \in Seq(X)
<1> DEFINE z == s \o c
<1>1. PICK e \in 0 .. Len(s) : /\ e = 0 \/ s[e] = Audit!nl
                               /\ rest(s) = SubSeq(s, e + 1, Len(s)) /\ Ends(rest(s)) = {}
  BY RestIs
<1>2. z \in Seq(X) /\ Len(z) = Len(s) + Len(c) /\ \A i \in 1 .. Len(s) : z[i] = s[i]
  OBVIOUS
<1>3. \A i \in 1 .. Len(c) : z[Len(s) + i] = c[i]
  OBVIOUS
<1>4. rest(s) \in Seq(X) /\ Len(rest(s)) = Len(s) - e /\ \A i \in 1 .. Len(s) - e : rest(s)[i] = s[e + i]
  BY <1>1
<1> HIDE DEF z
<1>5. e \in 0 .. Len(z) /\ (e = 0 \/ z[e] = Audit!nl)
  BY <1>1, <1>2
<1>6. SubSeq(z, 1, e) = SubSeq(s, 1, e)
  <2>1. /\ SubSeq(z, 1, e) \in Seq(X) /\ SubSeq(s, 1, e) \in Seq(X)
        /\ Len(SubSeq(z, 1, e)) = e /\ Len(SubSeq(s, 1, e)) = e
        /\ \A i \in 1 .. e : SubSeq(z, 1, e)[i] = z[i] /\ SubSeq(s, 1, e)[i] = s[i]
    BY <1>2, <1>5, Parts
  <2> QED
    BY <2>1, <1>2, SeqEqual
<1>7. SubSeq(z, e + 1, Len(z)) = rest(s) \o c
  <2> DEFINE x == SubSeq(z, e + 1, Len(z))
             y == rest(s) \o c
  <2>1. x \in Seq(X) /\ Len(x) = Len(z) - e /\ \A i \in 1 .. Len(z) - e : x[i] = z[e + i]
    BY <1>2, <1>5, Parts
  <2>2. /\ y \in Seq(X) /\ Len(y) = (Len(s) - e) + Len(c)
        /\ \A i \in 1 .. (Len(s) - e) + Len(c) : y[i] = IF i <= Len(s) - e THEN rest(s)[i] ELSE c[i - (Len(s) - e)]
    <3>1. rest(s) \in Seq(X) /\ c \in Seq(X) /\ Len(rest(s)) = Len(s) - e
      BY <1>4
    <3> DEFINE t == rest(s)
    <3> HIDE DEF t
    <3>2. /\ t \o c \in Seq(X) /\ Len(t \o c) = Len(t) + Len(c)
          /\ \A i \in 1 .. Len(t) + Len(c) : (t \o c)[i] = IF i <= Len(t) THEN t[i] ELSE c[i - Len(t)]
      BY <3>1, ConcatProperties DEF t
    <3> QED
      BY <3>1, <3>2 DEF t
  <2> HIDE DEF x, y
  <2>3. ASSUME NEW i \in 1 .. Len(x) PROVE x[i] = y[i]
    <3>1. CASE i <= Len(s) - e
      <4>1. i \in 1 .. Len(s) - e /\ e + i \in 1 .. Len(s)
        BY <2>1, <3>1, <1>2
      <4>2. x[i] = z[e + i] /\ y[i] = rest(s)[i]
        BY <4>1, <2>1, <2>2, <3>1, <1>2
      <4> QED
        BY <4>1, <4>2, <1>2, <1>4
    <3>2. CASE ~(i <= Len(s) - e)
      <4>1. i - (Len(s) - e) \in 1 .. Len(c) /\ Len(s) + (i - (Len(s) - e)) = e + i
        BY <2>1, <3>2, <1>2
      <4>2. z[Len(s) + (i - (Len(s) - e))] = c[i - (Len(s) - e)]
        BY <4>1, <1>3
      <4> QED
        BY <4>1, <4>2, <2>1, <2>2, <3>2, <1>2
    <3> QED
      BY <3>1, <3>2
  <2>4. Len(x) = Len(y)
    BY <2>1, <2>2, <1>2
  <2>5. x = y
    BY <2>1, <2>2, <2>3, <2>4, SeqEqual
  <2> QED
    BY <2>5 DEF x, y
<1>8. Audit!linesOf(z) = Audit!linesOf(SubSeq(s, 1, e)) \o Audit!linesOf(rest(s) \o c) /\ rest(z) = rest(rest(s) \o c)
  BY <1>2, <1>5, <1>6, <1>7, LinesJoin
<1>9. Audit!linesOf(s) = Audit!linesOf(SubSeq(s, 1, e)) \o Audit!linesOf(rest(s))
  BY <1>1, LinesJoin
<1>10. Audit!linesOf(rest(s)) = <<>>
  BY <1>1, <1>4, NoEnds
<1>11. Audit!linesOf(SubSeq(s, 1, e)) \in Seq(Seq(X))
  <2>1. SubSeq(s, 1, e) \in Seq(X)
    BY Parts
  <2> QED
    BY <2>1, LineShape
<1>12. Audit!linesOf(s) = Audit!linesOf(SubSeq(s, 1, e))
  BY <1>9, <1>10, <1>11, ConcatEmptySeq
<1> QED
  BY <1>1, <1>4, <1>8, <1>12 DEF z

--------------------------------------------------------------------------------
(* Records.  Those of two lists of lines are those of one, then of the other.   *)

LEMMA RecordShape ==
  ASSUME NEW Y, NEW w \in Seq(Y)
  PROVE  /\ Found(w) \in SUBSET (1 .. Len(w)) /\ Audit!inOrder(Found(w)) \in Seq(1 .. Len(w))
         /\ Audit!recordsOf(w) \in Seq(Y) /\ Len(Audit!recordsOf(w)) = Len(Audit!inOrder(Found(w)))
         /\ \A i \in 1 .. Len(Audit!recordsOf(w)) : Audit!recordsOf(w)[i] = w[Audit!inOrder(Found(w))[i]]
<1> DEFINE a == Audit!inOrder(Found(w))
<1>1. Found(w) \in SUBSET (1 .. Len(w)) /\ Len(w) \in Nat
  BY DEF Found
<1>2. a \in Seq(1 .. Len(w))
  BY <1>1, OrderShape
<1>3. Audit!recordsOf(w) = [i \in DOMAIN a |-> w[a[i]]]
  BY Zenon DEF Audit!recordsOf, Found
<1> HIDE DEF a
<1>4. DOMAIN a = 1 .. Len(a) /\ Len(a) \in Nat /\ \A i \in 1 .. Len(a) : a[i] \in 1 .. Len(w)
  BY <1>2, ElementOfSeq
<1>5. \A i \in 1 .. Len(a) : w[a[i]] \in Y
  BY <1>4
<1>6. Audit!recordsOf(w) \in Seq(Y) /\ Len(Audit!recordsOf(w)) = Len(a) /\ \A i \in 1 .. Len(a) : Audit!recordsOf(w)[i] = w[a[i]]
  BY <1>3, <1>4, <1>5
<1> QED
  BY <1>1, <1>2, <1>6 DEF a

LEMMA RecordsJoin ==
  ASSUME NEW Y, NEW u \in Seq(Y), NEW v \in Seq(Y)
  PROVE  /\ Audit!recordsOf(u \o v) = Audit!recordsOf(u) \o Audit!recordsOf(v)
         /\ Throws(u \o v) <=> Throws(u) \/ Throws(v)
<1> DEFINE w == u \o v
           n == Len(u)
           m == Len(v)
           S == Found(u)
           R == Found(v)
           T == Found(w)
           a == Audit!inOrder(S)
           b == Audit!inOrder(R)
           c == Audit!inOrder(T)
<1>1. /\ n \in Nat /\ m \in Nat /\ w \in Seq(Y) /\ Len(w) = n + m /\ DOMAIN w = 1 .. n + m
      /\ DOMAIN u = 1 .. n /\ DOMAIN v = 1 .. m
  OBVIOUS
<1>2. \A k \in 1 .. n : w[k] = u[k]
  OBVIOUS
<1>3. \A k \in 1 .. m : w[n + k] = v[k]
  OBVIOUS
<1> HIDE DEF w, n, m
<1>4. ASSUME NEW k \in 1 .. n + m PROVE k \in 1 .. n \/ \E j \in 1 .. m : k = n + j
  <2>1. CASE k <= n
    BY <2>1, <1>1
  <2>2. CASE ~(k <= n)
    <3>1. k - n \in 1 .. m /\ k = n + (k - n)
      BY <2>2, <1>1
    <3> QED
      BY <3>1
  <2> QED
    BY <2>1, <2>2
<1>5. \A k \in 1 .. n : k \in 1 .. n + m
  BY <1>1
<1>6. \A k \in 1 .. m : n + k \in 1 .. n + m
  BY <1>1
<1>7. S \in SUBSET (1 .. n) /\ R \in SUBSET (1 .. m) /\ T = Above(S, n, R)
  <2>1. S \in SUBSET (1 .. n) /\ R \in SUBSET (1 .. m)
    BY <1>1 DEF Found
  <2>2. \A k \in S : k \in T
    BY <1>1, <1>2, <1>5 DEF Found
  <2>3. \A k \in R : n + k \in T
    BY <1>1, <1>3, <1>6 DEF Found
  <2>4. ASSUME NEW k \in T PROVE k \in S \/ \E j \in R : k = n + j
    <3>1. k \in 1 .. n + m /\ Audit!parseLine(w[k]) = "record"
      BY <1>1 DEF Found
    <3>2. CASE k \in 1 .. n
      BY <1>1, <1>2, <3>1, <3>2 DEF Found
    <3>3. CASE \E j \in 1 .. m : k = n + j
      <4>1. PICK j \in 1 .. m : k = n + j
        BY <3>3
      <4> QED
        BY <1>1, <1>3, <3>1, <4>1 DEF Found
    <3> QED
      BY <3>1, <3>2, <3>3, <1>4
  <2> HIDE DEF S, R, T
  <2> QED
    BY <2>1, <2>2, <2>3, <2>4 DEF Above
<1>8. /\ a \in Seq(1 .. n) /\ b \in Seq(1 .. m) /\ c \in Seq(1 .. n + m)
      /\ Joined(a, b, n, c)
  <2> HIDE DEF S, R, T
  <2>1. /\ Audit!inOrder(S) \in Seq(1 .. n) /\ Audit!inOrder(R) \in Seq(1 .. m)
        /\ Audit!inOrder(Above(S, n, R)) \in Seq(1 .. n + m)
        /\ Joined(Audit!inOrder(S), Audit!inOrder(R), n, Audit!inOrder(Above(S, n, R)))
    BY <1>1, <1>7, OrderJoins
  <2> QED
    BY <1>7, <2>1
<1>9. Audit!recordsOf(u) \in Seq(Y) /\ Len(Audit!recordsOf(u)) = Len(a) /\ \A i \in 1 .. Len(a) : Audit!recordsOf(u)[i] = u[a[i]]
  BY RecordShape
<1>10. Audit!recordsOf(v) \in Seq(Y) /\ Len(Audit!recordsOf(v)) = Len(b) /\ \A i \in 1 .. Len(b) : Audit!recordsOf(v)[i] = v[b[i]]
  BY RecordShape
<1>11. Audit!recordsOf(w) \in Seq(Y) /\ Len(Audit!recordsOf(w)) = Len(c) /\ \A i \in 1 .. Len(c) : Audit!recordsOf(w)[i] = w[c[i]]
  BY <1>1, RecordShape
<1> DEFINE ru == Audit!recordsOf(u)
           rv == Audit!recordsOf(v)
           rw == Audit!recordsOf(w)
<1> HIDE DEF a, b, c, ru, rv, rw
<1>12. /\ Len(a) \in Nat /\ Len(b) \in Nat /\ Len(c) = Len(a) + Len(b)
       /\ \A i \in 1 .. Len(a) : a[i] \in 1 .. n
       /\ \A i \in 1 .. Len(b) : b[i] \in 1 .. m
  <2>1. Len(a) \in Nat /\ Len(b) \in Nat /\ Len(c) = Len(a) + Len(b)
    BY <1>8 DEF Joined
  <2>2. \A i \in 1 .. Len(a) : a[i] \in 1 .. n
    BY <1>8, ElementOfSeq
  <2>3. \A i \in 1 .. Len(b) : b[i] \in 1 .. m
    BY <1>8, ElementOfSeq
  <2> QED
    BY <2>1, <2>2, <2>3
<1>13. /\ ru \o rv \in Seq(Y) /\ Len(ru \o rv) = Len(a) + Len(b)
       /\ \A i \in 1 .. Len(a) + Len(b) : (ru \o rv)[i] = IF i <= Len(a) THEN ru[i] ELSE rv[i - Len(a)]
  <2>1. ru \in Seq(Y) /\ rv \in Seq(Y) /\ Len(ru) = Len(a) /\ Len(rv) = Len(b)
    BY <1>9, <1>10 DEF ru, rv
  <2>2. /\ ru \o rv \in Seq(Y) /\ Len(ru \o rv) = Len(ru) + Len(rv)
        /\ \A i \in 1 .. Len(ru) + Len(rv) : (ru \o rv)[i] = IF i <= Len(ru) THEN ru[i] ELSE rv[i - Len(ru)]
    BY <2>1, ConcatProperties
  <2> QED
    BY <2>1, <2>2
<1>14. ASSUME NEW i \in 1 .. Len(a) + Len(b) PROVE rw[i] = (ru \o rv)[i]
  <2>1. CASE i <= Len(a)
    <3>1. i \in 1 .. Len(a) /\ i \in 1 .. Len(c)
      BY <2>1, <1>12
    <3>2. rw[i] = w[c[i]] /\ c[i] = a[i] /\ a[i] \in 1 .. n
      BY <3>1, <1>8, <1>11, <1>12 DEF rw, Joined
    <3>3. ru[i] = u[a[i]]
      BY <3>1, <1>9 DEF ru
    <3> QED
      BY <3>2, <3>3, <2>1, <1>2, <1>13
  <2>2. CASE ~(i <= Len(a))
    <3>1. i - Len(a) \in 1 .. Len(b) /\ i \in 1 .. Len(c) /\ i = Len(a) + (i - Len(a))
      BY <2>2, <1>12
    <3>2. rw[i] = w[c[i]] /\ c[i] = n + b[i - Len(a)] /\ b[i - Len(a)] \in 1 .. m
      BY <3>1, <1>8, <1>11, <1>12 DEF rw, Joined
    <3>3. rv[i - Len(a)] = v[b[i - Len(a)]]
      BY <3>1, <1>10 DEF rv
    <3> QED
      BY <3>2, <3>3, <2>2, <1>3, <1>13
  <2> QED
    BY <2>1, <2>2
<1>15. rw = ru \o rv
  <2>1. rw \in Seq(Y) /\ Len(rw) = Len(a) + Len(b)
    BY <1>11, <1>12 DEF rw
  <2> QED
    BY <2>1, <1>13, <1>14, SeqEqual
<1>16. Throws(w) <=> Throws(u) \/ Throws(v)
  <2>1. ASSUME Throws(w) PROVE Throws(u) \/ Throws(v)
    <3>1. PICK k \in 1 .. n + m : Audit!parseLine(w[k]) = "throws"
      BY <1>1, <2>1 DEF Throws
    <3>2. CASE k \in 1 .. n
      BY <1>1, <1>2, <3>1, <3>2 DEF Throws
    <3>3. CASE \E j \in 1 .. m : k = n + j
      BY <1>1, <1>3, <3>1, <3>3 DEF Throws
    <3> QED
      BY <3>2, <3>3, <1>4
  <2>2. ASSUME Throws(u) PROVE Throws(w)
    BY <1>1, <1>2, <1>5, <2>2 DEF Throws
  <2>3. ASSUME Throws(v) PROVE Throws(w)
    BY <1>1, <1>3, <1>6, <2>3 DEF Throws
  <2> QED
    BY <2>1, <2>2, <2>3
<1> QED
  BY <1>15, <1>16 DEF w, ru, rv, rw

LEMMA NoRecords ==
  ASSUME NEW Y, NEW w \in Seq(Y), Found(w) = {}
  PROVE  Audit!recordsOf(w) = <<>>
<1>1. Grows(Audit!inOrder(Found(w)), Len(Audit!inOrder(Found(w)))) /\ Found(w) = Numbers(Audit!inOrder(Found(w)), Len(Audit!inOrder(Found(w))))
      /\ Audit!inOrder(Found(w)) \in Seq(1 .. 0)
  BY OrderShape
<1>2. Len(Audit!inOrder(Found(w))) = 0
  <2> DEFINE a == Audit!inOrder(Found(w))
  <2>1. Numbers(a, Len(a)) = {} /\ Len(a) \in Nat
    BY <1>1
  <2> HIDE DEF a
  <2>2. ASSUME Len(a) >= 1 PROVE FALSE
    <3>1. 1 \in 1 .. Len(a)
      BY <2>1, <2>2
    <3>2. a[1] \in Numbers(a, Len(a))
      BY <3>1 DEF Numbers
    <3> QED
      BY <2>1, <3>2
  <2> QED
    BY <2>1, <2>2 DEF a
<1>3. Audit!recordsOf(w) \in Seq(Y) /\ Len(Audit!recordsOf(w)) = 0
  BY <1>2, RecordShape
<1> QED
  BY <1>3, EmptySeq

--------------------------------------------------------------------------------
(* The reader itself.  Until it throws, its records are those of the lines that *)
(* ended in what it has read, and what it keeps of the last line is all of it,  *)
(* or it is passing over a line that is long enough and of the kind for that.   *)

LEMMA ConsumeSame ==
  ASSUME NEW r, NEW b, ReaderShape(r)
  PROVE  Same(r, Audit!consume(r, b))
<1>0. PICK P, Q : r \in Readers(P, Q)
  BY DEF ReaderShape
<1> DEFINE kept(v) == [r EXCEPT !.records = v]
<1>1. ASSUME NEW v PROVE Same(r, kept(v)) /\ Same(r, Audit!throws(kept(v)))
  <2>1. kept(v) \in Readers(P, Q \cup {v}) /\ Audit!throws(kept(v)) \in Readers(P, Q \cup {v})
    BY <1>0 DEF Readers, Audit!throws
  <2>2. ReaderShape(kept(v)) /\ ReaderShape(Audit!throws(kept(v)))
    BY <2>1, Zenon DEF ReaderShape
  <2> QED
    BY <1>0, <2>2 DEF Same, Audit!throws, Readers
<1>2. ASSUME NEW v, NEW t
      PROVE  /\ Same(r, [kept(v) EXCEPT !.pending = t])
             /\ Same(r, [kept(v) EXCEPT !.pending = t, !.skipping = TRUE])
             /\ Same(r, Audit!throws([kept(v) EXCEPT !.pending = t]))
  <2> DEFINE a == [kept(v) EXCEPT !.pending = t]
             b1 == [kept(v) EXCEPT !.pending = t, !.skipping = TRUE]
             c == Audit!throws([kept(v) EXCEPT !.pending = t])
  <2>1. a \in Readers(P \cup {t}, Q \cup {v}) /\ b1 \in Readers(P \cup {t}, Q \cup {v}) /\ c \in Readers(P \cup {t}, Q \cup {v})
    BY <1>0 DEF Readers, Audit!throws
  <2>2. ReaderShape(a) /\ ReaderShape(b1) /\ ReaderShape(c)
    <3> HIDE DEF a, b1, c
    <3> QED
      BY <2>1, Zenon DEF ReaderShape
  <2>3. a.inode = r.inode /\ a.offset = r.offset /\ a.target = r.target /\ a.reading = r.reading /\ a.threw = r.threw
    BY <1>0 DEF Readers
  <2>4. b1.inode = r.inode /\ b1.offset = r.offset /\ b1.target = r.target /\ b1.reading = r.reading /\ b1.threw = r.threw
    BY <1>0 DEF Readers
  <2>5. c.inode = r.inode /\ c.offset = r.offset /\ c.target = r.target /\ c.reading = FALSE /\ c.threw = TRUE
    BY <1>0 DEF Readers, Audit!throws
  <2> HIDE DEF a, b1, c
  <2>6. Same(r, a) /\ Same(r, b1) /\ Same(r, c)
    BY <2>2, <2>3, <2>4, <2>5 DEF Same
  <2> QED
    BY <2>6 DEF a, b1, c
<1> QED
  BY <1>1, <1>2, Zenon DEF Audit!consume

LEMMA SkipSame ==
  ASSUME NEW r, NEW b, ReaderShape(r)
  PROVE  Same(r, Audit!skip(r, b))
<1>0. PICK P, Q : r \in Readers(P, Q)
  BY DEF ReaderShape
<1>1. Same(r, r) /\ Same(r, Audit!throws(r))
  <2>1. Audit!throws(r) \in Readers(P, Q)
    BY <1>0 DEF Readers, Audit!throws
  <2>2. ReaderShape(r) /\ ReaderShape(Audit!throws(r))
    BY <1>0, <2>1, Zenon DEF ReaderShape
  <2> QED
    BY <1>0, <2>2 DEF Same, Audit!throws, Readers
<1> DEFINE k == [r EXCEPT !.skipping = FALSE]
<1>2. ReaderShape(k) /\ Same(r, k)
  <2>1. k \in Readers(P, Q)
    BY <1>0 DEF Readers
  <2>2. ReaderShape(k)
    BY <2>1, Zenon DEF ReaderShape
  <2> QED
    BY <1>0, <2>2 DEF Same, Readers
<1>3. ASSUME NEW c PROVE Same(r, Audit!consume(k, c))
  <2>1. Same(k, Audit!consume(k, c))
    BY <1>2, ConsumeSame
  <2> HIDE DEF k
  <2> QED
    BY <1>2, <2>1 DEF Same
<1> QED
  BY <1>1, <1>3, Zenon DEF Audit!skip

LEMMA Consumes ==
  ASSUME NEW r, NEW s \in Seq(AuditPiece), NEW c \in Seq(AuditPiece), ReaderShape(r), Knows(r, s), r.skipping = FALSE,
         LineLimit \in Nat, NEW q, q = Audit!consume(r, rest(s) \o c)
  PROVE  q.threw = TRUE \/ InStep(q, s \o c)
<1> DEFINE b == rest(s) \o c
           lines == Audit!linesOf(b)
           bad == {k \in DOMAIN lines : Audit!parseLine(lines[k]) = "throws"}
           last == Audit!lineAt(b, Len(lines) + 1)
           kept == [r EXCEPT !.records = @ \o Audit!recordsOf(lines)]
<1>1. /\ Audit!linesOf(s \o c) = Audit!linesOf(s) \o lines
      /\ rest(s \o c) = rest(b) /\ rest(s) \in Seq(AuditPiece)
  BY Grown
<1>2. b \in Seq(AuditPiece)
  BY <1>1
<1>3. lines \in Seq(Seq(AuditPiece)) /\ Len(lines) = Count(b) /\ Audit!linesOf(s) \in Seq(Seq(AuditPiece))
  <2> HIDE DEF b
  <2> QED
    BY <1>2, LineShape
<1>4. last = rest(b)
  BY <1>3, Zenon DEF rest
<1>5. /\ Audit!recordsOf(Audit!linesOf(s) \o lines) = Audit!recordsOf(Audit!linesOf(s)) \o Audit!recordsOf(lines)
      /\ Throws(Audit!linesOf(s) \o lines) <=> Throws(Audit!linesOf(s)) \/ Throws(lines)
  <2> HIDE DEF lines
  <2> QED
    BY <1>3, RecordsJoin
<1>6. CASE bad # {}
  <2>1. \E v : q = Audit!throws([r EXCEPT !.records = v])
    BY <1>6, Zenon DEF Audit!consume
  <2>2. PICK v : q = Audit!throws([r EXCEPT !.records = v])
    BY <2>1
  <2> QED
    BY <2>2 DEF Audit!throws, ReaderShape
<1>7. CASE bad = {}
  <2>1. q = IF Len(last) <= LineLimit THEN [kept EXCEPT !.pending = last]
            ELSE IF Audit!skippable(last) THEN [kept EXCEPT !.pending = <<>>, !.skipping = TRUE]
            ELSE Audit!throws([kept EXCEPT !.pending = last])
    BY <1>7, Zenon DEF Audit!consume
  <2>2. ~Throws(lines)
    BY <1>7, Zenon DEF Throws
  <2> DEFINE z == s \o c
             records == Audit!recordsOf(Audit!linesOf(z))
  <2>3. r.records \o Audit!recordsOf(lines) = records /\ ~Throws(Audit!linesOf(z)) /\ last = rest(z)
    <3> HIDE DEF lines, b, last
    <3> QED
      BY <2>2, <1>1, <1>4, <1>5 DEF Knows
  <2>4. Len(last) \in Nat
    BY <1>2, <1>4, LineShape
  <2> HIDE DEF lines, bad, last, b, z, records
  <2>0. PICK P, Q : r \in Readers(P, Q)
    BY DEF ReaderShape
  <2>5. kept \in Readers(P, Q \cup {records}) /\ kept.records = records /\ kept.skipping = FALSE
    <3>1. kept = [r EXCEPT !.records = records]
      BY <2>3
    <3> HIDE DEF kept
    <3> QED
      BY <2>0, <3>1 DEF Readers
  <2> HIDE DEF kept
  <2>6. CASE Len(last) <= LineLimit
    <3>1. q = [kept EXCEPT !.pending = last]
      BY <2>1, <2>6
    <3>2. q.records = records /\ q.skipping = FALSE /\ q.pending = last
      BY <3>1, <2>5 DEF Readers
    <3> QED
      BY <3>2, <2>3, <2>6 DEF InStep, Knows, z, records
  <2>7. CASE ~(Len(last) <= LineLimit) /\ Audit!skippable(last)
    <3>1. q = [kept EXCEPT !.pending = <<>>, !.skipping = TRUE]
      BY <2>1, <2>7
    <3>2. q.records = records /\ q.skipping = TRUE /\ q.pending = <<>>
      BY <3>1, <2>5 DEF Readers
    <3>3. Len(last) > LineLimit
      BY <2>4, <2>7
    <3> QED
      BY <3>2, <3>3, <2>3, <2>7 DEF InStep, Knows, z, records
  <2>8. CASE ~(Len(last) <= LineLimit) /\ ~Audit!skippable(last)
    <3>1. q = Audit!throws([kept EXCEPT !.pending = last])
      BY <2>1, <2>8
    <3> QED
      BY <3>1, <2>5 DEF Audit!throws, Readers
  <2> QED
    BY <2>6, <2>7, <2>8
<1> QED
  BY <1>6, <1>7

LEMMA Associates == \A a \in Seq(AuditPiece), b \in Seq(AuditPiece), d \in Seq(AuditPiece) : a \o (b \o d) = (a \o b) \o d
<1>1. ASSUME NEW a \in Seq(AuditPiece), NEW b \in Seq(AuditPiece), NEW d \in Seq(AuditPiece) PROVE a \o (b \o d) = (a \o b) \o d
  OBVIOUS
<1> QED
  BY <1>1

LEMMA FirstEnd ==
  ASSUME NEW X, NEW c \in Seq(X)
  PROVE  /\ Audit!newlines(c) = <<>> => Ends(c) = {}
         /\ Audit!newlines(c) # <<>> =>
              /\ Audit!newlines(c)[1] \in 1 .. Len(c) /\ c[Audit!newlines(c)[1]] = Audit!nl
              /\ \A i \in Ends(c) : Audit!newlines(c)[1] <= i
<1> DEFINE a == Audit!newlines(c)
           n == Count(c)
<1>1. a \in Seq(1 .. Len(c)) /\ Grows(a, n) /\ Ends(c) = Numbers(a, n) /\ n \in Nat /\ n = Len(a)
  BY EndsShape DEF Count
<1> HIDE DEF a, n
<1>2. ASSUME a = <<>> PROVE Ends(c) = {}
  <2>1. n = 0
    BY <1>1, <1>2
  <2> QED
    BY <1>1, <2>1 DEF Numbers
<1>3. ASSUME a # <<>> PROVE a[1] \in 1 .. Len(c) /\ c[a[1]] = Audit!nl /\ \A i \in Ends(c) : a[1] <= i
  <2>1. n >= 1 /\ 1 \in 1 .. n
    BY <1>1, <1>3, EmptySeq
  <2>2. a[1] \in Ends(c)
    BY <1>1, <2>1 DEF Numbers
  <2>3. ASSUME NEW i \in Ends(c) PROVE a[1] <= i
    <3>1. PICK k \in 1 .. n : a[k] = i
      BY <1>1 DEF Numbers
    <3>2. a[1] \in 1 .. Len(c) /\ a[k] \in 1 .. Len(c)
      BY <1>1, <2>1, <3>1, ElementOfSeq
    <3>3. 1 < k => a[1] < a[k]
      BY <1>1, <2>1, <3>1 DEF Grows
    <3> QED
      BY <3>1, <3>2, <3>3
  <2> QED
    BY <2>2, <2>3 DEF Ends
<1> QED
  BY <1>2, <1>3 DEF a

LEMMA PassedOver ==
  ASSUME NEW X, NEW t \in Seq(X), NEW u \in Seq(X), Len(t) > 0, Audit!skippable(t), ~Audit!namesEvent(u)
  PROVE  Audit!skippable(t \o u)
<1> DEFINE z == t \o u
<1>1. DOMAIN z = 1 .. Len(t) + Len(u) /\ DOMAIN t = 1 .. Len(t) /\ DOMAIN u = 1 .. Len(u) /\ z[1] = t[1]
  OBVIOUS
<1>2. \A i \in 1 .. Len(t) : z[i] = t[i]
  OBVIOUS
<1>3. ASSUME NEW i \in 1 .. Len(t) + Len(u), ~(i <= Len(t)) PROVE i - Len(t) \in 1 .. Len(u) /\ z[i] = u[i - Len(t)]
  BY <1>3
<1> HIDE DEF z
<1>4. ~Audit!namesEvent(z)
  <2>1. ASSUME NEW i \in DOMAIN z, z[i][1] = "safety", z[i][3] = 1 PROVE FALSE
    <3>1. CASE i <= Len(t)
      <4>1. i \in 1 .. Len(t)
        BY <1>1, <3>1
      <4> QED
        BY <1>1, <1>2, <2>1, <4>1 DEF Audit!skippable, Audit!namesEvent
    <3>2. CASE ~(i <= Len(t))
      BY <1>1, <1>3, <2>1, <3>2 DEF Audit!namesEvent
    <3> QED
      BY <3>1, <3>2
  <2> QED
    BY <2>1 DEF Audit!namesEvent
<1>5. z[1][1] = "wake" /\ z[1][3] = 1
  BY <1>1 DEF Audit!skippable
<1> QED
  BY <1>4, <1>5 DEF Audit!skippable, z

LEMMA Skips ==
  ASSUME NEW r, NEW s \in Seq(AuditPiece), NEW c \in Seq(AuditPiece), ReaderShape(r), InStep(r, s), r.skipping = TRUE,
         LineLimit \in Nat, NEW q, q = Audit!skip(r, c)
  PROVE  q.threw = TRUE \/ InStep(q, s \o c)
<1> DEFINE ends == Audit!newlines(c)
           passed == IF ends = <<>> THEN c ELSE SubSeq(c, 1, ends[1] - 1)
           t == rest(s)
<1>1. PICK P, Q : r \in Readers(P, Q)
  BY DEF ReaderShape
<1>2. t \in Seq(AuditPiece) /\ Len(t) \in Nat /\ Len(t) > LineLimit /\ Audit!skippable(t) /\ Ends(t) = {}
  <2>1. t \in Seq(AuditPiece) /\ Ends(t) = {}
    BY Grown
  <2> QED
    BY <2>1 DEF InStep
<1> HIDE DEF t
<1>3. CASE Audit!namesEvent(passed)
  <2>1. q = Audit!throws(r)
    BY <1>3, Zenon DEF Audit!skip
  <2> QED
    BY <2>1, <1>1 DEF Audit!throws, Readers
<1>4. CASE ~Audit!namesEvent(passed) /\ ends = <<>>
  <2>1. q = r /\ passed = c
    BY <1>4, Zenon DEF Audit!skip
  <2>2. Ends(c) = {}
    BY <1>4, FirstEnd
  <2> DEFINE b == t \o c
  <2>3. b \in Seq(AuditPiece) /\ Len(b) = Len(t) + Len(c)
    BY <1>2
  <2>4. Ends(b) = {}
    <3>1. ASSUME NEW i \in Ends(b) PROVE FALSE
      <4>1. i \in 1 .. Len(t) + Len(c) /\ b[i] = Audit!nl
        BY <3>1, <2>3 DEF Ends
      <4>2. b[i] = IF i <= Len(t) THEN t[i] ELSE c[i - Len(t)]
        BY <4>1, <1>2, ConcatProperties
      <4>3. CASE i <= Len(t)
        <5>1. i \in DOMAIN t
          BY <4>1, <4>3, <1>2
        <5> QED
          BY <4>1, <4>2, <4>3, <5>1, <1>2 DEF Ends
      <4>4. CASE ~(i <= Len(t))
        <5>1. i - Len(t) \in DOMAIN c
          BY <4>1, <4>4, <1>2
        <5> QED
          BY <4>1, <4>2, <4>4, <5>1, <2>2 DEF Ends
      <4> QED
        BY <4>3, <4>4
    <3> QED
      BY <3>1
  <2>5. Audit!linesOf(b) = <<>> /\ rest(b) = b
    <3> HIDE DEF b
    <3> QED
      BY <2>3, <2>4, NoEnds
  <2>6. Audit!linesOf(s \o c) = Audit!linesOf(s) \o Audit!linesOf(b) /\ rest(s \o c) = rest(b)
    BY Grown DEF t
  <2>7. Audit!linesOf(s) \in Seq(Seq(AuditPiece))
    BY LineShape
  <2>8. Audit!linesOf(s \o c) = Audit!linesOf(s)
    BY <2>5, <2>6, <2>7, ConcatEmptySeq
  <2>9. Audit!skippable(b)
    <3>1. ~Audit!namesEvent(c) /\ Len(t) > 0
      BY <1>2, <1>4, <2>1
    <3> QED
      BY <3>1, <1>2, PassedOver
  <2>10. Len(b) > LineLimit
    BY <1>2, <2>3
  <2> HIDE DEF b
  <2>11. rest(s \o c) = b
    BY <2>5, <2>6
  <2>12. Knows(r, s \o c)
    BY <2>8 DEF InStep, Knows
  <2> QED
    BY <2>1, <2>9, <2>10, <2>11, <2>12 DEF InStep
<1>5. CASE ~Audit!namesEvent(passed) /\ ends # <<>>
  <2> DEFINE e == ends[1]
             k == [r EXCEPT !.skipping = FALSE]
             x == SubSeq(c, e + 1, Len(c))
             c1 == SubSeq(c, 1, e)
             y == t \o c1
             s1 == s \o c1
             line == t \o passed
  <2>1. q = Audit!consume(k, x) /\ passed = SubSeq(c, 1, e - 1)
    BY <1>5, Zenon DEF Audit!skip
  <2>2. e \in 1 .. Len(c) /\ c[e] = Audit!nl /\ \A i \in Ends(c) : e <= i
    BY <1>5, FirstEnd
  <2> HIDE DEF ends, e
  <2>3. /\ x \in Seq(AuditPiece) /\ c1 \in Seq(AuditPiece) /\ Len(c1) = e /\ c = c1 \o x
        /\ passed \in Seq(AuditPiece) /\ Len(passed) = e - 1
        /\ \A i \in 1 .. e : c1[i] = c[i]
        /\ \A i \in 1 .. e - 1 : passed[i] = c[i]
    <3>1. e \in Nat /\ e \in 0 .. Len(c)
      BY <2>2
    <3>2. c1 \in Seq(AuditPiece) /\ Len(c1) = e /\ x \in Seq(AuditPiece) /\ \A i \in 1 .. e : c1[i] = c[i]
      BY <3>1, Parts
    <3>3. passed \in Seq(AuditPiece) /\ Len(passed) = e - 1 /\ \A i \in 1 .. e - 1 : passed[i] = c[i]
      <4>1. e - 1 \in 0 .. Len(c)
        BY <2>2
      <4>2. /\ SubSeq(c, 1, e - 1) \in Seq(AuditPiece) /\ Len(SubSeq(c, 1, e - 1)) = e - 1
            /\ \A i \in 1 .. e - 1 : SubSeq(c, 1, e - 1)[i] = c[i]
        BY <4>1, Parts
      <4> QED
        BY <4>2, <2>1
    <3>4. c = c1 \o x
      <4>1. c1 \o x \in Seq(AuditPiece) /\ Len(c1 \o x) = Len(c)
        BY <2>2, <3>2
      <4>2. ASSUME NEW i \in 1 .. Len(c) PROVE c[i] = (c1 \o x)[i]
        <5> HIDE DEF c1, x
        <5>1. Len(x) = Len(c) - e /\ Len(c) \in Nat /\ (\A j \in 1 .. Len(x) : x[j] = c[e + j])
          <6>1. Len(c) \in Nat /\ Len(c) >= e
            BY <2>2
          <6> QED
            BY <2>2, <6>1 DEF x
        <5>2. (c1 \o x)[i] = IF i <= e THEN c1[i] ELSE x[i - e]
          BY <3>1, <3>2, <5>1, ConcatProperties
        <5>3. CASE i <= e
          BY <3>1, <3>2, <5>2, <5>3
        <5>4. CASE ~(i <= e)
          <6>1. i - e \in 1 .. Len(x) /\ e + (i - e) = i
            BY <3>1, <5>1, <5>4
          <6> QED
            BY <5>1, <5>2, <5>4, <6>1
        <5> QED
          BY <5>3, <5>4
      <4> QED
        BY <4>1, <4>2, SeqEqual
    <3> QED
      BY <3>2, <3>3, <3>4
  <2> HIDE DEF x, c1, passed
  <2>4. y \in Seq(AuditPiece) /\ Len(y) = Len(t) + e /\ line \in Seq(AuditPiece) /\ Len(line) = Len(t) + (e - 1)
    <3>1. y \in Seq(AuditPiece) /\ line \in Seq(AuditPiece)
      BY <1>2, <2>3
    <3>2. Len(y) = Len(t) + Len(c1) /\ Len(line) = Len(t) + Len(passed)
      BY ZenonT(40), <1>2, <2>3, ConcatProperties
    <3> HIDE DEF y, line
    <3> QED
      BY <2>3, <3>1, <3>2
  <2>5. Ends(y) = {Len(y)} /\ Len(y) > 0
    <3>1. \A i \in 1 .. Len(t) + e : y[i] = IF i <= Len(t) THEN t[i] ELSE c1[i - Len(t)]
      BY <1>2, <2>3, ConcatProperties
    <3>2. ASSUME NEW i \in Ends(y) PROVE i = Len(y)
      <4>1. i \in 1 .. Len(t) + e /\ y[i] = Audit!nl
        BY <2>4 DEF Ends
      <4>2. CASE i <= Len(t)
        <5>1. i \in DOMAIN t /\ t[i] = Audit!nl
          BY <4>1, <4>2, <3>1, <1>2
        <5> QED
          BY <5>1, <1>2 DEF Ends
      <4>3. CASE ~(i <= Len(t))
        <5>0. i - Len(t) \in 1 .. e
          BY <4>1, <4>3, <2>2, <1>2
        <5>1. i - Len(t) \in 1 .. e /\ c1[i - Len(t)] = Audit!nl
          BY <5>0, <4>1, <4>3, <3>1
        <5>2. i - Len(t) \in DOMAIN c /\ c[i - Len(t)] = Audit!nl
          BY <5>1, <2>2, <2>3
        <5>3. e <= i - Len(t)
          BY <5>2, <2>2 DEF Ends
        <5>4. i - Len(t) = e
          BY <5>0, <5>3, <2>2
        <5>5. i = Len(t) + e
          BY <5>4, <4>1, <2>2, <1>2
        <5> HIDE DEF y
        <5> QED
          BY <5>5, <2>4
      <4> QED
        BY <4>2, <4>3
    <3>3. Len(y) \in 1 .. Len(t) + e /\ ~(Len(y) <= Len(t)) /\ Len(y) - Len(t) = e /\ e \in 1 .. e
      BY <1>2, <2>2, <2>4
    <3>4. y[Len(y)] = c1[e] /\ c1[e] = c[e]
      BY <3>1, <3>3, <2>3
    <3>5. Len(y) \in DOMAIN y /\ y[Len(y)] = Audit!nl
      BY <3>3, <3>4, <2>2, <2>4
    <3> HIDE DEF y
    <3>6. Len(y) \in Ends(y)
      BY <3>5 DEF Ends
    <3> QED
      BY <3>2, <3>3, <3>6
  <2>6. SubSeq(y, 1, Len(y) - 1) = line
    <3>1. \A i \in 1 .. Len(t) + e : y[i] = IF i <= Len(t) THEN t[i] ELSE c1[i - Len(t)]
      BY <1>2, <2>3, ConcatProperties
    <3>2. \A i \in 1 .. Len(t) + (e - 1) : line[i] = IF i <= Len(t) THEN t[i] ELSE passed[i - Len(t)]
      BY <1>2, <2>2, <2>3, ConcatProperties
    <3>3. Len(y) - 1 \in 0 .. Len(y) /\ Len(y) - 1 = Len(t) + (e - 1)
      BY <1>2, <2>2, <2>4
    <3> DEFINE w == SubSeq(y, 1, Len(y) - 1)
    <3>4. w \in Seq(AuditPiece) /\ Len(w) = Len(y) - 1 /\ \A i \in 1 .. Len(y) - 1 : w[i] = y[i]
      <4>1. y \in Seq(AuditPiece)
        BY <2>4
      <4> HIDE DEF y
      <4>2. PICK n : n = Len(y) - 1
        OBVIOUS
      <4>3. n \in 0 .. Len(y)
        BY <3>3, <4>2
      <4>4. /\ SubSeq(y, 1, n) \in Seq(AuditPiece) /\ Len(SubSeq(y, 1, n)) = n
            /\ \A i \in 1 .. n : SubSeq(y, 1, n)[i] = y[i]
        BY <4>1, <4>3, Parts
      <4> QED
        BY <4>2, <4>4
    <3> HIDE DEF w, y, line
    <3>5. ASSUME NEW i \in 1 .. Len(w) PROVE w[i] = line[i]
      <4>1. i \in 1 .. Len(t) + (e - 1) /\ i \in 1 .. Len(t) + e
        BY <3>3, <3>4, <2>2, <1>2
      <4>2. ~(i <= Len(t)) => i - Len(t) \in 1 .. e - 1 /\ i - Len(t) \in 1 .. e
        BY <4>1, <2>2, <1>2
      <4>3. ~(i <= Len(t)) => c1[i - Len(t)] = c[i - Len(t)] /\ passed[i - Len(t)] = c[i - Len(t)]
        BY <4>2, <2>3
      <4> QED
        BY <3>1, <3>2, <3>3, <3>4, <4>1, <4>3
    <3>6. w = line
      BY <2>4, <3>3, <3>4, <3>5, SeqEqual
    <3> QED
      BY <3>6 DEF w
  <2>7. Audit!linesOf(y) = <<line>> /\ rest(y) = <<>>
    <3> HIDE DEF y, line
    <3> QED
      BY <2>4, <2>5, <2>6, OneLine
  <2>8. Audit!linesOf(s1) = Audit!linesOf(s) \o <<line>> /\ rest(s1) = <<>>
    <3>1. Audit!linesOf(s1) = Audit!linesOf(s) \o Audit!linesOf(y) /\ rest(s1) = rest(y)
      BY <2>3, Grown DEF t
    <3> QED
      BY <2>7, <3>1
  <2>9. Audit!parseLine(line) = "nothing"
    <3>1. Audit!skippable(line)
      BY <1>2, <1>5, <2>3, PassedOver
    <3>2. Len(line) > LineLimit
      BY <1>2, <2>2, <2>4
    <3> HIDE DEF line
    <3> QED
      BY <3>1, <3>2 DEF Audit!parseLine
  <2>10. Audit!recordsOf(<<line>>) = <<>> /\ ~Throws(<<line>>) /\ <<line>> \in Seq(Seq(AuditPiece))
    <3> HIDE DEF line
    <3>1. <<line>> \in Seq(Seq(AuditPiece)) /\ DOMAIN <<line>> = {1} /\ <<line>>[1] = line
      BY <2>4
    <3>2. Found(<<line>>) = {} /\ ~Throws(<<line>>)
      BY <2>9, <3>1 DEF Found, Throws
    <3> QED
      BY <3>1, <3>2, NoRecords
  <2>11. k \in Readers(P, Q) /\ k.records = r.records /\ k.skipping = FALSE
    BY <1>1 DEF Readers
  <2> HIDE DEF k, line
  <2>12. Knows(k, s1)
    <3>1. Audit!linesOf(s) \in Seq(Seq(AuditPiece))
      BY LineShape
    <3> DEFINE ls == Audit!linesOf(s)
    <3> HIDE DEF ls
    <3>2. /\ Audit!recordsOf(ls \o <<line>>) = Audit!recordsOf(ls) \o Audit!recordsOf(<<line>>)
          /\ Throws(ls \o <<line>>) <=> Throws(ls) \/ Throws(<<line>>)
      BY <2>10, <3>1, RecordsJoin DEF ls
    <3>3. Audit!recordsOf(ls) \in Seq(Seq(AuditPiece))
      BY <3>1, RecordShape DEF ls
    <3>4. Audit!recordsOf(ls \o <<line>>) = Audit!recordsOf(ls)
      BY <2>10, <3>2, <3>3, ConcatEmptySeq
    <3>5. r.records = Audit!recordsOf(ls) /\ ~Throws(ls)
      BY DEF InStep, Knows, ls
    <3>6. Audit!linesOf(s1) = ls \o <<line>>
      BY <2>8 DEF ls
    <3> QED
      BY <2>10, <2>11, <3>2, <3>4, <3>5, <3>6 DEF Knows
  <2>13. s1 \in Seq(AuditPiece) /\ s1 \o x = s \o c
    <3>1. s1 \in Seq(AuditPiece)
      BY <2>3
    <3>2. s \o (c1 \o x) = (s \o c1) \o x
      BY SMTT(30), <2>3, Associates
    <3> QED
      BY <2>3, <3>1, <3>2
  <2>14. q = Audit!consume(k, rest(s1) \o x)
    BY <2>1, <2>3, <2>8, ConcatEmptySeq
  <2>15. ReaderShape(k)
    BY <2>11, Zenon DEF ReaderShape
  <2> HIDE DEF s1
  <2> QED
    BY <2>3, <2>11, <2>12, <2>13, <2>14, <2>15, Consumes
<1> QED
  BY <1>3, <1>4, <1>5

LEMMA Halves ==
  ASSUME NEW X, NEW c \in Seq(X), NEW e \in 0 .. Len(c)
  PROVE  SubSeq(c, 1, e) \o SubSeq(c, e + 1, Len(c)) = c
<1> DEFINE h == SubSeq(c, 1, e)
           x == SubSeq(c, e + 1, Len(c))
<1>1. e \in Nat /\ Len(c) \in Nat /\ e <= Len(c)
  OBVIOUS
<1>2. /\ h \in Seq(X) /\ Len(h) = e /\ x \in Seq(X) /\ Len(x) = Len(c) - e
      /\ \A i \in 1 .. e : h[i] = c[i]
      /\ \A i \in 1 .. Len(c) - e : x[i] = c[e + i]
  BY Parts
<1> HIDE DEF h, x
<1>3. h \o x \in Seq(X) /\ Len(h \o x) = Len(c)
  BY <1>1, <1>2
<1>4. ASSUME NEW i \in 1 .. Len(c) PROVE (h \o x)[i] = c[i]
  <2>1. (h \o x)[i] = IF i <= e THEN h[i] ELSE x[i - e]
    BY <1>1, <1>2, ConcatProperties
  <2>2. CASE i <= e
    BY <1>1, <1>2, <2>1, <2>2
  <2>3. CASE ~(i <= e)
    <3>1. i - e \in 1 .. Len(c) - e /\ e + (i - e) = i
      BY <1>1, <2>3
    <3> QED
      BY <1>2, <2>1, <2>3, <3>1
  <2> QED
    BY <2>2, <2>3
<1>5. h \o x = c
  BY <1>3, <1>4, SeqEqual
<1> QED
  BY <1>5 DEF h, x

LEMMA NextChunk ==
  ASSUME NEW X, NEW s \in Seq(X), NEW n \in Nat, NEW m \in 0 .. Len(s), n <= m
  PROVE  /\ SubSeq(s, 1, n) \in Seq(X) /\ SubSeq(s, n + 1, m) \in Seq(X)
         /\ SubSeq(s, 1, n) \o SubSeq(s, n + 1, m) = SubSeq(s, 1, m)
<1> DEFINE h == SubSeq(s, 1, m)
<1>1. h \in Seq(X) /\ Len(h) = m
  BY Parts
<1>2. \A a \in Nat \ {0}, b \in 0 .. m : SubSeq(h, a, b) = SubSeq(s, a, b)
  BY Parts
<1>3. m \in Nat /\ n \in 0 .. m /\ 1 \in Nat \ {0} /\ n + 1 \in Nat \ {0} /\ m \in 0 .. m
  OBVIOUS
<1>4. SubSeq(h, 1, n) = SubSeq(s, 1, n) /\ SubSeq(h, n + 1, m) = SubSeq(s, n + 1, m)
  BY <1>2, <1>3
<1> HIDE DEF h
<1>5. n \in 0 .. Len(h)
  BY <1>1, <1>3
<1>6. SubSeq(h, 1, n) \o SubSeq(h, n + 1, Len(h)) = h
  BY <1>1, <1>5, Halves
<1>7. SubSeq(h, 1, n) \in Seq(X) /\ SubSeq(h, n + 1, Len(h)) \in Seq(X)
  BY <1>1, <1>5, Parts
<1> QED
  BY <1>1, <1>4, <1>6, <1>7 DEF h

LEMMA Appended ==
  ASSUME NEW X, NEW s \in Seq(X), NEW p \in X, NEW n \in 0 .. Len(s)
  PROVE  SubSeq(Append(s, p), 1, n) = SubSeq(s, 1, n)
<1> DEFINE z == Append(s, p)
<1>1. z \in Seq(X) /\ Len(z) = Len(s) + 1 /\ Len(s) \in Nat /\ \A i \in 1 .. Len(s) : z[i] = s[i]
  OBVIOUS
<1> HIDE DEF z
<1>2. n \in 0 .. Len(z) /\ n \in Nat
  BY <1>1
<1> DEFINE a == SubSeq(z, 1, n)
           b == SubSeq(s, 1, n)
<1>3. a \in Seq(X) /\ Len(a) = n /\ \A i \in 1 .. n : a[i] = z[i]
  BY <1>1, <1>2, Parts
<1>4. b \in Seq(X) /\ Len(b) = n /\ \A i \in 1 .. n : b[i] = s[i]
  BY <1>2, Parts
<1> HIDE DEF a, b
<1>5. ASSUME NEW i \in 1 .. n PROVE a[i] = b[i]
  <2>1. i \in 1 .. Len(s)
    BY <1>1
  <2> QED
    BY <1>1, <1>3, <1>4, <2>1
<1>6. a = b
  BY <1>3, <1>4, <1>5, SeqEqual
<1> QED
  BY <1>6 DEF a, b, z

LEMMA ReaderFields ==
  ASSUME NEW r, ReaderShape(r)
  PROVE  /\ r.inode \in Nat /\ r.offset \in Nat /\ r.target \in Nat
         /\ r.skipping \in BOOLEAN /\ r.reading \in BOOLEAN /\ r.threw \in BOOLEAN
<1>1. PICK P, Q : r \in Readers(P, Q)
  BY DEF ReaderShape
<1> QED
  BY <1>1 DEF Readers

(* A reader that begins a file has read nothing of it. *)
LEMMA FreshReader ==
  ASSUME NEW n \in Nat, LineLimit \in Nat
  PROVE  /\ ReaderShape(Audit!Fresh(n)) /\ InStep(Audit!Fresh(n), <<>>)
         /\ Audit!Fresh(n).inode = n /\ Audit!Fresh(n).offset = 0 /\ Audit!Fresh(n).target = 0
         /\ Audit!Fresh(n).threw = FALSE /\ Len(Audit!Fresh(n).pending) = 0 /\ Audit!Fresh(n).reading = FALSE
<1> DEFINE r == Audit!Fresh(n)
<1>1. r \in Readers({<<>>}, {<<>>})
  BY DEF Audit!Fresh, Readers
<1>2. /\ r.inode = n /\ r.offset = 0 /\ r.target = 0 /\ r.threw = FALSE /\ r.pending = <<>> /\ r.reading = FALSE
      /\ r.records = <<>> /\ r.skipping = FALSE
  BY DEF Audit!Fresh
<1>3. Ends(<<>>) = {} /\ <<>> \in Seq(AuditPiece) /\ Len(<<>>) = 0
  BY DEF Ends
<1>4. Audit!linesOf(<<>>) = <<>> /\ rest(<<>>) = <<>>
  BY <1>3, NoEnds
<1>5. <<>> \in Seq(Seq(AuditPiece)) /\ Found(<<>>) = {} /\ ~Throws(<<>>)
  BY DEF Found, Throws
<1>6. Audit!recordsOf(<<>>) = <<>>
  BY <1>5, NoRecords
<1> HIDE DEF r
<1>7. InStep(r, <<>>)
  BY <1>2, <1>3, <1>4, <1>5, <1>6 DEF InStep, Knows
<1>8. ReaderShape(r)
  BY <1>1, Zenon DEF ReaderShape
<1>9. Len(r.pending) = 0
  BY <1>2, <1>3
<1> QED
  BY <1>2, <1>7, <1>8, <1>9 DEF r

LEMMA AuditInit == Init => AuditInv
<1> SUFFICES ASSUME Init PROVE AuditInv
  OBVIOUS
<1>1. /\ auditFile = [inode |-> 1, bytes |-> <<>>] /\ reader = Audit!Fresh(0)
      /\ writer = [kind |-> "none", number |-> 0, written |-> 0, torn |-> 0]
  BY DEF Init, Audit!ReaderInit
<1>2. LineLimit \in Nat
  BY AuditAssumption DEF Audit!ReaderAssumption
<1>3. auditFile \in [inode : Nat, bytes : Seq(AuditPiece)] /\ auditFile.inode = 1
  BY <1>1
<1>4. writer \in [kind : Kinds \cup {"none"}, number : Nat, written : Nat, torn : Nat]
  BY <1>1
<1>5. ReaderShape(reader) /\ reader.inode = 0 /\ reader.offset = 0 /\ reader.target = 0 /\ reader.threw = FALSE
      /\ Len(reader.pending) = 0 /\ reader.reading = FALSE
  BY <1>1, <1>2, FreshReader
<1> QED
  BY <1>2, <1>3, <1>4, <1>5 DEF AuditInv

(* One read of a chunk. *)
LEMMA ChunkRead ==
  ASSUME AuditInv, Audit!ReadChunk, LineLimit \in Nat, ChunkLimit \in Nat \ {0}
  PROVE  AuditInv'
<1> DEFINE upTo == IF reader.offset + ChunkLimit < reader.target THEN reader.offset + ChunkLimit ELSE reader.target
           c == SubSeq(auditFile.bytes, reader.offset + 1, upTo)
           more == upTo < reader.target
           r == [reader EXCEPT !.offset = upTo, !.reading = more]
           s == SubSeq(auditFile.bytes, 1, reader.offset)
           q == IF reader.skipping THEN Audit!skip(r, c) ELSE Audit!consume(r, reader.pending \o c)
<1>1. reader' = q /\ auditFile' = auditFile /\ writer' = writer /\ reader.reading
  BY Zenon DEF Audit!ReadChunk
<1>2. /\ reader.inode \in Nat /\ reader.offset \in Nat /\ reader.target \in Nat /\ reader.offset <= reader.target
      /\ reader.skipping \in BOOLEAN /\ reader.reading \in BOOLEAN /\ reader.threw \in BOOLEAN
  BY ReaderFields DEF AuditInv
<1>3. /\ reader.inode = auditFile.inode /\ reader.target <= Len(auditFile.bytes)
      /\ reader.threw = FALSE => InStep(reader, s)
  BY <1>1, <1>2 DEF AuditInv
<1>4. auditFile.bytes \in Seq(AuditPiece)
  BY DEF AuditInv
<1>5. upTo \in Nat /\ reader.offset <= upTo /\ upTo <= reader.target /\ upTo \in 0 .. Len(auditFile.bytes)
  BY <1>2, <1>3, <1>4
<1>15. more \in BOOLEAN
  OBVIOUS
<1> HIDE DEF upTo, more
<1>6. s \in Seq(AuditPiece) /\ c \in Seq(AuditPiece) /\ s \o c = SubSeq(auditFile.bytes, 1, upTo)
  BY <1>2, <1>4, <1>5, NextChunk
<1>7. PICK P, Q : reader \in Readers(P, Q)
  BY DEF AuditInv, ReaderShape
<1>8. /\ r \in Readers(P, Q) /\ r.inode = reader.inode /\ r.offset = upTo /\ r.target = reader.target
      /\ r.threw = reader.threw /\ r.skipping = reader.skipping /\ r.pending = reader.pending
      /\ r.records = reader.records
  BY <1>5, <1>7, <1>15 DEF Readers
<1>9. ReaderShape(r)
  BY <1>8, Zenon DEF ReaderShape
<1> HIDE DEF r, s, c
<1>10. Same(r, q)
  BY <1>2, <1>9, ConsumeSame, SkipSame
<1>11. q.threw = TRUE \/ (reader.threw = FALSE /\ InStep(q, s \o c))
  <2>1. CASE reader.threw = TRUE
    BY <2>1, <1>8, <1>10 DEF Same
  <2>2. CASE reader.threw = FALSE
    <3>1. InStep(r, s)
      BY <2>2, <1>3, <1>8 DEF InStep, Knows
    <3>2. CASE reader.skipping = TRUE
      <4>1. q = Audit!skip(r, c)
        BY <3>2
      <4> HIDE DEF q
      <4> QED
        BY <2>2, <3>1, <3>2, <4>1, <1>6, <1>8, <1>9, Skips
    <3>3. CASE reader.skipping = FALSE
      <4>1. q = Audit!consume(r, rest(s) \o c)
        BY <3>1, <3>3, <1>8 DEF InStep
      <4>2. Knows(r, s) /\ r.skipping = FALSE
        BY <3>1, <3>3, <1>8 DEF InStep
      <4> HIDE DEF q
      <4> QED
        BY <2>2, <4>1, <4>2, <1>6, <1>9, Consumes
    <3> QED
      BY <3>2, <3>3, <1>2
  <2> QED
    BY <2>1, <2>2, <1>2
<1> HIDE DEF q
<1>12. /\ ReaderShape(q) /\ q.inode = auditFile.inode /\ q.offset = upTo /\ q.target = reader.target
       /\ q.threw \in BOOLEAN
  BY <1>3, <1>8, <1>10, ReaderFields DEF Same
<1>13. q.threw = FALSE => InStep(q, SubSeq(auditFile.bytes, 1, q.offset))
  BY <1>6, <1>11, <1>12
<1>14. q.threw = FALSE => Len(q.pending) <= LineLimit
  <2>1. CASE q.skipping = TRUE /\ q.threw = FALSE
    <3>1. q.pending = <<>>
      BY <2>1, <1>13 DEF InStep
    <3> QED
      BY <3>1
  <2>2. CASE q.skipping = FALSE /\ q.threw = FALSE
    BY <2>2, <1>13 DEF InStep
  <2> QED
    BY <2>1, <2>2, <1>12, ReaderFields
<1> QED
  BY <1>1, <1>2, <1>3, <1>5, <1>12, <1>13, <1>14 DEF AuditInv

LEMMA AuditKept == AuditInv /\ Audit!ReaderNext => AuditInv'
<1> SUFFICES ASSUME AuditInv, Audit!ReaderNext PROVE AuditInv'
  OBVIOUS
<1>0. LineLimit \in Nat /\ ChunkLimit \in Nat \ {0}
  BY AuditAssumption DEF Audit!ReaderAssumption
<1>1. auditFile \in [inode : Nat, bytes : Seq(AuditPiece)]
      /\ writer \in [kind : Kinds \cup {"none"}, number : Nat, written : Nat, torn : Nat]
      /\ ReaderShape(reader)
  BY DEF AuditInv
<1>2. /\ reader.inode \in Nat /\ reader.offset \in Nat /\ reader.target \in Nat
      /\ reader.skipping \in BOOLEAN /\ reader.reading \in BOOLEAN /\ reader.threw \in BOOLEAN
  BY <1>1, ReaderFields
<1> DEFINE Writers == [kind : Kinds \cup {"none"}, number : Nat, written : Nat, torn : Nat]
<1>9. writer \in Writers /\ writer.number \in Nat /\ writer.written \in Nat /\ writer.torn \in Nat
  BY <1>1
<1>10. ASSUME NEW k \in Kinds \cup {"none"}, NEW n \in Nat, NEW w \in Nat, NEW t \in Nat
       PROVE  /\ [writer EXCEPT !.kind = k, !.number = n, !.written = w] \in Writers
              /\ [writer EXCEPT !.kind = k, !.written = w, !.torn = t] \in Writers
              /\ [writer EXCEPT !.kind = k, !.written = w] \in Writers
  <2>1. [writer EXCEPT !.kind = k] \in Writers
    BY <1>9, <1>10
  <2>2. [writer EXCEPT !.kind = k, !.written = w] \in Writers
    BY <1>9, <1>10
  <2>3. [writer EXCEPT !.kind = k, !.number = n, !.written = w] \in Writers
    BY <1>9, <1>10
  <2>4. [writer EXCEPT !.kind = k, !.written = w, !.torn = t] \in Writers
    BY <1>9, <1>10
  <2> HIDE DEF Writers
  <2> QED
    BY <2>2, <2>3, <2>4
<1>3. ASSUME NEW kind \in DOMAIN [safety |-> SafetyPieces, other |-> OtherPieces, wake |-> WakePieces, dump |-> DumpPieces],
             Audit!Begin(kind)
      PROVE  AuditInv'
  <2>1. kind \in Kinds
    BY <1>3 DEF Kinds
  <2>2. writer' \in [kind : Kinds \cup {"none"}, number : Nat, written : Nat, torn : Nat]
    <3>1. writer' = [writer EXCEPT !.kind = kind, !.number = writer.number + 1, !.written = 0]
      BY <1>3 DEF Audit!Begin
    <3>2. kind \in Kinds \cup {"none"} /\ writer.number + 1 \in Nat /\ 0 \in Nat
      BY <1>9, <2>1
    <3> HIDE DEF Writers
    <3>3. writer' \in Writers
      BY <3>1, <3>2, <1>10
    <3> QED
      BY <3>3 DEF Writers
  <2>3. auditFile' = auditFile /\ reader' = reader
    BY <1>3 DEF Audit!Begin
  <2> QED
    BY <2>2, <2>3 DEF AuditInv
<1>4. CASE Audit!WritePiece
  <2>1. PICK p \in AuditPiece : auditFile' = [auditFile EXCEPT !.bytes = Append(auditFile.bytes, p)]
    <3>1. writer.kind \in Kinds /\ writer.number \in Nat /\ writer.written + 1 \in Nat
      BY <1>1, <1>4 DEF Audit!WritePiece
    <3>2. Audit!nl \in AuditPiece /\ <<writer.kind, writer.number, writer.written + 1>> \in AuditPiece
      BY <3>1 DEF Audit!nl, AuditPiece
    <3>3. \E p \in {Audit!nl, <<writer.kind, writer.number, writer.written + 1>>} :
            auditFile' = [auditFile EXCEPT !.bytes = Append(auditFile.bytes, p)]
      BY <1>4, Zenon DEF Audit!WritePiece
    <3> QED
      BY <3>2, <3>3
  <2>2. writer' \in [kind : Kinds \cup {"none"}, number : Nat, written : Nat, torn : Nat] /\ reader' = reader
    <3>1. reader' = reader /\ writer.kind \in Kinds
      BY <1>1, <1>4 DEF Audit!WritePiece
    <3>2. \/ writer' = [writer EXCEPT !.kind = "none", !.written = 0]
          \/ writer' = [writer EXCEPT !.written = writer.written + 1]
      BY <1>4, Zenon DEF Audit!WritePiece
    <3>3. "none" \in Kinds \cup {"none"} /\ writer.written + 1 \in Nat /\ 0 \in Nat
      BY <1>9
    <3> HIDE DEF Writers
    <3>4. writer' \in Writers
      <4>1. CASE writer' = [writer EXCEPT !.kind = "none", !.written = 0]
        BY <4>1, <3>3, <1>9, <1>10
      <4>2. CASE writer' = [writer EXCEPT !.written = writer.written + 1]
        <5>1. [writer EXCEPT !.written = writer.written + 1] \in Writers
          BY <1>9 DEF Writers
        <5> QED
          BY <4>2, <5>1
      <4> QED
        BY <3>2, <4>1, <4>2
    <3> QED
      BY <3>1, <3>4 DEF Writers
  <2>3. /\ auditFile' \in [inode : Nat, bytes : Seq(AuditPiece)] /\ auditFile'.inode = auditFile.inode
        /\ auditFile'.bytes = Append(auditFile.bytes, p) /\ Len(auditFile'.bytes) = Len(auditFile.bytes) + 1
        /\ Len(auditFile.bytes) \in Nat /\ auditFile.bytes \in Seq(AuditPiece)
    <3> DEFINE z == Append(auditFile.bytes, p)
    <3>1. auditFile.bytes \in Seq(AuditPiece)
      BY <1>1
    <3>2. z \in Seq(AuditPiece) /\ Len(z) = Len(auditFile.bytes) + 1 /\ Len(auditFile.bytes) \in Nat
      BY <3>1
    <3> HIDE DEF z
    <3>3. auditFile' = [auditFile EXCEPT !.bytes = z]
      BY <2>1 DEF z
    <3>4. auditFile' \in [inode : Nat, bytes : Seq(AuditPiece)] /\ auditFile'.inode = auditFile.inode /\ auditFile'.bytes = z
      BY <1>1, <3>2, <3>3
    <3> QED
      BY <3>1, <3>2, <3>4 DEF z
  <2>4. reader.inode = auditFile.inode =>
          SubSeq(auditFile'.bytes, 1, reader.offset) = SubSeq(auditFile.bytes, 1, reader.offset)
    <3>1. ASSUME reader.inode = auditFile.inode PROVE reader.offset \in 0 .. Len(auditFile.bytes)
      BY <1>2, <2>3, <3>1 DEF AuditInv
    <3> QED
      BY <2>3, <3>1, Appended
  <2> QED
    <3>1. reader.inode = auditFile'.inode =>
            /\ reader.target <= Len(auditFile'.bytes)
            /\ reader.threw = FALSE => InStep(reader, SubSeq(auditFile'.bytes, 1, reader.offset))
      <4>1. SUFFICES ASSUME reader.inode = auditFile'.inode
                     PROVE  /\ reader.target <= Len(auditFile'.bytes)
                            /\ reader.threw = FALSE => InStep(reader, SubSeq(auditFile'.bytes, 1, reader.offset))
        OBVIOUS
      <4>2. /\ reader.target <= Len(auditFile.bytes)
            /\ reader.threw = FALSE => InStep(reader, SubSeq(auditFile.bytes, 1, reader.offset))
        BY <4>1, <2>3 DEF AuditInv
      <4>3. SubSeq(auditFile'.bytes, 1, reader.offset) = SubSeq(auditFile.bytes, 1, reader.offset)
        BY <4>1, <2>3, <2>4
      <4>4. reader.target <= Len(auditFile'.bytes)
        BY <4>2, <1>2, <2>3
      <4> QED
        BY <4>2, <4>3, <4>4, Zenon
    <3>2. reader.inode <= auditFile'.inode /\ (reader.reading = TRUE => reader.inode = auditFile'.inode)
      BY <2>3 DEF AuditInv
    <3> QED
      BY <2>2, <2>3, <3>1, <3>2 DEF AuditInv
<1>5. CASE Audit!Tear
  <2>1. writer' \in [kind : Kinds \cup {"none"}, number : Nat, written : Nat, torn : Nat]
    <3>1. writer' = [writer EXCEPT !.kind = "none", !.written = 0, !.torn = writer.torn + 1]
      BY <1>5 DEF Audit!Tear
    <3>2. "none" \in Kinds \cup {"none"} /\ writer.torn + 1 \in Nat /\ 0 \in Nat
      BY <1>9
    <3> HIDE DEF Writers
    <3>3. writer' \in Writers
      BY <3>1, <3>2, <1>10
    <3> QED
      BY <3>3 DEF Writers
  <2>2. auditFile' = auditFile /\ reader' = reader
    BY <1>5 DEF Audit!Tear
  <2> QED
    BY <2>1, <2>2 DEF AuditInv
<1>6. CASE Audit!Replace
  <2>1. /\ auditFile' = [inode |-> auditFile.inode + 1, bytes |-> <<>>] /\ writer' = writer /\ reader' = reader
        /\ ~reader.reading
    BY <1>6 DEF Audit!Replace
  <2>2. auditFile' \in [inode : Nat, bytes : Seq(AuditPiece)] /\ auditFile'.inode = auditFile.inode + 1
        /\ auditFile.inode \in Nat
    BY <1>1, <2>1
  <2>3. reader.inode # auditFile'.inode /\ reader.inode <= auditFile'.inode
    BY <1>2, <2>2 DEF AuditInv
  <2> QED
    BY <2>1, <2>2, <2>3 DEF AuditInv
<1>7. CASE Audit!StartRead
  <2> DEFINE len == Len(auditFile.bytes)
             fresh == auditFile.inode # reader.inode \/ len < reader.offset
             r == IF fresh THEN Audit!Fresh(auditFile.inode) ELSE reader
             more == len > r.offset
             q == [r EXCEPT !.reading = more, !.target = len]
  <2>1. reader' = q /\ auditFile' = auditFile /\ writer' = writer
    BY <1>7, Zenon DEF Audit!StartRead
  <2>2. len \in Nat /\ auditFile.inode \in Nat /\ auditFile.bytes \in Seq(AuditPiece)
    BY <1>1
  <2>3. /\ ReaderShape(r) /\ r.inode = auditFile.inode /\ r.offset \in Nat /\ r.offset <= len
        /\ r.threw = FALSE => InStep(r, SubSeq(auditFile.bytes, 1, r.offset))
        /\ r.threw = FALSE => Len(r.pending) <= LineLimit
    <3>1. CASE fresh
      <4> DEFINE f == Audit!Fresh(auditFile.inode)
      <4>1. /\ ReaderShape(f) /\ InStep(f, <<>>) /\ f.inode = auditFile.inode /\ f.offset = 0
            /\ Len(f.pending) = 0
        BY <1>0, <2>2, FreshReader
      <4>2. SubSeq(auditFile.bytes, 1, 0) = <<>>
        BY <2>2
      <4>3. r = f
        BY <3>1
      <4> HIDE DEF f, r, len
      <4>4. f.offset \in Nat /\ f.offset <= len /\ Len(f.pending) <= LineLimit
        BY <4>1, <1>0, <2>2
      <4>5. SubSeq(auditFile.bytes, 1, f.offset) = <<>>
        BY <4>1, <4>2
      <4>6. InStep(f, SubSeq(auditFile.bytes, 1, f.offset))
        BY <4>1, <4>5, Zenon
      <4> QED
        BY <4>1, <4>3, <4>4, <4>6, Zenon
    <3>2. CASE ~fresh
      <4>1. r = reader /\ reader.inode = auditFile.inode /\ reader.offset <= len
        BY <3>2, <2>2, <1>2
      <4> HIDE DEF r, len
      <4> QED
        BY <4>1, <1>2, <1>1 DEF AuditInv
    <3> QED
      BY <3>1, <3>2
  <2>8. more \in BOOLEAN
    OBVIOUS
  <2> HIDE DEF r, len, more
  <2>4. PICK P, Q : r \in Readers(P, Q)
    BY <2>3 DEF ReaderShape
  <2>5. /\ q \in Readers(P, Q) /\ q.inode = r.inode /\ q.offset = r.offset /\ q.target = len /\ q.threw = r.threw
        /\ q.pending = r.pending /\ q.records = r.records /\ q.skipping = r.skipping
    BY <2>2, <2>4, <2>8 DEF Readers
  <2>6. ReaderShape(q)
    BY <2>5, Zenon DEF ReaderShape
  <2> HIDE DEF q
  <2>7. /\ q.threw = FALSE => InStep(q, SubSeq(auditFile.bytes, 1, q.offset))
        /\ q.threw = FALSE => Len(q.pending) <= LineLimit
    BY <2>3, <2>5 DEF InStep, Knows
  <2> QED
    BY <1>1, <2>1, <2>2, <2>3, <2>5, <2>6, <2>7 DEF AuditInv, len
<1>8. CASE Audit!ReadChunk
  BY <1>0, <1>8, ChunkRead
<1> QED
  BY <1>3, <1>4, <1>5, <1>6, <1>7, <1>8 DEF Audit!ReaderNext

LEMMA AuditHolds == AuditInv => Audit!LedgerRead /\ Audit!ReaderTypeOK
<1> SUFFICES ASSUME AuditInv PROVE Audit!LedgerRead /\ Audit!ReaderTypeOK
  OBVIOUS
<1>1. /\ reader.inode \in Nat /\ reader.offset \in Nat /\ reader.target \in Nat
      /\ reader.skipping \in BOOLEAN /\ reader.reading \in BOOLEAN /\ reader.threw \in BOOLEAN
  BY ReaderFields DEF AuditInv
<1>2. Audit!ReaderTypeOK
  BY <1>1 DEF AuditInv, Audit!ReaderTypeOK
<1>3. ASSUME reader.inode = auditFile.inode, ~reader.threw
      PROVE  Knows(reader, SubSeq(auditFile.bytes, 1, reader.offset))
  BY <1>1, <1>3 DEF AuditInv, InStep
<1>4. Audit!LedgerRead
  BY <1>3, Zenon DEF Audit!LedgerRead, Knows, Throws
<1> QED
  BY <1>2, <1>4

--------------------------------------------------------------------------------
(* What the two readers of a mutation return is one of their views.             *)

LEMMA ObservedInit == Init => Observed
BY DEF Init, ReadsInit, Observed, Views

LEMMA ObservedStep == Observed /\ [Next]_vars => Observed'
<1> SUFFICES ASSUME Observed, [Next]_vars PROVE Observed'
  OBVIOUS
<1>1. CASE UNCHANGED obs
  BY <1>1 DEF Observed
<1>2. CASE AskAgain
  BY <1>2 DEF Observed, AskAgain, Views
<1>3. ASSUME NEW i \in Sources, Poll(i) PROVE Observed'
  BY <1>3 DEF Observed, Poll
<1> QED
  BY <1>1, <1>2, <1>3, PartStep DEF ReadsNext

LEMMA ViewTypes ==
  ASSUME Observed
  PROVE  /\ DOMAIN obs = Sources
         /\ \A i \in Sources : /\ obs[i].headTimestamp \in Int /\ obs[i].latestNonce \in Nat
                               /\ obs[i].pendingNonce \in Nat
                               /\ obs[i].error \in BOOLEAN /\ obs[i].transaction \in BOOLEAN
<1>1. obs \in [Sources -> Views] /\ DOMAIN obs = Sources
  BY DEF Observed
<1>2. Heights \subseteq Nat /\ Nonce \in Nat
  BY InputAssumption
<1>3. ASSUME NEW v \in Views
      PROVE  /\ v.headTimestamp \in Int /\ v.latestNonce \in Nat /\ v.pendingNonce \in Nat
             /\ v.error \in BOOLEAN /\ v.transaction \in BOOLEAN
  <2>1. CASE v = FailedRead
    BY <2>1 DEF FailedRead
  <2>2. CASE v # FailedRead
    <3>1. PICK h \in Heights, latest \in {Nonce, Nonce + 1}, pending \in {Nonce, Nonce + 1}, seen \in BOOLEAN,
               receipt \in Receipts :
            v = [error |-> FALSE, head |-> h, headTimestamp |-> h, latestNonce |-> latest,
                 pendingNonce |-> pending, transaction |-> seen, receipt |-> receipt]
      BY <2>2 DEF Views
    <3> QED
      BY <1>2, <3>1
  <2> QED
    BY <2>1, <2>2
<1> QED
  BY <1>1, <1>3

LEMMA NotBoth == Observed => AbandonXorReplay /\ TraceKeepsOpen
<1> SUFFICES ASSUME Observed PROVE AbandonXorReplay /\ TraceKeepsOpen
  OBVIOUS
<1>1. /\ DOMAIN obs = Sources
      /\ \A i \in Sources : /\ obs[i].headTimestamp \in Int /\ obs[i].latestNonce \in Nat
                            /\ obs[i].pendingNonce \in Nat
                            /\ obs[i].error \in BOOLEAN /\ obs[i].transaction \in BOOLEAN
  BY ViewTypes
<1>2. usable(obs) \subseteq Sources
  BY <1>1 DEF usable
<1>3. AbandonXorReplay
  <2>1. Deadline \in Int /\ \A i \in usable(obs) : obs[i].headTimestamp \in Int
    BY <1>1, <1>2, InputAssumption
  <2>2. ~( /\ evaluateExpiredMutationAbandonment(TRUE, Nonce, Deadline, obs)
           /\ classifyReconciliation(obs, Nonce, MinConfirmations) = "NOT_OBSERVED"
           /\ evaluateRawReplayDeadline(TRUE, Deadline, obs))
    BY <2>1, AbandonOrReplay
  <2> QED
    BY <2>2, Zenon DEF AbandonXorReplay, mayAbandon, mayReplay, outcome
<1>4. ASSUME NEW i \in Sources, shows(obs[i]), NEW depth, classifyReconciliation(obs, Nonce, depth) = "NOT_OBSERVED"
      PROVE  FALSE
  <2>1. i \in usable(obs)
    BY <1>1, <1>4 DEF shows, usable
  <2>2. /\ obs[i].receipt = NoReceipt /\ ~obs[i].transaction
        /\ obs[i].latestNonce <= Nonce /\ obs[i].pendingNonce <= Nonce
    BY <1>4, <2>1, NotObserved
  <2> QED
    BY <1>1, <1>4, <2>2, InputAssumption DEF shows
<1>5. TraceKeepsOpen
  BY <1>4, Zenon DEF TraceKeepsOpen, mayAbandon, mayReplay, outcome, evaluateExpiredMutationAbandonment
<1> QED
  BY <1>3, <1>5

LEMMA MirrorSize == ASSUME NEW S, S \subseteq Sources PROVE Cardinality(Mirror(S)) = Cardinality(S)
<1>1. \A x : Cardinality({x}) = 1
  BY FS_Singleton
<1>2. CASE S = {}
  BY <1>2 DEF Mirror
<1>3. CASE S = {1}
  <2>1. Mirror(S) = {2}
    BY <1>3 DEF Mirror
  <2> QED
    BY <1>1, <1>3, <2>1
<1>4. CASE S = {2}
  <2>1. Mirror(S) = {1}
    BY <1>4 DEF Mirror
  <2> QED
    BY <1>1, <1>4, <2>1
<1>5. CASE S = {1, 2}
  <2>1. Mirror(S) = S
    BY <1>5 DEF Mirror
  <2> QED
    BY <2>1
<1>6. S = {} \/ S = {1} \/ S = {2} \/ S = {1, 2}
  <2>1. Sources = {1, 2}
    BY DEF Sources
  <2> QED
    BY <2>1
<1> QED
  BY <1>2, <1>3, <1>4, <1>5, <1>6

LEMMA TurnedSets ==
  ASSUME NEW o, DOMAIN o = Sources
  PROVE  /\ DOMAIN Turned(o) = Sources /\ \A i \in Sources : 3 - i \in Sources /\ 3 - (3 - i) = i /\ Turned(o)[i] = o[3 - i]
         /\ usable(o) \subseteq Sources /\ withReceipt(o) \subseteq usable(o)
         /\ usable(Turned(o)) = Mirror(usable(o)) /\ withReceipt(Turned(o)) = Mirror(withReceipt(o))
<1> DEFINE t == Turned(o)
<1>1. DOMAIN t = Sources /\ \A i \in Sources : 3 - i \in Sources /\ 3 - (3 - i) = i /\ t[i] = o[3 - i]
  BY DEF Turned, Sources
<1> HIDE DEF t
<1>2. usable(o) \subseteq Sources /\ withReceipt(o) \subseteq usable(o)
  BY DEF usable, withReceipt
<1>3. ASSUME NEW S, S \subseteq Sources PROVE \A i \in Sources : i \in Mirror(S) <=> 3 - i \in S
  BY <1>1, <1>3 DEF Mirror, Sources
<1>4. Mirror(usable(o)) \subseteq Sources /\ Mirror(withReceipt(o)) \subseteq Sources
  BY <1>1, <1>2 DEF Mirror
<1>5. \A i \in Sources : i \in usable(t) <=> 3 - i \in usable(o)
  BY <1>1 DEF usable
<1>6. usable(t) \subseteq Sources
  BY <1>1 DEF usable
<1>7. usable(t) = Mirror(usable(o))
  BY <1>2, <1>3, <1>4, <1>5, <1>6
<1>8. \A i \in Sources : i \in withReceipt(t) <=> 3 - i \in withReceipt(o)
  BY <1>1, <1>5 DEF withReceipt
<1>9. withReceipt(t) \subseteq Sources
  BY <1>6 DEF withReceipt
<1>10. withReceipt(t) = Mirror(withReceipt(o))
  BY <1>2, <1>3, <1>4, <1>8, <1>9
<1> QED
  BY <1>1, <1>2, <1>7, <1>10 DEF t

(* Where no two receipts disagree, they all say what the judgement says.        *)
LEMMA ReceiptSays ==
  ASSUME NEW o, DOMAIN o = Sources, NEW n, NEW depth, ~conflict(o), NEW i \in withReceipt(o)
  PROVE  says(classifyReconciliation(o, n, depth)) = IF o[i].receipt.success THEN "success" ELSE "reverted"
<1> DEFINE first == CHOOSE k \in withReceipt(o) : \A j \in withReceipt(o) : k <= j
<1>1. withReceipt(o) \subseteq Sources
  BY DEF withReceipt, usable
<1>2. \E k \in withReceipt(o) : \A j \in withReceipt(o) : k <= j
  BY <1>1 DEF Sources
<1>3. first \in withReceipt(o)
  BY <1>2
<1> HIDE DEF first
<1>4. firstReceipt(o) = o[first]
  BY DEF firstReceipt, first
<1>5. o[first].receipt.success = o[i].receipt.success
  BY <1>3 DEF conflict
<1> DEFINE settled == confirmations(firstReceipt(o)) >= depth
<1>6. classifyReconciliation(o, n, depth) =
        IF o[first].receipt.success THEN IF settled THEN "CONFIRMED_SUCCESS" ELSE "PROVISIONAL_SUCCESS"
        ELSE IF settled THEN "CONFIRMED_REVERTED" ELSE "PROVISIONAL_REVERTED"
  <2>1. withReceipt(o) # {}
    OBVIOUS
  <2> QED
    BY <1>4, <2>1 DEF classifyReconciliation
<1> HIDE DEF settled
<1> QED
  BY <1>5, <1>6 DEF says

LEMMA WithoutReceipt ==
  ASSUME NEW o, NEW n, NEW depth, ~conflict(o), withReceipt(o) = {}
  PROVE  classifyReconciliation(o, n, depth) =
           IF \E i \in usable(o) : o[i].transaction THEN "PENDING"
           ELSE IF nonceConsumed(o, n) THEN "NONCE_CONFLICT"
           ELSE IF untouchedNonce(o, n) THEN "NOT_OBSERVED" ELSE "UNKNOWN"
BY DEF classifyReconciliation

LEMMA Conflicting ==
  ASSUME NEW o, NEW n, NEW depth, conflict(o)
  PROVE  classifyReconciliation(o, n, depth) = "CONFLICT"
<1>1. withReceipt(o) # {}
  BY DEF conflict
<1> QED
  BY <1>1 DEF classifyReconciliation

LEMMA OrderLeaves == Observed => OrderDecidesNothing
<1> SUFFICES ASSUME Observed PROVE OrderDecidesNothing
  OBVIOUS
<1> DEFINE t == Turned(obs)
<1>1. DOMAIN obs = Sources
  BY ViewTypes
<1>2. /\ DOMAIN t = Sources /\ \A i \in Sources : 3 - i \in Sources /\ 3 - (3 - i) = i /\ t[i] = obs[3 - i]
      /\ usable(obs) \subseteq Sources /\ withReceipt(obs) \subseteq usable(obs)
      /\ usable(t) = Mirror(usable(obs)) /\ withReceipt(t) = Mirror(withReceipt(obs))
  BY <1>1, TurnedSets
<1> HIDE DEF t
<1>3. /\ \A i \in usable(t) : 3 - i \in usable(obs) /\ t[i] = obs[3 - i]
      /\ \A i \in usable(obs) : 3 - i \in usable(t) /\ obs[i] = t[3 - i]
      /\ \A i \in withReceipt(t) : 3 - i \in withReceipt(obs) /\ t[i] = obs[3 - i]
      /\ \A i \in withReceipt(obs) : 3 - i \in withReceipt(t) /\ obs[i] = t[3 - i]
  BY <1>2 DEF Mirror
<1>4. conflict(obs) <=> conflict(t)
  BY <1>3 DEF conflict
<1>5. CASE conflict(obs)
  <2>1. outcome(obs) = "CONFLICT" /\ outcome(t) = "CONFLICT"
    BY <1>4, <1>5, Conflicting DEF outcome
  <2> QED
    BY <2>1 DEF OrderDecidesNothing, t, Turned
<1>6. CASE ~conflict(obs) /\ withReceipt(obs) # {}
  <2>1. PICK i \in withReceipt(obs) : TRUE
    BY <1>6
  <2>2. 3 - i \in withReceipt(t) /\ obs[i] = t[3 - i]
    BY <1>3
  <2>3. says(outcome(obs)) = IF obs[i].receipt.success THEN "success" ELSE "reverted"
    BY <1>1, <1>6, ReceiptSays DEF outcome
  <2>4. says(outcome(t)) = IF t[3 - i].receipt.success THEN "success" ELSE "reverted"
    BY <1>2, <1>4, <1>6, <2>2, ReceiptSays DEF outcome
  <2>5. says(outcome(obs)) = says(outcome(t))
    BY <2>2, <2>3, <2>4
  <2> QED
    BY <2>5 DEF OrderDecidesNothing, t, Turned
<1>7. CASE ~conflict(obs) /\ withReceipt(obs) = {}
  <2>1. withReceipt(t) = {}
    BY <1>3, <1>7
  <2>2. (\E i \in usable(obs) : obs[i].transaction) <=> (\E i \in usable(t) : t[i].transaction)
    BY <1>3
  <2>3. nonceConsumed(obs, Nonce) <=> nonceConsumed(t, Nonce)
    BY <1>3 DEF nonceConsumed
  <2>4. untouchedNonce(obs, Nonce) <=> untouchedNonce(t, Nonce)
    <3>1. Cardinality(usable(t)) = Cardinality(usable(obs))
      BY <1>2, MirrorSize
    <3> QED
      BY <1>3, <3>1 DEF untouchedNonce
  <2>5. outcome(obs) = outcome(t)
    BY <1>4, <1>7, <2>1, <2>2, <2>3, <2>4, WithoutReceipt DEF outcome
  <2> QED
    BY <2>5 DEF OrderDecidesNothing, t, Turned
<1> QED
  BY <1>5, <1>6, <1>7

(* Two readers never let an operator both close and resend a mutation, a trace  *)
(* either shows keeps it open, and their order decides nothing, whatever they    *)
(* return; and what is read of an audit ledger, in chunks of any size, across    *)
(* lines cut short and files replaced, is what is in it until a read throws.     *)
THEOREM ReadersAgree == Spec => []ReadersDecide
<1> DEFINE ReadInv == Observed /\ (part = "audit" => AuditInv)
<1>1. Init => ReadInv
  BY ObservedInit, AuditInit
<1>2. ReadInv /\ [Next]_vars => ReadInv'
  <2> SUFFICES ASSUME ReadInv, [Next]_vars, part = "audit" PROVE AuditInv'
    BY ObservedStep, PartStep
  <2>1. CASE Audit!ReaderNext
    BY <2>1, AuditKept
  <2>2. CASE UNCHANGED auditVars
    <3>1. UNCHANGED <<auditFile, writer, reader>>
      BY <2>2 DEF auditVars
    <3> QED
      BY <3>1 DEF AuditInv
  <2> QED
    BY <2>1, <2>2, PartStep
<1>3. ReadInv => ReadersDecide
  BY NotBoth, OrderLeaves, AuditHolds DEF ReadersDecide
<1> QED
  BY <1>1, <1>2, <1>3, PTL DEF Spec

LEMMA LimitsBegin == ASSUME Init PROVE LimitsInv
<1>0. LimitsAssumption /\ ProgramsAssumption
  BY LimitsAssumption, ProgramsAssumption
<1>1. Streak(FixedErrors) /\ Streak(RetryErrors)
  <2>1. watch = Fixed!NoWatch
    BY DEF Init, Fixed!LaneInit
  <2> QED
    BY <1>0, <2>1 DEF LimitsAssumption, Streak, Stages, Fixed!NoWatch
<1>2. TxsShaped
  <2>1. txs = <<>>
    BY DEF Init, Fixed!LaneInit
  <2>2. txs \in Seq({}) /\ DOMAIN txs = {}
    BY <2>1
  <2> QED
    BY <2>2 DEF TxsShaped
<1>3. ASSUME part = "leases" PROVE MutsShaped /\ Announced(LeaseAuths)
  <2>1. /\ muts = [i \in 1 .. LeaseMuts |-> Leases!NoMut] /\ count = 0
        /\ issued = 0 /\ revoked = {} /\ marker = 0
    BY <1>3 DEF Init, Leases!LaneInit, Leases!Muts
  <2>2. MutShape(Leases!NoMut)
    BY DEF MutShape, Leases!NoMut
  <2>3. LeaseMuts \in Nat /\ LeaseAuths \in Nat
    BY <1>0 DEF LimitsAssumption
  <2>4. MutsShaped
    BY <2>1, <2>2, <2>3 DEF MutsShaped
  <2> QED
    BY <2>1, <2>3, <2>4 DEF Announced
<1>4. ASSUME part = "shots" PROVE Announced(ShotAuths)
  <2>1. issued = 0 /\ revoked = {} /\ marker = 0
    BY <1>4 DEF Init, Shots!LaneInit
  <2>2. ShotAuths \in Nat
    BY <1>0 DEF LimitsAssumption
  <2> QED
    BY <2>1, <2>2 DEF Announced
<1>5. LostBound
  <2>1. lost = 0
    BY DEF Init, Exclusion!ExclusionInit
  <2> QED
    BY <1>0, <2>1 DEF LimitsAssumption, LostBound
<1>6. GlobalBounds
  <2>1. /\ raws = <<>> /\ authority = [id |-> 0, live |-> FALSE] /\ command = Global!NoRun /\ globalKills = 0
    BY DEF Init, Global!GlobalInit
  <2>2. Len(raws) = 0 /\ DOMAIN raws = {} /\ authority.id = 0
    BY <2>1
  <2>3. command.auth = 0 /\ command.plan.minimum = 0
    BY <2>1 DEF Global!NoRun
  <2> QED
    BY <1>0, <2>1, <2>2, <2>3 DEF LimitsAssumption, ProgramsAssumption, GlobalBounds
<1>7. CollectorBounds
  <2>1. /\ signed = <<>> /\ funds \in [Targets -> 0 .. 1] /\ lock = "free" /\ gifts = 0 /\ collectorKills = 0
        /\ collecting = Collecting!NoRun
    BY DEF Init, Collecting!CollectorInit, Targets
  <2>2. Len(signed) = 0 /\ \A t \in Targets : funds[t] <= 1
    BY <2>1
  <2>3. collecting.pc = "off"
    BY <2>1 DEF Collecting!NoRun
  <2> QED
    BY <1>0, <2>1, <2>2, <2>3 DEF LimitsAssumption, CollectorBounds
<1> QED
  BY <1>1, <1>2, <1>3, <1>4, <1>5, <1>6, <1>7, LeaseInvInit DEF LimitsInv

(* A program whose turn it is not to move keeps what it has. *)
LEMMA LimitsStand ==
  /\ \A limit : Streak(limit) /\ UNCHANGED fixedVars => Streak(limit)'
  /\ TxsShaped /\ UNCHANGED fixedVars => TxsShaped'
  /\ LeaseInv /\ MutsShaped /\ UNCHANGED genericVars => LeaseInv' /\ MutsShaped'
  /\ \A n : Announced(n) /\ UNCHANGED genericVars => Announced(n)'
  /\ LostBound /\ UNCHANGED exclusionVars => LostBound'
  /\ GlobalBounds /\ UNCHANGED globalVars => GlobalBounds'
  /\ CollectorBounds /\ UNCHANGED collectorVars => CollectorBounds'
<1>1. \A limit : Streak(limit) /\ UNCHANGED fixedVars => Streak(limit)'
  BY DEF fixedVars, Streak
<1>2. TxsShaped /\ UNCHANGED fixedVars => TxsShaped'
  BY DEF fixedVars, TxsShaped
<1>3. LeaseInv /\ MutsShaped /\ UNCHANGED genericVars => LeaseInv' /\ MutsShaped'
  BY DEF genericVars, LeaseInv, AuthShape, KeeperShape, DisarmShape, Dead, MutsShaped
<1>4. \A n : Announced(n) /\ UNCHANGED genericVars => Announced(n)'
  BY DEF genericVars, Announced
<1>5. LostBound /\ UNCHANGED exclusionVars => LostBound'
  BY DEF exclusionVars, LostBound
<1>6. GlobalBounds /\ UNCHANGED globalVars => GlobalBounds'
  BY DEF globalVars, GlobalBounds
<1>7. CollectorBounds /\ UNCHANGED collectorVars => CollectorBounds'
  BY DEF collectorVars, CollectorBounds
<1> QED
  BY <1>1, <1>2, <1>3, <1>4, <1>5, <1>6, <1>7

LEMMA LimitsKept == ASSUME ProgramsInv, LimitsInv, [Next]_vars PROVE LimitsInv'
<1>0. /\ FixedErrors \in Nat \ {0} /\ RetryErrors \in Nat \ {0}
  BY LimitsAssumption DEF LimitsAssumption
<1>1. ASSUME part = "fixed" PROVE Streak(FixedErrors)'
  BY <1>0, <1>1, PartStep, LimitsStand, FixedWatches, StreakStep DEF LimitsInv
<1>2. ASSUME part = "retries" PROVE Streak(RetryErrors)' /\ TxsShaped'
  BY <1>0, <1>2, PartStep, LimitsStand, RetryWatches, StreakStep, RetryTxs DEF LimitsInv
<1>3. ASSUME part = "leases" PROVE LeaseInv' /\ MutsShaped' /\ Announced(LeaseAuths)'
  <2>1. LeaseInv /\ MutsShaped /\ Announced(LeaseAuths) /\ AuthShape(auth)
    BY <1>3 DEF LimitsInv, LeaseInv
  <2> QED
    BY <1>3, <2>1, PartStep, LimitsStand, LeaseInvStep, LeaseMutsKept, LeasesAnnounce
<1>4. ASSUME part = "shots" PROVE Announced(ShotAuths)'
  <2>1. Announced(ShotAuths) /\ AuthShape(auth)
    BY <1>4 DEF LimitsInv, ProgramsInv, ShotInv, ShotTypes
  <2> QED
    BY <1>4, <2>1, PartStep, LimitsStand, ShotsAnnounce
<1>5. ASSUME part = "exclusion" PROVE LostBound'
  BY <1>5, PartStep, LimitsStand, LostStep DEF LimitsInv
<1>6. ASSUME part = "global" PROVE GlobalBounds'
  BY <1>6, PartStep, LimitsStand, GlobalBoundsStep DEF LimitsInv, ProgramsInv
<1>7. ASSUME part = "collector" PROVE CollectorBounds'
  BY <1>7, PartStep, LimitsStand, CollectorBoundsStep DEF LimitsInv, ProgramsInv
<1> QED
  BY <1>1, <1>2, <1>3, <1>4, <1>5, <1>6, <1>7, PartStep DEF LimitsInv

LEMMA LanesTyped ==
  /\ ExclusionInv /\ LostBound => Exclusion!ExclusionTypeOK
  /\ FixedInv /\ Streak(FixedErrors) => Fixed!LaneTypeOK
  /\ TxsShaped /\ Streak(RetryErrors) => Retries!LaneTypeOK
  /\ MutsShaped /\ Announced(LeaseAuths) => Leases!GenericTypeOK
  /\ ShotTypes /\ Announced(ShotAuths) => Shots!GenericTypeOK
<1>1. ExclusionInv /\ LostBound => Exclusion!ExclusionTypeOK
  BY DEF ExclusionInv, LostBound, Exclusion!ExclusionTypeOK, Programs, Locks, Exclusion!Lane
<1>2. ASSUME FixedInv, Streak(FixedErrors) PROVE Fixed!LaneTypeOK
  <2>1. \A i \in DOMAIN txs : txs[i] \in TxRecord
    BY <1>2 DEF FixedInv, FixedTypes
  <2> QED
    BY <1>2, <2>1 DEF TxRecord, Streak, Stages, Fixed!LaneTypeOK
<1>3. TxsShaped /\ Streak(RetryErrors) => Retries!LaneTypeOK
  BY DEF TxsShaped, TxShape, Streak, Stages, Retries!LaneTypeOK
<1>4. ASSUME MutsShaped, Announced(LeaseAuths) PROVE Leases!GenericTypeOK
  <2>1. marker \in 0 .. LeaseAuths /\ revoked \subseteq 1 .. LeaseAuths
    BY <1>4, LimitsAssumption DEF LimitsAssumption, Announced
  <2> QED
    BY <1>4, <2>1 DEF MutsShaped, MutShape, Leases!GenericTypeOK, Leases!Muts
<1>5. ASSUME ShotTypes, Announced(ShotAuths) PROVE Shots!GenericTypeOK
  <2>1. marker \in 0 .. ShotAuths /\ revoked \subseteq 1 .. ShotAuths
    BY <1>5, LimitsAssumption DEF LimitsAssumption, Announced
  <2>2. \A i \in 1 .. ShotMuts : muts[i] \in MutRecord
    BY <1>5 DEF ShotTypes
  <2> QED
    BY <1>5, <2>1, <2>2 DEF ShotTypes, MutRecord, Shots!GenericTypeOK, Shots!Muts
<1> QED
  BY <1>1, <1>2, <1>3, <1>4, <1>5

(* For any bounds, limits and budgets: every program keeps its types, an        *)
(* authorization it names was issued, a floor it signs lies within the market,  *)
(* a wallet lock is held by whoever works under it, and a watcher ends at the   *)
(* limit of its errors.                                                         *)
THEOREM ProgramsTyped == Spec => []ProgramsTypeOK
<1> DEFINE Inv == ExclusionInv /\ ProgramsInv /\ LimitsInv /\ (part = "audit" => AuditInv)
<1>1. Init => Inv
  BY ExclusionInvInit, ProgramsInvInit, LimitsBegin, AuditInit DEF Init
<1>2. Inv /\ [Next]_vars => Inv'
  <2> SUFFICES ASSUME Inv, [Next]_vars PROVE Inv'
    OBVIOUS
  <2>1. ASSUME part = "audit" PROVE AuditInv'
    <3>1. CASE UNCHANGED auditVars
      <4>1. UNCHANGED <<auditFile, writer, reader>>
        BY <3>1 DEF auditVars
      <4> QED
        BY <2>1, <4>1 DEF AuditInv
    <3> QED
      BY <2>1, <3>1, AuditKept, PartStep
  <2> QED
    BY <2>1, ExclusionInvStep, ProgramsInvStep, LimitsKept, PartStep
<1>3. Inv => ProgramsTypeOK
  BY LanesTyped, GlobalTyped, CollectorTyped, AuditHolds DEF ProgramsTypeOK, LimitsInv, ProgramsInv, ShotInv
<1> QED
  BY <1>1, <1>2, <1>3, PTL DEF Spec

===============================================================================
