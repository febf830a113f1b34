----------------------------- MODULE LaneExclusion -----------------------------
(* The fixed-route and the generic-v2 programs share a wallet.  Each has a     *)
(* watch lock and an arm file of its own, and both use wallet.lock; before it  *)
(* does anything a program takes its own lock and then looks at the arm and    *)
(* the watch lock of the other lane.  A lock file exists before its PID is in  *)
(* it; here a lock that is held is not taken over (WalletLock tells when it    *)
(* can be).                                                                    *)
EXTENDS Naturals, FiniteSets

CONSTANT MaxLost   \* bound: programs killed

Lane == {"fixed", "generic"}
Role == {"watch", "arm", "command"}
Program == Lane \X Role
Lock == Lane \cup {"wallet"}

VARIABLES
  pc,      \* how far a program is: off, opened, locked, checked, signing
  file,    \* a lock file: absent, empty, pid (of a live or a dead process)
  holder,  \* the program that created it, or none when that one is gone
  armed,   \* the lane's arm says ARMED and has not expired
  lost

exclusionVars == <<pc, file, holder, armed, lost>>

Nobody == <<"none", "none">>

ExclusionInit ==
  /\ pc = [p \in Program |-> "off"]
  /\ file = [l \in Lock |-> "absent"] /\ holder = [l \in Lock |-> Nobody]
  /\ armed = [l \in Lane |-> FALSE]
  /\ lost = 0

other(lane) == IF lane = "fixed" THEN "generic" ELSE "fixed"

(* The locks a program holds while it works: a watcher and an arm command the  *)
(* lane's watch lock, the generic arm also wallet.lock, a command wallet.lock. *)
own(p) == IF p[2] = "command" THEN "wallet" ELSE p[1]
second(p) == IF p = <<"generic", "arm">> THEN {"wallet"} ELSE {}

takable(l) == file[l] = "absent" \/ holder[l] = Nobody
takes(p, ls, content) ==
  /\ file' = [l \in Lock |-> IF l \in ls THEN content ELSE file[l]]
  /\ holder' = [l \in Lock |-> IF l \in ls THEN p ELSE holder[l]]
drops(p, ls) ==
  /\ file' = [l \in Lock |-> IF l \in ls /\ holder[l] = p THEN "absent" ELSE file[l]]
  /\ holder' = [l \in Lock |-> IF l \in ls /\ holder[l] = p THEN Nobody ELSE holder[l]]

(* open(wx), or unlink and open again when nobody alive is named; then the PID. *)
OpenLock(p) ==
  /\ pc[p] = "off" /\ takable(own(p))
  /\ takes(p, {own(p)}, "empty")
  /\ pc' = [pc EXCEPT ![p] = "opened"]
  /\ UNCHANGED <<armed, lost>>

WritePid(p) ==
  /\ pc[p] = "opened"
  /\ file' = [file EXCEPT ![own(p)] = "pid"]
  /\ pc' = [pc EXCEPT ![p] = "locked"]
  /\ UNCHANGED <<holder, armed, lost>>

(* Mutant: the other lane's arm is looked at, its lock is not. *)
armedOnly(lane) == armed[lane]

(* signerLaneConflict: an active arm, a lock without a PID, or a live holder.  *)
laneConflict(lane) ==
  armed[lane] \/ file[lane] = "empty" \/ (file[lane] = "pid" /\ holder[lane] # Nobody)

(* The generic arm takes wallet.lock before it looks; a watcher serves only    *)
(* under its own arm, and a generic execution by hand needs its lane disarmed. *)
mayProceed(p) ==
  /\ ~laneConflict(other(p[1]))
  /\ p[2] = "watch" => armed[p[1]]
  /\ p = <<"generic", "command">> => ~armed["generic"]

CheckLane(p) ==
  /\ pc[p] = "locked" /\ mayProceed(p)
  /\ \A l \in second(p) : takable(l)
  /\ takes(p, second(p), "pid")
  /\ pc' = [pc EXCEPT ![p] = IF p[2] = "command" THEN "signing" ELSE "checked"]
  /\ UNCHANGED <<armed, lost>>

WriteArm(p) ==
  /\ pc[p] = "checked" /\ p[2] = "arm"
  /\ armed' = [armed EXCEPT ![p[1]] = TRUE]
  /\ pc' = [pc EXCEPT ![p] = "off"]
  /\ drops(p, Lock)
  /\ UNCHANGED lost

(* The watcher's execute takes wallet.lock and looks at the other lane again.  *)
maySign(p) == takable("wallet") /\ ~laneConflict(other(p[1]))

WatchSigns(p) ==
  /\ pc[p] = "checked" /\ p[2] = "watch"
  /\ maySign(p)
  /\ takes(p, {"wallet"}, "pid")
  /\ pc' = [pc EXCEPT ![p] = "signing"]
  /\ UNCHANGED <<armed, lost>>

WatchSigned(p) ==
  /\ pc[p] = "signing" /\ p[2] = "watch"
  /\ drops(p, {"wallet"})
  /\ pc' = [pc EXCEPT ![p] = "checked"]
  /\ UNCHANGED <<armed, lost>>

(* A program ends, refused or done, and releases what it holds. *)
Leave(p) ==
  /\ pc[p] \in {"locked", "checked"} \/ (pc[p] = "signing" /\ p[2] = "command")
  /\ drops(p, Lock)
  /\ pc' = [pc EXCEPT ![p] = "off"]
  /\ UNCHANGED <<armed, lost>>

(* Disarmed or expired. *)
Unarm(lane) ==
  /\ armed[lane]
  /\ armed' = [armed EXCEPT ![lane] = FALSE]
  /\ UNCHANGED <<pc, file, holder, lost>>

(* Killed: the lock files stay, with a dead PID or with none. *)
LoseProgram(p) ==
  /\ pc[p] # "off" /\ lost < MaxLost
  /\ lost' = lost + 1
  /\ pc' = [pc EXCEPT ![p] = "off"]
  /\ holder' = [l \in Lock |-> IF holder[l] = p THEN Nobody ELSE holder[l]]
  /\ UNCHANGED <<file, armed>>

ExclusionNext ==
  \/ \E p \in Program : \/ OpenLock(p) \/ WritePid(p) \/ CheckLane(p) \/ WriteArm(p)
                        \/ WatchSigns(p) \/ WatchSigned(p) \/ Leave(p) \/ LoseProgram(p)
  \/ \E lane \in Lane : Unarm(lane)

ExclusionSpec == ExclusionInit /\ [][ExclusionNext]_exclusionVars

--------------------------------------------------------------------------------
(* Properties *)

ExclusionTypeOK ==
  /\ pc \in [Program -> {"off", "opened", "locked", "checked", "signing"}]
  /\ file \in [Lock -> {"absent", "empty", "pid"}]
  /\ holder \in [Lock -> Program \cup {Nobody}]
  /\ armed \in [Lane -> BOOLEAN] /\ lost \in 0 .. MaxLost

Past(lane) == \E role \in {"watch", "arm"} : pc[<<lane, role>>] \in {"checked", "signing"}

(* The two lanes never serve together, and are never armed together, although   *)
(* each looks at files the other writes while it starts, is killed or expires.  *)
LanesExclusive == ~(Past("fixed") /\ Past("generic")) /\ ~(armed["fixed"] /\ armed["generic"])

(* Who signs, signs alone, and not while the other lane is armed.  The generic  *)
(* commands are left out of the second part: the fixed arm takes no wallet.lock *)
(* and can be written while one of them is under way.                           *)
SignsAlone ==
  LET signing == {p \in Program : pc[p] = "signing"} IN
  /\ Cardinality(signing) <= 1
  /\ \A p \in signing \ {<<"generic", "command">>} : ~armed[other(p[1])]
================================================================================
