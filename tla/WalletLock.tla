------------------------------ MODULE WalletLock ------------------------------
(* wallet.lock (and dual-watch.lock, taken the same way): a file created        *)
(* exclusively, then filled with the creator's pid; who finds it there reads    *)
(* the pid, and takes the file over when no live process has that pid.  Each    *)
(* process is one command, child or watcher, and takes the lock once; SharedSigner *)
(* takes it in one step, this module in the system calls it is made of.         *)
EXTENDS FiniteSets

CONSTANTS
  Procs,     \* processes
  Nobody     \* no process: no file, or no pid in it

ASSUME NobodyAssumption == Nobody \notin Procs

VARIABLES
  file,      \* whose file the path names: the process that created it
  written,   \* written[p]: p's pid is in the file p created
  pc,        \* what p does next
  seen,      \* seen[p]: the pid p read in the file it found
  took       \* took[p]: p removed a file it had found

lockVars == <<file, written, pc, seen, took>>

LockInit ==
  /\ file = Nobody
  /\ written = [p \in Procs |-> FALSE]
  /\ pc = [p \in Procs |-> "start"]
  /\ seen = [p \in Procs |-> Nobody]
  /\ took = [p \in Procs |-> FALSE]

Ended == {"refused", "released", "dead"}

processIsAlive(p) == p # Nobody /\ pc[p] \notin Ended

(* The pid in the file, nobody while it is empty or absent. *)
lockHolder == IF file # Nobody /\ written[file] THEN file ELSE Nobody

(* Mutant: an empty file belongs to a process that is about to fill it. *)
cautious ==
  IF processIsAlive(lockHolder) \/ (file # Nobody /\ lockHolder = Nobody) THEN "refused" ELSE "stale"

(* Mutant: whoever is not the finder is presumed dead. *)
presumed == "stale"

(* What the process does about the file it found. *)
judgement == IF processIsAlive(lockHolder) THEN "refused" ELSE "stale"

(* open(file, "wx"): creates the file, or fails because there is one. *)
exclusiveOpen(p, otherwise) ==
  IF file = Nobody THEN /\ file' = p
                        /\ pc' = [pc EXCEPT ![p] = "created"]
  ELSE /\ pc' = [pc EXCEPT ![p] = otherwise]
       /\ UNCHANGED file

Open(p) ==
  /\ pc[p] = "start"
  /\ exclusiveOpen(p, "found")
  /\ UNCHANGED <<written, seen, took>>

Inspect(p) ==
  /\ pc[p] = "found"
  /\ seen' = [seen EXCEPT ![p] = lockHolder]
  /\ pc' = [pc EXCEPT ![p] = judgement]
  /\ UNCHANGED <<file, written, took>>

(* unlink names the path: it removes whatever file is there by now, and throws *)
(* when there is none.                                                         *)
Unlink(p) ==
  /\ pc[p] = "stale"
  /\ file' = Nobody
  /\ pc' = [pc EXCEPT ![p] = IF file = Nobody THEN "refused" ELSE "unlinked"]
  /\ took' = [took EXCEPT ![p] = @ \/ file # Nobody]
  /\ UNCHANGED <<written, seen>>

Reopen(p) ==
  /\ pc[p] = "unlinked"
  /\ exclusiveOpen(p, "refused")
  /\ UNCHANGED <<written, seen, took>>

(* Written through the descriptor, wherever the path points by now. *)
WritePid(p) ==
  /\ pc[p] = "created"
  /\ written' = [written EXCEPT ![p] = TRUE]
  /\ pc' = [pc EXCEPT ![p] = "held"]
  /\ UNCHANGED <<file, seen, took>>

(* The release function: unlink by path again, and errors ignored. *)
Release(p) ==
  /\ pc[p] = "held"
  /\ file' = Nobody
  /\ pc' = [pc EXCEPT ![p] = "released"]
  /\ UNCHANGED <<written, seen, took>>

Crash(p) ==
  /\ pc[p] \notin Ended \cup {"start"}
  /\ pc' = [pc EXCEPT ![p] = "dead"]
  /\ UNCHANGED <<file, written, seen, took>>

Acquire(p) == Open(p) \/ Inspect(p) \/ Unlink(p) \/ Reopen(p) \/ WritePid(p)

LockNext == \E p \in Procs : Acquire(p) \/ Release(p) \/ Crash(p)

LockSpec == LockInit /\ [][LockNext]_lockVars

(* A process that is taking the lock goes on; nobody need ever start. *)
LockFairSpec == LockSpec /\ \A p \in Procs : WF_lockVars(pc[p] # "start" /\ Acquire(p))

-------------------------------------------------------------------------------
(* Properties *)

PCs == {"start", "found", "stale", "unlinked", "created", "held"} \cup Ended

(* Every variable keeps its type. *)
LockTypeOK ==
  /\ file \in Procs \cup {Nobody}
  /\ written \in [Procs -> BOOLEAN]
  /\ pc \in [Procs -> PCs]
  /\ seen \in [Procs -> Procs \cup {Nobody}]
  /\ took \in [Procs -> BOOLEAN]

Holds(p) == pc[p] = "held"

(* One process at a time signs under wallet.lock. *)
MutualExclusion == \A p, q \in Procs : Holds(p) /\ Holds(q) => p = q

(* Two processes hold the lock together only after somebody took a file over:  *)
(* as long as every holder releases and is found with its pid in the file, the *)
(* lock excludes.                                                              *)
ExclusiveWithoutTakeover == (\A p \in Procs : ~took[p]) => MutualExclusion

(* A file with the pid of a live process in it is removed only by that process *)
(* or by one that examined an earlier state of the path (empty, absent, or     *)
(* somebody else's): a stale judgement of the very file it removes never is.   *)
RemovesOnlyTheDead ==
  [][\A p \in Procs :
       (pc[p] = "stale" /\ pc'[p] = "unlinked" /\ processIsAlive(lockHolder)) => seen[p] # file]_lockVars

(* Both: when the lock excludes, and whose files it removes. *)
LockDiscipline == []ExclusiveWithoutTakeover /\ RemovesOnlyTheDead

(* A file left by crashed processes, even an empty one, keeps nobody out: who  *)
(* finds it with every other process gone takes the lock, unless it crashes.   *)
FindsLeftover(p) == pc[p] = "found" /\ file # Nobody /\ \A q \in Procs \ {p} : pc[q] \in Ended
LeftoverTaken == \A p \in Procs : FindsLeftover(p) ~> (Holds(p) \/ pc[p] \in {"dead", "released"})

===============================================================================
