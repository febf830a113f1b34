--------------------------------- MODULE Wakes ---------------------------------
(* What the watcher runs beside the signing: the Earn event sources, the        *)
(* resident search worker, and the lock files its processes take.  They share   *)
(* no variable here; a behaviour is one of a single part, the rest stands still. *)
EXTENDS ResidentSearch, EarnEvents, WalletLock

VARIABLE part

wakeVars == <<part, vars, eventVars, lockVars>>

WakesInit ==
  /\ Init /\ EventsInit /\ LockInit
  /\ part = "search" \/ (part \in {"events", "lock"} /\ child = 1)

SearchStep == part = "search" /\ Next /\ UNCHANGED <<part, eventVars, lockVars>>
EventsStep == part = "events" /\ EventsNext /\ UNCHANGED <<part, vars, lockVars>>
LockStep == part = "lock" /\ LockNext /\ UNCHANGED <<part, vars, eventVars>>

WakesNext == SearchStep \/ EventsStep \/ LockStep

(* The fairness each module states, for the part that runs. *)
WakesSpec ==
  /\ WakesInit /\ [][WakesNext]_wakeVars
  /\ WF_vars(part = "search" /\ Restart) /\ WF_vars(part = "search" /\ Deadline)
  /\ WF_vars(part = "search" /\ \E a \in answers : Consume(a))
  /\ WF_vars(part = "search" /\ \E g \in closing : Close(g))
  /\ WF_vars(part = "search" /\ \E fresh \in BOOLEAN : Claim(fresh))
  /\ WF_eventVars(part = "events" /\ \E accepted \in BOOLEAN : Start(accepted))
  /\ WF_eventVars(part = "events" /\ PollStart)
  /\ SF_eventVars(part = "events" /\ PollHead(head)) /\ SF_eventVars(part = "events" /\ PollLogs)
  /\ \A p \in Procs : WF_lockVars(part = "lock" /\ pc[p] # "start" /\ Acquire(p))

(* Every part keeps its types. *)
WakesTypeOK == TypeOK /\ EventsTypeOK /\ LockTypeOK
================================================================================
