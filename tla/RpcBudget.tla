-------------------------------- MODULE RpcBudget --------------------------------
(* The budgets of calls to the managed RPC endpoint.  A search falls back to it   *)
(* when the public one fails, within an allowance per wake and one per day; the   *)
(* board quotes executor-shaped events through it, within one per day.  The       *)
(* day's budget is read from its file once by each process that uses it, and      *)
(* written whole with every debit.                                                *)
EXTENDS Naturals, FiniteSets

CONSTANTS
  Searcher,   \* processes that search, each wake with an allowance
  Resident,   \* of these, the one that serves one wake after the other
  Quoting,    \* the process of the board
  WakeCap, DailyCap, EventCap,
  Batch,      \* logical calls in one HTTP body
  MaxDay      \* bound: UTC days

VARIABLES
  day,
  file,     \* the budget file: its day, the events admitted and the calls made
  mine,     \* mine[p]: the budget as process p knows it, or Closed
  wake,     \* wake[p]: calls debited from the allowance of p's wake
  routed,   \* the board's cycle may use the managed endpoint
  sent,     \* calls sent to the managed endpoint today
  shared    \* today a process made calls while another one had the file open

budgetVars == <<day, file, mine, wake, routed, sent, shared>>

Process == Searcher \cup Quoting
Budget(d) == [day |-> d, admitted |-> 0, used |-> 0]
Closed == Budget(0)

BudgetInit ==
  /\ day = 1 /\ file = Budget(0) /\ mine = [p \in Process |-> Closed]
  /\ wake = [p \in Searcher |-> 0] /\ routed = FALSE /\ sent = 0 /\ shared = FALSE

(* The constructor reads the file; a budget of another day is a new one. *)
known(p) == IF mine[p] = Closed THEN file ELSE mine[p]
refreshDay(p) == IF known(p).day = day THEN known(p) ELSE Budget(day)

(* Mutant: the budget of the day before is used up first. *)
staleDay(p) == known(p)

(* onChange writes what p knows over whatever the file holds. *)
keeps(p, budget) ==
  /\ mine' = [mine EXCEPT ![p] = budget]
  /\ file' = IF budget = known(p) THEN file ELSE budget

(* consumeLogicalCalls *)
affords(budget, n) == budget.used + n <= DailyCap
debit(p, n) ==
  /\ keeps(p, [refreshDay(p) EXCEPT !.used = @ + n])
  /\ sent' = sent + n
  /\ shared' = (shared \/ \E q \in Process \ {p} : mine[q] # Closed)

--------------------------------------------------------------------------------
(* A search's fallback *)

BeginWake(p) ==
  /\ p \in Resident /\ wake' = [wake EXCEPT ![p] = 0]
  /\ UNCHANGED <<day, file, mine, routed, sent, shared>>

(* The wake's allowance comes first: what it refuses costs the day nothing.       *)
allows(p, n) == wake[p] + n <= WakeCap
consumeNestedLogicalCallBudgets(p, n) ==
  IF ~allows(p, n) THEN UNCHANGED <<mine, file, wake, sent, shared>>
  ELSE /\ wake' = [wake EXCEPT ![p] = @ + n]
       /\ IF affords(refreshDay(p), n) THEN debit(p, n)
          ELSE keeps(p, refreshDay(p)) /\ UNCHANGED <<sent, shared>>

(* The public endpoint failed in a way that says nothing of the chain. *)
FallBack(p, n) == consumeNestedLogicalCallBudgets(p, n) /\ UNCHANGED <<day, routed>>

--------------------------------------------------------------------------------
(* The board's cycle *)

(* Only events of candidates an executor could take; what the managed endpoint    *)
(* is refused, and every periodic cycle, stays public.                            *)
ExecutorShape == 1
selectHotRpcLane(priority) == priority >= ExecutorShape
admitEventCandidates(budget, n) == budget.used < DailyCap /\ budget.admitted + n <= EventCap

BeginCycle(p, priority, n) ==
  LET budget == refreshDay(p)
      selected == selectHotRpcLane(priority)
      admitted == selected /\ admitEventCandidates(budget, n) IN
  /\ routed' = admitted
  /\ IF admitted THEN keeps(p, [budget EXCEPT !.admitted = @ + n])
     ELSE IF selected THEN keeps(p, budget) ELSE UNCHANGED <<mine, file>>
  /\ UNCHANGED <<day, wake, sent, shared>>

(* A call the day does not afford goes to the public endpoint, with the rest of   *)
(* the cycle.                                                                     *)
QuoteCall(p, n) ==
  /\ routed
  /\ IF affords(refreshDay(p), n) THEN debit(p, n) /\ UNCHANGED routed
     ELSE keeps(p, refreshDay(p)) /\ routed' = FALSE /\ UNCHANGED <<sent, shared>>
  /\ UNCHANGED <<day, wake>>

(* fallBackFromHotRpc: the managed endpoint failed. *)
LeaveHot ==
  /\ routed /\ routed' = FALSE
  /\ UNCHANGED <<day, file, mine, wake, sent, shared>>

--------------------------------------------------------------------------------
(* A process ends, and another begins in its place. *)
Restart(p) ==
  /\ mine' = [mine EXCEPT ![p] = Closed]
  /\ wake' = [q \in Searcher |-> IF q = p THEN 0 ELSE wake[q]]
  /\ routed' = (routed /\ p \notin Quoting)
  /\ UNCHANGED <<day, file, sent, shared>>

Midnight ==
  /\ day < MaxDay /\ day' = day + 1 /\ sent' = 0 /\ shared' = FALSE
  /\ UNCHANGED <<file, mine, wake, routed>>

BudgetNext ==
  \/ \E p \in Searcher : BeginWake(p) \/ \E n \in Batch : FallBack(p, n)
  \/ \E p \in Quoting, n \in Batch : QuoteCall(p, n) \/ \E priority \in 0 .. 2 : BeginCycle(p, priority, n)
  \/ LeaveHot \/ \E p \in Process : Restart(p) \/ Midnight

BudgetSpec == BudgetInit /\ [][BudgetNext]_budgetVars

--------------------------------------------------------------------------------
(* Properties *)

BudgetTypeOK ==
  /\ day \in 1 .. MaxDay /\ file.day \in 0 .. day /\ \A p \in Process : mine[p].day \in 0 .. day
  /\ \A p \in Searcher : wake[p] \in 0 .. WakeCap

(* As long as one process at a time uses the file, the day's calls are those it   *)
(* counts and within the ceiling, over any restarts and midnights.  (Processes    *)
(* that share it write over each other's debits: then nothing bounds their sum    *)
(* but the ceiling of each.)                                                      *)
CeilingKept ==
  /\ ~shared => sent <= DailyCap /\ (sent # 0 => file.day = day /\ file.used = sent)
  /\ file.admitted <= EventCap /\ file.used <= DailyCap
================================================================================
