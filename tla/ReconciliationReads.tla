-------------------------- MODULE ReconciliationReads --------------------------
(* Two readers are asked about one signed mutation, each once by a reconciler,  *)
(* and the judgements of Reconciliation are taken of whatever they returned.    *)
EXTENDS Reconciliation

CONSTANTS
  Nonce,              \* the mutation's nonce
  Deadline,           \* its signed deadline
  Heights,            \* heights (and timestamps) the readers report
  MinConfirmations    \* finalityConfirmations

ASSUME InputAssumption ==
  /\ Nonce \in Nat /\ Deadline \in Nat \ {0}
  /\ Heights \subseteq Nat /\ MinConfirmations \in Nat \ {0}

VARIABLE obs          \* what each reader has returned to this reconciler

Sources == 1 .. 2

Receipts == {NoReceipt} \cup [blockNumber : Heights, blockHash : 1 .. 2, success : BOOLEAN]

(* The requests of one reader are concurrent and unrelated: any mixture of     *)
(* answers is one it may give.                                                 *)
Views == {FailedRead} \cup
  {[error |-> FALSE, head |-> h, headTimestamp |-> h, latestNonce |-> latest,
    pendingNonce |-> pending, transaction |-> seen, receipt |-> receipt] :
     h \in Heights, latest \in {Nonce, Nonce + 1}, pending \in {Nonce, Nonce + 1},
     seen \in BOOLEAN, receipt \in Receipts}

ReadsInit == obs = [i \in Sources |-> FailedRead]

Poll(i) == obs[i] = FailedRead /\ \E view \in Views : obs' = [obs EXCEPT ![i] = view]

(* The next reconciler asks again. *)
AskAgain == obs' = [i \in Sources |-> FailedRead]

ReadsNext == AskAgain \/ \E i \in Sources : Poll(i)

ReadsSpec == ReadsInit /\ [][ReadsNext]_obs

-------------------------------------------------------------------------------
(* Properties *)

outcome(o) == classifyReconciliation(o, Nonce, MinConfirmations)

mayAbandon(o) == evaluateExpiredMutationAbandonment(TRUE, Nonce, Deadline, o)
mayReplay(o) == outcome(o) = "NOT_OBSERVED" /\ evaluateRawReplayDeadline(TRUE, Deadline, o)

(* No evidence allows an operator both to close a mutation as expired and to   *)
(* send its raw again, or the closed mutation could still execute.             *)
AbandonXorReplay == ~(mayAbandon(obs) /\ mayReplay(obs))

(* As long as one reader shows a trace of the mutation or of its nonce, it is  *)
(* neither closed as expired nor sent again, whatever the other one says.      *)
shows(view) == ~view.error /\
  (view.transaction \/ view.receipt # NoReceipt \/ view.latestNonce > Nonce \/ view.pendingNonce > Nonce)
TraceKeepsOpen ==
  (\E i \in Sources : shows(obs[i])) => ~mayAbandon(obs) /\ ~mayReplay(obs)

(* Which reader is listed first decides when a receipt counts as confirmed,    *)
(* never what it says.                                                         *)
says(state) ==
  CASE state \in {"CONFIRMED_SUCCESS", "PROVISIONAL_SUCCESS"} -> "success"
    [] state \in {"CONFIRMED_REVERTED", "PROVISIONAL_REVERTED"} -> "reverted"
    [] OTHER -> state
OrderDecidesNothing == says(outcome(obs)) = says(outcome([i \in Sources |-> obs[3 - i]]))

===============================================================================
