---------------------------- MODULE Reconciliation ----------------------------
(* How one signed mutation is judged from what the readers observed.          *)
(* An observation array is a function from source numbers (in the order the   *)
(* readers are listed) to what that reader returned.  An observation that     *)
(* failed carries no evidence; a receipt is NoReceipt until one is found.     *)
EXTENDS Integers, FiniteSets

NoReceipt == [blockNumber |-> 0, blockHash |-> 0, success |-> FALSE]

FailedRead == [error |-> TRUE, head |-> 0, headTimestamp |-> 0, latestNonce |-> 0,
               pendingNonce |-> 0, transaction |-> FALSE, receipt |-> NoReceipt]

usable(obs) == {i \in DOMAIN obs : ~obs[i].error}

withReceipt(obs) == {i \in usable(obs) : obs[i].receipt # NoReceipt}

(* The receipt that decides is the one of the first source listed. *)
firstReceipt(obs) ==
  obs[CHOOSE i \in withReceipt(obs) : \A j \in withReceipt(obs) : i <= j]

(* Two providers disagree about the block or the status of the receipt. *)
conflict(obs) ==
  \E i, j \in withReceipt(obs) :
    \/ obs[i].receipt.blockHash # obs[j].receipt.blockHash
    \/ obs[i].receipt.success # obs[j].receipt.success

confirmations(view) ==
  IF view.head >= view.receipt.blockNumber
  THEN view.head - view.receipt.blockNumber + 1 ELSE 0

(* latestNonce > nonce somewhere, without the planned receipt. *)
nonceConsumed(obs, nonce) == \E i \in usable(obs) : obs[i].latestNonce > nonce

(* Two sources answered, and none of them saw the nonce used or queued. *)
untouchedNonce(obs, nonce) ==
  /\ Cardinality(usable(obs)) >= 2
  /\ \A i \in usable(obs) : obs[i].latestNonce <= nonce /\ obs[i].pendingNonce <= nonce

classifyReconciliation(obs, nonce, minConfirmations) ==
  CASE conflict(obs) -> "CONFLICT"
    [] ~conflict(obs) /\ withReceipt(obs) # {} ->
         LET view == firstReceipt(obs)
             settled == confirmations(view) >= minConfirmations
         IN  IF view.receipt.success
             THEN IF settled THEN "CONFIRMED_SUCCESS" ELSE "PROVISIONAL_SUCCESS"
             ELSE IF settled THEN "CONFIRMED_REVERTED" ELSE "PROVISIONAL_REVERTED"
    [] withReceipt(obs) = {} /\ (\E i \in usable(obs) : obs[i].transaction) -> "PENDING"
    [] OTHER ->
         IF nonceConsumed(obs, nonce) THEN "NONCE_CONFLICT"
         ELSE IF untouchedNonce(obs, nonce) THEN "NOT_OBSERVED" ELSE "UNKNOWN"

(* Mutant: a transaction is already expired in the block of its deadline. *)
expiredAtDeadline(obs, deadline) ==
  \A i \in usable(obs) : obs[i].headTimestamp >= deadline

(* Every answering reader's head is already past the signed deadline. *)
expiredEverywhere(obs, deadline) ==
  \A i \in usable(obs) : obs[i].headTimestamp > deadline

(* Closing a mutation that was never mined: a kind with an on-chain deadline, *)
(* the deadline expired on every reader, and nothing of it observed.  The     *)
(* confirmation depth does not matter to NOT_OBSERVED; the code passes 3.     *)
evaluateExpiredMutationAbandonment(hasDeadline, nonce, deadline, obs) ==
  /\ hasDeadline
  /\ deadline > 0
  /\ classifyReconciliation(obs, nonce, 3) = "NOT_OBSERVED"
  /\ expiredEverywhere(obs, deadline)

(* Sending the persisted raw again: kinds without a deadline always may. *)
evaluateRawReplayDeadline(hasDeadline, deadline, obs) ==
  hasDeadline =>
    /\ deadline > 0
    /\ Cardinality(usable(obs)) >= 2
    /\ \A i \in usable(obs) : obs[i].headTimestamp <= deadline

===============================================================================
