---------------------------- MODULE MutationBarrier ----------------------------
(* What the audit promises of the wallet's mutations: one at a time is open,   *)
(* and a closed one stays closed as it was.                                    *)
CONSTANT Raws

VARIABLE mutation   \* mutation[r]: absent, unresolved, or how it was closed

Closed == {"effect", "reverted", "abandoned"}

Init == mutation = [r \in Raws |-> "absent"]

Open(r) ==
  /\ mutation[r] = "absent"
  /\ \A q \in Raws : mutation[q] # "unresolved"
  /\ mutation' = [mutation EXCEPT ![r] = "unresolved"]

Close(r, how) ==
  /\ mutation[r] = "unresolved"
  /\ mutation' = [mutation EXCEPT ![r] = how]

Next == \E r \in Raws : Open(r) \/ \E how \in Closed : Close(r, how)

Spec == Init /\ [][Next]_mutation

===============================================================================
