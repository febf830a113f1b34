------------------------------ MODULE AtomicCall ------------------------------
(* What an executor contract promises to whoever funds it: seen from outside,   *)
(* a call either leaves every balance alone or earns at least its floor in the  *)
(* settlement token and takes no other token away, and leaves behind no more of *)
(* one than the plan allows.  Between calls only the operator moves tokens out. *)
EXTENDS Integers

CONSTANTS
  Token,    \* the tokens an executor may hold
  Promise   \* what calls can promise: a settlement token, a floor, a residual per token

VARIABLES
  held,  \* the executor's balances, as they stand outside a call
  open   \* a call is in progress

Opens == ~open /\ open' /\ held' = held

Earns(p) ==
  /\ open /\ ~open'
  /\ held'[p.settlement] >= held[p.settlement] + p.floor
  /\ \A t \in Token \ {p.settlement} : held'[t] >= held[t] /\ held'[t] <= held[t] + p.residual[t]

DoesNothing == open /\ ~open' /\ held' = held

Withdrawn(t, amount) ==
  /\ ~open /\ ~open'
  /\ held' = [held EXCEPT ![t] = @ - amount]

AtomicNext ==
  \/ Opens \/ DoesNothing
  \/ \E p \in Promise : Earns(p)
  \/ \E t \in Token : \E amount \in 0..held[t] : Withdrawn(t, amount)

AtomicInit == held \in [Token -> Nat] /\ open = FALSE

AtomicSpec == AtomicInit /\ [][AtomicNext]_<<held, open>>
================================================================================
