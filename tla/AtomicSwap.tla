----------------------------- MODULE AtomicSwap ------------------------------
(***************************************************************************)
(* What a swap promises of the user's balances: one step takes a quote's   *)
(* amount from one token and gives its other amount in the other token,    *)
(* books it once, and never takes what is not there.                       *)
(***************************************************************************)
EXTENDS Integers

CONSTANTS Token, Quote, From, To, In, Out, Start

VARIABLES
  total,  \* the balance of each token
  booked  \* completed swaps, per quote

Init ==
  /\ total = Start
  /\ booked = [q \in Quote |-> 0]

Swap(q) ==
  /\ total[From[q]] >= In[q]
  /\ total' = [total EXCEPT ![From[q]] = @ - In[q], ![To[q]] = @ + Out[q]]
  /\ booked' = [booked EXCEPT ![q] = @ + 1]

Next == \E q \in Quote : Swap(q)

Spec == Init /\ [][Next]_<<total, booked>>
=============================================================================
