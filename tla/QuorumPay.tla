------------------------------ MODULE QuorumPay ------------------------------
(***************************************************************************)
(* What a payment that needs several signers promises: the ledger pays it  *)
(* at most once, and never before Required of the signers have signed.     *)
(***************************************************************************)
EXTENDS Naturals, FiniteSets

CONSTANTS Signer, Required

VARIABLES
  signed,  \* the signers whose signature is kept
  paid     \* how often the ledger has paid

Init == signed = {} /\ paid = 0

Sign(s) ==
  /\ signed' = signed \cup {s}
  /\ UNCHANGED paid

Pay ==
  /\ paid = 0
  /\ Cardinality(signed) >= Required
  /\ paid' = 1
  /\ UNCHANGED signed

Next == Pay \/ \E s \in Signer : Sign(s)

Spec == Init /\ [][Next]_<<signed, paid>>
=============================================================================
