--------------------------- MODULE MCBalanceSync ---------------------------
(* Instances of BalanceSync for TLC. *)
EXTENDS BalanceSync

MCChances == 2

=============================================================================
