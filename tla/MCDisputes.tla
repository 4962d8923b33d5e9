----------------------------- MODULE MCDisputes -----------------------------
(* Instances of Disputes for TLC. *)
EXTENDS Disputes, TLC

Symmetric == Permutations(Request) \cup Permutations(DisputeId)

=============================================================================
