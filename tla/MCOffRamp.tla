------------------------------ MODULE MCOffRamp ------------------------------
(***************************************************************************)
(* Instances of OffRamp for TLC: withdrawals from one stored balance that  *)
(* covers only one of them.                                                *)
(***************************************************************************)
EXTENDS OffRamp, TLC

CONSTANTS w1, w2, usdc

MCBalOf   == [w \in W |-> usdc]
MCAmount  == [w \in W |-> IF w = w1 THEN 1 ELSE 2]
MCShort   == [b \in Bal |-> 2]

EveryFault == [k \in FaultKind |-> 1]
=============================================================================
