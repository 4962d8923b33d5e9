------------------------------- MODULE MCSwap --------------------------------
(***************************************************************************)
(* Instance of Swap for TLC: a swap, its opposite, and a third into the    *)
(* same token, of which the user has no balance row at first.              *)
(***************************************************************************)
EXTENDS Swap

CONSTANTS A, B, C, ac, ca, bc

MCFrom  == ac :> A @@ ca :> C @@ bc :> B
MCTo    == ac :> C @@ ca :> A @@ bc :> C
MCIn    == ac :> 2 @@ ca :> 1 @@ bc :> 1
MCOut   == ac :> 1 @@ ca :> 2 @@ bc :> 1
MCFunds == A :> <<4>> @@ B :> <<2>> @@ C :> <<>>
=============================================================================
