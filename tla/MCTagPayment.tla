---------------------------- MODULE MCTagPayment ----------------------------
(***************************************************************************)
(* Instances of TagPayment for TLC.                                        *)
(***************************************************************************)
EXTENDS TagPayment, TLC

CONSTANTS r1, r2, r3, alice, rent, k1, k2

Faults(c, d, n) == "crash" :> c @@ "db" :> d @@ "net" :> n

EveryFault == Faults(1, 3, 2)

\* One user sends the same payment three times; the third has a key of its own.
MCUserOf == [r \in Req |-> alice]
MCFpOf   == [r \in Req |-> rent]
MCKeyOf  == [r \in Req |-> IF r = r3 THEN k2 ELSE k1]
=============================================================================
