--------------------------- MODULE MCStellarStream ---------------------------
(***************************************************************************)
(* Instances of StellarStream for TLC.                                     *)
(***************************************************************************)
EXTENDS StellarStream, TLC

Bounds(c, d, r, s, a, o) ==
  "crash" :> c @@ "db" :> d @@ "redis" :> r @@ "sse" :> s @@ "account" :> a @@ "overlap" :> o

\* Two faults of one kind or of two, in the pairs that interact.
MCBudgets ==
  {Bounds(1, 1, 0, 0, 0, 0), Bounds(0, 1, 0, 1, 0, 0), Bounds(1, 0, 1, 0, 0, 0),
   Bounds(0, 0, 0, 2, 0, 0), Bounds(1, 0, 0, 0, 1, 0), Bounds(0, 0, 0, 0, 1, 1)}

MCDbBudget == {Bounds(0, 1, 0, 0, 0, 0)}
=============================================================================
