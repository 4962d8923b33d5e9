----------------------------- MODULE CreditOnce -----------------------------
(***************************************************************************)
(* What the incoming-payment stream of the backend promises, without any   *)
(* stream, cursor, handler or database transaction: Horizon's ledger of an *)
(* account only grows, and an incoming payment of that ledger is added to  *)
(* the account's balance in one indivisible step, at most once.            *)
(*                                                                         *)
(* StellarStream implements this specification (see StellarStream!Ledger). *)
(***************************************************************************)
EXTENDS Naturals, Sequences

CONSTANTS
  Addr,        \* Stellar addresses of the tagged accounts
  MaxOps       \* bound: operations per account's ledger

VARIABLES
  ledger,      \* ledger[a]: the operations of a's Horizon payment stream
  credited,    \* credited[a]: positions whose payment has been credited
  balance      \* balance[a]: the stored balance, in units of one payment

vars == <<ledger, credited, balance>>

Kind == {"in", "other"}

Init ==
  /\ ledger   = [a \in Addr |-> <<>>]
  /\ credited = [a \in Addr |-> {}]
  /\ balance  = [a \in Addr |-> 0]

Arrive(a, k) ==
  /\ Len(ledger[a]) < MaxOps
  /\ ledger' = [ledger EXCEPT ![a] = Append(@, k)]
  /\ UNCHANGED <<credited, balance>>

Credit(a, i) ==
  /\ ledger[a][i] = "in"
  /\ i \notin credited[a]
  /\ credited' = [credited EXCEPT ![a] = @ \cup {i}]
  /\ balance'  = [balance EXCEPT ![a] = @ + 1]
  /\ UNCHANGED ledger

Next ==
  \/ \E a \in Addr, k \in Kind : Arrive(a, k)
  \/ \E a \in Addr : \E i \in DOMAIN ledger[a] : Credit(a, i)

Spec == Init /\ [][Next]_vars
=============================================================================
