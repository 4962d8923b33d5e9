-------------------------- MODULE MCScheduledPayment --------------------------
EXTENDS ScheduledPayment
CONSTANTS p1, p2
\* No two payments have the same recipient and amount.
MCOwn == [p \in {p1, p2} |-> p]
=============================================================================
