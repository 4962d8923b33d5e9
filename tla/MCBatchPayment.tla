---------------------------- MODULE MCBatchPayment ----------------------------
EXTENDS BatchPayment
CONSTANTS i1, i2

\* Different payments, and two payments of one amount to one recipient.
MCDistinct == [i \in {i1, i2} |-> i]
MCTwins == [i \in {i1, i2} |-> i1]
=============================================================================
