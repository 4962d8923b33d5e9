SPECIFICATION Spec
\* The clients may stop asking.
CHECK_DEADLOCK FALSE
SYMMETRY Symmetric
CONSTANTS
  Txn = {t1, t2}
  Walleted = {t1}
  Schemas = {TRUE, FALSE}
  DisputeId = {d1, d2, d3}
  Request = {r1, r2, r3}
  MaxRequests = 7
  MaxFaults = 2
  None = None
INVARIANTS
  RefundInv
  OneActiveDispute
PROPERTY ClosedIsFinal
