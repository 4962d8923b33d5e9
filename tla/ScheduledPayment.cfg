SPECIFICATION FairScheduleSpec
CONSTANTS
  p1 = p1
  p2 = p2
  Payment = {p1, p2}
  Content <- MCOwn
  Requests = 3
  MaxFailures = 2
  Refusable = {p1, p2}
  Announced = {p1}
  Faults = 1
  Nil = Nil
CHECK_DEADLOCK FALSE
INVARIANTS
  PaidOnce
  
PROPERTIES
  CancelIsFinal
  EveryPaymentEnds
