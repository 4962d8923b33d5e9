SPECIFICATION FairSpec
CONSTANTS
  i1 = i1
  i2 = i2
  None = None
  Requests = 2
  Item = {i1, i2}
  Content <- MCDistinct
  Attempts = 2
  Faults = 1
CHECK_DEADLOCK FALSE
INVARIANTS
  HandledOnce
  AnswersAgree
  PaidOnce
  RowInv
PROPERTIES
  FinishedIsFinal
  EveryBatchEnds
