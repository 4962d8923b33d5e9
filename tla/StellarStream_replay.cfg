SPECIFICATION Spec
CONSTANTS
  Addr = {a1}
  StreamId = {s1}
  Handler = {h1}
  Refresher = {r1}
  MaxOps = 2
  Budgets <- MCDbBudget
  IsProduction = TRUE
  None = None
INVARIANT FailedEventIsReplayed
