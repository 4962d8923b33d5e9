SPECIFICATION FairSpec
CONSTANTS
  Addr = {a1}
  StreamId = {s1, s2}
  Handler = {h1, h2}
  Refresher = {r1, r2}
  MaxOps = 2
  Budgets <- MCBudgets
  IsProduction = TRUE
  None = None
INVARIANTS
  BalanceMatchesCredits
  AcknowledgedIsCredited
  WebhookAtMostOnce
  NothingStalls
PROPERTIES
  ImplementsCreditOnce
  NoCreditWhileInactive
  PaymentsGetCredited
