SPECIFICATION FairSpec
CONSTANTS
  Key = {k1}
  Exec = {e1, e2}
  Disp = {d1, d2}
  MaxRetries = 2
  Schemas = {TRUE, FALSE}
  Budget <- MCBudget
CHECK_DEADLOCK FALSE
INVARIANTS
  DeliveryInv
  DeadLetterClimbedTheLadder
PROPERTIES
  ImplementsAtLeastOnce
  OwedIsServed
