SPECIFICATION FairSpec
CONSTANTS
  r1 = r1
  r2 = r2
  r3 = r3
  alice = alice
  rent = rent
  k1 = k1
  k2 = k2
  Req = {r1, r2, r3}
  Direct = {r3}
  User = {alice}
  Fp = {rent}
  Key = {k1, k2}
  UserOf <- MCUserOf
  FpOf <- MCFpOf
  KeyOf <- MCKeyOf
  MaxRetries = 2
  ReadBack = {TRUE, FALSE}
  Budget <- EveryFault
  MaxFaults = 3
  None = None

INVARIANTS
  NeverPaidTwice
  OkIsPaidAndTraceable
  ErrorIsUnpaid
PROPERTY EveryRequestEnds
