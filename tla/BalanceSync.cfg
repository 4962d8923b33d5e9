SPECIFICATION FairSyncSpec
CONSTANTS
  Poller = {p1, p2}
  Refresh = {f1, f2}
  Recon = {r1}
  Ledger = {l1}
  MaxAmount = 2
  Major = 2
  Chances <- MCChances
  Nil = Nil
INVARIANTS
  LockInv
  FreshOrExplained
PROPERTY Converges
