SPECIFICATION FairSpec
CONSTANTS
  w1 = w1
  w2 = w2
  usdc = usdc
  W = {w1, w2}
  Bal = {usdc}
  BalOf <- MCBalOf
  Amount <- MCAmount
  Opening <- MCShort
  Handler = {h1, h2}
  ReturnsId = {TRUE, FALSE}
  Budget <- EveryFault
  MaxFaults = 2
  None = None
INVARIANTS
  PaidOrRefunded
  BooksBalance
PROPERTY DebitedIsAnswered
