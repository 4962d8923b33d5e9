SPECIFICATION FairSpec
CONSTANTS
  A = A
  B = B
  C = C
  ac = ac
  ca = ca
  bc = bc
  Token = {A, B, C}
  Quote = {ac, ca, bc}
  Call = {c1, c2}
  Faults = 1
  Requests = 3
  Keyed = {bc}
  From <- MCFrom
  To <- MCTo
  In <- MCIn
  Out <- MCOut
  Funds <- MCFunds
CHECK_DEADLOCK FALSE
INVARIANTS
  BookingInv
PROPERTIES
  ImplementsAtomicSwap
  EveryConfirmationEnds
