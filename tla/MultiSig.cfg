SPECIFICATION FairSpec
CONSTANTS
  Signer = {s1, s2, s3}
  Required = 2
  Call = {c1, c2}
  Faults = 1
CHECK_DEADLOCK FALSE
INVARIANTS
  RecordInv
PROPERTIES
  QuorumIsNoticed
  ImplementsQuorumPay
