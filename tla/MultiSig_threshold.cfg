SPECIFICATION Spec
CONSTANTS
  Signer = {s1, s2}
  Required = 2
  Call = {c1, c2}
  Faults = 0
CHECK_DEADLOCK FALSE
INVARIANT ThresholdIsSubmitted
