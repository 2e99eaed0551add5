CONSTANTS
  w1 = w1
  w2 = w2
  w3 = w3
  w4 = w4
  Writers <- MCWriters
  Kinds <- MCKinds
  AllowConcurrent = TRUE
  StackWords <- MCStack
  MaxStalls = 1
  MaxFaults = 1
SPECIFICATION Spec
CHECK_DEADLOCK FALSE
INVARIANT AcknowledgedAreVisible
