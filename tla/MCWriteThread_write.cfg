CONSTANTS
  w1 = w1
  w2 = w2
  w3 = w3
  w4 = w4
  Writers <- MCWriters
  Kinds <- MCKinds
  AllowConcurrent = TRUE
  StackWords <- MCStack
  MaxStalls = 1
  MaxFaults = 1
SPECIFICATION FairSpec
INVARIANT OneLeader
INVARIANT NoUseAfterReturn
INVARIANT AcknowledgedAreApplied
 
INVARIANT LogRestoresMemtable
INVARIANT NumbersAreUnique
INVARIANT VisibleUnlessFollowerExits
INVARIANT LinksBrokenOnlyByStall
PROPERTY EveryWriteReturns
CHECK_DEADLOCK FALSE
