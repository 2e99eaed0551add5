CONSTANTS
  QUEUE_NUM = 1
  TOTAL_NUM = 3
  EXPAND_QUEUE_SIZE = 1
  BATCH_SIZE = 2
  WRITE_BATCH_SIZE = 2
  MULTISCAN = TRUE
  StoresInOrder = FALSE
  WriteFaults = TRUE
  Keys <- MCKeys
CHECK_DEADLOCK FALSE
SPECIFICATION FairSpec
INVARIANT IndInv
INVARIANT FinalDbMatchesTrace
PROPERTY HangsOnlyPastEndMark
