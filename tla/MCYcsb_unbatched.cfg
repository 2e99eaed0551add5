CONSTANTS
  QUEUE_NUM = 2
  TOTAL_NUM = 2
  EXPAND_QUEUE_SIZE = 2
  BATCH_SIZE = 1
  WRITE_BATCH_SIZE = 2
  MULTISCAN = TRUE
  StoresInOrder = TRUE
  WriteFaults = TRUE
  Keys <- MCKeys
SPECIFICATION FairSpec
INVARIANT ReadsOwnKey
PROPERTY Termination
