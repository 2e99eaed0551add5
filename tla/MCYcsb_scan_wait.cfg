CONSTANTS
  QUEUE_NUM = 2
  TOTAL_NUM = 3
  EXPAND_QUEUE_SIZE = 3
  BATCH_SIZE = 2
  WRITE_BATCH_SIZE = 2
  MULTISCAN = FALSE
  StoresInOrder = TRUE
  WriteFaults = FALSE
  Keys <- MCKeys
SPECIFICATION Spec
PROPERTY ScanSeesEarlierWrites
