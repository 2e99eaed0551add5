CONSTANTS
  QUEUE_NUM = 3
  READ_NUM = 2
  SCAN_SIZE = 3
  KeyNums <- MCKeyNums
CHECK_DEADLOCK FALSE
SPECIFICATION FairSpec
INVARIANT ScansExclusive
INVARIANT MergesOneQuery
INVARIANT ReadsWithinVector
INVARIANT CrashOnlyIfShort
INVARIANT EmptyInstanceBlocks
PROPERTY EndsUnlessEmpty
