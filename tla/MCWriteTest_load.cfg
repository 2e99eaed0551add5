CONSTANTS
  QUEUE_NUM = 2
  TOTAL_NUM = 6
  BATCH_SIZE = 2
  WriteFaults = TRUE
  Programs = {"rocksdb", "leveldb", "wiredtiger"}
  Shuffles <- MCShuffleOrders
SPECIFICATION FairSpec
INVARIANT WritesInOrder
INVARIANT LoadComplete
INVARIANT RowsSuffice
PROPERTY CleanExit
