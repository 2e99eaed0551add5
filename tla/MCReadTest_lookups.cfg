CONSTANTS
  QUEUE_NUM = 2
  TOTAL_NUM = 5
  READ_NUM = 3
  QUEUE_LEN = 4
  BATCH_SIZE = 2
  Programs = {"rocksdb", "leveldb", "wiredtiger"}
  Loads <- MCLoads
SPECIFICATION FairSpec
INVARIANT LookupsInOrder
INVARIANT DropsLessThanBatch
INVARIANT FoundIsExact
INVARIANT CrashOnlyIfIdle
PROPERTY Termination
