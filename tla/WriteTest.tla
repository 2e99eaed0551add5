----------------------------- MODULE WriteTest -----------------------------
(***************************************************************************)
(* The load test: write_test.cpp and its LevelDB and WiredTiger variants.  *)
(* main generates TOTAL_NUM distinct keys, routes each to a queue and      *)
(* publishes it with tail[q]++; a worker takes a snapshot t of its tail    *)
(* and writes at most BATCH_SIZE of the requests before t at a time.       *)
(*                                                                         *)
(* The slots start out as end marks, so the end mark is published by       *)
(* tail[q]++ alone, whatever the order of the stores.  A request is known  *)
(* by its position in its queue.                                           *)
(***************************************************************************)
EXTENDS Integers, Sequences

CONSTANTS
  QUEUE_NUM,     \* queues = workers = database instances
  TOTAL_NUM,     \* keys to load
  BATCH_SIZE,    \* puts of a full WriteBatch of write_test.cpp
  Programs,      \* programs, of "rocksdb", "leveldb" and "wiredtiger"
  Shuffles,      \* orders in which RandomShuffle may leave the keys
  WriteFaults    \* a write may return an error

ASSUME ConstantsAssumption ==
  /\ QUEUE_NUM \in Nat \ {0}
  /\ TOTAL_NUM \in Nat \ {0}
  /\ BATCH_SIZE \in Nat \ {0}
  /\ Programs \subseteq {"rocksdb", "leveldb", "wiredtiger"}
  /\ WriteFaults \in BOOLEAN

Queues == 0 .. QUEUE_NUM - 1

Keys == 0 .. TOTAL_NUM - 1

EXPAND_QUEUE_SIZE == TOTAL_NUM \div 10 + 1

QUEUE_LEN == TOTAL_NUM \div QUEUE_NUM + EXPAND_QUEUE_SIZE

Positions == 0 .. QUEUE_LEN - 1

ASSUME ShufflesAssumption ==
  \A f \in Shuffles :
    f \in [Keys -> Keys] /\ \A m, n \in Keys : f[m] = f[n] => m = n

\* The spare slots make up for a remainder only from ten keys on.
ASSUME CapacityAssumption == TOTAL_NUM % QUEUE_NUM = 0 \/ TOTAL_NUM >= 10

EndMark == [seq |-> -1, key |-> -1]

\* The order in which KeyGenerator::Next returns the keys: UNIQUE_RANDOM in the
\* LevelDB program, SEQUENTIAL in the others.
KeyOrders(p) == IF p = "leveldb" THEN Shuffles ELSE {[m \in Keys |-> m]}

VARIABLES
  program,     \* the program that runs
  values_,     \* KeyGenerator: the order of the keys
  pc,          \* main: "store", "publish", "mark", "join", "done"
  i,           \* main: requests issued
  j,           \* main: end marks issued
  qs, tail,    \* the queues and their published lengths
  wpc,         \* worker: "poll", "fill", "report", "done"
  seq,         \* worker: requests taken
  t,           \* worker: its snapshot of tail
  batch,       \* worker: positions of the puts in the WriteBatch
  endflag,     \* worker: the end mark was seen
  db,          \* positions written to each instance, in order
  failed,      \* history: positions whose write failed
  crashed      \* a division by zero killed the process

mainVars == <<program, values_, pc, i, j, qs, tail>>
workerVars == <<wpc, seq, t, batch, endflag, db, failed>>
vars == <<mainVars, workerVars, crashed>>

-----------------------------------------------------------------------------
(* The main thread. *)

Route(k) == k % QUEUE_NUM

\* The fields of the request's slot.
Store ==
  LET k == values_[i]
      q == Route(k)
  IN  /\ pc = "store"
      /\ qs' = [qs EXCEPT ![q][tail[q]] = [seq |-> i, key |-> k]]
      /\ pc' = "publish"
      /\ UNCHANGED <<program, values_, i, j, tail, workerVars, crashed>>

Publish ==
  /\ pc = "publish"
  /\ tail' = [tail EXCEPT ![Route(values_[i])] = @ + 1]
  /\ i' = i + 1
  /\ pc' = IF i + 1 < TOTAL_NUM THEN "store" ELSE "mark"
  /\ UNCHANGED <<program, values_, j, qs, workerVars, crashed>>

\* The end mark of queue j.
Mark ==
  /\ pc = "mark"
  /\ qs' = [qs EXCEPT ![j][tail[j]] = EndMark]
  /\ tail' = [tail EXCEPT ![j] = @ + 1]
  /\ j' = j + 1
  /\ pc' = IF j + 1 < QUEUE_NUM THEN "mark" ELSE "join"
  /\ UNCHANGED <<program, values_, i, workerVars, crashed>>

Join ==
  /\ pc = "join"
  /\ \A q \in Queues : wpc[q] = "done"
  /\ pc' = "done"
  /\ UNCHANGED <<program, values_, i, j, qs, tail, workerVars, crashed>>

-----------------------------------------------------------------------------
(* The workers. *)

PollKeepsBatch(q) ==
  /\ wpc[q] = "poll"
  /\ seq[q] < tail[q]
  /\ t' = [t EXCEPT ![q] = tail[q]]
  /\ wpc' = [wpc EXCEPT ![q] = "fill"]
  /\ UNCHANGED <<mainVars, seq, batch, endflag, db, failed, crashed>>

\* The snapshot, and an empty WriteBatch.
Poll(q) ==
  /\ wpc[q] = "poll"
  /\ seq[q] < tail[q]
  /\ t' = [t EXCEPT ![q] = tail[q]]
  /\ batch' = [batch EXCEPT ![q] = <<>>]
  /\ wpc' = [wpc EXCEPT ![q] = "fill"]
  /\ UNCHANGED <<mainVars, seq, endflag, db, failed, crashed>>

\* The WiredTiger program inserts each request, the others fill a WriteBatch.
Cursor == program = "wiredtiger"

Puts == IF program = "rocksdb" THEN BATCH_SIZE ELSE 1

InBatch(q) ==
  /\ wpc[q] = "fill"
  /\ ~endflag[q]
  /\ seq[q] < t[q]
  /\ Len(batch[q]) < Puts

\* Hand the puts to the database instance; an error is not looked at.
Write(q, puts) ==
  \/ db' = [db EXCEPT ![q] = @ \o puts] /\ UNCHANGED failed
  \/ /\ WriteFaults
     /\ puts # <<>>
     /\ failed' = [failed EXCEPT ![q] = @ \cup {puts[x] : x \in 1 .. Len(puts)}]
     /\ UNCHANGED db

\* batch.Put, or the cursor's insert.
Put(q) ==
  /\ InBatch(q)
  /\ qs[q][seq[q]].seq # -1
  /\ batch' = [batch EXCEPT ![q] = Append(@, seq[q])]
  /\ seq' = [seq EXCEPT ![q] = @ + 1]
  /\ IF Cursor THEN Write(q, <<seq[q]>>) ELSE UNCHANGED <<db, failed>>
  /\ UNCHANGED <<mainVars, wpc, t, endflag, crashed>>

SeeEndTakesIt(q) ==
  /\ InBatch(q)
  /\ qs[q][seq[q]].seq = -1
  /\ endflag' = [endflag EXCEPT ![q] = TRUE]
  /\ seq' = [seq EXCEPT ![q] = @ + 1]
  /\ UNCHANGED <<mainVars, wpc, t, batch, db, failed, crashed>>

SeeEndIgnored(q) ==
  /\ InBatch(q)
  /\ qs[q][seq[q]].seq = -1
  /\ UNCHANGED vars

SeeEnd(q) ==
  /\ InBatch(q)
  /\ qs[q][seq[q]].seq = -1
  /\ endflag' = [endflag EXCEPT ![q] = TRUE]
  /\ UNCHANGED <<mainVars, wpc, seq, t, batch, db, failed, crashed>>

EndBatchDropsLast(q) ==
  /\ wpc[q] = "fill"
  /\ ~InBatch(q)
  /\ IF Cursor \/ endflag[q] THEN UNCHANGED <<db, failed>> ELSE Write(q, batch[q])
  /\ wpc' = [wpc EXCEPT ![q] = IF endflag[q] THEN "report" ELSE "poll"]
  /\ UNCHANGED <<mainVars, seq, t, batch, endflag, crashed>>

\* The end of the loop over the batch: write it and look at tail again.
EndBatch(q) ==
  /\ wpc[q] = "fill"
  /\ ~InBatch(q)
  /\ IF Cursor THEN UNCHANGED <<db, failed>> ELSE Write(q, batch[q])
  /\ wpc' = [wpc EXCEPT ![q] = IF endflag[q] THEN "report" ELSE "poll"]
  /\ UNCHANGED <<mainVars, seq, t, batch, endflag, crashed>>

\* The report divides by the number of requests taken.
Report(q) ==
  /\ wpc[q] = "report"
  /\ wpc' = [wpc EXCEPT ![q] = IF seq[q] = 0 THEN @ ELSE "done"]
  /\ crashed' = (seq[q] = 0)
  /\ UNCHANGED <<mainVars, seq, t, batch, endflag, db, failed>>

-----------------------------------------------------------------------------
Init ==
  /\ program \in Programs
  /\ values_ \in KeyOrders(program)
  /\ pc = "store" /\ i = 0 /\ j = 0
  /\ qs = [q \in Queues |-> [p \in Positions |-> EndMark]]
  /\ tail = [q \in Queues |-> 0]
  /\ wpc = [q \in Queues |-> "poll"]
  /\ seq = [q \in Queues |-> 0]
  /\ t = [q \in Queues |-> 0]
  /\ batch = [q \in Queues |-> <<>>]
  /\ endflag = [q \in Queues |-> FALSE]
  /\ db = [q \in Queues |-> <<>>]
  /\ failed = [q \in Queues |-> {}]
  /\ crashed = FALSE

Main == Store \/ Publish \/ Mark \/ Join

Worker(q) == Poll(q) \/ Put(q) \/ SeeEnd(q) \/ EndBatch(q) \/ Report(q)

Returned == pc = "done" \/ crashed

Next ==
  \/ ~Returned /\ Main
  \/ ~Returned /\ \E q \in Queues : Worker(q)
  \/ Returned /\ UNCHANGED vars

Spec == Init /\ [][Next]_vars

\* Every thread keeps being scheduled.
FairSpec ==
  /\ Spec
  /\ WF_vars(~Returned /\ Main)
  /\ \A q \in Queues : WF_vars(~Returned /\ Worker(q))

-----------------------------------------------------------------------------
(* Properties. *)

\* Requests taken that are only in the WriteBatch.
Held(q) == IF wpc[q] = "fill" /\ ~Cursor THEN Len(batch[q]) ELSE 0

\* Wherever the snapshots of tail cut the queue into batches, an instance is
\* handed the requests its worker has taken in queue order and each of them
\* once; only writes that failed are missing.
WritesInOrder ==
  \A q \in Queues :
    /\ \A x, y \in 1 .. Len(db[q]) : x < y => db[q][x] < db[q][y]
    /\ {db[q][x] : x \in 1 .. Len(db[q])}
         = (0 .. seq[q] - Held(q) - 1) \ failed[q]

FailedKeys(q) == {qs[q][p].key : p \in failed[q]}

\* After the workers are joined every generated key was put exactly once, into
\* the instance it is routed to, unless its write failed; no end mark was put.
LoadComplete ==
  pc = "done" =>
    \A q \in Queues, k \in Keys \cup {-1} :
      LET puts == {x \in 1 .. Len(db[q]) : qs[q][db[q][x]].key = k}
      IN  IF k >= 0 /\ q = Route(k) /\ k \notin FailedKeys(q)
          THEN \E x \in puts : puts = {x}
          ELSE puts = {}

\* A row of qs has room for its requests and the end mark, and, when the keys
\* divide evenly, a row of ns for the requests its worker reports on.
RowsSuffice ==
  \A q \in Queues :
    /\ tail[q] <= QUEUE_LEN
    /\ TOTAL_NUM % QUEUE_NUM = 0 /\ wpc[q] = "report" =>
         seq[q] <= TOTAL_NUM \div QUEUE_NUM

\* main joins every worker and returns.
CleanExit == TOTAL_NUM >= QUEUE_NUM => <>(pc = "done")

=============================================================================
