------------------------------ MODULE ReadTest ------------------------------
(***************************************************************************)
(* The point query test: read_test.cpp and its LevelDB and WiredTiger      *)
(* variants.  main routes READ_NUM random keys to the queues; a worker     *)
(* looks its keys up and counts the ones it finds.  The variants differ in *)
(* when a worker executes what it has taken: read_test.cpp only when it    *)
(* has the keys of a full MultiGet, the LevelDB variant after each round   *)
(* over a snapshot of tail, the WiredTiger variant at once.                *)
(***************************************************************************)
EXTENDS Integers, Sequences, FiniteSets

CONSTANTS
  QUEUE_NUM,   \* queues = workers = database instances
  TOTAL_NUM,   \* keys are below this number
  READ_NUM,    \* requests to issue
  QUEUE_LEN,   \* slots of a row of qs
  BATCH_SIZE,  \* keys of a MultiGet, requests of a round
  Loads,       \* sets of keys an earlier load may have left
  Programs     \* programs, of "rocksdb", "leveldb" and "wiredtiger"

ASSUME ConstantsAssumption ==
  /\ QUEUE_NUM \in Nat \ {0}
  /\ TOTAL_NUM \in Nat \ {0}
  /\ READ_NUM \in 1 .. TOTAL_NUM
  /\ BATCH_SIZE \in Nat \ {0}
  /\ Loads \subseteq SUBSET (0 .. TOTAL_NUM - 1)
  /\ Programs \subseteq {"rocksdb", "leveldb", "wiredtiger"}

\* Runs that stay inside the rows do not depend on their length: leave room
\* for all requests in one row.
ASSUME CapacityAssumption == QUEUE_LEN \in Nat /\ READ_NUM < QUEUE_LEN

Queues == 0 .. QUEUE_NUM - 1

Keys == 0 .. TOTAL_NUM - 1

Positions == 0 .. QUEUE_LEN - 1

\* A slot is a key to read, or the end mark (seq = -1).
EndMark == -1

VARIABLES
  program,     \* the program that runs
  loaded,      \* the keys the instances hold
  pc,          \* main: "store", "publish", "mark", "join", "done"
  i,           \* main: requests issued
  j,           \* main: end marks issued
  key,         \* main: key of the request being issued
  qs, tail,    \* the queues and their published lengths
  wpc,         \* worker: "poll", "take", "report", "done"
  seq,         \* worker: requests taken
  t,           \* worker: its snapshot of tail
  batch_size,  \* worker: requests taken in this round
  keys,        \* worker: positions of the requests not looked up yet
  keybuf,      \* worker: the buffer key[], which every Slice in keys points to
  endflag,     \* worker: the end mark was seen
  found,       \* worker: keys found
  looked,      \* history: the lookups, with the position they answer
  crashed      \* a division by zero killed the process

mainVars == <<program, loaded, pc, i, j, key, qs, tail>>
workerVars == <<wpc, seq, t, batch_size, keys, keybuf, endflag, found, looked>>
vars == <<mainVars, workerVars, crashed>>

-----------------------------------------------------------------------------
(* The main thread. *)

\* What async_requests() leaves in a slot.
UnusedSlot == IF program = "rocksdb" THEN 0 ELSE EndMark

Route(k) == k % QUEUE_NUM

Issued == {qs[q][p] : q \in Queues, p \in Positions} \ {EndMark}

\* keygen.Next: with repetitions in read_test.cpp, a shuffle in the others.
MayReturn(k) == program = "rocksdb" \/ k \notin Issued

\* keygen.Next(), and the fields of the request's slot.
Store(k) ==
  /\ pc = "store"
  /\ key' = k
  /\ qs' = [qs EXCEPT ![Route(k)][tail[Route(k)]] = k]
  /\ pc' = "publish"
  /\ UNCHANGED <<program, loaded, i, j, tail, workerVars, crashed>>

Publish ==
  /\ pc = "publish"
  /\ tail' = [tail EXCEPT ![Route(key)] = @ + 1]
  /\ i' = i + 1
  /\ pc' = IF i + 1 < READ_NUM THEN "store" ELSE "mark"
  /\ UNCHANGED <<program, loaded, j, key, qs, workerVars, crashed>>

\* read_test.cpp issues requests only while its merging iterator, which it
\* leaves on the first key, is valid.
NothingToRead == program = "rocksdb" /\ loaded = {}

\* The end mark of queue j.
Mark ==
  /\ pc = "mark"
  /\ qs' = [qs EXCEPT ![j][tail[j]] = EndMark]
  /\ tail' = [tail EXCEPT ![j] = @ + 1]
  /\ j' = j + 1
  /\ pc' = IF j + 1 < QUEUE_NUM THEN "mark" ELSE "join"
  /\ UNCHANGED <<program, loaded, i, key, workerVars, crashed>>

Join ==
  /\ pc = "join"
  /\ \A q \in Queues : wpc[q] = "done"
  /\ pc' = "done"
  /\ UNCHANGED <<program, loaded, i, j, key, qs, tail, workerVars, crashed>>

-----------------------------------------------------------------------------
(* The workers. *)

\* The keys an instance can be asked for: those routed to it.
Holds(q, k) == k \in loaded /\ k % QUEUE_NUM = q

LookUpCountsAll(q, positions, k) ==
  /\ looked' = [looked EXCEPT ![q] = @ \o
                  [x \in 1 .. Len(positions) |-> [pos |-> positions[x], key |-> k]]]
  /\ found' = [found EXCEPT ![q] = @ + Len(positions)]

\* Look up the buffer k once for each of the positions.
LookUp(q, positions, k) ==
  /\ looked' = [looked EXCEPT ![q] = @ \o
                  [x \in 1 .. Len(positions) |-> [pos |-> positions[x], key |-> k]]]
  /\ found' = [found EXCEPT ![q] =
                 @ + IF Holds(q, k) THEN Len(positions) ELSE 0]

\* The loop of read_test.cpp takes one request each time it looks at tail.
RoundSize == IF program = "rocksdb" THEN 1 ELSE BATCH_SIZE

PollBeyondTail(q) ==
  /\ wpc[q] = "poll"
  /\ seq[q] <= tail[q]
  /\ t' = [t EXCEPT ![q] = tail[q] + 1]
  /\ batch_size' = [batch_size EXCEPT ![q] = 0]
  /\ wpc' = [wpc EXCEPT ![q] = "take"]
  /\ UNCHANGED <<mainVars, seq, keys, keybuf, endflag, found, looked, crashed>>

Poll(q) ==
  /\ wpc[q] = "poll"
  /\ seq[q] < tail[q]
  /\ t' = [t EXCEPT ![q] = tail[q]]
  /\ batch_size' = [batch_size EXCEPT ![q] = 0]
  /\ wpc' = [wpc EXCEPT ![q] = "take"]
  /\ UNCHANGED <<mainVars, seq, keys, keybuf, endflag, found, looked, crashed>>

InRound(q) ==
  /\ wpc[q] = "take"
  /\ ~endflag[q]
  /\ seq[q] < t[q]
  /\ batch_size[q] < RoundSize

Take(q) ==
  /\ InRound(q)
  /\ qs[q][seq[q]] # EndMark
  /\ keybuf' = [keybuf EXCEPT ![q] = qs[q][seq[q]]]
  /\ \/ /\ program = "wiredtiger"
        /\ LookUp(q, <<seq[q]>>, keybuf'[q])
        /\ UNCHANGED keys
     \/ /\ program # "wiredtiger"
        /\ keys' = [keys EXCEPT ![q] = Append(@, seq[q])]
        /\ UNCHANGED <<found, looked>>
  /\ seq' = [seq EXCEPT ![q] = @ + 1]
  /\ batch_size' = [batch_size EXCEPT ![q] = @ + 1]
  /\ UNCHANGED <<mainVars, wpc, t, endflag, crashed>>

SeeEndIgnored(q) ==
  /\ InRound(q)
  /\ qs[q][seq[q]] = EndMark
  /\ UNCHANGED vars

SeeEnd(q) ==
  /\ InRound(q)
  /\ qs[q][seq[q]] = EndMark
  /\ endflag' = [endflag EXCEPT ![q] = TRUE]
  /\ UNCHANGED <<mainVars, wpc, seq, t, batch_size, keys, keybuf, found, looked,
                 crashed>>

MustLookUpOverfull(q) == ~endflag[q] /\ Len(keys[q]) > BATCH_SIZE

\* A full MultiGet, or all keys of the round.
MustLookUp(q) ==
  IF program = "rocksdb" THEN ~endflag[q] /\ Len(keys[q]) = BATCH_SIZE
  ELSE keys[q] # <<>>

EndRoundKeepsKeys(q) ==
  /\ wpc[q] = "take"
  /\ ~InRound(q)
  /\ \/ MustLookUp(q) /\ LookUp(q, keys[q], keybuf[q])
     \/ ~MustLookUp(q) /\ UNCHANGED <<found, looked>>
  /\ wpc' = [wpc EXCEPT ![q] = IF endflag[q] THEN "report" ELSE "poll"]
  /\ UNCHANGED <<mainVars, seq, t, batch_size, keys, keybuf, endflag, crashed>>

EndRound(q) ==
  /\ wpc[q] = "take"
  /\ ~InRound(q)
  /\ \/ /\ MustLookUp(q)
        /\ LookUp(q, keys[q], keybuf[q])
        /\ keys' = [keys EXCEPT ![q] = <<>>]
     \/ /\ ~MustLookUp(q)
        /\ UNCHANGED <<found, looked, keys>>
  /\ wpc' = [wpc EXCEPT ![q] = IF endflag[q] THEN "report" ELSE "poll"]
  /\ UNCHANGED <<mainVars, seq, t, batch_size, keybuf, endflag, crashed>>

\* The report divides by the number of requests taken; read_test.cpp returns
\* first if there are none.
Report(q) ==
  LET divides == program # "rocksdb" /\ seq[q] = 0
  IN  /\ wpc[q] = "report"
      /\ wpc' = [wpc EXCEPT ![q] = IF divides THEN @ ELSE "done"]
      /\ crashed' = divides
      /\ UNCHANGED <<mainVars, seq, t, batch_size, keys, keybuf, endflag, found,
                     looked>>

-----------------------------------------------------------------------------
Init ==
  /\ program \in Programs
  /\ loaded \in Loads
  /\ pc = IF NothingToRead THEN "mark" ELSE "store"
  /\ i = 0 /\ j = 0 /\ key = 0
  /\ qs = [q \in Queues |-> [p \in Positions |-> UnusedSlot]]
  /\ tail = [q \in Queues |-> 0]
  /\ wpc = [q \in Queues |-> "poll"]
  /\ seq = [q \in Queues |-> 0]
  /\ t = [q \in Queues |-> 0]
  /\ batch_size = [q \in Queues |-> 0]
  /\ keys = [q \in Queues |-> <<>>]
  /\ keybuf = [q \in Queues |-> 0]
  /\ endflag = [q \in Queues |-> FALSE]
  /\ found = [q \in Queues |-> 0]
  /\ looked = [q \in Queues |-> <<>>]
  /\ crashed = FALSE

Main ==
  \/ \E k \in Keys : MayReturn(k) /\ Store(k)
  \/ Publish
  \/ Mark
  \/ Join

Worker(q) == Poll(q) \/ Take(q) \/ SeeEnd(q) \/ EndRound(q) \/ Report(q)

Returned == pc = "done" \/ crashed

Next ==
  \/ ~Returned /\ Main
  \/ ~Returned /\ \E q \in Queues : Worker(q)
  \/ Returned /\ UNCHANGED vars

Spec == Init /\ [][Next]_vars

\* Every thread keeps being scheduled.
FairSpec ==
  /\ Spec
  /\ WF_vars(~Returned /\ Main)
  /\ \A q \in Queues : WF_vars(~Returned /\ Worker(q))

-----------------------------------------------------------------------------
(* Properties. *)

\* Wherever the snapshots of tail cut the queue into rounds, a worker answers
\* its requests in queue order, each of them once, and those it has taken and
\* not answered are the ones in keys.
LookupsInOrder ==
  \A q \in Queues :
    /\ \A x \in 1 .. Len(looked[q]) : looked[q][x].pos = x - 1
    /\ \A x \in 1 .. Len(keys[q]) : keys[q][x] = Len(looked[q]) + x - 1
    /\ Len(looked[q]) + Len(keys[q]) = seq[q]

\* Every request is executed before its worker returns, except that read_test.cpp
\* drops the keys of an incomplete MultiGet, fewer than BATCH_SIZE.
DropsLessThanBatch ==
  \A q \in Queues : wpc[q] = "done" =>
    seq[q] - Len(looked[q]) < IF program = "rocksdb" THEN BATCH_SIZE ELSE 1

\* The WiredTiger program, whose lookups do not share a key buffer, reports as
\* found the number of its requests whose key is loaded.
FoundIsExact ==
  \A q \in Queues : program = "wiredtiger" /\ wpc[q] = "report" =>
    found[q] = Cardinality({p \in 0 .. seq[q] - 1 : qs[q][p] \in loaded})

\* Only a queue that was issued no request makes its worker divide by zero, and
\* not in read_test.cpp: a worker that is faster than main does not take an
\* unused slot, which looks like an end mark, for the end of its queue.
CrashOnlyIfIdle ==
  crashed =>
    program # "rocksdb" /\ \E q \in Queues : tail[q] = 1 /\ j > q

\* main joins every worker, or the process is killed.
Termination == <>Returned

=============================================================================
