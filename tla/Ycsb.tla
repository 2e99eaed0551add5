-------------------------------- MODULE Ycsb --------------------------------
(***************************************************************************)
(* The p2KVS engine as ycsb.cpp builds it: the main thread routes the      *)
(* requests of a trace to one append-only array of slots per worker, and   *)
(* each worker feeds its own RocksDB instance, merging consecutive writes  *)
(* into a WriteBatch and point queries into a MultiGet.                    *)
(*                                                                         *)
(* qs and tail are plain shared memory.  Every store of the main thread is *)
(* a step of its own; StoresInOrder = FALSE lets the stores of the two     *)
(* unrolled loops over the queues happen in any order, as g++ -O3 emits    *)
(* them.  A request is known by its position in its queue, and a version   *)
(* of a key by the position of the write request that produced it.         *)
(***************************************************************************)
EXTENDS Integers, Sequences

CONSTANTS
  QUEUE_NUM,          \* queues = workers = RocksDB instances
  TOTAL_NUM,          \* bound on the commands of a trace
  EXPAND_QUEUE_SIZE,  \* spare slots of a queue
  BATCH_SIZE,         \* keys of a full MultiGet
  WRITE_BATCH_SIZE,   \* puts of a full WriteBatch
  Keys,               \* keys the trace uses
  MULTISCAN,          \* TRUE: workers scan; FALSE: the main thread scans
  StoresInOrder,      \* the loops over the queues store in program order
  WriteFaults         \* DB::Write may return an error

ASSUME ConstantsAssumption ==
  /\ QUEUE_NUM \in Nat \ {0}
  /\ TOTAL_NUM \in Nat
  /\ EXPAND_QUEUE_SIZE \in Nat
  /\ BATCH_SIZE \in Nat \ {0}
  /\ WRITE_BATCH_SIZE \in Nat \ {0}
  /\ Keys \subseteq Nat /\ 0 \in Keys
  /\ MULTISCAN \in BOOLEAN
  /\ StoresInOrder \in BOOLEAN
  /\ WriteFaults \in BOOLEAN

Queues == 0 .. QUEUE_NUM - 1

QUEUE_LEN == TOTAL_NUM \div QUEUE_NUM + EXPAND_QUEUE_SIZE

Positions == 0 .. QUEUE_LEN - 1

\* A queue has room for a whole trace and the end mark, as in the build for
\* scans (EXPAND_QUEUE_SIZE = TOTAL_NUM).
ASSUME CapacityAssumption == TOTAL_NUM < QUEUE_LEN

None == -1

EndKey == -1

DbKeys == Keys \cup {EndKey}

\* seq tells a request (0) from the end mark (-1); scan_size a point request
\* (-1) from a scan (1).
Slots == [seq : {0, -1}, key : DbKeys, scan_size : {-1, 1},
          write : BOOLEAN]

DefaultSlot == [seq |-> 0, key |-> 0, scan_size |-> -1, write |-> FALSE]

VARIABLES
  pc,          \* main: "issue", "wait", "open", "join", "done"
  i,           \* main: commands taken from the trace
  j,           \* main: instance reached by a single-thread scan
  cmd,         \* main: the slot contents being stored
  stores,      \* main: stores of the current command still to be made
  qs, tail,    \* the queues and their published lengths
  busy,        \* a worker is past its first idle wait and not waiting
  wpc,         \* worker: "top" of the loop, "idle", "report", "done"
  seq,         \* worker: requests taken
  batch,       \* worker: WriteBatch, the version it will install per key
  batch_size,  \* worker: counter of the puts in batch
  mkeys,       \* worker: mutliget_keys, the positions of the pending reads
  keybuf,      \* worker: the buffer key[], which every pending Slice points to
  values,      \* worker: what the last MultiGet looked up and found
  db,          \* the version each instance holds per key
  failed,      \* history: positions of writes whose DB::Write failed
  lastWrite,   \* history: position of the last write issued per key
  crashed      \* a division by zero killed the process

mainVars == <<pc, i, j, cmd, stores, qs, tail, lastWrite>>
workerVars == <<busy, wpc, seq, batch, batch_size, mkeys, keybuf, values, db,
                failed>>
vars == <<mainVars, workerVars, crashed>>

-----------------------------------------------------------------------------
(* The main thread. *)

Route(k) == k % QUEUE_NUM

TargetBeyondTail(q) ==
  IF <<q, "tail">> \in stores THEN tail[q] + 1 ELSE tail[q]

\* The slot a store goes to: tail[q] as it was before this command's tail[q]++.
Target(q) == IF <<q, "tail">> \in stores THEN tail[q] ELSE tail[q] - 1

FieldRankTailEarly ==
  [seq |-> 1, key |-> 2, tail |-> 3, scan_size |-> 4, write |-> 5]

FieldRank == [seq |-> 1, key |-> 2, scan_size |-> 3, write |-> 4, tail |-> 5]

\* The store is the next one in program order.
IsNext(q, f) ==
  \A s \in stores :
    q < s[1] \/ (q = s[1] /\ FieldRank[f] <= FieldRank[s[2]])

\* The loops over all queues: scans and end marks.
IsBroadcast == cmd.scan_size # -1 \/ cmd.seq = -1

MayStore(q, f) == IsNext(q, f) \/ (IsBroadcast /\ ~StoresInOrder)

Stored(slot, f) ==
  CASE f = "seq" -> [slot EXCEPT !.seq = cmd.seq]
    [] f = "key" -> [slot EXCEPT !.key = cmd.key]
    [] f = "scan_size" -> [slot EXCEPT !.scan_size = cmd.scan_size]
    [] f = "write" -> [slot EXCEPT !.write = cmd.write]

\* One store of the current command.
Store(q, f) ==
  /\ <<q, f>> \in stores
  /\ MayStore(q, f)
  /\ stores' = stores \ {<<q, f>>}
  /\ \/ /\ f = "tail"
        /\ tail' = [tail EXCEPT ![q] = @ + 1]
        /\ UNCHANGED qs
     \/ /\ f # "tail"
        /\ qs' = [qs EXCEPT ![q][Target(q)] = Stored(@, f)]
        /\ UNCHANGED tail
  /\ UNCHANGED <<pc, i, j, cmd, lastWrite, workerVars, crashed>>

NextCommand ==
  /\ pc = "issue"
  /\ stores = {}
  /\ i < TOTAL_NUM
  /\ i' = i + 1
  /\ UNCHANGED <<qs, tail, workerVars, crashed>>

IssueRead(k) ==
  /\ NextCommand
  /\ cmd' = [seq |-> 0, key |-> k, scan_size |-> -1, write |-> FALSE]
  /\ stores' = {Route(k)} \X {"seq", "key", "write", "tail"}
  /\ UNCHANGED <<pc, j, lastWrite>>

IssueWrite(k) ==
  /\ NextCommand
  /\ cmd' = [seq |-> 0, key |-> k, scan_size |-> -1, write |-> TRUE]
  /\ stores' = {Route(k)} \X {"seq", "key", "write", "tail"}
  /\ lastWrite' = [lastWrite EXCEPT ![k] = tail[Route(k)]]
  /\ UNCHANGED <<pc, j>>

\* 'D', and any letter main does not know: nothing is enqueued.
IssueOther ==
  /\ NextCommand
  /\ UNCHANGED <<pc, j, cmd, stores, lastWrite>>

IssueScan(k) ==
  /\ NextCommand
  /\ \/ /\ MULTISCAN
        /\ cmd' = [seq |-> 0, key |-> k, scan_size |-> 1, write |-> FALSE]
        /\ stores' = Queues \X {"seq", "key", "scan_size", "write", "tail"}
        /\ UNCHANGED <<pc, j>>
     \/ /\ ~MULTISCAN
        /\ pc' = "wait"
        /\ j' = 0
        /\ UNCHANGED <<cmd, stores>>
  /\ UNCHANGED lastWrite

\* Both loops of a single-thread scan visit the instances in order.
VisitNext(here, next) ==
  /\ pc = here
  /\ IF j + 1 < QUEUE_NUM THEN j' = j + 1 /\ pc' = pc ELSE j' = 0 /\ pc' = next
  /\ UNCHANGED <<i, cmd, stores, qs, tail, lastWrite, workerVars, crashed>>

WaitIdle == ~busy[j] /\ VisitNext("wait", "open")

\* NewIterator; the merged iteration that follows the last one only reads.
OpenIterator == VisitNext("open", "issue")

EndTrace ==
  /\ pc = "issue"
  /\ stores = {}
  /\ pc' = "join"
  /\ cmd' = [seq |-> -1, key |-> EndKey, scan_size |-> -1, write |-> FALSE]
  /\ stores' = Queues \X {"seq", "key", "tail"}
  /\ UNCHANGED <<i, j, qs, tail, lastWrite, workerVars, crashed>>

\* Join the workers; the report divides by the number of commands.
Join ==
  /\ pc = "join"
  /\ stores = {}
  /\ \A q \in Queues : wpc[q] = "done"
  /\ pc' = IF i = 0 THEN pc ELSE "done"
  /\ crashed' = (i = 0)
  /\ UNCHANGED <<i, j, cmd, stores, qs, tail, lastWrite, workerVars>>

-----------------------------------------------------------------------------
(* The workers. *)

NoPuts == [k \in DbKeys |-> None]

\* The contents of an instance after a WriteBatch.
Install(d, b) == [k \in DbKeys |-> IF b[k] # None THEN b[k] ELSE d[k]]

\* db->Write of the n puts b of the requests before position end, if any.
DbWrite(q, b, n, end) ==
  \/ n = 0 /\ UNCHANGED <<db, failed>>
  \/ n > 0 /\ db' = [db EXCEPT ![q] = Install(@, b)] /\ UNCHANGED failed
  \/ /\ n > 0
     /\ WriteFaults
     /\ failed' = [failed EXCEPT ![q] = @ \cup (end - n .. end - 1)]
     /\ UNCHANGED db

FlushKeepsCount(q, b, n, end) ==
  /\ DbWrite(q, b, n, end)
  /\ batch' = [batch EXCEPT ![q] = IF n > 0 THEN NoPuts ELSE b]
  /\ batch_size' = [batch_size EXCEPT ![q] = n]

FlushSkipsSingle(q, b, n, end) ==
  IF n = 1
  THEN /\ batch' = [batch EXCEPT ![q] = b]
       /\ batch_size' = [batch_size EXCEPT ![q] = n]
       /\ UNCHANGED <<db, failed>>
  ELSE /\ DbWrite(q, b, n, end)
       /\ batch' = [batch EXCEPT ![q] = NoPuts]
       /\ batch_size' = [batch_size EXCEPT ![q] = 0]

\* db->Write and batch.Clear.
Flush(q, b, n, end) ==
  /\ DbWrite(q, b, n, end)
  /\ batch' = [batch EXCEPT ![q] = IF n > 0 THEN NoPuts ELSE b]
  /\ batch_size' = [batch_size EXCEPT ![q] = 0]

\* db->MultiGet of the pending Slices, which all read the buffer k.
MultiGet(q, pending, k) ==
  values' = [values EXCEPT ![q] =
               IF pending = <<>> THEN @
               ELSE [x \in 1 .. Len(pending) |->
                       [pos |-> pending[x], key |-> k, ver |-> db'[q][k]]]]

AlmostEmpty(q) == seq[q] + 1 >= tail[q]

Empty(q) == seq[q] >= tail[q]

\* No request is queued: execute what is pending and go to sleep.
Drain(q) ==
  /\ wpc[q] = "top"
  /\ Empty(q)
  /\ Flush(q, batch[q], batch_size[q], seq[q])
  /\ MultiGet(q, mkeys[q], keybuf[q])
  /\ mkeys' = [mkeys EXCEPT ![q] = <<>>]
  /\ busy' = [busy EXCEPT ![q] = FALSE]
  /\ wpc' = [wpc EXCEPT ![q] = "idle"]
  /\ UNCHANGED <<mainVars, seq, keybuf, crashed>>

Wake(q) ==
  /\ wpc[q] = "idle"
  /\ seq[q] < tail[q]
  /\ busy' = [busy EXCEPT ![q] = TRUE]
  /\ wpc' = [wpc EXCEPT ![q] = "top"]
  /\ UNCHANGED <<mainVars, seq, batch, batch_size, mkeys, keybuf, values, db,
                 failed, crashed>>

Request(q) == qs[q][seq[q]]

Taking(q) == wpc[q] = "top" /\ ~Empty(q)

TakeOldKey(q) ==
  /\ Taking(q)
  /\ Request(q).seq # -1
  /\ seq' = [seq EXCEPT ![q] = @ + 1]
  /\ UNCHANGED <<mainVars, busy, wpc, keybuf, crashed>>

\* A request that is not the end mark: count it and write its key to key[].
Take(q) ==
  /\ Taking(q)
  /\ Request(q).seq # -1
  /\ seq' = [seq EXCEPT ![q] = @ + 1]
  /\ keybuf' = [keybuf EXCEPT ![q] = Request(q).key]
  /\ UNCHANGED <<mainVars, busy, wpc, crashed>>

BatchOverfull(n) == n > WRITE_BATCH_SIZE

BatchFull(n) == n >= WRITE_BATCH_SIZE

TakeWrite(q) ==
  LET b == [batch[q] EXCEPT ![Request(q).key] = seq[q]]
      n == batch_size[q] + 1
  IN  /\ Take(q)
      /\ Request(q).write
      /\ \/ /\ BatchFull(n)
            /\ Flush(q, b, n, seq[q] + 1)
         \/ /\ ~BatchFull(n)
            /\ batch' = [batch EXCEPT ![q] = b]
            /\ batch_size' = [batch_size EXCEPT ![q] = n]
            /\ UNCHANGED <<db, failed>>
      /\ UNCHANGED <<mkeys, values>>

TakeRead(q) ==
  LET pending == Append(mkeys[q], seq[q])
  IN  /\ Take(q)
      /\ ~Request(q).write
      /\ Request(q).scan_size = -1
      /\ Flush(q, batch[q], batch_size[q], seq[q])
      /\ \/ /\ Len(pending) = BATCH_SIZE
            /\ MultiGet(q, pending, keybuf'[q])
            /\ mkeys' = [mkeys EXCEPT ![q] = <<>>]
         \/ /\ Len(pending) # BATCH_SIZE
            /\ mkeys' = [mkeys EXCEPT ![q] = pending]
            /\ UNCHANGED values

\* The scan itself only reads the instance.
TakeScan(q) ==
  /\ Take(q)
  /\ ~Request(q).write
  /\ Request(q).scan_size # -1
  /\ Flush(q, batch[q], batch_size[q], seq[q])
  /\ UNCHANGED <<mkeys, values>>

TakeEndDropsBatch(q) ==
  /\ Taking(q)
  /\ Request(q).seq = -1
  /\ wpc' = [wpc EXCEPT ![q] = "report"]
  /\ UNCHANGED <<mainVars, busy, seq, batch, batch_size, mkeys, keybuf, values,
                 db, failed, crashed>>

TakeEnd(q) ==
  /\ Taking(q)
  /\ Request(q).seq = -1
  /\ DbWrite(q, batch[q], batch_size[q], seq[q])
  /\ MultiGet(q, mkeys[q], keybuf[q])
  /\ wpc' = [wpc EXCEPT ![q] = "report"]
  /\ UNCHANGED <<mainVars, busy, seq, batch, batch_size, mkeys, keybuf, crashed>>

ReportOneLess(q) ==
  /\ wpc[q] = "report"
  /\ wpc' = [wpc EXCEPT ![q] = IF seq[q] = 1 THEN @ ELSE "done"]
  /\ crashed' = (seq[q] = 1)
  /\ UNCHANGED <<mainVars, busy, seq, batch, batch_size, mkeys, keybuf, values,
                 db, failed>>

\* The report divides by the number of requests taken.
Report(q) ==
  /\ wpc[q] = "report"
  /\ wpc' = [wpc EXCEPT ![q] = IF seq[q] = 0 THEN @ ELSE "done"]
  /\ crashed' = (seq[q] = 0)
  /\ UNCHANGED <<mainVars, busy, seq, batch, batch_size, mkeys, keybuf, values,
                 db, failed>>

-----------------------------------------------------------------------------
Init ==
  /\ pc = "issue" /\ i = 0 /\ j = 0 /\ cmd = DefaultSlot /\ stores = {}
  /\ qs = [q \in Queues |-> [p \in Positions |-> DefaultSlot]]
  /\ tail = [q \in Queues |-> 0]
  /\ busy = [q \in Queues |-> FALSE]
  /\ wpc = [q \in Queues |-> "top"]
  /\ seq = [q \in Queues |-> 0]
  /\ batch = [q \in Queues |-> NoPuts]
  /\ batch_size = [q \in Queues |-> 0]
  /\ mkeys = [q \in Queues |-> <<>>]
  /\ keybuf = [q \in Queues |-> EndKey]
  /\ values = [q \in Queues |-> <<>>]
  /\ db = [q \in Queues |-> NoPuts]
  /\ failed = [q \in Queues |-> {}]
  /\ lastWrite = [k \in Keys |-> None]
  /\ crashed = FALSE

Main ==
  \/ \E k \in Keys : IssueRead(k) \/ IssueWrite(k) \/ IssueScan(k)
  \/ IssueOther
  \/ \E s \in stores : Store(s[1], s[2])
  \/ WaitIdle
  \/ OpenIterator
  \/ EndTrace
  \/ Join

Worker(q) ==
  \/ Drain(q)
  \/ Wake(q)
  \/ TakeWrite(q)
  \/ TakeRead(q)
  \/ TakeScan(q)
  \/ TakeEnd(q)
  \/ Report(q)

Returned == pc = "done" \/ crashed

Next ==
  \/ ~Returned /\ Main
  \/ ~Returned /\ \E q \in Queues : Worker(q)
  \/ Returned /\ UNCHANGED vars

Spec == Init /\ [][Next]_vars

\* Every thread keeps being scheduled.
WorkerFairness == \A q \in Queues : WF_vars(~Returned /\ Worker(q))

FairSpec == Spec /\ WF_vars(~Returned /\ Main) /\ WorkerFairness

\* Only the workers are known to be scheduled: the issuing thread may stall.
StallSpec == Spec /\ WorkerFairness

-----------------------------------------------------------------------------
(* Properties. *)

MainTypeOK ==
  /\ pc \in {"issue", "wait", "open", "join", "done"}
  /\ i \in 0 .. TOTAL_NUM
  /\ j \in Queues
  /\ cmd \in Slots
  /\ stores \subseteq
       Queues \X {"seq", "key", "scan_size", "write", "tail"}
  /\ qs \in [Queues -> [Positions -> Slots]]
  /\ tail \in [Queues -> Nat]
  /\ lastWrite \in [Keys -> Nat \cup {None}]

WorkerTypeOK ==
  /\ busy \in [Queues -> BOOLEAN]
  /\ wpc \in [Queues -> {"top", "idle", "report", "done"}]
  /\ seq \in [Queues -> Nat]
  /\ batch \in [Queues -> [DbKeys -> Nat \cup {None}]]
  /\ batch_size \in [Queues -> Nat]
  /\ mkeys \in [Queues -> Seq(Nat)]
  /\ keybuf \in [Queues -> DbKeys]
  /\ values \in [Queues -> Seq([pos : Nat, key : DbKeys,
                                ver : Nat \cup {None}])]
  /\ db \in [Queues -> [DbKeys -> Nat \cup {None}]]
  /\ failed \in [Queues -> SUBSET Nat]

\* Type correctness of the shared arrays, of main's and of the workers' locals.
TypeOK == MainTypeOK /\ WorkerTypeOK /\ crashed \in BOOLEAN

\* Requests taken whose write is still in the WriteBatch only.  The batch is
\* not cleared when the worker leaves its loop.
Held(q) == IF wpc[q] \in {"top", "idle"} THEN batch_size[q] ELSE 0

\* A write request for k, in slot p of queue q, whose DB::Write did not fail.
GoodWrite(q, k, p) ==
  /\ qs[q][p].write
  /\ qs[q][p].key = k
  /\ p \notin failed[q]

\* v is the last good write to k among the slots from .. to - 1 of queue q.
IsLastWrite(q, k, from, to, v) ==
  IF v = None
  THEN \A p \in from .. to - 1 : ~GoodWrite(q, k, p)
  ELSE /\ v \in from .. to - 1
       /\ GoodWrite(q, k, v)
       /\ \A p \in v + 1 .. to - 1 : ~GoodWrite(q, k, p)

Sequential(q) ==
  \A k \in DbKeys : IsLastWrite(q, k, 0, seq[q] - Held(q), db[q][k])

RecentBatch(q) ==
  LET start == seq[q] - batch_size[q]
  IN  /\ batch_size[q] < WRITE_BATCH_SIZE
      /\ Len(mkeys[q]) < BATCH_SIZE
      /\ \A p \in start .. seq[q] - 1 : qs[q][p].write
      /\ \A k \in DbKeys : IsLastWrite(q, k, start, seq[q], batch[q][k])
      /\ \A x \in 1 .. Len(mkeys[q]) : mkeys[q][x] < start

\* However its requests were cut into batches, an instance holds exactly what
\* executing the requests its worker has taken, except the ones still in the
\* WriteBatch, one after the other would have left (worker_thread's five calls
\* of DB::Write).
DbIsSequential == \A q \in Queues : Sequential(q)

\* batch and batch_size agree: the WriteBatch holds the last batch_size
\* requests taken, all of them writes, and the pending reads come before them
\* (batch.Clear and batch_size = 0 in each branch of worker_thread).
BatchIsRecent ==
  \A q \in Queues : wpc[q] \in {"top", "idle"} => RecentBatch(q)

\* A MultiGet returns, for the key it looks up, no version older than the last
\* write queued before the read (the flush in front of a point query).
NoStaleRead ==
  \A q \in Queues : \A x \in 1 .. Len(values[q]) :
    LET r == values[q][x]
    IN  \A p \in 0 .. r.pos - 1 : GoodWrite(q, r.key, p) => p <= r.ver

\* Each point query looks up the key of its own request: the Slice handed to
\* MultiGet still has the key it was made for.
ReadsOwnKey ==
  \A q \in Queues : \A x \in 1 .. Len(values[q]) :
    values[q][x].key = qs[q][values[q][x].pos].key

\* Once main has joined the workers, the instance a key is routed to holds the
\* last write the trace has for it, unless DB::Write failed for that write, and
\* no other instance holds the key.
FinalDbMatchesTrace ==
  pc = "done" =>
    \A k \in Keys, q \in Queues :
      IF q = Route(k)
      THEN lastWrite[k] \in failed[q] \/ db[q][k] = lastWrite[k]
      ELSE db[q][k] = None

\* Every slot main stores to is inside its queue's row of qs.
SlotInBounds ==
  \A s \in stores : s[2] # "tail" => Target(s[1]) \in Positions

\* A slot a worker may read is never stored to again.
PublishedSlotsStable ==
  [][\A q \in Queues, p \in Positions :
       p < tail[q] => qs'[q][p] = qs[q][p]]_vars

\* When a single-thread scan opens its iterator on an instance, the instance
\* holds every earlier write of the trace ("wait for previous reqeusts
\* finishing").
ScanSeesEarlierWrites ==
  [][pc = "open" /\ (j' # j \/ pc' # pc) =>
       \A k \in Keys : Route(k) = j => db[j][k] = lastWrite[k]]_vars

\* main joins every worker, or the process is killed.
Termination == <>Returned

\* If main keeps being scheduled too, single-thread scans do not block it for
\* ever and the program ends (the loop over busy[j]).
EndsIfScheduled == WF_vars(~Returned /\ Main) => <>Returned

\* A worker that has gone past the end mark: main has stored everything, and
\* the worker waits for more.
EndMarkMissed(q) ==
  /\ pc = "join" /\ stores = {}
  /\ wpc[q] = "idle" /\ seq[q] = tail[q]

\* Even when tail is published before the slot is stored, nothing but an end
\* mark taken for a request keeps the program from ending: no request that is
\* taken too early, and no batch it leaves behind, makes a worker wait for ever.
HangsOnlyPastEndMark == <>(Returned \/ \E q \in Queues : EndMarkMissed(q))

\* The divisions in the reports fail only if some queue got nothing but its end
\* mark; which worker meets it first, and what the others have done by then,
\* does not matter.
CrashOnlyIfIdle ==
  crashed => \E q \in Queues : tail[q] = 1 /\ qs[q][0].seq = -1

\* Every published request is executed even if main never issues another one:
\* no request waits in a batch for later requests to fill it.
PublishedIsExecuted ==
  \A q \in Queues, p \in Positions :
    p < tail[q] ~>
      \/ crashed
      \/ wpc[q] \in {"report", "done"}
      \/ /\ p < seq[q] - batch_size[q]
         /\ \A x \in 1 .. Len(mkeys[q]) : mkeys[q][x] # p

-----------------------------------------------------------------------------
(* The inductive strengthening of the safety properties. *)

\* The length of a queue, with the current command if it is not published.
Issued(q) == IF <<q, "tail">> \in stores THEN tail[q] + 1 ELSE tail[q]

\* No queue is longer than the trace read so far and the end mark.
LengthInv ==
  \A q \in Queues :
    Issued(q) <= IF pc \in {"join", "done"} THEN i + 1 ELSE i

\* Beyond tail only the slot being stored can be a write.
UnpublishedInv ==
  \A q \in Queues, p \in Positions :
    p >= tail[q] /\ qs[q][p].write =>
      cmd.write /\ p = tail[q] /\ <<q, "tail">> \in stores

\* A slot that is stored to after it was published is not a write.
EarlyTailInv ==
  \A s \in stores : <<s[1], "tail">> \notin stores =>
    ~cmd.write /\ tail[s[1]] > 0 /\ ~qs[s[1]][tail[s[1]] - 1].write

QueueInv ==
  /\ IsBroadcast => ~cmd.write
  /\ LengthInv /\ UnpublishedInv /\ EarlyTailInv

\* A worker stays behind its tail, and only executed writes have failed.
Progress(q) ==
  /\ seq[q] <= tail[q]
  /\ Held(q) <= seq[q]
  /\ failed[q] \subseteq 0 .. seq[q] - Held(q) - 1

ProgressInv == \A q \in Queues : Progress(q)

IndInv == TypeOK /\ QueueInv /\ ProgressInv /\ BatchIsRecent /\ DbIsSequential

=============================================================================
