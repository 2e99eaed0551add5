------------------------------ MODULE ScanTest ------------------------------
(***************************************************************************)
(* The range query test, scan_test.cpp, as it is built (MULTITHREAD_SCAN   *)
(* is defined).  main sends every range query to every queue; a worker     *)
(* scans its instance into scans[q], and a merge thread merges what the    *)
(* workers scanned.  Workers and merge thread take turns on scans[q]       *)
(* through the plain variable scan_status[q]:                              *)
(*                                                                         *)
(*   SCAN_OVER --worker--> MERGE_START --merge--> NEED_ITER                *)
(*   NEED_ITER --worker--> ITER_OVER   --merge--> NEED_ITER                *)
(*   MERGE_START, ITER_OVER --merge--> SCAN_OVER                           *)
(*                                                                         *)
(* scans[q] is reserved, never resized: what the first fill stores does    *)
(* not count in size(), and every Slice in it points to a string that has  *)
(* been destroyed.  What FindSmallest compares is therefore arbitrary, and *)
(* it may choose any child.                                                *)
(***************************************************************************)
EXTENDS Integers, Sequences

CONSTANTS
  QUEUE_NUM,   \* queues = workers = database instances
  READ_NUM,    \* range queries
  SCAN_SIZE,   \* keys of a range query: 100, in main and in merge_thread
  KeyNums      \* numbers of keys an instance may hold

ASSUME ConstantsAssumption ==
  /\ QUEUE_NUM \in Nat \ {0}
  /\ READ_NUM \in Nat \ {0}
  /\ SCAN_SIZE \in Nat \ {0}
  /\ KeyNums \subseteq Nat

Queues == 0 .. QUEUE_NUM - 1

Status == {"SCAN_OVER", "MERGE_START", "NEED_ITER", "ITER_OVER"}

VARIABLES
  keyNum,       \* keys each instance holds
  pc,           \* main: "issue", "mark", "join", "done"
  i, q_num,     \* main: the query, and the queue it is put into next
  qs,           \* the published requests: "scan" or "end", tail = Len(qs[q])
  wpc,          \* worker: "poll", "fill", "wait", "more", "clear", "done"
  seq,          \* worker: requests finished
  pos,          \* worker: the key its iterator is on, keyNum + 1 when invalid
  size,         \* scans[q].size()
  scan_status,
  mpc,          \* merge thread: "await", "merge", "need", "over", "done"
  mseq,         \* merge thread: queries merged
  mi,           \* merge thread: loop counter over the queues
  n,            \* merge thread: steps of the merged iterator so far
  now, current, \* vector_merge_iter
  crashed       \* assert(s) or a Next() past the end killed the process

mainVars == <<keyNum, pc, i, q_num, qs>>
workerVars == <<wpc, seq, pos, size>>
mergeVars == <<mpc, mseq, mi, n, now, current>>
vars == <<mainVars, workerVars, scan_status, mergeVars, crashed>>

MainTypeOK ==
  /\ keyNum \in [Queues -> KeyNums]
  /\ pc \in {"issue", "mark", "join", "done"}
  /\ i \in 0 .. READ_NUM
  /\ q_num \in Queues
  /\ qs \in [Queues -> Seq({"scan", "end"})]

WorkerTypeOK ==
  /\ wpc \in [Queues -> {"poll", "fill", "wait", "more", "clear", "done"}]
  /\ seq \in [Queues -> 0 .. READ_NUM]
  /\ pos \in [Queues -> Nat] /\ \A q \in Queues : pos[q] <= keyNum[q] + 1
  /\ size \in [Queues -> Nat] /\ \A q \in Queues : size[q] <= keyNum[q]
  /\ scan_status \in [Queues -> Status]

MergeTypeOK ==
  /\ mpc \in {"await", "merge", "need", "over", "done"}
  /\ mseq \in 0 .. READ_NUM
  /\ mi \in Queues
  /\ n \in 0 .. SCAN_SIZE - 1
  /\ now \in [Queues -> 0 .. SCAN_SIZE - 1]
  /\ current \in Queues

\* Types, and the bounds of the counters of all threads.
TypeOK == MainTypeOK /\ WorkerTypeOK /\ MergeTypeOK /\ crashed \in BOOLEAN

-----------------------------------------------------------------------------
(* The main thread.  tail is atomic: a slot is stored before its publication, *)
(* and read after it.                                                         *)

Issue ==
  /\ pc = "issue"
  /\ qs' = [qs EXCEPT ![q_num] = Append(@, "scan")]
  /\ q_num' = (q_num + 1) % QUEUE_NUM
  /\ i' = IF q_num + 1 = QUEUE_NUM THEN i + 1 ELSE i
  /\ pc' = IF i' = READ_NUM THEN "mark" ELSE "issue"
  /\ UNCHANGED <<keyNum, workerVars, scan_status, mergeVars, crashed>>

Mark ==
  /\ pc = "mark"
  /\ qs' = [qs EXCEPT ![q_num] = Append(@, "end")]
  /\ q_num' = (q_num + 1) % QUEUE_NUM
  /\ pc' = IF q_num + 1 = QUEUE_NUM THEN "join" ELSE "mark"
  /\ UNCHANGED <<keyNum, i, workerVars, scan_status, mergeVars, crashed>>

Join ==
  /\ pc = "join"
  /\ \A q \in Queues : wpc[q] = "done"
  /\ mpc = "done"
  /\ pc' = "done"
  /\ UNCHANGED <<keyNum, i, q_num, qs, workerVars, scan_status, mergeVars, crashed>>

Main == Issue \/ Mark \/ Join

-----------------------------------------------------------------------------
(* The workers. *)

Lesser(a, b) == IF a <= b THEN a ELSE b

\* Mutant: a worker whose iterator is not valid takes part in the merge.
TakeSignalsAlways(q) ==
  /\ wpc[q] = "poll"
  /\ seq[q] < Len(qs[q])
  /\ wpc' = [wpc EXCEPT ![q] = IF qs[q][seq[q] + 1] = "end" THEN "done" ELSE "fill"]
  /\ pos' = [pos EXCEPT ![q] = 1]
  /\ UNCHANGED <<mainVars, seq, size, scan_status, mergeVars, crashed>>

\* The next request: the end mark, or a new iterator and its Seek.  A worker
\* whose iterator is not valid is through with the request: it neither fills
\* scans[q] nor takes part in the merge.
Take(q) ==
  /\ wpc[q] = "poll"
  /\ seq[q] < Len(qs[q])
  /\ LET end == qs[q][seq[q] + 1] = "end"
         valid == keyNum[q] > 0
     IN /\ wpc' = [wpc EXCEPT ![q] = IF end THEN "done"
                                     ELSE IF valid THEN "fill" ELSE "poll"]
        /\ seq' = [seq EXCEPT ![q] = IF end \/ valid THEN @ ELSE @ + 1]
        /\ pos' = [pos EXCEPT ![q] = 1]
  /\ UNCHANGED <<mainVars, size, scan_status, mergeVars, crashed>>

\* Mutant: MERGE_START is sent before scans[q] is filled.
FillTooEarly(q) ==
  \/ /\ wpc[q] = "fill"
     /\ scan_status[q] = "SCAN_OVER"
     /\ scan_status' = [scan_status EXCEPT ![q] = "MERGE_START"]
     /\ UNCHANGED <<mainVars, workerVars, mergeVars, crashed>>
  \/ /\ wpc[q] = "fill"
     /\ scan_status[q] # "SCAN_OVER"
     /\ pos' = [pos EXCEPT ![q] = Lesser(SCAN_SIZE, keyNum[q] + 1)]
     /\ wpc' = [wpc EXCEPT ![q] = "wait"]
     /\ UNCHANGED <<mainVars, seq, size, scan_status, mergeVars, crashed>>

\* The first SCAN_SIZE keys, stored beyond scans[q].end().
Fill(q) ==
  /\ wpc[q] = "fill"
  /\ pos' = [pos EXCEPT ![q] = Lesser(SCAN_SIZE, keyNum[q] + 1)]
  /\ scan_status' = [scan_status EXCEPT ![q] = "MERGE_START"]
  /\ wpc' = [wpc EXCEPT ![q] = "wait"]
  /\ UNCHANGED <<mainVars, seq, size, mergeVars, crashed>>

\* while (scan_status != SCAN_OVER): the requests of the merge thread.
Serve(q) ==
  /\ wpc[q] = "wait"
  /\ scan_status[q] = "NEED_ITER"
  /\ wpc' = [wpc EXCEPT ![q] = "more"]
  /\ UNCHANGED <<mainVars, seq, pos, size, scan_status, mergeVars, crashed>>

\* The keys a second scan finds: up to SCAN_SIZE after the one it is on.
Appended(q) ==
  IF pos[q] >= keyNum[q] THEN 0 ELSE Lesser(SCAN_SIZE, keyNum[q] - pos[q])

\* Mutant: the answer to NEED_ITER is MERGE_START.
MoreSendsStart(q) ==
  /\ wpc[q] = "more"
  /\ pos' = [pos EXCEPT ![q] = Lesser(@ + SCAN_SIZE, keyNum[q] + 1)]
  /\ size' = [size EXCEPT ![q] = @ + Appended(q)]
  /\ scan_status' = [scan_status EXCEPT ![q] = "MERGE_START"]
  /\ wpc' = [wpc EXCEPT ![q] = "wait"]
  /\ crashed' \in BOOLEAN /\ (crashed' => pos[q] > keyNum[q])
  /\ UNCHANGED <<mainVars, seq, mergeVars>>

\* Up to SCAN_SIZE more keys, appended.  Next() on an iterator that is not
\* valid is undefined: the process dies, or the iterator stays where it is.
More(q) ==
  /\ wpc[q] = "more"
  /\ pos' = [pos EXCEPT ![q] = Lesser(@ + SCAN_SIZE, keyNum[q] + 1)]
  /\ size' = [size EXCEPT ![q] = @ + Appended(q)]
  /\ scan_status' = [scan_status EXCEPT ![q] = "ITER_OVER"]
  /\ wpc' = [wpc EXCEPT ![q] = "wait"]
  /\ crashed' \in BOOLEAN /\ (crashed' => pos[q] > keyNum[q])
  /\ UNCHANGED <<mainVars, seq, mergeVars>>

Leave(q) ==
  /\ wpc[q] = "wait"
  /\ scan_status[q] = "SCAN_OVER"
  /\ wpc' = [wpc EXCEPT ![q] = "clear"]
  /\ UNCHANGED <<mainVars, seq, pos, size, scan_status, mergeVars, crashed>>

Clear(q) ==
  /\ wpc[q] = "clear"
  /\ size' = [size EXCEPT ![q] = 0]
  /\ seq' = [seq EXCEPT ![q] = @ + 1]
  /\ wpc' = [wpc EXCEPT ![q] = "poll"]
  /\ UNCHANGED <<mainVars, pos, scan_status, mergeVars, crashed>>

Worker(q) == Take(q) \/ Fill(q) \/ Serve(q) \/ More(q) \/ Leave(q) \/ Clear(q)

-----------------------------------------------------------------------------
(* The merge thread. *)

\* Mutant: MERGE_START of one worker is enough.
AwaitFirst ==
  /\ mpc = "await"
  /\ scan_status[mi] = "MERGE_START"
  /\ mi' = 0
  /\ now' = [q \in Queues |-> 0]
  /\ n' = 0
  /\ current' \in Queues
  /\ mpc' = IF SCAN_SIZE = 1 THEN "over" ELSE "merge"
  /\ UNCHANGED <<mainVars, workerVars, scan_status, mseq, crashed>>

\* MERGE_START of one worker after the other, then the merged iterator.
Await ==
  /\ mpc = "await"
  /\ scan_status[mi] = "MERGE_START"
  /\ mi' = (mi + 1) % QUEUE_NUM
  /\ IF mi + 1 < QUEUE_NUM
       THEN UNCHANGED <<now, n, current, mpc>>
       ELSE /\ now' = [q \in Queues |-> 0]
            /\ n' = 0
            /\ current' \in Queues
            /\ mpc' = IF SCAN_SIZE = 1 THEN "over" ELSE "merge"
  /\ UNCHANGED <<mainVars, workerVars, scan_status, mseq, crashed>>

\* Mutants: off by one in either direction.
AtLastTooSoon(q) == size[q] <= now[q] + 2

AtLastTooLate(q) == size[q] <= now[q]

\* vector_merge_iter::Next() fails on the last entry of the current child.
AtLast(q) == size[q] <= now[q] + 1

\* What a Next() that succeeds does, and the loop over SCAN_SIZE - 1 of them.
Advance ==
  /\ ~AtLast(current)
  /\ now' = [now EXCEPT ![current] = @ + 1]
  /\ current' \in Queues
  /\ n' = n + 1
  /\ mpc' = IF n + 1 = SCAN_SIZE - 1 THEN "over" ELSE "merge"
  /\ UNCHANGED <<mainVars, workerVars, scan_status, mseq, mi, crashed>>

MergeNext == mpc = "merge" /\ Advance

NeedIter ==
  /\ mpc = "merge"
  /\ AtLast(current)
  /\ scan_status' = [scan_status EXCEPT ![current] = "NEED_ITER"]
  /\ mpc' = "need"
  /\ UNCHANGED <<mainVars, workerVars, mseq, mi, n, now, current, crashed>>

Resume ==
  /\ mpc = "need"
  /\ scan_status[current] = "ITER_OVER"
  /\ Advance

\* assert(s)
AssertFails ==
  /\ mpc = "need"
  /\ scan_status[current] = "ITER_OVER"
  /\ AtLast(current)
  /\ crashed' = TRUE
  /\ UNCHANGED <<mainVars, workerVars, scan_status, mergeVars>>

Over ==
  /\ mpc = "over"
  /\ scan_status' = [scan_status EXCEPT ![mi] = "SCAN_OVER"]
  /\ mi' = (mi + 1) % QUEUE_NUM
  /\ mseq' = IF mi + 1 = QUEUE_NUM THEN mseq + 1 ELSE mseq
  /\ mpc' = IF mi + 1 < QUEUE_NUM THEN "over"
            ELSE IF mseq' < READ_NUM THEN "await" ELSE "done"
  /\ UNCHANGED <<mainVars, workerVars, n, now, current, crashed>>

Merge == Await \/ MergeNext \/ NeedIter \/ Resume \/ AssertFails \/ Over

-----------------------------------------------------------------------------
Init ==
  /\ keyNum \in [Queues -> KeyNums]
  /\ pc = "issue"
  /\ i = 0
  /\ q_num = 0
  /\ qs = [q \in Queues |-> <<>>]
  /\ wpc = [q \in Queues |-> "poll"]
  /\ seq = [q \in Queues |-> 0]
  /\ pos = [q \in Queues |-> 0]
  /\ size = [q \in Queues |-> 0]
  /\ scan_status = [q \in Queues |-> "SCAN_OVER"]
  /\ mpc = "await"
  /\ mseq = 0
  /\ mi = 0
  /\ n = 0
  /\ now = [q \in Queues |-> 0]
  /\ current = 0
  /\ crashed = FALSE

Next == ~crashed /\ (Main \/ (\E q \in Queues : Worker(q)) \/ Merge)

Spec == Init /\ [][Next]_vars

\* Every thread is scheduled: all of them run freely on a core of their own
\* and none takes a lock.
FairSpec ==
  /\ Spec
  /\ WF_vars(~crashed /\ Main)
  /\ \A q \in Queues : WF_vars(~crashed /\ Worker(q))
  /\ WF_vars(~crashed /\ Merge)

-----------------------------------------------------------------------------
(* Properties. *)

\* A worker writes scans[q] only when the merge thread does not read it: while
\* it appends, the merge thread waits for this very worker, and while it fills
\* or clears, the merge thread has no merged iterator.  Otherwise push_back
\* could move the vector under the merge thread.
ScansExclusive ==
  \A q \in Queues :
    /\ wpc[q] = "more" => mpc = "need" /\ current = q
    /\ wpc[q] \in {"fill", "clear"} => mpc \notin {"merge", "need"}

\* A merge takes the results of one range query: while it runs, every worker
\* is in the handshake of that query, and nobody is asked for more keys but
\* the current child.
MergesOneQuery ==
  mpc \in {"merge", "need"} =>
    \A q \in Queues :
      /\ wpc[q] \in {"wait", "more"}
      /\ seq[q] = mseq
      /\ scan_status[q] = "NEED_ITER" => mpc = "need" /\ current = q

\* The merged iterator reads no entry past those the worker has appended: after
\* a step of a child, now is below size().
ReadsWithinVector ==
  mpc \in {"merge", "need"} => \A q \in Queues : now[q] > 0 => now[q] < size[q]

\* A child is asked for a second vector only when it has been through the
\* first, and whichever children FindSmallest prefers, an instance with twice
\* SCAN_SIZE keys always has enough for the assertion in merge_thread.
CrashOnlyIfShort == crashed => \E q \in Queues : keyNum[q] < 2 * SCAN_SIZE

\* A worker whose instance is empty never sends MERGE_START, so the merge
\* thread, the workers of the other instances and main wait for ever.
EmptyInstanceBlocks == (\E q \in Queues : keyNum[q] = 0) => pc # "done"

\* Otherwise the handshakes always come to an end: the program returns, or the
\* assertion fails.
EndsUnlessEmpty ==
  (\A q \in Queues : keyNum[q] > 0) => <>(pc = "done" \/ crashed)

-----------------------------------------------------------------------------
(* The inductive strengthening of the safety properties. *)

\* The requests main has put into queue q.
Issued(q) ==
  IF pc = "issue" THEN (IF q < q_num THEN i + 1 ELSE i)
  ELSE IF pc = "mark" /\ q >= q_num THEN READ_NUM ELSE READ_NUM + 1

\* They are READ_NUM range queries and the end mark.
QueueInv(q) ==
  /\ Len(qs[q]) = Issued(q)
  /\ \A x \in 1 .. Len(qs[q]) : qs[q][x] = IF x <= READ_NUM THEN "scan" ELSE "end"

\* The merge thread has seen q's MERGE_START for the query it merges and has not
\* yet answered SCAN_OVER.
Joined(q) ==
  \/ mpc = "await" /\ q < mi
  \/ mpc \in {"merge", "need"}
  \/ mpc = "over" /\ q >= mi

\* The query a worker that has not joined will take part in next.
NextQuery(q) == IF mpc = "over" THEN mseq + 1 ELSE mseq

\* Where a worker can be for each scan_status, and which query it is at.
JoinedInv(q) ==
  /\ wpc[q] \in {"wait", "more"}
  /\ seq[q] = mseq
  /\ scan_status[q] \in IF mpc = "await" THEN {"MERGE_START"}
                        ELSE {"MERGE_START", "NEED_ITER", "ITER_OVER"}
  /\ scan_status[q] = "NEED_ITER" => mpc = "need" /\ current = q
  /\ wpc[q] = "more" => scan_status[q] = "NEED_ITER"

ApartInv(q) ==
  \/ /\ wpc[q] \in {"wait", "clear"}
     /\ scan_status[q] = "SCAN_OVER"
     /\ seq[q] = NextQuery(q) - 1
  \/ /\ wpc[q] \in {"poll", "fill", "done"}
     /\ scan_status[q] = "SCAN_OVER"
     /\ seq[q] = NextQuery(q)
  \/ /\ wpc[q] = "wait"
     /\ scan_status[q] = "MERGE_START"
     /\ seq[q] = NextQuery(q)

\* A worker of an empty instance is never part of a merge.
EmptyInv(q) ==
  /\ wpc[q] \in {"poll", "done"}
  /\ scan_status[q] = "SCAN_OVER"
  /\ mpc = "await" /\ mi <= q

HandshakeInv(q) ==
  /\ wpc[q] \in {"fill", "wait", "more", "clear"} => seq[q] < READ_NUM
  /\ keyNum[q] = 0 => EmptyInv(q)
  /\ keyNum[q] # 0 /\ Joined(q) => JoinedInv(q)
  /\ keyNum[q] # 0 /\ ~Joined(q) => ApartInv(q)

\* How far iterators and vectors are.  The second clause is about instances
\* that have twice SCAN_SIZE keys: one second scan is enough for them.
VectorInv(q) ==
  /\ wpc[q] \in {"poll", "fill", "done"} => size[q] = 0
  /\ wpc[q] \in {"fill", "wait", "more"} => size[q] < pos[q]
  /\ keyNum[q] >= 2 * SCAN_SIZE =>
       /\ wpc[q] \in {"wait", "more"} =>
            (size[q] = 0 /\ pos[q] = SCAN_SIZE) \/ size[q] >= SCAN_SIZE
       /\ wpc[q] = "more" => size[q] = 0
       /\ mpc \in {"merge", "need"} /\ scan_status[q] = "ITER_OVER" => size[q] >= SCAN_SIZE

MergeInv ==
  /\ mpc \in {"merge", "need"} => mi = 0 /\ n < SCAN_SIZE - 1
  /\ mpc \in {"merge", "need"} => \A q \in Queues : now[q] <= n
  /\ mpc = "need" => scan_status[current] \in {"NEED_ITER", "ITER_OVER"}
  /\ mpc = "need" /\ scan_status[current] = "NEED_ITER" => AtLast(current)
  /\ mpc = "done" => mseq = READ_NUM
  /\ mpc # "done" => mseq < READ_NUM
  /\ pc = "done" => mpc = "done"
  /\ pc = "issue" => i < READ_NUM

IndInv ==
  /\ TypeOK
  /\ \A q \in Queues : QueueInv(q) /\ HandshakeInv(q) /\ VectorInv(q)
  /\ MergeInv
  /\ ReadsWithinVector
  /\ CrashOnlyIfShort

=============================================================================
