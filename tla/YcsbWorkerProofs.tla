-------------------------- MODULE YcsbWorkerProofs --------------------------
(***************************************************************************)
(* The inductive invariant of Ycsb is preserved by the steps of a worker:  *)
(* what writing and clearing a WriteBatch does to an instance, a worker    *)
(* that finds its queue empty, one that takes a slot, and its report.      *)
(***************************************************************************)
EXTENDS YcsbMainProofs

\* Positions in a queue.
LEMMA InRange ==
  ASSUME NEW a, NEW b, NEW p \in a .. b
  PROVE  p \in Int
OBVIOUS

LEMMA LastInRange ==
  ASSUME NEW a \in Nat, NEW b \in Nat, NEW p \in a + 1 .. b
  PROVE  p = b \/ p \in a + 1 .. b - 1
OBVIOUS

LEMMA BelowNext ==
  ASSUME NEW a \in Nat, NEW b \in Nat, NEW c \in Nat, a < b - c
  PROVE  a < b + 1
OBVIOUS

\* Positions that a worker keeps.
LEMMA KeptPosition ==
  ASSUME NEW s \in Seq(Nat), NEW x \in 1 .. Len(s)
  PROVE  s[x] \in Nat
OBVIOUS

(* The workers.  First, how the last write to a key composes.              *)

\* The last write of two adjacent ranges is that of the second, if it has one.
LEMMA LastWriteConcat ==
  ASSUME NEW q, NEW k, NEW a \in Int, NEW m \in Int, NEW n \in Int,
         a <= m, m <= n, NEW v \in Nat \cup {None}, NEW w \in Nat \cup {None},
         IsLastWrite(q, k, a, m, v), IsLastWrite(q, k, m, n, w)
  PROVE  IsLastWrite(q, k, a, n, IF w # None THEN w ELSE v)
<1>1. CASE w = None
  BY <1>1 DEF IsLastWrite, None
<1>2. CASE w # None
  BY <1>2 DEF IsLastWrite, None
<1> QED
  BY <1>1, <1>2

\* Extending a range by a request that does not write k.
LEMMA LastWriteSkip ==
  ASSUME NEW q, NEW k, NEW a \in Int, NEW n \in Int, a <= n,
         NEW v \in Nat \cup {None},
         IsLastWrite(q, k, a, n, v), ~GoodWrite(q, k, n)
  PROVE  IsLastWrite(q, k, a, n + 1, v)
BY DEF IsLastWrite, None

\* Extending a range by a write to k.
LEMMA LastWriteHit ==
  ASSUME NEW q, NEW k, NEW a \in Int, NEW n \in Nat, a <= n,
         GoodWrite(q, k, n)
  PROVE  IsLastWrite(q, k, a, n + 1, n)
BY DEF IsLastWrite, None

\* An empty range has no last write.
LEMMA LastWriteEmpty ==
  ASSUME NEW q, NEW k, NEW n \in Int, NEW v \in Nat \cup {None}
  PROVE  IsLastWrite(q, k, n, n, v) <=> v = None
BY DEF IsLastWrite, None

\* The invariants of a worker that makes no step.
LEMMA OtherWorker ==
  ASSUME NEW r, Progress(r), Sequential(r),
         wpc[r] \in {"top", "idle"} => RecentBatch(r),
         UNCHANGED <<qs, tail>>,
         wpc'[r] = wpc[r], seq'[r] = seq[r], batch'[r] = batch[r],
         batch_size'[r] = batch_size[r], mkeys'[r] = mkeys[r], db'[r] = db[r],
         failed'[r] = failed[r]
  PROVE  /\ Progress(r)' /\ Sequential(r)'
         /\ wpc'[r] \in {"top", "idle"} => RecentBatch(r)'
<1>1. ASSUME NEW k, NEW p PROVE GoodWrite(r, k, p)' <=> GoodWrite(r, k, p)
  BY DEF GoodWrite
<1>2. ASSUME NEW k, NEW from, NEW to, NEW v
      PROVE  IsLastWrite(r, k, from, to, v)' <=> IsLastWrite(r, k, from, to, v)
  BY <1>1 DEF IsLastWrite
<1>3. Held(r)' = Held(r)
  BY DEF Held
<1>4. Progress(r)'
  BY <1>3 DEF Progress
<1>5. Sequential(r)'
  BY <1>2, <1>3 DEF Sequential
<1>6. ASSUME RecentBatch(r) PROVE RecentBatch(r)'
  BY <1>2, <1>6 DEF RecentBatch
<1> QED
  BY <1>4, <1>5, <1>6

\* DB::Write of the n requests before end: afterwards the instance reflects all
\* requests before end.
LEMMA DbWriteSequential ==
  ASSUME WorkerTypeOK, qs' = qs, NEW q \in Queues,
         NEW b \in [DbKeys -> Nat \cup {None}],
         NEW n \in Nat, NEW end \in Nat, n <= end,
         failed[q] \subseteq 0 .. end - n - 1,
         \A k \in DbKeys : IsLastWrite(q, k, 0, end - n, db[q][k]),
         \A k \in DbKeys : IsLastWrite(q, k, end - n, end, b[k]),
         DbWrite(q, b, n, end)
  PROVE  /\ db' \in [Queues -> [DbKeys -> Nat \cup {None}]]
         /\ failed' \in [Queues -> SUBSET Nat]
         /\ failed'[q] \subseteq 0 .. end - 1
         /\ \A r \in Queues \ {q} : db'[r] = db[r] /\ failed'[r] = failed[r]
         /\ \A k \in DbKeys, v \in Nat \cup {None} :
              v = db'[q][k] => IsLastWrite(q, k, 0, end, v)'
<1>1. /\ db \in [Queues -> [DbKeys -> Nat \cup {None}]]
      /\ failed \in [Queues -> SUBSET Nat]
  BY DEF WorkerTypeOK
<1>2. ASSUME NEW k \in DbKeys
      PROVE  /\ db[q][k] \in Nat \cup {None} /\ b[k] \in Nat \cup {None}
             /\ IsLastWrite(q, k, 0, end,
                            IF b[k] # None THEN b[k] ELSE db[q][k])
  <2>1. db[q][k] \in Nat \cup {None} /\ b[k] \in Nat \cup {None}
    BY <1>1
  <2> PICK from \in Int : from = end - n
    OBVIOUS
  <2> PICK v \in Nat \cup {None} : v = db[q][k]
    BY <2>1, Zenon
  <2> PICK w \in Nat \cup {None} : w = b[k]
    BY <2>1, Zenon
  <2>2. 0 <= from /\ from <= end
    OBVIOUS
  <2>3. IsLastWrite(q, k, 0, from, v) /\ IsLastWrite(q, k, from, end, w)
    OBVIOUS
  <2>4. IsLastWrite(q, k, 0, end, IF w # None THEN w ELSE v)
    BY <2>2, <2>3, LastWriteConcat
  <2> QED
    BY <2>1, <2>4
<1>3. CASE /\ failed' = failed
           /\ (n = 0 /\ db' = db) \/ db' = [db EXCEPT ![q] = Install(@, b)]
  <2>1. ASSUME NEW k, NEW to, NEW v
        PROVE  IsLastWrite(q, k, 0, to, v)' <=> IsLastWrite(q, k, 0, to, v)
    BY <1>3 DEF IsLastWrite, GoodWrite
  <2>2. failed'[q] \subseteq 0 .. end - 1
    BY <1>3
  <2>3. CASE n = 0 /\ db' = db
    <3>1. \A k \in DbKeys : IsLastWrite(q, k, 0, end, db[q][k])
      BY <2>3
    <3> QED
      BY <1>1, <1>3, <2>1, <2>2, <2>3, <3>1
  <2>4. CASE db' = [db EXCEPT ![q] = Install(@, b)]
    <3>1. db' \in [Queues -> [DbKeys -> Nat \cup {None}]]
      BY <1>1, <1>2, <2>4 DEF Install
    <3>2. \A k \in DbKeys :
            db'[q][k] = IF b[k] # None THEN b[k] ELSE db[q][k]
      BY <1>1, <2>4 DEF Install
    <3>3. \A r \in Queues \ {q} : db'[r] = db[r]
      BY <1>1, <2>4
    <3> QED
      BY <1>1, <1>2, <1>3, <2>1, <2>2, <3>1, <3>2, <3>3
  <2> QED
    BY <1>3, <2>3, <2>4
<1>4. CASE /\ failed' = [failed EXCEPT ![q] = @ \cup (end - n .. end - 1)]
           /\ db' = db
  <2>1. /\ failed' \in [Queues -> SUBSET Nat]
        /\ failed'[q] = failed[q] \cup (end - n .. end - 1)
    BY <1>1, <1>4
  <2>2. failed'[q] \subseteq 0 .. end - 1
    <3>1. /\ failed[q] \subseteq 0 .. end - 1
          /\ end - n .. end - 1 \subseteq 0 .. end - 1
      OBVIOUS
    <3> QED
      BY <2>1, <3>1
  <2>3. ASSUME NEW k \in DbKeys PROVE IsLastWrite(q, k, 0, end, db[q][k])'
    <3>1. \A p \in 0 .. end - n - 1 : GoodWrite(q, k, p)' <=> GoodWrite(q, k, p)
      BY <2>1 DEF GoodWrite
    <3>2. \A p \in end - n .. end - 1 : ~GoodWrite(q, k, p)'
      BY <2>1 DEF GoodWrite
    <3>3. db'[q][k] = db[q][k] /\ db[q][k] \in Nat \cup {None}
      BY <1>1, <1>4
    <3>4. IsLastWrite(q, k, 0, end - n, db[q][k])
      OBVIOUS
    <3> QED
      BY <3>1, <3>2, <3>3, <3>4 DEF IsLastWrite, None
  <2>4. \A r \in Queues \ {q} : db'[r] = db[r] /\ failed'[r] = failed[r]
    BY <1>1, <1>4
  <2> QED
    BY <1>1, <1>4, <2>1, <2>2, <2>3, <2>4
<1> QED
  BY <1>3, <1>4 DEF DbWrite

\* DB::Write followed by batch.Clear.
LEMMA FlushSequential ==
  ASSUME WorkerTypeOK, qs' = qs, NEW q \in Queues,
         NEW b \in [DbKeys -> Nat \cup {None}],
         NEW n \in Nat, NEW end \in Nat, n <= end,
         failed[q] \subseteq 0 .. end - n - 1,
         \A k \in DbKeys : IsLastWrite(q, k, 0, end - n, db[q][k]),
         \A k \in DbKeys : IsLastWrite(q, k, end - n, end, b[k]),
         Flush(q, b, n, end)
  PROVE  /\ db' \in [Queues -> [DbKeys -> Nat \cup {None}]]
         /\ failed' \in [Queues -> SUBSET Nat]
         /\ batch' \in [Queues -> [DbKeys -> Nat \cup {None}]]
         /\ batch_size' \in [Queues -> Nat]
         /\ failed'[q] \subseteq 0 .. end - 1
         /\ \A k \in DbKeys, v \in Nat \cup {None} :
              v = db'[q][k] => IsLastWrite(q, k, 0, end, v)'
         /\ batch_size'[q] = 0 /\ \A k \in DbKeys : batch'[q][k] = None
         /\ \A r \in Queues \ {q} :
              /\ db'[r] = db[r] /\ failed'[r] = failed[r]
              /\ batch'[r] = batch[r] /\ batch_size'[r] = batch_size[r]
<1>1. /\ batch \in [Queues -> [DbKeys -> Nat \cup {None}]]
      /\ batch_size \in [Queues -> Nat]
  BY DEF WorkerTypeOK
<1>2. /\ batch' = [batch EXCEPT ![q] = IF n > 0 THEN NoPuts ELSE b]
      /\ batch_size' = [batch_size EXCEPT ![q] = 0]
      /\ DbWrite(q, b, n, end)
  BY DEF Flush
<1>3. NoPuts \in [DbKeys -> Nat \cup {None}] /\ \A k \in DbKeys : NoPuts[k] = None
  BY DEF NoPuts, None
<1>4. /\ batch' \in [Queues -> [DbKeys -> Nat \cup {None}]]
      /\ batch_size' \in [Queues -> Nat] /\ batch_size'[q] = 0
      /\ \A r \in Queues \ {q} :
           batch'[r] = batch[r] /\ batch_size'[r] = batch_size[r]
  BY <1>1, <1>2, <1>3
<1>5. ASSUME NEW k \in DbKeys PROVE batch'[q][k] = None
  <2>1. CASE n > 0
    BY <1>1, <1>2, <1>3, <2>1
  <2>2. CASE n = 0
    <3>1. IsLastWrite(q, k, end, end, b[k]) /\ b[k] \in Nat \cup {None}
      BY <2>2
    <3>2. b[k] = None
      BY <3>1, LastWriteEmpty
    <3> QED
      BY <1>1, <1>2, <2>2, <3>2
  <2> QED
    BY <2>1, <2>2
<1> QED
  BY <1>2, <1>4, <1>5, DbWriteSequential, Zenon

\* The answers of a MultiGet have the type of values.
LEMMA MultiGetType ==
  ASSUME WorkerTypeOK, NEW q \in Queues, NEW pending \in Seq(Nat),
         NEW k \in DbKeys, db' \in [Queues -> [DbKeys -> Nat \cup {None}]],
         MultiGet(q, pending, k)
  PROVE  values' \in [Queues -> Seq([pos : Nat, key : DbKeys,
                                     ver : Nat \cup {None}])]
<1> DEFINE Answers == Seq([pos : Nat, key : DbKeys, ver : Nat \cup {None}])
           answers == [x \in 1 .. Len(pending) |->
                         [pos |-> pending[x], key |-> k, ver |-> db'[q][k]]]
<1>1. db'[q][k] \in Nat \cup {None}
  OBVIOUS
<1>2. Len(pending) \in Nat /\ \A x \in 1 .. Len(pending) : pending[x] \in Nat
  OBVIOUS
<1>3. answers \in Answers
  BY <1>1, <1>2
<1>4. values \in [Queues -> Answers]
  BY Zenon DEF WorkerTypeOK
<1>5. values' = [values EXCEPT ![q] = IF pending = <<>> THEN @ ELSE answers]
  BY DEF MultiGet
<1> HIDE DEF Answers, answers
<1> QED
  BY <1>3, <1>4, <1>5, Zenon DEF Answers

\* A step of worker q, given what it does to the state of q itself.
LEMMA WorkerStep ==
  ASSUME IndInv, NEW q \in Queues, UNCHANGED mainVars, crashed' \in BOOLEAN,
         WorkerTypeOK',
         \A r \in Queues \ {q} :
           /\ wpc'[r] = wpc[r] /\ seq'[r] = seq[r] /\ batch'[r] = batch[r]
           /\ batch_size'[r] = batch_size[r] /\ mkeys'[r] = mkeys[r]
           /\ db'[r] = db[r] /\ failed'[r] = failed[r],
         Progress(q)', Sequential(q)',
         wpc'[q] \in {"top", "idle"} => RecentBatch(q)'
  PROVE  IndInv'
<1>1. MainTypeOK'
  BY DEF IndInv, TypeOK, MainTypeOK, mainVars
<1>2. QueueInv'
  BY DEF IndInv, QueueInv, LengthInv, Issued, UnpublishedInv, EarlyTailInv,
         IsBroadcast, mainVars
<1>3. ASSUME NEW r \in Queues
      PROVE  /\ Progress(r)' /\ Sequential(r)'
             /\ wpc'[r] \in {"top", "idle"} => RecentBatch(r)'
  <2>1. CASE r = q
    BY <2>1
  <2>2. CASE r # q
    <3>1. /\ Progress(r) /\ Sequential(r)
          /\ wpc[r] \in {"top", "idle"} => RecentBatch(r)
      BY DEF IndInv, ProgressInv, DbIsSequential, BatchIsRecent
    <3>2. UNCHANGED <<qs, tail>>
      BY DEF mainVars
    <3> QED
      BY <2>2, <3>1, <3>2, OtherWorker
  <2> QED
    BY <2>1, <2>2
<1> QED
  BY <1>1, <1>2, <1>3
     DEF IndInv, TypeOK, ProgressInv, DbIsSequential, BatchIsRecent

\* What the invariant says of a worker inside its loop.
LEMMA InLoop ==
  ASSUME IndInv, NEW q \in Queues, wpc[q] \in {"top", "idle"}
  PROVE  /\ WorkerTypeOK
         /\ seq[q] \in Nat /\ tail[q] \in Nat /\ seq[q] <= tail[q]
         /\ batch_size[q] \in Nat /\ batch_size[q] <= seq[q]
         /\ batch[q] \in [DbKeys -> Nat \cup {None}]
         /\ mkeys[q] \in Seq(Nat) /\ keybuf[q] \in DbKeys
         /\ failed[q] \subseteq 0 .. seq[q] - batch_size[q] - 1
         /\ RecentBatch(q)
         /\ \A k \in DbKeys :
              IsLastWrite(q, k, 0, seq[q] - batch_size[q], db[q][k])
         /\ \A k \in DbKeys :
              IsLastWrite(q, k, seq[q] - batch_size[q], seq[q], batch[q][k])
<1>1. WorkerTypeOK /\ Progress(q) /\ Sequential(q) /\ RecentBatch(q)
  BY DEF IndInv, TypeOK, ProgressInv, DbIsSequential, BatchIsRecent
<1>2. Held(q) = batch_size[q]
  BY DEF Held
<1>3. /\ batch[q] \in [DbKeys -> Nat \cup {None}]
      /\ mkeys[q] \in Seq(Nat) /\ keybuf[q] \in DbKeys
  BY <1>1 DEF WorkerTypeOK
<1>4. /\ \A k \in DbKeys :
           IsLastWrite(q, k, 0, seq[q] - batch_size[q], db[q][k])
      /\ \A k \in DbKeys :
           IsLastWrite(q, k, seq[q] - batch_size[q], seq[q], batch[q][k])
  BY <1>1, <1>2 DEF Sequential, RecentBatch
<1>5. /\ batch_size[q] <= seq[q]
      /\ failed[q] \subseteq 0 .. seq[q] - batch_size[q] - 1
  BY <1>1, <1>2 DEF Progress
<1> QED
  BY <1>1, <1>3, <1>4, <1>5, ElementTypes

\* The invariants of a worker whose WriteBatch has just been written.
LEMMA FlushedSequential ==
  ASSUME NEW q \in Queues, NEW e \in Nat, seq'[q] = e, Held(q)' = 0,
         db' \in [Queues -> [DbKeys -> Nat \cup {None}]],
         \A k \in DbKeys, v \in Nat \cup {None} :
           v = db'[q][k] => IsLastWrite(q, k, 0, e, v)'
  PROVE  Sequential(q)'
<1>1. seq'[q] - Held(q)' = e
  OBVIOUS
<1>2. \A k \in DbKeys : IsLastWrite(q, k, 0, e, db[q][k])'
  BY Zenon
<1> QED
  BY <1>1, <1>2 DEF Sequential

\* An empty batch agrees with the empty range of requests it stands for.
LEMMA FlushedRecent ==
  ASSUME NEW q \in Queues, NEW e \in Nat, seq'[q] = e, batch_size'[q] = 0,
         \A k \in DbKeys : batch'[q][k] = None,
         Len(mkeys'[q]) < BATCH_SIZE,
         \A x \in 1 .. Len(mkeys'[q]) : mkeys'[q][x] < e
  PROVE  RecentBatch(q)'
<1>1. seq'[q] - batch_size'[q] = e
  OBVIOUS
<1>2. \A k \in DbKeys : IsLastWrite(q, k, e, e, batch[q][k])'
  BY DEF IsLastWrite, None
<1>3. 0 < WRITE_BATCH_SIZE
  BY ConstantFacts
<1> QED
  BY <1>1, <1>2, <1>3 DEF RecentBatch

\* A worker that finds its queue empty executes what is pending.
LEMMA DrainIndInv ==
  ASSUME IndInv, NEW q \in Queues, Drain(q)
  PROVE  IndInv'
<1>1. wpc[q] = "top" /\ UNCHANGED <<mainVars, crashed, seq, keybuf>>
  BY DEF Drain
<1>2. qs' = qs /\ tail' = tail
  BY <1>1 DEF mainVars
<1>3. Flush(q, batch[q], batch_size[q], seq[q])
  BY DEF Drain
<1> HIDE DEF Flush
<1>4. /\ db' \in [Queues -> [DbKeys -> Nat \cup {None}]]
      /\ failed' \in [Queues -> SUBSET Nat]
      /\ batch' \in [Queues -> [DbKeys -> Nat \cup {None}]]
      /\ batch_size' \in [Queues -> Nat]
      /\ failed'[q] \subseteq 0 .. seq[q] - 1
      /\ \A k \in DbKeys, v \in Nat \cup {None} :
           v = db'[q][k] => IsLastWrite(q, k, 0, seq[q], v)'
      /\ batch_size'[q] = 0 /\ \A k \in DbKeys : batch'[q][k] = None
      /\ \A r \in Queues \ {q} :
           /\ db'[r] = db[r] /\ failed'[r] = failed[r]
           /\ batch'[r] = batch[r] /\ batch_size'[r] = batch_size[r]
  BY <1>1, <1>2, <1>3, InLoop, FlushSequential, Zenon
<1>5. /\ WorkerTypeOK /\ seq[q] \in Nat /\ tail[q] \in Nat /\ seq[q] <= tail[q]
      /\ mkeys[q] \in Seq(Nat) /\ keybuf[q] \in DbKeys /\ crashed \in BOOLEAN
  BY <1>1, InLoop DEF IndInv, TypeOK
<1>6. /\ mkeys' = [mkeys EXCEPT ![q] = <<>>]
      /\ busy' = [busy EXCEPT ![q] = FALSE]
      /\ wpc' = [wpc EXCEPT ![q] = "idle"]
      /\ MultiGet(q, mkeys[q], keybuf[q])
  BY DEF Drain
<1>7. WorkerTypeOK'
  <2>1. values' \in [Queues -> Seq([pos : Nat, key : DbKeys,
                                    ver : Nat \cup {None}])]
    BY <1>4, <1>5, <1>6, MultiGetType, Zenon
  <2>2. mkeys' \in [Queues -> Seq(Nat)]
    BY <1>5, <1>6 DEF WorkerTypeOK
  <2> QED
    BY <1>1, <1>4, <1>5, <1>6, <2>1, <2>2, Zenon DEF WorkerTypeOK
<1>8. wpc'[q] = "idle" /\ mkeys'[q] = <<>> /\ Held(q)' = 0
  BY <1>4, <1>5, <1>6 DEF WorkerTypeOK, Held
<1>9. Progress(q)'
  <2>1. seq'[q] = seq[q] /\ tail'[q] = tail[q]
    BY <1>1, <1>2
  <2>2. failed'[q] \subseteq 0 .. seq'[q] - Held(q)' - 1
    <3>1. seq'[q] - Held(q)' - 1 = seq[q] - 1
      <4>1. \A n \in Nat : (n - 0) - 1 = n - 1
        OBVIOUS
      <4> QED
        BY <1>5, <1>8, <2>1, <4>1, Zenon
    <3> QED
      BY <1>4, <3>1, Zenon
  <2>3. seq'[q] <= tail'[q] /\ Held(q)' <= seq'[q]
    BY <1>5, <1>8, <2>1
  <2> QED
    BY <2>2, <2>3, Zenon DEF Progress
<1>10. Sequential(q)'
  BY <1>1, <1>4, <1>5, <1>8, FlushedSequential
<1>11. RecentBatch(q)'
  <2>1. Len(mkeys'[q]) < BATCH_SIZE /\ 1 .. Len(mkeys'[q]) = {}
    BY <1>8, ConstantFacts
  <2> QED
    BY <1>1, <1>4, <1>5, <2>1, FlushedRecent, Zenon
<1>12. \A r \in Queues \ {q} : wpc'[r] = wpc[r] /\ mkeys'[r] = mkeys[r]
  BY <1>5, <1>6 DEF WorkerTypeOK
<1> QED
  BY <1>1, <1>4, <1>5, <1>7, <1>9, <1>10, <1>11, <1>12, WorkerStep

\* A worker that finds a request again goes back to its loop.
LEMMA WakeIndInv ==
  ASSUME IndInv, NEW q \in Queues, Wake(q)
  PROVE  IndInv'
<1>1. /\ wpc[q] = "idle" /\ busy' = [busy EXCEPT ![q] = TRUE]
      /\ wpc' = [wpc EXCEPT ![q] = "top"]
      /\ UNCHANGED <<mainVars, seq, batch, batch_size, mkeys, keybuf, values,
                     db, failed, crashed>>
  BY DEF Wake
<1>2. /\ WorkerTypeOK /\ crashed \in BOOLEAN
      /\ Progress(q) /\ Sequential(q) /\ RecentBatch(q)
  BY <1>1 DEF IndInv, TypeOK, ProgressInv, DbIsSequential, BatchIsRecent
<1>3. WorkerTypeOK'
  BY <1>1, <1>2, Zenon DEF WorkerTypeOK
<1>4. UNCHANGED <<qs, tail>> /\ wpc'[q] = "top" /\ Held(q)' = Held(q)
  BY <1>1, <1>2 DEF mainVars, Held, WorkerTypeOK
<1>5. ASSUME NEW k, NEW from, NEW to, NEW v
      PROVE  IsLastWrite(q, k, from, to, v)' <=> IsLastWrite(q, k, from, to, v)
  BY <1>1, <1>4 DEF IsLastWrite, GoodWrite
<1>6. Progress(q)'
  BY <1>1, <1>2, <1>4 DEF Progress
<1>7. Sequential(q)'
  BY <1>1, <1>2, <1>4, <1>5 DEF Sequential
<1>8. RecentBatch(q)'
  BY <1>1, <1>2, <1>4, <1>5 DEF RecentBatch
<1>9. \A r \in Queues \ {q} : wpc'[r] = wpc[r]
  BY <1>1, <1>2 DEF WorkerTypeOK
<1> QED
  BY <1>1, <1>2, <1>3, <1>6, <1>7, <1>8, <1>9, WorkerStep

-----------------------------------------------------------------------------
(* A worker that takes a slot of its queue. *)

\* The slot a worker takes is published and lies after every failed write.
LEMMA TakingFacts ==
  ASSUME IndInv, NEW q \in Queues, Taking(q)
  PROVE  /\ wpc[q] = "top" /\ seq[q] < tail[q] /\ seq[q] \in Positions
         /\ Request(q) \in Slots
         /\ seq[q] \notin failed[q]
<1>1. wpc[q] = "top" /\ seq[q] < tail[q]
  BY ElementTypes DEF Taking, Empty
<1>2. seq[q] \in Positions
  BY <1>1, TailBound, ElementTypes, ConstantFacts DEF Positions
<1>3. Request(q) \in Slots
  BY <1>2, ElementTypes DEF Request
<1>4. failed[q] \subseteq 0 .. seq[q] - batch_size[q] - 1
  BY <1>1, InLoop
<1>5. seq[q] \in Nat /\ batch_size[q] \in Nat
  BY ElementTypes
<1>6. seq[q] \notin 0 .. seq[q] - batch_size[q] - 1
  BY <1>5
<1> QED
  BY <1>1, <1>2, <1>3, <1>4, <1>6

\* The part common to the requests that are not the end mark.
LEMMA TakeFacts ==
  ASSUME IndInv, NEW q \in Queues, Take(q)
  PROVE  /\ Taking(q)
         /\ UNCHANGED <<mainVars, busy, wpc, crashed>>
         /\ qs' = qs /\ tail' = tail
         /\ seq' \in [Queues -> Nat] /\ keybuf' \in [Queues -> DbKeys]
         /\ seq'[q] = seq[q] + 1 /\ keybuf'[q] = Request(q).key
         /\ Request(q).key \in DbKeys
         /\ \A r \in Queues \ {q} : seq'[r] = seq[r]
         /\ seq'[q] <= tail'[q]
<1>1. Taking(q) /\ Request(q) \in Slots /\ seq[q] < tail[q]
  BY TakingFacts DEF Take
<1>2. /\ UNCHANGED <<mainVars, busy, wpc, crashed>>
      /\ seq' = [seq EXCEPT ![q] = @ + 1]
      /\ keybuf' = [keybuf EXCEPT ![q] = Request(q).key]
  BY DEF Take
<1>3. seq \in [Queues -> Nat] /\ keybuf \in [Queues -> DbKeys]
  BY DEF IndInv, TypeOK, WorkerTypeOK
<1>4. Request(q).key \in DbKeys
  BY <1>1 DEF Slots
<1>5. qs' = qs /\ tail' = tail
  BY <1>2 DEF mainVars
<1>6. seq'[q] = seq[q] + 1 /\ \A r \in Queues \ {q} : seq'[r] = seq[r]
  BY <1>2, <1>3
<1>7. seq'[q] <= tail'[q]
  BY <1>1, <1>5, <1>6, ElementTypes
<1> QED
  BY <1>1, <1>2, <1>3, <1>4, <1>5, <1>6, <1>7

\* A read or a scan: the WriteBatch is written, and the request is no write.
LEMMA TakeFlushes ==
  ASSUME IndInv, NEW q \in Queues, Take(q), ~Request(q).write,
         Flush(q, batch[q], batch_size[q], seq[q]),
         mkeys' \in [Queues -> Seq(Nat)],
         values' \in [Queues -> Seq([pos : Nat, key : DbKeys,
                                     ver : Nat \cup {None}])],
         \A r \in Queues \ {q} : mkeys'[r] = mkeys[r],
         Len(mkeys'[q]) < BATCH_SIZE,
         \A x \in 1 .. Len(mkeys'[q]) : mkeys'[q][x] < seq[q] + 1
  PROVE  IndInv'
<1> PICK e \in Nat : e = seq[q]
  BY ElementTypes
<1>1. wpc[q] = "top" /\ qs' = qs
  BY TakeFacts, TakingFacts
<1>2. /\ db' \in [Queues -> [DbKeys -> Nat \cup {None}]]
      /\ failed' \in [Queues -> SUBSET Nat]
      /\ batch' \in [Queues -> [DbKeys -> Nat \cup {None}]]
      /\ batch_size' \in [Queues -> Nat]
      /\ failed'[q] \subseteq 0 .. seq[q] - 1
      /\ \A k \in DbKeys, v \in Nat \cup {None} :
           v = db'[q][k] => IsLastWrite(q, k, 0, e, v)'
      /\ batch_size'[q] = 0 /\ \A k \in DbKeys : batch'[q][k] = None
      /\ \A r \in Queues \ {q} :
           /\ db'[r] = db[r] /\ failed'[r] = failed[r]
           /\ batch'[r] = batch[r] /\ batch_size'[r] = batch_size[r]
  BY <1>1, InLoop, FlushSequential, ZenonT(60)
<1>3. WorkerTypeOK /\ crashed \in BOOLEAN /\ seq[q] \in Nat
  BY ElementTypes DEF IndInv, TypeOK
<1>4. WorkerTypeOK'
  <2>1. /\ seq' \in [Queues -> Nat] /\ keybuf' \in [Queues -> DbKeys]
        /\ busy' = busy /\ wpc' = wpc
    BY TakeFacts
  <2> QED
    BY <1>2, <1>3, <2>1, Zenon DEF WorkerTypeOK
<1>5. wpc' = wpc /\ Held(q)' = 0 /\ seq'[q] = seq[q] + 1 /\ seq[q] + 1 \in Nat
  <2>1. wpc' = wpc /\ seq'[q] = seq[q] + 1
    BY TakeFacts
  <2>2. Held(q)' = 0
    BY <1>1, <1>2, <2>1 DEF Held
  <2>3. seq[q] + 1 \in Nat
    BY <1>3
  <2> QED
    BY <2>1, <2>2, <2>3
<1>6. Progress(q)'
  <2>1. failed'[q] \subseteq 0 .. seq'[q] - Held(q)' - 1
    <3>1. seq'[q] - Held(q)' - 1 = e /\ 0 .. e - 1 \subseteq 0 .. e
      BY <1>5
    <3>2. failed'[q] \subseteq 0 .. e - 1
      BY <1>2
    <3> QED
      BY <3>1, <3>2
  <2>2. Held(q)' <= seq'[q]
    <3>1. Held(q)' = 0 /\ seq'[q] = e + 1
      BY <1>5
    <3>2. 0 <= e + 1
      OBVIOUS
    <3> QED
      BY <3>1, <3>2
  <2> QED
    BY <2>1, <2>2, TakeFacts DEF Progress
<1>7. Sequential(q)'
  <2>1. ASSUME NEW k \in DbKeys, NEW v \in Nat \cup {None}, v = db'[q][k]
        PROVE  IsLastWrite(q, k, 0, e + 1, v)'
    <3>1. ~GoodWrite(q, k, e)'
      BY <1>1 DEF GoodWrite, Request
    <3>2. IsLastWrite(q, k, 0, e, v)'
      BY <1>2, <2>1
    <3>3. 0 .. e = (0 .. e - 1) \cup {e} /\ (e + 1) - 1 = e
      OBVIOUS
    <3>4. CASE v = None
      BY <3>1, <3>2, <3>3, <3>4 DEF IsLastWrite
    <3>5. CASE v # None
      <4>1. v \in 0 .. e - 1 /\ GoodWrite(q, k, v)'
        BY <3>2, <3>5 DEF IsLastWrite
      <4>2. ASSUME NEW p \in v + 1 .. e PROVE ~GoodWrite(q, k, p)'
        <5>1. p = e \/ p \in v + 1 .. e - 1
          BY <3>5, LastInRange, Zenon
        <5> QED
          BY <3>1, <3>2, <3>5, <5>1 DEF IsLastWrite
      <4> QED
        BY <3>3, <3>5, <4>1, <4>2 DEF IsLastWrite
    <3> QED
      BY <3>4, <3>5
  <2> QED
    BY <1>2, <1>5, <2>1, FlushedSequential, Zenon
<1>8. RecentBatch(q)'
  BY <1>2, <1>5, FlushedRecent, Zenon
<1> QED
  BY <1>2, <1>3, <1>4, <1>5, <1>6, <1>7, <1>8, TakeFacts, WorkerStep

\* A point query joins the pending MultiGet, or completes and executes it.
LEMMA TakeReadIndInv ==
  ASSUME IndInv, NEW q \in Queues, TakeRead(q)
  PROVE  IndInv'
<1> DEFINE pending == Append(mkeys[q], seq[q])
<1>1. /\ Take(q) /\ ~Request(q).write
      /\ Flush(q, batch[q], batch_size[q], seq[q])
      /\ \/ /\ Len(pending) = BATCH_SIZE
            /\ MultiGet(q, pending, keybuf'[q])
            /\ mkeys' = [mkeys EXCEPT ![q] = <<>>]
         \/ /\ Len(pending) # BATCH_SIZE
            /\ mkeys' = [mkeys EXCEPT ![q] = pending]
            /\ values' = values
  BY DEF TakeRead
<1>2. /\ WorkerTypeOK /\ seq[q] \in Nat /\ mkeys[q] \in Seq(Nat)
      /\ batch_size[q] \in Nat /\ batch_size[q] <= seq[q]
      /\ Len(mkeys[q]) < BATCH_SIZE
      /\ \A x \in 1 .. Len(mkeys[q]) : mkeys[q][x] < seq[q] - batch_size[q]
  BY <1>1, TakeFacts, TakingFacts, InLoop DEF RecentBatch
<1>3. /\ pending \in Seq(Nat) /\ Len(pending) = Len(mkeys[q]) + 1
      /\ \A x \in 1 .. Len(pending) : pending[x] < seq[q] + 1
  <2>1. /\ pending \in Seq(Nat) /\ Len(pending) = Len(mkeys[q]) + 1
        /\ Len(mkeys[q]) \in Nat
    BY <1>2
  <2>2. ASSUME NEW x \in 1 .. Len(pending) PROVE pending[x] < seq[q] + 1
    <3>1. CASE x = Len(mkeys[q]) + 1
      BY <1>2, <3>1
    <3>2. CASE x \in 1 .. Len(mkeys[q])
      <4>1. pending[x] = mkeys[q][x] /\ mkeys[q][x] \in Nat
        BY <1>2, <3>2
      <4>2. mkeys[q][x] < seq[q] - batch_size[q]
        BY <1>2, <3>2
      <4> QED
        BY <1>2, <4>1, <4>2, BelowNext, Zenon
    <3> QED
      BY <2>1, <3>1, <3>2
  <2> QED
    BY <2>1, <2>2
<1> HIDE DEF pending
<1>4. db' \in [Queues -> [DbKeys -> Nat \cup {None}]]
  <2>1. wpc[q] = "top" /\ qs' = qs
    BY <1>1, TakeFacts, TakingFacts
  <2> QED
    BY <1>1, <2>1, InLoop, FlushSequential, Zenon
<1>5. values' \in [Queues -> Seq([pos : Nat, key : DbKeys,
                                  ver : Nat \cup {None}])]
  <2>1. CASE MultiGet(q, pending, keybuf'[q])
    BY <1>1, <1>2, <1>3, <1>4, <2>1, TakeFacts, MultiGetType, Zenon
  <2>2. CASE values' = values
    BY <1>2, <2>2, Zenon DEF WorkerTypeOK
  <2> QED
    BY <1>1, <2>1, <2>2, Zenon
<1>6. mkeys \in [Queues -> Seq(Nat)]
  BY <1>2 DEF WorkerTypeOK
<1>7. CASE mkeys' = [mkeys EXCEPT ![q] = <<>>]
  <2>1. /\ mkeys' \in [Queues -> Seq(Nat)] /\ mkeys'[q] = <<>>
        /\ \A r \in Queues \ {q} : mkeys'[r] = mkeys[r]
    BY <1>6, <1>7
  <2>2. Len(mkeys'[q]) < BATCH_SIZE /\ 1 .. Len(mkeys'[q]) = {}
    <3>1. Len(mkeys'[q]) = 0
      BY <2>1
    <3> QED
      BY <3>1, ConstantFacts
  <2> QED
    BY <1>1, <1>5, <2>1, <2>2, TakeFlushes, Zenon
<1>8. CASE Len(pending) # BATCH_SIZE /\ mkeys' = [mkeys EXCEPT ![q] = pending]
  <2>1. /\ mkeys' \in [Queues -> Seq(Nat)] /\ mkeys'[q] = pending
        /\ \A r \in Queues \ {q} : mkeys'[r] = mkeys[r]
    BY <1>3, <1>6, <1>8
  <2>2. Len(mkeys'[q]) < BATCH_SIZE
    BY <1>2, <1>3, <1>8, <2>1, ConstantFacts
  <2> QED
    BY <1>1, <1>3, <1>5, <2>1, <2>2, TakeFlushes, Zenon
<1> QED
  BY <1>1, <1>7, <1>8

\* A scan executes everything pending first.
LEMMA TakeScanIndInv ==
  ASSUME IndInv, NEW q \in Queues, TakeScan(q)
  PROVE  IndInv'
<1>1. /\ Take(q) /\ ~Request(q).write
      /\ Flush(q, batch[q], batch_size[q], seq[q])
      /\ mkeys' = mkeys /\ values' = values
  BY DEF TakeScan
<1>2. /\ WorkerTypeOK /\ seq[q] \in Nat /\ mkeys[q] \in Seq(Nat)
      /\ batch_size[q] \in Nat /\ batch_size[q] <= seq[q]
      /\ Len(mkeys[q]) < BATCH_SIZE
      /\ \A x \in 1 .. Len(mkeys[q]) : mkeys[q][x] < seq[q] - batch_size[q]
  BY <1>1, TakeFacts, TakingFacts, InLoop DEF RecentBatch
<1>3. ASSUME NEW x \in 1 .. Len(mkeys[q]) PROVE mkeys[q][x] < seq[q] + 1
  <2>1. mkeys[q][x] \in Nat /\ mkeys[q][x] < seq[q] - batch_size[q]
    BY <1>2, KeptPosition, Zenon
  <2> QED
    BY <1>2, <2>1, BelowNext, Zenon
<1>4. /\ mkeys' \in [Queues -> Seq(Nat)]
      /\ values' \in [Queues -> Seq([pos : Nat, key : DbKeys,
                                     ver : Nat \cup {None}])]
  BY <1>1, <1>2, Zenon DEF WorkerTypeOK
<1> QED
  BY <1>1, <1>2, <1>3, <1>4, TakeFlushes, Zenon

\* A write joins the WriteBatch, or completes it, which is then written.
LEMMA TakeWriteIndInv ==
  ASSUME IndInv, NEW q \in Queues, TakeWrite(q)
  PROVE  IndInv'
<1> PICK e \in Nat : e = seq[q]
  BY ElementTypes
<1> PICK n \in Nat : n = batch_size[q]
  BY ElementTypes
<1> PICK key \in DbKeys : key = Request(q).key
  BY TakeFacts DEF TakeWrite
<1> DEFINE b == [batch[q] EXCEPT ![key] = e]
<1>1. /\ Take(q) /\ Request(q).write
      /\ \/ n + 1 >= WRITE_BATCH_SIZE /\ Flush(q, b, n + 1, e + 1)
         \/ /\ n + 1 < WRITE_BATCH_SIZE
            /\ batch' = [batch EXCEPT ![q] = b]
            /\ batch_size' = [batch_size EXCEPT ![q] = n + 1]
            /\ db' = db /\ failed' = failed
      /\ mkeys' = mkeys /\ values' = values
  <2>1. n + 1 >= WRITE_BATCH_SIZE <=> ~(n + 1 < WRITE_BATCH_SIZE)
    BY ConstantFacts
  <2> QED
    BY <2>1 DEF TakeWrite, BatchFull
<1>2. /\ wpc[q] = "top" /\ qs' = qs /\ wpc' = wpc
      /\ seq'[q] = e + 1 /\ seq'[q] <= tail'[q]
      /\ e \notin failed[q]
  BY <1>1, TakeFacts, TakingFacts
<1>3. /\ WorkerTypeOK /\ n <= e
      /\ batch[q] \in [DbKeys -> Nat \cup {None}]
      /\ mkeys[q] \in Seq(Nat)
      /\ failed[q] \subseteq 0 .. e - n - 1
      /\ \A k \in DbKeys : IsLastWrite(q, k, 0, e - n, db[q][k])
      /\ \A k \in DbKeys : IsLastWrite(q, k, e - n, e, batch[q][k])
      /\ Len(mkeys[q]) < BATCH_SIZE
      /\ \A p \in e - n .. e - 1 : qs[q][p].write
      /\ \A x \in 1 .. Len(mkeys[q]) : mkeys[q][x] < e - n
  BY <1>2, InLoop DEF RecentBatch
<1>11. n <= e /\ e - n \in Nat /\ e - n <= e /\ e - n \in Int /\ e \in Int
  <2>1. n <= e
    BY <1>3
  <2> QED
    BY <2>1
<1>4. GoodWrite(q, key, e) /\ \A k \in DbKeys \ {key} : ~GoodWrite(q, k, e)
  BY <1>1, <1>2 DEF GoodWrite, Request
<1>5. b \in [DbKeys -> Nat \cup {None}]
  BY <1>3
<1>6. ASSUME NEW k \in DbKeys PROVE IsLastWrite(q, k, e - n, e + 1, b[k])
  <2>1. CASE k = key
    <3>1. b[k] = e
      BY <1>3, <2>1
    <3>2. IsLastWrite(q, key, e - n, e + 1, e)
      BY <1>11, <1>4, LastWriteHit, Zenon
    <3> QED
      BY <2>1, <3>1, <3>2
  <2>2. CASE k # key
    <3>1. b[k] = batch[q][k] /\ batch[q][k] \in Nat \cup {None}
      BY <1>3, <2>2
    <3>2. IsLastWrite(q, k, e - n, e + 1, batch[q][k])
      <4>1. IsLastWrite(q, k, e - n, e, batch[q][k]) /\ ~GoodWrite(q, k, e)
        BY <1>3, <1>4, <2>2
      <4> QED
        BY <1>11, <3>1, <4>1, LastWriteSkip, Zenon
    <3> QED
      BY <3>1, <3>2
  <2> QED
    BY <2>1, <2>2
<1> HIDE DEF b
<1>7. /\ (e + 1) - (n + 1) = e - n /\ n + 1 <= e + 1
      /\ n + 1 \in Nat /\ e + 1 \in Nat
  BY <1>11
<1>8. /\ seq' \in [Queues -> Nat] /\ keybuf' \in [Queues -> DbKeys]
      /\ busy' = busy /\ UNCHANGED mainVars /\ crashed' = crashed
      /\ \A r \in Queues \ {q} : seq'[r] = seq[r]
      /\ crashed \in BOOLEAN
  BY <1>1, TakeFacts DEF IndInv, TypeOK
<1>9. CASE Flush(q, b, n + 1, e + 1)
  <2>1. /\ db' \in [Queues -> [DbKeys -> Nat \cup {None}]]
        /\ failed' \in [Queues -> SUBSET Nat]
        /\ batch' \in [Queues -> [DbKeys -> Nat \cup {None}]]
        /\ batch_size' \in [Queues -> Nat]
        /\ failed'[q] \subseteq 0 .. (e + 1) - 1
        /\ \A k \in DbKeys, v \in Nat \cup {None} :
             v = db'[q][k] => IsLastWrite(q, k, 0, e + 1, v)'
        /\ batch_size'[q] = 0 /\ \A k \in DbKeys : batch'[q][k] = None
        /\ \A r \in Queues \ {q} :
             /\ db'[r] = db[r] /\ failed'[r] = failed[r]
             /\ batch'[r] = batch[r] /\ batch_size'[r] = batch_size[r]
    <3>1. /\ failed[q] \subseteq 0 .. (e + 1) - (n + 1) - 1
          /\ \A k \in DbKeys :
               IsLastWrite(q, k, 0, (e + 1) - (n + 1), db[q][k])
          /\ \A k \in DbKeys :
               IsLastWrite(q, k, (e + 1) - (n + 1), e + 1, b[k])
      BY <1>3, <1>6, <1>7, Zenon
    <3> QED
      BY <1>2, <1>3, <1>5, <1>7, <1>9, <3>1, FlushSequential, Zenon
  <2>2. WorkerTypeOK'
    BY <1>1, <1>2, <1>3, <1>8, <2>1, Zenon DEF WorkerTypeOK
  <2>3. Held(q)' = 0
    BY <1>2, <2>1 DEF Held
  <2>4. Progress(q)'
    <3>1. failed'[q] \subseteq 0 .. seq'[q] - Held(q)' - 1
      <4>1. e + 1 \in Int /\ (e + 1) - 0 = e + 1
        OBVIOUS
      <4> QED
        BY <1>2, <2>1, <2>3, <4>1, Zenon
    <3> QED
      BY <1>2, <1>7, <2>3, <3>1 DEF Progress
  <2>5. Sequential(q)'
    BY <1>2, <1>7, <2>1, <2>3, FlushedSequential
  <2>6. RecentBatch(q)'
    <3>1. /\ Len(mkeys'[q]) < BATCH_SIZE
          /\ mkeys' \in [Queues -> Seq(Nat)]
          /\ \A x \in 1 .. Len(mkeys'[q]) : mkeys'[q][x] < e + 1
      <4>1. mkeys' = mkeys /\ mkeys \in [Queues -> Seq(Nat)]
        BY <1>1, <1>3 DEF WorkerTypeOK
      <4>2. ASSUME NEW x \in 1 .. Len(mkeys[q]) PROVE mkeys[q][x] < e + 1
        <5>1. mkeys[q][x] \in Nat
          BY <1>3, KeptPosition, Zenon
        <5>2. mkeys[q][x] < e - n
          BY <1>3, Zenon
        <5> QED
          BY <5>1, <5>2, BelowNext, Zenon
      <4> QED
        BY <1>3, <4>1, <4>2
    <3> QED
      BY <1>2, <1>7, <2>1, <3>1, FlushedRecent, Zenon
  <2> QED
    BY <1>1, <1>2, <1>8, <2>1, <2>2, <2>4, <2>5, <2>6, WorkerStep
<1>10. CASE /\ n + 1 < WRITE_BATCH_SIZE
            /\ batch' = [batch EXCEPT ![q] = b]
            /\ batch_size' = [batch_size EXCEPT ![q] = n + 1]
            /\ db' = db /\ failed' = failed
  <2>1. /\ batch \in [Queues -> [DbKeys -> Nat \cup {None}]]
        /\ batch_size \in [Queues -> Nat] /\ db \in [Queues -> [DbKeys -> Nat \cup {None}]]
    BY <1>3 DEF WorkerTypeOK
  <2>2. /\ batch' \in [Queues -> [DbKeys -> Nat \cup {None}]]
        /\ batch_size' \in [Queues -> Nat]
        /\ batch'[q] = b /\ batch_size'[q] = n + 1
        /\ \A r \in Queues \ {q} :
             batch'[r] = batch[r] /\ batch_size'[r] = batch_size[r]
    BY <1>5, <1>7, <1>10, <2>1
  <2>3. WorkerTypeOK'
    BY <1>1, <1>2, <1>3, <1>8, <1>10, <2>2, Zenon DEF WorkerTypeOK
  <2>4. /\ Held(q)' = n + 1 /\ seq'[q] - Held(q)' = e - n
        /\ seq'[q] - batch_size'[q] = e - n
    BY <1>2, <1>7, <2>2 DEF Held
  <2>5. ASSUME NEW k \in DbKeys, NEW x \in Int
        PROVE  GoodWrite(q, k, x)' <=> GoodWrite(q, k, x)
    BY <1>2, <1>10 DEF GoodWrite
  <2>6. Progress(q)'
    <3>1. failed'[q] \subseteq 0 .. seq'[q] - Held(q)' - 1
      BY <1>3, <1>10, <2>4
    <3> QED
      BY <1>2, <1>7, <2>4, <3>1 DEF Progress
  <2>7. Sequential(q)'
    <3>1. ASSUME NEW k \in DbKeys
          PROVE  IsLastWrite(q, k, 0, e - n, db[q][k])'
      <4> PICK v : v = db[q][k]
        OBVIOUS
      <4>1. IsLastWrite(q, k, 0, e - n, v) /\ db'[q][k] = v
        BY <1>3, <1>10
      <4>2. CASE v = None
        <5>1. \A p \in 0 .. (e - n) - 1 : ~GoodWrite(q, k, p)
          BY <4>1, <4>2 DEF IsLastWrite
        <5>2. \A p \in 0 .. (e - n) - 1 : ~GoodWrite(q, k, p)'
          BY <2>5, <5>1, InRange, Zenon
        <5> QED
          BY <4>1, <4>2, <5>2 DEF IsLastWrite
      <4>3. CASE v # None
        <5>1. /\ v \in 0 .. (e - n) - 1 /\ GoodWrite(q, k, v)
              /\ \A p \in v + 1 .. (e - n) - 1 : ~GoodWrite(q, k, p)
          BY <4>1, <4>3 DEF IsLastWrite
        <5>2. /\ GoodWrite(q, k, v)'
              /\ \A p \in v + 1 .. (e - n) - 1 : ~GoodWrite(q, k, p)'
          <6>1. v \in Int /\ \A p \in v + 1 .. (e - n) - 1 : p \in Int
            BY <5>1, InRange, Zenon
          <6> QED
            BY <2>5, <5>1, <6>1, Zenon
        <5> QED
          BY <4>1, <4>3, <5>1, <5>2 DEF IsLastWrite
      <4> QED
        BY <4>2, <4>3
    <3> QED
      BY <2>4, <3>1 DEF Sequential
  <2>8. RecentBatch(q)'
    <3>1. ASSUME NEW k \in DbKeys
          PROVE  IsLastWrite(q, k, e - n, e + 1, batch[q][k])'
      <4> PICK v : v = b[k]
        OBVIOUS
      <4>1. IsLastWrite(q, k, e - n, e + 1, v) /\ batch'[q][k] = v
        BY <1>6, <2>2
      <4>2. CASE v = None
        <5>1. \A p \in e - n .. (e + 1) - 1 : ~GoodWrite(q, k, p)
          BY <4>1, <4>2 DEF IsLastWrite
        <5>2. \A p \in e - n .. (e + 1) - 1 : ~GoodWrite(q, k, p)'
          BY <2>5, <5>1, InRange, Zenon
        <5> QED
          BY <4>1, <4>2, <5>2 DEF IsLastWrite
      <4>3. CASE v # None
        <5>1. /\ v \in e - n .. (e + 1) - 1 /\ GoodWrite(q, k, v)
              /\ \A p \in v + 1 .. (e + 1) - 1 : ~GoodWrite(q, k, p)
          BY <4>1, <4>3 DEF IsLastWrite
        <5>2. /\ GoodWrite(q, k, v)'
              /\ \A p \in v + 1 .. (e + 1) - 1 : ~GoodWrite(q, k, p)'
          <6>1. v \in Int /\ \A p \in v + 1 .. (e + 1) - 1 : p \in Int
            BY <5>1, InRange, Zenon
          <6> QED
            BY <2>5, <5>1, <6>1, Zenon
        <5> QED
          BY <4>1, <4>3, <5>1, <5>2 DEF IsLastWrite
      <4> QED
        BY <4>2, <4>3
    <3>2. ASSUME NEW p \in e - n .. (e + 1) - 1 PROVE qs'[q][p].write
      <4>1. CASE p = e
        BY <1>1, <1>2, <4>1 DEF Request
      <4>2. CASE p \in e - n .. e - 1
        BY <1>2, <1>3, <4>2
      <4> QED
        BY <1>11, <4>1, <4>2, SMTT(30)
    <3>3. /\ mkeys' = mkeys /\ batch_size'[q] < WRITE_BATCH_SIZE
          /\ seq'[q] = e + 1
      BY <1>1, <1>2, <1>10, <2>2
    <3> QED
      BY <1>3, <2>4, <3>1, <3>2, <3>3 DEF RecentBatch
  <2> QED
    BY <1>1, <1>2, <1>8, <1>10, <2>2, <2>3, <2>6, <2>7, <2>8, WorkerStep
<1> QED
  BY <1>1, <1>9, <1>10

\* The end mark: nothing is held once the worker has left its loop.
LEMMA TakeEndIndInv ==
  ASSUME IndInv, NEW q \in Queues, TakeEnd(q)
  PROVE  IndInv'
<1> PICK e \in Nat : e = seq[q]
  BY ElementTypes
<1>1. /\ Taking(q) /\ DbWrite(q, batch[q], batch_size[q], seq[q])
      /\ MultiGet(q, mkeys[q], keybuf[q])
      /\ wpc' = [wpc EXCEPT ![q] = "report"]
      /\ UNCHANGED <<mainVars, busy, seq, batch, batch_size, mkeys, keybuf, crashed>>
  BY DEF TakeEnd
<1>2. wpc[q] = "top" /\ seq[q] < tail[q] /\ qs' = qs /\ tail' = tail
  BY <1>1, TakingFacts, Zenon DEF mainVars
<1>3. /\ db' \in [Queues -> [DbKeys -> Nat \cup {None}]]
      /\ failed' \in [Queues -> SUBSET Nat]
      /\ failed'[q] \subseteq 0 .. e - 1
      /\ \A r \in Queues \ {q} : db'[r] = db[r] /\ failed'[r] = failed[r]
      /\ \A k \in DbKeys, v \in Nat \cup {None} :
           v = db'[q][k] => IsLastWrite(q, k, 0, e, v)'
  BY <1>1, <1>2, InLoop, DbWriteSequential, Zenon
<1>4. WorkerTypeOK /\ crashed \in BOOLEAN
  BY DEF IndInv, TypeOK
<1>5. /\ wpc' \in [Queues -> {"top", "idle", "report", "done"}]
      /\ wpc'[q] = "report" /\ \A r \in Queues \ {q} : wpc'[r] = wpc[r]
  BY <1>1, <1>4 DEF WorkerTypeOK
<1>6. values' \in [Queues -> Seq([pos : Nat, key : DbKeys,
                                  ver : Nat \cup {None}])]
  BY <1>1, <1>2, <1>3, InLoop, MultiGetType, Zenon
<1>7. WorkerTypeOK'
  BY <1>1, <1>3, <1>4, <1>5, <1>6, Zenon DEF WorkerTypeOK
<1>8. Held(q)' = 0 /\ seq'[q] = e
  BY <1>1, <1>5, Zenon DEF Held
<1>9. Progress(q)'
  <2>1. failed'[q] \subseteq 0 .. seq'[q] - Held(q)' - 1
    BY <1>3, <1>8
  <2>2. seq'[q] <= tail'[q]
    BY <1>2, <1>8, ElementTypes
  <2> QED
    BY <1>8, <2>1, <2>2, SMTT(30) DEF Progress
<1>10. Sequential(q)'
  BY <1>3, <1>8, FlushedSequential
<1> QED
  BY <1>1, <1>3, <1>4, <1>5, <1>7, <1>9, <1>10, WorkerStep, Zenon

\* The report of a worker that has left its loop.
LEMMA ReportIndInv ==
  ASSUME IndInv, NEW q \in Queues, Report(q)
  PROVE  IndInv'
<1>1. /\ wpc[q] = "report"
      /\ wpc' = [wpc EXCEPT ![q] = IF seq[q] = 0 THEN @ ELSE "done"]
      /\ crashed' = (seq[q] = 0)
      /\ UNCHANGED <<mainVars, busy, seq, batch, batch_size, mkeys, keybuf,
                     values, db, failed>>
  BY DEF Report
<1>2. WorkerTypeOK /\ Progress(q) /\ Sequential(q)
  BY DEF IndInv, TypeOK, ProgressInv, DbIsSequential
<1>3. /\ wpc' \in [Queues -> {"top", "idle", "report", "done"}]
      /\ wpc'[q] \in {"report", "done"}
      /\ \A r \in Queues \ {q} : wpc'[r] = wpc[r]
  BY <1>1, <1>2 DEF WorkerTypeOK
<1>4. WorkerTypeOK'
  BY <1>1, <1>2, <1>3, Zenon DEF WorkerTypeOK
<1>5. Held(q) = 0 /\ Held(q)' = 0 /\ qs' = qs /\ tail' = tail
  BY <1>1, <1>3 DEF Held, mainVars
<1>6. Progress(q)'
  BY <1>1, <1>2, <1>5 DEF Progress
<1>7. Sequential(q)'
  <2>1. ASSUME NEW k \in DbKeys, NEW p
        PROVE  GoodWrite(q, k, p)' <=> GoodWrite(q, k, p)
    BY <1>1, <1>5 DEF GoodWrite
  <2> QED
    BY <1>1, <1>2, <1>5, <2>1 DEF Sequential, IsLastWrite
<1>8. crashed' \in BOOLEAN
  BY <1>1
<1> QED
  BY <1>1, <1>3, <1>4, <1>6, <1>7, <1>8, WorkerStep

=============================================================================
