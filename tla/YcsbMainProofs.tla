--------------------------- MODULE YcsbMainProofs ---------------------------
(***************************************************************************)
(* The inductive invariant of Ycsb holds initially and is preserved by the *)
(* steps of the main thread.                                               *)
(***************************************************************************)
EXTENDS Ycsb, TLAPS

\* What the assumptions on the constants say, in the form the provers need.
LEMMA ConstantFacts ==
  /\ QUEUE_NUM \in Nat /\ QUEUE_NUM > 0 /\ TOTAL_NUM \in Nat
  /\ QUEUE_LEN \in Int /\ TOTAL_NUM < QUEUE_LEN
  /\ BATCH_SIZE \in Nat /\ BATCH_SIZE > 0
  /\ WRITE_BATCH_SIZE \in Nat /\ WRITE_BATCH_SIZE > 0
  /\ Keys \subseteq Nat /\ 0 \in Keys
BY ConstantsAssumption, CapacityAssumption DEF QUEUE_LEN

\* The invariant holds before main reads its first command.
LEMMA InitIndInv == Init => IndInv
<1> SUFFICES ASSUME Init PROVE IndInv
  OBVIOUS
<1> USE ConstantFacts
<1>1. MainTypeOK
  BY DEF Init, MainTypeOK, Queues, Slots, DefaultSlot, DbKeys
<1>2. WorkerTypeOK
  BY DEF Init, WorkerTypeOK, DbKeys, NoPuts
<1>3. QueueInv
  BY DEF Init, QueueInv, LengthInv, Issued, UnpublishedInv, EarlyTailInv,
         IsBroadcast, Queues, Positions, DefaultSlot
<1>4. ProgressInv
  BY DEF Init, ProgressInv, Progress, Held, Queues
<1>5. BatchIsRecent
  BY DEF Init, BatchIsRecent, RecentBatch, IsLastWrite, NoPuts, None, Queues
<1>6. DbIsSequential
  BY DEF Init, DbIsSequential, Sequential, IsLastWrite, Held, NoPuts, None, Queues
<1> QED
  BY <1>1, <1>2, <1>3, <1>4, <1>5, <1>6, Zenon DEF IndInv, TypeOK, Init

-----------------------------------------------------------------------------
(* Steps of the main thread other than its stores leave the queues and the *)
(* workers alone.                                                          *)

\* A key is routed to one of the queues.
LEMMA Route_in == \A k \in Keys : Route(k) \in Queues
BY ConstantFacts DEF Route, Queues

\* The invariants of the workers only depend on the workers and the queues.
LEMMA WorkersUnchanged ==
  ASSUME IndInv, UNCHANGED <<qs, tail, workerVars>>
  PROVE  WorkerTypeOK' /\ ProgressInv' /\ BatchIsRecent' /\ DbIsSequential'
<1> USE DEF IndInv, TypeOK, workerVars
<1>1. WorkerTypeOK'
  BY Zenon DEF WorkerTypeOK
<1>2. ProgressInv'
  BY DEF ProgressInv, Progress, Held
<1>3. ASSUME NEW q, NEW k, NEW p
      PROVE  GoodWrite(q, k, p)' <=> GoodWrite(q, k, p)
  BY DEF GoodWrite
<1>4. BatchIsRecent'
  BY <1>3 DEF BatchIsRecent, RecentBatch, IsLastWrite
<1>5. DbIsSequential'
  BY <1>3 DEF DbIsSequential, Sequential, IsLastWrite, Held
<1> QED
  BY <1>1, <1>2, <1>4, <1>5

\* Reading a command decides what to store next and stores nothing yet.
LEMMA IssueIndInv ==
  ASSUME IndInv,
         \/ \E k \in Keys : IssueRead(k) \/ IssueWrite(k) \/ IssueScan(k)
         \/ IssueOther
  PROVE  IndInv'
<1> USE ConstantFacts DEF IndInv, TypeOK
<1>1. UNCHANGED <<qs, tail, workerVars, crashed>>
  BY DEF IssueRead, IssueWrite, IssueScan, IssueOther, NextCommand
<1>2. MainTypeOK'
  <2> USE Route_in, <1>1 DEF NextCommand, MainTypeOK, Slots, DbKeys
  <2>1. ASSUME NEW k \in Keys, IssueRead(k) PROVE MainTypeOK'
    BY <2>1 DEF IssueRead
  <2>2. ASSUME NEW k \in Keys, IssueWrite(k) PROVE MainTypeOK'
    BY <2>2 DEF IssueWrite
  <2>3. ASSUME NEW k \in Keys, IssueScan(k) PROVE MainTypeOK'
    <3>5. cmd' \in Slots
      <4>1. [seq |-> 0, key |-> k, scan_size |-> 1, write |-> FALSE] \in Slots
        OBVIOUS
      <4> QED
        BY <2>3, <4>1, Zenon DEF IssueScan
    <3>1. i' \in 0 .. TOTAL_NUM
      BY <2>3 DEF IssueScan
    <3>2. pc' \in {"issue", "wait"}
      BY <2>3 DEF IssueScan
    <3>3. stores' \subseteq
            Queues \X {"seq", "key", "scan_size", "write", "tail"}
      BY <2>3 DEF IssueScan
    <3>4. j' \in Queues
      BY <2>3 DEF IssueScan, Queues
    <3> QED
      BY <2>3, <3>1, <3>2, <3>3, <3>4, <3>5 DEF IssueScan
  <2>4. CASE IssueOther
    BY <2>4 DEF IssueOther
  <2> QED
    BY <2>1, <2>2, <2>3, <2>4
<1>3. QueueInv'
  <2> USE <1>1 DEF NextCommand, QueueInv, LengthInv, Issued, UnpublishedInv,
         EarlyTailInv, IsBroadcast, MainTypeOK
  <2>1. ASSUME NEW k \in Keys, IssueRead(k) PROVE QueueInv'
    BY <2>1 DEF IssueRead
  <2>2. ASSUME NEW k \in Keys, IssueWrite(k) PROVE QueueInv'
    BY <2>2 DEF IssueWrite
  <2>3. ASSUME NEW k \in Keys, IssueScan(k) PROVE QueueInv'
    BY <2>3 DEF IssueScan
  <2>4. CASE IssueOther
    BY <2>4 DEF IssueOther
  <2> QED
    BY <2>1, <2>2, <2>3, <2>4
<1> QED
  BY <1>1, <1>2, <1>3, WorkersUnchanged

\* The waiting loop of a single-thread scan and the opening of its iterators.
LEMMA VisitIndInv ==
  ASSUME IndInv, WaitIdle \/ OpenIterator
  PROVE  IndInv'
<1> USE ConstantFacts DEF IndInv, TypeOK, WaitIdle, OpenIterator, VisitNext
<1>1. MainTypeOK' /\ crashed' \in BOOLEAN
  BY DEF MainTypeOK, Queues
<1>2. QueueInv'
  BY DEF QueueInv, LengthInv, Issued, UnpublishedInv,
         EarlyTailInv, IsBroadcast, MainTypeOK
<1> QED
  BY <1>1, <1>2, WorkersUnchanged

\* After the last command main turns to the end marks.
LEMMA EndTraceIndInv ==
  ASSUME IndInv, EndTrace
  PROVE  IndInv'
<1> USE ConstantFacts DEF IndInv, TypeOK, EndTrace
<1>1. MainTypeOK'
  BY DEF MainTypeOK, Slots, DbKeys
<1>2. QueueInv'
  BY DEF QueueInv, LengthInv, Issued, UnpublishedInv,
         EarlyTailInv, IsBroadcast, MainTypeOK
<1> QED
  BY <1>1, <1>2, WorkersUnchanged

\* main joins the workers.
LEMMA JoinIndInv ==
  ASSUME IndInv, Join
  PROVE  IndInv'
<1> USE ConstantFacts DEF IndInv, TypeOK, Join
<1>1. MainTypeOK' /\ crashed' \in BOOLEAN
  BY DEF MainTypeOK
<1>2. QueueInv'
  BY DEF QueueInv, LengthInv, Issued, UnpublishedInv,
         EarlyTailInv, IsBroadcast, MainTypeOK
<1> QED
  BY <1>1, <1>2, WorkersUnchanged

-----------------------------------------------------------------------------
(* A store does not change what the requests already taken have written.   *)

\* The types of the entries of one queue and of its worker.
LEMMA ElementTypes ==
  ASSUME IndInv, NEW q \in Queues
  PROVE  /\ tail[q] \in Nat /\ seq[q] \in Nat /\ batch_size[q] \in Nat
         /\ seq[q] <= tail[q]
         /\ qs[q] \in [Positions -> Slots]
BY DEF IndInv, TypeOK, MainTypeOK, WorkerTypeOK, ProgressInv,
       Progress

\* The published part of a queue fits its row.
LEMMA TailBound ==
  ASSUME IndInv, NEW q \in Queues
  PROVE  tail[q] \in Nat /\ tail[q] <= QUEUE_LEN
<1>1. i \in Nat /\ i <= TOTAL_NUM /\ tail[q] \in Nat
  BY ConstantFacts DEF IndInv, TypeOK, MainTypeOK
<1>2. Issued(q) <= i + 1
  BY <1>1 DEF IndInv, QueueInv, LengthInv, Issued
<1>3. tail[q] <= i + 1
  BY <1>1, <1>2 DEF Issued
<1> QED
  BY <1>1, <1>3, ConstantFacts

\* The slot main stores to lies inside its row.
LEMMA TargetInBounds ==
  ASSUME IndInv, NEW q \in Queues, NEW f, <<q, f>> \in stores
  PROVE  Target(q) \in Positions
<1>1. i \in Nat /\ i <= TOTAL_NUM /\ tail[q] \in Nat
  BY ConstantFacts DEF IndInv, TypeOK, MainTypeOK
<1>2. Issued(q) <= i + 1
  BY <1>1 DEF IndInv, QueueInv, LengthInv, Issued
<1>3. CASE <<q, "tail">> \in stores
  BY <1>1, <1>2, <1>3, ConstantFacts DEF Target, Issued, Positions
<1>4. CASE <<q, "tail">> \notin stores
  <2>1. tail[q] > 0
    BY <1>4 DEF IndInv, QueueInv, EarlyTailInv
  <2> QED
    BY <1>1, <1>2, <1>4, <2>1, ConstantFacts DEF Target, Issued, Positions
<1> QED
  BY <1>3, <1>4

\* A store changes one field of one slot, or publishes it.
LEMMA StoreShape ==
  ASSUME IndInv, NEW q \in Queues, NEW f, Store(q, f)
  PROVE  /\ Target(q) \in Positions
         /\ f \in {"seq", "key", "scan_size", "write", "tail"}
         /\ f = "tail" => tail' = [tail EXCEPT ![q] = @ + 1] /\ qs' = qs
         /\ f # "tail" =>
              /\ tail' = tail
              /\ qs' = [qs EXCEPT ![q][Target(q)] =
                          Stored(qs[q][Target(q)], f)]
              /\ Stored(qs[q][Target(q)], f) \in Slots
<1>1. <<q, f>> \in stores /\ MainTypeOK
  BY DEF Store, IndInv, TypeOK
<1>2. f \in {"seq", "key", "scan_size", "write", "tail"}
  BY <1>1 DEF MainTypeOK
<1>3. Target(q) \in Positions
  BY <1>1, TargetInBounds
<1>4. ASSUME f # "tail" PROVE Stored(qs[q][Target(q)], f) \in Slots
  BY <1>1, <1>2, <1>3, <1>4 DEF Stored, Slots, MainTypeOK
<1> QED
  BY <1>2, <1>3, <1>4 DEF Store

\* The slots a store changes, seen through the published part of a queue.
LEMMA StoreWrites ==
  ASSUME IndInv, NEW q \in Queues, NEW f, Store(q, f),
         NEW r \in Queues, NEW p \in Positions, p < tail[r]
  PROVE  /\ qs'[r][p].write <=> qs[r][p].write
         /\ qs[r][p].write => qs'[r][p] = qs[r][p]
<1>0. MainTypeOK
  BY DEF IndInv, TypeOK
<1>1. CASE f = "tail" \/ r # q \/ p # Target(q)
  BY <1>0, <1>1, StoreShape DEF MainTypeOK
<1>2. CASE f # "tail" /\ r = q /\ p = Target(q)
  <2>1. <<q, "tail">> \notin stores /\ <<q, f>> \in stores /\ p = tail[q] - 1
    BY <1>0, <1>2 DEF Target, Store, MainTypeOK
  <2>2. ~cmd.write /\ ~qs[q][p].write
    BY <2>1 DEF IndInv, QueueInv, EarlyTailInv
  <2>3. qs'[q][p] = Stored(qs[q][p], f) /\ qs[q][p] \in Slots
    BY <1>0, <1>2, StoreShape DEF MainTypeOK
  <2>4. f \in {"seq", "key", "scan_size", "write"}
    BY <1>2, StoreShape
  <2>5. ~Stored(qs[q][p], f).write
    BY <2>2, <2>3, <2>4 DEF Stored, Slots
  <2> QED
    BY <1>2, <2>2, <2>3, <2>5
<1> QED
  BY <1>1, <1>2

\* A queue stays bounded by the commands read.
LEMMA StoreLengthInv ==
  ASSUME IndInv, NEW q \in Queues, NEW f, Store(q, f)
  PROVE  LengthInv'
<1>1. /\ stores' = stores \ {<<q, f>>} /\ <<q, f>> \in stores
      /\ pc' = pc /\ i' = i /\ i \in Nat /\ tail \in [Queues -> Nat]
  BY ConstantFacts DEF Store, IndInv, TypeOK, MainTypeOK
<1>2. ASSUME NEW r \in Queues PROVE Issued(r)' <= Issued(r)
  BY <1>1, StoreShape DEF Issued
<1>3. ASSUME NEW r \in Queues PROVE Issued(r) \in Nat /\ Issued(r)' \in Nat
  BY <1>1, StoreShape DEF Issued
<1> QED
  BY <1>1, <1>2, <1>3 DEF IndInv, QueueInv, LengthInv

\* Slots beyond tail hold no write, except the one being stored.
LEMMA StoreUnpublishedInv ==
  ASSUME IndInv, NEW q \in Queues, NEW f, Store(q, f)
  PROVE  UnpublishedInv'
<1> SUFFICES ASSUME NEW r \in Queues, NEW p \in Positions,
                    p >= tail'[r], qs'[r][p].write
             PROVE  cmd'.write /\ p = tail'[r] /\ <<r, "tail">> \in stores'
  BY DEF UnpublishedInv
<1>1. /\ stores' = stores \ {<<q, f>>} /\ <<q, f>> \in stores /\ cmd' = cmd
      /\ MainTypeOK /\ UnpublishedInv
  BY DEF Store, IndInv, TypeOK, QueueInv
<1>2. CASE f = "tail"
  <2>1. qs' = qs /\ tail'[r] = (IF r = q THEN tail[r] + 1 ELSE tail[r])
    BY <1>1, <1>2, StoreShape DEF MainTypeOK
  <2>2. p >= tail[r] /\ tail[r] \in Nat /\ p \in Int
    BY <1>1, <2>1 DEF MainTypeOK, Positions
  <2>3. cmd.write /\ p = tail[r] /\ <<r, "tail">> \in stores
    BY <1>1, <2>1, <2>2 DEF UnpublishedInv
  <2> QED
    BY <1>1, <1>2, <2>1, <2>2, <2>3
<1>3. CASE f # "tail" /\ (r # q \/ p # Target(q))
  <2>1. tail' = tail /\ qs'[r][p] = qs[r][p]
    BY <1>1, <1>3, StoreShape DEF MainTypeOK
  <2> QED
    BY <1>1, <1>3, <2>1 DEF UnpublishedInv
<1>4. CASE f # "tail" /\ r = q /\ p = Target(q)
  <2>1. <<q, "tail">> \in stores /\ p = tail[q] /\ tail' = tail
    BY <1>1, <1>4, StoreShape DEF Target, MainTypeOK
  <2>2. qs'[q][p] = Stored(qs[q][p], f) /\ qs[q][p] \in Slots
    BY <1>1, <1>4, StoreShape DEF MainTypeOK
  <2>3. f \in {"seq", "key", "scan_size", "write"}
    BY <1>4, StoreShape
  <2>4. cmd.write \/ qs[q][p].write
    BY <1>4, <2>2, <2>3 DEF Stored, Slots
  <2>5. qs[q][p].write => cmd.write
    BY <1>1, <1>4, <2>1 DEF UnpublishedInv, MainTypeOK
  <2> QED
    BY <1>1, <1>4, <2>1, <2>4, <2>5
<1> QED
  BY <1>2, <1>3, <1>4

\* A slot that was published too early is no write and becomes none.
LEMMA StoreEarlyTailInv ==
  ASSUME IndInv, NEW q \in Queues, NEW f, Store(q, f)
  PROVE  EarlyTailInv'
<1> SUFFICES ASSUME NEW s \in stores', <<s[1], "tail">> \notin stores'
             PROVE  /\ ~cmd'.write
                    /\ tail'[s[1]] > 0
                    /\ ~qs'[s[1]][tail'[s[1]] - 1].write
  BY DEF EarlyTailInv
<1>1. /\ stores' = stores \ {<<q, f>>} /\ <<q, f>> \in stores /\ cmd' = cmd
      /\ MainTypeOK /\ QueueInv
  BY DEF Store, IndInv, TypeOK
<1>2. s \in stores /\ s # <<q, f>> /\ s[1] \in Queues /\ s = <<s[1], s[2]>>
  BY <1>1 DEF MainTypeOK
<1>3. CASE f = "tail" /\ s[1] = q
  <2>1. s[2] \in {"seq", "key", "scan_size", "write"}
    BY <1>1, <1>2, <1>3 DEF MainTypeOK
  <2>2. ~IsNext(q, f)
    BY <1>2, <1>3, <2>1 DEF IsNext, FieldRank, Queues
  <2>3. ~cmd.write
    BY <1>1, <2>2 DEF Store, MayStore, QueueInv
  <2>4. Target(q) = tail[q]
    BY <1>1, <1>3 DEF Target
  <2>5. tail[q] \in Positions
    BY <2>4, StoreShape
  <2>6. ~qs[q][tail[q]].write
    <3>1. tail[q] >= tail[q]
      BY <2>5 DEF Positions
    <3> QED
      BY <1>1, <2>3, <2>5, <3>1, Zenon DEF QueueInv, UnpublishedInv
  <2>7. tail'[q] = tail[q] + 1 /\ tail'[q] - 1 = tail[q] /\ qs' = qs
    BY <1>1, <1>3, StoreShape DEF MainTypeOK
  <2>8. tail'[q] > 0
    BY <2>5, <2>7 DEF Positions
  <2> QED
    BY <1>1, <1>3, <2>3, <2>6, <2>7, <2>8
<1>4. CASE ~(f = "tail" /\ s[1] = q)
  <2>1. <<s[1], "tail">> \notin stores
    BY <1>1, <1>2, <1>4
  <2>2. ~cmd.write /\ tail[s[1]] > 0 /\ ~qs[s[1]][tail[s[1]] - 1].write
    BY <1>1, <1>2, <2>1 DEF QueueInv, EarlyTailInv
  <2>3. tail[s[1]] - 1 \in Positions /\ tail[s[1]] - 1 < tail[s[1]]
    BY <1>2, <2>2, TailBound, ConstantFacts DEF Positions
  <2>4. ~qs'[s[1]][tail[s[1]] - 1].write
    BY <1>2, <2>2, <2>3, StoreWrites
  <2>5. tail'[s[1]] = tail[s[1]]
    BY <1>1, <1>2, <1>4, StoreShape DEF MainTypeOK
  <2> QED
    BY <1>1, <2>2, <2>4, <2>5
<1> QED
  BY <1>3, <1>4

\* A store of main preserves the invariant, in whatever order it is made.
LEMMA StoreIndInv ==
  ASSUME IndInv, NEW q \in Queues, NEW f, Store(q, f)
  PROVE  IndInv'
<1>1. /\ UNCHANGED <<pc, i, j, cmd, lastWrite, workerVars, crashed>>
      /\ stores' = stores \ {<<q, f>>}
      /\ MainTypeOK /\ WorkerTypeOK /\ crashed \in BOOLEAN
      /\ QueueInv /\ ProgressInv /\ BatchIsRecent /\ DbIsSequential
  BY DEF Store, IndInv, TypeOK
<1>2. MainTypeOK'
  <2>1. CASE f = "tail"
    <3>1. qs' = qs /\ tail' \in [Queues -> Nat]
      BY <1>1, <2>1, StoreShape DEF MainTypeOK
    <3> QED
      BY <1>1, <3>1 DEF MainTypeOK
  <2>2. CASE f # "tail"
    <3>1. tail' = tail /\ qs' \in [Queues -> [Positions -> Slots]]
      BY <1>1, <2>2, StoreShape, SMTT(30) DEF MainTypeOK
    <3> QED
      BY <1>1, <3>1 DEF MainTypeOK
  <2> QED
    BY <2>1, <2>2
<1>3. QueueInv'
  BY <1>1, StoreLengthInv, StoreUnpublishedInv, StoreEarlyTailInv
     DEF QueueInv, IsBroadcast
<1>4. WorkerTypeOK'
  BY <1>1, Zenon DEF WorkerTypeOK, workerVars
<1>5. ProgressInv'
  <2>1. ASSUME NEW r \in Queues PROVE seq[r] <= tail'[r]
    <3>1. tail'[r] = tail[r] \/ tail'[r] = tail[r] + 1
      BY <1>1, StoreShape DEF MainTypeOK
    <3> QED
      BY <3>1, ElementTypes
  <2>2. UNCHANGED <<wpc, seq, batch_size, failed, mkeys, keybuf>>
    BY <1>1 DEF workerVars
  <2> QED
    BY <1>1, <2>1, <2>2 DEF ProgressInv, Progress, Held
<1>6. ASSUME NEW r \in Queues, NEW k, NEW p \in 0 .. seq[r] - 1
      PROVE  /\ GoodWrite(r, k, p)' <=> GoodWrite(r, k, p)
             /\ qs'[r][p].write <=> qs[r][p].write
  <2>1. p \in Positions /\ p < tail[r]
    BY TailBound, ElementTypes, ConstantFacts DEF Positions
  <2>2. /\ qs'[r][p].write <=> qs[r][p].write
        /\ qs[r][p].write => qs'[r][p] = qs[r][p]
    BY <2>1, StoreWrites
  <2> QED
    BY <1>1, <2>2 DEF GoodWrite, workerVars
<1>7. ASSUME NEW r \in Queues, NEW k, NEW from \in Nat, NEW to \in Nat,
             to <= seq[r], NEW v \in Nat \cup {None}
      PROVE  IsLastWrite(r, k, from, to, v)' <=> IsLastWrite(r, k, from, to, v)
  BY <1>6, <1>7, ElementTypes DEF IsLastWrite, None
<1>8. BatchIsRecent'
  <2> SUFFICES ASSUME NEW r \in Queues, wpc[r] \in {"top", "idle"}
               PROVE  LET start == seq[r] - batch_size[r]
                      IN  /\ \A p \in start .. seq[r] - 1 : qs'[r][p].write
                          /\ \A k \in DbKeys :
                               IsLastWrite(r, k, start, seq[r], batch[r][k])'
    BY <1>1 DEF BatchIsRecent, RecentBatch, workerVars
  <2> DEFINE start == seq[r] - batch_size[r]
  <2>1. start \in Nat /\ seq[r] \in Nat
    BY <1>1, ElementTypes DEF ProgressInv, Progress, Held
  <2>2. \A p \in start .. seq[r] - 1 : qs[r][p].write
    BY <1>1 DEF BatchIsRecent, RecentBatch
  <2>3. \A k \in DbKeys : IsLastWrite(r, k, start, seq[r], batch[r][k])
    BY <1>1 DEF BatchIsRecent, RecentBatch
  <2>4. \A k \in DbKeys : batch[r][k] \in Nat \cup {None}
    BY <1>1 DEF WorkerTypeOK
  <2>5. \A p \in start .. seq[r] - 1 : qs'[r][p].write
    BY <1>6, <2>1, <2>2
  <2>6. \A k \in DbKeys :
          IsLastWrite(r, k, start, seq[r], batch[r][k])'
    <3>1. batch' = batch /\ seq' = seq /\ batch_size' = batch_size
      BY <1>1 DEF workerVars
    <3>2. seq[r] <= seq[r]
      BY <2>1
    <3> QED
      BY <1>7, <2>1, <2>3, <2>4, <3>1, <3>2, Zenon
  <2> QED
    BY <2>5, <2>6
<1>9. DbIsSequential'
  <2> SUFFICES ASSUME NEW r \in Queues, NEW k \in DbKeys
               PROVE  IsLastWrite(r, k, 0, seq[r] - Held(r), db[r][k])'
    BY DEF DbIsSequential, Sequential
  <2>1. /\ seq[r] - Held(r) \in Nat /\ seq[r] - Held(r) <= seq[r]
        /\ db[r][k] \in Nat \cup {None}
    BY <1>1, ElementTypes DEF ProgressInv, Progress, Held, WorkerTypeOK
  <2>2. Held(r)' = Held(r) /\ seq' = seq /\ db' = db
    BY <1>1 DEF Held, workerVars
  <2>3. IsLastWrite(r, k, 0, seq[r] - Held(r), db[r][k])
    BY <1>1 DEF DbIsSequential, Sequential
  <2> QED
    BY <1>7, <2>1, <2>2, <2>3, Zenon
<1> QED
  BY <1>1, <1>2, <1>3, <1>4, <1>5, <1>8, <1>9 DEF IndInv, TypeOK

=============================================================================
