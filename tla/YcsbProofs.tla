----------------------------- MODULE YcsbProofs -----------------------------
(***************************************************************************)
(* The safety properties of Ycsb, for every number of queues, every trace  *)
(* length, every batch size and either order of the stores.                *)
(***************************************************************************)
EXTENDS YcsbWorkerProofs

\* A step that changes nothing.
LEMMA StutterIndInv ==
  ASSUME IndInv, UNCHANGED vars
  PROVE  IndInv'
<1>1. PICK q \in Queues : TRUE
  BY ConstantFacts DEF Queues
<1>2. /\ UNCHANGED mainVars /\ crashed' = crashed /\ UNCHANGED workerVars
  BY DEF vars
<1>3. UNCHANGED <<busy, wpc, seq, batch, batch_size, mkeys, keybuf, values, db,
                  failed, qs, tail>>
  BY <1>2 DEF workerVars, mainVars
<1>4. /\ WorkerTypeOK /\ crashed \in BOOLEAN /\ Progress(q) /\ Sequential(q)
      /\ wpc[q] \in {"top", "idle"} => RecentBatch(q)
  BY DEF IndInv, TypeOK, ProgressInv, DbIsSequential, BatchIsRecent
<1>5. /\ Progress(q)' /\ Sequential(q)'
      /\ wpc'[q] \in {"top", "idle"} => RecentBatch(q)'
  BY <1>3, <1>4, OtherWorker
<1>6. WorkerTypeOK'
  BY <1>3, <1>4, Zenon DEF WorkerTypeOK
<1> QED
  BY <1>2, <1>3, <1>4, <1>5, <1>6, WorkerStep

\* All steps of main.
LEMMA MainIndInv ==
  ASSUME IndInv, Main
  PROVE  IndInv'
<1>1. CASE \E k \in Keys : IssueRead(k) \/ IssueWrite(k) \/ IssueScan(k)
  BY <1>1, IssueIndInv
<1>2. CASE IssueOther
  BY <1>2, IssueIndInv
<1>3. CASE \E s \in stores : Store(s[1], s[2])
  <2>1. PICK s \in stores : Store(s[1], s[2])
    BY <1>3
  <2>2. s[1] \in Queues
    BY DEF IndInv, TypeOK, MainTypeOK
  <2> QED
    BY <2>1, <2>2, StoreIndInv
<1>4. CASE WaitIdle \/ OpenIterator
  BY <1>4, VisitIndInv
<1>5. CASE EndTrace
  BY <1>5, EndTraceIndInv
<1>6. CASE Join
  BY <1>6, JoinIndInv
<1> QED
  BY <1>1, <1>2, <1>3, <1>4, <1>5, <1>6 DEF Main

\* Every step preserves the invariant.
LEMMA NextIndInv ==
  ASSUME IndInv, [Next]_vars
  PROVE  IndInv'
<1>1. CASE Main
  BY <1>1, MainIndInv
<1>2. ASSUME NEW q \in Queues, Worker(q) PROVE IndInv'
  BY <1>2, DrainIndInv, WakeIndInv, TakeWriteIndInv, TakeReadIndInv,
     TakeScanIndInv, TakeEndIndInv, ReportIndInv DEF Worker
<1>3. CASE UNCHANGED vars
  BY <1>3, StutterIndInv
<1> QED
  BY <1>1, <1>2, <1>3 DEF Next

-----------------------------------------------------------------------------

\* The inductive invariant holds in every state main and worker_thread reach.
THEOREM Inductive == Spec => []IndInv
<1>1. Init => IndInv
  BY InitIndInv
<1>2. IndInv /\ [Next]_vars => IndInv'
  BY NextIndInv
<1> QED
  BY <1>1, <1>2, PTL DEF Spec

\* The variables of main and of worker_thread keep their types: in particular
\* no counter becomes negative and no store changes what a slot is.
THEOREM TypeCorrect == Spec => []TypeOK
<1>1. IndInv => TypeOK
  BY DEF IndInv
<1> QED
  BY <1>1, Inductive, PTL

\* Batching is invisible in the database: at every step an instance holds what
\* its worker's requests, executed one by one, would have left there.
THEOREM BatchingIsSequential == Spec => []DbIsSequential
<1>1. IndInv => DbIsSequential
  BY DEF IndInv
<1> QED
  BY <1>1, Inductive, PTL

\* The WriteBatch and its counter agree, never exceed the batch size, and hold
\* the most recent requests only.
THEOREM BatchAgrees == Spec => []BatchIsRecent
<1>1. IndInv => BatchIsRecent
  BY DEF IndInv
<1> QED
  BY <1>1, Inductive, PTL

\* No store of main, in whatever order the compiler emits them, is beyond the
\* row of its queue.
THEOREM StoresInBounds == Spec => []SlotInBounds
<1>1. IndInv => SlotInBounds
  <2> SUFFICES ASSUME IndInv, NEW s \in stores PROVE Target(s[1]) \in Positions
    BY DEF SlotInBounds
  <2>1. s[1] \in Queues /\ <<s[1], s[2]>> \in stores
    BY DEF IndInv, TypeOK, MainTypeOK
  <2> QED
    BY <2>1, TargetInBounds
<1> QED
  BY <1>1, Inductive, PTL

-----------------------------------------------------------------------------
(* What the queues hold of the trace, and where the workers stop. *)

\* The command main is storing: a write goes to the queue of its key, and only
\* the end marks follow the trace.
PhaseInv ==
  /\ cmd.write => cmd.key \in Keys
  /\ pc \in {"join", "done"} <=> cmd.seq = -1

\* main is storing a write request for k.
Storing(k) == cmd.write /\ stores # {} /\ cmd.key = k

\* The slot of a write request is published last, and marked as a write only
\* when it has its key.
CommandInv ==
  \A k \in Keys : Storing(k) =>
    LET q == Route(k)
    IN  /\ \A s \in stores : s[1] = q
        /\ <<q, "tail">> \in stores
        /\ <<q, "key">> \in stores => <<q, "write">> \in stores
        /\ <<q, "key">> \notin stores => qs[q][tail[q]].key = k
        /\ <<q, "write">> \notin stores => qs[q][tail[q]].write
        /\ lastWrite[k] = tail[q]

\* A write is in the queue of its key.
RoutedInv ==
  \A q \in Queues, p \in Positions : qs[q][p].write =>
    qs[q][p].key \in Keys /\ Route(qs[q][p].key) = q

\* A published write request for k.
Wrote(k, p) == qs[Route(k)][p].write /\ qs[Route(k)][p].key = k

\* lastWrite[k] is the last published write request for k.
LastInv ==
  \A k \in Keys : ~Storing(k) =>
    /\ lastWrite[k] # None => lastWrite[k] \in 0 .. tail[Route(k)] - 1 /\ Wrote(k, lastWrite[k])
    /\ \A p \in lastWrite[k] + 1 .. tail[Route(k)] - 1 : ~Wrote(k, p)

\* The end mark is the last slot of its queue.
EndInv ==
  \A q \in Queues, p \in Positions : qs[q][p].seq = -1 =>
    cmd.seq = -1 /\ p = Target(q) /\ ~qs[q][p].write

\* A worker leaves its loop at the end mark only.
Left(q) ==
  /\ tail[q] = seq[q] + 1
  /\ qs[q][seq[q]].seq = -1
  /\ <<q, "tail">> \notin stores
  /\ wpc[q] = "done" => seq[q] # 0

LeftInv == \A q \in Queues : wpc[q] \in {"report", "done"} => Left(q)

TraceInv ==
  /\ PhaseInv /\ CommandInv /\ RoutedInv /\ LastInv /\ EndInv /\ LeftInv
  /\ CrashOnlyIfIdle

\* Before the trace has ended there are no end marks, and no worker has stopped.
LEMMA BeforeTheEnd ==
  ASSUME IndInv, TraceInv, pc \notin {"join", "done"}
  PROVE  /\ \A q \in Queues, p \in Positions : qs[q][p].seq # -1
         /\ \A q \in Queues : wpc[q] \notin {"report", "done"}
<1>1. cmd.seq # -1
  BY DEF TraceInv, PhaseInv
<1>2. \A q \in Queues, p \in Positions : qs[q][p].seq # -1
  BY <1>1 DEF TraceInv, EndInv
<1>3. ASSUME NEW q \in Queues, wpc[q] \in {"report", "done"} PROVE FALSE
  <2>1. tail[q] = seq[q] + 1 /\ qs[q][seq[q]].seq = -1
    BY <1>3 DEF TraceInv, LeftInv, Left
  <2>2. seq[q] \in Positions
    BY <2>1, TailBound, ElementTypes, ConstantFacts DEF Positions
  <2> QED
    BY <1>2, <2>1, <2>2
<1> QED
  BY <1>2, <1>3

\* A step that stores nothing and issues nothing keeps what the queues hold.
LEMMA QueuesKept ==
  ASSUME TraceInv, UNCHANGED <<cmd, stores, qs, tail, lastWrite>>,
         pc' \in {"join", "done"} <=> pc \in {"join", "done"}
  PROVE  PhaseInv' /\ CommandInv' /\ RoutedInv' /\ LastInv' /\ EndInv'
<1>1. PhaseInv' /\ RoutedInv'
  BY DEF TraceInv, PhaseInv, RoutedInv
<1>2. CommandInv' /\ LastInv'
  BY DEF TraceInv, CommandInv, LastInv, Storing, Wrote
<1>3. EndInv'
  BY DEF TraceInv, EndInv, Target
<1> QED
  BY <1>1, <1>2, <1>3

\* No worker has stopped when main starts a command or waits for an instance.
LEMMA NoneLeft ==
  ASSUME IndInv, TraceInv, ~crashed, pc \notin {"join", "done"},
         UNCHANGED <<workerVars, crashed>>
  PROVE  LeftInv' /\ CrashOnlyIfIdle'
BY BeforeTheEnd DEF LeftInv, CrashOnlyIfIdle, workerVars

\* The trace is empty at first.
LEMMA InitTrace == Init => TraceInv
<1> SUFFICES ASSUME Init PROVE TraceInv
  OBVIOUS
<1>1. PhaseInv /\ CommandInv /\ RoutedInv /\ EndInv
  BY DEF Init, PhaseInv, CommandInv, RoutedInv, EndInv, DefaultSlot, Storing
<1>2. LastInv
  <2>1. \A k \in Keys : lastWrite[k] = None /\ tail[Route(k)] = 0
    BY Route_in DEF Init
  <2> QED
    BY <2>1 DEF LastInv, None
<1>3. LeftInv /\ CrashOnlyIfIdle
  BY DEF Init, LeftInv, CrashOnlyIfIdle
<1> QED
  BY <1>1, <1>2, <1>3 DEF TraceInv

\* main reads a command of the trace.
LEMMA IssueTrace ==
  ASSUME IndInv, TraceInv, ~crashed,
         \/ \E k \in Keys : IssueRead(k) \/ IssueWrite(k) \/ IssueScan(k)
         \/ IssueOther
  PROVE  TraceInv'
<1>1. /\ pc = "issue" /\ stores = {} /\ UNCHANGED <<qs, tail, workerVars, crashed>>
      /\ pc' \in {"issue", "wait"}
  BY DEF IssueRead, IssueWrite, IssueScan, IssueOther, NextCommand
<1>2. cmd \in Slots /\ cmd.seq # -1 /\ lastWrite \in [Keys -> Nat \cup {None}]
  BY <1>1 DEF IndInv, TypeOK, MainTypeOK, TraceInv, PhaseInv
<1>3. \A k \in Keys : ~Storing(k)
  BY <1>1 DEF Storing
<1>4. LeftInv' /\ CrashOnlyIfIdle'
  BY <1>1, NoneLeft
<1>5. RoutedInv'
  BY <1>1 DEF TraceInv, RoutedInv
<1>6. EndInv'
  BY <1>1, BeforeTheEnd DEF EndInv
<1>7. ASSUME NEW k \in Keys, IssueWrite(k)
      PROVE  PhaseInv' /\ CommandInv' /\ LastInv'
  <2>1. /\ cmd' = [seq |-> 0, key |-> k, scan_size |-> -1, write |-> TRUE]
        /\ stores' = {Route(k)} \X {"seq", "key", "write", "tail"}
        /\ lastWrite' = [lastWrite EXCEPT ![k] = tail[Route(k)]]
    BY <1>7 DEF IssueWrite
  <2>2. PhaseInv'
    BY <1>1, <2>1 DEF PhaseInv
  <2>3. CommandInv'
    <3> SUFFICES ASSUME NEW m \in Keys, Storing(m)'
                 PROVE  /\ \A s \in stores' : s[1] = Route(m)
                        /\ {<<Route(m), "tail">>, <<Route(m), "key">>, <<Route(m), "write">>} \subseteq stores'
                        /\ lastWrite'[m] = tail'[Route(m)]
      BY DEF CommandInv
    <3>1. m = k
      BY <2>1 DEF Storing
    <3> QED
      BY <1>1, <1>2, <2>1, <3>1
  <2>4. ASSUME NEW m \in Keys, ~Storing(m)'
        PROVE  lastWrite'[m] = lastWrite[m]
    <3>1. <<Route(k), "tail">> \in stores'
      BY <2>1
    <3>2. m # k
      BY <2>1, <2>4, <3>1 DEF Storing
    <3> QED
      BY <1>2, <2>1, <3>2
  <2>5. LastInv'
    BY <1>1, <1>3, <2>4 DEF TraceInv, LastInv, Wrote
  <2> QED
    BY <2>2, <2>3, <2>5
<1>8. CASE lastWrite' = lastWrite /\ cmd'.seq = 0 /\ ~cmd'.write
  <2>1. PhaseInv' /\ CommandInv'
    BY <1>1, <1>8 DEF PhaseInv, CommandInv, Storing
  <2>2. LastInv'
    BY <1>1, <1>3, <1>8 DEF TraceInv, LastInv, Wrote
  <2> QED
    BY <1>4, <1>5, <1>6, <2>1, <2>2 DEF TraceInv
<1>9. CASE lastWrite' = lastWrite /\ cmd' = cmd /\ stores' = stores
  <2>1. PhaseInv' /\ CommandInv' /\ LastInv'
    BY <1>1, <1>9, QueuesKept
  <2> QED
    BY <1>4, <1>5, <1>6, <2>1 DEF TraceInv
<1>10. ASSUME NEW k \in Keys, IssueRead(k) \/ IssueScan(k)
       PROVE  TraceInv'
  BY <1>8, <1>9, <1>10 DEF IssueRead, IssueScan
<1>11. CASE IssueOther
  BY <1>9, <1>11 DEF IssueOther
<1> QED
  BY <1>4, <1>5, <1>6, <1>7, <1>10, <1>11 DEF TraceInv

\* main waits for the instances and opens their iterators.
LEMMA VisitTrace ==
  ASSUME IndInv, TraceInv, ~crashed, WaitIdle \/ OpenIterator
  PROVE  TraceInv'
<1>1. /\ pc \in {"wait", "open"} /\ pc' \in {"wait", "open", "issue"}
      /\ UNCHANGED <<cmd, stores, qs, tail, lastWrite, workerVars, crashed>>
  BY DEF WaitIdle, OpenIterator, VisitNext
<1>2. PhaseInv' /\ CommandInv' /\ RoutedInv' /\ LastInv' /\ EndInv'
  BY <1>1, QueuesKept
<1>3. LeftInv' /\ CrashOnlyIfIdle'
  BY <1>1, NoneLeft
<1> QED
  BY <1>2, <1>3 DEF TraceInv

\* main turns to the end marks.
LEMMA EndTraceTrace ==
  ASSUME IndInv, TraceInv, ~crashed, EndTrace
  PROVE  TraceInv'
<1>1. /\ pc = "issue" /\ pc' = "join" /\ stores = {}
      /\ cmd' = [seq |-> -1, key |-> EndKey, scan_size |-> -1, write |-> FALSE]
      /\ UNCHANGED <<qs, tail, lastWrite, workerVars, crashed>>
  BY DEF EndTrace
<1>2. PhaseInv' /\ CommandInv'
  BY <1>1 DEF PhaseInv, CommandInv, Storing
<1>3. RoutedInv' /\ EndInv'
  BY <1>1, BeforeTheEnd DEF TraceInv, RoutedInv, EndInv
<1>4. LastInv'
  BY <1>1 DEF TraceInv, LastInv, Wrote, Storing
<1>5. LeftInv' /\ CrashOnlyIfIdle'
  BY <1>1, NoneLeft
<1> QED
  BY <1>2, <1>3, <1>4, <1>5 DEF TraceInv

\* When main joins the workers, each of them has taken a request: the trace is
\* not empty and main's own report does not divide by zero.
LEMMA JoinTrace ==
  ASSUME IndInv, TraceInv, ~crashed, Join
  PROVE  TraceInv'
<1>1. /\ pc = "join" /\ stores = {} /\ \A q \in Queues : wpc[q] = "done"
      /\ pc' \in {"join", "done"} /\ crashed' = (i = 0)
      /\ UNCHANGED <<i, cmd, stores, qs, tail, lastWrite, workerVars>>
  BY DEF Join
<1>2. PhaseInv' /\ CommandInv' /\ RoutedInv' /\ LastInv' /\ EndInv'
  BY <1>1, QueuesKept
<1>3. i # 0
  <2>1. 0 \in Queues
    BY ConstantFacts DEF Queues
  <2>2. tail[0] = seq[0] + 1 /\ seq[0] # 0
    BY <1>1, <2>1 DEF TraceInv, LeftInv, Left
  <2>3. tail[0] <= i + 1 /\ i \in Nat /\ tail[0] \in Nat /\ seq[0] \in Nat
    BY <1>1, <2>1, ElementTypes, ConstantFacts
       DEF IndInv, TypeOK, MainTypeOK, QueueInv, LengthInv, Issued
  <2> QED
    BY <2>2, <2>3
<1>4. CrashOnlyIfIdle'
  BY <1>1, <1>3 DEF CrashOnlyIfIdle
<1>5. LeftInv'
  BY <1>1 DEF TraceInv, LeftInv, Left, workerVars
<1> QED
  BY <1>2, <1>4, <1>5 DEF TraceInv

-----------------------------------------------------------------------------
(* A store of main. *)

\* The slot being stored, before and after the store of a field.
LEMMA StoreTarget ==
  ASSUME IndInv, NEW q \in Queues, NEW f, Store(q, f)
  PROVE  /\ Target(q) \in Positions /\ <<q, f>> \in stores
         /\ f \in {"seq", "key", "scan_size", "write", "tail"}
         /\ stores' = stores \ {<<q, f>>}
         /\ UNCHANGED <<pc, cmd, lastWrite, workerVars, crashed>>
         /\ \A r \in Queues, p \in Positions :
              r # q \/ p # Target(q) \/ f = "tail" => qs'[r][p] = qs[r][p]
         /\ f # "tail" => qs'[q][Target(q)] = Stored(qs[q][Target(q)], f) /\ tail' = tail
         /\ qs[q][Target(q)] \in Slots
         /\ \A r \in Queues : Target(r)' = Target(r)
         /\ \A r \in Queues \ {q} : tail'[r] = tail[r]
         /\ f = "tail" => tail'[q] = tail[q] + 1 /\ Target(q) = tail[q]
<1>1. /\ <<q, f>> \in stores /\ stores' = stores \ {<<q, f>>}
      /\ UNCHANGED <<pc, cmd, lastWrite, workerVars, crashed>>
  BY DEF Store
<1>2. qs \in [Queues -> [Positions -> Slots]] /\ tail \in [Queues -> Nat]
  BY DEF IndInv, TypeOK, MainTypeOK
<1>3. Target(q) \in Positions /\ f \in {"seq", "key", "scan_size", "write", "tail"}
  BY StoreShape
<1>4. \A r \in Queues, p \in Positions :
        r # q \/ p # Target(q) \/ f = "tail" => qs'[r][p] = qs[r][p]
  BY <1>2, <1>3, StoreShape
<1>5. f # "tail" => qs'[q][Target(q)] = Stored(qs[q][Target(q)], f) /\ tail' = tail
  BY <1>2, <1>3, StoreShape
<1>6. /\ f = "tail" => tail'[q] = tail[q] + 1 /\ Target(q) = tail[q]
      /\ \A r \in Queues \ {q} : tail'[r] = tail[r]
  BY <1>1, <1>2, StoreShape DEF Target
<1>7. ASSUME NEW r \in Queues PROVE Target(r)' = Target(r)
  <2>1. CASE f = "tail" /\ r = q
    <3>1. <<q, "tail">> \notin stores' /\ <<q, "tail">> \in stores
      BY <1>1, <2>1
    <3>2. Target(q)' = tail'[q] - 1 /\ Target(q) = tail[q] /\ tail[q] \in Nat
      BY <1>2, <3>1 DEF Target
    <3> QED
      BY <1>6, <2>1, <3>2
  <2>2. CASE ~(f = "tail" /\ r = q)
    <3>1. <<r, "tail">> \in stores' <=> <<r, "tail">> \in stores
      BY <1>1, <2>2
    <3>2. tail'[r] = tail[r]
      BY <1>5, <1>6, <2>2
    <3> QED
      BY <3>1, <3>2 DEF Target
  <2> QED
    BY <2>1, <2>2
<1> QED
  BY <1>1, <1>2, <1>3, <1>4, <1>5, <1>6, <1>7, Zenon

\* A store changes one slot.
LEMMA StoreKeeps ==
  ASSUME IndInv, NEW q \in Queues, NEW f, Store(q, f), NEW r \in Queues, NEW p \in Positions,
         r # q \/ p # Target(q) \/ f = "tail"
  PROVE  qs'[r][p] = qs[r][p]
<1>1. \A x \in Queues, y \in Positions :
        x # q \/ y # Target(q) \/ f = "tail" => qs'[x][y] = qs[x][y]
  BY StoreTarget, ZenonT(60)
<1> QED
  BY <1>1, Zenon

\* Only a write command makes a slot a write.
LEMMA StoreNoWrite ==
  ASSUME IndInv, NEW q \in Queues, NEW f, Store(q, f), ~cmd.write
  PROVE  ~qs[q][Target(q)].write /\ ~qs'[q][Target(q)].write
<1>1. /\ Target(q) \in Positions /\ <<q, f>> \in stores /\ tail[q] \in Nat
      /\ f \in {"seq", "key", "scan_size", "write", "tail"}
      /\ qs[q][Target(q)] \in Slots
  BY StoreTarget, ElementTypes
<1>2. ~qs[q][Target(q)].write
  <2>1. CASE <<q, "tail">> \in stores
    <3>1. Target(q) = tail[q] /\ tail[q] >= tail[q]
      BY <1>1, <2>1 DEF Target
    <3> QED
      BY <1>1, <3>1 DEF IndInv, QueueInv, UnpublishedInv
  <2>2. CASE <<q, "tail">> \notin stores
    BY <1>1, <2>2 DEF IndInv, QueueInv, EarlyTailInv, Target
  <2> QED
    BY <2>1, <2>2
<1>3. CASE f = "tail"
  BY <1>1, <1>2, <1>3, StoreTarget
<1>4. CASE f # "tail"
  <2>1. qs'[q][Target(q)] = Stored(qs[q][Target(q)], f)
    BY <1>4, StoreTarget
  <2>2. ~Stored(qs[q][Target(q)], f).write
    BY <1>1, <1>2, <1>4 DEF Stored, Slots
  <2> QED
    BY <1>2, <2>1, <2>2
<1> QED
  BY <1>3, <1>4

\* The stores of a write request are made in program order.
LEMMA StoreOrder ==
  ASSUME IndInv, TraceInv, NEW q \in Queues, NEW f, Store(q, f), cmd.write
  PROVE  /\ cmd.key \in Keys /\ q = Route(cmd.key) /\ Target(q) = tail[q]
         /\ f = "tail" => stores' = {}
         /\ f = "tail" => <<q, "key">> \notin stores /\ <<q, "write">> \notin stores
         /\ f = "write" => <<q, "key">> \notin stores
         /\ Storing(cmd.key)
<1> PICK k \in Keys : k = cmd.key
  BY DEF TraceInv, PhaseInv
<1>1. <<q, f>> \in stores /\ IsNext(q, f) /\ stores' = stores \ {<<q, f>>}
  BY DEF Store, MayStore, IndInv, QueueInv
<1>2. Storing(k)
  BY <1>1 DEF Storing
<1>3. (\A s \in stores : s[1] = Route(k)) /\ <<Route(k), "tail">> \in stores
  BY <1>2 DEF TraceInv, CommandInv
<1>4. q = Route(k)
  BY <1>1, <1>3
<1>5. Target(q) = tail[q]
  BY <1>3, <1>4 DEF Target
<1>6. stores \subseteq Queues \X {"seq", "key", "scan_size", "write", "tail"}
  BY DEF IndInv, TypeOK, MainTypeOK
<1>7. ASSUME f = "tail", NEW s \in stores PROVE s = <<q, "tail">>
  <2>1. s[1] = q /\ s[2] \in {"seq", "key", "scan_size", "write", "tail"} /\ s = <<s[1], s[2]>>
    BY <1>3, <1>4, <1>6
  <2>2. q \in Int
    BY DEF Queues
  <2>3. FieldRank["tail"] <= FieldRank[s[2]]
    BY <1>1, <1>7, <2>1, <2>2 DEF IsNext
  <2>4. s[2] = "tail"
    BY <2>1, <2>3 DEF FieldRank
  <2> QED
    BY <2>1, <2>4
<1>8. ASSUME f = "write", <<q, "key">> \in stores PROVE FALSE
  <2>1. q \in Int
    BY DEF Queues
  <2>2. FieldRank["write"] <= FieldRank["key"]
    BY <1>1, <1>8, <2>1 DEF IsNext
  <2> QED
    BY <2>2 DEF FieldRank
<1>9. f = "tail" => <<q, "key">> \notin stores /\ <<q, "write">> \notin stores
  BY <1>7
<1> QED
  BY <1>1, <1>2, <1>4, <1>5, <1>7, <1>8, <1>9

\* The slot of the write request being stored.
LEMMA StoreCommandInv ==
  ASSUME IndInv, TraceInv, NEW q \in Queues, NEW f, Store(q, f)
  PROVE  CommandInv'
<1> SUFFICES ASSUME NEW k \in Keys, Storing(k)'
             PROVE  /\ \A s \in stores' : s[1] = Route(k)
                    /\ <<Route(k), "tail">> \in stores'
                    /\ <<Route(k), "key">> \in stores' => <<Route(k), "write">> \in stores'
                    /\ <<Route(k), "key">> \notin stores' => qs'[Route(k)][tail'[Route(k)]].key = k
                    /\ <<Route(k), "write">> \notin stores' => qs'[Route(k)][tail'[Route(k)]].write
                    /\ lastWrite'[k] = tail'[Route(k)]
  BY DEF CommandInv
<1>1. /\ <<q, f>> \in stores /\ stores' = stores \ {<<q, f>>} /\ cmd' = cmd
      /\ lastWrite' = lastWrite /\ qs[q][Target(q)] \in Slots
      /\ f \in {"seq", "key", "scan_size", "write", "tail"}
  BY StoreTarget
<1>2. cmd.write /\ cmd.key = k /\ stores' # {}
  BY <1>1 DEF Storing
<1>3. q = Route(k) /\ Target(q) = tail[q] /\ Storing(k) /\ f # "tail"
  BY <1>2, StoreOrder
<1>4. f = "write" => <<q, "key">> \notin stores
  BY <1>2, StoreOrder
<1>5. /\ \A s \in stores : s[1] = q
      /\ <<q, "tail">> \in stores
      /\ <<q, "key">> \in stores => <<q, "write">> \in stores
      /\ <<q, "key">> \notin stores => qs[q][tail[q]].key = k
      /\ <<q, "write">> \notin stores => qs[q][tail[q]].write
      /\ lastWrite[k] = tail[q]
  BY <1>3 DEF TraceInv, CommandInv
<1>6. tail' = tail /\ qs'[q][tail[q]] = Stored(qs[q][tail[q]], f)
  BY <1>3, StoreTarget
<1>7. /\ <<q, "key">> \in stores' => <<q, "write">> \in stores'
      /\ <<q, "tail">> \in stores'
  BY <1>1, <1>3, <1>4, <1>5
<1>8. ASSUME <<q, "key">> \notin stores' PROVE qs'[q][tail[q]].key = k
  <2>1. CASE f = "key"
    BY <1>1, <1>2, <1>3, <1>6, <2>1 DEF Stored, Slots
  <2>2. CASE f # "key"
    <3>1. qs[q][tail[q]].key = k
      BY <1>1, <1>5, <1>8, <2>2
    <3> QED
      BY <1>1, <1>3, <1>6, <2>2, <3>1 DEF Stored, Slots
  <2> QED
    BY <2>1, <2>2
<1>9. ASSUME <<q, "write">> \notin stores' PROVE qs'[q][tail[q]].write
  <2>1. CASE f = "write"
    BY <1>1, <1>2, <1>3, <1>6, <2>1 DEF Stored, Slots
  <2>2. CASE f # "write"
    <3>1. qs[q][tail[q]].write
      BY <1>1, <1>5, <1>9, <2>2
    <3> QED
      BY <1>1, <1>3, <1>6, <2>2, <3>1 DEF Stored, Slots
  <2> QED
    BY <2>1, <2>2
<1> QED
  BY <1>1, <1>3, <1>5, <1>6, <1>7, <1>8, <1>9

\* A slot that becomes a write is in the queue of its key.
LEMMA StoreRoutedInv ==
  ASSUME IndInv, TraceInv, NEW q \in Queues, NEW f, Store(q, f)
  PROVE  RoutedInv'
<1> SUFFICES ASSUME NEW r \in Queues, NEW p \in Positions, qs'[r][p].write
             PROVE  qs'[r][p].key \in Keys /\ Route(qs'[r][p].key) = r
  BY DEF RoutedInv
<1>1. ASSUME qs'[r][p] = qs[r][p] PROVE qs'[r][p].key \in Keys /\ Route(qs'[r][p].key) = r
  BY <1>1 DEF TraceInv, RoutedInv
<1>2. CASE r # q \/ p # Target(q) \/ f = "tail"
  <2>1. qs'[r][p] = qs[r][p]
    BY <1>2, StoreKeeps, Zenon
  <2> QED
    BY <1>1, <2>1
<1>3. CASE r = q /\ p = Target(q) /\ f # "tail"
  <2>1. cmd.write
    BY <1>3, StoreNoWrite
  <2>2. PICK k \in Keys : k = cmd.key /\ q = Route(k) /\ p = tail[q] /\ Storing(k)
    BY <1>3, <2>1, StoreOrder
  <2>3. /\ qs'[q][p] = Stored(qs[q][p], f) /\ qs[q][p] \in Slots
        /\ f \in {"seq", "key", "scan_size", "write"}
    BY <1>3, StoreTarget
  <2>4. CASE f = "key"
    BY <1>3, <2>2, <2>3, <2>4 DEF Stored, Slots
  <2>5. CASE f = "write"
    <3>1. <<q, "key">> \notin stores
      BY <2>1, <2>5, StoreOrder
    <3>2. qs[q][p].key = k
      BY <2>2, <3>1 DEF TraceInv, CommandInv
    <3> QED
      BY <1>3, <2>2, <2>3, <2>5, <3>2 DEF Stored, Slots
  <2>6. CASE f \in {"seq", "scan_size"}
    <3>1. qs'[q][p].write = qs[q][p].write /\ qs'[q][p].key = qs[q][p].key
      BY <2>3, <2>6 DEF Stored, Slots
    <3> QED
      BY <1>3, <3>1 DEF TraceInv, RoutedInv
  <2> QED
    BY <2>3, <2>4, <2>5, <2>6
<1> QED
  BY <1>2, <1>3

\* Publishing a write request makes it the last one of its key.
LEMMA StoreLastInv ==
  ASSUME IndInv, TraceInv, NEW q \in Queues, NEW f, Store(q, f)
  PROVE  LastInv'
<1> SUFFICES ASSUME NEW k \in Keys, ~Storing(k)'
             PROVE  /\ lastWrite'[k] # None =>
                         /\ lastWrite'[k] \in 0 .. tail'[Route(k)] - 1
                         /\ Wrote(k, lastWrite[k])'
                    /\ \A p \in lastWrite'[k] + 1 .. tail'[Route(k)] - 1 : ~Wrote(k, p)'
  BY DEF LastInv
<1> PICK r \in Queues : r = Route(k)
  BY Route_in
<1>1. /\ <<q, f>> \in stores /\ stores' = stores \ {<<q, f>>} /\ cmd' = cmd
      /\ lastWrite' = lastWrite /\ Target(q) \in Positions
      /\ f \in {"seq", "key", "scan_size", "write", "tail"}
  BY StoreTarget
<1>2. tail[r] \in Nat /\ tail[r] <= QUEUE_LEN /\ lastWrite[k] \in Nat \cup {None}
  BY TailBound DEF IndInv, TypeOK, MainTypeOK
<1>3. ASSUME NEW p \in 0 .. tail[r] - 1 PROVE Wrote(k, p)' <=> Wrote(k, p)
  <2>1. p \in Positions /\ p < tail[r]
    BY <1>2, ConstantFacts DEF Positions
  <2>2. /\ qs'[r][p].write <=> qs[r][p].write
        /\ qs[r][p].write => qs'[r][p] = qs[r][p]
    BY <2>1, StoreWrites
  <2> QED
    BY <2>2 DEF Wrote
<1>4. CASE Storing(k)
  <2>1. f = "tail" /\ q = r /\ <<q, "key">> \notin stores /\ <<q, "write">> \notin stores
    <3>1. cmd.write /\ cmd.key = k /\ stores' = {}
      BY <1>1, <1>4 DEF Storing
    <3>2. <<Route(k), "tail">> \in stores
      BY <1>4 DEF TraceInv, CommandInv
    <3>3. f = "tail"
      BY <1>1, <3>1, <3>2
    <3> QED
      BY <3>1, <3>3, StoreOrder
  <2>2. /\ lastWrite[k] = tail[r] /\ qs[r][tail[r]].key = k /\ qs[r][tail[r]].write
    BY <1>4, <2>1 DEF TraceInv, CommandInv
  <2>3. tail'[r] = tail[r] + 1 /\ tail[r] \in Positions /\ qs'[r][tail[r]] = qs[r][tail[r]]
    <3>1. tail'[q] = tail[q] + 1 /\ Target(q) = tail[q] /\ Target(q) \in Positions
      BY <2>1, StoreTarget, Zenon
    <3>2. qs'[q][Target(q)] = qs[q][Target(q)]
      BY <2>1, <3>1, StoreKeeps, Zenon
    <3> QED
      BY <2>1, <3>1, <3>2, Zenon
  <2>4. Wrote(k, lastWrite[k])'
    BY <1>1, <2>2, <2>3 DEF Wrote
  <2>5. lastWrite[k] \in 0 .. tail'[r] - 1 /\ lastWrite[k] + 1 .. tail'[r] - 1 = {}
    BY <1>2, <2>2, <2>3
  <2> QED
    BY <1>1, <2>4, <2>5
<1>5. CASE ~Storing(k)
  <2>1. /\ lastWrite[k] # None => lastWrite[k] \in 0 .. tail[r] - 1 /\ Wrote(k, lastWrite[k])
        /\ \A p \in lastWrite[k] + 1 .. tail[r] - 1 : ~Wrote(k, p)
    BY <1>5 DEF TraceInv, LastInv
  <2>2. tail'[r] = tail[r] \/ (f = "tail" /\ q = r /\ tail'[r] = tail[r] + 1)
    BY <1>1, StoreTarget
  <2>3. ASSUME f = "tail", q = r, NEW p, p = tail[r] PROVE ~Wrote(k, p)'
    <3>1. p = Target(q) /\ qs'[r][p] = qs[r][p]
      <4>1. Target(q) = tail[q] /\ Target(q) \in Positions
        BY <2>3, StoreTarget, Zenon
      <4>2. qs'[q][Target(q)] = qs[q][Target(q)]
        BY <2>3, <4>1, StoreKeeps, Zenon
      <4> QED
        BY <2>3, <4>1, <4>2, Zenon
    <3>2. CASE ~cmd.write
      BY <2>3, <3>1, <3>2, StoreNoWrite DEF Wrote
    <3>3. CASE cmd.write
      <4>1. PICK m \in Keys : m = cmd.key /\ q = Route(m) /\ Storing(m) /\ <<q, "key">> \notin stores
        BY <2>3, <3>3, StoreOrder
      <4>2. qs[q][tail[q]].key = m
        BY <4>1 DEF TraceInv, CommandInv
      <4>3. m # k /\ qs[r][p].key = m
        BY <1>5, <2>3, <4>1, <4>2
      <4> QED
        BY <3>1, <4>2, <4>3 DEF Wrote
    <3> QED
      BY <3>2, <3>3
  <2>4. lastWrite'[k] # None => lastWrite'[k] \in 0 .. tail'[r] - 1 /\ Wrote(k, lastWrite[k])'
    <3> SUFFICES ASSUME lastWrite[k] # None
                 PROVE  lastWrite[k] \in 0 .. tail'[r] - 1 /\ Wrote(k, lastWrite[k])'
      BY <1>1
    <3>1. lastWrite[k] \in 0 .. tail[r] - 1 /\ Wrote(k, lastWrite[k])
      BY <2>1
    <3>2. lastWrite[k] \in 0 .. tail'[r] - 1
      BY <1>2, <2>2, <3>1
    <3>3. Wrote(k, lastWrite[k])'
      BY <1>1, <1>3, <3>1
    <3> QED
      BY <3>2, <3>3
  <2>5. ASSUME NEW p \in lastWrite'[k] + 1 .. tail'[r] - 1 PROVE ~Wrote(k, p)'
    <3>1. lastWrite[k] + 1 \in Nat
      BY <1>2 DEF None
    <3>2. p \in lastWrite[k] + 1 .. tail[r] - 1 \/ (p = tail[r] /\ f = "tail" /\ q = r)
      BY <1>1, <1>2, <2>2, <3>1
    <3>3. CASE p \in lastWrite[k] + 1 .. tail[r] - 1
      <4>1. p \in 0 .. tail[r] - 1
        BY <1>2, <3>1, <3>3
      <4> QED
        BY <1>3, <2>1, <3>3, <4>1
    <3>4. CASE p = tail[r] /\ f = "tail" /\ q = r
      BY <2>3, <3>4
    <3> QED
      BY <3>2, <3>3, <3>4
  <2> QED
    BY <2>4, <2>5
<1> QED
  BY <1>4, <1>5

\* The end mark is stored to the slot behind the last request.
LEMMA StoreEndInv ==
  ASSUME IndInv, TraceInv, NEW q \in Queues, NEW f, Store(q, f)
  PROVE  EndInv'
<1> SUFFICES ASSUME NEW r \in Queues, NEW p \in Positions, qs'[r][p].seq = -1
             PROVE  cmd'.seq = -1 /\ p = Target(r)' /\ ~qs'[r][p].write
  BY DEF EndInv
<1>1. cmd' = cmd /\ Target(r)' = Target(r) /\ cmd \in Slots
  BY StoreTarget DEF IndInv, TypeOK, MainTypeOK
<1>2. CASE r # q \/ p # Target(q) \/ f = "tail"
  <2>1. qs'[r][p] = qs[r][p]
    BY <1>2, StoreKeeps, Zenon
  <2> QED
    BY <1>1, <2>1 DEF TraceInv, EndInv
<1>3. CASE r = q /\ p = Target(q) /\ f # "tail"
  <2>1. /\ qs'[q][p] = Stored(qs[q][p], f) /\ qs[q][p] \in Slots
        /\ f \in {"seq", "key", "scan_size", "write"}
    BY <1>3, StoreTarget
  <2>2. cmd.seq = -1
    <3>1. CASE f = "seq"
      BY <1>3, <2>1, <3>1 DEF Stored, Slots
    <3>2. CASE f # "seq"
      <4>1. qs[q][p].seq = -1
        BY <1>3, <2>1, <3>2 DEF Stored, Slots
      <4> QED
        BY <1>3, <4>1 DEF TraceInv, EndInv
    <3> QED
      BY <3>1, <3>2
  <2>3. ~cmd.write
    BY <2>2 DEF IndInv, QueueInv, IsBroadcast
  <2> QED
    BY <1>1, <1>3, <2>2, <2>3, StoreNoWrite
<1> QED
  BY <1>2, <1>3

\* The end mark at which a worker has stopped stays where it is.
LEMMA StoreLeftInv ==
  ASSUME IndInv, TraceInv, NEW q \in Queues, NEW f, Store(q, f)
  PROVE  LeftInv'
<1> SUFFICES ASSUME NEW r \in Queues, wpc'[r] \in {"report", "done"} PROVE Left(r)'
  BY DEF LeftInv
<1>1. /\ wpc' = wpc /\ seq' = seq /\ stores' = stores \ {<<q, f>>} /\ <<q, f>> \in stores
  BY StoreTarget DEF workerVars
<1>2. Left(r)
  BY <1>1 DEF TraceInv, LeftInv
<1>3. seq[r] \in Positions
  BY <1>2, TailBound, ElementTypes, ConstantFacts DEF Left, Positions
<1>4. tail'[r] = tail[r]
  <2>1. ~(f = "tail" /\ q = r)
    BY <1>1, <1>2 DEF Left
  <2> QED
    BY <2>1, StoreTarget
<1>5. qs'[r][seq[r]].seq = -1
  <2>1. CASE r # q \/ seq[r] # Target(q) \/ f = "tail"
    <3>1. qs'[r][seq[r]] = qs[r][seq[r]]
      <4>1. \A x \in Queues, p \in Positions :
              x # q \/ p # Target(q) \/ f = "tail" => qs'[x][p] = qs[x][p]
        BY StoreTarget, Zenon
      <4> QED
        BY <1>3, <2>1, <4>1, Zenon
    <3> QED
      BY <1>2, <3>1 DEF Left
  <2>2. CASE r = q /\ seq[r] = Target(q) /\ f # "tail"
    <3>1. /\ qs'[r][seq[r]] = Stored(qs[r][seq[r]], f) /\ qs[r][seq[r]] \in Slots
          /\ f \in {"seq", "key", "scan_size", "write"}
      <4>1. /\ qs'[r][seq[r]] = Stored(qs[r][seq[r]], f) /\ qs[r][seq[r]] \in Slots
            /\ f \in {"seq", "key", "scan_size", "write", "tail"}
        BY <2>2, StoreTarget, ZenonT(60)
      <4> QED
        BY <2>2, <4>1
    <3>2. cmd.seq = -1 /\ qs[r][seq[r]].seq = -1
      BY <1>2, <1>3 DEF Left, TraceInv, EndInv
    <3> QED
      BY <3>1, <3>2 DEF Stored, Slots
  <2> QED
    BY <2>1, <2>2
<1> QED
  BY <1>1, <1>2, <1>4, <1>5 DEF Left

\* A store of main.
LEMMA StoreTrace ==
  ASSUME IndInv, TraceInv, ~crashed, NEW q \in Queues, NEW f, Store(q, f)
  PROVE  TraceInv'
<1>1. PhaseInv' /\ CrashOnlyIfIdle'
  BY StoreTarget DEF TraceInv, PhaseInv, CrashOnlyIfIdle
<1> QED
  BY <1>1, StoreCommandInv, StoreRoutedInv, StoreLastInv, StoreEndInv, StoreLeftInv DEF TraceInv

-----------------------------------------------------------------------------
(* The steps of a worker. *)

\* A worker stops at the end mark; its report divides by zero only when the end
\* mark is the first slot of its queue.
LEMMA WorkerTrace ==
  ASSUME IndInv, TraceInv, ~crashed, NEW q \in Queues, Worker(q)
  PROVE  TraceInv'
<1>1. UNCHANGED mainVars /\ WorkerTypeOK
  BY DEF Worker, Drain, Wake, TakeWrite, TakeRead, TakeScan, Take, TakeEnd, Report,
         IndInv, TypeOK
<1>2. UNCHANGED <<pc, cmd, stores, qs, tail, lastWrite>>
  BY <1>1 DEF mainVars
<1>3. PhaseInv' /\ CommandInv' /\ RoutedInv' /\ LastInv' /\ EndInv'
  BY <1>2, QueuesKept
<1>4. ASSUME NEW r \in Queues, wpc'[r] = wpc[r], seq'[r] = seq[r]
      PROVE  wpc'[r] \in {"report", "done"} => Left(r)'
  BY <1>2, <1>4 DEF TraceInv, LeftInv, Left
<1>5. CASE Drain(q) \/ Wake(q) \/ TakeWrite(q) \/ TakeRead(q) \/ TakeScan(q)
  <2>1. crashed' = crashed /\ wpc'[q] \notin {"report", "done"}
    BY <1>1, <1>5 DEF Drain, Wake, TakeWrite, TakeRead, TakeScan, Take, Taking, WorkerTypeOK
  <2>2. \A r \in Queues \ {q} : wpc'[r] = wpc[r] /\ seq'[r] = seq[r]
    BY <1>1, <1>5 DEF Drain, Wake, TakeWrite, TakeRead, TakeScan, Take, WorkerTypeOK
  <2> QED
    BY <1>3, <1>4, <2>1, <2>2 DEF TraceInv, LeftInv, CrashOnlyIfIdle
<1>6. CASE TakeEnd(q)
  <2>1. /\ Taking(q) /\ Request(q).seq = -1 /\ seq' = seq /\ crashed' = crashed
        /\ wpc' = [wpc EXCEPT ![q] = "report"]
    BY <1>6 DEF TakeEnd
  <2>2. /\ seq[q] < tail[q] /\ seq[q] \in Positions /\ qs[q][seq[q]].seq = -1
        /\ tail[q] \in Nat /\ seq[q] \in Nat
    BY <2>1, TakingFacts, ElementTypes DEF Request
  <2>3. seq[q] = Target(q)
    BY <2>2 DEF TraceInv, EndInv
  <2>4. <<q, "tail">> \notin stores /\ tail[q] = seq[q] + 1
    BY <2>2, <2>3 DEF Target
  <2>5. wpc'[q] = "report" /\ \A r \in Queues \ {q} : wpc'[r] = wpc[r]
    BY <1>1, <2>1 DEF WorkerTypeOK
  <2>6. Left(q)'
    BY <1>2, <2>1, <2>2, <2>4, <2>5 DEF Left
  <2> QED
    BY <1>3, <1>4, <2>1, <2>5, <2>6 DEF TraceInv, LeftInv, CrashOnlyIfIdle
<1>7. CASE Report(q)
  <2>1. /\ wpc[q] = "report" /\ seq' = seq /\ crashed' = (seq[q] = 0)
        /\ wpc' = [wpc EXCEPT ![q] = IF seq[q] = 0 THEN @ ELSE "done"]
    BY <1>7 DEF Report
  <2>2. Left(q)
    BY <2>1 DEF TraceInv, LeftInv
  <2>3. /\ wpc'[q] = IF seq[q] = 0 THEN "report" ELSE "done"
        /\ \A r \in Queues \ {q} : wpc'[r] = wpc[r]
    BY <1>1, <2>1 DEF WorkerTypeOK
  <2>4. Left(q)'
    BY <1>2, <2>1, <2>2, <2>3 DEF Left
  <2>5. CrashOnlyIfIdle'
    <3> SUFFICES ASSUME seq[q] = 0 PROVE tail'[q] = 1 /\ qs'[q][0].seq = -1
      BY <2>1 DEF CrashOnlyIfIdle
    <3> QED
      BY <1>2, <2>2 DEF Left
  <2> QED
    BY <1>3, <1>4, <2>1, <2>3, <2>4, <2>5 DEF TraceInv, LeftInv
<1> QED
  BY <1>5, <1>6, <1>7 DEF Worker

\* The queues hold the trace as main reads it, in every state.
THEOREM TraceIsQueued == Spec => []TraceInv
<1>1. Init => TraceInv
  BY InitTrace
<1>2. ASSUME IndInv, TraceInv, [Next]_vars PROVE TraceInv'
  <2>1. CASE ~Returned /\ Main
    <3>1. ~crashed
      BY <2>1 DEF Returned
    <3>2. CASE \E s \in stores : Store(s[1], s[2])
      <4>1. PICK s \in stores : Store(s[1], s[2])
        BY <3>2
      <4>2. s[1] \in Queues
        BY <1>2 DEF IndInv, TypeOK, MainTypeOK
      <4> QED
        BY <1>2, <3>1, <4>1, <4>2, StoreTrace
    <3> QED
      BY <1>2, <2>1, <3>1, <3>2, IssueTrace, VisitTrace, EndTraceTrace, JoinTrace DEF Main
  <2>2. CASE ~Returned /\ \E q \in Queues : Worker(q)
    BY <1>2, <2>2, WorkerTrace DEF Returned
  <2>3. CASE UNCHANGED vars
    <3>1. UNCHANGED <<pc, cmd, stores, qs, tail, lastWrite, wpc, seq, crashed>>
      BY <2>3 DEF vars, mainVars, workerVars
    <3>2. PhaseInv' /\ CommandInv' /\ RoutedInv' /\ LastInv' /\ EndInv'
      BY <1>2, <3>1, QueuesKept
    <3>3. LeftInv' /\ CrashOnlyIfIdle'
      BY <1>2, <3>1 DEF TraceInv, LeftInv, Left, CrashOnlyIfIdle
    <3> QED
      BY <3>2, <3>3 DEF TraceInv
  <2> QED
    BY <1>2, <2>1, <2>2, <2>3 DEF Next
<1> QED
  BY <1>1, <1>2, Inductive, PTL DEF Spec

\* When main returns, the instance a key is routed to holds the last write the
\* trace has for the key, unless that write failed, and no other instance holds
\* the key: for every trace, and whatever order main's stores are made in.
THEOREM FinalDb == Spec => []FinalDbMatchesTrace
<1>1. ASSUME IndInv, TraceInv, pc = "done" => stores = {} /\ \A q \in Queues : wpc[q] = "done"
      PROVE  FinalDbMatchesTrace
  <2> SUFFICES ASSUME pc = "done", NEW k \in Keys, NEW q \in Queues
               PROVE  IF q = Route(k)
                      THEN lastWrite[k] \in failed[q] \/ db[q][k] = lastWrite[k]
                      ELSE db[q][k] = None
    BY DEF FinalDbMatchesTrace
  <2>1. stores = {} /\ wpc[q] = "done"
    BY <1>1
  <2>2. /\ tail[q] = seq[q] + 1 /\ qs[q][seq[q]].seq = -1
    BY <1>1, <2>1 DEF TraceInv, LeftInv, Left
  <2>3. seq[q] \in Nat /\ seq[q] \in Positions
    BY <1>1, <2>2, TailBound, ElementTypes, ConstantFacts DEF Positions
  <2>4. ~qs[q][seq[q]].write
    BY <1>1, <2>2, <2>3 DEF TraceInv, EndInv
  <2>5. k \in DbKeys /\ db[q][k] \in Nat \cup {None} /\ lastWrite[k] \in Nat \cup {None}
    BY <1>1 DEF IndInv, TypeOK, MainTypeOK, WorkerTypeOK, DbKeys
  <2>6. IsLastWrite(q, k, 0, seq[q], db[q][k])
    <3>1. Held(q) = 0 /\ seq[q] - 0 = seq[q]
      BY <2>1, <2>3 DEF Held
    <3> QED
      BY <1>1, <2>5, <3>1 DEF IndInv, DbIsSequential, Sequential
  <2>7. CASE q # Route(k)
    <3>1. ASSUME NEW p \in 0 .. seq[q] - 1 PROVE ~GoodWrite(q, k, p)
      <4>1. p \in Positions
        BY <2>3, ConstantFacts DEF Positions
      <4> QED
        BY <1>1, <2>7, <4>1 DEF GoodWrite, TraceInv, RoutedInv
    <3> QED
      BY <2>5, <2>6, <2>7, <3>1 DEF IsLastWrite
  <2>8. CASE q = Route(k)
    <3>1. /\ lastWrite[k] # None => lastWrite[k] \in 0 .. tail[q] - 1 /\ Wrote(k, lastWrite[k])
          /\ \A p \in lastWrite[k] + 1 .. tail[q] - 1 : ~Wrote(k, p)
      BY <1>1, <2>1, <2>8 DEF TraceInv, LastInv, Storing
    <3>2. \A p : GoodWrite(q, k, p) <=> Wrote(k, p) /\ p \notin failed[q]
      BY <2>8 DEF GoodWrite, Wrote
    <3>3. tail[q] - 1 = seq[q] /\ ~Wrote(k, seq[q])
      BY <2>2, <2>3, <2>4, <2>8 DEF Wrote
    <3>4. ASSUME lastWrite[k] = None PROVE db[q][k] = None
      <4>1. \A p \in 0 .. seq[q] - 1 : ~GoodWrite(q, k, p)
        BY <2>3, <3>1, <3>2, <3>3, <3>4 DEF None
      <4> QED
        BY <2>5, <2>6, <4>1 DEF IsLastWrite
    <3>5. ASSUME lastWrite[k] # None, lastWrite[k] \notin failed[q] PROVE db[q][k] = lastWrite[k]
      <4> PICK w \in Nat : w = lastWrite[k]
        BY <2>5, <3>5
      <4>1. w \in 0 .. seq[q] - 1 /\ GoodWrite(q, k, w)
        BY <2>3, <3>1, <3>2, <3>3, <3>5
      <4>2. \A p \in w + 1 .. seq[q] - 1 : ~GoodWrite(q, k, p)
        BY <2>3, <3>1, <3>2, <3>3
      <4>3. db[q][k] # None
        BY <2>6, <4>1 DEF IsLastWrite
      <4>4. PICK v \in Nat : v = db[q][k] /\ v \in 0 .. seq[q] - 1 /\ GoodWrite(q, k, v)
                              /\ \A p \in v + 1 .. seq[q] - 1 : ~GoodWrite(q, k, p)
        BY <2>5, <2>6, <4>3 DEF IsLastWrite
      <4>5. ~(w < v) /\ ~(v < w)
        BY <2>3, <4>1, <4>2, <4>4
      <4> QED
        BY <4>4, <4>5
    <3> QED
      BY <2>8, <3>4, <3>5
  <2> QED
    BY <2>7, <2>8
<1> DEFINE Joined == pc = "done" => stores = {} /\ \A q \in Queues : wpc[q] = "done"
<1>2. Init => Joined
  BY DEF Init
<1>3. ASSUME Joined, [Next]_vars PROVE Joined'
  <2>1. CASE pc = "done"
    <3>1. UNCHANGED vars
      BY <1>3, <2>1 DEF Next, Returned
    <3> QED
      BY <1>3, <3>1 DEF vars, mainVars, workerVars
  <2>2. CASE pc # "done" /\ pc' = "done"
    <3>1. Join
      BY <1>3, <2>2 DEF Next, Main, Worker, IssueRead, IssueWrite, IssueScan, IssueOther,
         NextCommand, Store, WaitIdle, OpenIterator, VisitNext, EndTrace, Drain, Wake,
         TakeWrite, TakeRead, TakeScan, Take, TakeEnd, Report, vars, mainVars
    <3> QED
      BY <3>1 DEF Join, workerVars
  <2> QED
    BY <2>1, <2>2
<1> QED
  BY <1>1, <1>2, <1>3, Inductive, TraceIsQueued, PTL DEF Spec

\* A report divides by zero only for a queue that got nothing but its end mark;
\* main's own report never does.
THEOREM CrashesOnlyIdle == Spec => []CrashOnlyIfIdle
<1>1. TraceInv => CrashOnlyIfIdle
  BY DEF TraceInv
<1> QED
  BY <1>1, TraceIsQueued, PTL

-----------------------------------------------------------------------------
(* What the point queries read. *)

\* What NoStaleRead says of one worker, which has taken every read it answered.
Fresh(q) ==
  \A x \in 1 .. Len(values[q]) :
    /\ values[q][x].pos < seq[q]
    /\ \A p \in 0 .. values[q][x].pos - 1 : GoodWrite(q, values[q][x].key, p) => p <= values[q][x].ver

\* Answers stay fresh while no write is added behind them.
LEMMA StaysFresh ==
  ASSUME IndInv, NEW q \in Queues, Fresh(q), values'[q] = values[q],
         seq'[q] \in Nat, seq'[q] >= seq[q],
         \A k \in DbKeys, p \in 0 .. seq[q] - 1 : GoodWrite(q, k, p)' => GoodWrite(q, k, p)
  PROVE  Fresh(q)'
<1> SUFFICES ASSUME NEW x \in 1 .. Len(values[q])
             PROVE  /\ values[q][x].pos < seq'[q]
                    /\ \A p \in 0 .. values[q][x].pos - 1 :
                         GoodWrite(q, values[q][x].key, p)' => p <= values[q][x].ver
  BY DEF Fresh
<1>1. values[q][x] \in [pos : Nat, key : DbKeys, ver : Nat \cup {None}]
  <2> DEFINE S == [pos : Nat, key : DbKeys, ver : Nat \cup {None}]
  <2>1. values[q] \in Seq(S)
    BY Zenon DEF IndInv, TypeOK, WorkerTypeOK
  <2> HIDE DEF S
  <2>2. values[q][x] \in S
    BY <2>1
  <2> QED
    BY <2>2 DEF S
<1> PICK n \in Nat, k \in DbKeys : n = values[q][x].pos /\ k = values[q][x].key
  BY <1>1
<1> PICK v : v = values[q][x].ver
  OBVIOUS
<1>2. n < seq[q] /\ \A p \in 0 .. n - 1 : GoodWrite(q, k, p) => p <= v
  BY DEF Fresh
<1>5. PICK a \in Nat, b \in Nat : a = seq[q] /\ b = seq'[q] /\ n < a /\ a <= b
  BY <1>2, ElementTypes
<1>3. n < seq'[q]
  BY <1>5
<1>4. ASSUME NEW p \in 0 .. n - 1, GoodWrite(q, k, p)' PROVE p <= v
  <2>1. p \in 0 .. seq[q] - 1
    BY <1>5
  <2> QED
    BY <1>2, <1>4, <2>1
<1> QED
  BY <1>3, <1>4

\* A position that is not behind v is at most v.
LEMMA NotAbove ==
  ASSUME NEW e \in Nat, NEW p \in 0 .. e - 1, NEW v \in 0 .. e - 1, p \notin v + 1 .. e - 1
  PROVE  p <= v
OBVIOUS

\* The answers to the pending reads, in their order.
LEMMA AnswersOf ==
  ASSUME NEW pending \in Seq(Nat), NEW k, NEW v, NEW s,
         s = [x \in 1 .. Len(pending) |-> [pos |-> pending[x], key |-> k, ver |-> v]]
  PROVE  /\ Len(s) = Len(pending)
         /\ \A x \in 1 .. Len(pending) : s[x].pos = pending[x] /\ s[x].key = k /\ s[x].ver = v
OBVIOUS

\* A MultiGet that is executed after the writes before it answers afresh.
LEMMA AnswersFresh ==
  ASSUME IndInv', NEW q \in Queues, Held(q)' = 0, NEW pending \in Seq(Nat), NEW k \in DbKeys,
         \A x \in 1 .. Len(pending) : pending[x] < seq'[q],
         values'[q] = [x \in 1 .. Len(pending) |-> [pos |-> pending[x], key |-> k, ver |-> db'[q][k]]]
  PROVE  Fresh(q)'
<1>1. /\ seq'[q] \in Nat /\ db'[q][k] \in Nat \cup {None} /\ Len(pending) \in Nat
      /\ \A x \in 1 .. Len(pending) : pending[x] \in Nat
  BY DEF IndInv, TypeOK, WorkerTypeOK
<1> PICK v \in Nat \cup {None}, e \in Nat : v = db'[q][k] /\ e = seq'[q]
  BY <1>1
<1>2. IsLastWrite(q, k, 0, e, v)'
  <2>1. seq'[q] - Held(q)' = e
    BY <1>1
  <2>2. IsLastWrite(q, k, 0, seq[q] - Held(q), db[q][k])'
    BY DEF IndInv, DbIsSequential, Sequential
  <2> QED
    BY <2>1, <2>2
<1>3. ASSUME NEW p \in 0 .. e - 1, GoodWrite(q, k, p)' PROVE p <= v
  <2>1. v # None
    BY <1>2, <1>3 DEF IsLastWrite
  <2>2. v \in 0 .. e - 1 /\ \A x \in v + 1 .. e - 1 : ~GoodWrite(q, k, x)'
    BY <1>2, <2>1 DEF IsLastWrite
  <2>3. p \notin v + 1 .. e - 1
    BY <1>3, <2>2, Zenon
  <2>4. v \in 0 .. e - 1
    BY <2>2, Zenon
  <2> QED
    BY <2>3, <2>4, NotAbove, Zenon
<1>4. /\ Len(values'[q]) = Len(pending)
      /\ \A x \in 1 .. Len(pending) :
           values'[q][x].pos = pending[x] /\ values'[q][x].key = k /\ values'[q][x].ver = v
  <2>1. values'[q] = [x \in 1 .. Len(pending) |-> [pos |-> pending[x], key |-> k, ver |-> v]]
    OBVIOUS
  <2> PICK s : s = values'[q]
    OBVIOUS
  <2>2. /\ Len(s) = Len(pending)
        /\ \A x \in 1 .. Len(pending) : s[x].pos = pending[x] /\ s[x].key = k /\ s[x].ver = v
    BY <2>1, AnswersOf
  <2> QED
    BY <2>2
<1> SUFFICES ASSUME NEW x \in 1 .. Len(pending)
             PROVE  /\ values'[q][x].pos < seq'[q]
                    /\ \A p \in 0 .. values'[q][x].pos - 1 :
                         GoodWrite(q, values[q][x].key, p)' => p <= values'[q][x].ver
  BY <1>4 DEF Fresh
<1>5. values'[q][x].pos = pending[x] /\ pending[x] \in Nat /\ pending[x] < e
  BY <1>1, <1>4
<1>6. ASSUME NEW p \in 0 .. pending[x] - 1, GoodWrite(q, k, p)' PROVE p <= v
  <2>1. p \in 0 .. e - 1
    BY <1>5
  <2> QED
    BY <1>3, <1>6, <2>1, Zenon
<1> QED
  BY <1>4, <1>5, <1>6

\* A failed DB::Write is never undone.
LEMMA FailedGrows ==
  ASSUME IndInv, NEW q \in Queues, NEW b, NEW n, NEW end, DbWrite(q, b, n, end),
         NEW r \in Queues
  PROVE  failed[r] \subseteq failed'[r]
<1>1. failed \in [Queues -> SUBSET Nat]
  BY DEF IndInv, TypeOK, WorkerTypeOK
<1> QED
  BY <1>1 DEF DbWrite

\* What every step of a worker leaves of the answers.
LEMMA WorkerShape ==
  ASSUME IndInv, NEW q \in Queues, Worker(q)
  PROVE  /\ qs' = qs /\ \A r \in Queues : failed[r] \subseteq failed'[r]
         /\ \A r \in Queues \ {q} : values'[r] = values[r] /\ seq'[r] = seq[r]
         /\ seq'[q] \in {seq[q], seq[q] + 1}
<1>1. WorkerTypeOK
  BY DEF IndInv, TypeOK
<1>2. UNCHANGED mainVars
  BY DEF Worker, Drain, Wake, TakeWrite, TakeRead, TakeScan, Take, TakeEnd, Report
<1>3. failed' = failed \/ \E b, n, end : DbWrite(q, b, n, end)
  BY DEF Worker, Drain, Wake, TakeWrite, TakeRead, TakeScan, TakeEnd, Report, Flush
<1>4. \A r \in Queues : failed[r] \subseteq failed'[r]
  BY <1>3, FailedGrows
<1>5. seq' = seq \/ seq' = [seq EXCEPT ![q] = @ + 1]
  BY DEF Worker, Drain, Wake, TakeWrite, TakeRead, TakeScan, Take, TakeEnd, Report
<1>6. values' = values \/ \E pending, k : MultiGet(q, pending, k)
  BY DEF Worker, Drain, Wake, TakeWrite, TakeRead, TakeScan, TakeEnd, Report
<1>7. \A r \in Queues \ {q} : values'[r] = values[r]
  BY <1>1, <1>6 DEF MultiGet, WorkerTypeOK
<1>8. /\ seq'[q] \in {seq[q], seq[q] + 1}
      /\ \A r \in Queues \ {q} : seq'[r] = seq[r]
  BY <1>1, <1>5 DEF WorkerTypeOK
<1> QED
  BY <1>2, <1>4, <1>7, <1>8 DEF mainVars

\* Appending a request to keys.
LEMMA AppendBelow ==
  ASSUME NEW b \in Seq(Nat), NEW n \in Nat, \A x \in 1 .. Len(b) : b[x] < n
  PROVE  /\ Append(b, n) \in Seq(Nat)
         /\ \A x \in 1 .. Len(Append(b, n)) : Append(b, n)[x] < n + 1
<1>1. /\ Append(b, n) \in Seq(Nat) /\ Len(b) \in Nat /\ Len(Append(b, n)) = Len(b) + 1
      /\ Append(b, n)[Len(b) + 1] = n
  OBVIOUS
<1>2. ASSUME NEW x \in 1 .. Len(b) PROVE Append(b, n)[x] < n + 1
  <2>1. Append(b, n)[x] = b[x] /\ b[x] \in Nat /\ b[x] < n
    OBVIOUS
  <2> QED
    BY <2>1
<1>3. ASSUME NEW x \in 1 .. Len(Append(b, n)) PROVE x = Len(b) + 1 \/ x \in 1 .. Len(b)
  BY <1>1
<1>4. n < n + 1
  OBVIOUS
<1> QED
  BY <1>1, <1>2, <1>3, <1>4, Zenon

\* A worker flushes its WriteBatch before it answers point queries.
LEMMA WorkerFresh ==
  ASSUME IndInv, IndInv', NEW q \in Queues, Worker(q), NEW r \in Queues, Fresh(r)
  PROVE  Fresh(r)'
<1>1. \A k, p : GoodWrite(r, k, p)' => GoodWrite(r, k, p)
  BY WorkerShape DEF GoodWrite
<1>2. seq[r] \in Nat /\ seq'[r] \in Nat /\ seq'[r] >= seq[r]
  <2>1. seq[r] \in Nat
    BY ElementTypes
  <2>2. seq'[r] = seq[r] \/ seq'[r] = seq[r] + 1
    BY WorkerShape
  <2> QED
    BY <2>1, <2>2
<1>3. CASE values'[r] = values[r]
  BY <1>1, <1>2, <1>3, StaysFresh
<1>4. CASE r # q
  BY <1>3, <1>4, WorkerShape
<1>5. ASSUME r = q, NEW pending \in Seq(Nat), NEW k \in DbKeys, MultiGet(q, pending, k),
             Held(q)' = 0, \A x \in 1 .. Len(pending) : pending[x] < seq'[q]
      PROVE  Fresh(q)'
  <2>1. values \in [Queues -> Seq([pos : Nat, key : DbKeys, ver : Nat \cup {None}])]
    BY Zenon DEF IndInv, TypeOK, WorkerTypeOK
  <2>2. \/ values'[q] = values[q]
        \/ values'[q] = [x \in 1 .. Len(pending) |-> [pos |-> pending[x], key |-> k, ver |-> db'[q][k]]]
    BY <1>5, <2>1 DEF MultiGet
  <2> QED
    BY <1>3, <1>5, <2>2, AnswersFresh
<1>6. CASE r = q /\ (Wake(q) \/ TakeWrite(q) \/ TakeScan(q) \/ Report(q))
  BY <1>3, <1>6 DEF Wake, TakeWrite, TakeScan, Report
<1>7. ASSUME wpc[q] = "top", NEW x \in 1 .. Len(mkeys[q]) PROVE mkeys[q][x] < seq[q]
  <2>1. /\ seq[q] \in Nat /\ batch_size[q] \in Nat /\ mkeys[q] \in Seq(Nat)
        /\ mkeys[q][x] < seq[q] - batch_size[q]
    BY <1>7, InLoop DEF RecentBatch
  <2>2. mkeys[q][x] \in Nat
    BY <2>1
  <2> QED
    BY <2>1, <2>2
<1>8. ASSUME wpc[q] = "top" PROVE mkeys[q] \in Seq(Nat) /\ keybuf[q] \in DbKeys
  BY <1>8, InLoop
<1>9. CASE r = q /\ Drain(q)
  <2>1. wpc[q] = "top" /\ MultiGet(q, mkeys[q], keybuf[q]) /\ seq' = seq
    BY <1>9 DEF Drain
  <2>2. Held(q)' = 0
    <3>1. batch_size' = [batch_size EXCEPT ![q] = 0] /\ batch_size \in [Queues -> Nat]
      BY <1>9 DEF Drain, Flush, IndInv, TypeOK, WorkerTypeOK
    <3> QED
      BY <3>1 DEF Held
  <2> QED
    BY <1>5, <1>7, <1>8, <1>9, <2>1, <2>2
<1>10. CASE r = q /\ TakeEnd(q)
  <2>1. wpc[q] = "top" /\ MultiGet(q, mkeys[q], keybuf[q]) /\ seq' = seq
    BY <1>10 DEF TakeEnd, Taking
  <2>2. Held(q)' = 0
    <3>1. wpc' = [wpc EXCEPT ![q] = "report"] /\ q \in DOMAIN wpc
      BY <1>10 DEF TakeEnd, IndInv, TypeOK, WorkerTypeOK
    <3> QED
      BY <3>1 DEF Held
  <2> QED
    BY <1>5, <1>7, <1>8, <1>10, <2>1, <2>2
<1>11. CASE r = q /\ TakeRead(q)
  <2> DEFINE pending == Append(mkeys[q], seq[q])
  <2>1. CASE values' = values
    BY <1>3, <2>1
  <2>2. CASE MultiGet(q, pending, keybuf'[q])
    <3>1. wpc[q] = "top" /\ seq'[q] = seq[q] + 1 /\ keybuf'[q] \in DbKeys
      BY <1>11, TakeFacts DEF TakeRead, Taking
    <3>2. Held(q)' = 0
      <4>1. batch_size' = [batch_size EXCEPT ![q] = 0] /\ batch_size \in [Queues -> Nat]
        BY <1>11 DEF TakeRead, Flush, IndInv, TypeOK, WorkerTypeOK
      <4> QED
        BY <4>1 DEF Held
    <3>3. mkeys[q] \in Seq(Nat) /\ seq[q] \in Nat /\ \A x \in 1 .. Len(mkeys[q]) : mkeys[q][x] < seq[q]
      BY <1>7, <1>8, <3>1, ElementTypes, Zenon
    <3>5. pending \in Seq(Nat) /\ \A x \in 1 .. Len(pending) : pending[x] < seq[q] + 1
      BY <3>3, AppendBelow, Zenon
    <3>4. ASSUME NEW x \in 1 .. Len(pending) PROVE pending[x] < seq'[q]
      BY <3>1, <3>5, Zenon
    <3> HIDE DEF pending
    <3> QED
      BY <1>5, <1>11, <2>2, <3>1, <3>2, <3>4, <3>5, Zenon
  <2> QED
    BY <1>11, <2>1, <2>2 DEF TakeRead
<1> QED
  BY <1>4, <1>6, <1>9, <1>10, <1>11 DEF Worker

\* A point query sees every write queued before it, for every cut of the queue
\* into batches, and whatever order main's stores are made in.
THEOREM ReadsAreFresh == Spec => []NoStaleRead
<1> DEFINE AllFresh == \A q \in Queues : Fresh(q)
<1>1. Init => AllFresh
  BY DEF Init, Fresh
<1>2. ASSUME IndInv, IndInv', AllFresh, [Next]_vars PROVE AllFresh'
  <2>1. ASSUME UNCHANGED <<qs, values, seq, failed>> PROVE AllFresh'
    BY <1>2, <2>1 DEF Fresh, GoodWrite
  <2>2. CASE \E s \in stores : Store(s[1], s[2])
    <3>1. PICK s \in stores : Store(s[1], s[2])
      BY <2>2
    <3>2. s[1] \in Queues
      BY <1>2 DEF IndInv, TypeOK, MainTypeOK
    <3>3. UNCHANGED <<values, seq, failed>>
      BY <3>1 DEF Store, workerVars
    <3>4. ASSUME NEW q \in Queues, NEW k \in DbKeys, NEW p \in 0 .. seq[q] - 1, GoodWrite(q, k, p)'
          PROVE  GoodWrite(q, k, p)
      <4>1. p \in Positions /\ p < tail[q]
        BY <1>2, TailBound, ElementTypes, ConstantFacts DEF Positions
      <4>2. /\ qs'[q][p].write <=> qs[q][p].write
            /\ qs[q][p].write => qs'[q][p] = qs[q][p]
        BY <1>2, <3>1, <3>2, <4>1, StoreWrites
      <4> QED
        BY <3>3, <3>4, <4>2 DEF GoodWrite
    <3>5. ASSUME NEW q \in Queues PROVE Fresh(q)'
      <4>1. seq'[q] \in Nat /\ seq'[q] >= seq[q] /\ Fresh(q) /\ values'[q] = values[q]
        <5>1. seq[q] \in Nat
          BY <1>2, ElementTypes
        <5> QED
          BY <1>2, <3>3, <5>1
      <4> QED
        BY <1>2, <3>4, <4>1, StaysFresh
    <3> QED
      BY <3>5
  <2>3. CASE \E q \in Queues : Worker(q)
    BY <1>2, <2>3, WorkerFresh
  <2>4. CASE Main /\ ~(\E s \in stores : Store(s[1], s[2]))
    <3>1. UNCHANGED <<qs, workerVars>>
      BY <2>4 DEF Main, IssueRead, IssueWrite, IssueScan, IssueOther, NextCommand,
         WaitIdle, OpenIterator, VisitNext, EndTrace, Join
    <3> QED
      BY <2>1, <3>1 DEF workerVars
  <2>5. CASE UNCHANGED vars
    BY <2>1, <2>5 DEF vars, mainVars, workerVars
  <2> QED
    BY <1>2, <2>2, <2>3, <2>4, <2>5 DEF Next
<1>3. AllFresh => NoStaleRead
  BY DEF NoStaleRead, Fresh
<1> QED
  BY <1>1, <1>2, <1>3, Inductive, PTL DEF Spec

-----------------------------------------------------------------------------
(* When the loops over the queues store in program order. *)

\* A slot has been stored to completely when it is published.
PublishedLast == \A s \in stores : <<s[1], "tail">> \in stores

\* Publishing is the last store to a slot.
LEMMA OrderKept ==
  ASSUME StoresInOrder, IndInv, PublishedLast, [Next]_vars
  PROVE  PublishedLast'
<1>1. CASE \E s \in stores : Store(s[1], s[2])
  <2>1. PICK s \in stores : Store(s[1], s[2])
    BY <1>1
  <2>2. IsNext(s[1], s[2]) /\ stores' = stores \ {<<s[1], s[2]>>}
    BY <2>1 DEF Store, MayStore
  <2>3. stores \subseteq Queues \X {"seq", "key", "scan_size", "write", "tail"}
    BY DEF IndInv, TypeOK, MainTypeOK
  <2>4. ASSUME NEW z \in stores' PROVE <<z[1], "tail">> \in stores'
    <3>1. z \in stores /\ z # <<s[1], s[2]>> /\ <<z[1], "tail">> \in stores
      BY <2>2, <2>4 DEF PublishedLast
    <3>2. CASE s[2] = "tail" /\ s[1] = z[1]
      <4>1. z = <<z[1], z[2]>> /\ z[1] \in Int /\ z[2] \in {"seq", "key", "scan_size", "write", "tail"}
        BY <2>3, <3>1 DEF Queues
      <4>2. FieldRank["tail"] <= FieldRank[z[2]]
        BY <2>2, <3>1, <3>2, <4>1 DEF IsNext
      <4>3. z[2] = "tail"
        BY <4>1, <4>2 DEF FieldRank
      <4> QED
        BY <3>1, <3>2, <4>1, <4>3
    <3>3. CASE ~(s[2] = "tail" /\ s[1] = z[1])
      BY <2>2, <3>1, <3>3
    <3> QED
      BY <3>2, <3>3
  <2> QED
    BY <2>4 DEF PublishedLast
<1>2. ASSUME NEW k \in Keys, IssueRead(k) \/ IssueWrite(k) PROVE PublishedLast'
  <2>1. stores' = {Route(k)} \X {"seq", "key", "write", "tail"}
    BY <1>2 DEF IssueRead, IssueWrite
  <2> QED
    BY <2>1 DEF PublishedLast
<1>3. ASSUME NEW k \in Keys, IssueScan(k) PROVE PublishedLast'
  <2>1. stores' = stores \/ stores' = Queues \X {"seq", "key", "scan_size", "write", "tail"}
    BY <1>3 DEF IssueScan
  <2>2. CASE stores' = Queues \X {"seq", "key", "scan_size", "write", "tail"}
    BY <2>2 DEF PublishedLast
  <2> QED
    BY <2>1, <2>2 DEF PublishedLast
<1>4. CASE EndTrace
  <2>1. stores' = Queues \X {"seq", "key", "tail"}
    BY <1>4 DEF EndTrace
  <2> QED
    BY <2>1 DEF PublishedLast
<1>5. CASE stores' = stores
  BY <1>5 DEF PublishedLast
<1>6. ASSUME NEW q \in Queues, Worker(q) PROVE stores' = stores
  BY <1>6 DEF Worker, Drain, Wake, TakeWrite, TakeRead, TakeScan, Take, TakeEnd, Report, mainVars
<1>7. CASE IssueOther \/ WaitIdle \/ OpenIterator \/ Join
  BY <1>5, <1>7 DEF IssueOther, WaitIdle, OpenIterator, VisitNext, Join
<1>8. CASE UNCHANGED vars
  BY <1>5, <1>8 DEF vars, mainVars
<1> QED
  BY <1>1, <1>2, <1>3, <1>4, <1>5, <1>6, <1>7, <1>8 DEF Next, Main

\* No step stores to a published slot.
LEMMA PublishedKept ==
  ASSUME IndInv, PublishedLast, [Next]_vars, NEW r \in Queues, NEW p \in Positions, p < tail[r]
  PROVE  qs'[r][p] = qs[r][p]
<1>1. CASE \E s \in stores : Store(s[1], s[2])
  <2>1. PICK s \in stores : Store(s[1], s[2])
    BY <1>1
  <2>2. s[1] \in Queues /\ Target(s[1]) = tail[s[1]]
    BY DEF IndInv, TypeOK, MainTypeOK, PublishedLast, Target
  <2>3. r # s[1] \/ p # Target(s[1])
    BY <2>2, ElementTypes DEF Positions
  <2> QED
    BY <2>1, <2>2, <2>3, StoreKeeps, Zenon
<1>2. CASE Main /\ ~(\E s \in stores : Store(s[1], s[2]))
  <2>1. qs' = qs
    BY <1>2 DEF Main, IssueRead, IssueWrite, IssueScan, IssueOther, NextCommand,
       WaitIdle, OpenIterator, VisitNext, EndTrace, Join
  <2> QED
    BY <2>1
<1>3. ASSUME NEW q \in Queues, Worker(q) PROVE qs'[r][p] = qs[r][p]
  BY <1>3, WorkerShape
<1>4. CASE UNCHANGED vars
  BY <1>4 DEF vars, mainVars
<1> QED
  BY <1>1, <1>2, <1>3, <1>4 DEF Next

\* If the stores of the loops over the queues are made in program order, no slot
\* that a worker may read is stored to again.
THEOREM PublishedIsStable == ASSUME StoresInOrder PROVE Spec => PublishedSlotsStable
<1>1. Init => PublishedLast
  BY DEF Init, PublishedLast
<1>2. IndInv /\ PublishedLast /\ [Next]_vars => PublishedLast'
  BY OrderKept
<1>3. IndInv /\ PublishedLast /\ [Next]_vars =>
        [\A q \in Queues, p \in Positions : p < tail[q] => qs'[q][p] = qs[q][p]]_vars
  BY PublishedKept
<1> QED
  BY <1>1, <1>2, <1>3, Inductive, PTL DEF Spec, PublishedSlotsStable

\* The first key appended to keys.
LEMMA FirstAppended ==
  ASSUME NEW s \in Seq(Nat), NEW n \in Nat, Len(s) < 1
  PROVE  Append(s, n) # <<>> /\ Len(Append(s, n)) = 1 /\ Append(s, n)[1] = n
<1>1. Len(s) = 0
  OBVIOUS
<1>2. Append(s, n) \in Seq(Nat) /\ Len(Append(s, n)) = 1 /\ Append(s, n)[1] = n
  BY <1>1
<1>3. Len(<<>>) = 0
  OBVIOUS
<1>4. Len(Append(s, n)) # Len(<<>>)
  BY <1>2, <1>3
<1> QED
  BY <1>2, <1>4, Zenon

\* With one key per MultiGet, and the stores in program order, a point query
\* looks up the key of its own request: no other request is taken while the
\* Slice points to the worker's buffer.
THEOREM UnbatchedReadsOwnKey ==
  ASSUME StoresInOrder, BATCH_SIZE = 1 PROVE Spec => []ReadsOwnKey
<1> DEFINE Behind == \A q \in Queues : \A x \in 1 .. Len(values[q]) : values[q][x].pos < seq[q]
           Own == Behind /\ ReadsOwnKey
<1>1. Init => PublishedLast /\ Own
  BY DEF Init, PublishedLast, ReadsOwnKey
<1>2. IndInv /\ PublishedLast /\ [Next]_vars => PublishedLast'
  BY OrderKept
<1>3. ASSUME IndInv, PublishedLast, Own, [Next]_vars PROVE Own'
  <2>1. ASSUME NEW q \in Queues, values'[q] = values[q], seq'[q] \in {seq[q], seq[q] + 1},
               NEW x \in 1 .. Len(values[q])
        PROVE  /\ values'[q][x].pos < seq'[q]
               /\ values'[q][x].key = qs'[q][values'[q][x].pos].key
    <3> DEFINE S == [pos : Nat, key : DbKeys, ver : Nat \cup {None}]
    <3>1. values[q] \in Seq(S)
      BY <1>3, Zenon DEF IndInv, TypeOK, WorkerTypeOK
    <3> HIDE DEF S
    <3>2. values[q][x] \in S
      BY <2>1, <3>1
    <3>3. PICK n \in Nat : n = values[q][x].pos
      BY <3>2 DEF S
    <3>4. n < seq[q] /\ values[q][x].key = qs[q][n].key
      BY <1>3, <3>3 DEF ReadsOwnKey
    <3>5. seq[q] \in Nat /\ tail[q] \in Nat /\ seq[q] <= tail[q] /\ tail[q] <= QUEUE_LEN
      BY <1>3, ElementTypes, TailBound
    <3>6. n \in Positions /\ n < tail[q] /\ n < seq'[q]
      BY <2>1, <3>4, <3>5, ConstantFacts DEF Positions
    <3>7. qs'[q][n] = qs[q][n]
      BY <1>3, <3>6, PublishedKept
    <3> QED
      BY <2>1, <3>3, <3>4, <3>6, <3>7
  <2>2. ASSUME NEW q \in Queues, TakeRead(q), values'[q] # values[q], NEW x \in 1 .. Len(values'[q])
        PROVE  /\ values'[q][x].pos < seq'[q]
               /\ values'[q][x].key = qs'[q][values'[q][x].pos].key
    <3>1. Take(q) /\ MultiGet(q, Append(mkeys[q], seq[q]), keybuf'[q])
      BY <2>2 DEF TakeRead
    <3>2. /\ wpc[q] = "top" /\ seq'[q] = seq[q] + 1 /\ seq[q] \in Nat
          /\ keybuf'[q] = qs[q][seq[q]].key /\ qs' = qs
      BY <1>3, <3>1, TakeFacts, ElementTypes DEF Taking, Request
    <3>3. mkeys[q] \in Seq(Nat) /\ Len(mkeys[q]) < 1
      BY <1>3, <3>2, InLoop DEF RecentBatch
    <3>5. values \in [Queues -> Seq([pos : Nat, key : DbKeys, ver : Nat \cup {None}])]
      BY <1>3, Zenon DEF IndInv, TypeOK, WorkerTypeOK
    <3>6. PICK b : b = Append(mkeys[q], seq[q])
      OBVIOUS
    <3>7. b # <<>> /\ Len(b) = 1 /\ b[1] = seq[q]
      BY <3>2, <3>3, <3>6, FirstAppended, Zenon
    <3>8. values'[q] = [y \in 1 .. Len(b) |-> [pos |-> b[y], key |-> keybuf'[q], ver |-> db'[q][keybuf'[q]]]]
      <4>1. values' = [values EXCEPT ![q] =
               IF Append(mkeys[q], seq[q]) = <<>> THEN @
               ELSE [y \in 1 .. Len(Append(mkeys[q], seq[q])) |->
                       [pos |-> Append(mkeys[q], seq[q])[y], key |-> keybuf'[q], ver |-> db'[q][keybuf'[q]]]]]
        BY <3>1 DEF MultiGet
      <4>2. values' = [values EXCEPT ![q] =
               IF b = <<>> THEN @
               ELSE [y \in 1 .. Len(b) |->
                       [pos |-> b[y], key |-> keybuf'[q], ver |-> db'[q][keybuf'[q]]]]]
        BY <3>6, <4>1
      <4> QED
        BY <3>5, <3>7, <4>2
    <3>9. Len(values'[q]) = 1
      BY <3>7, <3>8
    <3>10. x = 1 /\ values'[q][x].pos = seq[q] /\ values'[q][x].key = keybuf'[q]
      BY <2>2, <3>7, <3>8, <3>9
    <3> QED
      BY <3>2, <3>10
  <2>3. ASSUME NEW q \in Queues, Drain(q) \/ TakeEnd(q) PROVE values' = values
    <3>1. wpc[q] = "top" /\ MultiGet(q, mkeys[q], keybuf[q])
      BY <2>3 DEF Drain, TakeEnd, Taking
    <3>2. mkeys[q] \in Seq(Nat) /\ Len(mkeys[q]) < 1
      BY <1>3, <3>1, InLoop DEF RecentBatch
    <3>3. mkeys[q] = <<>>
      BY <3>2
    <3>4. values \in [Queues -> Seq([pos : Nat, key : DbKeys, ver : Nat \cup {None}])]
      BY <1>3, Zenon DEF IndInv, TypeOK, WorkerTypeOK
    <3> QED
      BY <3>1, <3>3, <3>4, Zenon DEF MultiGet
  <2>4. ASSUME NEW q \in Queues, Worker(q), NEW r \in Queues, NEW x \in 1 .. Len(values'[r])
        PROVE  /\ values'[r][x].pos < seq'[r]
               /\ values'[r][x].key = qs'[r][values'[r][x].pos].key
    <3>1. seq'[r] \in {seq[r], seq[r] + 1}
      BY <1>3, <2>4, WorkerShape
    <3>2. CASE values'[r] = values[r]
      BY <2>1, <2>4, <3>1, <3>2
    <3>3. CASE values'[r] # values[r]
      <4>1. r = q
        BY <1>3, <2>4, <3>3, WorkerShape
      <4>2. TakeRead(q)
        BY <2>3, <2>4, <3>3, <4>1 DEF Worker, Wake, TakeWrite, TakeScan, Report
      <4> QED
        BY <2>2, <2>4, <3>3, <4>1, <4>2
    <3> QED
      BY <3>2, <3>3
  <2>5. CASE UNCHANGED <<values, seq>>
    BY <2>1, <2>5 DEF ReadsOwnKey
  <2>6. CASE \E q \in Queues : Worker(q)
    BY <2>4, <2>6 DEF ReadsOwnKey
  <2>7. CASE Main \/ UNCHANGED vars
    <3>1. UNCHANGED <<values, seq>>
      BY <2>7 DEF Main, IssueRead, IssueWrite, IssueScan, IssueOther, NextCommand, Store,
         WaitIdle, OpenIterator, VisitNext, EndTrace, Join, vars, workerVars
    <3> QED
      BY <2>5, <3>1
  <2> QED
    BY <1>3, <2>6, <2>7 DEF Next
<1>4. Own => ReadsOwnKey
  OBVIOUS
<1> QED
  BY <1>1, <1>2, <1>3, <1>4, Inductive, PTL DEF Spec

=============================================================================
