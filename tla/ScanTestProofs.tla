--------------------------- MODULE ScanTestProofs ---------------------------
(***************************************************************************)
(* The handshake of scan_test.cpp is correct for every number of           *)
(* instances, queries and keys.                                            *)
(***************************************************************************)
EXTENDS ScanTest, TLAPS

\* What the assumptions on the constants say, in the form the provers need.
LEMMA ConstantFacts ==
  /\ QUEUE_NUM \in Nat /\ QUEUE_NUM > 0
  /\ READ_NUM \in Nat /\ READ_NUM > 0
  /\ SCAN_SIZE \in Nat /\ SCAN_SIZE > 0
  /\ KeyNums \subseteq Nat
BY ConstantsAssumption

\* The loops over the queues count from 0 to QUEUE_NUM - 1 and start again.
LEMMA NextQueue ==
  ASSUME NEW q \in Queues
  PROVE  /\ (q + 1) % QUEUE_NUM \in Queues
         /\ q + 1 < QUEUE_NUM => (q + 1) % QUEUE_NUM = q + 1
         /\ q + 1 >= QUEUE_NUM => q + 1 = QUEUE_NUM /\ (q + 1) % QUEUE_NUM = 0
<1> USE ConstantFacts DEF Queues
<1>1. CASE q + 1 < QUEUE_NUM
  BY <1>1
<1>2. CASE q + 1 = QUEUE_NUM
  BY <1>2
<1> QED
  BY <1>1, <1>2

-----------------------------------------------------------------------------

\* The invariant holds before main issues its first query.
LEMMA InitIndInv == Init => IndInv
<1> SUFFICES ASSUME Init PROVE IndInv
  OBVIOUS
<1> USE ConstantFacts
<1>1. TypeOK
  <2>1. MainTypeOK
    BY DEF Init, MainTypeOK, Queues
  <2>2. WorkerTypeOK
    BY <2>1 DEF Init, MainTypeOK, WorkerTypeOK, Status
  <2>3. MergeTypeOK
    BY DEF Init, MergeTypeOK, Queues
  <2> QED
    BY <2>1, <2>2, <2>3 DEF TypeOK, Init
<1>2. ASSUME NEW q \in Queues PROVE QueueInv(q) /\ HandshakeInv(q) /\ VectorInv(q)
  BY DEF Init, QueueInv, Issued, HandshakeInv, EmptyInv, Joined, ApartInv, NextQuery, VectorInv,
         Queues
<1>3. MergeInv /\ ReadsWithinVector /\ CrashOnlyIfShort
  BY DEF Init, MergeInv, ReadsWithinVector, CrashOnlyIfShort
<1> QED
  BY <1>1, <1>2, <1>3 DEF IndInv

\* Steps of main change the queues only.
LEMMA MainIndInv ==
  ASSUME IndInv, Main
  PROVE  IndInv'
<1> USE ConstantFacts DEF IndInv
<1>1. UNCHANGED <<keyNum, workerVars, scan_status, mergeVars, crashed>>
  BY DEF Main, Issue, Mark, Join
<1>2. ASSUME NEW q \in Queues PROVE HandshakeInv(q)' /\ VectorInv(q)'
  BY <1>1 DEF HandshakeInv, EmptyInv, Joined, JoinedInv, ApartInv, NextQuery, VectorInv,
         workerVars, mergeVars
<1>3. ReadsWithinVector' /\ CrashOnlyIfShort'
  BY <1>1 DEF ReadsWithinVector, CrashOnlyIfShort, workerVars, mergeVars
<1>4. MergeInv'
  <2>1. /\ pc' = "done" => mpc = "done"
        /\ pc' = "issue" => i' < READ_NUM
    BY DEF Main, Issue, Mark, Join, MergeInv, TypeOK, MainTypeOK
  <2>2. AtLast(current)' <=> AtLast(current)
    BY <1>1 DEF AtLast, workerVars, mergeVars
  <2> QED
    BY <1>1, <2>1, <2>2 DEF MergeInv, workerVars, mergeVars
<1>5. MainTypeOK'
  <2> USE DEF TypeOK, MainTypeOK
  <2>1. CASE Issue
    BY <2>1, NextQueue DEF Issue, MergeInv
  <2>2. CASE Mark
    BY <2>2, NextQueue DEF Mark
  <2>3. CASE Join
    BY <2>3 DEF Join
  <2> QED
    BY <2>1, <2>2, <2>3 DEF Main
<1>6. WorkerTypeOK' /\ MergeTypeOK' /\ crashed' \in BOOLEAN
  BY <1>1, Zenon DEF TypeOK, WorkerTypeOK, MergeTypeOK, workerVars, mergeVars
<1>7. ASSUME NEW q \in Queues PROVE QueueInv(q)'
  <2> USE DEF TypeOK, MainTypeOK
  <2>1. CASE pc \in {"issue", "mark"} /\ q = q_num
    <3>1. PICK r \in {"scan", "end"} :
             /\ qs'[q] = Append(qs[q], r)
             /\ r = IF pc = "issue" THEN "scan" ELSE "end"
      BY <2>1 DEF Main, Issue, Mark, Join
    <3>2. /\ Len(qs'[q]) = Len(qs[q]) + 1
          /\ qs'[q][Len(qs[q]) + 1] = r
          /\ \A x \in 1 .. Len(qs[q]) : qs'[q][x] = qs[q][x]
      BY <3>1
    <3>3. Len(qs[q]) = (IF pc = "issue" THEN i ELSE READ_NUM) /\ Len(qs[q]) \in Nat
      BY <2>1 DEF QueueInv, Issued, Queues
    <3>4. Issued(q)' = Len(qs[q]) + 1
      BY <2>1, <3>3, NextQueue DEF Main, Issue, Mark, Join, Issued, Queues
    <3> QED
      BY <2>1, <3>1, <3>2, <3>3, <3>4 DEF QueueInv, MergeInv
  <2>2. CASE ~(pc \in {"issue", "mark"} /\ q = q_num)
    <3>1. qs'[q] = qs[q]
      BY <2>2 DEF Main, Issue, Mark, Join
    <3>2. Issued(q)' = Issued(q)
      <4>1. /\ q \in Nat /\ q < QUEUE_NUM /\ q_num \in Nat /\ q_num < QUEUE_NUM /\ i \in Nat
            /\ q_num + 1 < QUEUE_NUM => (q_num + 1) % QUEUE_NUM = q_num + 1
            /\ q_num + 1 >= QUEUE_NUM => q_num + 1 = QUEUE_NUM /\ (q_num + 1) % QUEUE_NUM = 0
        BY NextQueue DEF Queues
      <4>2. CASE Issue
        <5>1. i < READ_NUM /\ q # q_num
          BY <2>2, <4>2 DEF Issue, MergeInv
        <5>2. CASE q_num + 1 < QUEUE_NUM
          BY <4>1, <4>2, <5>1, <5>2 DEF Issue, Issued
        <5>3. CASE q_num + 1 >= QUEUE_NUM
          <6>1. /\ i' = i + 1 /\ q_num' = 0 /\ pc = "issue" /\ q < q_num
                /\ pc' = IF i + 1 = READ_NUM THEN "mark" ELSE "issue"
            BY <4>1, <4>2, <5>1, <5>3 DEF Issue
          <6>2. Issued(q) = i + 1
            BY <6>1 DEF Issued
          <6>3. Issued(q)' = i + 1
            BY <4>1, <6>1 DEF Issued
          <6> QED
            BY <6>2, <6>3
        <5> QED
          BY <4>1, <5>2, <5>3
      <4>3. CASE Mark
        BY <2>2, <4>1, <4>3 DEF Mark, Issued
      <4>4. CASE Join
        BY <4>4 DEF Join, Issued
      <4> QED
        BY <4>2, <4>3, <4>4 DEF Main
    <3> QED
      BY <3>1, <3>2 DEF QueueInv
  <2> QED
    BY <2>1, <2>2
<1> QED
  BY <1>2, <1>3, <1>4, <1>5, <1>6, <1>7 DEF TypeOK

-----------------------------------------------------------------------------
(* Steps of a worker. *)

\* What a step of worker q leaves alone.
LEMMA WorkerFrame ==
  ASSUME IndInv, NEW q \in Queues, Worker(q)
  PROVE  /\ UNCHANGED <<mainVars, mergeVars>>
         /\ \A r \in Queues \ {q} : /\ wpc'[r] = wpc[r] /\ seq'[r] = seq[r]
                                    /\ pos'[r] = pos[r] /\ size'[r] = size[r]
                                    /\ scan_status'[r] = scan_status[r]
         /\ \A r \in Queues : QueueInv(r)'
         /\ \A r \in Queues \ {q} : HandshakeInv(r)' /\ VectorInv(r)'
<1> USE DEF IndInv, TypeOK, WorkerTypeOK
<1>1. UNCHANGED <<mainVars, mergeVars>>
  BY DEF Worker, Take, Fill, Serve, More, Leave, Clear
<1>2. \A r \in Queues \ {q} : /\ wpc'[r] = wpc[r] /\ seq'[r] = seq[r]
                              /\ pos'[r] = pos[r] /\ size'[r] = size[r]
                              /\ scan_status'[r] = scan_status[r]
  BY DEF Worker, Take, Fill, Serve, More, Leave, Clear, workerVars
<1>3. \A r \in Queues : QueueInv(r)'
  BY <1>1 DEF QueueInv, Issued, mainVars
<1>4. \A r \in Queues \ {q} : HandshakeInv(r)' /\ VectorInv(r)'
  BY <1>1, <1>2 DEF HandshakeInv, EmptyInv, Joined, JoinedInv, ApartInv, NextQuery,
         VectorInv, mainVars, mergeVars
<1> QED
  BY <1>1, <1>2, <1>3, <1>4

\* The parts of the invariant a worker shares with the merge thread, from what
\* its step does to its own vector and status.
LEMMA WorkerMerge ==
  ASSUME IndInv, NEW q \in Queues, Worker(q), WorkerTypeOK',
         HandshakeInv(q)', VectorInv(q)',
         crashed' = crashed \/ (crashed' \in BOOLEAN /\ CrashOnlyIfShort'),
         mpc \in {"merge", "need"} => size'[q] >= size[q],
         mpc = "need" /\ current = q =>
           /\ scan_status'[q] \in {"NEED_ITER", "ITER_OVER"}
           /\ scan_status'[q] = "NEED_ITER" =>
                scan_status[q] = "NEED_ITER" /\ size'[q] = size[q]
  PROVE  IndInv'
<1> USE WorkerFrame DEF IndInv, TypeOK, mainVars, mergeVars
<1>1. MainTypeOK' /\ MergeTypeOK' /\ crashed' \in BOOLEAN
  BY Zenon DEF MainTypeOK, MergeTypeOK
<1>2. MergeInv'
  BY DEF MergeInv, AtLast, MergeTypeOK
<1>3. ReadsWithinVector'
  BY DEF ReadsWithinVector, MergeTypeOK, WorkerTypeOK
<1>4. CrashOnlyIfShort'
  BY DEF CrashOnlyIfShort
<1>5. \A r \in Queues : HandshakeInv(r)' /\ VectorInv(r)'
  OBVIOUS
<1> QED
  BY <1>1, <1>2, <1>3, <1>4, <1>5

\* The types of what a worker and the merge thread look at.
LEMMA Types ==
  ASSUME IndInv, NEW q \in Queues
  PROVE  /\ keyNum[q] \in Nat /\ seq[q] \in Nat /\ seq[q] <= READ_NUM
         /\ pos[q] \in Nat /\ pos[q] <= keyNum[q] + 1
         /\ size[q] \in Nat /\ size[q] <= keyNum[q]
         /\ now[q] \in Nat
         /\ mseq \in Nat /\ mseq <= READ_NUM
         /\ n \in Nat /\ mi \in Nat /\ mi < QUEUE_NUM /\ q \in Nat /\ q < QUEUE_NUM
         /\ Len(qs[q]) \in Nat
<1> USE ConstantFacts
<1>1. MainTypeOK /\ WorkerTypeOK /\ MergeTypeOK
  BY DEF IndInv, TypeOK
<1>2. keyNum[q] \in Nat /\ Len(qs[q]) \in Nat
  <2>1. keyNum[q] \in KeyNums
    BY <1>1 DEF MainTypeOK
  <2>2. qs[q] \in Seq({"scan", "end"})
    BY <1>1 DEF MainTypeOK
  <2>3. keyNum[q] \in Nat
    BY <2>1
  <2>4. Len(qs[q]) \in Nat
    BY <2>2
  <2> QED
    BY <2>3, <2>4
<1>3. /\ seq[q] \in Nat /\ seq[q] <= READ_NUM
      /\ pos[q] \in Nat /\ pos[q] <= keyNum[q] + 1
      /\ size[q] \in Nat /\ size[q] <= keyNum[q]
  BY <1>1 DEF WorkerTypeOK
<1>4. /\ now[q] \in Nat /\ mseq \in Nat /\ mseq <= READ_NUM /\ n \in Nat
      /\ mi \in Nat /\ mi < QUEUE_NUM /\ q \in Nat /\ q < QUEUE_NUM
  BY <1>1 DEF MergeTypeOK, Queues
<1> QED
  BY <1>2, <1>3, <1>4

\* A worker is not at its vector while the merge reads it.
LEMMA Exclusive ==
  ASSUME IndInv, NEW q \in Queues, mpc \in {"merge", "need"}
  PROVE  /\ keyNum[q] # 0
         /\ wpc[q] \in {"wait", "more"}
         /\ seq[q] = mseq
         /\ scan_status[q] \in {"MERGE_START", "NEED_ITER", "ITER_OVER"}
         /\ scan_status[q] = "NEED_ITER" => mpc = "need" /\ current = q
         /\ wpc[q] = "more" => scan_status[q] = "NEED_ITER"
BY DEF IndInv, HandshakeInv, EmptyInv, Joined, JoinedInv

\* A range query is taken when one is queued, and then it is not the last slot.
LEMMA TakeIndInv ==
  ASSUME IndInv, NEW q \in Queues, Take(q)
  PROVE  IndInv'
<1> USE ConstantFacts
<1>1. Worker(q)
  BY DEF Worker
<1>2. qs[q][seq[q] + 1] # "end" => seq[q] + 1 <= READ_NUM
  <2>1. seq[q] \in Nat /\ Len(qs[q]) \in Nat /\ seq[q] + 1 \in 1 .. Len(qs[q])
    BY DEF Take, IndInv, TypeOK, MainTypeOK, WorkerTypeOK
  <2>2. qs[q][seq[q] + 1] = IF seq[q] + 1 <= READ_NUM THEN "scan" ELSE "end"
    BY <2>1 DEF IndInv, QueueInv
  <2> QED
    BY <2>2
<1>3. WorkerTypeOK'
  <2> USE DEF Take, IndInv, TypeOK, MainTypeOK, WorkerTypeOK, mainVars
  <2>1. wpc' \in [Queues -> {"poll", "fill", "wait", "more", "clear", "done"}]
    OBVIOUS
  <2>2. seq' \in [Queues -> 0 .. READ_NUM]
    BY <1>2
  <2>3. pos' \in [Queues -> Nat]
    OBVIOUS
  <2>4. ASSUME NEW r \in Queues PROVE pos'[r] <= keyNum'[r] + 1
    <3>1. pos'[r] = IF r = q THEN 1 ELSE pos[r]
      OBVIOUS
    <3>2. keyNum'[r] = keyNum[r] /\ keyNum[r] \in Nat
      OBVIOUS
    <3>3. pos[r] \in Nat /\ pos[r] <= keyNum[r] + 1
      BY Types
    <3> HIDE DEF Take, IndInv, TypeOK, MainTypeOK, WorkerTypeOK, mainVars
    <3> QED
      BY <3>1, <3>2, <3>3
  <2> QED
    BY <2>1, <2>2, <2>3, <2>4
<1>4. mpc \notin {"merge", "need"}
  BY Exclusive DEF Take
<1>5. HandshakeInv(q)'
  <2>1. /\ UNCHANGED <<keyNum, scan_status, mpc, mseq, mi, current>>
        /\ wpc'[q] = IF qs[q][seq[q] + 1] = "end" THEN "done"
                     ELSE IF keyNum[q] > 0 THEN "fill" ELSE "poll"
        /\ seq'[q] = IF qs[q][seq[q] + 1] = "end" \/ keyNum[q] > 0
                     THEN seq[q] ELSE seq[q] + 1
    BY DEF Take, IndInv, TypeOK, WorkerTypeOK, mainVars, mergeVars
  <2>2. wpc[q] = "poll" /\ HandshakeInv(q)
    BY DEF Take, IndInv
  <2>3. CASE keyNum[q] = 0
    <3>1. EmptyInv(q) /\ ~(keyNum[q] > 0)
      BY <2>2, <2>3 DEF HandshakeInv
    <3>2. wpc'[q] \in {"poll", "done"}
      BY <2>1, <3>1
    <3> QED
      BY <2>1, <2>3, <3>1, <3>2 DEF HandshakeInv, EmptyInv
  <2>4. CASE keyNum[q] # 0
    <3>1. ~Joined(q) /\ ~Joined(q)'
      BY <2>1, <2>2, <2>4 DEF HandshakeInv, JoinedInv, Joined
    <3>2. seq'[q] = seq[q] /\ wpc'[q] \in {"fill", "done"}
      <4>1. keyNum[q] > 0
        BY <2>4, Types
      <4> QED
        BY <2>1, <4>1
    <3>3. scan_status[q] = "SCAN_OVER" /\ seq[q] = NextQuery(q)
      BY <2>2, <2>4, <3>1 DEF HandshakeInv, ApartInv
    <3>4. wpc'[q] = "fill" => seq[q] < READ_NUM
      BY <1>2, <2>1, Types
    <3> QED
      BY <2>1, <2>4, <3>1, <3>2, <3>3, <3>4 DEF HandshakeInv, ApartInv, NextQuery
  <2> QED
    BY <2>3, <2>4
<1>6. VectorInv(q)'
  BY <1>4 DEF Take, IndInv, TypeOK, MainTypeOK, WorkerTypeOK, mainVars, mergeVars, VectorInv
<1> QED
  BY <1>1, <1>3, <1>4, <1>5, <1>6, WorkerMerge DEF Take, mergeVars

\* The first scan.
LEMMA FillIndInv ==
  ASSUME IndInv, NEW q \in Queues, Fill(q)
  PROVE  IndInv'
<1> USE ConstantFacts, Types
<1>1. Worker(q)
  BY DEF Worker
<1>2. mpc \notin {"merge", "need"}
  BY Exclusive DEF Fill
<1>3. /\ UNCHANGED <<keyNum, mpc, mseq, mi, current, crashed, seq, size>>
      /\ wpc[q] = "fill" /\ wpc'[q] = "wait" /\ seq'[q] = seq[q] /\ size'[q] = size[q]
      /\ scan_status'[q] = "MERGE_START"
      /\ pos'[q] = Lesser(SCAN_SIZE, keyNum[q] + 1)
  BY DEF Fill, IndInv, TypeOK, WorkerTypeOK, mainVars, mergeVars
<1> HIDE Types
<1>4. WorkerTypeOK'
  <2>1. /\ wpc' \in [Queues -> {"poll", "fill", "wait", "more", "clear", "done"}]
        /\ scan_status' \in [Queues -> Status]
    BY DEF Fill, IndInv, TypeOK, WorkerTypeOK, Status
  <2>t. pos'[q] \in Nat /\ pos'[q] <= keyNum[q] + 1
    BY <1>3, Types DEF Lesser
  <2>2. pos' \in [Queues -> Nat]
    BY <1>3, <2>t DEF Fill, IndInv, TypeOK, WorkerTypeOK
  <2>3. ASSUME NEW r \in Queues PROVE pos'[r] <= keyNum[r] + 1
    <3>1. r # q => pos'[r] = pos[r]
      BY <1>1, WorkerFrame
    <3> QED
      BY <2>t, <3>1, Types
  <2> QED
    BY <1>3, <2>1, <2>2, <2>3 DEF IndInv, TypeOK, WorkerTypeOK
<1>5. HandshakeInv(q)'
  BY <1>2, <1>3 DEF IndInv, HandshakeInv, EmptyInv, Joined, JoinedInv, ApartInv, NextQuery
<1>6. VectorInv(q)'
  BY <1>2, <1>3, Types DEF IndInv, VectorInv, Lesser
<1> QED
  BY <1>1, <1>2, <1>3, <1>4, <1>5, <1>6, WorkerMerge

\* A worker sees NEED_ITER: it is the current child and has been read through.
LEMMA ServeIndInv ==
  ASSUME IndInv, NEW q \in Queues, Serve(q)
  PROVE  IndInv'
<1> USE ConstantFacts, Types
<1>1. Worker(q)
  BY DEF Worker
<1>2. /\ UNCHANGED <<keyNum, mpc, mseq, mi, current, crashed, seq, size, pos, scan_status>>
      /\ wpc[q] = "wait" /\ wpc'[q] = "more" /\ scan_status[q] = "NEED_ITER"
  BY DEF Serve, IndInv, TypeOK, WorkerTypeOK, mainVars, mergeVars
<1>3. WorkerTypeOK'
  BY <1>2 DEF Serve, IndInv, TypeOK, WorkerTypeOK
<1>4. mpc = "need" /\ current = q
  BY <1>2 DEF IndInv, HandshakeInv, EmptyInv, JoinedInv, ApartInv
<1>5. HandshakeInv(q)'
  BY <1>2, <1>4 DEF IndInv, HandshakeInv, EmptyInv, Joined, JoinedInv
<1> HIDE Types
<1>6. keyNum[q] >= 2 * SCAN_SIZE => size[q] = 0
  <2>1. size[q] <= now[q] + 1 /\ now[q] <= n /\ n < SCAN_SIZE - 1
    BY <1>2, <1>4 DEF IndInv, MergeInv, AtLast
  <2>2. size[q] < SCAN_SIZE
    BY <2>1, Types
  <2>3. keyNum[q] >= 2 * SCAN_SIZE => size[q] = 0 \/ size[q] >= SCAN_SIZE
    BY <1>2 DEF IndInv, VectorInv
  <2>4. size[q] \in Nat
    BY Types
  <2> QED
    BY <2>2, <2>3, <2>4
<1>7. VectorInv(q)'
  BY <1>2, <1>6 DEF IndInv, VectorInv
<1> QED
  <2>1. size'[q] = size[q] /\ size'[q] >= size[q]
    BY <1>2, Types
  <2>2. crashed' = crashed /\ scan_status[q] = "NEED_ITER" /\ scan_status'[q] = "NEED_ITER"
    BY <1>2
  <2> QED
    BY <1>1, <1>3, <1>5, <1>7, <2>1, <2>2, WorkerMerge

\* The second scan.  Only an instance without enough keys can make it fail.
LEMMA MoreIndInv ==
  ASSUME IndInv, NEW q \in Queues, More(q)
  PROVE  IndInv'
<1> USE ConstantFacts, Types
<1>1. Worker(q)
  BY DEF Worker
<1>2. /\ UNCHANGED <<keyNum, mpc, mseq, mi, current, seq>>
      /\ wpc[q] = "more" /\ wpc'[q] = "wait"
      /\ scan_status'[q] = "ITER_OVER"
      /\ pos'[q] = Lesser(pos[q] + SCAN_SIZE, keyNum[q] + 1)
      /\ size'[q] = size[q] + Appended(q)
      /\ crashed' \in BOOLEAN /\ (crashed' => pos[q] > keyNum[q])
  BY DEF More, IndInv, TypeOK, WorkerTypeOK, mainVars, mergeVars
<1>3. keyNum[q] # 0 /\ Joined(q) /\ JoinedInv(q)
  BY <1>2 DEF IndInv, HandshakeInv, EmptyInv, ApartInv
<1>4. mpc = "need" /\ current = q
  BY <1>2, <1>3 DEF JoinedInv
<1>5. size[q] < pos[q]
  BY <1>2 DEF IndInv, VectorInv
<1> HIDE Types
<1>t. /\ keyNum[q] \in Nat /\ pos[q] \in Nat /\ pos[q] <= keyNum[q] + 1
      /\ size[q] \in Nat /\ size[q] <= keyNum[q]
  BY Types
<1>6. /\ Appended(q) \in Nat /\ size'[q] <= keyNum[q] /\ size'[q] >= size[q]
      /\ pos'[q] \in Nat /\ pos'[q] <= keyNum[q] + 1 /\ size'[q] < pos'[q]
  <2>1. CASE pos[q] >= keyNum[q]
    BY <1>2, <1>5, <1>t, <2>1 DEF Appended, Lesser
  <2>2. CASE pos[q] < keyNum[q]
    <3>1. Appended(q) = IF SCAN_SIZE <= keyNum[q] - pos[q] THEN SCAN_SIZE ELSE keyNum[q] - pos[q]
      BY <1>t, <2>2 DEF Appended, Lesser
    <3>2. pos'[q] = IF pos[q] + SCAN_SIZE <= keyNum[q] + 1 THEN pos[q] + SCAN_SIZE
                    ELSE keyNum[q] + 1
      BY <1>2 DEF Lesser
    <3> QED
      BY <1>2, <1>5, <1>t, <2>2, <3>1, <3>2
  <2> QED
    BY <1>t, <2>1, <2>2
<1>7. WorkerTypeOK'
  <2>1. /\ wpc' \in [Queues -> {"poll", "fill", "wait", "more", "clear", "done"}]
        /\ scan_status' \in [Queues -> Status]
    BY DEF More, IndInv, TypeOK, WorkerTypeOK, Status
  <2>2. pos' \in [Queues -> Nat] /\ size' \in [Queues -> Nat]
    BY <1>2, <1>6 DEF More, IndInv, TypeOK, WorkerTypeOK
  <2>3. ASSUME NEW r \in Queues PROVE pos'[r] <= keyNum[r] + 1 /\ size'[r] <= keyNum[r]
    <3>1. CASE r = q
      BY <1>6, <3>1
    <3>2. CASE r # q
      BY <1>1, <3>2, WorkerFrame, Types
    <3> QED
      BY <3>1, <3>2
  <2> QED
    BY <1>2, <2>1, <2>2, <2>3 DEF IndInv, TypeOK, WorkerTypeOK
<1>8. HandshakeInv(q)'
  BY <1>2, <1>3, <1>4 DEF IndInv, HandshakeInv, Joined, JoinedInv
<1>9. keyNum[q] >= 2 * SCAN_SIZE => pos[q] <= keyNum[q] /\ size'[q] >= SCAN_SIZE
  <2>1. keyNum[q] >= 2 * SCAN_SIZE => size[q] = 0 /\ pos[q] = SCAN_SIZE
    <3>1. VectorInv(q)
      BY DEF IndInv
    <3>2. keyNum[q] >= 2 * SCAN_SIZE =>
            /\ (size[q] = 0 /\ pos[q] = SCAN_SIZE) \/ size[q] >= SCAN_SIZE
            /\ size[q] = 0
      BY <1>2, <3>1 DEF VectorInv
    <3> QED
      BY <3>2
  <2>2. keyNum[q] >= 2 * SCAN_SIZE => pos[q] < keyNum[q] /\ SCAN_SIZE <= keyNum[q] - pos[q]
    BY <1>t, <2>1
  <2>3. keyNum[q] >= 2 * SCAN_SIZE => Appended(q) = SCAN_SIZE
    BY <1>t, <2>2 DEF Appended, Lesser
  <2>4. size'[q] = size[q] + Appended(q)
    BY <1>2
  <2> QED
    BY <1>t, <2>1, <2>2, <2>3, <2>4
<1>10. VectorInv(q)'
  BY <1>2, <1>6, <1>9 DEF VectorInv
<1>11. crashed' \in BOOLEAN /\ CrashOnlyIfShort'
  <2>1. crashed' => keyNum[q] < 2 * SCAN_SIZE
    BY <1>2, <1>9, <1>t
  <2> QED
    BY <1>2, <2>1 DEF CrashOnlyIfShort
<1> QED
  BY <1>1, <1>2, <1>4, <1>6, <1>7, <1>8, <1>10, <1>11, WorkerMerge

\* A worker sees SCAN_OVER, and only then clears its vector.
LEMMA LeaveIndInv ==
  ASSUME IndInv, NEW q \in Queues, Leave(q)
  PROVE  IndInv'
<1> USE ConstantFacts, Types
<1>1. Worker(q)
  BY DEF Worker
<1>2. /\ UNCHANGED <<keyNum, mpc, mseq, mi, current, crashed, seq, size, pos, scan_status>>
      /\ wpc[q] = "wait" /\ wpc'[q] = "clear" /\ scan_status[q] = "SCAN_OVER"
  BY DEF Leave, IndInv, TypeOK, WorkerTypeOK, mainVars, mergeVars
<1>3. WorkerTypeOK'
  BY <1>2 DEF Leave, IndInv, TypeOK, WorkerTypeOK
<1>4. mpc \notin {"merge", "need"}
  BY <1>2, Exclusive
<1>5. HandshakeInv(q)'
  BY <1>2, <1>4 DEF IndInv, HandshakeInv, EmptyInv, Joined, JoinedInv, ApartInv, NextQuery
<1>6. VectorInv(q)'
  BY <1>2, <1>4 DEF IndInv, VectorInv
<1> QED
  BY <1>1, <1>2, <1>3, <1>4, <1>5, <1>6, WorkerMerge

\* The vector is cleared: the worker is ready for the next range query.
LEMMA ClearIndInv ==
  ASSUME IndInv, NEW q \in Queues, Clear(q)
  PROVE  IndInv'
<1> USE ConstantFacts, Types
<1>1. Worker(q)
  BY DEF Worker
<1>2. /\ UNCHANGED <<keyNum, mpc, mseq, mi, current, crashed, pos, scan_status>>
      /\ wpc[q] = "clear" /\ wpc'[q] = "poll"
      /\ seq'[q] = seq[q] + 1 /\ size'[q] = 0
  BY DEF Clear, IndInv, TypeOK, WorkerTypeOK, mainVars, mergeVars
<1>3. seq[q] < READ_NUM
  BY <1>2 DEF IndInv, HandshakeInv
<1>4. WorkerTypeOK'
  <2>1. /\ wpc' \in [Queues -> {"poll", "fill", "wait", "more", "clear", "done"}]
        /\ size' \in [Queues -> Nat]
    BY DEF Clear, IndInv, TypeOK, WorkerTypeOK
  <2>2. seq' \in [Queues -> 0 .. READ_NUM]
    BY <1>3 DEF Clear, IndInv, TypeOK, WorkerTypeOK
  <2>3. ASSUME NEW r \in Queues PROVE size'[r] <= keyNum[r]
    <3>1. r # q => size'[r] = size[r]
      BY <1>1, WorkerFrame
    <3>2. keyNum[r] \in Nat /\ size[r] <= keyNum[r]
      BY Types
    <3>3. size'[q] = 0
      BY <1>2
    <3> HIDE Types
    <3> QED
      BY <3>1, <3>2, <3>3
  <2> QED
    BY <1>2, <2>1, <2>2, <2>3 DEF IndInv, TypeOK, WorkerTypeOK
<1>5. mpc \notin {"merge", "need"}
  BY <1>2, Exclusive
<1>6. HandshakeInv(q)'
  <2>1. HandshakeInv(q) /\ keyNum[q] # 0 /\ wpc[q] = "clear"
    BY <1>2 DEF IndInv, HandshakeInv, EmptyInv
  <2>2. ~Joined(q) /\ ~Joined(q)' /\ NextQuery(q)' = NextQuery(q)
    BY <1>2, <2>1 DEF HandshakeInv, JoinedInv, Joined, NextQuery
  <2>3. scan_status[q] = "SCAN_OVER" /\ seq[q] = NextQuery(q) - 1
    BY <2>1, <2>2 DEF HandshakeInv, ApartInv
  <2>4. NextQuery(q) \in Nat
    BY DEF NextQuery
  <2>5. ApartInv(q)'
    BY <1>2, <2>2, <2>3, <2>4 DEF ApartInv
  <2> QED
    BY <1>2, <2>1, <2>2, <2>5 DEF HandshakeInv
<1>7. VectorInv(q)'
  BY <1>2, <1>5 DEF IndInv, VectorInv
<1> QED
  BY <1>1, <1>2, <1>4, <1>5, <1>6, <1>7, WorkerMerge

-----------------------------------------------------------------------------
(* The steps of the merge thread. *)


\* What a step of the merge thread leaves alone.
LEMMA MergeFrame ==
  ASSUME IndInv, Merge
  PROVE  /\ UNCHANGED <<mainVars, workerVars>>
         /\ \A r \in Queues : QueueInv(r)'
         /\ MainTypeOK'
<1>1. UNCHANGED <<mainVars, workerVars>>
  BY DEF Merge, Await, MergeNext, NeedIter, Resume, Advance, AssertFails, Over
<1>2. \A r \in Queues : QueueInv(r)'
  BY <1>1 DEF IndInv, QueueInv, Issued, mainVars
<1>3. MainTypeOK'
  BY <1>1, Zenon DEF IndInv, TypeOK, MainTypeOK, mainVars
<1> QED
  BY <1>1, <1>2, <1>3

\* One more worker has sent MERGE_START; after the last one the merge begins.
LEMMA AwaitIndInv ==
  ASSUME IndInv, Await
  PROVE  IndInv'
<1> USE ConstantFacts
<1>1. UNCHANGED <<mainVars, workerVars>> /\ MainTypeOK' /\ \A r \in Queues : QueueInv(r)'
  BY MergeFrame DEF Merge
<1>2. /\ mi \in Queues /\ mi' \in Queues
      /\ mi + 1 < QUEUE_NUM => mi' = mi + 1 /\ mpc' = "await" /\ UNCHANGED <<now, n, current>>
      /\ mi + 1 >= QUEUE_NUM =>
           /\ mi' = 0 /\ mi + 1 = QUEUE_NUM
           /\ mpc' = IF SCAN_SIZE = 1 THEN "over" ELSE "merge"
           /\ n' = 0 /\ now' = [q \in Queues |-> 0] /\ current' \in Queues
  BY NextQueue DEF Await, IndInv, TypeOK, MergeTypeOK
<1>3. mpc = "await" /\ scan_status[mi] = "MERGE_START" /\ UNCHANGED <<scan_status, mseq, crashed>>
  BY DEF Await
<1>4. MergeTypeOK' /\ WorkerTypeOK' /\ crashed' \in BOOLEAN
  <2>1. WorkerTypeOK' /\ crashed' \in BOOLEAN
    BY <1>1, <1>3, Zenon DEF IndInv, TypeOK, WorkerTypeOK, workerVars, mainVars
  <2>2. mi + 1 < QUEUE_NUM => MergeTypeOK'
    BY <1>2, <1>3 DEF IndInv, TypeOK, MergeTypeOK
  <2>3. mi + 1 >= QUEUE_NUM => MergeTypeOK'
    BY <1>2, <1>3 DEF IndInv, TypeOK, MergeTypeOK
  <2>4. mi \in Nat
    BY <1>2 DEF Queues
  <2> QED
    BY <2>1, <2>2, <2>3, <2>4
<1>5. keyNum[mi] # 0 /\ wpc[mi] = "wait" /\ seq[mi] = mseq
  <2>1. HandshakeInv(mi) /\ ~Joined(mi) /\ mi \in Nat
    BY <1>2, <1>3 DEF IndInv, Joined, Queues
  <2>2. keyNum[mi] # 0
    BY <1>3, <2>1 DEF HandshakeInv, EmptyInv
  <2>3. NextQuery(mi) = mseq
    BY <1>3 DEF NextQuery
  <2> QED
    BY <1>3, <2>1, <2>2, <2>3 DEF HandshakeInv, ApartInv
<1>6. ASSUME NEW r \in Queues PROVE HandshakeInv(r)'
  <2>1. HandshakeInv(r) /\ r \in Nat /\ r < QUEUE_NUM /\ mi \in Nat /\ mi < QUEUE_NUM
    BY <1>2 DEF IndInv, Queues
  <2>2. UNCHANGED <<keyNum, wpc, seq>>
    BY <1>1 DEF mainVars, workerVars
  <2>3. CASE keyNum[r] = 0
    <3>1. r # mi /\ mi <= r /\ EmptyInv(r)
      BY <1>5, <2>1, <2>3 DEF HandshakeInv, EmptyInv
    <3>2. mi + 1 < QUEUE_NUM /\ mi' = mi + 1 /\ mpc' = "await"
      BY <1>2, <2>1, <3>1
    <3> QED
      BY <1>3, <2>1, <2>2, <2>3, <3>1, <3>2 DEF HandshakeInv, EmptyInv
  <2>4. CASE keyNum[r] # 0 /\ r < mi
    <3>1. JoinedInv(r)
      BY <1>3, <2>1, <2>4 DEF HandshakeInv, Joined
    <3>2. Joined(r)'
      BY <1>2, <2>1, <2>4 DEF Joined
    <3>3. JoinedInv(r)'
      BY <1>2, <1>3, <2>1, <2>2, <3>1 DEF JoinedInv
    <3> QED
      BY <2>1, <2>2, <2>4, <3>2, <3>3 DEF HandshakeInv
  <2>5. CASE r = mi
    <3>1. Joined(r)'
      BY <1>2, <2>1, <2>5 DEF Joined
    <3>2. JoinedInv(r)'
      BY <1>2, <1>3, <1>5, <2>1, <2>2, <2>5 DEF JoinedInv
    <3> QED
      BY <1>5, <2>1, <2>2, <2>5, <3>1, <3>2 DEF HandshakeInv
  <2>6. CASE keyNum[r] # 0 /\ r > mi
    <3>1. mi + 1 < QUEUE_NUM /\ mi' = mi + 1 /\ mpc' = "await"
      BY <1>2, <2>1, <2>6
    <3>2. ~Joined(r) /\ ~Joined(r)'
      BY <1>3, <2>1, <2>6, <3>1 DEF Joined
    <3>3. ApartInv(r)'
      BY <1>3, <2>1, <2>2, <2>6, <3>1, <3>2 DEF HandshakeInv, ApartInv, NextQuery
    <3> QED
      BY <2>1, <2>2, <2>6, <3>2, <3>3 DEF HandshakeInv
  <2> QED
    BY <2>1, <2>3, <2>4, <2>5, <2>6
<1>7. ASSUME NEW r \in Queues PROVE scan_status[r] # "ITER_OVER" \/ mpc' \notin {"merge", "need"}
  <2>1. HandshakeInv(r)' /\ r \in Nat /\ mi \in Nat /\ r < QUEUE_NUM
    BY <1>2, <1>6 DEF Queues
  <2>2. HandshakeInv(r)
    BY DEF IndInv
  <2> QED
    BY <1>2, <1>3, <2>1, <2>2 DEF HandshakeInv, EmptyInv, Joined, JoinedInv, ApartInv
<1>8. ASSUME NEW r \in Queues PROVE VectorInv(r)'
  BY <1>1, <1>3, <1>7 DEF IndInv, VectorInv, mainVars, workerVars
<1>9. MergeInv'
  <2>1. mi \in Nat /\ pc' = pc /\ i' = i
    BY <1>1, <1>2 DEF Queues, mainVars
  <2> QED
    BY <1>2, <1>3, <2>1 DEF IndInv, MergeInv, TypeOK, MergeTypeOK
<1>10. ReadsWithinVector'
  <2>1. mi \in Nat
    BY <1>2 DEF Queues
  <2> QED
    BY <1>2, <2>1 DEF ReadsWithinVector
<1>11. CrashOnlyIfShort'
  BY <1>1, <1>3 DEF IndInv, CrashOnlyIfShort, mainVars
<1> QED
  BY <1>1, <1>4, <1>6, <1>8, <1>9, <1>10, <1>11 DEF IndInv, TypeOK

\* A step of the merged iterator stays inside the vector of its child.
LEMMA AdvanceIndInv ==
  ASSUME IndInv, MergeNext \/ Resume
  PROVE  IndInv'
<1> USE ConstantFacts
<1>1. /\ UNCHANGED <<mainVars, workerVars>> /\ MainTypeOK' /\ \A r \in Queues : QueueInv(r)'
      /\ UNCHANGED <<scan_status, mseq, mi, crashed>>
  BY MergeFrame DEF Merge, MergeNext, Resume, Advance
<1>2. /\ mpc \in {"merge", "need"}
      /\ mpc = "need" => scan_status[current] = "ITER_OVER"
      /\ ~AtLast(current) /\ current' \in Queues
      /\ now' = [now EXCEPT ![current] = @ + 1] /\ n' = n + 1
      /\ mpc' = IF n + 1 = SCAN_SIZE - 1 THEN "over" ELSE "merge"
  BY DEF MergeNext, Resume, Advance
<1>3. /\ mi = 0 /\ n < SCAN_SIZE - 1 /\ n \in Nat /\ current \in Queues
      /\ \A r \in Queues : now[r] \in Nat /\ now[r] <= n
      /\ now \in [Queues -> 0 .. SCAN_SIZE - 1]
  BY <1>2 DEF IndInv, MergeInv, TypeOK, MergeTypeOK
<1>4. ASSUME NEW r \in Queues
      PROVE  now'[r] \in Nat /\ now'[r] <= n' /\ (now'[r] > 0 => now'[r] < size[r])
  <2>1. CASE r = current
    BY <1>2, <1>3, <2>1, Types DEF AtLast
  <2>2. CASE r # current
    BY <1>2, <1>3, <2>2 DEF IndInv, ReadsWithinVector
  <2> QED
    BY <2>1, <2>2
<1>5. MergeTypeOK' /\ WorkerTypeOK' /\ crashed' \in BOOLEAN
  <2>1. WorkerTypeOK' /\ crashed' \in BOOLEAN
    BY <1>1, Zenon DEF IndInv, TypeOK, WorkerTypeOK, workerVars, mainVars
  <2>2. now' \in [Queues -> 0 .. SCAN_SIZE - 1]
    BY <1>2, <1>3, <1>4
  <2> QED
    BY <1>1, <1>2, <1>3, <2>1, <2>2 DEF IndInv, TypeOK, MergeTypeOK
<1>6. ASSUME NEW r \in Queues PROVE HandshakeInv(r)' /\ VectorInv(r)'
  <2>1. /\ keyNum[r] # 0 /\ wpc[r] \in {"wait", "more"} /\ seq[r] = mseq
        /\ scan_status[r] \in {"MERGE_START", "NEED_ITER", "ITER_OVER"}
        /\ scan_status[r] = "NEED_ITER" => mpc = "need" /\ current = r
        /\ wpc[r] = "more" => scan_status[r] = "NEED_ITER"
    BY <1>2, Exclusive
  <2>2. scan_status[r] # "NEED_ITER"
    BY <1>2, <2>1
  <2>3. UNCHANGED <<keyNum, wpc, seq, pos, size>>
    BY <1>1 DEF mainVars, workerVars
  <2>4. Joined(r)'
    BY <1>1, <1>2, <1>3 DEF Joined, Queues
  <2>5. JoinedInv(r)'
    BY <1>1, <1>2, <2>1, <2>2, <2>3 DEF JoinedInv
  <2>6. HandshakeInv(r)'
    BY <2>1, <2>3, <2>4, <2>5 DEF IndInv, HandshakeInv
  <2>7. VectorInv(r)'
    BY <1>1, <1>2, <2>3 DEF IndInv, VectorInv
  <2> QED
    BY <2>6, <2>7
<1>7. MergeInv'
  <2>1. pc' = pc /\ i' = i
    BY <1>1 DEF mainVars
  <2> QED
    BY <1>1, <1>2, <1>3, <1>4, <2>1 DEF IndInv, MergeInv
<1>8. ReadsWithinVector' /\ CrashOnlyIfShort'
  BY <1>1, <1>4 DEF IndInv, ReadsWithinVector, CrashOnlyIfShort, mainVars, workerVars
<1> QED
  BY <1>1, <1>5, <1>6, <1>7, <1>8 DEF IndInv, TypeOK

\* The current child has been read through: its worker is asked for more.
LEMMA NeedIterIndInv ==
  ASSUME IndInv, NeedIter
  PROVE  IndInv'
<1> USE ConstantFacts
<1>1. /\ UNCHANGED <<mainVars, workerVars>> /\ MainTypeOK' /\ \A r \in Queues : QueueInv(r)'
      /\ UNCHANGED <<mseq, mi, n, now, current, crashed>>
  BY MergeFrame DEF Merge, NeedIter
<1>2. /\ mpc = "merge" /\ mpc' = "need" /\ AtLast(current) /\ current \in Queues
      /\ scan_status' = [scan_status EXCEPT ![current] = "NEED_ITER"]
  BY DEF NeedIter, IndInv, TypeOK, MergeTypeOK
<1>3. /\ scan_status'[current] = "NEED_ITER"
      /\ \A r \in Queues \ {current} : scan_status'[r] = scan_status[r]
      /\ scan_status' \in [Queues -> Status]
  BY <1>2 DEF IndInv, TypeOK, WorkerTypeOK, Status
<1>4. MergeTypeOK' /\ WorkerTypeOK' /\ crashed' \in BOOLEAN
  BY <1>1, <1>2, <1>3, Zenon DEF IndInv, TypeOK, MergeTypeOK, WorkerTypeOK, workerVars, mainVars
<1>5. ASSUME NEW r \in Queues PROVE HandshakeInv(r)' /\ VectorInv(r)'
  <2>1. /\ keyNum[r] # 0 /\ wpc[r] = "wait" /\ seq[r] = mseq
        /\ scan_status[r] \in {"MERGE_START", "ITER_OVER"}
    BY <1>2, Exclusive
  <2>2. UNCHANGED <<keyNum, wpc, seq, pos, size>>
    BY <1>1 DEF mainVars, workerVars
  <2>3. Joined(r)' /\ JoinedInv(r)'
    BY <1>1, <1>2, <1>3, <2>1, <2>2 DEF Joined, JoinedInv
  <2>4. HandshakeInv(r)'
    BY <2>1, <2>2, <2>3 DEF IndInv, HandshakeInv
  <2>5. VectorInv(r)'
    BY <1>2, <1>3, <2>1, <2>2 DEF IndInv, VectorInv
  <2> QED
    BY <2>4, <2>5
<1>6. MergeInv'
  BY <1>1, <1>2, <1>3 DEF IndInv, MergeInv, AtLast, mainVars, workerVars
<1>7. ReadsWithinVector' /\ CrashOnlyIfShort'
  BY <1>1, <1>2 DEF IndInv, ReadsWithinVector, CrashOnlyIfShort, mainVars, workerVars
<1> QED
  BY <1>1, <1>4, <1>5, <1>6, <1>7 DEF IndInv, TypeOK

\* assert(s) fails only on a child that had fewer than twice SCAN_SIZE keys.
LEMMA AssertFailsIndInv ==
  ASSUME IndInv, AssertFails
  PROVE  IndInv'
<1> USE ConstantFacts
<1>1. /\ UNCHANGED <<mainVars, workerVars, scan_status, mergeVars>> /\ crashed' = TRUE
      /\ mpc = "need" /\ scan_status[current] = "ITER_OVER" /\ AtLast(current)
      /\ current \in Queues
  BY DEF AssertFails, IndInv, TypeOK, MergeTypeOK
<1>2. keyNum[current] < 2 * SCAN_SIZE
  <2>1. keyNum[current] >= 2 * SCAN_SIZE => size[current] >= SCAN_SIZE
    BY <1>1 DEF IndInv, VectorInv
  <2>2. now[current] <= n /\ n < SCAN_SIZE - 1
    BY <1>1 DEF IndInv, MergeInv
  <2>3. size[current] <= now[current] + 1
    BY <1>1 DEF AtLast
  <2> QED
    BY <1>1, <2>1, <2>2, <2>3, Types, SMTT(30)
<1>3. CrashOnlyIfShort'
  BY <1>1, <1>2 DEF CrashOnlyIfShort, mainVars
<1>4. MainTypeOK' /\ WorkerTypeOK' /\ MergeTypeOK' /\ crashed' \in BOOLEAN
  BY <1>1, Zenon DEF IndInv, TypeOK, MainTypeOK, WorkerTypeOK, MergeTypeOK, mainVars,
                     workerVars, mergeVars
<1>5. ASSUME NEW r \in Queues PROVE QueueInv(r)' /\ HandshakeInv(r)' /\ VectorInv(r)'
  <2>1. QueueInv(r)'
    BY <1>1, Zenon DEF IndInv, QueueInv, Issued, mainVars, workerVars, mergeVars
  <2>2. HandshakeInv(r)'
    BY <1>1, Zenon DEF IndInv, HandshakeInv, EmptyInv, Joined, JoinedInv, ApartInv,
           NextQuery, mainVars, workerVars, mergeVars
  <2>3. VectorInv(r)'
    BY <1>1, Zenon DEF IndInv, VectorInv, mainVars, workerVars, mergeVars
  <2> QED
    BY <2>1, <2>2, <2>3
<1>6. MergeInv' /\ ReadsWithinVector'
  BY <1>1 DEF IndInv, MergeInv, AtLast, ReadsWithinVector, mainVars, workerVars, mergeVars
<1> QED
  BY <1>3, <1>4, <1>5, <1>6 DEF IndInv, TypeOK

\* SCAN_OVER to one more worker; after the last one the query is over.
LEMMA OverIndInv ==
  ASSUME IndInv, Over
  PROVE  IndInv'
<1> USE ConstantFacts
<1>1. /\ UNCHANGED <<mainVars, workerVars>> /\ MainTypeOK' /\ \A r \in Queues : QueueInv(r)'
      /\ UNCHANGED <<n, now, current, crashed>>
  BY MergeFrame DEF Merge, Over
<1>2. /\ mi \in Queues /\ mi' \in Queues /\ mi \in Nat
      /\ mi + 1 < QUEUE_NUM => mi' = mi + 1 /\ mpc' = "over" /\ mseq' = mseq
      /\ mi + 1 >= QUEUE_NUM =>
           /\ mi' = 0 /\ mi + 1 = QUEUE_NUM /\ mseq' = mseq + 1
           /\ mpc' = IF mseq' < READ_NUM THEN "await" ELSE "done"
  BY NextQueue DEF Over, IndInv, TypeOK, MergeTypeOK, Queues
<1>3. /\ mpc = "over" /\ mseq \in Nat /\ mseq < READ_NUM
      /\ scan_status' = [scan_status EXCEPT ![mi] = "SCAN_OVER"]
  BY DEF Over, IndInv, TypeOK, MergeTypeOK, MergeInv
<1>4. /\ scan_status'[mi] = "SCAN_OVER"
      /\ \A r \in Queues \ {mi} : scan_status'[r] = scan_status[r]
      /\ scan_status' \in [Queues -> Status]
  BY <1>2, <1>3 DEF IndInv, TypeOK, WorkerTypeOK, Status
<1>5. MergeTypeOK' /\ WorkerTypeOK' /\ crashed' \in BOOLEAN
  <2>1. WorkerTypeOK' /\ crashed' \in BOOLEAN
    BY <1>1, <1>4, Zenon DEF IndInv, TypeOK, WorkerTypeOK, workerVars, mainVars
  <2>2. n' \in 0 .. SCAN_SIZE - 1 /\ now' \in [Queues -> 0 .. SCAN_SIZE - 1] /\ current' \in Queues
    BY <1>1 DEF IndInv, TypeOK, MergeTypeOK
  <2>3. mpc' \in {"await", "over", "done"} /\ mseq' \in 0 .. READ_NUM
    BY <1>2, <1>3
  <2> QED
    BY <1>2, <2>1, <2>2, <2>3 DEF MergeTypeOK
<1>6. mpc' \in {"await", "over", "done"}
  BY <1>2
<1>7. ASSUME NEW r \in Queues PROVE HandshakeInv(r)'
  <2>1. /\ HandshakeInv(r) /\ r \in Nat /\ r < QUEUE_NUM
        /\ NextQuery(r) = mseq + 1 /\ NextQuery(r)' = mseq + 1
    BY <1>2, <1>3 DEF IndInv, NextQuery, Queues
  <2>2. UNCHANGED <<keyNum, wpc, seq>>
    BY <1>1 DEF mainVars, workerVars
  <2>3. keyNum[r] # 0
    BY <1>3, <2>1 DEF HandshakeInv, EmptyInv
  <2>4. CASE r < mi
    <3>1. ~Joined(r) /\ ~Joined(r)'
      BY <1>2, <1>3, <2>1, <2>4 DEF Joined
    <3>2. ApartInv(r)'
      BY <1>2, <1>4, <2>1, <2>2, <2>3, <2>4, <3>1 DEF HandshakeInv, ApartInv
    <3> QED
      BY <2>1, <2>2, <2>3, <3>1, <3>2 DEF HandshakeInv
  <2>5. CASE r = mi
    <3>1. Joined(r) /\ ~Joined(r)'
      BY <1>2, <1>3, <2>1, <2>5 DEF Joined
    <3>2. wpc[r] = "wait" /\ seq[r] = mseq
      BY <1>3, <2>1, <2>3, <3>1 DEF HandshakeInv, JoinedInv
    <3>3. ApartInv(r)'
      BY <1>3, <1>4, <2>1, <2>2, <2>5, <3>2 DEF ApartInv
    <3> QED
      BY <2>1, <2>2, <2>3, <3>1, <3>3 DEF HandshakeInv
  <2>6. CASE r > mi
    <3>1. mpc' = "over" /\ mi' = mi + 1 /\ mseq' = mseq
      BY <1>2, <2>1, <2>6
    <3>2. Joined(r) /\ Joined(r)'
      BY <1>2, <1>3, <2>1, <2>6, <3>1 DEF Joined
    <3>3. JoinedInv(r)'
      BY <1>2, <1>3, <1>4, <2>1, <2>2, <2>3, <2>6, <3>1, <3>2, SMTT(30) DEF HandshakeInv, JoinedInv
    <3> QED
      BY <2>1, <2>2, <2>3, <3>2, <3>3 DEF HandshakeInv
  <2> QED
    BY <1>2, <2>1, <2>4, <2>5, <2>6
<1>8. ASSUME NEW r \in Queues PROVE VectorInv(r)'
  BY <1>1, <1>6 DEF IndInv, VectorInv, mainVars, workerVars
<1>9. MergeInv' /\ ReadsWithinVector'
  <2>1. pc' = pc /\ i' = i
    BY <1>1 DEF mainVars
  <2> QED
    BY <1>2, <1>3, <1>6, <2>1 DEF IndInv, MergeInv, ReadsWithinVector
<1>10. CrashOnlyIfShort'
  BY <1>1 DEF IndInv, CrashOnlyIfShort, mainVars
<1> QED
  BY <1>1, <1>5, <1>7, <1>8, <1>9, <1>10 DEF IndInv, TypeOK

\* Every step of every thread keeps the invariant.
LEMMA NextIndInv ==
  ASSUME IndInv, [Next]_vars
  PROVE  IndInv'
<1>1. CASE Main
  BY <1>1, MainIndInv
<1>2. ASSUME NEW q \in Queues, Worker(q) PROVE IndInv'
  BY <1>2, TakeIndInv, FillIndInv, ServeIndInv, MoreIndInv, LeaveIndInv, ClearIndInv DEF Worker
<1>3. CASE Merge
  BY <1>3, AwaitIndInv, AdvanceIndInv, NeedIterIndInv, AssertFailsIndInv, OverIndInv DEF Merge
<1>4. CASE UNCHANGED vars
  <2>1. UNCHANGED <<mainVars, workerVars, scan_status, mergeVars, crashed>>
    BY <1>4 DEF vars
  <2>2. TypeOK'
    BY <2>1, Zenon DEF IndInv, TypeOK, MainTypeOK, WorkerTypeOK, MergeTypeOK, mainVars,
                       workerVars, mergeVars
  <2>3. ASSUME NEW r \in Queues PROVE QueueInv(r)' /\ HandshakeInv(r)' /\ VectorInv(r)'
    <3>1. QueueInv(r)'
      BY <2>1, Zenon DEF IndInv, QueueInv, Issued, mainVars, workerVars, mergeVars
    <3>2. HandshakeInv(r)'
      BY <2>1, Zenon DEF IndInv, HandshakeInv, EmptyInv, Joined, JoinedInv, ApartInv,
             NextQuery, mainVars, workerVars, mergeVars
    <3>3. VectorInv(r)'
      BY <2>1, Zenon DEF IndInv, VectorInv, mainVars, workerVars, mergeVars
    <3> QED
      BY <3>1, <3>2, <3>3
  <2>4. MergeInv' /\ ReadsWithinVector' /\ CrashOnlyIfShort'
    BY <2>1 DEF IndInv, MergeInv, AtLast, ReadsWithinVector, CrashOnlyIfShort, mainVars,
           workerVars, mergeVars
  <2> QED
    BY <2>2, <2>3, <2>4 DEF IndInv
<1> QED
  BY <1>1, <1>2, <1>3, <1>4 DEF Next

\* The invariant holds in every state the range query test reaches.
THEOREM Inductive == Spec => []IndInv
<1>1. Init => IndInv
  BY InitIndInv
<1>2. IndInv /\ [Next]_vars => IndInv'
  BY NextIndInv
<1> QED
  BY <1>1, <1>2, PTL DEF Spec

\* Variables keep their types and every counter its bound: no thread of
\* scan_test.cpp runs past READ_NUM queries or SCAN_SIZE merged keys.
THEOREM TypeCorrect == Spec => []TypeOK
<1>1. IndInv => TypeOK
  BY DEF IndInv
<1> QED
  BY <1>1, Inductive, PTL

\* A worker writes scans[q] only while the merge thread does not read it, for
\* any number of instances: the unlocked vector is never shared.
THEOREM VectorsAreExclusive == Spec => []ScansExclusive
<1>1. IndInv => ScansExclusive
  BY Exclusive DEF ScansExclusive, IndInv, TypeOK, MergeTypeOK, HandshakeInv, EmptyInv, Joined,
                   JoinedInv, ApartInv
<1> QED
  BY <1>1, Inductive, PTL

\* Every merge is made of the scans of one and the same range query.
THEOREM MergeIsOfOneQuery == Spec => []MergesOneQuery
<1>1. IndInv => MergesOneQuery
  BY Exclusive DEF MergesOneQuery
<1> QED
  BY <1>1, Inductive, PTL

\* vector_merge_iter indexes no vector beyond the keys its worker appended.
THEOREM MergeReadsInBounds == Spec => []ReadsWithinVector
<1>1. IndInv => ReadsWithinVector
  BY DEF IndInv
<1> QED
  BY <1>1, Inductive, PTL

\* With 2 * SCAN_SIZE keys in every instance neither assert(s) fails nor does a
\* worker step an iterator that is past its end.
THEOREM LongInstancesNeverCrash == Spec => []CrashOnlyIfShort
<1>1. IndInv => CrashOnlyIfShort
  BY DEF IndInv
<1> QED
  BY <1>1, Inductive, PTL

\* With an empty instance the program never ends, whatever the schedule.
THEOREM EmptyInstanceNeverEnds == Spec => []EmptyInstanceBlocks
<1>1. IndInv => EmptyInstanceBlocks
  BY DEF IndInv, MergeInv, HandshakeInv, EmptyInv, EmptyInstanceBlocks
<1> QED
  BY <1>1, Inductive, PTL

=============================================================================
