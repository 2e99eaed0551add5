-------------------------- MODULE ReadTestProofs --------------------------
(***************************************************************************)
(* The point query programs answer their requests in order and once, for   *)
(* every number of queues, keys, requests and keys of a MultiGet, every    *)
(* load and every way the snapshots of tail cut a queue.                   *)
(***************************************************************************)
EXTENDS ReadTest, SequenceTheorems, FiniteSetTheorems, TLAPS

MainTypes ==
  /\ program \in {"rocksdb", "leveldb", "wiredtiger"}
  /\ loaded \in SUBSET Keys
  /\ pc \in {"store", "publish", "mark", "join", "done"}
  /\ i \in 0 .. READ_NUM
  /\ j \in 0 .. QUEUE_NUM
  /\ key \in Keys
  /\ qs \in [Queues -> [Positions -> Keys \cup {EndMark}]]
  /\ tail \in [Queues -> Nat]
  /\ crashed \in BOOLEAN

WorkerTypes ==
  /\ wpc \in [Queues -> {"poll", "take", "report", "done"}]
  /\ seq \in [Queues -> Nat]
  /\ t \in [Queues -> Nat]
  /\ batch_size \in [Queues -> Nat]
  /\ keys \in [Queues -> Seq(Nat)]
  /\ keybuf \in [Queues -> Keys]
  /\ endflag \in [Queues -> BOOLEAN]
  /\ found \in [Queues -> Nat]
  /\ looked \in [Queues -> Seq([pos : Nat, key : Keys])]

\* Where main is in its two loops, and the slot it has stored to.
MainInv ==
  /\ pc \in {"store", "publish"} => j = 0 /\ i < READ_NUM
  /\ pc = "publish" => qs[Route(key)][tail[Route(key)]] = key
  /\ pc = "mark" => j < QUEUE_NUM

Marked(q) == IF j > q THEN 1 ELSE 0

\* A queue is no longer than what was issued.  Its requests were routed to it,
\* and only its last slot is an end mark.
QueueInv(q) ==
  /\ tail[q] <= i + Marked(q)
  /\ \A p \in Positions : p < tail[q] =>
       IF qs[q][p] = EndMark THEN j > q /\ tail[q] = p + 1 ELSE Route(qs[q][p]) = q

\* A worker stays behind its snapshot, and reports when it has reached the end
\* mark.
ProgressInv(q) ==
  /\ seq[q] <= t[q] /\ t[q] <= tail[q]
  /\ endflag[q] => seq[q] < tail[q] /\ qs[q][seq[q]] = EndMark
  /\ wpc[q] \in {"report", "done"} => endflag[q]

\* What LookupsInOrder says of one worker.
InOrder(q) ==
  /\ \A x \in 1 .. Len(looked[q]) : looked[q][x].pos = x - 1
  /\ \A x \in 1 .. Len(keys[q]) : keys[q][x] = Len(looked[q]) + x - 1
  /\ Len(looked[q]) + Len(keys[q]) = seq[q]

\* How many keys a worker may have pending.
PendingInv(q) ==
  /\ program = "wiredtiger" => keys[q] = <<>>
  /\ program = "leveldb" /\ wpc[q] # "take" => keys[q] = <<>>
  /\ program = "rocksdb" =>
       /\ batch_size[q] <= 1
       /\ Len(keys[q]) <= BATCH_SIZE
       /\ wpc[q] # "take" \/ endflag[q] \/ batch_size[q] = 0 => Len(keys[q]) < BATCH_SIZE

\* The positions below n of a row that hold a member of S.
Holding(row, S, n) == {p \in 0 .. n - 1 : row[p] \in S}

\* What FoundIsExact says of one worker, at any time.
FoundInv(q) == program = "wiredtiger" => found[q] = Cardinality(Holding(qs[q], loaded, seq[q]))

WorkerInv(q) == ProgressInv(q) /\ InOrder(q) /\ PendingInv(q) /\ FoundInv(q)

IndInv ==
  /\ MainTypes /\ WorkerTypes
  /\ MainInv
  /\ \A q \in Queues : QueueInv(q)
  /\ \A q \in Queues : WorkerInv(q)
  /\ CrashOnlyIfIdle

-----------------------------------------------------------------------------
(* Facts about the constants and the types. *)

\* The constants are what the programs allocate and loop over.
LEMMA ConstantFacts ==
  /\ QUEUE_NUM \in Nat /\ QUEUE_NUM > 0
  /\ TOTAL_NUM \in Nat /\ TOTAL_NUM > 0
  /\ READ_NUM \in Nat /\ READ_NUM > 0 /\ READ_NUM < QUEUE_LEN /\ QUEUE_LEN \in Nat
  /\ BATCH_SIZE \in Nat /\ BATCH_SIZE > 0
  /\ EndMark \notin Keys /\ 0 \in Keys
BY ConstantsAssumption, CapacityAssumption DEF EndMark, Keys

\* A key is routed to one of the queues.
LEMMA RouteInQueues == \A k \in Keys : Route(k) \in Queues
<1> SUFFICES ASSUME NEW k \in Keys PROVE Route(k) \in Queues
  OBVIOUS
<1>1. k \in Nat
  BY ConstantFacts DEF Keys
<1> QED
  BY <1>1, ConstantFacts DEF Route, Queues

\* The types of main's variables.
LEMMA MainFacts ==
  ASSUME IndInv
  PROVE  /\ i \in Nat /\ i <= READ_NUM /\ j \in Nat /\ j <= QUEUE_NUM
         /\ key \in Keys /\ loaded \subseteq Keys
         /\ qs \in [Queues -> [Positions -> Keys \cup {EndMark}]]
         /\ tail \in [Queues -> Nat]
BY ConstantFacts DEF IndInv, MainTypes

\* The types of one queue and its worker.
LEMMA Types ==
  ASSUME IndInv, NEW q \in Queues
  PROVE  /\ q \in Nat /\ q < QUEUE_NUM
         /\ tail[q] \in Nat /\ seq[q] \in Nat /\ t[q] \in Nat /\ batch_size[q] \in Nat
         /\ qs[q] \in [Positions -> Keys \cup {EndMark}]
         /\ keys[q] \in Seq(Nat) /\ Len(keys[q]) \in Nat
         /\ looked[q] \in Seq([pos : Nat, key : Keys]) /\ Len(looked[q]) \in Nat
         /\ keybuf[q] \in Keys /\ endflag[q] \in BOOLEAN /\ found[q] \in Nat
<1>1. q \in Nat /\ q < QUEUE_NUM
  BY ConstantFacts DEF Queues
<1>2. tail[q] \in Nat /\ qs[q] \in [Positions -> Keys \cup {EndMark}]
  BY DEF IndInv, MainTypes
<1>3. /\ seq[q] \in Nat /\ t[q] \in Nat /\ batch_size[q] \in Nat
      /\ keys[q] \in Seq(Nat) /\ looked[q] \in Seq([pos : Nat, key : Keys])
      /\ keybuf[q] \in Keys /\ endflag[q] \in BOOLEAN /\ found[q] \in Nat
  BY Zenon DEF IndInv, WorkerTypes
<1>4. Len(keys[q]) \in Nat /\ Len(looked[q]) \in Nat
  BY <1>3, LenProperties
<1> QED
  BY <1>1, <1>2, <1>3, <1>4

\* Its numbers alone.
LEMMA Numbers ==
  ASSUME IndInv, NEW q \in Queues
  PROVE  tail[q] \in Nat /\ seq[q] \in Nat /\ t[q] \in Nat /\ batch_size[q] \in Nat
BY Types

\* The published part of a queue, and the slot main stores to, lie in its row.
LEMMA TailBound ==
  ASSUME IndInv, NEW q \in Queues
  PROVE  /\ tail[q] <= QUEUE_LEN
         /\ j <= q => tail[q] \in Positions
         /\ \A p \in Nat : p < tail[q] => p \in Positions
<1>1. tail[q] <= i + Marked(q)
  BY DEF IndInv, QueueInv
<1>2. Marked(q) \in {0, 1} /\ (j <= q => Marked(q) = 0)
  BY MainFacts, Types DEF Marked
<1>3. tail[q] \in Nat /\ i \in Nat /\ i <= READ_NUM
  BY MainFacts, Types
<1>4. tail[q] <= QUEUE_LEN /\ (j <= q => tail[q] < QUEUE_LEN)
  BY <1>1, <1>2, <1>3, ConstantFacts
<1> QED
  BY <1>3, <1>4, ConstantFacts DEF Positions

-----------------------------------------------------------------------------
(* Counting the keys that are found. *)

\* One more slot counts when it holds a member of S.
LEMMA CountNext ==
  ASSUME NEW row, NEW S, NEW n \in Nat
  PROVE  /\ Cardinality(Holding(row, S, n)) \in Nat
         /\ Cardinality(Holding(row, S, n + 1))
              = Cardinality(Holding(row, S, n)) + IF row[n] \in S THEN 1 ELSE 0
<1>1. IsFiniteSet(0 .. n - 1)
  BY FS_Interval
<1>2. Holding(row, S, n) \in SUBSET (0 .. n - 1)
  BY DEF Holding
<1>3. IsFiniteSet(Holding(row, S, n))
  BY <1>1, <1>2, FS_Subset
<1>4. Cardinality(Holding(row, S, n)) \in Nat
  BY <1>3, FS_CardinalityType
<1>5. n \notin Holding(row, S, n)
  BY DEF Holding
<1>6. CASE row[n] \in S
  <2>1. Holding(row, S, n + 1) = Holding(row, S, n) \cup {n}
    BY <1>6 DEF Holding
  <2>2. Cardinality(Holding(row, S, n) \cup {n}) = Cardinality(Holding(row, S, n)) + 1
    BY <1>3, <1>5, FS_AddElement
  <2> QED
    BY <1>4, <1>6, <2>1, <2>2, Zenon
<1>7. CASE row[n] \notin S
  <2>1. Holding(row, S, n + 1) = Holding(row, S, n)
    BY <1>7 DEF Holding
  <2> QED
    BY <1>4, <1>7, <2>1
<1> QED
  BY <1>6, <1>7

\* Nothing is counted before the first slot.
LEMMA CountNone == \A row, S : Cardinality(Holding(row, S, 0)) = 0
<1>1. \A row, S : Holding(row, S, 0) = {}
  BY DEF Holding
<1> QED
  BY <1>1, FS_EmptySet

-----------------------------------------------------------------------------
(* The main thread. *)

\* The workers keep their invariant when main changes nothing they have taken.
LEMMA WorkersKeep ==
  ASSUME IndInv, UNCHANGED <<program, loaded, workerVars>>,
         \A q \in Queues : tail'[q] \in Nat /\ tail[q] <= tail'[q],
         \A q \in Queues, p \in Positions : p < tail[q] => qs'[q][p] = qs[q][p]
  PROVE  WorkerTypes' /\ \A q \in Queues : WorkerInv(q)'
<1>1. WorkerTypes'
  BY Zenon DEF IndInv, WorkerTypes, workerVars
<1>2. ASSUME NEW q \in Queues PROVE WorkerInv(q)'
  <2>1. WorkerInv(q)
    BY DEF IndInv
  <2>2. ProgressInv(q)'
    <3>1. /\ seq[q] <= t[q] /\ t[q] <= tail[q]
          /\ endflag[q] => seq[q] < tail[q] /\ qs[q][seq[q]] = EndMark
          /\ wpc[q] \in {"report", "done"} => endflag[q]
      BY <2>1 DEF WorkerInv, ProgressInv
    <3>2. t[q] <= tail'[q]
      BY <3>1, Types
    <3>3. endflag[q] => seq[q] < tail'[q] /\ qs'[q][seq[q]] = EndMark
      BY <3>1, Types, TailBound
    <3> QED
      BY <3>1, <3>2, <3>3, Zenon DEF ProgressInv, workerVars
  <2>3. InOrder(q)' /\ PendingInv(q)'
    BY <2>1, Zenon DEF WorkerInv, InOrder, PendingInv, workerVars
  <2>4. FoundInv(q)'
    <3>1. seq[q] \in Nat /\ seq[q] <= tail[q]
      BY <2>1, Types DEF WorkerInv, ProgressInv
    <3>2. ASSUME NEW p \in 0 .. seq[q] - 1 PROVE qs'[q][p] = qs[q][p]
      <4>1. p \in Nat /\ p < tail[q]
        BY <3>1, Numbers
      <4>2. p \in Positions
        BY <4>1, TailBound
      <4> QED
        BY <4>1, <4>2
    <3>3. Holding(qs[q], loaded, seq[q])' = Holding(qs[q], loaded, seq[q])
      BY <3>2 DEF Holding, workerVars
    <3> QED
      BY <2>1, <3>3 DEF WorkerInv, FoundInv, workerVars
  <2> QED
    BY <2>2, <2>3, <2>4 DEF WorkerInv
<1> QED
  BY <1>1, <1>2

\* main stores a request behind the published ones.
LEMMA StoreKeeps ==
  ASSUME IndInv, ~crashed, NEW k \in Keys, Store(k)
  PROVE  IndInv'
<1> DEFINE r == Route(k)
<1>1. r \in Queues
  BY RouteInQueues
<1> HIDE DEF r
<1>2. /\ pc = "store" /\ key' = k /\ pc' = "publish"
      /\ qs' = [qs EXCEPT ![r][tail[r]] = k]
      /\ UNCHANGED <<program, loaded, i, j, tail, workerVars, crashed>>
  BY DEF Store, r
<1>3. j = 0 /\ i < READ_NUM
  BY <1>2 DEF IndInv, MainInv
<1>4. tail[r] \in Positions
  BY <1>1, <1>3, Types, TailBound
<1>5. /\ qs' \in [Queues -> [Positions -> Keys \cup {EndMark}]]
      /\ qs'[r][tail[r]] = k
      /\ \A q \in Queues, p \in Positions : p < tail[q] => qs'[q][p] = qs[q][p]
  BY <1>1, <1>2, <1>4, MainFacts, Types
<1>6. MainTypes'
  BY <1>2, <1>5 DEF IndInv, MainTypes
<1>7. MainInv'
  <2>1. Route(key)' = r
    BY <1>2 DEF Route, r
  <2> QED
    BY <1>2, <1>3, <1>5, <2>1 DEF MainInv
<1>8. ASSUME NEW q \in Queues PROVE QueueInv(q)'
  BY <1>2, <1>5 DEF IndInv, QueueInv, Marked, Route
<1>9. WorkerTypes' /\ \A q \in Queues : WorkerInv(q)'
  BY <1>2, <1>5, Types, WorkersKeep
<1>10. CrashOnlyIfIdle'
  BY <1>2 DEF CrashOnlyIfIdle
<1> QED
  BY <1>6, <1>7, <1>8, <1>9, <1>10 DEF IndInv

\* main publishes the request it has stored.
LEMMA PublishKeeps ==
  ASSUME IndInv, ~crashed, Publish
  PROVE  IndInv'
<1> DEFINE r == Route(key)
<1>1. r \in Queues
  BY RouteInQueues, MainFacts
<1> HIDE DEF r
<1>2. /\ pc = "publish" /\ i' = i + 1
      /\ pc' = IF i + 1 < READ_NUM THEN "store" ELSE "mark"
      /\ tail' = [tail EXCEPT ![r] = @ + 1]
      /\ UNCHANGED <<program, loaded, j, key, qs, workerVars, crashed>>
  BY DEF Publish, r
<1>3. j = 0 /\ i < READ_NUM /\ qs[r][tail[r]] = key
  BY <1>2 DEF IndInv, MainInv, r
<1>4. /\ tail' \in [Queues -> Nat] /\ tail'[r] = tail[r] + 1
      /\ \A q \in Queues \ {r} : tail'[q] = tail[q]
  BY <1>1, <1>2, MainFacts
<1>5. \A q \in Queues : tail'[q] \in Nat /\ tail[q] <= tail'[q]
  BY <1>4, Types
<1>6. MainTypes'
  BY <1>2, <1>3, <1>4, MainFacts, ConstantFacts DEF IndInv, MainTypes
<1>7. MainInv'
  BY <1>2, <1>3, MainFacts, ConstantFacts DEF MainInv
<1>8. ASSUME NEW q \in Queues PROVE QueueInv(q)'
  <2>1. QueueInv(q) /\ Marked(q) = 0 /\ Marked(q)' = 0
    BY <1>2, <1>3, Types DEF IndInv, Marked
  <2>2. tail'[q] <= i' + Marked(q)'
    BY <1>2, <1>4, <2>1, MainFacts, Types DEF QueueInv
  <2>3. ASSUME NEW p \in Positions, p < tail[q]
        PROVE  qs'[q][p] # EndMark /\ Route(qs'[q][p]) = q
    <3>1. ~(j > q)
      BY <1>3, Types
    <3> QED
      BY <1>2, <2>1, <2>3, <3>1 DEF QueueInv, Route
  <2>4. q = r => qs'[q][tail[q]] # EndMark /\ Route(qs'[q][tail[q]]) = q
    BY <1>2, <1>3, MainFacts, ConstantFacts DEF r, Route
  <2>5. ASSUME NEW p \in Positions, p < tail'[q]
        PROVE  p < tail[q] \/ (q = r /\ p = tail[q])
    BY <1>4, <2>5, Types DEF Positions
  <2> QED
    BY <2>2, <2>3, <2>4, <2>5 DEF QueueInv
<1>9. WorkerTypes' /\ \A q \in Queues : WorkerInv(q)'
  BY <1>2, <1>5, WorkersKeep
<1>10. CrashOnlyIfIdle'
  BY <1>2 DEF CrashOnlyIfIdle
<1> QED
  BY <1>6, <1>7, <1>8, <1>9, <1>10 DEF IndInv

\* main publishes the end mark of a queue.
LEMMA MarkKeeps ==
  ASSUME IndInv, ~crashed, Mark
  PROVE  IndInv'
<1>1. /\ pc = "mark" /\ j' = j + 1
      /\ qs' = [qs EXCEPT ![j][tail[j]] = EndMark]
      /\ tail' = [tail EXCEPT ![j] = @ + 1]
      /\ pc' = IF j + 1 < QUEUE_NUM THEN "mark" ELSE "join"
      /\ UNCHANGED <<program, loaded, i, key, workerVars, crashed>>
  BY DEF Mark
<1>2. j \in Queues /\ j < QUEUE_NUM
  BY <1>1, MainFacts, ConstantFacts DEF IndInv, MainInv, Queues
<1>3. tail[j] \in Positions
  BY <1>2, Types, TailBound
<1>4. /\ tail' \in [Queues -> Nat] /\ tail'[j] = tail[j] + 1
      /\ \A q \in Queues \ {j} : tail'[q] = tail[q]
  BY <1>1, <1>2, MainFacts
<1>5. /\ qs' \in [Queues -> [Positions -> Keys \cup {EndMark}]]
      /\ qs'[j][tail[j]] = EndMark
      /\ \A q \in Queues, p \in Positions : p < tail[q] => qs'[q][p] = qs[q][p]
  BY <1>1, <1>2, <1>3, MainFacts, Types
<1>6. \A q \in Queues : tail'[q] \in Nat /\ tail[q] <= tail'[q]
  BY <1>4, Types
<1>7. MainTypes'
  BY <1>1, <1>2, <1>4, <1>5, MainFacts, ConstantFacts DEF IndInv, MainTypes
<1>8. MainInv'
  BY <1>1, MainFacts, ConstantFacts DEF MainInv
<1>9. ASSUME NEW q \in Queues PROVE QueueInv(q)'
  <2>1. QueueInv(q)
    BY DEF IndInv
  <2>2. CASE q # j
    <3>1. Marked(q)' = Marked(q) /\ (j' > q <=> j > q)
      BY <1>1, <2>2, MainFacts, Types DEF Marked
    <3> QED
      BY <1>1, <1>4, <1>5, <2>1, <2>2, <3>1 DEF QueueInv, Route
  <2>3. CASE q = j
    <3>1. Marked(q) = 0 /\ Marked(q)' = 1 /\ ~(j > q) /\ j' > q
      BY <1>1, <2>3, MainFacts DEF Marked
    <3>2. tail'[q] <= i' + Marked(q)'
      BY <1>1, <1>4, <2>1, <2>3, <3>1, MainFacts, Types DEF QueueInv
    <3>3. ASSUME NEW p \in Positions, p < tail[q]
          PROVE  qs'[q][p] # EndMark /\ Route(qs'[q][p]) = q
      BY <1>5, <2>1, <3>1, <3>3 DEF QueueInv, Route
    <3>4. ASSUME NEW p \in Positions, p < tail'[q]
          PROVE  p < tail[q] \/ (p = tail[q] /\ tail'[q] = p + 1)
      BY <1>4, <2>3, <3>4, Types DEF Positions
    <3> QED
      BY <1>5, <2>3, <3>1, <3>2, <3>3, <3>4 DEF QueueInv
  <2> QED
    BY <2>2, <2>3
<1>10. WorkerTypes' /\ \A q \in Queues : WorkerInv(q)'
  BY <1>1, <1>5, <1>6, WorkersKeep
<1>11. CrashOnlyIfIdle'
  BY <1>1 DEF CrashOnlyIfIdle
<1> QED
  BY <1>7, <1>8, <1>9, <1>10, <1>11 DEF IndInv

\* main joins the workers, or nothing changes.
LEMMA JoinKeeps ==
  ASSUME IndInv, pc' \in {"done", pc},
         UNCHANGED <<program, loaded, i, j, key, qs, tail, workerVars, crashed>>
  PROVE  IndInv'
<1>1. MainTypes'
  BY DEF IndInv, MainTypes
<1>2. MainInv'
  BY DEF IndInv, MainInv, Route
<1>3. ASSUME NEW q \in Queues PROVE QueueInv(q)'
  BY DEF IndInv, QueueInv, Marked, Route
<1>4. WorkerTypes' /\ \A q \in Queues : WorkerInv(q)'
  BY Types, WorkersKeep
<1>5. CrashOnlyIfIdle'
  BY DEF IndInv, CrashOnlyIfIdle
<1> QED
  BY <1>1, <1>2, <1>3, <1>4, <1>5 DEF IndInv

-----------------------------------------------------------------------------
(* The workers. *)

\* A step of worker q leaves main and the other workers alone.
LEMMA OthersKeep ==
  ASSUME IndInv, NEW q \in Queues, UNCHANGED mainVars,
         WorkerTypes', WorkerInv(q)', crashed' \in BOOLEAN, CrashOnlyIfIdle',
         \A r \in Queues \ {q} :
           /\ wpc'[r] = wpc[r] /\ seq'[r] = seq[r] /\ t'[r] = t[r]
           /\ batch_size'[r] = batch_size[r] /\ keys'[r] = keys[r]
           /\ endflag'[r] = endflag[r] /\ found'[r] = found[r] /\ looked'[r] = looked[r]
  PROVE  IndInv'
<1>1. MainTypes'
  BY Zenon DEF IndInv, MainTypes, mainVars
<1>2. MainInv'
  BY DEF IndInv, MainInv, mainVars
<1>3. ASSUME NEW r \in Queues PROVE QueueInv(r)'
  BY DEF IndInv, QueueInv, Marked, Route, mainVars
<1>4. ASSUME NEW r \in Queues, r # q PROVE WorkerInv(r)'
  <2>1. WorkerInv(r)
    BY DEF IndInv
  <2>2. ProgressInv(r)' /\ InOrder(r)' /\ PendingInv(r)'
    BY <1>4, <2>1, Zenon DEF WorkerInv, ProgressInv, InOrder, PendingInv, mainVars
  <2>3. FoundInv(r)'
    BY <1>4, <2>1, Zenon DEF WorkerInv, FoundInv, Holding, mainVars
  <2> QED
    BY <2>2, <2>3 DEF WorkerInv
<1> QED
  BY <1>1, <1>2, <1>3, <1>4 DEF IndInv

\* What a lookup adds to the history.
LEMMA LookUpFacts ==
  ASSUME IndInv, NEW q \in Queues, NEW positions \in Seq(Nat), NEW k \in Keys,
         LookUp(q, positions, k)
  PROVE  /\ looked' \in [Queues -> Seq([pos : Nat, key : Keys])]
         /\ found' \in [Queues -> Nat]
         /\ Len(looked'[q]) = Len(looked[q]) + Len(positions)
         /\ \A x \in 1 .. Len(looked[q]) : looked'[q][x] = looked[q][x]
         /\ \A x \in 1 .. Len(positions) :
              looked'[q][Len(looked[q]) + x].pos = positions[x]
         /\ found'[q] = found[q] + IF Holds(q, k) THEN Len(positions) ELSE 0
         /\ \A r \in Queues \ {q} : looked'[r] = looked[r] /\ found'[r] = found[r]
<1> DEFINE S == [pos : Nat, key : Keys]
           n == Len(positions)
           new == [x \in 1 .. n |-> [pos |-> positions[x], key |-> k]]
           s == looked[q] \o new
<1>1. n \in Nat /\ \A x \in 1 .. n : positions[x] \in Nat
  BY LenProperties, ElementOfSeq
<1>2. \A x \in 1 .. n : [pos |-> positions[x], key |-> k] \in S
  BY <1>1
<1>3. new \in Seq(S) /\ Len(new) = n
  <2>1. new \in [1 .. n -> S]
    BY <1>2
  <2>2. new \in Seq(S)
    BY <1>1, <2>1, SeqDef
  <2> QED
    BY <1>1, <2>1, <2>2, LenProperties
<1>4. \A x \in 1 .. n : new[x].pos = positions[x]
  OBVIOUS
<1>5. looked[q] \in Seq(S) /\ Len(looked[q]) \in Nat
  BY Types, Zenon
<1> HIDE DEF S, new
<1>6. /\ s \in Seq(S) /\ Len(s) = Len(looked[q]) + n
      /\ \A x \in 1 .. Len(looked[q]) + n :
           s[x] = IF x <= Len(looked[q]) THEN looked[q][x] ELSE new[x - Len(looked[q])]
  <2>1. /\ s \in Seq(S) /\ Len(s) = Len(looked[q]) + Len(new)
        /\ \A x \in 1 .. Len(looked[q]) + Len(new) :
             s[x] = IF x <= Len(looked[q]) THEN looked[q][x] ELSE new[x - Len(looked[q])]
    BY <1>3, <1>5, ConcatProperties, Zenon
  <2> QED
    BY <1>3, <2>1
<1> HIDE DEF n, s
<1>7. \A x \in 1 .. Len(looked[q]) : s[x] = looked[q][x]
  BY <1>1, <1>5, <1>6
<1>8. ASSUME NEW x \in 1 .. n PROVE s[Len(looked[q]) + x].pos = positions[x]
  <2> DEFINE y == Len(looked[q]) + x
  <2>1. /\ y \in 1 .. Len(looked[q]) + n /\ ~(y <= Len(looked[q]))
        /\ y - Len(looked[q]) = x
    BY <1>1, <1>5
  <2> HIDE DEF y
  <2>2. s[y] = new[x]
    BY <1>6, <2>1
  <2> QED
    BY <1>4, <2>2 DEF y
<1>9. looked' = [looked EXCEPT ![q] = s]
  BY DEF LookUp, s, new, n
<1>10. /\ looked' \in [Queues -> Seq(S)] /\ looked'[q] = s
       /\ \A r \in Queues \ {q} : looked'[r] = looked[r]
  BY <1>6, <1>9, Zenon DEF IndInv, WorkerTypes, S
<1>11. /\ found' \in [Queues -> Nat]
       /\ found'[q] = found[q] + IF Holds(q, k) THEN n ELSE 0
       /\ \A r \in Queues \ {q} : found'[r] = found[r]
  BY <1>1 DEF LookUp, IndInv, WorkerTypes, n
<1> QED
  BY <1>6, <1>7, <1>8, <1>10, <1>11, Zenon DEF n, S

\* A snapshot of tail.
LEMMA PollKeeps ==
  ASSUME IndInv, ~crashed, NEW q \in Queues, Poll(q)
  PROVE  IndInv'
<1>1. /\ wpc[q] = "poll" /\ seq[q] < tail[q]
      /\ t' = [t EXCEPT ![q] = tail[q]]
      /\ batch_size' = [batch_size EXCEPT ![q] = 0]
      /\ wpc' = [wpc EXCEPT ![q] = "take"]
      /\ UNCHANGED <<mainVars, seq, keys, keybuf, endflag, found, looked, crashed>>
  BY DEF Poll
<1>2. WorkerTypes'
  BY <1>1, Types, Zenon DEF IndInv, WorkerTypes
<1>3. /\ t'[q] = tail[q] /\ batch_size'[q] = 0 /\ wpc'[q] = "take"
      /\ \A r \in Queues \ {q} :
           t'[r] = t[r] /\ batch_size'[r] = batch_size[r] /\ wpc'[r] = wpc[r]
  BY <1>1 DEF IndInv, WorkerTypes
<1>4. WorkerInv(q)
  BY DEF IndInv
<1>5. ProgressInv(q)'
  <2>1. /\ seq'[q] = seq[q] /\ t'[q] \in {t[q], tail[q]} /\ tail' = tail /\ qs' = qs
        /\ wpc'[q] = "take" /\ seq[q] < tail[q]
        /\ endflag'[q] => qs[q][seq[q]] = EndMark
    BY <1>1, <1>3, <1>4 DEF WorkerInv, ProgressInv, mainVars
  <2>2. t'[q] = tail[q] /\ seq[q] <= tail[q]
    BY <1>1, <1>3, Numbers
  <2> QED
    BY <2>1, <2>2, Numbers DEF ProgressInv
<1>6. InOrder(q)' /\ FoundInv(q)'
  BY <1>1, <1>4, Zenon DEF WorkerInv, InOrder, FoundInv, Holding, mainVars
<1>7. PendingInv(q)'
  <2>1. program' = program /\ keys'[q] = keys[q] /\ wpc[q] # "take"
    BY <1>1 DEF mainVars
  <2>2. PendingInv(q)
    BY <1>4 DEF WorkerInv
  <2> QED
    BY <1>3, <2>1, <2>2 DEF PendingInv
<1>8. CrashOnlyIfIdle' /\ crashed' \in BOOLEAN
  BY <1>1 DEF CrashOnlyIfIdle, IndInv, MainTypes
<1>9. WorkerInv(q)'
  BY <1>5, <1>6, <1>7 DEF WorkerInv
<1> QED
  BY <1>1, <1>2, <1>3, <1>8, <1>9, OthersKeep

\* A look at the end mark.
LEMMA SeeEndKeeps ==
  ASSUME IndInv, ~crashed, NEW q \in Queues, SeeEnd(q)
  PROVE  IndInv'
<1>1. /\ wpc[q] = "take" /\ ~endflag[q] /\ seq[q] < t[q] /\ batch_size[q] < RoundSize
      /\ qs[q][seq[q]] = EndMark
      /\ endflag' = [endflag EXCEPT ![q] = TRUE]
      /\ UNCHANGED <<mainVars, wpc, seq, t, batch_size, keys, keybuf, found, looked,
                     crashed>>
  BY DEF SeeEnd, InRound
<1>2. WorkerTypes'
  BY <1>1, Zenon DEF IndInv, WorkerTypes
<1>3. endflag'[q] = TRUE /\ \A r \in Queues \ {q} : endflag'[r] = endflag[r]
  BY <1>1 DEF IndInv, WorkerTypes
<1>4. WorkerInv(q)
  BY DEF IndInv
<1>5. ProgressInv(q)'
  <2>1. /\ seq'[q] = seq[q] /\ t'[q] \in {t[q], tail[q]} /\ tail' = tail /\ qs' = qs
        /\ wpc'[q] = "take" /\ seq[q] < tail[q]
        /\ endflag'[q] => qs[q][seq[q]] = EndMark
    BY <1>1, <1>3, <1>4, Numbers DEF WorkerInv, ProgressInv, mainVars
  <2>2. seq[q] <= t'[q] /\ t'[q] <= tail[q]
    BY <1>1, <1>3, <1>4, Numbers DEF WorkerInv, ProgressInv
  <2> QED
    BY <2>1, <2>2 DEF ProgressInv
<1>6. InOrder(q)' /\ FoundInv(q)'
  BY <1>1, <1>4, Zenon DEF WorkerInv, InOrder, FoundInv, Holding, mainVars
<1>7. PendingInv(q)'
  <2>1. program = "rocksdb" => batch_size[q] = 0
    BY <1>1, Numbers DEF RoundSize
  <2> QED
    BY <1>1, <1>3, <1>4, <2>1 DEF WorkerInv, PendingInv, mainVars
<1>8. CrashOnlyIfIdle' /\ crashed' \in BOOLEAN
  BY <1>1 DEF CrashOnlyIfIdle, IndInv, MainTypes
<1>9. WorkerInv(q)'
  BY <1>5, <1>6, <1>7 DEF WorkerInv
<1> QED
  BY <1>1, <1>2, <1>3, <1>8, <1>9, OthersKeep, Zenon

\* A worker takes a request: it looks its key up, or appends it to keys.
LEMMA TakeKeeps ==
  ASSUME IndInv, ~crashed, NEW q \in Queues, Take(q)
  PROVE  IndInv'
<1> DEFINE k == qs[q][seq[q]]
           n == Len(looked[q])
           m == Len(keys[q])
<1>1. /\ wpc[q] = "take" /\ ~endflag[q] /\ seq[q] < t[q] /\ batch_size[q] < RoundSize
      /\ k # EndMark
      /\ keybuf' = [keybuf EXCEPT ![q] = k]
      /\ seq' = [seq EXCEPT ![q] = @ + 1]
      /\ batch_size' = [batch_size EXCEPT ![q] = @ + 1]
      /\ UNCHANGED <<mainVars, wpc, t, endflag, crashed>>
  BY DEF Take, InRound
<1>2. \/ program = "wiredtiger" /\ LookUp(q, <<seq[q]>>, keybuf'[q]) /\ UNCHANGED keys
      \/ /\ program # "wiredtiger" /\ keys' = [keys EXCEPT ![q] = Append(@, seq[q])]
         /\ UNCHANGED <<found, looked>>
  BY DEF Take
<1>3. WorkerInv(q)
  BY DEF IndInv
<1>4. seq[q] \in Nat /\ n \in Nat /\ m \in Nat /\ n + m = seq[q]
  BY <1>3, Types, Zenon DEF WorkerInv, InOrder
<1>5. k \in Keys /\ Route(k) = q
  <2>1. seq[q] < tail[q] /\ seq[q] \in Positions
    <3>1. t[q] <= tail[q]
      BY <1>3 DEF WorkerInv, ProgressInv
    <3>2. seq[q] < t[q] /\ seq[q] \in Nat /\ t[q] \in Nat /\ tail[q] \in Nat
      BY <1>1, Numbers, Zenon
    <3>3. seq[q] < tail[q]
      BY <3>1, <3>2
    <3> QED
      BY <1>4, <3>3, TailBound
  <2>2. QueueInv(q)
    BY DEF IndInv
  <2> QED
    BY <1>1, <2>1, <2>2, Types DEF QueueInv
<1> HIDE DEF k, n, m
<1>6. /\ keybuf' \in [Queues -> Keys] /\ keybuf'[q] = k
      /\ seq' \in [Queues -> Nat] /\ seq'[q] = seq[q] + 1
      /\ batch_size' \in [Queues -> Nat] /\ batch_size'[q] = batch_size[q] + 1
      /\ \A r \in Queues \ {q} : seq'[r] = seq[r] /\ batch_size'[r] = batch_size[r]
  BY <1>1, <1>5 DEF IndInv, WorkerTypes
<1>7. ProgressInv(q)'
  <2>1. t[q] <= tail[q]
    BY <1>3 DEF WorkerInv, ProgressInv
  <2>2. seq'[q] <= t[q]
    BY <1>1, <1>6, Numbers
  <2>3. t'[q] = t[q] /\ tail'[q] = tail[q] /\ ~endflag'[q] /\ wpc'[q] = "take"
    BY <1>1 DEF mainVars
  <2> QED
    BY <2>1, <2>2, <2>3 DEF ProgressInv
<1>8. CrashOnlyIfIdle' /\ crashed' \in BOOLEAN
  BY <1>1 DEF CrashOnlyIfIdle, IndInv, MainTypes
<1>9. CASE program = "wiredtiger"
  <2>1. LookUp(q, <<seq[q]>>, k) /\ keys' = keys
    BY <1>2, <1>6, <1>9
  <2>2. <<seq[q]>> \in Seq(Nat) /\ Len(<<seq[q]>>) = 1 /\ <<seq[q]>>[1] = seq[q]
    BY <1>4
  <2>3. /\ looked' \in [Queues -> Seq([pos : Nat, key : Keys])]
        /\ found' \in [Queues -> Nat]
        /\ Len(looked'[q]) = n + 1
        /\ \A x \in 1 .. n : looked'[q][x] = looked[q][x]
        /\ looked'[q][n + 1].pos = seq[q]
        /\ found'[q] = found[q] + IF Holds(q, k) THEN 1 ELSE 0
        /\ \A r \in Queues \ {q} : looked'[r] = looked[r] /\ found'[r] = found[r]
    <3> DEFINE s == <<seq[q]>>
    <3> HIDE DEF s
    <3>1. s \in Seq(Nat) /\ Len(s) = 1 /\ s[1] = seq[q] /\ LookUp(q, s, k)
      BY <2>1, <2>2 DEF s
    <3>2. /\ looked' \in [Queues -> Seq([pos : Nat, key : Keys])]
          /\ found' \in [Queues -> Nat]
          /\ Len(looked'[q]) = n + Len(s)
          /\ \A x \in 1 .. n : looked'[q][x] = looked[q][x]
          /\ \A x \in 1 .. Len(s) : looked'[q][n + x].pos = s[x]
          /\ found'[q] = found[q] + IF Holds(q, k) THEN Len(s) ELSE 0
          /\ \A r \in Queues \ {q} : looked'[r] = looked[r] /\ found'[r] = found[r]
      BY <1>5, <3>1, LookUpFacts, Zenon DEF n
    <3>3. 1 \in 1 .. Len(s)
      BY <3>1
    <3> QED
      BY <3>1, <3>2, <3>3, Zenon
  <2>4. keys[q] = <<>> /\ m = 0 /\ n = seq[q]
    <3>1. keys[q] = <<>>
      BY <1>3, <1>9 DEF WorkerInv, PendingInv
    <3>2. m = 0
      BY <3>1 DEF m
    <3> QED
      BY <1>4, <3>1, <3>2
  <2>5. InOrder(q)'
    <3>1. ASSUME NEW x \in 1 .. Len(looked'[q]) PROVE looked'[q][x].pos = x - 1
      <4>1. CASE x \in 1 .. n
        BY <1>3, <2>3, <4>1, Zenon DEF WorkerInv, InOrder, n
      <4>2. CASE x = n + 1
        <5>1. looked'[q][x].pos = seq[q]
          BY <2>3, <4>2
        <5> QED
          BY <1>4, <2>4, <4>2, <5>1
      <4>3. x \in 1 .. n \/ x = n + 1
        <5>1. x \in 1 .. n + 1
          BY <2>3
        <5> QED
          BY <1>4, <5>1
      <4> QED
        BY <4>1, <4>2, <4>3
    <3>2. Len(keys'[q]) = 0
      BY <2>1, <2>4
    <3>3. Len(looked'[q]) + Len(keys'[q]) = seq'[q]
      <4>1. Len(looked'[q]) = n + 1 /\ seq'[q] = seq[q] + 1 /\ n = seq[q]
        BY <1>4, <1>6, <2>3, <2>4
      <4> QED
        BY <1>4, <3>2, <4>1
    <3>4. \A x \in 1 .. Len(keys'[q]) : keys'[q][x] = Len(looked'[q]) + x - 1
      BY <3>2
    <3> QED
      BY <3>1, <3>3, <3>4, Zenon DEF InOrder
  <2>6. PendingInv(q)'
    BY <1>1, <1>9, <2>1, <2>4 DEF PendingInv, mainVars
  <2>7. FoundInv(q)'
    <3>1. Holds(q, k) <=> k \in loaded
      BY <1>5 DEF Holds, Route
    <3>2. /\ Cardinality(Holding(qs[q], loaded, seq[q])) \in Nat
          /\ Cardinality(Holding(qs[q], loaded, seq[q] + 1))
               = Cardinality(Holding(qs[q], loaded, seq[q])) + IF k \in loaded THEN 1 ELSE 0
      BY <1>4, CountNext DEF k
    <3>3. found[q] = Cardinality(Holding(qs[q], loaded, seq[q]))
      BY <1>3, <1>9 DEF WorkerInv, FoundInv
    <3>4. found'[q] = Cardinality(Holding(qs[q], loaded, seq[q] + 1))
      BY <2>3, <3>1, <3>2, <3>3
    <3>5. Holding(qs[q], loaded, seq[q])' = Holding(qs[q], loaded, seq[q] + 1)
      BY <1>1, <1>6 DEF Holding, mainVars
    <3> QED
      BY <3>4, <3>5 DEF FoundInv
  <2>8. WorkerInv(q)'
    BY <1>7, <2>5, <2>6, <2>7 DEF WorkerInv
  <2>9. WorkerTypes'
    BY <1>1, <1>6, <2>1, <2>3, Zenon DEF IndInv, WorkerTypes
  <2> QED
    BY <1>1, <1>6, <1>8, <2>1, <2>3, <2>8, <2>9, OthersKeep
<1>10. CASE program # "wiredtiger"
  <2> DEFINE s == Append(keys[q], seq[q])
  <2>1. keys' = [keys EXCEPT ![q] = s] /\ found' = found /\ looked' = looked
    BY <1>2, <1>10
  <2>2. /\ s \in Seq(Nat) /\ Len(s) = m + 1 /\ s[m + 1] = seq[q]
        /\ \A x \in 1 .. m : s[x] = keys[q][x]
    BY Types, AppendProperties DEF m
  <2> HIDE DEF s
  <2>3. /\ keys' \in [Queues -> Seq(Nat)] /\ keys'[q] = s
        /\ \A r \in Queues \ {q} : keys'[r] = keys[r]
    BY <2>1, <2>2 DEF IndInv, WorkerTypes
  <2>4. InOrder(q)'
    <3>1. ASSUME NEW x \in 1 .. m + 1 PROVE s[x] = n + x - 1
      <4>1. CASE x \in 1 .. m
        BY <1>3, <2>2, <4>1 DEF WorkerInv, InOrder, n, m
      <4>2. CASE x = m + 1
        BY <1>4, <2>2, <4>2
      <4> QED
        BY <1>4, <4>1, <4>2
    <3>2. Len(keys'[q]) = m + 1 /\ Len(looked'[q]) = n
      BY <2>1, <2>2, <2>3 DEF n
    <3>3. Len(looked'[q]) + Len(keys'[q]) = seq'[q]
      BY <1>4, <1>6, <3>2
    <3>4. \A x \in 1 .. Len(keys'[q]) : keys'[q][x] = Len(looked'[q]) + x - 1
      BY <2>3, <3>1, <3>2
    <3>5. \A x \in 1 .. Len(looked'[q]) : looked'[q][x].pos = x - 1
      BY <1>3, <2>1 DEF WorkerInv, InOrder
    <3> QED
      BY <3>3, <3>4, <3>5, Zenon DEF InOrder
  <2>5. PendingInv(q)'
    <3>1. program = "rocksdb" => batch_size[q] = 0 /\ m < BATCH_SIZE
      <4>1. program = "rocksdb" => batch_size[q] = 0
        BY <1>1, Numbers DEF RoundSize
      <4> QED
        BY <1>3, <4>1 DEF WorkerInv, PendingInv, m
    <3>2. Len(keys'[q]) = m + 1
      BY <2>2, <2>3
    <3>3. program = "rocksdb" => batch_size'[q] = 1 /\ Len(keys'[q]) <= BATCH_SIZE
      BY <1>4, <1>6, <3>1, <3>2, ConstantFacts
    <3>4. program' = program /\ wpc'[q] = "take" /\ ~endflag'[q]
      BY <1>1 DEF mainVars
    <3> QED
      BY <1>10, <3>3, <3>4 DEF PendingInv
  <2>6. FoundInv(q)'
    BY <1>1, <1>10 DEF FoundInv, mainVars
  <2>7. WorkerInv(q)'
    BY <1>7, <2>4, <2>5, <2>6 DEF WorkerInv
  <2>8. WorkerTypes'
    BY <1>1, <1>6, <2>1, <2>3, Zenon DEF IndInv, WorkerTypes
  <2> QED
    BY <1>1, <1>6, <1>8, <2>1, <2>3, <2>7, <2>8, OthersKeep
<1> QED
  BY <1>9, <1>10

\* The end of a round: a full MultiGet, all keys of the round, or nothing.
LEMMA EndRoundKeeps ==
  ASSUME IndInv, ~crashed, NEW q \in Queues, EndRound(q)
  PROVE  IndInv'
<1> DEFINE n == Len(looked[q])
           m == Len(keys[q])
<1>1. /\ wpc[q] = "take"
      /\ wpc' = [wpc EXCEPT ![q] = IF endflag[q] THEN "report" ELSE "poll"]
      /\ UNCHANGED <<mainVars, seq, t, batch_size, keybuf, endflag, crashed>>
  BY DEF EndRound
<1>2. \/ /\ MustLookUp(q) /\ LookUp(q, keys[q], keybuf[q])
         /\ keys' = [keys EXCEPT ![q] = <<>>]
      \/ ~MustLookUp(q) /\ UNCHANGED <<found, looked, keys>>
  BY DEF EndRound
<1>3. WorkerInv(q)
  BY DEF IndInv
<1>4. seq[q] \in Nat /\ n \in Nat /\ m \in Nat /\ n + m = seq[q]
  BY <1>3, Types, Zenon DEF WorkerInv, InOrder
<1> HIDE DEF n, m
<1>5. /\ wpc' \in [Queues -> {"poll", "take", "report", "done"}]
      /\ wpc'[q] = IF endflag[q] THEN "report" ELSE "poll"
      /\ \A r \in Queues \ {q} : wpc'[r] = wpc[r]
  BY <1>1 DEF IndInv, WorkerTypes
<1>6. ProgressInv(q)'
  BY <1>1, <1>3, <1>5 DEF WorkerInv, ProgressInv, mainVars
<1>7. CrashOnlyIfIdle' /\ crashed' \in BOOLEAN
  BY <1>1 DEF CrashOnlyIfIdle, IndInv, MainTypes
<1>8. CASE MustLookUp(q)
  <2>1. LookUp(q, keys[q], keybuf[q]) /\ keys' = [keys EXCEPT ![q] = <<>>]
    BY <1>2, <1>8
  <2>2. /\ looked' \in [Queues -> Seq([pos : Nat, key : Keys])]
        /\ found' \in [Queues -> Nat]
        /\ Len(looked'[q]) = n + m
        /\ \A x \in 1 .. n : looked'[q][x] = looked[q][x]
        /\ \A x \in 1 .. m : looked'[q][n + x].pos = keys[q][x]
        /\ \A r \in Queues \ {q} : looked'[r] = looked[r] /\ found'[r] = found[r]
    BY <2>1, Types, LookUpFacts DEF n, m
  <2>3. /\ keys' \in [Queues -> Seq(Nat)] /\ keys'[q] = <<>>
        /\ \A r \in Queues \ {q} : keys'[r] = keys[r]
    BY <2>1, EmptySeq DEF IndInv, WorkerTypes
  <2>4. InOrder(q)'
    <3>1. ASSUME NEW x \in 1 .. n + m PROVE looked'[q][x].pos = x - 1
      <4>1. CASE x \in 1 .. n
        BY <1>3, <2>2, <4>1, Zenon DEF WorkerInv, InOrder, n, m
      <4>2. CASE x \notin 1 .. n
        <5> DEFINE y == x - n
        <5>1. y \in 1 .. m /\ n + y = x
          BY <1>4, <4>2
        <5> HIDE DEF y
        <5>2. looked'[q][x].pos = keys[q][y] /\ keys[q][y] = n + y - 1
          BY <1>3, <2>2, <5>1, Zenon DEF WorkerInv, InOrder, n, m
        <5> QED
          BY <1>4, <5>1, <5>2
      <4> QED
        BY <4>1, <4>2
    <3>2. Len(keys'[q]) = 0
      BY <2>3
    <3>3. Len(looked'[q]) + Len(keys'[q]) = seq'[q]
      <4>1. Len(looked'[q]) = n + m /\ seq'[q] = seq[q] /\ n + m = seq[q]
        BY <1>1, <1>4, <2>2
      <4> QED
        BY <1>4, <3>2, <4>1
    <3>4. \A x \in 1 .. Len(keys'[q]) : keys'[q][x] = Len(looked'[q]) + x - 1
      BY <3>2
    <3>5. \A x \in 1 .. Len(looked'[q]) : looked'[q][x].pos = x - 1
      BY <2>2, <3>1, Zenon
    <3> QED
      BY <3>3, <3>4, <3>5, Zenon DEF InOrder
  <2>5. program # "wiredtiger"
    BY <1>3, <1>8 DEF WorkerInv, PendingInv, MustLookUp
  <2>6. PendingInv(q)'
    <3>1. Len(keys'[q]) = 0 /\ program' = program /\ batch_size' = batch_size
      BY <1>1, <2>3 DEF mainVars
    <3>2. program = "rocksdb" => batch_size[q] <= 1
      BY <1>3 DEF WorkerInv, PendingInv
    <3>3. keys'[q] = <<>> /\ Len(keys'[q]) < BATCH_SIZE /\ Len(keys'[q]) <= BATCH_SIZE
      BY <2>3, <3>1, ConstantFacts
    <3>4. program' = "rocksdb" => batch_size'[q] <= 1
      BY <3>1, <3>2
    <3> QED
      BY <3>3, <3>4, Zenon DEF PendingInv
  <2>7. FoundInv(q)'
    BY <1>1, <2>5 DEF FoundInv, mainVars
  <2>8. WorkerInv(q)'
    BY <1>6, <2>4, <2>6, <2>7 DEF WorkerInv
  <2>9. WorkerTypes'
    BY <1>1, <1>5, <2>2, <2>3, Zenon DEF IndInv, WorkerTypes
  <2> QED
    BY <1>1, <1>5, <1>7, <2>2, <2>3, <2>8, <2>9, OthersKeep
<1>9. CASE ~MustLookUp(q)
  <2>1. found' = found /\ looked' = looked /\ keys' = keys
    BY <1>2, <1>9
  <2>2. InOrder(q)' /\ FoundInv(q)'
    BY <1>1, <1>3, <2>1, Zenon DEF WorkerInv, InOrder, FoundInv, Holding, mainVars
  <2>3. PendingInv(q)'
    <3>1. program # "rocksdb" => keys[q] = <<>>
      BY <1>9 DEF MustLookUp
    <3>2. program = "rocksdb" => batch_size[q] <= 1 /\ m < BATCH_SIZE
      BY <1>3, <1>4, <1>9, ConstantFacts DEF WorkerInv, PendingInv, MustLookUp, m
    <3>3. program = "rocksdb" => batch_size[q] <= 1 /\ m <= BATCH_SIZE /\ m < BATCH_SIZE
      BY <1>4, <3>2, ConstantFacts
    <3>4. program' = program /\ batch_size' = batch_size
      BY <1>1 DEF mainVars
    <3> QED
      BY <2>1, <3>1, <3>3, <3>4 DEF PendingInv, m
  <2>4. WorkerInv(q)'
    BY <1>6, <2>2, <2>3 DEF WorkerInv
  <2>5. WorkerTypes'
    BY <1>1, <1>5, <2>1, Zenon DEF IndInv, WorkerTypes
  <2> QED
    BY <1>1, <1>5, <1>7, <2>1, <2>4, <2>5, OthersKeep
<1> QED
  BY <1>8, <1>9

\* The report: a queue without requests kills the process.
LEMMA ReportKeeps ==
  ASSUME IndInv, ~crashed, NEW q \in Queues, Report(q)
  PROVE  IndInv'
<1> DEFINE divides == program # "rocksdb" /\ seq[q] = 0
<1>1. /\ wpc[q] = "report"
      /\ wpc' = [wpc EXCEPT ![q] = IF divides THEN @ ELSE "done"]
      /\ crashed' = divides
      /\ UNCHANGED <<mainVars, seq, t, batch_size, keys, keybuf, endflag, found, looked>>
  BY DEF Report
<1>2. /\ wpc' \in [Queues -> {"poll", "take", "report", "done"}]
      /\ wpc'[q] \in {"report", "done"}
      /\ \A r \in Queues \ {q} : wpc'[r] = wpc[r]
  BY <1>1 DEF IndInv, WorkerTypes
<1>3. WorkerInv(q)
  BY DEF IndInv
<1>4. endflag[q] /\ seq[q] < tail[q] /\ qs[q][seq[q]] = EndMark /\ seq[q] \in Positions
  BY <1>1, <1>3, Types, TailBound DEF WorkerInv, ProgressInv
<1>5. ProgressInv(q)'
  BY <1>1, <1>2, <1>3, <1>4 DEF WorkerInv, ProgressInv, mainVars
<1>6. InOrder(q)' /\ FoundInv(q)'
  BY <1>1, <1>3, Zenon DEF WorkerInv, InOrder, FoundInv, Holding, mainVars
<1>7. PendingInv(q)'
  BY <1>1, <1>2, <1>3 DEF WorkerInv, PendingInv, mainVars
<1>8. CrashOnlyIfIdle'
  <2>1. j > q /\ tail[q] = seq[q] + 1
    BY <1>4, Types DEF IndInv, QueueInv
  <2>2. crashed' => program # "rocksdb" /\ tail[q] = 1 /\ j > q
    <3>1. crashed' => program # "rocksdb" /\ seq[q] = 0
      BY <1>1, Zenon
    <3>2. seq[q] = 0 => tail[q] = 1
      BY <2>1
    <3> QED
      BY <2>1, <3>1, <3>2
  <2> QED
    BY <1>1, <2>2 DEF CrashOnlyIfIdle, mainVars
<1>9. WorkerInv(q)'
  BY <1>5, <1>6, <1>7 DEF WorkerInv
<1>10. WorkerTypes'
  BY <1>1, <1>2, Zenon DEF IndInv, WorkerTypes
<1>11. crashed' \in BOOLEAN
  BY <1>1
<1> QED
  BY <1>1, <1>2, <1>8, <1>9, <1>10, <1>11, OthersKeep

-----------------------------------------------------------------------------
(* The invariant and what follows from it. *)

\* Nothing is issued or taken before the start.
LEMMA InitInv == Init => IndInv
<1> SUFFICES ASSUME Init PROVE IndInv
  OBVIOUS
<1>1. UnusedSlot \in Keys \cup {EndMark}
  BY ConstantFacts DEF UnusedSlot
<1>2. MainTypes
  <2>1. program \in {"rocksdb", "leveldb", "wiredtiger"} /\ loaded \in SUBSET Keys
    BY ConstantsAssumption DEF Init, Keys
  <2>2. pc \in {"store", "publish", "mark", "join", "done"}
    BY DEF Init
  <2>3. i \in 0 .. READ_NUM /\ j \in 0 .. QUEUE_NUM /\ key \in Keys
    BY ConstantFacts DEF Init
  <2>4. qs \in [Queues -> [Positions -> Keys \cup {EndMark}]]
    BY <1>1 DEF Init
  <2>5. tail \in [Queues -> Nat] /\ crashed \in BOOLEAN
    BY Zenon DEF Init
  <2> QED
    BY <2>1, <2>2, <2>3, <2>4, <2>5 DEF MainTypes
<1>3. WorkerTypes
  BY ConstantFacts, EmptySeq DEF Init, WorkerTypes
<1>4. MainInv
  BY ConstantFacts DEF Init, MainInv
<1>5. ASSUME NEW q \in Queues PROVE QueueInv(q)
  BY ConstantFacts DEF Init, QueueInv, Marked, Positions, Queues
<1>6. ASSUME NEW q \in Queues PROVE WorkerInv(q)
  <2>1. /\ seq[q] = 0 /\ t[q] = 0 /\ tail[q] = 0 /\ endflag[q] = FALSE /\ wpc[q] = "poll"
        /\ batch_size[q] = 0 /\ keys[q] = <<>> /\ looked[q] = <<>> /\ found[q] = 0
    BY DEF Init
  <2>2. Len(keys[q]) = 0 /\ Len(looked[q]) = 0
    BY <2>1
  <2>3. ProgressInv(q)
    BY <2>1 DEF ProgressInv
  <2>4. InOrder(q)
    BY <2>1, <2>2 DEF InOrder
  <2>5. PendingInv(q)
    BY <2>1, <2>2, ConstantFacts DEF PendingInv
  <2>6. FoundInv(q)
    BY <2>1, CountNone DEF FoundInv
  <2> QED
    BY <2>3, <2>4, <2>5, <2>6 DEF WorkerInv
<1>7. CrashOnlyIfIdle
  BY DEF Init, CrashOnlyIfIdle
<1> QED
  BY <1>2, <1>3, <1>4, <1>5, <1>6, <1>7 DEF IndInv

\* Every step keeps the invariant.
LEMMA NextInv ==
  ASSUME IndInv, [Next]_vars
  PROVE  IndInv'
<1>1. ASSUME ~crashed, Main PROVE IndInv'
  <2>1. CASE Join
    BY <2>1, JoinKeeps DEF Join
  <2> QED
    BY <1>1, <2>1, StoreKeeps, PublishKeeps, MarkKeeps DEF Main
<1>2. ASSUME ~crashed, NEW q \in Queues, Worker(q) PROVE IndInv'
  BY <1>2, PollKeeps, TakeKeeps, SeeEndKeeps, EndRoundKeeps, ReportKeeps DEF Worker
<1>3. CASE UNCHANGED vars
  <2>1. /\ pc' \in {"done", pc}
        /\ UNCHANGED <<program, loaded, i, j, key, qs, tail, workerVars, crashed>>
    BY <1>3 DEF vars, mainVars, workerVars
  <2> QED
    BY <2>1, JoinKeeps
<1> QED
  BY <1>1, <1>2, <1>3 DEF Next, Returned

\* The invariant of the three programs.
THEOREM Inductive == Spec => []IndInv
<1>1. Init => IndInv
  BY InitInv
<1>2. IndInv /\ [Next]_vars => IndInv'
  BY NextInv
<1> QED
  BY <1>1, <1>2, PTL DEF Spec

\* However the snapshots of tail cut its queue into rounds, and whenever a
\* MultiGet is full, a worker answers its requests in queue order, each of them
\* once, and has the others in keys.
THEOREM AnswersInOrder == Spec => []LookupsInOrder
<1>1. IndInv => LookupsInOrder
  BY Zenon DEF IndInv, WorkerInv, InOrder, LookupsInOrder
<1> QED
  BY <1>1, Inductive, PTL

\* A worker of the LevelDB and WiredTiger programs returns with every request
\* answered; one of read_test.cpp leaves out less than a MultiGet.
THEOREM LeavesOutLessThanBatch == Spec => []DropsLessThanBatch
<1>1. IndInv => DropsLessThanBatch
  <2> SUFFICES ASSUME IndInv, NEW q \in Queues, wpc[q] = "done"
               PROVE  seq[q] - Len(looked[q]) < IF program = "rocksdb" THEN BATCH_SIZE ELSE 1
    BY DEF DropsLessThanBatch
  <2>1. WorkerInv(q) /\ program \in {"rocksdb", "leveldb", "wiredtiger"}
    BY DEF IndInv, MainTypes
  <2>2. seq[q] - Len(looked[q]) = Len(keys[q])
    <3> DEFINE n == Len(looked[q])
               m == Len(keys[q])
    <3>1. n + m = seq[q] /\ n \in Nat /\ m \in Nat
      BY <2>1, Types, Zenon DEF WorkerInv, InOrder
    <3> HIDE DEF n, m
    <3>2. seq[q] - n = m
      BY <3>1
    <3> QED
      BY <3>2 DEF n, m
  <2>3. CASE program = "rocksdb"
    BY <2>1, <2>2, <2>3 DEF WorkerInv, PendingInv
  <2>4. CASE program # "rocksdb"
    <3>1. keys[q] = <<>>
      BY <2>1, <2>4 DEF WorkerInv, PendingInv
    <3>2. Len(keys[q]) = 0
      BY <3>1
    <3> QED
      BY <2>2, <2>4, <3>2
  <2> QED
    BY <2>3, <2>4
<1> QED
  BY <1>1, Inductive, PTL

\* The WiredTiger program reports as found exactly those of its requests whose
\* key is loaded.
THEOREM ReportsExactly == Spec => []FoundIsExact
<1>1. ASSUME IndInv PROVE FoundIsExact
  <2>1. \A q \in Queues : program = "wiredtiger" =>
          found[q] = Cardinality(Holding(qs[q], loaded, seq[q]))
    BY <1>1, Zenon DEF IndInv, WorkerInv, FoundInv
  <2>2. \A q \in Queues : Holding(qs[q], loaded, seq[q]) = {p \in 0 .. seq[q] - 1 : qs[q][p] \in loaded}
    BY Zenon DEF Holding
  <2> QED
    BY <2>1, <2>2 DEF FoundIsExact
<1> QED
  BY <1>1, Inductive, PTL

\* A report divides by zero only for a queue that got nothing but its end mark,
\* and never in read_test.cpp: no worker takes an unused slot for an end mark.
THEOREM CrashesOnlyIdle == Spec => []CrashOnlyIfIdle
<1>1. IndInv => CrashOnlyIfIdle
  BY DEF IndInv
<1> QED
  BY <1>1, Inductive, PTL

=============================================================================
