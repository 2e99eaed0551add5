-------------------------- MODULE WriteTestProofs --------------------------
(***************************************************************************)
(* The load programs hand each instance its requests in order and once,    *)
(* for every number of queues, keys and puts of a batch, every order of    *)
(* the keys and every way the snapshots of tail cut a queue.               *)
(***************************************************************************)
EXTENDS WriteTest, SequenceTheorems, FiniteSetTheorems, TLAPS

\* A sequence of positions written and a set of positions that failed account
\* for the first n requests of a queue.
Accounts(s, f, n) ==
  /\ f \subseteq 0 .. n - 1
  /\ \A x, y \in 1 .. Len(s) : x < y => s[x] < s[y]
  /\ {s[x] : x \in 1 .. Len(s)} = (0 .. n - 1) \ f

\* The positions from..from + Len(b) - 1, in order.
IsRun(b, from) == \A x \in 1 .. Len(b) : b[x] = from + x - 1

WorkerTypes ==
  /\ wpc \in [Queues -> {"poll", "fill", "report", "done"}]
  /\ seq \in [Queues -> Nat]
  /\ batch \in [Queues -> Seq(Nat)]
  /\ db \in [Queues -> Seq(Nat)]
  /\ failed \in [Queues -> SUBSET Nat]

\* The WriteBatch of a worker is the last of the requests it took.
WorkerInv(q) ==
  /\ wpc[q] = "fill" => Len(batch[q]) <= seq[q] /\ IsRun(batch[q], seq[q] - Len(batch[q]))
  /\ Accounts(db[q], failed[q], seq[q] - Held(q))

IndInv == WorkerTypes /\ \A q \in Queues : WorkerInv(q)

-----------------------------------------------------------------------------
(* What a write does to the account. *)

\* A write that succeeds.
LEMMA WriteAccounts ==
  ASSUME NEW s \in Seq(Nat), NEW f \in SUBSET Nat, NEW n \in Nat, NEW b \in Seq(Nat),
         Accounts(s, f, n), IsRun(b, n)
  PROVE  Accounts(s \o b, f, n + Len(b))
<1> DEFINE r == s \o b
           m == Len(s)
           k == Len(b)
<1>1. m \in Nat /\ k \in Nat /\ Len(r) = m + k
  BY ConcatProperties, LenProperties
<1>2. ASSUME NEW x \in 1 .. m PROVE r[x] = s[x] /\ r[x] \in 0 .. n - 1 /\ r[x] \notin f
  <2>1. r[x] = s[x]
    BY ConcatProperties
  <2> QED
    BY <2>1 DEF Accounts
<1>3. ASSUME NEW x \in m + 1 .. m + k PROVE r[x] = n + x - m - 1
  <2>1. x - m \in 1 .. k
    BY <1>1
  <2>2. r[x] = b[x - m]
    BY <1>1, ConcatProperties
  <2>3. b[x - m] = n + (x - m) - 1
    BY <2>1 DEF IsRun
  <2> QED
    BY <1>1, <2>2, <2>3
<1>4. f \subseteq 0 .. n - 1
  BY DEF Accounts
<1>5. \A x, y \in 1 .. m : x < y => r[x] < r[y]
  BY <1>2 DEF Accounts
<1>6. \A p \in (0 .. n - 1) \ f : \E x \in 1 .. m : r[x] = p
  BY <1>2 DEF Accounts
<1> HIDE DEF r, m, k
<1>7. ASSUME NEW x \in 1 .. m + k, NEW y \in 1 .. m + k, x < y PROVE r[x] < r[y]
  <2>1. CASE y <= m
    <3>1. x \in 1 .. m /\ y \in 1 .. m
      BY <1>1, <1>7, <2>1
    <3> QED
      BY <1>5, <1>7, <3>1
  <2>2. CASE x <= m /\ y > m
    <3>1. x \in 1 .. m /\ y \in m + 1 .. m + k
      BY <1>1, <2>2
    <3>2. r[x] \in 0 .. n - 1 /\ r[y] = n + y - m - 1
      BY <1>2, <1>3, <3>1
    <3> QED
      BY <1>1, <3>1, <3>2
  <2>3. CASE x > m
    <3>1. x \in m + 1 .. m + k /\ y \in m + 1 .. m + k
      BY <1>1, <1>7, <2>3
    <3>2. r[x] = n + x - m - 1 /\ r[y] = n + y - m - 1
      BY <1>3, <3>1
    <3> QED
      BY <1>1, <1>7, <3>1, <3>2
  <2> QED
    BY <1>1, <2>1, <2>2, <2>3
<1>8. ASSUME NEW x \in 1 .. m + k PROVE r[x] \in (0 .. n + k - 1) \ f
  <2>1. CASE x <= m
    <3>1. x \in 1 .. m
      BY <1>1, <2>1
    <3> QED
      BY <1>1, <1>2, <3>1
  <2>2. CASE x > m
    <3>1. x \in m + 1 .. m + k
      BY <1>1, <2>2
    <3>2. r[x] = n + x - m - 1
      BY <1>3, <3>1
    <3>3. r[x] \in n .. n + k - 1
      BY <1>1, <3>1, <3>2
    <3> QED
      BY <1>1, <1>4, <3>3
  <2> QED
    BY <1>1, <2>1, <2>2
<1>9. ASSUME NEW p \in (0 .. n + k - 1) \ f PROVE \E x \in 1 .. m + k : r[x] = p
  <2>1. CASE p < n
    <3>1. PICK x \in 1 .. m : r[x] = p
      BY <1>6, <2>1
    <3>2. x \in 1 .. m + k
      BY <1>1
    <3> QED
      BY <3>1, <3>2
  <2>2. CASE p >= n
    <3> DEFINE x == p - n + 1 + m
    <3>1. x \in m + 1 .. m + k /\ x \in 1 .. m + k /\ n + x - m - 1 = p
      BY <1>1, <2>2
    <3> HIDE DEF x
    <3>2. r[x] = p
      BY <1>3, <3>1
    <3> QED
      BY <3>1, <3>2
  <2> QED
    BY <1>1, <2>1, <2>2
<1>10. {r[x] : x \in 1 .. m + k} = (0 .. n + k - 1) \ f
  BY <1>8, <1>9
<1>11. f \subseteq 0 .. n + k - 1
  BY <1>1, <1>4
<1>12. Accounts(r, f, n + k)
  BY <1>1, <1>7, <1>10, <1>11 DEF Accounts
<1> QED
  BY <1>12 DEF r, k

\* A write that fails.
LEMMA FailureAccounts ==
  ASSUME NEW s \in Seq(Nat), NEW f \in SUBSET Nat, NEW n \in Nat, NEW b \in Seq(Nat),
         Accounts(s, f, n), IsRun(b, n)
  PROVE  Accounts(s, f \cup {b[x] : x \in 1 .. Len(b)}, n + Len(b))
<1> DEFINE k == Len(b)
           lost == {b[x] : x \in 1 .. k}
<1>1. k \in Nat
  BY LenProperties
<1>2. \A x \in 1 .. k : b[x] = n + x - 1
  BY DEF IsRun
<1> HIDE DEF k
<1>3. lost = n .. n + k - 1
  <2>1. ASSUME NEW p \in n .. n + k - 1 PROVE \E x \in 1 .. k : b[x] = p
    <3> DEFINE x == p - n + 1
    <3>1. x \in 1 .. k /\ n + x - 1 = p
      BY <1>1
    <3> HIDE DEF x
    <3> QED
      BY <1>2, <3>1
  <2>2. ASSUME NEW x \in 1 .. k PROVE b[x] \in n .. n + k - 1
    <3>1. b[x] = n + x - 1
      BY <1>2
    <3> QED
      BY <1>1, <3>1
  <2> QED
    BY <2>1, <2>2
<1> HIDE DEF lost
<1>4. f \subseteq 0 .. n - 1
  BY DEF Accounts
<1>5. f \cup lost \subseteq 0 .. n + k - 1
  BY <1>1, <1>3, <1>4
<1>6. (0 .. n + k - 1) \ (f \cup lost) = (0 .. n - 1) \ f
  BY <1>1, <1>3
<1>7. /\ \A x, y \in 1 .. Len(s) : x < y => s[x] < s[y]
      /\ {s[x] : x \in 1 .. Len(s)} = (0 .. n + k - 1) \ (f \cup lost)
  BY <1>6 DEF Accounts
<1> DEFINE g == f \cup lost
           l == n + k
<1>8. /\ g \subseteq 0 .. l - 1
      /\ \A x, y \in 1 .. Len(s) : x < y => s[x] < s[y]
      /\ {s[x] : x \in 1 .. Len(s)} = (0 .. l - 1) \ g
  BY <1>1, <1>5, <1>7
<1> HIDE DEF g, l
<1>9. Accounts(s, g, l)
  BY <1>8, Zenon DEF Accounts
<1> QED
  BY <1>9 DEF g, l, lost, k

-----------------------------------------------------------------------------
(* The workers. *)

\* A worker with the invariant, one by one.
LEMMA Types ==
  ASSUME IndInv, NEW q \in Queues
  PROVE  /\ seq[q] \in Nat /\ batch[q] \in Seq(Nat) /\ db[q] \in Seq(Nat)
         /\ failed[q] \in SUBSET Nat /\ Len(batch[q]) \in Nat
<1>1. seq[q] \in Nat /\ batch[q] \in Seq(Nat) /\ db[q] \in Seq(Nat) /\ failed[q] \in SUBSET Nat
  BY DEF IndInv, WorkerTypes
<1> QED
  BY <1>1, LenProperties

\* Other workers keep their invariant when only q's variables change.
LEMMA OthersKeep ==
  ASSUME IndInv, NEW q \in Queues, WorkerTypes', WorkerInv(q)', program' = program,
         \A r \in Queues \ {q} :
           /\ wpc'[r] = wpc[r] /\ seq'[r] = seq[r] /\ batch'[r] = batch[r]
           /\ db'[r] = db[r] /\ failed'[r] = failed[r]
  PROVE  IndInv'
<1>1. ASSUME NEW r \in Queues, r # q PROVE WorkerInv(r)'
  <2>1. WorkerInv(r)
    BY DEF IndInv
  <2>2. Held(r)' = Held(r)
    BY <1>1 DEF Held, Cursor
  <2> QED
    BY <1>1, <2>1, <2>2 DEF WorkerInv
<1> QED
  BY <1>1 DEF IndInv

\* The snapshot empties the batch, of which nothing is held any more.
LEMMA PollKeeps ==
  ASSUME IndInv, NEW q \in Queues, Poll(q)
  PROVE  IndInv'
<1>1. /\ wpc[q] = "poll" /\ wpc' = [wpc EXCEPT ![q] = "fill"]
      /\ batch' = [batch EXCEPT ![q] = <<>>]
      /\ seq' = seq /\ db' = db /\ failed' = failed /\ program' = program
  BY DEF Poll, mainVars
<1>2. WorkerTypes'
  BY <1>1 DEF IndInv, WorkerTypes
<1>3. /\ batch'[q] = <<>> /\ wpc'[q] = "fill" /\ Len(<<>>) = 0
  BY <1>1 DEF IndInv, WorkerTypes
<1>4. Held(q) = 0 /\ Held(q)' = 0
  BY <1>1, <1>3 DEF Held
<1>5. Accounts(db[q], failed[q], seq[q] - 0)
  BY <1>4 DEF IndInv, WorkerInv
<1>6. WorkerInv(q)'
  BY <1>1, <1>3, <1>4, <1>5, Types DEF WorkerInv, IsRun
<1>7. \A r \in Queues \ {q} : wpc'[r] = wpc[r] /\ batch'[r] = batch[r]
  BY <1>1 DEF IndInv, WorkerTypes
<1> QED
  BY <1>1, <1>2, <1>6, <1>7, OthersKeep

\* A write that hands over the run behind what is accounted for.
LEMMA WriteKeeps ==
  ASSUME IndInv, NEW q \in Queues, NEW n \in Nat, NEW b \in Seq(Nat),
         Accounts(db[q], failed[q], n), IsRun(b, n), Write(q, b)
  PROVE  /\ db' \in [Queues -> Seq(Nat)] /\ failed' \in [Queues -> SUBSET Nat]
         /\ Accounts(db'[q], failed'[q], n + Len(b))
         /\ \A r \in Queues \ {q} : db'[r] = db[r] /\ failed'[r] = failed[r]
<1>1. db \in [Queues -> Seq(Nat)] /\ failed \in [Queues -> SUBSET Nat]
  BY DEF IndInv, WorkerTypes
<1>2. db[q] \in Seq(Nat) /\ failed[q] \in SUBSET Nat
  BY <1>1
<1>3. CASE db' = [db EXCEPT ![q] = @ \o b] /\ UNCHANGED failed
  <2>1. db[q] \o b \in Seq(Nat) /\ Accounts(db[q] \o b, failed[q], n + Len(b))
    BY <1>2, ConcatProperties, WriteAccounts
  <2> QED
    BY <1>1, <1>3, <2>1
<1>4. CASE failed' = [failed EXCEPT ![q] = @ \cup {b[x] : x \in 1 .. Len(b)}] /\ UNCHANGED db
  <2> DEFINE lost == {b[x] : x \in 1 .. Len(b)}
  <2>1. \A x \in 1 .. Len(b) : b[x] \in Nat
    BY ElementOfSeq
  <2>2. failed[q] \cup lost \in SUBSET Nat
    BY <1>2, <2>1
  <2>3. Accounts(db[q], failed[q] \cup lost, n + Len(b))
    BY <1>2, FailureAccounts
  <2> HIDE DEF lost
  <2>4. failed' = [failed EXCEPT ![q] = failed[q] \cup lost]
    BY <1>4 DEF lost
  <2> QED
    BY <1>1, <1>4, <2>2, <2>3, <2>4
<1> QED
  BY <1>3, <1>4 DEF Write

\* A put goes behind the batch, or at once to the instance.
LEMMA PutKeeps ==
  ASSUME IndInv, NEW q \in Queues, Put(q)
  PROVE  IndInv'
<1> DEFINE b == Append(batch[q], seq[q])
<1>1. /\ wpc[q] = "fill" /\ wpc' = wpc /\ program' = program
      /\ batch' = [batch EXCEPT ![q] = b] /\ seq' = [seq EXCEPT ![q] = seq[q] + 1]
      /\ Cursor => Write(q, <<seq[q]>>)
      /\ ~Cursor => UNCHANGED <<db, failed>>
  BY DEF Put, InBatch, mainVars
<1>2. /\ Len(b) = Len(batch[q]) + 1 /\ b \in Seq(Nat)
      /\ \A x \in 1 .. Len(batch[q]) : b[x] = batch[q][x]
      /\ b[Len(batch[q]) + 1] = seq[q]
  BY Types, AppendProperties
<1> HIDE DEF b
<1>3. batch'[q] = b /\ seq'[q] = seq[q] + 1 /\ wpc'[q] = "fill"
  BY <1>1 DEF IndInv, WorkerTypes
<1>4. /\ Len(batch[q]) <= seq[q] /\ IsRun(batch[q], seq[q] - Len(batch[q]))
      /\ Accounts(db[q], failed[q], seq[q] - Held(q))
  BY <1>1 DEF IndInv, WorkerInv
<1>5. Len(b) <= seq[q] + 1 /\ IsRun(b, seq[q] + 1 - Len(b))
  <2>0. seq[q] \in Nat /\ Len(batch[q]) \in Nat /\ Len(b) = Len(batch[q]) + 1
    BY <1>2, Types
  <2>1. seq[q] + 1 - Len(b) = seq[q] - Len(batch[q])
    BY <2>0
  <2>2. ASSUME NEW x \in 1 .. Len(b) PROVE b[x] = seq[q] - Len(batch[q]) + x - 1
    <3>1. CASE x \in 1 .. Len(batch[q])
      BY <1>2, <1>4, <3>1 DEF IsRun
    <3>2. CASE x = Len(batch[q]) + 1
      <4>1. b[x] = seq[q]
        BY <1>2, <3>2
      <4> QED
        BY <2>0, <3>2, <4>1
    <3> QED
      BY <2>0, <3>1, <3>2
  <2>3. \A x \in 1 .. Len(b) : b[x] = seq[q] + 1 - Len(b) + x - 1
    BY <2>1, <2>2
  <2>4. Len(b) <= seq[q] + 1
    BY <1>4, <2>0
  <2> QED
    BY <2>3, <2>4, Zenon DEF IsRun
<1>6. Len(batch'[q]) <= seq'[q] /\ IsRun(batch'[q], seq'[q] - Len(batch'[q]))
  <2>1. /\ batch'[q] = b /\ seq'[q] = seq[q] + 1 /\ Len(batch'[q]) = Len(b)
        /\ seq[q] \in Nat /\ Len(b) \in Nat
    BY <1>2, <1>3, Types
  <2>2. Len(batch'[q]) <= seq'[q]
    BY <1>5, <2>1
  <2>3. seq'[q] - Len(batch'[q]) = seq[q] + 1 - Len(b)
    BY <2>1
  <2>4. IsRun(batch'[q], seq'[q] - Len(batch'[q]))
    BY <1>5, <2>1, <2>3
  <2> QED
    BY <2>2, <2>4
<1>7. seq' \in [Queues -> Nat] /\ batch' \in [Queues -> Seq(Nat)] /\ wpc' = wpc
  BY <1>1, <1>2, Types DEF IndInv, WorkerTypes
<1>8. CASE Cursor
  <2>1. Held(q) = 0 /\ Held(q)' = 0
    BY <1>1, <1>8 DEF Held, Cursor
  <2>2. Accounts(db[q], failed[q], seq[q])
    BY <1>4, <2>1, Types
  <2>3. /\ <<seq[q]>> \in Seq(Nat) /\ Len(<<seq[q]>>) = 1 /\ IsRun(<<seq[q]>>, seq[q])
    BY Types DEF IsRun
  <2>4. /\ db' \in [Queues -> Seq(Nat)] /\ failed' \in [Queues -> SUBSET Nat]
        /\ Accounts(db'[q], failed'[q], seq[q] + 1)
        /\ \A r \in Queues \ {q} : db'[r] = db[r] /\ failed'[r] = failed[r]
    BY <1>1, <1>8, <2>2, <2>3, Types, WriteKeeps
  <2>5. WorkerTypes'
    BY <1>7, <2>4 DEF IndInv, WorkerTypes
  <2>6. WorkerInv(q)'
    <3>1. seq'[q] - Held(q)' = seq[q] + 1
      BY <1>3, <2>1, Types
    <3>2. Accounts(db'[q], failed'[q], seq'[q] - Held(q)')
      BY <2>4, <3>1
    <3> QED
      BY <1>6, <3>2, Zenon DEF WorkerInv
  <2>7. \A r \in Queues \ {q} : wpc'[r] = wpc[r] /\ seq'[r] = seq[r] /\ batch'[r] = batch[r]
    BY <1>1 DEF IndInv, WorkerTypes
  <2> QED
    BY <1>1, <2>4, <2>5, <2>6, <2>7, OthersKeep
<1>9. CASE ~Cursor
  <2>1. Held(q) = Len(batch[q]) /\ Held(q)' = Len(b)
    BY <1>1, <1>3, <1>9 DEF Held, Cursor
  <2>2. seq[q] \in Nat /\ Len(batch[q]) \in Nat /\ Len(b) = Len(batch[q]) + 1
    BY <1>2, Types
  <2>3. WorkerInv(q)'
    <3>1. seq'[q] - Held(q)' = seq[q] - Held(q)
      <4>1. seq'[q] - Held(q)' = seq[q] + 1 - Len(b)
        BY <1>3, <2>1, <2>2
      <4>2. seq[q] - Held(q) = seq[q] - Len(batch[q])
        BY <2>1, <2>2
      <4>3. seq[q] + 1 - Len(b) = seq[q] - Len(batch[q])
        BY <2>2
      <4> QED
        BY <4>1, <4>2, <4>3
    <3>2. Accounts(db'[q], failed'[q], seq'[q] - Held(q)')
      BY <1>1, <1>4, <1>9, <3>1
    <3> QED
      BY <1>6, <3>2, Zenon DEF WorkerInv
  <2>4. WorkerTypes'
    BY <1>1, <1>7, <1>9 DEF IndInv, WorkerTypes
  <2>5. \A r \in Queues \ {q} : wpc'[r] = wpc[r] /\ seq'[r] = seq[r] /\ batch'[r] = batch[r]
    BY <1>1 DEF IndInv, WorkerTypes
  <2> QED
    BY <1>1, <1>9, <2>3, <2>4, <2>5, OthersKeep
<1> QED
  BY <1>8, <1>9

\* The batch is written as a whole, or was inserted before.
LEMMA EndBatchKeeps ==
  ASSUME IndInv, NEW q \in Queues, EndBatch(q)
  PROVE  IndInv'
<1>1. /\ wpc[q] = "fill" /\ program' = program /\ seq' = seq /\ batch' = batch
      /\ wpc' = [wpc EXCEPT ![q] = IF endflag[q] THEN "report" ELSE "poll"]
      /\ Cursor => UNCHANGED <<db, failed>>
      /\ ~Cursor => Write(q, batch[q])
  BY DEF EndBatch, mainVars
<1>2. /\ wpc' \in [Queues -> {"poll", "fill", "report", "done"}] /\ wpc'[q] # "fill"
      /\ \A r \in Queues \ {q} : wpc'[r] = wpc[r]
  BY <1>1 DEF IndInv, WorkerTypes
<1>3. /\ Len(batch[q]) <= seq[q] /\ IsRun(batch[q], seq[q] - Len(batch[q]))
      /\ Accounts(db[q], failed[q], seq[q] - Held(q))
  BY <1>1 DEF IndInv, WorkerInv
<1>4. Held(q)' = 0
  BY <1>2 DEF Held
<1>5. CASE Cursor
  <2>1. Held(q) = 0
    BY <1>5 DEF Held
  <2>2. WorkerInv(q)'
    <3>1. Accounts(db'[q], failed'[q], seq'[q] - Held(q)')
      BY <1>1, <1>3, <1>4, <1>5, <2>1
    <3> QED
      BY <1>2, <3>1, Zenon DEF WorkerInv
  <2>3. WorkerTypes'
    BY <1>1, <1>2, <1>5, Zenon DEF IndInv, WorkerTypes
  <2> QED
    BY <1>1, <1>2, <1>5, <2>2, <2>3, OthersKeep
<1>6. CASE ~Cursor
  <2> DEFINE n == seq[q] - Len(batch[q])
  <2>1. n \in Nat /\ n + Len(batch[q]) = seq[q]
    BY <1>3, Types
  <2>2. Accounts(db[q], failed[q], n) /\ IsRun(batch[q], n)
    BY <1>1, <1>3, <1>6 DEF Held
  <2> HIDE DEF n
  <2>3. /\ db' \in [Queues -> Seq(Nat)] /\ failed' \in [Queues -> SUBSET Nat]
        /\ Accounts(db'[q], failed'[q], seq[q])
        /\ \A r \in Queues \ {q} : db'[r] = db[r] /\ failed'[r] = failed[r]
    BY <1>1, <1>6, <2>1, <2>2, Types, WriteKeeps
  <2>4. WorkerInv(q)'
    <3>1. seq'[q] - Held(q)' = seq[q]
      BY <1>1, <1>4, Types
    <3>2. Accounts(db'[q], failed'[q], seq'[q] - Held(q)')
      BY <2>3, <3>1
    <3> QED
      BY <1>2, <3>2, Zenon DEF WorkerInv
  <2>5. WorkerTypes'
    BY <1>1, <1>2, <2>3, Zenon DEF IndInv, WorkerTypes
  <2> QED
    BY <1>1, <1>2, <2>3, <2>4, <2>5, OthersKeep
<1> QED
  BY <1>5, <1>6

\* The report writes nothing.
LEMMA ReportKeeps ==
  ASSUME IndInv, NEW q \in Queues, Report(q)
  PROVE  IndInv'
<1>1. /\ wpc[q] = "report" /\ program' = program /\ seq' = seq /\ batch' = batch
      /\ db' = db /\ failed' = failed
      /\ wpc' = [wpc EXCEPT ![q] = IF seq[q] = 0 THEN @ ELSE "done"]
  BY DEF Report, mainVars
<1>2. /\ wpc' \in [Queues -> {"poll", "fill", "report", "done"}] /\ wpc'[q] # "fill"
      /\ \A r \in Queues \ {q} : wpc'[r] = wpc[r]
  BY <1>1 DEF IndInv, WorkerTypes
<1>3. Held(q)' = 0 /\ Held(q) = 0
  BY <1>1, <1>2 DEF Held
<1>4. WorkerInv(q)'
  BY <1>1, <1>2, <1>3 DEF IndInv, WorkerInv
<1>5. WorkerTypes'
  BY <1>1, <1>2, Zenon DEF IndInv, WorkerTypes
<1> QED
  BY <1>1, <1>2, <1>4, <1>5, OthersKeep

\* Steps that leave the workers' puts alone: those of main, and the look at the
\* end mark.
LEMMA RestKeeps ==
  ASSUME IndInv, UNCHANGED <<program, wpc, seq, batch, db, failed>>
  PROVE  IndInv'
<1>1. WorkerTypes'
  BY Zenon DEF IndInv, WorkerTypes
<1>2. ASSUME NEW q \in Queues PROVE WorkerInv(q)'
  <2>1. WorkerInv(q) /\ Held(q)' = Held(q)
    BY DEF IndInv, Held, Cursor
  <2> QED
    BY <2>1 DEF WorkerInv
<1> QED
  BY <1>1, <1>2 DEF IndInv

\* Nothing is taken before the start.
LEMMA InitAccounts == Init => IndInv
<1> SUFFICES ASSUME Init PROVE IndInv
  OBVIOUS
<1>1. WorkerTypes
  BY DEF Init, WorkerTypes
<1>2. ASSUME NEW q \in Queues PROVE WorkerInv(q)
  <2>1. db[q] = <<>> /\ failed[q] = {} /\ seq[q] = 0 /\ wpc[q] = "poll" /\ Len(<<>>) = 0
    BY DEF Init
  <2>2. seq[q] - Held(q) = 0
    BY <2>1 DEF Held
  <2>3. Accounts(<<>>, {}, 0)
    BY DEF Accounts
  <2> QED
    BY <2>1, <2>2, <2>3 DEF WorkerInv
<1> QED
  BY <1>1, <1>2 DEF IndInv

\* The invariant is preserved by every step.
LEMMA Inductive == Spec => []IndInv
<1>1. Init => IndInv
  BY InitAccounts
<1>2. IndInv /\ [Next]_vars => IndInv'
  <2> SUFFICES ASSUME IndInv, [Next]_vars PROVE IndInv'
    OBVIOUS
  <2>1. CASE Main
    <3>1. UNCHANGED <<program, wpc, seq, batch, db, failed>>
      BY <2>1 DEF Main, Store, Publish, Mark, Join, workerVars
    <3> QED
      BY <3>1, RestKeeps
  <2>2. ASSUME NEW q \in Queues, Worker(q) PROVE IndInv'
    <3>1. CASE SeeEnd(q)
      <4>1. UNCHANGED <<program, wpc, seq, batch, db, failed>>
        BY <3>1 DEF SeeEnd, mainVars
      <4> QED
        BY <4>1, RestKeeps
    <3> QED
      BY <2>2, <3>1, PollKeeps, PutKeeps, EndBatchKeeps, ReportKeeps DEF Worker
  <2>3. CASE UNCHANGED vars
    <3>1. UNCHANGED <<program, wpc, seq, batch, db, failed>>
      BY <2>3 DEF vars, mainVars, workerVars
    <3> QED
      BY <3>1, RestKeeps
  <2> QED
    BY <2>1, <2>2, <2>3 DEF Next
<1> QED
  BY <1>1, <1>2, PTL DEF Spec

\* In every load program, however the snapshots of tail cut its queue and
\* whatever writes fail, an instance is handed the requests its worker has
\* taken in queue order and each of them once.
THEOREM LoadsInOrder == Spec => []WritesInOrder
<1>1. IndInv => WritesInOrder
  BY DEF IndInv, WorkerInv, Accounts, WritesInOrder
<1> QED
  BY <1>1, Inductive, PTL

-----------------------------------------------------------------------------
(* The queues. *)

\* Requests published to queue q; the end mark comes behind them.
Requests(q) == IF q < j THEN tail[q] - 1 ELSE tail[q]

MainTypes ==
  /\ values_ \in [Keys -> Keys]
  /\ \A m, n \in Keys : values_[m] = values_[n] => m = n
  /\ i \in 0 .. TOTAL_NUM /\ j \in 0 .. QUEUE_NUM
  /\ tail \in [Queues -> Nat]
  /\ qs \in [Queues -> [Positions -> [seq : Int, key : Int]]]
  /\ CASE pc \in {"store", "publish"} -> i < TOTAL_NUM /\ j = 0
       [] pc = "mark" -> i = TOTAL_NUM /\ j < QUEUE_NUM
       [] pc \in {"join", "done"} -> i = TOTAL_NUM /\ j = QUEUE_NUM
       [] OTHER -> FALSE

\* The first n slots of a row are the requests, of the first m with the keys v,
\* that are routed to q, each once.
Holds(row, n, m, v, q) ==
  /\ \A p \in 0 .. n - 1 :
       /\ row[p].seq \in 0 .. m - 1
       /\ row[p].key = v[row[p].seq]
       /\ Route(row[p].key) = q
  /\ \A p, r \in 0 .. n - 1 : row[p].seq = row[r].seq => p = r
  /\ \A s \in 0 .. m - 1 : Route(v[s]) = q => \E p \in 0 .. n - 1 : row[p].seq = s

\* Queue q holds the requests issued so far that are routed to it, and then its
\* end mark.
RowInv(q) ==
  /\ q < j => tail[q] > 0 /\ qs[q][tail[q] - 1].seq = -1
  /\ Holds(qs[q], Requests(q), i, values_, q)
  /\ pc = "publish" /\ Route(values_[i]) = q =>
       qs[q][tail[q]] = [seq |-> i, key |-> values_[i]]

\* A worker stops at the end mark.
TakenInv(q) ==
  /\ t[q] \in Nat /\ t[q] <= tail[q] /\ endflag[q] \in BOOLEAN
  /\ seq[q] <= Requests(q)
  /\ endflag[q] => q < j /\ seq[q] = Requests(q)
  /\ wpc[q] \in {"report", "done"} => endflag[q]

LoadInv ==
  /\ MainTypes
  /\ t \in [Queues -> Nat] /\ endflag \in [Queues -> BOOLEAN]
  /\ \A q \in Queues : RowInv(q) /\ TakenInv(q)

-----------------------------------------------------------------------------
(* How many keys a queue can get. *)

\* What the assumptions on the constants say, in the form the provers need.
LEMMA ConstantFacts ==
  /\ QUEUE_NUM \in Nat /\ QUEUE_NUM > 0
  /\ TOTAL_NUM \in Nat /\ TOTAL_NUM > 0
BY ConstantsAssumption

\* Division with a remainder.
LEMMA Division ==
  ASSUME NEW a \in Nat, NEW b \in Nat, b > 0
  PROVE  /\ a \div b \in Nat /\ a % b \in 0 .. b - 1
         /\ a = b * (a \div b) + (a % b)
<1>1. a \div b \in Nat
  OBVIOUS
<1>2. a % b \in 0 .. b - 1
  OBVIOUS
<1>3. a = b * (a \div b) + (a % b)
  OBVIOUS
<1> QED
  BY <1>1, <1>2, <1>3

\* Division is monotonic.
LEMMA DivisionOrder ==
  ASSUME NEW a \in Nat, NEW b \in Nat, b > 0, NEW c \in Nat, a <= c
  PROVE  a \div b <= c \div b
<1> PICK x \in Nat, y \in Nat : x = a \div b /\ y = c \div b
  BY Division
<1> PICK r \in 0 .. b - 1, s \in 0 .. b - 1 : r = a % b /\ s = c % b
  BY Division
<1>1. a = b * x + r /\ c = b * y + s
  BY Division
<1>2. SUFFICES ASSUME y < x PROVE FALSE
  OBVIOUS
<1>3. PICK d \in Nat : x = y + 1 + d
  <2>1. x - y - 1 \in Nat /\ x = y + 1 + (x - y - 1)
    BY <1>2
  <2> QED
    BY <2>1
<1>4. b * x = b * y + b + b * d /\ b * d \in Nat /\ b * y \in Nat
  BY <1>3
<1> QED
  BY <1>1, <1>4

\* The most keys that are routed to one queue.
MaxKeys == (TOTAL_NUM - 1) \div QUEUE_NUM + 1

\* Distinct keys that are routed to one queue have distinct quotients.
LEMMA KeysOfQueue ==
  ASSUME NEW n \in Nat, NEW q \in Queues, NEW f \in [0 .. n - 1 -> Keys],
         \A p, r \in 0 .. n - 1 : f[p] = f[r] => p = r,
         \A p \in 0 .. n - 1 : Route(f[p]) = q
  PROVE  n <= MaxKeys
<1> DEFINE m == (TOTAL_NUM - 1) \div QUEUE_NUM
           g == [p \in 0 .. n - 1 |-> f[p] \div QUEUE_NUM]
<1>1. m \in Nat
  BY ConstantFacts, Division
<1>2. ASSUME NEW p \in 0 .. n - 1
      PROVE  /\ f[p] \div QUEUE_NUM \in 0 .. m
             /\ f[p] = QUEUE_NUM * (f[p] \div QUEUE_NUM) + q
  <2>1. f[p] \in Nat /\ f[p] <= TOTAL_NUM - 1 /\ TOTAL_NUM - 1 \in Nat
    BY ConstantFacts DEF Keys
  <2>2. f[p] \div QUEUE_NUM \in Nat /\ f[p] \div QUEUE_NUM <= m
    BY <2>1, ConstantFacts, Division, DivisionOrder
  <2>3. f[p] = QUEUE_NUM * (f[p] \div QUEUE_NUM) + q
    <3>1. f[p] = QUEUE_NUM * (f[p] \div QUEUE_NUM) + (f[p] % QUEUE_NUM)
      BY <2>1, ConstantFacts, Division, Zenon
    <3>2. f[p] % QUEUE_NUM = q
      BY Zenon DEF Route
    <3> QED
      BY <3>1, <3>2, Zenon
  <2> QED
    BY <1>1, <2>2, <2>3
<1> HIDE DEF m
<1>3. g \in [0 .. n - 1 -> 0 .. m]
  BY <1>2
<1>4. ASSUME NEW p \in 0 .. n - 1, NEW r \in 0 .. n - 1, g[p] = g[r] PROVE p = r
  <2>1. f[p] \div QUEUE_NUM = f[r] \div QUEUE_NUM
    BY <1>4
  <2>2. /\ f[p] = QUEUE_NUM * (f[p] \div QUEUE_NUM) + q
        /\ f[r] = QUEUE_NUM * (f[r] \div QUEUE_NUM) + q
    BY <1>2, Zenon
  <2>3. f[p] = f[r]
    BY <2>1, <2>2, Zenon
  <2> QED
    BY <2>3, Zenon
<1> HIDE DEF g
<1>5. g \in Injection(0 .. n - 1, 0 .. m)
  BY <1>3, <1>4 DEF Injection, IsInjective
<1>6. /\ IsFiniteSet(0 .. m) /\ Cardinality(0 .. m) = m + 1
      /\ Cardinality(0 .. n - 1) = n
  <2>1. 0 \in Int /\ m \in Int /\ n - 1 \in Int
    BY <1>1
  <2>2. /\ IsFiniteSet(0 .. m) /\ Cardinality(0 .. m) = IF 0 > m THEN 0 ELSE m - 0 + 1
        /\ Cardinality(0 .. n - 1) = IF 0 > n - 1 THEN 0 ELSE n - 1 - 0 + 1
    BY <2>1, FS_Interval
  <2> QED
    BY <1>1, <2>2
<1>7. Cardinality(0 .. n - 1) <= Cardinality(0 .. m)
  BY <1>5, <1>6, FS_Injection
<1> QED
  BY <1>6, <1>7 DEF MaxKeys, m

\* A row has room for them and the end mark.
LEMMA Room ==
  /\ MaxKeys \in Nat /\ QUEUE_LEN \in Nat /\ MaxKeys <= QUEUE_LEN - 1
  /\ TOTAL_NUM % QUEUE_NUM = 0 => MaxKeys = TOTAL_NUM \div QUEUE_NUM
<1> PICK a \in Nat, b \in Nat, c \in Nat :
      a = TOTAL_NUM \div QUEUE_NUM /\ b = (TOTAL_NUM - 1) \div QUEUE_NUM /\ c = TOTAL_NUM \div 10
  <2>1. TOTAL_NUM - 1 \in Nat
    BY ConstantFacts
  <2> QED
    BY <2>1, ConstantFacts, Division
<1>1. MaxKeys = b + 1 /\ QUEUE_LEN = a + c + 1
  BY DEF MaxKeys, QUEUE_LEN, EXPAND_QUEUE_SIZE
<1>2. b <= a
  BY ConstantFacts, DivisionOrder
<1>3. ASSUME TOTAL_NUM % QUEUE_NUM = 0 PROVE a = b + 1
  <2>1. TOTAL_NUM = QUEUE_NUM * a
    BY <1>3, ConstantFacts, Division
  <2>2. PICK r \in 0 .. QUEUE_NUM - 1 : TOTAL_NUM - 1 = QUEUE_NUM * b + r
    BY ConstantFacts, Division
  <2>3. PICK d \in Nat : a = b + d
    <3>1. a - b \in Nat /\ a = b + (a - b)
      BY <1>2
    <3> QED
      BY <3>1
  <2>4. QUEUE_NUM * a = QUEUE_NUM * b + QUEUE_NUM * d
    BY <2>3, ConstantFacts
  <2>5. QUEUE_NUM * d = r + 1
    <3>1. QUEUE_NUM * a \in Nat /\ QUEUE_NUM * b \in Nat /\ QUEUE_NUM * d \in Nat
      BY ConstantFacts
    <3> QED
      BY <2>1, <2>2, <2>4, <3>1
  <2>6. d # 0
    BY <2>5, ConstantFacts
  <2>7. ASSUME d >= 2 PROVE FALSE
    <3>1. PICK e \in Nat : d = 2 + e
      <4>1. d - 2 \in Nat /\ d = 2 + (d - 2)
        BY <2>7
      <4> QED
        BY <4>1
    <3>2. QUEUE_NUM * d = QUEUE_NUM + QUEUE_NUM + QUEUE_NUM * e /\ QUEUE_NUM * e \in Nat
      BY <3>1, ConstantFacts
    <3> QED
      BY <2>5, <3>2, ConstantFacts
  <2> QED
    BY <2>3, <2>6, <2>7
<1>4. ASSUME TOTAL_NUM >= 10 PROVE c >= 1
  <2>1. 10 \div 10 <= c
    BY <1>4, ConstantFacts, DivisionOrder
  <2> QED
    BY <2>1
<1> QED
  BY <1>1, <1>2, <1>3, <1>4, CapacityAssumption

-----------------------------------------------------------------------------
(* The main thread fills the queues. *)

\* The requests of a queue leave room for one more slot.
LEMMA RowFits ==
  ASSUME MainTypes, NEW q \in Queues, RowInv(q)
  PROVE  /\ tail[q] \in Nat /\ Requests(q) \in Nat /\ Requests(q) <= MaxKeys
         /\ Requests(q) \in Positions
<1> PICK n : n = Requests(q)
  OBVIOUS
<1>1. tail[q] \in Nat /\ n \in Nat
  <2>1. tail[q] \in Nat
    BY DEF MainTypes
  <2> QED
    BY <2>1 DEF RowInv, Requests
<1> DEFINE f == [p \in 0 .. n - 1 |-> qs[q][p].key]
<1>2. ASSUME NEW p \in 0 .. n - 1
      PROVE  /\ qs[q][p].seq \in Keys /\ qs[q][p].key = values_[qs[q][p].seq]
             /\ qs[q][p].key \in Keys /\ Route(qs[q][p].key) = q
  <2>1. /\ qs[q][p].seq \in 0 .. i - 1 /\ qs[q][p].key = values_[qs[q][p].seq]
        /\ Route(qs[q][p].key) = q
    BY DEF RowInv, Holds
  <2>2. i \in 0 .. TOTAL_NUM /\ values_ \in [Keys -> Keys]
    BY DEF MainTypes
  <2>3. qs[q][p].seq \in Keys
    <3>1. PICK s \in 0 .. i - 1 : s = qs[q][p].seq
      BY <2>1
    <3>2. s \in Keys
      BY <2>2, ConstantFacts DEF Keys
    <3> QED
      BY <3>1, <3>2
  <2> QED
    BY <2>1, <2>2, <2>3
<1>3. ASSUME NEW p \in 0 .. n - 1, NEW r \in 0 .. n - 1, qs[q][p].key = qs[q][r].key PROVE p = r
  <2>1. qs[q][p].seq = qs[q][r].seq
    BY <1>2, <1>3 DEF MainTypes
  <2> QED
    BY <2>1 DEF RowInv, Holds
<1>4. /\ f \in [0 .. n - 1 -> Keys]
      /\ \A p, r \in 0 .. n - 1 : f[p] = f[r] => p = r
      /\ \A p \in 0 .. n - 1 : Route(f[p]) = q
  BY <1>2, <1>3
<1> HIDE DEF f
<1>5. n <= MaxKeys
  BY <1>1, <1>4, KeysOfQueue
<1> QED
  BY <1>1, <1>5, Room DEF Positions

\* Only the slots of the requests matter.
LEMMA HoldsSame ==
  ASSUME NEW row, NEW new, NEW n, NEW m, NEW v, NEW q, Holds(row, n, m, v, q),
         \A p \in 0 .. n - 1 : new[p] = row[p]
  PROVE  Holds(new, n, m, v, q)
<1>1. \A p \in 0 .. n - 1 :
        new[p].seq \in 0 .. m - 1 /\ new[p].key = v[new[p].seq] /\ Route(new[p].key) = q
  BY Zenon DEF Holds
<1>2. \A p, r \in 0 .. n - 1 : new[p].seq = new[r].seq => p = r
  BY Zenon DEF Holds
<1>3. \A s \in 0 .. m - 1 : Route(v[s]) = q => \E p \in 0 .. n - 1 : new[p].seq = s
  BY Zenon DEF Holds
<1> QED
  BY <1>1, <1>2, <1>3, Zenon DEF Holds

\* The next request is routed to q and in the next slot.
LEMMA HoldsNext ==
  ASSUME NEW row, NEW n \in Nat, NEW m \in Nat, NEW v, NEW q, Holds(row, n, m, v, q),
         row[n].seq = m, row[n].key = v[m], Route(v[m]) = q
  PROVE  Holds(row, n + 1, m + 1, v, q)
<1>1. /\ 0 .. (n + 1) - 1 = (0 .. n - 1) \cup {n} /\ n \notin 0 .. n - 1
      /\ 0 .. (m + 1) - 1 = (0 .. m - 1) \cup {m} /\ m \notin 0 .. m - 1
  OBVIOUS
<1> PICK a, b : a = 0 .. n - 1 /\ b = 0 .. m - 1
  OBVIOUS
<1>2. /\ \A p \in a : row[p].seq \in b /\ row[p].key = v[row[p].seq] /\ Route(row[p].key) = q
      /\ \A p, r \in a : row[p].seq = row[r].seq => p = r
      /\ \A s \in b : Route(v[s]) = q => \E p \in a : row[p].seq = s
      /\ n \notin a /\ m \notin b
  BY <1>1, Zenon DEF Holds
<1>3. \A p \in a \cup {n} :
        row[p].seq \in b \cup {m} /\ row[p].key = v[row[p].seq] /\ Route(row[p].key) = q
  BY <1>2
<1>4. \A p, r \in a \cup {n} : row[p].seq = row[r].seq => p = r
  BY <1>2
<1>5. ASSUME NEW s \in b \cup {m}, Route(v[s]) = q PROVE \E p \in a \cup {n} : row[p].seq = s
  <2>1. CASE s = m
    BY <2>1
  <2>2. CASE s \in b
    <3>1. PICK p \in a : row[p].seq = s
      BY <1>2, <1>5, <2>2
    <3> QED
      BY <3>1
  <2> QED
    BY <2>1, <2>2
<1>6. a \cup {n} = 0 .. (n + 1) - 1 /\ b \cup {m} = 0 .. (m + 1) - 1
  BY <1>1
<1> QED
  BY <1>3, <1>4, <1>5, <1>6, Zenon DEF Holds

\* The next request is routed elsewhere.
LEMMA HoldsOther ==
  ASSUME NEW row, NEW n, NEW m \in Nat, NEW v, NEW q, Holds(row, n, m, v, q), Route(v[m]) # q
  PROVE  Holds(row, n, m + 1, v, q)
<1>1. 0 .. (m + 1) - 1 = (0 .. m - 1) \cup {m}
  OBVIOUS
<1> PICK b, c : b = 0 .. m - 1 /\ c = 0 .. (m + 1) - 1
  OBVIOUS
<1>2. /\ \A p \in 0 .. n - 1 : row[p].seq \in b /\ row[p].key = v[row[p].seq] /\ Route(row[p].key) = q
      /\ \A s \in b : Route(v[s]) = q => \E p \in 0 .. n - 1 : row[p].seq = s
      /\ c = b \cup {m}
  BY <1>1, Zenon DEF Holds
<1>3. \A p \in 0 .. n - 1 : row[p].seq \in c /\ row[p].key = v[row[p].seq] /\ Route(row[p].key) = q
  BY <1>2, Zenon
<1>4. \A s \in c : Route(v[s]) = q => \E p \in 0 .. n - 1 : row[p].seq = s
  BY <1>2, Zenon
<1> QED
  BY <1>3, <1>4, Zenon DEF Holds

\* The rows that a step of main leaves alone.
LEMMA RowKept ==
  ASSUME NEW r \in Queues, RowInv(r), UNCHANGED <<i, values_>>, tail'[r] = tail[r],
         Requests(r)' = Requests(r), r < j' <=> r < j,
         \A p \in 0 .. tail[r] - 1 : qs'[r][p] = qs[r][p], tail[r] \in Nat,
         pc' = "publish" /\ Route(values_[i]) = r =>
           qs'[r][tail[r]] = [seq |-> i, key |-> values_[i]]
  PROVE  RowInv(r)'
<1>1. Requests(r) \in Int /\ Requests(r) <= tail[r]
  BY DEF Requests
<1>2. \A p \in 0 .. Requests(r) - 1 : qs'[r][p] = qs[r][p]
  BY <1>1
<1>3. r < j => tail'[r] > 0 /\ qs'[r][tail'[r] - 1].seq = -1
  BY DEF RowInv
<1>4. Holds(qs'[r], Requests(r), i, values_, r)
  BY <1>2, HoldsSame, Zenon DEF RowInv
<1> QED
  BY <1>3, <1>4 DEF RowInv

\* The stores of a request.
LEMMA StoreRows ==
  ASSUME MainTypes, \A q \in Queues : RowInv(q), Store
  PROVE  MainTypes' /\ \A q \in Queues : RowInv(q)'
<1> PICK k : k = values_[i]
  OBVIOUS
<1> PICK q : q = Route(k)
  OBVIOUS
<1>1. /\ pc = "store" /\ pc' = "publish" /\ UNCHANGED <<i, j, tail, values_>>
      /\ qs' = [qs EXCEPT ![q][tail[q]] = [seq |-> i, key |-> k]]
  BY DEF Store
<1>2. i \in Keys /\ j = 0 /\ k \in Keys /\ q \in Queues
  <2>1. i \in Keys /\ j = 0 /\ k \in Keys
    BY <1>1, ConstantFacts DEF MainTypes, Keys
  <2> QED
    BY <2>1, ConstantFacts, Division DEF Route, Queues, Keys
<1>3. tail[q] \in Positions /\ Requests(q) = tail[q]
  <2>1. ~(q < j)
    BY <1>2 DEF Queues
  <2> QED
    BY <1>2, <2>1, RowFits DEF Requests
<1>4. qs \in [Queues -> [Positions -> [seq : Int, key : Int]]]
  BY DEF MainTypes
<1>5. qs' \in [Queues -> [Positions -> [seq : Int, key : Int]]]
  <2>1. [seq |-> i, key |-> k] \in [seq : Int, key : Int]
    BY <1>2 DEF Keys
  <2> QED
    BY <1>1, <1>2, <1>3, <1>4, <2>1
<1>6. MainTypes'
  BY <1>1, <1>5 DEF MainTypes
<1>7. qs'[q][tail[q]] = [seq |-> i, key |-> k]
  BY <1>1, <1>2, <1>3, <1>4
<1>8. ASSUME NEW r \in Queues PROVE RowInv(r)'
  <2>1. tail[r] \in Nat
    BY DEF MainTypes
  <2>2. ASSUME NEW p \in 0 .. tail[r] - 1 PROVE qs'[r][p] = qs[r][p]
    <3>1. r = q => p # tail[q]
      BY <2>1
    <3> QED
      BY <1>1, <1>2, <1>4, <3>1
  <2>3. Requests(r)' = Requests(r)
    BY <1>1 DEF Requests
  <2>4. Route(values_[i]) = r => qs'[r][tail[r]] = [seq |-> i, key |-> values_[i]]
    BY <1>7
  <2> QED
    BY <1>1, <2>1, <2>2, <2>3, <2>4, RowKept
<1> QED
  BY <1>6, <1>8

\* The request is published.
LEMMA PublishRows ==
  ASSUME MainTypes, \A q \in Queues : RowInv(q), Publish
  PROVE  /\ MainTypes' /\ \A q \in Queues : RowInv(q)'
         /\ j = 0 /\ j' = 0 /\ \A q \in Queues : tail'[q] >= tail[q]
<1> PICK k : k = values_[i]
  OBVIOUS
<1> PICK q : q = Route(k)
  OBVIOUS
<1>1. /\ pc = "publish" /\ pc' = (IF i + 1 < TOTAL_NUM THEN "store" ELSE "mark")
      /\ UNCHANGED <<j, qs, values_>> /\ i' = i + 1
      /\ tail' = [tail EXCEPT ![q] = @ + 1]
  BY DEF Publish
<1>2. i \in Keys /\ j = 0 /\ k \in Keys /\ q \in Queues
  <2>1. i \in Keys /\ j = 0 /\ k \in Keys
    BY <1>1, ConstantFacts DEF MainTypes, Keys
  <2> QED
    BY <2>1, ConstantFacts, Division DEF Route, Queues, Keys
<1>3. i + 1 <= TOTAL_NUM /\ i \in Nat /\ j < QUEUE_NUM /\ tail \in [Queues -> Nat]
  BY <1>2, ConstantFacts DEF MainTypes, Keys
<1>4. MainTypes'
  <2>1. tail' \in [Queues -> Nat] /\ i' \in 0 .. TOTAL_NUM
    BY <1>1, <1>2, <1>3, ConstantFacts
  <2>2. CASE i + 1 < TOTAL_NUM
    BY <1>1, <1>2, <2>1, <2>2 DEF MainTypes
  <2>3. CASE ~(i + 1 < TOTAL_NUM)
    <3>1. i' = TOTAL_NUM /\ pc' = "mark" /\ j' < QUEUE_NUM
      BY <1>1, <1>3, <2>3, ConstantFacts
    <3> QED
      BY <1>1, <2>1, <3>1 DEF MainTypes
  <2> QED
    BY <2>2, <2>3
<1>5. ASSUME NEW r \in Queues PROVE /\ ~(r < j) /\ ~(r < j') /\ Requests(r) = tail[r]
                                    /\ Requests(r)' = tail'[r] /\ tail[r] \in Nat
  BY <1>1, <1>2, <1>3 DEF Queues, Requests
<1>6. qs[q][tail[q]] = [seq |-> i, key |-> k] /\ tail'[q] = tail[q] + 1
  BY <1>1, <1>2, <1>3 DEF RowInv
<1>7. ASSUME NEW r \in Queues PROVE RowInv(r)'
  <2>1. Holds(qs[r], tail[r], i, values_, r) /\ tail[r] \in Nat /\ i \in Nat
    BY <1>3, <1>5 DEF RowInv
  <2>2. Holds(qs[r], tail'[r], i + 1, values_, r)
    <3>1. CASE r # q
      <4>1. tail'[r] = tail[r] /\ Route(values_[i]) # r
        BY <1>1, <1>2, <1>3, <3>1
      <4> QED
        BY <2>1, <4>1, HoldsOther
    <3>2. CASE r = q
      <4>1. qs[r][tail[r]].seq = i /\ qs[r][tail[r]].key = values_[i] /\ Route(values_[i]) = r
        BY <1>6, <3>2
      <4>2. Holds(qs[r], tail[r] + 1, i + 1, values_, r)
        BY <2>1, <4>1, HoldsNext, Zenon
      <4> QED
        BY <1>6, <3>2, <4>2
    <3> QED
      BY <3>1, <3>2
  <2>3. Holds(qs'[r], Requests(r)', i', values_', r)
    BY <1>1, <1>5, <2>2
  <2>4. ~(r < j') /\ pc' # "publish"
    BY <1>1, <1>5
  <2> QED
    BY <2>3, <2>4, Zenon DEF RowInv
<1>8. \A r \in Queues : tail'[r] >= tail[r]
  BY <1>1, <1>2, <1>3
<1> QED
  BY <1>1, <1>2, <1>4, <1>7, <1>8

\* The end mark of a queue.
LEMMA MarkRows ==
  ASSUME MainTypes, \A q \in Queues : RowInv(q), Mark
  PROVE  /\ MainTypes' /\ \A q \in Queues : RowInv(q)'
         /\ j \in Nat /\ j' = j + 1
         /\ \A q \in Queues : Requests(q)' = Requests(q) /\ tail'[q] >= tail[q]
<1>1. /\ pc = "mark" /\ pc' = (IF j + 1 < QUEUE_NUM THEN "mark" ELSE "join")
      /\ UNCHANGED <<i, values_>> /\ j' = j + 1
      /\ qs' = [qs EXCEPT ![j][tail[j]] = EndMark] /\ tail' = [tail EXCEPT ![j] = @ + 1]
  BY DEF Mark
<1>2. /\ j \in Queues /\ j \in Nat /\ i = TOTAL_NUM /\ tail \in [Queues -> Nat]
      /\ qs \in [Queues -> [Positions -> [seq : Int, key : Int]]]
  BY <1>1, ConstantFacts DEF MainTypes, Queues
<1>3. tail[j] \in Positions /\ tail[j] \in Nat
  <2>1. Requests(j) = tail[j]
    BY <1>2 DEF Requests
  <2> QED
    BY <1>2, <2>1, RowFits
<1>4. MainTypes'
  <2>1. tail' \in [Queues -> Nat] /\ j' \in 0 .. QUEUE_NUM
    BY <1>1, <1>2, ConstantFacts DEF Queues
  <2>2. qs' \in [Queues -> [Positions -> [seq : Int, key : Int]]]
    <3>1. EndMark \in [seq : Int, key : Int]
      BY DEF EndMark
    <3> QED
      BY <1>1, <1>2, <1>3, <3>1
  <2>3. CASE j + 1 < QUEUE_NUM
    BY <1>1, <1>2, <2>1, <2>2, <2>3 DEF MainTypes
  <2>4. CASE ~(j + 1 < QUEUE_NUM)
    <3>1. j' = QUEUE_NUM /\ pc' = "join"
      BY <1>1, <1>2, <2>4, ConstantFacts DEF Queues
    <3> QED
      BY <1>1, <1>2, <2>1, <2>2, <3>1 DEF MainTypes
  <2> QED
    BY <2>3, <2>4
<1>5. ASSUME NEW r \in Queues
      PROVE  /\ tail[r] \in Nat /\ Requests(r)' = Requests(r) /\ tail'[r] >= tail[r]
             /\ Requests(r) \in Nat /\ Requests(r) <= tail[r]
             /\ r = j => Requests(r) = tail[r] /\ tail'[r] = tail[r] + 1
             /\ r # j => tail'[r] = tail[r] /\ (r < j' <=> r < j)
  <2>1. tail[r] \in Nat /\ r \in Int /\ Requests(r) \in Nat
    BY <1>2, RowFits DEF Queues
  <2>2. CASE r = j
    <3>1. tail'[r] = tail[r] + 1 /\ r < j' /\ ~(r < j)
      BY <1>1, <1>2, <2>2
    <3> QED
      BY <2>1, <2>2, <3>1 DEF Requests
  <2>3. CASE r # j
    <3>1. tail'[r] = tail[r] /\ (r < j' <=> r < j)
      BY <1>1, <1>2, <2>1, <2>3
    <3> QED
      BY <2>1, <2>3, <3>1 DEF Requests
  <2> QED
    BY <2>2, <2>3
<1>6. ASSUME NEW r \in Queues, NEW p \in 0 .. tail[r] - 1 PROVE qs'[r][p] = qs[r][p]
  <2>1. r = j => p # tail[j]
    BY <1>5
  <2> QED
    BY <1>1, <1>2, <2>1
<1>7. ASSUME NEW r \in Queues PROVE RowInv(r)'
  <2>1. CASE r # j
    BY <1>1, <1>5, <1>6, <2>1, RowKept
  <2>2. CASE r = j
    <3>1. qs'[r][tail[r]] = EndMark
      BY <1>1, <1>2, <1>3, <2>2
    <3>2. tail'[r] > 0 /\ tail'[r] - 1 = tail[r]
      BY <1>5, <2>2
    <3>3. tail'[r] > 0 /\ qs'[r][tail'[r] - 1].seq = -1
      BY <3>1, <3>2 DEF EndMark
    <3>4. \A p \in 0 .. Requests(r) - 1 : qs'[r][p] = qs[r][p]
      BY <1>5, <1>6, <2>2
    <3>5. Requests(r)' = Requests(r) /\ i' = i /\ values_' = values_ /\ pc' # "publish"
      BY <1>1, <1>5
    <3>6. Holds(qs'[r], Requests(r), i, values_, r)
      BY <3>4, HoldsSame, Zenon DEF RowInv
    <3> QED
      BY <3>3, <3>5, <3>6 DEF RowInv
  <2> QED
    BY <2>1, <2>2
<1> QED
  BY <1>1, <1>2, <1>4, <1>5, <1>7

-----------------------------------------------------------------------------
(* The workers empty them. *)

\* No request is issued before the start.
LEMMA InitLoad == Init => LoadInv
<1> SUFFICES ASSUME Init PROVE LoadInv
  OBVIOUS
<1>1. /\ pc = "store" /\ i = 0 /\ j = 0 /\ tail = [q \in Queues |-> 0]
      /\ qs = [q \in Queues |-> [p \in Positions |-> EndMark]]
      /\ wpc = [q \in Queues |-> "poll"] /\ seq = [q \in Queues |-> 0]
      /\ t = [q \in Queues |-> 0] /\ endflag = [q \in Queues |-> FALSE]
  BY DEF Init
<1>2. values_ \in [Keys -> Keys] /\ \A m, n \in Keys : values_[m] = values_[n] => m = n
  <2>1. CASE values_ \in Shuffles
    BY <2>1, ShufflesAssumption
  <2>2. CASE values_ = [m \in Keys |-> m]
    BY <2>2
  <2> QED
    BY <2>1, <2>2 DEF Init, KeyOrders
<1>3. MainTypes
  <2>1. EndMark \in [seq : Int, key : Int]
    BY DEF EndMark
  <2>2. qs \in [Queues -> [Positions -> [seq : Int, key : Int]]]
    BY <1>1, <2>1
  <2>3. tail \in [Queues -> Nat]
    BY <1>1
  <2> QED
    BY <1>1, <1>2, <2>2, <2>3, ConstantFacts DEF MainTypes
<1>4. ASSUME NEW q \in Queues PROVE RowInv(q) /\ TakenInv(q)
  <2>1. ~(q < j) /\ tail[q] = 0 /\ Requests(q) = 0
    BY <1>1 DEF Queues, Requests
  <2>2. Holds(qs[q], 0, 0, values_, q)
    BY DEF Holds
  <2>3. RowInv(q)
    BY <1>1, <2>1, <2>2 DEF RowInv
  <2>4. TakenInv(q)
    BY <1>1, <2>1 DEF TakenInv
  <2> QED
    BY <2>3, <2>4
<1>5. t \in [Queues -> Nat] /\ endflag \in [Queues -> BOOLEAN]
  BY <1>1
<1> QED
  BY <1>3, <1>4, <1>5 DEF LoadInv

\* Steps of main only publish more.
LEMMA MainLoad ==
  ASSUME IndInv, LoadInv, Main
  PROVE  LoadInv'
<1>1. UNCHANGED <<wpc, seq, t, endflag>>
  BY DEF Main, Store, Publish, Mark, Join, workerVars
<1>2. MainTypes /\ \A q \in Queues : RowInv(q) /\ TakenInv(q)
  BY DEF LoadInv
<1>3. ASSUME NEW q \in Queues
      PROVE  seq[q] \in Nat /\ tail[q] \in Nat /\ Requests(q) \in Nat /\ t[q] \in Nat /\ q \in Nat
  BY <1>2, RowFits, Types DEF TakenInv, Queues
<1>4. ASSUME NEW q \in Queues, tail'[q] \in Nat, tail'[q] >= tail[q],
             Requests(q)' \in Nat, Requests(q)' >= Requests(q),
             q < j => q < j' /\ Requests(q)' = Requests(q)
      PROVE  TakenInv(q)'
  <2>1. TakenInv(q)
    BY <1>2
  <2>2. t'[q] <= tail'[q] /\ seq'[q] <= Requests(q)'
    BY <1>1, <1>3, <1>4, <2>1 DEF TakenInv
  <2> QED
    BY <1>1, <1>4, <2>1, <2>2 DEF TakenInv
<1>5. CASE Store
  <2>1. MainTypes' /\ \A q \in Queues : RowInv(q)'
    BY <1>2, <1>5, StoreRows
  <2>2. UNCHANGED <<tail, j>>
    BY <1>5 DEF Store
  <2>3. ASSUME NEW q \in Queues PROVE TakenInv(q)'
    <3>1. tail'[q] = tail[q] /\ Requests(q)' = Requests(q)
      BY <2>2 DEF Requests
    <3> QED
      BY <1>3, <1>4, <2>2, <3>1
  <2> QED
    BY <1>1, <2>1, <2>3 DEF LoadInv
<1>6. CASE Publish
  <2>1. /\ MainTypes' /\ j = 0 /\ j' = 0
        /\ \A q \in Queues : RowInv(q)' /\ tail'[q] >= tail[q]
    BY <1>2, <1>6, PublishRows
  <2>2. ASSUME NEW q \in Queues PROVE TakenInv(q)'
    <3>1. tail'[q] \in Nat /\ ~(q < j) /\ ~(q < j')
      BY <1>3, <2>1 DEF MainTypes
    <3>2. Requests(q) = tail[q] /\ Requests(q)' = tail'[q]
      BY <3>1 DEF Requests
    <3> QED
      BY <1>4, <2>1, <3>1, <3>2
  <2> QED
    BY <1>1, <2>1, <2>2 DEF LoadInv
<1>7. CASE Mark
  <2>1. /\ MainTypes' /\ j \in Nat /\ j' = j + 1
        /\ \A q \in Queues : RowInv(q)' /\ Requests(q)' = Requests(q) /\ tail'[q] >= tail[q]
    BY <1>2, <1>7, MarkRows
  <2>2. ASSUME NEW q \in Queues PROVE TakenInv(q)'
    <3>1. tail'[q] \in Nat /\ (q < j => q < j')
      BY <1>3, <2>1 DEF MainTypes
    <3> QED
      BY <1>3, <1>4, <2>1, <3>1
  <2> QED
    BY <1>1, <2>1, <2>2 DEF LoadInv
<1>8. CASE Join
  <2>1. UNCHANGED <<values_, i, j, qs, tail>> /\ pc = "join" /\ pc' = "done"
    BY <1>8 DEF Join
  <2>2. MainTypes'
    BY <1>2, <2>1 DEF MainTypes
  <2>3. ASSUME NEW q \in Queues PROVE RowInv(q)' /\ TakenInv(q)'
    <3>1. Requests(q)' = Requests(q)
      BY <2>1 DEF Requests
    <3>2. RowInv(q)'
      BY <1>2, <2>1, <3>1 DEF RowInv
    <3> QED
      BY <1>3, <1>4, <2>1, <3>1, <3>2
  <2> QED
    BY <1>1, <2>2, <2>3 DEF LoadInv
<1> QED
  BY <1>5, <1>6, <1>7, <1>8 DEF Main

\* A worker takes requests up to the end mark.
LEMMA WorkerLoad ==
  ASSUME IndInv, LoadInv, NEW q \in Queues, Worker(q)
  PROVE  LoadInv'
<1>1. UNCHANGED mainVars /\ UNCHANGED <<values_, pc, i, j, qs, tail>>
  BY DEF Worker, Poll, Put, SeeEnd, EndBatch, Report, mainVars
<1>2. /\ MainTypes /\ \A r \in Queues : RowInv(r) /\ TakenInv(r)
      /\ t \in [Queues -> Nat] /\ endflag \in [Queues -> BOOLEAN]
      /\ wpc \in [Queues -> {"poll", "fill", "report", "done"}] /\ seq \in [Queues -> Nat]
  BY DEF LoadInv, IndInv, WorkerTypes
<1>3. MainTypes'
  BY <1>1, <1>2 DEF MainTypes
<1>4. ASSUME NEW r \in Queues PROVE Requests(r)' = Requests(r) /\ RowInv(r)'
  <2>1. Requests(r)' = Requests(r)
    BY <1>1 DEF Requests
  <2> QED
    BY <1>1, <1>2, <2>1 DEF RowInv
<1>5. /\ seq[q] \in Nat /\ tail[q] \in Nat /\ Requests(q) \in Nat /\ t[q] \in Nat /\ t[q] <= tail[q]
      /\ seq[q] <= Requests(q)
      /\ endflag[q] => q < j /\ seq[q] = Requests(q)
      /\ wpc[q] \in {"report", "done"} => endflag[q]
  BY <1>2, RowFits DEF TakenInv
<1>6. /\ t' \in [Queues -> Nat] /\ endflag' \in [Queues -> BOOLEAN]
      /\ \A r \in Queues \ {q} : t'[r] = t[r] /\ endflag'[r] = endflag[r]
                                 /\ wpc'[r] = wpc[r] /\ seq'[r] = seq[r]
  BY <1>2, <1>5 DEF Worker, Poll, Put, SeeEnd, EndBatch, Report
<1>7. ASSUME InBatch(q)
      PROVE  /\ qs[q][seq[q]].seq # -1 => seq[q] < Requests(q)
             /\ qs[q][seq[q]].seq = -1 => q < j /\ seq[q] = Requests(q)
  <2>1. seq[q] < tail[q]
    BY <1>5, <1>7 DEF InBatch
  <2>2. CASE seq[q] < Requests(q)
    <3>1. seq[q] \in 0 .. Requests(q) - 1
      BY <1>5, <2>2
    <3>2. qs[q][seq[q]].seq \in 0 .. i - 1
      BY <1>2, <3>1 DEF RowInv, Holds
    <3>3. qs[q][seq[q]].seq # -1
      BY <3>2
    <3> QED
      BY <2>2, <3>3
  <2>3. CASE ~(seq[q] < Requests(q))
    <3>1. seq[q] = Requests(q) /\ Requests(q) # tail[q]
      BY <1>5, <2>1, <2>3
    <3>2. q < j /\ seq[q] = tail[q] - 1
      BY <3>1 DEF Requests
    <3>3. qs[q][seq[q]].seq = -1
      BY <1>2, <3>2 DEF RowInv
    <3> QED
      BY <3>1, <3>2, <3>3
  <2> QED
    BY <2>2, <2>3
<1>8. TakenInv(q)'
  <2>1. CASE Poll(q)
    <3>1. t'[q] = tail[q] /\ seq' = seq /\ endflag' = endflag /\ wpc'[q] = "fill"
      BY <1>2, <2>1 DEF Poll
    <3> QED
      BY <1>1, <1>4, <1>5, <1>6, <3>1 DEF TakenInv
  <2>2. CASE Put(q)
    <3>1. /\ InBatch(q) /\ qs[q][seq[q]].seq # -1 /\ t' = t /\ endflag' = endflag /\ wpc' = wpc
          /\ seq'[q] = seq[q] + 1
      BY <1>2, <2>2 DEF Put
    <3>2. ~endflag[q] /\ seq[q] < Requests(q)
      BY <1>7, <3>1 DEF InBatch
    <3> QED
      BY <1>1, <1>4, <1>5, <1>6, <3>1, <3>2 DEF TakenInv
  <2>3. CASE SeeEnd(q)
    <3>1. InBatch(q) /\ qs[q][seq[q]].seq = -1 /\ t' = t /\ seq' = seq /\ wpc' = wpc /\ endflag'[q] = TRUE
      BY <1>2, <2>3 DEF SeeEnd
    <3>2. q < j /\ seq[q] = Requests(q)
      BY <1>7, <3>1
    <3> QED
      BY <1>1, <1>4, <1>5, <1>6, <3>1, <3>2 DEF TakenInv
  <2>4. CASE EndBatch(q) \/ Report(q)
    <3>1. t' = t /\ seq' = seq /\ endflag' = endflag
      BY <2>4 DEF EndBatch, Report
    <3>2. wpc'[q] \in {"report", "done"} => endflag[q]
      BY <1>2, <1>5, <2>4 DEF EndBatch, Report
    <3> QED
      BY <1>1, <1>4, <1>5, <1>6, <3>1, <3>2 DEF TakenInv
  <2> QED
    BY <2>1, <2>2, <2>3, <2>4 DEF Worker
<1>9. ASSUME NEW r \in Queues, r # q PROVE TakenInv(r)'
  <2>1. TakenInv(r)
    BY <1>2
  <2> QED
    BY <1>1, <1>4, <1>6, <1>9, <2>1 DEF TakenInv
<1> QED
  BY <1>3, <1>4, <1>6, <1>8, <1>9 DEF LoadInv

\* The invariant of the queues holds in every load program.
LEMMA QueuesHold == Spec => []LoadInv
<1>1. IndInv /\ LoadInv /\ [Next]_vars => LoadInv'
  <2> SUFFICES ASSUME IndInv, LoadInv, [Next]_vars PROVE LoadInv'
    OBVIOUS
  <2>1. CASE UNCHANGED vars
    <3>1. UNCHANGED <<values_, pc, i, j, qs, tail, wpc, seq, t, endflag>>
      BY <2>1 DEF vars, mainVars, workerVars
    <3> QED
      BY <3>1 DEF LoadInv, MainTypes, RowInv, TakenInv, Requests
  <2> QED
    BY <2>1, MainLoad, WorkerLoad DEF Next
<1> QED
  BY <1>1, InitLoad, Inductive, PTL DEF Spec

\* A row of qs holds its requests and the end mark; when the keys divide evenly
\* a worker reports on no more requests than a row of ns has room for.
THEOREM RowsFit == Spec => []RowsSuffice
<1>1. ASSUME LoadInv, NEW q \in Queues
      PROVE  /\ tail[q] <= QUEUE_LEN
             /\ TOTAL_NUM % QUEUE_NUM = 0 /\ wpc[q] = "report" => seq[q] <= TOTAL_NUM \div QUEUE_NUM
  <2>1. tail[q] \in Nat /\ Requests(q) \in Nat /\ Requests(q) <= MaxKeys
    BY <1>1, RowFits DEF LoadInv
  <2>2. tail[q] <= Requests(q) + 1
    BY <2>1 DEF Requests
  <2>3. tail[q] <= QUEUE_LEN
    BY <2>1, <2>2, Room
  <2>4. wpc[q] = "report" => seq[q] = Requests(q)
    BY <1>1 DEF LoadInv, TakenInv
  <2> QED
    BY <2>1, <2>3, <2>4, Room
<1>2. LoadInv => RowsSuffice
  BY <1>1 DEF RowsSuffice
<1> QED
  BY <1>2, QueuesHold, PTL

\* The keys are generated in some order, each of them.
LEMMA EveryKey ==
  ASSUME MainTypes, NEW k \in Keys
  PROVE  \E s \in Keys : values_[s] = k
<1>1. values_ \in Injection(Keys, Keys)
  BY DEF MainTypes, Injection, IsInjective
<1>2. IsFiniteSet(Keys)
  <2>1. 0 \in Int /\ TOTAL_NUM - 1 \in Int
    BY ConstantFacts
  <2> QED
    BY <2>1, FS_Interval DEF Keys
<1>3. values_ \in Surjection(Keys, Keys)
  BY <1>1, <1>2, FS_Injection
<1> QED
  BY <1>3 DEF Surjection

\* main returns after the workers.
JoinedInv == pc = "done" => \A q \in Queues : wpc[q] = "done"

\* Nothing runs after the join.
LEMMA JoinsWorkers == Spec => []JoinedInv
<1>1. Init => JoinedInv
  BY DEF Init, JoinedInv
<1>2. JoinedInv /\ [Next]_vars => JoinedInv'
  <2> SUFFICES ASSUME JoinedInv, [Next]_vars, pc' = "done" PROVE \A q \in Queues : wpc'[q] = "done"
    BY DEF JoinedInv
  <2>1. CASE Join
    BY <2>1 DEF Join, workerVars
  <2>2. CASE UNCHANGED vars
    BY <2>2 DEF vars, mainVars, workerVars, JoinedInv
  <2>3. CASE Store \/ Publish \/ Mark
    BY <2>3 DEF Store, Publish, Mark
  <2>4. ASSUME ~Returned, NEW q \in Queues, Worker(q) PROVE FALSE
    <3>1. pc' = pc
      BY <2>4 DEF Worker, Poll, Put, SeeEnd, EndBatch, Report, mainVars
    <3> QED
      BY <2>4, <3>1 DEF Returned
  <2> QED
    BY <2>1, <2>2, <2>3, <2>4 DEF Next, Main
<1> QED
  BY <1>1, <1>2, PTL DEF Spec

\* What the instances hold once the workers have returned.
LEMMA Loaded ==
  ASSUME IndInv, LoadInv, pc = "done", NEW q \in Queues, wpc[q] = "done", NEW k \in Keys \cup {-1}
  PROVE  LET puts == {x \in 1 .. Len(db[q]) : qs[q][db[q][x]].key = k}
         IN  IF k >= 0 /\ q = Route(k) /\ k \notin FailedKeys(q)
             THEN \E x \in puts : puts = {x}
             ELSE puts = {}
<1> DEFINE puts == {x \in 1 .. Len(db[q]) : qs[q][db[q][x]].key = k}
<1> PICK n \in Nat : n = Requests(q)
  BY RowFits DEF LoadInv
<1>1. Accounts(db[q], failed[q], n)
  <2>1. seq[q] = n /\ Held(q) = 0 /\ seq[q] - 0 = n
    BY DEF LoadInv, TakenInv, Held
  <2> QED
    BY <2>1 DEF IndInv, WorkerInv
<1>2. MainTypes /\ i = TOTAL_NUM /\ Holds(qs[q], n, TOTAL_NUM, values_, q)
  BY DEF LoadInv, MainTypes, RowInv
<1>3. ASSUME NEW p \in 0 .. n - 1
      PROVE  /\ qs[q][p].seq \in Keys /\ qs[q][p].key = values_[qs[q][p].seq]
             /\ qs[q][p].key \in Keys /\ Route(qs[q][p].key) = q
  BY <1>2 DEF Holds, Keys, MainTypes
<1>4. ASSUME NEW p \in 0 .. n - 1, NEW r \in 0 .. n - 1, qs[q][p].key = qs[q][r].key PROVE p = r
  <2>1. qs[q][p].seq = qs[q][r].seq
    BY <1>2, <1>3, <1>4 DEF MainTypes
  <2> QED
    BY <1>2, <2>1 DEF Holds
<1>5. /\ \A x, y \in 1 .. Len(db[q]) : x < y => db[q][x] < db[q][y]
      /\ {db[q][x] : x \in 1 .. Len(db[q])} = (0 .. n - 1) \ failed[q]
      /\ failed[q] \subseteq 0 .. n - 1
  BY <1>1 DEF Accounts
<1>6. ASSUME NEW x \in puts, NEW y \in puts PROVE x = y
  <2>1. db[q][x] \in 0 .. n - 1 /\ db[q][y] \in 0 .. n - 1
    BY <1>5
  <2>2. db[q][x] = db[q][y]
    BY <1>4, <2>1
  <2>3. x \in Int /\ y \in Int /\ ~(x < y) /\ ~(y < x)
    <3>1. x \in 1 .. Len(db[q]) /\ y \in 1 .. Len(db[q]) /\ Len(db[q]) \in Nat
      BY Types, LenProperties
    <3>2. ~(db[q][x] < db[q][y]) /\ ~(db[q][y] < db[q][x])
      BY <2>1, <2>2
    <3> QED
      BY <1>5, <3>1, <3>2
  <2> QED
    BY <2>3
<1>7. ASSUME k >= 0, q = Route(k), k \notin FailedKeys(q) PROVE \E x \in puts : TRUE
  <2>1. k \in Keys
    BY <1>7
  <2>2. PICK s \in Keys : values_[s] = k
    BY <1>2, <2>1, EveryKey
  <2>3. PICK p \in 0 .. n - 1 : qs[q][p].seq = s
    BY <1>2, <1>7, <2>2 DEF Holds, Keys
  <2>4. qs[q][p].key = k
    BY <1>3, <2>2, <2>3
  <2>5. p \notin failed[q]
    BY <1>7, <2>4 DEF FailedKeys
  <2>6. PICK x \in 1 .. Len(db[q]) : db[q][x] = p
    BY <1>5, <2>5
  <2> QED
    BY <2>4, <2>6
<1>8. ASSUME NEW x \in puts PROVE k >= 0 /\ q = Route(k) /\ k \notin FailedKeys(q)
  <2>1. db[q][x] \in (0 .. n - 1) \ failed[q]
    BY <1>5
  <2>2. k \in Keys /\ q = Route(k)
    BY <1>3, <2>1
  <2>3. ASSUME k \in FailedKeys(q) PROVE FALSE
    <3>1. PICK p \in failed[q] : qs[q][p].key = k
      BY <2>3 DEF FailedKeys
    <3>2. p \in 0 .. n - 1
      BY <1>5
    <3>3. p = db[q][x]
      BY <1>4, <2>1, <3>1, <3>2
    <3> QED
      BY <2>1, <3>1, <3>3
  <2> QED
    BY <2>2, <2>3 DEF Keys
<1>9. CASE k >= 0 /\ q = Route(k) /\ k \notin FailedKeys(q)
  <2>1. PICK x \in puts : TRUE
    BY <1>7, <1>9
  <2>2. puts = {x}
    BY <1>6, <2>1
  <2> QED
    BY <1>9, <2>1, <2>2
<1>10. CASE ~(k >= 0 /\ q = Route(k) /\ k \notin FailedKeys(q))
  BY <1>8, <1>10
<1> QED
  BY <1>9, <1>10

\* After the join every generated key was put exactly once, into the instance it
\* is routed to, unless its write failed; no end mark was put.
THEOREM EveryKeyIsLoaded == Spec => []LoadComplete
<1>1. IndInv /\ LoadInv /\ JoinedInv => LoadComplete
  BY Loaded DEF LoadComplete, JoinedInv
<1> QED
  BY <1>1, Inductive, QueuesHold, JoinsWorkers, PTL

=============================================================================
