---------------------------- MODULE WriteThread ----------------------------
(***************************************************************************)
(* Group commit in the RocksDB tree of p2KVS, in its default configuration *)
(* (one write queue, no pipelining, ordered writes): DBImpl::WriteImpl and *)
(* the class WriteThread, over a write-ahead log that survives a crash.    *)
(*                                                                         *)
(* Writers push themselves on the list newest_writer_.  The one that finds *)
(* it empty leads: it forms a group of the writers behind it, writes their *)
(* batches to the log as one record, inserts them into the memtable, or    *)
(* lets every member insert its own in parallel, hands leadership on, and  *)
(* completes the members.  A writer is gone as soon as its thread returns, *)
(* and the WriteGroup lives on the leader's stack.                         *)
(*                                                                         *)
(* A batch holds one entry and has no callback, and an insertion into the  *)
(* memtable does not fail (one column family).  Batch sizes are abstract:  *)
(* the limit on the size of a group may end it anywhere.                   *)
(***************************************************************************)
EXTENDS Integers, Sequences, FiniteSets

CONSTANTS
  Writers,     \* threads, each of which writes once
  Kinds,       \* the options a writer may use, sets of flags
  AllowConcurrent, \* allow_concurrent_memtable_write
  StackWords,  \* what an uninitialized WriteGroup::last_sequence may hold
  MaxStalls,   \* bound: times the write controller stalls the leader
  MaxFaults    \* bound: failing log writes

\* nullptr, and &write_stall_dummy_
Null == "nullptr"
Stall == "write_stall_dummy_"

ASSUME ConstantsAssumption ==
  /\ IsFiniteSet(Writers) /\ {Null, Stall} \cap Writers = {}
  /\ \A w \in Writers : \A k \in Kinds[w] :
       /\ k \subseteq {"sync", "no_slowdown", "disable_wal", "unbatched"}
       /\ ~({"sync", "disable_wal"} \subseteq k)
  /\ AllowConcurrent \in BOOLEAN
  /\ StackWords \subseteq Nat
  /\ {MaxStalls, MaxFaults} \subseteq Nat

Nodes == Writers \cup {Stall}

VARIABLES
  kind,          \* the options of a writer's write; "unbatched": EnterUnbatched
  wpc,           \* where its thread is
  state,         \* Writer::state: "INIT", "GROUP_LEADER",
                 \* "PARALLEL_MEMTABLE_WRITER" or "COMPLETED"
  status,        \* Writer::status
  link_older, link_newer, write_group,
  sequence,      \* Writer::sequence, 0: none
  newest_writer_,
  last_writer,   \* WriteGroup::last_writer, of the group a writer leads
  running,       \* WriteGroup::running
  gstatus,       \* WriteImpl: the status of the leader's write
  cursor,        \* a thread's position in its loop over a group
  wal,           \* the log: records of a first sequence number and batches
  synced,        \* records known to be on disk
  memtable,      \* entries <<writer, sequence number>>
  last_sequence_, \* VersionSet::last_sequence_
  stopped,       \* ErrorHandler::IsDBStopped()
  stalls, faults, \* counters for the bounds
  died,          \* a null link was dereferenced
  unlinked,      \* history: a stall removed a writer from inside the queue
  garbage        \* history: an uninitialized last_sequence was published

writerVars == <<kind, wpc, state, status, link_older, link_newer, write_group,
                sequence, last_writer, running, gstatus, cursor>>
dbVars == <<wal, synced, memtable, last_sequence_, stopped>>
ghostVars == <<unlinked, garbage>>
bounds == <<stalls, faults>>
vars == <<writerVars, newest_writer_, dbVars, bounds, died, ghostVars>>

Range1(s) == {s[x] : x \in DOMAIN s}

Sync(w) == "sync" \in kind[w]
NoSlowdown(w) == "no_slowdown" \in kind[w]
DisableWAL(w) == "disable_wal" \in kind[w]
Unbatched(w) == "unbatched" \in kind[w]

-----------------------------------------------------------------------------
(* The list of writers. *)

\* CreateMissingNewerLinks(head): the links with the missing ones filled in.
RECURSIVE CreateMissingNewerLinks(_, _)
CreateMissingNewerLinks(links, head) ==
  LET next == link_older[head]
  IN  IF next = Null \/ links[next] # Null
        THEN links
        ELSE CreateMissingNewerLinks([links EXCEPT ![next] = head], next)

\* The writers from w to last, from old to new.
RECURSIVE Members(_, _, _)
Members(links, w, last) ==
  IF w = last THEN <<w>> ELSE <<w>> \o Members(links, links[w], last)

Acknowledged(w) == wpc[w] = "done" /\ status[w] = "ok" /\ ~Unbatched(w)

\* Mutant: EnterUnbatched does not wait for the writers ahead of it.
LinkOneUnbatchedAtOnce(w, k) ==
  /\ link_older' = [link_older EXCEPT ![w] = newest_writer_]
  /\ newest_writer_' = w
  /\ wpc' = [wpc EXCEPT ![w] = IF "unbatched" \in k THEN "unbatched"
                               ELSE IF newest_writer_ # Null THEN "wait" ELSE "lead"]
  /\ state' = [state EXCEPT ![w] = IF newest_writer_ = Null /\ "unbatched" \notin k
                                     THEN "GROUP_LEADER" ELSE @]

\* LinkOne for a writer, when no stall is in effect.
LinkOne(w, k) ==
  /\ link_older' = [link_older EXCEPT ![w] = newest_writer_]
  /\ newest_writer_' = w
  /\ wpc' = [wpc EXCEPT ![w] = IF newest_writer_ # Null THEN "wait"
                               ELSE IF "unbatched" \in k THEN "unbatched" ELSE "lead"]
  /\ state' = [state EXCEPT ![w] = IF newest_writer_ = Null /\ "unbatched" \notin k
                                     THEN "GROUP_LEADER" ELSE @]

\* JoinBatchGroup, or EnterUnbatched, up to the wait.  During a stall a write
\* fails or waits for the end of the stall, and then links again.
Join(w, k) ==
  /\ \/ /\ wpc[w] = "idle"
        /\ kind' = [kind EXCEPT ![w] = k]
     \/ /\ wpc[w] = "relink"
        /\ kind[w] = k
        /\ UNCHANGED kind
  /\ \/ /\ newest_writer_ # Stall
        /\ LinkOne(w, k)
        /\ UNCHANGED status
     \/ /\ newest_writer_ = Stall
        /\ "no_slowdown" \in k
        /\ status' = [status EXCEPT ![w] = "incomplete"]
        /\ state' = [state EXCEPT ![w] = "COMPLETED"]
        /\ wpc' = [wpc EXCEPT ![w] = "done"]
        /\ UNCHANGED <<link_older, newest_writer_>>
     \/ /\ newest_writer_ = Stall
        /\ "no_slowdown" \notin k
        /\ wpc' = [wpc EXCEPT ![w] = "stalled"]
        /\ UNCHANGED <<state, status, link_older, newest_writer_>>
  /\ UNCHANGED <<link_newer, write_group, sequence, last_writer, running, gstatus,
                 cursor, dbVars, bounds, died, unlinked, garbage>>

-----------------------------------------------------------------------------
(* Write stalls: DelayWrite in the leader's PreprocessWrite. *)

\* BeginWriteStall fails the writers with no_slowdown behind the leader and
\* links their neighbours to each other.  It walks from new to old; l is the
\* pair of links and the writers it has failed so far.
RECURSIVE FailNoSlowdown(_, _, _)
FailNoSlowdown(l, prev, w) ==
  IF w = Null \/ write_group[w] # Null THEN l
  ELSE IF ~NoSlowdown(w) THEN FailNoSlowdown(l, w, l.older[w])
  ELSE LET next == l.older[w]
           between == prev # Stall /\ next # Null /\ l.older[next] # Null
       IN  FailNoSlowdown([older |-> [l.older EXCEPT ![prev] = next],
                           newer |-> IF next = Null THEN l.newer
                                     ELSE [l.newer EXCEPT ![next] = prev],
                           failed |-> l.failed \cup {w},
                           inside |-> l.inside \/ between],
                          prev, next)

BeginWriteStall(w) ==
  /\ wpc[w] = "lead"
  /\ ~stopped
  /\ ~NoSlowdown(w)
  /\ stalls < MaxStalls
  /\ stalls' = stalls + 1
  /\ newest_writer_' = Stall
  /\ LET l == FailNoSlowdown(
                [older |-> [link_older EXCEPT ![Stall] = newest_writer_],
                 newer |-> link_newer, failed |-> {}, inside |-> FALSE],
                Stall, newest_writer_)
     IN  /\ link_older' = l.older
         /\ link_newer' = l.newer
         /\ status' = [v \in Writers |-> IF v \in l.failed THEN "incomplete" ELSE status[v]]
         /\ state' = [v \in Writers |-> IF v \in l.failed THEN "COMPLETED" ELSE state[v]]
         /\ unlinked' = (unlinked \/ l.inside)
  /\ wpc' = [wpc EXCEPT ![w] = "stall"]
  /\ UNCHANGED <<kind, write_group, sequence, last_writer, running, gstatus, cursor,
                 dbVars, faults, died, garbage>>

\* Mutant: EndWriteStall without SignalAll.
EndWriteStallSilently(w) ==
  /\ wpc[w] = "stall"
  /\ LET older == link_older[Stall]
     IN  /\ link_newer' = [link_newer EXCEPT ![older] = link_newer[Stall]]
         /\ newest_writer_' = older
  /\ wpc' = [wpc EXCEPT ![w] = "lead"]
  /\ UNCHANGED <<kind, state, status, link_older, write_group, sequence, last_writer,
                 running, gstatus, cursor, dbVars, bounds, died, ghostVars>>

\* EndWriteStall: the dummy leaves the list, and everyone who waited for the end
\* of the stall tries to link again.
EndWriteStall(w) ==
  /\ wpc[w] = "stall"
  /\ LET older == link_older[Stall]
     IN  /\ link_newer' = [link_newer EXCEPT ![older] = link_newer[Stall]]
         /\ newest_writer_' = older
  /\ wpc' = [v \in Writers |-> CASE v = w -> "lead"
                                 [] wpc[v] = "stalled" -> "relink"
                                 [] OTHER -> wpc[v]]
  /\ UNCHANGED <<kind, state, status, link_older, write_group, sequence, last_writer,
                 running, gstatus, cursor, dbVars, bounds, died, ghostVars>>

-----------------------------------------------------------------------------
(* The leader. *)

\* Mutant: a write with sync joins the group of a leader without it.
CompatibleWithoutSync(leader, w) ==
  /\ NoSlowdown(w) = NoSlowdown(leader)
  /\ DisableWAL(w) = DisableWAL(leader)
  /\ ~Unbatched(w)

\* Who may be in a group with the leader.
Compatible(leader, w) ==
  /\ Sync(w) => Sync(leader)
  /\ NoSlowdown(w) = NoSlowdown(leader)
  /\ DisableWAL(w) = DisableWAL(leader)
  /\ ~Unbatched(w)

\* The last writers the loop of EnterAsBatchGroupLeader may stop at when it has
\* reached w; Null when it follows a link that is missing.
RECURSIVE GroupEnds(_, _, _)
GroupEnds(links, leader, w) ==
  IF w = newest_writer_ THEN {w}
  ELSE LET next == links[w]
       IN  IF next = Null THEN {Null}
           ELSE {w} \cup (IF Compatible(leader, next)
                            THEN GroupEnds(links, leader, next) ELSE {})

\* What PreprocessWrite may return to a leader that it does not hold up.
PreprocessWrite(w) ==
  IF stopped THEN {"error"}
  ELSE {"ok"} \cup (IF NoSlowdown(w) /\ stalls < MaxStalls
                      THEN {"incomplete"} ELSE {})

\* The end of PreprocessWrite, and EnterAsBatchGroupLeader.
EnterAsBatchGroupLeader(w) ==
  /\ wpc[w] = "lead"
  /\ LET links == CreateMissingNewerLinks(link_newer, newest_writer_)
     IN  \E st \in PreprocessWrite(w), last \in GroupEnds(links, w, w) :
           /\ stalls' = IF st = "incomplete" THEN stalls + 1 ELSE stalls
           /\ link_newer' = links
           /\ gstatus' = [gstatus EXCEPT ![w] = st]
           /\ last_writer' = [last_writer EXCEPT ![w] = last]
           /\ died' = (last = Null)
           /\ write_group' = IF last = Null THEN write_group
                             ELSE [v \in Writers |->
                                     IF v \in Range1(Members(links, w, last))
                                       THEN w ELSE write_group[v]]
           /\ wpc' = [wpc EXCEPT ![w] = IF st = "ok" THEN "wal" ELSE "publish"]
  /\ UNCHANGED <<kind, state, status, link_older, sequence, newest_writer_, running,
                 cursor, dbVars, faults, ghostVars>>

Group(w) == Members(link_newer, w, last_writer[w])

\* Mutant: the first number of a group is the last one of the group before it.
CurrentSequenceReused == last_sequence_

\* current_sequence, the number of the first entry of a group
CurrentSequence == last_sequence_ + 1

\* Mutant: the record has the number of the entry before it.
RecordOffByOne(w) == [first |-> CurrentSequence - 1, batches |-> Group(w)]

\* MergeBatch: the group's batches as one record.
Record(w) == [first |-> CurrentSequence, batches |-> Group(w)]

\* The number a member of the group gets.
SequenceIn(group, v) == CurrentSequence + (CHOOSE x \in DOMAIN group : group[x] = v) - 1

\* WriteToWAL, and the sequence numbers of the group.  The log is synced when
\* the leader asks for it.
WriteToWAL(w) ==
  /\ wpc[w] = "wal"
  /\ LET group == Group(w)
         parallel == AllowConcurrent /\ Len(group) > 1
     IN  /\ wal' = IF DisableWAL(w) THEN wal ELSE Append(wal, Record(w))
         /\ synced' = IF Sync(w) THEN Len(wal') ELSE synced
         /\ sequence' = [v \in Writers |-> IF v \in Range1(group) THEN SequenceIn(group, v)
                                          ELSE sequence[v]]
         /\ running' = [running EXCEPT ![w] = IF parallel THEN Len(group) ELSE 0]
         /\ cursor' = [cursor EXCEPT ![w] = IF parallel THEN w ELSE Null]
         /\ wpc' = [wpc EXCEPT ![w] = IF parallel THEN "launch" ELSE "insert_all"]
  /\ UNCHANGED <<kind, state, status, link_older, link_newer, write_group, last_writer,
                 gstatus, newest_writer_, memtable, last_sequence_, stopped, bounds,
                 died, ghostVars>>

\* Mutant: the error of the log does not reach the group.
WriteToWALFailsSilently(w) ==
  /\ wpc[w] = "wal"
  /\ ~DisableWAL(w)
  /\ faults < MaxFaults
  /\ faults' = faults + 1
  /\ wal' \in {wal, Append(wal, Record(w))}
  /\ stopped' = TRUE
  /\ wpc' = [wpc EXCEPT ![w] = "publish"]
  /\ UNCHANGED <<kind, state, status, link_older, link_newer, write_group, sequence,
                 last_writer, running, gstatus, cursor, newest_writer_, synced, memtable,
                 last_sequence_, stalls, died, ghostVars>>

\* The record cannot be appended, or it can but not be synced: the group gets
\* the error, and the database takes no more writes.
WriteToWALFails(w) ==
  /\ wpc[w] = "wal"
  /\ ~DisableWAL(w)
  /\ faults < MaxFaults
  /\ faults' = faults + 1
  /\ wal' \in {wal, Append(wal, Record(w))}
  /\ stopped' = TRUE
  /\ gstatus' = [gstatus EXCEPT ![w] = "error"]
  /\ wpc' = [wpc EXCEPT ![w] = "publish"]
  /\ UNCHANGED <<kind, state, status, link_older, link_newer, write_group, sequence,
                 last_writer, running, cursor, newest_writer_, synced, memtable,
                 last_sequence_, stalls, died, ghostVars>>

\* WriteBatchInternal::InsertInto(write_group, ...)
InsertInto(w) ==
  /\ wpc[w] = "insert_all"
  /\ memtable' = memtable \cup {<<v, sequence[v]>> : v \in Range1(Group(w))}
  /\ wpc' = [wpc EXCEPT ![w] = "publish"]
  /\ UNCHANGED <<kind, state, status, link_older, link_newer, write_group, sequence,
                 last_writer, running, gstatus, cursor, newest_writer_, wal, synced,
                 last_sequence_, stopped, bounds, died, ghostVars>>

\* One SetState of LaunchParallelMemTableWriters, the leader's own included.
LaunchParallelMemTableWriters(w) ==
  /\ wpc[w] = "launch"
  /\ state' = [state EXCEPT ![cursor[w]] = "PARALLEL_MEMTABLE_WRITER"]
  /\ IF cursor[w] = last_writer[w]
       THEN /\ cursor' = [cursor EXCEPT ![w] = Null]
            /\ wpc' = [wpc EXCEPT ![w] = "insert"]
       ELSE /\ cursor' = [cursor EXCEPT ![w] = link_newer[cursor[w]]]
            /\ UNCHANGED wpc
  /\ UNCHANGED <<kind, status, link_older, link_newer, write_group, sequence, last_writer,
                 running, gstatus, newest_writer_, dbVars, bounds, died, ghostVars>>

-----------------------------------------------------------------------------
(* Every member of a group. *)

\* AwaitState in JoinBatchGroup or EnterUnbatched.
AwaitState(w) ==
  /\ wpc[w] = "wait"
  /\ state[w] # "INIT"
  /\ wpc' = [wpc EXCEPT ![w] =
               CASE state[w] = "GROUP_LEADER" -> IF Unbatched(w) THEN "unbatched" ELSE "lead"
                 [] state[w] = "PARALLEL_MEMTABLE_WRITER" -> "insert"
                 [] state[w] = "COMPLETED" -> "done"]
  /\ UNCHANGED <<kind, state, status, link_older, link_newer, write_group, sequence,
                 last_writer, running, gstatus, cursor, newest_writer_, dbVars, bounds,
                 died, ghostVars>>

\* A member's own insertion, and CompleteParallelMemTableWriter: the last one
\* to finish exits for the group.
CompleteParallelMemTableWriter(w) ==
  /\ wpc[w] = "insert"
  /\ LET g == write_group[w]
     IN  /\ memtable' = memtable \cup {<<w, sequence[w]>>}
         /\ running' = [running EXCEPT ![g] = @ - 1]
         /\ wpc' = [wpc EXCEPT ![w] = IF running[g] > 1 THEN "await" ELSE "publish"]
  /\ UNCHANGED <<kind, state, status, link_older, link_newer, write_group, sequence,
                 last_writer, gstatus, cursor, newest_writer_, wal, synced,
                 last_sequence_, stopped, bounds, died, ghostVars>>

AwaitCompleted(w) ==
  /\ wpc[w] = "await"
  /\ state[w] = "COMPLETED"
  /\ wpc' = [wpc EXCEPT ![w] = "done"]
  /\ UNCHANGED <<kind, state, status, link_older, link_newer, write_group, sequence,
                 last_writer, running, gstatus, cursor, newest_writer_, dbVars, bounds,
                 died, ghostVars>>

\* Mutant: the links that are missing are not created.
HandOverAsLinked(last) ==
  LET next == link_newer[last]
  IN  IF newest_writer_ = last
        THEN newest_writer_' = Null /\ UNCHANGED <<link_older, link_newer, state, died>>
        ELSE /\ died' = (next = Null)
             /\ IF next = Null THEN UNCHANGED <<link_older, state>>
                ELSE /\ link_older' = [link_older EXCEPT ![next] = Null]
                     /\ state' = [state EXCEPT ![next] = "GROUP_LEADER"]
             /\ UNCHANGED <<newest_writer_, link_newer>>

\* Leadership passes to the writer behind last, if there is one.
HandOver(last) ==
  LET links == CreateMissingNewerLinks(link_newer, newest_writer_)
      next == links[last]
  IN  IF newest_writer_ = last
        THEN newest_writer_' = Null /\ UNCHANGED <<link_older, link_newer, state, died>>
        ELSE /\ link_newer' = links
             /\ died' = (next = Null)
             /\ IF next = Null THEN UNCHANGED <<link_older, state>>
                ELSE /\ link_older' = [link_older EXCEPT ![next] = Null]
                     /\ state' = [state EXCEPT ![next] = "GROUP_LEADER"]
             /\ UNCHANGED newest_writer_

\* Mutant: the leader publishes its own number.
LastSequenceOfLeader(w) ==
  IF gstatus[write_group[w]] # "ok" THEN {last_sequence_}
  ELSE IF w = write_group[w] THEN {sequence[w]}
  ELSE StackWords

\* What the thread that exits passes to SetLastSequence.  The store into
\* write_group.last_sequence is commented out, so a follower passes what the
\* stack held.
LastSequence(w) ==
  IF gstatus[write_group[w]] # "ok" THEN {last_sequence_}
  ELSE IF w = write_group[w] THEN {sequence[last_writer[w]]}
  ELSE StackWords

\* SetLastSequence, and the first part of ExitAsBatchGroupLeader.
Publish(w) ==
  /\ wpc[w] = "publish"
  /\ LET g == write_group[w]
         last == last_writer[g]
     IN  /\ last_sequence_' \in LastSequence(w)
         /\ garbage' = (garbage \/ (gstatus[g] = "ok" /\ w # g))
         /\ HandOver(last)
         /\ cursor' = [cursor EXCEPT ![w] = last]
  /\ wpc' = [wpc EXCEPT ![w] = "complete"]
  /\ UNCHANGED <<kind, status, write_group, sequence, last_writer, running, gstatus, wal,
                 synced, memtable, stopped, bounds, unlinked>>

\* Mutant: a follower that exits for the group completes the leader first.
CompleteLeaderFirst(w) ==
  /\ wpc[w] = "complete"
  /\ LET g == write_group[w]
         c == cursor[w]
     IN  IF c # g
           THEN /\ status' = [status EXCEPT ![c] = gstatus[g], ![g] = gstatus[g]]
                /\ state' = [state EXCEPT ![c] = "COMPLETED", ![g] = "COMPLETED"]
                /\ cursor' = [cursor EXCEPT ![w] = link_older[c]]
                /\ UNCHANGED wpc
           ELSE /\ status' = [status EXCEPT ![g] = gstatus[g]]
                /\ state' = [state EXCEPT ![g] = "COMPLETED"]
                /\ cursor' = [cursor EXCEPT ![w] = Null]
                /\ wpc' = [wpc EXCEPT ![w] = "done"]
  /\ UNCHANGED <<kind, link_older, link_newer, write_group, sequence, last_writer, running,
                 gstatus, newest_writer_, dbVars, bounds, died, ghostVars>>

\* The loop of ExitAsBatchGroupLeader, from new to old; a follower that exits
\* for the group completes the leader last.
CompleteFollowers(w) ==
  /\ wpc[w] = "complete"
  /\ LET g == write_group[w]
         c == cursor[w]
     IN  IF c # g
           THEN /\ status' = [status EXCEPT ![c] = gstatus[g]]
                /\ state' = [state EXCEPT ![c] = "COMPLETED"]
                /\ cursor' = [cursor EXCEPT ![w] = link_older[c]]
                /\ UNCHANGED wpc
           ELSE /\ status' = [status EXCEPT ![g] = gstatus[g]]
                /\ state' = [state EXCEPT ![g] = "COMPLETED"]
                /\ cursor' = [cursor EXCEPT ![w] = Null]
                /\ wpc' = [wpc EXCEPT ![w] = "done"]
  /\ UNCHANGED <<kind, link_older, link_newer, write_group, sequence, last_writer, running,
                 gstatus, newest_writer_, dbVars, bounds, died, ghostVars>>

ExitUnbatched(w) ==
  /\ wpc[w] = "unbatched"
  /\ HandOver(w)
  /\ wpc' = [wpc EXCEPT ![w] = "done"]
  /\ UNCHANGED <<kind, status, write_group, sequence, last_writer, running, gstatus,
                 cursor, dbVars, bounds, ghostVars>>

-----------------------------------------------------------------------------
(* Crash and recovery: opening the database replays the log. *)

Replayed(log) ==
  UNION {{<<log[r].batches[x], log[r].first + x - 1>> : x \in DOMAIN log[r].batches} :
           r \in DOMAIN log}

\* A crash may keep any prefix of the log that has all synced records.
CrashPoints == synced .. Len(wal)

Recovered(n) == Replayed(SubSeq(wal, 1, n))

-----------------------------------------------------------------------------
Init ==
  /\ kind = [w \in Writers |-> {}]
  /\ wpc = [w \in Writers |-> "idle"]
  /\ state = [w \in Writers |-> "INIT"]
  /\ status = [w \in Writers |-> "ok"]
  /\ link_older = [x \in Nodes |-> Null]
  /\ link_newer = [x \in Nodes |-> Null]
  /\ write_group = [w \in Writers |-> Null]
  /\ sequence = [w \in Writers |-> 0]
  /\ newest_writer_ = Null
  /\ last_writer = [w \in Writers |-> Null]
  /\ running = [w \in Writers |-> 0]
  /\ gstatus = [w \in Writers |-> "ok"]
  /\ cursor = [w \in Writers |-> Null]
  /\ wal = <<>>
  /\ synced = 0
  /\ memtable = {}
  /\ last_sequence_ = 0
  /\ stopped = FALSE
  /\ stalls = 0 /\ faults = 0
  /\ died = FALSE
  /\ unlinked = FALSE
  /\ garbage = FALSE

\* A step of a thread that is inside a write.
Step(w) ==
  \/ wpc[w] = "relink" /\ Join(w, kind[w])
  \/ BeginWriteStall(w)
  \/ EndWriteStall(w)
  \/ EnterAsBatchGroupLeader(w)
  \/ WriteToWAL(w)
  \/ WriteToWALFails(w)
  \/ InsertInto(w)
  \/ LaunchParallelMemTableWriters(w)
  \/ AwaitState(w)
  \/ CompleteParallelMemTableWriter(w)
  \/ AwaitCompleted(w)
  \/ Publish(w)
  \/ CompleteFollowers(w)
  \/ ExitUnbatched(w)

Begin(w) == wpc[w] = "idle" /\ \E k \in Kinds[w] : Join(w, k)

Next == ~died /\ \E w \in Writers : Begin(w) \/ Step(w)

Spec == Init /\ [][Next]_vars

\* A thread inside a write is scheduled, and a stall comes to an end.
FairSpec == Spec /\ \A w \in Writers : WF_vars(~died /\ Step(w))

-----------------------------------------------------------------------------
(* Properties. *)

\* Only one thread at a time writes the log, forms a group or advances the
\* sequence number: the comment of WriteThread bases its correctness on it.
\* Completing the members of an earlier group may overlap.
OneLeader ==
  LET Leads(w) == wpc[w] \in {"lead", "stall", "unbatched", "wal", "insert_all", "launch",
                              "publish"}
      Group1(w) == IF wpc[w] = "publish" THEN write_group[w] ELSE w
  IN  \A v, w \in Writers : Leads(v) /\ Leads(w) => Group1(v) = Group1(w)

\* No thread follows a pointer to a Writer, or to a WriteGroup on the stack of
\* a leader, whose thread has returned: neither the thread that launches the
\* members, nor one that inserts or exits, nor the one that completes them.
NoUseAfterReturn ==
  \A w \in Writers :
    /\ wpc[w] \in {"launch", "complete"} => wpc[cursor[w]] # "done"
    /\ wpc[w] \in {"insert", "publish", "complete"} => wpc[write_group[w]] # "done"
    /\ wpc[w] = "publish" =>
         \A v \in Range1(Members(link_newer, write_group[w], last_writer[write_group[w]])) :
           wpc[v] # "done"

\* A write that returned ok was inserted exactly once, under its own sequence
\* number, and one that returned an error was not.
AcknowledgedAreApplied ==
  \A w \in Writers : wpc[w] = "done" =>
    {e \in memtable : e[1] = w} = IF Acknowledged(w) THEN {<<w, sequence[w]>>} ELSE {}

\* A write with sync that returned ok survives a crash at any time, also when
\* another thread wrote its record.
SyncedAreDurable ==
  \A w \in Writers, n \in CrashPoints :
    Acknowledged(w) /\ Sync(w) => <<w, sequence[w]>> \in Recovered(n)

\* Replaying the log restores what the memtable holds, under the same numbers:
\* an entry is in the log before it is in the memtable.
LogRestoresMemtable ==
  \A e \in memtable : ~DisableWAL(e[1]) => e \in Replayed(wal)

\* No two entries have the same number, as long as no follower has published an
\* uninitialized sequence number.
NumbersAreUnique == ~garbage => \A e, f \in memtable : e[2] = f[2] => e = f

\* A write that has returned ok is visible to reads: its number is at most
\* VersionSet::last_sequence_, which advances when a group is complete.
AcknowledgedAreVisible ==
  \A w \in Writers : Acknowledged(w) => sequence[w] <= last_sequence_

\* The same, as long as the thread that exits for a parallel group is its leader.
VisibleUnlessFollowerExits == ~garbage => AcknowledgedAreVisible

\* A link that is needed is there, unless a stall took a no_slowdown writer out
\* between two others, behind the leader: then link_newer is set in the middle
\* of the queue, and CreateMissingNewerLinks stops short.
LinksBrokenOnlyByStall == died => unlinked

\* Every write returns: again and again there is none under way.
EveryWriteReturns == []<>(died \/ \A w \in Writers : wpc[w] \in {"idle", "done"})

=============================================================================
