-------------------------- MODULE MergingIterator --------------------------
(***************************************************************************)
(* merge_iter.h: one iterator over the iterators of all instances.  A      *)
(* child is a RocksDB iterator over the keys of one instance, known by the *)
(* key it is on, which is what IteratorWrapper caches.  The instances do   *)
(* not share keys: a key is in the instance it is routed to.               *)
(***************************************************************************)
EXTENDS SortedKeys

CONSTANT n_  \* number of children

ASSUME ChildrenAssumption == n_ \in Nat \ {0}

Children == 0 .. n_ - 1

VARIABLES
  shards,      \* the keys of each child
  pos,         \* the key each child is on, None if it is not valid
  current_,    \* the child the iterator is on, None for nullptr
  direction_   \* "kForward" or "kReverse"

vars == <<shards, pos, current_, direction_>>

Disjoint(s) == \A c, d \in Children : c # d => s[c] \cap s[d] = {}

Valid == current_ # None

key == IF Valid THEN pos[current_] ELSE None

ValidChildren(p) == {c \in Children : p[c] # None}

\* The lowest child among those with the smallest key.
FindSmallest(p) ==
  IF ValidChildren(p) = {} THEN None
  ELSE CHOOSE c \in ValidChildren(p) :
         \A d \in ValidChildren(p) : p[c] < p[d] \/ (p[c] = p[d] /\ c <= d)

\* The highest child among those with the largest key.
FindLargest(p) ==
  IF ValidChildren(p) = {} THEN None
  ELSE CHOOSE c \in ValidChildren(p) :
         \A d \in ValidChildren(p) : p[c] > p[d] \/ (p[c] = p[d] /\ c >= d)

\* Children that were moved to p, to go on forward or in reverse.
Forward(p) ==
  /\ pos' = p
  /\ current_' = FindSmallest(p)
  /\ direction_' = "kForward"
  /\ UNCHANGED shards

Reverse(p) ==
  /\ pos' = p
  /\ current_' = FindLargest(p)
  /\ direction_' = "kReverse"
  /\ UNCHANGED shards

SeekToFirst == Forward([c \in Children |-> First(shards[c])])

SeekToLast == Reverse([c \in Children |-> Last(shards[c])])

Seek(target) == Forward([c \in Children |-> FirstFrom(shards[c], target)])

\* Position a child that is not current_ after key.
PlaceAfter(c) ==
  LET k == FirstFrom(shards[c], key)
  IN  IF k = key THEN FirstAfter(shards[c], k) ELSE k

NextNoSwitch ==
  /\ Valid
  /\ Forward([pos EXCEPT ![current_] = FirstAfter(shards[current_], key)])

Next ==
  LET p == IF direction_ = "kForward" THEN pos
           ELSE [c \in Children |-> IF c = current_ THEN key ELSE PlaceAfter(c)]
  IN  /\ Valid
      /\ Forward([p EXCEPT ![current_] = FirstAfter(shards[current_], key)])

PlaceBeforeNotLast(c) ==
  LET k == FirstFrom(shards[c], key)
  IN  IF k # None THEN LastBefore(shards[c], k) ELSE None

\* Position a child that is not current_ before key.
PlaceBefore(c) ==
  LET k == FirstFrom(shards[c], key)
  IN  IF k # None THEN LastBefore(shards[c], k) ELSE Last(shards[c])

Prev ==
  LET p == IF direction_ = "kReverse" THEN pos
           ELSE [c \in Children |-> IF c = current_ THEN key ELSE PlaceBefore(c)]
  IN  /\ Valid
      /\ Reverse([p EXCEPT ![current_] = LastBefore(shards[current_], key)])

\* A fresh RocksDB iterator is not valid.
Init ==
  /\ shards \in {s \in [Children -> SUBSET Keys] : Disjoint(s)}
  /\ pos = [c \in Children |-> None]
  /\ current_ = None
  /\ direction_ = "kForward"

Step ==
  \/ SeekToFirst
  \/ SeekToLast
  \/ \E target \in Keys : Seek(target)
  \/ Next
  \/ Prev

Spec == Init /\ [][Step]_vars

-----------------------------------------------------------------------------
(* Properties. *)

\* Type correctness of the iterator's fields.
TypeOK ==
  /\ shards \in [Children -> SUBSET Keys]
  /\ pos \in [Children -> Keys \cup {None}]
  /\ current_ \in Children \cup {None}
  /\ direction_ \in {"kForward", "kReverse"}

\* Moving forward every child is on its first key not before key, and moving
\* in reverse on its last key not after it, as the comments in Next and Prev
\* require.
ChildrenPositioned ==
  IF Valid
  THEN \A c \in Children :
         pos[c] = IF direction_ = "kForward" THEN FirstFrom(shards[c], key)
                  ELSE Last({x \in shards[c] : x <= key})
  ELSE \A c \in Children : pos[c] = None

Contents == UNION {shards[c] : c \in Children}

Sorted == INSTANCE SortedCursor WITH contents <- Contents, at <- key

\* The merging iterator is a cursor over the keys of all instances in key
\* order: whatever calls were made before, Next and Prev move to the nearest
\* key on either side, without skipping or repeating one.
ImplementsCursor == Sorted!Spec

=============================================================================
