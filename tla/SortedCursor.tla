---------------------------- MODULE SortedCursor ----------------------------
(***************************************************************************)
(* What an iterator over a set of keys promises: a cursor that is either   *)
(* invalid or on one of the keys, and that Next and Prev move to the       *)
(* nearest key on either side.                                             *)
(***************************************************************************)
EXTENDS SortedKeys

VARIABLES
  contents,  \* the keys iterated over
  at         \* the key the cursor is on, None if it is invalid

Init == contents \in SUBSET Keys /\ at = None

MoveTo(k) == at' = k /\ UNCHANGED contents

Next ==
  \/ MoveTo(First(contents))
  \/ MoveTo(Last(contents))
  \/ \E k \in Keys : MoveTo(FirstFrom(contents, k))
  \/ at # None /\ MoveTo(FirstAfter(contents, at))
  \/ at # None /\ MoveTo(LastBefore(contents, at))

Spec == Init /\ [][Next]_<<contents, at>>

=============================================================================
