----------------------------- MODULE SortedKeys -----------------------------
(***************************************************************************)
(* Sets of keys in the order of the bytewise comparator.                   *)
(***************************************************************************)
EXTENDS Integers

CONSTANT Keys

\* Keys are ordered like numbers, and a set of them has a least and a greatest
\* element.
ASSUME KeysAssumption ==
  /\ Keys \subseteq Nat
  /\ \A S \in SUBSET Keys : S # {} =>
       /\ \E x \in S : \A y \in S : x <= y
       /\ \E x \in S : \A y \in S : y <= x

None == -1

First(S) == IF S = {} THEN None ELSE CHOOSE x \in S : \A y \in S : x <= y

Last(S) == IF S = {} THEN None ELSE CHOOSE x \in S : \A y \in S : y <= x

FirstFrom(S, k) == First({x \in S : x >= k})

FirstAfter(S, k) == First({x \in S : x > k})

LastBefore(S, k) == Last({x \in S : x < k})

=============================================================================
