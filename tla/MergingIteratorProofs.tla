----------------------- MODULE MergingIteratorProofs -----------------------
(***************************************************************************)
(* merge_iter.h is a cursor over the keys of all instances, for every set  *)
(* of keys, every number of instances and every distribution of the keys.  *)
(***************************************************************************)
EXTENDS MergingIterator, TLAPS

\* Keys are numbers, and None is not a key.
LEMMA KeysAreNumbers == \A x \in Keys : x \in Int /\ x # None
BY KeysAssumption DEF None

\* First of a set of keys.
LEMMA FirstIsLeast ==
  ASSUME NEW S \in SUBSET Keys
  PROVE  /\ S = {} => First(S) = None
         /\ S # {} => First(S) \in S /\ \A y \in S : First(S) <= y
BY KeysAssumption DEF First

\* Last of a set of keys.
LEMMA LastIsGreatest ==
  ASSUME NEW S \in SUBSET Keys
  PROVE  /\ S = {} => Last(S) = None
         /\ S # {} => Last(S) \in S /\ \A y \in S : y <= Last(S)
BY KeysAssumption DEF Last

\* They are the only ones: numbers are totally ordered.
LEMMA FirstUnique ==
  ASSUME NEW S \in SUBSET Keys, NEW m \in S, \A y \in S : m <= y
  PROVE  First(S) = m
<1>1. First(S) \in S /\ First(S) <= m /\ m <= First(S)
  BY FirstIsLeast
<1>2. First(S) \in Int /\ m \in Int
  BY <1>1, KeysAreNumbers
<1> QED
  BY <1>1, <1>2

\* And the greatest one.
LEMMA LastUnique ==
  ASSUME NEW S \in SUBSET Keys, NEW m \in S, \A y \in S : y <= m
  PROVE  Last(S) = m
<1>1. Last(S) \in S /\ Last(S) <= m /\ m <= Last(S)
  BY LastIsGreatest
<1>2. Last(S) \in Int /\ m \in Int
  BY <1>1, KeysAreNumbers
<1> QED
  BY <1>1, <1>2

-----------------------------------------------------------------------------
(* The two ways the children are moved: each to the first of its keys in a *)
(* set that is closed upwards, or to the last in one closed downwards.     *)

\* Whatever moved the children, FindSmallest picks the child on the least key.
LEMMA SmallestChild ==
  ASSUME NEW s \in [Children -> SUBSET Keys], Disjoint(s),
         NEW p \in [Children -> Keys \cup {None}],
         \A c \in Children : p[c] # None => p[c] \in s[c],
         NEW b \in Children, p[b] # None,
         \A c \in Children : p[c] # None => p[b] <= p[c]
  PROVE  FindSmallest(p) = b
<1> DEFINE Least(c) == \A d \in ValidChildren(p) : p[c] < p[d] \/ (p[c] = p[d] /\ c <= d)
<1>1. b \in ValidChildren(p)
  BY DEF ValidChildren
<1>2. ASSUME NEW c \in ValidChildren(p), NEW d \in ValidChildren(p), p[c] = p[d]
      PROVE  c = d
  BY <1>2 DEF ValidChildren, Disjoint
<1>3. ASSUME NEW c \in ValidChildren(p) PROVE p[c] \in Int /\ c \in Int
  BY KeysAreNumbers DEF ValidChildren, Children
<1>4. Least(b)
  <2> SUFFICES ASSUME NEW d \in ValidChildren(p)
               PROVE  p[b] < p[d] \/ (p[b] = p[d] /\ b <= d)
    OBVIOUS
  <2>1. p[b] <= p[d] /\ p[b] \in Int /\ p[d] \in Int /\ b \in Int
    BY <1>1, <1>3 DEF ValidChildren
  <2>2. p[b] = p[d] => b = d
    BY <1>1, <1>2
  <2> QED
    BY <2>1, <2>2
<1>5. ASSUME NEW c \in ValidChildren(p), Least(c) PROVE c = b
  <2>1. p[c] <= p[b] /\ p[b] <= p[c]
    BY <1>1, <1>3, <1>5 DEF ValidChildren
  <2>2. p[b] = p[c]
    BY <1>1, <1>3, <2>1
  <2> QED
    BY <1>1, <1>2, <2>2
<1>6. (CHOOSE c \in ValidChildren(p) : Least(c)) = b
  <2> HIDE DEF Least
  <2>1. \E c \in ValidChildren(p) : Least(c)
    BY <1>1, <1>4
  <2>2. (CHOOSE c \in ValidChildren(p) : Least(c)) \in ValidChildren(p)
        /\ Least(CHOOSE c \in ValidChildren(p) : Least(c))
    BY <2>1
  <2> QED
    BY <1>5, <2>2
<1> QED
  BY <1>1, <1>6 DEF FindSmallest

\* FindLargest picks the child on the greatest key.
LEMMA LargestChild ==
  ASSUME NEW s \in [Children -> SUBSET Keys], Disjoint(s),
         NEW p \in [Children -> Keys \cup {None}],
         \A c \in Children : p[c] # None => p[c] \in s[c],
         NEW b \in Children, p[b] # None,
         \A c \in Children : p[c] # None => p[c] <= p[b]
  PROVE  FindLargest(p) = b
<1> DEFINE Greatest(c) == \A d \in ValidChildren(p) : p[c] > p[d] \/ (p[c] = p[d] /\ c >= d)
<1>1. b \in ValidChildren(p)
  BY DEF ValidChildren
<1>2. ASSUME NEW c \in ValidChildren(p), NEW d \in ValidChildren(p), p[c] = p[d]
      PROVE  c = d
  BY <1>2 DEF ValidChildren, Disjoint
<1>3. ASSUME NEW c \in ValidChildren(p) PROVE p[c] \in Int /\ c \in Int
  BY KeysAreNumbers DEF ValidChildren, Children
<1>4. Greatest(b)
  <2> SUFFICES ASSUME NEW d \in ValidChildren(p)
               PROVE  p[b] > p[d] \/ (p[b] = p[d] /\ b >= d)
    OBVIOUS
  <2>1. p[d] <= p[b] /\ p[b] \in Int /\ p[d] \in Int /\ b \in Int
    BY <1>1, <1>3 DEF ValidChildren
  <2>2. p[b] = p[d] => b = d
    BY <1>1, <1>2
  <2> QED
    BY <2>1, <2>2
<1>5. ASSUME NEW c \in ValidChildren(p), Greatest(c) PROVE c = b
  <2>1. p[c] <= p[b] /\ p[b] <= p[c]
    BY <1>1, <1>3, <1>5 DEF ValidChildren
  <2>2. p[b] = p[c]
    BY <1>1, <1>3, <2>1
  <2> QED
    BY <1>1, <1>2, <2>2
<1>6. (CHOOSE c \in ValidChildren(p) : Greatest(c)) = b
  <2> HIDE DEF Greatest
  <2>1. \E c \in ValidChildren(p) : Greatest(c)
    BY <1>1, <1>4
  <2>2. (CHOOSE c \in ValidChildren(p) : Greatest(c)) \in ValidChildren(p)
        /\ Greatest(CHOOSE c \in ValidChildren(p) : Greatest(c))
    BY <2>1
  <2> QED
    BY <1>5, <2>2
<1> QED
  BY <1>1, <1>6 DEF FindLargest

\* What the invariant needs besides the positions of the children.
IndInv ==
  /\ TypeOK
  /\ Disjoint(shards)
  /\ Valid => key \in shards[current_]
  /\ ChildrenPositioned

\* Children on their first keys in Up: the iterator is on the first of all.
LEMMA ForwardMove ==
  ASSUME TypeOK, Disjoint(shards),
         NEW Up \in SUBSET Keys,
         \A x \in Up, y \in Keys : x <= y => y \in Up,
         Forward([c \in Children |-> First(shards[c] \cap Up)])
  PROVE  IndInv' /\ key' = First(Contents \cap Up) /\ Contents' = Contents
<1> DEFINE T(c) == shards[c] \cap Up
           p == [c \in Children |-> First(T(c))]
<1>1. /\ pos' = p /\ current_' = FindSmallest(p) /\ direction_' = "kForward" /\ shards' = shards
  BY DEF Forward
<1>2. ASSUME NEW c \in Children
      PROVE  /\ shards[c] \in SUBSET Keys /\ T(c) \in SUBSET Keys /\ p[c] = First(T(c))
             /\ T(c) = {} => p[c] = None
             /\ T(c) # {} => p[c] \in T(c) /\ p[c] # None /\ \A y \in T(c) : p[c] <= y
  <2>1. shards[c] \in SUBSET Keys /\ T(c) \in SUBSET Keys
    BY DEF TypeOK
  <2> QED
    BY <2>1, FirstIsLeast, KeysAreNumbers
<1>3. p \in [Children -> Keys \cup {None}]
  BY <1>2
<1>4. Contents' = Contents /\ Contents \in SUBSET Keys /\ Disjoint(shards)'
  BY <1>1 DEF Contents, TypeOK, Disjoint
<1> HIDE DEF p
<1>5. CASE \A c \in Children : T(c) = {}
  <2>1. \A c \in Children : p[c] = None
    BY <1>2, <1>5
  <2>2. current_' = None
    BY <1>1, <2>1 DEF FindSmallest, ValidChildren
  <2>3. ~Valid' /\ key' = None
    BY <2>2 DEF Valid, key
  <2>4. Contents \cap Up = {}
    BY <1>5 DEF Contents
  <2>5. First(Contents \cap Up) = None
    BY <2>4 DEF First
  <2>6. ChildrenPositioned' /\ TypeOK'
    BY <1>1, <1>3, <2>1, <2>2, <2>3 DEF ChildrenPositioned, TypeOK
  <2> QED
    BY <1>4, <2>3, <2>5, <2>6 DEF IndInv
<1>6. CASE \E c \in Children : T(c) # {}
  <2> DEFINE m == First(Contents \cap Up)
  <2>1. m \in Contents /\ m \in Up /\ m \in Keys /\ \A y \in Contents \cap Up : m <= y
    <3>1. Contents \cap Up # {} /\ Contents \cap Up \in SUBSET Keys
      BY <1>4, <1>6 DEF Contents
    <3> QED
      BY <3>1, FirstIsLeast
  <2> HIDE DEF m
  <2>2. PICK b \in Children : m \in T(b)
    BY <2>1 DEF Contents
  <2>3. p[b] = m
    <3>1. \A y \in T(b) : m <= y
      BY <2>1 DEF Contents
    <3> QED
      BY <1>2, <2>2, <3>1, FirstUnique
  <2>4. \A c \in Children : p[c] # None => p[c] \in shards[c] /\ p[b] <= p[c]
    BY <1>2, <2>1, <2>3 DEF Contents
  <2>5. FindSmallest(p) = b
    BY <1>3, <2>1, <2>3, <2>4, KeysAreNumbers, SmallestChild DEF TypeOK
  <2>6. current_' = b /\ Valid' /\ key' = m
    <3>1. b # None
      BY DEF Children, None
    <3> QED
      BY <1>1, <2>3, <2>5, <3>1 DEF Valid, key
  <2>7. ASSUME NEW c \in Children PROVE p[c] = FirstFrom(shards[c], m)
    <3>1. {x \in shards[c] : x >= m} = T(c)
      <4>1. ASSUME NEW x \in shards[c], x >= m PROVE x \in Up
        BY <1>2, <2>1, <4>1, KeysAreNumbers
      <4>2. ASSUME NEW x \in T(c) PROVE x >= m
        BY <2>1 DEF Contents
      <4> QED
        BY <4>1, <4>2
    <3> QED
      BY <1>2, <3>1 DEF FirstFrom
  <2>8. ChildrenPositioned' /\ TypeOK'
    <3>1. ChildrenPositioned'
      BY <1>1, <2>6, <2>7 DEF ChildrenPositioned
    <3> QED
      BY <1>1, <1>3, <2>6, <3>1 DEF TypeOK
  <2> QED
    BY <1>1, <1>4, <2>2, <2>6, <2>8 DEF IndInv, m
<1> QED
  BY <1>5, <1>6

\* The mirror image: children on their last keys in Down.
LEMMA ReverseMove ==
  ASSUME TypeOK, Disjoint(shards),
         NEW Down \in SUBSET Keys,
         \A x \in Down, y \in Keys : y <= x => y \in Down,
         Reverse([c \in Children |-> Last(shards[c] \cap Down)])
  PROVE  IndInv' /\ key' = Last(Contents \cap Down) /\ Contents' = Contents
<1> DEFINE T(c) == shards[c] \cap Down
           p == [c \in Children |-> Last(T(c))]
<1>1. /\ pos' = p /\ current_' = FindLargest(p) /\ direction_' = "kReverse" /\ shards' = shards
  BY DEF Reverse
<1>2. ASSUME NEW c \in Children
      PROVE  /\ shards[c] \in SUBSET Keys /\ T(c) \in SUBSET Keys /\ p[c] = Last(T(c))
             /\ T(c) = {} => p[c] = None
             /\ T(c) # {} => p[c] \in T(c) /\ p[c] # None /\ \A y \in T(c) : y <= p[c]
  <2>1. shards[c] \in SUBSET Keys /\ T(c) \in SUBSET Keys
    BY DEF TypeOK
  <2> QED
    BY <2>1, LastIsGreatest, KeysAreNumbers
<1>3. p \in [Children -> Keys \cup {None}]
  BY <1>2
<1>4. Contents' = Contents /\ Contents \in SUBSET Keys /\ Disjoint(shards)'
  BY <1>1 DEF Contents, TypeOK, Disjoint
<1> HIDE DEF p
<1>5. CASE \A c \in Children : T(c) = {}
  <2>1. \A c \in Children : p[c] = None
    BY <1>2, <1>5
  <2>2. current_' = None
    BY <1>1, <2>1 DEF FindLargest, ValidChildren
  <2>3. ~Valid' /\ key' = None
    BY <2>2 DEF Valid, key
  <2>4. Contents \cap Down = {}
    BY <1>5 DEF Contents
  <2>5. Last(Contents \cap Down) = None
    BY <2>4 DEF Last
  <2>6. ChildrenPositioned' /\ TypeOK'
    BY <1>1, <1>3, <2>1, <2>2, <2>3 DEF ChildrenPositioned, TypeOK
  <2> QED
    BY <1>4, <2>3, <2>5, <2>6 DEF IndInv
<1>6. CASE \E c \in Children : T(c) # {}
  <2> DEFINE m == Last(Contents \cap Down)
  <2>1. m \in Contents /\ m \in Down /\ m \in Keys /\ \A y \in Contents \cap Down : y <= m
    <3>1. Contents \cap Down # {} /\ Contents \cap Down \in SUBSET Keys
      BY <1>4, <1>6 DEF Contents
    <3> QED
      BY <3>1, LastIsGreatest
  <2> HIDE DEF m
  <2>2. PICK b \in Children : m \in T(b)
    BY <2>1 DEF Contents
  <2>3. p[b] = m
    <3>1. \A y \in T(b) : y <= m
      BY <2>1 DEF Contents
    <3> QED
      BY <1>2, <2>2, <3>1, LastUnique
  <2>4. \A c \in Children : p[c] # None => p[c] \in shards[c] /\ p[c] <= p[b]
    BY <1>2, <2>1, <2>3 DEF Contents
  <2>5. FindLargest(p) = b
    BY <1>3, <2>1, <2>3, <2>4, KeysAreNumbers, LargestChild DEF TypeOK
  <2>6. current_' = b /\ Valid' /\ key' = m
    <3>1. b # None
      BY DEF Children, None
    <3> QED
      BY <1>1, <2>3, <2>5, <3>1 DEF Valid, key
  <2>7. ASSUME NEW c \in Children PROVE p[c] = Last({x \in shards[c] : x <= m})
    <3>1. {x \in shards[c] : x <= m} = T(c)
      <4>1. ASSUME NEW x \in shards[c], x <= m PROVE x \in Down
        BY <1>2, <2>1, <4>1, KeysAreNumbers
      <4>2. ASSUME NEW x \in T(c) PROVE x <= m
        BY <2>1 DEF Contents
      <4> QED
        BY <4>1, <4>2
    <3> QED
      BY <1>2, <3>1
  <2>8. ChildrenPositioned' /\ TypeOK'
    <3>1. ChildrenPositioned'
      BY <1>1, <2>6, <2>7 DEF ChildrenPositioned
    <3> QED
      BY <1>1, <1>3, <2>6, <3>1 DEF TypeOK
  <2> QED
    BY <1>1, <1>4, <2>2, <2>6, <2>8 DEF IndInv, m
<1> QED
  BY <1>5, <1>6

-----------------------------------------------------------------------------
(* The calls.  SeekToFirst, Seek and Next are forward moves, SeekToLast and  *)
(* Prev reverse ones.                                                        *)

\* A key of the current child is in no other child, so that the others are
\* before or after it and never on it.
LEMMA OtherChild ==
  ASSUME IndInv, Valid, NEW c \in Children, c # current_
  PROVE  /\ {x \in shards[c] : x >= key} = shards[c] \cap {x \in Keys : x > key}
         /\ {x \in shards[c] : x <= key} = shards[c] \cap {x \in Keys : x < key}
         /\ key \notin shards[c]
<1>1. /\ current_ \in Children /\ key \in shards[current_] /\ shards[c] \in SUBSET Keys
      /\ shards[current_] \in SUBSET Keys
  BY DEF IndInv, TypeOK, Valid
<1>2. key \notin shards[c]
  BY <1>1 DEF IndInv, Disjoint
<1>3. key \in Int /\ \A x \in shards[c] : x \in Int /\ x \in Keys
  BY <1>1, KeysAreNumbers
<1> QED
  BY <1>2, <1>3

\* SeekToFirst.
LEMMA SeekToFirstMoves ==
  ASSUME IndInv, SeekToFirst
  PROVE  IndInv' /\ key' = First(Contents) /\ Contents' = Contents
<1>1. TypeOK /\ Disjoint(shards) /\ \A c \in Children : shards[c] \cap Keys = shards[c]
  BY DEF IndInv, TypeOK
<1>2. Contents \cap Keys = Contents
  BY <1>1 DEF Contents
<1>3. [c \in Children |-> First(shards[c] \cap Keys)] = [c \in Children |-> First(shards[c])]
  BY <1>1
<1>4. Forward([c \in Children |-> First(shards[c] \cap Keys)])
  BY <1>3 DEF SeekToFirst
<1> QED
  BY <1>1, <1>2, <1>4, ForwardMove

\* SeekToLast.
LEMMA SeekToLastMoves ==
  ASSUME IndInv, SeekToLast
  PROVE  IndInv' /\ key' = Last(Contents) /\ Contents' = Contents
<1>1. TypeOK /\ Disjoint(shards) /\ \A c \in Children : shards[c] \cap Keys = shards[c]
  BY DEF IndInv, TypeOK
<1>2. Contents \cap Keys = Contents
  BY <1>1 DEF Contents
<1>3. [c \in Children |-> Last(shards[c] \cap Keys)] = [c \in Children |-> Last(shards[c])]
  BY <1>1
<1>4. Reverse([c \in Children |-> Last(shards[c] \cap Keys)])
  BY <1>3 DEF SeekToLast
<1> QED
  BY <1>1, <1>2, <1>4, ReverseMove

\* Seek.
LEMMA SeekMoves ==
  ASSUME IndInv, NEW target \in Keys, Seek(target)
  PROVE  IndInv' /\ key' = FirstFrom(Contents, target) /\ Contents' = Contents
<1> DEFINE Up == {x \in Keys : x >= target}
<1>1. /\ TypeOK /\ Disjoint(shards) /\ Contents \in SUBSET Keys
      /\ \A c \in Children : shards[c] \in SUBSET Keys
  BY DEF IndInv, TypeOK, Contents
<1>2. \A x \in Up, y \in Keys : x <= y => y \in Up
  BY KeysAreNumbers
<1>3. /\ Contents \cap Up = {x \in Contents : x >= target}
      /\ \A c \in Children : shards[c] \cap Up = {x \in shards[c] : x >= target}
  BY <1>1
<1>4. [c \in Children |-> First(shards[c] \cap Up)]
        = [c \in Children |-> FirstFrom(shards[c], target)]
  BY <1>3 DEF FirstFrom
<1>5. Forward([c \in Children |-> First(shards[c] \cap Up)])
  BY <1>4 DEF Seek
<1>6. Up \in SUBSET Keys
  OBVIOUS
<1> HIDE DEF Up
<1> QED
  BY <1>1, <1>2, <1>3, <1>5, <1>6, ForwardMove DEF FirstFrom

\* Next, in either direction: after a turn the other children are where they
\* would be if the iterator had moved forward all the time.
LEMMA NextMoves ==
  ASSUME IndInv, Next
  PROVE  IndInv' /\ key' = FirstAfter(Contents, key) /\ Contents' = Contents
<1> DEFINE Up == {x \in Keys : x > key}
           p == IF direction_ = "kForward" THEN pos
                ELSE [c \in Children |-> IF c = current_ THEN key ELSE PlaceAfter(c)]
           moved == [p EXCEPT ![current_] = FirstAfter(shards[current_], key)]
<1>1. /\ TypeOK /\ Disjoint(shards) /\ Contents \in SUBSET Keys /\ Valid
      /\ current_ \in Children /\ key \in shards[current_] /\ key \in Keys
      /\ \A c \in Children : shards[c] \in SUBSET Keys
  BY DEF IndInv, TypeOK, Contents, Next, Valid
<1>2. Forward(moved)
  BY DEF Next
<1>3. \A x \in Up, y \in Keys : x <= y => y \in Up
  BY <1>1, KeysAreNumbers
<1>4. /\ Contents \cap Up = {x \in Contents : x > key}
      /\ \A c \in Children : shards[c] \cap Up = {x \in shards[c] : x > key}
  BY <1>1
<1>5. ASSUME NEW c \in Children, c # current_ PROVE p[c] = First(shards[c] \cap Up)
  <2>1. FirstFrom(shards[c], key) = First(shards[c] \cap Up) /\ key \notin shards[c]
    BY <1>1, <1>5, OtherChild DEF FirstFrom
  <2>2. CASE direction_ = "kForward"
    BY <1>1, <2>1, <2>2 DEF IndInv, ChildrenPositioned
  <2>3. CASE direction_ # "kForward"
    <3>1. FirstFrom(shards[c], key) # key
      <4>1. FirstFrom(shards[c], key) \in shards[c] \cup {None}
        <5>1. {x \in shards[c] : x >= key} \in SUBSET Keys
          BY <1>1
        <5> QED
          BY <5>1, FirstIsLeast DEF FirstFrom
      <4> QED
        BY <1>1, <2>1, <4>1, KeysAreNumbers
    <3>2. p[c] = PlaceAfter(c)
      BY <1>5, <2>3
    <3> QED
      BY <2>1, <3>1, <3>2 DEF PlaceAfter
  <2> QED
    BY <2>2, <2>3
<1>6. DOMAIN p = Children
  BY <1>1 DEF TypeOK
<1>7. moved = [c \in Children |-> First(shards[c] \cap Up)]
  <2>1. FirstAfter(shards[current_], key) = First(shards[current_] \cap Up)
    BY <1>1, <1>4 DEF FirstAfter
  <2> HIDE DEF p, Up
  <2> QED
    BY <1>1, <1>5, <1>6, <2>1
<1>8. Up \in SUBSET Keys /\ Forward([c \in Children |-> First(shards[c] \cap Up)])
  BY <1>2, <1>7
<1>9. FirstAfter(Contents, key) = First(Contents \cap Up)
  BY <1>4 DEF FirstAfter
<1> HIDE DEF Up
<1> QED
  BY <1>1, <1>3, <1>8, <1>9, ForwardMove

\* Prev.  A child without a key at or after the current one is put on its last
\* key, the others before their first key at or after it: either way on their
\* last key before the current one.
LEMMA PlacedBefore ==
  ASSUME IndInv, Valid, NEW c \in Children, c # current_
  PROVE  PlaceBefore(c) = Last({x \in shards[c] : x < key})
<1> DEFINE From == {x \in shards[c] : x >= key}
           k == FirstFrom(shards[c], key)
<1>1. shards[c] \in SUBSET Keys /\ shards[current_] \in SUBSET Keys /\ key \in shards[current_]
  BY DEF IndInv, TypeOK, Valid
<1>2. key \in Int /\ \A x \in shards[c] : x \in Int /\ x # None
  BY <1>1, KeysAreNumbers
<1>3. From \in SUBSET Keys /\ k = First(From)
  BY <1>1 DEF FirstFrom
<1>4. CASE From = {}
  <2>1. k = None
    BY <1>3, <1>4, FirstIsLeast
  <2>2. {x \in shards[c] : x < key} = shards[c]
    BY <1>2, <1>4
  <2> QED
    BY <2>1, <2>2 DEF PlaceBefore
<1>5. CASE From # {}
  <2>1. k \in From /\ \A y \in From : k <= y
    BY <1>3, <1>5, FirstIsLeast
  <2>2. k \in Int /\ k # None /\ key <= k
    BY <1>2, <2>1
  <2> HIDE DEF k
  <2>3. {x \in shards[c] : x < key} = {x \in shards[c] : x < k}
    <3>1. ASSUME NEW x \in shards[c], x < key PROVE x < k
      BY <1>2, <2>2, <3>1
    <3>2. ASSUME NEW x \in shards[c], x < k PROVE x < key
      BY <1>2, <2>1, <2>2, <3>2
    <3> QED
      BY <3>1, <3>2
  <2> QED
    BY <2>2, <2>3 DEF PlaceBefore, LastBefore, k
<1> QED
  BY <1>4, <1>5

\* Prev, in either direction.
LEMMA PrevMoves ==
  ASSUME IndInv, Prev
  PROVE  IndInv' /\ key' = LastBefore(Contents, key) /\ Contents' = Contents
<1> DEFINE Down == {x \in Keys : x < key}
           p == IF direction_ = "kReverse" THEN pos
                ELSE [c \in Children |-> IF c = current_ THEN key ELSE PlaceBefore(c)]
           moved == [p EXCEPT ![current_] = LastBefore(shards[current_], key)]
<1>1. /\ TypeOK /\ Disjoint(shards) /\ Contents \in SUBSET Keys /\ Valid
      /\ current_ \in Children /\ key \in shards[current_] /\ key \in Keys
      /\ \A c \in Children : shards[c] \in SUBSET Keys
  BY DEF IndInv, TypeOK, Contents, Prev, Valid
<1>2. Reverse(moved)
  BY DEF Prev
<1>3. \A x \in Down, y \in Keys : y <= x => y \in Down
  BY <1>1, KeysAreNumbers
<1>4. /\ Contents \cap Down = {x \in Contents : x < key}
      /\ \A c \in Children : shards[c] \cap Down = {x \in shards[c] : x < key}
  BY <1>1
<1>5. ASSUME NEW c \in Children, c # current_ PROVE p[c] = Last(shards[c] \cap Down)
  <2>1. CASE direction_ = "kReverse"
    BY <1>1, <1>5, <2>1, OtherChild DEF IndInv, ChildrenPositioned
  <2>2. CASE direction_ # "kReverse"
    <3>1. p[c] = PlaceBefore(c)
      BY <1>5, <2>2
    <3> QED
      BY <1>1, <1>4, <1>5, <3>1, PlacedBefore
  <2> QED
    BY <2>1, <2>2
<1>6. DOMAIN p = Children
  BY <1>1 DEF TypeOK
<1>7. moved = [c \in Children |-> Last(shards[c] \cap Down)]
  <2>1. LastBefore(shards[current_], key) = Last(shards[current_] \cap Down)
    BY <1>1, <1>4 DEF LastBefore
  <2> HIDE DEF p, Down
  <2> QED
    BY <1>1, <1>5, <1>6, <2>1
<1>8. Down \in SUBSET Keys /\ Reverse([c \in Children |-> Last(shards[c] \cap Down)])
  BY <1>2, <1>7
<1>9. LastBefore(Contents, key) = Last(Contents \cap Down)
  BY <1>4 DEF LastBefore
<1> HIDE DEF Down
<1> QED
  BY <1>1, <1>3, <1>8, <1>9, ReverseMove

\* Every call preserves the invariant and is a move of the cursor.
LEMMA StepMoves ==
  ASSUME IndInv, Step
  PROVE  IndInv' /\ Sorted!Next
<1> USE DEF Sorted!Next, Sorted!MoveTo
<1>1. CASE SeekToFirst
  BY <1>1, SeekToFirstMoves DEF Sorted!First, First, Sorted!None, None
<1>2. CASE SeekToLast
  BY <1>2, SeekToLastMoves DEF Sorted!Last, Last, Sorted!None, None
<1>3. CASE \E target \in Keys : Seek(target)
  BY <1>3, SeekMoves DEF Sorted!FirstFrom, FirstFrom, Sorted!First, First, Sorted!None, None
<1>4. CASE Next
  <2>1. key # None
    <3>1. key \in Keys
      BY <1>4 DEF IndInv, TypeOK, Next, Valid
    <3> QED
      BY <3>1, KeysAreNumbers
  <2> QED
    BY <1>4, <2>1, NextMoves DEF Sorted!FirstAfter, FirstAfter, Sorted!First, First, Sorted!None, None
<1>5. CASE Prev
  <2>1. key # None
    <3>1. key \in Keys
      BY <1>5 DEF IndInv, TypeOK, Prev, Valid
    <3> QED
      BY <3>1, KeysAreNumbers
  <2> QED
    BY <1>5, <2>1, PrevMoves DEF Sorted!LastBefore, LastBefore, Sorted!Last, Last, Sorted!None, None
<1> QED
  BY <1>1, <1>2, <1>3, <1>4, <1>5 DEF Step

\* A fresh iterator: no child is valid.
LEMMA InitPositioned == Init => IndInv /\ Sorted!Init
<1> SUFFICES ASSUME Init PROVE IndInv /\ Sorted!Init
  OBVIOUS
<1>1. shards \in [Children -> SUBSET Keys] /\ Disjoint(shards)
  BY DEF Init
<1>2. ~Valid /\ key = None
  BY DEF Init, Valid, key
<1>3. TypeOK /\ ChildrenPositioned
  BY <1>1, <1>2 DEF Init, TypeOK, ChildrenPositioned
<1>4. Contents \in SUBSET Keys
  BY <1>1 DEF Contents
<1> QED
  BY <1>1, <1>2, <1>3, <1>4 DEF IndInv, Sorted!Init, Sorted!None, None

\* Nothing moves in a step that changes no field.
LEMMA StutterKeeps ==
  ASSUME IndInv, UNCHANGED vars
  PROVE  IndInv' /\ UNCHANGED <<Contents, key>>
BY DEF IndInv, TypeOK, Disjoint, ChildrenPositioned, Contents, Valid, key, vars

\* The children stay positioned around the current key, whatever calls are
\* made, as Next and Prev of merge_iter.h rely on when the direction stays.
THEOREM ChildrenStayPositioned == Spec => []ChildrenPositioned
<1>1. Init => IndInv
  BY InitPositioned
<1>2. IndInv /\ [Step]_vars => IndInv'
  BY StepMoves, StutterKeeps
<1>3. IndInv => ChildrenPositioned
  BY DEF IndInv
<1> QED
  BY <1>1, <1>2, <1>3, PTL DEF Spec

\* Every behaviour of the merging iterator is one of a single cursor over the
\* keys of all instances (Valid, key and the five calls that move it).
THEOREM Refinement == Spec => ImplementsCursor
<1>1. Init => IndInv /\ Sorted!Init
  BY InitPositioned
<1>2. IndInv /\ [Step]_vars => IndInv' /\ [Sorted!Next]_<<Contents, key>>
  BY StepMoves, StutterKeeps
<1> QED
  BY <1>1, <1>2, PTL DEF Spec, ImplementsCursor, Sorted!Spec

=============================================================================
