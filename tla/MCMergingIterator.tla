------------------------ MODULE MCMergingIterator ------------------------
(***************************************************************************)
(* Instances of MergingIterator.                                           *)
(***************************************************************************)
EXTENDS MergingIterator

MCKeys == 0 .. 4

=============================================================================
