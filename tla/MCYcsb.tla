------------------------------- MODULE MCYcsb -------------------------------
(***************************************************************************)
(* Small instances of Ycsb for TLC.                                        *)
(***************************************************************************)
EXTENDS Ycsb

\* Key 0 is the key of a slot nobody has stored to.
MCKeys == {0, 1}

\* Two keys share instance 0.
MCThreeKeys == {0, 1, 2}

=============================================================================
