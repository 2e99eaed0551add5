---------------------------- MODULE MCWriteTest ----------------------------
(***************************************************************************)
(* An instance of WriteTest, with shuffles that serve the queues unevenly. *)
(***************************************************************************)
EXTENDS WriteTest

MCShuffles ==
  {<<5, 3, 1, 4, 2, 0>>, <<2, 0, 4, 3, 5, 1>>, <<1, 0, 2, 5, 3, 4>>}

MCShuffleOrders == {[m \in 0 .. 5 |-> s[m + 1]] : s \in MCShuffles}

=============================================================================
