--------------------------- MODULE MCWriteThread ---------------------------
(***************************************************************************)
(* Instances of WriteThread.                                               *)
(***************************************************************************)
EXTENDS WriteThread

CONSTANTS w1, w2, w3, w4

MCWriters == {w1, w2, w3, w4}
MCKinds == [w \in MCWriters |->
              CASE w \in {w1, w2} -> {{}}
                [] w = w3 -> {{"no_slowdown", "disable_wal"}, {"unbatched"}}
                [] w = w4 -> {{"sync"}}]
MCStack == {0}

=============================================================================
