---------------------------- MODULE MCReadTest ----------------------------
(***************************************************************************)
(* Instances of ReadTest, after no load, and after loads that left some of *)
(* the keys of each instance.                                              *)
(***************************************************************************)
EXTENDS ReadTest

MCLoads == {{}, {0, 1}, {0, 3, 4}}

=============================================================================
