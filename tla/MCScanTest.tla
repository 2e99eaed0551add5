---------------------------- MODULE MCScanTest ----------------------------
(***************************************************************************)
(* Instances of ScanTest whose databases are empty, too short for some     *)
(* merges, too short by one key, and just large enough for every merge.    *)
(***************************************************************************)
EXTENDS ScanTest

MCKeyNums == {0, SCAN_SIZE + 1, 2 * SCAN_SIZE - 1, 2 * SCAN_SIZE}

=============================================================================
