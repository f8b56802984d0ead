---------------------------- MODULE MCBatchInsert ----------------------------
(* Instances of BatchInsert for TLC. *)
EXTENDS BatchInsert
=============================================================================
