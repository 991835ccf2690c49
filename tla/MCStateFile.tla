---------------------------- MODULE MCStateFile -----------------------------
(* An entry, its exit and another entry around one midnight, one crash, two  *)
(* snapshots being written at a time, an order executed twice.               *)
EXTENDS StateFile
=============================================================================
