----------------------------- MODULE MCTaskPool -----------------------------
(* A small pool: the values TLC gives the constants are in MCTaskPool.cfg. *)
EXTENDS TaskPool
=============================================================================
