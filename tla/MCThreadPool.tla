---------------------------- MODULE MCThreadPool ----------------------------
(* The thread pool with the small constants given in the MCThreadPool*.cfg. *)
EXTENDS ThreadPool
=============================================================================
