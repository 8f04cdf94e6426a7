---------------------------- MODULE MCWorkerPool ----------------------------
(* WorkerPool with two pids and small timers. *)
EXTENDS WorkerPool

=============================================================================
