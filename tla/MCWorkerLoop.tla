---------------------------- MODULE MCWorkerLoop ----------------------------
(* Model-checking instances of WorkerLoop.                                 *)
EXTENDS WorkerLoop
=============================================================================
