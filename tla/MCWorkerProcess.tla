--------------------------- MODULE MCWorkerProcess ---------------------------
(* The model values of the worker process that is checked.                  *)
EXTENDS WorkerProcess

CONSTANTS r1, r2
=============================================================================
