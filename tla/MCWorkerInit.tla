---------------------------- MODULE MCWorkerInit ----------------------------
(* Model-checking instances of WorkerInit; the bound is in the .cfg files.  *)
EXTENDS WorkerInit
=============================================================================
