--------------------------- MODULE MCWorkerSleep ---------------------------
(* Three workers, up to two services and three pushes.                     *)
EXTENDS WorkerSleep
=============================================================================
