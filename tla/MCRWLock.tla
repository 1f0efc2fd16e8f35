------------------------------ MODULE MCRWLock ------------------------------
(* Two writers and a reader on one lock.                                   *)
EXTENDS RWLock
=============================================================================
