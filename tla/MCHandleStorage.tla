-------------------------- MODULE MCHandleStorage --------------------------
(* A table of two slots that doubles once, and more services than there    *)
(* are handles: one thread launches them while others retire, name and     *)
(* abort.                                                                  *)
EXTENDS HandleStorage, TLC

Symmetry == Permutations(Context)
=============================================================================
