---------------------------- MODULE MCLuaService ----------------------------
(* Three coroutines of one service, one peer, which asks once.             *)
EXTENDS LuaService, TLC

CONSTANTS p1, q1

MCFrom == (q1 :> p1)
Symmetry == Permutations(Co)
=============================================================================
