--------------------------- MODULE MCSocketServer ---------------------------
(* Two slots, so that a listening socket leaves one for what it accepts,   *)
(* and the third id takes the slot of the first.                           *)
EXTENDS SocketServer

CallersAlike == Permutations(Caller)
=============================================================================
