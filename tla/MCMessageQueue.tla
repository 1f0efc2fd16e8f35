--------------------------- MODULE MCMessageQueue ---------------------------
(* A queue of two slots, so that it expands twice, with an overload report *)
(* from a backlog of two messages on.                                      *)
EXTENDS MessageQueue
=============================================================================
