--------------------------- MODULE MCSocketChannel ---------------------------
(* Two coroutines that request, and a third that calls what it likes.      *)
EXTENDS SocketChannel, TLC

CONSTANTS a, b, c

MCDoes == (a :> {"request"}) @@ (b :> {"request"}) @@ (c :> Function)
==============================================================================
