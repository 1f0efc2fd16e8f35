----------------------------- MODULE MCDispatch -----------------------------
(* Two workers, one of each kind of weight that makes a difference, and a  *)
(* timer thread, over two services that exist and one that may be launched. *)
EXTENDS Dispatch, TLC

CONSTANTS w1, w2

MCWeight == (w1 :> -1) @@ (w2 :> 0)
=============================================================================
