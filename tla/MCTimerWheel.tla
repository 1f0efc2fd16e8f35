---------------------------- MODULE MCTimerWheel ----------------------------
(* Blocks of two ticks and levels of two lists: the counter wraps after 32 *)
(* ticks, and two timeouts meet every cascade.                             *)
EXTENDS TimerWheel
=============================================================================
