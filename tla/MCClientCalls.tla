--------------------------- MODULE MCClientCalls ---------------------------
(* Two names, challenges that overlap, and a handful of clicks.              *)
EXTENDS ClientCalls

CONSTANTS u1, u2

MCUsers == {u1, u2}
============================================================================
