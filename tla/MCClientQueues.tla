--------------------------- MODULE MCClientQueues ---------------------------
(* ClientQueues for TLC: the names of the browsers. *)
EXTENDS ClientQueues

CONSTANTS w1, w2
=============================================================================
