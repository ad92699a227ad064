-------------------------- MODULE MCClientRequests --------------------------
(* ClientRequests for TLC: two addresses and two connections, so that an    *)
(* address is used again or both at a time, users with some of the rights.  *)
EXTENDS ClientRequests

CONSTANTS w1, w2

MCUserRights == [u \in Users |-> {"urView", "urControl"}]
=============================================================================
