------------------------- MODULE MCRequestLifetime -------------------------
(* TLC instance of RequestLifetime: the requests of one thread, so that they *)
(* contend for its slot, and one cancel request.                             *)
EXTENDS RequestLifetime
=============================================================================
