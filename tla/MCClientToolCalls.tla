------------------------- MODULE MCClientToolCalls -------------------------
(* TLC instance of ClientToolCalls: requests and client calls are symmetric. *)
EXTENDS ClientToolCalls, TLC

Symmetry == Permutations(Requests) \cup Permutations(ClientCalls)
=============================================================================
