---------------------------- MODULE MCDevSession ----------------------------
(* TLC instance of DevSession. *)
EXTENDS DevSession
=============================================================================
