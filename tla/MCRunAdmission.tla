--------------------------- MODULE MCRunAdmission ---------------------------
(* TLC instance of RunAdmission: the requests of one thread on different     *)
(* replicas.                                                                 *)
EXTENDS RunAdmission
=============================================================================
