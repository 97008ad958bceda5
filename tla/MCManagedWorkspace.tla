------------------------- MODULE MCManagedWorkspace -------------------------
(* TLC instance of ManagedWorkspace: two runs, the first with two commands.  *)
EXTENDS ManagedWorkspace

CONSTANTS r1, r2, c3

MCRunOf == [c \in Commands |-> IF c = c3 THEN r2 ELSE r1]
=============================================================================
