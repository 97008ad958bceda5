--------------------------- MODULE MCLiveTurnHub ---------------------------
(* TLC instance of LiveTurnHub: two successive turns of one thread.  The    *)
(* event is too large for a subscriber's queue; the digest holds one of it *)
(* and two other chunks, but not two.                                       *)
EXTENDS LiveTurnHub

CONSTANTS t1, t2, m, k, x

MCSize == [s \in {m, k, x, Done} |-> IF s = x THEN 3 ELSE 1]
MCMaxLog == [t \in Turns |-> IF t = t1 THEN 3 ELSE 0]
=============================================================================
