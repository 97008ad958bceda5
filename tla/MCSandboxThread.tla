-------------------------- MODULE MCSandboxThread --------------------------
(* TLC instance of SandboxThread: executions that overlap or follow each    *)
(* other, and cleanups of any kind in between.                              *)
EXTENDS SandboxThread

MCExclusive == Exclusives
MCOperations == Exclusives \cup Shareds
=============================================================================
