-------------------------- MODULE MCApprovalResume --------------------------
(* TLC instance of ApprovalResume: grant-bearing prompts, resumes and        *)
(* processes are symmetric.                                                  *)
EXTENDS ApprovalResume, TLC

Symmetry == Permutations(Prompts \ Legacy) \cup Permutations(Resumes) \cup Permutations(Processes)
=============================================================================
