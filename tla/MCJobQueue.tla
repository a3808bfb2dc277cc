----------------------------- MODULE MCJobQueue -----------------------------
(* The queue on its own for TLC: every order of statements by callers that *)
(* need not hold the job they name.                                        *)
EXTENDS JobQueue, TLC

Symmetry == Permutations(JobIds) \cup Permutations(Pairs)
=============================================================================
