---------------------------- MODULE MCJobQueue ------------------------------
(***************************************************************************)
(* Instances of JobQueue for TLC.                                          *)
(***************************************************************************)
EXTENDS JobQueue, TLC

CONSTANTS r1, r2

RunnerSymmetry == Permutations({r1, r2})
=============================================================================
