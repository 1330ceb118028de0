--------------------------- MODULE MCSigningKeys ----------------------------
(***************************************************************************)
(* Instances of SigningKeys for TLC.                                       *)
(***************************************************************************)
EXTENDS SigningKeys, TLC

Symmetry == Permutations(Keys)
=============================================================================
