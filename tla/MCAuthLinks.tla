----------------------------- MODULE MCAuthLinks ----------------------------
(* Small instances of AuthLinks. *)
EXTENDS AuthLinks, TLC

\* Requests are interchangeable, and so are workers.
Symmetry == Permutations(Reqs) \cup Permutations(Workers)
=============================================================================
