-------------------------- MODULE MCStorageObjects -------------------------
(* Small instances of StorageObjects. *)
EXTENDS StorageObjects, TLC

\* Paths are interchangeable, and so are request slots.
Symmetry == Permutations(Names) \cup Permutations(Reqs)
=============================================================================
