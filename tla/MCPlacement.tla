---------------------------- MODULE MCPlacement -----------------------------
(***************************************************************************)
(* Instances of Placement for TLC: node 1 has the larger disk, odd         *)
(* projects are small and even ones large.                                 *)
(***************************************************************************)
EXTENDS Placement, TLC

CONSTANTS a, b, c

StopEach == [n \in Nodes |-> [ram |-> 2, disk |-> 4 - n]]
TotalEach == [n \in Nodes |-> 3]
RamEach == [p \in Projects |-> IF p % 2 = 1 THEN 1 ELSE 2]
DiskEach == [p \in Projects |-> 1]
\* bookRam's reading of the row is not protected against a second bookRam or a purge;
\* one resume job at a time, and no purge of a project being resumed, is what it needs.
ApartByCallers == {{"bookRam"}, {"bookRam", "releaseNode"}}
WorkerSymmetry == Permutations(Workers)
=============================================================================
