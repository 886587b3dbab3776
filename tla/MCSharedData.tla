---------------------------- MODULE MCSharedData ----------------------------
(* SharedData with two tasks, two volumes and a pool that runs dry. *)
EXTENDS SharedData, TLC

CONSTANTS t1, t2, v1, v2, n1, n2, n3, n4, b1, b2, b3

TwoTasks == {t1, t2}
TwoVolumes == {v1, v2}
FourNodes == {n1, n2, n3, n4}
ThreeBlocks == {b1, b2, b3}
Symmetry == Permutations(TwoTasks) \cup Permutations(TwoVolumes)
                \cup Permutations(FourNodes) \cup Permutations(ThreeBlocks)
=============================================================================
