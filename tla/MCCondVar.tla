----------------------------- MODULE MCCondVar ------------------------------
(* CondVar with three tasks, two or three waiter objects, and the waits and   *)
(* wakes a configuration selects.                                             *)
EXTENDS CondVar, TLC

CONSTANTS t1, t2, t3, o1, o2, o3

ThreeTasks == {t1, t2, t3}
TwoObjects == {o1, o2}
ThreeObjects == {o1, o2, o3}
BothWaits == {"timed", "forever"}
ForeverOnly == {"forever"}
BothWakes == {"direct", "deferred"}
DirectOnly == {"direct"}
Symmetry == Permutations(ThreeTasks) \cup Permutations(ThreeObjects)
=============================================================================
