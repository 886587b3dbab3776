--------------------------- MODULE MCCountingSem ---------------------------
(* Small instances of CountingSem for TLC. *)
EXTENDS CountingSem, TLC

CONSTANTS c1, c2, p1, p2, p3

OneConsumer == {c1}
TwoConsumers == {c1, c2}
ThreePosters == {p1, p2, p3}

BothModes == {"direct", "deferred"}
Untimed == {"untimed"}
Timed == {"timed"}
AnyTake == {"timed", "untimed"}

Symmetric == Permutations(ThreePosters)
=============================================================================
