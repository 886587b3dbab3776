-------------------------- MODULE MCMessageQueue ---------------------------
(* A small instance of MessageQueue for TLC: each poster has one node. *)
EXTENDS MessageQueue

CONSTANTS p1, p2, d1, d2, r1, n1, n2, c1, c2

TwoPosters == {p1, p2}
TwoDispatchers == {d1, d2}
OnePoller == {r1}
Last == {MaxPosts}
TwoNodes == {n1, n2}
TwoCells == {c1, c2}
Pools == [n \in TwoNodes |-> IF n = n1 THEN p1 ELSE p2]
=============================================================================
