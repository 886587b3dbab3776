--------------------------- MODULE MCMessageRing ----------------------------
(* MessageRing with two tasks and one interrupt handler. *)
EXTENDS MessageRing

CONSTANTS s1, s2, h1

TwoSenders == {s1, s2}
OneHandler == {h1}
=============================================================================
