---------------------------- MODULE MCPosixMutex ----------------------------
(* PosixMutex with two threads and two kernel objects. *)
EXTENDS PosixMutex, TLC

CONSTANTS t1, t2, h1, h2

TwoTasks == {t1, t2}
TwoHandles == {h1, h2}
StaticMagic == {"static"}
EitherMagic == {"static", "live"}
=============================================================================
