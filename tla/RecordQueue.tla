---------------------------- MODULE RecordQueue -----------------------------
(***************************************************************************)
(* What a message ring promises: a bounded queue of whole records, taken   *)
(* out in the order they were put in.  MessageRing implements one per ring.*)
(***************************************************************************)
EXTENDS Naturals, Sequences

CONSTANTS Record,   \* the records
          Capacity  \* the records that fit

VARIABLES queue,    \* the records put and not taken
          taken     \* the records taken, in order

queueVars == <<queue, taken>>

QueueInit == queue = <<>> /\ taken = <<>>

Put(r) ==
    /\ Len(queue) < Capacity
    /\ queue' = Append(queue, r)
    /\ UNCHANGED taken

Get ==
    /\ queue # <<>>
    /\ taken' = Append(taken, Head(queue))
    /\ queue' = Tail(queue)

QueueNext == Get \/ \E r \in Record : Put(r)

QueueSpec == QueueInit /\ [][QueueNext]_queueVars
=============================================================================
