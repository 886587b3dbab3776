---------------------------- MODULE MessageRing -----------------------------
(***************************************************************************)
(* The transport of src/src/kernel/task_message.rs: two byte rings that    *)
(* carry fixed-length records to one reader, and a counting semaphore that *)
(* counts them.  Tasks write the first ring under a mutex and post the     *)
(* mailbox; an interrupt handler writes the second one without a lock and  *)
(* posts the semaphore deferred.  The ring itself is src/src/util/ring_*.  *)
(*                                                                         *)
(* The reader runs beside the writers: a byte at a time is copied on both  *)
(* sides, the writer publishes its index once, the reader after each byte. *)
(* The size of a ring is a power of two and the length of a record is not, *)
(* so records wrap in the middle.  CountingSem shows what is used of the   *)
(* semaphore: one take per token.                                          *)
(***************************************************************************)
EXTENDS Naturals, Sequences, FiniteSets

CONSTANTS Sender,    \* tasks that enqueue with deferred = 0
          Handler,   \* interrupt handlers that enqueue with deferred = 1
          None,      \* nobody, no ring, no byte
          Size,      \* the capacity of a ring; its mask is Size - 1
          Length,    \* the length of a record, 28 in the code
          MaxSent    \* bound on the messages sent

Writer == Sender \cup Handler
Message == 1 .. MaxSent
Byte == Message \X (1 .. Length)
Ring == {"locked", "deferred"}

ASSUME WritersAssumption == Sender \cap Handler = {} /\ None \notin Writer \cup Ring \cup Byte
ASSUME FiniteAssumption == IsFiniteSet(Writer)
\* Nobody locks the deferred ring: what writes it is one handler at a time.
ASSUME OneHandlerAssumption == \A h, k \in Handler : h = k
ASSUME SizesAssumption == Length \in Nat \ {0} /\ Size \in Nat /\ Size > Length /\ MaxSent \in Nat

VARIABLES data,     \* the bytes of each ring
          read,     \* the read cursor of each ring
          write,    \* the write cursor of each ring
          mutex,    \* the holder of the transport's mutex
          tokens,   \* the count of the transport's semaphore
          pc,       \* where each writer stands
          message,  \* the message each writer enqueues
          cursor,   \* the writer's own copy of the write cursor
          sent,     \* the messages sent so far; also the last one's name
          source,   \* the ring the reader reads, or "token", or "wait"
          got,      \* the bytes of the record the reader is in
          taken     \* ghost: the records the reader got from each ring

vars == <<data, read, write, mutex, tokens, pc, message, cursor, sent, source, got, taken>>
ringVars == <<data, read, write>>
readerVars == <<source, got, taken>>

\* ring_buffer_construct of both rings.
Init ==
    /\ data = [r \in Ring |-> [i \in 0 .. Size - 1 |-> None]]
    /\ read = [r \in Ring |-> 0] /\ write = [r \in Ring |-> 0]
    /\ mutex = None /\ tokens = 0 /\ sent = 0
    /\ pc = [w \in Writer |-> "idle"]
    /\ message = [w \in Writer |-> 0] /\ cursor = [w \in Writer |-> 0]
    /\ source = "wait" /\ got = <<>> /\ taken = [r \in Ring |-> <<>>]

Goto(w, label) == pc' = [pc EXCEPT ![w] = label]
RingOf(w) == IF w \in Sender THEN "locked" ELSE "deferred"

\* The bytes between two cursors; a full turn counts as none.
Between(from, to) == (to + Size - from) % Size

Used(r) == Between(read[r], write[r])

\* Mutation: the mask is forgotten.
AfterUnmasked(i) == i + 1

\* The cursor after i.
After(i) == (i + 1) % Size

\* Mutation: the ring may be filled to its last byte.
FitsToTheBrim(r) == Length <= Size - Used(r)

\* One byte always stays free, or a full ring would look empty.
Fits(r) == Length <= Size - 1 - Used(r)

-----------------------------------------------------------------------------
(* task_message_transport_enqueue *)

\* deferred = 0 takes the transport's mutex first.
Enqueue(w) ==
    /\ pc[w] = "idle"
    /\ sent < MaxSent
    /\ w \in Sender => mutex = None
    /\ mutex' = IF w \in Sender THEN w ELSE mutex
    /\ sent' = sent + 1
    /\ message' = [message EXCEPT ![w] = sent + 1]
    /\ Goto(w, "check")
    /\ UNCHANGED <<ringVars, tokens, cursor, readerVars>>

Unlocks(w) == mutex' = IF w \in Sender THEN None ELSE mutex

\* Not enough room: 0 is returned and nobody is told.
Full(w) ==
    /\ pc[w] = "check"
    /\ ~Fits(RingOf(w))
    /\ Unlocks(w)
    /\ Goto(w, "idle")
    /\ UNCHANGED <<ringVars, tokens, message, cursor, sent, readerVars>>

Begin(w) ==
    /\ pc[w] = "check"
    /\ Fits(RingOf(w))
    /\ cursor' = [cursor EXCEPT ![w] = write[RingOf(w)]]
    /\ Goto(w, "copy")
    /\ UNCHANGED <<ringVars, mutex, tokens, message, sent, readerVars>>

\* How far w has copied.
Copied(w) == Between(write[RingOf(w)], cursor[w])

CopyByte(w) ==
    /\ pc[w] = "copy"
    /\ Copied(w) < Length
    /\ data' = [data EXCEPT ![RingOf(w)][cursor[w]] = <<message[w], Copied(w) + 1>>]
    /\ cursor' = [cursor EXCEPT ![w] = After(@)]
    /\ UNCHANGED <<read, write, mutex, tokens, pc, message, sent, readerVars>>

\* Mutation: the new index is visible before the last byte.
CopiedButOne(w) == Copied(w) + 1 >= Length

Complete(w) == Copied(w) = Length

\* The index is stored once, after the copy; the lock is given back.
Publish(w) ==
    /\ pc[w] = "copy"
    /\ Complete(w)
    /\ write' = [write EXCEPT ![RingOf(w)] = cursor[w]]
    /\ Unlocks(w)
    /\ Goto(w, "post")
    /\ UNCHANGED <<data, read, tokens, message, cursor, sent, readerVars>>

\* Mutation: the deferred record is not counted.
PostLockedOnly(w) ==
    /\ pc[w] = "post"
    /\ tokens' = IF w \in Sender THEN tokens + 1 ELSE tokens
    /\ Goto(w, "idle")
    /\ UNCHANGED <<ringVars, mutex, message, cursor, sent, readerVars>>

\* mailbox_slot_post, or csem_post_deferred.
Post(w) ==
    /\ pc[w] = "post"
    /\ tokens' = tokens + 1
    /\ Goto(w, "idle")
    /\ UNCHANGED <<ringVars, mutex, message, cursor, sent, readerVars>>

-----------------------------------------------------------------------------
(* The reader: a token, then ring_read of one record *)

TakeToken ==
    /\ source = "wait"
    /\ tokens > 0
    /\ tokens' = tokens - 1
    /\ source' = "token"
    /\ UNCHANGED <<ringVars, mutex, pc, message, cursor, sent, got, taken>>

Available(r) == Length <= Used(r)

StartRead(r) ==
    /\ source = "token"
    /\ Available(r)
    /\ source' = r
    /\ UNCHANGED <<ringVars, mutex, tokens, pc, message, cursor, sent, got, taken>>

ReadByte(r) ==
    /\ source = r
    /\ Len(got) < Length
    /\ got' = Append(got, data[r][read[r]])
    /\ read' = [read EXCEPT ![r] = After(@)]
    /\ UNCHANGED <<data, write, mutex, tokens, pc, message, cursor, sent, source, taken>>

\* A record is the message whose bytes it holds, in order, or torn.
Torn == 0
RecordIn(bytes) ==
    IF \E m \in Message : bytes = [i \in 1 .. Length |-> <<m, i>>]
    THEN CHOOSE m \in Message : bytes = [i \in 1 .. Length |-> <<m, i>>]
    ELSE Torn

EndRead(r) ==
    /\ source = r
    /\ Len(got) = Length
    /\ taken' = [taken EXCEPT ![r] = Append(@, RecordIn(got))]
    /\ source' = "wait" /\ got' = <<>>
    /\ UNCHANGED <<ringVars, mutex, tokens, pc, message, cursor, sent>>

-----------------------------------------------------------------------------
WriterStep(w) == Full(w) \/ Begin(w) \/ CopyByte(w) \/ Publish(w) \/ Post(w)
ReaderStep == TakeToken \/ \E r \in Ring : StartRead(r) \/ ReadByte(r) \/ EndRead(r)

Next == \/ \E w \in Writer : Enqueue(w) \/ WriterStep(w)
        \/ ReaderStep

Spec == Init /\ [][Next]_vars

\* A writer inside the call and the reader's loop go on; nobody has to send.
FairSpec == Spec /\ WF_vars(ReaderStep) /\ \A w \in Writer : WF_vars(WriterStep(w))

-----------------------------------------------------------------------------
(* Properties *)

Labels == {"idle", "check", "copy", "post"}

\* The model's variables keep their types.
TypeOK ==
    /\ data \in [Ring -> [0 .. Size - 1 -> Byte \cup {None}]]
    /\ read \in [Ring -> 0 .. Size - 1] /\ write \in [Ring -> 0 .. Size - 1]
    /\ mutex \in Sender \cup {None} /\ tokens \in Nat /\ sent \in 0 .. MaxSent
    /\ pc \in [Writer -> Labels]
    /\ message \in [Writer -> 0 .. MaxSent] /\ cursor \in [Writer -> 0 .. Size - 1]
    /\ source \in Ring \cup {"wait", "token"} /\ got \in Seq(Byte)
    /\ taken \in [Ring -> Seq(Message)]

\* What the reader has not read of r, from the record it is in.
Unread(r) ==
    LET begun == IF source = r THEN got ELSE <<>>
    IN  begun \o [i \in 1 .. Used(r) |-> data[r][(read[r] + i - 1) % Size]]

\* The records in r.
RecordsOf(r) ==
    [k \in 1 .. Len(Unread(r)) \div Length |->
        RecordIn(SubSeq(Unread(r), (k - 1) * Length + 1, k * Length))]

\* A token for each record: the reader never wakes to two empty rings, and
\* only the writers between publish and post owe one.
Held == IF source = "wait" THEN 0 ELSE 1
TokenPerRecord ==
    Len(RecordsOf("locked")) + Len(RecordsOf("deferred"))
        = tokens + Held + Cardinality({w \in Writer : pc[w] = "post"})

\* The record the reader is in has left the queue.
Waiting(r) == IF source = r THEN Tail(RecordsOf(r)) ELSE RecordsOf(r)
Received(r) == IF source = r THEN Append(taken[r], Head(RecordsOf(r))) ELSE taken[r]

LockedQueue == INSTANCE RecordQueue WITH
    Record <- Message, Capacity <- (Size - 1) \div Length,
    queue <- Waiting("locked"), taken <- Received("locked")
DeferredQueue == INSTANCE RecordQueue WITH
    Record <- Message, Capacity <- (Size - 1) \div Length,
    queue <- Waiting("deferred"), taken <- Received("deferred")

\* Both rings are bounded queues of whole records: no record is torn, lost,
\* doubled or overtaken, wherever its bytes wrap.
ImplementsQueues == LockedQueue!QueueSpec /\ DeferredQueue!QueueSpec

\* Whatever a writer published, the reader empties the ring again: no record
\* is left behind without a token to wake the reader for it.
RecordsArrive == \A r \in Ring : Used(r) > 0 ~> Used(r) = 0
=============================================================================
