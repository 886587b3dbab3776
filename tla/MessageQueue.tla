---------------------------- MODULE MessageQueue ----------------------------
(***************************************************************************)
(* Task messages: src/src/kernel/task_message.rs over the node queues of   *)
(* src/src/kernel/mqueue.rs.  A poster copies its message into a cell of   *)
(* the global pool and sends the cell in a node of its own reply queue's   *)
(* pool.  A receiver pops the node from the target queue, takes the cell   *)
(* out, copies the message and gives both back: the node of a post without *)
(* wait at once, the node of a post with wait ("persistent") only after    *)
(* the message was handled, which is what lets the poster go on.           *)
(*                                                                         *)
(* Everything under one lock is one step.  Waits and wakes are those of    *)
(* Monitor, which CondVar implements: a signal readies some sleeper, which *)
(* looks again under the lock.  Nodes and cells travel between lists and   *)
(* tasks with no lock held, which is what the properties are about.        *)
(***************************************************************************)
EXTENDS Naturals, Sequences, FiniteSets

CONSTANTS Poster,    \* tasks that post, each through its own reply queue
          Dispatcher,  \* tasks that serve the target queue in task_message_dispatch
          Poller,    \* tasks that look into it with mqueue_receive
          Node,      \* the nodes of the reply queues' pools
          owner,     \* the poster whose pool a node belongs to
          Cell,      \* the cells of the task message pool
          None,      \* no node, no cell, no message
          MaxPosts,  \* bound on the messages posted
          Quit       \* the messages with the quit tag

Receiver == Dispatcher \cup Poller
Task == Poster \cup Receiver
Message == 1 .. MaxPosts

ASSUME SidesAssumption == Poster \cap Receiver = {} /\ Dispatcher \cap Poller = {}
ASSUME OwnerAssumption == owner \in [Node -> Poster]
ASSUME NoneAssumption == None \notin Node \cup Cell \cup Nat
ASSUME DispatcherAssumption == IsFiniteSet(Dispatcher)
ASSUME MessageAssumption == MaxPosts \in Nat /\ Quit \subseteq Message

VARIABLES queue,    \* the nodes on the target queue
          free,     \* the nodes on their owners' free lists
          cells,    \* the cells on the pool's free list
          node,     \* the fields of each node: its cell, persistent, valid
          content,  \* the message copied into each cell
          pc,       \* where each task stands
          wait,     \* the message each poster is posting with wait, or None
          held,     \* the node each receiver has taken off the queue
          cell,     \* the cell in each task's hands
          message,  \* the message each receiver has copied out
          posted,   \* the messages posted so far; also the last one's name
          settled   \* ghost: the messages handled or withdrawn

vars == <<queue, free, cells, node, content, pc, wait, held, cell,
          message, posted, settled>>

\* queue_pool_init, for every reply queue.
Init ==
    /\ queue = <<>> /\ free = Node /\ cells = Cell
    /\ node = [n \in Node |-> [cell |-> None, persistent |-> FALSE, valid |-> TRUE]]
    /\ content = [c \in Cell |-> None]
    /\ pc = [t \in Task |-> IF t \in Poster THEN "idle" ELSE "receive"]
    /\ wait = [p \in Poster |-> None]
    /\ held = [r \in Receiver |-> None] /\ cell = [t \in Task |-> None]
    /\ message = [r \in Receiver |-> None]
    /\ posted = 0 /\ settled = {}

\* t goes on to label; the sleepers in woken look at what they slept for again.
LooksAgain(u) == IF u \in Receiver THEN "receive" ELSE "send"
Moves(t, label, woken) ==
    pc' = [[u \in Task |-> IF u \in woken THEN LooksAgain(u) ELSE pc[u]] EXCEPT ![t] = label]
Goto(t, label) == Moves(t, label, {})

Asleep == {d \in Dispatcher : pc[d] = "asleep"}

\* condvar_signal pops one sleeper, if there is one.
OneOf(S) == IF S = {} THEN {{}} ELSE {{s} : s \in S}

-----------------------------------------------------------------------------
(* task_message_post and the queue send it ends in *)

\* With no cell left the post returns 0 and has changed nothing.
AllocateCell(p, w) ==
    /\ pc[p] = "idle"
    /\ posted < MaxPosts
    /\ \E c \in cells :
          /\ cells' = cells \ {c}
          /\ cell' = [cell EXCEPT ![p] = c]
          /\ content' = [content EXCEPT ![c] = posted + 1]
    /\ posted' = posted + 1
    /\ wait' = [wait EXCEPT ![p] = IF w THEN posted + 1 ELSE None]
    /\ Goto(p, "send")
    /\ UNCHANGED <<queue, free, node, held, message, settled>>

FreeOf(p) == {n \in free : owner[n] = p}

\* Mutation: the sender signals only when it finds the queue empty.
SignalledIfEmpty == IF queue = <<>> THEN OneOf(Asleep) ELSE {{}}

\* The sender signals the queue's condition variable once per node.
Signalled == OneOf(Asleep)

Send(p) ==
    /\ pc[p] = "send"
    /\ \E n \in FreeOf(p) :
          /\ free' = free \ {n}
          /\ node' = [node EXCEPT ![n] = [cell |-> cell[p], persistent |-> wait[p] # None, valid |-> TRUE]]
          /\ queue' = Append(queue, n)
    /\ cell' = [cell EXCEPT ![p] = None]
    /\ \E woken \in Signalled : Moves(p, IF wait[p] # None THEN "await" ELSE "idle", woken)
    /\ UNCHANGED <<cells, content, wait, held, message, posted, settled>>

\* No node: a blocking send sleeps for one (notify), any other send fails.
NoNode(p, blocking) ==
    /\ pc[p] = "send"
    /\ FreeOf(p) = {}
    /\ Goto(p, IF blocking THEN "starved" ELSE "failed")
    /\ UNCHANGED <<queue, free, cells, node, content, wait, held, cell,
                   message, posted, settled>>

\* Mutation: the failed post keeps its cell.
GiveBackNothing(p) ==
    /\ pc[p] = "failed"
    /\ cell' = [cell EXCEPT ![p] = None]
    /\ wait' = [wait EXCEPT ![p] = None]
    /\ Goto(p, "idle")
    /\ UNCHANGED <<queue, free, cells, node, content, held,
                   message, posted, settled>>

\* task_message_pool_release: t's cell goes back to the pool.
PoolRelease(t) ==
    /\ cells' = cells \cup {cell[t]}
    /\ cell' = [cell EXCEPT ![t] = None]

\* The failed post gives its cell back and returns 0.
GiveBack(p) ==
    /\ pc[p] = "failed"
    /\ PoolRelease(p)
    /\ wait' = [wait EXCEPT ![p] = None]
    /\ Goto(p, "idle")
    /\ UNCHANGED <<queue, free, node, content, held,
                   message, posted, settled>>

\* The persist semaphore of p's pool is held by the receiver that replies.
Replying(p) == \E r \in Receiver : pc[r] = "restore" /\ owner[held[r]] = p

Return(p) ==
    /\ pc[p] = "answered"
    /\ ~Replying(p)
    /\ wait' = [wait EXCEPT ![p] = None]
    /\ Goto(p, "idle")
    /\ UNCHANGED <<queue, free, cells, node, content, held, cell,
                   message, posted, settled>>

\* Somebody makes a queued message invalid and takes its cell back.
Withdraw(n) ==
    /\ \E i \in DOMAIN queue : queue[i] = n
    /\ node[n].valid
    /\ node' = [node EXCEPT ![n].valid = FALSE, ![n].cell = None]
    /\ cells' = cells \cup {node[n].cell}
    /\ settled' = settled \cup {content[node[n].cell]}
    /\ UNCHANGED <<queue, free, content, pc, wait, held, cell, message, posted>>

-----------------------------------------------------------------------------
(* mqueue_receive and mqueue_receive_wait *)

Pop(r) ==
    /\ pc[r] = "receive"
    /\ queue # <<>>
    /\ held' = [held EXCEPT ![r] = Head(queue)]
    /\ queue' = Tail(queue)
    /\ message' = [message EXCEPT ![r] = None]
    /\ Goto(r, "deliver")
    /\ UNCHANGED <<free, cells, node, content, wait, cell, posted, settled>>

\* mqueue_receive_wait sleeps on the delivery condition variable; mqueue_receive
\* returns 2 and has changed nothing.
Sleep(d) ==
    /\ pc[d] = "receive"
    /\ queue = <<>>
    /\ Goto(d, "asleep")
    /\ UNCHANGED <<queue, free, cells, node, content, wait, held, cell,
                   message, posted, settled>>

\* Mutation: the returned node wakes nobody.
RecycledSilently(r, label) ==
    /\ free' = free \cup {held[r]}
    /\ held' = [held EXCEPT ![r] = None]
    /\ Goto(r, label)

\* mqueue_node_recycle under the pool's lock: free list and notify.
Recycled(r, label) ==
    /\ free' = free \cup {held[r]}
    /\ held' = [held EXCEPT ![r] = None]
    /\ Moves(r, label, {p \in {owner[held[r]]} : pc[p] = "starved"})

\* mqueue_deliver of an invalid node: it is recycled and the receiver tries again.
DeliverInvalid(r) ==
    /\ pc[r] = "deliver"
    /\ ~node[held[r]].valid
    /\ IF node[held[r]].persistent
       THEN Goto(r, "reply") /\ UNCHANGED <<free, held>>
       ELSE Recycled(r, "receive")
    /\ UNCHANGED <<queue, cells, node, content, wait, cell, message, posted, settled>>

\* Mutation: a persistent node is recycled like any other.
DeliverAllAtOnce(r) ==
    /\ pc[r] = "deliver"
    /\ node[held[r]].valid
    /\ cell' = [cell EXCEPT ![r] = node[held[r]].cell]
    /\ free' = free \cup {held[r]}
    /\ held' = [held EXCEPT ![r] = IF node[held[r]].persistent THEN @ ELSE None]
    /\ Goto(r, "copy")
    /\ UNCHANGED <<queue, cells, node, content, wait, message, posted, settled>>

\* mqueue_deliver of a valid node: its data is copied out first; a persistent
\* node stays with the receiver.
Deliver(r) ==
    /\ pc[r] = "deliver"
    /\ node[held[r]].valid
    /\ cell' = [cell EXCEPT ![r] = node[held[r]].cell]
    /\ IF node[held[r]].persistent
       THEN Goto(r, "copy") /\ UNCHANGED <<free, held>>
       ELSE Recycled(r, "copy")
    /\ UNCHANGED <<queue, cells, node, content, wait, message, posted, settled>>

-----------------------------------------------------------------------------
(* task_message_receive and task_message_dispatch *)

\* copy_seven_words, then the cell goes back to the pool.
CopyMessage(r) ==
    /\ pc[r] = "copy"
    /\ message' = [message EXCEPT ![r] = content[cell[r]]]
    /\ PoolRelease(r)
    /\ Goto(r, "handle")
    /\ UNCHANGED <<queue, free, node, content, wait, held, posted, settled>>

\* The loop of task_message_dispatch goes back to the queue, until it has handled
\* the quit message.
NextRound(r) == IF r \in Dispatcher /\ message[r] \in Quit THEN "quit" ELSE "receive"

\* Mutation: the reply is sent before the handlers ran.
ReplyFirst(r) == pc[r] \in {"reply", "handle"} /\ held[r] # None

\* The handlers have run, and the node that waits for the reply comes last.
ReplyDue(r) == pc[r] = "reply"

\* The handlers run until one accepts.
Handle(r) ==
    /\ pc[r] = "handle"
    /\ settled' = settled \cup {message[r]}
    /\ Goto(r, IF held[r] = None THEN NextRound(r) ELSE "reply")
    /\ UNCHANGED <<queue, free, cells, node, content, wait, held, cell,
                   message, posted>>

\* mqueue_node_recycle of a persistent node: under the persist semaphore the
\* poster is signalled, the node goes to its free list, the semaphore is given
\* back; the poster cannot return in between.
Reply(r) ==
    /\ ReplyDue(r)
    /\ LET p == owner[held[r]] IN
          /\ ~Replying(p)
          /\ pc' = [pc EXCEPT ![r] = "restore", ![p] = IF @ = "await" THEN "answered" ELSE @]
    /\ UNCHANGED <<queue, free, cells, node, content, wait, held, cell,
                   message, posted, settled>>

\* Mutation: the cell is given back once more.
RestoreReleases(r) ==
    /\ pc[r] = "restore"
    /\ Recycled(r, NextRound(r))
    /\ PoolRelease(r)
    /\ UNCHANGED <<queue, node, content, wait, message, posted, settled>>

Restore(r) ==
    /\ pc[r] = "restore"
    /\ Recycled(r, NextRound(r))
    /\ UNCHANGED <<queue, cells, node, content, wait, cell, message, posted, settled>>

-----------------------------------------------------------------------------
PosterStep(p) == Send(p) \/ GiveBack(p) \/ Return(p)
ReceiverStep(r) ==
    \/ DeliverInvalid(r) \/ Deliver(r) \/ CopyMessage(r)
    \/ Handle(r) \/ Reply(r) \/ Restore(r)

Next ==
    \/ \E p \in Poster : \/ PosterStep(p)
                         \/ \E w \in BOOLEAN : AllocateCell(p, w)
                         \/ \E blocking \in BOOLEAN : NoNode(p, blocking)
    \/ \E r \in Receiver : Pop(r) \/ ReceiverStep(r)
    \/ \E d \in Dispatcher : Sleep(d)
    \/ \E n \in Node : Withdraw(n)

Spec == Init /\ [][Next]_vars

\* A task inside a call goes on, and the loop of task_message_dispatch calls the
\* waiting receive again.  Nobody has to post or to withdraw.
Fairness ==
    /\ \A p \in Poster : WF_vars(PosterStep(p) \/ \E blocking \in BOOLEAN : NoNode(p, blocking))
    /\ \A r \in Receiver : WF_vars(ReceiverStep(r))
    /\ \A d \in Dispatcher : WF_vars(Pop(d) \/ Sleep(d))
FairSpec == Spec /\ Fairness

-----------------------------------------------------------------------------
(* Properties *)

Labels == {"idle", "send", "await", "starved", "failed", "answered", "receive", "asleep",
           "deliver", "copy", "handle", "reply", "restore", "quit"}

\* The model's variables keep their types.
TypeOK ==
    /\ queue \in Seq(Node) /\ free \subseteq Node /\ cells \subseteq Cell
    /\ node \in [Node -> [cell : Cell \cup {None}, persistent : BOOLEAN, valid : BOOLEAN]]
    /\ content \in [Cell -> Message \cup {None}]
    /\ pc \in [Task -> Labels]
    /\ wait \in [Poster -> Message \cup {None}]
    /\ held \in [Receiver -> Node \cup {None}] /\ cell \in [Task -> Cell \cup {None}]
    /\ message \in [Receiver -> Message \cup {None}]
    /\ posted \in 0 .. MaxPosts /\ settled \subseteq Message

\* Every node is in one place: on its owner's free list, on the queue once, or in
\* the hands of one receiver (task_message_dispatch recycles what deliver kept).
Queued(n) == \E i \in DOMAIN queue : queue[i] = n
NodesInOnePlace ==
    /\ \A i, j \in DOMAIN queue : queue[i] = queue[j] => i = j
    /\ \A r, s \in Receiver : held[r] = held[s] /\ held[r] # None => r = s
    /\ \A n \in Node : LET taken == \E r \in Receiver : held[r] = n IN
          /\ n \in free <=> ~Queued(n) /\ ~taken
          /\ ~(Queued(n) /\ taken)

\* Every cell is in one place: in the pool, in one task's hands, or in one node that
\* is on its way (a post that fails gives it back once, a receive once).
InTransit(n) == node[n].valid /\ (Queued(n) \/ \E r \in Receiver : held[r] = n /\ pc[r] = "deliver")
CellsInOnePlace ==
    /\ \A t, u \in Task : cell[t] = cell[u] /\ cell[t] # None => t = u
    /\ \A m, n \in Node : InTransit(m) /\ InTransit(n) /\ node[m].cell = node[n].cell => m = n
    /\ \A c \in Cell : LET taken == \E t \in Task : cell[t] = c
                            sent == \E n \in Node : InTransit(n) /\ node[n].cell = c IN
          /\ c \in cells <=> ~taken /\ ~sent
          /\ ~(taken /\ sent)

\* No dispatcher sleeps while more nodes are queued than dispatchers are on their
\* way to the queue: a wake that an invalid node used up, or a node that somebody
\* else took first, leaves no message behind.
NoSleeperBesideMessage ==
    Asleep # {} => Len(queue) <= Cardinality({d \in Dispatcher : pc[d] = "receive"})

\* A poster that waits for its reply or for a node returns, unless every dispatcher
\* has met its quit message.
PosterReturns ==
    \A p \in Poster : pc[p] \in {"await", "starved"}
        ~> pc[p] = "idle" \/ \A d \in Dispatcher : pc[d] = "quit"

\* The message of a node, while its cell is there to read.
MessageOf(n) == IF node[n].valid THEN content[node[n].cell] ELSE None

\* A receiver has a message in hand from the pop to the end of the handlers.
InHand(r) ==
    CASE pc[r] = "deliver" -> MessageOf(held[r])
      [] pc[r] = "copy" -> content[cell[r]]
      [] pc[r] = "handle" -> message[r]
      [] OTHER -> None

AsChannel == INSTANCE Channel WITH
    backlog <- [i \in DOMAIN queue |-> MessageOf(queue[i])],
    inHand <- [r \in Receiver |-> InHand(r)],
    awaited <- [p \in Poster |-> IF pc[p] \in {"await", "answered"} THEN wait[p] ELSE None]

\* Messages are taken in order and once, and a post with wait ends after its message
\* was handled or withdrawn: the queues implement Channel.
ImplementsChannel == AsChannel!ChannelSpec
=============================================================================
