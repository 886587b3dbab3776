------------------------- MODULE MessageQueueProofs -------------------------
(***************************************************************************)
(* Theorems about MessageQueue, for every set of posters, nodes, cells and *)
(* pollers, every finite set of dispatchers and every number of messages:  *)
(* nodes and cells are conserved, nobody sleeps beside a message, and the  *)
(* queues implement Channel.                                               *)
(***************************************************************************)
EXTENDS MessageQueue, FiniteSetTheorems, SequenceTheorems, TLAPS

PosterLabels == {"idle", "send", "await", "starved", "failed", "answered"}
ReceiverLabels == {"receive", "asleep", "deliver", "copy", "handle", "reply", "restore", "quit"}

\* Where a poster has its cell.
HasCell == {"send", "starved", "failed"}

\* What each task has in its hands at each label.
PosterStands(p) ==
    /\ pc[p] \in PosterLabels
    /\ IF pc[p] \in HasCell THEN cell[p] \in Cell ELSE cell[p] = None
    /\ pc[p] = "idle" => wait[p] = None
    /\ pc[p] \in {"await", "answered"} => wait[p] # None
ReceiverStands(r) ==
    /\ pc[r] \in ReceiverLabels
    /\ IF pc[r] = "copy" THEN cell[r] \in Cell ELSE cell[r] = None
    /\ pc[r] \in {"receive", "asleep", "quit"} => held[r] = None
    /\ pc[r] \in {"deliver", "reply", "restore"} => held[r] # None
    /\ pc[r] = "asleep" => r \in Dispatcher
TasksStand == (\A p \in Poster : PosterStands(p)) /\ (\A r \in Receiver : ReceiverStands(r))

\* A node on its way has its cell.
Carried == \A n \in Node : InTransit(n) => node[n].cell \in Cell

\* Every posted message is in at most one place: in a cell that is in use, in the
\* hands of one receiver, or settled.
MessagesInOnePlace ==
    /\ settled \subseteq 1 .. posted
    /\ \A c \in Cell \ cells : content[c] \in (1 .. posted) \ settled
    /\ \A c, d \in Cell \ cells : content[c] = content[d] => c = d
    /\ \A r \in Receiver : pc[r] = "handle" =>
          /\ message[r] \in (1 .. posted) \ settled
          /\ \A c \in Cell \ cells : content[c] # message[r]
          /\ \A s \in Receiver : pc[s] = "handle" /\ message[s] = message[r] => s = r

\* Where the message of a post with wait is, told from the poster and from its node.
Persists(n) == node[n].persistent /\ (Queued(n) \/ \E r \in Receiver : held[r] = n)
SentWaits(n) ==
    /\ pc[owner[n]] = "await"
    /\ IF node[n].valid THEN content[node[n].cell] = wait[owner[n]] ELSE wait[owner[n]] \in settled
HeldWaits(r) ==
    LET p == owner[held[r]] IN
        /\ pc[r] = "deliver" => SentWaits(held[r])
        /\ pc[r] = "copy" => pc[p] = "await" /\ content[cell[r]] = wait[p]
        /\ pc[r] = "handle" => pc[p] = "await" /\ message[r] = wait[p]
        /\ pc[r] = "reply" => pc[p] = "await" /\ wait[p] \in settled
        /\ pc[r] = "restore" => pc[p] = "answered"
PosterWaits(p) ==
    /\ pc[p] = "answered" => wait[p] \in settled
    /\ pc[p] \in HasCell => wait[p] \in {None, content[cell[p]]}
QueueWaits == \A n \in Node : Queued(n) /\ node[n].persistent => SentWaits(n)
ReceiverWaits(r) == held[r] # None =>
    /\ pc[r] # "deliver" => node[held[r]].persistent
    /\ node[held[r]].persistent => HeldWaits(r)
OneReply == \A m, n \in Node : Persists(m) /\ Persists(n) /\ owner[m] = owner[n] => m = n
Awaited ==
    /\ \A p \in Poster : PosterWaits(p)
    /\ QueueWaits
    /\ \A r \in Receiver : ReceiverWaits(r)
    /\ OneReply

\* The inductive invariant.
IInv ==
    /\ TypeOK
    /\ TasksStand
    /\ NodesInOnePlace
    /\ CellsInOnePlace /\ Carried
    /\ MessagesInOnePlace
    /\ Awaited
    /\ NoSleeperBesideMessage

-----------------------------------------------------------------------------
(* Sequences of nodes, and what a step does to the tasks it is not about *)

In(q, n) == \E i \in DOMAIN q : q[i] = n
Once(q) == \A i, j \in DOMAIN q : q[i] = q[j] => i = j

\* A node sent is one more node on the queue, and all are there once.
LEMMA Appended ==
    ASSUME NEW q \in Seq(Node), NEW n \in Node, ~In(q, n), Once(q)
    PROVE  /\ Append(q, n) \in Seq(Node)
           /\ Once(Append(q, n))
           /\ \A m : In(Append(q, n), m) <=> In(q, m) \/ m = n
<1> DEFINE a == Append(q, n)
<1>1. /\ a \in Seq(Node) /\ Len(a) = Len(q) + 1 /\ DOMAIN a = 1 .. Len(q) + 1
      /\ \A i \in 1 .. Len(q) : a[i] = q[i]
      /\ a[Len(q) + 1] = n /\ DOMAIN q = 1 .. Len(q) /\ Len(q) \in Nat
  BY AppendProperties
<1> HIDE DEF a
<1>2. Once(a)
  BY <1>1 DEF Once, In
<1>3. \A m : In(a, m) <=> In(q, m) \/ m = n
  BY <1>1 DEF In
<1>4. QED
  BY <1>1, <1>2, <1>3 DEF a

\* A node popped is no longer on the queue, the others still are.
LEMMA Popped ==
    ASSUME NEW q \in Seq(Node), q # <<>>, Once(q)
    PROVE  /\ Tail(q) \in Seq(Node) /\ Head(q) \in Node /\ In(q, Head(q))
           /\ Len(Tail(q)) = Len(q) - 1 /\ Len(q) \in Nat \ {0}
           /\ Once(Tail(q))
           /\ \A m : In(Tail(q), m) <=> In(q, m) /\ m # Head(q)
<1> DEFINE t == Tail(q)
<1>1. /\ t \in Seq(Node) /\ Len(t) = Len(q) - 1 /\ DOMAIN t = 1 .. Len(q) - 1
      /\ \A i \in 1 .. Len(q) - 1 : t[i] = q[i + 1]
      /\ Head(q) = q[1] /\ DOMAIN q = 1 .. Len(q) /\ Len(q) \in Nat \ {0} /\ Head(q) \in Node
  BY HeadTailProperties, LenProperties, EmptySeq, ElementOfSeq
<1> HIDE DEF t
<1>2. Once(t)
  <2>1. ASSUME NEW i \in DOMAIN t, NEW j \in DOMAIN t, t[i] = t[j] PROVE i = j
    <3>1. i + 1 \in DOMAIN q /\ j + 1 \in DOMAIN q /\ q[i + 1] = q[j + 1]
      BY <1>1, <2>1
    <3>2. QED
      BY <1>1, <2>1, <3>1 DEF Once
  <2>2. QED
    BY <2>1 DEF Once
<1>3. ASSUME NEW m PROVE In(t, m) <=> In(q, m) /\ m # Head(q)
  <2>1. ASSUME In(t, m) PROVE In(q, m) /\ m # Head(q)
    <3>1. PICK i \in DOMAIN t : t[i] = m
      BY <2>1 DEF In
    <3>2. i + 1 \in DOMAIN q /\ 1 \in DOMAIN q /\ q[i + 1] = m /\ i + 1 # 1
      BY <1>1, <3>1
    <3>3. QED
      BY <1>1, <3>2 DEF In, Once
  <2>2. ASSUME In(q, m), m # Head(q) PROVE In(t, m)
    <3>1. PICK i \in DOMAIN q : q[i] = m
      BY <2>2 DEF In
    <3>2. i # 1 /\ i - 1 \in DOMAIN t /\ t[i - 1] = m
      BY <1>1, <2>2, <3>1
    <3>3. QED
      BY <3>2 DEF In
  <2>3. QED
    BY <2>1, <2>2
<1>4. In(q, Head(q))
  BY <1>1 DEF In
<1>5. QED
  BY <1>1, <1>2, <1>3, <1>4 DEF t

\* A task that moves is at its new label; the others stay or look again.
LEMMA Moved ==
    ASSUME TypeOK, NEW t \in Task, NEW label \in Labels, NEW woken, Moves(t, label, woken)
    PROVE  /\ pc' \in [Task -> Labels] /\ pc'[t] = label
           /\ \A u \in Task : u # t => pc'[u] = IF u \in woken THEN LooksAgain(u) ELSE pc[u]
BY DEF TypeOK, Moves, LooksAgain, Labels

LEMMA Gone ==
    ASSUME TypeOK, NEW t \in Task, NEW label \in Labels, Goto(t, label)
    PROVE  /\ pc' \in [Task -> Labels] /\ pc'[t] = label
           /\ \A u \in Task : u # t => pc'[u] = pc[u]
BY Moved DEF Goto

\* A send moves its poster and at most one sleeping dispatcher, who exists if any does.
LEMMA SendMoves ==
    ASSUME TypeOK, NEW p \in Poster, NEW label \in Labels,
           \E woken \in Signalled : Moves(p, label, woken)
    PROVE  /\ pc' \in [Task -> Labels] /\ pc'[p] = label
           /\ \A u \in Task : u # p =>
                 \/ pc'[u] = pc[u]
                 \/ u \in Dispatcher /\ pc[u] = "asleep" /\ pc'[u] = "receive"
           /\ Asleep # {} => \E d \in Asleep : pc'[d] = "receive"
<1>1. PICK woken \in Signalled : Moves(p, label, woken)
  OBVIOUS
<1>2. p \in Task /\ p \notin Dispatcher /\ Dispatcher \subseteq Receiver /\ Receiver \subseteq Task
  BY SidesAssumption DEF Task, Receiver
<1>3. woken \subseteq Asleep /\ Asleep \subseteq Dispatcher /\ (Asleep # {} => woken # {})
  BY <1>1 DEF Signalled, OneOf, Asleep
<1>4. /\ pc' \in [Task -> Labels] /\ pc'[p] = label
      /\ \A u \in Task : u # p => pc'[u] = IF u \in woken THEN LooksAgain(u) ELSE pc[u]
  BY <1>1, <1>2, Moved
<1>5. \A u \in woken : u # p /\ u \in Task /\ pc[u] = "asleep" /\ pc'[u] = "receive"
  BY <1>2, <1>3, <1>4 DEF LooksAgain, Asleep
<1>6. QED
  BY <1>2, <1>3, <1>4, <1>5

\* A recycle moves its receiver and at most the owner of the node, who waited for one.
LEMMA RecycledMoves ==
    ASSUME TypeOK, NEW r \in Receiver, held[r] \in Node, NEW label \in Labels, Recycled(r, label)
    PROVE  /\ pc' \in [Task -> Labels] /\ pc'[r] = label
           /\ \A u \in Task : u # r =>
                 \/ pc'[u] = pc[u]
                 \/ u \in Poster /\ pc[u] = "starved" /\ pc'[u] = "send"
<1> DEFINE woken == {p \in {owner[held[r]]} : pc[p] = "starved"}
<1>1. r \in Task /\ Poster \subseteq Task /\ Poster \cap Receiver = {}
  BY SidesAssumption DEF Task
<1>2. woken \subseteq Poster /\ \A u \in woken : pc[u] = "starved"
  BY OwnerAssumption
<1>3. /\ pc' \in [Task -> Labels] /\ pc'[r] = label
      /\ \A u \in Task : u # r => pc'[u] = IF u \in woken THEN LooksAgain(u) ELSE pc[u]
  BY <1>1, Moved DEF Recycled
<1> HIDE DEF woken
<1>4. \A u \in woken : LooksAgain(u) = "send"
  BY <1>1, <1>2 DEF LooksAgain
<1>5. QED
  BY <1>2, <1>3, <1>4

-----------------------------------------------------------------------------
(* The inductive invariant *)

LEMMA TaskSides ==
    /\ Poster \subseteq Task /\ Receiver \subseteq Task /\ Dispatcher \subseteq Receiver
    /\ Poster \cap Receiver = {} /\ Task = Poster \cup Receiver
BY SidesAssumption DEF Task, Receiver

LEMMA InitInvariant == Init => IInv
<1> SUFFICES ASSUME Init PROVE IInv
  OBVIOUS
<1> USE TaskSides, OwnerAssumption, NoneAssumption, MessageAssumption DEF Init
<1>1. TypeOK
  BY DEF TypeOK, Labels, Message
<1>2. TasksStand
  BY DEF TasksStand, PosterStands, ReceiverStands, PosterLabels, ReceiverLabels, HasCell
<1>3. (\A n \in Node : ~Queued(n)) /\ \A r \in Receiver : held[r] = None
  BY DEF Queued
<1>4. NodesInOnePlace
  BY <1>3 DEF NodesInOnePlace
<1>5. CellsInOnePlace /\ Carried
  BY <1>3 DEF CellsInOnePlace, Carried, InTransit
<1>6. MessagesInOnePlace
  BY DEF MessagesInOnePlace
<1>7. Awaited
  BY <1>3 DEF Awaited, PosterWaits, QueueWaits, ReceiverWaits, OneReply, Persists, HasCell
<1>8. NoSleeperBesideMessage
  BY DEF NoSleeperBesideMessage, Asleep
<1>9. QED
  BY <1>1, <1>2, <1>4, <1>5, <1>6, <1>7, <1>8 DEF IInv

\* The cell of a valid node on its way is in use and holds a message that is posted
\* and not settled; so does the cell in a task's hands.
LEMMA CellInUse ==
    ASSUME IInv
    PROVE  /\ \A n \in Node : InTransit(n) =>
                 node[n].cell \in Cell \ cells /\ content[node[n].cell] \in (1 .. posted) \ settled
           /\ \A t \in Task : cell[t] # None =>
                 cell[t] \in Cell \ cells /\ content[cell[t]] \in (1 .. posted) \ settled
           /\ 1 .. posted \subseteq Message
<1> USE NoneAssumption, MessageAssumption
<1>1. \A n \in Node : InTransit(n) => node[n].cell \in Cell \ cells
  BY DEF IInv, Carried, CellsInOnePlace
<1>2. \A t \in Task : cell[t] # None => cell[t] \in Cell \ cells
  BY DEF IInv, TypeOK, CellsInOnePlace
<1>3. 1 .. posted \subseteq Message
  BY DEF IInv, TypeOK, Message
<1>4. QED
  BY <1>1, <1>2, <1>3 DEF IInv, MessagesInOnePlace

LEMMA StepTyped == IInv /\ [Next]_vars => TypeOK'
<1> SUFFICES ASSUME IInv, [Next]_vars PROVE TypeOK'
  OBVIOUS
<1> USE TaskSides, OwnerAssumption, NoneAssumption, MessageAssumption
<1>1. TypeOK /\ TasksStand
  BY DEF IInv
<1>2. ASSUME NEW p \in Poster, NEW w \in BOOLEAN, AllocateCell(p, w) PROVE TypeOK'
  BY <1>1, <1>2, Gone DEF AllocateCell, TypeOK, Labels, Message
<1>3. ASSUME NEW p \in Poster, Send(p) PROVE TypeOK'
  <2>1. pc' \in [Task -> Labels]
    BY <1>1, <1>3, SendMoves DEF Send, Labels
  <2>2. PICK n \in FreeOf(p) :
           /\ free' = free \ {n}
           /\ node' = [node EXCEPT ![n] = [cell |-> cell[p], persistent |-> wait[p] # None, valid |-> TRUE]]
           /\ queue' = Append(queue, n)
    BY <1>3 DEF Send
  <2>3. n \in Node /\ n \in free
    BY <1>1, <2>2 DEF FreeOf, TypeOK
  <2>4. queue' \in Seq(Node)
    BY <1>1, <2>2, <2>3 DEF TypeOK
  <2>5. QED
    BY <1>1, <1>3, <2>1, <2>2, <2>3, <2>4 DEF Send, TypeOK
<1>4. ASSUME NEW p \in Poster, NEW blocking \in BOOLEAN, NoNode(p, blocking) PROVE TypeOK'
  BY <1>1, <1>4, Gone DEF NoNode, TypeOK, Labels
<1>5. ASSUME NEW p \in Poster, GiveBack(p) PROVE TypeOK'
  <2>1. cell[p] \in Cell
    BY <1>1, <1>5 DEF GiveBack, TasksStand, PosterStands, HasCell
  <2>2. QED
    BY <1>1, <1>5, <2>1, Gone DEF GiveBack, PoolRelease, TypeOK, Labels
<1>6. ASSUME NEW p \in Poster, Return(p) PROVE TypeOK'
  BY <1>1, <1>6, Gone DEF Return, TypeOK, Labels
<1>7. ASSUME NEW n \in Node, Withdraw(n) PROVE TypeOK'
  <2>1. InTransit(n)
    BY <1>7 DEF Withdraw, InTransit, Queued
  <2>2. node[n].cell \in Cell /\ content[node[n].cell] \in Message
    BY <2>1, CellInUse
  <2>3. QED
    BY <1>1, <1>7, <2>2 DEF Withdraw, TypeOK
<1>8. ASSUME NEW r \in Receiver, Pop(r) PROVE TypeOK'
  <2>1. queue' \in Seq(Node) /\ Head(queue) \in Node
    BY <1>1, <1>8 DEF Pop, TypeOK
  <2>2. pc' \in [Task -> Labels]
    BY <1>1, <1>8, Gone DEF Pop, Labels
  <2>3. QED
    BY <1>1, <1>8, <2>1, <2>2 DEF Pop, TypeOK
<1>9. ASSUME NEW d \in Dispatcher, Sleep(d) PROVE TypeOK'
  BY <1>1, <1>9, Gone DEF Sleep, TypeOK, Labels
<1>10. ASSUME NEW r \in Receiver, NEW label \in Labels, pc[r] \in {"deliver", "restore"}, Recycled(r, label)
       PROVE  pc' \in [Task -> Labels] /\ free' \subseteq Node /\ held' \in [Receiver -> Node \cup {None}]
  <2>1. held[r] \in Node
    BY <1>1, <1>10 DEF TasksStand, ReceiverStands, TypeOK
  <2>2. pc' \in [Task -> Labels]
    BY <1>1, <1>10, <2>1, RecycledMoves
  <2>3. QED
    BY <1>1, <1>10, <2>1, <2>2 DEF Recycled, TypeOK
<1>11. ASSUME NEW r \in Receiver, DeliverInvalid(r) PROVE TypeOK'
  <2>1. CASE node[held[r]].persistent
    BY <1>1, <1>11, <2>1, Gone DEF DeliverInvalid, TypeOK, Labels
  <2>2. CASE ~node[held[r]].persistent
    BY <1>1, <1>10, <1>11, <2>2 DEF DeliverInvalid, TypeOK, Labels
  <2>3. QED
    BY <2>1, <2>2
<1>12. ASSUME NEW r \in Receiver, Deliver(r) PROVE TypeOK'
  <2>1. held[r] \in Node /\ node[held[r]].cell \in Cell \cup {None}
    BY <1>1, <1>12 DEF Deliver, TasksStand, ReceiverStands, TypeOK
  <2>2. cell' \in [Task -> Cell \cup {None}]
    BY <1>1, <1>12, <2>1 DEF Deliver, TypeOK
  <2>3. CASE node[held[r]].persistent
    BY <1>1, <1>12, <2>2, <2>3, Gone DEF Deliver, TypeOK, Labels
  <2>4. CASE ~node[held[r]].persistent
    BY <1>1, <1>10, <1>12, <2>2, <2>4 DEF Deliver, TypeOK, Labels
  <2>5. QED
    BY <2>3, <2>4
<1>13. ASSUME NEW r \in Receiver, CopyMessage(r) PROVE TypeOK'
  <2>1. cell[r] \in Cell
    BY <1>1, <1>13 DEF CopyMessage, TasksStand, ReceiverStands
  <2>2. QED
    BY <1>1, <1>13, <2>1, Gone DEF CopyMessage, PoolRelease, TypeOK, Labels
<1>14. ASSUME NEW r \in Receiver PROVE NextRound(r) \in Labels
  BY DEF NextRound, Labels
<1>15. ASSUME NEW r \in Receiver, Handle(r) PROVE TypeOK'
  <2>1. message[r] \in Message
    BY <1>15, CellInUse DEF Handle, IInv, MessagesInOnePlace
  <2>2. pc' \in [Task -> Labels]
    BY <1>1, <1>14, <1>15, Gone DEF Handle, Labels
  <2>3. QED
    BY <1>1, <1>15, <2>1, <2>2 DEF Handle, TypeOK
<1>16. ASSUME NEW r \in Receiver, Reply(r) PROVE TypeOK'
  BY <1>1, <1>16 DEF Reply, TypeOK, Labels
<1>17. ASSUME NEW r \in Receiver, Restore(r) PROVE TypeOK'
  BY <1>1, <1>10, <1>14, <1>17 DEF Restore, TypeOK
<1>18. CASE UNCHANGED vars
  BY <1>1, <1>18 DEF vars, TypeOK
<1>19. QED
  BY <1>2, <1>3, <1>4, <1>5, <1>6, <1>7, <1>8, <1>9, <1>11, <1>12, <1>13, <1>15, <1>16, <1>17, <1>18
  DEF Next, PosterStep, ReceiverStep

\* A step leaves u where it is, or lets it look again at what it slept for.
Stays(u) ==
    \/ pc'[u] = pc[u]
    \/ u \in Dispatcher /\ pc[u] = "asleep" /\ pc'[u] = "receive"
    \/ u \in Poster /\ pc[u] = "starved" /\ pc'[u] = "send"

\* A step of t leaves what the other tasks have in their hands.
LEMMA OthersStand ==
    ASSUME TasksStand, NEW t \in Task,
           \A u \in Task : u # t => Stays(u) /\ cell'[u] = cell[u],
           \A p \in Poster : p # t => wait'[p] = wait[p],
           \A r \in Receiver : r # t => held'[r] = held[r]
    PROVE  /\ \A p \in Poster : p # t => PosterStands(p)'
           /\ \A r \in Receiver : r # t => ReceiverStands(r)'
<1> USE TaskSides
<1>1. ASSUME NEW p \in Poster, p # t PROVE PosterStands(p)'
  BY <1>1 DEF TasksStand, PosterStands, Stays, PosterLabels, HasCell
<1>2. ASSUME NEW r \in Receiver, r # t PROVE ReceiverStands(r)'
  BY <1>2 DEF TasksStand, ReceiverStands, Stays, ReceiverLabels
<1>3. QED
  BY <1>1, <1>2

LEMMA StepTasks == IInv /\ [Next]_vars => TasksStand'
<1> SUFFICES ASSUME IInv, [Next]_vars PROVE TasksStand'
  OBVIOUS
<1> USE TaskSides, OwnerAssumption, NoneAssumption, MessageAssumption
<1>1. TypeOK /\ TasksStand
  BY DEF IInv
<1>p. ASSUME NEW p \in Poster,
             \A u \in Task : u # p => Stays(u) /\ cell'[u] = cell[u],
             \A q \in Poster : q # p => wait'[q] = wait[q],
             UNCHANGED held, PosterStands(p)'
      PROVE  TasksStand'
  BY <1>1, <1>p, OthersStand DEF TasksStand
<1>r. ASSUME NEW r \in Receiver,
             \A u \in Task : u # r => Stays(u) /\ cell'[u] = cell[u],
             \A s \in Receiver : s # r => held'[s] = held[s],
             UNCHANGED wait, ReceiverStands(r)'
      PROVE  TasksStand'
  BY <1>1, <1>r, OthersStand DEF TasksStand
<1>2. ASSUME NEW p \in Poster, NEW w \in BOOLEAN, AllocateCell(p, w) PROVE TasksStand'
  <2>1. pc'[p] = "send" /\ \A u \in Task : u # p => pc'[u] = pc[u]
    BY <1>1, <1>2, Gone DEF AllocateCell, Labels
  <2>2. PICK c \in cells : cell' = [cell EXCEPT ![p] = c]
    BY <1>2 DEF AllocateCell
  <2>3. PosterStands(p)'
    BY <1>1, <1>2, <2>1, <2>2 DEF AllocateCell, TypeOK, PosterStands, PosterLabels, HasCell
  <2>4. QED
    BY <1>1, <1>2, <1>p, <2>1, <2>2, <2>3 DEF AllocateCell, Stays, TypeOK
<1>3. ASSUME NEW p \in Poster, Send(p) PROVE TasksStand'
  <2>1. /\ pc'[p] = IF wait[p] # None THEN "await" ELSE "idle"
        /\ \A u \in Task : u # p => Stays(u)
    BY <1>1, <1>3, SendMoves DEF Send, Labels, Stays
  <2>2. PosterStands(p)'
    BY <1>1, <1>3, <2>1 DEF Send, TypeOK, PosterStands, PosterLabels, HasCell
  <2>3. QED
    BY <1>1, <1>3, <1>p, <2>1, <2>2 DEF Send, TypeOK
<1>4. ASSUME NEW p \in Poster, NEW blocking \in BOOLEAN, NoNode(p, blocking) PROVE TasksStand'
  <2>1. pc'[p] \in {"starved", "failed"} /\ \A u \in Task : u # p => pc'[u] = pc[u]
    BY <1>1, <1>4, Gone DEF NoNode, Labels
  <2>2. PosterStands(p)'
    BY <1>1, <1>4, <2>1 DEF NoNode, TasksStand, PosterStands, PosterLabels, HasCell
  <2>3. QED
    BY <1>1, <1>4, <1>p, <2>1, <2>2 DEF NoNode, Stays
<1>5. ASSUME NEW p \in Poster, GiveBack(p) PROVE TasksStand'
  <2>1. pc'[p] = "idle" /\ \A u \in Task : u # p => pc'[u] = pc[u]
    BY <1>1, <1>5, Gone DEF GiveBack, Labels
  <2>2. PosterStands(p)'
    BY <1>1, <1>5, <2>1 DEF GiveBack, PoolRelease, TypeOK, PosterStands, PosterLabels, HasCell
  <2>3. QED
    BY <1>1, <1>5, <1>p, <2>1, <2>2 DEF GiveBack, PoolRelease, Stays, TypeOK
<1>6. ASSUME NEW p \in Poster, Return(p) PROVE TasksStand'
  <2>1. pc'[p] = "idle" /\ \A u \in Task : u # p => pc'[u] = pc[u]
    BY <1>1, <1>6, Gone DEF Return, Labels
  <2>2. PosterStands(p)'
    BY <1>1, <1>6, <2>1 DEF Return, TasksStand, TypeOK, PosterStands, PosterLabels, HasCell
  <2>3. QED
    BY <1>1, <1>6, <1>p, <2>1, <2>2 DEF Return, Stays, TypeOK
<1>7. ASSUME NEW n \in Node, Withdraw(n) PROVE TasksStand'
  BY <1>1, <1>7 DEF Withdraw, TasksStand, PosterStands, ReceiverStands
<1>8. ASSUME NEW r \in Receiver, Pop(r) PROVE TasksStand'
  <2>1. pc'[r] = "deliver" /\ \A u \in Task : u # r => pc'[u] = pc[u]
    BY <1>1, <1>8, Gone DEF Pop, Labels
  <2>2. Head(queue) \in Node
    BY <1>1, <1>8 DEF Pop, TypeOK
  <2>3. ReceiverStands(r)'
    BY <1>1, <1>8, <2>1, <2>2 DEF Pop, TasksStand, TypeOK, ReceiverStands, ReceiverLabels
  <2>4. QED
    BY <1>1, <1>8, <1>r, <2>1, <2>3 DEF Pop, Stays, TypeOK
<1>9. ASSUME NEW d \in Dispatcher, Sleep(d) PROVE TasksStand'
  <2>1. pc'[d] = "asleep" /\ \A u \in Task : u # d => pc'[u] = pc[u]
    BY <1>1, <1>9, Gone DEF Sleep, Labels
  <2>2. ReceiverStands(d)'
    BY <1>1, <1>9, <2>1 DEF Sleep, TasksStand, ReceiverStands, ReceiverLabels
  <2>3. QED
    BY <1>1, <1>9, <1>r, <2>1, <2>2 DEF Sleep, Stays
<1>10. ASSUME NEW r \in Receiver, NEW label \in {"receive", "copy", "quit"}, pc[r] \in {"deliver", "restore"},
              Recycled(r, label), UNCHANGED wait, \A u \in Task : u # r => cell'[u] = cell[u],
              IF label = "copy" THEN cell'[r] \in Cell ELSE cell'[r] = None
       PROVE  TasksStand'
  <2>1. held[r] \in Node
    BY <1>1, <1>10 DEF TasksStand, ReceiverStands, TypeOK
  <2>2. pc'[r] = label /\ \A u \in Task : u # r => Stays(u)
    BY <1>1, <1>10, <2>1, RecycledMoves DEF Stays, Labels
  <2>3. held' = [held EXCEPT ![r] = None]
    BY <1>10 DEF Recycled
  <2>4. ReceiverStands(r)'
    BY <1>1, <1>10, <2>2, <2>3 DEF TypeOK, ReceiverStands, ReceiverLabels
  <2>5. QED
    BY <1>1, <1>10, <1>r, <2>2, <2>3, <2>4 DEF TypeOK
<1>11. ASSUME NEW r \in Receiver, DeliverInvalid(r) PROVE TasksStand'
  <2>1. cell[r] = None /\ held[r] # None
    BY <1>1, <1>11 DEF DeliverInvalid, TasksStand, ReceiverStands
  <2>2. CASE node[held[r]].persistent
    <3>1. pc'[r] = "reply" /\ \A u \in Task : u # r => pc'[u] = pc[u]
      BY <1>1, <1>11, <2>2, Gone DEF DeliverInvalid, Labels
    <3>2. ReceiverStands(r)'
      BY <1>11, <2>1, <2>2, <3>1 DEF DeliverInvalid, ReceiverStands, ReceiverLabels
    <3>3. QED
      BY <1>11, <1>r, <2>2, <3>1, <3>2 DEF DeliverInvalid, Stays
  <2>3. CASE ~node[held[r]].persistent
    BY <1>10, <1>11, <2>1, <2>3 DEF DeliverInvalid
  <2>4. QED
    BY <2>2, <2>3
<1>12. ASSUME NEW r \in Receiver, Deliver(r) PROVE TasksStand'
  <2>1. held[r] \in Node
    BY <1>1, <1>12 DEF Deliver, TasksStand, ReceiverStands, TypeOK
  <2>2. node[held[r]].cell \in Cell
    BY <1>12, <2>1 DEF Deliver, IInv, Carried, InTransit
  <2>3. cell'[r] \in Cell /\ \A u \in Task : u # r => cell'[u] = cell[u]
    BY <1>1, <1>12, <2>2 DEF Deliver, TypeOK
  <2>4. CASE node[held[r]].persistent
    <3>1. pc'[r] = "copy" /\ \A u \in Task : u # r => pc'[u] = pc[u]
      BY <1>1, <1>12, <2>4, Gone DEF Deliver, Labels
    <3>2. ReceiverStands(r)'
      BY <1>12, <2>3, <2>4, <3>1 DEF Deliver, ReceiverStands, ReceiverLabels
    <3>3. QED
      BY <1>12, <1>r, <2>3, <2>4, <3>1, <3>2 DEF Deliver, Stays
  <2>5. CASE ~node[held[r]].persistent
    BY <1>10, <1>12, <2>3, <2>5 DEF Deliver
  <2>6. QED
    BY <2>4, <2>5
<1>13. ASSUME NEW r \in Receiver, CopyMessage(r) PROVE TasksStand'
  <2>1. pc'[r] = "handle" /\ \A u \in Task : u # r => pc'[u] = pc[u]
    BY <1>1, <1>13, Gone DEF CopyMessage, Labels
  <2>2. ReceiverStands(r)'
    BY <1>1, <1>13, <2>1 DEF CopyMessage, PoolRelease, TypeOK, ReceiverStands, ReceiverLabels
  <2>3. QED
    BY <1>1, <1>13, <1>r, <2>1, <2>2 DEF CopyMessage, PoolRelease, Stays, TypeOK
<1>14. ASSUME NEW r \in Receiver PROVE NextRound(r) \in {"receive", "quit"}
  BY DEF NextRound
<1>15. ASSUME NEW r \in Receiver, Handle(r) PROVE TasksStand'
  <2>1. /\ pc'[r] = IF held[r] = None THEN NextRound(r) ELSE "reply"
        /\ \A u \in Task : u # r => pc'[u] = pc[u]
    BY <1>1, <1>14, <1>15, Gone DEF Handle, Labels
  <2>2. ReceiverStands(r)'
    BY <1>1, <1>14, <1>15, <2>1 DEF Handle, TasksStand, ReceiverStands, ReceiverLabels
  <2>3. QED
    BY <1>15, <1>r, <2>1, <2>2 DEF Handle, Stays
<1>16. ASSUME NEW r \in Receiver, Reply(r) PROVE TasksStand'
  <2> DEFINE p == owner[held[r]]
  <2>1. pc[r] = "reply" /\ held[r] \in Node /\ p \in Poster
    BY <1>1, <1>16 DEF Reply, ReplyDue, TasksStand, ReceiverStands, TypeOK
  <2>2. /\ pc'[r] = "restore" /\ pc'[p] = IF pc[p] = "await" THEN "answered" ELSE pc[p]
        /\ \A u \in Task \ {r, p} : pc'[u] = pc[u]
    BY <1>1, <1>16, <2>1 DEF Reply, TypeOK
  <2>3. UNCHANGED <<cell, wait, held>>
    BY <1>16 DEF Reply
  <2>4. ASSUME NEW q \in Poster PROVE PosterStands(q)'
    BY <1>1, <2>1, <2>2, <2>3 DEF TasksStand, PosterStands, PosterLabels, HasCell
  <2>5. ASSUME NEW s \in Receiver PROVE ReceiverStands(s)'
    BY <1>1, <2>1, <2>2, <2>3 DEF TasksStand, ReceiverStands, ReceiverLabels
  <2>6. QED
    BY <2>4, <2>5 DEF TasksStand
<1>17. ASSUME NEW r \in Receiver, Restore(r) PROVE TasksStand'
  <2>1. cell[r] = None
    BY <1>1, <1>17 DEF Restore, TasksStand, ReceiverStands
  <2>2. QED
    BY <1>10, <1>14, <1>17, <2>1 DEF Restore
<1>18. CASE UNCHANGED vars
  BY <1>1, <1>18 DEF vars, TasksStand, PosterStands, ReceiverStands
<1>19. QED
  BY <1>2, <1>3, <1>4, <1>5, <1>6, <1>7, <1>8, <1>9, <1>11, <1>12, <1>13, <1>15, <1>16, <1>17, <1>18
  DEF Next, PosterStep, ReceiverStep

\* A receiver that delivers, replies or restores has a node.
LEMMA HasNode ==
    ASSUME IInv, NEW r \in Receiver, pc[r] \in {"deliver", "reply", "restore"}
    PROVE  held[r] \in Node /\ owner[held[r]] \in Poster /\ ~Queued(held[r]) /\ held[r] \notin free
BY OwnerAssumption DEF IInv, TasksStand, ReceiverStands, TypeOK, NodesInOnePlace

\* What the pop leaves on the queue.
LEMMA PopQueued ==
    ASSUME IInv, NEW r \in Receiver, Pop(r)
    PROVE  /\ held[r] = None /\ held' = [held EXCEPT ![r] = Head(queue)]
           /\ Head(queue) \in Node /\ Queued(Head(queue)) /\ \A s \in Receiver : held[s] # Head(queue)
           /\ \A i, j \in DOMAIN queue' : queue'[i] = queue'[j] => i = j
           /\ \A n \in Node : Queued(n)' <=> Queued(n) /\ n # Head(queue)
           /\ queue \in Seq(Node) /\ Len(queue') = Len(queue) - 1 /\ Len(queue) \in Nat \ {0}
<1>1. queue \in Seq(Node) /\ queue # <<>> /\ Once(queue) /\ queue' = Tail(queue)
  BY DEF IInv, TypeOK, NodesInOnePlace, Once, Pop
<1>2. /\ Head(queue) \in Node /\ In(queue, Head(queue))
      /\ Len(Tail(queue)) = Len(queue) - 1 /\ Len(queue) \in Nat \ {0}
      /\ Once(Tail(queue))
      /\ \A m : In(Tail(queue), m) <=> In(queue, m) /\ m # Head(queue)
  BY <1>1, Popped
<1>3. held[r] = None /\ held' = [held EXCEPT ![r] = Head(queue)]
  BY DEF Pop, IInv, TasksStand, ReceiverStands
<1>4. \A s \in Receiver : held[s] # Head(queue)
  BY <1>2 DEF IInv, NodesInOnePlace, Queued, In
<1>5. QED
  BY <1>1, <1>2, <1>3, <1>4 DEF Once, In, Queued

\* What the send puts on the queue.
LEMMA SendQueued ==
    ASSUME IInv, NEW p \in Poster, Send(p)
    PROVE  \E n \in Node :
              /\ n \in free /\ owner[n] = p /\ ~Queued(n) /\ \A s \in Receiver : held[s] # n
              /\ free' = free \ {n}
              /\ node' = [node EXCEPT ![n] = [cell |-> cell[p], persistent |-> wait[p] # None, valid |-> TRUE]]
              /\ queue' = Append(queue, n)
              /\ \A i, j \in DOMAIN queue' : queue'[i] = queue'[j] => i = j
              /\ \A m \in Node : Queued(m)' <=> Queued(m) \/ m = n
              /\ queue \in Seq(Node) /\ Len(queue') = Len(queue) + 1 /\ Len(queue) \in Nat
<1>1. PICK n \in FreeOf(p) :
         /\ free' = free \ {n}
         /\ node' = [node EXCEPT ![n] = [cell |-> cell[p], persistent |-> wait[p] # None, valid |-> TRUE]]
         /\ queue' = Append(queue, n)
  BY DEF Send
<1>2. n \in Node /\ n \in free /\ owner[n] = p /\ queue \in Seq(Node) /\ Once(queue)
  BY <1>1 DEF FreeOf, IInv, TypeOK, NodesInOnePlace, Once
<1>3. ~In(queue, n) /\ ~Queued(n) /\ \A s \in Receiver : held[s] # n
  BY <1>2 DEF IInv, NodesInOnePlace, Queued, In
<1>4. Once(Append(queue, n)) /\ \A m : In(Append(queue, n), m) <=> In(queue, m) \/ m = n
  BY <1>2, <1>3, Appended
<1>5. Len(Append(queue, n)) = Len(queue) + 1 /\ Len(queue) \in Nat
  BY <1>2, AppendProperties, LenProperties
<1>6. QED
  BY <1>1, <1>2, <1>3, <1>4, <1>5 DEF Once, In, Queued

LEMMA StepNodes == IInv /\ [Next]_vars => NodesInOnePlace'
<1> SUFFICES ASSUME IInv, [Next]_vars PROVE NodesInOnePlace'
  OBVIOUS
<1> USE TaskSides, NoneAssumption
<1>1. TypeOK /\ NodesInOnePlace
  BY DEF IInv
<1>2. ASSUME UNCHANGED <<queue, held, free>> PROVE NodesInOnePlace'
  BY <1>1, <1>2 DEF NodesInOnePlace, Queued
<1>3. ASSUME NEW p \in Poster, Send(p) PROVE NodesInOnePlace'
  <2>1. UNCHANGED held
    BY <1>3 DEF Send
  <2>2. PICK n \in Node :
              /\ n \in free /\ ~Queued(n) /\ \A s \in Receiver : held[s] # n
              /\ free' = free \ {n}
              /\ \A i, j \in DOMAIN queue' : queue'[i] = queue'[j] => i = j
              /\ \A m \in Node : Queued(m)' <=> Queued(m) \/ m = n
    BY <1>3, SendQueued
  <2>3. QED
    BY <1>1, <2>1, <2>2 DEF NodesInOnePlace
<1>4. ASSUME NEW r \in Receiver, Pop(r) PROVE NodesInOnePlace'
  <2>1. UNCHANGED free
    BY <1>4 DEF Pop
  <2>2. /\ held[r] = None /\ held' = [held EXCEPT ![r] = Head(queue)]
        /\ Head(queue) \in Node /\ Queued(Head(queue)) /\ \A s \in Receiver : held[s] # Head(queue)
        /\ \A i, j \in DOMAIN queue' : queue'[i] = queue'[j] => i = j
        /\ \A n \in Node : Queued(n)' <=> Queued(n) /\ n # Head(queue)
    BY <1>4, PopQueued
  <2>3. held'[r] = Head(queue) /\ \A s \in Receiver : s # r => held'[s] = held[s]
    BY <1>1, <2>2 DEF TypeOK
  <2>4. \A n \in Node : (\E s \in Receiver : held'[s] = n) <=> (\E s \in Receiver : held[s] = n) \/ n = Head(queue)
    BY <2>2, <2>3
  <2>5. QED
    BY <1>1, <2>1, <2>2, <2>3, <2>4 DEF NodesInOnePlace
<1>5. ASSUME NEW r \in Receiver, NEW label, pc[r] \in {"deliver", "restore"},
             Recycled(r, label), UNCHANGED queue
      PROVE  NodesInOnePlace'
  <2>1. held[r] \in Node /\ ~Queued(held[r]) /\ held[r] \notin free
    BY <1>5, HasNode
  <2>2. free' = free \cup {held[r]} /\ held'[r] = None /\ \A s \in Receiver : s # r => held'[s] = held[s]
    BY <1>1, <1>5 DEF Recycled, TypeOK
  <2>3. \A n \in Node : (\E s \in Receiver : held'[s] = n) <=> (\E s \in Receiver : held[s] = n) /\ n # held[r]
    BY <1>1, <2>1, <2>2 DEF NodesInOnePlace
  <2>4. \A n \in Node : Queued(n)' <=> Queued(n)
    BY <1>5 DEF Queued
  <2>5. QED
    BY <1>1, <1>5, <2>1, <2>2, <2>3, <2>4 DEF NodesInOnePlace
<1>6. ASSUME NEW r \in Receiver, DeliverInvalid(r) PROVE NodesInOnePlace'
  BY <1>2, <1>5, <1>6 DEF DeliverInvalid
<1>7. ASSUME NEW r \in Receiver, Deliver(r) PROVE NodesInOnePlace'
  BY <1>2, <1>5, <1>7 DEF Deliver
<1>8. ASSUME NEW r \in Receiver, Restore(r) PROVE NodesInOnePlace'
  BY <1>5, <1>8 DEF Restore
<1>9. QED
  BY <1>2, <1>3, <1>4, <1>6, <1>7, <1>8
  DEF Next, PosterStep, ReceiverStep, AllocateCell, NoNode, GiveBack, Return, Withdraw, Sleep,
      CopyMessage, Handle, Reply, PoolRelease, vars

\* A recycle leaves r with nothing, and no other receiver at another delivery.
LEMMA RecycledDelivery ==
    ASSUME IInv, NEW r \in Receiver, pc[r] \in {"deliver", "restore"},
           NEW label \in {"receive", "copy", "quit"}, Recycled(r, label)
    PROVE  /\ pc'[r] = label /\ held'[r] = None
           /\ \A u \in Task : u # r => Stays(u)
           /\ \A s \in Receiver : s # r =>
                 held'[s] = held[s] /\ (pc'[s] = "deliver" <=> pc[s] = "deliver")
<1>1. TypeOK /\ held[r] \in Node
  BY HasNode DEF IInv
<1>2. pc'[r] = label /\ \A u \in Task : u # r => Stays(u)
  BY <1>1, RecycledMoves DEF Stays, Labels
<1>3. \A s \in Receiver : s # r => (pc'[s] = "deliver" <=> pc[s] = "deliver")
  BY <1>2, TaskSides DEF Stays
<1>4. QED
  BY <1>1, <1>2, <1>3 DEF Recycled, TypeOK

\* What a task does that takes no part in a delivery leaves the nodes on their way.
LEMMA TransitKept ==
    ASSUME UNCHANGED <<node, queue>>,
           \A r \in Receiver : /\ pc'[r] = "deliver" <=> pc[r] = "deliver"
                               /\ pc[r] = "deliver" => held'[r] = held[r]
    PROVE  \A n \in Node : InTransit(n)' <=> InTransit(n)
BY DEF InTransit, Queued

LEMMA SendTransit ==
    ASSUME IInv, NEW p \in Poster, Send(p)
    PROVE  \E n \in Node :
              /\ node' = [node EXCEPT ![n] = [cell |-> cell[p], persistent |-> wait[p] # None, valid |-> TRUE]]
              /\ ~InTransit(n)
              /\ \A m \in Node : InTransit(m)' <=> InTransit(m) \/ m = n
<1>1. PICK n \in Node :
              /\ ~Queued(n) /\ \A s \in Receiver : held[s] # n
              /\ node' = [node EXCEPT ![n] = [cell |-> cell[p], persistent |-> wait[p] # None, valid |-> TRUE]]
              /\ \A m \in Node : Queued(m)' <=> Queued(m) \/ m = n
  BY SendQueued
<1>2. /\ node'[n].valid
      /\ \A m \in Node : m # n => node'[m] = node[m]
  BY <1>1 DEF IInv, TypeOK
<1>3. \A u \in Task : u # p => Stays(u)
  BY SendMoves DEF IInv, Send, Labels, Stays
<1>4. \A r \in Receiver : held'[r] = held[r] /\ (pc'[r] = "deliver" <=> pc[r] = "deliver")
  BY <1>3, TaskSides DEF Send, Stays
<1>5. ~InTransit(n)
  BY <1>1 DEF InTransit
<1>6. ASSUME NEW m \in Node PROVE InTransit(m)' <=> InTransit(m) \/ m = n
  <2>1. (\E r \in Receiver : held'[r] = m /\ pc'[r] = "deliver")
           <=> (\E r \in Receiver : held[r] = m /\ pc[r] = "deliver")
    BY <1>4
  <2>2. QED
    BY <1>1, <1>2, <2>1 DEF InTransit
<1>7. QED
  BY <1>1, <1>5, <1>6

LEMMA PopTransit ==
    ASSUME IInv, NEW r \in Receiver, Pop(r)
    PROVE  \A m \in Node : InTransit(m)' <=> InTransit(m)
<1> DEFINE h == Head(queue)
<1>1. /\ held[r] = None /\ held' = [held EXCEPT ![r] = h]
      /\ h \in Node /\ Queued(h) /\ \A s \in Receiver : held[s] # h
      /\ \A n \in Node : Queued(n)' <=> Queued(n) /\ n # h
  BY PopQueued
<1> HIDE DEF h
<1>2. pc[r] = "receive" /\ pc'[r] = "deliver" /\ \A u \in Task : u # r => pc'[u] = pc[u]
  BY TaskSides, Gone DEF Pop, IInv, Labels
<1>3. held'[r] = h /\ \A s \in Receiver : s # r => held'[s] = held[s] /\ pc'[s] = pc[s]
  BY <1>1, <1>2, TaskSides DEF IInv, TypeOK
<1>4. UNCHANGED node
  BY DEF Pop
<1>5. \A m \in Node : (\E s \in Receiver : held'[s] = m /\ pc'[s] = "deliver")
           <=> (\E s \in Receiver : held[s] = m /\ pc[s] = "deliver") \/ m = h
  BY <1>1, <1>2, <1>3
<1>6. QED
  BY <1>1, <1>4, <1>5 DEF InTransit

LEMMA WithdrawTransit ==
    ASSUME IInv, NEW n \in Node, Withdraw(n)
    PROVE  /\ InTransit(n) /\ \A m \in Node : InTransit(m)' <=> InTransit(m) /\ m # n
           /\ ~node'[n].valid /\ node'[n].persistent = node[n].persistent
           /\ \A m \in Node : m # n => node'[m] = node[m]
<1>1. InTransit(n)
  BY DEF Withdraw, InTransit, Queued
<1>2. /\ ~node'[n].valid /\ node'[n].persistent = node[n].persistent
      /\ \A m \in Node : m # n => node'[m] = node[m]
  BY DEF Withdraw, IInv, TypeOK
<1>3. UNCHANGED <<queue, held, pc>>
  BY DEF Withdraw
<1>4. QED
  BY <1>1, <1>2, <1>3 DEF InTransit, Queued

\* The end of a delivery: r's node is no longer on its way.
LEMMA DeliveryTransit ==
    ASSUME IInv, NEW r \in Receiver, pc[r] = "deliver", UNCHANGED <<node, queue>>,
           pc'[r] # "deliver",
           \A s \in Receiver : s # r =>
                 held'[s] = held[s] /\ (pc'[s] = "deliver" <=> pc[s] = "deliver")
    PROVE  \A m \in Node : InTransit(m)' <=> InTransit(m) /\ m # held[r]
<1>1. held[r] \in Node /\ ~Queued(held[r])
  BY HasNode
<1>2. \A s \in Receiver : s # r => held[s] # held[r]
  BY <1>1, NoneAssumption DEF IInv, NodesInOnePlace
<1>3. \A m \in Node : (\E s \in Receiver : held'[s] = m /\ pc'[s] = "deliver")
           <=> (\E s \in Receiver : held[s] = m /\ pc[s] = "deliver") /\ m # held[r]
  BY <1>2
<1>4. \A m \in Node : Queued(m)' <=> Queued(m)
  BY DEF Queued
<1>5. QED
  BY <1>1, <1>3, <1>4 DEF InTransit

\* What DeliverInvalid and Deliver do to the tasks.
LEMMA Delivered ==
    ASSUME IInv, NEW r \in Receiver, DeliverInvalid(r) \/ Deliver(r)
    PROVE  /\ pc[r] = "deliver" /\ held[r] \in Node /\ UNCHANGED <<node, queue>>
           /\ pc'[r] \in {"reply", "receive", "copy"}
           /\ \A u \in Task : u # r => Stays(u)
           /\ \A s \in Receiver : s # r =>
                 held'[s] = held[s] /\ (pc'[s] = "deliver" <=> pc[s] = "deliver")
           /\ IF node[held[r]].persistent THEN held'[r] = held[r] /\ pc'[r] # "receive"
              ELSE held'[r] = None /\ pc'[r] # "reply"
           /\ pc'[r] = "copy" <=> node[held[r]].valid
           /\ \A m \in Node : InTransit(m)' <=> InTransit(m) /\ m # held[r]
<1>1. pc[r] = "deliver" /\ held[r] \in Node /\ UNCHANGED <<node, queue>> /\ TypeOK /\ r \in Task
  BY HasNode, TaskSides DEF DeliverInvalid, Deliver, IInv
<1>2. /\ pc'[r] \in {"reply", "receive", "copy"}
      /\ \A u \in Task : u # r => Stays(u)
      /\ \A s \in Receiver : s # r =>
                 held'[s] = held[s] /\ (pc'[s] = "deliver" <=> pc[s] = "deliver")
      /\ IF node[held[r]].persistent THEN held'[r] = held[r] /\ pc'[r] # "receive"
              ELSE held'[r] = None /\ pc'[r] # "reply"
      /\ pc'[r] = "copy" <=> node[held[r]].valid
  <2>1. CASE node[held[r]].persistent
    <3>1. PICK label \in {"reply", "copy"} :
             Goto(r, label) /\ UNCHANGED held /\ (label = "copy" <=> node[held[r]].valid)
      BY <2>1 DEF DeliverInvalid, Deliver
    <3>2. pc'[r] = label /\ \A u \in Task : u # r => pc'[u] = pc[u]
      BY <1>1, <3>1, Gone DEF Labels
    <3>3. QED
      BY <2>1, <3>1, <3>2, TaskSides DEF Stays
  <2>2. CASE ~node[held[r]].persistent
    <3>1. PICK label \in {"receive", "copy"} : Recycled(r, label) /\ (label = "copy" <=> node[held[r]].valid)
      BY <2>2 DEF DeliverInvalid, Deliver
    <3>2. QED
      BY <1>1, <2>2, <3>1, RecycledDelivery
  <2>3. QED
    BY <2>1, <2>2
<1>3. pc'[r] # "deliver"
  BY <1>2
<1>4. \A m \in Node : InTransit(m)' <=> InTransit(m) /\ m # held[r]
  BY <1>1, <1>2, <1>3, DeliveryTransit
<1>5. QED
  BY <1>1, <1>2, <1>4

\* The steps that neither queue, take nor deliver a node.
Elsewhere ==
    \/ \E p \in Poster : \/ GiveBack(p) \/ Return(p)
                         \/ \E w \in BOOLEAN : AllocateCell(p, w)
                         \/ \E blocking \in BOOLEAN : NoNode(p, blocking)
    \/ \E r \in Receiver : CopyMessage(r) \/ Handle(r) \/ Reply(r) \/ Restore(r)
    \/ \E d \in Dispatcher : Sleep(d)

LEMMA ElsewhereTransit ==
    ASSUME IInv, Elsewhere
    PROVE  UNCHANGED <<node, queue>> /\ \A n \in Node : InTransit(n)' <=> InTransit(n)
<1> DEFINE Kept == \A r \in Receiver : /\ pc'[r] = "deliver" <=> pc[r] = "deliver"
                                       /\ pc[r] = "deliver" => held'[r] = held[r]
<1> USE TaskSides
<1>1. TypeOK
  BY DEF IInv
<1>2. UNCHANGED <<node, queue>>
  BY DEF Elsewhere, GiveBack, Return, AllocateCell, NoNode, CopyMessage, Handle, Reply, Restore, Sleep
<1>3. ASSUME NEW t \in Task, NEW label \in Labels, label # "deliver", pc[t] # "deliver",
             Goto(t, label), UNCHANGED held
      PROVE  Kept
  BY <1>1, <1>3, Gone
<1>4. ASSUME NEW p \in Poster, GiveBack(p) \/ Return(p) PROVE Kept
  BY <1>3, <1>4 DEF GiveBack, Return, Labels
<1>5. ASSUME NEW p \in Poster, NEW w \in BOOLEAN, AllocateCell(p, w) PROVE Kept
  BY <1>3, <1>5 DEF AllocateCell, Labels
<1>6. ASSUME NEW p \in Poster, NEW blocking \in BOOLEAN, NoNode(p, blocking) PROVE Kept
  BY <1>3, <1>6 DEF NoNode, Labels
<1>7. ASSUME NEW r \in Receiver, CopyMessage(r) PROVE Kept
  BY <1>3, <1>7 DEF CopyMessage, Labels
<1>8. ASSUME NEW r \in Receiver, Handle(r) PROVE Kept
  BY <1>3, <1>8 DEF Handle, NextRound, Labels
<1>9. ASSUME NEW r \in Receiver, Reply(r) PROVE Kept
  <2>1. owner[held[r]] \in Poster /\ pc[r] = "reply"
    BY <1>9, HasNode DEF Reply, ReplyDue
  <2>2. QED
    BY <1>1, <1>9, <2>1 DEF Reply, TypeOK
<1>10. ASSUME NEW r \in Receiver, Restore(r) PROVE Kept
  <2>1. pc[r] = "restore" /\ NextRound(r) \in {"receive", "quit"}
    BY <1>10 DEF Restore, NextRound
  <2>2. QED
    BY <1>10, <2>1, RecycledDelivery DEF Restore
<1>11. ASSUME NEW d \in Dispatcher, Sleep(d) PROVE Kept
  BY <1>3, <1>11 DEF Sleep, Labels
<1>12. Kept
  BY <1>4, <1>5, <1>6, <1>7, <1>8, <1>9, <1>10, <1>11 DEF Elsewhere
<1>13. QED
  BY <1>2, <1>12, TransitKept

LEMMA StepCells == IInv /\ [Next]_vars => CellsInOnePlace' /\ Carried'
<1> SUFFICES ASSUME IInv, [Next]_vars PROVE CellsInOnePlace' /\ Carried'
  OBVIOUS
<1> USE TaskSides, NoneAssumption
<1>1. TypeOK /\ TasksStand /\ CellsInOnePlace /\ Carried
  BY DEF IInv
<1>2. ASSUME UNCHANGED <<cell, cells, node>>, \A n \in Node : InTransit(n)' <=> InTransit(n)
      PROVE  CellsInOnePlace' /\ Carried'
  BY <1>1, <1>2 DEF CellsInOnePlace, Carried
<1>3. ASSUME NEW p \in Poster, NEW w \in BOOLEAN, AllocateCell(p, w) PROVE CellsInOnePlace' /\ Carried'
  <2>1. UNCHANGED node /\ \A n \in Node : InTransit(n)' <=> InTransit(n)
    BY <1>3, ElsewhereTransit DEF Elsewhere
  <2>2. PICK c \in cells : cells' = cells \ {c} /\ cell' = [cell EXCEPT ![p] = c]
    BY <1>3 DEF AllocateCell
  <2>3. cell[p] = None /\ cell'[p] = c /\ c \in Cell /\ \A u \in Task : u # p => cell'[u] = cell[u]
    BY <1>1, <1>3, <2>2 DEF AllocateCell, TypeOK, TasksStand, PosterStands, HasCell
  <2>4. \A d \in Cell : (\E u \in Task : cell'[u] = d) <=> (\E u \in Task : cell[u] = d) \/ d = c
    BY <2>3
  <2>5. \A t, u \in Task : cell'[t] = cell'[u] /\ cell'[t] # None => t = u
    BY <1>1, <2>2, <2>3 DEF CellsInOnePlace
  <2>6. Carried'
    BY <1>1, <2>1 DEF Carried
  <2>7. QED
    BY <1>1, <2>1, <2>2, <2>4, <2>5, <2>6 DEF CellsInOnePlace
<1>4. ASSUME NEW t \in Task, cell[t] \in Cell, PoolRelease(t), UNCHANGED node,
             \A n \in Node : InTransit(n)' <=> InTransit(n)
      PROVE CellsInOnePlace' /\ Carried'
  <2>1. cells' = cells \cup {cell[t]} /\ cell'[t] = None /\ \A u \in Task : u # t => cell'[u] = cell[u]
    BY <1>1, <1>4 DEF PoolRelease, TypeOK
  <2>2. \A d \in Cell : (\E u \in Task : cell'[u] = d) <=> (\E u \in Task : cell[u] = d) /\ d # cell[t]
    BY <1>1, <1>4, <2>1 DEF CellsInOnePlace
  <2>3. \A s, u \in Task : cell'[s] = cell'[u] /\ cell'[s] # None => s = u
    BY <1>1, <2>1 DEF CellsInOnePlace
  <2>4. Carried'
    BY <1>1, <1>4 DEF Carried
  <2>5. QED
    BY <1>1, <1>4, <2>1, <2>2, <2>3, <2>4 DEF CellsInOnePlace
<1>5. ASSUME NEW p \in Poster, GiveBack(p) PROVE CellsInOnePlace' /\ Carried'
  <2>1. cell[p] \in Cell
    BY <1>1, <1>5 DEF GiveBack, TasksStand, PosterStands, HasCell
  <2>2. QED
    BY <1>4, <1>5, <2>1, ElsewhereTransit DEF Elsewhere, GiveBack
<1>6. ASSUME NEW r \in Receiver, CopyMessage(r) PROVE CellsInOnePlace' /\ Carried'
  <2>1. cell[r] \in Cell
    BY <1>1, <1>6 DEF CopyMessage, TasksStand, ReceiverStands
  <2>2. QED
    BY <1>4, <1>6, <2>1, ElsewhereTransit DEF Elsewhere, CopyMessage
<1>7. ASSUME NEW p \in Poster, Send(p) PROVE CellsInOnePlace' /\ Carried'
  <2>1. PICK n \in Node :
              /\ node' = [node EXCEPT ![n] = [cell |-> cell[p], persistent |-> wait[p] # None, valid |-> TRUE]]
              /\ ~InTransit(n)
              /\ \A m \in Node : InTransit(m)' <=> InTransit(m) \/ m = n
    BY <1>7, SendTransit
  <2>2. node'[n].cell = cell[p] /\ \A m \in Node : m # n => node'[m] = node[m]
    BY <1>1, <2>1 DEF TypeOK
  <2>3. /\ cell[p] \in Cell /\ cells' = cells /\ cell'[p] = None
        /\ \A u \in Task : u # p => cell'[u] = cell[u]
    BY <1>1, <1>7 DEF Send, TypeOK, TasksStand, PosterStands, HasCell
  <2>4. \A d \in Cell : (\E u \in Task : cell'[u] = d) <=> (\E u \in Task : cell[u] = d) /\ d # cell[p]
    BY <1>1, <2>3 DEF CellsInOnePlace
  <2>5. \A d \in Cell : (\E m \in Node : InTransit(m)' /\ node'[m].cell = d)
                           <=> (\E m \in Node : InTransit(m) /\ node[m].cell = d) \/ d = cell[p]
    BY <2>1, <2>2
  <2>6. ~ \E m \in Node : InTransit(m) /\ node[m].cell = cell[p]
    BY <1>1, <2>3 DEF CellsInOnePlace
  <2>7. Carried'
    BY <1>1, <2>1, <2>2, <2>3 DEF Carried
  <2>8. \A s, u \in Task : cell'[s] = cell'[u] /\ cell'[s] # None => s = u
    BY <1>1, <2>3 DEF CellsInOnePlace
  <2>9. \A k, m \in Node : InTransit(k)' /\ InTransit(m)' /\ node'[k].cell = node'[m].cell => k = m
    BY <1>1, <2>1, <2>2, <2>6 DEF CellsInOnePlace
  <2>10. \A c \in Cell : c \in cells <=> ~(\E u \in Task : cell'[u] = c)
                                     /\ ~(\E m \in Node : InTransit(m)' /\ node'[m].cell = c)
    BY <1>1, <2>3, <2>4, <2>5 DEF CellsInOnePlace
  <2>11. \A c \in Cell : ~((\E u \in Task : cell'[u] = c)
                                     /\ (\E m \in Node : InTransit(m)' /\ node'[m].cell = c))
    BY <1>1, <2>3, <2>4, <2>5 DEF CellsInOnePlace
  <2>12. QED
    BY <2>3, <2>7, <2>8, <2>9, <2>10, <2>11 DEF CellsInOnePlace
<1>8. ASSUME NEW n \in Node, Withdraw(n) PROVE CellsInOnePlace' /\ Carried'
  <2>1. /\ InTransit(n) /\ \A m \in Node : InTransit(m)' <=> InTransit(m) /\ m # n
        /\ \A m \in Node : m # n => node'[m] = node[m]
    BY <1>8, WithdrawTransit
  <2>2. UNCHANGED cell /\ cells' = cells \cup {node[n].cell}
    BY <1>8 DEF Withdraw
  <2>3. \A d \in Cell : (\E m \in Node : InTransit(m)' /\ node'[m].cell = d)
                           <=> (\E m \in Node : InTransit(m) /\ node[m].cell = d) /\ d # node[n].cell
    BY <1>1, <2>1 DEF CellsInOnePlace
  <2>4. Carried'
    BY <1>1, <2>1 DEF Carried
  <2>5. \A k, m \in Node : InTransit(k)' /\ InTransit(m)' /\ node'[k].cell = node'[m].cell => k = m
    BY <1>1, <2>1 DEF CellsInOnePlace
  <2>6. QED
    BY <1>1, <2>1, <2>2, <2>3, <2>4, <2>5 DEF CellsInOnePlace
<1>9. ASSUME NEW r \in Receiver, Pop(r) PROVE CellsInOnePlace' /\ Carried'
  BY <1>2, <1>9, PopTransit DEF Pop
<1>10. ASSUME NEW r \in Receiver, DeliverInvalid(r) PROVE CellsInOnePlace' /\ Carried'
  <2>1. ~InTransit(held[r]) /\ UNCHANGED <<cell, cells, node>>
    BY <1>10 DEF DeliverInvalid, InTransit
  <2>2. \A m \in Node : InTransit(m)' <=> InTransit(m) /\ m # held[r]
    BY <1>10, Delivered
  <2>3. QED
    BY <1>2, <2>1, <2>2
<1>11. ASSUME NEW r \in Receiver, Deliver(r) PROVE CellsInOnePlace' /\ Carried'
  <2> DEFINE h == held[r]
  <2>1. /\ h \in Node /\ UNCHANGED <<node, cells>>
        /\ \A m \in Node : InTransit(m)' <=> InTransit(m) /\ m # h
    BY <1>11, Delivered DEF Deliver
  <2>2. InTransit(h) /\ node[h].cell \in Cell
    BY <1>1, <1>11, <2>1 DEF Deliver, InTransit, Carried
  <2>3. /\ cell[r] = None /\ cell'[r] = node[h].cell
        /\ \A u \in Task : u # r => cell'[u] = cell[u]
    BY <1>1, <1>11 DEF Deliver, TypeOK, TasksStand, ReceiverStands
  <2> HIDE DEF h
  <2>4. \A d \in Cell : (\E u \in Task : cell'[u] = d) <=> (\E u \in Task : cell[u] = d) \/ d = node[h].cell
    BY <2>2, <2>3
  <2>5. \A d \in Cell : (\E m \in Node : InTransit(m)' /\ node'[m].cell = d)
                           <=> (\E m \in Node : InTransit(m) /\ node[m].cell = d) /\ d # node[h].cell
    BY <1>1, <2>1, <2>2 DEF CellsInOnePlace
  <2>6. \A u \in Task : cell[u] # node[h].cell
    BY <1>1, <2>1, <2>2 DEF CellsInOnePlace
  <2>7. Carried'
    BY <1>1, <2>1 DEF Carried
  <2>8. \A s, u \in Task : cell'[s] = cell'[u] /\ cell'[s] # None => s = u
    BY <1>1, <2>3, <2>6 DEF CellsInOnePlace
  <2>9. \A k, m \in Node : InTransit(k)' /\ InTransit(m)' /\ node'[k].cell = node'[m].cell => k = m
    BY <1>1, <2>1 DEF CellsInOnePlace
  <2>10. \A c \in Cell : c \in cells <=> ~(\E u \in Task : cell'[u] = c)
                                     /\ ~(\E m \in Node : InTransit(m)' /\ node'[m].cell = c)
    BY <1>1, <2>1, <2>2, <2>4, <2>5 DEF CellsInOnePlace
  <2>11. \A c \in Cell : ~((\E u \in Task : cell'[u] = c)
                                     /\ (\E m \in Node : InTransit(m)' /\ node'[m].cell = c))
    BY <1>1, <2>1, <2>2, <2>4, <2>5, <2>6 DEF CellsInOnePlace
  <2>12. QED
    BY <2>1, <2>7, <2>8, <2>9, <2>10, <2>11 DEF CellsInOnePlace
<1>12. ASSUME Elsewhere, UNCHANGED <<cell, cells>> PROVE CellsInOnePlace' /\ Carried'
  BY <1>2, <1>12, ElsewhereTransit
<1>13. CASE UNCHANGED vars
  BY <1>2, <1>13 DEF vars, InTransit, Queued
<1>14. QED
  BY <1>3, <1>5, <1>6, <1>7, <1>8, <1>9, <1>10, <1>11, <1>12, <1>13
  DEF Next, PosterStep, ReceiverStep, Elsewhere, NoNode, Return, Sleep, Handle, Reply, Restore

LEMMA StepMessages == IInv /\ [Next]_vars => MessagesInOnePlace'
<1> SUFFICES ASSUME IInv, [Next]_vars PROVE MessagesInOnePlace'
  OBVIOUS
<1> USE TaskSides, NoneAssumption, MessageAssumption
<1>1. TypeOK /\ TasksStand /\ MessagesInOnePlace
  BY DEF IInv
<1> DEFINE Handling == \A r \in Receiver : pc'[r] = "handle" => pc[r] = "handle" /\ message'[r] = message[r]
<1>2. ASSUME UNCHANGED <<content, posted, settled>>, cells \subseteq cells', Handling
      PROVE  MessagesInOnePlace'
  BY <1>1, <1>2 DEF MessagesInOnePlace
<1>3. ASSUME NEW t \in Task, NEW label \in Labels, label # "handle", Goto(t, label),
             \A r \in Receiver : r # t => message'[r] = message[r]
      PROVE  Handling
  BY <1>1, <1>3, Gone
<1>4. ASSUME NEW t \in Task, pc'[t] # "handle", \A u \in Task : u # t => Stays(u), UNCHANGED message
      PROVE  Handling
  BY <1>4 DEF Stays
<1>5. ASSUME NEW p \in Poster, NEW w \in BOOLEAN, AllocateCell(p, w) PROVE MessagesInOnePlace'
  <2>1. Handling /\ UNCHANGED <<settled, message>>
    BY <1>3, <1>5 DEF AllocateCell, Labels
  <2>2. PICK c \in cells : cells' = cells \ {c} /\ content' = [content EXCEPT ![c] = posted + 1]
    BY <1>5 DEF AllocateCell
  <2>3. c \in Cell /\ posted' = posted + 1 /\ posted \in Nat
    BY <1>1, <1>5, <2>2 DEF AllocateCell, TypeOK
  <2>4. content'[c] = posted + 1 /\ \A d \in Cell : d # c => content'[d] = content[d]
    BY <1>1, <2>2, <2>3 DEF TypeOK
  <2>5. \A d \in Cell \ cells' : d # c => d \in Cell \ cells
    BY <2>2
  <2>6. \A m \in 1 .. posted : m \in 1 .. posted' /\ m # posted + 1
    BY <2>3
  <2>7. posted + 1 \in (1 .. posted') \ settled
    BY <1>1, <2>3 DEF MessagesInOnePlace
  <2>8. QED
    BY <1>1, <2>1, <2>4, <2>5, <2>6, <2>7 DEF MessagesInOnePlace
<1>6. ASSUME NEW p \in Poster, Send(p) PROVE MessagesInOnePlace'
  <2>1. pc'[p] # "handle" /\ \A u \in Task : u # p => Stays(u)
    BY <1>1, <1>6, SendMoves DEF Send, Labels, Stays
  <2>2. QED
    BY <1>2, <1>4, <1>6, <2>1 DEF Send
<1>7. ASSUME NEW p \in Poster, NEW blocking \in BOOLEAN, NoNode(p, blocking) PROVE MessagesInOnePlace'
  BY <1>2, <1>3, <1>7 DEF NoNode, Labels
<1>8. ASSUME NEW p \in Poster, GiveBack(p) PROVE MessagesInOnePlace'
  BY <1>2, <1>3, <1>8 DEF GiveBack, PoolRelease, Labels
<1>9. ASSUME NEW p \in Poster, Return(p) PROVE MessagesInOnePlace'
  BY <1>2, <1>3, <1>9 DEF Return, Labels
<1>10. ASSUME NEW n \in Node, Withdraw(n) PROVE MessagesInOnePlace'
  <2> DEFINE c == node[n].cell
  <2>1. c \in Cell \ cells /\ content[c] \in (1 .. posted) \ settled
    BY <1>10, WithdrawTransit, CellInUse
  <2>2. /\ cells' = cells \cup {c} /\ settled' = settled \cup {content[c]}
        /\ UNCHANGED <<pc, content, posted, message>>
    BY <1>10 DEF Withdraw
  <2> HIDE DEF c
  <2>3. QED
    BY <1>1, <2>1, <2>2 DEF MessagesInOnePlace
<1>11. ASSUME NEW r \in Receiver, Pop(r) PROVE MessagesInOnePlace'
  BY <1>1, <1>2, <1>3, <1>11 DEF Pop, Labels, TypeOK
<1>12. ASSUME NEW d \in Dispatcher, Sleep(d) PROVE MessagesInOnePlace'
  BY <1>2, <1>3, <1>12 DEF Sleep, Labels
<1>13. ASSUME NEW r \in Receiver, DeliverInvalid(r) \/ Deliver(r) PROVE MessagesInOnePlace'
  <2>1. pc'[r] # "handle" /\ \A u \in Task : u # r => Stays(u)
    BY <1>13, Delivered
  <2>2. QED
    BY <1>2, <1>4, <1>13, <2>1 DEF Deliver, DeliverInvalid
<1>14. ASSUME NEW r \in Receiver, CopyMessage(r) PROVE MessagesInOnePlace'
  <2> DEFINE c == cell[r]
  <2>1. c \in Cell \ cells /\ content[c] \in (1 .. posted) \ settled
    BY <1>1, <1>14, CellInUse DEF CopyMessage, TasksStand, ReceiverStands
  <2>2. /\ cells' = cells \cup {c} /\ message'[r] = content[c]
        /\ \A s \in Receiver : s # r => message'[s] = message[s]
        /\ UNCHANGED <<content, posted, settled>>
    BY <1>1, <1>14 DEF CopyMessage, PoolRelease, TypeOK
  <2>3. pc[r] = "copy" /\ \A u \in Task : u # r => pc'[u] = pc[u]
    BY <1>1, <1>14, Gone DEF CopyMessage, Labels
  <2> HIDE DEF c
  <2>4. QED
    BY <1>1, <2>1, <2>2, <2>3 DEF MessagesInOnePlace
<1>15. ASSUME NEW r \in Receiver, Handle(r) PROVE MessagesInOnePlace'
  <2>1. pc[r] = "handle" /\ settled' = settled \cup {message[r]} /\ UNCHANGED <<content, posted, cells, message>>
    BY <1>15 DEF Handle
  <2>2. pc'[r] # "handle" /\ \A u \in Task : u # r => pc'[u] = pc[u]
    BY <1>1, <1>15, Gone DEF Handle, NextRound, Labels
  <2>3. QED
    BY <1>1, <2>1, <2>2 DEF MessagesInOnePlace
<1>16. ASSUME NEW r \in Receiver, Reply(r) PROVE MessagesInOnePlace'
  <2>1. owner[held[r]] \in Poster /\ pc[r] = "reply"
    BY <1>16, HasNode DEF Reply, ReplyDue
  <2>2. Handling
    BY <1>1, <1>16, <2>1 DEF Reply, TypeOK
  <2>3. QED
    BY <1>2, <1>16, <2>2 DEF Reply
<1>17. ASSUME NEW r \in Receiver, Restore(r) PROVE MessagesInOnePlace'
  <2>1. pc[r] = "restore" /\ NextRound(r) \in {"receive", "quit"}
    BY <1>17 DEF Restore, NextRound
  <2>2. pc'[r] # "handle" /\ \A u \in Task : u # r => Stays(u)
    BY <1>17, <2>1, RecycledDelivery DEF Restore
  <2>3. QED
    BY <1>2, <1>4, <1>17, <2>2 DEF Restore
<1>18. CASE UNCHANGED vars
  BY <1>1, <1>18 DEF vars, MessagesInOnePlace
<1>19. QED
  BY <1>5, <1>6, <1>7, <1>8, <1>9, <1>10, <1>11, <1>12, <1>13, <1>14, <1>15, <1>16, <1>17, <1>18
  DEF Next, PosterStep, ReceiverStep

\* The dispatchers on their way to the queue.
Ready == {d \in Dispatcher : pc[d] = "receive"}

LEMMA ReadyIsFinite ==
    /\ IsFiniteSet(Ready) /\ IsFiniteSet(Ready')
    /\ Cardinality(Ready) \in Nat /\ Cardinality(Ready') \in Nat
<1>1. Ready \subseteq Dispatcher /\ Ready' \subseteq Dispatcher
  BY DEF Ready
<1>2. IsFiniteSet(Ready) /\ IsFiniteSet(Ready')
  BY <1>1, DispatcherAssumption, FS_Subset
<1>3. QED
  BY <1>2, FS_CardinalityType

\* One more on the way, and at most one less.
LEMMA OneMoreReady ==
    ASSUME NEW d \in Ready', d \notin Ready, Ready \subseteq Ready'
    PROVE  Cardinality(Ready) + 1 <= Cardinality(Ready')
<1>1. Cardinality(Ready \cup {d}) = Cardinality(Ready) + 1
  BY ReadyIsFinite, FS_AddElement
<1>2. Cardinality(Ready \cup {d}) <= Cardinality(Ready')
  BY ReadyIsFinite, FS_Subset
<1>3. QED
  BY <1>1, <1>2

LEMMA OneLessReady ==
    ASSUME NEW r, Ready \ {r} \subseteq Ready'
    PROVE  Cardinality(Ready) - 1 <= Cardinality(Ready')
<1>1. Cardinality(Ready \ {r}) = IF r \in Ready THEN Cardinality(Ready) - 1 ELSE Cardinality(Ready)
  BY ReadyIsFinite, FS_RemoveElement
<1>2. Cardinality(Ready \ {r}) <= Cardinality(Ready')
  BY ReadyIsFinite, FS_Subset
<1>3. QED
  BY <1>1, <1>2, ReadyIsFinite

\* A step outside Pop and Sleep leaves every dispatcher on its way, and sends none to sleep.
LEMMA ReadyKept ==
    ASSUME IInv, NEW t \in Task, pc[t] \notin {"receive", "asleep"}, pc'[t] # "asleep",
           \A u \in Task : u # t => Stays(u)
    PROVE  Ready \subseteq Ready' /\ Asleep' \subseteq Asleep
<1> USE TaskSides
<1>1. \A d \in Dispatcher : pc[d] = "receive" => pc'[d] = "receive"
  BY DEF Stays
<1>2. \A d \in Dispatcher : pc'[d] = "asleep" => pc[d] = "asleep"
  BY DEF Stays
<1>3. QED
  BY <1>1, <1>2 DEF Ready, Asleep

LEMMA StepSleepers == IInv /\ [Next]_vars => NoSleeperBesideMessage'
<1> SUFFICES ASSUME IInv, [Next]_vars PROVE NoSleeperBesideMessage'
  OBVIOUS
<1> USE TaskSides
<1>1. TypeOK /\ TasksStand /\ Len(queue) \in Nat
  BY LenProperties DEF IInv, TypeOK
<1>2. NoSleeperBesideMessage <=> (Asleep # {} => Len(queue) <= Cardinality(Ready))
  BY DEF NoSleeperBesideMessage, Ready
<1>3. NoSleeperBesideMessage' <=> (Asleep' # {} => Len(queue') <= Cardinality(Ready'))
  BY DEF NoSleeperBesideMessage, Ready
<1>4. Asleep # {} => Len(queue) <= Cardinality(Ready)
  BY <1>2 DEF IInv
<1>5. ASSUME Ready \subseteq Ready', Asleep' \subseteq Asleep, UNCHANGED queue
      PROVE  NoSleeperBesideMessage'
  <2>1. Cardinality(Ready) <= Cardinality(Ready')
    BY <1>5, ReadyIsFinite, FS_Subset
  <2>2. QED
    BY <1>1, <1>3, <1>4, <1>5, <2>1, ReadyIsFinite
<1>6. ASSUME NEW t \in Task, pc[t] \notin {"receive", "asleep"}, pc'[t] # "asleep",
             \A u \in Task : u # t => Stays(u), UNCHANGED queue
      PROVE  NoSleeperBesideMessage'
  BY <1>5, <1>6, ReadyKept
<1>7. ASSUME NEW t \in Task, NEW label \in Labels, label # "asleep", pc[t] \notin {"receive", "asleep"},
             Goto(t, label), UNCHANGED queue
      PROVE  NoSleeperBesideMessage'
  BY <1>1, <1>6, <1>7, Gone DEF Stays
<1>8. ASSUME NEW p \in Poster, NEW w \in BOOLEAN, AllocateCell(p, w) PROVE NoSleeperBesideMessage'
  BY <1>7, <1>8 DEF AllocateCell, Labels
<1>9. ASSUME NEW p \in Poster, NEW blocking \in BOOLEAN, NoNode(p, blocking) PROVE NoSleeperBesideMessage'
  BY <1>7, <1>9 DEF NoNode, Labels
<1>10. ASSUME NEW p \in Poster, GiveBack(p) \/ Return(p) PROVE NoSleeperBesideMessage'
  BY <1>7, <1>10 DEF GiveBack, Return, Labels
<1>11. ASSUME NEW p \in Poster, Send(p) PROVE NoSleeperBesideMessage'
  <2>1. Len(queue') = Len(queue) + 1
    BY <1>11, SendQueued
  <2>2. /\ pc[p] = "send" /\ pc'[p] # "asleep" /\ \A u \in Task : u # p => Stays(u)
        /\ Asleep # {} => \E d \in Asleep : pc'[d] = "receive"
    BY <1>1, <1>11, SendMoves DEF Send, Labels, Stays
  <2>3. Ready \subseteq Ready' /\ Asleep' \subseteq Asleep
    BY <2>2, ReadyKept
  <2>4. CASE Asleep' = {}
    BY <1>3, <2>4
  <2>5. CASE Asleep' # {}
    <3>1. PICK d \in Asleep : pc'[d] = "receive"
      BY <2>2, <2>3, <2>5
    <3>2. d \in Ready' /\ d \notin Ready
      BY <3>1 DEF Ready, Asleep
    <3>3. Cardinality(Ready) + 1 <= Cardinality(Ready')
      BY <2>3, <3>2, OneMoreReady
    <3>4. Len(queue) <= Cardinality(Ready)
      BY <1>4, <3>1
    <3>5. QED
      BY <1>1, <1>3, <2>1, <3>3, <3>4, ReadyIsFinite
  <2>6. QED
    BY <2>4, <2>5
<1>12. ASSUME NEW r \in Receiver, Pop(r) PROVE NoSleeperBesideMessage'
  <2>1. Len(queue') = Len(queue) - 1 /\ Len(queue) \in Nat \ {0}
    BY <1>12, PopQueued
  <2>2. pc'[r] = "deliver" /\ \A u \in Task : u # r => pc'[u] = pc[u]
    BY <1>1, <1>12, Gone DEF Pop, Labels
  <2>3. Asleep' \subseteq Asleep /\ Ready \ {r} \subseteq Ready'
    BY <2>2 DEF Asleep, Ready
  <2>4. Cardinality(Ready) - 1 <= Cardinality(Ready')
    BY <2>3, OneLessReady
  <2>5. QED
    BY <1>3, <1>4, <2>1, <2>3, <2>4, ReadyIsFinite
<1>13. ASSUME NEW d \in Dispatcher, Sleep(d) PROVE NoSleeperBesideMessage'
  <2>1. Len(queue') = 0
    BY <1>13 DEF Sleep
  <2>2. QED
    BY <1>3, <2>1, ReadyIsFinite
<1>14. ASSUME NEW r \in Receiver, DeliverInvalid(r) \/ Deliver(r) PROVE NoSleeperBesideMessage'
  BY <1>6, <1>14, Delivered
<1>15. ASSUME NEW r \in Receiver, CopyMessage(r) PROVE NoSleeperBesideMessage'
  BY <1>7, <1>15 DEF CopyMessage, Labels
<1>16. ASSUME NEW r \in Receiver, Handle(r) PROVE NoSleeperBesideMessage'
  BY <1>7, <1>16 DEF Handle, NextRound, Labels
<1>17. ASSUME NEW r \in Receiver, Reply(r) PROVE NoSleeperBesideMessage'
  <2>1. owner[held[r]] \in Poster /\ pc[r] = "reply"
    BY <1>17, HasNode DEF Reply, ReplyDue
  <2>2. \A d \in Dispatcher : pc[d] = "receive" => pc'[d] = "receive"
    BY <1>1, <1>17, <2>1 DEF Reply, TypeOK
  <2>3. \A d \in Dispatcher : pc'[d] = "asleep" => pc[d] = "asleep"
    BY <1>1, <1>17, <2>1 DEF Reply, TypeOK
  <2>4. QED
    BY <1>5, <1>17, <2>2, <2>3 DEF Reply, Ready, Asleep
<1>18. ASSUME NEW r \in Receiver, Restore(r) PROVE NoSleeperBesideMessage'
  <2>1. pc[r] = "restore" /\ NextRound(r) \in {"receive", "quit"}
    BY <1>18 DEF Restore, NextRound
  <2>2. pc'[r] # "asleep" /\ \A u \in Task : u # r => Stays(u)
    BY <1>18, <2>1, RecycledDelivery DEF Restore
  <2>3. QED
    BY <1>6, <1>18, <2>1, <2>2 DEF Restore
<1>19. CASE UNCHANGED <<queue, pc>>
  BY <1>5, <1>19 DEF Ready, Asleep
<1>20. QED
  BY <1>8, <1>9, <1>10, <1>11, <1>12, <1>13, <1>14, <1>15, <1>16, <1>17, <1>18, <1>19
  DEF Next, PosterStep, ReceiverStep, Withdraw, vars

-----------------------------------------------------------------------------
(* Where the messages of the posts with wait are *)

\* The poster of a persistent node waits for its reply, or is being answered.
LEMMA PersistsAwait ==
    ASSUME IInv, NEW n \in Node, Persists(n)
    PROVE  /\ owner[n] \in Poster
           /\ \/ pc[owner[n]] = "await"
              \/ pc[owner[n]] = "answered" /\ \E r \in Receiver : held[r] = n /\ pc[r] = "restore"
<1> USE NoneAssumption, OwnerAssumption
<1>1. CASE Queued(n)
  BY <1>1 DEF Persists, IInv, Awaited, QueueWaits, SentWaits
<1>2. ASSUME NEW r \in Receiver, held[r] = n PROVE pc[owner[n]] = "await" \/ (pc[owner[n]] = "answered" /\ pc[r] = "restore")
  <2>1. HeldWaits(r)
    BY <1>2 DEF Persists, IInv, Awaited, ReceiverWaits
  <2>2. pc[r] \in {"deliver", "copy", "handle", "reply", "restore"}
    BY <1>2 DEF IInv, TasksStand, ReceiverStands, ReceiverLabels
  <2>3. QED
    BY <1>2, <2>1, <2>2 DEF HeldWaits, SentWaits
<1>3. QED
  BY <1>1, <1>2 DEF Persists

\* Nothing that is settled is forgotten, and no cell in use is written.
DataKept == settled \subseteq settled' /\ \A c \in Cell \ cells : content'[c] = content[c]

LEMMA StepData == IInv /\ [Next]_vars => DataKept
<1> SUFFICES ASSUME IInv, [Next]_vars PROVE DataKept
  OBVIOUS
<1>1. ASSUME NEW p \in Poster, NEW w \in BOOLEAN, AllocateCell(p, w) PROVE DataKept
  BY <1>1 DEF AllocateCell, DataKept, IInv, TypeOK
<1>2. CASE UNCHANGED content
  BY <1>2 DEF DataKept, Next, PosterStep, ReceiverStep, Send, GiveBack, Return, AllocateCell, NoNode, Pop,
              Sleep, Withdraw, DeliverInvalid, Deliver, CopyMessage, Handle, Reply, Restore, vars
<1>3. QED
  BY <1>1, <1>2 DEF Next, PosterStep, ReceiverStep, Send, GiveBack, Return, NoNode, Pop,
              Sleep, Withdraw, DeliverInvalid, Deliver, CopyMessage, Handle, Reply, Restore, vars

\* A poster that waits for its reply stays until it is answered, and then until it returns.
PosterKept(p) == pc'[p] = pc[p] /\ wait'[p] = wait[p]

LEMMA StepPosters ==
    ASSUME IInv, [Next]_vars, NEW p \in Poster, pc[p] \in {"await", "answered"},
           ~Return(p), \A r \in Receiver : Reply(r) => owner[held[r]] # p
    PROVE  PosterKept(p)
<1> USE TaskSides
<1>1. TypeOK
  BY DEF IInv
<1>2. ASSUME NEW t \in Task, t # p, \A u \in Task : u # t => Stays(u), wait'[p] = wait[p]
      PROVE  PosterKept(p)
  BY <1>2 DEF Stays, PosterKept
<1>3. ASSUME NEW t \in Task, t # p, NEW label \in Labels, Goto(t, label), wait'[p] = wait[p]
      PROVE  PosterKept(p)
  BY <1>1, <1>3, Gone DEF PosterKept
<1>4. ASSUME NEW q \in Poster, NEW w \in BOOLEAN, AllocateCell(q, w) PROVE PosterKept(p)
  BY <1>1, <1>3, <1>4 DEF AllocateCell, TypeOK, Labels
<1>5. ASSUME NEW q \in Poster, Send(q) PROVE PosterKept(p)
  <2>1. q # p /\ UNCHANGED wait
    BY <1>5 DEF Send
  <2>2. \A u \in Task : u # q => Stays(u)
    BY <1>1, <1>5, SendMoves DEF Send, Labels, Stays
  <2>3. QED
    BY <1>2, <2>1, <2>2
<1>6. ASSUME NEW q \in Poster, NEW blocking \in BOOLEAN, NoNode(q, blocking) PROVE PosterKept(p)
  BY <1>3, <1>6 DEF NoNode, Labels
<1>7. ASSUME NEW q \in Poster, GiveBack(q) \/ Return(q) PROVE PosterKept(p)
  BY <1>1, <1>3, <1>7 DEF GiveBack, Return, TypeOK, Labels
<1>8. ASSUME NEW r \in Receiver, Pop(r) \/ CopyMessage(r) \/ Handle(r) PROVE PosterKept(p)
  BY <1>3, <1>8 DEF Pop, CopyMessage, Handle, NextRound, Labels
<1>9. ASSUME NEW r \in Receiver, DeliverInvalid(r) \/ Deliver(r) PROVE PosterKept(p)
  <2>1. r # p /\ UNCHANGED wait
    BY <1>9 DEF DeliverInvalid, Deliver
  <2>2. QED
    BY <1>2, <1>9, <2>1, Delivered
<1>10. ASSUME NEW d \in Dispatcher, Sleep(d) PROVE PosterKept(p)
  BY <1>3, <1>10 DEF Sleep, Labels
<1>11. ASSUME NEW r \in Receiver, Reply(r) PROVE PosterKept(p)
  BY <1>1, <1>11 DEF Reply, TypeOK, PosterKept
<1>12. ASSUME NEW r \in Receiver, Restore(r) PROVE PosterKept(p)
  <2>1. pc[r] = "restore" /\ NextRound(r) \in {"receive", "quit"} /\ r # p /\ UNCHANGED wait
    BY <1>12 DEF Restore, NextRound
  <2>2. \A u \in Task : u # r => Stays(u)
    BY <1>12, <2>1, RecycledDelivery DEF Restore
  <2>3. QED
    BY <1>2, <2>1, <2>2
<1>13. CASE UNCHANGED <<pc, wait>>
  BY <1>13 DEF PosterKept
<1>14. QED
  BY <1>4, <1>5, <1>6, <1>7, <1>8, <1>9, <1>10, <1>11, <1>12, <1>13
  DEF Next, PosterStep, ReceiverStep, Withdraw, vars

\* The poster of a persistent node is not moved by anyone but the receiver that replies.
LEMMA OwnerKept ==
    ASSUME IInv, [Next]_vars, NEW n \in Node, Persists(n), \A r \in Receiver : Reply(r) => held[r] # n
    PROVE  PosterKept(owner[n])
<1> DEFINE p == owner[n]
<1>1. p \in Poster /\ pc[p] \in {"await", "answered"}
  BY PersistsAwait
<1>2. ~Return(p)
  BY PersistsAwait DEF Return, Replying
<1>3. ASSUME NEW r \in Receiver, Reply(r) PROVE owner[held[r]] # p
  <2>1. held[r] \in Node /\ pc[r] = "reply" /\ held[r] # n
    BY <1>3, HasNode DEF Reply, ReplyDue
  <2>2. Persists(held[r])
    BY <2>1, NoneAssumption DEF Persists, IInv, Awaited, ReceiverWaits
  <2>3. QED
    BY <2>1, <2>2 DEF IInv, Awaited, OneReply
<1>4. QED
  BY <1>1, <1>2, <1>3, StepPosters

\* A node on its way still waits for its poster.
LEMMA SentKept ==
    ASSUME IInv, [Next]_vars, NEW n \in Node, Persists(n), SentWaits(n), node[n].valid => InTransit(n),
           node'[n] = node[n], \A r \in Receiver : Reply(r) => held[r] # n
    PROVE  SentWaits(n)'
<1>1. PosterKept(owner[n]) /\ DataKept
  BY OwnerKept, StepData
<1>2. node[n].valid => node[n].cell \in Cell \ cells
  BY CellInUse
<1>3. QED
  BY <1>1, <1>2 DEF SentWaits, PosterKept, DataKept

\* So does a receiver that does not move.
LEMMA HeldKept ==
    ASSUME IInv, [Next]_vars, NEW r \in Receiver, held[r] # None,
           UNCHANGED <<held[r], pc[r], cell[r], message[r], node[held[r]]>>
    PROVE  ReceiverWaits(r)'
<1> DEFINE n == held[r]
<1>1. n \in Node /\ ReceiverWaits(r)
  BY DEF IInv, TypeOK, Awaited
<1>2. \A s \in Receiver : Reply(s) => held[s] # n
  <2> SUFFICES ASSUME NEW s \in Receiver, Reply(s), held[s] = n PROVE FALSE
    OBVIOUS
  <2>1. s = r
    BY <1>1 DEF IInv, NodesInOnePlace
  <2>2. pc[s] = "reply" /\ owner[held[s]] # s
    BY HasNode, TaskSides DEF Reply, ReplyDue
  <2>3. pc'[s] = "restore"
    BY <2>2, TaskSides DEF Reply, IInv, TypeOK
  <2>4. QED
    BY <2>1, <2>2, <2>3
<1>3. CASE ~node[n].persistent
  BY <1>1, <1>3 DEF ReceiverWaits
<1>4. CASE node[n].persistent
  <2>1. Persists(n) /\ HeldWaits(r) /\ (pc[r] # "deliver" => node'[n].persistent)
    BY <1>1, <1>4 DEF Persists, ReceiverWaits
  <2>2. PosterKept(owner[n]) /\ DataKept
    BY <1>1, <1>2, <2>1, OwnerKept, StepData
  <2>3. pc[r] = "copy" => cell[r] \in Cell \ cells
    BY CellInUse, TaskSides, NoneAssumption DEF IInv, TasksStand, ReceiverStands
  <2>4. pc[r] = "deliver" => SentWaits(n)'
    <3>1. pc[r] = "deliver" => (SentWaits(n) /\ (node[n].valid => InTransit(n)))
      BY <1>1, <2>1 DEF HeldWaits, InTransit
    <3>2. QED
      BY <1>1, <1>2, <2>1, <3>1, SentKept
  <2>5. HeldWaits(r)'
    BY <2>1, <2>2, <2>3, <2>4 DEF HeldWaits, PosterKept, DataKept
  <2>6. QED
    BY <1>4, <2>5 DEF ReceiverWaits
<1>5. QED
  BY <1>3, <1>4

\* A receiver that replies answers the poster of a settled message.
LEMMA Replies ==
    ASSUME IInv, NEW r \in Receiver, Reply(r)
    PROVE  /\ pc[r] = "reply" /\ pc'[r] = "restore" /\ held[r] \in Node /\ owner[held[r]] \in Poster
           /\ Persists(held[r]) /\ node[held[r]].persistent
           /\ pc[owner[held[r]]] = "await" /\ pc'[owner[held[r]]] = "answered"
           /\ wait[owner[held[r]]] \in settled
           /\ \A u \in Task \ {r, owner[held[r]]} : pc'[u] = pc[u]
           /\ UNCHANGED <<queue, free, cells, node, content, wait, held, cell, message, posted, settled>>
<1>1. pc[r] = "reply" /\ held[r] \in Node /\ owner[held[r]] \in Poster
  BY HasNode DEF Reply, ReplyDue
<1>2. node[held[r]].persistent /\ HeldWaits(r)
  BY <1>1, NoneAssumption DEF IInv, Awaited, ReceiverWaits
<1>3. pc[owner[held[r]]] = "await" /\ wait[owner[held[r]]] \in settled
  BY <1>1, <1>2 DEF HeldWaits
<1>4. /\ pc'[r] = "restore" /\ pc'[owner[held[r]]] = "answered"
      /\ \A u \in Task \ {r, owner[held[r]]} : pc'[u] = pc[u]
  BY <1>1, <1>3, TaskSides DEF Reply, IInv, TypeOK
<1>5. Persists(held[r])
  BY <1>1, <1>2 DEF Persists
<1>6. QED
  BY <1>1, <1>2, <1>3, <1>4, <1>5 DEF Reply

LEMMA StepPostersWait == IInv /\ [Next]_vars => \A p \in Poster : PosterWaits(p)'
<1> SUFFICES ASSUME IInv, [Next]_vars, NEW q \in Poster PROVE PosterWaits(q)'
  OBVIOUS
<1> USE TaskSides
<1>1. TypeOK /\ PosterWaits(q) /\ DataKept
  BY StepData DEF IInv, Awaited
<1>2. ASSUME pc'[q] \in HasCell => pc[q] \in HasCell, pc'[q] = "answered" => pc[q] = "answered",
             wait'[q] = wait[q], cell'[q] = cell[q]
      PROVE  PosterWaits(q)'
  <2>1. pc[q] \in HasCell => cell[q] \in Cell \ cells
    BY CellInUse, NoneAssumption DEF IInv, TasksStand, PosterStands
  <2>2. QED
    BY <1>1, <1>2, <2>1 DEF PosterWaits, DataKept
<1>3. ASSUME Stays(q), wait'[q] = wait[q], cell'[q] = cell[q] PROVE PosterWaits(q)'
  BY <1>2, <1>3 DEF Stays, HasCell
<1>4. ASSUME NEW t \in Task, t # q, NEW label \in Labels, Goto(t, label), wait'[q] = wait[q], cell'[q] = cell[q]
      PROVE  PosterWaits(q)'
  BY <1>1, <1>3, <1>4, Gone DEF Stays
<1>5. ASSUME NEW p \in Poster, NEW w \in BOOLEAN, AllocateCell(p, w) PROVE PosterWaits(q)'
  <2>1. PICK c \in cells : cell' = [cell EXCEPT ![p] = c] /\ content' = [content EXCEPT ![c] = posted + 1]
    BY <1>5 DEF AllocateCell
  <2>2. c \in Cell /\ content'[c] = posted + 1 /\ wait'[p] \in {None, posted + 1} /\ cell'[p] = c
    BY <1>1, <1>5, <2>1 DEF AllocateCell, TypeOK
  <2>3. pc'[p] = "send"
    BY <1>1, <1>5, Gone DEF AllocateCell, Labels
  <2>4. CASE q = p
    BY <2>2, <2>3, <2>4 DEF PosterWaits
  <2>5. CASE q # p
    BY <1>1, <1>4, <1>5, <2>1, <2>5 DEF AllocateCell, Labels, TypeOK
  <2>6. QED
    BY <2>4, <2>5
<1>6. ASSUME NEW p \in Poster, Send(p) PROVE PosterWaits(q)'
  <2>1. pc'[p] \in {"await", "idle"} /\ \A u \in Task : u # p => Stays(u)
    BY <1>1, <1>6, SendMoves DEF Send, Labels, Stays
  <2>2. CASE q = p
    BY <2>1, <2>2 DEF PosterWaits, HasCell
  <2>3. CASE q # p
    BY <1>1, <1>3, <1>6, <2>1, <2>3 DEF Send, TypeOK
  <2>4. QED
    BY <2>2, <2>3
<1>7. ASSUME NEW p \in Poster, NEW blocking \in BOOLEAN, NoNode(p, blocking) PROVE PosterWaits(q)'
  <2>1. /\ pc[p] = "send" /\ pc'[p] \in {"starved", "failed"}
        /\ \A u \in Task : u # p => pc'[u] = pc[u]
    BY <1>1, <1>7, Gone DEF NoNode, Labels
  <2>2. QED
    BY <1>2, <1>7, <2>1 DEF NoNode, HasCell
<1>8. ASSUME NEW p \in Poster, GiveBack(p) \/ Return(p) PROVE PosterWaits(q)'
  <2>1. pc'[p] = "idle" /\ \A u \in Task : u # p => pc'[u] = pc[u]
    BY <1>1, <1>8, Gone DEF GiveBack, Return, Labels
  <2>2. CASE q = p
    BY <2>1, <2>2 DEF PosterWaits, HasCell
  <2>3. CASE q # p
    BY <1>1, <1>3, <1>8, <2>1, <2>3 DEF GiveBack, Return, PoolRelease, Stays, TypeOK
  <2>4. QED
    BY <2>2, <2>3
<1>9. ASSUME NEW r \in Receiver, Pop(r) \/ CopyMessage(r) \/ Handle(r) PROVE PosterWaits(q)'
  <2>1. PICK label \in Labels : Goto(r, label)
    BY <1>9 DEF Pop, CopyMessage, Handle, NextRound, Labels
  <2>2. wait'[q] = wait[q] /\ cell'[q] = cell[q]
    BY <1>1, <1>9 DEF Pop, CopyMessage, Handle, PoolRelease, TypeOK
  <2>3. QED
    BY <1>4, <2>1, <2>2
<1>10. ASSUME NEW r \in Receiver, DeliverInvalid(r) \/ Deliver(r) PROVE PosterWaits(q)'
  <2>1. wait'[q] = wait[q] /\ cell'[q] = cell[q]
    BY <1>1, <1>10 DEF DeliverInvalid, Deliver, TypeOK
  <2>2. QED
    BY <1>3, <1>10, <2>1, Delivered
<1>11. ASSUME NEW d \in Dispatcher, Sleep(d) PROVE PosterWaits(q)'
  BY <1>4, <1>11 DEF Sleep, Labels
<1>12. ASSUME NEW r \in Receiver, Reply(r) PROVE PosterWaits(q)'
  <2>1. UNCHANGED <<wait, cell, settled>>
    BY <1>12, Replies
  <2>2. CASE q = owner[held[r]]
    BY <1>12, <2>1, <2>2, Replies DEF PosterWaits, HasCell
  <2>3. CASE q # owner[held[r]]
    BY <1>3, <1>12, <2>1, <2>3, Replies DEF Stays
  <2>4. QED
    BY <2>2, <2>3
<1>13. ASSUME NEW r \in Receiver, Restore(r) PROVE PosterWaits(q)'
  <2>1. pc[r] = "restore" /\ NextRound(r) \in {"receive", "quit"} /\ UNCHANGED <<wait, cell>>
    BY <1>13 DEF Restore, NextRound
  <2>2. Stays(q)
    BY <1>13, <2>1, RecycledDelivery DEF Restore
  <2>3. QED
    BY <1>3, <2>1, <2>2
<1>14. CASE UNCHANGED <<pc, wait, cell>>
  BY <1>3, <1>14 DEF Stays
<1>15. QED
  BY <1>5, <1>6, <1>7, <1>8, <1>9, <1>10, <1>11, <1>12, <1>13, <1>14
  DEF Next, PosterStep, ReceiverStep, Withdraw, vars

LEMMA StepQueueWaits == IInv /\ [Next]_vars => QueueWaits'
<1> SUFFICES ASSUME IInv, [Next]_vars, NEW n \in Node, Queued(n)', node'[n].persistent PROVE SentWaits(n)'
  BY DEF QueueWaits
<1> USE TaskSides
<1>1. TypeOK /\ QueueWaits
  BY DEF IInv, Awaited
<1>2. ASSUME Queued(n), node'[n] = node[n] PROVE SentWaits(n)'
  <2>1. Persists(n) /\ SentWaits(n) /\ (node[n].valid => InTransit(n))
    BY <1>1, <1>2 DEF Persists, QueueWaits, InTransit
  <2>2. \A r \in Receiver : Reply(r) => held[r] # n
    BY <1>2, HasNode DEF Reply, ReplyDue
  <2>3. QED
    BY <1>2, <2>1, <2>2, SentKept
<1>3. ASSUME NEW p \in Poster, Send(p) PROVE SentWaits(n)'
  <2>1. PICK k \in Node :
              /\ owner[k] = p
              /\ node' = [node EXCEPT ![k] = [cell |-> cell[p], persistent |-> wait[p] # None, valid |-> TRUE]]
              /\ \A m \in Node : Queued(m)' <=> Queued(m) \/ m = k
    BY <1>3, SendQueued
  <2>2. /\ node'[k].cell = cell[p] /\ (node'[k].persistent <=> wait[p] # None) /\ node'[k].valid
        /\ \A m \in Node : m # k => node'[m] = node[m]
    BY <1>1, <2>1 DEF TypeOK
  <2>3. CASE n # k
    BY <1>2, <2>1, <2>2, <2>3
  <2>4. CASE n = k
    <3>1. wait[p] # None /\ content[cell[p]] = wait[p]
      BY <1>3, <2>2, <2>4 DEF Send, IInv, Awaited, PosterWaits, HasCell
    <3>2. pc'[p] = "await"
      BY <1>1, <1>3, <3>1, SendMoves DEF Send, Labels
    <3>3. UNCHANGED <<content, wait, settled>>
      BY <1>3 DEF Send
    <3>4. QED
      BY <2>1, <2>2, <2>4, <3>1, <3>2, <3>3 DEF SentWaits
  <2>5. QED
    BY <2>3, <2>4
<1>4. ASSUME NEW k \in Node, Withdraw(k) PROVE SentWaits(n)'
  <2>1. /\ InTransit(k) /\ ~node'[k].valid /\ node'[k].persistent = node[k].persistent
        /\ \A m \in Node : m # k => node'[m] = node[m]
    BY <1>4, WithdrawTransit
  <2>2. Queued(n) /\ node[k].valid /\ settled' = settled \cup {content[node[k].cell]} /\ UNCHANGED <<pc, wait>>
    BY <1>4 DEF Withdraw, Queued
  <2>3. CASE n # k
    BY <1>2, <2>1, <2>2, <2>3
  <2>4. CASE n = k
    <3>1. SentWaits(n)
      BY <1>1, <2>1, <2>2, <2>4 DEF QueueWaits
    <3>2. QED
      BY <2>1, <2>2, <2>4, <3>1 DEF SentWaits
  <2>5. QED
    BY <2>3, <2>4
<1>5. ASSUME NEW r \in Receiver, Pop(r) PROVE SentWaits(n)'
  <2>1. Queued(n)
    BY <1>5, PopQueued
  <2>2. QED
    BY <1>2, <1>5, <2>1 DEF Pop
<1>6. ASSUME UNCHANGED <<node, queue>> PROVE SentWaits(n)'
  BY <1>2, <1>6 DEF Queued
<1>7. QED
  BY <1>3, <1>4, <1>5, <1>6
  DEF Next, PosterStep, ReceiverStep, AllocateCell, NoNode, GiveBack, Return, Sleep, DeliverInvalid,
      Deliver, CopyMessage, Handle, Reply, Restore, PoolRelease, vars

LEMMA StepReceiversWait == IInv /\ [Next]_vars => \A r \in Receiver : ReceiverWaits(r)'
<1> SUFFICES ASSUME IInv, [Next]_vars, NEW s \in Receiver PROVE ReceiverWaits(s)'
  OBVIOUS
<1> USE TaskSides, NoneAssumption
<1>1. TypeOK /\ ReceiverWaits(s) /\ DataKept
  BY StepData DEF IInv, Awaited
<1>2. ASSUME held'[s] = None PROVE ReceiverWaits(s)'
  BY <1>2 DEF ReceiverWaits
<1>3. ASSUME Stays(s), UNCHANGED <<held[s], cell[s], message[s]>>,
             held[s] # None => node'[held[s]] = node[held[s]]
      PROVE  ReceiverWaits(s)'
  <2>1. CASE held[s] = None
    BY <1>2, <1>3, <2>1
  <2>2. CASE held[s] # None
    <3>1. pc[s] # "asleep"
      BY <2>2 DEF IInv, TasksStand, ReceiverStands
    <3>2. pc'[s] = pc[s]
      BY <1>3, <3>1 DEF Stays
    <3>3. QED
      BY <1>3, <2>2, <3>2, HeldKept
  <2>3. QED
    BY <2>1, <2>2
<1>4. ASSUME NEW t \in Task, t # s, NEW label \in Labels, Goto(t, label),
             UNCHANGED <<held[s], cell[s], message[s], node>>
      PROVE  ReceiverWaits(s)'
  BY <1>1, <1>3, <1>4, Gone DEF Stays
<1>5. ASSUME NEW p \in Poster, NEW w \in BOOLEAN, AllocateCell(p, w) PROVE ReceiverWaits(s)'
  BY <1>1, <1>4, <1>5 DEF AllocateCell, Labels, TypeOK
<1>6. ASSUME NEW p \in Poster, Send(p) PROVE ReceiverWaits(s)'
  <2>1. Stays(s)
    BY <1>1, <1>6, SendMoves DEF Send, Labels, Stays
  <2>2. UNCHANGED <<held[s], cell[s], message[s]>>
    BY <1>1, <1>6 DEF Send, TypeOK
  <2>3. held[s] # None => node'[held[s]] = node[held[s]]
    <3>1. PICK n \in Node :
              /\ \A r \in Receiver : held[r] # n
              /\ node' = [node EXCEPT ![n] = [cell |-> cell[p], persistent |-> wait[p] # None, valid |-> TRUE]]
      BY <1>6, SendQueued
    <3>2. QED
      BY <1>1, <3>1 DEF TypeOK
  <2>4. QED
    BY <1>3, <2>1, <2>2, <2>3
<1>7. ASSUME NEW p \in Poster, NEW blocking \in BOOLEAN, NoNode(p, blocking) PROVE ReceiverWaits(s)'
  BY <1>4, <1>7 DEF NoNode, Labels
<1>8. ASSUME NEW p \in Poster, GiveBack(p) \/ Return(p) PROVE ReceiverWaits(s)'
  BY <1>1, <1>4, <1>8 DEF GiveBack, Return, PoolRelease, Labels, TypeOK
<1>9. ASSUME NEW n \in Node, Withdraw(n) PROVE ReceiverWaits(s)'
  <2>1. held[s] # None => node'[held[s]] = node[held[s]]
    <3>1. Queued(n) /\ \A m \in Node : m # n => node'[m] = node[m]
      BY <1>9, WithdrawTransit DEF Withdraw, Queued
    <3>2. QED
      BY <1>1, <3>1 DEF IInv, NodesInOnePlace, TypeOK
  <2>2. QED
    BY <1>3, <1>9, <2>1 DEF Withdraw, Stays
<1>10. ASSUME NEW r \in Receiver, Pop(r) PROVE ReceiverWaits(s)'
  <2>1. /\ held' = [held EXCEPT ![r] = Head(queue)]
        /\ Head(queue) \in Node /\ Queued(Head(queue))
        /\ UNCHANGED <<node, content, wait, settled, cell>>
    BY <1>10, PopQueued DEF Pop
  <2>2. pc'[r] = "deliver" /\ \A u \in Task : u # r => pc'[u] = pc[u]
    BY <1>1, <1>10, Gone DEF Pop, Labels
  <2>3. CASE s = r
    <3>0. PICK h \in Node : h = Head(queue)
      BY <2>1
    <3>1. held'[r] = h /\ (node[h].persistent => SentWaits(h))
      BY <1>1, <2>1, <3>0 DEF TypeOK, IInv, Awaited, QueueWaits
    <3>2. owner[h] \in Poster /\ pc'[owner[h]] = pc[owner[h]]
      BY <2>1, <2>2, OwnerAssumption
    <3>3. node[h].persistent => SentWaits(h)'
      BY <2>1, <3>1, <3>2 DEF SentWaits
    <3>4. node'[h].persistent => HeldWaits(r)'
      BY <2>1, <2>2, <3>1, <3>3 DEF HeldWaits
    <3>5. QED
      BY <2>2, <2>3, <3>1, <3>4 DEF ReceiverWaits
  <2>4. CASE s # r
    BY <1>1, <1>4, <1>10, <2>1, <2>4 DEF Pop, Labels, TypeOK
  <2>5. QED
    BY <2>3, <2>4
<1>11. ASSUME NEW d \in Dispatcher, Sleep(d) PROVE ReceiverWaits(s)'
  <2>1. held[d] = None
    BY <1>11 DEF Sleep, IInv, TasksStand, ReceiverStands
  <2>2. QED
    BY <1>2, <1>4, <1>11, <2>1 DEF Sleep, Labels
<1>12. ASSUME NEW r \in Receiver, DeliverInvalid(r) \/ Deliver(r) PROVE ReceiverWaits(s)'
  <2> DEFINE h == held[r]
  <2>1. /\ h \in Node /\ UNCHANGED node /\ pc[r] = "deliver"
        /\ pc'[r] \in {"reply", "receive", "copy"}
        /\ \A u \in Task : u # r => Stays(u)
        /\ \A u \in Receiver : u # r => held'[u] = held[u]
        /\ IF node[h].persistent THEN held'[r] = h /\ pc'[r] # "receive"
              ELSE held'[r] = None /\ pc'[r] # "reply"
        /\ pc'[r] = "copy" <=> node[h].valid
    BY <1>12, Delivered
  <2>2. UNCHANGED <<content, wait, settled, message>>
    BY <1>12 DEF DeliverInvalid, Deliver
  <2>3. CASE s # r
    <3>1. cell'[s] = cell[s]
      BY <1>1, <1>12, <2>3 DEF DeliverInvalid, Deliver, TypeOK
    <3>2. QED
      BY <1>3, <2>1, <2>2, <2>3, <3>1
  <2>4. CASE s = r /\ ~node[h].persistent
    BY <1>2, <2>1, <2>4
  <2>5. CASE s = r /\ node[h].persistent
    <3>1. SentWaits(h) /\ Persists(h)
      BY <1>1, <2>1, <2>5 DEF ReceiverWaits, HeldWaits, Persists
    <3>2. \A u \in Receiver : Reply(u) => held[u] # h
      BY <2>1, HasNode DEF IInv, NodesInOnePlace, Reply, ReplyDue
    <3>3. PosterKept(owner[h])
      BY <2>1, <3>1, <3>2, OwnerKept
    <3>4. pc'[r] = "copy" => cell'[r] = node[h].cell
      BY <1>1, <1>12, <2>1 DEF DeliverInvalid, Deliver, TypeOK
    <3> HIDE DEF h
    <3>5. held'[r] = h /\ node'[h].persistent
      BY <2>1, <2>5
    <3>6. HeldWaits(r)'
      BY <2>1, <2>2, <2>5, <3>1, <3>3, <3>4, <3>5 DEF HeldWaits, SentWaits, PosterKept
    <3>7. QED
      BY <2>5, <3>5, <3>6 DEF ReceiverWaits
  <2>6. QED
    BY <2>3, <2>4, <2>5
<1>13. ASSUME NEW r \in Receiver, CopyMessage(r) PROVE ReceiverWaits(s)'
  <2>1. pc[r] = "copy" /\ pc'[r] = "handle" /\ \A u \in Task : u # r => pc'[u] = pc[u]
    BY <1>1, <1>13, Gone DEF CopyMessage, Labels
  <2>2. message'[r] = content[cell[r]] /\ UNCHANGED <<node, held, wait, settled>>
    BY <1>1, <1>13 DEF CopyMessage, TypeOK
  <2>3. CASE s # r
    BY <1>1, <1>4, <1>13, <2>3 DEF CopyMessage, PoolRelease, Labels, TypeOK
  <2>4. CASE s = r
    <3>1. CASE held[r] = None
      BY <1>2, <2>2, <2>4, <3>1
    <3>2. CASE held[r] # None
      <4>1. held[r] \in Node /\ owner[held[r]] \in Poster
        BY <1>1, <3>2, OwnerAssumption DEF TypeOK
      <4>2. node[held[r]].persistent /\ HeldWaits(r)
        BY <1>1, <2>1, <2>4, <3>2 DEF ReceiverWaits
      <4>3. HeldWaits(r)'
        BY <2>1, <2>2, <4>1, <4>2 DEF HeldWaits
      <4>4. QED
        BY <2>2, <2>4, <4>2, <4>3 DEF ReceiverWaits
    <3>3. QED
      BY <3>1, <3>2
  <2>5. QED
    BY <2>3, <2>4
<1>14. ASSUME NEW r \in Receiver, Handle(r) PROVE ReceiverWaits(s)'
  <2>1. UNCHANGED <<node, held, wait, message, cell>> /\ settled' = settled \cup {message[r]}
    BY <1>14 DEF Handle
  <2>2. CASE s # r
    BY <1>4, <1>14, <2>1, <2>2 DEF Handle, NextRound, Labels
  <2>3. CASE s = r
    <3>1. CASE held[r] = None
      BY <1>2, <2>1, <2>3, <3>1
    <3>2. CASE held[r] # None
      <4>1. held[r] \in Node /\ owner[held[r]] \in Poster
        BY <1>1, <3>2, OwnerAssumption DEF TypeOK
      <4>2. pc[r] = "handle" /\ pc'[r] = "reply" /\ \A u \in Task : u # r => pc'[u] = pc[u]
        BY <1>1, <1>14, <3>2, Gone DEF Handle, Labels
      <4>3. node[held[r]].persistent /\ HeldWaits(r)
        BY <1>1, <2>3, <3>2, <4>2 DEF ReceiverWaits
      <4>4. HeldWaits(r)'
        BY <2>1, <4>1, <4>2, <4>3 DEF HeldWaits
      <4>5. QED
        BY <2>1, <2>3, <4>3, <4>4 DEF ReceiverWaits
    <3>3. QED
      BY <3>1, <3>2
  <2>4. QED
    BY <2>2, <2>3
<1>15. ASSUME NEW r \in Receiver, Reply(r) PROVE ReceiverWaits(s)'
  <2>1. UNCHANGED <<node, held, cell, message>>
    BY <1>15, Replies
  <2>2. CASE s # r
    <3>1. Stays(s)
      BY <1>15, <2>2, Replies DEF Stays
    <3>2. QED
      BY <1>3, <2>1, <3>1
  <2>3. CASE s = r
    BY <1>15, <2>1, <2>3, Replies DEF ReceiverWaits, HeldWaits
  <2>4. QED
    BY <2>2, <2>3
<1>16. ASSUME NEW r \in Receiver, Restore(r) PROVE ReceiverWaits(s)'
  <2>1. /\ pc[r] = "restore" /\ NextRound(r) \in {"receive", "quit"}
        /\ UNCHANGED <<cell, message, node>>
    BY <1>16 DEF Restore, NextRound
  <2>2. held'[r] = None /\ \A u \in Receiver : u # r => Stays(u) /\ held'[u] = held[u]
    BY <1>16, <2>1, RecycledDelivery DEF Restore
  <2>3. QED
    BY <1>2, <1>3, <2>1, <2>2
<1>17. CASE UNCHANGED vars
  BY <1>3, <1>17 DEF vars, Stays
<1>18. QED
  BY <1>5, <1>6, <1>7, <1>8, <1>9, <1>10, <1>11, <1>12, <1>13, <1>14, <1>15, <1>16, <1>17
  DEF Next, PosterStep, ReceiverStep

LEMMA StepOneReply == IInv /\ [Next]_vars => OneReply'
<1> SUFFICES ASSUME IInv, [Next]_vars PROVE OneReply'
  OBVIOUS
<1> USE TaskSides, NoneAssumption
<1>1. TypeOK /\ OneReply
  BY DEF IInv, Awaited
<1>2. ASSUME \A n \in Node : Persists(n)' => Persists(n) PROVE OneReply'
  BY <1>1, <1>2 DEF OneReply
<1>3. ASSUME UNCHANGED <<node, queue>>, \A r \in Receiver : held'[r] \in {held[r], None} PROVE OneReply'
  <2>1. \A n \in Node : Persists(n)' => Persists(n)
    BY <1>3 DEF Persists, Queued
  <2>2. QED
    BY <1>2, <2>1
<1>4. ASSUME NEW p \in Poster, Send(p) PROVE OneReply'
  <2>1. PICK k \in Node :
              /\ owner[k] = p
              /\ node' = [node EXCEPT ![k] = [cell |-> cell[p], persistent |-> wait[p] # None, valid |-> TRUE]]
              /\ \A m \in Node : Queued(m)' <=> Queued(m) \/ m = k
    BY <1>4, SendQueued
  <2>2. \A m \in Node : m # k => node'[m] = node[m]
    BY <1>1, <2>1 DEF TypeOK
  <2>3. UNCHANGED held /\ pc[p] = "send"
    BY <1>4 DEF Send
  <2>4. \A m \in Node : m # k /\ Persists(m)' => Persists(m)
    BY <2>1, <2>2, <2>3 DEF Persists
  <2>5. \A m \in Node : Persists(m) => owner[m] # p
    BY <2>3, PersistsAwait
  <2>6. QED
    BY <1>1, <2>1, <2>4, <2>5 DEF OneReply
<1>5. ASSUME NEW n \in Node, Withdraw(n) PROVE OneReply'
  <2>1. UNCHANGED <<queue, held>> /\ \A m \in Node : node'[m].persistent = node[m].persistent
    BY <1>5, WithdrawTransit DEF Withdraw
  <2>2. \A m \in Node : Persists(m)' => Persists(m)
    BY <2>1 DEF Persists, Queued
  <2>3. QED
    BY <1>2, <2>2
<1>6. ASSUME NEW r \in Receiver, Pop(r) PROVE OneReply'
  <2>1. /\ held' = [held EXCEPT ![r] = Head(queue)] /\ Queued(Head(queue)) /\ UNCHANGED node
        /\ \A n \in Node : Queued(n)' <=> Queued(n) /\ n # Head(queue)
    BY <1>6, PopQueued DEF Pop
  <2>2. \A s \in Receiver : held'[s] = held[s] \/ held'[s] = Head(queue)
    BY <1>1, <2>1 DEF TypeOK
  <2>3. \A m \in Node : Persists(m)' => Persists(m)
    BY <2>1, <2>2 DEF Persists
  <2>4. QED
    BY <1>2, <2>3
<1>7. ASSUME NEW r \in Receiver, DeliverInvalid(r) \/ Deliver(r) PROVE OneReply'
  BY <1>3, <1>7, Delivered
<1>8. ASSUME NEW r \in Receiver, Restore(r) PROVE OneReply'
  <2>1. pc[r] = "restore" /\ NextRound(r) \in {"receive", "quit"} /\ UNCHANGED <<node, queue>>
    BY <1>8 DEF Restore, NextRound
  <2>2. QED
    BY <1>3, <1>8, <2>1, RecycledDelivery DEF Restore
<1>9. CASE UNCHANGED <<node, queue, held>>
  BY <1>3, <1>9
<1>10. QED
  BY <1>4, <1>5, <1>6, <1>7, <1>8, <1>9
  DEF Next, PosterStep, ReceiverStep, AllocateCell, NoNode, GiveBack, Return, Sleep,
      CopyMessage, Handle, Reply, PoolRelease, vars

LEMMA InvariantIsInductive == IInv /\ [Next]_vars => IInv'
<1> SUFFICES ASSUME IInv, [Next]_vars PROVE IInv'
  OBVIOUS
<1>1. TypeOK' /\ TasksStand' /\ NodesInOnePlace' /\ CellsInOnePlace' /\ Carried'
  BY StepTyped, StepTasks, StepNodes, StepCells
<1>2. MessagesInOnePlace' /\ NoSleeperBesideMessage'
  BY StepMessages, StepSleepers
<1>3. Awaited'
  BY StepPostersWait, StepQueueWaits, StepReceiversWait, StepOneReply DEF Awaited
<1>4. QED
  BY <1>1, <1>2, <1>3 DEF IInv

-----------------------------------------------------------------------------
(* The theorems *)

LEMMA InvariantHolds == Spec => []IInv
<1>1. QED
  BY InitInvariant, InvariantIsInductive, PTL DEF Spec

\* The variables keep their types: no cell or node is ever read where there is none.
THEOREM TypeCorrect == Spec => []TypeOK
<1>1. IInv => TypeOK
  BY DEF IInv
<1>2. QED
  BY <1>1, InvariantHolds, PTL

\* Every node is on its owner's free list, once on the queue, or held by one
\* receiver: mqueue_node_recycle never frees a node twice and deliver loses none.
THEOREM NodesConserved == Spec => []NodesInOnePlace
<1>1. IInv => NodesInOnePlace
  BY DEF IInv
<1>2. QED
  BY <1>1, InvariantHolds, PTL

\* Every cell is in the pool, in one task's hands, or in one node on its way: a failed
\* post, a receive and a withdrawal each give the cell back once.
THEOREM CellsConserved == Spec => []CellsInOnePlace
<1>1. IInv => CellsInOnePlace
  BY DEF IInv
<1>2. QED
  BY <1>1, InvariantHolds, PTL

\* However many dispatchers and pollers share the queue, the signal of each send is
\* enough: no dispatcher sleeps beside a message nobody is on the way to.
THEOREM NobodySleepsBesideMessage == Spec => []NoSleeperBesideMessage
<1>1. IInv => NoSleeperBesideMessage
  BY DEF IInv
<1>2. QED
  BY <1>1, InvariantHolds, PTL

\* A message is handled by one receiver and never again, through failed posts,
\* withdrawals and nodes that are recycled while their message is on its way.
HandledOnce ==
    \A r \in Receiver : pc[r] = "handle" =>
        /\ message[r] \notin settled
        /\ \A s \in Receiver : pc[s] = "handle" /\ message[s] = message[r] => s = r
THEOREM MessagesHandledOnce == Spec => []HandledOnce
<1>1. IInv => HandledOnce
  BY DEF IInv, MessagesInOnePlace, HandledOnce
<1>2. QED
  BY <1>1, InvariantHolds, PTL

\* A post with wait is answered only when its own message was handled or withdrawn,
\* although the reply travels in a node that is used again.
AnswerIsDue == \A p \in Poster : pc[p] = "answered" => wait[p] \in settled
THEOREM AnswersAreDue == Spec => []AnswerIsDue
<1>1. IInv => AnswerIsDue
  BY DEF IInv, Awaited, PosterWaits, AnswerIsDue
<1>2. QED
  BY <1>1, InvariantHolds, PTL

-----------------------------------------------------------------------------
(* The queues implement Channel *)

Backlog == [i \in DOMAIN queue |-> MessageOf(queue[i])]
Hands == [r \in Receiver |-> InHand(r)]
Awaits == [p \in Poster |-> IF pc[p] \in {"await", "answered"} THEN wait[p] ELSE None]

\* The message in a receiver's hand, label by label, before and after a step.
LEMMA InHandIs ==
    ASSUME NEW r \in Receiver
    PROVE  /\ pc[r] = "deliver" => InHand(r) = MessageOf(held[r])
           /\ pc[r] = "copy" => InHand(r) = content[cell[r]]
           /\ pc[r] = "handle" => InHand(r) = message[r]
           /\ pc[r] \notin {"deliver", "copy", "handle"} => InHand(r) = None
           /\ pc'[r] = "deliver" => InHand(r)' = MessageOf(held[r])'
           /\ pc'[r] = "copy" => InHand(r)' = content'[cell'[r]]
           /\ pc'[r] = "handle" => InHand(r)' = message'[r]
           /\ pc'[r] \notin {"deliver", "copy", "handle"} => InHand(r)' = None
<1>1. pc[r] = "deliver" => InHand(r) = MessageOf(held[r])
  BY Zenon DEF InHand
<1>2. pc[r] = "copy" => InHand(r) = content[cell[r]]
  BY Zenon DEF InHand
<1>3. pc[r] = "handle" => InHand(r) = message[r]
  BY Zenon DEF InHand
<1>4. pc[r] \notin {"deliver", "copy", "handle"} => InHand(r) = None
  BY Zenon DEF InHand
<1>5. pc'[r] = "deliver" => InHand(r)' = MessageOf(held[r])'
  BY Zenon DEF InHand
<1>6. pc'[r] = "copy" => InHand(r)' = content'[cell'[r]]
  BY Zenon DEF InHand
<1>7. pc'[r] = "handle" => InHand(r)' = message'[r]
  BY Zenon DEF InHand
<1>8. pc'[r] \notin {"deliver", "copy", "handle"} => InHand(r)' = None
  BY Zenon DEF InHand
<1>9. QED
  BY <1>1, <1>2, <1>3, <1>4, <1>5, <1>6, <1>7, <1>8

\* A function that differs at one place is the other one updated there.
LEMMA Updated ==
    ASSUME NEW S, NEW f, NEW g, f = [x \in S |-> f[x]], g = [x \in S |-> g[x]],
           NEW p \in S, NEW v, g[p] = v, \A x \in S : x # p => g[x] = f[x]
    PROVE  g = [f EXCEPT ![p] = v]
<1>1. [f EXCEPT ![p] = v] = [x \in S |-> IF x = p THEN v ELSE f[x]]
  OBVIOUS
<1>2. [x \in S |-> g[x]] = [x \in S |-> IF x = p THEN v ELSE f[x]]
  OBVIOUS
<1>3. QED
  BY <1>1, <1>2

\* A node that is not written keeps its message.
LEMMA MessageKept ==
    ASSUME IInv, [Next]_vars, NEW n \in Node, node[n].valid => InTransit(n), node'[n] = node[n]
    PROVE  MessageOf(n)' = MessageOf(n)
<1>1. node[n].valid => node[n].cell \in Cell \ cells
  BY CellInUse
<1>2. QED
  BY <1>1, StepData DEF MessageOf, DataKept

\* A receiver that stays keeps what it has in hand.
LEMMA HandKept ==
    ASSUME IInv, [Next]_vars, NEW r \in Receiver, Stays(r), UNCHANGED <<held[r], cell[r], message[r]>>,
           pc[r] = "deliver" => node'[held[r]] = node[held[r]]
    PROVE  InHand(r)' = InHand(r)
<1> USE TaskSides
<1>1. pc'[r] = pc[r] \/ (pc[r] = "asleep" /\ pc'[r] = "receive")
  BY DEF Stays
<1>2. CASE pc[r] = "deliver"
  <2>1. held[r] \in Node /\ (node[held[r]].valid => InTransit(held[r]))
    BY <1>2, HasNode DEF InTransit
  <2>2. PICK n \in Node : n = held[r]
    BY <2>1
  <2>3. MessageOf(n)' = MessageOf(n)
    BY <1>2, <2>1, <2>2, MessageKept
  <2>4. MessageOf(held[r])' = MessageOf(held[r])
    BY <2>2, <2>3 DEF MessageOf
  <2>5. QED
    BY <1>1, <1>2, <2>4, InHandIs
<1>3. CASE pc[r] = "copy"
  <2>1. cell[r] \in Cell \ cells
    BY <1>3, CellInUse, NoneAssumption DEF IInv, TasksStand, ReceiverStands
  <2>2. QED
    BY <1>1, <1>3, <2>1, InHandIs, StepData DEF DataKept
<1>4. CASE pc[r] = "handle"
  BY <1>1, <1>4, InHandIs
<1>5. CASE pc[r] \notin {"deliver", "copy", "handle"}
  BY <1>1, <1>5, InHandIs
<1>6. QED
  BY <1>2, <1>3, <1>4, <1>5

\* The backlog is a sequence of messages as long as the queue.
LEMMA BacklogIs ==
    ASSUME IInv
    PROVE  /\ Backlog \in Seq(Message \cup {None}) /\ Len(Backlog) = Len(queue)
           /\ DOMAIN Backlog = 1 .. Len(queue) /\ DOMAIN queue = 1 .. Len(queue) /\ Len(queue) \in Nat
           /\ \A i \in DOMAIN queue : queue[i] \in Node /\ Queued(queue[i]) /\ Backlog[i] = MessageOf(queue[i])
<1>1. DOMAIN queue = 1 .. Len(queue) /\ Len(queue) \in Nat
  BY LenProperties DEF IInv, TypeOK
<1>2. \A i \in DOMAIN queue : queue[i] \in Node /\ Queued(queue[i])
  BY <1>1, ElementOfSeq DEF IInv, TypeOK, Queued
<1>3. \A i \in DOMAIN queue : MessageOf(queue[i]) \in Message \cup {None}
  BY <1>2, CellInUse DEF MessageOf, InTransit
<1>4. \A i \in 1 .. Len(queue) : Backlog[i] \in Message \cup {None}
  BY <1>1, <1>3 DEF Backlog
<1>5. DOMAIN Backlog = 1 .. Len(queue)
  BY <1>1 DEF Backlog
<1>6. Backlog \in Seq(Message \cup {None}) /\ Len(Backlog) = Len(queue)
  <2>1. Backlog \in [1 .. Len(queue) -> Message \cup {None}]
    BY <1>1, <1>3 DEF Backlog
  <2>2. Backlog \in Seq(Message \cup {None})
    BY <1>1, <2>1
  <2>3. QED
    BY <1>1, <1>5, <2>2, LenProperties
<1>7. QED
  BY <1>1, <1>2, <1>5, <1>6 DEF Backlog

LEMMA BacklogKept ==
    ASSUME IInv, [Next]_vars, UNCHANGED queue, \A n \in Node : Queued(n) => node'[n] = node[n]
    PROVE  Backlog' = Backlog
<1>1. ASSUME NEW i \in DOMAIN queue PROVE MessageOf(queue[i])' = MessageOf(queue[i])
  <2>1. PICK n \in Node : n = queue[i] /\ Queued(n)
    BY BacklogIs
  <2>2. MessageOf(n)' = MessageOf(n)
    BY <2>1, MessageKept DEF InTransit
  <2>3. QED
    BY <2>1, <2>2 DEF MessageOf
<1>2. QED
  BY <1>1 DEF Backlog

\* Only a send makes a poster wait, and only its return ends the wait.
LEMMA AwaitsKept ==
    ASSUME IInv, [Next]_vars, NEW p \in Poster, ~Return(p), ~Send(p)
    PROVE  Awaits'[p] = Awaits[p]
<1> USE TaskSides
<1>1. TypeOK
  BY DEF IInv
<1>2. CASE PosterKept(p)
  BY <1>2 DEF Awaits, PosterKept
<1>3. ASSUME NEW r \in Receiver, Reply(r), owner[held[r]] = p PROVE Awaits'[p] = Awaits[p]
  BY <1>3, Replies DEF Awaits
<1>4. ASSUME pc[p] \notin {"await", "answered"}, pc'[p] \notin {"await", "answered"} PROVE Awaits'[p] = Awaits[p]
  BY <1>4 DEF Awaits
<1>5. ASSUME pc[p] \notin {"await", "answered"}
      PROVE  pc'[p] \notin {"await", "answered"}
  <2>1. CASE Stays(p)
    BY <1>5, <2>1 DEF Stays
  <2>2. ASSUME NEW t \in Task, NEW label \in Labels \ {"await", "answered"}, Goto(t, label)
        PROVE  pc'[p] \notin {"await", "answered"}
    BY <1>1, <1>5, <2>2, Gone
  <2>3. ASSUME NEW q \in Poster, NEW w \in BOOLEAN, AllocateCell(q, w) PROVE pc'[p] \notin {"await", "answered"}
    BY <2>2, <2>3 DEF AllocateCell, Labels
  <2>4. ASSUME NEW q \in Poster, Send(q) PROVE pc'[p] \notin {"await", "answered"}
    <3>1. q # p
      BY <2>4
    <3>2. \A u \in Task : u # q => Stays(u)
      BY <1>1, <2>4, SendMoves DEF Send, Labels, Stays
    <3>3. QED
      BY <2>1, <3>1, <3>2
  <2>5. ASSUME NEW q \in Poster, NEW blocking \in BOOLEAN, NoNode(q, blocking) PROVE pc'[p] \notin {"await", "answered"}
    BY <2>2, <2>5 DEF NoNode, Labels
  <2>6. ASSUME NEW q \in Poster, GiveBack(q) \/ Return(q) PROVE pc'[p] \notin {"await", "answered"}
    BY <2>2, <2>6 DEF GiveBack, Return, Labels
  <2>7. ASSUME NEW r \in Receiver, Pop(r) \/ CopyMessage(r) \/ Handle(r) PROVE pc'[p] \notin {"await", "answered"}
    BY <2>2, <2>7 DEF Pop, CopyMessage, Handle, NextRound, Labels
  <2>8. ASSUME NEW r \in Receiver, DeliverInvalid(r) \/ Deliver(r) PROVE pc'[p] \notin {"await", "answered"}
    BY <2>1, <2>8, Delivered
  <2>9. ASSUME NEW d \in Dispatcher, Sleep(d) PROVE pc'[p] \notin {"await", "answered"}
    BY <2>2, <2>9 DEF Sleep, Labels
  <2>10. ASSUME NEW r \in Receiver, Reply(r) PROVE pc'[p] \notin {"await", "answered"}
    BY <1>5, <2>10, Replies
  <2>11. ASSUME NEW r \in Receiver, Restore(r) PROVE pc'[p] \notin {"await", "answered"}
    <3>1. pc[r] = "restore" /\ NextRound(r) \in {"receive", "quit"} /\ r # p
      BY <2>11 DEF Restore, NextRound
    <3>2. QED
      BY <2>1, <2>11, <3>1, RecycledDelivery DEF Restore
  <2>12. CASE UNCHANGED pc
    BY <1>5, <2>12
  <2>13. QED
    BY <2>3, <2>4, <2>5, <2>6, <2>7, <2>8, <2>9, <2>10, <2>11, <2>12
    DEF Next, PosterStep, ReceiverStep, Withdraw, vars
<1>6. QED
  BY <1>2, <1>3, <1>4, <1>5, StepPosters

\* A send posts the message in the poster's cell, which is nowhere else.
LEMMA SendPosts ==
    ASSUME IInv, [Next]_vars, NEW p \in Poster, Send(p)
    PROVE  \E m \in Message : AsChannel!PostMessage(p, m)
<1> DEFINE m == content[cell[p]]
<1> USE TaskSides, NoneAssumption
<1>1. TypeOK /\ pc[p] = "send" /\ UNCHANGED <<content, wait, held, cells, message, settled>>
  BY DEF Send, IInv
<1>2. cell[p] \in Cell \ cells /\ m \in (1 .. posted) \ settled /\ m \in Message /\ m # None
  BY <1>1, CellInUse, MessageAssumption DEF IInv, TasksStand, PosterStands, HasCell, Message
<1>3. PICK n \in Node :
         /\ ~Queued(n) /\ \A s \in Receiver : held[s] # n
         /\ node' = [node EXCEPT ![n] = [cell |-> cell[p], persistent |-> wait[p] # None, valid |-> TRUE]]
         /\ queue' = Append(queue, n)
  BY SendQueued
<1>4. /\ node'[n].valid /\ node'[n].cell = cell[p]
      /\ \A k \in Node : k # n => node'[k] = node[k]
  BY <1>1, <1>3 DEF TypeOK
<1>5. \A u \in Task : u # p => Stays(u) /\ cell'[u] = cell[u]
  BY <1>1, SendMoves DEF Send, Labels, Stays, TypeOK
<1>6. \A k \in Node : InTransit(k) => MessageOf(k) # m
  <2>1. ASSUME NEW k \in Node, InTransit(k) PROVE MessageOf(k) # m
    <3>1. node[k].cell \in Cell \ cells /\ MessageOf(k) = content[node[k].cell]
      BY <2>1, CellInUse DEF MessageOf, InTransit
    <3>2. node[k].cell # cell[p]
      BY <1>2, <2>1 DEF IInv, CellsInOnePlace
    <3>3. QED
      BY <1>2, <3>1, <3>2 DEF IInv, MessagesInOnePlace
  <2>2. QED
    BY <2>1
<1>7. \A i \in DOMAIN Backlog : Backlog[i] # m
  BY <1>2, <1>6, BacklogIs DEF MessageOf, InTransit
<1>8. ASSUME NEW r \in Receiver PROVE Hands[r] # m
  <2>1. Hands[r] = InHand(r)
    BY DEF Hands
  <2>2. CASE pc[r] = "deliver"
    <3>1. held[r] \in Node /\ MessageOf(held[r]) # m
      BY <1>2, <1>6, <2>2, HasNode DEF MessageOf, InTransit
    <3>2. QED
      BY <2>1, <2>2, <3>1, InHandIs
  <2>3. CASE pc[r] = "copy"
    <3>1. cell[r] \in Cell \ cells /\ cell[r] # cell[p]
      BY <1>2, <2>3, CellInUse DEF IInv, TasksStand, ReceiverStands, CellsInOnePlace
    <3>2. content[cell[r]] # m
      BY <1>2, <3>1 DEF IInv, MessagesInOnePlace
    <3>3. QED
      BY <2>1, <2>3, <3>2, InHandIs
  <2>4. CASE pc[r] = "handle"
    <3>1. message[r] # m
      BY <1>2, <2>4 DEF IInv, MessagesInOnePlace
    <3>2. QED
      BY <2>1, <2>4, <3>1, InHandIs
  <2>5. CASE pc[r] \notin {"deliver", "copy", "handle"}
    BY <1>2, <2>1, <2>5, InHandIs
  <2>6. QED
    BY <2>2, <2>3, <2>4, <2>5
<1>9. Backlog' = Append(Backlog, m)
  <2>1. /\ Len(queue) \in Nat /\ DOMAIN queue = 1 .. Len(queue)
        /\ DOMAIN queue' = 1 .. Len(queue) + 1
        /\ \A i \in 1 .. Len(queue) : queue'[i] = queue[i]
        /\ queue'[Len(queue) + 1] = n
    BY <1>1, <1>3, AppendProperties, LenProperties DEF TypeOK
  <2>2. DOMAIN Backlog' = 1 .. Len(queue) + 1
    BY <2>1 DEF Backlog
  <2>3. ASSUME NEW i \in 1 .. Len(queue) PROVE Backlog'[i] = Backlog[i]
    <3>1. PICK k \in Node : k = queue[i] /\ Queued(k)
      BY <2>1, BacklogIs
    <3>2. MessageOf(k)' = MessageOf(k)
      BY <1>3, <1>4, <3>1, MessageKept DEF InTransit
    <3>3. Backlog'[i] = MessageOf(k)'
      BY <2>1, <3>1 DEF Backlog, MessageOf
    <3>4. QED
      BY <2>1, <3>1, <3>2, <3>3 DEF Backlog
  <2>4. Backlog'[Len(queue) + 1] = m
    BY <1>1, <1>4, <2>1 DEF Backlog, MessageOf
  <2>5. Backlog \in Seq(Message \cup {None}) /\ Len(Backlog) = Len(queue)
    BY BacklogIs
  <2>6. m \in Message \cup {None}
    BY <1>2
  <2> DEFINE b == Backlog'
             a == Append(Backlog, m)
  <2> HIDE DEF m
  <2>7. /\ a \in Seq(Message \cup {None}) /\ Len(a) = Len(queue) + 1
        /\ \A i \in 1 .. Len(queue) : a[i] = Backlog[i]
        /\ a[Len(queue) + 1] = m
    BY <2>1, <2>5, <2>6, AppendProperties
  <2> HIDE DEF a
  <2>8. \A i \in 1 .. Len(queue) + 1 : b[i] = a[i]
    BY <2>1, <2>3, <2>4, <2>7
  <2>9. b = [i \in 1 .. Len(queue) + 1 |-> b[i]]
    BY <2>1 DEF Backlog
  <2> HIDE DEF b
  <2>10. a = [i \in 1 .. Len(queue) + 1 |-> a[i]]
    BY <2>7
  <2>11. b = a
    BY <2>8, <2>9, <2>10
  <2>12. QED
    BY <2>11 DEF a, b, m
<1>10. Hands' = Hands
  <2>1. ASSUME NEW r \in Receiver PROVE InHand(r)' = InHand(r)
    <3>1. pc[r] = "deliver" => node'[held[r]] = node[held[r]]
      BY <1>3, <1>4, HasNode
    <3>2. QED
      BY <1>1, <1>5, <3>1, HandKept
  <2>2. QED
    BY <2>1 DEF Hands
<1>11. Awaits[p] = None /\ Awaits' \in {Awaits, [Awaits EXCEPT ![p] = m]}
  <2>1. Awaits[p] = None
    BY <1>1 DEF Awaits
  <2>2. \A q \in Poster : q # p => Awaits'[q] = Awaits[q]
    <3>1. ASSUME NEW q \in Poster, q # p, Return(q) \/ Send(q) PROVE Awaits'[q] = Awaits[q]
      BY <1>1, <1>5, <3>1 DEF Return, Send, Awaits, Stays
    <3>2. QED
      BY <3>1, AwaitsKept
  <2>3. wait[p] \in {None, m}
    BY <1>1 DEF IInv, Awaited, PosterWaits, HasCell
  <2>4. pc'[p] = IF wait[p] # None THEN "await" ELSE "idle"
    BY <1>1, SendMoves DEF Send, Labels
  <2>5. Awaits'[p] = wait[p]
    BY <1>1, <2>4 DEF Awaits
  <2>6. Awaits = [q \in Poster |-> Awaits[q]] /\ Awaits' = [q \in Poster |-> Awaits'[q]]
    BY DEF Awaits
  <2> HIDE DEF m
  <2>7. CASE wait[p] = None
    BY <2>1, <2>2, <2>5, <2>6, <2>7
  <2>8. CASE wait[p] = m
    <3> DEFINE f == Awaits
               g == Awaits'
    <3>1. f = [q \in Poster |-> f[q]] /\ g = [q \in Poster |-> g[q]]
      BY <2>6
    <3>2. g[p] = m /\ \A q \in Poster : q # p => g[q] = f[q]
      BY <2>2, <2>5, <2>8
    <3> HIDE DEF f, g
    <3>3. g = [f EXCEPT ![p] = m]
      BY <3>1, <3>2, Updated
    <3>4. QED
      BY <2>1, <3>3 DEF f, g
  <2>9. QED
    BY <2>1, <2>3, <2>7, <2>8
<1>12. PICK k \in Message : k = m
  BY <1>2
<1>13. AsChannel!PostMessage(p, k)
  BY <1>1, <1>2, <1>7, <1>8, <1>9, <1>10, <1>11, <1>12 DEF AsChannel!PostMessage, Backlog, Hands, Awaits
<1>14. QED
  BY <1>13

\* The poster's return ends its wait.
LEMMA ReturnReturns ==
    ASSUME IInv, [Next]_vars, NEW p \in Poster, Return(p)
    PROVE  AsChannel!PosterReturn(p)
<1> USE TaskSides
<1>1. /\ TypeOK /\ pc[p] = "answered"
      /\ UNCHANGED <<queue, free, cells, node, content, held, cell, message, posted, settled>>
  BY DEF Return, IInv
<1>2. pc'[p] = "idle" /\ \A u \in Task : u # p => pc'[u] = pc[u]
  BY <1>1, Gone DEF Return, Labels
<1>3. Awaits[p] \in settled
  BY <1>1 DEF IInv, Awaited, PosterWaits, Awaits
<1>4. Awaits' = [Awaits EXCEPT ![p] = None]
  <2>1. Awaits'[p] = None
    BY <1>2 DEF Awaits
  <2>2. ASSUME NEW q \in Poster, q # p PROVE Awaits'[q] = Awaits[q]
    BY <1>1, <1>2, <2>2 DEF Return, Awaits, TypeOK
  <2>3. Awaits = [q \in Poster |-> Awaits[q]] /\ Awaits' = [q \in Poster |-> Awaits'[q]]
    BY DEF Awaits
  <2>4. QED
    BY <2>1, <2>2, <2>3, Updated
<1>5. Backlog' = Backlog
  BY <1>1, BacklogKept
<1>6. Hands' = Hands
  <2>1. ASSUME NEW r \in Receiver PROVE InHand(r)' = InHand(r)
    BY <1>1, <1>2, HandKept DEF Stays
  <2>2. QED
    BY <2>1 DEF Hands
<1>7. QED
  BY <1>1, <1>3, <1>4, <1>5, <1>6 DEF AsChannel!PosterReturn, Backlog, Hands, Awaits

\* Only Return and Send change what the posters wait for.
LEMMA AllAwaitsKept ==
    ASSUME IInv, [Next]_vars, \A p \in Poster : ~Return(p) /\ ~Send(p)
    PROVE  Awaits' = Awaits
<1>1. \A p \in Poster : Awaits'[p] = Awaits[p]
  BY AwaitsKept
<1>2. Awaits = [q \in Poster |-> Awaits[q]] /\ Awaits' = [q \in Poster |-> Awaits'[q]]
  BY DEF Awaits
<1>3. QED
  BY <1>1, <1>2

\* What a receiver, a withdrawal or the pool does is no step of a waiting poster's.
LEMMA NotThePosters ==
    ASSUME IInv, \/ \E r \in Receiver : Pop(r) \/ ReceiverStep(r)
                 \/ \E d \in Dispatcher : Sleep(d)
                 \/ \E n \in Node : Withdraw(n)
                 \/ \E p \in Poster, w \in BOOLEAN : AllocateCell(p, w)
                 \/ \E p \in Poster, blocking \in BOOLEAN : NoNode(p, blocking)
                 \/ \E p \in Poster : GiveBack(p)
    PROVE  \A p \in Poster : ~Return(p) /\ ~Send(p)
<1> SUFFICES ASSUME NEW p \in Poster, Return(p) \/ Send(p) PROVE FALSE
  OBVIOUS
<1> USE TaskSides
<1>1. TypeOK /\ cell[p] \in Cell \cup {None}
  BY DEF IInv, TypeOK
<1>2. pc[p] \in {"answered", "send"} /\ pc'[p] \in {"await", "idle"}
  <2>1. CASE Return(p)
    BY <1>1, <2>1, Gone DEF Return, Labels
  <2>2. CASE Send(p)
    BY <1>1, <2>2, SendMoves DEF Send, Labels
  <2>3. QED
    BY <2>1, <2>2
<1>3. ~Stays(p)
  BY <1>2 DEF Stays
<1>4. ASSUME NEW t \in Task, NEW label \in Labels \ {"await", "idle"}, Goto(t, label) PROVE FALSE
  BY <1>1, <1>2, <1>4, Gone
<1>5. ASSUME NEW r \in Receiver, Pop(r) \/ CopyMessage(r) \/ Handle(r) PROVE FALSE
  BY <1>4, <1>5 DEF Pop, CopyMessage, Handle, NextRound, Labels
<1>6. ASSUME NEW r \in Receiver, DeliverInvalid(r) \/ Deliver(r) PROVE FALSE
  BY <1>3, <1>6, Delivered
<1>7. ASSUME NEW r \in Receiver, Reply(r) PROVE FALSE
  BY <1>2, <1>7, Replies
<1>8. ASSUME NEW r \in Receiver, Restore(r) PROVE FALSE
  <2>1. pc[r] = "restore" /\ NextRound(r) \in {"receive", "quit"} /\ r # p
    BY <1>8 DEF Restore, NextRound
  <2>2. QED
    BY <1>3, <1>8, <2>1, RecycledDelivery DEF Restore
<1>9. ASSUME NEW d \in Dispatcher, Sleep(d) PROVE FALSE
  BY <1>4, <1>9 DEF Sleep, Labels
<1>10. ASSUME NEW n \in Node, Withdraw(n) PROVE FALSE
  BY <1>2, <1>10 DEF Withdraw
<1>11. ASSUME NEW q \in Poster, NEW w \in BOOLEAN, AllocateCell(q, w) PROVE FALSE
  BY <1>4, <1>11 DEF AllocateCell, Labels
<1>12. ASSUME NEW q \in Poster, NEW blocking \in BOOLEAN, NoNode(q, blocking) PROVE FALSE
  BY <1>4, <1>12 DEF NoNode, Labels
<1>13. ASSUME NEW q \in Poster, GiveBack(q) PROVE FALSE
  <2>1. pc[q] = "failed" /\ \A u \in Task : u # q => pc'[u] = pc[u]
    BY <1>1, <1>13, Gone DEF GiveBack, Labels
  <2>2. QED
    BY <1>2, <2>1
<1>14. QED
  BY <1>5, <1>6, <1>7, <1>8, <1>9, <1>10, <1>11, <1>12, <1>13 DEF ReceiverStep

\* A withdrawal recalls the message of the node's place in the queue.
LEMMA WithdrawRecalls ==
    ASSUME IInv, [Next]_vars, NEW n \in Node, Withdraw(n)
    PROVE  \E i \in DOMAIN Backlog : AsChannel!Recall(i)
<1>1. PICK i \in DOMAIN queue : queue[i] = n
  BY DEF Withdraw
<1>2. /\ node[n].valid /\ settled' = settled \cup {MessageOf(n)}
      /\ UNCHANGED <<queue, content, pc, held, cell, message>>
  BY DEF Withdraw, MessageOf
<1>3. InTransit(n) /\ ~node'[n].valid /\ \A m \in Node : m # n => node'[m] = node[m]
  BY WithdrawTransit
<1>4. MessageOf(n) # None
  BY <1>2, <1>3, CellInUse, NoneAssumption, MessageAssumption DEF MessageOf, Message
<1>5. i \in DOMAIN Backlog /\ Backlog[i] = MessageOf(n) /\ DOMAIN Backlog = DOMAIN queue
  BY <1>1, BacklogIs
<1>6. Backlog' = [Backlog EXCEPT ![i] = None]
  <2>1. Backlog'[i] = None
    BY <1>1, <1>2, <1>3 DEF Backlog, MessageOf
  <2>2. ASSUME NEW j \in DOMAIN queue, j # i PROVE Backlog'[j] = Backlog[j]
    <3>1. PICK k \in Node : k = queue[j] /\ Queued(k) /\ k # n
      BY <1>1, <2>2, BacklogIs DEF IInv, NodesInOnePlace
    <3>2. MessageOf(k)' = MessageOf(k)
      BY <1>3, <3>1, MessageKept DEF InTransit
    <3>3. Backlog'[j] = MessageOf(k)'
      BY <1>2, <3>1 DEF Backlog, MessageOf
    <3>4. QED
      BY <3>1, <3>2, <3>3 DEF Backlog
  <2>3. Backlog = [j \in DOMAIN queue |-> Backlog[j]] /\ Backlog' = [j \in DOMAIN queue |-> Backlog'[j]]
    BY <1>2 DEF Backlog
  <2>4. QED
    BY <2>1, <2>2, <2>3, Updated
<1>7. Hands' = Hands
  <2>1. ASSUME NEW r \in Receiver PROVE InHand(r)' = InHand(r)
    <3>1. pc[r] = "deliver" => node'[held[r]] = node[held[r]]
      BY <1>1, <1>3, HasNode DEF Queued
    <3>2. QED
      BY <1>2, <3>1, HandKept DEF Stays
  <2>2. QED
    BY <2>1 DEF Hands
<1>8. Awaits' = Awaits
  BY AllAwaitsKept, NotThePosters
<1>9. QED
  BY <1>2, <1>4, <1>5, <1>6, <1>7, <1>8 DEF AsChannel!Recall, Backlog, Hands, Awaits

\* A pop takes the message at the head.
LEMMA PopTakes ==
    ASSUME IInv, [Next]_vars, NEW r \in Receiver, Pop(r)
    PROVE  AsChannel!TakeMessage(r)
<1> USE TaskSides
<1>1. TypeOK /\ pc[r] = "receive" /\ queue' = Tail(queue) /\ UNCHANGED <<node, content, cell, settled>>
  BY DEF Pop, IInv
<1>2. /\ held' = [held EXCEPT ![r] = Head(queue)] /\ Head(queue) \in Node
      /\ queue \in Seq(Node) /\ Len(queue') = Len(queue) - 1 /\ Len(queue) \in Nat \ {0}
  BY PopQueued
<1>3. pc'[r] = "deliver" /\ \A u \in Task : u # r => pc'[u] = pc[u]
  BY <1>1, Gone DEF Pop, Labels
<1>4. /\ Backlog \in Seq(Message \cup {None}) /\ Len(Backlog) = Len(queue)
      /\ DOMAIN Backlog = 1 .. Len(queue) /\ DOMAIN queue = 1 .. Len(queue)
      /\ \A i \in DOMAIN queue : Backlog[i] = MessageOf(queue[i])
  BY BacklogIs
<1>5. Backlog # <<>> /\ Head(Backlog) = MessageOf(Head(queue))
  <2>1. Head(Backlog) = Backlog[1] /\ Head(queue) = queue[1] /\ 1 \in DOMAIN queue
    BY <1>2, <1>4
  <2>2. QED
    BY <1>2, <1>4, <2>1
<1>6. Backlog' = Tail(Backlog)
  <2> DEFINE b == Backlog'
             t == Tail(Backlog)
  <2>1. t \in Seq(Message \cup {None}) /\ Len(t) = Len(queue) - 1 /\ \A i \in 1 .. Len(t) : t[i] = Backlog[i + 1]
    BY <1>4, <1>5, HeadTailProperties
  <2>2. DOMAIN queue' = 1 .. Len(queue) - 1 /\ \A i \in DOMAIN queue' : queue'[i] = queue[i + 1]
    <3>1. queue # <<>>
      BY DEF Pop
    <3>2. Tail(queue) \in Seq(Node) /\ Len(Tail(queue)) = Len(queue) - 1
          /\ \A i \in 1 .. Len(Tail(queue)) : Tail(queue)[i] = queue[i + 1]
      BY <1>2, <3>1, HeadTailProperties
    <3>3. QED
      BY <1>1, <3>2, LenProperties
  <2>3. b = [i \in 1 .. Len(queue) - 1 |-> b[i]] /\ \A i \in 1 .. Len(queue) - 1 : b[i] = MessageOf(queue[i + 1])
    <3>1. \A i \in DOMAIN queue' : MessageOf(queue[i])' = MessageOf(queue[i + 1])
      BY <1>1, <2>2 DEF MessageOf
    <3>2. QED
      BY <2>2, <3>1 DEF Backlog
  <2> HIDE DEF b, t
  <2>4. \A i \in 1 .. Len(queue) - 1 : b[i] = t[i]
    BY <1>2, <1>4, <2>1, <2>3
  <2>5. t = [i \in 1 .. Len(queue) - 1 |-> t[i]]
    BY <2>1
  <2>6. b = t
    BY <2>3, <2>4, <2>5
  <2>7. QED
    BY <2>6 DEF b, t
<1>7. Hands[r] = None
  BY <1>1, InHandIs DEF Hands
<1>8. Hands' = [Hands EXCEPT ![r] = Head(Backlog)]
  <2>1. Hands'[r] = Head(Backlog)
    <3>1. InHand(r)' = MessageOf(held[r])'
      BY <1>3, InHandIs
    <3>2. held'[r] = Head(queue)
      BY <1>1, <1>2 DEF TypeOK
    <3>3. MessageOf(held[r])' = MessageOf(Head(queue))
      BY <1>1, <3>2 DEF MessageOf
    <3>4. QED
      BY <1>5, <3>1, <3>3 DEF Hands
  <2>2. ASSUME NEW s \in Receiver, s # r PROVE Hands'[s] = Hands[s]
    <3>1. UNCHANGED <<held[s], cell[s], message[s]>>
      BY <1>1, <1>2, <2>2 DEF Pop, TypeOK
    <3>2. InHand(s)' = InHand(s)
      BY <1>1, <1>3, <2>2, <3>1, HandKept DEF Stays
    <3>3. QED
      BY <3>2 DEF Hands
  <2>3. Hands = [s \in Receiver |-> Hands[s]] /\ Hands' = [s \in Receiver |-> Hands'[s]]
    BY DEF Hands
  <2>4. QED
    BY <2>1, <2>2, <2>3, Updated
<1>9. Awaits' = Awaits
  BY AllAwaitsKept, NotThePosters
<1>10. QED
  BY <1>1, <1>5, <1>6, <1>7, <1>8, <1>9 DEF AsChannel!TakeMessage, Backlog, Hands, Awaits

\* The end of the handlers settles the message in hand.
LEMMA HandleSettles ==
    ASSUME IInv, [Next]_vars, NEW r \in Receiver, Handle(r)
    PROVE  AsChannel!Settle(r)
<1> USE TaskSides
<1>1. /\ TypeOK /\ pc[r] = "handle" /\ settled' = settled \cup {message[r]}
      /\ UNCHANGED <<queue, free, cells, node, content, wait, held, cell, message, posted>>
  BY DEF Handle, IInv
<1>2. pc'[r] \in {"reply", "receive", "quit"} /\ \A u \in Task : u # r => pc'[u] = pc[u]
  BY <1>1, Gone DEF Handle, NextRound, Labels
<1>3. Hands[r] = message[r] /\ message[r] # None
  BY <1>1, InHandIs, NoneAssumption DEF Hands, IInv, MessagesInOnePlace
<1>4. Hands' = [Hands EXCEPT ![r] = None]
  <2>1. Hands'[r] = None
    BY <1>2, InHandIs DEF Hands
  <2>2. ASSUME NEW s \in Receiver, s # r PROVE Hands'[s] = Hands[s]
    <3>1. InHand(s)' = InHand(s)
      BY <1>1, <1>2, <2>2, HandKept DEF Stays
    <3>2. QED
      BY <3>1 DEF Hands
  <2>3. Hands = [s \in Receiver |-> Hands[s]] /\ Hands' = [s \in Receiver |-> Hands'[s]]
    BY DEF Hands
  <2>4. QED
    BY <2>1, <2>2, <2>3, Updated
<1>5. Backlog' = Backlog
  BY <1>1, BacklogKept
<1>6. Awaits' = Awaits
  BY AllAwaitsKept, NotThePosters DEF ReceiverStep
<1>7. QED
  BY <1>1, <1>3, <1>4, <1>5, <1>6 DEF AsChannel!Settle, Backlog, Hands, Awaits

\* The other steps move a message inside the system, which the channel does not see.
LEMMA InsideSteps ==
    ASSUME IInv, [Next]_vars,
           \/ \E r \in Receiver : DeliverInvalid(r) \/ Deliver(r) \/ CopyMessage(r) \/ Reply(r) \/ Restore(r)
           \/ \E d \in Dispatcher : Sleep(d)
           \/ \E p \in Poster, w \in BOOLEAN : AllocateCell(p, w)
           \/ \E p \in Poster, blocking \in BOOLEAN : NoNode(p, blocking)
           \/ \E p \in Poster : GiveBack(p)
    PROVE  UNCHANGED <<Backlog, Hands, Awaits, settled>>
<1> USE TaskSides
<1>1. TypeOK /\ UNCHANGED <<queue, node, settled>>
  BY DEF DeliverInvalid, Deliver, CopyMessage, Reply, Restore, Sleep, AllocateCell, NoNode, GiveBack, IInv
<1>2. Backlog' = Backlog
  BY <1>1, BacklogKept
<1>3. Awaits' = Awaits
  BY AllAwaitsKept, NotThePosters DEF ReceiverStep
<1>4. ASSUME NEW s \in Receiver, Stays(s), UNCHANGED <<held[s], cell[s], message[s]>>
      PROVE  InHand(s)' = InHand(s)
  BY <1>1, <1>4, HandKept
<1>5. ASSUME NEW t \in Task, NEW label \in Labels, Goto(t, label), NEW s \in Receiver, s # t,
             UNCHANGED <<held[s], cell[s], message[s]>>
      PROVE  InHand(s)' = InHand(s)
  BY <1>1, <1>4, <1>5, Gone DEF Stays
<1>6. ASSUME NEW r \in Receiver, DeliverInvalid(r), NEW s \in Receiver PROVE InHand(s)' = InHand(s)
  <2>1. CASE s = r
    <3>1. pc[r] = "deliver" /\ MessageOf(held[r]) = None
      BY <1>6 DEF DeliverInvalid, MessageOf
    <3>2. pc'[r] \in {"reply", "receive"}
      BY <1>6, Delivered DEF DeliverInvalid
    <3>3. QED
      BY <2>1, <3>1, <3>2, InHandIs
  <2>2. CASE s # r
    BY <1>4, <1>6, <2>2, Delivered DEF DeliverInvalid
  <2>3. QED
    BY <2>1, <2>2
<1>7. ASSUME NEW r \in Receiver, Deliver(r), NEW s \in Receiver PROVE InHand(s)' = InHand(s)
  <2>1. CASE s = r
    <3>1. pc[r] = "deliver" /\ MessageOf(held[r]) = content[node[held[r]].cell]
      BY <1>7 DEF Deliver, MessageOf
    <3>2. pc'[r] = "copy"
      BY <1>7, Delivered DEF Deliver
    <3>3. content'[cell'[r]] = content[node[held[r]].cell]
      BY <1>1, <1>7 DEF Deliver, TypeOK
    <3>4. QED
      BY <2>1, <3>1, <3>2, <3>3, InHandIs
  <2>2. CASE s # r
    <3>1. UNCHANGED <<cell[s], message[s]>>
      BY <1>1, <1>7, <2>2 DEF Deliver, TypeOK
    <3>2. QED
      BY <1>4, <1>7, <2>2, <3>1, Delivered
  <2>3. QED
    BY <2>1, <2>2
<1>8. ASSUME NEW r \in Receiver, CopyMessage(r), NEW s \in Receiver PROVE InHand(s)' = InHand(s)
  <2>1. CASE s = r
    <3>1. pc[r] = "copy" /\ pc'[r] = "handle"
      BY <1>1, <1>8, Gone DEF CopyMessage, Labels
    <3>2. message'[r] = content[cell[r]]
      BY <1>1, <1>8 DEF CopyMessage, TypeOK
    <3>3. QED
      BY <2>1, <3>1, <3>2, InHandIs
  <2>2. CASE s # r
    BY <1>1, <1>5, <1>8, <2>2 DEF CopyMessage, PoolRelease, Labels, TypeOK
  <2>3. QED
    BY <2>1, <2>2
<1>9. ASSUME NEW r \in Receiver, Reply(r), NEW s \in Receiver PROVE InHand(s)' = InHand(s)
  <2>1. CASE s = r
    BY <1>9, <2>1, Replies, InHandIs
  <2>2. CASE s # r
    <3>1. Stays(s)
      BY <1>9, <2>2, Replies DEF Stays
    <3>2. QED
      BY <1>4, <1>9, <3>1, Replies
  <2>3. QED
    BY <2>1, <2>2
<1>10. ASSUME NEW r \in Receiver, Restore(r), NEW s \in Receiver PROVE InHand(s)' = InHand(s)
  <2>1. pc[r] = "restore" /\ NextRound(r) \in {"receive", "quit"} /\ UNCHANGED <<cell, message>>
    BY <1>10 DEF Restore, NextRound
  <2>2. pc'[r] \in {"receive", "quit"} /\ \A u \in Receiver : u # r => Stays(u) /\ held'[u] = held[u]
    BY <1>10, <2>1, RecycledDelivery DEF Restore
  <2>3. CASE s = r
    BY <2>1, <2>2, <2>3, InHandIs
  <2>4. CASE s # r
    BY <1>4, <2>1, <2>2, <2>4
  <2>5. QED
    BY <2>3, <2>4
<1>11. ASSUME NEW d \in Dispatcher, Sleep(d), NEW s \in Receiver PROVE InHand(s)' = InHand(s)
  <2>1. pc[d] = "receive" /\ pc'[d] = "asleep"
    BY <1>1, <1>11, Gone DEF Sleep, Labels
  <2>2. CASE s = d
    BY <2>1, <2>2, InHandIs
  <2>3. CASE s # d
    BY <1>5, <1>11, <2>3 DEF Sleep, Labels
  <2>4. QED
    BY <2>2, <2>3
<1>12. ASSUME NEW p \in Poster, NEW w \in BOOLEAN, AllocateCell(p, w), NEW s \in Receiver PROVE InHand(s)' = InHand(s)
  BY <1>1, <1>5, <1>12 DEF AllocateCell, Labels, TypeOK
<1>13. ASSUME NEW p \in Poster, NEW blocking \in BOOLEAN, NoNode(p, blocking), NEW s \in Receiver PROVE InHand(s)' = InHand(s)
  BY <1>5, <1>13 DEF NoNode, Labels
<1>14. ASSUME NEW p \in Poster, GiveBack(p), NEW s \in Receiver PROVE InHand(s)' = InHand(s)
  BY <1>1, <1>5, <1>14 DEF GiveBack, PoolRelease, Labels, TypeOK
<1>15. \A s \in Receiver : InHand(s)' = InHand(s)
  BY <1>6, <1>7, <1>8, <1>9, <1>10, <1>11, <1>12, <1>13, <1>14
<1>16. Hands' = Hands
  BY <1>15 DEF Hands
<1>17. QED
  BY <1>1, <1>2, <1>3, <1>16

\* The queues implement Channel: every step of task_message_post, mqueue_receive and
\* task_message_dispatch is one step of the abstract specification or leaves it
\* alone, so messages are taken in order and once, and a post with wait returns
\* only after its message was handled or withdrawn.
THEOREM Refinement == Spec => ImplementsChannel
<1>1. Init => AsChannel!ChannelInit
  <2> SUFFICES ASSUME Init PROVE AsChannel!ChannelInit
    OBVIOUS
  <2>1. queue = <<>> /\ settled = {} /\ Backlog = <<>>
    BY DEF Init, Backlog
  <2>2. \A r \in Receiver : InHand(r) = None
    BY TaskSides, InHandIs DEF Init
  <2>3. \A p \in Poster : pc[p] = "idle"
    BY TaskSides DEF Init
  <2>4. QED
    BY <2>1, <2>2, <2>3 DEF AsChannel!ChannelInit, Backlog
<1>2. ASSUME IInv, [Next]_vars PROVE [AsChannel!ChannelNext]_(AsChannel!channelVars)
  <2> USE <1>2
  <2>1. ASSUME NEW p \in Poster, Send(p) PROVE AsChannel!ChannelNext
    BY <2>1, SendPosts DEF AsChannel!ChannelNext
  <2>2. ASSUME NEW p \in Poster, Return(p) PROVE AsChannel!ChannelNext
    BY <2>2, ReturnReturns DEF AsChannel!ChannelNext
  <2>3. ASSUME NEW n \in Node, Withdraw(n) PROVE AsChannel!ChannelNext
    BY <2>3, WithdrawRecalls DEF AsChannel!ChannelNext, Backlog
  <2>4. ASSUME NEW r \in Receiver, Pop(r) PROVE AsChannel!ChannelNext
    BY <2>4, PopTakes DEF AsChannel!ChannelNext
  <2>5. ASSUME NEW r \in Receiver, Handle(r) PROVE AsChannel!ChannelNext
    BY <2>5, HandleSettles DEF AsChannel!ChannelNext
  <2>6. ASSUME UNCHANGED <<Backlog, Hands, Awaits, settled>> PROVE UNCHANGED AsChannel!channelVars
    BY <2>6 DEF AsChannel!channelVars, Backlog, Hands, Awaits
  <2>7. CASE UNCHANGED vars
    <3>1. UNCHANGED <<queue, pc, wait, settled, node>> /\ \A r \in Receiver : UNCHANGED <<held[r], cell[r], message[r]>>
      BY <2>7 DEF vars
    <3>2. Backlog' = Backlog
      BY <3>1, BacklogKept
    <3>3. \A r \in Receiver : InHand(r)' = InHand(r)
      BY <2>7, <3>1, HandKept DEF Stays, vars
    <3>4. Hands' = Hands
      BY <3>3 DEF Hands
    <3>5. Awaits' = Awaits
      BY <3>1 DEF Awaits
    <3>6. QED
      BY <2>6, <3>1, <3>2, <3>4, <3>5
  <2>8. QED
    BY <2>1, <2>2, <2>3, <2>4, <2>5, <2>6, <2>7, InsideSteps DEF Next, PosterStep, ReceiverStep
<1>3. QED
  BY <1>1, <1>2, InvariantHolds, PTL DEF Spec, ImplementsChannel, AsChannel!ChannelSpec
=============================================================================
