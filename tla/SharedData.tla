----------------------------- MODULE SharedData -----------------------------
(***************************************************************************)
(* Path nodes and the reference-counted blocks they share:                 *)
(* src/src/fs/path_node.rs, path_node_create_for_volume.rs and             *)
(* shared_data.rs.  Every open of a volume gets a node of its own; nodes   *)
(* of one volume are to share one block, found on a doubly linked list.    *)
(*                                                                         *)
(* The pools, the list and the counts change under the cache lock only, so *)
(* a locked section is one step; between two of them other tasks run.  The *)
(* block pool is a jump into the image: it is taken to hand out zeroed     *)
(* blocks, as the node pool does.                                          *)
(***************************************************************************)
EXTENDS Naturals, FiniteSets

CONSTANTS Task,    \* tasks that open and close volumes
          Volume,  \* mounted volumes
          Node,    \* the node pool's nodes
          Block,   \* the data pool's blocks
          Nil      \* the null pointer

ASSUME NilAssumption == Nil \notin Volume \cup Node \cup Block
ASSUME NodeAssumption == IsFiniteSet(Node)

VARIABLES nodePool,  \* nodes nobody uses
          dataPool,  \* blocks nobody uses
          open,      \* nodes handed out to callers
          data,      \* node.data
          refs,      \* block.refcount
          key,       \* block.volume
          next,      \* block.next
          previous,  \* block.previous
          head,      \* the list's head
          pc,        \* where each task stands
          hand,      \* the node each task opens or closes
          volume,    \* the volume each task opens
          found      \* the block each open found and retained

vars == <<nodePool, dataPool, open, data, refs, key, next, previous, head, pc, hand, volume, found>>
list == <<key, next, previous, head>>
local == <<hand, volume, found>>

Init ==
    /\ nodePool = Node /\ dataPool = Block /\ open = {}
    /\ data = [n \in Node |-> Nil]
    /\ refs = [b \in Block |-> 0] /\ key = [b \in Block |-> Nil]
    /\ next = [b \in Block |-> Nil] /\ previous = [b \in Block |-> Nil]
    /\ head = Nil
    /\ pc = [t \in Task |-> "idle"]
    /\ hand = [t \in Task |-> Nil] /\ volume = [t \in Task |-> Nil]
    /\ found = [t \in Task |-> Nil]

Goto(t, label) == pc' = [pc EXCEPT ![t] = label]

\* The block behind the node in t's hand.
BlockOf(t) == data[hand[t]]

-----------------------------------------------------------------------------
(* path_node_create_for_volume *)

PopNode(t, v) ==
    /\ pc[t] = "idle"
    /\ \E n \in nodePool :
        /\ nodePool' = nodePool \ {n}
        /\ hand' = [hand EXCEPT ![t] = n]
        /\ data' = [data EXCEPT ![n] = Nil]
    /\ volume' = [volume EXCEPT ![t] = v]
    /\ Goto(t, "allocate")
    /\ UNCHANGED <<dataPool, open, refs, list, found>>

AllocateData(t) ==
    /\ pc[t] = "allocate"
    /\ \E b \in dataPool :
        /\ dataPool' = dataPool \ {b}
        /\ data' = [data EXCEPT ![hand[t]] = b]
        /\ refs' = [refs EXCEPT ![b] = 0] /\ key' = [key EXCEPT ![b] = Nil]
        /\ next' = [next EXCEPT ![b] = Nil] /\ previous' = [previous EXCEPT ![b] = Nil]
    /\ Goto(t, "find")
    /\ UNCHANGED <<nodePool, open, head, local>>

\* No block left: the node goes back to its pool.
AllocateFails(t) ==
    /\ pc[t] = "allocate"
    /\ dataPool = {}
    /\ Goto(t, "push")
    /\ UNCHANGED <<nodePool, dataPool, open, data, refs, list, local>>

\* The blocks a walk over the links meets from x on: the least set that x leads
\* into and that no link leads out of.
Reach(x, link) ==
    {c \in Block : \A S \in SUBSET Block :
        x \in S \cup {Nil} /\ (\A d \in S : link[d] \in S \cup {Nil}) => c \in S}

OnList == Reach(head, next)
Matching(v) == {b \in OnList : key[b] = v}

\* Mutation: the block is found and not retained.
FindsUncounted(t) ==
    /\ pc[t] = "find"
    /\ \E b \in Matching(volume[t]) :
        /\ Matching(volume[t]) \subseteq Reach(b, next)
        /\ found' = [found EXCEPT ![t] = b]
    /\ Goto(t, "release")
    /\ UNCHANGED <<nodePool, dataPool, open, data, refs, list, hand, volume>>

\* The first match is retained; the block of the new node is not needed.
Finds(t) ==
    /\ pc[t] = "find"
    /\ \E b \in Matching(volume[t]) :
        /\ Matching(volume[t]) \subseteq Reach(b, next)
        /\ found' = [found EXCEPT ![t] = b]
        /\ refs' = [refs EXCEPT ![b] = @ + 1]
    /\ Goto(t, "release")
    /\ UNCHANGED <<nodePool, dataPool, open, data, list, hand, volume>>

FindsNothing(t) ==
    /\ pc[t] = "find"
    /\ Matching(volume[t]) = {}
    /\ Goto(t, "initialize")
    /\ UNCHANGED <<nodePool, dataPool, open, data, refs, list, local>>

\* The node is complete and the caller's.
HandOut(t) ==
    /\ open' = open \cup {hand[t]}
    /\ hand' = [hand EXCEPT ![t] = Nil] /\ volume' = [volume EXCEPT ![t] = Nil]
    /\ found' = [found EXCEPT ![t] = Nil]
    /\ Goto(t, "idle")

\* Mutation: the old head is not linked behind the new one.
InitializeAlone(t) ==
    /\ pc[t] = "initialize"
    /\ LET b == BlockOf(t)
       IN  /\ refs' = [refs EXCEPT ![b] = 1]
           /\ key' = [key EXCEPT ![b] = volume[t]]
           /\ head' = b
    /\ HandOut(t)
    /\ UNCHANGED <<nodePool, dataPool, data, next, previous>>

\* shared_data_initialize: one reference, and in front of the list.
Initialize(t) ==
    /\ pc[t] = "initialize"
    /\ LET b == BlockOf(t)
       IN  /\ refs' = [refs EXCEPT ![b] = 1]
           /\ key' = [key EXCEPT ![b] = volume[t]]
           /\ next' = [next EXCEPT ![b] = head]
           /\ previous' = [previous EXCEPT ![head] = b, ![b] = Nil]
           /\ head' = b
    /\ HandOut(t)
    /\ UNCHANGED <<nodePool, dataPool, data>>

-----------------------------------------------------------------------------
(* shared_data_release, by an open that found its block and by a close *)

\* After the release: an open takes the block it found, a close returns its node.
Continuation(t) == IF found[t] = Nil THEN "push" ELSE "adopt"

\* Mutation: a count of zero is decremented too.
LeftUnguarded(b) == refs[b] - 1

\* The references left; a count of zero stays.
Left(b) == IF refs[b] = 0 THEN 0 ELSE refs[b] - 1

\* The block is still referenced.
ReleaseKeeps(t) ==
    /\ pc[t] = "release"
    /\ Left(BlockOf(t)) # 0
    /\ refs' = [refs EXCEPT ![BlockOf(t)] = Left(BlockOf(t))]
    /\ Goto(t, Continuation(t))
    /\ UNCHANGED <<nodePool, dataPool, open, data, list, local>>

\* Mutation: the successor keeps its back link.
UnlinkedOneWay(b) ==
    /\ head' = IF previous[b] = Nil THEN next[b] ELSE head
    /\ next' = [c \in Block |-> IF c = previous[b] THEN next[b] ELSE next[c]]
    /\ previous' = previous

\* b leaves the list; without a predecessor it is taken for the first.
Unlinked(b) ==
    /\ head' = IF previous[b] = Nil THEN next[b] ELSE head
    /\ next' = [c \in Block |-> IF c = previous[b] THEN next[b] ELSE next[c]]
    /\ previous' = [c \in Block |-> IF c = next[b] THEN previous[b] ELSE previous[c]]

ReleaseUnlinks(t) ==
    /\ pc[t] = "release"
    /\ Left(BlockOf(t)) = 0
    /\ refs' = [refs EXCEPT ![BlockOf(t)] = 0]
    /\ Unlinked(BlockOf(t))
    /\ Goto(t, "recycle")
    /\ UNCHANGED <<nodePool, dataPool, open, data, key, local>>

\* shared_data_pool_recycle, outside the lock.
Recycle(t) ==
    /\ pc[t] = "recycle"
    /\ dataPool' = dataPool \cup {BlockOf(t)}
    /\ Goto(t, Continuation(t))
    /\ UNCHANGED <<nodePool, open, data, refs, list, local>>

\* The rest of an open that found its block.
Adopt(t) ==
    /\ pc[t] = "adopt"
    /\ data' = [data EXCEPT ![hand[t]] = found[t]]
    /\ HandOut(t)
    /\ UNCHANGED <<nodePool, dataPool, refs, list>>

-----------------------------------------------------------------------------
(* path_node_release *)

Close(t, n) ==
    /\ pc[t] = "idle"
    /\ n \in open
    /\ open' = open \ {n}
    /\ hand' = [hand EXCEPT ![t] = n]
    /\ Goto(t, "release")
    /\ UNCHANGED <<nodePool, dataPool, data, refs, list, volume, found>>

\* The node goes back to its pool: closed, or opened in vain.
PushNode(t) ==
    /\ pc[t] = "push"
    /\ nodePool' = nodePool \cup {hand[t]}
    /\ hand' = [hand EXCEPT ![t] = Nil] /\ volume' = [volume EXCEPT ![t] = Nil]
    /\ Goto(t, "idle")
    /\ UNCHANGED <<dataPool, open, data, refs, list, found>>

-----------------------------------------------------------------------------
TaskStep(t) ==
    \/ \E v \in Volume : PopNode(t, v)
    \/ \E n \in Node : Close(t, n)
    \/ AllocateData(t) \/ AllocateFails(t)
    \/ Finds(t) \/ FindsNothing(t) \/ Initialize(t)
    \/ ReleaseKeeps(t) \/ ReleaseUnlinks(t) \/ Recycle(t)
    \/ Adopt(t) \/ PushNode(t)

Next == \E t \in Task : TaskStep(t)

Spec == Init /\ [][Next]_vars

-----------------------------------------------------------------------------
(* Properties *)

Labels == {"idle", "allocate", "find", "initialize", "release", "recycle", "adopt", "push"}

\* The model's variables keep their types; a count never passes below zero.
TypeOK ==
    /\ nodePool \subseteq Node /\ dataPool \subseteq Block /\ open \subseteq Node
    /\ data \in [Node -> Block \cup {Nil}]
    /\ refs \in [Block -> Nat] /\ key \in [Block -> Volume \cup {Nil}]
    /\ next \in [Block -> Block \cup {Nil}] /\ previous \in [Block -> Block \cup {Nil}]
    /\ head \in Block \cup {Nil}
    /\ pc \in [Task -> Labels]
    /\ hand \in [Task -> Node \cup {Nil}] /\ volume \in [Task -> Volume \cup {Nil}]
    /\ found \in [Task -> Block \cup {Nil}]

\* The nodes that count on b: handed out, or being closed and not yet released,
\* or opened by a task that found b.
Closing(t) == pc[t] = "release" /\ found[t] = Nil
CountsOn(n, b) ==
    \/ n \in open /\ data[n] = b
    \/ \E t \in Task : hand[t] = n /\ (found[t] = b \/ (Closing(t) /\ data[n] = b))
Holders(b) == {n \in Node : CountsOn(n, b)}

\* Who has b off the list: an open before its block is initialized or given
\* back, and whoever unlinked it.
Carriers(b) ==
    {t \in Task : /\ pc[t] \in {"find", "initialize", "release", "recycle"}
                  /\ ~Closing(t)
                  /\ BlockOf(t) = b}

BlocksAccounted ==
    \A b \in Block :
        /\ refs[b] = Cardinality(Holders(b))
        /\ b \in dataPool <=> Holders(b) \cup Carriers(b) = {}
        /\ Holders(b) # {} => Carriers(b) = {}
        /\ \A t, u \in Carriers(b) : t = u

Hands(n) == {t \in Task : hand[t] = n}
NodesAccounted ==
    \A n \in Node :
        /\ n \in nodePool <=> n \notin open /\ Hands(n) = {}
        /\ n \in open => Hands(n) = {}
        /\ \A t, u \in Hands(n) : t = u

\* A block's count is the number of its holders at every moment, through opens
\* that find it while others close it.  A block is held, carried by one task, or
\* in its pool, and a node is handed out, in one task's hand, or in its pool:
\* none is leaked, reused while held or freed twice, also when an open fails.
PoolsAccounted == BlocksAccounted /\ NodesAccounted

\* The links of referenced blocks lead to referenced blocks and back, and the
\* head is the first of its chain: a walk under the lock never meets a block
\* that was freed, although a block that was never linked is unlinked as well.
Live == {b \in Block : refs[b] > 0}
LinksAreMutual ==
    /\ head # Nil => head \in Live /\ previous[head] = Nil
    /\ \A b \in Live :
        /\ next[b] # Nil => next[b] \in Live /\ previous[next[b]] = b
        /\ previous[b] # Nil => previous[b] \in Live /\ next[previous[b]] = b

\* A referenced block drops off the list only when a block that is not on the
\* list is released: the unused block of an open that found another one, whose
\* null back link makes the release reset the head, or a block lost before.
ReleasesStray(t) == pc[t] = "release" /\ pc'[t] # pc[t] /\ BlockOf(t) \notin OnList
LostOnlyToStrays ==
    [][(OnList \ OnList') \cap Live' # {} => \E t \in Task : ReleasesStray(t)]_vars
=============================================================================
