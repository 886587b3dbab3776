-------------------------- MODULE SharedDataProofs --------------------------
(***************************************************************************)
(* Theorems about SharedData, for every set of tasks, volumes and blocks   *)
(* and every finite set of nodes: the counts are the holders, the pools    *)
(* are the rest, the links of referenced blocks are sound, and only the    *)
(* release of a block off the list loses another from it.                  *)
(***************************************************************************)
EXTENDS SharedData, FiniteSetTheorems, TLAPS

\* What a task has in its hands at each label.
LocalsStand ==
    \A t \in Task :
        /\ pc[t] = "idle" <=> hand[t] = Nil
        /\ found[t] # Nil => pc[t] \in {"release", "recycle", "adopt"}
        /\ pc[t] = "adopt" => found[t] # Nil
        /\ pc[t] \in {"find", "initialize", "release", "recycle"} => BlockOf(t) \in Block
        /\ pc[t] \in {"allocate", "find", "initialize"} => volume[t] \in Volume

\* An open node has its block.
OpenHaveBlocks == \A n \in open : data[n] \in Block

\* The block of an open that is not initialized yet is as the pool zeroed it.
Fresh(t) == \/ pc[t] \in {"find", "initialize"}
            \/ pc[t] = "release" /\ found[t] # Nil
FreshUnlinked ==
    \A t \in Task : Fresh(t) => next[BlockOf(t)] = Nil /\ previous[BlockOf(t)] = Nil

\* The inductive invariant.
IInv == /\ TypeOK
        /\ LocalsStand
        /\ OpenHaveBlocks
        /\ NodesAccounted
        /\ BlocksAccounted
        /\ FreshUnlinked
        /\ LinksAreMutual

-----------------------------------------------------------------------------
(* The walk *)

\* A walk stays inside every set it starts in and no link leads out of.
LEMMA ReachIsLeast ==
    ASSUME NEW x, NEW link, NEW S \in SUBSET Block,
           x \in S \cup {Nil},
           \A d \in S : link[d] \in S \cup {Nil}
    PROVE  Reach(x, link) \subseteq S
BY DEF Reach

\* What a walk meets holds its start, and no link leads out of it.
LEMMA ReachIsClosed ==
    ASSUME NEW x \in Block \cup {Nil}, NEW link \in [Block -> Block \cup {Nil}]
    PROVE  /\ x \in Reach(x, link) \cup {Nil}
           /\ \A d \in Reach(x, link) : link[d] \in Reach(x, link) \cup {Nil}
BY DEF Reach

\* The blocks on the list are referenced.
LEMMA ListIsLive ==
    ASSUME TypeOK, LinksAreMutual
    PROVE  OnList \subseteq Live
<1>1. Live \in SUBSET Block
  BY DEF Live
<1>2. head \in Live \cup {Nil} /\ \A d \in Live : next[d] \in Live \cup {Nil}
  BY DEF LinksAreMutual
<1>. QED  BY <1>1, <1>2, ReachIsLeast DEF OnList

-----------------------------------------------------------------------------
(* The steps *)

LEMMA InitInvariant == Init => IInv
<1>. SUFFICES ASSUME Init PROVE IInv
  OBVIOUS
<1>. USE NilAssumption DEF Init
<1>1. TypeOK
  BY DEF TypeOK, Labels
<1>2. LocalsStand /\ OpenHaveBlocks /\ FreshUnlinked
  BY DEF LocalsStand, OpenHaveBlocks, FreshUnlinked, Fresh
<1>3. NodesAccounted
  BY DEF NodesAccounted, Hands
<1>4. ASSUME NEW b \in Block
      PROVE  Holders(b) = {} /\ Carriers(b) = {}
  BY <1>4 DEF Holders, CountsOn, Closing, Carriers
<1>5. BlocksAccounted
  BY <1>4, FS_EmptySet DEF BlocksAccounted
<1>6. LinksAreMutual
  BY DEF LinksAreMutual, Live
<1>. QED  BY <1>1, <1>2, <1>3, <1>5, <1>6 DEF IInv

\* Every step keeps the types; a release never counts below zero.
LEMMA StepTyped ==
    ASSUME IInv, NEW t \in Task, TaskStep(t)
    PROVE  TypeOK'
<1>. USE NilAssumption DEF IInv, TypeOK, Labels, list, local
<1>1. ASSUME NEW v \in Volume, PopNode(t, v) PROVE TypeOK'
  BY <1>1 DEF PopNode, Goto
<1>2. ASSUME NEW n \in Node, Close(t, n) PROVE TypeOK'
  BY <1>2 DEF Close, Goto
<1>3. CASE AllocateData(t)
  <2>. PICK b \in dataPool : AllocateData(t)!2!(b)
    BY <1>3 DEF AllocateData
  <2>. QED  BY <1>3 DEF AllocateData, Goto
<1>4. CASE AllocateFails(t)
  BY <1>4 DEF AllocateFails, Goto
<1>5. CASE Finds(t)
  <2>1. Matching(volume[t]) \subseteq Block
    BY DEF Matching, OnList, Reach
  <2>. QED  BY <1>5, <2>1 DEF Finds, Goto
<1>6. CASE FindsNothing(t)
  BY <1>6 DEF FindsNothing, Goto
<1>7. CASE Initialize(t)
  <2>1. BlockOf(t) \in Block /\ volume[t] \in Volume /\ hand[t] # Nil
    BY <1>7 DEF Initialize, LocalsStand
  <2>. QED  BY <1>7, <2>1 DEF Initialize, HandOut, Goto
<1>8. CASE ReleaseKeeps(t)
  <2>1. Left(BlockOf(t)) \in Nat
    BY <1>8 DEF ReleaseKeeps, LocalsStand, Left
  <2>. QED  BY <1>8, <2>1 DEF ReleaseKeeps, Continuation, Goto
<1>9. CASE ReleaseUnlinks(t)
  <2>1. BlockOf(t) \in Block
    BY <1>9 DEF ReleaseUnlinks, LocalsStand
  <2>. QED  BY <1>9, <2>1 DEF ReleaseUnlinks, Unlinked, Goto
<1>10. CASE Recycle(t)
  <2>1. BlockOf(t) \in Block
    BY <1>10 DEF Recycle, LocalsStand
  <2>. QED  BY <1>10, <2>1 DEF Recycle, Continuation, Goto
<1>11. CASE Adopt(t)
  <2>1. hand[t] # Nil
    BY <1>11 DEF Adopt, LocalsStand
  <2>. QED  BY <1>11, <2>1 DEF Adopt, HandOut, Goto
<1>12. CASE PushNode(t)
  <2>1. hand[t] # Nil
    BY <1>12 DEF PushNode, LocalsStand
  <2>. QED  BY <1>12, <2>1 DEF PushNode, Goto
<1>. QED  BY <1>1, <1>2, <1>3, <1>4, <1>5, <1>6, <1>7, <1>8, <1>9, <1>10, <1>11, <1>12 DEF TaskStep

\* A step leaves where u stands and what it has in its hands.
Untouched(u) ==
    /\ pc'[u] = pc[u] /\ hand'[u] = hand[u]
    /\ volume'[u] = volume[u] /\ found'[u] = found[u]
    /\ hand[u] # Nil => data'[hand[u]] = data[hand[u]]

\* Tasks do not touch each other's nodes.
LEMMA OthersStand ==
    ASSUME IInv, NEW t \in Task, TaskStep(t)
    PROVE  \A u \in Task \ {t} : Untouched(u)
<1>. SUFFICES ASSUME NEW u \in Task \ {t} PROVE Untouched(u)
  OBVIOUS
<1>. USE NilAssumption DEF IInv, TypeOK, Untouched, Goto, list, local
<1>1. hand[u] # Nil => hand[u] # hand[t] /\ hand[u] \notin nodePool /\ hand[u] \in Node
  BY DEF NodesAccounted, Hands
<1>2. ASSUME NEW v \in Volume, PopNode(t, v) PROVE Untouched(u)
  <2>. PICK n \in nodePool : data' = [data EXCEPT ![n] = Nil]
    BY <1>2 DEF PopNode
  <2>. QED  BY <1>1, <1>2 DEF PopNode
<1>3. ASSUME NEW n \in Node, Close(t, n) PROVE Untouched(u)
  BY <1>3 DEF Close
<1>4. CASE AllocateData(t)
  <2>. PICK b \in dataPool : data' = [data EXCEPT ![hand[t]] = b]
    BY <1>4 DEF AllocateData
  <2>. QED  BY <1>1, <1>4 DEF AllocateData
<1>5. CASE AllocateFails(t) \/ FindsNothing(t) \/ ReleaseKeeps(t) \/ ReleaseUnlinks(t) \/ Recycle(t)
  BY <1>5 DEF AllocateFails, FindsNothing, ReleaseKeeps, ReleaseUnlinks, Recycle
<1>6. CASE Finds(t) \/ PushNode(t)
  BY <1>6 DEF Finds, PushNode
<1>7. CASE Initialize(t) \/ Adopt(t)
  BY <1>1, <1>7 DEF Initialize, Adopt, HandOut
<1>. QED  BY <1>2, <1>3, <1>4, <1>5, <1>6, <1>7 DEF TaskStep

\* What a task has in its hands at each label, after every step.
LEMMA StepLocals ==
    ASSUME IInv, NEW t \in Task, TaskStep(t)
    PROVE  LocalsStand'
<1>. DEFINE Stands(u) ==
        /\ pc[u] = "idle" <=> hand[u] = Nil
        /\ found[u] # Nil => pc[u] \in {"release", "recycle", "adopt"}
        /\ pc[u] = "adopt" => found[u] # Nil
        /\ pc[u] \in {"find", "initialize", "release", "recycle"} => BlockOf(u) \in Block
        /\ pc[u] \in {"allocate", "find", "initialize"} => volume[u] \in Volume
<1>1. ASSUME NEW u \in Task \ {t} PROVE Stands(u)'
  <2>1. Untouched(u) /\ Stands(u)
    BY OthersStand DEF IInv, LocalsStand
  <2>. QED  BY <2>1 DEF Untouched, BlockOf
<1>2. Stands(t)'
  <2>. USE NilAssumption DEF IInv, TypeOK, Labels, LocalsStand, BlockOf, Goto, list, local
  <2>1. ASSUME NEW v \in Volume, PopNode(t, v) PROVE Stands(t)'
    BY <2>1 DEF PopNode
  <2>2. ASSUME NEW n \in Node, Close(t, n) PROVE Stands(t)'
    BY <2>2 DEF Close, OpenHaveBlocks
  <2>3. CASE AllocateData(t)
    <3>. PICK b \in dataPool : data' = [data EXCEPT ![hand[t]] = b]
      BY <2>3 DEF AllocateData
    <3>. QED  BY <2>3 DEF AllocateData
  <2>4. CASE AllocateFails(t) \/ FindsNothing(t)
    BY <2>4 DEF AllocateFails, FindsNothing
  <2>5. CASE Finds(t)
    <3>. PICK b \in Block : found' = [found EXCEPT ![t] = b]
      BY <2>5 DEF Finds, Matching, OnList, Reach
    <3>. QED  BY <2>5 DEF Finds
  <2>6. CASE Initialize(t) \/ Adopt(t)
    BY <2>6 DEF Initialize, Adopt, HandOut
  <2>7. CASE ReleaseKeeps(t) \/ ReleaseUnlinks(t) \/ Recycle(t)
    BY <2>7 DEF ReleaseKeeps, ReleaseUnlinks, Recycle, Continuation
  <2>8. CASE PushNode(t)
    BY <2>8 DEF PushNode
  <2>. QED  BY <2>1, <2>2, <2>3, <2>4, <2>5, <2>6, <2>7, <2>8 DEF TaskStep
<1>. QED  BY <1>1, <1>2 DEF LocalsStand

\* An open node keeps its block until it is closed.
LEMMA StepOpen ==
    ASSUME IInv, NEW t \in Task, TaskStep(t)
    PROVE  /\ OpenHaveBlocks'
           /\ \A n \in open : data'[n] = data[n]
<1>. USE NilAssumption DEF IInv, TypeOK, OpenHaveBlocks, Goto, list, local
<1>1. \A n \in open : n # hand[t] /\ n \notin nodePool /\ n \in Node
  BY DEF NodesAccounted, Hands
<1>2. data' # data => \/ \E n \in nodePool : data' = [data EXCEPT ![n] = Nil]
                      \/ \E b \in Block : data' = [data EXCEPT ![hand[t]] = b]
  <2>1. CASE Adopt(t)
    BY <2>1 DEF Adopt, LocalsStand
  <2>. QED  BY <2>1 DEF TaskStep, PopNode, Close, AllocateData, AllocateFails, Finds, FindsNothing,
                    Initialize, ReleaseKeeps, ReleaseUnlinks, Recycle, PushNode
<1>3. \A n \in open : data'[n] = data[n]
  BY <1>1, <1>2
<1>4. \A n \in open' \ open : data'[n] \in Block
  <2>1. CASE Initialize(t)
    BY <2>1 DEF Initialize, HandOut, LocalsStand, BlockOf
  <2>2. CASE Adopt(t)
    BY <2>2 DEF Adopt, HandOut, LocalsStand
  <2>. QED  BY <2>1, <2>2 DEF TaskStep, PopNode, Close, AllocateData, AllocateFails, Finds,
                    FindsNothing, ReleaseKeeps, ReleaseUnlinks, Recycle, PushNode
<1>. QED  BY <1>3, <1>4

\* Every node stays handed out, in one hand, or in its pool.
LEMMA StepNodes ==
    ASSUME IInv, NEW t \in Task, TaskStep(t)
    PROVE  NodesAccounted'
<1>. USE NilAssumption DEF IInv, TypeOK, NodesAccounted, Hands, Goto, list, local
<1>1. ASSUME NEW v \in Volume, PopNode(t, v) PROVE NodesAccounted'
  <2>. PICK n \in nodePool : /\ nodePool' = nodePool \ {n}
                             /\ hand' = [hand EXCEPT ![t] = n]
    BY <1>1 DEF PopNode
  <2>1. open' = open /\ hand[t] = Nil
    BY <1>1 DEF PopNode, LocalsStand
  <2>. QED  BY <2>1
<1>2. ASSUME NEW n \in Node, Close(t, n) PROVE NodesAccounted'
  <2>1. hand[t] = Nil
    BY <1>2 DEF Close, LocalsStand
  <2>. QED  BY <1>2, <2>1 DEF Close
<1>3. CASE \/ AllocateData(t) \/ AllocateFails(t) \/ Finds(t) \/ FindsNothing(t)
           \/ ReleaseKeeps(t) \/ ReleaseUnlinks(t) \/ Recycle(t)
  BY <1>3 DEF AllocateData, AllocateFails, Finds, FindsNothing, ReleaseKeeps, ReleaseUnlinks, Recycle
<1>4. CASE Initialize(t) \/ Adopt(t)
  <2>1. /\ open' = open \cup {hand[t]} /\ nodePool' = nodePool
        /\ hand' = [hand EXCEPT ![t] = Nil] /\ hand[t] # Nil
    BY <1>4 DEF Initialize, Adopt, HandOut, LocalsStand
  <2>. QED  BY <2>1
<1>5. CASE PushNode(t)
  <2>1. hand[t] # Nil
    BY <1>5 DEF PushNode, LocalsStand
  <2>. QED  BY <1>5, <2>1 DEF PushNode
<1>. QED  BY <1>1, <1>2, <1>3, <1>4, <1>5 DEF TaskStep

-----------------------------------------------------------------------------
(* Holders, carriers and the links *)

\* A block is referenced exactly when somebody counts on it.
LEMMA LiveIsHeld ==
    ASSUME IInv, NEW b \in Block
    PROVE  /\ IsFiniteSet(Holders(b))
           /\ b \in Live <=> Holders(b) # {}
<1>1. IsFiniteSet(Holders(b))
  BY FS_Subset, NodeAssumption DEF Holders
<1>2. refs[b] = Cardinality(Holders(b)) /\ refs[b] \in Nat
  BY DEF IInv, TypeOK, BlocksAccounted
<1>. QED  BY <1>1, <1>2, FS_EmptySet DEF Live

\* A block in a task's hands and off the list is nobody else's.
LEMMA CarriedIsDead ==
    ASSUME IInv, NEW t \in Task,
           pc[t] \in {"find", "initialize", "release", "recycle"}, ~Closing(t)
    PROVE  /\ BlockOf(t) \in Block \ Live
           /\ refs[BlockOf(t)] = 0
           /\ Holders(BlockOf(t)) = {} /\ Carriers(BlockOf(t)) = {t}
<1>1. BlockOf(t) \in Block
  BY DEF IInv, LocalsStand
<1>2. Carriers(BlockOf(t)) = {t}
  BY <1>1 DEF IInv, BlocksAccounted, Carriers
<1>3. Holders(BlockOf(t)) = {} /\ BlockOf(t) \notin Live
  BY <1>1, <1>2, LiveIsHeld DEF IInv, BlocksAccounted
<1>. QED  BY <1>1, <1>2, <1>3 DEF IInv, TypeOK, Live

\* A close releases a block its node counted on.
LEMMA ClosingIsLive ==
    ASSUME IInv, NEW t \in Task, Closing(t)
    PROVE  /\ BlockOf(t) \in Live
           /\ hand[t] \in Holders(BlockOf(t)) /\ Carriers(BlockOf(t)) = {}
<1>1. BlockOf(t) \in Block /\ hand[t] \in Node
  BY DEF IInv, TypeOK, LocalsStand, Closing
<1>2. hand[t] \in Holders(BlockOf(t))
  BY <1>1 DEF Holders, CountsOn, BlockOf
<1>. QED  BY <1>1, <1>2, LiveIsHeld DEF IInv, BlocksAccounted

\* A block in its pool is not referenced and nobody's.
LEMMA PooledIsDead ==
    ASSUME IInv, NEW b \in dataPool
    PROVE  /\ b \in Block \ Live /\ refs[b] = 0
           /\ Holders(b) = {} /\ Carriers(b) = {}
BY LiveIsHeld DEF IInv, TypeOK, BlocksAccounted, Live

\* The links of referenced blocks stay mutual, whichever block is unlinked.
LEMMA StepLinks ==
    ASSUME IInv, NEW t \in Task, TaskStep(t)
    PROVE  LinksAreMutual'
<1>. USE NilAssumption DEF IInv, TypeOK, LinksAreMutual, list, local
<1>1. Live \subseteq Block /\ Nil \notin Live
  BY DEF Live
<1>2. CASE AllocateData(t)
  <2>. PICK b \in dataPool :
            /\ refs' = [refs EXCEPT ![b] = 0]
            /\ next' = [next EXCEPT ![b] = Nil] /\ previous' = [previous EXCEPT ![b] = Nil]
    BY <1>2 DEF AllocateData
  <2>1. b \notin Live /\ Live' = Live /\ head' = head
    BY <1>2, PooledIsDead DEF AllocateData, Live
  <2>. QED  BY <1>1, <2>1
<1>3. CASE Finds(t)
  <2>. PICK b \in OnList : refs' = [refs EXCEPT ![b] = @ + 1]
    BY <1>3 DEF Finds, Matching
  <2>1. Live' = Live
    BY ListIsLive DEF Live
  <2>. QED  BY <1>3, <2>1 DEF Finds
<1>4. CASE Initialize(t)
  <2>. DEFINE b == BlockOf(t)
  <2>1. b \in Block \ Live
    BY <1>4, CarriedIsDead DEF Initialize, Closing
  <2>2. /\ next' = [next EXCEPT ![b] = head] /\ head' = b
        /\ previous' = [previous EXCEPT ![head] = b, ![b] = Nil]
    BY <1>4 DEF Initialize
  <2>3. Live' = Live \cup {b}
    BY <1>4, <2>1 DEF Initialize, Live
  <2>. HIDE DEF b
  <2>. QED  BY <1>1, <2>1, <2>2, <2>3
<1>5. CASE ReleaseKeeps(t)
  <2>1. Live' = Live
    BY <1>5 DEF ReleaseKeeps, Left, Live
  <2>. QED  BY <1>5, <2>1 DEF ReleaseKeeps
<1>6. CASE ReleaseUnlinks(t)
  <2>. DEFINE b == BlockOf(t)
  <2>1. b \in Block
    BY <1>6 DEF ReleaseUnlinks, LocalsStand
  <2>2. Unlinked(b) /\ Live' = Live \ {b}
    BY <1>6, <2>1 DEF ReleaseUnlinks, Live
  <2>3. CASE Closing(t)
    <3>1. b \in Live
      BY <2>3, ClosingIsLive
    <3>. HIDE DEF b
    <3>. QED  BY <1>1, <2>1, <2>2, <3>1 DEF Unlinked
  <2>4. CASE ~Closing(t)
    <3>1. b \notin Live /\ next[b] = Nil /\ previous[b] = Nil
      BY <1>6, <2>4, CarriedIsDead DEF ReleaseUnlinks, FreshUnlinked, Fresh, Closing
    <3>. HIDE DEF b
    <3>. QED  BY <1>1, <2>1, <2>2, <3>1 DEF Unlinked
  <2>. QED  BY <2>3, <2>4
<1>7. CASE UNCHANGED <<refs, list>>
  BY <1>7 DEF Live
<1>. QED  BY <1>2, <1>3, <1>4, <1>5, <1>6, <1>7 DEF TaskStep, PopNode, Close, AllocateFails,
                FindsNothing, Recycle, Adopt, PushNode

\* The block of an open stays as the pool zeroed it until it is initialized.
LEMMA StepFresh ==
    ASSUME IInv, NEW t \in Task, TaskStep(t)
    PROVE  FreshUnlinked'
<1>. USE NilAssumption DEF IInv, TypeOK, list, local
<1>1. ASSUME NEW u \in Task \ {t}, Fresh(u)'
      PROVE  next'[BlockOf(u)'] = Nil /\ previous'[BlockOf(u)'] = Nil
  <2>. DEFINE c == BlockOf(u)
  <2>1. Untouched(u) /\ pc[u] \in {"find", "initialize", "release"} /\ ~Closing(u) /\ hand[u] # Nil
    BY <1>1, OthersStand DEF Untouched, Fresh, Closing, LocalsStand
  <2>2. BlockOf(u)' = c /\ c \in Block \ Live /\ Carriers(c) = {u}
    BY <2>1, CarriedIsDead DEF Untouched, BlockOf
  <2>3. next[c] = Nil /\ previous[c] = Nil
    BY <1>1, <2>1 DEF FreshUnlinked, Fresh, Untouched
  <2>. HIDE DEF c
  <2>4. CASE AllocateData(t)
    <3>. PICK b \in dataPool :
              next' = [next EXCEPT ![b] = Nil] /\ previous' = [previous EXCEPT ![b] = Nil]
      BY <2>4 DEF AllocateData
    <3>. QED  BY <2>2, <2>3
  <2>5. CASE Initialize(t)
    <3>1. BlockOf(t) # c
      BY <2>2, <2>5, CarriedIsDead DEF Initialize, Closing
    <3>2. head # c
      BY <2>2 DEF LinksAreMutual
    <3>. QED  BY <2>2, <2>3, <2>5, <3>1, <3>2 DEF Initialize
  <2>6. CASE ReleaseUnlinks(t)
    <3>. DEFINE b == BlockOf(t)
    <3>1. Unlinked(b)
      BY <2>6 DEF ReleaseUnlinks
    <3>2. next[b] # c /\ previous[b] # c
      <4>1. CASE Closing(t)
        BY <2>2, <4>1, ClosingIsLive DEF LinksAreMutual, Live
      <4>2. CASE ~Closing(t)
        BY <2>2, <2>6, <4>2 DEF ReleaseUnlinks, FreshUnlinked, Fresh, Closing
      <4>. QED  BY <4>1, <4>2
    <3>. HIDE DEF b
    <3>. QED  BY <2>2, <2>3, <3>1, <3>2 DEF Unlinked
  <2>7. CASE UNCHANGED <<next, previous>>
    BY <2>2, <2>3, <2>7
  <2>. QED  BY <2>4, <2>5, <2>6, <2>7 DEF TaskStep, PopNode, Close, AllocateFails, Finds,
                FindsNothing, ReleaseKeeps, Recycle, Adopt, PushNode
<1>2. ASSUME Fresh(t)'
      PROVE  next'[BlockOf(t)'] = Nil /\ previous'[BlockOf(t)'] = Nil
  <2>1. CASE AllocateData(t)
    <3>1. hand[t] # Nil
      BY <2>1 DEF AllocateData, LocalsStand
    <3>. PICK b \in dataPool :
              /\ data' = [data EXCEPT ![hand[t]] = b]
              /\ next' = [next EXCEPT ![b] = Nil] /\ previous' = [previous EXCEPT ![b] = Nil]
      BY <2>1 DEF AllocateData
    <3>. QED  BY <2>1, <3>1 DEF AllocateData, BlockOf
  <2>2. CASE Finds(t) \/ FindsNothing(t)
    BY <2>2 DEF Finds, FindsNothing, FreshUnlinked, Fresh, BlockOf
  <2>3. ~(Finds(t) \/ FindsNothing(t) \/ AllocateData(t)) => ~Fresh(t)'
    BY DEF TaskStep, PopNode, Close, AllocateFails, Initialize, HandOut, ReleaseKeeps, ReleaseUnlinks,
           Recycle, Continuation, Adopt, PushNode, Fresh, Goto, LocalsStand
  <2>. QED  BY <1>2, <2>1, <2>2, <2>3
<1>. QED  BY <1>1, <1>2 DEF FreshUnlinked

\* Where a step can change who counts on b: at the node in the task's hand.
LEMMA StepHolders ==
    ASSUME IInv, NEW t \in Task, TaskStep(t), NEW b \in Block
    PROVE  /\ \A n \in Node \ {hand[t], hand'[t]} : n \in Holders(b)' <=> n \in Holders(b)
           /\ hand[t] # Nil =>
                (hand[t] \in Holders(b) <=> found[t] = b \/ (Closing(t) /\ BlockOf(t) = b))
           /\ hand'[t] # Nil =>
                (hand'[t] \in Holders(b)' <=> found'[t] = b \/ (Closing(t)' /\ BlockOf(t)' = b))
           /\ \A u \in Task \ {t} : u \in Carriers(b)' <=> u \in Carriers(b)
<1>. USE NilAssumption DEF IInv, TypeOK
<1>1. \A u \in Task \ {t} : Untouched(u)
  BY OthersStand
<1>2. NodesAccounted' /\ TypeOK'
  BY StepNodes, StepTyped
<1>3. ASSUME NEW n \in Node \ {hand[t], hand'[t]}
      PROVE  n \in Holders(b)' <=> n \in Holders(b)
  <2>1. n \in open' <=> n \in open
    BY <1>3 DEF TaskStep, PopNode, Close, AllocateData, AllocateFails, Finds, FindsNothing, Initialize,
           HandOut, ReleaseKeeps, ReleaseUnlinks, Recycle, Adopt, PushNode, list, local
  <2>2. n \in open => data'[n] = data[n]
    BY StepOpen
  <2>3. \A u \in Task : hand'[u] = n <=> hand[u] = n
    BY <1>1, <1>3 DEF Untouched
  <2>4. \A u \in Task \ {t} : hand[u] = n =>
            (found'[u] = b \/ (Closing(u)' /\ data'[n] = b))
                <=> (found[u] = b \/ (Closing(u) /\ data[n] = b))
    BY <1>1 DEF Untouched, Closing
  <2>5. CountsOn(n, b)' <=> CountsOn(n, b)
    BY <1>3, <2>1, <2>2, <2>3, <2>4 DEF CountsOn
  <2>. QED  BY <2>5 DEF Holders
<1>4. ASSUME hand[t] # Nil
      PROVE  hand[t] \in Holders(b) <=> found[t] = b \/ (Closing(t) /\ BlockOf(t) = b)
  BY <1>4 DEF NodesAccounted, Hands, Holders, CountsOn, BlockOf
<1>5. ASSUME hand'[t] # Nil
      PROVE  hand'[t] \in Holders(b)' <=> found'[t] = b \/ (Closing(t)' /\ BlockOf(t)' = b)
  BY <1>2, <1>5 DEF NodesAccounted, Hands, Holders, CountsOn, BlockOf
<1>6. ASSUME NEW u \in Task \ {t}
      PROVE  u \in Carriers(b)' <=> u \in Carriers(b)
  BY <1>1 DEF Untouched, Carriers, Closing, BlockOf, LocalsStand
<1>. QED  BY <1>3, <1>4, <1>5, <1>6

\* A step that does not change what the task's nodes count on and what the task
\* carries changes no holders and no carriers.
LEMMA StepKeepsHolders ==
    ASSUME IInv, NEW t \in Task, TaskStep(t), NEW b \in Block,
           \A n \in Node \cap {hand[t], hand'[t]} : n \in Holders(b)' <=> n \in Holders(b)
    PROVE  Holders(b)' = Holders(b)
<1>1. \A n \in Node : n \in Holders(b)' <=> n \in Holders(b)
  BY StepHolders
<1>. QED  BY <1>1 DEF Holders

LEMMA StepKeepsCarriers ==
    ASSUME IInv, NEW t \in Task, TaskStep(t), NEW b \in Block,
           t \in Carriers(b)' <=> t \in Carriers(b)
    PROVE  Carriers(b)' = Carriers(b)
<1>1. \A u \in Task : u \in Carriers(b)' <=> u \in Carriers(b)
  BY StepHolders
<1>. QED  BY <1>1 DEF Carriers

\* A node in nobody's hand counts on a block when it is handed out with it.
LEMMA RestingHolders ==
    ASSUME NEW n \in Node, NEW b \in Block, Hands(n) = {}
    PROVE  n \in Holders(b) <=> n \in open /\ data[n] = b
BY DEF Hands, Holders, CountsOn

\* One holder more and one holder less.
LEMMA OneMore ==
    ASSUME NEW S, NEW x, IsFiniteSet(S), x \notin S
    PROVE  Cardinality(S \cup {x}) = Cardinality(S) + 1
BY FS_AddElement

LEMMA OneLess ==
    ASSUME NEW S, NEW x, IsFiniteSet(S), x \in S
    PROVE  IsFiniteSet(S \ {x}) /\ Cardinality(S \ {x}) = Cardinality(S) - 1
BY FS_RemoveElement

\* The counts stay the holders and the pool the rest.
LEMMA StepBlocks ==
    ASSUME IInv, NEW t \in Task, TaskStep(t)
    PROVE  BlocksAccounted'
<1>. USE NilAssumption DEF IInv, TypeOK, Goto, list, local
<1>. DEFINE h == hand[t]
            Same(b) == /\ Holders(b)' = Holders(b) /\ Carriers(b)' = Carriers(b)
                       /\ refs'[b] = refs[b] /\ (b \in dataPool' <=> b \in dataPool)
            Accounted(b) == /\ refs[b] = Cardinality(Holders(b))
                            /\ b \in dataPool <=> Holders(b) \cup Carriers(b) = {}
                            /\ Holders(b) # {} => Carriers(b) = {}
                            /\ \A u, w \in Carriers(b) : u = w
<1>1. \A b \in Block : Accounted(b)
  BY DEF BlocksAccounted
<1>2. ASSUME NEW b \in Block, Same(b) PROVE Accounted(b)'
  BY <1>1, <1>2
<1>3. NodesAccounted'
  BY StepNodes
<1>4. ASSUME NEW v \in Volume, PopNode(t, v), NEW b \in Block PROVE Same(b)
  <2>1. hand[t] = Nil /\ found[t] = Nil
    BY <1>4 DEF PopNode, LocalsStand
  <2>. PICK n \in nodePool : hand' = [hand EXCEPT ![t] = n]
    BY <1>4 DEF PopNode
  <2>2. n \notin Holders(b)
    BY <1>4, RestingHolders DEF NodesAccounted
  <2>3. hand'[t] = n /\ ~(found'[t] = b \/ (Closing(t)' /\ BlockOf(t)' = b))
    BY <1>4, <2>1 DEF PopNode, Closing
  <2>4. t \notin Carriers(b) /\ t \notin Carriers(b)'
    BY <1>4 DEF PopNode, Carriers
  <2>. QED  BY <1>1, <1>4, <2>1, <2>2, <2>3, <2>4, StepHolders, StepKeepsHolders, StepKeepsCarriers DEF PopNode
<1>5. ASSUME NEW n \in Node, Close(t, n), NEW b \in Block PROVE Same(b)
  <2>1. hand[t] = Nil /\ found[t] = Nil /\ hand'[t] = n
    BY <1>5 DEF Close, LocalsStand
  <2>2. n \in Holders(b) <=> data[n] = b
    BY <1>5, RestingHolders DEF Close, NodesAccounted
  <2>3. Closing(t)' /\ found'[t] = Nil /\ BlockOf(t)' = data[n]
    BY <1>5, <2>1 DEF Close, Closing, BlockOf
  <2>4. t \notin Carriers(b) /\ t \notin Carriers(b)'
    BY <1>5, <2>3 DEF Close, Carriers
  <2>. QED  BY <1>1, <1>5, <2>1, <2>2, <2>3, <2>4, StepHolders, StepKeepsHolders, StepKeepsCarriers DEF Close
<1>6. ASSUME AllocateFails(t) \/ FindsNothing(t), NEW b \in Block PROVE Same(b)
  <2>1. hand'[t] = hand[t] /\ hand[t] # Nil /\ found[t] = Nil /\ found'[t] = Nil
    BY <1>6 DEF AllocateFails, FindsNothing, LocalsStand
  <2>2. ~Closing(t) /\ ~Closing(t)' /\ BlockOf(t)' = BlockOf(t)
    BY <1>6 DEF AllocateFails, FindsNothing, Closing, BlockOf
  <2>3. t \in Carriers(b) <=> t \in Carriers(b)'
    BY <1>6, <2>2 DEF AllocateFails, FindsNothing, Carriers
  <2>. QED  BY <1>1, <1>6, <2>1, <2>2, <2>3, StepHolders, StepKeepsHolders, StepKeepsCarriers
            DEF AllocateFails, FindsNothing
<1>7. ASSUME AllocateData(t), NEW b \in Block PROVE Accounted(b)'
  <2>1. hand'[t] = h /\ h \in Node /\ found[t] = Nil /\ found'[t] = Nil
    BY <1>7 DEF AllocateData, LocalsStand
  <2>2. ~Closing(t) /\ ~Closing(t)' /\ Holders(b)' = Holders(b)
    <3>1. ~Closing(t) /\ ~Closing(t)'
      BY <1>7 DEF AllocateData, Closing
    <3>. QED  BY <1>7, <2>1, <3>1, StepHolders, StepKeepsHolders
  <2>. PICK c \in dataPool : /\ dataPool' = dataPool \ {c} /\ refs' = [refs EXCEPT ![c] = 0]
                             /\ data' = [data EXCEPT ![h] = c]
    BY <1>7 DEF AllocateData
  <2>3. t \notin Carriers(b) /\ (t \in Carriers(b)' <=> b = c)
    BY <1>7, <2>1, <2>2 DEF AllocateData, Carriers, BlockOf
  <2>4. CASE b = c
    <3>1. Holders(b) = {} /\ Carriers(b) = {} /\ refs[b] = 0
      BY <2>4, PooledIsDead
    <3>2. Carriers(b)' = {t}
      BY <1>7, <2>3, <2>4, <3>1, StepHolders DEF Carriers
    <3>. QED  BY <1>1, <1>7, <2>2, <2>4, <3>1, <3>2
  <2>5. CASE b # c
    <3>1. Carriers(b)' = Carriers(b)
      BY <1>7, <2>3, <2>5, StepKeepsCarriers
    <3>. QED  BY <1>1, <1>7, <2>2, <2>5, <3>1
  <2>. QED  BY <2>4, <2>5
<1>8. ASSUME Finds(t), NEW b \in Block PROVE Accounted(b)'
  <2>. PICK c \in Matching(volume[t]) : /\ found' = [found EXCEPT ![t] = c]
                                        /\ refs' = [refs EXCEPT ![c] = @ + 1]
    BY <1>8 DEF Finds
  <2>1. c \in Live /\ c \in Block
    BY <1>8, ListIsLive DEF Matching, Live
  <2>2. /\ hand'[t] = h /\ h \in Node /\ found[t] = Nil /\ found'[t] = c
        /\ ~Closing(t) /\ ~Closing(t)' /\ BlockOf(t)' = BlockOf(t) /\ dataPool' = dataPool
    BY <1>8, <2>1 DEF Finds, LocalsStand, Closing, BlockOf
  <2>3. t \in Carriers(b) <=> t \in Carriers(b)'
    BY <1>8, <2>2 DEF Finds, Carriers
  <2>4. h \notin Holders(b) /\ (h \in Holders(b)' <=> b = c)
    BY <1>8, <2>2, StepHolders
  <2>5. Carriers(b)' = Carriers(b)
    BY <1>8, <2>3, StepKeepsCarriers
  <2>6. CASE b = c
    <3>1. Holders(b)' = Holders(b) \cup {h}
      BY <1>8, <2>2, <2>4, <2>6, StepHolders DEF Holders
    <3>2. refs'[b] = refs[b] + 1 /\ Holders(b) # {} /\ IsFiniteSet(Holders(b))
      BY <1>8, <2>1, <2>6, LiveIsHeld
    <3>3. Cardinality(Holders(b)') = Cardinality(Holders(b)) + 1
      BY <2>4, <3>1, <3>2, OneMore
    <3>. QED  BY <1>8, <1>1, <2>2, <2>5, <3>1, <3>2, <3>3
  <2>7. CASE b # c
    <3>1. Holders(b)' = Holders(b)
      BY <1>8, <2>2, <2>4, <2>7, StepKeepsHolders
    <3>. QED  BY <1>8, <1>1, <2>2, <2>5, <2>7, <3>1
  <2>. QED  BY <1>8, <2>6, <2>7
<1>9. ASSUME Initialize(t), NEW b \in Block PROVE Accounted(b)'
  <2>. DEFINE c == BlockOf(t)
  <2>1. /\ h \in Node /\ found[t] = Nil /\ ~Closing(t) /\ c \in Block /\ t \in Carriers(c)
        /\ hand'[t] = Nil /\ h \in open' /\ data' = data /\ dataPool' = dataPool
        /\ refs' = [refs EXCEPT ![c] = 1]
    BY <1>9 DEF Initialize, HandOut, LocalsStand, Closing, Carriers
  <2>2. h \notin Holders(b) /\ (h \in Holders(b)' <=> b = c)
    <3>1. \A u \in Task : hand'[u] # h
      BY <1>3, <2>1 DEF NodesAccounted, Hands
    <3>. QED  BY <1>9, <2>1, <3>1, StepHolders DEF Holders, CountsOn, BlockOf
  <2>3. t \notin Carriers(b)' /\ (t \in Carriers(b) <=> b = c)
    BY <1>9, <2>1 DEF Initialize, HandOut, Carriers
  <2>4. CASE b = c
    <3>1. Holders(b) = {} /\ Carriers(b) = {t}
      BY <1>9, <2>4, CarriedIsDead DEF Initialize, Closing
    <3>2. Holders(b)' = {h}
      BY <1>9, <2>1, <2>2, <2>4, <3>1, StepHolders DEF Holders
    <3>3. Carriers(b)' = {}
      BY <1>9, <2>3, <3>1, StepHolders DEF Carriers
    <3>4. refs'[b] = 1 /\ Cardinality(Holders(b)') = 1
      BY <2>1, <2>4, <3>2, FS_Singleton
    <3>. QED  BY <1>1, <1>9, <2>1, <2>4, <3>1, <3>2, <3>3, <3>4
  <2>5. CASE b # c
    <3>1. Holders(b)' = Holders(b)
      BY <1>9, <2>1, <2>2, <2>5, StepKeepsHolders
    <3>2. Carriers(b)' = Carriers(b)
      BY <1>9, <2>3, <2>5, StepKeepsCarriers
    <3>. QED  BY <1>1, <1>9, <2>1, <2>5, <3>1, <3>2
  <2>. QED  BY <2>4, <2>5
<1>10. ASSUME ReleaseKeeps(t) \/ ReleaseUnlinks(t), Closing(t), NEW b \in Block PROVE Accounted(b)'
  <2>. DEFINE c == BlockOf(t)
  <2>1. /\ c \in Block /\ refs[c] \in Nat \ {0} /\ h \in Holders(c) /\ Carriers(c) = {}
        /\ IsFiniteSet(Holders(c))
    BY <1>10, ClosingIsLive, LiveIsHeld DEF Live
  <2>2. /\ h \in Node /\ hand'[t] = h /\ found[t] = Nil /\ found'[t] = Nil /\ BlockOf(t)' = c
        /\ dataPool' = dataPool /\ refs' = [refs EXCEPT ![c] = refs[c] - 1]
    BY <1>10, <2>1 DEF ReleaseKeeps, ReleaseUnlinks, Left, Closing, LocalsStand, BlockOf
  <2>3. h \notin Holders(b)' /\ (h \in Holders(b) <=> b = c)
    <3>1. ~Closing(t)'
      BY <1>10 DEF ReleaseKeeps, ReleaseUnlinks, Continuation, Closing
    <3>. QED  BY <1>10, <2>2, <3>1, StepHolders
  <2>4. t \notin Carriers(b)
    BY <1>10 DEF Carriers
  <2>5. t \in Carriers(b)' <=> b = c /\ refs[c] = 1
    BY <1>10, <2>1, <2>2 DEF ReleaseKeeps, ReleaseUnlinks, Continuation, Left, Carriers, Closing
  <2>6. CASE b = c
    <3>1. Holders(b)' = Holders(b) \ {h}
      BY <1>10, <2>2, <2>3, <2>6, StepHolders DEF Holders
    <3>2. Cardinality(Holders(b)') = refs'[b] /\ IsFiniteSet(Holders(b)')
      <4>1. h \in Holders(b) /\ IsFiniteSet(Holders(b)) /\ refs'[b] = Cardinality(Holders(b)) - 1
        BY <1>1, <1>10, <2>1, <2>2, <2>6
      <4>. QED  BY <3>1, <4>1, OneLess
    <3>3. CASE refs[c] = 1
      <4>1. Holders(b)' = {}
        BY <2>2, <2>6, <3>2, <3>3, FS_EmptySet
      <4>2. Carriers(b)' = {t}
        BY <1>10, <2>1, <2>5, <2>6, <3>3, StepHolders DEF Carriers
      <4>. QED  BY <1>1, <1>10, <2>1, <2>2, <2>6, <3>2, <4>1, <4>2
    <3>4. CASE refs[c] # 1
      <4>1. Holders(b)' # {}
        BY <2>1, <2>2, <2>6, <3>2, <3>4, FS_EmptySet
      <4>2. Carriers(b)' = {}
        BY <1>10, <2>1, <2>5, <2>6, <3>4, StepHolders DEF Carriers
      <4>. QED  BY <1>1, <1>10, <2>1, <2>2, <2>6, <3>2, <4>1, <4>2
    <3>. QED  BY <3>3, <3>4
  <2>7. CASE b # c
    <3>1. Holders(b)' = Holders(b)
      BY <1>10, <2>2, <2>3, <2>7, StepKeepsHolders
    <3>2. Carriers(b)' = Carriers(b)
      BY <1>10, <2>4, <2>5, <2>7, StepKeepsCarriers
    <3>. QED  BY <1>1, <1>10, <2>2, <2>7, <3>1, <3>2
  <2>. QED  BY <2>6, <2>7
<1>11. ASSUME ReleaseKeeps(t) \/ ReleaseUnlinks(t), ~Closing(t), NEW b \in Block PROVE Same(b)
  <2>1. BlockOf(t) \in Block /\ refs[BlockOf(t)] = 0
    BY <1>11, CarriedIsDead DEF ReleaseKeeps, ReleaseUnlinks
  <2>2. /\ ReleaseUnlinks(t) /\ hand'[t] = h /\ h # Nil /\ found'[t] = found[t]
        /\ BlockOf(t)' = BlockOf(t) /\ ~Closing(t)'
    BY <1>11, <2>1 DEF ReleaseKeeps, ReleaseUnlinks, Left, Closing, LocalsStand, BlockOf
  <2>3. Holders(b)' = Holders(b)
    BY <1>11, <2>2, StepHolders, StepKeepsHolders
  <2>4. Carriers(b)' = Carriers(b)
    <3>1. t \in Carriers(b)' <=> t \in Carriers(b)
      BY <1>11, <2>2 DEF ReleaseUnlinks, Carriers
    <3>. QED  BY <1>11, <3>1, StepKeepsCarriers
  <2>. QED  BY <2>1, <2>2, <2>3, <2>4 DEF ReleaseUnlinks
<1>12. ASSUME Recycle(t), NEW b \in Block PROVE Accounted(b)'
  <2>. DEFINE c == BlockOf(t)
  <2>1. /\ hand'[t] = h /\ h # Nil /\ found'[t] = found[t] /\ BlockOf(t)' = c
        /\ refs' = refs /\ dataPool' = dataPool \cup {c}
    BY <1>12 DEF Recycle, LocalsStand, BlockOf
  <2>2. ~Closing(t) /\ ~Closing(t)' /\ t \notin Carriers(b)'
    BY <1>12 DEF Recycle, Continuation, Closing, Carriers
  <2>3. Holders(b)' = Holders(b)
    BY <1>12, <2>1, <2>2, StepHolders, StepKeepsHolders
  <2>4. Holders(c) = {} /\ Carriers(c) = {t}
    BY <1>12, <2>2, CarriedIsDead DEF Recycle
  <2>5. CASE b = c
    <3>1. Carriers(b)' = {}
      BY <1>12, <2>2, <2>4, <2>5, StepHolders DEF Carriers
    <3>. QED  BY <1>1, <1>12, <2>1, <2>3, <2>4, <2>5, <3>1
  <2>6. CASE b # c
    <3>1. t \notin Carriers(b)
      BY <2>6 DEF Carriers
    <3>2. Carriers(b)' = Carriers(b)
      BY <1>12, <2>2, <3>1, StepKeepsCarriers
    <3>. QED  BY <1>1, <1>12, <2>1, <2>3, <2>6, <3>2
  <2>. QED  BY <2>5, <2>6
<1>13. ASSUME Adopt(t), NEW b \in Block PROVE Same(b)
  <2>1. /\ h \in Node /\ ~Closing(t) /\ hand'[t] = Nil
        /\ h \in open' /\ data'[h] = found[t]
    BY <1>13 DEF Adopt, HandOut, LocalsStand, Closing
  <2>2. h \in Holders(b)' <=> h \in Holders(b)
    <3>1. \A u \in Task : hand'[u] # h
      BY <1>3, <2>1 DEF NodesAccounted, Hands
    <3>. QED  BY <1>13, <2>1, <3>1, StepHolders DEF Holders, CountsOn
  <2>3. t \notin Carriers(b) /\ t \notin Carriers(b)'
    BY <1>13 DEF Adopt, HandOut, Carriers
  <2>. QED  BY <1>13, <2>1, <2>2, <2>3, StepKeepsHolders, StepKeepsCarriers DEF Adopt
<1>14. ASSUME PushNode(t), NEW b \in Block PROVE Same(b)
  <2>1. /\ h \in Node /\ ~Closing(t) /\ found[t] = Nil /\ hand'[t] = Nil
        /\ h \in nodePool'
    BY <1>14 DEF PushNode, LocalsStand, Closing
  <2>2. h \notin Holders(b)' /\ h \notin Holders(b)
    <3>1. h \notin open' /\ \A u \in Task : hand'[u] # h
      BY <1>3, <2>1 DEF NodesAccounted, Hands
    <3>. QED  BY <1>14, <2>1, <3>1, StepHolders DEF Holders, CountsOn
  <2>3. t \notin Carriers(b) /\ t \notin Carriers(b)'
    BY <1>14 DEF PushNode, Carriers
  <2>. QED  BY <1>14, <2>1, <2>2, <2>3, StepKeepsHolders, StepKeepsCarriers DEF PushNode
<1>15. ASSUME NEW b \in Block PROVE Accounted(b)'
  <2>. HIDE DEF Same, Accounted
  <2>. QED  BY <1>2, <1>4, <1>5, <1>6, <1>7, <1>8, <1>9, <1>10, <1>11, <1>12, <1>13, <1>14, <1>15
            DEF TaskStep
<1>. QED  BY <1>15 DEF BlocksAccounted

\* A block leaves the walk only when it is released itself, or when the released
\* block is not on the list.
LEMMA StepLosesToStrays ==
    ASSUME IInv, NEW t \in Task, TaskStep(t)
    PROVE  (OnList \ OnList') \cap Live' # {} => ReleasesStray(t)
<1>. USE NilAssumption DEF IInv, TypeOK, list, local
<1>. DEFINE Kept == Reach(head', next')
<1>1. OnList \subseteq Live /\ Live \subseteq Block /\ Kept \subseteq Block /\ OnList' = Kept
  BY ListIsLive DEF Live, OnList, Reach
<1>2. TypeOK'
  BY StepTyped
<1>3. head' \in Kept \cup {Nil} /\ \A d \in Kept : next'[d] \in Kept \cup {Nil}
  BY <1>2, ReachIsClosed
<1>4. ASSUME NEW S \in SUBSET Block, head \in S \cup {Nil}, \A d \in S : next[d] \in S \cup {Nil}
      PROVE  OnList \subseteq S
  BY <1>4, ReachIsLeast DEF OnList
<1>. HIDE DEF Kept
<1>5. CASE AllocateData(t)
  <2>. PICK b \in dataPool : next' = [next EXCEPT ![b] = Nil]
    BY <1>5 DEF AllocateData
  <2>1. b \notin Live /\ head' = head
    BY <1>5, PooledIsDead DEF AllocateData
  <2>2. OnList \subseteq Kept \cap Live
    BY <1>1, <1>3, <1>4, <2>1 DEF LinksAreMutual
  <2>. QED  BY <1>1, <2>2
<1>6. CASE Initialize(t)
  <2>. DEFINE b == BlockOf(t)
  <2>1. b \in Block /\ next[b] = Nil /\ head' = b /\ next' = [next EXCEPT ![b] = head]
    BY <1>6, CarriedIsDead DEF Initialize, FreshUnlinked, Fresh, Closing
  <2>. HIDE DEF b
  <2>2. OnList \subseteq Kept
    BY <1>1, <1>3, <1>4, <2>1
  <2>. QED  BY <1>1, <2>2
<1>7. CASE ReleaseUnlinks(t) /\ BlockOf(t) \in OnList
  <2>. DEFINE b == BlockOf(t)
  <2>1. b \in Live /\ Unlinked(b) /\ b \notin Live'
    BY <1>1, <1>7 DEF ReleaseUnlinks, Live
  <2>. HIDE DEF b
  <2>2. previous[b] = Nil => head = b
    <3>. SUFFICES ASSUME previous[b] = Nil, head # b PROVE FALSE
      OBVIOUS
    <3>. DEFINE S == OnList \ {b}
    <3>1. head \in OnList \cup {Nil} /\ \A d \in OnList : next[d] \in OnList \cup {Nil}
      BY ReachIsClosed DEF OnList
    <3>2. \A d \in OnList : next[d] # b
      BY <1>1, <2>1 DEF LinksAreMutual
    <3>3. S \in SUBSET Block /\ head \in S \cup {Nil} /\ \A d \in S : next[d] \in S \cup {Nil}
      BY <1>1, <3>1, <3>2
    <3>4. OnList \subseteq S
      <4>. HIDE DEF S
      <4>. QED  BY <1>4, <3>3
    <3>. QED  BY <1>7, <3>4 DEF b
  <2>3. OnList \subseteq Kept \cup {b}
    <3>1. CASE previous[b] = Nil \/ previous[b] \in Kept
      <4>1. next[b] \in Kept \cup {Nil}
        BY <1>1, <1>3, <2>1, <3>1 DEF Unlinked
      <4>2. ASSUME NEW d \in Kept PROVE next[d] \in Kept \cup {b, Nil}
        <5>1. d = previous[b] => next[d] = b
          BY <1>1, <2>1, <4>2 DEF LinksAreMutual
        <5>2. d # previous[b] => next'[d] = next[d]
          BY <1>1, <2>1, <4>2 DEF Unlinked
        <5>. QED  BY <1>3, <4>2, <5>1, <5>2
      <4>3. head \in Kept \cup {b, Nil}
        BY <1>3, <2>1, <2>2 DEF Unlinked
      <4>. DEFINE S == Kept \cup {b}
      <4>4. S \in SUBSET Block /\ head \in S \cup {Nil} /\ \A d \in S : next[d] \in S \cup {Nil}
        BY <1>1, <2>1, <4>1, <4>2, <4>3
      <4>5. OnList \subseteq S
        <5>. HIDE DEF S
        <5>. QED  BY <1>4, <4>4
      <4>. QED  BY <4>5
    <3>2. CASE previous[b] # Nil /\ previous[b] \notin Kept
      <4>1. head \in Kept \cup {Nil} /\ \A d \in Kept : next[d] \in Kept \cup {Nil}
        BY <1>1, <1>3, <2>1, <3>2 DEF Unlinked
      <4>. QED  BY <1>1, <1>4, <4>1
    <3>. QED  BY <3>1, <3>2
  <2>. QED  BY <1>1, <2>1, <2>3
<1>8. CASE ReleaseUnlinks(t) /\ BlockOf(t) \notin OnList
  BY <1>8 DEF ReleaseUnlinks, ReleasesStray, Goto
<1>9. CASE UNCHANGED <<next, head>>
  BY <1>1, <1>9 DEF OnList, Kept
<1>. QED  BY <1>5, <1>6, <1>7, <1>8, <1>9 DEF TaskStep, PopNode, Close, AllocateFails, Finds,
                FindsNothing, ReleaseKeeps, Recycle, Adopt, PushNode

-----------------------------------------------------------------------------
(* The theorems *)

LEMMA InvariantIsInductive == IInv /\ [Next]_vars => IInv'
<1>. SUFFICES ASSUME IInv, [Next]_vars PROVE IInv'
  OBVIOUS
<1>1. ASSUME NEW t \in Task, TaskStep(t) PROVE IInv'
  BY <1>1, StepTyped, StepLocals, StepOpen, StepNodes, StepBlocks, StepFresh, StepLinks DEF IInv
<1>2. CASE UNCHANGED vars
  <2>1. TypeOK' /\ LocalsStand' /\ OpenHaveBlocks' /\ NodesAccounted'
    BY <1>2 DEF vars, IInv, TypeOK, LocalsStand, BlockOf, OpenHaveBlocks, NodesAccounted, Hands
  <2>2. BlocksAccounted'
    BY <1>2 DEF vars, IInv, BlocksAccounted, Holders, CountsOn, Closing, Carriers, BlockOf
  <2>3. FreshUnlinked' /\ LinksAreMutual'
    BY <1>2 DEF vars, IInv, FreshUnlinked, Fresh, BlockOf, LinksAreMutual, Live
  <2>. QED  BY <2>1, <2>2, <2>3 DEF IInv
<1>. QED  BY <1>1, <1>2 DEF Next

THEOREM Invariance == Spec => []IInv
BY InitInvariant, InvariantIsInductive, PTL DEF Spec

\* Types are kept, and no release counts below zero.
THEOREM TypeCorrect == Spec => []TypeOK
<1>1. IInv => TypeOK
  BY DEF IInv
<1>. QED  BY <1>1, Invariance, PTL

\* A block's count is the number of its holders, and no block or node is leaked,
\* reused while held or freed twice.
THEOREM CountsAreHolders == Spec => []PoolsAccounted
<1>1. IInv => PoolsAccounted
  BY DEF IInv, PoolsAccounted
<1>. QED  BY <1>1, Invariance, PTL

\* The links of referenced blocks lead to referenced blocks and back, so a walk
\* never meets a freed block.
THEOREM LinksSound == Spec => []LinksAreMutual
<1>1. IInv => LinksAreMutual
  BY DEF IInv
<1>. QED  BY <1>1, Invariance, PTL

\* A referenced block leaves the list only when a block off the list is released.
THEOREM OnlyStraysLose == Spec => LostOnlyToStrays
<1>. DEFINE Loss == (OnList \ OnList') \cap Live' # {} => \E t \in Task : ReleasesStray(t)
<1>1. IInv /\ [Next]_vars => [Loss]_vars
  <2>. SUFFICES ASSUME IInv, NEW t \in Task, TaskStep(t) PROVE Loss
    BY DEF Next
  <2>. QED  BY StepLosesToStrays
<1>. QED  BY <1>1, Invariance, PTL DEF Spec, LostOnlyToStrays
=============================================================================
