--------------------------- MODULE CondVarProofs ----------------------------
(***************************************************************************)
(* Theorems about CondVar, for every set of tasks and objects and every    *)
(* nesting bound, with timed and unbounded waits mixed under direct wakes, *)
(* or deferred wakes of waits that are all timed or all unbounded          *)
(* (OneKindIfDeferred).  The run condvar_stale_wake shows what the other   *)
(* mix does.                                                               *)
(***************************************************************************)
EXTENDS CondVar, TLAPS

\* A task has an object exactly while it is in a wait that has not deleted it,
\* the object exists, and no other task has it.
HasObject(t) == \/ pc[t] \in {"drop", "sleep", "delete", "unlink"}
                \/ pc[t] = "relock" /\ kind[t] = "timed"
ObjectsOwned ==
    /\ \A t \in Task : IF HasObject(t) THEN object[t] \in live ELSE object[t] = NoObject
    /\ \A t, u \in Task : object[t] = object[u] /\ object[t] # NoObject => t = u

\* No node is linked twice.
Distinct(q) == \A i, j \in 1 .. Len(q) : q[i] = q[j] => i = j

\* Linked nodes belong to waits in progress, and the unbounded ones among them
\* hold no signal yet.  (A deferred wake of an earlier timed wait may have
\* signalled a timed one early: that one unlinks its node itself.)
LinkedWait ==
    /\ Distinct(queue)
    /\ \A t \in Task : pc[t] = "drop" => t \in Linked(queue)
    /\ \A t \in Linked(queue) :
          /\ pc[t] \in {"drop", "sleep", "relock", "unlink"}
          /\ HasObject(t)
          /\ kind[t] = "forever" => object[t] \notin latched

\* A node in a waker's hands is off the queue, its task has not got past the lock,
\* and if its wait is unbounded it is not signalled yet.
PoppedWait ==
    \A u \in Task : pc[u] \in Waking =>
        /\ popped[u] \in Task
        /\ popped[u] \notin Linked(queue)
        /\ pc[popped[u]] \in {"sleep", "relock"}
        /\ HasObject(popped[u])
        /\ kind[popped[u]] = "forever" => object[popped[u]] \notin latched

\* Where unbounded waits are used, an id in the pending table is the object of
\* one task, asleep in one, off the queue, in no waker's hands and not yet
\* signalled.
PendingWait ==
    /\ pending # {} => "deferred" \in WakeMode
    /\ \A u \in Task : pc[u] = "defer" => "deferred" \in WakeMode
    /\ "forever" \in WaitKind => \A o \in pending : \E t \in Task : object[t] = o
    /\ \A t \in Task : kind[t] = "forever" /\ object[t] \in pending =>
          /\ pc[t] = "sleep"
          /\ t \notin Linked(queue)
          /\ object[t] \notin latched
          /\ \A u \in Task : pc[u] \in Waking => popped[u] # t

\* The kinds of wait stand where their code can.
KindsStand == \A t \in Task : /\ HasObject(t) => kind[t] \in WaitKind
                              /\ pc[t] = "delete" => kind[t] = "forever"
                              /\ pc[t] = "unlink" => kind[t] = "timed"

\* A free record counts no level.
FreeIsZero == lock.owner = NoTask => lock.count = 0

\* What the lock needs of the invariant.
LockInv == TypeOK /\ WaitRestoresLock /\ FreeIsZero

\* The inductive invariant.
IInv ==
    /\ TypeOK
    /\ WaitRestoresLock
    /\ FreeIsZero
    /\ ObjectsOwned
    /\ LinkedWait
    /\ PoppedWait
    /\ PendingWait
    /\ KindsStand
    /\ NoLostWakeup

-----------------------------------------------------------------------------
(* The wait queue *)

\* Appending adds one task to the linked ones, in the last place.
LEMMA AppendLinked ==
    ASSUME NEW q \in Seq(Task), NEW t \in Task, Distinct(q), t \notin Linked(q)
    PROVE  /\ Append(q, t) \in Seq(Task)
           /\ Distinct(Append(q, t))
           /\ Linked(Append(q, t)) = Linked(q) \cup {t}
<1>1. /\ Append(q, t) \in Seq(Task) /\ Len(Append(q, t)) = Len(q) + 1
      /\ \A i \in 1 .. Len(q) : Append(q, t)[i] = q[i]
      /\ Append(q, t)[Len(q) + 1] = t
  OBVIOUS
<1>2. Linked(Append(q, t)) = Linked(q) \cup {t}
  BY <1>1 DEF Linked
<1>3. Distinct(Append(q, t))
  BY <1>1 DEF Distinct, Linked
<1>4. QED
  BY <1>1, <1>2, <1>3

\* Popping a queue without repetitions removes the head and only the head.
LEMMA TailLinked ==
    ASSUME NEW q \in Seq(Task), q # <<>>, Distinct(q)
    PROVE  /\ Tail(q) \in Seq(Task)
           /\ Head(q) \in Linked(q)
           /\ Distinct(Tail(q))
           /\ Linked(Tail(q)) = Linked(q) \ {Head(q)}
<1>1. /\ Tail(q) \in Seq(Task) /\ Head(q) \in Task
      /\ Head(q) = q[1] /\ Len(q) \in Nat \ {0}
      /\ Len(Tail(q)) = Len(q) - 1
      /\ \A i \in 1 .. Len(Tail(q)) : Tail(q)[i] = q[i + 1]
  OBVIOUS
<1>2. ASSUME NEW x \in Linked(q), x # Head(q) PROVE x \in Linked(Tail(q))
  <2>1. PICK i \in 1 .. Len(q) : x = q[i]
    BY <1>2 DEF Linked
  <2>2. i - 1 \in 1 .. Len(Tail(q)) /\ Tail(q)[i - 1] = x
    BY <1>1, <1>2, <2>1
  <2>3. QED
    BY <2>2 DEF Linked
<1>3. ASSUME NEW x \in Linked(Tail(q)) PROVE x \in Linked(q) \ {Head(q)}
  BY <1>1, <1>3 DEF Linked, Distinct
<1>4. Distinct(Tail(q))
  BY <1>1 DEF Distinct
<1>5. Head(q) \in Linked(q)
  BY <1>1 DEF Linked
<1>6. QED
  BY <1>1, <1>2, <1>3, <1>4, <1>5

\* Unlinking removes one task, wherever it stands, and keeps the others distinct.
LEMMA UnlinkedLinked ==
    ASSUME NEW q \in Seq(Task), NEW t \in Task, Distinct(q)
    PROVE  /\ Unlinked(q, t) \in Seq(Task)
           /\ Distinct(Unlinked(q, t))
           /\ Linked(Unlinked(q, t)) = Linked(q) \ {t}
<1> USE DEF Distinct
<1>1. CASE \E i \in 1 .. Len(q) : q[i] = t
  <2> DEFINE k == CHOOSE i \in 1 .. Len(q) : q[i] = t
             r == [i \in 1 .. Len(q) - 1 |-> IF i < k THEN q[i] ELSE q[i + 1]]
  <2>1. k \in 1 .. Len(q) /\ q[k] = t /\ Len(q) \in Nat \ {0}
    BY <1>1
  <2>2. Unlinked(q, t) = r
    BY <1>1 DEF Unlinked
  <2> HIDE DEF k
  <2>3. r \in Seq(Task) /\ Len(r) = Len(q) - 1
    <3>1. \A i \in 1 .. Len(q) - 1 : r[i] \in Task
      BY <2>1
    <3>2. Len(q) - 1 \in Nat
      BY <2>1
    <3>3. QED
      BY <3>1, <3>2
  <2>4. \A i, j \in 1 .. Len(r) : r[i] = r[j] => i = j
    BY <2>1, <2>3
  <2>5. ASSUME NEW x \in Linked(q) \ {t} PROVE x \in Linked(r)
    <3>1. PICK i \in 1 .. Len(q) : x = q[i]
      BY <2>5 DEF Linked
    <3>2. CASE i < k
      <4>1. i \in 1 .. Len(r) /\ r[i] = x
        BY <3>1, <3>2, <2>1, <2>3
      <4>2. QED
        BY <4>1 DEF Linked
    <3>3. CASE i > k
      <4>1. i - 1 \in 1 .. Len(r) /\ r[i - 1] = x
        BY <3>1, <3>3, <2>1, <2>3
      <4>2. QED
        BY <4>1 DEF Linked
    <3>4. i # k
      BY <3>1, <2>1, <2>5
    <3>5. QED
      BY <3>2, <3>3, <3>4, <2>1
  <2>6. ASSUME NEW x \in Linked(r) PROVE x \in Linked(q) \ {t}
    <3>1. PICK i \in 1 .. Len(r) : x = r[i]
      BY <2>6 DEF Linked
    <3>2. PICK j \in 1 .. Len(q) : x = q[j] /\ j # k
      BY <3>1, <2>1, <2>3
    <3>3. QED
      BY <3>2, <2>1 DEF Linked
  <2>7. QED
    BY <2>2, <2>3, <2>4, <2>5, <2>6
<1>2. CASE ~ \E i \in 1 .. Len(q) : q[i] = t
  BY <1>2 DEF Unlinked, Linked
<1>3. QED
  BY <1>1, <1>2

\* A linked task is a task.
LEMMA LinkedAreTasks ==
    ASSUME NEW q \in Seq(Task) PROVE Linked(q) \subseteq Task
  BY DEF Linked

-----------------------------------------------------------------------------
(* The inductive invariant *)

LEMMA InitInvariant == Init => IInv
<1> SUFFICES ASSUME Init PROVE IInv
  OBVIOUS
<1> USE MaxNestAssumption, NoTaskAssumption DEF Init, FreeLock
<1>1. Linked(queue) = {} /\ Distinct(queue)
  BY DEF Linked, Distinct
<1>2. TypeOK
  BY DEF TypeOK, Inside, Asleep, CONDVAR_OK, CONDVAR_TIMEOUT
<1>3. ObjectsOwned /\ LinkedWait /\ PoppedWait /\ PendingWait /\ KindsStand /\ NoLostWakeup
  BY <1>1 DEF ObjectsOwned, HasObject, LinkedWait, PoppedWait, PendingWait, KindsStand, NoLostWakeup, SignalUnderWay, Waking
<1>4. WaitRestoresLock
  <2>1. \A t \in Task : pc[t] \notin Asleep /\ nest[t] = 0 /\ pc[t] = "out"
    BY DEF Asleep
  <2>2. \A t \in Task : LevelOf(t) = 0
    BY <2>1 DEF LevelOf
  <2>3. lock.owner \notin Task
    BY DEF FreeLock
  <2>4. ASSUME NEW t \in Task
        PROVE  ~(pc[t] # "out") /\ ~(lock.owner = t) /\ ~(LevelOf(t) > 0)
    BY <2>1, <2>2, <2>3
  <2>5. QED
    BY <2>4 DEF WaitRestoresLock
<1>5. FreeIsZero
  BY DEF FreeIsZero
<1>6. QED
  BY <1>2, <1>3, <1>4, <1>5 DEF IInv

-----------------------------------------------------------------------------
(* The lock *)

\* A task's level is a number, and only the owner's can be above zero.
LEMMA Levels ==
    ASSUME TypeOK, WaitRestoresLock, NEW t \in Task
    PROVE  LevelOf(t) \in 0 .. MaxNest
<1>1. nest[t] \in 0 .. MaxNest
  BY DEF TypeOK
<1>2. pc[t] \in Asleep => nest[t] > 0
  BY DEF WaitRestoresLock, Asleep
<1>3. QED
  BY <1>1, <1>2, MaxNestAssumption DEF LevelOf

\* Two tasks are never inside at once: inside, a task owns the record.
LEMMA OneInside ==
    ASSUME TypeOK, WaitRestoresLock, NEW t \in Task, pc[t] \in Inside
    PROVE  /\ lock.owner = t
           /\ \A u \in Task : u # t => pc[u] \notin Inside
  BY DEF TypeOK, WaitRestoresLock, LevelOf, Inside, Asleep

\* A step that leaves the record, the nesting and every level alone keeps the lock.
LEMMA SameLock ==
    ASSUME LockInv, UNCHANGED <<lock, nest>>,
           \A u \in Task : LevelOf(u)' = LevelOf(u) /\ (pc'[u] = "out" <=> pc[u] = "out")
    PROVE  WaitRestoresLock' /\ FreeIsZero'
  BY DEF LockInv, WaitRestoresLock, FreeIsZero

\* A step that takes one level for t, in the record and in t's level.
LEMMA TakeLock ==
    ASSUME LockInv, NEW t \in Task, Takes(t), LevelOf(t)' = LevelOf(t) + 1, LevelOf(t) < MaxNest,
           \A u \in Task : u # t => LevelOf(u)' = LevelOf(u) /\ (pc'[u] = "out" <=> pc[u] = "out"),
           \A u \in Task : u # t => nest'[u] = nest[u],
           nest'[t] > 0
    PROVE  /\ WaitRestoresLock' /\ FreeIsZero'
           /\ lock' \in [owner : Task \cup {NoTask}, count : 0 .. MaxNest]
<1> USE NoTaskAssumption, MaxNestAssumption DEF LockInv
<1>1. \A u \in Task : LevelOf(u) \in 0 .. MaxNest
  BY Levels
<1>2. lock.count = LevelOf(t)
  BY <1>1 DEF Takes, WaitRestoresLock, FreeIsZero, TypeOK
<1>3. lock' = [owner |-> t, count |-> LevelOf(t) + 1]
  BY <1>2 DEF Takes
<1>4. \A u \in Task : u # t => LevelOf(u) = 0
  BY <1>1 DEF Takes, WaitRestoresLock
<1>5. WaitRestoresLock'
  BY <1>1, <1>3, <1>4 DEF WaitRestoresLock
<1>6. QED
  BY <1>1, <1>3, <1>5 DEF FreeIsZero

\* A step that drops one level of t, in the record and in t's level.
LEMMA DropLock ==
    ASSUME LockInv, NEW t \in Task, Drops(t), LevelOf(t)' = LevelOf(t) - 1,
           \A u \in Task : u # t => LevelOf(u)' = LevelOf(u) /\ (pc'[u] = "out" <=> pc[u] = "out"),
           \A u \in Task : u # t => nest'[u] = nest[u],
           pc'[t] # "out" => nest'[t] > 0
    PROVE  /\ WaitRestoresLock' /\ FreeIsZero'
           /\ lock' \in [owner : Task \cup {NoTask}, count : 0 .. MaxNest]
<1> USE NoTaskAssumption, MaxNestAssumption DEF LockInv
<1>1. \A u \in Task : LevelOf(u) \in 0 .. MaxNest
  BY Levels
<1>2. lock.owner = t /\ lock.count = LevelOf(t) /\ LevelOf(t) > 0
  BY DEF Drops, WaitRestoresLock
<1>3. \A u \in Task : u # t => LevelOf(u) = 0
  BY <1>1, <1>2 DEF WaitRestoresLock
<1>4. CASE lock.count > 1
  <2>1. lock' = [owner |-> t, count |-> LevelOf(t) - 1]
    BY <1>2, <1>4 DEF Drops, TypeOK
  <2>2. QED
    BY <1>1, <1>2, <1>3, <1>4, <2>1 DEF WaitRestoresLock, FreeIsZero
<1>5. CASE ~ (lock.count > 1)
  <2>1. lock' = [owner |-> NoTask, count |-> 0] /\ LevelOf(t)' = 0
    BY <1>1, <1>2, <1>5 DEF Drops, FreeLock
  <2>2. QED
    BY <1>3, <2>1 DEF WaitRestoresLock, FreeIsZero
<1>6. QED
  BY <1>4, <1>5

-----------------------------------------------------------------------------
(* Every step *)

\* A step that keeps the signals and the wakers under way keeps every sleeper's.
LEMMA StillUnderWay ==
    ASSUME NoLostWakeup,
           \A v \in Task : pc'[v] = "sleep" /\ v \notin Linked(queue') =>
               /\ pc[v] = "sleep" /\ v \notin Linked(queue)
               /\ object'[v] = object[v]
               /\ object[v] \in latched => object'[v] \in latched',
           pending' = pending,
           \A u \in Task : pc[u] \in Waking => pc'[u] = pc[u] /\ popped'[u] = popped[u]
    PROVE  NoLostWakeup'
  BY DEF NoLostWakeup, SignalUnderWay

LEMMA StepInvariant ==
    ASSUME OneKindIfDeferred, IInv, [Next]_vars PROVE IInv'
<1> USE DEF IInv
<1>a. \A t \in Task : LevelOf(t) \in 0 .. MaxNest
  BY Levels
<1>b. \A t \in Task : pc[t] \in Inside => \A u \in Task : u # t => pc[u] \notin Inside
  BY OneInside
<1>c. LockInv
  BY DEF LockInv
<1>d. Linked(queue) \subseteq Task
  BY LinkedAreTasks DEF TypeOK
<1>1. ASSUME NEW t \in Task, Enter(t) PROVE IInv'
  <2> USE <1>1 DEF Enter, Goto, kernelObjects, waitState
  <2>1. /\ lock' \in [owner : Task \cup {NoTask}, count : 0 .. MaxNest]
        /\ WaitRestoresLock' /\ FreeIsZero'
    <3>1. LevelOf(t) = nest[t] /\ LevelOf(t)' = nest[t] + 1 /\ nest'[t] = nest[t] + 1
      BY DEF LevelOf, Asleep, TypeOK
    <3>2. \A u \in Task : u # t => LevelOf(u)' = LevelOf(u) /\ pc'[u] = pc[u] /\ nest'[u] = nest[u]
      BY DEF LevelOf, TypeOK
    <3>3. nest[t] \in 0 .. MaxNest
      BY DEF TypeOK
    <3>4. QED
      BY <1>c, <3>1, <3>2, <3>3, TakeLock
  <2>2. TypeOK'
    BY <2>1, MaxNestAssumption DEF TypeOK, Inside, Asleep
  <2>3. ObjectsOwned' /\ KindsStand'
    BY DEF ObjectsOwned, HasObject, KindsStand, TypeOK
  <2>q. Linked(queue)' = Linked(queue) /\ Distinct(queue)' = Distinct(queue)
    BY DEF Linked, Distinct
  <2>4. LinkedWait'
    BY <1>d, <2>q DEF LinkedWait, HasObject, TypeOK
  <2>5. PoppedWait'
    BY <1>d, <2>q DEF PoppedWait, HasObject, Waking, TypeOK
  <2>p. PendingWait'
    BY <1>d, <2>q, NoObjectAssumption, ModeAssumption
    DEF PendingWait, PoppedWait, LinkedWait, ObjectsOwned, HasObject, Waking, Inside, TypeOK
  <2>6. NoLostWakeup'
    <3>1. \A v \in Task : pc'[v] = "sleep" /\ v \notin Linked(queue') =>
              /\ pc[v] = "sleep" /\ v \notin Linked(queue)
              /\ object'[v] = object[v]
              /\ object[v] \in latched => object'[v] \in latched'
      BY <1>d, <2>q DEF LinkedWait, ObjectsOwned, HasObject, TypeOK, Inside
    <3>2. \A u \in Task : pc[u] \in Waking => pc'[u] = pc[u] /\ popped'[u] = popped[u]
      BY DEF TypeOK, Waking
    <3>3. QED
      BY <3>1, <3>2, StillUnderWay
  <2>7. QED
    BY <2>1, <2>2, <2>3, <2>4, <2>5, <2>p, <2>6
<1>2. ASSUME NEW t \in Task, Leave(t) PROVE IInv'
  <2> USE <1>2 DEF Leave, Goto, kernelObjects, waitState
  <2>q. Linked(queue)' = Linked(queue) /\ Distinct(queue)' = Distinct(queue)
    BY DEF Linked, Distinct
  <2>1. /\ lock' \in [owner : Task \cup {NoTask}, count : 0 .. MaxNest]
        /\ WaitRestoresLock' /\ FreeIsZero'
    <3>1. LevelOf(t) = nest[t] /\ LevelOf(t)' = nest[t] - 1 /\ nest'[t] = nest[t] - 1 /\ nest[t] > 0
      BY DEF LevelOf, Asleep, TypeOK, WaitRestoresLock
    <3>2. \A u \in Task : u # t => LevelOf(u)' = LevelOf(u) /\ pc'[u] = pc[u] /\ nest'[u] = nest[u]
      BY DEF LevelOf, TypeOK
    <3>3. nest[t] \in 0 .. MaxNest /\ (pc'[t] # "out" => nest'[t] > 0)
      BY <3>1 DEF TypeOK
    <3>4. QED
      BY <1>c, <3>1, <3>2, <3>3, DropLock
  <2>2. TypeOK'
    BY <2>1, MaxNestAssumption DEF TypeOK, WaitRestoresLock, Inside, Asleep, CONDVAR_OK, CONDVAR_TIMEOUT
  <2>3. ObjectsOwned' /\ KindsStand'
    BY DEF ObjectsOwned, HasObject, KindsStand, TypeOK
  <2>4. LinkedWait'
    BY <1>d, <2>q DEF LinkedWait, HasObject, ObjectsOwned, TypeOK, Inside
  <2>5. PoppedWait'
    BY <1>d, <2>q DEF PoppedWait, LinkedWait, HasObject, ObjectsOwned, Waking, TypeOK, Inside
  <2>p. PendingWait'
    BY <1>d, <2>q, NoObjectAssumption, ModeAssumption
    DEF PendingWait, PoppedWait, LinkedWait, ObjectsOwned, HasObject, Waking, Inside, TypeOK
  <2>6. NoLostWakeup'
    <3>1. \A v \in Task : pc'[v] = "sleep" /\ v \notin Linked(queue') =>
              /\ pc[v] = "sleep" /\ v \notin Linked(queue)
              /\ object'[v] = object[v]
              /\ object[v] \in latched => object'[v] \in latched'
      BY <1>d, <2>q DEF LinkedWait, ObjectsOwned, HasObject, TypeOK, Inside
    <3>2. \A u \in Task : pc[u] \in Waking => pc'[u] = pc[u] /\ popped'[u] = popped[u]
      BY DEF TypeOK, Waking
    <3>3. QED
      BY <3>1, <3>2, StillUnderWay
  <2>7. QED
    BY <2>1, <2>2, <2>3, <2>4, <2>5, <2>p, <2>6
<1>3. ASSUME NEW t \in Task, WaitZero(t) PROVE IInv'
  <2> USE <1>3 DEF WaitZero, Goto, kernelObjects, waitState
  <2>q. Linked(queue)' = Linked(queue) /\ Distinct(queue)' = Distinct(queue)
    BY DEF Linked, Distinct
  <2>1. WaitRestoresLock' /\ FreeIsZero'
    <3>1. \A u \in Task : LevelOf(u)' = LevelOf(u) /\ (pc'[u] = "out" <=> pc[u] = "out")
      BY DEF LevelOf, Asleep, TypeOK
    <3>2. QED
      BY <1>c, <3>1, SameLock
  <2>2. TypeOK'
    BY <2>1, MaxNestAssumption DEF TypeOK, Inside, Asleep, CONDVAR_OK, CONDVAR_TIMEOUT
  <2>3. ObjectsOwned' /\ KindsStand'
    BY DEF ObjectsOwned, HasObject, KindsStand, TypeOK
  <2>4. LinkedWait'
    BY <1>d, <2>q DEF LinkedWait, HasObject, ObjectsOwned, TypeOK, Inside
  <2>5. PoppedWait'
    BY <1>d, <2>q DEF PoppedWait, LinkedWait, HasObject, ObjectsOwned, Waking, TypeOK, Inside
  <2>p. PendingWait'
    BY <1>d, <2>q, NoObjectAssumption, ModeAssumption
    DEF PendingWait, PoppedWait, LinkedWait, ObjectsOwned, HasObject, Waking, Inside, TypeOK
  <2>6. NoLostWakeup'
    <3>1. \A v \in Task : pc'[v] = "sleep" /\ v \notin Linked(queue') =>
              /\ pc[v] = "sleep" /\ v \notin Linked(queue)
              /\ object'[v] = object[v]
              /\ object[v] \in latched => object'[v] \in latched'
      BY <1>d, <2>q DEF LinkedWait, ObjectsOwned, HasObject, TypeOK, Inside
    <3>2. \A u \in Task : pc[u] \in Waking => pc'[u] = pc[u] /\ popped'[u] = popped[u]
      BY DEF TypeOK, Waking
    <3>3. QED
      BY <3>1, <3>2, StillUnderWay
  <2>7. QED
    BY <2>1, <2>2, <2>3, <2>4, <2>5, <2>p, <2>6
<1>4. ASSUME NEW t \in Task, NEW k \in WaitKind, WaitEnqueue(t, k) PROVE IInv'
  <2> USE <1>4 DEF WaitEnqueue, Goto, kernelObjects, waitState
  <2>a. \A u \in Task : u # t => pc[u] \notin Inside
    BY <1>b DEF Inside
  <2>o. PICK o \in Object \ live : live' = live \cup {o} /\ object' = [object EXCEPT ![t] = o]
    OBVIOUS
  <2>q. queue' \in Seq(Task) /\ Distinct(queue') /\ Linked(queue') = Linked(queue) \cup {t}
    BY AppendLinked DEF LinkedWait, TypeOK
  <2>1. WaitRestoresLock' /\ FreeIsZero'
    <3>1. \A u \in Task : LevelOf(u)' = LevelOf(u) /\ (pc'[u] = "out" <=> pc[u] = "out")
      BY DEF LevelOf, Asleep, TypeOK
    <3>2. QED
      BY <1>c, <3>1, SameLock
  <2>2. TypeOK'
    BY <2>1, <2>o, <2>q, KindAssumption, MaxNestAssumption DEF TypeOK, Inside, Asleep, CONDVAR_OK, CONDVAR_TIMEOUT
  <2>3. ObjectsOwned' /\ KindsStand'
    BY <2>o, NoObjectAssumption, KindAssumption DEF ObjectsOwned, HasObject, KindsStand, TypeOK
  <2>4. LinkedWait'
    BY <1>d, <2>q, <2>o, <2>a, KindAssumption DEF LinkedWait, HasObject, ObjectsOwned, TypeOK, Inside
  <2>5. PoppedWait'
    BY <1>d, <2>q, <2>a DEF PoppedWait, LinkedWait, HasObject, ObjectsOwned, Waking, TypeOK, Inside
  \* An unbounded wait gets no id that is still in the table.
  <2>p. PendingWait'
    <3>1. object[t] = NoObject /\ NoObject \notin pending
      BY NoObjectAssumption DEF ObjectsOwned, HasObject, TypeOK
    <3>2. k = "forever" => o \notin pending
      BY NoObjectAssumption DEF PendingWait, ObjectsOwned, TypeOK
    <3>3. \A u \in Task : pc'[u] \notin Waking
      BY <2>a DEF Waking, Inside, TypeOK
    <3>4. ASSUME NEW v \in Task, kind'[v] = "forever", object'[v] \in pending
          PROVE  pc'[v] = "sleep" /\ v \notin Linked(queue') /\ object'[v] \notin latched
      <4>1. v # t
        BY <2>o, <3>2, <3>4 DEF TypeOK
      <4>2. kind[v] = "forever" /\ object[v] \in pending /\ object'[v] = object[v] /\ pc'[v] = pc[v]
        BY <2>o, <3>4, <4>1 DEF TypeOK
      <4>3. QED
        BY <2>q, <4>1, <4>2 DEF PendingWait
    <3>5. ASSUME "forever" \in WaitKind, NEW p \in pending
          PROVE  \E v \in Task : object'[v] = p
      <4>1. PICK v \in Task : object[v] = p
        BY <3>5 DEF PendingWait
      <4>2. object'[v] = p
        BY <2>o, <3>1, <4>1 DEF TypeOK
      <4>3. QED
        BY <4>2
    <3>6. pending' = pending /\ latched' = latched
      OBVIOUS
    <3>7. QED
      BY <3>3, <3>4, <3>5, <3>6 DEF PendingWait, Waking
  <2>6. NoLostWakeup'
    <3>1. \A v \in Task : pc'[v] = "sleep" /\ v \notin Linked(queue') =>
              /\ pc[v] = "sleep" /\ v \notin Linked(queue)
              /\ object'[v] = object[v]
              /\ object[v] \in latched => object'[v] \in latched'
      BY <1>d, <2>q, <2>a, <2>o DEF LinkedWait, ObjectsOwned, HasObject, TypeOK, Inside
    <3>2. \A u \in Task : pc[u] \in Waking => pc'[u] = pc[u] /\ popped'[u] = popped[u]
      BY DEF TypeOK, Waking
    <3>3. QED
      BY <3>1, <3>2, StillUnderWay
  <2>7. QED
    BY <2>1, <2>2, <2>3, <2>4, <2>5, <2>p, <2>6
<1>5. ASSUME NEW t \in Task, WaitDrop(t) PROVE IInv'
  <2> USE <1>5 DEF WaitDrop, Goto, kernelObjects, waitState
  <2>a. \A u \in Task : u # t => pc[u] \notin Inside
    BY <1>b DEF Inside
  <2>q. Linked(queue)' = Linked(queue) /\ Distinct(queue)' = Distinct(queue)
    BY DEF Linked, Distinct
  <2>1. /\ lock' \in [owner : Task \cup {NoTask}, count : 0 .. MaxNest]
        /\ WaitRestoresLock' /\ FreeIsZero'
    <3>1. LevelOf(t) = nest[t] /\ LevelOf(t)' = nest[t] - 1 /\ nest'[t] = nest[t] /\ nest[t] > 0
      BY DEF LevelOf, Asleep, TypeOK, WaitRestoresLock
    <3>2. \A u \in Task : u # t => LevelOf(u)' = LevelOf(u) /\ pc'[u] = pc[u] /\ nest'[u] = nest[u]
      BY DEF LevelOf, TypeOK
    <3>3. nest[t] \in 0 .. MaxNest /\ (pc'[t] # "out" => nest'[t] > 0)
      BY <3>1 DEF TypeOK
    <3>4. QED
      BY <1>c, <3>1, <3>2, <3>3, DropLock
  <2>2. TypeOK'
    BY <2>1, MaxNestAssumption DEF TypeOK, Inside, Asleep, CONDVAR_OK, CONDVAR_TIMEOUT
  <2>3. ObjectsOwned' /\ KindsStand'
    BY DEF ObjectsOwned, HasObject, KindsStand, TypeOK
  <2>4. LinkedWait'
    BY <1>d, <2>q DEF LinkedWait, HasObject, ObjectsOwned, TypeOK, Inside
  <2>5. PoppedWait'
    BY <1>d, <2>q, <2>a DEF PoppedWait, LinkedWait, HasObject, ObjectsOwned, Waking, TypeOK, Inside
  <2>p. PendingWait'
    BY <1>d, <2>q, <2>a, NoObjectAssumption, ModeAssumption
    DEF PendingWait, PoppedWait, LinkedWait, ObjectsOwned, HasObject, Waking, Inside, TypeOK
  <2>6. NoLostWakeup'
    <3>1. \A v \in Task : pc'[v] = "sleep" /\ v \notin Linked(queue') =>
              /\ pc[v] = "sleep" /\ v \notin Linked(queue)
              /\ object'[v] = object[v]
              /\ object[v] \in latched => object'[v] \in latched'
      BY <1>d, <2>q, <2>a DEF LinkedWait, ObjectsOwned, HasObject, TypeOK, Inside
    <3>2. \A u \in Task : pc[u] \in Waking => pc'[u] = pc[u] /\ popped'[u] = popped[u]
      BY DEF TypeOK, Waking
    <3>3. QED
      BY <3>1, <3>2, StillUnderWay
  <2>7. QED
    BY <2>1, <2>2, <2>3, <2>4, <2>5, <2>p, <2>6
<1>6. ASSUME NEW t \in Task, Woken(t) PROVE IInv'
  <2> USE <1>6 DEF Woken, Goto, kernelObjects, waitState
  <2>q. Linked(queue)' = Linked(queue) /\ Distinct(queue)' = Distinct(queue)
    BY DEF Linked, Distinct
  <2>1. WaitRestoresLock' /\ FreeIsZero'
    <3>1. \A u \in Task : LevelOf(u)' = LevelOf(u) /\ (pc'[u] = "out" <=> pc[u] = "out")
      BY DEF LevelOf, Asleep, TypeOK
    <3>2. QED
      BY <1>c, <3>1, SameLock
  <2>2. TypeOK'
    BY <2>1, MaxNestAssumption DEF TypeOK, Inside, Asleep, CONDVAR_OK, CONDVAR_TIMEOUT
  <2>3. ObjectsOwned' /\ KindsStand'
    BY DEF ObjectsOwned, HasObject, KindsStand, TypeOK
  <2>4. LinkedWait'
    BY <1>d, <2>q DEF LinkedWait, HasObject, ObjectsOwned, TypeOK, Inside
  <2>5. PoppedWait'
    BY <1>d, <2>q DEF PoppedWait, LinkedWait, HasObject, ObjectsOwned, Waking, TypeOK, Inside
  <2>p. PendingWait'
    BY <1>d, <2>q, NoObjectAssumption, ModeAssumption
    DEF PendingWait, PoppedWait, LinkedWait, ObjectsOwned, HasObject, Waking, Inside, TypeOK
  <2>6. NoLostWakeup'
    <3>1. \A v \in Task : pc'[v] = "sleep" /\ v \notin Linked(queue') =>
              /\ pc[v] = "sleep" /\ v \notin Linked(queue)
              /\ object'[v] = object[v]
              /\ object[v] \in latched => object'[v] \in latched'
      BY <1>d, <2>q, NoObjectAssumption DEF LinkedWait, ObjectsOwned, HasObject, TypeOK, Inside
    <3>2. \A u \in Task : pc[u] \in Waking => pc'[u] = pc[u] /\ popped'[u] = popped[u]
      BY DEF TypeOK, Waking
    <3>3. QED
      BY <3>1, <3>2, StillUnderWay
  <2>7. QED
    BY <2>1, <2>2, <2>3, <2>4, <2>5, <2>p, <2>6
<1>7. ASSUME NEW t \in Task, Expires(t) PROVE IInv'
  <2> USE <1>7 DEF Expires, Goto, kernelObjects, waitState
  <2>q. Linked(queue)' = Linked(queue) /\ Distinct(queue)' = Distinct(queue)
    BY DEF Linked, Distinct
  <2>1. WaitRestoresLock' /\ FreeIsZero'
    <3>1. \A u \in Task : LevelOf(u)' = LevelOf(u) /\ (pc'[u] = "out" <=> pc[u] = "out")
      BY DEF LevelOf, Asleep, TypeOK
    <3>2. QED
      BY <1>c, <3>1, SameLock
  <2>2. TypeOK'
    BY <2>1, MaxNestAssumption DEF TypeOK, Inside, Asleep, CONDVAR_OK, CONDVAR_TIMEOUT
  <2>3. ObjectsOwned' /\ KindsStand'
    BY DEF ObjectsOwned, HasObject, KindsStand, TypeOK
  <2>4. LinkedWait'
    BY <1>d, <2>q DEF LinkedWait, HasObject, ObjectsOwned, TypeOK, Inside
  <2>5. PoppedWait'
    BY <1>d, <2>q DEF PoppedWait, LinkedWait, HasObject, ObjectsOwned, Waking, TypeOK, Inside
  <2>p. PendingWait'
    BY <1>d, <2>q, NoObjectAssumption, ModeAssumption
    DEF PendingWait, PoppedWait, LinkedWait, ObjectsOwned, HasObject, Waking, Inside, TypeOK
  <2>6. NoLostWakeup'
    <3>1. \A v \in Task : pc'[v] = "sleep" /\ v \notin Linked(queue') =>
              /\ pc[v] = "sleep" /\ v \notin Linked(queue)
              /\ object'[v] = object[v]
              /\ object[v] \in latched => object'[v] \in latched'
      BY <1>d, <2>q DEF LinkedWait, ObjectsOwned, HasObject, TypeOK, Inside
    <3>2. \A u \in Task : pc[u] \in Waking => pc'[u] = pc[u] /\ popped'[u] = popped[u]
      BY DEF TypeOK, Waking
    <3>3. QED
      BY <3>1, <3>2, StillUnderWay
  <2>7. QED
    BY <2>1, <2>2, <2>3, <2>4, <2>5, <2>p, <2>6
<1>8. ASSUME NEW t \in Task, DeleteForever(t) PROVE IInv'
  <2> USE <1>8 DEF DeleteForever, Deletes, Goto, kernelObjects, waitState
  <2>q. Linked(queue)' = Linked(queue) /\ Distinct(queue)' = Distinct(queue)
    BY DEF Linked, Distinct
  <2>1. WaitRestoresLock' /\ FreeIsZero'
    <3>1. \A u \in Task : LevelOf(u)' = LevelOf(u) /\ (pc'[u] = "out" <=> pc[u] = "out")
      BY DEF LevelOf, Asleep, TypeOK
    <3>2. QED
      BY <1>c, <3>1, SameLock
  <2>2. TypeOK'
    BY <2>1, MaxNestAssumption DEF TypeOK, Inside, Asleep, CONDVAR_OK, CONDVAR_TIMEOUT
  <2>3. ObjectsOwned' /\ KindsStand'
    BY NoObjectAssumption DEF ObjectsOwned, HasObject, KindsStand, TypeOK
  <2>4. LinkedWait'
    BY <1>d, <2>q DEF LinkedWait, HasObject, ObjectsOwned, TypeOK, Inside
  <2>5. PoppedWait'
    BY <1>d, <2>q DEF PoppedWait, LinkedWait, HasObject, ObjectsOwned, Waking, TypeOK, Inside
  \* The object it deletes is not in the table any more: it has been signalled.
  <2>p. PendingWait'
    <3>1. object[t] \notin pending /\ NoObject \notin pending
      BY NoObjectAssumption DEF PendingWait, KindsStand, TypeOK
    <3>2. ASSUME NEW v \in Task, kind'[v] = "forever", object'[v] \in pending
          PROVE  /\ pc'[v] = "sleep" /\ v \notin Linked(queue') /\ object'[v] \notin latched'
                 /\ \A u \in Task : pc'[u] \in Waking => popped'[u] # v
      <4>1. v # t
        BY <3>1, <3>2 DEF TypeOK
      <4>2. kind[v] = "forever" /\ object[v] \in pending /\ object'[v] = object[v] /\ pc'[v] = pc[v]
        BY <3>2, <4>1 DEF TypeOK
      <4>3. QED
        BY <2>q, <4>2 DEF PendingWait, Waking, TypeOK
    <3>3. ASSUME "forever" \in WaitKind, NEW p \in pending
          PROVE  \E v \in Task : object'[v] = p
      <4>1. PICK v \in Task : object[v] = p
        BY <3>3 DEF PendingWait
      <4>2. object'[v] = p
        BY <3>1, <4>1 DEF TypeOK
      <4>3. QED
        BY <4>2
    <3>4. \A u \in Task : pc'[u] = "defer" => "deferred" \in WakeMode
      BY DEF PendingWait, TypeOK
    <3>5. pending' = pending
      OBVIOUS
    <3>6. QED
      BY <3>2, <3>3, <3>4, <3>5 DEF PendingWait
  <2>6. NoLostWakeup'
    <3>1. \A v \in Task : pc'[v] = "sleep" /\ v \notin Linked(queue') =>
              /\ pc[v] = "sleep" /\ v \notin Linked(queue)
              /\ object'[v] = object[v]
              /\ object[v] \in latched => object'[v] \in latched'
      BY <1>d, <2>q, NoObjectAssumption DEF LinkedWait, ObjectsOwned, HasObject, TypeOK, Inside
    <3>2. \A u \in Task : pc[u] \in Waking => pc'[u] = pc[u] /\ popped'[u] = popped[u]
      BY DEF TypeOK, Waking
    <3>3. QED
      BY <3>1, <3>2, StillUnderWay
  <2>7. QED
    BY <2>1, <2>2, <2>3, <2>4, <2>5, <2>p, <2>6
<1>9. ASSUME NEW t \in Task, Relock(t) PROVE IInv'
  <2> USE <1>9 DEF Relock, Goto, kernelObjects, waitState
  <2>a. \A u \in Task : pc[u] \notin Inside
    BY OneInside, NoTaskAssumption DEF Takes, Inside
  <2>q. Linked(queue)' = Linked(queue) /\ Distinct(queue)' = Distinct(queue)
    BY DEF Linked, Distinct
  <2>1. /\ lock' \in [owner : Task \cup {NoTask}, count : 0 .. MaxNest]
        /\ WaitRestoresLock' /\ FreeIsZero'
    <3>1. LevelOf(t) = nest[t] - 1 /\ LevelOf(t)' = nest[t] /\ nest'[t] = nest[t] /\ nest[t] > 0
      BY DEF LevelOf, Asleep, TypeOK, WaitRestoresLock
    <3>2. \A u \in Task : u # t => LevelOf(u)' = LevelOf(u) /\ pc'[u] = pc[u] /\ nest'[u] = nest[u]
      BY DEF LevelOf, TypeOK
    <3>3. nest[t] \in 0 .. MaxNest /\ (pc'[t] # "out" => nest'[t] > 0)
      BY <3>1 DEF TypeOK
    <3>4. LevelOf(t)' = LevelOf(t) + 1 /\ LevelOf(t) < MaxNest /\ nest'[t] > 0
      BY <3>1, <3>3, MaxNestAssumption
    <3>5. QED
      BY <1>c, <3>2, <3>4, TakeLock
  <2>2. TypeOK'
    BY <2>1, MaxNestAssumption DEF TypeOK, Inside, Asleep, CONDVAR_OK, CONDVAR_TIMEOUT
  <2>3. ObjectsOwned' /\ KindsStand'
    BY DEF ObjectsOwned, HasObject, KindsStand, TypeOK
  <2>4. LinkedWait'
    BY <1>d, <2>q DEF LinkedWait, HasObject, ObjectsOwned, TypeOK, Inside
  <2>5. PoppedWait'
    BY <1>d, <2>q, <2>a DEF PoppedWait, LinkedWait, HasObject, ObjectsOwned, Waking, TypeOK, Inside
  <2>p. PendingWait'
    BY <1>d, <2>q, <2>a, NoObjectAssumption, ModeAssumption
    DEF PendingWait, PoppedWait, LinkedWait, ObjectsOwned, HasObject, Waking, Inside, TypeOK
  <2>6. NoLostWakeup'
    <3>1. \A v \in Task : pc'[v] = "sleep" /\ v \notin Linked(queue') =>
              /\ pc[v] = "sleep" /\ v \notin Linked(queue)
              /\ object'[v] = object[v]
              /\ object[v] \in latched => object'[v] \in latched'
      BY <1>d, <2>q DEF LinkedWait, ObjectsOwned, HasObject, TypeOK, Inside
    <3>2. \A u \in Task : pc[u] \in Waking => pc'[u] = pc[u] /\ popped'[u] = popped[u]
      BY DEF TypeOK, Waking
    <3>3. QED
      BY <3>1, <3>2, StillUnderWay
  <2>7. QED
    BY <2>1, <2>2, <2>3, <2>4, <2>5, <2>p, <2>6
<1>10. ASSUME NEW t \in Task, Unlink(t) PROVE IInv'
  <2> USE <1>10 DEF Unlink, Deletes, Goto, kernelObjects, waitState
  <2>a. \A u \in Task : u # t => pc[u] \notin Inside
    BY <1>b DEF Inside
  <2>q. queue' \in Seq(Task) /\ Distinct(queue') /\ Linked(queue') = Linked(queue) \ {t}
    BY UnlinkedLinked DEF LinkedWait, TypeOK
  <2>1. WaitRestoresLock' /\ FreeIsZero'
    <3>1. \A u \in Task : LevelOf(u)' = LevelOf(u) /\ (pc'[u] = "out" <=> pc[u] = "out")
      BY DEF LevelOf, Asleep, TypeOK
    <3>2. QED
      BY <1>c, <3>1, SameLock
  <2>2. TypeOK'
    BY <2>1, <2>q, MaxNestAssumption DEF TypeOK, Inside, Asleep, CONDVAR_OK, CONDVAR_TIMEOUT
  <2>3. ObjectsOwned' /\ KindsStand'
    BY NoObjectAssumption DEF ObjectsOwned, HasObject, KindsStand, TypeOK
  <2>4. LinkedWait'
    BY <1>d, <2>q, <2>a DEF LinkedWait, HasObject, ObjectsOwned, TypeOK, Inside
  <2>5. PoppedWait'
    BY <1>d, <2>q, <2>a DEF PoppedWait, LinkedWait, HasObject, ObjectsOwned, Waking, TypeOK, Inside
  \* Its object may stay in the table, but then nobody waits without a limit.
  <2>p. PendingWait'
    <3>1. "forever" \notin WaitKind \/ pending = {}
      <4>1. kind[t] = "timed" /\ "timed" \in WaitKind
        BY DEF KindsStand, HasObject
      <4>2. QED
        BY <4>1, KindAssumption DEF OneKindIfDeferred, PendingWait
    <3>2. ASSUME NEW v \in Task, kind[v] = "forever", object[v] # NoObject
          PROVE  pending = {}
      BY <3>1, <3>2 DEF ObjectsOwned, KindsStand
    <3>3. ASSUME NEW v \in Task, kind'[v] = "forever", object'[v] \in pending
          PROVE  FALSE
      <4>1. object'[v] # NoObject
        BY <3>3, NoObjectAssumption DEF TypeOK
      <4>2. object[v] = object'[v] /\ kind[v] = "forever"
        BY <3>3, <4>1 DEF TypeOK
      <4>3. QED
        BY <3>2, <3>3, <4>1, <4>2
    <3>4. \A u \in Task : pc'[u] = "defer" => "deferred" \in WakeMode
      BY DEF PendingWait, TypeOK
    <3>5. pending' = pending
      OBVIOUS
    <3>6. QED
      BY <3>1, <3>3, <3>4, <3>5 DEF PendingWait
  <2>6. NoLostWakeup'
    <3>1. \A v \in Task : pc'[v] = "sleep" /\ v \notin Linked(queue') =>
              /\ pc[v] = "sleep" /\ v \notin Linked(queue)
              /\ object'[v] = object[v]
              /\ object[v] \in latched => object'[v] \in latched'
      BY <1>d, <2>q, <2>a, NoObjectAssumption DEF LinkedWait, ObjectsOwned, HasObject, TypeOK, Inside
    <3>2. \A u \in Task : pc[u] \in Waking => pc'[u] = pc[u] /\ popped'[u] = popped[u]
      BY DEF TypeOK, Waking
    <3>3. QED
      BY <3>1, <3>2, StillUnderWay
  <2>7. QED
    BY <2>1, <2>2, <2>3, <2>4, <2>5, <2>p, <2>6
<1>11. ASSUME NEW t \in Task, NEW mode \in WakeMode, Signal(t, mode) PROVE IInv'
  <2> USE <1>11 DEF Signal, Pops, Label, Goto, kernelObjects, waitState
  <2>a. \A u \in Task : u # t => pc[u] \notin Inside
    BY <1>b DEF Inside
  <2>q. /\ queue # <<>> => /\ Tail(queue) \in Seq(Task)
                           /\ Head(queue) \in Linked(queue)
                           /\ Distinct(Tail(queue))
                           /\ Linked(Tail(queue)) = Linked(queue) \ {Head(queue)}
    BY TailLinked DEF LinkedWait, TypeOK
  <2>h. queue # <<>> => /\ Head(queue) \in Task /\ Head(queue) # t
                        /\ pc[Head(queue)] \in {"sleep", "relock"}
    BY <1>d, <2>a, <2>q DEF LinkedWait, Inside
  <2>1. WaitRestoresLock' /\ FreeIsZero'
    <3>1. \A u \in Task : LevelOf(u)' = LevelOf(u) /\ (pc'[u] = "out" <=> pc[u] = "out")
      BY DEF LevelOf, Asleep, TypeOK
    <3>2. QED
      BY <1>c, <3>1, SameLock
  <2>2. TypeOK'
    BY <2>1, <2>q, <2>h, ModeAssumption, MaxNestAssumption DEF TypeOK, Inside, Asleep, CONDVAR_OK, CONDVAR_TIMEOUT
  <2>3. ObjectsOwned' /\ KindsStand'
    BY ModeAssumption DEF ObjectsOwned, HasObject, KindsStand, TypeOK
  <2>4. LinkedWait'
    BY <1>d, <2>q, <2>a, <2>h, ModeAssumption DEF LinkedWait, HasObject, ObjectsOwned, TypeOK, Inside
  <2>5. PoppedWait'
    BY <1>d, <2>q, <2>a, <2>h, ModeAssumption DEF PoppedWait, LinkedWait, HasObject, ObjectsOwned, Waking, TypeOK, Inside
  <2>p. PendingWait'
    <3>1. PICK h \in Task : h = Head(queue)
      BY <2>h
    <3>2. \A u \in Task : pc'[u] \in Waking => u = t
      BY <2>a DEF Waking, Inside, TypeOK
    <3>3. ASSUME NEW v \in Task, kind[v] = "forever", object[v] \in pending
          PROVE  /\ pc'[v] = "sleep" /\ object[v] \notin latched
                 /\ v \notin Linked(queue')
                 /\ \A u \in Task : pc'[u] \in Waking => popped'[u] # v
      <4>1. pc[v] = "sleep" /\ v \notin Linked(queue) /\ object[v] \notin latched
        BY <3>3 DEF PendingWait
      <4>2. v # h /\ popped'[t] = h /\ Linked(queue') = Linked(queue) \ {h}
        BY <2>q, <3>1, <4>1 DEF TypeOK
      <4>3. QED
        BY <3>2, <4>1, <4>2 DEF TypeOK
    <3>4. pc'[t] = "defer" => "deferred" \in WakeMode
      BY ModeAssumption DEF TypeOK
    <3>5. \A u \in Task : pc'[u] = "defer" => "deferred" \in WakeMode
      BY <3>2, <3>4 DEF Waking
    <3>6. UNCHANGED <<pending, object, kind, latched>>
      OBVIOUS
    <3>7. QED
      BY <3>3, <3>5, <3>6 DEF PendingWait
  <2>6. NoLostWakeup'
    <3> SUFFICES ASSUME NEW v \in Task, pc'[v] = "sleep", v \notin Linked(queue')
                 PROVE  SignalUnderWay(v)'
      BY DEF NoLostWakeup
    <3>1. pc[v] = "sleep" /\ v # t
      BY DEF TypeOK, Label
    <3>2. \A u \in Task : pc[u] \notin Waking
      BY <2>a DEF Waking, Inside
    <3>3. CASE v \in Linked(queue)
      <4>1. popped'[t] = v /\ pc'[t] \in Waking
        BY <2>q, <3>3, ModeAssumption DEF Label, TypeOK, Waking
      <4>2. QED
        BY <4>1 DEF SignalUnderWay
    <3>4. CASE v \notin Linked(queue)
      BY <3>1, <3>2, <3>4 DEF SignalUnderWay, NoLostWakeup
    <3>5. QED
      BY <3>3, <3>4
  <2>7. QED
    BY <2>1, <2>2, <2>3, <2>4, <2>5, <2>p, <2>6
<1>12. ASSUME NEW t \in Task, Wake(t) PROVE IInv'
  <2> USE <1>12 DEF Wake, Wakes, Goto, kernelObjects, waitState
  <2>a. \A u \in Task : u # t => pc[u] \notin Inside
    BY <1>b DEF Inside
  <2>q. Linked(queue)' = Linked(queue) /\ Distinct(queue)' = Distinct(queue)
    BY DEF Linked, Distinct
  <2>w. /\ popped[t] \in Task /\ popped[t] \notin Linked(queue) /\ object[popped[t]] \in live
        /\ HasObject(popped[t]) /\ object[popped[t]] # NoObject
    BY NoObjectAssumption DEF PoppedWait, ObjectsOwned, Waking, TypeOK
  <2>1. WaitRestoresLock' /\ FreeIsZero'
    <3>1. \A u \in Task : LevelOf(u)' = LevelOf(u) /\ (pc'[u] = "out" <=> pc[u] = "out")
      BY DEF LevelOf, Asleep, TypeOK
    <3>2. QED
      BY <1>c, <3>1, SameLock
  <2>2. TypeOK'
    BY <2>1, MaxNestAssumption DEF TypeOK, Inside, Asleep, CONDVAR_OK, CONDVAR_TIMEOUT
  <2>3. ObjectsOwned' /\ KindsStand'
    BY DEF ObjectsOwned, HasObject, KindsStand, TypeOK
  <2>4. LinkedWait'
    BY <1>d, <2>q, <2>w DEF LinkedWait, HasObject, ObjectsOwned, TypeOK, Inside
  <2>5. PoppedWait'
    BY <1>d, <2>q, <2>a DEF PoppedWait, LinkedWait, HasObject, ObjectsOwned, Waking, TypeOK, Inside
  <2>p. PendingWait'
    BY <1>d, <2>q, <2>a, <2>w, NoObjectAssumption, ModeAssumption
    DEF PendingWait, PoppedWait, LinkedWait, ObjectsOwned, HasObject, Waking, Inside, TypeOK
  <2>6. NoLostWakeup'
    <3> SUFFICES ASSUME NEW v \in Task, pc'[v] = "sleep", v \notin Linked(queue')
                 PROVE  SignalUnderWay(v)'
      BY DEF NoLostWakeup
    <3>1. pc[v] = "sleep" /\ v \notin Linked(queue) /\ v # t
      BY <2>q DEF TypeOK
    <3>2. \A u \in Task : pc[u] \in Waking => u = t
      BY <2>a DEF Waking, Inside
    <3>3. QED
      BY <3>1, <3>2, <2>w DEF SignalUnderWay, NoLostWakeup
  <2>7. QED
    BY <2>1, <2>2, <2>3, <2>4, <2>5, <2>p, <2>6
<1>13. ASSUME NEW t \in Task, BroadcastPop(t) PROVE IInv'
  <2> USE <1>13 DEF BroadcastPop, Pops, Goto, kernelObjects, waitState
  <2>a. \A u \in Task : u # t => pc[u] \notin Inside
    BY <1>b DEF Inside
  <2>q. /\ queue # <<>> => /\ Tail(queue) \in Seq(Task)
                           /\ Head(queue) \in Linked(queue)
                           /\ Distinct(Tail(queue))
                           /\ Linked(Tail(queue)) = Linked(queue) \ {Head(queue)}
    BY TailLinked DEF LinkedWait, TypeOK
  <2>h. queue # <<>> => /\ Head(queue) \in Task /\ Head(queue) # t
                        /\ pc[Head(queue)] \in {"sleep", "relock"}
    BY <1>d, <2>a, <2>q DEF LinkedWait, Inside
  <2>1. WaitRestoresLock' /\ FreeIsZero'
    <3>1. \A u \in Task : LevelOf(u)' = LevelOf(u) /\ (pc'[u] = "out" <=> pc[u] = "out")
      BY DEF LevelOf, Asleep, TypeOK
    <3>2. QED
      BY <1>c, <3>1, SameLock
  <2>2. TypeOK'
    <3>1. CASE queue = <<>>
      BY <2>1, <3>1 DEF TypeOK, Inside
    <3>2. CASE queue # <<>>
      <4>1. /\ queue' = Tail(queue) /\ popped' = [popped EXCEPT ![t] = Head(queue)]
            /\ pc' = [pc EXCEPT ![t] = "bwake"]
        BY <3>2
      <4>2. QED
        BY <2>1, <2>q, <2>h, <3>2, <4>1 DEF TypeOK, Inside
    <3>3. QED
      BY <3>1, <3>2
  <2>3. ObjectsOwned' /\ KindsStand'
    BY DEF ObjectsOwned, HasObject, KindsStand, TypeOK
  <2>4. LinkedWait'
    <3>1. \A v \in Task : v # t => pc'[v] = pc[v] /\ HasObject(v)' = HasObject(v)
      BY DEF HasObject, TypeOK
    <3>2. \A v \in Task : pc'[v] # "drop" \/ v # t
      BY DEF TypeOK
    <3>3. t \notin Linked(queue)
      BY DEF LinkedWait
    <3>4. Distinct(queue') /\ Linked(queue') \subseteq Linked(queue)
      BY <2>q, <2>h DEF LinkedWait
    <3>5. \A v \in Task : pc'[v] # "drop"
      BY <2>a, <3>1, <3>2 DEF Inside
    <3>6. QED
      BY <1>d, <3>1, <3>3, <3>4, <3>5 DEF LinkedWait
  <2>5. PoppedWait'
    <3>1. \A u \in Task : pc'[u] \in Waking => u = t /\ queue # <<>>
      BY <2>a DEF Waking, Inside, TypeOK
    <3>2. CASE queue # <<>>
      <4>1. queue' = Tail(queue) /\ popped' = [popped EXCEPT ![t] = Head(queue)]
        BY <3>2
      <4>2. PICK h \in Task : h = Head(queue)
        BY <2>h, <3>2
      <4>3. popped'[t] = h
        BY <4>1, <4>2 DEF TypeOK
      <4>4. h \notin Linked(queue') /\ pc'[h] = pc[h] /\ pc'[h] \in {"sleep", "relock"}
        BY <2>q, <2>h, <3>2, <4>1, <4>2 DEF TypeOK
      <4>5. HasObject(h)' /\ (kind'[h] = "forever" => object'[h] \notin latched')
        BY <2>q, <3>2, <4>2, <4>4 DEF LinkedWait, HasObject
      <4>6. QED
        BY <3>1, <4>3, <4>4, <4>5 DEF PoppedWait
    <3>3. QED
      BY <3>1, <3>2 DEF PoppedWait
  <2>p. PendingWait'
    <3>2. \A u \in Task : pc'[u] \in Waking => u = t /\ queue # <<>> /\ pc'[u] = "bwake"
      BY <2>a DEF Waking, Inside, TypeOK
    <3>3. ASSUME NEW v \in Task, kind[v] = "forever", object[v] \in pending
          PROVE  /\ pc'[v] = "sleep" /\ object[v] \notin latched
                 /\ v \notin Linked(queue')
                 /\ \A u \in Task : pc'[u] \in Waking => popped'[u] # v
      <4>1. pc[v] = "sleep" /\ v \notin Linked(queue) /\ object[v] \notin latched
        BY <3>3 DEF PendingWait
      <4>2. pc'[v] = "sleep"
        BY <4>1 DEF TypeOK
      <4>3. v \notin Linked(queue')
        BY <2>q, <4>1
      <4>4. queue # <<>> => popped'[t] # v
        BY <2>q, <2>h, <4>1 DEF TypeOK
      <4>5. QED
        BY <3>2, <4>1, <4>2, <4>3, <4>4
    <3>4. \A u \in Task : pc'[u] # "defer"
      BY <3>2 DEF Waking
    <3>5. UNCHANGED <<pending, object, kind, latched>>
      OBVIOUS
    <3>6. QED
      BY <3>3, <3>4, <3>5 DEF PendingWait
  <2>6. NoLostWakeup'
    <3> SUFFICES ASSUME NEW v \in Task, pc'[v] = "sleep", v \notin Linked(queue')
                 PROVE  SignalUnderWay(v)'
      BY DEF NoLostWakeup
    <3>1. pc[v] = "sleep" /\ v # t
      BY DEF TypeOK, Label
    <3>2. \A u \in Task : pc[u] \notin Waking
      BY <2>a DEF Waking, Inside
    <3>3. CASE v \in Linked(queue)
      <4>1. popped'[t] = v /\ pc'[t] \in Waking
        BY <2>q, <3>3, ModeAssumption DEF Label, TypeOK, Waking
      <4>2. QED
        BY <4>1 DEF SignalUnderWay
    <3>4. CASE v \notin Linked(queue)
      BY <3>1, <3>2, <3>4 DEF SignalUnderWay, NoLostWakeup
    <3>5. QED
      BY <3>3, <3>4
  <2>7. QED
    BY <2>1, <2>2, <2>3, <2>4, <2>5, <2>p, <2>6
<1>14. ASSUME NEW t \in Task, BroadcastWake(t) PROVE IInv'
  <2> USE <1>14 DEF BroadcastWake, Wakes, Goto, kernelObjects, waitState
  <2>a. \A u \in Task : u # t => pc[u] \notin Inside
    BY <1>b DEF Inside
  <2>q. Linked(queue)' = Linked(queue) /\ Distinct(queue)' = Distinct(queue)
    BY DEF Linked, Distinct
  <2>w. /\ popped[t] \in Task /\ popped[t] \notin Linked(queue) /\ object[popped[t]] \in live
        /\ HasObject(popped[t]) /\ object[popped[t]] # NoObject
    BY NoObjectAssumption DEF PoppedWait, ObjectsOwned, Waking, TypeOK
  <2>1. WaitRestoresLock' /\ FreeIsZero'
    <3>1. \A u \in Task : LevelOf(u)' = LevelOf(u) /\ (pc'[u] = "out" <=> pc[u] = "out")
      BY DEF LevelOf, Asleep, TypeOK
    <3>2. QED
      BY <1>c, <3>1, SameLock
  <2>2. TypeOK'
    BY <2>1, MaxNestAssumption DEF TypeOK, Inside, Asleep, CONDVAR_OK, CONDVAR_TIMEOUT
  <2>3. ObjectsOwned' /\ KindsStand'
    BY DEF ObjectsOwned, HasObject, KindsStand, TypeOK
  <2>4. LinkedWait'
    BY <1>d, <2>q, <2>w DEF LinkedWait, HasObject, ObjectsOwned, TypeOK, Inside
  <2>5. PoppedWait'
    BY <1>d, <2>q, <2>a DEF PoppedWait, LinkedWait, HasObject, ObjectsOwned, Waking, TypeOK, Inside
  <2>p. PendingWait'
    BY <1>d, <2>q, <2>a, <2>w, NoObjectAssumption, ModeAssumption
    DEF PendingWait, PoppedWait, LinkedWait, ObjectsOwned, HasObject, Waking, Inside, TypeOK
  <2>6. NoLostWakeup'
    <3> SUFFICES ASSUME NEW v \in Task, pc'[v] = "sleep", v \notin Linked(queue')
                 PROVE  SignalUnderWay(v)'
      BY DEF NoLostWakeup
    <3>1. pc[v] = "sleep" /\ v \notin Linked(queue) /\ v # t
      BY <2>q DEF TypeOK
    <3>2. \A u \in Task : pc[u] \in Waking => u = t
      BY <2>a DEF Waking, Inside
    <3>3. QED
      BY <3>1, <3>2, <2>w DEF SignalUnderWay, NoLostWakeup
  <2>7. QED
    BY <2>1, <2>2, <2>3, <2>4, <2>5, <2>p, <2>6
<1>15. ASSUME NEW t \in Task, Defer(t) PROVE IInv'
  <2> USE <1>15 DEF Defer, Goto, kernelObjects, waitState
  <2>a. \A u \in Task : u # t => pc[u] \notin Inside
    BY <1>b DEF Inside
  <2>q. Linked(queue)' = Linked(queue) /\ Distinct(queue)' = Distinct(queue)
    BY DEF Linked, Distinct
  <2>w. PICK h \in Task : h = popped[t]
    BY DEF PoppedWait, Waking
  <2>k. /\ h \notin Linked(queue) /\ HasObject(h) /\ "deferred" \in WakeMode
        /\ kind[h] = "forever" => pc[h] = "sleep" /\ object[h] \notin latched
    BY <2>w DEF PoppedWait, PendingWait, HasObject, Waking
  <2>o. object[h] \in live /\ object[h] # NoObject /\ pending' = pending \cup {object[h]}
    BY <2>w, <2>k, NoObjectAssumption DEF ObjectsOwned, TypeOK
  <2>1. WaitRestoresLock' /\ FreeIsZero'
    <3>1. \A u \in Task : LevelOf(u)' = LevelOf(u) /\ (pc'[u] = "out" <=> pc[u] = "out")
      BY DEF LevelOf, Asleep, TypeOK
    <3>2. QED
      BY <1>c, <3>1, SameLock
  <2>2. TypeOK'
    BY <2>1, <2>o DEF TypeOK, Inside
  <2>3. ObjectsOwned' /\ KindsStand'
    BY DEF ObjectsOwned, HasObject, KindsStand, TypeOK
  <2>4. LinkedWait'
    BY <1>d, <2>q DEF LinkedWait, HasObject, TypeOK
  <2>5. PoppedWait'
    BY <2>q, <2>a DEF PoppedWait, HasObject, Waking, TypeOK, Inside
  <2>p. PendingWait'
    <3>1. \A u \in Task : pc'[u] \notin Waking
      BY <2>a DEF Waking, Inside, TypeOK
    <3>2. ASSUME NEW v \in Task, kind[v] = "forever", object[v] \in pending'
          PROVE  /\ pc'[v] = "sleep"
                 /\ v \notin Linked(queue) /\ object[v] \notin latched
      <4>1. CASE object[v] = object[h]
        <5>1. v = h
          BY <2>o, <4>1 DEF ObjectsOwned
        <5>2. QED
          BY <2>k, <3>2, <5>1 DEF TypeOK
      <4>2. CASE object[v] # object[h]
        BY <2>o, <3>2, <4>2 DEF PendingWait, TypeOK
      <4>3. QED
        BY <4>1, <4>2
    <3>3. "forever" \in WaitKind => \A o \in pending' : \E v \in Task : object[v] = o
      BY <2>o DEF PendingWait
    <3>4. QED
      BY <2>q, <2>k, <3>1, <3>2, <3>3 DEF PendingWait, Waking
  <2>6. NoLostWakeup'
    <3> SUFFICES ASSUME NEW v \in Task, pc'[v] = "sleep", v \notin Linked(queue')
                 PROVE  SignalUnderWay(v)'
      BY DEF NoLostWakeup
    <3>1. pc[v] = "sleep" /\ v \notin Linked(queue) /\ v # t
      BY <2>q DEF TypeOK
    <3>2. \A u \in Task : pc[u] \in Waking => u = t
      BY <2>a DEF Waking, Inside
    <3>3. QED
      BY <3>1, <3>2, <2>w, <2>o DEF SignalUnderWay, NoLostWakeup
  <2>7. QED
    BY <2>1, <2>2, <2>3, <2>4, <2>5, <2>p, <2>6
<1>16. ASSUME NEW o \in Object, KernelDrain(o) PROVE IInv'
  <2> USE <1>16 DEF KernelDrain, Wakes, waitState
  <2>q. Linked(queue)' = Linked(queue) /\ Distinct(queue)' = Distinct(queue)
    BY DEF Linked, Distinct
  <2>k. /\ o # NoObject
        /\ \A v \in Task : object[v] = o => o \in live
    BY NoObjectAssumption DEF ObjectsOwned
  \* Of the unbounded waits only a popped sleeper can be meant.
  <2>s. \A v \in Task : kind[v] = "forever" /\ object[v] = o =>
            /\ v \notin Linked(queue)
            /\ \A u \in Task : pc[u] \in Waking => popped[u] # v
    BY DEF PendingWait
  <2>1. WaitRestoresLock' /\ FreeIsZero'
    <3>1. \A u \in Task : LevelOf(u)' = LevelOf(u) /\ (pc'[u] = "out" <=> pc[u] = "out")
      BY DEF LevelOf
    <3>2. QED
      BY <1>c, <3>1, SameLock
  <2>2. TypeOK'
    BY <2>1, <2>k DEF TypeOK
  <2>3. ObjectsOwned' /\ KindsStand'
    BY DEF ObjectsOwned, HasObject, KindsStand
  <2>4. LinkedWait'
    BY <1>d, <2>q, <2>s DEF LinkedWait, HasObject
  <2>5. PoppedWait'
    BY <2>q, <2>s DEF PoppedWait, HasObject
  <2>p. PendingWait'
    BY <2>q DEF PendingWait
  <2>6. NoLostWakeup'
    BY <2>q, <2>k DEF NoLostWakeup, SignalUnderWay
  <2>7. QED
    BY <2>1, <2>2, <2>3, <2>4, <2>5, <2>p, <2>6
<1>17. ASSUME UNCHANGED vars PROVE IInv'
  <2> USE <1>17 DEF vars
  <2>1. TypeOK' /\ KindsStand' /\ ObjectsOwned'
    BY DEF TypeOK, KindsStand, ObjectsOwned, HasObject
  <2>2. WaitRestoresLock' /\ FreeIsZero'
    BY DEF WaitRestoresLock, FreeIsZero, LevelOf
  <2>q. Linked(queue)' = Linked(queue) /\ Distinct(queue)' = Distinct(queue)
    BY DEF Linked, Distinct
  <2>3. LinkedWait' /\ PoppedWait' /\ PendingWait'
    BY <2>q DEF LinkedWait, PoppedWait, PendingWait, HasObject
  <2>4. NoLostWakeup'
    BY <2>q DEF NoLostWakeup, SignalUnderWay
  <2>5. QED
    BY <2>1, <2>2, <2>3, <2>4
<1>18. QED
  BY <1>1, <1>2, <1>3, <1>4, <1>5, <1>6, <1>7, <1>8, <1>9, <1>10, <1>11, <1>12, <1>13,
     <1>14, <1>15, <1>16, <1>17
  DEF Next, Waits, Wakers

-----------------------------------------------------------------------------
(* The theorems *)

LEMMA Invariant == ASSUME OneKindIfDeferred PROVE Spec => []IInv
<1>1. IInv /\ [Next]_vars => IInv'
  BY StepInvariant
<1>2. QED
  BY InitInvariant, <1>1, PTL DEF Spec

\* condvar.rs: every variable keeps its type.
THEOREM TypeCorrect == ASSUME OneKindIfDeferred PROVE Spec => []TypeOK
  BY Invariant, PTL DEF IInv

\* A wait comes back with the lock nested as deep as when it was called.
THEOREM LockRestored == ASSUME OneKindIfDeferred PROVE Spec => []WaitRestoresLock
  BY Invariant, PTL DEF IInv

\* No stack node is linked once its wait has ended.
THEOREM NoDeadNode == ASSUME OneKindIfDeferred PROVE Spec => []NoDeadNodeLinked
<1>1. IInv => NoDeadNodeLinked
  BY LinkedAreTasks DEF IInv, LinkedWait, Distinct, ObjectsOwned, NoDeadNodeLinked, TypeOK
<1>2. QED
  BY Invariant, <1>1, PTL

\* A waker's handle always names an object that exists.
THEOREM WakeIsLive == ASSUME OneKindIfDeferred PROVE Spec => []WakeHitsLiveObject
<1>1. IInv => WakeHitsLiveObject
  BY DEF IInv, PoppedWait, ObjectsOwned, WakeHitsLiveObject
<1>2. QED
  BY Invariant, <1>1, PTL

\* A sleeper off the queue is signalled or about to be.
THEOREM NoWakeupLost == ASSUME OneKindIfDeferred PROVE Spec => []NoLostWakeup
  BY Invariant, PTL DEF IInv

\* An unbounded wait never comes back with its node still linked.
THEOREM SleepOutlasts == ASSUME OneKindIfDeferred PROVE Spec => []SleepOutlastsPop
<1>1. IInv => SleepOutlastsPop
  BY DEF IInv, LinkedWait, HasObject, SleepOutlastsPop
<1>2. QED
  BY Invariant, <1>1, PTL

\* The condition variable is a monitor: every step of its code is one step of
\* the abstract specification or leaves the abstract state alone.  An unbounded
\* wait, in particular, returns only after a holder of the lock popped its node.
THEOREM Refinement == ASSUME OneKindIfDeferred PROVE Spec => ImplementsMonitor
<1> USE NoTaskAssumption, MaxNestAssumption
<1>1. Init => AbstractMonitor!MonitorInit
  <2> SUFFICES ASSUME Init PROVE AbstractMonitor!MonitorInit
    OBVIOUS
  <2>1. WaitingTasks = {}
    BY DEF Init, WaitingTasks, Asleep
  <2>2. \A t \in Task : LevelOf(t) = 0
    BY DEF Init, LevelOf, Asleep
  <2>3. lock.owner = NoTask
    BY DEF Init, FreeLock
  <2>4. QED
    BY <2>1, <2>2, <2>3 DEF AbstractMonitor!MonitorInit
<1>2. ASSUME IInv, [Next]_vars
      PROVE  [AbstractMonitor!MonitorNext]_(AbstractMonitor!monitorVars)
  <2> DEFINE holds == [t \in Task |-> LevelOf(t)]
             patient == {t \in WaitingTasks : kind[t] = "forever"}
             notified == WaitingTasks \ Linked(queue)
  <2> USE <1>2 DEF IInv
  <2>a. \A t \in Task : LevelOf(t) \in 0 .. MaxNest
    BY Levels
  <2>b. Linked(queue) \subseteq Task
    BY LinkedAreTasks DEF TypeOK
  <2>c. \A t \in Task : pc[t] \in Inside => lock.owner = t
    BY OneInside
  \* Steps that neither take nor drop the lock keep every level.
  <2>k. ASSUME UNCHANGED <<lock, nest>>,
               \A t \in Task : pc'[t] \in Asleep <=> pc[t] \in Asleep
        PROVE  lock.owner' = lock.owner /\ holds' = holds /\ WaitingTasks' = WaitingTasks
    BY <2>k DEF LevelOf, WaitingTasks
  <2>1. ASSUME NEW t \in Task, Enter(t) PROVE AbstractMonitor!Enter(t)
    <3> USE <2>1 DEF Enter, Goto, waitState
    <3>1. WaitingTasks' = WaitingTasks /\ t \notin WaitingTasks
      BY DEF WaitingTasks, Asleep, TypeOK
    <3>2. LevelOf(t) = nest[t] /\ nest[t] < MaxNest
      BY DEF LevelOf, Asleep
    <3>3. holds' = [holds EXCEPT ![t] = @ + 1]
      BY DEF LevelOf, Asleep, TypeOK
    <3>4. lock.owner \in {NoTask, t} /\ lock'.owner = t
      BY DEF Takes
    <3>5. patient' = patient /\ notified' = notified
      BY <3>1 DEF Linked
    <3>6. QED
      BY <3>1, <3>2, <3>3, <3>4, <3>5 DEF AbstractMonitor!Enter
  <2>2. ASSUME NEW t \in Task, Leave(t) PROVE AbstractMonitor!Leave(t)
    <3> USE <2>2 DEF Leave, Goto, waitState
    <3>1. WaitingTasks' = WaitingTasks /\ t \notin WaitingTasks
      BY DEF WaitingTasks, Asleep, TypeOK
    <3>2. holds' = [holds EXCEPT ![t] = @ - 1]
      BY DEF LevelOf, Asleep, TypeOK
    <3>3. lock.owner = t /\ lock'.owner = IF holds[t] = 1 THEN NoTask ELSE t
      <4>1. lock.owner = t /\ lock.count = holds[t] /\ holds[t] \in 0 .. MaxNest
        BY <2>a DEF Drops, WaitRestoresLock
      <4>2. holds[t] > 0
        BY <4>1 DEF WaitRestoresLock
      <4>3. QED
        BY <4>1, <4>2 DEF Drops, FreeLock, TypeOK
    <3>4. patient' = patient /\ notified' = notified
      BY <3>1 DEF Linked
    <3>5. QED
      BY <3>1, <3>2, <3>3, <3>4 DEF AbstractMonitor!Leave, AbstractMonitor!HolderAfterDrop
  <2>3. ASSUME NEW t \in Task, WaitDrop(t) PROVE AbstractMonitor!Wait(t)
    <3> USE <2>3 DEF WaitDrop, Goto, waitState
    <3>1. WaitingTasks' = WaitingTasks \cup {t} /\ t \notin WaitingTasks
      BY DEF WaitingTasks, Asleep, TypeOK
    <3>2. holds' = [holds EXCEPT ![t] = @ - 1]
      BY DEF LevelOf, Asleep, TypeOK
    <3>3. lock.owner = t /\ lock'.owner = IF holds[t] = 1 THEN NoTask ELSE t
      <4>1. lock.owner = t /\ lock.count = holds[t] /\ holds[t] \in 0 .. MaxNest
        BY <2>a DEF Drops, WaitRestoresLock
      <4>2. holds[t] > 0
        BY <4>1 DEF WaitRestoresLock
      <4>3. QED
        BY <4>1, <4>2 DEF Drops, FreeLock, TypeOK
    <3>4. patient' \in {patient, patient \cup {t}}
      <4>1. CASE kind[t] = "forever"
        BY <3>1, <4>1
      <4>2. CASE kind[t] # "forever"
        BY <3>1, <4>2
      <4>3. QED
        BY <4>1, <4>2
    <3>5. notified' = notified
      BY <3>1 DEF Linked, LinkedWait
    <3>6. QED
      BY <3>1, <3>2, <3>3, <3>4, <3>5 DEF AbstractMonitor!Wait, AbstractMonitor!HolderAfterDrop
  <2>4. ASSUME NEW t \in Task, Relock(t) PROVE AbstractMonitor!Return(t)
    <3> USE <2>4 DEF Relock, Goto, waitState
    <3>1. WaitingTasks' = WaitingTasks \ {t} /\ t \in WaitingTasks
      BY DEF WaitingTasks, Asleep, TypeOK
    <3>2. holds' = [holds EXCEPT ![t] = @ + 1]
      <4>1. LevelOf(t)' = nest[t] /\ LevelOf(t) = nest[t] - 1 /\ nest[t] \in Nat
        BY DEF LevelOf, Asleep, TypeOK
      <4>2. \A u \in Task : u # t => LevelOf(u)' = LevelOf(u)
        BY DEF LevelOf, TypeOK
      <4>3. LevelOf(t)' = LevelOf(t) + 1
        BY <4>1
      <4>4. QED
        BY <4>2, <4>3
    <3>3. lock.owner \in {NoTask, t} /\ lock'.owner = t
      BY DEF Takes
    <3>4. t \in patient => t \in notified
      BY <3>1 DEF LinkedWait, HasObject
    <3>5. patient' = patient \ {t} /\ notified' = notified \ {t}
      BY <3>1 DEF Linked
    <3>6. QED
      BY <3>1, <3>2, <3>3, <3>4, <3>5 DEF AbstractMonitor!Return
  \* A pop notifies the task at the head of the queue.
  <2>5. ASSUME NEW t \in Task, pc[t] \in {"in", "bcast"}, queue # <<>>, Pops(t),
               UNCHANGED <<lock, nest, kind>>,
               NEW l \in {"wake", "defer", "bwake"}, pc' = [pc EXCEPT ![t] = l]
        PROVE  \E u \in Task : AbstractMonitor!Notify(t, u)
    <3> USE <2>5
    <3>1. PICK h \in Task : h = Head(queue)
      BY DEF TypeOK
    <3>2. h \in Linked(queue) /\ Linked(Tail(queue)) = Linked(queue) \ {h}
      BY <3>1, TailLinked DEF LinkedWait, TypeOK
    <3>3. queue' = Tail(queue)
      BY DEF Pops
    <3>4. Linked(queue') = Linked(queue) \ {h}
      BY <3>2, <3>3
    <3>5. lock.owner' = lock.owner /\ holds' = holds /\ WaitingTasks' = WaitingTasks
      BY <2>k DEF TypeOK, Asleep
    <3>6. lock.owner = t /\ t \notin WaitingTasks
      BY <2>c DEF Inside, Asleep, WaitingTasks
    <3>7. h \in WaitingTasks
      <4>1. pc[h] \in {"drop", "sleep", "relock", "unlink"}
        BY <3>2 DEF LinkedWait
      <4>2. h # t
        BY <4>1
      <4>3. pc[h] \notin Inside
        BY <2>c, <3>6, <4>2
      <4>4. QED
        BY <4>1, <4>3 DEF Inside, Asleep, WaitingTasks
    <3>8. notified' = notified \cup {h}
      BY <3>2, <3>4, <3>5, <3>7
    <3>9. patient' = patient
      BY <3>5
    <3>10. h \in WaitingTasks \ notified
      BY <3>2, <3>7
    <3>11. QED
      BY <3>5, <3>6, <3>8, <3>9, <3>10 DEF AbstractMonitor!Notify
  <2>6. ASSUME NEW t \in Task, NEW mode \in WakeMode, Signal(t, mode)
        PROVE  \E u \in Task : AbstractMonitor!Notify(t, u)
    BY <1>2, <2>5, <2>6 DEF Signal, Label, Goto
  <2>7. ASSUME NEW t \in Task, BroadcastPop(t), queue # <<>>
        PROVE  \E u \in Task : AbstractMonitor!Notify(t, u)
    BY <2>5, <2>7 DEF BroadcastPop, Goto
  \* The other steps: the queue stands, or changes at tasks that do not wait.
  <2>8. ASSUME UNCHANGED <<lock, nest>>,
               \A t \in Task : pc'[t] \in Asleep <=> pc[t] \in Asleep,
               \A t \in WaitingTasks : /\ kind'[t] = kind[t]
                                       /\ t \in Linked(queue') <=> t \in Linked(queue)
        PROVE  UNCHANGED AbstractMonitor!monitorVars
    <3>1. lock.owner' = lock.owner /\ holds' = holds /\ WaitingTasks' = WaitingTasks
      BY <2>k, <2>8
    <3>2. patient' = patient /\ notified' = notified
      BY <2>8, <3>1
    <3>3. QED
      BY <3>1, <3>2 DEF AbstractMonitor!monitorVars
  <2>9. ASSUME NEW t \in Task, NEW k \in WaitKind, WaitEnqueue(t, k)
        PROVE  UNCHANGED AbstractMonitor!monitorVars
    <3> USE <2>9 DEF WaitEnqueue, Goto
    <3>1. t \notin Linked(queue) /\ t \notin WaitingTasks
      BY DEF LinkedWait, WaitingTasks, Asleep
    <3>2. Linked(queue') = Linked(queue) \cup {t}
      BY <3>1, AppendLinked DEF LinkedWait, TypeOK
    <3>3. \A u \in WaitingTasks : kind'[u] = kind[u] /\ (u \in Linked(queue') <=> u \in Linked(queue))
      BY <3>1, <3>2 DEF TypeOK
    <3>4. \A u \in Task : pc'[u] \in Asleep <=> pc[u] \in Asleep
      BY DEF Asleep, TypeOK
    <3>5. QED
      BY <2>8, <3>3, <3>4
  <2>10. ASSUME NEW t \in Task, Unlink(t) PROVE UNCHANGED AbstractMonitor!monitorVars
    <3> USE <2>10 DEF Unlink, Goto
    <3>1. t \notin WaitingTasks
      BY DEF WaitingTasks, Asleep
    <3>2. Linked(queue') = Linked(queue) \ {t}
      BY UnlinkedLinked DEF LinkedWait, TypeOK
    <3>3. \A u \in WaitingTasks : kind'[u] = kind[u] /\ (u \in Linked(queue') <=> u \in Linked(queue))
      BY <3>1, <3>2
    <3>4. \A u \in Task : pc'[u] \in Asleep <=> pc[u] \in Asleep
      BY DEF Asleep, TypeOK
    <3>5. QED
      BY <2>8, <3>3, <3>4
  <2>11. ASSUME NEW t \in Task,
                \/ WaitZero(t) \/ Woken(t) \/ Expires(t) \/ DeleteForever(t)
                \/ Wake(t) \/ Defer(t) \/ BroadcastWake(t) \/ (BroadcastPop(t) /\ queue = <<>>)
         PROVE  UNCHANGED AbstractMonitor!monitorVars
    <3>1. UNCHANGED <<lock, nest, queue, kind>>
      BY <2>11 DEF WaitZero, Woken, Expires, DeleteForever, Wake, Defer, BroadcastWake, BroadcastPop, waitState
    <3>2. \A u \in Task : pc'[u] \in Asleep <=> pc[u] \in Asleep
      BY <2>11 DEF WaitZero, Woken, Expires, DeleteForever, Wake, Defer, BroadcastWake, BroadcastPop,
                   Goto, TypeOK, Asleep
    <3>3. QED
      BY <2>8, <3>1, <3>2
  <2>12. ASSUME NEW o \in Object, KernelDrain(o) PROVE UNCHANGED AbstractMonitor!monitorVars
    <3>1. UNCHANGED <<lock, nest, queue, kind, pc>>
      BY <2>12 DEF KernelDrain, waitState
    <3>2. QED
      BY <2>8, <3>1
  <2>13. CASE UNCHANGED vars
    <3>1. UNCHANGED <<lock, nest, queue, kind, pc>>
      BY <2>13 DEF vars
    <3>2. QED
      BY <2>8, <3>1
  <2>14. QED
    BY <1>2, <2>1, <2>2, <2>3, <2>4, <2>6, <2>7, <2>9, <2>10, <2>11, <2>12, <2>13
       DEF Next, Waits, Wakers, AbstractMonitor!MonitorNext
<1>3. QED
  BY <1>1, <1>2, Invariant, PTL DEF Spec, ImplementsMonitor, AbstractMonitor!MonitorSpec
=============================================================================
