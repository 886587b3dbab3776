------------------------------ MODULE CondVar -------------------------------
(***************************************************************************)
(* The condition variable of src/src/kernel/condvar.rs: timed and          *)
(* unbounded waits, the single wake (direct or through the kernel's        *)
(* pending-id table) and the broadcast, over a kernel semaphore used as    *)
(* the lock (KernelSemaphore: its owner may nest) and one kernel object    *)
(* per sleeper (src/src/kernel/kobj.rs).                                   *)
(*                                                                         *)
(* A wait node lives in its task's stack frame, so a task stands for its   *)
(* node.  The lists are touched under the lock only, so a list operation   *)
(* is one step; the calls into the kernel are steps of their own.          *)
(***************************************************************************)
EXTENDS Naturals, Sequences

CONSTANTS Task,      \* tasks sharing one condition variable
          NoTask,    \* no task
          Object,    \* ids of waiter objects the kernel can hand out
          NoObject,  \* id 0
          WaitKind,  \* the waits in use: "timed" (condvar_wait), "forever"
          WakeMode,  \* the wakes in use: "direct", "deferred" (mode 1)
          MaxNest    \* bound on the nesting of the lock

ASSUME NoTaskAssumption == NoTask \notin Task
ASSUME NoObjectAssumption == NoObject \notin Object
ASSUME KindAssumption == WaitKind \subseteq {"timed", "forever"}
ASSUME ModeAssumption == WakeMode \subseteq {"direct", "deferred"}
ASSUME MaxNestAssumption == MaxNest \in Nat \ {0}

\* How a condition variable can be used soundly.  A deferred wake of a timed wait
\* may come when the wait is over and its object belongs to another sleeper; a
\* timed sleeper is only woken early, but an unbounded one returns with its node
\* linked.  The code does not keep the two apart: without this condition the
\* run condvar_stale_wake ends there.
OneKindIfDeferred == "deferred" \in WakeMode => WaitKind # {"timed", "forever"}

VARIABLES lock,     \* the semaphore record behind lock_obj: [owner, count]
          queue,    \* the wait queue: the tasks whose nodes are linked, in order
          object,   \* node.object of each task
          live,     \* waiter objects that exist
          latched,  \* waiter objects signalled and not yet slept on
          pending,  \* the kernel's table of deferred wakes
          pc,       \* where each task stands
          kind,     \* the wait each task is in
          nest,     \* lock levels each task has taken and not undone
          popped,   \* the node each waker took off the queue
          ret       \* status of each task's last wait

vars == <<lock, queue, object, live, latched, pending, pc, kind, nest, popped, ret>>
kernelObjects == <<live, latched, pending>>
waitState == <<object, kind, ret>>

CONDVAR_OK == 0
CONDVAR_TIMEOUT == 3

FreeLock == [owner |-> NoTask, count |-> 0]

Init ==
    /\ lock = FreeLock
    /\ queue = <<>>
    /\ object = [t \in Task |-> NoObject]
    /\ live = {} /\ latched = {} /\ pending = {}
    /\ pc = [t \in Task |-> "out"]
    /\ kind = [t \in Task |-> "forever"]
    /\ nest = [t \in Task |-> 0]
    /\ popped = [t \in Task |-> NoTask]
    /\ ret = [t \in Task |-> CONDVAR_OK]

Goto(t, label) == pc' = [pc EXCEPT ![t] = label]

-----------------------------------------------------------------------------
(* The lock: kernel semaphore wait and signal, and the callers' brackets *)

\* sem_wait returned: the record was free, or this task's already.
Takes(t) ==
    /\ lock.owner \in {NoTask, t}
    /\ lock' = [owner |-> t, count |-> lock.count + 1]

\* sem_signal by the owner: one level less, and free after the last.
Drops(t) ==
    /\ lock.owner = t
    /\ lock' = IF lock.count > 1 THEN [lock EXCEPT !.count = @ - 1] ELSE FreeLock

Enter(t) ==
    /\ pc[t] \in {"out", "in"}
    /\ nest[t] < MaxNest
    /\ Takes(t)
    /\ nest' = [nest EXCEPT ![t] = @ + 1]
    /\ Goto(t, "in")
    /\ UNCHANGED <<queue, kernelObjects, waitState, popped>>

Leave(t) ==
    /\ pc[t] = "in"
    /\ Drops(t)
    /\ nest' = [nest EXCEPT ![t] = @ - 1]
    /\ Goto(t, IF nest[t] = 1 THEN "out" ELSE "in")
    /\ UNCHANGED <<queue, kernelObjects, waitState, popped>>

-----------------------------------------------------------------------------
(* The wait queue *)

\* The tasks whose nodes are linked.
Linked(q) == {q[i] : i \in 1 .. Len(q)}

\* list_remove: the queue without t's node; an absent node changes nothing.
Unlinked(q, t) ==
    IF \E i \in 1 .. Len(q) : q[i] = t
    THEN LET k == CHOOSE i \in 1 .. Len(q) : q[i] = t
         IN  [i \in 1 .. Len(q) - 1 |-> IF i < k THEN q[i] ELSE q[i + 1]]
    ELSE q

-----------------------------------------------------------------------------
(* condvar_wait and condvar_wait_forever *)

WaitZero(t) ==
    /\ pc[t] = "in"
    /\ "timed" \in WaitKind
    /\ ret' = [ret EXCEPT ![t] = CONDVAR_TIMEOUT]
    /\ UNCHANGED <<lock, queue, object, kind, kernelObjects, pc, nest, popped>>

\* waiter_create, then list_push_back.
WaitEnqueue(t, k) ==
    /\ pc[t] = "in"
    /\ \E o \in Object \ live :
           live' = live \cup {o} /\ object' = [object EXCEPT ![t] = o]
    /\ queue' = Append(queue, t)
    /\ kind' = [kind EXCEPT ![t] = k]
    /\ Goto(t, "drop")
    /\ UNCHANGED <<lock, latched, pending, nest, popped, ret>>

\* Mutation: the lock is kept across the sleep.
WaitKeepsLock(t) ==
    /\ pc[t] = "drop"
    /\ Goto(t, "sleep")
    /\ UNCHANGED <<lock, queue, kernelObjects, waitState, nest, popped>>

WaitDrop(t) ==
    /\ pc[t] = "drop"
    /\ Drops(t)
    /\ Goto(t, "sleep")
    /\ UNCHANGED <<queue, kernelObjects, waitState, nest, popped>>

\* The sleep ended with a signal.  The unbounded wait deletes its object
\* before it takes the lock back, the timed one after.
Woken(t) ==
    /\ pc[t] = "sleep"
    /\ object[t] \in latched
    /\ latched' = latched \ {object[t]}
    /\ ret' = [ret EXCEPT ![t] = CONDVAR_OK]
    /\ Goto(t, IF kind[t] = "forever" THEN "delete" ELSE "relock")
    /\ UNCHANGED <<lock, queue, object, kind, live, pending, nest, popped>>

\* RTXC code 5.
Expires(t) ==
    /\ pc[t] = "sleep"
    /\ kind[t] = "timed"
    /\ object[t] \notin latched
    /\ ret' = [ret EXCEPT ![t] = CONDVAR_TIMEOUT]
    /\ Goto(t, "relock")
    /\ UNCHANGED <<lock, queue, object, kind, kernelObjects, nest, popped>>

\* waiter_delete, and node.object = null.
Deletes(t) ==
    /\ live' = live \ {object[t]}
    /\ latched' = latched \ {object[t]}
    /\ object' = [object EXCEPT ![t] = NoObject]

DeleteForever(t) ==
    /\ pc[t] = "delete"
    /\ Deletes(t)
    /\ Goto(t, "relock")
    /\ UNCHANGED <<lock, queue, pending, kind, ret, nest, popped>>

\* Mutation: a wait that timed out returns without the lock.
RelockUnlessExpired(t) ==
    /\ pc[t] = "relock"
    /\ IF ret[t] = CONDVAR_TIMEOUT THEN UNCHANGED lock ELSE Takes(t)
    /\ Goto(t, IF kind[t] = "forever" THEN "in" ELSE "unlink")
    /\ UNCHANGED <<queue, kernelObjects, waitState, nest, popped>>

\* Mutation: the timed wait, too, deletes its object before it has the lock.
RelockAfterDelete(t) ==
    /\ pc[t] = "relock"
    /\ IF object[t] # NoObject
       THEN Deletes(t) /\ UNCHANGED <<lock, pc>>
       ELSE /\ Takes(t)
            /\ Goto(t, IF kind[t] = "forever" THEN "in" ELSE "unlink")
            /\ UNCHANGED <<live, latched, object>>
    /\ UNCHANGED <<queue, pending, kind, ret, nest, popped>>

Relock(t) ==
    /\ pc[t] = "relock"
    /\ Takes(t)
    /\ Goto(t, IF kind[t] = "forever" THEN "in" ELSE "unlink")
    /\ UNCHANGED <<queue, kernelObjects, waitState, nest, popped>>

\* Mutation: a wait that was woken trusts its waker to have unlinked it, and so
\* does one that timed out.
UnlinkNothing(t) ==
    /\ pc[t] = "unlink"
    /\ Deletes(t)
    /\ Goto(t, "in")
    /\ UNCHANGED <<queue, lock, pending, kind, ret, nest, popped>>

\* The timed wait ends: the object goes, and the node is unlinked if it is
\* still there (twice after a timeout, the second time in vain).
Unlink(t) ==
    /\ pc[t] = "unlink"
    /\ Deletes(t)
    /\ queue' = Unlinked(queue, t)
    /\ Goto(t, "in")
    /\ UNCHANGED <<lock, pending, kind, ret, nest, popped>>

-----------------------------------------------------------------------------
(* condvar_signal, condvar_signal_dispatch, condvar_broadcast *)

\* list_pop_front
Pops(t) ==
    /\ popped' = [popped EXCEPT ![t] = Head(queue)]
    /\ queue' = Tail(queue)

\* Mutation: the node is woken but stays at the head of the queue.
PopsNothing(t) ==
    /\ popped' = [popped EXCEPT ![t] = Head(queue)]
    /\ UNCHANGED queue

Label(mode) == IF mode = "deferred" THEN "defer" ELSE "wake"

\* Mutation: the wake does not unlink the node.
SignalPeeks(t, mode) ==
    /\ pc[t] = "in"
    /\ queue # <<>>
    /\ PopsNothing(t)
    /\ Goto(t, Label(mode))
    /\ UNCHANGED <<lock, object, kind, ret, kernelObjects, nest>>

Signal(t, mode) ==
    /\ pc[t] = "in"
    /\ queue # <<>>
    /\ Pops(t)
    /\ Goto(t, Label(mode))
    /\ UNCHANGED <<lock, object, kind, ret, kernelObjects, nest>>

\* waiter_wake on the object in the popped node.
Wakes(o) == latched' = IF o \in live THEN latched \cup {o} ELSE latched

Wake(t) ==
    /\ pc[t] = "wake"
    /\ Wakes(object[popped[t]])
    /\ popped' = [popped EXCEPT ![t] = NoTask]
    /\ Goto(t, "in")
    /\ UNCHANGED <<lock, queue, live, pending, waitState, nest>>

\* Mutation: the deferred wake forgets the id.
DeferForgets(t) ==
    /\ pc[t] = "defer"
    /\ popped' = [popped EXCEPT ![t] = NoTask]
    /\ Goto(t, "in")
    /\ UNCHANGED <<lock, queue, kernelObjects, waitState, nest>>

\* Mode 1: the id goes to the pending table, once.
Defer(t) ==
    /\ pc[t] = "defer"
    /\ pending' = pending \cup {object[popped[t]]}
    /\ popped' = [popped EXCEPT ![t] = NoTask]
    /\ Goto(t, "in")
    /\ UNCHANGED <<lock, queue, live, latched, waitState, nest>>

\* The kernel gets round to a deferred wake.
KernelDrain(o) ==
    /\ o \in pending
    /\ pending' = pending \ {o}
    /\ Wakes(o)
    /\ UNCHANGED <<lock, queue, live, pc, waitState, nest, popped>>

\* The broadcast pops until the queue is empty and wakes each node as it goes.
BroadcastPop(t) ==
    /\ pc[t] \in {"in", "bcast"}
    /\ "direct" \in WakeMode
    /\ IF queue # <<>>
       THEN Pops(t) /\ Goto(t, "bwake")
       ELSE Goto(t, "in") /\ UNCHANGED <<queue, popped>>
    /\ UNCHANGED <<lock, object, kind, ret, kernelObjects, nest>>

\* Mutation: the wake is aimed at the node that is now the head.
BroadcastWakesNext(t) ==
    /\ pc[t] = "bwake"
    /\ Wakes(IF queue = <<>> THEN object[popped[t]] ELSE object[Head(queue)])
    /\ popped' = [popped EXCEPT ![t] = NoTask]
    /\ Goto(t, "bcast")
    /\ UNCHANGED <<lock, queue, live, pending, waitState, nest>>

BroadcastWake(t) ==
    /\ pc[t] = "bwake"
    /\ Wakes(object[popped[t]])
    /\ popped' = [popped EXCEPT ![t] = NoTask]
    /\ Goto(t, "bcast")
    /\ UNCHANGED <<lock, queue, live, pending, waitState, nest>>

-----------------------------------------------------------------------------
Waits(t) == \/ \E k \in WaitKind : WaitEnqueue(t, k)
            \/ WaitDrop(t) \/ Woken(t) \/ Expires(t)
            \/ DeleteForever(t) \/ Relock(t) \/ Unlink(t)
Wakers(t) == \/ \E mode \in WakeMode : Signal(t, mode)
             \/ Wake(t) \/ Defer(t) \/ BroadcastPop(t) \/ BroadcastWake(t)

Next == \/ \E t \in Task : Enter(t) \/ Leave(t) \/ WaitZero(t) \/ Waits(t) \/ Wakers(t)
        \/ \E o \in Object : KernelDrain(o)

Spec == Init /\ [][Next]_vars

\* A ready task runs and a tick expires; the kernel drains its table and gives
\* a free record to a waiter sooner or later (KernelSemaphore's
\* ContenderServed); and a task does not stay inside for ever.
Fairness ==
    /\ \A t \in Task :
           /\ WF_vars(WaitDrop(t) \/ Woken(t) \/ Expires(t) \/ DeleteForever(t) \/ Unlink(t))
           /\ WF_vars(Wake(t) \/ Defer(t) \/ BroadcastWake(t))
           /\ WF_vars(pc[t] = "bcast" /\ BroadcastPop(t))
           /\ SF_vars(Relock(t))
           /\ \A level \in 1 .. MaxNest : SF_vars(nest[t] = level /\ Leave(t))
    /\ \A o \in Object : WF_vars(KernelDrain(o))
FairSpec == Spec /\ Fairness

-----------------------------------------------------------------------------
(* Properties *)

Inside == {"in", "drop", "unlink", "wake", "defer", "bcast", "bwake"}
Waking == {"wake", "defer", "bwake"}
Asleep == {"sleep", "delete", "relock"}

\* The model's variables keep their types; only objects that exist hold a
\* signal, and the record never counts more levels than the tasks may nest.
TypeOK ==
    /\ lock \in [owner : Task \cup {NoTask}, count : 0 .. MaxNest]
    /\ queue \in Seq(Task)
    /\ object \in [Task -> Object \cup {NoObject}]
    /\ live \subseteq Object /\ latched \subseteq live /\ pending \subseteq Object
    /\ pc \in [Task -> Inside \cup Asleep \cup {"out"}]
    /\ kind \in [Task -> {"timed", "forever"}]
    /\ nest \in [Task -> 0 .. MaxNest]
    /\ popped \in [Task -> Task \cup {NoTask}]
    /\ ret \in [Task -> {CONDVAR_OK, CONDVAR_TIMEOUT}]

\* A wait gives back the nesting it was called with: every task that runs with
\* the lock is its owner with exactly the levels it took, and a sleeper has
\* given up exactly one of them.
LevelOf(t) == IF pc[t] \in Asleep THEN nest[t] - 1 ELSE nest[t]
WaitRestoresLock ==
    \A t \in Task :
        /\ pc[t] # "out" => nest[t] > 0
        /\ lock.owner = t <=> LevelOf(t) > 0
        /\ lock.owner = t => lock.count = LevelOf(t)

\* No node outlives its stack frame in the queue: a linked node belongs to a
\* task that is still inside its wait with its object alive, and is linked once.
NoDeadNodeLinked ==
    /\ \A i, j \in 1 .. Len(queue) : queue[i] = queue[j] => i = j
    /\ \A t \in Linked(queue) :
           /\ pc[t] \in {"drop", "sleep", "relock", "unlink"}
           /\ object[t] \in live

\* A waker never reads the handle out of a dead node or signals a deleted object:
\* between its pop and its wake the sleeper may time out, but cannot get past
\* the lock.
WakeHitsLiveObject ==
    \A t \in Task : pc[t] \in Waking => object[popped[t]] \in live

\* No lost wake-up: a sleeper that is off the queue has been or is about to be
\* signalled.
SignalUnderWay(t) == \/ object[t] \in latched \cup pending
                     \/ \E u \in Task : pc[u] \in Waking /\ popped[u] = t
NoLostWakeup ==
    \A t \in Task : pc[t] = "sleep" /\ t \notin Linked(queue) => SignalUnderWay(t)

\* "The raw csem call must not return until a waker has removed this stack
\* node" (condvar.rs:430-432), since an unbounded wait unlinks nothing itself.
SleepOutlastsPop ==
    \A t \in Task : kind[t] = "forever" /\ pc[t] \in {"delete", "relock", "in"} =>
        t \notin Linked(queue)

\* A waiter that a waker popped returns from its wait.
PoppedReturns == \A t \in Task : pc[t] = "sleep" /\ t \notin Linked(queue) ~> pc[t] = "in"

\* The condition variable is a monitor: in particular an unbounded wait never
\* returns before some holder of the lock notified that very waiter.
WaitingTasks == {t \in Task : pc[t] \in Asleep}
AbstractMonitor == INSTANCE Monitor
    WITH holder <- lock.owner,
         holds <- [t \in Task |-> LevelOf(t)],
         waiting <- WaitingTasks,
         patient <- {t \in WaitingTasks : kind[t] = "forever"},
         notified <- WaitingTasks \ Linked(queue)
ImplementsMonitor == AbstractMonitor!MonitorSpec
=============================================================================
