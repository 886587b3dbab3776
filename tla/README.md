# A verification project for RustyPod

RustyPod is an incremental Rust port of the iPod Classic 6G firmware (retailOS
on a Samsung S5L8702, one ARMv5TE core), carried over function by function from
the decompiled image (`PORTING.md`). The port must keep the behaviour of the
original, including the behaviour of its preemptive kernel. That is where unit
tests say least: every test of the port replaces the mask-ROM services by hooks
that return a fixed value, so no test ever lets two tasks meet.

This directory holds TLA+ models of the port's concurrent core, TLC
configurations that check them on small instances, and TLAPS proofs of their
main properties for every value of the parameters. `PROJECT.json` is the index:
components, runs, mutations, the source lines behind every definition, the
hazards, the findings and the theorems.

To check a model: `tlc -config CondVar.cfg MCCondVar.tla`. To check a proof:
`tlapm CondVarProofs.tla`.

## 1. Inventory

### The kernel (`src/src/kernel`)

| Part | State | Operations | What is hard | What makes it correct |
|---|---|---|---|---|
| Semaphore record (`semaphore_wait.rs`, `task_lock.rs`) | 32-byte table record: owner, 16-bit recursion, waiter list, acquisition counter | wait, and the ROM's signal; services 14 (park) and 15 (wake) | the contended wait leaves the table lock before it parks; the recursion halfword wraps | a re-entrant lock: one holder, count equal to the holds, a contender is served although the owner releases before it parks |
| Owner-tracked mutex (`posix_mutex.rs`) | magic, owner word, kind, 16-bit recursion, semaphore handle | lock, lock with a deadline, unlock, lazy initializer | all words but the semaphore are accessed without a lock; several error exits between claim and return | mutual exclusion, the owner word tells the truth, no exit leaves a hold behind |
| Condition variable (`condvar.rs`, `kobj.rs`) | intrusive queue of nodes in the waiters' stack frames, a kernel object per sleeper, the kernel's pending-id table | timed and unbounded wait, signal, deferred signal, broadcast | a timeout racing a pop; a waker dereferencing a node in another task's stack; wakes through the pending table | no dead node, no lost wake-up, the lock is given back with its nesting |
| Counting semaphore and mailbox slot (`csem.rs`, `kobj.rs`, `gateway_wake.rs`) | signed count beside one waiter object | timed take, `csem_signal`, post, deferred post | count and object are changed in two steps; a timeout's undo races a post | no token invented or lost, nobody sleeps beside a token |
| Message queue and queue pool (`mqueue.rs`, `app/pointer_queue.rs`) | queue of nodes, free list, persistent nodes, two condition variables | receive, receive with wait, deliver, recycle, enqueue | delivery and recycling happen after the lock is dropped; invalid nodes consume a wake | every node is on one list or in one task's hands; a valid message reaches a waiting receiver |
| Task messages (`task_message.rs`) | cell pool, two 28-byte-record rings, router table | post, post without wait, route, receive, enqueue | the deferred ring has no lock; the ring-full arithmetic; the cell's way back on failure | records arrive whole, once and in order; cells are conserved |
| Counted mutex, hand-off, once, ready wait (`sync_mutex.rs`, `mutex_handoff.rs`, `once_callback.rs`, `ready_wait.rs`) | a word or a pointer beside a mutex | lock and unlock, hand-off, run once, wait until ready | who unlocks is not tested; a pointer read twice; done reported before done | counts match holds; what was locked is what is unlocked |
| Task registry (`task.rs`) | task records, one cached name node | register, spawn, priorities | a cache of one refilled under the lock | a node per registered task |
| Interrupts, timers, gateways (`irq*.rs`, `task_delay.rs`, `gateway_*.rs`) | hardware registers, request blocks | mask and restore, delay, requests | the ROM's side is not in the repository | - |

The parts stack up. `mqueue`, `ready_wait` and the app queues sleep in
`condvar`; a condition variable is bound to a mutex of `sync_mutex`, whose one
word is a handle of the semaphore table; `posix_mutex` holds such a handle too.
Task messages post a `mailbox slot`, which is a counting semaphore. `condvar`
and `csem` share the waiter objects of `kobj.rs` and the ROM's pending-id table,
by which code that must not enter the kernel (interrupt handlers) defers a wake.
Everything runs on one core: two steps interleave where the scheduler may
switch, and a stretch with interrupts masked or under the table lock is one
step.

### Outside the kernel

- **Heap** (`heap/`): a block manager lends regions to clients under the
  manager's mutex and one mutex per client (both of `posix_mutex`); pools,
  deques, reference-counted buffers. Hard: cached totals read under the other
  mutex, and the order of the two locks. The bodies of commit and
  take are still calls into the unported image.
- **Drivers** (`drivers/`): register programming; the ATA command path sends a
  command, sleeps on a waiter object with a 5-second limit and classifies the
  status. Hard: a completion after the limit.
- **File system** (`fs/`): path nodes that share reference-counted blocks on a
  list under the cache lock; a one-window block cache, cache pages with markers,
  drive slots with a pending-flush word, FAT and HFS+ structures. Hard: a block
  found while its last holder lets go of it, a write-back that fails, a flush of
  two phases of which the second fails.
- **SQLite** (`sqlite/`): the image's SQLite: shared-cache locks and
  transaction count, commit in two phases, pager, parser, virtual machine.
  Hard: the shared transaction count on failing ends.
- **Runtime and C++ support** (`runtime/`, `cxx/`): one-time guards without
  locks, the shutdown chain, helpers.
- **Time**, **app and ui**, **C library, printf, float, crypto, FreeType,
  codecs, containers**, **renderer code generator**, **tools**: sequential code;
  see the notes in `PROJECT.json`.

Modelled are the first six rows of the table, the primitives on which every
other concurrent part stands and the message transport built from them, and the
shared blocks of the file system.

## 2. Modules

| Module | Models | State and its counterpart |
|---|---|---|
| `ResourceLock` | what a lock promises: one holder, re-entrant, a hold per unlock | abstract |
| `KernelSemaphore` | `kernel_semaphore_wait` and the ROM's signal | `owner`, `recursion`, `acquisitions`, `waiters` are the record's words; `nest` is the history of each task's open holds |
| `PosixMutex` | `posix_mutex_lock`, `_lock_deadline`, `_unlock`, `_init`, the semaphore-cell helpers | `magic`, `mowner`, `kind`, `recursion`, `handle` are the structure's words; `sem` the kernel records behind the handles; `inside` the locks each thread was granted |
| `Monitor` | what a condition variable promises | abstract |
| `CondVar` | waits, signal, dispatch, broadcast, the list functions and waiter objects | `lock` is the record behind the bound mutex, `queue` the linked nodes, `object` each node's handle, `live`, `latched`, `pending` the kernel objects, `popped` the node in each waker's hands |
| `CountingSem` | `csem_wait`, `csem_signal` (as a take without a time limit, see service 1 below), `csem_post`, `csem_post_deferred`, the mailbox-slot forms | `count` and the waiter object (`latched`, `pending`); `posts` and `takes` are history |
| `Channel` | what a task's queue promises: posted messages are delivered once, in order, and a post with wait ends after its message was handled or withdrawn | abstract |
| `MessageQueue` | `task_message_post` both ways, `task_message_receive`, `task_message_dispatch`, `mqueue_receive`, `mqueue_receive_wait`, `mqueue_deliver`, `mqueue_node_recycle`, the cell pool | `queue`, `free`, `cells` are the lists; `node` and `content` the fields; `held` and `cell` what each task has in its hands between two locks; the waits are those of `Monitor` |
| `RecordQueue` | what a message ring promises: a bounded queue of whole records | abstract |
| `MessageRing` | `task_message_transport_enqueue` both ways, `task_message_ring_write`, `ring_read`, `ring_buffer_used_bytes`, `ring_buffer_construct` | `data`, `read`, `write` are the rings' words, `tokens` the count of the transport's semaphore, `cursor` a writer's own copy of the index |
| `SharedData` | `path_node_create_for_volume`, `path_node_release`, the node pool, `shared_data_find_and_retain`, `_initialize`, `_release` | `refs`, `key`, `next`, `previous`, `head`, `data` are the words; `hand` and `found` the locals of an open or close |
| `...Proofs` | theorems about the module of the same name | |
| `MC...` | constants for TLC | |

One action is one stretch that no other task can observe the middle of. `pc`
says where a task stands between two such stretches; its labels are named for
the next call ("drop", "sleep", "relock"). The definitions whose comment begins
with "Mutation:" are not part of any specification. Each is a plausible bug in
the definition that follows it, and each checked property is known to fail when
some mutation is put in.

### What is taken from outside `src/`

The scheduler and the services of the mask ROM are not in the repository. They
are modelled from the contracts the port records where it calls them:

- *Signal of a semaphore record* (`rom_sem_signal`, `task_lock.rs`): 9 for a
  stranger, 10 while nested, else free and wake.
- *Services 14 and 15*: park on a record and wake its waiters. The ROM may give
  a freed record to any of the parked tasks. Service 14 is taken to test the
  record again before it parks the task; `ContenderServed` rests on that.
- *Waiter objects* (`kobj.rs`): a signal is kept until somebody sleeps on the
  object, a signal of an object that does not exist does nothing, a timed sleep
  may end with RTXC code 5.
- *Service 1* is read as an unbounded sleep on a waiter object.
  `condvar_wait_forever` sleeps in it and says that it must not return before
  a waker popped its node (condvar.rs:430-432), and `gateway_signal.rs:53-57`
  describes its timed variant. `csem.rs:43-48` calls the same entry a wake. The
  models follow its use in `condvar.rs`; under the other reading
  `csem_signal` would take a token without sleeping.
- *The queue send* (`0x0809eb58`) *and the post with wait* (`0x080944b0`): jumps
  into the image. They are modelled from what `mqueue.rs` expects of them: a
  node of the sender's pool is filled and linked under the target's lock with a
  signal, and the sender of a persistent node waits until it is recycled, or
  withdraws it.
- *The reader of the transport rings*: not ported; it takes a token and then
  reads one record from a ring that has one.
- *The data pool* (`0x082e2f74`): hands out zeroed blocks, as the ported node
  pool does (path_node.rs:195-197).
- *The object allocator* (`object3_allocate.rs:74-82`): the ROM may write the
  handle word and fail all the same.
- *The pending-id table*: a set of ids, each drained once, at any later time. An
  id stays in it although its object is deleted: `csem.rs:64-68` says only that
  the ROM appends an id that is not there yet.

## 3. Runs

Constants are model values. Symmetry over tasks, posters and objects is used
only in safety runs; the tasks there are interchangeable in every action.

| Run | Instance | Shows |
|---|---|---|
| `kernel_semaphore` | 2 tasks, nesting 3, recursion word of 4 values, counter of 3 | type, mutual exclusion, the recursion word counts the holds, it implements `ResourceLock`, a contender is served |
| `posix_mutex` | 2 threads, 2 handles, every kind, recursion limit 2, live or static at the start, allocations may fail, first calls do not race (`SoleSpec`), fairness | exclusion, owner word true, no exit leaks the semaphore, nobody meets a live mutex without a semaphore, implements `ResourceLock`, lock returns |
| `condvar` | 3 tasks, 3 objects, nesting 2, both waits, direct signals and broadcasts | the lock's levels come back, no dead node, wakes hit live objects, no lost wake-up, an unbounded sleep ends only by a pop, implements `Monitor` |
| `condvar_deferred` | 3 tasks, 3 objects, nesting 1, unbounded waits, both wakes, fairness | no lost wake-up, a popped waiter returns |
| `counting_sem` | 1 consumer, 3 posters, 8 posts, untimed takes, fairness | no token invented, no sleeper beside a token, no stale signal, the sleeper is fed |
| `counting_sem_timed` | 2 consumers, 3 posters, 4 posts, both takes | the count is conserved through timeouts and undo |
| `message_queue` | 2 posters with a node each, 2 dispatchers, 1 poller, 2 cells, 3 messages, fairness | a node and a cell are in one place at a time, no dispatcher sleeps beside a message, it implements `Channel`, a poster returns |
| `message_ring` | 2 tasks, 1 interrupt handler, 4 messages of 3 bytes, rings of 8, fairness | a token for each record, both rings implement `RecordQueue`, what is written is read |
| `shared_data` | 2 tasks, 2 volumes, 4 nodes, 3 blocks | counts are the holders, pools are the rest, the links stay sound, the list loses a live block only to a stray |

Why these bounds suffice. The semaphore needs a holder and a contender; its
word widths are scaled down to where the wrap is one step past the nesting
bound, and the counter, which nobody reads, does wrap. The mutex needs two
threads to have a stale owner word, a limit of 2 to have both a nested hold and
an overflow, and two handles for a failed allocation to leave one behind and
another to succeed, and for an initializer to run twice. The condition
variable needs three tasks, so that two nodes are linked while a third wakes
them (the middle-of-list removal, a broadcast between two wakes); a fourth adds
only more of the same nodes. One waiter object per task is what the code
creates. The counting semaphore's hazards take one sleeper and two posts, and
the bounds leave room for a second round. The message queue needs two posters
for an order to be lost, fewer nodes and cells than messages for the pools to
run dry, and a dispatcher beside another receiver for a woken one to come too
late. In the ring, a record of 3 in a ring of 8 wraps in each of its bytes, two
records fill it but for the free byte, and four messages write one ring twice
around. The shared blocks need two tasks on one list and a second volume in
between; the fourth node makes the block pool run dry first. For every property
but the liveness ones the proofs lift this to any number of tasks, except that
two properties of the counting semaphore are about one consumer.

Runs that end in a violation; each is a disagreement between the code and what
the repository says of it:

| Run | What it shows |
|---|---|
| `posix_mutex_race` | Two threads that both saw the static magic run the initializer twice. The second one replaces the semaphore that the first one already holds, and both are inside. (Its allocation may also fail and overwrite the live handle.) |
| `condvar_stale_wake` | A timed waiter expires and is popped by a deferred signal before it has the lock back. It deletes its object, the id goes to a new waiter without a time limit, and the kernel drains the id: the wait ends with its stack node still linked. |
| `counting_sem_timeout` | A post between a take's timeout and its undo signals the object and is counted as well; one post is worth two takes. |

`PROJECT.json` quotes the lines. All are defects of the algorithm, which the
port carries over from the original; the second one rests on the pending-id
table as described above. The models contain other places where the
code does less than a comment says; they have no run of their own:

- `path_node_create_for_volume.rs:12-13` says that an open "reuses matching
  shared data". An open that finds its block gives the unused block of its new
  node to `shared_data_release` (line 113). That block was never linked, and its
  null back link makes the release set the list head to its null successor:
  after the second open of a volume the list is empty, and the third open builds
  another block. `LostOnlyToStrays` states that nothing else drops a block, and
  `PoolsAccounted` and `LinksAreMutual` that counts and links stay sound; no
  run expects the sharing itself to fail, which three opens in a row show.
- `posix_mutex.rs:178-179` says that re-locking a normal mutex blocks for ever.
  The kernel record nests, so the call returns 0x0f and leaves one hold too
  many.
- `condvar.rs:472-473` says that a timed wait returns `CONDVAR_OK` when
  signalled. A waiter whose sleep expired may be popped by a signal before it
  has the lock back: it reports the timeout, and the signal reaches nobody else.
- `condvar.rs:428-429` says that the wait releases the lock. It undoes one level
  of a record that nests.

### Assumptions inside the models

- The deadline lock does not run the lazy initializer, so it is entered with a
  live mutex only.
- A thread that has filled the 16-bit recursion of a kernel record does not lock
  again (`HasRoom`); the ROM's record would wrap.
- `SoleSpec`: while one thread runs the mutex's initializer, no other calls. This
  is a hypothesis of the run `posix_mutex` and of half the theorems, not a guard
  of the code: `Spec` is without it, and `posix_mutex_race` shows what happens.
  For a mutex that is live from the start it says nothing.
- Callers signal and broadcast with the lock held, as `mqueue` and
  `pointer_queue` do, and they nest at most `MaxNest` levels.
- A waiter object can always be created. The code ignores a failed creation
  (condvar.rs:441); this is a hazard without a property.
- The count of the counting semaphore stays far from the ends of its 32 bits.
- `OneKindIfDeferred`: a condition variable that is woken through the pending
  table has timed waits only or unbounded waits only. It is a condition on the
  constants of the passing runs and a hypothesis of the theorems; the code mixes
  freely, and `condvar_stale_wake` is the mix that fails. Direct wakes may be
  used with any mix.
- One interrupt handler at a time writes the deferred ring (`OneHandlerAssumption`).
  The code takes no lock there, and a handler that interrupts another breaks
  `ImplementsQueues`.
- The capacity of a ring is a power of two; the constructor does not test it.
- A path node is closed once, by one task.
- The "wakes at the step from -1 to 0" rule feeds one sleeper. With two, the
  count is at -2 and the first post wakes nobody. `kobj.rs:1009-1012` tests this
  as intended, so the liveness and wake-up properties are stated for one consumer.

### Fairness

A fair step is one the scheduler or the hardware owes, never one a caller owes:
nobody has to lock, wait, signal or post.

- Weak fairness of the steps of a task that is ready to run and inside a call:
  the kernel is preemptive, and the tasks of higher priority are taken to let
  it run sooner or later. For timed sleeps this includes the tick that expires
  them.
- Weak fairness of `KernelDrain`: the kernel drains its table sooner or later,
  or a deferred wake would mean nothing.
- Strong fairness of `SignalNested` per level and of `LastSignal`, of `Leave`
  and of `EnterUnlockAt`: critical sections end (`Leave` is fair per level too). It is strong because a holder
  may do other things with the lock in between, and it is per nesting level,
  because a task that nests and unnests for ever would otherwise satisfy it.
- Weak fairness of the steps of a poster and of a receiver inside their calls in
  `MessageQueue`, and of a dispatcher's next receive: handlers come back. Nobody
  has to post or to poll, and a dispatcher that met its quit message has left.
- Weak fairness of the ring's writers inside the call and of its reader.
- Strong fairness of `WaitGranted` (mutex) and `Relock` (condition variable): a
  record that is free again and again is given to the task that waits for it.
  This is what `KernelSemaphore` shows as `ContenderServed`, for **two** tasks.
  With three the ROM's free choice among parked tasks could starve one. The
  repository does not tell its queueing discipline, so for more tasks this
  fairness is an assumption about the ROM.

`CHECK_DEADLOCK FALSE` stands where the system may really stop: every task in an
unbounded wait with nobody left to wake it, or all posts made.

## 4. Proofs

All seven modules have theorems for every value of their constants, under the
constants' named assumptions. Together they state every invariant, action
property and refinement that a passing run checks. Each proof follows the same
argument: an inductive invariant `IInv` that strengthens the checked properties,
a lemma for the initial states, a lemma with a step per action for the
next-state relation, and one temporal step.

- **KernelSemaphore.** `IInv` joins the checked invariants with
  `ContendersDoNotOwn`: a task on its way to the waiter list is not the owner.
  Without it a service-14 grant could give a task a record it already holds.
  Proved: type correctness, mutual exclusion, `RecordCountsHolds`, and that the
  split wait and signal implement `ResourceLock`. Assumed: the nesting bound is below the recursion word's
  width (`ModulusAssumption`). The code has no guard against the wrap.
- **PosixMutex**, for callers that do not race for the first call (`SoleSpec`).
  `IInv` adds `InTransit` (between the granted wait and the claim, and between
  the cleared owner word and the signal, a thread holds the record though no word
  names it), `Waiting`, `OwnerIsInside`, and `Initializing` (while the magic is
  static nothing is claimed, whatever failed allocations left in the handle word,
  and one thread at a time is in the initializer). Proved: type correctness,
  mutual exclusion, `OwnerWordIsTrue`, `LiveHasSemaphore`, `SemaphoreNotLeaked`
  (with a second invariant, `LeakInv`) and the refinement of `ResourceLock`. For a
  mutex that is live before its threads start (`"static" \notin Birth`) nobody
  ever initializes, so every behaviour of `Spec` is one of `SoleSpec`
  (`LiveIsSole`), and the theorems hold whatever the callers do.
- **CondVar**, for any mix of timed and unbounded waits with direct wakes, and for
  deferred wakes where all waits are of one kind (`OneKindIfDeferred`). `IInv`
  adds `ObjectsOwned` (a handle belongs to one wait), `LinkedWait` (a linked
  node's wait is in progress, and an unbounded one is unsignalled), `PoppedWait`
  (a node in a waker's hands belongs to a task that has not got past the lock),
  `PendingWait` (where waits are unbounded, an id in the kernel's table is the
  object of one task, asleep, off the queue and not yet signalled) and
  `KindsStand`. Together they say why a waker may read a node in another task's
  stack: the owner of that frame cannot leave without the lock the waker holds;
  and why an unbounded wait may leave its node to its waker. Proved: type
  correctness, `WaitRestoresLock`, `NoDeadNodeLinked`, `WakeHitsLiveObject`,
  `NoLostWakeup`, `SleepOutlastsPop`, and the refinement of `Monitor`. The list
  lemmas (`AppendLinked`, `TailLinked`, `UnlinkedLinked`) state what the queue
  operations do to the set of linked nodes.
- **CountingSem.** `CountConserved` for every finite set of consumers, any
  posters and any mix of takes. `TakesWithinPosts` for any number of consumers
  without a time limit: `TokenInv` counts a token for each take that got one,
  each wake on its way and each unit of a positive count. (Timed takes break it,
  see the run `counting_sem_timeout`.) For one untimed consumer, the use the
  code's rule is made for, `NoStrandedSleeper` and `SignalIsForSleeper`, from
  `CountOfOne` (the count is tokens less one while it sleeps), `WakeWhenDue`
  (asleep with a count of zero or more if and only if a wake is under way) and
  `OneWake` (the wake is in one place).
- **SharedData**, for every set of tasks, volumes and blocks and every finite set
  of nodes. `IInv` adds `LocalsStand` (what a task has in its hands at each
  label), `OpenHaveBlocks`, and `FreshUnlinked`: the block of an open is still as
  the pool zeroed it when it is initialized or given back, which is why unlinking
  a block that was never linked leaves the links sound. `StepHolders` says where a
  step can change who counts on a block, at the node in the task's hand, and
  `StepBlocks` does the counting. The list is the least set that holds the head
  and that no link leads out of (`Reach`), so what a walk meets is proved without
  induction: `ListIsLive` (a walk meets referenced blocks only) is what lets an
  open retain what it found. Proved: type correctness, `PoolsAccounted`,
  `LinksAreMutual` and the action property `LostOnlyToStrays`. Assumed of the
  pools: a block comes zeroed, and the null pointer is neither a node, a block nor
  a volume (`NilAssumption`).

- **MessageQueue**, for any posters, pollers, nodes and cells and every finite set
  of dispatchers. `IInv` adds to the checked properties `TasksStand` (what a
  task has in its hands at each label), `Carried` (a valid node on its way has
  its cell), `MessagesInOnePlace` (a posted message is in one cell in use, or in
  the hands of one receiver, or settled) and `Awaited` (where the message of each
  post with wait is, told from the poster and from its one persistent node;
  without it a reply could reach a poster whose message nobody handled). Most
  steps concern one task; `Stays` says all that may happen to the others (a
  dispatcher or a starved poster is woken and looks again), and `Appended` and
  `Popped` say what the list operations do to the set of queued nodes. Proved:
  type correctness, `NodesInOnePlace`, `CellsInOnePlace`,
  `NoSleeperBesideMessage` (by counting the dispatchers on their way, before and
  after: `OneMoreReady`, `OneLessReady`), and the refinement of `Channel`, with
  a lemma for each concrete step that is an abstract one (`SendPosts`,
  `WithdrawRecalls`, `PopTakes`, `HandleSettles`, `ReturnReturns`) and one for
  the steps the channel does not see (`InsideSteps`). The invariant says two more
  things in the words of the users: `MessagesHandledOnce`, and `AnswersAreDue` (a
  post with wait is answered only when its own message was handled or withdrawn).
- **MessageRing**, for every finite set of tasks, one handler, any length of
  record and any larger ring. `Spells(s, q)` says that the bytes `s` are those of
  the records `q`, one after the other. `IInv` adds `Spelled` (what is unread of a
  ring, around its end, is whole records), `Copying` (what a writer has copied
  lies `Behind` the published index, and the rest of its record has room),
  `Reading` (the record the reader is in is there whole) and `WritersStand`. The
  free byte and the test of the room keep a writer's bytes out of what the reader
  still reads (`WriteFree`). A step is silent, publishes one record or ends the
  reading of one (`SilentRecords`, `PublishRecords`, `EndRecords`). Proved: type
  correctness, which says that what the reader assembles is a sent message;
  `TokenPerRecord`; `TokenMeansRecord` (a reader that got a token finds a whole
  record); and the refinement of a `RecordQueue` by each ring.

Only model-checked: the liveness properties (`ContenderServed`, `LockReturns`,
`PoppedReturns`, `SleeperFed`, `PosterReturns`, `RecordsArrive`), which TLAPS
cannot treat with fairness.

## 5. Not modelled, and why

- Attribute setters, handle checks and creation/deletion of records and
  objects: straight-line code on private data, or the ROM's.
- Interrupt masking: it appears only as the atomicity of what it brackets.
- Priorities: the scheduler is free to run any ready task, which covers every
  priority assignment for safety.
- Everything listed as `not_modelled` in `PROJECT.json`, with its reason there:
  the next modules of the plan, code whose centre is still a jump into the
  original image, and sequential data transformations.

## 6. Plan

In order:

1. **`SmallLocks`**: counted mutex, hand-off, once callback and C++ guard over
   `ResourceLock`.
2. **`SharedCache`** (SQLite's table locks, transaction count, two-phase commit
   and rollback): writers exclude each other, the count is the number of open
   transactions, also after a failed end.
3. **`BlockManager`** (heap): regions conserved between manager and clients.
4. **`BlockWindow`** (fs): a dirty block is not lost, a failed flush is retried.
5. Calendar conversions as operators against a reference definition.
