----------------------------- MODULE PosixMutex -----------------------------
(***************************************************************************)
(* The C++ layer's owner-tracked mutex, src/src/kernel/posix_mutex.rs: the *)
(* lazy initializer, the blocking and the deadline lock, the unlock and    *)
(* the two semaphore-cell helpers, over the kernel semaphore records that  *)
(* KernelSemaphore models (a wait by the record's owner nests and returns  *)
(* 10, a signal by a stranger returns 9, a signal of a nested record       *)
(* returns 10).                                                            *)
(*                                                                         *)
(* The mutex words are read and written without any lock, so every read or *)
(* write another thread can observe in between is a step of its own.       *)
(***************************************************************************)
EXTENDS Naturals, FiniteSets

CONSTANTS Task,            \* threads; the ROM never hands out thread 0
          NoTask,          \* owner word 0
          Handle,          \* kernel objects the allocator can hand out
          NoHandle,        \* handle word 0
          Kind,            \* the mutex kinds an attribute may select
          RecursionLimit,  \* RECURSION_LIMIT, 0xffff in the code
          MaxCount,        \* bound on a kernel record's recursion halfword
          Birth            \* the magic a mutex may start with: "static", which the
                           \* first call has to initialize, or "live"

AllKinds == {"normal", "errorcheck", "recursive", "reserved"}

ASSUME NoTaskAssumption == NoTask \notin Task
ASSUME HandleAssumption == NoHandle \notin Handle /\ Handle # {}
ASSUME KindAssumption == Kind \subseteq AllKinds
ASSUME LimitAssumption == RecursionLimit \in Nat \ {0} /\ MaxCount \in Nat \ {0}
ASSUME BirthAssumption == Birth \subseteq {"static", "live"}

VARIABLES magic,      \* +0x00 "static" until the initializer ends, then "live"
          mowner,     \* +0x04 owner
          kind,       \* +0x0e kind bits
          recursion,  \* +0x12 recursion count
          handle,     \* +0x14 the semaphore's ROM handle
          created,    \* the kernel objects created so far
          sem,        \* the kernel records: [owner, count]
          pc, op,     \* where each thread stands, and in which call
          cell,       \* the handle each thread read before it waited
          inside,     \* successful locks each thread has not unlocked yet
          ret         \* status of each thread's last call

vars == <<magic, mowner, kind, recursion, handle, created, sem, pc, op, cell, inside, ret>>
mutexVars == <<magic, mowner, kind, recursion, handle, created>>

Ok == 0
ErrNotOwner == 5
ErrWouldDeadlock == 15     \* 0x0f
ErrInvalidObject == 26     \* 0x1a
Err27 == 39                \* 0x27: create failed, recursion overflow, release failed
ErrClock == 100            \* the clock read's own status
ErrTimedOut == 101         \* the bounded wait's own status

FreeSem == [owner |-> NoTask, count |-> 0]

Init ==
    /\ kind \in Kind
    /\ mowner = NoTask
    /\ recursion = 0
    /\ magic \in Birth
    /\ IF magic = "static" THEN handle = NoHandle /\ created = {}
                           ELSE handle \in Handle /\ created = {handle}
    /\ sem = [h \in Handle |-> FreeSem]
    /\ pc = [t \in Task |-> "idle"]
    /\ op = [t \in Task |-> "lock"]
    /\ cell = [t \in Task |-> NoHandle]
    /\ inside = [t \in Task |-> 0]
    /\ ret = [t \in Task |-> Ok]

Goto(t, label) == pc' = [pc EXCEPT ![t] = label]
Return(t, status) == Goto(t, "idle") /\ ret' = [ret EXCEPT ![t] = status]

-----------------------------------------------------------------------------
(* Entry and the lazy initializer *)

Checking(o) == IF o = "unlock" THEN "ucheck" ELSE "check"

\* The bound on the recursion halfword of a kernel record: a thread that filled
\* it does not call lock again.
HasRoom(t) == \A h \in Handle : sem[h].owner = t => sem[h].count < MaxCount

\* The deadline entry point does not run the initializer: it is reached with
\* a live mutex only.
Enter(t, o) ==
    /\ pc[t] = "idle"
    /\ o # "unlock" => HasRoom(t)
    /\ o = "deadline" => magic = "live"
    /\ op' = [op EXCEPT ![t] = o]
    /\ Goto(t, IF magic = "static" THEN "init" ELSE Checking(o))
    /\ UNCHANGED <<mutexVars, sem, cell, inside, ret>>

EnterNull(t) ==
    /\ pc[t] = "idle"
    /\ Return(t, ErrInvalidObject)
    /\ UNCHANGED <<mutexVars, sem, op, cell, inside>>

\* Mutation: the status of the failed allocation is not looked at.
InitFailsUnnoticed(t) ==
    /\ pc[t] = "init"
    /\ handle' \in Handle \cup {NoHandle}
    /\ Goto(t, "fields")
    /\ UNCHANGED <<magic, mowner, kind, recursion, created, sem, op, cell, inside, ret>>

\* The attribute initializer or the object allocation failed.  The allocator
\* gets the address of the handle word, and whatever the kernel wrote there
\* before it reported the failure, 0 included, stays.
InitFails(t) ==
    /\ pc[t] = "init"
    /\ \/ Return(t, ErrInvalidObject) /\ UNCHANGED handle
       \/ Return(t, Err27) /\ handle' \in Handle \cup {NoHandle}
    /\ UNCHANGED <<magic, mowner, kind, recursion, created, sem, op, cell, inside>>

InitAllocates(t) ==
    /\ pc[t] = "init"
    /\ \E h \in Handle \ created : handle' = h /\ created' = created \cup {h}
    /\ Goto(t, "fields")
    /\ UNCHANGED <<magic, mowner, kind, recursion, sem, op, cell, inside, ret>>

InitFields(t) ==
    /\ pc[t] = "fields"
    /\ mowner' = NoTask
    /\ recursion' = 0
    /\ magic' = "live"
    /\ Goto(t, Checking(op[t]))
    /\ UNCHANGED <<kind, handle, created, sem, op, cell, inside, ret>>

-----------------------------------------------------------------------------
(* posix_mutex_lock_deadline *)

\* Mutation: the count may reach one more than the limit.
BelowLimitOffByOne(n) == n <= RecursionLimit

\* The recursion count can take one more hold.
BelowLimit(n) == n < RecursionLimit

OwnedBy(t) == mowner = t

LockNests(t) ==
    /\ pc[t] = "check"
    /\ OwnedBy(t)
    /\ kind = "recursive"
    /\ BelowLimit(recursion)
    /\ recursion' = recursion + 1
    /\ inside' = [inside EXCEPT ![t] = @ + 1]
    /\ Return(t, Ok)
    /\ UNCHANGED <<magic, mowner, kind, handle, created, sem, op, cell>>

LockOverflows(t) ==
    /\ pc[t] = "check"
    /\ OwnedBy(t)
    /\ kind = "recursive"
    /\ ~BelowLimit(recursion)
    /\ Return(t, Err27)
    /\ UNCHANGED <<mutexVars, sem, op, cell, inside>>

LockRefused(t) ==
    /\ pc[t] = "check"
    /\ OwnedBy(t)
    /\ kind = "errorcheck"
    /\ Return(t, ErrWouldDeadlock)
    /\ UNCHANGED <<mutexVars, sem, op, cell, inside>>

\* Mutation: an error-checking mutex falls through to the wait as well.
FallsThroughUnchecked(t) == OwnedBy(t) => kind # "recursive"

\* Not the owner, or a kind that does not look at the owner.
FallsThrough(t) == OwnedBy(t) => kind \in {"normal", "reserved"}

LockProceeds(t) ==
    /\ pc[t] = "check"
    /\ FallsThrough(t)
    /\ Goto(t, "cell")
    /\ UNCHANGED <<mutexVars, sem, op, cell, inside, ret>>

ClockFails(t) ==
    /\ pc[t] = "cell"
    /\ op[t] = "deadline"
    /\ Return(t, ErrClock)
    /\ UNCHANGED <<mutexVars, sem, op, cell, inside>>

\* semaphore_cell_acquire reads the handle, then waits on what it read.
ReadCell(t) ==
    /\ pc[t] = "cell"
    /\ cell' = [cell EXCEPT ![t] = handle]
    /\ IF handle = NoHandle THEN Return(t, ErrInvalidObject)
                            ELSE Goto(t, "wait") /\ UNCHANGED ret
    /\ UNCHANGED <<mutexVars, sem, op, inside>>

WaitGranted(t) ==
    /\ pc[t] = "wait"
    /\ sem[cell[t]].owner = NoTask
    /\ sem' = [sem EXCEPT ![cell[t]] = [owner |-> t, count |-> 1]]
    /\ Goto(t, "claim")
    /\ UNCHANGED <<mutexVars, op, cell, inside, ret>>

\* The record is this thread's already: the ROM nests it and answers 10.
WaitNested(t) ==
    /\ pc[t] = "wait"
    /\ sem[cell[t]].owner = t
    /\ sem' = [sem EXCEPT ![cell[t]].count = @ + 1]
    /\ Return(t, ErrWouldDeadlock)
    /\ UNCHANGED <<mutexVars, op, cell, inside>>

\* Mutation: an expired wait is taken for a granted one.
WaitTimesOutClaims(t) ==
    /\ pc[t] = "wait"
    /\ op[t] = "deadline"
    /\ sem[cell[t]].owner \notin {NoTask, t}
    /\ Goto(t, "claim")
    /\ UNCHANGED <<mutexVars, sem, op, cell, inside, ret>>

WaitTimesOut(t) ==
    /\ pc[t] = "wait"
    /\ op[t] = "deadline"
    /\ sem[cell[t]].owner \notin {NoTask, t}
    /\ Return(t, ErrTimedOut)
    /\ UNCHANGED <<mutexVars, sem, op, cell, inside>>

Claim(t) ==
    /\ pc[t] = "claim"
    /\ mowner' = t
    /\ recursion' = 1
    /\ inside' = [inside EXCEPT ![t] = @ + 1]
    /\ Return(t, Ok)
    /\ UNCHANGED <<magic, kind, handle, created, sem, op, cell>>

-----------------------------------------------------------------------------
(* posix_mutex_unlock *)

UnlockRefused(t) ==
    /\ pc[t] = "ucheck"
    /\ ~OwnedBy(t)
    /\ Return(t, ErrNotOwner)
    /\ UNCHANGED <<mutexVars, sem, op, cell, inside>>

\* Mutation: the nesting of a recursive mutex is forgotten.
StaysHeldNever == FALSE

\* A recursive mutex is released by the unlock that brings its count to zero.
StaysHeld == kind = "recursive" /\ recursion # 1

UnlockNested(t) ==
    /\ pc[t] = "ucheck"
    /\ OwnedBy(t)
    /\ StaysHeld
    /\ recursion' = recursion - 1
    /\ inside' = [inside EXCEPT ![t] = @ - 1]
    /\ Return(t, Ok)
    /\ UNCHANGED <<magic, mowner, kind, handle, created, sem, op, cell>>

\* Mutation: the owner word is left behind.
UnlockLastKeepsOwner(t) ==
    /\ pc[t] = "ucheck"
    /\ OwnedBy(t)
    /\ ~StaysHeld
    /\ recursion' = 0
    /\ inside' = [inside EXCEPT ![t] = @ - 1]
    /\ Goto(t, "release")
    /\ UNCHANGED <<magic, mowner, kind, handle, created, sem, op, cell, ret>>

UnlockLast(t) ==
    /\ pc[t] = "ucheck"
    /\ OwnedBy(t)
    /\ ~StaysHeld
    /\ recursion' = 0
    /\ mowner' = NoTask
    /\ inside' = [inside EXCEPT ![t] = @ - 1]
    /\ Goto(t, "release")
    /\ UNCHANGED <<magic, kind, handle, created, sem, op, cell, ret>>

\* Mutation: the owner is cleared and the kernel object is not signalled.
ReleaseForgotten(t) ==
    /\ pc[t] = "release"
    /\ Return(t, Ok)
    /\ UNCHANGED <<mutexVars, sem, op, cell, inside>>

\* semaphore_cell_signal: a stranger's signal (9) and a nested one (10) both
\* come back as 0x27, the nested one with the record still owned.
Release(t) ==
    /\ pc[t] = "release"
    /\ LET s == sem[handle] IN
       \/ /\ handle = NoHandle
          /\ Return(t, ErrInvalidObject)
          /\ UNCHANGED sem
       \/ /\ handle # NoHandle /\ s.owner # t
          /\ Return(t, Err27)
          /\ UNCHANGED sem
       \/ /\ handle # NoHandle /\ s.owner = t /\ s.count > 1
          /\ sem' = [sem EXCEPT ![handle].count = @ - 1]
          /\ Return(t, Err27)
       \/ /\ handle # NoHandle /\ s.owner = t /\ s.count <= 1
          /\ sem' = [sem EXCEPT ![handle] = FreeSem]
          /\ Return(t, Ok)
    /\ UNCHANGED <<mutexVars, op, cell, inside>>

-----------------------------------------------------------------------------
Initialize(t) == InitFails(t) \/ InitAllocates(t) \/ InitFields(t)
Lock(t) == \/ LockNests(t) \/ LockOverflows(t) \/ LockRefused(t) \/ LockProceeds(t)
           \/ ClockFails(t) \/ ReadCell(t)
           \/ WaitGranted(t) \/ WaitNested(t) \/ WaitTimesOut(t) \/ Claim(t)
Unlock(t) == UnlockRefused(t) \/ UnlockNested(t) \/ UnlockLast(t) \/ Release(t)

Calls(t) == \E o \in {"lock", "deadline", "unlock"} : Enter(t, o)
Next == \E t \in Task :
            Calls(t) \/ EnterNull(t) \/ Initialize(t) \/ Lock(t) \/ Unlock(t)

Spec == Init /\ [][Next]_vars

\* Callers that do not race for the first call: while a thread initializes the
\* mutex, no other thread calls.  The code does not see to this (Spec), and for
\* a mutex that starts live it says nothing.
NobodyInitializes == \A u \in Task : pc[u] \notin {"init", "fields"}
SoleNext == \E t \in Task :
                \/ NobodyInitializes /\ Calls(t)
                \/ EnterNull(t) \/ Initialize(t) \/ Lock(t) \/ Unlock(t)
SoleSpec == Init /\ [][SoleNext]_vars

\* The scheduler runs a ready thread; a free record is given to a waiter
\* sooner or later (KernelSemaphore's ContenderServed); and a thread does not
\* stay inside for ever: whatever its nesting level, it unlocks sooner or later.
EnterUnlockAt(t, n) == inside[t] = n /\ Enter(t, "unlock")
Fairness == \A t \in Task :
                /\ WF_vars(Initialize(t) \/ Lock(t) \/ Unlock(t))
                /\ SF_vars(WaitGranted(t))
                /\ \A n \in 1 .. RecursionLimit : SF_vars(EnterUnlockAt(t, n))
FairSpec == SoleSpec /\ Fairness

-----------------------------------------------------------------------------
(* Properties *)

Labels == {"idle", "init", "fields", "check", "cell", "wait", "claim", "ucheck", "release"}
Statuses == {Ok, ErrNotOwner, ErrWouldDeadlock, ErrInvalidObject, Err27, ErrClock, ErrTimedOut}

\* The mutex words keep their types; in particular the recursion count never
\* passes its limit.
TypeOK ==
    /\ magic \in {"static", "live"}
    /\ mowner \in Task \cup {NoTask}
    /\ kind \in AllKinds
    /\ recursion \in 0 .. RecursionLimit
    /\ handle \in Handle \cup {NoHandle}
    /\ created \subseteq Handle
    /\ sem \in [Handle -> [owner : Task \cup {NoTask}, count : 0 .. MaxCount]]
    /\ pc \in [Task -> Labels]
    /\ op \in [Task -> {"lock", "deadline", "unlock"}]
    /\ cell \in [Task -> Handle \cup {NoHandle}]
    /\ inside \in [Task -> 0 .. RecursionLimit]
    /\ ret \in [Task -> Statuses]

\* What every client brackets its critical sections for: no two threads are
\* between a successful lock and its unlock.
MutualExclusion ==
    \A t, u \in Task : inside[t] > 0 /\ inside[u] > 0 => t = u

\* The unsynchronized owner word and the kernel record never disagree: a
\* thread named as owner holds the semaphore behind the mutex, and its count
\* is the number of unlocks it still owes.
OwnerWordIsTrue ==
    \A t \in Task :
        /\ mowner = t => handle # NoHandle /\ sem[handle].owner = t /\ recursion = inside[t]
        /\ mowner # t => inside[t] = 0

\* For the kinds that look at the owner, the semaphore is never left with a
\* thread that is not inside: refused, overflowing, timed out and clock-failed
\* locks leave no hold behind.
SemaphoreNotLeaked ==
    kind \in {"errorcheck", "recursive"} =>
        \A h \in Handle : \A t \in Task :
            sem[h].owner = t => /\ sem[h].count = 1
                                /\ inside[t] > 0 \/ pc[t] \in {"claim", "release"}

\* Whoever saw the live magic finds a semaphore behind it: the initializer
\* publishes the magic after the handle, and an allocation that failed, whatever
\* it left in the handle word, leaves the static magic for the next call.
LiveHasSemaphore ==
    /\ magic = "live" => handle # NoHandle
    /\ \A t \in Task : pc[t] \in {"check", "cell", "wait", "claim", "ucheck", "release"}
                           => magic = "live"

\* The mutex is a re-entrant lock with the owner word as its holder.
AbstractLock == INSTANCE ResourceLock
                    WITH holder <- mowner, holds <- inside, MaxNest <- RecursionLimit
ImplementsLock == AbstractLock!LockSpec

\* A thread that waits for a mutex that tracks its owner comes back from lock.
LockReturns ==
    \A t \in Task : kind \in {"errorcheck", "recursive"} /\ pc[t] = "wait" ~> pc[t] = "idle"
=============================================================================
