-------------------------- MODULE PosixMutexProofs --------------------------
(***************************************************************************)
(* Theorems about PosixMutex for every set of threads, every kind and      *)
(* every recursion limit: first for callers that do not race for the first *)
(* call (SoleSpec), initializer and failing allocations included, then for *)
(* a mutex that is live before its threads start, whatever they do (Spec). *)
(* The run posix_mutex_race shows what a race for the first call does.     *)
(***************************************************************************)
EXTENDS PosixMutex, TLAPS

\* How far the initializer is: one thread is in it, nothing is held and nobody is
\* past it; before the magic is published, and from then on, the handle names a
\* semaphore, although a failed allocation may have left anything in it before.
Initializing ==
    /\ \A t \in Task : pc[t] \in {"init", "fields"} => magic = "static"
    /\ \A t, u \in Task : pc[t] \in {"init", "fields"} /\ pc[u] \in {"init", "fields"} => t = u
    /\ \A t \in Task : pc[t] = "fields" => handle # NoHandle
    /\ magic = "live" => handle # NoHandle
    /\ magic = "static" =>
          /\ mowner = NoTask
          /\ \A h \in Handle : sem[h].owner = NoTask
          /\ \A t \in Task : inside[t] = 0 /\ pc[t] \in {"idle", "init", "fields"}

\* A thread between its granted wait and its claim, or between the cleared
\* owner word and the signal, holds the record although no word names it.
InTransit ==
    \A t \in Task : pc[t] \in {"claim", "release"}
                        => sem[handle].owner = t /\ mowner # t

\* A waiting thread waits on the mutex's own record and can be nested there.
Waiting ==
    \A t \in Task :
        /\ pc[t] = "wait" => cell[t] = handle
        /\ pc[t] \in {"check", "cell", "wait"} => HasRoom(t)

\* Whoever is named as owner is inside, and only a recursive mutex counts.
OwnerIsInside ==
    /\ \A t \in Task : mowner = t => inside[t] > 0
    /\ kind # "recursive" => recursion \in {0, 1}
    /\ mowner = NoTask => recursion = 0

\* The inductive invariant of a mutex that is initialized by one thread at a time.
IInv == TypeOK /\ Initializing /\ OwnerWordIsTrue /\ InTransit /\ Waiting /\ OwnerIsInside

\* A mutex starts free.
LEMMA InitInvariant == Init => IInv
<1> SUFFICES ASSUME Init PROVE IInv
  OBVIOUS
<1> USE NoTaskAssumption, HandleAssumption, KindAssumption, LimitAssumption, BirthAssumption
<1> USE DEF Init, FreeSem
<1>1. TypeOK
  BY DEF TypeOK, Labels, Statuses, Ok, AllKinds
<1>2. Initializing /\ OwnerWordIsTrue /\ InTransit
  BY DEF Initializing, OwnerWordIsTrue, InTransit
<1>3. Waiting /\ OwnerIsInside
  BY DEF Waiting, OwnerIsInside
<1>4. QED
  BY <1>1, <1>2, <1>3 DEF IInv

\* Every step of every thread preserves the invariant.
LEMMA StepInvariant == IInv /\ [SoleNext]_vars => IInv'
<1> SUFFICES ASSUME IInv, [SoleNext]_vars PROVE IInv'
  OBVIOUS
<1> USE NoTaskAssumption, HandleAssumption, KindAssumption, LimitAssumption
<1> USE DEF IInv, TypeOK, Initializing, OwnerWordIsTrue, InTransit, Waiting, OwnerIsInside,
            HasRoom, Labels, Statuses, Ok, ErrNotOwner, ErrWouldDeadlock, ErrInvalidObject,
            Err27, ErrClock, ErrTimedOut, Goto, Return, mutexVars, OwnedBy
<1>1. ASSUME NEW t \in Task, NobodyInitializes,
             NEW o \in {"lock", "deadline", "unlock"}, Enter(t, o)
      PROVE  IInv'
  BY <1>1 DEF Enter, Checking, NobodyInitializes
<1>2. ASSUME NEW t \in Task, EnterNull(t) PROVE IInv'
  BY <1>2 DEF EnterNull
<1>3. ASSUME NEW t \in Task, Initialize(t) PROVE IInv'
  <2>1. CASE InitFails(t)
    BY <2>1 DEF InitFails
  <2>2. CASE InitAllocates(t)
    BY <2>2 DEF InitAllocates
  <2>3. CASE InitFields(t)
    BY <2>3 DEF InitFields, Checking
  <2>4. QED
    BY <1>3, <2>1, <2>2, <2>3 DEF Initialize
<1>4. ASSUME NEW t \in Task, LockNests(t) PROVE IInv'
  BY <1>4 DEF LockNests, BelowLimit
<1>5. ASSUME NEW t \in Task, LockOverflows(t) PROVE IInv'
  BY <1>5 DEF LockOverflows
<1>6. ASSUME NEW t \in Task, LockRefused(t) PROVE IInv'
  BY <1>6 DEF LockRefused
<1>7. ASSUME NEW t \in Task, LockProceeds(t) PROVE IInv'
  BY <1>7 DEF LockProceeds
<1>8. ASSUME NEW t \in Task, ClockFails(t) PROVE IInv'
  BY <1>8 DEF ClockFails
<1>9. ASSUME NEW t \in Task, ReadCell(t) PROVE IInv'
  BY <1>9 DEF ReadCell
<1>10. ASSUME NEW t \in Task, WaitGranted(t) PROVE IInv'
  BY <1>10 DEF WaitGranted
<1>11. ASSUME NEW t \in Task, WaitNested(t) PROVE IInv'
  BY <1>11 DEF WaitNested
<1>12. ASSUME NEW t \in Task, WaitTimesOut(t) PROVE IInv'
  BY <1>12 DEF WaitTimesOut
<1>13. ASSUME NEW t \in Task, Claim(t) PROVE IInv'
  BY <1>13 DEF Claim
<1>14. ASSUME NEW t \in Task, UnlockRefused(t) PROVE IInv'
  BY <1>14 DEF UnlockRefused
<1>15. ASSUME NEW t \in Task, UnlockNested(t) PROVE IInv'
  BY <1>15 DEF UnlockNested, StaysHeld
<1>16. ASSUME NEW t \in Task, UnlockLast(t) PROVE IInv'
  BY <1>16 DEF UnlockLast, StaysHeld
\* The thread that gave up the owner word still holds the record.
<1>17. ASSUME NEW t \in Task, Release(t) PROVE IInv'
  <2>1. pc[t] = "release" /\ sem[handle].owner = t /\ handle \in Handle /\ magic = "live"
    BY <1>17 DEF Release
  <2>2. UNCHANGED <<mutexVars, op, cell, inside>> /\ pc' = [pc EXCEPT ![t] = "idle"]
    BY <1>17 DEF Release
  <2>3. CASE sem[handle].count > 1
    <3>1. sem' = [sem EXCEPT ![handle].count = @ - 1] /\ ret' = [ret EXCEPT ![t] = Err27]
      BY <1>17, <2>1, <2>3 DEF Release
    <3>2. QED
      BY <2>1, <2>2, <2>3, <3>1
  <2>4. CASE sem[handle].count <= 1
    <3>1. sem' = [sem EXCEPT ![handle] = FreeSem] /\ ret' = [ret EXCEPT ![t] = Ok]
      BY <1>17, <2>1, <2>4 DEF Release
    <3>2. QED
      BY <2>1, <2>2, <3>1 DEF FreeSem
  <2>5. QED
    BY <2>1, <2>3, <2>4
<1>18. CASE UNCHANGED vars
  BY <1>18 DEF vars
<1>19. QED
  BY <1>1, <1>2, <1>3, <1>4, <1>5, <1>6, <1>7, <1>8, <1>9, <1>10, <1>11, <1>12,
     <1>13, <1>14, <1>15, <1>16, <1>17, <1>18 DEF SoleNext, Calls, Lock, Unlock

\* The invariant holds for as long as the first calls do not race.
LEMMA Invariant == SoleSpec => []IInv
  BY InitInvariant, StepInvariant, PTL DEF SoleSpec

-----------------------------------------------------------------------------
(* A mutex that is live before its threads start *)

AlreadyLive ==
    /\ pc \in [Task -> Labels]
    /\ magic = "live"
    /\ NobodyInitializes

\* With the magic live nobody gets into the initializer, which is the only place
\* that writes it.
LEMMA StaysLive == AlreadyLive /\ [Next]_vars => AlreadyLive'
<1> SUFFICES ASSUME AlreadyLive, [Next]_vars PROVE AlreadyLive'
  OBVIOUS
<1> USE DEF AlreadyLive, NobodyInitializes, Labels, Goto, Return, mutexVars
<1>1. ASSUME NEW t \in Task, Calls(t) \/ EnterNull(t) PROVE AlreadyLive'
  BY <1>1 DEF Calls, Enter, EnterNull, Checking
<1>2. ASSUME NEW t \in Task, Initialize(t) PROVE FALSE
  BY <1>2 DEF Initialize, InitFails, InitAllocates, InitFields
<1>3. ASSUME NEW t \in Task, Lock(t) PROVE AlreadyLive'
  BY <1>3 DEF Lock, LockNests, LockOverflows, LockRefused, LockProceeds, ClockFails, ReadCell,
              WaitGranted, WaitNested, WaitTimesOut, Claim
<1>4. ASSUME NEW t \in Task, Unlock(t) PROVE AlreadyLive'
  BY <1>4 DEF Unlock, UnlockRefused, UnlockNested, UnlockLast, Release
<1>5. UNCHANGED vars => AlreadyLive'
  BY DEF vars
<1>6. QED
  BY <1>1, <1>2, <1>3, <1>4, <1>5 DEF Next

\* On such a mutex there is no first call to race for.
LEMMA LiveIsSole == ASSUME "static" \notin Birth PROVE Spec => SoleSpec
<1>1. Init => AlreadyLive
  BY BirthAssumption DEF Init, AlreadyLive, NobodyInitializes, Labels
<1>2. AlreadyLive /\ [Next]_vars => [SoleNext]_vars
  BY DEF AlreadyLive, Next, SoleNext
<1>3. QED
  BY <1>1, <1>2, StaysLive, PTL DEF Spec, SoleSpec

-----------------------------------------------------------------------------
(* Types, exclusion and the owner word *)

\* The mutex words keep their types while the first calls do not race; the
\* recursion count never passes its limit.
THEOREM SoleTypeCorrect == SoleSpec => []TypeOK
  BY Invariant, PTL DEF IInv

\* No two threads are between a successful lock and its unlock, for every kind,
\* with failed allocations, expired deadlines, failed clocks and self-locks in
\* between: only a race for the first call can break the exclusion.
THEOREM SoleExclusion == SoleSpec => []MutualExclusion
<1>1. IInv => MutualExclusion
  BY DEF IInv, OwnerWordIsTrue, MutualExclusion, TypeOK
<1>2. QED
  BY <1>1, Invariant, PTL

\* The owner word and the kernel record do not disagree, and the count is the
\* number of unlocks the owner owes, unless first calls race.
THEOREM SoleOwnerWordTrue == SoleSpec => []OwnerWordIsTrue
  BY Invariant, PTL DEF IInv

\* Whoever passes the test of the magic word finds a semaphore behind it, also
\* after allocations that failed and wrote the handle word all the same.
THEOREM SemaphoreBehindMagic == SoleSpec => []LiveHasSemaphore
<1>1. IInv => LiveHasSemaphore
  BY DEF IInv, Initializing, LiveHasSemaphore, TypeOK
<1>2. QED
  BY <1>1, Invariant, PTL

\* Of a mutex that is live beforehand the words always keep their types.
THEOREM TypeCorrect == ASSUME "static" \notin Birth PROVE Spec => []TypeOK
  BY SoleTypeCorrect, LiveIsSole, PTL

\* A mutex that is live beforehand always excludes.
THEOREM MutualExclusionHolds ==
    ASSUME "static" \notin Birth PROVE Spec => []MutualExclusion
  BY SoleExclusion, LiveIsSole, PTL

\* The owner word of a mutex that is live beforehand is always true.
THEOREM OwnerWordTrue ==
    ASSUME "static" \notin Birth PROVE Spec => []OwnerWordIsTrue
  BY SoleOwnerWordTrue, LiveIsSole, PTL

-----------------------------------------------------------------------------
\* For the kinds that look at the owner, nobody waits on a record it holds,
\* and no object but the mutex's own is ever taken.
WaitersHoldNothing ==
    kind \in {"errorcheck", "recursive"} =>
        /\ \A t \in Task : pc[t] \in {"cell", "wait"} => mowner # t
        /\ \A h \in Handle : h # handle => sem[h].owner = NoTask

\* The second inductive invariant: no record is held by a thread outside.
LeakInv == WaitersHoldNothing /\ SemaphoreNotLeaked

\* A mutex that starts free has no leaked semaphore.
LEMMA InitLeak == Init => LeakInv
  BY NoTaskAssumption, HandleAssumption
     DEF Init, FreeSem, LeakInv, WaitersHoldNothing, SemaphoreNotLeaked

\* No step leaves a hold behind.
LEMMA StepLeak == IInv /\ LeakInv /\ [SoleNext]_vars => LeakInv'
<1> SUFFICES ASSUME IInv, LeakInv, [SoleNext]_vars PROVE LeakInv'
  OBVIOUS
<1> USE NoTaskAssumption, HandleAssumption
<1> USE DEF IInv, TypeOK, Initializing, OwnerWordIsTrue, InTransit, Waiting, OwnerIsInside,
            LeakInv, WaitersHoldNothing, SemaphoreNotLeaked, Goto, Return, mutexVars, OwnedBy
<1>1. ASSUME NEW t \in Task, NEW o \in {"lock", "deadline", "unlock"}, Enter(t, o)
      PROVE  LeakInv'
  BY <1>1 DEF Enter, Checking
<1>2. ASSUME NEW t \in Task,
             \/ EnterNull(t) \/ LockOverflows(t) \/ LockRefused(t) \/ UnlockRefused(t)
             \/ ClockFails(t) \/ WaitTimesOut(t)
      PROVE  LeakInv'
  BY <1>2 DEF EnterNull, LockOverflows, LockRefused, UnlockRefused, ClockFails, WaitTimesOut
\* Nothing is held while the mutex is initialized.
<1>3. ASSUME NEW t \in Task, Initialize(t) PROVE LeakInv'
  <2>1. CASE InitFails(t)
    BY <2>1 DEF InitFails
  <2>2. CASE InitAllocates(t)
    BY <2>2 DEF InitAllocates
  <2>3. CASE InitFields(t)
    BY <2>3 DEF InitFields, Checking
  <2>4. QED
    BY <1>3, <2>1, <2>2, <2>3 DEF Initialize
<1>4. ASSUME NEW t \in Task, LockNests(t) PROVE LeakInv'
  BY <1>4 DEF LockNests
<1>5. ASSUME NEW t \in Task, LockProceeds(t) PROVE LeakInv'
  BY <1>5 DEF LockProceeds, FallsThrough
<1>6. ASSUME NEW t \in Task, ReadCell(t) PROVE LeakInv'
  BY <1>6 DEF ReadCell
<1>7. ASSUME NEW t \in Task, WaitGranted(t) PROVE LeakInv'
  BY <1>7 DEF WaitGranted
<1>8. ASSUME NEW t \in Task, WaitNested(t) PROVE LeakInv'
  BY <1>8 DEF WaitNested
<1>9. ASSUME NEW t \in Task, Claim(t) PROVE LeakInv'
  BY <1>9 DEF Claim
<1>10. ASSUME NEW t \in Task, UnlockNested(t) PROVE LeakInv'
  BY <1>10 DEF UnlockNested, StaysHeld
<1>11. ASSUME NEW t \in Task, UnlockLast(t) PROVE LeakInv'
  BY <1>11 DEF UnlockLast, StaysHeld
<1>12. ASSUME NEW t \in Task, Release(t) PROVE LeakInv'
  BY <1>12 DEF Release, FreeSem
<1>13. CASE UNCHANGED vars
  BY <1>13 DEF vars
<1>14. QED
  BY <1>1, <1>2, <1>3, <1>4, <1>5, <1>6, <1>7, <1>8, <1>9, <1>10, <1>11, <1>12, <1>13
     DEF SoleNext, Calls, Lock, Unlock

\* Refused, overflowing, expired and clock-failed locks of an error-checking
\* or recursive mutex leave the semaphore with no thread outside, unless first
\* calls race.
THEOREM SoleNoLeak == SoleSpec => []SemaphoreNotLeaked
<1>1. LeakInv => SemaphoreNotLeaked
  BY DEF LeakInv
<1>2. QED
  BY InitLeak, StepLeak, <1>1, Invariant, PTL DEF SoleSpec

\* The semaphore of a mutex that is live beforehand is never leaked.
THEOREM SemaphoreNeverLeaks ==
    ASSUME "static" \notin Birth PROVE Spec => []SemaphoreNotLeaked
  BY SoleNoLeak, LiveIsSole, PTL

-----------------------------------------------------------------------------
\* Unless first calls race, the mutex implements the re-entrant lock: the owner
\* word is its holder, and only a nested lock, a claim and an unlock are visible
\* steps.
THEOREM SoleRefinement == SoleSpec => ImplementsLock
<1>1. Init => AbstractLock!LockInit
  BY DEF Init, AbstractLock!LockInit
<1>2. ASSUME IInv, [SoleNext]_vars PROVE [AbstractLock!LockNext]_(AbstractLock!lockVars)
  <2> USE NoTaskAssumption, LimitAssumption
  <2> USE DEF IInv, TypeOK, Initializing, OwnerWordIsTrue, InTransit, OwnerIsInside, OwnedBy
  <2>1. ASSUME NEW t \in Task, LockNests(t) PROVE AbstractLock!Acquire(t)
    BY <1>2, <2>1 DEF LockNests, BelowLimit, AbstractLock!Acquire
  <2>2. ASSUME NEW t \in Task, Claim(t) PROVE AbstractLock!Acquire(t)
    <3>1. mowner = NoTask /\ inside[t] = 0
      BY <1>2, <2>2 DEF Claim
    <3>2. QED
      BY <1>2, <2>2, <3>1 DEF Claim, AbstractLock!Acquire
  <2>3. ASSUME NEW t \in Task, UnlockNested(t) \/ UnlockLast(t) PROVE AbstractLock!Release(t)
    BY <1>2, <2>3 DEF UnlockNested, UnlockLast, StaysHeld, AbstractLock!Release
  \* The initializer clears words that are clear.
  <2>4. ASSUME NEW t \in Task, Initialize(t) PROVE UNCHANGED AbstractLock!lockVars
    BY <1>2, <2>4 DEF Initialize, InitFails, InitAllocates, InitFields, mutexVars,
                      AbstractLock!lockVars
  <2>5. ASSUME NEW t \in Task, NEW o \in {"lock", "deadline", "unlock"}, Enter(t, o)
        PROVE  UNCHANGED AbstractLock!lockVars
    BY <2>5 DEF Enter, mutexVars, AbstractLock!lockVars
  <2>6. ASSUME NEW t \in Task,
               \/ EnterNull(t) \/ LockOverflows(t) \/ LockRefused(t) \/ LockProceeds(t)
               \/ ClockFails(t) \/ ReadCell(t) \/ WaitGranted(t) \/ WaitNested(t)
               \/ WaitTimesOut(t) \/ UnlockRefused(t) \/ Release(t)
        PROVE  UNCHANGED AbstractLock!lockVars
    BY <2>6 DEF EnterNull, LockOverflows, LockRefused, LockProceeds, ClockFails, ReadCell,
                WaitGranted, WaitNested, WaitTimesOut, UnlockRefused, Release, mutexVars,
                AbstractLock!lockVars
  <2>7. CASE UNCHANGED vars
    BY <2>7 DEF vars, AbstractLock!lockVars
  <2>8. QED
    BY <1>2, <2>1, <2>2, <2>3, <2>4, <2>5, <2>6, <2>7
       DEF SoleNext, Calls, Lock, Unlock, AbstractLock!LockNext
<1>3. QED
  BY <1>1, <1>2, Invariant, PTL DEF SoleSpec, ImplementsLock, AbstractLock!LockSpec

\* A mutex that is live beforehand implements the re-entrant lock.
THEOREM Refinement == ASSUME "static" \notin Birth PROVE Spec => ImplementsLock
  BY SoleRefinement, LiveIsSole, PTL
=============================================================================
