----------------------- MODULE KernelSemaphoreProofs ------------------------
(***************************************************************************)
(* Theorems about KernelSemaphore for every set of tasks, every nesting    *)
(* bound and every width of the record's words.                            *)
(***************************************************************************)
EXTENDS KernelSemaphore, TLAPS

\* The waiter list is exactly the set of parked tasks, and a wake in flight
\* always still has a task to hand the record to.
ParkedAreListed ==
    /\ \A t \in Task : t \in waiters <=> pc[t] = "parked"
    /\ \A t \in Task : pc[t] = "dispatch15" =>
                          owner = t /\ recursion = 1 /\ waiters # {}

\* A task on its way to the waiter list, or on it, is not the owner.
ContendersDoNotOwn ==
    \A t \in Task : pc[t] \in {"dispatch14", "parked"} => owner # t

\* The inductive invariant: the record agrees with every task's holds, and
\* the waiter list with every task's place.
IInv ==
    /\ TypeOK
    /\ RecordCountsHolds
    /\ ParkedAreListed
    /\ ContendersDoNotOwn

\* wrapping_add(1) of a halfword below its last value is plain addition.
LEMMA WrapIncBelow ==
    ASSUME NEW modulus \in Nat, NEW n \in Nat, n + 1 < modulus
    PROVE  WrapInc(n, modulus) = n + 1
  BY DEF WrapInc

\* wrapping_add(1) stays within the word, whatever its width.
LEMMA WrapIncInRange ==
    ASSUME NEW modulus \in Nat \ {0}, NEW n \in 0 .. (modulus - 1)
    PROVE  WrapInc(n, modulus) \in 0 .. (modulus - 1)
  BY DEF WrapInc

\* The initial record satisfies the inductive invariant.
LEMMA InitInvariant == Init => IInv
<1> SUFFICES ASSUME Init PROVE IInv
  OBVIOUS
<1> USE NoTaskAssumption, MaxNestAssumption, ModulusAssumption, CounterAssumption
<1>1. TypeOK
  BY DEF Init, TypeOK, RcDone, RcNotOwner, RcNested
<1>2. RecordCountsHolds
  BY DEF Init, RecordCountsHolds
<1>3. ParkedAreListed /\ ContendersDoNotOwn
  BY DEF Init, ParkedAreListed, ContendersDoNotOwn
<1>4. QED
  BY <1>1, <1>2, <1>3 DEF IInv

\* Every step of every task preserves the inductive invariant.
LEMMA StepInvariant == IInv /\ [Next]_vars => IInv'
<1> SUFFICES ASSUME IInv, [Next]_vars PROVE IInv'
  OBVIOUS
<1> USE NoTaskAssumption, MaxNestAssumption, ModulusAssumption, CounterAssumption
<1> USE DEF IInv, TypeOK, RecordCountsHolds, ParkedAreListed,
            ContendersDoNotOwn, RcDone, RcNotOwner, RcNested
<1>a. WrapInc(acquisitions, CounterModulus) \in 0 .. (CounterModulus - 1)
  BY WrapIncInRange
<1>1. ASSUME NEW t \in Task, WaitClaim(t) PROVE IInv'
  BY <1>1, <1>a DEF WaitClaim, MayWait, Claimable, Returns
<1>2. ASSUME NEW t \in Task, WaitNested(t) PROVE IInv'
  <2>1. WrapInc(recursion, RecursionModulus) = recursion + 1
    BY <1>2, WrapIncBelow DEF WaitNested, MayWait
  <2>2. QED
    BY <1>2, <1>a, <2>1 DEF WaitNested, MayWait, Returns
<1>3. ASSUME NEW t \in Task, WaitContended(t) PROVE IInv'
  BY <1>3 DEF WaitContended, MayWait
<1>4. ASSUME NEW t \in Task, Service14Grant(t) PROVE IInv'
  BY <1>4 DEF Service14Grant, Regrants, Returns
<1>5. ASSUME NEW t \in Task, Service14Park(t) PROVE IInv'
  BY <1>5 DEF Service14Park, Regrants
<1>6. ASSUME NEW t \in Task, SignalNotOwner(t) PROVE IInv'
  BY <1>6 DEF SignalNotOwner, Returns
<1>7. ASSUME NEW t \in Task, SignalNested(t) PROVE IInv'
  BY <1>7 DEF SignalNested, Returns
<1>8. ASSUME NEW t \in Task, SignalFree(t) PROVE IInv'
  BY <1>8 DEF SignalFree, Returns
<1>9. ASSUME NEW t \in Task, SignalWake(t) PROVE IInv'
  BY <1>9 DEF SignalWake
<1>10. ASSUME NEW t \in Task, Service15(t) PROVE IInv'
  <2>1. PICK u \in waiters :
            /\ owner' = u
            /\ recursion' = 1
            /\ waiters' = waiters \ {u}
            /\ nest' = [nest EXCEPT ![t] = @ - 1, ![u] = 1]
            /\ pc' = [pc EXCEPT ![t] = "run", ![u] = "run"]
            /\ rc' = [rc EXCEPT ![t] = 0, ![u] = 0]
    BY <1>10 DEF Service15
  <2>2. u # t /\ owner = t /\ recursion = 1 /\ nest[t] = 1 /\ acquisitions' = acquisitions
    BY <1>10, <2>1 DEF Service15
  <2>3. TypeOK'
    BY <2>1, <2>2
  <2>4. RecordCountsHolds'
    BY <2>1, <2>2
  <2>5. (ParkedAreListed /\ ContendersDoNotOwn)'
    BY <2>1, <2>2
  <2>6. QED
    BY <2>3, <2>4, <2>5
<1>11. CASE UNCHANGED vars
  BY <1>11 DEF vars
<1>12. QED
  BY <1>1, <1>2, <1>3, <1>4, <1>5, <1>6, <1>7, <1>8, <1>9, <1>10, <1>11
     DEF Next, Wait, Signal, Service14

\* The inductive invariant holds in every reachable state.
LEMMA InductiveInvariant == Spec => []IInv
  BY InitInvariant, StepInvariant, PTL DEF Spec

\* The record's words and the tasks' places keep their types.
THEOREM TypeCorrect == Spec => []TypeOK
<1>1. IInv => TypeOK
  BY DEF IInv
<1>2. QED
  BY <1>1, InductiveInvariant, PTL

\* Two callers of kernel_semaphore_wait are never both inside, however their
\* waits, nested waits, foreign signals and gateway requests interleave.
THEOREM MutualExclusionHolds == Spec => []MutualExclusion
<1>1. IInv => MutualExclusion
  BY NoTaskAssumption DEF IInv, TypeOK, RecordCountsHolds, MutualExclusion
<1>2. QED
  BY <1>1, InductiveInvariant, PTL

\* The recursion halfword counts exactly the owner's open holds.
THEOREM RecordCountsHoldsAlways == Spec => []RecordCountsHolds
<1>1. IInv => RecordCountsHolds
  BY DEF IInv
<1>2. QED
  BY <1>1, InductiveInvariant, PTL

\* The record with its split wait and signal implements the atomic re-entrant
\* lock: each step is one of the lock's operations or leaves the lock alone.
THEOREM Refinement == Spec => ImplementsLock
<1> USE NoTaskAssumption, MaxNestAssumption, ModulusAssumption
<1>1. Init => Lock!LockInit
  BY DEF Init, Lock!LockInit
<1>2. ASSUME IInv, [Next]_vars PROVE [Lock!LockNext]_(Lock!lockVars)
  <2> USE DEF IInv, TypeOK, RecordCountsHolds, ParkedAreListed, ContendersDoNotOwn
  <2>1. ASSUME NEW t \in Task, WaitClaim(t) PROVE Lock!Acquire(t)
    BY <1>2, <2>1 DEF WaitClaim, Claimable, MayWait, Lock!Acquire
  <2>2. ASSUME NEW t \in Task, WaitNested(t) PROVE Lock!Acquire(t)
    BY <1>2, <2>2 DEF WaitNested, MayWait, Lock!Acquire
  <2>3. ASSUME NEW t \in Task, Service14Grant(t) PROVE Lock!Acquire(t)
    <3>1. owner = NoTask /\ nest[t] = 0 /\ owner' = t
      BY <1>2, <2>3 DEF Service14Grant, Regrants
    <3>2. nest' = [nest EXCEPT ![t] = @ + 1]
      BY <2>3, <3>1 DEF Service14Grant
    <3>3. QED
      BY <3>1, <3>2 DEF Lock!Acquire
  <2>4. ASSUME NEW t \in Task, SignalNested(t) \/ SignalFree(t) PROVE Lock!Release(t)
    BY <1>2, <2>4 DEF SignalNested, SignalFree, Lock!Release
  <2>5. ASSUME NEW t \in Task, Service15(t) PROVE \E u \in Task : Lock!Handoff(t, u)
    <3>1. PICK u \in waiters :
              /\ owner' = u
              /\ nest' = [nest EXCEPT ![t] = @ - 1, ![u] = 1]
      BY <2>5 DEF Service15
    <3>2. u \in Task /\ u # t /\ owner = t /\ nest[t] = 1
      BY <1>2, <2>5, <3>1 DEF Service15
    <3>3. nest' = [nest EXCEPT ![t] = 0, ![u] = 1]
      BY <1>2, <3>1, <3>2
    <3>4. QED
      BY <3>1, <3>2, <3>3 DEF Lock!Handoff
  <2>6. ASSUME NEW t \in Task,
               \/ WaitContended(t) \/ Service14Park(t)
               \/ SignalNotOwner(t) \/ SignalWake(t)
        PROVE  UNCHANGED Lock!lockVars
    BY <2>6 DEF WaitContended, Service14Park, SignalNotOwner, SignalWake, Lock!lockVars
  <2>7. CASE UNCHANGED vars
    BY <2>7 DEF vars, Lock!lockVars
  <2>8. QED
    BY <1>2, <2>1, <2>2, <2>3, <2>4, <2>5, <2>6, <2>7
       DEF Next, Wait, Signal, Service14, Lock!LockNext
<1>3. QED
  BY <1>1, <1>2, InductiveInvariant, PTL DEF Spec, ImplementsLock, Lock!LockSpec
=============================================================================
