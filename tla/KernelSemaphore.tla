-------------------------- MODULE KernelSemaphore ---------------------------
(***************************************************************************)
(* One 32-byte record of the RTXC semaphore table: kernel_semaphore_wait   *)
(* (src/src/kernel/semaphore_wait.rs) and its mask-ROM partner, the signal *)
(* service, whose contract is recorded at rom_sem_signal in                *)
(* src/src/kernel/task_lock.rs.                                            *)
(*                                                                         *)
(* Everything between the table lock's enter and leave is one action.  The *)
(* contended wait leaves the table lock BEFORE it dispatches service 14,   *)
(* so the owner may release in between; a signal that found a waiter       *)
(* dispatches service 15 in a step of its own too.                         *)
(***************************************************************************)
EXTENDS Naturals, FiniteSets

CONSTANTS Task,             \* the tasks of the system
          NoTask,           \* owner word 0
          MaxNest,          \* bound on the nesting of one task's holds
          RecursionModulus, \* 2^16 in the code: the u16 recursion halfword
          CounterModulus    \* 2^32 in the code: the acquisition counter

ASSUME NoTaskAssumption == NoTask \notin Task
ASSUME MaxNestAssumption == MaxNest \in Nat \ {0}
ASSUME CounterAssumption == CounterModulus \in Nat \ {0}
\* No caller nests a lock as deep as the halfword is wide: the code has no
\* guard against it, and past the wrap a signal would free a held record.
ASSUME ModulusAssumption == RecursionModulus \in Nat /\ MaxNest < RecursionModulus

VARIABLES owner,        \* record +0: owning task or NoTask
          recursion,    \* record +4: nesting of the owner
          acquisitions, \* record +24: statistics, never read back
          waiters,      \* tasks parked on the record inside the ROM
          pc,           \* where each task stands
          nest,         \* acquisitions each task was granted and not yet undone
          rc            \* the result word of each task's last call

vars == <<owner, recursion, acquisitions, waiters, pc, nest, rc>>

\* Result words: 0 done, 9 not the owner, 10 nested.
RcDone == 0
RcNotOwner == 9
RcNested == 10

Init ==
    /\ owner = NoTask
    /\ recursion = 0
    /\ acquisitions = 0
    /\ waiters = {}
    /\ pc = [t \in Task |-> "run"]
    /\ nest = [t \in Task |-> 0]
    /\ rc = [t \in Task |-> RcDone]

\* Mutation: the word does not wrap.
WrapNever(n, modulus) == n + 1

\* wrapping_add(1) of a word that has the given modulus.
WrapInc(n, modulus) == IF n + 1 = modulus THEN 0 ELSE n + 1

Returns(t, code) == rc' = [rc EXCEPT ![t] = code]

-----------------------------------------------------------------------------
(* kernel_semaphore_wait *)

\* A caller waits only while its nesting is below the bound.
MayWait(t) == pc[t] = "run" /\ nest[t] < MaxNest

\* Mutation: the owner word is not tested.
ClaimableByAnyone == TRUE

\* Whether the record is free to claim.
Claimable == owner = NoTask

WaitClaim(t) ==
    /\ MayWait(t)
    /\ Claimable
    /\ acquisitions' = WrapInc(acquisitions, CounterModulus)
    /\ owner' = t
    /\ recursion' = 1
    /\ nest' = [nest EXCEPT ![t] = @ + 1]
    /\ Returns(t, RcDone)
    /\ UNCHANGED <<waiters, pc>>

\* Mutation: the nested wait writes 1 as the first claim does.
WaitNestedResets(t) ==
    /\ MayWait(t)
    /\ owner = t
    /\ acquisitions' = WrapInc(acquisitions, CounterModulus)
    /\ recursion' = 1
    /\ nest' = [nest EXCEPT ![t] = @ + 1]
    /\ Returns(t, RcNested)
    /\ UNCHANGED <<owner, waiters, pc>>

WaitNested(t) ==
    /\ MayWait(t)
    /\ owner = t
    /\ acquisitions' = WrapInc(acquisitions, CounterModulus)
    /\ recursion' = WrapInc(recursion, RecursionModulus)
    /\ nest' = [nest EXCEPT ![t] = @ + 1]
    /\ Returns(t, RcNested)
    /\ UNCHANGED <<owner, waiters, pc>>

\* Mutation: the task sleeps without having dispatched the request.
WaitContendedSleeps(t) ==
    /\ MayWait(t)
    /\ owner \notin {NoTask, t}
    /\ pc' = [pc EXCEPT ![t] = "parked"]
    /\ UNCHANGED <<owner, recursion, acquisitions, waiters, nest, rc>>

\* Another owner: leave the table lock, then dispatch {14, 0, id, 1, 0}.
WaitContended(t) ==
    /\ MayWait(t)
    /\ owner \notin {NoTask, t}
    /\ pc' = [pc EXCEPT ![t] = "dispatch14"]
    /\ UNCHANGED <<owner, recursion, acquisitions, waiters, nest, rc>>

-----------------------------------------------------------------------------
(* The mask ROM: service 14 (park), the signal, service 15 (wake). *)

\* The release may have come between the leave and this dispatch: the
\* service tests the record again and grants it rather than park.
Regrants == owner = NoTask

Service14Grant(t) ==
    /\ pc[t] = "dispatch14"
    /\ Regrants
    /\ owner' = t
    /\ recursion' = 1
    /\ nest' = [nest EXCEPT ![t] = 1]
    /\ pc' = [pc EXCEPT ![t] = "run"]
    /\ Returns(t, RcDone)
    /\ UNCHANGED <<acquisitions, waiters>>

Service14Park(t) ==
    /\ pc[t] = "dispatch14"
    /\ ~Regrants
    /\ waiters' = waiters \cup {t}
    /\ pc' = [pc EXCEPT ![t] = "parked"]
    /\ UNCHANGED <<owner, recursion, acquisitions, nest, rc>>

SignalNotOwner(t) ==
    /\ pc[t] = "run"
    /\ owner # t
    /\ Returns(t, RcNotOwner)
    /\ UNCHANGED <<owner, recursion, acquisitions, waiters, pc, nest>>

SignalNested(t) ==
    /\ pc[t] = "run"
    /\ owner = t
    /\ recursion > 1
    /\ recursion' = recursion - 1
    /\ nest' = [nest EXCEPT ![t] = @ - 1]
    /\ Returns(t, RcNested)
    /\ UNCHANGED <<owner, acquisitions, waiters, pc>>

SignalFree(t) ==
    /\ pc[t] = "run"
    /\ owner = t
    /\ recursion <= 1
    /\ waiters = {}
    /\ owner' = NoTask
    /\ recursion' = 0
    /\ nest' = [nest EXCEPT ![t] = @ - 1]
    /\ Returns(t, RcDone)
    /\ UNCHANGED <<acquisitions, waiters, pc>>

\* A task is parked: the wake goes through the gateway, {15, 0, id}.
SignalWake(t) ==
    /\ pc[t] = "run"
    /\ owner = t
    /\ recursion <= 1
    /\ waiters # {}
    /\ pc' = [pc EXCEPT ![t] = "dispatch15"]
    /\ UNCHANGED <<owner, recursion, acquisitions, waiters, nest, rc>>

\* The ROM picks the task to wake; which one is not recorded in the source.
Service15(t) ==
    /\ pc[t] = "dispatch15"
    /\ \E u \in waiters :
        /\ owner' = u
        /\ recursion' = 1
        /\ waiters' = waiters \ {u}
        /\ nest' = [nest EXCEPT ![t] = @ - 1, ![u] = 1]
        /\ pc' = [pc EXCEPT ![t] = "run", ![u] = "run"]
        /\ rc' = [rc EXCEPT ![t] = RcDone, ![u] = RcDone]
    /\ UNCHANGED acquisitions

-----------------------------------------------------------------------------
Wait(t) == WaitClaim(t) \/ WaitNested(t) \/ WaitContended(t)
Signal(t) == SignalNotOwner(t) \/ SignalNested(t) \/ SignalFree(t) \/ SignalWake(t)
Service14(t) == Service14Grant(t) \/ Service14Park(t)

Next == \E t \in Task : Wait(t) \/ Signal(t) \/ Service14(t) \/ Service15(t)

Spec == Init /\ [][Next]_vars

\* A dispatched gateway request is served, and every critical section ends: a
\* holder does not come back to the same nesting level for ever without
\* signalling there.
LastSignal(t) == SignalFree(t) \/ SignalWake(t)
Fairness == \A t \in Task : /\ WF_vars(Service14(t))
                            /\ WF_vars(Service15(t))
                            /\ \A n \in 2 .. MaxNest : SF_vars(nest[t] = n /\ SignalNested(t))
                            /\ SF_vars(LastSignal(t))

FairSpec == Spec /\ Fairness

-----------------------------------------------------------------------------
(* Properties *)

\* The record's words keep their widths (u16 recursion, u32 acquisitions)
\* and the waiter list holds tasks only.
TypeOK ==
    /\ owner \in Task \cup {NoTask}
    /\ recursion \in 0 .. (RecursionModulus - 1)
    /\ acquisitions \in 0 .. (CounterModulus - 1)
    /\ waiters \subseteq Task
    /\ pc \in [Task -> {"run", "dispatch14", "parked", "dispatch15"}]
    /\ nest \in [Task -> 0 .. MaxNest]
    /\ rc \in [Task -> {RcDone, RcNotOwner, RcNested}]

\* Mutual exclusion of kernel_semaphore_wait's callers: no two tasks are ever
\* inside, whatever mixture of nested waits, foreign signals and hand-overs.
MutualExclusion ==
    \A t, u \in Task : nest[t] > 0 /\ nest[u] > 0 => t = u

\* The record always tells the truth about its holder: the recursion halfword
\* is exactly the number of waits the owner still has to undo, and a task that
\* is not the owner holds nothing.
RecordCountsHolds ==
    /\ \A t \in Task : IF owner = t THEN recursion = nest[t] /\ nest[t] > 0
                                    ELSE nest[t] = 0
    /\ owner = NoTask => recursion = 0

\* The split wait and signal implement the atomic re-entrant lock.
Lock == INSTANCE ResourceLock WITH holder <- owner, holds <- nest
ImplementsLock == Lock!LockSpec

\* A task that found the record owned is granted it sooner or later, as long
\* as every critical section ends (stated for two tasks: the ROM's choice
\* among several parked tasks is free, so it may starve one of three).
ContenderServed ==
    \A t \in Task : pc[t] \in {"dispatch14", "parked"} ~> owner = t
=============================================================================
