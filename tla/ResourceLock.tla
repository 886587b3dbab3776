---------------------------- MODULE ResourceLock ----------------------------
(***************************************************************************)
(* What one record of the kernel semaphore table promises its callers: a   *)
(* re-entrant lock.  At most one task holds it, the holder may nest, and    *)
(* the release that undoes its last hold either frees the lock or hands it *)
(* straight to a task that was waiting.  KernelSemaphore implements this   *)
(* specification.                                                          *)
(***************************************************************************)
EXTENDS Naturals

CONSTANTS Task,    \* the tasks of the system
          NoTask,  \* no task
          MaxNest  \* bound on the nesting of one task's holds

VARIABLES holder,  \* the task that holds the lock, or NoTask
          holds    \* how many of its acquisitions each task has yet to undo

lockVars == <<holder, holds>>

LockInit == holder = NoTask /\ holds = [t \in Task |-> 0]

Acquire(t) ==
    /\ holder \in {NoTask, t}
    /\ holds[t] < MaxNest
    /\ holder' = t
    /\ holds' = [holds EXCEPT ![t] = @ + 1]

Release(t) ==
    /\ holder = t
    /\ holds' = [holds EXCEPT ![t] = @ - 1]
    /\ holder' = IF holds[t] = 1 THEN NoTask ELSE t

Handoff(t, u) ==
    /\ holder = t
    /\ holds[t] = 1
    /\ u # t
    /\ holder' = u
    /\ holds' = [holds EXCEPT ![t] = 0, ![u] = 1]

LockNext == \E t \in Task : \/ Acquire(t)
                            \/ Release(t)
                            \/ \E u \in Task : Handoff(t, u)

LockSpec == LockInit /\ [][LockNext]_lockVars
=============================================================================
