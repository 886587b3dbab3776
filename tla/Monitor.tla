------------------------------ MODULE Monitor -------------------------------
(***************************************************************************)
(* What a condition variable bound to a lock promises its callers.  The    *)
(* holder of the lock may wait, which gives up one level of the lock; a    *)
(* waiter comes back holding the lock again; a patient waiter comes back   *)
(* only after some holder of the lock notified it, an impatient one may    *)
(* give up.  CondVar implements this specification.                        *)
(***************************************************************************)
EXTENDS Naturals

CONSTANTS Task,    \* the tasks that share the condition variable
          NoTask,  \* no task
          MaxNest  \* bound on the nesting of the lock

VARIABLES holder,    \* the task that holds the lock, or NoTask
          holds,     \* the levels of the lock each task is owed an unlock for
          waiting,   \* tasks inside a wait
          patient,   \* of these, the ones that wait without a time limit
          notified   \* of these, the ones a holder has notified

monitorVars == <<holder, holds, waiting, patient, notified>>

MonitorInit ==
    /\ holder = NoTask
    /\ holds = [t \in Task |-> 0]
    /\ waiting = {} /\ patient = {} /\ notified = {}

Enter(t) ==
    /\ t \notin waiting
    /\ holder \in {NoTask, t}
    /\ holds[t] < MaxNest
    /\ holder' = t
    /\ holds' = [holds EXCEPT ![t] = @ + 1]
    /\ UNCHANGED <<waiting, patient, notified>>

\* The last level a task gives up frees the lock.
HolderAfterDrop(t) == IF holds[t] = 1 THEN NoTask ELSE t

Leave(t) ==
    /\ t \notin waiting
    /\ holder = t
    /\ holder' = HolderAfterDrop(t)
    /\ holds' = [holds EXCEPT ![t] = @ - 1]
    /\ UNCHANGED <<waiting, patient, notified>>

Wait(t) ==
    /\ t \notin waiting
    /\ holder = t
    /\ holder' = HolderAfterDrop(t)
    /\ holds' = [holds EXCEPT ![t] = @ - 1]
    /\ waiting' = waiting \cup {t}
    /\ patient' \in {patient, patient \cup {t}}
    /\ UNCHANGED notified

Notify(u, t) ==
    /\ u \notin waiting
    /\ holder = u
    /\ t \in waiting \ notified
    /\ notified' = notified \cup {t}
    /\ UNCHANGED <<holder, holds, waiting, patient>>

Return(t) ==
    /\ t \in waiting
    /\ t \in patient => t \in notified
    /\ holder \in {NoTask, t}
    /\ holder' = t
    /\ holds' = [holds EXCEPT ![t] = @ + 1]
    /\ waiting' = waiting \ {t}
    /\ patient' = patient \ {t}
    /\ notified' = notified \ {t}

MonitorNext == \E t \in Task : \/ Enter(t) \/ Leave(t) \/ Wait(t) \/ Return(t)
                               \/ \E u \in Task : Notify(u, t)

MonitorSpec == MonitorInit /\ [][MonitorNext]_monitorVars
=============================================================================
