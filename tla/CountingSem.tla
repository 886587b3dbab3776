---------------------------- MODULE CountingSem ----------------------------
(***************************************************************************)
(* The counting semaphore of src/src/kernel/csem.rs: a signed token count, *)
(* changed with interrupts off, beside one waiter object that is slept on  *)
(* when a take leaves the count negative and signalled by the post that    *)
(* brings it back to zero.  The mailbox block of kobj.rs is the same eight *)
(* bytes, and the mailbox_slot functions only add an indirection.          *)
(*                                                                         *)
(* The count and the object are two pieces of state changed in two steps:  *)
(* everything hard about this code happens in between.                     *)
(***************************************************************************)
EXTENDS Integers, FiniteSets

CONSTANTS Consumer,  \* tasks that take tokens
          Poster,    \* tasks and interrupt handlers that post them
          TakeKind,  \* the takes in use: "timed" (csem_wait), "untimed" (csem_signal)
          PostMode,  \* the posts in use: "direct" (csem_post), "deferred"
          MaxPosts   \* bound on the tokens posted

ASSUME SidesAssumption == Consumer \cap Poster = {}
ASSUME TakeKindAssumption == TakeKind \subseteq {"timed", "untimed"}
ASSUME PostModeAssumption == PostMode \subseteq {"direct", "deferred"}
ASSUME MaxPostsAssumption == MaxPosts \in Nat

VARIABLES count,    \* the token count (far from the ends of its 32 bits)
          latched,  \* the waiter object was signalled and nobody slept on it since
          pending,  \* the object's id is in the kernel's table of deferred wakes
          pc,       \* where each task stands
          kind,     \* the take each consumer is in
          posts,    \* ghost: tokens posted
          takes     \* ghost: takes that reported a token

vars == <<count, latched, pending, pc, kind, posts, takes>>
waiter == <<latched, pending>>

Init ==
    /\ count = 0
    /\ latched = FALSE /\ pending = FALSE
    /\ pc = [t \in Consumer \cup Poster |-> "idle"]
    /\ kind = [c \in Consumer |-> "untimed"]
    /\ posts = 0 /\ takes = 0

Goto(t, label) == pc' = [pc EXCEPT ![t] = label]

\* atomic_add_irqsafe: interrupts are off, so this is one step.
Adds(amount) == count' = count + amount

-----------------------------------------------------------------------------
(* csem_wait, and csem_signal, which takes a token too and sleeps without  *)
(* a limit: it enters the kernel through the service that                  *)
(* condvar_wait_forever sleeps in.                                         *)

\* Mutation: a take of no token is not noticed.
TokenLeftOffByOne(old) == old - 1 >= -1

\* There was a token: the count did not go negative.
TokenLeft(old) == old - 1 >= 0

Take(c, k) ==
    /\ pc[c] = "idle"
    /\ Adds(-1)
    /\ kind' = [kind EXCEPT ![c] = k]
    /\ IF TokenLeft(count)
       THEN takes' = takes + 1 /\ UNCHANGED pc
       ELSE Goto(c, "sleep") /\ UNCHANGED takes
    /\ UNCHANGED <<waiter, posts>>

csem_wait(c) == "timed" \in TakeKind /\ Take(c, "timed")
csem_signal(c) == "untimed" \in TakeKind /\ Take(c, "untimed")

\* The sleep returns anything but RTXC code 5.
Woken(c) ==
    /\ pc[c] = "sleep"
    /\ latched
    /\ latched' = FALSE
    /\ takes' = takes + 1
    /\ Goto(c, "idle")
    /\ UNCHANGED <<count, pending, kind, posts>>

\* RTXC code 5: the count still holds this take's decrement.
Expires(c) ==
    /\ pc[c] = "sleep"
    /\ kind[c] = "timed"
    /\ ~latched
    /\ Goto(c, "undo")
    /\ UNCHANGED <<count, waiter, kind, posts, takes>>

\* Mutation: the timeout keeps the decrement.
UndoNothing(c) ==
    /\ pc[c] = "undo"
    /\ Goto(c, "idle")
    /\ UNCHANGED <<count, waiter, kind, posts, takes>>

Undo(c) ==
    /\ pc[c] = "undo"
    /\ Adds(1)
    /\ Goto(c, "idle")
    /\ UNCHANGED <<waiter, kind, posts, takes>>

-----------------------------------------------------------------------------
(* csem_post and csem_post_deferred *)

\* Mutation: every post that finds no token wakes.
ParkedAtZero(old) == old + 1 <= 1

\* "One sleeper may be parked": the count was exactly -1.
Parked(old) == old + 1 = 0

Post(p, mode) ==
    /\ pc[p] = "idle"
    /\ posts < MaxPosts
    /\ Adds(1)
    /\ posts' = posts + 1
    /\ IF Parked(count)
       THEN Goto(p, IF mode = "deferred" THEN "defer" ELSE "wake")
       ELSE UNCHANGED pc
    /\ UNCHANGED <<waiter, kind, takes>>

Wake(p) ==
    /\ pc[p] = "wake"
    /\ latched' = TRUE
    /\ Goto(p, "idle")
    /\ UNCHANGED <<count, pending, kind, posts, takes>>

\* Mutation: the deferred wake forgets the id.
DeferForgets(p) ==
    /\ pc[p] = "defer"
    /\ Goto(p, "idle")
    /\ UNCHANGED <<count, waiter, kind, posts, takes>>

\* The id goes to the pending table unless it is there already.
Defer(p) ==
    /\ pc[p] = "defer"
    /\ pending' = TRUE
    /\ Goto(p, "idle")
    /\ UNCHANGED <<count, latched, kind, posts, takes>>

KernelDrain ==
    /\ pending
    /\ pending' = FALSE
    /\ latched' = TRUE
    /\ UNCHANGED <<count, pc, kind, posts, takes>>

Next ==
    \/ \E c \in Consumer : \/ csem_wait(c) \/ csem_signal(c)
                           \/ Woken(c) \/ Expires(c) \/ Undo(c)
    \/ \E p \in Poster : \/ \E mode \in PostMode : Post(p, mode)
                         \/ Wake(p) \/ Defer(p)
    \/ KernelDrain

Spec == Init /\ [][Next]_vars

\* A poster that found a sleeper finishes its post, the kernel drains its table,
\* and a ready sleeper runs.  Nobody has to take or post.
Fairness ==
    /\ \A p \in Poster : WF_vars(Wake(p) \/ Defer(p))
    /\ \A c \in Consumer : WF_vars(Woken(c) \/ Expires(c) \/ Undo(c))
    /\ WF_vars(KernelDrain)
FairSpec == Spec /\ Fairness

-----------------------------------------------------------------------------
(* Properties *)

\* "Takes a token" (csem.rs:260): no more takes succeed than tokens were posted.
TakesWithinPosts == takes <= posts

\* Nobody sleeps beside a token: whenever a token is untaken and a consumer
\* sleeps, the wake-up is there or on its way.
WakeUnderWay == latched \/ pending \/ \E p \in Poster : pc[p] \in {"wake", "defer"}
NoStrandedSleeper ==
    \A c \in Consumer : pc[c] = "sleep" /\ takes < posts => WakeUnderWay

\* A signal is never left on the object for a take that has no token for it: the
\* wake that one sleeper's -1 earned is consumed by that sleeper.
SignalIsForSleeper == WakeUnderWay => \E c \in Consumer : pc[c] = "sleep"

\* No path through a wait leaves its decrement behind: the count is the tokens
\* posted less the takes that got one and the waits still under way.
UnderWay == {c \in Consumer : pc[c] \in {"sleep", "undo"}}
CountConserved == count = posts - takes - Cardinality(UnderWay)

\* A consumer asleep beside an untaken token wakes up.
SleeperFed == \A c \in Consumer : pc[c] = "sleep" /\ takes < posts ~> pc[c] = "idle"
=============================================================================
