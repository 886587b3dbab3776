------------------------- MODULE CountingSemProofs -------------------------
(***************************************************************************)
(* Theorems about CountingSem, for every number of posters and every       *)
(* number of tokens.  The count is conserved for any finite set of         *)
(* consumers and any takes; no token is taken twice by any consumers       *)
(* without a time limit; the theorems about wake-ups are for the use the   *)
(* code is made for, one consumer without a time limit.                    *)
(***************************************************************************)
EXTENDS CountingSem, FiniteSetTheorems, TLAPS

\* The use the wake-on-minus-one rule is made for.
OneUntimedConsumer == /\ \A a, b \in Consumer : a = b
                      /\ "timed" \notin TakeKind

\* The part of the types no count depends on.
Typed ==
    /\ count \in Int /\ latched \in BOOLEAN /\ pending \in BOOLEAN
    /\ pc \in [Consumer \cup Poster -> {"idle", "sleep", "undo", "wake", "defer"}]
    /\ \A c \in Consumer : pc[c] \in {"idle", "sleep", "undo"}
    /\ \A p \in Poster : pc[p] \in {"idle", "wake", "defer"}
    /\ kind \in [Consumer -> {"timed", "untimed"}]
    /\ posts \in 0 .. MaxPosts /\ takes \in Nat

Sleeping == \E c \in Consumer : pc[c] = "sleep"

\* Nobody is in a timed wait.
NoTimedWait == \A c \in Consumer : pc[c] # "undo" /\ kind[c] = "untimed"

\* The count, with one consumer.
CountOfOne == /\ Sleeping => count = posts - takes - 1
              /\ ~Sleeping => count = posts - takes

\* While the consumer sleeps the count is -1 until a token ends the sleep, and
\* exactly then is a wake on its way; while it is awake there is none.
WakeWhenDue ==
    /\ Sleeping => count >= -1 /\ (WakeUnderWay <=> count >= 0)
    /\ ~Sleeping => count >= 0 /\ ~WakeUnderWay

\* The wake is in one place: on the object, in the table, or in one poster's hands.
OneWake ==
    /\ \A p, q \in Poster : pc[p] # "idle" /\ pc[q] # "idle" => p = q
    /\ \A p \in Poster : pc[p] # "idle" => ~latched /\ ~pending
    /\ ~(latched /\ pending)

\* The inductive invariant.
IInv == Typed /\ NoTimedWait /\ CountOfOne /\ WakeWhenDue /\ OneWake

-----------------------------------------------------------------------------
LEMMA InitTyped == Init => Typed
<1> SUFFICES ASSUME Init PROVE Typed
  OBVIOUS
<1>1. posts \in 0 .. MaxPosts /\ takes \in Nat /\ count \in Int
  BY MaxPostsAssumption DEF Init
<1>2. QED
  BY <1>1 DEF Init, Typed

LEMMA StepTyped == Typed /\ [Next]_vars => Typed'
<1> SUFFICES ASSUME Typed, [Next]_vars PROVE Typed'
  OBVIOUS
<1> USE SidesAssumption, MaxPostsAssumption DEF Typed, Goto, Adds, waiter
<1>1. ASSUME NEW c \in Consumer, NEW k \in TakeKind, Take(c, k) PROVE Typed'
  <2>1. /\ count' \in Int /\ UNCHANGED <<latched, pending, posts>>
        /\ kind' \in [Consumer -> {"timed", "untimed"}]
    BY <1>1, TakeKindAssumption DEF Take
  <2>2. CASE TokenLeft(count)
    BY <1>1, <2>1, <2>2 DEF Take
  <2>3. CASE ~TokenLeft(count)
    BY <1>1, <2>1, <2>3 DEF Take
  <2>4. QED
    BY <2>2, <2>3
<1>2. ASSUME NEW c \in Consumer, Woken(c) \/ Expires(c) \/ Undo(c) PROVE Typed'
  <2>1. CASE Woken(c)
    <3>1. takes' = takes + 1 /\ latched' = FALSE /\ pc' = [pc EXCEPT ![c] = "idle"]
      BY <2>1 DEF Woken
    <3>2. UNCHANGED <<count, pending, kind, posts>>
      BY <2>1 DEF Woken
    <3>3. takes' \in Nat
      BY <3>1
    <3>4. latched' \in BOOLEAN
      BY <3>1, Zenon
    <3>5. QED
      BY <3>1, <3>2, <3>3, <3>4
  <2>2. CASE Expires(c)
    BY <2>2 DEF Expires
  <2>3. CASE Undo(c)
    BY <2>3 DEF Undo
  <2>4. QED
    BY <1>2, <2>1, <2>2, <2>3
<1>3. ASSUME NEW p \in Poster, NEW mode \in PostMode, Post(p, mode) PROVE Typed'
  <2>1. /\ count' \in Int /\ UNCHANGED <<latched, pending, kind, takes>>
        /\ posts' \in 0 .. MaxPosts
    BY <1>3 DEF Post
  <2>2. CASE Parked(count)
    <3>1. CASE mode = "deferred"
      BY <1>3, <2>1, <2>2, <3>1 DEF Post
    <3>2. CASE mode # "deferred"
      BY <1>3, <2>1, <2>2, <3>2 DEF Post
    <3>3. QED
      BY <3>1, <3>2
  <2>3. CASE ~Parked(count)
    BY <1>3, <2>1, <2>3 DEF Post
  <2>4. QED
    BY <2>2, <2>3
<1>4. ASSUME NEW p \in Poster, Wake(p) \/ Defer(p) PROVE Typed'
  BY <1>4 DEF Wake, Defer
<1>5. ASSUME KernelDrain PROVE Typed'
  BY <1>5 DEF KernelDrain
<1>6. CASE UNCHANGED vars
  BY <1>6 DEF vars
<1>7. QED
  BY <1>1, <1>2, <1>3, <1>4, <1>5, <1>6 DEF Next, csem_wait, csem_signal

\* The variables keep their types, whoever takes and posts.
THEOREM TypeCorrect == Spec => []Typed
  BY InitTyped, StepTyped, PTL DEF Spec

-----------------------------------------------------------------------------
(* The count is conserved *)

\* The waits under way change by one consumer at a time.
LEMMA UnderWayGrows ==
    ASSUME IsFiniteSet(Consumer), NEW S \in SUBSET Consumer, NEW c \in Consumer \ S
    PROVE  Cardinality(S \cup {c}) = Cardinality(S) + 1 /\ Cardinality(S) \in Nat
  BY FS_Subset, FS_AddElement, FS_CardinalityType

LEMMA UnderWayShrinks ==
    ASSUME IsFiniteSet(Consumer), NEW S \in SUBSET Consumer, NEW c \in S
    PROVE  Cardinality(S \ {c}) = Cardinality(S) - 1 /\ Cardinality(S) \in Nat
  BY FS_Subset, FS_RemoveElement, FS_CardinalityType

\* Through fast takes, sleeps, timeouts, undone takes and posts in any order, the
\* count is the tokens posted less the takes that got one and the waits under way.
THEOREM CountIsConserved == ASSUME IsFiniteSet(Consumer) PROVE Spec => []CountConserved
<1>1. Init => CountConserved
  <2> SUFFICES ASSUME Init PROVE CountConserved
    OBVIOUS
  <2>1. UnderWay = {}
    BY DEF Init, UnderWay
  <2>2. QED
    BY <2>1, FS_EmptySet DEF Init, CountConserved
<1>2. ASSUME Typed, CountConserved, [Next]_vars PROVE CountConserved'
  <2> USE <1>2, SidesAssumption DEF Typed, Goto, Adds, waiter
  <2>s. UnderWay \in SUBSET Consumer
    BY DEF UnderWay
  <2>n. Cardinality(UnderWay) \in Nat
    BY <2>s, FS_Subset, FS_CardinalityType
  <2>1. ASSUME NEW c \in Consumer, NEW k \in TakeKind, Take(c, k) PROVE CountConserved'
    <3>1. CASE TokenLeft(count)
      <4>1. UnderWay' = UnderWay
        BY <2>1, <3>1 DEF Take, UnderWay
      <4>2. count' = count - 1 /\ posts' = posts /\ takes' = takes + 1
        BY <2>1, <3>1 DEF Take
      <4>3. QED
        BY <4>1, <4>2, <2>n DEF CountConserved
    <3>2. CASE ~TokenLeft(count)
      <4>1. UnderWay' = UnderWay \cup {c} /\ c \notin UnderWay
        BY <2>1, <3>2 DEF Take, UnderWay
      <4>2. count' = count - 1 /\ posts' = posts /\ takes' = takes
        BY <2>1, <3>2 DEF Take
      <4>3. QED
        BY <4>1, <4>2, <2>n, <2>s, UnderWayGrows DEF CountConserved
    <3>3. QED
      BY <3>1, <3>2
  <2>2. ASSUME NEW c \in Consumer, Woken(c) PROVE CountConserved'
    <3>1. UnderWay' = UnderWay \ {c} /\ c \in UnderWay
      BY <2>2 DEF Woken, UnderWay
    <3>2. count' = count /\ posts' = posts /\ takes' = takes + 1
      BY <2>2 DEF Woken
    <3>3. QED
      BY <3>1, <3>2, <2>n, <2>s, UnderWayShrinks DEF CountConserved
  <2>3. ASSUME NEW c \in Consumer, Undo(c) PROVE CountConserved'
    <3>1. UnderWay' = UnderWay \ {c} /\ c \in UnderWay
      BY <2>3 DEF Undo, UnderWay
    <3>2. count' = count + 1 /\ posts' = posts /\ takes' = takes
      BY <2>3 DEF Undo
    <3>3. QED
      BY <3>1, <3>2, <2>n, <2>s, UnderWayShrinks DEF CountConserved
  <2>4. ASSUME NEW c \in Consumer, Expires(c) PROVE CountConserved'
    <3>1. UnderWay' = UnderWay
      BY <2>4 DEF Expires, UnderWay
    <3>2. QED
      BY <2>4, <3>1, <2>n DEF Expires, CountConserved
  <2>5. ASSUME NEW p \in Poster, NEW mode \in PostMode, Post(p, mode) PROVE CountConserved'
    <3>1. UnderWay' = UnderWay
      <4>1. \A c \in Consumer : pc'[c] = pc[c]
        BY <2>5 DEF Post
      <4>2. QED
        BY <4>1 DEF UnderWay
    <3>2. count' = count + 1 /\ posts' = posts + 1 /\ takes' = takes
      BY <2>5 DEF Post
    <3>3. QED
      BY <3>1, <3>2, <2>n DEF CountConserved
  <2>6. ASSUME UNCHANGED <<count, posts, takes>>, \A c \in Consumer : pc'[c] = pc[c]
        PROVE  CountConserved'
    <3>1. UnderWay' = UnderWay
      BY <2>6 DEF UnderWay
    <3>2. QED
      BY <2>6, <3>1, <2>n DEF CountConserved
  <2>7. ASSUME NEW p \in Poster, Wake(p) \/ Defer(p) PROVE CountConserved'
    BY <2>6, <2>7 DEF Wake, Defer
  <2>8. ASSUME KernelDrain PROVE CountConserved'
    BY <2>6, <2>8 DEF KernelDrain
  <2>9. CASE UNCHANGED vars
    BY <2>6, <2>9 DEF vars
  <2>10. QED
    BY <2>1, <2>2, <2>3, <2>4, <2>5, <2>7, <2>8, <2>9 DEF Next, csem_wait, csem_signal
<1>3. Typed /\ [Next]_vars => Typed'
  BY StepTyped
<1>4. QED
  BY <1>1, <1>2, <1>3, InitTyped, PTL DEF Spec

-----------------------------------------------------------------------------
(* No token twice, for any number of consumers without a time limit *)

\* The posters with a wake in their hands.
Hands == {p \in Poster : pc[p] \in {"wake", "defer"}}
One(b) == IF b THEN 1 ELSE 0
\* The takes that were promised a token: a wake each.  Wakes that meet on the
\* object or in the table merge, and promise less.
Promised == Cardinality(Hands) + One(latched) + One(pending)
Surplus == IF count > 0 THEN count ELSE 0
TokenOnce == takes + Promised + Surplus <= posts

\* The inductive invariant of the tokens.
TokenInv == Typed /\ NoTimedWait /\ IsFiniteSet(Hands) /\ TokenOnce

LEMMA HandAdded ==
    ASSUME NEW S, IsFiniteSet(S), NEW p, p \notin S
    PROVE  /\ IsFiniteSet(S \cup {p}) /\ Cardinality(S) \in Nat
           /\ Cardinality(S \cup {p}) = Cardinality(S) + 1
  BY FS_AddElement, FS_CardinalityType

LEMMA HandEmptied ==
    ASSUME NEW S, IsFiniteSet(S), NEW p \in S
    PROVE  /\ IsFiniteSet(S \ {p}) /\ Cardinality(S) \in Nat
           /\ Cardinality(S \ {p}) = Cardinality(S) - 1
  BY FS_RemoveElement, FS_CardinalityType

LEMMA InitTokens == Init => TokenInv
<1> SUFFICES ASSUME Init PROVE TokenInv
  OBVIOUS
<1>1. Typed /\ NoTimedWait
  BY InitTyped DEF Init, NoTimedWait
<1>2. Hands = {}
  BY DEF Init, Hands
<1>3. IsFiniteSet(Hands) /\ Cardinality(Hands) = 0
  BY <1>2, FS_EmptySet
<1>4. count = 0 /\ ~latched /\ ~pending /\ posts = 0 /\ takes = 0
  BY DEF Init
<1>5. TokenOnce
  BY <1>3, <1>4 DEF TokenOnce, Promised, Surplus, One
<1>6. QED
  BY <1>1, <1>3, <1>5 DEF TokenInv

LEMMA StepTokens == ASSUME "timed" \notin TakeKind, TokenInv, [Next]_vars PROVE TokenInv'
<1> USE SidesAssumption DEF TokenInv, Goto, Adds, waiter
<1>t. Typed'
  BY StepTyped
<1>n. Cardinality(Hands) \in Nat
  BY FS_CardinalityType
<1>i. count \in Int /\ posts \in Nat /\ takes \in Nat
  BY MaxPostsAssumption DEF Typed
<1>1. ASSUME NEW c \in Consumer, NEW k \in TakeKind, Take(c, k) PROVE TokenInv'
  <2>1. NoTimedWait' /\ Hands' = Hands
    BY <1>1, TakeKindAssumption DEF Take, NoTimedWait, Hands, Typed
  <2>2. UNCHANGED <<latched, pending, posts>> /\ count' = count - 1
    BY <1>1 DEF Take
  <2>3. IF count >= 1 THEN takes' = takes + 1 ELSE takes' = takes
    BY <1>1, <1>i DEF Take, TokenLeft
  <2>4. Promised' = Promised
    BY <2>1, <2>2 DEF Promised
  <2>5. Promised \in Nat
    BY <1>n DEF Promised, One
  <2>6. TokenOnce'
    BY <1>i, <2>2, <2>3, <2>4, <2>5 DEF TokenOnce, Surplus
  <2>7. QED
    BY <1>t, <2>1, <2>6
<1>2. ASSUME NEW c \in Consumer, Woken(c) PROVE TokenInv'
  <2>1. NoTimedWait' /\ Hands' = Hands
    BY <1>2 DEF Woken, NoTimedWait, Hands, Typed
  <2>2. latched /\ ~latched' /\ UNCHANGED <<count, pending, posts>> /\ takes' = takes + 1
    BY <1>2 DEF Woken
  <2>3. TokenOnce'
    BY <1>i, <1>n, <2>1, <2>2 DEF TokenOnce, Promised, Surplus, One
  <2>4. QED
    BY <1>t, <2>1, <2>3
<1>3. ASSUME NEW c \in Consumer, Expires(c) \/ Undo(c) PROVE TokenInv'
  BY <1>3 DEF Expires, Undo, NoTimedWait
<1>4. ASSUME NEW p \in Poster, NEW mode \in PostMode, Post(p, mode) PROVE TokenInv'
  <2>1. NoTimedWait'
    BY <1>4 DEF Post, NoTimedWait, Typed
  <2>2. UNCHANGED <<latched, pending, takes>> /\ count' = count + 1 /\ posts' = posts + 1
    BY <1>4 DEF Post
  <2>3. CASE count = -1
    <3>1. p \notin Hands /\ Hands' = Hands \cup {p}
      BY <1>4, <2>3 DEF Post, Parked, Hands, Typed
    <3>2. IsFiniteSet(Hands') /\ Cardinality(Hands') = Cardinality(Hands) + 1
      BY <3>1, HandAdded
    <3>3. Promised' = Promised + 1
      BY <1>n, <2>2, <3>2 DEF Promised, One
    <3>4. TokenOnce'
      BY <1>i, <1>n, <2>2, <2>3, <3>2 DEF TokenOnce, Promised, Surplus, One
    <3>5. QED
      BY <1>t, <2>1, <3>2, <3>4
  <2>4. CASE count # -1
    <3>1. Hands' = Hands
      BY <1>4, <1>i, <2>4 DEF Post, Parked, Hands
    <3>2. TokenOnce'
      BY <1>i, <1>n, <2>2, <2>4, <3>1 DEF TokenOnce, Promised, Surplus, One
    <3>3. QED
      BY <1>t, <2>1, <3>1, <3>2
  <2>5. QED
    BY <2>3, <2>4
\* A wake leaves a poster's hands for the object or the table.
<1>5. ASSUME NEW p \in Poster, Wake(p) \/ Defer(p) PROVE TokenInv'
  <2>1. NoTimedWait' /\ UNCHANGED <<count, posts, takes>>
    BY <1>5 DEF Wake, Defer, NoTimedWait, Typed
  <2>2. p \in Hands /\ Hands' = Hands \ {p}
    BY <1>5 DEF Wake, Defer, Hands, Typed
  <2>3. IsFiniteSet(Hands') /\ Cardinality(Hands') = Cardinality(Hands) - 1
    BY <2>2, HandEmptied
  <2>4. \/ latched' = TRUE /\ pending' = pending
        \/ pending' = TRUE /\ latched' = latched
    BY <1>5 DEF Wake, Defer
  <2>5. One(latched') + One(pending') <= One(latched) + One(pending) + 1
    BY <2>4 DEF One
  <2>6. TokenOnce'
    BY <1>i, <1>n, <2>1, <2>3, <2>5 DEF TokenOnce, Promised, Surplus, One
  <2>7. QED
    BY <1>t, <2>1, <2>3, <2>6
<1>6. ASSUME KernelDrain PROVE TokenInv'
  <2>1. NoTimedWait' /\ Hands' = Hands
    BY <1>6 DEF KernelDrain, NoTimedWait, Hands
  <2>2. pending /\ ~pending' /\ latched' /\ UNCHANGED <<count, posts, takes>>
    BY <1>6 DEF KernelDrain
  <2>3. TokenOnce'
    BY <1>i, <1>n, <2>1, <2>2 DEF TokenOnce, Promised, Surplus, One
  <2>4. QED
    BY <1>t, <2>1, <2>3
<1>7. CASE UNCHANGED vars
  <2>1. NoTimedWait' /\ Hands' = Hands /\ UNCHANGED <<count, latched, pending, posts, takes>>
    BY <1>7 DEF vars, NoTimedWait, Hands
  <2>2. TokenOnce'
    BY <2>1 DEF TokenOnce, Promised, Surplus
  <2>3. QED
    BY <1>t, <2>1, <2>2
<1>8. QED
  BY <1>1, <1>2, <1>3, <1>4, <1>5, <1>6, <1>7 DEF Next, csem_wait, csem_signal

\* No take succeeds without a token, however many tasks take: only the undo of a
\* timed take makes one out of nothing.
THEOREM TokensNotInvented == ASSUME "timed" \notin TakeKind PROVE Spec => []TakesWithinPosts
<1>1. TokenInv /\ [Next]_vars => TokenInv'
  BY StepTokens
<1>2. TokenInv => TakesWithinPosts
  <2> SUFFICES ASSUME TokenInv PROVE TakesWithinPosts
    OBVIOUS
  <2>1. Cardinality(Hands) \in Nat /\ count \in Int /\ posts \in Nat /\ takes \in Nat
    BY FS_CardinalityType, MaxPostsAssumption DEF TokenInv, Typed
  <2>2. QED
    BY <2>1 DEF TokenInv, TokenOnce, Promised, Surplus, One, TakesWithinPosts
<1>3. QED
  BY <1>1, <1>2, InitTokens, PTL DEF Spec

-----------------------------------------------------------------------------
(* One consumer without a time limit *)

LEMMA InitInvariant == Init => IInv
<1> SUFFICES ASSUME Init PROVE IInv
  OBVIOUS
<1>1. Typed
  BY InitTyped
<1>2. ~Sleeping /\ ~WakeUnderWay /\ NoTimedWait /\ OneWake
  BY DEF Init, Sleeping, WakeUnderWay, NoTimedWait, OneWake
<1>3. count = 0 /\ posts = 0 /\ takes = 0
  BY DEF Init
<1>4. CountOfOne
  BY <1>2, <1>3 DEF CountOfOne
<1>5. WakeWhenDue
  BY <1>2, <1>3 DEF WakeWhenDue
<1>6. QED
  BY <1>1, <1>2, <1>4, <1>5 DEF IInv

LEMMA StepInvariant == ASSUME OneUntimedConsumer, IInv, [Next]_vars PROVE IInv'
<1> USE SidesAssumption DEF IInv, Goto, Adds, waiter
<1>t. Typed'
  BY StepTyped
<1>1. ASSUME NEW c \in Consumer, NEW k \in TakeKind, Take(c, k) PROVE IInv'
  <2> USE <1>1 DEF Take, Typed, TokenLeft
  <2>1. NoTimedWait'
    BY TakeKindAssumption DEF NoTimedWait, OneUntimedConsumer
  <2>2. ~Sleeping /\ ~WakeUnderWay /\ count >= 0
    BY DEF Sleeping, OneUntimedConsumer, WakeWhenDue
  <2>3. WakeUnderWay' = WakeUnderWay /\ OneWake'
    BY DEF WakeUnderWay, OneWake
  <2>4. CASE count >= 1
    <3>1. ~Sleeping' /\ count' = count - 1 /\ takes' = takes + 1 /\ posts' = posts
      BY <2>2, <2>4 DEF Sleeping
    <3>2. QED
      BY <1>t, <2>1, <2>2, <2>3, <2>4, <3>1 DEF CountOfOne, WakeWhenDue
  <2>5. CASE count = 0
    <3>1. Sleeping' /\ count' = -1 /\ takes' = takes /\ posts' = posts
      BY <2>5 DEF Sleeping
    <3>2. QED
      BY <1>t, <2>1, <2>2, <2>3, <2>5, <3>1 DEF CountOfOne, WakeWhenDue
  <2>6. QED
    BY <2>2, <2>4, <2>5
<1>2. ASSUME NEW c \in Consumer, Woken(c) PROVE IInv'
  <2> USE <1>2 DEF Woken, Typed
  <2>1. Sleeping /\ ~Sleeping'
    BY DEF Sleeping, OneUntimedConsumer
  <2>2. WakeUnderWay /\ count >= 0
    BY <2>1 DEF WakeUnderWay, WakeWhenDue
  <2>3. ~WakeUnderWay' /\ OneWake' /\ NoTimedWait'
    BY DEF WakeUnderWay, OneWake, NoTimedWait
  <2>4. count' = count /\ takes' = takes + 1 /\ posts' = posts
    OBVIOUS
  <2>5. QED
    BY <1>t, <2>1, <2>2, <2>3, <2>4 DEF CountOfOne, WakeWhenDue
<1>3. ASSUME NEW c \in Consumer, Expires(c) \/ Undo(c) PROVE IInv'
  BY <1>3 DEF Expires, Undo, NoTimedWait
<1>4. ASSUME NEW p \in Poster, NEW mode \in PostMode, Post(p, mode) PROVE IInv'
  <2> USE <1>4 DEF Post, Typed, Parked
  <2>1. Sleeping' = Sleeping /\ NoTimedWait'
    BY DEF Sleeping, NoTimedWait
  <2>2. count' = count + 1 /\ takes' = takes /\ posts' = posts + 1
    OBVIOUS
  <2>3. CountOfOne'
    BY <2>1, <2>2 DEF CountOfOne
  <2>4. CASE count = -1
    <3>1. Sleeping /\ ~WakeUnderWay
      BY <2>4 DEF WakeWhenDue
    <3>2. pc'[p] \in {"wake", "defer"} /\ \A q \in Poster : q # p => pc'[q] = pc[q]
      BY <2>4
    <3>3. WakeUnderWay' /\ OneWake'
      BY <3>1, <3>2 DEF WakeUnderWay, OneWake
    <3>4. QED
      BY <1>t, <2>1, <2>2, <2>3, <2>4, <3>1, <3>3 DEF WakeWhenDue
  <2>5. CASE count # -1
    <3>1. count >= 0
      BY <2>5 DEF WakeWhenDue
    <3>2. UNCHANGED <<pc, latched, pending>>
      BY <2>5
    <3>3. WakeUnderWay' = WakeUnderWay /\ OneWake'
      BY <3>2 DEF WakeUnderWay, OneWake
    <3>4. QED
      BY <1>t, <2>1, <2>2, <2>3, <3>1, <3>3 DEF WakeWhenDue
  <2>6. QED
    BY <2>4, <2>5
\* The wake moves from the poster to the object or the table, and on.
<1>5. ASSUME UNCHANGED <<count, posts, takes, kind>>,
             \A c \in Consumer : pc'[c] = pc[c],
             WakeUnderWay, WakeUnderWay', OneWake'
      PROVE  IInv'
  <2>1. Sleeping' = Sleeping /\ NoTimedWait'
    BY <1>5 DEF Sleeping, NoTimedWait
  <2>2. QED
    BY <1>t, <1>5, <2>1 DEF CountOfOne, WakeWhenDue
<1>6. ASSUME NEW p \in Poster, Wake(p) \/ Defer(p) PROVE IInv'
  <2>1. WakeUnderWay /\ WakeUnderWay'
    BY <1>6 DEF Wake, Defer, WakeUnderWay
  <2>2. OneWake'
    BY <1>6 DEF Wake, Defer, OneWake, Typed
  <2>3. QED
    BY <1>5, <1>6, <2>1, <2>2 DEF Wake, Defer, Typed
<1>7. ASSUME KernelDrain PROVE IInv'
  <2>1. WakeUnderWay /\ WakeUnderWay' /\ OneWake'
    BY <1>7 DEF KernelDrain, WakeUnderWay, OneWake
  <2>2. QED
    BY <1>5, <1>7, <2>1 DEF KernelDrain
<1>8. CASE UNCHANGED vars
  BY <1>t, <1>8 DEF vars, NoTimedWait, CountOfOne, Sleeping, WakeWhenDue, OneWake, WakeUnderWay
<1>9. QED
  BY <1>1, <1>2, <1>3, <1>4, <1>6, <1>7, <1>8 DEF Next, csem_wait, csem_signal

LEMMA Invariant == ASSUME OneUntimedConsumer PROVE Spec => []IInv
<1>1. IInv /\ [Next]_vars => IInv'
  BY StepInvariant
<1>2. QED
  BY InitInvariant, <1>1, PTL DEF Spec

\* The consumer never sleeps beside a token without a wake on its way.
THEOREM NoWakeupLost == ASSUME OneUntimedConsumer PROVE Spec => []NoStrandedSleeper
<1>1. IInv => NoStrandedSleeper
  BY DEF IInv, Typed, CountOfOne, WakeWhenDue, NoStrandedSleeper, Sleeping
<1>2. QED
  BY Invariant, <1>1, PTL

\* No signal is left on the object for a later take.
THEOREM NoStaleSignal == ASSUME OneUntimedConsumer PROVE Spec => []SignalIsForSleeper
<1>1. IInv => SignalIsForSleeper
  BY DEF IInv, WakeWhenDue, SignalIsForSleeper, Sleeping
<1>2. QED
  BY Invariant, <1>1, PTL
=============================================================================
