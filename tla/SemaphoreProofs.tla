--------------------------- MODULE SemaphoreProofs ---------------------------
(***************************************************************************)
(* For any number of threads, of operations and any arguments of release:  *)
(* the counter is accounted for, and no wakeup is lost but those that      *)
(* expiring waits have consumed.  The invariant is inductive together with *)
(* the types: every step that lets the counter grow or a helper leave also *)
(* brings a helper, takes from the counter or adds to what is lost.        *)
(***************************************************************************)
EXTENDS Semaphore, FiniteSetTheorems, TLAPS

\* Who will look at the counter or wake one that will, or has consumed a signal.
Awake == Helpers \cup Late

BroadcastDue == \E t \in Threads : pc[t] = "notify" /\ update[t] > 1

\* The arguments of release, and the initial 0, are natural numbers.
LEMMA UpdatesNat == \A n \in Updates \cup {0} : n \in Nat
<1>1. Updates \subseteq Nat
  BY SemaphoreAssumption
<1>2. 0 \in Nat
  OBVIOUS
<1> QED
  BY <1>1, <1>2, Zenon

\* Their number is a natural number.
LEMMA AwakeFinite ==
    ASSUME TypeOK
    PROVE  IsFiniteSet(Awake) /\ Cardinality(Awake) \in Nat
<1>1. Awake \subseteq Threads
  BY DEF Awake, Helpers, Late
<1>2. IsFiniteSet(Awake)
  BY <1>1, SemaphoreAssumption, FS_Subset
<1> QED
  BY <1>2, FS_CardinalityType

\* How the number changes with the thread that comes or goes.
LEMMA HelperCount ==
    ASSUME NEW S, IsFiniteSet(S), NEW T, IsFiniteSet(T), NEW t
    PROVE  /\ T = S => Cardinality(T) = Cardinality(S)
           /\ T = S \cup {t} => Cardinality(T) >= Cardinality(S)
           /\ t \notin S /\ T = S \cup {t} => Cardinality(T) = Cardinality(S) + 1
           /\ t \in S /\ T = S \ {t} => Cardinality(T) = Cardinality(S) - 1
<1>1. Cardinality(S) \in Nat /\ Cardinality(T) \in Nat
  BY FS_CardinalityType
<1>2. t \notin S => Cardinality(S \cup {t}) = Cardinality(S) + 1
  BY FS_AddElement
<1>3. t \in S => Cardinality(S \ {t}) = Cardinality(S) - 1
  BY FS_RemoveElement
<1>4. t \in S => S \cup {t} = S
  OBVIOUS
<1>5. ASSUME T = S \cup {t} PROVE Cardinality(T) >= Cardinality(S)
  <2>1. CASE t \in S
    BY <2>1, <1>1, <1>4, <1>5
  <2>2. CASE t \notin S
    BY <2>2, <1>1, <1>2, <1>5
  <2> QED
    BY <2>1, <2>2
<1> QED
  BY <1>1, <1>2, <1>3, <1>5

-----------------------------------------------------------------------------
\* Type correctness, and with it that the counter never becomes negative: Take
\* is the only step that decreases the counter and it has seen it positive while
\* holding the mutex.
THEOREM TypeCorrect == Spec => []TypeOK
<1>1. Init => TypeOK
  BY SemaphoreAssumption DEF Init, TypeOK, Labels, Calls
<1>2. TypeOK /\ [Next]_vars => TypeOK'
  <2> SUFFICES ASSUME TypeOK, [Next]_vars
               PROVE  TypeOK'
    OBVIOUS
  <2> USE SemaphoreAssumption DEF TypeOK, Labels, Calls, Goto
  <2>1. ASSUME NEW t \in Threads, NEW n \in Updates, StartRelease(t, n)
        PROVE  TypeOK'
    BY <2>1 DEF StartRelease, Begin, Lock
  <2>2. ASSUME NEW t \in Threads, NEW c \in Calls, StartAcquire(t, c)
        PROVE  TypeOK'
    BY <2>2 DEF StartAcquire, Begin, Lock
  <2>3. ASSUME NEW t \in Threads, Add(t) PROVE TypeOK'
    <3>0. update[t] \in Updates \cup {0}
      OBVIOUS
    <3>1. update[t] \in Nat
      BY <3>0, UpdatesNat
    <3>2. counter' \in Nat /\ lost' \in 0 .. counter'
      BY <2>3, <3>1 DEF Add
    <3> QED
      BY <2>3, <3>2 DEF Add
  <2>4. ASSUME NEW t \in Threads, Signal(t) PROVE TypeOK'
    BY <2>4 DEF Signal, Waiting, TimedOut
  <2>5. ASSUME NEW t \in Threads, Broadcast(t) PROVE TypeOK'
    BY <2>5 DEF Broadcast
  <2>6. ASSUME NEW t \in Threads, Take(t) PROVE TypeOK'
    BY <2>6 DEF Take, Least
  <2>7. ASSUME NEW t \in Threads, Wait(t) \/ GiveUp(t) \/ ReturnFalse(t)
        PROVE  TypeOK'
    BY <2>7 DEF Wait, GiveUp, ReturnFalse
  <2>8. ASSUME NEW t \in Threads, WakeSpuriously(t) \/ Timeout(t)
        PROVE  TypeOK'
    BY <2>8 DEF WakeSpuriously, Timeout
  <2>9. ASSUME NEW t \in Threads, Resume(t) \/ ResumeEarly(t) \/ Expire(t)
        PROVE  TypeOK'
    BY <2>9 DEF Resume, ResumeEarly, Expire, Lock, Least
  <2>10. CASE UNCHANGED vars
    BY <2>10 DEF vars
  <2> QED
    BY <2>1, <2>2, <2>3, <2>4, <2>5, <2>6, <2>7, <2>8, <2>9, <2>10
    DEF Next, Continue
<1> QED
  BY <1>1, <1>2, PTL DEF Spec

-----------------------------------------------------------------------------
\* A broadcast still to come stays one until the thread that owes it moves.
LEMMA BroadcastStays ==
    ASSUME TypeOK, NEW t \in Threads, BroadcastDue,
           \A u \in Threads \ {t} : pc[u] = "notify" => pc'[u] = "notify",
           \A u \in Threads \ {t} : update'[u] = update[u],
           pc[t] # "notify"
    PROVE  BroadcastDue'
<1>1. PICK u \in Threads : pc[u] = "notify" /\ update[u] > 1
  BY DEF BroadcastDue
<1>2. u \in Threads \ {t}
  BY <1>1
<1> QED
  BY <1>1, <1>2 DEF BroadcastDue

\* release, acquire and try_acquire_until: while a thread sleeps, there are as many
\* threads about to look at the counter or to signal as the counter says, or a
\* broadcast is about to come, up to what waits that consumed a signal while they
\* timed out have left or may leave behind.
THEOREM WakeupsArrive == Spec => []NoLostWakeup
<1> DEFINE Kept == Waiting # {} => counter <= Cardinality(Awake) + lost \/ BroadcastDue
<1>0. NoLostWakeup <=> Kept
  BY DEF NoLostWakeup, BroadcastDue, Awake
<1>1. Init => NoLostWakeup
  BY DEF Init, NoLostWakeup, Waiting
<1>2. TypeOK /\ TypeOK' /\ NoLostWakeup /\ [Next]_vars => NoLostWakeup'
  <2> SUFFICES ASSUME TypeOK, TypeOK', Kept, [Next]_vars PROVE Kept'
    BY DEF NoLostWakeup, BroadcastDue, Awake
  <2>a. IsFiniteSet(Awake) /\ Cardinality(Awake) \in Nat
    BY AwakeFinite
  <2>b. IsFiniteSet(Awake') /\ Cardinality(Awake') \in Nat
    <3>1. Awake' \subseteq Threads
      BY DEF Awake, Helpers, Late
    <3> QED
      BY <3>1, SemaphoreAssumption, FS_Subset, FS_CardinalityType
  <2>c. /\ counter \in Nat /\ counter' \in Nat /\ lost \in Nat /\ lost' \in Nat
        /\ lost <= counter
    BY DEF TypeOK
  <2>d. ASSUME NEW t
        PROVE  /\ Awake' = Awake => Cardinality(Awake') = Cardinality(Awake)
               /\ Awake' = Awake \cup {t} =>
                     Cardinality(Awake') >= Cardinality(Awake)
               /\ t \notin Awake /\ Awake' = Awake \cup {t} =>
                     Cardinality(Awake') = Cardinality(Awake) + 1
               /\ t \in Awake /\ Awake' = Awake \ {t} =>
                     Cardinality(Awake') = Cardinality(Awake) - 1
    BY <2>a, <2>b, HelperCount
  <2>1. ASSUME NEW t \in Threads, NEW n \in Updates, StartRelease(t, n)
        PROVE  Kept'
    <3>1. Waiting' = Waiting /\ Awake' = Awake /\ counter' = counter /\ lost' = lost
      BY <2>1 DEF TypeOK, StartRelease, Lock, Goto, Waiting, Awake, Helpers, Late
    <3>2. BroadcastDue => BroadcastDue'
      BY <2>1, BroadcastStays DEF TypeOK, StartRelease, Lock, Goto
    <3> QED
      BY <3>1, <3>2
  <2>2. ASSUME NEW t \in Threads, NEW c \in Calls, StartAcquire(t, c)
        PROVE  Kept'
    <3>1. Waiting' = Waiting /\ Awake' = Awake \cup {t} /\ counter' = counter /\ lost' = lost
      BY <2>2 DEF TypeOK, StartAcquire, Lock, Goto, Waiting, Awake, Helpers, Late
    <3>2. BroadcastDue => BroadcastDue'
      BY <2>2, BroadcastStays DEF TypeOK, StartAcquire, Lock, Goto
    <3>3. Cardinality(Awake') >= Cardinality(Awake)
      BY <3>1, <2>d
    <3> QED
      BY <3>1, <3>2, <3>3, <2>a, <2>b, <2>c
  <2>3. ASSUME NEW t \in Threads, Add(t) PROVE Kept'
    <3>u. update[t] \in Updates \cup {0}
      BY DEF TypeOK
    <3>0. update[t] \in Nat
      BY <3>u, UpdatesNat
    <3>1. Waiting' = Waiting /\ counter' = counter + update[t] /\ lost' = lost
      BY <2>3 DEF TypeOK, Add, Goto, Waiting
    <3>2. BroadcastDue => BroadcastDue'
      BY <2>3, BroadcastStays DEF TypeOK, Add, Goto
    <3>3. CASE update[t] = 0
      <4>1. Awake' = Awake
        BY <2>3, <3>3 DEF TypeOK, Add, Goto, Awake, Helpers, Late
      <4> QED
        BY <4>1, <3>1, <3>2, <3>3, <2>c
    <3>4. CASE update[t] = 1
      <4>1. t \notin Awake /\ Awake' = Awake \cup {t}
        BY <2>3, <3>4 DEF TypeOK, Add, Goto, Awake, Helpers, Late
      <4> QED
        <5>1. Cardinality(Awake') = Cardinality(Awake) + 1
          BY <4>1, <2>d
        <5>2. counter' = counter + 1
          BY <3>1, <3>4
        <5> QED
          BY <5>1, <5>2, <3>1, <3>2, <2>a, <2>c
    <3>5. CASE update[t] > 1
      BY <2>3, <3>5, <3>0 DEF TypeOK, Add, Goto, BroadcastDue
    <3> QED
      BY <3>0, <3>3, <3>4, <3>5
  <2>4. ASSUME NEW t \in Threads, Signal(t) PROVE Kept'
    <3>1. CASE Waiting = {}
      BY <2>4, <3>1 DEF TypeOK, Signal, Goto, Waiting, TimedOut
    <3>2. CASE Waiting # {}
      <4>1. PICK w \in Waiting \cup TimedOut, l \in {"woken", "late"} :
               pc' = [pc EXCEPT ![t] = "idle", ![w] = l]
        BY <2>4, <3>2 DEF Signal
      <4>2. w \in Threads /\ w # t /\ w \notin Awake /\ t \in Awake
        BY <2>4 DEF Waiting, TimedOut, Signal, Awake, Helpers, Late
      <4>3. Awake' = (Awake \ {t}) \cup {w}
        BY <4>1, <4>2 DEF TypeOK, Awake, Helpers, Late
      <4>4. Cardinality(Awake') = Cardinality(Awake)
        <5>1. IsFiniteSet(Awake \ {t})
              /\ Cardinality(Awake \ {t}) = Cardinality(Awake) - 1
          BY <4>2, <2>a, FS_RemoveElement
        <5>2. w \notin Awake \ {t}
          BY <4>2
        <5>3. Cardinality((Awake \ {t}) \cup {w}) = Cardinality(Awake \ {t}) + 1
          BY <5>1, <5>2, FS_AddElement
        <5> QED
          BY <4>3, <5>1, <5>3, <2>a
      <4>5. counter' = counter /\ lost' = lost
        BY <2>4 DEF Signal
      <4>6. BroadcastDue => BroadcastDue'
        <5> SUFFICES ASSUME NEW u \in Threads, pc[u] = "notify", update[u] > 1
                     PROVE  BroadcastDue'
          BY DEF BroadcastDue
        <5>1. u # t
          BY <2>4 DEF Signal
        <5>2. u # w
          BY DEF Waiting, TimedOut
        <5>3. pc'[u] = "notify" /\ update'[u] = update[u]
          BY <2>4, <4>1, <5>1, <5>2 DEF Signal, TypeOK
        <5> QED
          BY <5>3 DEF BroadcastDue
      <4> QED
        BY <4>4, <4>5, <4>6, <3>2
    <3> QED
      BY <3>1, <3>2
  <2>5. ASSUME NEW t \in Threads, Broadcast(t) PROVE Kept'
    <3>1. Waiting' = {}
      BY <2>5 DEF TypeOK, Broadcast, Waiting
    <3> QED
      BY <3>1
  <2>6. ASSUME NEW t \in Threads, Take(t) PROVE Kept'
    <3>1. /\ Waiting' = Waiting /\ t \in Awake /\ Awake' = Awake \ {t}
          /\ counter' = counter - 1
          /\ lost' = lost \/ counter' <= lost'
      BY <2>6, <2>c DEF TypeOK, Take, Least, Goto, Waiting, Awake, Helpers, Late
    <3>2. BroadcastDue => BroadcastDue'
      BY <2>6, BroadcastStays DEF TypeOK, Take, Goto
    <3>3. Cardinality(Awake') = Cardinality(Awake) - 1
      BY <3>1, <2>d
    <3> QED
      BY <3>1, <3>2, <3>3, <2>a, <2>b, <2>c
  <2>7. ASSUME NEW t \in Threads, Wait(t) \/ GiveUp(t) PROVE Kept'
    <3>1. counter' = 0
      BY <2>7 DEF Wait, GiveUp
    <3> QED
      BY <3>1, <2>b, <2>c
  <2>8. ASSUME NEW t \in Threads, ReturnFalse(t) \/ Expire(t) \/ Timeout(t)
        PROVE  Kept'
    <3>1. Waiting' \subseteq Waiting /\ counter' = counter
      BY <2>8 DEF TypeOK, ReturnFalse, Expire, Timeout, Lock, Goto, Waiting
    <3>2. BroadcastDue => BroadcastDue'
      BY <2>8, BroadcastStays
      DEF TypeOK, ReturnFalse, Expire, Timeout, Lock, Goto
    <3>3. CASE Expire(t) /\ t \in Late
      <4>1. Awake' = Awake \ {t} /\ t \in Awake
        BY <3>3 DEF TypeOK, Expire, Lock, Goto, Awake, Helpers, Late
      <4>2. lost' = lost + 1 \/ counter' <= lost'
        BY <3>1, <3>3, <2>c DEF Expire, Least, Late
      <4>3. Cardinality(Awake') = Cardinality(Awake) - 1
        BY <4>1, <2>d
      <4> QED
        BY <3>1, <3>2, <4>2, <4>3, <2>a, <2>b, <2>c
    <3>4. CASE ~(Expire(t) /\ t \in Late)
      <4>1. Awake' = Awake /\ lost' = lost
        BY <2>8, <3>4 DEF TypeOK, ReturnFalse, Expire, Timeout, Lock, Goto, Awake, Helpers, Late
      <4> QED
        BY <3>1, <3>2, <4>1
    <3> QED
      BY <3>3, <3>4
  <2>9. ASSUME NEW t \in Threads, WakeSpuriously(t) \/ Resume(t) \/ ResumeEarly(t)
        PROVE  Kept'
    <3>1. /\ Waiting' \subseteq Waiting /\ Awake' = Awake \cup {t}
          /\ counter' = counter /\ lost' = lost
      BY <2>9
      DEF TypeOK, WakeSpuriously, Resume, ResumeEarly, Lock, Goto, Waiting, Awake, Helpers, Late
    <3>2. BroadcastDue => BroadcastDue'
      BY <2>9, BroadcastStays
      DEF TypeOK, WakeSpuriously, Resume, ResumeEarly, Lock, Goto
    <3>3. Cardinality(Awake') >= Cardinality(Awake)
      BY <3>1, <2>d
    <3> QED
      BY <3>1, <3>2, <3>3, <2>a, <2>b, <2>c
  <2>10. CASE UNCHANGED vars
    BY <2>10 DEF vars, Waiting, Awake, Helpers, Late, BroadcastDue
  <2> QED
    BY <2>1, <2>2, <2>3, <2>4, <2>5, <2>6, <2>7, <2>8, <2>9, <2>10
    DEF Next, Continue
<1> QED
  BY <1>1, <1>2, TypeCorrect, PTL DEF Spec
=============================================================================
