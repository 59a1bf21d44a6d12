--------------------------- MODULE AtomicWaitProofs ---------------------------
(***************************************************************************)
(* For any number of threads, objects and values: no wakeup is lost.  What *)
(* is inductive says the same of a thread that has compared and is about   *)
(* to sleep, and that such a thread, and one that broadcasts, holds the    *)
(* mutex: so no broadcast falls between a comparison and the sleep.        *)
(***************************************************************************)
EXTENDS AtomicWait, TLAPS

\* Who is between taking atomic_wait_mutex and releasing it.
Critical ==
    \A t \in Threads : pc[t] \in {"compare", "enter", "broadcast"} => owner = t

\* NoLostWakeup, from the comparison on.
Covered ==
    \A t \in Threads :
        pc[t] \in {"enter", "sleeping"} /\ value[obj[t]] # arg[t] => NotifyDue(obj[t])

IInv == TypeOK /\ Critical /\ Covered

\* Every step preserves the types.
LEMMA TypeStep == TypeOK /\ [Next]_vars => TypeOK'
<1> SUFFICES ASSUME TypeOK, [Next]_vars PROVE TypeOK'
  OBVIOUS
<1> USE AtomicWaitAssumption DEF TypeOK, Labels, Goto
<1>1. ASSUME NEW t \in Threads, NEW o \in Objects, NEW v \in Values,
             StartStore(t, o, v) \/ StartWait(t, o, v)
      PROVE  TypeOK'
  BY <1>1 DEF StartStore, StartWait, Begin
<1>2. ASSUME NEW t \in Threads, Store(t) \/ LockNotify(t) \/ Broadcast(t)
      PROVE  TypeOK'
  BY <1>2 DEF Store, LockNotify, Broadcast
<1>3. ASSUME NEW t \in Threads, Load(t) \/ LockWait(t) \/ WakeSpuriously(t)
      PROVE  TypeOK'
  BY <1>3 DEF Load, LockWait, WakeSpuriously
<1>4. ASSUME NEW t \in Threads, CompareEqual(t) \/ CompareDifferent(t) \/ Sleep(t)
      PROVE  TypeOK'
  BY <1>4 DEF CompareEqual, CompareDifferent, Sleep
<1>5. CASE UNCHANGED vars
  BY <1>5 DEF vars
<1> QED
  BY <1>1, <1>2, <1>3, <1>4, <1>5 DEF Next, Continue

\* The mutex is held by whoever compares, is about to sleep or broadcasts.
LEMMA CriticalStep == TypeOK /\ Critical /\ [Next]_vars => Critical'
<1> SUFFICES ASSUME TypeOK, Critical, [Next]_vars PROVE Critical'
  OBVIOUS
<1> USE AtomicWaitAssumption DEF TypeOK, Labels, Goto, Critical
<1>1. ASSUME NEW t \in Threads, NEW o \in Objects, NEW v \in Values,
             StartStore(t, o, v) \/ StartWait(t, o, v)
      PROVE  Critical'
  BY <1>1 DEF StartStore, StartWait, Begin
<1>2. ASSUME NEW t \in Threads, Store(t) \/ LockNotify(t)
      PROVE  Critical'
  BY <1>2 DEF Store, LockNotify
<1>3. ASSUME NEW t \in Threads, Broadcast(t)
      PROVE  Critical'
  BY <1>3 DEF Broadcast
<1>4. ASSUME NEW t \in Threads, Load(t) \/ LockWait(t) \/ WakeSpuriously(t)
      PROVE  Critical'
  BY <1>4 DEF Load, LockWait, WakeSpuriously
<1>5. ASSUME NEW t \in Threads, CompareEqual(t) \/ CompareDifferent(t) \/ Sleep(t)
      PROVE  Critical'
  BY <1>5 DEF CompareEqual, CompareDifferent, Sleep
<1>6. CASE UNCHANGED vars
  BY <1>6 DEF vars
<1> QED
  BY <1>1, <1>2, <1>3, <1>4, <1>5, <1>6 DEF Next, Continue

\* Every step keeps what Covered says.
LEMMA CoveredStep == IInv /\ [Next]_vars => Covered'
<1> SUFFICES ASSUME IInv, [Next]_vars, NEW s \in Threads,
                    pc'[s] \in {"enter", "sleeping"}, value'[obj'[s]] # arg'[s]
             PROVE  NotifyDue(obj[s])'
  BY DEF Covered, NotifyDue, Storing
<1> USE DEF IInv, TypeOK, Labels, Goto
<1>1. ASSUME NEW t \in Threads, NEW o \in Objects, NEW v \in Values,
             StartStore(t, o, v) \/ StartWait(t, o, v)
      PROVE  NotifyDue(obj[s])'
  <2>1. s # t
    BY <1>1 DEF StartStore, StartWait, Begin
  <2>2. /\ pc[s] = pc'[s] /\ obj'[s] = obj[s] /\ arg'[s] = arg[s]
        /\ value' = value
    BY <1>1, <2>1 DEF StartStore, StartWait, Begin
  <2>3. NotifyDue(obj[s])
    BY <2>2 DEF Covered
  <2>4. NotifyDue(obj[s]) => \E u \in Threads :
           \/ obj[s] \in Racy /\ pc[u] = "store" /\ obj[u] = obj[s]
           \/ pc[u] \in {"notify", "broadcast"}
    BY DEF NotifyDue, Storing
  <2>5. PICK u \in Threads :
           \/ obj[s] \in Racy /\ pc[u] = "store" /\ obj[u] = obj[s]
           \/ pc[u] \in {"notify", "broadcast"}
    BY <2>3, <2>4
  <2>6. u # t
    BY <1>1, <2>5 DEF StartStore, StartWait, Begin
  <2>7. pc'[u] = pc[u] /\ obj'[u] = obj[u]
    BY <1>1, <2>6 DEF StartStore, StartWait, Begin
  <2> QED
    BY <2>2, <2>5, <2>7 DEF NotifyDue, Storing
<1>2. ASSUME NEW t \in Threads, Store(t)
      PROVE  NotifyDue(obj[s])'
  <2>1. pc'[t] = "notify"
    BY <1>2 DEF Store
  <2> QED
    BY <2>1 DEF NotifyDue
<1>3. ASSUME NEW t \in Threads, LockNotify(t)
      PROVE  NotifyDue(obj[s])'
  <2>1. pc'[t] = "broadcast"
    BY <1>3 DEF LockNotify
  <2> QED
    BY <2>1 DEF NotifyDue
<1>4. ASSUME NEW t \in Threads, Broadcast(t)
      PROVE  FALSE
  <2>1. s # t /\ pc[s] = "enter"
    BY <1>4 DEF Broadcast
  <2> QED
    BY <1>4, <2>1, AtomicWaitAssumption DEF Broadcast, Critical
<1>5. ASSUME NEW t \in Threads, CompareEqual(t)
      PROVE  NotifyDue(obj[s])'
  <2>1. obj' = obj /\ arg' = arg /\ value' = value
    BY <1>5 DEF CompareEqual
  <2>2. CASE s = t
    <3>1. Storing(obj[t])
      BY <1>5, <2>1, <2>2 DEF CompareEqual, Equals
    <3>2. PICK u \in Threads : pc[u] = "store" /\ obj[u] = obj[t]
      BY <3>1 DEF Storing
    <3>3. pc'[u] = "store" /\ obj[t] \in Racy
      BY <1>5, <3>1, <3>2 DEF CompareEqual, Storing
    <3> QED
      BY <2>1, <2>2, <3>2, <3>3 DEF NotifyDue, Storing
  <2>3. CASE s # t
    <3>1. pc[s] = pc'[s]
      BY <1>5, <2>3 DEF CompareEqual
    <3>2. NotifyDue(obj[s])
      BY <2>1, <3>1 DEF Covered
    <3>3. \A u \in Threads : pc[u] \in {"store", "notify", "broadcast"} => pc'[u] = pc[u]
      BY <1>5 DEF CompareEqual
    <3> QED
      BY <2>1, <3>2, <3>3 DEF NotifyDue, Storing
  <2> QED
    BY <2>2, <2>3
<1>6. ASSUME NEW t \in Threads,
             Load(t) \/ LockWait(t) \/ WakeSpuriously(t) \/ CompareDifferent(t) \/ Sleep(t)
      PROVE  NotifyDue(obj[s])'
  <2>1. obj' = obj /\ arg' = arg /\ value' = value
    BY <1>6 DEF Load, LockWait, WakeSpuriously, CompareDifferent, Sleep
  <2>2. pc[s] \in {"enter", "sleeping"}
    BY <1>6 DEF Load, LockWait, WakeSpuriously, CompareDifferent, Sleep
  <2>3. NotifyDue(obj[s])
    BY <2>1, <2>2 DEF Covered
  <2>4. \A u \in Threads : pc[u] \in {"store", "notify", "broadcast"} => pc'[u] = pc[u]
    BY <1>6 DEF Load, LockWait, WakeSpuriously, CompareDifferent, Sleep
  <2> QED
    BY <2>1, <2>3, <2>4 DEF NotifyDue, Storing
<1>7. CASE UNCHANGED vars
  BY <1>7 DEF vars, Covered, NotifyDue, Storing
<1> QED
  BY <1>1, <1>2, <1>3, <1>4, <1>5, <1>6, <1>7 DEF Next, Continue

-----------------------------------------------------------------------------
\* Type correctness, for any number of threads and objects.
THEOREM TypeCorrect == Spec => []TypeOK
<1>1. Init => TypeOK
  BY AtomicWaitAssumption DEF Init, TypeOK, Labels
<1> QED
  BY <1>1, TypeStep, PTL DEF Spec

\* A thread sleeps on a value that is gone only while a notification is due.
THEOREM WakeupsArrive == Spec => []NoLostWakeup
<1>1. Init => IInv
  BY AtomicWaitAssumption DEF Init, IInv, TypeOK, Labels, Critical, Covered
<1>2. IInv /\ [Next]_vars => IInv'
  BY TypeStep, CriticalStep, CoveredStep DEF IInv
<1>3. IInv => NoLostWakeup
  BY DEF IInv, Covered, NoLostWakeup
<1> QED
  BY <1>1, <1>2, <1>3, PTL DEF Spec
=============================================================================
