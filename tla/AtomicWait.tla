------------------------------ MODULE AtomicWait ------------------------------
(***************************************************************************)
(* atomic<Type>::wait and notify_one/notify_all of the Adinkra standard    *)
(* library (adinkra/include/c++/v1/atomic, adinkra/runtime/atomic.cpp).    *)
(* Every atomic object of the process shares one mutex and one condition.  *)
(* A store does not take that mutex: only the notification does.           *)
(*                                                                         *)
(* A type that is not an integer or a pointer is stored by memcpy under a  *)
(* second mutex, while the comparison of a wait reads 1, 2, 4 or 8 bytes   *)
(* without it: a comparison that meets a store in progress may find        *)
(* anything.  The other comparisons, and the loads, are atomic.            *)
(***************************************************************************)
EXTENDS Integers, FiniteSets

CONSTANTS
    Threads,
    Objects,   \* the atomic objects
    Values,    \* object representations, compared by a wait byte for byte
    Num,       \* the number a representation stands for, compared by ==
    Racy,      \* the objects a wait may read during a store
    Initial,   \* the representation every object starts with
    MaxOps,    \* bound: how many operations a thread performs
    NoThread   \* the owner of a free mutex

ASSUME AtomicWaitAssumption ==
    /\ NoThread \notin Threads
    /\ Racy \subseteq Objects
    /\ Initial \in Values
    /\ Values \subseteq DOMAIN Num
    /\ Objects # {}
    /\ MaxOps \in Nat

VARIABLES
    value,  \* value_ of every object
    owner,  \* who holds atomic_wait_mutex
    pc,     \* where each thread is
    obj,    \* the object the thread's operation is on
    arg,    \* old of a wait, desired of a store
    ops     \* how many operations each thread has begun

vars == <<value, owner, pc, obj, arg, ops>>

Goto(t, l) == pc' = [pc EXCEPT ![t] = l]

Begin(t, o, v) ==
    /\ pc[t] = "idle" /\ ops[t] < MaxOps
    /\ ops' = [ops EXCEPT ![t] = @ + 1]
    /\ obj' = [obj EXCEPT ![t] = o]
    /\ arg' = [arg EXCEPT ![t] = v]

\* A store of object o by memcpy is in progress.
Storing(o) ==
    o \in Racy /\ \E u \in Threads : pc[u] = "store" /\ obj[u] = o

-----------------------------------------------------------------------------
(***************************************************************************)
(* A store, and the notification its caller makes after it.                *)
(***************************************************************************)
StartStore(t, o, v) ==
    /\ Begin(t, o, v)
    /\ Goto(t, "store")
    /\ UNCHANGED <<value, owner>>

Store(t) ==
    /\ pc[t] = "store"
    /\ value' = [value EXCEPT ![obj[t]] = arg[t]]
    /\ Goto(t, "notify")
    /\ UNCHANGED <<owner, obj, arg, ops>>

\* Mutant: the notification does not take the mutex.
LockNotifyFree(t) ==
    /\ pc[t] = "notify"
    /\ Goto(t, "broadcast")
    /\ UNCHANGED <<value, owner, obj, arg, ops>>

\* __adinkra_atomic_notify: lock ...
LockNotify(t) ==
    /\ pc[t] = "notify" /\ owner = NoThread
    /\ owner' = t
    /\ Goto(t, "broadcast")
    /\ UNCHANGED <<value, obj, arg, ops>>

\* ... pthread_cond_broadcast, unlock.
Broadcast(t) ==
    /\ pc[t] = "broadcast"
    /\ owner' = NoThread
    /\ pc' = [u \in Threads |-> IF u = t THEN "idle"
                               ELSE IF pc[u] = "sleeping" THEN "woken" ELSE pc[u]]
    /\ UNCHANGED <<value, obj, arg, ops>>

-----------------------------------------------------------------------------
StartWait(t, o, v) ==
    /\ Begin(t, o, v)
    /\ Goto(t, "load")
    /\ UNCHANGED <<value, owner>>

\* while (load(order) == old).
Load(t) ==
    /\ pc[t] = "load"
    /\ Goto(t, IF Num[value[obj[t]]] = Num[arg[t]] THEN "lock" ELSE "idle")
    /\ UNCHANGED <<value, owner, obj, arg, ops>>

\* __adinkra_atomic_wait takes the mutex; pthread_cond_wait takes it again.
LockWait(t) ==
    /\ pc[t] \in {"lock", "woken"} /\ owner = NoThread
    /\ owner' = t
    /\ Goto(t, "compare")
    /\ UNCHANGED <<value, obj, arg, ops>>

\* atomic_value_equals.
Equals(t) ==
    IF Storing(obj[t]) THEN {TRUE, FALSE} ELSE {value[obj[t]] = arg[t]}

\* The representation is still the expected one.
CompareEqual(t) ==
    /\ pc[t] = "compare" /\ TRUE \in Equals(t)
    /\ Goto(t, "enter")
    /\ UNCHANGED <<value, owner, obj, arg, ops>>

\* It is not: unlock and load again.
CompareDifferent(t) ==
    /\ pc[t] = "compare" /\ FALSE \in Equals(t)
    /\ owner' = NoThread
    /\ Goto(t, "load")
    /\ UNCHANGED <<value, obj, arg, ops>>

\* pthread_cond_wait releases the mutex and sleeps in one step.
Sleep(t) ==
    /\ pc[t] = "enter"
    /\ owner' = NoThread
    /\ Goto(t, "sleeping")
    /\ UNCHANGED <<value, obj, arg, ops>>

\* A wait may end without a notification.
WakeSpuriously(t) ==
    /\ pc[t] = "sleeping"
    /\ Goto(t, "woken")
    /\ UNCHANGED <<value, owner, obj, arg, ops>>

-----------------------------------------------------------------------------
Init ==
    /\ value = [o \in Objects |-> Initial]
    /\ owner = NoThread
    /\ pc = [t \in Threads |-> "idle"]
    /\ obj = [t \in Threads |-> CHOOSE o \in Objects : TRUE]
    /\ arg = [t \in Threads |-> Initial]
    /\ ops = [t \in Threads |-> 0]

Continue(t) ==
    \/ Store(t) \/ LockNotify(t) \/ Broadcast(t)
    \/ Load(t) \/ LockWait(t) \/ CompareEqual(t) \/ CompareDifferent(t) \/ Sleep(t)

Next ==
    \E t \in Threads :
        \/ \E o \in Objects, v \in Values : StartStore(t, o, v) \/ StartWait(t, o, v)
        \/ WakeSpuriously(t)
        \/ Continue(t)

Spec == Init /\ [][Next]_vars

\* A thread that can go on does, and the mutex does not starve anyone.
FairSpec ==
    /\ Spec
    /\ \A t \in Threads :
          WF_vars(Continue(t)) /\ SF_vars(LockWait(t)) /\ SF_vars(LockNotify(t))

-----------------------------------------------------------------------------
Labels == {"idle", "store", "notify", "broadcast", "load", "lock", "compare",
           "enter", "sleeping", "woken"}

TypeOK ==
    /\ value \in [Objects -> Values]
    /\ owner \in Threads \cup {NoThread}
    /\ pc \in [Threads -> Labels]
    /\ obj \in [Threads -> Objects]
    /\ arg \in [Threads -> Values]
    /\ ops \in [Threads -> 0 .. MaxOps]

\* A notification is still to come after a store to object o.
NotifyDue(o) ==
    Storing(o) \/ \E u \in Threads : pc[u] \in {"notify", "broadcast"}

\* A thread sleeps on a value that is no longer there only while a thread
\* that stores has still to notify, although stores never take the mutex
\* and comparisons may be torn by them.
NoLostWakeup ==
    \A t \in Threads :
        pc[t] = "sleeping" /\ value[obj[t]] # arg[t] => NotifyDue(obj[t])

\* The numbers differ for good.
Changed(t) == Num[value[obj[t]]] # Num[arg[t]]

\* A wait returns once its object has another value, unless it changes back.
WaitReturns ==
    \A t \in Threads :
        pc[t] \in {"load", "lock", "compare", "enter", "sleeping", "woken"} /\ Changed(t)
            ~> pc[t] = "idle" \/ ~Changed(t)
=============================================================================
