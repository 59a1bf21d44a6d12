------------------------------ MODULE Semaphore ------------------------------
(***************************************************************************)
(* counting_semaphore of the Adinkra standard library                      *)
(* (adinkra/include/c++/v1/semaphore): a counter behind a pthread mutex    *)
(* and a condition variable.  release adds under the mutex and signals     *)
(* after it has unlocked, so that everything may happen in between.        *)
(*                                                                         *)
(* The pthread calls do what POSIX says of an initialised mutex and        *)
(* condition: they do not fail, a wait may end without a signal, and a     *)
(* wait that times out may consume a signal that comes at the same time.   *)
(* try_acquire_until then returns without another look at the counter:     *)
(* that signal is lost.                                                    *)
(***************************************************************************)
EXTENDS Integers, FiniteSets

CONSTANTS
    Threads,
    Desired,   \* the count the semaphore is constructed with
    Updates,   \* the arguments of release
    MaxOps,    \* bound: how many operations a thread performs
    NoThread   \* the owner of a free mutex

ASSUME SemaphoreAssumption ==
    /\ IsFiniteSet(Threads) /\ NoThread \notin Threads
    /\ Desired \in Nat /\ MaxOps \in Nat
    /\ Updates \subseteq Nat

VARIABLES
    counter,  \* counter_
    owner,    \* who holds mutex_
    pc,       \* where each thread is
    call,     \* the acquiring function it is in
    update,   \* the argument of release
    ops,      \* how many operations each thread has begun
    lost      \* history: what was left behind by waits that consumed a signal and expired

vars == <<counter, owner, pc, call, update, ops, lost>>

Calls == {"acquire", "try_acquire", "try_acquire_until"}

Waiting == {t \in Threads : pc[t] = "waiting"}

\* The waits that have timed out and do not have the mutex yet.
TimedOut == {t \in Threads : pc[t] = "timedout"}

\* Those of them that have consumed a signal.
Late == {t \in Threads : pc[t] = "late"}

Least(m, n) == IF m <= n THEN m ELSE n

Goto(t, l) == pc' = [pc EXCEPT ![t] = l]

\* lock(), by a thread at label from.
Lock(t, from, to) ==
    /\ pc[t] = from /\ owner = NoThread
    /\ owner' = t
    /\ Goto(t, to)

Begin(t) == ops[t] < MaxOps /\ ops' = [ops EXCEPT ![t] = @ + 1]

-----------------------------------------------------------------------------
StartRelease(t, n) ==
    /\ Begin(t)
    /\ Lock(t, "idle", "add")
    /\ update' = [update EXCEPT ![t] = n]
    /\ UNCHANGED <<counter, call, lost>>

\* counter_ += update, and unlock.  Nothing is signalled for an update of 0.
Add(t) ==
    /\ pc[t] = "add"
    /\ counter' = counter + update[t]
    /\ owner' = NoThread
    /\ Goto(t, IF update[t] = 0 THEN "idle" ELSE "notify")
    /\ UNCHANGED <<call, update, ops, lost>>

\* pthread_cond_signal for an update of one, without the mutex.  A wait that times
\* out may consume it.
Signal(t) ==
    /\ pc[t] = "notify" /\ update[t] = 1
    /\ \/ Waiting = {} /\ Goto(t, "idle")
       \/ \E w \in Waiting : pc' = [pc EXCEPT ![t] = "idle", ![w] = "woken"]
       \/ \E w \in TimedOut : pc' = [pc EXCEPT ![t] = "idle", ![w] = "late"]
    /\ UNCHANGED <<counter, owner, call, update, ops, lost>>

\* Mutant: one waiter is woken however much was added.
BroadcastOne(t) ==
    /\ pc[t] = "notify" /\ update[t] > 1
    /\ IF Waiting = {} THEN Goto(t, "idle")
       ELSE \E w \in Waiting : pc' = [pc EXCEPT ![t] = "idle", ![w] = "woken"]
    /\ UNCHANGED <<counter, owner, call, update, ops, lost>>

\* pthread_cond_broadcast for more.
Broadcast(t) ==
    /\ pc[t] = "notify" /\ update[t] > 1
    /\ pc' = [u \in Threads |-> IF u = t THEN "idle"
                               ELSE IF u \in Waiting THEN "woken" ELSE pc[u]]
    /\ UNCHANGED <<counter, owner, call, update, ops, lost>>

-----------------------------------------------------------------------------
StartAcquire(t, c) ==
    /\ Begin(t)
    /\ Lock(t, "idle", "check")
    /\ call' = [call EXCEPT ![t] = c]
    /\ UNCHANGED <<counter, update, lost>>

\* The loop ends with something to take: --counter_ and unlock.
Take(t) ==
    /\ pc[t] = "check" /\ counter # 0
    /\ counter' = counter - 1
    /\ lost' = Least(lost, counter')
    /\ owner' = NoThread
    /\ Goto(t, "idle")
    /\ UNCHANGED <<call, update, ops>>

\* pthread_cond_wait and pthread_cond_timedwait release the mutex and sleep in
\* one step.
Wait(t) ==
    /\ pc[t] = "check" /\ counter = 0
    /\ call[t] # "try_acquire"
    /\ owner' = NoThread
    /\ Goto(t, "waiting")
    /\ UNCHANGED <<counter, call, update, ops, lost>>

\* try_acquire, or a deadline that has passed.
GiveUp(t) ==
    /\ pc[t] = "check" /\ counter = 0
    /\ call[t] # "acquire"
    /\ owner' = NoThread
    /\ Goto(t, "idle")
    /\ UNCHANGED <<counter, call, update, ops, lost>>

\* A wait may end without a signal.
WakeSpuriously(t) ==
    /\ pc[t] = "waiting"
    /\ Goto(t, "woken")
    /\ UNCHANGED <<counter, owner, call, update, ops, lost>>

\* pthread_cond_timedwait returns ETIMEDOUT, once it has the mutex.
Timeout(t) ==
    /\ pc[t] = "waiting" /\ call[t] = "try_acquire_until"
    /\ Goto(t, "timedout")
    /\ UNCHANGED <<counter, owner, call, update, ops, lost>>

\* The wait has the mutex again; the loop looks at the counter.
Resume(t) ==
    /\ Lock(t, "woken", "check")
    /\ UNCHANGED <<counter, call, update, ops, lost>>

\* Timed out, but not yet past the deadline by the caller's clock.
ResumeEarly(t) ==
    /\ \E from \in {"timedout", "late"} : Lock(t, from, "check")
    /\ UNCHANGED <<counter, call, update, ops, lost>>

\* Timed out and past the deadline: return false without another look.
Expire(t) ==
    /\ \E from \in {"timedout", "late"} : Lock(t, from, "expired")
    /\ lost' = IF pc[t] = "late" THEN Least(lost + 1, counter) ELSE lost
    /\ UNCHANGED <<counter, call, update, ops>>

ReturnFalse(t) ==
    /\ pc[t] = "expired"
    /\ owner' = NoThread
    /\ Goto(t, "idle")
    /\ UNCHANGED <<counter, call, update, ops, lost>>

-----------------------------------------------------------------------------
Init ==
    /\ counter = Desired
    /\ owner = NoThread
    /\ pc = [t \in Threads |-> "idle"]
    /\ call = [t \in Threads |-> "acquire"]
    /\ update = [t \in Threads |-> 0]
    /\ ops = [t \in Threads |-> 0]
    /\ lost = 0

\* What a thread inside a function does next.
Continue(t) ==
    \/ Add(t) \/ Signal(t) \/ Broadcast(t)
    \/ Take(t) \/ Wait(t) \/ GiveUp(t)
    \/ Resume(t) \/ ResumeEarly(t) \/ Expire(t) \/ ReturnFalse(t)

Next ==
    \E t \in Threads :
        \/ \E n \in Updates : StartRelease(t, n)
        \/ \E c \in Calls : StartAcquire(t, c)
        \/ WakeSpuriously(t) \/ Timeout(t)
        \/ Continue(t)

Spec == Init /\ [][Next]_vars

\* A thread that can go on does; nobody has to call anything, and waits end
\* only when they are signalled.
FairSpec == Spec /\ \A t \in Threads : WF_vars(Continue(t))

-----------------------------------------------------------------------------
Labels == {"idle", "add", "notify", "check", "waiting", "woken", "timedout",
           "late", "expired"}

TypeOK ==
    /\ counter \in Nat
    /\ owner \in Threads \cup {NoThread}
    /\ pc \in [Threads -> Labels]
    /\ call \in [Threads -> Calls]
    /\ update \in [Threads -> Updates \cup {0}]
    /\ ops \in [Threads -> 0 .. MaxOps]
    /\ lost \in 0 .. counter

\* The threads that will look at the counter, or wake one that will.
Helpers == {t \in Threads : pc[t] \in {"notify", "woken", "check"}}

\* Of what there is to take while a thread sleeps, for each there is a thread on its
\* way to look at the counter or to wake a sleeper, although release signals after it
\* has unlocked; or a broadcast is still to come.  The one exception is what the
\* early return of try_acquire_until leaves: a wait that consumed a signal while it
\* timed out (Late) may return without looking, and what it was woken for is lost.
NoLostWakeup ==
    Waiting # {} =>
        \/ counter <= Cardinality(Helpers \cup Late) + lost
        \/ \E t \in Threads : pc[t] = "notify" /\ update[t] > 1

\* A thread does not sleep forever while there is more to take than waits that
\* consumed a signal and expired have left behind.
EventuallyTaken == []<>(Waiting = {} \/ counter <= lost)
=============================================================================
