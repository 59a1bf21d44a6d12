-------------------------------- MODULE Locks --------------------------------
(***************************************************************************)
(* std::lock, std::try_lock and scoped_lock of the Adinkra standard        *)
(* library (adinkra/include/c++/v1/mutex).                                 *)
(*                                                                         *)
(* std::lock waits for the first of its arguments, tries the others, and   *)
(* when one is taken gives back what it has, yields and starts again.  The *)
(* arguments are mutexes, or lockables whose try_lock may throw, as that   *)
(* of unique_lock does.  A thread has one call at a time and uses no other *)
(* lock meanwhile.                                                         *)
(***************************************************************************)
EXTENDS Naturals, Sequences

CONSTANTS
    Threads, Mutexes,
    Throwing,     \* the lockables whose try_lock may throw
    Arguments,    \* the argument lists of the calls
    NoOwner

\* A call has an argument, and no mutex is in its list twice.
ASSUME LocksAssumption ==
    /\ NoOwner \notin Threads
    /\ \A a \in Arguments :
          /\ a \in Seq(Mutexes) /\ Len(a) > 0
          /\ \A i, j \in DOMAIN a : a[i] = a[j] => i = j

VARIABLES
    owner,   \* who has each mutex
    fn,      \* the function each thread is in
    at,      \* where it is in it
    args,    \* its arguments
    next     \* the argument it is at

lockVars == <<owner, fn, at, args, next>>

Arg(t) == args[t][next[t]]

Owns(t) == {m \in Mutexes : owner[m] = t}

Outside == {"idle", "failed", "threw"}

Step(t, l, i) ==
    /\ at' = [at EXCEPT ![t] = l]
    /\ next' = [next EXCEPT ![t] = i]
    /\ UNCHANGED <<fn, args>>

\* The end of a call or of a scoped_lock.
Leave(t, l) ==
    /\ at' = [at EXCEPT ![t] = l]
    /\ next' = [next EXCEPT ![t] = 1]
    /\ fn' = [fn EXCEPT ![t] = "lock"]
    /\ args' = [args EXCEPT ![t] = <<>>]

Take(t) == owner' = [owner EXCEPT ![Arg(t)] = t]

Give(t) == owner' = [owner EXCEPT ![Arg(t)] = NoOwner]

-------------------------------------------------------------------------------
\* scoped_lock(m, ...) and std::lock(m, ...), lock_guard(m), std::try_lock(m, ...).
Call(t, f, a) ==
    /\ at[t] \in Outside
    /\ f = "try_lock" => Len(a) > 1
    /\ fn' = [fn EXCEPT ![t] = f]
    /\ args' = [args EXCEPT ![t] = a]
    /\ at' = [at EXCEPT ![t] = IF f = "lock" THEN "first" ELSE "try"]
    /\ next' = [next EXCEPT ![t] = 1]
    /\ UNCHANGED owner

\* pthread_mutex_lock, which waits while somebody has the mutex.
LockFirst(t) ==
    /\ at[t] = "first" /\ owner[Arg(t)] = NoOwner
    /\ Take(t)
    /\ IF Len(args[t]) = 1 THEN Step(t, "held", 1) ELSE Step(t, "try", 2)

\* try_lock_from, when the argument is free.
TryNext(t) ==
    /\ at[t] = "try" /\ owner[Arg(t)] = NoOwner
    /\ Take(t)
    /\ IF next[t] = Len(args[t]) THEN Step(t, "held", 1) ELSE Step(t, "try", next[t] + 1)

\* try_lock_from, when somebody has the argument.
TryFails(t) ==
    /\ at[t] = "try" /\ owner[Arg(t)] # NoOwner
    /\ Step(t, "back", next[t] - 1)
    /\ UNCHANGED owner

\* The handlers of try_lock_from and lock.
TryThrows(t) ==
    /\ at[t] = "try" /\ Arg(t) \in Throwing
    /\ Step(t, "unwind", next[t] - 1)
    /\ UNCHANGED owner

\* Mutant: lock has no handler, and the first argument stays locked.
BackOutForgetsFirst(t) ==
    /\ at[t] \in {"back", "unwind"} /\ next[t] > 0
    /\ IF at[t] = "unwind" /\ fn[t] = "lock" /\ next[t] = 1 THEN UNCHANGED owner ELSE Give(t)
    /\ Step(t, at[t], next[t] - 1)

\* first.unlock() in every activation of try_lock_from, the innermost first, and
\* then in lock.
BackOut(t) ==
    /\ at[t] \in {"back", "unwind"} /\ next[t] > 0
    /\ Give(t)
    /\ Step(t, at[t], next[t] - 1)

\* Mutant: the thread keeps what it has and waits for the one it lacks.
RetryHolding(t) ==
    /\ at[t] = "back" /\ next[t] = 0 /\ fn[t] = "lock"
    /\ Step(t, "first", 2)
    /\ owner' = [owner EXCEPT ![args[t][1]] = IF @ = NoOwner THEN t ELSE @]

\* lock yields and starts again.
Retry(t) ==
    /\ at[t] = "back" /\ next[t] = 0 /\ fn[t] = "lock"
    /\ Step(t, "first", 1)
    /\ UNCHANGED owner

\* try_lock returns the index of the argument somebody had.
ReturnIndex(t) ==
    /\ at[t] = "back" /\ next[t] = 0 /\ fn[t] = "try_lock"
    /\ Leave(t, "failed")
    /\ UNCHANGED owner

Rethrow(t) ==
    /\ at[t] = "unwind" /\ next[t] = 0
    /\ Leave(t, "threw")
    /\ UNCHANGED owner

\* ~scoped_lock: the first, then the rest.
Unlock(t) ==
    /\ at[t] = "held"
    /\ Give(t)
    /\ IF next[t] = Len(args[t]) THEN Leave(t, "idle") ELSE Step(t, "held", next[t] + 1)

-------------------------------------------------------------------------------
LockInit ==
    /\ owner = [m \in Mutexes |-> NoOwner]
    /\ fn = [t \in Threads |-> "lock"]
    /\ at = [t \in Threads |-> "idle"]
    /\ args = [t \in Threads |-> <<>>]
    /\ next = [t \in Threads |-> 1]

Advance(t) ==
    \/ LockFirst(t) \/ TryNext(t) \/ TryFails(t) \/ TryThrows(t) \/ BackOut(t)
    \/ Retry(t) \/ ReturnIndex(t) \/ Rethrow(t) \/ Unlock(t)

LockNext ==
    \E t \in Threads :
        \/ \E f \in {"lock", "try_lock"}, a \in Arguments : Call(t, f, a)
        \/ Advance(t)

LockSpec == LockInit /\ [][LockNext]_lockVars

-------------------------------------------------------------------------------
\* Nobody waits for a thread that waits itself, whatever the orders in which the
\* threads name the mutexes: std::lock never waits while it has one, and the chain
\* of waiting threads has no second link.
OwnerNotWaiting ==
    \A t \in Threads :
        at[t] = "first" /\ owner[Arg(t)] # NoOwner => at[owner[Arg(t)]] # "first"

\* A call leaves with all its mutexes or with none, and one that throws or fails
\* half way has given back what it had locked before.
AllOrNothing ==
    \A t \in Threads :
        /\ at[t] \in Outside => Owns(t) = {}
        /\ at[t] = "held" /\ next[t] = 1 => Owns(t) = {args[t][i] : i \in DOMAIN args[t]}

\* A call that no other call disturbs ends: what failed attempts leave behind never
\* blocks the next one.  (Two threads that back off from each other for ever are
\* not excluded by the code.)
Unopposed ==
    \A t \in Threads :
        []<>(at[t] \in Outside \/ \E u \in Threads \ {t} : at[u] \notin Outside)
===============================================================================
