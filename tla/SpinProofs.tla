----------------------------- MODULE SpinProofs -----------------------------
(***************************************************************************)
(* Proofs about the two protocols of the library in which a thread that is *)
(* refused goes back and tries again: std::lock and its likes (Locks), and *)
(* call_once (OnceFlag), for any number of threads, mutexes and calls.     *)
(***************************************************************************)
EXTENDS Spin, TLAPS

-----------------------------------------------------------------------------
(***************************************************************************)
(* Locking several mutexes: what a thread has follows from where it is.    *)
(***************************************************************************)

\* The arguments i .. j of a call.
Part(a, i, j) == {a[k] : k \in i .. j}

Places == {"idle", "failed", "threw", "first", "try", "back", "unwind", "held"}

LockTypeOK ==
    /\ owner \in [Mutexes -> Threads \cup {NoOwner}]
    /\ fn \in [Threads -> {"lock", "try_lock"}]
    /\ at \in [Threads -> Places]
    /\ args \in [Threads -> Arguments \cup {<<>>}]
    /\ next \in [Threads -> Nat]

\* The argument a thread is at is one of its arguments; a thread that goes back
\* may have nothing left to give back.
InRange ==
    \A t \in Threads :
        /\ at[t] \notin Outside => args[t] \in Arguments
        /\ at[t] = "first" => next[t] = 1
        /\ at[t] \in {"try", "held"} => next[t] \in 1 .. Len(args[t])
        /\ at[t] \in {"back", "unwind"} => next[t] < Len(args[t])

\* Forwards a thread has what is before the argument it is at, backwards what is
\* up to it, and when it unlocks what is from there on; waiting it has nothing.
Has(t) ==
    /\ at[t] \in Outside \cup {"first"} => Owns(t) = {}
    /\ at[t] = "try" => Owns(t) = Part(args[t], 1, next[t] - 1)
    /\ at[t] \in {"back", "unwind"} => Owns(t) = Part(args[t], 1, next[t])
    /\ at[t] = "held" => Owns(t) = Part(args[t], next[t], Len(args[t]))

LockInv == LockTypeOK /\ InRange /\ \A t \in Threads : Has(t)

\* One more argument locked, or one given back.
LEMMA Parts ==
  ASSUME NEW a \in Arguments, NEW k \in 1 .. Len(a)
  PROVE  /\ a[k] \in Mutexes
         /\ Part(a, 1, 0) = {} /\ Part(a, Len(a) + 1, Len(a)) = {}
         /\ Part(a, 1, k) = Part(a, 1, k - 1) \cup {a[k]}
         /\ Part(a, 1, k - 1) = Part(a, 1, k) \ {a[k]}
         /\ Part(a, k + 1, Len(a)) = Part(a, k, Len(a)) \ {a[k]}
<1>1. a \in Seq(Mutexes) /\ Len(a) \in Nat /\ \A i, j \in 1 .. Len(a) : a[i] = a[j] => i = j
  BY LocksAssumption
<1>2. 1 .. k = 1 .. (k - 1) \cup {k} /\ k \notin 1 .. (k - 1)
  BY <1>1
<1>3. k .. Len(a) = (k + 1) .. Len(a) \cup {k} /\ k \notin (k + 1) .. Len(a)
  BY <1>1
<1>4. 1 .. k \subseteq 1 .. Len(a) /\ k .. Len(a) \subseteq 1 .. Len(a)
  BY <1>1
<1>5. a[k] \in Mutexes /\ Part(a, 1, 0) = {} /\ Part(a, Len(a) + 1, Len(a)) = {}
  BY <1>1 DEF Part
<1>6. Part(a, 1, k) = Part(a, 1, k - 1) \cup {a[k]}
  BY <1>2 DEF Part
<1>7. a[k] \notin Part(a, 1, k - 1)
  BY <1>1, <1>2, <1>4 DEF Part
<1>8. Part(a, k, Len(a)) = Part(a, k + 1, Len(a)) \cup {a[k]}
  BY <1>3 DEF Part
<1>9. a[k] \notin Part(a, k + 1, Len(a))
  BY <1>1, <1>3, <1>4 DEF Part
<1> QED
  BY <1>5, <1>6, <1>7, <1>8, <1>9

\* A thread that takes a free mutex has it besides what it had, and nobody else
\* has anything else.
LEMMA Taking ==
  ASSUME LockTypeOK, NEW t \in Threads, Arg(t) \in Mutexes, owner[Arg(t)] = NoOwner, Take(t)
  PROVE  /\ owner' \in [Mutexes -> Threads \cup {NoOwner}]
         /\ Owns(t)' = Owns(t) \cup {Arg(t)}
         /\ \A u \in Threads \ {t} : Owns(u)' = Owns(u)
  BY LocksAssumption DEF LockTypeOK, Take, Owns

\* A thread that gives back a mutex it has keeps the others.
LEMMA Giving ==
  ASSUME LockTypeOK, NEW t \in Threads, Arg(t) \in Owns(t), Give(t)
  PROVE  /\ owner' \in [Mutexes -> Threads \cup {NoOwner}]
         /\ Owns(t)' = Owns(t) \ {Arg(t)}
         /\ \A u \in Threads \ {t} : Owns(u)' = Owns(u)
  BY LocksAssumption DEF LockTypeOK, Give, Owns

\* What a step of one thread has to show: the others stay where they are.
LEMMA OthersStay ==
  ASSUME LockInv, NEW t \in Threads,
         owner' \in [Mutexes -> Threads \cup {NoOwner}],
         \A u \in Threads \ {t} : Owns(u)' = Owns(u),
         NEW f \in {"lock", "try_lock"}, fn' = [fn EXCEPT ![t] = f],
         NEW l \in Places, at' = [at EXCEPT ![t] = l],
         NEW a \in Arguments \cup {<<>>}, args' = [args EXCEPT ![t] = a],
         NEW i \in Nat, next' = [next EXCEPT ![t] = i],
         /\ l \notin Outside => a \in Arguments
         /\ l = "first" => i = 1
         /\ l \in {"try", "held"} => i \in 1 .. Len(a)
         /\ l \in {"back", "unwind"} => i < Len(a),
         /\ l \in Outside \cup {"first"} => Owns(t)' = {}
         /\ l = "try" => Owns(t)' = Part(a, 1, i - 1)
         /\ l \in {"back", "unwind"} => Owns(t)' = Part(a, 1, i)
         /\ l = "held" => Owns(t)' = Part(a, i, Len(a))
  PROVE  LockInv'
<1>1. LockTypeOK'
  BY DEF LockInv, LockTypeOK
<1>2. /\ at'[t] = l /\ args'[t] = a /\ next'[t] = i
      /\ \A u \in Threads \ {t} : at'[u] = at[u] /\ args'[u] = args[u] /\ next'[u] = next[u]
  BY DEF LockInv, LockTypeOK
<1>3. InRange'
  BY <1>2 DEF LockInv, InRange
<1>4. Has(t)'
  BY <1>2 DEF Has
<1>5. \A u \in Threads \ {t} : Has(u)'
  BY <1>2 DEF LockInv, Has
<1> QED
  BY <1>1, <1>3, <1>4, <1>5 DEF LockInv

\* The same for a step inside a call.
LEMMA OthersStayInside ==
  ASSUME LockInv, NEW t \in Threads, args[t] \in Arguments,
         owner' \in [Mutexes -> Threads \cup {NoOwner}],
         \A u \in Threads \ {t} : Owns(u)' = Owns(u),
         NEW l \in Places \ Outside, NEW i \in Nat, Step(t, l, i),
         /\ l = "first" => i = 1
         /\ l \in {"try", "held"} => i \in 1 .. Len(args[t])
         /\ l \in {"back", "unwind"} => i < Len(args[t]),
         /\ l = "first" => Owns(t)' = {}
         /\ l = "try" => Owns(t)' = Part(args[t], 1, i - 1)
         /\ l \in {"back", "unwind"} => Owns(t)' = Part(args[t], 1, i)
         /\ l = "held" => Owns(t)' = Part(args[t], i, Len(args[t]))
  PROVE  LockInv'
<1>1. /\ fn[t] \in {"lock", "try_lock"} /\ fn' = [fn EXCEPT ![t] = fn[t]]
      /\ args' = [args EXCEPT ![t] = args[t]]
  BY DEF Step, LockInv, LockTypeOK
<1>2. at' = [at EXCEPT ![t] = l] /\ next' = [next EXCEPT ![t] = i] /\ l \in Places
  BY DEF Step
<1>3. l \notin Outside
  OBVIOUS
<1> HIDE DEF LockInv, Outside, Places, Owns, Part
<1> QED
  BY <1>1, <1>2, <1>3, OthersStay

\* Every step of every thread keeps the invariant.
LEMMA StepLockInv == LockInv /\ [LockNext]_lockVars => LockInv'
<1> SUFFICES ASSUME LockInv, [LockNext]_lockVars PROVE LockInv'
  OBVIOUS
<1>0. /\ \A t \in Threads :
           /\ fn[t] \in {"lock", "try_lock"} /\ at[t] \in Places
           /\ args[t] \in Arguments \cup {<<>>} /\ next[t] \in Nat
           /\ fn = [fn EXCEPT ![t] = fn[t]] /\ args = [args EXCEPT ![t] = args[t]]
      /\ owner \in [Mutexes -> Threads \cup {NoOwner}]
  BY DEF LockInv, LockTypeOK
<1>a. \A a \in Arguments : Len(a) \in Nat \ {0}
  BY LocksAssumption
<1>1. ASSUME NEW t \in Threads, NEW f \in {"lock", "try_lock"}, NEW a \in Arguments,
             Call(t, f, a)
      PROVE  LockInv'
  <2>1. Owns(t)' = {} /\ \A u \in Threads \ {t} : Owns(u)' = Owns(u)
    BY <1>1 DEF Call, LockInv, Has, Owns
  <2>2. Part(a, 1, 0) = {}
    BY <1>a, Parts
  <2>3. CASE f = "lock"
    BY <1>0, <1>1, <2>1, <2>3, OthersStay DEF Call, Places, Outside
  <2>4. CASE f # "lock"
    <3>1. at' = [at EXCEPT ![t] = "try"]
      BY <1>1, <2>4 DEF Call
    <3>2. 1 \in 1 .. Len(a) /\ 1 - 1 = 0
      BY <1>a
    <3>3. /\ fn' = [fn EXCEPT ![t] = f] /\ args' = [args EXCEPT ![t] = a]
          /\ next' = [next EXCEPT ![t] = 1]
          /\ owner' \in [Mutexes -> Threads \cup {NoOwner}]
      BY <1>0, <1>1 DEF Call
    <3>4. "try" \in Places /\ "try" \notin Outside
      BY DEF Places, Outside
    <3>5. Owns(t)' = Part(a, 1, 1 - 1)
      BY <2>1, <2>2, <3>2
    <3> QED
      BY <2>1, <3>1, <3>2, <3>3, <3>4, <3>5, OthersStay
  <2> QED
    BY <2>3, <2>4
<1>2. ASSUME NEW t \in Threads, LockFirst(t) PROVE LockInv'
  <2>1. /\ args[t] \in Arguments /\ next[t] = 1 /\ Owns(t) = {} /\ owner[Arg(t)] = NoOwner
        /\ 1 \in 1 .. Len(args[t])
    BY <1>2, <1>a DEF LockFirst, LockInv, InRange, Has, Outside
  <2>2. Arg(t) = args[t][1] /\ Arg(t) \in Mutexes
    BY <2>1, Parts DEF Arg
  <2>3. /\ owner' \in [Mutexes -> Threads \cup {NoOwner}]
        /\ Owns(t)' = {args[t][1]}
        /\ \A u \in Threads \ {t} : Owns(u)' = Owns(u)
    BY <1>2, <2>1, <2>2, Taking DEF LockFirst, LockInv
  <2>4. Part(args[t], 1, 1) = {args[t][1]}
    BY DEF Part
  <2>5. CASE Len(args[t]) = 1
    <3>1. Step(t, "held", 1)
      BY <1>2, <2>5 DEF LockFirst
    <3> QED
      BY <1>0, <2>1, <2>3, <2>4, <2>5, <3>1, OthersStayInside DEF Places, Outside
  <2>6. CASE Len(args[t]) # 1
    <3>1. Step(t, "try", 2)
      BY <1>2, <2>6 DEF LockFirst
    <3>2. 2 \in 1 .. Len(args[t]) /\ 2 - 1 = 1
      <4> DEFINE n == Len(args[t])
      <4>1. n \in Nat \ {0}
        BY <1>a, <2>1
      <4> HIDE DEF n
      <4>2. n # 1 => 2 \in 1 .. n /\ 2 - 1 = 1
        BY <4>1
      <4> QED
        BY <2>6, <4>2 DEF n
    <3>3. Owns(t)' = Part(args[t], 1, 2 - 1)
      BY <2>3, <2>4, <3>2
    <3>4. "try" \in Places \ Outside
      BY DEF Places, Outside
    <3> QED
      BY <2>1, <2>3, <3>1, <3>2, <3>3, <3>4, OthersStayInside
  <2> QED
    BY <2>5, <2>6
<1>3. ASSUME NEW t \in Threads, TryNext(t) PROVE LockInv'
  <2> DEFINE a == args[t]
             i == next[t]
  <2>1. /\ a \in Arguments /\ i \in 1 .. Len(a) /\ Owns(t) = Part(a, 1, i - 1)
        /\ owner[Arg(t)] = NoOwner
    BY <1>3 DEF TryNext, LockInv, InRange, Has, Outside
  <2>2. Arg(t) = a[i] /\ Arg(t) \in Mutexes
    BY <2>1, Parts DEF Arg
  <2>3. /\ owner' \in [Mutexes -> Threads \cup {NoOwner}]
        /\ Owns(t)' = Part(a, 1, i)
        /\ \A u \in Threads \ {t} : Owns(u)' = Owns(u)
    <3>1. Part(a, 1, i) = Part(a, 1, i - 1) \cup {a[i]}
      BY <2>1, Parts
    <3> QED
      BY <1>3, <2>1, <2>2, <3>1, Taking DEF TryNext, LockInv
  <2>4. CASE i = Len(a)
    <3>1. Step(t, "held", 1) /\ 1 \in 1 .. Len(a)
      BY <1>3, <1>a, <2>1, <2>4 DEF TryNext
    <3> QED
      BY <1>0, <2>1, <2>3, <2>4, <3>1, OthersStayInside DEF Places, Outside
  <2>5. CASE i # Len(a)
    <3>1. Step(t, "try", i + 1)
      BY <1>3, <2>5 DEF TryNext
    <3>2. i + 1 \in 1 .. Len(a) /\ (i + 1) - 1 = i
      BY <1>a, <2>1, <2>5
    <3>3. Owns(t)' = Part(a, 1, (i + 1) - 1) /\ i + 1 \in Nat
      BY <2>1, <2>3, <3>2
    <3>4. "try" \in Places \ Outside
      BY DEF Places, Outside
    <3> HIDE DEF a, i
    <3> QED
      BY <2>1, <2>3, <3>1, <3>2, <3>3, <3>4, OthersStayInside DEF a
  <2> QED
    BY <2>4, <2>5
<1>4. ASSUME NEW t \in Threads, NEW l \in {"back", "unwind"}, at[t] = "try",
             Step(t, l, next[t] - 1), UNCHANGED owner
      PROVE  LockInv'
  <2>1. /\ args[t] \in Arguments /\ next[t] \in 1 .. Len(args[t])
        /\ Owns(t) = Part(args[t], 1, next[t] - 1)
    BY <1>4 DEF LockInv, InRange, Has, Outside
  <2>2. next[t] - 1 \in Nat /\ next[t] - 1 < Len(args[t])
    BY <2>1, <1>a
  <2>3. \A u \in Threads : Owns(u)' = Owns(u)
    BY <1>4 DEF Owns
  <2> QED
    BY <1>0, <1>4, <2>1, <2>2, <2>3, OthersStayInside DEF Places, Outside
<1>5. ASSUME NEW t \in Threads, BackOut(t) PROVE LockInv'
  <2> DEFINE a == args[t]
             i == next[t]
  <2>1. /\ a \in Arguments /\ i \in 1 .. Len(a) /\ Owns(t) = Part(a, 1, i)
        /\ at[t] \in {"back", "unwind"}
    BY <1>5, <1>a, <1>0 DEF BackOut, LockInv, InRange, Has, Outside
  <2>2. Arg(t) = a[i] /\ Arg(t) \in Owns(t)
    BY <2>1, Parts DEF Arg
  <2>3. /\ owner' \in [Mutexes -> Threads \cup {NoOwner}]
        /\ Owns(t)' = Part(a, 1, i - 1)
        /\ \A u \in Threads \ {t} : Owns(u)' = Owns(u)
    <3>1. Part(a, 1, i - 1) = Part(a, 1, i) \ {a[i]}
      BY <2>1, Parts
    <3> QED
      BY <1>5, <2>1, <2>2, <3>1, Giving DEF BackOut, LockInv
  <2>4. i - 1 \in Nat /\ i - 1 < Len(a)
    BY <2>1, <1>a
  <2> QED
    BY <1>0, <1>5, <2>1, <2>3, <2>4, OthersStayInside DEF BackOut, Places, Outside
<1>6. ASSUME NEW t \in Threads, at[t] \in {"back", "unwind"}, next[t] = 0
      PROVE  Owns(t) = {} /\ args[t] \in Arguments
  BY <1>6, <1>a, Parts DEF LockInv, InRange, Has, Outside
<1>7. ASSUME NEW t \in Threads, Retry(t) PROVE LockInv'
  <2>1. \A u \in Threads : Owns(u)' = Owns(u)
    BY <1>7 DEF Retry, Owns
  <2> QED
    BY <1>0, <1>6, <1>7, <2>1, OthersStayInside DEF Retry, Places, Outside
<1>8. ASSUME NEW t \in Threads, ReturnIndex(t) \/ Rethrow(t) PROVE LockInv'
  <2>1. \A u \in Threads : Owns(u)' = Owns(u)
    BY <1>8 DEF ReturnIndex, Rethrow, Owns
  <2>2. PICK l \in {"failed", "threw"} : Leave(t, l)
    BY <1>8 DEF ReturnIndex, Rethrow
  <2>3. owner' = owner /\ Owns(t) = {}
    BY <1>6, <1>8 DEF ReturnIndex, Rethrow
  <2> QED
    BY <1>0, <2>1, <2>2, <2>3, OthersStay DEF Leave, Places, Outside
<1>9. ASSUME NEW t \in Threads, Unlock(t) PROVE LockInv'
  <2> DEFINE a == args[t]
             i == next[t]
  <2>1. a \in Arguments /\ i \in 1 .. Len(a) /\ Owns(t) = Part(a, i, Len(a))
    BY <1>9 DEF Unlock, LockInv, InRange, Has, Outside
  <2>2. Arg(t) = a[i] /\ Arg(t) \in Owns(t)
    BY <2>1, <1>a DEF Arg, Part
  <2>3. /\ owner' \in [Mutexes -> Threads \cup {NoOwner}]
        /\ Owns(t)' = Part(a, i + 1, Len(a))
        /\ \A u \in Threads \ {t} : Owns(u)' = Owns(u)
    <3>1. Part(a, i + 1, Len(a)) = Part(a, i, Len(a)) \ {a[i]}
      BY <2>1, Parts
    <3> QED
      BY <1>9, <2>1, <2>2, <3>1, Giving DEF Unlock, LockInv
  <2>4. CASE i = Len(a)
    <3>1. Leave(t, "idle") /\ Owns(t)' = {}
      BY <1>9, <2>1, <2>3, <2>4, Parts DEF Unlock
    <3> QED
      BY <1>0, <2>3, <3>1, OthersStay DEF Leave, Places, Outside
  <2>5. CASE i # Len(a)
    <3>1. Step(t, "held", i + 1) /\ i + 1 \in 1 .. Len(a)
      BY <1>9, <1>a, <2>1, <2>5 DEF Unlock
    <3> QED
      BY <1>0, <2>1, <2>3, <3>1, OthersStayInside DEF Places, Outside
  <2> QED
    BY <2>4, <2>5
<1>10. CASE UNCHANGED lockVars
  BY <1>10 DEF lockVars, LockInv, LockTypeOK, InRange, Has, Owns
<1> QED
  BY <1>1, <1>2, <1>3, <1>4, <1>5, <1>7, <1>8, <1>9, <1>10
     DEF LockNext, Advance, TryFails, TryThrows

\* The invariant of the locks holds throughout.
LEMMA LockInvariance == LockSpec => []LockInv
<1>1. LockInit => LockInv
  BY LocksAssumption DEF LockInit, LockInv, LockTypeOK, InRange, Has, Owns, Places, Outside
<1> QED
  BY <1>1, StepLockInv, PTL DEF LockSpec

\* Whatever the orders in which the threads name the mutexes, a thread that waits
\* in std::lock waits for one that does not: there is no deadlock among them.
THEOREM NoWaitingRing == LockSpec => []OwnerNotWaiting
<1>1. LockInv => OwnerNotWaiting
  <2> SUFFICES ASSUME LockInv, NEW t \in Threads, at[t] = "first", owner[Arg(t)] # NoOwner
               PROVE  at[owner[Arg(t)]] # "first"
    BY DEF OwnerNotWaiting
  <2>1. args[t] \in Arguments /\ next[t] = 1 /\ 1 \in 1 .. Len(args[t])
    BY LocksAssumption DEF LockInv, InRange, Outside
  <2>2. Arg(t) \in Mutexes
    BY <2>1, Parts DEF Arg
  <2>3. owner[Arg(t)] \in Threads /\ Arg(t) \in Owns(owner[Arg(t)])
    BY <2>2 DEF LockInv, LockTypeOK, Owns
  <2> QED
    BY <2>3 DEF LockInv, Has
<1> QED
  BY <1>1, LockInvariance, PTL

\* lock, try_lock and scoped_lock end with all their mutexes or with none, also
\* when somebody else has one of them or a try_lock throws.
THEOREM AllOrNone == LockSpec => []AllOrNothing
<1>1. LockInv => AllOrNothing
  <2> SUFFICES ASSUME LockInv, NEW t \in Threads
               PROVE  /\ at[t] \in Outside => Owns(t) = {}
                      /\ at[t] = "held" /\ next[t] = 1
                            => Owns(t) = {args[t][i] : i \in DOMAIN args[t]}
    BY DEF AllOrNothing
  <2>1. at[t] \in Outside => Owns(t) = {}
    BY DEF LockInv, Has
  <2>2. CASE at[t] = "held" /\ next[t] = 1
    <3>1. args[t] \in Arguments /\ Owns(t) = Part(args[t], 1, Len(args[t]))
      BY <2>2 DEF LockInv, InRange, Has, Outside
    <3>2. DOMAIN args[t] = 1 .. Len(args[t])
      BY <3>1, LocksAssumption
    <3> QED
      BY <2>1, <2>2, <3>1, <3>2 DEF Part
  <2> QED
    BY <2>1, <2>2
<1> QED
  BY <1>1, LockInvariance, PTL

-----------------------------------------------------------------------------
(***************************************************************************)
(* call_once: what the flag says of the threads.                           *)
(***************************************************************************)
OnceTypeOK ==
    /\ state \in {"not_started", "running", "complete"}
    /\ pc \in [Threads -> {"idle", "load", "exchange", "run", "finish",
                           "returned", "threw"}]
    /\ calls \in [Threads -> Nat]
    /\ effects \in Nat

FlagSays ==
    /\ \A t \in Threads : O!Inside(t) => state = "running"
    /\ \A t, u \in Threads : O!Inside(t) /\ O!Inside(u) => t = u
    /\ \A t \in Threads : pc[t] = "run" => effects = 0
    /\ \A t \in Threads : pc[t] = "finish" => effects = 1
    /\ \A t \in Threads : pc[t] = "returned" => state = "complete"
    /\ state = "complete" => effects = 1
    /\ state = "not_started" => effects = 0

OnceInv == OnceTypeOK /\ FlagSays

\* Every step of call_once preserves what the flag says.
LEMMA StepOnceInv == OnceInv /\ [O!Next]_(O!vars) => OnceInv'
<1> SUFFICES ASSUME OnceInv, [O!Next]_(O!vars) PROVE OnceInv'
  OBVIOUS
<1> USE DEF OnceInv, OnceTypeOK, FlagSays, O!Inside, O!Goto
<1>1. ASSUME NEW t \in Threads, O!Call(t) PROVE OnceInv'
  BY <1>1 DEF O!Call
<1>2. ASSUME NEW t \in Threads, O!Load(t) PROVE OnceInv'
  BY <1>2 DEF O!Load
<1>3. ASSUME NEW t \in Threads, O!Exchange(t) PROVE OnceInv'
  BY <1>3 DEF O!Exchange
<1>4. ASSUME NEW t \in Threads, O!RunReturns(t) PROVE OnceInv'
  BY <1>4 DEF O!RunReturns
<1>5. ASSUME NEW t \in Threads, O!RunThrows(t) PROVE OnceInv'
  BY <1>5 DEF O!RunThrows
<1>6. ASSUME NEW t \in Threads, O!Finish(t) PROVE OnceInv'
  BY <1>6 DEF O!Finish
<1>7. CASE UNCHANGED O!vars
  BY <1>7 DEF O!vars
<1> QED
  BY <1>1, <1>2, <1>3, <1>4, <1>5, <1>6, <1>7 DEF O!Next, O!Continue

\* The invariant of call_once holds throughout.
LEMMA OnceInvariance == O!Spec => []OnceInv
<1>1. O!Init => OnceInv
  BY DEF O!Init, OnceInv, OnceTypeOK, FlagSays, O!Inside
<1> QED
  BY <1>1, StepOnceInv, PTL DEF O!Spec

\* The callable of call_once runs in one thread at a time, and never again after it
\* has returned, for any number of threads and calls.
THEOREM OnceAlone == O!Spec => []RunsAlone
<1>1. OnceInv => RunsAlone
  BY DEF OnceInv, FlagSays, RunsAlone, O!RunsAlone
<1> QED
  BY <1>1, OnceInvariance, PTL

\* No call of call_once returns before the callable has returned, exactly once.
THEOREM NobodyAhead == O!Spec => []EffectBeforeReturn
<1>1. OnceInv => EffectBeforeReturn
  BY DEF OnceInv, FlagSays, EffectBeforeReturn, O!EffectBeforeReturn
<1> QED
  BY <1>1, OnceInvariance, PTL

-----------------------------------------------------------------------------
\* What is shown of either protocol holds when the two are run side by side:
\* neither changes the variables of the other.
THEOREM Halves == SafeSpec => LockSpec /\ O!Spec
<1>1. SpinInit => LockInit /\ O!Init
  BY DEF SpinInit
<1>2. [SpinNext]_allVars => [LockNext]_lockVars
  BY DEF SpinNext, allVars
<1>3. [SpinNext]_allVars => [O!Next]_(O!vars)
  BY DEF SpinNext, allVars, onceVars, O!vars
<1> QED
  BY <1>1, <1>2, <1>3, PTL DEF SafeSpec, LockSpec, O!Spec
=============================================================================
