------------------------------ MODULE SharedPtr ------------------------------
(***************************************************************************)
(* The reference counting behind std::shared_ptr and std::weak_ptr of the  *)
(* Adinkra library (adinkra/include/c++/v1/memory), and the free functions *)
(* atomic_load, atomic_store, atomic_exchange and atomic_compare_exchange  *)
(* on a shared_ptr, which serialise on one process-wide pthread mutex      *)
(* (adinkra/runtime/atomic.cpp).                                           *)
(*                                                                         *)
(* Each __atomic_* operation of class shared_control is one step, so the   *)
(* threads interleave exactly where the hardware lets them.  The client is *)
(* any program without data races on the smart pointer objects themselves: *)
(* a shared_ptr or weak_ptr object is used by the thread that owns it, and *)
(* Slot is the one shared_ptr that all threads share, through atomic_* .   *)
(***************************************************************************)
EXTENDS Integers, FiniteSets

CONSTANTS
    Threads,   \* the client's threads; t also names the local shared_ptr
               \* `replacement' of operator= when thread t runs it
    Controls,  \* the control blocks the program may allocate
    Locking,   \* those whose object calls an atomic_* function in its destructor
    Shared,    \* the shared_ptr objects owned by single threads
    Weaks,     \* the weak_ptr objects owned by single threads
    Slot,      \* the shared_ptr object all threads access with atomic_*
    Owner,     \* the thread that owns each element of Shared and Weaks
    Null       \* nullptr, and "no thread" for the mutex

ASSUME SharedPtrAssumption ==
    /\ IsFiniteSet(Threads) /\ IsFiniteSet(Shared) /\ IsFiniteSet(Weaks)
    /\ Threads \cap Shared = {} /\ Locking \subseteq Controls
    /\ Slot \notin Threads \cup Shared
    /\ Null \notin Controls \cup Threads
    /\ Owner \in [Shared \cup Weaks -> Threads]

Handles == Shared \cup {Slot} \cup Threads

VARIABLES
    strong,  \* shared_control::strong_
    weak,    \* shared_control::weak_
    object,  \* the managed object: "none", "live" or "destroyed"
    block,   \* the control block: "none", "live" or "deleted"
    sptr,    \* control_ of every shared_ptr object
    wptr,    \* control_ of every weak_ptr object
    mutex,   \* holder of shared_ptr_atomic_mutex, or Null
    call     \* the call each thread is executing

vars == <<strong, weak, object, block, sptr, wptr, mutex, call>>

counts == <<strong, weak, object, block>>

(***************************************************************************)
(* A thread's call: where it is (pc), which function it runs (kind), its   *)
(* shared_ptr argument or result h, the `expected' e of a compare exchange,*)
(* the control block c it is inside and the local `value' of               *)
(* try_add_strong.                                                         *)
(***************************************************************************)
Idle == [pc |-> "idle", kind |-> "none", h |-> Slot, e |-> Slot,
         c |-> Null, value |-> 0]

Mine(t) == {h \in Shared : Owner[h] = t}
MyWeaks(t) == {w \in Weaks : Owner[w] = t}

At(t, label) == call[t].pc = label

Goto(t, label) == call' = [call EXCEPT ![t].pc = label]

Begin(t, r) == call' = [call EXCEPT ![t] = r]

(***************************************************************************)
(* The end of a release sequence: operator= inside a failing compare       *)
(* exchange still has the mutex to unlock, any other release ends the call.*)
(***************************************************************************)
AfterRelease(t) ==
    IF mutex = t THEN [call[t] EXCEPT !.pc = "unlock", !.c = Null] ELSE Idle

\* make_shared: a new control block with strong_ = weak_ = 1.
MakeShared(t) ==
    \E h \in Mine(t), c \in Controls :
        /\ At(t, "idle") /\ sptr[h] = Null /\ block[c] = "none"
        /\ strong' = [strong EXCEPT ![c] = 1]
        /\ weak' = [weak EXCEPT ![c] = 1]
        /\ object' = [object EXCEPT ![c] = "live"]
        /\ block' = [block EXCEPT ![c] = "live"]
        /\ sptr' = [sptr EXCEPT ![h] = c]
        /\ UNCHANGED <<wptr, mutex, call>>

\* shared_ptr(const shared_ptr&): add_reference, hence add_strong.
CopyShared(t) ==
    \E g, h \in Mine(t) :
        /\ At(t, "idle") /\ sptr[g] # Null /\ sptr[h] = Null
        /\ strong' = [strong EXCEPT ![sptr[g]] = @ + 1]
        /\ sptr' = [sptr EXCEPT ![h] = sptr[g]]
        /\ UNCHANGED <<weak, object, block, wptr, mutex, call>>

\* shared_ptr(shared_ptr&&), possibly handing the pointer to another thread
\* at a synchronisation point.
MoveShared(t) ==
    \E g \in Mine(t), h \in Shared :
        /\ At(t, "idle") /\ At(Owner[h], "idle")
        /\ sptr[g] # Null /\ sptr[h] = Null
        /\ sptr' = [sptr EXCEPT ![g] = Null, ![h] = sptr[g]]
        /\ UNCHANGED <<counts, wptr, mutex, call>>

\* weak_ptr(const shared_ptr&): add_weak.
WeakFromShared(t) ==
    \E h \in Mine(t), w \in MyWeaks(t) :
        /\ At(t, "idle") /\ sptr[h] # Null /\ wptr[w] = Null
        /\ weak' = [weak EXCEPT ![sptr[h]] = @ + 1]
        /\ wptr' = [wptr EXCEPT ![w] = sptr[h]]
        /\ UNCHANGED <<strong, object, block, sptr, mutex, call>>

\* weak_ptr(const weak_ptr&): add_weak.
CopyWeak(t) ==
    \E v, w \in MyWeaks(t) :
        /\ At(t, "idle") /\ wptr[v] # Null /\ wptr[w] = Null
        /\ weak' = [weak EXCEPT ![wptr[v]] = @ + 1]
        /\ wptr' = [wptr EXCEPT ![w] = wptr[v]]
        /\ UNCHANGED <<strong, object, block, sptr, mutex, call>>

\* weak_ptr(weak_ptr&&), possibly to another thread.
MoveWeak(t) ==
    \E v \in MyWeaks(t), w \in Weaks :
        /\ At(t, "idle") /\ At(Owner[w], "idle")
        /\ wptr[v] # Null /\ wptr[w] = Null
        /\ wptr' = [wptr EXCEPT ![v] = Null, ![w] = wptr[v]]
        /\ UNCHANGED <<counts, sptr, mutex, call>>

-----------------------------------------------------------------------------
(***************************************************************************)
(* Releasing.  release_strong and release_weak are several steps: the      *)
(* decrement, and what its result decides.                                 *)
(***************************************************************************)

\* ~shared_ptr, reset: the handle enters release_strong.
DropShared(t) ==
    \E h \in Mine(t) :
        /\ At(t, "idle") /\ sptr[h] # Null
        /\ Begin(t, [Idle EXCEPT !.pc = "release", !.kind = "drop", !.h = h])
        /\ UNCHANGED <<counts, sptr, wptr, mutex>>

\* The handle whose destructor runs: the local `replacement' while the mutex
\* is held, else the handle of the call.
Released(t) == IF mutex = t THEN t ELSE call[t].h

\* ~shared_ptr of a null pointer does nothing.
ReleaseNull(t) ==
    /\ At(t, "release")
    /\ sptr[Released(t)] = Null
    /\ Begin(t, AfterRelease(t))
    /\ UNCHANGED <<counts, sptr, wptr, mutex>>

\* Mutant: the result of the decrement is compared with one.
ReleaseStrongOffByOne(t) ==
    /\ At(t, "release")
    /\ sptr[Released(t)] # Null
    /\ LET c == sptr[Released(t)] IN
       /\ strong' = [strong EXCEPT ![c] = @ - 1]
       /\ sptr' = [sptr EXCEPT ![Released(t)] = Null]
       /\ Begin(t, IF strong[c] <= 2
                   THEN [call[t] EXCEPT !.pc = "destroy", !.c = c]
                   ELSE AfterRelease(t))
    /\ UNCHANGED <<weak, object, block, wptr, mutex>>

\* release_strong: the decrement of strong_, and the test of its result.
ReleaseStrong(t) ==
    /\ At(t, "release")
    /\ sptr[Released(t)] # Null
    /\ LET c == sptr[Released(t)] IN
       /\ strong' = [strong EXCEPT ![c] = @ - 1]
       /\ sptr' = [sptr EXCEPT ![Released(t)] = Null]
       /\ Begin(t, IF strong[c] = 1
                   THEN [call[t] EXCEPT !.pc = "destroy", !.c = c]
                   ELSE AfterRelease(t))
    /\ UNCHANGED <<weak, object, block, wptr, mutex>>

\* destroy_object of pointer_control and of inplace_control: the destructor of the
\* object.  One that calls an atomic_* function has to get the mutex, which is not
\* recursive; it has released it when it ends.
DestroyObject(t) ==
    /\ At(t, "destroy")
    /\ call[t].c \in Locking => mutex = Null
    /\ object' = [object EXCEPT ![call[t].c] = "destroyed"]
    /\ Goto(t, "drop_weak")
    /\ UNCHANGED <<strong, weak, block, sptr, wptr, mutex>>

\* Mutant: the last owner deletes the block without looking at weak_.
DropWeakCountAlwaysDelete(t) ==
    /\ At(t, "drop_weak")
    /\ weak' = [weak EXCEPT ![call[t].c] = @ - 1]
    /\ Goto(t, "delete")
    /\ UNCHANGED <<strong, object, block, sptr, wptr, mutex>>

\* release_weak on behalf of the last strong reference.
DropWeakCount(t) ==
    /\ At(t, "drop_weak")
    /\ weak' = [weak EXCEPT ![call[t].c] = @ - 1]
    /\ Begin(t, IF weak[call[t].c] = 1
                THEN [call[t] EXCEPT !.pc = "delete"]
                ELSE AfterRelease(t))
    /\ UNCHANGED <<strong, object, block, sptr, wptr, mutex>>

\* ~weak_ptr, reset: release_weak on behalf of the weak_ptr.
ReleaseWeak(t) ==
    \E w \in MyWeaks(t) :
        /\ At(t, "idle") /\ wptr[w] # Null
        /\ weak' = [weak EXCEPT ![wptr[w]] = @ - 1]
        /\ wptr' = [wptr EXCEPT ![w] = Null]
        /\ Begin(t, IF weak[wptr[w]] = 1
                    THEN [Idle EXCEPT !.pc = "delete", !.kind = "drop",
                                      !.c = wptr[w]]
                    ELSE Idle)
        /\ UNCHANGED <<strong, object, block, sptr, mutex>>

\* delete this.
DeleteBlock(t) ==
    /\ At(t, "delete")
    /\ block' = [block EXCEPT ![call[t].c] = "deleted"]
    /\ Begin(t, AfterRelease(t))
    /\ UNCHANGED <<strong, weak, object, sptr, wptr, mutex>>

-----------------------------------------------------------------------------
(***************************************************************************)
(* weak_ptr::lock and shared_ptr(const weak_ptr&): try_add_strong, a load  *)
(* followed by a weak compare-exchange loop.  A load of zero gives an empty*)
(* pointer (lock) or bad_weak_ptr, and changes nothing.                    *)
(***************************************************************************)
LockLoad(t) ==
    \E w \in MyWeaks(t), h \in Mine(t) :
        /\ At(t, "idle") /\ wptr[w] # Null /\ sptr[h] = Null
        /\ strong[wptr[w]] # 0
        /\ Begin(t, [Idle EXCEPT !.pc = "cas", !.kind = "lock", !.h = h,
                                 !.c = wptr[w], !.value = strong[wptr[w]]])
        /\ UNCHANGED <<counts, sptr, wptr, mutex>>

\* Mutant: add_strong instead of the exchange, check-then-act.
LockCasNoCompare(t) ==
    /\ At(t, "cas")
    /\ strong' = [strong EXCEPT ![call[t].c] = @ + 1]
    /\ sptr' = [sptr EXCEPT ![call[t].h] = call[t].c]
    /\ Begin(t, Idle)
    /\ UNCHANGED <<weak, object, block, wptr, mutex>>

\* The exchange succeeds: strong_ still is value.
LockCas(t) ==
    /\ At(t, "cas")
    /\ strong[call[t].c] = call[t].value
    /\ strong' = [strong EXCEPT ![call[t].c] = call[t].value + 1]
    /\ sptr' = [sptr EXCEPT ![call[t].h] = call[t].c]
    /\ Begin(t, Idle)
    /\ UNCHANGED <<weak, object, block, wptr, mutex>>

\* Mutant: the retry keeps the value it loaded first.
LockRetryStale(t) ==
    /\ At(t, "cas")
    /\ Begin(t, IF strong[call[t].c] = 0 THEN Idle ELSE call[t])
    /\ UNCHANGED <<counts, sptr, wptr, mutex>>

\* The exchange fails, because strong_ changed or spuriously (it is a weak
\* exchange); it reloads value, and a zero ends the loop.
LockRetry(t) ==
    /\ At(t, "cas")
    /\ Begin(t, IF strong[call[t].c] = 0 THEN Idle
                ELSE [call[t] EXCEPT !.value = strong[call[t].c]])
    /\ UNCHANGED <<counts, sptr, wptr, mutex>>

-----------------------------------------------------------------------------
(***************************************************************************)
(* The atomic_* functions on Slot, under shared_ptr_atomic_mutex.          *)
(***************************************************************************)

\* Calls: load into an empty h; store or exchange the value of h; compare
\* exchange with `expected' e and `desired' h.
CallAtomic(t) ==
    \E kind \in {"load", "store", "exchange", "compare"}, h, e \in Mine(t) :
        /\ At(t, "idle")
        /\ kind = "load" => sptr[h] = Null
        /\ IF kind = "compare" THEN h # e ELSE h = e
        /\ Begin(t, [Idle EXCEPT !.pc = "lock", !.kind = kind, !.h = h, !.e = e])
        /\ UNCHANGED <<counts, sptr, wptr, mutex>>

\* __adinkra_shared_ptr_atomic_lock.
AtomicLock(t) ==
    /\ At(t, "lock") /\ mutex = Null
    /\ mutex' = t
    /\ Goto(t, "body")
    /\ UNCHANGED <<counts, sptr, wptr>>

\* Mutant: the pointer is copied without add_reference.
AtomicLoadNoReference(t) ==
    /\ At(t, "body") /\ call[t].kind = "load"
    /\ sptr' = [sptr EXCEPT ![call[t].h] = sptr[Slot]]
    /\ Goto(t, "unlock")
    /\ UNCHANGED <<counts, wptr, mutex>>

\* shared_ptr<Type> result(*pointer).
AtomicLoad(t) ==
    /\ At(t, "body") /\ call[t].kind = "load"
    /\ strong' = IF sptr[Slot] = Null THEN strong
                 ELSE [strong EXCEPT ![sptr[Slot]] = @ + 1]
    /\ sptr' = [sptr EXCEPT ![call[t].h] = sptr[Slot]]
    /\ Goto(t, "unlock")
    /\ UNCHANGED <<weak, object, block, wptr, mutex>>

\* Mutant: *pointer = move(desired), destroying the old value in the lock.
AtomicSwapAssign(t) ==
    /\ At(t, "body")
    /\ \/ call[t].kind \in {"store", "exchange"}
       \/ call[t].kind = "compare" /\ sptr[Slot] = sptr[call[t].e]
    /\ sptr' = [sptr EXCEPT ![Slot] = sptr[call[t].h], ![call[t].h] = Null,
                            ![t] = sptr[Slot]]
    /\ Goto(t, "release")
    /\ UNCHANGED <<counts, wptr, mutex>>

\* pointer->swap(desired): a store, an exchange, and a compare exchange that
\* finds the two pointers equivalent.
AtomicSwap(t) ==
    /\ At(t, "body")
    /\ \/ call[t].kind \in {"store", "exchange"}
       \/ call[t].kind = "compare" /\ sptr[Slot] = sptr[call[t].e]
    /\ sptr' = [sptr EXCEPT ![Slot] = sptr[call[t].h],
                            ![call[t].h] = sptr[Slot]]
    /\ Goto(t, "unlock")
    /\ UNCHANGED <<counts, wptr, mutex>>

\* Mutant: expected is overwritten and its old reference never released.
AtomicMismatchOverwrite(t) ==
    /\ At(t, "body") /\ call[t].kind = "compare"
    /\ sptr[Slot] # sptr[call[t].e]
    /\ strong' = IF sptr[Slot] = Null THEN strong
                 ELSE [strong EXCEPT ![sptr[Slot]] = @ + 1]
    /\ sptr' = [sptr EXCEPT ![call[t].e] = sptr[Slot]]
    /\ Goto(t, "release")
    /\ UNCHANGED <<weak, object, block, wptr, mutex>>

\* *expected = *pointer: the copy into `replacement' and the swap with it are
\* local to t after the one add_strong; ~replacement runs next, with the
\* mutex still held.
AtomicMismatch(t) ==
    /\ At(t, "body") /\ call[t].kind = "compare"
    /\ sptr[Slot] # sptr[call[t].e]
    /\ strong' = IF sptr[Slot] = Null THEN strong
                 ELSE [strong EXCEPT ![sptr[Slot]] = @ + 1]
    /\ sptr' = [sptr EXCEPT ![call[t].e] = sptr[Slot], ![t] = sptr[call[t].e]]
    /\ Goto(t, "release")
    /\ UNCHANGED <<weak, object, block, wptr, mutex>>

\* __adinkra_shared_ptr_atomic_unlock; the by-value `desired' of a store and
\* of a compare exchange is destroyed after it.
AtomicUnlock(t) ==
    /\ At(t, "unlock")
    /\ mutex' = Null
    /\ Begin(t, IF call[t].kind \in {"store", "compare"}
                THEN [call[t] EXCEPT !.pc = "release", !.e = Slot]
                ELSE Idle)
    /\ UNCHANGED <<counts, sptr, wptr>>

-----------------------------------------------------------------------------
Init ==
    /\ strong = [c \in Controls |-> 0]
    /\ weak = [c \in Controls |-> 0]
    /\ object = [c \in Controls |-> "none"]
    /\ block = [c \in Controls |-> "none"]
    /\ sptr = [h \in Handles |-> Null]
    /\ wptr = [w \in Weaks |-> Null]
    /\ mutex = Null
    /\ call = [t \in Threads |-> Idle]

\* Steps the client chooses to start, and steps of a call in progress.
Start(t) ==
    \/ MakeShared(t) \/ CopyShared(t) \/ MoveShared(t) \/ DropShared(t)
    \/ WeakFromShared(t) \/ CopyWeak(t) \/ MoveWeak(t) \/ ReleaseWeak(t)
    \/ LockLoad(t) \/ CallAtomic(t)

Continue(t) ==
    \/ ReleaseNull(t) \/ ReleaseStrong(t) \/ DestroyObject(t)
    \/ DropWeakCount(t) \/ DeleteBlock(t) \/ LockCas(t) \/ LockRetry(t)
    \/ AtomicLock(t) \/ AtomicLoad(t) \/ AtomicSwap(t) \/ AtomicMismatch(t)
    \/ AtomicUnlock(t)

Next == \E t \in Threads : Start(t) \/ Continue(t)

Spec == Init /\ [][Next]_vars
-----------------------------------------------------------------------------
Calls == [pc : {"idle", "release", "destroy", "drop_weak", "delete", "cas",
                "lock", "body", "unlock"},
          kind : {"none", "drop", "lock", "load", "store", "exchange",
                  "compare"},
          h : Shared \cup {Slot}, e : Shared \cup {Slot},
          c : Controls \cup {Null}, value : Nat]

TypeOK ==
    /\ strong \in [Controls -> Nat]
    /\ weak \in [Controls -> Nat]
    /\ object \in [Controls -> {"none", "live", "destroyed"}]
    /\ block \in [Controls -> {"none", "live", "deleted"}]
    /\ sptr \in [Handles -> Controls \cup {Null}]
    /\ wptr \in [Weaks -> Controls \cup {Null}]
    /\ mutex \in Threads \cup {Null}
    /\ call \in [Threads -> Calls]

\* Thread t is inside release_strong or release_weak of c, past the decrement
\* that reached zero.
Releasing(t, c) ==
    call[t].pc \in {"destroy", "drop_weak", "delete"} /\ call[t].c = c

\* The object behind a non-null shared_ptr is alive, whichever thread drops,
\* locks or exchanges other pointers to it meanwhile (release_strong and
\* try_add_strong of shared_control).
ObjectLiveWhileOwned ==
    \A h \in Handles : sptr[h] # Null => object[sptr[h]] = "live"

\* No control block is deleted while a shared_ptr or weak_ptr refers to it or
\* a thread is still executing one of its member functions: `delete this' in
\* release_weak is the last access.
BlockLiveWhileUsed ==
    /\ \A h \in Handles : sptr[h] # Null => block[sptr[h]] = "live"
    /\ \A w \in Weaks : wptr[w] # Null => block[wptr[w]] = "live"
    /\ \A t \in Threads : call[t].c # Null => block[call[t].c] = "live"

\* destroy_object and delete run once per control block: at most one thread is
\* on its way to either, and the object is still alive when it gets there.
SoleDestroyer ==
    \A t \in Threads, c \in Controls :
        Releasing(t, c) =>
            /\ At(t, "destroy") <=> object[c] = "live"
            /\ \A u \in Threads : Releasing(u, c) => u = t

\* Nothing leaks: a control block that no pointer refers to and no thread is
\* releasing has been deleted, and its object destroyed before.
NoLeak ==
    \A c \in Controls :
        /\ block[c] # "none"
        /\ \A h \in Handles : sptr[h] # c
        /\ \A w \in Weaks : wptr[w] # c
        /\ \A t \in Threads : ~Releasing(t, c)
        => block[c] = "deleted" /\ object[c] = "destroyed"

\* strong_ never leaves zero again: weak_ptr::lock cannot revive an object
\* whose last owner is gone, even if it loaded strong_ before.
NoRevival ==
    [][\A c \in Controls :
          block[c] # "none" /\ strong[c] = 0 => strong'[c] = 0]_vars

\* The destructor of a managed object runs under the process-wide mutex only
\* from the operator= of a failing compare exchange; a store or an exchange
\* drops the old value after unlocking.
DestroyUnlocked ==
    \A t \in Threads :
        At(t, "destroy") /\ mutex = t => call[t].kind = "compare"

\* Every call a thread has begun is given steps until it returns; a thread that finds
\* the mutex free again and again gets it in the end.  A weak compare exchange does
\* not fail for ever while nobody changes strong_.
Fairness ==
    \A t \in Threads :
        /\ WF_vars(Continue(t))
        /\ WF_vars(LockCas(t))
        /\ SF_vars(AtomicLock(t)) /\ SF_vars(DestroyObject(t))

FairSpec == Spec /\ Fairness

\* A failing compare exchange destroys, with the mutex held, an object whose
\* destructor waits for the mutex.
SelfLocked ==
    \E t \in Threads : At(t, "destroy") /\ mutex = t /\ call[t].c \in Locking

\* Others change the count that thread t is about to exchange.
Overtaken(t) == At(t, "cas") /\ strong'[call[t].c] # strong[call[t].c]

\* Every call returns, with two exceptions.  A destructor that the failing
\* compare exchange runs inside the lock, and that asks for the lock, stops its
\* thread and everyone who needs the mutex.  The loop of try_add_strong is lock-free
\* only: it may go on while others change strong_ all the time.
CallsReturn ==
    \A t \in Threads :
        \/ []<>At(t, "idle")
        \/ <>[]SelfLocked
        \/ []<><<Overtaken(t)>>_vars
=============================================================================
