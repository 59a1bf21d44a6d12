-------------------------------- MODULE Future --------------------------------
(***************************************************************************)
(* promise, future, shared_future and packaged_task of the Adinkra         *)
(* standard library (adinkra/include/c++/v1/future).  A shared state is    *)
(* made ready once, by a value, by an exception, or by the destructor of a *)
(* promise that was never kept; futures wait for it.                       *)
(*                                                                         *)
(* Every access to a state is one critical section of its mutex, and       *)
(* notify_all is called inside it, so an operation on a state is one step. *)
(* Each promise and each future object is used by the threads one at a     *)
(* time, as the library requires of its callers; any thread may use any.   *)
(***************************************************************************)
EXTENDS Integers, FiniteSets

CONSTANTS
    Threads,
    Promises,  \* promise objects (a packaged_task holds one)
    Futures,   \* future and shared_future objects
    States,    \* shared states, made by the constructors of promises
    None       \* a null state_

ASSUME FutureAssumption == None \notin States

VARIABLES
    made,       \* the states that exist
    promise,    \* state_ of every promise
    retrieved,  \* retrieved_ of every promise
    future,     \* state_ of every future
    content,    \* what is in a state: "nothing" while it is not ready
    pc,         \* "idle", "waiting", "woken" or "timed_out"
    call,       \* the function a thread is in: "get", "wait_for" or "none"
    on,         \* the state it waits for
    result,     \* what its last call, if it was a wait_for, ended with
    orphaned    \* history: the states a promise let go of without abandoning them

objects == <<made, promise, retrieved, future, orphaned>>
waits == <<pc, call, on, result>>
vars == <<objects, content, waits>>

Ready(s) == content[s] # "nothing"

\* notify_all on the condition of s.
Notified(s) ==
    [t \in Threads |->
        IF pc[t] = "waiting" /\ on[t] = s THEN "woken" ELSE pc[t]]

\* A call that ends, and what it ends with.
Ended(t, r) ==
    /\ pc' = [pc EXCEPT ![t] = "idle"]
    /\ call' = [call EXCEPT ![t] = "none"]
    /\ on' = [on EXCEPT ![t] = None]
    /\ result' = [result EXCEPT ![t] = r]

\* A call begins to wait for state s, or goes on waiting.
Sleeps(t, c, s) ==
    /\ pc' = [pc EXCEPT ![t] = "waiting"]
    /\ call' = [call EXCEPT ![t] = c]
    /\ on' = [on EXCEPT ![t] = s]
    /\ result' = [result EXCEPT ![t] = "nothing"]

-----------------------------------------------------------------------------
(***************************************************************************)
(* Promises.                                                               *)
(***************************************************************************)

\* The constructor: make_shared<state>.
MakePromise(p, s) ==
    /\ promise[p] = None /\ s \notin made
    /\ made' = made \cup {s}
    /\ promise' = [promise EXCEPT ![p] = s]
    /\ retrieved' = [retrieved EXCEPT ![p] = FALSE]
    /\ UNCHANGED <<future, content, orphaned, waits>>

\* get_future.  It throws no_state or future_already_retrieved, and changes
\* nothing, otherwise.
GetFuture(p, f) ==
    /\ promise[p] # None /\ ~retrieved[p]
    /\ future[f] = None
    /\ retrieved' = [retrieved EXCEPT ![p] = TRUE]
    /\ future' = [future EXCEPT ![f] = promise[p]]
    /\ UNCHANGED <<made, promise, content, orphaned, waits>>

\* Mutant: promise_already_satisfied is not noticed.
SatisfyAgain(p, c) ==
    LET s == promise[p]
    IN /\ s # None
       /\ content' = [content EXCEPT ![s] = c]
       /\ pc' = Notified(s)
       /\ UNCHANGED <<objects, call, on, result>>

\* set_value and set_exception, by a promise or by the call of a packaged_task
\* whose callable returns or throws.  On a ready state they throw
\* promise_already_satisfied, without a promise they throw no_state.
Satisfy(p, c) ==
    LET s == promise[p]
    IN /\ s # None /\ ~Ready(s)
       /\ content' = [content EXCEPT ![s] = c]
       /\ pc' = Notified(s)
       /\ UNCHANGED <<objects, call, on, result>>

\* Mutant: the destructor lets go of the state and says nothing.
DestroySilently(p) ==
    /\ promise[p] # None
    /\ promise' = [promise EXCEPT ![p] = None]
    /\ UNCHANGED <<made, retrieved, future, orphaned, content, waits>>

\* The destructor: abandon stores broken_promise in a state that is not
\* ready, then the members go away.
Destroy(p) ==
    LET s == promise[p]
    IN /\ s # None
       /\ IF Ready(s) THEN UNCHANGED <<content, pc>>
          ELSE content' = [content EXCEPT ![s] = "broken"] /\ pc' = Notified(s)
       /\ promise' = [promise EXCEPT ![p] = None]
       /\ retrieved' = [retrieved EXCEPT ![p] = FALSE]
       /\ UNCHANGED <<made, future, orphaned, call, on, result>>

\* What abandon does throws, for want of memory: its handler does nothing, and the
\* members go away all the same.
AbandonFails(p) ==
    LET s == promise[p]
    IN /\ s # None /\ ~Ready(s)
       /\ promise' = [promise EXCEPT ![p] = None]
       /\ retrieved' = [retrieved EXCEPT ![p] = FALSE]
       /\ orphaned' = orphaned \cup {s}
       /\ UNCHANGED <<made, future, content, waits>>

\* The defaulted move assignment takes the state of q and copies retrieved_.
\* The state p had is dropped, not abandoned.
MoveAssign(p, q) ==
    /\ p # q
    /\ promise' = [promise EXCEPT ![p] = promise[q], ![q] = None]
    /\ retrieved' = [retrieved EXCEPT ![p] = retrieved[q]]
    /\ orphaned' = orphaned \cup ({promise[p]} \ {None})
    /\ UNCHANGED <<made, future, content, waits>>

Swap(p, q) ==
    /\ promise' = [promise EXCEPT ![p] = promise[q], ![q] = promise[p]]
    /\ retrieved' = [retrieved EXCEPT ![p] = retrieved[q], ![q] = retrieved[p]]
    /\ UNCHANGED <<made, future, content, orphaned, waits>>

-----------------------------------------------------------------------------
(***************************************************************************)
(* Futures.                                                                *)
(***************************************************************************)

\* A copy of a shared_future.
Share(f, g) ==
    /\ future[f] # None /\ future[g] = None
    /\ future' = [future EXCEPT ![g] = future[f]]
    /\ UNCHANGED <<made, promise, retrieved, content, orphaned, waits>>

\* The destructor of a future lets go of the state, nothing more: it does not
\* wait, not even for a future made by async.
Drop(f) ==
    /\ future[f] # None
    /\ future' = [future EXCEPT ![f] = None]
    /\ UNCHANGED <<made, promise, retrieved, content, orphaned, waits>>

\* future::get moves the state out, waits for it and returns or throws what is in it.
Get(t, f) ==
    /\ pc[t] = "idle" /\ future[f] # None
    /\ future' = [future EXCEPT ![f] = None]
    /\ IF Ready(future[f]) THEN Ended(t, "nothing")
                           ELSE Sleeps(t, "get", future[f])
    /\ UNCHANGED <<made, promise, retrieved, content, orphaned>>

\* wait_for: the state stays with the future.  A duration that is not positive
\* does not sleep.
WaitFor(t, f) ==
    /\ pc[t] = "idle" /\ future[f] # None
    /\ \/ Ready(future[f]) /\ Ended(t, "ready")
       \/ ~Ready(future[f]) /\ Ended(t, "timeout")
       \/ ~Ready(future[f]) /\ Sleeps(t, "wait_for", future[f])
    /\ UNCHANGED <<objects, content>>

WakeSpuriously(t) ==
    /\ pc[t] = "waiting"
    /\ pc' = [pc EXCEPT ![t] = "woken"]
    /\ UNCHANGED <<objects, content, call, on, result>>

TimeOut(t) ==
    /\ pc[t] = "waiting" /\ call[t] = "wait_for"
    /\ pc' = [pc EXCEPT ![t] = "timed_out"]
    /\ UNCHANGED <<objects, content, call, on, result>>

\* A woken get looks at the predicate again.
ResumeGet(t) ==
    /\ pc[t] = "woken" /\ call[t] = "get"
    /\ IF Ready(on[t]) THEN Ended(t, "nothing")
                       ELSE Sleeps(t, "get", on[t])
    /\ UNCHANGED <<objects, content>>

\* Mutant: after a timeout the same duration is waited for again.
ResumeWaitForAnew(t) ==
    /\ pc[t] \in {"woken", "timed_out"} /\ call[t] = "wait_for"
    /\ IF Ready(on[t]) THEN Ended(t, "ready") ELSE Sleeps(t, "wait_for", on[t])
    /\ UNCHANGED <<objects, content>>

\* Mutant: a timeout is reported without another look at the predicate.
ResumeWaitForBlind(t) ==
    /\ pc[t] \in {"woken", "timed_out"} /\ call[t] = "wait_for"
    /\ \/ pc[t] = "woken" /\ Ready(on[t]) /\ Ended(t, "ready")
       \/ pc[t] = "timed_out" /\ Ended(t, "timeout")
       \/ pc[t] = "woken" /\ ~Ready(on[t]) /\ Sleeps(t, "wait_for", on[t])
    /\ UNCHANGED <<objects, content>>

\* So does wait_for, also after a timeout; woken too early, it goes on
\* sleeping if there is time left.
ResumeWaitFor(t) ==
    /\ pc[t] \in {"woken", "timed_out"} /\ call[t] = "wait_for"
    /\ \/ Ready(on[t]) /\ Ended(t, "ready")
       \/ ~Ready(on[t]) /\ Ended(t, "timeout")
       \/ pc[t] = "woken" /\ ~Ready(on[t]) /\ Sleeps(t, "wait_for", on[t])
    /\ UNCHANGED <<objects, content>>

-----------------------------------------------------------------------------
Init ==
    /\ made = {} /\ orphaned = {}
    /\ promise = [p \in Promises |-> None]
    /\ retrieved = [p \in Promises |-> FALSE]
    /\ future = [f \in Futures |-> None]
    /\ content = [s \in States |-> "nothing"]
    /\ pc = [t \in Threads |-> "idle"]
    /\ call = [t \in Threads |-> "none"]
    /\ on = [t \in Threads |-> None]
    /\ result = [t \in Threads |-> "nothing"]

UsePromise ==
    \/ \E p \in Promises : \/ \E s \in States : MakePromise(p, s)
                           \/ \E f \in Futures : GetFuture(p, f)
                           \/ \E c \in {"value", "exception"} : Satisfy(p, c)
                           \/ Destroy(p) \/ AbandonFails(p)
    \/ \E p, q \in Promises : MoveAssign(p, q) \/ Swap(p, q)

UseFuture ==
    \/ \E f, g \in Futures : Share(f, g)
    \/ \E f \in Futures : Drop(f)
    \/ \E t \in Threads, f \in Futures : Get(t, f) \/ WaitFor(t, f)

Resume(t) == ResumeGet(t) \/ ResumeWaitFor(t)

Next ==
    \/ UsePromise \/ UseFuture
    \/ \E t \in Threads : WakeSpuriously(t) \/ TimeOut(t) \/ Resume(t)

Spec == Init /\ [][Next]_vars

\* A thread that was woken gets the mutex of the state again and goes on.  A
\* duration ends: wait_for sleeps only for what is left of it.
FairSpec ==
    /\ Spec
    /\ \A t \in Threads : WF_vars(Resume(t)) /\ SF_vars(TimeOut(t))

-----------------------------------------------------------------------------
\* A thread sleeps only for a state that is not ready and that somebody will
\* make ready: a promise still has it, and satisfies or abandons it in the
\* end.  The exceptions are a state whose promise was assigned to, and one whose
\* promise could not store the broken_promise: their waiters are stranded.
SomebodyWillSatisfy ==
    \A t \in Threads :
        pc[t] = "waiting" =>
            /\ ~Ready(on[t])
            /\ on[t] \in orphaned \/ \E p \in Promises : promise[p] = on[t]

\* What a state holds when it becomes ready is what every get sees: nothing
\* replaces a value, an exception or a broken promise.
SatisfiedOnce ==
    [][\A s \in States : Ready(s) => content'[s] = content[s]]_vars

\* A get or a wait_for on a state that is or becomes ready returns, and not with a
\* timeout, also when the time ends before the thread has seen the value.
GetReturns ==
    \A t \in Threads :
        pc[t] # "idle" /\ Ready(on[t]) ~> pc[t] = "idle" /\ result[t] # "timeout"

\* A wait_for returns however often it is woken, also when nobody will ever satisfy
\* its state.
TimedWaitEnds ==
    \A t \in Threads : call[t] = "wait_for" ~> call[t] = "none"
=============================================================================
