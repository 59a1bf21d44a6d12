---------------------------- MODULE FutureProofs ----------------------------
(***************************************************************************)
(* Proofs about promise and future: nobody sleeps for a state that nobody  *)
(* will satisfy, and a state is satisfied once, for any number of threads, *)
(* promises, futures and states.                                           *)
(***************************************************************************)
EXTENDS Future, TLAPS

Contents == {"nothing", "value", "exception", "broken"}

TypeOK ==
    /\ made \subseteq States /\ orphaned \subseteq States
    /\ promise \in [Promises -> States \cup {None}]
    /\ retrieved \in [Promises -> BOOLEAN]
    /\ future \in [Futures -> States \cup {None}]
    /\ content \in [States -> Contents]
    /\ pc \in [Threads -> {"idle", "waiting", "woken", "timed_out"}]
    /\ call \in [Threads -> {"none", "get", "wait_for"}]
    /\ on \in [Threads -> States \cup {None}]
    /\ result \in [Threads -> {"nothing", "ready", "timeout"}]

\* Pointers refer to states that were made.
Refer ==
    /\ \A p \in Promises : promise[p] # None => promise[p] \in made
    /\ \A f \in Futures : future[f] # None => future[f] \in made
    /\ \A t \in Threads : pc[t] # "idle" => on[t] \in made

\* Every state is ready, or some promise has it or let go of it.
Kept ==
    \A s \in made : Ready(s) \/ s \in orphaned \/ \E p \in Promises : promise[p] = s

\* Who sleeps was not overlooked by the notification.
Asleep == \A t \in Threads : pc[t] = "waiting" => ~Ready(on[t])

\* The inductive invariant.
IInv == TypeOK /\ Refer /\ Kept /\ Asleep

-----------------------------------------------------------------------------
\* The initial states satisfy the invariant.
LEMMA InitIInv == Init => IInv
  BY FutureAssumption
     DEF Init, IInv, TypeOK, Refer, Kept, Asleep, Contents, Ready

\* Every operation keeps the types.
LEMMA StepTypeOK == TypeOK /\ [Next]_vars => TypeOK'
<1> SUFFICES ASSUME TypeOK, [Next]_vars PROVE TypeOK'
  OBVIOUS
<1> USE DEF TypeOK, Contents, objects, waits
<1>1. ASSUME NEW p \in Promises, NEW s \in States, MakePromise(p, s) PROVE TypeOK'
  BY <1>1 DEF MakePromise
<1>2. ASSUME NEW p \in Promises, NEW f \in Futures, GetFuture(p, f) PROVE TypeOK'
  BY <1>2 DEF GetFuture
<1>3. ASSUME NEW p \in Promises, NEW c \in {"value", "exception"}, Satisfy(p, c)
      PROVE TypeOK'
  BY <1>3 DEF Satisfy, Notified
<1>4. ASSUME NEW p \in Promises, Destroy(p) \/ AbandonFails(p) PROVE TypeOK'
  <2>1. CASE Destroy(p)
    BY <2>1 DEF Destroy, Notified
  <2>2. CASE AbandonFails(p)
    BY <2>2 DEF AbandonFails
  <2> QED BY <1>4, <2>1, <2>2
<1>5. ASSUME NEW p \in Promises, NEW q \in Promises, MoveAssign(p, q) PROVE TypeOK'
  BY <1>5 DEF MoveAssign
<1>6. ASSUME NEW p \in Promises, NEW q \in Promises, Swap(p, q) PROVE TypeOK'
  BY <1>6 DEF Swap
<1>7. ASSUME NEW f \in Futures, NEW g \in Futures, Share(f, g) PROVE TypeOK'
  BY <1>7 DEF Share
<1>8. ASSUME NEW f \in Futures, Drop(f) PROVE TypeOK'
  BY <1>8 DEF Drop
<1>9. ASSUME NEW t \in Threads, NEW f \in Futures, Get(t, f) PROVE TypeOK'
  BY <1>9 DEF Get, Ended, Sleeps
<1>10. ASSUME NEW t \in Threads, NEW f \in Futures, WaitFor(t, f) PROVE TypeOK'
  BY <1>10 DEF WaitFor, Ended, Sleeps
<1>11. ASSUME NEW t \in Threads, WakeSpuriously(t) \/ TimeOut(t) PROVE TypeOK'
  BY <1>11 DEF WakeSpuriously, TimeOut
<1>12. ASSUME NEW t \in Threads, Resume(t) PROVE TypeOK'
  BY <1>12 DEF Resume, ResumeGet, ResumeWaitFor, Ended, Sleeps
<1>13. CASE UNCHANGED vars
  BY <1>13 DEF vars
<1> QED
  BY <1>1, <1>2, <1>3, <1>4, <1>5, <1>6, <1>7, <1>8, <1>9, <1>10, <1>11, <1>12, <1>13
     DEF Next, UsePromise, UseFuture

\* Every operation keeps the invariant.
LEMMA StepIInv == IInv /\ [Next]_vars => IInv'
<1> SUFFICES ASSUME IInv, [Next]_vars PROVE Refer' /\ Kept' /\ Asleep'
  BY StepTypeOK DEF IInv
<1> USE FutureAssumption DEF IInv, TypeOK, Refer, Kept, Asleep, Ready, objects, waits
<1> DEFINE Goal == Refer' /\ Kept' /\ Asleep'
<1>1. ASSUME NEW p \in Promises, NEW s \in States, MakePromise(p, s) PROVE Goal
  BY <1>1 DEF MakePromise
<1>2. ASSUME NEW p \in Promises, NEW f \in Futures, GetFuture(p, f) PROVE Goal
  BY <1>2 DEF GetFuture
<1>3. ASSUME NEW p \in Promises, NEW c \in {"value", "exception"}, Satisfy(p, c)
      PROVE Goal
  BY <1>3 DEF Satisfy, Notified
<1>4. ASSUME NEW p \in Promises, Destroy(p) \/ AbandonFails(p) PROVE Goal
  BY <1>4 DEF Destroy, AbandonFails, Notified
<1>5. ASSUME NEW p \in Promises, NEW q \in Promises, MoveAssign(p, q) PROVE Goal
  BY <1>5 DEF MoveAssign
<1>6. ASSUME NEW p \in Promises, NEW q \in Promises, Swap(p, q) PROVE Goal
  BY <1>6 DEF Swap
<1>7. ASSUME NEW f \in Futures, NEW g \in Futures, Share(f, g) PROVE Goal
  BY <1>7 DEF Share
<1>8. ASSUME NEW f \in Futures, Drop(f) PROVE Goal
  BY <1>8 DEF Drop
<1>9. ASSUME NEW t \in Threads, NEW f \in Futures, Get(t, f) PROVE Goal
  BY <1>9 DEF Get, Ended, Sleeps
<1>10. ASSUME NEW t \in Threads, NEW f \in Futures, WaitFor(t, f) PROVE Goal
  BY <1>10 DEF WaitFor, Ended, Sleeps
<1>11. ASSUME NEW t \in Threads, WakeSpuriously(t) \/ TimeOut(t) PROVE Goal
  BY <1>11 DEF WakeSpuriously, TimeOut
<1>12. ASSUME NEW t \in Threads, Resume(t) PROVE Goal
  BY <1>12 DEF Resume, ResumeGet, ResumeWaitFor, Ended, Sleeps
<1>13. CASE UNCHANGED vars
  BY <1>13 DEF vars
<1> QED
  BY <1>1, <1>2, <1>3, <1>4, <1>5, <1>6, <1>7, <1>8, <1>9, <1>10, <1>11, <1>12, <1>13
     DEF Next, UsePromise, UseFuture

\* The invariant holds throughout.
LEMMA Invariance == Spec => []IInv
  BY InitIInv, StepIInv, PTL DEF Spec

-----------------------------------------------------------------------------
\* A thread sleeps only for a state that is not ready and that a promise will
\* satisfy or abandon; only the move assignment of a promise, and a destructor that
\* cannot store the broken_promise, lose a state.
THEOREM NobodyForgotten == Spec => []SomebodyWillSatisfy
<1>1. IInv => SomebodyWillSatisfy
  BY DEF IInv, TypeOK, Refer, Kept, Asleep, SomebodyWillSatisfy
<1> QED
  BY <1>1, Invariance, PTL

\* What made a state ready stays in it: set_value, set_exception and abandon
\* look before they write.
THEOREM ContentStays == Spec => SatisfiedOnce
<1>1. IInv /\ [Next]_vars => [\A s \in States : Ready(s) => content'[s] = content[s]]_vars
  <2> SUFFICES ASSUME IInv, [Next]_vars, NEW s \in States, Ready(s)
               PROVE content'[s] = content[s]
    OBVIOUS
  <2> USE DEF IInv, TypeOK, Ready
  <2>1. CASE UNCHANGED content
    BY <2>1
  <2>2. ASSUME NEW p \in Promises, NEW c \in {"value", "exception"}, Satisfy(p, c)
        PROVE content'[s] = content[s]
    BY <2>2 DEF Satisfy
  <2>3. ASSUME NEW p \in Promises, Destroy(p) PROVE content'[s] = content[s]
    BY <2>3 DEF Destroy
  <2> QED
    BY <2>1, <2>2, <2>3
       DEF Next, UsePromise, UseFuture, vars, MakePromise, GetFuture, AbandonFails,
           MoveAssign, Swap, Share, Drop, Get, WaitFor, WakeSpuriously, TimeOut, Resume, ResumeGet,
           ResumeWaitFor
<1> QED
  BY <1>1, Invariance, PTL DEF Spec, SatisfiedOnce
=============================================================================
