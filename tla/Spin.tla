-------------------------------- MODULE Spin --------------------------------
(***************************************************************************)
(* The two protocols of the library in which a thread that is refused goes *)
(* back and tries again: the locking of several mutexes (Locks), and       *)
(* call_once (OnceFlag).  They share no state; a behaviour is one of       *)
(* either, and the other half stands still.                                *)
(***************************************************************************)
EXTENDS Locks

CONSTANT MaxCalls

VARIABLES
    part,                       \* which of the two is looked at
    state, pc, calls, effects   \* the variables of OnceFlag

O == INSTANCE OnceFlag

onceVars == <<state, pc, calls, effects>>

allVars == <<part, lockVars, onceVars>>

SpinInit == part \in {"once", "locks"} /\ LockInit /\ O!Init

SpinNext ==
    /\ part' = part
    /\ \/ part = "once" /\ O!Next /\ UNCHANGED lockVars
       \/ part = "locks" /\ LockNext /\ UNCHANGED onceVars

SafeSpec == SpinInit /\ [][SpinNext]_allVars

\* A thread inside a call is scheduled.
SpinSpec ==
    /\ SafeSpec
    /\ \A t \in Threads : WF_onceVars(O!Continue(t)) /\ WF_lockVars(Advance(t))

\* The callable of call_once runs in one thread at a time, and never again after it
\* has returned.
RunsAlone == O!RunsAlone

\* No caller of call_once gets ahead of the thread that runs the callable.
EffectBeforeReturn == O!EffectBeforeReturn

\* Every call of call_once ends, whoever throws.
CallsEnd == O!CallsEnd
=============================================================================
