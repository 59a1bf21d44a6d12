------------------------------- MODULE OnceFlag -------------------------------
(***************************************************************************)
(* call_once of the Adinkra standard library                               *)
(* (adinkra/include/c++/v1/__adinkra/once_flag): a flag of one byte, taken *)
(* by compare-and-exchange, given back when the callable throws; the other *)
(* callers spin.                                                           *)
(***************************************************************************)
EXTENDS Naturals

CONSTANTS
    Threads,
    MaxCalls   \* bound: how often a thread calls call_once

VARIABLES
    state,    \* state_ of the flag
    pc,       \* where each thread is in call_once
    calls,    \* how often each thread has called
    effects   \* how many times the callable has returned

vars == <<state, pc, calls, effects>>

Goto(t, l) == pc' = [pc EXCEPT ![t] = l]

Call(t) ==
    /\ pc[t] \in {"idle", "returned", "threw"} /\ calls[t] < MaxCalls
    /\ calls' = [calls EXCEPT ![t] = @ + 1]
    /\ Goto(t, "load")
    /\ UNCHANGED <<state, effects>>

\* Mutant: a caller that finds the callable running does not wait for it.
LoadDoesNotWait(t) ==
    /\ pc[t] = "load"
    /\ Goto(t, IF state # "not_started" THEN "returned" ELSE "exchange")
    /\ UNCHANGED <<state, calls, effects>>

\* Return if the callable has returned already.
Load(t) ==
    /\ pc[t] = "load"
    /\ Goto(t, IF state = "complete" THEN "returned" ELSE "exchange")
    /\ UNCHANGED <<state, calls, effects>>

\* Mutant: the flag is read and then written instead of exchanged.
ExchangeUnlessComplete(t) ==
    /\ pc[t] = "exchange"
    /\ IF state # "complete"
       THEN state' = "running" /\ Goto(t, "run")
       ELSE Goto(t, "load") /\ UNCHANGED state
    /\ UNCHANGED <<calls, effects>>

\* Take the flag, or yield and start again.
Exchange(t) ==
    /\ pc[t] = "exchange"
    /\ IF state = "not_started"
       THEN state' = "running" /\ Goto(t, "run")
       ELSE Goto(t, "load") /\ UNCHANGED state
    /\ UNCHANGED <<calls, effects>>

RunReturns(t) ==
    /\ pc[t] = "run"
    /\ effects' = effects + 1
    /\ Goto(t, "finish")
    /\ UNCHANGED <<state, calls>>

\* Mutant: the flag is not given back when the callable throws.
RunThrowsKeepsFlag(t) ==
    /\ pc[t] = "run"
    /\ Goto(t, "threw")
    /\ UNCHANGED <<state, calls, effects>>

\* The handler stores not_started and rethrows.
RunThrows(t) ==
    /\ pc[t] = "run"
    /\ state' = "not_started"
    /\ Goto(t, "threw")
    /\ UNCHANGED <<calls, effects>>

Finish(t) ==
    /\ pc[t] = "finish"
    /\ state' = "complete"
    /\ Goto(t, "returned")
    /\ UNCHANGED <<calls, effects>>

-----------------------------------------------------------------------------
Init ==
    /\ state = "not_started"
    /\ pc = [t \in Threads |-> "idle"]
    /\ calls = [t \in Threads |-> 0]
    /\ effects = 0

Continue(t) ==
    Load(t) \/ Exchange(t) \/ RunReturns(t) \/ RunThrows(t) \/ Finish(t)

Next == \E t \in Threads : Call(t) \/ Continue(t)

Spec == Init /\ [][Next]_vars

\* A thread inside call_once is scheduled, and its callable ends.
FairSpec == Spec /\ \A t \in Threads : WF_vars(Continue(t))

-----------------------------------------------------------------------------
\* The threads in the callable, or between its end and the store after it.
Inside(t) == pc[t] \in {"run", "finish"}

\* The callable runs in one thread at a time, only while the flag says so,
\* and never again after it has returned once.
RunsAlone ==
    /\ \A t, u \in Threads : Inside(t) /\ Inside(u) => t = u
    /\ \A t \in Threads : pc[t] = "run" => effects = 0

\* A call that returns normally returns after the callable has, once: no
\* caller gets ahead of the thread that runs it.
EffectBeforeReturn ==
    \A t \in Threads : pc[t] = "returned" => effects = 1

\* Every call ends, whoever throws.
CallsEnd ==
    \A t \in Threads :
        pc[t] # "idle" ~> pc[t] \in {"returned", "threw"}

=============================================================================
