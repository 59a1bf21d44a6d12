---------------------------- MODULE ParallelCopy ----------------------------
(***************************************************************************)
(* ISel::emit_parallel_copies (backend/x86/isel.cpp and, line for line,    *)
(* backend/aarch64/isel.cpp): the copies that pass the arguments of an     *)
(* edge to the parameters of its target block, put in an order in which    *)
(* no register is overwritten while a later copy still has to read it, and *)
(* with a temporary for every cycle.                                       *)
(*                                                                         *)
(* Emitting a copy and executing it later come to the same, so env is      *)
(* what the registers hold after the copies emitted so far.                *)
(***************************************************************************)
EXTENDS Integers

CONSTANTS
    ValueRegs,   \* virtual registers of arguments and parameters
    Temps,   \* what new_vreg returns
    Values,  \* their contents
    Size     \* number of arguments of the edge

ASSUME ParallelCopyAssumption ==
    /\ Size \in Nat
    /\ ValueRegs \cap Temps = {}

VARIABLES
    dest,   \* canonical_vreg of every parameter
    arg,    \* the register of every argument, after use_reg
    pos,    \* positions of the copies in pending; they keep their order
    src,    \* Copy::src
    temps,  \* registers made so far
    env,    \* what every register holds now
    old     \* what it held at the start of the edge

copyVars == <<dest, arg, pos, src, temps, env, old>>

Edges == 1 .. Size

\* Mutant: the search for a pending source starts behind the copy itself.
FreeLooksAhead(i) == \A j \in pos : j > i => src[j] # dest[i]

\* No pending copy reads the destination of copy i.
Free(i) == \A j \in pos : src[j] # dest[i]

\* The first of a set of pending copies.
IsFirst(i, S) == i \in S /\ \A j \in S : i <= j

\* A copy whose destination nobody has to read any more is emitted.
EmitCopy ==
    /\ \E i \in pos :
          /\ IsFirst(i, {j \in pos : Free(j)})
          /\ env' = [env EXCEPT ![dest[i]] = env[src[i]]]
          /\ pos' = pos \ {i}
    /\ UNCHANGED <<dest, arg, src, temps, old>>

\* Mutant: the copies keep reading the destination that was saved.
BreakCycleNoRedirect ==
    /\ pos # {} /\ \A i \in pos : ~Free(i)
    /\ \E i \in pos, t \in Temps \ temps :
          /\ IsFirst(i, pos)
          /\ env' = [env EXCEPT ![t] = env[dest[i]]]
          /\ temps' = temps \cup {t}
    /\ UNCHANGED <<dest, arg, pos, src, old>>

\* Only cycles are left: the destination of the first copy is saved in a new
\* register, from which the copies that read it are made to read instead.
BreakCycle ==
    /\ pos # {} /\ \A i \in pos : ~Free(i)
    /\ \E i \in pos, t \in Temps \ temps :
          /\ IsFirst(i, pos)
          /\ env' = [env EXCEPT ![t] = env[dest[i]]]
          /\ src' = [j \in Edges |->
                        IF j \in pos /\ src[j] = dest[i] THEN t ELSE src[j]]
          /\ temps' = temps \cup {t}
    /\ UNCHANGED <<dest, arg, pos, old>>

\* Parameters are different values and so have different registers; a copy
\* to itself is not pending.
CopyInit ==
    /\ dest \in [Edges -> ValueRegs]
    /\ \A i, j \in Edges : dest[i] = dest[j] => i = j
    /\ arg \in [Edges -> ValueRegs]
    /\ pos = {i \in Edges : dest[i] # arg[i]}
    /\ src = arg
    /\ temps = {}
    /\ old \in [ValueRegs \cup Temps -> Values]
    /\ env = old

CopyNext == EmitCopy \/ BreakCycle

CopySpec == CopyInit /\ [][CopyNext]_copyVars /\ WF_copyVars(CopyNext)
-----------------------------------------------------------------------------
CopyTypeOK ==
    /\ dest \in [Edges -> ValueRegs]
    /\ arg \in [Edges -> ValueRegs]
    /\ pos \subseteq Edges
    /\ src \in [Edges -> ValueRegs \cup Temps]
    /\ temps \subseteq Temps
    /\ env \in [ValueRegs \cup Temps -> Values]
    /\ old \in [ValueRegs \cup Temps -> Values]

\* When pending is empty every parameter has the value its argument had
\* before the first copy, as if all were copied at once, and no register that
\* is not a parameter has changed.
Simultaneous ==
    pos = {} =>
        /\ \A i \in Edges : env[dest[i]] = old[arg[i]]
        /\ \A v \in ValueRegs : (\A i \in Edges : dest[i] # v) => env[v] = old[v]

\* The loop in emit_parallel_copies ends for every edge: after a temporary
\* some copy can be emitted.
Ends == <>(pos = {})
=============================================================================
