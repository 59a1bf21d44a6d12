------------------------------ MODULE MCRegAlloc ------------------------------
(* The register allocators of the native backend, one of which backend.cpp *)
(* chooses for a module: linear scan or, at -O0 and for targets that       *)
(* demand it, the fast one.  Both compile functions over three virtual     *)
(* registers for a machine with too few registers.                         *)
EXTENDS LinearScan, FastRegAlloc, TLC
CONSTANTS c0, s0, t0, u0, c1, d1, s1, t1, u1

MCVregs == 0 .. 2

I(ops, def, reads, call, phys) ==
    [ops |-> ops, def |-> def, reads |-> reads, call |-> call,
     term |-> FALSE, phys |-> phys]

Term == [I(<<>>, FALSE, FALSE, FALSE, {}) EXCEPT !.term = TRUE]

Loads == {I(<<v>>, TRUE, FALSE, FALSE, {}) : v \in MCVregs}

-------------------------------------------------------------------------------
(* Linear scan: one caller-saved and one callee-saved register of each     *)
(* bank, all functions of three blocks built from a few instructions.      *)

MCCaller == [gpr |-> <<c0>>, fpr |-> <<c1>>]
MCCallee == [gpr |-> <<s0>>, fpr |-> <<s1>>]
MCScratch == [gpr |-> <<t0, u0>>, fpr |-> <<t1, u1>>]

MCInsts ==
    Loads
    \cup {I(<<0, 1>>, TRUE, TRUE, FALSE, {}), I(<<1, 0>>, TRUE, FALSE, FALSE, {}),
          I(<<1, 2>>, FALSE, FALSE, FALSE, {}), I(<<2, 2>>, TRUE, FALSE, FALSE, {}),
          I(<<0>>, FALSE, FALSE, FALSE, {}), I(<<>>, FALSE, FALSE, TRUE, {})}

\* A loop on the second block, and a loop over all three.
MCSuccs == {<<{2}, {2, 3}, {}>>, <<{2, 3}, {3}, {1}>>}

MCClasses == {<<"gpr", "gpr", "gpr">>, <<"gpr", "fpr128", "fpr">>}

MCPrograms ==
    {[blocks |-> <<<<i, j, Term>>, <<k, Term>>, <<l, Term>>>>, succs |-> s,
      cls |-> [v \in MCVregs |-> c[v + 1]]] :
        i \in MCInsts, j \in MCInsts, k \in MCInsts, l \in MCInsts,
        s \in MCSuccs, c \in MCClasses}

-------------------------------------------------------------------------------
(* The fast allocator: two general purpose registers and three vector      *)
(* registers, functions of two blocks that loop.                           *)

MCOrder == [gpr |-> <<c0, s0>>, fpr |-> <<c1, d1, s1>>]

FastInsts ==
    Loads
    \cup {I(<<0, 1>>, TRUE, TRUE, FALSE, {}), I(<<1, 0>>, TRUE, FALSE, FALSE, {}),
          I(<<1, 2>>, FALSE, FALSE, FALSE, {}), I(<<2, 0, 2>>, TRUE, FALSE, FALSE, {}),
          I(<<0>>, FALSE, FALSE, FALSE, {c0}), I(<<1>>, FALSE, FALSE, TRUE, {})}

FastClasses == {<<"gpr", "gpr", "gpr">>, <<"gpr", "fpr128", "fpr128">>}

\* The second block reads what it defines while the first one's values are
\* still in their slots.
MCFastPrograms ==
    {[blocks |-> <<<<h, i, j, k, l, Term>>,
                   <<I(<<0>>, TRUE, FALSE, FALSE, {}),
                     I(<<0>>, FALSE, FALSE, FALSE, {}), Term>>>>,
      succs |-> <<{2}, {1}>>, cls |-> [v \in MCVregs |-> c[v + 1]]] :
        h \in Loads, i \in FastInsts, j \in FastInsts, k \in FastInsts,
        l \in FastInsts, c \in FastClasses}

-------------------------------------------------------------------------------
\* The choice of the allocator.
MCInit ==
    \/ /\ Init
       /\ index = 1 /\ stage = "operands" /\ operand = 1 /\ where = <<>>
       /\ pinned = {} /\ regs = <<>> /\ out = <<>>
    \/ /\ FastInit
       /\ phase = "fast"
       /\ liveIn = <<>> /\ liveOut = <<>> /\ changed = FALSE
       /\ iv = [v \in Vregs |-> NoInterval]
       /\ todo = {} /\ active = {} /\ held = {}
       /\ assigned = [v \in Vregs |-> NoReg]

MCNext ==
    \/ /\ phase # "fast" /\ Next
       /\ UNCHANGED <<index, stage, operand, where, pinned, regs, out>>
    \/ /\ phase = "fast" /\ FastNext
       /\ UNCHANGED <<phase, liveIn, liveOut, changed, iv, todo, active, held,
                      assigned>>

MCSpec == MCInit /\ [][MCNext]_<<vars, fastVars>>
===============================================================================
