------------------------------ MODULE EdgeStores ------------------------------
(***************************************************************************)
(* How the fast tier passes the arguments of an edge (emit_edge_stores of  *)
(* backend/or1k/isel.cpp and backend/x86/isel.cpp, the opt_ = false side   *)
(* of edge_target): every value that lives across blocks has a stack slot, *)
(* an argument is loaded from its slot unless block_values_ knows a        *)
(* register for it, and is stored to the slot of the parameter, one        *)
(* argument after the other.  A conditional branch of or1k stores the      *)
(* arguments of its first edge before it branches.                         *)
(***************************************************************************)
EXTENDS Integers, Sequences

CONSTANTS
    Vals,    \* the values that have slots
    Terms,   \* terminators: style, and for both edges params, args and live
    NoVreg   \* not in block_values_

\* style is "jump" (one edge, stored in the block itself), "edge_blocks" (a
\* conditional branch of x86 and aarch64: a block of its own for each edge)
\* or "or1k".  An edge has as many args as params.  live: the values its target
\* may read.
Styles == {"jump", "edge_blocks", "or1k"}

VARIABLES
    term,    \* the terminator being executed
    taken,   \* the edge its condition takes
    edge,    \* the edge whose stores are executed; 3 on arrival
    n,       \* the loop counter of emit_edge_stores
    reg,     \* block_values_, with the contents of the registers
    slot     \* the contents of the slots; slot v starts with content v

vars == <<term, taken, edge, n, reg, slot>>

Param == term.params[edge][n]
Arg == term.args[edge][n]

\* use_reg: the register known for the value, or a load from its slot.
UseReg(v) == IF reg[v] # NoVreg THEN reg[v] ELSE slot[v]

\* One argument is stored; its register stays in block_values_.
StoreArg ==
    /\ edge # 3 /\ n <= Len(term.args[edge])
    /\ reg' = [reg EXCEPT ![Arg] = UseReg(Arg)]
    /\ slot' = [slot EXCEPT ![Param] = UseReg(Arg)]
    /\ n' = n + 1
    /\ UNCHANGED <<term, taken, edge>>

\* The branch.  On or1k it follows the stores of the first edge, and the
\* second edge has its stores behind it.
Leave ==
    /\ edge # 3 /\ n > Len(term.args[edge])
    /\ edge' = IF edge = taken THEN 3 ELSE 2
    /\ n' = 1
    /\ UNCHANGED <<term, taken, reg, slot>>

\* block_values_ knows the values used or defined earlier in the block; in an
\* edge block it is empty.
Init ==
    /\ term \in Terms
    /\ taken \in IF term.style = "jump" THEN {1} ELSE {1, 2}
    /\ edge = IF term.style = "edge_blocks" THEN taken ELSE 1
    /\ n = 1
    /\ \E known \in SUBSET Vals :
          /\ term.style = "edge_blocks" => known = {}
          /\ reg = [v \in Vals |-> IF v \in known THEN v ELSE NoVreg]
    /\ slot = [v \in Vals |-> v]

Next == StoreArg \/ Leave

Spec == Init /\ [][Next]_vars
-----------------------------------------------------------------------------
\* At the target every parameter has the value its argument had before the
\* edge, and every other value the target may read is untouched, whichever
\* edge was taken: the parameters are assigned as PHIs are.
ArrivesAsPhi ==
    edge = 3 =>
        LET params == term.params[taken]
        IN /\ \A i \in DOMAIN params : slot[params[i]] = term.args[taken][i]
           /\ \A v \in term.live[taken] :
                 (\A i \in DOMAIN params : params[i] # v) => slot[v] = v
=============================================================================
