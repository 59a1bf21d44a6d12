------------------------------- MODULE Mem2Reg -------------------------------
(***************************************************************************)
(* SlotPromoter::run (air/passes_opt.cpp), the promotion of one stack slot *)
(* by run_mem2reg: loads are replaced by the value that reaches them,      *)
(* found by a memoised walk over the predecessors that makes a block       *)
(* parameter wherever edges join; then loads and stores are removed and    *)
(* parameters that join one value only are pruned.                         *)
(*                                                                         *)
(* The promoted function is then executed in step with the original.       *)
(*                                                                         *)
(* Only what concerns the slot is kept of a function: blocks of loads from *)
(* it, stores to it, and uses of values.  A value is a triple: a constant, *)
(* the result of a load (block and index), the parameter of a block.       *)
(***************************************************************************)
EXTENDS Integers, Sequences

CONSTANT MaxStack  \* bound on the depth of value_in

Const(c) == <<"const", c, 0>>
LoadAt(b, k) == <<"load", b, k>>
ParamOf(b) == <<"param", b, 0>>
Undef == <<"undef", 0, 0>>
Invalid == <<"invalid", 0, 0>>   \* ValueId{}

VARIABLES
    prog,      \* the function: blocks (block 1 is the entry), edges, pairs of
               \* blocks, and indirect (has_indirect_flow)
    phase,     \* "collect", "rename", "prune" or "run"
    localOut,  \* BlockAccess::local_out
    localIn,   \* the second half of every entry of BlockAccess::loads
    pending,   \* the blocks of accesses_ still to be visited
    cur,       \* block and index of the load being replaced
    stack,     \* the calls of value_in under way: block and next edge
    ret,       \* block to call value_in for, or the value a call returned
    in,        \* in_
    inserted,  \* inserted_params_
    arg,       \* the argument every edge passes for the slot
    uses,      \* the operand of every use
    scan, changed,
    at, mem, loaded, held  \* the execution, see below

Blocks == 1 .. Len(prog.blocks)
Preds(b) == SelectSeq([e \in DOMAIN prog.edges |-> e],
                      LAMBDA e : prog.edges[e][2] = b)
From(e) == prog.edges[e][1]

\* Positions of the function that are of kind op.
At(op) ==
    UNION {{<<b, k>> : k \in {k \in DOMAIN prog.blocks[b] : prog.blocks[b][k].op = op}}
           : b \in Blocks}

promotion == <<localOut, localIn, pending, cur, stack, ret, in, inserted>>
execution == <<at, mem, loaded, held>>
vars == <<prog, phase, promotion, arg, uses, scan, changed, execution>>

-----------------------------------------------------------------------------
\* collect_block_accesses: running is the value of the last store before k.
Running(b, k) ==
    LET stores == {j \in 1 .. k - 1 : prog.blocks[b][j].op = "store"}
    IN IF stores = {} THEN Invalid
       ELSE prog.blocks[b][CHOOSE j \in stores : \A i \in stores : i <= j].val

\* Mutant: any access to the slot will do.
PromotableAnyway == ~prog.indirect

\* run_mem2reg promotes a slot of which there are only loads and stores of one
\* scalar type of the slot's size, none volatile, and at least one; anything
\* else that is done with its address is an "other".
Promotable ==
    /\ ~prog.indirect
    /\ At("other") = {}
    /\ At("load") \cup At("store") # {}

\* Nothing is known yet, no edge passes anything for the slot.
Fresh ==
    /\ in' = [b \in Blocks |-> Invalid]
    /\ arg' = [e \in DOMAIN prog.edges |-> Invalid]
    /\ uses' = [u \in At("use") |-> prog.blocks[u[1]][u[2]].val]
    /\ loaded' = [l \in At("load") |-> Undef]
    /\ held' = [b \in Blocks |-> Undef]

KeepSlot ==
    /\ phase = "collect" /\ ~Promotable
    /\ phase' = "run"
    /\ Fresh
    /\ UNCHANGED <<prog, localOut, localIn, pending, cur, stack, ret, inserted, scan,
                   changed, at, mem>>

Collect ==
    /\ phase = "collect" /\ Promotable
    /\ phase' = "rename"
    /\ localOut' = [b \in Blocks |-> Running(b, Len(prog.blocks[b]) + 1)]
    /\ localIn' = [l \in At("load") |-> Running(l[1], l[2])]
    /\ pending' = {l[1] : l \in At("load")}
    /\ Fresh
    /\ UNCHANGED <<prog, cur, stack, ret, inserted, scan, changed, at, mem>>

\* Function::replace_all_uses: operands of instructions and edges, and
\* nothing else.
Subst(f, v, w) == [x \in DOMAIN f |-> IF f[x] = v THEN w ELSE f[x]]

LoadsOf(b) == {l \in At("load") : l[1] = b}

\* The loads of a block are visited in order, the blocks in the order of an
\* unordered map.
NextLoad(l) ==
    \/ cur = <<>> /\ l[1] \in pending /\ \A m \in LoadsOf(l[1]) : l[2] <= m[2]
    \/ cur # <<>> /\ l[1] = cur[1] /\ l[2] > cur[2]
       /\ \A m \in LoadsOf(cur[1]) : m[2] > cur[2] => l[2] <= m[2]

Idle == phase = "rename" /\ stack = <<>> /\ ret = <<>>

VisitLoad(l) ==
    /\ Idle /\ NextLoad(l)
    /\ cur' = l
    /\ pending' = pending \ {l[1]}
    /\ ret' = IF localIn[l] # Invalid THEN localIn[l] ELSE <<"value_in", l[1], 0>>
    /\ UNCHANGED <<prog, phase, localOut, localIn, stack, in, inserted, arg, uses,
                   scan, changed, execution>>

Called(b) == phase = "rename" /\ ret = <<"value_in", b, 0>>

\* value_out(b): what b stored last, or a call of value_in.
ValueOut(b) ==
    IF localOut[b] # Invalid THEN localOut[b] ELSE <<"value_in", b, 0>>

\* value_in returns what it returned before, or undef in the entry block and
\* in a block whose only predecessor is itself.
KnownIn(b) ==
    /\ Called(b)
    /\ \/ in[b] # Invalid /\ ret' = in[b] /\ in' = in
       \/ /\ in[b] = Invalid
          /\ \/ b = 1 \/ Preds(b) = <<>>
             \/ Len(Preds(b)) = 1 /\ From(Preds(b)[1]) = b
          /\ ret' = Undef
          /\ in' = [in EXCEPT ![b] = Undef]
    /\ UNCHANGED <<prog, phase, localOut, localIn, pending, cur, stack, inserted, arg,
                   uses, scan, changed, execution>>

\* value_in asks the only predecessor.
SinglePred(b) ==
    /\ Called(b) /\ in[b] = Invalid /\ b # 1
    /\ Len(Preds(b)) = 1 /\ From(Preds(b)[1]) # b
    /\ Len(stack) < MaxStack
    /\ stack' = Append(stack, <<b, 0>>)
    /\ ret' = ValueOut(From(Preds(b)[1]))
    /\ UNCHANGED <<prog, phase, localOut, localIn, pending, cur, in, inserted, arg,
                   uses, scan, changed, execution>>

\* value_in makes a parameter, which breaks cycles, and asks for the argument
\* of every edge.
JoinPreds(b) ==
    /\ Called(b) /\ in[b] = Invalid /\ b # 1 /\ Len(Preds(b)) > 1
    /\ Len(stack) < MaxStack
    /\ in' = [in EXCEPT ![b] = ParamOf(b)]
    /\ inserted' = Append(inserted, b)
    /\ stack' = Append(stack, <<b, 1>>)
    /\ ret' = ValueOut(From(Preds(b)[1]))
    /\ UNCHANGED <<prog, phase, localOut, localIn, pending, cur, arg, uses, scan,
                   changed, execution>>

Returned == phase = "rename" /\ ret # <<>> /\ ret[1] # "value_in"
Top == stack[Len(stack)]
Popped == SubSeq(stack, 1, Len(stack) - 1)

ReturnToSingle ==
    /\ Returned /\ stack # <<>> /\ Top[2] = 0
    /\ in' = [in EXCEPT ![Top[1]] = ret]
    /\ stack' = Popped
    /\ UNCHANGED <<prog, phase, localOut, localIn, pending, cur, ret, inserted, arg,
                   uses, scan, changed, execution>>

\* append_block_call_arg, then the next edge, if any.
ReturnToJoin ==
    /\ Returned /\ stack # <<>> /\ Top[2] # 0
    /\ LET b == Top[1]
           k == Top[2]
           edges == Preds(b)
       IN /\ arg' = [arg EXCEPT ![edges[k]] = ret]
          /\ IF k < Len(edges)
             THEN /\ stack' = Append(Popped, <<b, k + 1>>)
                  /\ ret' = ValueOut(From(edges[k + 1]))
             ELSE /\ stack' = Popped
                  /\ ret' = ParamOf(b)
    /\ UNCHANGED <<prog, phase, localOut, localIn, pending, cur, in, inserted, uses,
                   scan, changed, execution>>

\* replace_all_uses(load, reaching).
ReplaceLoad ==
    /\ Returned /\ stack = <<>>
    /\ uses' = Subst(uses, LoadAt(cur[1], cur[2]), ret)
    /\ arg' = Subst(arg, LoadAt(cur[1], cur[2]), ret)
    /\ ret' = <<>>
    /\ cur' = IF \E l \in LoadsOf(cur[1]) : l[2] > cur[2] THEN cur ELSE <<>>
    /\ UNCHANGED <<prog, phase, localOut, localIn, pending, stack, in, inserted, scan,
                   changed, execution>>

\* Loads, stores and the slot are removed.
RemoveAccesses ==
    /\ Idle /\ cur = <<>> /\ pending = {}
    /\ phase' = "prune" /\ scan' = 1 /\ changed' = FALSE
    /\ UNCHANGED <<prog, promotion, arg, uses, execution>>
-----------------------------------------------------------------------------
(***************************************************************************)
(* prune_trivial_params.                                                   *)
(***************************************************************************)
Others(b) == {arg[e] : e \in {e \in DOMAIN arg : prog.edges[e][2] = b}}
             \ {ParamOf(b)}

Trivial(b) == \E v \in Others(b) : Others(b) = {v}

\* Mutant: the edges keep the arguments of a pruned parameter.
PruneParamKeepsArgs ==
    /\ phase = "prune" /\ scan <= Len(inserted)
    /\ LET b == inserted[scan]
       IN IF b # 0 /\ Trivial(b)
          THEN LET unique == CHOOSE v \in Others(b) : TRUE
               IN /\ uses' = Subst(uses, ParamOf(b), unique)
                  /\ arg' = Subst(arg, ParamOf(b), unique)
                  /\ inserted' = [inserted EXCEPT ![scan] = 0]
                  /\ changed' = TRUE
          ELSE UNCHANGED <<uses, arg, inserted, changed>>
    /\ scan' = scan + 1
    /\ UNCHANGED <<prog, phase, localOut, localIn, pending, cur, stack, ret, in,
                   execution>>

\* One parameter: if all edges pass the same value, or the parameter itself,
\* the value replaces it.
PruneParam ==
    /\ phase = "prune" /\ scan <= Len(inserted)
    /\ LET b == inserted[scan]
       IN IF b # 0 /\ Trivial(b)
          THEN LET unique == CHOOSE v \in Others(b) : TRUE
                   cut == [e \in DOMAIN arg |->
                              IF prog.edges[e][2] = b THEN Invalid ELSE arg[e]]
               IN /\ uses' = Subst(uses, ParamOf(b), unique)
                  /\ arg' = Subst(cut, ParamOf(b), unique)
                  /\ inserted' = [inserted EXCEPT ![scan] = 0]
                  /\ changed' = TRUE
          ELSE UNCHANGED <<uses, arg, inserted, changed>>
    /\ scan' = scan + 1
    /\ UNCHANGED <<prog, phase, localOut, localIn, pending, cur, stack, ret, in,
                   execution>>

PruneRound ==
    /\ phase = "prune" /\ scan > Len(inserted)
    /\ IF changed THEN scan' = 1 /\ changed' = FALSE /\ UNCHANGED <<phase, at>>
       ELSE phase' = "run" /\ at' = <<1, 1>> /\ UNCHANGED <<scan, changed>>
    /\ UNCHANGED <<prog, promotion, arg, uses, mem, loaded, held>>
-----------------------------------------------------------------------------
(***************************************************************************)
(* Execution.  mem and loaded belong to the original function: what the    *)
(* slot holds and what every load returned last.  held belongs to the      *)
(* promoted one: what every block parameter got last.                      *)
(***************************************************************************)
Here == prog.blocks[at[1]][at[2]]
InBlock == phase = "run" /\ at[2] <= Len(prog.blocks[at[1]])

Before(v) == IF v[1] = "load" THEN loaded[<<v[2], v[3]>>] ELSE v
After(v) ==
    IF v[1] = "param" THEN held[v[2]]
    ELSE IF v[1] = "load" /\ ~Promotable THEN loaded[<<v[2], v[3]>>]
    ELSE v

\* What an access that is not a plain store may leave in the slot.
Overwritten == <<"overwritten", 0, 0>>

ExecuteInst ==
    /\ InBlock
    /\ loaded' = IF Here.op = "load" THEN [loaded EXCEPT ![at] = mem] ELSE loaded
    /\ mem' \in CASE Here.op = "store" -> {Before(Here.val)}
                [] Here.op = "other" -> {mem, Overwritten}
                [] OTHER -> {mem}
    /\ at' = <<at[1], at[2] + 1>>
    /\ UNCHANGED <<prog, phase, promotion, arg, uses, scan, changed, held>>

ExecuteEdge ==
    /\ phase = "run" /\ ~InBlock
    /\ \E e \in DOMAIN prog.edges :
          /\ From(e) = at[1]
          /\ at' = <<prog.edges[e][2], 1>>
          /\ held' = [held EXCEPT ![prog.edges[e][2]] = After(arg[e])]
    /\ UNCHANGED <<prog, phase, promotion, arg, uses, scan, changed, mem, loaded>>

Promote ==
    \/ KeepSlot \/ Collect \/ RemoveAccesses
    \/ \E l \in At("load") : VisitLoad(l)
    \/ \E b \in Blocks : KnownIn(b) \/ SinglePred(b) \/ JoinPreds(b)
    \/ ReturnToSingle \/ ReturnToJoin \/ ReplaceLoad
    \/ PruneParam \/ PruneRound

Execute == ExecuteInst \/ ExecuteEdge

-----------------------------------------------------------------------------
\* On every path the promoted function uses the values the original one
\* uses, wherever the original did not read the slot before its first store.
SameValues ==
    InBlock /\ Here.op = "use" =>
        Before(Here.val) \in {Undef, After(uses[at])}

\* What the verifier of AIR demands of the promoted function: nothing uses a load
\* that was removed ("use of a value whose defining instruction is not attached"),
\* and every edge passes as many arguments as its target has kept parameters.
Verified ==
    /\ phase \in {"prune", "run"} /\ Promotable =>
          /\ \A u \in DOMAIN uses : uses[u][1] # "load"
          /\ \A e \in DOMAIN arg : arg[e][1] # "load"
    /\ phase = "run" =>
          \A e \in DOMAIN prog.edges :
              arg[e] # Invalid <=>
                  \E i \in DOMAIN inserted : inserted[i] = prog.edges[e][2]
=============================================================================
