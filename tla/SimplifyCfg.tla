----------------------------- MODULE SimplifyCfg -----------------------------
(***************************************************************************)
(* run_simplify_cfg (air/passes_opt.cpp): rounds of branch folding,        *)
(* forwarding of empty blocks, merging of a block into its only            *)
(* predecessor and removal of unreachable blocks, until nothing changes.   *)
(* The simplified function is then executed in step with its source.       *)
(*                                                                         *)
(* A function has a list of blocks, the first being the entry; a block has *)
(* instructions, parameters and a terminator; a terminator has an operand  *)
(* and block calls, which are records of their own (BlockCallId) with a    *)
(* target and arguments.  A value is a triple: a constant, the result of   *)
(* an instruction (its block and index in the source) or a parameter.      *)
(***************************************************************************)
EXTENDS Integers, Sequences, SequencesExt

CONSTANTS
    Functions,  \* order, insts, params, term, calls and labels (LabelAddr)
    Results     \* what an instruction may return

VARIABLES
    source, func,  \* the function before and after
    simplified,    \* run_simplify_cfg has returned
    ran, runs      \* the executions of source and of func

vars == <<source, func, simplified, ran, runs>>

IsConst(v) == v[1] = "const"

Entry(f) == f.order[1]

Attached(f) == ToSet(f.order)

\* The edges into b (facts.preds), as block and call.
Preds(f, b) ==
    UNION {{<<a, c>> : c \in {c \in ToSet(f.term[a].calls) : f.calls[c].to = b}}
           : a \in Attached(f)}

\* protected_blocks: targets of indirect branches and blocks with an address.
Protected(f) ==
    f.labels \cup {f.calls[c].to : c \in
        UNION {ToSet(f.term[a].calls) : a \in
            {a \in Attached(f) : f.term[a].op = "br_indirect"}}}

\* The operands of attached instructions, and the arguments of calls, that are v
\* (count_uses).
Operands(f, v) ==
    UNION {{<<b, k>> : k \in {k \in DOMAIN f.insts[b] : f.insts[b][k].val = v}}
           \cup (IF f.term[b].val = v THEN {<<b, 0>>} ELSE {}) : b \in Attached(f)}

ArgumentsOf(f, c, v) == {<<c, k>> : k \in {k \in DOMAIN f.calls[c].args : f.calls[c].args[k] = v}}

Arguments(f, v) ==
    UNION {ArgumentsOf(f, c, v) : c \in UNION {ToSet(f.term[b].calls) : b \in Attached(f)}}

\* replace_all_uses.
ReplaceAllUses(f, v, w) ==
    LET New(x) == IF x = v THEN w ELSE x
    IN  [f EXCEPT
          !.insts = [b \in DOMAIN @ |-> [k \in DOMAIN @[b] |->
                        [@[b][k] EXCEPT !.val = New(@)]]],
          !.term = [b \in DOMAIN @ |-> [@[b] EXCEPT !.val = New(@)]],
          !.calls = [c \in DOMAIN @ |-> [@[c] EXCEPT !.args =
                        [k \in DOMAIN @ |-> New(@[k])]]]]

Without(f, gone) == [f EXCEPT !.order = SelectSeq(@, LAMBDA b : b \notin gone)]

\* The block of the list that comes first among those of a set.
FirstOf(f, S) == f.order[CHOOSE i \in DOMAIN f.order :
                     /\ f.order[i] \in S
                     /\ \A j \in 1 .. i - 1 : f.order[j] \notin S]

-------------------------------------------------------------------------------
(* fold_branch *)

Then(f, b) == f.term[b].calls[1]
Else(f, b) == f.term[b].calls[2]

Foldable(f) ==
    {b \in Attached(f) :
        /\ f.term[b].op = "br_if"
        /\ IsConst(f.term[b].val) \/ f.calls[Then(f, b)] = f.calls[Else(f, b)]}

Folded(f, b) ==
    LET v == f.term[b].val
        kept == IF IsConst(v) /\ v[2] = 0 THEN Else(f, b) ELSE Then(f, b)
    IN  [op |-> "jump", val |-> <<"none", 0, 0>>, calls |-> <<kept>>]

\* Every block is tried in a round.
FoldBranches ==
    /\ ~simplified /\ Foldable(func) # {}
    /\ func' = [func EXCEPT !.term = [b \in DOMAIN @ |->
                   IF b \in Foldable(func) THEN Folded(func, b) ELSE @[b]]]
    /\ UNCHANGED <<source, simplified, ran, runs>>

-------------------------------------------------------------------------------
(* fold_forwarding_block *)

Onward(f, b) == f.calls[f.term[b].calls[1]]

\* Mutant: a parameter used elsewhere is not noticed.
OnlyForwardedNever(f, b) == TRUE

\* The parameters have no use but as arguments of the jump.
OnlyForwarded(f, b) ==
    \A k \in DOMAIN f.params[b] :
        LET v == f.params[b][k]
        IN  Operands(f, v) = {} /\ Arguments(f, v) = ArgumentsOf(f, f.term[b].calls[1], v)

\* The edges that can go to the target at once: a switch passes no arguments.
Forwardable(f, b) ==
    {e \in Preds(f, b) :
        f.term[e[1]].op = "switch" => f.params[b] = <<>> /\ Onward(f, b).args = <<>>}

Forwarding(f) ==
    {b \in Attached(f) \ (Protected(f) \cup {Entry(f)}) :
        /\ f.insts[b] = <<>> /\ f.term[b].op = "jump"
        /\ Onward(f, b).to # b
        /\ OnlyForwarded(f, b)
        /\ Forwardable(f, b) # {}}

\* Arguments that are parameters of b become what the edge passed for them.
Translated(f, b, incoming) ==
    [k \in DOMAIN Onward(f, b).args |->
        LET a == Onward(f, b).args[k]
        IN  IF \E i \in DOMAIN f.params[b] : f.params[b][i] = a
            THEN incoming[CHOOSE i \in DOMAIN f.params[b] : f.params[b][i] = a]
            ELSE a]

FoldForwardingBlock ==
    /\ ~simplified /\ Foldable(func) = {} /\ Forwarding(func) # {}
    /\ LET b == FirstOf(func, Forwarding(func))
           moved == {e[2] : e \in Forwardable(func, b)}
       IN  func' = [func EXCEPT !.calls = [c \in DOMAIN @ |->
                       IF c \in moved
                       THEN [to |-> Onward(func, b).to,
                             args |-> Translated(func, b, @[c].args)]
                       ELSE @[c]]]
    /\ UNCHANGED <<source, simplified, ran, runs>>

-------------------------------------------------------------------------------
(* merge_into_predecessor *)

Mergeable(f) ==
    {b \in Attached(f) \ (Protected(f) \cup {Entry(f)}) :
        \E e \in Preds(f, b) :
            Preds(f, b) = {e} /\ f.term[e[1]].op = "jump" /\ e[1] # b}

\* The parameters are replaced one after the other.
Bound(f, b, args) ==
    FoldLeft(LAMBDA g, k : ReplaceAllUses(g, f.params[b][k], args[k]),
             f, [k \in DOMAIN f.params[b] |-> k])

Merged(f, b) ==
    LET edge == CHOOSE e \in Preds(f, b) : TRUE
        pred == edge[1]
        g == Bound(f, b, f.calls[edge[2]].args)
    IN  Without([g EXCEPT !.insts[pred] = @ \o g.insts[b], !.term[pred] = g.term[b]],
                {b})

MergeIntoPredecessor ==
    /\ ~simplified /\ Foldable(func) = {} /\ Forwarding(func) = {}
    /\ Mergeable(func) # {}
    /\ func' = Merged(func, FirstOf(func, Mergeable(func)))
    /\ UNCHANGED <<source, simplified, ran, runs>>

-------------------------------------------------------------------------------
(* remove_unreachable_blocks *)

Succs(f, b) == {f.calls[c].to : c \in ToSet(f.term[b].calls)}

Reachable(f) ==
    LET reach[n \in 0 .. Len(f.order)] ==
            IF n = 0 THEN {Entry(f)} \cup Protected(f)
            ELSE reach[n - 1] \cup UNION {Succs(f, b) : b \in reach[n - 1]}
    IN  reach[Len(f.order)]

\* Mutant: a block that has a predecessor counts as reachable.
UnreachableLoopsKept(f) ==
    {b \in Attached(f) \ (Protected(f) \cup {Entry(f)}) : Preds(f, b) = {}}

Unreachable(f) == Attached(f) \ Reachable(f)

NothingToFold(f) == Foldable(f) = {} /\ Forwarding(f) = {} /\ Mergeable(f) = {}

RemoveUnreachableBlocks ==
    /\ ~simplified /\ NothingToFold(func)
    /\ Unreachable(func) # {}
    /\ func' = Without(func, Unreachable(func))
    /\ UNCHANGED <<source, simplified, ran, runs>>

\* A round without a change is the last one.
LastRound ==
    /\ ~simplified /\ NothingToFold(func) /\ Unreachable(func) = {}
    /\ simplified' = TRUE
    /\ UNCHANGED <<source, func, ran, runs>>

Simplify ==
    \/ FoldBranches \/ FoldForwardingBlock \/ MergeIntoPredecessor
    \/ RemoveUnreachableBlocks \/ LastRound

-------------------------------------------------------------------------------
(* Execution.  An execution is at an instruction of a block and knows the  *)
(* results and parameters it has computed.                                 *)

Eval(m, v) == IF IsConst(v) THEN v[2] ELSE IF v \in DOMAIN m.env THEN m.env[v] ELSE -1

Know(env, new) == [v \in DOMAIN env \cup DOMAIN new |->
                      IF v \in DOMAIN new THEN new[v] ELSE env[v]]

AtInst(f, m) == m.index <= Len(f.insts[m.block])

AtReturn(f, m) == ~AtInst(f, m) /\ f.term[m.block].calls = <<>>

\* The call taken by the terminator: br_if by zero or not, the others by number.
Taken(f, m) ==
    LET t == f.term[m.block]
    IN  CASE t.op = "jump" -> t.calls[1]
          [] t.op = "br_if" -> t.calls[IF Eval(m, t.val) = 0 THEN 2 ELSE 1]
          [] OTHER -> t.calls[1 + Eval(m, t.val)]

Follow(f, m) ==
    LET c == f.calls[Taken(f, m)]
        params == f.params[c.to]
    IN  [block |-> c.to, index |-> 1,
         env |-> Know(m.env, [v \in ToSet(params) |->
             Eval(m, c.args[CHOOSE k \in DOMAIN params : params[k] = v])])]

Advanced(m, i, r) == [m EXCEPT !.index = @ + 1,
    !.env = IF i.op \in {"load", "input"}
            THEN Know(@, [v \in {<<i.op, i.id[1], i.id[2]>>} |-> r]) ELSE @]

RunSource ==
    /\ simplified /\ ~AtInst(source, ran) /\ ~AtReturn(source, ran)
    /\ ran' = Follow(source, ran)
    /\ UNCHANGED <<source, func, simplified, runs>>

RunFunc ==
    /\ simplified /\ ~AtInst(func, runs) /\ ~AtReturn(func, runs)
    /\ runs' = Follow(func, runs)
    /\ UNCHANGED <<source, func, simplified, ran>>

RunBoth ==
    /\ simplified /\ AtInst(source, ran) /\ AtInst(func, runs)
    /\ \E r \in Results :
          /\ ran' = Advanced(ran, source.insts[ran.block][ran.index], r)
          /\ runs' = Advanced(runs, func.insts[runs.block][runs.index], r)
    /\ UNCHANGED <<source, func, simplified>>

Run == RunSource \/ RunFunc \/ RunBoth

Start(f) == [block |-> Entry(f), index |-> 1, env |-> <<>>]

Init ==
    /\ source \in Functions
    /\ func = source
    /\ simplified = FALSE
    /\ ran = Start(source) /\ runs = Start(source)

Next == Simplify \/ Run

Spec == Init /\ [][Next]_vars

-------------------------------------------------------------------------------
\* The simplified function does what its source does: whenever both have come to
\* an instruction or to their end it is the same one, with the same operand.
SameRun ==
    LET Settled(f, m) == AtInst(f, m) \/ AtReturn(f, m)
        Here(f, m) == f.insts[m.block][m.index]
    IN  simplified /\ Settled(source, ran) /\ Settled(func, runs) =>
          /\ AtInst(source, ran) <=> AtInst(func, runs)
          /\ AtInst(source, ran) =>
                /\ Here(source, ran).id = Here(func, runs).id
                /\ Eval(ran, Here(source, ran).val) = Eval(runs, Here(func, runs).val)
          /\ AtReturn(source, ran) =>
                Eval(ran, source.term[ran.block].val) =
                    Eval(runs, func.term[runs.block].val)
===============================================================================
