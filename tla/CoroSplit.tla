------------------------------ MODULE CoroSplit ------------------------------
(***************************************************************************)
(* split_coroutines (cirpasses/coro_split.cpp): a coroutine is split into  *)
(* the ramp its callers call and two clones that go on after a suspension, *)
(* resume and destroy.  What is live across a suspension is kept in the    *)
(* frame.                                                                  *)
(*                                                                         *)
(* The passes are followed on one function, then its three parts are       *)
(* executed.  Of an SSA value only its age is kept: "new" is what its      *)
(* definition computed last, "old" what it computed before, "none"         *)
(* nothing.  Local variables, the promise and the frame pointer are in the *)
(* frame or found from it and are left out, as are symmetric transfers,    *)
(* which end an activation like a return.  Somebody resumes a coroutine    *)
(* only when the activation that suspended it has ended.                   *)
(***************************************************************************)
EXTENDS Naturals, Sequences, FiniteSets, SequencesExt

CONSTANT Coroutines   \* the functions that are split

NoBlock == 0
NoValue == "none"

VARIABLES
    phase,      \* the pass that comes next, "run", or "failed"
    fn,         \* the function
    spilled,    \* spilled_values_
    parts,      \* the ramp and the clones
    act,        \* the activation: its part, block and place in the block
    regs,       \* the SSA values in it
    frame,      \* the spill fields
    state,      \* __coro_state
    resumable,  \* __coro_resume is not null
    suspended   \* history: the block in which the coroutine was suspended

coroVars == <<phase, fn, spilled, parts, act, regs, frame, state, resumable, suspended>>

Machine == <<act, regs, frame, state, resumable, suspended>>

Blocks(f) == DOMAIN f.blocks

SsaValues(f) == DOMAIN f.place

-------------------------------------------------------------------------------
(* Graphs.  A block has instructions, the first of which are its parameters  *)
(* (Builder::add_block_parameter appends a Param instruction), and a         *)
(* terminator: its kind, operands and targets; for a suspension the target   *)
(* of resume comes first, then that of destroy.                              *)

Succs(f, b) ==
    Range(f.blocks[b].to) \cup (IF f.blocks[b].unwind = NoBlock THEN {} ELSE {f.blocks[b].unwind})

\* The nodes that can be reached from start, of a graph given by its successors.
Reach(nodes, succ, start) ==
    LET R[k \in 0 .. Cardinality(nodes)] ==
            IF k = 0 THEN {start} \cap nodes
            ELSE LET reached == R[k - 1]
                 IN  reached \cup ((UNION {succ[b] : b \in reached}) \cap nodes)
    IN  R[Cardinality(nodes)]

\* What the sweeps over the sets of dominators end with: the nodes without which a
\* node cannot be reached.
Dominators(nodes, succ, root) ==
    LET Without == [d \in nodes |-> Reach(nodes \ {d}, succ, root)]
    IN  [n \in nodes |-> {d \in nodes : n \notin Without[d]}]

Defs(f, b) == {f.blocks[b].code[i].def : i \in DOMAIN f.blocks[b].code}

DefBlock(f, v) == CHOOSE b \in Blocks(f) : v \in Defs(f, b)

Uses(f, b) == f.blocks[b].uses \cup UNION {f.blocks[b].code[i].uses : i \in DOMAIN f.blocks[b].code}

-------------------------------------------------------------------------------
(* analyze_spills. *)

Suspends(f) == {b \in Blocks(f) : f.blocks[b].kind = "suspend"}

FinalSuspend(f) == CHOOSE s \in Suspends(f) : f.blocks[s].final

\* Where a clone goes on: the successors of the node root.
RootTargets(f) == UNION {Range(f.blocks[s].to) : s \in Suspends(f)}

\* A value used in a block that a clone reaches past its definition.
Crossing(f) ==
    LET root == 0
        succ == [b \in Blocks(f) \cup {root} |->
                    IF b = root THEN RootTargets(f) ELSE Succs(f, b)]
        reachable == Reach(Blocks(f) \cup {root}, succ, root)
        dominates == Dominators(reachable, succ, root)
    IN  {v \in SsaValues(f) :
            \E b \in reachable \ {root} :
                /\ v \in Uses(f, b)
                /\ DefBlock(f, v) # b /\ DefBlock(f, v) \notin dominates[b]}

\* A place cannot be spilled: "a value live across a coroutine suspension is not
\* supported yet".
AnalyzeSpills ==
    /\ phase = "analyze_spills"
    /\ spilled' = IF Suspends(fn) = {} THEN {} ELSE Crossing(fn)
    /\ phase' = IF \E v \in spilled' : fn.place[v] THEN "failed" ELSE "apply_spills"
    /\ UNCHANGED <<fn, parts, Machine>>

-------------------------------------------------------------------------------
(* apply_spills. *)

\* Operands defined in another block are loaded from the frame.
Reloaded(f, b, uses) == {v \in uses \cap spilled : DefBlock(f, v) # b}

\* The instruction that reloads its operands, and stores its result when stored.
Remapped(f, b, i, stored) ==
    [i EXCEPT !.uses = @ \ Reloaded(f, b, i.uses), !.reloads = Reloaded(f, b, i.uses),
              !.stored = stored]

\* Mutant: the last instruction of a block is not looked at.
SpillingButLast(f, b) ==
    [k \in DOMAIN f.blocks[b].code |->
        Remapped(f, b, f.blocks[b].code[k],
                 f.blocks[b].code[k].def \in spilled /\ k < Len(f.blocks[b].code))]

\* Every definition, a parameter of the block too, is followed by its store; nothing
\* happens between the two.
Spilling(f, b) ==
    [k \in DOMAIN f.blocks[b].code |->
        Remapped(f, b, f.blocks[b].code[k], f.blocks[b].code[k].def \in spilled)]

SpilledBlock(f, b) ==
    [f.blocks[b] EXCEPT !.code = Spilling(f, b), !.uses = @ \ Reloaded(f, b, @),
                        !.reloads = Reloaded(f, b, f.blocks[b].uses)]

ApplySpills ==
    /\ phase = "apply_spills"
    /\ fn' = [fn EXCEPT !.blocks = [b \in Blocks(fn) |-> SpilledBlock(fn, b)]]
    /\ phase' = "split"
    /\ UNCHANGED <<spilled, parts, Machine>>

-------------------------------------------------------------------------------
(* build_clone, rewrite_ramp, prune_unreachable, validate_values. *)

Leaves(b) == b.kind \in {"suspend", "end"}

\* The edges of a part; its entry may be a switch.
SuccsOf(p) ==
    [b \in Blocks(p) |->
        Succs(p, b) \cup (IF b = p.entry THEN {c.target : c \in p.cases} ELSE {})]

Pruned(p) ==
    [p EXCEPT !.live = Reach(Blocks(p), SuccsOf(p), p.entry)]

\* A suspension and the end of the coroutine lead to the return of the ramp.
Ramp(f) ==
    Pruned([blocks |-> [b \in Blocks(f) |->
                IF Leaves(f.blocks[b])
                THEN [f.blocks[b] EXCEPT !.kind = "branch", !.to = <<f.ramp_return>>]
                ELSE f.blocks[b]],
            entry |-> 1, cases |-> {}, live |-> {}])

\* Mutant: the cases are numbered as the suspensions are found.
CasesInOrder(f, isDestroy) ==
    {[index |-> Cardinality({r \in Suspends(f) : r < s}),
      target |-> f.blocks[s].to[IF isDestroy THEN 2 ELSE 1]] :
        s \in {r \in Suspends(f) : isDestroy \/ ~f.blocks[r].final}}

\* The switch of a clone.  A coroutine is not resumed at its final suspension.
Cases(f, isDestroy) ==
    {[index |-> f.blocks[s].index, target |-> f.blocks[s].to[IF isDestroy THEN 2 ELSE 1]] :
        s \in {r \in Suspends(f) : isDestroy \/ ~f.blocks[r].final}}

Block(kind, to) ==
    [code |-> <<>>, kind |-> kind, uses |-> {}, reloads |-> {}, to |-> to, unwind |-> NoBlock,
     index |-> 0, final |-> FALSE, throws |-> FALSE]

\* The blocks again, where leaving is a return, a block that dispatches on the
\* state, and one for a state that has no case.
Clone(f, isDestroy) ==
    LET n == Len(f.blocks)
        cases == Cases(f, isDestroy)
        body == [b \in Blocks(f) |->
                    IF Leaves(f.blocks[b])
                    THEN [f.blocks[b] EXCEPT !.kind = "return", !.to = <<>>] ELSE f.blocks[b]]
    IN  Pruned([blocks |-> body \o <<Block("switch", <<n + 2>>),
                                     Block("unreachable", <<>>)>>,
                entry |-> n + 1, cases |-> cases, live |-> {}])

\* The operands of an instruction or, after the last, of the terminator.
At(p, b, pos) ==
    IF pos <= Len(p.blocks[b].code) THEN p.blocks[b].code[pos]
    ELSE [kind |-> "terminator", def |-> NoValue, uses |-> p.blocks[b].uses,
          reloads |-> p.blocks[b].reloads, stored |-> FALSE, final |-> FALSE, index |-> 0]

\* The instructions before pos in block b and those of the blocks that dominate it.
Before(p, dominates, b, pos) ==
    {p.blocks[b].code[j] : j \in 1 .. pos - 1}
        \cup UNION {Range(p.blocks[d].code) : d \in dominates[b] \ {b}}

DefinedBefore(p, dominates, b, pos, v) ==
    \E i \in Before(p, dominates, b, pos) : i.def = v

FrameBefore(p, dominates, b, pos) ==
    \E i \in Before(p, dominates, b, pos) : i.kind = "begin"

NeedsFrame(i) == i.reloads # {} \/ i.stored \/ i.kind = "save"

\* In every part each use is dominated by its definition, and in the ramp each
\* access to the frame by the instruction that makes it.
Validated(p, isRamp) ==
    LET dominates == Dominators(p.live, SuccsOf(p), p.entry)
    IN  \A b \in p.live : \A pos \in 1 .. Len(p.blocks[b].code) + 1 :
          /\ \A v \in At(p, b, pos).uses : DefinedBefore(p, dominates, b, pos, v)
          /\ isRamp /\ NeedsFrame(At(p, b, pos)) => FrameBefore(p, dominates, b, pos)

Split ==
    /\ phase = "split"
    /\ parts' = [ramp |-> Ramp(fn), resume |-> Clone(fn, FALSE), destroy |-> Clone(fn, TRUE)]
    /\ phase' = IF \A p \in DOMAIN parts' : Validated(parts'[p], p = "ramp")
                THEN "run" ELSE "failed"
    /\ UNCHANGED <<fn, spilled, Machine>>

-------------------------------------------------------------------------------
(* The coroutines that finish_coroutine_function and emit_await build.       *)

Instruction ==
    [kind : {"op", "begin", "save"}, def : STRING, uses : SUBSET STRING, reloads : SUBSET STRING,
     stored : BOOLEAN, final : BOOLEAN, index : Nat]

\* "cond" has any number of targets: a conditional branch, or a switch of the body.
Terminators == {"branch", "cond", "suspend", "end", "return", "unreachable"}

CoroBlock ==
    [code : Seq(Instruction), kind : Terminators, uses : SUBSET STRING, reloads : SUBSET STRING,
     to : Seq(Nat), unwind : Nat, index : Nat, final : BOOLEAN, throws : BOOLEAN]

\* The state and the resume pointer are written.
Touches(i) == i.kind \in {"save", "begin"}

Quiet(f) == {b \in Blocks(f) : \A k \in DOMAIN f.blocks[b].code : ~Touches(f.blocks[b].code[k])}

IsSaveFor(f, i, s) ==
    i.kind = "save" /\ i.index = f.blocks[s].index /\ i.final = f.blocks[s].final

\* The block's last write of them is the save for suspension s.
SavesLast(f, b, s) ==
    \E k \in DOMAIN f.blocks[b].code :
        /\ IsSaveFor(f, f.blocks[b].code[k], s)
        /\ \A j \in DOMAIN f.blocks[b].code : j > k => ~Touches(f.blocks[b].code[j])

Preds(f) == [c \in Blocks(f) |-> {b \in Blocks(f) : c \in Succs(f, b)}]

\* The blocks from which b is reached without a write.
Unsaved(f, b) == Reach(Quiet(f), Preds(f), b)

\* On every path to the end of b the last write is the save for s.
SavedFor(f, b, s) ==
    /\ b \notin Quiet(f) => SavesLast(f, b, s)
    /\ ({1, f.ramp_return} \cup RootTargets(f)) \cap Unsaved(f, b) = {}
    /\ \A c \in Blocks(f) \ Quiet(f) :
          Succs(f, c) \cap Unsaved(f, b) # {} => SavesLast(f, c, s)

\* The whole coroutine as one graph: it goes on behind a suspension, the ramp's
\* return follows it, and destroy what an exception leaves.
Whole(f) ==
    Pruned([blocks |-> [b \in Blocks(f) |->
                [f.blocks[b] EXCEPT
                    !.to = @ \o (IF Leaves(f.blocks[b]) THEN <<f.ramp_return>> ELSE <<>>)
                             \o (IF f.blocks[b].throws THEN <<f.blocks[FinalSuspend(f)].to[2]>>
                                 ELSE <<>>)]],
            entry |-> 1, cases |-> {}, live |-> {}])

WellFormed(f) ==
    /\ f = [blocks |-> f.blocks, ramp_return |-> f.ramp_return, place |-> f.place]
    /\ f.blocks \in Seq(CoroBlock) /\ 1 \in Blocks(f) \ Suspends(f)
    /\ f.ramp_return \in Quiet(f)
    /\ f.blocks[f.ramp_return].kind = "return" /\ ~f.blocks[f.ramp_return].throws
    /\ NoValue \notin SsaValues(f)
    /\ \A b \in Blocks(f) :
          /\ Succs(f, b) \subseteq Blocks(f)
          /\ \A k \in DOMAIN f.blocks[b].code :
                f.blocks[b].code[k].kind # "op" => f.blocks[b].code[k].def = NoValue
          /\ f.blocks[b].throws =>
                \E s \in Suspends(f) : f.blocks[s].final /\ SavedFor(f, b, s)
    /\ \A s \in Suspends(f) :
          /\ Len(f.blocks[s].to) = 2
          /\ s \in Quiet(f) /\ SavedFor(f, s, s)
          /\ \A r \in Suspends(f) \ {s} :
                /\ f.blocks[r].index # f.blocks[s].index
                /\ ~(f.blocks[r].final /\ f.blocks[s].final)

\* emit_await saves the index of a suspension before it calls await_suspend, and the
\* handler that of the final one before it calls unhandled_exception; each suspension
\* has an index of its own.  A value is computed before it is used.
ASSUME CoroAssumption ==
    \A f \in Coroutines : WellFormed(f) /\ Validated(Whole(f), FALSE)

-------------------------------------------------------------------------------
(* Execution. *)

Idle == [part |-> "none", block |-> NoBlock, pos |-> 1]

Running == phase = "run" /\ act.part # "none"

Part == parts[act.part]

Here == At(Part, act.block, act.pos)

Terminates == Here.kind = "terminator"

Advance == act' = [act EXCEPT !.pos = @ + 1]

\* What the frame holds of a value that is computed anew.
Aged(v) == IF frame[v] = "new" THEN "old" ELSE frame[v]

Compute ==
    /\ Running /\ Here.kind = "op"
    /\ regs' = [v \in DOMAIN regs |-> IF v = Here.def THEN "new" ELSE regs[v]]
    /\ frame' = [v \in DOMAIN frame |->
                    IF v # Here.def THEN frame[v] ELSE IF Here.stored THEN "new" ELSE Aged(v)]
    /\ Advance
    /\ UNCHANGED <<phase, fn, spilled, parts, state, resumable, suspended>>

\* The stores of the addresses of the clones, behind the instruction that makes
\* the frame.
BeginFrame ==
    /\ Running /\ Here.kind = "begin"
    /\ resumable' = TRUE
    /\ Advance
    /\ UNCHANGED <<phase, fn, spilled, parts, regs, frame, state, suspended>>

\* What rewrite_shared_body makes of CoroSave: the index is stored, at the final
\* suspension also a null resume pointer.
Save ==
    /\ Running /\ Here.kind = "save"
    /\ state' = Here.index
    /\ resumable' = (resumable /\ ~Here.final)
    /\ Advance
    /\ UNCHANGED <<phase, fn, spilled, parts, regs, frame, suspended>>

GoTo(b) ==
    /\ act' = [part |-> act.part, block |-> b, pos |-> 1]
    /\ UNCHANGED <<phase, fn, spilled, parts, regs, frame, state, resumable>>

\* The terminator the block had before the split.
SuspendsHere == act.block \in Suspends(fn)

\* A branch, or an exception that is caught in the coroutine.  Nothing throws where
\* a suspension was.
Jump ==
    /\ Running /\ Terminates
    /\ Part.blocks[act.block].kind \in {"branch", "cond"}
    /\ \E b \in IF SuspendsHere THEN Range(Part.blocks[act.block].to)
              ELSE Succs(Part, act.block) : GoTo(b)
    /\ suspended' = IF SuspendsHere THEN act.block ELSE suspended

Dispatch ==
    /\ Running /\ Terminates /\ Part.blocks[act.block].kind = "switch"
    /\ GoTo(IF \E c \in Part.cases : c.index = state
            THEN (CHOOSE c \in Part.cases : c.index = state).target
            ELSE Len(Part.blocks))
    /\ UNCHANGED suspended

LeaveActivation ==
    /\ act' = Idle
    /\ regs' = [v \in DOMAIN regs |-> "none"]
    /\ UNCHANGED <<phase, fn, spilled, parts, frame, state, resumable>>

Return ==
    /\ Running /\ Terminates /\ Part.blocks[act.block].kind = "return"
    /\ LeaveActivation
    /\ suspended' = IF SuspendsHere THEN act.block
                    ELSE IF act.part = "ramp" THEN suspended ELSE NoBlock

\* unhandled_exception throws: the coroutine counts as suspended at the end.
LeaveByException ==
    /\ Running /\ Terminates /\ Part.blocks[act.block].throws
    /\ LeaveActivation
    /\ suspended' = FinalSuspend(fn)

\* resume() and destroy() of the handle.
Enter(p) ==
    /\ phase = "run" /\ act.part = "none" /\ suspended # NoBlock
    /\ p = "resume" => resumable
    /\ act' = [part |-> p, block |-> parts[p].entry, pos |-> 1]
    /\ UNCHANGED <<phase, fn, spilled, parts, regs, frame, state, resumable, suspended>>

-------------------------------------------------------------------------------
CoroInit ==
    /\ phase = "analyze_spills"
    /\ fn \in Coroutines
    /\ spilled = {}
    /\ parts = <<>>
    /\ act = [part |-> "ramp", block |-> 1, pos |-> 1]
    /\ regs = [v \in SsaValues(fn) |-> "none"]
    /\ frame = [v \in SsaValues(fn) |-> "none"]
    /\ state = 0 /\ resumable = FALSE /\ suspended = NoBlock

CoroNext ==
    \/ AnalyzeSpills \/ ApplySpills \/ Split
    \/ Compute \/ BeginFrame \/ Save \/ Jump \/ Dispatch \/ Return
    \/ LeaveByException \/ \E p \in {"resume", "destroy"} : Enter(p)

CoroSpec == CoroInit /\ [][CoroNext]_coroVars

-------------------------------------------------------------------------------
(* Properties. *)

ReadRight(v) ==
    /\ v \in Here.uses => regs[v] = "new"
    /\ v \in Here.reloads => frame[v] = "new"

\* However often the coroutine is suspended, resumed and destroyed, an instruction
\* reads of every operand, a parameter of a block or the result of an instruction,
\* what its definition computed last: it is in the same activation or in the frame.
\* "values crossing suspension without frame storage must diagnose"
\* (CoroSplitter::validate_values).
ValuesSurvive == Running => \A v \in SsaValues(fn) : ReadRight(v)

\* A clone goes on behind the suspension at which the coroutine was suspended, also
\* when an await_suspend declined to suspend or an exception ended the body.
GoesOn ==
    Running /\ act.part # "ramp" /\ act.block = Part.entry =>
        LET target == fn.blocks[suspended].to[IF act.part = "destroy" THEN 2 ELSE 1]
        IN  {c.target : c \in {d \in Part.cases : d.index = state}} = {target}
===============================================================================
