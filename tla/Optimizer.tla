------------------------------ MODULE Optimizer ------------------------------
(***************************************************************************)
(* The first two passes of run_o1_pipeline (air/passes_opt.cpp): mem2reg   *)
(* on what simplify_cfg has left of a function.                            *)
(***************************************************************************)
EXTENDS Mem2Reg, SequencesExt

CONSTANTS Functions, Results

VARIABLES source, func, simplified, ran, runs

cfgVars == <<source, func, simplified, ran, runs>>

Cfg == INSTANCE SimplifyCfg

\* Where the instruction with this id is now.
PlaceOf(f, id) ==
    CHOOSE p \in UNION {{b} \X DOMAIN f.insts[b] : b \in Cfg!Attached(f)} :
        f.insts[p[1]][p[2]].id = id

\* The function as mem2reg sees it.  Operands and arguments of a terminator are
\* used at the end of the block.
ValueOf(f, v) ==
    IF v[1] = "load" THEN LoadAt(PlaceOf(f, <<v[2], v[3]>>)[1],
                                 PlaceOf(f, <<v[2], v[3]>>)[2])
    ELSE v

BlockOf(f, b) ==
    LET used == <<f.term[b].val>> \o
                FlattenSeq([k \in DOMAIN f.term[b].calls |->
                               f.calls[f.term[b].calls[k]].args])
        loads == SelectSeq(used, LAMBDA v : v[1] = "load")
        insts == f.insts[b] \o [k \in DOMAIN loads |-> [op |-> "use", val |-> loads[k]]]
    IN  IF b \notin Cfg!Attached(f) THEN <<>>
        ELSE [k \in DOMAIN insts |->
                 [op |-> IF insts[k].op = "input" THEN "use" ELSE insts[k].op,
                  val |-> ValueOf(f, insts[k].val)]]

ForMem2Reg(f) ==
    [blocks |-> [b \in DOMAIN f.insts |-> BlockOf(f, b)],
     edges |-> FlattenSeq([i \in DOMAIN f.order |->
                   LET b == f.order[i]
                   IN  [k \in DOMAIN f.term[b].calls |->
                           <<b, f.calls[f.term[b].calls[k]].to>>]]),
     indirect |-> f.labels # {} \/ \E b \in Cfg!Attached(f) : f.term[b].op = "br_indirect"]

Init ==
    /\ Cfg!Init
    /\ prog = [blocks |-> <<>>, edges |-> <<>>, indirect |-> FALSE]
    /\ phase = "simplify_cfg"
    /\ localOut = <<>> /\ localIn = <<>> /\ pending = {} /\ cur = <<>>
    /\ stack = <<>> /\ ret = <<>> /\ inserted = <<>> /\ scan = 0 /\ changed = FALSE
    /\ in = <<>> /\ arg = <<>> /\ uses = <<>>
    /\ at = <<1, 1>> /\ mem = Undef /\ loaded = <<>> /\ held = <<>>

Simplifying == phase = "simplify_cfg" /\ Cfg!Simplify /\ UNCHANGED vars

\* The next pass.
StartMem2Reg ==
    /\ phase = "simplify_cfg" /\ simplified
    /\ phase' = "collect"
    /\ prog' = ForMem2Reg(func)
    /\ UNCHANGED <<cfgVars, promotion, arg, uses, scan, changed, execution>>

\* Or the simplified function is compared with its source.
Compare ==
    /\ phase \in {"simplify_cfg", "compare"} /\ simplified
    /\ Cfg!Run
    /\ phase' = "compare"
    /\ UNCHANGED <<prog, promotion, arg, uses, scan, changed, execution>>

Promoting == Promote /\ UNCHANGED cfgVars

Executing == Execute /\ UNCHANGED cfgVars

Pipeline == Simplifying \/ StartMem2Reg \/ Promoting

Next == Pipeline \/ Compare \/ Executing

allVars == <<vars, cfgVars>>

Spec == Init /\ [][Next]_allVars /\ WF_allVars(Pipeline)

-------------------------------------------------------------------------------
(* Properties. *)

\* The simplified function does what its source does: whenever both have come to
\* an instruction or to their end it is the same one, with the same operand
\* (fold_branch, fold_forwarding_block, merge_into_predecessor).
SameRun == Cfg!SameRun

\* Both passes end, on every control flow graph: rounds of simplification stop,
\* value_in returns although only unreachable blocks having been removed keeps it
\* from running in circles, and pruning ends.
Promoted == <>(phase \in {"run", "compare"})
===============================================================================
