------------------------------ MODULE LinearScan ------------------------------
(***************************************************************************)
(* LinearScanAllocator::run (backend/common/regalloc_linear.cpp): block    *)
(* liveness by backward iteration to a fixpoint, one interval per virtual  *)
(* register covering everything it is live in, a scan over the intervals   *)
(* in order of their start, and the rewriting of the function.  Then the   *)
(* machine of module Mir executes the result.                              *)
(***************************************************************************)
EXTENDS Mir, SequencesExt

CONSTANTS
    Programs,    \* the functions to allocate
    CallerPool,  \* linear_gpr_caller and linear_fpr_caller, by bank
    CalleePool,  \* linear_gpr_callee and linear_fpr_callee, by bank
    Scratch      \* linear_gpr_scratch and linear_fpr_scratch, by bank

Banks == {"gpr", "fpr"}

PoolRegs(pool) == {pool[k] : k \in DOMAIN pool}

\* collect_pool_registers.
Pool == UNION {PoolRegs(CallerPool[b]) \cup PoolRegs(CalleePool[b]) : b \in Banks}

ASSUME LinearScanAssumption ==
    /\ CallerPool \in [Banks -> Seq(Regs)]
    /\ CalleePool \in [Banks -> Seq(Regs)]
    /\ Scratch \in [Banks -> Seq(Regs)]
    /\ \A b \in Banks : PoolRegs(CalleePool[b]) \subseteq CalleeSaved
    /\ \A b \in Banks : PoolRegs(Scratch[b]) \cap (Pool \cup CalleeSaved) = {}
    /\ \A b, c \in Banks : \A j \in DOMAIN Scratch[b], k \in DOMAIN Scratch[c] :
          Scratch[b][j] = Scratch[c][k] => b = c /\ j = k
    /\ \A p \in Programs :
          /\ p.blocks \in Seq(Seq(Instructions)) /\ p.blocks # <<>>
          /\ p.cls \in [Vregs -> {"gpr", "fpr", "fpr128"}]

VARIABLES
    phase,     \* "liveness", "intervals", "scan", "rewrite" or "run"
    liveIn, liveOut,  \* by block; block is bi + 1, or 0 when a pass is over
    changed,
    iv,        \* start, end and crosses_call of every interval
    todo,      \* the intervals not scanned yet
    active,
    held,      \* the keys of reg_holder
    assigned   \* Interval::assigned; NoReg after the scan means spilled

scanning == <<todo, active, held, assigned, usedCsrs>>
flow == <<liveIn, liveOut, block, changed>>
vars == <<prog, code, machine, phase, flow, iv, scanning>>

-----------------------------------------------------------------------------
(***************************************************************************)
(* Liveness.                                                               *)
(***************************************************************************)

\* Mutant: an operand that is written and read counts as written only.
UseIgnoresReadDefs(b) ==
    {v \in Vregs : \E k \in 1 .. Len(prog.blocks[b]) :
        /\ v \in UsesOf(prog.blocks[b][k])
        /\ \A j \in 1 .. k - 1 : v \notin DefOf(prog.blocks[b][j])}

\* The use and def sets of block b: a use counts if no earlier instruction
\* of the block defines the register.
Use(b) ==
    {v \in Vregs : \E k \in 1 .. Len(prog.blocks[b]) :
        /\ v \in ReadsOf(prog.blocks[b][k])
        /\ \A j \in 1 .. k - 1 : v \notin DefOf(prog.blocks[b][j])}

Def(b) == UNION {DefOf(prog.blocks[b][k]) : k \in 1 .. Len(prog.blocks[b])}

\* One iteration of the loop over blocks: live_out grows by the live_in of
\* the successors, live_in is recomputed from it.
LiveBlock ==
    /\ phase = "liveness" /\ block # 0
    /\ LET out == liveOut[block] \cup UNION {liveIn[s] : s \in prog.succs[block]}
           in == Use(block) \cup (out \ Def(block))
       IN /\ liveOut' = [liveOut EXCEPT ![block] = out]
          /\ liveIn' = [liveIn EXCEPT ![block] = in]
          /\ changed' = (changed \/ out # liveOut[block] \/ in # liveIn[block])
    /\ block' = block - 1
    /\ UNCHANGED <<prog, code, machine, phase, iv, scanning>>

\* while (changed).
LivePass ==
    /\ phase = "liveness" /\ block = 0
    /\ IF changed
       THEN block' = Len(prog.blocks) /\ changed' = FALSE /\ phase' = phase
       ELSE phase' = "intervals" /\ UNCHANGED <<block, changed>>
    /\ UNCHANGED <<prog, code, machine, liveIn, liveOut, iv, scanning>>

-----------------------------------------------------------------------------
(***************************************************************************)
(* Intervals, in positions counted through the blocks from zero.           *)
(***************************************************************************)
Greatest(S) == CHOOSE x \in S : \A y \in S : x >= y

\* block_first, the number of instructions in the blocks before b; block_last
\* of b is First(b + 1).
Preceding(b) ==
    UNION {{<<c, k>> : k \in 1 .. Len(prog.blocks[c])} : c \in 1 .. b - 1}
First(b) == Cardinality(Preceding(b))

\* The calls extend(v, from, to).
Extents(v) ==
    UNION {(IF v \in liveIn[b] THEN {<<First(b), First(b) + 1>>} ELSE {})
           \cup
           (IF v \in liveOut[b]
            THEN {<<IF First(b + 1) > 0 THEN First(b + 1) - 1 ELSE 0,
                    First(b + 1)>>}
            ELSE {})
           \cup
           {<<First(b) + k - 1, First(b) + k>> : k \in
               {k \in 1 .. Len(prog.blocks[b]) :
                   v \in DefOf(prog.blocks[b][k]) \cup UsesOf(prog.blocks[b][k])}}
           : b \in Blocks(prog)}

CallPositions ==
    UNION {{First(b) + k - 1 : k \in
               {k \in 1 .. Len(prog.blocks[b]) : prog.blocks[b][k].call}}
           : b \in Blocks(prog)}

\* The first call at or after the start (lower_bound) is not the last
\* instruction of the interval.
Crosses(start, end) ==
    LET later == {c \in CallPositions : c >= start}
    IN later # {} /\ Least(later) + 1 < end

Interval(v) ==
    LET start == Least({x[1] : x \in Extents(v)})
        end == Greatest({x[2] : x \in Extents(v)})
    IN [start |-> start, end |-> end, crosses |-> Crosses(start, end)]

NoInterval == [start |-> 0, end |-> 0, crosses |-> FALSE]

BuildIntervals ==
    /\ phase = "intervals"
    /\ phase' = "scan"
    /\ iv' = [v \in Vregs |-> IF Extents(v) = {} THEN NoInterval ELSE Interval(v)]
    /\ todo' = {v \in Vregs : Extents(v) # {}}
    /\ UNCHANGED <<prog, code, machine, flow, active, held, assigned, usedCsrs>>

-----------------------------------------------------------------------------
(***************************************************************************)
(* The scan.                                                               *)
(***************************************************************************)

\* The order of the scan: by start, then by index.
Before(u, v) ==
    iv[u].start < iv[v].start \/ (iv[u].start = iv[v].start /\ u <= v)

Callees(v) ==
    IF prog.cls[v] = "fpr128" THEN <<>> ELSE CalleePool[Bank(prog.cls[v])]

\* Mutant: the caller-saved pool is tried for every interval.
CandidatesIgnoreCalls(v) == CallerPool[Bank(prog.cls[v])] \o Callees(v)

\* The pools in the order they are tried.
Candidates(v) ==
    IF iv[v].crosses THEN Callees(v)
    ELSE CallerPool[Bank(prog.cls[v])] \o Callees(v)

\* Mutant: an interval that ends with the instruction v starts at expires.
ExpiredEarly(v) == {a \in active : iv[a].end <= iv[v].start + 1}

\* The active intervals that end before v starts.
Expired(v) == {a \in active : iv[a].end <= iv[v].start}

\* One interval: expire, then take a register or spill.
ScanInterval(v) ==
    /\ phase = "scan" /\ v \in todo
    /\ \A u \in todo : Before(v, u)
    /\ LET left == held \ {assigned[a] : a \in Expired(v)}
           reg == TryPool(Candidates(v), left)
       IN /\ assigned' = [assigned EXCEPT ![v] = reg]
          /\ held' = IF reg = NoReg THEN left ELSE left \cup {reg}
          /\ active' = IF reg = NoReg THEN active \ Expired(v)
                       ELSE (active \ Expired(v)) \cup {v}
          /\ usedCsrs' = usedCsrs \cup ({reg} \cap CalleeSaved)
    /\ todo' = todo \ {v}
    /\ UNCHANGED <<prog, code, machine, phase, flow, iv>>

ScanDone ==
    /\ phase = "scan" /\ todo = {}
    /\ phase' = "rewrite"
    /\ UNCHANGED <<prog, code, machine, flow, iv, scanning>>

-----------------------------------------------------------------------------
(***************************************************************************)
(* Rewriting: spilled operands go through scratch registers.               *)
(***************************************************************************)
FirstIndex(i, v) == Least({k \in DOMAIN i.ops : i.ops[k] = v})

\* scratch_for: the spilled registers of an instruction take the scratch
\* registers of their bank in order of appearance, and share the last one if
\* there are too few.
ScratchFor(i, v) ==
    LET bank == Bank(prog.cls[v])
        earlier == {u \in DefOf(i) \cup UsesOf(i) :
                       /\ assigned[u] = NoReg /\ Bank(prog.cls[u]) = bank
                       /\ FirstIndex(i, u) < FirstIndex(i, v)}
        next == Cardinality(earlier) + 1
    IN Scratch[bank][IF next <= Len(Scratch[bank]) THEN next
                     ELSE Len(Scratch[bank])]

RegFor(i, v) == IF assigned[v] # NoReg THEN assigned[v] ELSE ScratchFor(i, v)

Registers(i) == [k \in DOMAIN i.ops |-> RegFor(i, i.ops[k])]

Spilled(v) == assigned[v] = NoReg

NeedsReload(i, k) == k \in ReadIndexes(i) /\ Spilled(i.ops[k])

\* reloads: one per scratch register.
Reloads(i) ==
    FlattenSeq([k \in DOMAIN i.ops |->
        IF /\ NeedsReload(i, k)
           /\ \A j \in 1 .. k - 1 :
                 ~(NeedsReload(i, j) /\ Registers(i)[j] = Registers(i)[k])
        THEN <<Load(i.ops[k], Registers(i)[k])>>
        ELSE <<>>])

\* The reloads, the instruction, and the store of a spilled definition.
Rewritten(i) ==
    Reloads(i)
    \o <<Inst(i, Registers(i))>>
    \o (IF i.def /\ Spilled(i.ops[1])
        THEN <<Store(i.ops[1], Registers(i)[1])>> ELSE <<>>)

RewrittenBlock(insts) == FlattenSeq([k \in DOMAIN insts |-> Rewritten(insts[k])])

Rewrite ==
    /\ phase = "rewrite"
    /\ phase' = "run"
    /\ code' = [b \in Blocks(prog) |-> RewrittenBlock(prog.blocks[b])]
    /\ at' = <<1, 1>>
    /\ UNCHANGED <<prog, holds, defined, flow, iv, scanning>>

-----------------------------------------------------------------------------
\* The function is one that keeps instruction selection's promises (see Mir).
Init ==
    /\ prog \in {p \in Programs : AcceptedLinear(p, Scratch, Pool)}
    /\ code = <<>>
    /\ MachineInit
    /\ phase = "liveness"
    /\ liveIn = [b \in Blocks(prog) |-> {}]
    /\ liveOut = [b \in Blocks(prog) |-> {}]
    /\ block = 0 /\ changed = TRUE
    /\ iv = [v \in Vregs |-> NoInterval]
    /\ todo = {} /\ active = {} /\ held = {} /\ usedCsrs = {}
    /\ assigned = [v \in Vregs |-> NoReg]

Run == Execute /\ UNCHANGED <<phase, flow, iv, scanning>>

Next ==
    \/ LiveBlock \/ LivePass \/ BuildIntervals
    \/ \E v \in Vregs : ScanInterval(v)
    \/ ScanDone \/ Rewrite \/ Run

Spec == Init /\ [][Next]_vars
-----------------------------------------------------------------------------
TypeOK ==
    /\ todo \subseteq Vregs
    /\ active \subseteq Vregs
    /\ held \subseteq Regs
    /\ assigned \in [Vregs -> Regs \cup {NoReg}]
    /\ iv \in [Vregs -> [start : Nat, end : Nat, crosses : BOOLEAN]]

\* Two virtual registers whose intervals overlap never get the same physical
\* register, at every point of the scan: reg_holder and active never lose
\* track of who holds what.
NoSharing ==
    \A u, v \in Vregs :
        u # v /\ assigned[u] # NoReg /\ assigned[u] = assigned[v] =>
            iv[u].end <= iv[v].start \/ iv[v].end <= iv[u].start

\* An interval that extends over a call is in a register the call preserves.
KeptAcrossCalls ==
    \A v \in Vregs :
        assigned[v] # NoReg /\ iv[v].crosses => assigned[v] \in CalleeSaved
=============================================================================
