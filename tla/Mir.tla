--------------------------------- MODULE Mir ---------------------------------
(***************************************************************************)
(* The machine IR of the native backend (backend/common/mir.h), as far as  *)
(* register allocation sees it, what the MIR verifier demands of it before *)
(* allocation, and a machine that executes allocated code and watches      *)
(* whether every register still holds the value the program put there.     *)
(*                                                                         *)
(* An instruction is a record: ops, its virtual register operands in       *)
(* order; def, whether operand 0 is written (defines_operand0); reads,     *)
(* whether it is read too (reads_operand0); call (is_call); term, whether  *)
(* it is an unconditional terminator; phys, the physical registers it      *)
(* writes by name.                                                         *)
(***************************************************************************)
EXTENDS Integers, Sequences, FiniteSets

CONSTANTS
    Vregs,        \* indices of the virtual registers
    Regs,         \* the physical registers
    CalleeSaved,  \* those a call preserves (is_callee_saved)
    Junk,         \* the content of a register that holds no current value
    NoReg         \* no physical register (kNoReg)

\* An instruction writes operand 0, a virtual register or one given by name.  On no
\* target does a call define an operand or end a block.
Instructions ==
    {i \in [ops : Seq(Vregs), def : BOOLEAN, reads : BOOLEAN, call : BOOLEAN,
            term : BOOLEAN, phys : SUBSET Regs] :
        /\ i.def => i.ops # <<>> /\ i.phys = {}
        /\ i.call => ~i.def /\ ~i.term}

ASSUME MirAssumption ==
    /\ Vregs \subseteq Nat
    /\ Vregs \cap Regs = {}
    /\ CalleeSaved \subseteq Regs
    /\ Junk \notin Vregs
    /\ NoReg \notin Regs

VARIABLES
    prog,     \* the function: blocks, succs and cls (vreg_classes)
    code,     \* its blocks after allocation
    at,       \* block and index of the next instruction to execute
    holds,    \* whose current value every register and spill slot holds; the
              \* slot of virtual register v is named v
    defined,  \* the virtual registers assigned so far by this execution
    block,    \* the block the allocator is at
    usedCsrs  \* function.used_csrs, which the prologue saves

machine == <<at, holds, defined>>

Blocks(p) == 1 .. Len(p.blocks)

\* classify_inst: operand 0 is the definition, the others are uses.
DefOf(i) == IF i.def THEN {i.ops[1]} ELSE {}
UseIndexes(i) == (IF i.def THEN 2 ELSE 1) .. Len(i.ops)
UsesOf(i) == {i.ops[k] : k \in UseIndexes(i)}

\* Operands whose value the instruction reads.
ReadIndexes(i) == UseIndexes(i) \cup (IF i.def /\ i.reads THEN {1} ELSE {})
ReadsOf(i) == {i.ops[k] : k \in ReadIndexes(i)}

\* The registers of class Fpr and Fpr128 are the same ones.
Bank(cls) == IF cls = "gpr" THEN "gpr" ELSE "fpr"

Insts(p) == UNION {{p.blocks[b][k] : k \in 1 .. Len(p.blocks[b])} : b \in Blocks(p)}

Least(S) == CHOOSE x \in S : \A y \in S : x <= y

\* The first register of the pool that is not taken (try_pool).
TryPool(pool, taken) ==
    LET free == {k \in DOMAIN pool : pool[k] \notin taken}
    IN IF free = {} THEN NoReg ELSE pool[Least(free)]

-----------------------------------------------------------------------------
(***************************************************************************)
(* What instruction selection promises the allocators, as                  *)
(* check_block_structure and check_post_isel of the MIR verifier state it. *)
(* A compilation checks it only with --verify-mir or ABURI_VERIFY_MIR set  *)
(* (backend.cpp); by default the allocators rely on it unchecked.  Blocks  *)
(* are left at their end only: a conditional branch in the middle of a     *)
(* block and the unwind exit of an invoke are not modelled.                *)
(***************************************************************************)
EndsInTerminator(p) ==
    \A b \in Blocks(p) :
        /\ p.blocks[b] # <<>>
        /\ \A k \in DOMAIN p.blocks[b] :
              p.blocks[b][k].term <=> k = Len(p.blocks[b])
        /\ p.succs[b] \subseteq Blocks(p)

DefinedSomewhere(p) ==
    \A i \in Insts(p) : ReadsOf(i) \subseteq UNION {DefOf(j) : j \in Insts(p)}

\* Linear scan: as many scratch registers as an instruction has operands, and
\* no register of a pool named in the code.
AcceptedLinear(p, scratch, pool) ==
    /\ EndsInTerminator(p)
    /\ DefinedSomewhere(p)
    /\ \A i \in Insts(p) : i.phys \cap pool = {}
    /\ \A i \in Insts(p), bank \in {"gpr", "fpr"} :
          Cardinality({v \in DefOf(i) \cup UsesOf(i) : Bank(p.cls[v]) = bank})
              <= Len(scratch[bank])

\* The fast tier keeps no value live across a block boundary.
AcceptedFast(p) ==
    /\ EndsInTerminator(p)
    /\ \A b \in Blocks(p) : \A k \in 1 .. Len(p.blocks[b]) :
          ReadsOf(p.blocks[b][k]) \subseteq
              UNION {DefOf(p.blocks[b][j]) : j \in 1 .. k - 1}

-----------------------------------------------------------------------------
(***************************************************************************)
(* Execution of allocated code.  A "load" and a "store" move between a     *)
(* register and the spill slot of v; an "inst" is an instruction of the    *)
(* program with a register for each operand.                               *)
(***************************************************************************)
Load(v, r) == [kind |-> "load", v |-> v, reg |-> r]
Store(v, r) == [kind |-> "store", v |-> v, reg |-> r]
Inst(i, regs) == [kind |-> "inst", inst |-> i, regs |-> regs]

\* A call preserves callee-saved registers, but only their low 64 bits.
Clobbered(i, l) ==
    /\ l \in Regs
    /\ \/ l \in i.phys
       \/ i.call /\ l \notin CalleeSaved
       \/ i.call /\ holds[l] # Junk /\ prog.cls[holds[l]] = "fpr128"

\* A new value of a virtual register makes every older copy of it stale.
AfterInst(i, regs) ==
    [l \in Regs \cup Vregs |->
        IF i.def /\ l = regs[1] THEN i.ops[1]
        ELSE IF Clobbered(i, l) \/ holds[l] \in DefOf(i) THEN Junk
        ELSE holds[l]]

Here == code[at[1]][at[2]]

Executing == at[1] # 0 /\ at[2] <= Len(code[at[1]])

ExecuteMove ==
    /\ Executing /\ Here.kind # "inst"
    /\ holds' = IF Here.kind = "load"
                THEN [holds EXCEPT ![Here.reg] = holds[Here.v]]
                ELSE [holds EXCEPT ![Here.v] = holds[Here.reg]]
    /\ at' = <<at[1], at[2] + 1>>
    /\ UNCHANGED <<prog, code, defined>>

ExecuteInst ==
    /\ Executing /\ Here.kind = "inst"
    /\ holds' = AfterInst(Here.inst, Here.regs)
    /\ defined' = defined \cup DefOf(Here.inst)
    /\ at' = <<at[1], at[2] + 1>>
    /\ UNCHANGED <<prog, code>>

Branch ==
    /\ at[1] # 0 /\ at[2] > Len(code[at[1]])
    /\ \E s \in prog.succs[at[1]] : at' = <<s, 1>>
    /\ UNCHANGED <<prog, code, holds, defined>>

Execute == ExecuteMove \/ ExecuteInst \/ Branch

\* at[1] = 0: not executing yet.
MachineInit ==
    /\ at = <<0, 1>>
    /\ holds = [l \in Regs \cup Vregs |-> Junk]
    /\ defined = {}

\* The registers the allocated instructions write.
Written ==
    UNION {{code[b][k].reg : k \in {k \in DOMAIN code[b] : code[b][k].kind = "load"}}
           \cup {code[b][k].regs[1] : k \in
                    {k \in DOMAIN code[b] :
                        code[b][k].kind = "inst" /\ code[b][k].inst.def}}
           : b \in DOMAIN code}

-----------------------------------------------------------------------------
\* Every operand an allocated instruction reads is in a register that holds
\* the current value of the virtual register the operand named before
\* allocation, on every path through the function: whatever was spilled,
\* reloaded, evicted, clobbered by a call or redefined on the way.
ReadsRight ==
    Executing /\ Here.kind = "inst" =>
        \A k \in ReadIndexes(Here.inst) :
            Here.inst.ops[k] \in defined =>
                holds[Here.regs[k]] = Here.inst.ops[k]

\* The code reads of every operand the value it had before the allocation, and
\* every callee-saved register it writes is in used_csrs, so that the prologue
\* saves it for the caller.
CodeRight == ReadsRight /\ Written \cap CalleeSaved \subseteq usedCsrs
=============================================================================
