----------------------------- MODULE FastRegAlloc -----------------------------
(***************************************************************************)
(* FastRegAllocator::run (backend/common/regalloc_fast.cpp), the allocator *)
(* of -O0 and of the 32-bit targets: one pass over each block that puts a  *)
(* value into the first free register, evicts when there is none, spills   *)
(* what a call destroys and forgets a value after its last mention.  Then  *)
(* the machine of module Mir executes the result.                          *)
(*                                                                         *)
(* The slots of a block are not those of another one (AllocState is made   *)
(* anew), but as no value lives across a boundary the model names the slot *)
(* of v in every block v.                                                  *)
(***************************************************************************)
EXTENDS Mir, SequencesExt

CONSTANTS
    FastPrograms,  \* the functions to allocate
    Order,         \* gpr_order and fpr_order, by bank
    Zero           \* physical register number 0

OrderRegs(bank) == {Order[bank][k] : k \in DOMAIN Order[bank]}

\* The virtual registers of instruction i in the bank.
OperandsIn(p, i, bank) ==
    {v \in DefOf(i) \cup UsesOf(i) : Bank(p.cls[v]) = bank}

\* Every bank has distinct registers, the caller-saved vector registers first.
\* Instruction selection gives no instruction more register operands of a bank
\* than the bank has registers, nor one with a 128-bit operand more vector
\* operands than there are caller-saved ones.
ASSUME FastAssumption ==
    /\ Order \in [{"gpr", "fpr"} -> Seq(Regs)]
    /\ \A bank \in {"gpr", "fpr"} : \A j, k \in DOMAIN Order[bank] :
          Order[bank][j] = Order[bank][k] => j = k
    /\ OrderRegs("gpr") \cap OrderRegs("fpr") = {}
    /\ \A j, k \in DOMAIN Order["fpr"] :
          j < k /\ Order["fpr"][k] \notin CalleeSaved =>
              Order["fpr"][j] \notin CalleeSaved
    /\ \A p \in FastPrograms :
          /\ p.blocks \in Seq(Seq(Instructions)) /\ p.blocks # <<>>
          /\ p.cls \in [Vregs -> {"gpr", "fpr", "fpr128"}]
          /\ \A i \in Insts(p) :
                /\ \A bank \in {"gpr", "fpr"} :
                      Cardinality(OperandsIn(p, i, bank))
                          <= Cardinality(OrderRegs(bank) \ i.phys)
                /\ (\E v \in OperandsIn(p, i, "fpr") : p.cls[v] = "fpr128") =>
                      Cardinality(OperandsIn(p, i, "fpr"))
                          <= Cardinality(OrderRegs("fpr") \ (CalleeSaved \cup i.phys))

VARIABLES
    index,    \* the instruction of the block being allocated
    stage,    \* "operands", "call", "def", "emit", or "done"
    operand,  \* op_index + 1
    where,    \* vreg_to_phys; phys_to_vreg is its inverse
    pinned,   \* the registers this instruction's operands are in
    regs,     \* the registers its operands were rewritten to
    out       \* the instructions emitted for the block

position == <<block, index, stage, operand>>
state == <<where, pinned, regs, out, usedCsrs>>
fastVars == <<prog, code, machine, position, state>>

Current == prog.blocks[block][index]

\* The virtual register in r, if any, as a set (phys_to_vreg).
Holder(r) == {v \in Vregs : where[v] = r}

\* evict_phys stores the holder of r, if any, to its slot.
EvictPhys(r) ==
    IF Holder(r) = {} THEN <<>>
    ELSE <<Store(CHOOSE v \in Vregs : v \in Holder(r), r)>>

\* The stores for the registers of rs.  (For a call the code takes them in the order
\* of a hash table; the order makes no difference.)
Spills(rs) ==
    LET all == Order["gpr"] \o Order["fpr"]
    IN FlattenSeq([k \in DOMAIN all |->
           IF all[k] \in rs THEN EvictPhys(all[k]) ELSE <<>>])

\* unassign.
Without(w, gone) == [v \in Vregs |-> IF v \in gone THEN NoReg ELSE w[v]]

-----------------------------------------------------------------------------
(***************************************************************************)
(* allocate: the register v gets and the virtual registers evicted for it. *)
(***************************************************************************)

\* What the first loop passes over.  It leaves callee-saved registers to narrower
\* values, because a call preserves only half of a 128-bit one.
Occupied(v) ==
    pinned \cup {r \in Regs : Holder(r) # {}}
           \cup (IF prog.cls[v] = "fpr128" THEN CalleeSaved ELSE {})

\* Mutant: a register that already holds an operand may be evicted.
SparedNone == {}

\* What the second loop passes over before it evicts.
Spared == pinned

\* With every register pinned the code answers 0 and assigns nothing.
Choice(v) ==
    LET order == Order[Bank(prog.cls[v])]
        free == TryPool(order, Occupied(v))
    IN IF free # NoReg THEN free ELSE TryPool(order, Spared)

\* v comes to be in Choice(v), whose holder is spilled; an operand that is
\* read is reloaded.
Allocate(v, reload) ==
    LET r == Choice(v)
        reg == IF r = NoReg THEN Zero ELSE r
    IN /\ where' = IF r = NoReg THEN where
                   ELSE [Without(where, Holder(r)) EXCEPT ![v] = r]
       /\ pinned' = pinned \cup ({r} \ {NoReg})
       /\ usedCsrs' = usedCsrs \cup ({r} \cap CalleeSaved)
       /\ regs' = [regs EXCEPT ![operand] = reg]
       /\ out' = out \o Spills({r})
                     \o (IF reload THEN <<Load(v, reg)>> ELSE <<>>)

-----------------------------------------------------------------------------
(***************************************************************************)
(* One instruction.                                                        *)
(***************************************************************************)

\* An operand that is only written waits for the stage "def".
SkipOperand ==
    /\ stage = "operands" /\ operand <= Len(Current.ops)
    /\ operand \notin ReadIndexes(Current)
    /\ operand' = operand + 1
    /\ UNCHANGED <<prog, code, machine, block, index, stage, state>>

\* The operand is in a register already.
FoundOperand ==
    /\ stage = "operands" /\ operand \in ReadIndexes(Current)
    /\ LET r == where[Current.ops[operand]]
       IN /\ r # NoReg
          /\ pinned' = pinned \cup {r}
          /\ regs' = [regs EXCEPT ![operand] = r]
    /\ operand' = operand + 1
    /\ UNCHANGED <<prog, code, machine, block, index, stage, where, out, usedCsrs>>

\* The operand was spilled: it gets a register and is reloaded.
ReloadOperand ==
    /\ stage = "operands" /\ operand \in ReadIndexes(Current)
    /\ where[Current.ops[operand]] = NoReg
    /\ Allocate(Current.ops[operand], TRUE)
    /\ operand' = operand + 1
    /\ UNCHANGED <<prog, code, machine, block, index, stage>>

OperandsDone ==
    /\ stage = "operands" /\ operand > Len(Current.ops)
    /\ stage' = "call"
    /\ operand' = 1
    /\ UNCHANGED <<prog, code, machine, block, index, state>>

\* A call destroys the caller-saved registers.
CallSpills ==
    /\ stage = "call"
    /\ stage' = "def"
    /\ IF Current.call
       THEN /\ out' = out \o Spills(Regs \ CalleeSaved)
            /\ where' = Without(where,
                  {v \in Vregs : where[v] \notin CalleeSaved})
       ELSE UNCHANGED <<where, out>>
    /\ UNCHANGED <<prog, code, machine, block, index, operand, pinned, regs,
                   usedCsrs>>

\* A definition stays where the register already is.  For a read-modify-write
\* operand 0 that is the register found for it as a use.
DefInPlace ==
    /\ stage = "def" /\ Current.def
    /\ IF 1 \in ReadIndexes(Current) THEN UNCHANGED regs
       ELSE /\ where[Current.ops[1]] # NoReg
            /\ regs' = [regs EXCEPT ![1] = where[Current.ops[1]]]
    /\ stage' = "emit"
    /\ UNCHANGED <<prog, code, machine, block, index, operand, where, pinned,
                   out, usedCsrs>>

DefAllocated ==
    /\ stage = "def" /\ Current.def
    /\ 1 \notin ReadIndexes(Current) /\ where[Current.ops[1]] = NoReg
    /\ Allocate(Current.ops[1], FALSE)
    /\ stage' = "emit"
    /\ UNCHANGED <<prog, code, machine, block, index, operand>>

\* Operand 0 is a physical register, or nothing is defined.
DefPhysical ==
    /\ stage = "def" /\ ~Current.def
    /\ out' = out \o Spills(Current.phys)
    /\ where' = Without(where, UNION {Holder(r) : r \in Current.phys})
    /\ stage' = "emit"
    /\ UNCHANGED <<prog, code, machine, block, index, operand, pinned, regs,
                   usedCsrs>>

-----------------------------------------------------------------------------
Mentions(i) == {i.ops[k] : k \in DOMAIN i.ops}

\* The virtual registers whose last_use is this instruction.
EndingHere ==
    {v \in Mentions(Current) :
        \A k \in index + 1 .. Len(prog.blocks[block]) :
            v \notin Mentions(prog.blocks[block][k])}

Emitted == out \o <<Inst(Current, regs)>>

StartInst(b, k) ==
    /\ stage' = "operands" /\ operand' = 1
    /\ pinned' = prog.blocks[b][k].phys
    /\ regs' = [n \in DOMAIN prog.blocks[b][k].ops |-> NoReg]
    /\ block' = b /\ index' = k

EmitInst ==
    /\ stage = "emit" /\ index < Len(prog.blocks[block])
    /\ out' = Emitted
    /\ where' = Without(where, EndingHere)
    /\ StartInst(block, index + 1)
    /\ UNCHANGED <<prog, code, machine, usedCsrs>>

\* The last instruction of a block: block.insts = out, and a new AllocState.
EmitBlock ==
    /\ stage = "emit" /\ index = Len(prog.blocks[block])
    /\ code' = Append(code, Emitted)
    /\ out' = <<>>
    /\ where' = [v \in Vregs |-> NoReg]
    /\ IF block < Len(prog.blocks)
       THEN StartInst(block + 1, 1) /\ UNCHANGED at
       ELSE /\ stage' = "done" /\ at' = <<1, 1>>
            /\ UNCHANGED <<block, index, operand, pinned, regs>>
    /\ UNCHANGED <<prog, holds, defined, usedCsrs>>

FastRun == Execute /\ UNCHANGED <<position, state>>

-----------------------------------------------------------------------------
\* The function is one that keeps instruction selection's promises (see Mir).
FastInit ==
    /\ prog \in {p \in FastPrograms : AcceptedFast(p)}
    /\ code = <<>>
    /\ MachineInit
    /\ block = 1 /\ index = 1 /\ stage = "operands" /\ operand = 1
    /\ where = [v \in Vregs |-> NoReg]
    /\ pinned = prog.blocks[1][1].phys
    /\ regs = [n \in DOMAIN prog.blocks[1][1].ops |-> NoReg]
    /\ out = <<>> /\ usedCsrs = {}

Operands == SkipOperand \/ FoundOperand \/ ReloadOperand \/ OperandsDone

Definition == DefInPlace \/ DefAllocated \/ DefPhysical

FastNext == Operands \/ CallSpills \/ Definition \/ EmitInst \/ EmitBlock \/ FastRun

FastSpec == FastInit /\ [][FastNext]_fastVars
=============================================================================
