--------------------------- MODULE BackendProofs ---------------------------
(***************************************************************************)
(* Three proofs about the native backend.                                  *)
(*                                                                         *)
(* Linear scan, for every function, register file and pools: it never      *)
(* gives two overlapping intervals one register, and keeps what crosses a  *)
(* call in registers calls preserve.  The proof needs what reg_holder and  *)
(* active know about each other: the keys of reg_holder are exactly the    *)
(* registers of the active intervals, no two of which share one, and an    *)
(* assigned interval that is no longer active has ended before everything  *)
(* still to be scanned starts.                                             *)
(*                                                                         *)
(* And its code is right, whatever path the function takes: the operands   *)
(* of every instruction are the values they were before.  That takes the   *)
(* other half of the allocator: the live sets solve their equations, so an *)
(* interval covers every point where its register is live; the scratch     *)
(* registers of one instruction are distinct; and the rewritten block is   *)
(* its instructions in order, each between its reloads and its store.  The *)
(* invariant of the execution is that before every piece of the code what  *)
(* is live is in its register or slot.                                     *)
(*                                                                         *)
(* The fast allocator, for every function whose instructions have operands *)
(* for which there are registers: its code is right too.  No value enters  *)
(* a block, so the code emitted for it says by itself what every register  *)
(* and slot holds at each point, where it says anything.  The invariant    *)
(* has that knowledge at the end of the code emitted so far: what is alive *)
(* is where vreg_to_phys says, or in its slot; the operands found are in   *)
(* pinned registers; and nothing alive is left where a call, a definition  *)
(* or a register given by name destroys it.  An executed block agrees with *)
(* what its code says.                                                     *)
(*                                                                         *)
(* emit_parallel_copies, for every edge.  The invariant says what is true  *)
(* in the middle: a pending copy still finds in its source the value its   *)
(* argument had, a parameter that is not pending has its value already,    *)
(* and no temporary is read that was not made.                             *)
(***************************************************************************)
EXTENDS LinearScan, FastRegAlloc, ParallelCopy, FiniteSetTheorems, SequenceTheorems,
        WellFoundedInduction, TLAPS

-----------------------------------------------------------------------------
(* Least and Greatest.                                                     *)

\* A nonempty set of naturals has a least element.
LEMMA LeastOfNat ==
    ASSUME NEW S, S \subseteq Nat, S # {}
    PROVE  Least(S) \in S /\ \A y \in S : Least(S) <= y
<1>1. PICK x \in S : \A y \in S : ~(<<y, x>> \in OpToRel(<, Nat))
    BY NatLessThanWellFounded, WFMin
<1>2. \A y \in S : ~(y < x)
    BY <1>1 DEF OpToRel
<1>3. \A y \in S : x <= y
    BY <1>2
<1> QED
    BY <1>3 DEF Least

\* A nonempty set of naturals with an upper bound has a greatest element.
LEMMA GreatestOfNat ==
    ASSUME NEW S, S \subseteq Nat, S # {}, NEW n \in Nat, \A y \in S : y <= n
    PROVE  Greatest(S) \in S /\ \A y \in S : Greatest(S) >= y
<1> DEFINE T == {n - y : y \in S}
<1>1. T \subseteq Nat
  <2>1. \A y \in S : n - y \in Nat
      OBVIOUS
  <2> QED
      BY <2>1
<1>0. T # {}
    OBVIOUS
<1> HIDE DEF T
<1>2. Least(T) \in T /\ \A y \in T : Least(T) <= y
    BY <1>0, <1>1, LeastOfNat
<1>3. PICK x \in S : Least(T) = n - x
    BY <1>2 DEF T
<1>4. \A y \in S : n - y \in T
    BY DEF T
<1>5. \A y \in S : x >= y
    BY <1>2, <1>3, <1>4
<1> QED
    BY <1>5 DEF Greatest

\* try_pool finds a register of the pool that nobody holds, or none.
LEMMA TryPoolResult ==
    ASSUME NEW pool \in Seq(Regs), NEW taken, TryPool(pool, taken) # NoReg
    PROVE  TryPool(pool, taken) \in PoolRegs(pool) \ taken
<1> DEFINE free == {k \in DOMAIN pool : pool[k] \notin taken}
<1>1. free \subseteq Nat
    OBVIOUS
<1>2. free # {}
    BY DEF TryPool
<1>3. Least(free) \in free
    BY <1>1, <1>2, LeastOfNat
<1>4. TryPool(pool, taken) = pool[Least(free)]
    BY <1>2 DEF TryPool
<1> QED
    BY <1>3, <1>4 DEF PoolRegs

-----------------------------------------------------------------------------
(* Positions and intervals.                                                *)

\* The number of instructions before a block is a natural number.
LEMMA FirstInNat ==
    ASSUME prog \in Programs, NEW b \in 1 .. Len(prog.blocks) + 1
    PROVE  /\ IsFiniteSet(Preceding(b))
           /\ First(b) \in Nat
           /\ First(b) <= First(Len(prog.blocks) + 1)
<1> DEFINE Of(c) == {<<c, k>> : k \in 1 .. Len(prog.blocks[c])}
           All(d) == {Of(c) : c \in 1 .. d - 1}
           n == Len(prog.blocks)
<1>1. n \in Nat /\ \A c \in 1 .. n : Len(prog.blocks[c]) \in Nat
    BY LinearScanAssumption DEF Blocks
<1>2. \A c \in 1 .. n : IsFiniteSet(Of(c))
  <2> SUFFICES ASSUME NEW c \in 1 .. n PROVE IsFiniteSet(Of(c))
      OBVIOUS
  <2>0. Len(prog.blocks[c]) \in Int /\ 1 \in Int
      BY <1>1
  <2>1. IsFiniteSet(1 .. Len(prog.blocks[c]))
      BY <2>0, FS_Interval
  <2> DEFINE f == [k \in 1 .. Len(prog.blocks[c]) |-> <<c, k>>]
  <2>3. f \in Surjection(1 .. Len(prog.blocks[c]), Of(c))
      BY DEF Surjection
  <2> QED
      BY <2>1, <2>3, FS_Surjection
<1>3. \A d \in 1 .. n + 1 : IsFiniteSet(UNION All(d))
  <2> SUFFICES ASSUME NEW d \in 1 .. n + 1 PROVE IsFiniteSet(UNION All(d))
      OBVIOUS
  <2>1. IsFiniteSet(1 .. d - 1)
      BY <1>1, FS_Interval
  <2> DEFINE f == [c \in 1 .. d - 1 |-> Of(c)]
  <2>2. f \in Surjection(1 .. d - 1, All(d))
      BY DEF Surjection
  <2>3. IsFiniteSet(All(d))
      BY <2>1, <2>2, FS_Surjection
  <2>4. \A c \in 1 .. d - 1 : c \in 1 .. n
      BY <1>1
  <2>5. \A T \in All(d) : IsFiniteSet(T)
    <3> SUFFICES ASSUME NEW c \in 1 .. d - 1 PROVE IsFiniteSet(Of(c))
        OBVIOUS
    <3> QED
        BY <1>2, <2>4
  <2> QED
      BY <2>3, <2>5, FS_UNION
<1>4. \A d : Preceding(d) = UNION All(d)
    BY DEF Preceding
<1>5. Preceding(b) \subseteq Preceding(n + 1)
    BY <1>1 DEF Preceding
<1>7. n + 1 \in 1 .. n + 1 /\ b \in 1 .. n + 1
    BY <1>1
<1> HIDE DEF All
<1>6. IsFiniteSet(Preceding(b)) /\ IsFiniteSet(Preceding(n + 1))
  <2>1. IsFiniteSet(UNION All(b)) /\ IsFiniteSet(UNION All(n + 1))
      BY <1>3, <1>7
  <2> QED
      BY <2>1, <1>4
<1> HIDE DEF n
<1> QED
    BY <1>5, <1>6, FS_CardinalityType, FS_Subset DEF First, n

\* The k-th instruction of a block has no more instructions before it than
\* the function has.
LEMMA PositionBounded ==
    ASSUME prog \in Programs, NEW b \in Blocks(prog),
           NEW k \in 1 .. Len(prog.blocks[b])
    PROVE  First(b) + k <= First(Len(prog.blocks) + 1)
<1> DEFINE n == Len(prog.blocks)
           K == {<<b, j>> : j \in 1 .. k}
           f == [j \in 1 .. k |-> <<b, j>>]
<1>1. n \in Nat /\ b \in 1 .. n /\ Len(prog.blocks[b]) \in Nat
    BY LinearScanAssumption DEF Blocks
<1>2. IsFiniteSet(1 .. k) /\ Cardinality(1 .. k) = k
  <2>1. k \in Int /\ 1 \in Int /\ ~(1 > k) /\ k - 1 + 1 = k
      BY <1>1
  <2> QED
      BY <2>1, FS_Interval
<1>3. IsFiniteSet(K) /\ Cardinality(K) = k
  <2>1. f \in [1 .. k -> K] /\ \A t \in K : \E j \in 1 .. k : f[j] = t
      OBVIOUS
  <2>2. \A i, j \in 1 .. k : f[i] = f[j] => i = j
      OBVIOUS
  <2> HIDE DEF f, K
  <2>3. f \in Bijection(1 .. k, K)
      BY <2>1, <2>2 DEF Bijection, Injection, Surjection, IsInjective
  <2>4. ExistsBijection(1 .. k, K)
      BY <2>3 DEF ExistsBijection
  <2> QED
      BY <2>4, <1>2, FS_Bijection
<1>4. K \cap Preceding(b) = {}
    BY <1>1 DEF Preceding
<1>5. K \cup Preceding(b) \subseteq Preceding(n + 1)
  <2>1. 1 .. b - 1 \subseteq 1 .. n + 1 - 1 /\ b \in 1 .. n + 1 - 1
      BY <1>1
  <2>2. Preceding(b) \subseteq Preceding(n + 1)
      BY <2>1 DEF Preceding
  <2>3. \A j \in 1 .. k : j \in 1 .. Len(prog.blocks[b])
      BY <1>1
  <2>4. K \subseteq Preceding(n + 1)
      BY <2>1, <2>3 DEF Preceding
  <2> QED
      BY <2>2, <2>4
<1>6. b \in 1 .. n + 1 /\ n + 1 \in 1 .. n + 1
    BY <1>1
<1>7. IsFiniteSet(Preceding(b)) /\ IsFiniteSet(Preceding(n + 1)) /\ First(b) \in Nat
    BY <1>6, FirstInNat
<1> HIDE DEF K, n
<1>8. Cardinality(K \cup Preceding(b)) = k + First(b) - Cardinality({})
    BY <1>3, <1>4, <1>7, FS_Union DEF First
<1>9. Cardinality(K \cup Preceding(b)) <= First(n + 1)
    BY <1>5, <1>7, FS_Subset DEF First
<1> QED
    BY <1>8, <1>9, <1>7, FS_EmptySet DEF n

\* Every extent of a register is a pair of positions of the function.
LEMMA ExtentsBounded ==
    ASSUME prog \in Programs, NEW v, NEW x \in Extents(v)
    PROVE  /\ x[1] \in Nat /\ x[2] \in Nat
           /\ x[2] <= First(Len(prog.blocks) + 1) + 1
<1> DEFINE n == Len(prog.blocks)
<1>1. n \in Nat /\ \A b \in Blocks(prog) : Len(prog.blocks[b]) \in Nat
    BY LinearScanAssumption
<1>2. PICK b \in Blocks(prog) :
        \/ x = <<First(b), First(b) + 1>>
        \/ x = <<IF First(b + 1) > 0 THEN First(b + 1) - 1 ELSE 0, First(b + 1)>>
        \/ \E k \in 1 .. Len(prog.blocks[b]) : x = <<First(b) + k - 1, First(b) + k>>
    BY DEF Extents
<1>3. b \in 1 .. n + 1 /\ b + 1 \in 1 .. n + 1 /\ n + 1 \in 1 .. n + 1
    BY <1>1 DEF Blocks
<1>4. First(b) \in Nat /\ First(b + 1) \in Nat /\ First(n + 1) \in Nat
    BY <1>3, FirstInNat
<1>5. First(b) <= First(n + 1) /\ First(b + 1) <= First(n + 1)
    BY <1>3, FirstInNat
<1>6. CASE x = <<First(b), First(b) + 1>>
    BY <1>4, <1>5, <1>6
<1>7. CASE x = <<IF First(b + 1) > 0 THEN First(b + 1) - 1 ELSE 0, First(b + 1)>>
    BY <1>4, <1>5, <1>7
<1>8. ASSUME NEW k \in 1 .. Len(prog.blocks[b]),
             x = <<First(b) + k - 1, First(b) + k>>
      PROVE  x[1] \in Nat /\ x[2] \in Nat /\ x[2] <= First(n + 1) + 1
  <2>1. First(b) + k <= First(n + 1)
      BY PositionBounded
  <2>2. k \in Nat /\ k >= 1
      BY <1>1
  <2> QED
      BY <1>4, <1>8, <2>1, <2>2
<1> QED
    BY <1>2, <1>6, <1>7, <1>8

\* Intervals have natural numbers for ends.
LEMMA IntervalType ==
    ASSUME prog \in Programs, NEW v, Extents(v) # {}
    PROVE  Interval(v) \in [start : Nat, end : Nat, crosses : BOOLEAN]
<1> DEFINE starts == {x[1] : x \in Extents(v)}
           ends == {x[2] : x \in Extents(v)}
           bound == First(Len(prog.blocks) + 1) + 1
<1>1. starts \subseteq Nat /\ starts # {} /\ ends \subseteq Nat /\ ends # {}
    BY ExtentsBounded
<1>2. Len(prog.blocks) \in Nat
    BY LinearScanAssumption
<1>3. bound \in Nat
  <2>1. Len(prog.blocks) + 1 \in 1 .. Len(prog.blocks) + 1
      BY <1>2
  <2>2. First(Len(prog.blocks) + 1) \in Nat
      BY <2>1, FirstInNat
  <2> QED
      BY <2>2
<1>4. \A y \in ends : y <= bound
    BY ExtentsBounded
<1>5. Interval(v) = [start |-> Least(starts), end |-> Greatest(ends),
                     crosses |-> Crosses(Least(starts), Greatest(ends))]
    BY DEF Interval
<1>6. Crosses(Least(starts), Greatest(ends)) \in BOOLEAN
    BY DEF Crosses
<1> HIDE DEF starts, ends, bound
<1>7. Least(starts) \in Nat
    BY <1>1, LeastOfNat
<1>8. Greatest(ends) \in Nat
    BY <1>1, <1>3, <1>4, GreatestOfNat
<1> QED
    BY <1>5, <1>6, <1>7, <1>8

-----------------------------------------------------------------------------
(* The inductive invariant.                                                *)

\* What the scan knows: who holds which register, and that what it has let go
\* of ended before everything to come.
Bookkeeping ==
    /\ prog \in Programs
    /\ phase \in {"liveness", "intervals"} =>
          todo = {} /\ active = {} /\ assigned = [v \in Vregs |-> NoReg]
    /\ active \cap todo = {}
    /\ held = {assigned[a] : a \in active}
    /\ \A a \in active : assigned[a] # NoReg
    /\ \A a, b \in active : assigned[a] = assigned[b] => a = b
    /\ \A u \in todo : assigned[u] = NoReg
    /\ \A u \in Vregs \ active : assigned[u] # NoReg =>
          \A w \in todo : iv[u].end <= iv[w].start

IInv == TypeOK /\ Bookkeeping /\ NoSharing /\ KeptAcrossCalls

\* The invariant holds initially.
LEMMA IInvInit == Init => IInv
<1> SUFFICES ASSUME Init PROVE IInv
    OBVIOUS
<1>1. TypeOK
    BY DEF Init, TypeOK, NoInterval
<1>2. Bookkeeping
    BY DEF Init, Bookkeeping
<1>3. NoSharing /\ KeptAcrossCalls
    BY DEF Init, NoSharing, KeptAcrossCalls
<1> QED
    BY <1>1, <1>2, <1>3 DEF IInv

\* The candidates of an interval are registers, and those of one that
\* crosses a call are callee-saved.
LEMMA CandidatesType ==
    ASSUME IInv, NEW v \in Vregs
    PROVE  /\ Candidates(v) \in Seq(Regs)
           /\ iv[v].crosses => PoolRegs(Candidates(v)) \subseteq CalleeSaved
<1>1. Bank(prog.cls[v]) \in Banks
    BY DEF Bank, Banks
<1>2. /\ CallerPool[Bank(prog.cls[v])] \in Seq(Regs)
      /\ CalleePool[Bank(prog.cls[v])] \in Seq(Regs)
      /\ PoolRegs(CalleePool[Bank(prog.cls[v])]) \subseteq CalleeSaved
    BY <1>1, LinearScanAssumption
<1>3. Callees(v) \in Seq(Regs) /\ PoolRegs(Callees(v)) \subseteq CalleeSaved
    BY <1>2 DEF Callees, PoolRegs
<1> QED
    BY <1>2, <1>3 DEF Candidates

\* Scanning one interval.
LEMMA ScanIntervalIInv ==
    ASSUME IInv, NEW v \in Vregs, ScanInterval(v)
    PROVE  IInv'
<1> DEFINE left == held \ {assigned[a] : a \in Expired(v)}
           reg == TryPool(Candidates(v), left)
           kept == active \ Expired(v)
<1>1. /\ phase = "scan" /\ phase' = phase /\ prog' = prog /\ iv' = iv
      /\ v \in todo /\ todo' = todo \ {v}
      /\ \A u \in todo : Before(v, u)
      /\ assigned' = [assigned EXCEPT ![v] = reg]
      /\ held' = IF reg = NoReg THEN left ELSE left \cup {reg}
      /\ active' = IF reg = NoReg THEN kept ELSE kept \cup {v}
    BY DEF ScanInterval
<1>2. /\ TypeOK /\ Bookkeeping /\ NoSharing /\ KeptAcrossCalls
    BY DEF IInv
<1>3. reg # NoReg => reg \in Regs /\ reg \notin left
  <2>1. Candidates(v) \in Seq(Regs)
      BY CandidatesType
  <2>2. reg # NoReg => reg \in PoolRegs(Candidates(v)) \ left
      BY <2>1, TryPoolResult
  <2>3. PoolRegs(Candidates(v)) \subseteq Regs
      BY <2>1 DEF PoolRegs
  <2> QED
      BY <2>2, <2>3
<1>4. reg # NoReg /\ iv[v].crosses => reg \in CalleeSaved
    BY CandidatesType, TryPoolResult
<1>5. Expired(v) = {a \in active : iv[a].end <= iv[v].start}
    BY DEF Expired
<1>6. \A u \in todo : iv[v].start <= iv[u].start
    BY <1>1, <1>2 DEF Before, TypeOK
<1>7. left = {assigned[a] : a \in kept}
    BY <1>2, <1>5 DEF Bookkeeping
<1>8. v \notin active /\ assigned[v] = NoReg
    BY <1>1, <1>2 DEF Bookkeeping
<1> HIDE DEF left, reg
<1>9. TypeOK'
  <2>1. assigned' \in [Vregs -> Regs \cup {NoReg}] /\ active' \subseteq Vregs
      BY <1>1, <1>2, <1>3 DEF TypeOK
  <2>2. left \subseteq Regs
      BY <1>2 DEF left, TypeOK
  <2>3. held' \subseteq Regs
      BY <2>2, <1>1, <1>3
  <2> QED
      BY <2>1, <2>3, <1>1, <1>2 DEF TypeOK
<1>10. \A u \in Vregs : u # v => assigned'[u] = assigned[u]
    BY <1>1, <1>2 DEF TypeOK
<1>11. assigned'[v] = reg
    BY <1>1, <1>2 DEF TypeOK
<1>12. \A a \in kept : assigned'[a] = assigned[a] /\ a # v
    BY <1>8, <1>10, <1>2 DEF TypeOK
<1>13. held' = {assigned'[a] : a \in active'}
    BY <1>1, <1>7, <1>11, <1>12
<1>14. \A a \in active' : assigned'[a] # NoReg
    BY <1>1, <1>2, <1>11, <1>12 DEF Bookkeeping
<1>15. \A a, b \in active' : assigned'[a] = assigned'[b] => a = b
    BY <1>1, <1>2, <1>3, <1>7, <1>11, <1>12 DEF Bookkeeping
<1>16. \A u \in todo' : assigned'[u] = NoReg
    BY <1>1, <1>2, <1>10 DEF Bookkeeping, TypeOK
<1>17. ASSUME NEW u \in Vregs \ active', assigned'[u] # NoReg, NEW w \in todo'
       PROVE  iv[u].end <= iv[w].start
  <2>1. u # v
      BY <1>1, <1>11, <1>17
  <2>2. assigned[u] # NoReg
      BY <2>1, <1>10, <1>17
  <2>3. w \in todo /\ w \in Vregs
      BY <1>1, <1>2 DEF TypeOK
  <2>4. CASE u \in active
    <3>1. iv[u].end <= iv[v].start
        BY <2>4, <1>1, <1>5
    <3> QED
        BY <3>1, <1>6, <2>3, <1>2 DEF TypeOK
  <2>5. CASE u \notin active
      BY <2>5, <2>2, <2>3, <1>2 DEF Bookkeeping
  <2> QED
      BY <2>4, <2>5
<1>18. active' \cap todo' = {}
    BY <1>1, <1>2 DEF Bookkeeping
<1>19. Bookkeeping'
    BY <1>1, <1>2, <1>13, <1>14, <1>15, <1>16, <1>17, <1>18 DEF Bookkeeping
<1>20. ASSUME NEW u \in Vregs, u # v, assigned[u] # NoReg, assigned[u] = reg
       PROVE  iv[u].end <= iv[v].start
  <2>1. CASE u \in kept
      BY <2>1, <1>3, <1>7, <1>20
  <2>2. CASE u \in Expired(v)
      BY <2>2, <1>5
  <2>3. CASE u \notin active
      BY <2>3, <1>1, <1>2, <1>20 DEF Bookkeeping
  <2> QED
      BY <2>1, <2>2, <2>3
<1>21. NoSharing'
    BY <1>1, <1>2, <1>10, <1>11, <1>20 DEF NoSharing
<1>22. KeptAcrossCalls'
    BY <1>1, <1>2, <1>4, <1>10, <1>11 DEF KeptAcrossCalls
<1> QED
    BY <1>9, <1>19, <1>21, <1>22 DEF IInv

\* Building the intervals.
LEMMA BuildIntervalsIInv ==
    ASSUME IInv, BuildIntervals
    PROVE  IInv'
<1>1. /\ phase = "intervals" /\ phase' = "scan" /\ prog' = prog
      /\ iv' = [v \in Vregs |-> IF Extents(v) = {} THEN NoInterval ELSE Interval(v)]
      /\ todo' = {v \in Vregs : Extents(v) # {}}
      /\ active' = active /\ held' = held /\ assigned' = assigned
    BY DEF BuildIntervals
<1>2. /\ TypeOK /\ prog \in Programs /\ active = {}
      /\ assigned = [v \in Vregs |-> NoReg] /\ held = {assigned[a] : a \in active}
    BY <1>1 DEF IInv, Bookkeeping
<1>3. \A v \in Vregs : (IF Extents(v) = {} THEN NoInterval ELSE Interval(v))
                         \in [start : Nat, end : Nat, crosses : BOOLEAN]
    BY <1>2, IntervalType DEF NoInterval
<1>4. TypeOK'
    BY <1>1, <1>2, <1>3 DEF TypeOK
<1>5. Bookkeeping'
    BY <1>1, <1>2 DEF Bookkeeping
<1>6. NoSharing' /\ KeptAcrossCalls'
    BY <1>1, <1>2 DEF NoSharing, KeptAcrossCalls
<1> QED
    BY <1>4, <1>5, <1>6 DEF IInv

\* The steps that leave the scan's state alone.
LEMMA OtherIInv ==
    ASSUME IInv, UNCHANGED <<prog, iv, todo, active, held, assigned>>,
           phase' \in {"liveness", "intervals"} => phase \in {"liveness", "intervals"}
    PROVE  IInv'
<1>1. TypeOK' /\ NoSharing' /\ KeptAcrossCalls'
    BY DEF IInv, TypeOK, NoSharing, KeptAcrossCalls
<1>2. Bookkeeping'
    BY DEF IInv, Bookkeeping
<1> QED
    BY <1>1, <1>2 DEF IInv

\* Every step preserves the invariant.
LEMMA IInvNext == IInv /\ [Next]_vars => IInv'
<1> SUFFICES ASSUME IInv, [Next]_vars PROVE IInv'
    OBVIOUS
<1> USE DEF scanning, machine, flow
<1>1. CASE LiveBlock
    BY <1>1, OtherIInv DEF LiveBlock
<1>2. CASE LivePass
    BY <1>2, OtherIInv DEF LivePass
<1>3. CASE BuildIntervals
    BY <1>3, BuildIntervalsIInv
<1>4. ASSUME NEW v \in Vregs, ScanInterval(v) PROVE IInv'
    BY <1>4, ScanIntervalIInv
<1>5. CASE ScanDone
    BY <1>5, OtherIInv DEF ScanDone
<1>6. CASE Rewrite
    BY <1>6, OtherIInv DEF Rewrite
<1>7. CASE Run
    BY <1>7, OtherIInv DEF Run, Execute, ExecuteMove, ExecuteInst, Branch
<1>8. CASE UNCHANGED vars
    BY <1>8, OtherIInv DEF vars
<1> QED
    BY <1>1, <1>2, <1>3, <1>4, <1>5, <1>6, <1>7, <1>8 DEF Next

-----------------------------------------------------------------------------
\* Type correctness of the allocator for every function and register file: in
\* particular reg_holder never holds anything but registers, and intervals
\* have natural ends.
THEOREM TypeCorrect == Spec => []TypeOK
<1>1. IInv => TypeOK
    BY DEF IInv
<1> QED
    BY IInvInit, IInvNext, <1>1, PTL DEF Spec

\* The scan (the loop over order in LinearScanAllocator::run) never gives two
\* overlapping intervals the same physical register.
THEOREM OverlappingApart == Spec => []NoSharing
<1>1. IInv => NoSharing
    BY DEF IInv
<1> QED
    BY IInvInit, IInvNext, <1>1, PTL DEF Spec

\* What extends over a call is spilled or in a callee-saved register.
THEOREM CallsPreserve == Spec => []KeptAcrossCalls
<1>1. IInv => KeptAcrossCalls
    BY DEF IInv
<1> QED
    BY IInvInit, IInvNext, <1>1, PTL DEF Spec

-----------------------------------------------------------------------------
(* Where the parts of a flattened sequence are.                            *)

\* f[i] is the concatenation of the first i sequences of s.
Chain(f, s, n) == f = [i \in 1 .. n |-> IF i = 1 THEN s[i] ELSE f[i - 1] \o s[i]]

\* The concatenations exist.
LEMMA ChainExists ==
    ASSUME NEW s, NEW n \in Nat
    PROVE  \E f : Chain(f, s, n)
<1> DEFINE Bad == {k \in Nat : k <= n /\ ~\E f : Chain(f, s, k)}
<1>1. Bad = {}
  <2> SUFFICES ASSUME Bad # {} PROVE FALSE
      OBVIOUS
  <2>0. Bad \subseteq Nat
      OBVIOUS
  <2> DEFINE k == Least(Bad)
  <2>1. k \in Bad /\ \A l \in Bad : k <= l
      BY <2>0, LeastOfNat
  <2> HIDE DEF k
  <2>2. k # 0
    <3>1. Chain([i \in 1 .. 0 |-> s], s, 0)
        BY DEF Chain
    <3> QED
        BY <3>1, <2>1
  <2>3. k \in Nat /\ k - 1 \in Nat /\ k - 1 <= n /\ ~(k <= k - 1)
      BY <2>1, <2>2
  <2>4. PICK f : Chain(f, s, k - 1)
      BY <2>1, <2>3
  <2> DEFINE e == IF k = 1 THEN s[k] ELSE f[k - 1] \o s[k]
             g == [i \in 1 .. k |-> IF i = k THEN e ELSE f[i]]
  <2>5. ASSUME NEW i \in 1 .. k
        PROVE  g[i] = IF i = 1 THEN s[i] ELSE g[i - 1] \o s[i]
    <3>1. i # 1 => g[i - 1] = f[i - 1]
        BY <2>3
    <3>2. CASE i = k
        BY <3>1, <3>2
    <3>3. CASE i # k
      <4>1. i \in 1 .. k - 1 /\ g[i] = f[i]
          BY <3>3, <2>3
      <4>2. f[i] = IF i = 1 THEN s[i] ELSE f[i - 1] \o s[i]
          BY <2>4, <4>1 DEF Chain
      <4> HIDE DEF g
      <4> QED
          BY <3>1, <4>1, <4>2
    <3> QED
        BY <3>2, <3>3
  <2>6. g = [i \in 1 .. k |-> IF i = 1 THEN s[i] ELSE g[i - 1] \o s[i]]
      BY <2>5
  <2>7. Chain(g, s, k)
      BY <2>6 DEF Chain
  <2> QED
      BY <2>1, <2>7
<1> QED
    BY <1>1

\* The parts of s lie in t one after the other, part k after f[k - 1] elements.
Layout(f, s, t) ==
    /\ f \in [0 .. Len(s) -> Nat]
    /\ f[0] = 0 /\ f[Len(s)] = Len(t)
    /\ \A k \in 1 .. Len(s) :
          /\ f[k] = f[k - 1] + Len(s[k])
          /\ \A o \in 1 .. Len(s[k]) :
                f[k - 1] + o \in 1 .. Len(t) /\ t[f[k - 1] + o] = s[k][o]
    /\ \A x \in 1 .. Len(t) : \E k \in 1 .. Len(s) : \E o \in 1 .. Len(s[k]) :
          x = f[k - 1] + o

\* FlattenSeq lays the parts out one after the other.
LEMMA Flattened ==
    ASSUME NEW S, NEW s \in Seq(Seq(S))
    PROVE  FlattenSeq(s) \in Seq(S) /\ \E f : Layout(f, s, FlattenSeq(s))
<1>0. Len(s) \in Nat /\ \A k \in 1 .. Len(s) : s[k] \in Seq(S) /\ Len(s[k]) \in Nat
    OBVIOUS
<1>1. CASE Len(s) = 0
  <2>1. s = <<>>
      BY <1>1
  <2>2. FlattenSeq(s) = <<>>
      BY <2>1 DEF FlattenSeq
  <2>3. Layout([i \in 0 .. 0 |-> 0], s, <<>>)
      BY <2>1 DEF Layout
  <2> QED
      BY <2>2, <2>3
<1>2. CASE Len(s) # 0
  <2> DEFINE n == Len(s)
             c == CHOOSE f : f = [i \in 1 .. n |->
                                     IF i = 1 THEN s[i] ELSE f[i - 1] \o s[i]]
  <2>1. Chain(c, s, n)
    <3>1. \E f : Chain(f, s, n)
        BY <1>0, ChainExists
    <3> QED
        BY <3>1 DEF Chain
  <2>2. FlattenSeq(s) = c[n]
      BY <1>2 DEF FlattenSeq
  <2> HIDE DEF c
  <2>n. n \in Nat /\ n # 0
      BY <1>0, <1>2
  <2>p. \A k \in 1 .. n : s[k] \in Seq(S) /\ Len(s[k]) \in Nat
      BY <1>0
  <2> HIDE DEF n
  <2>3. \A i \in 1 .. n : c[i] = IF i = 1 THEN s[i] ELSE c[i - 1] \o s[i]
      BY <2>1 DEF Chain
  <2> DEFINE f == [i \in 0 .. n |-> IF i = 0 THEN 0 ELSE Len(c[i])]
  <2>4. f[0] = 0 /\ \A k \in 1 .. n : f[k] = Len(c[k])
      BY <2>n
  <2> HIDE DEF f
  <2> DEFINE Done(i) ==
               /\ c[i] \in Seq(S)
               /\ Len(c[i]) = f[i - 1] + Len(s[i])
               /\ \A k \in 1 .. i : \A o \in 1 .. Len(s[k]) :
                     f[k - 1] + o \in 1 .. Len(c[i]) /\ c[i][f[k - 1] + o] = s[k][o]
               /\ \A x \in 1 .. Len(c[i]) : \E k \in 1 .. i : \E o \in 1 .. Len(s[k]) :
                     x = f[k - 1] + o
             Bad == {i \in Nat : i \in 1 .. n /\ ~Done(i)}
  <2>5. Bad = {}
    <3> SUFFICES ASSUME Bad # {} PROVE FALSE
        OBVIOUS
    <3>0. Bad \subseteq Nat
        OBVIOUS
    <3> DEFINE i == Least(Bad)
    <3>1. i \in Bad /\ \A l \in Bad : i <= l
      <4> HIDE DEF Bad
      <4> QED
          BY <3>0, LeastOfNat
    <3> HIDE DEF i, Done
    <3>2. i \in 1 .. n /\ ~Done(i) /\ i \in Nat
        BY <3>1
    <3>3. i # 1
      <4> SUFFICES ASSUME i = 1 PROVE FALSE
          OBVIOUS
      <4>1. c[i] = s[i] /\ s[i] \in Seq(S) /\ Len(s[i]) \in Nat
          BY <2>3, <2>p, <3>2
      <4>2. \A o \in 1 .. Len(s[i]) : 0 + o = o
          BY <4>1
      <4>3. f[i - 1] = 0
          BY <2>4
      <4>4. \A k \in 1 .. i : k = i
          OBVIOUS
      <4>5. \A k \in 1 .. i : \A o \in 1 .. Len(s[k]) :
                f[k - 1] + o \in 1 .. Len(c[i]) /\ c[i][f[k - 1] + o] = s[k][o]
        <5> SUFFICES ASSUME NEW k \in 1 .. i, NEW o \in 1 .. Len(s[k])
                     PROVE  f[k - 1] + o \in 1 .. Len(c[i]) /\ c[i][f[k - 1] + o] = s[k][o]
            OBVIOUS
        <5>1. k = i
            BY <4>4
        <5>2. o \in 1 .. Len(s[i]) /\ f[k - 1] + o = o
            BY <5>1, <4>1, <4>3
        <5> QED
            BY <5>1, <5>2, <4>1
      <4>6. \A x \in 1 .. Len(c[i]) : \E k \in 1 .. i : \E o \in 1 .. Len(s[k]) :
                x = f[k - 1] + o
        <5> SUFFICES ASSUME NEW x \in 1 .. Len(c[i])
                     PROVE  \E o \in 1 .. Len(s[i]) : x = f[i - 1] + o
            OBVIOUS
        <5>1. x \in 1 .. Len(s[i]) /\ x = f[i - 1] + x
            BY <4>1, <4>3
        <5> QED
            BY <5>1
      <4>7. Done(i)
          BY <4>1, <4>3, <4>5, <4>6 DEF Done
      <4> QED
          BY <4>7, <3>2
    <3>4. i - 1 \in 1 .. n /\ i - 1 \in Nat /\ ~(i <= i - 1) /\ i - 1 # 0 /\ i # 0
        BY <3>2, <3>3, <2>n
    <3>5. Done(i - 1)
        BY <3>1, <3>4
    <3>50. /\ c[i - 1] \in Seq(S)
           /\ \A k \in 1 .. i - 1 : \A o \in 1 .. Len(s[k]) :
                 /\ f[k - 1] + o \in 1 .. Len(c[i - 1])
                 /\ c[i - 1][f[k - 1] + o] = s[k][o]
           /\ \A x \in 1 .. Len(c[i - 1]) : \E k \in 1 .. i - 1 :
                 \E o \in 1 .. Len(s[k]) : x = f[k - 1] + o
        BY <3>5 DEF Done
    <3>6. /\ c[i] = c[i - 1] \o s[i] /\ s[i] \in Seq(S)
          /\ Len(c[i - 1]) \in Nat /\ Len(s[i]) \in Nat
      <4>1. c[i] = c[i - 1] \o s[i]
          BY <2>3, <3>2, <3>3
      <4>2. s[i] \in Seq(S) /\ Len(s[i]) \in Nat
          BY <2>p, <3>2
      <4>3. c[i - 1] \in Seq(S)
          BY <3>50
      <4>4. Len(c[i - 1]) \in Nat
          BY <4>3
      <4> QED
          BY <4>1, <4>2, <4>4
    <3>7. /\ c[i] \in Seq(S) /\ Len(c[i]) = Len(c[i - 1]) + Len(s[i])
          /\ \A x \in 1 .. Len(c[i - 1]) + Len(s[i]) : c[i][x] =
                IF x <= Len(c[i - 1]) THEN c[i - 1][x] ELSE s[i][x - Len(c[i - 1])]
      <4>1. /\ c[i - 1] \o s[i] \in Seq(S) /\ Len(c[i - 1] \o s[i]) = Len(c[i - 1]) + Len(s[i])
            /\ \A x \in 1 .. Len(c[i - 1]) + Len(s[i]) : (c[i - 1] \o s[i])[x] =
                IF x <= Len(c[i - 1]) THEN c[i - 1][x] ELSE s[i][x - Len(c[i - 1])]
          BY <3>6, <3>50, ConcatProperties
      <4> QED
          BY <4>1, <3>6
    <3>8. f[i - 1] = Len(c[i - 1])
        BY <3>4, <2>4
    <3> DEFINE l == Len(c[i - 1])
               m == Len(s[i])
    <3>81. l \in Nat /\ m \in Nat
        BY <3>6
    <3>82. /\ Len(c[i]) = l + m /\ l = Len(c[i - 1]) /\ m = Len(s[i])
           /\ \A x \in 1 .. l + m : c[i][x] = IF x <= l THEN c[i - 1][x] ELSE s[i][x - l]
        BY <3>7
    <3> HIDE DEF l, m
    <3>9. ASSUME NEW k \in 1 .. i, NEW o \in 1 .. Len(s[k])
          PROVE  f[k - 1] + o \in 1 .. Len(c[i]) /\ c[i][f[k - 1] + o] = s[k][o]
      <4> DEFINE x == f[k - 1] + o
      <4>1. CASE k = i
        <5>1. o \in 1 .. m
            BY <3>82, <4>1
        <5>2. x = l + o
            BY <3>8, <3>82, <4>1
        <5> HIDE DEF x
        <5>3. x \in 1 .. l + m /\ ~(x <= l) /\ x - l = o
            BY <5>1, <5>2, <3>81
        <5>4. x \in 1 .. Len(c[i]) /\ c[i][x] = s[k][o]
            BY <5>3, <3>82, <4>1
        <5> QED
            BY <5>4 DEF x
      <4>2. CASE k # i
        <5>1. k \in 1 .. i - 1
            BY <4>2, <3>2
        <5>3. x \in 1 .. Len(c[i - 1]) /\ c[i - 1][x] = s[k][o]
            BY <5>1, <3>50
        <5> HIDE DEF x
        <5>30. x \in 1 .. l
            BY <5>3, <3>82
        <5>4. x \in 1 .. l + m /\ x <= l
            BY <5>30, <3>81
        <5>5. x \in 1 .. Len(c[i]) /\ c[i][x] = s[k][o]
            BY <5>3, <5>4, <3>82
        <5> QED
            BY <5>5 DEF x
      <4> QED
          BY <4>1, <4>2
    <3>10. ASSUME NEW x \in 1 .. Len(c[i])
           PROVE  \E k \in 1 .. i : \E o \in 1 .. Len(s[k]) : x = f[k - 1] + o
      <4>0. x \in 1 .. l + m
          BY <3>82
      <4>1. CASE x <= l
        <5>0. x \in 1 .. l
            BY <4>0, <4>1, <3>81
        <5>1. x \in 1 .. Len(c[i - 1])
            BY <5>0, <3>82
        <5>2. PICK k \in 1 .. i - 1 : \E o \in 1 .. Len(s[k]) : x = f[k - 1] + o
            BY <5>1, <3>50
        <5>3. k \in 1 .. i
            BY <3>2
        <5> QED
            BY <5>2, <5>3
      <4>2. CASE ~(x <= l)
        <5>1. x - l \in 1 .. m /\ x = l + (x - l)
            BY <4>0, <4>2, <3>81
        <5>2. i \in 1 .. i
            BY <3>2
        <5> QED
            BY <5>1, <5>2, <3>8, <3>82
      <4> QED
          BY <4>1, <4>2
    <3>11. Done(i)
        BY <3>7, <3>8, <3>9, <3>10 DEF Done
    <3> QED
        BY <3>11, <3>2
  <2>6. \A i \in 1 .. n : Done(i)
    <3> HIDE DEF Done
    <3> QED
        BY <2>5
  <2>7. n \in 1 .. n /\ \A k \in 1 .. n : k \in Nat /\ k - 1 \in 0 .. n
      BY <2>n
  <2>8. f \in [0 .. n -> Nat]
    <3>1. \A i \in 1 .. n : Len(c[i]) \in Nat
      <4> SUFFICES ASSUME NEW i \in 1 .. n PROVE Len(c[i]) \in Nat
          OBVIOUS
      <4>1. c[i] \in Seq(S)
          BY <2>6
      <4> QED
          BY <4>1
    <3> HIDE DEF Done
    <3> QED
        BY <3>1, <2>n DEF f
  <2>9. c[n] \in Seq(S)
      BY <2>6, <2>7
  <2>10. \A k \in 1 .. n : f[k] = f[k - 1] + Len(s[k])
    <3> SUFFICES ASSUME NEW k \in 1 .. n PROVE f[k] = f[k - 1] + Len(s[k])
        OBVIOUS
    <3>1. Done(k)
        BY <2>6
    <3> QED
        BY <3>1, <2>4
  <2>11. /\ \A k \in 1 .. n : \A o \in 1 .. Len(s[k]) :
                f[k - 1] + o \in 1 .. Len(c[n]) /\ c[n][f[k - 1] + o] = s[k][o]
         /\ \A x \in 1 .. Len(c[n]) : \E k \in 1 .. n : \E o \in 1 .. Len(s[k]) :
                x = f[k - 1] + o
    <3>1. Done(n)
        BY <2>6, <2>7
    <3> QED
        BY <3>1
  <2> HIDE DEF Done
  <2>12. f[0] = 0 /\ f[n] = Len(c[n])
      BY <2>4, <2>7
  <2>13. Layout(f, s, c[n])
      BY <2>8, <2>10, <2>11, <2>12 DEF Layout, n
  <2> QED
      BY <2>2, <2>9, <2>13
<1> QED
    BY <1>1, <1>2

-----------------------------------------------------------------------------
(* Functions and instructions.                                             *)

\* The parts of a function.
LEMMA ProgramType ==
    ASSUME prog \in Programs
    PROVE  /\ Len(prog.blocks) \in Nat /\ 1 \in Blocks(prog)
           /\ prog.cls \in [Vregs -> {"gpr", "fpr", "fpr128"}]
           /\ \A b \in Blocks(prog) :
                 /\ b \in Nat /\ b >= 1
                 /\ prog.blocks[b] \in Seq(Instructions)
                 /\ Len(prog.blocks[b]) \in Nat
                 /\ DOMAIN prog.blocks[b] = 1 .. Len(prog.blocks[b])
                 /\ \A k \in 1 .. Len(prog.blocks[b]) : prog.blocks[b][k] \in Instructions
<1>1. /\ prog.blocks \in Seq(Seq(Instructions)) /\ prog.blocks # <<>>
      /\ prog.cls \in [Vregs -> {"gpr", "fpr", "fpr128"}]
    BY LinearScanAssumption
<1>2. Len(prog.blocks) \in Nat /\ Len(prog.blocks) # 0
    BY <1>1
<1>3. 1 \in Blocks(prog)
    BY <1>2 DEF Blocks
<1>4. \A b \in Blocks(prog) : b \in Nat /\ b >= 1 /\ prog.blocks[b] \in Seq(Instructions)
    BY <1>1, <1>2 DEF Blocks
<1>5. \A s \in Seq(Instructions) :
        /\ Len(s) \in Nat /\ DOMAIN s = 1 .. Len(s)
        /\ \A k \in 1 .. Len(s) : s[k] \in Instructions
    OBVIOUS
<1> QED
    BY <1>1, <1>2, <1>3, <1>4, <1>5

\* The operands of an instruction are virtual registers.
LEMMA InstType ==
    ASSUME NEW i \in Instructions
    PROVE  /\ i.ops \in Seq(Vregs) /\ Len(i.ops) \in Nat /\ DOMAIN i.ops = 1 .. Len(i.ops)
           /\ \A k \in DOMAIN i.ops : i.ops[k] \in Vregs
           /\ i.def => 1 \in DOMAIN i.ops
           /\ ReadIndexes(i) \subseteq DOMAIN i.ops
           /\ \A k \in DOMAIN i.ops : i.ops[k] \in DefOf(i) \cup UsesOf(i)
           /\ DefOf(i) \cup UsesOf(i) \subseteq Vregs
           /\ ReadsOf(i) \subseteq DefOf(i) \cup UsesOf(i)
           /\ i.phys \subseteq Regs /\ i.def \in BOOLEAN /\ ~(i.call /\ i.term)
<1>1. /\ i.ops \in Seq(Vregs) /\ (i.def => i.ops # <<>>) /\ ~(i.call /\ i.term)
      /\ i.phys \subseteq Regs /\ i.def \in BOOLEAN
    BY DEF Instructions
<1>2. /\ Len(i.ops) \in Nat /\ DOMAIN i.ops = 1 .. Len(i.ops)
      /\ \A k \in DOMAIN i.ops : i.ops[k] \in Vregs
      /\ i.def => Len(i.ops) # 0
    BY <1>1
<1>3. (i.def => 1 \in DOMAIN i.ops) /\ UseIndexes(i) \subseteq DOMAIN i.ops
    BY <1>2 DEF UseIndexes
<1>4. ReadIndexes(i) \subseteq DOMAIN i.ops
    BY <1>3 DEF ReadIndexes
<1>5. DefOf(i) \cup UsesOf(i) \subseteq Vregs
    BY <1>2, <1>3 DEF DefOf, UsesOf
<1>6. ReadsOf(i) \subseteq DefOf(i) \cup UsesOf(i)
    BY DEF ReadsOf, ReadIndexes, DefOf, UsesOf
<1>7. \A k \in DOMAIN i.ops : k \in UseIndexes(i) \/ (i.def /\ k = 1)
    BY <1>2 DEF UseIndexes
<1>8. \A k \in DOMAIN i.ops : i.ops[k] \in DefOf(i) \cup UsesOf(i)
    BY <1>7 DEF DefOf, UsesOf
<1> QED
    BY <1>1, <1>2, <1>3, <1>4, <1>5, <1>6, <1>8

-----------------------------------------------------------------------------
(* Liveness inside a block.                                                *)

\* The equations of liveness for block c, which the fixpoint satisfies.
Fix(c) ==
    /\ \A s \in prog.succs[c] : liveIn[s] \subseteq liveOut[c]
    /\ liveIn[c] = Use(c) \cup (liveOut[c] \ Def(c))

\* What is live before instruction k of block b: it is read further down in the
\* block or live out of it, and not defined in between.
LiveAt(b, k) ==
    {v \in Vregs :
        \/ \E j \in k .. Len(prog.blocks[b]) :
              /\ v \in ReadsOf(prog.blocks[b][j])
              /\ \A l \in k .. j - 1 : v \notin DefOf(prog.blocks[b][l])
        \/ /\ v \in liveOut[b]
           /\ \A l \in k .. Len(prog.blocks[b]) : v \notin DefOf(prog.blocks[b][l])}

\* What is live at the start of a block is live into it.
LEMMA LiveEntry ==
    ASSUME NEW b, Fix(b)
    PROVE  LiveAt(b, 1) \subseteq liveIn[b]
BY DEF LiveAt, Fix, Use, Def

\* What is live out of a block is live at its end.
LEMMA LiveExit ==
    ASSUME NEW b, Len(prog.blocks[b]) \in Nat
    PROVE  LiveAt(b, Len(prog.blocks[b]) + 1) \subseteq liveOut[b]
BY DEF LiveAt

\* What a block hands on is live at its end.
LEMMA LiveLeave ==
    ASSUME NEW b, Len(prog.blocks[b]) \in Nat, liveOut[b] \subseteq Vregs
    PROVE  liveOut[b] \subseteq LiveAt(b, Len(prog.blocks[b]) + 1)
BY DEF LiveAt

\* What an instruction reads is live before it.
LEMMA LiveRead ==
    ASSUME prog \in Programs, NEW b \in Blocks(prog), NEW k \in 1 .. Len(prog.blocks[b]),
           NEW v \in ReadsOf(prog.blocks[b][k])
    PROVE  v \in LiveAt(b, k)
<1>1. prog.blocks[b][k] \in Instructions /\ Len(prog.blocks[b]) \in Nat
    BY ProgramType
<1>2. v \in Vregs
    BY <1>1, InstType
<1>3. k \in k .. Len(prog.blocks[b]) /\ \A l \in k .. k - 1 : FALSE
    BY <1>1
<1> QED
    BY <1>2, <1>3 DEF LiveAt

\* What an instruction does not define is live before it if it is live after it.
LEMMA LiveStep ==
    ASSUME prog \in Programs, NEW b \in Blocks(prog), NEW k \in 1 .. Len(prog.blocks[b]),
           NEW v \in LiveAt(b, k + 1), v \notin DefOf(prog.blocks[b][k])
    PROVE  v \in LiveAt(b, k)
<1> DEFINE n == Len(prog.blocks[b])
<1>1. n \in Nat /\ v \in Vregs
    BY ProgramType DEF LiveAt
<1>2. \A l : l \in k .. n => l = k \/ l \in k + 1 .. n
    BY <1>1
<1>3. ASSUME NEW j \in k + 1 .. n, v \in ReadsOf(prog.blocks[b][j]),
             \A l \in k + 1 .. j - 1 : v \notin DefOf(prog.blocks[b][l])
      PROVE  v \in LiveAt(b, k)
  <2>1. j \in k .. n
      BY <1>1
  <2>2. \A l \in k .. j - 1 : l = k \/ l \in k + 1 .. j - 1
      BY <1>1
  <2>3. \A l \in k .. j - 1 : v \notin DefOf(prog.blocks[b][l])
      BY <1>3, <2>2
  <2> QED
      BY <1>1, <1>3, <2>1, <2>3 DEF LiveAt
<1>4. ASSUME v \in liveOut[b], \A l \in k + 1 .. n : v \notin DefOf(prog.blocks[b][l])
      PROVE  v \in LiveAt(b, k)
  <2>1. \A l \in k .. n : v \notin DefOf(prog.blocks[b][l])
      BY <1>2, <1>4
  <2> QED
      BY <1>1, <1>4, <2>1 DEF LiveAt
<1> QED
    BY <1>3, <1>4 DEF LiveAt

\* What is live at k and not defined before k is live at the start.
LEMMA LiveBack ==
    ASSUME prog \in Programs, NEW b \in Blocks(prog), NEW k \in 1 .. Len(prog.blocks[b]) + 1,
           NEW v \in LiveAt(b, k), \A l \in 1 .. k - 1 : v \notin DefOf(prog.blocks[b][l])
    PROVE  v \in LiveAt(b, 1)
<1> DEFINE n == Len(prog.blocks[b])
<1>1. n \in Nat /\ v \in Vregs
    BY ProgramType DEF LiveAt
<1>2. k \in Nat /\ k >= 1
    BY <1>1
<1>3. ASSUME NEW j \in k .. n, v \in ReadsOf(prog.blocks[b][j]),
             \A l \in k .. j - 1 : v \notin DefOf(prog.blocks[b][l])
      PROVE  v \in LiveAt(b, 1)
  <2>1. j \in 1 .. n
      BY <1>1, <1>2
  <2>2. \A l \in 1 .. j - 1 : l \in 1 .. k - 1 \/ l \in k .. j - 1
      BY <1>1, <1>2
  <2>3. \A l \in 1 .. j - 1 : v \notin DefOf(prog.blocks[b][l])
      BY <1>3, <2>2
  <2> QED
      BY <1>1, <1>3, <2>1, <2>3 DEF LiveAt
<1>4. ASSUME v \in liveOut[b], \A l \in k .. n : v \notin DefOf(prog.blocks[b][l])
      PROVE  v \in LiveAt(b, 1)
  <2>1. \A l \in 1 .. n : l \in 1 .. k - 1 \/ l \in k .. n
      BY <1>1, <1>2
  <2>2. \A l \in 1 .. n : v \notin DefOf(prog.blocks[b][l])
      BY <1>4, <2>1
  <2> QED
      BY <1>1, <1>4, <2>2 DEF LiveAt
<1> QED
    BY <1>3, <1>4 DEF LiveAt

-----------------------------------------------------------------------------
(* What an interval covers.                                                *)

\* A block ends where the next one begins.
LEMMA FirstNext ==
    ASSUME prog \in Programs, NEW b \in Blocks(prog)
    PROVE  /\ First(b) \in Nat
           /\ First(b + 1) = First(b) + Len(prog.blocks[b])
<1> DEFINE n == Len(prog.blocks[b])
           K == {<<b, j>> : j \in 1 .. n}
           f == [j \in 1 .. n |-> <<b, j>>]
<1>1. n \in Nat /\ b \in Nat /\ b >= 1 /\ Len(prog.blocks) \in Nat
    BY ProgramType
<1>2. IsFiniteSet(1 .. n) /\ Cardinality(1 .. n) = n
  <2>1. n \in Int /\ 1 \in Int /\ (1 > n => n = 0) /\ n - 1 + 1 = n
      BY <1>1
  <2> HIDE DEF n
  <2> QED
      BY <2>1, FS_Interval
<1>3. IsFiniteSet(K) /\ Cardinality(K) = n
  <2>1. f \in [1 .. n -> K] /\ \A t \in K : \E j \in 1 .. n : f[j] = t
      OBVIOUS
  <2>2. \A i, j \in 1 .. n : f[i] = f[j] => i = j
      OBVIOUS
  <2> HIDE DEF f, K
  <2>3. f \in Bijection(1 .. n, K)
      BY <2>1, <2>2 DEF Bijection, Injection, Surjection, IsInjective
  <2>4. ExistsBijection(1 .. n, K)
      BY <2>3 DEF ExistsBijection
  <2> QED
      BY <2>4, <1>2, FS_Bijection
<1>4. K \cap Preceding(b) = {}
    BY <1>1 DEF Preceding
<1>5. Preceding(b + 1) = K \cup Preceding(b)
  <2>1. 1 .. (b + 1) - 1 = (1 .. b - 1) \cup {b}
      BY <1>1
  <2>2. Preceding(b + 1) =
          UNION {{<<c, k>> : k \in 1 .. Len(prog.blocks[c])} : c \in (1 .. b - 1) \cup {b}}
      BY <2>1 DEF Preceding
  <2> QED
      BY <2>2 DEF Preceding
<1>6. b \in 1 .. Len(prog.blocks) + 1
    BY <1>1 DEF Blocks
<1>7. IsFiniteSet(Preceding(b)) /\ First(b) \in Nat
    BY <1>6, FirstInNat
<1> HIDE DEF K, n
<1>8. Cardinality(K \cup Preceding(b)) = n + First(b) - Cardinality({})
    BY <1>3, <1>4, <1>7, FS_Union DEF First
<1>9. First(b + 1) = n + First(b)
  <2>1. Cardinality({}) = 0
      BY FS_EmptySet
  <2>2. First(b + 1) = Cardinality(K \cup Preceding(b))
      BY <1>5 DEF First
  <2>3. n \in Nat
      BY <1>1 DEF n
  <2> QED
      BY <2>1, <2>2, <2>3, <1>7, <1>8
<1> QED
    BY <1>9, <1>7, <1>1 DEF n

\* An interval covers its extents.
LEMMA IntervalCovers ==
    ASSUME prog \in Programs, NEW v, NEW x \in Extents(v)
    PROVE  Interval(v).start <= x[1] /\ x[2] <= Interval(v).end
<1> DEFINE starts == {y[1] : y \in Extents(v)}
           ends == {y[2] : y \in Extents(v)}
           bound == First(Len(prog.blocks) + 1) + 1
<1>1. starts \subseteq Nat /\ starts # {} /\ ends \subseteq Nat /\ ends # {}
    BY ExtentsBounded
<1>2. bound \in Nat
  <2>1. Len(prog.blocks) + 1 \in 1 .. Len(prog.blocks) + 1
      BY ProgramType
  <2>2. First(Len(prog.blocks) + 1) \in Nat
      BY <2>1, FirstInNat
  <2> QED
      BY <2>2
<1>3. \A y \in ends : y <= bound
    BY ExtentsBounded
<1>4. Interval(v).start = Least(starts) /\ Interval(v).end = Greatest(ends)
    BY DEF Interval
<1>5. x[1] \in starts /\ x[2] \in ends
    OBVIOUS
<1> HIDE DEF starts, ends, bound
<1>6. Least(starts) <= x[1]
    BY <1>1, <1>5, LeastOfNat
<1>7. Greatest(ends) >= x[2] /\ Greatest(ends) \in Nat /\ x[2] \in Nat
    BY <1>1, <1>2, <1>3, <1>5, GreatestOfNat
<1> QED
    BY <1>4, <1>6, <1>7

\* The calls of extend, one by one.
LEMMA ExtentsOf ==
    ASSUME NEW v, NEW b \in Blocks(prog)
    PROVE  /\ v \in liveIn[b] => <<First(b), First(b) + 1>> \in Extents(v)
           /\ v \in liveOut[b] =>
                 <<IF First(b + 1) > 0 THEN First(b + 1) - 1 ELSE 0, First(b + 1)>>
                     \in Extents(v)
           /\ \A k \in 1 .. Len(prog.blocks[b]) :
                 v \in DefOf(prog.blocks[b][k]) \cup UsesOf(prog.blocks[b][k]) =>
                     <<First(b) + k - 1, First(b) + k>> \in Extents(v)
<1>1. v \in liveIn[b] => <<First(b), First(b) + 1>> \in Extents(v)
    BY DEF Extents
<1>2. v \in liveOut[b] =>
        <<IF First(b + 1) > 0 THEN First(b + 1) - 1 ELSE 0, First(b + 1)>> \in Extents(v)
    BY DEF Extents
<1>3. \A k \in 1 .. Len(prog.blocks[b]) :
        v \in DefOf(prog.blocks[b][k]) \cup UsesOf(prog.blocks[b][k]) =>
            <<First(b) + k - 1, First(b) + k>> \in Extents(v)
    BY DEF Extents
<1> QED
    BY <1>1, <1>2, <1>3

\* What iv is after BuildIntervals.
Intervals == [v \in Vregs |-> IF Extents(v) = {} THEN NoInterval ELSE Interval(v)]

\* An operand's interval covers the instruction.
LEMMA OperandCovered ==
    ASSUME prog \in Programs, iv = Intervals, NEW b \in Blocks(prog),
           NEW k \in 1 .. Len(prog.blocks[b]),
           NEW v \in DefOf(prog.blocks[b][k]) \cup UsesOf(prog.blocks[b][k])
    PROVE  iv[v].start <= First(b) + k - 1 /\ First(b) + k <= iv[v].end
<1>1. prog.blocks[b][k] \in Instructions
    BY ProgramType
<1>2. v \in Vregs
    BY <1>1, InstType
<1> DEFINE x == <<First(b) + k - 1, First(b) + k>>
<1>3. x \in Extents(v)
    BY ExtentsOf
<1>4. iv[v] = Interval(v)
    BY <1>2, <1>3 DEF Intervals
<1>5. Interval(v).start <= x[1] /\ x[2] <= Interval(v).end
    BY <1>3, IntervalCovers
<1> QED
    BY <1>4, <1>5

\* The interval of what lives through an instruction covers it, and the next one
\* of the block too.
LEMMA LiveCovered ==
    ASSUME prog \in Programs, iv = Intervals, NEW b \in Blocks(prog), Fix(b),
           NEW k \in 1 .. Len(prog.blocks[b]),
           NEW v \in LiveAt(b, k + 1), v \notin DefOf(prog.blocks[b][k])
    PROVE  /\ v \in Vregs /\ Extents(v) # {} /\ iv[v] = Interval(v)
           /\ iv[v].start <= First(b) + k - 1
           /\ First(b) + k <= iv[v].end
           /\ k < Len(prog.blocks[b]) => First(b) + k + 1 <= iv[v].end
<1> DEFINE n == Len(prog.blocks[b])
           p == First(b)
<1>1. n \in Nat /\ v \in Vregs /\ k \in Nat /\ k >= 1 /\ k <= n
    BY ProgramType DEF LiveAt
<1>2. p \in Nat /\ First(b + 1) = p + n
    BY FirstNext
<1>3. \A j \in 1 .. n : prog.blocks[b][j] \in Instructions
    BY ProgramType
<1>4. v \in LiveAt(b, k)
    BY LiveStep
<1>5. \E x \in Extents(v) : x[1] <= p + k - 1
  <2>1. CASE \E l \in 1 .. k - 1 : v \in DefOf(prog.blocks[b][l])
    <3>1. PICK l \in 1 .. k - 1 : v \in DefOf(prog.blocks[b][l])
        BY <2>1
    <3>2. l \in 1 .. n
        BY <1>1
    <3>3. <<p + l - 1, p + l>> \in Extents(v)
        BY <3>1, <3>2, ExtentsOf
    <3>4. p + l - 1 <= p + k - 1
        BY <1>1, <1>2, <3>2
    <3> HIDE DEF n, p
    <3> WITNESS <<p + l - 1, p + l>> \in Extents(v)
    <3> QED
        BY <3>4
  <2>2. CASE \A l \in 1 .. k - 1 : v \notin DefOf(prog.blocks[b][l])
    <3>1. k \in 1 .. n + 1
        BY <1>1
    <3>2. v \in LiveAt(b, 1)
        BY <1>4, <2>2, <3>1, LiveBack
    <3>3. v \in liveIn[b]
        BY <3>2, LiveEntry
    <3>4. <<p, p + 1>> \in Extents(v)
        BY <3>3, ExtentsOf
    <3>5. p <= p + k - 1
        BY <1>1, <1>2
    <3> HIDE DEF n, p
    <3> WITNESS <<p, p + 1>> \in Extents(v)
    <3> QED
        BY <3>5
  <2> QED
      BY <2>1, <2>2
<1>6. \E x \in Extents(v) : p + k <= x[2] /\ (k < n => p + k + 1 <= x[2])
  <2>1. CASE \E j \in k + 1 .. n : v \in ReadsOf(prog.blocks[b][j])
    <3>1. PICK j \in k + 1 .. n : v \in ReadsOf(prog.blocks[b][j])
        BY <2>1
    <3>2. j \in 1 .. n /\ k < j
        BY <1>1
    <3>3. v \in DefOf(prog.blocks[b][j]) \cup UsesOf(prog.blocks[b][j])
        BY <1>3, <3>1, <3>2, InstType
    <3>4. <<p + j - 1, p + j>> \in Extents(v)
        BY <3>2, <3>3, ExtentsOf
    <3>5. p + k <= p + j /\ p + k + 1 <= p + j
        BY <1>1, <1>2, <3>2
    <3> HIDE DEF n, p
    <3> WITNESS <<p + j - 1, p + j>> \in Extents(v)
    <3> QED
        BY <3>5
  <2>2. CASE v \in liveOut[b]
    <3>1. <<IF First(b + 1) > 0 THEN First(b + 1) - 1 ELSE 0, First(b + 1)>> \in Extents(v)
        BY <2>2, ExtentsOf
    <3>2. p + k <= First(b + 1) /\ (k < n => p + k + 1 <= First(b + 1))
        BY <1>1, <1>2
    <3> HIDE DEF n, p
    <3> WITNESS <<IF First(b + 1) > 0 THEN First(b + 1) - 1 ELSE 0, First(b + 1)>>
                    \in Extents(v)
    <3> QED
        BY <3>2
  <2> QED
      BY <2>1, <2>2 DEF LiveAt
<1>7. Extents(v) # {} /\ iv[v] = Interval(v)
    BY <1>1, <1>5 DEF Intervals
<1>8. Interval(v) \in [start : Nat, end : Nat, crosses : BOOLEAN]
    BY <1>7, IntervalType
<1>9. iv[v].start <= p + k - 1
  <2>1. PICK x \in Extents(v) : x[1] <= p + k - 1
      BY <1>5
  <2>2. Interval(v).start <= x[1] /\ x[1] \in Nat
      BY IntervalCovers, ExtentsBounded
  <2> QED
      BY <2>1, <2>2, <1>1, <1>2, <1>7, <1>8
<1>10. p + k <= iv[v].end /\ (k < n => p + k + 1 <= iv[v].end)
  <2>1. PICK x \in Extents(v) : p + k <= x[2] /\ (k < n => p + k + 1 <= x[2])
      BY <1>6
  <2>2. x[2] <= Interval(v).end /\ x[2] \in Nat
      BY IntervalCovers, ExtentsBounded
  <2> QED
      BY <2>1, <2>2, <1>1, <1>2, <1>7, <1>8
<1> QED
    BY <1>1, <1>7, <1>9, <1>10

\* What lives through a call crosses it.
LEMMA CallCrossed ==
    ASSUME prog \in Programs, iv = Intervals, NEW b \in Blocks(prog), Fix(b),
           NEW k \in 1 .. Len(prog.blocks[b]), k < Len(prog.blocks[b]),
           prog.blocks[b][k].call,
           NEW v \in LiveAt(b, k + 1), v \notin DefOf(prog.blocks[b][k])
    PROVE  iv[v].crosses
<1> DEFINE p == First(b) + k - 1
           start == iv[v].start
           end == iv[v].end
           later == {c \in CallPositions : c >= start}
<1>1. /\ Extents(v) # {} /\ iv[v] = Interval(v)
      /\ start <= p /\ p + 2 <= end
  <2>1. First(b) \in Nat /\ k \in Nat
      BY FirstNext, ProgramType
  <2> QED
      BY <2>1, LiveCovered
<1>2. Interval(v) \in [start : Nat, end : Nat, crosses : BOOLEAN]
    BY <1>1, IntervalType
<1>3. First(b) \in Nat /\ k \in Nat /\ k >= 1 /\ p \in Nat /\ start \in Nat /\ end \in Nat
  <2>1. First(b) \in Nat /\ Len(prog.blocks[b]) \in Nat
      BY FirstNext, ProgramType
  <2> QED
      BY <2>1, <1>1, <1>2
<1>4. p \in CallPositions
    BY DEF CallPositions
<1>5. CallPositions \subseteq Nat
  <2> SUFFICES ASSUME NEW c \in Blocks(prog), NEW j \in 1 .. Len(prog.blocks[c])
               PROVE  First(c) + j - 1 \in Nat
      BY DEF CallPositions
  <2>1. First(c) \in Nat /\ Len(prog.blocks[c]) \in Nat
      BY FirstNext, ProgramType
  <2> QED
      BY <2>1
<1>6. Crosses(start, end) = (later # {} /\ Least(later) + 1 < end)
    BY DEF Crosses
<1>7. later # {} /\ later \subseteq Nat /\ p \in later
    BY <1>1, <1>3, <1>4, <1>5
<1> HIDE DEF later
<1>8. Least(later) \in Nat /\ Least(later) <= p
    BY <1>7, LeastOfNat
<1>9. Crosses(start, end)
  <2>1. Least(later) + 1 < end
      BY <1>1, <1>3, <1>8
  <2> QED
      BY <2>1, <1>6, <1>7
<1>10. Interval(v).crosses = Crosses(Interval(v).start, Interval(v).end)
    BY DEF Interval
<1> QED
    BY <1>1, <1>9, <1>10

-----------------------------------------------------------------------------
(* What liveness and the scan establish for the rewriting.                 *)

\* The blocks swept since the last change solve their equations, and all of them do
\* once liveness is over; the intervals are the ones these live sets give; what has
\* a register has one of a pool, one the prologue saves if it is callee-saved.
Analysed ==
    /\ AcceptedLinear(prog, Scratch, Pool)
    /\ phase \in {"liveness", "intervals", "scan", "rewrite", "run"}
    /\ at[1] # 0 => phase = "run"
    /\ block \in 0 .. Len(prog.blocks) /\ changed \in BOOLEAN
    /\ liveIn \in [Blocks(prog) -> SUBSET Vregs]
    /\ liveOut \in [Blocks(prog) -> SUBSET Vregs]
    /\ \A c \in Blocks(prog) :
          phase # "liveness" \/ (~changed /\ c > block) => Fix(c)
    /\ phase \in {"scan", "rewrite", "run"} => iv = Intervals
    /\ \A v \in Vregs : assigned[v] # NoReg =>
          /\ assigned[v] \in Pool
          /\ assigned[v] \in CalleeSaved => assigned[v] \in usedCsrs
          /\ iv[v].crosses => prog.cls[v] # "fpr128"

\* The analysis holds before it starts.
LEMMA AnalysedInit == Init => Analysed
<1> SUFFICES ASSUME Init PROVE Analysed
    OBVIOUS
<1>1. prog \in Programs
    BY DEF Init
<1>2. 0 \in 0 .. Len(prog.blocks)
    BY <1>1, ProgramType
<1> QED
    BY <1>2 DEF Init, MachineInit, Analysed

\* One block of the backward pass.
LEMMA LiveBlockAnalysed ==
    ASSUME IInv, Analysed, LiveBlock
    PROVE  Analysed'
<1> DEFINE new == liveOut[block] \cup UNION {liveIn[s] : s \in prog.succs[block]}
           now == Use(block) \cup (new \ Def(block))
<1>0. prog \in Programs /\ Len(prog.blocks) \in Nat
    BY ProgramType DEF IInv, Bookkeeping
<1>1. /\ phase = "liveness" /\ block # 0 /\ block' = block - 1
      /\ liveOut' = [liveOut EXCEPT ![block] = new]
      /\ liveIn' = [liveIn EXCEPT ![block] = now]
      /\ changed' = (changed \/ new # liveOut[block] \/ now # liveIn[block])
      /\ UNCHANGED <<prog, at, phase, iv, assigned, usedCsrs>>
    BY DEF LiveBlock, scanning, machine
<1>2. block \in Blocks(prog) /\ block' \in 0 .. Len(prog.blocks)
    BY <1>0, <1>1 DEF Analysed, Blocks
<1>3. /\ liveIn \in [Blocks(prog) -> SUBSET Vregs]
      /\ liveOut \in [Blocks(prog) -> SUBSET Vregs]
    BY DEF Analysed
<1>4. prog.succs[block] \subseteq Blocks(prog)
    BY <1>2 DEF Analysed, AcceptedLinear, EndsInTerminator
<1>5. new \subseteq Vregs /\ now \subseteq Vregs
    BY <1>2, <1>3, <1>4 DEF Use
<1>6. /\ liveIn' \in [Blocks(prog) -> SUBSET Vregs]
      /\ liveOut' \in [Blocks(prog) -> SUBSET Vregs]
    BY <1>1, <1>3, <1>5
<1>7. changed' \in BOOLEAN
    BY <1>1
<1>8. ASSUME ~changed' PROVE \A c \in Blocks(prog) : c > block' => Fix(c)'
  <2>1. ~changed /\ new = liveOut[block] /\ now = liveIn[block]
      BY <1>1, <1>8
  <2>2. liveIn' = liveIn /\ liveOut' = liveOut
      BY <1>1, <1>3, <2>1
  <2>3. \A c : Use(c)' = Use(c) /\ Def(c)' = Def(c)
      BY <1>1 DEF Use, Def
  <2>4. \A c : Fix(c)' <=> Fix(c)
      BY <1>1, <2>2, <2>3 DEF Fix
  <2>5. Fix(block)
      BY <2>1 DEF Fix
  <2>6. \A c \in Blocks(prog) : c > block' => c = block \/ c > block
      BY <1>0, <1>1, <1>2 DEF Blocks
  <2>7. \A c \in Blocks(prog) : c > block => Fix(c)
      BY <2>1 DEF Analysed
  <2> QED
      BY <2>4, <2>5, <2>6, <2>7
<1>9. AcceptedLinear(prog, Scratch, Pool)'
    BY <1>1 DEF Analysed
<1> HIDE DEF new, now
<1> QED
    BY <1>1, <1>2, <1>6, <1>7, <1>8, <1>9 DEF Analysed

\* The end of a pass.
LEMMA LivePassAnalysed ==
    ASSUME IInv, Analysed, LivePass
    PROVE  Analysed'
<1>0. prog \in Programs /\ Len(prog.blocks) \in Nat
    BY ProgramType DEF IInv, Bookkeeping
<1>1. /\ phase = "liveness" /\ block = 0
      /\ IF changed
         THEN block' = Len(prog.blocks) /\ changed' = FALSE /\ phase' = phase
         ELSE phase' = "intervals" /\ UNCHANGED <<block, changed>>
      /\ UNCHANGED <<prog, at, liveIn, liveOut, iv, assigned, usedCsrs>>
    BY DEF LivePass, scanning, machine
<1>2. \A c : Use(c)' = Use(c) /\ Def(c)' = Def(c)
    BY <1>1 DEF Use, Def
<1>3. \A c : Fix(c)' <=> Fix(c)
    BY <1>1, <1>2 DEF Fix
<1>4. block' \in 0 .. Len(prog.blocks) /\ changed' \in BOOLEAN
  <2>1. 0 \in 0 .. Len(prog.blocks) /\ Len(prog.blocks) \in 0 .. Len(prog.blocks)
      BY <1>0
  <2>2. CASE changed
      BY <1>1, <2>1, <2>2
  <2>3. CASE ~changed
      BY <1>1, <2>1, <2>3 DEF Analysed
  <2> QED
      BY <2>2, <2>3
<1>5. \A c \in Blocks(prog) :
        phase' # "liveness" \/ (~changed' /\ c > block') => Fix(c)'
  <2>1. CASE changed
    <3>1. \A c \in Blocks(prog) : ~(c > block')
        BY <1>0, <1>1, <2>1 DEF Blocks
    <3> QED
        BY <3>1, <1>1, <2>1
  <2>2. CASE ~changed
    <3>1. \A c \in Blocks(prog) : c > block
        BY <1>0, <1>1 DEF Blocks
    <3> QED
        BY <3>1, <1>1, <1>3, <2>2 DEF Analysed
  <2> QED
      BY <2>1, <2>2
<1>6. phase' \in {"liveness", "intervals"}
    BY <1>1
<1>7. AcceptedLinear(prog, Scratch, Pool)'
    BY <1>1 DEF Analysed
<1> QED
    BY <1>1, <1>4, <1>5, <1>6, <1>7 DEF Analysed

\* The analysis depends on the function and the live sets only.
LEMMA SameAnalysis ==
    ASSUME UNCHANGED <<prog, liveIn, liveOut>>
    PROVE  Intervals' = Intervals /\ \A c : Fix(c)' <=> Fix(c)
<1>1. \A c : Use(c)' = Use(c) /\ Def(c)' = Def(c) /\ First(c)' = First(c)
    BY DEF Use, Def, First, Preceding
<1>2. \A c : Fix(c)' <=> Fix(c)
    BY <1>1 DEF Fix
<1>3. \A v : Extents(v)' = Extents(v)
    BY <1>1 DEF Extents
<1>4. CallPositions' = CallPositions
    BY <1>1 DEF CallPositions
<1>5. \A v : Interval(v)' = Interval(v)
    BY <1>3, <1>4 DEF Interval, Crosses
<1> QED
    BY <1>2, <1>3, <1>5 DEF Intervals

\* Steps after the liveness analysis.
LEMMA OtherAnalysed ==
    ASSUME IInv, Analysed, phase # "liveness",
           UNCHANGED <<prog, liveIn, liveOut, block, changed>>,
           phase' \in {"scan", "rewrite", "run"}, iv' = Intervals,
           (at'[1] # 0 => phase' = "run"),
           \A v \in Vregs : assigned'[v] # NoReg =>
              /\ assigned'[v] \in Pool
              /\ assigned'[v] \in CalleeSaved => assigned'[v] \in usedCsrs'
              /\ iv'[v].crosses => prog.cls[v] # "fpr128"
    PROVE  Analysed'
<1>0. UNCHANGED <<prog, liveIn, liveOut, block, changed>>
    OBVIOUS
<1>1. Intervals' = Intervals /\ \A c : Fix(c)' <=> Fix(c)
    BY SameAnalysis
<1>2. \A c \in Blocks(prog) : Fix(c)'
    BY <1>1 DEF Analysed
<1>3. AcceptedLinear(prog, Scratch, Pool)'
    BY <1>0 DEF Analysed
<1> QED
    BY <1>0, <1>1, <1>2, <1>3 DEF Analysed

\* Ending the liveness loop and building the intervals keeps it.
LEMMA BuildIntervalsAnalysed ==
    ASSUME IInv, Analysed, BuildIntervals
    PROVE  Analysed'
<1>1. /\ phase = "intervals" /\ phase' = "scan" /\ iv' = Intervals
      /\ UNCHANGED <<prog, at, liveIn, liveOut, block, changed, assigned, usedCsrs>>
    BY DEF BuildIntervals, Intervals, flow, machine
<1>2. \A v \in Vregs : assigned'[v] = NoReg
    BY <1>1 DEF IInv, Bookkeeping
<1>3. at'[1] # 0 => phase' = "run"
    BY <1>1 DEF Analysed
<1> QED
    BY <1>1, <1>2, <1>3, OtherAnalysed

\* The register of an interval comes from a pool, and is noted if callee-saved.
LEMMA ScanIntervalAnalysed ==
    ASSUME IInv, Analysed, NEW v \in Vregs, ScanInterval(v)
    PROVE  Analysed'
<1> DEFINE left == held \ {assigned[a] : a \in Expired(v)}
           reg == TryPool(Candidates(v), left)
<1>1. /\ phase = "scan" /\ phase' = phase
      /\ UNCHANGED <<prog, at, liveIn, liveOut, block, changed, iv>>
      /\ assigned' = [assigned EXCEPT ![v] = reg]
      /\ usedCsrs' = usedCsrs \cup ({reg} \cap CalleeSaved)
    BY DEF ScanInterval, flow, machine
<1>2. assigned \in [Vregs -> Regs \cup {NoReg}]
    BY DEF IInv, TypeOK
<1>3. reg # NoReg => reg \in PoolRegs(Candidates(v))
    BY CandidatesType, TryPoolResult
<1>4. Bank(prog.cls[v]) \in Banks
    BY DEF Bank, Banks
<1>5. /\ CallerPool[Bank(prog.cls[v])] \in Seq(Regs)
      /\ CalleePool[Bank(prog.cls[v])] \in Seq(Regs)
    BY <1>4, LinearScanAssumption
<1>6. /\ PoolRegs(CallerPool[Bank(prog.cls[v])]) \subseteq Pool
      /\ PoolRegs(CalleePool[Bank(prog.cls[v])]) \subseteq Pool
    BY <1>4 DEF Pool
<1>7. Callees(v) \in Seq(Regs) /\ PoolRegs(Callees(v)) \subseteq Pool
    BY <1>5, <1>6 DEF Callees, PoolRegs
<1>8. PoolRegs(Candidates(v)) \subseteq Pool
  <2>1. CASE iv[v].crosses
      BY <2>1, <1>7 DEF Candidates
  <2>2. CASE ~iv[v].crosses
    <3> DEFINE s == CallerPool[Bank(prog.cls[v])]
               t == Callees(v)
    <3>1. s \in Seq(Regs) /\ t \in Seq(Regs) /\ Candidates(v) = s \o t
        BY <2>2, <1>5, <1>7 DEF Candidates
    <3>2. PoolRegs(s) \subseteq Pool /\ PoolRegs(t) \subseteq Pool
        BY <1>6, <1>7
    <3> HIDE DEF s, t
    <3>3. \A k \in DOMAIN (s \o t) : (s \o t)[k] \in PoolRegs(s) \cup PoolRegs(t)
        BY <3>1 DEF PoolRegs
    <3> QED
        BY <3>1, <3>2, <3>3 DEF PoolRegs
  <2> QED
      BY <2>1, <2>2
<1>9. iv[v].crosses /\ prog.cls[v] = "fpr128" => PoolRegs(Candidates(v)) = {}
    BY DEF Candidates, Callees, PoolRegs
<1>10. ASSUME NEW u \in Vregs, assigned'[u] # NoReg
       PROVE  /\ assigned'[u] \in Pool
              /\ assigned'[u] \in CalleeSaved => assigned'[u] \in usedCsrs'
              /\ iv'[u].crosses => prog.cls[u] # "fpr128"
  <2> HIDE DEF reg
  <2>1. CASE u = v
      BY <1>1, <1>2, <1>3, <1>8, <1>9, <1>10, <2>1
  <2>2. CASE u # v
      BY <1>1, <1>2, <1>10, <2>2 DEF Analysed
  <2> QED
      BY <2>1, <2>2
<1>11. iv' = Intervals
    BY <1>1 DEF Analysed
<1>12. at'[1] # 0 => phase' = "run"
    BY <1>1 DEF Analysed
<1> QED
    BY <1>1, <1>10, <1>11, <1>12, OtherAnalysed

\* Every step preserves what is known.
LEMMA AnalysedNext == IInv /\ Analysed /\ [Next]_vars => Analysed'
<1> SUFFICES ASSUME IInv, Analysed, [Next]_vars PROVE Analysed'
    OBVIOUS
<1> DEFINE Kept == UNCHANGED <<prog, liveIn, liveOut, block, changed, iv, assigned, usedCsrs>>
<1>0. ASSUME Kept, phase \in {"scan", "rewrite", "run"}, phase' \in {"scan", "rewrite", "run"},
             (at'[1] # 0 => phase' = "run")
      PROVE  Analysed'
  <2>1. iv' = Intervals
      BY <1>0 DEF Analysed
  <2>2. \A v \in Vregs : assigned'[v] # NoReg =>
           /\ assigned'[v] \in Pool
           /\ assigned'[v] \in CalleeSaved => assigned'[v] \in usedCsrs'
           /\ iv'[v].crosses => prog.cls[v] # "fpr128"
      BY <1>0 DEF Analysed
  <2> QED
      BY <1>0, <2>1, <2>2, OtherAnalysed
<1>1. CASE LiveBlock
    BY <1>1, LiveBlockAnalysed
<1>2. CASE LivePass
    BY <1>2, LivePassAnalysed
<1>3. CASE BuildIntervals
    BY <1>3, BuildIntervalsAnalysed
<1>4. ASSUME NEW v \in Vregs, ScanInterval(v) PROVE Analysed'
    BY <1>4, ScanIntervalAnalysed
<1>5. CASE ScanDone
    BY <1>0, <1>5 DEF ScanDone, flow, scanning, machine, Analysed
<1>6. CASE Rewrite
    BY <1>0, <1>6 DEF Rewrite, flow, scanning
<1>7. CASE Run
  <2>1. at[1] # 0 /\ Kept /\ phase' = phase
      BY <1>7 DEF Run, Execute, ExecuteMove, ExecuteInst, Branch, Executing, flow, scanning
  <2> QED
      BY <1>0, <2>1 DEF Analysed
<1>8. CASE UNCHANGED vars
  <2>1. Kept /\ phase' = phase /\ at' = at
      BY <1>8 DEF vars, flow, scanning, machine
  <2>2. Intervals' = Intervals /\ \A c : Fix(c)' <=> Fix(c)
      BY <2>1, SameAnalysis
  <2>3. AcceptedLinear(prog, Scratch, Pool)'
      BY <2>1 DEF Analysed
  <2> QED
      BY <2>1, <2>2, <2>3 DEF Analysed
<1> QED
    BY <1>1, <1>2, <1>3, <1>4, <1>5, <1>6, <1>7, <1>8 DEF Next

-----------------------------------------------------------------------------
(* The scratch registers of an instruction.                                *)

\* The instructions of the function are instructions.
LEMMA InstsType ==
    ASSUME prog \in Programs, NEW i \in Insts(prog)
    PROVE  i \in Instructions
BY ProgramType DEF Insts

\* An instruction has finitely many operands.
LEMMA OperandsFinite ==
    ASSUME NEW i \in Instructions
    PROVE  IsFiniteSet(DefOf(i) \cup UsesOf(i))
<1> DEFINE D == 1 .. Len(i.ops)
           R == {i.ops[k] : k \in D}
           f == [k \in D |-> i.ops[k]]
<1>1. Len(i.ops) \in Nat /\ DOMAIN i.ops = D
    BY InstType
<1>2. IsFiniteSet(D)
    BY <1>1, FS_Interval
<1>3. f \in Surjection(D, R)
    BY DEF Surjection
<1>4. IsFiniteSet(R)
    BY <1>2, <1>3, FS_Surjection
<1>5. UseIndexes(i) \subseteq D /\ (i.def => 1 \in D)
    BY <1>1, InstType DEF UseIndexes
<1>6. DefOf(i) \cup UsesOf(i) \subseteq R
    BY <1>5 DEF DefOf, UsesOf
<1> QED
    BY <1>4, <1>6, FS_Subset

\* The first operand that names v names v.
LEMMA FirstIndexOf ==
    ASSUME NEW i \in Instructions, NEW v \in DefOf(i) \cup UsesOf(i)
    PROVE  FirstIndex(i, v) \in Nat /\ i.ops[FirstIndex(i, v)] = v
<1> DEFINE S == {k \in DOMAIN i.ops : i.ops[k] = v}
<1>1. DOMAIN i.ops = 1 .. Len(i.ops) /\ Len(i.ops) \in Nat
    BY InstType
<1>2. UseIndexes(i) \subseteq DOMAIN i.ops /\ (i.def => 1 \in DOMAIN i.ops)
    BY <1>1, InstType DEF UseIndexes
<1>3. S # {}
    BY <1>2 DEF DefOf, UsesOf
<1>4. S \subseteq Nat
    BY <1>1
<1>5. Least(S) \in S
    BY <1>3, <1>4, LeastOfNat
<1> QED
    BY <1>4, <1>5 DEF FirstIndex

\* The spilled registers that take a scratch register before v does.
Earlier(i, v) ==
    {u \in DefOf(i) \cup UsesOf(i) :
        /\ assigned[u] = NoReg /\ Bank(prog.cls[u]) = Bank(prog.cls[v])
        /\ FirstIndex(i, u) < FirstIndex(i, v)}

\* There are enough scratch registers.
LEMMA ScratchOf ==
    ASSUME IInv, Analysed, NEW i \in Insts(prog), NEW v \in DefOf(i) \cup UsesOf(i)
    PROVE  /\ Cardinality(Earlier(i, v)) \in Nat
           /\ Bank(prog.cls[v]) \in Banks
           /\ Scratch[Bank(prog.cls[v])] \in Seq(Regs)
           /\ Cardinality(Earlier(i, v)) + 1 \in DOMAIN Scratch[Bank(prog.cls[v])]
           /\ ScratchFor(i, v) =
                 Scratch[Bank(prog.cls[v])][Cardinality(Earlier(i, v)) + 1]
<1> DEFINE bank == Bank(prog.cls[v])
           T == {u \in DefOf(i) \cup UsesOf(i) : Bank(prog.cls[u]) = bank}
           E == Earlier(i, v)
<1>1. prog \in Programs
    BY DEF IInv, Bookkeeping
<1>2. i \in Instructions
    BY <1>1, InstsType
<1>3. bank \in {"gpr", "fpr"} /\ bank \in Banks
    BY DEF Bank, Banks
<1>4. Scratch[bank] \in Seq(Regs)
    BY <1>3, LinearScanAssumption
<1>5. IsFiniteSet(T)
    BY <1>2, OperandsFinite, FS_Subset
<1>6. Cardinality(T) <= Len(Scratch[bank])
    BY <1>3 DEF Analysed, AcceptedLinear
<1>7. v \in T
    OBVIOUS
<1>8. FirstIndex(i, v) \in Nat
    BY <1>2, FirstIndexOf
<1>9. E \subseteq T \ {v}
    BY <1>8 DEF Earlier
<1> HIDE DEF T
<1>10. /\ IsFiniteSet(T \ {v}) /\ Cardinality(T \ {v}) = Cardinality(T) - 1
       /\ Cardinality(T) \in Nat
    BY <1>5, <1>7, FS_RemoveElement, FS_CardinalityType
<1>11. IsFiniteSet(E) /\ Cardinality(E) <= Cardinality(T \ {v})
    BY <1>9, <1>10, FS_Subset
<1>12. Cardinality(E) \in Nat
    BY <1>11, FS_CardinalityType
<1>13. Len(Scratch[bank]) \in Nat /\ DOMAIN Scratch[bank] = 1 .. Len(Scratch[bank])
    BY <1>4
<1> HIDE DEF bank, E
<1>14. Cardinality(E) + 1 <= Len(Scratch[bank])
    BY <1>6, <1>10, <1>11, <1>12, <1>13
<1>15. Cardinality(E) + 1 \in DOMAIN Scratch[bank]
    BY <1>12, <1>13, <1>14
<1>16. ScratchFor(i, v) = Scratch[bank][IF Cardinality(E) + 1 <= Len(Scratch[bank])
                                        THEN Cardinality(E) + 1 ELSE Len(Scratch[bank])]
    BY DEF ScratchFor, E, Earlier, bank
<1> QED
    BY <1>3, <1>4, <1>12, <1>14, <1>15, <1>16 DEF bank, E

\* Scratch registers are in no pool, and nobody's to save.
LEMMA ScratchRegs ==
    ASSUME IInv, Analysed, NEW i \in Insts(prog), NEW v \in DefOf(i) \cup UsesOf(i)
    PROVE  ScratchFor(i, v) \in Regs \ (Pool \cup CalleeSaved)
<1> DEFINE bank == Bank(prog.cls[v])
           n == Cardinality(Earlier(i, v)) + 1
<1>1. /\ bank \in Banks /\ Scratch[bank] \in Seq(Regs)
      /\ n \in DOMAIN Scratch[bank] /\ ScratchFor(i, v) = Scratch[bank][n]
    BY ScratchOf
<1> HIDE DEF bank, n
<1>2. PoolRegs(Scratch[bank]) \cap (Pool \cup CalleeSaved) = {}
    BY <1>1, LinearScanAssumption
<1>3. Scratch[bank][n] \in Regs
    BY <1>1
<1> QED
    BY <1>1, <1>2, <1>3 DEF PoolRegs

\* Of two spilled operands of one bank the later has more before it.
LEMMA EarlierGrows ==
    ASSUME IInv, Analysed, NEW i \in Insts(prog),
           NEW u \in DefOf(i) \cup UsesOf(i), NEW v \in DefOf(i) \cup UsesOf(i),
           assigned[u] = NoReg, Bank(prog.cls[u]) = Bank(prog.cls[v]),
           FirstIndex(i, u) < FirstIndex(i, v)
    PROVE  Cardinality(Earlier(i, u)) < Cardinality(Earlier(i, v))
<1> DEFINE A == Earlier(i, u)
           B == Earlier(i, v)
<1>1. i \in Instructions
    BY InstsType DEF IInv, Bookkeeping
<1>2. IsFiniteSet(A) /\ IsFiniteSet(B)
  <2>1. A \subseteq DefOf(i) \cup UsesOf(i) /\ B \subseteq DefOf(i) \cup UsesOf(i)
      BY DEF Earlier
  <2> QED
      BY <2>1, <1>1, OperandsFinite, FS_Subset
<1>3. \A w \in DefOf(i) \cup UsesOf(i) : FirstIndex(i, w) \in Nat
    BY <1>1, FirstIndexOf
<1>4. u \notin A /\ u \in B
    BY <1>3 DEF Earlier
<1>5. A \subseteq B
    BY <1>3 DEF Earlier
<1> HIDE DEF A, B
<1>6. IsFiniteSet(A \cup {u}) /\ Cardinality(A \cup {u}) = Cardinality(A) + 1
    BY <1>2, <1>4, FS_AddElement
<1>7. Cardinality(A \cup {u}) <= Cardinality(B)
    BY <1>2, <1>4, <1>5, FS_Subset
<1>8. Cardinality(A) \in Nat /\ Cardinality(B) \in Nat
    BY <1>2, FS_CardinalityType
<1> QED
    BY <1>6, <1>7, <1>8 DEF A, B

\* Two spilled operands of an instruction never share a scratch register.
LEMMA ScratchApart ==
    ASSUME IInv, Analysed, NEW i \in Insts(prog),
           NEW u \in DefOf(i) \cup UsesOf(i), NEW v \in DefOf(i) \cup UsesOf(i),
           assigned[u] = NoReg, assigned[v] = NoReg,
           ScratchFor(i, u) = ScratchFor(i, v)
    PROVE  u = v
<1> DEFINE m == Cardinality(Earlier(i, u)) + 1
           n == Cardinality(Earlier(i, v)) + 1
<1>1. i \in Instructions
    BY InstsType DEF IInv, Bookkeeping
<1>2. /\ Bank(prog.cls[u]) \in Banks /\ m \in DOMAIN Scratch[Bank(prog.cls[u])]
      /\ ScratchFor(i, u) = Scratch[Bank(prog.cls[u])][m]
      /\ Cardinality(Earlier(i, u)) \in Nat
    BY ScratchOf
<1>3. /\ Bank(prog.cls[v]) \in Banks /\ n \in DOMAIN Scratch[Bank(prog.cls[v])]
      /\ ScratchFor(i, v) = Scratch[Bank(prog.cls[v])][n]
      /\ Cardinality(Earlier(i, v)) \in Nat
    BY ScratchOf
<1>4. Bank(prog.cls[u]) = Bank(prog.cls[v]) /\ m = n
  <2> DEFINE a == Bank(prog.cls[u])
             b == Bank(prog.cls[v])
  <2>1. \A x, y \in Banks : \A j \in DOMAIN Scratch[x], k \in DOMAIN Scratch[y] :
          Scratch[x][j] = Scratch[y][k] => x = y /\ j = k
      BY LinearScanAssumption
  <2>2. /\ a \in Banks /\ b \in Banks /\ m \in DOMAIN Scratch[a] /\ n \in DOMAIN Scratch[b]
        /\ Scratch[a][m] = Scratch[b][n]
      BY <1>2, <1>3
  <2> HIDE DEF m, n, a, b
  <2>3. a = b /\ m = n
      BY <2>1, <2>2
  <2> QED
      BY <2>3 DEF a, b
<1>5. Cardinality(Earlier(i, u)) = Cardinality(Earlier(i, v))
    BY <1>2, <1>3, <1>4
<1>6. /\ FirstIndex(i, u) \in Nat /\ i.ops[FirstIndex(i, u)] = u
      /\ FirstIndex(i, v) \in Nat /\ i.ops[FirstIndex(i, v)] = v
    BY <1>1, FirstIndexOf
<1>7. ~(FirstIndex(i, u) < FirstIndex(i, v))
    BY <1>2, <1>3, <1>4, <1>5, EarlierGrows
<1>8. ~(FirstIndex(i, v) < FirstIndex(i, u))
    BY <1>2, <1>3, <1>4, <1>5, EarlierGrows
<1> QED
    BY <1>6, <1>7, <1>8

-----------------------------------------------------------------------------
(* The rewritten instruction.                                              *)

\* What the rewritten function is made of.
Pieces ==
    [kind : {"load", "store"}, v : Vregs, reg : Regs]
    \cup [kind : {"inst"}, inst : Instructions, regs : Seq(Regs)]

\* The registers of the operands.
LEMMA RegistersType ==
    ASSUME IInv, Analysed, NEW i \in Insts(prog)
    PROVE  /\ Registers(i) \in Seq(Regs)
           /\ \A k \in DOMAIN i.ops :
                 /\ i.ops[k] \in Vregs /\ i.ops[k] \in DefOf(i) \cup UsesOf(i)
                 /\ Registers(i)[k] \in Regs
                 /\ Spilled(i.ops[k]) =>
                       /\ Registers(i)[k] = ScratchFor(i, i.ops[k])
                       /\ Registers(i)[k] \notin Pool \cup CalleeSaved
                 /\ ~Spilled(i.ops[k]) => Registers(i)[k] = assigned[i.ops[k]]
<1>1. i \in Instructions
    BY InstsType DEF IInv, Bookkeeping
<1>2. /\ Len(i.ops) \in Nat /\ DOMAIN i.ops = 1 .. Len(i.ops)
      /\ \A k \in DOMAIN i.ops : i.ops[k] \in Vregs /\ i.ops[k] \in DefOf(i) \cup UsesOf(i)
    BY <1>1, InstType
<1>3. assigned \in [Vregs -> Regs \cup {NoReg}]
    BY DEF IInv, TypeOK
<1>4. ASSUME NEW k \in DOMAIN i.ops
      PROVE  /\ Registers(i)[k] \in Regs
             /\ Spilled(i.ops[k]) =>
                   /\ Registers(i)[k] = ScratchFor(i, i.ops[k])
                   /\ Registers(i)[k] \notin Pool \cup CalleeSaved
             /\ ~Spilled(i.ops[k]) => Registers(i)[k] = assigned[i.ops[k]]
  <2>1. Registers(i)[k] = RegFor(i, i.ops[k])
      BY DEF Registers
  <2>2. ScratchFor(i, i.ops[k]) \in Regs \ (Pool \cup CalleeSaved)
      BY <1>2, ScratchRegs
  <2> QED
      BY <2>1, <2>2, <1>2, <1>3 DEF RegFor, Spilled
<1>5. Registers(i) = [k \in 1 .. Len(i.ops) |-> RegFor(i, i.ops[k])]
    BY <1>2 DEF Registers
<1>6. \A k \in 1 .. Len(i.ops) : RegFor(i, i.ops[k]) \in Regs
    BY <1>2, <1>4, <1>5
<1>7. Registers(i) \in Seq(Regs)
    BY <1>2, <1>5, <1>6
<1> QED
    BY <1>2, <1>4, <1>7

\* The reloads: every operand that needs one finds its value in its register
\* after one of them, and they do nothing else.
LEMMA ReloadsShape ==
    ASSUME IInv, Analysed, NEW i \in Insts(prog)
    PROVE  /\ Reloads(i) \in Seq(Pieces)
           /\ \A o \in 1 .. Len(Reloads(i)) : \E m \in DOMAIN i.ops :
                 NeedsReload(i, m) /\ Reloads(i)[o] = Load(i.ops[m], Registers(i)[m])
           /\ \A m \in DOMAIN i.ops : NeedsReload(i, m) =>
                 \E o \in 1 .. Len(Reloads(i)) :
                    Reloads(i)[o] = Load(i.ops[m], Registers(i)[m])
<1> DEFINE Once(k) == /\ NeedsReload(i, k)
                      /\ \A j \in 1 .. k - 1 :
                           ~(NeedsReload(i, j) /\ Registers(i)[j] = Registers(i)[k])
           Part(k) == IF Once(k) THEN <<Load(i.ops[k], Registers(i)[k])>> ELSE <<>>
           n == Len(i.ops)
           s == [k \in 1 .. n |-> Part(k)]
<1>1. i \in Instructions
    BY InstsType DEF IInv, Bookkeeping
<1>2. n \in Nat /\ DOMAIN i.ops = 1 .. n
    BY <1>1, InstType
<1>3. \A k \in 1 .. n :
        /\ i.ops[k] \in Vregs /\ i.ops[k] \in DefOf(i) \cup UsesOf(i)
        /\ Registers(i)[k] \in Regs
        /\ Spilled(i.ops[k]) => Registers(i)[k] = ScratchFor(i, i.ops[k])
    BY <1>2, RegistersType
<1>4. Reloads(i) = FlattenSeq(s)
    BY <1>2 DEF Reloads
<1>5. \A k \in 1 .. n : Load(i.ops[k], Registers(i)[k]) \in Pieces
    BY <1>3 DEF Load, Pieces
<1> HIDE DEF n
<1>6. \A k \in 1 .. n : Part(k) \in Seq(Pieces)
  <2> SUFFICES ASSUME NEW k \in 1 .. n PROVE Part(k) \in Seq(Pieces)
      OBVIOUS
  <2> DEFINE x == Load(i.ops[k], Registers(i)[k])
  <2>1. x \in Pieces
      BY <1>5
  <2> HIDE DEF x
  <2>2. <<x>> \in Seq(Pieces) /\ <<>> \in Seq(Pieces)
      BY <2>1
  <2>3. Part(k) = <<x>> \/ Part(k) = <<>>
      BY DEF x
  <2> QED
      BY <2>2, <2>3
<1>7. s \in Seq(Seq(Pieces)) /\ Len(s) = n
  <2> HIDE DEF Part
  <2> QED
      BY <1>2, <1>6
<1>8. \A k \in 1 .. n : s[k] = Part(k)
    OBVIOUS
<1> HIDE DEF s
<1>9. Reloads(i) \in Seq(Pieces) /\ \E f : Layout(f, s, Reloads(i))
    BY <1>4, <1>7, Flattened
<1>10. PICK f : Layout(f, s, Reloads(i))
    BY <1>9
<1>11. ASSUME NEW k \in 1 .. n, Once(k)
       PROVE  \E o \in 1 .. Len(Reloads(i)) :
                 Reloads(i)[o] = Load(i.ops[k], Registers(i)[k])
  <2> DEFINE x == Load(i.ops[k], Registers(i)[k])
  <2>1. s[k] = <<x>>
      BY <1>8, <1>11
  <2> HIDE DEF x
  <2>2. 1 \in 1 .. Len(s[k]) /\ s[k][1] = x
      BY <2>1
  <2>3. f[k - 1] + 1 \in 1 .. Len(Reloads(i)) /\ Reloads(i)[f[k - 1] + 1] = s[k][1]
      BY <1>7, <1>10, <2>2 DEF Layout
  <2> QED
      BY <2>2, <2>3 DEF x
<1>12. ASSUME NEW o \in 1 .. Len(Reloads(i))
       PROVE  \E m \in 1 .. n :
                 NeedsReload(i, m) /\ Reloads(i)[o] = Load(i.ops[m], Registers(i)[m])
  <2>1. PICK k \in 1 .. n : \E p \in 1 .. Len(s[k]) : o = f[k - 1] + p
      BY <1>7, <1>10 DEF Layout
  <2>2. PICK p \in 1 .. Len(s[k]) : o = f[k - 1] + p
      BY <2>1
  <2>3. Reloads(i)[o] = s[k][p]
      BY <1>7, <1>10, <2>2 DEF Layout
  <2>4. Once(k)
    <3>1. s[k] # <<>>
        BY <2>2
    <3> QED
        BY <3>1, <1>8
  <2> DEFINE x == Load(i.ops[k], Registers(i)[k])
  <2>5. s[k] = <<x>>
      BY <1>8, <2>4
  <2> HIDE DEF x
  <2>6. s[k][p] = x
      BY <2>5, <2>2
  <2> QED
      BY <2>3, <2>4, <2>6 DEF x
<1>13. ASSUME NEW m \in 1 .. n, NeedsReload(i, m)
       PROVE  \E o \in 1 .. Len(Reloads(i)) :
                 Reloads(i)[o] = Load(i.ops[m], Registers(i)[m])
  <2> DEFINE S == {j \in 1 .. n : NeedsReload(i, j) /\ Registers(i)[j] = Registers(i)[m]}
             k == Least(S)
  <2>1. S \subseteq Nat /\ S # {}
      BY <1>2, <1>13
  <2>2. k \in S /\ \A j \in S : k <= j
    <3> HIDE DEF S
    <3> QED
        BY <2>1, LeastOfNat
  <2> HIDE DEF k
  <2>3. k \in 1 .. n /\ NeedsReload(i, k) /\ Registers(i)[k] = Registers(i)[m]
      BY <2>2
  <2>4. Once(k)
    <3>1. \A j \in 1 .. k - 1 : j \in 1 .. n /\ ~(k <= j)
        BY <2>3, <1>2
    <3>2. \A j \in 1 .. k - 1 : j \notin S
        BY <3>1, <2>2
    <3> QED
        BY <3>1, <3>2, <2>3
  <2>5. i.ops[k] = i.ops[m]
    <3>1. Spilled(i.ops[k]) /\ Spilled(i.ops[m])
        BY <2>3, <1>13 DEF NeedsReload
    <3>2. ScratchFor(i, i.ops[k]) = ScratchFor(i, i.ops[m])
        BY <3>1, <1>3, <2>3
    <3> QED
        BY <3>1, <3>2, <1>3, <2>3, ScratchApart DEF Spilled
  <2> HIDE DEF Once
  <2> QED
      BY <2>3, <2>4, <2>5, <1>11
<1> QED
    BY <1>2, <1>9, <1>12, <1>13

\* Whether the definition goes back to its slot.
StoresBack(i) == i.def /\ Spilled(i.ops[1])

\* The reloads, the instruction, and perhaps a store.
LEMMA RewrittenShape ==
    ASSUME IInv, Analysed, NEW i \in Insts(prog)
    PROVE  /\ Rewritten(i) \in Seq(Pieces)
           /\ Len(Reloads(i)) \in Nat
           /\ Len(Rewritten(i)) = Len(Reloads(i)) + (IF StoresBack(i) THEN 2 ELSE 1)
           /\ \A o \in 1 .. Len(Reloads(i)) : Rewritten(i)[o] = Reloads(i)[o]
           /\ Rewritten(i)[Len(Reloads(i)) + 1] = Inst(i, Registers(i))
           /\ StoresBack(i) => Rewritten(i)[Len(Reloads(i)) + 2] =
                                  Store(i.ops[1], Registers(i)[1])
<1> DEFINE a == Reloads(i)
           x == Inst(i, Registers(i))
           y == Store(i.ops[1], Registers(i)[1])
           n == Len(a)
<1>1. i \in Instructions /\ (i.def => 1 \in DOMAIN i.ops)
    BY InstsType, InstType DEF IInv, Bookkeeping
<1>2. a \in Seq(Pieces)
    BY ReloadsShape
<1>3. x \in Pieces
    BY <1>1, RegistersType DEF Inst, Pieces
<1>4. i.def => y \in Pieces
    BY <1>1, RegistersType DEF Store, Pieces
<1>5. Rewritten(i) = a \o <<x>> \o (IF StoresBack(i) THEN <<y>> ELSE <<>>)
    BY DEF Rewritten, StoresBack
<1>6. i.def \in BOOLEAN /\ StoresBack(i) \in BOOLEAN /\ (StoresBack(i) => i.def)
    BY <1>1, InstType DEF StoresBack, Spilled
<1> HIDE DEF a, x, y
<1>7. n \in Nat
    BY <1>2
<1> DEFINE z == <<x>>
           b == a \o z
<1>8. z \in Seq(Pieces) /\ Len(z) = 1 /\ z[1] = x
    BY <1>3
<1> HIDE DEF z
<1>9. /\ b \in Seq(Pieces) /\ Len(b) = n + 1
      /\ \A o \in 1 .. n + 1 : b[o] = IF o <= n THEN a[o] ELSE z[o - n]
  <2>1. /\ b \in Seq(Pieces) /\ Len(b) = n + Len(z)
        /\ \A o \in 1 .. n + Len(z) : b[o] = IF o <= n THEN a[o] ELSE z[o - n]
      BY <1>2, <1>8, ConcatProperties
  <2> QED
      BY <2>1, <1>8
<1> HIDE DEF b, n
<1>10. /\ \A o \in 1 .. n : b[o] = a[o]
       /\ b[n + 1] = x
  <2>1. \A o \in 1 .. n : o \in 1 .. n + 1 /\ o <= n
      BY <1>7
  <2> DEFINE m == n + 1
  <2>2. m \in 1 .. m /\ ~(m <= n) /\ m - n = 1 /\ m \in Nat
      BY <1>7
  <2>3. b[m] = IF m <= n THEN a[m] ELSE z[m - n]
      BY <1>9, <2>2
  <2> HIDE DEF m
  <2>4. b[m] = z[1]
      BY <2>2, <2>3
  <2> QED
      BY <1>8, <1>9, <2>1, <2>4 DEF m
<1>11. CASE StoresBack(i)
  <2> DEFINE c == b \o <<y>>
  <2>1. <<y>> \in Seq(Pieces) /\ Len(<<y>>) = 1 /\ <<y>>[1] = y
      BY <1>4, <1>6, <1>11
  <2>2. Rewritten(i) = c
      BY <1>5, <1>11 DEF b, z
  <2>3. /\ c \in Seq(Pieces) /\ Len(c) = Len(b) + 1
        /\ \A o \in 1 .. Len(b) + 1 : c[o] = IF o <= Len(b) THEN b[o] ELSE <<y>>[o - Len(b)]
      BY <1>9, <2>1, ConcatProperties
  <2> HIDE DEF c
  <2>4. Len(b) \in Nat /\ Len(c) = n + 2
      BY <1>7, <1>9, <2>3
  <2>5. \A o \in 1 .. n + 1 : o \in 1 .. Len(b) + 1 /\ o <= Len(b)
      BY <1>7, <1>9
  <2>6. \A o \in 1 .. n + 1 : c[o] = b[o]
      BY <2>3, <2>5
  <2>7. c[n + 2] = y
    <3>1. n + 2 \in 1 .. Len(b) + 1 /\ ~(n + 2 <= Len(b)) /\ n + 2 - Len(b) = 1
        BY <1>7, <1>9
    <3>2. c[n + 2] = <<y>>[1]
        BY <2>3, <3>1
    <3> QED
        BY <2>1, <3>2
  <2>8. n + 1 \in 1 .. n + 1 /\ \A o \in 1 .. n : o \in 1 .. n + 1
      BY <1>7
  <2> QED
      BY <1>7, <1>10, <1>11, <2>2, <2>3, <2>4, <2>6, <2>7, <2>8 DEF a, x, y, n
<1>12. CASE ~StoresBack(i)
  <2>1. Rewritten(i) = b \o <<>>
      BY <1>5, <1>12 DEF b, z
  <2>2. b \o <<>> = b
      BY <1>9, ConcatEmptySeq
  <2> QED
      BY <1>7, <1>9, <1>10, <1>12, <2>1, <2>2 DEF a, x, y, n
<1> QED
    BY <1>6, <1>11, <1>12

-----------------------------------------------------------------------------
(* The rewritten block.                                                    *)

\* The rewritten instructions of block b, one by one.
Parts(b) == [k \in DOMAIN prog.blocks[b] |-> Rewritten(prog.blocks[b][k])]

\* How far the instructions before instruction k reach.
Starts(b) == CHOOSE f : Layout(f, Parts(b), RewrittenBlock(prog.blocks[b]))

\* Where everything is.
LEMMA BlockShape ==
    ASSUME IInv, Analysed, NEW b \in Blocks(prog)
    PROVE  /\ RewrittenBlock(prog.blocks[b]) \in Seq(Pieces)
           /\ Len(Parts(b)) = Len(prog.blocks[b])
           /\ Layout(Starts(b), Parts(b), RewrittenBlock(prog.blocks[b]))
           /\ \A k \in 1 .. Len(prog.blocks[b]) :
                 /\ prog.blocks[b][k] \in Insts(prog)
                 /\ Parts(b)[k] = Rewritten(prog.blocks[b][k])
<1> DEFINE n == Len(prog.blocks[b])
           s == Parts(b)
           t == RewrittenBlock(prog.blocks[b])
<1>1. prog \in Programs
    BY DEF IInv, Bookkeeping
<1>2. n \in Nat /\ DOMAIN prog.blocks[b] = 1 .. n
    BY <1>1, ProgramType
<1>3. \A k \in 1 .. n : prog.blocks[b][k] \in Insts(prog)
    BY DEF Insts
<1>4. \A k \in 1 .. n : Rewritten(prog.blocks[b][k]) \in Seq(Pieces)
    BY <1>3, RewrittenShape
<1>5. s = [k \in 1 .. n |-> Rewritten(prog.blocks[b][k])]
    BY <1>2 DEF Parts
<1>6. t = FlattenSeq(s)
    BY DEF RewrittenBlock, Parts
<1> HIDE DEF n, s, t
<1>7. s \in Seq(Seq(Pieces)) /\ Len(s) = n
    BY <1>2, <1>4, <1>5
<1>8. t \in Seq(Pieces) /\ \E f : Layout(f, s, t)
    BY <1>6, <1>7, Flattened
<1>9. Layout(Starts(b), s, t)
    BY <1>8 DEF Starts, s, t
<1> QED
    BY <1>3, <1>5, <1>7, <1>8, <1>9 DEF n, s, t

-----------------------------------------------------------------------------
(* Executing the rewritten function.                                       *)

\* Where the value of v is kept between instructions.
Loc(v) == IF Spilled(v) THEN v ELSE assigned[v]

\* The values of S that exist are where they are kept.
InPlace(h, d, S) == \A v \in S \cap d : h[Loc(v)] = v

\* Before piece o of instruction k of block b: the reloads before o have brought
\* their values, and what is live is in place; between the instruction and the
\* store of its definition the definition is still in its scratch register.
AtPoint(h, d, b, k, o) ==
    LET i == prog.blocks[b][k]
    IN IF o <= Len(Reloads(i)) + 1
       THEN /\ InPlace(h, d, LiveAt(b, k))
            /\ \A j \in 1 .. o - 1 :
                  Reloads(i)[j].v \in d => h[Reloads(i)[j].reg] = Reloads(i)[j].v
       ELSE /\ InPlace(h, d, LiveAt(b, k + 1) \ {i.ops[1]})
            /\ h[Registers(i)[1]] = i.ops[1]

\* At position p of block b.
Standing(b, p, h, d) ==
    \/ /\ p = Len(RewrittenBlock(prog.blocks[b])) + 1
       /\ InPlace(h, d, liveOut[b])
    \/ \E k \in 1 .. Len(prog.blocks[b]) :
          \E o \in 1 .. Len(Rewritten(prog.blocks[b][k])) :
             p = Starts(b)[k - 1] + o /\ AtPoint(h, d, b, k, o)

HoldsType(h) == h \in [Regs \cup Vregs -> Vregs \cup {Junk}]

\* Where a value is kept.
LEMMA LocType ==
    ASSUME IInv, Analysed, NEW v \in Vregs
    PROVE  /\ Loc(v) \in Regs \cup Vregs
           /\ Spilled(v) => Loc(v) = v /\ Loc(v) \notin Regs
           /\ ~Spilled(v) => Loc(v) = assigned[v] /\ Loc(v) \in Regs \cap Pool
<1>1. assigned \in [Vregs -> Regs \cup {NoReg}]
    BY DEF IInv, TypeOK
<1>2. v \notin Regs
    BY MirAssumption
<1>3. assigned[v] # NoReg => assigned[v] \in Pool
    BY DEF Analysed
<1> QED
    BY <1>1, <1>2, <1>3 DEF Loc, Spilled

\* The end of an instruction is the start of the next one, or of the branch.
LEMMA Arrive ==
    ASSUME IInv, Analysed, NEW b \in Blocks(prog), NEW k \in 0 .. Len(prog.blocks[b]),
           NEW h, NEW d, InPlace(h, d, LiveAt(b, k + 1))
    PROVE  Standing(b, Starts(b)[k] + 1, h, d)
<1> DEFINE n == Len(prog.blocks[b])
           t == RewrittenBlock(prog.blocks[b])
<1>1. prog \in Programs
    BY DEF IInv, Bookkeeping
<1>2. n \in Nat
    BY <1>1, ProgramType
<1>3. Layout(Starts(b), Parts(b), t) /\ Len(Parts(b)) = n
    BY BlockShape
<1>4. CASE k = n
  <2>1. Starts(b)[k] = Len(t)
      BY <1>3, <1>4 DEF Layout
  <2>2. liveOut[b] \subseteq Vregs
      BY DEF Analysed
  <2>3. liveOut[b] \subseteq LiveAt(b, n + 1)
      BY <1>2, <2>2, LiveLeave
  <2>4. InPlace(h, d, liveOut[b])
      BY <2>3, <1>4 DEF InPlace
  <2> QED
      BY <2>1, <2>4 DEF Standing
<1>5. CASE k # n
  <2> DEFINE i == prog.blocks[b][k + 1]
  <2>1. k + 1 \in 1 .. n /\ (k + 1) - 1 = k
      BY <1>2, <1>5
  <2>2. i \in Insts(prog)
      BY <2>1, BlockShape
  <2>3. Len(Reloads(i)) \in Nat
        /\ Len(Rewritten(i)) = Len(Reloads(i)) + (IF StoresBack(i) THEN 2 ELSE 1)
      BY <2>2, RewrittenShape
  <2>4. 1 \in 1 .. Len(Rewritten(i)) /\ 1 <= Len(Reloads(i)) + 1
      BY <2>3
  <2>5. \A j \in 1 .. 1 - 1 : FALSE
      OBVIOUS
  <2>6. AtPoint(h, d, b, k + 1, 1)
      BY <2>4, <2>5 DEF AtPoint
  <2>7. Starts(b)[k] + 1 = Starts(b)[(k + 1) - 1] + 1
      BY <2>1
  <2> QED
      BY <2>1, <2>4, <2>6, <2>7 DEF Standing
<1> QED
    BY <1>4, <1>5

\* A reload changes a scratch register only.
LEMMA LoadStep ==
    ASSUME IInv, Analysed, NEW b \in Blocks(prog), NEW k \in 1 .. Len(prog.blocks[b]),
           NEW o \in 1 .. Len(Reloads(prog.blocks[b][k])),
           NEW h, HoldsType(h), NEW d \in SUBSET Vregs, AtPoint(h, d, b, k, o)
    PROVE  LET x == Reloads(prog.blocks[b][k])[o]
               g == [h EXCEPT ![x.reg] = h[x.v]]
           IN  x.kind = "load" /\ HoldsType(g) /\ AtPoint(g, d, b, k, o + 1)
<1> DEFINE i == prog.blocks[b][k]
           x == Reloads(i)[o]
           g == [h EXCEPT ![x.reg] = h[x.v]]
           n == Len(Reloads(i))
<1>1. prog \in Programs
    BY DEF IInv, Bookkeeping
<1>2. i \in Insts(prog) /\ i \in Instructions
    BY <1>1, BlockShape, InstsType
<1>3. n \in Nat /\ o \in Nat /\ o >= 1 /\ o <= n
    BY <1>2, RewrittenShape
<1>4. PICK m \in DOMAIN i.ops : NeedsReload(i, m) /\ x = Load(i.ops[m], Registers(i)[m])
    BY <1>2, ReloadsShape
<1>5. x.kind = "load" /\ x.v = i.ops[m] /\ x.reg = Registers(i)[m]
    BY <1>4 DEF Load
<1>6. /\ x.v \in Vregs /\ x.reg \in Regs /\ x.reg \notin Pool /\ Spilled(x.v)
      /\ x.v \in DefOf(i) \cup UsesOf(i) /\ x.reg = ScratchFor(i, x.v)
    BY <1>2, <1>4, <1>5, RegistersType DEF NeedsReload
<1>7. x.v \in ReadsOf(i)
    BY <1>4, <1>5 DEF NeedsReload, ReadsOf
<1>8. x.v \in LiveAt(b, k)
    BY <1>1, <1>7, LiveRead
<1>9. /\ InPlace(h, d, LiveAt(b, k))
      /\ \A j \in 1 .. o - 1 :
            Reloads(i)[j].v \in d => h[Reloads(i)[j].reg] = Reloads(i)[j].v
  <2>1. o <= n + 1
      BY <1>3
  <2> QED
      BY <2>1 DEF AtPoint
<1>10. HoldsType(g)
    BY <1>6 DEF HoldsType
<1>11. /\ g[x.reg] = h[x.v]
       /\ \A l \in Regs \cup Vregs : l # x.reg => g[l] = h[l]
    BY <1>6 DEF HoldsType
<1> HIDE DEF g
<1>12. InPlace(g, d, LiveAt(b, k))
  <2> SUFFICES ASSUME NEW v \in LiveAt(b, k) \cap d PROVE g[Loc(v)] = v
      BY DEF InPlace
  <2>1. v \in Vregs /\ h[Loc(v)] = v
      BY <1>9 DEF InPlace
  <2>2. Loc(v) \in Regs \cup Vregs /\ Loc(v) # x.reg
      BY <2>1, <1>6, LocType
  <2> QED
      BY <2>1, <2>2, <1>11
<1>13. x.v \in d => g[x.reg] = x.v
  <2>1. Loc(x.v) = x.v
      BY <1>6, LocType
  <2>2. x.v \in d => h[x.v] = x.v
      BY <2>1, <1>8, <1>9 DEF InPlace
  <2> QED
      BY <2>2, <1>11
<1>14. ASSUME NEW j \in 1 .. o, Reloads(i)[j].v \in d
       PROVE  g[Reloads(i)[j].reg] = Reloads(i)[j].v
  <2> DEFINE y == Reloads(i)[j]
  <2>1. CASE j = o
      BY <2>1, <1>13, <1>14
  <2>2. CASE j # o
    <3>1. j \in 1 .. o - 1 /\ j \in 1 .. n
        BY <1>3, <2>2
    <3>2. h[y.reg] = y.v
        BY <3>1, <1>9, <1>14
    <3>3. PICK p \in DOMAIN i.ops : NeedsReload(i, p) /\ y = Load(i.ops[p], Registers(i)[p])
        BY <3>1, <1>2, ReloadsShape
    <3>4. y.v = i.ops[p] /\ y.reg = Registers(i)[p]
        BY <3>3 DEF Load
    <3>5. /\ y.v \in Vregs /\ y.reg \in Regs /\ Spilled(y.v)
          /\ y.v \in DefOf(i) \cup UsesOf(i) /\ y.reg = ScratchFor(i, y.v)
        BY <1>2, <3>3, <3>4, RegistersType DEF NeedsReload
    <3> HIDE DEF x, y
    <3>6. y.reg = x.reg => y.v = x.v
        BY <1>2, <1>6, <3>5, ScratchApart DEF Spilled
    <3>7. CASE y.reg = x.reg
        BY <3>6, <3>7, <1>13, <1>14 DEF y
    <3>8. CASE y.reg # x.reg
        BY <3>8, <3>2, <3>5, <1>11 DEF y
    <3> QED
        BY <3>7, <3>8
  <2> QED
      BY <2>1, <2>2
<1>15. AtPoint(g, d, b, k, o + 1)
  <2>1. o + 1 <= n + 1 /\ (o + 1) - 1 = o
      BY <1>3
  <2> QED
      BY <2>1, <1>12, <1>14 DEF AtPoint
<1> QED
    BY <1>5, <1>10, <1>15 DEF g

\* At the instruction itself every operand it reads is in its register.
LEMMA OperandsReady ==
    ASSUME IInv, Analysed, NEW b \in Blocks(prog), NEW k \in 1 .. Len(prog.blocks[b]),
           NEW h, NEW d, AtPoint(h, d, b, k, Len(Reloads(prog.blocks[b][k])) + 1),
           NEW m \in ReadIndexes(prog.blocks[b][k]), prog.blocks[b][k].ops[m] \in d
    PROVE  h[Registers(prog.blocks[b][k])[m]] = prog.blocks[b][k].ops[m]
<1> DEFINE i == prog.blocks[b][k]
           n == Len(Reloads(i))
           v == i.ops[m]
<1>1. prog \in Programs
    BY DEF IInv, Bookkeeping
<1>2. i \in Insts(prog) /\ i \in Instructions
    BY <1>1, BlockShape, InstsType
<1>3. n \in Nat
    BY <1>2, RewrittenShape
<1>4. m \in DOMAIN i.ops
    BY <1>2, InstType
<1>5. /\ InPlace(h, d, LiveAt(b, k))
      /\ \A j \in 1 .. n :
            Reloads(i)[j].v \in d => h[Reloads(i)[j].reg] = Reloads(i)[j].v
  <2>1. n + 1 <= n + 1 /\ (n + 1) - 1 = n
      BY <1>3
  <2> QED
      BY <2>1 DEF AtPoint
<1>6. v \in ReadsOf(i)
    BY DEF ReadsOf
<1>7. v \in LiveAt(b, k)
    BY <1>1, <1>6, LiveRead
<1>8. CASE Spilled(v)
  <2>1. NeedsReload(i, m)
      BY <1>8 DEF NeedsReload
  <2>2. PICK j \in 1 .. n : Reloads(i)[j] = Load(v, Registers(i)[m])
      BY <2>1, <1>2, <1>4, ReloadsShape
  <2>3. Reloads(i)[j].v = v /\ Reloads(i)[j].reg = Registers(i)[m]
      BY <2>2 DEF Load
  <2> QED
      BY <2>3, <1>5
<1>9. CASE ~Spilled(v)
  <2>1. Registers(i)[m] = assigned[v] /\ v \in Vregs
      BY <1>2, <1>4, <1>9, RegistersType
  <2>2. Loc(v) = assigned[v]
      BY <1>9 DEF Loc
  <2> QED
      BY <2>1, <2>2, <1>5, <1>7 DEF InPlace
<1> QED
    BY <1>8, <1>9

\* The instruction destroys nothing that lives through it: its definition goes to
\* another register, since the intervals overlap; it writes no register of a pool by
\* name; and what lives through a call is in a callee-saved register and does not
\* need more of it than calls preserve.
LEMMA LivesThrough ==
    ASSUME IInv, Analysed, phase = "run", HoldsType(holds),
           NEW b \in Blocks(prog), NEW k \in 1 .. Len(prog.blocks[b]),
           NEW v \in LiveAt(b, k + 1), v \notin DefOf(prog.blocks[b][k]),
           holds[Loc(v)] = v
    PROVE  AfterInst(prog.blocks[b][k], Registers(prog.blocks[b][k]))[Loc(v)] = v
<1> DEFINE i == prog.blocks[b][k]
           r == Loc(v)
           p == First(b) + k - 1
<1>1. prog \in Programs
    BY DEF IInv, Bookkeeping
<1>2. i \in Insts(prog) /\ i \in Instructions
    BY <1>1, BlockShape, InstsType
<1>3. iv = Intervals /\ Fix(b)
    BY DEF Analysed
<1>4. /\ v \in Vregs /\ iv[v].start <= p /\ First(b) + k <= iv[v].end
    BY <1>1, <1>3, LiveCovered
<1>5. r \in Regs \cup Vregs
    BY <1>4, LocType
<1>6. v # Junk
    BY <1>4, MirAssumption
<1>7. ~(i.def /\ r = Registers(i)[1])
  <2> SUFFICES ASSUME i.def, r = Registers(i)[1] PROVE FALSE
      OBVIOUS
  <2> DEFINE w == i.ops[1]
  <2>1. 1 \in DOMAIN i.ops /\ w \in DefOf(i)
      BY <1>2, InstType DEF DefOf
  <2>2. w # v
      BY <2>1
  <2>3. w \in Vregs /\ Registers(i)[1] \in Regs
      BY <1>2, <2>1, RegistersType
  <2>4. ~Spilled(v) /\ r = assigned[v] /\ r \in Pool
      BY <2>3, <1>4, LocType
  <2>5. ~Spilled(w) /\ r = assigned[w]
    <3>1. /\ Spilled(w) => Registers(i)[1] \notin Pool \cup CalleeSaved
          /\ ~Spilled(w) => Registers(i)[1] = assigned[w]
        BY <1>2, <2>1, RegistersType
    <3> QED
        BY <3>1, <2>4
  <2>6. iv[v].end <= iv[w].start \/ iv[w].end <= iv[v].start
      BY <1>4, <2>2, <2>3, <2>4, <2>5 DEF IInv, NoSharing, Spilled
  <2>7. iv[w].start <= p /\ First(b) + k <= iv[w].end
      BY <1>1, <1>3, <2>1, OperandCovered
  <2>8. /\ iv[v].start \in Nat /\ iv[v].end \in Nat
        /\ iv[w].start \in Nat /\ iv[w].end \in Nat
      BY <1>4, <2>3 DEF IInv, TypeOK
  <2>9. First(b) \in Nat /\ k \in Nat
    <3>1. Len(prog.blocks[b]) \in Nat
        BY <1>1, ProgramType
    <3> QED
        BY <3>1, <1>1, FirstNext
  <2>10. p \in Int /\ First(b) + k = p + 1
      BY <2>9
  <2> HIDE DEF p
  <2> DEFINE vs == iv[v].start
             ve == iv[v].end
             ws == iv[w].start
             we == iv[w].end
  <2>11. vs <= p /\ p + 1 <= ve /\ ws <= p /\ p + 1 <= we
      BY <1>4, <2>7, <2>10
  <2>12. vs \in Nat /\ ve \in Nat /\ ws \in Nat /\ we \in Nat /\ (ve <= ws \/ we <= vs)
      BY <2>6, <2>8
  <2> HIDE DEF vs, ve, ws, we
  <2> QED
      BY <2>10, <2>11, <2>12
<1>8. ~Clobbered(i, r)
  <2> SUFFICES ASSUME r \in Regs PROVE ~Clobbered(i, r)
      BY DEF Clobbered
  <2>1. ~Spilled(v) /\ r = assigned[v] /\ r \in Pool
      BY <1>4, LocType
  <2>2. r \notin i.phys
      BY <1>2, <2>1 DEF Analysed, AcceptedLinear
  <2>3. ASSUME i.call
        PROVE  r \in CalleeSaved /\ prog.cls[v] # "fpr128"
    <3>1. /\ Len(prog.blocks[b]) \in Nat
          /\ DOMAIN prog.blocks[b] = 1 .. Len(prog.blocks[b])
        BY <1>1, ProgramType
    <3>2. k = Len(prog.blocks[b]) => i.term
        BY <3>1 DEF Analysed, AcceptedLinear, EndsInTerminator
    <3>3. ~i.term
        BY <1>2, <2>3, InstType
    <3>4. k < Len(prog.blocks[b])
        BY <3>1, <3>2, <3>3
    <3>5. iv[v].crosses
        BY <1>1, <1>3, <2>3, <3>4, CallCrossed
    <3> QED
        BY <1>4, <2>1, <3>5 DEF IInv, KeptAcrossCalls, Analysed, Spilled
  <2> QED
      BY <2>2, <2>3 DEF Clobbered
<1> QED
    BY <1>5, <1>7, <1>8 DEF AfterInst

\* The values after an instruction.
LEMMA AfterInstType ==
    ASSUME HoldsType(holds), NEW i \in Instructions, NEW rs
    PROVE  HoldsType(AfterInst(i, rs))
<1>1. i.def => i.ops[1] \in Vregs
    BY InstType
<1>2. \A l \in Regs \cup Vregs : holds[l] \in Vregs \cup {Junk}
    BY DEF HoldsType
<1> QED
    BY <1>1, <1>2 DEF HoldsType, AfterInst

\* The instruction.
LEMMA InstStep ==
    ASSUME IInv, Analysed, phase = "run", HoldsType(holds), defined \subseteq Vregs,
           NEW b \in Blocks(prog), NEW k \in 1 .. Len(prog.blocks[b]),
           AtPoint(holds, defined, b, k, Len(Reloads(prog.blocks[b][k])) + 1)
    PROVE  LET i == prog.blocks[b][k]
               h == AfterInst(i, Registers(i))
               d == defined \cup DefOf(i)
           IN  IF StoresBack(i) THEN AtPoint(h, d, b, k, Len(Reloads(i)) + 2)
               ELSE InPlace(h, d, LiveAt(b, k + 1))
<1> DEFINE i == prog.blocks[b][k]
           n == Len(Reloads(i))
           h == AfterInst(i, Registers(i))
           d == defined \cup DefOf(i)
<1>1. prog \in Programs
    BY DEF IInv, Bookkeeping
<1>2. i \in Insts(prog) /\ i \in Instructions
    BY <1>1, BlockShape, InstsType
<1>3. n \in Nat
    BY <1>2, RewrittenShape
<1>4. InPlace(holds, defined, LiveAt(b, k))
  <2>1. n + 1 <= n + 1
      BY <1>3
  <2> QED
      BY <2>1 DEF AtPoint
<1>5. ASSUME NEW v \in LiveAt(b, k + 1) \cap d, v \notin DefOf(i)
      PROVE  h[Loc(v)] = v
  <2>1. v \in LiveAt(b, k)
      BY <1>1, <1>5, LiveStep
  <2>2. holds[Loc(v)] = v
      BY <1>4, <1>5, <2>1 DEF InPlace
  <2> QED
      BY <1>5, <2>2, LivesThrough
<1>6. ASSUME i.def PROVE h[Registers(i)[1]] = i.ops[1]
  <2>1. Registers(i)[1] \in Regs
      BY <1>2, <1>6, InstType, RegistersType
  <2> QED
      BY <1>6, <2>1 DEF AfterInst
<1>7. CASE StoresBack(i)
  <2>1. i.def /\ DefOf(i) = {i.ops[1]}
      BY <1>7 DEF StoresBack, DefOf
  <2>2. InPlace(h, d, LiveAt(b, k + 1) \ {i.ops[1]})
      BY <1>5, <2>1 DEF InPlace
  <2>3. ~(n + 2 <= n + 1)
      BY <1>3
  <2> HIDE DEF h, d
  <2>4. AtPoint(h, d, b, k, n + 2)
      BY <1>6, <2>1, <2>2, <2>3 DEF AtPoint
  <2> QED
      BY <1>7, <2>4 DEF h, d
<1>8. CASE ~StoresBack(i)
  <2>1. ASSUME NEW v \in LiveAt(b, k + 1) \cap d PROVE h[Loc(v)] = v
    <3>1. CASE v \in DefOf(i)
      <4>1. i.def /\ v = i.ops[1] /\ ~Spilled(v)
          BY <3>1, <1>8 DEF DefOf, StoresBack
      <4>2. Registers(i)[1] = assigned[v]
          BY <4>1, <1>2, InstType, RegistersType
      <4>3. Loc(v) = Registers(i)[1]
          BY <4>1, <4>2 DEF Loc
      <4> QED
          BY <4>1, <4>3, <1>6
    <3>2. CASE v \notin DefOf(i)
        BY <3>2, <1>5
    <3> QED
        BY <3>1, <3>2
  <2>2. InPlace(h, d, LiveAt(b, k + 1))
    <3> HIDE DEF h, d
    <3> QED
        BY <2>1 DEF InPlace
  <2> QED
      BY <1>8, <2>2
<1> QED
    BY <1>7, <1>8

\* The store of a spilled definition.
LEMMA StoreStep ==
    ASSUME IInv, Analysed, NEW b \in Blocks(prog), NEW k \in 1 .. Len(prog.blocks[b]),
           StoresBack(prog.blocks[b][k]), NEW h, HoldsType(h), NEW d \in SUBSET Vregs,
           AtPoint(h, d, b, k, Len(Reloads(prog.blocks[b][k])) + 2)
    PROVE  LET i == prog.blocks[b][k]
               g == [h EXCEPT ![i.ops[1]] = h[Registers(i)[1]]]
           IN  HoldsType(g) /\ InPlace(g, d, LiveAt(b, k + 1))
<1> DEFINE i == prog.blocks[b][k]
           n == Len(Reloads(i))
           w == i.ops[1]
           g == [h EXCEPT ![w] = h[Registers(i)[1]]]
<1>1. prog \in Programs
    BY DEF IInv, Bookkeeping
<1>2. i \in Insts(prog) /\ i \in Instructions
    BY <1>1, BlockShape, InstsType
<1>3. n \in Nat
    BY <1>2, RewrittenShape
<1>4. /\ InPlace(h, d, LiveAt(b, k + 1) \ {w})
      /\ h[Registers(i)[1]] = w
  <2>1. ~(n + 2 <= n + 1)
      BY <1>3
  <2> QED
      BY <2>1 DEF AtPoint
<1>5. w \in Vregs /\ Spilled(w) /\ Loc(w) = w
    BY <1>2, InstType DEF StoresBack, Loc
<1>6. HoldsType(g) /\ g[w] = w /\ \A l \in Regs \cup Vregs : l # w => g[l] = h[l]
    BY <1>4, <1>5 DEF HoldsType
<1> HIDE DEF g
<1>7. ASSUME NEW v \in LiveAt(b, k + 1) \cap d PROVE g[Loc(v)] = v
  <2>1. CASE v = w
      BY <2>1, <1>5, <1>6
  <2>2. CASE v # w
    <3>1. v \in Vregs /\ h[Loc(v)] = v
        BY <2>2, <1>4 DEF InPlace
    <3>2. Loc(v) \in Regs \cup Vregs /\ Loc(v) # w
        BY <3>1, <2>2, <1>5, LocType, MirAssumption
    <3> QED
        BY <3>1, <3>2, <1>6
  <2> QED
      BY <2>1, <2>2
<1>8. InPlace(g, d, LiveAt(b, k + 1))
    BY <1>7 DEF InPlace
<1> QED
    BY <1>6, <1>8 DEF g

-----------------------------------------------------------------------------
\* The machine before and during the execution.
Executed ==
    /\ phase # "run" => code = <<>> /\ HoldsType(holds) /\ defined = {}
    /\ phase = "run" =>
          /\ code = [b \in Blocks(prog) |-> RewrittenBlock(prog.blocks[b])]
          /\ HoldsType(holds) /\ defined \subseteq Vregs
          /\ at[1] \in Blocks(prog)
          /\ Standing(at[1], at[2], holds, defined)

\* The next thing to execute is a piece of an instruction.
LEMMA Located ==
    ASSUME IInv, Analysed, Executed, phase = "run", Executing
    PROVE  \E k \in 1 .. Len(prog.blocks[at[1]]) :
              \E o \in 1 .. Len(Rewritten(prog.blocks[at[1]][k])) :
                 /\ at[2] = Starts(at[1])[k - 1] + o
                 /\ AtPoint(holds, defined, at[1], k, o)
                 /\ Here = Rewritten(prog.blocks[at[1]][k])[o]
<1> DEFINE b == at[1]
           t == RewrittenBlock(prog.blocks[b])
<1>1. /\ prog \in Programs /\ b \in Blocks(prog) /\ code[b] = t
      /\ Standing(b, at[2], holds, defined)
    BY DEF IInv, Bookkeeping, Executed
<1>2. at[2] <= Len(t) /\ Here = t[at[2]]
    BY <1>1 DEF Executing, Here
<1>3. /\ t \in Seq(Pieces) /\ Len(Parts(b)) = Len(prog.blocks[b])
      /\ Layout(Starts(b), Parts(b), t)
    BY <1>1, BlockShape
<1>4. Len(t) \in Nat
    BY <1>3
<1>5. PICK k \in 1 .. Len(prog.blocks[b]) : \E o \in 1 .. Len(Rewritten(prog.blocks[b][k])) :
        at[2] = Starts(b)[k - 1] + o /\ AtPoint(holds, defined, b, k, o)
  <2>1. at[2] # Len(t) + 1
      BY <1>2, <1>4
  <2> QED
      BY <2>1, <1>1 DEF Standing
<1>6. PICK o \in 1 .. Len(Rewritten(prog.blocks[b][k])) :
        at[2] = Starts(b)[k - 1] + o /\ AtPoint(holds, defined, b, k, o)
    BY <1>5
<1>7. Parts(b)[k] = Rewritten(prog.blocks[b][k])
    BY <1>1, BlockShape
<1>8. t[Starts(b)[k - 1] + o] = Rewritten(prog.blocks[b][k])[o]
  <2>1. k \in 1 .. Len(Parts(b)) /\ o \in 1 .. Len(Parts(b)[k])
      BY <1>3, <1>7
  <2>2. t[Starts(b)[k - 1] + o] = Parts(b)[k][o]
      BY <1>3, <2>1 DEF Layout
  <2> QED
      BY <1>7, <2>2
<1> QED
    BY <1>2, <1>6, <1>8

\* One piece of an instruction.
LEMMA PieceStep ==
    ASSUME IInv, Analysed, Executed, phase = "run", ExecuteMove \/ ExecuteInst
    PROVE  /\ HoldsType(holds') /\ defined' \subseteq Vregs
           /\ at'[1] = at[1]
           /\ Standing(at[1], at'[2], holds', defined')
<1> DEFINE b == at[1]
<1>1. /\ prog \in Programs /\ b \in Blocks(prog)
      /\ HoldsType(holds) /\ defined \subseteq Vregs
    BY DEF IInv, Bookkeeping, Executed
<1>2. Executing /\ at' = <<at[1], at[2] + 1>>
    BY DEF ExecuteMove, ExecuteInst
<1>4. Len(prog.blocks[b]) \in Nat
    BY <1>1, ProgramType
<1>5. PICK k \in 1 .. Len(prog.blocks[b]) : \E o \in 1 .. Len(Rewritten(prog.blocks[b][k])) :
        /\ at[2] = Starts(b)[k - 1] + o /\ AtPoint(holds, defined, b, k, o)
        /\ Here = Rewritten(prog.blocks[b][k])[o]
    BY <1>2, Located
<1> DEFINE i == prog.blocks[b][k]
           n == Len(Reloads(i))
<1>6. PICK o \in 1 .. Len(Rewritten(i)) :
        /\ at[2] = Starts(b)[k - 1] + o /\ AtPoint(holds, defined, b, k, o)
        /\ Here = Rewritten(i)[o]
    BY <1>5
<1>7. i \in Insts(prog) /\ i \in Instructions /\ Parts(b)[k] = Rewritten(i)
    BY <1>1, BlockShape, InstsType
<1>8. /\ Rewritten(i) \in Seq(Pieces) /\ n \in Nat
      /\ Len(Rewritten(i)) = n + (IF StoresBack(i) THEN 2 ELSE 1)
      /\ \A x \in 1 .. n : Rewritten(i)[x] = Reloads(i)[x]
      /\ Rewritten(i)[n + 1] = Inst(i, Registers(i))
      /\ StoresBack(i) => Rewritten(i)[n + 2] = Store(i.ops[1], Registers(i)[1])
    BY <1>7, RewrittenShape
<1>9. /\ Starts(b)[k - 1] \in Nat
      /\ Starts(b)[k] = Starts(b)[k - 1] + Len(Rewritten(i))
  <2>0. /\ Len(Parts(b)) = Len(prog.blocks[b])
        /\ Layout(Starts(b), Parts(b), RewrittenBlock(prog.blocks[b]))
      BY <1>1, BlockShape
  <2>1. k - 1 \in 0 .. Len(Parts(b)) /\ k \in 1 .. Len(Parts(b))
      BY <2>0, <1>4
  <2> QED
      BY <2>0, <2>1, <1>7 DEF Layout
<1>10. Here = Rewritten(i)[o] /\ at'[1] = b /\ at'[2] = Starts(b)[k - 1] + o + 1
    BY <1>2, <1>6
<1>11. o \in Nat /\ o >= 1 /\ o <= Len(Rewritten(i)) /\ Len(Rewritten(i)) \in Nat
    BY <1>8
<1>12. k \in 0 .. Len(prog.blocks[b])
    BY <1>4
<1>13. ASSUME o < Len(Rewritten(i)), AtPoint(holds', defined', b, k, o + 1)
       PROVE  Standing(b, at'[2], holds', defined')
  <2> DEFINE l == Len(Rewritten(i))
             s == Starts(b)[k - 1]
  <2>0. l \in Nat /\ s \in Nat /\ o \in Nat /\ o < l /\ at'[2] = s + o + 1
      BY <1>9, <1>10, <1>11, <1>13
  <2> HIDE DEF l, s
  <2>2. o + 1 \in 1 .. l /\ at'[2] = s + (o + 1)
      BY <2>0
  <2>1. o + 1 \in 1 .. Len(Rewritten(i)) /\ at'[2] = Starts(b)[k - 1] + (o + 1)
      BY <2>2 DEF l, s
  <2> QED
      BY <2>1, <1>13 DEF Standing
<1>14. ASSUME o = Len(Rewritten(i)), InPlace(holds', defined', LiveAt(b, k + 1))
       PROVE  Standing(b, at'[2], holds', defined')
  <2>1. at'[2] = Starts(b)[k] + 1
      BY <1>9, <1>10, <1>11, <1>14
  <2>2. Standing(b, Starts(b)[k] + 1, holds', defined')
      BY <1>1, <1>12, <1>14, Arrive
  <2> QED
      BY <2>1, <2>2
<1>15. CASE o <= n
  <2> DEFINE x == Reloads(i)[o]
  <2>1. o \in 1 .. n
      BY <1>8, <1>11, <1>15
  <2>2. Here = x
      BY <2>1, <1>8, <1>10
  <2>3. /\ x.kind = "load" /\ HoldsType([holds EXCEPT ![x.reg] = holds[x.v]])
        /\ AtPoint([holds EXCEPT ![x.reg] = holds[x.v]], defined, b, k, o + 1)
      BY <1>1, <1>6, <2>1, LoadStep
  <2>4. holds' = [holds EXCEPT ![x.reg] = holds[x.v]] /\ defined' = defined
      BY <2>2, <2>3 DEF ExecuteMove, ExecuteInst
  <2>5. o < Len(Rewritten(i))
      BY <1>8, <1>11, <1>15
  <2>6. HoldsType(holds') /\ AtPoint(holds', defined', b, k, o + 1)
      BY <2>3, <2>4
  <2> QED
      BY <1>1, <1>10, <1>13, <2>4, <2>5, <2>6
<1>16. CASE o = n + 1
  <2>1. Here = Inst(i, Registers(i))
      BY <1>8, <1>10, <1>16
  <2>2. Here.kind = "inst" /\ Here.inst = i /\ Here.regs = Registers(i)
      BY <2>1 DEF Inst
  <2>3. holds' = AfterInst(i, Registers(i)) /\ defined' = defined \cup DefOf(i)
      BY <2>2 DEF ExecuteMove, ExecuteInst
  <2>4. IF StoresBack(i) THEN AtPoint(holds', defined', b, k, n + 2)
        ELSE InPlace(holds', defined', LiveAt(b, k + 1))
      BY <1>1, <1>6, <1>16, <2>3, InstStep
  <2>5. HoldsType(holds') /\ defined' \subseteq Vregs
      BY <1>1, <1>7, <2>3, AfterInstType, InstType
  <2>6. CASE StoresBack(i)
    <3>1. o < Len(Rewritten(i)) /\ o + 1 = n + 2
        BY <1>8, <1>16, <2>6
    <3>2. AtPoint(holds', defined', b, k, o + 1)
        BY <2>4, <2>6, <3>1
    <3> QED
        BY <1>10, <1>13, <2>5, <3>1, <3>2
  <2>7. CASE ~StoresBack(i)
    <3>1. o = Len(Rewritten(i))
        BY <1>8, <1>16, <2>7
    <3> QED
        BY <1>10, <1>14, <2>4, <2>5, <2>7, <3>1
  <2> QED
      BY <2>6, <2>7
<1>17. CASE o > n + 1
  <2>1. StoresBack(i) /\ o = n + 2 /\ o = Len(Rewritten(i))
    <3>1. CASE StoresBack(i)
        BY <1>8, <1>11, <1>17, <3>1
    <3>2. CASE ~StoresBack(i)
        BY <1>8, <1>11, <1>17, <3>2
    <3> QED
        BY <3>1, <3>2
  <2>2. Here = Store(i.ops[1], Registers(i)[1])
      BY <2>1, <1>8, <1>10
  <2>3. Here.kind = "store" /\ Here.v = i.ops[1] /\ Here.reg = Registers(i)[1]
      BY <2>2 DEF Store
  <2>4. holds' = [holds EXCEPT ![i.ops[1]] = holds[Registers(i)[1]]] /\ defined' = defined
      BY <2>3 DEF ExecuteMove, ExecuteInst
  <2>5. /\ HoldsType([holds EXCEPT ![i.ops[1]] = holds[Registers(i)[1]]])
        /\ InPlace([holds EXCEPT ![i.ops[1]] = holds[Registers(i)[1]]], defined,
                   LiveAt(b, k + 1))
      BY <1>1, <1>6, <2>1, StoreStep
  <2>6. HoldsType(holds') /\ InPlace(holds', defined', LiveAt(b, k + 1))
      BY <2>4, <2>5
  <2> QED
      BY <1>1, <1>10, <1>14, <2>1, <2>4, <2>6
<1> QED
    BY <1>8, <1>11, <1>15, <1>16, <1>17

\* The invariant of the execution depends on the function, the live sets and the
\* assignment only.
LEMMA SameRewriting ==
    ASSUME UNCHANGED <<prog, liveOut, assigned>>
    PROVE  /\ \A s : RewrittenBlock(s)' = RewrittenBlock(s)
           /\ \A b, p, h, d : Standing(b, p, h, d)' <=> Standing(b, p, h, d)
<1>1. \A i, v : ScratchFor(i, v)' = ScratchFor(i, v)
    BY DEF ScratchFor
<1>2. \A v : (Spilled(v)' <=> Spilled(v)) /\ Loc(v)' = Loc(v)
    BY DEF Spilled, Loc
<1>3. \A i : Registers(i)' = Registers(i)
    BY <1>1 DEF Registers, RegFor
<1>4. \A i, k : NeedsReload(i, k)' <=> NeedsReload(i, k)
    BY <1>2 DEF NeedsReload
<1>5. \A i : Reloads(i)' = Reloads(i)
    BY <1>3, <1>4 DEF Reloads
<1>6. \A i : Rewritten(i)' = Rewritten(i)
    BY <1>2, <1>3, <1>5 DEF Rewritten
<1>7. \A s : RewrittenBlock(s)' = RewrittenBlock(s)
    BY <1>6 DEF RewrittenBlock
<1>8. \A b : Parts(b)' = Parts(b)
    BY <1>6 DEF Parts
<1>9. \A b : Starts(b)' = Starts(b)
    BY <1>7, <1>8 DEF Starts
<1>10. \A b, k : LiveAt(b, k)' = LiveAt(b, k)
    BY DEF LiveAt
<1>11. \A h, d, S : InPlace(h, d, S)' <=> InPlace(h, d, S)
    BY <1>2 DEF InPlace
<1>12. ASSUME NEW h, NEW d, NEW b, NEW k, NEW o
       PROVE  AtPoint(h, d, b, k, o)' <=> AtPoint(h, d, b, k, o)
  <2>1. prog' = prog
      OBVIOUS
  <2>2. /\ Registers(prog.blocks[b][k])' = Registers(prog.blocks[b][k])
        /\ Reloads(prog.blocks[b][k])' = Reloads(prog.blocks[b][k])
      BY <1>3, <1>5, <2>1
  <2>3. InPlace(h, d, LiveAt(b, k))' <=> InPlace(h, d, LiveAt(b, k))
      BY <1>10, <1>11
  <2>4. InPlace(h, d, LiveAt(b, k + 1) \ {prog.blocks[b][k].ops[1]})'
            <=> InPlace(h, d, LiveAt(b, k + 1) \ {prog.blocks[b][k].ops[1]})
    <3>1. LiveAt(b, k + 1)' = LiveAt(b, k + 1)
        BY <1>10
    <3>2. (LiveAt(b, k + 1) \ {prog.blocks[b][k].ops[1]})'
            = LiveAt(b, k + 1) \ {prog.blocks[b][k].ops[1]}
        BY <2>1, <3>1
    <3> QED
        BY <1>11, <3>2
  <2> QED
      BY <2>1, <2>2, <2>3, <2>4 DEF AtPoint
<1> QED
    BY <1>6, <1>7, <1>9, <1>11, <1>12 DEF Standing

\* Nothing runs before the function is rewritten.
LEMMA ExecutedInit == Init => Executed
<1> SUFFICES ASSUME Init PROVE Executed
    OBVIOUS
<1>1. HoldsType(holds)
    BY DEF Init, MachineInit, HoldsType
<1> QED
    BY <1>1 DEF Init, MachineInit, Executed

\* Entering a block with its live values in place.
LEMMA Enter ==
    ASSUME IInv, Analysed, NEW b \in Blocks(prog), NEW h, NEW d,
           InPlace(h, d, LiveAt(b, 1))
    PROVE  Standing(b, 1, h, d)
<1>1. Len(prog.blocks[b]) \in Nat
    BY ProgramType DEF IInv, Bookkeeping
<1>2. 0 \in 0 .. Len(prog.blocks[b]) /\ 0 + 1 = 1
    BY <1>1
<1>3. Standing(b, Starts(b)[0] + 1, h, d)
    BY <1>2, Arrive
<1>4. Starts(b)[0] = 0
    BY BlockShape DEF Layout
<1> QED
    BY <1>2, <1>3, <1>4

\* A branch: what the successor needs was live out of the block.
LEMMA BranchStep ==
    ASSUME IInv, Analysed, Executed, phase = "run", Branch
    PROVE  at'[1] \in Blocks(prog) /\ Standing(at'[1], at'[2], holds', defined')
<1> DEFINE b == at[1]
           t == RewrittenBlock(prog.blocks[b])
<1>1. /\ prog \in Programs /\ b \in Blocks(prog) /\ code[b] = t
      /\ Standing(b, at[2], holds, defined)
    BY DEF IInv, Bookkeeping, Executed
<1>2. PICK s \in prog.succs[b] : at' = <<s, 1>>
    BY DEF Branch
<1>3. at[2] > Len(t) /\ holds' = holds /\ defined' = defined
    BY <1>1 DEF Branch
<1>4. /\ t \in Seq(Pieces) /\ Len(Parts(b)) = Len(prog.blocks[b])
      /\ Layout(Starts(b), Parts(b), t)
      /\ \A k \in 1 .. Len(prog.blocks[b]) : Parts(b)[k] = Rewritten(prog.blocks[b][k])
    BY <1>1, BlockShape
<1>5. InPlace(holds, defined, liveOut[b])
  <2> SUFFICES ASSUME NEW k \in 1 .. Len(prog.blocks[b]),
                      NEW o \in 1 .. Len(Rewritten(prog.blocks[b][k])),
                      at[2] = Starts(b)[k - 1] + o
               PROVE  FALSE
      BY <1>1 DEF Standing
  <2>1. Starts(b)[k - 1] + o \in 1 .. Len(t)
      BY <1>4 DEF Layout
  <2>2. Len(t) \in Nat
      BY <1>4
  <2> QED
      BY <2>1, <2>2, <1>3
<1>6. s \in Blocks(prog)
    BY <1>1, <1>2 DEF Analysed, AcceptedLinear, EndsInTerminator
<1>7. Fix(b) /\ Fix(s)
    BY <1>1, <1>6 DEF Analysed
<1>8. LiveAt(s, 1) \subseteq liveOut[b]
  <2>1. LiveAt(s, 1) \subseteq liveIn[s]
      BY <1>7, LiveEntry
  <2>2. liveIn[s] \subseteq liveOut[b]
      BY <1>2, <1>7 DEF Fix
  <2> QED
      BY <2>1, <2>2
<1>9. InPlace(holds, defined, LiveAt(s, 1))
    BY <1>5, <1>8 DEF InPlace
<1>10. Standing(s, 1, holds, defined)
    BY <1>6, <1>9, Enter
<1> QED
    BY <1>2, <1>3, <1>6, <1>10

\* Every step preserves the invariant of the execution.
LEMMA ExecutedNext == IInv /\ Analysed /\ Executed /\ [Next]_vars => Executed'
<1> SUFFICES ASSUME IInv, Analysed, Executed, [Next]_vars PROVE Executed'
    OBVIOUS
<1>1. ASSUME phase # "run", phase' # "run", UNCHANGED <<code, holds, defined>>
      PROVE  Executed'
    BY <1>1 DEF Executed, HoldsType
<1>2. ASSUME phase = "run", phase' = "run",
             UNCHANGED <<prog, liveOut, assigned, code>>,
             HoldsType(holds'), defined' \subseteq Vregs, at'[1] \in Blocks(prog),
             Standing(at'[1], at'[2], holds', defined')
      PROVE  Executed'
  <2>1. /\ \A s : RewrittenBlock(s)' = RewrittenBlock(s)
        /\ \A b, p, h, d : Standing(b, p, h, d)' <=> Standing(b, p, h, d)
      BY <1>2, SameRewriting
  <2>2. code' = [b \in Blocks(prog) |-> RewrittenBlock(prog.blocks[b])]'
      BY <1>2, <2>1 DEF Executed
  <2>3. Standing(at[1], at[2], holds, defined)'
      BY <1>2, <2>1
  <2> QED
      BY <1>2, <2>2, <2>3 DEF Executed, HoldsType
<1>3. CASE LiveBlock
    BY <1>1, <1>3 DEF LiveBlock, machine
<1>4. CASE LivePass
    BY <1>1, <1>4 DEF LivePass, machine
<1>5. CASE BuildIntervals
    BY <1>1, <1>5 DEF BuildIntervals, machine
<1>6. ASSUME NEW v \in Vregs, ScanInterval(v) PROVE Executed'
    BY <1>1, <1>6 DEF ScanInterval, machine
<1>7. CASE ScanDone
    BY <1>1, <1>7 DEF ScanDone, machine
<1>8. CASE Rewrite
  <2>1. /\ phase = "rewrite" /\ phase' = "run" /\ at' = <<1, 1>>
        /\ code' = [b \in Blocks(prog) |-> RewrittenBlock(prog.blocks[b])]
        /\ UNCHANGED <<prog, holds, defined, liveOut, assigned>>
      BY <1>8 DEF Rewrite, flow, scanning
  <2>2. HoldsType(holds) /\ defined = {}
      BY <2>1 DEF Executed
  <2>3. 1 \in Blocks(prog)
      BY ProgramType DEF IInv, Bookkeeping
  <2>4. InPlace(holds, defined, LiveAt(1, 1))
      BY <2>2 DEF InPlace
  <2>5. Standing(1, 1, holds, defined)
      BY <2>3, <2>4, Enter
  <2>6. /\ \A s : RewrittenBlock(s)' = RewrittenBlock(s)
        /\ \A b, p, h, d : Standing(b, p, h, d)' <=> Standing(b, p, h, d)
      BY <2>1, SameRewriting
  <2>7. code' = [b \in Blocks(prog) |-> RewrittenBlock(prog.blocks[b])]'
      BY <2>1, <2>6
  <2>8. Standing(at[1], at[2], holds, defined)'
      BY <2>1, <2>5, <2>6
  <2> QED
      BY <2>1, <2>2, <2>3, <2>7, <2>8 DEF Executed, HoldsType
<1>9. CASE Run
  <2>1. /\ Execute /\ at[1] # 0
        /\ UNCHANGED <<prog, liveOut, assigned, code, phase>>
      BY <1>9 DEF Run, Execute, ExecuteMove, ExecuteInst, Branch, Executing, flow, scanning
  <2>2. phase = "run"
      BY <2>1 DEF Analysed
  <2>3. CASE ExecuteMove \/ ExecuteInst
    <3>1. /\ HoldsType(holds') /\ defined' \subseteq Vregs /\ at'[1] = at[1]
          /\ Standing(at[1], at'[2], holds', defined')
        BY <2>2, <2>3, PieceStep
    <3>2. at[1] \in Blocks(prog)
        BY <2>2 DEF Executed
    <3> QED
        BY <1>2, <2>1, <2>2, <3>1, <3>2
  <2>4. CASE Branch
    <3>1. at'[1] \in Blocks(prog) /\ Standing(at'[1], at'[2], holds', defined')
        BY <2>2, <2>4, BranchStep
    <3>2. HoldsType(holds') /\ defined' \subseteq Vregs
        BY <2>2, <2>4 DEF Branch, Executed
    <3> QED
        BY <1>2, <2>1, <2>2, <3>1, <3>2
  <2> QED
      BY <2>1, <2>3, <2>4 DEF Execute
<1>10. CASE UNCHANGED vars
  <2>1. UNCHANGED <<prog, liveOut, assigned, code, phase, at, holds, defined>>
      BY <1>10 DEF vars, flow, scanning, machine
  <2>2. CASE phase = "run"
    <3>1. /\ HoldsType(holds') /\ defined' \subseteq Vregs /\ at'[1] \in Blocks(prog)
          /\ Standing(at'[1], at'[2], holds', defined')
        BY <2>1, <2>2 DEF Executed
    <3> QED
        BY <1>2, <2>1, <2>2, <3>1
  <2>3. CASE phase # "run"
      BY <1>1, <2>1, <2>3
  <2> QED
      BY <2>2, <2>3
<1> QED
    BY <1>3, <1>4, <1>5, <1>6, <1>7, <1>8, <1>9, <1>10 DEF Next

\* Which pieces are instructions, and which are reloads.
LEMMA InstPiece ==
    ASSUME IInv, Analysed, NEW i \in Insts(prog), NEW o \in 1 .. Len(Rewritten(i))
    PROVE  /\ Rewritten(i)[o].kind = "inst" =>
                 o = Len(Reloads(i)) + 1 /\ Rewritten(i)[o] = Inst(i, Registers(i))
           /\ Rewritten(i)[o].kind = "load" =>
                 \E m \in DOMAIN i.ops :
                    NeedsReload(i, m) /\ Rewritten(i)[o] = Load(i.ops[m], Registers(i)[m])
<1> DEFINE n == Len(Reloads(i))
<1>1. /\ n \in Nat
      /\ Len(Rewritten(i)) = n + (IF StoresBack(i) THEN 2 ELSE 1)
      /\ \A x \in 1 .. n : Rewritten(i)[x] = Reloads(i)[x]
      /\ Rewritten(i)[n + 1] = Inst(i, Registers(i))
      /\ StoresBack(i) => Rewritten(i)[n + 2] = Store(i.ops[1], Registers(i)[1])
    BY RewrittenShape
<1>2. o \in Nat /\ o >= 1 /\ o <= Len(Rewritten(i))
    BY <1>1
<1>3. CASE o <= n
  <2>1. o \in 1 .. n
      BY <1>1, <1>2, <1>3
  <2>2. PICK m \in DOMAIN i.ops :
          NeedsReload(i, m) /\ Reloads(i)[o] = Load(i.ops[m], Registers(i)[m])
      BY <2>1, ReloadsShape
  <2>3. Rewritten(i)[o] = Load(i.ops[m], Registers(i)[m])
      BY <1>1, <2>1, <2>2
  <2>4. Rewritten(i)[o].kind = "load"
      BY <2>3 DEF Load
  <2> QED
      BY <2>2, <2>3, <2>4
<1>4. CASE o = n + 1
  <2>1. Rewritten(i)[o] = Inst(i, Registers(i))
      BY <1>1, <1>4
  <2>2. Rewritten(i)[o].kind = "inst"
      BY <2>1 DEF Inst
  <2> QED
      BY <1>4, <2>1, <2>2
<1>5. CASE o > n + 1
  <2>1. StoresBack(i) /\ o = n + 2
    <3>1. CASE StoresBack(i)
        BY <1>1, <1>2, <1>5, <3>1
    <3>2. CASE ~StoresBack(i)
        BY <1>1, <1>2, <1>5, <3>2
    <3> QED
        BY <3>1, <3>2
  <2>2. Rewritten(i)[o] = Store(i.ops[1], Registers(i)[1])
      BY <1>1, <2>1
  <2>3. Rewritten(i)[o].kind = "store"
      BY <2>2 DEF Store
  <2> QED
      BY <2>3
<1> QED
    BY <1>1, <1>2, <1>3, <1>4, <1>5

\* The operands of the next instruction are in their registers.
LEMMA ReadsRightHolds == IInv /\ Analysed /\ Executed => ReadsRight
<1> SUFFICES ASSUME IInv, Analysed, Executed, Executing, Here.kind = "inst",
                    NEW m \in ReadIndexes(Here.inst), Here.inst.ops[m] \in defined
             PROVE  holds[Here.regs[m]] = Here.inst.ops[m]
    BY DEF ReadsRight
<1> DEFINE b == at[1]
<1>1. phase = "run" /\ b \in Blocks(prog)
    BY DEF Executing, Analysed, Executed
<1>2. PICK k \in 1 .. Len(prog.blocks[b]) : \E o \in 1 .. Len(Rewritten(prog.blocks[b][k])) :
        /\ AtPoint(holds, defined, b, k, o)
        /\ Here = Rewritten(prog.blocks[b][k])[o]
    BY <1>1, Located
<1> DEFINE i == prog.blocks[b][k]
           n == Len(Reloads(i))
<1>3. PICK o \in 1 .. Len(Rewritten(i)) :
        AtPoint(holds, defined, b, k, o) /\ Here = Rewritten(i)[o]
    BY <1>2
<1>4. i \in Insts(prog)
    BY <1>1, BlockShape
<1>5. o = n + 1 /\ Here = Inst(i, Registers(i))
    BY <1>3, <1>4, InstPiece
<1>6. Here.inst = i /\ Here.regs = Registers(i)
    BY <1>5 DEF Inst
<1>7. AtPoint(holds, defined, b, k, n + 1)
    BY <1>3, <1>5
<1>8. m \in ReadIndexes(i) /\ i.ops[m] \in defined
    BY <1>6
<1>9. holds[Registers(i)[m]] = i.ops[m]
    BY <1>1, <1>7, <1>8, OperandsReady
<1> QED
    BY <1>6, <1>9

\* The prologue saves every callee-saved register the code writes.
LEMMA WrittenSaved ==
    IInv /\ Analysed /\ Executed => Written \cap CalleeSaved \subseteq usedCsrs
<1> SUFFICES ASSUME IInv, Analysed, Executed, NEW r \in Written, r \in CalleeSaved
             PROVE  r \in usedCsrs
    OBVIOUS
<1>1. PICK b \in DOMAIN code : \E x \in DOMAIN code[b] :
        \/ code[b][x].kind = "load" /\ r = code[b][x].reg
        \/ code[b][x].kind = "inst" /\ code[b][x].inst.def /\ r = code[b][x].regs[1]
    BY DEF Written
<1>2. PICK x \in DOMAIN code[b] :
        \/ code[b][x].kind = "load" /\ r = code[b][x].reg
        \/ code[b][x].kind = "inst" /\ code[b][x].inst.def /\ r = code[b][x].regs[1]
    BY <1>1
<1> DEFINE t == RewrittenBlock(prog.blocks[b])
<1>3. phase = "run"
  <2> SUFFICES ASSUME phase # "run" PROVE FALSE
      OBVIOUS
  <2>1. code = <<>>
      BY DEF Executed
  <2> QED
      BY <2>1
<1>4. b \in Blocks(prog) /\ code[b] = t
    BY <1>3 DEF Executed
<1>5. /\ t \in Seq(Pieces) /\ Layout(Starts(b), Parts(b), t)
      /\ Len(Parts(b)) = Len(prog.blocks[b])
      /\ \A k \in 1 .. Len(prog.blocks[b]) :
            prog.blocks[b][k] \in Insts(prog) /\ Parts(b)[k] = Rewritten(prog.blocks[b][k])
    BY <1>4, BlockShape
<1>6. x \in 1 .. Len(t)
    BY <1>4, <1>5
<1>7. PICK k \in 1 .. Len(prog.blocks[b]) : \E o \in 1 .. Len(Parts(b)[k]) :
        x = Starts(b)[k - 1] + o
    BY <1>5, <1>6 DEF Layout
<1> DEFINE i == prog.blocks[b][k]
<1>8. i \in Insts(prog) /\ Parts(b)[k] = Rewritten(i)
    BY <1>5
<1>9. PICK o \in 1 .. Len(Rewritten(i)) : x = Starts(b)[k - 1] + o
    BY <1>7, <1>8
<1>10. code[b][x] = Rewritten(i)[o]
    BY <1>4, <1>5, <1>8, <1>9 DEF Layout
<1>11. i \in Instructions
    BY <1>8, InstsType DEF IInv, Bookkeeping
<1>12. PICK m \in DOMAIN i.ops : r = Registers(i)[m]
  <2>1. CASE code[b][x].kind = "load"
    <3>1. PICK m \in DOMAIN i.ops : code[b][x] = Load(i.ops[m], Registers(i)[m])
        BY <1>8, <1>10, <2>1, InstPiece
    <3>2. r = Registers(i)[m]
        BY <1>2, <2>1, <3>1 DEF Load
    <3> QED
        BY <3>2
  <2>2. CASE code[b][x].kind = "inst" /\ code[b][x].inst.def /\ r = code[b][x].regs[1]
    <3>1. code[b][x] = Inst(i, Registers(i))
        BY <1>8, <1>10, <2>2, InstPiece
    <3>2. code[b][x].inst = i /\ code[b][x].regs = Registers(i)
        BY <3>1 DEF Inst
    <3>3. 1 \in DOMAIN i.ops /\ r = Registers(i)[1]
        BY <1>11, <2>2, <3>2, InstType
    <3> QED
        BY <3>3
  <2> QED
      BY <1>2, <2>1, <2>2
<1>13. ~Spilled(i.ops[m]) /\ r = assigned[i.ops[m]] /\ i.ops[m] \in Vregs
  <2>1. /\ i.ops[m] \in Vregs
        /\ Spilled(i.ops[m]) => Registers(i)[m] \notin Pool \cup CalleeSaved
        /\ ~Spilled(i.ops[m]) => Registers(i)[m] = assigned[i.ops[m]]
      BY <1>8, <1>12, RegistersType
  <2> QED
      BY <2>1, <1>12
<1> QED
    BY <1>13 DEF Analysed, Spilled

-----------------------------------------------------------------------------
\* Whatever the function and the register file, and whatever path the function
\* takes when it runs, the code LinearScanAllocator::run produces reads of every
\* operand the value it had before the allocation, and writes no callee-saved
\* register that is not in used_csrs.
THEOREM AllocatedRight == Spec => []CodeRight
<1> DEFINE Inv == IInv /\ Analysed /\ Executed
<1>1. Init => Inv
    BY IInvInit, AnalysedInit, ExecutedInit
<1>2. Inv /\ [Next]_vars => Inv'
    BY IInvNext, AnalysedNext, ExecutedNext
<1>3. Inv => CodeRight
    BY ReadsRightHolds, WrittenSaved DEF CodeRight
<1> QED
    BY <1>1, <1>2, <1>3, PTL DEF Spec

-----------------------------------------------------------------------------
(* The fast allocator: what is known of the registers.                     *)

\* The code of a block, of which no value comes in from outside, says what every
\* register and slot holds at each point: the current value of a virtual register, or
\* Junk where it does not say.
Knowledge == [Regs \cup Vregs -> Vregs \cup {Junk}]

Nothing == [l \in Regs \cup Vregs |-> Junk]

\* The contents h agree with it for the values that exist.
Agrees(h, d, m) == \A l \in Regs \cup Vregs : m[l] \in d => h[l] = m[l]

\* Instruction i destroys what l held.
Destroys(c, i, m, l) ==
    \/ l \in Regs /\ \/ l \in i.phys
                     \/ i.call /\ l \notin CalleeSaved
                     \/ i.call /\ m[l] # Junk /\ c[m[l]] = "fpr128"
    \/ m[l] \in DefOf(i)

\* What is known after instruction i with its operands in rs, and after piece p.
LearnInst(c, m, i, rs) ==
    [l \in Regs \cup Vregs |->
        IF i.def /\ l = rs[1] THEN i.ops[1]
        ELSE IF Destroys(c, i, m, l) THEN Junk ELSE m[l]]

Learn(c, m, p) ==
    IF p.kind = "load" THEN [m EXCEPT ![p.reg] = m[p.v]]
    ELSE IF p.kind = "store" THEN [m EXCEPT ![p.v] = m[p.reg]]
    ELSE LearnInst(c, m, p.inst, p.regs)

\* The operands piece p reads are where they should be.
Ready(m, p) ==
    p.kind = "inst" =>
        \A k \in ReadIndexes(p.inst) :
            p.regs[k] \in Regs /\ m[p.regs[k]] = p.inst.ops[k]

\* K is what is known along the code s, whose operands are all in their places.
Trace(c, K, s) ==
    /\ K \in [0 .. Len(s) -> Knowledge]
    /\ K[0] = Nothing
    /\ \A n \in 1 .. Len(s) : Ready(K[n - 1], s[n]) /\ K[n] = Learn(c, K[n - 1], s[n])

\* The code s is right so far, and m is known at its end.
Leads(c, s, m) == \E K : Trace(c, K, s) /\ K[Len(s)] = m

\* What the allocated code is made of.
FastPieces ==
    [kind : {"load", "store"}, v : Vregs, reg : Regs]
    \cup [kind : {"inst"}, inst : Instructions, regs : Seq(Regs \cup {NoReg})]

\* Classes of virtual registers.
Classes == [Vregs -> {"gpr", "fpr", "fpr128"}]

\* The parts of a piece.
LEMMA PieceType ==
    ASSUME NEW p \in FastPieces
    PROVE  /\ p.kind \in {"load", "store", "inst"}
           /\ p.kind \in {"load", "store"} => p.v \in Vregs /\ p.reg \in Regs
           /\ p.kind = "inst" => p.inst \in Instructions
    BY DEF FastPieces

\* Knowledge stays knowledge.
LEMMA LearnType ==
    ASSUME NEW c, NEW m \in Knowledge, NEW p \in FastPieces
    PROVE  Learn(c, m, p) \in Knowledge
<1>1. CASE p.kind = "load"
    BY <1>1, PieceType DEF Learn, Knowledge
<1>2. CASE p.kind = "store"
    BY <1>2, PieceType DEF Learn, Knowledge
<1>3. CASE p.kind = "inst"
  <2>1. p.inst \in Instructions
      BY <1>3, PieceType
  <2>2. p.inst.def => p.inst.ops[1] \in Vregs
      BY <2>1, InstType
  <2>3. \A l \in Regs \cup Vregs : m[l] \in Vregs \cup {Junk}
      BY DEF Knowledge
  <2>4. LearnInst(c, m, p.inst, p.regs) \in Knowledge
      BY <2>2, <2>3 DEF LearnInst, Knowledge
  <2> QED
      BY <1>3, <2>4 DEF Learn
<1> QED
    BY <1>1, <1>2, <1>3, PieceType

\* At the start of a block nothing is known.
LEMMA LeadsEmpty ==
    ASSUME NEW c
    PROVE  Leads(c, <<>>, Nothing)
<1> DEFINE K == [n \in 0 .. 0 |-> Nothing]
<1>1. Nothing \in Knowledge
    BY DEF Nothing, Knowledge
<1>2. Len(<<>>) = 0
    OBVIOUS
<1>3. Trace(c, K, <<>>)
    BY <1>1, <1>2 DEF Trace
<1> QED
    BY <1>2, <1>3 DEF Leads

\* One more piece.
LEMMA LeadsOn ==
    ASSUME NEW c, NEW s \in Seq(FastPieces), NEW m, Leads(c, s, m),
           NEW p \in FastPieces, Ready(m, p)
    PROVE  Leads(c, s \o <<p>>, Learn(c, m, p))
<1> DEFINE n == Len(s)
           t == s \o <<p>>
<1>1. PICK K : Trace(c, K, s) /\ K[n] = m
    BY DEF Leads
<1>2. n \in Nat
    OBVIOUS
<1>3. Len(t) = n + 1 /\ t[n + 1] = p /\ \A x \in 1 .. n : t[x] = s[x]
    OBVIOUS
<1>4. /\ K \in [0 .. n -> Knowledge] /\ K[0] = Nothing /\ m \in Knowledge
      /\ \A x \in 1 .. n : Ready(K[x - 1], s[x]) /\ K[x] = Learn(c, K[x - 1], s[x])
    BY <1>1, <1>2 DEF Trace
<1>5. Learn(c, m, p) \in Knowledge
    BY <1>4, LearnType
<1> DEFINE J == [x \in 0 .. n + 1 |-> IF x = n + 1 THEN Learn(c, m, p) ELSE K[x]]
<1> HIDE DEF n, t
<1>6. J \in [0 .. n + 1 -> Knowledge] /\ J[0] = Nothing /\ J[n + 1] = Learn(c, m, p)
    BY <1>2, <1>4, <1>5
<1>7. ASSUME NEW x \in 1 .. n + 1
      PROVE  Ready(J[x - 1], t[x]) /\ J[x] = Learn(c, J[x - 1], t[x])
  <2>1. CASE x = n + 1
    <3>1. x - 1 = n /\ J[n] = m /\ J[x] = Learn(c, m, p)
        BY <1>1, <1>2, <2>1
    <3> HIDE DEF J
    <3> QED
        BY <1>3, <2>1, <3>1
  <2>2. CASE x # n + 1
    <3>1. x \in 1 .. n /\ J[x - 1] = K[x - 1] /\ J[x] = K[x]
        BY <1>2, <2>2
    <3> HIDE DEF J
    <3> QED
        BY <1>3, <1>4, <3>1
  <2> QED
      BY <2>1, <2>2
<1> HIDE DEF J
<1>8. Trace(c, J, t)
    BY <1>3, <1>6, <1>7 DEF Trace
<1>9. Leads(c, t, Learn(c, m, p))
    BY <1>3, <1>6, <1>8 DEF Leads
<1> QED
    BY <1>9 DEF t

\* What is known after the stores t of registers that hold what w says.
Stored(m, w, t) ==
    [l \in Regs \cup Vregs |->
        IF \E x \in 1 .. Len(t) : t[x].v = l THEN m[w[l]] ELSE m[l]]

\* Several stores.
LEMMA LeadsStores ==
    ASSUME NEW c, NEW s \in Seq(FastPieces), NEW m, Leads(c, s, m),
           NEW t \in Seq(FastPieces), NEW w,
           \A x \in 1 .. Len(t) : t[x].kind = "store" /\ w[t[x].v] = t[x].reg
    PROVE  Leads(c, s \o t, Stored(m, w, t))
<1> DEFINE n == Len(s)
           k == Len(t)
           u == s \o t
           M == [y \in 0 .. k |-> [l \in Regs \cup Vregs |->
                    IF \E x \in 1 .. y : t[x].v = l THEN m[w[l]] ELSE m[l]]]
<1>1. PICK K : Trace(c, K, s) /\ K[n] = m
    BY DEF Leads
<1>2. n \in Nat /\ k \in Nat
    OBVIOUS
<1>3. /\ Len(u) = n + k
      /\ \A x \in 1 .. n : u[x] = s[x]
      /\ \A x \in 1 .. k : u[n + x] = t[x]
  <2>1. Len(u) = n + k /\ \A x \in 1 .. n + k : u[x] = IF x <= n THEN s[x] ELSE t[x - n]
      BY ConcatProperties
  <2> HIDE DEF n, k, u
  <2> QED
      BY <1>2, <2>1
<1>4. /\ K \in [0 .. n -> Knowledge] /\ K[0] = Nothing /\ m \in Knowledge
      /\ \A x \in 1 .. n : Ready(K[x - 1], s[x]) /\ K[x] = Learn(c, K[x - 1], s[x])
    BY <1>1, <1>2 DEF Trace
<1>5. \A x \in 1 .. k : t[x].v \in Vregs /\ t[x].reg \in Regs /\ w[t[x].v] = t[x].reg
  <2> SUFFICES ASSUME NEW x \in 1 .. k
               PROVE  t[x].v \in Vregs /\ t[x].reg \in Regs /\ w[t[x].v] = t[x].reg
      OBVIOUS
  <2>1. t[x] \in FastPieces
      OBVIOUS
  <2> QED
      BY <2>1, PieceType
<1>6. M \in [0 .. k -> Knowledge]
  <2>1. \A l \in Regs \cup Vregs : m[l] \in Vregs \cup {Junk}
      BY <1>4 DEF Knowledge
  <2>2. ASSUME NEW y \in 0 .. k PROVE M[y] \in Knowledge
    <3>1. \A l \in Regs \cup Vregs : (\E x \in 1 .. y : t[x].v = l) => w[l] \in Regs
        BY <1>2, <1>5
    <3> QED
        BY <2>1, <3>1 DEF Knowledge
  <2> QED
      BY <2>2
<1>7. M[0] = m
  <2>1. 0 \in 0 .. k /\ \A x : x \notin 1 .. 0
      BY <1>2
  <2>2. M[0] = [l \in Regs \cup Vregs |-> m[l]]
      BY <2>1
  <2> QED
      BY <1>4, <2>2 DEF Knowledge
<1>8. ASSUME NEW y \in 1 .. k
      PROVE  Ready(M[y - 1], t[y]) /\ M[y] = Learn(c, M[y - 1], t[y])
  <2> DEFINE v == t[y].v
             r == t[y].reg
  <2>1. v \in Vregs /\ r \in Regs /\ w[v] = r /\ t[y].kind = "store" /\ r \notin Vregs
      BY <1>5, MirAssumption
  <2>2. y - 1 \in 0 .. k /\ y \in 0 .. k
      BY <1>2
  <2>3. M[y - 1][r] = m[r]
    <3>1. ~\E x \in 1 .. y - 1 : t[x].v = r
        BY <1>2, <1>5, <2>1
    <3> QED
        BY <2>1, <2>2, <3>1
  <2>4. Learn(c, M[y - 1], t[y]) = [M[y - 1] EXCEPT ![v] = m[r]]
      BY <2>1, <2>3 DEF Learn
  <2>5. ASSUME NEW l \in Regs \cup Vregs
        PROVE  M[y][l] = [M[y - 1] EXCEPT ![v] = m[r]][l]
    <3>1. CASE l = v
      <4>1. M[y][l] = m[w[l]]
          BY <2>2, <3>1
      <4>2. [M[y - 1] EXCEPT ![v] = m[r]][l] = m[r]
          BY <2>1, <2>2, <3>1
      <4> QED
          BY <2>1, <3>1, <4>1, <4>2
    <3>2. CASE l # v
      <4>1. [M[y - 1] EXCEPT ![v] = m[r]][l] = M[y - 1][l]
          BY <2>2, <3>2
      <4>2. (\E x \in 1 .. y : t[x].v = l) <=> (\E x \in 1 .. y - 1 : t[x].v = l)
          BY <1>2, <3>2
      <4>3. M[y][l] = M[y - 1][l]
          BY <2>2, <4>2
      <4> QED
          BY <4>1, <4>3
    <3> QED
        BY <3>1, <3>2
  <2>6. M[y] \in Knowledge /\ M[y - 1] \in Knowledge
      BY <1>6, <2>2
  <2>7. M[y] = [M[y - 1] EXCEPT ![v] = m[r]]
    <3> HIDE DEF M
    <3> QED
        BY <2>5, <2>6 DEF Knowledge
  <2>8. Ready(M[y - 1], t[y])
      BY <2>1 DEF Ready
  <2> QED
      BY <2>4, <2>7, <2>8
<1> DEFINE J == [x \in 0 .. n + k |-> IF x <= n THEN K[x] ELSE M[x - n]]
<1> HIDE DEF M, n, k, u
<1>9. J \in [0 .. n + k -> Knowledge] /\ J[0] = Nothing
  <2>1. ASSUME NEW x \in 0 .. n + k PROVE J[x] \in Knowledge
    <3>1. CASE x <= n
        BY <1>2, <1>4, <3>1
    <3>2. CASE x > n
      <4>1. x - n \in 0 .. k /\ ~(x <= n)
          BY <1>2, <3>2
      <4>2. J[x] = M[x - n]
          BY <4>1
      <4>3. M[x - n] \in Knowledge
          BY <1>6, <4>1
      <4> QED
          BY <4>2, <4>3
    <3> QED
        BY <1>2, <3>1, <3>2
  <2>2. J[0] = Nothing
      BY <1>2, <1>4
  <2>3. DOMAIN J = 0 .. n + k /\ J = [x \in DOMAIN J |-> J[x]]
      OBVIOUS
  <2> HIDE DEF J
  <2> QED
      BY <2>1, <2>2, <2>3
<1>10. \A y \in 0 .. k : J[n + y] = M[y]
  <2> SUFFICES ASSUME NEW y \in 0 .. k PROVE J[n + y] = M[y]
      OBVIOUS
  <2>1. CASE y = 0
    <3>1. n + y = n /\ J[n] = K[n]
        BY <1>2, <2>1
    <3> QED
        BY <1>1, <1>7, <2>1, <3>1
  <2>2. CASE y # 0
    <3>1. n + y \in 0 .. n + k /\ n + y > n /\ (n + y) - n = y
        BY <1>2, <2>2
    <3> QED
        BY <1>2, <3>1
  <2> QED
      BY <2>1, <2>2
<1>11. ASSUME NEW x \in 1 .. n + k
       PROVE  Ready(J[x - 1], u[x]) /\ J[x] = Learn(c, J[x - 1], u[x])
  <2>1. CASE x <= n
    <3>1. x \in 1 .. n /\ J[x - 1] = K[x - 1] /\ J[x] = K[x]
        BY <1>2, <2>1
    <3> HIDE DEF J
    <3> QED
        BY <1>3, <1>4, <3>1
  <2>2. CASE x > n
    <3>1. PICK y \in 1 .. k : x = n + y /\ x - 1 = n + (y - 1) /\ y - 1 \in 0 .. k
      <4>1. /\ x - n \in 1 .. k /\ x = n + (x - n)
            /\ x - 1 = n + ((x - n) - 1) /\ (x - n) - 1 \in 0 .. k
          BY <1>2, <2>2
      <4> HIDE DEF J
      <4> QED
          BY <4>1
    <3>2. y \in 0 .. k
        BY <1>2
    <3> HIDE DEF J
    <3>3. J[x] = M[y] /\ J[x - 1] = M[y - 1] /\ u[x] = t[y]
        BY <1>3, <1>10, <3>1, <3>2
    <3> QED
        BY <1>8, <3>3
  <2> QED
      BY <1>2, <2>1, <2>2
<1> HIDE DEF J
<1>12. Trace(c, J, u)
    BY <1>3, <1>9, <1>11 DEF Trace
<1>13. J[Len(u)] = M[k]
    BY <1>2, <1>3, <1>10
<1>14. Leads(c, u, M[k])
    BY <1>12, <1>13 DEF Leads
<1>15. M[k] = Stored(m, w, t)
    BY <1>2 DEF M, k, Stored
<1> QED
    BY <1>14, <1>15 DEF u, k

\* A move keeps the contents in agreement with what is known.
LEMMA AgreesMove ==
    ASSUME NEW c, NEW m \in Knowledge, NEW h, HoldsType(h), NEW d, Agrees(h, d, m),
           NEW p \in FastPieces, p.kind # "inst"
    PROVE  Agrees(IF p.kind = "load" THEN [h EXCEPT ![p.reg] = h[p.v]]
                  ELSE [h EXCEPT ![p.v] = h[p.reg]], d, Learn(c, m, p))
<1>1. p.v \in Vregs /\ p.reg \in Regs /\ p.kind \in {"load", "store"}
    BY PieceType
<1>2. DOMAIN h = Regs \cup Vregs /\ DOMAIN m = Regs \cup Vregs
    BY DEF HoldsType, Knowledge
<1>3. CASE p.kind = "load"
    BY <1>1, <1>2, <1>3 DEF Agrees, Learn
<1>4. CASE p.kind = "store"
    BY <1>1, <1>2, <1>4 DEF Agrees, Learn
<1> QED
    BY <1>1, <1>3, <1>4

\* So does an instruction.
LEMMA AgreesInst ==
    ASSUME NEW m \in Knowledge, HoldsType(holds), defined \subseteq Vregs,
           Agrees(holds, defined, m), NEW i \in Instructions, NEW rs
    PROVE  Agrees(AfterInst(i, rs), defined \cup DefOf(i), LearnInst(prog.cls, m, i, rs))
<1> DEFINE n == LearnInst(prog.cls, m, i, rs)
<1> SUFFICES ASSUME NEW l \in Regs \cup Vregs, n[l] \in defined \cup DefOf(i)
             PROVE  AfterInst(i, rs)[l] = n[l]
    BY DEF Agrees
<1>1. CASE i.def /\ l = rs[1]
    BY <1>1 DEF LearnInst, AfterInst
<1>2. CASE ~(i.def /\ l = rs[1])
  <2>1. n[l] = IF Destroys(prog.cls, i, m, l) THEN Junk ELSE m[l]
      BY <1>2 DEF LearnInst
  <2>2. DefOf(i) \subseteq Vregs
      BY InstType
  <2>3. Junk \notin defined \cup DefOf(i)
      BY <2>2, MirAssumption
  <2>4. ~Destroys(prog.cls, i, m, l) /\ n[l] = m[l]
      BY <2>1, <2>3
  <2>5. m[l] \notin DefOf(i)
      BY <2>4 DEF Destroys
  <2>6. m[l] \in defined
      BY <2>4, <2>5
  <2>7. holds[l] = m[l]
      BY <2>6 DEF Agrees
  <2>8. ~Clobbered(i, l) /\ holds[l] \notin DefOf(i)
      BY <2>4, <2>5, <2>7 DEF Destroys, Clobbered
  <2>9. AfterInst(i, rs)[l] = holds[l]
      BY <1>2, <2>8 DEF AfterInst
  <2> QED
      BY <2>4, <2>7, <2>9
<1> QED
    BY <1>1, <1>2

-----------------------------------------------------------------------------
(* The registers of the fast allocator.                                    *)

\* vreg_to_phys: registers of the right bank, each for one virtual register, saved by
\* the prologue if they are callee-saved, which none for a 128-bit value is.
WhereRight(c, w, u) ==
    /\ w \in [Vregs -> Regs \cup {NoReg}]
    /\ \A v \in Vregs : w[v] # NoReg =>
          /\ w[v] \in OrderRegs(Bank(c[v]))
          /\ w[v] \in CalleeSaved => w[v] \in u /\ c[v] # "fpr128"
          /\ \A x \in Vregs : w[x] = w[v] => x = v

\* The registers of both banks.
LEMMA AllRegs ==
    /\ Order["gpr"] \o Order["fpr"] \in Seq(Regs)
    /\ \A bank \in {"gpr", "fpr"} : \A r \in OrderRegs(bank) :
          \E k \in DOMAIN (Order["gpr"] \o Order["fpr"]) : (Order["gpr"] \o Order["fpr"])[k] = r
<1> DEFINE g == Order["gpr"]
           f == Order["fpr"]
           all == g \o f
<1>1. g \in Seq(Regs) /\ f \in Seq(Regs)
    BY FastAssumption
<1>2. /\ all \in Seq(Regs) /\ Len(all) = Len(g) + Len(f)
      /\ \A k \in 1 .. Len(g) + Len(f) : all[k] = IF k <= Len(g) THEN g[k] ELSE f[k - Len(g)]
    BY <1>1, ConcatProperties
<1>3. /\ DOMAIN all = 1 .. Len(all) /\ Len(g) \in Nat /\ Len(f) \in Nat
      /\ DOMAIN g = 1 .. Len(g) /\ DOMAIN f = 1 .. Len(f)
    BY <1>1, <1>2
<1>4. ASSUME NEW r \in OrderRegs("gpr") PROVE \E k \in DOMAIN all : all[k] = r
  <2>1. PICK k \in DOMAIN g : g[k] = r
      BY DEF OrderRegs
  <2> HIDE DEF g, f, all
  <2>2. k \in 1 .. Len(g) + Len(f) /\ k <= Len(g)
      BY <1>3
  <2> QED
      BY <1>2, <1>3, <2>1, <2>2
<1>5. ASSUME NEW r \in OrderRegs("fpr") PROVE \E k \in DOMAIN all : all[k] = r
  <2>1. PICK k \in DOMAIN f : f[k] = r
      BY DEF OrderRegs
  <2> HIDE DEF g, f, all
  <2>2. Len(g) + k \in 1 .. Len(g) + Len(f) /\ ~(Len(g) + k <= Len(g))
        /\ (Len(g) + k) - Len(g) = k
      BY <1>3
  <2>3. all[Len(g) + k] = f[k]
      BY <1>2, <2>2
  <2> QED
      BY <1>2, <1>3, <2>1, <2>2, <2>3
<1> QED
    BY <1>2, <1>4, <1>5

\* evict_phys stores the holders of the registers and nothing else.
LEMMA SpillsShape ==
    ASSUME NEW c \in Classes, NEW u, WhereRight(c, where, u), NEW rs \in SUBSET Regs
    PROVE  /\ Spills(rs) \in Seq(FastPieces)
           /\ \A n \in 1 .. Len(Spills(rs)) :
                 /\ Spills(rs)[n].kind = "store"
                 /\ Spills(rs)[n].v \in Vregs
                 /\ where[Spills(rs)[n].v] = Spills(rs)[n].reg
                 /\ where[Spills(rs)[n].v] \in rs
           /\ \A v \in Vregs : where[v] \in rs =>
                 \E n \in 1 .. Len(Spills(rs)) : Spills(rs)[n].v = v
<1> DEFINE all == Order["gpr"] \o Order["fpr"]
           s == [k \in DOMAIN all |-> IF all[k] \in rs THEN EvictPhys(all[k]) ELSE <<>>]
<1>1. /\ all \in Seq(Regs) /\ Len(all) \in Nat /\ DOMAIN all = 1 .. Len(all)
      /\ \A k \in DOMAIN all : all[k] \in Regs
  <2>1. all \in Seq(Regs)
      BY AllRegs
  <2> HIDE DEF all
  <2> QED
      BY <2>1
<1>2. Spills(rs) = FlattenSeq(s)
    BY DEF Spills
<1>3. ASSUME NEW r \in Regs, NEW v \in Vregs, where[v] = r
      PROVE  EvictPhys(r) = <<Store(v, r)>>
  <2>1. r # NoReg
      BY MirAssumption
  <2>2. Holder(r) = {v}
      BY <1>3, <2>1 DEF Holder, WhereRight
  <2>3. (CHOOSE x \in Vregs : x \in Holder(r)) = v
      BY <2>2
  <2> QED
      BY <2>2, <2>3 DEF EvictPhys
<1>4. ASSUME NEW r \in Regs
      PROVE  EvictPhys(r) = <<>> \/ \E v \in Vregs : where[v] = r
    BY DEF EvictPhys, Holder
<1>5. ASSUME NEW k \in DOMAIN all
      PROVE  /\ s[k] \in Seq(FastPieces)
             /\ \/ s[k] = <<>>
                \/ \E v \in Vregs : /\ where[v] = all[k] /\ all[k] \in rs
                                    /\ s[k] = <<Store(v, all[k])>>
  <2>0. all[k] \in Regs
      BY <1>1
  <2>1. CASE all[k] \in rs /\ EvictPhys(all[k]) # <<>>
    <3>1. PICK v \in Vregs : where[v] = all[k]
        BY <1>4, <2>0, <2>1
    <3>2. s[k] = <<Store(v, all[k])>>
      <4>1. EvictPhys(all[k]) = <<Store(v, all[k])>>
          BY <1>3, <2>0, <3>1
      <4> QED
          BY <2>1, <4>1
    <3>3. Store(v, all[k]) \in FastPieces
        BY <2>0 DEF Store, FastPieces
    <3> HIDE DEF s
    <3>4. s[k] \in Seq(FastPieces)
        BY <3>2, <3>3
    <3> QED
        BY <2>1, <3>1, <3>2, <3>4
  <2>2. CASE ~(all[k] \in rs /\ EvictPhys(all[k]) # <<>>)
    <3>1. s[k] = <<>>
        BY <2>2
    <3> HIDE DEF s
    <3> QED
        BY <3>1
  <2> QED
      BY <2>1, <2>2
<1>6. s \in Seq(Seq(FastPieces)) /\ Len(s) = Len(all)
  <2>1. DOMAIN s = 1 .. Len(all)
      BY <1>1
  <2>2. s = [k \in DOMAIN s |-> s[k]]
      OBVIOUS
  <2>3. \A k \in 1 .. Len(all) : s[k] \in Seq(FastPieces)
      BY <1>1, <1>5
  <2> HIDE DEF s, all
  <2>4. s \in [1 .. Len(all) -> Seq(FastPieces)]
      BY <2>1, <2>2, <2>3
  <2> QED
      BY <1>1, <2>4
<1>7. ASSUME NEW v \in Vregs, where[v] \in rs
      PROVE  \E k \in 1 .. Len(all) : s[k] = <<Store(v, where[v])>>
  <2>1. where[v] # NoReg
      BY <1>7, MirAssumption
  <2>2. where[v] \in OrderRegs(Bank(c[v]))
      BY <2>1 DEF WhereRight
  <2>3. PICK k \in DOMAIN all : all[k] = where[v]
      BY <2>2, AllRegs DEF Bank
  <2>4. EvictPhys(all[k]) = <<Store(v, where[v])>>
      BY <1>1, <1>3, <2>3
  <2>5. s[k] = <<Store(v, where[v])>>
      BY <1>7, <2>3, <2>4
  <2> QED
      BY <1>1, <2>5
<1> HIDE DEF s, all
<1>8. FlattenSeq(s) \in Seq(FastPieces)
    BY <1>6, Flattened
<1>9. PICK f : Layout(f, s, FlattenSeq(s))
    BY <1>6, Flattened
<1> DEFINE t == FlattenSeq(s)
<1>10. ASSUME NEW n \in 1 .. Len(t)
       PROVE  t[n].kind = "store" /\ t[n].v \in Vregs /\ where[t[n].v] = t[n].reg
                /\ where[t[n].v] \in rs
  <2>1. PICK k \in 1 .. Len(s) : \E o \in 1 .. Len(s[k]) : n = f[k - 1] + o
      BY <1>9 DEF Layout
  <2>2. PICK o \in 1 .. Len(s[k]) : n = f[k - 1] + o
      BY <2>1
  <2>3. t[n] = s[k][o]
      BY <1>9, <2>2 DEF Layout
  <2>4. k \in DOMAIN all
      BY <1>1, <1>6
  <2>5. s[k] # <<>>
      BY <2>2
  <2>6. PICK v \in Vregs : /\ where[v] = all[k] /\ all[k] \in rs
                           /\ s[k] = <<Store(v, all[k])>>
      BY <1>5, <2>4, <2>5
  <2>7. t[n] = Store(v, all[k])
      BY <2>2, <2>3, <2>6
  <2> HIDE DEF t
  <2> QED
      BY <2>6, <2>7 DEF Store
<1>11. ASSUME NEW v \in Vregs, where[v] \in rs
       PROVE  \E n \in 1 .. Len(t) : t[n].v = v
  <2>1. PICK k \in 1 .. Len(all) : s[k] = <<Store(v, where[v])>>
      BY <1>7, <1>11
  <2>2. k \in 1 .. Len(s) /\ 1 \in 1 .. Len(s[k]) /\ s[k][1] = Store(v, where[v])
      BY <1>6, <2>1
  <2>3. f[k - 1] + 1 \in 1 .. Len(t) /\ t[f[k - 1] + 1] = s[k][1]
      BY <1>9, <2>2 DEF Layout
  <2>4. t[f[k - 1] + 1].v = v
      BY <2>2, <2>3 DEF Store
  <2> QED
      BY <2>3, <2>4
<1> HIDE DEF t
<1> QED
    BY <1>2, <1>8, <1>10, <1>11 DEF t

\* What is known after an eviction: what was in the registers is in the slots too.
Evicted(m, w, rs) ==
    [l \in Regs \cup Vregs |-> IF l \in Vregs /\ w[l] \in rs THEN m[w[l]] ELSE m[l]]

\* The stores for the registers of rs lead there.
LEMMA SpillsLead ==
    ASSUME NEW c \in Classes, NEW u, WhereRight(c, where, u), NEW rs \in SUBSET Regs,
           out \in Seq(FastPieces), NEW m, Leads(c, out, m)
    PROVE  /\ Spills(rs) \in Seq(FastPieces)
           /\ out \o Spills(rs) \in Seq(FastPieces)
           /\ Leads(c, out \o Spills(rs), Evicted(m, where, rs))
<1> DEFINE t == Spills(rs)
<1>1. /\ t \in Seq(FastPieces)
      /\ \A n \in 1 .. Len(t) :
            t[n].kind = "store" /\ t[n].v \in Vregs /\ where[t[n].v] = t[n].reg
              /\ where[t[n].v] \in rs
      /\ \A v \in Vregs : where[v] \in rs => \E n \in 1 .. Len(t) : t[n].v = v
    BY SpillsShape
<1> HIDE DEF t
<1>2. Leads(c, out \o t, Stored(m, where, t))
  <2>1. \A x \in 1 .. Len(t) : t[x].kind = "store" /\ where[t[x].v] = t[x].reg
      BY <1>1
  <2>2. t \in Seq(FastPieces)
      BY <1>1
  <2> QED
      BY <2>1, <2>2, LeadsStores
<1>3. \A l \in Regs \cup Vregs :
        (\E x \in 1 .. Len(t) : t[x].v = l) <=> (l \in Vregs /\ where[l] \in rs)
    BY <1>1
<1>4. Stored(m, where, t) = Evicted(m, where, rs)
    BY <1>3 DEF Evicted, Stored
<1>5. out \o t \in Seq(FastPieces)
    BY <1>1, ConcatProperties
<1> QED
    BY <1>1, <1>2, <1>4, <1>5 DEF t

\* The first register of a pool that is not taken.
LEMMA TryPoolFirst ==
    ASSUME NEW pool \in Seq(Regs), NEW taken
    PROVE  /\ TryPool(pool, taken) # NoReg =>
                 \E k \in DOMAIN pool :
                    /\ TryPool(pool, taken) = pool[k] /\ pool[k] \notin taken
                    /\ \A j \in DOMAIN pool : j < k => pool[j] \in taken
           /\ TryPool(pool, taken) = NoReg => \A k \in DOMAIN pool : pool[k] \in taken
<1> DEFINE free == {k \in DOMAIN pool : pool[k] \notin taken}
<1>1. DOMAIN pool = 1 .. Len(pool) /\ Len(pool) \in Nat /\ \A k \in DOMAIN pool : pool[k] \in Regs
    OBVIOUS
<1>2. free \subseteq Nat
    BY <1>1
<1>3. CASE free = {}
  <2>1. TryPool(pool, taken) = NoReg
      BY <1>3 DEF TryPool
  <2> QED
      BY <1>3, <2>1
<1>4. CASE free # {}
  <2>1. Least(free) \in free /\ \A y \in free : Least(free) <= y
      BY <1>2, <1>4, LeastOfNat
  <2>2. TryPool(pool, taken) = pool[Least(free)]
      BY <1>4 DEF TryPool
  <2> DEFINE k == Least(free)
  <2>3. k \in DOMAIN pool /\ pool[k] \notin taken /\ k \in Nat
      BY <1>2, <2>1
  <2>4. \A j \in DOMAIN pool : j < k => pool[j] \in taken
    <3> HIDE DEF k
    <3>1. \A y \in free : k <= y
        BY <2>1 DEF k
    <3> QED
        BY <1>1, <2>3, <3>1
  <2>5. TryPool(pool, taken) # NoReg
      BY <1>1, <2>2, <2>3, MirAssumption
  <2> HIDE DEF k
  <2> QED
      BY <2>2, <2>3, <2>4, <2>5 DEF k
<1> QED
    BY <1>3, <1>4

\* The parts of a function.
LEMMA FastProgramType ==
    ASSUME prog \in FastPrograms
    PROVE  /\ Len(prog.blocks) \in Nat /\ 1 \in Blocks(prog)
           /\ prog.cls \in Classes
           /\ \A b \in Blocks(prog) :
                 /\ b \in Nat /\ b >= 1
                 /\ prog.blocks[b] \in Seq(Instructions)
                 /\ Len(prog.blocks[b]) \in Nat
                 /\ DOMAIN prog.blocks[b] = 1 .. Len(prog.blocks[b])
                 /\ \A k \in 1 .. Len(prog.blocks[b]) :
                       prog.blocks[b][k] \in Instructions /\ prog.blocks[b][k] \in Insts(prog)
<1>1. /\ prog.blocks \in Seq(Seq(Instructions)) /\ prog.blocks # <<>>
      /\ prog.cls \in Classes
    BY FastAssumption DEF Classes
<1> DEFINE s == prog.blocks
<1>2. Len(s) \in Nat /\ DOMAIN s = 1 .. Len(s) /\ Len(s) # 0 /\ \A b \in 1 .. Len(s) : s[b] \in Seq(Instructions)
    BY <1>1
<1>3. ASSUME NEW b \in 1 .. Len(s)
      PROVE  /\ b \in Nat /\ b >= 1 /\ Len(s[b]) \in Nat /\ DOMAIN s[b] = 1 .. Len(s[b])
             /\ \A k \in 1 .. Len(s[b]) : s[b][k] \in Instructions
  <2>1. s[b] \in Seq(Instructions)
      BY <1>2
  <2> HIDE DEF s
  <2> QED
      BY <1>2, <2>1
<1>4. \A b \in 1 .. Len(s) : \A k \in 1 .. Len(s[b]) : s[b][k] \in Insts(prog)
    BY DEF Insts, Blocks
<1>5. 1 \in 1 .. Len(s)
  <2> HIDE DEF s
  <2> QED
      BY <1>2
<1> QED
    BY <1>1, <1>2, <1>3, <1>4, <1>5 DEF Blocks

\* An instruction never has all registers of its bank pinned when it needs one more:
\* the pinned registers are those it names and those of other operands.
LEMMA Room ==
    ASSUME NEW c \in Classes, NEW u, WhereRight(c, where, u), NEW i \in Instructions,
           NEW bank \in {"gpr", "fpr"}, NEW v \in DefOf(i) \cup UsesOf(i),
           Bank(c[v]) = bank, where[v] = NoReg,
           NEW C \in SUBSET OrderRegs(bank),
           \A r \in pinned : r \in i.phys \/ \E x \in DefOf(i) \cup UsesOf(i) : r = where[x],
           NEW A, \A x : x \in A <=> x \in DefOf(i) \cup UsesOf(i) /\ Bank(c[x]) = bank,
           Cardinality(A) <= Cardinality(C \ i.phys)
    PROVE  \E r \in C : r \notin pinned
<1> SUFFICES ASSUME \A r \in C : r \in pinned PROVE FALSE
    OBVIOUS
<1> DEFINE B == A \ {v}
           f == [x \in B |-> where[x]]
           T == {where[x] : x \in B}
<1>1. DefOf(i) \cup UsesOf(i) \subseteq Vregs /\ \A k \in DOMAIN i.ops : i.ops[k] \in DefOf(i) \cup UsesOf(i)
    BY InstType
<1>2. IsFiniteSet(A) /\ A \subseteq Vregs
  <2>1. IsFiniteSet(DefOf(i) \cup UsesOf(i))
      BY OperandsFinite
  <2>2. A \in SUBSET (DefOf(i) \cup UsesOf(i))
      OBVIOUS
  <2> QED
      BY <1>1, <2>1, <2>2, FS_Subset
<1>3. IsFiniteSet(B) /\ Cardinality(B) = Cardinality(A) - 1 /\ Cardinality(A) \in Nat
  <2>1. v \in A
      OBVIOUS
  <2> QED
      BY <1>2, <2>1, FS_RemoveElement, FS_CardinalityType
<1>4. C \ i.phys \subseteq T
  <2> SUFFICES ASSUME NEW r \in C, r \notin i.phys PROVE r \in T
      OBVIOUS
  <2>1. PICK x \in DefOf(i) \cup UsesOf(i) : r = where[x]
      OBVIOUS
  <2>2. where[x] = r /\ r \in Regs /\ x \in Vregs
    <3>1. Order[bank] \in Seq(Regs)
        BY FastAssumption
    <3>2. OrderRegs(bank) \subseteq Regs
        BY <3>1 DEF OrderRegs
    <3> QED
        BY <1>1, <2>1, <3>2
  <2>3. where[x] # NoReg
      BY <2>2, MirAssumption
  <2>4. r \in OrderRegs(Bank(c[x]))
      BY <2>2, <2>3 DEF WhereRight
  <2>5. Bank(c[x]) = bank
    <3>1. Bank(c[x]) \in {"gpr", "fpr"}
        BY DEF Bank
    <3>2. r \in OrderRegs(bank)
        OBVIOUS
    <3> QED
        BY <2>4, <3>1, <3>2, FastAssumption
  <2>6. x \in B
      BY <2>2, <2>3, <2>5
  <2> QED
      BY <2>2, <2>6
<1>5. f \in Surjection(B, T)
    BY DEF Surjection
<1>6. IsFiniteSet(T) /\ Cardinality(T) <= Cardinality(B)
    BY <1>3, <1>5, FS_Surjection
<1>7. /\ IsFiniteSet(C \ i.phys) /\ Cardinality(C \ i.phys) <= Cardinality(T)
      /\ Cardinality(C \ i.phys) \in Nat /\ Cardinality(T) \in Nat /\ Cardinality(B) \in Nat
    BY <1>3, <1>4, <1>6, FS_Subset, FS_CardinalityType
<1> DEFINE a == Cardinality(A)
           b == Cardinality(B)
           t == Cardinality(T)
           z == Cardinality(C \ i.phys)
<1> HIDE DEF a, b, t, z
<1>8. a <= z /\ z <= t /\ t <= b /\ b = a - 1 /\ a \in Nat /\ t \in Nat /\ z \in Nat /\ b \in Nat
    BY <1>3, <1>6, <1>7 DEF a, b, t, z
<1> QED
    BY <1>8

\* allocate finds a register, not one of another operand, and for a 128-bit value one
\* that is not callee-saved.
LEMMA ChoiceRight ==
    ASSUME prog \in FastPrograms, NEW u, WhereRight(prog.cls, where, u),
           NEW i \in Instructions, i \in Insts(prog),
           NEW v \in DefOf(i) \cup UsesOf(i), where[v] = NoReg,
           NEW done \in SUBSET DOMAIN i.ops,
           \A k \in done : where[i.ops[k]] = regs[k] /\ regs[k] \in Regs,
           pinned = i.phys \cup {regs[k] : k \in done}
    PROVE  /\ Choice(v) \in OrderRegs(Bank(prog.cls[v])) \ pinned
           /\ Choice(v) \in Regs /\ Choice(v) # NoReg
           /\ prog.cls[v] = "fpr128" => Choice(v) \notin CalleeSaved
<1> DEFINE c == prog.cls
           bank == Bank(c[v])
           order == Order[bank]
           free == TryPool(order, Occupied(v))
           last == TryPool(order, pinned)
           A == {x \in DefOf(i) \cup UsesOf(i) : Bank(c[x]) = bank}
<1>0. \A r \in pinned : r \in i.phys \/ \E x \in DefOf(i) \cup UsesOf(i) : r = where[x]
  <2>1. \A k \in DOMAIN i.ops : i.ops[k] \in DefOf(i) \cup UsesOf(i)
      BY InstType
  <2> QED
      BY <2>1
<1>1. c \in Classes /\ bank \in {"gpr", "fpr"} /\ v \in Vregs
    BY FastProgramType, InstType DEF Bank
<1>2. order \in Seq(Regs) /\ OrderRegs(bank) \subseteq Regs
      /\ \A k \in DOMAIN order : order[k] \in OrderRegs(bank)
  <2>1. order \in Seq(Regs)
      BY <1>1, FastAssumption
  <2>2. OrderRegs(bank) = {order[k] : k \in DOMAIN order}
      BY DEF OrderRegs
  <2> HIDE DEF order, bank
  <2> QED
      BY <2>1, <2>2
<1>3. Choice(v) = IF free # NoReg THEN free ELSE last
    BY DEF Choice, Spared
<1>4. A = OperandsIn(prog, i, bank)
    BY DEF OperandsIn
<1>5. Cardinality(A) <= Cardinality(OrderRegs(bank) \ i.phys)
    BY <1>1, <1>4, FastAssumption
<1>6. \E r \in OrderRegs(bank) : r \notin pinned
  <2> HIDE DEF A, bank, c
  <2>1. Bank(c[v]) = bank /\ \A x : x \in A <=> x \in DefOf(i) \cup UsesOf(i) /\ Bank(c[x]) = bank
      BY DEF bank, A
  <2>2. WhereRight(c, where, u)
      BY DEF c
  <2>3. OrderRegs(bank) \in SUBSET OrderRegs(bank)
      OBVIOUS
  <2> QED
      BY <1>0, <1>1, <1>5, <2>1, <2>2, <2>3, Room
<1>7. last # NoReg
  <2>1. PICK r \in OrderRegs(bank) : r \notin pinned
      BY <1>6
  <2>2. PICK k \in DOMAIN order : order[k] = r
      BY DEF OrderRegs
  <2> HIDE DEF order
  <2> QED
      BY <1>2, <2>1, <2>2, TryPoolFirst
<1>8. CASE free # NoReg
  <2>1. free \in OrderRegs(bank) /\ free \notin Occupied(v)
    <3> HIDE DEF order
    <3>1. PICK k \in DOMAIN order : free = order[k] /\ order[k] \notin Occupied(v)
        BY <1>2, <1>8, TryPoolFirst
    <3> QED
        BY <1>2, <3>1
  <2>2. free \notin pinned /\ (c[v] = "fpr128" => free \notin CalleeSaved)
      BY <2>1 DEF Occupied
  <2> HIDE DEF free, bank
  <2> QED
      BY <1>2, <1>3, <1>8, <2>1, <2>2, MirAssumption DEF bank
<1>9. CASE free = NoReg
  <2>1. PICK k \in DOMAIN order : /\ last = order[k] /\ order[k] \notin pinned
                                  /\ \A j \in DOMAIN order : j < k => order[j] \in pinned
    <3> HIDE DEF order
    <3> QED
        BY <1>2, <1>7, TryPoolFirst
  <2>2. c[v] = "fpr128" => last \notin CalleeSaved
    <3> SUFFICES ASSUME c[v] = "fpr128", last \in CalleeSaved PROVE FALSE
        OBVIOUS
    <3> DEFINE C == OrderRegs("fpr") \ CalleeSaved
    <3>1. bank = "fpr"
        BY DEF Bank
    <3>2. Cardinality(A) <= Cardinality(OrderRegs("fpr") \ (CalleeSaved \cup i.phys))
      <4>1. v \in OperandsIn(prog, i, "fpr") /\ prog.cls[v] = "fpr128"
          BY <1>4, <3>1
      <4>2. Cardinality(OperandsIn(prog, i, "fpr"))
              <= Cardinality(OrderRegs("fpr") \ (CalleeSaved \cup i.phys))
          BY <4>1, FastAssumption
      <4> QED
          BY <1>4, <3>1, <4>2
    <3>3. OrderRegs("fpr") \ (CalleeSaved \cup i.phys) = C \ i.phys
        OBVIOUS
    <3>4. \E r \in C : r \notin pinned
      <4> HIDE DEF A, bank, c, C
      <4>1. Bank(c[v]) = bank /\ \A x : x \in A <=> x \in DefOf(i) \cup UsesOf(i) /\ Bank(c[x]) = bank
          BY DEF bank, A
      <4>2. WhereRight(c, where, u)
          BY DEF c
      <4>3. C \in SUBSET OrderRegs(bank) /\ Cardinality(A) <= Cardinality(C \ i.phys)
          BY <3>1, <3>2, <3>3 DEF C
      <4> QED
          BY <1>0, <1>1, <4>1, <4>2, <4>3, Room
    <3>5. PICK r \in C : r \notin pinned
        BY <3>4
    <3>6. PICK j \in DOMAIN order : order[j] = r
        BY <3>1 DEF OrderRegs
    <3> HIDE DEF order
    <3>7. ~(j < k) /\ j # k
        BY <2>1, <3>5, <3>6
    <3>8. k < j
      <4>1. DOMAIN order = 1 .. Len(order) /\ Len(order) \in Nat
          BY <1>2
      <4> QED
          BY <3>7, <4>1
    <3>9. order[k] \notin CalleeSaved
        BY <3>1, <3>5, <3>6, <3>8, FastAssumption DEF order
    <3> QED
        BY <2>1, <3>9
  <2>3. last \in OrderRegs(bank)
      BY <1>2, <2>1
  <2> HIDE DEF last, free, bank
  <2> QED
      BY <1>2, <1>3, <1>7, <1>9, <2>1, <2>2, <2>3 DEF bank
<1> QED
    BY <1>8, <1>9

\* The map w once v has register r and the holder of r has none.
Given(w, v, r) ==
    [x \in Vregs |-> IF x = v THEN r ELSE IF w[x] = r THEN NoReg ELSE w[x]]

\* The registers after allocate.
LEMMA WhereAllocated ==
    ASSUME NEW c \in Classes, NEW u, WhereRight(c, where, u), NEW v \in Vregs,
           NEW r \in Regs, r \in OrderRegs(Bank(c[v])), where[v] = NoReg,
           c[v] = "fpr128" => r \notin CalleeSaved
    PROVE  WhereRight(c, Given(where, v, r), u \cup ({r} \cap CalleeSaved))
<1> DEFINE w == Given(where, v, r)
<1>1. r # NoReg
    BY MirAssumption
<1>2. where \in [Vregs -> Regs \cup {NoReg}]
    BY DEF WhereRight
<1>3. w \in [Vregs -> Regs \cup {NoReg}] /\ w[v] = r
    BY <1>2 DEF Given
<1>4. \A x \in Vregs : x # v => w[x] = IF where[x] = r THEN NoReg ELSE where[x]
    BY DEF Given
<1> HIDE DEF w
<1>5. ASSUME NEW x \in Vregs, w[x] # NoReg
      PROVE  /\ w[x] \in OrderRegs(Bank(c[x]))
             /\ w[x] \in CalleeSaved => w[x] \in u \cup ({r} \cap CalleeSaved) /\ c[x] # "fpr128"
             /\ \A y \in Vregs : w[y] = w[x] => y = x
  <2>1. CASE x = v
    <3>1. \A y \in Vregs : w[y] = r => y = v
        BY <1>1, <1>4
    <3> QED
        BY <1>3, <2>1, <3>1
  <2>2. CASE x # v
    <3>1. w[x] = where[x] /\ where[x] # r /\ where[x] # NoReg
        BY <1>4, <1>5, <2>2
    <3>2. /\ where[x] \in OrderRegs(Bank(c[x]))
          /\ where[x] \in CalleeSaved => where[x] \in u /\ c[x] # "fpr128"
          /\ \A y \in Vregs : where[y] = where[x] => y = x
        BY <3>1 DEF WhereRight
    <3>3. \A y \in Vregs : w[y] = w[x] => y = x
      <4> SUFFICES ASSUME NEW y \in Vregs, w[y] = w[x] PROVE y = x
          OBVIOUS
      <4>1. y # v
          BY <1>3, <3>1
      <4>2. w[y] = where[y]
          BY <1>4, <3>1, <4>1
      <4> QED
          BY <3>1, <3>2, <4>2
    <3> QED
        BY <3>1, <3>2, <3>3
  <2> QED
      BY <2>1, <2>2
<1>6. WhereRight(c, w, u \cup ({r} \cap CalleeSaved))
    BY <1>3, <1>5 DEF WhereRight
<1> QED
    BY <1>6 DEF w

\* Forgetting registers keeps the map right.
LEMMA WhereWithout ==
    ASSUME NEW c, NEW u, WhereRight(c, where, u), NEW S
    PROVE  /\ WhereRight(c, Without(where, S), u)
           /\ \A x \in Vregs : Without(where, S)[x] = IF x \in S THEN NoReg ELSE where[x]
<1> DEFINE w == Without(where, S)
<1>1. \A x \in Vregs : w[x] = IF x \in S THEN NoReg ELSE where[x]
    BY DEF Without
<1>2. w \in [Vregs -> Regs \cup {NoReg}]
    BY DEF Without, WhereRight
<1> HIDE DEF w
<1>3. WhereRight(c, w, u)
    BY <1>1, <1>2 DEF WhereRight
<1> QED
    BY <1>1, <1>3 DEF w

-----------------------------------------------------------------------------
(* The invariant of the fast allocator.                                    *)

\* The values of block b of p that exist before its instruction k and are mentioned
\* there or later.
AliveAt(p, b, k) ==
    {v \in Vregs :
        /\ \E j \in 1 .. k - 1 : v \in DefOf(p.blocks[b][j])
        /\ \E j \in k .. Len(p.blocks[b]) : v \in Mentions(p.blocks[b][j])}

\* The callee-saved registers that s writes are in u.
Saves(s, u) ==
    \A n \in 1 .. Len(s) :
        /\ s[n].kind = "load" /\ s[n].reg \in CalleeSaved => s[n].reg \in u
        /\ s[n].kind = "inst" /\ s[n].inst.def /\ s[n].regs[1] \in CalleeSaved =>
              s[n].regs[1] \in u

\* Where the allocator has v: its register, or its slot.
Place(w, v) == IF w[v] = NoReg THEN v ELSE w[v]

\* The operands of the current instruction that are read and have a register.
DoneOps == {k \in ReadIndexes(Current) : stage = "operands" => k < operand}

\* m is known at the end of the code emitted so far: what is alive is in its place,
\* except a value the instruction is about to replace, and the operands found so far
\* are in their registers.
Placed(m) ==
    /\ Leads(prog.cls, out, m)
    /\ \A v \in AliveAt(prog, block, index) :
          (stage = "emit" /\ v \in DefOf(Current)) \/ m[Place(where, v)] = v
    /\ \A k \in DoneOps : regs[k] \in pinned /\ m[regs[k]] = Current.ops[k]

\* What is pinned, and that operands stay where they were found until the call.
OperandsPinned ==
    /\ stage # "emit" => pinned = Current.phys \cup {regs[k] : k \in DoneOps}
    /\ stage # "emit" /\ ~(stage = "def" /\ Current.call) =>
          \A k \in DoneOps : where[Current.ops[k]] = regs[k]

\* Nothing is left where the instruction destroys it.
OutOfTheWay ==
    /\ stage = "emit" =>
          /\ Current.def => regs[1] = where[Current.ops[1]] /\ regs[1] # NoReg
          /\ \A v \in Vregs : where[v] \notin Current.phys
    /\ stage \in {"def", "emit"} /\ Current.call =>
          \A v \in Vregs : where[v] \in CalleeSaved \cup {NoReg}

AllocTypes ==
    /\ index \in 1 .. Len(prog.blocks[block])
    /\ operand \in Nat /\ (stage # "operands" => operand = 1)
    /\ regs \in [DOMAIN Current.ops -> Regs \cup {NoReg}]
    /\ pinned \subseteq Regs
    /\ out \in Seq(FastPieces) /\ Saves(out, usedCsrs)
    /\ WhereRight(prog.cls, where, usedCsrs)

Allocating ==
    /\ at[1] = 0 /\ Len(code) = block - 1
    /\ AllocTypes /\ OperandsPinned /\ OutOfTheWay
    /\ \E m : Placed(m)

\* The machine runs the code and agrees with what is known there.
Running ==
    /\ Len(code) = Len(prog.blocks)
    /\ at[1] \in Blocks(prog)
    /\ at[2] \in 1 .. Len(code[at[1]]) + 1
    /\ \E K : Trace(prog.cls, K, code[at[1]]) /\ Agrees(holds, defined, K[at[2] - 1])

FastInv ==
    /\ prog \in FastPrograms /\ AcceptedFast(prog)
    /\ block \in Blocks(prog)
    /\ stage \in {"operands", "call", "def", "emit", "done"}
    /\ code \in Seq(Seq(FastPieces))
    /\ \A b \in 1 .. Len(code) : Saves(code[b], usedCsrs) /\ \E m : Leads(prog.cls, code[b], m)
    /\ HoldsType(holds) /\ defined \subseteq Vregs
    /\ stage # "done" => Allocating
    /\ stage = "done" => Running

\* The code of a trace is known in terms of registers and slots.
LEMMA LeadsType ==
    ASSUME NEW c, NEW s \in Seq(FastPieces), NEW m, Leads(c, s, m)
    PROVE  m \in Knowledge
<1>1. PICK K : Trace(c, K, s) /\ K[Len(s)] = m
    BY DEF Leads
<1>2. Len(s) \in 0 .. Len(s)
    OBVIOUS
<1> QED
    BY <1>1, <1>2 DEF Trace

\* More registers saved.
LEMMA SavesMore ==
    ASSUME NEW s, NEW u, NEW w, Saves(s, u), u \subseteq w
    PROVE  Saves(s, w)
    BY DEF Saves

\* More code.
LEMMA SavesOn ==
    ASSUME NEW s \in Seq(FastPieces), NEW t \in Seq(FastPieces), NEW u,
           Saves(s, u), Saves(t, u)
    PROVE  s \o t \in Seq(FastPieces) /\ Saves(s \o t, u)
<1> DEFINE z == s \o t
<1>1. /\ z \in Seq(FastPieces) /\ Len(z) = Len(s) + Len(t)
      /\ \A n \in 1 .. Len(s) + Len(t) : z[n] = IF n <= Len(s) THEN s[n] ELSE t[n - Len(s)]
    BY ConcatProperties
<1>2. Len(s) \in Nat /\ Len(t) \in Nat
    OBVIOUS
<1> HIDE DEF z
<1>3. ASSUME NEW n \in 1 .. Len(z)
      PROVE  (\E k \in 1 .. Len(s) : z[n] = s[k]) \/ (\E k \in 1 .. Len(t) : z[n] = t[k])
  <2>1. CASE n <= Len(s)
      BY <1>1, <1>2, <2>1
  <2>2. CASE n > Len(s)
    <3>1. n - Len(s) \in 1 .. Len(t) /\ z[n] = t[n - Len(s)]
        BY <1>1, <1>2, <2>2
    <3> QED
        BY <3>1
  <2> QED
      BY <1>1, <1>2, <2>1, <2>2
<1>4. Saves(z, u)
    BY <1>3 DEF Saves
<1> QED
    BY <1>1, <1>4 DEF z

\* The instruction being allocated.
LEMMA CurrentType ==
    ASSUME FastInv, stage # "done"
    PROVE  /\ prog.cls \in Classes
           /\ Current \in Instructions /\ Current \in Insts(prog)
           /\ \A k \in ReadIndexes(Current) :
                 Current.ops[k] \in AliveAt(prog, block, index)
           /\ DoneOps \subseteq DOMAIN Current.ops
           /\ AllocTypes /\ OperandsPinned /\ OutOfTheWay
<1>1. prog \in FastPrograms /\ block \in Blocks(prog) /\ AllocTypes /\ OperandsPinned /\ OutOfTheWay
    BY DEF FastInv, Allocating
<1>2. index \in 1 .. Len(prog.blocks[block])
    BY <1>1 DEF AllocTypes
<1>3. Current \in Instructions /\ Current \in Insts(prog) /\ prog.cls \in Classes
      /\ Len(prog.blocks[block]) \in Nat
    BY <1>1, <1>2, FastProgramType DEF Current
<1>4. ASSUME NEW k \in ReadIndexes(Current)
      PROVE  Current.ops[k] \in AliveAt(prog, block, index)
  <2> DEFINE v == Current.ops[k]
  <2>1. k \in DOMAIN Current.ops /\ v \in Vregs
      BY <1>3, InstType
  <2>2. v \in ReadsOf(Current)
      BY DEF ReadsOf
  <2>3. PICK j \in 1 .. index - 1 : v \in DefOf(prog.blocks[block][j])
      BY <1>1, <1>2, <2>2 DEF FastInv, AcceptedFast, Current
  <2>4. v \in Mentions(prog.blocks[block][index])
      BY <2>1 DEF Mentions, Current
  <2>5. index \in index .. Len(prog.blocks[block])
      BY <1>2, <1>3
  <2> QED
      BY <2>1, <2>3, <2>4, <2>5 DEF AliveAt
<1>5. DoneOps \subseteq DOMAIN Current.ops
    BY <1>3, InstType DEF DoneOps
<1> QED
    BY <1>1, <1>3, <1>4, <1>5

\* v has register r, whose holder was stored first; a value that is read is brought
\* there; m was known before.
Allocated(v, reload, m, r) ==
    /\ WhereRight(prog.cls, where', usedCsrs') /\ usedCsrs \subseteq usedCsrs'
    /\ where'[v] = r
    /\ \A x \in Vregs : x # v => where'[x] = IF where[x] = r THEN NoReg ELSE where[x]
    /\ pinned' = pinned \cup {r}
    /\ regs' = [regs EXCEPT ![operand] = r]
    /\ out' \in Seq(FastPieces) /\ Saves(out', usedCsrs')
    /\ \E n : /\ Leads(prog.cls, out', n)
              /\ \A x \in Vregs : x # v /\ m[Place(where, x)] = x => n[Place(where', x)] = x
              /\ reload /\ m[v] = v => n[r] = v
              /\ \A q \in Regs : q # r => n[q] = m[q]

\* What allocate does: v gets a register that no operand has.
LEMMA AllocateEffect ==
    ASSUME FastInv, stage \in {"operands", "def"}, ~(stage = "def" /\ Current.call),
           NEW v \in DefOf(Current) \cup UsesOf(Current), where[v] = NoReg,
           NEW reload \in BOOLEAN, Allocate(v, reload), NEW m, Placed(m)
    PROVE  \E r \in Regs \ pinned : Allocated(v, reload, m, r)
<1> DEFINE r == Choice(v)
           c == prog.cls
           e == Evicted(m, where, {r})
           t == out \o Spills({r})
<1>1. /\ c \in Classes /\ Current \in Instructions /\ Current \in Insts(prog)
      /\ DoneOps \subseteq DOMAIN Current.ops /\ AllocTypes /\ OperandsPinned
      /\ prog \in FastPrograms /\ v \in Vregs
  <2>1. stage # "done"
      OBVIOUS
  <2> QED
      BY <2>1, CurrentType, InstType DEF FastInv
<1>2. WhereRight(c, where, usedCsrs) /\ out \in Seq(FastPieces) /\ Saves(out, usedCsrs)
    BY <1>1 DEF AllocTypes
<1>3. /\ r \in OrderRegs(Bank(c[v])) \ pinned /\ r \in Regs /\ r # NoReg
      /\ c[v] = "fpr128" => r \notin CalleeSaved
  <2>1. pinned = Current.phys \cup {regs[k] : k \in DoneOps}
      BY <1>1 DEF OperandsPinned
  <2>2. \A k \in DoneOps : where[Current.ops[k]] = regs[k] /\ regs[k] \in Regs
      BY <1>1, <2>1 DEF OperandsPinned, AllocTypes
  <2> QED
      BY <1>1, <1>2, <2>1, <2>2, ChoiceRight
<1>4. /\ where' = [Without(where, Holder(r)) EXCEPT ![v] = r]
      /\ pinned' = pinned \cup {r} /\ usedCsrs' = usedCsrs \cup ({r} \cap CalleeSaved)
      /\ regs' = [regs EXCEPT ![operand] = r]
      /\ out' = t \o (IF reload THEN <<Load(v, r)>> ELSE <<>>)
  <2> HIDE DEF r
  <2>1. /\ where' = IF r = NoReg THEN where
                    ELSE [Without(where, Holder(r)) EXCEPT ![v] = r]
        /\ pinned' = pinned \cup ({r} \ {NoReg})
        /\ usedCsrs' = usedCsrs \cup ({r} \cap CalleeSaved)
        /\ regs' = [regs EXCEPT ![operand] = IF r = NoReg THEN Zero ELSE r]
        /\ out' = out \o Spills({r})
                     \o (IF reload THEN <<Load(v, IF r = NoReg THEN Zero ELSE r)>> ELSE <<>>)
      BY DEF Allocate, r
  <2> QED
      BY <1>3, <2>1
<1> HIDE DEF r
<1>5. /\ WhereRight(c, where', usedCsrs') /\ where'[v] = r
      /\ \A x \in Vregs : x # v => where'[x] = IF where[x] = r THEN NoReg ELSE where[x]
  <2>1. r \in OrderRegs(Bank(c[v]))
      BY <1>3
  <2>2. WhereRight(c, Given(where, v, r), usedCsrs \cup ({r} \cap CalleeSaved))
      BY <1>1, <1>2, <1>3, <2>1, WhereAllocated
  <2>3. where' = Given(where, v, r) /\ usedCsrs' = usedCsrs \cup ({r} \cap CalleeSaved)
      BY <1>4 DEF Given, Without, Holder
  <2>4. WhereRight(c, where', usedCsrs')
      BY <2>2, <2>3
  <2> QED
      BY <1>1, <2>3, <2>4 DEF Given
<1>6. Spills({r}) \in Seq(FastPieces) /\ t \in Seq(FastPieces) /\ Leads(c, t, e)
  <2>1. Leads(c, out, m) /\ {r} \in SUBSET Regs
      BY <1>3 DEF Placed
  <2> QED
      BY <1>1, <1>2, <2>1, SpillsLead
<1>7. Saves(t, usedCsrs')
  <2>1. \A n \in 1 .. Len(Spills({r})) : Spills({r})[n].kind = "store"
    <3>1. {r} \in SUBSET Regs
        BY <1>3
    <3> QED
        BY <1>1, <1>2, <3>1, SpillsShape
  <2>2. Saves(Spills({r}), usedCsrs)
      BY <2>1 DEF Saves
  <2>3. Saves(t, usedCsrs)
      BY <1>2, <1>6, <2>2, SavesOn
  <2> QED
      BY <1>4, <2>3, SavesMore
<1>8. m \in Knowledge
    BY <1>2, LeadsType DEF Placed
<1>9. \A x \in Vregs : x \notin Regs
    BY MirAssumption
<1>10. \A q \in Regs : e[q] = m[q]
    BY <1>9 DEF Evicted
<1>11. e[v] = m[v]
    BY <1>1, <1>3 DEF Evicted
<1>12. ASSUME NEW x \in Vregs, x # v, m[Place(where, x)] = x
       PROVE  e[Place(where', x)] = x /\ Place(where', x) # r
  <2>1. where[x] \in Regs \cup {NoReg}
      BY <1>2 DEF WhereRight
  <2>2. CASE where[x] = r
    <3>1. Place(where', x) = x /\ Place(where, x) = r
        BY <1>3, <1>5, <1>12, <2>2 DEF Place
    <3>2. e[x] = m[where[x]]
        BY <2>2 DEF Evicted
    <3> QED
        BY <1>3, <1>9, <1>12, <2>2, <3>1, <3>2
  <2>3. CASE where[x] # r
    <3>1. Place(where', x) = Place(where, x) /\ Place(where, x) # r
        BY <1>3, <1>5, <1>9, <1>12, <2>3 DEF Place
    <3>2. e[Place(where, x)] = m[Place(where, x)]
      <4>1. CASE where[x] = NoReg
          BY <2>3, <4>1 DEF Place, Evicted
      <4>2. CASE where[x] # NoReg
          BY <1>10, <2>1, <4>2 DEF Place
      <4> QED
          BY <4>1, <4>2
    <3> QED
        BY <1>12, <3>1, <3>2
  <2> QED
      BY <2>2, <2>3
<1> DEFINE Effect(q) ==
      /\ out' \in Seq(FastPieces) /\ Saves(out', usedCsrs')
      /\ \E n : /\ Leads(prog.cls, out', n)
                /\ \A x \in Vregs : x # v /\ m[Place(where, x)] = x => n[Place(where', x)] = x
                /\ reload /\ m[v] = v => n[q] = v
                /\ \A z \in Regs : z # q => n[z] = m[z]
<1>13. ASSUME reload PROVE Effect(r)
  <2> DEFINE p == Load(v, r)
             n == Learn(c, e, p)
  <2>1. p \in FastPieces /\ p.kind = "load" /\ p.v = v /\ p.reg = r
      BY <1>1, <1>3 DEF Load, FastPieces
  <2>2. Ready(e, p)
      BY <2>1 DEF Ready
  <2>3. out' = t \o <<p>> /\ Leads(c, t \o <<p>>, n)
      BY <1>4, <1>6, <1>13, <2>1, <2>2, LeadsOn
  <2>4. n = [e EXCEPT ![r] = e[v]]
      BY <2>1 DEF Learn
  <2>5. DOMAIN e = Regs \cup Vregs
      BY DEF Evicted
  <2>6. n[r] = e[v] /\ \A l \in Regs \cup Vregs : l # r => n[l] = e[l]
      BY <1>3, <2>4, <2>5
  <2>7. Saves(<<p>>, usedCsrs') /\ <<p>> \in Seq(FastPieces)
    <3> HIDE DEF p
    <3>1. Len(<<p>>) = 1 /\ <<p>>[1] = p /\ <<p>> \in Seq(FastPieces)
        BY <2>1
    <3> QED
        BY <1>3, <1>4, <2>1, <3>1 DEF Saves
  <2> HIDE DEF n, p
  <2>8. out' \in Seq(FastPieces) /\ Saves(out', usedCsrs')
      BY <1>6, <1>7, <2>3, <2>7, SavesOn
  <2>9. \A x \in Vregs : x # v /\ m[Place(where, x)] = x => n[Place(where', x)] = x
    <3> SUFFICES ASSUME NEW x \in Vregs, x # v, m[Place(where, x)] = x
                 PROVE  n[Place(where', x)] = x
        OBVIOUS
    <3>1. Place(where', x) \in Regs \cup Vregs
        BY <1>5 DEF Place, WhereRight
    <3>2. e[Place(where', x)] = x /\ Place(where', x) # r
        BY <1>12
    <3> QED
        BY <2>6, <3>1, <3>2
  <2>10. (m[v] = v => n[r] = v) /\ \A q \in Regs : q # r => n[q] = m[q]
      BY <1>10, <1>11, <2>6
  <2>11. Leads(c, out', n)
      BY <2>3
  <2> QED
      BY <2>8, <2>9, <2>10, <2>11
<1>14. ASSUME ~reload PROVE Effect(r)
  <2>1. out' = t
    <3>1. out' = t \o <<>>
        BY <1>4, <1>14
    <3> QED
        BY <1>6, <3>1, ConcatEmptySeq
  <2> HIDE DEF t, e
  <2>2. \A x \in Vregs : x # v /\ m[Place(where, x)] = x => e[Place(where', x)] = x
      BY <1>12
  <2>3. out' \in Seq(FastPieces) /\ Saves(out', usedCsrs') /\ Leads(c, out', e)
      BY <1>6, <1>7, <2>1
  <2> QED
      BY <1>10, <1>14, <2>2, <2>3
<1>15. Effect(r)
    BY <1>13, <1>14
<1>16. usedCsrs \subseteq usedCsrs' /\ r \in Regs \ pinned
    BY <1>3, <1>4
<1>17. Allocated(v, reload, m, r)
    BY <1>4, <1>5, <1>15, <1>16 DEF Allocated
<1> QED
    BY <1>16, <1>17

-----------------------------------------------------------------------------
(* The steps inside an instruction.                                        *)

\* What a step inside an instruction must establish.
LEMMA InsideStep ==
    ASSUME FastInv, stage # "done", UNCHANGED <<prog, code, machine, block, index>>,
           stage' \in {"operands", "call", "def", "emit"}, operand' \in Nat,
           stage' # "operands" => operand' = 1,
           regs' \in [DOMAIN Current.ops -> Regs \cup {NoReg}], pinned' \subseteq Regs,
           usedCsrs \subseteq usedCsrs', WhereRight(prog.cls, where', usedCsrs'),
           out' \in Seq(FastPieces), Saves(out', usedCsrs'),
           NEW m, Leads(prog.cls, out', m),
           \A v \in AliveAt(prog, block, index) :
              (stage' = "emit" /\ v \in DefOf(Current)) \/ m[Place(where', v)] = v,
           \A k \in DoneOps' : regs'[k] \in pinned' /\ m[regs'[k]] = Current.ops[k],
           OperandsPinned', OutOfTheWay'
    PROVE  FastInv'
<1>1. Current' = Current
    BY DEF Current
<1>2. Allocating
    BY DEF FastInv
<1>3. AllocTypes'
    BY <1>1, <1>2 DEF Allocating, AllocTypes
<1>4. (\E n : Placed(n))'
    BY <1>1 DEF Placed
<1>5. Allocating'
    BY <1>2, <1>3, <1>4 DEF Allocating, machine
<1>6. \A b \in 1 .. Len(code') :
        Saves(code'[b], usedCsrs') /\ \E n : Leads(prog'.cls, code'[b], n)
    BY SavesMore DEF FastInv
<1> QED
    BY <1>5, <1>6 DEF FastInv, machine

\* A step that leaves the operand alone.
LEMMA SkipOperandInv ==
    ASSUME FastInv, SkipOperand
    PROVE  FastInv'
<1>1. /\ stage = "operands" /\ stage' = "operands" /\ operand' = operand + 1
      /\ operand \notin ReadIndexes(Current)
      /\ UNCHANGED <<prog, code, machine, block, index>>
      /\ UNCHANGED <<where, pinned, regs, out, usedCsrs>>
    BY DEF SkipOperand, state
<1>2. AllocTypes /\ OperandsPinned /\ Current \in Instructions
    BY <1>1, CurrentType
<1>3. Current' = Current
    BY <1>1 DEF Current
<1>4. operand \in Nat /\ \A k \in ReadIndexes(Current) : k \in Nat
    BY <1>2, InstType DEF AllocTypes
<1>5. \A k \in ReadIndexes(Current) : k < operand + 1 <=> k < operand
    BY <1>1, <1>4
<1>6. DoneOps' = DoneOps
    BY <1>1, <1>3, <1>5 DEF DoneOps
<1>7. OperandsPinned' /\ OutOfTheWay'
    BY <1>1, <1>2, <1>3, <1>6 DEF OperandsPinned, OutOfTheWay
<1>8. PICK m : Placed(m)
    BY <1>1 DEF FastInv, Allocating
<1>9. Leads(prog.cls, out', m)
    BY <1>1, <1>8 DEF Placed
<1>10. \A v \in AliveAt(prog, block, index) : m[Place(where', v)] = v
    BY <1>1, <1>8 DEF Placed
<1>11. \A k \in DoneOps' : regs'[k] \in pinned' /\ m[regs'[k]] = Current.ops[k]
    BY <1>1, <1>6, <1>8 DEF Placed
<1>12. /\ operand' \in Nat /\ regs' \in [DOMAIN Current.ops -> Regs \cup {NoReg}]
       /\ pinned' \subseteq Regs /\ usedCsrs \subseteq usedCsrs'
       /\ WhereRight(prog.cls, where', usedCsrs')
       /\ out' \in Seq(FastPieces) /\ Saves(out', usedCsrs')
    BY <1>1, <1>2, <1>4 DEF AllocTypes
<1> QED
    BY <1>1, <1>7, <1>9, <1>10, <1>11, <1>12, InsideStep

\* The operands that have a register after the current one got r.
LEMMA NextOperand ==
    ASSUME FastInv, stage = "operands", operand \in ReadIndexes(Current),
           UNCHANGED <<prog, block, index, stage>>, operand' = operand + 1
    PROVE  /\ Current' = Current /\ operand \in DOMAIN Current.ops /\ operand' \in Nat
           /\ Current.ops[operand] \in Vregs
           /\ Current.ops[operand] \in AliveAt(prog, block, index)
           /\ DoneOps' = DoneOps \cup {operand} /\ operand \notin DoneOps
<1>1. AllocTypes /\ Current \in Instructions
      /\ \A k \in ReadIndexes(Current) : Current.ops[k] \in AliveAt(prog, block, index)
    BY CurrentType
<1>2. operand \in Nat /\ \A k \in ReadIndexes(Current) : k \in Nat
    BY <1>1, InstType DEF AllocTypes
<1>3. Current' = Current
    BY DEF Current
<1>4. \A k \in ReadIndexes(Current) : k < operand + 1 <=> k < operand \/ k = operand
    BY <1>2
<1>5. /\ DoneOps = {k \in ReadIndexes(Current) : k < operand}
      /\ DoneOps' = {k \in ReadIndexes(Current) : k < operand + 1}
    BY <1>3 DEF DoneOps
<1>6. DoneOps' = DoneOps \cup {operand} /\ operand \notin DoneOps
  <2>1. ~(operand < operand)
      BY <1>2
  <2>2. operand \notin DoneOps
      BY <1>5, <2>1
  <2>3. \A k : k \in DoneOps' <=> k \in DoneOps \/ k = operand
    <3> SUFFICES ASSUME NEW k PROVE k \in DoneOps' <=> k \in DoneOps \/ k = operand
        OBVIOUS
    <3>1. CASE k \in ReadIndexes(Current)
        BY <1>4, <1>5, <3>1
    <3>2. CASE k \notin ReadIndexes(Current)
        BY <1>5, <3>2
    <3> QED
        BY <3>1, <3>2
  <2> QED
      BY <2>2, <2>3
<1> QED
    BY <1>1, <1>2, <1>3, <1>6, InstType

\* The operand is where it was found.
LEMMA FoundOperandInv ==
    ASSUME FastInv, FoundOperand
    PROVE  FastInv'
<1> DEFINE v == Current.ops[operand]
           r == where[v]
<1>1. /\ stage = "operands" /\ stage' = "operands" /\ operand' = operand + 1
      /\ operand \in ReadIndexes(Current)
      /\ UNCHANGED <<prog, code, machine, block, index>>
      /\ UNCHANGED <<where, out, usedCsrs>>
      /\ r # NoReg /\ pinned' = pinned \cup {r} /\ regs' = [regs EXCEPT ![operand] = r]
    BY DEF FoundOperand
<1>2. AllocTypes /\ OperandsPinned
    BY <1>1, CurrentType
<1>3. /\ Current' = Current /\ operand \in DOMAIN Current.ops /\ operand' \in Nat
      /\ v \in Vregs /\ v \in AliveAt(prog, block, index)
      /\ DoneOps' = DoneOps \cup {operand} /\ operand \notin DoneOps
    BY <1>1, NextOperand
<1>4. r \in Regs
    BY <1>1, <1>2, <1>3 DEF AllocTypes, WhereRight
<1>5. DoneOps \subseteq DOMAIN Current.ops /\ regs \in [DOMAIN Current.ops -> Regs \cup {NoReg}]
    BY <1>1, <1>2, CurrentType DEF AllocTypes
<1>6. PICK m : Placed(m)
    BY <1>1 DEF FastInv, Allocating
<1>7. m[r] = v
    BY <1>1, <1>3, <1>6 DEF Placed, Place
<1>8. regs'[operand] = r /\ \A k \in DoneOps : regs'[k] = regs[k]
    BY <1>1, <1>3, <1>5
<1>9. regs' \in [DOMAIN Current.ops -> Regs \cup {NoReg}]
    BY <1>1, <1>3, <1>4, <1>5
<1> HIDE DEF r, v
<1>10. {regs'[k] : k \in DoneOps'} = {regs[k] : k \in DoneOps} \cup {r}
    BY <1>3, <1>8
<1>11. pinned = Current.phys \cup {regs[k] : k \in DoneOps}
       /\ \A k \in DoneOps : where[Current.ops[k]] = regs[k]
    BY <1>1, <1>2 DEF OperandsPinned
<1>12. pinned' = Current.phys \cup {regs'[k] : k \in DoneOps'}
    BY <1>1, <1>10, <1>11
<1>13. \A k \in DoneOps' : where'[Current.ops[k]] = regs'[k]
    BY <1>1, <1>3, <1>8, <1>11 DEF r, v
<1>14. OperandsPinned' /\ OutOfTheWay'
    BY <1>1, <1>3, <1>12, <1>13 DEF OperandsPinned, OutOfTheWay
<1>15. Leads(prog.cls, out', m)
    BY <1>1, <1>6 DEF Placed
<1>16. \A x \in AliveAt(prog, block, index) : m[Place(where', x)] = x
    BY <1>1, <1>6 DEF Placed
<1>17. \A k \in DoneOps' : regs'[k] \in pinned' /\ m[regs'[k]] = Current.ops[k]
    BY <1>1, <1>3, <1>6, <1>7, <1>8 DEF Placed, v
<1>18. /\ pinned' \subseteq Regs /\ usedCsrs \subseteq usedCsrs'
       /\ WhereRight(prog.cls, where', usedCsrs')
       /\ out' \in Seq(FastPieces) /\ Saves(out', usedCsrs')
    BY <1>1, <1>2, <1>4 DEF AllocTypes
<1> QED
    BY <1>1, <1>3, <1>9, <1>14, <1>15, <1>16, <1>17, <1>18, InsideStep

\* The operand is brought back from its slot.
LEMMA ReloadOperandInv ==
    ASSUME FastInv, ReloadOperand
    PROVE  FastInv'
<1> DEFINE v == Current.ops[operand]
<1>1. /\ stage = "operands" /\ stage' = "operands" /\ operand' = operand + 1
      /\ operand \in ReadIndexes(Current)
      /\ UNCHANGED <<prog, code, machine, block, index>>
      /\ where[v] = NoReg /\ Allocate(v, TRUE)
    BY DEF ReloadOperand
<1>2. AllocTypes /\ OperandsPinned /\ Current \in Instructions
    BY <1>1, CurrentType
<1>3. /\ Current' = Current /\ operand \in DOMAIN Current.ops /\ operand' \in Nat
      /\ v \in Vregs /\ v \in AliveAt(prog, block, index)
      /\ DoneOps' = DoneOps \cup {operand} /\ operand \notin DoneOps
    BY <1>1, NextOperand
<1>4. v \in DefOf(Current) \cup UsesOf(Current)
    BY <1>2, <1>3, InstType
<1>5. DoneOps \subseteq DOMAIN Current.ops /\ regs \in [DOMAIN Current.ops -> Regs \cup {NoReg}]
      /\ pinned \subseteq Regs
    BY <1>1, <1>2, CurrentType DEF AllocTypes
<1>6. PICK m : Placed(m)
    BY <1>1 DEF FastInv, Allocating
<1>7. /\ \A x \in AliveAt(prog, block, index) : m[Place(where, x)] = x
      /\ \A k \in DoneOps : regs[k] \in pinned /\ m[regs[k]] = Current.ops[k]
    BY <1>1, <1>6 DEF Placed
<1> HIDE DEF v
<1>8. PICK r \in Regs \ pinned : Allocated(v, TRUE, m, r)
    BY <1>1, <1>4, <1>6, AllocateEffect
<1>9. /\ WhereRight(prog.cls, where', usedCsrs') /\ usedCsrs \subseteq usedCsrs'
      /\ where'[v] = r
      /\ \A x \in Vregs : x # v => where'[x] = IF where[x] = r THEN NoReg ELSE where[x]
      /\ pinned' = pinned \cup {r}
      /\ regs' = [regs EXCEPT ![operand] = r]
      /\ out' \in Seq(FastPieces) /\ Saves(out', usedCsrs')
    BY <1>8 DEF Allocated
<1>10. PICK n : /\ Leads(prog.cls, out', n)
                /\ \A x \in Vregs : x # v /\ m[Place(where, x)] = x => n[Place(where', x)] = x
                /\ m[v] = v => n[r] = v
                /\ \A q \in Regs : q # r => n[q] = m[q]
    BY <1>8 DEF Allocated
<1>11. n[r] = v
  <2>1. Place(where, v) = v
      BY <1>1 DEF Place
  <2> QED
      BY <1>3, <1>7, <1>10, <2>1
<1>12. NoReg \notin Regs /\ AliveAt(prog, block, index) \subseteq Vregs
    BY MirAssumption DEF AliveAt
<1>13. \A x \in AliveAt(prog, block, index) : n[Place(where', x)] = x
  <2> SUFFICES ASSUME NEW x \in AliveAt(prog, block, index) PROVE n[Place(where', x)] = x
      OBVIOUS
  <2>1. CASE x = v
      BY <1>9, <1>11, <1>12, <2>1 DEF Place
  <2>2. CASE x # v
      BY <1>7, <1>10, <1>12, <2>2
  <2> QED
      BY <2>1, <2>2
<1>14. regs'[operand] = r /\ \A k \in DoneOps : regs'[k] = regs[k] /\ regs[k] # r
    BY <1>3, <1>5, <1>7, <1>9
<1>15. regs' \in [DOMAIN Current.ops -> Regs \cup {NoReg}]
    BY <1>3, <1>5, <1>9
<1>16. {regs'[k] : k \in DoneOps'} = {regs[k] : k \in DoneOps} \cup {r}
    BY <1>3, <1>14
<1>17. pinned = Current.phys \cup {regs[k] : k \in DoneOps}
       /\ \A k \in DoneOps : where[Current.ops[k]] = regs[k]
    BY <1>1, <1>2 DEF OperandsPinned
<1>18. pinned' = Current.phys \cup {regs'[k] : k \in DoneOps'}
    BY <1>9, <1>16, <1>17
<1>19. \A k \in DoneOps' : where'[Current.ops[k]] = regs'[k]
  <2> SUFFICES ASSUME NEW k \in DoneOps' PROVE where'[Current.ops[k]] = regs'[k]
      OBVIOUS
  <2>1. CASE k = operand
      BY <1>9, <1>14, <2>1 DEF v
  <2>2. CASE k # operand
    <3>1. k \in DoneOps /\ where[Current.ops[k]] = regs[k] /\ regs[k] \in Regs
        BY <1>3, <1>5, <1>7, <1>17, <2>2
    <3>2. Current.ops[k] # v /\ Current.ops[k] \in Vregs
        BY <1>1, <1>2, <1>5, <1>12, <3>1, InstType
    <3> QED
        BY <1>9, <1>14, <3>1, <3>2
  <2> QED
      BY <2>1, <2>2
<1>20. OperandsPinned' /\ OutOfTheWay'
    BY <1>1, <1>3, <1>18, <1>19 DEF OperandsPinned, OutOfTheWay
<1>21. \A k \in DoneOps' : regs'[k] \in pinned' /\ n[regs'[k]] = Current.ops[k]
  <2> SUFFICES ASSUME NEW k \in DoneOps'
               PROVE  regs'[k] \in pinned' /\ n[regs'[k]] = Current.ops[k]
      OBVIOUS
  <2>1. CASE k = operand
      BY <1>9, <1>11, <1>14, <2>1 DEF v
  <2>2. CASE k # operand
      BY <1>3, <1>5, <1>7, <1>9, <1>10, <1>14, <2>2
  <2> QED
      BY <2>1, <2>2
<1>22. pinned' \subseteq Regs
    BY <1>5, <1>9
<1> QED
    BY <1>1, <1>3, <1>9, <1>10, <1>13, <1>15, <1>20, <1>21, <1>22, InsideStep

\* Every operand that is read has its register.
LEMMA OperandsDoneInv ==
    ASSUME FastInv, OperandsDone
    PROVE  FastInv'
<1>1. /\ stage = "operands" /\ stage' = "call" /\ operand' = 1 /\ operand > Len(Current.ops)
      /\ UNCHANGED <<prog, code, machine, block, index>>
      /\ UNCHANGED <<where, pinned, regs, out, usedCsrs>>
    BY DEF OperandsDone, state
<1>2. AllocTypes /\ OperandsPinned /\ Current \in Instructions
    BY <1>1, CurrentType
<1>3. Current' = Current
    BY <1>1 DEF Current
<1>4. /\ operand \in Nat /\ Len(Current.ops) \in Nat
      /\ \A k \in ReadIndexes(Current) : k \in 1 .. Len(Current.ops)
    BY <1>2, InstType DEF AllocTypes
<1>5. \A k \in ReadIndexes(Current) : k < operand
    BY <1>1, <1>4
<1>6. DoneOps' = DoneOps
    BY <1>1, <1>3, <1>5 DEF DoneOps
<1>7. OperandsPinned' /\ OutOfTheWay'
    BY <1>1, <1>2, <1>3, <1>6 DEF OperandsPinned, OutOfTheWay
<1>8. PICK m : Placed(m)
    BY <1>1 DEF FastInv, Allocating
<1>9. Leads(prog.cls, out', m)
    BY <1>1, <1>8 DEF Placed
<1>10. \A v \in AliveAt(prog, block, index) : m[Place(where', v)] = v
    BY <1>1, <1>8 DEF Placed
<1>11. \A k \in DoneOps' : regs'[k] \in pinned' /\ m[regs'[k]] = Current.ops[k]
    BY <1>1, <1>6, <1>8 DEF Placed
<1>12. /\ operand' \in Nat /\ regs' \in [DOMAIN Current.ops -> Regs \cup {NoReg}]
       /\ pinned' \subseteq Regs /\ usedCsrs \subseteq usedCsrs'
       /\ WhereRight(prog.cls, where', usedCsrs')
       /\ out' \in Seq(FastPieces) /\ Saves(out', usedCsrs')
    BY <1>1, <1>2 DEF AllocTypes
<1> QED
    BY <1>1, <1>7, <1>9, <1>10, <1>11, <1>12, InsideStep

-----------------------------------------------------------------------------
(* Calls, definitions and registers written by name.                       *)

\* The registers rs are given up: what they hold is stored first.
LEMMA SpillEffect ==
    ASSUME FastInv, stage \in {"call", "def"}, NEW rs \in SUBSET Regs, NEW S,
           \A x \in Vregs : where[x] \in rs => x \in S,
           \A x \in Vregs : x \in S => where[x] \in rs \cup {NoReg},
           out' = out \o Spills(rs), where' = Without(where, S), NEW m, Placed(m)
    PROVE  /\ WhereRight(prog.cls, where', usedCsrs)
           /\ out' \in Seq(FastPieces) /\ Saves(out', usedCsrs)
           /\ \A x \in Vregs : where'[x] = IF where[x] \in rs THEN NoReg ELSE where[x]
           /\ Leads(prog.cls, out', Evicted(m, where, rs))
           /\ \A x \in Vregs : m[Place(where, x)] = x =>
                 Evicted(m, where, rs)[Place(where', x)] = x
           /\ \A q \in Regs : Evicted(m, where, rs)[q] = m[q]
<1> DEFINE c == prog.cls
           e == Evicted(m, where, rs)
<1>1. c \in Classes /\ AllocTypes
    BY CurrentType
<1>2. WhereRight(c, where, usedCsrs) /\ out \in Seq(FastPieces) /\ Saves(out, usedCsrs)
    BY <1>1 DEF AllocTypes
<1>3. /\ WhereRight(c, where', usedCsrs)
      /\ \A x \in Vregs : where'[x] = IF x \in S THEN NoReg ELSE where[x]
    BY <1>2, WhereWithout
<1>4. \A x \in Vregs : where'[x] = IF where[x] \in rs THEN NoReg ELSE where[x]
    BY <1>3
<1>5. Leads(c, out, m)
    BY DEF Placed
<1>6. Spills(rs) \in Seq(FastPieces) /\ out' \in Seq(FastPieces) /\ Leads(c, out', e)
    BY <1>1, <1>2, <1>5, SpillsLead
<1>7. Saves(Spills(rs), usedCsrs)
  <2>1. \A n \in 1 .. Len(Spills(rs)) : Spills(rs)[n].kind = "store"
      BY <1>1, <1>2, SpillsShape
  <2> QED
      BY <2>1 DEF Saves
<1>8. Saves(out', usedCsrs)
    BY <1>2, <1>6, <1>7, SavesOn
<1>9. \A x \in Vregs : x \notin Regs
    BY MirAssumption
<1>10. \A q \in Regs : e[q] = m[q]
    BY <1>9 DEF Evicted
<1>11. ASSUME NEW x \in Vregs, m[Place(where, x)] = x
       PROVE  e[Place(where', x)] = x
  <2>1. where[x] \in Regs \cup {NoReg} /\ NoReg \notin Regs
      BY <1>2, MirAssumption DEF WhereRight
  <2>2. CASE where[x] \in rs
    <3>1. Place(where', x) = x /\ Place(where, x) = where[x]
        BY <1>4, <2>1, <2>2 DEF Place
    <3>2. e[x] = m[where[x]]
        BY <2>2 DEF Evicted
    <3> QED
        BY <1>11, <3>1, <3>2
  <2>3. CASE where[x] \notin rs
    <3>1. Place(where', x) = Place(where, x)
        BY <1>4, <2>3 DEF Place
    <3>2. e[Place(where, x)] = m[Place(where, x)]
      <4>1. CASE where[x] = NoReg
          BY <2>3, <4>1 DEF Place, Evicted
      <4>2. CASE where[x] # NoReg
          BY <1>10, <2>1, <4>2 DEF Place
      <4> QED
          BY <4>1, <4>2
    <3> QED
        BY <1>11, <3>1, <3>2
  <2> QED
      BY <2>2, <2>3
<1> QED
    BY <1>3, <1>4, <1>6, <1>8, <1>10, <1>11

\* Before a call.
LEMMA CallSpillsInv ==
    ASSUME FastInv, CallSpills
    PROVE  FastInv'
<1>1. /\ stage = "call" /\ stage' = "def"
      /\ UNCHANGED <<prog, code, machine, block, index>>
      /\ UNCHANGED <<operand, pinned, regs, usedCsrs>>
    BY DEF CallSpills
<1>2. AllocTypes /\ OperandsPinned
    BY <1>1, CurrentType
<1>3. Current' = Current /\ DoneOps' = DoneOps
    BY <1>1 DEF Current, DoneOps
<1>4. PICK m : Placed(m)
    BY <1>1 DEF FastInv, Allocating
<1>5. /\ Leads(prog.cls, out, m) /\ \A v \in AliveAt(prog, block, index) : m[Place(where, v)] = v
      /\ \A k \in DoneOps : regs[k] \in pinned /\ m[regs[k]] = Current.ops[k]
    BY <1>1, <1>4 DEF Placed
<1>6. /\ operand' \in Nat /\ operand' = 1 /\ regs' \in [DOMAIN Current.ops -> Regs \cup {NoReg}]
      /\ pinned' \subseteq Regs /\ usedCsrs' = usedCsrs /\ pinned \subseteq Regs
    BY <1>1, <1>2 DEF AllocTypes
<1>7. pinned' = Current.phys \cup {regs'[k] : k \in DoneOps'}
    BY <1>1, <1>2, <1>3 DEF OperandsPinned
<1>8. CASE Current.call
  <2> DEFINE rs == Regs \ CalleeSaved
             S == {v \in Vregs : where[v] \notin CalleeSaved}
             n == Evicted(m, where, rs)
  <2>1. out' = out \o Spills(rs) /\ where' = Without(where, S)
      BY <1>8 DEF CallSpills
  <2>2. where \in [Vregs -> Regs \cup {NoReg}]
      BY <1>2 DEF AllocTypes, WhereRight
  <2>3. /\ rs \in SUBSET Regs /\ \A x \in Vregs : where[x] \in rs => x \in S
        /\ \A x \in Vregs : x \in S => where[x] \in rs \cup {NoReg}
      BY <2>2
  <2> HIDE DEF S, rs
  <2>4. /\ WhereRight(prog.cls, where', usedCsrs)
        /\ out' \in Seq(FastPieces) /\ Saves(out', usedCsrs)
        /\ \A x \in Vregs : where'[x] = IF where[x] \in rs THEN NoReg ELSE where[x]
        /\ Leads(prog.cls, out', n)
        /\ \A x \in Vregs : m[Place(where, x)] = x => n[Place(where', x)] = x
        /\ \A q \in Regs : n[q] = m[q]
      BY <1>1, <1>4, <2>1, <2>3, SpillEffect
  <2> HIDE DEF n
  <2>5. \A v \in AliveAt(prog, block, index) : n[Place(where', v)] = v
      BY <1>5, <2>4 DEF AliveAt
  <2>6. \A k \in DoneOps' : regs'[k] \in pinned' /\ n[regs'[k]] = Current.ops[k]
      BY <1>1, <1>3, <1>5, <1>6, <2>4
  <2>7. \A v \in Vregs : where'[v] \in CalleeSaved \cup {NoReg}
      BY <2>2, <2>4 DEF rs
  <2>8. OperandsPinned' /\ OutOfTheWay'
      BY <1>1, <1>3, <1>7, <1>8, <2>7 DEF OperandsPinned, OutOfTheWay
  <2>9. /\ WhereRight(prog.cls, where', usedCsrs') /\ out' \in Seq(FastPieces)
        /\ Saves(out', usedCsrs') /\ Leads(prog.cls, out', n) /\ usedCsrs \subseteq usedCsrs'
      BY <1>6, <2>4
  <2> QED
      BY <1>1, <1>6, <2>5, <2>6, <2>8, <2>9, InsideStep
<1>9. CASE ~Current.call
  <2>1. out' = out /\ where' = where
      BY <1>9 DEF CallSpills
  <2>2. OperandsPinned' /\ OutOfTheWay'
      BY <1>1, <1>2, <1>3, <1>7, <1>9, <2>1 DEF OperandsPinned, OutOfTheWay
  <2>3. \A v \in AliveAt(prog, block, index) : m[Place(where', v)] = v
      BY <1>5, <2>1
  <2>4. \A k \in DoneOps' : regs'[k] \in pinned' /\ m[regs'[k]] = Current.ops[k]
      BY <1>1, <1>3, <1>5
  <2>5. /\ WhereRight(prog.cls, where', usedCsrs') /\ out' \in Seq(FastPieces)
        /\ Saves(out', usedCsrs') /\ Leads(prog.cls, out', m) /\ usedCsrs \subseteq usedCsrs'
      BY <1>2, <1>5, <1>6, <2>1 DEF AllocTypes
  <2> QED
      BY <1>1, <1>6, <2>2, <2>3, <2>4, <2>5, InsideStep
<1> QED
    BY <1>8, <1>9

\* What the stage "def" starts from, for an instruction that defines something.
LEMMA DefStart ==
    ASSUME FastInv, stage = "def", Current.def, UNCHANGED <<prog, block, index>>,
           stage' = "emit"
    PROVE  /\ Current' = Current /\ DoneOps' = DoneOps /\ DoneOps = ReadIndexes(Current)
           /\ ~Current.call /\ Current.phys = {} /\ 1 \in DOMAIN Current.ops
           /\ Current.ops[1] \in Vregs /\ Current.ops[1] \in DefOf(Current)
           /\ \A k \in DoneOps : where[Current.ops[k]] = regs[k]
           /\ DoneOps \subseteq DOMAIN Current.ops
           /\ operand = 1 /\ regs \in [DOMAIN Current.ops -> Regs \cup {NoReg}]
           /\ pinned \subseteq Regs
<1>1. AllocTypes /\ OperandsPinned /\ Current \in Instructions /\ DoneOps \subseteq DOMAIN Current.ops
    BY CurrentType
<1>2. Current' = Current
    BY DEF Current
<1>3. DoneOps = ReadIndexes(Current) /\ DoneOps' = DoneOps
    BY <1>2 DEF DoneOps
<1>4. ~Current.call /\ Current.phys = {}
    BY <1>1 DEF Instructions
<1>5. \A k \in DoneOps : where[Current.ops[k]] = regs[k]
    BY <1>1, <1>4 DEF OperandsPinned
<1> QED
    BY <1>1, <1>2, <1>3, <1>4, <1>5, InstType DEF AllocTypes, DefOf

\* The definition stays in its register.
LEMMA DefInPlaceInv ==
    ASSUME FastInv, DefInPlace
    PROVE  FastInv'
<1>1. /\ stage = "def" /\ Current.def /\ stage' = "emit"
      /\ UNCHANGED <<prog, code, machine, block, index>>
      /\ UNCHANGED <<operand, where, pinned, out, usedCsrs>>
    BY DEF DefInPlace
<1>2. /\ Current' = Current /\ DoneOps' = DoneOps /\ DoneOps = ReadIndexes(Current)
      /\ ~Current.call /\ Current.phys = {} /\ 1 \in DOMAIN Current.ops
      /\ Current.ops[1] \in Vregs /\ DoneOps \subseteq DOMAIN Current.ops
      /\ \A k \in DoneOps : where[Current.ops[k]] = regs[k]
      /\ operand = 1 /\ regs \in [DOMAIN Current.ops -> Regs \cup {NoReg}]
      /\ pinned \subseteq Regs
    BY <1>1, DefStart
<1>3. PICK m : Placed(m)
    BY <1>1 DEF FastInv, Allocating
<1>4. /\ Leads(prog.cls, out, m) /\ \A v \in AliveAt(prog, block, index) : m[Place(where, v)] = v
      /\ \A k \in DoneOps : regs[k] \in pinned /\ m[regs[k]] = Current.ops[k]
    BY <1>1, <1>3 DEF Placed
<1>5. /\ \A k \in DoneOps : regs'[k] = regs[k]
      /\ regs'[1] = where[Current.ops[1]] /\ regs'[1] # NoReg
      /\ regs' \in [DOMAIN Current.ops -> Regs \cup {NoReg}]
  <2>1. CASE 1 \in ReadIndexes(Current)
    <3>1. regs' = regs
        BY <2>1 DEF DefInPlace
    <3>2. regs[1] = where[Current.ops[1]] /\ regs[1] \in Regs
        BY <1>2, <1>4, <2>1
    <3> QED
        BY <1>2, <3>1, <3>2, MirAssumption
  <2>2. CASE 1 \notin ReadIndexes(Current)
    <3>1. where[Current.ops[1]] # NoReg /\ regs' = [regs EXCEPT ![1] = where[Current.ops[1]]]
        BY <2>2 DEF DefInPlace
    <3>2. where[Current.ops[1]] \in Regs \cup {NoReg}
      <4>1. AllocTypes
          BY <1>1, CurrentType
      <4> QED
          BY <1>2, <4>1 DEF AllocTypes, WhereRight
    <3> QED
        BY <1>2, <2>2, <3>1, <3>2
  <2> QED
      BY <2>1, <2>2
<1>6. OperandsPinned' /\ OutOfTheWay'
    BY <1>1, <1>2, <1>5 DEF OperandsPinned, OutOfTheWay
<1>7. /\ WhereRight(prog.cls, where', usedCsrs') /\ out' \in Seq(FastPieces)
      /\ Saves(out', usedCsrs') /\ Leads(prog.cls, out', m) /\ usedCsrs \subseteq usedCsrs'
  <2>1. AllocTypes
      BY <1>1, CurrentType
  <2> QED
      BY <1>1, <1>4, <2>1 DEF AllocTypes
<1>8. \A v \in AliveAt(prog, block, index) : m[Place(where', v)] = v
    BY <1>1, <1>4
<1>9. \A k \in DoneOps' : regs'[k] \in pinned' /\ m[regs'[k]] = Current.ops[k]
    BY <1>1, <1>2, <1>4, <1>5
<1>10. operand' \in Nat /\ operand' = 1 /\ pinned' \subseteq Regs
    BY <1>1, <1>2
<1> QED
    BY <1>1, <1>5, <1>6, <1>7, <1>8, <1>9, <1>10, InsideStep

\* The definition gets a register.
LEMMA DefAllocatedInv ==
    ASSUME FastInv, DefAllocated
    PROVE  FastInv'
<1> DEFINE v == Current.ops[1]
<1>1. /\ stage = "def" /\ Current.def /\ stage' = "emit" /\ 1 \notin ReadIndexes(Current)
      /\ UNCHANGED <<prog, code, machine, block, index>> /\ UNCHANGED operand
      /\ where[v] = NoReg /\ Allocate(v, FALSE)
    BY DEF DefAllocated
<1>2. /\ Current' = Current /\ DoneOps' = DoneOps /\ DoneOps = ReadIndexes(Current)
      /\ ~Current.call /\ Current.phys = {} /\ 1 \in DOMAIN Current.ops
      /\ v \in Vregs /\ v \in DefOf(Current) /\ DoneOps \subseteq DOMAIN Current.ops
      /\ operand = 1 /\ regs \in [DOMAIN Current.ops -> Regs \cup {NoReg}]
      /\ pinned \subseteq Regs
    BY <1>1, DefStart
<1>3. PICK m : Placed(m)
    BY <1>1 DEF FastInv, Allocating
<1>4. /\ \A x \in AliveAt(prog, block, index) : m[Place(where, x)] = x
      /\ \A k \in DoneOps : regs[k] \in pinned /\ m[regs[k]] = Current.ops[k]
    BY <1>1, <1>3 DEF Placed
<1> HIDE DEF v
<1>5. PICK r \in Regs \ pinned : Allocated(v, FALSE, m, r)
    BY <1>1, <1>2, <1>3, AllocateEffect
<1>6. /\ WhereRight(prog.cls, where', usedCsrs') /\ usedCsrs \subseteq usedCsrs'
      /\ where'[v] = r /\ pinned' = pinned \cup {r}
      /\ regs' = [regs EXCEPT ![operand] = r]
      /\ out' \in Seq(FastPieces) /\ Saves(out', usedCsrs')
    BY <1>5 DEF Allocated
<1>7. PICK n : /\ Leads(prog.cls, out', n)
               /\ \A x \in Vregs : x # v /\ m[Place(where, x)] = x => n[Place(where', x)] = x
               /\ \A q \in Regs : q # r => n[q] = m[q]
    BY <1>5 DEF Allocated
<1>8. \A x \in AliveAt(prog, block, index) :
        (stage' = "emit" /\ x \in DefOf(Current)) \/ n[Place(where', x)] = x
    BY <1>1, <1>2, <1>4, <1>7 DEF AliveAt
<1>9. /\ \A k \in DoneOps : regs'[k] = regs[k] /\ regs[k] # r
      /\ regs'[1] = r /\ r # NoReg /\ regs' \in [DOMAIN Current.ops -> Regs \cup {NoReg}]
    BY <1>1, <1>2, <1>4, <1>6, MirAssumption
<1>10. \A k \in DoneOps' : regs'[k] \in pinned' /\ n[regs'[k]] = Current.ops[k]
    BY <1>2, <1>4, <1>6, <1>7, <1>9
<1>11. OperandsPinned' /\ OutOfTheWay'
    BY <1>1, <1>2, <1>6, <1>9 DEF OperandsPinned, OutOfTheWay, v
<1>12. operand' \in Nat /\ operand' = 1 /\ pinned' \subseteq Regs
    BY <1>1, <1>2, <1>6
<1> QED
    BY <1>1, <1>6, <1>7, <1>8, <1>9, <1>10, <1>11, <1>12, InsideStep

\* Registers written by name are given up.
LEMMA DefPhysicalInv ==
    ASSUME FastInv, DefPhysical
    PROVE  FastInv'
<1> DEFINE rs == Current.phys
           S == UNION {Holder(r) : r \in rs}
<1>1. /\ stage = "def" /\ stage' = "emit" /\ ~Current.def
      /\ UNCHANGED <<prog, code, machine, block, index>>
      /\ UNCHANGED <<operand, pinned, regs, usedCsrs>>
      /\ out' = out \o Spills(rs) /\ where' = Without(where, S)
    BY DEF DefPhysical
<1>2. AllocTypes /\ OutOfTheWay /\ Current \in Instructions
    BY <1>1, CurrentType
<1>3. Current' = Current /\ DoneOps' = DoneOps
    BY <1>1 DEF Current, DoneOps
<1>4. PICK m : Placed(m)
    BY <1>1 DEF FastInv, Allocating
<1>5. /\ \A v \in AliveAt(prog, block, index) : m[Place(where, v)] = v
      /\ \A k \in DoneOps : regs[k] \in pinned /\ m[regs[k]] = Current.ops[k]
    BY <1>1, <1>4 DEF Placed
<1>6. /\ operand' \in Nat /\ operand' = 1 /\ regs' \in [DOMAIN Current.ops -> Regs \cup {NoReg}]
      /\ pinned' \subseteq Regs /\ usedCsrs' = usedCsrs /\ pinned \subseteq Regs
    BY <1>1, <1>2 DEF AllocTypes
<1>7. rs \in SUBSET Regs
    BY <1>2, InstType
<1>8. \A x \in Vregs : x \in S <=> where[x] \in rs
    BY DEF Holder
<1> DEFINE n == Evicted(m, where, rs)
<1>9. /\ WhereRight(prog.cls, where', usedCsrs)
      /\ out' \in Seq(FastPieces) /\ Saves(out', usedCsrs)
      /\ \A x \in Vregs : where'[x] = IF where[x] \in rs THEN NoReg ELSE where[x]
      /\ Leads(prog.cls, out', n)
      /\ \A x \in Vregs : m[Place(where, x)] = x => n[Place(where', x)] = x
      /\ \A q \in Regs : n[q] = m[q]
  <2> HIDE DEF S, rs
  <2>1. \A x \in Vregs : x \in S => where[x] \in rs \cup {NoReg}
      BY <1>8
  <2>2. \A x \in Vregs : where[x] \in rs => x \in S
      BY <1>8
  <2>3. stage \in {"call", "def"} /\ out' = out \o Spills(rs) /\ where' = Without(where, S)
      BY <1>1
  <2> QED
      BY <1>4, <1>7, <2>1, <2>2, <2>3, SpillEffect
<1> HIDE DEF n
<1>10. \A v \in AliveAt(prog, block, index) : n[Place(where', v)] = v
    BY <1>5, <1>9 DEF AliveAt
<1>11. \A k \in DoneOps' : regs'[k] \in pinned' /\ n[regs'[k]] = Current.ops[k]
    BY <1>1, <1>3, <1>5, <1>6, <1>9
<1>12. \A v \in Vregs : where'[v] \notin Current.phys
    BY <1>7, <1>9, MirAssumption
<1>13. Current.call => \A v \in Vregs : where'[v] \in CalleeSaved \cup {NoReg}
    BY <1>1, <1>2, <1>9 DEF OutOfTheWay
<1>14. OperandsPinned' /\ OutOfTheWay'
    BY <1>1, <1>3, <1>12, <1>13 DEF OperandsPinned, OutOfTheWay
<1>15. /\ WhereRight(prog.cls, where', usedCsrs') /\ out' \in Seq(FastPieces)
       /\ Saves(out', usedCsrs') /\ Leads(prog.cls, out', n) /\ usedCsrs \subseteq usedCsrs'
    BY <1>6, <1>9
<1> QED
    BY <1>1, <1>6, <1>10, <1>11, <1>14, <1>15, InsideStep

-----------------------------------------------------------------------------
(* From one instruction to the next.                                       *)

\* What is known after the instruction, once it is emitted.
LEMMA EmittedRight ==
    ASSUME FastInv, stage = "emit", NEW m, Placed(m)
    PROVE  /\ Emitted \in Seq(FastPieces) /\ Saves(Emitted, usedCsrs)
           /\ Leads(prog.cls, Emitted, LearnInst(prog.cls, m, Current, regs))
           /\ WhereRight(prog.cls, Without(where, EndingHere), usedCsrs)
           /\ \A v \in AliveAt(prog, block, index + 1) :
                 LearnInst(prog.cls, m, Current, regs)[Place(Without(where, EndingHere), v)] = v
<1> DEFINE c == prog.cls
           i == Current
           p == Inst(i, regs)
           n == LearnInst(c, m, i, regs)
           w == Without(where, EndingHere)
<1>1. /\ i \in Instructions /\ AllocTypes /\ OutOfTheWay
      /\ DoneOps = ReadIndexes(i) /\ ReadIndexes(i) \subseteq DOMAIN i.ops
  <2>1. i \in Instructions /\ AllocTypes /\ OutOfTheWay
      BY CurrentType
  <2> QED
      BY <2>1, InstType DEF DoneOps
<1>2. /\ WhereRight(c, where, usedCsrs) /\ out \in Seq(FastPieces) /\ Saves(out, usedCsrs)
      /\ regs \in [DOMAIN i.ops -> Regs \cup {NoReg}] /\ pinned \subseteq Regs
      /\ index \in 1 .. Len(prog.blocks[block])
    BY <1>1 DEF AllocTypes
<1>3. /\ i.def => regs[1] = where[i.ops[1]] /\ regs[1] # NoReg
      /\ \A v \in Vregs : where[v] \notin i.phys
      /\ i.call => \A v \in Vregs : where[v] \in CalleeSaved \cup {NoReg}
    BY <1>1 DEF OutOfTheWay
<1>4. /\ i.def => 1 \in DOMAIN i.ops /\ i.ops[1] \in Vregs
      /\ Len(i.ops) \in Nat /\ DOMAIN i.ops = 1 .. Len(i.ops)
    BY <1>1, InstType
<1>5. i.def => regs[1] \in Regs /\ \A v \in Vregs : where[v] = regs[1] => v = i.ops[1]
    BY <1>2, <1>3, <1>4 DEF WhereRight
<1>6. regs \in Seq(Regs \cup {NoReg})
    BY <1>2, <1>4
<1>7. p \in FastPieces /\ p.kind = "inst" /\ p.inst = i /\ p.regs = regs
    BY <1>1, <1>6 DEF Inst, FastPieces
<1>8. Ready(m, p)
    BY <1>1, <1>2, <1>7 DEF Ready, Placed
<1>9. Leads(c, out \o <<p>>, Learn(c, m, p))
    BY <1>2, <1>7, <1>8, LeadsOn DEF Placed
<1>10. Learn(c, m, p) = n
    BY <1>7 DEF Learn
<1>11. <<p>> \in Seq(FastPieces) /\ Saves(<<p>>, usedCsrs)
  <2> HIDE DEF p
  <2>1. Len(<<p>>) = 1 /\ <<p>>[1] = p /\ <<p>> \in Seq(FastPieces)
      BY <1>7
  <2>2. i.def /\ regs[1] \in CalleeSaved => regs[1] \in usedCsrs
      BY <1>2, <1>3, <1>4 DEF WhereRight
  <2> HIDE DEF i
  <2> QED
      BY <1>7, <2>1, <2>2 DEF Saves
<1>12. Emitted = out \o <<p>>
    BY DEF Emitted
<1>13. Emitted \in Seq(FastPieces) /\ Saves(Emitted, usedCsrs)
    BY <1>2, <1>11, <1>12, SavesOn
<1>14. WhereRight(c, w, usedCsrs)
       /\ \A x \in Vregs : w[x] = IF x \in EndingHere THEN NoReg ELSE where[x]
    BY <1>2, WhereWithout
<1>15. Len(prog.blocks[block]) \in Nat /\ index \in Nat
    BY <1>2, FastProgramType DEF FastInv
<1>16. ASSUME NEW v \in AliveAt(prog, block, index + 1)
       PROVE  n[Place(w, v)] = v
  <2> DEFINE l == Place(where, v)
             L == Len(prog.blocks[block])
  <2>1. v \in Vregs
      BY DEF AliveAt
  <2>2. PICK j \in 1 .. (index + 1) - 1 : v \in DefOf(prog.blocks[block][j])
      BY DEF AliveAt
  <2>3. PICK k \in index + 1 .. L : v \in Mentions(prog.blocks[block][k])
      BY DEF AliveAt
  <2>4. v \notin EndingHere
      BY <2>3 DEF EndingHere
  <2>5. Place(w, v) = l
      BY <1>14, <2>1, <2>4 DEF Place
  <2>6. l \in Regs \cup Vregs
      BY <1>2, <2>1 DEF Place, WhereRight
  <2>7. CASE v \in DefOf(i)
    <3>1. i.def /\ v = i.ops[1]
        BY <2>7 DEF DefOf
    <3>2. l = regs[1]
        BY <1>3, <3>1 DEF Place
    <3>3. n[l] = i.ops[1]
        BY <2>6, <3>1, <3>2 DEF LearnInst
    <3> QED
        BY <2>5, <3>1, <3>3
  <2>8. CASE v \notin DefOf(i)
    <3>1. v \in AliveAt(prog, block, index)
      <4>1. j # index
          BY <2>2, <2>8 DEF Current
      <4>2. j \in 1 .. index - 1 /\ k \in index .. L
          BY <1>15, <2>2, <2>3, <4>1
      <4> QED
          BY <2>1, <2>2, <2>3, <4>2 DEF AliveAt
    <3>2. m[l] = v
        BY <2>8, <3>1 DEF Placed
    <3>3. ~(i.def /\ l = regs[1])
      <4> SUFFICES ASSUME i.def, l = regs[1] PROVE FALSE
          OBVIOUS
      <4>1. l \in Regs
          BY <1>5
      <4>2. where[v] = l
          BY <2>1, <4>1, MirAssumption DEF Place
      <4> QED
          BY <1>5, <2>1, <2>8, <4>2 DEF DefOf
    <3>4. ~Destroys(c, i, m, l)
      <4>1. CASE l \in Regs
        <5>1. where[v] = l /\ l # NoReg
            BY <2>1, <4>1, MirAssumption DEF Place
        <5>2. l \notin i.phys
            BY <1>3, <2>1, <5>1
        <5>3. i.call => l \in CalleeSaved
            BY <1>3, <2>1, <5>1
        <5>4. l \in CalleeSaved => c[v] # "fpr128"
            BY <1>2, <2>1, <5>1 DEF WhereRight
        <5> HIDE DEF l, i, c
        <5> QED
            BY <2>8, <3>2, <5>2, <5>3, <5>4 DEF Destroys
      <4>2. CASE l \notin Regs
        <5> HIDE DEF l, i, c
        <5> QED
            BY <2>8, <3>2, <4>2 DEF Destroys
      <4> QED
          BY <4>1, <4>2
    <3>5. n[l] = m[l]
      <4> HIDE DEF l, i, c
      <4> QED
          BY <2>6, <3>3, <3>4 DEF LearnInst
    <3> QED
        BY <2>5, <3>2, <3>5
  <2> QED
      BY <2>7, <2>8
<1> QED
    BY <1>9, <1>10, <1>12, <1>13, <1>14, <1>16

\* At the start of an instruction no operand has a register yet.
LEMMA InstStart ==
    ASSUME prog \in FastPrograms, prog' = prog, block' \in Blocks(prog),
           index' \in 1 .. Len(prog.blocks[block']), StartInst(block', index')
    PROVE  /\ stage' = "operands" /\ operand' = 1
           /\ regs' \in [DOMAIN Current'.ops -> Regs \cup {NoReg}] /\ pinned' \subseteq Regs
           /\ DoneOps' = {} /\ OperandsPinned' /\ OutOfTheWay'
<1>1. /\ stage' = "operands" /\ operand' = 1 /\ pinned' = Current'.phys
      /\ regs' = [n \in DOMAIN Current'.ops |-> NoReg]
    BY DEF StartInst, Current
<1>2. Current' \in Instructions
    BY FastProgramType DEF Current
<1>3. \A k \in ReadIndexes(Current') : k \in Nat /\ k >= 1
    BY <1>2, InstType
<1>4. DoneOps' = {}
  <2>1. \A k \in ReadIndexes(Current') : ~(k < 1)
      BY <1>3
  <2> QED
      BY <1>1, <2>1 DEF DoneOps
<1>5. pinned' \subseteq Regs
    BY <1>1, <1>2, InstType
<1>6. OperandsPinned' /\ OutOfTheWay'
    BY <1>1, <1>4 DEF OperandsPinned, OutOfTheWay
<1> QED
    BY <1>1, <1>4, <1>5, <1>6

\* The next instruction.
LEMMA EmitInstInv ==
    ASSUME FastInv, EmitInst
    PROVE  FastInv'
<1>1. /\ stage = "emit" /\ index < Len(prog.blocks[block])
      /\ UNCHANGED <<prog, code, machine, usedCsrs>>
      /\ out' = Emitted /\ where' = Without(where, EndingHere)
      /\ StartInst(block, index + 1) /\ block' = block /\ index' = index + 1
    BY DEF EmitInst, StartInst
<1>2. prog \in FastPrograms /\ block \in Blocks(prog) /\ Allocating
    BY <1>1 DEF FastInv
<1>3. index' \in 1 .. Len(prog.blocks[block'])
    BY <1>1, <1>2, FastProgramType DEF Allocating, AllocTypes
<1>4. /\ stage' = "operands" /\ operand' = 1
      /\ regs' \in [DOMAIN Current'.ops -> Regs \cup {NoReg}] /\ pinned' \subseteq Regs
      /\ DoneOps' = {} /\ OperandsPinned' /\ OutOfTheWay'
    BY <1>1, <1>2, <1>3, InstStart
<1>5. PICK m : Placed(m)
    BY <1>2 DEF Allocating
<1> DEFINE n == LearnInst(prog.cls, m, Current, regs)
<1>6. /\ out' \in Seq(FastPieces) /\ Saves(out', usedCsrs) /\ Leads(prog.cls, out', n)
      /\ WhereRight(prog.cls, where', usedCsrs)
      /\ \A v \in AliveAt(prog, block, index + 1) : n[Place(where', v)] = v
    BY <1>1, <1>5, EmittedRight
<1> HIDE DEF n
<1>7. AllocTypes'
    BY <1>1, <1>3, <1>4, <1>6 DEF AllocTypes
<1>8. (\E x : Placed(x))'
    BY <1>1, <1>4, <1>6 DEF Placed
<1>9. Allocating'
    BY <1>1, <1>2, <1>4, <1>7, <1>8 DEF Allocating, machine
<1> QED
    BY <1>1, <1>4, <1>9 DEF FastInv, machine

\* The contents of the registers are no matter where nothing is known.
LEMMA AgreesNothing ==
    ASSUME defined \subseteq Vregs
    PROVE  Agrees(holds, defined, Nothing)
    BY MirAssumption DEF Agrees, Nothing

\* The next block, or the code of all of them.
LEMMA EmitBlockInv ==
    ASSUME FastInv, EmitBlock
    PROVE  FastInv'
<1>1. /\ stage = "emit" /\ index = Len(prog.blocks[block])
      /\ UNCHANGED <<prog, holds, defined, usedCsrs>>
      /\ code' = Append(code, Emitted) /\ out' = <<>>
      /\ where' = [v \in Vregs |-> NoReg]
    BY DEF EmitBlock
<1>2. /\ prog \in FastPrograms /\ block \in Blocks(prog) /\ Allocating /\ AcceptedFast(prog)
      /\ code \in Seq(Seq(FastPieces))
      /\ \A b \in 1 .. Len(code) : Saves(code[b], usedCsrs) /\ \E x : Leads(prog.cls, code[b], x)
    BY <1>1 DEF FastInv
<1>3. /\ Len(prog.blocks) \in Nat /\ block \in Nat /\ block >= 1 /\ block <= Len(prog.blocks)
    BY <1>2, FastProgramType DEF Blocks
<1>4. Len(code) = block - 1
    BY <1>2 DEF Allocating
<1>5. PICK m : Placed(m)
    BY <1>2 DEF Allocating
<1>6. /\ Emitted \in Seq(FastPieces) /\ Saves(Emitted, usedCsrs)
      /\ \E x : Leads(prog.cls, Emitted, x)
    BY <1>1, <1>5, EmittedRight
<1>7. /\ code' \in Seq(Seq(FastPieces)) /\ Len(code') = block
      /\ code'[block] = Emitted /\ \A b \in 1 .. block - 1 : code'[b] = code[b]
  <2> DEFINE e == Emitted
  <2>1. e \in Seq(FastPieces) /\ code' = Append(code, e) /\ code \in Seq(Seq(FastPieces))
      BY <1>1, <1>2, <1>6
  <2> HIDE DEF e
  <2>2. /\ code' \in Seq(Seq(FastPieces)) /\ Len(code') = Len(code) + 1
        /\ code'[Len(code) + 1] = e /\ \A b \in 1 .. Len(code) : code'[b] = code[b]
      BY <2>1
  <2>3. Len(code) + 1 = block
      BY <1>3, <1>4
  <2> QED
      BY <1>4, <2>2, <2>3 DEF e
<1>8. \A b \in 1 .. Len(code') : Saves(code'[b], usedCsrs') /\ \E x : Leads(prog'.cls, code'[b], x)
  <2> SUFFICES ASSUME NEW b \in 1 .. block
               PROVE  Saves(code'[b], usedCsrs) /\ \E x : Leads(prog.cls, code'[b], x)
      BY <1>1, <1>7
  <2>1. CASE b = block
      BY <1>6, <1>7, <2>1
  <2>2. CASE b # block
      BY <1>2, <1>3, <1>4, <1>7, <2>2
  <2> QED
      BY <2>1, <2>2
<1>9. CASE block < Len(prog.blocks)
  <2>1. StartInst(block + 1, 1) /\ at' = at /\ block' = block + 1 /\ index' = 1
      BY <1>9 DEF EmitBlock, StartInst
  <2>2. block' \in Blocks(prog)
      BY <1>3, <1>9, <2>1 DEF Blocks
  <2>3. index' \in 1 .. Len(prog.blocks[block'])
    <3>1. prog.blocks[block'] # <<>> /\ prog.blocks[block'] \in Seq(Instructions)
        BY <1>2, <2>2, FastProgramType DEF AcceptedFast, EndsInTerminator
    <3> QED
        BY <2>1, <3>1
  <2>4. /\ stage' = "operands" /\ operand' = 1
        /\ regs' \in [DOMAIN Current'.ops -> Regs \cup {NoReg}] /\ pinned' \subseteq Regs
        /\ DoneOps' = {} /\ OperandsPinned' /\ OutOfTheWay'
      BY <1>1, <1>2, <2>1, <2>2, <2>3, InstStart
  <2>5. /\ out' \in Seq(FastPieces) /\ Saves(out', usedCsrs') /\ Leads(prog'.cls, out', Nothing)
    <3>1. Saves(<<>>, usedCsrs')
        BY DEF Saves
    <3> QED
        BY <1>1, <3>1, LeadsEmpty
  <2>6. WhereRight(prog'.cls, where', usedCsrs')
      BY <1>1 DEF WhereRight
  <2>7. \A v \in AliveAt(prog', block', index') : FALSE
      BY <2>1 DEF AliveAt
  <2>8. AllocTypes'
      BY <1>1, <2>3, <2>4, <2>5, <2>6 DEF AllocTypes
  <2>9. (\E x : Placed(x))'
      BY <2>4, <2>5, <2>7 DEF Placed
  <2>10. at'[1] = 0 /\ Len(code') = block' - 1
      BY <1>2, <1>3, <1>7, <2>1 DEF Allocating
  <2>11. Allocating'
      BY <2>4, <2>8, <2>9, <2>10 DEF Allocating
  <2> QED
      BY <1>1, <1>2, <1>7, <1>8, <2>2, <2>4, <2>11 DEF FastInv
<1>10. CASE ~(block < Len(prog.blocks))
  <2>1. stage' = "done" /\ at' = <<1, 1>> /\ block' = block
      BY <1>10 DEF EmitBlock
  <2>2. Len(code') = Len(prog.blocks) /\ 1 \in Blocks(prog)
      BY <1>2, <1>3, <1>7, <1>10, FastProgramType
  <2>3. 1 \in 1 .. Len(code') /\ code'[1] \in Seq(FastPieces)
      BY <1>3, <1>7
  <2>4. PICK x : Leads(prog.cls, code'[1], x)
      BY <1>1, <1>8, <2>3
  <2>5. PICK K : Trace(prog.cls, K, code'[1])
      BY <2>4 DEF Leads
  <2>6. K[0] = Nothing /\ Agrees(holds, defined, K[0])
      BY <1>2, <2>5, AgreesNothing DEF Trace, FastInv
  <2>7. 1 \in 1 .. Len(code'[1]) + 1
      BY <2>3
  <2>8. at'[1] = 1 /\ at'[2] = 1 /\ at'[2] - 1 = 0
      BY <2>1
  <2>9. Running'
      BY <1>1, <2>2, <2>5, <2>6, <2>7, <2>8 DEF Running
  <2> QED
      BY <1>1, <1>2, <1>7, <1>8, <2>1, <2>9 DEF FastInv
<1> QED
    BY <1>9, <1>10

-----------------------------------------------------------------------------
(* Executing the code of the fast allocator.                               *)

\* A step of the machine.
LEMMA FastRunInv ==
    ASSUME FastInv, FastRun
    PROVE  FastInv'
<1> DEFINE c == prog.cls
           b == at[1]
           s == code[at[1]]
           k == at[2]
<1>1. Execute /\ UNCHANGED <<block, index, stage, operand, where, pinned, regs, out, usedCsrs>>
    BY DEF FastRun, position, state
<1>2. at[1] # 0
    BY <1>1 DEF Execute, ExecuteMove, ExecuteInst, Branch, Executing
<1>3. stage = "done" /\ Running
    BY <1>2 DEF FastInv, Allocating
<1>4. /\ prog \in FastPrograms /\ AcceptedFast(prog) /\ code \in Seq(Seq(FastPieces))
      /\ HoldsType(holds) /\ defined \subseteq Vregs /\ c \in Classes
      /\ \A x \in 1 .. Len(code) : \E n : Leads(c, code[x], n)
    BY FastProgramType DEF FastInv
<1>5. /\ Len(code) = Len(prog.blocks) /\ b \in Blocks(prog) /\ k \in 1 .. Len(s) + 1
    BY <1>3 DEF Running
<1>6. PICK K : Trace(c, K, s) /\ Agrees(holds, defined, K[k - 1])
    BY <1>3 DEF Running
<1>7. s \in Seq(FastPieces) /\ Len(s) \in Nat /\ k \in Nat
    BY <1>4, <1>5 DEF Blocks
<1>8. ASSUME Executing
      PROVE  /\ Here \in FastPieces /\ k \in 1 .. Len(s) /\ K[k - 1] \in Knowledge
             /\ Ready(K[k - 1], Here) /\ K[k] = Learn(c, K[k - 1], Here)
             /\ k + 1 \in 1 .. Len(s) + 1
  <2>1. k \in 1 .. Len(s) /\ k - 1 \in 0 .. Len(s) /\ k + 1 \in 1 .. Len(s) + 1
      BY <1>5, <1>7, <1>8 DEF Executing
  <2> QED
      BY <1>6, <1>7, <2>1 DEF Trace, Here
<1>9. ASSUME Executing, HoldsType(holds'), defined' \subseteq Vregs,
             Agrees(holds', defined', K[k]), at' = <<b, k + 1>>, UNCHANGED <<prog, code>>
      PROVE  FastInv'
  <2>1. at'[1] = b /\ at'[2] = k + 1 /\ at'[2] - 1 = k /\ k + 1 \in 1 .. Len(s) + 1
      BY <1>7, <1>8, <1>9
  <2>2. Trace(prog'.cls, K, code'[at'[1]]) /\ Agrees(holds', defined', K[at'[2] - 1])
      BY <1>6, <1>9, <2>1
  <2>3. Running'
      BY <1>5, <1>9, <2>1, <2>2 DEF Running
  <2> QED
      BY <1>1, <1>3, <1>9, <2>3 DEF FastInv
<1>10. CASE ExecuteMove
  <2>1. /\ Executing /\ Here.kind # "inst" /\ UNCHANGED <<prog, code, defined>>
        /\ holds' = IF Here.kind = "load" THEN [holds EXCEPT ![Here.reg] = holds[Here.v]]
                    ELSE [holds EXCEPT ![Here.v] = holds[Here.reg]]
        /\ at' = <<b, k + 1>>
      BY <1>10 DEF ExecuteMove
  <2>2. /\ Here \in FastPieces /\ K[k - 1] \in Knowledge /\ K[k] = Learn(c, K[k - 1], Here)
      BY <1>8, <2>1
  <2>3. Here.v \in Vregs /\ Here.reg \in Regs
      BY <2>1, <2>2, PieceType
  <2>4. HoldsType(holds')
      BY <1>4, <2>1, <2>3 DEF HoldsType
  <2>5. Agrees(holds', defined, K[k])
    <3> DEFINE p == Here
               n == K[k - 1]
               d == defined
    <3> HIDE DEF p, n, d, c
    <3>1. n \in Knowledge /\ HoldsType(holds) /\ Agrees(holds, d, n) /\ p \in FastPieces
          /\ p.kind # "inst"
        BY <1>4, <1>6, <2>1, <2>2 DEF p, n, d
    <3>2. Agrees(IF p.kind = "load" THEN [holds EXCEPT ![p.reg] = holds[p.v]]
                  ELSE [holds EXCEPT ![p.v] = holds[p.reg]], d, Learn(c, n, p))
        BY <3>1, AgreesMove
    <3> QED
        BY <2>1, <2>2, <3>2 DEF p, n, d
  <2> QED
      BY <1>4, <1>9, <2>1, <2>4, <2>5
<1>11. CASE ExecuteInst
  <2>1. /\ Executing /\ Here.kind = "inst" /\ UNCHANGED <<prog, code>>
        /\ holds' = AfterInst(Here.inst, Here.regs)
        /\ defined' = defined \cup DefOf(Here.inst)
        /\ at' = <<b, k + 1>>
      BY <1>11 DEF ExecuteInst
  <2>2. /\ Here \in FastPieces /\ K[k - 1] \in Knowledge /\ K[k] = Learn(c, K[k - 1], Here)
      BY <1>8, <2>1
  <2>3. Here.inst \in Instructions
      BY <2>1, <2>2, PieceType
  <2>4. HoldsType(holds') /\ defined' \subseteq Vregs
    <3>1. DefOf(Here.inst) \subseteq Vregs
        BY <2>3, InstType
    <3> QED
        BY <1>4, <2>1, <2>3, <3>1, AfterInstType
  <2>5. K[k] = LearnInst(c, K[k - 1], Here.inst, Here.regs)
      BY <2>1, <2>2 DEF Learn
  <2>6. Agrees(holds', defined', K[k])
      BY <1>4, <1>6, <2>1, <2>2, <2>3, <2>5, AgreesInst
  <2> QED
      BY <1>9, <2>1, <2>4, <2>6
<1>12. CASE Branch
  <2>1. PICK x \in prog.succs[b] : at' = <<x, 1>>
      BY <1>12 DEF Branch
  <2>2. UNCHANGED <<prog, code, holds, defined>>
      BY <1>12 DEF Branch
  <2>3. x \in Blocks(prog) /\ x \in 1 .. Len(code)
      BY <1>4, <1>5, <2>1 DEF AcceptedFast, EndsInTerminator, Blocks
  <2>4. PICK n : Leads(c, code[x], n)
      BY <1>4, <2>3
  <2>5. PICK J : Trace(c, J, code[x])
      BY <2>4 DEF Leads
  <2>6. Agrees(holds, defined, J[0])
      BY <1>4, <2>5, AgreesNothing DEF Trace
  <2>7. at'[1] = x /\ at'[2] = 1 /\ at'[2] - 1 = 0
      BY <2>1
  <2>8. code[x] \in Seq(FastPieces) /\ 1 \in 1 .. Len(code[x]) + 1
      BY <1>4, <2>3
  <2>9. Running'
      BY <1>5, <2>2, <2>3, <2>5, <2>6, <2>7, <2>8 DEF Running
  <2> QED
      BY <1>1, <1>3, <2>2, <2>9 DEF FastInv
<1> QED
    BY <1>1, <1>10, <1>11, <1>12 DEF Execute

-----------------------------------------------------------------------------
(* The theorem about the fast allocator.                                   *)

\* The first instruction of the first block.
LEMMA FastInvInit ==
    ASSUME FastInit
    PROVE  FastInv
<1>1. /\ prog \in FastPrograms /\ AcceptedFast(prog) /\ code = <<>>
      /\ at = <<0, 1>> /\ holds = [l \in Regs \cup Vregs |-> Junk] /\ defined = {}
      /\ block = 1 /\ index = 1 /\ stage = "operands" /\ operand = 1
      /\ where = [v \in Vregs |-> NoReg] /\ pinned = prog.blocks[1][1].phys
      /\ regs = [n \in DOMAIN prog.blocks[1][1].ops |-> NoReg]
      /\ out = <<>> /\ usedCsrs = {}
    BY DEF FastInit, MachineInit
<1>2. block \in Blocks(prog) /\ prog.blocks[1] \in Seq(Instructions) /\ prog.blocks[1] # <<>>
    BY <1>1, FastProgramType DEF AcceptedFast, EndsInTerminator
<1>3. index \in 1 .. Len(prog.blocks[block])
    BY <1>1, <1>2
<1>4. Current \in Instructions /\ Current = prog.blocks[1][1]
    BY <1>1, <1>2, <1>3 DEF Current
<1>5. \A k \in ReadIndexes(Current) : ~(k < 1)
  <2>1. \A k \in ReadIndexes(Current) : k \in Nat /\ k >= 1
      BY <1>4, InstType
  <2> QED
      BY <2>1
<1>6. DoneOps = {}
    BY <1>1, <1>5 DEF DoneOps
<1>7. OperandsPinned /\ OutOfTheWay
    BY <1>1, <1>4, <1>6 DEF OperandsPinned, OutOfTheWay
<1>8. out \in Seq(FastPieces) /\ Saves(out, usedCsrs) /\ Leads(prog.cls, out, Nothing)
  <2>1. Saves(<<>>, usedCsrs)
      BY DEF Saves
  <2> QED
      BY <1>1, <2>1, LeadsEmpty
<1>9. WhereRight(prog.cls, where, usedCsrs)
    BY <1>1 DEF WhereRight
<1>10. AllocTypes
  <2>1. pinned \subseteq Regs
      BY <1>1, <1>4, InstType
  <2> QED
      BY <1>1, <1>3, <1>4, <1>8, <1>9, <2>1 DEF AllocTypes
<1>11. \A v \in AliveAt(prog, block, index) : FALSE
    BY <1>1 DEF AliveAt
<1>12. Placed(Nothing)
    BY <1>6, <1>8, <1>11 DEF Placed
<1>13. at[1] = 0 /\ Len(code) = block - 1
    BY <1>1
<1>14. Allocating
    BY <1>7, <1>10, <1>12, <1>13 DEF Allocating
<1>15. HoldsType(holds) /\ defined \subseteq Vregs /\ code \in Seq(Seq(FastPieces)) /\ Len(code) = 0
    BY <1>1 DEF HoldsType
<1> QED
    BY <1>1, <1>2, <1>14, <1>15 DEF FastInv

\* A step that changes nothing.
LEMMA FastStutter ==
    ASSUME FastInv, UNCHANGED fastVars
    PROVE  FastInv'
<1>1. /\ UNCHANGED <<prog, code, at, holds, defined, block, index, stage, operand>>
      /\ UNCHANGED <<where, pinned, regs, out, usedCsrs>>
    BY DEF fastVars, machine, position, state
<1>2. Current' = Current
    BY <1>1 DEF Current
<1>3. DoneOps' = DoneOps
    BY <1>1, <1>2 DEF DoneOps
<1>4. stage # "done" => Allocating'
  <2> SUFFICES ASSUME Allocating PROVE Allocating'
      BY DEF FastInv
  <2>1. AllocTypes'
      BY <1>1, <1>2 DEF Allocating, AllocTypes
  <2>2. OperandsPinned' /\ OutOfTheWay'
      BY <1>1, <1>2, <1>3 DEF Allocating, OperandsPinned, OutOfTheWay
  <2>3. (\E m : Placed(m))'
    <3>1. PICK m : Placed(m)
        BY DEF Allocating
    <3> QED
        BY <1>1, <1>2, <1>3, <3>1 DEF Placed
  <2> QED
      BY <1>1, <2>1, <2>2, <2>3 DEF Allocating
<1>5. stage = "done" => Running'
    BY <1>1 DEF FastInv, Running
<1> QED
    BY <1>1, <1>4, <1>5 DEF FastInv

\* Every step keeps the invariant.
LEMMA FastInvNext ==
    ASSUME FastInv, [FastNext]_fastVars
    PROVE  FastInv'
<1>1. CASE SkipOperand
    BY <1>1, SkipOperandInv
<1>2. CASE FoundOperand
    BY <1>2, FoundOperandInv
<1>3. CASE ReloadOperand
    BY <1>3, ReloadOperandInv
<1>4. CASE OperandsDone
    BY <1>4, OperandsDoneInv
<1>5. CASE CallSpills
    BY <1>5, CallSpillsInv
<1>6. CASE DefInPlace
    BY <1>6, DefInPlaceInv
<1>7. CASE DefAllocated
    BY <1>7, DefAllocatedInv
<1>8. CASE DefPhysical
    BY <1>8, DefPhysicalInv
<1>9. CASE EmitInst
    BY <1>9, EmitInstInv
<1>10. CASE EmitBlock
    BY <1>10, EmitBlockInv
<1>11. CASE FastRun
    BY <1>11, FastRunInv
<1>12. CASE UNCHANGED fastVars
    BY <1>12, FastStutter
<1> QED
    BY <1>1, <1>2, <1>3, <1>4, <1>5, <1>6, <1>7, <1>8, <1>9, <1>10, <1>11, <1>12
       DEF FastNext, Operands, Definition

\* Code about which as much is known reads the right values.
LEMMA FastInvRight ==
    ASSUME FastInv
    PROVE  CodeRight
<1>1. code \in Seq(Seq(FastPieces)) /\ \A b \in 1 .. Len(code) : Saves(code[b], usedCsrs)
    BY DEF FastInv
<1>2. ReadsRight
  <2> SUFFICES ASSUME Executing, Here.kind = "inst", NEW j \in ReadIndexes(Here.inst),
                      Here.inst.ops[j] \in defined
               PROVE  holds[Here.regs[j]] = Here.inst.ops[j]
      BY DEF ReadsRight
  <2> DEFINE s == code[at[1]]
             k == at[2]
  <2>1. Running
      BY DEF FastInv, Allocating, Executing
  <2>2. PICK K : Trace(prog.cls, K, s) /\ Agrees(holds, defined, K[k - 1])
      BY <2>1 DEF Running
  <2>3. at[1] \in 1 .. Len(code) /\ k \in 1 .. Len(s) + 1
      BY <2>1 DEF Running, Blocks
  <2>4. s \in Seq(FastPieces) /\ Len(s) \in Nat
      BY <1>1, <2>3
  <2>5. k \in 1 .. Len(s)
      BY <2>3, <2>4 DEF Executing
  <2>6. Ready(K[k - 1], Here)
      BY <2>2, <2>5 DEF Trace, Here
  <2>7. Here.regs[j] \in Regs /\ K[k - 1][Here.regs[j]] = Here.inst.ops[j]
      BY <2>6 DEF Ready
  <2> QED
      BY <2>2, <2>7 DEF Agrees
<1>3. Written \cap CalleeSaved \subseteq usedCsrs
  <2>1. DOMAIN code = 1 .. Len(code) /\ \A b \in 1 .. Len(code) : DOMAIN code[b] = 1 .. Len(code[b])
      BY <1>1
  <2>2. \A b \in DOMAIN code : \A k \in DOMAIN code[b] :
          /\ code[b][k].kind = "load" /\ code[b][k].reg \in CalleeSaved =>
                code[b][k].reg \in usedCsrs
          /\ code[b][k].kind = "inst" /\ code[b][k].inst.def /\ code[b][k].regs[1] \in CalleeSaved =>
                code[b][k].regs[1] \in usedCsrs
      BY <1>1, <2>1 DEF Saves
  <2> QED
      BY <2>2 DEF Written
<1> QED
    BY <1>2, <1>3 DEF CodeRight

\* The code of the fast allocator reads of every operand the value the program put
\* there, for every program, register file and order of registers that it accepts.
THEOREM FastAllocatedRight == FastSpec => []CodeRight
<1>1. FastInit => FastInv
    BY FastInvInit
<1>2. FastInv /\ [FastNext]_fastVars => FastInv'
    BY FastInvNext
<1>3. FastInv => CodeRight
    BY FastInvRight
<1> QED
    BY <1>1, <1>2, <1>3, PTL DEF FastSpec

-----------------------------------------------------------------------------
(* The copies of an edge.                                                  *)

\* What is left to do can still be done.
StillThere ==
    /\ \A i, j \in Edges : dest[i] = dest[j] => i = j
    /\ \A i \in pos : env[src[i]] = old[arg[i]] /\ src[i] \in ValueRegs \cup temps
    /\ \A i \in Edges \ pos : env[dest[i]] = old[arg[i]]
    /\ \A v \in ValueRegs : (\A i \in Edges : dest[i] # v) => env[v] = old[v]

CopyInv == CopyTypeOK /\ StillThere

\* The invariant holds initially.
LEMMA CopyInvInit == CopyInit => CopyInv
<1> SUFFICES ASSUME CopyInit PROVE CopyInv
    OBVIOUS
<1>1. CopyTypeOK
    BY DEF CopyInit, CopyTypeOK
<1>2. StillThere
    BY DEF CopyInit, StillThere
<1> QED
    BY <1>1, <1>2 DEF CopyInv

\* An emitted copy destroys nothing that is still to be read.
LEMMA EmitCopyInv == CopyInv /\ EmitCopy => CopyInv'
<1> SUFFICES ASSUME CopyInv, EmitCopy PROVE CopyInv'
    OBVIOUS
<1>1. PICK i \in pos :
        /\ Free(i)
        /\ env' = [env EXCEPT ![dest[i]] = env[src[i]]]
        /\ pos' = pos \ {i}
    BY DEF EmitCopy, IsFirst
<1>2. UNCHANGED <<dest, arg, src, temps, old>>
    BY DEF EmitCopy
<1>3. CopyTypeOK /\ StillThere /\ i \in Edges
    BY DEF CopyInv, CopyTypeOK
<1>4. dest[i] \in ValueRegs /\ src[i] \in ValueRegs \cup Temps /\ env[src[i]] \in Values
    BY <1>3 DEF CopyTypeOK
<1>5. CopyTypeOK'
    BY <1>1, <1>2, <1>3, <1>4 DEF CopyTypeOK
<1>6. \A v \in ValueRegs \cup Temps : v # dest[i] => env'[v] = env[v]
    BY <1>1, <1>3 DEF CopyTypeOK
<1>7. env'[dest[i]] = old[arg[i]]
    BY <1>1, <1>3, <1>4 DEF CopyTypeOK, StillThere
<1>8. \A j \in pos' : env'[src[j]] = old[arg[j]] /\ src[j] \in ValueRegs \cup temps
    BY <1>1, <1>3, <1>6 DEF Free, CopyTypeOK, StillThere
<1>9. \A j \in Edges \ pos' : env'[dest[j]] = old[arg[j]]
    BY <1>1, <1>3, <1>6, <1>7 DEF CopyTypeOK, StillThere
<1>10. \A v \in ValueRegs : (\A j \in Edges : dest[j] # v) => env'[v] = old[v]
    BY <1>3, <1>6 DEF StillThere
<1>11. StillThere'
    BY <1>2, <1>3, <1>8, <1>9, <1>10 DEF StillThere
<1> QED
    BY <1>5, <1>11 DEF CopyInv

\* A temporary takes over the value its readers expect.
LEMMA BreakCycleInv == CopyInv /\ BreakCycle => CopyInv'
<1> SUFFICES ASSUME CopyInv, BreakCycle PROVE CopyInv'
    OBVIOUS
<1>1. PICK i \in pos, t \in Temps \ temps :
        /\ env' = [env EXCEPT ![t] = env[dest[i]]]
        /\ src' = [j \in Edges |->
                      IF j \in pos /\ src[j] = dest[i] THEN t ELSE src[j]]
        /\ temps' = temps \cup {t}
    BY DEF BreakCycle
<1>2. UNCHANGED <<dest, arg, pos, old>>
    BY DEF BreakCycle
<1>3. CopyTypeOK /\ StillThere /\ i \in Edges
    BY DEF CopyInv, CopyTypeOK
<1>4. CopyTypeOK'
    BY <1>1, <1>2, <1>3 DEF CopyTypeOK
<1>5. \A v \in ValueRegs \cup Temps : v # t => env'[v] = env[v]
    BY <1>1, <1>3 DEF CopyTypeOK
<1>6. env'[t] = env[dest[i]] /\ t \notin ValueRegs /\ t \notin temps
    BY <1>1, <1>3, ParallelCopyAssumption DEF CopyTypeOK
<1>7. \A j \in pos : env'[src'[j]] = old[arg[j]] /\ src'[j] \in ValueRegs \cup temps'
  <2> SUFFICES ASSUME NEW j \in pos
               PROVE  env'[src'[j]] = old[arg[j]] /\ src'[j] \in ValueRegs \cup temps'
      OBVIOUS
  <2>1. j \in Edges /\ env[src[j]] = old[arg[j]] /\ src[j] \in ValueRegs \cup temps
      BY <1>3 DEF StillThere, CopyTypeOK
  <2>2. CASE src[j] = dest[i]
      BY <1>1, <1>6, <2>1, <2>2
  <2>3. CASE src[j] # dest[i]
    <3>1. src'[j] = src[j] /\ src[j] # t
        BY <1>1, <1>6, <2>1, <2>3
    <3> QED
        BY <1>1, <1>3, <1>5, <2>1, <3>1 DEF CopyTypeOK
  <2> QED
      BY <2>2, <2>3
<1>8. \A j \in Edges \ pos : env'[dest[j]] = old[arg[j]]
    BY <1>3, <1>5, <1>6 DEF CopyTypeOK, StillThere
<1>9. \A v \in ValueRegs : (\A j \in Edges : dest[j] # v) => env'[v] = old[v]
    BY <1>3, <1>5, <1>6 DEF StillThere
<1>10. StillThere'
    BY <1>2, <1>3, <1>7, <1>8, <1>9 DEF StillThere
<1> QED
    BY <1>4, <1>10 DEF CopyInv

\* Every step preserves the invariant.
LEMMA CopyInvNext == CopyInv /\ [CopyNext]_copyVars => CopyInv'
<1> SUFFICES ASSUME CopyInv, [CopyNext]_copyVars PROVE CopyInv'
    OBVIOUS
<1>1. CASE EmitCopy
    BY <1>1, EmitCopyInv
<1>2. CASE BreakCycle
    BY <1>2, BreakCycleInv
<1>3. CASE UNCHANGED copyVars
    BY <1>3 DEF copyVars, CopyInv, CopyTypeOK, StillThere
<1> QED
    BY <1>1, <1>2, <1>3 DEF CopyNext

\* Type correctness of emit_parallel_copies for every edge.
THEOREM CopyTypeCorrect == CopySpec => []CopyTypeOK
<1>1. CopyInv => CopyTypeOK
    BY DEF CopyInv
<1> QED
    BY CopyInvInit, CopyInvNext, <1>1, PTL DEF CopySpec

\* However long the edge and whatever cycles its arguments and parameters
\* form, emit_parallel_copies leaves every parameter with the value its
\* argument had at the start, and every other register as it was.
THEOREM CopiesAtOnce == CopySpec => []Simultaneous
<1>1. CopyInv => Simultaneous
    BY DEF CopyInv, CopyTypeOK, StillThere, Simultaneous
<1> QED
    BY CopyInvInit, CopyInvNext, <1>1, PTL DEF CopySpec
=============================================================================
