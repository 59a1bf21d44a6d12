------------------------------- MODULE MCPasses -------------------------------
(* The passes of the compiler that move values about: simplify_cfg and       *)
(* mem2reg on AIR, the split of coroutines on CIR, and the copies that       *)
(* instruction selection makes for the arguments of an edge.  Each is looked *)
(* at alone.                                                                 *)
EXTENDS ParallelCopy, CoroSplit, SampleFunctions, SampleCoroutines

CONSTANTS
    r1, r2, r3, r4, r5, t1, t2,
    Results, MaxStack

VARIABLES
    part,    \* the pass looked at
    prog, optPhase, localOut, localIn, pending, cur, stack, ret, in, inserted, passed, uses,
    scan, changed, at, mem, loaded, held, source, func, simplified, ran, runs

Opt == INSTANCE Optimizer WITH Functions <- MCFunctions, arg <- passed, phase <- optPhase

optVars ==
    <<prog, optPhase, localOut, localIn, pending, cur, stack, ret, in, inserted, passed, uses,
      scan, changed, at, mem, loaded, held, source, func, simplified, ran, runs>>

-------------------------------------------------------------------------------
\* All edges of five arguments, over the five registers of the parameters and one
\* more; every register starts with a content of its own.  The registers of the
\* parameters are fixed: other choices are renamings.
MCDest == <<r1, r2, r3, r4, r5>>

MCOld == [r \in ValueRegs \cup Temps |-> IF r \in Temps THEN r1 ELSE r]

CopiesInit == dest = MCDest /\ old = MCOld /\ CopyInit

\* An edge with nothing to copy.
NoCopies == CopiesInit /\ arg = MCDest

NoOptimizer ==
    /\ prog = <<>> /\ optPhase = "off" /\ localOut = <<>> /\ localIn = <<>> /\ pending = {}
    /\ cur = <<>> /\ stack = <<>> /\ ret = <<>> /\ in = <<>> /\ inserted = <<>>
    /\ passed = <<>> /\ uses = <<>> /\ scan = 0 /\ changed = FALSE
    /\ at = <<>> /\ mem = 0 /\ loaded = <<>> /\ held = <<>>
    /\ source = <<>> /\ func = <<>> /\ simplified = FALSE /\ ran = <<>> /\ runs = <<>>

NoCoroutine ==
    /\ phase = "off" /\ fn = <<>> /\ spilled = {} /\ parts = <<>> /\ act = <<>>
    /\ regs = <<>> /\ frame = <<>> /\ state = 0 /\ resumable = FALSE /\ suspended = 0

MCInit ==
    \/ part = "copies" /\ CopiesInit /\ NoOptimizer /\ NoCoroutine
    \/ part = "optimizer" /\ NoCopies /\ Opt!Init /\ NoCoroutine
    \/ part = "coroutine" /\ NoCopies /\ NoOptimizer /\ CoroInit

CopiesNext == part = "copies" /\ CopyNext /\ UNCHANGED <<part, optVars, coroVars>>

OptimizerNext == part = "optimizer" /\ Opt!Next /\ UNCHANGED <<part, copyVars, coroVars>>

CoroutineNext == part = "coroutine" /\ CoroNext /\ UNCHANGED <<part, copyVars, optVars>>

MCNext == CopiesNext \/ OptimizerNext \/ CoroutineNext

\* The passes are sequential code.
MCSpec ==
    /\ MCInit /\ [][MCNext]_<<part, copyVars, optVars, coroVars>>
    /\ WF_copyVars(CopiesNext)
    /\ WF_optVars(part = "optimizer" /\ Opt!Pipeline /\ UNCHANGED <<part, copyVars, coroVars>>)

-------------------------------------------------------------------------------
\* A simplified function does what its source does (run_simplify_cfg).
SameRun == part = "optimizer" => Opt!SameRun

\* The promoted function passes the verifier of AIR (run_mem2reg).
Verified == part = "optimizer" => Opt!Verified

\* The promoted function uses the values the original uses (run_mem2reg).
SameValues == part = "optimizer" => Opt!SameValues

\* simplify_cfg and mem2reg end.
Promoted == part = "optimizer" => Opt!Promoted
===============================================================================
