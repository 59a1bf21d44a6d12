# A verification project for Aburi and Adinkra

Aburi is a compiler for C, C++ and Objective-C (`src/`, about 250 000 lines of
C++) with a native backend of its own next to an LLVM one. Adinkra
(`src/adinkra/`) is the C++ standard library that comes with it. This
directory holds TLA+ models of the parts of both in which correctness depends
on more than a table: the concurrency primitives of the library, the register
allocators and the passing of block arguments in the backend, the first passes
of the optimiser, the split of coroutines, the transactions under speculative
parsing, and the session that compiles C++20 modules. TLC checks each model on
small instances; TLAPS proves the most important properties for every instance.

    tlc -workers 2 -config MCSharedPtr.cfg MCSharedPtr      # one run
    tlapm SharedPtrProofs.tla                               # one proof module

`PROJECT.json` lists the runs, the correspondence between definitions and
source lines (`map`), a mutation of the model for every property (the property
must fail on it), the hazards the properties are for, and the theorems.

## 1. Inventory

| Part | State | Operations | What is hard | Module |
|---|---|---|---|---|
| Adinkra `shared_ptr`, `weak_ptr`, `atomic_*` on `shared_ptr` | two counters per control block, a process-wide mutex | copy, move, drop, `lock`, load, store, exchange, compare exchange | last owner against `lock`, destruction under the mutex | `SharedPtr` |
| Adinkra `counting_semaphore` | counter, pthread mutex and condition | `release`, `acquire`, `try_acquire`, `try_acquire_until` | the signal comes after the unlock; timeouts | `Semaphore` |
| Adinkra atomic wait/notify | one mutex and one condition for the whole process | `wait`, `notify_*`, `store` | stores do not take the mutex; torn comparison | `AtomicWait` |
| Adinkra `call_once` | one byte | load, exchange, run, give back on a throw | spinning callers, a callable that throws | `OnceFlag` |
| Adinkra `promise`, `future`, `packaged_task` | shared state: content, mutex, condition | get, wait, set, abandon, move, swap | abandoned promises, timeout against value | `Future` |
| Adinkra `lock`, `try_lock`, `scoped_lock` | owners, the call each thread is in | lock several, back off, try again | different orders, a `try_lock` that throws | `Locks` |
| Adinkra `latch`, `shared_mutex`, `condition_variable`, `thread` | as the system's | forwarded | nothing of their own | not modelled |
| Adinkra containers, strings, streams, ... | values | sequential | algorithms | not modelled |
| Machine IR | blocks of instructions over virtual registers | verified, allocated, emitted | — | `Mir` |
| Linear-scan allocator | live sets, intervals, `active`, `reg_holder` | liveness, scan, rewriting | interval ends, calls, scratch registers | `LinearScan` |
| Fast allocator | two maps, pinned registers | one pass per block | eviction inside an instruction, calls | `FastRegAlloc` |
| Block arguments, optimising tier | pending copies | `emit_parallel_copies` | cycles | `ParallelCopy` |
| Block arguments, fast tier | slots, `block_values_` | `emit_edge_stores` | one store after the other | `EdgeStores` |
| AIR mem2reg | `accesses_`, `in_`, block parameters | collect, rename, prune | loops, order of a hash map, stale values | `Mem2Reg` |
| AIR simplify_cfg, pipeline | function | fold, forward, merge, remove | facts that go stale in a round, termination | `SimplifyCfg`, `Optimizer` |
| CIR file | tables, ids with generations, `transactions_` | add, change, begin, commit, roll back | nested undo journals, ids of records that are gone | `CirFile`, `Snapshots` |
| Speculative parsing | `speculative_snapshots_`, memos | guards, undo actions, trials | memos of what was rolled back | `Speculation` |
| Coroutine split | spilled values, ramp, clones, `__coro_state` | analyse, spill, clone, prune | what survives a suspension | `CoroSplit` |
| Assembler | fragments, fixups | `expand_deferred_fields` | growth to a fixpoint within a limit | planned |
| Module session | `resolver_`, `units_by_path_`, `active_loads_` | register, compile, load | recursion, cycles, failures inside | `ModuleSession` |
| Driver | exit code, options | loop over the inputs | its exit code: `ModuleSession` | partly |
| Lexer, preprocessor, parser, semantic analysis, constant evaluation, building of CIR, lowering, legalisation, encoders, object files, ABI tables, serialisation, diagnostics | — | sequential translation | the languages themselves | not modelled |

How the parts interact. The driver (`main.cpp`) reads the options and calls
the frontend for each input; an `import` inside the frontend calls back into
the module session, which calls the frontend again. Where the grammar is
ambiguous the parser tries: it opens a guard, which begins a transaction on
the CIR file, and commits or rolls back. The frontend yields CIR; coroutines
are split there, then it is lowered to LLVM or to AIR. At `-O1` AIR goes through
`run_o1_pipeline` (simplify_cfg, mem2reg, ...). Instruction selection makes
machine IR of it, where block parameters become copies or stores, a register
allocator rewrites the machine IR, and an emitter or the assembler makes
object code. The compiler is sequential; what is concurrent is the library,
whose callers are arbitrary threads.

What makes each modelled part correct:

* shared ownership: an object lives exactly as long as somebody owns it, is
  destroyed once, and nothing leaks;
* synchronisation: wakeups arrive, nobody waits for what cannot happen, a
  timeout never hides a success, and the callable of `call_once` has one
  complete run that everybody else is behind; locking several mutexes is all
  or nothing and never waits for a thread that waits;
* allocation: every read of the allocated code finds the value the program
  put there, and the caller's registers survive;
* block arguments: an edge assigns all parameters at once;
* optimiser: the simplified function runs as its source, the promoted one uses
  the values the simplified one uses, the verifier accepts it, and both passes
  end;
* coroutines: a value defined before a suspension and used after it is the
  same, and a clone goes on where the coroutine stopped;
* transactions: a roll back restores exactly what was there when the
  transaction began, a commit changes nothing, and no live record or memo
  refers to one that was rolled back;
* modules: results and exit code are determined by the files, not by the order
  in which the session happens to reach them.

## 2. The modules and the code

### SharedPtr (`adinkra/include/c++/v1/memory`)

`strong`, `weak`, `object`, `block` are the control blocks; `sptr` and `wptr`
say which block each pointer object refers to; `mutex` is the process-wide
mutex of the `atomic_*` functions; `call[t]` is the program counter and the
locals of the member function thread `t` is in. One action is one atomic
access or one critical step: `ReleaseStrong` is the `fetch_sub` of
`release_strong`, `DestroyObject` and `DropWeakCount` its continuation,
`LockLoad`/`LockCas`/`LockRetry` the loop of `try_add_strong`,
`AtomicLock`/`AtomicLoad`/`AtomicSwap`/`AtomicMismatch`/`AtomicUnlock` the
bodies under the mutex. A pointer object belongs to a thread (`Owner`), as the
library demands; `Slot` is the object shared through the `atomic_*` functions.
The objects of the blocks in `Locking` have a destructor that calls an
`atomic_*` function: `DestroyObject` then has to wait for the mutex. A failing
compare exchange assigns `*expected` while it holds that mutex
(`memory:1331`), so such a destructor waits for its own thread; the model
reaches this deadlock, and `CallsReturn` names it (`SelfLocked`). Memory is sequentially consistent. Aliasing constructors, deleters and
`enable_shared_from_this` are left out.

### Semaphore (`semaphore`)

`counter`, the `owner` of the mutex, and per thread a program counter, the
function it is in and the argument of its `release`. `Add` ends with the
unlock, and `Signal` or `Broadcast` follow as separate steps, as in the code.
The condition variable is modelled as POSIX specifies it: spurious wakeups
(`WakeSpuriously`), timeouts (`Timeout`), and a wait that has timed out and is
still on its way to the mutex may consume a signal (`Signal`, `Late`).
`try_acquire_until` then returns false without another look at the counter
(`semaphore:143`), so the wakeup is lost and another waiter may sleep while
there is something to take. The model reaches this. The history variable
`lost` counts what such waits left behind and is still there; `NoLostWakeup`
and `EventuallyTaken` say that nothing beyond it is ever missed. `MaxOps` bounds
the operations per thread.

### AtomicWait (`atomic`, `runtime/atomic.cpp`)

All objects share one mutex and one condition. A wait loads, compares as
numbers (`Num`), locks, compares the representation and sleeps; a notification
locks and broadcasts. For the objects in `Racy` the comparison may meet a
`memcpy` in progress and then finds anything (`Equals`). `MaxOps` bounds the
operations per thread.

### OnceFlag (`__adinkra/once_flag`)

The protocol of `call_once` on a flag of one byte, with a callable that
returns or throws. `MaxCalls` bounds the calls per thread.

### Locks (`mutex`)

`owner` of each mutex, and for each thread the function, its arguments and the
argument it is at. `std::lock` waits for its first argument only, tries the
others, gives everything back when one is taken, yields and starts again; a
`try_lock` that throws (the arguments in `Throwing`, such as a `unique_lock`)
gives back what was taken on its way out. `try_lock` and `scoped_lock` use the
same steps. A thread has one call at a time and holds no other lock meanwhile.
`Spin` puts `OnceFlag` and `Locks` together as one specification of two halves:
both are protocols in which a refused thread tries again. `SpinProofs` proves
about each half, and that the halves do not disturb each other (`Halves`).

### Future (`future`, `condition_variable`)

`content` of each shared state, which promise and which future has it, and
what each waiting thread is in. Everything that touches a state is one
critical section, so it is one step; a wait is a sleep and a `Resume`, because
others run in between. `result` is what a `wait_for` returned last. `orphaned`
remembers the states that nobody will ever satisfy: those whose promise was move
assigned, because the defaulted `operator=` drops the state without abandoning
it, and those for which `abandon` could not make its `broken_promise` and
swallowed the exception (`AbandonFails`). `SomebodyWillSatisfy` states exactly
these exceptions. `GetReturns` says that whoever waits for a state that is or
becomes ready returns, and not with a timeout, also when the time ends while the
value is being set; `TimedWaitEnds` that a timed wait ends however often it is
woken, also for an orphaned state.

### Mir, LinearScan, FastRegAlloc (`backend/common`)

`Mir` has the shape of machine IR, what instruction selection promises about
it, in the words of the MIR verifier, and a
machine that executes allocated code. Each register and each spill slot holds
the name of the virtual register whose current value it has, or `Junk`; calls
turn what they do not preserve into `Junk`. `ReadsRight` says that the operand
of every executed instruction holds the right name; `CodeRight` adds that the
prologue saves every callee-saved register the code overwrites. The allocators
(`LinearScan`, `FastRegAlloc`) are the passes of `regalloc_linear.cpp` and
`regalloc_fast.cpp`, step by step, followed by the execution. Virtual
registers have classes (`gpr`, `fpr`, `fpr128`), pools are per bank.
The verifier runs only with `--verify-mir` or `ABURI_VERIFY_MIR`
(`backend.cpp:223`). Its rules are an assumption of the model, not a check that
every compilation makes: the runs and theorems are about functions that keep them.
In particular no instruction has more spilled operands of a bank than there are
scratch registers; `scratch_for` would hand out the last one twice. A block is
left at its end only: conditional branches in the middle of a block and the
unwind exits of invokes are not modelled.
`MCRegAlloc` extends both and chooses the allocator first, as the backend does;
the variables of the other one then stay as they are.

### ParallelCopy, EdgeStores (`backend/*/isel.cpp`)

`ParallelCopy` is `emit_parallel_copies`, one action per iteration: a copy
whose destination nobody reads is emitted, or the first cycle is broken with a
new register. Emission and execution are one, as nothing comes in between.
`EdgeStores` is what the fast tier does instead: loads and stores through
slots, one argument after the other, for the three ways a terminator is
selected (a jump; a conditional branch with edge blocks; or1k, which stores
the arguments of the first edge before it branches).

### Mem2Reg (`air/passes_opt.cpp`)

`SlotPromoter::run` for one slot. `Collect` is the scan for loads and stores;
`VisitLoad` takes the loads of the blocks in any order of the blocks
(`accesses_` is an unordered map) and asks for the value at the start of a
block; `ValueOut`, `KnownIn`, `SinglePred`, `JoinPreds`, `ReturnToSingle` and
`ReturnToJoin` are the mutual recursion over the predecessors with its memo
`in_`, the C++ stack being the variable `stack`; `ReplaceLoad` and
`RemoveAccesses` rewrite the function, `PruneParam` and `PruneRound` remove
trivial parameters. An access that is neither a load nor a store of the slot
keeps it in memory. Then original and promoted function are executed side by
side along the same path (`ExecuteInst`, `ExecuteEdge`). `MaxStack` bounds the
recursion; it is above the deepest one of the instances.

### SimplifyCfg, Optimizer (`air/passes_opt.cpp`)

`SimplifyCfg` has functions as AIR has them: a list of blocks, block calls as
records with a target and arguments, and terminators that refer to them. The
steps are those of `run_simplify_cfg`: a round folds branches, forwards empty
blocks, merges a block into its only predecessor and removes what cannot be
reached; rounds follow until one changes nothing. The targets of indirect
branches are protected. The simplified function is executed together with its
source, instructions returning anything in `Results` (`SameRun`).
`Optimizer` composes the two passes as `run_o1_pipeline` does: `Mem2Reg` starts
on the function that simplify_cfg left, which is what makes its assumption
true that all blocks are reachable. `SampleFunctions` has the functions.

### CirFile, Speculation, Snapshots (`cir/file.cpp`, `collect/collect_core.cpp`, `collect/collect_compare.cpp`)

The tables of `cir::File` are journalled in four ways, and `CirFile` has one of
each: records changed in place and saved when first touched (`bindings`),
append-only tables with an index from contents to id (`names`), maps that get
and lose keys (`facts`), and contexts, saved either as a whole or by deltas. An
id is an index with a generation; a slot that is used again gets the next
generation, so an id kept too long is recognised (`Valid`). Transactions nest,
and a commit merges the journal into the one around it. The code walks over the
list of deltas once, undoing each in its context; `UndoDeltas` is the same walk
as one context sees it, since a delta touches no context but its own.

`Speculation` adds the guards of the session: what a guard copies and what its
undo actions remove (each the entry it was made for, if it is still there, so
that their order does not matter and `UndoMemos` needs no recursion), in the
example of the memo of declarations with C linkage,
and the trials of the comparison synthesis, which begin transactions without a
guard. Such a trial leaves a memo of a record it rolled back; `leaked` records
it, and it is harmless because the generation no longer matches. `NoDangling`
excepts it and therefore says nothing about it. The members that a guard copies
and assigns back one by one, and the rollback of the builder, have no
counterpart.

`Snapshots` is the promise in four lines: every open transaction stands for
the state in which it began. The specification is shown to implement it twice,
with the file graph as the state (`FileRestores`) and with the memos that can
still be used as the state (`MemoRestores`); the history variables `begun` and
`recalled` are the snapshots the code never makes. Both properties also say
which steps are roll backs, since one that restores nothing would pass for a
commit. `merge_committed_transaction` would lose a child's deltas of a context
that its parent saves as a whole only later; the order in which the code calls
it excludes this (`CalledInOrder`), and the model states the order as a guard.
`MaxSteps` bounds the calls, the other `Max...` constants the tables; that
generations wrap at 2^32 is left out, as are the pinned diagnostics.

### CoroSplit (`cirpasses/coro_split.cpp`, `collect/collect_coroutine.cpp`)

The passes over one coroutine, then the execution of its ramp and clones.
`AnalyzeSpills` computes what crosses a suspension by dominance from the points
where a clone goes on, `ApplySpills` marks the definitions that are stored right
behind and the operands that are loaded (a block parameter is an instruction at
the start of its block, stored like any other definition), `Ramp` and `Clone` are the three parts,
with unreachable blocks pruned and validated. Of a value only
its age is kept: what its definition computed last, something older, or
nothing. `ValuesSurvive` says that every executed use reads the newest one,
`GoesOn` that a clone continues behind the suspension the coroutine is in, also
when `await_suspend` declined or threw before. `SampleCoroutines` builds the
coroutines from the skeleton `finish_coroutine_function` makes, with a loop, a
conditional, an await, and a value defined and used anywhere. The blocks are
listed in an order that dominance respects, as the collector emits them.
Locals, promise and frame layout are left out, as are symmetric transfers;
an exception leaves a block at its end;
nobody resumes a coroutine before the activation that suspended it has ended.
`CoroAssumption` says which functions are coroutines (`WellFormed`): the
suspensions have indexes of their own, at most one is final, and on every path to
a suspension the last write of the state is the save of its index, as
`emit_await` puts it before `await_suspend` and the handler before
`unhandled_exception`; and in the coroutine before it is split (`Whole`, where it
goes on behind a suspension) every value is computed before it is used. TLC
evaluates it for all sample coroutines; taking the save out of the skeleton, or
moving a parameter behind its use, makes it false.

### ModuleSession (`libaburi/modules/session.cpp`, `main.cpp`, `collect/collect_module.cpp`)

`stack` is the C++ call stack: a frame per `run_frontend` under way, with the
imports still to handle, the replays of loaded units it is in, and whether an
error was reported. `active` is `active_loads_`, `units` is `units_by_path_`.
The files of the command line are a constant choice (`project`): what each
declares and imports, whether its text compiles, and whether it vanished after
the scan. In that case `read_file` throws through `ensure_compiled`, which
skips its `pop_back`: the frame that catches pops the wrong entry, and a stale
one stays behind (`ImportSource`, `Finish`). Is a stale entry ever taken for a
cycle? Usually not: when the importing file is itself a module interface, it is
the vanished file's entry that is popped, and what stays is cached by the time
anybody asks, and the cache is looked at first. But a file that is no module
has no entry of its own and pops none; then the vanished file stays in
`active_loads_` (`session.cpp:66-69`), it is in no cache, and a later input that
imports it gets "cyclic module interface dependency" for a file that is gone.
The attempt to prove the stronger property found this; `CyclesReal` says what is
left: whatever is reported as a cycle is one, or the file has vanished, and then
compiling the import had to fail anyway. The order of import declarations is
arbitrary. Artifacts are taken as they are, and they may have been written at
different times: two of them can record each other as imports. A module enters
`imported_units_` only when its replay has ended (`collect_module.cpp:178`), so
they replay each other until the stack overflows. `MaxDepth` stands for the room
on the stack, `Overflown` is the end of such a session, and `Terminates` says that
there is no other way not to finish: cyclic sources are reported, and the
recursion over them is bounded. `RunFile` is the part of `run_file` that asks the
session; `-E` and `-run` have no counterpart.

## 3. The runs

Every property has a mutant in `PROJECT.json`: a plausible slip in the code
(a dropped guard, a wrong order, a forgotten update) on which the run fails.

| Run | Instance | Shows |
|---|---|---|
| `shared_ptr` | 2 threads, 3 shared and 2 weak pointers, 2 blocks, the slot | `ObjectLiveWhileOwned`, `BlockLiveWhileUsed`, `SoleDestroyer`, `NoLeak`, `NoRevival`: the life cycle; `DestroyUnlocked`: user code runs under the mutex only in a failing compare exchange; `CallsReturn`: a call blocks for ever only behind a destructor that this exchange runs and that wants the mutex (the object of one block is such), and loops for ever only while others change the count |
| `semaphore` | 3 threads, 2 operations each, releases of 0, 1, 2 | `NoLostWakeup`, `EventuallyTaken`, up to what timed waits that consumed a signal leave behind |
| `atomic_wait` | 3 threads, 2 objects (one racy), 3 representations of 2 numbers | `NoLostWakeup`, `WaitReturns` |
| `once_and_locks` | 3 threads, 2 calls each; 3 mutexes, one of which may throw, in different orders | `RunsAlone`, `EffectBeforeReturn`, `CallsEnd` of `call_once`; `OwnerNotWaiting`, `AllOrNothing`, `Unopposed` of `std::lock` |
| `future` | 2 threads, 2 promises, 2 futures, 2 states | `SomebodyWillSatisfy`, `SatisfiedOnce`, `GetReturns`, `TimedWaitEnds` |
| `regalloc` | both allocators; all functions of 3 blocks built from 9 instructions over 3 virtual registers, with calls, writes to physical registers and 128-bit values | `NoSharing`, `KeptAcrossCalls`, `CodeRight` |
| `passes` | functions with joins, loops, nested and irreducible loops, forwarding blocks, unreachable loops, switches, indirect branches; coroutines; all edges of 5 arguments over 6 registers | `SameRun`, `Verified`, `SameValues`, `Promoted` of the optimiser; `ValuesSurvive`, `GoesOn` of coroutines; `Simultaneous`, `Ends` of parallel copies |
| `module_session` | 3 sources (a file that is no module among them, also as the first input), 3 modules, all import graphs of out-degree 2, an error, a vanished file, duplicate providers, usable and unusable artifacts, two artifacts that record each other | `NoReentry`, `ResultsRight` (exit code included), `CyclesReal`, `Terminates` |
| `speculation` | 7 calls, 3 transactions deep, 2 names, 2 bindings, 2 contexts, a key | `NoDangling`, `StaysStale`, and the refinements `FileRestores`, `MemoRestores` |
| `edge_stores_loop` | branches back to a loop header | violation, below |
| `mem2reg_self_store` | `x = x; use x` | violation, below |

Why the bounds are enough to be interesting. Two threads suffice for a race on
a counter, and two blocks for an exchange to replace one by another; the
semaphore needs a third thread, to steal between a release and the thread it
woke, and three threads with three mutexes can wait in a ring. Three virtual
registers against two registers of a bank force eviction and spilling; five
parameters allow two disjoint cycles, and a cycle with a tail. Three modules
have all cycles up to length three and a unit outside them. Three transactions
are the least in which a merge meets a merged journal, and seven calls suffice
to begin them, change a table between any two, commit, roll back and use a slot
again. The `MaxOps` and `MaxCalls` bounds cut off only repetitions of the same
calls: for the safety properties there is no state that survives a call but the
one that is modelled. For `CallsEnd` the bound means more: a caller of
`call_once` could be overtaken for ever by others whose callable throws each
time, and it ends because there are finitely many calls. `MaxDepth` is larger than
any stack of calls over three sources. In `passes` the functions that mem2reg is
verified on store constants; storing a loaded value back is
`mem2reg_self_store`.

Deadlock is checked for `module_session`. In the other runs the system may stop:
threads have used up their operations, sleep rightfully or block each other in
the way `CallsReturn` names, or the pass has ended.

### Fairness

* `SharedPtr`: a thread inside a call goes on (WF of `Continue`). The exchange
  of `try_add_strong` gets WF only (`LockCas`): a weak exchange does not fail for
  ever while the count stays as it is; while others change it, the loop may go
  on, and `CallsReturn` says so (`Overtaken`). SF of `AtomicLock` and of
  `DestroyObject`, which may need the mutex: the mutex does not starve a
  thread. Nobody has to begin a call.
* `Semaphore`, `AtomicWait`, `Future`: a thread that can go on does. A thread
  asleep on a condition is not one: only signals, spurious wakeups or timeouts
  end its sleep, and of these only the signals, which are part of the
  signalling thread's step, are relied on. `AtomicWait` adds SF for the mutex,
  `Future` SF of `TimeOut`: `wait_for` waits until a point in time, however often
  it is woken before, and that point comes.
* `OnceFlag`: callers are scheduled, and the callable ends.
* `Locks`: every thread inside a call goes on when it can (WF of `Advance`, per
  thread). This does not exclude that callers of `std::lock` make each other
  back off for ever, and the code does not either: it yields and hopes.
  `Unopposed` promises an end only to a caller nobody disturbs.
* Passes and the session are sequential programs: WF of the next step.
* `Speculation` and `CoroSplit` promise nothing eventually and assume nothing.

### Findings

`edge_stores_loop`. The fast tier assigns block parameters one after the other
through their slots. In unoptimised code parameters occur only where the arms
of an expression join, and the order cannot matter. But or1k and i386 use the
fast tier at `-O1` too, after mem2reg has made loop headers with parameters:
an edge that swaps two of them gives both one value, and the or1k conditional
branch stores the arguments of the first edge even when the second is taken.
Block parameters are PHIs everywhere else in the code.

`mem2reg_self_store`. When the value stored to a slot is itself a load from
that slot, the reaching value recorded for a later load is a load that has
been replaced by then and is removed at the end: its uses refer to a detached
instruction, which the AIR verifier calls an error.

### What the code does and the properties name

Some hazards of `PROJECT.json` are behaviour the code has and the models reach,
or that the models assume away. Nothing in the repository promises the contrary, so they are not
violations of anything; the properties name those that are reached and show that
there is nothing else of the kind.

* A destructor that a failing compare exchange runs inside the mutex, and that
  asks for it, blocks its thread (`SelfLocked` in `CallsReturn`;
  `DestroyUnlocked` excepts this exchange).
* A timed wait of the semaphore that consumed a signal loses it (`lost` in
  `NoLostWakeup` and `EventuallyTaken`).
* A move assigned promise strands the waiters of its old state (`orphaned` in
  `SomebodyWillSatisfy`).
* A vanished file can be reported as a cycle (`CyclesReal`), and artifacts that
  record each other overflow the stack (`ArtifactsCyclic` in `Terminates`).
* A rolled back trial leaves memos of records that are gone (`leaked`, excepted
  by `NoDangling`).
* The scratch registers of the linear-scan allocator would run out on an
  instruction with too many operands; contexts changed by deltas and then as a
  whole would not be restored. The models exclude both, by what instruction
  selection promises and by the order of calls (`CalledInOrder`).

## 4. The proofs

All theorems are for any number of threads, objects, registers, blocks and
instructions. They rest on the named assumptions of the modules, which TLC
evaluates on the instances.

| Theorem | Statement | Assumptions |
|---|---|---|
| `SharedPtrProofs!TypeCorrect`, `NoUseAfterDestroy`, `NoUseAfterDelete`, `DestroyedOnce`, `NothingLeaks`, `NeverRevived`, `DestroyedUnlocked` | the seven safety properties of `SharedPtr` | finitely many threads and pointer objects; names distinct |
| `SemaphoreProofs!TypeCorrect`, `WakeupsArrive` | `TypeOK`, `NoLostWakeup` with its exception `lost` | finitely many threads |
| `AtomicWaitProofs!WakeupsArrive` | `NoLostWakeup` | – |
| `SpinProofs!OnceAlone`, `NobodyAhead` | `RunsAlone` and `EffectBeforeReturn` of `OnceFlag` | – |
| `SpinProofs!NoWaitingRing`, `AllOrNone` | `OwnerNotWaiting` and `AllOrNothing` of `Locks` | the functions' arguments are sequences of distinct mutexes |
| `FutureProofs!NobodyForgotten`, `ContentStays` | `SomebodyWillSatisfy`, `SatisfiedOnce` | names distinct |
| `BackendProofs!TypeCorrect`, `OverlappingApart`, `CallsPreserve`, `AllocatedRight` | `TypeOK`, `NoSharing`, `KeptAcrossCalls`, `CodeRight` of `LinearScan` | `MirAssumption`, `LinearScanAssumption`, explained below |
| `BackendProofs!FastAllocatedRight` | `CodeRight` of `FastRegAlloc` | `MirAssumption`, `FastAssumption`, explained below |
| `BackendProofs!CopyTypeCorrect`, `CopiesAtOnce` | types, `Simultaneous` | temporaries are new registers |
| `ModuleSessionProofs!NeverReentered`, `RightResults`, `RealCycles` | `NoReentry`, `ResultsRight`, `CyclesReal` | `ModuleSessionAssumption` |
| `CirProofs!FileRestored`, `MemosRestored` | the refinements `FileRestores` and `MemoRestores` of `Snapshots` | `NoId` is no id |
| `CirProofs!NothingDangles`, `StaleStays` | `NoDangling`, `StaysStale` | `NoId` is no id |
| `CirProofs!ClonesGoOn`, `NoValueLost` | `GoesOn`, `ValuesSurvive` of `CoroSplit` | `CoroAssumption`, see `CoroSplit` above |

The arguments:

* `SharedPtr`. None of the properties is inductive. The invariant is that
  `strong_` is the number of shared pointers to the block (`StrongInv`), that
  `weak_` is the number of weak pointers plus one for all strong ones together
  (`WeakInv`), a debt (`Owed`) which the thread that destroyed the object pays
  in `release_weak`, that at most one thread is past the decrement to zero
  (`ReleaseInv`), what the counters say about the life of the block
  (`BlockInv`), and what each program point says about the locals (`CallInv`).
  There is a lemma per action and a few about counting references.
  `DestroyUnlocked` needs one fact more: a thread that destroys an object while
  it holds the mutex is in a failing compare exchange (`LockedCompare`).
* `Semaphore`. `NoLostWakeup` is inductive with the types: while somebody
  sleeps, the threads on their way to look or to signal, the timed out ones that
  consumed a signal and what such ones left behind are together at least as many
  as there is to take, unless a broadcast is to come. Every step that makes
  the counter grow brings a helper; every helper that leaves takes, has seen
  nothing, or passes its signal to another or to a timed out wait; and one that
  expires with a signal is counted in `lost`.
* `AtomicWait`. The invariant extends the property to a thread that has
  compared and is about to sleep (`Covered`), and says that such a thread and a
  broadcasting one hold the mutex (`Critical`).
* `OnceFlag`. What the byte says is where the threads are (`FlagSays`).
* `Locks`. What a thread owns follows from where it is in its argument list
  (`Has`): forwards what is before its position, backwards what is up to it,
  waiting for the first argument nothing (`LockInv`). As both halves of `Spin`
  stutter while the other moves, `Halves` shows that each is a behaviour of its
  own specification, and the properties follow from those.
* `Future`. Every state is ready, or a promise has it, or it was orphaned
  (`Kept`); pointers refer to states that were made (`Refer`); and who still
  sleeps was not overlooked by a notification (`Asleep`).
* `ModuleSession`. The invariant follows the C++ stack. While the inputs are
  scanned nothing is compiled (`Scanning`). Every file on the stack reaches those above
  it in the import graph, and what a frame that has not failed still owes is to
  be found in it: among the imports to come, under replay, or being compiled in
  the frame above (`StackInv`). The compilations under way are in
  `active_loads_` in their order, and every other entry is of a cached or a
  vanished file (`ActiveInv`); a cached unit is marked right (`UnitsInv`), and the
  exit code counts the failures so far (`ExitInv`). A cycle that is reported is
  then a path through the frames and back.
* `Speculation`. `IInv` has a part about the file and one about the session.
  The journal of transaction `i`, applied to the state in which transaction
  `i + 1` began (or to the current one), gives the state in which `i` began
  (`Journalled`). This is an invariant of a stack, not of the top: a change
  touches only the last journal, a begin adds an empty one, a rollback applies
  the last, and a commit composes two. It needs that saved records are older
  than the transaction (`OnlyOlder`), that tables only grow inside one
  (`Nested`), and that a transaction that saves a context as a whole, and those
  around it, have no deltas of the context (`InOrder`), which is what
  `CalledInOrder` is for; without it a commit would lose deltas, and the proof
  that a merged journal undoes both (`Merged`) fails exactly there. `AllSound`
  says of the current graph and of every saved one that its ids are those of
  live records, by the present generations: so what a rollback gives back does
  not dangle either. A slot that is used again has a new generation (`Fresh`).
  For the memos, what a guard would take the record of is tracked by that guard
  or by one inside it (`MemosLive`), and a memo that could be used when a guard
  was made is untouched and tracked by nobody inside it (`MemosKept`).
  What undoing or pushing a list of deltas does is proved by contradiction, at
  the least position at which it would go wrong (`LeastNat`): the library's
  induction takes the predicate as a parameter, which the provers cannot
  instantiate. Each operation is shown to record what it changes (`Stepped`),
  with one lemma per operation.
* `LinearScan`. `reg_holder` and `active` agree, no two active intervals share
  a register, and an assigned interval that is no longer active has ended
  before everything still to be scanned starts (`Bookkeeping`). The lemmas show
  that intervals are well formed and that a call inside one is found.
  `AllocatedRight` says that the code that comes out is right, for every
  function, on every path. Its invariant has two more parts. `Analysed`: the
  blocks swept since the last change solve the liveness equations (`Fix`), so all
  of them do when the loop ends without a change; the intervals are those of the
  final live sets. From this an interval covers every point at which its register
  is live (`LiveCovered`) and every operand (`OperandCovered`), and a call inside
  makes it cross (`CallCrossed`). `Executed`: before each piece of the rewritten
  code (`AtPoint`) every value that is live there and exists is where it is kept,
  its register or its slot; the reloads so far have brought their values; and
  between an instruction and the store of a spilled definition the value is
  still in its scratch register. That an instruction destroys nothing that lives
  through it (`LivesThrough`) is where `NoSharing` and `KeptAcrossCalls` are used;
  that the reloads of one instruction do not overwrite each other is that the
  scratch registers of one instruction are distinct (`ScratchApart`), which the
  verifier's limit on operands of a bank gives. The pieces of a block are found
  through a layout of the flattened sequence (`Layout`, `BlockShape`).
  The assumptions, beyond distinct names: an instruction writes only operand 0, a
  virtual register or one given by name, and no call opcode of the three
  `inst.def` tables defines an operand or ends a block (`Instructions`); callee pools are callee-saved; scratch registers are distinct,
  in no pool and not callee-saved, as in the tables of the four targets
  (`insts.cpp`); a function has a block and every virtual register a class.
* `FastRegAlloc`. The invariant is about the code being emitted, not yet about an
  execution. The verifier lets no value into a block, so the code of a block says
  by itself what each register and slot holds at every point, or nothing
  (`Knowledge`, one step of which is `Learn`); code whose instructions all find
  their operands that way is right (`Trace`, `Leads`). While an instruction is
  allocated (`Allocating`), at the end of the code emitted so far every value that
  exists and is mentioned again is in the register `vreg_to_phys` has for it, or
  else in its slot, and the operands found so far are in their registers
  (`Placed`). The pinned registers are exactly those of these operands and those
  given by name (`OperandsPinned`), so that an eviction spares them; no two
  virtual registers share a register, and none of 128 bits is in a callee-saved
  one (`WhereRight`); before the instruction is emitted nothing that survives it
  is where it writes (`OutOfTheWay`). That `allocate` finds a register is a
  counting argument (`Room`, `ChoiceRight`): the operands already in registers of
  the bank are fewer than the operands, hence one register of the bank is neither
  theirs nor given by name. For a 128-bit value the same is needed of the
  caller-saved ones, because its second loop does not look whether a register is
  callee-saved. The execution then agrees with what the code says (`Running`,
  `Agrees`).
  `FastAssumption`: the registers of a bank are distinct, no bank has one of the
  other, and the caller-saved vector registers come first in `fpr_order`, as in
  the tables of the targets (`insts.cpp`); an instruction has no more operands of
  a bank than there are registers it does not name itself, and one with a 128-bit
  operand no more vector operands than there are caller-saved ones. The last two
  are promises of instruction selection: `allocate` does not check them, and when
  all registers are pinned it answers register 0, which the model does too. TLC
  evaluates the assumption for the functions of the run.
* `CoroSplit`. The function `Whole`, which is never executed as such,
  ties the activations together: a block reached by a ramp and a clone one after
  the other is reached by a path of it. `CoroInv` says of an activation
  (`Active`) that the instructions of the blocks that dominate its place in its
  part have run in it (`Ran`), that of those that dominate the place in the whole
  coroutine the frame has what the spilled ones computed (`Framed`), and that the
  state is that of every suspension whose save is the last write on the paths from
  here (`Saved`). Between activations (`Stopped`) the state is that of the
  suspension the coroutine is in, a final one is not resumable, and the frame is
  right for the targets of the suspension. `NoValueLost` then follows from the
  check of `validate_values` and `Ran` for what is used directly, and from
  `Framed` for what is loaded: a loaded operand was an operand before
  `apply_spills`, so its definition dominates the load in `Whole`
  (`ReloadsApplied`), and the dominators are still those after it (`WholeKept`).
  `ClonesGoOn` is `Stopped` and the distinct indexes (`SwitchFinds`). Beneath is
  what `Reach` computes in as many rounds as there are nodes: a set closed under
  the edges (`ReachClosed`, by counting), hence that a node is entered from one
  that has all its other dominators (`DominatorsStep`). Which values cross a
  suspension (`Crossing`) plays no part: a value that was missed is one that
  `validate_values` reports.
* `ParallelCopy`. A pending copy still finds in its source what its argument
  had at the start, and what is not pending is done (`StillThere`).

The bounds (`MaxOps`, `MaxCalls`, `MaxDepth`, `MaxGeneration` and so on) are
constants without an assumption in these theorems: the proofs do not use them.

Only model-checked: all liveness (fairness and ENABLED are out of the prover's
reach), `Promoted` among it; and `SameRun`, `Verified` and `SameValues` of the
optimiser. The passes rewrite the function while they walk over it, with a
memo on a stack of calls, so the invariant would have to say of every
intermediate function what it still does: a simulation between two changing
programs.

## 5. Plan

Done in this order: shared ownership (the most used concurrent part of the
library), the allocators and block arguments (the core of the backend),
mem2reg, the other synchronisation primitives, the module session; then the
transactions of the CIR file with speculative parsing and their refinement of a
stack of snapshots, `std::lock`, simplify_cfg with the composed pipeline, and
the split of coroutines.

Next:

1. Proofs: what is left of safety is about the optimiser. For
   `SimplifyCfg` that one rewriting step keeps the run of the function; for
   `Mem2Reg` that a block parameter has the value its slot had.
2. `BranchRelax`: `expand_deferred_fields` of the assembler: growth is
   monotone, the result fits, the iteration limit suffices.
3. The other operations of modelled components: `unique_lock`, `latch`,
   aliasing and deleters of `shared_ptr`.

### Not modelled

Most of the source, by lines, and deliberately. Two thirds of it are the front
ends (lexer, preprocessor, parser, semantic analysis, templates, constant
evaluation): rules of the languages, one case after the other, whose state is
the program being compiled and whose correctness is the text of a standard. A
faithful model of them would be as long as they are. Of the front end the
models have what is a protocol: speculative parsing with its transactions, the
module session, and the code generated for coroutines. Encoders, object files,
ABI tables, mangling and serialisation are data and formats. The lowerings
translate instruction by instruction. The containers and algorithms of Adinkra
are sequential; of these the red-black tree is the one with an invariant worth
a model. Subprocesses, files and options of the driver are input and output.
