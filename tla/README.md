# A verification project for XSan (MAIR)

XSan composes four sanitizers - ASan, TSan, MSan and UBSan - into one compiler
plugin and one runtime.  The runtimes come from LLVM's compiler-rt; what XSan
adds is the code that makes them live together: one set of interceptors that
dispatches to every enabled sanitizer, one thread object, a shared start-up, the
single-thread optimisation that switches TSan off while only the main thread
exists, a heap served to the program and to the runtimes alike, a fork and a vfork that
all of them intercept, and compiler passes that remove accesses another check covers or
that cannot race.  This project models that code in TLA+,
checks the models with TLC on small instances, and proves the central results
with TLAPS for every size.

All paths below are relative to the repository; `xsan/` stands for
`src/runtime/lib/xsan/`, other runtime paths for `src/runtime/lib/...`.

## 1. Inventory

| component | state | operations | interacts with |
|---|---|---|---|
| **single-thread deactivation** (`xsan/tsan/tsan_rtl_extra.cpp`, `tsan_rtl_thread.cpp`) | the global flag `MainThreadTsanDisabled`; `ignore_reads_and_writes`, `ignore_sync` and the ignore bit of each thread; `num_alive_threads`, `num_unjoined_threads`; `main_thread_state` | `EnableMainThreadTsan`, `DisableMainThreadTsan`, `Store/RestoreTsanState`, called from `ThreadCreate`, `ThreadStart`, `ThreadJoin`, `ThreadFinalize`, `LongJmp` | thread registry (clocks handed over in `OnCreated/OnStarted/OnJoined`), signal handlers, every instrumented access (it tests the flag) |
| **signal handlers and longjmp** (`xsan/tsan/tsan_interceptors.cpp`) | `in_signal_handler`, the counters saved in the frame of `CallUserSignalHandler`, `JmpBuf` | `sighandler`, `CallUserSignalHandler`, `SetJmp`, `LongJmp` | saves and clears the ignore counters above |
| **vfork interceptor** (`xsan/xsan_hooks.cpp`, `tsan_rtl_extra.cpp`, `tsan_fd.cpp`, the assembly wrapper of `sanitizer_common`) | thread-local `pid_before_vfork`, `in_vfork_child`, ignore counters, TSan's table of descriptors, the shadow of the stack | `__xsan_extra_spill_area`, `handle_vfork`, `DisableTsanForVfork`, `RecoverTsanAfterVforkParent`, `FdCreate/FdClose/FdDup` | parent and child share all of this memory |
| **pthread interceptors and XsanThread** (`xsan/xsan_interceptors.cpp`, `xsan_thread.cpp`, `tsan/tsan_hooks.cpp`) | `ThreadParam` on the creator's stack, two semaphores, `tid_`, the thread-specific destructor | `pthread_create/join/tryjoin/timedjoin/detach/exit` | both registries below |
| **thread registry** (`sanitizer_common/sanitizer_thread_registry.*`) | contexts with status and reuse count, the map `live_`, `dead_threads_`, `invalid_threads_`, the counters | `CreateThread`, `StartThread`, `FinishThread`, `JoinThread`, `DetachThread`, `ConsumeThreadUserId`, `SetThreadUserId`, `OnFork` | each sub-sanitizer's context callbacks |
| **argument and return value keeper** (`sanitizer_thread_arg_retval.*`) | table from `pthread_t` to argument or return value with a generation number | `CreateLocked`, `GetArgs`, `Finish`, `BeforeJoin`, `AfterJoin`, `DetachLocked` | leak checking; its mutex is held across the real `pthread_create` and `pthread_detach` |
| runtime initialisation (`xsan/xsan_rtl.cpp`, `xsan_activation.cpp`) | `xsan_inited`, `xsan_in_init`, the init mutex | `XsanInitFromRtl`, `TryXsanInitFromRtl`, `__xsan_asan_init` | entered from any interceptor of any thread |
| atexit wrappers (`xsan/xsan_interceptors.cpp`) | libc's list and `AtExitStack` beside it | `atexit`, `__cxa_atexit`, `on_exit`, the wrappers | exit handlers that register exit handlers |
| **fork handlers** (`xsan/xsan_posix.cpp`, `asan/asan_hooks.cpp`, TSan's `ForkBefore/After`) | every mutex of every sub-sanitizer | `BeforeFork`, `AfterFork`, the clone interceptor | the child inherits the mutexes as they are; every operation of the runtime takes some of them |
| **heap allocator and quarantine** (`xsan/asan/asan_allocator.cpp`, `xsan_allocator.cpp`, `sanitizer_quarantine.h`) | the state of each chunk, its shadow, TSan's block of metadata, the caches of the quarantine | `Allocate`, `Deallocate`, `Reallocate`, the runtime's `xsan_internal_alloc` and `free`, `Recycle` | TSan's hooks run within them; the runtime's own blocks come from the same classes |
| fibers (`tsan_rtl_thread.cpp`) | the counters of threads | `FiberCreate`, `FiberSwitch`, `FiberDestroy` | deactivation |
| **redundant check elimination** (`ActiveMopAnalysis.cpp`, `MopRecurrenceReducer.cpp` in `src/instrumentation/Analysis/`) | per-block data-flow facts, the work list, the graph of recurring accesses | `dataflowAnalyze`, `isOneMopActiveToAnother`, `distillRecurringChecks` | ASan's and TSan's passes instrument only the accesses it keeps |
| **stack object race analysis** (`TsanMopAnalysis.cpp`) | the marks of blocks and instructions during two searches | `mightRace` and its queries and searches | TSan's pass instruments only the accesses it names |
| sanitizer compositor (`src/instrumentation/XSanitizerCompositor.cpp`) | none kept | the order of the sub-passes | LLVM |
| fake stack, race detection, MSan shadow | frames and shadow states | - | vendored code with XSan's hooks |
| compiler wrappers, live patches (`src/compiler/`) | none | rewriting of command lines | - |

### What is hard here

* **Relaxed decisions on shared counters.**  `is_now_all_joined` reads
  `num_unjoined_threads` after its own decrement and outside any lock, while
  other threads create, join and detach.  If the main thread concludes it is
  alone when it is not, every race in the program is missed.
* **Signals.**  A handler runs with cleared counters and restores the old ones
  afterwards; a handler that leaves by `longjmp` skips the restoring code.
* **Memory shared by two processes.**  A vfork child runs on its parent's
  memory, and the hook tells three calls apart by a process id it keeps there.
* **Identifiers that are reused**: `pthread_t` by libc as soon as the real join
  returns, thread ids by the registry's quarantine, process ids by the kernel,
  generation numbers by wrap-around.
* **Hand-shakes** between a creator and a thread that runs before it was
  recorded, and joins that fail half-way.
* **Mutexes at fork**: taken in one order by the handlers and in others by everybody
  else, and inherited by a child that lacks the threads which hold them.
* **A chunk between two frees**, and a block that serves the program and the runtime in
  turn: what one left in the shadow is what the other finds.
* **Two searches over one graph** that share their visited sets.
* **Initialisation re-entered from an interceptor**.

The hazards are listed one by one, each at its line and with the property that
would notice it, in `PROJECT.json`.

### What makes each component correct

* deactivation: off only while alone and all-knowing; off again once alone; the
  counters balance; nobody dies for a deactivation the runtime made;
* vfork: the child is isolated, the parent is as it was;
* pthread interceptors with registry and argument keeper: no assertion fails, a
  join acts on the thread that was meant, counters and maps are exact, arguments
  are kept exactly as long as needed, no operation hangs;
* fork: its handlers wait for nobody who waits for them, and no mutex is inherited locked;
* heap: a chunk is served clean, guarded while it is freed, in one place at a time; of two
  frees one wins and the other is reported;
* init, atexit: initialisation happens once and before use, exit callbacks run once each
  in libc's order;
* redundant check elimination: the analysis ends, and says no exactly where a barrier
  lies between (it does not, at lifetime markers: section 3); every dropped access is covered by a kept one on every path;
* stack object analysis: every access between a spawn and a join is among those that may race.

## 2. Modules

| module | models |
|---|---|
| `MainThreadTsan` | activation and deactivation, with threads, signal handlers, longjmp, annotations, exit |
| `MainThreadTsanProofs` | its type invariant, its safety properties and its action property, proved |
| `XsanVfork` | processes, vfork, fork, exec, exit and the descriptor table |
| `XsanVforkProofs` | every property of it that holds, proved |
| `ThreadRegistry` | `ThreadRegistry` as operators on its state, EXTENDed by `XsanPthread` |
| `ThreadArgRetval` | `ThreadArgRetval` likewise |
| `KeptArgs` | what the argument keeper promises each thread: the abstract specification that `XsanPthread` implements |
| `XsanPthread` | the interceptors, composed with both and with libc's own thread table; fork |
| `XsanPthreadProofs` | what each operation of the registry does to its own consistency; which thread each `pthread_t`, operation and table entry is about, with the refinement of `KeptArgs` step by step; the registry inside the composition, and the theorems about `XsanPthread` |
| `XsanFork` | the fork handlers and the other operations of the runtime, as the mutexes they take |
| `XsanForkProofs` | its safety properties, proved |
| `XsanHeap` | malloc, free, realloc, the runtime's blocks and the quarantine |
| `XsanHeapProofs` | its safety properties, proved |
| `ControlFlow` | walks over a graph of blocks, for both compiler analyses |
| `ControlFlowProofs` | what `Reach` computes: the least closed set, with its first and last steps and its reversal, proved by induction |
| `MopFunction` | the functions the reducer reads; dominance |
| `ActiveMopAnalysis` | its data-flow analysis: lattice, two passes, queries |
| `MopRecurrence` | the reducer: edges, dominating set; EXTENDS the analysis |
| `MopExecution` | a run of the distilled function with the checks it keeps |
| `MopExecutionProofs` | every safety property of the reducer, proved: the analysis is exact and foresees every run, the kept accesses suffice, what escapes is bounded; no step of the pass is idle |
| `StackObjects` | the stack object race analysis, and a run of the function it was asked about |
| `StackObjectsProofs` | what its queries and searches find in every function, and what a run may miss, proved |
| `MC...` | the symmetry sets of the TLC runs, and the small functions of `mops` and `stack` |

### MainThreadTsan

`status`, `detached`, `claimed` and `sync` are the fields of TSan's
`ThreadContext`; `claimed` says that the `pthread_t` was consumed by
`ConsumeThreadUserId` or a detach.  `clock` is `thr->clock` as the set of threads
whose complete history it covers: acquiring is union, and a null clock is the
empty set.  `ignores[p]` holds the two counters and the fast-path bit; `op[p]` and
`target[p]` are the program counter of a thread inside an intercepted call, one
step per access to shared state: the counters of `ThreadCreate`
(`tsan_rtl_thread.cpp:115`) are incremented in one step, TSan is switched on and the
clock released in the next, and the registry is called in a third.
`frames` is the stack of `CallUserSignalHandler` activations on the main thread, each
with what it saved, `jmp_buf` the last buffer `SetJmp` filled.

A signal may arrive while the main thread is in user code or blocked in a join:
TSan defers asynchronous signals elsewhere.

The constants switch on what a conforming program may or may not do:
`HandlerCallsPthread`, `MainCallsPthreadExit`, `ProgramLongjmps`.

### XsanVfork

`mm[p]` is the process whose memory `p` runs on: itself, or the parent a vfork child
has suspended.  `mem` is that memory, so that what a child writes is what its parent
reads.  `ExtraSpillArea` is `__xsan_extra_spill_area` with its three cases, applied
before the real vfork, in the child and in the parent.  `files` is the kernel's
table, `mem[p].fd_sync` TSan's copy.

### XsanPthread, ThreadRegistry, ThreadArgRetval

The two runtime classes are modules of operators that describe the effect of one
locked method each; `XsanPthread` has one action per step between two lock releases.
`lib[h]` is libc's view of the `pthread_t` `h`: libc may give it to a new thread as
soon as the real join of the old one returned.  `serial[h]` is a ghost that numbers
the threads which had that `pthread_t`, so that properties can say "the thread that
was meant".  The mutex of `ThreadArgRetval` is the variable `args_owner`, since it is
held across the real `pthread_create` and `pthread_detach`.

`FinishThread` marks the context as destroyed after it has put it into the quarantine, and
`CreateThread` does not clear that mark.  With a quarantine of size 0, which `pthread` has, the context of a
detached thread is thus reused with the mark set; `NoCheckFails` and `JoinsTheRightThread` hold
nonetheless, since `JoinThread` is called after the real join.

`Keeper`, in `XsanPthread`, maps this state to `KeptArgs`: there an argument or return value
is kept for a *thread*, by number, and its life is a line from "none" over "arg" and "retval"
to "dropped".  That the table, which is keyed by `pthread_t` values that change owners while
joins of the former owner are under way, gives every thread this life is the refinement
`ImplementsKeptArgs`.  An entry counts as dropped from the moment the real join or the exit
releases the `pthread_t`, since from then on it may be another thread's.

`Fork` follows the child: one thread, no operation in progress, every other `pthread_t` free,
and the registry after `OnFork`.  `XsanFork` says why the mutexes are free there.  In a child
that has lost threads, creating one is fatal unless `die_after_fork` is off, which the model
assumes.  The child's `ThreadArgRetval` keeps the entries of lost threads for good, so
`ImplementsKeptArgs` and `NoStaleArgs` are checked without fork.

### XsanFork

An operation of the runtime is written as the sequence of mutexes it takes and gives
back, composed from one operator per function of the code (`Holding` is a scoped lock),
and runs one step at a time.  Slots of TSan are named by the thread attached to them.  Where
the code takes a mutex only at times, the model always does: that adds orders, and takes
none away.  `Unhandled` lists the mutexes no handler stands for, among them the registry of ASan where
TSan is enabled (the code says why), that of error reports where it is not, and the mutex of
`AtExitStack`.

### XsanHeap

A call is a list of steps in `todo`, each of which is one access to something other threads
see: the exchange of the chunk's state (`AtomicallySetQuarantineFlagIfAllocated`), each
hook, the poisoning, the push to the thread's cache.  A block has a redzone granule and
`Granules` of user memory; `shadow` has for each what ASan stores there, `meta` is the size
in TSan's `MBlock`.  The allocator below is a set of free blocks, and whether a quarantine
is over its limit is a choice, so that chunks are recycled at every possible moment.  Those
extracted at once are recycled one by one (`RecycleNext`), in any order.  One bound is in a guard:
`Invalidate` recycles no chunk that a call is about to free, as if the quarantine outlasted the
race of two frees; one that does not would let the late free take a chunk served since.

### StackObjects

A function is a graph of blocks with accesses, spawns (calls that capture the object) and
other calls, each of which may join, in any order.  `AllMopsMightRace` is the analysis with its
two strategies: a query per candidate up to `MopThreshold` of them, and beyond that a
forward and an inverse search, whose visited sets are modelled as the code shares them.  The
function then runs, and records in `missed` the accesses between a spawn and a call which the
analysis did not name.

### MopFunction, ActiveMopAnalysis, MopRecurrence, MopExecution

A function is a graph of blocks; a block is a sequence of memory accesses and barriers:
calls that may write memory, the markers of a lifetime's start or end, which are such calls
to LLVM (`Lifetimes`), and atomic instructions that acquire or release.  What else an
instruction may be is left out; no analysis or query looks at it.  `Contained` stands for
`isAccessRangeContains`: an access has a set of bytes, and what alias analysis could not
decide is a function where the bytes differ.  Dominance, which LLVM computes, is defined
through the walks that avoid a block: those from the entry, and for post-dominance those to
`f.exits`, the roots of LLVM's post-dominator tree.  These are the blocks without successor
and, since a loop that no walk leaves has none, a block that LLVM picks in each such loop; without them every
block would post-dominate the loop, and an access before it could lose its check to one that
never comes.

`ActiveMopAnalysis` has one action per visit of a block: `VisitInRPO` for the loop over the
reverse post-order, `VisitFromWorkList` for the work list.  The four bit vectors of the
lattice are sets.  The work list is a set from which any block may be taken next, where the
code takes the newest: what holds here holds for every order.  `MopRecurrence` goes on
from there: `BlockEdges` asks the query `isOneMopActiveToAnother` for each edge.  Across
blocks, that walks over the block of the later access from `getFirstNonPHIOrDbgOrLifetime` on:
`OpeningMarkers` are the lifetime markers it leaves out there.  `FillRoots` and `FillCycle` are the two
loops of `fillDominatingSet`.

`MopExecution` is the compiled function, instruction by instruction, so that "covered" is
not a definition on paths but an observation: a check stands until a barrier, an access
that lost its check waits in `pending` for a later one, and is `escaped` if a barrier or the
return comes first.  The header of the analysis (`ActiveMopAnalysis.h:139-146`) says which
barriers end which cover.  A lifetime marker, where ASan poisons or unpoisons the variable, ends
the cover of ASan's checks and not that of TSan's.

## 3. Runs

| run | shows | bounds | states |
|---|---|---|---|
| `threads` | TSan is off only while the main thread is alone and knows all; it is off again once all are joined; the counter is exact; a creation hands over the clock; the ignore counters balance, no end without its begin, nobody dies for the deactivation | 3 threads beside the main one, each creating, joining, detaching the others; one annotation at a time; handlers two deep that return or leave by longjmp | 1 726 987 |
| `vfork` | the hook and the parent's memory recover; the child is isolated; the parent's descriptor table is left alone | 3 process ids, reused without limit; 2 descriptors, 1 file | 497 442 |
| `pthread` | no CHECK fails, the right thread is joined, the map of user ids is exact, arguments live as long as needed; the keeper's table implements `KeptArgs` | 4 creations on 2 `pthread_t`, the second thread may be cancelled, dead contexts reused at once and at most twice, generation numbers modulo 4 | 1 142 088 |
| `pthread_returns` | types; no CHECK fails in the child of fork and no user id of a lost thread stays; every short operation returns, under `FairSpec` | 2 creations on 2 `pthread_t`, one fork between them, no context reused, generation numbers modulo 2 | 24 072 |
| `mops` | the analysis ends, foresees every run, and is exact but for the lifetime markers it skips; the kept accesses lead to all others; what escapes lies on a loop with a barrier or behind such markers | every layout of 3 accesses and 1 barrier over 5 shapes of 3 or 4 blocks, the barrier a lifetime marker where it opens a block; ASan and TSan | 354 297 |
| `fork` | fork waits in no circle; the child inherits no held mutex but the named ones; the handlers give back what they took | 3 threads, 15 operations | 3 234 664 |
| `heap` | chunks are served clean, guarded while freed, in one place; racing frees are reported; no CHECK fails | 3 threads, 2 blocks of 2 granules, a chunk freed at most twice | 97 173 |
| `stack` | the queries find the accesses between spawn and join and no others; the searches find those on walks within blocks with a spawn; nothing else goes unchecked | every layout of 3 to 5 instructions over 5 shapes of 3 or 4 blocks | 107 555 |

Two other threads suffice for what the deactivation depends on: one that is joined and
one that is created, joined or detached by the first in between; the third of
`threads` adds a chain of joins, through which a clock must travel.  Handlers two deep
cover a `longjmp` that leaves one handler, both, or none.  Annotations are counted per
thread, and those of one thread (`MaxAnnotators`) at a time suffice for a balance per thread.  Three process ids give a
vfork child, a fork child of the parent and one id that comes back.  Two `pthread_t`
with four creations let each be reused while an operation on its former owner is still
under way.  The cancelled thread is the second, which has an earlier thread to inherit a
`pthread_t` from and two later ones to leave its own to.  The generation number of the
argument table wraps at four here, and at
2^32 in the code: with three values a `pthread_t` can be reused often enough during one
join for the number to come round, and `AfterJoin` then takes the entry of another
thread; the run says nothing about 2^32 reuses during one join.

Forks that lose no thread, or after which no thread can be created, are not explored in
`pthread_returns`: the child is then like its parent, or can only end.

Three accesses let one cover a second that covers a third, one before and one behind, and
make a cycle beside a root; one barrier can be put anywhere among them.  The diamond has
joins and branches, the branch with two exits has blocks that nothing post-dominates, the
two loops have the call in the header, in the body, before and after the accesses, and the
loop without exit has a root of the post-dominator tree in it.  A lifetime marker that does not
open its block is treated as any call, and is not laid out again.

A circle of mutexes that fork takes part in needs fork and one or two others: three
threads.  Each may run any of the operations again and again, so every pair of orders meets
at every point.  Two blocks give a chunk that is freed and recycled while the other is
served or is a batch of the quarantine; three threads are two that free and one that
recycles.  Three accesses exceed `MopThreshold`, which is 2 in the code, so both strategies
of the stack analysis run, with one spawn or two, a spawn that is an access itself, and a
cycle with two entries.

### Runs that disagree with a comment or an assertion of the code

Each expects a violation and is a finding in `PROJECT.json`, with the quotation:

* `vfork_interceptors` - the parent ignores interceptors for ever after a vfork;
* `pthread_self_join` - a join that fails leaves the user id consumed;
* `stack_forward` - the forward search of the stack analysis never leaves the block of a
  spawn, so that an access in the next block is taken not to race;
* `lifetime` - the query that decides whether a check is redundant skips the lifetime markers at
  the head of the later access's block: with `store x` in one block and `lifetime.end(x); load x`
  in the next, ASan drops the check of the load.

The passing runs leave these causes out: no property of `vfork` speaks of
`ignore_interceptors` in the parent, `RetriesJoin` is FALSE in `pthread`,
`MayRaceIsExact` says of the two searches what they do find, and `SkippedMarkers` names the markers
that `AnalysisIsExact` and `EscapesOnlyAcrossLoopsOrMarkers` do not count.

Other limits of the code are assumed away by a constant or named in a property:

* `pthread_exit` called by `main` while TSan is off dies for the deactivation, since
  `ThreadFinish` runs before it is undone; `DeactivationIsNotFatal` leaves that death out;
* a longjmp out of a handler loses an annotation opened since the last activation
  (`LongjmpRestoresStale`); one that stays inside a handler puts the counters of the
  interrupted code in force too early, so that `exit()` in that handler may die;
  `DeactivationIsNotFatal` leaves it out;
* a handler that creates a thread while TSan is off leaves it off (`HandlerCallsPthread`):
  POSIX does not let handlers call `pthread_create`, but programs do;
* a vfork that fails runs the parent's recovery with nothing to recover; the ghost
  `vfork_failed` marks memory of which two properties then say nothing;
* an access in a loop with a barrier may lose its check to one behind the loop;
  `EscapesOnlyAcrossLoopsOrMarkers` names these loops;
* an irreducible cycle (`InIrreducibleCycle`) is no loop to the stack analysis;
* a purge of the allocator, or a libc that frees under the mutex of `ThreadArgRetval`,
  closes a circle with fork (`Operations` without "purge", `LibcFrees` FALSE);
* a chunk that is freed twice is still in quarantine at the second free.  Where it was recycled
  and served again in between, the second free is one of the new chunk, as in any allocator
  with a finite quarantine;
* poisoning is on throughout: `IsHeapAllocatedIntenally` reads the shadow, and its other branch,
  which asks the allocator while `CanPoisonMemory()` is false (`xsan/asan/asan_allocator.cpp:631`),
  is left out.

### Fairness

Two runs need it.  In `mops`, `WF` on the pass itself: it is a sequential program that goes
on while it can; the function it compiles may loop for ever.  In `pthread_returns`, `WF` on
the steps of creation, start and end says that
the scheduler runs every thread that can run.  `SF` on the steps of join, detach and start
says that a thread waiting for the mutex of `ThreadArgRetval` gets it although others take
it again and again, which the mutex's semaphore hand-over provides.  Nothing is assumed
of the program: a thread's routine may run for ever, and nobody need join it.

## 4. Proofs

TLAPS checks the theorems below, each for every value of the constants that its hypotheses
leave.  The named assumptions on the constants say what the code gives: that the set of threads is
finite (`MainThreadTsanAssumption`), that functions are graphs of blocks (`MopFunctionAssumption`,
`StackObjectsAssumption`) and accesses have bytes (`MopRangeAssumption`), that a chunk has a
granule (`HeapAssumption`), and the types of the flags.

### MainThreadTsan

For every finite set of threads, every depth of handlers and every number of annotations, with
`tsan_ignore_runtime` on or off (the runs have it off):

* `TypeCorrect`: `Spec => []TypeOK`.  `TypeOK` is not inductive: that a counter stays
  a natural number depends on the join that ends its ignore having begun it
  (`TargetInv`) and on the handler count being that of the frames
  (`HandlerCountInv`).  `TypeInv` is the conjunction.
* `UnjoinedCounterCorrect`: `Spec => []UnjoinedCounterIsExact`.  The counter equals one
  plus the cardinality of the set of counted threads; a step adds one thread, removes
  one, or keeps the set (`CountedStep`).  That it removes *exactly* the one it discounts
  needs `OpInv`: what each operation in progress knows of its target's status
  (`OpStatusInv`, `FrameInv`) and that no two operations are about the same thread
  (`CreatesApart`, `JoinsApart`).
* `DeactivatedOnlyAlone`: `Spec => []DisabledImpliesAlone`.  `AloneInv` strengthens it with the
  thread being created by the main thread at the moment TSan is about to be switched on.  When the
  main thread reads a counter of one, `UnjoinedCounterIsExact` says that the counted set is empty;
  `QuietHandlers` keeps a handler from running inside that step.
* `AllJoinedSwitchesOff`: `Spec => []AllJoinedDisables`, the converse.  The last thread to be joined
  is joined by the main thread, since any other joiner would be left itself; `AllJoinedInv` says that
  the main thread then still is between the join and the switch.
* `CountersBalance`, `EveryEndHasItsBegin` and `OnlyAnnotationsAreFatal`: `IgnoresBalance`,
  `NoCheckFailure` and `DeactivationIsNotFatal`.  `BalanceInv` says of every thread in every
  state that its counters are the sum of what asked for them: open annotations, a switched-off
  TSan, a blocked join; while handlers run, of the counters that the first of them saved.  It
  also says that `main_thread_state` holds the synchronisation counter now due, which is why
  `RestoreTsanState` is right after a longjmp.
* `DeactivationForgetsNothing` and `CreatorsClockIsInherited`: `DisabledKnowsHistory` and the action
  property `CreationHandsOverClock`.  `BalanceInv` says that no counter keeps a clock
  from being acquired while TSan is on; `HandOverInv` that a creator's clock and a finished thread's
  wait where the other side looks; `HistoryInv` that the history of a joined thread is known to the main
  thread or passed on by a thread that can still be joined, or was detached.  With TSan
  off there is no such thread (`AloneInv`).

The hypotheses, where a theorem has any:

* `~HandlerCallsPthread` (the two on being alone, the two on histories).  A handler that
  creates or joins inside an operation of the main thread is not excluded by the code, but POSIX
  does not allow it, and section 3 says what the code does then.
* `LongjmpsAreRestored` (all that rest on `BalanceInv`): if handlers leave by longjmp, then under
  `tsan_ignore_single_thread`, since `RestoreTsanState` is called under that flag only, and with
  annotations as they were at the last switch, since `main_thread_state` is as old as that.

### MopExecution

* `AnalysisCorrect`: `Spec => []AnalysisInv`.  A block that is neither on the work list nor
  awaited by the first pass solves its two equations (`Settled`).  A visit settles its block
  (`UpdatedIsSettled`) and disturbs only successors, which then are awaited
  (`OthersStaySettled`, `VisitKeepsInv`).  At the end nothing is awaited.
* `AnalysisSound`: `Spec => []AnalysisIsSound`, the analysis foresees what every run does.
  `ExecutionInv` extends the claim into the block: a barrier seen since the last execution of
  an access is in the IN of the block, or in the block, after the access if that is in the
  block too.  An instruction keeps it (`InstructionStep`), the end of the block turns it into
  the transfer function (`ForeseenLeaves`), and the branch into the IN of the successor,
  because that block is settled.
* `KeptSufficient`: `Spec => []KeptLeadToAll`.  `KeptInv` says of every set that holds the kept
  accesses and is closed along the open edges that it holds all that the searches have
  visited; each search starts from a kept access and stays in such a set (`SearchStaysIn`).
* `AnalysisExact`: `Spec => []AnalysisIsExact`, the queries block an edge exactly where a
  barrier lies on a walk between its two accesses, other than the lifetime markers that are
  skipped (`SkippedMarkers`).  These are all those at the head of the later access's block, unless a
  walk comes through the block twice: the end of the block has then counted them (`BehindMarkers`,
  `BackThrough`).  The proof takes two inclusions.
  The bits claim no more than a walk shows: `WitnessInv` has a walk from the access for each
  bit in the vectors of each block, at every step of the analysis, since a transfer and a join
  only extend walks (`TransferShown`, `JoinShown`).  And they miss no walk: once
  all blocks are settled, the points where the bits flag a barrier are closed
  under steps (`FlaggedOn`), so they hold what the barrier leads to (`CrossedIsFlagged`).  The query has
  shortcuts within and across blocks; that these are right rests on the edge's direction, on what
  dominance says of walks (`DominatedFollows`, `PostDominatorFollows`: where one access
  dominates another, a walk leads from it to that, and what comes between is as it is in their blocks), and
  on the walk stopping where the access is executed again (`QueryIsExact`).
* `EscapesBounded`: `Spec => []EscapesOnlyAcrossLoopsOrMarkers`, the result the pass exists for: in every
  run, an access without a check of its own is covered by one before or behind it, unless a
  barrier lies on a cycle through it, or, for ASan, it is led to by an open edge that skips lifetime
  markers (`LedPastMarkers`).  The argument is about the other open edges (`Clean`), for which the
  query has skipped nothing that ends a check's cover (`CoverIsRelevant`).  A run follows walks (`WalkInv`), and `Ghost(U)` gives each
  access `k` that keeps its check the set `U[k]` of those executed since a barrier ended the
  cover of its last check.  `EdgesUncovered` carries that along the open edges: the dead access
  of an edge is in `U[k]` only if the killing one is or, where that comes later, until the run
  gets there; for where it comes first, its check still stands (`DominatorIsEarly`).  At a barrier or
  at the return, the accesses that are covered or lie ahead hold the kept ones and are closed
  along the open edges, so by `KeptSufficient` they are all: what still waits is executed again
  (`PendingLiesAhead`), which makes the barrier one on a cycle, and at a return is
  impossible (`NothingAhead`).  `U` is no variable of the specification; `EscapeInv` says that
  there is one.
* `PassProgress`: `Spec => [][DistillNext => PassGoesOn]_vars`.  No step of the pass is idle and none goes
  back: it goes on to the next stage, or shortens the first pass, or climbs in the lattice,
  where no bit is ever cleared (`InfoClimbs`, because transfer is monotone and the end
  of a block was computed from its beginning, `OutInv`), or, if no end of a block changes, takes a block off the work
  list, or visits more accesses.  Each of these can happen finitely often before the ones named
  earlier; that the pass then ends (`PassTerminates`) needs fairness, and is TLC's.

TLC checks the strengthened `AnalysisInv` too, in `mops`.

All of this is about walks of any length.  `ControlFlowProofs` says what `Reach` computes: the
least set that is closed along the edges (`ReachClosed`, because a level that adds nothing is the last, and there
are no more levels than vertices; `ReachLeast`).  That is how a claim about all walks is
proved everywhere: the points of which it holds are closed under steps.  The induction over levels is
`InductiveSet`, which is proved about the least counterexample with the library's `WFMin`: the
induction theorems proper take an operator as a parameter, which the provers cannot instantiate,
and `WFMin` takes a set.

The proof found one fault of the model, since mended: post-dominance was once defined through the
blocks without successor alone, so that everything post-dominates a loop without exit, and
`PendingLiesAhead` had no proof.  The shape `EndlessLoop` of the run then violated
the bound on escapes; LLVM adds a root in each such loop (`f.exits`).

### StackObjects

For any set of functions, each with a finite graph of blocks, and any `MopThreshold`:

* `MayRaceExact`: `Spec => []MayRaceIsExact`.  A walk leads from an instruction to another if
  that is behind it in the block, or if blocks lead to its block (`BehindByBlocks`).  The inverse
  search goes back over no more blocks than the forward search has found, which are the blocks with a
  spawn, and all of them hold a call that may join (`BlocksBetweenAreSpawnBlocks`); the upper and the
  lower bound of a block are then what is left of the walk (`BehindSpawn`, `BeforeJoin`).  A query
  across blocks is reachability; within a block, `LoopIsCycle` proves that a natural loop is a
  cycle, from dominance of its header: what the entry reaches, it reaches without the header or
  through it (`WithOrWithout`).  The converse is the irreducible cycle of the property.
* `MissedBounded`: `Spec => []MissedAcrossBlocks`.  `RunInv` says that a run follows walks: there
  is a spawn before, and behind it the accesses that no call has followed (`FollowsWalks`).
  So what a call finds unchecked lies between a spawn and a join, and what the analysis finds of
  these is known.

### XsanVfork

For any set of process ids and descriptors, with ids reused: `HookIsRecovered`,
`VforkChildIsIsolated`, `VforkRecoversCounters`, `VforkCleansStack`, the action property
`FdTableIsKept` and `VforkTypeCorrect`.  The inductive invariant `VforkInv` has three parts.
`MemoryInv` says who runs on which memory: itself, or that of one parent that is suspended for
it, so that the memory of a suspended parent has one user.  `HookInv(p)` says, per program
counter, what `pid_before_vfork` and the counters in that memory are: `Quiet` before the first
call of the spill area and after the third, `Isolated` between the second and the third,
`Recoverable` at the third.  The three cases of `ExtraSpillArea` are three lemmas
(`SpillBefore`, `SpillChild`, `SpillParent`) that lead from each to the next.  `TypeOK` alone is not
inductive: that the unsigned counters stay naturals when the parent's call decrements them
needs `Recoverable`.  `InterceptorsRecovered` is not among the theorems because it is false.

### XsanPthread

For any set of `pthread_t` values, any size of the quarantine and any number of reuses, with
fork, cancellation and failing joins, under three hypotheses, `Scope`:

* `RetriesJoin = FALSE`: the program does not repeat a `pthread_join` that failed.  With it
  `NoCheckFails` is false, as the run `pthread_self_join` shows.
* `MaxCreates < max_threads_`: no more threads are created than the registry has contexts; beyond,
  `CreateThread` may find none and ends the program ("Thread limit").
* `MaxCreates <= kInvalidGen`: the generation numbers of `ThreadArgRetval` do not wrap.  They
  have as many values as that; a wrap that lands on the generation of a join under way
  would let it drop another thread's entry.

The theorems are `PthreadTypeCorrect`, `NoCheckEverFails`, `UserIdsAreExact`,
`JoinsAreOfTheRightThread`, `ArgsStayAlive`, `ParamStaysValid` and, where `MayFork` is FALSE (the
child keeps the entries of threads it does not have), `StaleArgsAreDropped` and
`TableKeepsItsPromise`.  The inductive invariant `PthreadInv` has four layers, each inductive
given those before it:

1. `TypeOK`.
2. `StructInv`: which thread a `pthread_t` stands for, and which thread each operation under way
   is about.  A thread that starts has its creator waiting for it (`CreateInv`, `ThreadInv`);
   a join or detach holds its thread's `pthread_t` until the real call (`ReapInv`), and no two
   are about one thread (`UniqueInv`, `JoinableInv`).  This is what libc guarantees the
   interceptors.
3. `ArgInv`: the table holds an entry for every thread that runs or may be joined, with a
   generation of its own (`EntryInv`); a join that has read a generation finds either its entry
   or another generation.
4. `TidInv`: the registry has a context for every thread, in the status that goes with libc's;
   the context a join or detach has taken stays until that is over, though the `pthread_t` is
   given again.  It contains `RegistryInv`, the consistency of the registry by itself: a context is in
   one queue, the counters count, a user id is one context's.  That each operation of the
   registry keeps `RegistryInv` is proved first, without the composition.

`NoStaleInv` and `KeptInv` are two more layers for the last two theorems.  For the refinement,
`KeptInv` says what is kept for each thread ever created (`KeptAgrees` ties it to the table), and one lemma per
action shows that each thread's value changes as an action of `KeptArgs` allows, or not
at all; that at most one changes at a time makes a step of `KeptArgs` of it.

### XsanFork

For any number of threads, and slots in any order: `HandlersGiveBack`, `ChildStartsUnlocked` and
`ForkCannotDeadlock`.  The last has the hypotheses under which TLC finds no circle either: TSan is
contained (a late free takes the fallback and the allocator mutex in the other order than fork,
and only TSan's `global_proc` keeps the two apart), libc frees nothing inside `pthread_create` and
`pthread_detach`, and the program does not purge.  The first two have none.

The model follows a thread by its program text, the sequence of its acts, so the proof says what
a text does: `Runs(A, s, B, acts)` is that a thread that holds `A` may run `s`, each act
being one of `acts` and allowed by what is held then (`Effect`), and ends up holding `B`.  Runs
compose (`RunsConcat`), a scoped lock gives back what it took (`HoldingRuns`), and an
operation is proved to run from nothing to nothing by its composition, one lemma for each; the
slots, whose number is a parameter, by the set held after the i-th of them (`LockSlotsRuns`).
The handlers run from nothing to `ForkHeld(call)` and from there to nothing, in the parent and in
the child (`BeforeForkRuns`, `AfterForkRuns`).  `ForkInv` is then that what each thread has left
to do runs from what it holds to nothing.  It gives the first theorem at once; for the second,
at the moment of the fork, the others hold nothing of `ForkHeld`, and nothing that is only
taken under it (`Needs`).

For the third, `Effect` allows an act only in the order of `Rank`, the slots by their indices,
apart from the allocator and fallback mutexes, which are taken in both orders, one under the
mutex of LSan and the other under `global_proc`.  In a set of threads that wait for each other
ranks never fall; a finite set is permuted by "waits for", so none rises (`NoRiseInCircle`, by
counting), and all wait for one of those two mutexes.  A thread
before fork would hold both of the mutexes above them, and the thread it waits for one of them.

### XsanHeap

For any set of threads and of blocks, any number of granules and of frees of one chunk, with no
hypothesis beyond the guard of `Invalidate` (section 2): `ChunksReady`, `NeverInTwoPlaces`, `QuarantineGuarded`, `FreesReported` and `ChecksHold`,
all five properties of the run `heap`.

The variables do not say where a block is that a call holds: it is in no place, and only the
steps that the call has left mention it.  The inductive invariant `HeapInv` is therefore existential:
there are a phase for each block, a holder for those that a call holds or a cache
contains, and for each thread the chunk it is still to free (`doom`), such that

* `Plan`: what a thread has left to do is one of nine shapes, and it holds just the blocks these
  steps are about, in the phases they start from;
* `At`: a block is in the place of its phase and in no other;
* `Fits`: its shadow (`ShadowFits`), its state and metadata (`HeaderFits`), and the number of calls that
  freed it, reported it, or are still to do either (`CountsFit`) are those of its phase.

`CountsFit` carries the double free: a chunk that no call has won (`"freed"`) has not been
reported, and is still to be freed by two calls if it was freed twice; after the exchange one of them
has it, and those left have someone to lose to.  This rests on `Invalidate`: a chunk is recycled
only when no call is about to free it.

Each action is reduced to what it moves: `BlockStep` if one block changes its phase, `MoveStep` for
the sets that `Transfer` and `Extract` move, `QuietStep` if only the thread's steps change.  Each
leaves the obligations for the block, the set, or the thread alone, since no other thread holds any of it.

### Only model-checked

* The liveness properties, `PassTerminates` and `OperationsReturn`, and with them fairness and
  `ENABLED`: the prover has neither.
* `InterceptorsRecovered`, `NoRaceMissed` and `NotRecurringPastCalls` are false, and TLC shows it; so is `NoCheckFails` of
  `XsanPthread` without its hypothesis that no failed join is repeated.

Every other property of the runs is a theorem.

## 5. Not modelled

* Vector clocks beyond "covers the history of", shadow memory of races, race reports, names
  and stacks of threads, the text of reports: the properties do not tell them apart.
* The start of the runtime (`XsanInitFromRtl`): some thirty steps of the sub-sanitizers
  before `main`, with flags that every interceptor reads through macros of several files.
* The wrappers of atexit callbacks beyond their mutex, which `XsanFork` has.
* Fibers, which share the counters of threads but have no joiner; the signal queue.
* MSan's shadow, ASan's fake stack; of the heap, size classes, alignment, lookup of chunks by
  address, out of memory.  TSan's descriptors other than files (`FdOnFork`, sockets, pipes).
* The walk of the stack analysis over derived addresses, with the calls it takes for accesses
  (`TsanMopAnalysis.cpp:165-190`) and the accesses it lists twice, and the types of arguments by
  which it recognises calls that may spawn or join.  LLVM's reachability query gives up after a
  number of blocks and then answers that there is a way; the model's is exact, so that large
  functions may have more accesses instrumented than it says, never fewer.
* Compiler wrappers and the order of the compositor's passes, `MopIR` (which no pass runs yet):
  sequential rewritings of text or IR without state between calls.
* The rest of compiler-rt, which is most of the repository's code: vendored, and modelled only
  where XSan's own code depends on it.

## 6. Plan

Modelled so far is what XSan adds to compiler-rt where threads, processes or repeated visits of a
graph interleave.  What could follow:

1. `XsanInit`: recursive and concurrent start-up, with the flag that is published early;
   `AtExit`: the callback stack beside libc's.
2. Fibers in `MainThreadTsan`, with the proofs that depend on its counters.
3. Proofs: `OperationsReturn` in the way of `PassProgress`, a measure that the steps of an
   operation lower.
