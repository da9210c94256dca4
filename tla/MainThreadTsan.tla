--------------------------- MODULE MainThreadTsan ---------------------------
(***************************************************************************)
(* XSan switches ThreadSanitizer off while the program is single-threaded  *)
(* (flag tsan_ignore_single_thread).  The main thread is deactivated when  *)
(* it starts, reactivated by its next ThreadCreate, and deactivated again  *)
(* by the ThreadJoin that brings num_unjoined_threads back to one.  While  *)
(* MainThreadTsanDisabled is set, every instrumented access of every       *)
(* thread returns at once (TSAN_CHECK_GUARD), so the flag may be set only  *)
(* while no other thread exists and the main thread has acquired the       *)
(* vector clock of every thread that ever ran.                             *)
(*                                                                         *)
(* The module models thread creation, start, finish, join, tryjoin and     *)
(* detach of TSan (tsan_rtl_thread.cpp), the activation functions          *)
(* (tsan_rtl_extra.cpp), and what disturbs them: signal handlers, which    *)
(* save and clear the ignore counters, and longjmp out of a handler, which *)
(* skips the code that would put them back (tsan_interceptors.cpp).        *)
(*                                                                         *)
(* A vector clock is abstracted to the set of threads whose complete       *)
(* history it covers; a null clock is the empty set.                       *)
(***************************************************************************)
EXTENDS Integers, Sequences, FiniteSets

CONSTANTS
  Main,                      \* the main thread, tid kMainTid
  Threads,                   \* the other threads, each created at most once
  None,                      \* no thread
  tsan_ignore_single_thread, \* XSan flag: switch TSan off when single-threaded
  tsan_ignore_runtime,       \* XSan flag: switch TSan off for good
  HandlerCallsPthread,       \* signal handlers may call pthread_create, join..
  MainCallsPthreadExit,      \* main() may end in pthread_exit
  ProgramLongjmps,           \* a handler may leave by (sig)longjmp
  LongjmpRestoresStale,      \* ... though its annotations changed, see below
  MaxUserIgnores,            \* bound on nested __tsan_ignore_thread_begin
  MaxAnnotators,             \* bound on the threads inside one at a time
  MaxSigDepth                \* bound on nested signal handlers

ASSUME MainThreadTsanAssumption ==
  /\ IsFiniteSet(Threads)
  /\ Main \notin Threads
  /\ None \notin Threads \cup {Main}
  /\ {tsan_ignore_single_thread, tsan_ignore_runtime, HandlerCallsPthread,
      MainCallsPthreadExit, ProgramLongjmps, LongjmpRestoresStale}
       \subseteq BOOLEAN
  /\ {MaxUserIgnores, MaxAnnotators} \subseteq Nat
  /\ MaxSigDepth \in Nat

AllThreads == Threads \cup {Main}

VARIABLES
  status,                 \* progress of each non-main thread, see Statuses
  detached,               \* tctx->detached
  claimed,                \* the pthread_t was consumed by a join or a detach
  sync,                   \* tctx->sync, the clock handed over at create/finish
  clock,                  \* thr->clock
  ignores,                \* thr->ignore_reads_and_writes, ignore_sync, IgnoreBit
  user_ignores,           \* open __tsan_ignore_thread_begin of each thread
  op,                     \* where each thread is inside a thread operation
  target,                 \* the thread that operation is about
  num_alive_threads,      \* ctx->num_alive_threads
  num_unjoined_threads,   \* ctx->num_unjoined_threads
  MainThreadTsanDisabled, \* the global of that name
  main_thread_state,      \* the ignore counters saved by StoreCurrentTsanState
  in_signal_handler,      \* thr->in_signal_handler of the main thread
  frames,                 \* active CallUserSignalHandler frames of main
  jmp_buf,                \* the JmpBuf last stored by SetJmp on main
  died,                   \* the thread ReportIgnoresEnabled died for
  check_failed,           \* a CHECK failed
  exited                  \* "no", "pthread_exit" (main only), "exit" (process)

thread_vars == <<status, detached, claimed, sync, clock>>
counter_vars == <<num_alive_threads, num_unjoined_threads>>
op_vars == <<op, target>>
main_vars == <<MainThreadTsanDisabled, main_thread_state>>
signal_vars == <<in_signal_handler, frames, jmp_buf>>
end_vars == <<died, check_failed, exited>>
vars == <<thread_vars, counter_vars, op_vars, main_vars, signal_vars, end_vars,
          ignores, user_ignores>>

-----------------------------------------------------------------------------
(* none -> creating (counted, no context yet) -> created -> running ->     *)
(* exiting (ThreadFinish entered) -> released (final clock stored) ->      *)
(* finished | dead (detached) ; finished -> joined (JoinThread done) ->    *)
(* reaped (no longer counted as unjoined), or finished -> dead (detached). *)
Statuses == {"none", "creating", "created", "running", "exiting", "released",
             "finished", "joined", "reaped", "dead"}

Ops == {"idle", "activate", "register", "wait_start", "joining", "join",
        "discount", "deactivate"}

Ignores == [rw : Nat, sync : Nat, bit : BOOLEAN]
NoIgnores == [rw |-> 0, sync |-> 0, bit |-> FALSE]

\* support_single_thread_optimization: the flag is set and thr is the main one.
SupportSingleThreadOptimization(p) == tsan_ignore_single_thread /\ p = Main

ThreadIgnoreBegin(s) == [rw |-> s.rw + 1, sync |-> s.sync, bit |-> TRUE]
ThreadIgnoreEnd(s) ==
  IF s.rw = 1 THEN [rw |-> 0, sync |-> s.sync, bit |-> FALSE]
              ELSE [s EXCEPT !.rw = @ - 1]
DisableTsan(s) == ThreadIgnoreBegin([s EXCEPT !.sync = @ + 1])
EnableTsan(s) == [ThreadIgnoreEnd(s) EXCEPT !.sync = @ - 1]

\* is_now_all_joined: only the main thread is counted.
IsNowAllJoined_OffByOne == num_unjoined_threads <= 2
IsNowAllJoined_Never == num_unjoined_threads < 1
IsNowAllJoined == num_unjoined_threads <= 1

\* The CHECK_GT of ThreadIgnoreEnd and of ThreadIgnoreSyncEnd.
EndChecks(s) == s.rw > 0 /\ s.sync > 0

\* StoreCurrentTsanState keeps the counters of s.
StoreCurrentTsanState(s) == [rw |-> s.rw, sync |-> s.sync]

\* RestoreTsanState writes the two counters back.
RestoreTsanState(s) ==
  [rw |-> main_thread_state.rw, sync |-> main_thread_state.sync, bit |-> s.bit]

\* ThreadCheckIgnore: does thread p die for leaving with ignores s enabled?
ThreadCheckIgnore(s) == ~tsan_ignore_runtime /\ (s.rw > 0 \/ s.sync > 0)

ProcessRuns == died = None /\ ~check_failed /\ exited # "exit"

\* p executes user code: it may start a thread operation.
InUserCode(p) ==
  /\ ProcessRuns
  /\ op[p] = "idle"
  /\ IF p = Main THEN exited = "no" ELSE status[p] = "running"

MayCallPthread(p) ==
  InUserCode(p) /\ (p # Main \/ frames = <<>> \/ HandlerCallsPthread)

Goto(p, o, t) == op' = [op EXCEPT ![p] = o] /\ target' = [target EXCEPT ![p] = t]

-----------------------------------------------------------------------------
\* Effect of DisableMainThreadTsan on the main thread's state.
DisableMainThreadTsan_StoresTooEarly ==
  IF in_signal_handler # 0 \/ MainThreadTsanDisabled
  THEN UNCHANGED <<main_vars, ignores>>
  ELSE /\ MainThreadTsanDisabled' = TRUE
       /\ ignores' = [ignores EXCEPT ![Main] = DisableTsan(@)]
       /\ main_thread_state' = StoreCurrentTsanState(ignores[Main])

DisableMainThreadTsan ==
  IF in_signal_handler # 0 \/ MainThreadTsanDisabled
  THEN UNCHANGED <<main_vars, ignores>>
  ELSE /\ MainThreadTsanDisabled' = TRUE
       /\ ignores' = [ignores EXCEPT ![Main] = DisableTsan(@)]
       /\ main_thread_state' = StoreCurrentTsanState(DisableTsan(ignores[Main]))

\* Effect of EnableMainThreadTsan; a CHECK fails when an ignore was lost.
EnableMainThreadTsan ==
  IF in_signal_handler # 0 \/ ~MainThreadTsanDisabled
  THEN UNCHANGED <<main_vars, ignores, check_failed>>
  ELSE /\ MainThreadTsanDisabled' = FALSE
       /\ IF EndChecks(ignores[Main])
          THEN /\ ignores' = [ignores EXCEPT ![Main] = EnableTsan(@)]
               /\ main_thread_state' =
                    StoreCurrentTsanState(EnableTsan(ignores[Main]))
               /\ UNCHANGED check_failed
          ELSE /\ check_failed' = TRUE
               /\ UNCHANGED <<ignores, main_thread_state>>

\* Effect of EnableMainThreadTsan where ThreadCreate and ThreadFinalize call it.
MaybeEnableMainThreadTsan(p) ==
  IF SupportSingleThreadOptimization(p) /\ ~tsan_ignore_runtime
  THEN EnableMainThreadTsan
  ELSE UNCHANGED <<main_vars, ignores, check_failed>>

-----------------------------------------------------------------------------
(* ThreadCreate(thr = p) of thread t.                                      *)

\* The two counters are incremented before anything else.
ThreadCreate(p, t, det) ==
  /\ MayCallPthread(p)
  /\ status[t] = "none"
  /\ num_alive_threads' = num_alive_threads + 1
  /\ num_unjoined_threads' = num_unjoined_threads + 1
  /\ status' = [status EXCEPT ![t] = "creating"]
  /\ detached' = [detached EXCEPT ![t] = det]
  /\ Goto(p, "activate", t)
  /\ UNCHANGED <<claimed, sync, clock, main_vars, signal_vars, end_vars,
                 ignores, user_ignores>>

\* TSan is switched on before the parent's clock is released into arg.sync.
ThreadCreateActivate_ReleasesFirst(p) ==
  /\ ProcessRuns
  /\ op[p] = "activate"
  /\ sync' = [sync EXCEPT ![target[p]] =
                IF ignores[p].sync = 0 THEN clock[p] ELSE {}]
  /\ MaybeEnableMainThreadTsan(p)
  /\ Goto(p, "register", target[p])
  /\ UNCHANGED <<status, detached, claimed, clock, counter_vars, signal_vars,
                 died, exited, user_ignores>>

ThreadCreateActivate(p) ==
  /\ ProcessRuns
  /\ op[p] = "activate"
  /\ MaybeEnableMainThreadTsan(p)
  /\ sync' = [sync EXCEPT ![target[p]] =
                IF ignores'[p].sync = 0 THEN clock[p] ELSE {}]
  /\ Goto(p, "register", target[p])
  /\ UNCHANGED <<status, detached, claimed, clock, counter_vars, signal_vars,
                 died, exited, user_ignores>>

\* thread_registry.CreateThread, then the parent posts `created` and waits.
ThreadCreateRegister(p) ==
  /\ ProcessRuns
  /\ op[p] = "register"
  /\ status' = [status EXCEPT ![target[p]] = "created"]
  /\ Goto(p, "wait_start", target[p])
  /\ UNCHANGED <<detached, claimed, sync, clock, counter_vars, main_vars,
                 signal_vars, end_vars, ignores, user_ignores>>

\* pthread_create returns once the child has run ThreadStart.
PthreadCreateReturn(p) ==
  /\ ProcessRuns
  /\ op[p] = "wait_start"
  /\ status[target[p]] # "created"
  /\ Goto(p, "idle", None)
  /\ UNCHANGED <<thread_vars, counter_vars, main_vars, signal_vars, end_vars,
                 ignores, user_ignores>>

\* ThreadStart in the child: acquire the parent's clock, free it; a thread
\* started under tsan_ignore_runtime is switched off.
ThreadStart(t) ==
  /\ ProcessRuns
  /\ status[t] = "created"
  /\ status' = [status EXCEPT ![t] = "running"]
  /\ clock' = [clock EXCEPT ![t] =
                 IF ignores[t].sync = 0 THEN @ \cup sync[t] ELSE @]
  /\ sync' = [sync EXCEPT ![t] = {}]
  /\ ignores' = [ignores EXCEPT ![t] =
                   IF tsan_ignore_runtime THEN DisableTsan(@) ELSE @]
  /\ UNCHANGED <<detached, claimed, counter_vars, op_vars, main_vars,
                 signal_vars, end_vars, user_ignores>>

-----------------------------------------------------------------------------
(* ThreadFinish of thread t, in three steps: the registry lock is taken    *)
(* twice and another thread may detach t in between.                       *)

ThreadFinish(t) ==
  /\ InUserCode(t)
  /\ num_alive_threads' = num_alive_threads - 1
  /\ IF ThreadCheckIgnore(ignores[t])
     THEN died' = t /\ UNCHANGED status
     ELSE status' = [status EXCEPT ![t] = "exiting"] /\ UNCHANGED died
  /\ UNCHANGED <<detached, claimed, sync, clock, num_unjoined_threads, op_vars,
                 main_vars, signal_vars, check_failed, exited, ignores,
                 user_ignores>>

ThreadFinishRelease(t) ==
  /\ ProcessRuns
  /\ status[t] = "exiting"
  /\ status' = [status EXCEPT ![t] = "released"]
  /\ sync' = [sync EXCEPT ![t] =
                IF ignores[t].sync = 0 /\ ~detached[t]
                THEN clock[t] \cup {t} ELSE @]
  /\ UNCHANGED <<detached, claimed, clock, counter_vars, op_vars, main_vars,
                 signal_vars, end_vars, ignores, user_ignores>>

\* thread_registry.FinishThread.
ThreadFinishRegistry(t) ==
  /\ ProcessRuns
  /\ status[t] = "released"
  /\ status' = [status EXCEPT ![t] = IF detached[t] THEN "dead" ELSE "finished"]
  /\ UNCHANGED <<detached, claimed, sync, clock, counter_vars, op_vars,
                 main_vars, signal_vars, end_vars, ignores, user_ignores>>

-----------------------------------------------------------------------------
(* pthread_join, pthread_tryjoin_np, pthread_timedjoin_np, pthread_detach. *)

Joinable(t) ==
  /\ status[t] \in {"running", "exiting", "released", "finished"}
  /\ ~detached[t]
  /\ ~claimed[t]

\* ScopedPthreadJoin / ScopedPthreadTryJoin constructor: the pthread_t is
\* consumed and accesses are ignored while the real join blocks.
JoinBegin(p, t) ==
  /\ MayCallPthread(p)
  /\ p # t
  /\ Joinable(t)
  /\ claimed' = [claimed EXCEPT ![t] = TRUE]
  /\ ignores' = [ignores EXCEPT ![p] = ThreadIgnoreBegin(@)]
  /\ Goto(p, "joining", t)
  /\ UNCHANGED <<status, detached, sync, clock, counter_vars, main_vars,
                 signal_vars, end_vars, user_ignores>>

\* The real tryjoin or timedjoin reports that t still runs: ThreadNotJoined.
JoinNotReady(p) ==
  /\ ProcessRuns
  /\ op[p] = "joining"
  /\ claimed' = [claimed EXCEPT ![target[p]] = FALSE]
  /\ ignores' = [ignores EXCEPT ![p] = ThreadIgnoreEnd(@)]
  /\ Goto(p, "idle", None)
  /\ UNCHANGED <<status, detached, sync, clock, counter_vars, main_vars,
                 signal_vars, end_vars, user_ignores>>

\* The real join succeeded; the destructor ends the ignore and joins.
JoinReturn(p) ==
  /\ ProcessRuns
  /\ op[p] = "joining"
  /\ status[target[p]] = "finished"
  /\ ignores' = [ignores EXCEPT ![p] = ThreadIgnoreEnd(@)]
  /\ Goto(p, "join", target[p])
  /\ UNCHANGED <<thread_vars, counter_vars, main_vars, signal_vars, end_vars,
                 user_ignores>>

\* The clock of p after acquiring c.
Acquire_Dropped(p, c) == clock[p]
Acquire(p, c) == IF ignores[p].sync = 0 THEN clock[p] \cup c ELSE clock[p]

\* ThreadJoin: thread_registry.JoinThread hands over the clock (OnJoined),
\* which the joiner acquires unless it ignores synchronisation.
ThreadJoin(p) ==
  /\ ProcessRuns
  /\ op[p] = "join"
  /\ status' = [status EXCEPT ![target[p]] = "joined"]
  /\ clock' = [clock EXCEPT ![p] = Acquire(p, sync[target[p]])]
  /\ sync' = [sync EXCEPT ![target[p]] = {}]
  /\ Goto(p, "discount", target[p])
  /\ UNCHANGED <<detached, claimed, counter_vars, main_vars, signal_vars,
                 end_vars, ignores, user_ignores>>

ThreadJoinDiscount(p) ==
  /\ ProcessRuns
  /\ op[p] = "discount"
  /\ num_unjoined_threads' = num_unjoined_threads - 1
  /\ status' = [status EXCEPT ![target[p]] = "reaped"]
  /\ Goto(p, "deactivate", None)
  /\ UNCHANGED <<detached, claimed, sync, clock, num_alive_threads, main_vars,
                 signal_vars, end_vars, ignores, user_ignores>>

\* is_now_all_joined: the counter is read again, it may have changed.
ThreadJoinDeactivate(p) ==
  /\ ProcessRuns
  /\ op[p] = "deactivate"
  /\ IF SupportSingleThreadOptimization(p) /\ IsNowAllJoined
     THEN DisableMainThreadTsan
     ELSE UNCHANGED <<main_vars, ignores>>
  /\ Goto(p, "idle", None)
  /\ UNCHANGED <<thread_vars, counter_vars, signal_vars, end_vars, user_ignores>>

\* ThreadDetach: OnDetached frees the clock; num_unjoined_threads is kept.
ThreadDetach_Discounts(p, t) ==
  /\ MayCallPthread(p)
  /\ Joinable(t)
  /\ claimed' = [claimed EXCEPT ![t] = TRUE]
  /\ sync' = [sync EXCEPT ![t] = {}]
  /\ num_unjoined_threads' = num_unjoined_threads - 1
  /\ IF status[t] = "finished"
     THEN status' = [status EXCEPT ![t] = "dead"] /\ UNCHANGED detached
     ELSE detached' = [detached EXCEPT ![t] = TRUE] /\ UNCHANGED status
  /\ UNCHANGED <<clock, num_alive_threads, op_vars, main_vars, signal_vars,
                 end_vars, ignores, user_ignores>>

ThreadDetach(p, t) ==
  /\ MayCallPthread(p)
  /\ Joinable(t)
  /\ claimed' = [claimed EXCEPT ![t] = TRUE]
  /\ sync' = [sync EXCEPT ![t] = {}]
  /\ IF status[t] = "finished"
     THEN status' = [status EXCEPT ![t] = "dead"] /\ UNCHANGED detached
     ELSE detached' = [detached EXCEPT ![t] = TRUE] /\ UNCHANGED status
  /\ UNCHANGED <<clock, counter_vars, op_vars, main_vars, signal_vars, end_vars,
                 ignores, user_ignores>>

-----------------------------------------------------------------------------
(* Annotations of the program: __tsan_ignore_thread_begin / _end.          *)

AnnotateIgnoreBegin(p) ==
  /\ InUserCode(p)
  /\ p # Main \/ frames = <<>>
  /\ user_ignores[p] < MaxUserIgnores
  /\ Cardinality({q \in AllThreads : user_ignores[q] > 0} \cup {p}) <= MaxAnnotators
  /\ user_ignores' = [user_ignores EXCEPT ![p] = @ + 1]
  /\ ignores' = [ignores EXCEPT ![p] = ThreadIgnoreBegin(@)]
  /\ UNCHANGED <<thread_vars, counter_vars, op_vars, main_vars, signal_vars,
                 end_vars>>

AnnotateIgnoreEnd(p) ==
  /\ InUserCode(p)
  /\ p # Main \/ frames = <<>>
  /\ user_ignores[p] > 0
  /\ user_ignores' = [user_ignores EXCEPT ![p] = @ - 1]
  /\ IF ignores[p].rw > 0
     THEN /\ ignores' = [ignores EXCEPT ![p] = ThreadIgnoreEnd(@)]
          /\ UNCHANGED check_failed
     ELSE check_failed' = TRUE /\ UNCHANGED ignores
  /\ UNCHANGED <<thread_vars, counter_vars, op_vars, main_vars, signal_vars,
                 died, exited>>

-----------------------------------------------------------------------------
(* Signals on the main thread.  A handler of another thread saves and      *)
(* restores that thread's counters and never touches the flag.             *)

\* sighandler / ProcessPendingSignalsImpl enter CallUserSignalHandler, which
\* saves the ignores and clears them for the handler.
SignalEnter ==
  /\ ProcessRuns
  /\ exited = "no"
  /\ op[Main] \in {"idle", "joining"}
  /\ Len(frames) < MaxSigDepth
  /\ in_signal_handler' = in_signal_handler + 1
  /\ frames' = Append(frames, [rw |-> ignores[Main].rw,
                               sync |-> ignores[Main].sync,
                               op |-> op[Main], target |-> target[Main]])
  /\ ignores' = [ignores EXCEPT ![Main] = NoIgnores]
  /\ Goto(Main, "idle", None)
  /\ UNCHANGED <<thread_vars, counter_vars, main_vars, jmp_buf, end_vars,
                 user_ignores>>

NoJmpBuf == [depth |-> -1, in_signal_handler |-> 0]

\* The handler returns and CallUserSignalHandler puts the ignores back.
SignalReturn ==
  LET f == frames[Len(frames)] IN
  /\ ProcessRuns
  /\ exited = "no"
  /\ frames # <<>>
  /\ op[Main] = "idle"
  /\ in_signal_handler' = in_signal_handler - 1
  /\ frames' = SubSeq(frames, 1, Len(frames) - 1)
  /\ ignores' = [ignores EXCEPT ![Main] =
                   [rw |-> f.rw, sync |-> f.sync,
                    bit |-> (f.rw > 0) \/ @.bit]]
  /\ Goto(Main, f.op, f.target)
  /\ jmp_buf' = IF jmp_buf.depth = Len(frames) THEN NoJmpBuf ELSE jmp_buf
  /\ UNCHANGED <<thread_vars, counter_vars, main_vars, end_vars, user_ignores>>

\* SetJmp remembers in_signal_handler (and the stack it was called on).
SetJmp ==
  /\ ProgramLongjmps
  /\ InUserCode(Main)
  /\ jmp_buf' = [depth |-> Len(frames), in_signal_handler |-> in_signal_handler]
  /\ UNCHANGED <<thread_vars, counter_vars, op_vars, main_vars,
                 in_signal_handler, frames, end_vars, ignores, user_ignores>>

\* The annotations open now are as many as at the last switch of TSan, when
\* main_thread_state was stored.
StateIsCurrent ==
  main_thread_state.rw =
    user_ignores[Main] + (IF MainThreadTsanDisabled THEN 1 ELSE 0)

\* LongJmp from a handler; the frames it leaves never restore their ignores,
\* so RestoreTsanState does it from main_thread_state.
LongJmp_NoRestore ==
  /\ InUserCode(Main)
  /\ frames # <<>>
  /\ jmp_buf.depth >= 0
  /\ StateIsCurrent \/ LongjmpRestoresStale
  /\ in_signal_handler' = jmp_buf.in_signal_handler
  /\ frames' = SubSeq(frames, 1, jmp_buf.depth)
  /\ UNCHANGED <<thread_vars, counter_vars, op_vars, main_vars, jmp_buf,
                 end_vars, ignores, user_ignores>>

LongJmp ==
  /\ InUserCode(Main)
  /\ frames # <<>>
  /\ jmp_buf.depth >= 0
  /\ StateIsCurrent \/ LongjmpRestoresStale
  /\ ignores' = [ignores EXCEPT ![Main] =
                   IF /\ in_signal_handler # 0
                      /\ SupportSingleThreadOptimization(Main)
                      /\ ~tsan_ignore_runtime
                   THEN RestoreTsanState(@) ELSE @]
  /\ in_signal_handler' = jmp_buf.in_signal_handler
  /\ frames' = SubSeq(frames, 1, jmp_buf.depth)
  /\ UNCHANGED <<thread_vars, counter_vars, op_vars, main_vars, jmp_buf,
                 end_vars, user_ignores>>

-----------------------------------------------------------------------------
\* exit(): finalize -> Finalize -> ThreadFinalize on the calling thread.
ThreadFinalize_StaysDisabled(p) ==
  /\ InUserCode(p)
  /\ died' = IF ThreadCheckIgnore(ignores[p]) THEN p ELSE died
  /\ exited' = "exit"
  /\ UNCHANGED <<thread_vars, counter_vars, op_vars, main_vars, signal_vars,
                 check_failed, ignores, user_ignores>>

ThreadFinalize(p) ==
  /\ InUserCode(p)
  /\ MaybeEnableMainThreadTsan(p)
  /\ died' = IF ~check_failed' /\ ThreadCheckIgnore(ignores'[p]) THEN p ELSE died
  /\ exited' = "exit"
  /\ UNCHANGED <<thread_vars, counter_vars, op_vars, signal_vars, user_ignores>>

\* pthread_exit from main(): the thread-specific destructor runs
\* DestroyThreadState and so ThreadFinish on the main thread.
MainThreadFinish ==
  /\ MainCallsPthreadExit
  /\ InUserCode(Main)
  /\ frames = <<>>
  /\ num_alive_threads' = num_alive_threads - 1
  /\ died' = IF ThreadCheckIgnore(ignores[Main]) THEN Main ELSE died
  /\ exited' = "pthread_exit"
  /\ UNCHANGED <<thread_vars, num_unjoined_threads, op_vars, main_vars,
                 signal_vars, check_failed, ignores, user_ignores>>

\* Nothing more happens in a process that ended, or whose last thread left.
Terminated ==
  /\ \/ ~ProcessRuns
     \/ /\ exited = "pthread_exit"
        /\ \A t \in Threads :
             status[t] \in {"none", "finished", "reaped", "dead"}
  /\ UNCHANGED vars

-----------------------------------------------------------------------------
\* The state after the main thread's own ThreadCreate(nullptr) and ThreadStart.
Init ==
  /\ status = [t \in Threads |-> "none"]
  /\ detached = [t \in Threads |-> FALSE]
  /\ claimed = [t \in Threads |-> FALSE]
  /\ sync = [t \in Threads |-> {}]
  /\ clock = [p \in AllThreads |-> {}]
  /\ ignores = [p \in AllThreads |->
                  IF p = Main /\ (tsan_ignore_single_thread \/ tsan_ignore_runtime)
                  THEN DisableTsan(NoIgnores) ELSE NoIgnores]
  /\ user_ignores = [p \in AllThreads |-> 0]
  /\ op = [p \in AllThreads |-> "idle"]
  /\ target = [p \in AllThreads |-> None]
  /\ num_alive_threads = 1
  /\ num_unjoined_threads = 1
  /\ MainThreadTsanDisabled = tsan_ignore_single_thread
  /\ main_thread_state = IF tsan_ignore_single_thread
                         THEN StoreCurrentTsanState(DisableTsan(NoIgnores))
                         ELSE [rw |-> 0, sync |-> 0]
  /\ in_signal_handler = 0
  /\ frames = <<>>
  /\ jmp_buf = NoJmpBuf
  /\ died = None
  /\ check_failed = FALSE
  /\ exited = "no"

CreateStep(p) ==
  \/ \E t \in Threads, det \in BOOLEAN : ThreadCreate(p, t, det)
  \/ ThreadCreateActivate(p)
  \/ ThreadCreateRegister(p)
  \/ PthreadCreateReturn(p)

JoinStep(p) ==
  \/ \E t \in Threads : JoinBegin(p, t)
  \/ JoinNotReady(p)
  \/ JoinReturn(p)
  \/ ThreadJoin(p)
  \/ ThreadJoinDiscount(p)
  \/ ThreadJoinDeactivate(p)
  \/ \E t \in Threads : ThreadDetach(p, t)

ChildStep(t) ==
  \/ ThreadStart(t)
  \/ ThreadFinish(t)
  \/ ThreadFinishRelease(t)
  \/ ThreadFinishRegistry(t)

SignalStep ==
  \/ SignalEnter
  \/ SignalReturn
  \/ SetJmp
  \/ LongJmp

Next ==
  \/ \E p \in AllThreads :
       \/ CreateStep(p)
       \/ JoinStep(p)
       \/ AnnotateIgnoreBegin(p)
       \/ AnnotateIgnoreEnd(p)
       \/ ThreadFinalize(p)
  \/ \E t \in Threads : ChildStep(t)
  \/ SignalStep
  \/ MainThreadFinish
  \/ Terminated

Spec == Init /\ [][Next]_vars

-----------------------------------------------------------------------------
(* Properties                                                              *)

ThreadTypeOK ==
  /\ status \in [Threads -> Statuses]
  /\ detached \in [Threads -> BOOLEAN]
  /\ claimed \in [Threads -> BOOLEAN]
  /\ sync \in [Threads -> SUBSET Threads]
  /\ clock \in [AllThreads -> SUBSET Threads]

CounterTypeOK == num_alive_threads \in Int /\ num_unjoined_threads \in Int

OpTypeOK ==
  /\ op \in [AllThreads -> Ops]
  /\ target \in [AllThreads -> Threads \cup {None}]

IgnoreTypeOK ==
  /\ ignores \in [AllThreads -> Ignores]
  /\ user_ignores \in [AllThreads -> Nat]
  /\ MainThreadTsanDisabled \in BOOLEAN
  /\ main_thread_state \in [rw : Nat, sync : Nat]
  /\ check_failed \in BOOLEAN

Frames == [rw : Nat, sync : Nat, op : Ops, target : Threads \cup {None}]

SignalTypeOK ==
  /\ in_signal_handler \in Int
  /\ frames \in Seq(Frames)
  /\ jmp_buf \in [depth : Int, in_signal_handler : Int]

EndTypeOK ==
  /\ died \in AllThreads \cup {None}
  /\ exited \in {"no", "pthread_exit", "exit"}

\* The type invariant: every variable keeps the shape the declarations give.
TypeOK ==
  /\ ThreadTypeOK
  /\ CounterTypeOK
  /\ OpTypeOK
  /\ IgnoreTypeOK
  /\ SignalTypeOK
  /\ EndTypeOK

\* t holds a thread context that is alive or whose clock nobody joined yet.
Live(t) ==
  status[t] \in {"created", "running", "exiting", "released", "finished", "dead"}

\* "Disable TSan if only main thread is alive" (tsan_rtl_thread.cpp:258): the
\* main thread is never deactivated while another thread is alive or unjoined,
\* however creations, joins, detaches and handlers interleave.
DisabledImpliesAlone ==
  (MainThreadTsanDisabled /\ ~tsan_ignore_runtime) =>
    \A t \in Threads : ~Live(t)

\* Switching the checks off loses no race: when the main thread is deactivated
\* its clock covers the whole history of every thread that was ever joined, by
\* it or by threads it joined in turn.
DisabledKnowsHistory ==
  (MainThreadTsanDisabled /\ ~tsan_ignore_runtime) =>
    \A t \in Threads : status[t] = "reaped" => t \in clock[Main]

\* A new thread inherits its creator's history even when the creation is what
\* reactivates TSan: EnableMainThreadTsan precedes the release of the clock.
CreationHandsOverClock ==
  [][\A p \in AllThreads :
       (op[p] = "register" /\ op'[p] = "wait_start" /\ ~tsan_ignore_runtime) =>
         clock[p] \subseteq sync[target[p]]]_vars

\* Between operations and outside handlers, the ignore counters of the main
\* thread are what the program asked for plus one for a deactivated TSan.
IgnoresBalance ==
  (ProcessRuns /\ exited = "no" /\ op[Main] = "idle" /\ frames = <<>>
     /\ ~tsan_ignore_runtime) =>
    LET off == IF MainThreadTsanDisabled THEN 1 ELSE 0 IN
    /\ ignores[Main].rw = user_ignores[Main] + off
    /\ ignores[Main].sync = off

\* No CHECK_GT of ThreadIgnoreEnd fails: every end has its begin.
NoCheckFailure == ~check_failed

\* A thread dies for "finished with ignores enabled" only when the program
\* left an annotation open (tsan_rtl_thread.cpp:83-85: deactivation is what we
\* expect and not an exceptional situation).  Not claimed of exit() called by a
\* handler that a longjmp stayed in: RestoreTsanState has then put the counters
\* of the interrupted code in force too early.  Nor of pthread_exit() called by
\* main(): ThreadFinish runs before TSan is switched on again.
DeactivationIsNotFatal ==
  (died # None /\ frames = <<>> /\ <<died, exited>> # <<Main, "pthread_exit">>) =>
    user_ignores[died] > 0

\* TSan is switched off again as soon as every thread was joined
\* (tsan_rtl_extra.h:50): no creation or join leaves it on for ever.
AllJoinedDisables ==
  (/\ tsan_ignore_single_thread
   /\ ProcessRuns /\ exited = "no"
   /\ op[Main] = "idle" /\ frames = <<>>
   /\ \A t \in Threads : status[t] \in {"none", "reaped"}) =>
    MainThreadTsanDisabled

\* The unjoined counter is the main thread plus every counted thread, so the
\* relaxed read of is_now_all_joined decides on an exact value.
UnjoinedCounterIsExact ==
  num_unjoined_threads =
    1 + Cardinality({t \in Threads : status[t] \notin {"none", "reaped"}})

-----------------------------------------------------------------------------
(* The inductive invariant behind DisabledImpliesAlone, in named parts.     *)

CreateOps == {"activate", "register", "wait_start"}
JoinOps == {"joining", "join", "discount"}

\* A thread in an operation has a thread it is about; a blocked join, running
\* or interrupted by a handler, holds an ignore of its own.
TargetInv ==
  /\ \A p \in AllThreads :
       /\ op[p] \in CreateOps \cup JoinOps => target[p] \in Threads
       /\ op[p] = "joining" => ignores[p].rw > 0
  /\ \A i \in DOMAIN frames :
       /\ frames[i].op \in {"idle", "joining"}
       /\ frames[i].op = "joining" =>
            frames[i].target \in Threads /\ frames[i].rw > 0

\* What an operation in progress says of the status of the thread it is about.
OpStatusInv ==
  \A p \in AllThreads :
    /\ op[p] \in {"activate", "register"} => status[target[p]] = "creating"
    /\ op[p] \in JoinOps => claimed[target[p]]
    /\ op[p] = "join" => status[target[p]] = "finished"
    /\ op[p] = "discount" => status[target[p]] = "joined"
    /\ (p # Main /\ op[p] # "idle") => status[p] = "running"

FrameInv ==
  \A i \in DOMAIN frames : frames[i].op = "joining" => claimed[frames[i].target]

\* No two operations, and no interrupted join, are about the same thread.
CreatesApart ==
  \A p, q \in AllThreads :
    (/\ op[p] \in {"activate", "register"}
     /\ op[q] \in {"activate", "register"}
     /\ target[p] = target[q]) => p = q

JoinsApart ==
  /\ \A p, q \in AllThreads :
       (op[p] \in JoinOps /\ op[q] \in JoinOps /\ target[p] = target[q]) => p = q
  /\ \A p \in AllThreads, i \in DOMAIN frames :
       (op[p] \in JoinOps /\ frames[i].op = "joining") =>
         target[p] # frames[i].target
  /\ \A i, j \in DOMAIN frames :
       (/\ frames[i].op = "joining"
        /\ frames[j].op = "joining"
        /\ frames[i].target = frames[j].target) => i = j

\* in_signal_handler counts the active handlers, and SetJmp's copy of it those
\* that longjmp keeps.
HandlerCountInv ==
  /\ in_signal_handler = Len(frames)
  /\ jmp_buf.depth <= Len(frames)
  /\ jmp_buf.depth >= 0 => jmp_buf.in_signal_handler = jmp_buf.depth

\* Where handlers do not call pthread functions, an operation of the main
\* thread is never under way inside a handler.
QuietHandlers ==
  ~HandlerCallsPthread =>
    /\ op[Main] # "idle" => frames = <<>>
    /\ \A i \in DOMAIN frames : i > 1 => frames[i].op = "idle"

\* While TSan is off, each other thread is unborn or gone, or the main thread is
\* about to switch TSan on for it.
AloneInv ==
  MainThreadTsanDisabled =>
    /\ tsan_ignore_single_thread
    /\ ~tsan_ignore_runtime =>
         \A t \in Threads :
           \/ status[t] \in {"none", "reaped"}
           \/ status[t] = "creating" /\ op[Main] = "activate" /\ target[Main] = t

-----------------------------------------------------------------------------
(* The inductive invariants behind the other properties.                    *)

\* How many calls of DisableTsan are in force on p.
Disables(p) ==
  IF \/ p = Main /\ (MainThreadTsanDisabled \/ tsan_ignore_runtime)
     \/ /\ p # Main /\ tsan_ignore_runtime
        /\ status[p] \notin {"none", "creating", "created"}
  THEN 1 ELSE 0

\* The counters in s are those of p in operation o.
Balanced(p, s, o) ==
  /\ s.rw = user_ignores[p] + Disables(p) + (IF o = "joining" THEN 1 ELSE 0)
  /\ s.sync = Disables(p)

\* The counters of the main thread are those in force or, while handlers run,
\* those that the first of them has saved; StoreCurrentTsanState has kept the
\* one that annotations do not change.
BalanceInv ==
  /\ \A t \in Threads : Balanced(t, ignores[t], op[t])
  /\ frames = <<>> => Balanced(Main, ignores[Main], op[Main])
  /\ frames # <<>> => Balanced(Main, frames[1], frames[1].op)
  /\ tsan_ignore_single_thread => main_thread_state.sync = Disables(Main)
  /\ MainThreadTsanDisabled => tsan_ignore_single_thread
  /\ tsan_ignore_single_thread /\ tsan_ignore_runtime => MainThreadTsanDisabled
  /\ jmp_buf.depth >= 0 => ProgramLongjmps
  /\ ~check_failed

\* A thread's creator hands over the clock it has, and a finished thread its own.
HandOverInv ==
  /\ \A p \in AllThreads :
       op[p] = "register" /\ ~tsan_ignore_runtime =>
         clock[p] \subseteq sync[target[p]]
  /\ \A t \in Threads :
       /\ status[t] = "finished" => ~detached[t]
       /\ (/\ status[t] \in {"released", "finished"}
           /\ ~detached[t]
           /\ ~tsan_ignore_runtime) => t \in sync[t]

\* u has the history of t for whoever joins u, or cannot be joined.
Passes(u, t) ==
  \/ status[u] \in {"running", "exiting"} /\ t \in clock[u]
  \/ status[u] \in {"released", "finished"} /\ (t \in sync[u] \/ detached[u])
  \/ status[u] = "dead"

\* The history of a joined thread is not lost while TSan may be switched off again.
HistoryInv ==
  ~tsan_ignore_runtime =>
    \A t \in Threads : status[t] \in {"joined", "reaped"} =>
      t \in clock[Main] \/ \E u \in Threads : Passes(u, t)

\* Once every thread is joined the main thread is about to switch TSan off.
AllJoinedInv ==
  tsan_ignore_single_thread /\ (\A t \in Threads : status[t] \in {"none", "reaped"}) =>
    MainThreadTsanDisabled \/ op[Main] = "deactivate" \/ exited = "exit"

=============================================================================
