----------------------------- MODULE XsanPthread -----------------------------
(***************************************************************************)
(* The pthread interceptors of XSan: pthread_create, join, tryjoin, detach *)
(* and exit, the thread wrapper xsan_thread_start and the thread-specific  *)
(* data destructor, with the two components they drive: ThreadArgRetval    *)
(* and TSan's ThreadRegistry.  Between any two of their critical sections  *)
(* other threads run, and libc reuses a pthread_t as soon as its thread    *)
(* was really joined, or has exited detached: which may be before the      *)
(* interceptor that learned of it has told the runtime.                    *)
(*                                                                         *)
(* libc and the kernel (lib, lib_detached) are modelled from how the       *)
(* interceptors use them.                                                  *)
(***************************************************************************)
EXTENDS ThreadRegistry, ThreadArgRetval, FiniteSets

CONSTANTS
  Main,           \* the main thread
  MaxCreates,     \* bound on the threads the program creates
  Cancellable,    \* the threads, by number, that the program may cancel
  MayFork,        \* a thread forks, once; the child is what is modelled then
  RetriesJoin     \* a thread whose join failed (EDEADLK) is joined again

ASSUME XsanPthreadAssumption ==
  /\ Main \notin Handles
  /\ Nobody \notin Handles \cup {Main}
  /\ MaxCreates \in Nat
  /\ Cancellable \subseteq Nat
  /\ {MayFork, RetriesJoin} \subseteq BOOLEAN

VARIABLES
  lib,            \* where the thread with each pthread_t is, see LibStates
  lib_detached,   \* libc's detach state of it
  serial,         \* the number of the thread that has, or last had, it
  tid_,           \* that thread's id: XsanThread's tsan.tid
  creator,        \* the thread whose stack holds that thread's ThreadParam
  joinable,       \* pthread_t values the program may still join or detach
  op,             \* the thread operation each thread is in
  forker,         \* the thread that forked, if one has
  creates         \* the number of threads created so far

lib_vars == <<lib, lib_detached, serial, tid_, creator>>
vars == <<registry_vars, check_failed, arg_vars, args_owner, lib_vars, joinable,
          op, forker, creates>>

Callers == Handles \cup {Main}

\* none -> started (REAL(pthread_create) done) -> got_args -> thread_started
\* -> running (the parent was posted) -> finishing (the routine returned)
\* -> destroyed (the registry was told) -> zombie (exited, joinable) or none.
LibStates == {"none", "started", "got_args", "thread_started", "running",
              "finishing", "destroyed", "zombie"}

Steps == {"idle", "create_locked", "create_thread", "wait_started",
          "before_join", "real_join", "after_join", "join_thread", "not_joined",
          "real_detach", "detach_locked", "detach_thread"}

\* An operation of a thread: the pthread_t it is about, the thread meant by
\* it, and the local variables of the interceptor.
Idle == [step |-> "idle", h |-> NoHandle, serial |-> 0, tid |-> 0, gen |-> 0,
         flag |-> FALSE, created |-> FALSE, started |-> FALSE]

InUserCode(c) ==
  /\ op[c].step = "idle"
  /\ c \in Handles => lib[c] = "running"
  /\ c = Main => forker \in {Nobody, Main}

At(c, step) == ~check_failed /\ op[c].step = step
Goto(c, step) == op' = [op EXCEPT ![c].step = step]
Return(c) == op' = [op EXCEPT ![c] = Idle]

UnchangedRegistry == UNCHANGED <<registry_vars, check_failed>>
UnchangedArgs == UNCHANGED arg_vars

\* h is waiting for c to exit.
WaitsFor(h, c) == op[h].step \in {"before_join", "real_join"} /\ op[h].h = c

-----------------------------------------------------------------------------
(* pthread_create                                                          *)

\* ThreadArgRetval::Create locks and calls REAL(pthread_create).
RealPthreadCreate_NoLock(c, h, det) ==
  /\ ~check_failed /\ InUserCode(c) /\ creates < MaxCreates
  /\ lib[h] = "none"
  /\ Locked
  /\ creates' = creates + 1
  /\ lib' = [lib EXCEPT ![h] = "started"]
  /\ lib_detached' = [lib_detached EXCEPT ![h] = det]
  /\ serial' = [serial EXCEPT ![h] = creates + 1]
  /\ creator' = [creator EXCEPT ![h] = c]
  /\ op' = [op EXCEPT ![c] = [Idle EXCEPT !.step = "create_locked", !.h = h,
                                          !.flag = det, !.serial = creates + 1]]
  /\ UnchangedRegistry /\ UnchangedArgs
  /\ UNCHANGED <<tid_, joinable, forker>>

RealPthreadCreate(c, h, det) ==
  /\ ~check_failed /\ InUserCode(c) /\ creates < MaxCreates
  /\ lib[h] = "none"
  /\ Lock(c)
  /\ creates' = creates + 1
  /\ lib' = [lib EXCEPT ![h] = "started"]
  /\ lib_detached' = [lib_detached EXCEPT ![h] = det]
  /\ serial' = [serial EXCEPT ![h] = creates + 1]
  /\ creator' = [creator EXCEPT ![h] = c]
  /\ op' = [op EXCEPT ![c] = [Idle EXCEPT !.step = "create_locked", !.h = h,
                                          !.flag = det, !.serial = creates + 1]]
  /\ UnchangedRegistry /\ UnchangedArgs
  /\ UNCHANGED <<tid_, joinable, forker>>

PthreadCreateLocked(c) ==
  /\ At(c, "create_locked")
  /\ CreateLocked(op[c].h, op[c].flag, op[c].serial)
  /\ Unlock
  /\ Goto(c, "create_thread")
  /\ UnchangedRegistry
  /\ UNCHANGED <<lib_vars, joinable, forker, creates>>

\* XsanThread::Create and ThreadCreate; then created.Post().
XsanThreadCreate(c) ==
  /\ At(c, "create_thread")
  /\ CreateThread(op[c].h, op[c].flag, op[c].serial)
  /\ tid_' = [tid_ EXCEPT ![op[c].h] = NewTid]
  /\ op' = [op EXCEPT ![c].step = "wait_started", ![c].created = TRUE]
  /\ UnchangedArgs
  /\ UNCHANGED <<args_owner, lib, lib_detached, serial, creator, joinable,
                 forker, creates>>

\* started.Wait() is over: the ThreadParam leaves the stack.
PthreadCreateReturn_NoWait(c) ==
  /\ At(c, "wait_started")
  /\ Return(c)
  /\ UnchangedRegistry /\ UnchangedArgs
  /\ UNCHANGED <<args_owner, lib_vars, joinable, forker, creates>>

PthreadCreateReturn(c) ==
  /\ At(c, "wait_started")
  /\ op[c].started
  /\ Return(c)
  /\ UnchangedRegistry /\ UnchangedArgs
  /\ UNCHANGED <<args_owner, lib_vars, joinable, forker, creates>>

-----------------------------------------------------------------------------
(* xsan_thread_start in the new thread, up to its end.                     *)

ChildAt(h, state) == ~check_failed /\ lib[h] = state
ChildGoto(h, state) ==
  lib' = [lib EXCEPT ![h] = state] /\ UNCHANGED <<lib_detached, serial, creator>>

ThreadGetArgs(h) ==
  /\ ChildAt(h, "started")
  /\ Locked
  /\ IF GetArgsCheck(h)
     THEN ChildGoto(h, "got_args") /\ UNCHANGED check_failed
     ELSE check_failed' = TRUE /\ UNCHANGED <<lib, lib_detached, serial, creator>>
  /\ UnchangedArgs
  /\ UNCHANGED <<registry_vars, tid_, joinable, op, forker, creates>>

\* created.Wait(), then ThreadInit and ThreadStart with *thread_ptr.
ThreadStart(h) ==
  /\ ChildAt(h, "got_args")
  /\ op[creator[h]].created
  /\ StartThread(tid_[h])
  /\ ChildGoto(h, "thread_started")
  /\ UnchangedArgs
  /\ UNCHANGED <<args_owner, tid_, joinable, op, forker, creates>>

\* started.Post(): the routine may now use its own pthread_t.
ThreadPostStarted_NeverPosts(h) ==
  /\ ChildAt(h, "thread_started")
  /\ ChildGoto(h, "running")
  /\ joinable' = IF lib_detached[h] THEN joinable ELSE joinable \cup {h}
  /\ UnchangedRegistry /\ UnchangedArgs
  /\ UNCHANGED <<args_owner, op, tid_, forker, creates>>

ThreadPostStarted(h) ==
  /\ ChildAt(h, "thread_started")
  /\ ChildGoto(h, "running")
  /\ op' = [op EXCEPT ![creator[h]].started = TRUE]
  /\ joinable' = IF lib_detached[h] THEN joinable ELSE joinable \cup {h}
  /\ UnchangedRegistry /\ UnchangedArgs
  /\ UNCHANGED <<args_owner, tid_, forker, creates>>

\* The routine returns, or the thread calls pthread_exit.
ThreadReturn(h) ==
  /\ ChildAt(h, "running")
  /\ InUserCode(h)
  /\ Locked
  /\ Finish(h)
  /\ ChildGoto(h, "finishing")
  /\ UnchangedRegistry
  /\ UNCHANGED <<tid_, joinable, op, forker, creates>>

\* A cancelled thread unwinds without the interceptor.
ThreadCancelled(h) ==
  /\ serial[h] \in Cancellable
  /\ ChildAt(h, "running")
  /\ InUserCode(h)
  /\ ChildGoto(h, "finishing")
  /\ UnchangedRegistry /\ UnchangedArgs
  /\ UNCHANGED <<args_owner, tid_, joinable, op, forker, creates>>

\* The last round of XsanTSDDtor: Destroy, DestroyThreadState, FinishThread.
ThreadDestroy(h) ==
  /\ ChildAt(h, "finishing")
  /\ FinishThread(tid_[h])
  /\ ChildGoto(h, "destroyed")
  /\ UnchangedArgs
  /\ UNCHANGED <<args_owner, tid_, joinable, op, forker, creates>>

\* The kernel ends the thread; libc reuses a detached one's pthread_t.
ThreadExit(h) ==
  /\ ChildAt(h, "destroyed")
  /\ ChildGoto(h, IF lib_detached[h] THEN "none" ELSE "zombie")
  /\ UnchangedRegistry /\ UnchangedArgs
  /\ UNCHANGED <<args_owner, tid_, joinable, op, forker, creates>>

-----------------------------------------------------------------------------
(* pthread_join and pthread_tryjoin_np (try)                               *)

\* Consume the user id of h and go on to step, as the operation of c.
ConsumeTid(c, h, step, try) ==
  /\ ~check_failed /\ InUserCode(c)
  /\ h \in joinable
  /\ joinable' = joinable \ {h}
  /\ ConsumeThreadUserId(h)
  /\ op' = [op EXCEPT ![c] = [Idle EXCEPT !.step = step, !.h = h, !.flag = try,
                                !.serial = serial[h],
                                !.tid = IF check_failed' THEN 0 ELSE live_[h]]]
  /\ UnchangedArgs
  /\ UNCHANGED <<args_owner, lib_vars, forker, creates>>

\* No two threads block on each other; joining oneself is refused by libc.
JoinBegin(c, h, try) ==
  /\ try \/ ~WaitsFor(h, c)
  /\ ConsumeTid(c, h, "before_join", try)

JoinBefore(c) ==
  /\ At(c, "before_join")
  /\ Locked
  /\ IF BeforeJoinCheck(op[c].h)
     THEN /\ op' = [op EXCEPT ![c].step = "real_join",
                              ![c].gen = BeforeJoin(op[c].h)]
          /\ UNCHANGED check_failed
     ELSE check_failed' = TRUE /\ UNCHANGED op
  /\ UnchangedArgs
  /\ UNCHANGED <<registry_vars, lib_vars, joinable, forker, creates>>

\* The real join succeeds; from here the pthread_t may be reused.
RealJoin(c) ==
  /\ At(c, "real_join")
  /\ lib[op[c].h] = "zombie"
  /\ ChildGoto(op[c].h, "none")
  /\ Goto(c, "after_join")
  /\ UnchangedRegistry /\ UnchangedArgs
  /\ UNCHANGED <<args_owner, tid_, joinable, forker, creates>>

JoinAfter(c) ==
  /\ At(c, "after_join")
  /\ Locked
  /\ IF AfterJoinCheck(op[c].h, op[c].gen)
     THEN AfterJoin(op[c].h, op[c].gen) /\ UNCHANGED check_failed
     ELSE check_failed' = TRUE /\ UnchangedArgs
  /\ Goto(c, "join_thread")
  /\ UNCHANGED <<registry_vars, lib_vars, joinable, forker, creates>>

\* The destructor of ScopedPthreadJoin / ScopedPthreadTryJoin: ThreadJoin.
JoinThreadTid(c) ==
  /\ At(c, "join_thread")
  /\ JoinThreadReady(op[c].tid)
  /\ JoinThread(op[c].tid)
  /\ Return(c)
  /\ UnchangedArgs
  /\ UNCHANGED <<args_owner, lib_vars, joinable, forker, creates>>

\* The real tryjoin finds the thread running.
RealTryJoinFails(c) ==
  /\ At(c, "real_join")
  /\ op[c].flag
  /\ lib[op[c].h] # "zombie"
  /\ Goto(c, "not_joined")
  /\ UnchangedRegistry /\ UnchangedArgs
  /\ UNCHANGED <<args_owner, lib_vars, joinable, forker, creates>>

\* ThreadNotJoined gives the thread its user id back.
NotJoined(c) ==
  /\ At(c, "not_joined")
  /\ SetThreadUserId(op[c].tid, op[c].h)
  /\ joinable' = joinable \cup {op[c].h}
  /\ Return(c)
  /\ UnchangedArgs
  /\ UNCHANGED <<args_owner, lib_vars, forker, creates>>

\* The real join returns EDEADLK; ~ScopedPthreadJoin does nothing.
RealJoinFails(c) ==
  /\ At(c, "real_join")
  /\ ~op[c].flag
  /\ op[c].h = c
  /\ joinable' = IF RetriesJoin THEN joinable \cup {op[c].h} ELSE joinable
  /\ Return(c)
  /\ UnchangedRegistry /\ UnchangedArgs
  /\ UNCHANGED <<args_owner, lib_vars, forker, creates>>

-----------------------------------------------------------------------------
(* pthread_detach                                                          *)

DetachBegin(c, h) == ConsumeTid(c, h, "real_detach", FALSE)

\* ThreadArgRetval::Detach locks and calls REAL(pthread_detach).
RealDetach(c) ==
  /\ At(c, "real_detach")
  /\ Lock(c)
  /\ lib_detached' = [lib_detached EXCEPT ![op[c].h] = TRUE]
  /\ lib' = [lib EXCEPT ![op[c].h] = IF @ = "zombie" THEN "none" ELSE @]
  /\ Goto(c, "detach_locked")
  /\ UnchangedRegistry /\ UnchangedArgs
  /\ UNCHANGED <<serial, tid_, creator, joinable, forker, creates>>

PthreadDetachLocked(c) ==
  /\ At(c, "detach_locked")
  /\ IF DetachLockedCheck(op[c].h)
     THEN DetachLocked(op[c].h) /\ UNCHANGED check_failed
     ELSE check_failed' = TRUE /\ UnchangedArgs
  /\ Unlock
  /\ Goto(c, "detach_thread")
  /\ UNCHANGED <<registry_vars, lib_vars, joinable, forker, creates>>

\* The destructor of ScopedPthreadDetach: ThreadDetach.
DetachThreadTid(c) ==
  /\ At(c, "detach_thread")
  /\ DetachThread(op[c].tid)
  /\ Return(c)
  /\ UnchangedArgs
  /\ UNCHANGED <<args_owner, lib_vars, joinable, forker, creates>>

-----------------------------------------------------------------------------
(* fork, where die_after_fork lets the child create threads                *)

\* In the child c alone goes on: the other threads are gone wherever they were,
\* and their pthread_t free.  The handlers took the mutexes, so none is held.  Forks
\* that lose no thread, or after which none can be created, are not explored.
Fork(c) ==
  /\ MayFork /\ forker = Nobody
  /\ c = Main => \E h \in Handles : lib[h] # "none"
  /\ creates < MaxCreates
  /\ ~check_failed /\ InUserCode(c)
  /\ Locked
  /\ forker' = c
  /\ OnFork(IF c = Main THEN kMainTid ELSE tid_[c])
  /\ lib' = [h \in Handles |-> IF h = c THEN lib[h] ELSE "none"]
  /\ lib_detached' = [h \in Handles |-> h = c /\ lib_detached[h]]
  /\ serial' = [h \in Handles |-> IF h = c THEN serial[h] ELSE 0]
  /\ tid_' = [h \in Handles |-> IF h = c THEN tid_[h] ELSE 0]
  /\ creator' = [h \in Handles |-> Main]
  /\ op' = [d \in Callers |-> Idle]
  /\ joinable' = {}
  /\ UnchangedArgs
  /\ UNCHANGED creates

-----------------------------------------------------------------------------
Init ==
  /\ RegistryInit
  /\ ArgRetvalInit
  /\ lib = [h \in Handles |-> "none"]
  /\ lib_detached = [h \in Handles |-> FALSE]
  /\ serial = [h \in Handles |-> 0]
  /\ tid_ = [h \in Handles |-> 0]
  /\ creator = [h \in Handles |-> Main]
  /\ joinable = {}
  /\ op = [c \in Callers |-> Idle]
  /\ forker = Nobody
  /\ creates = 0

\* The steps of c inside the runtime.
CreateStep(c) ==
  \/ PthreadCreateLocked(c)
  \/ XsanThreadCreate(c)
  \/ PthreadCreateReturn(c)

JoinStep(c) ==
  \/ JoinBefore(c)
  \/ RealJoin(c)
  \/ JoinAfter(c)
  \/ JoinThreadTid(c)
  \/ RealTryJoinFails(c)
  \/ NotJoined(c)
  \/ RealJoinFails(c)

DetachStep(c) ==
  \/ RealDetach(c)
  \/ PthreadDetachLocked(c)
  \/ DetachThreadTid(c)

\* The steps of the thread h before its routine and after it.
StartStep(h) ==
  \/ ThreadGetArgs(h)
  \/ ThreadStart(h)
  \/ ThreadPostStarted(h)

EndStep(h) == ThreadDestroy(h) \/ ThreadExit(h)

\* What the program decides.
ProgramStep(c) ==
  \/ \E h \in Handles, det \in BOOLEAN : RealPthreadCreate(c, h, det)
  \/ \E h \in Handles, try \in BOOLEAN : JoinBegin(c, h, try)
  \/ \E h \in Handles : DetachBegin(c, h)
  \/ Fork(c)

\* A run stops at a failed CHECK, when the bound on creations is used up, when
\* every pthread_t belongs to a thread whose join failed, or in the child of fork
\* when the last thread has ended.
Terminated ==
  /\ \/ check_failed
     \/ /\ \A h \in Handles :
             \/ lib[h] = "none" /\ creates = MaxCreates
             \/ lib[h] = "zombie" /\ h \notin joinable
             \/ lib[h] \in {"none", "zombie"} /\ forker \in Handles
        /\ \A c \in Callers : op[c].step = "idle"
  /\ UNCHANGED vars

Next ==
  \/ \E c \in Callers : CreateStep(c) \/ JoinStep(c) \/ DetachStep(c)
                          \/ ProgramStep(c)
  \/ \E h \in Handles : StartStep(h) \/ EndStep(h) \/ ThreadReturn(h)
                          \/ ThreadCancelled(h)
  \/ Terminated

Spec == Init /\ [][Next]_vars

\* The scheduler runs every thread that can run; a thread that waits for the
\* mutex gets it in the end; the routine of a thread may go on for ever.
Fairness ==
  /\ \A c \in Callers :
       /\ WF_vars(CreateStep(c))
       /\ SF_vars(JoinStep(c))
       /\ SF_vars(DetachStep(c))
  /\ \A h \in Handles :
       /\ SF_vars(StartStep(h))
       /\ WF_vars(EndStep(h))

FairSpec == Spec /\ Fairness

-----------------------------------------------------------------------------
(* Properties                                                              *)

Operations ==
  [step : Steps, h : Handles \cup {NoHandle}, serial : Nat, tid : Nat, gen : Nat,
   flag : BOOLEAN, created : BOOLEAN, started : BOOLEAN]

ArgEntries == [gen : Nat, detached : BOOLEAN, done : BOOLEAN, args : Nat]

\* The type invariant: every variable keeps the shape the declarations give.
TypeOK ==
  /\ RegistryTypeOK
  /\ DOMAIN data_ \subseteq Handles
  /\ \A h \in DOMAIN data_ : data_[h] \in ArgEntries
  /\ gen_ \in 0 .. kInvalidGen - 1
  /\ args_owner \in Callers \cup {Nobody}
  /\ lib \in [Handles -> LibStates]
  /\ lib_detached \in [Handles -> BOOLEAN]
  /\ serial \in [Handles -> Nat]
  /\ tid_ \in [Handles -> Nat]
  /\ creator \in [Handles -> Callers]
  /\ joinable \subseteq Handles
  /\ op \in [Callers -> Operations]
  /\ forker \in Callers \cup {Nobody}
  /\ creates \in 0 .. MaxCreates

\* No CHECK of the registry or of ThreadArgRetval fails, however creations,
\* exits, joins and detaches interleave and pthread_t values are reused:
\* user ids are unique, a join finds its thread finished, a new thread finds
\* its arguments.
NoCheckFails == ~check_failed

\* Joining or detaching acts on the context of the very thread the program
\* meant, though the pthread_t may belong to another thread by then
\* (sanitizer_thread_registry.cpp:176: "e.g. if we join a wrong thread").
JoinsTheRightThread ==
  \A c \in Callers :
    (op[c].step \in {"before_join", "real_join", "after_join", "join_thread",
                     "not_joined", "real_detach", "detach_locked",
                     "detach_thread"} /\ ~check_failed) =>
      /\ threads_[op[c].tid].serial = op[c].serial
      /\ threads_[op[c].tid].status \in {"Running", "Finished"}

\* The map from pthread_t to thread id and the user ids of the contexts are
\* inverse to each other, and a user id belongs to the thread that has it.
LiveIsExact ==
  /\ \A u \in DOMAIN live_ :
       /\ threads_[live_[u]].user_id = u
       /\ threads_[live_[u]].serial = serial[u]
  /\ \A t \in DOMAIN threads_ :
       threads_[t].user_id # NoHandle => threads_[t].user_id \in DOMAIN live_

\* "Primary goal of the class is to keep alive arg and retval pointer for leak
\* checking" (sanitizer_thread_arg_retval.h:22): a thread's argument is found
\* as long as it runs, and its return value until it was joined; a late join of
\* an earlier thread with the same pthread_t does not drop it.
ArgsKeptAlive ==
  \A h \in Handles :
    LET Found == h \in DOMAIN data_ /\ data_[h].args = serial[h] IN
    /\ lib[h] \in {"got_args", "thread_started", "running"} => Found
    /\ (lib[h] = "zombie" \/ (lib[h] \in {"finishing", "destroyed"}
                               /\ ~lib_detached[h])) => Found

\* Nothing is kept for ever: the return value of a thread is dropped once it
\* was joined, or is detached and has exited.  (The entry of a cancelled thread,
\* which never is done, is the exception sanitizer_thread_arg_retval.h:92 names.)
NoStaleArgs ==
  \A h \in DOMAIN data_ :
    data_[h].done =>
      \/ lib[h] # "none"
      \/ \E c \in Callers :
           op[c].step \in {"after_join", "detach_locked"} /\ op[c].h = h

\* What is kept for the n-th thread created.  It counts as dropped from the real
\* join or exit on: its pthread_t may be another thread's before AfterJoin runs.
KeptAt(h) ==
  LET found == h \in DOMAIN data_ /\ data_[h].args = serial[h]
      locked == op[creator[h]].step = "create_locked" /\ op[creator[h]].serial = serial[h]
      ended == lib[h] \in {"finishing", "destroyed", "zombie"}
  IN  IF ~found THEN IF locked THEN "none" ELSE "dropped"
      ELSE IF data_[h].done THEN "retval"
      ELSE IF ended THEN "orphan"
      ELSE IF data_[h].detached THEN "arg_detached"
      ELSE "arg"

KeptOf(n) ==
  IF n > creates THEN "none"
  ELSE IF \E h \in Handles : serial[h] = n /\ lib[h] # "none"
  THEN KeptAt(CHOOSE h \in Handles : serial[h] = n)
  ELSE "dropped"

Keeper == INSTANCE KeptArgs WITH
  Threads <- 1 .. MaxCreates,
  kept <- [n \in 1 .. MaxCreates |-> KeptOf(n)]

\* The table of ThreadArgRetval, keyed by pthread_t values that are reused while
\* joins and detaches of their former owners are under way, keeps for each thread
\* what it promises (sanitizer_thread_arg_retval.h:24).  A fork (MayFork) is left
\* out: the child drops the threads it lacks, the table keeps their entries.
ImplementsKeptArgs == Keeper!KeptSpec

\* The new thread uses its ThreadParam, which is on its creator's stack, only
\* while the creator is still in pthread_create for it.
ParamOutlivesUse ==
  \A h \in Handles :
    lib[h] \in {"started", "got_args", "thread_started"} =>
      LET c == creator[h] IN
      /\ op[c].step \in {"create_locked", "create_thread", "wait_started"}
      /\ op[c].h = h /\ op[c].serial = serial[h]

\* The hand-shake of pthread_create ends, a detach ends, and JoinThread's spin
\* on thread_destroyed ends once the real join returned.
OperationsReturn ==
  \A c \in Callers :
    (op[c].step \in {"create_locked", "before_join", "after_join", "real_detach",
                     "not_joined"}) ~>
      (op[c].step \in {"idle", "real_join"} \/ check_failed)

=============================================================================
