-------------------------------- MODULE XsanFork --------------------------------
(***************************************************************************)
(* fork() in a process whose threads hold the mutexes of the runtime.      *)
(* pthread_atfork handlers (xsan_posix.cpp) take the mutexes of the        *)
(* sub-sanitizers and those they share, so that the child, which has the   *)
(* forking thread only, starts with none of them held by a thread it does  *)
(* not have; the interceptor of clone takes those of TSan only.            *)
(*                                                                         *)
(* An operation of the runtime is the sequence of the mutexes it takes and *)
(* gives back.  A mutex the code takes only now and then (to refill a      *)
(* cache, to insert a stack trace) is taken every time, and mutexes under  *)
(* which no other is taken are left out, those the child could inherit     *)
(* apart.  Every thread is attached to a slot of TSan of its own, which is *)
(* named by the thread.  After fork() the parent and the child share       *)
(* nothing: a behaviour follows one of them.                               *)
(***************************************************************************)
EXTENDS Integers, Sequences, FiniteSets

CONSTANTS Threads,
          NoOne,          \* the owner of a free mutex
          ContainsTsan,   \* XSAN_CONTAINS_TSAN
          LibcFrees,      \* pthread_create and pthread_detach of libc free memory
          Operations      \* the operations threads run, by name

Names == {"lsan_global", "asan_registry", "asan_argretval", "global_proc",
          "thread_registry", "slot_mtx", "report_mtx", "error_report",
          "internal_alloc", "argretval", "allocator", "fallback",
          "quarantine", "bucket", "depot", "atexit_mu"}

Mutexes == Names \cup Threads

OperationNames ==
  {"malloc", "free", "late free", "create", "begin", "end", "join", "detach",
   "race", "error", "leaks", "atexit", "reset", "purge", "fork", "clone"}

ASSUME ForkAssumption ==
  /\ IsFiniteSet(Threads)
  /\ Threads \cap (Names \cup {NoOne}) = {} /\ NoOne \notin Names
  /\ ContainsTsan \in BOOLEAN /\ LibcFrees \in BOOLEAN
  /\ Operations \subseteq OperationNames

VARIABLES owner,     \* the thread that holds each mutex
          todo,      \* what is left of each thread's operation
          ignores,   \* the counters by which TSan ignores each thread
          child,     \* in a child, the thread that forked, its only one
          how        \* the call that made the child

vars == <<owner, todo, ignores, child, how>>

InChild == child # NoOne

Present == IF InChild THEN {child} ELSE Threads

Lock(l) == <<<<"lock", l>>>>
Unlock(l) == <<<<"unlock", l>>>>

\* A scoped lock: s runs under l.
Holding(l, s) == Lock(l) \o s \o Unlock(l)

Take(l) == Holding(l, <<>>)

Tsan(s) == IF ContainsTsan THEN s ELSE <<>>

----------------------------------------------------------------------------
(* The operations. *)

\* A new stack trace: the bucket of its hash, and the nodes.
StackDepotPut == Holding("bucket", Take("depot"))

\* Allocate, where TSan ignores the thread; the shadow is not written then.
Allocate == Take("allocator") \o StackDepotPut

\* Allocate; the shadow writes may need a new trace part, under the slot.
Malloc(t) == Allocate \o Tsan(Take(t))

\* Deallocate: the free hook, the quarantine, and what it recycles.
Deallocate(t) ==
  Tsan(Take(t)) \o StackDepotPut \o Take("quarantine") \o Take("allocator")

\* A thread past its destructor: no slot, no AsanThread, shared caches.
LateFree ==
  LET body == StackDepotPut \o
              Holding("fallback", Take("quarantine") \o Take("allocator"))
  IN  IF ContainsTsan THEN Holding("global_proc", body) ELSE body

\* Inside pthread_create and pthread_detach libc may free the thread-local
\* memory of threads that have ended.
DeallocateTls(t) == IF LibcFrees THEN Deallocate(t) ELSE <<>>

PthreadCreate(t) ==
  Holding("argretval", Allocate \o DeallocateTls(t))
  \o StackDepotPut \o Take("asan_registry")
  \o Tsan(Take(t) \o Holding("thread_registry", Take("internal_alloc")))

\* The new thread asks for its arguments and starts.
ThreadStart(t) ==
  Take("asan_registry")
  \o Tsan(Take("thread_registry") \o Take("slot_mtx") \o Take(t))
  \o Take("argretval")

\* Finish, and the destructor: CommitBack of the caches, ThreadFinish.
ThreadEnd(t) ==
  Take("argretval")
  \o Tsan(Holding(t, Take("thread_registry")) \o Take(t)
          \o Holding("thread_registry", Take("slot_mtx")))
  \o Take("asan_registry") \o Take("quarantine") \o Take("allocator")

PthreadJoin(t) ==
  Tsan(Take("thread_registry")) \o Take("argretval") \o Take("argretval")
  \o Tsan(Take("thread_registry") \o Take(t))

PthreadDetach(t) ==
  Tsan(Take("thread_registry")) \o Holding("argretval", DeallocateTls(t))
  \o Tsan(Holding("thread_registry", Take("internal_alloc")))

\* ReportRace: the slot of the other access.
ReportRace(u) ==
  Holding(u, Holding("thread_registry", Holding("slot_mtx",
    Holding("report_mtx", Take("error_report")))))

\* ScopedInErrorReport of ASan.
ReportError == Holding("error_report", Take("asan_registry"))

\* DoLeakCheck: LockThreads, LockAllocator.
LeakCheck ==
  Holding("lsan_global", Holding("asan_registry", Holding("asan_argretval",
    Holding("allocator", Take("fallback")))))

\* setup_at_exit_wrapper: libc's list grows under atexit_mu.
AtExit(t) == Tsan(Take(t)) \o Holding("atexit_mu", Allocate)

\* All slots, in the order of their indices.
Slots == CHOOSE s \in [1..Cardinality(Threads) -> Threads] :
           \A t \in Threads : \E i \in DOMAIN s : s[i] = t

LockSlots == [i \in DOMAIN Slots |-> <<"lock", Slots[i]>>]
UnlockSlots == [i \in DOMAIN Slots |-> <<"unlock", Slots[i]>>]

\* DoReset, when the slots run out of epochs.
DoReset ==
  LockSlots \o Holding("thread_registry", Take("slot_mtx")) \o UnlockSlots

Purge == Take("quarantine") \o Take("allocator")
         \o Holding("fallback", Take("quarantine") \o Take("allocator"))

----------------------------------------------------------------------------
(* The handlers. *)

Ignore(n) == <<<<"ignore", n>>>>

\* TSan: the counters keep reports and shadow writes out of the handlers.
ForkBefore_SlotsLast(t) ==
  Lock("global_proc") \o Take(t)
  \o Lock("thread_registry") \o LockSlots \o Lock("slot_mtx")
  \o Lock("error_report") \o Lock("internal_alloc") \o Ignore(1)

ForkBefore(t) ==
  Lock("global_proc") \o Take(t) \o LockSlots
  \o Lock("thread_registry") \o Lock("slot_mtx")
  \o Lock("error_report") \o Lock("internal_alloc") \o Ignore(1)

ForkAfter(t) ==
  Ignore(-1) \o Unlock("internal_alloc") \o Unlock("error_report")
  \o Unlock("slot_mtx") \o Unlock("thread_registry") \o UnlockSlots
  \o Take("slot_mtx") \o Take(t) \o Unlock("global_proc")

ForkParentAfter(t) == ForkAfter(t)

\* The child of a process with more threads is ignored for good.
ForkChildAfter(t) ==
  ForkAfter(t) \o Take("thread_registry")
  \o IF Cardinality(Threads) > 1 THEN Ignore(1) ELSE <<>>

\* ASan: TSan's checks of its mutexes allow one registry to be held only.
AsanForkBefore ==
  Lock("lsan_global")
  \o IF ContainsTsan THEN <<>>
     ELSE Lock("asan_registry") \o Lock("asan_argretval")

AsanForkAfter ==
  (IF ContainsTsan THEN <<>>
   ELSE Unlock("asan_argretval") \o Unlock("asan_registry"))
  \o Unlock("lsan_global")

\* XSan: the hooks, then what the sub-sanitizers share.
BeforeFork_NoArgs(t) ==
  AsanForkBefore \o Tsan(ForkBefore(t))
  \o Lock("allocator") \o Lock("fallback") \o Lock("depot")

BeforeFork(t) ==
  AsanForkBefore \o Tsan(ForkBefore(t))
  \o Lock("argretval") \o Lock("allocator") \o Lock("fallback") \o Lock("depot")

\* The buckets are not locked before fork but emptied of owners in the child.
AfterFork_KeepsArgs(t, fork_child) ==
  Unlock("depot") \o (IF fork_child THEN <<<<"clear", "bucket">>>> ELSE <<>>)
  \o Unlock("fallback") \o Unlock("allocator")
  \o (IF fork_child THEN <<>> ELSE Unlock("argretval"))
  \o AsanForkAfter
  \o Tsan(IF fork_child THEN ForkChildAfter(t) ELSE ForkParentAfter(t))

AfterFork(t, fork_child) ==
  Unlock("depot") \o (IF fork_child THEN <<<<"clear", "bucket">>>> ELSE <<>>)
  \o Unlock("fallback") \o Unlock("allocator") \o Unlock("argretval")
  \o AsanForkAfter
  \o Tsan(IF fork_child THEN ForkChildAfter(t) ELSE ForkParentAfter(t))

Codes(op, t) ==
  CASE op = "malloc" -> {Malloc(t)}
    [] op = "free" -> {Deallocate(t)}
    [] op = "late free" -> {LateFree}
    [] op = "create" -> {PthreadCreate(t)}
    [] op = "begin" -> {ThreadStart(t)}
    [] op = "end" -> {ThreadEnd(t)}
    [] op = "join" -> {PthreadJoin(t)}
    [] op = "detach" -> {PthreadDetach(t)}
    [] op = "race" -> {ReportRace(u) : u \in Threads \ {t}}
    [] op = "error" -> {ReportError}
    [] op = "leaks" -> {LeakCheck}
    [] op = "atexit" -> {AtExit(t)}
    [] op = "reset" -> {DoReset}
    [] op = "purge" -> {Purge}
    [] op = "fork" -> {BeforeFork(t) \o <<<<"fork", "fork">>>>
                       \o AfterFork(t, FALSE)}
    [] op = "clone" -> {ForkBefore(t) \o <<<<"fork", "clone">>>>
                        \o ForkParentAfter(t)}

TsanOnly == {"race", "reset", "clone"}

----------------------------------------------------------------------------
Init ==
  /\ owner = [l \in Mutexes |-> NoOne]
  /\ todo = [t \in Threads |-> <<>>]
  /\ ignores = [t \in Threads |-> 0]
  /\ child = NoOne
  /\ how = "none"

Next(t) == Head(todo[t])

Does(t, act) == todo[t] # <<>> /\ Next(t)[1] = act

Advance(t) == todo' = [todo EXCEPT ![t] = Tail(@)]

\* A child forks no further: one generation is followed.
Begin(t) ==
  /\ todo[t] = <<>>
  /\ \E op \in Operations \ (IF ContainsTsan THEN {} ELSE TsanOnly) :
       /\ op \in {"fork", "clone"} => ~InChild
       /\ \E c \in Codes(op, t) : todo' = [todo EXCEPT ![t] = c]
  /\ UNCHANGED <<owner, ignores, child, how>>

Acquire(t) ==
  /\ Does(t, "lock")
  /\ owner[Next(t)[2]] = NoOne
  /\ owner' = [owner EXCEPT ![Next(t)[2]] = t]
  /\ Advance(t)
  /\ UNCHANGED <<ignores, child, how>>

Release(t) ==
  /\ Does(t, "unlock") \/ Does(t, "clear")
  /\ owner' = [owner EXCEPT ![Next(t)[2]] = NoOne]
  /\ Advance(t)
  /\ UNCHANGED <<ignores, child, how>>

ChangeIgnores(t) ==
  /\ Does(t, "ignore")
  /\ ignores' = [ignores EXCEPT ![t] = @ + Next(t)[2]]
  /\ Advance(t)
  /\ UNCHANGED <<owner, child, how>>

\* The call returns in the parent, or fails.
ForkInParent(t) ==
  /\ Does(t, "fork")
  /\ Advance(t)
  /\ UNCHANGED <<owner, ignores, child, how>>

\* The call returns in the child: a copy of the process with one thread.
ForkInChild(t) ==
  /\ Does(t, "fork")
  /\ child' = t
  /\ how' = Next(t)[2]
  /\ todo' = [u \in Threads |->
               CASE u # t -> <<>>
                 [] u = t /\ how' = "fork" -> AfterFork(t, TRUE)
                 [] u = t /\ how' = "clone" -> ForkChildAfter(t)]
  /\ UNCHANGED <<owner, ignores>>

Step(t) ==
  Begin(t) \/ Acquire(t) \/ Release(t) \/ ChangeIgnores(t)
  \/ ForkInParent(t) \/ ForkInChild(t)

NextState == \E t \in Present : Step(t)

Spec == Init /\ [][NextState]_vars

----------------------------------------------------------------------------
(* The properties. *)

\* The thread that t waits for.
AwaitedOwner(t) == IF Does(t, "lock") THEN owner[Next(t)[2]] ELSE NoOne

\* Each of S waits for another of S, and is waited for.
Circle(S) == S # {} /\ {AwaitedOwner(t) : t \in S} = S

BeforeCall(t) == \E i \in DOMAIN todo[t] : todo[t][i][1] = "fork"

\* Fork waits in no circle: it takes the mutexes of all sub-sanitizers in an
\* order that no other operation contradicts, and a late free, which takes those
\* of the allocator in the other order, runs under a mutex that fork takes first.
\* The one circle is ASan's own: a late free against a leak check.
ForkInNoCircle ==
  \A S \in SUBSET Present :
    Circle(S) => \A t \in S : /\ Next(t)[2] \in {"allocator", "fallback"}
                              /\ ~BeforeCall(t)

\* The mutexes that no handler takes, nor one under which they are taken.
Unhandled ==
  {"quarantine", "atexit_mu"}
  \cup (IF ContainsTsan THEN {"asan_registry"} ELSE {"error_report"})
  \cup (IF how = "clone"
        THEN {"lsan_global", "asan_argretval", "argretval", "allocator",
              "fallback", "bucket", "depot"}
        ELSE {})

\* The mutexes a thread is still to empty of other owners.
ToClear(t) == {todo[t][i][2] : i \in {j \in DOMAIN todo[t] :
                                        todo[t][j][1] = "clear"}}

\* The child finds none of the mutexes that the handlers stand for in the hands
\* of a thread it does not have, where it would wait for ever.
ChildInheritsNoMutex ==
  InChild =>
    \A l \in Mutexes :
      owner[l] \notin {NoOne, child} => l \in Unhandled \cup ToClear(child)

\* In parent and child, the handlers behind fork give back what those before it
\* took, no more and no less.
HeldUntilReleased ==
  \A t \in Present :
    /\ todo[t] = <<>> => \A l \in Mutexes : owner[l] # t
    /\ Does(t, "unlock") => owner[Next(t)[2]] = t
================================================================================
