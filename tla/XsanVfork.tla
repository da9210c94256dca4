------------------------------ MODULE XsanVfork ------------------------------
(***************************************************************************)
(* The vfork interceptor.  A vfork child runs on its parent's memory, so   *)
(* whatever the sanitizers do in the child they do to the parent too.  The *)
(* assembly wrapper calls __xsan_extra_spill_area before the real vfork    *)
(* and again after it, in the child and in the parent; nothing tells these *)
(* three calls apart but a thread-local pid_before_vfork, itself shared    *)
(* between parent and child.  Depending on the call, TSan is disabled for  *)
(* the child or the parent's state is recovered.                           *)
(*                                                                         *)
(* One thread per process: vfork suspends the calling thread only, and all *)
(* the state here but the fd table is thread-local.  A vfork child neither *)
(* forks nor vforks: POSIX leaves that undefined.                          *)
(***************************************************************************)
EXTENDS Integers, FiniteSets

CONSTANTS
  Pids,           \* process ids; one is reused once its process has ended
  InitPid,        \* the process that adopts orphans
  NoPid,          \* the -1 of pid_before_vfork: no process has this id
  Fds,            \* file descriptors
  Files,          \* open files, each with its FdSync
  Closed,         \* no file
  VforkMayFail    \* the real vfork may fail (EAGAIN, ENOMEM)

ASSUME XsanVforkAssumption ==
  /\ InitPid \notin Pids
  /\ NoPid \notin Pids \cup {InitPid}
  /\ Closed \notin Files
  /\ VforkMayFail \in BOOLEAN

VARIABLES
  pc,     \* where each process is, see Pcs
  ppid,   \* its parent
  mm,     \* the process whose memory it runs on
  mem,    \* that memory: the thread-local and global state involved
  files,  \* the kernel's descriptor table of each process
  died    \* the processes that died in the runtime

vars == <<pc, ppid, mm, mem, files, died>>

\* Before the real vfork; back from it in the child or in the parent, before
\* the second call of the spill area; suspended until the child execs or exits.
Pcs == {"free", "user", "before", "child", "parent", "suspended"}

VforkChild(p) == mm[p] # p

\* p runs user code on memory of its own, or of its suspended parent.
OwnerInUserCode(p) == pc[p] = "user" /\ ~VforkChild(p)
ChildInUserCode(p) == pc[p] = "user" /\ VforkChild(p)

\* Bound: a process enters vfork or forks only while an id is left for the child.
PidAvailable ==
  Cardinality({p \in Pids : pc[p] = "before"}) <
    Cardinality({p \in Pids : pc[p] = "free"})

\* vfork_failed is a ghost: a vfork of this memory's process once failed.
\* A first process, whose TSan is active or deactivated as single-threaded.
InitialMemory(off) ==
  [pid_before_vfork |-> NoPid,
   ignore_interceptors |-> 0,
   suppress_reports |-> 0,
   in_vfork_child |-> FALSE,
   ignore_reads_and_writes |-> IF off THEN 1 ELSE 0,
   ignore_sync |-> IF off THEN 1 ELSE 0,
   MainThreadTsanDisabled |-> off,
   stack_poisoned |-> FALSE,
   vfork_failed |-> FALSE,
   fd_sync |-> [fd \in Fds |-> Closed]]

NoFiles == [fd \in Fds |-> Closed]

\* The ignore counters of the memory m when no vfork is under way: one for a
\* main thread that is deactivated because it is alone.
Deactivation(m) == IF m.MainThreadTsanDisabled THEN 1 ELSE 0

-----------------------------------------------------------------------------
DisableTsanForVfork(m) ==
  [m EXCEPT !.ignore_interceptors = 1 + 1,
            !.suppress_reports = @ + 1,
            !.in_vfork_child = TRUE,
            !.ignore_reads_and_writes = @ + 1,
            !.ignore_sync = @ + 1]

RecoverTsanAfterVforkParent_NoSync(m) ==
  [m EXCEPT !.ignore_interceptors = @ - 1,
            !.suppress_reports = @ - 1,
            !.in_vfork_child = FALSE,
            !.ignore_reads_and_writes = @ - 1]

RecoverTsanAfterVforkParent(m) ==
  [m EXCEPT !.ignore_interceptors = @ - 1,
            !.suppress_reports = @ - 1,
            !.in_vfork_child = FALSE,
            !.ignore_reads_and_writes = @ - 1,
            !.ignore_sync = @ - 1]

\* The memory m after __xsan_extra_spill_area in process pid, child of parent.
ExtraSpillArea_KeepsPid(m, pid, parent) ==
  CASE pid = m.pid_before_vfork -> RecoverTsanAfterVforkParent(m)
    [] pid # m.pid_before_vfork /\ parent = m.pid_before_vfork ->
         DisableTsanForVfork(m)
    [] OTHER -> [m EXCEPT !.pid_before_vfork = pid]

ExtraSpillArea_IgnoresParent(m, pid, parent) ==
  IF pid = m.pid_before_vfork
  THEN RecoverTsanAfterVforkParent([m EXCEPT !.pid_before_vfork = NoPid])
  ELSE [m EXCEPT !.pid_before_vfork = pid]

ExtraSpillArea(m, pid, parent) ==
  CASE pid = m.pid_before_vfork ->
         RecoverTsanAfterVforkParent([m EXCEPT !.pid_before_vfork = NoPid])
    [] pid # m.pid_before_vfork /\ parent = m.pid_before_vfork ->
         DisableTsanForVfork(m)
    [] OTHER -> [m EXCEPT !.pid_before_vfork = pid]

\* The CHECK_GTs that RecoverTsanAfterVforkParent runs into.
SpillAreaChecks(m, pid) ==
  pid = m.pid_before_vfork =>
    m.ignore_reads_and_writes > 0 /\ m.ignore_sync > 0

\* __xsan_vfork_parent_after, called where vfork returned non-zero: the stack
\* that the child used is unpoisoned.
HandleVfork_InChild(m, in_parent) ==
  IF in_parent THEN m ELSE [m EXCEPT !.stack_poisoned = FALSE]
HandleVfork(m, in_parent) ==
  IF in_parent THEN [m EXCEPT !.stack_poisoned = FALSE] ELSE m

-----------------------------------------------------------------------------
(* vfork                                                                   *)

\* The first call of the spill area.
VforkBefore(p) ==
  /\ OwnerInUserCode(p)
  /\ PidAvailable
  /\ mem' = [mem EXCEPT ![p] = ExtraSpillArea(@, p, ppid[p])]
  /\ died' = IF SpillAreaChecks(mem[p], p) THEN died ELSE died \cup {p}
  /\ pc' = [pc EXCEPT ![p] = "before"]
  /\ UNCHANGED <<ppid, mm, files>>

\* The child runs on the memory of p, with descriptors of its own.
RealVfork(p, c) ==
  /\ pc[p] = "before"
  /\ pc[c] = "free"
  /\ pc' = [pc EXCEPT ![p] = "suspended", ![c] = "child"]
  /\ ppid' = [ppid EXCEPT ![c] = p]
  /\ mm' = [mm EXCEPT ![c] = p]
  /\ files' = [files EXCEPT ![c] = files[p]]
  /\ UNCHANGED <<mem, died>>

RealVforkFails(p) ==
  /\ VforkMayFail
  /\ pc[p] = "before"
  /\ pc' = [pc EXCEPT ![p] = "parent"]
  /\ mem' = [mem EXCEPT ![p].vfork_failed = TRUE]
  /\ UNCHANGED <<ppid, mm, files, died>>

\* The second call of the spill area, then handle_vfork in the parent.
VforkAfter(p) ==
  /\ pc[p] \in {"child", "parent"}
  /\ IF SpillAreaChecks(mem[mm[p]], p)
     THEN /\ mem' = [mem EXCEPT ![mm[p]] =
                       HandleVfork(ExtraSpillArea(@, p, ppid[p]),
                                   pc[p] = "parent")]
          /\ pc' = [pc EXCEPT ![p] = "user"]
          /\ UNCHANGED died
     ELSE /\ died' = died \cup {p}
          /\ UNCHANGED <<mem, pc>>
  /\ UNCHANGED <<ppid, mm, files>>

-----------------------------------------------------------------------------
(* Processes                                                               *)

\* fork outside a vfork child: the child runs on a copy of the memory.
Fork(p, c) ==
  /\ OwnerInUserCode(p)
  /\ PidAvailable
  /\ pc[c] = "free"
  /\ pc' = [pc EXCEPT ![c] = "user"]
  /\ ppid' = [ppid EXCEPT ![c] = p]
  /\ mm' = [mm EXCEPT ![c] = c]
  /\ mem' = [mem EXCEPT ![c] = mem[p]]
  /\ files' = [files EXCEPT ![c] = files[p]]
  /\ UNCHANGED died

\* p leaves its memory, in state m, by exec or _exit: a parent suspended on it
\* resumes, and its children are adopted.
Leave(p, m) ==
  /\ pc[p] = "user"
  /\ pc' = [q \in Pids |->
              IF q = p THEN "free"
              ELSE IF VforkChild(p) /\ q = mm[p] THEN "parent" ELSE pc[q]]
  /\ ppid' = [q \in Pids |-> IF q = p \/ ppid[q] = p THEN InitPid ELSE ppid[q]]
  /\ mm' = [mm EXCEPT ![p] = p]
  /\ mem' = [mem EXCEPT ![mm[p]] =
               IF VforkChild(p) THEN m ELSE InitialMemory(FALSE)]
  /\ files' = [files EXCEPT ![p] = NoFiles]

ExecOr_Exit(p) == Leave(p, mem[mm[p]]) /\ UNCHANGED died

\* ThreadCheckIgnore: does the thread die for leaving with ignores enabled?
ThreadCheckIgnore(m) ==
  ~m.in_vfork_child /\ (m.ignore_reads_and_writes > 0 \/ m.ignore_sync > 0)

\* ThreadFinalize reactivates a deactivated main thread: on the memory m.
EnableMainThreadTsan(m) ==
  [m EXCEPT !.ignore_reads_and_writes = @ - Deactivation(m),
            !.ignore_sync = @ - Deactivation(m),
            !.MainThreadTsanDisabled = FALSE]

\* Its CHECK_GTs hold: the counters are those of a deactivated thread or more.
EnableChecks(m) ==
  /\ m.ignore_reads_and_writes >= Deactivation(m)
  /\ m.ignore_sync >= Deactivation(m)

\* exit: the finalizer runs first, in a vfork child on its parent's memory.
Exit(p) ==
  LET old == mem[mm[p]]
      m == IF EnableChecks(old) THEN EnableMainThreadTsan(old) ELSE old
  IN
  /\ Leave(p, m)
  /\ died' = IF ~EnableChecks(old) \/ ThreadCheckIgnore(m)
              THEN died \cup {p} ELSE died

\* User code of a vfork child calls functions, whose frames poison the stack
\* below the frame that called vfork.
ChildCallsFunction(p) ==
  /\ ChildInUserCode(p)
  /\ mem' = [mem EXCEPT ![mm[p]].stack_poisoned = TRUE]
  /\ UNCHANGED <<pc, ppid, mm, files, died>>

-----------------------------------------------------------------------------
(* File descriptors: the kernel's tables are per process, fdctx is memory. *)

\* An interceptor that starts with SCOPED_TSAN_INTERCEPTOR (all but close).
MustIgnoreInterceptor(m) == m.ignore_interceptors > 0

\* FdFileCreate, FdEventCreate and the like.
FdCreate(m, fd, f) ==
  IF m.in_vfork_child THEN m ELSE [m EXCEPT !.fd_sync[fd] = f]

FdClose_InVforkChild(m, fd) == [m EXCEPT !.fd_sync[fd] = Closed]
FdClose(m, fd) ==
  IF m.in_vfork_child THEN m ELSE [m EXCEPT !.fd_sync[fd] = Closed]

\* FdDup: FdClose(newfd), then init(newfd) with the sync of oldfd.
FdDup(m, oldfd, newfd) ==
  [FdClose(m, newfd) EXCEPT !.fd_sync[newfd] = m.fd_sync[oldfd]]

Open(p, fd, f) ==
  /\ pc[p] = "user"
  /\ files[p][fd] = Closed
  /\ files' = [files EXCEPT ![p][fd] = f]
  /\ mem' = [mem EXCEPT ![mm[p]] =
               IF MustIgnoreInterceptor(@) THEN @ ELSE FdCreate(@, fd, f)]
  /\ UNCHANGED <<pc, ppid, mm, died>>

Dup2(p, oldfd, newfd) ==
  /\ pc[p] = "user"
  /\ oldfd # newfd
  /\ files[p][oldfd] # Closed
  /\ files' = [files EXCEPT ![p][newfd] = files[p][oldfd]]
  /\ mem' = [mem EXCEPT ![mm[p]] =
               IF MustIgnoreInterceptor(@) THEN @ ELSE FdDup(@, oldfd, newfd)]
  /\ UNCHANGED <<pc, ppid, mm, died>>

\* close is intercepted even where interceptors are to be ignored.
Close(p, fd) ==
  /\ pc[p] = "user"
  /\ files[p][fd] # Closed
  /\ files' = [files EXCEPT ![p][fd] = Closed]
  /\ mem' = [mem EXCEPT ![mm[p]] = FdClose(@, fd)]
  /\ UNCHANGED <<pc, ppid, mm, died>>

-----------------------------------------------------------------------------
Init ==
  /\ \E first \in Pids :
       pc = [p \in Pids |-> IF p = first THEN "user" ELSE "free"]
  /\ ppid = [p \in Pids |-> InitPid]
  /\ mm = [p \in Pids |-> p]
  /\ \E off \in BOOLEAN :
       mem = [p \in Pids |->
                InitialMemory(off /\ pc[p] = "user")]
  /\ files = [p \in Pids |-> NoFiles]
  /\ died = {}

\* The end of the last process, or a failed CHECK, is where a run stops.
Terminated ==
  /\ died # {} \/ \A p \in Pids : pc[p] = "free"
  /\ UNCHANGED vars

VforkStep(p) ==
  \/ VforkBefore(p)
  \/ \E c \in Pids : RealVfork(p, c)
  \/ RealVforkFails(p)
  \/ VforkAfter(p)

ProcessStep(p) ==
  \/ \E c \in Pids : Fork(p, c)
  \/ ExecOr_Exit(p)
  \/ Exit(p)
  \/ ChildCallsFunction(p)

FdStep(p) ==
  \E fd \in Fds :
    \/ \E f \in Files : Open(p, fd, f)
    \/ Close(p, fd)
    \/ \E newfd \in Fds : Dup2(p, fd, newfd)

Next ==
  \/ died = {} /\ \E p \in Pids : VforkStep(p) \/ ProcessStep(p) \/ FdStep(p)
  \/ Terminated

Spec == Init /\ [][Next]_vars

-----------------------------------------------------------------------------
(* Properties                                                              *)

Memory ==
  [pid_before_vfork : Pids \cup {NoPid},
   ignore_interceptors : Int,
   suppress_reports : Int,
   in_vfork_child : BOOLEAN,
   ignore_reads_and_writes : Nat,
   ignore_sync : Nat,
   MainThreadTsanDisabled : BOOLEAN,
   stack_poisoned : BOOLEAN,
   vfork_failed : BOOLEAN,
   fd_sync : [Fds -> Files \cup {Closed}]]

\* The type invariant: every variable keeps the shape the declarations give.
TypeOK ==
  /\ pc \in [Pids -> Pcs]
  /\ ppid \in [Pids -> Pids \cup {InitPid}]
  /\ mm \in [Pids -> Pids]
  /\ mem \in [Pids -> Memory]
  /\ files \in [Pids -> [Fds -> Files \cup {Closed}]]
  /\ died \subseteq Pids

\* "Reset pid_before_vfork to -1 to recover the state of this hook. I.e., make
\* vfork -> fork -> [child] vfork works" (xsan_hooks.cpp:119): user code that
\* may fork or vfork never runs with a pid left from an earlier vfork, however
\* process ids are reused.
HookRecovered ==
  \A p \in Pids : OwnerInUserCode(p) => mem[p].pid_before_vfork = NoPid

\* The calls of the spill area are told apart rightly: TSan is disabled in
\* exactly the user code of vfork children, and never left so in a process
\* that owns its memory (tsan_rtl.h:212: the flag must not affect the parent).
\* Not claimed once a vfork failed, when the counters are off for good.
ChildIsIsolated ==
  \A p \in Pids :
    /\ (ChildInUserCode(p) /\ ~mem[mm[p]].vfork_failed) =>
         LET m == mem[mm[p]] IN
         /\ m.in_vfork_child
         /\ m.ignore_interceptors > 0
         /\ m.suppress_reports > 0
         /\ m.ignore_reads_and_writes > 0
         /\ m.ignore_sync > 0
    /\ OwnerInUserCode(p) => ~mem[p].in_vfork_child

\* "Recover TSan for the parent process after child exits" (tsan_hooks.h:219):
\* whatever the child did, even exit(), the parent's ignore counters are those
\* of its activation state, unless a vfork failed, which runs the recovery with
\* nothing to recover.
CountersRecovered ==
  \A p \in Pids :
    (OwnerInUserCode(p) /\ ~mem[p].vfork_failed) =>
      /\ mem[p].suppress_reports = 0
      /\ mem[p].ignore_reads_and_writes = Deactivation(mem[p])
      /\ mem[p].ignore_sync = Deactivation(mem[p])

\* "Reverse the effect of DisableTsanForVfork" (tsan_rtl_extra.cpp:133): the
\* parent's interceptors work again after vfork.
InterceptorsRecovered ==
  \A p \in Pids : OwnerInUserCode(p) => mem[p].ignore_interceptors = 0

\* "vfork child should not affect the parent's fd table" (tsan_fd.cpp:181):
\* while a parent is suspended, nothing its child opens, duplicates or closes
\* reaches TSan's fd table, which lives in the parent's memory.
FdTableKeptDuringVfork ==
  [][\A p \in Pids :
       pc[p] = "suspended" => mem'[p].fd_sync = mem[p].fd_sync]_vars

\* ASan's shadow of the parent's free stack is clean again after vfork
\* (asan_hooks.h:87: eliminating the impact of the vfork child process).
ParentStackClean ==
  \A p \in Pids : OwnerInUserCode(p) => ~mem[p].stack_poisoned

=============================================================================
