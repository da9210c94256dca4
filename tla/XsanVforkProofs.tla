--------------------------- MODULE XsanVforkProofs ---------------------------
(***************************************************************************)
(* Proofs about the vfork interceptor: whatever a vfork child does on its  *)
(* parent's memory, the parent comes back with the state it had.           *)
(***************************************************************************)
EXTENDS XsanVfork, TLAPS

\* p runs: a free process has nothing to run, and a suspended one waits for
\* the child that runs on its memory.
Running(p) == pc[p] \in {"user", "before", "child", "parent"}

\* Who runs on whose memory: a vfork child on that of its suspended parent,
\* and no two of them on the same.
MemoryInv ==
  /\ \A p \in Pids :
       /\ pc[p] \in {"free", "before", "parent", "suspended"} => mm[p] = p
       /\ pc[p] = "child" => VforkChild(p)
       /\ VforkChild(p) => pc[mm[p]] = "suspended" /\ ppid[p] = mm[p]
  /\ \A p, q \in Pids :
       VforkChild(p) /\ VforkChild(q) /\ mm[p] = mm[q] => p = q

\* The counters of the memory m that k calls of DisableTsanForVfork have raised.
Raised(m, k) ==
  /\ m.suppress_reports = k
  /\ m.ignore_reads_and_writes = Deactivation(m) + k
  /\ m.ignore_sync = Deactivation(m) + k

\* The memory m has what RecoverTsanAfterVforkParent is to take back.
Recoverable(m) == ~m.vfork_failed => Raised(m, 1)

\* The memory m as user code outside vfork leaves it, and as that of a vfork
\* child does.
Quiet(m) ==
  /\ ~m.in_vfork_child
  /\ ~m.stack_poisoned
  /\ ~m.vfork_failed => Raised(m, 0)

Isolated(m) ==
  /\ m.in_vfork_child
  /\ m.ignore_interceptors > 0
  /\ Recoverable(m)

\* What each step of a vfork finds in the memory it runs on.
HookInv(p) ==
  LET m == mem[mm[p]] IN
  /\ OwnerInUserCode(p) => m.pid_before_vfork = NoPid /\ Quiet(m)
  /\ ChildInUserCode(p) => m.pid_before_vfork = mm[p] /\ Isolated(m)
  /\ pc[p] \in {"before", "child"} => m.pid_before_vfork = mm[p] /\ Quiet(m)
  /\ pc[p] = "parent" => m.pid_before_vfork = p /\ Recoverable(m)

VforkInv == TypeOK /\ MemoryInv /\ \A p \in Pids : HookInv(p)

-----------------------------------------------------------------------------
(***************************************************************************)
(* The spill area on the memory of each of its three callers.              *)
(***************************************************************************)
LEMMA SpillBefore ==
  ASSUME NEW m \in Memory, NEW p \in Pids, NEW parent \in Pids \cup {InitPid},
         m.pid_before_vfork = NoPid, Quiet(m)
  PROVE  LET r == ExtraSpillArea(m, p, parent) IN
         /\ r \in Memory
         /\ r.pid_before_vfork = p
         /\ r.fd_sync = m.fd_sync
         /\ Quiet(r)
<1>1. ExtraSpillArea(m, p, parent) = [m EXCEPT !.pid_before_vfork = p]
  BY XsanVforkAssumption DEF ExtraSpillArea
<1>. QED
  BY <1>1 DEF Memory, Quiet, Raised, Deactivation

LEMMA SpillChild ==
  ASSUME NEW m \in Memory, NEW p \in Pids, NEW parent \in Pids, p # parent,
         m.pid_before_vfork = parent, Quiet(m)
  PROVE  LET r == HandleVfork(ExtraSpillArea(m, p, parent), FALSE) IN
         /\ r \in Memory
         /\ r.pid_before_vfork = parent
         /\ r.fd_sync = m.fd_sync
         /\ Isolated(r)
<1>. DEFINE r == DisableTsanForVfork(m)
<1>1. HandleVfork(ExtraSpillArea(m, p, parent), FALSE) = r
  BY DEF ExtraSpillArea, HandleVfork
<1>2. r \in Memory
  <2>1. /\ 1 + 1 \in Int
        /\ m.suppress_reports + 1 \in Int
        /\ m.ignore_reads_and_writes + 1 \in Nat
        /\ m.ignore_sync + 1 \in Nat
    BY DEF Memory
  <2>. QED
    BY <2>1 DEF DisableTsanForVfork, Memory
<1>3. /\ r.pid_before_vfork = parent
      /\ r.fd_sync = m.fd_sync
      /\ r.in_vfork_child = TRUE
      /\ r.ignore_interceptors = 1 + 1
      /\ r.vfork_failed = m.vfork_failed
  BY DEF DisableTsanForVfork, Memory
<1>4. Raised(m, 0) => Raised(r, 1)
  BY DEF DisableTsanForVfork, Memory, Raised, Deactivation
<1>. HIDE DEF r
<1>5. r.ignore_interceptors > 0
  BY <1>3
<1>6. Isolated(r)
  BY <1>3, <1>4, <1>5 DEF Quiet, Isolated, Recoverable
<1>. QED
  BY <1>1, <1>2, <1>3, <1>6

LEMMA SpillParent ==
  ASSUME NEW m \in Memory, NEW p \in Pids, NEW parent \in Pids \cup {InitPid},
         m.pid_before_vfork = p, SpillAreaChecks(m, p),
         Recoverable(m)
  PROVE  LET r == HandleVfork(ExtraSpillArea(m, p, parent), TRUE) IN
         /\ r \in Memory
         /\ r.pid_before_vfork = NoPid
         /\ r.fd_sync = m.fd_sync
         /\ Quiet(r)
<1>1. ExtraSpillArea(m, p, parent) =
        RecoverTsanAfterVforkParent([m EXCEPT !.pid_before_vfork = NoPid])
  BY DEF ExtraSpillArea
<1>2. m.ignore_reads_and_writes - 1 \in Nat /\ m.ignore_sync - 1 \in Nat
  BY DEF SpillAreaChecks, Memory
<1>. DEFINE r == HandleVfork(ExtraSpillArea(m, p, parent), TRUE)
<1>3. r \in Memory
  <2>1. /\ m.ignore_interceptors - 1 \in Int
        /\ m.suppress_reports - 1 \in Int
    BY DEF Memory
  <2>. QED
    BY <1>1, <1>2, <2>1 DEF HandleVfork, RecoverTsanAfterVforkParent, Memory
<1>4. /\ r.pid_before_vfork = NoPid
      /\ r.fd_sync = m.fd_sync
      /\ r.in_vfork_child = FALSE
      /\ r.stack_poisoned = FALSE
      /\ r.vfork_failed = m.vfork_failed
  BY <1>1 DEF HandleVfork, RecoverTsanAfterVforkParent, Memory
<1>5. Raised(m, 1) => Raised(r, 0)
  BY <1>1 DEF HandleVfork, RecoverTsanAfterVforkParent, Memory, Raised, Deactivation
<1>. HIDE DEF r
<1>. QED
  BY <1>3, <1>4, <1>5 DEF Quiet, Recoverable, r

\* exit() on the memory of a vfork child's parent.
LEMMA EnableKeepsIsolation ==
  ASSUME NEW m \in Memory, EnableChecks(m), Isolated(m)
  PROVE  LET r == EnableMainThreadTsan(m) IN
         /\ r \in Memory
         /\ r.pid_before_vfork = m.pid_before_vfork
         /\ r.fd_sync = m.fd_sync
         /\ Isolated(r)
<1>1. /\ m.ignore_reads_and_writes - Deactivation(m) \in Nat
      /\ m.ignore_sync - Deactivation(m) \in Nat
  BY DEF EnableChecks, Memory, Deactivation
<1>. DEFINE r == EnableMainThreadTsan(m)
<1>2. r \in Memory
  BY <1>1 DEF EnableMainThreadTsan, Memory
<1>3. /\ r.pid_before_vfork = m.pid_before_vfork
      /\ r.fd_sync = m.fd_sync
      /\ r.in_vfork_child = m.in_vfork_child
      /\ r.ignore_interceptors = m.ignore_interceptors
      /\ r.vfork_failed = m.vfork_failed
  BY DEF EnableMainThreadTsan, Memory
<1>4. Raised(m, 1) => Raised(r, 1)
  BY DEF EnableMainThreadTsan, Memory, Raised, Deactivation
<1>. HIDE DEF r
<1>. QED
  BY <1>2, <1>3, <1>4 DEF Isolated, Recoverable, r

LEMMA InitialMemoryIsQuiet ==
  ASSUME NEW off \in BOOLEAN
  PROVE  /\ InitialMemory(off) \in Memory
         /\ InitialMemory(off).pid_before_vfork = NoPid
         /\ Quiet(InitialMemory(off))
  BY DEF InitialMemory, Memory, Quiet, Raised, Deactivation

-----------------------------------------------------------------------------
(***************************************************************************)
(* A memory has one process running on it at a time.                       *)
(***************************************************************************)
LEMMA OneRunsOnMemory ==
  ASSUME TypeOK, MemoryInv, NEW p \in Pids, NEW q \in Pids, p # q,
         Running(p), Running(q)
  PROVE  mm[p] # mm[q]
  BY DEF TypeOK, MemoryInv, Running, VforkChild

LEMMA FreeMemoryUnused ==
  ASSUME TypeOK, MemoryInv, NEW p \in Pids, NEW c \in Pids,
         pc[c] = "free", Running(p)
  PROVE  mm[p] # c
  BY DEF TypeOK, MemoryInv, Running, VforkChild

\* Only the memory that p runs on, and p itself, change.
LEMMA OthersKeepHook ==
  ASSUME TypeOK, MemoryInv, NEW p \in Pids, Running(p), NEW q \in Pids, q # p,
         HookInv(q), NEW m, mem' = [mem EXCEPT ![mm[p]] = m],
         mm'[q] = mm[q], pc'[q] = pc[q]
  PROVE  HookInv(q)'
<1>1. CASE Running(q)
  <2>1. mem'[mm'[q]] = mem[mm[q]]
    BY <1>1, OneRunsOnMemory DEF TypeOK
  <2>. QED
    BY <2>1 DEF HookInv, OwnerInUserCode, ChildInUserCode, VforkChild
<1>2. CASE ~Running(q)
  BY <1>2 DEF Running, HookInv, OwnerInUserCode, ChildInUserCode
<1>. QED
  BY <1>1, <1>2

-----------------------------------------------------------------------------
(***************************************************************************)
(* The steps of vfork.                                                     *)
(***************************************************************************)
LEMMA VforkBeforeStep ==
  ASSUME VforkInv, NEW p \in Pids, VforkBefore(p)
  PROVE  VforkInv'
<1>. DEFINE r == ExtraSpillArea(mem[p], p, ppid[p])
<1>1. /\ r \in Memory
      /\ r.pid_before_vfork = p
      /\ Quiet(r)
  <2>1. /\ mem[p] \in Memory
        /\ ppid[p] \in Pids \cup {InitPid}
        /\ mem[p].pid_before_vfork = NoPid
        /\ Quiet(mem[p])
    BY DEF VforkInv, TypeOK, HookInv, VforkBefore, OwnerInUserCode, VforkChild
  <2>. QED
    BY <2>1, SpillBefore
<1>2. mem' = [mem EXCEPT ![p] = r] /\ mm[p] = p /\ pc[p] = "user"
  BY DEF VforkBefore, OwnerInUserCode, VforkChild
<1>. HIDE DEF r
<1>3. TypeOK'
  BY <1>1, <1>2 DEF VforkInv, VforkBefore, TypeOK, Pcs
<1>4. MemoryInv'
  BY <1>2 DEF VforkInv, VforkBefore, TypeOK, MemoryInv, VforkChild
<1>5. ASSUME NEW q \in Pids PROVE HookInv(q)'
  <2>1. CASE q = p
    BY <1>1, <1>2, <2>1
    DEF VforkInv, VforkBefore, TypeOK, HookInv, OwnerInUserCode, ChildInUserCode, VforkChild
  <2>2. CASE q # p
    BY <1>2, <2>2, OthersKeepHook DEF VforkInv, VforkBefore, TypeOK, Running
  <2>. QED
    BY <2>1, <2>2
<1>. QED
  BY <1>3, <1>4, <1>5 DEF VforkInv

LEMMA RealVforkStep ==
  ASSUME VforkInv, NEW p \in Pids, NEW c \in Pids, RealVfork(p, c)
  PROVE  VforkInv'
<1>1. TypeOK'
  BY DEF VforkInv, RealVfork, TypeOK, Pcs
<1>2. p # c /\ mm[p] = p /\ mm[c] = c
  BY DEF VforkInv, RealVfork, MemoryInv
<1>3. MemoryInv'
  BY <1>2 DEF VforkInv, RealVfork, TypeOK, MemoryInv, VforkChild
<1>4. ASSUME NEW q \in Pids PROVE HookInv(q)'
  BY <1>2
  DEF VforkInv, RealVfork, TypeOK, HookInv, OwnerInUserCode, ChildInUserCode, VforkChild
<1>. QED
  BY <1>1, <1>3, <1>4 DEF VforkInv

LEMMA RealVforkFailsStep ==
  ASSUME VforkInv, NEW p \in Pids, RealVforkFails(p)
  PROVE  VforkInv'
<1>. DEFINE r == [mem[p] EXCEPT !.vfork_failed = TRUE]
<1>1. /\ r \in Memory
      /\ r.pid_before_vfork = p
      /\ r.vfork_failed = TRUE
  <2>1. mem[p] \in Memory /\ mem[p].pid_before_vfork = p
    BY DEF VforkInv, TypeOK, MemoryInv, HookInv, RealVforkFails
  <2>. QED
    BY <2>1 DEF Memory
<1>2. /\ pc[p] = "before"
      /\ mm[p] = p
      /\ pc' = [pc EXCEPT ![p] = "parent"]
      /\ mem' = [mem EXCEPT ![p] = r]
      /\ UNCHANGED <<ppid, mm, files, died>>
  BY DEF VforkInv, MemoryInv, RealVforkFails
<1>. HIDE DEF r
<1>3. TypeOK'
  BY <1>1, <1>2 DEF VforkInv, TypeOK, Pcs
<1>4. MemoryInv'
  BY <1>2 DEF VforkInv, TypeOK, MemoryInv, VforkChild
<1>5. ASSUME NEW q \in Pids PROVE HookInv(q)'
  <2>1. CASE q = p
    BY <1>1, <1>2, <2>1
    DEF VforkInv, TypeOK, HookInv, Recoverable, OwnerInUserCode, ChildInUserCode, VforkChild
  <2>2. CASE q # p
    BY <1>2, <2>2, OthersKeepHook DEF VforkInv, TypeOK, Running
  <2>. QED
    BY <2>1, <2>2
<1>. QED
  BY <1>3, <1>4, <1>5 DEF VforkInv

LEMMA VforkAfterStep ==
  ASSUME VforkInv, NEW p \in Pids, VforkAfter(p)
  PROVE  VforkInv'
<1>. DEFINE m == mem[mm[p]]
            r == HandleVfork(ExtraSpillArea(m, p, ppid[p]), pc[p] = "parent")
<1>1. CASE ~SpillAreaChecks(m, p)
  BY <1>1
  DEF VforkInv, VforkAfter, TypeOK, MemoryInv, HookInv, OwnerInUserCode, ChildInUserCode, VforkChild
<1>2. CASE SpillAreaChecks(m, p)
  <2>1. /\ mm[p] \in Pids
        /\ m \in Memory
        /\ ppid[p] \in Pids \cup {InitPid}
        /\ pc[p] \in {"child", "parent"}
    BY DEF VforkInv, VforkAfter, TypeOK
  <2>2. /\ mem' = [mem EXCEPT ![mm[p]] = r]
        /\ pc' = [pc EXCEPT ![p] = "user"]
        /\ UNCHANGED <<ppid, mm, files, died>>
    BY <1>2 DEF VforkAfter
  <2>3. /\ r \in Memory
        /\ VforkChild(p) => r.pid_before_vfork = mm[p] /\ Isolated(r)
        /\ ~VforkChild(p) => r.pid_before_vfork = NoPid /\ Quiet(r)
    <3>1. CASE pc[p] = "child"
      <4>1. /\ VforkChild(p) /\ ppid[p] = mm[p] /\ p # mm[p]
            /\ m.pid_before_vfork = mm[p] /\ Quiet(m)
            /\ r = HandleVfork(ExtraSpillArea(m, p, mm[p]), FALSE)
        BY <3>1 DEF VforkInv, MemoryInv, HookInv, VforkChild
      <4>. HIDE DEF m, r
      <4>. QED
        BY <2>1, <4>1, SpillChild
    <3>2. CASE pc[p] = "parent"
      <4>1. /\ ~VforkChild(p)
            /\ m.pid_before_vfork = p
            /\ Recoverable(m)
            /\ r = HandleVfork(ExtraSpillArea(m, p, ppid[p]), TRUE)
        BY <3>2 DEF VforkInv, MemoryInv, HookInv, VforkChild
      <4>. HIDE DEF m, r
      <4>. QED
        BY <1>2, <2>1, <4>1, SpillParent
    <3>. QED
      BY <2>1, <3>1, <3>2
  <2>. HIDE DEF m, r
  <2>4. TypeOK'
    BY <2>1, <2>2, <2>3 DEF VforkInv, TypeOK, Pcs
  <2>5. MemoryInv'
    BY <2>1, <2>2 DEF VforkInv, TypeOK, MemoryInv, VforkChild
  <2>6. ASSUME NEW q \in Pids PROVE HookInv(q)'
    <3>1. CASE q = p
      <4>1. mem'[mm'[p]] = r /\ pc'[p] = "user"
        BY <2>1, <2>2 DEF VforkInv, TypeOK
      <4>. QED
        BY <2>2, <2>3, <3>1, <4>1
        DEF HookInv, OwnerInUserCode, ChildInUserCode, VforkChild
    <3>2. CASE q # p
      BY <2>1, <2>2, <3>2, OthersKeepHook DEF VforkInv, TypeOK, Running
    <3>. QED
      BY <3>1, <3>2
  <2>. QED
    BY <2>4, <2>5, <2>6 DEF VforkInv
<1>. QED
  BY <1>1, <1>2

-----------------------------------------------------------------------------
(***************************************************************************)
(* The steps of processes.                                                 *)
(***************************************************************************)
LEMMA ForkStep ==
  ASSUME VforkInv, NEW p \in Pids, NEW c \in Pids, Fork(p, c)
  PROVE  VforkInv'
<1>1. TypeOK'
  BY DEF VforkInv, Fork, TypeOK, Pcs
<1>2. /\ p # c /\ mm[p] = p /\ mm[c] = c
      /\ pc[p] = "user" /\ pc[c] = "free"
  BY DEF VforkInv, Fork, MemoryInv, OwnerInUserCode, VforkChild
<1>3. MemoryInv'
  BY <1>2 DEF VforkInv, Fork, TypeOK, MemoryInv, VforkChild
<1>4. ASSUME NEW q \in Pids PROVE HookInv(q)'
  <2>1. CASE q = c
    <3>1. mem'[mm'[q]] = mem[mm[p]] /\ pc'[q] = "user" /\ mm'[q] = q
      BY <1>2, <2>1 DEF VforkInv, Fork, TypeOK
    <3>. QED
      BY <1>2, <3>1
      DEF VforkInv, HookInv, OwnerInUserCode, ChildInUserCode, VforkChild
  <2>2. CASE q # c /\ Running(q)
    <3>1. mm[q] # c
      BY <1>2, <2>2, FreeMemoryUnused DEF VforkInv
    <3>2. mem'[mm'[q]] = mem[mm[q]] /\ pc'[q] = pc[q] /\ mm'[q] = mm[q]
      BY <2>2, <3>1 DEF VforkInv, Fork, TypeOK
    <3>. QED
      BY <3>2 DEF VforkInv, HookInv, OwnerInUserCode, ChildInUserCode, VforkChild
  <2>3. CASE q # c /\ ~Running(q)
    <3>1. pc'[q] = pc[q]
      BY <2>3 DEF VforkInv, Fork, TypeOK
    <3>. QED
      BY <2>3, <3>1 DEF HookInv, OwnerInUserCode, ChildInUserCode, Running
  <2>. QED
    BY <2>1, <2>2, <2>3
<1>. QED
  BY <1>1, <1>3, <1>4 DEF VforkInv

\* exec, _exit and exit: m is what a vfork child leaves its parent.
LEMMA LeaveStep ==
  ASSUME VforkInv, NEW p \in Pids, NEW m, Leave(p, m),
         VforkChild(p) => /\ m \in Memory
                          /\ m.pid_before_vfork = mm[p]
                          /\ Isolated(m),
         died' \subseteq Pids
  PROVE  VforkInv'
<1>. DEFINE r == IF VforkChild(p) THEN m ELSE InitialMemory(FALSE)
<1>1. /\ mm[p] \in Pids
      /\ pc[p] = "user"
      /\ pc' = [q \in Pids |->
                  IF q = p THEN "free"
                  ELSE IF VforkChild(p) /\ q = mm[p] THEN "parent" ELSE pc[q]]
      /\ ppid' = [q \in Pids |-> IF q = p \/ ppid[q] = p THEN InitPid ELSE ppid[q]]
      /\ mm' = [mm EXCEPT ![p] = p]
      /\ mem' = [mem EXCEPT ![mm[p]] = r]
      /\ files' = [files EXCEPT ![p] = NoFiles]
  BY DEF VforkInv, TypeOK, Leave
<1>2. r \in Memory
  BY InitialMemoryIsQuiet
<1>3. VforkChild(p) => r.pid_before_vfork = mm[p] /\ Isolated(r)
  OBVIOUS
<1>. HIDE DEF r
<1>4. TypeOK'
  <2>1. NoFiles \in [Fds -> Files \cup {Closed}]
    BY DEF NoFiles
  <2>. QED
    BY <1>1, <1>2, <2>1 DEF VforkInv, TypeOK, Pcs
<1>5. MemoryInv'
  <2>1. ASSUME NEW q \in Pids, VforkChild(q)'
        PROVE  q # p /\ VforkChild(q) /\ mm'[q] = mm[q] /\ mm[q] # p
    BY <1>1, <2>1 DEF VforkInv, TypeOK, MemoryInv, VforkChild
  <2>2. ASSUME NEW q \in Pids, VforkChild(q)'
        PROVE  pc'[mm'[q]] = "suspended" /\ ppid'[q] = mm'[q]
    BY <1>1, <2>1, <2>2 DEF VforkInv, TypeOK, MemoryInv, VforkChild
  <2>3. ASSUME NEW q \in Pids
        PROVE  /\ pc'[q] \in {"free", "before", "parent", "suspended"} => mm'[q] = q
               /\ pc'[q] = "child" => VforkChild(q)'
    BY <1>1 DEF VforkInv, TypeOK, MemoryInv, VforkChild
  <2>. QED
    BY <2>1, <2>2, <2>3 DEF VforkInv, MemoryInv
<1>6. ASSUME NEW q \in Pids PROVE HookInv(q)'
  <2>1. CASE q = p
    BY <1>1, <2>1 DEF HookInv, OwnerInUserCode, ChildInUserCode
  <2>2. CASE q # p /\ VforkChild(p) /\ q = mm[p]
    <3>1. pc'[q] = "parent" /\ mm'[q] = q /\ mem'[mm'[q]] = r
      BY <1>1, <2>2 DEF VforkInv, TypeOK, MemoryInv
    <3>. QED
      BY <1>3, <2>2, <3>1
      DEF HookInv, OwnerInUserCode, ChildInUserCode, Isolated
  <2>3. CASE q # p /\ ~(VforkChild(p) /\ q = mm[p])
    BY <1>1, <2>3, OthersKeepHook DEF VforkInv, TypeOK, Running
  <2>. QED
    BY <2>1, <2>2, <2>3
<1>. QED
  BY <1>4, <1>5, <1>6 DEF VforkInv

\* The memory that user code runs on.
LEMMA UserMemory ==
  ASSUME VforkInv, NEW p \in Pids, pc[p] = "user"
  PROVE  /\ mm[p] \in Pids
         /\ mem[mm[p]] \in Memory
         /\ VforkChild(p) => /\ mem[mm[p]].pid_before_vfork = mm[p]
                             /\ Isolated(mem[mm[p]])
         /\ ~VforkChild(p) => /\ mem[mm[p]].pid_before_vfork = NoPid
                              /\ Quiet(mem[mm[p]])
  BY DEF VforkInv, TypeOK, HookInv, OwnerInUserCode, ChildInUserCode

LEMMA ExecOr_ExitStep ==
  ASSUME VforkInv, NEW p \in Pids, ExecOr_Exit(p)
  PROVE  VforkInv'
<1>1. pc[p] = "user"
  BY DEF ExecOr_Exit, Leave
<1>2. Leave(p, mem[mm[p]]) /\ died' \subseteq Pids
  BY DEF VforkInv, TypeOK, ExecOr_Exit
<1>. QED
  BY <1>1, <1>2, UserMemory, LeaveStep

\* What exit() leaves of a memory.
LEMMA ExitMemory ==
  ASSUME VforkInv, NEW p \in Pids, Exit(p)
  PROVE  \E m : /\ Leave(p, m)
                /\ VforkChild(p) => /\ m \in Memory
                                    /\ m.pid_before_vfork = mm[p]
                                    /\ m.fd_sync = mem[mm[p]].fd_sync
                                    /\ Isolated(m)
<1>. DEFINE old == mem[mm[p]]
            m == IF EnableChecks(old) THEN EnableMainThreadTsan(old) ELSE old
<1>1. Leave(p, m) /\ pc[p] = "user"
  BY DEF Exit, Leave
<1>2. /\ old \in Memory
      /\ VforkChild(p) => old.pid_before_vfork = mm[p] /\ Isolated(old)
  BY <1>1, UserMemory
<1>. HIDE DEF old
<1>3. VforkChild(p) => /\ m \in Memory
                       /\ m.pid_before_vfork = mm[p]
                       /\ m.fd_sync = old.fd_sync
                       /\ Isolated(m)
  <2>1. CASE EnableChecks(old)
    BY <1>2, <2>1, EnableKeepsIsolation
  <2>2. CASE ~EnableChecks(old)
    BY <1>2, <2>2
  <2>. QED
    BY <2>1, <2>2
<1>4. old = mem[mm[p]]
  BY DEF old
<1>. HIDE DEF m
<1>. WITNESS m
<1>. QED
  BY <1>1, <1>3, <1>4

LEMMA ExitStep ==
  ASSUME VforkInv, NEW p \in Pids, Exit(p)
  PROVE  VforkInv'
<1>1. PICK m : /\ Leave(p, m)
               /\ VforkChild(p) => /\ m \in Memory
                                   /\ m.pid_before_vfork = mm[p]
                                   /\ Isolated(m)
  BY ExitMemory
<1>2. died' \subseteq Pids
  BY DEF VforkInv, TypeOK, Exit
<1>. QED
  BY <1>1, <1>2, LeaveStep

-----------------------------------------------------------------------------
(***************************************************************************)
(* The steps of user code on the memory it runs on: function calls and     *)
(* file descriptors.                                                       *)
(***************************************************************************)
\* A step that writes r to the memory that p runs on; r differs from the old
\* memory in what the invariant does not speak of.
LEMMA UserStep ==
  ASSUME VforkInv, NEW p \in Pids, pc[p] = "user", NEW r \in Memory,
         r.pid_before_vfork = mem[mm[p]].pid_before_vfork,
         IF VforkChild(p) THEN Isolated(r) ELSE Quiet(r),
         mem' = [mem EXCEPT ![mm[p]] = r],
         files' \in [Pids -> [Fds -> Files \cup {Closed}]],
         UNCHANGED <<pc, ppid, mm, died>>
  PROVE  VforkInv'
<1>1. mm[p] \in Pids
  BY DEF VforkInv, TypeOK
<1>2. TypeOK'
  BY <1>1 DEF VforkInv, TypeOK
<1>3. MemoryInv'
  BY DEF VforkInv, MemoryInv, VforkChild
<1>4. ASSUME NEW q \in Pids PROVE HookInv(q)'
  <2>1. CASE q = p
    <3>1. mem'[mm'[p]] = r
      BY <1>1 DEF VforkInv, TypeOK
    <3>. QED
      BY <2>1, <3>1, UserMemory
      DEF HookInv, OwnerInUserCode, ChildInUserCode, VforkChild
  <2>2. CASE q # p
    BY <2>2, OthersKeepHook DEF VforkInv, Running
  <2>. QED
    BY <2>1, <2>2
<1>. QED
  BY <1>2, <1>3, <1>4 DEF VforkInv

LEMMA ChildCallsFunctionStep ==
  ASSUME VforkInv, NEW p \in Pids, ChildCallsFunction(p)
  PROVE  VforkInv' /\ mem'[mm[p]].fd_sync = mem[mm[p]].fd_sync
<1>. DEFINE m == mem[mm[p]]
            r == [m EXCEPT !.stack_poisoned = TRUE]
<1>1. /\ pc[p] = "user" /\ VforkChild(p)
      /\ mm[p] \in Pids /\ m \in Memory /\ Isolated(m)
  BY UserMemory DEF ChildCallsFunction, ChildInUserCode
<1>2. /\ mem' = [mem EXCEPT ![mm[p]] = r]
      /\ files' \in [Pids -> [Fds -> Files \cup {Closed}]]
      /\ UNCHANGED <<pc, ppid, mm, died>>
  BY DEF VforkInv, TypeOK, ChildCallsFunction
<1>3. mem'[mm[p]] = r
  BY <1>1, <1>2 DEF VforkInv, TypeOK
<1>4. /\ r \in Memory
      /\ r.pid_before_vfork = m.pid_before_vfork
      /\ r.fd_sync = m.fd_sync
      /\ r.in_vfork_child = m.in_vfork_child
      /\ r.ignore_interceptors = m.ignore_interceptors
      /\ r.vfork_failed = m.vfork_failed
      /\ Raised(m, 1) => Raised(r, 1)
  <2>. HIDE DEF m
  <2>. QED
    BY <1>1 DEF Memory, Raised, Deactivation
<1>. HIDE DEF r
<1>5. Isolated(r)
  BY <1>1, <1>4 DEF Isolated, Recoverable
<1>. QED
  BY <1>1, <1>2, <1>3, <1>4, <1>5, UserStep

\* What the interceptors that touch fdctx do to a memory: nothing in a vfork
\* child, and nothing but the fd table elsewhere.
FdWrite(m, r) == r = m \/ \E t \in [Fds -> Files \cup {Closed}] : r = [m EXCEPT !.fd_sync = t]

\* An interceptor of p that touches descriptors only.
InterceptorWrites(p) ==
  /\ pc[p] = "user"
  /\ \E r : /\ FdWrite(mem[mm[p]], r)
            /\ VforkChild(p) => r = mem[mm[p]]
            /\ mem' = [mem EXCEPT ![mm[p]] = r]
  /\ files' \in [Pids -> [Fds -> Files \cup {Closed}]]
  /\ UNCHANGED <<pc, ppid, mm, died>>

LEMMA FdCreateWrites ==
  ASSUME NEW m \in Memory, NEW fd \in Fds, NEW f \in Files
  PROVE  LET r == IF MustIgnoreInterceptor(m) THEN m ELSE FdCreate(m, fd, f)
         IN  FdWrite(m, r) /\ (Isolated(m) => r = m)
<1>1. [m.fd_sync EXCEPT ![fd] = f] \in [Fds -> Files \cup {Closed}]
  BY DEF Memory
<1>. QED
  BY <1>1 DEF FdWrite, FdCreate, Isolated, MustIgnoreInterceptor

LEMMA FdCloseWrites ==
  ASSUME NEW m \in Memory, NEW fd \in Fds
  PROVE  FdWrite(m, FdClose(m, fd)) /\ (Isolated(m) => FdClose(m, fd) = m)
<1>1. [m.fd_sync EXCEPT ![fd] = Closed] \in [Fds -> Files \cup {Closed}]
  BY DEF Memory
<1>. QED
  BY <1>1 DEF FdWrite, FdClose, Isolated

LEMMA FdDupWrites ==
  ASSUME NEW m \in Memory, NEW oldfd \in Fds, NEW newfd \in Fds
  PROVE  LET r == IF MustIgnoreInterceptor(m) THEN m ELSE FdDup(m, oldfd, newfd)
         IN  FdWrite(m, r) /\ (Isolated(m) => r = m)
<1>. DEFINE t == [m.fd_sync EXCEPT ![newfd] = m.fd_sync[oldfd]]
<1>1. t \in [Fds -> Files \cup {Closed}]
  BY DEF Memory
<1>2. FdDup(m, oldfd, newfd) = [m EXCEPT !.fd_sync = t]
  BY DEF FdDup, FdClose, Memory
<1>. HIDE DEF t
<1>. QED
  BY <1>1, <1>2 DEF FdWrite, Isolated, MustIgnoreInterceptor

LEMMA OpenWrites ==
  ASSUME VforkInv, NEW p \in Pids, NEW fd \in Fds, NEW f \in Files, Open(p, fd, f)
  PROVE  InterceptorWrites(p)
  BY UserMemory, FdCreateWrites, ZenonT(30)
  DEF VforkInv, TypeOK, Open, InterceptorWrites

LEMMA CloseWrites ==
  ASSUME VforkInv, NEW p \in Pids, NEW fd \in Fds, Close(p, fd)
  PROVE  InterceptorWrites(p)
  BY UserMemory, FdCloseWrites DEF VforkInv, TypeOK, Close, InterceptorWrites

LEMMA Dup2Writes ==
  ASSUME VforkInv, NEW p \in Pids, NEW oldfd \in Fds, NEW newfd \in Fds,
         Dup2(p, oldfd, newfd)
  PROVE  InterceptorWrites(p)
<1>. DEFINE m == mem[mm[p]]
            r == IF MustIgnoreInterceptor(m) THEN m ELSE FdDup(m, oldfd, newfd)
<1>1. mm[p] \in Pids /\ m \in Memory /\ (VforkChild(p) => Isolated(m))
  BY UserMemory DEF Dup2
<1>2. FdWrite(m, r) /\ (VforkChild(p) => r = m)
  <2>. HIDE DEF m
  <2>. QED
    BY <1>1, FdDupWrites
<1>3. files' \in [Pids -> [Fds -> Files \cup {Closed}]]
  <2>1. files[p][oldfd] \in Files \cup {Closed}
    BY DEF VforkInv, TypeOK
  <2>. QED
    BY <2>1 DEF VforkInv, TypeOK, Dup2
<1>4. /\ pc[p] = "user"
      /\ mem' = [mem EXCEPT ![mm[p]] = r]
      /\ UNCHANGED <<pc, ppid, mm, died>>
  BY <1>1 DEF VforkInv, TypeOK, Dup2
<1>. HIDE DEF r
<1>. QED
  BY <1>2, <1>3, <1>4 DEF InterceptorWrites

LEMMA InterceptorStep ==
  ASSUME VforkInv, NEW p \in Pids, InterceptorWrites(p)
  PROVE  VforkInv'
<1>. DEFINE m == mem[mm[p]]
<1>1. PICK r : /\ FdWrite(m, r)
               /\ VforkChild(p) => r = m
               /\ mem' = [mem EXCEPT ![mm[p]] = r]
  BY DEF InterceptorWrites
<1>2. /\ pc[p] = "user"
      /\ files' \in [Pids -> [Fds -> Files \cup {Closed}]]
      /\ UNCHANGED <<pc, ppid, mm, died>>
  BY DEF InterceptorWrites
<1>3. /\ m \in Memory
      /\ IF VforkChild(p) THEN Isolated(m) ELSE Quiet(m)
  BY <1>2, UserMemory
<1>. HIDE DEF m
<1>4. /\ r \in Memory
      /\ r.pid_before_vfork = m.pid_before_vfork
      /\ Quiet(m) => Quiet(r)
  BY <1>1, <1>3 DEF FdWrite, Memory, Quiet, Raised, Deactivation
<1>. QED
  BY <1>1, <1>2, <1>3, <1>4, UserStep DEF m

-----------------------------------------------------------------------------
(***************************************************************************)
(* The fd table of a suspended process.                                    *)
(***************************************************************************)
\* A step of q writes no memory but the one it runs on, and leaves the fd
\* table there as it was if q is a vfork child.
LEMMA VforkKeepsFdTable ==
  ASSUME VforkInv, NEW q \in Pids, VforkStep(q), NEW p \in Pids, pc[p] = "suspended"
  PROVE  mem'[p].fd_sync = mem[p].fd_sync
<1>1. CASE VforkBefore(q)
  BY <1>1 DEF VforkInv, TypeOK, VforkBefore, OwnerInUserCode
<1>2. CASE \E c \in Pids : RealVfork(q, c)
  BY <1>2 DEF RealVfork
<1>3. CASE RealVforkFails(q)
  BY <1>3 DEF VforkInv, TypeOK, RealVforkFails
<1>4. CASE VforkAfter(q)
  <2>. DEFINE m == mem[mm[q]]
  <2>1. CASE mm[q] = p /\ SpillAreaChecks(m, q)
    <3>1. pc[q] = "child" /\ q # mm[q]
      BY <1>4, <2>1 DEF VforkInv, MemoryInv, VforkAfter, VforkChild
    <3>2. ppid[q] = mm[q] /\ m.pid_before_vfork = mm[q] /\ Quiet(m)
      BY <3>1 DEF VforkInv, MemoryInv, HookInv, VforkChild
    <3>3. mm[q] \in Pids /\ m \in Memory
      BY DEF VforkInv, TypeOK
    <3>4. mem' = [mem EXCEPT ![mm[q]] =
                    HandleVfork(ExtraSpillArea(m, q, ppid[q]), pc[q] = "parent")]
      BY <1>4, <2>1 DEF VforkAfter
    <3>5. mem'[mm[q]] = HandleVfork(ExtraSpillArea(m, q, mm[q]), FALSE)
      <4>1. mem'[mm[q]] = HandleVfork(ExtraSpillArea(m, q, ppid[q]), pc[q] = "parent")
        BY <3>3, <3>4 DEF VforkInv, TypeOK
      <4>2. HandleVfork(ExtraSpillArea(m, q, ppid[q]), pc[q] = "parent") =
              HandleVfork(ExtraSpillArea(m, q, ppid[q]), FALSE)
        BY <3>1 DEF HandleVfork
      <4>. QED
        BY <3>2, <4>1, <4>2
    <3>. HIDE DEF m
    <3>6. HandleVfork(ExtraSpillArea(m, q, mm[q]), FALSE).fd_sync = m.fd_sync
      BY <3>1, <3>2, <3>3, SpillChild
    <3>. QED
      BY <2>1, <3>5, <3>6 DEF m
  <2>2. CASE mm[q] # p \/ ~SpillAreaChecks(m, q)
    <3>1. mem'[p] = mem[p]
      BY <1>4, <2>2 DEF VforkInv, TypeOK, VforkAfter
    <3>. QED
      BY <3>1
  <2>. QED
    BY <2>1, <2>2
<1>. QED
  BY <1>1, <1>2, <1>3, <1>4 DEF VforkStep

LEMMA LeavingKeepsFdTable ==
  ASSUME VforkInv, NEW q \in Pids, NEW m, Leave(q, m),
         VforkChild(q) => m.fd_sync = mem[mm[q]].fd_sync,
         NEW p \in Pids, pc[p] = "suspended"
  PROVE  mem'[p].fd_sync = mem[p].fd_sync
  BY DEF VforkInv, TypeOK, Leave, VforkChild

LEMMA ProcessKeepsFdTable ==
  ASSUME VforkInv, NEW q \in Pids, ProcessStep(q), NEW p \in Pids, pc[p] = "suspended"
  PROVE  mem'[p].fd_sync = mem[p].fd_sync
<1>1. CASE \E c \in Pids : Fork(q, c)
  BY <1>1 DEF VforkInv, TypeOK, Fork
<1>2. CASE ExecOr_Exit(q)
  BY <1>2, LeavingKeepsFdTable DEF ExecOr_Exit
<1>3. CASE Exit(q)
  <2>1. PICK m : Leave(q, m) /\ (VforkChild(q) => m.fd_sync = mem[mm[q]].fd_sync)
    BY <1>3, ExitMemory
  <2>. QED
    BY <2>1, LeavingKeepsFdTable
<1>4. CASE ChildCallsFunction(q)
  <2>1. mem'[mm[q]].fd_sync = mem[mm[q]].fd_sync
    BY <1>4, ChildCallsFunctionStep
  <2>2. mm[q] # p => mem'[p] = mem[p]
    BY <1>4 DEF VforkInv, TypeOK, ChildCallsFunction
  <2>. QED
    BY <2>1, <2>2
<1>. QED
  BY <1>1, <1>2, <1>3, <1>4 DEF ProcessStep

LEMMA InterceptorKeepsFdTable ==
  ASSUME VforkInv, NEW q \in Pids, InterceptorWrites(q), NEW p \in Pids, pc[p] = "suspended"
  PROVE  mem'[p].fd_sync = mem[p].fd_sync
<1>1. mm[q] = p => VforkChild(q)
  BY DEF InterceptorWrites, VforkChild
<1>2. mem'[p] = mem[p]
  BY <1>1 DEF VforkInv, TypeOK, InterceptorWrites
<1>. QED
  BY <1>2

-----------------------------------------------------------------------------
(***************************************************************************)
(* The theorems.                                                           *)
(***************************************************************************)
LEMMA FdWrites ==
  ASSUME VforkInv, NEW p \in Pids, FdStep(p)
  PROVE  InterceptorWrites(p)
  BY OpenWrites, CloseWrites, Dup2Writes DEF FdStep

LEMMA InitEstablishesVfork == Init => VforkInv
<1>. SUFFICES ASSUME Init PROVE VforkInv
  OBVIOUS
<1>1. \A p \in Pids : mem[p] \in Memory /\ mem[p].pid_before_vfork = NoPid /\ Quiet(mem[p])
  BY InitialMemoryIsQuiet DEF Init
<1>2. TypeOK
  <2>1. DOMAIN mem = Pids /\ mem = [p \in Pids |-> mem[p]]
    BY DEF Init
  <2>2. NoFiles \in [Fds -> Files \cup {Closed}]
    BY DEF NoFiles
  <2>. QED
    BY <1>1, <2>1, <2>2 DEF Init, TypeOK, Pcs
<1>3. MemoryInv
  BY DEF Init, MemoryInv, VforkChild
<1>4. ASSUME NEW p \in Pids PROVE HookInv(p)
  BY <1>1 DEF Init, HookInv, OwnerInUserCode, ChildInUserCode, VforkChild
<1>. QED
  BY <1>2, <1>3, <1>4 DEF VforkInv

LEMMA NextKeepsVfork ==
  ASSUME VforkInv, [Next]_vars
  PROVE  VforkInv'
<1>1. ASSUME NEW p \in Pids, VforkStep(p) PROVE VforkInv'
  BY <1>1, VforkBeforeStep, RealVforkStep, RealVforkFailsStep, VforkAfterStep DEF VforkStep
<1>2. ASSUME NEW p \in Pids, ProcessStep(p) PROVE VforkInv'
  BY <1>2, ForkStep, ExecOr_ExitStep, ExitStep, ChildCallsFunctionStep DEF ProcessStep
<1>3. ASSUME NEW p \in Pids, FdStep(p) PROVE VforkInv'
  BY <1>3, FdWrites, InterceptorStep
<1>4. CASE UNCHANGED vars
  BY <1>4
  DEF vars, VforkInv, TypeOK, MemoryInv, HookInv, OwnerInUserCode, ChildInUserCode, VforkChild
<1>. QED
  BY <1>1, <1>2, <1>3, <1>4 DEF Next, Terminated

LEMMA VforkInvHolds == Spec => []VforkInv
<1>1. Init => VforkInv
  BY InitEstablishesVfork
<1>2. VforkInv /\ [Next]_vars => VforkInv'
  BY NextKeepsVfork
<1>. QED
  BY <1>1, <1>2, PTL DEF Spec

\* Among the rest, the unsigned ignore counters never go below zero.
THEOREM VforkTypeCorrect == Spec => []TypeOK
<1>1. VforkInv => TypeOK
  BY DEF VforkInv
<1>. QED
  BY <1>1, VforkInvHolds, PTL

\* pid_before_vfork, by which __xsan_extra_spill_area tells its calls apart,
\* is back at -1 whenever code that may fork or vfork again runs, for every
\* set of processes and however their ids are reused.
THEOREM HookIsRecovered == Spec => []HookRecovered
<1>1. VforkInv => HookRecovered
  BY UserMemory DEF HookRecovered, OwnerInUserCode, VforkChild
<1>. QED
  BY <1>1, VforkInvHolds, PTL

\* DisableTsanForVfork and RecoverTsanAfterVforkParent reach the processes
\* they are meant for: TSan is off in the user code of vfork children and in
\* no process that owns its memory.
THEOREM VforkChildIsIsolated == Spec => []ChildIsIsolated
<1>1. VforkInv => ChildIsIsolated
  <2>. SUFFICES ASSUME VforkInv, NEW p \in Pids
                PROVE  /\ (ChildInUserCode(p) /\ ~mem[mm[p]].vfork_failed) =>
                            LET m == mem[mm[p]] IN
                            /\ m.in_vfork_child
                            /\ m.ignore_interceptors > 0
                            /\ m.suppress_reports > 0
                            /\ m.ignore_reads_and_writes > 0
                            /\ m.ignore_sync > 0
                       /\ OwnerInUserCode(p) => ~mem[p].in_vfork_child
    BY DEF ChildIsIsolated
  <2>1. OwnerInUserCode(p) => ~mem[p].in_vfork_child
    BY UserMemory DEF OwnerInUserCode, VforkChild, Quiet
  <2>2. ASSUME ChildInUserCode(p), ~mem[mm[p]].vfork_failed
        PROVE  LET m == mem[mm[p]] IN
               /\ m.in_vfork_child
               /\ m.ignore_interceptors > 0
               /\ m.suppress_reports > 0
               /\ m.ignore_reads_and_writes > 0
               /\ m.ignore_sync > 0
    BY <2>2, UserMemory DEF ChildInUserCode, Isolated, Recoverable, Raised, Deactivation
  <2>. QED
    BY <2>1, <2>2
<1>. QED
  BY <1>1, VforkInvHolds, PTL

\* Unless a vfork failed, the counters that vfork raised in the child are
\* those of the parent's activation state again when the parent runs on.
THEOREM VforkRecoversCounters == Spec => []CountersRecovered
<1>1. VforkInv => CountersRecovered
  BY UserMemory
  DEF CountersRecovered, OwnerInUserCode, VforkChild, Quiet, Raised, Memory, Deactivation
<1>. QED
  BY <1>1, VforkInvHolds, PTL

\* handle_vfork runs in the parent only, yet no vfork leaves the stack of a
\* process poisoned.
THEOREM VforkCleansStack == Spec => []ParentStackClean
<1>1. VforkInv => ParentStackClean
  BY UserMemory DEF ParentStackClean, OwnerInUserCode, VforkChild, Quiet
<1>. QED
  BY <1>1, VforkInvHolds, PTL

\* No interceptor that a vfork child runs, and neither of its two exits,
\* changes TSan's fd table in the memory of the suspended parent.
THEOREM FdTableIsKept == Spec => FdTableKeptDuringVfork
<1>1. VforkInv /\ [Next]_vars =>
        \A p \in Pids : pc[p] = "suspended" => mem'[p].fd_sync = mem[p].fd_sync
  <2>. SUFFICES ASSUME VforkInv, [Next]_vars, NEW p \in Pids, pc[p] = "suspended"
                PROVE  mem'[p].fd_sync = mem[p].fd_sync
    OBVIOUS
  <2>1. ASSUME NEW q \in Pids, VforkStep(q) \/ ProcessStep(q) \/ FdStep(q)
        PROVE  mem'[p].fd_sync = mem[p].fd_sync
    BY <2>1, VforkKeepsFdTable, ProcessKeepsFdTable, FdWrites, InterceptorKeepsFdTable
  <2>2. CASE UNCHANGED vars
    BY <2>2 DEF vars
  <2>. QED
    BY <2>1, <2>2 DEF Next, Terminated
<1>. QED
  BY <1>1, VforkInvHolds, PTL DEF Spec, FdTableKeptDuringVfork

=============================================================================
