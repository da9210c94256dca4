-------------------------- MODULE XsanPthreadProofs --------------------------
(***************************************************************************)
(* Theorems about XsanPthread: no CHECK of the runtime fails, and joins and*)
(* detaches act on the thread the program meant, however they interleave   *)
(* with creations, exits, a fork and the reuse of pthread_t values.        *)
(*                                                                         *)
(* In three parts. The registry: what each of its operations does to a     *)
(* registry in good order. The table of arguments and return values, and   *)
(* the threads as libc has them: StructInv says which thread each pthread_t*)
(* stands for and which thread each operation under way is about; it is    *)
(* inductive because libc gives a pthread_t again only once its thread was *)
(* joined or has exited detached. ArgInv says, on top of it, what the table*)
(* holds for each of these threads, and NoStaleInv that it holds nothing   *)
(* for others, as long as nobody forks; KeptInv follows each thread created*)
(* and maps every step of the table to one of KeptArgs. Then both together:*)
(* TidInv says what the registry knows of the threads; it is inductive on  *)
(* top of StructInv.                                                       *)
(***************************************************************************)
EXTENDS XsanPthread, SequenceTheorems, FiniteSetTheorems, TLAPS

-----------------------------------------------------------------------------
(***************************************************************************)
(* The registry: the conditions under which the CHECKs of an operation     *)
(* hold, that it keeps the order, and that it touches no context in use but*)
(* the one that is named.                                                  *)
(***************************************************************************)

\* A context that stands for a thread which somebody may still refer to.
InUse(c) == c.status \in {"Created", "Running", "Finished"}

\* The queue q holds contexts of this status, each of them once.
HoldsOnce(ctxs, q, status) ==
  /\ \A i \in DOMAIN q : ctxs[q[i]].status = status
  /\ \A i, j \in DOMAIN q : i # j => q[i] # q[j]

QueuesInv ==
  /\ HoldsOnce(threads_, dead_threads_, "Dead")
  /\ HoldsOnce(threads_, invalid_threads_, "Invalid")

\* live_ and the user ids of the contexts are inverse to each other; only a
\* context in use has one.
UsersInv ==
  /\ \A u \in DOMAIN live_ : threads_[live_[u]].user_id = u
  /\ \A t \in DOMAIN threads_ :
       threads_[t].user_id # NoHandle =>
         /\ threads_[t].user_id \in DOMAIN live_
         /\ live_[threads_[t].user_id] = t
         /\ InUse(threads_[t])

AliveTids == {t \in DOMAIN threads_ : threads_[t].status \in {"Created", "Running"}}
RunningTids == {t \in DOMAIN threads_ : threads_[t].status = "Running"}

CountersInv ==
  /\ alive_threads_ = Cardinality(AliveTids)
  /\ running_threads_ = Cardinality(RunningTids)

MainInv ==
  /\ kMainTid \in DOMAIN threads_
  /\ threads_[kMainTid].status = "Running"
  /\ threads_[kMainTid].serial = 0

RegistryInv == RegistryTypeOK /\ QueuesInv /\ UsersInv /\ CountersInv /\ MainInv

\* No context in use but that of t changes, and none changes its thread.
OnlyTouches(t) ==
  /\ DOMAIN threads_ \subseteq DOMAIN threads_'
  /\ \A s \in DOMAIN threads_ \ {t} :
       /\ threads_'[s].serial = threads_[s].serial
       /\ InUse(threads_[s]) => threads_'[s] = threads_[s]

\* Nor does any context come to stand for another thread.
SameThreads ==
  /\ DOMAIN threads_' = DOMAIN threads_
  /\ \A t \in DOMAIN threads_ : threads_'[t].serial = threads_[t].serial

-----------------------------------------------------------------------------
(***************************************************************************)
(* The quarantine.                                                         *)
(***************************************************************************)
LEMMA ThreadsDomain ==
  ASSUME RegistryTypeOK
  PROVE  /\ Len(threads_) \in Nat
         /\ DOMAIN threads_ = 1 .. Len(threads_)
         /\ IsFiniteSet(DOMAIN threads_)
         /\ \A t \in DOMAIN threads_ : threads_[t] \in ThreadContexts
<1>1. /\ Len(threads_) \in Nat
      /\ DOMAIN threads_ = 1 .. Len(threads_)
      /\ \A t \in DOMAIN threads_ : threads_[t] \in ThreadContexts
  BY LenProperties, ElementOfSeq DEF RegistryTypeOK
<1>. QED
  BY <1>1, FS_Interval

\* What Append and Tail keep of a queue whose members are distinct.
LEMMA AppendOnce ==
  ASSUME NEW ctxs, NEW S, NEW q \in Seq(S), NEW e \in S, NEW status,
         HoldsOnce(ctxs, q, status),
         ctxs[e].status = status,
         \A i \in DOMAIN q : q[i] # e
  PROVE  /\ Append(q, e) \in Seq(S)
         /\ HoldsOnce(ctxs, Append(q, e), status)
<1>. DEFINE r == Append(q, e)
<1>1. /\ r \in Seq(S)
      /\ Len(r) = Len(q) + 1
      /\ r[Len(q) + 1] = e
      /\ \A i \in 1 .. Len(q) : r[i] = q[i]
  BY AppendProperties
<1>2. \A i \in DOMAIN r : i \in DOMAIN q \/ i = Len(q) + 1
  BY <1>1
<1>3. \A i \in DOMAIN q : r[i] = q[i]
  BY <1>1
<1>. HIDE DEF r
<1>4. \A i \in DOMAIN r : ctxs[r[i]].status = status
  BY <1>1, <1>2, <1>3 DEF HoldsOnce
<1>5. \A i, j \in DOMAIN r : i # j => r[i] # r[j]
  BY <1>1, <1>2, <1>3 DEF HoldsOnce
<1>. QED
  BY <1>1, <1>4, <1>5 DEF HoldsOnce, r

LEMMA TailOnce ==
  ASSUME NEW ctxs, NEW S, NEW q \in Seq(S), q # <<>>, NEW status,
         HoldsOnce(ctxs, q, status)
  PROVE  /\ Head(q) \in S /\ ctxs[Head(q)].status = status
         /\ Tail(q) \in Seq(S)
         /\ HoldsOnce(ctxs, Tail(q), status)
         /\ \A i \in DOMAIN Tail(q) : Tail(q)[i] \in S \ {Head(q)}
<1>. DEFINE r == Tail(q)
<1>1. /\ r \in Seq(S)
      /\ Len(r) = Len(q) - 1
      /\ \A i \in 1 .. Len(r) : r[i] = q[i + 1]
      /\ Head(q) = q[1] /\ Head(q) \in S
  BY HeadTailProperties
<1>2. 1 \in DOMAIN q
  BY <1>1
<1>3. \A i \in DOMAIN r : i + 1 \in DOMAIN q /\ i + 1 # 1 /\ r[i] = q[i + 1]
  BY <1>1
<1>4. \A i, j \in DOMAIN r : i # j => i + 1 # j + 1
  BY <1>1
<1>5. \A i \in DOMAIN r : r[i] \in S
  BY <1>1
<1>. HIDE DEF r
<1>6. \A i \in DOMAIN r : ctxs[r[i]].status = status /\ r[i] # q[1]
  BY <1>2, <1>3 DEF HoldsOnce
<1>7. \A i, j \in DOMAIN r : i # j => r[i] # r[j]
  BY <1>3, <1>4 DEF HoldsOnce
<1>. QED
  BY <1>1, <1>2, <1>5, <1>6, <1>7 DEF HoldsOnce, r

\* A context that is not in the queue may change.
LEMMA KeptOnce ==
  ASSUME NEW ctxs, NEW other, NEW q, NEW S, NEW e, NEW status,
         HoldsOnce(ctxs, q, status),
         \A i \in DOMAIN q : q[i] \in S \ {e},
         \A s \in S \ {e} : other[s] = ctxs[s]
  PROVE  HoldsOnce(other, q, status)
  BY DEF HoldsOnce

\* A context put into the quarantine, with what that may reset.
LEMMA PushEffect ==
  ASSUME RegistryTypeOK, QueuesInv,
         NEW t \in DOMAIN threads_, t # kMainTid, InUse(threads_[t]),
         NEW c \in ThreadContexts, c.status = "Dead", NEW finishing \in BOOLEAN,
         QuarantinePush([threads_ EXCEPT ![t] = c], t, finishing)
  PROVE  /\ threads_' \in Seq(ThreadContexts)
         /\ DOMAIN threads_' = DOMAIN threads_
         /\ dead_threads_' \in Seq(DOMAIN threads_)
         /\ invalid_threads_' \in Seq(DOMAIN threads_)
         /\ QueuesInv'
         /\ ~InUse(threads_'[t])
         /\ threads_'[t].user_id = c.user_id
         /\ threads_'[t].serial = c.serial
         /\ \A s \in DOMAIN threads_ \ {t} :
              /\ threads_'[s].user_id = threads_[s].user_id
              /\ threads_'[s].serial = threads_[s].serial
              /\ InUse(threads_[s]) => threads_'[s] = threads_[s]
              /\ ~InUse(threads_[s]) => ~InUse(threads_'[s])
<1>. DEFINE ctxs == [threads_ EXCEPT ![t] = c]
            dead == Append(dead_threads_, t)
            old  == Head(dead)
            reused == ctxs[old].reuse_count + 1
<1>1. /\ threads_ \in Seq(ThreadContexts)
      /\ dead_threads_ \in Seq(DOMAIN threads_)
      /\ invalid_threads_ \in Seq(DOMAIN threads_)
  BY DEF RegistryTypeOK
<1>2. /\ ctxs \in Seq(ThreadContexts)
      /\ DOMAIN ctxs = DOMAIN threads_
      /\ ctxs[t] = c
      /\ \A s \in DOMAIN threads_ \ {t} : ctxs[s] = threads_[s]
  BY <1>1
<1>3. /\ dead \in Seq(DOMAIN threads_)
      /\ Len(dead) = Len(dead_threads_) + 1
      /\ DOMAIN dead = 1 .. Len(dead_threads_) + 1
      /\ dead[Len(dead_threads_) + 1] = t
      /\ \A i \in DOMAIN dead_threads_ : i \in DOMAIN dead /\ dead[i] = dead_threads_[i]
      /\ dead # <<>>
  <2>. HIDE DEF ctxs, old, reused
  <2>1. dead \in Seq(DOMAIN threads_)
    BY <1>1
  <2>2. /\ Len(dead) = Len(dead_threads_) + 1
        /\ DOMAIN dead = 1 .. Len(dead_threads_) + 1
        /\ dead[Len(dead_threads_) + 1] = t
    BY <1>1
  <2>3. \A i \in DOMAIN dead_threads_ : i \in DOMAIN dead /\ dead[i] = dead_threads_[i]
    BY <1>1
  <2>. HIDE DEF dead
  <2>. QED
    BY <1>1, <2>1, <2>2, <2>3
<1>4. HoldsOnce(ctxs, dead, "Dead") /\ HoldsOnce(ctxs, invalid_threads_, "Invalid")
  <2>1. \A i \in DOMAIN dead_threads_ : dead_threads_[i] \in DOMAIN threads_ \ {t}
    BY <1>1 DEF QueuesInv, HoldsOnce, InUse
  <2>2. \A i \in DOMAIN invalid_threads_ : invalid_threads_[i] \in DOMAIN threads_ \ {t}
    BY <1>1 DEF QueuesInv, HoldsOnce, InUse
  <2>. HIDE DEF ctxs
  <2>3. /\ HoldsOnce(ctxs, dead_threads_, "Dead")
        /\ HoldsOnce(ctxs, invalid_threads_, "Invalid")
    BY <1>2, <2>1, <2>2, KeptOnce DEF QueuesInv
  <2>4. HoldsOnce(ctxs, dead, "Dead")
    BY <1>1, <1>2, <2>1, <2>3, AppendOnce
  <2>. QED
    BY <2>3, <2>4
<1>5. CASE Len(dead) <= thread_quarantine_size_
  <2>1. threads_' = ctxs /\ dead_threads_' = dead /\ invalid_threads_' = invalid_threads_
    BY <1>5 DEF QuarantinePush
  <2>. HIDE DEF ctxs, dead
  <2>. QED
    BY <1>1, <1>2, <1>3, <1>4, <2>1 DEF QueuesInv, InUse
<1>6. CASE ~(Len(dead) <= thread_quarantine_size_)
  <2>. DEFINE reset == [ctxs EXCEPT ![old].status = "Invalid",
                                   ![old].thread_destroyed = (old = t /\ finishing),
                                   ![old].reuse_count = reused]
  <2>1. /\ threads_' = reset
        /\ dead_threads_' = Tail(dead)
        /\ invalid_threads_' \in {invalid_threads_, Append(invalid_threads_, old)}
    BY <1>6 DEF QuarantinePush
  <2>2. old \in DOMAIN threads_ /\ old = dead[1] /\ ctxs[old].status = "Dead"
    BY <1>1, <1>3, <1>4 DEF HoldsOnce
  <2>3. /\ reset \in Seq(ThreadContexts)
        /\ DOMAIN reset = DOMAIN threads_
        /\ reset[old].status = "Invalid"
        /\ reset[old].user_id = ctxs[old].user_id
        /\ reset[old].serial = ctxs[old].serial
        /\ \A s \in DOMAIN threads_ \ {old} : reset[s] = ctxs[s]
    <3>1. ctxs[old] \in ThreadContexts /\ reused \in Nat
      <4>. HIDE DEF ctxs, dead, old
      <4>1. ctxs[old] \in ThreadContexts
        BY <1>2, <2>2
      <4>2. ctxs[old].reuse_count \in Nat
        BY <4>1 DEF ThreadContexts
      <4>. QED
        BY <4>1, <4>2
    <3>2. DEFINE r == [ctxs[old] EXCEPT !.status = "Invalid",
                                       !.thread_destroyed = (old = t /\ finishing),
                                       !.reuse_count = reused]
    <3>. HIDE DEF ctxs, dead, old, reused
    <3>3. /\ r \in ThreadContexts
          /\ r.status = "Invalid"
          /\ r.user_id = ctxs[old].user_id
          /\ r.serial = ctxs[old].serial
      BY <3>1 DEF ThreadContexts, ThreadStatus
    <3>4. reset = [ctxs EXCEPT ![old] = r]
      <4>1. old \in DOMAIN ctxs
        BY <1>2, <2>2
      <4>2. DOMAIN reset = DOMAIN ctxs
        OBVIOUS
      <4>3. reset[old] = r
        BY <4>1
      <4>4. \A s \in DOMAIN ctxs \ {old} : reset[s] = ctxs[s]
        BY <4>1
      <4>5. reset = [s \in DOMAIN ctxs |-> reset[s]]
        OBVIOUS
      <4>. HIDE DEF r, reset
      <4>. QED
        BY <4>1, <4>2, <4>3, <4>4, <4>5
    <3>. HIDE DEF r, reset
    <3>. QED
      BY <1>2, <2>2, <3>3, <3>4
  <2>4. /\ Tail(dead) \in Seq(DOMAIN threads_)
        /\ HoldsOnce(reset, Tail(dead), "Dead")
    <3>. HIDE DEF ctxs, reset, dead
    <3>1. /\ Tail(dead) \in Seq(DOMAIN threads_)
          /\ HoldsOnce(ctxs, Tail(dead), "Dead")
          /\ \A i \in DOMAIN Tail(dead) : Tail(dead)[i] \in DOMAIN threads_ \ {old}
      BY <1>3, <1>4, TailOnce
    <3>. HIDE DEF old
    <3>2. HoldsOnce(reset, Tail(dead), "Dead")
      BY <2>3, <3>1, KeptOnce
    <3>. QED
      BY <3>1, <3>2
  <2>5. /\ invalid_threads_' \in Seq(DOMAIN threads_)
        /\ HoldsOnce(reset, invalid_threads_', "Invalid")
    <3>1. \A i \in DOMAIN invalid_threads_ : invalid_threads_[i] \in DOMAIN threads_ \ {old}
      <4>. HIDE DEF ctxs, dead, old
      <4>. QED
        BY <1>1, <1>4, <2>2 DEF HoldsOnce
    <3>. HIDE DEF ctxs, reset, dead, old
    <3>2. HoldsOnce(reset, invalid_threads_, "Invalid")
      BY <1>4, <2>3, <3>1, KeptOnce
    <3>3. /\ Append(invalid_threads_, old) \in Seq(DOMAIN threads_)
          /\ HoldsOnce(reset, Append(invalid_threads_, old), "Invalid")
      BY <1>1, <2>2, <2>3, <3>1, <3>2, AppendOnce
    <3>. QED
      BY <1>1, <2>1, <3>2, <3>3
  <2>. HIDE DEF ctxs, reset, dead, old
  <2>6. threads_'[t].status \in {"Dead", "Invalid"}
    BY <1>2, <2>1, <2>3
  <2>. QED
    BY <1>2, <2>1, <2>2, <2>3, <2>4, <2>5, <2>6, ZenonT(30) DEF QueuesInv, InUse
<1>. QED
  BY <1>5, <1>6

\* The end of a context in use: FinishThread of a detached thread, JoinThread
\* and DetachThread of a finished one.
Retire(t, c, finishing) ==
  /\ live_' = EraseLive(threads_[t].user_id)
  /\ QuarantinePush([threads_ EXCEPT ![t] = [c EXCEPT !.status = "Dead",
                                                    !.user_id = NoHandle]], t, finishing)

LEMMA RetireEffect ==
  ASSUME RegistryTypeOK, QueuesInv, UsersInv, MainInv,
         NEW t \in DOMAIN threads_, t # kMainTid, InUse(threads_[t]),
         NEW c \in ThreadContexts, c.serial = threads_[t].serial,
         NEW finishing \in BOOLEAN, Retire(t, c, finishing)
  PROVE  /\ threads_' \in Seq(ThreadContexts)
         /\ DOMAIN threads_' = DOMAIN threads_
         /\ dead_threads_' \in Seq(DOMAIN threads_)
         /\ invalid_threads_' \in Seq(DOMAIN threads_)
         /\ DOMAIN live_' = DOMAIN live_ \ {threads_[t].user_id}
         /\ \A u \in DOMAIN live_' : live_'[u] = live_[u]
         /\ QueuesInv' /\ UsersInv' /\ MainInv'
         /\ OnlyTouches(t)
         /\ ~InUse(threads_'[t]) /\ threads_'[t].serial = threads_[t].serial
         /\ AliveTids' = AliveTids \ {t}
         /\ RunningTids' = RunningTids \ {t}
<1>. DEFINE d == [c EXCEPT !.status = "Dead", !.user_id = NoHandle]
<1>1. /\ d \in ThreadContexts
      /\ d.status = "Dead"
      /\ d.user_id = NoHandle
      /\ d.serial = threads_[t].serial
  BY DEF ThreadContexts, ThreadStatus
<1>2. QuarantinePush([threads_ EXCEPT ![t] = d], t, finishing)
  BY DEF Retire
<1>. HIDE DEF d
<1>3. /\ threads_' \in Seq(ThreadContexts)
      /\ DOMAIN threads_' = DOMAIN threads_
      /\ dead_threads_' \in Seq(DOMAIN threads_)
      /\ invalid_threads_' \in Seq(DOMAIN threads_)
      /\ QueuesInv'
      /\ ~InUse(threads_'[t])
      /\ threads_'[t].user_id = NoHandle
      /\ threads_'[t].serial = threads_[t].serial
      /\ \A s \in DOMAIN threads_ \ {t} :
           /\ threads_'[s].user_id = threads_[s].user_id
           /\ threads_'[s].serial = threads_[s].serial
           /\ InUse(threads_[s]) => threads_'[s] = threads_[s]
           /\ ~InUse(threads_[s]) => ~InUse(threads_'[s])
  BY <1>1, <1>2, PushEffect
<1>4. /\ DOMAIN live_' = DOMAIN live_ \ {threads_[t].user_id}
      /\ \A u \in DOMAIN live_' : live_'[u] = live_[u]
  BY DEF Retire, EraseLive, Restrict
<1>5. UsersInv'
  <2>1. \A u \in DOMAIN live_' : live_[u] \in DOMAIN threads_ \ {t}
    BY <1>4 DEF UsersInv, RegistryTypeOK
  <2>2. ASSUME NEW u \in DOMAIN live_' PROVE threads_'[live_'[u]].user_id = u
    <3>1. u \in DOMAIN live_ /\ live_'[u] = live_[u]
      BY <1>4
    <3>2. threads_[live_[u]].user_id = u
      BY <3>1 DEF UsersInv
    <3>. QED
      BY <1>3, <2>1, <3>1, <3>2
  <2>3. ASSUME NEW s \in DOMAIN threads_', threads_'[s].user_id # NoHandle
        PROVE  /\ threads_'[s].user_id \in DOMAIN live_'
               /\ live_'[threads_'[s].user_id] = s
               /\ InUse(threads_'[s])
    <3>1. s \in DOMAIN threads_ \ {t} /\ threads_'[s].user_id = threads_[s].user_id
      BY <1>3, <2>3
    <3>2. /\ threads_[s].user_id \in DOMAIN live_
          /\ live_[threads_[s].user_id] = s
          /\ InUse(threads_[s])
      BY <2>3, <3>1 DEF UsersInv
    <3>3. threads_[s].user_id # threads_[t].user_id
      BY <2>3, <3>1, <3>2 DEF UsersInv
    <3>. QED
      BY <1>3, <1>4, <3>1, <3>2, <3>3
  <2>. QED
    BY <2>2, <2>3 DEF UsersInv
<1>6. OnlyTouches(t)
  BY <1>3 DEF OnlyTouches
<1>7. MainInv'
  BY <1>3 DEF MainInv, InUse
<1>8. AliveTids' = AliveTids \ {t} /\ RunningTids' = RunningTids \ {t}
  BY <1>3 DEF AliveTids, RunningTids, InUse
<1>. QED
  BY <1>3, <1>4, <1>5, <1>6, <1>7, <1>8

-----------------------------------------------------------------------------
(***************************************************************************)
(* The operations.                                                         *)
(***************************************************************************)
LEMMA CountersCount ==
  ASSUME RegistryInv
  PROVE  /\ IsFiniteSet(AliveTids) /\ IsFiniteSet(RunningTids)
         /\ Cardinality(AliveTids) \in Nat /\ Cardinality(RunningTids) \in Nat
  BY ThreadsDomain, FS_Subset, FS_CardinalityType
  DEF RegistryInv, AliveTids, RunningTids

\* A context rewritten in place.
LEMMA ContextEffect ==
  ASSUME RegistryTypeOK, NEW t \in DOMAIN threads_, NEW c \in ThreadContexts,
         c.serial = threads_[t].serial,
         threads_' = [threads_ EXCEPT ![t] = c]
  PROVE  /\ threads_' \in Seq(ThreadContexts)
         /\ DOMAIN threads_' = DOMAIN threads_
         /\ threads_'[t] = c
         /\ \A s \in DOMAIN threads_ \ {t} : threads_'[s] = threads_[s]
         /\ OnlyTouches(t)
<1>1. threads_ \in Seq(ThreadContexts)
  BY DEF RegistryTypeOK
<1>. QED
  BY <1>1 DEF OnlyTouches

LEMMA StartThreadEffect ==
  ASSUME RegistryInv, NEW t \in DOMAIN threads_, threads_[t].status = "Created",
         StartThread(t)
  PROVE  /\ RegistryInv'
         /\ UNCHANGED <<check_failed, live_>>
         /\ OnlyTouches(t)
         /\ SameThreads
         /\ threads_'[t] = [threads_[t] EXCEPT !.status = "Running"]
<1>1. /\ threads_' = [threads_ EXCEPT ![t].status = "Running"]
      /\ running_threads_' = running_threads_ + 1
      /\ UNCHANGED <<check_failed, live_, Queues, alive_threads_>>
  BY DEF StartThread, Checked
<1>2. /\ threads_ \in Seq(ThreadContexts)
      /\ threads_[t] \in ThreadContexts
  BY ThreadsDomain DEF RegistryInv, RegistryTypeOK
<1>. DEFINE c == [threads_[t] EXCEPT !.status = "Running"]
<1>3. /\ c \in ThreadContexts
      /\ c.status = "Running"
      /\ c.user_id = threads_[t].user_id
      /\ c.serial = threads_[t].serial
  BY <1>2 DEF ThreadContexts, ThreadStatus
<1>4. threads_' = [threads_ EXCEPT ![t] = c]
  BY <1>1, <1>2
<1>. HIDE DEF c
<1>5. /\ threads_' \in Seq(ThreadContexts)
      /\ DOMAIN threads_' = DOMAIN threads_
      /\ threads_'[t] = c
      /\ \A s \in DOMAIN threads_ \ {t} : threads_'[s] = threads_[s]
      /\ OnlyTouches(t)
  BY <1>3, <1>4, ContextEffect DEF RegistryInv
<1>6. RegistryTypeOK'
  BY <1>1, <1>5 DEF RegistryInv, RegistryTypeOK, Queues
<1>7. QueuesInv' /\ UsersInv' /\ MainInv'
  BY <1>1, <1>3, <1>5
  DEF RegistryInv, RegistryTypeOK, QueuesInv, HoldsOnce, UsersInv, MainInv, Queues,
      InUse
<1>8. CountersInv'
  <2>1. AliveTids' = AliveTids /\ RunningTids' = RunningTids \cup {t} /\ t \notin RunningTids
    BY <1>3, <1>5 DEF AliveTids, RunningTids
  <2>. QED
    BY <1>1, <2>1, CountersCount, FS_AddElement DEF RegistryInv, CountersInv
<1>9. SameThreads
  BY <1>3, <1>5 DEF SameThreads, OnlyTouches
<1>. QED
  BY <1>1, <1>5, <1>6, <1>7, <1>8, <1>9 DEF RegistryInv, c

\* The CHECK_GTs on the counters hold because the thread itself is counted.
LEMMA FinishThreadEffect ==
  ASSUME RegistryInv, NEW t \in DOMAIN threads_, t # kMainTid,
         threads_[t].status = "Running", FinishThread(t)
  PROVE  /\ RegistryInv'
         /\ UNCHANGED check_failed
         /\ OnlyTouches(t)
         /\ SameThreads
         /\ IF threads_[t].detached
            THEN /\ DOMAIN live_' = DOMAIN live_ \ {threads_[t].user_id}
                 /\ \A u \in DOMAIN live_' : live_'[u] = live_[u]
            ELSE /\ live_' = live_
                 /\ threads_'[t] = [threads_[t] EXCEPT !.thread_destroyed = TRUE,
                                                       !.status = "Finished"]
<1>. DEFINE c == [threads_[t] EXCEPT !.thread_destroyed = TRUE]
            d == [c EXCEPT !.status = "Finished"]
<1>1. /\ threads_[t] \in ThreadContexts
      /\ c \in ThreadContexts /\ d \in ThreadContexts
      /\ c.status = "Running" /\ d.status = "Finished"
      /\ c.user_id = threads_[t].user_id /\ d.user_id = threads_[t].user_id
      /\ c.serial = threads_[t].serial /\ d.serial = threads_[t].serial
      /\ c.detached = threads_[t].detached
  <2>1. threads_[t] \in ThreadContexts
    BY ThreadsDomain DEF RegistryInv
  <2>. QED
    BY <2>1 DEF ThreadContexts, ThreadStatus
<1>2. d = [threads_[t] EXCEPT !.thread_destroyed = TRUE, !.status = "Finished"]
  OBVIOUS
<1>3. t \in AliveTids /\ t \in RunningTids
  BY DEF AliveTids, RunningTids
<1>4. /\ Cardinality(AliveTids \ {t}) = Cardinality(AliveTids) - 1
      /\ Cardinality(RunningTids \ {t}) = Cardinality(RunningTids) - 1
      /\ Cardinality(AliveTids \ {t}) \in Nat /\ Cardinality(RunningTids \ {t}) \in Nat
  BY <1>3, CountersCount, FS_RemoveElement, FS_CardinalityType
<1>5. alive_threads_ > 0 /\ running_threads_ > 0
  BY <1>4, CountersCount DEF RegistryInv, CountersInv
<1>6. /\ UNCHANGED check_failed
      /\ alive_threads_' = alive_threads_ - 1
      /\ running_threads_' = running_threads_ - 1
      /\ IF c.detached
         THEN Retire(t, c, TRUE)
         ELSE /\ threads_' = [threads_ EXCEPT ![t] = d]
              /\ UNCHANGED <<live_, Queues>>
  <2>. HIDE DEF d
  <2>. QED
    BY <1>1, <1>5 DEF FinishThread, Checked, Retire, d
<1>. HIDE DEF c, d
<1>7. CASE threads_[t].detached
  <2>1. /\ threads_' \in Seq(ThreadContexts)
        /\ DOMAIN threads_' = DOMAIN threads_
        /\ dead_threads_' \in Seq(DOMAIN threads_)
        /\ invalid_threads_' \in Seq(DOMAIN threads_)
        /\ DOMAIN live_' = DOMAIN live_ \ {threads_[t].user_id}
        /\ \A u \in DOMAIN live_' : live_'[u] = live_[u]
        /\ QueuesInv' /\ UsersInv' /\ MainInv'
        /\ OnlyTouches(t)
        /\ threads_'[t].serial = threads_[t].serial
        /\ AliveTids' = AliveTids \ {t}
        /\ RunningTids' = RunningTids \ {t}
    BY <1>1, <1>6, <1>7, RetireEffect DEF RegistryInv, InUse
  <2>2. RegistryTypeOK'
    BY <1>4, <1>6, <2>1 DEF RegistryInv, RegistryTypeOK, CountersInv
  <2>3. SameThreads
    BY <2>1 DEF SameThreads, OnlyTouches
  <2>. QED
    BY <1>4, <1>6, <1>7, <2>1, <2>2, <2>3 DEF RegistryInv, CountersInv
<1>8. CASE ~threads_[t].detached
  <2>1. threads_' = [threads_ EXCEPT ![t] = d] /\ UNCHANGED <<live_, Queues>>
    BY <1>1, <1>6, <1>8
  <2>2. /\ threads_' \in Seq(ThreadContexts)
        /\ DOMAIN threads_' = DOMAIN threads_
        /\ threads_'[t] = d
        /\ \A s \in DOMAIN threads_ \ {t} : threads_'[s] = threads_[s]
        /\ OnlyTouches(t)
    BY <1>1, <2>1, ContextEffect DEF RegistryInv
  <2>3. RegistryTypeOK'
    BY <1>4, <1>6, <2>1, <2>2 DEF RegistryInv, RegistryTypeOK, CountersInv, Queues
  <2>4. QueuesInv' /\ UsersInv' /\ MainInv'
    BY <1>1, <2>1, <2>2
    DEF RegistryInv, RegistryTypeOK, QueuesInv, HoldsOnce, UsersInv, MainInv, Queues,
        InUse
  <2>5. AliveTids' = AliveTids \ {t} /\ RunningTids' = RunningTids \ {t}
    BY <1>1, <2>2 DEF AliveTids, RunningTids
  <2>6. SameThreads
    BY <1>1, <2>2 DEF SameThreads, OnlyTouches
  <2>. QED
    BY <1>1, <1>2, <1>4, <1>6, <1>8, <2>1, <2>2, <2>3, <2>4, <2>5,
       <2>6 DEF RegistryInv, CountersInv
<1>. QED
  BY <1>7, <1>8

\* The end of a finished context, which the counters no longer count.
LEMMA RetireFinished ==
  ASSUME RegistryInv, NEW t \in DOMAIN threads_, threads_[t].status = "Finished",
         Retire(t, threads_[t], FALSE),
         UNCHANGED <<alive_threads_, running_threads_>>
  PROVE  /\ UNCHANGED check_failed => RegistryInv'
         /\ OnlyTouches(t)
         /\ SameThreads
         /\ ~InUse(threads_'[t])
         /\ DOMAIN live_' = DOMAIN live_ \ {threads_[t].user_id}
         /\ \A u \in DOMAIN live_' : live_'[u] = live_[u]
<1>1. threads_[t] \in ThreadContexts /\ t # kMainTid
  BY ThreadsDomain DEF RegistryInv, MainInv
<1>2. /\ threads_' \in Seq(ThreadContexts)
      /\ DOMAIN threads_' = DOMAIN threads_
      /\ dead_threads_' \in Seq(DOMAIN threads_)
      /\ invalid_threads_' \in Seq(DOMAIN threads_)
      /\ DOMAIN live_' = DOMAIN live_ \ {threads_[t].user_id}
      /\ \A u \in DOMAIN live_' : live_'[u] = live_[u]
      /\ QueuesInv' /\ UsersInv' /\ MainInv'
      /\ OnlyTouches(t)
      /\ ~InUse(threads_'[t]) /\ threads_'[t].serial = threads_[t].serial
      /\ AliveTids' = AliveTids \ {t}
      /\ RunningTids' = RunningTids \ {t}
  BY <1>1, RetireEffect DEF RegistryInv, InUse
<1>3. AliveTids' = AliveTids /\ RunningTids' = RunningTids
  BY <1>2 DEF AliveTids, RunningTids
<1>4. UNCHANGED check_failed => RegistryTypeOK'
  BY <1>2 DEF RegistryInv, RegistryTypeOK
<1>5. SameThreads
  BY <1>2 DEF SameThreads, OnlyTouches
<1>. QED
  BY <1>2, <1>3, <1>4, <1>5 DEF RegistryInv, CountersInv

LEMMA JoinThreadEffect ==
  ASSUME RegistryInv, NEW t \in DOMAIN threads_,
         threads_[t].status = "Finished", ~threads_[t].detached, JoinThread(t)
  PROVE  /\ RegistryInv'
         /\ UNCHANGED check_failed
         /\ OnlyTouches(t)
         /\ SameThreads
         /\ DOMAIN live_' = DOMAIN live_ \ {threads_[t].user_id}
         /\ \A u \in DOMAIN live_' : live_'[u] = live_[u]
<1>1. /\ Retire(t, threads_[t], FALSE)
      /\ UNCHANGED <<check_failed, alive_threads_, running_threads_>>
  BY DEF JoinThread, Checked, Retire
<1>. QED
  BY <1>1, RetireFinished

LEMMA DetachThreadEffect ==
  ASSUME RegistryInv, NEW t \in DOMAIN threads_, InUse(threads_[t]), DetachThread(t)
  PROVE  /\ RegistryInv'
         /\ UNCHANGED check_failed
         /\ OnlyTouches(t)
         /\ SameThreads
         /\ IF threads_[t].status = "Finished"
            THEN /\ ~InUse(threads_'[t])
                 /\ DOMAIN live_' = DOMAIN live_ \ {threads_[t].user_id}
                 /\ \A u \in DOMAIN live_' : live_'[u] = live_[u]
            ELSE /\ live_' = live_
                 /\ threads_'[t] = [threads_[t] EXCEPT !.detached = TRUE]
<1>1. CASE threads_[t].status = "Finished"
  <2>1. /\ Retire(t, threads_[t], FALSE)
        /\ UNCHANGED <<check_failed, alive_threads_, running_threads_>>
    BY <1>1 DEF DetachThread, Retire
  <2>. QED
    BY <1>1, <2>1, RetireFinished
<1>2. CASE threads_[t].status # "Finished"
  <2>. DEFINE c == [threads_[t] EXCEPT !.detached = TRUE]
  <2>1. /\ threads_' = [threads_ EXCEPT ![t].detached = TRUE]
        /\ UNCHANGED <<check_failed, live_, Queues, alive_threads_, running_threads_>>
    BY <1>2 DEF DetachThread, InUse
  <2>2. /\ c \in ThreadContexts
        /\ c.status = threads_[t].status
        /\ c.user_id = threads_[t].user_id
        /\ c.serial = threads_[t].serial
    <3>1. threads_[t] \in ThreadContexts
      BY ThreadsDomain DEF RegistryInv
    <3>. QED
      BY <3>1 DEF ThreadContexts
  <2>3. threads_' = [threads_ EXCEPT ![t] = c]
    BY <2>1
  <2>. HIDE DEF c
  <2>4. /\ threads_' \in Seq(ThreadContexts)
        /\ DOMAIN threads_' = DOMAIN threads_
        /\ threads_'[t] = c
        /\ \A s \in DOMAIN threads_ \ {t} : threads_'[s] = threads_[s]
        /\ OnlyTouches(t)
    BY <2>2, <2>3, ContextEffect DEF RegistryInv
  <2>5. RegistryTypeOK'
    BY <2>1, <2>4 DEF RegistryInv, RegistryTypeOK, Queues
  <2>6. QueuesInv' /\ UsersInv' /\ MainInv'
    BY <2>1, <2>2, <2>4
    DEF RegistryInv, RegistryTypeOK, QueuesInv, HoldsOnce, UsersInv, MainInv, Queues,
        InUse
  <2>7. AliveTids' = AliveTids /\ RunningTids' = RunningTids
    BY <2>2, <2>4 DEF AliveTids, RunningTids
  <2>8. SameThreads
    BY <2>2, <2>4 DEF SameThreads, OnlyTouches
  <2>. QED
    BY <1>2, <2>1, <2>2, <2>4, <2>5, <2>6, <2>7, <2>8 DEF RegistryInv, CountersInv, c
<1>. QED
  BY <1>1, <1>2

LEMMA ConsumeThreadUserIdEffect ==
  ASSUME RegistryInv, NEW u \in DOMAIN live_, ConsumeThreadUserId(u)
  PROVE  /\ RegistryInv'
         /\ UNCHANGED check_failed
         /\ OnlyTouches(live_[u])
         /\ SameThreads
         /\ threads_'[live_[u]] = [threads_[live_[u]] EXCEPT !.user_id = NoHandle]
         /\ DOMAIN live_' = DOMAIN live_ \ {u}
         /\ \A v \in DOMAIN live_' : live_'[v] = live_[v]
<1>. DEFINE t == live_[u]
            c == [threads_[t] EXCEPT !.user_id = NoHandle]
<1>1. t \in DOMAIN threads_ /\ threads_[t].user_id = u
  BY DEF RegistryInv, RegistryTypeOK, UsersInv
<1>2. /\ threads_' = [threads_ EXCEPT ![t].user_id = NoHandle]
      /\ live_' = EraseLive(u)
      /\ UNCHANGED <<check_failed, Queues, alive_threads_, running_threads_>>
  BY <1>1 DEF ConsumeThreadUserId, Checked
<1>. HIDE DEF t
<1>3. /\ c \in ThreadContexts
      /\ c.status = threads_[t].status
      /\ c.user_id = NoHandle
      /\ c.serial = threads_[t].serial
  <2>1. threads_[t] \in ThreadContexts
    BY <1>1, ThreadsDomain DEF RegistryInv
  <2>. QED
    BY <2>1 DEF ThreadContexts
<1>4. threads_' = [threads_ EXCEPT ![t] = c]
  BY <1>1, <1>2
<1>. HIDE DEF c
<1>5. /\ threads_' \in Seq(ThreadContexts)
      /\ DOMAIN threads_' = DOMAIN threads_
      /\ threads_'[t] = c
      /\ \A s \in DOMAIN threads_ \ {t} : threads_'[s] = threads_[s]
      /\ OnlyTouches(t)
  BY <1>1, <1>3, <1>4, ContextEffect DEF RegistryInv
<1>6. /\ DOMAIN live_' = DOMAIN live_ \ {u}
      /\ \A v \in DOMAIN live_' : live_'[v] = live_[v]
  BY <1>2 DEF EraseLive, Restrict
<1>7. RegistryTypeOK'
  BY <1>2, <1>5, <1>6 DEF RegistryInv, RegistryTypeOK, Queues
<1>8. UsersInv'
  <2>1. ASSUME NEW v \in DOMAIN live_' PROVE threads_'[live_'[v]].user_id = v
    <3>1. v \in DOMAIN live_ /\ v # u /\ live_'[v] = live_[v]
      BY <1>6
    <3>2. live_[v] \in DOMAIN threads_ \ {t} /\ threads_[live_[v]].user_id = v
      BY <1>1, <3>1 DEF RegistryInv, RegistryTypeOK, UsersInv
    <3>. QED
      BY <1>5, <3>1, <3>2
  <2>2. ASSUME NEW s \in DOMAIN threads_', threads_'[s].user_id # NoHandle
        PROVE  /\ threads_'[s].user_id \in DOMAIN live_'
               /\ live_'[threads_'[s].user_id] = s
               /\ InUse(threads_'[s])
    <3>1. s \in DOMAIN threads_ /\ s # t /\ threads_'[s] = threads_[s]
      BY <1>3, <1>5, <2>2
    <3>2. /\ threads_[s].user_id \in DOMAIN live_
          /\ live_[threads_[s].user_id] = s
          /\ InUse(threads_[s])
      BY <2>2, <3>1 DEF RegistryInv, UsersInv
    <3>. QED
      BY <1>6, <3>1, <3>2 DEF t
  <2>. QED
    BY <2>1, <2>2 DEF UsersInv
<1>9. QueuesInv' /\ MainInv'
  BY <1>2, <1>3, <1>5
  DEF RegistryInv, RegistryTypeOK, QueuesInv, HoldsOnce, MainInv, Queues
<1>10. AliveTids' = AliveTids /\ RunningTids' = RunningTids
  BY <1>3, <1>5 DEF AliveTids, RunningTids
<1>11. SameThreads
  BY <1>3, <1>5 DEF SameThreads, OnlyTouches
<1>. QED
  BY <1>2, <1>5, <1>6, <1>7, <1>8, <1>9, <1>10, <1>11 DEF RegistryInv, CountersInv, c, t

\* The user id u newly given to the context t, which has none.
LEMMA GivenUserId ==
  ASSUME RegistryTypeOK, UsersInv, NEW t \in DOMAIN threads_',
         NEW u \in Handles \ DOMAIN live_,
         NoHandle \notin Handles,
         t \in DOMAIN threads_ => threads_[t].user_id = NoHandle,
         DOMAIN threads_' = DOMAIN threads_ \cup {t},
         threads_'[t].user_id = u, InUse(threads_'[t]),
         \A s \in DOMAIN threads_ \ {t} : threads_'[s] = threads_[s],
         live_' = [v \in DOMAIN live_ \cup {u} |-> IF v = u THEN t ELSE live_[v]]
  PROVE  /\ UsersInv'
         /\ DOMAIN live_' \subseteq Handles
         /\ \A v \in DOMAIN live_' : live_'[v] \in DOMAIN threads_'
<1>1. /\ DOMAIN live_' = DOMAIN live_ \cup {u}
      /\ live_'[u] = t
      /\ \A v \in DOMAIN live_ : live_'[v] = live_[v]
  OBVIOUS
<1>2. \A v \in DOMAIN live_ : /\ live_[v] \in DOMAIN threads_ \ {t}
                              /\ threads_[live_[v]].user_id = v
  BY DEF RegistryTypeOK, UsersInv
<1>3. ASSUME NEW v \in DOMAIN live_' PROVE threads_'[live_'[v]].user_id = v
  BY <1>1, <1>2
<1>4. ASSUME NEW s \in DOMAIN threads_', threads_'[s].user_id # NoHandle
      PROVE  /\ threads_'[s].user_id \in DOMAIN live_'
             /\ live_'[threads_'[s].user_id] = s
             /\ InUse(threads_'[s])
  <2>1. CASE s = t
    BY <1>1, <2>1
  <2>2. CASE s # t
    <3>1. s \in DOMAIN threads_ /\ threads_'[s] = threads_[s]
      BY <2>2
    <3>. QED
      BY <1>1, <1>4, <3>1 DEF UsersInv
  <2>. QED
    BY <2>1, <2>2
<1>. QED
  BY <1>1, <1>2, <1>3, <1>4 DEF UsersInv, RegistryTypeOK

LEMMA SetThreadUserIdEffect ==
  ASSUME RegistryInv, NEW t \in DOMAIN threads_, InUse(threads_[t]),
         threads_[t].user_id = NoHandle, NEW u \in Handles \ DOMAIN live_,
         SetThreadUserId(t, u)
  PROVE  /\ RegistryInv'
         /\ UNCHANGED check_failed
         /\ OnlyTouches(t)
         /\ SameThreads
         /\ threads_'[t] = [threads_[t] EXCEPT !.user_id = u]
         /\ DOMAIN live_' = DOMAIN live_ \cup {u}
         /\ live_'[u] = t
         /\ \A v \in DOMAIN live_ : live_'[v] = live_[v]
<1>. DEFINE c == [threads_[t] EXCEPT !.user_id = u]
<1>1. /\ threads_' = [threads_ EXCEPT ![t].user_id = u]
      /\ live_' = [v \in DOMAIN live_ \cup {u} |-> IF v = u THEN t ELSE live_[v]]
      /\ UNCHANGED <<check_failed, Queues, alive_threads_, running_threads_>>
  BY DEF SetThreadUserId, Checked, InUse
<1>2. /\ c \in ThreadContexts
      /\ c.status = threads_[t].status
      /\ c.user_id = u
      /\ c.serial = threads_[t].serial
  <2>1. threads_[t] \in ThreadContexts
    BY ThreadsDomain DEF RegistryInv
  <2>. QED
    BY <2>1 DEF ThreadContexts
<1>3. threads_' = [threads_ EXCEPT ![t] = c]
  BY <1>1
<1>. HIDE DEF c
<1>4. /\ threads_' \in Seq(ThreadContexts)
      /\ DOMAIN threads_' = DOMAIN threads_
      /\ threads_'[t] = c
      /\ \A s \in DOMAIN threads_ \ {t} : threads_'[s] = threads_[s]
      /\ OnlyTouches(t)
  BY <1>2, <1>3, ContextEffect DEF RegistryInv
<1>5. /\ UsersInv'
      /\ DOMAIN live_' \subseteq Handles
      /\ \A v \in DOMAIN live_' : live_'[v] \in DOMAIN threads_'
  <2>1. /\ DOMAIN threads_' = DOMAIN threads_ \cup {t}
        /\ t \in DOMAIN threads_'
        /\ InUse(threads_'[t])
    BY <1>2, <1>4 DEF InUse
  <2>. QED
    BY <1>1, <1>2, <1>4, <2>1, GivenUserId, ThreadRegistryAssumption, ZenonT(30) DEF RegistryInv
<1>6. RegistryTypeOK'
  BY <1>1, <1>4, <1>5 DEF RegistryInv, RegistryTypeOK, Queues
<1>7. QueuesInv' /\ MainInv'
  BY <1>1, <1>2, <1>4
  DEF RegistryInv, RegistryTypeOK, QueuesInv, HoldsOnce, MainInv, Queues
<1>8. AliveTids' = AliveTids /\ RunningTids' = RunningTids
  BY <1>2, <1>4 DEF AliveTids, RunningTids
<1>9. SameThreads
  BY <1>2, <1>4 DEF SameThreads, OnlyTouches
<1>. QED
  BY <1>1, <1>4, <1>5, <1>6, <1>7, <1>8, <1>9 DEF RegistryInv, CountersInv, c

\* CreateThread takes a dead context or a new one, so none in use.
LEMMA CreateThreadEffect ==
  ASSUME RegistryInv, NEW u \in Handles \ DOMAIN live_, NEW detached \in BOOLEAN,
         NEW num \in Nat, Len(threads_) < max_threads_,
         CreateThread(u, detached, num)
  PROVE  /\ RegistryInv'
         /\ UNCHANGED check_failed
         /\ OnlyTouches(NewTid)
         /\ DOMAIN threads_' = DOMAIN threads_ \cup {NewTid}
         /\ NewTid \in DOMAIN threads_ => ~InUse(threads_[NewTid])
         /\ LET c == threads_'[NewTid] IN
            /\ c.status = "Created" /\ c.user_id = u
            /\ c.detached = detached /\ c.serial = num
         /\ DOMAIN live_' = DOMAIN live_ \cup {u}
         /\ live_'[u] = NewTid
         /\ \A v \in DOMAIN live_ : live_'[v] = live_[v]
<1>. DEFINE t == NewTid
            c == [status |-> "Created", user_id |-> u, detached |-> detached,
                  thread_destroyed |->
                    t \in DOMAIN threads_ /\ threads_[t].thread_destroyed,
                  reuse_count |-> IF t \in DOMAIN threads_
                                  THEN threads_[t].reuse_count ELSE 0,
                  serial |-> num]
<1>1. /\ threads_ \in Seq(ThreadContexts)
      /\ invalid_threads_ \in Seq(DOMAIN threads_)
      /\ Len(threads_) \in Nat
      /\ DOMAIN threads_ = 1 .. Len(threads_)
      /\ \A s \in DOMAIN threads_ : threads_[s] \in ThreadContexts
  BY ThreadsDomain DEF RegistryInv, RegistryTypeOK
<1>2. /\ invalid_threads_ # <<>> =>
           /\ t = invalid_threads_[1] /\ 1 \in DOMAIN invalid_threads_
           /\ t \in DOMAIN threads_
           /\ threads_[t].status = "Invalid"
      /\ invalid_threads_ = <<>> =>
           t = Len(threads_) + 1 /\ t \notin DOMAIN threads_
  <2>1. CASE invalid_threads_ # <<>>
    <3>1. /\ 1 \in DOMAIN invalid_threads_
          /\ Head(invalid_threads_) = invalid_threads_[1]
          /\ invalid_threads_[1] \in DOMAIN threads_
      BY <1>1, <2>1
    <3>. QED
      BY <2>1, <3>1 DEF NewTid, RegistryInv, QueuesInv, HoldsOnce
  <2>2. CASE invalid_threads_ = <<>>
    BY <1>1, <2>2 DEF NewTid
  <2>. QED
    BY <2>1, <2>2
<1>3. /\ threads_' = IF t \in DOMAIN threads_ THEN [threads_ EXCEPT ![t] = c]
                     ELSE Append(threads_, c)
      /\ invalid_threads_' = IF t \in DOMAIN threads_ THEN Tail(invalid_threads_)
                             ELSE invalid_threads_
      /\ live_' = [v \in DOMAIN live_ \cup {u} |-> IF v = u THEN t ELSE live_[v]]
      /\ alive_threads_' = alive_threads_ + 1
      /\ UNCHANGED <<check_failed, dead_threads_, running_threads_>>
  <2>1. t <= max_threads_
    BY <1>1, <1>2, ThreadRegistryAssumption
  <2>2. t \in DOMAIN threads_ => threads_[t].status = "Invalid"
    BY <1>2
  <2>. QED
    BY <2>1, <2>2 DEF CreateThread, Checked
<1>4. /\ c \in ThreadContexts
      /\ c.status = "Created" /\ c.user_id = u
      /\ c.detached = detached /\ c.serial = num
  BY <1>1 DEF ThreadContexts, ThreadStatus
<1>. HIDE DEF t, c
<1>5. /\ threads_' \in Seq(ThreadContexts)
      /\ DOMAIN threads_' = DOMAIN threads_ \cup {t}
      /\ threads_'[t] = c
      /\ \A s \in DOMAIN threads_ \ {t} : threads_'[s] = threads_[s]
  <2>1. CASE t \in DOMAIN threads_
    BY <1>1, <1>3, <1>4, <2>1
  <2>2. CASE t \notin DOMAIN threads_
    BY <1>1, <1>2, <1>3, <1>4, <2>2
  <2>. QED
    BY <2>1, <2>2
<1>6. OnlyTouches(t)
  BY <1>5 DEF OnlyTouches
<1>7. t \in DOMAIN threads_ => ~InUse(threads_[t]) /\ threads_[t].status = "Invalid"
  BY <1>2 DEF InUse
<1>8. UsersInv' /\ DOMAIN live_' \subseteq Handles
      /\ \A v \in DOMAIN live_' : live_'[v] \in DOMAIN threads_'
  <2>1. t \in DOMAIN threads_ => threads_[t].user_id = NoHandle
    BY <1>7 DEF RegistryInv, UsersInv
  <2>2. t \in DOMAIN threads_' /\ InUse(threads_'[t]) /\ threads_'[t].user_id = u
    BY <1>4, <1>5 DEF InUse
  <2>3. /\ DOMAIN threads_' = DOMAIN threads_ \cup {t}
        /\ \A s \in DOMAIN threads_ \ {t} : threads_'[s] = threads_[s]
        /\ live_' = [v \in DOMAIN live_ \cup {u} |-> IF v = u THEN t ELSE live_[v]]
        /\ NoHandle \notin Handles
        /\ RegistryTypeOK /\ UsersInv
    BY <1>3, <1>5, ThreadRegistryAssumption DEF RegistryInv
  <2>. QED
    BY <2>1, <2>2, <2>3, GivenUserId, ZenonT(30)
<1>9. /\ invalid_threads_' \in Seq(DOMAIN threads_)
      /\ HoldsOnce(threads_', invalid_threads_', "Invalid")
  <2>1. CASE t \in DOMAIN threads_
    <3>1. /\ invalid_threads_ # <<>>
          /\ t = invalid_threads_[1]
          /\ 1 \in DOMAIN invalid_threads_
          /\ invalid_threads_' = Tail(invalid_threads_)
      BY <1>2, <1>3, <2>1
    <3>2. /\ invalid_threads_' \in Seq(DOMAIN threads_)
          /\ Len(invalid_threads_') = Len(invalid_threads_) - 1
          /\ \A i \in 1 .. Len(invalid_threads_') :
               invalid_threads_'[i] = invalid_threads_[i + 1]
      BY <1>1, <3>1, HeadTailProperties
    <3>3. \A i \in DOMAIN invalid_threads_' :
             /\ i \in Nat
             /\ i + 1 \in DOMAIN invalid_threads_ /\ i + 1 # 1
             /\ invalid_threads_'[i] = invalid_threads_[i + 1]
             /\ invalid_threads_'[i] \in DOMAIN threads_
      BY <1>1, <3>1, <3>2
    <3>4. HoldsOnce(threads_, invalid_threads_, "Invalid")
      BY DEF RegistryInv, QueuesInv
    <3>5. \A i \in DOMAIN invalid_threads_' : invalid_threads_'[i] # t
      BY <3>1, <3>3, <3>4 DEF HoldsOnce
    <3>6. \A i \in DOMAIN invalid_threads_' :
             threads_'[invalid_threads_'[i]].status = "Invalid"
      BY <1>5, <3>3, <3>4, <3>5 DEF HoldsOnce
    <3>7. ASSUME NEW i \in DOMAIN invalid_threads_', NEW j \in DOMAIN invalid_threads_',
                 i # j
          PROVE  invalid_threads_'[i] # invalid_threads_'[j]
      <4>1. i + 1 # j + 1
        BY <3>3, <3>7
      <4>. QED
        BY <3>3, <3>4, <4>1 DEF HoldsOnce
    <3>. QED
      BY <3>2, <3>6, <3>7 DEF HoldsOnce
  <2>2. CASE t \notin DOMAIN threads_
    <3>1. invalid_threads_ = <<>> /\ invalid_threads_' = invalid_threads_
      BY <1>2, <1>3, <2>2
    <3>. QED
      BY <1>1, <3>1 DEF HoldsOnce
  <2>. QED
    BY <2>1, <2>2
<1>10. QueuesInv'
  <2>1. dead_threads_ \in Seq(DOMAIN threads_)
    BY DEF RegistryInv, RegistryTypeOK
  <2>2. HoldsOnce(threads_, dead_threads_, "Dead")
    BY DEF RegistryInv, QueuesInv
  <2>3. \A i \in DOMAIN dead_threads_ : dead_threads_[i] \in DOMAIN threads_ \ {t}
    BY <1>7, <2>1, <2>2 DEF HoldsOnce
  <2>4. HoldsOnce(threads_', dead_threads_, "Dead")
    BY <1>5, <2>2, <2>3 DEF HoldsOnce
  <2>. QED
    BY <1>3, <1>9, <2>4 DEF QueuesInv
<1>11. MainInv'
  BY <1>5, <1>7 DEF RegistryInv, MainInv
<1>12. /\ AliveTids' = AliveTids \cup {t} /\ t \notin AliveTids
       /\ RunningTids' = RunningTids
  BY <1>4, <1>5, <1>7 DEF AliveTids, RunningTids
<1>13. CountersInv'
  BY <1>3, <1>12, CountersCount, FS_AddElement DEF RegistryInv, CountersInv
<1>14. RegistryTypeOK'
  <2>1. /\ dead_threads_' \in Seq(DOMAIN threads_')
        /\ invalid_threads_' \in Seq(DOMAIN threads_')
    <3>1. DOMAIN threads_ \subseteq DOMAIN threads_'
      BY <1>5
    <3>2. dead_threads_' \in Seq(DOMAIN threads_)
      BY <1>3 DEF RegistryInv, RegistryTypeOK
    <3>. QED
      BY <1>9, <3>1, <3>2
  <2>. QED
    BY <1>3, <1>5, <1>8, <2>1 DEF RegistryInv, RegistryTypeOK
<1>15. DOMAIN live_' = DOMAIN live_ \cup {u} /\ live_'[u] = t
       /\ \A v \in DOMAIN live_ : live_'[v] = live_[v]
  BY <1>3
<1>. QED
  BY <1>3, <1>4, <1>5, <1>6, <1>7, <1>8, <1>10, <1>11, <1>13, <1>14, <1>15
  DEF RegistryInv, t

\* The CHECK holds because live_ knows every user id of a context.
LEMMA OnForkEffect ==
  ASSUME RegistryInv, NEW tid \in DOMAIN threads_, OnFork(tid)
  PROVE  /\ RegistryInv'
         /\ UNCHANGED check_failed
         /\ SameThreads
         /\ threads_'[tid] = threads_[tid]
         /\ DOMAIN live_' = {u \in DOMAIN live_ : live_[u] = tid}
         /\ \A u \in DOMAIN live_' : live_'[u] = live_[u]
<1>. DEFINE others == {t \in DOMAIN threads_ \ {tid} : threads_[t].user_id # NoHandle}
            users == {threads_[t].user_id : t \in others}
            ctxs == [t \in DOMAIN threads_ |->
                       IF t \in others THEN [threads_[t] EXCEPT !.user_id = NoHandle]
                                       ELSE threads_[t]]
<1>1. users \subseteq DOMAIN live_
  BY DEF RegistryInv, UsersInv
<1>2. /\ threads_' = ctxs
      /\ live_' = Restrict(live_, DOMAIN live_ \ users)
      /\ UNCHANGED <<check_failed, Queues, alive_threads_, running_threads_>>
  BY <1>1 DEF OnFork, Checked
<1>3. /\ Len(threads_) \in Nat
      /\ DOMAIN threads_ = 1 .. Len(threads_)
      /\ \A t \in DOMAIN threads_ : threads_[t] \in ThreadContexts
  BY ThreadsDomain DEF RegistryInv
<1>4. \A t \in DOMAIN threads_ :
         /\ ctxs[t] \in ThreadContexts
         /\ ctxs[t].status = threads_[t].status
         /\ ctxs[t].serial = threads_[t].serial
         /\ ctxs[t].user_id = IF t \in others THEN NoHandle ELSE threads_[t].user_id
         /\ t = tid => ctxs[t] = threads_[t]
  BY <1>3 DEF ThreadContexts
<1>5. ctxs \in Seq(ThreadContexts) /\ DOMAIN ctxs = DOMAIN threads_
  <2>. DEFINE f(t) == ctxs[t]
  <2>1. DOMAIN ctxs = 1 .. Len(threads_)
    BY <1>3
  <2>2. \A t \in 1 .. Len(threads_) : ctxs[t] \in ThreadContexts
    BY <1>3, <1>4
  <2>3. ctxs = [t \in 1 .. Len(threads_) |-> ctxs[t]]
    BY <2>1
  <2>. HIDE DEF ctxs
  <2>. QED
    BY <1>3, <2>1, <2>2, <2>3
<1>6. /\ DOMAIN live_' = DOMAIN live_ \ users
      /\ \A u \in DOMAIN live_' : live_'[u] = live_[u]
  BY <1>2 DEF Restrict
<1>7. \A u \in DOMAIN live_ : u \in users <=> live_[u] # tid
  <2>1. \A u \in DOMAIN live_ : u # NoHandle /\ live_[u] \in DOMAIN threads_
    BY ThreadRegistryAssumption DEF RegistryInv, RegistryTypeOK
  <2>. QED
    BY <2>1 DEF RegistryInv, UsersInv
<1>. HIDE DEF others, users, ctxs
<1>8. UsersInv'
  <2>1. ASSUME NEW u \in DOMAIN live_' PROVE threads_'[live_'[u]].user_id = u
    <3>1. u \in DOMAIN live_ /\ live_'[u] = tid /\ live_[u] = tid
      BY <1>6, <1>7
    <3>2. threads_[tid].user_id = u
      BY <3>1 DEF RegistryInv, UsersInv
    <3>. QED
      BY <1>2, <1>4, <3>1, <3>2
  <2>2. ASSUME NEW t \in DOMAIN threads_', threads_'[t].user_id # NoHandle
        PROVE  /\ threads_'[t].user_id \in DOMAIN live_'
               /\ live_'[threads_'[t].user_id] = t
               /\ InUse(threads_'[t])
    <3>1. t \in DOMAIN threads_ /\ threads_[t].user_id = threads_'[t].user_id
      BY <1>2, <1>4, <1>5, <2>2
    <3>2. t = tid
      BY <1>2, <1>4, <2>2, <3>1 DEF others
    <3>3. /\ threads_[t].user_id \in DOMAIN live_
          /\ live_[threads_[t].user_id] = t
          /\ InUse(threads_[t])
      BY <2>2, <3>1 DEF RegistryInv, UsersInv
    <3>. QED
      BY <1>2, <1>4, <1>6, <1>7, <3>2, <3>3
  <2>. QED
    BY <2>1, <2>2 DEF UsersInv
<1>9. RegistryTypeOK'
  BY <1>2, <1>5, <1>6 DEF RegistryInv, RegistryTypeOK, Queues
<1>10. QueuesInv' /\ MainInv'
  <2>1. /\ \A i \in DOMAIN dead_threads_ : dead_threads_[i] \in DOMAIN threads_
        /\ \A i \in DOMAIN invalid_threads_ : invalid_threads_[i] \in DOMAIN threads_
    BY DEF RegistryInv, RegistryTypeOK
  <2>2. QueuesInv'
    BY <1>2, <1>4, <2>1 DEF RegistryInv, QueuesInv, HoldsOnce, Queues
  <2>3. MainInv'
    BY <1>2, <1>4, <1>5 DEF RegistryInv, MainInv
  <2>. QED
    BY <2>2, <2>3
<1>11. AliveTids' = AliveTids /\ RunningTids' = RunningTids
  BY <1>2, <1>4, <1>5 DEF AliveTids, RunningTids
<1>12. CountersInv'
  BY <1>2, <1>11 DEF RegistryInv, CountersInv
<1>13. DOMAIN live_' = {u \in DOMAIN live_ : live_[u] = tid}
  BY <1>6, <1>7
<1>14. SameThreads
  BY <1>2, <1>4, <1>5 DEF SameThreads, OnlyTouches
<1>. QED
  BY <1>2, <1>4, <1>5, <1>6, <1>8, <1>9, <1>10, <1>12, <1>13, <1>14 DEF RegistryInv

\* The main thread alone, which nobody joins or detaches.
LEMMA RegistryInitInv == RegistryInit => RegistryInv
<1>. SUFFICES ASSUME RegistryInit PROVE RegistryInv
  OBVIOUS
<1>. DEFINE c == [status |-> "Running", user_id |-> NoHandle, detached |-> TRUE,
                  thread_destroyed |-> FALSE, reuse_count |-> 0, serial |-> 0]
<1>1. /\ c \in ThreadContexts
      /\ c.status = "Running" /\ c.user_id = NoHandle /\ c.serial = 0
  BY DEF ThreadContexts, ThreadStatus
<1>2. threads_ = <<c>>
  BY DEF RegistryInit
<1>. HIDE DEF c
<1>3. DOMAIN threads_ = {1} /\ threads_[1] = c /\ threads_ \in Seq(ThreadContexts)
  BY <1>1, <1>2
<1>4. RegistryTypeOK
  <2>1. /\ live_ = <<>> /\ dead_threads_ = <<>> /\ invalid_threads_ = <<>>
        /\ alive_threads_ = 1 /\ running_threads_ = 1 /\ check_failed = FALSE
    BY DEF RegistryInit
  <2>2. <<>> \in Seq(DOMAIN threads_) /\ DOMAIN <<>> = {}
    OBVIOUS
  <2>. QED
    BY <1>3, <2>1, <2>2 DEF RegistryTypeOK
<1>5. QueuesInv
  BY DEF RegistryInit, QueuesInv, HoldsOnce
<1>6. UsersInv /\ MainInv
  BY <1>1, <1>3 DEF RegistryInit, UsersInv, MainInv, kMainTid
<1>7. AliveTids = {1} /\ RunningTids = {1}
  BY <1>1, <1>3 DEF AliveTids, RunningTids
<1>8. Cardinality({1}) = 1
  BY FS_Singleton
<1>. QED
  BY <1>4, <1>5, <1>6, <1>7, <1>8 DEF RegistryInv, CountersInv, RegistryInit

-----------------------------------------------------------------------------
(***************************************************************************)
(* The threads and what ThreadArgRetval keeps of them: everything that does*)
(* not depend on the registry.                                             *)
(***************************************************************************)

\* Inside pthread_create, up to created.Post().
OpenSteps == {"create_locked", "create_thread"}

\* Operations whose thread still has its pthread_t, those that have joined it,
\* and those that have detached it.
HoldingSteps == {"before_join", "real_join", "not_joined", "real_detach"}
JoinedSteps == {"after_join", "join_thread"}
DetachedSteps == {"detach_locked", "detach_thread"}
ReapSteps == HoldingSteps \cup JoinedSteps \cup DetachedSteps

StartingStates == {"started", "got_args", "thread_started"}
StartedStates == {"running", "finishing", "destroyed", "zombie"}

\* The creator stays with the thread it creates until that has its registry entry.
CreateInv(c) ==
  /\ op[c].step \in OpenSteps =>
       /\ op[c].h \in Handles
       /\ lib[op[c].h] \in {"started", "got_args"}
       /\ serial[op[c].h] = op[c].serial
       /\ creator[op[c].h] = c
       /\ lib_detached[op[c].h] = op[c].flag
       /\ ~op[c].created
  /\ op[c].step = "wait_started" => op[c].created

\* A thread that is starting has its creator waiting for it.
ThreadInv(h) ==
  /\ lib[h] # "none" => serial[h] \in 1 .. creates
  /\ lib[h] \in StartingStates =>
       LET o == op[creator[h]] IN
       /\ o.step \in OpenSteps \cup {"wait_started"}
       /\ o.h = h
       /\ o.serial = serial[h]
       /\ ~o.started
       /\ lib[h] = "got_args" => o.step # "create_locked"
       /\ lib[h] = "thread_started" => o.step = "wait_started"
  /\ lib[h] = "zombie" => ~lib_detached[h]

\* The thread a join or detach is about: it has its pthread_t until the real
\* join; a detached one has it as long as it runs.
ReapInv(c) ==
  /\ op[c].step \in ReapSteps => op[c].h \in Handles /\ op[c].serial \in 1 .. creates
  /\ op[c].step \in HoldingSteps =>
       /\ lib[op[c].h] \in StartedStates
       /\ ~lib_detached[op[c].h]
       /\ serial[op[c].h] = op[c].serial
  /\ op[c].step \in JoinedSteps =>
       \A h \in Handles : lib[h] # "none" => serial[h] # op[c].serial
  /\ op[c].step \in DetachedSteps =>
       \A h \in Handles : lib[h] # "none" /\ serial[h] = op[c].serial =>
          h = op[c].h /\ lib_detached[h]
  /\ op[c].step = "detach_locked" /\ lib[op[c].h] # "none" =>
       serial[op[c].h] = op[c].serial

\* The program may join or detach a thread that nobody is joining or detaching.
JoinableInv ==
  \A h \in joinable :
    /\ lib[h] \in StartedStates
    /\ ~lib_detached[h]
    /\ \A c \in Callers : op[c].step \in ReapSteps => op[c].serial # serial[h]

UniqueInv ==
  /\ \A h, k \in Handles :
       h # k /\ lib[h] # "none" /\ lib[k] # "none" => serial[h] # serial[k]
  /\ \A c, d \in Callers :
       c # d /\ op[c].step \in ReapSteps /\ op[d].step \in ReapSteps =>
         op[c].serial # op[d].serial

LockInv ==
  \A c \in Callers : op[c].step \in {"create_locked", "detach_locked"} <=> args_owner = c

StructInv ==
  /\ \A c \in Callers : CreateInv(c) /\ ReapInv(c)
  /\ \A h \in Handles : ThreadInv(h)
  /\ JoinableInv /\ UniqueInv /\ LockInv

-----------------------------------------------------------------------------
(***************************************************************************)
(* What the actions do to op and lib.                                      *)
(***************************************************************************)
LEMMA TypeFacts ==
  ASSUME TypeOK
  PROVE  /\ \A h \in Handles :
              creator[h] \in Callers /\ serial[h] \in Nat /\ tid_[h] \in Nat
         /\ \A c \in Callers : op[c].serial \in Nat /\ op[c].gen \in Nat
         /\ joinable \subseteq Handles
         /\ DOMAIN data_ \subseteq Handles
         /\ \A h \in DOMAIN data_ : data_[h] \in ArgEntries
         /\ DOMAIN live_ \subseteq Handles
         /\ creates \in Nat /\ gen_ \in Nat
         /\ NoHandle \notin Handles /\ Handles \subseteq Callers
         /\ Nobody \notin Callers
<1>1. \A h \in Handles : creator[h] \in Callers /\ serial[h] \in Nat /\ tid_[h] \in Nat
  BY DEF TypeOK
<1>2. \A c \in Callers : op[c].serial \in Nat /\ op[c].gen \in Nat
  BY DEF TypeOK, Operations
<1>3. creates \in Nat /\ gen_ \in Nat
  BY ThreadArgRetvalAssumption, XsanPthreadAssumption DEF TypeOK
<1>4. DOMAIN live_ \subseteq Handles
  BY DEF TypeOK, RegistryTypeOK
<1>. QED
  BY <1>1, <1>2, <1>3, <1>4, ThreadRegistryAssumption, XsanPthreadAssumption
  DEF TypeOK, Callers

\* Everything but the step.
SameCall(o, p) ==
  /\ o.h = p.h /\ o.serial = p.serial /\ o.tid = p.tid /\ o.gen = p.gen
  /\ o.flag = p.flag /\ o.created = p.created /\ o.started = p.started

LEMMA GotoEffect ==
  ASSUME TypeOK, NEW c \in Callers, NEW s \in Steps, Goto(c, s)
  PROVE  /\ op' \in [Callers -> Operations]
         /\ op'[c].step = s /\ SameCall(op'[c], op[c])
         /\ \A d \in Callers \ {c} : op'[d] = op[d]
<1>1. op \in [Callers -> Operations]
  BY DEF TypeOK
<1>. DEFINE o == [op[c] EXCEPT !.step = s]
<1>2. o \in Operations /\ o.step = s /\ SameCall(o, op[c])
  BY <1>1 DEF Operations, SameCall
<1>3. op' = [op EXCEPT ![c] = o]
  BY DEF Goto
<1>. HIDE DEF o
<1>. QED
  BY <1>1, <1>2, <1>3

LEMMA ReturnEffect ==
  ASSUME TypeOK, NEW c \in Callers, Return(c)
  PROVE  /\ op' \in [Callers -> Operations]
         /\ op'[c].step = "idle"
         /\ \A d \in Callers \ {c} : op'[d] = op[d]
  BY DEF TypeOK, Return, Operations, Idle, Steps

LEMMA ChildGotoEffect ==
  ASSUME TypeOK, NEW h \in Handles, NEW state \in LibStates, ChildGoto(h, state)
  PROVE  /\ lib' \in [Handles -> LibStates]
         /\ lib'[h] = state
         /\ \A k \in Handles \ {h} : lib'[k] = lib[k]
         /\ UNCHANGED <<lib_detached, serial, creator>>
  BY DEF TypeOK, ChildGoto

-----------------------------------------------------------------------------
(***************************************************************************)
(* StructInv is inductive: one lemma per action.                           *)
(***************************************************************************)
LEMMA RealPthreadCreateStruct ==
  ASSUME TypeOK, StructInv, NEW c \in Callers, NEW h \in Handles, NEW det \in BOOLEAN,
         RealPthreadCreate(c, h, det)
  PROVE  StructInv'
<1>1. /\ op[c].step = "idle"
      /\ lib[h] = "none"
      /\ args_owner = Nobody /\ args_owner' = c
      /\ creates \in Nat /\ creates' = creates + 1
      /\ joinable' = joinable
  BY DEF RealPthreadCreate, InUserCode, Lock, TypeOK
<1>2. /\ lib'[h] = "started" /\ lib_detached'[h] = det
      /\ serial'[h] = creates + 1 /\ creator'[h] = c
      /\ \A k \in Handles \ {h} :
           /\ lib'[k] = lib[k] /\ lib_detached'[k] = lib_detached[k]
           /\ serial'[k] = serial[k] /\ creator'[k] = creator[k]
  BY DEF RealPthreadCreate, TypeOK
<1>3. /\ op'[c].step = "create_locked" /\ op'[c].h = h
      /\ op'[c].flag = det /\ op'[c].serial = creates + 1
      /\ ~op'[c].created /\ ~op'[c].started
      /\ \A d \in Callers \ {c} : op'[d] = op[d]
  BY DEF RealPthreadCreate, TypeOK, Idle
<1>4. ASSUME NEW d \in Callers PROVE CreateInv(d)'
  BY <1>1, <1>2, <1>3, TypeFacts DEF StructInv, CreateInv, OpenSteps
<1>5. ASSUME NEW d \in Callers PROVE ReapInv(d)'
  BY <1>1, <1>2, <1>3, TypeFacts, XsanPthreadAssumption
  DEF StructInv, LockInv, ReapInv, ReapSteps, HoldingSteps, JoinedSteps, DetachedSteps,
      StartedStates, Callers
<1>6. ASSUME NEW k \in Handles PROVE ThreadInv(k)'
  BY <1>1, <1>2, <1>3, TypeFacts DEF StructInv, ThreadInv, OpenSteps, StartingStates
<1>7. JoinableInv'
  BY <1>1, <1>2, <1>3, TypeFacts
  DEF StructInv, JoinableInv, ReapSteps, HoldingSteps, JoinedSteps, DetachedSteps,
      StartedStates
<1>8. UniqueInv'
  BY <1>1, <1>2, <1>3, TypeFacts
  DEF StructInv, UniqueInv, ThreadInv, ReapSteps, HoldingSteps, JoinedSteps,
      DetachedSteps
<1>9. LockInv'
  BY <1>1, <1>3, XsanPthreadAssumption DEF StructInv, LockInv, Callers
<1>. QED
  BY <1>4, <1>5, <1>6, <1>7, <1>8, <1>9 DEF StructInv

LEMMA PthreadCreateLockedStruct ==
  ASSUME TypeOK, StructInv, NEW c \in Callers, PthreadCreateLocked(c)
  PROVE  StructInv'
<1>1. op[c].step = "create_locked" /\ Goto(c, "create_thread")
      /\ args_owner' = Nobody /\ joinable' = joinable
      /\ UNCHANGED <<lib, lib_detached, serial, creator, creates>>
  BY DEF PthreadCreateLocked, At, Unlock, lib_vars
<1>2. op'[c].step = "create_thread" /\ SameCall(op'[c], op[c])
      /\ \A d \in Callers \ {c} : op'[d] = op[d]
  BY <1>1, GotoEffect DEF Steps
<1>3. args_owner = c
  BY <1>1 DEF StructInv, LockInv
<1>4. ASSUME NEW d \in Callers PROVE CreateInv(d)'
  BY <1>1, <1>2, <1>3, TypeFacts
  DEF StructInv, CreateInv, ReapInv, OpenSteps, ReapSteps, HoldingSteps, JoinedSteps,
      DetachedSteps, StartedStates, SameCall
<1>5. ASSUME NEW d \in Callers PROVE ReapInv(d)'
  BY <1>1, <1>2, <1>3, TypeFacts
  DEF StructInv, LockInv, ReapInv, ThreadInv, JoinableInv, UniqueInv, ReapSteps,
      HoldingSteps, JoinedSteps, DetachedSteps, StartedStates, StartingStates, SameCall
<1>6. ASSUME NEW k \in Handles PROVE ThreadInv(k)'
  BY <1>1, <1>2, <1>3, TypeFacts
  DEF StructInv, ThreadInv, CreateInv, OpenSteps, StartingStates, StartedStates,
      SameCall
<1>7. JoinableInv'
  BY <1>1, <1>2, <1>3, TypeFacts
  DEF StructInv, JoinableInv, ReapInv, UniqueInv, ReapSteps, HoldingSteps, JoinedSteps,
      DetachedSteps, StartedStates, StartingStates, SameCall
<1>8. UniqueInv'
  BY <1>1, <1>2, <1>3, TypeFacts
  DEF StructInv, UniqueInv, ThreadInv, JoinableInv, ReapSteps, HoldingSteps,
      JoinedSteps, DetachedSteps, StartedStates, StartingStates, SameCall
<1>9. LockInv'
  BY <1>1, <1>2, <1>3, TypeFacts, XsanPthreadAssumption
  DEF StructInv, LockInv, Callers, HoldingSteps, SameCall
<1>. QED
  BY <1>4, <1>5, <1>6, <1>7, <1>8, <1>9 DEF StructInv

LEMMA XsanThreadCreateStruct ==
  ASSUME TypeOK, StructInv, NEW c \in Callers, XsanThreadCreate(c)
  PROVE  StructInv'
<1>1. op[c].step = "create_thread" /\ joinable' = joinable /\ args_owner' = args_owner
      /\ UNCHANGED <<lib, lib_detached, serial, creator, creates>>
  BY DEF XsanThreadCreate, At
<1>2. op'[c].step = "wait_started" /\ op'[c].created
      /\ op'[c].h = op[c].h /\ op'[c].serial = op[c].serial
      /\ op'[c].started = op[c].started
      /\ \A d \in Callers \ {c} : op'[d] = op[d]
  BY DEF XsanThreadCreate, TypeOK, Operations
<1>3. ASSUME NEW d \in Callers PROVE CreateInv(d)'
  BY <1>1, <1>2, TypeFacts
  DEF StructInv, CreateInv, ReapInv, OpenSteps, ReapSteps, HoldingSteps, JoinedSteps,
      DetachedSteps, StartedStates
<1>4. ASSUME NEW d \in Callers PROVE ReapInv(d)'
  BY <1>1, <1>2, TypeFacts
  DEF StructInv, LockInv, ReapInv, ThreadInv, JoinableInv, UniqueInv, ReapSteps,
      HoldingSteps, JoinedSteps, DetachedSteps, StartedStates, StartingStates
<1>5. ASSUME NEW k \in Handles PROVE ThreadInv(k)'
  BY <1>1, <1>2, TypeFacts
  DEF StructInv, ThreadInv, CreateInv, OpenSteps, StartingStates, StartedStates
<1>6. JoinableInv'
  BY <1>1, <1>2, TypeFacts
  DEF StructInv, JoinableInv, ReapInv, UniqueInv, ReapSteps, HoldingSteps, JoinedSteps,
      DetachedSteps, StartedStates, StartingStates
<1>7. UniqueInv'
  BY <1>1, <1>2, TypeFacts
  DEF StructInv, UniqueInv, ThreadInv, JoinableInv, ReapSteps, HoldingSteps,
      JoinedSteps, DetachedSteps, StartedStates, StartingStates
<1>8. LockInv'
  BY <1>1, <1>2, TypeFacts, XsanPthreadAssumption
  DEF StructInv, LockInv, Callers, HoldingSteps
<1>. QED
  BY <1>3, <1>4, <1>5, <1>6, <1>7, <1>8 DEF StructInv

LEMMA PthreadCreateReturnStruct ==
  ASSUME TypeOK, StructInv, NEW c \in Callers, PthreadCreateReturn(c)
  PROVE  StructInv'
<1>1. op[c].step = "wait_started" /\ op[c].started /\ Return(c)
      /\ joinable' = joinable /\ args_owner' = args_owner
      /\ UNCHANGED <<lib, lib_detached, serial, creator, creates>>
  BY DEF PthreadCreateReturn, At, lib_vars
<1>2. op'[c].step = "idle" /\ \A d \in Callers \ {c} : op'[d] = op[d]
  BY <1>1, ReturnEffect
<1>3. ASSUME NEW d \in Callers PROVE CreateInv(d)'
  BY <1>1, <1>2, TypeFacts
  DEF StructInv, CreateInv, ReapInv, OpenSteps, ReapSteps, HoldingSteps, JoinedSteps,
      DetachedSteps, StartedStates
<1>4. ASSUME NEW d \in Callers PROVE ReapInv(d)'
  BY <1>1, <1>2, TypeFacts
  DEF StructInv, LockInv, ReapInv, ThreadInv, JoinableInv, UniqueInv, ReapSteps,
      HoldingSteps, JoinedSteps, DetachedSteps, StartedStates, StartingStates
<1>5. ASSUME NEW k \in Handles PROVE ThreadInv(k)'
  BY <1>1, <1>2, TypeFacts
  DEF StructInv, ThreadInv, CreateInv, OpenSteps, StartingStates, StartedStates
<1>6. JoinableInv'
  BY <1>1, <1>2, TypeFacts
  DEF StructInv, JoinableInv, ReapInv, UniqueInv, ReapSteps, HoldingSteps, JoinedSteps,
      DetachedSteps, StartedStates, StartingStates
<1>7. UniqueInv'
  BY <1>1, <1>2, TypeFacts
  DEF StructInv, UniqueInv, ThreadInv, JoinableInv, ReapSteps, HoldingSteps,
      JoinedSteps, DetachedSteps, StartedStates, StartingStates
<1>8. LockInv'
  BY <1>1, <1>2, TypeFacts, XsanPthreadAssumption
  DEF StructInv, LockInv, Callers, HoldingSteps
<1>. QED
  BY <1>3, <1>4, <1>5, <1>6, <1>7, <1>8 DEF StructInv

LEMMA JoinBeforeStruct ==
  ASSUME TypeOK, StructInv, NEW c \in Callers, JoinBefore(c)
  PROVE  StructInv'
<1>1. op[c].step = "before_join" /\ joinable' = joinable /\ args_owner' = args_owner
      /\ UNCHANGED <<lib, lib_detached, serial, creator, creates>>
  BY DEF JoinBefore, At, lib_vars, Locked
<1>2. op'[c].step \in HoldingSteps
      /\ op'[c].h = op[c].h /\ op'[c].serial = op[c].serial
      /\ \A d \in Callers \ {c} : op'[d] = op[d]
  BY <1>1 DEF JoinBefore, TypeOK, Operations, HoldingSteps
<1>3. ASSUME NEW d \in Callers PROVE CreateInv(d)'
  BY <1>1, <1>2, TypeFacts
  DEF StructInv, CreateInv, ReapInv, OpenSteps, ReapSteps, HoldingSteps, JoinedSteps,
      DetachedSteps, StartedStates
<1>4. ASSUME NEW d \in Callers PROVE ReapInv(d)'
  BY <1>1, <1>2, TypeFacts
  DEF StructInv, LockInv, ReapInv, ThreadInv, JoinableInv, UniqueInv, ReapSteps,
      HoldingSteps, JoinedSteps, DetachedSteps, StartedStates, StartingStates
<1>5. ASSUME NEW k \in Handles PROVE ThreadInv(k)'
  BY <1>1, <1>2, TypeFacts
  DEF StructInv, ThreadInv, CreateInv, OpenSteps, StartingStates, StartedStates
<1>6. JoinableInv'
  BY <1>1, <1>2, TypeFacts
  DEF StructInv, JoinableInv, ReapInv, UniqueInv, ReapSteps, HoldingSteps, JoinedSteps,
      DetachedSteps, StartedStates, StartingStates
<1>7. UniqueInv'
  BY <1>1, <1>2, TypeFacts
  DEF StructInv, UniqueInv, ThreadInv, JoinableInv, ReapSteps, HoldingSteps,
      JoinedSteps, DetachedSteps, StartedStates, StartingStates
<1>8. LockInv'
  BY <1>1, <1>2, TypeFacts, XsanPthreadAssumption
  DEF StructInv, LockInv, Callers, HoldingSteps
<1>. QED
  BY <1>3, <1>4, <1>5, <1>6, <1>7, <1>8 DEF StructInv

LEMMA RealTryJoinFailsStruct ==
  ASSUME TypeOK, StructInv, NEW c \in Callers, RealTryJoinFails(c)
  PROVE  StructInv'
<1>1. op[c].step = "real_join" /\ Goto(c, "not_joined") /\ joinable' = joinable /\ args_owner' = args_owner
      /\ UNCHANGED <<lib, lib_detached, serial, creator, creates>>
  BY DEF RealTryJoinFails, At, lib_vars
<1>2. op'[c].step = "not_joined" /\ SameCall(op'[c], op[c])
      /\ \A d \in Callers \ {c} : op'[d] = op[d]
  BY <1>1, GotoEffect DEF Steps
<1>3. ASSUME NEW d \in Callers PROVE CreateInv(d)'
  BY <1>1, <1>2, TypeFacts
  DEF StructInv, CreateInv, ReapInv, OpenSteps, ReapSteps, HoldingSteps, JoinedSteps,
      DetachedSteps, StartedStates, SameCall
<1>4. ASSUME NEW d \in Callers PROVE ReapInv(d)'
  BY <1>1, <1>2, TypeFacts
  DEF StructInv, LockInv, ReapInv, ThreadInv, JoinableInv, UniqueInv, ReapSteps,
      HoldingSteps, JoinedSteps, DetachedSteps, StartedStates, StartingStates, SameCall
<1>5. ASSUME NEW k \in Handles PROVE ThreadInv(k)'
  BY <1>1, <1>2, TypeFacts
  DEF StructInv, ThreadInv, CreateInv, OpenSteps, StartingStates, StartedStates,
      SameCall
<1>6. JoinableInv'
  BY <1>1, <1>2, TypeFacts
  DEF StructInv, JoinableInv, ReapInv, UniqueInv, ReapSteps, HoldingSteps, JoinedSteps,
      DetachedSteps, StartedStates, StartingStates, SameCall
<1>7. UniqueInv'
  BY <1>1, <1>2, TypeFacts
  DEF StructInv, UniqueInv, ThreadInv, JoinableInv, ReapSteps, HoldingSteps,
      JoinedSteps, DetachedSteps, StartedStates, StartingStates, SameCall
<1>8. LockInv'
  BY <1>1, <1>2, TypeFacts, XsanPthreadAssumption
  DEF StructInv, LockInv, Callers, HoldingSteps, SameCall
<1>. QED
  BY <1>3, <1>4, <1>5, <1>6, <1>7, <1>8 DEF StructInv

LEMMA RealJoinStruct ==
  ASSUME TypeOK, StructInv, NEW c \in Callers, RealJoin(c)
  PROVE  StructInv'
<1>1. op[c].step = "real_join" /\ lib[op[c].h] = "zombie"
      /\ Goto(c, "after_join") /\ ChildGoto(op[c].h, "none")
      /\ joinable' = joinable /\ args_owner' = args_owner /\ creates' = creates
  BY DEF RealJoin, At
<1>2. op'[c].step = "after_join" /\ SameCall(op'[c], op[c])
      /\ \A d \in Callers \ {c} : op'[d] = op[d]
  BY <1>1, GotoEffect DEF Steps
<1>3. op[c].h \in Handles
  BY <1>1 DEF StructInv, ReapInv, ReapSteps, HoldingSteps
<1>4. lib'[op[c].h] = "none" /\ UNCHANGED <<lib_detached, serial, creator>>
      /\ \A k \in Handles \ {op[c].h} : lib'[k] = lib[k]
  BY <1>1, <1>3, ChildGotoEffect DEF LibStates
<1>5. ASSUME NEW d \in Callers PROVE CreateInv(d)'
  BY <1>1, <1>2, <1>3, <1>4, TypeFacts
  DEF StructInv, CreateInv, ReapInv, OpenSteps, ReapSteps, HoldingSteps, JoinedSteps,
      DetachedSteps, StartedStates, SameCall
<1>6. ASSUME NEW d \in Callers PROVE ReapInv(d)'
  BY <1>1, <1>2, <1>3, <1>4, TypeFacts
  DEF StructInv, LockInv, ReapInv, ThreadInv, JoinableInv, UniqueInv, ReapSteps,
      HoldingSteps, JoinedSteps, DetachedSteps, StartedStates, StartingStates, SameCall
<1>7. ASSUME NEW k \in Handles PROVE ThreadInv(k)'
  BY <1>1, <1>2, <1>3, <1>4, TypeFacts
  DEF StructInv, ThreadInv, CreateInv, OpenSteps, StartingStates, StartedStates,
      SameCall
<1>8. JoinableInv'
  BY <1>1, <1>2, <1>3, <1>4, TypeFacts
  DEF StructInv, JoinableInv, ReapInv, UniqueInv, ReapSteps, HoldingSteps, JoinedSteps,
      DetachedSteps, StartedStates, StartingStates, SameCall
<1>9. UniqueInv'
  BY <1>1, <1>2, <1>3, <1>4, TypeFacts
  DEF StructInv, UniqueInv, ThreadInv, JoinableInv, ReapSteps, HoldingSteps,
      JoinedSteps, DetachedSteps, StartedStates, StartingStates, SameCall
<1>10. LockInv'
  BY <1>1, <1>2, <1>3, <1>4, TypeFacts, XsanPthreadAssumption
  DEF StructInv, LockInv, Callers, HoldingSteps, SameCall
<1>. QED
  BY <1>5, <1>6, <1>7, <1>8, <1>9, <1>10 DEF StructInv

LEMMA JoinAfterStruct ==
  ASSUME TypeOK, StructInv, NEW c \in Callers, JoinAfter(c)
  PROVE  StructInv'
<1>1. op[c].step = "after_join" /\ Goto(c, "join_thread")
      /\ joinable' = joinable /\ args_owner' = args_owner /\ UNCHANGED <<lib, lib_detached, serial, creator, creates>>
  BY DEF JoinAfter, At, lib_vars, Locked
<1>2. op'[c].step = "join_thread" /\ SameCall(op'[c], op[c])
      /\ \A d \in Callers \ {c} : op'[d] = op[d]
  BY <1>1, GotoEffect DEF Steps
<1>3. ASSUME NEW d \in Callers PROVE CreateInv(d)'
  BY <1>1, <1>2, TypeFacts
  DEF StructInv, CreateInv, ReapInv, OpenSteps, ReapSteps, HoldingSteps, JoinedSteps,
      DetachedSteps, StartedStates, SameCall
<1>4. ASSUME NEW d \in Callers PROVE ReapInv(d)'
  BY <1>1, <1>2, TypeFacts
  DEF StructInv, LockInv, ReapInv, ThreadInv, JoinableInv, UniqueInv, ReapSteps,
      HoldingSteps, JoinedSteps, DetachedSteps, StartedStates, StartingStates, SameCall
<1>5. ASSUME NEW k \in Handles PROVE ThreadInv(k)'
  BY <1>1, <1>2, TypeFacts
  DEF StructInv, ThreadInv, CreateInv, OpenSteps, StartingStates, StartedStates,
      SameCall
<1>6. JoinableInv'
  BY <1>1, <1>2, TypeFacts
  DEF StructInv, JoinableInv, ReapInv, UniqueInv, ReapSteps, HoldingSteps, JoinedSteps,
      DetachedSteps, StartedStates, StartingStates, SameCall
<1>7. UniqueInv'
  BY <1>1, <1>2, TypeFacts
  DEF StructInv, UniqueInv, ThreadInv, JoinableInv, ReapSteps, HoldingSteps,
      JoinedSteps, DetachedSteps, StartedStates, StartingStates, SameCall
<1>8. LockInv'
  BY <1>1, <1>2, TypeFacts, XsanPthreadAssumption
  DEF StructInv, LockInv, Callers, HoldingSteps, SameCall
<1>. QED
  BY <1>3, <1>4, <1>5, <1>6, <1>7, <1>8 DEF StructInv

LEMMA JoinThreadTidStruct ==
  ASSUME TypeOK, StructInv, NEW c \in Callers, JoinThreadTid(c)
  PROVE  StructInv'
<1>1. op[c].step = "join_thread" /\ Return(c) /\ joinable' = joinable /\ args_owner' = args_owner
      /\ UNCHANGED <<lib, lib_detached, serial, creator, creates>>
  BY DEF JoinThreadTid, At, lib_vars
<1>2. op'[c].step = "idle" /\ \A d \in Callers \ {c} : op'[d] = op[d]
  BY <1>1, ReturnEffect
<1>3. ASSUME NEW d \in Callers PROVE CreateInv(d)'
  BY <1>1, <1>2, TypeFacts
  DEF StructInv, CreateInv, ReapInv, OpenSteps, ReapSteps, HoldingSteps, JoinedSteps,
      DetachedSteps, StartedStates
<1>4. ASSUME NEW d \in Callers PROVE ReapInv(d)'
  BY <1>1, <1>2, TypeFacts
  DEF StructInv, LockInv, ReapInv, ThreadInv, JoinableInv, UniqueInv, ReapSteps,
      HoldingSteps, JoinedSteps, DetachedSteps, StartedStates, StartingStates
<1>5. ASSUME NEW k \in Handles PROVE ThreadInv(k)'
  BY <1>1, <1>2, TypeFacts
  DEF StructInv, ThreadInv, CreateInv, OpenSteps, StartingStates, StartedStates
<1>6. JoinableInv'
  BY <1>1, <1>2, TypeFacts
  DEF StructInv, JoinableInv, ReapInv, UniqueInv, ReapSteps, HoldingSteps, JoinedSteps,
      DetachedSteps, StartedStates, StartingStates
<1>7. UniqueInv'
  BY <1>1, <1>2, TypeFacts
  DEF StructInv, UniqueInv, ThreadInv, JoinableInv, ReapSteps, HoldingSteps,
      JoinedSteps, DetachedSteps, StartedStates, StartingStates
<1>8. LockInv'
  BY <1>1, <1>2, TypeFacts, XsanPthreadAssumption
  DEF StructInv, LockInv, Callers, HoldingSteps
<1>. QED
  BY <1>3, <1>4, <1>5, <1>6, <1>7, <1>8 DEF StructInv

\* The thread is the program's again, to join or detach.
LEMMA NotJoinedStruct ==
  ASSUME TypeOK, StructInv, NEW c \in Callers, NotJoined(c)
  PROVE  StructInv'
<1>1. op[c].step = "not_joined" /\ Return(c) /\ args_owner' = args_owner
      /\ joinable' = joinable \cup {op[c].h} /\ UNCHANGED <<lib, lib_detached, serial, creator, creates>>
  BY DEF NotJoined, At, lib_vars
<1>2. op'[c].step = "idle" /\ \A d \in Callers \ {c} : op'[d] = op[d]
  BY <1>1, ReturnEffect
<1>3. ASSUME NEW d \in Callers PROVE CreateInv(d)'
  BY <1>1, <1>2, TypeFacts
  DEF StructInv, CreateInv, ReapInv, OpenSteps, ReapSteps, HoldingSteps, JoinedSteps,
      DetachedSteps, StartedStates
<1>4. ASSUME NEW d \in Callers PROVE ReapInv(d)'
  BY <1>1, <1>2, TypeFacts
  DEF StructInv, LockInv, ReapInv, ThreadInv, JoinableInv, UniqueInv, ReapSteps,
      HoldingSteps, JoinedSteps, DetachedSteps, StartedStates, StartingStates
<1>5. ASSUME NEW k \in Handles PROVE ThreadInv(k)'
  BY <1>1, <1>2, TypeFacts
  DEF StructInv, ThreadInv, CreateInv, OpenSteps, StartingStates, StartedStates
<1>6. JoinableInv'
  BY <1>1, <1>2, TypeFacts
  DEF StructInv, JoinableInv, ReapInv, UniqueInv, ReapSteps, HoldingSteps, JoinedSteps,
      DetachedSteps, StartedStates, StartingStates
<1>7. UniqueInv'
  BY <1>1, <1>2, TypeFacts
  DEF StructInv, UniqueInv, ThreadInv, JoinableInv, ReapSteps, HoldingSteps,
      JoinedSteps, DetachedSteps, StartedStates, StartingStates
<1>8. LockInv'
  BY <1>1, <1>2, TypeFacts, XsanPthreadAssumption
  DEF StructInv, LockInv, Callers, HoldingSteps
<1>. QED
  BY <1>3, <1>4, <1>5, <1>6, <1>7, <1>8 DEF StructInv

LEMMA RealJoinFailsStruct ==
  ASSUME TypeOK, StructInv, NEW c \in Callers, RealJoinFails(c)
  PROVE  StructInv'
<1>1. op[c].step = "real_join" /\ Return(c) /\ args_owner' = args_owner
      /\ joinable' \in {joinable, joinable \cup {op[c].h}} /\ UNCHANGED <<lib, lib_detached, serial, creator, creates>>
  BY DEF RealJoinFails, At, lib_vars
<1>2. op'[c].step = "idle" /\ \A d \in Callers \ {c} : op'[d] = op[d]
  BY <1>1, ReturnEffect
<1>3. ASSUME NEW d \in Callers PROVE CreateInv(d)'
  BY <1>1, <1>2, TypeFacts
  DEF StructInv, CreateInv, ReapInv, OpenSteps, ReapSteps, HoldingSteps, JoinedSteps,
      DetachedSteps, StartedStates
<1>4. ASSUME NEW d \in Callers PROVE ReapInv(d)'
  BY <1>1, <1>2, TypeFacts
  DEF StructInv, LockInv, ReapInv, ThreadInv, JoinableInv, UniqueInv, ReapSteps,
      HoldingSteps, JoinedSteps, DetachedSteps, StartedStates, StartingStates
<1>5. ASSUME NEW k \in Handles PROVE ThreadInv(k)'
  BY <1>1, <1>2, TypeFacts
  DEF StructInv, ThreadInv, CreateInv, OpenSteps, StartingStates, StartedStates
<1>6. JoinableInv'
  BY <1>1, <1>2, TypeFacts
  DEF StructInv, JoinableInv, ReapInv, UniqueInv, ReapSteps, HoldingSteps, JoinedSteps,
      DetachedSteps, StartedStates, StartingStates
<1>7. UniqueInv'
  BY <1>1, <1>2, TypeFacts
  DEF StructInv, UniqueInv, ThreadInv, JoinableInv, ReapSteps, HoldingSteps,
      JoinedSteps, DetachedSteps, StartedStates, StartingStates
<1>8. LockInv'
  BY <1>1, <1>2, TypeFacts, XsanPthreadAssumption
  DEF StructInv, LockInv, Callers, HoldingSteps
<1>. QED
  BY <1>3, <1>4, <1>5, <1>6, <1>7, <1>8 DEF StructInv

LEMMA RealDetachStruct ==
  ASSUME TypeOK, StructInv, NEW c \in Callers, RealDetach(c)
  PROVE  StructInv'
<1>1. op[c].step = "real_detach" /\ Goto(c, "detach_locked")
      /\ args_owner = Nobody /\ args_owner' = c
      /\ UNCHANGED <<serial, creator, joinable, creates>>
  BY DEF RealDetach, At, Lock
<1>2. op'[c].step = "detach_locked" /\ SameCall(op'[c], op[c])
      /\ \A d \in Callers \ {c} : op'[d] = op[d]
  BY <1>1, GotoEffect DEF Steps
<1>3. op[c].h \in Handles
  BY <1>1 DEF StructInv, ReapInv, ReapSteps, HoldingSteps
<1>4. /\ lib_detached'[op[c].h] = TRUE
      /\ lib'[op[c].h] = IF lib[op[c].h] = "zombie" THEN "none" ELSE lib[op[c].h]
      /\ \A k \in Handles \ {op[c].h} :
           lib'[k] = lib[k] /\ lib_detached'[k] = lib_detached[k]
  BY <1>3 DEF RealDetach, TypeOK
<1>5. ASSUME NEW d \in Callers PROVE CreateInv(d)'
  BY <1>1, <1>2, <1>3, <1>4, TypeFacts
  DEF StructInv, CreateInv, ReapInv, OpenSteps, ReapSteps, HoldingSteps, JoinedSteps,
      DetachedSteps, StartedStates, SameCall
<1>6. ASSUME NEW d \in Callers PROVE ReapInv(d)'
  BY <1>1, <1>2, <1>3, <1>4, TypeFacts
  DEF StructInv, LockInv, ReapInv, ThreadInv, JoinableInv, UniqueInv, ReapSteps,
      HoldingSteps, JoinedSteps, DetachedSteps, StartedStates, StartingStates, SameCall
<1>7. ASSUME NEW k \in Handles PROVE ThreadInv(k)'
  BY <1>1, <1>2, <1>3, <1>4, TypeFacts
  DEF StructInv, ThreadInv, CreateInv, OpenSteps, StartingStates, StartedStates,
      SameCall
<1>8. JoinableInv'
  BY <1>1, <1>2, <1>3, <1>4, TypeFacts
  DEF StructInv, JoinableInv, ReapInv, UniqueInv, ReapSteps, HoldingSteps, JoinedSteps,
      DetachedSteps, StartedStates, StartingStates, SameCall
<1>9. UniqueInv'
  BY <1>1, <1>2, <1>3, <1>4, TypeFacts
  DEF StructInv, UniqueInv, ThreadInv, JoinableInv, ReapSteps, HoldingSteps,
      JoinedSteps, DetachedSteps, StartedStates, StartingStates, SameCall
<1>10. LockInv'
  BY <1>1, <1>2, <1>3, <1>4, TypeFacts, XsanPthreadAssumption
  DEF StructInv, LockInv, Callers, HoldingSteps, SameCall
<1>. QED
  BY <1>5, <1>6, <1>7, <1>8, <1>9, <1>10 DEF StructInv

LEMMA PthreadDetachLockedStruct ==
  ASSUME TypeOK, StructInv, NEW c \in Callers, PthreadDetachLocked(c)
  PROVE  StructInv'
<1>1. op[c].step = "detach_locked" /\ Goto(c, "detach_thread")
      /\ args_owner' = Nobody /\ joinable' = joinable /\ UNCHANGED <<lib, lib_detached, serial, creator, creates>>
  BY DEF PthreadDetachLocked, At, lib_vars, Unlock
<1>2. op'[c].step = "detach_thread" /\ SameCall(op'[c], op[c])
      /\ \A d \in Callers \ {c} : op'[d] = op[d]
  BY <1>1, GotoEffect DEF Steps
<1>3. args_owner = c
  BY <1>1 DEF StructInv, LockInv
<1>4. ASSUME NEW d \in Callers PROVE CreateInv(d)'
  BY <1>1, <1>2, <1>3, TypeFacts
  DEF StructInv, CreateInv, ReapInv, OpenSteps, ReapSteps, HoldingSteps, JoinedSteps,
      DetachedSteps, StartedStates, SameCall
<1>5. ASSUME NEW d \in Callers PROVE ReapInv(d)'
  BY <1>1, <1>2, <1>3, TypeFacts
  DEF StructInv, LockInv, ReapInv, ThreadInv, JoinableInv, UniqueInv, ReapSteps,
      HoldingSteps, JoinedSteps, DetachedSteps, StartedStates, StartingStates, SameCall
<1>6. ASSUME NEW k \in Handles PROVE ThreadInv(k)'
  BY <1>1, <1>2, <1>3, TypeFacts
  DEF StructInv, ThreadInv, CreateInv, OpenSteps, StartingStates, StartedStates,
      SameCall
<1>7. JoinableInv'
  BY <1>1, <1>2, <1>3, TypeFacts
  DEF StructInv, JoinableInv, ReapInv, UniqueInv, ReapSteps, HoldingSteps, JoinedSteps,
      DetachedSteps, StartedStates, StartingStates, SameCall
<1>8. UniqueInv'
  BY <1>1, <1>2, <1>3, TypeFacts
  DEF StructInv, UniqueInv, ThreadInv, JoinableInv, ReapSteps, HoldingSteps,
      JoinedSteps, DetachedSteps, StartedStates, StartingStates, SameCall
<1>9. LockInv'
  BY <1>1, <1>2, <1>3, TypeFacts, XsanPthreadAssumption
  DEF StructInv, LockInv, Callers, HoldingSteps, SameCall
<1>. QED
  BY <1>4, <1>5, <1>6, <1>7, <1>8, <1>9 DEF StructInv

LEMMA DetachThreadTidStruct ==
  ASSUME TypeOK, StructInv, NEW c \in Callers, DetachThreadTid(c)
  PROVE  StructInv'
<1>1. op[c].step = "detach_thread" /\ Return(c) /\ joinable' = joinable /\ args_owner' = args_owner
      /\ UNCHANGED <<lib, lib_detached, serial, creator, creates>>
  BY DEF DetachThreadTid, At, lib_vars
<1>2. op'[c].step = "idle" /\ \A d \in Callers \ {c} : op'[d] = op[d]
  BY <1>1, ReturnEffect
<1>3. ASSUME NEW d \in Callers PROVE CreateInv(d)'
  BY <1>1, <1>2, TypeFacts
  DEF StructInv, CreateInv, ReapInv, OpenSteps, ReapSteps, HoldingSteps, JoinedSteps,
      DetachedSteps, StartedStates
<1>4. ASSUME NEW d \in Callers PROVE ReapInv(d)'
  BY <1>1, <1>2, TypeFacts
  DEF StructInv, LockInv, ReapInv, ThreadInv, JoinableInv, UniqueInv, ReapSteps,
      HoldingSteps, JoinedSteps, DetachedSteps, StartedStates, StartingStates
<1>5. ASSUME NEW k \in Handles PROVE ThreadInv(k)'
  BY <1>1, <1>2, TypeFacts
  DEF StructInv, ThreadInv, CreateInv, OpenSteps, StartingStates, StartedStates
<1>6. JoinableInv'
  BY <1>1, <1>2, TypeFacts
  DEF StructInv, JoinableInv, ReapInv, UniqueInv, ReapSteps, HoldingSteps, JoinedSteps,
      DetachedSteps, StartedStates, StartingStates
<1>7. UniqueInv'
  BY <1>1, <1>2, TypeFacts
  DEF StructInv, UniqueInv, ThreadInv, JoinableInv, ReapSteps, HoldingSteps,
      JoinedSteps, DetachedSteps, StartedStates, StartingStates
<1>8. LockInv'
  BY <1>1, <1>2, TypeFacts, XsanPthreadAssumption
  DEF StructInv, LockInv, Callers, HoldingSteps
<1>. QED
  BY <1>3, <1>4, <1>5, <1>6, <1>7, <1>8 DEF StructInv

\* The start of a join and of a detach.
LEMMA ConsumeTidStruct ==
  ASSUME TypeOK, StructInv, NEW c \in Callers, NEW h \in Handles,
         NEW step \in {"before_join", "real_detach"}, NEW try \in BOOLEAN,
         ConsumeTid(c, h, step, try)
  PROVE  StructInv'
<1>1. op[c].step = "idle" /\ h \in joinable /\ joinable' = joinable \ {h}
      /\ args_owner' = args_owner /\ UNCHANGED <<lib, lib_detached, serial, creator, creates>>
  BY DEF ConsumeTid, InUserCode, lib_vars
<1>2. op'[c].step = step /\ op'[c].h = h /\ op'[c].serial = serial[h]
      /\ \A d \in Callers \ {c} : op'[d] = op[d]
  BY DEF ConsumeTid, TypeOK, Idle
<1>3. ASSUME NEW d \in Callers PROVE CreateInv(d)'
  BY <1>1, <1>2, TypeFacts
  DEF StructInv, CreateInv, ReapInv, OpenSteps, ReapSteps, HoldingSteps, JoinedSteps,
      DetachedSteps, StartedStates
<1>4. ASSUME NEW d \in Callers PROVE ReapInv(d)'
  BY <1>1, <1>2, TypeFacts
  DEF StructInv, LockInv, ReapInv, ThreadInv, JoinableInv, UniqueInv, ReapSteps,
      HoldingSteps, JoinedSteps, DetachedSteps, StartedStates, StartingStates
<1>5. ASSUME NEW k \in Handles PROVE ThreadInv(k)'
  BY <1>1, <1>2, TypeFacts
  DEF StructInv, ThreadInv, CreateInv, OpenSteps, StartingStates, StartedStates
<1>6. JoinableInv'
  BY <1>1, <1>2, TypeFacts
  DEF StructInv, JoinableInv, ReapInv, UniqueInv, ReapSteps, HoldingSteps, JoinedSteps,
      DetachedSteps, StartedStates, StartingStates
<1>7. UniqueInv'
  BY <1>1, <1>2, TypeFacts
  DEF StructInv, UniqueInv, ThreadInv, JoinableInv, ReapSteps, HoldingSteps,
      JoinedSteps, DetachedSteps, StartedStates, StartingStates
<1>8. LockInv'
  BY <1>1, <1>2, TypeFacts, XsanPthreadAssumption
  DEF StructInv, LockInv, Callers, HoldingSteps
<1>. QED
  BY <1>3, <1>4, <1>5, <1>6, <1>7, <1>8 DEF StructInv

LEMMA ThreadGetArgsStruct ==
  ASSUME TypeOK, StructInv, NEW h \in Handles, ThreadGetArgs(h)
  PROVE  StructInv'
<1>1. lib[h] = "started" /\ args_owner = Nobody
      /\ joinable' = joinable /\ args_owner' = args_owner /\ UNCHANGED <<op, creates>>
      /\ UNCHANGED <<lib_detached, serial, creator>>
  BY DEF ThreadGetArgs, ChildAt, ChildGoto, Locked
<1>2. /\ lib'[h] \in {"started", "got_args"}
      /\ \A k \in Handles \ {h} : lib'[k] = lib[k]
  BY <1>1 DEF ThreadGetArgs, ChildGoto, TypeOK
<1>3. \A d \in Callers : op[d].step # "create_locked"
  BY <1>1, XsanPthreadAssumption DEF StructInv, LockInv, Callers
<1>4. ASSUME NEW d \in Callers PROVE CreateInv(d)'
  BY <1>1, <1>2, <1>3, TypeFacts
  DEF StructInv, CreateInv, ReapInv, OpenSteps, ReapSteps, HoldingSteps, JoinedSteps,
      DetachedSteps, StartedStates
<1>5. ASSUME NEW d \in Callers PROVE ReapInv(d)'
  BY <1>1, <1>2, <1>3, TypeFacts
  DEF StructInv, LockInv, ReapInv, ThreadInv, JoinableInv, UniqueInv, ReapSteps,
      HoldingSteps, JoinedSteps, DetachedSteps, StartedStates, StartingStates
<1>6. ASSUME NEW k \in Handles PROVE ThreadInv(k)'
  BY <1>1, <1>2, <1>3, TypeFacts
  DEF StructInv, ThreadInv, CreateInv, OpenSteps, StartingStates, StartedStates
<1>7. JoinableInv'
  BY <1>1, <1>2, <1>3, TypeFacts
  DEF StructInv, JoinableInv, ReapInv, UniqueInv, ReapSteps, HoldingSteps, JoinedSteps,
      DetachedSteps, StartedStates, StartingStates
<1>8. UniqueInv'
  BY <1>1, <1>2, <1>3, TypeFacts
  DEF StructInv, UniqueInv, ThreadInv, JoinableInv, ReapSteps, HoldingSteps,
      JoinedSteps, DetachedSteps, StartedStates, StartingStates
<1>9. LockInv'
  BY <1>1, <1>2, <1>3, TypeFacts, XsanPthreadAssumption
  DEF StructInv, LockInv, Callers, HoldingSteps
<1>. QED
  BY <1>4, <1>5, <1>6, <1>7, <1>8, <1>9 DEF StructInv

LEMMA ThreadStartStruct ==
  ASSUME TypeOK, StructInv, NEW h \in Handles, ThreadStart(h)
  PROVE  StructInv'
<1>1. lib[h] = "got_args" /\ ChildGoto(h, "thread_started")
      /\ joinable' = joinable /\ args_owner' = args_owner /\ UNCHANGED <<op, creates>>
      /\ op[creator[h]].created
  BY DEF ThreadStart, ChildAt
<1>2. /\ lib'[h] = "thread_started" /\ UNCHANGED <<lib_detached, serial, creator>>
      /\ \A k \in Handles \ {h} : lib'[k] = lib[k]
  BY <1>1, ChildGotoEffect DEF LibStates
<1>3. creator[h] \in Callers /\ op[creator[h]].step = "wait_started"
  BY <1>1 DEF TypeOK, StructInv, ThreadInv, CreateInv, StartingStates, OpenSteps
<1>4. ASSUME NEW d \in Callers PROVE CreateInv(d)'
  BY <1>1, <1>2, <1>3, TypeFacts
  DEF StructInv, CreateInv, ReapInv, OpenSteps, ReapSteps, HoldingSteps, JoinedSteps,
      DetachedSteps, StartedStates
<1>5. ASSUME NEW d \in Callers PROVE ReapInv(d)'
  BY <1>1, <1>2, <1>3, TypeFacts
  DEF StructInv, LockInv, ReapInv, ThreadInv, JoinableInv, UniqueInv, ReapSteps,
      HoldingSteps, JoinedSteps, DetachedSteps, StartedStates, StartingStates
<1>6. ASSUME NEW k \in Handles PROVE ThreadInv(k)'
  BY <1>1, <1>2, <1>3, TypeFacts
  DEF StructInv, ThreadInv, CreateInv, OpenSteps, StartingStates, StartedStates
<1>7. JoinableInv'
  BY <1>1, <1>2, <1>3, TypeFacts
  DEF StructInv, JoinableInv, ReapInv, UniqueInv, ReapSteps, HoldingSteps, JoinedSteps,
      DetachedSteps, StartedStates, StartingStates
<1>8. UniqueInv'
  BY <1>1, <1>2, <1>3, TypeFacts
  DEF StructInv, UniqueInv, ThreadInv, JoinableInv, ReapSteps, HoldingSteps,
      JoinedSteps, DetachedSteps, StartedStates, StartingStates
<1>9. LockInv'
  BY <1>1, <1>2, <1>3, TypeFacts, XsanPthreadAssumption
  DEF StructInv, LockInv, Callers, HoldingSteps
<1>. QED
  BY <1>4, <1>5, <1>6, <1>7, <1>8, <1>9 DEF StructInv

\* The new thread is the program's from here on.
LEMMA ThreadPostStartedStruct ==
  ASSUME TypeOK, StructInv, NEW h \in Handles, ThreadPostStarted(h)
  PROVE  StructInv'
<1>1. lib[h] = "thread_started" /\ ChildGoto(h, "running")
      /\ joinable' = (IF lib_detached[h] THEN joinable ELSE joinable \cup {h})
      /\ args_owner' = args_owner /\ creates' = creates
  BY DEF ThreadPostStarted, ChildAt
<1>2. /\ lib'[h] = "running" /\ UNCHANGED <<lib_detached, serial, creator>>
      /\ \A k \in Handles \ {h} : lib'[k] = lib[k]
  BY <1>1, ChildGotoEffect DEF LibStates
<1>3. /\ \A d \in Callers : /\ op'[d].step = op[d].step
                           /\ op'[d].h = op[d].h /\ op'[d].serial = op[d].serial
                           /\ op'[d].flag = op[d].flag /\ op'[d].created = op[d].created
      /\ \A d \in Callers \ {creator[h]} : op'[d] = op[d]
  BY DEF ThreadPostStarted, TypeOK, Operations
<1>4. op[creator[h]].h = h
  BY <1>1 DEF StructInv, ThreadInv, StartingStates
<1>5. lib_detached[h] \/ \A d \in Callers : op[d].step \in ReapSteps => op[d].serial # serial[h]
  BY <1>1
  DEF StructInv, ReapInv, UniqueInv, ReapSteps, HoldingSteps, JoinedSteps,
      DetachedSteps, StartedStates
<1>6. ASSUME NEW d \in Callers PROVE CreateInv(d)'
  BY <1>1, <1>2, <1>3, <1>4, <1>5, TypeFacts
  DEF StructInv, CreateInv, ReapInv, OpenSteps, ReapSteps, HoldingSteps, JoinedSteps,
      DetachedSteps, StartedStates
<1>7. ASSUME NEW d \in Callers PROVE ReapInv(d)'
  BY <1>1, <1>2, <1>3, <1>4, <1>5, TypeFacts
  DEF StructInv, LockInv, ReapInv, ThreadInv, JoinableInv, UniqueInv, ReapSteps,
      HoldingSteps, JoinedSteps, DetachedSteps, StartedStates, StartingStates
<1>8. ASSUME NEW k \in Handles PROVE ThreadInv(k)'
  BY <1>1, <1>2, <1>3, <1>4, <1>5, TypeFacts
  DEF StructInv, ThreadInv, CreateInv, OpenSteps, StartingStates, StartedStates
<1>9. JoinableInv'
  BY <1>1, <1>2, <1>3, <1>4, <1>5, TypeFacts
  DEF StructInv, JoinableInv, ReapInv, UniqueInv, ReapSteps, HoldingSteps, JoinedSteps,
      DetachedSteps, StartedStates, StartingStates
<1>10. UniqueInv'
  BY <1>1, <1>2, <1>3, <1>4, <1>5, TypeFacts
  DEF StructInv, UniqueInv, ThreadInv, JoinableInv, ReapSteps, HoldingSteps,
      JoinedSteps, DetachedSteps, StartedStates, StartingStates
<1>11. LockInv'
  BY <1>1, <1>2, <1>3, <1>4, <1>5, TypeFacts, XsanPthreadAssumption
  DEF StructInv, LockInv, Callers, HoldingSteps
<1>. QED
  BY <1>6, <1>7, <1>8, <1>9, <1>10, <1>11 DEF StructInv

LEMMA ThreadReturnStruct ==
  ASSUME TypeOK, StructInv, NEW h \in Handles, ThreadReturn(h)
  PROVE  StructInv'
<1>1. lib[h] = "running" /\ ChildGoto(h, "finishing")
      /\ joinable' = joinable /\ args_owner' = args_owner /\ UNCHANGED <<op, creates>>
  BY DEF ThreadReturn, ChildAt, Locked
<1>2. /\ lib'[h] = "finishing" /\ UNCHANGED <<lib_detached, serial, creator>>
      /\ \A k \in Handles \ {h} : lib'[k] = lib[k]
  BY <1>1, ChildGotoEffect DEF LibStates
<1>3. ASSUME NEW d \in Callers PROVE CreateInv(d)'
  BY <1>1, <1>2, TypeFacts
  DEF StructInv, CreateInv, ReapInv, OpenSteps, ReapSteps, HoldingSteps, JoinedSteps,
      DetachedSteps, StartedStates
<1>4. ASSUME NEW d \in Callers PROVE ReapInv(d)'
  BY <1>1, <1>2, TypeFacts
  DEF StructInv, LockInv, ReapInv, ThreadInv, JoinableInv, UniqueInv, ReapSteps,
      HoldingSteps, JoinedSteps, DetachedSteps, StartedStates, StartingStates
<1>5. ASSUME NEW k \in Handles PROVE ThreadInv(k)'
  BY <1>1, <1>2, TypeFacts
  DEF StructInv, ThreadInv, CreateInv, OpenSteps, StartingStates, StartedStates
<1>6. JoinableInv'
  BY <1>1, <1>2, TypeFacts
  DEF StructInv, JoinableInv, ReapInv, UniqueInv, ReapSteps, HoldingSteps, JoinedSteps,
      DetachedSteps, StartedStates, StartingStates
<1>7. UniqueInv'
  BY <1>1, <1>2, TypeFacts
  DEF StructInv, UniqueInv, ThreadInv, JoinableInv, ReapSteps, HoldingSteps,
      JoinedSteps, DetachedSteps, StartedStates, StartingStates
<1>8. LockInv'
  BY <1>1, <1>2, TypeFacts, XsanPthreadAssumption
  DEF StructInv, LockInv, Callers, HoldingSteps
<1>. QED
  BY <1>3, <1>4, <1>5, <1>6, <1>7, <1>8 DEF StructInv

LEMMA ThreadCancelledStruct ==
  ASSUME TypeOK, StructInv, NEW h \in Handles, ThreadCancelled(h)
  PROVE  StructInv'
<1>1. lib[h] = "running" /\ ChildGoto(h, "finishing")
      /\ joinable' = joinable /\ args_owner' = args_owner /\ UNCHANGED <<op, creates>>
  BY DEF ThreadCancelled, ChildAt
<1>2. /\ lib'[h] = "finishing" /\ UNCHANGED <<lib_detached, serial, creator>>
      /\ \A k \in Handles \ {h} : lib'[k] = lib[k]
  BY <1>1, ChildGotoEffect DEF LibStates
<1>3. ASSUME NEW d \in Callers PROVE CreateInv(d)'
  BY <1>1, <1>2, TypeFacts
  DEF StructInv, CreateInv, ReapInv, OpenSteps, ReapSteps, HoldingSteps, JoinedSteps,
      DetachedSteps, StartedStates
<1>4. ASSUME NEW d \in Callers PROVE ReapInv(d)'
  BY <1>1, <1>2, TypeFacts
  DEF StructInv, LockInv, ReapInv, ThreadInv, JoinableInv, UniqueInv, ReapSteps,
      HoldingSteps, JoinedSteps, DetachedSteps, StartedStates, StartingStates
<1>5. ASSUME NEW k \in Handles PROVE ThreadInv(k)'
  BY <1>1, <1>2, TypeFacts
  DEF StructInv, ThreadInv, CreateInv, OpenSteps, StartingStates, StartedStates
<1>6. JoinableInv'
  BY <1>1, <1>2, TypeFacts
  DEF StructInv, JoinableInv, ReapInv, UniqueInv, ReapSteps, HoldingSteps, JoinedSteps,
      DetachedSteps, StartedStates, StartingStates
<1>7. UniqueInv'
  BY <1>1, <1>2, TypeFacts
  DEF StructInv, UniqueInv, ThreadInv, JoinableInv, ReapSteps, HoldingSteps,
      JoinedSteps, DetachedSteps, StartedStates, StartingStates
<1>8. LockInv'
  BY <1>1, <1>2, TypeFacts, XsanPthreadAssumption
  DEF StructInv, LockInv, Callers, HoldingSteps
<1>. QED
  BY <1>3, <1>4, <1>5, <1>6, <1>7, <1>8 DEF StructInv

LEMMA ThreadDestroyStruct ==
  ASSUME TypeOK, StructInv, NEW h \in Handles, ThreadDestroy(h)
  PROVE  StructInv'
<1>1. lib[h] = "finishing" /\ ChildGoto(h, "destroyed")
      /\ joinable' = joinable /\ args_owner' = args_owner /\ UNCHANGED <<op, creates>>
  BY DEF ThreadDestroy, ChildAt
<1>2. /\ lib'[h] = "destroyed" /\ UNCHANGED <<lib_detached, serial, creator>>
      /\ \A k \in Handles \ {h} : lib'[k] = lib[k]
  BY <1>1, ChildGotoEffect DEF LibStates
<1>3. ASSUME NEW d \in Callers PROVE CreateInv(d)'
  BY <1>1, <1>2, TypeFacts
  DEF StructInv, CreateInv, ReapInv, OpenSteps, ReapSteps, HoldingSteps, JoinedSteps,
      DetachedSteps, StartedStates
<1>4. ASSUME NEW d \in Callers PROVE ReapInv(d)'
  BY <1>1, <1>2, TypeFacts
  DEF StructInv, LockInv, ReapInv, ThreadInv, JoinableInv, UniqueInv, ReapSteps,
      HoldingSteps, JoinedSteps, DetachedSteps, StartedStates, StartingStates
<1>5. ASSUME NEW k \in Handles PROVE ThreadInv(k)'
  BY <1>1, <1>2, TypeFacts
  DEF StructInv, ThreadInv, CreateInv, OpenSteps, StartingStates, StartedStates
<1>6. JoinableInv'
  BY <1>1, <1>2, TypeFacts
  DEF StructInv, JoinableInv, ReapInv, UniqueInv, ReapSteps, HoldingSteps, JoinedSteps,
      DetachedSteps, StartedStates, StartingStates
<1>7. UniqueInv'
  BY <1>1, <1>2, TypeFacts
  DEF StructInv, UniqueInv, ThreadInv, JoinableInv, ReapSteps, HoldingSteps,
      JoinedSteps, DetachedSteps, StartedStates, StartingStates
<1>8. LockInv'
  BY <1>1, <1>2, TypeFacts, XsanPthreadAssumption
  DEF StructInv, LockInv, Callers, HoldingSteps
<1>. QED
  BY <1>3, <1>4, <1>5, <1>6, <1>7, <1>8 DEF StructInv

LEMMA ThreadExitStruct ==
  ASSUME TypeOK, StructInv, NEW h \in Handles, ThreadExit(h)
  PROVE  StructInv'
<1>1. lib[h] = "destroyed" /\ joinable' = joinable /\ args_owner' = args_owner /\ UNCHANGED <<op, creates>>
      /\ UNCHANGED <<lib_detached, serial, creator>>
  BY DEF ThreadExit, ChildAt, ChildGoto
<1>2. /\ lib'[h] = IF lib_detached[h] THEN "none" ELSE "zombie"
      /\ \A k \in Handles \ {h} : lib'[k] = lib[k]
  BY DEF ThreadExit, ChildGoto, TypeOK
<1>3. ASSUME NEW d \in Callers PROVE CreateInv(d)'
  BY <1>1, <1>2, TypeFacts
  DEF StructInv, CreateInv, ReapInv, OpenSteps, ReapSteps, HoldingSteps, JoinedSteps,
      DetachedSteps, StartedStates
<1>4. ASSUME NEW d \in Callers PROVE ReapInv(d)'
  BY <1>1, <1>2, TypeFacts
  DEF StructInv, LockInv, ReapInv, ThreadInv, JoinableInv, UniqueInv, ReapSteps,
      HoldingSteps, JoinedSteps, DetachedSteps, StartedStates, StartingStates
<1>5. ASSUME NEW k \in Handles PROVE ThreadInv(k)'
  BY <1>1, <1>2, TypeFacts
  DEF StructInv, ThreadInv, CreateInv, OpenSteps, StartingStates, StartedStates
<1>6. JoinableInv'
  BY <1>1, <1>2, TypeFacts
  DEF StructInv, JoinableInv, ReapInv, UniqueInv, ReapSteps, HoldingSteps, JoinedSteps,
      DetachedSteps, StartedStates, StartingStates
<1>7. UniqueInv'
  BY <1>1, <1>2, TypeFacts
  DEF StructInv, UniqueInv, ThreadInv, JoinableInv, ReapSteps, HoldingSteps,
      JoinedSteps, DetachedSteps, StartedStates, StartingStates
<1>8. LockInv'
  BY <1>1, <1>2, TypeFacts, XsanPthreadAssumption
  DEF StructInv, LockInv, Callers, HoldingSteps
<1>. QED
  BY <1>3, <1>4, <1>5, <1>6, <1>7, <1>8 DEF StructInv

\* In the child of fork nothing is left but the thread that called it.
LEMMA ForkStruct ==
  ASSUME TypeOK, StructInv, NEW c \in Callers, Fork(c)
  PROVE  StructInv'
<1>1. /\ c \in Handles => lib[c] = "running"
      /\ args_owner = Nobody /\ args_owner' = args_owner
      /\ joinable' = {} /\ creates' = creates
  BY DEF Fork, InUserCode, Locked
<1>2. /\ \A h \in Handles : h = c => lib'[h] = lib[h] /\ serial'[h] = serial[h]
      /\ \A h \in Handles : h # c => lib'[h] = "none"
  BY DEF Fork
<1>3. \A d \in Callers : op'[d].step = "idle"
  BY DEF Fork, Idle
<1>4. ASSUME NEW d \in Callers PROVE CreateInv(d)'
  BY <1>1, <1>2, <1>3, TypeFacts
  DEF StructInv, CreateInv, ReapInv, OpenSteps, ReapSteps, HoldingSteps, JoinedSteps,
      DetachedSteps, StartedStates
<1>5. ASSUME NEW d \in Callers PROVE ReapInv(d)'
  BY <1>1, <1>2, <1>3, TypeFacts
  DEF StructInv, LockInv, ReapInv, ThreadInv, JoinableInv, UniqueInv, ReapSteps,
      HoldingSteps, JoinedSteps, DetachedSteps, StartedStates, StartingStates
<1>6. ASSUME NEW k \in Handles PROVE ThreadInv(k)'
  BY <1>1, <1>2, <1>3, TypeFacts
  DEF StructInv, ThreadInv, CreateInv, OpenSteps, StartingStates, StartedStates
<1>7. JoinableInv'
  BY <1>1, <1>2, <1>3, TypeFacts
  DEF StructInv, JoinableInv, ReapInv, UniqueInv, ReapSteps, HoldingSteps, JoinedSteps,
      DetachedSteps, StartedStates, StartingStates
<1>8. UniqueInv'
  BY <1>1, <1>2, <1>3, TypeFacts
  DEF StructInv, UniqueInv, ThreadInv, JoinableInv, ReapSteps, HoldingSteps,
      JoinedSteps, DetachedSteps, StartedStates, StartingStates
<1>9. LockInv'
  BY <1>1, <1>2, <1>3, TypeFacts, XsanPthreadAssumption
  DEF StructInv, LockInv, Callers, HoldingSteps
<1>. QED
  BY <1>4, <1>5, <1>6, <1>7, <1>8, <1>9 DEF StructInv

\* The actions, one by one.
LEMMA StructStep == TypeOK /\ StructInv /\ [Next]_vars => StructInv'
<1>. SUFFICES ASSUME TypeOK, StructInv, [Next]_vars PROVE StructInv'
  OBVIOUS
<1>1. ASSUME NEW c \in Callers, CreateStep(c) PROVE StructInv'
  BY <1>1, PthreadCreateLockedStruct, XsanThreadCreateStruct, PthreadCreateReturnStruct
  DEF CreateStep
<1>2. ASSUME NEW c \in Callers, JoinStep(c) PROVE StructInv'
  BY <1>2, JoinBeforeStruct, RealJoinStruct, JoinAfterStruct, JoinThreadTidStruct,
     RealTryJoinFailsStruct, NotJoinedStruct, RealJoinFailsStruct
  DEF JoinStep
<1>3. ASSUME NEW c \in Callers, DetachStep(c) PROVE StructInv'
  BY <1>3, RealDetachStruct, PthreadDetachLockedStruct, DetachThreadTidStruct
  DEF DetachStep
<1>4. ASSUME NEW c \in Callers, ProgramStep(c) PROVE StructInv'
  BY <1>4, RealPthreadCreateStruct, ConsumeTidStruct, ForkStruct
  DEF ProgramStep, JoinBegin, DetachBegin
<1>5. ASSUME NEW h \in Handles, StartStep(h) PROVE StructInv'
  BY <1>5, ThreadGetArgsStruct, ThreadStartStruct, ThreadPostStartedStruct DEF StartStep
<1>6. ASSUME NEW h \in Handles, EndStep(h) \/ ThreadReturn(h) \/ ThreadCancelled(h)
      PROVE  StructInv'
  BY <1>6, ThreadDestroyStruct, ThreadExitStruct, ThreadReturnStruct,
     ThreadCancelledStruct
  DEF EndStep
<1>7. CASE UNCHANGED vars
  BY <1>7 DEF StructInv, CreateInv, ReapInv, ThreadInv, JoinableInv, UniqueInv, LockInv,
              vars, lib_vars
<1>. QED
  BY <1>1, <1>2, <1>3, <1>4, <1>5, <1>6, <1>7 DEF Next, Terminated

LEMMA StructInit == Init => StructInv
<1>. SUFFICES ASSUME Init PROVE StructInv
  OBVIOUS
<1>1. /\ \A h \in Handles : lib[h] = "none"
      /\ \A c \in Callers : op[c].step = "idle"
      /\ joinable = {} /\ args_owner = Nobody
  BY DEF Init, ArgRetvalInit, Idle
<1>. QED
  BY <1>1, XsanPthreadAssumption
  DEF StructInv, CreateInv, ReapInv, ThreadInv, JoinableInv, UniqueInv, LockInv,
      OpenSteps, ReapSteps, HoldingSteps, JoinedSteps, DetachedSteps, StartingStates,
      Callers

-----------------------------------------------------------------------------
(***************************************************************************)
(* What ThreadArgRetval keeps.                                             *)
(***************************************************************************)
\* As long as generation numbers are not used up they number the threads, so that
\* they tell apart what a pthread_t alone does not.
GenInv ==
  /\ \A h \in DOMAIN data_ : data_[h].gen + 1 = data_[h].args
  /\ \A c \in Callers :
       op[c].step = "create_locked" => gen_ + 1 = creates /\ op[c].serial = creates
  /\ (\A c \in Callers : op[c].step # "create_locked") =>
       gen_ = IF creates = kInvalidGen THEN 0 ELSE creates

\* The thread with this pthread_t has its entry, or had it.
Entered(h) == lib[h] # "none" /\ (lib[h] = "started" => op[creator[h]].step # "create_locked")

EndedStates == {"finishing", "destroyed", "zombie"}

EntryInv(h) ==
  Entered(h) =>
    /\ h \in DOMAIN data_ => data_[h].args = serial[h]
    /\ lib[h] \notin EndedStates \/ ~lib_detached[h] =>
         /\ h \in DOMAIN data_
         /\ data_[h].detached => lib_detached[h]
         /\ data_[h].done => lib[h] \in EndedStates

OpArgInv(c) ==
  LET o == op[c] IN
  /\ o.step \in {"real_join", "after_join"} => o.gen + 1 = o.serial
  /\ o.step = "after_join" /\ o.h \in DOMAIN data_ /\ data_[o.h].args = o.serial =>
       ~data_[o.h].detached
  /\ o.step = "detach_locked" =>
       o.h \in DOMAIN data_ /\ data_[o.h].args = o.serial /\ ~data_[o.h].detached

ArgInv ==
  /\ GenInv
  /\ \A h \in Handles : EntryInv(h)
  /\ \A c \in Callers : OpArgInv(c)

LEMMA RealPthreadCreateArgs ==
  ASSUME TypeOK, StructInv, ArgInv, MaxCreates <= kInvalidGen,
         NEW c \in Callers, NEW h \in Handles, NEW det \in BOOLEAN,
         RealPthreadCreate(c, h, det)
  PROVE  ArgInv'
<1>1. /\ op[c].step = "idle"
      /\ lib[h] = "none"
      /\ args_owner = Nobody
      /\ creates' = creates + 1 /\ creates \in Nat /\ creates < kInvalidGen
      /\ UNCHANGED <<data_, gen_>>
  BY ThreadArgRetvalAssumption, XsanPthreadAssumption
  DEF RealPthreadCreate, InUserCode, Lock, UnchangedArgs, arg_vars, TypeOK
<1>2. /\ lib'[h] = "started" /\ creator'[h] = c
      /\ \A k \in Handles \ {h} :
           /\ lib'[k] = lib[k] /\ lib_detached'[k] = lib_detached[k]
           /\ serial'[k] = serial[k] /\ creator'[k] = creator[k]
  BY DEF RealPthreadCreate, TypeOK
<1>3. /\ op'[c].step = "create_locked" /\ op'[c].h = h /\ op'[c].serial = creates + 1
      /\ \A d \in Callers \ {c} : op'[d] = op[d]
  BY DEF RealPthreadCreate, TypeOK, Idle
<1>4. \A d \in Callers : op[d].step # "create_locked"
  BY <1>1, XsanPthreadAssumption DEF StructInv, LockInv, Callers
<1>5. GenInv'
  BY <1>1, <1>2, <1>3, <1>4, TypeFacts
  DEF ArgInv, GenInv, StructInv, LockInv, CreateInv, OpenSteps
<1>6. ASSUME NEW k \in Handles PROVE EntryInv(k)'
  BY <1>1, <1>2, <1>3, <1>4, TypeFacts
  DEF ArgInv, EntryInv, Entered, EndedStates, OpArgInv, StructInv, CreateInv, ReapInv,
      ThreadInv, ReapSteps, HoldingSteps, JoinedSteps, DetachedSteps, StartedStates,
      StartingStates, OpenSteps
<1>7. ASSUME NEW d \in Callers PROVE OpArgInv(d)'
  BY <1>1, <1>2, <1>3, <1>4, TypeFacts
  DEF ArgInv, OpArgInv, EntryInv, Entered, EndedStates, StructInv, CreateInv, ReapInv,
      UniqueInv, ReapSteps, HoldingSteps, JoinedSteps, DetachedSteps, StartedStates,
      OpenSteps
<1>. QED
  BY <1>5, <1>6, <1>7 DEF ArgInv

LEMMA PthreadCreateLockedArgs ==
  ASSUME TypeOK, StructInv, ArgInv, NEW c \in Callers, PthreadCreateLocked(c)
  PROVE  ArgInv'
<1>1. op[c].step = "create_locked" /\ Goto(c, "create_thread")
      /\ UNCHANGED <<lib, lib_detached, serial, creator, creates>>
  BY DEF PthreadCreateLocked, At, lib_vars
<1>2. op'[c].step = "create_thread" /\ SameCall(op'[c], op[c])
      /\ \A d \in Callers \ {c} : op'[d] = op[d]
  BY <1>1, GotoEffect DEF Steps
<1>3. /\ DOMAIN data_' = DOMAIN data_ \cup {op[c].h}
      /\ data_'[op[c].h] = [gen |-> gen_, detached |-> op[c].flag, done |-> FALSE,
                            args |-> op[c].serial]
      /\ \A k \in DOMAIN data_ \ {op[c].h} : data_'[k] = data_[k]
      /\ gen_' = IF gen_ + 1 = kInvalidGen THEN 0 ELSE gen_ + 1
  BY DEF PthreadCreateLocked, CreateLocked
<1>4. \A d \in Callers \ {c} : op[d].step \notin {"create_locked", "detach_locked"}
  BY <1>1 DEF StructInv, LockInv
<1>5. GenInv'
  BY <1>1, <1>2, <1>3, <1>4, TypeFacts
  DEF ArgInv, GenInv, StructInv, LockInv, CreateInv, OpenSteps, SameCall
<1>6. ASSUME NEW k \in Handles PROVE EntryInv(k)'
  BY <1>1, <1>2, <1>3, <1>4, TypeFacts
  DEF ArgInv, EntryInv, Entered, EndedStates, OpArgInv, StructInv, CreateInv, ReapInv,
      ThreadInv, ReapSteps, HoldingSteps, JoinedSteps, DetachedSteps, StartedStates,
      StartingStates, OpenSteps, SameCall
<1>7. ASSUME NEW d \in Callers PROVE OpArgInv(d)'
  BY <1>1, <1>2, <1>3, <1>4, TypeFacts
  DEF ArgInv, OpArgInv, EntryInv, Entered, EndedStates, StructInv, CreateInv, ReapInv,
      UniqueInv, ReapSteps, HoldingSteps, JoinedSteps, DetachedSteps, StartedStates,
      OpenSteps, SameCall
<1>. QED
  BY <1>5, <1>6, <1>7 DEF ArgInv

LEMMA XsanThreadCreateArgs ==
  ASSUME TypeOK, StructInv, ArgInv, NEW c \in Callers, XsanThreadCreate(c)
  PROVE  ArgInv'
<1>1. op[c].step = "create_thread" /\ UNCHANGED <<lib, lib_detached, serial, creator, creates>> /\ UNCHANGED <<data_, gen_>>
  BY DEF XsanThreadCreate, At, UnchangedArgs, arg_vars
<1>2. op'[c].step = "wait_started" /\ \A d \in Callers \ {c} : op'[d] = op[d]
  BY DEF XsanThreadCreate, TypeOK, Operations
<1>3. GenInv'
  BY <1>1, <1>2, TypeFacts
  DEF ArgInv, GenInv, StructInv, LockInv, CreateInv, OpenSteps
<1>4. ASSUME NEW k \in Handles PROVE EntryInv(k)'
  BY <1>1, <1>2, TypeFacts
  DEF ArgInv, EntryInv, Entered, EndedStates, OpArgInv, StructInv, CreateInv, ReapInv,
      ThreadInv, ReapSteps, HoldingSteps, JoinedSteps, DetachedSteps, StartedStates,
      StartingStates, OpenSteps
<1>5. ASSUME NEW d \in Callers PROVE OpArgInv(d)'
  BY <1>1, <1>2, TypeFacts
  DEF ArgInv, OpArgInv, EntryInv, Entered, EndedStates, StructInv, CreateInv, ReapInv,
      UniqueInv, ReapSteps, HoldingSteps, JoinedSteps, DetachedSteps, StartedStates,
      OpenSteps
<1>. QED
  BY <1>3, <1>4, <1>5 DEF ArgInv

LEMMA PthreadCreateReturnArgs ==
  ASSUME TypeOK, StructInv, ArgInv, NEW c \in Callers, PthreadCreateReturn(c)
  PROVE  ArgInv'
<1>1. op[c].step = "wait_started" /\ Return(c)
      /\ UNCHANGED <<lib, lib_detached, serial, creator, creates>> /\ UNCHANGED <<data_, gen_>>
  BY DEF PthreadCreateReturn, At, lib_vars, UnchangedArgs, arg_vars
<1>2. op'[c].step = "idle" /\ \A d \in Callers \ {c} : op'[d] = op[d]
  BY <1>1, ReturnEffect
<1>3. GenInv'
  BY <1>1, <1>2, TypeFacts
  DEF ArgInv, GenInv, StructInv, LockInv, CreateInv, OpenSteps
<1>4. ASSUME NEW k \in Handles PROVE EntryInv(k)'
  BY <1>1, <1>2, TypeFacts
  DEF ArgInv, EntryInv, Entered, EndedStates, OpArgInv, StructInv, CreateInv, ReapInv,
      ThreadInv, ReapSteps, HoldingSteps, JoinedSteps, DetachedSteps, StartedStates,
      StartingStates, OpenSteps
<1>5. ASSUME NEW d \in Callers PROVE OpArgInv(d)'
  BY <1>1, <1>2, TypeFacts
  DEF ArgInv, OpArgInv, EntryInv, Entered, EndedStates, StructInv, CreateInv, ReapInv,
      UniqueInv, ReapSteps, HoldingSteps, JoinedSteps, DetachedSteps, StartedStates,
      OpenSteps
<1>. QED
  BY <1>3, <1>4, <1>5 DEF ArgInv

\* The thread is not detached, so its entry is there: the CHECK holds.
LEMMA JoinBeforeArgs ==
  ASSUME TypeOK, StructInv, ArgInv, NEW c \in Callers, JoinBefore(c)
  PROVE  ArgInv'
<1>1. op[c].step = "before_join" /\ UNCHANGED <<lib, lib_detached, serial, creator, creates>> /\ UNCHANGED <<data_, gen_>>
  BY DEF JoinBefore, At, lib_vars, UnchangedArgs, arg_vars
<1>2. /\ op'[c].h = op[c].h /\ op'[c].serial = op[c].serial
      /\ \/ op'[c].step = "before_join"
         \/ op'[c].step = "real_join" /\ op'[c].gen = data_[op[c].h].gen
      /\ \A d \in Callers \ {c} : op'[d] = op[d]
  BY <1>1 DEF JoinBefore, BeforeJoin, TypeOK, Operations
<1>3. GenInv'
  BY <1>1, <1>2, TypeFacts
  DEF ArgInv, GenInv, StructInv, LockInv, CreateInv, OpenSteps
<1>4. ASSUME NEW k \in Handles PROVE EntryInv(k)'
  BY <1>1, <1>2, TypeFacts
  DEF ArgInv, EntryInv, Entered, EndedStates, OpArgInv, StructInv, CreateInv, ReapInv,
      ThreadInv, ReapSteps, HoldingSteps, JoinedSteps, DetachedSteps, StartedStates,
      StartingStates, OpenSteps
<1>5. ASSUME NEW d \in Callers PROVE OpArgInv(d)'
  BY <1>1, <1>2, TypeFacts
  DEF ArgInv, OpArgInv, EntryInv, Entered, EndedStates, StructInv, CreateInv, ReapInv,
      UniqueInv, ReapSteps, HoldingSteps, JoinedSteps, DetachedSteps, StartedStates,
      OpenSteps, GenInv
<1>. QED
  BY <1>3, <1>4, <1>5 DEF ArgInv

LEMMA RealJoinArgs ==
  ASSUME TypeOK, StructInv, ArgInv, NEW c \in Callers, RealJoin(c)
  PROVE  ArgInv'
<1>1. op[c].step = "real_join" /\ lib[op[c].h] = "zombie"
      /\ Goto(c, "after_join") /\ ChildGoto(op[c].h, "none")
      /\ creates' = creates /\ UNCHANGED <<data_, gen_>>
  BY DEF RealJoin, At, UnchangedArgs, arg_vars
<1>2. op'[c].step = "after_join" /\ SameCall(op'[c], op[c])
      /\ \A d \in Callers \ {c} : op'[d] = op[d]
  BY <1>1, GotoEffect DEF Steps
<1>3. op[c].h \in Handles
  BY <1>1 DEF StructInv, ReapInv, ReapSteps, HoldingSteps
<1>4. lib'[op[c].h] = "none" /\ UNCHANGED <<lib_detached, serial, creator>>
      /\ \A k \in Handles \ {op[c].h} : lib'[k] = lib[k]
  BY <1>1, <1>3, ChildGotoEffect DEF LibStates
<1>5. GenInv'
  BY <1>1, <1>2, <1>3, <1>4, TypeFacts
  DEF ArgInv, GenInv, StructInv, LockInv, CreateInv, OpenSteps, SameCall
<1>6. ASSUME NEW k \in Handles PROVE EntryInv(k)'
  BY <1>1, <1>2, <1>3, <1>4, TypeFacts
  DEF ArgInv, EntryInv, Entered, EndedStates, OpArgInv, StructInv, CreateInv, ReapInv,
      ThreadInv, ReapSteps, HoldingSteps, JoinedSteps, DetachedSteps, StartedStates,
      StartingStates, OpenSteps, SameCall
<1>7. ASSUME NEW d \in Callers PROVE OpArgInv(d)'
  BY <1>1, <1>2, <1>3, <1>4, TypeFacts
  DEF ArgInv, OpArgInv, EntryInv, Entered, EndedStates, StructInv, CreateInv, ReapInv,
      UniqueInv, ReapSteps, HoldingSteps, JoinedSteps, DetachedSteps, StartedStates,
      OpenSteps, SameCall
<1>. QED
  BY <1>5, <1>6, <1>7 DEF ArgInv

\* The entry is dropped only if it is that of the thread joined.
LEMMA JoinAfterArgs ==
  ASSUME TypeOK, StructInv, ArgInv, NEW c \in Callers, JoinAfter(c)
  PROVE  ArgInv'
<1>1. op[c].step = "after_join" /\ Goto(c, "join_thread")
      /\ args_owner = Nobody /\ UNCHANGED <<lib, lib_detached, serial, creator, creates>>
      /\ gen_' = gen_
  BY DEF JoinAfter, At, lib_vars, Locked, UnchangedArgs, arg_vars, AfterJoin
<1>2. op'[c].step = "join_thread" /\ SameCall(op'[c], op[c])
      /\ \A d \in Callers \ {c} : op'[d] = op[d]
  BY <1>1, GotoEffect DEF Steps
<1>3. /\ DOMAIN data_' \in {DOMAIN data_, DOMAIN data_ \ {op[c].h}}
      /\ op[c].h \in DOMAIN data_ \ DOMAIN data_' => data_[op[c].h].gen = op[c].gen
      /\ \A k \in DOMAIN data_' : data_'[k] = data_[k]
  BY DEF JoinAfter, AfterJoin, Erase, Restrict, UnchangedArgs, arg_vars
<1>4. op[c].h \in DOMAIN data_ \ DOMAIN data_' => data_[op[c].h].args = op[c].serial
  BY <1>1, <1>3 DEF ArgInv, GenInv, OpArgInv
<1>5. \A d \in Callers : op[d].step # "detach_locked"
  BY <1>1, XsanPthreadAssumption DEF StructInv, LockInv, Callers
<1>6. GenInv'
  BY <1>1, <1>2, <1>3, <1>4, <1>5, TypeFacts
  DEF ArgInv, GenInv, StructInv, LockInv, CreateInv, OpenSteps, SameCall
<1>7. ASSUME NEW k \in Handles PROVE EntryInv(k)'
  BY <1>1, <1>2, <1>3, <1>4, <1>5, TypeFacts
  DEF ArgInv, EntryInv, Entered, EndedStates, OpArgInv, StructInv, CreateInv, ReapInv,
      ThreadInv, ReapSteps, HoldingSteps, JoinedSteps, DetachedSteps, StartedStates,
      StartingStates, OpenSteps, SameCall
<1>8. ASSUME NEW d \in Callers PROVE OpArgInv(d)'
  BY <1>1, <1>2, <1>3, <1>4, <1>5, TypeFacts
  DEF ArgInv, OpArgInv, EntryInv, Entered, EndedStates, StructInv, CreateInv, ReapInv,
      UniqueInv, ReapSteps, HoldingSteps, JoinedSteps, DetachedSteps, StartedStates,
      OpenSteps, SameCall
<1>. QED
  BY <1>6, <1>7, <1>8 DEF ArgInv

LEMMA JoinThreadTidArgs ==
  ASSUME TypeOK, StructInv, ArgInv, NEW c \in Callers, JoinThreadTid(c)
  PROVE  ArgInv'
<1>1. op[c].step = "join_thread" /\ Return(c)
      /\ UNCHANGED <<lib, lib_detached, serial, creator, creates>> /\ UNCHANGED <<data_, gen_>>
  BY DEF JoinThreadTid, At, lib_vars, UnchangedArgs, arg_vars
<1>2. op'[c].step = "idle" /\ \A d \in Callers \ {c} : op'[d] = op[d]
  BY <1>1, ReturnEffect
<1>3. GenInv'
  BY <1>1, <1>2, TypeFacts
  DEF ArgInv, GenInv, StructInv, LockInv, CreateInv, OpenSteps
<1>4. ASSUME NEW k \in Handles PROVE EntryInv(k)'
  BY <1>1, <1>2, TypeFacts
  DEF ArgInv, EntryInv, Entered, EndedStates, OpArgInv, StructInv, CreateInv, ReapInv,
      ThreadInv, ReapSteps, HoldingSteps, JoinedSteps, DetachedSteps, StartedStates,
      StartingStates, OpenSteps
<1>5. ASSUME NEW d \in Callers PROVE OpArgInv(d)'
  BY <1>1, <1>2, TypeFacts
  DEF ArgInv, OpArgInv, EntryInv, Entered, EndedStates, StructInv, CreateInv, ReapInv,
      UniqueInv, ReapSteps, HoldingSteps, JoinedSteps, DetachedSteps, StartedStates,
      OpenSteps
<1>. QED
  BY <1>3, <1>4, <1>5 DEF ArgInv

LEMMA RealTryJoinFailsArgs ==
  ASSUME TypeOK, StructInv, ArgInv, NEW c \in Callers, RealTryJoinFails(c)
  PROVE  ArgInv'
<1>1. op[c].step = "real_join" /\ Goto(c, "not_joined")
      /\ UNCHANGED <<lib, lib_detached, serial, creator, creates>> /\ UNCHANGED <<data_, gen_>>
  BY DEF RealTryJoinFails, At, lib_vars, UnchangedArgs, arg_vars
<1>2. op'[c].step = "not_joined" /\ SameCall(op'[c], op[c])
      /\ \A d \in Callers \ {c} : op'[d] = op[d]
  BY <1>1, GotoEffect DEF Steps
<1>3. GenInv'
  BY <1>1, <1>2, TypeFacts
  DEF ArgInv, GenInv, StructInv, LockInv, CreateInv, OpenSteps, SameCall
<1>4. ASSUME NEW k \in Handles PROVE EntryInv(k)'
  BY <1>1, <1>2, TypeFacts
  DEF ArgInv, EntryInv, Entered, EndedStates, OpArgInv, StructInv, CreateInv, ReapInv,
      ThreadInv, ReapSteps, HoldingSteps, JoinedSteps, DetachedSteps, StartedStates,
      StartingStates, OpenSteps, SameCall
<1>5. ASSUME NEW d \in Callers PROVE OpArgInv(d)'
  BY <1>1, <1>2, TypeFacts
  DEF ArgInv, OpArgInv, EntryInv, Entered, EndedStates, StructInv, CreateInv, ReapInv,
      UniqueInv, ReapSteps, HoldingSteps, JoinedSteps, DetachedSteps, StartedStates,
      OpenSteps, SameCall
<1>. QED
  BY <1>3, <1>4, <1>5 DEF ArgInv

LEMMA NotJoinedArgs ==
  ASSUME TypeOK, StructInv, ArgInv, NEW c \in Callers, NotJoined(c)
  PROVE  ArgInv'
<1>1. op[c].step = "not_joined" /\ Return(c)
      /\ UNCHANGED <<lib, lib_detached, serial, creator, creates>> /\ UNCHANGED <<data_, gen_>>
  BY DEF NotJoined, At, lib_vars, UnchangedArgs, arg_vars
<1>2. op'[c].step = "idle" /\ \A d \in Callers \ {c} : op'[d] = op[d]
  BY <1>1, ReturnEffect
<1>3. GenInv'
  BY <1>1, <1>2, TypeFacts
  DEF ArgInv, GenInv, StructInv, LockInv, CreateInv, OpenSteps
<1>4. ASSUME NEW k \in Handles PROVE EntryInv(k)'
  BY <1>1, <1>2, TypeFacts
  DEF ArgInv, EntryInv, Entered, EndedStates, OpArgInv, StructInv, CreateInv, ReapInv,
      ThreadInv, ReapSteps, HoldingSteps, JoinedSteps, DetachedSteps, StartedStates,
      StartingStates, OpenSteps
<1>5. ASSUME NEW d \in Callers PROVE OpArgInv(d)'
  BY <1>1, <1>2, TypeFacts
  DEF ArgInv, OpArgInv, EntryInv, Entered, EndedStates, StructInv, CreateInv, ReapInv,
      UniqueInv, ReapSteps, HoldingSteps, JoinedSteps, DetachedSteps, StartedStates,
      OpenSteps
<1>. QED
  BY <1>3, <1>4, <1>5 DEF ArgInv

LEMMA RealJoinFailsArgs ==
  ASSUME TypeOK, StructInv, ArgInv, NEW c \in Callers, RealJoinFails(c)
  PROVE  ArgInv'
<1>1. op[c].step = "real_join" /\ Return(c)
      /\ UNCHANGED <<lib, lib_detached, serial, creator, creates>> /\ UNCHANGED <<data_, gen_>>
  BY DEF RealJoinFails, At, lib_vars, UnchangedArgs, arg_vars
<1>2. op'[c].step = "idle" /\ \A d \in Callers \ {c} : op'[d] = op[d]
  BY <1>1, ReturnEffect
<1>3. GenInv'
  BY <1>1, <1>2, TypeFacts
  DEF ArgInv, GenInv, StructInv, LockInv, CreateInv, OpenSteps
<1>4. ASSUME NEW k \in Handles PROVE EntryInv(k)'
  BY <1>1, <1>2, TypeFacts
  DEF ArgInv, EntryInv, Entered, EndedStates, OpArgInv, StructInv, CreateInv, ReapInv,
      ThreadInv, ReapSteps, HoldingSteps, JoinedSteps, DetachedSteps, StartedStates,
      StartingStates, OpenSteps
<1>5. ASSUME NEW d \in Callers PROVE OpArgInv(d)'
  BY <1>1, <1>2, TypeFacts
  DEF ArgInv, OpArgInv, EntryInv, Entered, EndedStates, StructInv, CreateInv, ReapInv,
      UniqueInv, ReapSteps, HoldingSteps, JoinedSteps, DetachedSteps, StartedStates,
      OpenSteps
<1>. QED
  BY <1>3, <1>4, <1>5 DEF ArgInv

LEMMA RealDetachArgs ==
  ASSUME TypeOK, StructInv, ArgInv, NEW c \in Callers, RealDetach(c)
  PROVE  ArgInv'
<1>1. op[c].step = "real_detach" /\ Goto(c, "detach_locked")
      /\ UNCHANGED <<serial, creator, creates>> /\ UNCHANGED <<data_, gen_>>
  BY DEF RealDetach, At, Lock, UnchangedArgs, arg_vars
<1>2. op'[c].step = "detach_locked" /\ SameCall(op'[c], op[c])
      /\ \A d \in Callers \ {c} : op'[d] = op[d]
  BY <1>1, GotoEffect DEF Steps
<1>3. op[c].h \in Handles
  BY <1>1 DEF StructInv, ReapInv, ReapSteps, HoldingSteps
<1>4. /\ lib_detached'[op[c].h] = TRUE
      /\ lib'[op[c].h] = IF lib[op[c].h] = "zombie" THEN "none" ELSE lib[op[c].h]
      /\ \A k \in Handles \ {op[c].h} :
           lib'[k] = lib[k] /\ lib_detached'[k] = lib_detached[k]
  BY <1>3 DEF RealDetach, TypeOK
<1>5. GenInv'
  BY <1>1, <1>2, <1>3, <1>4, TypeFacts
  DEF ArgInv, GenInv, StructInv, LockInv, CreateInv, OpenSteps, SameCall
<1>6. ASSUME NEW k \in Handles PROVE EntryInv(k)'
  BY <1>1, <1>2, <1>3, <1>4, TypeFacts
  DEF ArgInv, EntryInv, Entered, EndedStates, OpArgInv, StructInv, CreateInv, ReapInv,
      ThreadInv, ReapSteps, HoldingSteps, JoinedSteps, DetachedSteps, StartedStates,
      StartingStates, OpenSteps, SameCall
<1>7. ASSUME NEW d \in Callers PROVE OpArgInv(d)'
  BY <1>1, <1>2, <1>3, <1>4, TypeFacts
  DEF ArgInv, OpArgInv, EntryInv, Entered, EndedStates, StructInv, CreateInv, ReapInv,
      UniqueInv, ReapSteps, HoldingSteps, JoinedSteps, DetachedSteps, StartedStates,
      OpenSteps, SameCall
<1>. QED
  BY <1>5, <1>6, <1>7 DEF ArgInv

LEMMA PthreadDetachLockedArgs ==
  ASSUME TypeOK, StructInv, ArgInv, NEW c \in Callers, PthreadDetachLocked(c)
  PROVE  ArgInv'
<1>1. op[c].step = "detach_locked" /\ Goto(c, "detach_thread") /\ UNCHANGED <<lib, lib_detached, serial, creator, creates>>
  BY DEF PthreadDetachLocked, At, lib_vars
<1>2. op'[c].step = "detach_thread" /\ SameCall(op'[c], op[c])
      /\ \A d \in Callers \ {c} : op'[d] = op[d]
  BY <1>1, GotoEffect DEF Steps
<1>3. op[c].h \in DOMAIN data_ /\ data_[op[c].h].args = op[c].serial /\ ~data_[op[c].h].detached
  BY <1>1 DEF ArgInv, OpArgInv
<1>4. IF data_[op[c].h].done
      THEN /\ DOMAIN data_' = DOMAIN data_ \ {op[c].h}
           /\ \A k \in DOMAIN data_' : data_'[k] = data_[k]
      ELSE data_' = [data_ EXCEPT ![op[c].h].detached = TRUE]
  BY <1>3 DEF PthreadDetachLocked, DetachLockedCheck, DetachLocked, Erase, Restrict
<1>5. /\ gen_' = gen_
      /\ DOMAIN data_' \in {DOMAIN data_, DOMAIN data_ \ {op[c].h}}
      /\ op[c].h \notin DOMAIN data_' => data_[op[c].h].done
      /\ \A k \in DOMAIN data_' :
           /\ k # op[c].h => data_'[k] = data_[k]
           /\ data_'[k].gen = data_[k].gen /\ data_'[k].args = data_[k].args
           /\ data_'[k].done = data_[k].done
  BY <1>3, <1>4
  DEF PthreadDetachLocked, DetachLockedCheck, DetachLocked, TypeOK, ArgEntries
<1>6. \A d \in Callers \ {c} : op[d].step \notin {"create_locked", "detach_locked"}
  BY <1>1 DEF StructInv, LockInv
<1>7. GenInv'
  BY <1>1, <1>2, <1>3, <1>4, <1>5, <1>6, TypeFacts
  DEF ArgInv, GenInv, StructInv, LockInv, CreateInv, OpenSteps, SameCall
<1>8. ASSUME NEW k \in Handles PROVE EntryInv(k)'
  BY <1>1, <1>2, <1>3, <1>4, <1>5, <1>6, TypeFacts
  DEF ArgInv, EntryInv, Entered, EndedStates, OpArgInv, StructInv, CreateInv, ReapInv,
      ThreadInv, ReapSteps, HoldingSteps, JoinedSteps, DetachedSteps, StartedStates,
      StartingStates, OpenSteps, SameCall
<1>9. ASSUME NEW d \in Callers PROVE OpArgInv(d)'
  BY <1>1, <1>2, <1>3, <1>4, <1>5, <1>6, TypeFacts
  DEF ArgInv, OpArgInv, EntryInv, Entered, EndedStates, StructInv, CreateInv, ReapInv,
      UniqueInv, ReapSteps, HoldingSteps, JoinedSteps, DetachedSteps, StartedStates,
      OpenSteps, SameCall
<1>. QED
  BY <1>7, <1>8, <1>9 DEF ArgInv

LEMMA DetachThreadTidArgs ==
  ASSUME TypeOK, StructInv, ArgInv, NEW c \in Callers, DetachThreadTid(c)
  PROVE  ArgInv'
<1>1. op[c].step = "detach_thread" /\ Return(c)
      /\ UNCHANGED <<lib, lib_detached, serial, creator, creates>> /\ UNCHANGED <<data_, gen_>>
  BY DEF DetachThreadTid, At, lib_vars, UnchangedArgs, arg_vars
<1>2. op'[c].step = "idle" /\ \A d \in Callers \ {c} : op'[d] = op[d]
  BY <1>1, ReturnEffect
<1>3. GenInv'
  BY <1>1, <1>2, TypeFacts
  DEF ArgInv, GenInv, StructInv, LockInv, CreateInv, OpenSteps
<1>4. ASSUME NEW k \in Handles PROVE EntryInv(k)'
  BY <1>1, <1>2, TypeFacts
  DEF ArgInv, EntryInv, Entered, EndedStates, OpArgInv, StructInv, CreateInv, ReapInv,
      ThreadInv, ReapSteps, HoldingSteps, JoinedSteps, DetachedSteps, StartedStates,
      StartingStates, OpenSteps
<1>5. ASSUME NEW d \in Callers PROVE OpArgInv(d)'
  BY <1>1, <1>2, TypeFacts
  DEF ArgInv, OpArgInv, EntryInv, Entered, EndedStates, StructInv, CreateInv, ReapInv,
      UniqueInv, ReapSteps, HoldingSteps, JoinedSteps, DetachedSteps, StartedStates,
      OpenSteps
<1>. QED
  BY <1>3, <1>4, <1>5 DEF ArgInv

LEMMA ConsumeTidArgs ==
  ASSUME TypeOK, StructInv, ArgInv, NEW c \in Callers, NEW h \in Handles,
         NEW step \in {"before_join", "real_detach"}, NEW try \in BOOLEAN,
         ConsumeTid(c, h, step, try)
  PROVE  ArgInv'
<1>1. op[c].step = "idle" /\ UNCHANGED <<lib, lib_detached, serial, creator, creates>> /\ UNCHANGED <<data_, gen_>>
  BY DEF ConsumeTid, InUserCode, lib_vars, UnchangedArgs, arg_vars
<1>2. op'[c].step = step /\ \A d \in Callers \ {c} : op'[d] = op[d]
  BY DEF ConsumeTid, TypeOK, Idle
<1>3. GenInv'
  BY <1>1, <1>2, TypeFacts
  DEF ArgInv, GenInv, StructInv, LockInv, CreateInv, OpenSteps
<1>4. ASSUME NEW k \in Handles PROVE EntryInv(k)'
  BY <1>1, <1>2, TypeFacts
  DEF ArgInv, EntryInv, Entered, EndedStates, OpArgInv, StructInv, CreateInv, ReapInv,
      ThreadInv, ReapSteps, HoldingSteps, JoinedSteps, DetachedSteps, StartedStates,
      StartingStates, OpenSteps
<1>5. ASSUME NEW d \in Callers PROVE OpArgInv(d)'
  BY <1>1, <1>2, TypeFacts
  DEF ArgInv, OpArgInv, EntryInv, Entered, EndedStates, StructInv, CreateInv, ReapInv,
      UniqueInv, ReapSteps, HoldingSteps, JoinedSteps, DetachedSteps, StartedStates,
      OpenSteps
<1>. QED
  BY <1>3, <1>4, <1>5 DEF ArgInv

LEMMA ThreadGetArgsArgs ==
  ASSUME TypeOK, StructInv, ArgInv, NEW h \in Handles, ThreadGetArgs(h)
  PROVE  ArgInv'
<1>1. lib[h] = "started" /\ args_owner = Nobody /\ UNCHANGED <<op, creates>>
      /\ UNCHANGED <<lib_detached, serial, creator>> /\ UNCHANGED <<data_, gen_>>
  BY DEF ThreadGetArgs, ChildAt, ChildGoto, Locked, UnchangedArgs, arg_vars
<1>2. /\ lib'[h] \in {"started", "got_args"}
      /\ \A k \in Handles \ {h} : lib'[k] = lib[k]
  BY <1>1 DEF ThreadGetArgs, ChildGoto, TypeOK
<1>3. \A d \in Callers : op[d].step # "create_locked"
  BY <1>1, XsanPthreadAssumption DEF StructInv, LockInv, Callers
<1>4. GenInv'
  BY <1>1, <1>2, <1>3, TypeFacts
  DEF ArgInv, GenInv, StructInv, LockInv, CreateInv, OpenSteps
<1>5. ASSUME NEW k \in Handles PROVE EntryInv(k)'
  BY <1>1, <1>2, <1>3, TypeFacts
  DEF ArgInv, EntryInv, Entered, EndedStates, OpArgInv, StructInv, CreateInv, ReapInv,
      ThreadInv, ReapSteps, HoldingSteps, JoinedSteps, DetachedSteps, StartedStates,
      StartingStates, OpenSteps
<1>6. ASSUME NEW d \in Callers PROVE OpArgInv(d)'
  BY <1>1, <1>2, <1>3, TypeFacts
  DEF ArgInv, OpArgInv, EntryInv, Entered, EndedStates, StructInv, CreateInv, ReapInv,
      UniqueInv, ReapSteps, HoldingSteps, JoinedSteps, DetachedSteps, StartedStates,
      OpenSteps
<1>. QED
  BY <1>4, <1>5, <1>6 DEF ArgInv

LEMMA ThreadStartArgs ==
  ASSUME TypeOK, StructInv, ArgInv, NEW h \in Handles, ThreadStart(h)
  PROVE  ArgInv'
<1>1. lib[h] = "got_args" /\ ChildGoto(h, "thread_started") /\ UNCHANGED <<op, creates>>
      /\ UNCHANGED <<data_, gen_>>
  BY DEF ThreadStart, ChildAt, UnchangedArgs, arg_vars
<1>2. /\ lib'[h] = "thread_started" /\ UNCHANGED <<lib_detached, serial, creator>>
      /\ \A k \in Handles \ {h} : lib'[k] = lib[k]
  BY <1>1, ChildGotoEffect DEF LibStates
<1>3. GenInv'
  BY <1>1, <1>2, TypeFacts
  DEF ArgInv, GenInv, StructInv, LockInv, CreateInv, OpenSteps
<1>4. ASSUME NEW k \in Handles PROVE EntryInv(k)'
  BY <1>1, <1>2, TypeFacts
  DEF ArgInv, EntryInv, Entered, EndedStates, OpArgInv, StructInv, CreateInv, ReapInv,
      ThreadInv, ReapSteps, HoldingSteps, JoinedSteps, DetachedSteps, StartedStates,
      StartingStates, OpenSteps
<1>5. ASSUME NEW d \in Callers PROVE OpArgInv(d)'
  BY <1>1, <1>2, TypeFacts
  DEF ArgInv, OpArgInv, EntryInv, Entered, EndedStates, StructInv, CreateInv, ReapInv,
      UniqueInv, ReapSteps, HoldingSteps, JoinedSteps, DetachedSteps, StartedStates,
      OpenSteps
<1>. QED
  BY <1>3, <1>4, <1>5 DEF ArgInv

LEMMA ThreadPostStartedArgs ==
  ASSUME TypeOK, StructInv, ArgInv, NEW h \in Handles, ThreadPostStarted(h)
  PROVE  ArgInv'
<1>1. lib[h] = "thread_started" /\ ChildGoto(h, "running")
      /\ creates' = creates /\ UNCHANGED <<data_, gen_>>
  BY DEF ThreadPostStarted, ChildAt, UnchangedArgs, arg_vars
<1>2. /\ lib'[h] = "running" /\ UNCHANGED <<lib_detached, serial, creator>>
      /\ \A k \in Handles \ {h} : lib'[k] = lib[k]
  BY <1>1, ChildGotoEffect DEF LibStates
<1>3. \A d \in Callers : /\ op'[d].step = op[d].step /\ op'[d].h = op[d].h
                        /\ op'[d].serial = op[d].serial /\ op'[d].gen = op[d].gen
  BY DEF ThreadPostStarted, TypeOK, Operations
<1>4. GenInv'
  BY <1>1, <1>2, <1>3, TypeFacts
  DEF ArgInv, GenInv, StructInv, LockInv, CreateInv, OpenSteps
<1>5. ASSUME NEW k \in Handles PROVE EntryInv(k)'
  BY <1>1, <1>2, <1>3, TypeFacts
  DEF ArgInv, EntryInv, Entered, EndedStates, OpArgInv, StructInv, CreateInv, ReapInv,
      ThreadInv, ReapSteps, HoldingSteps, JoinedSteps, DetachedSteps, StartedStates,
      StartingStates, OpenSteps
<1>6. ASSUME NEW d \in Callers PROVE OpArgInv(d)'
  BY <1>1, <1>2, <1>3, TypeFacts
  DEF ArgInv, OpArgInv, EntryInv, Entered, EndedStates, StructInv, CreateInv, ReapInv,
      UniqueInv, ReapSteps, HoldingSteps, JoinedSteps, DetachedSteps, StartedStates,
      OpenSteps
<1>. QED
  BY <1>4, <1>5, <1>6 DEF ArgInv

\* Nobody detaches the thread at this moment: the mutex is free.
LEMMA ThreadReturnArgs ==
  ASSUME TypeOK, StructInv, ArgInv, NEW h \in Handles, ThreadReturn(h)
  PROVE  ArgInv'
<1>1. lib[h] = "running" /\ ChildGoto(h, "finishing") /\ UNCHANGED <<op, creates>>
      /\ args_owner = Nobody /\ Finish(h)
  BY DEF ThreadReturn, ChildAt, Locked
<1>2. /\ lib'[h] = "finishing" /\ UNCHANGED <<lib_detached, serial, creator>>
      /\ \A k \in Handles \ {h} : lib'[k] = lib[k]
  BY <1>1, ChildGotoEffect DEF LibStates
<1>3. /\ gen_' = gen_
      /\ DOMAIN data_' \in {DOMAIN data_, DOMAIN data_ \ {h}}
      /\ h \in DOMAIN data_ \ DOMAIN data_' => data_[h].detached
      /\ \A k \in DOMAIN data_' :
           /\ k # h => data_'[k] = data_[k]
           /\ data_'[k].gen = data_[k].gen /\ data_'[k].args = data_[k].args
           /\ k = h => data_'[k] = [data_[k] EXCEPT !.done = TRUE]
           /\ data_'[k].detached = data_[k].detached
  BY <1>1 DEF Finish, Erase, Restrict, TypeOK, ArgEntries
<1>4. \A d \in Callers : op[d].step # "detach_locked"
  BY <1>1, XsanPthreadAssumption DEF StructInv, LockInv, Callers
<1>5. GenInv'
  BY <1>1, <1>2, <1>3, <1>4, TypeFacts
  DEF ArgInv, GenInv, StructInv, LockInv, CreateInv, OpenSteps
<1>6. ASSUME NEW k \in Handles PROVE EntryInv(k)'
  BY <1>1, <1>2, <1>3, <1>4, TypeFacts
  DEF ArgInv, EntryInv, Entered, EndedStates, OpArgInv, StructInv, CreateInv, ReapInv,
      ThreadInv, ReapSteps, HoldingSteps, JoinedSteps, DetachedSteps, StartedStates,
      StartingStates, OpenSteps
<1>7. ASSUME NEW d \in Callers PROVE OpArgInv(d)'
  BY <1>1, <1>2, <1>3, <1>4, TypeFacts
  DEF ArgInv, OpArgInv, EntryInv, Entered, EndedStates, StructInv, CreateInv, ReapInv,
      UniqueInv, ReapSteps, HoldingSteps, JoinedSteps, DetachedSteps, StartedStates,
      OpenSteps
<1>. QED
  BY <1>5, <1>6, <1>7 DEF ArgInv

LEMMA ThreadCancelledArgs ==
  ASSUME TypeOK, StructInv, ArgInv, NEW h \in Handles, ThreadCancelled(h)
  PROVE  ArgInv'
<1>1. lib[h] = "running" /\ ChildGoto(h, "finishing") /\ UNCHANGED <<op, creates>>
      /\ UNCHANGED <<data_, gen_>>
  BY DEF ThreadCancelled, ChildAt, UnchangedArgs, arg_vars
<1>2. /\ lib'[h] = "finishing" /\ UNCHANGED <<lib_detached, serial, creator>>
      /\ \A k \in Handles \ {h} : lib'[k] = lib[k]
  BY <1>1, ChildGotoEffect DEF LibStates
<1>3. GenInv'
  BY <1>1, <1>2, TypeFacts
  DEF ArgInv, GenInv, StructInv, LockInv, CreateInv, OpenSteps
<1>4. ASSUME NEW k \in Handles PROVE EntryInv(k)'
  BY <1>1, <1>2, TypeFacts
  DEF ArgInv, EntryInv, Entered, EndedStates, OpArgInv, StructInv, CreateInv, ReapInv,
      ThreadInv, ReapSteps, HoldingSteps, JoinedSteps, DetachedSteps, StartedStates,
      StartingStates, OpenSteps
<1>5. ASSUME NEW d \in Callers PROVE OpArgInv(d)'
  BY <1>1, <1>2, TypeFacts
  DEF ArgInv, OpArgInv, EntryInv, Entered, EndedStates, StructInv, CreateInv, ReapInv,
      UniqueInv, ReapSteps, HoldingSteps, JoinedSteps, DetachedSteps, StartedStates,
      OpenSteps
<1>. QED
  BY <1>3, <1>4, <1>5 DEF ArgInv

LEMMA ThreadDestroyArgs ==
  ASSUME TypeOK, StructInv, ArgInv, NEW h \in Handles, ThreadDestroy(h)
  PROVE  ArgInv'
<1>1. lib[h] = "finishing" /\ ChildGoto(h, "destroyed") /\ UNCHANGED <<op, creates>>
      /\ UNCHANGED <<data_, gen_>>
  BY DEF ThreadDestroy, ChildAt, UnchangedArgs, arg_vars
<1>2. /\ lib'[h] = "destroyed" /\ UNCHANGED <<lib_detached, serial, creator>>
      /\ \A k \in Handles \ {h} : lib'[k] = lib[k]
  BY <1>1, ChildGotoEffect DEF LibStates
<1>3. GenInv'
  BY <1>1, <1>2, TypeFacts
  DEF ArgInv, GenInv, StructInv, LockInv, CreateInv, OpenSteps
<1>4. ASSUME NEW k \in Handles PROVE EntryInv(k)'
  BY <1>1, <1>2, TypeFacts
  DEF ArgInv, EntryInv, Entered, EndedStates, OpArgInv, StructInv, CreateInv, ReapInv,
      ThreadInv, ReapSteps, HoldingSteps, JoinedSteps, DetachedSteps, StartedStates,
      StartingStates, OpenSteps
<1>5. ASSUME NEW d \in Callers PROVE OpArgInv(d)'
  BY <1>1, <1>2, TypeFacts
  DEF ArgInv, OpArgInv, EntryInv, Entered, EndedStates, StructInv, CreateInv, ReapInv,
      UniqueInv, ReapSteps, HoldingSteps, JoinedSteps, DetachedSteps, StartedStates,
      OpenSteps
<1>. QED
  BY <1>3, <1>4, <1>5 DEF ArgInv

LEMMA ThreadExitArgs ==
  ASSUME TypeOK, StructInv, ArgInv, NEW h \in Handles, ThreadExit(h)
  PROVE  ArgInv'
<1>1. lib[h] = "destroyed" /\ UNCHANGED <<op, creates>>
      /\ UNCHANGED <<lib_detached, serial, creator>> /\ UNCHANGED <<data_, gen_>>
  BY DEF ThreadExit, ChildAt, ChildGoto, UnchangedArgs, arg_vars
<1>2. /\ lib'[h] = IF lib_detached[h] THEN "none" ELSE "zombie"
      /\ \A k \in Handles \ {h} : lib'[k] = lib[k]
  BY DEF ThreadExit, ChildGoto, TypeOK
<1>3. GenInv'
  BY <1>1, <1>2, TypeFacts
  DEF ArgInv, GenInv, StructInv, LockInv, CreateInv, OpenSteps
<1>4. ASSUME NEW k \in Handles PROVE EntryInv(k)'
  BY <1>1, <1>2, TypeFacts
  DEF ArgInv, EntryInv, Entered, EndedStates, OpArgInv, StructInv, CreateInv, ReapInv,
      ThreadInv, ReapSteps, HoldingSteps, JoinedSteps, DetachedSteps, StartedStates,
      StartingStates, OpenSteps
<1>5. ASSUME NEW d \in Callers PROVE OpArgInv(d)'
  BY <1>1, <1>2, TypeFacts
  DEF ArgInv, OpArgInv, EntryInv, Entered, EndedStates, StructInv, CreateInv, ReapInv,
      UniqueInv, ReapSteps, HoldingSteps, JoinedSteps, DetachedSteps, StartedStates,
      OpenSteps
<1>. QED
  BY <1>3, <1>4, <1>5 DEF ArgInv

LEMMA ForkArgs ==
  ASSUME TypeOK, StructInv, ArgInv, NEW c \in Callers, Fork(c)
  PROVE  ArgInv'
<1>1. /\ c \in Handles => lib[c] = "running"
      /\ args_owner = Nobody /\ creates' = creates /\ UNCHANGED <<data_, gen_>>
  BY DEF Fork, InUserCode, Locked, UnchangedArgs, arg_vars
<1>2. /\ \A h \in Handles : h = c => /\ lib'[h] = lib[h] /\ serial'[h] = serial[h]
                                  /\ lib_detached'[h] = lib_detached[h]
      /\ \A h \in Handles : h # c => lib'[h] = "none"
  BY DEF Fork, TypeOK
<1>3. \A d \in Callers : op'[d].step = "idle"
  BY DEF Fork, Idle
<1>4. \A d \in Callers : op[d].step # "create_locked"
  BY <1>1, XsanPthreadAssumption DEF StructInv, LockInv, Callers
<1>5. GenInv'
  BY <1>1, <1>2, <1>3, <1>4, TypeFacts
  DEF ArgInv, GenInv, StructInv, LockInv, CreateInv, OpenSteps
<1>6. ASSUME NEW k \in Handles PROVE EntryInv(k)'
  BY <1>1, <1>2, <1>3, <1>4, TypeFacts
  DEF ArgInv, EntryInv, Entered, EndedStates, OpArgInv, StructInv, CreateInv, ReapInv,
      ThreadInv, ReapSteps, HoldingSteps, JoinedSteps, DetachedSteps, StartedStates,
      StartingStates, OpenSteps
<1>7. ASSUME NEW d \in Callers PROVE OpArgInv(d)'
  BY <1>1, <1>2, <1>3, <1>4, TypeFacts
  DEF ArgInv, OpArgInv, EntryInv, Entered, EndedStates, StructInv, CreateInv, ReapInv,
      UniqueInv, ReapSteps, HoldingSteps, JoinedSteps, DetachedSteps, StartedStates,
      OpenSteps
<1>. QED
  BY <1>5, <1>6, <1>7 DEF ArgInv

LEMMA ArgsStep ==
  ASSUME MaxCreates <= kInvalidGen, TypeOK, StructInv, ArgInv, [Next]_vars
  PROVE  ArgInv'
<1>1. ASSUME NEW c \in Callers, CreateStep(c) PROVE ArgInv'
  BY <1>1, PthreadCreateLockedArgs, XsanThreadCreateArgs, PthreadCreateReturnArgs
  DEF CreateStep
<1>2. ASSUME NEW c \in Callers, JoinStep(c) PROVE ArgInv'
  BY <1>2, JoinBeforeArgs, RealJoinArgs, JoinAfterArgs, JoinThreadTidArgs,
     RealTryJoinFailsArgs, NotJoinedArgs, RealJoinFailsArgs
  DEF JoinStep
<1>3. ASSUME NEW c \in Callers, DetachStep(c) PROVE ArgInv'
  BY <1>3, RealDetachArgs, PthreadDetachLockedArgs, DetachThreadTidArgs
  DEF DetachStep
<1>4. ASSUME NEW c \in Callers, ProgramStep(c) PROVE ArgInv'
  BY <1>4, RealPthreadCreateArgs, ConsumeTidArgs, ForkArgs
  DEF ProgramStep, JoinBegin, DetachBegin
<1>5. ASSUME NEW h \in Handles, StartStep(h) PROVE ArgInv'
  BY <1>5, ThreadGetArgsArgs, ThreadStartArgs, ThreadPostStartedArgs DEF StartStep
<1>6. ASSUME NEW h \in Handles, EndStep(h) \/ ThreadReturn(h) \/ ThreadCancelled(h)
      PROVE  ArgInv'
  BY <1>6, ThreadDestroyArgs, ThreadExitArgs, ThreadReturnArgs, ThreadCancelledArgs
  DEF EndStep
<1>7. CASE UNCHANGED vars
  BY <1>7 DEF ArgInv, GenInv, EntryInv, Entered, OpArgInv, vars, lib_vars, arg_vars
<1>. QED
  BY <1>1, <1>2, <1>3, <1>4, <1>5, <1>6, <1>7 DEF Next, Terminated

LEMMA ArgsInit == Init => ArgInv
<1>. SUFFICES ASSUME Init PROVE ArgInv
  OBVIOUS
<1>1. /\ \A h \in Handles : lib[h] = "none"
      /\ \A c \in Callers : op[c].step = "idle"
      /\ DOMAIN data_ = {} /\ gen_ = 0 /\ creates = 0
  BY DEF Init, ArgRetvalInit, Idle
<1>. QED
  BY <1>1, ThreadArgRetvalAssumption DEF ArgInv, GenInv, EntryInv, Entered, OpArgInv

-----------------------------------------------------------------------------
(***************************************************************************)
(* What the table no longer keeps.  Fork is left out: the child keeps the  *)
(* entries of the threads it lacks.                                        *)
(***************************************************************************)
\* Whoever joins or detaches the thread with this entry has yet to tell the table.
ReapUnderWay(h) ==
  \E c \in Callers :
    /\ op[c].step \in {"after_join", "detach_locked"}
    /\ op[c].h = h /\ op[c].serial = data_[h].args

\* A return value is kept for a thread that has exited only until its reaping is
\* over; once a thread is detached its entry says so, and goes when it finishes.
StaleInv(h) ==
  h \in DOMAIN data_ =>
    /\ lib[h] = "none" /\ data_[h].done => ReapUnderWay(h)
    /\ Entered(h) /\ lib_detached[h] =>
         \/ \E c \in Callers : op[c].step = "detach_locked" /\ op[c].h = h
         \/ IF lib[h] \in {"finishing", "destroyed"} THEN ~data_[h].done ELSE data_[h].detached

NoStaleInv == \A h \in Handles : StaleInv(h)

\* A step that is none of the table's and moves no thread.
LEMMA StaleFrame ==
  ASSUME TypeOK, NoStaleInv, NEW c \in Callers,
         op[c].step \notin {"create_locked", "after_join", "detach_locked"},
         op'[c].step # "create_locked",
         \A d \in Callers \ {c} : op'[d] = op[d],
         UNCHANGED <<lib, lib_detached, creator, data_>>
  PROVE  NoStaleInv'
<1>. SUFFICES ASSUME NEW k \in Handles PROVE StaleInv(k)'
  BY DEF NoStaleInv
<1>1. StaleInv(k)
  BY DEF NoStaleInv
<1>2. ReapUnderWay(k) => ReapUnderWay(k)'
  BY DEF ReapUnderWay
<1>3. Entered(k)' => Entered(k)
  BY TypeFacts DEF Entered
<1>. QED
  BY <1>1, <1>2, <1>3 DEF StaleInv

LEMMA RealPthreadCreateStale ==
  ASSUME TypeOK, StructInv, ArgInv, NoStaleInv, MaxCreates <= kInvalidGen,
         NEW c \in Callers, NEW h \in Handles, NEW det \in BOOLEAN,
         RealPthreadCreate(c, h, det)
  PROVE  NoStaleInv'
<1>1. /\ op[c].step = "idle"
      /\ lib[h] = "none"
      /\ args_owner = Nobody
      /\ creates' = creates + 1 /\ creates \in Nat /\ creates < kInvalidGen
      /\ UNCHANGED <<data_, gen_>>
  BY ThreadArgRetvalAssumption, XsanPthreadAssumption
  DEF RealPthreadCreate, InUserCode, Lock, UnchangedArgs, arg_vars, TypeOK
<1>2. /\ lib'[h] = "started" /\ creator'[h] = c
      /\ \A k \in Handles \ {h} :
           /\ lib'[k] = lib[k] /\ lib_detached'[k] = lib_detached[k]
           /\ serial'[k] = serial[k] /\ creator'[k] = creator[k]
  BY DEF RealPthreadCreate, TypeOK
<1>3. /\ op'[c].step = "create_locked" /\ op'[c].h = h /\ op'[c].serial = creates + 1
      /\ \A d \in Callers \ {c} : op'[d] = op[d]
  BY DEF RealPthreadCreate, TypeOK, Idle
<1>4. \A d \in Callers : op[d].step # "create_locked"
  BY <1>1, XsanPthreadAssumption DEF StructInv, LockInv, Callers
<1>5. ASSUME NEW k \in Handles PROVE StaleInv(k)'
  BY <1>1, <1>2, <1>3, <1>4, TypeFacts
  DEF NoStaleInv, StaleInv, ReapUnderWay, ArgInv, GenInv, EntryInv, Entered,
      EndedStates, OpArgInv, StructInv, CreateInv, ReapInv, ThreadInv, LockInv,
      UniqueInv, ReapSteps, HoldingSteps, JoinedSteps, DetachedSteps, StartedStates,
      StartingStates, OpenSteps
<1>. QED
  BY <1>5 DEF NoStaleInv

LEMMA PthreadCreateLockedStale ==
  ASSUME TypeOK, StructInv, ArgInv, NoStaleInv, NEW c \in Callers,
         PthreadCreateLocked(c)
  PROVE  NoStaleInv'
<1>1. op[c].step = "create_locked" /\ Goto(c, "create_thread")
      /\ UNCHANGED <<lib, lib_detached, serial, creator, creates>>
  BY DEF PthreadCreateLocked, At, lib_vars
<1>2. op'[c].step = "create_thread" /\ SameCall(op'[c], op[c])
      /\ \A d \in Callers \ {c} : op'[d] = op[d]
  BY <1>1, GotoEffect DEF Steps
<1>3. /\ DOMAIN data_' = DOMAIN data_ \cup {op[c].h}
      /\ data_'[op[c].h] = [gen |-> gen_, detached |-> op[c].flag, done |-> FALSE,
                            args |-> op[c].serial]
      /\ \A k \in DOMAIN data_ \ {op[c].h} : data_'[k] = data_[k]
      /\ gen_' = IF gen_ + 1 = kInvalidGen THEN 0 ELSE gen_ + 1
  BY DEF PthreadCreateLocked, CreateLocked
<1>4. \A d \in Callers \ {c} : op[d].step \notin {"create_locked", "detach_locked"}
  BY <1>1 DEF StructInv, LockInv
<1>5. ASSUME NEW k \in Handles PROVE StaleInv(k)'
  BY <1>1, <1>2, <1>3, TypeFacts
  DEF NoStaleInv, StaleInv, ReapUnderWay, Entered, StructInv, CreateInv, ThreadInv,
      StartingStates, OpenSteps
<1>. QED
  BY <1>5 DEF NoStaleInv

LEMMA RealJoinStale ==
  ASSUME TypeOK, StructInv, ArgInv, NoStaleInv, NEW c \in Callers, RealJoin(c)
  PROVE  NoStaleInv'
<1>1. op[c].step = "real_join" /\ lib[op[c].h] = "zombie"
      /\ Goto(c, "after_join") /\ ChildGoto(op[c].h, "none")
      /\ creates' = creates /\ UNCHANGED <<data_, gen_>>
  BY DEF RealJoin, At, UnchangedArgs, arg_vars
<1>2. op'[c].step = "after_join" /\ SameCall(op'[c], op[c])
      /\ \A d \in Callers \ {c} : op'[d] = op[d]
  BY <1>1, GotoEffect DEF Steps
<1>3. op[c].h \in Handles
  BY <1>1 DEF StructInv, ReapInv, ReapSteps, HoldingSteps
<1>4. lib'[op[c].h] = "none" /\ UNCHANGED <<lib_detached, serial, creator>>
      /\ \A k \in Handles \ {op[c].h} : lib'[k] = lib[k]
  BY <1>1, <1>3, ChildGotoEffect DEF LibStates
<1>5. ASSUME NEW k \in Handles PROVE StaleInv(k)'
  BY <1>1, <1>2, <1>3, <1>4, TypeFacts
  DEF NoStaleInv, StaleInv, ReapUnderWay, ArgInv, GenInv, EntryInv, Entered,
      EndedStates, OpArgInv, StructInv, CreateInv, ReapInv, ThreadInv, LockInv,
      UniqueInv, ReapSteps, HoldingSteps, JoinedSteps, DetachedSteps, StartedStates,
      StartingStates, OpenSteps, SameCall
<1>. QED
  BY <1>5 DEF NoStaleInv

LEMMA JoinAfterStale ==
  ASSUME TypeOK, StructInv, ArgInv, NoStaleInv, NEW c \in Callers, JoinAfter(c)
  PROVE  NoStaleInv'
<1>1. op[c].step = "after_join" /\ Goto(c, "join_thread")
      /\ args_owner = Nobody /\ UNCHANGED <<lib, lib_detached, serial, creator, creates>>
      /\ gen_' = gen_
  BY DEF JoinAfter, At, lib_vars, Locked, UnchangedArgs, arg_vars, AfterJoin
<1>2. op'[c].step = "join_thread" /\ SameCall(op'[c], op[c])
      /\ \A d \in Callers \ {c} : op'[d] = op[d]
  BY <1>1, GotoEffect DEF Steps
<1>3. /\ DOMAIN data_' \in {DOMAIN data_, DOMAIN data_ \ {op[c].h}}
      /\ op[c].h \in DOMAIN data_ \ DOMAIN data_' => data_[op[c].h].gen = op[c].gen
      /\ \A k \in DOMAIN data_' : data_'[k] = data_[k]
  BY DEF JoinAfter, AfterJoin, Erase, Restrict, UnchangedArgs, arg_vars
<1>4. op[c].h \in DOMAIN data_ \ DOMAIN data_' => data_[op[c].h].args = op[c].serial
  BY <1>1, <1>3 DEF ArgInv, GenInv, OpArgInv
<1>5. \A d \in Callers : op[d].step # "detach_locked"
  BY <1>1, XsanPthreadAssumption DEF StructInv, LockInv, Callers
<1>6. op[c].gen + 1 = op[c].serial
  BY <1>1 DEF ArgInv, OpArgInv
<1>7. op[c].h \in DOMAIN data_ /\ data_[op[c].h].args = op[c].serial => op[c].h \notin DOMAIN data_'
  <2>1. op[c].h \in DOMAIN data_ => data_[op[c].h].gen \in Nat /\ op[c].gen \in Nat
    BY TypeFacts DEF ArgEntries
  <2>2. op[c].h \in DOMAIN data_ /\ data_[op[c].h].args = op[c].serial =>
          data_[op[c].h].gen = op[c].gen
    BY <1>6, <2>1 DEF ArgInv, GenInv
  <2>3. AfterJoinCheck(op[c].h, op[c].gen)
    BY <1>1, <1>6 DEF AfterJoinCheck, ArgInv, GenInv, OpArgInv
  <2>. QED
    BY <2>2, <2>3 DEF JoinAfter, AfterJoin, Erase, Restrict
<1>8. ASSUME NEW k \in Handles PROVE StaleInv(k)'
  <2>1. StaleInv(k)
    BY DEF NoStaleInv
  <2>2. k \in DOMAIN data_' /\ ReapUnderWay(k) => ReapUnderWay(k)'
    BY <1>2, <1>3, <1>7 DEF ReapUnderWay
  <2>3. Entered(k)' => Entered(k)
    BY <1>1, <1>2, TypeFacts DEF Entered
  <2>. QED
    BY <1>1, <1>3, <1>5, <2>1, <2>2, <2>3 DEF StaleInv
<1>. QED
  BY <1>8 DEF NoStaleInv

LEMMA RealDetachStale ==
  ASSUME TypeOK, StructInv, ArgInv, NoStaleInv, NEW c \in Callers, RealDetach(c)
  PROVE  NoStaleInv'
<1>1. op[c].step = "real_detach" /\ Goto(c, "detach_locked")
      /\ UNCHANGED <<serial, creator, creates>> /\ UNCHANGED <<data_, gen_>>
  BY DEF RealDetach, At, Lock, UnchangedArgs, arg_vars
<1>2. op'[c].step = "detach_locked" /\ SameCall(op'[c], op[c])
      /\ \A d \in Callers \ {c} : op'[d] = op[d]
  BY <1>1, GotoEffect DEF Steps
<1>3. op[c].h \in Handles
  BY <1>1 DEF StructInv, ReapInv, ReapSteps, HoldingSteps
<1>4. /\ lib_detached'[op[c].h] = TRUE
      /\ lib'[op[c].h] = IF lib[op[c].h] = "zombie" THEN "none" ELSE lib[op[c].h]
      /\ \A k \in Handles \ {op[c].h} :
           lib'[k] = lib[k] /\ lib_detached'[k] = lib_detached[k]
  BY <1>3 DEF RealDetach, TypeOK
<1>5. ASSUME NEW k \in Handles PROVE StaleInv(k)'
  BY <1>1, <1>2, <1>3, <1>4, TypeFacts, SMTT(30)
  DEF NoStaleInv, StaleInv, ReapUnderWay, ArgInv, EntryInv, Entered, StructInv,
      ReapInv, HoldingSteps, SameCall
<1>. QED
  BY <1>5 DEF NoStaleInv

LEMMA PthreadDetachLockedStale ==
  ASSUME TypeOK, StructInv, ArgInv, NoStaleInv, NEW c \in Callers,
         PthreadDetachLocked(c)
  PROVE  NoStaleInv'
<1>1. op[c].step = "detach_locked" /\ Goto(c, "detach_thread") /\ UNCHANGED <<lib, lib_detached, serial, creator, creates>>
  BY DEF PthreadDetachLocked, At, lib_vars
<1>2. op'[c].step = "detach_thread" /\ SameCall(op'[c], op[c])
      /\ \A d \in Callers \ {c} : op'[d] = op[d]
  BY <1>1, GotoEffect DEF Steps
<1>3. op[c].h \in DOMAIN data_ /\ data_[op[c].h].args = op[c].serial /\ ~data_[op[c].h].detached
  BY <1>1 DEF ArgInv, OpArgInv
<1>4. IF data_[op[c].h].done
      THEN /\ DOMAIN data_' = DOMAIN data_ \ {op[c].h}
           /\ \A k \in DOMAIN data_' : data_'[k] = data_[k]
      ELSE data_' = [data_ EXCEPT ![op[c].h].detached = TRUE]
  BY <1>3 DEF PthreadDetachLocked, DetachLockedCheck, DetachLocked, Erase, Restrict
<1>5. /\ gen_' = gen_
      /\ DOMAIN data_' \in {DOMAIN data_, DOMAIN data_ \ {op[c].h}}
      /\ op[c].h \notin DOMAIN data_' => data_[op[c].h].done
      /\ \A k \in DOMAIN data_' :
           /\ k # op[c].h => data_'[k] = data_[k]
           /\ data_'[k].gen = data_[k].gen /\ data_'[k].args = data_[k].args
           /\ data_'[k].done = data_[k].done
  BY <1>3, <1>4
  DEF PthreadDetachLocked, DetachLockedCheck, DetachLocked, TypeOK, ArgEntries
<1>6. \A d \in Callers \ {c} : op[d].step \notin {"create_locked", "detach_locked"}
  BY <1>1 DEF StructInv, LockInv
<1>7. op[c].h \in DOMAIN data_' => data_'[op[c].h].detached /\ ~data_'[op[c].h].done
  <2>1. data_[op[c].h] \in ArgEntries
    BY <1>3, TypeFacts
  <2>. QED
    BY <1>3, <1>4, <2>1 DEF ArgEntries
<1>8. ASSUME NEW k \in Handles PROVE StaleInv(k)'
  <2>1. StaleInv(k)
    BY DEF NoStaleInv
  <2>2. CASE k = op[c].h
    BY <1>7, <2>2 DEF StaleInv
  <2>3. CASE k # op[c].h
    <3>1. k \in DOMAIN data_' => k \in DOMAIN data_ /\ data_'[k] = data_[k]
      BY <1>5, <2>3
    <3>2. k \in DOMAIN data_' /\ ReapUnderWay(k) => ReapUnderWay(k)'
      BY <1>2, <2>3, <3>1 DEF ReapUnderWay
    <3>3. Entered(k)' => Entered(k)
      BY <1>1, <1>2, TypeFacts DEF Entered
    <3>. QED
      BY <1>1, <1>2, <2>1, <2>3, <3>1, <3>2, <3>3 DEF StaleInv
  <2>. QED
    BY <2>2, <2>3
<1>. QED
  BY <1>8 DEF NoStaleInv

LEMMA ThreadGetArgsStale ==
  ASSUME TypeOK, StructInv, ArgInv, NoStaleInv, NEW h \in Handles, ThreadGetArgs(h)
  PROVE  NoStaleInv'
<1>1. lib[h] = "started" /\ args_owner = Nobody /\ UNCHANGED <<op, creates>>
      /\ UNCHANGED <<lib_detached, serial, creator>> /\ UNCHANGED <<data_, gen_>>
  BY DEF ThreadGetArgs, ChildAt, ChildGoto, Locked, UnchangedArgs, arg_vars
<1>2. /\ lib'[h] \in {"started", "got_args"}
      /\ \A k \in Handles \ {h} : lib'[k] = lib[k]
  BY <1>1 DEF ThreadGetArgs, ChildGoto, TypeOK
<1>3. \A d \in Callers : op[d].step # "create_locked"
  BY <1>1, XsanPthreadAssumption DEF StructInv, LockInv, Callers
<1>4. ASSUME NEW k \in Handles PROVE StaleInv(k)'
  BY <1>1, <1>2, <1>3, TypeFacts
  DEF NoStaleInv, StaleInv, ReapUnderWay, ArgInv, GenInv, EntryInv, Entered,
      EndedStates, OpArgInv, StructInv, CreateInv, ReapInv, ThreadInv, LockInv,
      UniqueInv, ReapSteps, HoldingSteps, JoinedSteps, DetachedSteps, StartedStates,
      StartingStates, OpenSteps
<1>. QED
  BY <1>4 DEF NoStaleInv

LEMMA ThreadStartStale ==
  ASSUME TypeOK, StructInv, ArgInv, NoStaleInv, NEW h \in Handles, ThreadStart(h)
  PROVE  NoStaleInv'
<1>1. lib[h] = "got_args" /\ ChildGoto(h, "thread_started") /\ UNCHANGED <<op, creates>>
      /\ UNCHANGED <<data_, gen_>>
  BY DEF ThreadStart, ChildAt, UnchangedArgs, arg_vars
<1>2. /\ lib'[h] = "thread_started" /\ UNCHANGED <<lib_detached, serial, creator>>
      /\ \A k \in Handles \ {h} : lib'[k] = lib[k]
  BY <1>1, ChildGotoEffect DEF LibStates
<1>3. ASSUME NEW k \in Handles PROVE StaleInv(k)'
  BY <1>1, <1>2, TypeFacts
  DEF NoStaleInv, StaleInv, ReapUnderWay, ArgInv, GenInv, EntryInv, Entered,
      EndedStates, OpArgInv, StructInv, CreateInv, ReapInv, ThreadInv, LockInv,
      UniqueInv, ReapSteps, HoldingSteps, JoinedSteps, DetachedSteps, StartedStates,
      StartingStates, OpenSteps
<1>. QED
  BY <1>3 DEF NoStaleInv

LEMMA ThreadPostStartedStale ==
  ASSUME TypeOK, StructInv, ArgInv, NoStaleInv, NEW h \in Handles, ThreadPostStarted(h)
  PROVE  NoStaleInv'
<1>1. lib[h] = "thread_started" /\ ChildGoto(h, "running")
      /\ creates' = creates /\ UNCHANGED <<data_, gen_>>
  BY DEF ThreadPostStarted, ChildAt, UnchangedArgs, arg_vars
<1>2. /\ lib'[h] = "running" /\ UNCHANGED <<lib_detached, serial, creator>>
      /\ \A k \in Handles \ {h} : lib'[k] = lib[k]
  BY <1>1, ChildGotoEffect DEF LibStates
<1>3. \A d \in Callers : /\ op'[d].step = op[d].step /\ op'[d].h = op[d].h
                        /\ op'[d].serial = op[d].serial /\ op'[d].gen = op[d].gen
  BY DEF ThreadPostStarted, TypeOK, Operations
<1>4. ASSUME NEW k \in Handles PROVE StaleInv(k)'
  BY <1>1, <1>2, <1>3, TypeFacts DEF NoStaleInv, StaleInv, ReapUnderWay, Entered
<1>. QED
  BY <1>4 DEF NoStaleInv

LEMMA ThreadReturnStale ==
  ASSUME TypeOK, StructInv, ArgInv, NoStaleInv, NEW h \in Handles, ThreadReturn(h)
  PROVE  NoStaleInv'
<1>1. lib[h] = "running" /\ ChildGoto(h, "finishing") /\ UNCHANGED <<op, creates>>
      /\ args_owner = Nobody /\ Finish(h)
  BY DEF ThreadReturn, ChildAt, Locked
<1>2. /\ lib'[h] = "finishing" /\ UNCHANGED <<lib_detached, serial, creator>>
      /\ \A k \in Handles \ {h} : lib'[k] = lib[k]
  BY <1>1, ChildGotoEffect DEF LibStates
<1>3. /\ gen_' = gen_
      /\ DOMAIN data_' \in {DOMAIN data_, DOMAIN data_ \ {h}}
      /\ h \in DOMAIN data_ \ DOMAIN data_' => data_[h].detached
      /\ \A k \in DOMAIN data_' :
           /\ k # h => data_'[k] = data_[k]
           /\ data_'[k].gen = data_[k].gen /\ data_'[k].args = data_[k].args
           /\ k = h => data_'[k] = [data_[k] EXCEPT !.done = TRUE]
           /\ data_'[k].detached = data_[k].detached
  BY <1>1 DEF Finish, Erase, Restrict, TypeOK, ArgEntries
<1>4. \A d \in Callers : op[d].step # "detach_locked"
  BY <1>1, XsanPthreadAssumption DEF StructInv, LockInv, Callers
<1>5. ASSUME NEW k \in Handles PROVE StaleInv(k)'
  <2>1. StaleInv(k)
    BY DEF NoStaleInv
  <2>2. CASE k = h
    <3>1. Entered(h) /\ lib[h] \notin {"finishing", "destroyed"}
      BY <1>1 DEF Entered
    <3>2. h \in DOMAIN data_ /\ lib_detached[h] => data_[h].detached
      BY <1>4, <2>1, <2>2, <3>1 DEF StaleInv
    <3>3. h \in DOMAIN data_' => ~lib_detached[h]
      BY <1>1, <1>3, <3>2 DEF Finish, Erase, Restrict
    <3>. QED
      BY <1>2, <2>2, <3>3 DEF StaleInv
  <2>3. CASE k # h
    <3>1. k \in DOMAIN data_' => k \in DOMAIN data_ /\ data_'[k] = data_[k]
      BY <1>3, <2>3
    <3>2. k \in DOMAIN data_' /\ ReapUnderWay(k) => ReapUnderWay(k)'
      BY <1>1, <3>1 DEF ReapUnderWay
    <3>3. Entered(k)' => Entered(k)
      BY <1>1, <1>2, <2>3 DEF Entered
    <3>. QED
      BY <1>1, <1>2, <1>4, <2>1, <2>3, <3>1, <3>2, <3>3 DEF StaleInv
  <2>. QED
    BY <2>2, <2>3
<1>. QED
  BY <1>5 DEF NoStaleInv

LEMMA ThreadCancelledStale ==
  ASSUME TypeOK, StructInv, ArgInv, NoStaleInv, NEW h \in Handles, ThreadCancelled(h)
  PROVE  NoStaleInv'
<1>1. lib[h] = "running" /\ ChildGoto(h, "finishing") /\ UNCHANGED <<op, creates>>
      /\ UNCHANGED <<data_, gen_>>
  BY DEF ThreadCancelled, ChildAt, UnchangedArgs, arg_vars
<1>2. /\ lib'[h] = "finishing" /\ UNCHANGED <<lib_detached, serial, creator>>
      /\ \A k \in Handles \ {h} : lib'[k] = lib[k]
  BY <1>1, ChildGotoEffect DEF LibStates
<1>3. ASSUME NEW k \in Handles PROVE StaleInv(k)'
  BY <1>1, <1>2, TypeFacts
  DEF NoStaleInv, StaleInv, ReapUnderWay, ArgInv, GenInv, EntryInv, Entered,
      EndedStates, OpArgInv, StructInv, CreateInv, ReapInv, ThreadInv, LockInv,
      UniqueInv, ReapSteps, HoldingSteps, JoinedSteps, DetachedSteps, StartedStates,
      StartingStates, OpenSteps
<1>. QED
  BY <1>3 DEF NoStaleInv

LEMMA ThreadDestroyStale ==
  ASSUME TypeOK, StructInv, ArgInv, NoStaleInv, NEW h \in Handles, ThreadDestroy(h)
  PROVE  NoStaleInv'
<1>1. lib[h] = "finishing" /\ ChildGoto(h, "destroyed") /\ UNCHANGED <<op, creates>>
      /\ UNCHANGED <<data_, gen_>>
  BY DEF ThreadDestroy, ChildAt, UnchangedArgs, arg_vars
<1>2. /\ lib'[h] = "destroyed" /\ UNCHANGED <<lib_detached, serial, creator>>
      /\ \A k \in Handles \ {h} : lib'[k] = lib[k]
  BY <1>1, ChildGotoEffect DEF LibStates
<1>3. ASSUME NEW k \in Handles PROVE StaleInv(k)'
  BY <1>1, <1>2, TypeFacts
  DEF NoStaleInv, StaleInv, ReapUnderWay, ArgInv, GenInv, EntryInv, Entered,
      EndedStates, OpArgInv, StructInv, CreateInv, ReapInv, ThreadInv, LockInv,
      UniqueInv, ReapSteps, HoldingSteps, JoinedSteps, DetachedSteps, StartedStates,
      StartingStates, OpenSteps
<1>. QED
  BY <1>3 DEF NoStaleInv

LEMMA ThreadExitStale ==
  ASSUME TypeOK, StructInv, ArgInv, NoStaleInv, NEW h \in Handles, ThreadExit(h)
  PROVE  NoStaleInv'
<1>1. lib[h] = "destroyed" /\ UNCHANGED <<op, creates>>
      /\ UNCHANGED <<lib_detached, serial, creator>> /\ UNCHANGED <<data_, gen_>>
  BY DEF ThreadExit, ChildAt, ChildGoto, UnchangedArgs, arg_vars
<1>2. /\ lib'[h] = IF lib_detached[h] THEN "none" ELSE "zombie"
      /\ \A k \in Handles \ {h} : lib'[k] = lib[k]
  BY DEF ThreadExit, ChildGoto, TypeOK
<1>3. ASSUME NEW k \in Handles PROVE StaleInv(k)'
  BY <1>1, <1>2, TypeFacts
  DEF NoStaleInv, StaleInv, ReapUnderWay, ArgInv, GenInv, EntryInv, Entered,
      EndedStates, OpArgInv, StructInv, CreateInv, ReapInv, ThreadInv, LockInv,
      UniqueInv, ReapSteps, HoldingSteps, JoinedSteps, DetachedSteps, StartedStates,
      StartingStates, OpenSteps
<1>. QED
  BY <1>3 DEF NoStaleInv

LEMMA StaleStep ==
  ASSUME MayFork = FALSE, MaxCreates <= kInvalidGen,
         TypeOK, StructInv, ArgInv, NoStaleInv, [Next]_vars
  PROVE  NoStaleInv'
<1>1. ASSUME NEW c \in Callers, CreateStep(c) PROVE NoStaleInv'
  <2>1. CASE XsanThreadCreate(c)
    <3>1. op[c].step = "create_thread" /\ UNCHANGED <<lib, lib_detached, creator, data_>>
      BY <2>1 DEF XsanThreadCreate, At, UnchangedArgs, arg_vars
    <3>2. op'[c].step = "wait_started" /\ \A d \in Callers \ {c} : op'[d] = op[d]
      BY <2>1 DEF XsanThreadCreate, TypeOK, Operations
    <3>. QED
      BY <3>1, <3>2, StaleFrame
  <2>2. CASE PthreadCreateReturn(c)
    BY <2>2, ReturnEffect, StaleFrame
    DEF PthreadCreateReturn, At, lib_vars, UnchangedArgs, arg_vars
  <2>. QED
    BY <1>1, <2>1, <2>2, PthreadCreateLockedStale DEF CreateStep
<1>2. ASSUME NEW c \in Callers, JoinStep(c) PROVE NoStaleInv'
  <2>1. CASE JoinBefore(c)
    <3>1. op[c].step = "before_join" /\ UNCHANGED <<lib, lib_detached, creator, data_>>
      BY <2>1 DEF JoinBefore, At, lib_vars, UnchangedArgs, arg_vars
    <3>2. op'[c].step \in {"before_join", "real_join"} /\ \A d \in Callers \ {c} : op'[d] = op[d]
      BY <2>1, <3>1 DEF JoinBefore, TypeOK, Operations
    <3>. QED
      BY <3>1, <3>2, StaleFrame
  <2>2. CASE JoinThreadTid(c) \/ NotJoined(c) \/ RealJoinFails(c)
    BY <2>2, ReturnEffect, StaleFrame
    DEF JoinThreadTid, NotJoined, RealJoinFails, At, lib_vars, UnchangedArgs, arg_vars
  <2>3. CASE RealTryJoinFails(c)
    <3>1. op[c].step = "real_join" /\ Goto(c, "not_joined")
          /\ UNCHANGED <<lib, lib_detached, creator, data_>>
      BY <2>3 DEF RealTryJoinFails, At, lib_vars, UnchangedArgs, arg_vars
    <3>2. op'[c].step = "not_joined" /\ \A d \in Callers \ {c} : op'[d] = op[d]
      BY <3>1, GotoEffect DEF Steps
    <3>. QED
      BY <3>1, <3>2, StaleFrame
  <2>. QED
    BY <1>2, <2>1, <2>2, <2>3, RealJoinStale, JoinAfterStale DEF JoinStep
<1>3. ASSUME NEW c \in Callers, DetachStep(c) PROVE NoStaleInv'
  <2>1. CASE DetachThreadTid(c)
    BY <2>1, ReturnEffect, StaleFrame
    DEF DetachThreadTid, At, lib_vars, UnchangedArgs, arg_vars
  <2>. QED
    BY <1>3, <2>1, RealDetachStale, PthreadDetachLockedStale DEF DetachStep
<1>4. ASSUME NEW c \in Callers, ProgramStep(c) PROVE NoStaleInv'
  <2>1. ASSUME NEW h \in Handles, NEW step \in {"before_join", "real_detach"}, NEW try,
               ConsumeTid(c, h, step, try)
        PROVE  NoStaleInv'
    <3>1. op[c].step = "idle" /\ UNCHANGED <<lib, lib_detached, creator, data_>>
      BY <2>1 DEF ConsumeTid, InUserCode, lib_vars, UnchangedArgs, arg_vars
    <3>2. op'[c].step = step /\ \A d \in Callers \ {c} : op'[d] = op[d]
      BY <2>1 DEF ConsumeTid, TypeOK, Idle
    <3>. QED
      BY <3>1, <3>2, StaleFrame
  <2>2. ~Fork(c)
    BY DEF Fork
  <2>. QED
    BY <1>4, <2>1, <2>2, RealPthreadCreateStale DEF ProgramStep, JoinBegin, DetachBegin
<1>5. ASSUME NEW h \in Handles, StartStep(h) PROVE NoStaleInv'
  BY <1>5, ThreadGetArgsStale, ThreadStartStale, ThreadPostStartedStale DEF StartStep
<1>6. ASSUME NEW h \in Handles, EndStep(h) \/ ThreadReturn(h) \/ ThreadCancelled(h)
      PROVE  NoStaleInv'
  BY <1>6, ThreadDestroyStale, ThreadExitStale, ThreadReturnStale, ThreadCancelledStale
  DEF EndStep
<1>7. CASE UNCHANGED vars
  BY <1>7 DEF NoStaleInv, StaleInv, ReapUnderWay, Entered, vars, lib_vars, arg_vars
<1>. QED
  BY <1>1, <1>2, <1>3, <1>4, <1>5, <1>6, <1>7 DEF Next, Terminated

LEMMA StaleInit == Init => NoStaleInv
  BY DEF Init, ArgRetvalInit, NoStaleInv, StaleInv

-----------------------------------------------------------------------------
(***************************************************************************)
(* The table implements KeptArgs: what is kept for a thread changes only   *)
(* as its life allows.  Fork is left out, as in ImplementsKeptArgs.        *)
(***************************************************************************)
\* The thread's entry is still to be made; it is there.
Pending(h) == op[creator[h]].step = "create_locked" /\ op[creator[h]].serial = serial[h]
Found(h) == h \in DOMAIN data_ /\ data_[h].args = serial[h]

\* No two threads have the same number, and no entry is of a thread to come.
KeptInv ==
  /\ \A h \in Handles : serial[h] \in 0 .. creates
  /\ \A h, k \in Handles : h # k /\ serial[h] = serial[k] => serial[h] = 0
  /\ \A h \in DOMAIN data_ :
       /\ data_[h].args <= creates
       /\ data_[h].args = creates => \A c \in Callers : op[c].step # "create_locked"

\* What is kept for the n-th thread is what is kept at its pthread_t.
KeptAgrees ==
  \A n \in 1 .. MaxCreates :
    /\ \A h \in Handles : lib[h] # "none" /\ serial[h] = n => KeptOf(n) = KeptAt(h)
    /\ (\A h \in Handles : lib[h] # "none" => serial[h] # n) =>
         KeptOf(n) = IF n > creates THEN "none" ELSE "dropped"

LEMMA KeptOfAgrees == TypeOK /\ KeptInv => KeptAgrees
<1>. SUFFICES ASSUME TypeOK, KeptInv, NEW n \in 1 .. MaxCreates
              PROVE  /\ \A h \in Handles : lib[h] # "none" /\ serial[h] = n => KeptOf(n) = KeptAt(h)
                     /\ (\A h \in Handles : lib[h] # "none" => serial[h] # n) =>
                          KeptOf(n) = IF n > creates THEN "none" ELSE "dropped"
  BY DEF KeptAgrees
<1>1. ASSUME NEW h \in Handles, lib[h] # "none", serial[h] = n
      PROVE  KeptOf(n) = KeptAt(h)
  <2>1. ~(n > creates)
    BY <1>1, TypeFacts DEF KeptInv
  <2>2. (CHOOSE k \in Handles : serial[k] = n) = h
    BY <1>1, XsanPthreadAssumption DEF KeptInv
  <2>. HIDE DEF KeptAt
  <2>. QED
    BY <1>1, <2>1, <2>2 DEF KeptOf
<1>2. ASSUME \A h \in Handles : lib[h] # "none" => serial[h] # n
      PROVE  KeptOf(n) = IF n > creates THEN "none" ELSE "dropped"
  BY <1>2 DEF KeptOf
<1>. QED
  BY <1>1, <1>2

MayBecome(a, b) == a = b \/ <<a, b>> \in Keeper!Life

LEMMA Lives ==
  /\ MayBecome("none", "arg") /\ MayBecome("none", "arg_detached")
  /\ MayBecome("arg", "retval") /\ MayBecome("arg_detached", "dropped")
  /\ MayBecome("arg", "orphan") /\ MayBecome("arg_detached", "orphan")
  /\ MayBecome("arg", "arg_detached")
  /\ MayBecome("retval", "dropped") /\ MayBecome("orphan", "dropped")
  /\ \A a : MayBecome(a, a)
  BY DEF MayBecome, Keeper!Life, Keeper!Keep, Keeper!Finish, Keeper!Cancel,
     Keeper!Detach, Keeper!Reap

\* One step in the life of the thread with this pthread_t: it is no other's.
HandleLife(h) ==
  /\ serial'[h] = serial[h]
  /\ lib'[h] # "none" => lib[h] # "none" /\ MayBecome(KeptAt(h), KeptAt(h)')
  /\ lib[h] # "none" /\ lib'[h] = "none" => MayBecome(KeptAt(h), "dropped")

LifeStep == \A n \in 1 .. MaxCreates : MayBecome(KeptOf(n), KeptOf(n)')

LEMMA LifeOfHandles ==
  ASSUME TypeOK, StructInv, KeptAgrees, KeptAgrees', creates' = creates,
         \A h \in Handles : HandleLife(h)
  PROVE  LifeStep
<1>. SUFFICES ASSUME NEW n \in 1 .. MaxCreates PROVE MayBecome(KeptOf(n), KeptOf(n)')
  BY DEF LifeStep
<1>1. CASE \A h \in Handles : lib[h] # "none" => serial[h] # n
  <2>1. \A h \in Handles : lib'[h] # "none" => serial'[h] # n
    BY <1>1 DEF HandleLife
  <2>2. KeptOf(n)' = KeptOf(n)
    BY <1>1, <2>1 DEF KeptAgrees
  <2>. QED
    BY <2>2 DEF MayBecome
<1>2. ASSUME NEW h \in Handles, lib[h] # "none", serial[h] = n
      PROVE  MayBecome(KeptOf(n), KeptOf(n)')
  <2>1. KeptOf(n) = KeptAt(h)
    BY <1>2 DEF KeptAgrees
  <2>2. CASE lib'[h] # "none"
    <3>1. KeptOf(n)' = KeptAt(h)'
      BY <1>2, <2>2 DEF KeptAgrees, HandleLife
    <3>. QED
      BY <2>1, <2>2, <3>1 DEF HandleLife
  <2>3. CASE lib'[h] = "none"
    <3>1. \A k \in Handles : lib'[k] # "none" => serial'[k] # n
      BY <1>2, <2>3 DEF HandleLife, StructInv, UniqueInv
    <3>2. ~(n > creates)
      BY <1>2, TypeFacts DEF StructInv, ThreadInv
    <3>3. KeptOf(n)' = "dropped"
      BY <3>1, <3>2 DEF KeptAgrees
    <3>. QED
      BY <1>2, <2>1, <2>3, <3>3 DEF HandleLife
  <2>. QED
    BY <2>2, <2>3
<1>. QED
  BY <1>1, <1>2

\* Only a thread that has just been created can be without its entry yet.
LEMMA NotPending ==
  ASSUME TypeOK, StructInv, NEW h \in Handles, lib[h] \notin {"none", "started"}
  PROVE  ~Pending(h)
  BY TypeFacts
  DEF Pending, StructInv, CreateInv, ThreadInv, UniqueInv, OpenSteps, StartingStates

\* A step that is none of the table's and moves no thread.
LEMMA KeptFrame ==
  ASSUME TypeOK, StructInv, KeptInv, NEW c \in Callers,
         op[c].step # "create_locked", op'[c].step # "create_locked",
         \A d \in Callers \ {c} : op'[d] = op[d],
         UNCHANGED <<lib, serial, creator, data_, creates>>
  PROVE  KeptInv' /\ \A h \in Handles : HandleLife(h)
<1>1. KeptInv'
  BY DEF KeptInv
<1>2. ASSUME NEW h \in Handles PROVE HandleLife(h)
  <2>1. Pending(h)' <=> Pending(h)
    BY TypeFacts DEF Pending
  <2>2. KeptAt(h)' = KeptAt(h)
    BY <2>1 DEF KeptAt, Pending
  <2>. QED
    BY <2>2, Lives DEF HandleLife
<1>. QED
  BY <1>1, <1>2

LEMMA PthreadCreateLockedKept ==
  ASSUME TypeOK, StructInv, ArgInv, KeptInv, NEW c \in Callers, PthreadCreateLocked(c)
  PROVE  KeptInv' /\ \A k \in Handles : HandleLife(k)
<1>1. op[c].step = "create_locked" /\ Goto(c, "create_thread")
      /\ UNCHANGED <<lib, lib_detached, serial, creator, creates>>
  BY DEF PthreadCreateLocked, At, lib_vars
<1>2. op'[c].step = "create_thread" /\ SameCall(op'[c], op[c])
      /\ \A d \in Callers \ {c} : op'[d] = op[d]
  BY <1>1, GotoEffect DEF Steps
<1>3. /\ DOMAIN data_' = DOMAIN data_ \cup {op[c].h}
      /\ data_'[op[c].h] = [gen |-> gen_, detached |-> op[c].flag, done |-> FALSE,
                            args |-> op[c].serial]
      /\ \A k \in DOMAIN data_ \ {op[c].h} : data_'[k] = data_[k]
      /\ gen_' = IF gen_ + 1 = kInvalidGen THEN 0 ELSE gen_ + 1
  BY DEF PthreadCreateLocked, CreateLocked
<1>4. \A d \in Callers \ {c} : op[d].step \notin {"create_locked", "detach_locked"}
  BY <1>1 DEF StructInv, LockInv
<1>5. KeptInv'
  BY <1>1, <1>2, <1>3, <1>4, TypeFacts
  DEF KeptInv, StructInv, CreateInv, LockInv, OpenSteps, ArgInv, GenInv, OpArgInv,
      SameCall
<1>6. op[c].h \in Handles /\ lib[op[c].h] \in {"started", "got_args"}
      /\ serial[op[c].h] = op[c].serial /\ creator[op[c].h] = c /\ op[c].serial = creates
  BY <1>1 DEF StructInv, CreateInv, OpenSteps, ArgInv, GenInv
<1>7. ASSUME NEW h \in Handles, h = op[c].h PROVE HandleLife(h)
  <2>1. ~Found(h) /\ Pending(h)
    BY <1>1, <1>6, <1>7 DEF Found, Pending, KeptInv
  <2>2. h \in DOMAIN data_' /\ data_'[h].args = serial'[h] /\ ~data_'[h].done
    BY <1>1, <1>3, <1>6, <1>7
  <2>3. KeptAt(h) = "none"
    BY <2>1 DEF KeptAt, Found, Pending
  <2>4. KeptAt(h)' \in {"arg", "arg_detached"}
    BY <1>1, <1>6, <1>7, <2>2 DEF KeptAt
  <2>. QED
    BY <1>1, <1>6, <1>7, <2>3, <2>4, Lives DEF HandleLife
<1>8. ASSUME NEW k \in Handles, k # op[c].h PROVE HandleLife(k)
  <2>1. lib[k] # "none" => (Pending(k)' <=> Pending(k))
    BY <1>1, <1>2, <1>6, <1>8, TypeFacts DEF Pending, StructInv, UniqueInv
  <2>2. lib[k] # "none" => KeptAt(k)' = KeptAt(k)
    BY <1>1, <1>3, <1>8, <2>1 DEF KeptAt, Pending
  <2>. QED
    BY <1>1, <2>2, Lives DEF HandleLife
<1>. QED
  BY <1>5, <1>7, <1>8

LEMMA RealJoinKept ==
  ASSUME TypeOK, StructInv, ArgInv, KeptInv, NEW c \in Callers, RealJoin(c)
  PROVE  KeptInv' /\ \A k \in Handles : HandleLife(k)
<1>1. op[c].step = "real_join" /\ lib[op[c].h] = "zombie"
      /\ Goto(c, "after_join") /\ ChildGoto(op[c].h, "none")
      /\ creates' = creates /\ UNCHANGED <<data_, gen_>>
  BY DEF RealJoin, At, UnchangedArgs, arg_vars
<1>2. op'[c].step = "after_join" /\ SameCall(op'[c], op[c])
      /\ \A d \in Callers \ {c} : op'[d] = op[d]
  BY <1>1, GotoEffect DEF Steps
<1>3. op[c].h \in Handles
  BY <1>1 DEF StructInv, ReapInv, ReapSteps, HoldingSteps
<1>4. lib'[op[c].h] = "none" /\ UNCHANGED <<lib_detached, serial, creator>>
      /\ \A k \in Handles \ {op[c].h} : lib'[k] = lib[k]
  BY <1>1, <1>3, ChildGotoEffect DEF LibStates
<1>5. KeptInv'
  BY <1>1, <1>2, <1>3, <1>4, TypeFacts
  DEF KeptInv, StructInv, CreateInv, LockInv, OpenSteps, ArgInv, GenInv, OpArgInv,
      SameCall
<1>6. ASSUME NEW k \in Handles PROVE HandleLife(k)
  BY <1>1, <1>2, <1>4, TypeFacts, Lives
  DEF HandleLife, KeptAt, StructInv, CreateInv, UniqueInv, OpenSteps
<1>. QED
  BY <1>5, <1>6

LEMMA JoinAfterKept ==
  ASSUME TypeOK, StructInv, ArgInv, KeptInv, NEW c \in Callers, JoinAfter(c)
  PROVE  KeptInv' /\ \A k \in Handles : HandleLife(k)
<1>1. op[c].step = "after_join" /\ Goto(c, "join_thread")
      /\ args_owner = Nobody /\ UNCHANGED <<lib, lib_detached, serial, creator, creates>>
      /\ gen_' = gen_
  BY DEF JoinAfter, At, lib_vars, Locked, UnchangedArgs, arg_vars, AfterJoin
<1>2. op'[c].step = "join_thread" /\ SameCall(op'[c], op[c])
      /\ \A d \in Callers \ {c} : op'[d] = op[d]
  BY <1>1, GotoEffect DEF Steps
<1>3. /\ DOMAIN data_' \in {DOMAIN data_, DOMAIN data_ \ {op[c].h}}
      /\ op[c].h \in DOMAIN data_ \ DOMAIN data_' => data_[op[c].h].gen = op[c].gen
      /\ \A k \in DOMAIN data_' : data_'[k] = data_[k]
  BY DEF JoinAfter, AfterJoin, Erase, Restrict, UnchangedArgs, arg_vars
<1>4. op[c].h \in DOMAIN data_ \ DOMAIN data_' => data_[op[c].h].args = op[c].serial
  BY <1>1, <1>3 DEF ArgInv, GenInv, OpArgInv
<1>5. \A d \in Callers : op[d].step # "detach_locked"
  BY <1>1, XsanPthreadAssumption DEF StructInv, LockInv, Callers
<1>6. KeptInv'
  BY <1>1, <1>2, <1>3, <1>4, <1>5, TypeFacts
  DEF KeptInv, StructInv, CreateInv, LockInv, OpenSteps, ArgInv, GenInv, OpArgInv,
      SameCall
<1>7. ASSUME NEW k \in Handles PROVE HandleLife(k)
  BY <1>1, <1>2, <1>3, <1>4, TypeFacts, Lives
  DEF HandleLife, KeptAt, StructInv, ReapInv, JoinedSteps
<1>. QED
  BY <1>6, <1>7

LEMMA RealDetachKept ==
  ASSUME TypeOK, StructInv, ArgInv, KeptInv, NEW c \in Callers, RealDetach(c)
  PROVE  KeptInv' /\ \A k \in Handles : HandleLife(k)
<1>1. op[c].step = "real_detach" /\ Goto(c, "detach_locked")
      /\ UNCHANGED <<serial, creator, creates>> /\ UNCHANGED <<data_, gen_>>
  BY DEF RealDetach, At, Lock, UnchangedArgs, arg_vars
<1>2. op'[c].step = "detach_locked" /\ SameCall(op'[c], op[c])
      /\ \A d \in Callers \ {c} : op'[d] = op[d]
  BY <1>1, GotoEffect DEF Steps
<1>3. op[c].h \in Handles
  BY <1>1 DEF StructInv, ReapInv, ReapSteps, HoldingSteps
<1>4. /\ lib_detached'[op[c].h] = TRUE
      /\ lib'[op[c].h] = IF lib[op[c].h] = "zombie" THEN "none" ELSE lib[op[c].h]
      /\ \A k \in Handles \ {op[c].h} :
           lib'[k] = lib[k] /\ lib_detached'[k] = lib_detached[k]
  BY <1>3 DEF RealDetach, TypeOK
<1>5. KeptInv'
  BY <1>1, <1>2, <1>3, <1>4, TypeFacts
  DEF KeptInv, StructInv, CreateInv, LockInv, OpenSteps, ArgInv, GenInv, OpArgInv,
      SameCall
<1>6. ASSUME NEW k \in Handles PROVE HandleLife(k)
  BY <1>1, <1>2, <1>4, TypeFacts, Lives
  DEF HandleLife, KeptAt, StructInv, CreateInv, UniqueInv, OpenSteps
<1>. QED
  BY <1>5, <1>6

LEMMA PthreadDetachLockedKept ==
  ASSUME TypeOK, StructInv, ArgInv, KeptInv, NEW c \in Callers, PthreadDetachLocked(c)
  PROVE  KeptInv' /\ \A k \in Handles : HandleLife(k)
<1>1. op[c].step = "detach_locked" /\ Goto(c, "detach_thread") /\ UNCHANGED <<lib, lib_detached, serial, creator, creates>>
  BY DEF PthreadDetachLocked, At, lib_vars
<1>2. op'[c].step = "detach_thread" /\ SameCall(op'[c], op[c])
      /\ \A d \in Callers \ {c} : op'[d] = op[d]
  BY <1>1, GotoEffect DEF Steps
<1>3. op[c].h \in DOMAIN data_ /\ data_[op[c].h].args = op[c].serial /\ ~data_[op[c].h].detached
  BY <1>1 DEF ArgInv, OpArgInv
<1>4. IF data_[op[c].h].done
      THEN /\ DOMAIN data_' = DOMAIN data_ \ {op[c].h}
           /\ \A k \in DOMAIN data_' : data_'[k] = data_[k]
      ELSE data_' = [data_ EXCEPT ![op[c].h].detached = TRUE]
  BY <1>3 DEF PthreadDetachLocked, DetachLockedCheck, DetachLocked, Erase, Restrict
<1>5. /\ gen_' = gen_
      /\ DOMAIN data_' \in {DOMAIN data_, DOMAIN data_ \ {op[c].h}}
      /\ op[c].h \notin DOMAIN data_' => data_[op[c].h].done
      /\ \A k \in DOMAIN data_' :
           /\ k # op[c].h => data_'[k] = data_[k]
           /\ data_'[k].gen = data_[k].gen /\ data_'[k].args = data_[k].args
           /\ data_'[k].done = data_[k].done
  BY <1>3, <1>4
  DEF PthreadDetachLocked, DetachLockedCheck, DetachLocked, TypeOK, ArgEntries
<1>6. \A d \in Callers \ {c} : op[d].step \notin {"create_locked", "detach_locked"}
  BY <1>1 DEF StructInv, LockInv
<1>7. KeptInv'
  BY <1>1, <1>2, <1>3, <1>4, <1>5, <1>6, TypeFacts
  DEF KeptInv, StructInv, CreateInv, LockInv, OpenSteps, ArgInv, GenInv, OpArgInv,
      SameCall
<1>8. ASSUME NEW k \in Handles PROVE HandleLife(k)
  BY <1>1, <1>2, <1>3, <1>5, <1>6, TypeFacts, Lives DEF HandleLife, KeptAt
<1>. QED
  BY <1>7, <1>8

LEMMA ThreadGetArgsKept ==
  ASSUME TypeOK, StructInv, ArgInv, KeptInv, NEW h \in Handles, ThreadGetArgs(h)
  PROVE  KeptInv' /\ \A k \in Handles : HandleLife(k)
<1>1. lib[h] = "started" /\ args_owner = Nobody /\ UNCHANGED <<op, creates>>
      /\ UNCHANGED <<lib_detached, serial, creator>> /\ UNCHANGED <<data_, gen_>>
  BY DEF ThreadGetArgs, ChildAt, ChildGoto, Locked, UnchangedArgs, arg_vars
<1>2. /\ lib'[h] \in {"started", "got_args"}
      /\ \A k \in Handles \ {h} : lib'[k] = lib[k]
  BY <1>1 DEF ThreadGetArgs, ChildGoto, TypeOK
<1>3. \A d \in Callers : op[d].step # "create_locked"
  BY <1>1, XsanPthreadAssumption DEF StructInv, LockInv, Callers
<1>4. KeptInv'
  BY <1>1, <1>2, <1>3, TypeFacts
  DEF KeptInv, StructInv, CreateInv, LockInv, OpenSteps, ArgInv, GenInv, OpArgInv
<1>5. ASSUME NEW k \in Handles PROVE HandleLife(k)
  BY <1>1, <1>2, <1>3, TypeFacts, Lives, NotPending
  DEF HandleLife, KeptAt, Pending, ArgInv, GenInv, EntryInv, Entered, EndedStates,
      OpArgInv, StructInv, CreateInv, ReapInv, ThreadInv, LockInv, UniqueInv,
      ReapSteps, HoldingSteps, JoinedSteps, DetachedSteps, StartedStates,
      StartingStates, OpenSteps
<1>. QED
  BY <1>4, <1>5

LEMMA ThreadStartKept ==
  ASSUME TypeOK, StructInv, ArgInv, KeptInv, NEW h \in Handles, ThreadStart(h)
  PROVE  KeptInv' /\ \A k \in Handles : HandleLife(k)
<1>1. lib[h] = "got_args" /\ ChildGoto(h, "thread_started") /\ UNCHANGED <<op, creates>>
      /\ UNCHANGED <<data_, gen_>>
  BY DEF ThreadStart, ChildAt, UnchangedArgs, arg_vars
<1>2. /\ lib'[h] = "thread_started" /\ UNCHANGED <<lib_detached, serial, creator>>
      /\ \A k \in Handles \ {h} : lib'[k] = lib[k]
  BY <1>1, ChildGotoEffect DEF LibStates
<1>3. KeptInv'
  BY <1>1, <1>2, TypeFacts
  DEF KeptInv, StructInv, CreateInv, LockInv, OpenSteps, ArgInv, GenInv, OpArgInv
<1>4. ASSUME NEW k \in Handles PROVE HandleLife(k)
  BY <1>1, <1>2, TypeFacts, Lives, NotPending
  DEF HandleLife, KeptAt, Pending, ArgInv, GenInv, EntryInv, Entered, EndedStates,
      OpArgInv, StructInv, CreateInv, ReapInv, ThreadInv, LockInv, UniqueInv,
      ReapSteps, HoldingSteps, JoinedSteps, DetachedSteps, StartedStates,
      StartingStates, OpenSteps
<1>. QED
  BY <1>3, <1>4

LEMMA ThreadPostStartedKept ==
  ASSUME TypeOK, StructInv, ArgInv, KeptInv, NEW h \in Handles, ThreadPostStarted(h)
  PROVE  KeptInv' /\ \A k \in Handles : HandleLife(k)
<1>1. lib[h] = "thread_started" /\ ChildGoto(h, "running")
      /\ creates' = creates /\ UNCHANGED <<data_, gen_>>
  BY DEF ThreadPostStarted, ChildAt, UnchangedArgs, arg_vars
<1>2. /\ lib'[h] = "running" /\ UNCHANGED <<lib_detached, serial, creator>>
      /\ \A k \in Handles \ {h} : lib'[k] = lib[k]
  BY <1>1, ChildGotoEffect DEF LibStates
<1>3. \A d \in Callers : /\ op'[d].step = op[d].step /\ op'[d].h = op[d].h
                        /\ op'[d].serial = op[d].serial /\ op'[d].gen = op[d].gen
  BY DEF ThreadPostStarted, TypeOK, Operations
<1>4. KeptInv'
  BY <1>1, <1>2, <1>3, TypeFacts
  DEF KeptInv, StructInv, CreateInv, LockInv, OpenSteps, ArgInv, GenInv, OpArgInv
<1>5. ASSUME NEW k \in Handles PROVE HandleLife(k)
  BY <1>1, <1>2, <1>3, TypeFacts, Lives, NotPending
  DEF HandleLife, KeptAt, Pending, ArgInv, GenInv, EntryInv, Entered, EndedStates,
      OpArgInv, StructInv, CreateInv, ReapInv, ThreadInv, LockInv, UniqueInv,
      ReapSteps, HoldingSteps, JoinedSteps, DetachedSteps, StartedStates,
      StartingStates, OpenSteps
<1>. QED
  BY <1>4, <1>5

LEMMA ThreadReturnKept ==
  ASSUME TypeOK, StructInv, ArgInv, KeptInv, NEW h \in Handles, ThreadReturn(h)
  PROVE  KeptInv' /\ \A k \in Handles : HandleLife(k)
<1>1. lib[h] = "running" /\ ChildGoto(h, "finishing") /\ UNCHANGED <<op, creates>>
      /\ args_owner = Nobody /\ Finish(h)
  BY DEF ThreadReturn, ChildAt, Locked
<1>2. /\ lib'[h] = "finishing" /\ UNCHANGED <<lib_detached, serial, creator>>
      /\ \A k \in Handles \ {h} : lib'[k] = lib[k]
  BY <1>1, ChildGotoEffect DEF LibStates
<1>3. /\ gen_' = gen_
      /\ DOMAIN data_' \in {DOMAIN data_, DOMAIN data_ \ {h}}
      /\ h \in DOMAIN data_ \ DOMAIN data_' => data_[h].detached
      /\ \A k \in DOMAIN data_' :
           /\ k # h => data_'[k] = data_[k]
           /\ data_'[k].gen = data_[k].gen /\ data_'[k].args = data_[k].args
           /\ k = h => data_'[k] = [data_[k] EXCEPT !.done = TRUE]
           /\ data_'[k].detached = data_[k].detached
  BY <1>1 DEF Finish, Erase, Restrict, TypeOK, ArgEntries
<1>4. \A d \in Callers : op[d].step # "detach_locked"
  BY <1>1, XsanPthreadAssumption DEF StructInv, LockInv, Callers
<1>5. KeptInv'
  BY <1>1, <1>2, <1>3, <1>4, TypeFacts
  DEF KeptInv, StructInv, CreateInv, LockInv, OpenSteps, ArgInv, GenInv, OpArgInv
<1>6. HandleLife(h)
  <2>1. h \in DOMAIN data_ /\ data_[h].args = serial[h] /\ ~data_[h].done
    BY <1>1 DEF ArgInv, EntryInv, Entered, EndedStates
  <2>2. ~Pending(h)' /\ data_[h] \in ArgEntries
    BY <1>1, <1>2, <2>1, NotPending, TypeFacts DEF Pending
  <2>3. CASE data_[h].detached
    <3>1. h \notin DOMAIN data_'
      BY <1>1, <2>1, <2>3 DEF Finish, Erase, Restrict
    <3>2. KeptAt(h) = "arg_detached" /\ KeptAt(h)' = "dropped"
      BY <1>1, <2>1, <2>2, <2>3, <3>1 DEF KeptAt, Pending
    <3>. QED
      BY <1>1, <1>2, <3>2, Lives DEF HandleLife
  <2>4. CASE ~data_[h].detached
    <3>1. data_' = [data_ EXCEPT ![h].done = TRUE]
      BY <1>1, <2>1, <2>4 DEF Finish
    <3>2. h \in DOMAIN data_' /\ data_'[h].args = data_[h].args /\ data_'[h].done
      BY <2>1, <2>2, <3>1 DEF ArgEntries
    <3>3. KeptAt(h) = "arg" /\ KeptAt(h)' = "retval"
      BY <1>1, <1>2, <2>1, <2>4, <3>2 DEF KeptAt
    <3>. QED
      BY <1>1, <1>2, <3>3, Lives DEF HandleLife
  <2>. QED
    BY <2>3, <2>4
<1>7. ASSUME NEW k \in Handles, k # h PROVE HandleLife(k)
  <2>1. KeptAt(k)' = KeptAt(k)
    BY <1>1, <1>2, <1>3, <1>7 DEF KeptAt, Pending
  <2>. QED
    BY <1>2, <1>7, <2>1, Lives DEF HandleLife
<1>. QED
  BY <1>5, <1>6, <1>7

LEMMA ThreadCancelledKept ==
  ASSUME TypeOK, StructInv, ArgInv, KeptInv, NEW h \in Handles, ThreadCancelled(h)
  PROVE  KeptInv' /\ \A k \in Handles : HandleLife(k)
<1>1. lib[h] = "running" /\ ChildGoto(h, "finishing") /\ UNCHANGED <<op, creates>>
      /\ UNCHANGED <<data_, gen_>>
  BY DEF ThreadCancelled, ChildAt, UnchangedArgs, arg_vars
<1>2. /\ lib'[h] = "finishing" /\ UNCHANGED <<lib_detached, serial, creator>>
      /\ \A k \in Handles \ {h} : lib'[k] = lib[k]
  BY <1>1, ChildGotoEffect DEF LibStates
<1>3. KeptInv'
  BY <1>1, <1>2, TypeFacts
  DEF KeptInv, StructInv, CreateInv, LockInv, OpenSteps, ArgInv, GenInv, OpArgInv
<1>4. ASSUME NEW k \in Handles PROVE HandleLife(k)
  BY <1>1, <1>2, TypeFacts, Lives, NotPending
  DEF HandleLife, KeptAt, Pending, ArgInv, GenInv, EntryInv, Entered, EndedStates,
      OpArgInv, StructInv, CreateInv, ReapInv, ThreadInv, LockInv, UniqueInv,
      ReapSteps, HoldingSteps, JoinedSteps, DetachedSteps, StartedStates,
      StartingStates, OpenSteps
<1>. QED
  BY <1>3, <1>4

LEMMA ThreadDestroyKept ==
  ASSUME TypeOK, StructInv, ArgInv, KeptInv, NEW h \in Handles, ThreadDestroy(h)
  PROVE  KeptInv' /\ \A k \in Handles : HandleLife(k)
<1>1. lib[h] = "finishing" /\ ChildGoto(h, "destroyed") /\ UNCHANGED <<op, creates>>
      /\ UNCHANGED <<data_, gen_>>
  BY DEF ThreadDestroy, ChildAt, UnchangedArgs, arg_vars
<1>2. /\ lib'[h] = "destroyed" /\ UNCHANGED <<lib_detached, serial, creator>>
      /\ \A k \in Handles \ {h} : lib'[k] = lib[k]
  BY <1>1, ChildGotoEffect DEF LibStates
<1>3. KeptInv'
  BY <1>1, <1>2, TypeFacts
  DEF KeptInv, StructInv, CreateInv, LockInv, OpenSteps, ArgInv, GenInv, OpArgInv
<1>4. ASSUME NEW k \in Handles PROVE HandleLife(k)
  BY <1>1, <1>2, TypeFacts, Lives, NotPending
  DEF HandleLife, KeptAt, Pending, ArgInv, GenInv, EntryInv, Entered, EndedStates,
      OpArgInv, StructInv, CreateInv, ReapInv, ThreadInv, LockInv, UniqueInv,
      ReapSteps, HoldingSteps, JoinedSteps, DetachedSteps, StartedStates,
      StartingStates, OpenSteps
<1>. QED
  BY <1>3, <1>4

LEMMA ThreadExitKept ==
  ASSUME TypeOK, StructInv, ArgInv, KeptInv, NEW h \in Handles, ThreadExit(h)
  PROVE  KeptInv' /\ \A k \in Handles : HandleLife(k)
<1>1. lib[h] = "destroyed" /\ UNCHANGED <<op, creates>>
      /\ UNCHANGED <<lib_detached, serial, creator>> /\ UNCHANGED <<data_, gen_>>
  BY DEF ThreadExit, ChildAt, ChildGoto, UnchangedArgs, arg_vars
<1>2. /\ lib'[h] = IF lib_detached[h] THEN "none" ELSE "zombie"
      /\ \A k \in Handles \ {h} : lib'[k] = lib[k]
  BY DEF ThreadExit, ChildGoto, TypeOK
<1>3. KeptInv'
  BY <1>1, <1>2, TypeFacts
  DEF KeptInv, StructInv, CreateInv, LockInv, OpenSteps, ArgInv, GenInv, OpArgInv
<1>4. ASSUME NEW k \in Handles PROVE HandleLife(k)
  BY <1>1, <1>2, TypeFacts, Lives, NotPending
  DEF HandleLife, KeptAt, Pending, ArgInv, GenInv, EntryInv, Entered, EndedStates,
      OpArgInv, StructInv, CreateInv, ReapInv, ThreadInv, LockInv, UniqueInv,
      ReapSteps, HoldingSteps, JoinedSteps, DetachedSteps, StartedStates,
      StartingStates, OpenSteps
<1>. QED
  BY <1>3, <1>4

\* The thread created has nothing kept yet.
LEMMA RealPthreadCreateKept ==
  ASSUME TypeOK, StructInv, KeptInv, KeptAgrees,
         NEW c \in Callers, NEW h \in Handles, NEW det \in BOOLEAN,
         RealPthreadCreate(c, h, det)
  PROVE  KeptInv' /\ (KeptAgrees' => LifeStep)
<1>1. /\ op[c].step = "idle" /\ lib[h] = "none" /\ args_owner = Nobody
      /\ creates' = creates + 1 /\ creates \in Nat
      /\ UNCHANGED <<data_, gen_>>
  BY TypeFacts DEF RealPthreadCreate, InUserCode, Lock, UnchangedArgs, arg_vars
<1>2. /\ lib'[h] = "started" /\ serial'[h] = creates + 1 /\ creator'[h] = c
      /\ \A k \in Handles \ {h} :
           /\ lib'[k] = lib[k] /\ serial'[k] = serial[k] /\ creator'[k] = creator[k]
  BY DEF RealPthreadCreate, TypeOK
<1>3. /\ op'[c].step = "create_locked" /\ op'[c].serial = creates + 1
      /\ \A d \in Callers \ {c} : op'[d] = op[d]
  BY DEF RealPthreadCreate, TypeOK, Idle
<1>4. \A k \in DOMAIN data_ : data_[k].args \in Nat /\ data_[k].args <= creates
  BY TypeFacts DEF KeptInv, ArgEntries
<1>5. KeptInv'
  BY <1>1, <1>2, <1>3, <1>4, TypeFacts DEF KeptInv
<1>6. KeptAt(h)' = "none"
  BY <1>1, <1>2, <1>3, <1>4 DEF KeptAt
<1>7. ASSUME NEW k \in Handles, k # h PROVE KeptAt(k)' = KeptAt(k)
  <2>1. Pending(k)' <=> Pending(k)
    BY <1>1, <1>2, <1>3, <1>7, TypeFacts DEF Pending, KeptInv
  <2>. QED
    BY <1>1, <1>2, <1>7, <2>1 DEF KeptAt, Pending
<1>8. ASSUME KeptAgrees', NEW n \in 1 .. MaxCreates PROVE MayBecome(KeptOf(n), KeptOf(n)')
  <2>1. CASE n = creates + 1
    <3>1. \A k \in Handles : serial[k] # n
      BY <1>1, <2>1 DEF KeptInv
    <3>2. KeptOf(n) = "none"
      BY <1>1, <2>1, <3>1 DEF KeptAgrees
    <3>3. KeptOf(n)' = "none"
      BY <1>2, <1>6, <1>8, <2>1 DEF KeptAgrees
    <3>. QED
      BY <3>2, <3>3 DEF MayBecome
  <2>2. ASSUME n # creates + 1, NEW k \in Handles, lib[k] # "none", serial[k] = n
        PROVE  MayBecome(KeptOf(n), KeptOf(n)')
    <3>1. k # h
      BY <1>1, <2>2
    <3>2. KeptOf(n) = KeptAt(k)
      BY <2>2 DEF KeptAgrees
    <3>3. KeptOf(n)' = KeptAt(k)'
      BY <1>2, <1>8, <2>2, <3>1 DEF KeptAgrees
    <3>. QED
      BY <1>7, <3>1, <3>2, <3>3 DEF MayBecome
  <2>3. CASE n # creates + 1 /\ \A k \in Handles : lib[k] # "none" => serial[k] # n
    <3>1. \A k \in Handles : lib'[k] # "none" => serial'[k] # n
      BY <1>2, <2>3
    <3>2. KeptOf(n) = IF n > creates THEN "none" ELSE "dropped"
      BY <2>3 DEF KeptAgrees
    <3>3. KeptOf(n)' = IF n > creates' THEN "none" ELSE "dropped"
      BY <1>8, <3>1 DEF KeptAgrees
    <3>4. KeptOf(n)' = KeptOf(n)
      BY <1>1, <2>3, <3>2, <3>3
    <3>. QED
      BY <3>4 DEF MayBecome
  <2>. QED
    BY <2>1, <2>2, <2>3
<1>. QED
  BY <1>5, <1>8 DEF LifeStep

LEMMA KeptStep ==
  ASSUME MayFork = FALSE, TypeOK, StructInv, ArgInv, KeptInv, KeptAgrees, [Next]_vars
  PROVE  KeptInv' /\ (KeptAgrees' => LifeStep)
<1>. DEFINE Lived == KeptInv' /\ creates' = creates /\ \A h \in Handles : HandleLife(h)
<1>1. Lived => KeptInv' /\ (KeptAgrees' => LifeStep)
  BY LifeOfHandles
<1>. HIDE DEF Lived
<1>2. ASSUME NEW c \in Callers, CreateStep(c) PROVE Lived
  <2>1. CASE PthreadCreateLocked(c)
    BY <2>1, PthreadCreateLockedKept DEF PthreadCreateLocked, Lived
  <2>2. CASE XsanThreadCreate(c)
    <3>1. op[c].step = "create_thread" /\ UNCHANGED <<lib, serial, creator, data_, creates>>
      BY <2>2 DEF XsanThreadCreate, At, UnchangedArgs, arg_vars
    <3>2. op'[c].step = "wait_started" /\ \A d \in Callers \ {c} : op'[d] = op[d]
      BY <2>2 DEF XsanThreadCreate, TypeOK, Operations
    <3>. QED
      BY <3>1, <3>2, KeptFrame DEF Lived
  <2>3. CASE PthreadCreateReturn(c)
    BY <2>3, ReturnEffect, KeptFrame
    DEF PthreadCreateReturn, At, lib_vars, UnchangedArgs, arg_vars, Lived
  <2>. QED
    BY <1>2, <2>1, <2>2, <2>3 DEF CreateStep
<1>3. ASSUME NEW c \in Callers, JoinStep(c) PROVE Lived
  <2>1. CASE RealJoin(c)
    BY <2>1, RealJoinKept DEF RealJoin, Lived
  <2>2. CASE JoinAfter(c)
    BY <2>2, JoinAfterKept DEF JoinAfter, Lived
  <2>3. CASE JoinBefore(c)
    <3>1. op[c].step = "before_join" /\ UNCHANGED <<lib, serial, creator, data_, creates>>
      BY <2>3 DEF JoinBefore, At, lib_vars, UnchangedArgs, arg_vars
    <3>2. op'[c].step \in {"before_join", "real_join"} /\ \A d \in Callers \ {c} : op'[d] = op[d]
      BY <2>3, <3>1 DEF JoinBefore, TypeOK, Operations
    <3>. QED
      BY <3>1, <3>2, KeptFrame DEF Lived
  <2>4. CASE RealTryJoinFails(c)
    <3>1. op[c].step = "real_join" /\ Goto(c, "not_joined")
          /\ UNCHANGED <<lib, serial, creator, data_, creates>>
      BY <2>4 DEF RealTryJoinFails, At, lib_vars, UnchangedArgs, arg_vars
    <3>2. op'[c].step = "not_joined" /\ \A d \in Callers \ {c} : op'[d] = op[d]
      BY <3>1, GotoEffect DEF Steps
    <3>. QED
      BY <3>1, <3>2, KeptFrame DEF Lived
  <2>5. CASE JoinThreadTid(c) \/ NotJoined(c) \/ RealJoinFails(c)
    BY <2>5, ReturnEffect, KeptFrame
    DEF JoinThreadTid, NotJoined, RealJoinFails, At, lib_vars, UnchangedArgs, arg_vars,
        Lived
  <2>. QED
    BY <1>3, <2>1, <2>2, <2>3, <2>4, <2>5 DEF JoinStep
<1>4. ASSUME NEW c \in Callers, DetachStep(c) PROVE Lived
  <2>1. CASE RealDetach(c)
    BY <2>1, RealDetachKept DEF RealDetach, Lived
  <2>2. CASE PthreadDetachLocked(c)
    BY <2>2, PthreadDetachLockedKept DEF PthreadDetachLocked, Lived
  <2>3. CASE DetachThreadTid(c)
    BY <2>3, ReturnEffect, KeptFrame
    DEF DetachThreadTid, At, lib_vars, UnchangedArgs, arg_vars, Lived
  <2>. QED
    BY <1>4, <2>1, <2>2, <2>3 DEF DetachStep
<1>5. ASSUME NEW c \in Callers, ProgramStep(c) PROVE KeptInv' /\ (KeptAgrees' => LifeStep)
  <2>1. ASSUME NEW h \in Handles, NEW step \in {"before_join", "real_detach"}, NEW try,
               ConsumeTid(c, h, step, try)
        PROVE  Lived
    <3>1. op[c].step = "idle" /\ UNCHANGED <<lib, serial, creator, data_, creates>>
      BY <2>1 DEF ConsumeTid, InUserCode, lib_vars, UnchangedArgs, arg_vars
    <3>2. op'[c].step = step /\ \A d \in Callers \ {c} : op'[d] = op[d]
      BY <2>1 DEF ConsumeTid, TypeOK, Idle
    <3>. QED
      BY <3>1, <3>2, KeptFrame DEF Lived
  <2>2. ~Fork(c)
    BY DEF Fork
  <2>. QED
    BY <1>1, <1>5, <2>1, <2>2, RealPthreadCreateKept
    DEF ProgramStep, JoinBegin, DetachBegin
<1>6. ASSUME NEW h \in Handles, StartStep(h) PROVE Lived
  BY <1>6, ThreadGetArgsKept, ThreadStartKept, ThreadPostStartedKept
  DEF StartStep, ThreadGetArgs, ThreadStart, ThreadPostStarted, Lived
<1>7. ASSUME NEW h \in Handles, EndStep(h) \/ ThreadReturn(h) \/ ThreadCancelled(h) PROVE Lived
  BY <1>7, ThreadDestroyKept, ThreadExitKept, ThreadReturnKept, ThreadCancelledKept
  DEF EndStep, ThreadDestroy, ThreadExit, ThreadReturn, ThreadCancelled, Lived
<1>8. CASE UNCHANGED vars
  <2>1. KeptInv' /\ creates' = creates
    BY <1>8 DEF KeptInv, vars, lib_vars, arg_vars
  <2>2. ASSUME NEW h \in Handles PROVE HandleLife(h)
    <3>1. KeptAt(h)' = KeptAt(h)
      BY <1>8 DEF KeptAt, vars, lib_vars, arg_vars
    <3>. QED
      BY <1>8, <3>1, Lives DEF HandleLife, vars, lib_vars
  <2>. QED
    BY <1>1, <2>1, <2>2 DEF Lived
<1>. QED
  BY <1>1, <1>2, <1>3, <1>4, <1>5, <1>6, <1>7, <1>8 DEF Next, Terminated

LEMMA KeptInitInv == Init => KeptInv
  BY DEF Init, ArgRetvalInit, KeptInv

-----------------------------------------------------------------------------
(***************************************************************************)
(* The CHECKs of ThreadArgRetval hold.                                     *)
(***************************************************************************)
\* CreateLocked comes before GetArgs: the mutex is held from the real
\* pthread_create on.
LEMMA ThreadGetArgsChecked ==
  ASSUME TypeOK, StructInv, ArgInv, NEW h \in Handles, ThreadGetArgs(h)
  PROVE  UNCHANGED check_failed
<1>1. lib[h] = "started" /\ args_owner = Nobody /\ creator[h] \in Callers
  BY DEF ThreadGetArgs, ChildAt, Locked, TypeOK
<1>2. op[creator[h]].step # "create_locked"
  BY <1>1, XsanPthreadAssumption DEF StructInv, LockInv, Callers
<1>3. h \in DOMAIN data_
  BY <1>1, <1>2 DEF ArgInv, EntryInv, Entered, EndedStates
<1>. QED
  BY <1>3 DEF ThreadGetArgs, GetArgsCheck

LEMMA JoinBeforeChecked ==
  ASSUME TypeOK, StructInv, ArgInv, NEW c \in Callers, JoinBefore(c)
  PROVE  UNCHANGED check_failed
<1>1. op[c].step \in HoldingSteps
  BY DEF JoinBefore, At, HoldingSteps
<1>2. /\ op[c].h \in Handles
      /\ lib[op[c].h] \in StartedStates /\ ~lib_detached[op[c].h]
  BY <1>1 DEF StructInv, ReapInv, ReapSteps
<1>3. op[c].h \in DOMAIN data_ /\ ~data_[op[c].h].detached
  BY <1>2 DEF ArgInv, EntryInv, Entered, StartedStates
<1>. QED
  BY <1>3 DEF JoinBefore, BeforeJoinCheck

\* An entry with the generation of the join is that of the thread joined.
LEMMA JoinAfterChecked ==
  ASSUME TypeOK, StructInv, ArgInv, NEW c \in Callers, JoinAfter(c)
  PROVE  UNCHANGED check_failed
<1>1. op[c].step = "after_join"
  BY DEF JoinAfter, At
<1>2. op[c].gen + 1 = op[c].serial
  BY <1>1 DEF ArgInv, OpArgInv
<1>3. op[c].h \in DOMAIN data_ /\ op[c].gen = data_[op[c].h].gen =>
         ~data_[op[c].h].detached
  BY <1>1, <1>2 DEF ArgInv, GenInv, OpArgInv
<1>. QED
  BY <1>3 DEF JoinAfter, AfterJoinCheck

LEMMA PthreadDetachLockedChecked ==
  ASSUME TypeOK, StructInv, ArgInv, NEW c \in Callers, PthreadDetachLocked(c)
  PROVE  UNCHANGED check_failed
<1>1. op[c].h \in DOMAIN data_ /\ ~data_[op[c].h].detached
  BY DEF PthreadDetachLocked, At, ArgInv, OpArgInv
<1>. QED
  BY <1>1 DEF PthreadDetachLocked, DetachLockedCheck

-----------------------------------------------------------------------------
(***************************************************************************)
(* The registry and the threads: the invariant that ties them, and the     *)
(* theorems.                                                               *)
(***************************************************************************)

\* The registry has a context for the thread.
Registered(h) ==
  lib[h] # "none" /\ (lib[h] \in StartingStates => op[creator[h]].step = "wait_started")

\* The context t stands for the n-th thread created.
ContextOf(t, n) == t \in DOMAIN threads_ /\ threads_[t].serial = n

\* Each context stands for another thread, and a thread that is being created has
\* none yet: so there are no more contexts than threads created, and one.
SerialsInv ==
  /\ \A t \in DOMAIN threads_ : threads_[t].serial \in 0 .. creates
  /\ \A s, t \in DOMAIN threads_ : s # t => threads_[s].serial # threads_[t].serial
  /\ \A c \in Callers : op[c].step \in OpenSteps =>
       \A t \in DOMAIN threads_ : threads_[t].serial # op[c].serial

\* A thread keeps its context until it ends, and one that nobody detached even
\* after.
HandleTidInv(h) ==
  LET c == threads_[tid_[h]] IN
  /\ Registered(h) /\ lib[h] \notin {"destroyed", "zombie"} =>
       /\ ContextOf(tid_[h], serial[h])
       /\ c.status = IF lib[h] \in {"started", "got_args"} THEN "Created" ELSE "Running"
       /\ c.detached => lib_detached[h]
  /\ lib[h] \in {"destroyed", "zombie"} /\ ~lib_detached[h] =>
       /\ ContextOf(tid_[h], serial[h])
       /\ c.status = "Finished"
       /\ ~c.detached

\* The context a join or detach has taken stays until that is over.
OpTidInv(c) ==
  LET o == op[c] IN
  o.step \in ReapSteps =>
    /\ ContextOf(o.tid, o.serial)
    /\ threads_[o.tid].status \in {"Running", "Finished"}
    /\ ~threads_[o.tid].detached
    /\ threads_[o.tid].user_id = NoHandle
    /\ o.step \in JoinedSteps => threads_[o.tid].status = "Finished"
    /\ \A h \in Handles : lib[h] # "none" /\ serial[h] = o.serial => tid_[h] = o.tid

\* A user id belongs to the thread that has it now.
LiveInv ==
  /\ joinable \subseteq DOMAIN live_
  /\ \A h \in Handles : Registered(h) /\ lib[h] \in StartingStates => h \in DOMAIN live_
  /\ \A u \in DOMAIN live_ :
       /\ Registered(u) /\ live_[u] = tid_[u] /\ ContextOf(tid_[u], serial[u])
       /\ lib_detached[u] => threads_[tid_[u]].detached /\ lib[u] # "destroyed"

TidInv ==
  /\ RegistryInv /\ ~check_failed
  /\ SerialsInv
  /\ \A h \in Handles : HandleTidInv(h)
  /\ \A c \in Callers : OpTidInv(c)
  /\ LiveInv

-----------------------------------------------------------------------------
(***************************************************************************)
(* TidInv is inductive: one lemma per action, first those that leave the   *)
(* registry alone.                                                         *)
(***************************************************************************)
LEMMA RegistryUnchanged ==
  ASSUME RegistryInv, UNCHANGED <<registry_vars, check_failed>>
  PROVE  RegistryInv'
  BY DEF registry_vars, RegistryInv, RegistryTypeOK, QueuesInv, HoldsOnce, UsersInv,
     CountersInv, AliveTids, RunningTids, MainInv

\* While a thread is being created there is room in the registry for it.
LEMMA FewContexts ==
  ASSUME TypeOK, StructInv, TidInv, NEW c \in Callers, op[c].step \in OpenSteps
  PROVE  Len(threads_) <= creates
<1>. DEFINE n == op[c].serial
            rest == (0 .. creates) \ {n}
            f == [t \in 1 .. Len(threads_) |-> threads_[t].serial]
<1>1. Len(threads_) \in Nat /\ DOMAIN threads_ = 1 .. Len(threads_)
  BY ThreadsDomain DEF TidInv, RegistryInv
<1>2. creates \in Nat /\ n \in 0 .. creates
  BY DEF TypeOK, StructInv, CreateInv, ThreadInv
<1>3. f \in [1 .. Len(threads_) -> rest]
  BY <1>1 DEF TidInv, SerialsInv
<1>4. \A s, t \in 1 .. Len(threads_) : s # t => f[s] # f[t]
  BY <1>1 DEF TidInv, SerialsInv
<1>5. IsFiniteSet(rest) /\ Cardinality(rest) = creates
  <2>1. IsFiniteSet(0 .. creates) /\ Cardinality(0 .. creates) = creates + 1
    <3>1. 0 \in Int /\ creates \in Int
      BY <1>2
    <3>2. /\ IsFiniteSet(0 .. creates)
          /\ Cardinality(0 .. creates) = IF 0 > creates THEN 0 ELSE creates - 0 + 1
      BY <3>1, FS_Interval, Zenon
    <3>. QED
      BY <1>2, <3>2
  <2>2. /\ IsFiniteSet(rest)
        /\ Cardinality(rest) = IF n \in 0 .. creates THEN Cardinality(0 .. creates) - 1
                               ELSE Cardinality(0 .. creates)
    BY <2>1, FS_RemoveElement, Zenon
  <2>. QED
    BY <1>2, <2>1, <2>2
<1>. HIDE DEF f, rest
<1>6. IsFiniteSet(1 .. Len(threads_)) /\ Cardinality(1 .. Len(threads_)) = Len(threads_)
  <2>1. 1 \in Int /\ Len(threads_) \in Int
    BY <1>1
  <2>2. /\ IsFiniteSet(1 .. Len(threads_))
        /\ Cardinality(1 .. Len(threads_)) =
             IF 1 > Len(threads_) THEN 0 ELSE Len(threads_) - 1 + 1
    BY <2>1, FS_Interval, Zenon
  <2>. QED
    BY <1>1, <2>2
<1>7. ~(Cardinality(rest) < Cardinality(1 .. Len(threads_)))
  BY <1>3, <1>4, <1>5, <1>6, FS_PigeonHole
<1>. QED
  BY <1>1, <1>2, <1>5, <1>6, <1>7

LEMMA RealPthreadCreateTid ==
  ASSUME TypeOK, StructInv, TidInv, NEW c \in Callers, NEW h \in Handles,
         NEW det \in BOOLEAN,
         RealPthreadCreate(c, h, det)
  PROVE  TidInv'
<1>1. /\ op[c].step = "idle" /\ lib[h] = "none"
      /\ creates' = creates + 1
      /\ UNCHANGED <<tid_, joinable>> /\ UNCHANGED <<registry_vars, check_failed>>
  BY DEF RealPthreadCreate, InUserCode, UnchangedRegistry
<1>2. /\ lib'[h] = "started" /\ serial'[h] = creates + 1 /\ creator'[h] = c
      /\ \A k \in Handles \ {h} :
           /\ lib'[k] = lib[k] /\ lib_detached'[k] = lib_detached[k]
           /\ serial'[k] = serial[k] /\ creator'[k] = creator[k]
  BY DEF RealPthreadCreate, TypeOK
<1>3. /\ op'[c].step = "create_locked" /\ op'[c].serial = creates + 1
      /\ \A d \in Callers \ {c} : op'[d] = op[d]
  BY DEF RealPthreadCreate, TypeOK, Idle
<1>4. RegistryInv' /\ ~check_failed'
  BY <1>1, <1>2, <1>3, TypeFacts, RegistryUnchanged DEF TidInv
<1>5. SerialsInv'
  BY <1>1, <1>2, <1>3, TypeFacts
  DEF TidInv, SerialsInv, OpenSteps, registry_vars
<1>6. ASSUME NEW k \in Handles PROVE HandleTidInv(k)'
  BY <1>1, <1>2, <1>3, TypeFacts
  DEF TidInv, HandleTidInv, Registered, ContextOf, OpTidInv, StructInv, CreateInv,
      ReapInv, ThreadInv, UniqueInv, ReapSteps, HoldingSteps, JoinedSteps,
      DetachedSteps, StartedStates, StartingStates, OpenSteps, registry_vars
<1>7. ASSUME NEW d \in Callers PROVE OpTidInv(d)'
  BY <1>1, <1>2, <1>3, TypeFacts
  DEF TidInv, OpTidInv, HandleTidInv, ContextOf, StructInv, CreateInv, ReapInv,
      UniqueInv, ReapSteps, HoldingSteps, JoinedSteps, DetachedSteps, StartedStates,
      OpenSteps, registry_vars
<1>8. LiveInv'
  BY <1>1, <1>2, <1>3, TypeFacts
  DEF TidInv, LiveInv, Registered, HandleTidInv, OpTidInv, ContextOf, RegistryInv,
      UsersInv, StructInv, CreateInv, ReapInv, ThreadInv, JoinableInv, UniqueInv,
      ReapSteps, HoldingSteps, JoinedSteps, DetachedSteps, StartedStates,
      StartingStates, OpenSteps, registry_vars
<1>. QED
  BY <1>4, <1>5, <1>6, <1>7, <1>8 DEF TidInv

LEMMA PthreadCreateLockedTid ==
  ASSUME TypeOK, StructInv, TidInv, NEW c \in Callers, PthreadCreateLocked(c)
  PROVE  TidInv'
<1>1. op[c].step = "create_locked" /\ Goto(c, "create_thread") /\ joinable' = joinable
      /\ UNCHANGED <<lib, lib_detached, serial, creator, tid_, creates>>
      /\ UNCHANGED <<registry_vars, check_failed>>
  BY DEF PthreadCreateLocked, At, lib_vars, UnchangedRegistry
<1>2. op'[c].step = "create_thread" /\ SameCall(op'[c], op[c])
      /\ \A d \in Callers \ {c} : op'[d] = op[d]
  BY <1>1, GotoEffect DEF Steps
<1>3. RegistryInv' /\ ~check_failed'
  BY <1>1, <1>2, TypeFacts, RegistryUnchanged DEF TidInv
<1>4. SerialsInv'
  BY <1>1, <1>2, TypeFacts
  DEF TidInv, SerialsInv, OpenSteps, registry_vars, SameCall
<1>5. ASSUME NEW k \in Handles PROVE HandleTidInv(k)'
  BY <1>1, <1>2, TypeFacts
  DEF TidInv, HandleTidInv, Registered, ContextOf, OpTidInv, StructInv, CreateInv,
      ReapInv, ThreadInv, UniqueInv, ReapSteps, HoldingSteps, JoinedSteps,
      DetachedSteps, StartedStates, StartingStates, OpenSteps, registry_vars, SameCall
<1>6. ASSUME NEW d \in Callers PROVE OpTidInv(d)'
  BY <1>1, <1>2, TypeFacts
  DEF TidInv, OpTidInv, HandleTidInv, ContextOf, StructInv, CreateInv, ReapInv,
      UniqueInv, ReapSteps, HoldingSteps, JoinedSteps, DetachedSteps, StartedStates,
      OpenSteps, registry_vars, SameCall
<1>7. LiveInv'
  BY <1>1, <1>2, TypeFacts
  DEF TidInv, LiveInv, Registered, HandleTidInv, OpTidInv, ContextOf, RegistryInv,
      UsersInv, StructInv, CreateInv, ReapInv, ThreadInv, JoinableInv, UniqueInv,
      ReapSteps, HoldingSteps, JoinedSteps, DetachedSteps, StartedStates,
      StartingStates, OpenSteps, registry_vars, SameCall
<1>. QED
  BY <1>3, <1>4, <1>5, <1>6, <1>7 DEF TidInv

LEMMA PthreadCreateReturnTid ==
  ASSUME TypeOK, StructInv, TidInv, NEW c \in Callers, PthreadCreateReturn(c)
  PROVE  TidInv'
<1>1. op[c].step = "wait_started" /\ op[c].started /\ Return(c) /\ joinable' = joinable
      /\ UNCHANGED <<lib, lib_detached, serial, creator, tid_, creates>>
      /\ UNCHANGED <<registry_vars, check_failed>>
  BY DEF PthreadCreateReturn, At, lib_vars, UnchangedRegistry
<1>2. op'[c].step = "idle" /\ \A d \in Callers \ {c} : op'[d] = op[d]
  BY <1>1, ReturnEffect
<1>3. RegistryInv' /\ ~check_failed'
  BY <1>1, <1>2, TypeFacts, RegistryUnchanged DEF TidInv
<1>4. SerialsInv'
  BY <1>1, <1>2, TypeFacts
  DEF TidInv, SerialsInv, OpenSteps, registry_vars
<1>5. ASSUME NEW k \in Handles PROVE HandleTidInv(k)'
  BY <1>1, <1>2, TypeFacts
  DEF TidInv, HandleTidInv, Registered, ContextOf, OpTidInv, StructInv, CreateInv,
      ReapInv, ThreadInv, UniqueInv, ReapSteps, HoldingSteps, JoinedSteps,
      DetachedSteps, StartedStates, StartingStates, OpenSteps, registry_vars
<1>6. ASSUME NEW d \in Callers PROVE OpTidInv(d)'
  BY <1>1, <1>2, TypeFacts
  DEF TidInv, OpTidInv, HandleTidInv, ContextOf, StructInv, CreateInv, ReapInv,
      UniqueInv, ReapSteps, HoldingSteps, JoinedSteps, DetachedSteps, StartedStates,
      OpenSteps, registry_vars
<1>7. LiveInv'
  BY <1>1, <1>2, TypeFacts
  DEF TidInv, LiveInv, Registered, HandleTidInv, OpTidInv, ContextOf, RegistryInv,
      UsersInv, StructInv, CreateInv, ReapInv, ThreadInv, JoinableInv, UniqueInv,
      ReapSteps, HoldingSteps, JoinedSteps, DetachedSteps, StartedStates,
      StartingStates, OpenSteps, registry_vars
<1>. QED
  BY <1>3, <1>4, <1>5, <1>6, <1>7 DEF TidInv

LEMMA RealTryJoinFailsTid ==
  ASSUME TypeOK, StructInv, TidInv, NEW c \in Callers, RealTryJoinFails(c)
  PROVE  TidInv'
<1>1. op[c].step = "real_join" /\ Goto(c, "not_joined") /\ joinable' = joinable
      /\ UNCHANGED <<lib, lib_detached, serial, creator, tid_, creates>>
      /\ UNCHANGED <<registry_vars, check_failed>>
  BY DEF RealTryJoinFails, At, lib_vars, UnchangedRegistry
<1>2. op'[c].step = "not_joined" /\ SameCall(op'[c], op[c])
      /\ \A d \in Callers \ {c} : op'[d] = op[d]
  BY <1>1, GotoEffect DEF Steps
<1>3. RegistryInv' /\ ~check_failed'
  BY <1>1, <1>2, TypeFacts, RegistryUnchanged DEF TidInv
<1>4. SerialsInv'
  BY <1>1, <1>2, TypeFacts
  DEF TidInv, SerialsInv, OpenSteps, registry_vars, SameCall
<1>5. ASSUME NEW k \in Handles PROVE HandleTidInv(k)'
  BY <1>1, <1>2, TypeFacts
  DEF TidInv, HandleTidInv, Registered, ContextOf, OpTidInv, StructInv, CreateInv,
      ReapInv, ThreadInv, UniqueInv, ReapSteps, HoldingSteps, JoinedSteps,
      DetachedSteps, StartedStates, StartingStates, OpenSteps, registry_vars, SameCall
<1>6. ASSUME NEW d \in Callers PROVE OpTidInv(d)'
  BY <1>1, <1>2, TypeFacts
  DEF TidInv, OpTidInv, HandleTidInv, ContextOf, StructInv, CreateInv, ReapInv,
      UniqueInv, ReapSteps, HoldingSteps, JoinedSteps, DetachedSteps, StartedStates,
      OpenSteps, registry_vars, SameCall
<1>7. LiveInv'
  BY <1>1, <1>2, TypeFacts
  DEF TidInv, LiveInv, Registered, HandleTidInv, OpTidInv, ContextOf, RegistryInv,
      UsersInv, StructInv, CreateInv, ReapInv, ThreadInv, JoinableInv, UniqueInv,
      ReapSteps, HoldingSteps, JoinedSteps, DetachedSteps, StartedStates,
      StartingStates, OpenSteps, registry_vars, SameCall
<1>. QED
  BY <1>3, <1>4, <1>5, <1>6, <1>7 DEF TidInv

LEMMA JoinBeforeTid ==
  ASSUME TypeOK, StructInv, TidInv, ArgInv, NEW c \in Callers, JoinBefore(c)
  PROVE  TidInv'
<1>1. op[c].step = "before_join" /\ joinable' = joinable /\ UNCHANGED registry_vars
      /\ UNCHANGED <<lib, lib_detached, serial, creator, tid_, creates>>
  BY DEF JoinBefore, At, lib_vars
<1>2. UNCHANGED check_failed
  BY JoinBeforeChecked
<1>3. /\ op'[c].step \in {"before_join", "real_join"}
      /\ op'[c].h = op[c].h /\ op'[c].serial = op[c].serial /\ op'[c].tid = op[c].tid
      /\ \A d \in Callers \ {c} : op'[d] = op[d]
  BY <1>1 DEF JoinBefore, TypeOK, Operations
<1>4. RegistryInv' /\ ~check_failed'
  BY <1>1, <1>2, <1>3, TypeFacts, RegistryUnchanged DEF TidInv
<1>5. SerialsInv'
  BY <1>1, <1>2, <1>3, TypeFacts
  DEF TidInv, SerialsInv, OpenSteps, registry_vars
<1>6. ASSUME NEW k \in Handles PROVE HandleTidInv(k)'
  BY <1>1, <1>2, <1>3, TypeFacts
  DEF TidInv, HandleTidInv, Registered, ContextOf, OpTidInv, StructInv, CreateInv,
      ReapInv, ThreadInv, UniqueInv, ReapSteps, HoldingSteps, JoinedSteps,
      DetachedSteps, StartedStates, StartingStates, OpenSteps, registry_vars
<1>7. ASSUME NEW d \in Callers PROVE OpTidInv(d)'
  BY <1>1, <1>2, <1>3, TypeFacts
  DEF TidInv, OpTidInv, HandleTidInv, ContextOf, StructInv, CreateInv, ReapInv,
      UniqueInv, ReapSteps, HoldingSteps, JoinedSteps, DetachedSteps, StartedStates,
      OpenSteps, registry_vars
<1>8. LiveInv'
  BY <1>1, <1>2, <1>3, TypeFacts
  DEF TidInv, LiveInv, Registered, HandleTidInv, OpTidInv, ContextOf, RegistryInv,
      UsersInv, StructInv, CreateInv, ReapInv, ThreadInv, JoinableInv, UniqueInv,
      ReapSteps, HoldingSteps, JoinedSteps, DetachedSteps, StartedStates,
      StartingStates, OpenSteps, registry_vars
<1>. QED
  BY <1>4, <1>5, <1>6, <1>7, <1>8 DEF TidInv

\* The thread joined has no user id, so its pthread_t is not in live_.
LEMMA RealJoinTid ==
  ASSUME TypeOK, StructInv, TidInv, NEW c \in Callers, RealJoin(c)
  PROVE  TidInv'
<1>1. op[c].step = "real_join" /\ lib[op[c].h] = "zombie"
      /\ Goto(c, "after_join") /\ ChildGoto(op[c].h, "none")
      /\ UNCHANGED <<tid_, joinable, creates>> /\ UNCHANGED <<registry_vars, check_failed>>
  BY DEF RealJoin, At, UnchangedRegistry
<1>2. op'[c].step = "after_join" /\ SameCall(op'[c], op[c])
      /\ \A d \in Callers \ {c} : op'[d] = op[d]
  BY <1>1, GotoEffect DEF Steps
<1>3. op[c].h \in Handles
  BY <1>1 DEF StructInv, ReapInv, ReapSteps, HoldingSteps
<1>4. lib'[op[c].h] = "none" /\ UNCHANGED <<lib_detached, serial, creator>>
      /\ \A k \in Handles \ {op[c].h} : lib'[k] = lib[k]
  BY <1>1, <1>3, ChildGotoEffect DEF LibStates
<1>5. RegistryInv' /\ ~check_failed'
  BY <1>1, <1>2, <1>3, <1>4, TypeFacts, RegistryUnchanged DEF TidInv
<1>6. SerialsInv'
  BY <1>1, <1>2, <1>3, <1>4, TypeFacts
  DEF TidInv, SerialsInv, OpenSteps, registry_vars, SameCall
<1>7. ASSUME NEW k \in Handles PROVE HandleTidInv(k)'
  BY <1>1, <1>2, <1>3, <1>4, TypeFacts
  DEF TidInv, HandleTidInv, Registered, ContextOf, OpTidInv, StructInv, CreateInv,
      ReapInv, ThreadInv, UniqueInv, ReapSteps, HoldingSteps, JoinedSteps,
      DetachedSteps, StartedStates, StartingStates, OpenSteps, registry_vars, SameCall
<1>8. ASSUME NEW d \in Callers PROVE OpTidInv(d)'
  BY <1>1, <1>2, <1>4
  DEF TidInv, OpTidInv, HandleTidInv, ContextOf, StructInv, ReapInv, ReapSteps,
      HoldingSteps, registry_vars, SameCall
<1>9. LiveInv'
  BY <1>1, <1>2, <1>4, TypeFacts
  DEF TidInv, LiveInv, Registered, HandleTidInv, OpTidInv, ContextOf, RegistryInv,
      UsersInv, StructInv, ReapInv, ReapSteps, HoldingSteps, registry_vars
<1>. QED
  BY <1>5, <1>6, <1>7, <1>8, <1>9 DEF TidInv

LEMMA JoinAfterTid ==
  ASSUME TypeOK, StructInv, TidInv, ArgInv, NEW c \in Callers, JoinAfter(c)
  PROVE  TidInv'
<1>1. op[c].step = "after_join" /\ Goto(c, "join_thread") /\ joinable' = joinable
      /\ UNCHANGED registry_vars /\ UNCHANGED <<lib, lib_detached, serial, creator, tid_, creates>>
  BY DEF JoinAfter, At, lib_vars
<1>2. UNCHANGED check_failed
  BY JoinAfterChecked
<1>3. op'[c].step = "join_thread" /\ SameCall(op'[c], op[c])
      /\ \A d \in Callers \ {c} : op'[d] = op[d]
  BY <1>1, GotoEffect DEF Steps
<1>4. RegistryInv' /\ ~check_failed'
  BY <1>1, <1>2, <1>3, TypeFacts, RegistryUnchanged DEF TidInv
<1>5. SerialsInv'
  BY <1>1, <1>2, <1>3, TypeFacts
  DEF TidInv, SerialsInv, OpenSteps, registry_vars, SameCall
<1>6. ASSUME NEW k \in Handles PROVE HandleTidInv(k)'
  BY <1>1, <1>2, <1>3, TypeFacts
  DEF TidInv, HandleTidInv, Registered, ContextOf, OpTidInv, StructInv, CreateInv,
      ReapInv, ThreadInv, UniqueInv, ReapSteps, HoldingSteps, JoinedSteps,
      DetachedSteps, StartedStates, StartingStates, OpenSteps, registry_vars, SameCall
<1>7. ASSUME NEW d \in Callers PROVE OpTidInv(d)'
  BY <1>1, <1>2, <1>3, TypeFacts
  DEF TidInv, OpTidInv, HandleTidInv, ContextOf, StructInv, CreateInv, ReapInv,
      UniqueInv, ReapSteps, HoldingSteps, JoinedSteps, DetachedSteps, StartedStates,
      OpenSteps, registry_vars, SameCall
<1>8. LiveInv'
  BY <1>1, <1>3, TypeFacts DEF TidInv, LiveInv, Registered, ContextOf, registry_vars
<1>. QED
  BY <1>4, <1>5, <1>6, <1>7, <1>8 DEF TidInv

LEMMA RealJoinFailsTid ==
  ASSUME TypeOK, StructInv, TidInv, RetriesJoin = FALSE, NEW c \in Callers,
         RealJoinFails(c)
  PROVE  TidInv'
<1>1. op[c].step = "real_join" /\ Return(c) /\ joinable' = joinable
      /\ UNCHANGED <<lib, lib_detached, serial, creator, tid_, creates>>
      /\ UNCHANGED <<registry_vars, check_failed>>
  BY DEF RealJoinFails, At, lib_vars, UnchangedRegistry
<1>2. op'[c].step = "idle" /\ \A d \in Callers \ {c} : op'[d] = op[d]
  BY <1>1, ReturnEffect
<1>3. RegistryInv' /\ ~check_failed'
  BY <1>1, <1>2, TypeFacts, RegistryUnchanged DEF TidInv
<1>4. SerialsInv'
  BY <1>1, <1>2, TypeFacts
  DEF TidInv, SerialsInv, OpenSteps, registry_vars
<1>5. ASSUME NEW k \in Handles PROVE HandleTidInv(k)'
  BY <1>1, <1>2, TypeFacts
  DEF TidInv, HandleTidInv, Registered, ContextOf, OpTidInv, StructInv, CreateInv,
      ReapInv, ThreadInv, UniqueInv, ReapSteps, HoldingSteps, JoinedSteps,
      DetachedSteps, StartedStates, StartingStates, OpenSteps, registry_vars
<1>6. ASSUME NEW d \in Callers PROVE OpTidInv(d)'
  BY <1>1, <1>2, TypeFacts
  DEF TidInv, OpTidInv, HandleTidInv, ContextOf, StructInv, CreateInv, ReapInv,
      UniqueInv, ReapSteps, HoldingSteps, JoinedSteps, DetachedSteps, StartedStates,
      OpenSteps, registry_vars
<1>7. LiveInv'
  BY <1>1, <1>2, TypeFacts
  DEF TidInv, LiveInv, Registered, HandleTidInv, OpTidInv, ContextOf, RegistryInv,
      UsersInv, StructInv, CreateInv, ReapInv, ThreadInv, JoinableInv, UniqueInv,
      ReapSteps, HoldingSteps, JoinedSteps, DetachedSteps, StartedStates,
      StartingStates, OpenSteps, registry_vars
<1>. QED
  BY <1>3, <1>4, <1>5, <1>6, <1>7 DEF TidInv

LEMMA RealDetachTid ==
  ASSUME TypeOK, StructInv, TidInv, NEW c \in Callers, RealDetach(c)
  PROVE  TidInv'
<1>1. op[c].step = "real_detach" /\ Goto(c, "detach_locked")
      /\ UNCHANGED <<serial, tid_, creator, joinable, creates>>
      /\ UNCHANGED <<registry_vars, check_failed>>
  BY DEF RealDetach, At, Lock, UnchangedRegistry
<1>2. op'[c].step = "detach_locked" /\ SameCall(op'[c], op[c])
      /\ \A d \in Callers \ {c} : op'[d] = op[d]
  BY <1>1, GotoEffect DEF Steps
<1>3. op[c].h \in Handles
  BY <1>1 DEF StructInv, ReapInv, ReapSteps, HoldingSteps
<1>4. /\ lib_detached'[op[c].h] = TRUE
      /\ lib'[op[c].h] = IF lib[op[c].h] = "zombie" THEN "none" ELSE lib[op[c].h]
      /\ \A k \in Handles \ {op[c].h} :
           lib'[k] = lib[k] /\ lib_detached'[k] = lib_detached[k]
  BY <1>3 DEF RealDetach, TypeOK
<1>5. RegistryInv' /\ ~check_failed'
  BY <1>1, <1>2, <1>3, <1>4, TypeFacts, RegistryUnchanged DEF TidInv
<1>6. SerialsInv'
  BY <1>1, <1>2, <1>3, <1>4, TypeFacts
  DEF TidInv, SerialsInv, OpenSteps, registry_vars, SameCall
<1>7. ASSUME NEW k \in Handles PROVE HandleTidInv(k)'
  BY <1>1, <1>2, <1>3, <1>4, TypeFacts
  DEF TidInv, HandleTidInv, Registered, ContextOf, OpTidInv, StructInv, CreateInv,
      ReapInv, ThreadInv, UniqueInv, ReapSteps, HoldingSteps, JoinedSteps,
      DetachedSteps, StartedStates, StartingStates, OpenSteps, registry_vars, SameCall
<1>8. ASSUME NEW d \in Callers PROVE OpTidInv(d)'
  BY <1>1, <1>2, <1>3, <1>4, TypeFacts
  DEF TidInv, OpTidInv, HandleTidInv, ContextOf, StructInv, CreateInv, ReapInv,
      UniqueInv, ReapSteps, HoldingSteps, JoinedSteps, DetachedSteps, StartedStates,
      OpenSteps, registry_vars, SameCall
<1>9. LiveInv'
  BY <1>1, <1>2, <1>4, TypeFacts
  DEF TidInv, LiveInv, Registered, OpTidInv, ContextOf, RegistryInv, UsersInv,
      StructInv, ReapInv, ReapSteps, HoldingSteps, registry_vars
<1>. QED
  BY <1>5, <1>6, <1>7, <1>8, <1>9 DEF TidInv

LEMMA PthreadDetachLockedTid ==
  ASSUME TypeOK, StructInv, TidInv, ArgInv, NEW c \in Callers, PthreadDetachLocked(c)
  PROVE  TidInv'
<1>1. op[c].step = "detach_locked" /\ Goto(c, "detach_thread") /\ joinable' = joinable
      /\ UNCHANGED registry_vars /\ UNCHANGED <<lib, lib_detached, serial, creator, tid_, creates>>
  BY DEF PthreadDetachLocked, At, lib_vars
<1>2. UNCHANGED check_failed
  BY PthreadDetachLockedChecked
<1>3. op'[c].step = "detach_thread" /\ SameCall(op'[c], op[c])
      /\ \A d \in Callers \ {c} : op'[d] = op[d]
  BY <1>1, GotoEffect DEF Steps
<1>4. RegistryInv' /\ ~check_failed'
  BY <1>1, <1>2, <1>3, TypeFacts, RegistryUnchanged DEF TidInv
<1>5. SerialsInv'
  BY <1>1, <1>2, <1>3, TypeFacts
  DEF TidInv, SerialsInv, OpenSteps, registry_vars, SameCall
<1>6. ASSUME NEW k \in Handles PROVE HandleTidInv(k)'
  BY <1>1, <1>2, <1>3, TypeFacts
  DEF TidInv, HandleTidInv, Registered, ContextOf, OpTidInv, StructInv, CreateInv,
      ReapInv, ThreadInv, UniqueInv, ReapSteps, HoldingSteps, JoinedSteps,
      DetachedSteps, StartedStates, StartingStates, OpenSteps, registry_vars, SameCall
<1>7. ASSUME NEW d \in Callers PROVE OpTidInv(d)'
  BY <1>1, <1>2, <1>3, TypeFacts
  DEF TidInv, OpTidInv, HandleTidInv, ContextOf, StructInv, CreateInv, ReapInv,
      UniqueInv, ReapSteps, HoldingSteps, JoinedSteps, DetachedSteps, StartedStates,
      OpenSteps, registry_vars, SameCall
<1>8. LiveInv'
  BY <1>1, <1>2, <1>3, TypeFacts
  DEF TidInv, LiveInv, Registered, HandleTidInv, OpTidInv, ContextOf, RegistryInv,
      UsersInv, StructInv, CreateInv, ReapInv, ThreadInv, JoinableInv, UniqueInv,
      ReapSteps, HoldingSteps, JoinedSteps, DetachedSteps, StartedStates,
      StartingStates, OpenSteps, registry_vars, SameCall
<1>. QED
  BY <1>4, <1>5, <1>6, <1>7, <1>8 DEF TidInv

LEMMA ThreadGetArgsTid ==
  ASSUME TypeOK, StructInv, TidInv, ArgInv, NEW h \in Handles, ThreadGetArgs(h)
  PROVE  TidInv'
<1>1. lib[h] = "started" /\ UNCHANGED <<op, tid_, joinable, creates>>
      /\ UNCHANGED <<lib_detached, serial, creator>> /\ UNCHANGED registry_vars
  BY DEF ThreadGetArgs, ChildAt, ChildGoto
<1>2. UNCHANGED check_failed
  BY ThreadGetArgsChecked
<1>3. /\ lib'[h] \in {"started", "got_args"}
      /\ \A k \in Handles \ {h} : lib'[k] = lib[k]
  BY <1>1 DEF ThreadGetArgs, ChildGoto, TypeOK
<1>4. RegistryInv' /\ ~check_failed'
  BY <1>1, <1>2, <1>3, TypeFacts, RegistryUnchanged DEF TidInv
<1>5. SerialsInv'
  BY <1>1, <1>2, <1>3, TypeFacts
  DEF TidInv, SerialsInv, OpenSteps, registry_vars
<1>6. ASSUME NEW k \in Handles PROVE HandleTidInv(k)'
  BY <1>1, <1>2, <1>3, TypeFacts
  DEF TidInv, HandleTidInv, Registered, ContextOf, OpTidInv, StructInv, CreateInv,
      ReapInv, ThreadInv, UniqueInv, ReapSteps, HoldingSteps, JoinedSteps,
      DetachedSteps, StartedStates, StartingStates, OpenSteps, registry_vars
<1>7. ASSUME NEW d \in Callers PROVE OpTidInv(d)'
  BY <1>1, <1>2, <1>3, TypeFacts
  DEF TidInv, OpTidInv, HandleTidInv, ContextOf, StructInv, CreateInv, ReapInv,
      UniqueInv, ReapSteps, HoldingSteps, JoinedSteps, DetachedSteps, StartedStates,
      OpenSteps, registry_vars
<1>8. LiveInv'
  BY <1>1, <1>2, <1>3, TypeFacts
  DEF TidInv, LiveInv, Registered, HandleTidInv, OpTidInv, ContextOf, RegistryInv,
      UsersInv, StructInv, CreateInv, ReapInv, ThreadInv, JoinableInv, UniqueInv,
      ReapSteps, HoldingSteps, JoinedSteps, DetachedSteps, StartedStates,
      StartingStates, OpenSteps, registry_vars
<1>. QED
  BY <1>4, <1>5, <1>6, <1>7, <1>8 DEF TidInv

LEMMA ThreadPostStartedTid ==
  ASSUME TypeOK, StructInv, TidInv, NEW h \in Handles, ThreadPostStarted(h)
  PROVE  TidInv'
<1>1. lib[h] = "thread_started" /\ ChildGoto(h, "running")
      /\ joinable' = (IF lib_detached[h] THEN joinable ELSE joinable \cup {h})
      /\ UNCHANGED <<tid_, creates>> /\ UNCHANGED <<registry_vars, check_failed>>
  BY DEF ThreadPostStarted, ChildAt, UnchangedRegistry
<1>2. /\ lib'[h] = "running" /\ UNCHANGED <<lib_detached, serial, creator>>
      /\ \A k \in Handles \ {h} : lib'[k] = lib[k]
  BY <1>1, ChildGotoEffect DEF LibStates
<1>3. \A d \in Callers : /\ op'[d].step = op[d].step /\ op'[d].h = op[d].h
                        /\ op'[d].serial = op[d].serial /\ op'[d].tid = op[d].tid
  BY DEF ThreadPostStarted, TypeOK, Operations
<1>4. Registered(h)
  BY <1>1 DEF StructInv, ThreadInv, Registered, StartingStates
<1>5. RegistryInv' /\ ~check_failed'
  BY <1>1, <1>2, <1>3, <1>4, TypeFacts, RegistryUnchanged DEF TidInv
<1>6. SerialsInv'
  BY <1>1, <1>2, <1>3, <1>4, TypeFacts
  DEF TidInv, SerialsInv, OpenSteps, registry_vars
<1>7. ASSUME NEW k \in Handles PROVE HandleTidInv(k)'
  BY <1>1, <1>2, <1>3, <1>4, TypeFacts
  DEF TidInv, HandleTidInv, Registered, ContextOf, OpTidInv, StructInv, CreateInv,
      ReapInv, ThreadInv, UniqueInv, ReapSteps, HoldingSteps, JoinedSteps,
      DetachedSteps, StartedStates, StartingStates, OpenSteps, registry_vars
<1>8. ASSUME NEW d \in Callers PROVE OpTidInv(d)'
  BY <1>1, <1>2, <1>3, <1>4, TypeFacts
  DEF TidInv, OpTidInv, HandleTidInv, ContextOf, StructInv, CreateInv, ReapInv,
      UniqueInv, ReapSteps, HoldingSteps, JoinedSteps, DetachedSteps, StartedStates,
      OpenSteps, registry_vars
<1>9. LiveInv'
  BY <1>1, <1>2, <1>3, <1>4, TypeFacts
  DEF TidInv, LiveInv, Registered, HandleTidInv, OpTidInv, ContextOf, RegistryInv,
      UsersInv, StructInv, CreateInv, ReapInv, ThreadInv, JoinableInv, UniqueInv,
      ReapSteps, HoldingSteps, JoinedSteps, DetachedSteps, StartedStates,
      StartingStates, OpenSteps, registry_vars
<1>. QED
  BY <1>5, <1>6, <1>7, <1>8, <1>9 DEF TidInv

LEMMA ThreadReturnTid ==
  ASSUME TypeOK, StructInv, TidInv, NEW h \in Handles, ThreadReturn(h)
  PROVE  TidInv'
<1>1. lib[h] = "running" /\ ChildGoto(h, "finishing") /\ UNCHANGED <<op, tid_, joinable, creates>>
      /\ UNCHANGED <<registry_vars, check_failed>>
  BY DEF ThreadReturn, ChildAt, UnchangedRegistry
<1>2. /\ lib'[h] = "finishing" /\ UNCHANGED <<lib_detached, serial, creator>>
      /\ \A k \in Handles \ {h} : lib'[k] = lib[k]
  BY <1>1, ChildGotoEffect DEF LibStates
<1>3. RegistryInv' /\ ~check_failed'
  BY <1>1, <1>2, TypeFacts, RegistryUnchanged DEF TidInv
<1>4. SerialsInv'
  BY <1>1, <1>2, TypeFacts
  DEF TidInv, SerialsInv, OpenSteps, registry_vars
<1>5. ASSUME NEW k \in Handles PROVE HandleTidInv(k)'
  BY <1>1, <1>2, TypeFacts
  DEF TidInv, HandleTidInv, Registered, ContextOf, OpTidInv, StructInv, CreateInv,
      ReapInv, ThreadInv, UniqueInv, ReapSteps, HoldingSteps, JoinedSteps,
      DetachedSteps, StartedStates, StartingStates, OpenSteps, registry_vars
<1>6. ASSUME NEW d \in Callers PROVE OpTidInv(d)'
  BY <1>1, <1>2, TypeFacts
  DEF TidInv, OpTidInv, HandleTidInv, ContextOf, StructInv, CreateInv, ReapInv,
      UniqueInv, ReapSteps, HoldingSteps, JoinedSteps, DetachedSteps, StartedStates,
      OpenSteps, registry_vars
<1>7. LiveInv'
  BY <1>1, <1>2, TypeFacts
  DEF TidInv, LiveInv, Registered, HandleTidInv, OpTidInv, ContextOf, RegistryInv,
      UsersInv, StructInv, CreateInv, ReapInv, ThreadInv, JoinableInv, UniqueInv,
      ReapSteps, HoldingSteps, JoinedSteps, DetachedSteps, StartedStates,
      StartingStates, OpenSteps, registry_vars
<1>. QED
  BY <1>3, <1>4, <1>5, <1>6, <1>7 DEF TidInv

LEMMA ThreadCancelledTid ==
  ASSUME TypeOK, StructInv, TidInv, NEW h \in Handles, ThreadCancelled(h)
  PROVE  TidInv'
<1>1. lib[h] = "running" /\ ChildGoto(h, "finishing") /\ UNCHANGED <<op, tid_, joinable, creates>>
      /\ UNCHANGED <<registry_vars, check_failed>>
  BY DEF ThreadCancelled, ChildAt, UnchangedRegistry
<1>2. /\ lib'[h] = "finishing" /\ UNCHANGED <<lib_detached, serial, creator>>
      /\ \A k \in Handles \ {h} : lib'[k] = lib[k]
  BY <1>1, ChildGotoEffect DEF LibStates
<1>3. RegistryInv' /\ ~check_failed'
  BY <1>1, <1>2, TypeFacts, RegistryUnchanged DEF TidInv
<1>4. SerialsInv'
  BY <1>1, <1>2, TypeFacts
  DEF TidInv, SerialsInv, OpenSteps, registry_vars
<1>5. ASSUME NEW k \in Handles PROVE HandleTidInv(k)'
  BY <1>1, <1>2, TypeFacts
  DEF TidInv, HandleTidInv, Registered, ContextOf, OpTidInv, StructInv, CreateInv,
      ReapInv, ThreadInv, UniqueInv, ReapSteps, HoldingSteps, JoinedSteps,
      DetachedSteps, StartedStates, StartingStates, OpenSteps, registry_vars
<1>6. ASSUME NEW d \in Callers PROVE OpTidInv(d)'
  BY <1>1, <1>2, TypeFacts
  DEF TidInv, OpTidInv, HandleTidInv, ContextOf, StructInv, CreateInv, ReapInv,
      UniqueInv, ReapSteps, HoldingSteps, JoinedSteps, DetachedSteps, StartedStates,
      OpenSteps, registry_vars
<1>7. LiveInv'
  BY <1>1, <1>2, TypeFacts
  DEF TidInv, LiveInv, Registered, HandleTidInv, OpTidInv, ContextOf, RegistryInv,
      UsersInv, StructInv, CreateInv, ReapInv, ThreadInv, JoinableInv, UniqueInv,
      ReapSteps, HoldingSteps, JoinedSteps, DetachedSteps, StartedStates,
      StartingStates, OpenSteps, registry_vars
<1>. QED
  BY <1>3, <1>4, <1>5, <1>6, <1>7 DEF TidInv

LEMMA ThreadExitTid ==
  ASSUME TypeOK, StructInv, TidInv, NEW h \in Handles, ThreadExit(h)
  PROVE  TidInv'
<1>1. lib[h] = "destroyed" /\ UNCHANGED <<op, tid_, joinable, creates>>
      /\ UNCHANGED <<lib_detached, serial, creator>> /\ UNCHANGED <<registry_vars, check_failed>>
  BY DEF ThreadExit, ChildAt, ChildGoto, UnchangedRegistry
<1>2. /\ lib'[h] = IF lib_detached[h] THEN "none" ELSE "zombie"
      /\ \A k \in Handles \ {h} : lib'[k] = lib[k]
  BY DEF ThreadExit, ChildGoto, TypeOK
<1>3. RegistryInv' /\ ~check_failed'
  BY <1>1, <1>2, TypeFacts, RegistryUnchanged DEF TidInv
<1>4. SerialsInv'
  BY <1>1, <1>2, TypeFacts
  DEF TidInv, SerialsInv, OpenSteps, registry_vars
<1>5. ASSUME NEW k \in Handles PROVE HandleTidInv(k)'
  BY <1>1, <1>2, TypeFacts
  DEF TidInv, HandleTidInv, Registered, ContextOf, OpTidInv, StructInv, CreateInv,
      ReapInv, ThreadInv, UniqueInv, ReapSteps, HoldingSteps, JoinedSteps,
      DetachedSteps, StartedStates, StartingStates, OpenSteps, registry_vars
<1>6. ASSUME NEW d \in Callers PROVE OpTidInv(d)'
  BY <1>1, <1>2, TypeFacts
  DEF TidInv, OpTidInv, HandleTidInv, ContextOf, StructInv, CreateInv, ReapInv,
      UniqueInv, ReapSteps, HoldingSteps, JoinedSteps, DetachedSteps, StartedStates,
      OpenSteps, registry_vars
<1>7. LiveInv'
  BY <1>1, <1>2, TypeFacts
  DEF TidInv, LiveInv, Registered, HandleTidInv, OpTidInv, ContextOf, RegistryInv,
      UsersInv, StructInv, CreateInv, ReapInv, ThreadInv, JoinableInv, UniqueInv,
      ReapSteps, HoldingSteps, JoinedSteps, DetachedSteps, StartedStates,
      StartingStates, OpenSteps, registry_vars
<1>. QED
  BY <1>3, <1>4, <1>5, <1>6, <1>7 DEF TidInv

-----------------------------------------------------------------------------
(***************************************************************************)
(* The actions that change the registry.                                   *)
(***************************************************************************)
KeptContext(t) == t \in DOMAIN threads_' /\ threads_'[t] = threads_[t]

\* A thread that the step is not about.
LEMMA HandleFrame ==
  ASSUME NEW h \in Handles, HandleTidInv(h), Registered(h)' => Registered(h),
         lib'[h] = lib[h], lib_detached'[h] = lib_detached[h],
         serial'[h] = serial[h], tid_'[h] = tid_[h],
         lib[h] # "none" /\ ContextOf(tid_[h], serial[h]) /\ InUse(threads_[tid_[h]]) =>
           KeptContext(tid_[h])
  PROVE  HandleTidInv(h)'
  BY DEF HandleTidInv, ContextOf, InUse, KeptContext, Registered

\* A join or detach that the step is not part of.
LEMMA OpFrame ==
  ASSUME NEW c \in Callers, OpTidInv(c), op'[c] = op[c],
         ASSUME op[c].step \in ReapSteps, ContextOf(op[c].tid, op[c].serial),
                InUse(threads_[op[c].tid])
         PROVE  /\ KeptContext(op[c].tid)
                /\ \A h \in Handles :
                     lib'[h] # "none" /\ serial'[h] = op[c].serial =>
                       lib[h] # "none" /\ serial[h] = op[c].serial /\ tid_'[h] = tid_[h]
  PROVE  OpTidInv(c)'
<1>1. CASE op[c].step \in ReapSteps
  <2>1. ContextOf(op[c].tid, op[c].serial) /\ InUse(threads_[op[c].tid])
    BY <1>1 DEF OpTidInv, InUse
  <2>. QED
    BY <1>1, <2>1 DEF OpTidInv, ContextOf, KeptContext
<1>2. CASE op[c].step \notin ReapSteps
  BY <1>2 DEF OpTidInv
<1>. QED
  BY <1>1, <1>2

\* libc has just given the pthread_t out, so no user id in use is the same.
LEMMA XsanThreadCreateTid ==
  ASSUME TypeOK, StructInv, TidInv, MaxCreates < max_threads_,
         NEW c \in Callers, XsanThreadCreate(c)
  PROVE  TidInv'
<1>. DEFINE h == op[c].h
            n == op[c].serial
            b == op[c].flag
<1>1. /\ op[c].step = "create_thread" /\ CreateThread(h, b, n)
      /\ UNCHANGED <<lib, lib_detached, serial, creator, joinable, creates>>
  BY DEF XsanThreadCreate, At
<1>2. /\ op'[c].step = "wait_started" /\ op'[c].h = h /\ op'[c].serial = n
      /\ \A d \in Callers \ {c} : op'[d] = op[d]
  BY DEF XsanThreadCreate, TypeOK, Operations
<1>3. /\ h \in Handles /\ lib[h] \in {"started", "got_args"}
      /\ serial[h] = n /\ creator[h] = c /\ lib_detached[h] = b
      /\ n \in 1 .. creates
  BY <1>1 DEF StructInv, CreateInv, ThreadInv, OpenSteps
<1>4. /\ tid_'[h] = NewTid
      /\ \A k \in Handles \ {h} : tid_'[k] = tid_[k]
  BY <1>3 DEF XsanThreadCreate, TypeOK
<1>5. h \notin DOMAIN live_
  BY <1>1, <1>3 DEF TidInv, LiveInv, Registered, StartingStates
<1>6. Len(threads_) < max_threads_
  <2>1. Len(threads_) <= creates
    BY <1>1, FewContexts DEF OpenSteps
  <2>2. Len(threads_) \in Nat /\ creates <= MaxCreates
    BY ThreadsDomain DEF TidInv, RegistryInv, TypeOK
  <2>. QED
    BY <2>1, <2>2, TypeFacts, ThreadRegistryAssumption, XsanPthreadAssumption
<1>7. /\ b \in BOOLEAN /\ n \in Nat
      /\ h \in Handles \ DOMAIN live_
      /\ RegistryInv
  BY <1>3, <1>5, TypeFacts DEF TypeOK, Operations, TidInv
<1>. HIDE DEF h, n, b
<1>8. /\ RegistryInv' /\ UNCHANGED check_failed
      /\ OnlyTouches(NewTid)
      /\ DOMAIN threads_' = DOMAIN threads_ \cup {NewTid}
      /\ NewTid \in DOMAIN threads_ => ~InUse(threads_[NewTid])
      /\ threads_'[NewTid].status = "Created"
      /\ threads_'[NewTid].detached = b
      /\ threads_'[NewTid].serial = n
      /\ DOMAIN live_' = DOMAIN live_ \cup {h}
      /\ live_'[h] = NewTid
      /\ \A v \in DOMAIN live_ : live_'[v] = live_[v]
  BY <1>1, <1>6, <1>7, CreateThreadEffect
<1>9. /\ \A t \in DOMAIN threads_ : InUse(threads_[t]) => t # NewTid /\ KeptContext(t)
      /\ \A t \in DOMAIN threads_ \ {NewTid} : threads_'[t].serial = threads_[t].serial
  BY <1>8 DEF OnlyTouches, KeptContext
<1>10. \A d \in Callers \ {c} : op[d].step \in OpenSteps => op[d].serial # n
  BY <1>1, <1>3 DEF StructInv, CreateInv, UniqueInv, OpenSteps
<1>11. \A t \in DOMAIN threads_ : threads_[t].serial # n
  BY <1>1 DEF TidInv, SerialsInv, OpenSteps, n
<1>12. ASSUME NEW k \in Handles, k # h, Registered(k)' PROVE Registered(k)
  <2>1. CASE creator[k] = c
    BY <1>1, <1>12, <2>1 DEF Registered, StructInv, ThreadInv, h
  <2>2. CASE creator[k] # c
    BY <1>1, <1>2, <1>12, <2>2, TypeFacts DEF Registered
  <2>. QED
    BY <2>1, <2>2
<1>13. SerialsInv'
  BY <1>1, <1>2, <1>3, <1>8, <1>9, <1>10, <1>11, TypeFacts
  DEF TidInv, SerialsInv, OpenSteps
<1>14. ASSUME NEW k \in Handles PROVE HandleTidInv(k)'
  <2>1. CASE k = h
    BY <1>1, <1>3, <1>4, <1>8, <2>1 DEF HandleTidInv, ContextOf
  <2>2. CASE k # h
    BY <1>1, <1>4, <1>9, <1>12, <2>2, HandleFrame DEF TidInv, ContextOf
  <2>. QED
    BY <2>1, <2>2
<1>15. ASSUME NEW d \in Callers PROVE OpTidInv(d)'
  <2>1. CASE d = c
    BY <1>2, <2>1 DEF OpTidInv, ReapSteps, HoldingSteps, JoinedSteps, DetachedSteps
  <2>2. CASE d # c
    <3>1. OpTidInv(d) /\ op'[d] = op[d]
      BY <1>2, <2>2 DEF TidInv
    <3>2. ASSUME ContextOf(op[d].tid, op[d].serial), InUse(threads_[op[d].tid])
          PROVE  /\ KeptContext(op[d].tid)
                 /\ \A k \in Handles :
                      lib'[k] # "none" /\ serial'[k] = op[d].serial =>
                        lib[k] # "none" /\ serial[k] = op[d].serial /\ tid_'[k] = tid_[k]
      BY <1>1, <1>3, <1>4, <1>9, <1>11, <3>2 DEF ContextOf
    <3>. QED
      BY <3>1, <3>2, OpFrame
  <2>. QED
    BY <2>1, <2>2
<1>16. LiveInv'
  <2>1. joinable' \subseteq DOMAIN live_'
    BY <1>1, <1>8 DEF TidInv, LiveInv
  <2>2. ASSUME NEW k \in Handles, Registered(k)', lib'[k] \in StartingStates
        PROVE  k \in DOMAIN live_'
    BY <1>1, <1>8, <1>12, <2>2 DEF TidInv, LiveInv
  <2>3. ASSUME NEW u \in DOMAIN live_'
        PROVE  /\ Registered(u)' /\ live_'[u] = tid_'[u] /\ ContextOf(tid_[u], serial[u])'
               /\ lib_detached'[u] => threads_'[tid_'[u]].detached /\ lib'[u] # "destroyed"
    <3>1. CASE u = h
      BY <1>1, <1>2, <1>3, <1>4, <1>8, <3>1 DEF Registered, ContextOf
    <3>2. CASE u # h
      <4>1. u \in DOMAIN live_ /\ u \in Handles /\ tid_'[u] = tid_[u] /\ live_'[u] = live_[u]
        BY <1>4, <1>8, <3>2, TypeFacts
      <4>2. /\ Registered(u) /\ live_[u] = tid_[u] /\ ContextOf(tid_[u], serial[u])
            /\ lib_detached[u] => threads_[tid_[u]].detached /\ lib[u] # "destroyed"
            /\ InUse(threads_[tid_[u]])
        BY <4>1, TypeFacts DEF TidInv, LiveInv, RegistryInv, UsersInv, ContextOf
      <4>3. Registered(u)'
        BY <1>1, <1>2, <4>1, <4>2, TypeFacts DEF Registered
      <4>. QED
        BY <1>1, <1>9, <4>1, <4>2, <4>3 DEF ContextOf, KeptContext
    <3>. QED
      BY <3>1, <3>2
  <2>. QED
    BY <2>1, <2>2, <2>3 DEF LiveInv
<1>. QED
  BY <1>8, <1>13, <1>14, <1>15, <1>16 DEF TidInv

\* The child waited for created.Post(), so its context is there.
LEMMA ThreadStartTid ==
  ASSUME TypeOK, StructInv, TidInv, NEW h \in Handles, ThreadStart(h)
  PROVE  TidInv'
<1>. DEFINE t == tid_[h]
<1>1. /\ lib[h] = "got_args" /\ StartThread(t) /\ op[creator[h]].created
      /\ ChildGoto(h, "thread_started")
      /\ UNCHANGED <<op, tid_, joinable, creates>>
  BY DEF ThreadStart, ChildAt
<1>2. /\ lib'[h] = "thread_started" /\ UNCHANGED <<lib_detached, serial, creator>>
      /\ \A k \in Handles \ {h} : lib'[k] = lib[k]
  BY <1>1, ChildGotoEffect DEF LibStates
<1>3. op[creator[h]].step = "wait_started"
  BY <1>1, TypeFacts DEF StructInv, ThreadInv, CreateInv, StartingStates
<1>4. Registered(h) /\ ContextOf(t, serial[h]) /\ threads_[t].status = "Created"
  BY <1>1, <1>3 DEF Registered, TidInv, HandleTidInv
<1>. HIDE DEF t
<1>5. /\ RegistryInv' /\ UNCHANGED <<check_failed, live_>>
      /\ OnlyTouches(t) /\ SameThreads
      /\ threads_'[t] = [threads_[t] EXCEPT !.status = "Running"]
  BY <1>1, <1>4, StartThreadEffect DEF TidInv, ContextOf
<1>6. threads_[t] \in ThreadContexts
  BY <1>4, ThreadsDomain DEF TidInv, RegistryInv, ContextOf
<1>7. /\ threads_'[t].status = "Running"
      /\ threads_'[t].serial = threads_[t].serial
      /\ threads_'[t].detached = threads_[t].detached
      /\ \A s \in DOMAIN threads_ \ {t} : InUse(threads_[s]) => KeptContext(s)
  BY <1>5, <1>6 DEF ThreadContexts, OnlyTouches, SameThreads, KeptContext
<1>8. \A k \in Handles : Registered(k)' <=> Registered(k)
  BY <1>1, <1>2, <1>3, <1>4 DEF Registered, StartingStates
<1>9. SerialsInv'
  BY <1>1, <1>5 DEF TidInv, SerialsInv, SameThreads
<1>10. ASSUME NEW k \in Handles PROVE HandleTidInv(k)'
  <2>1. CASE k = h
    BY <1>1, <1>2, <1>4, <1>5, <1>7, <2>1
    DEF TidInv, HandleTidInv, ContextOf, SameThreads, t
  <2>2. CASE k # h
    <3>1. lib[k] # "none" /\ ContextOf(tid_[k], serial[k]) => tid_[k] # t
      BY <1>1, <1>4, <2>2 DEF ContextOf, StructInv, UniqueInv
    <3>. QED
      BY <1>1, <1>2, <1>7, <1>8, <2>2, <3>1, HandleFrame DEF TidInv, ContextOf
  <2>. QED
    BY <2>1, <2>2
<1>11. ASSUME NEW d \in Callers PROVE OpTidInv(d)'
  <2>1. op[d].step \in ReapSteps => op[d].tid # t
    BY <1>4 DEF TidInv, OpTidInv
  <2>. QED
    BY <1>1, <1>2, <1>7, <2>1, OpFrame DEF TidInv, ContextOf
<1>12. LiveInv'
  <2>1. ASSUME NEW u \in DOMAIN live_
        PROVE  /\ Registered(u)' /\ live_'[u] = tid_'[u] /\ ContextOf(tid_[u], serial[u])'
               /\ lib_detached'[u] => threads_'[tid_'[u]].detached /\ lib'[u] # "destroyed"
    <3>1. u \in Handles /\ InUse(threads_[tid_[u]])
      BY TypeFacts DEF TidInv, LiveInv, RegistryInv, UsersInv, ContextOf
    <3>2. threads_[tid_[u]].detached => threads_'[tid_[u]].detached
      BY <1>7, <3>1 DEF TidInv, LiveInv, ContextOf, KeptContext
    <3>. QED
      BY <1>1, <1>2, <1>5, <1>8, <3>1, <3>2 DEF TidInv, LiveInv, ContextOf, SameThreads
  <2>2. \A k \in Handles : Registered(k)' /\ lib'[k] \in StartingStates => k \in DOMAIN live_
    BY <1>1, <1>2, <1>8 DEF TidInv, LiveInv, StartingStates
  <2>. QED
    BY <1>1, <1>5, <2>1, <2>2 DEF TidInv, LiveInv
<1>. QED
  BY <1>5, <1>9, <1>10, <1>11, <1>12 DEF TidInv

\* A detached thread loses its user id before libc may give the pthread_t again.
LEMMA ThreadDestroyTid ==
  ASSUME TypeOK, StructInv, TidInv, NEW h \in Handles, ThreadDestroy(h)
  PROVE  TidInv'
<1>. DEFINE t == tid_[h]
<1>1. /\ lib[h] = "finishing" /\ FinishThread(t)
      /\ ChildGoto(h, "destroyed")
      /\ UNCHANGED <<op, tid_, joinable, creates>>
  BY DEF ThreadDestroy, ChildAt
<1>2. /\ lib'[h] = "destroyed" /\ UNCHANGED <<lib_detached, serial, creator>>
      /\ \A k \in Handles \ {h} : lib'[k] = lib[k]
  BY <1>1, ChildGotoEffect DEF LibStates
<1>3. /\ Registered(h) /\ ContextOf(t, serial[h]) /\ threads_[t].status = "Running"
      /\ threads_[t].detached => lib_detached[h]
  BY <1>1 DEF Registered, TidInv, HandleTidInv, StartingStates
<1>4. t # kMainTid
  BY <1>1, <1>3 DEF ContextOf, StructInv, ThreadInv, TidInv, RegistryInv, MainInv
<1>. HIDE DEF t
<1>5. /\ RegistryInv' /\ UNCHANGED check_failed
      /\ OnlyTouches(t) /\ SameThreads
      /\ IF threads_[t].detached
         THEN /\ DOMAIN live_' = DOMAIN live_ \ {threads_[t].user_id}
              /\ \A u \in DOMAIN live_' : live_'[u] = live_[u]
         ELSE /\ live_' = live_
              /\ threads_'[t] = [threads_[t] EXCEPT !.thread_destroyed = TRUE,
                                                    !.status = "Finished"]
  BY <1>1, <1>3, <1>4, FinishThreadEffect DEF TidInv, ContextOf
<1>6. threads_[t] \in ThreadContexts
  BY <1>3, ThreadsDomain DEF TidInv, RegistryInv, ContextOf
<1>7. /\ ~threads_[t].detached => /\ threads_'[t].status = "Finished"
                                  /\ ~threads_'[t].detached
                                  /\ threads_'[t].user_id = threads_[t].user_id
      /\ \A s \in DOMAIN threads_ \ {t} : InUse(threads_[s]) => KeptContext(s)
  BY <1>5, <1>6 DEF ThreadContexts, OnlyTouches, SameThreads, KeptContext
<1>8. \A k \in Handles : Registered(k)' <=> Registered(k)
  BY <1>1, <1>2 DEF Registered, StartingStates
<1>9. SerialsInv'
  BY <1>1, <1>5 DEF TidInv, SerialsInv, SameThreads
<1>10. \A k \in Handles \ {h} : lib[k] # "none" /\ ContextOf(tid_[k], serial[k]) => tid_[k] # t
  BY <1>1, <1>3 DEF ContextOf, StructInv, UniqueInv
<1>11. ASSUME NEW k \in Handles PROVE HandleTidInv(k)'
  <2>1. CASE k = h
    BY <1>1, <1>2, <1>3, <1>5, <1>7, <2>1
    DEF TidInv, HandleTidInv, ContextOf, SameThreads, t
  <2>2. CASE k # h
    BY <1>1, <1>2, <1>7, <1>8, <1>10, <2>2, HandleFrame DEF TidInv, ContextOf
  <2>. QED
    BY <2>1, <2>2
<1>12. ASSUME NEW d \in Callers PROVE OpTidInv(d)'
  <2>1. CASE op[d].step \in ReapSteps /\ op[d].tid = t
    <3>1. OpTidInv(d)
      BY DEF TidInv
    <3>2. ~threads_[t].detached
      BY <2>1, <3>1 DEF OpTidInv
    <3>3. \A k \in Handles : lib'[k] # "none" => lib[k] # "none"
      BY <1>1, <1>2
    <3>. QED
      BY <1>1, <1>2, <1>5, <1>7, <2>1, <3>1, <3>2, <3>3
      DEF OpTidInv, ContextOf, SameThreads
  <2>2. CASE ~(op[d].step \in ReapSteps /\ op[d].tid = t)
    BY <1>1, <1>2, <1>7, <2>2, OpFrame DEF TidInv, ContextOf
  <2>. QED
    BY <2>1, <2>2
<1>13. LiveInv'
  <2>1. ASSUME NEW u \in DOMAIN live_, u \notin DOMAIN live_'
        PROVE  u = h /\ lib_detached[h]
    <3>1. threads_[t].detached /\ u = threads_[t].user_id
      BY <1>5, <2>1
    <3>2. live_[u] = t /\ u \in Handles
      BY <1>3, <3>1, TypeFacts DEF TidInv, RegistryInv, UsersInv, ContextOf
    <3>3. tid_[u] = t /\ Registered(u) /\ ContextOf(tid_[u], serial[u])
      BY <3>2 DEF TidInv, LiveInv
    <3>. QED
      BY <1>3, <1>10, <3>1, <3>2, <3>3 DEF Registered
  <2>2. h \in DOMAIN live_' => ~lib_detached[h]
    <3>1. h \in DOMAIN live_ /\ lib_detached[h] =>
            threads_[t].detached /\ threads_[t].user_id = h
      BY DEF TidInv, LiveInv, RegistryInv, UsersInv, t
    <3>. QED
      BY <1>5, <3>1
  <2>3. DOMAIN live_' \subseteq DOMAIN live_ /\ \A u \in DOMAIN live_' : live_'[u] = live_[u]
    BY <1>5
  <2>4. ASSUME NEW u \in DOMAIN live_'
        PROVE  /\ Registered(u)' /\ live_'[u] = tid_'[u] /\ ContextOf(tid_[u], serial[u])'
               /\ lib_detached'[u] => threads_'[tid_'[u]].detached /\ lib'[u] # "destroyed"
    <3>1. /\ u \in Handles /\ Registered(u) /\ live_[u] = tid_[u]
          /\ ContextOf(tid_[u], serial[u]) /\ InUse(threads_[tid_[u]])
          /\ lib_detached[u] => threads_[tid_[u]].detached /\ lib[u] # "destroyed"
      BY <2>3, TypeFacts DEF TidInv, LiveInv, RegistryInv, UsersInv, ContextOf
    <3>2. ASSUME lib_detached[u] PROVE threads_'[tid_[u]].detached /\ lib'[u] # "destroyed"
      <4>1. u # h
        BY <2>2, <3>2
      <4>. QED
        BY <1>2, <1>7, <1>10, <3>1, <3>2, <4>1 DEF Registered, ContextOf, KeptContext
    <3>. QED
      BY <1>1, <1>2, <1>5, <1>8, <2>3, <3>1, <3>2 DEF ContextOf, SameThreads
  <2>5. joinable' \subseteq DOMAIN live_'
    BY <1>1, <2>1 DEF TidInv, LiveInv, StructInv, JoinableInv
  <2>6. \A k \in Handles : Registered(k)' /\ lib'[k] \in StartingStates => k \in DOMAIN live_'
    BY <1>2, <1>8, <2>1 DEF TidInv, LiveInv, StartingStates
  <2>. QED
    BY <2>4, <2>5, <2>6 DEF LiveInv
<1>. QED
  BY <1>5, <1>9, <1>11, <1>12, <1>13 DEF TidInv

\* The real join has succeeded, so the pthread_t stands for another thread, if any.
LEMMA JoinThreadTidTid ==
  ASSUME TypeOK, StructInv, TidInv, NEW c \in Callers, JoinThreadTid(c)
  PROVE  TidInv'
<1>. DEFINE t == op[c].tid
<1>1. /\ op[c].step = "join_thread" /\ JoinThread(t) /\ Return(c)
      /\ UNCHANGED <<lib, lib_detached, serial, creator, tid_, joinable, creates>>
  BY DEF JoinThreadTid, At, lib_vars
<1>2. op'[c].step = "idle" /\ \A d \in Callers \ {c} : op'[d] = op[d]
  BY <1>1, ReturnEffect
<1>3. op[c].step \in JoinedSteps /\ op[c].step \in ReapSteps
  BY <1>1 DEF JoinedSteps, ReapSteps
<1>4. /\ ContextOf(t, op[c].serial) /\ threads_[t].status = "Finished"
      /\ ~threads_[t].detached /\ threads_[t].user_id = NoHandle
  BY <1>3 DEF TidInv, OpTidInv
<1>. HIDE DEF t
<1>5. /\ RegistryInv' /\ UNCHANGED check_failed
      /\ OnlyTouches(t) /\ SameThreads
      /\ DOMAIN live_' = DOMAIN live_ \ {threads_[t].user_id}
      /\ \A u \in DOMAIN live_' : live_'[u] = live_[u]
  BY <1>1, <1>4, JoinThreadEffect DEF TidInv, ContextOf
<1>6. DOMAIN live_' = DOMAIN live_
  BY <1>4, <1>5, TypeFacts
<1>7. \A s \in DOMAIN threads_ \ {t} : InUse(threads_[s]) => KeptContext(s)
  BY <1>5 DEF OnlyTouches, KeptContext
<1>8. \A k \in Handles : lib[k] # "none" /\ ContextOf(tid_[k], serial[k]) => tid_[k] # t
  BY <1>3, <1>4 DEF StructInv, ReapInv, ContextOf
<1>9. \A d \in Callers \ {c} :
        op[d].step \in ReapSteps /\ ContextOf(op[d].tid, op[d].serial) => op[d].tid # t
  BY <1>3, <1>4 DEF StructInv, UniqueInv, ContextOf
<1>10. \A k \in Handles : Registered(k)' <=> Registered(k)
  BY <1>1, <1>2, TypeFacts DEF Registered, StructInv, ThreadInv, OpenSteps
<1>11. SerialsInv'
  BY <1>1, <1>2, <1>5 DEF TidInv, SerialsInv, SameThreads, OpenSteps
<1>12. ASSUME NEW k \in Handles PROVE HandleTidInv(k)'
  BY <1>1, <1>7, <1>8, <1>10, HandleFrame DEF TidInv, ContextOf
<1>13. ASSUME NEW d \in Callers PROVE OpTidInv(d)'
  <2>1. CASE d = c
    BY <1>2, <2>1 DEF OpTidInv, ReapSteps, HoldingSteps, JoinedSteps, DetachedSteps
  <2>2. CASE d # c
    BY <1>1, <1>2, <1>7, <1>9, <2>2, OpFrame DEF TidInv, ContextOf
  <2>. QED
    BY <2>1, <2>2
<1>14. LiveInv'
  <2>1. ASSUME NEW u \in DOMAIN live_
        PROVE  /\ Registered(u)' /\ live_'[u] = tid_'[u] /\ ContextOf(tid_[u], serial[u])'
               /\ lib_detached'[u] => threads_'[tid_'[u]].detached /\ lib'[u] # "destroyed"
    <3>1. /\ u \in Handles /\ Registered(u) /\ live_[u] = tid_[u]
          /\ ContextOf(tid_[u], serial[u]) /\ InUse(threads_[tid_[u]])
          /\ lib_detached[u] => threads_[tid_[u]].detached /\ lib[u] # "destroyed"
      BY TypeFacts DEF TidInv, LiveInv, RegistryInv, UsersInv, ContextOf
    <3>2. threads_'[tid_[u]] = threads_[tid_[u]]
      BY <1>7, <1>8, <3>1 DEF Registered, ContextOf, KeptContext
    <3>. QED
      BY <1>1, <1>5, <1>6, <1>10, <3>1, <3>2 DEF ContextOf, SameThreads
  <2>. QED
    BY <1>1, <1>6, <1>10, <2>1 DEF TidInv, LiveInv
<1>. QED
  BY <1>5, <1>11, <1>12, <1>13, <1>14 DEF TidInv

\* The thread may run on, or have ended, and its pthread_t be another's.
LEMMA DetachThreadTidTid ==
  ASSUME TypeOK, StructInv, TidInv, NEW c \in Callers, DetachThreadTid(c)
  PROVE  TidInv'
<1>. DEFINE t == op[c].tid
<1>1. /\ op[c].step = "detach_thread" /\ DetachThread(t) /\ Return(c)
      /\ UNCHANGED <<lib, lib_detached, serial, creator, tid_, joinable, creates>>
  BY DEF DetachThreadTid, At, lib_vars
<1>2. op'[c].step = "idle" /\ \A d \in Callers \ {c} : op'[d] = op[d]
  BY <1>1, ReturnEffect
<1>3. op[c].step \in DetachedSteps /\ op[c].step \in ReapSteps
  BY <1>1 DEF DetachedSteps, ReapSteps
<1>4. /\ ContextOf(t, op[c].serial) /\ threads_[t].status \in {"Running", "Finished"}
      /\ threads_[t].user_id = NoHandle
  BY <1>3 DEF TidInv, OpTidInv
<1>. HIDE DEF t
<1>5. /\ RegistryInv' /\ UNCHANGED check_failed
      /\ OnlyTouches(t) /\ SameThreads
      /\ IF threads_[t].status = "Finished"
         THEN /\ ~InUse(threads_'[t])
              /\ DOMAIN live_' = DOMAIN live_ \ {threads_[t].user_id}
              /\ \A u \in DOMAIN live_' : live_'[u] = live_[u]
         ELSE /\ live_' = live_
              /\ threads_'[t] = [threads_[t] EXCEPT !.detached = TRUE]
  BY <1>1, <1>4, DetachThreadEffect DEF TidInv, ContextOf, InUse
<1>6. DOMAIN live_' = DOMAIN live_ /\ \A u \in DOMAIN live_ : live_'[u] = live_[u]
  BY <1>4, <1>5, TypeFacts
<1>7. /\ \A s \in DOMAIN threads_ \ {t} : InUse(threads_[s]) => KeptContext(s)
      /\ threads_[t].status = "Running" => threads_'[t].status = "Running"
  <2>1. threads_[t] \in ThreadContexts
    BY <1>4, ThreadsDomain DEF TidInv, RegistryInv, ContextOf
  <2>. QED
    BY <1>4, <1>5, <2>1 DEF OnlyTouches, KeptContext, ThreadContexts
<1>8. \A k \in Handles : lib[k] # "none" /\ ContextOf(tid_[k], serial[k]) /\ tid_[k] = t =>
        lib_detached[k]
  BY <1>3, <1>4 DEF StructInv, ReapInv, ContextOf
<1>9. \A d \in Callers \ {c} :
        op[d].step \in ReapSteps /\ ContextOf(op[d].tid, op[d].serial) => op[d].tid # t
  BY <1>3, <1>4 DEF StructInv, UniqueInv, ContextOf
<1>10. \A k \in Handles : Registered(k)' <=> Registered(k)
  BY <1>1, <1>2, TypeFacts DEF Registered, StructInv, ThreadInv, OpenSteps
<1>11. SerialsInv'
  BY <1>1, <1>2, <1>5 DEF TidInv, SerialsInv, SameThreads, OpenSteps
<1>12. ASSUME NEW k \in Handles PROVE HandleTidInv(k)'
  <2>1. HandleTidInv(k) /\ ThreadInv(k)
    BY DEF TidInv, StructInv
  <2>2. CASE lib[k] # "none" /\ ContextOf(tid_[k], serial[k]) /\ tid_[k] = t
    <3>1. lib_detached[k] /\ lib[k] # "zombie"
      BY <1>8, <2>1, <2>2 DEF ThreadInv
    <3>2. CASE lib[k] = "destroyed"
      BY <1>1, <3>1, <3>2 DEF HandleTidInv
    <3>3. CASE lib[k] # "destroyed" /\ Registered(k)
      <4>1. threads_[t].status = "Running" /\ lib[k] \notin {"started", "got_args"}
        BY <1>4, <2>1, <2>2, <3>1, <3>3 DEF HandleTidInv
      <4>. QED
        BY <1>1, <1>5, <1>7, <1>10, <2>1, <2>2, <3>1, <3>3, <4>1
        DEF HandleTidInv, ContextOf, SameThreads
    <3>4. CASE ~Registered(k)
      BY <1>1, <1>10, <3>1, <3>4 DEF HandleTidInv
    <3>. QED
      BY <3>2, <3>3, <3>4
  <2>3. CASE ~(lib[k] # "none" /\ ContextOf(tid_[k], serial[k]) /\ tid_[k] = t)
    BY <1>1, <1>7, <1>10, <2>1, <2>3, HandleFrame DEF ContextOf
  <2>. QED
    BY <2>2, <2>3
<1>13. ASSUME NEW d \in Callers PROVE OpTidInv(d)'
  <2>1. CASE d = c
    BY <1>2, <2>1 DEF OpTidInv, ReapSteps, HoldingSteps, JoinedSteps, DetachedSteps
  <2>2. CASE d # c
    BY <1>1, <1>2, <1>7, <1>9, <2>2, OpFrame DEF TidInv, ContextOf
  <2>. QED
    BY <2>1, <2>2
<1>14. LiveInv'
  <2>1. ASSUME NEW u \in DOMAIN live_
        PROVE  /\ Registered(u)' /\ live_'[u] = tid_'[u] /\ ContextOf(tid_[u], serial[u])'
               /\ lib_detached'[u] => threads_'[tid_'[u]].detached /\ lib'[u] # "destroyed"
    <3>1. /\ u \in Handles /\ Registered(u) /\ live_[u] = tid_[u]
          /\ ContextOf(tid_[u], serial[u]) /\ InUse(threads_[tid_[u]])
          /\ threads_[tid_[u]].user_id = u
          /\ lib_detached[u] => threads_[tid_[u]].detached /\ lib[u] # "destroyed"
      BY TypeFacts DEF TidInv, LiveInv, RegistryInv, UsersInv, ContextOf
    <3>2. threads_'[tid_[u]] = threads_[tid_[u]]
      BY <1>4, <1>7, <3>1, TypeFacts DEF ContextOf, KeptContext
    <3>. QED
      BY <1>1, <1>5, <1>6, <1>10, <3>1, <3>2 DEF ContextOf, SameThreads
  <2>. QED
    BY <1>1, <1>6, <1>10, <2>1 DEF TidInv, LiveInv
<1>. QED
  BY <1>5, <1>11, <1>12, <1>13, <1>14 DEF TidInv

\* The thread has been running all along: nobody else has got its pthread_t.
LEMMA NotJoinedTid ==
  ASSUME TypeOK, StructInv, TidInv, NEW c \in Callers, NotJoined(c)
  PROVE  TidInv'
<1>. DEFINE t == op[c].tid
            h == op[c].h
<1>1. /\ op[c].step = "not_joined" /\ SetThreadUserId(t, h) /\ Return(c)
      /\ joinable' = joinable \cup {h}
      /\ UNCHANGED <<lib, lib_detached, serial, creator, tid_, creates>>
  BY DEF NotJoined, At, lib_vars
<1>2. op'[c].step = "idle" /\ \A d \in Callers \ {c} : op'[d] = op[d]
  BY <1>1, ReturnEffect
<1>3. op[c].step \in HoldingSteps /\ op[c].step \in ReapSteps
  BY <1>1 DEF HoldingSteps, ReapSteps
<1>4. /\ ContextOf(t, op[c].serial) /\ threads_[t].status \in {"Running", "Finished"}
      /\ threads_[t].user_id = NoHandle
  BY <1>3 DEF TidInv, OpTidInv
<1>5. /\ h \in Handles /\ lib[h] \in StartedStates /\ ~lib_detached[h]
      /\ serial[h] = op[c].serial
  BY <1>3 DEF StructInv, ReapInv
<1>6. lib[h] # "none" /\ Registered(h) /\ lib[h] \notin StartingStates /\ tid_[h] = t
  BY <1>3, <1>5 DEF TidInv, OpTidInv, Registered, StartedStates, StartingStates
<1>7. h \notin DOMAIN live_
  BY <1>4, <1>5, <1>6, TypeFacts DEF TidInv, LiveInv, RegistryInv, UsersInv
<1>. HIDE DEF t, h
<1>8. /\ RegistryInv' /\ UNCHANGED check_failed
      /\ OnlyTouches(t) /\ SameThreads
      /\ threads_'[t] = [threads_[t] EXCEPT !.user_id = h]
      /\ DOMAIN live_' = DOMAIN live_ \cup {h}
      /\ live_'[h] = t
      /\ \A v \in DOMAIN live_ : live_'[v] = live_[v]
  BY <1>1, <1>4, <1>5, <1>7, SetThreadUserIdEffect DEF TidInv, ContextOf, InUse
<1>9. /\ threads_'[t].status = threads_[t].status
      /\ threads_'[t].detached = threads_[t].detached
      /\ \A s \in DOMAIN threads_ \ {t} : InUse(threads_[s]) => KeptContext(s)
  <2>1. threads_[t] \in ThreadContexts
    BY <1>4, ThreadsDomain DEF TidInv, RegistryInv, ContextOf
  <2>. QED
    BY <1>8, <2>1 DEF OnlyTouches, KeptContext, ThreadContexts
<1>10. \A d \in Callers \ {c} :
         op[d].step \in ReapSteps /\ ContextOf(op[d].tid, op[d].serial) => op[d].tid # t
  BY <1>3, <1>4 DEF StructInv, UniqueInv, ContextOf
<1>11. \A k \in Handles : Registered(k)' <=> Registered(k)
  BY <1>1, <1>2, TypeFacts DEF Registered, StructInv, ThreadInv, OpenSteps
<1>12. SerialsInv'
  BY <1>1, <1>2, <1>8 DEF TidInv, SerialsInv, SameThreads, OpenSteps
<1>13. ASSUME NEW k \in Handles PROVE HandleTidInv(k)'
  <2>1. HandleTidInv(k)
    BY DEF TidInv
  <2>2. CASE tid_[k] = t
    BY <1>1, <1>8, <1>9, <1>11, <2>1, <2>2 DEF HandleTidInv, ContextOf, SameThreads
  <2>3. CASE tid_[k] # t
    BY <1>1, <1>9, <1>11, <2>1, <2>3, HandleFrame DEF ContextOf
  <2>. QED
    BY <2>2, <2>3
<1>14. ASSUME NEW d \in Callers PROVE OpTidInv(d)'
  <2>1. CASE d = c
    BY <1>2, <2>1 DEF OpTidInv, ReapSteps, HoldingSteps, JoinedSteps, DetachedSteps
  <2>2. CASE d # c
    BY <1>1, <1>2, <1>9, <1>10, <2>2, OpFrame DEF TidInv, ContextOf
  <2>. QED
    BY <2>1, <2>2
<1>15. LiveInv'
  <2>1. ASSUME NEW u \in DOMAIN live_'
        PROVE  /\ Registered(u)' /\ live_'[u] = tid_'[u] /\ ContextOf(tid_[u], serial[u])'
               /\ lib_detached'[u] => threads_'[tid_'[u]].detached /\ lib'[u] # "destroyed"
    <3>1. CASE u = h
      BY <1>1, <1>4, <1>5, <1>6, <1>8, <1>11, <3>1 DEF ContextOf, SameThreads
    <3>2. CASE u # h
      <4>1. /\ u \in DOMAIN live_ /\ u \in Handles /\ Registered(u) /\ live_[u] = tid_[u]
            /\ ContextOf(tid_[u], serial[u]) /\ InUse(threads_[tid_[u]])
            /\ threads_[tid_[u]].user_id = u
            /\ lib_detached[u] => threads_[tid_[u]].detached /\ lib[u] # "destroyed"
        BY <1>8, <3>2, TypeFacts DEF TidInv, LiveInv, RegistryInv, UsersInv, ContextOf
      <4>2. threads_'[tid_[u]] = threads_[tid_[u]]
        BY <1>4, <1>9, <4>1, TypeFacts DEF ContextOf, KeptContext
      <4>. QED
        BY <1>1, <1>8, <1>11, <4>1, <4>2 DEF ContextOf, SameThreads
    <3>. QED
      BY <3>1, <3>2
  <2>2. joinable' \subseteq DOMAIN live_'
    BY <1>1, <1>8 DEF TidInv, LiveInv
  <2>3. \A k \in Handles : Registered(k)' /\ lib'[k] \in StartingStates => k \in DOMAIN live_'
    BY <1>1, <1>8, <1>11 DEF TidInv, LiveInv
  <2>. QED
    BY <2>1, <2>2, <2>3 DEF LiveInv
<1>. QED
  BY <1>8, <1>12, <1>13, <1>14, <1>15 DEF TidInv

\* A join or detach begins: from here nobody else can begin one for this thread.
LEMMA ConsumeTidTid ==
  ASSUME TypeOK, StructInv, TidInv, NEW c \in Callers, NEW h \in Handles,
         NEW step \in {"before_join", "real_detach"}, NEW try \in BOOLEAN,
         ConsumeTid(c, h, step, try)
  PROVE  TidInv' /\ UNCHANGED check_failed
<1>. DEFINE t == live_[h]
<1>1. /\ op[c].step = "idle" /\ h \in joinable /\ ConsumeThreadUserId(h)
      /\ joinable' = joinable \ {h}
      /\ UNCHANGED <<lib, lib_detached, serial, creator, tid_, creates>>
  BY DEF ConsumeTid, InUserCode, lib_vars
<1>2. /\ lib[h] \in StartedStates /\ ~lib_detached[h] /\ h \in DOMAIN live_
      /\ \A d \in Callers : op[d].step \in ReapSteps => op[d].serial # serial[h]
  BY <1>1 DEF TidInv, LiveInv, StructInv, JoinableInv
<1>3. /\ Registered(h) /\ tid_[h] = t /\ ContextOf(t, serial[h])
      /\ threads_[t].user_id = h
  BY <1>2 DEF TidInv, LiveInv, RegistryInv, UsersInv
<1>4. threads_[t].status \in {"Running", "Finished"} /\ ~threads_[t].detached
  <2>1. HandleTidInv(h)
    BY DEF TidInv
  <2>. QED
    BY <1>2, <1>3, <2>1 DEF HandleTidInv, StartedStates
<1>5. /\ RegistryInv' /\ UNCHANGED check_failed
      /\ OnlyTouches(t) /\ SameThreads
      /\ threads_'[t] = [threads_[t] EXCEPT !.user_id = NoHandle]
      /\ DOMAIN live_' = DOMAIN live_ \ {h}
      /\ \A v \in DOMAIN live_' : live_'[v] = live_[v]
  BY <1>1, <1>2, ConsumeThreadUserIdEffect DEF TidInv
<1>6. /\ op'[c].step = step /\ op'[c].serial = serial[h] /\ op'[c].tid = t
      /\ \A d \in Callers \ {c} : op'[d] = op[d]
  BY <1>5 DEF ConsumeTid, TypeOK, TidInv, Idle
<1>. HIDE DEF t
<1>7. /\ threads_'[t].status = threads_[t].status
      /\ threads_'[t].detached = threads_[t].detached
      /\ threads_'[t].user_id = NoHandle
      /\ \A s \in DOMAIN threads_ \ {t} : InUse(threads_[s]) => KeptContext(s)
  <2>1. threads_[t] \in ThreadContexts
    BY <1>3, ThreadsDomain DEF TidInv, RegistryInv, ContextOf
  <2>. QED
    BY <1>5, <2>1 DEF OnlyTouches, KeptContext, ThreadContexts
<1>8. \A d \in Callers :
         op[d].step \in ReapSteps /\ ContextOf(op[d].tid, op[d].serial) => op[d].tid # t
  BY <1>2, <1>3 DEF ContextOf
<1>9. \A k \in Handles : Registered(k)' <=> Registered(k)
  BY <1>1, <1>6, TypeFacts DEF Registered, StructInv, ThreadInv, OpenSteps
<1>10. SerialsInv'
  BY <1>1, <1>5, <1>6 DEF TidInv, SerialsInv, SameThreads, OpenSteps
<1>11. ASSUME NEW k \in Handles PROVE HandleTidInv(k)'
  <2>1. HandleTidInv(k)
    BY DEF TidInv
  <2>2. CASE tid_[k] = t
    BY <1>1, <1>5, <1>7, <1>9, <2>1, <2>2 DEF HandleTidInv, ContextOf, SameThreads
  <2>3. CASE tid_[k] # t
    BY <1>1, <1>7, <1>9, <2>1, <2>3, HandleFrame DEF ContextOf
  <2>. QED
    BY <2>2, <2>3
<1>12. ASSUME NEW d \in Callers PROVE OpTidInv(d)'
  <2>1. CASE d = c
    <3>1. op'[c].step \notin JoinedSteps
      BY <1>6 DEF JoinedSteps
    <3>2. \A k \in Handles : lib[k] # "none" /\ serial[k] = serial[h] => tid_[k] = t
      BY <1>2, <1>3 DEF StructInv, UniqueInv, StartedStates
    <3>. QED
      BY <1>1, <1>3, <1>4, <1>5, <1>6, <1>7, <2>1, <3>1, <3>2, ZenonT(30)
      DEF OpTidInv, ContextOf, SameThreads
  <2>2. CASE d # c
    BY <1>1, <1>6, <1>7, <1>8, <2>2, OpFrame DEF TidInv, ContextOf
  <2>. QED
    BY <2>1, <2>2
<1>13. LiveInv'
  <2>1. ASSUME NEW u \in DOMAIN live_'
        PROVE  /\ Registered(u)' /\ live_'[u] = tid_'[u] /\ ContextOf(tid_[u], serial[u])'
               /\ lib_detached'[u] => threads_'[tid_'[u]].detached /\ lib'[u] # "destroyed"
    <3>1. /\ u \in DOMAIN live_ /\ u # h /\ u \in Handles /\ Registered(u) /\ live_[u] = tid_[u]
          /\ ContextOf(tid_[u], serial[u]) /\ InUse(threads_[tid_[u]])
          /\ threads_[tid_[u]].user_id = u
          /\ lib_detached[u] => threads_[tid_[u]].detached /\ lib[u] # "destroyed"
      BY <1>5, TypeFacts DEF TidInv, LiveInv, RegistryInv, UsersInv, ContextOf
    <3>2. threads_'[tid_[u]] = threads_[tid_[u]]
      BY <1>3, <1>7, <3>1 DEF ContextOf, KeptContext
    <3>. QED
      BY <1>1, <1>5, <1>9, <3>1, <3>2 DEF ContextOf, SameThreads
  <2>2. joinable' \subseteq DOMAIN live_'
    BY <1>1, <1>5 DEF TidInv, LiveInv
  <2>3. \A k \in Handles : Registered(k)' /\ lib'[k] \in StartingStates => k \in DOMAIN live_'
    BY <1>1, <1>2, <1>5, <1>9 DEF TidInv, LiveInv, StartingStates, StartedStates
  <2>. QED
    BY <2>1, <2>2, <2>3 DEF LiveInv
<1>. QED
  BY <1>5, <1>10, <1>11, <1>12, <1>13 DEF TidInv

\* The child has the forking thread only, and every other user id is free.
LEMMA ForkTid ==
  ASSUME TypeOK, StructInv, TidInv, NEW c \in Callers, Fork(c)
  PROVE  TidInv' /\ UNCHANGED check_failed
<1>. DEFINE t == IF c = Main THEN kMainTid ELSE tid_[c]
<1>1. /\ OnFork(t) /\ joinable' = {} /\ UNCHANGED creates
      /\ c \in Handles => lib[c] = "running"
  BY DEF Fork, InUserCode
<1>2. /\ \A d \in Callers : op'[d].step = "idle"
      /\ \A h \in Handles \ {c} : lib'[h] = "none"
      /\ c \in Handles => /\ lib'[c] = lib[c] /\ serial'[c] = serial[c] /\ tid_'[c] = tid_[c]
                          /\ lib_detached'[c] <=> lib_detached[c]
  BY DEF Fork, Idle
<1>3. (c \in Handles /\ c # Main) \/ (c = Main /\ c \notin Handles)
  <2>1. Main \notin Handles
    BY XsanPthreadAssumption
  <2>. QED
    BY <2>1 DEF Callers
<1>4. /\ t \in DOMAIN threads_
      /\ c = Main => threads_[t].serial = 0
      /\ c \in Handles => Registered(c) /\ t = tid_[c] /\ ContextOf(t, serial[c])
  <2>1. c = Main => t \in DOMAIN threads_ /\ threads_[t].serial = 0
    BY DEF TidInv, RegistryInv, MainInv
  <2>2. c \in Handles => Registered(c) /\ t = tid_[c] /\ ContextOf(t, serial[c])
    BY <1>1, <1>3 DEF TidInv, HandleTidInv, Registered, StartingStates
  <2>. QED
    BY <1>3, <2>1, <2>2 DEF ContextOf
<1>. HIDE DEF t
<1>5. /\ RegistryInv' /\ UNCHANGED check_failed /\ SameThreads
      /\ threads_'[t] = threads_[t]
      /\ DOMAIN live_' = {u \in DOMAIN live_ : live_[u] = t}
      /\ \A u \in DOMAIN live_' : live_'[u] = live_[u]
  BY <1>1, <1>4, OnForkEffect DEF TidInv
<1>6. SerialsInv'
  BY <1>1, <1>2, <1>5 DEF TidInv, SerialsInv, SameThreads, OpenSteps
<1>7. ASSUME NEW k \in Handles PROVE HandleTidInv(k)'
  <2>1. CASE k = c
    BY <1>1, <1>2, <1>4, <1>5, <2>1
    DEF TidInv, HandleTidInv, ContextOf, SameThreads, Registered, StartingStates
  <2>2. CASE k # c
    BY <1>2, <2>2 DEF HandleTidInv, Registered
  <2>. QED
    BY <2>1, <2>2
<1>8. ASSUME NEW d \in Callers PROVE OpTidInv(d)'
  BY <1>2 DEF OpTidInv, ReapSteps, HoldingSteps, JoinedSteps, DetachedSteps
<1>9. LiveInv'
  <2>1. ASSUME NEW u \in DOMAIN live_'
        PROVE  /\ Registered(u)' /\ live_'[u] = tid_'[u] /\ ContextOf(tid_[u], serial[u])'
               /\ lib_detached'[u] => threads_'[tid_'[u]].detached /\ lib'[u] # "destroyed"
    <3>1. /\ u \in Handles /\ Registered(u) /\ live_[u] = t /\ tid_[u] = t
          /\ ContextOf(t, serial[u])
          /\ lib_detached[u] => threads_[t].detached
      BY <1>5, TypeFacts DEF TidInv, LiveInv
    <3>2. serial[u] >= 1 /\ serial[u] = threads_[t].serial
      BY <3>1, TypeFacts DEF StructInv, ThreadInv, Registered, ContextOf
    <3>3. u = c
      BY <1>3, <1>4, <3>1, <3>2 DEF StructInv, UniqueInv, Registered, ContextOf
    <3>4. lib'[u] = "running" /\ Registered(u)'
      BY <1>1, <1>2, <3>1, <3>3 DEF Registered, StartingStates
    <3>. QED
      BY <1>2, <1>5, <3>1, <3>3, <3>4 DEF ContextOf, SameThreads
  <2>2. \A k \in Handles : lib'[k] \notin StartingStates
    BY <1>1, <1>2 DEF StartingStates
  <2>. QED
    BY <1>1, <2>1, <2>2 DEF LiveInv
<1>. QED
  BY <1>5, <1>6, <1>7, <1>8, <1>9 DEF TidInv

-----------------------------------------------------------------------------
(***************************************************************************)
(* The type invariant.  The registry's part of it comes with RegistryInv.  *)
(***************************************************************************)
ArgsTypeOK ==
  /\ DOMAIN data_ \subseteq Handles
  /\ \A h \in DOMAIN data_ : data_[h] \in ArgEntries
  /\ gen_ \in 0 .. kInvalidGen - 1

LEMMA CreateLockedType ==
  ASSUME ArgsTypeOK, NEW h \in Handles, NEW det \in BOOLEAN, NEW n \in Nat,
         CreateLocked(h, det, n)
  PROVE  ArgsTypeOK'
<1>1. gen_ \in Nat /\ gen_' \in 0 .. kInvalidGen - 1
  BY ThreadArgRetvalAssumption DEF ArgsTypeOK, CreateLocked
<1>2. DOMAIN data_' = DOMAIN data_ \cup {h}
  BY DEF CreateLocked
<1>3. ASSUME NEW k \in DOMAIN data_' PROVE data_'[k] \in ArgEntries
  BY <1>1, <1>2, <1>3 DEF CreateLocked, ArgsTypeOK, ArgEntries
<1>. QED
  BY <1>1, <1>2, <1>3 DEF ArgsTypeOK

LEMMA EraseType ==
  ASSUME ArgsTypeOK, NEW h, data_' = Erase(h), UNCHANGED gen_
  PROVE  ArgsTypeOK'
  BY DEF ArgsTypeOK, Erase, Restrict

LEMMA FlagType ==
  ASSUME ArgsTypeOK, NEW h, UNCHANGED gen_,
         \/ data_' = [data_ EXCEPT ![h].done = TRUE]
         \/ data_' = [data_ EXCEPT ![h].detached = TRUE]
  PROVE  ArgsTypeOK'
<1>1. DOMAIN data_' = DOMAIN data_
  OBVIOUS
<1>2. ASSUME NEW k \in DOMAIN data_ PROVE data_'[k] \in ArgEntries
  <2>1. data_[k] \in ArgEntries
    BY DEF ArgsTypeOK
  <2>2. CASE data_' = [data_ EXCEPT ![h].done = TRUE]
    <3>1. data_'[k] = IF k = h THEN [data_[k] EXCEPT !.done = TRUE] ELSE data_[k]
      BY <2>2
    <3>. QED
      BY <2>1, <3>1 DEF ArgEntries
  <2>3. CASE data_' = [data_ EXCEPT ![h].detached = TRUE]
    <3>1. data_'[k] = IF k = h THEN [data_[k] EXCEPT !.detached = TRUE] ELSE data_[k]
      BY <2>3
    <3>. QED
      BY <2>1, <3>1 DEF ArgEntries
  <2>. QED
    BY <2>2, <2>3
<1>. QED
  BY <1>1, <1>2 DEF ArgsTypeOK

LEMMA ArgsTypeStep ==
  ASSUME TypeOK, StructInv, [Next]_vars
  PROVE  ArgsTypeOK'
<1>. ArgsTypeOK
  BY DEF TypeOK, ArgsTypeOK
<1>. SUFFICES ASSUME ~UNCHANGED arg_vars PROVE ArgsTypeOK'
  BY DEF ArgsTypeOK, arg_vars
<1>1. ASSUME NEW c \in Callers, PthreadCreateLocked(c) PROVE ArgsTypeOK'
  <2>1. op[c].h \in Handles /\ op[c].flag \in BOOLEAN /\ op[c].serial \in Nat
    <3>1. op[c].step = "create_locked" /\ op[c] \in Operations
      BY <1>1 DEF PthreadCreateLocked, At, TypeOK
    <3>. QED
      BY <3>1 DEF StructInv, CreateInv, OpenSteps, Operations
  <2>. QED
    BY <1>1, <2>1, CreateLockedType DEF PthreadCreateLocked
<1>2. ASSUME NEW c \in Callers, JoinAfter(c) PROVE ArgsTypeOK'
  BY <1>2, EraseType DEF JoinAfter, AfterJoin, UnchangedArgs, arg_vars
<1>3. ASSUME NEW c \in Callers, PthreadDetachLocked(c) PROVE ArgsTypeOK'
  BY <1>3, EraseType, FlagType
  DEF PthreadDetachLocked, DetachLocked, UnchangedArgs, arg_vars
<1>4. ASSUME NEW h \in Handles, ThreadReturn(h) PROVE ArgsTypeOK'
  BY <1>4, EraseType, FlagType DEF ThreadReturn, Finish, arg_vars
<1>5. ASSUME NEW c \in Callers, CreateStep(c) PROVE ArgsTypeOK'
  BY <1>1, <1>5 DEF CreateStep, XsanThreadCreate, PthreadCreateReturn, UnchangedArgs
<1>6. ASSUME NEW c \in Callers, JoinStep(c) PROVE ArgsTypeOK'
  BY <1>2, <1>6
  DEF JoinStep, JoinBefore, RealJoin, JoinThreadTid, RealTryJoinFails, NotJoined,
      RealJoinFails, UnchangedArgs
<1>7. ASSUME NEW c \in Callers, DetachStep(c) PROVE ArgsTypeOK'
  BY <1>3, <1>7 DEF DetachStep, RealDetach, DetachThreadTid, UnchangedArgs
<1>8. ASSUME NEW c \in Callers, ProgramStep(c) PROVE ArgsTypeOK'
  BY <1>8 DEF ProgramStep, RealPthreadCreate, JoinBegin, DetachBegin, ConsumeTid, Fork,
              UnchangedArgs
<1>9. ASSUME NEW h \in Handles, StartStep(h) \/ EndStep(h) \/ ThreadCancelled(h)
      PROVE  ArgsTypeOK'
  BY <1>9
  DEF StartStep, EndStep, ThreadGetArgs, ThreadStart, ThreadPostStarted, ThreadDestroy,
      ThreadExit, ThreadCancelled, UnchangedArgs
<1>. QED
  BY <1>4, <1>5, <1>6, <1>7, <1>8, <1>9 DEF Next, Terminated, vars, arg_vars

\* What libc knows of the threads, and the counters.
LibTypeOK ==
  /\ lib \in [Handles -> LibStates]
  /\ lib_detached \in [Handles -> BOOLEAN]
  /\ serial \in [Handles -> Nat]
  /\ tid_ \in [Handles -> Nat]
  /\ creator \in [Handles -> Callers]
  /\ joinable \subseteq Handles
  /\ args_owner \in Callers \cup {Nobody}
  /\ forker \in Callers \cup {Nobody}
  /\ creates \in 0 .. MaxCreates

LEMMA NewTidType ==
  ASSUME RegistryTypeOK
  PROVE  NewTid \in Nat
<1>1. Len(threads_) \in Nat /\ DOMAIN threads_ = 1 .. Len(threads_)
  BY ThreadsDomain
<1>2. CASE invalid_threads_ # <<>>
  <2>1. Head(invalid_threads_) \in DOMAIN threads_
    BY <1>2, HeadTailProperties DEF RegistryTypeOK
  <2>. QED
    BY <1>1, <1>2, <2>1 DEF NewTid
<1>3. CASE invalid_threads_ = <<>>
  BY <1>1, <1>3 DEF NewTid
<1>. QED
  BY <1>2, <1>3

LEMMA LibTypeStep ==
  ASSUME TypeOK, StructInv, [Next]_vars
  PROVE  LibTypeOK'
<1>. LibTypeOK
  BY DEF TypeOK, LibTypeOK
<1>1. ASSUME NEW c \in Callers, CreateStep(c) PROVE LibTypeOK'
  <2>1. CASE XsanThreadCreate(c)
    <3>1. NewTid \in Nat
      BY NewTidType DEF TypeOK
    <3>. QED
      BY <2>1, <3>1 DEF XsanThreadCreate, LibTypeOK
  <2>2. CASE PthreadCreateLocked(c)
    BY <2>2 DEF PthreadCreateLocked, Unlock, LibTypeOK, lib_vars
  <2>3. CASE PthreadCreateReturn(c)
    BY <2>3 DEF PthreadCreateReturn, LibTypeOK, lib_vars
  <2>. QED
    BY <1>1, <2>1, <2>2, <2>3 DEF CreateStep
<1>2. ASSUME NEW c \in Callers, JoinStep(c) PROVE LibTypeOK'
  <2>1. CASE RealJoin(c)
    BY <2>1 DEF RealJoin, ChildGoto, LibStates, LibTypeOK
  <2>2. CASE NotJoined(c) \/ RealJoinFails(c)
    <3>1. op[c].h \in Handles
      BY <2>2
      DEF NotJoined, RealJoinFails, At, StructInv, ReapInv, ReapSteps, HoldingSteps
    <3>. QED
      BY <2>2, <3>1 DEF NotJoined, RealJoinFails, LibTypeOK, lib_vars
  <2>3. CASE JoinBefore(c) \/ JoinAfter(c) \/ JoinThreadTid(c) \/ RealTryJoinFails(c)
    BY <2>3
    DEF JoinBefore, JoinAfter, JoinThreadTid, RealTryJoinFails, Locked, LibTypeOK,
        lib_vars
  <2>. QED
    BY <1>2, <2>1, <2>2, <2>3 DEF JoinStep
<1>3. ASSUME NEW c \in Callers, DetachStep(c) PROVE LibTypeOK'
  <2>1. CASE RealDetach(c)
    BY <2>1 DEF RealDetach, Lock, LibStates, LibTypeOK
  <2>2. CASE PthreadDetachLocked(c) \/ DetachThreadTid(c)
    BY <2>2 DEF PthreadDetachLocked, DetachThreadTid, Unlock, LibTypeOK, lib_vars
  <2>. QED
    BY <1>3, <2>1, <2>2 DEF DetachStep
<1>4. ASSUME NEW c \in Callers, ProgramStep(c) PROVE LibTypeOK'
  <2>1. ASSUME NEW h \in Handles, NEW det \in BOOLEAN, RealPthreadCreate(c, h, det)
        PROVE  LibTypeOK'
    BY <2>1, XsanPthreadAssumption DEF RealPthreadCreate, Lock, LibStates, LibTypeOK
  <2>2. ASSUME NEW h \in Handles, NEW step, NEW try, ConsumeTid(c, h, step, try)
        PROVE  LibTypeOK'
    BY <2>2 DEF ConsumeTid, LibTypeOK, lib_vars
  <2>3. CASE Fork(c)
    <3>1. /\ lib' \in [Handles -> LibStates] /\ serial' \in [Handles -> Nat]
          /\ tid_' \in [Handles -> Nat]
      BY <2>3 DEF Fork, LibStates, LibTypeOK
    <3>2. lib_detached' \in [Handles -> BOOLEAN]
      BY <2>3 DEF Fork, LibTypeOK
    <3>3. /\ creator' \in [Handles -> Callers] /\ joinable' \subseteq Handles
          /\ forker' \in Callers \cup {Nobody}
          /\ UNCHANGED <<args_owner, creates>>
      BY <2>3 DEF Fork, Callers, Locked
    <3>. QED
      BY <3>1, <3>2, <3>3 DEF LibTypeOK
  <2>. QED
    BY <1>4, <2>1, <2>2, <2>3 DEF ProgramStep, JoinBegin, DetachBegin
<1>5. ASSUME NEW h \in Handles, StartStep(h) PROVE LibTypeOK'
  BY <1>5
  DEF StartStep, ThreadGetArgs, ThreadStart, ThreadPostStarted, ChildGoto, Locked,
      LibStates, LibTypeOK
<1>6. ASSUME NEW h \in Handles, EndStep(h) \/ ThreadReturn(h) \/ ThreadCancelled(h)
      PROVE  LibTypeOK'
  BY <1>6
  DEF EndStep, ThreadReturn, ThreadCancelled, ThreadDestroy, ThreadExit, ChildGoto,
      Locked, LibStates, LibTypeOK
<1>7. CASE UNCHANGED vars
  BY <1>7 DEF vars, lib_vars, LibTypeOK
<1>. QED
  BY <1>1, <1>2, <1>3, <1>4, <1>5, <1>6, <1>7 DEF Next, Terminated

LEMMA OpTypeStep ==
  ASSUME TypeOK, StructInv, ArgInv, TidInv, [Next]_vars
  PROVE  op' \in [Callers -> Operations]
<1>. op \in [Callers -> Operations]
  BY DEF TypeOK
<1>1. ASSUME NEW c \in Callers, NEW s \in Steps, Goto(c, s) PROVE op' \in [Callers -> Operations]
  BY <1>1, GotoEffect
<1>2. ASSUME NEW c \in Callers, Return(c) PROVE op' \in [Callers -> Operations]
  BY <1>2, ReturnEffect
<1>3. ASSUME NEW c \in Callers, CreateStep(c) PROVE op' \in [Callers -> Operations]
  <2>1. CASE XsanThreadCreate(c)
    <3>1. op' = [op EXCEPT ![c].step = "wait_started", ![c].created = TRUE]
      BY <2>1 DEF XsanThreadCreate
    <3>2. [op[c] EXCEPT !.step = "wait_started", !.created = TRUE] \in Operations
      BY DEF Operations, Steps
    <3>3. op' = [op EXCEPT ![c] = [op[c] EXCEPT !.step = "wait_started", !.created = TRUE]]
      BY <3>1
    <3>. QED
      BY <3>2, <3>3
  <2>2. CASE PthreadCreateLocked(c) \/ PthreadCreateReturn(c)
    BY <1>1, <1>2, <2>2 DEF PthreadCreateLocked, PthreadCreateReturn, Steps
  <2>. QED
    BY <1>3, <2>1, <2>2 DEF CreateStep
<1>4. ASSUME NEW c \in Callers, JoinStep(c) PROVE op' \in [Callers -> Operations]
  <2>1. CASE JoinBefore(c)
    <3>1. op[c].h \in DOMAIN data_ => data_[op[c].h].gen \in Nat
      BY TypeFacts DEF ArgEntries
    <3>2. UNCHANGED op \/ op' = [op EXCEPT ![c].step = "real_join", ![c].gen = data_[op[c].h].gen]
      BY <2>1 DEF JoinBefore, BeforeJoin
    <3>3. op[c].h \in DOMAIN data_ \/ UNCHANGED op
      BY <2>1 DEF JoinBefore, BeforeJoinCheck
    <3>. QED
      BY <3>1, <3>2, <3>3 DEF Operations, Steps
  <2>2. CASE ~JoinBefore(c)
    BY <1>1, <1>2, <1>4, <2>2
    DEF JoinStep, RealJoin, JoinAfter, JoinThreadTid, RealTryJoinFails, NotJoined,
        RealJoinFails, Steps
  <2>. QED
    BY <2>1, <2>2
<1>5. ASSUME NEW c \in Callers, DetachStep(c) PROVE op' \in [Callers -> Operations]
  BY <1>1, <1>2, <1>5
  DEF DetachStep, RealDetach, PthreadDetachLocked, DetachThreadTid, Steps
<1>6. ASSUME NEW c \in Callers, ProgramStep(c) PROVE op' \in [Callers -> Operations]
  <2>1. ASSUME NEW h \in Handles, NEW det \in BOOLEAN, RealPthreadCreate(c, h, det)
        PROVE  op' \in [Callers -> Operations]
    <3>. DEFINE new == [Idle EXCEPT !.step = "create_locked", !.h = h, !.flag = det,
                                    !.serial = creates + 1]
    <3>1. new \in Operations
      <4>1. creates + 1 \in Nat
        BY TypeFacts
      <4>2. Idle \in Operations
        BY DEF Idle, Operations, Steps
      <4>. QED
        BY <4>1, <4>2 DEF Operations, Steps
    <3>2. op' = [op EXCEPT ![c] = new]
      BY <2>1 DEF RealPthreadCreate
    <3>. HIDE DEF new
    <3>. QED
      BY <3>1, <3>2
  <2>2. ASSUME NEW h \in Handles, NEW step \in {"before_join", "real_detach"},
               NEW try \in BOOLEAN, ConsumeTid(c, h, step, try)
        PROVE  op' \in [Callers -> Operations]
    <3>1. ~check_failed'
      BY <2>2, ConsumeTidTid DEF TidInv
    <3>2. serial[h] \in Nat /\ live_[h] \in Nat
      <4>1. h \in DOMAIN live_
        BY <2>2 DEF ConsumeTid, TidInv, LiveInv
      <4>. QED
        BY <4>1, ThreadsDomain, TypeFacts DEF TypeOK, RegistryTypeOK
    <3>3. op' = [op EXCEPT ![c] = [Idle EXCEPT !.step = step, !.h = h, !.flag = try,
                                     !.serial = serial[h], !.tid = live_[h]]]
      BY <2>2, <3>1 DEF ConsumeTid
    <3>. QED
      BY <3>2, <3>3 DEF Idle, Operations, Steps
  <2>3. CASE Fork(c)
    BY <2>3 DEF Fork, Idle, Operations, Steps
  <2>. QED
    BY <1>6, <2>1, <2>2, <2>3 DEF ProgramStep, JoinBegin, DetachBegin
<1>7. ASSUME NEW h \in Handles, StartStep(h) PROVE op' \in [Callers -> Operations]
  <2>1. CASE ThreadPostStarted(h)
    <3>1. /\ creator[h] \in Callers /\ op[creator[h]] \in Operations
          /\ op' = [op EXCEPT ![creator[h]] = [op[creator[h]] EXCEPT !.started = TRUE]]
      BY <2>1, TypeFacts DEF ThreadPostStarted
    <3>2. [op[creator[h]] EXCEPT !.started = TRUE] \in Operations
      BY <3>1 DEF Operations
    <3>. QED
      BY <3>1, <3>2
  <2>2. CASE ThreadGetArgs(h) \/ ThreadStart(h)
    BY <2>2 DEF ThreadGetArgs, ThreadStart
  <2>. QED
    BY <1>7, <2>1, <2>2 DEF StartStep
<1>8. ASSUME NEW h \in Handles, EndStep(h) \/ ThreadReturn(h) \/ ThreadCancelled(h)
      PROVE  op' \in [Callers -> Operations]
  BY <1>8 DEF EndStep, ThreadReturn, ThreadCancelled, ThreadDestroy, ThreadExit
<1>9. CASE UNCHANGED vars
  BY <1>9 DEF vars
<1>. QED
  BY <1>3, <1>4, <1>5, <1>6, <1>7, <1>8, <1>9 DEF Next, Terminated

-----------------------------------------------------------------------------
(***************************************************************************)
(* The inductive invariant.  Three hypotheses bound the program: it tries  *)
(* no failed join again (RetriesJoin), it creates fewer threads than the   *)
(* registry has contexts, and fewer than there are generation numbers.     *)
(***************************************************************************)
Scope == RetriesJoin = FALSE /\ MaxCreates < max_threads_ /\ MaxCreates <= kInvalidGen

PthreadInv == TypeOK /\ StructInv /\ ArgInv /\ TidInv

LEMMA TidStep ==
  ASSUME Scope, PthreadInv, [Next]_vars
  PROVE  TidInv'
<1>. TypeOK /\ StructInv /\ ArgInv /\ TidInv
  BY DEF PthreadInv
<1>1. ASSUME NEW c \in Callers, CreateStep(c) PROVE TidInv'
  BY <1>1, PthreadCreateLockedTid, XsanThreadCreateTid, PthreadCreateReturnTid
  DEF CreateStep, Scope
<1>2. ASSUME NEW c \in Callers, JoinStep(c) PROVE TidInv'
  BY <1>2, JoinBeforeTid, RealJoinTid, JoinAfterTid, JoinThreadTidTid,
     RealTryJoinFailsTid, NotJoinedTid, RealJoinFailsTid
  DEF JoinStep, Scope
<1>3. ASSUME NEW c \in Callers, DetachStep(c) PROVE TidInv'
  BY <1>3, RealDetachTid, PthreadDetachLockedTid, DetachThreadTidTid DEF DetachStep
<1>4. ASSUME NEW c \in Callers, ProgramStep(c) PROVE TidInv'
  BY <1>4, RealPthreadCreateTid, ConsumeTidTid, ForkTid
  DEF ProgramStep, JoinBegin, DetachBegin
<1>5. ASSUME NEW h \in Handles, StartStep(h) PROVE TidInv'
  BY <1>5, ThreadGetArgsTid, ThreadStartTid, ThreadPostStartedTid DEF StartStep
<1>6. ASSUME NEW h \in Handles, EndStep(h) \/ ThreadReturn(h) \/ ThreadCancelled(h)
      PROVE  TidInv'
  BY <1>6, ThreadDestroyTid, ThreadExitTid, ThreadReturnTid,
     ThreadCancelledTid DEF EndStep
<1>7. CASE UNCHANGED vars
  <2>1. /\ UNCHANGED <<registry_vars, check_failed>>
        /\ UNCHANGED <<lib, lib_detached, serial, creator, tid_, op, joinable, creates>>
    BY <1>7 DEF vars, lib_vars
  <2>2. RegistryInv' /\ ~check_failed'
    BY <2>1, RegistryUnchanged DEF TidInv
  <2>. QED
    BY <2>1, <2>2
    DEF TidInv, SerialsInv, HandleTidInv, OpTidInv, LiveInv, Registered, ContextOf,
        registry_vars
<1>. QED
  BY <1>1, <1>2, <1>3, <1>4, <1>5, <1>6, <1>7 DEF Next, Terminated

LEMMA PthreadInvInit == Init => PthreadInv
<1>. SUFFICES ASSUME Init PROVE PthreadInv
  OBVIOUS
<1>1. RegistryInv /\ ~check_failed
  BY RegistryInitInv DEF Init, RegistryInit
<1>2. StructInv /\ ArgInv
  BY StructInit, ArgsInit
<1>3. /\ \A h \in Handles : lib[h] = "none"
      /\ op = [c \in Callers |-> Idle]
      /\ joinable = {} /\ creates = 0 /\ DOMAIN live_ = {}
      /\ DOMAIN threads_ = {1} /\ threads_[1].serial = 0
  BY DEF Init, RegistryInit
<1>4. TypeOK
  <2>1. op \in [Callers -> Operations]
    BY <1>3 DEF Idle, Operations, Steps
  <2>2. /\ lib \in [Handles -> LibStates] /\ lib_detached \in [Handles -> BOOLEAN]
        /\ serial \in [Handles -> Nat] /\ tid_ \in [Handles -> Nat]
        /\ creator \in [Handles -> Callers]
    BY DEF Init, LibStates, Callers
  <2>3. DOMAIN data_ = {} /\ gen_ = 0 /\ args_owner = Nobody /\ forker = Nobody
    BY DEF Init, ArgRetvalInit
  <2>. QED
    BY <1>1, <1>3, <2>1, <2>2, <2>3, ThreadArgRetvalAssumption, XsanPthreadAssumption
    DEF TypeOK, RegistryInv
<1>5. TidInv
  <2>1. \A c \in Callers : op[c].step = "idle"
    BY <1>3 DEF Idle
  <2>. QED
    BY <1>1, <1>3, <2>1
    DEF TidInv, SerialsInv, HandleTidInv, OpTidInv, LiveInv, Registered, OpenSteps,
        ReapSteps, HoldingSteps, JoinedSteps, DetachedSteps
<1>. QED
  BY <1>2, <1>4, <1>5 DEF PthreadInv

LEMMA PthreadInvStep ==
  ASSUME Scope, PthreadInv, [Next]_vars
  PROVE  PthreadInv'
<1>1. StructInv'
  BY StructStep DEF PthreadInv
<1>2. ArgInv'
  BY ArgsStep DEF PthreadInv, Scope
<1>3. TidInv'
  BY TidStep
<1>4. TypeOK'
  <2>1. RegistryTypeOK'
    BY <1>3 DEF TidInv, RegistryInv
  <2>2. ArgsTypeOK' /\ LibTypeOK' /\ op' \in [Callers -> Operations]
    BY ArgsTypeStep, LibTypeStep, OpTypeStep DEF PthreadInv
  <2>. QED
    BY <2>1, <2>2 DEF TypeOK, ArgsTypeOK, LibTypeOK
<1>. QED
  BY <1>1, <1>2, <1>3, <1>4 DEF PthreadInv

LEMMA PthreadInvHolds == ASSUME Scope PROVE Spec => []PthreadInv
<1>1. PthreadInv /\ [Next]_vars => PthreadInv'
  BY PthreadInvStep
<1>. QED
  BY <1>1, PthreadInvInit, PTL DEF Spec

-----------------------------------------------------------------------------
(***************************************************************************)
(* The theorems.                                                           *)
(***************************************************************************)

\* Every variable keeps its type: thread ids stay in range, and every user id and
\* every quarantined context is one of the registry's.
THEOREM PthreadTypeCorrect == ASSUME Scope PROVE Spec => []TypeOK
<1>1. PthreadInv => TypeOK
  BY DEF PthreadInv
<1>. QED
  BY <1>1, PthreadInvHolds, PTL

\* No CHECK of the registry or of ThreadArgRetval fails, for any number of threads,
\* pthread_t values and quarantined contexts.
THEOREM NoCheckEverFails == ASSUME Scope PROVE Spec => []NoCheckFails
<1>1. PthreadInv => NoCheckFails
  BY DEF PthreadInv, TidInv, NoCheckFails
<1>. QED
  BY <1>1, PthreadInvHolds, PTL

\* The registry's map from user ids to contexts is exact.
THEOREM UserIdsAreExact == ASSUME Scope PROVE Spec => []LiveIsExact
<1>1. PthreadInv => LiveIsExact
  BY DEF PthreadInv, TidInv, RegistryInv, UsersInv, LiveInv, ContextOf, LiveIsExact
<1>. QED
  BY <1>1, PthreadInvHolds, PTL

\* A join or detach acts on the context of the thread the program meant, though the
\* pthread_t and the context may be reused meanwhile.
THEOREM JoinsAreOfTheRightThread == ASSUME Scope PROVE Spec => []JoinsTheRightThread
<1>1. PthreadInv => JoinsTheRightThread
  BY DEF PthreadInv, TidInv, OpTidInv, ContextOf, JoinsTheRightThread, ReapSteps,
     HoldingSteps, JoinedSteps, DetachedSteps
<1>. QED
  BY <1>1, PthreadInvHolds, PTL

\* ThreadArgRetval finds the argument of every thread that runs, and the return value
\* of every thread that may still be joined.
THEOREM ArgsStayAlive == ASSUME Scope PROVE Spec => []ArgsKeptAlive
<1>1. PthreadInv => ArgsKeptAlive
  <2>. SUFFICES ASSUME PthreadInv, NEW h \in Handles,
                       \/ lib[h] \in {"got_args", "thread_started", "running", "zombie"}
                       \/ lib[h] \in {"finishing", "destroyed"} /\ ~lib_detached[h]
                PROVE  h \in DOMAIN data_ /\ data_[h].args = serial[h]
    BY DEF ArgsKeptAlive
  <2>1. Entered(h) /\ (lib[h] \notin EndedStates \/ ~lib_detached[h])
    BY DEF PthreadInv, StructInv, ThreadInv, Entered, EndedStates
  <2>. QED
    BY <2>1 DEF PthreadInv, ArgInv, EntryInv
<1>. QED
  BY <1>1, PthreadInvHolds, PTL

\* The ThreadParam is on its creator's stack as long as the new thread uses it.
THEOREM ParamStaysValid == ASSUME Scope PROVE Spec => []ParamOutlivesUse
<1>1. PthreadInv => ParamOutlivesUse
  BY DEF PthreadInv, StructInv, ThreadInv, ParamOutlivesUse, StartingStates, OpenSteps
<1>. QED
  BY <1>1, PthreadInvHolds, PTL

\* Nothing is kept for ever, as long as nobody forks: the return value of a thread that
\* has exited is dropped by whoever is joining or detaching it.
THEOREM StaleArgsAreDropped ==
  ASSUME Scope, MayFork = FALSE PROVE Spec => []NoStaleArgs
<1>1. Init => PthreadInv /\ NoStaleInv
  BY PthreadInvInit, StaleInit
<1>2. (PthreadInv /\ NoStaleInv) /\ [Next]_vars => (PthreadInv /\ NoStaleInv)'
  BY PthreadInvStep, StaleStep DEF PthreadInv, Scope
<1>3. PthreadInv /\ NoStaleInv => NoStaleArgs
  <2>. SUFFICES ASSUME PthreadInv, NoStaleInv, NEW h \in DOMAIN data_, data_[h].done,
                       lib[h] = "none"
                PROVE  \E c \in Callers :
                         op[c].step \in {"after_join", "detach_locked"} /\ op[c].h = h
    BY DEF NoStaleArgs
  <2>1. h \in Handles
    BY DEF PthreadInv, TypeOK
  <2>. QED
    BY <2>1 DEF NoStaleInv, StaleInv, ReapUnderWay
<1>. QED
  BY <1>1, <1>2, <1>3, PTL DEF Spec

\* The table keeps for each thread what ThreadArgRetval promises it, whatever happens to
\* its pthread_t: each step maps to a step of KeptArgs or a stutter.
THEOREM TableKeepsItsPromise ==
  ASSUME Scope, MayFork = FALSE PROVE Spec => ImplementsKeptArgs
<1>. DEFINE Kept == [n \in 1 .. MaxCreates |-> KeptOf(n)]
<1>1. TypeOK /\ KeptInv => KeptAgrees
  BY KeptOfAgrees
<1>2. TypeOK' /\ KeptInv' => KeptAgrees'
  BY KeptOfAgrees, PTL
<1>3. Init => PthreadInv /\ KeptInv
  BY PthreadInvInit, KeptInitInv
<1>4. PthreadInv /\ KeptInv /\ [Next]_vars => (PthreadInv /\ KeptInv)'
  BY <1>1, PthreadInvStep, KeptStep DEF PthreadInv, Scope
<1>5. Init => Keeper!KeptInit
  <2>1. Init /\ KeptAgrees => Keeper!KeptInit
    BY XsanPthreadAssumption DEF Init, KeptAgrees, Keeper!KeptInit
  <2>. QED
    BY <1>1, <1>3, <2>1 DEF PthreadInv
<1>6. PthreadInv /\ KeptInv /\ [Next]_vars => [Keeper!KeptNext]_Kept
  <2>. SUFFICES ASSUME PthreadInv, KeptInv, [Next]_vars PROVE Keeper!KeptNext
    OBVIOUS
  <2>1. KeptAgrees /\ KeptAgrees'
    BY <1>1, <1>2, <1>4 DEF PthreadInv
  <2>2. LifeStep
    BY <2>1, KeptStep DEF PthreadInv, Scope
  <2>. QED
    BY <2>2 DEF LifeStep, MayBecome, Keeper!KeptNext
<1>. QED
  BY <1>3, <1>4, <1>5, <1>6, PTL DEF Spec, ImplementsKeptArgs, Keeper!KeptSpec

=============================================================================
