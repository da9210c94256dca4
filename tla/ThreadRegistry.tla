--------------------------- MODULE ThreadRegistry ---------------------------
(***************************************************************************)
(* sanitizer_common's ThreadRegistry: a context per thread id, the map     *)
(* live_ from pthread_t to thread id, and the quarantine through which the *)
(* contexts of dead threads are reused.  Each operation holds the registry *)
(* lock throughout, so each is one step of the thread that calls it.       *)
(*                                                                         *)
(* A thread id is an index of threads_; the main thread has the first.     *)
(***************************************************************************)
EXTENDS Naturals, Sequences, Functions

CONSTANTS
  Handles,                  \* pthread_t values
  NoHandle,                 \* a user_id of 0
  max_threads_,
  thread_quarantine_size_,
  max_reuse_

ASSUME ThreadRegistryAssumption ==
  /\ NoHandle \notin Handles
  /\ {max_threads_, thread_quarantine_size_, max_reuse_} \subseteq Nat

VARIABLES
  threads_,          \* the contexts
  live_,             \* the user ids in use, each with its thread id
  dead_threads_,     \* the quarantine, a queue of thread ids
  invalid_threads_,  \* thread ids to be reused
  alive_threads_,    \* threads created and not finished
  running_threads_,  \* threads started and not finished
  check_failed       \* a CHECK of the runtime failed

registry_vars ==
  <<threads_, live_, dead_threads_, invalid_threads_, alive_threads_,
    running_threads_>>

kMainTid == 1

ThreadStatus == {"Invalid", "Created", "Running", "Finished", "Dead"}

\* serial identifies the thread a context stands for; the code has no such
\* field, but its TSan subclass holds that thread's clock and traces.
ThreadContexts ==
  [status : ThreadStatus, user_id : Handles \cup {NoHandle}, detached : BOOLEAN,
   thread_destroyed : BOOLEAN, reuse_count : Nat, serial : Nat]

\* A CHECK: the effect takes place only when it holds.
Checked(cond, effect) ==
  IF cond THEN effect /\ UNCHANGED check_failed
          ELSE check_failed' = TRUE /\ UNCHANGED registry_vars

\* live_ without the user id u, if it has one.
EraseLive(u) == Restrict(live_, DOMAIN live_ \ {u})

Queues == <<dead_threads_, invalid_threads_>>

\* The contexts and queues once t joins the quarantine of dead contexts: when
\* that is full its oldest member is reset and may be reused.  FinishThread marks
\* t destroyed only after that, even when t itself was reset.
QuarantinePush(ctxs, t, finishing) ==
  LET dead == Append(dead_threads_, t)
      old  == Head(dead)
      reused == ctxs[old].reuse_count + 1
  IN IF t = kMainTid
     THEN threads_' = ctxs /\ UNCHANGED Queues
     ELSE IF Len(dead) <= thread_quarantine_size_
     THEN /\ threads_' = ctxs
          /\ dead_threads_' = dead
          /\ UNCHANGED invalid_threads_
     ELSE /\ threads_' = [ctxs EXCEPT ![old].status = "Invalid",
                                      ![old].thread_destroyed = (old = t /\ finishing),
                                      ![old].reuse_count = reused]
          /\ dead_threads_' = Tail(dead)
          /\ invalid_threads_' = IF max_reuse_ > 0 /\ reused >= max_reuse_
                                 THEN invalid_threads_
                                 ELSE Append(invalid_threads_, old)

\* The thread id CreateThread returns: QuarantinePop, or a new context.
NewTid == IF invalid_threads_ # <<>> THEN Head(invalid_threads_)
          ELSE Len(threads_) + 1

CreateThread(user_id, detached, serial) ==
  LET t == NewTid
      c == [status |-> "Created", user_id |-> user_id, detached |-> detached,
            thread_destroyed |-> t \in DOMAIN threads_ /\ threads_[t].thread_destroyed,
            reuse_count |-> IF t \in DOMAIN threads_
                            THEN threads_[t].reuse_count ELSE 0,
            serial |-> serial]
  IN Checked(
       /\ t <= max_threads_
       /\ t \in DOMAIN threads_ => threads_[t].status = "Invalid"
       /\ user_id \notin DOMAIN live_,
       /\ threads_' = IF t \in DOMAIN threads_ THEN [threads_ EXCEPT ![t] = c]
                      ELSE Append(threads_, c)
       /\ invalid_threads_' = IF t \in DOMAIN threads_ THEN Tail(invalid_threads_)
                              ELSE invalid_threads_
       /\ live_' = [u \in DOMAIN live_ \cup {user_id} |->
                      IF u = user_id THEN t ELSE live_[u]]
       /\ alive_threads_' = alive_threads_ + 1
       /\ UNCHANGED <<dead_threads_, running_threads_>>)

StartThread(t) ==
  Checked(
    threads_[t].status = "Created",
    /\ threads_' = [threads_ EXCEPT ![t].status = "Running"]
    /\ running_threads_' = running_threads_ + 1
    /\ UNCHANGED <<live_, Queues, alive_threads_>>)

\* FinishThread of a thread that was started.
FinishThread_AlwaysDead(t) ==
  LET c == [threads_[t] EXCEPT !.thread_destroyed = TRUE] IN
  Checked(
    /\ alive_threads_ > 0 /\ running_threads_ > 0 /\ c.status = "Running",
    /\ alive_threads_' = alive_threads_ - 1
    /\ running_threads_' = running_threads_ - 1
    /\ live_' = EraseLive(c.user_id)
    /\ QuarantinePush([threads_ EXCEPT ![t] =
                         [c EXCEPT !.status = "Dead", !.user_id = NoHandle]], t, TRUE))

FinishThread(t) ==
  LET c == [threads_[t] EXCEPT !.thread_destroyed = TRUE] IN
  Checked(
    /\ alive_threads_ > 0 /\ running_threads_ > 0 /\ c.status = "Running",
    /\ alive_threads_' = alive_threads_ - 1
    /\ running_threads_' = running_threads_ - 1
    /\ IF c.detached
       THEN /\ live_' = EraseLive(c.user_id)
            /\ QuarantinePush([threads_ EXCEPT ![t] =
                 [c EXCEPT !.status = "Dead", !.user_id = NoHandle]], t, TRUE)
       ELSE /\ threads_' = [threads_ EXCEPT ![t] =
                              [c EXCEPT !.status = "Finished"]]
            /\ UNCHANGED <<live_, Queues>>)

\* JoinThread spins, giving up the lock, until the thread is destroyed; only
\* its last turn changes anything.  A context that was reset is reported.
JoinThreadReady(t) ==
  threads_[t].status = "Invalid" \/ threads_[t].thread_destroyed

JoinThread(t) ==
  LET c == threads_[t] IN
  IF c.status = "Invalid"
  THEN UNCHANGED <<registry_vars, check_failed>>
  ELSE Checked(
         ~c.detached /\ c.status = "Finished",
         /\ live_' = EraseLive(c.user_id)
         /\ QuarantinePush([threads_ EXCEPT ![t] =
              [c EXCEPT !.status = "Dead", !.user_id = NoHandle]], t, FALSE)
         /\ UNCHANGED <<alive_threads_, running_threads_>>)

DetachThread(t) ==
  LET c == threads_[t] IN
  /\ UNCHANGED <<alive_threads_, running_threads_, check_failed>>
  /\ CASE c.status = "Invalid" -> UNCHANGED <<threads_, live_, Queues>>
       [] c.status = "Finished" ->
            /\ live_' = EraseLive(c.user_id)
            /\ QuarantinePush([threads_ EXCEPT ![t] =
                 [c EXCEPT !.status = "Dead", !.user_id = NoHandle]], t, FALSE)
       [] OTHER ->
            /\ threads_' = [threads_ EXCEPT ![t].detached = TRUE]
            /\ UNCHANGED <<live_, Queues>>

\* The caller reads the thread id ConsumeThreadUserId returns from live_.
ConsumeThreadUserId_KeepsUser(user_id) ==
  Checked(
    user_id \in DOMAIN live_ /\ threads_[live_[user_id]].user_id = user_id,
    /\ live_' = EraseLive(user_id)
    /\ UNCHANGED <<threads_, Queues, alive_threads_, running_threads_>>)

ConsumeThreadUserId(user_id) ==
  Checked(
    user_id \in DOMAIN live_ /\ threads_[live_[user_id]].user_id = user_id,
    /\ threads_' = [threads_ EXCEPT ![live_[user_id]].user_id = NoHandle]
    /\ live_' = EraseLive(user_id)
    /\ UNCHANGED <<Queues, alive_threads_, running_threads_>>)

SetThreadUserId(t, user_id) ==
  Checked(
    /\ threads_[t].status \notin {"Invalid", "Dead"}
    /\ threads_[t].user_id = NoHandle
    /\ user_id \notin DOMAIN live_,
    /\ threads_' = [threads_ EXCEPT ![t].user_id = user_id]
    /\ live_' = [u \in DOMAIN live_ \cup {user_id} |->
                   IF u = user_id THEN t ELSE live_[u]]
    /\ UNCHANGED <<Queues, alive_threads_, running_threads_>>)

\* The child of fork keeps the contexts of the threads it lacks, and forgets their
\* user ids: a new thread may get one of them.
OnFork_KeepsUsers(tid) == UNCHANGED <<registry_vars, check_failed>>

OnFork_KeepsLive(tid) ==
  /\ threads_' = [t \in DOMAIN threads_ |->
                    [threads_[t] EXCEPT !.user_id = IF t = tid THEN @ ELSE NoHandle]]
  /\ UNCHANGED <<live_, Queues, alive_threads_, running_threads_, check_failed>>

OnFork(tid) ==
  LET others == {t \in DOMAIN threads_ \ {tid} : threads_[t].user_id # NoHandle}
      users == {threads_[t].user_id : t \in others}
  IN  Checked(
        users \subseteq DOMAIN live_,
        /\ threads_' = [t \in DOMAIN threads_ |->
             IF t \in others THEN [threads_[t] EXCEPT !.user_id = NoHandle] ELSE threads_[t]]
        /\ live_' = Restrict(live_, DOMAIN live_ \ users)
        /\ UNCHANGED <<Queues, alive_threads_, running_threads_>>)

\* The registry once the main thread, which has no user id, runs.
RegistryInit ==
  /\ threads_ = <<[status |-> "Running", user_id |-> NoHandle, detached |-> TRUE,
                   thread_destroyed |-> FALSE, reuse_count |-> 0, serial |-> 0]>>
  /\ live_ = <<>>
  /\ dead_threads_ = <<>>
  /\ invalid_threads_ = <<>>
  /\ alive_threads_ = 1
  /\ running_threads_ = 1
  /\ check_failed = FALSE

RegistryTypeOK ==
  /\ threads_ \in Seq(ThreadContexts)
  /\ DOMAIN live_ \subseteq Handles
  /\ \A u \in DOMAIN live_ : live_[u] \in DOMAIN threads_
  /\ dead_threads_ \in Seq(DOMAIN threads_)
  /\ invalid_threads_ \in Seq(DOMAIN threads_)
  /\ alive_threads_ \in Nat
  /\ running_threads_ \in Nat
  /\ check_failed \in BOOLEAN

=============================================================================
