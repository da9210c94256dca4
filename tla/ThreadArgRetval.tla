--------------------------- MODULE ThreadArgRetval ---------------------------
(***************************************************************************)
(* sanitizer_common's ThreadArgRetval: from pthread_create until the join  *)
(* or detach, it keeps the argument, then the return value, of each thread *)
(* for leak checking, and hands the new thread its routine and argument.   *)
(* Entries are keyed by pthread_t, which libc reuses: a generation number  *)
(* tells the entries of one pthread_t apart.                               *)
(*                                                                         *)
(* The mutex of the object is held by Create across the real               *)
(* pthread_create, and by Detach across the real pthread_detach.           *)
(***************************************************************************)
EXTENDS Naturals, Functions

CONSTANTS
  kInvalidGen,  \* the generation number that is skipped: UINT32_MAX
  Nobody        \* no thread holds the mutex

ASSUME ThreadArgRetvalAssumption == kInvalidGen \in Nat \ {0}

VARIABLES
  data_,      \* the entries, a function of the pthread_t that have one
  gen_,       \* the next generation number
  args_owner  \* the thread that holds the mutex

arg_vars == <<data_, gen_>>

Lock(c) == args_owner = Nobody /\ args_owner' = c
Unlock == args_owner' = Nobody

\* Lock, one short operation, Unlock.
Locked == args_owner = Nobody /\ UNCHANGED args_owner

Erase(thread) == Restrict(data_, DOMAIN data_ \ {thread})

CreateLocked_NoWrap(thread, detached, args) ==
  LET t == [gen |-> gen_, detached |-> detached, done |-> FALSE, args |-> args] IN
  /\ data_' = [h \in DOMAIN data_ \cup {thread} |->
                 IF h = thread THEN t ELSE data_[h]]
  /\ gen_' = gen_ + 1

CreateLocked(thread, detached, args) ==
  LET t == [gen |-> gen_, detached |-> detached, done |-> FALSE, args |-> args] IN
  /\ data_' = [h \in DOMAIN data_ \cup {thread} |->
                 IF h = thread THEN t ELSE data_[h]]
  /\ gen_' = IF gen_ + 1 = kInvalidGen THEN 0 ELSE gen_ + 1

\* GetArgs of a thread that is starting: the CHECK, and what it returns.
GetArgsCheck(thread) == thread \in DOMAIN data_
GetArgs(thread) == data_[thread].args

Finish_KeepsDetached(thread) ==
  /\ data_' = IF thread \in DOMAIN data_
              THEN [data_ EXCEPT ![thread].done = TRUE] ELSE data_
  /\ UNCHANGED gen_

Finish(thread) ==
  /\ data_' = CASE thread \notin DOMAIN data_ -> data_
                [] thread \in DOMAIN data_ /\ data_[thread].detached ->
                     Erase(thread)
                [] OTHER -> [data_ EXCEPT ![thread].done = TRUE]
  /\ UNCHANGED gen_

\* BeforeJoin dies for a thread already joined or detached; else its result.
BeforeJoinCheck(thread) ==
  thread \in DOMAIN data_ /\ ~data_[thread].detached
BeforeJoin(thread) == data_[thread].gen

AfterJoin_AnyGen(thread, gen) ==
  /\ data_' = Erase(thread)
  /\ UNCHANGED gen_

\* Another thread may have got the pthread_t since the real join.
AfterJoin(thread, gen) ==
  /\ data_' = IF thread \in DOMAIN data_ /\ gen = data_[thread].gen
              THEN Erase(thread) ELSE data_
  /\ UNCHANGED gen_

AfterJoinCheck(thread, gen) ==
  (thread \in DOMAIN data_ /\ gen = data_[thread].gen) =>
    ~data_[thread].detached

DetachLockedCheck(thread) ==
  thread \in DOMAIN data_ /\ ~data_[thread].detached

DetachLocked_Erases(thread) ==
  /\ data_' = Erase(thread)
  /\ UNCHANGED gen_

DetachLocked(thread) ==
  /\ data_' = IF data_[thread].done THEN Erase(thread)
              ELSE [data_ EXCEPT ![thread].detached = TRUE]
  /\ UNCHANGED gen_

ArgRetvalInit ==
  /\ data_ = <<>>
  /\ gen_ = 0
  /\ args_owner = Nobody

=============================================================================
