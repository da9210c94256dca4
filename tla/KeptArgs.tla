-------------------------------- MODULE KeptArgs --------------------------------
(***************************************************************************)
(* What the argument keeper promises each thread (the comment above        *)
(* ThreadArgRetval, sanitizer_thread_arg_retval.h:24-29), whatever         *)
(* pthread_t the thread has and however operations on it overlap: its      *)
(* argument is kept until it finishes, its return value until somebody     *)
(* joins or detaches it, and nothing after that.  Only the thread itself   *)
(* can end the keeping of its argument.                                    *)
(***************************************************************************)
CONSTANT Threads

VARIABLE kept

KeptInit == \A t \in Threads : kept[t] = "none"

\* What may become of one thread's argument: pairs of what was and what is kept.
Keep == {"none"} \X {"arg", "arg_detached"}

\* Nobody will ask for the return value of a detached thread.
Finish == {<<"arg", "retval">>, <<"arg_detached", "dropped">>}

\* A cancelled thread is never told finished.
Cancel == {"arg", "arg_detached"} \X {"orphan"}

Detach == {<<"arg", "arg_detached">>}

\* The thread is over, and joined or detached.
Reap == {"retval", "orphan"} \X {"dropped"}

Life == UNION {Keep, Finish, Cancel, Detach, Reap}

KeptNext ==
  \A t \in Threads :
    LET step == <<kept[t], kept'[t]>> IN step[1] = step[2] \/ step \in Life

KeptSpec == KeptInit /\ [][KeptNext]_kept
================================================================================
