------------------------- MODULE MainThreadTsanProofs -------------------------
(***************************************************************************)
(* Proofs about MainThreadTsan for any number of threads, any nesting of   *)
(* handlers and annotations, and either value of every flag; the theorems  *)
(* that need handlers to call no pthread function say so.                  *)
(*                                                                         *)
(* TSan is switched off only while the main thread is alone: each          *)
(* operation in progress owns the thread it is about (OpInv), and the      *)
(* counter that is_now_all_joined reads is exact.  Each ignore counter is  *)
(* the sum of what asked for it (BalanceInv), so that clocks are acquired  *)
(* where they must be and no joined thread's history is lost (HandOverInv, *)
(* HistoryInv).                                                            *)
(***************************************************************************)
EXTENDS MainThreadTsan, FiniteSetTheorems, TLAPS

-----------------------------------------------------------------------------
(* Types                                                                   *)

TypeInv == TypeOK /\ TargetInv /\ HandlerCountInv

\* The ignore counters stay naturals through each operation on them, as the
\* CHECK_GT of the end operations demands.
LEMMA IgnoreTypes ==
  ASSUME NEW s \in Ignores
  PROVE  /\ ThreadIgnoreBegin(s) \in Ignores
         /\ ThreadIgnoreBegin(s).rw > 0
         /\ s.rw > 0 => ThreadIgnoreEnd(s) \in Ignores
         /\ DisableTsan(s) \in Ignores /\ DisableTsan(s).rw > 0
         /\ EndChecks(s) => EnableTsan(s) \in Ignores
         /\ StoreCurrentTsanState(s) \in [rw : Nat, sync : Nat]
  <1> USE DEF Ignores
  <1>1. ThreadIgnoreBegin(s) \in Ignores /\ ThreadIgnoreBegin(s).rw > 0
    BY DEF ThreadIgnoreBegin
  <1>2. s.rw > 0 => ThreadIgnoreEnd(s) \in Ignores
    BY DEF ThreadIgnoreEnd
  <1>3. DisableTsan(s) \in Ignores /\ DisableTsan(s).rw > 0
    BY DEF DisableTsan, ThreadIgnoreBegin
  <1>4. EndChecks(s) => EnableTsan(s) \in Ignores
    <2>1. s.rw > 0 => ThreadIgnoreEnd(s).sync = s.sync
      BY DEF ThreadIgnoreEnd
    <2> QED BY <1>2, <2>1 DEF EndChecks, EnableTsan
  <1>5. StoreCurrentTsanState(s) \in [rw : Nat, sync : Nat]
    BY DEF StoreCurrentTsanState
  <1> QED BY <1>1, <1>2, <1>3, <1>4, <1>5

\* Whether TSan is switched off or on, the main thread's state keeps its type,
\* and no other thread's ignores change.
LEMMA DisableTypes ==
  ASSUME TypeOK, DisableMainThreadTsan
  PROVE  /\ MainThreadTsanDisabled' \in BOOLEAN
         /\ main_thread_state' \in [rw : Nat, sync : Nat]
         /\ ignores' \in [AllThreads -> Ignores]
         /\ \A p \in AllThreads \ {Main} : ignores'[p] = ignores[p]
  <1>1. ignores \in [AllThreads -> Ignores] /\ Main \in AllThreads
    BY DEF TypeOK, IgnoreTypeOK, AllThreads
  <1>2. /\ DisableTsan(ignores[Main]) \in Ignores
        /\ StoreCurrentTsanState(DisableTsan(ignores[Main]))
             \in [rw : Nat, sync : Nat]
    BY <1>1, IgnoreTypes
  <1> QED BY <1>1, <1>2 DEF DisableMainThreadTsan, TypeOK, IgnoreTypeOK, main_vars

\* Switching TSan on keeps the types of the main thread's state.
LEMMA EnableTypes ==
  ASSUME TypeOK, EnableMainThreadTsan
  PROVE  /\ MainThreadTsanDisabled' \in BOOLEAN
         /\ main_thread_state' \in [rw : Nat, sync : Nat]
         /\ ignores' \in [AllThreads -> Ignores]
         /\ check_failed' \in BOOLEAN
         /\ \A p \in AllThreads \ {Main} : ignores'[p] = ignores[p]
  <1>1. ignores \in [AllThreads -> Ignores] /\ Main \in AllThreads
    BY DEF TypeOK, IgnoreTypeOK, AllThreads
  <1>2. EndChecks(ignores[Main]) =>
          /\ EnableTsan(ignores[Main]) \in Ignores
          /\ StoreCurrentTsanState(EnableTsan(ignores[Main]))
               \in [rw : Nat, sync : Nat]
    BY <1>1, IgnoreTypes
  <1> QED BY <1>1, <1>2 DEF EnableMainThreadTsan, TypeOK, IgnoreTypeOK, main_vars

\* So does the switch that spares tsan_ignore_runtime.
LEMMA MaybeEnableTypes ==
  ASSUME TypeOK, NEW p, MaybeEnableMainThreadTsan(p)
  PROVE  /\ MainThreadTsanDisabled' \in BOOLEAN
         /\ main_thread_state' \in [rw : Nat, sync : Nat]
         /\ ignores' \in [AllThreads -> Ignores]
         /\ check_failed' \in BOOLEAN
         /\ \A q \in AllThreads \ {Main} : ignores'[q] = ignores[q]
         /\ p # Main => ignores' = ignores
  <1>1. CASE SupportSingleThreadOptimization(p) /\ EnableMainThreadTsan
    BY <1>1, EnableTypes DEF SupportSingleThreadOptimization
  <1>2. CASE UNCHANGED <<main_vars, ignores, check_failed>>
    BY <1>2 DEF TypeOK, IgnoreTypeOK, main_vars
  <1> QED BY <1>1, <1>2 DEF MaybeEnableMainThreadTsan

-----------------------------------------------------------------------------
(* Sequences of handler frames                                             *)

\* Entering a handler pushes one frame above those there are.
LEMMA AppendFrame ==
  ASSUME NEW S, NEW s \in Seq(S), NEW e \in S
  PROVE  /\ Append(s, e) \in Seq(S)
         /\ Len(Append(s, e)) = Len(s) + 1
         /\ DOMAIN Append(s, e) = 1 .. Len(s) + 1
         /\ \A i \in 1 .. Len(s) : Append(s, e)[i] = s[i]
         /\ Append(s, e)[Len(s) + 1] = e
  OBVIOUS

\* Leaving by longjmp keeps the frames below the target.
LEMMA PrefixFrames ==
  ASSUME NEW S, NEW s \in Seq(S), NEW n \in 0 .. Len(s)
  PROVE  /\ SubSeq(s, 1, n) \in Seq(S)
         /\ Len(SubSeq(s, 1, n)) = n
         /\ DOMAIN SubSeq(s, 1, n) = 1 .. n
         /\ \A i \in 1 .. n : SubSeq(s, 1, n)[i] = s[i]
  OBVIOUS

-----------------------------------------------------------------------------
(* The type invariant                                                      *)

\* The initial states have the types.
LEMMA TypeInit == Init => TypeInv
  <1> SUFFICES ASSUME Init PROVE TypeInv
    OBVIOUS
  <1> USE MainThreadTsanAssumption
  <1>1. NoIgnores \in Ignores
    BY DEF NoIgnores, Ignores
  <1>2. DisableTsan(NoIgnores) \in Ignores
    BY <1>1, IgnoreTypes
  <1>3. main_thread_state \in [rw : Nat, sync : Nat]
    BY <1>2, IgnoreTypes DEF Init
  <1>4. ignores \in [AllThreads -> Ignores]
    BY <1>1, <1>2 DEF Init
  <1>5. TypeOK
    <2>1. ThreadTypeOK
      <3>1. status \in [Threads -> Statuses] /\ sync \in [Threads -> SUBSET Threads]
        BY DEF Init, Statuses
      <3>2. detached \in [Threads -> BOOLEAN] /\ claimed \in [Threads -> BOOLEAN]
        BY DEF Init
      <3>3. clock \in [AllThreads -> SUBSET Threads]
        BY DEF Init
      <3> QED BY <3>1, <3>2, <3>3 DEF ThreadTypeOK
    <2>2. CounterTypeOK
      BY DEF Init, CounterTypeOK
    <2>3. OpTypeOK
      BY DEF Init, Ops, OpTypeOK
    <2>4. IgnoreTypeOK
      BY <1>3, <1>4 DEF Init, IgnoreTypeOK
    <2>5. SignalTypeOK
      BY DEF Init, NoJmpBuf, SignalTypeOK
    <2>6. EndTypeOK
      BY DEF Init, EndTypeOK
    <2> QED BY <2>1, <2>2, <2>3, <2>4, <2>5, <2>6 DEF TypeOK
  <1>6. TargetInv
    BY DEF Init, TargetInv, CreateOps, JoinOps
  <1>7. HandlerCountInv
    BY DEF Init, HandlerCountInv, NoJmpBuf
  <1> QED BY <1>5, <1>6, <1>7 DEF TypeInv

\* Steps of pthread_create keep the types.
LEMMA CreateStepTypes ==
  ASSUME TypeInv, NEW p \in AllThreads, CreateStep(p)
  PROVE  TypeInv'
  <1> USE MainThreadTsanAssumption DEF TypeInv
  <1>a. Main \in AllThreads /\ Threads \subseteq AllThreads
    BY DEF AllThreads
  <1>1. ASSUME NEW t \in Threads, NEW det \in BOOLEAN, ThreadCreate(p, t, det) PROVE TypeInv'
    <2>1. ThreadTypeOK'
      BY <1>a, <1>1 DEF TypeOK, ThreadTypeOK, Statuses, ThreadCreate
    <2>2. CounterTypeOK'
      BY <1>a, <1>1 DEF TypeOK, CounterTypeOK, ThreadCreate
    <2>3. OpTypeOK'
      BY <1>a, <1>1 DEF TypeOK, OpTypeOK, Ops, Goto, ThreadCreate
    <2>4. TargetInv'
      BY <1>a, <1>1 DEF TypeOK, OpTypeOK, IgnoreTypeOK, TargetInv, CreateOps,
           JoinOps, Goto, ThreadCreate, op_vars, signal_vars
    <2>5. IgnoreTypeOK' /\ SignalTypeOK' /\ EndTypeOK' /\ HandlerCountInv'
      BY <1>1 DEF TypeOK, IgnoreTypeOK, SignalTypeOK, EndTypeOK,
           HandlerCountInv, ThreadCreate, main_vars, end_vars, signal_vars
    <2> QED BY <2>1, <2>2, <2>3, <2>4, <2>5 DEF TypeOK
  <1>2. CASE ThreadCreateActivate(p)
    <2>1. ThreadTypeOK'
      BY <1>a, <1>2 DEF TypeOK, ThreadTypeOK, Statuses, ThreadCreateActivate
    <2>2. OpTypeOK'
      BY <1>a, <1>2 DEF TypeOK, OpTypeOK, Ops, Goto, ThreadCreateActivate
    <2>3. IgnoreTypeOK'
      BY <1>2, MaybeEnableTypes DEF TypeOK, IgnoreTypeOK, ThreadCreateActivate
    <2>4. TargetInv'
      BY <1>a, <1>2, MaybeEnableTypes DEF TypeOK, OpTypeOK, IgnoreTypeOK,
           TargetInv, CreateOps, JoinOps, Goto, ThreadCreateActivate, op_vars,
           signal_vars
    <2>5. CounterTypeOK' /\ SignalTypeOK' /\ EndTypeOK' /\ HandlerCountInv'
      BY <1>2 DEF TypeOK, CounterTypeOK, SignalTypeOK, EndTypeOK,
           HandlerCountInv, ThreadCreateActivate, counter_vars, signal_vars,
           end_vars
    <2> QED BY <2>1, <2>2, <2>3, <2>4, <2>5 DEF TypeOK
  <1>3. CASE ThreadCreateRegister(p)
    <2>1. ThreadTypeOK'
      BY <1>a, <1>3 DEF TypeOK, ThreadTypeOK, Statuses, ThreadCreateRegister
    <2>2. OpTypeOK'
      BY <1>a, <1>3 DEF TypeOK, OpTypeOK, Ops, Goto, ThreadCreateRegister
    <2>3. TargetInv'
      BY <1>a, <1>3 DEF TypeOK, OpTypeOK, IgnoreTypeOK, TargetInv, CreateOps,
           JoinOps, Goto, ThreadCreateRegister, op_vars, signal_vars
    <2>4. CounterTypeOK' /\ IgnoreTypeOK' /\ SignalTypeOK' /\ EndTypeOK' /\ HandlerCountInv'
      BY <1>3 DEF TypeOK, CounterTypeOK, IgnoreTypeOK, SignalTypeOK, EndTypeOK,
           HandlerCountInv, ThreadCreateRegister, counter_vars, main_vars,
           end_vars, signal_vars
    <2> QED BY <2>1, <2>2, <2>3, <2>4 DEF TypeOK
  <1>4. CASE PthreadCreateReturn(p)
    <2>1. OpTypeOK'
      BY <1>a, <1>4 DEF TypeOK, OpTypeOK, Ops, Goto, PthreadCreateReturn
    <2>2. TargetInv'
      BY <1>a, <1>4 DEF TypeOK, OpTypeOK, IgnoreTypeOK, TargetInv, CreateOps,
           JoinOps, Goto, PthreadCreateReturn, op_vars, signal_vars
    <2>3. ThreadTypeOK' /\ CounterTypeOK' /\ IgnoreTypeOK' /\ SignalTypeOK' /\ EndTypeOK' /\ HandlerCountInv'
      BY <1>4 DEF TypeOK, ThreadTypeOK, CounterTypeOK, IgnoreTypeOK,
           SignalTypeOK, EndTypeOK, HandlerCountInv, PthreadCreateReturn,
           thread_vars, counter_vars, main_vars, end_vars, signal_vars
    <2> QED BY <2>1, <2>2, <2>3 DEF TypeOK
  <1> QED BY <1>1, <1>2, <1>3, <1>4 DEF CreateStep

\* Steps of pthread_join, of its try and timed variants and of pthread_detach
\* keep the types.
LEMMA JoinStepTypes ==
  ASSUME TypeInv, NEW p \in AllThreads, JoinStep(p)
  PROVE  TypeInv'
  <1> USE MainThreadTsanAssumption DEF TypeInv
  <1>a. Main \in AllThreads /\ Threads \subseteq AllThreads
    BY DEF AllThreads
  <1>1. ASSUME NEW t \in Threads, JoinBegin(p, t) PROVE TypeInv'
    <2>1. ThreadTypeOK'
      BY <1>a, <1>1 DEF TypeOK, ThreadTypeOK, Statuses, JoinBegin
    <2>2. OpTypeOK'
      BY <1>a, <1>1 DEF TypeOK, OpTypeOK, Ops, Goto, JoinBegin
    <2>3. IgnoreTypeOK'
      BY <1>a, <1>1, IgnoreTypes DEF TypeOK, IgnoreTypeOK, JoinBegin,
           main_vars, end_vars
    <2>4. TargetInv'
      BY <1>a, <1>1, IgnoreTypes DEF TypeOK, OpTypeOK, IgnoreTypeOK, TargetInv,
           CreateOps, JoinOps, Goto, JoinBegin, MayCallPthread, InUserCode,
           op_vars, signal_vars
    <2>5. CounterTypeOK' /\ SignalTypeOK' /\ EndTypeOK' /\ HandlerCountInv'
      BY <1>1 DEF TypeOK, CounterTypeOK, SignalTypeOK, EndTypeOK,
           HandlerCountInv, JoinBegin, counter_vars, signal_vars, end_vars
    <2> QED BY <2>1, <2>2, <2>3, <2>4, <2>5 DEF TypeOK
  <1>2. CASE JoinNotReady(p)
    <2>1. ThreadTypeOK'
      BY <1>a, <1>2 DEF TypeOK, ThreadTypeOK, Statuses, JoinNotReady
    <2>2. OpTypeOK'
      BY <1>a, <1>2 DEF TypeOK, OpTypeOK, Ops, Goto, JoinNotReady
    <2>3. IgnoreTypeOK'
      <3>1. ignores[p] \in Ignores /\ ignores[p].rw > 0
        BY <1>2 DEF TypeOK, IgnoreTypeOK, TargetInv, JoinNotReady
      <3>2. ThreadIgnoreEnd(ignores[p]) \in Ignores
        BY <3>1, IgnoreTypes
      <3> QED BY <1>2, <3>2 DEF TypeOK, IgnoreTypeOK, JoinNotReady, main_vars, end_vars
    <2>4. TargetInv'
      BY <1>a, <1>2 DEF TypeOK, OpTypeOK, IgnoreTypeOK, TargetInv, CreateOps,
           JoinOps, Goto, JoinNotReady, op_vars, signal_vars
    <2>5. CounterTypeOK' /\ SignalTypeOK' /\ EndTypeOK' /\ HandlerCountInv'
      BY <1>2 DEF TypeOK, CounterTypeOK, SignalTypeOK, EndTypeOK,
           HandlerCountInv, JoinNotReady, counter_vars, signal_vars, end_vars
    <2> QED BY <2>1, <2>2, <2>3, <2>4, <2>5 DEF TypeOK
  <1>3. CASE JoinReturn(p)
    <2>1. OpTypeOK'
      BY <1>a, <1>3 DEF TypeOK, OpTypeOK, Ops, Goto, JoinReturn
    <2>2. IgnoreTypeOK'
      <3>1. ignores[p] \in Ignores /\ ignores[p].rw > 0
        BY <1>3 DEF TypeOK, IgnoreTypeOK, TargetInv, JoinReturn
      <3>2. ThreadIgnoreEnd(ignores[p]) \in Ignores
        BY <3>1, IgnoreTypes
      <3> QED BY <1>3, <3>2 DEF TypeOK, IgnoreTypeOK, JoinReturn, main_vars, end_vars
    <2>3. TargetInv'
      BY <1>a, <1>3 DEF TypeOK, OpTypeOK, IgnoreTypeOK, TargetInv, CreateOps,
           JoinOps, Goto, JoinReturn, op_vars, signal_vars
    <2>4. ThreadTypeOK' /\ CounterTypeOK' /\ SignalTypeOK' /\ EndTypeOK' /\ HandlerCountInv'
      BY <1>3 DEF TypeOK, ThreadTypeOK, CounterTypeOK, SignalTypeOK, EndTypeOK,
           HandlerCountInv, JoinReturn, thread_vars, counter_vars, signal_vars,
           end_vars
    <2> QED BY <2>1, <2>2, <2>3, <2>4 DEF TypeOK
  <1>4. CASE ThreadJoin(p)
    <2>1. ThreadTypeOK'
      <3>1. target[p] \in Threads
        BY <1>4 DEF TargetInv, JoinOps, ThreadJoin
      <3>2. Acquire(p, sync[target[p]]) \in SUBSET Threads
        BY <3>1 DEF TypeOK, ThreadTypeOK, Acquire
      <3> QED BY <1>4, <3>1, <3>2 DEF TypeOK, ThreadTypeOK, Statuses, ThreadJoin
    <2>2. OpTypeOK'
      BY <1>a, <1>4 DEF TypeOK, OpTypeOK, Ops, Goto, ThreadJoin
    <2>3. TargetInv'
      BY <1>a, <1>4 DEF TypeOK, OpTypeOK, IgnoreTypeOK, TargetInv, CreateOps,
           JoinOps, Goto, ThreadJoin, op_vars, signal_vars
    <2>4. CounterTypeOK' /\ IgnoreTypeOK' /\ SignalTypeOK' /\ EndTypeOK' /\ HandlerCountInv'
      BY <1>4 DEF TypeOK, CounterTypeOK, IgnoreTypeOK, SignalTypeOK, EndTypeOK,
           HandlerCountInv, ThreadJoin, counter_vars, main_vars, end_vars,
           signal_vars
    <2> QED BY <2>1, <2>2, <2>3, <2>4 DEF TypeOK
  <1>5. CASE ThreadJoinDiscount(p)
    <2>1. ThreadTypeOK'
      BY <1>a, <1>5 DEF TypeOK, ThreadTypeOK, Statuses, ThreadJoinDiscount
    <2>2. CounterTypeOK'
      BY <1>a, <1>5 DEF TypeOK, CounterTypeOK, ThreadJoinDiscount
    <2>3. OpTypeOK'
      BY <1>a, <1>5 DEF TypeOK, OpTypeOK, Ops, Goto, ThreadJoinDiscount
    <2>4. TargetInv'
      BY <1>a, <1>5 DEF TypeOK, OpTypeOK, IgnoreTypeOK, TargetInv, CreateOps,
           JoinOps, Goto, ThreadJoinDiscount, op_vars, signal_vars
    <2>5. IgnoreTypeOK' /\ SignalTypeOK' /\ EndTypeOK' /\ HandlerCountInv'
      BY <1>5 DEF TypeOK, IgnoreTypeOK, SignalTypeOK, EndTypeOK,
           HandlerCountInv, ThreadJoinDiscount, main_vars, end_vars,
           signal_vars
    <2> QED BY <2>1, <2>2, <2>3, <2>4, <2>5 DEF TypeOK
  <1>6. CASE ThreadJoinDeactivate(p)
    <2>1. OpTypeOK'
      BY <1>a, <1>6 DEF TypeOK, OpTypeOK, Ops, Goto, ThreadJoinDeactivate
    <2>2. IgnoreTypeOK'
      <3>1. CASE DisableMainThreadTsan
        BY <1>6, <3>1, DisableTypes DEF TypeOK, IgnoreTypeOK, ThreadJoinDeactivate, end_vars
      <3>2. CASE UNCHANGED <<main_vars, ignores>>
        BY <1>6, <3>2 DEF TypeOK, IgnoreTypeOK, ThreadJoinDeactivate, main_vars, end_vars
      <3> QED BY <1>6, <3>1, <3>2 DEF ThreadJoinDeactivate
    <2>3. TargetInv'
      <3>1. \A q \in AllThreads \ {p} : ignores'[q] = ignores[q]
        <4>1. CASE p = Main /\ DisableMainThreadTsan
          BY <4>1, DisableTypes
        <4>2. CASE UNCHANGED ignores
          BY <4>2
        <4> QED BY <1>6, <4>1, <4>2 DEF ThreadJoinDeactivate, SupportSingleThreadOptimization
      <3> QED BY <1>6, <3>1 DEF TypeOK, OpTypeOK, IgnoreTypeOK, TargetInv,
                CreateOps, JoinOps, Goto, ThreadJoinDeactivate, signal_vars
    <2>4. ThreadTypeOK' /\ CounterTypeOK' /\ SignalTypeOK' /\ EndTypeOK' /\ HandlerCountInv'
      BY <1>6 DEF TypeOK, ThreadTypeOK, CounterTypeOK, SignalTypeOK, EndTypeOK,
           HandlerCountInv, ThreadJoinDeactivate, thread_vars, counter_vars,
           signal_vars, end_vars
    <2> QED BY <2>1, <2>2, <2>3, <2>4 DEF TypeOK
  <1>7. ASSUME NEW t \in Threads, ThreadDetach(p, t) PROVE TypeInv'
    <2>1. ThreadTypeOK'
      BY <1>a, <1>7 DEF TypeOK, ThreadTypeOK, Statuses, ThreadDetach
    <2>2. CounterTypeOK' /\ OpTypeOK' /\ IgnoreTypeOK' /\ SignalTypeOK' /\ EndTypeOK' /\ TargetInv' /\ HandlerCountInv'
      BY <1>7 DEF TypeOK, CounterTypeOK, OpTypeOK, IgnoreTypeOK, SignalTypeOK,
           EndTypeOK, TargetInv, HandlerCountInv, ThreadDetach, counter_vars,
           op_vars, main_vars, end_vars, signal_vars
    <2> QED BY <2>1, <2>2 DEF TypeOK
  <1> QED BY <1>1, <1>2, <1>3, <1>4, <1>5, <1>6, <1>7 DEF JoinStep

\* Annotations and the two ways the process ends keep the types.
LEMMA ProgramStepTypes ==
  ASSUME TypeInv, NEW p \in AllThreads,
         \/ AnnotateIgnoreBegin(p)
         \/ AnnotateIgnoreEnd(p)
         \/ ThreadFinalize(p)
         \/ MainThreadFinish
  PROVE  TypeInv'
  <1> USE MainThreadTsanAssumption DEF TypeInv
  <1>a. Main \in AllThreads /\ Threads \subseteq AllThreads
    BY DEF AllThreads
  <1>1. CASE AnnotateIgnoreBegin(p)
    <2>1. IgnoreTypeOK'
      BY <1>a, <1>1, IgnoreTypes DEF TypeOK, IgnoreTypeOK, AnnotateIgnoreBegin,
           main_vars, end_vars
    <2>2. TargetInv'
      BY <1>a, <1>1 DEF TypeOK, OpTypeOK, IgnoreTypeOK, TargetInv, CreateOps,
           JoinOps, Goto, AnnotateIgnoreBegin, InUserCode, op_vars, signal_vars
    <2>3. ThreadTypeOK' /\ CounterTypeOK' /\ OpTypeOK' /\ SignalTypeOK' /\ EndTypeOK' /\ HandlerCountInv'
      BY <1>1 DEF TypeOK, ThreadTypeOK, CounterTypeOK, OpTypeOK, SignalTypeOK,
           EndTypeOK, HandlerCountInv, AnnotateIgnoreBegin, thread_vars,
           counter_vars, op_vars, signal_vars, end_vars
    <2> QED BY <2>1, <2>2, <2>3 DEF TypeOK
  <1>2. CASE AnnotateIgnoreEnd(p)
    <2>1. IgnoreTypeOK'
      <3>1. CASE ignores[p].rw > 0
        <4>1. ThreadIgnoreEnd(ignores[p]) \in Ignores
          BY <3>1, IgnoreTypes DEF TypeOK, IgnoreTypeOK
        <4> QED BY <1>2, <3>1, <4>1 DEF TypeOK, IgnoreTypeOK, AnnotateIgnoreEnd, main_vars
      <3>2. CASE ~(ignores[p].rw > 0)
        <4>1. /\ user_ignores' \in [AllThreads -> Nat]
              /\ UNCHANGED <<ignores, main_vars>>
          BY <1>2, <3>2 DEF TypeOK, IgnoreTypeOK, AnnotateIgnoreEnd
        <4>2. check_failed' = TRUE
          BY <1>2, <3>2 DEF AnnotateIgnoreEnd
        <4> QED BY <4>1, <4>2 DEF TypeOK, IgnoreTypeOK, main_vars
      <3> QED BY <3>1, <3>2
    <2>2. TargetInv'
      BY <1>a, <1>2 DEF TypeOK, OpTypeOK, IgnoreTypeOK, TargetInv, CreateOps,
           JoinOps, Goto, AnnotateIgnoreEnd, InUserCode, op_vars, signal_vars
    <2>3. ThreadTypeOK' /\ CounterTypeOK' /\ OpTypeOK' /\ SignalTypeOK' /\ EndTypeOK' /\ HandlerCountInv'
      BY <1>2 DEF TypeOK, ThreadTypeOK, CounterTypeOK, OpTypeOK, SignalTypeOK,
           EndTypeOK, HandlerCountInv, AnnotateIgnoreEnd, thread_vars,
           counter_vars, op_vars, signal_vars, end_vars
    <2> QED BY <2>1, <2>2, <2>3 DEF TypeOK
  <1>3. CASE ThreadFinalize(p)
    <2>1. IgnoreTypeOK'
      BY <1>3, MaybeEnableTypes DEF TypeOK, IgnoreTypeOK, ThreadFinalize
    <2>2. EndTypeOK'
      BY <1>a, <1>3 DEF TypeOK, EndTypeOK, ThreadFinalize
    <2>3. TargetInv'
      BY <1>a, <1>3, MaybeEnableTypes DEF TypeOK, OpTypeOK, IgnoreTypeOK,
           TargetInv, CreateOps, JoinOps, Goto, ThreadFinalize, InUserCode,
           op_vars, signal_vars
    <2>4. ThreadTypeOK' /\ CounterTypeOK' /\ OpTypeOK' /\ SignalTypeOK' /\ HandlerCountInv'
      BY <1>3 DEF TypeOK, ThreadTypeOK, CounterTypeOK, OpTypeOK, SignalTypeOK,
           HandlerCountInv, ThreadFinalize, thread_vars, counter_vars, op_vars,
           signal_vars
    <2> QED BY <2>1, <2>2, <2>3, <2>4 DEF TypeOK
  <1>4. CASE MainThreadFinish
    <2>1. CounterTypeOK'
      BY <1>a, <1>4 DEF TypeOK, CounterTypeOK, MainThreadFinish
    <2>2. EndTypeOK'
      BY <1>a, <1>4 DEF TypeOK, EndTypeOK, MainThreadFinish
    <2>3. ThreadTypeOK' /\ OpTypeOK' /\ IgnoreTypeOK' /\ SignalTypeOK' /\ TargetInv' /\ HandlerCountInv'
      BY <1>4 DEF TypeOK, ThreadTypeOK, OpTypeOK, IgnoreTypeOK, SignalTypeOK,
           TargetInv, HandlerCountInv, MainThreadFinish, thread_vars, op_vars,
           main_vars, end_vars, signal_vars
    <2> QED BY <2>1, <2>2, <2>3 DEF TypeOK
  <1> QED BY <1>1, <1>2, <1>3, <1>4

\* A child's own start and finish keep the types.
LEMMA ChildStepTypes ==
  ASSUME TypeInv, NEW t \in Threads, ChildStep(t)
  PROVE  TypeInv'
  <1> USE MainThreadTsanAssumption DEF TypeInv
  <1>a. Main \in AllThreads /\ Threads \subseteq AllThreads
    BY DEF AllThreads
  <1>1. CASE ThreadStart(t)
    <2>1. ThreadTypeOK'
      BY <1>a, <1>1 DEF TypeOK, ThreadTypeOK, Statuses, ThreadStart
    <2>2. IgnoreTypeOK'
      BY <1>a, <1>1, IgnoreTypes DEF TypeOK, IgnoreTypeOK, ThreadStart,
           main_vars, end_vars
    <2>3. TargetInv'
      BY <1>a, <1>1, IgnoreTypes DEF TypeOK, OpTypeOK, IgnoreTypeOK, TargetInv,
           CreateOps, JoinOps, Goto, ThreadStart, op_vars, signal_vars
    <2>4. CounterTypeOK' /\ OpTypeOK' /\ SignalTypeOK' /\ EndTypeOK' /\ HandlerCountInv'
      BY <1>1 DEF TypeOK, CounterTypeOK, OpTypeOK, SignalTypeOK, EndTypeOK,
           HandlerCountInv, ThreadStart, counter_vars, op_vars, signal_vars,
           end_vars
    <2> QED BY <2>1, <2>2, <2>3, <2>4 DEF TypeOK
  <1>2. CASE ThreadFinish(t)
    <2>1. ThreadTypeOK'
      BY <1>a, <1>2 DEF TypeOK, ThreadTypeOK, Statuses, ThreadFinish
    <2>2. CounterTypeOK'
      BY <1>a, <1>2 DEF TypeOK, CounterTypeOK, ThreadFinish
    <2>3. EndTypeOK'
      BY <1>a, <1>2 DEF TypeOK, EndTypeOK, ThreadFinish
    <2>4. OpTypeOK' /\ IgnoreTypeOK' /\ SignalTypeOK' /\ TargetInv' /\ HandlerCountInv'
      BY <1>2 DEF TypeOK, OpTypeOK, IgnoreTypeOK, SignalTypeOK, TargetInv,
           HandlerCountInv, ThreadFinish, op_vars, main_vars, end_vars,
           signal_vars
    <2> QED BY <2>1, <2>2, <2>3, <2>4 DEF TypeOK
  <1>3. CASE ThreadFinishRelease(t)
    <2>1. ThreadTypeOK'
      <3>1. sync' \in [Threads -> SUBSET Threads]
        <4>1. clock[t] \cup {t} \in SUBSET Threads
          BY <1>a DEF TypeOK, ThreadTypeOK
        <4>2. \/ sync' = [sync EXCEPT ![t] = clock[t] \cup {t}]
              \/ sync' = [sync EXCEPT ![t] = @]
          BY <1>3 DEF ThreadFinishRelease
        <4> QED BY <4>1, <4>2 DEF TypeOK, ThreadTypeOK
      <3> QED BY <1>3, <3>1 DEF TypeOK, ThreadTypeOK, Statuses, ThreadFinishRelease
    <2>2. CounterTypeOK' /\ OpTypeOK' /\ IgnoreTypeOK' /\ SignalTypeOK' /\ EndTypeOK' /\ TargetInv' /\ HandlerCountInv'
      BY <1>3 DEF TypeOK, CounterTypeOK, OpTypeOK, IgnoreTypeOK, SignalTypeOK,
           EndTypeOK, TargetInv, HandlerCountInv, ThreadFinishRelease,
           counter_vars, op_vars, main_vars, end_vars, signal_vars
    <2> QED BY <2>1, <2>2 DEF TypeOK
  <1>4. CASE ThreadFinishRegistry(t)
    <2>1. ThreadTypeOK'
      BY <1>a, <1>4 DEF TypeOK, ThreadTypeOK, Statuses, ThreadFinishRegistry
    <2>2. CounterTypeOK' /\ OpTypeOK' /\ IgnoreTypeOK' /\ SignalTypeOK' /\ EndTypeOK' /\ TargetInv' /\ HandlerCountInv'
      BY <1>4 DEF TypeOK, CounterTypeOK, OpTypeOK, IgnoreTypeOK, SignalTypeOK,
           EndTypeOK, TargetInv, HandlerCountInv, ThreadFinishRegistry,
           counter_vars, op_vars, main_vars, end_vars, signal_vars
    <2> QED BY <2>1, <2>2 DEF TypeOK
  <1> QED BY <1>1, <1>2, <1>3, <1>4 DEF ChildStep

\* Handlers and longjmp keep the types: SetJmp's depth never exceeds the frames.
LEMMA SignalStepTypes ==
  ASSUME TypeInv, SignalStep
  PROVE  TypeInv'
  <1> USE MainThreadTsanAssumption DEF TypeInv
  <1>a. Main \in AllThreads /\ Threads \subseteq AllThreads
    BY DEF AllThreads
  <1>1. CASE SignalEnter
    <2>1. OpTypeOK'
      BY <1>a, <1>1 DEF TypeOK, OpTypeOK, Ops, Goto, SignalEnter
    <2>2. IgnoreTypeOK'
      <3>1. NoIgnores \in Ignores
        BY DEF NoIgnores, Ignores
      <3> QED BY <1>1, <3>1 DEF TypeOK, IgnoreTypeOK, SignalEnter, main_vars, end_vars
    <2>3. SignalTypeOK'
      <3> DEFINE e == [rw |-> ignores[Main].rw, sync |-> ignores[Main].sync,
                       op |-> op[Main], target |-> target[Main]]
      <3>1. frames \in Seq(Frames) /\ e \in Frames
        BY <1>a DEF TypeOK, SignalTypeOK, OpTypeOK, IgnoreTypeOK, Ignores, Frames
      <3>2. frames' = Append(frames, e)
        BY <1>1 DEF SignalEnter
      <3>3. frames' \in Seq(Frames)
        BY <3>1, <3>2, AppendFrame
      <3> QED BY <1>1, <3>3 DEF TypeOK, SignalTypeOK, SignalEnter
    <2>4. TargetInv'
      <3> DEFINE e == [rw |-> ignores[Main].rw, sync |-> ignores[Main].sync,
                       op |-> op[Main], target |-> target[Main]]
      <3>1. frames \in Seq(Frames) /\ e \in Frames
        BY <1>a DEF TypeOK, SignalTypeOK, OpTypeOK, IgnoreTypeOK, Ignores, Frames
      <3>2. frames' = Append(frames, e)
        BY <1>1 DEF SignalEnter
      <3>3. /\ e.op \in {"idle", "joining"}
            /\ e.op = "joining" => e.target \in Threads /\ e.rw > 0
        BY <1>a, <1>1 DEF TargetInv, JoinOps, SignalEnter
      <3> HIDE DEF e
      <3>4. \A i \in DOMAIN frames' :
              /\ frames'[i].op \in {"idle", "joining"}
              /\ frames'[i].op = "joining" =>
                   frames'[i].target \in Threads /\ frames'[i].rw > 0
        BY <3>1, <3>2, <3>3, AppendFrame DEF TargetInv
      <3>5. \A p \in AllThreads :
              /\ op'[p] \in CreateOps \cup JoinOps => target'[p] \in Threads
              /\ op'[p] = "joining" => ignores'[p].rw > 0
        BY <1>1 DEF TypeOK, OpTypeOK, IgnoreTypeOK, TargetInv, CreateOps,
             JoinOps, Goto, SignalEnter
      <3> QED BY <3>4, <3>5 DEF TargetInv
    <2>5. HandlerCountInv'
      BY <1>a, <1>1 DEF TypeOK, SignalTypeOK, HandlerCountInv, SignalEnter
    <2>6. ThreadTypeOK' /\ CounterTypeOK' /\ EndTypeOK'
      BY <1>1 DEF TypeOK, ThreadTypeOK, CounterTypeOK, EndTypeOK, SignalEnter,
           thread_vars, counter_vars, end_vars
    <2> QED BY <2>1, <2>2, <2>3, <2>4, <2>5, <2>6 DEF TypeOK
  <1>2. CASE SignalReturn
    <2>1. OpTypeOK'
      <3> DEFINE f == frames[Len(frames)]
      <3>1. Len(frames) \in DOMAIN frames /\ f \in Frames
        BY <1>2 DEF TypeOK, SignalTypeOK, SignalReturn
      <3>2. f.op \in Ops /\ f.target \in Threads \cup {None}
        BY <3>1 DEF Frames
      <3> QED BY <1>2, <3>2 DEF TypeOK, OpTypeOK, Goto, SignalReturn
    <2>2. IgnoreTypeOK'
      <3> DEFINE f == frames[Len(frames)]
      <3>1. Len(frames) \in DOMAIN frames /\ f \in Frames
        BY <1>2 DEF TypeOK, SignalTypeOK, SignalReturn
      <3>2. [rw |-> f.rw, sync |-> f.sync,
             bit |-> (f.rw > 0) \/ ignores[Main].bit] \in Ignores
        <4>1. ignores[Main].bit \in BOOLEAN
          BY <1>a DEF TypeOK, IgnoreTypeOK, Ignores
        <4>2. ((f.rw > 0) \/ ignores[Main].bit) \in BOOLEAN
          BY <4>1
        <4>3. f.rw \in Nat /\ f.sync \in Nat
          BY <3>1 DEF Frames
        <4> HIDE DEF f
        <4> QED BY <4>2, <4>3 DEF Ignores
      <3> QED BY <1>2, <3>2 DEF TypeOK, IgnoreTypeOK, SignalReturn, main_vars, end_vars
    <2>3. SignalTypeOK'
      <3>1. Len(frames) - 1 \in 0 .. Len(frames)
        BY <1>2 DEF TypeOK, SignalTypeOK, SignalReturn
      <3>2. frames' \in Seq(Frames)
        BY <1>2, <3>1, PrefixFrames DEF TypeOK, SignalTypeOK, SignalReturn
      <3>3. NoJmpBuf \in [depth : Int, in_signal_handler : Int]
        BY DEF NoJmpBuf
      <3> QED BY <1>2, <3>2, <3>3 DEF TypeOK, SignalTypeOK, SignalReturn
    <2>4. TargetInv'
      <3>1. Len(frames) - 1 \in 0 .. Len(frames) /\ frames \in Seq(Frames)
        BY <1>2 DEF TypeOK, SignalTypeOK, SignalReturn
      <3>2. /\ DOMAIN frames' \subseteq DOMAIN frames
            /\ \A i \in DOMAIN frames' : frames'[i] = frames[i]
        BY <1>2, <3>1, PrefixFrames DEF SignalReturn
      <3>3. Len(frames) \in DOMAIN frames
        BY <1>2, <3>1 DEF SignalReturn
      <3>4. \A p \in AllThreads :
              /\ op'[p] \in CreateOps \cup JoinOps => target'[p] \in Threads
              /\ op'[p] = "joining" => ignores'[p].rw > 0
        BY <1>2, <3>3 DEF TypeOK, OpTypeOK, IgnoreTypeOK, TargetInv, CreateOps,
             JoinOps, Goto, SignalReturn
      <3> QED BY <3>2, <3>4 DEF TargetInv
    <2>5. HandlerCountInv'
      <3>1. Len(frames) - 1 \in 0 .. Len(frames) /\ frames \in Seq(Frames)
        BY <1>2 DEF TypeOK, SignalTypeOK, SignalReturn
      <3>2. Len(frames') = Len(frames) - 1
        BY <1>2, <3>1, PrefixFrames DEF SignalReturn
      <3> QED BY <1>2, <3>1, <3>2 DEF TypeOK, SignalTypeOK, HandlerCountInv,
                NoJmpBuf, SignalReturn
    <2>6. ThreadTypeOK' /\ CounterTypeOK' /\ EndTypeOK'
      BY <1>2 DEF TypeOK, ThreadTypeOK, CounterTypeOK, EndTypeOK, SignalReturn,
           thread_vars, counter_vars, end_vars
    <2> QED BY <2>1, <2>2, <2>3, <2>4, <2>5, <2>6 DEF TypeOK
  <1>3. CASE SetJmp
    <2>1. SignalTypeOK'
      BY <1>a, <1>3 DEF TypeOK, SignalTypeOK, SetJmp
    <2>2. HandlerCountInv'
      BY <1>a, <1>3 DEF TypeOK, SignalTypeOK, HandlerCountInv, SetJmp
    <2>3. ThreadTypeOK' /\ CounterTypeOK' /\ OpTypeOK' /\ IgnoreTypeOK' /\ EndTypeOK' /\ TargetInv'
      BY <1>3 DEF TypeOK, ThreadTypeOK, CounterTypeOK, OpTypeOK, IgnoreTypeOK,
           EndTypeOK, TargetInv, SetJmp, thread_vars, counter_vars, op_vars,
           main_vars, end_vars, signal_vars
    <2> QED BY <2>1, <2>2, <2>3 DEF TypeOK
  <1>4. CASE LongJmp
    <2>1. IgnoreTypeOK'
      <3>1. RestoreTsanState(ignores[Main]) \in Ignores
        BY <1>a DEF TypeOK, IgnoreTypeOK, Ignores, RestoreTsanState
      <3>2. \/ ignores' = [ignores EXCEPT ![Main] = RestoreTsanState(@)]
            \/ ignores' = ignores
        BY <1>4 DEF TypeOK, IgnoreTypeOK, LongJmp
      <3> QED BY <1>4, <3>1, <3>2 DEF TypeOK, IgnoreTypeOK, LongJmp, main_vars, end_vars
    <2>2. SignalTypeOK'
      <3>1. jmp_buf.depth \in 0 .. Len(frames) /\ frames \in Seq(Frames)
        BY <1>4 DEF TypeOK, SignalTypeOK, HandlerCountInv, LongJmp
      <3>2. frames' \in Seq(Frames)
        BY <1>4, <3>1, PrefixFrames DEF LongJmp
      <3> QED BY <1>4, <3>2 DEF TypeOK, SignalTypeOK, LongJmp
    <2>3. TargetInv'
      <3>1. jmp_buf.depth \in 0 .. Len(frames) /\ frames \in Seq(Frames)
        BY <1>4 DEF TypeOK, SignalTypeOK, HandlerCountInv, LongJmp
      <3>2. /\ DOMAIN frames' \subseteq DOMAIN frames
            /\ \A i \in DOMAIN frames' : frames'[i] = frames[i]
        BY <1>4, <3>1, PrefixFrames DEF LongJmp
      <3>3. op[Main] = "idle"
        BY <1>4 DEF LongJmp, InUserCode
      <3>4. \A p \in AllThreads \ {Main} : ignores'[p] = ignores[p]
        BY <1>4 DEF TypeOK, IgnoreTypeOK, LongJmp
      <3> QED BY <1>4, <3>2, <3>3, <3>4 DEF TargetInv, CreateOps, JoinOps, op_vars, LongJmp
    <2>4. HandlerCountInv'
      <3>1. jmp_buf.depth \in 0 .. Len(frames) /\ frames \in Seq(Frames)
        BY <1>4 DEF TypeOK, SignalTypeOK, HandlerCountInv, LongJmp
      <3>2. Len(frames') = jmp_buf.depth
        BY <1>4, <3>1, PrefixFrames DEF LongJmp
      <3> QED BY <1>4, <3>1, <3>2 DEF HandlerCountInv, LongJmp
    <2>5. ThreadTypeOK' /\ CounterTypeOK' /\ OpTypeOK' /\ EndTypeOK'
      BY <1>4 DEF TypeOK, ThreadTypeOK, CounterTypeOK, OpTypeOK, EndTypeOK,
           LongJmp, thread_vars, counter_vars, op_vars, end_vars
    <2> QED BY <2>1, <2>2, <2>3, <2>4, <2>5 DEF TypeOK
  <1> QED BY <1>1, <1>2, <1>3, <1>4 DEF SignalStep

\* TypeInv is inductive.
LEMMA TypeNext == TypeInv /\ [Next]_vars => TypeInv'
  <1> SUFFICES ASSUME TypeInv, [Next]_vars PROVE TypeInv'
    OBVIOUS
  <1>1. CASE UNCHANGED vars
    BY <1>1 DEF TypeInv, TypeOK, ThreadTypeOK, CounterTypeOK, OpTypeOK,
         IgnoreTypeOK, SignalTypeOK, EndTypeOK, TargetInv, HandlerCountInv,
         vars, thread_vars, counter_vars, op_vars, main_vars, signal_vars,
         end_vars
  <1>2. CASE Next
    <2>1. ASSUME NEW p \in AllThreads, CreateStep(p) PROVE TypeInv'
      BY <2>1, CreateStepTypes
    <2>2. ASSUME NEW p \in AllThreads, JoinStep(p) PROVE TypeInv'
      BY <2>2, JoinStepTypes
    <2>3. ASSUME NEW p \in AllThreads,
                 AnnotateIgnoreBegin(p) \/ AnnotateIgnoreEnd(p) \/ ThreadFinalize(p)
          PROVE  TypeInv'
      BY <2>3, ProgramStepTypes
    <2>4. CASE MainThreadFinish
      BY <2>4, ProgramStepTypes DEF AllThreads
    <2>5. ASSUME NEW t \in Threads, ChildStep(t) PROVE TypeInv'
      BY <2>5, ChildStepTypes
    <2>6. CASE SignalStep
      BY <2>6, SignalStepTypes
    <2>7. CASE Terminated
      BY <2>7, <1>1 DEF Terminated
    <2> QED BY <1>2, <2>1, <2>2, <2>3, <2>4, <2>5, <2>6, <2>7 DEF Next
  <1> QED BY <1>1, <1>2

\* Every variable keeps its type, whatever the threads, handlers and flags:
\* TypeOK with the two facts that make it inductive, an ignore held by every
\* blocked join and a jmp_buf no deeper than the handlers under way.
THEOREM TypeCorrect == Spec => []TypeOK
  <1>1. TypeInv => TypeOK
    BY DEF TypeInv
  <1> QED BY TypeInit, TypeNext, <1>1, PTL DEF Spec

-----------------------------------------------------------------------------
(* Operations in progress                                                  *)

\* Each creation and each join in progress owns the thread it is about.
OpInv == OpStatusInv /\ FrameInv /\ CreatesApart /\ JoinsApart

\* At the start no operation is in progress.
LEMMA OpInit == Init => OpInv
  BY DEF Init, OpInv, OpStatusInv, FrameInv, CreatesApart, JoinsApart,
     CreateOps, JoinOps

\* pthread_create takes a thread that no operation is about.
LEMMA CreateStepOps ==
  ASSUME TypeInv, OpInv, NEW p \in AllThreads, CreateStep(p)
  PROVE  OpInv'
  <1> USE MainThreadTsanAssumption DEF TypeInv, TypeOK, ThreadTypeOK, OpTypeOK,
          OpInv, CreateOps, JoinOps
  <1>a. Main \in AllThreads /\ Threads \subseteq AllThreads
    BY DEF AllThreads
  <1>1. ASSUME NEW t \in Threads, NEW det \in BOOLEAN, ThreadCreate(p, t, det) PROVE OpInv'
    <2>1. OpStatusInv'
      BY <1>a, <1>1 DEF OpStatusInv, ThreadCreate, Goto, MayCallPthread,
           InUserCode
    <2>2. CreatesApart'
      BY <1>a, <1>1 DEF CreatesApart, OpStatusInv, ThreadCreate, Goto,
           MayCallPthread, InUserCode
    <2>3. JoinsApart'
      BY <1>a, <1>1 DEF JoinsApart, ThreadCreate, Goto, signal_vars
    <2>4. FrameInv'
      BY <1>1 DEF FrameInv, ThreadCreate, Goto, signal_vars
    <2> QED BY <2>1, <2>2, <2>3, <2>4
  <1>2. CASE ThreadCreateActivate(p)
    <2>1. OpStatusInv'
      BY <1>a, <1>2 DEF OpStatusInv, ThreadCreateActivate, Goto
    <2>2. CreatesApart'
      BY <1>a, <1>2 DEF CreatesApart, ThreadCreateActivate, Goto
    <2>3. JoinsApart'
      BY <1>a, <1>2 DEF JoinsApart, ThreadCreateActivate, Goto, signal_vars
    <2>4. FrameInv'
      BY <1>2 DEF FrameInv, ThreadCreateActivate, Goto, signal_vars
    <2> QED BY <2>1, <2>2, <2>3, <2>4
  <1>3. CASE ThreadCreateRegister(p)
    <2>1. OpStatusInv'
      BY <1>a, <1>3 DEF OpStatusInv, TargetInv, FrameInv, CreatesApart,
           JoinsApart, ThreadCreateRegister, Goto
    <2>2. CreatesApart'
      BY <1>a, <1>3 DEF CreatesApart, ThreadCreateRegister, Goto
    <2>3. JoinsApart'
      BY <1>a, <1>3 DEF JoinsApart, ThreadCreateRegister, Goto, signal_vars
    <2>4. FrameInv'
      BY <1>3 DEF FrameInv, ThreadCreateRegister, Goto, signal_vars
    <2> QED BY <2>1, <2>2, <2>3, <2>4
  <1>4. CASE PthreadCreateReturn(p)
    <2>1. OpStatusInv'
      BY <1>a, <1>4 DEF OpStatusInv, PthreadCreateReturn, Goto, thread_vars
    <2>2. CreatesApart'
      BY <1>a, <1>4 DEF CreatesApart, PthreadCreateReturn, Goto
    <2>3. JoinsApart'
      BY <1>a, <1>4 DEF JoinsApart, PthreadCreateReturn, Goto, signal_vars
    <2>4. FrameInv'
      BY <1>4 DEF FrameInv, PthreadCreateReturn, Goto, thread_vars, signal_vars
    <2> QED BY <2>1, <2>2, <2>3, <2>4
  <1> QED BY <1>1, <1>2, <1>3, <1>4 DEF CreateStep

\* A join consumes the pthread_t, so no second join or detach finds it; a tryjoin
\* gives it back.
LEMMA JoinStepOps ==
  ASSUME TypeInv, OpInv, NEW p \in AllThreads, JoinStep(p)
  PROVE  OpInv'
  <1> USE MainThreadTsanAssumption DEF TypeInv, TypeOK, ThreadTypeOK, OpTypeOK,
          OpInv, CreateOps, JoinOps
  <1>a. Main \in AllThreads /\ Threads \subseteq AllThreads
    BY DEF AllThreads
  <1>1. ASSUME NEW t \in Threads, JoinBegin(p, t) PROVE OpInv'
    <2>1. OpStatusInv'
      BY <1>a, <1>1 DEF OpStatusInv, JoinBegin, Goto, MayCallPthread,
           InUserCode, Joinable
    <2>2. FrameInv'
      BY <1>a, <1>1 DEF FrameInv, JoinBegin, Goto, signal_vars
    <2>3. CreatesApart'
      BY <1>a, <1>1 DEF CreatesApart, JoinBegin, Goto
    <2>4. JoinsApart'
      BY <1>a, <1>1 DEF JoinsApart, OpStatusInv, TargetInv, FrameInv,
           CreatesApart, JoinBegin, Goto, MayCallPthread, InUserCode, Joinable,
           signal_vars
    <2> QED BY <2>1, <2>2, <2>3, <2>4
  <1>2. CASE JoinNotReady(p)
    <2>1. OpStatusInv'
      BY <1>a, <1>2 DEF OpStatusInv, TargetInv, FrameInv, CreatesApart,
           JoinsApart, JoinNotReady, Goto
    <2>2. FrameInv'
      BY <1>a, <1>2 DEF FrameInv, OpStatusInv, TargetInv, CreatesApart,
           JoinsApart, JoinNotReady, Goto, signal_vars
    <2>3. CreatesApart'
      BY <1>a, <1>2 DEF CreatesApart, JoinNotReady, Goto
    <2>4. JoinsApart'
      BY <1>a, <1>2 DEF JoinsApart, JoinNotReady, Goto, signal_vars
    <2> QED BY <2>1, <2>2, <2>3, <2>4
  <1>3. CASE JoinReturn(p)
    <2>1. OpStatusInv'
      BY <1>a, <1>3 DEF OpStatusInv, JoinReturn, Goto, thread_vars
    <2>2. CreatesApart'
      BY <1>a, <1>3 DEF CreatesApart, JoinReturn, Goto
    <2>3. JoinsApart'
      BY <1>a, <1>3 DEF JoinsApart, JoinReturn, Goto, signal_vars
    <2>4. FrameInv'
      BY <1>3 DEF FrameInv, JoinReturn, Goto, thread_vars, signal_vars
    <2> QED BY <2>1, <2>2, <2>3, <2>4
  <1>4. CASE ThreadJoin(p)
    <2>1. OpStatusInv'
      BY <1>a, <1>4 DEF OpStatusInv, TargetInv, FrameInv, CreatesApart,
           JoinsApart, ThreadJoin, Goto
    <2>2. CreatesApart'
      BY <1>a, <1>4 DEF CreatesApart, ThreadJoin, Goto
    <2>3. JoinsApart'
      BY <1>a, <1>4 DEF JoinsApart, ThreadJoin, Goto, signal_vars
    <2>4. FrameInv'
      BY <1>4 DEF FrameInv, ThreadJoin, Goto, signal_vars
    <2> QED BY <2>1, <2>2, <2>3, <2>4
  <1>5. CASE ThreadJoinDiscount(p)
    <2>1. OpStatusInv'
      BY <1>a, <1>5 DEF OpStatusInv, TargetInv, FrameInv, CreatesApart,
           JoinsApart, ThreadJoinDiscount, Goto
    <2>2. CreatesApart'
      BY <1>a, <1>5 DEF CreatesApart, ThreadJoinDiscount, Goto
    <2>3. JoinsApart'
      BY <1>a, <1>5 DEF JoinsApart, ThreadJoinDiscount, Goto, signal_vars
    <2>4. FrameInv'
      BY <1>5 DEF FrameInv, ThreadJoinDiscount, Goto, signal_vars
    <2> QED BY <2>1, <2>2, <2>3, <2>4
  <1>6. CASE ThreadJoinDeactivate(p)
    <2>1. OpStatusInv'
      BY <1>a, <1>6 DEF OpStatusInv, ThreadJoinDeactivate, Goto, thread_vars
    <2>2. CreatesApart'
      BY <1>a, <1>6 DEF CreatesApart, ThreadJoinDeactivate, Goto
    <2>3. JoinsApart'
      BY <1>a, <1>6 DEF JoinsApart, ThreadJoinDeactivate, Goto, signal_vars
    <2>4. FrameInv'
      BY <1>6 DEF FrameInv, ThreadJoinDeactivate, Goto, thread_vars,
           signal_vars
    <2> QED BY <2>1, <2>2, <2>3, <2>4
  <1>7. ASSUME NEW t \in Threads, ThreadDetach(p, t) PROVE OpInv'
    <2>1. OpStatusInv'
      <3>1. ~claimed[t] /\ claimed' = [claimed EXCEPT ![t] = TRUE]
        BY <1>7 DEF ThreadDetach, Joinable
      <3>2. /\ \A u \in Threads \ {t} : status'[u] = status[u]
            /\ status[t] # "finished" => status'[t] = status[t]
        BY <1>7 DEF ThreadDetach
      <3>3. UNCHANGED <<op, target>>
        BY <1>7 DEF ThreadDetach, op_vars
      <3>4. \A q \in AllThreads : op[q] \in JoinOps => target[q] # t
        BY <3>1 DEF OpStatusInv
      <3>5. ASSUME NEW q \in AllThreads
            PROVE  /\ op[q] \in {"activate", "register"} => status'[target[q]] = "creating"
                   /\ op[q] \in JoinOps => claimed'[target[q]]
                   /\ op[q] = "join" => status'[target[q]] = "finished"
                   /\ op[q] = "discount" => status'[target[q]] = "joined"
                   /\ (q # Main /\ op[q] # "idle") => status'[q] = "running"
        BY <1>a, <3>1, <3>2, <3>4 DEF OpStatusInv, TargetInv, AllThreads
      <3> QED BY <3>3, <3>5 DEF OpStatusInv
    <2>2. FrameInv'
      BY <1>a, <1>7 DEF FrameInv, ThreadDetach, signal_vars
    <2>3. CreatesApart' /\ JoinsApart'
      BY <1>7 DEF CreatesApart, JoinsApart, ThreadDetach, op_vars, signal_vars
    <2> QED BY <2>1, <2>2, <2>3
  <1> QED BY <1>1, <1>2, <1>3, <1>4, <1>5, <1>6, <1>7 DEF JoinStep

\* Annotations and the end of the process touch no operation.
LEMMA ProgramStepOps ==
  ASSUME TypeInv, OpInv, NEW p \in AllThreads,
         \/ AnnotateIgnoreBegin(p)
         \/ AnnotateIgnoreEnd(p)
         \/ ThreadFinalize(p)
         \/ MainThreadFinish
  PROVE  OpInv'
  <1> USE MainThreadTsanAssumption DEF TypeInv, TypeOK, ThreadTypeOK, OpTypeOK,
          OpInv, CreateOps, JoinOps
  <1>a. Main \in AllThreads /\ Threads \subseteq AllThreads
    BY DEF AllThreads
  <1>1. CASE AnnotateIgnoreBegin(p)
    BY <1>1 DEF OpStatusInv, FrameInv, CreatesApart, JoinsApart,
         AnnotateIgnoreBegin, thread_vars, op_vars, signal_vars
  <1>2. CASE AnnotateIgnoreEnd(p)
    BY <1>2 DEF OpStatusInv, FrameInv, CreatesApart, JoinsApart,
         AnnotateIgnoreEnd, thread_vars, op_vars, signal_vars
  <1>3. CASE ThreadFinalize(p)
    BY <1>3 DEF OpStatusInv, FrameInv, CreatesApart, JoinsApart,
         ThreadFinalize, thread_vars, op_vars, signal_vars
  <1>4. CASE MainThreadFinish
    BY <1>4 DEF OpStatusInv, FrameInv, CreatesApart, JoinsApart,
         MainThreadFinish, thread_vars, op_vars, signal_vars
  <1> QED BY <1>1, <1>2, <1>3, <1>4

\* A thread that starts or finishes is in no operation of its own.
LEMMA ChildStepOps ==
  ASSUME TypeInv, OpInv, NEW t \in Threads, ChildStep(t)
  PROVE  OpInv'
  <1> USE MainThreadTsanAssumption DEF TypeInv, TypeOK, ThreadTypeOK, OpTypeOK,
          OpInv, CreateOps, JoinOps
  <1>a. Main \in AllThreads /\ Threads \subseteq AllThreads
    BY DEF AllThreads
  <1>1. CASE ThreadStart(t)
    <2>1. OpStatusInv'
      BY <1>a, <1>1 DEF OpStatusInv, ThreadStart, op_vars
    <2>2. FrameInv' /\ CreatesApart' /\ JoinsApart'
      BY <1>1 DEF FrameInv, CreatesApart, JoinsApart, ThreadStart, signal_vars,
           op_vars
    <2> QED BY <2>1, <2>2
  <1>2. CASE ThreadFinish(t)
    <2>1. OpStatusInv'
      <3>1. op[t] = "idle" /\ UNCHANGED <<op, target, claimed>>
        BY <1>2 DEF ThreadFinish, InUserCode, op_vars
      <3>2. status[t] = "running" /\ t # Main
        BY <1>2 DEF ThreadFinish, InUserCode
      <3>3. \A u \in Threads \ {t} : status'[u] = status[u]
        BY <1>2 DEF ThreadFinish
      <3>4. ASSUME NEW q \in AllThreads
            PROVE  /\ op[q] \in {"activate", "register"} => status'[target[q]] = "creating"
                   /\ op[q] \in JoinOps => claimed[target[q]]
                   /\ op[q] = "join" => status'[target[q]] = "finished"
                   /\ op[q] = "discount" => status'[target[q]] = "joined"
                   /\ (q # Main /\ op[q] # "idle") => status'[q] = "running"
        BY <1>a, <3>1, <3>2, <3>3 DEF OpStatusInv, TargetInv, AllThreads
      <3> QED BY <3>1, <3>4 DEF OpStatusInv
    <2>2. FrameInv' /\ CreatesApart' /\ JoinsApart'
      BY <1>2 DEF FrameInv, CreatesApart, JoinsApart, ThreadFinish,
           signal_vars, op_vars
    <2> QED BY <2>1, <2>2
  <1>3. CASE ThreadFinishRelease(t)
    <2>1. OpStatusInv'
      BY <1>a, <1>3 DEF OpStatusInv, ThreadFinishRelease, op_vars
    <2>2. FrameInv' /\ CreatesApart' /\ JoinsApart'
      BY <1>3 DEF FrameInv, CreatesApart, JoinsApart, ThreadFinishRelease,
           signal_vars, op_vars
    <2> QED BY <2>1, <2>2
  <1>4. CASE ThreadFinishRegistry(t)
    <2>1. OpStatusInv'
      BY <1>a, <1>4 DEF OpStatusInv, ThreadFinishRegistry, op_vars
    <2>2. FrameInv' /\ CreatesApart' /\ JoinsApart'
      BY <1>4 DEF FrameInv, CreatesApart, JoinsApart, ThreadFinishRegistry,
           signal_vars, op_vars
    <2> QED BY <2>1, <2>2
  <1> QED BY <1>1, <1>2, <1>3, <1>4 DEF ChildStep

\* A handler stacks the interrupted join, its return takes it up again, and
\* longjmp only drops frames.
LEMMA SignalStepOps ==
  ASSUME TypeInv, OpInv, SignalStep
  PROVE  OpInv'
  <1> USE MainThreadTsanAssumption DEF TypeInv, TypeOK, ThreadTypeOK, OpTypeOK,
          OpInv, CreateOps, JoinOps
  <1>a. Main \in AllThreads /\ Threads \subseteq AllThreads
    BY DEF AllThreads
  <1>1. CASE SignalEnter
    <2>1. OpStatusInv'
      BY <1>a, <1>1 DEF OpStatusInv, SignalEnter, Goto, thread_vars
    <2>2. FrameInv'
      BY <1>a, <1>1 DEF FrameInv, OpStatusInv, SignalEnter, Goto, thread_vars
    <2>3. CreatesApart'
      BY <1>a, <1>1 DEF CreatesApart, SignalEnter, Goto
    <2>4. JoinsApart'
      BY <1>a, <1>1 DEF JoinsApart, SignalEnter, Goto
    <2> QED BY <2>1, <2>2, <2>3, <2>4
  <1>2. CASE SignalReturn
    <2>1. OpStatusInv'
      BY <1>a, <1>2 DEF OpStatusInv, TargetInv, FrameInv, CreatesApart,
           JoinsApart, SignalReturn, Goto, thread_vars
    <2>2. FrameInv'
      BY <1>a, <1>2 DEF FrameInv, SignalReturn, Goto, thread_vars
    <2>3. CreatesApart'
      BY <1>a, <1>2 DEF CreatesApart, OpStatusInv, TargetInv, SignalReturn,
           Goto
    <2>4. JoinsApart'
      BY <1>a, <1>2, SMTT(60) DEF JoinsApart, OpStatusInv, TargetInv, SignalReturn, Goto
    <2> QED BY <2>1, <2>2, <2>3, <2>4
  <1>3. CASE SetJmp
    BY <1>3 DEF OpStatusInv, FrameInv, CreatesApart, JoinsApart, SetJmp,
         thread_vars, op_vars
  <1>4. CASE LongJmp
    <2>1. FrameInv'
      <3>1. jmp_buf.depth \in 0 .. Len(frames) /\ frames \in Seq(Frames)
        BY <1>4 DEF SignalTypeOK, HandlerCountInv, LongJmp
      <3>2. /\ DOMAIN frames' \subseteq DOMAIN frames
            /\ \A i \in DOMAIN frames' : frames'[i] = frames[i]
        BY <1>4, <3>1, PrefixFrames DEF LongJmp
      <3> QED BY <1>4, <3>2 DEF FrameInv, LongJmp, thread_vars, op_vars
    <2>2. JoinsApart'
      <3>1. jmp_buf.depth \in 0 .. Len(frames) /\ frames \in Seq(Frames)
        BY <1>4 DEF SignalTypeOK, HandlerCountInv, LongJmp
      <3>2. /\ DOMAIN frames' \subseteq DOMAIN frames
            /\ \A i \in DOMAIN frames' : frames'[i] = frames[i]
        BY <1>4, <3>1, PrefixFrames DEF LongJmp
      <3>3. UNCHANGED <<op, target>>
        BY <1>4 DEF LongJmp, op_vars
      <3> QED BY <3>2, <3>3 DEF JoinsApart
    <2>3. OpStatusInv' /\ CreatesApart'
      BY <1>4 DEF OpStatusInv, CreatesApart, LongJmp, thread_vars, op_vars
    <2> QED BY <2>1, <2>2, <2>3
  <1> QED BY <1>1, <1>2, <1>3, <1>4 DEF SignalStep

\* OpInv is kept by every step, under the type invariant.
LEMMA OpNext == TypeInv /\ OpInv /\ [Next]_vars => OpInv'
  <1> SUFFICES ASSUME TypeInv, OpInv, [Next]_vars PROVE OpInv'
    OBVIOUS
  <1>1. CASE UNCHANGED vars
    BY <1>1 DEF OpInv, OpStatusInv, FrameInv, CreatesApart, JoinsApart, vars,
         thread_vars, op_vars, signal_vars
  <1>2. CASE Next
    <2>1. ASSUME NEW p \in AllThreads, CreateStep(p) PROVE OpInv'
      BY <2>1, CreateStepOps
    <2>2. ASSUME NEW p \in AllThreads, JoinStep(p) PROVE OpInv'
      BY <2>2, JoinStepOps
    <2>3. ASSUME NEW p \in AllThreads,
                 AnnotateIgnoreBegin(p) \/ AnnotateIgnoreEnd(p) \/ ThreadFinalize(p)
          PROVE  OpInv'
      BY <2>3, ProgramStepOps
    <2>4. CASE MainThreadFinish
      BY <2>4, ProgramStepOps DEF AllThreads
    <2>5. ASSUME NEW t \in Threads, ChildStep(t) PROVE OpInv'
      BY <2>5, ChildStepOps
    <2>6. CASE SignalStep
      BY <2>6, SignalStepOps
    <2>7. CASE Terminated
      BY <2>7, <1>1 DEF Terminated
    <2> QED BY <1>2, <2>1, <2>2, <2>3, <2>4, <2>5, <2>6, <2>7 DEF Next
  <1> QED BY <1>1, <1>2

-----------------------------------------------------------------------------
(* The counter of unjoined threads                                         *)

\* The threads that num_unjoined_threads counts besides the main thread.
Counted == {t \in Threads : status[t] \notin {"none", "reaped"}}

\* The one step of each kind that moves a thread into or out of Counted moves
\* the counter with it; every other step keeps both.
LEMMA CountedStep ==
  ASSUME TypeInv, OpInv, [Next]_vars
  PROVE  \/ /\ Counted' = Counted
            /\ num_unjoined_threads' = num_unjoined_threads
         \/ \E t \in Threads \ Counted :
              /\ Counted' = Counted \cup {t}
              /\ num_unjoined_threads' = num_unjoined_threads + 1
         \/ \E t \in Counted :
              /\ Counted' = Counted \ {t}
              /\ num_unjoined_threads' = num_unjoined_threads - 1
  <1> DEFINE Kept == Counted' = Counted /\ num_unjoined_threads' = num_unjoined_threads
             Goal == \/ Kept
                     \/ \E t \in Threads \ Counted :
                          /\ Counted' = Counted \cup {t}
                          /\ num_unjoined_threads' = num_unjoined_threads + 1
                     \/ \E t \in Counted :
                          /\ Counted' = Counted \ {t}
                          /\ num_unjoined_threads' = num_unjoined_threads - 1
  <1> USE DEF TypeInv, TypeOK, ThreadTypeOK, OpInv
  <1>1. ASSUME NEW p \in AllThreads, NEW t \in Threads, NEW det \in BOOLEAN,
               ThreadCreate(p, t, det)
        PROVE  Goal
    BY <1>1 DEF ThreadCreate, Counted
  <1>2. ASSUME NEW p \in AllThreads, ThreadJoinDiscount(p) PROVE Goal
    <2>1. target[p] \in Threads /\ status[target[p]] = "joined"
      BY <1>2 DEF ThreadJoinDiscount, TargetInv, OpStatusInv, JoinOps
    <2>2. /\ status' = [status EXCEPT ![target[p]] = "reaped"]
          /\ num_unjoined_threads' = num_unjoined_threads - 1
      BY <1>2 DEF ThreadJoinDiscount
    <2> QED BY <2>1, <2>2 DEF Counted
  <1>3. ASSUME NEW p \in AllThreads, ThreadCreateRegister(p) PROVE Kept
    <2>1. target[p] \in Threads /\ status[target[p]] = "creating"
      BY <1>3 DEF ThreadCreateRegister, TargetInv, OpStatusInv, CreateOps
    <2> QED BY <1>3, <2>1 DEF ThreadCreateRegister, Counted, counter_vars
  <1>4. ASSUME NEW p \in AllThreads, ThreadJoin(p) PROVE Kept
    <2>1. target[p] \in Threads /\ status[target[p]] = "finished"
      BY <1>4 DEF ThreadJoin, TargetInv, OpStatusInv, JoinOps
    <2> QED BY <1>4, <2>1 DEF ThreadJoin, Counted, counter_vars
  <1>5. ASSUME NEW p \in AllThreads, NEW t \in Threads, ThreadDetach(p, t)
        PROVE  Kept
    BY <1>5 DEF ThreadDetach, Counted, counter_vars
  <1>6. ASSUME NEW t \in Threads, ThreadFinish(t) PROVE Kept
    <2>1. status[t] = "running"
      BY <1>6, MainThreadTsanAssumption DEF ThreadFinish, InUserCode
    <2>2. /\ \/ UNCHANGED status
             \/ status' = [status EXCEPT ![t] = "exiting"]
          /\ UNCHANGED num_unjoined_threads
      BY <1>6 DEF ThreadFinish
    <2> QED BY <2>1, <2>2 DEF Counted
  <1>7. ASSUME NEW t \in Threads,
               ThreadStart(t) \/ ThreadFinishRelease(t) \/ ThreadFinishRegistry(t)
        PROVE  Kept
    BY <1>7 DEF ThreadStart, ThreadFinishRelease, ThreadFinishRegistry, Counted,
         counter_vars
  <1>8. CASE UNCHANGED <<status, num_unjoined_threads>>
    BY <1>8 DEF Counted
  <1>9. ASSUME NEW p \in AllThreads,
               \/ ThreadCreateActivate(p)
               \/ PthreadCreateReturn(p)
               \/ \E t \in Threads : JoinBegin(p, t)
               \/ JoinNotReady(p)
               \/ JoinReturn(p)
               \/ ThreadJoinDeactivate(p)
               \/ AnnotateIgnoreBegin(p)
               \/ AnnotateIgnoreEnd(p)
               \/ ThreadFinalize(p)
        PROVE  UNCHANGED <<status, num_unjoined_threads>>
    BY <1>9 DEF ThreadCreateActivate, PthreadCreateReturn, JoinBegin,
         JoinNotReady, JoinReturn, ThreadJoinDeactivate, AnnotateIgnoreBegin,
         AnnotateIgnoreEnd, ThreadFinalize, thread_vars, counter_vars
  <1>10. ASSUME SignalStep \/ MainThreadFinish \/ Terminated \/ UNCHANGED vars
         PROVE  UNCHANGED <<status, num_unjoined_threads>>
    BY <1>10 DEF SignalStep, SignalEnter, SignalReturn, SetJmp, LongJmp,
         MainThreadFinish, Terminated, vars, thread_vars, counter_vars
  <1> HIDE DEF TypeInv, TypeOK, ThreadTypeOK, OpInv
  <1> QED BY <1>1, <1>2, <1>3, <1>4, <1>5, <1>6, <1>7, <1>8, <1>9, <1>10
             DEF Next, CreateStep, JoinStep, ChildStep

\* At the start only the main thread is counted.
LEMMA CounterInit == Init => UnjoinedCounterIsExact
  <1> SUFFICES ASSUME Init PROVE UnjoinedCounterIsExact
    OBVIOUS
  <1>1. {t \in Threads : status[t] \notin {"none", "reaped"}} = {}
    BY DEF Init
  <1>2. num_unjoined_threads = 1 /\ Cardinality({}) = 0
    BY FS_EmptySet DEF Init
  <1> QED BY <1>1, <1>2, SMTT(30) DEF UnjoinedCounterIsExact

\* The counter stays exact: num_unjoined_threads moves with the set Counted.
LEMMA CounterNext ==
  TypeInv /\ OpInv /\ UnjoinedCounterIsExact /\ [Next]_vars
    => UnjoinedCounterIsExact'
  <1> SUFFICES ASSUME TypeInv, OpInv, UnjoinedCounterIsExact, [Next]_vars
               PROVE  UnjoinedCounterIsExact'
    OBVIOUS
  <1>1. IsFiniteSet(Counted) /\ Cardinality(Counted) \in Nat
    BY MainThreadTsanAssumption, FS_Subset, FS_CardinalityType DEF Counted
  <1>2. num_unjoined_threads = 1 + Cardinality(Counted)
    BY DEF UnjoinedCounterIsExact, Counted
  <1>3. num_unjoined_threads' = 1 + Cardinality(Counted')
    <2>1. CASE /\ Counted' = Counted
               /\ num_unjoined_threads' = num_unjoined_threads
      BY <2>1, <1>2
    <2>2. CASE \E t \in Threads \ Counted :
                 /\ Counted' = Counted \cup {t}
                 /\ num_unjoined_threads' = num_unjoined_threads + 1
      BY <2>2, <1>1, <1>2, FS_AddElement, SMTT(30)
    <2>3. CASE \E t \in Counted :
                 /\ Counted' = Counted \ {t}
                 /\ num_unjoined_threads' = num_unjoined_threads - 1
      BY <2>3, <1>1, <1>2, FS_RemoveElement
    <2> QED BY <2>1, <2>2, <2>3, CountedStep
  <1> QED BY <1>3 DEF UnjoinedCounterIsExact, Counted

\* num_unjoined_threads is the main thread plus the threads created and not yet
\* discounted by a join: is_now_all_joined (tsan_rtl.h:426) decides on an exact
\* value, however creations, joins, detaches and handlers interleave.
THEOREM UnjoinedCounterCorrect == Spec => []UnjoinedCounterIsExact
  BY TypeInit, TypeNext, OpInit, OpNext, CounterInit, CounterNext, PTL DEF Spec

-----------------------------------------------------------------------------
(* The main thread alone                                                   *)

\* At the start no handler is active.
LEMMA QuietInit == Init => QuietHandlers
  BY DEF Init, QuietHandlers

\* A handler that calls no pthread function starts no operation, and may
\* interrupt at most one blocked join.
LEMMA QuietNext ==
  TypeInv /\ OpInv /\ QuietHandlers /\ [Next]_vars => QuietHandlers'
  <1> SUFFICES ASSUME TypeInv, OpInv, QuietHandlers, [Next]_vars, ~HandlerCallsPthread
               PROVE  /\ op'[Main] # "idle" => frames' = <<>>
                      /\ \A i \in DOMAIN frames' : i > 1 => frames'[i].op = "idle"
    BY DEF QuietHandlers
  <1> DEFINE Goal == /\ op'[Main] # "idle" => frames' = <<>>
                     /\ \A i \in DOMAIN frames' : i > 1 => frames'[i].op = "idle"
  <1> USE DEF TypeInv, TypeOK, OpTypeOK, SignalTypeOK
  <1>q. /\ op[Main] # "idle" => frames = <<>>
        /\ \A i \in DOMAIN frames : i > 1 => frames[i].op = "idle"
    BY DEF QuietHandlers
  <1>1. ASSUME frames' = frames,
               op'[Main] # "idle" => op[Main] # "idle" \/ frames = <<>>
        PROVE  Goal
    BY <1>1, <1>q
  <1>2. ASSUME NEW p \in AllThreads, CreateStep(p) PROVE Goal
    <2>1. frames' = frames
      BY <1>2 DEF CreateStep, ThreadCreate, ThreadCreateActivate,
           ThreadCreateRegister, PthreadCreateReturn, signal_vars
    <2>2. op'[Main] # "idle" => op[Main] # "idle" \/ frames = <<>>
      BY <1>2 DEF CreateStep, ThreadCreate, ThreadCreateActivate,
           ThreadCreateRegister, PthreadCreateReturn, Goto, MayCallPthread,
           AllThreads
    <2> QED BY <2>1, <2>2, <1>1
  <1>3. ASSUME NEW p \in AllThreads, JoinStep(p) PROVE Goal
    <2>1. frames' = frames
      BY <1>3 DEF JoinStep, JoinBegin, JoinNotReady, JoinReturn, ThreadJoin,
           ThreadJoinDiscount, ThreadJoinDeactivate, ThreadDetach, signal_vars
    <2>2. op'[Main] # "idle" => op[Main] # "idle" \/ frames = <<>>
      BY <1>3 DEF JoinStep, JoinBegin, JoinNotReady, JoinReturn, ThreadJoin,
           ThreadJoinDiscount, ThreadJoinDeactivate, ThreadDetach, Goto,
           MayCallPthread, AllThreads, op_vars
    <2> QED BY <2>1, <2>2, <1>1
  <1>4. ASSUME \/ \E p \in AllThreads : \/ AnnotateIgnoreBegin(p)
                                       \/ AnnotateIgnoreEnd(p)
                                       \/ ThreadFinalize(p)
               \/ \E t \in Threads : ChildStep(t)
               \/ SetJmp
               \/ MainThreadFinish
               \/ Terminated
               \/ UNCHANGED vars
        PROVE  Goal
    <2>1. UNCHANGED <<frames, op>>
      BY <1>4 DEF AnnotateIgnoreBegin, AnnotateIgnoreEnd, ThreadFinalize,
           ChildStep, ThreadStart, ThreadFinish, ThreadFinishRelease,
           ThreadFinishRegistry, SetJmp, MainThreadFinish, Terminated, vars,
           op_vars, signal_vars
    <2> QED BY <2>1, <1>1
  <1>5. CASE SignalEnter
    <2> DEFINE e == [rw |-> ignores[Main].rw, sync |-> ignores[Main].sync,
                     op |-> op[Main], target |-> target[Main]]
    <2>1. frames \in Seq(Frames) /\ e \in Frames
      BY DEF IgnoreTypeOK, Ignores, Frames, AllThreads
    <2>2. frames' = Append(frames, e) /\ op'[Main] = "idle"
      BY <1>5 DEF SignalEnter, Goto, AllThreads
    <2>3. Len(frames) > 0 => e.op = "idle"
      BY <1>q, <2>1
    <2> HIDE DEF e
    <2> QED BY <2>1, <2>2, <2>3, <1>q, AppendFrame
  <1>6. CASE SignalReturn
    <2>1. Len(frames) - 1 \in 0 .. Len(frames) /\ frames \in Seq(Frames)
      BY <1>6 DEF SignalReturn
    <2>2. /\ DOMAIN frames' = 1 .. Len(frames) - 1
          /\ \A i \in DOMAIN frames' : frames'[i] = frames[i]
          /\ frames' \in Seq(Frames)
          /\ Len(frames') = Len(frames) - 1
      BY <1>6, <2>1, PrefixFrames, ZenonT(30) DEF SignalReturn
    <2>3. op'[Main] # "idle" => ~(Len(frames) > 1)
      BY <1>6, <1>q, <2>1 DEF SignalReturn, Goto, AllThreads
    <2>4. op'[Main] # "idle" => frames' = <<>>
      BY <2>1, <2>2, <2>3
    <2> QED BY <1>q, <2>1, <2>2, <2>4
  <1>7. CASE LongJmp
    <2>1. jmp_buf.depth \in 0 .. Len(frames) /\ frames \in Seq(Frames)
      BY <1>7 DEF HandlerCountInv, LongJmp
    <2>2. /\ DOMAIN frames' \subseteq DOMAIN frames
          /\ \A i \in DOMAIN frames' : frames'[i] = frames[i]
      BY <1>7, <2>1, PrefixFrames DEF LongJmp
    <2>3. op'[Main] = "idle"
      BY <1>7 DEF LongJmp, InUserCode, op_vars
    <2> QED BY <1>q, <2>2, <2>3
  <1> QED BY <1>2, <1>3, <1>4, <1>5, <1>6, <1>7 DEF Next, SignalStep

\* At the start every other thread is unborn.
LEMMA AloneInit == Init => AloneInv
  BY DEF Init, AloneInv

\* TSan is off and only the optimisation switched it off.
Off == MainThreadTsanDisabled /\ ~tsan_ignore_runtime

\* While TSan is off every operation in progress and every thread that runs user
\* code is the main one.
LEMMA OffMeansMain ==
  ASSUME TypeInv, OpInv, AloneInv, Off, NEW p \in AllThreads,
         InUserCode(p) \/ op[p] # "idle"
  PROVE  p = Main
  BY DEF TypeInv, OpInv, OpStatusInv, AloneInv, Off, InUserCode, AllThreads

\* AloneInv is kept by every step: EnableMainThreadTsan comes before a thread is
\* created, and is_now_all_joined decides on an exact counter.
LEMMA AloneNext ==
  ASSUME ~HandlerCallsPthread, TypeInv, OpInv, UnjoinedCounterIsExact,
         QuietHandlers, AloneInv, [Next]_vars
  PROVE  AloneInv'
  <1> USE MainThreadTsanAssumption
  <1> DEFINE Unborn(t) == \/ status[t] \in {"none", "reaped"}
                          \/ /\ status[t] = "creating"
                             /\ op[Main] = "activate"
                             /\ target[Main] = t
  <1>t. /\ status \in [Threads -> Statuses]
        /\ op \in [AllThreads -> Ops]
        /\ target \in [AllThreads -> Threads \cup {None}]
        /\ Main \in AllThreads
    BY DEF TypeInv, TypeOK, ThreadTypeOK, OpTypeOK, AllThreads
  \* Nothing that AloneInv speaks of moved, except that TSan may be on now.
  <1>0. ASSUME MainThreadTsanDisabled' => MainThreadTsanDisabled,
               Off => \A t \in Threads : Unborn(t)'
        PROVE  AloneInv'
    BY <1>0 DEF AloneInv, Off
  <1>1. ASSUME NEW p \in AllThreads, NEW t \in Threads, NEW det \in BOOLEAN,
               ThreadCreate(p, t, det)
        PROVE  AloneInv'
    <2>1. MainThreadTsanDisabled' = MainThreadTsanDisabled
      BY <1>1 DEF ThreadCreate, main_vars
    <2>2. ASSUME Off PROVE \A u \in Threads : Unborn(u)'
      <3>1. p = Main /\ op[Main] = "idle"
        BY <1>1, <2>2, OffMeansMain DEF ThreadCreate, MayCallPthread, InUserCode
      <3>2. \A u \in Threads : status[u] \in {"none", "reaped"}
        BY <2>2, <3>1 DEF AloneInv, Off
      <3> QED BY <1>1, <1>t, <3>1, <3>2 DEF ThreadCreate, Goto
    <2> QED BY <2>1, <2>2, <1>0
  <1>2. ASSUME NEW p \in AllThreads, ThreadCreateActivate(p) PROVE AloneInv'
    <2>1. MainThreadTsanDisabled' => MainThreadTsanDisabled
      BY <1>2 DEF ThreadCreateActivate, MaybeEnableMainThreadTsan,
           EnableMainThreadTsan, main_vars
    <2>2. ASSUME Off PROVE ~MainThreadTsanDisabled'
      <3>1. p = Main
        BY <1>2, <2>2, OffMeansMain DEF ThreadCreateActivate
      <3>2. in_signal_handler = 0
        BY <1>2, <3>1 DEF ThreadCreateActivate, QuietHandlers, TypeInv,
             HandlerCountInv
      <3> QED BY <1>2, <2>2, <3>1, <3>2 DEF ThreadCreateActivate, AloneInv, Off,
                MaybeEnableMainThreadTsan, SupportSingleThreadOptimization,
                EnableMainThreadTsan
    <2> QED BY <2>1, <2>2 DEF AloneInv, Off
  <1>3. ASSUME NEW p \in AllThreads, ThreadCreateRegister(p) PROVE AloneInv'
    <2>1. ~Off
      BY <1>3, <1>t, OffMeansMain DEF ThreadCreateRegister, TypeInv, TargetInv,
           OpInv, OpStatusInv, CreateOps, AloneInv, Off
    <2>2. MainThreadTsanDisabled' = MainThreadTsanDisabled
      BY <1>3 DEF ThreadCreateRegister, main_vars
    <2> QED BY <2>1, <2>2 DEF AloneInv, Off
  <1>4. ASSUME NEW p \in AllThreads, ThreadJoinDeactivate(p) PROVE AloneInv'
    <2>1. UNCHANGED status
      BY <1>4 DEF ThreadJoinDeactivate, thread_vars
    <2>2. CASE IsNowAllJoined /\ SupportSingleThreadOptimization(p)
      <3>1. IsFiniteSet(Counted) /\ Cardinality(Counted) \in Nat
        BY FS_Subset, FS_CardinalityType DEF Counted
      <3>2. num_unjoined_threads = 1 + Cardinality(Counted)
        BY DEF UnjoinedCounterIsExact, Counted
      <3>3. Cardinality(Counted) = 0
        BY <2>2, <3>1, <3>2 DEF IsNowAllJoined
      <3>4. Counted = {}
        BY <3>1, <3>3, FS_EmptySet
      <3>5. \A t \in Threads : status'[t] \in {"none", "reaped"}
        BY <2>1, <3>4 DEF Counted
      <3> QED BY <2>2, <3>5 DEF AloneInv, SupportSingleThreadOptimization
    <2>3. CASE ~(IsNowAllJoined /\ SupportSingleThreadOptimization(p))
      <3>1. MainThreadTsanDisabled' = MainThreadTsanDisabled
        BY <1>4, <2>3 DEF ThreadJoinDeactivate, main_vars
      <3>2. ASSUME Off PROVE \A t \in Threads : Unborn(t)'
        <4>1. p = Main /\ op[Main] = "deactivate"
          BY <1>4, <3>2, OffMeansMain DEF ThreadJoinDeactivate
        <4> QED BY <2>1, <3>2, <4>1 DEF AloneInv, Off
      <3> QED BY <3>1, <3>2, <1>0
    <2> QED BY <2>2, <2>3
  \* The other operations of a thread need a live thread to be about.
  <1>5. ASSUME NEW p \in AllThreads, NEW t \in Threads,
               JoinBegin(p, t) \/ ThreadDetach(p, t)
        PROVE  AloneInv'
    <2>1. ~Off
      BY <1>5 DEF JoinBegin, ThreadDetach, Joinable, AloneInv, Off
    <2>2. MainThreadTsanDisabled' = MainThreadTsanDisabled
      BY <1>5 DEF JoinBegin, ThreadDetach, main_vars
    <2> QED BY <2>1, <2>2 DEF AloneInv, Off
  <1>6. ASSUME NEW p \in AllThreads,
               \/ PthreadCreateReturn(p)
               \/ JoinNotReady(p)
               \/ JoinReturn(p)
        PROVE  AloneInv'
    <2>1. UNCHANGED <<status, MainThreadTsanDisabled>>
      BY <1>6 DEF PthreadCreateReturn, JoinNotReady, JoinReturn, thread_vars,
           main_vars
    <2>2. ASSUME Off PROVE \A t \in Threads : Unborn(t)'
      <3>1. op[p] # "idle" /\ op[p] # "activate"
        BY <1>6 DEF PthreadCreateReturn, JoinNotReady, JoinReturn
      <3>2. p = Main
        BY <2>2, <3>1, OffMeansMain
      <3> QED BY <2>1, <2>2, <3>1, <3>2 DEF AloneInv, Off
    <2> QED BY <2>1, <2>2, <1>0
  <1>7. ASSUME NEW p \in AllThreads, ThreadJoin(p) \/ ThreadJoinDiscount(p)
        PROVE  AloneInv'
    <2>1. ~Off
      BY <1>7, <1>t DEF ThreadJoin, ThreadJoinDiscount, TypeInv, TargetInv, OpInv,
           OpStatusInv, JoinOps, AloneInv, Off
    <2>2. MainThreadTsanDisabled' = MainThreadTsanDisabled
      BY <1>7 DEF ThreadJoin, ThreadJoinDiscount, main_vars
    <2> QED BY <2>1, <2>2 DEF AloneInv, Off
  <1>8. ASSUME NEW t \in Threads, ChildStep(t) PROVE AloneInv'
    <2>1. ~Off
      BY <1>8 DEF ChildStep, ThreadStart, ThreadFinish, ThreadFinishRelease,
           ThreadFinishRegistry, InUserCode, AloneInv, Off
    <2>2. MainThreadTsanDisabled' = MainThreadTsanDisabled
      BY <1>8 DEF ChildStep, ThreadStart, ThreadFinish, ThreadFinishRelease,
           ThreadFinishRegistry, main_vars
    <2> QED BY <2>1, <2>2 DEF AloneInv, Off
  <1>9. ASSUME NEW p \in AllThreads, ThreadFinalize(p) PROVE AloneInv'
    <2>1. MainThreadTsanDisabled' => MainThreadTsanDisabled
      BY <1>9 DEF ThreadFinalize, MaybeEnableMainThreadTsan,
           EnableMainThreadTsan, main_vars
    <2>2. UNCHANGED <<status, op, target>>
      BY <1>9 DEF ThreadFinalize, thread_vars, op_vars
    <2> QED BY <2>1, <2>2 DEF AloneInv
  <1>10. CASE SignalEnter \/ SignalReturn
    <2>1. UNCHANGED <<status, MainThreadTsanDisabled>>
      BY <1>10 DEF SignalEnter, SignalReturn, thread_vars, main_vars
    <2>2. op[Main] # "activate"
      BY <1>10 DEF SignalEnter, SignalReturn
    <2> QED BY <2>1, <2>2 DEF AloneInv
  <1>11. ASSUME \/ \E p \in AllThreads : AnnotateIgnoreBegin(p) \/ AnnotateIgnoreEnd(p)
                \/ SetJmp
                \/ LongJmp
                \/ MainThreadFinish
                \/ Terminated
                \/ UNCHANGED vars
         PROVE  AloneInv'
    <2>1. UNCHANGED <<status, op, target, MainThreadTsanDisabled>>
      BY <1>11 DEF AnnotateIgnoreBegin, AnnotateIgnoreEnd, SetJmp, LongJmp,
           MainThreadFinish, Terminated, vars, thread_vars, op_vars, main_vars
    <2> QED BY <2>1 DEF AloneInv
  <1> QED BY <1>1, <1>2, <1>3, <1>4, <1>5, <1>6, <1>7, <1>8, <1>9, <1>10, <1>11
             DEF Next, CreateStep, JoinStep, SignalStep

\* "Disable TSan if only main thread is alive" (tsan_rtl_thread.cpp:258): for
\* any number of threads, where handlers call no pthread function, TSan is off
\* only while no other thread is alive or finished and unjoined.
THEOREM DeactivatedOnlyAlone ==
  ASSUME ~HandlerCallsPthread
  PROVE  Spec => []DisabledImpliesAlone
  <1> DEFINE Inv == /\ TypeInv
                    /\ OpInv
                    /\ UnjoinedCounterIsExact
                    /\ QuietHandlers
                    /\ AloneInv
  <1>1. Init => Inv
    BY TypeInit, OpInit, CounterInit, QuietInit, AloneInit
  <1>2. Inv /\ [Next]_vars => Inv'
    BY TypeNext, OpNext, CounterNext, QuietNext, AloneNext
  <1>3. Inv => DisabledImpliesAlone
    BY DEF AloneInv, DisabledImpliesAlone, Live
  <1> HIDE DEF Inv
  <1> QED BY <1>1, <1>2, <1>3, PTL DEF Spec

-----------------------------------------------------------------------------
(* The ignore counters                                                     *)

\* What the operations on the counters do to them.
LEMMA IgnoreEffects ==
  ASSUME NEW s \in Ignores
  PROVE  /\ ThreadIgnoreBegin(s).rw = s.rw + 1 /\ ThreadIgnoreBegin(s).sync = s.sync
         /\ s.rw > 0 => /\ ThreadIgnoreEnd(s).rw = s.rw - 1
                        /\ ThreadIgnoreEnd(s).sync = s.sync
         /\ DisableTsan(s).rw = s.rw + 1 /\ DisableTsan(s).sync = s.sync + 1
         /\ s.rw > 0 => EnableTsan(s).rw = s.rw - 1 /\ EnableTsan(s).sync = s.sync - 1
  <1>1. /\ ThreadIgnoreBegin(s).rw = s.rw + 1 /\ ThreadIgnoreBegin(s).sync = s.sync
    BY DEF ThreadIgnoreBegin
  <1>2. s.rw > 0 => /\ ThreadIgnoreEnd(s).rw = s.rw - 1
                    /\ ThreadIgnoreEnd(s).sync = s.sync
    BY DEF ThreadIgnoreEnd, Ignores
  <1>3. DisableTsan(s).rw = s.rw + 1 /\ DisableTsan(s).sync = s.sync + 1
    BY DEF DisableTsan, ThreadIgnoreBegin, Ignores
  <1>4. s.rw > 0 => EnableTsan(s).rw = s.rw - 1 /\ EnableTsan(s).sync = s.sync - 1
    BY DEF EnableTsan, ThreadIgnoreEnd, Ignores
  <1> QED BY <1>1, <1>2, <1>3, <1>4

\* The types that the counters have.
LEMMA CounterFacts ==
  ASSUME TypeInv
  PROVE  /\ \A p \in AllThreads : ignores[p] \in Ignores
         /\ \A p \in AllThreads : ignores[p].rw \in Nat /\ ignores[p].sync \in Nat
         /\ \A p \in AllThreads : user_ignores[p] \in Nat /\ op[p] \in Ops
         /\ \A p : Disables(p) \in {0, 1}
         /\ Main \in AllThreads /\ Threads \subseteq AllThreads /\ Main \notin Threads
         /\ frames # <<>> => frames[1] \in Frames
  <1>1. frames # <<>> => frames[1] \in Frames
    BY DEF TypeInv, TypeOK, SignalTypeOK
  <1> QED BY <1>1, MainThreadTsanAssumption
             DEF TypeInv, TypeOK, IgnoreTypeOK, OpTypeOK, Ignores, Disables, AllThreads

\* A program whose handlers leave by longjmp needs RestoreTsanState, which the
\* optimisation brings with it, and annotations as they were at the last switch.
LongjmpsAreRestored ==
  ProgramLongjmps =>
    tsan_ignore_single_thread /\ ~tsan_ignore_runtime /\ ~LongjmpRestoresStale

\* tsan_ignore_runtime switches a thread off when it starts.
Early == {"none", "creating", "created"}
EarlyKept ==
  tsan_ignore_runtime =>
    \A t \in Threads : status'[t] \in Early <=> status[t] \in Early

LEMMA DisablesKept ==
  ASSUME EarlyKept, UNCHANGED MainThreadTsanDisabled, NEW p \in AllThreads
  PROVE  Disables(p)' = Disables(p)
  BY DEF EarlyKept, Early, Disables, AllThreads

\* Steps of p that begin or end an ignore together with what counts it, and steps
\* that change none.
LEMMA BalanceMove ==
  ASSUME TypeInv, BalanceInv, NEW p \in AllThreads,
         \A q \in AllThreads \ {p} :
           /\ ignores'[q] = ignores[q]
           /\ op'[q] = op[q]
           /\ user_ignores'[q] = user_ignores[q],
         UNCHANGED <<frames, MainThreadTsanDisabled, main_thread_state, check_failed>>,
         jmp_buf'.depth >= 0 => ProgramLongjmps,
         EarlyKept,
         p # Main \/ frames = <<>> =>
           (Balanced(p, ignores[p], op[p]) => Balanced(p, ignores[p], op[p])'),
         p = Main /\ frames # <<>> => user_ignores'[p] = user_ignores[p]
  PROVE  BalanceInv'
  <1>1. \A q \in AllThreads : Disables(q)' = Disables(q)
    BY DisablesKept
  <1>2. ASSUME NEW t \in Threads PROVE Balanced(t, ignores[t], op[t])'
    BY <1>1, CounterFacts DEF BalanceInv, Balanced
  <1>3. frames' = <<>> => Balanced(Main, ignores[Main], op[Main])'
    BY <1>1, CounterFacts DEF BalanceInv, Balanced
  <1>4. frames' # <<>> => Balanced(Main, frames[1], frames[1].op)'
    BY <1>1, CounterFacts DEF BalanceInv, Balanced
  <1> QED BY <1>1, <1>2, <1>3, <1>4, CounterFacts DEF BalanceInv

\* Steps that change no counter and neither begin nor end a blocked join.
LEMMA BalanceFrame ==
  ASSUME TypeInv, BalanceInv,
         UNCHANGED <<ignores, user_ignores, frames, main_vars, check_failed>>,
         jmp_buf'.depth >= 0 => ProgramLongjmps,
         \A p \in AllThreads : op'[p] = "joining" <=> op[p] = "joining",
         EarlyKept
  PROVE  BalanceInv'
  <1>1. \A q \in AllThreads : Disables(q)' = Disables(q)
    BY DisablesKept DEF main_vars
  <1>2. ASSUME NEW q \in AllThreads
        PROVE  Balanced(q, ignores[q], op[q])' <=> Balanced(q, ignores[q], op[q])
    BY <1>1 DEF Balanced
  <1>3. frames # <<>> =>
          (Balanced(Main, frames[1], frames[1].op)'
           <=> Balanced(Main, frames[1], frames[1].op))
    BY <1>1, CounterFacts DEF Balanced
  <1> QED BY <1>1, <1>2, <1>3, CounterFacts DEF BalanceInv, main_vars

\* in_signal_handler is zero exactly outside handlers.
LEMMA OutsideHandlers ==
  ASSUME TypeInv
  PROVE  frames = <<>> <=> in_signal_handler = 0
  BY DEF TypeInv, TypeOK, SignalTypeOK, HandlerCountInv

\* EnableMainThreadTsan finds the ignore that DisableMainThreadTsan has begun.
LEMMA EnableBalances ==
  ASSUME TypeInv, BalanceInv, EnableMainThreadTsan, ~tsan_ignore_runtime,
         op[Main] # "joining", tsan_ignore_single_thread
  PROVE  /\ UNCHANGED check_failed
         /\ MainThreadTsanDisabled' => MainThreadTsanDisabled
         /\ main_thread_state'.sync = IF MainThreadTsanDisabled' THEN 1 ELSE 0
         /\ frames = <<>> =>
              /\ ~MainThreadTsanDisabled'
              /\ ignores'[Main].rw = user_ignores[Main]
              /\ ignores'[Main].sync = 0
         /\ frames # <<>> => UNCHANGED <<main_vars, ignores>>
  <1>1. CASE in_signal_handler # 0 \/ ~MainThreadTsanDisabled
    <2>1. UNCHANGED <<main_vars, ignores, check_failed>>
      BY <1>1 DEF EnableMainThreadTsan
    <2>2. frames = <<>> => in_signal_handler = 0
      BY OutsideHandlers
    <2>3. frames = <<>> => Balanced(Main, ignores[Main], op[Main])
      BY DEF BalanceInv
    <2>4. main_thread_state.sync = IF MainThreadTsanDisabled THEN 1 ELSE 0
      BY DEF BalanceInv, Disables
    <2> QED BY <1>1, <2>1, <2>2, <2>3, <2>4, CounterFacts DEF Balanced, Disables, main_vars
  <1>2. CASE ~(in_signal_handler # 0 \/ ~MainThreadTsanDisabled)
    <2>1. frames = <<>>
      BY <1>2, OutsideHandlers
    <2>2. ignores[Main].rw = user_ignores[Main] + 1 /\ ignores[Main].sync = 1
      BY <1>2, <2>1, CounterFacts DEF BalanceInv, Balanced, Disables
    <2>3. EndChecks(ignores[Main])
      BY <2>2, CounterFacts DEF EndChecks
    <2>4. /\ ignores' = [ignores EXCEPT ![Main] = EnableTsan(@)]
          /\ main_thread_state' = StoreCurrentTsanState(EnableTsan(ignores[Main]))
          /\ MainThreadTsanDisabled' = FALSE
          /\ UNCHANGED check_failed
      BY <1>2, <2>3 DEF EnableMainThreadTsan
    <2>5. /\ EnableTsan(ignores[Main]).rw = user_ignores[Main]
          /\ EnableTsan(ignores[Main]).sync = 0
      <3>1. ignores[Main] \in Ignores /\ user_ignores[Main] \in Nat
        BY CounterFacts
      <3>2. ignores[Main].rw > 0
        BY <2>2, <3>1
      <3>3. /\ EnableTsan(ignores[Main]).rw = ignores[Main].rw - 1
            /\ EnableTsan(ignores[Main]).sync = ignores[Main].sync - 1
        BY <3>1, <3>2, IgnoreEffects
      <3> QED BY <2>2, <3>1, <3>3
    <2>6. ignores'[Main] = EnableTsan(ignores[Main])
      BY <2>4, CounterFacts DEF TypeInv, TypeOK, IgnoreTypeOK
    <2> QED BY <2>1, <2>4, <2>5, <2>6 DEF StoreCurrentTsanState
  <1> QED BY <1>1, <1>2


\* ThreadCreate and ThreadFinalize switch TSan on, outside handlers.
LEMMA MaybeEnableBalances ==
  ASSUME TypeInv, BalanceInv, NEW p \in AllThreads, MaybeEnableMainThreadTsan(p),
         UNCHANGED <<user_ignores, frames, status, jmp_buf>>,
         op[p] # "joining", op'[p] # "joining",
         \A q \in AllThreads \ {p} : op'[q] = op[q]
  PROVE  BalanceInv'
  <1>1. CASE SupportSingleThreadOptimization(p) /\ ~tsan_ignore_runtime
    <2>1. p = Main /\ tsan_ignore_single_thread /\ EnableMainThreadTsan
      BY <1>1 DEF SupportSingleThreadOptimization, MaybeEnableMainThreadTsan
    <2>2. /\ UNCHANGED check_failed
          /\ MainThreadTsanDisabled' => MainThreadTsanDisabled
          /\ main_thread_state'.sync = IF MainThreadTsanDisabled' THEN 1 ELSE 0
          /\ frames = <<>> =>
               /\ ~MainThreadTsanDisabled'
               /\ ignores'[Main].rw = user_ignores[Main]
               /\ ignores'[Main].sync = 0
          /\ frames # <<>> => UNCHANGED <<main_vars, ignores>>
      BY <1>1, <2>1, EnableBalances
    <2>3. \A t \in Threads : ignores'[t] = ignores[t]
      BY <2>1, EnableTypes, CounterFacts DEF TypeInv
    <2>4. \A t \in Threads : Balanced(t, ignores[t], op[t])'
      BY <1>1, <2>1, <2>3, CounterFacts DEF BalanceInv, Balanced, Disables
    <2>5. CASE frames = <<>>
      <3>1. Balanced(Main, ignores[Main], op[Main])'
        BY <1>1, <2>1, <2>2, <2>5, CounterFacts DEF Balanced, Disables
      <3> QED BY <1>1, <2>1, <2>2, <2>4, <2>5, <3>1 DEF BalanceInv, Disables
    <2>6. CASE frames # <<>>
      <3>1. Balanced(Main, frames[1], frames[1].op)'
        BY <2>2, <2>6, CounterFacts DEF BalanceInv, Balanced, Disables, main_vars
      <3> QED BY <1>1, <2>1, <2>2, <2>4, <2>6, <3>1 DEF BalanceInv, Disables, main_vars
    <2> QED BY <2>5, <2>6
  <1>2. CASE ~(SupportSingleThreadOptimization(p) /\ ~tsan_ignore_runtime)
    BY <1>2, BalanceFrame DEF MaybeEnableMainThreadTsan, BalanceInv, EarlyKept
  <1> QED BY <1>1, <1>2

\* ThreadJoin switches TSan off for the main thread.
LEMMA JoinDeactivateBalances ==
  ASSUME TypeInv, BalanceInv, NEW p \in AllThreads, ThreadJoinDeactivate(p)
  PROVE  BalanceInv'
  <1>1. /\ op[p] = "deactivate" /\ op'[p] = "idle"
        /\ \A q \in AllThreads \ {p} : op'[q] = op[q]
        /\ UNCHANGED <<user_ignores, frames, status, jmp_buf, check_failed>>
    BY DEF ThreadJoinDeactivate, Goto, thread_vars, signal_vars, end_vars, TypeInv,
           TypeOK, OpTypeOK
  <1>2. CASE UNCHANGED <<main_vars, ignores>>
    BY <1>1, <1>2, BalanceFrame DEF BalanceInv, EarlyKept
  <1>3. CASE ~(UNCHANGED <<main_vars, ignores>>)
    <2>1. /\ p = Main /\ tsan_ignore_single_thread
          /\ in_signal_handler = 0 /\ ~MainThreadTsanDisabled /\ MainThreadTsanDisabled'
          /\ ignores' = [ignores EXCEPT ![Main] = DisableTsan(@)]
          /\ main_thread_state' = StoreCurrentTsanState(DisableTsan(ignores[Main]))
      BY <1>3 DEF ThreadJoinDeactivate, DisableMainThreadTsan,
           SupportSingleThreadOptimization
    <2>2. frames = <<>> /\ ~tsan_ignore_runtime
      BY <2>1, OutsideHandlers DEF BalanceInv
    <2>3. ignores[Main].rw = user_ignores[Main] /\ ignores[Main].sync = 0
      BY <1>1, <2>1, <2>2, CounterFacts DEF BalanceInv, Balanced, Disables
    <2>4. /\ DisableTsan(ignores[Main]).rw = user_ignores[Main] + 1
          /\ DisableTsan(ignores[Main]).sync = 1
      BY <2>3, CounterFacts, IgnoreEffects
    <2>5. /\ ignores'[Main] = DisableTsan(ignores[Main])
          /\ \A t \in Threads : ignores'[t] = ignores[t]
      BY <2>1, CounterFacts DEF TypeInv, TypeOK, IgnoreTypeOK
    <2>6. \A t \in Threads : Balanced(t, ignores[t], op[t])'
      BY <1>1, <2>1, <2>2, <2>5, CounterFacts DEF BalanceInv, Balanced, Disables
    <2>7. Balanced(Main, ignores[Main], op[Main])'
      BY <1>1, <2>1, <2>2, <2>4, <2>5, CounterFacts DEF Balanced, Disables
    <2>8. main_thread_state'.sync = 1
      BY <2>1, <2>4 DEF StoreCurrentTsanState
    <2> QED BY <1>1, <2>1, <2>2, <2>6, <2>7, <2>8 DEF BalanceInv, Disables
  <1> QED BY <1>2, <1>3

\* ThreadStart switches TSan off for its thread under tsan_ignore_runtime.
LEMMA StartBalances ==
  ASSUME TypeInv, BalanceInv, NEW t \in Threads, ThreadStart(t), op[t] = "idle"
  PROVE  BalanceInv'
  <1>1. /\ status[t] = "created" /\ status' = [status EXCEPT ![t] = "running"]
        /\ ignores' = [ignores EXCEPT ![t] =
                         IF tsan_ignore_runtime THEN DisableTsan(@) ELSE @]
        /\ UNCHANGED <<op, user_ignores, frames, main_vars, jmp_buf, check_failed>>
    BY DEF ThreadStart, op_vars, signal_vars, end_vars
  <1>2. /\ status'[t] = "running" /\ \A u \in Threads \ {t} : status'[u] = status[u]
        /\ ignores'[t] = IF tsan_ignore_runtime THEN DisableTsan(ignores[t]) ELSE ignores[t]
        /\ \A p \in AllThreads \ {t} : ignores'[p] = ignores[p]
    BY <1>1, CounterFacts DEF TypeInv, TypeOK, ThreadTypeOK, IgnoreTypeOK
  <1>3. \A p \in AllThreads \ {t} : Disables(p)' = Disables(p)
    BY <1>1, <1>2, CounterFacts DEF Disables, main_vars, AllThreads
  <1>4. /\ Disables(t) = 0
        /\ Disables(t)' = IF tsan_ignore_runtime THEN 1 ELSE 0
    BY <1>1, <1>2, CounterFacts DEF Disables
  <1>5. Balanced(t, ignores[t], op[t])'
    BY <1>1, <1>2, <1>4, CounterFacts, IgnoreEffects DEF BalanceInv, Balanced
  <1>6. \A u \in Threads \ {t} : Balanced(u, ignores[u], op[u])'
    BY <1>1, <1>2, <1>3, CounterFacts DEF BalanceInv, Balanced
  <1>7. frames' = <<>> => Balanced(Main, ignores[Main], op[Main])'
    BY <1>1, <1>2, <1>3, CounterFacts DEF BalanceInv, Balanced
  <1>8. frames' # <<>> => Balanced(Main, frames[1], frames[1].op)'
    BY <1>1, <1>3, CounterFacts DEF BalanceInv, Balanced
  <1> QED BY <1>1, <1>3, <1>5, <1>6, <1>7, <1>8, CounterFacts DEF BalanceInv, main_vars

\* A handler is entered with the counters saved and left with them restored, by
\* CallUserSignalHandler or, after a longjmp, by RestoreTsanState.
LEMMA SignalBalances ==
  ASSUME TypeInv, BalanceInv, LongjmpsAreRestored, SignalEnter \/ SignalReturn \/ LongJmp
  PROVE  BalanceInv'
  <1>1. /\ UNCHANGED <<status, user_ignores, main_vars, check_failed>>
        /\ \A t \in Threads : op'[t] = op[t] /\ ignores'[t] = ignores[t]
        /\ jmp_buf'.depth >= 0 => jmp_buf.depth >= 0
    BY CounterFacts DEF SignalEnter, SignalReturn, LongJmp, Goto, NoJmpBuf, thread_vars,
         end_vars, op_vars, TypeInv, TypeOK, OpTypeOK, IgnoreTypeOK
  <1>2. \A p \in AllThreads : Disables(p)' = Disables(p)
    BY <1>1, DisablesKept DEF EarlyKept, main_vars
  <1>3. \A t \in Threads : Balanced(t, ignores[t], op[t])'
    BY <1>1, <1>2, CounterFacts DEF BalanceInv, Balanced
  <1>4. SUFFICES /\ frames' = <<>> => Balanced(Main, ignores[Main], op[Main])'
                 /\ frames' # <<>> => Balanced(Main, frames[1], frames[1].op)'
    BY <1>1, <1>2, <1>3, <1>4, CounterFacts DEF BalanceInv, main_vars
  <1>5. frames \in Seq(Frames)
    BY DEF TypeInv, TypeOK, SignalTypeOK
  <1>6. CASE SignalEnter
    <2> DEFINE e == [rw |-> ignores[Main].rw, sync |-> ignores[Main].sync,
                     op |-> op[Main], target |-> target[Main]]
    <2>1. e \in Frames
      BY DEF TypeInv, TypeOK, IgnoreTypeOK, OpTypeOK, Ignores, Frames, AllThreads
    <2>2. e.rw = ignores[Main].rw /\ e.sync = ignores[Main].sync /\ e.op = op[Main]
      OBVIOUS
    <2>3. frames' = Append(frames, e)
      BY <1>6 DEF SignalEnter
    <2> HIDE DEF e
    <2>4. frames' # <<>> /\ frames'[1] = IF frames = <<>> THEN e ELSE frames[1]
      BY <1>5, <2>1, <2>3
    <2>5. CASE frames = <<>>
      <3>1. /\ frames'[1].rw = ignores[Main].rw /\ frames'[1].sync = ignores[Main].sync
            /\ frames'[1].op = op[Main]
        BY <2>2, <2>4, <2>5
      <3>2. Balanced(Main, frames[1], frames[1].op)'
        BY <1>1, <1>2, <2>5, <3>1, CounterFacts DEF BalanceInv, Balanced
      <3> QED BY <2>4, <3>2
    <2>6. CASE frames # <<>>
      <3>1. frames'[1] = frames[1]
        BY <2>4, <2>6
      <3>2. Balanced(Main, frames[1], frames[1].op)'
        BY <1>1, <1>2, <2>6, <3>1, CounterFacts DEF BalanceInv, Balanced
      <3> QED BY <2>4, <3>2
    <2> QED BY <2>5, <2>6
  <1>7. CASE SignalReturn
    <2>1. /\ Len(frames) - 1 \in 0 .. Len(frames) /\ frames # <<>>
          /\ Len(frames) \in Nat \ {0}
      BY <1>5, <1>7 DEF SignalReturn
    <2>2. /\ Len(frames') = Len(frames) - 1
          /\ \A i \in 1 .. Len(frames) - 1 : frames'[i] = frames[i]
      BY <1>5, <1>7, <2>1, PrefixFrames DEF SignalReturn
    <2>3. CASE Len(frames) = 1
      <3>1. /\ ignores'[Main].rw = frames[1].rw /\ ignores'[Main].sync = frames[1].sync
            /\ op'[Main] = frames[1].op
        BY <1>7, <2>3, CounterFacts DEF SignalReturn, Goto, TypeInv, TypeOK, OpTypeOK,
             IgnoreTypeOK
      <3>2. frames' = <<>>
        BY <1>5, <2>1, <2>2, <2>3, <1>7 DEF SignalReturn
      <3> QED BY <1>1, <1>2, <2>1, <3>1, <3>2, CounterFacts DEF BalanceInv, Balanced
    <2>4. CASE Len(frames) > 1
      <3>1. frames' # <<>> /\ frames'[1] = frames[1]
        BY <1>5, <2>2, <2>4
      <3> QED BY <1>1, <1>2, <2>1, <3>1, CounterFacts DEF BalanceInv, Balanced
    <2>5. \A n \in Nat \ {0} : n = 1 \/ n > 1
      OBVIOUS
    <2> QED BY <2>1, <2>3, <2>4, <2>5, Zenon
  <1>8. CASE LongJmp
    <2>1. /\ jmp_buf.depth \in 0 .. Len(frames) /\ frames # <<>>
          /\ jmp_buf.depth >= 0
      BY <1>5, <1>8 DEF LongJmp, TypeInv, HandlerCountInv, TypeOK, SignalTypeOK
    <2>2. /\ Len(frames') = jmp_buf.depth
          /\ \A i \in 1 .. jmp_buf.depth : frames'[i] = frames[i]
          /\ frames' \in Seq(Frames)
      BY <1>5, <1>8, <2>1, PrefixFrames DEF LongJmp
    <2>3. CASE jmp_buf.depth = 0
      <3>1. tsan_ignore_single_thread /\ ~tsan_ignore_runtime /\ StateIsCurrent
        BY <1>8, <2>1 DEF LongJmp, BalanceInv, LongjmpsAreRestored
      <3>2. in_signal_handler # 0
        BY <2>1, OutsideHandlers
      <3>3. /\ ignores'[Main].rw = main_thread_state.rw
            /\ ignores'[Main].sync = main_thread_state.sync
        BY <1>8, <3>1, <3>2, CounterFacts
        DEF LongJmp, RestoreTsanState, SupportSingleThreadOptimization, TypeInv, TypeOK,
            IgnoreTypeOK
      <3>4. op'[Main] = "idle"
        BY <1>8 DEF LongJmp, InUserCode, op_vars
      <3>5. Balanced(Main, ignores[Main], op[Main])'
        BY <1>1, <1>2, <3>1, <3>3, <3>4, CounterFacts
        DEF BalanceInv, Balanced, StateIsCurrent, Disables
      <3>6. frames' = <<>>
        BY <2>2, <2>3
      <3> QED BY <3>5, <3>6
    <2>4. CASE jmp_buf.depth > 0
      <3>1. frames' # <<>> /\ frames'[1] = frames[1]
        BY <2>1, <2>2, <2>4
      <3> QED BY <1>1, <1>2, <2>1, <3>1, CounterFacts DEF BalanceInv, Balanced
    <2> QED BY <2>1, <2>3, <2>4
  <1> QED BY <1>6, <1>7, <1>8

\* A blocked join begins and ends with an ignore of its own.
LEMMA JoinIgnoresBalance ==
  ASSUME TypeInv, BalanceInv, NEW p \in AllThreads,
         (\E t \in Threads : JoinBegin(p, t)) \/ JoinNotReady(p) \/ JoinReturn(p)
  PROVE  BalanceInv'
  <1>t. ignores \in [AllThreads -> Ignores] /\ op \in [AllThreads -> Ops]
    BY DEF TypeInv, TypeOK, IgnoreTypeOK, OpTypeOK
  <1>1. /\ UNCHANGED <<user_ignores, frames, status, jmp_buf, MainThreadTsanDisabled,
                       main_thread_state, check_failed>>
        /\ \A q \in AllThreads \ {p} : ignores'[q] = ignores[q] /\ op'[q] = op[q]
    BY <1>t DEF JoinBegin, JoinNotReady, JoinReturn, Goto, thread_vars, main_vars,
         signal_vars, end_vars
  <1>2. Disables(p)' = Disables(p)
    BY <1>1, DisablesKept DEF EarlyKept
  <1>3. CASE \E t \in Threads : JoinBegin(p, t)
    <2>1. /\ op[p] = "idle" /\ op'[p] = "joining"
          /\ ignores'[p] = ThreadIgnoreBegin(ignores[p])
      BY <1>3, <1>t DEF JoinBegin, MayCallPthread, InUserCode, Goto
    <2>2. ignores'[p].rw = ignores[p].rw + 1 /\ ignores'[p].sync = ignores[p].sync
      BY <2>1, CounterFacts, IgnoreEffects
    <2>3. Balanced(p, ignores[p], op[p]) => Balanced(p, ignores[p], op[p])'
      BY <1>1, <1>2, <2>1, <2>2, CounterFacts DEF Balanced
    <2> QED BY <1>1, <2>3, BalanceMove DEF EarlyKept, BalanceInv
  <1>4. CASE JoinNotReady(p) \/ JoinReturn(p)
    <2>1. /\ op[p] = "joining" /\ op'[p] # "joining"
          /\ ignores'[p] = ThreadIgnoreEnd(ignores[p])
      BY <1>4, <1>t DEF JoinNotReady, JoinReturn, Goto
    <2>2. ignores[p].rw > 0
      BY <2>1 DEF TypeInv, TargetInv
    <2>3. ignores'[p].rw = ignores[p].rw - 1 /\ ignores'[p].sync = ignores[p].sync
      BY <2>1, <2>2, CounterFacts, IgnoreEffects
    <2>4. Balanced(p, ignores[p], op[p]) => Balanced(p, ignores[p], op[p])'
      BY <1>1, <1>2, <2>1, <2>3, CounterFacts DEF Balanced
    <2> QED BY <1>1, <2>4, BalanceMove DEF EarlyKept, BalanceInv
  <1> QED BY <1>3, <1>4

\* An annotation is counted as it is made.
LEMMA AnnotationsBalance ==
  ASSUME TypeInv, BalanceInv, NEW p \in AllThreads,
         AnnotateIgnoreBegin(p) \/ AnnotateIgnoreEnd(p)
  PROVE  BalanceInv'
  <1>t. ignores \in [AllThreads -> Ignores] /\ user_ignores \in [AllThreads -> Nat]
    BY DEF TypeInv, TypeOK, IgnoreTypeOK
  <1>1. /\ UNCHANGED <<op, frames, status, jmp_buf, MainThreadTsanDisabled,
                       main_thread_state>>
        /\ \A q \in AllThreads \ {p} : /\ ignores'[q] = ignores[q]
                                       /\ user_ignores'[q] = user_ignores[q]
        /\ p # Main \/ frames = <<>>
        /\ op[p] = "idle"
    BY <1>t DEF AnnotateIgnoreBegin, AnnotateIgnoreEnd, InUserCode, thread_vars, main_vars,
         op_vars, signal_vars
  <1>2. Disables(p)' = Disables(p)
    BY <1>1, DisablesKept DEF EarlyKept
  <1>3. Balanced(p, ignores[p], op[p])
    BY <1>1 DEF BalanceInv, AllThreads
  <1>4. CASE AnnotateIgnoreBegin(p)
    <2>1. /\ user_ignores'[p] = user_ignores[p] + 1
          /\ ignores'[p] = ThreadIgnoreBegin(ignores[p])
          /\ UNCHANGED check_failed
      BY <1>4, <1>t DEF AnnotateIgnoreBegin, end_vars
    <2>2. ignores'[p].rw = ignores[p].rw + 1 /\ ignores'[p].sync = ignores[p].sync
      BY <2>1, CounterFacts, IgnoreEffects
    <2>3. Balanced(p, ignores[p], op[p])'
      BY <1>1, <1>2, <1>3, <2>1, <2>2, CounterFacts DEF Balanced
    <2> QED BY <1>1, <2>1, <2>3, BalanceMove DEF EarlyKept, BalanceInv
  <1>5. CASE AnnotateIgnoreEnd(p)
    <2>1. user_ignores[p] > 0
      BY <1>5 DEF AnnotateIgnoreEnd
    <2>2. ignores[p].rw > 0
      BY <1>1, <1>3, <2>1, CounterFacts DEF Balanced
    <2>3. /\ user_ignores'[p] = user_ignores[p] - 1
          /\ ignores'[p] = ThreadIgnoreEnd(ignores[p])
          /\ UNCHANGED check_failed
      BY <1>5, <1>t, <2>2 DEF AnnotateIgnoreEnd, end_vars
    <2>4. ignores'[p].rw = ignores[p].rw - 1 /\ ignores'[p].sync = ignores[p].sync
      BY <2>2, <2>3, CounterFacts, IgnoreEffects
    <2>5. Balanced(p, ignores[p], op[p])'
      BY <1>1, <1>2, <1>3, <2>3, <2>4, CounterFacts DEF Balanced
    <2> QED BY <1>1, <2>3, <2>5, BalanceMove DEF EarlyKept, BalanceInv
  <1> QED BY <1>4, <1>5

\* At the start TSan is off for the main thread if it is off at all.
LEMMA BalanceInit == Init => BalanceInv
  BY MainThreadTsanAssumption
  DEF Init, BalanceInv, Balanced, Disables, DisableTsan, ThreadIgnoreBegin, NoIgnores,
      NoJmpBuf, StoreCurrentTsanState, AllThreads

\* BalanceInv is kept by every step: each counter moves with what it counts.
LEMMA BalanceNext ==
  ASSUME LongjmpsAreRestored, TypeInv, OpInv, BalanceInv, [Next]_vars
  PROVE  BalanceInv'
  <1>t. /\ op \in [AllThreads -> Ops] /\ status \in [Threads -> Statuses]
        /\ Main \in AllThreads /\ Threads \subseteq AllThreads /\ Main \notin Threads
    BY CounterFacts DEF TypeInv, TypeOK, OpTypeOK, ThreadTypeOK
  <1>j. jmp_buf.depth >= 0 => ProgramLongjmps
    BY DEF BalanceInv
  <1>1. ASSUME NEW p \in AllThreads, CreateStep(p) PROVE BalanceInv'
    <2>1. ASSUME NEW t \in Threads, NEW det \in BOOLEAN, ThreadCreate(p, t, det)
          PROVE  BalanceInv'
      <3>1. EarlyKept
        BY <2>1, <1>t DEF ThreadCreate, EarlyKept, Early
      <3>2. \A q \in AllThreads : op'[q] = "joining" <=> op[q] = "joining"
        BY <2>1, <1>t DEF ThreadCreate, MayCallPthread, InUserCode, Goto
      <3>3. UNCHANGED <<ignores, user_ignores, frames, main_vars, check_failed, jmp_buf>>
        BY <2>1 DEF ThreadCreate, signal_vars, end_vars
      <3> QED BY <3>1, <3>2, <3>3, <1>j, BalanceFrame
    <2>2. CASE ThreadCreateActivate(p)
      <3>1. /\ MaybeEnableMainThreadTsan(p)
            /\ UNCHANGED <<user_ignores, frames, status, jmp_buf>>
            /\ op[p] # "joining" /\ op'[p] # "joining"
            /\ \A q \in AllThreads \ {p} : op'[q] = op[q]
        BY <2>2, <1>t DEF ThreadCreateActivate, Goto, signal_vars
      <3> QED BY <3>1, MaybeEnableBalances
    <2>3. CASE ThreadCreateRegister(p)
      <3>1. target[p] \in Threads /\ status[target[p]] = "creating"
        BY <2>3 DEF ThreadCreateRegister, TypeInv, TargetInv, CreateOps, OpInv,
             OpStatusInv
      <3>2. EarlyKept
        BY <2>3, <3>1, <1>t DEF ThreadCreateRegister, EarlyKept, Early
      <3>3. \A q \in AllThreads : op'[q] = "joining" <=> op[q] = "joining"
        BY <2>3, <1>t DEF ThreadCreateRegister, Goto
      <3>4. UNCHANGED <<ignores, user_ignores, frames, main_vars, check_failed, jmp_buf>>
        BY <2>3 DEF ThreadCreateRegister, signal_vars, end_vars
      <3> QED BY <3>2, <3>3, <3>4, <1>j, BalanceFrame
    <2>4. CASE PthreadCreateReturn(p)
      <3>1. \A q \in AllThreads : op'[q] = "joining" <=> op[q] = "joining"
        BY <2>4, <1>t DEF PthreadCreateReturn, Goto
      <3>2. UNCHANGED <<ignores, user_ignores, frames, main_vars, check_failed, jmp_buf,
                        status>>
        BY <2>4 DEF PthreadCreateReturn, signal_vars, end_vars, thread_vars
      <3> QED BY <3>1, <3>2, <1>j, BalanceFrame DEF EarlyKept
    <2> QED BY <1>1, <2>1, <2>2, <2>3, <2>4 DEF CreateStep
  <1>2. ASSUME NEW p \in AllThreads, JoinStep(p) PROVE BalanceInv'
    <2>1. CASE (\E t \in Threads : JoinBegin(p, t)) \/ JoinNotReady(p) \/ JoinReturn(p)
      BY <2>1, JoinIgnoresBalance
    <2>2. CASE ThreadJoin(p) \/ ThreadJoinDiscount(p)
      <3>1. target[p] \in Threads /\ status[target[p]] \notin Early
        BY <2>2 DEF ThreadJoin, ThreadJoinDiscount, TypeInv, TargetInv, JoinOps, OpInv,
             OpStatusInv, Early
      <3>2. EarlyKept
        BY <2>2, <3>1, <1>t DEF ThreadJoin, ThreadJoinDiscount, EarlyKept, Early
      <3>3. \A q \in AllThreads : op'[q] = "joining" <=> op[q] = "joining"
        BY <2>2, <1>t DEF ThreadJoin, ThreadJoinDiscount, Goto
      <3>4. UNCHANGED <<ignores, user_ignores, frames, main_vars, check_failed, jmp_buf>>
        BY <2>2 DEF ThreadJoin, ThreadJoinDiscount, signal_vars, end_vars
      <3> QED BY <3>2, <3>3, <3>4, <1>j, BalanceFrame
    <2>3. CASE ThreadJoinDeactivate(p)
      BY <2>3, JoinDeactivateBalances
    <2>4. ASSUME NEW t \in Threads, ThreadDetach(p, t) PROVE BalanceInv'
      <3>1. EarlyKept
        BY <2>4, <1>t DEF ThreadDetach, Joinable, EarlyKept, Early
      <3>2. UNCHANGED <<ignores, user_ignores, frames, main_vars, check_failed, jmp_buf, op>>
        BY <2>4 DEF ThreadDetach, signal_vars, end_vars, op_vars
      <3> QED BY <3>1, <3>2, <1>j, BalanceFrame
    <2> QED BY <1>2, <2>1, <2>2, <2>3, <2>4 DEF JoinStep
  <1>3. ASSUME NEW p \in AllThreads, ThreadFinalize(p) PROVE BalanceInv'
    <2>1. /\ MaybeEnableMainThreadTsan(p)
          /\ UNCHANGED <<user_ignores, frames, status, jmp_buf, op>>
          /\ op[p] = "idle"
      BY <1>3 DEF ThreadFinalize, InUserCode, thread_vars, signal_vars, op_vars
    <2> QED BY <2>1, MaybeEnableBalances
  <1>4. ASSUME NEW t \in Threads, ChildStep(t) PROVE BalanceInv'
    <2>1. CASE ThreadStart(t)
      <3>1. op[t] = "idle"
        BY <2>1, <1>t DEF ThreadStart, OpInv, OpStatusInv
      <3> QED BY <2>1, <3>1, StartBalances
    <2>2. CASE ThreadFinish(t) \/ ThreadFinishRelease(t) \/ ThreadFinishRegistry(t)
      <3>1. EarlyKept
        BY <2>2, <1>t DEF ThreadFinish, ThreadFinishRelease, ThreadFinishRegistry,
             InUserCode, EarlyKept, Early
      <3>2. UNCHANGED <<ignores, user_ignores, frames, main_vars, check_failed, jmp_buf, op>>
        BY <2>2 DEF ThreadFinish, ThreadFinishRelease, ThreadFinishRegistry, signal_vars,
             end_vars, op_vars
      <3> QED BY <3>1, <3>2, <1>j, BalanceFrame
    <2> QED BY <1>4, <2>1, <2>2 DEF ChildStep
  <1>5. CASE SetJmp \/ MainThreadFinish \/ Terminated \/ UNCHANGED vars
    <2>1. /\ UNCHANGED <<ignores, user_ignores, frames, main_vars, check_failed, op,
                         status>>
          /\ jmp_buf' = jmp_buf \/ ProgramLongjmps
      BY <1>5 DEF SetJmp, MainThreadFinish, Terminated, vars, thread_vars, signal_vars,
           end_vars, op_vars, main_vars
    <2> QED BY <2>1, <1>j, BalanceFrame DEF EarlyKept
  <1> QED BY <1>1, <1>2, <1>3, <1>4, <1>5, SignalBalances, AnnotationsBalance
             DEF Next, SignalStep

\* Outside handlers and thread operations the ignore counters of the main thread
\* are what the program asked for, plus one where TSan is deactivated, for any
\* number of threads, annotations and nested handlers.
THEOREM CountersBalance ==
  ASSUME LongjmpsAreRestored
  PROVE  Spec => []IgnoresBalance
  <1>1. TypeInv /\ BalanceInv => IgnoresBalance
    BY CounterFacts DEF BalanceInv, Balanced, Disables, IgnoresBalance
  <1>2. TypeInv /\ OpInv /\ BalanceInv /\ [Next]_vars => BalanceInv'
    BY BalanceNext
  <1> QED BY TypeInit, TypeNext, OpInit, OpNext, BalanceInit, <1>1, <1>2, PTL DEF Spec

\* No CHECK_GT of ThreadIgnoreEnd or ThreadIgnoreSyncEnd fails.
THEOREM EveryEndHasItsBegin ==
  ASSUME LongjmpsAreRestored
  PROVE  Spec => []NoCheckFailure
  <1>1. BalanceInv => NoCheckFailure
    BY DEF BalanceInv, NoCheckFailure
  <1>2. TypeInv /\ OpInv /\ BalanceInv /\ [Next]_vars => BalanceInv'
    BY BalanceNext
  <1> QED BY TypeInit, TypeNext, OpInit, OpNext, BalanceInit, <1>1, <1>2, PTL DEF Spec

\* A thread that dies has an annotation open.
LEMMA FatalNext ==
  ASSUME LongjmpsAreRestored, TypeInv, OpInv, BalanceInv,
         DeactivationIsNotFatal, [Next]_vars
  PROVE  DeactivationIsNotFatal'
  <1>n. None \notin AllThreads
    BY MainThreadTsanAssumption DEF AllThreads
  <1>b. BalanceInv'
    BY BalanceNext
  <1>1. CASE UNCHANGED <<died, exited, frames, user_ignores>>
    BY <1>1 DEF DeactivationIsNotFatal
  <1>2. CASE died' = None
    BY <1>2 DEF DeactivationIsNotFatal
  <1>3. ASSUME NEW t \in Threads, ThreadFinish(t) PROVE DeactivationIsNotFatal'
    <2>1. /\ op[t] = "idle" /\ UNCHANGED user_ignores
          /\ died' = None \/ (died' = t /\ ThreadCheckIgnore(ignores[t]))
      BY <1>3 DEF ThreadFinish, InUserCode, ProcessRuns
    <2>2. Balanced(t, ignores[t], op[t])
      BY DEF BalanceInv
    <2>3. ThreadCheckIgnore(ignores[t]) => user_ignores[t] > 0
      BY <2>1, <2>2, CounterFacts DEF ThreadCheckIgnore, Balanced, Disables
    <2> QED BY <2>1, <2>3 DEF DeactivationIsNotFatal
  <1>4. ASSUME NEW p \in AllThreads, ThreadFinalize(p) PROVE DeactivationIsNotFatal'
    <2>1. /\ op[p] = "idle" /\ UNCHANGED <<user_ignores, op, frames>>
          /\ MaybeEnableMainThreadTsan(p)
          /\ died' = None \/ (died' = p /\ ThreadCheckIgnore(ignores[p])')
      BY <1>4 DEF ThreadFinalize, InUserCode, ProcessRuns, op_vars, signal_vars,
           ThreadCheckIgnore
    <2>2. ASSUME frames = <<>>, ThreadCheckIgnore(ignores[p])' PROVE user_ignores[p] > 0
      <3>1. CASE p = Main
        <4>1. ~MainThreadTsanDisabled'
          BY <2>1, <2>2, <3>1, OutsideHandlers
          DEF BalanceInv, MaybeEnableMainThreadTsan, EnableMainThreadTsan,
              SupportSingleThreadOptimization, ThreadCheckIgnore, main_vars
        <4>2. Balanced(Main, ignores[Main], op[Main])'
          BY <1>b, <2>1, <2>2 DEF BalanceInv
        <4> QED BY <2>1, <2>2, <3>1, <4>1, <4>2, CounterFacts
                   DEF ThreadCheckIgnore, Balanced, Disables
      <3>2. CASE p # Main
        <4>1. Balanced(p, ignores[p], op[p])'
          BY <1>b, <3>2 DEF BalanceInv, AllThreads
        <4> QED BY <2>1, <2>2, <3>2, <4>1, CounterFacts
                   DEF ThreadCheckIgnore, Balanced, Disables
      <3> QED BY <3>1, <3>2
    <2> QED BY <2>1, <2>2 DEF DeactivationIsNotFatal
  <1>5. \/ UNCHANGED <<died, exited, frames, user_ignores>>
        \/ died' = None
        \/ MainThreadFinish
        \/ \E t \in Threads : ThreadFinish(t)
        \/ \E p \in AllThreads : ThreadFinalize(p)
    <2>1. ASSUME NEW p \in AllThreads, CreateStep(p) \/ JoinStep(p)
          PROVE  UNCHANGED <<died, exited, frames, user_ignores>>
      BY <2>1 DEF CreateStep, ThreadCreate, ThreadCreateActivate, ThreadCreateRegister,
         PthreadCreateReturn, JoinStep, JoinBegin, JoinNotReady, JoinReturn, ThreadJoin,
         ThreadJoinDiscount, ThreadJoinDeactivate, ThreadDetach, end_vars, signal_vars
    <2>2. ASSUME NEW p \in AllThreads, AnnotateIgnoreBegin(p) \/ AnnotateIgnoreEnd(p)
          PROVE  died' = None
      BY <2>2 DEF AnnotateIgnoreBegin, AnnotateIgnoreEnd, InUserCode, ProcessRuns, end_vars
    <2>3. ASSUME NEW t \in Threads, ChildStep(t), ~ThreadFinish(t)
          PROVE  UNCHANGED <<died, exited, frames, user_ignores>>
      BY <2>3 DEF ChildStep, ThreadStart, ThreadFinishRelease, ThreadFinishRegistry,
         end_vars, signal_vars
    <2>4. CASE SignalStep
      BY <2>4 DEF SignalStep, SignalEnter, SignalReturn, SetJmp, LongJmp, InUserCode,
         ProcessRuns, end_vars
    <2>5. CASE Terminated \/ UNCHANGED vars
      BY <2>5 DEF Terminated, vars, end_vars, signal_vars
    <2> QED BY <2>1, <2>2, <2>3, <2>4, <2>5 DEF Next
  <1>6. CASE MainThreadFinish
    <2>1. (died' = Main /\ exited' = "pthread_exit") \/ died' = None
      BY <1>6 DEF MainThreadFinish, InUserCode, ProcessRuns
    <2> QED BY <2>1 DEF DeactivationIsNotFatal
  <1> QED BY <1>1, <1>2, <1>3, <1>4, <1>5, <1>6

\* A thread dies for ignores left open only where the program left one open: the
\* deactivation of the main thread is no such ignore, unless main() ends in
\* pthread_exit, which ThreadFinish meets before TSan is switched on again.
THEOREM OnlyAnnotationsAreFatal ==
  ASSUME LongjmpsAreRestored
  PROVE  Spec => []DeactivationIsNotFatal
  <1>1. Init => DeactivationIsNotFatal
    BY DEF Init, DeactivationIsNotFatal
  <1>2. TypeInv /\ OpInv /\ BalanceInv /\ [Next]_vars => BalanceInv'
    BY BalanceNext
  <1>3. TypeInv /\ OpInv /\ BalanceInv /\ DeactivationIsNotFatal /\ [Next]_vars =>
          DeactivationIsNotFatal'
    BY FatalNext
  <1> QED BY TypeInit, TypeNext, OpInit, OpNext, BalanceInit, <1>1, <1>2, <1>3, PTL DEF Spec

-----------------------------------------------------------------------------
(* The histories of joined threads                                         *)

\* A thread ignores synchronisation only while TSan is off for it.
LEMMA SynchronisationIsSeen ==
  ASSUME ~HandlerCallsPthread, ~tsan_ignore_runtime, TypeInv, QuietHandlers, BalanceInv,
         NEW p \in AllThreads, p = Main => op[Main] # "idle" /\ ~MainThreadTsanDisabled
  PROVE  ignores[p].sync = 0
  BY DEF QuietHandlers, BalanceInv, Balanced, Disables, AllThreads

\* A thread that an operation is about and the thread whose operation it is.
LEMMA OwnerFacts ==
  ASSUME TypeInv, OpInv, NEW p \in AllThreads
  PROVE  /\ op[p] \in {"activate", "register"} =>
              target[p] \in Threads /\ status[target[p]] = "creating"
         /\ op[p] = "join" => target[p] \in Threads /\ status[target[p]] = "finished"
         /\ op[p] = "discount" => target[p] \in Threads /\ status[target[p]] = "joined"
         /\ (p # Main /\ op[p] # "idle") => p \in Threads /\ status[p] = "running"
  BY DEF TypeInv, TargetInv, OpInv, OpStatusInv, CreateOps, JoinOps, AllThreads

\* Steps that neither move a thread on nor touch a clock.
LEMMA HistoryFrame ==
  ASSUME HistoryInv, UNCHANGED <<status, detached, sync, clock>>
  PROVE  HistoryInv'
  BY DEF HistoryInv, Passes

LEMMA HandOverFrame ==
  ASSUME HandOverInv, UNCHANGED <<status, detached, sync, clock>>,
         \A p \in AllThreads :
           op'[p] = "register" =>
             op[p] = "register" /\ target'[p] = target[p]
  PROVE  HandOverInv'
  BY DEF HandOverInv

\* The steps that do not touch what the histories are about.
LEMMA QuietSteps ==
  ASSUME TypeInv, HandOverInv, HistoryInv,
         \/ \E p \in AllThreads :
              \/ PthreadCreateReturn(p) \/ JoinNotReady(p) \/ JoinReturn(p)
              \/ ThreadJoinDeactivate(p) \/ AnnotateIgnoreBegin(p)
              \/ AnnotateIgnoreEnd(p) \/ ThreadFinalize(p)
              \/ \E t \in Threads : JoinBegin(p, t)
         \/ SignalStep
         \/ MainThreadFinish \/ Terminated \/ UNCHANGED vars
  PROVE  HandOverInv' /\ HistoryInv'
  <1>1. UNCHANGED <<status, detached, sync, clock>>
    BY DEF PthreadCreateReturn, JoinNotReady, JoinReturn, ThreadJoinDeactivate,
       AnnotateIgnoreBegin, AnnotateIgnoreEnd, ThreadFinalize, JoinBegin, SignalStep,
       SignalEnter, SignalReturn, SetJmp, LongJmp, MainThreadFinish, Terminated, vars,
       thread_vars
  <1>t. op \in [AllThreads -> Ops] /\ target \in [AllThreads -> Threads \cup {None}]
    BY DEF TypeInv, TypeOK, OpTypeOK
  <1>2. \A p \in AllThreads :
          op'[p] = "register" =>
            op[p] = "register" /\ target'[p] = target[p]
    <2>1. CASE SignalReturn
      <3>1. frames[Len(frames)].op \in {"idle", "joining"}
        BY <2>1 DEF SignalReturn, TypeInv, TargetInv, TypeOK, SignalTypeOK
      <3> QED BY <2>1, <3>1, <1>t DEF SignalReturn, Goto
    <2>2. CASE ~SignalReturn
      BY <2>2, <1>t
      DEF PthreadCreateReturn, JoinNotReady, JoinReturn, ThreadJoinDeactivate,
          AnnotateIgnoreBegin, AnnotateIgnoreEnd, ThreadFinalize, JoinBegin, SignalStep,
          SignalEnter, SetJmp, LongJmp, MainThreadFinish, Terminated, vars, op_vars, Goto
    <2> QED BY <2>1, <2>2
  <1> QED BY <1>1, <1>2, HistoryFrame, HandOverFrame

\* pthread_create hands the clock of the creator over once TSan is on.
LEMMA CreationKeepsHistory ==
  ASSUME ~HandlerCallsPthread, TypeInv, OpInv, QuietHandlers, BalanceInv, BalanceInv',
         HandOverInv, HistoryInv, NEW p \in AllThreads,
         \/ \E t \in Threads, det \in BOOLEAN : ThreadCreate(p, t, det)
         \/ ThreadCreateActivate(p)
         \/ ThreadCreateRegister(p)
  PROVE  HandOverInv' /\ HistoryInv'
  <1>t. /\ op \in [AllThreads -> Ops] /\ target \in [AllThreads -> Threads \cup {None}]
        /\ status \in [Threads -> Statuses] /\ detached \in [Threads -> BOOLEAN]
        /\ sync \in [Threads -> SUBSET Threads]
        /\ p \in AllThreads
    BY DEF TypeInv, TypeOK, OpTypeOK, ThreadTypeOK
  <1>o. \A q \in AllThreads : op[q] \in {"activate", "register"} =>
          target[q] \in Threads /\ status[target[q]] = "creating"
    BY OwnerFacts
  <1>1. ASSUME NEW t \in Threads, NEW det \in BOOLEAN, ThreadCreate(p, t, det)
        PROVE  HandOverInv' /\ HistoryInv'
    <2>1. /\ status[t] = "none" /\ UNCHANGED <<sync, clock>>
          /\ status' = [status EXCEPT ![t] = "creating"]
          /\ detached' = [detached EXCEPT ![t] = det]
      BY <1>1 DEF ThreadCreate
    <2>2. \A q \in AllThreads :
            op'[q] = "register" =>
              op[q] = "register" /\ target'[q] = target[q]
      BY <1>1, <1>t DEF ThreadCreate, Goto
    <2>3. \A u \in Threads \ {t} : status'[u] = status[u] /\ detached'[u] = detached[u]
      BY <1>t, <2>1
    <2>4. status'[t] = "creating"
      BY <1>t, <2>1
    <2>5. HandOverInv'
      BY <2>1, <2>2, <2>3, <2>4 DEF HandOverInv
    <2>6. HistoryInv'
      BY <2>1, <2>3, <2>4 DEF HistoryInv, Passes
    <2> QED BY <2>5, <2>6
  <1>2. CASE ThreadCreateActivate(p)
    <2> DEFINE v == target[p]
    <2>1. /\ v \in Threads /\ status[v] = "creating" /\ op[p] = "activate"
          /\ op'[p] = "register" /\ target'[p] = v
          /\ \A q \in AllThreads \ {p} : op'[q] = op[q] /\ target'[q] = target[q]
          /\ UNCHANGED <<status, detached, clock, frames>>
      BY <1>2, <1>t, <1>o DEF ThreadCreateActivate, Goto, signal_vars
    <2>2. /\ sync'[v] = IF ignores'[p].sync = 0 THEN clock[p] ELSE {}
          /\ \A u \in Threads \ {v} : sync'[u] = sync[u]
      BY <1>2, <1>t, <2>1 DEF ThreadCreateActivate
    <2>3. ASSUME ~tsan_ignore_runtime PROVE ignores'[p].sync = 0
      <3>1. CASE p = Main
        <4>1. frames = <<>> /\ in_signal_handler = 0
          BY <2>1, <3>1, OutsideHandlers DEF QuietHandlers
        <4>2. ~MainThreadTsanDisabled'
          BY <1>2, <2>3, <3>1, <4>1
          DEF ThreadCreateActivate, MaybeEnableMainThreadTsan, EnableMainThreadTsan,
              SupportSingleThreadOptimization, BalanceInv, main_vars
        <4>3. Balanced(Main, ignores[Main], op[Main])'
          BY <2>1, <4>1 DEF BalanceInv
        <4> QED BY <2>3, <3>1, <4>2, <4>3 DEF Balanced, Disables
      <3>2. CASE p # Main
        <4>1. Balanced(p, ignores[p], op[p])'
          BY <3>2 DEF BalanceInv, AllThreads
        <4> QED BY <2>3, <3>2, <4>1 DEF Balanced, Disables
      <3> QED BY <3>1, <3>2
    <2>4. \A q \in AllThreads \ {p} : op[q] = "register" => target[q] # v
      BY <2>1 DEF OpInv, CreatesApart
    <2> HIDE DEF v
    <2>5. \A q \in AllThreads : op'[q] = "register" /\ ~tsan_ignore_runtime =>
            clock'[q] \subseteq sync'[target'[q]]
      <3>1. CASE tsan_ignore_runtime
        BY <3>1
      <3>2. CASE ~tsan_ignore_runtime
        <4>1. clock'[p] \subseteq sync'[target'[p]]
          BY <3>2, <2>1, <2>2, <2>3
        <4>2. ASSUME NEW q \in AllThreads \ {p}, op'[q] = "register"
              PROVE  clock'[q] \subseteq sync'[target'[q]]
          <5>1. /\ op[q] = "register" /\ target'[q] = target[q] /\ target[q] # v
                /\ target[q] \in Threads
            BY <2>1, <2>4, <4>2, <1>o
          <5> QED BY <2>1, <2>2, <3>2, <5>1 DEF HandOverInv
        <4> QED BY <4>1, <4>2
      <3> QED BY <3>1, <3>2
    <2>6. HandOverInv'
      BY <2>1, <2>2, <2>5 DEF HandOverInv
    <2>7. HistoryInv'
      BY <2>1, <2>2 DEF HistoryInv, Passes
    <2> QED BY <2>6, <2>7
  <1>3. CASE ThreadCreateRegister(p)
    <2>1. /\ target[p] \in Threads /\ status[target[p]] = "creating"
          /\ UNCHANGED <<sync, clock, detached>>
          /\ status' = [status EXCEPT ![target[p]] = "created"]
      BY <1>3, <1>o DEF ThreadCreateRegister
    <2>2. \A q \in AllThreads :
            op'[q] = "register" =>
              op[q] = "register" /\ target'[q] = target[q]
      BY <1>3, <1>t DEF ThreadCreateRegister, Goto
    <2>3. /\ \A u \in Threads \ {target[p]} : status'[u] = status[u]
          /\ status'[target[p]] = "created"
      BY <1>t, <2>1
    <2>4. HandOverInv'
      BY <2>1, <2>2, <2>3 DEF HandOverInv
    <2>5. HistoryInv'
      BY <2>1, <2>3 DEF HistoryInv, Passes
    <2> QED BY <2>4, <2>5
  <1> QED BY <1>1, <1>2, <1>3

\* A step of thread v keeps the clocks that are being handed to new threads.
LEMMA HandOverKept ==
  ASSUME TypeInv, OpInv, HandOverInv, NEW v \in Threads,
         status[v] \notin {"none", "creating"},
         \A q \in AllThreads :
           op'[q] = "register" =>
             op[q] = "register" /\ target'[q] = target[q],
         \A q \in AllThreads : op[q] = "register" => clock'[q] = clock[q],
         \A u \in Threads \ {v} : /\ sync'[u] = sync[u] /\ detached'[u] = detached[u]
                                  /\ status'[u] = status[u],
         status'[v] = "finished" => ~detached'[v],
         status'[v] \in {"released", "finished"} /\ ~detached'[v] /\ ~tsan_ignore_runtime =>
           v \in sync'[v]
  PROVE  HandOverInv'
  <1>1. ASSUME NEW q \in AllThreads, op'[q] = "register", ~tsan_ignore_runtime
        PROVE  clock'[q] \subseteq sync'[target'[q]]
    <2>1. op[q] = "register" /\ target'[q] = target[q] /\ clock'[q] = clock[q]
      BY <1>1
    <2>2. target[q] \in Threads \ {v}
      BY <2>1, OwnerFacts
    <2>3. sync'[target[q]] = sync[target[q]]
      BY <2>2
    <2>4. clock[q] \subseteq sync[target[q]]
      BY <1>1, <2>1 DEF HandOverInv
    <2> QED BY <2>1, <2>3, <2>4
  <1> QED BY <1>1 DEF HandOverInv

\* A thread that starts, finishes or is detached keeps the histories it passes on.
LEMMA ChildKeepsHistory ==
  ASSUME ~HandlerCallsPthread, TypeInv, OpInv, QuietHandlers, BalanceInv,
         HandOverInv, HistoryInv, NEW v \in Threads,
         ChildStep(v) \/ \E p \in AllThreads : ThreadDetach(p, v)
  PROVE  HandOverInv' /\ HistoryInv'
  <1>t. /\ status \in [Threads -> Statuses] /\ detached \in [Threads -> BOOLEAN]
        /\ sync \in [Threads -> SUBSET Threads] /\ clock \in [AllThreads -> SUBSET Threads]
        /\ Threads \subseteq AllThreads /\ Main \in AllThreads /\ Main \notin Threads
    BY CounterFacts DEF TypeInv, TypeOK, ThreadTypeOK
  <1>s. ~tsan_ignore_runtime => ignores[v].sync = 0
    BY SynchronisationIsSeen, <1>t
  <1>o. UNCHANGED <<op, target>>
    BY DEF ChildStep, ThreadStart, ThreadFinish, ThreadFinishRelease, ThreadFinishRegistry,
       ThreadDetach, op_vars
  <1>1. \A u \in Threads \ {v} : /\ sync'[u] = sync[u] /\ detached'[u] = detached[u]
                                 /\ status'[u] = status[u] /\ clock'[u] = clock[u]
    BY <1>t DEF ChildStep, ThreadStart, ThreadFinish, ThreadFinishRelease,
       ThreadFinishRegistry, ThreadDetach
  <1>2. /\ clock'[Main] = clock[Main]
        /\ clock[v] \subseteq clock'[v]
        /\ clock'[v] # clock[v] => status[v] = "created"
    BY <1>t DEF ChildStep, ThreadStart, ThreadFinish, ThreadFinishRelease,
       ThreadFinishRegistry, ThreadDetach
  <1>3. /\ status[v] \notin {"none", "creating", "joined", "reaped"}
        /\ status'[v] \notin {"joined", "reaped"}
    BY <1>t DEF ChildStep, ThreadStart, ThreadFinish, ThreadFinishRelease,
       ThreadFinishRegistry, ThreadDetach, InUserCode, Joinable
  <1>4. /\ status'[v] = "finished" => ~detached'[v]
        /\ status'[v] \in {"released", "finished"} /\ ~detached'[v] /\ ~tsan_ignore_runtime =>
             v \in sync'[v]
    <2>1. CASE ThreadStart(v) \/ ThreadFinish(v)
      BY <2>1, <1>t DEF ThreadStart, ThreadFinish, InUserCode
    <2>2. CASE ThreadFinishRelease(v)
      BY <2>2, <1>t, <1>s DEF ThreadFinishRelease
    <2>3. CASE ThreadFinishRegistry(v)
      BY <2>3, <1>t DEF ThreadFinishRegistry, HandOverInv
    <2>4. CASE \E p \in AllThreads : ThreadDetach(p, v)
      BY <2>4, <1>t DEF ThreadDetach, Joinable
    <2> QED BY <2>1, <2>2, <2>3, <2>4 DEF ChildStep
  <1>5. HandOverInv'
    <2>1. \A q \in AllThreads : op[q] = "register" => clock'[q] = clock[q]
      <3>1. ASSUME NEW q \in AllThreads, op[q] = "register" PROVE clock'[q] = clock[q]
        <4>1. q = v => status[v] = "running"
          BY <3>1, <1>t, OwnerFacts
        <4> QED BY <1>1, <1>2, <4>1 DEF AllThreads
      <3> QED BY <3>1
    <2> QED BY <1>o, <1>1, <1>3, <1>4, <2>1, HandOverKept
  <1>6. ASSUME ~tsan_ignore_runtime, NEW t \in Threads, Passes(v, t) PROVE Passes(v, t)'
    <2>1. CASE ThreadStart(v) \/ ThreadFinish(v)
      BY <1>6, <2>1, <1>t DEF ThreadStart, ThreadFinish, InUserCode, Passes
    <2>2. CASE ThreadFinishRelease(v)
      <3>1. t \in clock[v]
        BY <1>6, <2>2 DEF ThreadFinishRelease, Passes
      <3>2. /\ status'[v] = "released" /\ detached'[v] = detached[v]
            /\ sync'[v] = IF ~detached[v] THEN clock[v] \cup {v} ELSE sync[v]
        BY <1>6, <2>2, <1>t, <1>s DEF ThreadFinishRelease
      <3> QED BY <3>1, <3>2 DEF Passes
    <2>3. CASE ThreadFinishRegistry(v)
      BY <1>6, <2>3, <1>t DEF ThreadFinishRegistry, Passes
    <2>4. CASE \E p \in AllThreads : ThreadDetach(p, v)
      BY <1>6, <2>4, <1>t DEF ThreadDetach, Joinable, Passes
    <2> QED BY <2>1, <2>2, <2>3, <2>4 DEF ChildStep
  <1>7. \A u \in Threads \ {v}, t \in Threads : Passes(u, t) => Passes(u, t)'
    BY <1>1 DEF Passes
  <1>8. HistoryInv'
    <2>1. SUFFICES ASSUME ~tsan_ignore_runtime, NEW t \in Threads,
                          status'[t] \in {"joined", "reaped"}
                   PROVE  t \in clock'[Main] \/ \E u \in Threads : Passes(u, t)'
      BY DEF HistoryInv
    <2>2. status[t] \in {"joined", "reaped"}
      BY <1>1, <1>3, <2>1
    <2>3. t \in clock[Main] \/ \E u \in Threads : Passes(u, t)
      BY <2>1, <2>2 DEF HistoryInv
    <2> QED BY <1>2, <1>6, <1>7, <2>1, <2>3
  <1> QED BY <1>5, <1>8

\* The joiner takes over what the joined thread passes on.
LEMMA JoinKeepsHistory ==
  ASSUME ~HandlerCallsPthread, TypeInv, OpInv, QuietHandlers, AloneInv, BalanceInv,
         HandOverInv, HistoryInv, NEW p \in AllThreads,
         ThreadJoin(p) \/ ThreadJoinDiscount(p)
  PROVE  HandOverInv' /\ HistoryInv'
  <1>t. /\ status \in [Threads -> Statuses] /\ detached \in [Threads -> BOOLEAN]
        /\ sync \in [Threads -> SUBSET Threads] /\ clock \in [AllThreads -> SUBSET Threads]
        /\ op \in [AllThreads -> Ops] /\ target \in [AllThreads -> Threads \cup {None}]
        /\ Threads \subseteq AllThreads /\ Main \in AllThreads /\ Main \notin Threads
    BY CounterFacts DEF TypeInv, TypeOK, ThreadTypeOK, OpTypeOK
  <1>o. \A q \in AllThreads :
          op'[q] = "register" =>
            op[q] = "register" /\ target'[q] = target[q]
    BY <1>t DEF ThreadJoin, ThreadJoinDiscount, Goto
  <1>1. CASE ThreadJoin(p)
    <2> DEFINE v == target[p]
    <2>1. /\ v \in Threads /\ status[v] = "finished" /\ op[p] = "join"
          /\ p # Main => p \in Threads /\ status[p] = "running"
      BY <1>1, OwnerFacts DEF ThreadJoin
    <2>2. /\ status' = [status EXCEPT ![v] = "joined"]
          /\ clock' = [clock EXCEPT ![p] = Acquire(p, sync[v])]
          /\ sync' = [sync EXCEPT ![v] = {}]
          /\ UNCHANGED detached
      BY <1>1 DEF ThreadJoin
    <2> HIDE DEF v
    <2>3. /\ status'[v] = "joined" /\ clock'[p] = Acquire(p, sync[v])
          /\ \A u \in Threads \ {v} : status'[u] = status[u] /\ sync'[u] = sync[u]
          /\ \A q \in AllThreads \ {p} : clock'[q] = clock[q]
      BY <1>t, <2>1, <2>2
    <2>4. HandOverInv'
      <3>1. \A q \in AllThreads : op[q] = "register" => clock'[q] = clock[q]
        BY <2>1, <2>3
      <3> QED BY <1>o, <2>1, <2>2, <2>3, <3>1, HandOverKept
    <2>5. ASSUME ~tsan_ignore_runtime PROVE clock'[p] = clock[p] \cup sync[v]
      <3>1. ~MainThreadTsanDisabled
        BY <2>1, <2>5 DEF AloneInv
      <3>2. ignores[p].sync = 0
        BY <2>1, <2>5, <3>1, SynchronisationIsSeen
      <3> QED BY <2>3, <3>2 DEF Acquire
    <2>6. HistoryInv'
      <3>1. SUFFICES ASSUME ~tsan_ignore_runtime, NEW t \in Threads,
                            status'[t] \in {"joined", "reaped"}
                     PROVE  t \in clock'[Main] \/ \E u \in Threads : Passes(u, t)'
        BY DEF HistoryInv
      <3>2. CASE t \in clock'[p]
        <4>1. p # Main => status'[p] = "running" /\ p \in Threads
          BY <2>1, <2>3
        <4> QED BY <3>2, <4>1 DEF Passes
      <3>3. CASE t \notin clock'[p]
        <4>1. t \notin sync[v] /\ t \notin clock[p]
          BY <2>5, <3>1, <3>3
        <4>2. ~detached[v] /\ v \in sync[v]
          BY <2>1, <3>1 DEF HandOverInv
        <4>3. t # v /\ status[t] \in {"joined", "reaped"}
          BY <2>3, <3>1, <4>1, <4>2
        <4>4. t \in clock[Main] \/ \E u \in Threads : Passes(u, t)
          BY <3>1, <4>3 DEF HistoryInv
        <4>5. ~Passes(v, t)
          BY <2>1, <4>1, <4>2 DEF Passes
        <4>6. ASSUME NEW u \in Threads, Passes(u, t) PROVE Passes(u, t)'
          <5>1. u # v
            BY <4>5, <4>6
          <5>2. u # p \/ t \notin clock[u]
            BY <4>1
          <5>3. t \in clock[u] => clock'[u] = clock[u]
            BY <1>t, <2>3, <5>2
          <5> QED BY <2>2, <2>3, <4>6, <5>1, <5>3 DEF Passes
        <4>7. t \in clock[Main] => t \in clock'[Main]
          BY <1>t, <2>3, <4>1
        <4> QED BY <4>4, <4>6, <4>7
      <3> QED BY <3>2, <3>3
    <2> QED BY <2>4, <2>6
  <1>2. CASE ThreadJoinDiscount(p)
    <2> DEFINE v == target[p]
    <2>1. v \in Threads /\ status[v] = "joined"
      BY <1>2, OwnerFacts DEF ThreadJoinDiscount
    <2>2. /\ status' = [status EXCEPT ![v] = "reaped"]
          /\ UNCHANGED <<sync, clock, detached>>
      BY <1>2 DEF ThreadJoinDiscount
    <2> HIDE DEF v
    <2>3. /\ status'[v] = "reaped"
          /\ \A u \in Threads \ {v} : status'[u] = status[u]
      BY <1>t, <2>1, <2>2
    <2>4. HandOverInv'
      BY <1>o, <2>1, <2>2, <2>3, HandOverKept
    <2>5. HistoryInv'
      BY <2>1, <2>2, <2>3 DEF HistoryInv, Passes
    <2> QED BY <2>4, <2>5
  <1> QED BY <1>1, <1>2

\* At the start no thread was joined.
LEMMA HistoryInit == Init => HandOverInv /\ HistoryInv
  BY DEF Init, HandOverInv, HistoryInv

\* Both are kept by every step.
LEMMA HistoryNext ==
  ASSUME ~HandlerCallsPthread, TypeInv, OpInv, QuietHandlers, AloneInv, BalanceInv,
         BalanceInv', HandOverInv, HistoryInv, [Next]_vars
  PROVE  HandOverInv' /\ HistoryInv'
  BY QuietSteps, CreationKeepsHistory, ChildKeepsHistory, JoinKeepsHistory
  DEF Next, CreateStep, JoinStep

\* The invariant that the theorems on histories share.
AllInv ==
  /\ TypeInv
  /\ OpInv
  /\ UnjoinedCounterIsExact
  /\ QuietHandlers
  /\ AloneInv
  /\ BalanceInv
  /\ HandOverInv
  /\ HistoryInv

LEMMA AllInvariant ==
  ASSUME ~HandlerCallsPthread, LongjmpsAreRestored
  PROVE  Spec => []AllInv
  <1>1. Init => AllInv
    BY TypeInit, OpInit, CounterInit, QuietInit, AloneInit, BalanceInit, HistoryInit
    DEF AllInv
  <1>2. AllInv /\ [Next]_vars => AllInv'
    <2> SUFFICES ASSUME AllInv, [Next]_vars PROVE AllInv'
      OBVIOUS
    <2>1. TypeInv' /\ OpInv' /\ UnjoinedCounterIsExact' /\ QuietHandlers' /\ AloneInv'
      BY TypeNext, OpNext, CounterNext, QuietNext, AloneNext DEF AllInv
    <2>2. BalanceInv'
      BY BalanceNext DEF AllInv
    <2>3. HandOverInv' /\ HistoryInv'
      BY <2>2, HistoryNext DEF AllInv
    <2> QED BY <2>1, <2>2, <2>3 DEF AllInv
  <1> QED BY <1>1, <1>2, PTL DEF Spec

\* Switching the checks off loses no race: when TSan is off, the main thread has
\* acquired the history of every thread that was joined, by itself or by threads
\* it joined in turn, for any number of threads.
THEOREM DeactivationForgetsNothing ==
  ASSUME ~HandlerCallsPthread, LongjmpsAreRestored
  PROVE  Spec => []DisabledKnowsHistory
  <1>1. AllInv => DisabledKnowsHistory
    BY DEF AllInv, AloneInv, HistoryInv, Passes, DisabledKnowsHistory
  <1> QED BY AllInvariant, <1>1, PTL

\* EnableMainThreadTsan precedes the release of the creator's clock, so a thread
\* always inherits the history of its creator.
THEOREM CreatorsClockIsInherited ==
  ASSUME ~HandlerCallsPthread, LongjmpsAreRestored
  PROVE  Spec => CreationHandsOverClock
  <1>1. AllInv => \A p \in AllThreads :
                    op[p] = "register" /\ ~tsan_ignore_runtime =>
                      clock[p] \subseteq sync[target[p]]
    BY DEF AllInv, HandOverInv
  <1>2. AllInv => [\A p \in AllThreads :
                     (op[p] = "register" /\ op'[p] = "wait_start" /\ ~tsan_ignore_runtime) =>
                       clock[p] \subseteq sync[target[p]]]_vars
    BY <1>1
  <1> QED BY AllInvariant, <1>2, PTL DEF CreationHandsOverClock

-----------------------------------------------------------------------------
(* Every thread joined                                                     *)

\* The last thread joined is joined by the main thread, which then switches TSan
\* off; only a creation or exit() switches it on.
LEMMA AllJoinedNext ==
  ASSUME ~HandlerCallsPthread, TypeInv, OpInv, UnjoinedCounterIsExact, QuietHandlers,
         AllJoinedInv, [Next]_vars
  PROVE  AllJoinedInv'
  <1>t. /\ status \in [Threads -> Statuses] /\ op \in [AllThreads -> Ops]
        /\ Main \in AllThreads /\ Main \notin Threads /\ Threads \subseteq AllThreads
    BY CounterFacts DEF TypeInv, TypeOK, ThreadTypeOK, OpTypeOK
  <1> DEFINE Joined == \A t \in Threads : status[t] \in {"none", "reaped"}
             Turned == MainThreadTsanDisabled \/ op[Main] = "deactivate" \/ exited = "exit"
  \* Each step below is of one of two kinds.
  <1>0. ASSUME Joined' => Joined, Turned => Turned' PROVE AllJoinedInv'
    BY <1>0 DEF AllJoinedInv
  <1>00. ASSUME ~Joined' \/ Turned' PROVE AllJoinedInv'
    BY <1>00 DEF AllJoinedInv
  <1>1. ASSUME NEW p \in AllThreads, CreateStep(p) PROVE AllJoinedInv'
    <2>1. ASSUME NEW t \in Threads, NEW det \in BOOLEAN, ThreadCreate(p, t, det)
          PROVE  ~Joined'
      BY <2>1, <1>t DEF ThreadCreate
    <2>2. CASE ThreadCreateActivate(p) \/ ThreadCreateRegister(p)
      <3>1. target[p] \in Threads /\ status'[target[p]] \in {"creating", "created"}
        BY <2>2, <1>t, OwnerFacts DEF ThreadCreateActivate, ThreadCreateRegister
      <3> QED BY <3>1, <1>00
    <2>3. CASE PthreadCreateReturn(p)
      <3>1. Joined' => Joined
        BY <2>3 DEF PthreadCreateReturn, thread_vars
      <3>2. Turned => Turned'
        BY <2>3, <1>t DEF PthreadCreateReturn, main_vars, end_vars, Goto
      <3> QED BY <3>1, <3>2, <1>0
    <2> QED BY <1>1, <2>1, <2>2, <2>3, <1>00 DEF CreateStep
  <1>2. ASSUME NEW p \in AllThreads, JoinStep(p) PROVE AllJoinedInv'
    <2>1. CASE \/ \E t \in Threads : JoinBegin(p, t) \/ ThreadDetach(p, t)
               \/ JoinNotReady(p) \/ JoinReturn(p)
      <3>1. Joined' => Joined
        BY <2>1, <1>t DEF JoinBegin, ThreadDetach, JoinNotReady, JoinReturn, thread_vars
      <3>2. Turned => Turned'
        BY <2>1, <1>t DEF JoinBegin, ThreadDetach, JoinNotReady, JoinReturn, main_vars,
             end_vars, op_vars, Goto, MayCallPthread, InUserCode
      <3> QED BY <3>1, <3>2, <1>0
    <2>2. CASE ThreadJoin(p)
      <3>1. target[p] \in Threads /\ status'[target[p]] = "joined"
        BY <2>2, <1>t, OwnerFacts DEF ThreadJoin
      <3> QED BY <3>1, <1>00
    <2>3. CASE ThreadJoinDiscount(p)
      <3>1. CASE p = Main
        <4>1. op'[Main] = "deactivate"
          BY <2>3, <3>1, <1>t DEF ThreadJoinDiscount, Goto
        <4> QED BY <4>1, <1>00
      <3>2. CASE p # Main
        <4>1. p \in Threads /\ status[p] = "running" /\ status[target[p]] = "joined"
          BY <2>3, <3>2, OwnerFacts DEF ThreadJoinDiscount
        <4>2. status'[p] = "running"
          BY <2>3, <4>1, <1>t DEF ThreadJoinDiscount
        <4> QED BY <4>1, <4>2, <1>00
      <3> QED BY <3>1, <3>2
    <2>4. CASE ThreadJoinDeactivate(p)
      <3>1. Joined' => Joined
        BY <2>4 DEF ThreadJoinDeactivate, thread_vars
      <3>2. CASE p # Main
        <4>1. Turned => Turned'
          BY <2>4, <3>2, <1>t
          DEF ThreadJoinDeactivate, SupportSingleThreadOptimization, main_vars, end_vars,
              Goto
        <4> QED BY <3>1, <4>1, <1>0
      <3>3. ASSUME p = Main, tsan_ignore_single_thread, Joined PROVE MainThreadTsanDisabled'
        <4>1. in_signal_handler = 0
          BY <2>4, <3>3, OutsideHandlers DEF ThreadJoinDeactivate, QuietHandlers
        <4>2. {t \in Threads : status[t] \notin {"none", "reaped"}} = {}
          BY <3>3
        <4>3. num_unjoined_threads = 1 + Cardinality({})
          BY <4>2 DEF UnjoinedCounterIsExact
        <4>4. IsNowAllJoined
          BY <4>3, FS_EmptySet DEF IsNowAllJoined
        <4> QED BY <2>4, <3>3, <4>1, <4>4
                DEF ThreadJoinDeactivate, DisableMainThreadTsan,
                    SupportSingleThreadOptimization, main_vars
      <3> QED BY <3>1, <3>2, <3>3 DEF AllJoinedInv
    <2> QED BY <1>2, <2>1, <2>2, <2>3, <2>4 DEF JoinStep
  <1>3. ASSUME NEW p \in AllThreads, ThreadFinalize(p) PROVE AllJoinedInv'
    <2>1. exited' = "exit"
      BY <1>3 DEF ThreadFinalize
    <2> QED BY <2>1, <1>00
  <1>4. ASSUME \/ \E p \in AllThreads : AnnotateIgnoreBegin(p) \/ AnnotateIgnoreEnd(p)
               \/ \E t \in Threads : ChildStep(t)
               \/ SignalStep
               \/ MainThreadFinish \/ Terminated \/ UNCHANGED vars
        PROVE  AllJoinedInv'
    <2>1. Joined' => Joined
      BY <1>4, <1>t
      DEF AnnotateIgnoreBegin, AnnotateIgnoreEnd, ChildStep, ThreadStart, ThreadFinish,
          ThreadFinishRelease, ThreadFinishRegistry, SignalStep, SignalEnter,
          SignalReturn, SetJmp, LongJmp, MainThreadFinish, Terminated, vars, thread_vars,
          InUserCode
    <2>2. MainThreadTsanDisabled' = MainThreadTsanDisabled
      BY <1>4
      DEF AnnotateIgnoreBegin, AnnotateIgnoreEnd, ChildStep, ThreadStart, ThreadFinish,
          ThreadFinishRelease, ThreadFinishRegistry, SignalStep, SignalEnter,
          SignalReturn, SetJmp, LongJmp, MainThreadFinish, Terminated, vars, main_vars
    <2>3. exited = "exit" => exited' = "exit"
      BY <1>4
      DEF AnnotateIgnoreBegin, AnnotateIgnoreEnd, ChildStep, ThreadStart, ThreadFinish,
          ThreadFinishRelease, ThreadFinishRegistry, SignalStep, SignalEnter,
          SignalReturn, SetJmp, LongJmp, MainThreadFinish, Terminated, vars, end_vars,
          InUserCode
    <2>4. op[Main] = "deactivate" => op'[Main] = "deactivate"
      BY <1>4
      DEF AnnotateIgnoreBegin, AnnotateIgnoreEnd, ChildStep, ThreadStart, ThreadFinish,
          ThreadFinishRelease, ThreadFinishRegistry, SignalStep, SignalEnter,
          SignalReturn, SetJmp, LongJmp, MainThreadFinish, Terminated, vars, op_vars
    <2>5. Turned => Turned'
      BY <2>2, <2>3, <2>4
    <2> QED BY <2>1, <2>5, <1>0
  <1> HIDE DEF Joined, Turned
  <1> QED BY <1>1, <1>2, <1>3, <1>4 DEF Next

\* TSan is switched off again as soon as every thread was joined: no creation, join
\* or handler leaves it on, for any number of threads.
THEOREM AllJoinedSwitchesOff ==
  ASSUME ~HandlerCallsPthread
  PROVE  Spec => []AllJoinedDisables
  <1> DEFINE Inv == TypeInv /\ OpInv /\ UnjoinedCounterIsExact /\ QuietHandlers /\ AllJoinedInv
  <1>1. Init => Inv
    <2>1. Init => AllJoinedInv
      BY DEF Init, AllJoinedInv
    <2> QED BY <2>1, TypeInit, OpInit, CounterInit, QuietInit
  <1>2. Inv /\ [Next]_vars => Inv'
    BY TypeNext, OpNext, CounterNext, QuietNext, AllJoinedNext
  <1>3. Inv => AllJoinedDisables
    BY DEF AllJoinedInv, AllJoinedDisables
  <1> HIDE DEF Inv
  <1> QED BY <1>1, <1>2, <1>3, PTL DEF Spec

==============================================================================
