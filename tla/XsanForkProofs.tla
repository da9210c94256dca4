---------------------------- MODULE XsanForkProofs ----------------------------
(***************************************************************************)
(* The fork handlers give back what they took, leave the child no mutex of *)
(* a thread it does not have, and wait in no circle, for any number of     *)
(* threads.  Each operation is followed from the set of mutexes its thread *)
(* holds at the start, through the one it holds after each of its acts     *)
(* (Runs), to the one it ends with; the order in which it takes them is    *)
(* that of Rank.                                                           *)
(***************************************************************************)
EXTENDS XsanFork, SequenceTheorems, FiniteSetTheorems, TLAPS

-----------------------------------------------------------------------------
(* What a thread may do, given the mutexes it holds.                        *)

Plain == {"lock", "unlock", "ignore"}
Calling == Plain \cup {"fork"}      \* a thread that forks, in the parent
Clearing == Plain \cup {"clear"}    \* and in the child

Event == (Plain \cup {"fork", "clear"})
         \X (Mutexes \cup {"fork", "clone"} \cup Int)

TsanMutexes == {"global_proc", "thread_registry", "slot_mtx", "report_mtx",
                "internal_alloc"} \cup Threads

Usable == IF ContainsTsan THEN Mutexes ELSE Mutexes \ TsanMutexes

\* The mutexes under which only a mutex is taken.
Needs(l) == CASE l = "asan_argretval" -> {"lsan_global"}
              [] l = "report_mtx" -> {"slot_mtx"}
              [] OTHER -> {}

Nested(A) == A \subseteq Usable /\ \A l \in A : Needs(l) \subseteq A

SlotIndex(t) == CHOOSE i \in DOMAIN Slots : Slots[i] = t

\* The order of the mutexes; that of the slots is by their indices.
Rank(l) ==
  LET above == Cardinality(Threads)
  IN  CASE l = "lsan_global" -> -2
        [] l = "global_proc" -> -1
        [] l = "atexit_mu" -> 0
        [] l = "thread_registry" -> above + 1
        [] l = "slot_mtx" -> above + 2
        [] l = "report_mtx" -> above + 3
        [] l = "error_report" -> above + 4
        [] l = "asan_registry" -> above + 5
        [] l = "asan_argretval" -> above + 6
        [] l = "internal_alloc" -> above + 7
        [] l = "argretval" -> above + 8
        [] l = "allocator" -> above + 9
        [] l = "fallback" -> above + 9
        [] l = "quarantine" -> above + 10
        [] l = "bucket" -> above + 11
        [] l = "depot" -> above + 12
        [] OTHER -> SlotIndex(l)

\* l follows all of A, or is one of the two that are taken in either order.
InOrder(A, l) ==
  \A m \in A :
    \/ Rank(m) < Rank(l)
    \/ m = "allocator" /\ l = "fallback" /\ "lsan_global" \in A
    \/ m = "fallback" /\ l = "allocator" /\ "global_proc" \in A

\* Where the operations have an order: TSan keeps the late frees out of fork,
\* and what the run leaves out is left out.
Ordered == ContainsTsan /\ ~LibcFrees /\ "purge" \notin Operations

MayTake(A, l, acts) ==
  /\ l \in Usable \ A
  /\ Needs(l) \subseteq A
  /\ Ordered => /\ InOrder(A, l)
                /\ "fork" \in acts /\ l \in {"allocator", "fallback"}
                     => {"lsan_global", "global_proc"} \subseteq A

MayFree(A, l) == l \in A /\ \A m \in A : l \notin Needs(m)

\* What the thread holds that fork is called in.
TsanHeld == {"global_proc", "thread_registry", "slot_mtx", "error_report",
             "internal_alloc"} \cup Threads
AsanHeld == {"lsan_global"} \cup (IF ContainsTsan THEN {}
                                  ELSE {"asan_registry", "asan_argretval"})
SharedHeld == {"argretval", "allocator", "fallback", "depot"}

ForkHeld(call) ==
  IF call = "fork"
  THEN (AsanHeld \cup (IF ContainsTsan THEN TsanHeld ELSE {})) \cup SharedHeld
  ELSE TsanHeld

\* The act e is allowed, and takes a thread that holds A to holding B.
Effect(A, e, B, acts) ==
  /\ e[1] \in acts
  /\ e[1] = "lock" => MayTake(A, e[2], acts) /\ B = A \cup {e[2]}
  /\ e[1] = "unlock" => MayFree(A, e[2]) /\ B = A \ {e[2]}
  /\ e[1] = "clear" => e[2] = "bucket" /\ "bucket" \notin A /\ B = A
  /\ e[1] = "ignore" => B = A
  /\ e[1] = "fork" => /\ e[2] = "fork" \/ (e[2] = "clone" /\ ContainsTsan)
                      /\ A = ForkHeld(e[2]) /\ B = A

\* A thread that holds A runs s and then holds B; h[i] is what it holds after i acts.
Trace(A, s, B, acts, h) ==
  /\ h \in [0 .. Len(s) -> SUBSET Mutexes]
  /\ h[0] = A /\ h[Len(s)] = B
  /\ \A i \in 1 .. Len(s) : Effect(h[i - 1], s[i], h[i], acts)

Runs(A, s, B, acts) == s \in Seq(Event) /\ \E h : Trace(A, s, B, acts, h)

Stays(A, s) == Runs(A, s, A, Plain)

-----------------------------------------------------------------------------
(* Runs of sequences.                                                       *)

\* No act changes nothing.
LEMMA RunsEmpty ==
  ASSUME NEW A \in SUBSET Mutexes, NEW acts PROVE Runs(A, <<>>, A, acts)
<1> DEFINE h == [i \in 0 .. 0 |-> A]
<1>1. <<>> \in Seq(Event) /\ Len(<<>>) = 0
  BY EmptySeq
<1>2. Trace(A, <<>>, A, acts, h)
  BY <1>1 DEF Trace
<1> QED
  BY <1>1, <1>2 DEF Runs

LEMMA RunsDone ==
  ASSUME NEW A, NEW B, NEW acts, Runs(A, <<>>, B, acts) PROVE A = B
<1>1. Len(<<>>) = 0
  BY EmptySeq
<1> QED
  BY <1>1 DEF Runs, Trace

\* One act.
LEMMA RunsOne ==
  ASSUME NEW A \in SUBSET Mutexes, NEW B \in SUBSET Mutexes, NEW acts,
         NEW e \in Event, Effect(A, e, B, acts)
  PROVE  Runs(A, <<e>>, B, acts)
<1> DEFINE h == [i \in 0 .. 1 |-> IF i = 0 THEN A ELSE B]
<1>1. <<e>> \in Seq(Event) /\ Len(<<e>>) = 1 /\ <<e>>[1] = e
  OBVIOUS
<1>2. h \in [0 .. 1 -> SUBSET Mutexes] /\ h[0] = A /\ h[1] = B
  OBVIOUS
<1>3. \A i \in 1 .. 1 : i = 1 /\ i - 1 = 0
  OBVIOUS
<1> HIDE DEF h
<1>4. Trace(A, <<e>>, B, acts, h)
  BY <1>1, <1>2, <1>3 DEF Trace
<1> QED
  BY <1>1, <1>4 DEF Runs

\* Acts one after the other.
LEMMA RunsConcat ==
  ASSUME NEW A, NEW s, NEW B, NEW r, NEW C, NEW acts,
         Runs(A, s, B, acts), Runs(B, r, C, acts)
  PROVE  Runs(A, s \o r, C, acts)
<1>1. PICK h : Trace(A, s, B, acts, h)
  BY DEF Runs
<1>2. PICK g : Trace(B, r, C, acts, g)
  BY DEF Runs
<1>3. s \in Seq(Event) /\ r \in Seq(Event)
  BY DEF Runs
<1>4. Len(s) \in Nat /\ Len(r) \in Nat
  BY <1>3, LenProperties
<1>5. /\ s \o r \in Seq(Event)
      /\ Len(s \o r) = Len(s) + Len(r)
      /\ \A i \in 1 .. Len(s) + Len(r) :
           (s \o r)[i] = IF i <= Len(s) THEN s[i] ELSE r[i - Len(s)]
  BY <1>3, ConcatProperties
<1> DEFINE n == Len(s)
           m == Len(r)
           k == [i \in 0 .. n + m |-> IF i <= n THEN h[i] ELSE g[i - n]]
<1>6. h \in [0 .. n -> SUBSET Mutexes] /\ g \in [0 .. m -> SUBSET Mutexes]
  BY <1>1, <1>2 DEF Trace
<1>7. h[n] = B /\ g[0] = B /\ h[0] = A /\ g[m] = C
  BY <1>1, <1>2 DEF Trace
<1>8. \A i \in 1 .. n : Effect(h[i - 1], s[i], h[i], acts)
  BY <1>1 DEF Trace
<1>9. \A i \in 1 .. m : Effect(g[i - 1], r[i], g[i], acts)
  BY <1>2 DEF Trace
<1>10. n \in Nat /\ m \in Nat
  BY <1>4
<1> HIDE DEF n, m
<1>11. \A i \in 0 .. n + m : k[i] \in SUBSET Mutexes
  BY <1>6, <1>10
<1>12. k \in [0 .. n + m -> SUBSET Mutexes]
  BY <1>11
<1>13. k[0] = A /\ k[n + m] = C
  BY <1>7, <1>10
<1>14. \A i \in 0 .. n : k[i] = h[i]
  BY <1>10
<1>15. \A i \in n .. n + m : k[i] = g[i - n]
  BY <1>7, <1>10
<1> HIDE DEF k
<1>16. ASSUME NEW i \in 1 .. n + m
       PROVE  Effect(k[i - 1], (s \o r)[i], k[i], acts)
  <2>1. CASE i <= n
    <3>1. i \in 1 .. n /\ i - 1 \in 0 .. n /\ i \in 0 .. n
      BY <2>1, <1>10
    <3>2. (s \o r)[i] = s[i]
      BY <1>5, <2>1 DEF n, m
    <3> QED
      BY <3>1, <3>2, <1>8, <1>14
  <2>2. CASE ~(i <= n)
    <3>1. i - n \in 1 .. m /\ i - 1 \in n .. n + m /\ i \in n .. n + m
      BY <2>2, <1>10
    <3>2. (i - 1) - n = (i - n) - 1
      BY <1>10
    <3>3. (s \o r)[i] = r[i - n]
      BY <1>5, <2>2 DEF n, m
    <3> QED
      BY <3>1, <3>2, <3>3, <1>9, <1>15
  <2> QED
    BY <2>1, <2>2
<1>17. Trace(A, s \o r, C, acts, k)
  BY <1>5, <1>12, <1>13, <1>16 DEF Trace, n, m
<1> QED
  BY <1>5, <1>17 DEF Runs

\* The first act, and the rest.
LEMMA RunsStep ==
  ASSUME NEW A, NEW s, NEW C, NEW acts, Runs(A, s, C, acts), s # <<>>
  PROVE  /\ Head(s) \in Event /\ Head(s) = s[1]
         /\ \E B : Effect(A, Head(s), B, acts) /\ Runs(B, Tail(s), C, acts)
<1>1. PICK h : Trace(A, s, C, acts, h)
  BY DEF Runs
<1>2. s \in Seq(Event)
  BY DEF Runs
<1>3. Len(s) \in Nat \ {0}
  BY <1>2, EmptySeq
<1>4. /\ Head(s) \in Event
      /\ Tail(s) \in Seq(Event)
      /\ Len(Tail(s)) = Len(s) - 1
      /\ \A i \in 1 .. Len(Tail(s)) : Tail(s)[i] = s[i + 1]
  BY <1>2, HeadTailProperties
<1>5. Head(s) = s[1]
  BY <1>2, <1>3
<1> DEFINE n == Len(s)
           g == [i \in 0 .. n - 1 |-> h[i + 1]]
<1>6. n \in Nat \ {0}
  BY <1>3
<1>7. h \in [0 .. n -> SUBSET Mutexes] /\ h[0] = A /\ h[n] = C
  BY <1>1 DEF Trace
<1>8. \A i \in 1 .. n : Effect(h[i - 1], s[i], h[i], acts)
  BY <1>1 DEF Trace
<1>9. Len(Tail(s)) = n - 1
  BY <1>4
<1> HIDE DEF n
<1>10. g \in [0 .. n - 1 -> SUBSET Mutexes] /\ g[0] = h[1] /\ g[n - 1] = C
  BY <1>6, <1>7
<1>11. \A i \in 0 .. n - 1 : g[i] = h[i + 1]
  OBVIOUS
<1> HIDE DEF g
<1>12. ASSUME NEW i \in 1 .. n - 1
       PROVE  Effect(g[i - 1], Tail(s)[i], g[i], acts)
  <2>1. i - 1 \in 0 .. n - 1 /\ i \in 0 .. n - 1 /\ i + 1 \in 1 .. n
        /\ (i - 1) + 1 = (i + 1) - 1
    BY <1>6
  <2>2. Tail(s)[i] = s[i + 1]
    BY <1>4, <1>9
  <2>3. Effect(h[(i + 1) - 1], s[i + 1], h[i + 1], acts)
    BY <2>1, <1>8
  <2> QED
    BY <2>1, <2>2, <2>3, <1>11
<1>13. Trace(h[1], Tail(s), C, acts, g)
  BY <1>9, <1>10, <1>12 DEF Trace
<1>14. Effect(A, Head(s), h[1], acts)
  <2>1. 1 \in 1 .. n /\ 1 - 1 = 0
    BY <1>6
  <2> QED
    BY <2>1, <1>5, <1>7, <1>8
<1> QED
  BY <1>4, <1>5, <1>13, <1>14 DEF Runs
-----------------------------------------------------------------------------
(* Runs of the acts and of the scoped locks.                                *)

LEMMA MutexEvents ==
  ASSUME NEW l \in Mutexes
  PROVE  /\ <<"lock", l>> \in Event /\ <<"unlock", l>> \in Event
         /\ <<"clear", l>> \in Event
BY DEF Event, Plain

LEMMA UsableMutexes == Usable \subseteq Mutexes
BY DEF Usable

LEMMA LockRuns ==
  ASSUME NEW A \in SUBSET Mutexes, NEW l, NEW acts,
         "lock" \in acts, MayTake(A, l, acts)
  PROVE  Runs(A, Lock(l), A \cup {l}, acts)
<1>1. l \in Mutexes
  BY UsableMutexes DEF MayTake
<1> DEFINE e == <<"lock", l>>
<1>2. e \in Event /\ e[1] = "lock" /\ e[2] = l
  BY <1>1, MutexEvents
<1> HIDE DEF e
<1>3. Effect(A, e, A \cup {l}, acts)
  BY <1>2 DEF Effect
<1>4. Runs(A, <<e>>, A \cup {l}, acts)
  BY <1>1, <1>2, <1>3, RunsOne
<1> QED
  BY <1>4 DEF Lock, e

LEMMA UnlockRuns ==
  ASSUME NEW A \in SUBSET Mutexes, NEW l, NEW acts,
         "unlock" \in acts, MayFree(A, l)
  PROVE  Runs(A, Unlock(l), A \ {l}, acts)
<1>1. l \in Mutexes
  BY DEF MayFree
<1> DEFINE e == <<"unlock", l>>
<1>2. e \in Event /\ e[1] = "unlock" /\ e[2] = l
  BY <1>1, MutexEvents
<1> HIDE DEF e
<1>3. Effect(A, e, A \ {l}, acts)
  BY <1>2 DEF Effect
<1>4. Runs(A, <<e>>, A \ {l}, acts)
  BY <1>1, <1>2, <1>3, RunsOne
<1> QED
  BY <1>4 DEF Unlock, e

LEMMA IgnoreRuns ==
  ASSUME NEW A \in SUBSET Mutexes, NEW n \in Int, NEW acts, "ignore" \in acts
  PROVE  Runs(A, Ignore(n), A, acts)
<1> DEFINE e == <<"ignore", n>>
<1>2. e \in Event /\ e[1] = "ignore" /\ e[2] = n
  BY DEF Event, Plain
<1> HIDE DEF e
<1>3. Effect(A, e, A, acts)
  BY <1>2 DEF Effect
<1>4. Runs(A, <<e>>, A, acts)
  BY <1>2, <1>3, RunsOne
<1> QED
  BY <1>4 DEF Ignore, e

\* A scoped lock leaves what is held as it was.
LEMMA HoldingRuns ==
  ASSUME NEW A \in SUBSET Mutexes, NEW l, NEW s, NEW acts, Plain \subseteq acts,
         Nested(A), MayTake(A, l, acts), Runs(A \cup {l}, s, A \cup {l}, acts)
  PROVE  Runs(A, Holding(l, s), A, acts)
<1>1. l \in Mutexes /\ l \notin A
  BY UsableMutexes DEF MayTake
<1>2. Runs(A, Lock(l), A \cup {l}, acts)
  BY LockRuns DEF Plain
<1>3. MayFree(A \cup {l}, l)
  <2>1. l \notin Needs(l)
    BY <1>1 DEF MayTake
  <2> QED
    BY <2>1, <1>1 DEF MayFree, Nested
<1>4. Runs(A \cup {l}, Unlock(l), A, acts)
  <2>1. (A \cup {l}) \ {l} = A
    BY <1>1
  <2>2. Runs(A \cup {l}, Unlock(l), (A \cup {l}) \ {l}, acts)
    BY <1>1, <1>3, UnlockRuns DEF Plain
  <2> QED
    BY <2>1, <2>2
<1>5. Runs(A, Lock(l) \o s, A \cup {l}, acts)
  BY <1>2, RunsConcat
<1>6. Runs(A, (Lock(l) \o s) \o Unlock(l), A, acts)
  BY <1>4, <1>5, RunsConcat
<1> QED
  BY <1>6 DEF Holding

LEMMA TakeRuns ==
  ASSUME NEW A \in SUBSET Mutexes, NEW l, NEW acts, Plain \subseteq acts,
         Nested(A), MayTake(A, l, acts)
  PROVE  Runs(A, Take(l), A, acts)
<1>1. l \in Mutexes
  BY UsableMutexes DEF MayTake
<1>2. Runs(A \cup {l}, <<>>, A \cup {l}, acts)
  BY <1>1, RunsEmpty
<1> QED
  BY <1>2, HoldingRuns DEF Take

LEMMA TsanRuns ==
  ASSUME NEW A \in SUBSET Mutexes, NEW s, NEW acts,
         ContainsTsan => Runs(A, s, A, acts)
  PROVE  Runs(A, Tsan(s), A, acts)
BY RunsEmpty DEF Tsan

\* The same of a thread that stays with what it holds.
LEMMA StaysConcat ==
  ASSUME NEW A, NEW s, NEW r, Stays(A, s), Stays(A, r)
  PROVE  Stays(A, s \o r)
BY RunsConcat DEF Stays

LEMMA StaysHolding ==
  ASSUME NEW A \in SUBSET Mutexes, NEW l, NEW s,
         Nested(A), MayTake(A, l, Plain), Stays(A \cup {l}, s)
  PROVE  Stays(A, Holding(l, s))
BY HoldingRuns DEF Stays

LEMMA StaysTake ==
  ASSUME NEW A \in SUBSET Mutexes, NEW l, Nested(A), MayTake(A, l, Plain)
  PROVE  Stays(A, Take(l))
BY TakeRuns DEF Stays

LEMMA StaysTsan ==
  ASSUME NEW A \in SUBSET Mutexes, NEW s, ContainsTsan => Stays(A, s)
  PROVE  Stays(A, Tsan(s))
BY TsanRuns DEF Stays

-----------------------------------------------------------------------------
(* The slots, and the order of the mutexes.                                 *)

\* Slots names every thread once.
LEMMA SlotsBijection ==
  /\ Cardinality(Threads) \in Nat
  /\ Slots \in [1 .. Cardinality(Threads) -> Threads]
  /\ \A t \in Threads : \E i \in 1 .. Cardinality(Threads) : Slots[i] = t
  /\ \A i, j \in 1 .. Cardinality(Threads) : Slots[i] = Slots[j] => i = j
<1> DEFINE n == Cardinality(Threads)
           Lists(s) == \A t \in Threads : \E i \in DOMAIN s : s[i] = t
<1>1. n \in Nat /\ ExistsBijection(1 .. n, Threads)
  BY ForkAssumption, FS_CardinalityType
<1>2. \E s \in [1 .. n -> Threads] : Lists(s)
  <2>1. PICK b \in Bijection(1 .. n, Threads) : TRUE
    BY <1>1 DEF ExistsBijection
  <2> QED
    BY <2>1 DEF Bijection, Surjection
<1>3. Slots \in [1 .. n -> Threads] /\ Lists(Slots)
  <2> HIDE DEF n
  <2>1. Slots = CHOOSE s \in [1 .. n -> Threads] : Lists(s)
    BY DEF Slots, n
  <2> HIDE DEF Lists
  <2> QED
    BY <2>1, <1>2
<1>4. Slots \in Surjection(1 .. n, Threads)
  BY <1>3 DEF Surjection
<1>5. IsFiniteSet(1 .. n) /\ Cardinality(1 .. n) = n
  <2>1. /\ IsFiniteSet(1 .. n)
        /\ Cardinality(1 .. n) = IF 1 > n THEN 0 ELSE n - 1 + 1
    BY <1>1, FS_Interval
  <2> QED
    BY <2>1, <1>1
<1>6. Slots \in Injection(1 .. n, Threads)
  <2>1. Cardinality(Threads) = Cardinality(1 .. n) <=> Slots \in Injection(1 .. n, Threads)
    BY <1>4, <1>5, FS_Surjection
  <2> QED
    BY <2>1, <1>5
<1> QED
  BY <1>1, <1>3, <1>6 DEF Injection, IsInjective

LEMMA SlotIndexOf ==
  /\ \A i \in 1 .. Cardinality(Threads) : SlotIndex(Slots[i]) = i
  /\ \A t \in Threads : SlotIndex(t) \in 1 .. Cardinality(Threads)
<1> DEFINE n == Cardinality(Threads)
<1>1. n \in Nat /\ DOMAIN Slots = 1 .. n
  BY SlotsBijection
<1>2. ASSUME NEW t \in Threads
      PROVE  SlotIndex(t) \in 1 .. n /\ Slots[SlotIndex(t)] = t
  <2>1. \E i \in DOMAIN Slots : Slots[i] = t
    BY <1>1, SlotsBijection
  <2> QED
    BY <2>1, <1>1 DEF SlotIndex
<1>3. ASSUME NEW i \in 1 .. n PROVE SlotIndex(Slots[i]) = i
  <2>1. Slots[i] \in Threads
    BY SlotsBijection
  <2> QED
    BY <2>1, <1>2, SlotsBijection
<1> QED
  BY <1>2, <1>3

\* The rank of each mutex.
LEMMA Ranks ==
  ASSUME NEW n, n = Cardinality(Threads)
  PROVE  /\ Rank("lsan_global") = -2 /\ Rank("global_proc") = -1
         /\ Rank("atexit_mu") = 0
         /\ \A t \in Threads : Rank(t) \in 1 .. n
         /\ \A i \in 1 .. n : Rank(Slots[i]) = i
         /\ Rank("thread_registry") = n + 1 /\ Rank("slot_mtx") = n + 2
         /\ Rank("report_mtx") = n + 3 /\ Rank("error_report") = n + 4
         /\ Rank("asan_registry") = n + 5 /\ Rank("asan_argretval") = n + 6
         /\ Rank("internal_alloc") = n + 7 /\ Rank("argretval") = n + 8
         /\ Rank("allocator") = n + 9 /\ Rank("fallback") = n + 9
         /\ Rank("quarantine") = n + 10 /\ Rank("bucket") = n + 11
         /\ Rank("depot") = n + 12
<1>1. ASSUME NEW t \in Threads PROVE Rank(t) = SlotIndex(t)
  <2>1. t \notin Names
    BY ForkAssumption
  <2> QED
    BY <2>1 DEF Rank, Names
<1>2. \A t \in Threads : Rank(t) \in 1 .. n
  BY <1>1, SlotIndexOf
<1>3. \A i \in 1 .. n : Rank(Slots[i]) = i
  BY <1>1, SlotIndexOf, SlotsBijection
<1> QED
  BY <1>2, <1>3 DEF Rank
-----------------------------------------------------------------------------
(* The operations give back what they take.                                 *)

LEMMA NestedNone == Nested({})
BY DEF Nested

\* With no mutex held, every one may be taken that needs none.
LEMMA FirstTake ==
  ASSUME NEW l \in Usable, Needs(l) = {}
  PROVE  MayTake({}, l, Plain)
BY DEF MayTake, InOrder, Plain

LEMMA UsableNames ==
  /\ {"lsan_global", "asan_registry", "asan_argretval", "error_report",
      "argretval", "allocator", "fallback", "quarantine", "bucket", "depot",
      "atexit_mu"} \subseteq Usable
  /\ ContainsTsan => TsanMutexes \subseteq Usable
<1>1. ASSUME NEW l \in Names PROVE l \notin Threads
  BY ForkAssumption
<1> QED
  BY <1>1 DEF Usable, Mutexes, Names, TsanMutexes

LEMMA NoNeeds ==
  /\ Needs("lsan_global") = {} /\ Needs("asan_registry") = {}
  /\ Needs("error_report") = {} /\ Needs("argretval") = {}
  /\ Needs("allocator") = {} /\ Needs("fallback") = {}
  /\ Needs("quarantine") = {} /\ Needs("bucket") = {} /\ Needs("depot") = {}
  /\ Needs("atexit_mu") = {} /\ Needs("global_proc") = {}
  /\ Needs("thread_registry") = {} /\ Needs("slot_mtx") = {}
  /\ Needs("internal_alloc") = {}
  /\ \A t \in Threads : Needs(t) = {}
<1>1. ASSUME NEW t \in Threads PROVE Needs(t) = {}
  BY ForkAssumption DEF Needs, Names
<1> QED
  BY <1>1 DEF Needs

\* Under one other mutex, it must come later in the order.
LEMMA SecondTake ==
  ASSUME NEW m \in Usable, NEW l \in Usable, m # l,
         Needs(l) = {}, Ordered => Rank(m) < Rank(l)
  PROVE  MayTake({m}, l, Plain)
BY DEF MayTake, InOrder, Plain

LEMMA NestedOne ==
  ASSUME NEW m \in Usable, Needs(m) = {} PROVE Nested({m})
BY DEF Nested

LEMMA StaysFirst ==
  ASSUME NEW l \in Usable, Needs(l) = {}
  PROVE  /\ Stays({}, Take(l))
         /\ \A s : Stays({l}, s) => Stays({}, Holding(l, s))
<1>1. MayTake({}, l, Plain)
  BY FirstTake
<1>2. {} \cup {l} = {l}
  OBVIOUS
<1>3. Stays({}, Take(l))
  BY <1>1, NestedNone, StaysTake
<1>4. ASSUME NEW s, Stays({l}, s) PROVE Stays({}, Holding(l, s))
  BY <1>1, <1>2, <1>4, NestedNone, StaysHolding
<1> QED
  BY <1>3, <1>4

LEMMA StaysSecond ==
  ASSUME NEW m \in Usable, NEW l \in Usable, m # l, Needs(m) = {},
         Needs(l) = {}, Ordered => Rank(m) < Rank(l)
  PROVE  /\ Stays({m}, Take(l))
         /\ \A s : Stays({m, l}, s) => Stays({m}, Holding(l, s))
<1>1. MayTake({m}, l, Plain)
  BY SecondTake
<1>2. {m} \cup {l} = {m, l} /\ {m} \in SUBSET Mutexes
  BY UsableMutexes
<1>3. Stays({m}, Take(l))
  BY <1>1, <1>2, NestedOne, StaysTake
<1>4. ASSUME NEW s, Stays({m, l}, s) PROVE Stays({m}, Holding(l, s))
  BY <1>1, <1>2, <1>4, NestedOne, StaysHolding
<1> QED
  BY <1>3, <1>4

LEMMA StaysThird ==
  ASSUME NEW k \in Usable, NEW m \in Usable, NEW l \in Usable, l \notin {k, m},
         Needs(k) = {}, Needs(m) = {}, Needs(l) = {},
         Ordered => Rank(k) < Rank(l) /\ Rank(m) < Rank(l)
  PROVE  /\ Stays({k, m}, Take(l))
         /\ \A s : Stays({k, m, l}, s) => Stays({k, m}, Holding(l, s))
<1>1. MayTake({k, m}, l, Plain)
  BY DEF MayTake, InOrder, Plain
<1>2. {k, m} \cup {l} = {k, m, l} /\ {k, m} \in SUBSET Mutexes
  BY UsableMutexes
<1>3. Nested({k, m})
  BY DEF Nested
<1>4. Stays({k, m}, Take(l))
  BY <1>1, <1>2, <1>3, StaysTake
<1>5. ASSUME NEW s, Stays({k, m, l}, s) PROVE Stays({k, m}, Holding(l, s))
  BY <1>1, <1>2, <1>3, <1>5, StaysHolding
<1> QED
  BY <1>4, <1>5

\* The ranks that the operations rely on.
LEMMA RankOrder ==
  /\ Rank("bucket") < Rank("depot")
  /\ \A m \in {"argretval", "atexit_mu", "global_proc"} :
       /\ Rank(m) < Rank("bucket") /\ Rank(m) < Rank("depot")
       /\ Rank(m) < Rank("allocator")
  /\ Rank("global_proc") < Rank("fallback")
  /\ Rank("global_proc") < Rank("quarantine")
  /\ Rank("fallback") < Rank("quarantine")
  /\ Rank("thread_registry") < Rank("internal_alloc")
  /\ Rank("thread_registry") < Rank("slot_mtx")
  /\ Rank("thread_registry") < Rank("report_mtx")
  /\ Rank("thread_registry") < Rank("error_report")
  /\ Rank("slot_mtx") < Rank("report_mtx")
  /\ Rank("slot_mtx") < Rank("error_report")
  /\ Rank("report_mtx") < Rank("error_report")
  /\ Rank("error_report") < Rank("asan_registry")
  /\ \A t \in Threads :
       \A l \in {"thread_registry", "slot_mtx", "report_mtx", "error_report"} :
         Rank(t) < Rank(l)
<1> DEFINE n == Cardinality(Threads)
<1>1. n \in Nat
  BY SlotsBijection
<1> HIDE DEF n
<1> QED
  BY <1>1, Ranks DEF n

LEMMA StackDepotPutStays ==
  \A A \in {{}, {"argretval"}, {"atexit_mu"}, {"global_proc"}} :
    A \subseteq Usable => Stays(A, StackDepotPut)
<1>1. Stays({}, StackDepotPut)
  <2>1. Stays({"bucket"}, Take("depot"))
    BY StaysSecond, UsableNames, NoNeeds, RankOrder
  <2> QED
    BY <2>1, StaysFirst, UsableNames, NoNeeds DEF StackDepotPut
<1>2. ASSUME NEW m \in {"argretval", "atexit_mu", "global_proc"}, m \in Usable
      PROVE  Stays({m}, StackDepotPut)
  <2>1. /\ Needs(m) = {} /\ Needs("bucket") = {} /\ Needs("depot") = {}
        /\ "bucket" \in Usable /\ "depot" \in Usable
        /\ m # "bucket" /\ "depot" \notin {m, "bucket"}
    BY UsableNames, NoNeeds
  <2>2. Stays({m, "bucket"}, Take("depot"))
    BY <1>2, <2>1, RankOrder, StaysThird
  <2>3. \A s : Stays({m, "bucket"}, s) => Stays({m}, Holding("bucket", s))
    BY <1>2, <2>1, RankOrder, StaysSecond
  <2> QED
    BY <2>2, <2>3 DEF StackDepotPut
<1> QED
  BY <1>1, <1>2

LEMMA AllocateStays ==
  Stays({}, Allocate) /\ Stays({"argretval"}, Allocate) /\ Stays({"atexit_mu"}, Allocate)
<1>1. Stays({}, Allocate)
  <2>1. Stays({}, Take("allocator")) /\ Stays({}, StackDepotPut)
    BY StaysFirst, UsableNames, NoNeeds, StackDepotPutStays
  <2> QED
    BY <2>1, StaysConcat DEF Allocate
<1>2. ASSUME NEW m \in {"argretval", "atexit_mu"} PROVE Stays({m}, Allocate)
  <2>1. m \in Usable /\ "allocator" \in Usable
    BY UsableNames
  <2>2. Stays({m}, Take("allocator"))
    BY <2>1, StaysSecond, NoNeeds, RankOrder
  <2>3. Stays({m}, StackDepotPut)
    BY <2>1, StackDepotPutStays
  <2> QED
    BY <2>2, <2>3, StaysConcat DEF Allocate
<1> QED
  BY <1>1, <1>2

\* A mutex of TSan, as that of a slot, alone.
LEMMA TsanTake ==
  ASSUME NEW l \in TsanMutexes, l # "report_mtx"
  PROVE  /\ Needs(l) = {}
         /\ ContainsTsan => l \in Usable /\ Stays({}, Take(l))
         /\ Stays({}, Tsan(Take(l)))
<1>1. Needs(l) = {}
  BY NoNeeds DEF TsanMutexes
<1>2. ContainsTsan => l \in Usable /\ Stays({}, Take(l))
  BY <1>1, UsableNames, StaysFirst
<1>3. Stays({}, Tsan(Take(l)))
  BY <1>2, StaysTsan
<1> QED
  BY <1>1, <1>2, <1>3

LEMMA TsanNames ==
  /\ {"global_proc", "thread_registry", "slot_mtx", "internal_alloc"}
       \subseteq TsanMutexes \ {"report_mtx"}
  /\ Threads \subseteq TsanMutexes \ {"report_mtx"}
  /\ \A t \in Threads : t \notin Names
BY ForkAssumption DEF TsanMutexes, Names

\* The mutexes taken alone.
LEMMA TakesStay ==
  /\ Stays({}, Take("quarantine")) /\ Stays({}, Take("allocator"))
  /\ Stays({}, Take("asan_registry")) /\ Stays({}, Take("argretval"))
BY StaysFirst, UsableNames, NoNeeds

LEMMA MallocStays ==
  ASSUME NEW t \in Threads PROVE Stays({}, Malloc(t))
<1>1. Stays({}, Tsan(Take(t)))
  BY TsanTake, TsanNames
<1> QED
  BY <1>1, AllocateStays, StaysConcat DEF Malloc

LEMMA DeallocateStays ==
  ASSUME NEW t \in Threads
  PROVE  /\ Stays({}, Deallocate(t))
         /\ LibcFrees => Stays({"argretval"}, Deallocate(t))
<1>1. Stays({}, Deallocate(t))
  <2>1. Stays({}, Tsan(Take(t)))
    BY TsanTake, TsanNames
  <2>2. Stays({}, StackDepotPut)
    BY StackDepotPutStays
  <2> QED
    BY <2>1, <2>2, TakesStay, StaysConcat DEF Deallocate
<1>2. ASSUME LibcFrees PROVE Stays({"argretval"}, Deallocate(t))
  <2>1. ~Ordered
    BY <1>2 DEF Ordered
  <2>2. /\ "argretval" \in Usable /\ Needs("argretval") = {}
        /\ "quarantine" \in Usable /\ Needs("quarantine") = {}
        /\ "allocator" \in Usable /\ Needs("allocator") = {}
    BY UsableNames, NoNeeds
  <2>3. Stays({"argretval"}, Take("quarantine"))
        /\ Stays({"argretval"}, Take("allocator"))
    BY <2>1, <2>2, StaysSecond
  <2>4. Stays({"argretval"}, Tsan(Take(t)))
    <3>1. ASSUME ContainsTsan PROVE Stays({"argretval"}, Take(t))
      <4>1. t \in Usable /\ Needs(t) = {} /\ t # "argretval"
        BY <3>1, TsanTake, TsanNames DEF Names
      <4> QED
        BY <4>1, <2>1, <2>2, StaysSecond
    <3>2. {"argretval"} \in SUBSET Mutexes
      BY <2>2, UsableMutexes
    <3> QED
      BY <3>1, <3>2, StaysTsan
  <2>5. Stays({"argretval"}, StackDepotPut)
    BY <2>2, StackDepotPutStays
  <2> QED
    BY <2>3, <2>4, <2>5, StaysConcat DEF Deallocate
<1> QED
  BY <1>1, <1>2

LEMMA DeallocateTlsStays ==
  ASSUME NEW t \in Threads PROVE Stays({"argretval"}, DeallocateTls(t))
<1>1. {"argretval"} \in SUBSET Mutexes
  BY UsableNames, UsableMutexes
<1> QED
  BY <1>1, DeallocateStays, RunsEmpty DEF DeallocateTls, Stays

\* The fallback mutex under the processor of TSan, if there is one: the order of
\* a late free is that of its mutexes only then.
LEMMA LateFreeStays == Stays({}, LateFree)
<1> DEFINE inner == Take("quarantine") \o Take("allocator")
<1>1. CASE ContainsTsan
  <2>1. /\ "global_proc" \in Usable /\ Needs("global_proc") = {}
        /\ Stays({}, Take("global_proc"))
    BY <1>1, TsanTake, TsanNames
  <2>2. /\ "fallback" \in Usable /\ Needs("fallback") = {}
        /\ "quarantine" \in Usable /\ Needs("quarantine") = {}
        /\ "allocator" \in Usable /\ Needs("allocator") = {}
    BY UsableNames, NoNeeds
  <2>3. Stays({"global_proc", "fallback"}, Take("quarantine"))
    BY <2>1, <2>2, StaysThird, RankOrder
  <2>4. Stays({"global_proc", "fallback"}, Take("allocator"))
    <3>1. MayTake({"global_proc", "fallback"}, "allocator", Plain)
      BY <2>1, <2>2, RankOrder DEF MayTake, InOrder, Plain
    <3>2. Nested({"global_proc", "fallback"})
      BY <2>1, <2>2 DEF Nested
    <3>3. {"global_proc", "fallback"} \in SUBSET Mutexes
      BY <2>1, <2>2, UsableMutexes
    <3> QED
      BY <3>1, <3>2, <3>3, StaysTake
  <2>5. Stays({"global_proc", "fallback"}, inner)
    BY <2>3, <2>4, StaysConcat
  <2>6. \A s : Stays({"global_proc", "fallback"}, s)
                 => Stays({"global_proc"}, Holding("fallback", s))
    BY <2>1, <2>2, StaysSecond, RankOrder
  <2>7. Stays({"global_proc"}, Holding("fallback", inner))
    BY <2>5, <2>6
  <2>8. Stays({"global_proc"}, StackDepotPut)
    BY <2>1, StackDepotPutStays
  <2> HIDE DEF inner
  <2>9. Stays({"global_proc"}, StackDepotPut \o Holding("fallback", inner))
    BY <2>7, <2>8, StaysConcat
  <2>10. Stays({}, Holding("global_proc", StackDepotPut \o Holding("fallback", inner)))
    BY <2>1, <2>9, StaysFirst
  <2> QED
    BY <2>10, <1>1 DEF LateFree, inner
<1>2. CASE ~ContainsTsan
  <2>1. ~Ordered
    BY <1>2 DEF Ordered
  <2>2. /\ "fallback" \in Usable /\ Needs("fallback") = {}
        /\ "quarantine" \in Usable /\ Needs("quarantine") = {}
        /\ "allocator" \in Usable /\ Needs("allocator") = {}
    BY UsableNames, NoNeeds
  <2>3. Stays({"fallback"}, Take("quarantine")) /\ Stays({"fallback"}, Take("allocator"))
    BY <2>1, <2>2, StaysSecond
  <2>4. Stays({"fallback"}, inner)
    BY <2>3, StaysConcat
  <2>5. Stays({}, Holding("fallback", inner))
    BY <2>2, <2>4, StaysFirst
  <2>6. Stays({}, StackDepotPut)
    BY StackDepotPutStays
  <2> HIDE DEF inner
  <2>7. Stays({}, StackDepotPut \o Holding("fallback", inner))
    BY <2>5, <2>6, StaysConcat
  <2> QED
    BY <2>7, <1>2 DEF LateFree, inner
<1> QED
  BY <1>1, <1>2

LEMMA RegistryStays ==
  ContainsTsan =>
    /\ Stays({}, Holding("thread_registry", Take("internal_alloc")))
    /\ Stays({}, Holding("thread_registry", Take("slot_mtx")))
<1> SUFFICES ASSUME ContainsTsan
             PROVE  /\ Stays({}, Holding("thread_registry", Take("internal_alloc")))
                    /\ Stays({}, Holding("thread_registry", Take("slot_mtx")))
  OBVIOUS
<1>1. /\ "thread_registry" \in Usable /\ Needs("thread_registry") = {}
      /\ "internal_alloc" \in Usable /\ Needs("internal_alloc") = {}
      /\ "slot_mtx" \in Usable /\ Needs("slot_mtx") = {}
  BY TsanTake, TsanNames
<1>2. Stays({"thread_registry"}, Take("internal_alloc"))
      /\ Stays({"thread_registry"}, Take("slot_mtx"))
  BY <1>1, StaysSecond, RankOrder
<1> QED
  BY <1>1, <1>2, StaysFirst

LEMMA PthreadCreateStays ==
  ASSUME NEW t \in Threads PROVE Stays({}, PthreadCreate(t))
<1>1. Stays({"argretval"}, Allocate \o DeallocateTls(t))
  BY AllocateStays, DeallocateTlsStays, StaysConcat
<1>2. Stays({}, Holding("argretval", Allocate \o DeallocateTls(t)))
  BY <1>1, StaysFirst, UsableNames, NoNeeds
<1>3. Stays({}, StackDepotPut)
  BY StackDepotPutStays
<1>4. Stays({}, Tsan(Take(t) \o Holding("thread_registry", Take("internal_alloc"))))
  <2>1. ASSUME ContainsTsan
        PROVE  Stays({}, Take(t) \o Holding("thread_registry", Take("internal_alloc")))
    BY <2>1, TsanTake, TsanNames, RegistryStays, StaysConcat
  <2> QED
    BY <2>1, StaysTsan
<1> QED
  BY <1>2, <1>3, <1>4, TakesStay, StaysConcat DEF PthreadCreate

LEMMA ThreadStartStays ==
  ASSUME NEW t \in Threads PROVE Stays({}, ThreadStart(t))
<1>1. Stays({}, Tsan(Take("thread_registry") \o Take("slot_mtx") \o Take(t)))
  <2>1. ASSUME ContainsTsan
        PROVE  Stays({}, Take("thread_registry") \o Take("slot_mtx") \o Take(t))
    <3>1. Stays({}, Take("thread_registry")) /\ Stays({}, Take("slot_mtx"))
          /\ Stays({}, Take(t))
      BY <2>1, TsanTake, TsanNames
    <3> QED
      BY <3>1, StaysConcat
  <2> QED
    BY <2>1, StaysTsan
<1> QED
  BY <1>1, TakesStay, StaysConcat DEF ThreadStart

LEMMA ThreadEndStays ==
  ASSUME NEW t \in Threads PROVE Stays({}, ThreadEnd(t))
<1> DEFINE tsan == Holding(t, Take("thread_registry")) \o Take(t)
                   \o Holding("thread_registry", Take("slot_mtx"))
<1>1. Stays({}, Tsan(tsan))
  <2>1. ASSUME ContainsTsan PROVE Stays({}, tsan)
    <3>1. t \in Usable /\ Needs(t) = {} /\ t # "thread_registry" /\ Stays({}, Take(t))
      BY <2>1, TsanTake, TsanNames DEF Names
    <3>2. "thread_registry" \in Usable /\ Needs("thread_registry") = {}
      BY <2>1, TsanTake, TsanNames
    <3>3. Stays({t}, Take("thread_registry"))
      BY <3>1, <3>2, StaysSecond, RankOrder
    <3>4. Stays({}, Holding(t, Take("thread_registry")))
      BY <3>1, <3>3, StaysFirst
    <3> QED
      BY <2>1, <3>1, <3>4, RegistryStays, StaysConcat
  <2> HIDE DEF tsan
  <2> QED
    BY <2>1, StaysTsan
<1> HIDE DEF tsan
<1>2. Stays({}, Take("argretval") \o Tsan(tsan))
  BY <1>1, TakesStay, StaysConcat
<1> QED
  BY <1>2, TakesStay, StaysConcat DEF ThreadEnd, tsan

LEMMA PthreadJoinStays ==
  ASSUME NEW t \in Threads PROVE Stays({}, PthreadJoin(t))
<1>1. Stays({}, Tsan(Take("thread_registry")))
  BY TsanTake, TsanNames
<1>2. Stays({}, Tsan(Take("thread_registry") \o Take(t)))
  <2>1. ASSUME ContainsTsan PROVE Stays({}, Take("thread_registry") \o Take(t))
    BY <2>1, TsanTake, TsanNames, StaysConcat
  <2> QED
    BY <2>1, StaysTsan
<1> QED
  BY <1>1, <1>2, TakesStay, StaysConcat DEF PthreadJoin

LEMMA PthreadDetachStays ==
  ASSUME NEW t \in Threads PROVE Stays({}, PthreadDetach(t))
<1>1. Stays({}, Tsan(Take("thread_registry")))
  BY TsanTake, TsanNames
<1>2. Stays({}, Holding("argretval", DeallocateTls(t)))
  BY DeallocateTlsStays, StaysFirst, UsableNames, NoNeeds
<1>3. Stays({}, Tsan(Holding("thread_registry", Take("internal_alloc"))))
  BY RegistryStays, StaysTsan
<1> QED
  BY <1>1, <1>2, <1>3, StaysConcat DEF PthreadDetach

LEMMA ReportRaceStays ==
  ASSUME NEW u \in Threads, ContainsTsan PROVE Stays({}, ReportRace(u))
<1> DEFINE A1 == {u}
           A2 == A1 \cup {"thread_registry"}
           A3 == A2 \cup {"slot_mtx"}
           A4 == A3 \cup {"report_mtx"}
<1>1. u \in Usable /\ Needs(u) = {} /\ u \notin Names
  BY TsanTake, TsanNames
<1>2. /\ "thread_registry" \in Usable /\ Needs("thread_registry") = {}
      /\ "slot_mtx" \in Usable /\ Needs("slot_mtx") = {}
      /\ "error_report" \in Usable /\ Needs("error_report") = {}
  BY TsanTake, TsanNames, UsableNames, NoNeeds
<1>3. "report_mtx" \in Usable /\ Needs("report_mtx") = {"slot_mtx"}
  BY UsableNames DEF TsanMutexes, Needs
<1>4. "fork" \notin Plain
  BY DEF Plain
<1>5. u \notin {"thread_registry", "slot_mtx", "report_mtx", "error_report"}
  BY <1>1 DEF Names
<1>6. MayTake(A1, "thread_registry", Plain)
  BY <1>2, <1>4, <1>5, RankOrder DEF MayTake, InOrder
<1>7. MayTake(A2, "slot_mtx", Plain)
  BY <1>2, <1>4, <1>5, RankOrder DEF MayTake, InOrder
<1>8. MayTake(A3, "report_mtx", Plain)
  BY <1>3, <1>4, <1>5, RankOrder DEF MayTake, InOrder
<1>9. MayTake(A4, "error_report", Plain)
  BY <1>2, <1>4, <1>5, RankOrder DEF MayTake, InOrder
<1>10. Nested(A1) /\ Nested(A2) /\ Nested(A3) /\ Nested(A4)
  BY <1>1, <1>2, <1>3 DEF Nested
<1>11. /\ A1 \in SUBSET Mutexes /\ A2 \in SUBSET Mutexes
       /\ A3 \in SUBSET Mutexes /\ A4 \in SUBSET Mutexes
  BY <1>10, UsableMutexes DEF Nested
<1> DEFINE s4 == Take("error_report")
           s3 == Holding("report_mtx", s4)
           s2 == Holding("slot_mtx", s3)
           s1 == Holding("thread_registry", s2)
<1>12. Stays(A4, s4)
  BY <1>9, <1>10, <1>11, StaysTake
<1> HIDE DEF s4
<1>13. Stays(A3, s3)
  BY <1>8, <1>10, <1>11, <1>12, StaysHolding
<1> HIDE DEF s3, A4
<1>14. Stays(A2, s2)
  BY <1>7, <1>10, <1>11, <1>13, StaysHolding
<1> HIDE DEF s2, A3
<1>15. Stays(A1, s1)
  BY <1>6, <1>10, <1>11, <1>14, StaysHolding
<1> HIDE DEF s1, A2
<1>16. Stays({}, Holding(u, s1))
  BY <1>1, <1>15, StaysFirst
<1> QED
  BY <1>16 DEF ReportRace, s1, s2, s3, s4

LEMMA ReportErrorStays == Stays({}, ReportError)
<1>1. /\ "error_report" \in Usable /\ Needs("error_report") = {}
      /\ "asan_registry" \in Usable /\ Needs("asan_registry") = {}
  BY UsableNames, NoNeeds
<1>2. Stays({"error_report"}, Take("asan_registry"))
  BY <1>1, StaysSecond, RankOrder
<1> QED
  BY <1>1, <1>2, StaysFirst DEF ReportError

LEMMA LeakCheckStays == Stays({}, LeakCheck)
<1> DEFINE A1 == {"lsan_global"}
           A2 == A1 \cup {"asan_registry"}
           A3 == A2 \cup {"asan_argretval"}
           A4 == A3 \cup {"allocator"}
           n == Cardinality(Threads)
<1>1. {"lsan_global", "asan_registry", "asan_argretval", "allocator", "fallback"}
        \subseteq Usable
  BY UsableNames
<1>2. /\ Needs("lsan_global") = {} /\ Needs("asan_registry") = {}
      /\ Needs("allocator") = {} /\ Needs("fallback") = {}
      /\ Needs("asan_argretval") = {"lsan_global"}
  BY NoNeeds DEF Needs
<1>3. "fork" \notin Plain
  BY DEF Plain
<1>4. /\ Rank("lsan_global") = -2 /\ Rank("asan_registry") = n + 5
      /\ Rank("asan_argretval") = n + 6 /\ Rank("allocator") = n + 9
      /\ Rank("fallback") = n + 9 /\ n \in Nat
  BY Ranks, SlotsBijection
<1> HIDE DEF n
<1>5. MayTake(A1, "asan_registry", Plain)
  BY <1>1, <1>2, <1>3, <1>4 DEF MayTake, InOrder
<1>6. MayTake(A2, "asan_argretval", Plain)
  BY <1>1, <1>2, <1>3, <1>4 DEF MayTake, InOrder
<1>7. MayTake(A3, "allocator", Plain)
  BY <1>1, <1>2, <1>3, <1>4 DEF MayTake, InOrder
<1>8. MayTake(A4, "fallback", Plain)
  BY <1>1, <1>2, <1>3, <1>4 DEF MayTake, InOrder
<1>9. Nested(A1) /\ Nested(A2) /\ Nested(A3) /\ Nested(A4)
  BY <1>1, <1>2 DEF Nested
<1>10. /\ A1 \in SUBSET Mutexes /\ A2 \in SUBSET Mutexes
       /\ A3 \in SUBSET Mutexes /\ A4 \in SUBSET Mutexes
  BY <1>9, UsableMutexes DEF Nested
<1> DEFINE s4 == Take("fallback")
           s3 == Holding("allocator", s4)
           s2 == Holding("asan_argretval", s3)
           s1 == Holding("asan_registry", s2)
<1>11. Stays(A4, s4)
  BY <1>8, <1>9, <1>10, StaysTake
<1> HIDE DEF s4
<1>12. Stays(A3, s3)
  BY <1>7, <1>9, <1>10, <1>11, StaysHolding
<1> HIDE DEF s3, A4
<1>13. Stays(A2, s2)
  BY <1>6, <1>9, <1>10, <1>12, StaysHolding
<1> HIDE DEF s2, A3
<1>14. Stays(A1, s1)
  BY <1>5, <1>9, <1>10, <1>13, StaysHolding
<1> HIDE DEF s1, A2
<1>15. Stays({}, Holding("lsan_global", s1))
  BY <1>1, <1>2, <1>14, StaysFirst
<1> QED
  BY <1>15 DEF LeakCheck, s1, s2, s3, s4

LEMMA AtExitStays ==
  ASSUME NEW t \in Threads PROVE Stays({}, AtExit(t))
<1>1. Stays({}, Tsan(Take(t)))
  BY TsanTake, TsanNames
<1>2. Stays({}, Holding("atexit_mu", Allocate))
  BY AllocateStays, StaysFirst, UsableNames, NoNeeds
<1> QED
  BY <1>1, <1>2, StaysConcat DEF AtExit

\* Purge recycles under the fallback mutex alone, which no order allows.
LEMMA PurgeStays == ~Ordered => Stays({}, Purge)
<1> SUFFICES ASSUME ~Ordered PROVE Stays({}, Purge)
  OBVIOUS
<1>1. /\ "fallback" \in Usable /\ Needs("fallback") = {}
      /\ "quarantine" \in Usable /\ Needs("quarantine") = {}
      /\ "allocator" \in Usable /\ Needs("allocator") = {}
  BY UsableNames, NoNeeds
<1>2. Stays({"fallback"}, Take("quarantine")) /\ Stays({"fallback"}, Take("allocator"))
  BY <1>1, StaysSecond
<1>3. Stays({"fallback"}, Take("quarantine") \o Take("allocator"))
  BY <1>2, StaysConcat
<1>4. Stays({}, Holding("fallback", Take("quarantine") \o Take("allocator")))
  BY <1>1, <1>3, StaysFirst
<1> QED
  BY <1>4, TakesStay, StaysConcat DEF Purge

-----------------------------------------------------------------------------
(* All the slots.                                                           *)

LEMMA SlotSequences ==
  /\ LockSlots \in Seq(Event) /\ UnlockSlots \in Seq(Event)
  /\ Len(LockSlots) = Cardinality(Threads)
  /\ Len(UnlockSlots) = Cardinality(Threads)
  /\ \A i \in 1 .. Cardinality(Threads) :
       /\ Slots[i] \in Threads
       /\ LockSlots[i] = <<"lock", Slots[i]>>
       /\ UnlockSlots[i] = <<"unlock", Slots[i]>>
<1> DEFINE n == Cardinality(Threads)
<1>1. n \in Nat /\ DOMAIN Slots = 1 .. n /\ Slots \in [1 .. n -> Threads]
  BY SlotsBijection
<1> HIDE DEF n
<1>2. ASSUME NEW i \in 1 .. n
      PROVE  /\ Slots[i] \in Threads
             /\ <<"lock", Slots[i]>> \in Event /\ <<"unlock", Slots[i]>> \in Event
  BY <1>1, MutexEvents DEF Mutexes
<1>3. LockSlots = [i \in 1 .. n |-> <<"lock", Slots[i]>>]
      /\ UnlockSlots = [i \in 1 .. n |-> <<"unlock", Slots[i]>>]
  BY <1>1 DEF LockSlots, UnlockSlots
<1>4. LockSlots \in [1 .. n -> Event] /\ UnlockSlots \in [1 .. n -> Event]
  BY <1>2, <1>3
<1>5. LockSlots \in Seq(Event) /\ UnlockSlots \in Seq(Event)
      /\ Len(LockSlots) = n /\ Len(UnlockSlots) = n
  BY <1>1, <1>4
<1> QED
  BY <1>2, <1>3, <1>5 DEF n

\* What is held, the slots up to the i-th apart.
SlotsUpTo(i) == {Slots[j] : j \in 1 .. i}

\* In the order of their indices, under mutexes that come before them.
LEMMA LockSlotsRuns ==
  ASSUME NEW A \in SUBSET Mutexes, NEW acts, Plain \subseteq acts, ContainsTsan,
         A \cap Threads = {}, \A m \in A : \A t \in Threads : Rank(m) < Rank(t)
  PROVE  Runs(A, LockSlots, A \cup Threads, acts)
<1> DEFINE n == Cardinality(Threads)
           h == [i \in 0 .. n |-> A \cup SlotsUpTo(i)]
<1>1. /\ n \in Nat
      /\ \A i \in 1 .. n : Slots[i] \in Threads
      /\ \A t \in Threads : \E i \in 1 .. n : Slots[i] = t
      /\ \A i, j \in 1 .. n : Slots[i] = Slots[j] => i = j
      /\ \A i \in 1 .. n : Rank(Slots[i]) = i
  BY SlotsBijection, Ranks
<1>2. /\ LockSlots \in Seq(Event) /\ Len(LockSlots) = n
      /\ \A i \in 1 .. n : LockSlots[i] = <<"lock", Slots[i]>>
  BY SlotSequences
<1> HIDE DEF n
<1>3. ASSUME NEW i \in 0 .. n PROVE A \cup SlotsUpTo(i) \in SUBSET Mutexes
  BY <1>1 DEF SlotsUpTo, Mutexes
<1>4. h \in [0 .. n -> SUBSET Mutexes]
  BY <1>3
<1>5. h[0] = A /\ h[n] = A \cup Threads
  <2>1. SlotsUpTo(0) = {}
    BY DEF SlotsUpTo
  <2>2. SlotsUpTo(n) = Threads
    BY <1>1 DEF SlotsUpTo
  <2> QED
    BY <2>1, <2>2, <1>1
<1>6. ASSUME NEW i \in 1 .. n
      PROVE  Effect(h[i - 1], LockSlots[i], h[i], acts)
  <2> DEFINE l == Slots[i]
             B == A \cup SlotsUpTo(i - 1)
  <2>1. h[i - 1] = B /\ h[i] = A \cup SlotsUpTo(i) /\ i - 1 \in 0 .. n
    BY <1>1
  <2>2. A \cup SlotsUpTo(i) = B \cup {l}
    BY <1>1 DEF SlotsUpTo
  <2>3. l \in Threads /\ l \in Usable /\ Needs(l) = {} /\ l \notin {"allocator", "fallback"}
    BY <1>1, TsanTake, TsanNames DEF Names
  <2>4. l \notin B
    BY <1>1, <2>3 DEF SlotsUpTo
  <2>5. InOrder(B, l)
    <3>1. ASSUME NEW m \in B PROVE Rank(m) < Rank(l)
      <4>1. CASE m \in A
        BY <4>1, <2>3
      <4>2. CASE m \in SlotsUpTo(i - 1)
        <5>1. PICK j \in 1 .. i - 1 : m = Slots[j]
          BY <4>2 DEF SlotsUpTo
        <5> QED
          BY <5>1, <1>1
      <4> QED
        BY <4>1, <4>2
    <3> QED
      BY <3>1 DEF InOrder
  <2>6. MayTake(B, l, acts)
    BY <2>3, <2>4, <2>5 DEF MayTake
  <2>7. LockSlots[i][1] = "lock" /\ LockSlots[i][2] = l
    BY <1>2
  <2> HIDE DEF l, B, h
  <2> QED
    BY <2>1, <2>2, <2>6, <2>7 DEF Effect, Plain
<1> HIDE DEF h
<1>7. Trace(A, LockSlots, A \cup Threads, acts, h)
  BY <1>2, <1>4, <1>5, <1>6 DEF Trace
<1> QED
  BY <1>2, <1>7 DEF Runs

LEMMA UnlockSlotsRuns ==
  ASSUME NEW A \in SUBSET Mutexes, NEW acts, Plain \subseteq acts,
         A \cap Threads = {}
  PROVE  Runs(A \cup Threads, UnlockSlots, A, acts)
<1> DEFINE n == Cardinality(Threads)
           h == [i \in 0 .. n |-> (A \cup Threads) \ SlotsUpTo(i)]
<1>1. /\ n \in Nat
      /\ \A i \in 1 .. n : Slots[i] \in Threads
      /\ \A t \in Threads : \E i \in 1 .. n : Slots[i] = t
      /\ \A i, j \in 1 .. n : Slots[i] = Slots[j] => i = j
  BY SlotsBijection
<1>2. /\ UnlockSlots \in Seq(Event) /\ Len(UnlockSlots) = n
      /\ \A i \in 1 .. n : UnlockSlots[i] = <<"unlock", Slots[i]>>
  BY SlotSequences
<1> HIDE DEF n
<1>3. ASSUME NEW i \in 0 .. n PROVE (A \cup Threads) \ SlotsUpTo(i) \in SUBSET Mutexes
  BY DEF Mutexes
<1>4. h \in [0 .. n -> SUBSET Mutexes]
  BY <1>3
<1>5. h[0] = A \cup Threads /\ h[n] = A
  <2>1. SlotsUpTo(0) = {}
    BY DEF SlotsUpTo
  <2>2. SlotsUpTo(n) = Threads
    BY <1>1 DEF SlotsUpTo
  <2> QED
    BY <2>1, <2>2, <1>1
<1>6. ASSUME NEW i \in 1 .. n
      PROVE  Effect(h[i - 1], UnlockSlots[i], h[i], acts)
  <2> DEFINE l == Slots[i]
             B == (A \cup Threads) \ SlotsUpTo(i - 1)
  <2>1. h[i - 1] = B /\ h[i] = (A \cup Threads) \ SlotsUpTo(i) /\ i - 1 \in 0 .. n
    BY <1>1
  <2>2. (A \cup Threads) \ SlotsUpTo(i) = B \ {l}
    BY <1>1 DEF SlotsUpTo
  <2>3. l \in Threads
    BY <1>1
  <2>4. l \in B
    BY <1>1, <2>3 DEF SlotsUpTo
  <2>5. \A m : l \notin Needs(m)
    BY <2>3, ForkAssumption DEF Needs, Names
  <2>6. MayFree(B, l)
    BY <2>4, <2>5 DEF MayFree
  <2>7. UnlockSlots[i][1] = "unlock" /\ UnlockSlots[i][2] = l
    BY <1>2
  <2> HIDE DEF l, B, h
  <2> QED
    BY <2>1, <2>2, <2>6, <2>7 DEF Effect, Plain
<1> HIDE DEF h
<1>7. Trace(A \cup Threads, UnlockSlots, A, acts, h)
  BY <1>2, <1>4, <1>5, <1>6 DEF Trace
<1> QED
  BY <1>2, <1>7 DEF Runs

LEMMA DoResetStays == ContainsTsan => Stays({}, DoReset)
<1> SUFFICES ASSUME ContainsTsan PROVE Stays({}, DoReset)
  OBVIOUS
<1>1. Threads \in SUBSET Mutexes /\ {} \in SUBSET Mutexes /\ {} \cup Threads = Threads
  BY DEF Mutexes
<1>2. Runs({}, LockSlots, Threads, Plain)
  BY <1>1, LockSlotsRuns
<1>3. Runs(Threads, UnlockSlots, {}, Plain)
  BY <1>1, UnlockSlotsRuns
<1>4. /\ "thread_registry" \in Usable /\ Needs("thread_registry") = {}
      /\ "slot_mtx" \in Usable /\ Needs("slot_mtx") = {}
      /\ "thread_registry" \notin Threads /\ "slot_mtx" \notin Threads
      /\ \A t \in Threads : t \in Usable /\ Needs(t) = {}
  BY TsanTake, TsanNames DEF Names
<1>5. Nested(Threads) /\ Nested(Threads \cup {"thread_registry"})
  BY <1>4 DEF Nested
<1>6. MayTake(Threads, "thread_registry", Plain)
  BY <1>4, RankOrder DEF MayTake, InOrder, Plain
<1>7. MayTake(Threads \cup {"thread_registry"}, "slot_mtx", Plain)
  BY <1>4, RankOrder DEF MayTake, InOrder, Plain
<1>8. Threads \cup {"thread_registry"} \in SUBSET Mutexes
  BY <1>5, UsableMutexes DEF Nested
<1>9. Stays(Threads \cup {"thread_registry"}, Take("slot_mtx"))
  BY <1>5, <1>7, <1>8, StaysTake
<1>10. Stays(Threads, Holding("thread_registry", Take("slot_mtx")))
  BY <1>1, <1>5, <1>6, <1>9, StaysHolding
<1>11. Runs({}, LockSlots \o Holding("thread_registry", Take("slot_mtx")), Threads, Plain)
  BY <1>2, <1>10, RunsConcat DEF Stays
<1> QED
  BY <1>3, <1>11, RunsConcat DEF DoReset, Stays

-----------------------------------------------------------------------------
(* The handlers of fork.                                                    *)

\* The next mutex in the order, with any set of acts.
LEMMA TakeByRank ==
  ASSUME NEW A, NEW l \in Usable, NEW acts, Needs(l) = {},
         l \notin {"allocator", "fallback"}, Rank(l) \in Int,
         \A m \in A : Rank(m) < Rank(l)
  PROVE  MayTake(A, l, acts)
<1>1. l \notin A
  BY SMT
<1> QED
  BY <1>1 DEF MayTake, InOrder

LEMMA ThenLock ==
  ASSUME NEW A, NEW s, NEW B \in SUBSET Mutexes, NEW l, NEW acts, "lock" \in acts,
         Runs(A, s, B, acts), MayTake(B, l, acts)
  PROVE  Runs(A, s \o Lock(l), B \cup {l}, acts)
BY LockRuns, RunsConcat

LEMMA ThenUnlock ==
  ASSUME NEW A, NEW s, NEW B \in SUBSET Mutexes, NEW l, NEW acts, "unlock" \in acts,
         Runs(A, s, B, acts), MayFree(B, l)
  PROVE  Runs(A, s \o Unlock(l), B \ {l}, acts)
BY UnlockRuns, RunsConcat

LEMMA TsanFacts ==
  ASSUME ContainsTsan
  PROVE  /\ TsanHeld \subseteq Usable
         /\ \A l \in TsanHeld : Needs(l) = {}
         /\ TsanHeld \cap {"lsan_global", "asan_registry", "asan_argretval",
                           "report_mtx", "argretval", "allocator", "fallback",
                           "depot", "bucket"} = {}
         /\ Threads \cap {"global_proc", "thread_registry", "slot_mtx",
                          "error_report", "internal_alloc", "lsan_global",
                          "allocator", "fallback"} = {}
<1>1. \A t \in Threads : t \notin Names
  BY ForkAssumption
<1>2. TsanHeld \subseteq Usable
  BY <1>1, UsableNames DEF TsanHeld, TsanMutexes
<1>3. \A l \in TsanHeld : Needs(l) = {}
  BY NoNeeds DEF TsanHeld
<1> QED
  BY <1>1, <1>2, <1>3 DEF TsanHeld, Names

\* What TSan's handler before fork, and before clone, takes.
LEMMA ForkBeforeRuns ==
  ASSUME NEW t \in Threads, ContainsTsan, NEW A \in {{}, {"lsan_global"}}
  PROVE  Runs(A, ForkBefore(t), A \cup TsanHeld, Calling)
<1> DEFINE n == Cardinality(Threads)
           A1 == A \cup {"global_proc"}
           A2 == A1 \cup Threads
           A3 == A2 \cup {"thread_registry"}
           A4 == A3 \cup {"slot_mtx"}
           A5 == A4 \cup {"error_report"}
           A6 == A5 \cup {"internal_alloc"}
<1>1. /\ {"global_proc", "thread_registry", "slot_mtx", "error_report",
          "internal_alloc"} \cup Threads \subseteq Usable
      /\ \A l \in {"global_proc", "thread_registry", "slot_mtx", "error_report",
                   "internal_alloc"} \cup Threads : Needs(l) = {}
  BY TsanFacts DEF TsanHeld
<1>2. Threads \cap {"global_proc", "thread_registry", "slot_mtx",
                    "error_report", "internal_alloc", "lsan_global",
                    "allocator", "fallback"} = {}
  BY TsanFacts
<1>3. /\ n \in Nat
      /\ Rank("lsan_global") = -2 /\ Rank("global_proc") = -1
      /\ \A u \in Threads : Rank(u) \in 1 .. n
      /\ Rank("thread_registry") = n + 1 /\ Rank("slot_mtx") = n + 2
      /\ Rank("error_report") = n + 4 /\ Rank("internal_alloc") = n + 7
  BY Ranks, SlotsBijection
<1> HIDE DEF n
<1>4. Nested({"lsan_global"}) /\ "lsan_global" \in Usable
  BY UsableNames, NoNeeds DEF Nested
<1>5. A \in SUBSET Mutexes /\ A \subseteq {"lsan_global"}
  BY <1>4, UsableMutexes
<1>6. MayTake(A, "global_proc", Calling)
  <2>1. "global_proc" \in Usable /\ Needs("global_proc") = {}
    BY <1>1
  <2>2. Rank("global_proc") \in Int /\ \A m \in A : Rank(m) < Rank("global_proc")
    BY <1>3, <1>5
  <2> QED
    BY <2>1, <2>2, TakeByRank
<1>7. MayTake(A1, t, Calling)
  <2>1. t \in Usable /\ Needs(t) = {} /\ t \notin {"allocator", "fallback"}
    BY <1>1, <1>2
  <2>2. Rank(t) \in Int /\ \A m \in A1 : Rank(m) < Rank(t)
    BY <1>3, <1>5
  <2> QED
    BY <2>1, <2>2, TakeByRank
<1>8. \A m \in A2 : Rank(m) \in Int /\ Rank(m) < n + 1
  BY <1>3, <1>5
<1>9. MayTake(A2, "thread_registry", Calling)
  <2>1. "thread_registry" \in Usable /\ Needs("thread_registry") = {}
    BY <1>1
  <2> QED
    BY <2>1, <1>3, <1>8, TakeByRank
<1>10. MayTake(A3, "slot_mtx", Calling)
  <2>1. \A m \in A3 : Rank(m) < n + 2
    BY <1>3, <1>8
  <2> QED
    BY <2>1, <1>1, <1>3, TakeByRank
<1>11. MayTake(A4, "error_report", Calling)
       /\ MayTake(A5, "internal_alloc", Calling)
  <2>1. \A m \in A4 : Rank(m) < n + 4
    BY <1>3, <1>8
  <2>2. \A m \in A5 : Rank(m) < n + 7
    BY <1>3, <1>8
  <2> QED
    BY <2>1, <2>2, <1>1, <1>3, TakeByRank
<1>12. Nested(A1)
  BY <1>1, <1>5, <1>4, NoNeeds DEF Nested
<1>13. /\ A1 \in SUBSET Mutexes /\ A2 \in SUBSET Mutexes /\ A3 \in SUBSET Mutexes
       /\ A4 \in SUBSET Mutexes /\ A5 \in SUBSET Mutexes /\ A6 \in SUBSET Mutexes
  BY <1>1, <1>5, UsableMutexes
<1>14. A1 \cap Threads = {} /\ \A m \in A1 : \A u \in Threads : Rank(m) < Rank(u)
  <2>1. A1 \cap Threads = {}
    BY <1>2, <1>5
  <2>2. ASSUME NEW m \in A1, NEW u \in Threads PROVE Rank(m) < Rank(u)
    BY <1>3, <1>5
  <2> QED
    BY <2>1, <2>2
<1>15. A6 = A \cup TsanHeld
  BY DEF TsanHeld
<1>16. Plain \subseteq Calling /\ "lock" \in Calling /\ "ignore" \in Calling
  BY DEF Plain, Calling
<1> DEFINE s1 == Lock("global_proc")
           s2 == s1 \o Take(t)
           s3 == s2 \o LockSlots
           s4 == s3 \o Lock("thread_registry")
           s5 == s4 \o Lock("slot_mtx")
           s6 == s5 \o Lock("error_report")
           s7 == s6 \o Lock("internal_alloc")
<1>17. ForkBefore(t) = s7 \o Ignore(1)
  BY DEF ForkBefore
<1> HIDE DEF A1
<1>18. Runs(A, s1, A1, Calling)
  BY <1>5, <1>6, <1>16, LockRuns DEF A1
<1> HIDE DEF s1
<1>19. Runs(A, s2, A1, Calling)
  <2>1. Runs(A1, Take(t), A1, Calling)
    BY <1>7, <1>12, <1>13, <1>16, TakeRuns
  <2> QED
    BY <2>1, <1>18, RunsConcat
<1> HIDE DEF s2, A2
<1>20. Runs(A, s3, A2, Calling)
  <2>1. Runs(A1, LockSlots, A2, Calling)
    BY <1>13, <1>14, <1>16, LockSlotsRuns DEF A2
  <2> QED
    BY <2>1, <1>19, RunsConcat
<1> HIDE DEF s3, A3
<1>21. Runs(A, s4, A3, Calling)
  BY <1>9, <1>13, <1>16, <1>20, ThenLock DEF A3
<1> HIDE DEF s4, A4
<1>22. Runs(A, s5, A4, Calling)
  BY <1>10, <1>13, <1>16, <1>21, ThenLock DEF A4
<1> HIDE DEF s5, A5
<1>23. Runs(A, s6, A5, Calling)
  BY <1>11, <1>13, <1>16, <1>22, ThenLock DEF A5
<1> HIDE DEF s6, A6
<1>24. Runs(A, s7, A6, Calling)
  BY <1>11, <1>13, <1>16, <1>23, ThenLock DEF A6
<1> HIDE DEF s7
<1>25. Runs(A6, Ignore(1), A6, Calling)
  BY <1>13, <1>16, IgnoreRuns
<1>26. Runs(A, s7 \o Ignore(1), A6, Calling)
  BY <1>24, <1>25, RunsConcat
<1> QED
  BY <1>15, <1>17, <1>26

\* A mutex that none is taken under may be given back.
LEMMA FreeAnyOrder ==
  ASSUME NEW A, NEW l \in A,
         l # "lsan_global" \/ "asan_argretval" \notin A,
         l # "slot_mtx" \/ "report_mtx" \notin A
  PROVE  MayFree(A, l)
BY DEF MayFree, Needs

\* The handlers after fork give it back.
LEMMA ForkAfterRuns ==
  ASSUME NEW t \in Threads, ContainsTsan, NEW acts, Plain \subseteq acts
  PROVE  Runs(TsanHeld, ForkAfter(t), {}, acts)
<1> DEFINE A0 == TsanHeld
           A1 == A0 \ {"internal_alloc"}
           A2 == A1 \ {"error_report"}
           A3 == A2 \ {"slot_mtx"}
           A4 == A3 \ {"thread_registry"}
           A5 == {"global_proc"}
<1>1. /\ A0 \in SUBSET Mutexes /\ A1 \in SUBSET Mutexes /\ A2 \in SUBSET Mutexes
      /\ A3 \in SUBSET Mutexes /\ A4 \in SUBSET Mutexes /\ A5 \in SUBSET Mutexes
  BY TsanFacts, UsableMutexes DEF TsanHeld
<1>2. Threads \cap {"global_proc", "thread_registry", "slot_mtx",
                    "error_report", "internal_alloc", "lsan_global",
                    "allocator", "fallback"} = {}
  BY TsanFacts
<1>3. A4 = A5 \cup Threads /\ A5 \cap Threads = {}
  BY <1>2 DEF TsanHeld
<1>4. "report_mtx" \notin A2 /\ "report_mtx" \notin A0
  BY TsanFacts
<1>5. MayFree(A0, "internal_alloc")
  BY FreeAnyOrder DEF TsanHeld
<1>6. MayFree(A1, "error_report")
  BY FreeAnyOrder DEF TsanHeld
<1>7. MayFree(A2, "slot_mtx")
  BY FreeAnyOrder, <1>4 DEF TsanHeld
<1>8. MayFree(A3, "thread_registry")
  BY FreeAnyOrder DEF TsanHeld
<1>9. MayFree(A5, "global_proc")
  BY FreeAnyOrder
<1>10. /\ "global_proc" \in Usable /\ Needs("global_proc") = {}
       /\ "slot_mtx" \in Usable /\ Needs("slot_mtx") = {}
       /\ t \in Usable /\ Needs(t) = {}
  BY TsanFacts DEF TsanHeld
<1>11. Nested(A5)
  BY <1>10 DEF Nested
<1>12. Rank("global_proc") < Rank("slot_mtx") /\ Rank("global_proc") < Rank(t)
  <2> DEFINE n == Cardinality(Threads)
  <2>1. /\ n \in Nat /\ Rank("global_proc") = -1 /\ Rank("slot_mtx") = n + 2
        /\ Rank(t) \in 1 .. n
    BY Ranks, SlotsBijection
  <2> HIDE DEF n
  <2> QED
    BY <2>1
<1>13. MayTake(A5, "slot_mtx", acts) /\ MayTake(A5, t, acts)
  BY <1>2, <1>10, <1>12 DEF MayTake, InOrder
<1>14. "unlock" \in acts /\ "ignore" \in acts
  BY DEF Plain
<1> DEFINE s1 == Ignore(-1)
           s2 == s1 \o Unlock("internal_alloc")
           s3 == s2 \o Unlock("error_report")
           s4 == s3 \o Unlock("slot_mtx")
           s5 == s4 \o Unlock("thread_registry")
           s6 == s5 \o UnlockSlots
           s7 == s6 \o Take("slot_mtx")
           s8 == s7 \o Take(t)
<1>15. ForkAfter(t) = s8 \o Unlock("global_proc")
  BY DEF ForkAfter
<1>16. Runs(A0, s1, A0, acts)
  BY <1>1, <1>14, IgnoreRuns
<1> HIDE DEF A0, s1
<1>17. Runs(A0, s2, A1, acts)
  BY <1>1, <1>5, <1>14, <1>16, ThenUnlock
<1> HIDE DEF A1, s2
<1>18. Runs(A0, s3, A2, acts)
  BY <1>1, <1>6, <1>14, <1>17, ThenUnlock
<1> HIDE DEF A2, s3
<1>19. Runs(A0, s4, A3, acts)
  BY <1>1, <1>7, <1>14, <1>18, ThenUnlock
<1> HIDE DEF A3, s4
<1>20. Runs(A0, s5, A4, acts)
  BY <1>1, <1>8, <1>14, <1>19, ThenUnlock
<1> HIDE DEF A4, s5, A5
<1>21. Runs(A0, s6, A5, acts)
  <2>1. Runs(A4, UnlockSlots, A5, acts)
    BY <1>1, <1>3, UnlockSlotsRuns
  <2> QED
    BY <2>1, <1>20, RunsConcat
<1> HIDE DEF s6
<1>22. Runs(A0, s7, A5, acts)
  <2>1. Runs(A5, Take("slot_mtx"), A5, acts)
    BY <1>1, <1>11, <1>13, TakeRuns
  <2> QED
    BY <2>1, <1>21, RunsConcat
<1> HIDE DEF s7
<1>23. Runs(A0, s8, A5, acts)
  <2>1. Runs(A5, Take(t), A5, acts)
    BY <1>1, <1>11, <1>13, TakeRuns
  <2> QED
    BY <2>1, <1>22, RunsConcat
<1> HIDE DEF s8
<1>24. Runs(A0, s8 \o Unlock("global_proc"), A5 \ {"global_proc"}, acts)
  BY <1>1, <1>9, <1>14, <1>23, ThenUnlock
<1>25. A5 \ {"global_proc"} = {}
  BY DEF A5
<1> QED
  BY <1>15, <1>24, <1>25 DEF A0

LEMMA ForkChildAfterRuns ==
  ASSUME NEW t \in Threads, ContainsTsan, NEW acts, Plain \subseteq acts
  PROVE  Runs(TsanHeld, ForkChildAfter(t), {}, acts)
<1> DEFINE s2 == IF Cardinality(Threads) > 1 THEN Ignore(1) ELSE <<>>
<1>1. Runs(TsanHeld, ForkAfter(t), {}, acts)
  BY ForkAfterRuns
<1>2. {} \in SUBSET Mutexes /\ "ignore" \in acts
  BY DEF Plain
<1>3. Runs({}, Take("thread_registry"), {}, acts)
  <2>1. "thread_registry" \in Usable /\ Needs("thread_registry") = {}
    BY TsanFacts DEF TsanHeld
  <2>2. MayTake({}, "thread_registry", acts)
    BY <2>1 DEF MayTake, InOrder
  <2> QED
    BY <2>2, <1>2, NestedNone, TakeRuns
<1>4. Runs({}, s2, {}, acts)
  BY <1>2, IgnoreRuns, RunsEmpty
<1> HIDE DEF s2
<1>5. Runs(TsanHeld, ForkAfter(t) \o Take("thread_registry"), {}, acts)
  BY <1>1, <1>3, RunsConcat
<1>6. Runs(TsanHeld, (ForkAfter(t) \o Take("thread_registry")) \o s2, {}, acts)
  BY <1>4, <1>5, RunsConcat
<1> QED
  BY <1>6 DEF ForkChildAfter, s2

\* What is held between TSan's handler and the mutexes shared with ASan.
HookHeld == AsanHeld \cup (IF ContainsTsan THEN TsanHeld ELSE {})

LEMMA AsanForkBeforeRuns == Runs({}, AsanForkBefore, AsanHeld, Calling)
<1> DEFINE rest == IF ContainsTsan THEN <<>>
                   ELSE Lock("asan_registry") \o Lock("asan_argretval")
           A1 == {"lsan_global"}
<1>1. /\ {"lsan_global", "asan_registry", "asan_argretval"} \subseteq Usable
      /\ Needs("lsan_global") = {} /\ Needs("asan_registry") = {}
      /\ Needs("asan_argretval") = {"lsan_global"}
  BY UsableNames, NoNeeds DEF Needs
<1>2. {} \in SUBSET Mutexes /\ A1 \in SUBSET Mutexes /\ "lock" \in Calling
  BY <1>1, UsableMutexes DEF Calling, Plain
<1>3. Runs({}, Lock("lsan_global"), A1, Calling)
  <2>1. MayTake({}, "lsan_global", Calling)
    BY <1>1 DEF MayTake, InOrder
  <2>2. {} \cup {"lsan_global"} = A1
    OBVIOUS
  <2> QED
    BY <2>1, <2>2, <1>2, LockRuns
<1>4. Runs(A1, rest, AsanHeld, Calling)
  <2>1. CASE ContainsTsan
    BY <2>1, <1>2, RunsEmpty DEF AsanHeld
  <2>2. CASE ~ContainsTsan
    <3> DEFINE A2 == A1 \cup {"asan_registry"}
    <3>1. ~Ordered
      BY <2>2 DEF Ordered
    <3>2. MayTake(A1, "asan_registry", Calling)
      BY <1>1, <3>1 DEF MayTake
    <3>3. MayTake(A2, "asan_argretval", Calling)
      BY <1>1, <3>1 DEF MayTake
    <3>4. A2 \in SUBSET Mutexes
      BY <1>1, UsableMutexes
    <3>5. Runs(A1, Lock("asan_registry"), A2, Calling)
      BY <3>2, <1>2, LockRuns
    <3>6. A2 \cup {"asan_argretval"} = AsanHeld
      BY <2>2 DEF AsanHeld
    <3> HIDE DEF A1, A2
    <3>7. Runs(A1, Lock("asan_registry") \o Lock("asan_argretval"),
               A2 \cup {"asan_argretval"}, Calling)
      BY <3>3, <3>4, <3>5, <1>2, ThenLock
    <3> QED
      BY <3>6, <3>7, <2>2
  <2> QED
    BY <2>1, <2>2
<1> HIDE DEF rest, A1
<1>5. Runs({}, Lock("lsan_global") \o rest, AsanHeld, Calling)
  BY <1>3, <1>4, RunsConcat
<1> QED
  BY <1>5 DEF AsanForkBefore, rest

LEMMA AsanForkAfterRuns ==
  ASSUME NEW acts, Plain \subseteq acts
  PROVE  Runs(HookHeld, AsanForkAfter, IF ContainsTsan THEN TsanHeld ELSE {}, acts)
<1> DEFINE rest == IF ContainsTsan THEN <<>>
                   ELSE Unlock("asan_argretval") \o Unlock("asan_registry")
           B == IF ContainsTsan THEN TsanHeld ELSE {}
           A1 == B \cup {"lsan_global"}
<1>1. {"lsan_global", "asan_registry", "asan_argretval"} \subseteq Mutexes
  BY UsableNames, UsableMutexes
<1>2. B \in SUBSET Mutexes /\ "lsan_global" \notin B /\ "asan_argretval" \notin B
  BY TsanFacts, UsableMutexes
<1>3. A1 \in SUBSET Mutexes /\ "unlock" \in acts
  BY <1>1, <1>2 DEF Plain
<1>4. Runs(HookHeld, rest, A1, acts)
  <2>1. CASE ContainsTsan
    <3>1. HookHeld = A1
      BY <2>1 DEF HookHeld, AsanHeld
    <3> QED
      BY <3>1, <2>1, <1>3, RunsEmpty
  <2>2. CASE ~ContainsTsan
    <3> DEFINE A0 == {"lsan_global", "asan_registry", "asan_argretval"}
               A2 == A0 \ {"asan_argretval"}
    <3>1. HookHeld = A0 /\ A1 = A2 \ {"asan_registry"}
      BY <2>2 DEF HookHeld, AsanHeld
    <3>2. MayFree(A0, "asan_argretval") /\ MayFree(A2, "asan_registry")
      BY FreeAnyOrder
    <3>3. A0 \in SUBSET Mutexes /\ A2 \in SUBSET Mutexes
      BY <1>1
    <3> HIDE DEF A0, A1
    <3>4. Runs(A0, Unlock("asan_argretval"), A2, acts)
      BY <3>2, <3>3, <1>3, UnlockRuns
    <3> HIDE DEF A2
    <3>5. Runs(A0, Unlock("asan_argretval") \o Unlock("asan_registry"),
               A2 \ {"asan_registry"}, acts)
      BY <3>2, <3>3, <3>4, <1>3, ThenUnlock
    <3> QED
      BY <3>1, <3>5, <2>2
  <2> QED
    BY <2>1, <2>2
<1>5. MayFree(A1, "lsan_global") /\ A1 \ {"lsan_global"} = B
  BY <1>2, FreeAnyOrder
<1> HIDE DEF rest, A1, B
<1>6. Runs(HookHeld, rest \o Unlock("lsan_global"), A1 \ {"lsan_global"}, acts)
  BY <1>3, <1>4, <1>5, ThenUnlock
<1> QED
  BY <1>5, <1>6 DEF AsanForkAfter, rest, B

\* The set that fork is called with, by the order in which its mutexes are taken.
LEMMA ForkHeldSets ==
  /\ HookHeld \in SUBSET Mutexes
  /\ HookHeld \cap SharedHeld = {}
  /\ "bucket" \notin HookHeld \cup SharedHeld
  /\ {"argretval", "allocator", "fallback", "depot"} \subseteq Usable
  /\ ForkHeld("fork") = HookHeld \cup SharedHeld
<1>1. AsanHeld \subseteq Usable
  BY UsableNames DEF AsanHeld
<1>2. CASE ContainsTsan
  <2>1. HookHeld = {"lsan_global"} \cup TsanHeld
    BY <1>2 DEF HookHeld, AsanHeld
  <2> QED
    BY <2>1, <1>2, TsanFacts, UsableNames, UsableMutexes
       DEF SharedHeld, ForkHeld, HookHeld
<1>3. CASE ~ContainsTsan
  <2>1. HookHeld = {"lsan_global", "asan_registry", "asan_argretval"}
    BY <1>3 DEF HookHeld, AsanHeld
  <2> QED
    BY <2>1, UsableNames, UsableMutexes DEF SharedHeld, ForkHeld, HookHeld
<1> QED
  BY <1>2, <1>3

\* The ranks of what TSan's handler takes lie below those of what is taken next.
LEMMA HookRanks ==
  ASSUME ContainsTsan, NEW m \in HookHeld
  PROVE  /\ Rank(m) < Rank("argretval") /\ Rank(m) < Rank("allocator")
         /\ Rank(m) < Rank("fallback") /\ Rank(m) < Rank("depot")
<1> DEFINE n == Cardinality(Threads)
<1>1. n \in Nat
  BY SlotsBijection
<1>2. /\ Rank("lsan_global") = -2 /\ Rank("global_proc") = -1
      /\ \A u \in Threads : Rank(u) \in 1 .. n
      /\ Rank("thread_registry") = n + 1 /\ Rank("slot_mtx") = n + 2
      /\ Rank("error_report") = n + 4 /\ Rank("internal_alloc") = n + 7
  BY Ranks
<1>3. /\ Rank("argretval") = n + 8 /\ Rank("allocator") = n + 9
      /\ Rank("fallback") = n + 9 /\ Rank("depot") = n + 12
  BY Ranks
<1> HIDE DEF n
<1>4. m \in {"lsan_global", "global_proc", "thread_registry", "slot_mtx",
             "error_report", "internal_alloc"} \cup Threads
  BY DEF HookHeld, AsanHeld, TsanHeld
<1>5. Rank(m) \in Int /\ Rank(m) < n + 8
  BY <1>1, <1>2, <1>4
<1> QED
  BY <1>1, <1>3, <1>5

LEMMA BeforeForkRuns ==
  ASSUME NEW t \in Threads
  PROVE  Runs({}, BeforeFork(t), ForkHeld("fork"), Calling)
<1> DEFINE A1 == HookHeld \cup {"argretval"}
           A2 == A1 \cup {"allocator"}
           A3 == A2 \cup {"fallback"}
           A4 == A3 \cup {"depot"}
           s1 == AsanForkBefore \o Tsan(ForkBefore(t))
           s2 == s1 \o Lock("argretval")
           s3 == s2 \o Lock("allocator")
           s4 == s3 \o Lock("fallback")
<1>1. "lock" \in Calling
  BY DEF Calling, Plain
<1>2. Runs(AsanHeld, Tsan(ForkBefore(t)), HookHeld, Calling)
  <2>1. CASE ContainsTsan
    <3>1. AsanHeld = {"lsan_global"}
      BY <2>1 DEF AsanHeld
    <3>2. Runs(AsanHeld, ForkBefore(t), AsanHeld \cup TsanHeld, Calling)
      BY <2>1, <3>1, ForkBeforeRuns
    <3> QED
      BY <3>2, <2>1 DEF Tsan, HookHeld
  <2>2. CASE ~ContainsTsan
    <3>1. HookHeld = AsanHeld
      BY <2>2 DEF HookHeld
    <3> QED
      BY <3>1, <2>2, ForkHeldSets, RunsEmpty DEF Tsan
  <2> QED
    BY <2>1, <2>2
<1>3. Runs({}, s1, HookHeld, Calling)
  BY <1>2, AsanForkBeforeRuns, RunsConcat
<1>4. /\ HookHeld \in SUBSET Mutexes /\ A1 \in SUBSET Mutexes
      /\ A2 \in SUBSET Mutexes /\ A3 \in SUBSET Mutexes /\ A4 \in SUBSET Mutexes
  BY ForkHeldSets, UsableMutexes
<1>5. /\ "argretval" \notin HookHeld /\ "allocator" \notin A1
      /\ "fallback" \notin A2 /\ "depot" \notin A3
  BY ForkHeldSets DEF SharedHeld
<1>6. Ordered => {"lsan_global", "global_proc"} \subseteq HookHeld
  BY DEF Ordered, HookHeld, AsanHeld, TsanHeld
<1>7. /\ Rank("argretval") < Rank("allocator") /\ Rank("argretval") < Rank("fallback")
      /\ Rank("argretval") < Rank("depot") /\ Rank("allocator") < Rank("depot")
      /\ Rank("fallback") < Rank("depot")
  <2> DEFINE n == Cardinality(Threads)
  <2>1. n \in Nat
    BY SlotsBijection
  <2> HIDE DEF n
  <2> QED
    BY <2>1, Ranks DEF n
<1>8. Ordered => \A m \in HookHeld :
                   /\ Rank(m) < Rank("argretval") /\ Rank(m) < Rank("allocator")
                   /\ Rank(m) < Rank("fallback") /\ Rank(m) < Rank("depot")
  BY HookRanks DEF Ordered
<1>9. Ordered => InOrder(HookHeld, "argretval")
  BY <1>8 DEF InOrder
<1>10. Ordered => InOrder(A1, "allocator")
  BY <1>7, <1>8 DEF InOrder
<1>11. Ordered => InOrder(A2, "fallback")
  BY <1>6, <1>7, <1>8 DEF InOrder
<1>12. Ordered => InOrder(A3, "depot")
  BY <1>7, <1>8 DEF InOrder
<1>13. MayTake(HookHeld, "argretval", Calling)
  BY <1>5, <1>9, ForkHeldSets, NoNeeds DEF MayTake
<1>14. MayTake(A1, "allocator", Calling)
  BY <1>5, <1>6, <1>10, ForkHeldSets, NoNeeds DEF MayTake
<1>15. MayTake(A2, "fallback", Calling)
  BY <1>5, <1>6, <1>11, ForkHeldSets, NoNeeds DEF MayTake
<1>16. MayTake(A3, "depot", Calling)
  BY <1>5, <1>12, ForkHeldSets, NoNeeds DEF MayTake
<1>17. A4 = ForkHeld("fork")
  BY ForkHeldSets DEF SharedHeld
<1>18. BeforeFork(t) = s4 \o Lock("depot")
  BY DEF BeforeFork
<1> HIDE DEF s1
<1>19. Runs({}, s2, A1, Calling)
  BY <1>1, <1>3, <1>4, <1>13, ThenLock
<1> HIDE DEF s2, A1
<1>20. Runs({}, s3, A2, Calling)
  BY <1>1, <1>4, <1>14, <1>19, ThenLock
<1> HIDE DEF s3, A2
<1>21. Runs({}, s4, A3, Calling)
  BY <1>1, <1>4, <1>15, <1>20, ThenLock
<1> HIDE DEF s4, A3
<1>22. Runs({}, s4 \o Lock("depot"), A4, Calling)
  BY <1>1, <1>4, <1>16, <1>21, ThenLock
<1> QED
  BY <1>17, <1>18, <1>22

\* The child also empties the buckets of their owners.
LEMMA ClearRuns ==
  ASSUME NEW A \in SUBSET Mutexes, "bucket" \notin A
  PROVE  Runs(A, <<<<"clear", "bucket">>>>, A, Clearing)
<1> DEFINE e == <<"clear", "bucket">>
<1>1. "bucket" \in Mutexes
  BY UsableNames, UsableMutexes
<1>2. e \in Event /\ e[1] = "clear" /\ e[2] = "bucket"
  BY <1>1, MutexEvents
<1> HIDE DEF e
<1>3. Effect(A, e, A, Clearing)
  BY <1>2 DEF Effect, Clearing
<1>4. Runs(A, <<e>>, A, Clearing)
  BY <1>2, <1>3, RunsOne
<1> QED
  BY <1>4 DEF e

LEMMA AfterForkRuns ==
  ASSUME NEW t \in Threads, NEW fork_child \in BOOLEAN
  PROVE  Runs(ForkHeld("fork"), AfterFork(t, fork_child), {},
              IF fork_child THEN Clearing ELSE Calling)
<1> DEFINE acts == IF fork_child THEN Clearing ELSE Calling
           clear == IF fork_child THEN <<<<"clear", "bucket">>>> ELSE <<>>
           tsan == IF fork_child THEN ForkChildAfter(t) ELSE ForkParentAfter(t)
           A1 == ForkHeld("fork") \ {"depot"}
           A2 == A1 \ {"fallback"}
           A3 == A2 \ {"allocator"}
           A4 == A3 \ {"argretval"}
           B == IF ContainsTsan THEN TsanHeld ELSE {}
           s1 == Unlock("depot")
           s2 == s1 \o clear
           s3 == s2 \o Unlock("fallback")
           s4 == s3 \o Unlock("allocator")
           s5 == s4 \o Unlock("argretval")
           s6 == s5 \o AsanForkAfter
<1>1. Plain \subseteq acts /\ "unlock" \in acts
  BY DEF Plain, Calling, Clearing
<1>2. /\ ForkHeld("fork") \in SUBSET Mutexes /\ A1 \in SUBSET Mutexes
      /\ A2 \in SUBSET Mutexes /\ A3 \in SUBSET Mutexes /\ A4 \in SUBSET Mutexes
      /\ "bucket" \notin A1
  BY ForkHeldSets, UsableMutexes DEF SharedHeld
<1>3. /\ MayFree(ForkHeld("fork"), "depot") /\ MayFree(A1, "fallback")
      /\ MayFree(A2, "allocator") /\ MayFree(A3, "argretval")
  BY ForkHeldSets, FreeAnyOrder DEF SharedHeld
<1>4. A4 = HookHeld
  BY ForkHeldSets DEF SharedHeld
<1>5. AfterFork(t, fork_child) = s6 \o Tsan(tsan)
  BY DEF AfterFork
<1>6. Runs(A1, clear, A1, acts)
  BY <1>2, ClearRuns, RunsEmpty
<1>7. Runs(B, Tsan(tsan), {}, acts)
  <2>1. CASE ContainsTsan
    <3>1. Runs(TsanHeld, tsan, {}, acts)
      BY <2>1, <1>1, ForkAfterRuns, ForkChildAfterRuns DEF ForkParentAfter
    <3> QED
      BY <3>1, <2>1 DEF Tsan
  <2>2. CASE ~ContainsTsan
    <3>1. Runs({}, <<>>, {}, acts)
      BY RunsEmpty
    <3> QED
      BY <3>1, <2>2 DEF Tsan
  <2> QED
    BY <2>1, <2>2
<1>8. Runs(HookHeld, AsanForkAfter, B, acts)
  BY <1>1, AsanForkAfterRuns
<1> HIDE DEF acts, clear, tsan, B
<1>9. Runs(ForkHeld("fork"), s1, A1, acts)
  BY <1>1, <1>2, <1>3, UnlockRuns
<1> HIDE DEF s1, A1
<1>10. Runs(ForkHeld("fork"), s2, A1, acts)
  BY <1>6, <1>9, RunsConcat
<1> HIDE DEF s2
<1>11. Runs(ForkHeld("fork"), s3, A2, acts)
  BY <1>1, <1>2, <1>3, <1>10, ThenUnlock
<1> HIDE DEF s3, A2
<1>12. Runs(ForkHeld("fork"), s4, A3, acts)
  BY <1>1, <1>2, <1>3, <1>11, ThenUnlock
<1> HIDE DEF s4, A3
<1>13. Runs(ForkHeld("fork"), s5, A4, acts)
  BY <1>1, <1>2, <1>3, <1>12, ThenUnlock
<1> HIDE DEF s5
<1>14. Runs(ForkHeld("fork"), s6, B, acts)
  BY <1>4, <1>8, <1>13, RunsConcat
<1> HIDE DEF s6
<1>15. Runs(ForkHeld("fork"), s6 \o Tsan(tsan), {}, acts)
  BY <1>7, <1>14, RunsConcat
<1> QED
  BY <1>5, <1>15 DEF acts

LEMMA CallRuns ==
  ASSUME NEW call, call = "fork" \/ (call = "clone" /\ ContainsTsan)
  PROVE  Runs(ForkHeld(call), <<<<"fork", call>>>>, ForkHeld(call), Calling)
<1> DEFINE e == <<"fork", call>>
<1>1. e \in Event /\ e[1] = "fork" /\ e[2] = call
  BY DEF Event, Plain
<1> HIDE DEF e
<1>2. ForkHeld(call) \in SUBSET Mutexes
  <2>1. CASE call = "fork"
    BY <2>1, ForkHeldSets, UsableMutexes DEF SharedHeld
  <2>2. CASE call = "clone" /\ ContainsTsan
    BY <2>2, TsanFacts, UsableMutexes DEF ForkHeld
  <2> QED
    BY <2>1, <2>2
<1>3. Effect(ForkHeld(call), e, ForkHeld(call), Calling)
  BY <1>1 DEF Effect, Calling
<1>4. Runs(ForkHeld(call), <<e>>, ForkHeld(call), Calling)
  BY <1>1, <1>2, <1>3, RunsOne
<1> QED
  BY <1>4 DEF e

\* Every operation gives back what it takes.
LEMMA CodesRun ==
  ASSUME NEW t \in Threads, NEW op \in Operations,
         op \in TsanOnly => ContainsTsan, NEW c \in Codes(op, t)
  PROVE  \/ op \notin {"fork", "clone"} /\ Runs({}, c, {}, Plain)
         \/ op \in {"fork", "clone"} /\ Runs({}, c, {}, Calling)
<1>1. op \in OperationNames
  BY ForkAssumption
<1>2. CASE op = "malloc"
  BY <1>2, MallocStays DEF Codes, Stays
<1>3. CASE op = "free"
  BY <1>3, DeallocateStays DEF Codes, Stays
<1>4. CASE op = "late free"
  BY <1>4, LateFreeStays DEF Codes, Stays
<1>5. CASE op = "create"
  BY <1>5, PthreadCreateStays DEF Codes, Stays
<1>6. CASE op = "begin"
  BY <1>6, ThreadStartStays DEF Codes, Stays
<1>7. CASE op = "end"
  BY <1>7, ThreadEndStays DEF Codes, Stays
<1>8. CASE op = "join"
  BY <1>8, PthreadJoinStays DEF Codes, Stays
<1>9. CASE op = "detach"
  BY <1>9, PthreadDetachStays DEF Codes, Stays
<1>10. CASE op = "race"
  <2>1. ContainsTsan
    BY <1>10 DEF TsanOnly
  <2>2. PICK u \in Threads : c = ReportRace(u)
    BY <1>10 DEF Codes
  <2> QED
    BY <1>10, <2>1, <2>2, ReportRaceStays DEF Stays
<1>11. CASE op = "error"
  BY <1>11, ReportErrorStays DEF Codes, Stays
<1>12. CASE op = "leaks"
  BY <1>12, LeakCheckStays DEF Codes, Stays
<1>13. CASE op = "atexit"
  BY <1>13, AtExitStays DEF Codes, Stays
<1>14. CASE op = "reset"
  BY <1>14, DoResetStays DEF Codes, Stays, TsanOnly
<1>15. CASE op = "purge"
  BY <1>15, PurgeStays DEF Codes, Stays, Ordered
<1>16. CASE op = "fork"
  <2>1. c = (BeforeFork(t) \o <<<<"fork", "fork">>>>) \o AfterFork(t, FALSE)
    BY <1>16 DEF Codes
  <2>2. Runs({}, BeforeFork(t) \o <<<<"fork", "fork">>>>, ForkHeld("fork"), Calling)
    <3>1. Runs({}, BeforeFork(t), ForkHeld("fork"), Calling)
      BY BeforeForkRuns
    <3>2. Runs(ForkHeld("fork"), <<<<"fork", "fork">>>>, ForkHeld("fork"), Calling)
      BY CallRuns
    <3> QED
      BY <3>1, <3>2, RunsConcat
  <2>3. Runs(ForkHeld("fork"), AfterFork(t, FALSE), {}, Calling)
    BY AfterForkRuns
  <2> HIDE DEF ForkHeld
  <2> QED
    BY <1>16, <2>1, <2>2, <2>3, RunsConcat
<1>17. CASE op = "clone"
  <2>1. c = (ForkBefore(t) \o <<<<"fork", "clone">>>>) \o ForkParentAfter(t)
    BY <1>17 DEF Codes
  <2>2. ContainsTsan
    BY <1>17 DEF TsanOnly
  <2>3. ForkHeld("clone") = TsanHeld /\ {} \cup TsanHeld = TsanHeld
    BY DEF ForkHeld
  <2>4. Runs({}, ForkBefore(t), ForkHeld("clone"), Calling)
    BY <2>2, <2>3, ForkBeforeRuns
  <2>5. Runs({}, ForkBefore(t) \o <<<<"fork", "clone">>>>, ForkHeld("clone"), Calling)
    BY <2>2, <2>4, CallRuns, RunsConcat
  <2>6. Runs(ForkHeld("clone"), ForkParentAfter(t), {}, Calling)
    BY <2>2, <2>3, ForkAfterRuns DEF ForkParentAfter, Calling
  <2> QED
    BY <1>17, <2>1, <2>5, <2>6, RunsConcat
<1> QED
  BY <1>1, <1>2, <1>3, <1>4, <1>5, <1>6, <1>7, <1>8, <1>9, <1>10, <1>11,
     <1>12, <1>13, <1>14, <1>15, <1>16, <1>17 DEF OperationNames

-----------------------------------------------------------------------------
(* The mutexes that a sequence empties of other owners.                     *)

Clears(s) == {s[i][2] : i \in {j \in DOMAIN s : s[j][1] = "clear"}}

LEMMA ClearsTail ==
  ASSUME NEW s \in Seq(Event), s # <<>>, NEW x \in Clears(s)
  PROVE  x \in Clears(Tail(s)) \/ (Head(s)[1] = "clear" /\ x = Head(s)[2])
<1>1. PICK j \in DOMAIN s : s[j][1] = "clear" /\ x = s[j][2]
  BY DEF Clears
<1>2. /\ Len(s) \in Nat \ {0} /\ DOMAIN s = 1 .. Len(s) /\ Head(s) = s[1]
  BY EmptySeq, LenProperties
<1>3. /\ Tail(s) \in Seq(Event) /\ Len(Tail(s)) = Len(s) - 1
      /\ \A i \in 1 .. Len(Tail(s)) : Tail(s)[i] = s[i + 1]
  BY HeadTailProperties
<1>4. DOMAIN Tail(s) = 1 .. Len(Tail(s))
  BY <1>3, LenProperties
<1>5. CASE j = 1
  BY <1>1, <1>2, <1>5
<1>6. CASE j # 1
  <2>1. j - 1 \in 1 .. Len(s) - 1 /\ (j - 1) + 1 = j
    BY <1>1, <1>2, <1>6
  <2>2. j - 1 \in DOMAIN Tail(s) /\ Tail(s)[j - 1] = s[j]
    BY <2>1, <1>3, <1>4
  <2> QED
    BY <2>2, <1>1 DEF Clears
<1> QED
  BY <1>5, <1>6

LEMMA ClearsConcat ==
  ASSUME NEW s \in Seq(Event), NEW r \in Seq(Event)
  PROVE  s \o r \in Seq(Event) /\ Clears(s) \subseteq Clears(s \o r)
<1>1. /\ s \o r \in Seq(Event) /\ Len(s \o r) = Len(s) + Len(r)
      /\ \A i \in 1 .. Len(s) + Len(r) :
           (s \o r)[i] = IF i <= Len(s) THEN s[i] ELSE r[i - Len(s)]
  BY ConcatProperties
<1>2. /\ Len(s) \in Nat /\ Len(r) \in Nat /\ DOMAIN s = 1 .. Len(s)
      /\ DOMAIN (s \o r) = 1 .. Len(s \o r)
  BY <1>1, LenProperties
<1>3. ASSUME NEW j \in DOMAIN s
      PROVE  j \in DOMAIN (s \o r) /\ (s \o r)[j] = s[j]
  BY <1>1, <1>2
<1> QED
  BY <1>1, <1>3 DEF Clears

LEMMA AfterForkClears ==
  ASSUME NEW t \in Threads PROVE "bucket" \in Clears(AfterFork(t, TRUE))
<1> DEFINE s1 == Unlock("depot") \o <<<<"clear", "bucket">>>>
           s2 == s1 \o Unlock("fallback")
           s3 == s2 \o Unlock("allocator")
           s4 == s3 \o Unlock("argretval")
           s5 == s4 \o AsanForkAfter
           tsan == Tsan(ForkChildAfter(t))
<1>1. {"depot", "bucket", "fallback", "allocator", "argretval"} \subseteq Mutexes
  BY UsableNames, UsableMutexes
<1>2. \A l \in Mutexes : Unlock(l) \in Seq(Event)
  <2>1. ASSUME NEW l \in Mutexes PROVE Unlock(l) \in Seq(Event)
    <3> DEFINE e == <<"unlock", l>>
    <3>1. e \in Event
      BY MutexEvents
    <3> HIDE DEF e
    <3>2. <<e>> \in Seq(Event)
      BY <3>1
    <3> QED
      BY <3>2 DEF Unlock, e
  <2> QED
    BY <2>1
<1>3. s1 \in Seq(Event) /\ "bucket" \in Clears(s1)
  <2> DEFINE e == <<"clear", "bucket">>
             u == Unlock("depot")
  <2>1. e \in Event /\ e[1] = "clear" /\ e[2] = "bucket"
    BY <1>1, MutexEvents
  <2> HIDE DEF e
  <2>2. u \in Seq(Event) /\ Len(u) = 1
    <3>1. u = <<<<"unlock", "depot">>>>
      BY DEF Unlock
    <3>2. \A x : Len(<<x>>) = 1
      OBVIOUS
    <3> QED
      BY <3>1, <3>2, <1>1, <1>2
  <2>3. <<e>> \in Seq(Event) /\ Len(<<e>>) = 1 /\ <<e>>[1] = e
    BY <2>1
  <2> HIDE DEF u
  <2>4. /\ u \o <<e>> \in Seq(Event)
        /\ Len(u \o <<e>>) = 2
        /\ (u \o <<e>>)[2] = e
    <3>1. /\ u \o <<e>> \in Seq(Event)
          /\ Len(u \o <<e>>) = Len(u) + Len(<<e>>)
          /\ \A i \in 1 .. Len(u) + Len(<<e>>) :
               (u \o <<e>>)[i] = IF i <= Len(u) THEN u[i] ELSE <<e>>[i - Len(u)]
      BY <2>2, <2>3, ConcatProperties
    <3> QED
      BY <3>1, <2>2, <2>3
  <2>5. DOMAIN (u \o <<e>>) = 1 .. 2
    BY <2>4, LenProperties
  <2>6. s1 = u \o <<e>>
    BY DEF u, e
  <2> HIDE DEF s1
  <2>7. 2 \in {j \in DOMAIN s1 : s1[j][1] = "clear"} /\ s1[2][2] = "bucket"
    BY <2>1, <2>4, <2>5, <2>6
  <2> QED
    BY <2>4, <2>6, <2>7 DEF Clears
<1>4. AsanForkAfter \in Seq(Event)
  BY AsanForkAfterRuns DEF Runs
<1>5. tsan \in Seq(Event)
  <2>1. ContainsTsan => ForkChildAfter(t) \in Seq(Event)
    BY ForkChildAfterRuns DEF Runs
  <2> QED
    BY <2>1, EmptySeq DEF Tsan
<1>6. AfterFork(t, TRUE) = s5 \o tsan
  BY DEF AfterFork
<1> HIDE DEF s1, tsan
<1>7. s2 \in Seq(Event) /\ "bucket" \in Clears(s2)
  BY <1>1, <1>2, <1>3, ClearsConcat
<1> HIDE DEF s2
<1>8. s3 \in Seq(Event) /\ "bucket" \in Clears(s3)
  BY <1>1, <1>2, <1>7, ClearsConcat
<1> HIDE DEF s3
<1>9. s4 \in Seq(Event) /\ "bucket" \in Clears(s4)
  BY <1>1, <1>2, <1>8, ClearsConcat
<1> HIDE DEF s4
<1>10. s5 \in Seq(Event) /\ "bucket" \in Clears(s5)
  BY <1>4, <1>9, ClearsConcat
<1> HIDE DEF s5
<1> QED
  BY <1>5, <1>6, <1>10, ClearsConcat

-----------------------------------------------------------------------------
(* The invariant: what a thread has left to do takes what it holds to none. *)

Held(t) == {l \in Mutexes : owner[l] = t}

Types ==
  /\ owner \in [Mutexes -> Threads \cup {NoOne}]
  /\ todo \in [Threads -> Seq(Event)]
  /\ child \in Threads \cup {NoOne}

Finishes(t) ==
  \E acts \in {Plain, IF InChild THEN Clearing ELSE Calling} :
    Runs(Held(t), todo[t], {}, acts)

RunInv == \A t \in Present : Nested(Held(t)) /\ Finishes(t)

ForkInv == Types /\ RunInv /\ ChildInheritsNoMutex

LEMMA PresentThreads ==
  Types => Present \subseteq Threads /\ NoOne \notin Threads
BY ForkAssumption DEF Types, Present, InChild

\* Who is there does not change but by fork in the child.
LEMMA PresentKept == child' = child => Present' = Present /\ InChild' = InChild
BY DEF Present, InChild

\* The act that t is at, and how it goes on.
LEMMA NextAct ==
  ASSUME Types, RunInv, NEW t \in Present, todo[t] # <<>>
  PROVE  /\ todo[t] \in Seq(Event) /\ Next(t) \in Event
         /\ \E acts \in {Plain, IF InChild THEN Clearing ELSE Calling} : \E B :
              /\ Effect(Held(t), Next(t), B, acts)
              /\ Runs(B, Tail(todo[t]), {}, acts)
<1>1. todo[t] \in Seq(Event)
  BY PresentThreads DEF Types
<1>2. PICK acts \in {Plain, IF InChild THEN Clearing ELSE Calling} :
        Runs(Held(t), todo[t], {}, acts)
  BY DEF RunInv, Finishes
<1>3. /\ Head(todo[t]) \in Event
      /\ \E B : Effect(Held(t), Head(todo[t]), B, acts)
                /\ Runs(B, Tail(todo[t]), {}, acts)
  BY <1>2, RunsStep
<1> QED
  BY <1>1, <1>3 DEF Next

LEMMA NestedKept ==
  ASSUME NEW A, NEW e, NEW B, NEW acts, Nested(A), Effect(A, e, B, acts),
         e[1] \in {"lock", "unlock", "ignore", "clear", "fork"}
  PROVE  Nested(B)
<1>1. CASE e[1] = "lock"
  <2>1. MayTake(A, e[2], acts) /\ B = A \cup {e[2]}
    BY <1>1 DEF Effect
  <2>2. e[2] \in Usable /\ Needs(e[2]) \subseteq A
    BY <2>1 DEF MayTake
  <2> QED
    BY <2>1, <2>2 DEF Nested
<1>2. CASE e[1] = "unlock"
  <2>1. MayFree(A, e[2]) /\ B = A \ {e[2]}
    BY <1>2 DEF Effect
  <2>2. \A m \in A : e[2] \notin Needs(m)
    BY <2>1 DEF MayFree
  <2> QED
    BY <2>1, <2>2 DEF Nested
<1>3. CASE e[1] \in {"ignore", "clear", "fork"}
  BY <1>3 DEF Effect
<1> QED
  BY <1>1, <1>2, <1>3

LEMMA EventActs ==
  ASSUME NEW e \in Event
  PROVE  e[1] \in {"lock", "unlock", "ignore", "clear", "fork"}
BY DEF Event, Plain

\* A step of t that takes what it holds from Held(t) to B, and leaves the others'.
LEMMA StepKeepsRuns ==
  ASSUME Types, RunInv, NEW t \in Present, child' = child, NEW s \in Seq(Event),
         todo' = [todo EXCEPT ![t] = s],
         Nested(Held(t)'), Finishes(t)',
         \A u \in Present \ {t} : Held(u)' = Held(u)
  PROVE  RunInv' /\ todo' \in [Threads -> Seq(Event)]
<1>1. t \in Threads /\ Present' = Present /\ Present \subseteq Threads
      /\ InChild' = InChild
  BY PresentThreads, PresentKept
<1>2. todo' \in [Threads -> Seq(Event)]
  BY <1>1 DEF Types
<1>3. ASSUME NEW u \in Present PROVE Nested(Held(u)') /\ Finishes(u)'
  <2>1. CASE u = t
    BY <2>1
  <2>2. CASE u # t
    <3>1. Held(u)' = Held(u) /\ todo'[u] = todo[u]
      BY <1>1, <2>2 DEF Types
    <3>2. Nested(Held(u)) /\ Finishes(u)
      BY DEF RunInv
    <3> QED
      BY <3>1, <3>2, <1>1 DEF Finishes
  <2> QED
    BY <2>1, <2>2
<1> QED
  BY <1>1, <1>2, <1>3 DEF RunInv

\* In the child, a step takes no mutex for another thread, and forgets to clear none.
LEMMA StepKeepsChild ==
  ASSUME Types, ChildInheritsNoMutex, NEW t \in Present, child' = child, how' = how,
         \A l \in Mutexes : owner'[l] = owner[l] \/ owner'[l] \in {NoOne, t},
         InChild => \A x \in Clears(todo[t]) :
                      x \in Clears(todo'[t]) \/ owner'[x] = NoOne
  PROVE  ChildInheritsNoMutex'
<1> SUFFICES ASSUME InChild', NEW l \in Mutexes, owner'[l] \notin {NoOne, child'}
             PROVE  l \in Unhandled' \cup ToClear(child)'
  BY DEF ChildInheritsNoMutex
<1>1. InChild /\ t = child
  BY PresentKept DEF Present, InChild
<1>2. owner[l] \notin {NoOne, child}
  BY <1>1
<1>3. l \in Unhandled \cup ToClear(child)
  BY <1>1, <1>2 DEF ChildInheritsNoMutex
<1>4. Unhandled' = Unhandled
  BY DEF Unhandled
<1>5. ToClear(child) = Clears(todo[t]) /\ ToClear(child)' = Clears(todo'[t])
  BY <1>1 DEF ToClear, Clears
<1> QED
  BY <1>1, <1>3, <1>4, <1>5

LEMMA InitForkInv == Init => ForkInv
<1> SUFFICES ASSUME Init PROVE ForkInv
  OBVIOUS
<1>1. ~InChild /\ Present = Threads /\ NoOne \notin Threads
  BY ForkAssumption DEF Init, InChild, Present
<1>2. Types
  BY EmptySeq DEF Init, Types
<1>3. ASSUME NEW t \in Threads PROVE Nested(Held(t)) /\ Finishes(t)
  <2>1. Held(t) = {}
    BY <1>1 DEF Init, Held
  <2>2. todo[t] = <<>>
    BY DEF Init
  <2>3. Runs({}, <<>>, {}, Plain)
    BY RunsEmpty
  <2> QED
    BY <2>1, <2>2, <2>3, NestedNone DEF Finishes
<1> QED
  BY <1>1, <1>2, <1>3 DEF ForkInv, RunInv, ChildInheritsNoMutex

\* A thread between two operations holds nothing.
LEMMA IdleHoldsNothing ==
  ASSUME RunInv, NEW t \in Present, todo[t] = <<>> PROVE Held(t) = {}
BY RunsDone DEF RunInv, Finishes

LEMMA BeginForkInv ==
  ASSUME ForkInv, NEW t \in Present, Begin(t) PROVE ForkInv'
<1>1. Types /\ RunInv /\ ChildInheritsNoMutex /\ t \in Threads
  BY PresentThreads DEF ForkInv
<1>2. /\ todo[t] = <<>> /\ UNCHANGED <<owner, child, how>>
  BY DEF Begin
<1>3. PICK op \in Operations \ (IF ContainsTsan THEN {} ELSE TsanOnly) :
        /\ op \in {"fork", "clone"} => ~InChild
        /\ \E c \in Codes(op, t) : todo' = [todo EXCEPT ![t] = c]
  BY DEF Begin
<1>4. PICK c \in Codes(op, t) : todo' = [todo EXCEPT ![t] = c]
  BY <1>3
<1>5. Held(t) = {}
  BY <1>1, <1>2, IdleHoldsNothing
<1>6. \A u \in Threads : Held(u)' = Held(u)
  BY <1>2 DEF Held
<1>7. InChild' = InChild /\ todo'[t] = c
  BY <1>1, <1>2, <1>4, PresentKept DEF Types
<1>8. \/ op \notin {"fork", "clone"} /\ Runs({}, c, {}, Plain)
      \/ op \in {"fork", "clone"} /\ Runs({}, c, {}, Calling)
  <2>1. op \in Operations /\ (op \in TsanOnly => ContainsTsan)
    BY <1>3
  <2> QED
    BY <2>1, <1>1, CodesRun
<1>9. c \in Seq(Event)
  BY <1>8 DEF Runs
<1>10. Finishes(t)'
  <2>1. Held(t)' = {}
    BY <1>1, <1>5, <1>6
  <2>2. \E acts \in {Plain, IF InChild' THEN Clearing ELSE Calling} :
          Runs(Held(t)', todo'[t], {}, acts)
    BY <2>1, <1>3, <1>7, <1>8
  <2> QED
    BY <2>2 DEF Finishes
<1>11. Nested(Held(t)')
  BY <1>1, <1>5, <1>6, NestedNone
<1>12. RunInv' /\ todo' \in [Threads -> Seq(Event)]
  BY <1>1, <1>2, <1>4, <1>6, <1>9, <1>10, <1>11, StepKeepsRuns, PresentThreads
<1>13. ChildInheritsNoMutex'
  <2>1. Clears(todo[t]) = {}
    BY <1>2 DEF Clears
  <2> QED
    BY <2>1, <1>1, <1>2, StepKeepsChild
<1> QED
  BY <1>1, <1>2, <1>12, <1>13 DEF ForkInv, Types

LEMMA AcquireForkInv ==
  ASSUME ForkInv, NEW t \in Present, Acquire(t) PROVE ForkInv'
<1>1. Types /\ RunInv /\ ChildInheritsNoMutex /\ t \in Threads /\ NoOne \notin Threads
  BY PresentThreads DEF ForkInv
<1> DEFINE l == Next(t)[2]
<1>2. /\ todo[t] # <<>> /\ Next(t)[1] = "lock" /\ owner[l] = NoOne
      /\ owner' = [owner EXCEPT ![l] = t]
      /\ todo' = [todo EXCEPT ![t] = Tail(todo[t])]
      /\ UNCHANGED <<child, how>>
  BY DEF Acquire, Does, Advance
<1>3. /\ todo[t] \in Seq(Event) /\ Next(t) \in Event
      /\ \E acts \in {Plain, IF InChild THEN Clearing ELSE Calling} : \E B :
           /\ Effect(Held(t), Next(t), B, acts)
           /\ Runs(B, Tail(todo[t]), {}, acts)
  BY <1>1, <1>2, NextAct
<1>4. PICK acts \in {Plain, IF InChild THEN Clearing ELSE Calling} : \E B :
           /\ Effect(Held(t), Next(t), B, acts)
           /\ Runs(B, Tail(todo[t]), {}, acts)
  BY <1>3
<1>5. PICK B : /\ Effect(Held(t), Next(t), B, acts)
               /\ Runs(B, Tail(todo[t]), {}, acts)
  BY <1>4
<1>6. MayTake(Held(t), l, acts) /\ B = Held(t) \cup {l}
  BY <1>2, <1>5 DEF Effect
<1>7. l \in Mutexes
  BY <1>6, UsableMutexes DEF MayTake
<1> HIDE DEF l
<1>8. owner' \in [Mutexes -> Threads \cup {NoOne}] /\ owner'[l] = t
      /\ \A k \in Mutexes \ {l} : owner'[k] = owner[k]
  BY <1>1, <1>2, <1>7 DEF Types
<1>9. Held(t)' = B
  BY <1>6, <1>7, <1>8 DEF Held
<1>10. \A u \in Threads \ {t} : Held(u)' = Held(u)
  BY <1>1, <1>2, <1>7, <1>8 DEF Held
<1>11. Nested(Held(t)')
  <2>1. Nested(Held(t))
    BY <1>1 DEF RunInv
  <2>2. Nested(B)
    BY <2>1, <1>2, <1>5, NestedKept
  <2> QED
    BY <2>2, <1>9
<1>12. InChild' = InChild /\ todo'[t] = Tail(todo[t])
  BY <1>1, <1>2, PresentKept DEF Types
<1>13. Finishes(t)'
  BY <1>5, <1>9, <1>12 DEF Finishes
<1>14. Tail(todo[t]) \in Seq(Event)
  BY <1>5 DEF Runs
<1>15. RunInv' /\ todo' \in [Threads -> Seq(Event)]
  BY <1>1, <1>2, <1>10, <1>11, <1>13, <1>14, StepKeepsRuns, PresentThreads
<1>16. ChildInheritsNoMutex'
  <2>1. \A x \in Clears(todo[t]) : x \in Clears(todo'[t])
    <3>1. Head(todo[t])[1] # "clear"
      BY <1>2 DEF Next
    <3> QED
      BY <3>1, <1>2, <1>3, <1>12, ClearsTail
  <2>2. \A k \in Mutexes : owner'[k] = owner[k] \/ owner'[k] \in {NoOne, t}
    BY <1>8
  <2> QED
    BY <2>1, <2>2, <1>1, <1>2, StepKeepsChild
<1> QED
  BY <1>1, <1>2, <1>8, <1>15, <1>16 DEF ForkInv, Types

LEMMA ReleaseForkInv ==
  ASSUME ForkInv, NEW t \in Present, Release(t) PROVE ForkInv'
<1>1. Types /\ RunInv /\ ChildInheritsNoMutex /\ t \in Threads /\ NoOne \notin Threads
  BY PresentThreads DEF ForkInv
<1> DEFINE l == Next(t)[2]
<1>2. /\ todo[t] # <<>> /\ Next(t)[1] \in {"unlock", "clear"}
      /\ owner' = [owner EXCEPT ![l] = NoOne]
      /\ todo' = [todo EXCEPT ![t] = Tail(todo[t])]
      /\ UNCHANGED <<child, how>>
  BY DEF Release, Does, Advance
<1>3. /\ todo[t] \in Seq(Event) /\ Next(t) \in Event
      /\ \E acts \in {Plain, IF InChild THEN Clearing ELSE Calling} : \E B :
           /\ Effect(Held(t), Next(t), B, acts)
           /\ Runs(B, Tail(todo[t]), {}, acts)
  BY <1>1, <1>2, NextAct
<1>4. PICK acts \in {Plain, IF InChild THEN Clearing ELSE Calling} : \E B :
           /\ Effect(Held(t), Next(t), B, acts)
           /\ Runs(B, Tail(todo[t]), {}, acts)
  BY <1>3
<1>5. PICK B : /\ Effect(Held(t), Next(t), B, acts)
               /\ Runs(B, Tail(todo[t]), {}, acts)
  BY <1>4
<1>6. \/ l \in Held(t) /\ B = Held(t) \ {l}
      \/ InChild /\ l = "bucket" /\ l \notin Held(t) /\ B = Held(t)
  <2>1. CASE Next(t)[1] = "unlock"
    BY <2>1, <1>5 DEF Effect, MayFree
  <2>2. CASE Next(t)[1] = "clear"
    <3>1. "clear" \in acts /\ l = "bucket" /\ "bucket" \notin Held(t) /\ B = Held(t)
      BY <2>2, <1>5 DEF Effect
    <3>2. InChild
      BY <3>1 DEF Plain, Calling
    <3> QED
      BY <3>1, <3>2
  <2> QED
    BY <2>1, <2>2, <1>2
<1>7. l \in Mutexes
  BY <1>6, UsableNames, UsableMutexes DEF Held
<1> HIDE DEF l
<1>8. owner' \in [Mutexes -> Threads \cup {NoOne}] /\ owner'[l] = NoOne
      /\ \A k \in Mutexes \ {l} : owner'[k] = owner[k]
  BY <1>1, <1>2, <1>7 DEF Types
<1>9. Held(t)' = B
  <2>1. Held(t)' = Held(t) \ {l}
    BY <1>1, <1>7, <1>8 DEF Held
  <2> QED
    BY <2>1, <1>6
<1>10. \A u \in Present \ {t} : Held(u)' = Held(u)
  <2>1. CASE l \in Held(t)
    BY <2>1, <1>1, <1>7, <1>8, PresentThreads DEF Held
  <2>2. CASE InChild
    BY <2>2 DEF Present
  <2> QED
    BY <2>1, <2>2, <1>6
<1>11. Nested(Held(t)')
  <2>1. Nested(Held(t))
    BY <1>1 DEF RunInv
  <2>2. Nested(B)
    BY <2>1, <1>2, <1>5, NestedKept
  <2> QED
    BY <2>2, <1>9
<1>12. InChild' = InChild /\ todo'[t] = Tail(todo[t])
  BY <1>1, <1>2, PresentKept DEF Types
<1>13. Finishes(t)'
  BY <1>5, <1>9, <1>12 DEF Finishes
<1>14. Tail(todo[t]) \in Seq(Event)
  BY <1>5 DEF Runs
<1>15. RunInv' /\ todo' \in [Threads -> Seq(Event)]
  BY <1>1, <1>2, <1>10, <1>11, <1>13, <1>14, StepKeepsRuns
<1>16. ChildInheritsNoMutex'
  <2>1. \A x \in Clears(todo[t]) : x \in Clears(todo'[t]) \/ owner'[x] = NoOne
    <3>1. \A x \in Clears(todo[t]) : x \in Clears(Tail(todo[t])) \/ x = Head(todo[t])[2]
      BY <1>2, <1>3, ClearsTail
    <3> QED
      BY <3>1, <1>8, <1>12 DEF Next, l
  <2>2. \A k \in Mutexes : owner'[k] = owner[k] \/ owner'[k] \in {NoOne, t}
    BY <1>8
  <2> QED
    BY <2>1, <2>2, <1>1, <1>2, StepKeepsChild
<1> QED
  BY <1>1, <1>2, <1>8, <1>15, <1>16 DEF ForkInv, Types

\* An act that takes and gives back nothing.
LEMMA AdvanceForkInv ==
  ASSUME ForkInv, NEW t \in Present, Does(t, "ignore") \/ Does(t, "fork"),
         Advance(t), UNCHANGED <<owner, child, how>>
  PROVE  ForkInv'
<1>1. Types /\ RunInv /\ ChildInheritsNoMutex /\ t \in Threads
  BY PresentThreads DEF ForkInv
<1>2. /\ todo[t] # <<>> /\ Next(t)[1] \in {"ignore", "fork"}
      /\ todo' = [todo EXCEPT ![t] = Tail(todo[t])]
  BY DEF Does, Advance
<1>3. /\ todo[t] \in Seq(Event) /\ Next(t) \in Event
      /\ \E acts \in {Plain, IF InChild THEN Clearing ELSE Calling} : \E B :
           /\ Effect(Held(t), Next(t), B, acts)
           /\ Runs(B, Tail(todo[t]), {}, acts)
  BY <1>1, <1>2, NextAct
<1>4. PICK acts \in {Plain, IF InChild THEN Clearing ELSE Calling} : \E B :
           /\ Effect(Held(t), Next(t), B, acts)
           /\ Runs(B, Tail(todo[t]), {}, acts)
  BY <1>3
<1>5. Runs(Held(t), Tail(todo[t]), {}, acts)
  BY <1>2, <1>4 DEF Effect
<1>6. \A u \in Threads : Held(u)' = Held(u)
  BY DEF Held
<1>7. InChild' = InChild /\ todo'[t] = Tail(todo[t])
  BY <1>1, <1>2, PresentKept DEF Types
<1>8. Finishes(t)'
  BY <1>1, <1>5, <1>6, <1>7 DEF Finishes
<1>9. Nested(Held(t)')
  BY <1>1, <1>6 DEF RunInv
<1>10. Tail(todo[t]) \in Seq(Event)
  BY <1>5 DEF Runs
<1>11. RunInv' /\ todo' \in [Threads -> Seq(Event)]
  BY <1>1, <1>2, <1>6, <1>8, <1>9, <1>10, StepKeepsRuns, PresentThreads
<1>12. ChildInheritsNoMutex'
  <2>1. \A x \in Clears(todo[t]) : x \in Clears(todo'[t])
    <3>1. Head(todo[t])[1] # "clear"
      BY <1>2 DEF Next
    <3> QED
      BY <3>1, <1>2, <1>3, <1>7, ClearsTail
  <2> QED
    BY <2>1, <1>1, StepKeepsChild
<1> QED
  BY <1>1, <1>11, <1>12 DEF ForkInv, Types

\* The others hold none of the mutexes that fork is called with, nor one that
\* is taken under these: the child is left with those that no handler takes.
LEMMA ForkInChildForkInv ==
  ASSUME ForkInv, NEW t \in Present, ForkInChild(t) PROVE ForkInv'
<1>1. Types /\ RunInv /\ t \in Threads /\ NoOne \notin Threads
  BY PresentThreads DEF ForkInv
<1> DEFINE call == Next(t)[2]
<1>2. /\ todo[t] # <<>> /\ Next(t)[1] = "fork"
      /\ child' = t /\ how' = call /\ owner' = owner
  BY DEF ForkInChild, Does
<1>3. PICK acts \in {Plain, IF InChild THEN Clearing ELSE Calling} : \E B :
           /\ Effect(Held(t), Next(t), B, acts)
           /\ Runs(B, Tail(todo[t]), {}, acts)
  BY <1>1, <1>2, NextAct
<1>4. "fork" \in acts /\ Held(t) = ForkHeld(call)
      /\ (call = "fork" \/ (call = "clone" /\ ContainsTsan))
  BY <1>2, <1>3 DEF Effect
<1>5. ~InChild
  BY <1>4 DEF Plain, Clearing
<1> HIDE DEF call
<1>6. InChild' /\ Present' = {t} /\ Present = Threads
  BY <1>1, <1>2, <1>5 DEF InChild, Present
<1>7. \A u \in Threads : Held(u)' = Held(u)
  BY <1>2 DEF Held
<1> DEFINE rest == IF call = "fork" THEN AfterFork(t, TRUE) ELSE ForkChildAfter(t)
<1>8. Runs(Held(t), rest, {}, Clearing)
  <2>1. CASE call = "fork"
    BY <2>1, <1>1, <1>4, AfterForkRuns
  <2>2. CASE call = "clone" /\ ContainsTsan
    <3>1. ForkHeld(call) = TsanHeld
      BY <2>2 DEF ForkHeld
    <3>2. Runs(TsanHeld, ForkChildAfter(t), {}, Clearing)
      BY <2>2, <1>1, ForkChildAfterRuns DEF Clearing
    <3> QED
      BY <3>1, <3>2, <2>2, <1>4
  <2> QED
    BY <2>1, <2>2, <1>4
<1>9. todo' = [u \in Threads |-> IF u = t THEN rest ELSE <<>>]
  <2>1. todo' = [u \in Threads |->
                  CASE u # t -> <<>>
                    [] u = t /\ call = "fork" -> AfterFork(t, TRUE)
                    [] u = t /\ call = "clone" -> ForkChildAfter(t)]
    BY <1>2 DEF ForkInChild
  <2> QED
    BY <2>1, <1>4
<1> HIDE DEF rest
<1>10. todo' \in [Threads -> Seq(Event)] /\ todo'[t] = rest
  <2>1. rest \in Seq(Event) /\ <<>> \in Seq(Event)
    BY <1>8, EmptySeq DEF Runs
  <2> QED
    BY <2>1, <1>1, <1>9
<1>11. Types'
  BY <1>1, <1>2, <1>10 DEF Types
<1>12. RunInv'
  <2>1. Nested(Held(t)')
    BY <1>1, <1>6, <1>7 DEF RunInv
  <2>2. Finishes(t)'
    BY <1>1, <1>6, <1>7, <1>8, <1>10 DEF Finishes
  <2> QED
    BY <2>1, <2>2, <1>6 DEF RunInv
<1>13. ASSUME NEW l \in Mutexes, owner[l] \notin {NoOne, t}
       PROVE  l \in Unhandled' \cup ToClear(child)'
  <2> DEFINE u == owner[l]
  <2>1. u \in Threads /\ u # t /\ l \in Held(u)
    BY <1>1, <1>13 DEF Types, Held
  <2>2. Nested(Held(u))
    BY <1>1, <1>6, <2>1 DEF RunInv
  <2>3. l \in Usable /\ Needs(l) \subseteq Held(u)
    BY <2>1, <2>2 DEF Nested
  <2>4. Held(u) \cap ForkHeld(call) = {}
    BY <2>1, <1>4 DEF Held
  <2> HIDE DEF u
  <2>5. l \notin ForkHeld(call) /\ Needs(l) \cap ForkHeld(call) = {}
    BY <2>1, <2>3, <2>4
  <2>6. CASE call = "fork"
    <3>1. ForkHeld(call) = HookHeld \cup SharedHeld /\ "lsan_global" \in HookHeld
      BY <2>6, ForkHeldSets DEF HookHeld, AsanHeld
    <3>2. l # "asan_argretval"
      BY <2>5, <3>1 DEF Needs
    <3>3. l \in {"quarantine", "atexit_mu", "bucket"}
               \cup (IF ContainsTsan THEN {"asan_registry"} ELSE {"error_report"})
      <4>1. CASE ContainsTsan
        <5>1. HookHeld = {"lsan_global"} \cup TsanHeld
          BY <4>1 DEF HookHeld, AsanHeld
        <5>2. l # "report_mtx"
          BY <2>5, <3>1, <5>1 DEF Needs, TsanHeld
        <5> QED
          BY <4>1, <5>1, <5>2, <3>1, <3>2, <2>5
             DEF TsanHeld, SharedHeld, Mutexes, Names
      <4>2. CASE ~ContainsTsan
        <5>1. HookHeld = {"lsan_global", "asan_registry", "asan_argretval"}
          BY <4>2 DEF HookHeld, AsanHeld
        <5>2. l \notin TsanMutexes
          BY <4>2, <2>3 DEF Usable
        <5> QED
          BY <4>2, <5>1, <5>2, <3>1, <2>5
             DEF TsanMutexes, SharedHeld, Mutexes, Names
      <4> QED
        BY <4>1, <4>2
    <3>4. "bucket" \in ToClear(child)'
      <4>1. ToClear(child)' = Clears(rest)
        BY <1>2, <1>10 DEF ToClear, Clears
      <4> QED
        BY <4>1, <2>6, <1>1, AfterForkClears DEF rest
    <3> QED
      BY <3>3, <3>4 DEF Unhandled
  <2>7. CASE call = "clone" /\ ContainsTsan
    <3>1. ForkHeld(call) = TsanHeld
      BY <2>7 DEF ForkHeld
    <3>2. l # "report_mtx"
      BY <2>5, <3>1 DEF Needs, TsanHeld
    <3> QED
      BY <2>5, <2>7, <3>1, <3>2, <1>2 DEF Unhandled, TsanHeld, Mutexes, Names
  <2> QED
    BY <2>6, <2>7, <1>4
<1>14. ChildInheritsNoMutex'
  BY <1>2, <1>13 DEF ChildInheritsNoMutex
<1> QED
  BY <1>11, <1>12, <1>14 DEF ForkInv

LEMMA NextForkInv == ForkInv /\ [NextState]_vars => ForkInv'
<1> SUFFICES ASSUME ForkInv, [NextState]_vars PROVE ForkInv'
  OBVIOUS
<1>1. CASE UNCHANGED vars
  BY <1>1 DEF vars, ForkInv, Types, RunInv, ChildInheritsNoMutex, Present, InChild,
              Held, Finishes, Unhandled, ToClear
<1>2. ASSUME NEW t \in Present, Step(t) PROVE ForkInv'
  <2>1. CASE Begin(t)
    BY <2>1, BeginForkInv
  <2>2. CASE Acquire(t)
    BY <2>2, AcquireForkInv
  <2>3. CASE Release(t)
    BY <2>3, ReleaseForkInv
  <2>4. CASE ChangeIgnores(t)
    BY <2>4, AdvanceForkInv DEF ChangeIgnores
  <2>5. CASE ForkInParent(t)
    BY <2>5, AdvanceForkInv DEF ForkInParent
  <2>6. CASE ForkInChild(t)
    BY <2>6, ForkInChildForkInv
  <2> QED
    BY <1>2, <2>1, <2>2, <2>3, <2>4, <2>5, <2>6 DEF Step
<1> QED
  BY <1>1, <1>2 DEF NextState

\* The invariant that the theorems rest on.
LEMMA ForkInvHolds == Spec => []ForkInv
BY InitForkInv, NextForkInv, PTL DEF Spec

\* A child inherits, of the mutexes that the handlers of fork and clone stand
\* for, none that another thread held, whatever the threads were at.
THEOREM ChildStartsUnlocked == Spec => []ChildInheritsNoMutex
<1>1. ForkInv => ChildInheritsNoMutex
  BY DEF ForkInv
<1> QED
  BY <1>1, ForkInvHolds, PTL

LEMMA ForkInvHeld == ForkInv => HeldUntilReleased
<1> SUFFICES ASSUME ForkInv, NEW t \in Present
             PROVE  /\ todo[t] = <<>> => \A l \in Mutexes : owner[l] # t
                    /\ Does(t, "unlock") => owner[Next(t)[2]] = t
  BY DEF HeldUntilReleased
<1>1. Types /\ RunInv
  BY DEF ForkInv
<1>2. ASSUME todo[t] = <<>> PROVE \A l \in Mutexes : owner[l] # t
  BY <1>1, <1>2, IdleHoldsNothing DEF Held
<1>3. ASSUME Does(t, "unlock") PROVE owner[Next(t)[2]] = t
  <2>1. todo[t] # <<>> /\ Next(t)[1] = "unlock"
    BY <1>3 DEF Does
  <2>2. PICK acts \in {Plain, IF InChild THEN Clearing ELSE Calling} : \E B :
           /\ Effect(Held(t), Next(t), B, acts)
           /\ Runs(B, Tail(todo[t]), {}, acts)
    BY <1>1, <2>1, NextAct
  <2>3. Next(t)[2] \in Held(t)
    BY <2>1, <2>2 DEF Effect, MayFree
  <2> QED
    BY <2>3 DEF Held
<1> QED
  BY <1>2, <1>3

\* The handlers behind fork, in parent and child, and every other operation give
\* back what they took and nothing else.
THEOREM HandlersGiveBack == Spec => []HeldUntilReleased
BY ForkInvHeld, ForkInvHolds, PTL

-----------------------------------------------------------------------------
(* The order of the mutexes leaves no circle.                               *)

\* Where each of S points to one of S, every one is pointed to, and a number
\* never falls along the way, it rises into none.
LEMMA NoRiseInCircle ==
  ASSUME NEW S, IsFiniteSet(S), NEW f \in [S -> S], NEW g \in [S -> Int],
         \A x \in S : \E y \in S : f[y] = x,
         \A y \in S : g[y] <= g[f[y]],
         NEW t \in S
  PROVE  \E y \in S : f[y] = t /\ g[y] = g[t]
<1> SUFFICES ASSUME \A y \in S : f[y] = t => g[y] # g[t] PROVE FALSE
  OBVIOUS
<1> DEFINE U == {y \in S : g[y] >= g[t]}
           r == [y \in U |-> f[y]]
<1>1. f \in Injection(S, S)
  <2>1. f \in Surjection(S, S)
    BY DEF Surjection
  <2>2. Cardinality(S) = Cardinality(S) <=> f \in Injection(S, S)
    BY <2>1, FS_Surjection
  <2> QED
    BY <2>2
<1>2. ASSUME NEW y \in U PROVE f[y] \in U \ {t}
  <2>1. g[f[y]] >= g[t]
    BY SMT
  <2>2. f[y] # t
    <3>1. f[y] = t => g[y] < g[t]
      BY SMT
    <3> QED
      BY <3>1, SMT
  <2> QED
    BY <2>1, <2>2
<1>3. r \in Injection(U, U \ {t})
  <2>1. r \in [U -> U \ {t}]
    BY <1>2
  <2>2. \A x, y \in S : f[x] = f[y] => x = y
    BY <1>1 DEF Injection, IsInjective
  <2>3. \A x, y \in U : r[x] = r[y] => x = y
    BY <2>2
  <2> QED
    BY <2>1, <2>3 DEF Injection, IsInjective
<1>4. IsFiniteSet(U) /\ t \in U
  <2>1. U \subseteq S
    OBVIOUS
  <2>2. IsFiniteSet(U)
    BY <2>1, FS_Subset
  <2> QED
    BY <2>2, SMT
<1> HIDE DEF U, r
<1>5. IsFiniteSet(U \ {t}) /\ Cardinality(U \ {t}) = Cardinality(U) - 1
  BY <1>4, FS_RemoveElement
<1>6. Cardinality(U) <= Cardinality(U \ {t})
  BY <1>3, <1>5, FS_Injection
<1>7. Cardinality(U) \in Nat
  BY <1>4, FS_CardinalityType
<1> QED
  BY <1>5, <1>6, <1>7

LEMMA RankType == \A l \in Mutexes : Rank(l) \in Int
<1> DEFINE n == Cardinality(Threads)
<1>1. n \in Nat
  BY SlotsBijection
<1> HIDE DEF n
<1>2. \A t \in Threads : Rank(t) \in Int
  BY <1>1, Ranks DEF n
<1>3. \A l \in Names : Rank(l) \in Int
  BY <1>1, Ranks DEF n, Names
<1> QED
  BY <1>2, <1>3 DEF Mutexes

\* A run has none but the acts it is allowed.
LEMMA RunsActs ==
  ASSUME NEW A, NEW s, NEW B, NEW acts, Runs(A, s, B, acts), NEW i \in DOMAIN s
  PROVE  s[i][1] \in acts
<1>1. s \in Seq(Event) /\ \E h : Trace(A, s, B, acts, h)
  BY DEF Runs
<1>2. i \in 1 .. Len(s)
  BY <1>1, LenProperties
<1> QED
  BY <1>1, <1>2 DEF Trace, Effect

\* What a thread that waits for a mutex may be holding.
LEMMA Waiting ==
  ASSUME Types, RunInv, NEW t \in Present, Does(t, "lock")
  PROVE  \E acts : /\ MayTake(Held(t), Next(t)[2], acts)
                   /\ BeforeCall(t) => "fork" \in acts
<1>1. todo[t] # <<>> /\ Next(t)[1] = "lock"
  BY DEF Does
<1>2. PICK acts \in {Plain, IF InChild THEN Clearing ELSE Calling} :
        Runs(Held(t), todo[t], {}, acts)
  BY DEF RunInv, Finishes
<1>3. PICK B : Effect(Held(t), Head(todo[t]), B, acts)
  BY <1>1, <1>2, RunsStep
<1>4. MayTake(Held(t), Next(t)[2], acts)
  BY <1>1, <1>3 DEF Effect, Next
<1>5. ASSUME BeforeCall(t) PROVE "fork" \in acts
  BY <1>2, <1>5, RunsActs DEF BeforeCall
<1> QED
  BY <1>4, <1>5

LEMMA ForkInvCircle == ForkInv /\ Ordered => ForkInNoCircle
<1> SUFFICES ASSUME ForkInv, Ordered, NEW S \in SUBSET Present, Circle(S), NEW t \in S
             PROVE  Next(t)[2] \in {"allocator", "fallback"} /\ ~BeforeCall(t)
  BY DEF ForkInNoCircle
<1>1. Types /\ RunInv /\ Present \subseteq Threads /\ NoOne \notin Threads
  BY PresentThreads DEF ForkInv
<1> DEFINE lock(y) == Next(y)[2]
           f == [y \in S |-> AwaitedOwner(y)]
           g == [y \in S |-> Rank(lock(y))]
<1>2. {AwaitedOwner(y) : y \in S} = S
  BY DEF Circle
<1>3. f \in [S -> S] /\ \A x \in S : \E y \in S : f[y] = x
  BY <1>2
<1>4. ASSUME NEW y \in S
      PROVE  Does(y, "lock") /\ owner[lock(y)] = f[y] /\ f[y] \in S
  BY <1>1, <1>3 DEF AwaitedOwner
<1>5. ASSUME NEW y \in S
      PROVE  /\ lock(y) \in Mutexes \ Held(y)
             /\ InOrder(Held(y), lock(y))
             /\ BeforeCall(y) /\ lock(y) \in {"allocator", "fallback"}
                  => {"lsan_global", "global_proc"} \subseteq Held(y)
  <2>1. PICK acts : /\ MayTake(Held(y), lock(y), acts)
                    /\ BeforeCall(y) => "fork" \in acts
    BY <1>1, <1>4, Waiting
  <2> HIDE DEF lock
  <2> QED
    BY <2>1, UsableMutexes DEF MayTake
<1>6. g \in [S -> Int]
  BY <1>5, RankType
<1>7. Rank("allocator") = Rank("fallback") /\ Rank("allocator") \in Int
  BY Ranks, RankType, UsableNames, UsableMutexes
<1>8. ASSUME NEW y \in S
      PROVE  \/ Rank(lock(y)) < Rank(lock(f[y]))
             \/ /\ lock(y) = "allocator" /\ lock(f[y]) = "fallback"
                /\ "lsan_global" \in Held(f[y])
             \/ /\ lock(y) = "fallback" /\ lock(f[y]) = "allocator"
                /\ "global_proc" \in Held(f[y])
  <2>1. lock(y) \in Held(f[y])
    BY <1>4, <1>5 DEF Held
  <2>2. InOrder(Held(f[y]), lock(f[y]))
    BY <1>4, <1>5
  <2> HIDE DEF lock, f
  <2> QED
    BY <2>1, <2>2 DEF InOrder
<1>9. \A y \in S : f[y] \in S /\ g[y] = Rank(lock(y)) /\ g[f[y]] = Rank(lock(f[y]))
  BY <1>4
<1> HIDE DEF lock, f, g
<1>10. \A y \in S : g[y] <= g[f[y]]
  <2>1. ASSUME NEW y \in S PROVE g[y] <= g[f[y]]
    BY <1>6, <1>7, <1>8, <1>9
  <2> QED
    BY <2>1
<1>11. IsFiniteSet(S)
  BY <1>1, ForkAssumption, FS_Subset
<1>12. ASSUME NEW x \in S PROVE lock(x) \in {"allocator", "fallback"}
  <2>1. PICK y \in S : f[y] = x /\ g[y] = g[x]
    BY <1>3, <1>6, <1>10, <1>11, NoRiseInCircle
  <2>2. ~(Rank(lock(y)) < Rank(lock(f[y])))
    BY <2>1, <1>6, <1>9
  <2> QED
    BY <2>1, <2>2, <1>8
<1>13. ASSUME BeforeCall(t) PROVE FALSE
  <2>1. "lsan_global" \in Held(t) /\ "global_proc" \in Held(t)
    BY <1>5, <1>12, <1>13
  <2>2. f[t] \in S /\ lock(t) \in Held(f[t])
    BY <1>4, <1>5 DEF Held
  <2>3. f[t] # t
    BY <2>2, <1>5
  <2>4. Rank(lock(t)) = Rank(lock(f[t])) /\ Rank(lock(t)) \in Int
    BY <2>2, <1>7, <1>12
  <2>5. "lsan_global" \in Held(f[t]) \/ "global_proc" \in Held(f[t])
    BY <2>4, <1>8
  <2> QED
    BY <2>1, <2>3, <2>5 DEF Held
<1> QED
  BY <1>12, <1>13 DEF lock

\* Where TSan keeps the late frees out of fork, and neither libc nor a purge
\* frees under the mutexes of the runtime, no thread that is to call fork waits
\* in a circle of threads, and no other does but in that of ASan's own.
THEOREM ForkCannotDeadlock ==
  ASSUME ContainsTsan, ~LibcFrees, "purge" \notin Operations
  PROVE  Spec => []ForkInNoCircle
<1>1. Ordered
  BY DEF Ordered
<1>2. ForkInv => ForkInNoCircle
  BY <1>1, ForkInvCircle
<1> QED
  BY <1>2, ForkInvHolds, PTL

=============================================================================
