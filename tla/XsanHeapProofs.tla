----------------------------- MODULE XsanHeapProofs -----------------------------
(***************************************************************************)
(* Proofs about XsanHeap, for every set of threads and of blocks, every     *)
(* number of granules and of frees of one chunk.                            *)
(*                                                                         *)
(* The steps that are left to the threads do not say where a block is: one  *)
(* that a call holds is in no place at all.  The inductive invariant        *)
(* HeapInv therefore says that the blocks can be assigned a phase, those in *)
(* the hands of a call or in a cache a holder, and the threads the chunks   *)
(* they are still to free, such that the steps left to each thread fit what *)
(* it holds, and the shadow, the state, the metadata and the counts of each *)
(* block fit its phase.                                                     *)
(***************************************************************************)
EXTENDS XsanHeap, FiniteSetTheorems, TLAPS

States == {"invalid", "allocated", "quarantine", "data"}

Shades == {"ok", "redzone", "freed", "internal"}

Types ==
  /\ pool \subseteq Blocks /\ live \subseteq Blocks /\ internals \subseteq Blocks
  /\ batches \subseteq Blocks /\ quarantined \subseteq Blocks
  /\ cache \in [Threads -> SUBSET Blocks]
  /\ chunk_state \in [Blocks -> States]
  /\ size \in [Blocks -> User]
  /\ shadow \in [Blocks -> [0..Granules -> Shades]]
  /\ meta \in [Blocks -> 0..Granules]
  /\ todo = [t \in Threads |-> todo[t]]
  /\ frees \in [Blocks -> Nat] /\ reports \in [Blocks -> Nat]
  /\ check_failed = FALSE

----------------------------------------------------------------------------
(* Phases, and who holds what. *)

\* Of a block in the hands of a call, named after the step it waits for.
Held ==
  {"redzones", "unpoison", "allocated", "alloc_hook", "free_hook", "put",
   "invalid", "poison", "deallocate", "recycle", "internal"}

\* "freed" is a chunk that no call has won yet.
Phases ==
  {"pool", "live", "internals", "batches", "quarantined", "cache", "freed"} \cup Held

Nobody == CHOOSE n : n \notin Threads

Holders == Threads \cup {Nobody}

Owns(t, x, phase, holder) == phase[x] \in Held /\ holder[x] = t

EmptyHanded(t, phase, holder) == \A x \in Blocks : ~Owns(t, x, phase, holder)

HoldsOne(t, b, p, phase, holder) ==
  /\ phase[b] = p
  /\ \A x \in Blocks : Owns(t, x, phase, holder) <=> x = b

\* S is what a thread is recycling.
HoldsSet(t, S, phase, holder) ==
  \A x \in Blocks : /\ Owns(t, x, phase, holder) <=> x \in S
                    /\ x \in S => phase[x] = "recycle"

HoldsBoth(t, b, p, S, phase, holder) ==
  /\ b \notin S /\ phase[b] = p
  /\ \A x \in Blocks : /\ Owns(t, x, phase, holder) <=> x \in S \cup {b}
                       /\ x \in S => phase[x] = "recycle"

----------------------------------------------------------------------------
(* The steps left to a thread; D is the chunk it is still to free. *)

ToRedzones(b) == <<"redzones", b>>
ToUnpoison(b) == <<"unpoison", b>>
ToAllocated(b) == <<"allocated", b>>
ToAllocHook(b) == <<"alloc_hook", b>>
ToCheck(b) == <<"check", b>>
ToCas(b) == <<"cas", b>>
ToFreeHook(b) == <<"free_hook", b>>
ToPut(b) == <<"put", b>>
ToInvalid(b) == <<"invalid", b>>
ToPoison(b) == <<"poison", b>>
ToDeallocate(b) == <<"deallocate", b>>
ToRecycle(S) == <<"recycle", S>>
ToFree(b) == <<"free", b, 1>>
ToFreeInternal(b) == <<"free", b, 0>>

FreeSteps(s, b) ==
  \/ s = <<ToCheck(b), ToFree(b)>>
  \/ s = <<ToFree(b)>>
  \/ s = <<ToCas(b), ToFreeHook(b), ToPut(b)>>

ServeSteps(s, p, b) ==
  \/ /\ p = "redzones"
     /\ s = <<ToRedzones(b), ToUnpoison(b), ToAllocated(b), ToAllocHook(b)>>
  \/ p = "unpoison" /\ s = <<ToUnpoison(b), ToAllocated(b), ToAllocHook(b)>>
  \/ p = "allocated" /\ s = <<ToAllocated(b), ToAllocHook(b)>>
  \/ p = "alloc_hook" /\ s = <<ToAllocHook(b)>>

\* A chunk served by realloc, and the one it replaces.
ReplaceSteps(s, p, b, o) ==
  \/ /\ p = "redzones"
     /\ s = <<ToRedzones(b), ToUnpoison(b), ToAllocated(b), ToAllocHook(b),
              ToCheck(o), ToFree(o)>>
  \/ /\ p = "unpoison"
     /\ s = <<ToUnpoison(b), ToAllocated(b), ToAllocHook(b),
              ToCheck(o), ToFree(o)>>
  \/ /\ p = "allocated"
     /\ s = <<ToAllocated(b), ToAllocHook(b), ToCheck(o), ToFree(o)>>
  \/ p = "alloc_hook" /\ s = <<ToAllocHook(b), ToCheck(o), ToFree(o)>>

PutSteps(s, p, b) ==
  \/ p = "free_hook" /\ s = <<ToFreeHook(b), ToPut(b)>>
  \/ p = "put" /\ s = <<ToPut(b)>>

InternalSteps(s, b) ==
  \/ s = <<ToFreeInternal(b)>>
  \/ s = <<ToFreeHook(b), ToDeallocate(b)>>
  \/ s = <<ToDeallocate(b)>>

RecycleSteps(s, p, b) ==
  \/ p = "invalid" /\ s = <<ToInvalid(b), ToPoison(b), ToDeallocate(b)>>
  \/ p = "poison" /\ s = <<ToPoison(b), ToDeallocate(b)>>
  \/ p = "deallocate" /\ s = <<ToDeallocate(b)>>

RecycleOnSteps(s, p, b, S) ==
  \/ /\ p = "invalid"
     /\ s = <<ToInvalid(b), ToPoison(b), ToDeallocate(b), ToRecycle(S)>>
  \/ p = "poison" /\ s = <<ToPoison(b), ToDeallocate(b), ToRecycle(S)>>
  \/ p = "deallocate" /\ s = <<ToDeallocate(b), ToRecycle(S)>>

Idles(s, t, phase, holder, D) ==
  /\ D = {} /\ EmptyHanded(t, phase, holder)
  /\ s = <<>> \/ s = <<<<"transfer">>>> \/ s = <<<<"extract">>>>

Frees(s, t, phase, holder, D) ==
  /\ EmptyHanded(t, phase, holder)
  /\ \E b \in Blocks : D = {b} /\ FreeSteps(s, b)

Serves(s, t, phase, holder, D) ==
  \E b \in Blocks, p \in Held :
    /\ D = {} /\ HoldsOne(t, b, p, phase, holder) /\ ServeSteps(s, p, b)

Replaces(s, t, phase, holder, D) ==
  \E b \in Blocks, p \in Held, o \in Blocks :
    /\ D = {o} /\ o # b
    /\ HoldsOne(t, b, p, phase, holder) /\ ReplaceSteps(s, p, b, o)

Puts(s, t, phase, holder, D) ==
  \E b \in Blocks, p \in Held :
    /\ D = {} /\ HoldsOne(t, b, p, phase, holder) /\ PutSteps(s, p, b)

FreesInternal(s, t, phase, holder, D) ==
  \E b \in Blocks :
    /\ D = {} /\ HoldsOne(t, b, "internal", phase, holder) /\ InternalSteps(s, b)

RecyclesLast(s, t, phase, holder, D) ==
  \E b \in Blocks, p \in Held :
    /\ D = {} /\ HoldsOne(t, b, p, phase, holder) /\ RecycleSteps(s, p, b)

RecyclesOne(s, t, phase, holder, D) ==
  \E b \in Blocks, p \in Held, S \in SUBSET Blocks :
    /\ D = {} /\ S # {}
    /\ HoldsBoth(t, b, p, S, phase, holder) /\ RecycleOnSteps(s, p, b, S)

RecyclesSet(s, t, phase, holder, D) ==
  \E S \in SUBSET Blocks :
    /\ D = {} /\ S # {}
    /\ HoldsSet(t, S, phase, holder) /\ s = <<ToRecycle(S)>>

Plan(s, t, phase, holder, D) ==
  \/ Idles(s, t, phase, holder, D) \/ Frees(s, t, phase, holder, D)
  \/ Serves(s, t, phase, holder, D) \/ Replaces(s, t, phase, holder, D)
  \/ Puts(s, t, phase, holder, D) \/ FreesInternal(s, t, phase, holder, D)
  \/ RecyclesLast(s, t, phase, holder, D) \/ RecyclesOne(s, t, phase, holder, D)
  \/ RecyclesSet(s, t, phase, holder, D)

----------------------------------------------------------------------------
(* The shadow of a block whose chunk has n granules. *)

Closed(row) == \A g \in 0..Granules : row[g] \in {"redzone", "freed"}

Magic(row) == \A g \in 0..Granules : row[g] = "internal"

Fenced(row, n) == \A g \in 0..Granules : g \notin 1..n => row[g] \in {"redzone", "freed"}

Open(row, n) == Fenced(row, n) /\ \A g \in 1..n : row[g] = "ok"

Plain(row, n) == Fenced(row, n) /\ \A g \in 1..n : row[g] # "internal"

ShadowFits(p, n, row) ==
  /\ p \in {"pool", "batches", "redzones"} => Closed(row) \/ Magic(row)
  /\ p \in {"internals", "internal"} => Magic(row)
  /\ p \in {"unpoison", "poison"} => Fenced(row, n)
  /\ p \in {"allocated", "alloc_hook", "live", "freed", "free_hook", "put"} => Open(row, n)
  /\ p \in {"cache", "quarantined", "recycle", "deallocate"} => Closed(row)
  /\ p = "invalid" => Plain(row, n)

\* Since a call freed the chunk, and until its memory is handed back.
Won == {"free_hook", "put", "cache", "quarantined", "recycle", "invalid"}

HeaderFits(p, st, n, me) ==
  /\ p \in {"alloc_hook", "live", "freed"} => st = "allocated"
  /\ p \in Won => st = "quarantine"
  /\ p = "live" => me = n
  /\ p \in {"put", "cache", "quarantined", "recycle"} => me = 0

\* DD are the threads that are still to free the chunk.
TwoOf(DD) == \E u, v \in DD : u # v

CountsFit(p, fr, re, DD) ==
  /\ re > 0 => fr > 1
  /\ fr > 1 /\ DD = {} => re > 0
  /\ TwoOf(DD) => fr > 1
  /\ DD # {} => p \in Won \cup {"freed"}
  /\ DD # {} /\ p # "freed" => fr > 1
  /\ p \in {"redzones", "unpoison", "allocated", "alloc_hook", "live"} => fr = 0
  /\ p = "freed" => re = 0 /\ DD # {} /\ fr > 0 /\ (fr > 1 => TwoOf(DD))
  /\ p \in Won => fr > 0

At(x, p, h) ==
  /\ x \in pool <=> p = "pool"
  /\ x \in live <=> p = "live"
  /\ x \in internals <=> p = "internals"
  /\ x \in batches <=> p = "batches"
  /\ x \in quarantined <=> p = "quarantined"
  /\ \A u \in Threads : x \in cache[u] <=> (p = "cache" /\ h = u)

Fits(x, p, DD) ==
  /\ ShadowFits(p, size[x], shadow[x])
  /\ HeaderFits(p, chunk_state[x], size[x], meta[x])
  /\ CountsFit(p, frees[x], reports[x], DD)

Doomers(x, doom) == {u \in Threads : x \in doom[u]}

Inv(phase, holder, doom) ==
  /\ Types
  /\ \A t \in Threads : Plan(todo[t], t, phase, holder, doom[t])
  /\ \A x \in Blocks : /\ At(x, phase[x], holder[x])
                       /\ Fits(x, phase[x], Doomers(x, doom))

HeapInv ==
  \E phase \in [Blocks -> Phases], holder \in [Blocks -> Holders],
     doom \in [Threads -> SUBSET Blocks] : Inv(phase, holder, doom)

----------------------------------------------------------------------------
(* What a thread's next step says of what it holds, and what is left after it. *)

\* Allocate, step by step.
LEMMA ServeStepsNext ==
  ASSUME NEW s, NEW p, NEW b, ServeSteps(s, p, b)
  PROVE  /\ s # <<>>
         /\ \/ /\ p = "redzones" /\ Head(s)[1] = "redzones" /\ Head(s)[2] = b
               /\ ServeSteps(<<>> \o Tail(s), "unpoison", b)
            \/ /\ p = "unpoison" /\ Head(s)[1] = "unpoison" /\ Head(s)[2] = b
               /\ ServeSteps(<<>> \o Tail(s), "allocated", b)
            \/ /\ p = "allocated" /\ Head(s)[1] = "allocated" /\ Head(s)[2] = b
               /\ ServeSteps(<<>> \o Tail(s), "alloc_hook", b)
            \/ /\ p = "alloc_hook" /\ Head(s)[1] = "alloc_hook" /\ Head(s)[2] = b
               /\ Tail(s) = <<>> /\ <<>> \o Tail(s) = <<>>
<1>1. CASE /\ p = "redzones"
          /\ s = <<ToRedzones(b), ToUnpoison(b), ToAllocated(b), ToAllocHook(b)>>
  <2>1. s = <<ToRedzones(b), ToUnpoison(b), ToAllocated(b), ToAllocHook(b)>>
    BY <1>1, Zenon
  <2>2. Head(s) = ToRedzones(b)
    BY <2>1
  <2>3. Head(s)[1] = "redzones" /\ Head(s)[2] = b
    BY <2>2 DEF ToRedzones
  <2>4. /\ s # <<>>
        /\ <<>> \o Tail(s) = <<ToUnpoison(b), ToAllocated(b), ToAllocHook(b)>>
    BY <2>1
  <2>5. ServeSteps(<<>> \o Tail(s), "unpoison", b)
    BY <2>4, Zenon DEF ServeSteps
  <2> QED BY <1>1, <2>4, <2>5, <2>3, Zenon
<1>2. CASE /\ p = "unpoison"
          /\ s = <<ToUnpoison(b), ToAllocated(b), ToAllocHook(b)>>
  <2>1. s = <<ToUnpoison(b), ToAllocated(b), ToAllocHook(b)>>
    BY <1>2, Zenon
  <2>2. Head(s) = ToUnpoison(b)
    BY <2>1
  <2>3. Head(s)[1] = "unpoison" /\ Head(s)[2] = b
    BY <2>2 DEF ToUnpoison
  <2>4. /\ s # <<>>
        /\ <<>> \o Tail(s) = <<ToAllocated(b), ToAllocHook(b)>>
    BY <2>1
  <2>5. ServeSteps(<<>> \o Tail(s), "allocated", b)
    BY <2>4, Zenon DEF ServeSteps
  <2> QED BY <1>2, <2>4, <2>5, <2>3, Zenon
<1>3. CASE /\ p = "allocated"
          /\ s = <<ToAllocated(b), ToAllocHook(b)>>
  <2>1. s = <<ToAllocated(b), ToAllocHook(b)>>
    BY <1>3, Zenon
  <2>2. Head(s) = ToAllocated(b)
    BY <2>1
  <2>3. Head(s)[1] = "allocated" /\ Head(s)[2] = b
    BY <2>2 DEF ToAllocated
  <2>4. /\ s # <<>>
        /\ <<>> \o Tail(s) = <<ToAllocHook(b)>>
    BY <2>1
  <2>5. ServeSteps(<<>> \o Tail(s), "alloc_hook", b)
    BY <2>4, Zenon DEF ServeSteps
  <2> QED BY <1>3, <2>4, <2>5, <2>3, Zenon
<1>4. CASE /\ p = "alloc_hook"
          /\ s = <<ToAllocHook(b)>>
  <2>1. s = <<ToAllocHook(b)>>
    BY <1>4, Zenon
  <2>2. Head(s) = ToAllocHook(b)
    BY <2>1
  <2>3. Head(s)[1] = "alloc_hook" /\ Head(s)[2] = b
    BY <2>2 DEF ToAllocHook
  <2>4. /\ s # <<>> /\ Tail(s) = <<>>
        /\ <<>> \o Tail(s) = <<>>
    BY <2>1
  <2> QED BY <1>4, <2>4, <2>3, Zenon
<1> QED BY <1>1, <1>2, <1>3, <1>4, Zenon DEF ServeSteps

\* Allocate in realloc, which goes on with the old chunk.
LEMMA ReplaceStepsNext ==
  ASSUME NEW s, NEW p, NEW b, NEW o, ReplaceSteps(s, p, b, o)
  PROVE  /\ s # <<>>
         /\ \/ /\ p = "redzones" /\ Head(s)[1] = "redzones" /\ Head(s)[2] = b
               /\ ReplaceSteps(<<>> \o Tail(s), "unpoison", b, o)
            \/ /\ p = "unpoison" /\ Head(s)[1] = "unpoison" /\ Head(s)[2] = b
               /\ ReplaceSteps(<<>> \o Tail(s), "allocated", b, o)
            \/ /\ p = "allocated" /\ Head(s)[1] = "allocated" /\ Head(s)[2] = b
               /\ ReplaceSteps(<<>> \o Tail(s), "alloc_hook", b, o)
            \/ /\ p = "alloc_hook" /\ Head(s)[1] = "alloc_hook" /\ Head(s)[2] = b
               /\ FreeSteps(<<>> \o Tail(s), o)
<1>1. CASE /\ p = "redzones"
          /\ s = <<ToRedzones(b), ToUnpoison(b), ToAllocated(b), ToAllocHook(b),
                   ToCheck(o), ToFree(o)>>
  <2>1. s = <<ToRedzones(b), ToUnpoison(b), ToAllocated(b), ToAllocHook(b), ToCheck(o),
              ToFree(o)>>
    BY <1>1, Zenon
  <2>2. Head(s) = ToRedzones(b)
    BY <2>1
  <2>3. Head(s)[1] = "redzones" /\ Head(s)[2] = b
    BY <2>2 DEF ToRedzones
  <2>4. /\ s # <<>>
        /\ <<>> \o Tail(s) = <<ToUnpoison(b), ToAllocated(b), ToAllocHook(b),
                               ToCheck(o), ToFree(o)>>
    BY <2>1
  <2>5. ReplaceSteps(<<>> \o Tail(s), "unpoison", b, o)
    BY <2>4, Zenon DEF ReplaceSteps
  <2> QED BY <1>1, <2>4, <2>5, <2>3, Zenon
<1>2. CASE /\ p = "unpoison"
          /\ s = <<ToUnpoison(b), ToAllocated(b), ToAllocHook(b), ToCheck(o), ToFree(o)>>
  <2>1. s = <<ToUnpoison(b), ToAllocated(b), ToAllocHook(b), ToCheck(o), ToFree(o)>>
    BY <1>2, Zenon
  <2>2. Head(s) = ToUnpoison(b)
    BY <2>1
  <2>3. Head(s)[1] = "unpoison" /\ Head(s)[2] = b
    BY <2>2 DEF ToUnpoison
  <2>4. /\ s # <<>>
        /\ <<>> \o Tail(s) = <<ToAllocated(b), ToAllocHook(b), ToCheck(o), ToFree(o)>>
    BY <2>1
  <2>5. ReplaceSteps(<<>> \o Tail(s), "allocated", b, o)
    BY <2>4, Zenon DEF ReplaceSteps
  <2> QED BY <1>2, <2>4, <2>5, <2>3, Zenon
<1>3. CASE /\ p = "allocated"
          /\ s = <<ToAllocated(b), ToAllocHook(b), ToCheck(o), ToFree(o)>>
  <2>1. s = <<ToAllocated(b), ToAllocHook(b), ToCheck(o), ToFree(o)>>
    BY <1>3, Zenon
  <2>2. Head(s) = ToAllocated(b)
    BY <2>1
  <2>3. Head(s)[1] = "allocated" /\ Head(s)[2] = b
    BY <2>2 DEF ToAllocated
  <2>4. /\ s # <<>>
        /\ <<>> \o Tail(s) = <<ToAllocHook(b), ToCheck(o), ToFree(o)>>
    BY <2>1
  <2>5. ReplaceSteps(<<>> \o Tail(s), "alloc_hook", b, o)
    BY <2>4, Zenon DEF ReplaceSteps
  <2> QED BY <1>3, <2>4, <2>5, <2>3, Zenon
<1>4. CASE /\ p = "alloc_hook"
          /\ s = <<ToAllocHook(b), ToCheck(o), ToFree(o)>>
  <2>1. s = <<ToAllocHook(b), ToCheck(o), ToFree(o)>>
    BY <1>4, Zenon
  <2>2. Head(s) = ToAllocHook(b)
    BY <2>1
  <2>3. Head(s)[1] = "alloc_hook" /\ Head(s)[2] = b
    BY <2>2 DEF ToAllocHook
  <2>4. /\ s # <<>>
        /\ <<>> \o Tail(s) = <<ToCheck(o), ToFree(o)>>
    BY <2>1
  <2>5. FreeSteps(<<>> \o Tail(s), o)
    BY <2>4, Zenon DEF FreeSteps
  <2> QED BY <1>4, <2>4, <2>5, <2>3, Zenon
<1> QED BY <1>1, <1>2, <1>3, <1>4, Zenon DEF ReplaceSteps

\* Up to the step that wins the chunk, or reports.
LEMMA FreeStepsNext ==
  ASSUME NEW s, NEW b, FreeSteps(s, b)
  PROVE  /\ s # <<>>
         /\ \/ Head(s)[1] = "check" /\ Head(s)[2] = b /\ FreeSteps(<<>> \o Tail(s), b)
            \/ /\ Head(s)[1] = "free" /\ Head(s)[2] = b /\ Head(s)[3] = 1
               /\ Tail(s) = <<>> /\ <<>> \o Tail(s) = <<>>
            \/ Head(s)[1] = "cas" /\ Head(s)[2] = b /\ PutSteps(<<>> \o Tail(s), "free_hook", b)
<1>1. CASE s = <<ToCheck(b), ToFree(b)>>
  <2>1. s = <<ToCheck(b), ToFree(b)>>
    BY <1>1, Zenon
  <2>2. Head(s) = ToCheck(b)
    BY <2>1
  <2>3. Head(s)[1] = "check" /\ Head(s)[2] = b
    BY <2>2 DEF ToCheck
  <2>4. /\ s # <<>>
        /\ <<>> \o Tail(s) = <<ToFree(b)>>
    BY <2>1
  <2>5. FreeSteps(<<>> \o Tail(s), b)
    BY <2>4, Zenon DEF FreeSteps
  <2> QED BY <1>1, <2>4, <2>5, <2>3, Zenon
<1>2. CASE s = <<ToFree(b)>>
  <2>1. s = <<ToFree(b)>>
    BY <1>2, Zenon
  <2>2. Head(s) = ToFree(b)
    BY <2>1
  <2>3. Head(s)[1] = "free" /\ Head(s)[2] = b /\ Head(s)[3] = 1
    BY <2>2 DEF ToFree
  <2>4. /\ s # <<>> /\ Tail(s) = <<>>
        /\ <<>> \o Tail(s) = <<>>
    BY <2>1
  <2> QED BY <1>2, <2>4, <2>3, Zenon
<1>3. CASE s = <<ToCas(b), ToFreeHook(b), ToPut(b)>>
  <2>1. s = <<ToCas(b), ToFreeHook(b), ToPut(b)>>
    BY <1>3, Zenon
  <2>2. Head(s) = ToCas(b)
    BY <2>1
  <2>3. Head(s)[1] = "cas" /\ Head(s)[2] = b
    BY <2>2 DEF ToCas
  <2>4. /\ s # <<>>
        /\ <<>> \o Tail(s) = <<ToFreeHook(b), ToPut(b)>>
    BY <2>1
  <2>5. PutSteps(<<>> \o Tail(s), "free_hook", b)
    BY <2>4, Zenon DEF PutSteps
  <2> QED BY <1>3, <2>4, <2>5, <2>3, Zenon
<1> QED BY <1>1, <1>2, <1>3, Zenon DEF FreeSteps

\* From there to the quarantine.
LEMMA PutStepsNext ==
  ASSUME NEW s, NEW p, NEW b, PutSteps(s, p, b)
  PROVE  /\ s # <<>>
         /\ \/ /\ p = "free_hook" /\ Head(s)[1] = "free_hook" /\ Head(s)[2] = b
               /\ PutSteps(<<>> \o Tail(s), "put", b)
            \/ /\ p = "put" /\ Head(s)[1] = "put" /\ Head(s)[2] = b /\ Tail(s) = <<>>
               /\ <<>> \o Tail(s) = <<>>
<1>1. CASE /\ p = "free_hook"
          /\ s = <<ToFreeHook(b), ToPut(b)>>
  <2>1. s = <<ToFreeHook(b), ToPut(b)>>
    BY <1>1, Zenon
  <2>2. Head(s) = ToFreeHook(b)
    BY <2>1
  <2>3. Head(s)[1] = "free_hook" /\ Head(s)[2] = b
    BY <2>2 DEF ToFreeHook
  <2>4. /\ s # <<>>
        /\ <<>> \o Tail(s) = <<ToPut(b)>>
    BY <2>1
  <2>5. PutSteps(<<>> \o Tail(s), "put", b)
    BY <2>4, Zenon DEF PutSteps
  <2> QED BY <1>1, <2>4, <2>5, <2>3, Zenon
<1>2. CASE /\ p = "put"
          /\ s = <<ToPut(b)>>
  <2>1. s = <<ToPut(b)>>
    BY <1>2, Zenon
  <2>2. Head(s) = ToPut(b)
    BY <2>1
  <2>3. Head(s)[1] = "put" /\ Head(s)[2] = b
    BY <2>2 DEF ToPut
  <2>4. /\ s # <<>> /\ Tail(s) = <<>>
        /\ <<>> \o Tail(s) = <<>>
    BY <2>1
  <2> QED BY <1>2, <2>4, <2>3, Zenon
<1> QED BY <1>1, <1>2, Zenon DEF PutSteps

\* The free of one of the runtime's blocks.
LEMMA InternalStepsNext ==
  ASSUME NEW s, NEW b, InternalSteps(s, b)
  PROVE  /\ s # <<>>
         /\ \/ /\ Head(s)[1] = "free" /\ Head(s)[2] = b /\ Head(s)[3] = 0
               /\ Tail(s) = <<>> /\ <<>> \o Tail(s) = <<>>
            \/ Head(s)[1] = "free_hook" /\ Head(s)[2] = b /\ InternalSteps(<<>> \o Tail(s), b)
            \/ /\ Head(s)[1] = "deallocate" /\ Head(s)[2] = b /\ Tail(s) = <<>>
               /\ <<>> \o Tail(s) = <<>>
<1>1. CASE s = <<ToFreeInternal(b)>>
  <2>1. s = <<ToFreeInternal(b)>>
    BY <1>1, Zenon
  <2>2. Head(s) = ToFreeInternal(b)
    BY <2>1
  <2>3. Head(s)[1] = "free" /\ Head(s)[2] = b /\ Head(s)[3] = 0
    BY <2>2 DEF ToFreeInternal
  <2>4. /\ s # <<>> /\ Tail(s) = <<>>
        /\ <<>> \o Tail(s) = <<>>
    BY <2>1
  <2> QED BY <1>1, <2>4, <2>3, Zenon
<1>2. CASE s = <<ToFreeHook(b), ToDeallocate(b)>>
  <2>1. s = <<ToFreeHook(b), ToDeallocate(b)>>
    BY <1>2, Zenon
  <2>2. Head(s) = ToFreeHook(b)
    BY <2>1
  <2>3. Head(s)[1] = "free_hook" /\ Head(s)[2] = b
    BY <2>2 DEF ToFreeHook
  <2>4. /\ s # <<>>
        /\ <<>> \o Tail(s) = <<ToDeallocate(b)>>
    BY <2>1
  <2>5. InternalSteps(<<>> \o Tail(s), b)
    BY <2>4, Zenon DEF InternalSteps
  <2> QED BY <1>2, <2>4, <2>5, <2>3, Zenon
<1>3. CASE s = <<ToDeallocate(b)>>
  <2>1. s = <<ToDeallocate(b)>>
    BY <1>3, Zenon
  <2>2. Head(s) = ToDeallocate(b)
    BY <2>1
  <2>3. Head(s)[1] = "deallocate" /\ Head(s)[2] = b
    BY <2>2 DEF ToDeallocate
  <2>4. /\ s # <<>> /\ Tail(s) = <<>>
        /\ <<>> \o Tail(s) = <<>>
    BY <2>1
  <2> QED BY <1>3, <2>4, <2>3, Zenon
<1> QED BY <1>1, <1>2, <1>3, Zenon DEF InternalSteps

\* The last chunk of those that a thread recycles.
LEMMA RecycleStepsNext ==
  ASSUME NEW s, NEW p, NEW b, RecycleSteps(s, p, b)
  PROVE  /\ s # <<>>
         /\ \/ /\ p = "invalid" /\ Head(s)[1] = "invalid" /\ Head(s)[2] = b
               /\ RecycleSteps(<<>> \o Tail(s), "poison", b)
            \/ /\ p = "poison" /\ Head(s)[1] = "poison" /\ Head(s)[2] = b
               /\ RecycleSteps(<<>> \o Tail(s), "deallocate", b)
            \/ /\ p = "deallocate" /\ Head(s)[1] = "deallocate" /\ Head(s)[2] = b
               /\ Tail(s) = <<>> /\ <<>> \o Tail(s) = <<>>
<1>1. CASE /\ p = "invalid"
          /\ s = <<ToInvalid(b), ToPoison(b), ToDeallocate(b)>>
  <2>1. s = <<ToInvalid(b), ToPoison(b), ToDeallocate(b)>>
    BY <1>1, Zenon
  <2>2. Head(s) = ToInvalid(b)
    BY <2>1
  <2>3. Head(s)[1] = "invalid" /\ Head(s)[2] = b
    BY <2>2 DEF ToInvalid
  <2>4. /\ s # <<>>
        /\ <<>> \o Tail(s) = <<ToPoison(b), ToDeallocate(b)>>
    BY <2>1
  <2>5. RecycleSteps(<<>> \o Tail(s), "poison", b)
    BY <2>4, Zenon DEF RecycleSteps
  <2> QED BY <1>1, <2>4, <2>5, <2>3, Zenon
<1>2. CASE /\ p = "poison"
          /\ s = <<ToPoison(b), ToDeallocate(b)>>
  <2>1. s = <<ToPoison(b), ToDeallocate(b)>>
    BY <1>2, Zenon
  <2>2. Head(s) = ToPoison(b)
    BY <2>1
  <2>3. Head(s)[1] = "poison" /\ Head(s)[2] = b
    BY <2>2 DEF ToPoison
  <2>4. /\ s # <<>>
        /\ <<>> \o Tail(s) = <<ToDeallocate(b)>>
    BY <2>1
  <2>5. RecycleSteps(<<>> \o Tail(s), "deallocate", b)
    BY <2>4, Zenon DEF RecycleSteps
  <2> QED BY <1>2, <2>4, <2>5, <2>3, Zenon
<1>3. CASE /\ p = "deallocate"
          /\ s = <<ToDeallocate(b)>>
  <2>1. s = <<ToDeallocate(b)>>
    BY <1>3, Zenon
  <2>2. Head(s) = ToDeallocate(b)
    BY <2>1
  <2>3. Head(s)[1] = "deallocate" /\ Head(s)[2] = b
    BY <2>2 DEF ToDeallocate
  <2>4. /\ s # <<>> /\ Tail(s) = <<>>
        /\ <<>> \o Tail(s) = <<>>
    BY <2>1
  <2> QED BY <1>3, <2>4, <2>3, Zenon
<1> QED BY <1>1, <1>2, <1>3, Zenon DEF RecycleSteps

\* One of several.
LEMMA RecycleOnStepsNext ==
  ASSUME NEW s, NEW p, NEW b, NEW S, RecycleOnSteps(s, p, b, S)
  PROVE  /\ s # <<>>
         /\ \/ /\ p = "invalid" /\ Head(s)[1] = "invalid" /\ Head(s)[2] = b
               /\ RecycleOnSteps(<<>> \o Tail(s), "poison", b, S)
            \/ /\ p = "poison" /\ Head(s)[1] = "poison" /\ Head(s)[2] = b
               /\ RecycleOnSteps(<<>> \o Tail(s), "deallocate", b, S)
            \/ /\ p = "deallocate" /\ Head(s)[1] = "deallocate" /\ Head(s)[2] = b
               /\ <<>> \o Tail(s) = <<ToRecycle(S)>>
<1>1. CASE /\ p = "invalid"
          /\ s = <<ToInvalid(b), ToPoison(b), ToDeallocate(b), ToRecycle(S)>>
  <2>1. s = <<ToInvalid(b), ToPoison(b), ToDeallocate(b), ToRecycle(S)>>
    BY <1>1, Zenon
  <2>2. Head(s) = ToInvalid(b)
    BY <2>1
  <2>3. Head(s)[1] = "invalid" /\ Head(s)[2] = b
    BY <2>2 DEF ToInvalid
  <2>4. /\ s # <<>>
        /\ <<>> \o Tail(s) = <<ToPoison(b), ToDeallocate(b), ToRecycle(S)>>
    BY <2>1
  <2>5. RecycleOnSteps(<<>> \o Tail(s), "poison", b, S)
    BY <2>4, Zenon DEF RecycleOnSteps
  <2> QED BY <1>1, <2>4, <2>5, <2>3, Zenon
<1>2. CASE /\ p = "poison"
          /\ s = <<ToPoison(b), ToDeallocate(b), ToRecycle(S)>>
  <2>1. s = <<ToPoison(b), ToDeallocate(b), ToRecycle(S)>>
    BY <1>2, Zenon
  <2>2. Head(s) = ToPoison(b)
    BY <2>1
  <2>3. Head(s)[1] = "poison" /\ Head(s)[2] = b
    BY <2>2 DEF ToPoison
  <2>4. /\ s # <<>>
        /\ <<>> \o Tail(s) = <<ToDeallocate(b), ToRecycle(S)>>
    BY <2>1
  <2>5. RecycleOnSteps(<<>> \o Tail(s), "deallocate", b, S)
    BY <2>4, Zenon DEF RecycleOnSteps
  <2> QED BY <1>2, <2>4, <2>5, <2>3, Zenon
<1>3. CASE /\ p = "deallocate"
          /\ s = <<ToDeallocate(b), ToRecycle(S)>>
  <2>1. s = <<ToDeallocate(b), ToRecycle(S)>>
    BY <1>3, Zenon
  <2>2. Head(s) = ToDeallocate(b)
    BY <2>1
  <2>3. Head(s)[1] = "deallocate" /\ Head(s)[2] = b
    BY <2>2 DEF ToDeallocate
  <2>4. /\ s # <<>>
        /\ <<>> \o Tail(s) = <<ToRecycle(S)>>
    BY <2>1
  <2> QED BY <1>3, <2>4, <2>3, Zenon
<1> QED BY <1>1, <1>2, <1>3, Zenon DEF RecycleOnSteps

\* Each kind of plan is recognised by its next step.
LEMMA NextSteps ==
  ASSUME NEW s, NEW t, NEW phase, NEW holder, NEW D, s # <<>>
  PROVE  /\ Idles(s, t, phase, holder, D) => Head(s)[1] \in {"transfer", "extract"}
         /\ Frees(s, t, phase, holder, D) => Head(s)[1] \in {"check", "free", "cas"}
         /\ Serves(s, t, phase, holder, D) =>
              Head(s)[1] \in {"redzones", "unpoison", "allocated", "alloc_hook"}
         /\ Replaces(s, t, phase, holder, D) =>
              Head(s)[1] \in {"redzones", "unpoison", "allocated", "alloc_hook"}
         /\ Puts(s, t, phase, holder, D) => Head(s)[1] \in {"free_hook", "put"}
         /\ FreesInternal(s, t, phase, holder, D) =>
              Head(s)[1] \in {"free", "free_hook", "deallocate"}
         /\ RecyclesLast(s, t, phase, holder, D) =>
              Head(s)[1] \in {"invalid", "poison", "deallocate"}
         /\ RecyclesOne(s, t, phase, holder, D) =>
              Head(s)[1] \in {"invalid", "poison", "deallocate"}
         /\ RecyclesSet(s, t, phase, holder, D) => Head(s)[1] = "recycle"
<1>1. Idles(s, t, phase, holder, D) => Head(s)[1] \in {"transfer", "extract"}
  BY DEF Idles
<1>2. ASSUME Frees(s, t, phase, holder, D)
      PROVE  Head(s)[1] \in {"check", "free", "cas"}
  <2>1. PICK b : FreeSteps(s, b)
    BY <1>2, Zenon DEF Frees
  <2> QED BY <2>1, FreeStepsNext, Zenon
<1>3. ASSUME Serves(s, t, phase, holder, D)
      PROVE  Head(s)[1] \in {"redzones", "unpoison", "allocated", "alloc_hook"}
  <2>1. PICK p, b : ServeSteps(s, p, b)
    BY <1>3, Zenon DEF Serves
  <2> QED BY <2>1, ServeStepsNext, Zenon
<1>4. ASSUME Replaces(s, t, phase, holder, D)
      PROVE  Head(s)[1] \in {"redzones", "unpoison", "allocated", "alloc_hook"}
  <2>1. PICK p, b, o : ReplaceSteps(s, p, b, o)
    BY <1>4, Zenon DEF Replaces
  <2> QED BY <2>1, ReplaceStepsNext, Zenon
<1>5. ASSUME Puts(s, t, phase, holder, D)
      PROVE  Head(s)[1] \in {"free_hook", "put"}
  <2>1. PICK p, b : PutSteps(s, p, b)
    BY <1>5, Zenon DEF Puts
  <2> QED BY <2>1, PutStepsNext, Zenon
<1>6. ASSUME FreesInternal(s, t, phase, holder, D)
      PROVE  Head(s)[1] \in {"free", "free_hook", "deallocate"}
  <2>1. PICK b : InternalSteps(s, b)
    BY <1>6, Zenon DEF FreesInternal
  <2> QED BY <2>1, InternalStepsNext, Zenon
<1>7. ASSUME RecyclesLast(s, t, phase, holder, D)
      PROVE  Head(s)[1] \in {"invalid", "poison", "deallocate"}
  <2>1. PICK p, b : RecycleSteps(s, p, b)
    BY <1>7, Zenon DEF RecyclesLast
  <2> QED BY <2>1, RecycleStepsNext, Zenon
<1>8. ASSUME RecyclesOne(s, t, phase, holder, D)
      PROVE  Head(s)[1] \in {"invalid", "poison", "deallocate"}
  <2>1. PICK p, b, S : RecycleOnSteps(s, p, b, S)
    BY <1>8, Zenon DEF RecyclesOne
  <2> QED BY <2>1, RecycleOnStepsNext, Zenon
<1>9. RecyclesSet(s, t, phase, holder, D) => Head(s)[1] = "recycle"
  <2>1. SUFFICES ASSUME NEW S, s = <<ToRecycle(S)>>
                 PROVE  Head(s)[1] = "recycle"
    BY Zenon DEF RecyclesSet
  <2>2. Head(s) = ToRecycle(S)
    BY <2>1
  <2> QED BY <2>2 DEF ToRecycle
<1> QED BY <1>1, <1>2, <1>3, <1>4, <1>5, <1>6, <1>7, <1>8, <1>9, Zenon

\* After the next step, what is left fits whatever phase b gets then.
ServesOn(s, t, b, D) ==
  /\ \A q, phase2, holder2 :
       /\ \/ Head(s)[1] = "redzones" /\ q = "unpoison"
          \/ Head(s)[1] = "unpoison" /\ q = "allocated"
          \/ Head(s)[1] = "allocated" /\ q = "alloc_hook"
       /\ HoldsOne(t, b, q, phase2, holder2)
       => Plan(<<>> \o Tail(s), t, phase2, holder2, D)
  /\ \A phase2, holder2 :
       Head(s)[1] = "alloc_hook" /\ EmptyHanded(t, phase2, holder2) =>
         Plan(<<>> \o Tail(s), t, phase2, holder2, D)

\* The serving of b goes on, and ends with the program's chunk.
LEMMA PlanServe ==
  ASSUME NEW s, NEW t, NEW phase, NEW holder, NEW D, Plan(s, t, phase, holder, D),
         s # <<>>, Head(s)[1] \in {"redzones", "unpoison", "allocated", "alloc_hook"}
  PROVE  \E b \in Blocks :
           /\ Head(s)[2] = b /\ b \notin D /\ HoldsOne(t, b, Head(s)[1], phase, holder)
           /\ ServesOn(s, t, b, D)
<1>1. CASE Serves(s, t, phase, holder, D)
  <2>1. PICK b \in Blocks, p \in Held :
          /\ D = {} /\ HoldsOne(t, b, p, phase, holder) /\ ServeSteps(s, p, b)
    BY <1>1, Zenon DEF Serves
  <2>2. p = Head(s)[1] /\ Head(s)[2] = b
    BY <2>1, ServeStepsNext, Zenon
  <2>3. ASSUME NEW q, NEW phase2, NEW holder2,
               \/ p = "redzones" /\ q = "unpoison"
               \/ p = "unpoison" /\ q = "allocated"
               \/ p = "allocated" /\ q = "alloc_hook",
               HoldsOne(t, b, q, phase2, holder2)
        PROVE  Plan(<<>> \o Tail(s), t, phase2, holder2, D)
    <3>1. ServeSteps(<<>> \o Tail(s), q, b)
      BY <2>1, <2>3, ServeStepsNext
    <3>2. q \in Held
      BY <2>3 DEF Held
    <3> QED BY <2>1, <2>3, <3>1, <3>2, Zenon DEF Serves, Plan
  <2>4. ASSUME NEW phase2, NEW holder2, p = "alloc_hook", EmptyHanded(t, phase2, holder2)
        PROVE  Plan(<<>> \o Tail(s), t, phase2, holder2, D)
    <3>1. <<>> \o Tail(s) = <<>>
      BY <2>1, <2>4, ServeStepsNext
    <3> QED BY <2>1, <2>4, <3>1, Zenon DEF Idles, Plan
  <2>5. ServesOn(s, t, b, D)
    BY <2>2, <2>3, <2>4, Zenon DEF ServesOn
  <2>6. b \notin D
    BY <2>1
  <2> QED BY <2>1, <2>2, <2>5, <2>6, Zenon
<1>2. CASE Replaces(s, t, phase, holder, D)
  <2>1. PICK b \in Blocks, p \in Held, o \in Blocks :
          /\ D = {o} /\ o # b
          /\ HoldsOne(t, b, p, phase, holder) /\ ReplaceSteps(s, p, b, o)
    BY <1>2, Zenon DEF Replaces
  <2>2. p = Head(s)[1] /\ Head(s)[2] = b
    BY <2>1, ReplaceStepsNext, Zenon
  <2>3. ASSUME NEW q, NEW phase2, NEW holder2,
               \/ p = "redzones" /\ q = "unpoison"
               \/ p = "unpoison" /\ q = "allocated"
               \/ p = "allocated" /\ q = "alloc_hook",
               HoldsOne(t, b, q, phase2, holder2)
        PROVE  Plan(<<>> \o Tail(s), t, phase2, holder2, D)
    <3>1. ReplaceSteps(<<>> \o Tail(s), q, b, o)
      BY <2>1, <2>3, ReplaceStepsNext
    <3>2. q \in Held
      BY <2>3 DEF Held
    <3> QED BY <2>1, <2>3, <3>1, <3>2, Zenon DEF Replaces, Plan
  <2>4. ASSUME NEW phase2, NEW holder2, p = "alloc_hook", EmptyHanded(t, phase2, holder2)
        PROVE  Plan(<<>> \o Tail(s), t, phase2, holder2, D)
    <3>1. FreeSteps(<<>> \o Tail(s), o)
      BY <2>1, <2>4, ReplaceStepsNext
    <3> QED BY <2>1, <2>4, <3>1, Zenon DEF Frees, Plan
  <2>5. ServesOn(s, t, b, D)
    BY <2>2, <2>3, <2>4, Zenon DEF ServesOn
  <2>6. b \notin D
    BY <2>1
  <2> QED BY <2>1, <2>2, <2>5, <2>6, Zenon
<1>3. Serves(s, t, phase, holder, D) \/ Replaces(s, t, phase, holder, D)
  BY NextSteps DEF Plan
<1> QED BY <1>1, <1>2, <1>3, Zenon

----------------------------------------------------------------------------
(* Steps put before what is left. *)

LEMMA Joins ==
  ASSUME NEW x, NEW y, NEW z, NEW v
  PROVE  /\ <<x, y>> \o <<z>> = <<x, y, z>>
         /\ <<x, y, z>> \o <<v>> = <<x, y, z, v>>
         /\ <<x, y, z>> \o <<>> = <<x, y, z>>
         /\ <<x, y, z, v>> \o <<>> = <<x, y, z, v>>
         /\ <<x, y>> \o <<>> = <<x, y>> /\ <<x>> \o <<>> = <<x>> /\ <<>> \o <<>> = <<>>
<1>1. <<x, y>> \o <<z>> = <<x, y, z>>
  <2> DEFINE s == <<x, y>> \o <<z>>
  <2>1. Len(s) = 3 /\ s[1] = x /\ s[2] = y /\ s[3] = z
    OBVIOUS
  <2>2. s \in Seq({x, y, z})
    OBVIOUS
  <2> HIDE DEF s
  <2>3. s = <<x, y, z>>
    BY <2>1, <2>2
  <2> QED BY <2>3 DEF s
<1>2. <<x, y, z>> \o <<v>> = <<x, y, z, v>>
  <2> DEFINE s == <<x, y, z>> \o <<v>>
  <2>1. Len(s) = 4 /\ s[1] = x /\ s[2] = y /\ s[3] = z /\ s[4] = v
    OBVIOUS
  <2>2. s \in Seq({x, y, z, v})
    OBVIOUS
  <2> HIDE DEF s
  <2>3. s = <<x, y, z, v>>
    BY <2>1, <2>2
  <2> QED BY <2>3 DEF s
<1>3. <<x, y, z>> \o <<>> = <<x, y, z>>
  OBVIOUS
<1>4. <<x, y, z, v>> \o <<>> = <<x, y, z, v>>
  OBVIOUS
<1>5. <<x, y>> \o <<>> = <<x, y>> /\ <<x>> \o <<>> = <<x>> /\ <<>> \o <<>> = <<>>
  OBVIOUS
<1> QED BY <1>1, <1>2, <1>3, <1>4, <1>5

LEMMA JoinsRealloc ==
  ASSUME NEW x, NEW y, NEW z, NEW v, NEW u, NEW w
  PROVE  <<x, y, z, v>> \o <<u, w>> = <<x, y, z, v, u, w>>
<1> DEFINE s == <<x, y, z, v>> \o <<u, w>>
<1>1. /\ Len(s) = 6 /\ s[1] = x /\ s[2] = y /\ s[3] = z /\ s[4] = v
      /\ s[5] = u /\ s[6] = w
  OBVIOUS
<1>2. s \in Seq({x, y, z, v, u, w})
  OBVIOUS
<1> HIDE DEF s
<1>3. s = <<x, y, z, v, u, w>>
  BY <1>1, <1>2
<1> QED BY <1>3 DEF s

LEMMA AllocateSteps == ASSUME NEW b PROVE ServeSteps(Allocate(b), "redzones", b)
<1>1. Allocate(b) = <<ToRedzones(b), ToUnpoison(b), ToAllocated(b), ToAllocHook(b)>>
  BY Zenon DEF Allocate, ToRedzones, ToUnpoison, ToAllocated, ToAllocHook
<1> QED BY <1>1, Zenon DEF ServeSteps

LEMMA ReallocSteps ==
  ASSUME NEW b, NEW o
  PROVE  ReplaceSteps(Allocate(b) \o <<<<"check", o>>, <<"free", o, 1>>>>, "redzones", b, o)
<1>1. /\ Allocate(b) = <<ToRedzones(b), ToUnpoison(b), ToAllocated(b), ToAllocHook(b)>>
      /\ <<<<"check", o>>, <<"free", o, 1>>>> = <<ToCheck(o), ToFree(o)>>
  BY Zenon
  DEF Allocate, ToRedzones, ToUnpoison, ToAllocated, ToAllocHook, ToCheck, ToFree
<1>2. Allocate(b) \o <<<<"check", o>>, <<"free", o, 1>>>> =
        <<ToRedzones(b), ToUnpoison(b), ToAllocated(b), ToAllocHook(b), ToCheck(o), ToFree(o)>>
  <2>1. <<ToRedzones(b), ToUnpoison(b), ToAllocated(b), ToAllocHook(b)>>
          \o <<ToCheck(o), ToFree(o)>> =
          <<ToRedzones(b), ToUnpoison(b), ToAllocated(b), ToAllocHook(b), ToCheck(o),
                ToFree(o)>>
    BY JoinsRealloc
  <2> QED BY <1>1, <2>1, Zenon
<1> QED BY <1>2, Zenon DEF ReplaceSteps

LEMMA FreeIs == ASSUME NEW b PROVE FreeSteps(Free(b) \o <<>>, b)
<1>1. Free(b) = <<ToCas(b), ToFreeHook(b)>> \o <<ToPut(b)>>
  BY Zenon DEF Free, QuarantineChunk, ToCas, ToFreeHook, ToPut
<1>2. Free(b) = <<ToCas(b), ToFreeHook(b), ToPut(b)>>
  BY <1>1, Joins, Zenon
<1>3. Free(b) \o <<>> = <<ToCas(b), ToFreeHook(b), ToPut(b)>>
  BY <1>2, Joins, Zenon
<1> QED BY <1>3, Zenon DEF FreeSteps

LEMMA DeallocateInternalIs ==
  ASSUME NEW b
  PROVE  /\ InternalSteps(DeallocateInternal(b), b)
         /\ InternalSteps(DeallocateInternal(b) \o <<>>, b)
<1>1. DeallocateInternal(b) = <<ToFreeHook(b), ToDeallocate(b)>>
  BY Zenon DEF DeallocateInternal, ToFreeHook, ToDeallocate
<1>2. DeallocateInternal(b) \o <<>> = <<ToFreeHook(b), ToDeallocate(b)>>
  BY <1>1, Joins, Zenon
<1> QED BY <1>1, <1>2, Zenon DEF InternalSteps

LEMMA RecycleIs ==
  ASSUME NEW b, NEW S
  PROVE  /\ RecycleSteps(Recycle(b) \o <<>>, "invalid", b)
         /\ S = {} => RecycleSteps((Recycle(b) \o DoRecycle(S)) \o <<>>, "invalid", b)
         /\ S # {} => RecycleOnSteps((Recycle(b) \o DoRecycle(S)) \o <<>>, "invalid", b, S)
<1>1. Recycle(b) = <<ToInvalid(b), ToPoison(b), ToDeallocate(b)>>
  BY Zenon DEF Recycle, ToInvalid, ToPoison, ToDeallocate
<1>2. Recycle(b) \o <<>> = <<ToInvalid(b), ToPoison(b), ToDeallocate(b)>>
  BY <1>1, Joins, Zenon
<1>3. RecycleSteps(Recycle(b) \o <<>>, "invalid", b)
  BY <1>2, Zenon DEF RecycleSteps
<1>4. ASSUME S = {}
      PROVE  RecycleSteps((Recycle(b) \o DoRecycle(S)) \o <<>>, "invalid", b)
  <2>1. DoRecycle(S) = <<>>
    BY <1>4, Zenon DEF DoRecycle
  <2>2. (Recycle(b) \o DoRecycle(S)) \o <<>> = <<ToInvalid(b), ToPoison(b), ToDeallocate(b)>>
    BY <2>1, <1>1, <1>2, Zenon
  <2> QED BY <2>2, Zenon DEF RecycleSteps
<1>5. ASSUME S # {}
      PROVE  RecycleOnSteps((Recycle(b) \o DoRecycle(S)) \o <<>>, "invalid", b, S)
  <2>1. DoRecycle(S) = <<ToRecycle(S)>>
    BY <1>5, Zenon DEF DoRecycle, ToRecycle
  <2>2. Recycle(b) \o DoRecycle(S) =
          <<ToInvalid(b), ToPoison(b), ToDeallocate(b), ToRecycle(S)>>
    <3>1. <<ToInvalid(b), ToPoison(b), ToDeallocate(b)>> \o <<ToRecycle(S)>> =
            <<ToInvalid(b), ToPoison(b), ToDeallocate(b), ToRecycle(S)>>
      BY Joins
    <3> QED BY <2>1, <1>1, <3>1, Zenon
  <2>3. (Recycle(b) \o DoRecycle(S)) \o <<>> =
          <<ToInvalid(b), ToPoison(b), ToDeallocate(b), ToRecycle(S)>>
    <3>1. <<ToInvalid(b), ToPoison(b), ToDeallocate(b), ToRecycle(S)>> \o <<>> =
            <<ToInvalid(b), ToPoison(b), ToDeallocate(b), ToRecycle(S)>>
      BY Joins
    <3> QED BY <2>2, <3>1, Zenon
  <2> QED BY <2>3, Zenon DEF RecycleOnSteps
<1> QED BY <1>3, <1>4, <1>5, Zenon

LEMMA DoRecycleIs ==
  ASSUME NEW S
  PROVE  /\ S = {} => DoRecycle(S) \o <<>> = <<>>
         /\ S # {} => DoRecycle(S) \o <<>> = <<ToRecycle(S)>>
<1>1. S = {} => DoRecycle(S) = <<>>
  BY Zenon DEF DoRecycle
<1>2. S # {} => DoRecycle(S) = <<ToRecycle(S)>>
  BY Zenon DEF DoRecycle, ToRecycle
<1> QED BY <1>1, <1>2, Joins, Zenon

----------------------------------------------------------------------------
(* Frames. *)

\* The plan of a thread whose blocks nobody touches still fits.
LEMMA PlanFrame ==
  ASSUME NEW s, NEW t, NEW D, NEW phase, NEW holder, NEW phase2, NEW holder2,
         Plan(s, t, phase, holder, D),
         \A x \in Blocks :
           /\ Owns(t, x, phase2, holder2) <=> Owns(t, x, phase, holder)
           /\ Owns(t, x, phase, holder) => phase2[x] = phase[x]
  PROVE  Plan(s, t, phase2, holder2, D)
<1>1. EmptyHanded(t, phase, holder) => EmptyHanded(t, phase2, holder2)
  BY Zenon DEF EmptyHanded
<1>2. ASSUME NEW b \in Blocks, NEW p, HoldsOne(t, b, p, phase, holder)
      PROVE  HoldsOne(t, b, p, phase2, holder2)
  BY <1>2, Zenon DEF HoldsOne
<1>3. ASSUME NEW S \in SUBSET Blocks, HoldsSet(t, S, phase, holder)
      PROVE  HoldsSet(t, S, phase2, holder2)
  BY <1>3 DEF HoldsSet
<1>4. ASSUME NEW b \in Blocks, NEW p, NEW S \in SUBSET Blocks,
             HoldsBoth(t, b, p, S, phase, holder)
      PROVE  HoldsBoth(t, b, p, S, phase2, holder2)
  BY <1>4 DEF HoldsBoth
<1>5. Idles(s, t, phase, holder, D) => Idles(s, t, phase2, holder2, D)
  BY <1>1, Zenon DEF Idles
<1>6. Frees(s, t, phase, holder, D) => Frees(s, t, phase2, holder2, D)
  BY <1>1, Zenon DEF Frees
<1>7. Serves(s, t, phase, holder, D) => Serves(s, t, phase2, holder2, D)
  BY <1>2, Zenon DEF Serves
<1>8. Replaces(s, t, phase, holder, D) => Replaces(s, t, phase2, holder2, D)
  BY <1>2, Zenon DEF Replaces
<1>9. Puts(s, t, phase, holder, D) => Puts(s, t, phase2, holder2, D)
  BY <1>2, Zenon DEF Puts
<1>10. FreesInternal(s, t, phase, holder, D) => FreesInternal(s, t, phase2, holder2, D)
  BY <1>2, Zenon DEF FreesInternal
<1>11. RecyclesLast(s, t, phase, holder, D) => RecyclesLast(s, t, phase2, holder2, D)
  BY <1>2, Zenon DEF RecyclesLast
<1>12. RecyclesOne(s, t, phase, holder, D) => RecyclesOne(s, t, phase2, holder2, D)
  BY <1>4, Zenon DEF RecyclesOne
<1>13. RecyclesSet(s, t, phase, holder, D) => RecyclesSet(s, t, phase2, holder2, D)
  BY <1>3, Zenon DEF RecyclesSet
<1> QED BY <1>5, <1>6, <1>7, <1>8, <1>9, <1>10, <1>11, <1>12, <1>13, Zenon DEF Plan

----------------------------------------------------------------------------
(* The chunk a thread is told to free is the one its plan dooms. *)

IsFree(step, b) == step \in {<<"free", b, 1>>, <<"cas", b>>}

ToldToFree(s, b) == \E i \in DOMAIN s : IsFree(s[i], b)

LEMMA StepsThatFree ==
  ASSUME NEW b, NEW x
  PROVE  /\ IsFree(ToFree(x), b) <=> x = b
         /\ IsFree(ToCas(x), b) <=> x = b
         /\ ~IsFree(<<"transfer">>, b) /\ ~IsFree(<<"extract">>, b)
         /\ ~IsFree(ToRedzones(x), b) /\ ~IsFree(ToUnpoison(x), b) /\ ~IsFree(ToAllocated(x), b)
         /\ ~IsFree(ToAllocHook(x), b) /\ ~IsFree(ToCheck(x), b) /\ ~IsFree(ToFreeHook(x), b)
         /\ ~IsFree(ToPut(x), b) /\ ~IsFree(ToInvalid(x), b) /\ ~IsFree(ToPoison(x), b)
         /\ ~IsFree(ToDeallocate(x), b) /\ ~IsFree(ToRecycle(x), b)
         /\ ~IsFree(ToFreeInternal(x), b)
<1>1. IsFree(ToFree(x), b) <=> x = b
  BY DEF IsFree, ToFree
<1>2. IsFree(ToCas(x), b) <=> x = b
  BY DEF IsFree, ToCas
<1>3. ~IsFree(<<"transfer">>, b) /\ ~IsFree(<<"extract">>, b)
  BY DEF IsFree
<1>4. ~IsFree(ToRedzones(x), b)
  BY DEF IsFree, ToRedzones
<1>5. ~IsFree(ToUnpoison(x), b)
  BY DEF IsFree, ToUnpoison
<1>6. ~IsFree(ToAllocated(x), b)
  BY DEF IsFree, ToAllocated
<1>7. ~IsFree(ToAllocHook(x), b)
  BY DEF IsFree, ToAllocHook
<1>8. ~IsFree(ToCheck(x), b)
  BY DEF IsFree, ToCheck
<1>9. ~IsFree(ToFreeHook(x), b)
  BY DEF IsFree, ToFreeHook
<1>10. ~IsFree(ToPut(x), b)
  BY DEF IsFree, ToPut
<1>11. ~IsFree(ToInvalid(x), b)
  BY DEF IsFree, ToInvalid
<1>12. ~IsFree(ToPoison(x), b)
  BY DEF IsFree, ToPoison
<1>13. ~IsFree(ToDeallocate(x), b)
  BY DEF IsFree, ToDeallocate
<1>14. ~IsFree(ToRecycle(x), b)
  BY DEF IsFree, ToRecycle
<1>15. ~IsFree(ToFreeInternal(x), b)
  BY DEF IsFree, ToFreeInternal
<1> QED BY <1>1, <1>2, <1>3, <1>4, <1>5, <1>6, <1>7, <1>8, <1>9, <1>10, <1>11, <1>12,
           <1>13, <1>14, <1>15, Zenon

LEMMA ToldSteps ==
  ASSUME NEW s, NEW p, NEW x, NEW o, NEW S, NEW b
  PROVE  /\ ServeSteps(s, p, x) => ~ToldToFree(s, b)
         /\ ReplaceSteps(s, p, x, o) => (ToldToFree(s, b) <=> o = b)
         /\ FreeSteps(s, x) => (ToldToFree(s, b) <=> x = b)
         /\ PutSteps(s, p, x) => ~ToldToFree(s, b)
         /\ InternalSteps(s, x) => ~ToldToFree(s, b)
         /\ RecycleSteps(s, p, x) => ~ToldToFree(s, b)
         /\ RecycleOnSteps(s, p, x, S) => ~ToldToFree(s, b)
<1>1. ServeSteps(s, p, x) => ~ToldToFree(s, b)
  <2>1. ASSUME s = <<ToRedzones(x), ToUnpoison(x), ToAllocated(x), ToAllocHook(x)>>
        PROVE  ~ToldToFree(s, b)
    <3>1. ToldToFree(s, b) <=> IsFree(ToRedzones(x), b) \/ IsFree(ToUnpoison(x), b)
           \/ IsFree(ToAllocated(x), b) \/ IsFree(ToAllocHook(x), b)
      BY <2>1 DEF ToldToFree
    <3> QED BY <3>1, StepsThatFree, Zenon
  <2>2. ASSUME s = <<ToUnpoison(x), ToAllocated(x), ToAllocHook(x)>>
        PROVE  ~ToldToFree(s, b)
    <3>1. ToldToFree(s, b) <=> IsFree(ToUnpoison(x), b) \/ IsFree(ToAllocated(x), b)
           \/ IsFree(ToAllocHook(x), b)
      BY <2>2 DEF ToldToFree
    <3> QED BY <3>1, StepsThatFree, Zenon
  <2>3. ASSUME s = <<ToAllocated(x), ToAllocHook(x)>>
        PROVE  ~ToldToFree(s, b)
    <3>1. ToldToFree(s, b) <=> IsFree(ToAllocated(x), b) \/ IsFree(ToAllocHook(x), b)
      BY <2>3 DEF ToldToFree
    <3> QED BY <3>1, StepsThatFree, Zenon
  <2>4. ASSUME s = <<ToAllocHook(x)>>
        PROVE  ~ToldToFree(s, b)
    <3>1. ToldToFree(s, b) <=> IsFree(ToAllocHook(x), b)
      BY <2>4 DEF ToldToFree
    <3> QED BY <3>1, StepsThatFree, Zenon
  <2> QED BY <2>1, <2>2, <2>3, <2>4, Zenon DEF ServeSteps
<1>2. ReplaceSteps(s, p, x, o) => (ToldToFree(s, b) <=> o = b)
  <2>1. ASSUME s = <<ToRedzones(x), ToUnpoison(x), ToAllocated(x), ToAllocHook(x),
                     ToCheck(o), ToFree(o)>>
        PROVE  (ToldToFree(s, b) <=> o = b)
    <3>1. ToldToFree(s, b) <=> IsFree(ToRedzones(x), b) \/ IsFree(ToUnpoison(x), b)
           \/ IsFree(ToAllocated(x), b) \/ IsFree(ToAllocHook(x), b)
           \/ IsFree(ToCheck(o), b) \/ IsFree(ToFree(o), b)
      BY <2>1 DEF ToldToFree
    <3> QED BY <3>1, StepsThatFree, Zenon
  <2>2. ASSUME s = <<ToUnpoison(x), ToAllocated(x), ToAllocHook(x), ToCheck(o), ToFree(o)>>
        PROVE  (ToldToFree(s, b) <=> o = b)
    <3>1. ToldToFree(s, b) <=> IsFree(ToUnpoison(x), b) \/ IsFree(ToAllocated(x), b)
           \/ IsFree(ToAllocHook(x), b) \/ IsFree(ToCheck(o), b) \/ IsFree(ToFree(o), b)
      BY <2>2 DEF ToldToFree
    <3> QED BY <3>1, StepsThatFree, Zenon
  <2>3. ASSUME s = <<ToAllocated(x), ToAllocHook(x), ToCheck(o), ToFree(o)>>
        PROVE  (ToldToFree(s, b) <=> o = b)
    <3>1. ToldToFree(s, b) <=> IsFree(ToAllocated(x), b)
           \/ IsFree(ToAllocHook(x), b) \/ IsFree(ToCheck(o), b) \/ IsFree(ToFree(o), b)
      BY <2>3 DEF ToldToFree
    <3> QED BY <3>1, StepsThatFree, Zenon
  <2>4. ASSUME s = <<ToAllocHook(x), ToCheck(o), ToFree(o)>>
        PROVE  (ToldToFree(s, b) <=> o = b)
    <3>1. ToldToFree(s, b) <=> IsFree(ToAllocHook(x), b) \/ IsFree(ToCheck(o), b)
           \/ IsFree(ToFree(o), b)
      BY <2>4 DEF ToldToFree
    <3> QED BY <3>1, StepsThatFree, Zenon
  <2> QED BY <2>1, <2>2, <2>3, <2>4, Zenon DEF ReplaceSteps
<1>3. FreeSteps(s, x) => (ToldToFree(s, b) <=> x = b)
  <2>1. ASSUME s = <<ToCheck(x), ToFree(x)>>
        PROVE  (ToldToFree(s, b) <=> x = b)
    <3>1. ToldToFree(s, b) <=> IsFree(ToCheck(x), b) \/ IsFree(ToFree(x), b)
      BY <2>1 DEF ToldToFree
    <3> QED BY <3>1, StepsThatFree, Zenon
  <2>2. ASSUME s = <<ToFree(x)>>
        PROVE  (ToldToFree(s, b) <=> x = b)
    <3>1. ToldToFree(s, b) <=> IsFree(ToFree(x), b)
      BY <2>2 DEF ToldToFree
    <3> QED BY <3>1, StepsThatFree, Zenon
  <2>3. ASSUME s = <<ToCas(x), ToFreeHook(x), ToPut(x)>>
        PROVE  (ToldToFree(s, b) <=> x = b)
    <3>1. ToldToFree(s, b) <=> IsFree(ToCas(x), b) \/ IsFree(ToFreeHook(x), b)
           \/ IsFree(ToPut(x), b)
      BY <2>3 DEF ToldToFree
    <3> QED BY <3>1, StepsThatFree, Zenon
  <2> QED BY <2>1, <2>2, <2>3, Zenon DEF FreeSteps
<1>4. PutSteps(s, p, x) => ~ToldToFree(s, b)
  <2>1. ASSUME s = <<ToFreeHook(x), ToPut(x)>>
        PROVE  ~ToldToFree(s, b)
    <3>1. ToldToFree(s, b) <=> IsFree(ToFreeHook(x), b) \/ IsFree(ToPut(x), b)
      BY <2>1 DEF ToldToFree
    <3> QED BY <3>1, StepsThatFree, Zenon
  <2>2. ASSUME s = <<ToPut(x)>>
        PROVE  ~ToldToFree(s, b)
    <3>1. ToldToFree(s, b) <=> IsFree(ToPut(x), b)
      BY <2>2 DEF ToldToFree
    <3> QED BY <3>1, StepsThatFree, Zenon
  <2> QED BY <2>1, <2>2, Zenon DEF PutSteps
<1>5. InternalSteps(s, x) => ~ToldToFree(s, b)
  <2>1. ASSUME s = <<ToFreeInternal(x)>>
        PROVE  ~ToldToFree(s, b)
    <3>1. ToldToFree(s, b) <=> IsFree(ToFreeInternal(x), b)
      BY <2>1 DEF ToldToFree
    <3> QED BY <3>1, StepsThatFree, Zenon
  <2>2. ASSUME s = <<ToFreeHook(x), ToDeallocate(x)>>
        PROVE  ~ToldToFree(s, b)
    <3>1. ToldToFree(s, b) <=> IsFree(ToFreeHook(x), b) \/ IsFree(ToDeallocate(x), b)
      BY <2>2 DEF ToldToFree
    <3> QED BY <3>1, StepsThatFree, Zenon
  <2>3. ASSUME s = <<ToDeallocate(x)>>
        PROVE  ~ToldToFree(s, b)
    <3>1. ToldToFree(s, b) <=> IsFree(ToDeallocate(x), b)
      BY <2>3 DEF ToldToFree
    <3> QED BY <3>1, StepsThatFree, Zenon
  <2> QED BY <2>1, <2>2, <2>3, Zenon DEF InternalSteps
<1>6. RecycleSteps(s, p, x) => ~ToldToFree(s, b)
  <2>1. ASSUME s = <<ToInvalid(x), ToPoison(x), ToDeallocate(x)>>
        PROVE  ~ToldToFree(s, b)
    <3>1. ToldToFree(s, b) <=> IsFree(ToInvalid(x), b) \/ IsFree(ToPoison(x), b)
           \/ IsFree(ToDeallocate(x), b)
      BY <2>1 DEF ToldToFree
    <3> QED BY <3>1, StepsThatFree, Zenon
  <2>2. ASSUME s = <<ToPoison(x), ToDeallocate(x)>>
        PROVE  ~ToldToFree(s, b)
    <3>1. ToldToFree(s, b) <=> IsFree(ToPoison(x), b) \/ IsFree(ToDeallocate(x), b)
      BY <2>2 DEF ToldToFree
    <3> QED BY <3>1, StepsThatFree, Zenon
  <2>3. ASSUME s = <<ToDeallocate(x)>>
        PROVE  ~ToldToFree(s, b)
    <3>1. ToldToFree(s, b) <=> IsFree(ToDeallocate(x), b)
      BY <2>3 DEF ToldToFree
    <3> QED BY <3>1, StepsThatFree, Zenon
  <2> QED BY <2>1, <2>2, <2>3, Zenon DEF RecycleSteps
<1>7. RecycleOnSteps(s, p, x, S) => ~ToldToFree(s, b)
  <2>1. ASSUME s = <<ToInvalid(x), ToPoison(x), ToDeallocate(x), ToRecycle(S)>>
        PROVE  ~ToldToFree(s, b)
    <3>1. ToldToFree(s, b) <=> IsFree(ToInvalid(x), b) \/ IsFree(ToPoison(x), b)
           \/ IsFree(ToDeallocate(x), b) \/ IsFree(ToRecycle(S), b)
      BY <2>1 DEF ToldToFree
    <3> QED BY <3>1, StepsThatFree, Zenon
  <2>2. ASSUME s = <<ToPoison(x), ToDeallocate(x), ToRecycle(S)>>
        PROVE  ~ToldToFree(s, b)
    <3>1. ToldToFree(s, b) <=> IsFree(ToPoison(x), b) \/ IsFree(ToDeallocate(x), b)
           \/ IsFree(ToRecycle(S), b)
      BY <2>2 DEF ToldToFree
    <3> QED BY <3>1, StepsThatFree, Zenon
  <2>3. ASSUME s = <<ToDeallocate(x), ToRecycle(S)>>
        PROVE  ~ToldToFree(s, b)
    <3>1. ToldToFree(s, b) <=> IsFree(ToDeallocate(x), b) \/ IsFree(ToRecycle(S), b)
      BY <2>3 DEF ToldToFree
    <3> QED BY <3>1, StepsThatFree, Zenon
  <2> QED BY <2>1, <2>2, <2>3, Zenon DEF RecycleOnSteps
<1> QED BY <1>1, <1>2, <1>3, <1>4, <1>5, <1>6, <1>7, Zenon

LEMMA ToldPlan ==
  ASSUME NEW s, NEW t, NEW phase, NEW holder, NEW D, NEW b, Plan(s, t, phase, holder, D)
  PROVE  ToldToFree(s, b) <=> b \in D
<1>1. ASSUME Idles(s, t, phase, holder, D)
      PROVE  ToldToFree(s, b) <=> b \in D
  <2>1. s = <<>> => ~ToldToFree(s, b)
    BY DEF ToldToFree
  <2>2. s = <<<<"transfer">>>> => (ToldToFree(s, b) => IsFree(<<"transfer">>, b))
    BY DEF ToldToFree
  <2>3. s = <<<<"extract">>>> => (ToldToFree(s, b) => IsFree(<<"extract">>, b))
    BY DEF ToldToFree
  <2>4. D = {}
    BY <1>1, Zenon DEF Idles
  <2> QED BY <1>1, <2>1, <2>2, <2>3, <2>4, StepsThatFree, Zenon DEF Idles
<1>2. ASSUME Frees(s, t, phase, holder, D)
      PROVE  ToldToFree(s, b) <=> b \in D
  BY <1>2, ToldSteps, Zenon DEF Frees
<1>3. ASSUME Replaces(s, t, phase, holder, D)
      PROVE  ToldToFree(s, b) <=> b \in D
  BY <1>3, ToldSteps, Zenon DEF Replaces
<1>4. Serves(s, t, phase, holder, D) => D = {} /\ ~ToldToFree(s, b)
  BY ToldSteps, Zenon DEF Serves
<1>5. Puts(s, t, phase, holder, D) => D = {} /\ ~ToldToFree(s, b)
  BY ToldSteps, Zenon DEF Puts
<1>6. FreesInternal(s, t, phase, holder, D) => D = {} /\ ~ToldToFree(s, b)
  BY ToldSteps, Zenon DEF FreesInternal
<1>7. RecyclesLast(s, t, phase, holder, D) => D = {} /\ ~ToldToFree(s, b)
  BY ToldSteps, Zenon DEF RecyclesLast
<1>8. RecyclesOne(s, t, phase, holder, D) => D = {} /\ ~ToldToFree(s, b)
  BY ToldSteps, Zenon DEF RecyclesOne
<1>9. RecyclesSet(s, t, phase, holder, D) => D = {} /\ ~ToldToFree(s, b)
  <2>1. SUFFICES ASSUME NEW S, s = <<ToRecycle(S)>>
                 PROVE  ~ToldToFree(s, b)
    BY Zenon DEF RecyclesSet
  <2>2. ToldToFree(s, b) => IsFree(ToRecycle(S), b)
    BY <2>1 DEF ToldToFree
  <2> QED BY <2>2, StepsThatFree, Zenon
<1>10. D = {} => b \notin D
  OBVIOUS
<1> QED BY <1>1, <1>2, <1>3, <1>4, <1>5, <1>6, <1>7, <1>8, <1>9, <1>10, Zenon DEF Plan

----------------------------------------------------------------------------
(* The plans behind the other steps. *)

LEMMA PlanRest ==
  ASSUME NEW s, NEW t, NEW phase, NEW holder, NEW D, Plan(s, t, phase, holder, D), s = <<>>
  PROVE  D = {} /\ EmptyHanded(t, phase, holder)
<1>1. ~Frees(s, t, phase, holder, D)
  BY FreeStepsNext, Zenon DEF Frees
<1>2. ~Serves(s, t, phase, holder, D) /\ ~Replaces(s, t, phase, holder, D)
  BY ServeStepsNext, ReplaceStepsNext, Zenon DEF Serves, Replaces
<1>3. ~Puts(s, t, phase, holder, D) /\ ~FreesInternal(s, t, phase, holder, D)
  BY PutStepsNext, InternalStepsNext, Zenon DEF Puts, FreesInternal
<1>4. ~RecyclesLast(s, t, phase, holder, D) /\ ~RecyclesOne(s, t, phase, holder, D)
  BY RecycleStepsNext, RecycleOnStepsNext, Zenon DEF RecyclesLast, RecyclesOne
<1>5. ~RecyclesSet(s, t, phase, holder, D)
  <2>1. \A S : s # <<ToRecycle(S)>>
    OBVIOUS
  <2> QED BY <2>1, Zenon DEF RecyclesSet
<1> QED BY <1>1, <1>2, <1>3, <1>4, <1>5, Zenon DEF Plan, Idles

LEMMA PlanDrain ==
  ASSUME NEW s, NEW t, NEW phase, NEW holder, NEW D, Plan(s, t, phase, holder, D),
         s # <<>>, Head(s)[1] \in {"transfer", "extract"}
  PROVE  D = {} /\ EmptyHanded(t, phase, holder) /\ Tail(s) = <<>>
<1>1. Idles(s, t, phase, holder, D)
  BY NextSteps DEF Plan
<1>2. \/ s = <<<<"transfer">>>> \/ s = <<<<"extract">>>>
  BY <1>1, Zenon DEF Idles
<1>3. \A x : s = <<x>> => Tail(s) = <<>>
  OBVIOUS
<1> QED BY <1>1, <1>2, <1>3, Zenon DEF Idles

LEMMA PlanCheck ==
  ASSUME NEW s, NEW t, NEW phase, NEW holder, NEW D, Plan(s, t, phase, holder, D),
         s # <<>>, Head(s)[1] = "check"
  PROVE  \E b \in Blocks : /\ Head(s)[2] = b /\ D = {b} /\ EmptyHanded(t, phase, holder)
                           /\ FreeSteps(<<>> \o Tail(s), b)
<1>1. Frees(s, t, phase, holder, D)
  BY NextSteps DEF Plan
<1>2. PICK b \in Blocks : D = {b} /\ FreeSteps(s, b)
  BY <1>1, Zenon DEF Frees
<1>3. Head(s)[2] = b /\ FreeSteps(<<>> \o Tail(s), b)
  BY <1>2, FreeStepsNext
<1> QED BY <1>1, <1>2, <1>3, Zenon DEF Frees

LEMMA PlanCas ==
  ASSUME NEW s, NEW t, NEW phase, NEW holder, NEW D, Plan(s, t, phase, holder, D),
         s # <<>>, Head(s)[1] = "cas"
  PROVE  \E b \in Blocks : /\ Head(s)[2] = b /\ D = {b} /\ EmptyHanded(t, phase, holder)
                           /\ PutSteps(<<>> \o Tail(s), "free_hook", b)
<1>1. Frees(s, t, phase, holder, D)
  BY NextSteps DEF Plan
<1>2. PICK b \in Blocks : D = {b} /\ FreeSteps(s, b)
  BY <1>1, Zenon DEF Frees
<1>3. Head(s)[2] = b /\ PutSteps(<<>> \o Tail(s), "free_hook", b)
  BY <1>2, FreeStepsNext
<1> QED BY <1>1, <1>2, <1>3, Zenon DEF Frees

LEMMA PlanFree ==
  ASSUME NEW s, NEW t, NEW phase, NEW holder, NEW D, Plan(s, t, phase, holder, D),
         s # <<>>, Head(s)[1] = "free"
  PROVE  \E b \in Blocks :
           /\ Head(s)[2] = b /\ Tail(s) = <<>>
           /\ \/ D = {b} /\ EmptyHanded(t, phase, holder) /\ Head(s)[3] = 1
              \/ D = {} /\ HoldsOne(t, b, "internal", phase, holder) /\ Head(s)[3] = 0
<1>1. CASE Frees(s, t, phase, holder, D)
  <2>1. PICK b \in Blocks : D = {b} /\ FreeSteps(s, b)
    BY <1>1, Zenon DEF Frees
  <2>2. Head(s)[2] = b /\ Tail(s) = <<>> /\ Head(s)[3] = 1
    BY <2>1, FreeStepsNext
  <2> QED BY <1>1, <2>1, <2>2, Zenon DEF Frees
<1>2. CASE FreesInternal(s, t, phase, holder, D)
  <2>1. PICK b \in Blocks :
          /\ D = {} /\ HoldsOne(t, b, "internal", phase, holder) /\ InternalSteps(s, b)
    BY <1>2, Zenon DEF FreesInternal
  <2>2. Head(s)[2] = b /\ Tail(s) = <<>> /\ Head(s)[3] = 0
    BY <2>1, InternalStepsNext
  <2> QED BY <2>1, <2>2, Zenon
<1> QED BY <1>1, <1>2, NextSteps DEF Plan

LEMMA PlanFreeHook ==
  ASSUME NEW s, NEW t, NEW phase, NEW holder, NEW D, Plan(s, t, phase, holder, D),
         s # <<>>, Head(s)[1] = "free_hook"
  PROVE  \E b \in Blocks :
           /\ Head(s)[2] = b /\ D = {}
           /\ \/ /\ HoldsOne(t, b, "free_hook", phase, holder)
                 /\ PutSteps(<<>> \o Tail(s), "put", b)
              \/ /\ HoldsOne(t, b, "internal", phase, holder)
                 /\ InternalSteps(<<>> \o Tail(s), b)
<1>1. CASE Puts(s, t, phase, holder, D)
  <2>1. PICK b \in Blocks, p \in Held :
          /\ D = {} /\ HoldsOne(t, b, p, phase, holder) /\ PutSteps(s, p, b)
    BY <1>1, Zenon DEF Puts
  <2>2. p = "free_hook" /\ Head(s)[2] = b /\ PutSteps(<<>> \o Tail(s), "put", b)
    BY <2>1, PutStepsNext
  <2> QED BY <2>1, <2>2, Zenon
<1>2. CASE FreesInternal(s, t, phase, holder, D)
  <2>1. PICK b \in Blocks :
          /\ D = {} /\ HoldsOne(t, b, "internal", phase, holder) /\ InternalSteps(s, b)
    BY <1>2, Zenon DEF FreesInternal
  <2>2. Head(s)[2] = b /\ InternalSteps(<<>> \o Tail(s), b)
    BY <2>1, InternalStepsNext
  <2> QED BY <2>1, <2>2, Zenon
<1> QED BY <1>1, <1>2, NextSteps DEF Plan

LEMMA PlanPut ==
  ASSUME NEW s, NEW t, NEW phase, NEW holder, NEW D, Plan(s, t, phase, holder, D),
         s # <<>>, Head(s)[1] = "put"
  PROVE  \E b \in Blocks : /\ Head(s)[2] = b /\ D = {} /\ Tail(s) = <<>>
                           /\ HoldsOne(t, b, "put", phase, holder)
<1>1. Puts(s, t, phase, holder, D)
  BY NextSteps DEF Plan
<1>2. PICK b \in Blocks, p \in Held :
        /\ D = {} /\ HoldsOne(t, b, p, phase, holder) /\ PutSteps(s, p, b)
  BY <1>1, Zenon DEF Puts
<1>3. p = "put" /\ Head(s)[2] = b /\ Tail(s) = <<>>
  BY <1>2, PutStepsNext
<1> QED BY <1>2, <1>3, Zenon

LEMMA PlanRecycle ==
  ASSUME NEW s, NEW t, NEW phase, NEW holder, NEW D, Plan(s, t, phase, holder, D),
         s # <<>>, Head(s)[1] = "recycle"
  PROVE  \E S \in SUBSET Blocks : /\ Head(s)[2] = S /\ D = {} /\ Tail(s) = <<>>
                                  /\ HoldsSet(t, S, phase, holder)
<1>1. RecyclesSet(s, t, phase, holder, D)
  BY NextSteps DEF Plan
<1>2. PICK S \in SUBSET Blocks :
        D = {} /\ HoldsSet(t, S, phase, holder) /\ s = <<ToRecycle(S)>>
  BY <1>1, Zenon DEF RecyclesSet
<1>3. Head(s) = ToRecycle(S) /\ Tail(s) = <<>>
  BY <1>2
<1>4. Head(s)[2] = S
  BY <1>3 DEF ToRecycle
<1> QED BY <1>2, <1>3, <1>4, Zenon

\* After the next step, what is left fits the next phase of b.
RecyclesOn(s, t, b, phase, holder, D) ==
  \A phase2, holder2 :
    /\ phase2[b] = (IF Head(s)[1] = "invalid" THEN "poison" ELSE "deallocate")
    /\ \A x \in Blocks : /\ Owns(t, x, phase2, holder2) <=> Owns(t, x, phase, holder)
                         /\ x # b => phase2[x] = phase[x]
    => Plan(<<>> \o Tail(s), t, phase2, holder2, D)

\* Whether or not others are to be recycled after b.
LEMMA PlanRecycling ==
  ASSUME NEW s, NEW t, NEW phase, NEW holder, NEW D, Plan(s, t, phase, holder, D),
         s # <<>>, Head(s)[1] \in {"invalid", "poison"}
  PROVE  \E b \in Blocks :
           /\ Head(s)[2] = b /\ D = {}
           /\ phase[b] = Head(s)[1] /\ Owns(t, b, phase, holder)
           /\ RecyclesOn(s, t, b, phase, holder, D)
<1>1. CASE RecyclesLast(s, t, phase, holder, D)
  <2>1. PICK b \in Blocks, p \in Held :
          /\ D = {} /\ HoldsOne(t, b, p, phase, holder) /\ RecycleSteps(s, p, b)
    BY <1>1, Zenon DEF RecyclesLast
  <2>2. p = Head(s)[1] /\ Head(s)[2] = b
    BY <2>1, RecycleStepsNext, Zenon
  <2>3. phase[b] = p /\ Owns(t, b, phase, holder)
    BY <2>1, Zenon DEF HoldsOne
  <2> DEFINE q == IF p = "invalid" THEN "poison" ELSE "deallocate"
  <2>4. RecycleSteps(<<>> \o Tail(s), q, b) /\ q \in Held
    BY <2>1, <2>2, RecycleStepsNext DEF Held
  <2>5. q = IF Head(s)[1] = "invalid" THEN "poison" ELSE "deallocate"
    BY <2>2
  <2> HIDE DEF q
  <2>6. ASSUME NEW phase2, NEW holder2, phase2[b] = q,
               \A x \in Blocks :
                 /\ Owns(t, x, phase2, holder2) <=> Owns(t, x, phase, holder)
                 /\ x # b => phase2[x] = phase[x]
        PROVE  Plan(<<>> \o Tail(s), t, phase2, holder2, D)
    <3>1. HoldsOne(t, b, q, phase2, holder2)
      BY <2>1, <2>6, Zenon DEF HoldsOne
    <3> QED BY <2>1, <2>4, <3>1, Zenon DEF RecyclesLast, Plan
  <2>7. phase[b] = Head(s)[1] /\ D = {}
    BY <2>1, <2>2, <2>3
  <2>8. RecyclesOn(s, t, b, phase, holder, D)
    BY <2>5, <2>6, Zenon DEF RecyclesOn
  <2> QED BY <2>2, <2>3, <2>7, <2>8
<1>2. CASE RecyclesOne(s, t, phase, holder, D)
  <2>1. PICK b \in Blocks, p \in Held, S \in SUBSET Blocks :
          /\ D = {} /\ S # {}
          /\ HoldsBoth(t, b, p, S, phase, holder) /\ RecycleOnSteps(s, p, b, S)
    BY <1>2, Zenon DEF RecyclesOne
  <2>2. p = Head(s)[1] /\ Head(s)[2] = b
    BY <2>1, RecycleOnStepsNext, Zenon
  <2>3. phase[b] = p /\ Owns(t, b, phase, holder)
    BY <2>1 DEF HoldsBoth
  <2> DEFINE q == IF p = "invalid" THEN "poison" ELSE "deallocate"
  <2>4. RecycleOnSteps(<<>> \o Tail(s), q, b, S) /\ q \in Held
    BY <2>1, <2>2, RecycleOnStepsNext DEF Held
  <2>5. q = IF Head(s)[1] = "invalid" THEN "poison" ELSE "deallocate"
    BY <2>2
  <2> HIDE DEF q
  <2>6. ASSUME NEW phase2, NEW holder2, phase2[b] = q,
               \A x \in Blocks :
                 /\ Owns(t, x, phase2, holder2) <=> Owns(t, x, phase, holder)
                 /\ x # b => phase2[x] = phase[x]
        PROVE  Plan(<<>> \o Tail(s), t, phase2, holder2, D)
    <3>1. HoldsBoth(t, b, q, S, phase2, holder2)
      BY <2>1, <2>6 DEF HoldsBoth
    <3> QED BY <2>1, <2>4, <3>1, Zenon DEF RecyclesOne, Plan
  <2>7. phase[b] = Head(s)[1] /\ D = {}
    BY <2>1, <2>2, <2>3
  <2>8. RecyclesOn(s, t, b, phase, holder, D)
    BY <2>5, <2>6, Zenon DEF RecyclesOn
  <2> QED BY <2>2, <2>3, <2>7, <2>8
<1> QED BY <1>1, <1>2, NextSteps DEF Plan

\* Once b is gone, what is left fits.
LetsGo(s, t, b, phase, holder, D) ==
  \A phase2, holder2 :
    /\ ~Owns(t, b, phase2, holder2)
    /\ \A x \in Blocks \ {b} :
         /\ Owns(t, x, phase2, holder2) <=> Owns(t, x, phase, holder)
         /\ phase2[x] = phase[x]
    => Plan(<<>> \o Tail(s), t, phase2, holder2, D)

\* The block goes back to the allocator, whoever had it.
LEMMA PlanDeallocate ==
  ASSUME NEW s, NEW t, NEW phase, NEW holder, NEW D, Plan(s, t, phase, holder, D),
         s # <<>>, Head(s)[1] = "deallocate"
  PROVE  \E b \in Blocks :
           /\ Head(s)[2] = b /\ D = {}
           /\ phase[b] \in {"internal", "deallocate"} /\ Owns(t, b, phase, holder)
           /\ LetsGo(s, t, b, phase, holder, D)
<1> DEFINE Lets(b, phase2, holder2) ==
             /\ ~Owns(t, b, phase2, holder2)
             /\ \A x \in Blocks \ {b} :
                  /\ Owns(t, x, phase2, holder2) <=> Owns(t, x, phase, holder)
                  /\ phase2[x] = phase[x]
<1>1. ASSUME NEW b \in Blocks, NEW p, HoldsOne(t, b, p, phase, holder), D = {},
             NEW phase2, NEW holder2, Lets(b, phase2, holder2), <<>> \o Tail(s) = <<>>
      PROVE  Plan(<<>> \o Tail(s), t, phase2, holder2, D)
  <2>1. EmptyHanded(t, phase2, holder2)
    BY <1>1 DEF EmptyHanded, HoldsOne
  <2> QED BY <1>1, <2>1, Zenon DEF Idles, Plan
<1>2. CASE RecyclesLast(s, t, phase, holder, D)
  <2>1. PICK b \in Blocks, p \in Held :
          /\ D = {} /\ HoldsOne(t, b, p, phase, holder) /\ RecycleSteps(s, p, b)
    BY <1>2, Zenon DEF RecyclesLast
  <2>2. p = "deallocate" /\ Head(s)[2] = b /\ <<>> \o Tail(s) = <<>>
    BY <2>1, RecycleStepsNext
  <2>3. phase[b] = "deallocate" /\ Owns(t, b, phase, holder)
    BY <2>1, <2>2, Zenon DEF HoldsOne
  <2>4. LetsGo(s, t, b, phase, holder, D)
    BY <2>1, <2>2, <1>1, Zenon DEF LetsGo
  <2> QED BY <2>1, <2>2, <2>3, <2>4, Zenon
<1>3. CASE FreesInternal(s, t, phase, holder, D)
  <2>1. PICK b \in Blocks :
          /\ D = {} /\ HoldsOne(t, b, "internal", phase, holder) /\ InternalSteps(s, b)
    BY <1>3, Zenon DEF FreesInternal
  <2>2. Head(s)[2] = b /\ <<>> \o Tail(s) = <<>>
    BY <2>1, InternalStepsNext
  <2>3. phase[b] = "internal" /\ Owns(t, b, phase, holder)
    BY <2>1, Zenon DEF HoldsOne
  <2>4. LetsGo(s, t, b, phase, holder, D)
    BY <2>1, <2>2, <1>1, Zenon DEF LetsGo
  <2> QED BY <2>1, <2>2, <2>3, <2>4, Zenon
<1>4. CASE RecyclesOne(s, t, phase, holder, D)
  <2>1. PICK b \in Blocks, p \in Held, S \in SUBSET Blocks :
          /\ D = {} /\ S # {}
          /\ HoldsBoth(t, b, p, S, phase, holder) /\ RecycleOnSteps(s, p, b, S)
    BY <1>4, Zenon DEF RecyclesOne
  <2>2. p = "deallocate" /\ Head(s)[2] = b /\ <<>> \o Tail(s) = <<ToRecycle(S)>>
    BY <2>1, RecycleOnStepsNext
  <2>3. phase[b] = "deallocate" /\ Owns(t, b, phase, holder)
    BY <2>1, <2>2 DEF HoldsBoth
  <2>4. ASSUME NEW phase2, NEW holder2, Lets(b, phase2, holder2)
        PROVE  Plan(<<>> \o Tail(s), t, phase2, holder2, D)
    <3>1. HoldsSet(t, S, phase2, holder2)
      BY <2>1, <2>4 DEF HoldsSet, HoldsBoth
    <3> QED BY <2>1, <2>2, <3>1, Zenon DEF RecyclesSet, Plan
  <2>5. LetsGo(s, t, b, phase, holder, D)
    BY <2>4, Zenon DEF LetsGo
  <2> QED BY <2>1, <2>2, <2>3, <2>5, Zenon
<1> QED BY <1>2, <1>3, <1>4, NextSteps, Zenon DEF Plan

----------------------------------------------------------------------------
(* Steps that touch one block. *)

LEMMA AboutToFreeIs ==
  ASSUME NEW phase, NEW holder, NEW doom, Inv(phase, holder, doom), NEW b
  PROVE  AboutToFree(b) <=> Doomers(b, doom) # {}
<1>1. AboutToFree(b) <=> \E u \in Threads : ToldToFree(todo[u], b)
  BY Zenon DEF AboutToFree, ToldToFree, IsFree
<1>2. \A u \in Threads : ToldToFree(todo[u], b) <=> b \in doom[u]
  BY ToldPlan, Zenon DEF Inv
<1> QED BY <1>1, <1>2 DEF Doomers

LEMMA StepKeeps ==
  ASSUME NEW phase, NEW holder, NEW doom, Inv(phase, holder, doom),
         NEW phase2 \in [Blocks -> Phases], NEW holder2 \in [Blocks -> Holders],
         NEW doom2 \in [Threads -> SUBSET Blocks], NEW t \in Threads,
         Types',
         \A u \in Threads \ {t} : todo'[u] = todo[u] /\ doom2[u] = doom[u],
         \A u \in Threads \ {t}, x \in Blocks :
           /\ Owns(u, x, phase2, holder2) <=> Owns(u, x, phase, holder)
           /\ Owns(u, x, phase, holder) => phase2[x] = phase[x],
         Plan(todo'[t], t, phase2, holder2, doom2[t]),
         \A x \in Blocks : /\ At(x, phase2[x], holder2[x])'
                           /\ Fits(x, phase2[x], Doomers(x, doom2))'
  PROVE  HeapInv'
<1>1. ASSUME NEW u \in Threads
      PROVE  Plan(todo'[u], u, phase2, holder2, doom2[u])
  <2>1. CASE u = t
    BY <2>1, Zenon
  <2>2. CASE u # t
    <3>1. Plan(todo[u], u, phase, holder, doom[u])
      BY Zenon DEF Inv
    <3>2. todo'[u] = todo[u] /\ doom2[u] = doom[u]
      BY <2>2
    <3>3. \A x \in Blocks :
            /\ Owns(u, x, phase2, holder2) <=> Owns(u, x, phase, holder)
            /\ Owns(u, x, phase, holder) => phase2[x] = phase[x]
      BY <2>2
    <3>4. Plan(todo[u], u, phase2, holder2, doom[u])
      BY <3>1, <3>3, PlanFrame
    <3> QED BY <3>2, <3>4, Zenon
  <2> QED BY <2>1, <2>2, Zenon
<1>2. Inv(phase2, holder2, doom2)'
  BY <1>1, Zenon DEF Inv
<1> QED BY <1>2 DEF HeapInv

\* What else there is of block x is as it was.
Untouched(x) ==
  /\ (x \in pool') <=> (x \in pool)
  /\ (x \in live') <=> (x \in live)
  /\ (x \in internals') <=> (x \in internals)
  /\ (x \in batches') <=> (x \in batches)
  /\ (x \in quarantined') <=> (x \in quarantined)
  /\ \A u \in Threads : (x \in cache'[u]) <=> (x \in cache[u])
  /\ chunk_state'[x] = chunk_state[x] /\ size'[x] = size[x]
  /\ shadow'[x] = shadow[x] /\ meta'[x] = meta[x]
  /\ frees'[x] = frees[x] /\ reports'[x] = reports[x]

LEMMA UntouchedFits ==
  ASSUME NEW x, NEW p, NEW h, NEW DD, Untouched(x), At(x, p, h), Fits(x, p, DD)
  PROVE  At(x, p, h)' /\ Fits(x, p, DD)'
<1>1. At(x, p, h)'
  BY Zenon DEF At, Untouched
<1>2. Fits(x, p, DD)'
  BY Zenon DEF Fits, Untouched
<1> QED BY <1>1, <1>2

\* The threads that are to free b, when those of t are D.
DoomersThen(b, doom, t, D) ==
  IF b \in D THEN Doomers(b, doom) \cup {t} ELSE Doomers(b, doom) \ {t}

LEMMA BlockStep ==
  ASSUME NEW phase \in [Blocks -> Phases], NEW holder \in [Blocks -> Holders],
         NEW doom \in [Threads -> SUBSET Blocks], Inv(phase, holder, doom),
         NEW t \in Threads, NEW b \in Blocks, NEW p \in Phases,
         NEW D \in SUBSET Blocks,
         Types', \A u \in Threads \ {t} : todo'[u] = todo[u],
         phase[b] \in Held => holder[b] = t,
         \A x \in Blocks \ {b} : x \in D <=> x \in doom[t],
         \A x \in Blocks \ {b} : Untouched(x),
         Plan(todo'[t], t, [phase EXCEPT ![b] = p], [holder EXCEPT ![b] = t], D),
         At(b, p, t)', Fits(b, p, DoomersThen(b, doom, t, D))'
  PROVE  HeapInv'
<1> DEFINE phase2 == [phase EXCEPT ![b] = p]
           holder2 == [holder EXCEPT ![b] = t]
           doom2 == [doom EXCEPT ![t] = D]
<1>1. /\ phase2 \in [Blocks -> Phases] /\ holder2 \in [Blocks -> Holders]
      /\ doom2 \in [Threads -> SUBSET Blocks]
  BY DEF Holders
<1>2. /\ phase2[b] = p /\ holder2[b] = t /\ doom2[t] = D
      /\ \A x \in Blocks \ {b} : phase2[x] = phase[x] /\ holder2[x] = holder[x]
      /\ \A u \in Threads \ {t} : doom2[u] = doom[u]
  OBVIOUS
<1>3. Plan(todo'[t], t, phase2, holder2, doom2[t])
  BY <1>2, Zenon
<1> HIDE DEF phase2, holder2, doom2
<1>4. ASSUME NEW u \in Threads \ {t}, NEW x \in Blocks
      PROVE  /\ Owns(u, x, phase2, holder2) <=> Owns(u, x, phase, holder)
             /\ Owns(u, x, phase, holder) => phase2[x] = phase[x]
  BY <1>2 DEF Owns
<1>5. ASSUME NEW x \in Blocks
      PROVE  At(x, phase2[x], holder2[x])' /\ Fits(x, phase2[x], Doomers(x, doom2))'
  <2>1. CASE x = b
    <3>1. Doomers(b, doom2) = DoomersThen(b, doom, t, D)
      BY <1>2 DEF Doomers, DoomersThen
    <3> QED BY <2>1, <3>1, <1>2, Zenon
  <2>2. CASE x # b
    <3>1. Doomers(x, doom2) = Doomers(x, doom)
      BY <1>2, <2>2 DEF Doomers
    <3>2. phase2[x] = phase[x] /\ holder2[x] = holder[x] /\ Untouched(x)
      BY <1>2, <2>2
    <3>3. At(x, phase[x], holder[x]) /\ Fits(x, phase[x], Doomers(x, doom))
      BY Zenon DEF Inv
    <3>4. At(x, phase[x], holder[x])' /\ Fits(x, phase[x], Doomers(x, doom))'
      BY <3>2, <3>3, UntouchedFits, Zenon
    <3> QED BY <3>1, <3>2, <3>4, Zenon
  <2> QED BY <2>1, <2>2, Zenon
<1>6. \A u \in Threads \ {t} : todo'[u] = todo[u] /\ doom2[u] = doom[u]
  BY <1>2
<1>7. \A u \in Threads \ {t}, x \in Blocks :
        /\ Owns(u, x, phase2, holder2) <=> Owns(u, x, phase, holder)
        /\ Owns(u, x, phase, holder) => phase2[x] = phase[x]
  BY <1>4, Zenon
<1>8. \A x \in Blocks : /\ At(x, phase2[x], holder2[x])'
                        /\ Fits(x, phase2[x], Doomers(x, doom2))'
  BY <1>5, Zenon
<1> QED BY <1>1, <1>3, <1>6, <1>7, <1>8, StepKeeps

\* The hands of t when b gets a phase.
LEMMA Hands ==
  ASSUME NEW phase \in [Blocks -> Phases], NEW holder \in [Blocks -> Holders],
         NEW t \in Threads, NEW b \in Blocks, NEW p,
         \/ EmptyHanded(t, phase, holder)
         \/ \E q \in Phases : HoldsOne(t, b, q, phase, holder)
  PROVE  /\ p \notin Held =>
              EmptyHanded(t, [phase EXCEPT ![b] = p], [holder EXCEPT ![b] = t])
         /\ p \in Held =>
              HoldsOne(t, b, p, [phase EXCEPT ![b] = p], [holder EXCEPT ![b] = t])
<1> DEFINE phase2 == [phase EXCEPT ![b] = p]
           holder2 == [holder EXCEPT ![b] = t]
<1>1. \A x \in Blocks \ {b} : ~Owns(t, x, phase, holder)
  BY DEF EmptyHanded, HoldsOne
<1>2. /\ phase2[b] = p /\ holder2[b] = t
      /\ \A x \in Blocks \ {b} : phase2[x] = phase[x] /\ holder2[x] = holder[x]
  OBVIOUS
<1> HIDE DEF phase2, holder2
<1>3. p \notin Held => EmptyHanded(t, phase2, holder2)
  BY <1>1, <1>2 DEF EmptyHanded, Owns
<1>4. p \in Held => HoldsOne(t, b, p, phase2, holder2)
  BY <1>1, <1>2 DEF HoldsOne, Owns
<1> QED BY <1>3, <1>4 DEF phase2, holder2

LEMMA SameDoomers ==
  ASSUME NEW b, NEW doom, NEW t \in Threads
  PROVE  DoomersThen(b, doom, t, doom[t]) = Doomers(b, doom)
BY DEF DoomersThen, Doomers

\* The step of a call that does not free anything, or is not through with it.
LEMMA QuietStep ==
  ASSUME NEW phase \in [Blocks -> Phases], NEW holder \in [Blocks -> Holders],
         NEW doom \in [Threads -> SUBSET Blocks], Inv(phase, holder, doom),
         NEW t \in Threads, NEW b \in Blocks, NEW p \in Phases,
         Types', \A u \in Threads \ {t} : todo'[u] = todo[u],
         phase[b] \in Held => holder[b] = t,
         \A x \in Blocks \ {b} : Untouched(x),
         Plan(todo'[t], t, [phase EXCEPT ![b] = p], [holder EXCEPT ![b] = t], doom[t]),
         At(b, p, t)', Fits(b, p, Doomers(b, doom))'
  PROVE  HeapInv'
<1>1. PICK D : D = doom[t]
  OBVIOUS
<1>2. D \in SUBSET Blocks /\ \A x \in Blocks \ {b} : x \in D <=> x \in doom[t]
  BY <1>1
<1>3. DoomersThen(b, doom, t, D) = Doomers(b, doom)
  BY <1>1, SameDoomers
<1>4. Fits(b, p, DoomersThen(b, doom, t, D))'
  BY <1>3, Zenon
<1>5. Plan(todo'[t], t, [phase EXCEPT ![b] = p], [holder EXCEPT ![b] = t], D)
  BY <1>1, Zenon
<1> QED BY <1>2, <1>4, <1>5, BlockStep

\* What a served block promises, and the counts start with.
LEMMA ServedFits ==
  ASSUME NEW phase, NEW holder, NEW doom, Inv(phase, holder, doom),
         NEW b \in Blocks, phase[b] = "pool"
  PROVE  /\ Doomers(b, doom) = {}
         /\ \A n, st, me : /\ ShadowFits("redzones", n, shadow[b])
                           /\ HeaderFits("redzones", st, n, me)
         /\ CountsFit("redzones", 0, 0, Doomers(b, doom))
<1>1. Fits(b, "pool", Doomers(b, doom))
  BY Zenon DEF Inv
<1>2. Doomers(b, doom) = {}
  BY <1>1 DEF Fits, CountsFit, Won
<1>3. \A n, st, me : /\ ShadowFits("redzones", n, shadow[b])
                     /\ HeaderFits("redzones", st, n, me)
  BY <1>1 DEF Fits, ShadowFits, HeaderFits, Won
<1>4. CountsFit("redzones", 0, 0, {})
  BY DEF CountsFit, TwoOf, Won
<1> QED BY <1>2, <1>3, <1>4

LEMMA ReportIs ==
  ASSUME Types, NEW b \in Blocks, Report(b)
  PROVE  /\ reports' \in [Blocks -> Nat] /\ reports[b] \in Nat
         /\ reports'[b] = reports[b] + 1
         /\ \A x \in Blocks \ {b} : reports'[x] = reports[x]
<1>1. reports \in [Blocks -> Nat] /\ reports[b] \in Nat /\ reports[b] + 1 \in Nat
  BY DEF Types
<1>2. reports' = [reports EXCEPT ![b] = reports[b] + 1]
  BY DEF Report
<1> QED BY <1>1, <1>2

LEMMA SetShadowIs ==
  ASSUME Types, NEW b \in Blocks, NEW G, NEW val \in Shades, SetShadow(b, G, val)
  PROVE  /\ shadow' \in [Blocks -> [0..Granules -> Shades]]
         /\ shadow'[b] = [g \in 0..Granules |-> IF g \in G THEN val ELSE shadow[b][g]]
         /\ \A x \in Blocks \ {b} : shadow'[x] = shadow[x]
<1>1. shadow \in [Blocks -> [0..Granules -> Shades]]
  BY DEF Types
<1> DEFINE row == [g \in 0..Granules |-> IF g \in G THEN val ELSE shadow[b][g]]
<1>2. row \in [0..Granules -> Shades]
  BY <1>1
<1>3. shadow' = [shadow EXCEPT ![b] = row]
  BY DEF SetShadow
<1> HIDE DEF row
<1>4. shadow' \in [Blocks -> [0..Granules -> Shades]] /\ shadow'[b] = row
  BY <1>1, <1>2, <1>3
<1>5. \A x \in Blocks \ {b} : shadow'[x] = shadow[x]
  BY <1>1, <1>3
<1> QED BY <1>4, <1>5 DEF row

----------------------------------------------------------------------------
(* The calls. *)

LEMMA MallocKeeps ==
  ASSUME HeapInv, NEW t \in Threads, Malloc(t)
  PROVE  HeapInv'
<1>1. PICK phase \in [Blocks -> Phases], holder \in [Blocks -> Holders],
           doom \in [Threads -> SUBSET Blocks] : Inv(phase, holder, doom)
  BY DEF HeapInv
<1>2. doom[t] = {} /\ EmptyHanded(t, phase, holder)
  BY <1>1, PlanRest DEF Inv, Malloc
<1>3. PICK b \in Blocks : /\ Serve(b) /\ frees' = [frees EXCEPT ![b] = 0]
                          /\ todo' = [todo EXCEPT ![t] = Allocate(b)]
  BY DEF Malloc
<1>4. Types
  BY <1>1 DEF Inv
<1>5. At(b, phase[b], holder[b])
  BY <1>1 DEF Inv
<1>6. phase[b] = "pool"
  BY <1>3, <1>5 DEF Serve, At
<1>7. Types'
  <2>1. pool' \subseteq Blocks /\ live' \subseteq Blocks /\ internals' \subseteq Blocks
    BY <1>3, <1>4 DEF Malloc, Serve, Types
  <2>2. batches' \subseteq Blocks /\ quarantined' \subseteq Blocks
    BY <1>3, <1>4 DEF Malloc, Serve, Types
  <2>3. cache' \in [Threads -> SUBSET Blocks]
    BY <1>3, <1>4 DEF Malloc, Serve, Types
  <2>4. size' \in [Blocks -> User]
    BY <1>3, <1>4 DEF Malloc, Serve, Types
  <2>5. chunk_state' \in [Blocks -> States] /\ meta' \in [Blocks -> 0..Granules]
    BY <1>3, <1>4 DEF Malloc, Serve, Types
  <2>6. shadow' \in [Blocks -> [0..Granules -> Shades]]
    BY <1>3, <1>4 DEF Malloc, Serve, Types
  <2>7. todo' = [u \in Threads |-> todo'[u]]
    BY <1>3, <1>4 DEF Malloc, Serve, Types
  <2>8. frees' \in [Blocks -> Nat] /\ reports' \in [Blocks -> Nat]
    BY <1>3, <1>4 DEF Malloc, Serve, Types
  <2>9. check_failed' = FALSE
    BY <1>3, <1>4 DEF Malloc, Serve, Types
  <2> QED BY <2>1, <2>2, <2>3, <2>4, <2>5, <2>6, <2>7, <2>8, <2>9 DEF Types
<1>8. todo'[t] = Allocate(b) /\ \A u \in Threads \ {t} : todo'[u] = todo[u]
  BY <1>3, <1>4 DEF Types
<1>9. \A x \in Blocks \ {b} : Untouched(x)
  BY <1>3, <1>4 DEF Malloc, Serve, Types, Untouched
<1>10. At(b, "redzones", t)'
  BY <1>3, <1>4, <1>5, <1>6 DEF Malloc, Serve, At
<1>11. Fits(b, "redzones", DoomersThen(b, doom, t, {}))'
  <2>1. frees'[b] = 0 /\ reports'[b] = 0 /\ shadow' = shadow
    BY <1>3, <1>4 DEF Malloc, Serve, Types
  <2>2. DoomersThen(b, doom, t, {}) = Doomers(b, doom)
    BY <1>2, SameDoomers
  <2> QED BY <1>1, <1>6, <2>1, <2>2, ServedFits, Zenon DEF Fits
<1>12. Plan(todo'[t], t, [phase EXCEPT ![b] = "redzones"], [holder EXCEPT ![b] = t], {})
  <2>1. HoldsOne(t, b, "redzones", [phase EXCEPT ![b] = "redzones"], [holder EXCEPT ![b] = t])
    BY <1>2, Hands DEF Held
  <2> QED BY <1>8, <2>1, AllocateSteps, Zenon DEF Plan, Serves, HoldsOne, Held
<1>13. phase[b] \notin Held /\ "redzones" \in Phases
  BY <1>6 DEF Held, Phases
<1> QED BY <1>1, <1>2, <1>7, <1>8, <1>9, <1>10, <1>11, <1>12, <1>13, BlockStep

----------------------------------------------------------------------------
(* The steps of Allocate. *)

LEMMA PoisonRedzonesKeeps ==
  ASSUME HeapInv, NEW t \in Threads, PoisonRedzones(t)
  PROVE  HeapInv'
<1>1. PICK phase \in [Blocks -> Phases], holder \in [Blocks -> Holders],
           doom \in [Threads -> SUBSET Blocks] : Inv(phase, holder, doom)
  BY DEF HeapInv
<1>2. /\ Plan(todo[t], t, phase, holder, doom[t])
      /\ todo[t] # <<>> /\ Head(todo[t])[1] = "redzones"
  BY <1>1 DEF Inv, PoisonRedzones, Does, Next
<1>3. PICK b \in Blocks :
        /\ Head(todo[t])[2] = b /\ b \notin doom[t]
        /\ HoldsOne(t, b, "redzones", phase, holder)
        /\ ServesOn(todo[t], t, b, doom[t])
  BY <1>2, PlanServe
<1>4. Types /\ At(b, phase[b], holder[b]) /\ Fits(b, phase[b], Doomers(b, doom))
  BY <1>1 DEF Inv
<1>5. Chunk(t) = b
  BY <1>3 DEF Chunk, Next
<1>6. todo'[t] = <<>> \o Tail(todo[t]) /\ \A u \in Threads \ {t} : todo'[u] = todo[u]
  BY <1>3, <1>4, <1>5 DEF PoisonRedzones, Advance, Continue, Types
<1>7. Types'
  <2>1. /\ pool' \subseteq Blocks /\ live' \subseteq Blocks /\ internals' \subseteq Blocks
        /\ batches' \subseteq Blocks /\ quarantined' \subseteq Blocks
        /\ cache' \in [Threads -> SUBSET Blocks]
        /\ size' \in [Blocks -> User]
        /\ chunk_state' \in [Blocks -> States] /\ meta' \in [Blocks -> 0..Granules]
        /\ todo' = [u \in Threads |-> todo'[u]]
        /\ frees' \in [Blocks -> Nat] /\ reports' \in [Blocks -> Nat]
        /\ check_failed' = FALSE
    BY <1>4, <1>5
    DEF PoisonRedzones, SetShadow, Used, Advance, Continue, places, ghosts, Types
  <2>2. shadow' \in [Blocks -> [0..Granules -> Shades]]
    BY <1>4, <1>5, SetShadowIs DEF PoisonRedzones, Shades, Types
  <2> QED BY <2>1, <2>2 DEF Types
<1>8. \A x \in Blocks \ {b} : Untouched(x)
  BY <1>4, <1>5 DEF PoisonRedzones, SetShadow, Used, Advance, Continue, places, ghosts,
     Types, Untouched
<1>9. At(b, "unpoison", t)'
  BY <1>3, <1>4, <1>5 DEF PoisonRedzones, SetShadow, Used, Advance, Continue, places,
     ghosts, At, HoldsOne, Types
<1>10. Fits(b, "unpoison", Doomers(b, doom))'
  <2>1. /\ chunk_state'[b] = chunk_state[b]
        /\ size'[b] = size[b]
        /\ meta'[b] = meta[b]
        /\ frees'[b] = frees[b]
        /\ reports'[b] = reports[b]
    BY <1>4, <1>5
    DEF PoisonRedzones, SetShadow, Used, Advance, Continue, places, ghosts, Types
  <2>2. phase[b] = "redzones"
    BY <1>3 DEF HoldsOne
  <2>3. \/ /\ shadow[b][0] \in {"ok", "internal"}
           /\ shadow'[b] = [g \in 0..Granules |->
                               IF g \in (0..Granules) \ (1..size[b]) THEN "redzone"
                               ELSE shadow[b][g]]
        \/ shadow[b][0] \notin {"ok", "internal"} /\ shadow'[b] = shadow[b]
    <3>1. CASE shadow[b][0] \in {"ok", "internal"}
      <4>1. PICK G : G = (0..Granules) \ (1..size[b])
        OBVIOUS
      <4>2. SetShadow(b, G, "redzone")
        BY <1>5, <3>1, <4>1, Zenon DEF PoisonRedzones, Used
      <4>3. shadow'[b] = [g \in 0..Granules |-> IF g \in G THEN "redzone" ELSE shadow[b][g]]
        <5>1. "redzone" \in Shades
          BY DEF Shades
        <5> QED BY <1>4, <4>2, <5>1, SetShadowIs
      <4> QED BY <3>1, <4>1, <4>3, Zenon
    <3>2. CASE shadow[b][0] \notin {"ok", "internal"}
      BY <1>5, <3>2 DEF PoisonRedzones
    <3> QED BY <3>1, <3>2
  <2>4. ShadowFits("unpoison", size[b], shadow'[b])
    <3>1. Closed(shadow[b]) \/ Magic(shadow[b])
      BY <1>4, <2>2 DEF Fits, ShadowFits
    <3>2. Fenced(shadow'[b], size[b])
      BY <2>3, <3>1, HeapAssumption DEF Closed, Magic, Fenced
    <3> QED BY <3>2 DEF ShadowFits
  <2>5. HeaderFits("unpoison", chunk_state'[b], size[b], meta'[b])
    BY <1>4, <2>1, <2>2, <2>3 DEF Fits, HeaderFits, Won
  <2>6. CountsFit("unpoison", frees[b], reports[b], Doomers(b, doom))
    BY <1>4, <2>2 DEF Fits, CountsFit, Won
  <2> QED BY <2>1, <2>3, <2>4, <2>5, <2>6, Zenon DEF Fits
<1>11. Plan(todo'[t], t, [phase EXCEPT ![b] = "unpoison"], [holder EXCEPT ![b] = t], doom[t])
  <2>1. HoldsOne(t, b, "unpoison", [phase EXCEPT ![b] = "unpoison"], [holder EXCEPT ![b] = t])
    BY <1>3, Hands DEF Held, Phases
  <2> QED BY <1>2, <1>3, <1>6, <2>1 DEF ServesOn
<1>12. phase[b] \in Held => holder[b] = t
  BY <1>3 DEF HoldsOne, EmptyHanded, Owns
<1>13. "unpoison" \in Phases
  BY <1>1 DEF Phases, Held
<1> QED BY <1>1, <1>6, <1>7, <1>8, <1>9, <1>10, <1>11, <1>12, <1>13, QuietStep

LEMMA UnpoisonKeeps ==
  ASSUME HeapInv, NEW t \in Threads, Unpoison(t)
  PROVE  HeapInv'
<1>1. PICK phase \in [Blocks -> Phases], holder \in [Blocks -> Holders],
           doom \in [Threads -> SUBSET Blocks] : Inv(phase, holder, doom)
  BY DEF HeapInv
<1>2. /\ Plan(todo[t], t, phase, holder, doom[t])
      /\ todo[t] # <<>> /\ Head(todo[t])[1] = "unpoison"
  BY <1>1 DEF Inv, Unpoison, Does, Next
<1>3. PICK b \in Blocks :
        /\ Head(todo[t])[2] = b /\ b \notin doom[t]
        /\ HoldsOne(t, b, "unpoison", phase, holder)
        /\ ServesOn(todo[t], t, b, doom[t])
  BY <1>2, PlanServe
<1>4. Types /\ At(b, phase[b], holder[b]) /\ Fits(b, phase[b], Doomers(b, doom))
  BY <1>1 DEF Inv
<1>5. Chunk(t) = b
  BY <1>3 DEF Chunk, Next
<1>6. todo'[t] = <<>> \o Tail(todo[t]) /\ \A u \in Threads \ {t} : todo'[u] = todo[u]
  BY <1>3, <1>4, <1>5 DEF Unpoison, Advance, Continue, Types
<1>7. Types'
  <2>1. /\ pool' \subseteq Blocks /\ live' \subseteq Blocks /\ internals' \subseteq Blocks
        /\ batches' \subseteq Blocks /\ quarantined' \subseteq Blocks
        /\ cache' \in [Threads -> SUBSET Blocks]
        /\ size' \in [Blocks -> User]
        /\ chunk_state' \in [Blocks -> States] /\ meta' \in [Blocks -> 0..Granules]
        /\ todo' = [u \in Threads |-> todo'[u]]
        /\ frees' \in [Blocks -> Nat] /\ reports' \in [Blocks -> Nat]
        /\ check_failed' = FALSE
    BY <1>4, <1>5
    DEF Unpoison, SetShadow, Used, Advance, Continue, places, ghosts, Types
  <2>2. shadow' \in [Blocks -> [0..Granules -> Shades]]
    BY <1>4, <1>5, SetShadowIs DEF Unpoison, Shades, Types
  <2> QED BY <2>1, <2>2 DEF Types
<1>8. \A x \in Blocks \ {b} : Untouched(x)
  BY <1>4, <1>5
  DEF Unpoison, SetShadow, Used, Advance, Continue, places, ghosts, Types, Untouched
<1>9. At(b, "allocated", t)'
  BY <1>3, <1>4, <1>5
  DEF Unpoison, SetShadow, Used, Advance, Continue, places, ghosts, At, HoldsOne, Types
<1>10. Fits(b, "allocated", Doomers(b, doom))'
  <2>1. /\ chunk_state'[b] = chunk_state[b]
        /\ size'[b] = size[b]
        /\ meta'[b] = meta[b]
        /\ frees'[b] = frees[b]
        /\ reports'[b] = reports[b]
    BY <1>4, <1>5
    DEF Unpoison, SetShadow, Used, Advance, Continue, places, ghosts, Types
  <2>2. phase[b] = "unpoison"
    BY <1>3 DEF HoldsOne
  <2>3. shadow'[b] = [g \in 0..Granules |-> IF g \in 1..size[b] THEN "ok" ELSE shadow[b][g]]
    <3>1. PICK G : G = 1..size[b]
      OBVIOUS
    <3>2. SetShadow(b, G, "ok") /\ "ok" \in Shades
      BY <1>5, <3>1 DEF Unpoison, Used, Shades
    <3>3. shadow'[b] = [g \in 0..Granules |-> IF g \in G THEN "ok" ELSE shadow[b][g]]
      BY <1>4, <3>2, SetShadowIs
    <3> QED BY <3>1, <3>3, Zenon
  <2>4. ShadowFits("allocated", size[b], shadow'[b])
    <3>1. Fenced(shadow[b], size[b])
      BY <1>4, <2>2 DEF Fits, ShadowFits
    <3>2. size[b] \in 1..Granules
      BY <1>4 DEF Types, User
    <3>3. Open(shadow'[b], size[b])
      BY <2>3, <3>1, <3>2, HeapAssumption DEF Fenced, Open
    <3> QED BY <3>3 DEF ShadowFits
  <2>5. HeaderFits("allocated", chunk_state'[b], size[b], meta'[b])
    BY <1>4, <2>1, <2>2, <2>3 DEF Fits, HeaderFits, Won
  <2>6. CountsFit("allocated", frees[b], reports[b], Doomers(b, doom))
    BY <1>4, <2>2 DEF Fits, CountsFit, Won
  <2> QED BY <2>1, <2>3, <2>4, <2>5, <2>6, Zenon DEF Fits
<1>11. Plan(todo'[t], t, [phase EXCEPT ![b] = "allocated"], [holder EXCEPT ![b] = t], doom[t])
  <2>1. HoldsOne(t, b, "allocated", [phase EXCEPT ![b] = "allocated"], [holder EXCEPT ![b] = t])
    BY <1>3, Hands DEF Held, Phases
  <2> QED BY <1>2, <1>3, <1>6, <2>1 DEF ServesOn
<1>12. phase[b] \in Held => holder[b] = t
  BY <1>3 DEF HoldsOne, EmptyHanded, Owns
<1>13. "allocated" \in Phases
  BY <1>1 DEF Phases, Held
<1> QED BY <1>1, <1>6, <1>7, <1>8, <1>9, <1>10, <1>11, <1>12, <1>13, QuietStep

LEMMA SetAllocatedKeeps ==
  ASSUME HeapInv, NEW t \in Threads, SetAllocated(t)
  PROVE  HeapInv'
<1>1. PICK phase \in [Blocks -> Phases], holder \in [Blocks -> Holders],
           doom \in [Threads -> SUBSET Blocks] : Inv(phase, holder, doom)
  BY DEF HeapInv
<1>2. /\ Plan(todo[t], t, phase, holder, doom[t])
      /\ todo[t] # <<>> /\ Head(todo[t])[1] = "allocated"
  BY <1>1 DEF Inv, SetAllocated, Does, Next
<1>3. PICK b \in Blocks :
        /\ Head(todo[t])[2] = b /\ b \notin doom[t]
        /\ HoldsOne(t, b, "allocated", phase, holder)
        /\ ServesOn(todo[t], t, b, doom[t])
  BY <1>2, PlanServe
<1>4. Types /\ At(b, phase[b], holder[b]) /\ Fits(b, phase[b], Doomers(b, doom))
  BY <1>1 DEF Inv
<1>5. Chunk(t) = b
  BY <1>3 DEF Chunk, Next
<1>6. todo'[t] = <<>> \o Tail(todo[t]) /\ \A u \in Threads \ {t} : todo'[u] = todo[u]
  BY <1>3, <1>4, <1>5 DEF SetAllocated, Advance, Continue, Types
<1>7. Types'
  <2>1. /\ pool' \subseteq Blocks /\ live' \subseteq Blocks /\ internals' \subseteq Blocks
        /\ batches' \subseteq Blocks /\ quarantined' \subseteq Blocks
        /\ cache' \in [Threads -> SUBSET Blocks]
        /\ size' \in [Blocks -> User]
        /\ shadow' \in [Blocks -> [0..Granules -> Shades]]
        /\ todo' = [u \in Threads |-> todo'[u]]
        /\ frees' \in [Blocks -> Nat] /\ reports' \in [Blocks -> Nat]
        /\ check_failed' = FALSE
    BY <1>4, <1>5 DEF SetAllocated, Advance, Continue, places, ghosts, Types
  <2>2. chunk_state' \in [Blocks -> States] /\ meta' \in [Blocks -> 0..Granules]
    BY <1>4, <1>5 DEF SetAllocated, States, Types
  <2> QED BY <2>1, <2>2 DEF Types
<1>8. \A x \in Blocks \ {b} : Untouched(x)
  BY <1>4, <1>5 DEF SetAllocated, Advance, Continue, places, ghosts, Types, Untouched
<1>9. At(b, "alloc_hook", t)'
  BY <1>3, <1>4, <1>5
  DEF SetAllocated, Advance, Continue, places, ghosts, At, HoldsOne, Types
<1>10. Fits(b, "alloc_hook", Doomers(b, doom))'
  <2>1. /\ size'[b] = size[b]
        /\ shadow'[b] = shadow[b]
        /\ meta'[b] = meta[b]
        /\ frees'[b] = frees[b]
        /\ reports'[b] = reports[b]
    BY <1>4, <1>5 DEF SetAllocated, Advance, Continue, places, ghosts, Types
  <2>2. phase[b] = "allocated"
    BY <1>3 DEF HoldsOne
  <2>3. chunk_state'[b] = "allocated"
    BY <1>4, <1>5 DEF SetAllocated, Types
  <2>4. ShadowFits("alloc_hook", size[b], shadow[b])
    BY <1>4, <2>2 DEF Fits, ShadowFits
  <2>5. HeaderFits("alloc_hook", chunk_state'[b], size[b], meta'[b])
    BY <1>4, <2>1, <2>2, <2>3 DEF Fits, HeaderFits, Won
  <2>6. CountsFit("alloc_hook", frees[b], reports[b], Doomers(b, doom))
    BY <1>4, <2>2 DEF Fits, CountsFit, Won
  <2> QED BY <2>1, <2>3, <2>4, <2>5, <2>6, Zenon DEF Fits
<1>11. Plan(todo'[t], t, [phase EXCEPT ![b] = "alloc_hook"], [holder EXCEPT ![b] = t], doom[t])
  <2>1. HoldsOne(t, b, "alloc_hook", [phase EXCEPT ![b] = "alloc_hook"],
                 [holder EXCEPT ![b] = t])
    BY <1>3, Hands DEF Held, Phases
  <2> QED BY <1>2, <1>3, <1>6, <2>1 DEF ServesOn
<1>12. phase[b] \in Held => holder[b] = t
  BY <1>3 DEF HoldsOne, EmptyHanded, Owns
<1>13. "alloc_hook" \in Phases
  BY <1>1 DEF Phases, Held
<1> QED BY <1>1, <1>6, <1>7, <1>8, <1>9, <1>10, <1>11, <1>12, <1>13, QuietStep

LEMMA AllocHookKeeps ==
  ASSUME HeapInv, NEW t \in Threads, AllocHook(t)
  PROVE  HeapInv'
<1>1. PICK phase \in [Blocks -> Phases], holder \in [Blocks -> Holders],
           doom \in [Threads -> SUBSET Blocks] : Inv(phase, holder, doom)
  BY DEF HeapInv
<1>2. /\ Plan(todo[t], t, phase, holder, doom[t])
      /\ todo[t] # <<>> /\ Head(todo[t])[1] = "alloc_hook"
  BY <1>1 DEF Inv, AllocHook, Does, Next
<1>3. PICK b \in Blocks :
        /\ Head(todo[t])[2] = b /\ b \notin doom[t]
        /\ HoldsOne(t, b, "alloc_hook", phase, holder)
        /\ ServesOn(todo[t], t, b, doom[t])
  BY <1>2, PlanServe
<1>4. Types /\ At(b, phase[b], holder[b]) /\ Fits(b, phase[b], Doomers(b, doom))
  BY <1>1 DEF Inv
<1>5. Chunk(t) = b
  BY <1>3 DEF Chunk, Next
<1>6. todo'[t] = <<>> \o Tail(todo[t]) /\ \A u \in Threads \ {t} : todo'[u] = todo[u]
  BY <1>3, <1>4, <1>5 DEF AllocHook, Advance, Continue, Types
<1>7. Types'
  <2>1. /\ pool' \subseteq Blocks /\ live' \subseteq Blocks /\ internals' \subseteq Blocks
        /\ batches' \subseteq Blocks /\ quarantined' \subseteq Blocks
        /\ cache' \in [Threads -> SUBSET Blocks]
        /\ size' \in [Blocks -> User]
        /\ shadow' \in [Blocks -> [0..Granules -> Shades]]
        /\ todo' = [u \in Threads |-> todo'[u]]
        /\ frees' \in [Blocks -> Nat] /\ reports' \in [Blocks -> Nat]
        /\ check_failed' = FALSE
    BY <1>4, <1>5 DEF AllocHook, Advance, Continue, ghosts, Types
  <2>2. chunk_state' \in [Blocks -> States] /\ meta' \in [Blocks -> 0..Granules]
    BY <1>4, <1>5, HeapAssumption DEF AllocHook, User, Types
  <2> QED BY <2>1, <2>2 DEF Types
<1>8. \A x \in Blocks \ {b} : Untouched(x)
  BY <1>4, <1>5 DEF AllocHook, Advance, Continue, ghosts, Types, Untouched
<1>9. At(b, "live", t)'
  BY <1>3, <1>4, <1>5 DEF AllocHook, Advance, Continue, ghosts, At, HoldsOne, Types
<1>10. Fits(b, "live", Doomers(b, doom))'
  <2>1. /\ chunk_state'[b] = chunk_state[b]
        /\ size'[b] = size[b]
        /\ shadow'[b] = shadow[b]
        /\ frees'[b] = frees[b]
        /\ reports'[b] = reports[b]
    BY <1>4, <1>5 DEF AllocHook, Advance, Continue, ghosts, Types
  <2>2. phase[b] = "alloc_hook"
    BY <1>3 DEF HoldsOne
  <2>3. meta'[b] = size[b]
    BY <1>4, <1>5 DEF AllocHook, Types
  <2>4. ShadowFits("live", size[b], shadow[b])
    BY <1>4, <2>2 DEF Fits, ShadowFits
  <2>5. HeaderFits("live", chunk_state'[b], size[b], meta'[b])
    BY <1>4, <2>1, <2>2, <2>3 DEF Fits, HeaderFits, Won
  <2>6. CountsFit("live", frees[b], reports[b], Doomers(b, doom))
    BY <1>4, <2>2 DEF Fits, CountsFit, Won
  <2> QED BY <2>1, <2>3, <2>4, <2>5, <2>6, Zenon DEF Fits
<1>11. Plan(todo'[t], t, [phase EXCEPT ![b] = "live"], [holder EXCEPT ![b] = t], doom[t])
  <2>1. EmptyHanded(t, [phase EXCEPT ![b] = "live"], [holder EXCEPT ![b] = t])
    BY <1>3, Hands DEF Held, Phases
  <2> QED BY <1>2, <1>3, <1>6, <2>1 DEF ServesOn
<1>12. phase[b] \in Held => holder[b] = t
  BY <1>3 DEF HoldsOne, EmptyHanded, Owns
<1>13. "live" \in Phases
  BY <1>1 DEF Phases, Held
<1> QED BY <1>1, <1>6, <1>7, <1>8, <1>9, <1>10, <1>11, <1>12, <1>13, QuietStep

----------------------------------------------------------------------------
(* The steps of the call that won a chunk, and of those that recycle. *)

LEMMA FreeHookKeeps ==
  ASSUME HeapInv, NEW t \in Threads, FreeHook(t)
  PROVE  HeapInv'
<1>1. PICK phase \in [Blocks -> Phases], holder \in [Blocks -> Holders],
           doom \in [Threads -> SUBSET Blocks] : Inv(phase, holder, doom)
  BY DEF HeapInv
<1>2. /\ Plan(todo[t], t, phase, holder, doom[t])
      /\ todo[t] # <<>> /\ Head(todo[t])[1] = "free_hook"
  BY <1>1 DEF Inv, FreeHook, Does, Next
<1>3. PICK b \in Blocks, q \in Held :
        /\ Head(todo[t])[2] = b /\ doom[t] = {}
        /\ \/ /\ q = "put" /\ HoldsOne(t, b, "free_hook", phase, holder)
              /\ PutSteps(<<>> \o Tail(todo[t]), "put", b)
           \/ /\ q = "internal" /\ HoldsOne(t, b, "internal", phase, holder)
              /\ InternalSteps(<<>> \o Tail(todo[t]), b)
  BY <1>2, PlanFreeHook DEF Held
<1>4. Types /\ At(b, phase[b], holder[b]) /\ Fits(b, phase[b], Doomers(b, doom))
  BY <1>1 DEF Inv
<1>5. Chunk(t) = b
  BY <1>3 DEF Chunk, Next
<1>6. todo'[t] = <<>> \o Tail(todo[t]) /\ \A u \in Threads \ {t} : todo'[u] = todo[u]
  BY <1>3, <1>4, <1>5 DEF FreeHook, Advance, Continue, Types
<1>7. Types'
  <2>1. /\ pool' \subseteq Blocks /\ live' \subseteq Blocks /\ internals' \subseteq Blocks
        /\ batches' \subseteq Blocks /\ quarantined' \subseteq Blocks
        /\ cache' \in [Threads -> SUBSET Blocks]
        /\ size' \in [Blocks -> User]
        /\ shadow' \in [Blocks -> [0..Granules -> Shades]]
        /\ todo' = [u \in Threads |-> todo'[u]]
        /\ frees' \in [Blocks -> Nat] /\ reports' \in [Blocks -> Nat]
        /\ check_failed' = FALSE
    BY <1>4, <1>5 DEF FreeHook, Advance, Continue, places, ghosts, Types
  <2>2. chunk_state' \in [Blocks -> States] /\ meta' \in [Blocks -> 0..Granules]
    BY <1>4, <1>5, HeapAssumption DEF FreeHook, Types
  <2> QED BY <2>1, <2>2 DEF Types
<1>8. \A x \in Blocks \ {b} : Untouched(x)
  BY <1>4, <1>5 DEF FreeHook, Advance, Continue, places, ghosts, Types, Untouched
<1>9. At(b, q, t)'
  BY <1>3, <1>4, <1>5
  DEF FreeHook, Advance, Continue, places, ghosts, At, HoldsOne, Types
<1>10. Fits(b, q, Doomers(b, doom))'
  <2>1. /\ chunk_state'[b] = chunk_state[b]
        /\ size'[b] = size[b]
        /\ shadow'[b] = shadow[b]
        /\ frees'[b] = frees[b]
        /\ reports'[b] = reports[b]
    BY <1>4, <1>5 DEF FreeHook, Advance, Continue, places, ghosts, Types
  <2>2. \/ phase[b] = "free_hook" /\ q = "put"
        \/ phase[b] = "internal" /\ q = "internal"
    BY <1>3 DEF HoldsOne
  <2>3. meta'[b] = 0
    BY <1>4, <1>5 DEF FreeHook, Types
  <2>4. ShadowFits(q, size[b], shadow[b])
    BY <1>4, <2>2 DEF Fits, ShadowFits
  <2>5. HeaderFits(q, chunk_state[b], size[b], meta'[b])
    BY <1>4, <2>2, <2>3 DEF Fits, HeaderFits, Won
  <2>6. CountsFit(q, frees[b], reports[b], Doomers(b, doom))
    BY <1>4, <2>2 DEF Fits, CountsFit, Won
  <2> QED BY <2>1, <2>4, <2>5, <2>6, Zenon DEF Fits
<1>11. Plan(todo'[t], t, [phase EXCEPT ![b] = q], [holder EXCEPT ![b] = t], doom[t])
  <2>1. HoldsOne(t, b, q, [phase EXCEPT ![b] = q], [holder EXCEPT ![b] = t])
    BY <1>3, Hands DEF Held, Phases
  <2>2. CASE q = "put" /\ PutSteps(<<>> \o Tail(todo[t]), "put", b)
    BY <1>3, <1>6, <2>1, <2>2, Zenon DEF Plan, Puts
  <2>3. CASE q = "internal" /\ InternalSteps(<<>> \o Tail(todo[t]), b)
    BY <1>3, <1>6, <2>1, <2>3, Zenon DEF Plan, FreesInternal
  <2> QED BY <1>3, <2>2, <2>3
<1>12. phase[b] \in Held => holder[b] = t
  BY <1>3 DEF HoldsOne, EmptyHanded, Owns
<1>13. q \in Phases
  BY <1>1, <1>3 DEF Phases, Held
<1> QED BY <1>1, <1>6, <1>7, <1>8, <1>9, <1>10, <1>11, <1>12, <1>13, QuietStep

LEMMA PutKeeps ==
  ASSUME HeapInv, NEW t \in Threads, Put(t)
  PROVE  HeapInv'
<1>1. PICK phase \in [Blocks -> Phases], holder \in [Blocks -> Holders],
           doom \in [Threads -> SUBSET Blocks] : Inv(phase, holder, doom)
  BY DEF HeapInv
<1>2. /\ Plan(todo[t], t, phase, holder, doom[t])
      /\ todo[t] # <<>> /\ Head(todo[t])[1] = "put"
  BY <1>1 DEF Inv, Put, Does, Next
<1>3. PICK b \in Blocks :
        /\ Head(todo[t])[2] = b /\ doom[t] = {} /\ Tail(todo[t]) = <<>>
        /\ HoldsOne(t, b, "put", phase, holder)
  BY <1>2, PlanPut
<1>4. Types /\ At(b, phase[b], holder[b]) /\ Fits(b, phase[b], Doomers(b, doom))
  BY <1>1 DEF Inv
<1>5. Chunk(t) = b
  BY <1>3 DEF Chunk, Next
<1>6. /\ todo'[t] = <<>> \/ todo'[t] = <<<<"transfer">>>>
      /\ \A u \in Threads \ {t} : todo'[u] = todo[u]
  <2>1. PICK more \in {<<>>, <<<<"transfer">>>>} : Continue(t, more)
    BY DEF Put
  <2>2. /\ todo'[t] = more \o Tail(todo[t])
        /\ \A u \in Threads \ {t} : todo'[u] = todo[u]
    BY <1>4, <2>1 DEF Continue, Types
  <2> QED BY <1>3, <2>2, Joins
<1>7. Types'
  <2>1. /\ pool' \subseteq Blocks /\ live' \subseteq Blocks /\ internals' \subseteq Blocks
        /\ batches' \subseteq Blocks /\ quarantined' \subseteq Blocks
        /\ cache' \in [Threads -> SUBSET Blocks]
        /\ size' \in [Blocks -> User]
        /\ chunk_state' \in [Blocks -> States] /\ meta' \in [Blocks -> 0..Granules]
        /\ todo' = [u \in Threads |-> todo'[u]]
        /\ frees' \in [Blocks -> Nat] /\ reports' \in [Blocks -> Nat]
    BY <1>4, <1>5 DEF Put, SetShadow, Used, Check, Continue, ghosts, Types
  <2>2. shadow' \in [Blocks -> [0..Granules -> Shades]]
    BY <1>4, <1>5, SetShadowIs DEF Put, Shades, Types
  <2>3. check_failed' = FALSE
    BY <1>3, <1>4, <1>5 DEF Put, Check, HoldsOne, Fits, HeaderFits, Won, Types
  <2> QED BY <2>1, <2>2, <2>3 DEF Types
<1>8. \A x \in Blocks \ {b} : Untouched(x)
  BY <1>4, <1>5 DEF Put, SetShadow, Used, Check, Continue, ghosts, Types, Untouched
<1>9. At(b, "cache", t)'
  BY <1>3, <1>4, <1>5
  DEF Put, SetShadow, Used, Check, Continue, ghosts, At, HoldsOne, Types
<1>10. Fits(b, "cache", Doomers(b, doom))'
  <2>1. /\ chunk_state'[b] = chunk_state[b]
        /\ size'[b] = size[b]
        /\ meta'[b] = meta[b]
        /\ frees'[b] = frees[b]
        /\ reports'[b] = reports[b]
    BY <1>4, <1>5 DEF Put, SetShadow, Used, Check, Continue, ghosts, Types
  <2>2. phase[b] = "put"
    BY <1>3 DEF HoldsOne
  <2>3. shadow'[b] = [g \in 0..Granules |-> IF g \in 1..size[b] THEN "freed" ELSE shadow[b][g]]
    <3>1. PICK G : G = 1..size[b]
      OBVIOUS
    <3>2. SetShadow(b, G, "freed") /\ "freed" \in Shades
      BY <1>5, <3>1 DEF Put, Used, Shades
    <3>3. shadow'[b] = [g \in 0..Granules |-> IF g \in G THEN "freed" ELSE shadow[b][g]]
      BY <1>4, <3>2, SetShadowIs
    <3> QED BY <3>1, <3>3, Zenon
  <2>4. ShadowFits("cache", size[b], shadow'[b])
    <3>1. Fenced(shadow[b], size[b])
      BY <1>4, <2>2 DEF Fits, ShadowFits, Open
    <3>2. Closed(shadow'[b])
      BY <2>3, <3>1 DEF Fenced, Closed
    <3> QED BY <3>2 DEF ShadowFits
  <2>5. HeaderFits("cache", chunk_state'[b], size[b], meta'[b])
    BY <1>4, <2>1, <2>2, <2>3 DEF Fits, HeaderFits, Won
  <2>6. CountsFit("cache", frees[b], reports[b], Doomers(b, doom))
    BY <1>4, <2>2 DEF Fits, CountsFit, Won
  <2> QED BY <2>1, <2>3, <2>4, <2>5, <2>6, Zenon DEF Fits
<1>11. Plan(todo'[t], t, [phase EXCEPT ![b] = "cache"], [holder EXCEPT ![b] = t], doom[t])
  <2>1. EmptyHanded(t, [phase EXCEPT ![b] = "cache"], [holder EXCEPT ![b] = t])
    BY <1>3, Hands DEF Held, Phases
  <2> QED BY <1>3, <1>6, <2>1, Zenon DEF Plan, Idles
<1>12. phase[b] \in Held => holder[b] = t
  BY <1>3 DEF HoldsOne, EmptyHanded, Owns
<1>13. "cache" \in Phases
  BY <1>1 DEF Phases, Held
<1> QED BY <1>1, <1>6, <1>7, <1>8, <1>9, <1>10, <1>11, <1>12, <1>13, QuietStep

LEMMA PassThroughKeeps ==
  ASSUME HeapInv, NEW t \in Threads, PassThrough(t)
  PROVE  HeapInv'
<1>1. PICK phase \in [Blocks -> Phases], holder \in [Blocks -> Holders],
           doom \in [Threads -> SUBSET Blocks] : Inv(phase, holder, doom)
  BY DEF HeapInv
<1>2. /\ Plan(todo[t], t, phase, holder, doom[t])
      /\ todo[t] # <<>> /\ Head(todo[t])[1] = "put"
  BY <1>1 DEF Inv, PassThrough, Does, Next
<1>3. PICK b \in Blocks :
        /\ Head(todo[t])[2] = b /\ doom[t] = {} /\ Tail(todo[t]) = <<>>
        /\ HoldsOne(t, b, "put", phase, holder)
  BY <1>2, PlanPut
<1>4. Types /\ At(b, phase[b], holder[b]) /\ Fits(b, phase[b], Doomers(b, doom))
  BY <1>1 DEF Inv
<1>5. Chunk(t) = b
  BY <1>3 DEF Chunk, Next
<1>6. /\ todo'[t] = Recycle(b) \o <<>>
      /\ \A u \in Threads \ {t} : todo'[u] = todo[u]
  BY <1>3, <1>4, <1>5, Zenon DEF PassThrough, Continue, Types
<1>7. Types'
  <2>1. /\ pool' \subseteq Blocks /\ live' \subseteq Blocks /\ internals' \subseteq Blocks
        /\ batches' \subseteq Blocks /\ quarantined' \subseteq Blocks
        /\ cache' \in [Threads -> SUBSET Blocks]
        /\ size' \in [Blocks -> User]
        /\ chunk_state' \in [Blocks -> States] /\ meta' \in [Blocks -> 0..Granules]
        /\ shadow' \in [Blocks -> [0..Granules -> Shades]]
        /\ todo' = [u \in Threads |-> todo'[u]]
        /\ frees' \in [Blocks -> Nat] /\ reports' \in [Blocks -> Nat]
    BY <1>4, <1>5 DEF PassThrough, Check, Continue, places, memory, ghosts, Types
  <2>2. check_failed' = FALSE
    BY <1>3, <1>4, <1>5 DEF PassThrough, Check, HoldsOne, Fits, HeaderFits, Won, Types
  <2> QED BY <2>1, <2>2 DEF Types
<1>8. \A x \in Blocks \ {b} : Untouched(x)
  BY <1>4, <1>5
  DEF PassThrough, Check, Continue, places, memory, ghosts, Types, Untouched
<1>9. At(b, "invalid", t)'
  BY <1>3, <1>4, <1>5
  DEF PassThrough, Check, Continue, places, memory, ghosts, At, HoldsOne, Types
<1>10. Fits(b, "invalid", Doomers(b, doom))'
  <2>1. /\ chunk_state'[b] = chunk_state[b]
        /\ size'[b] = size[b]
        /\ shadow'[b] = shadow[b]
        /\ meta'[b] = meta[b]
        /\ frees'[b] = frees[b]
        /\ reports'[b] = reports[b]
    BY <1>4, <1>5 DEF PassThrough, Check, Continue, places, memory, ghosts, Types
  <2>2. phase[b] = "put"
    BY <1>3 DEF HoldsOne
  <2>3. Open(shadow[b], size[b])
    BY <1>4, <2>2 DEF Fits, ShadowFits
  <2>4. ShadowFits("invalid", size[b], shadow[b])
    BY <2>3 DEF ShadowFits, Open, Plain
  <2>5. HeaderFits("invalid", chunk_state'[b], size[b], meta'[b])
    BY <1>4, <2>1, <2>2, <2>3 DEF Fits, HeaderFits, Won
  <2>6. CountsFit("invalid", frees[b], reports[b], Doomers(b, doom))
    BY <1>4, <2>2 DEF Fits, CountsFit, Won
  <2> QED BY <2>1, <2>3, <2>4, <2>5, <2>6, Zenon DEF Fits
<1>11. Plan(todo'[t], t, [phase EXCEPT ![b] = "invalid"], [holder EXCEPT ![b] = t], doom[t])
  <2>1. HoldsOne(t, b, "invalid", [phase EXCEPT ![b] = "invalid"], [holder EXCEPT ![b] = t])
    BY <1>3, Hands DEF Held, Phases
  <2>2. RecycleSteps(todo'[t], "invalid", b)
    BY <1>6, RecycleIs, Zenon
  <2>3. "invalid" \in Held
    BY DEF Held
  <2> QED BY <1>3, <2>1, <2>2, <2>3, Zenon DEF Plan, RecyclesLast
<1>12. phase[b] \in Held => holder[b] = t
  BY <1>3 DEF HoldsOne, EmptyHanded, Owns
<1>13. "invalid" \in Phases
  BY <1>1 DEF Phases, Held
<1> QED BY <1>1, <1>6, <1>7, <1>8, <1>9, <1>10, <1>11, <1>12, <1>13, QuietStep

LEMMA InvalidateKeeps ==
  ASSUME HeapInv, NEW t \in Threads, Invalidate(t)
  PROVE  HeapInv'
<1>1. PICK phase \in [Blocks -> Phases], holder \in [Blocks -> Holders],
           doom \in [Threads -> SUBSET Blocks] : Inv(phase, holder, doom)
  BY DEF HeapInv
<1>2. /\ Plan(todo[t], t, phase, holder, doom[t])
      /\ todo[t] # <<>> /\ Head(todo[t])[1] = "invalid"
  BY <1>1 DEF Inv, Invalidate, Does, Next
<1>3. PICK b \in Blocks :
        /\ Head(todo[t])[2] = b /\ doom[t] = {}
        /\ phase[b] = "invalid" /\ Owns(t, b, phase, holder)
        /\ RecyclesOn(todo[t], t, b, phase, holder, doom[t])
  BY <1>2, PlanRecycling
<1>4. Types /\ At(b, phase[b], holder[b]) /\ Fits(b, phase[b], Doomers(b, doom))
  BY <1>1 DEF Inv
<1>5. Chunk(t) = b
  BY <1>3 DEF Chunk, Next
<1>6. todo'[t] = <<>> \o Tail(todo[t]) /\ \A u \in Threads \ {t} : todo'[u] = todo[u]
  BY <1>3, <1>4, <1>5 DEF Invalidate, Advance, Continue, Types
<1>7. Types'
  <2>1. /\ pool' \subseteq Blocks /\ live' \subseteq Blocks /\ internals' \subseteq Blocks
        /\ batches' \subseteq Blocks /\ quarantined' \subseteq Blocks
        /\ cache' \in [Threads -> SUBSET Blocks]
        /\ size' \in [Blocks -> User]
        /\ shadow' \in [Blocks -> [0..Granules -> Shades]]
        /\ todo' = [u \in Threads |-> todo'[u]]
        /\ frees' \in [Blocks -> Nat] /\ reports' \in [Blocks -> Nat]
    BY <1>4, <1>5 DEF Invalidate, Check, Advance, Continue, places, ghosts, Types
  <2>2. chunk_state' \in [Blocks -> States] /\ meta' \in [Blocks -> 0..Granules]
    BY <1>4, <1>5 DEF Invalidate, States, Types
  <2>3. check_failed' = FALSE
    BY <1>3, <1>4, <1>5 DEF Invalidate, Check, Fits, HeaderFits, Won, Types
  <2> QED BY <2>1, <2>2, <2>3 DEF Types
<1>8. \A x \in Blocks \ {b} : Untouched(x)
  BY <1>4, <1>5
  DEF Invalidate, Check, Advance, Continue, places, ghosts, Types, Untouched
<1>9. At(b, "poison", t)'
  BY <1>3, <1>4, <1>5
  DEF Invalidate, Check, Advance, Continue, places, ghosts, At, HoldsOne, Types
<1>10. Fits(b, "poison", Doomers(b, doom))'
  <2>1. /\ size'[b] = size[b]
        /\ shadow'[b] = shadow[b]
        /\ meta'[b] = meta[b]
        /\ frees'[b] = frees[b]
        /\ reports'[b] = reports[b]
    BY <1>4, <1>5 DEF Invalidate, Check, Advance, Continue, places, ghosts, Types
  <2>2. ShadowFits("poison", size[b], shadow[b])
    BY <1>3, <1>4 DEF Fits, ShadowFits, Plain
  <2>3. HeaderFits("poison", chunk_state'[b], size[b], meta[b])
    BY DEF HeaderFits, Won
  <2>4. Doomers(b, doom) = {}
    BY <1>1, <1>5, AboutToFreeIs DEF Invalidate
  <2>5. CountsFit("poison", frees[b], reports[b], Doomers(b, doom))
    BY <1>3, <1>4, <2>4 DEF Fits, CountsFit, Won, TwoOf
  <2> QED BY <2>1, <2>2, <2>3, <2>5, Zenon DEF Fits
<1>11. Plan(todo'[t], t, [phase EXCEPT ![b] = "poison"], [holder EXCEPT ![b] = t], doom[t])
  <2> DEFINE phase2 == [phase EXCEPT ![b] = "poison"]
             holder2 == [holder EXCEPT ![b] = t]
  <2>1. /\ phase2[b] = "poison" /\ holder2[b] = t
        /\ \A x \in Blocks \ {b} : phase2[x] = phase[x] /\ holder2[x] = holder[x]
    OBVIOUS
  <2> HIDE DEF phase2, holder2
  <2>2. \A x \in Blocks : /\ Owns(t, x, phase2, holder2) <=> Owns(t, x, phase, holder)
                          /\ x # b => phase2[x] = phase[x]
    BY <1>3, <2>1 DEF Owns, Held
  <2>3. Plan(<<>> \o Tail(todo[t]), t, phase2, holder2, doom[t])
    BY <1>2, <1>3, <2>1, <2>2 DEF RecyclesOn
  <2> QED BY <1>6, <2>3, Zenon DEF phase2, holder2
<1>12. phase[b] \in Held => holder[b] = t
  BY <1>3 DEF HoldsOne, EmptyHanded, Owns
<1>13. "poison" \in Phases
  BY <1>1 DEF Phases, Held
<1> QED BY <1>1, <1>6, <1>7, <1>8, <1>9, <1>10, <1>11, <1>12, <1>13, QuietStep

LEMMA PoisonRecycledKeeps ==
  ASSUME HeapInv, NEW t \in Threads, PoisonRecycled(t)
  PROVE  HeapInv'
<1>1. PICK phase \in [Blocks -> Phases], holder \in [Blocks -> Holders],
           doom \in [Threads -> SUBSET Blocks] : Inv(phase, holder, doom)
  BY DEF HeapInv
<1>2. /\ Plan(todo[t], t, phase, holder, doom[t])
      /\ todo[t] # <<>> /\ Head(todo[t])[1] = "poison"
  BY <1>1 DEF Inv, PoisonRecycled, Does, Next
<1>3. PICK b \in Blocks :
        /\ Head(todo[t])[2] = b /\ doom[t] = {}
        /\ phase[b] = "poison" /\ Owns(t, b, phase, holder)
        /\ RecyclesOn(todo[t], t, b, phase, holder, doom[t])
  BY <1>2, PlanRecycling
<1>4. Types /\ At(b, phase[b], holder[b]) /\ Fits(b, phase[b], Doomers(b, doom))
  BY <1>1 DEF Inv
<1>5. Chunk(t) = b
  BY <1>3 DEF Chunk, Next
<1>6. todo'[t] = <<>> \o Tail(todo[t]) /\ \A u \in Threads \ {t} : todo'[u] = todo[u]
  BY <1>3, <1>4, <1>5 DEF PoisonRecycled, Advance, Continue, Types
<1>7. Types'
  <2>1. /\ pool' \subseteq Blocks /\ live' \subseteq Blocks /\ internals' \subseteq Blocks
        /\ batches' \subseteq Blocks /\ quarantined' \subseteq Blocks
        /\ cache' \in [Threads -> SUBSET Blocks]
        /\ size' \in [Blocks -> User]
        /\ chunk_state' \in [Blocks -> States] /\ meta' \in [Blocks -> 0..Granules]
        /\ todo' = [u \in Threads |-> todo'[u]]
        /\ frees' \in [Blocks -> Nat] /\ reports' \in [Blocks -> Nat]
        /\ check_failed' = FALSE
    BY <1>4, <1>5
    DEF PoisonRecycled, SetShadow, Used, Advance, Continue, places, ghosts, Types
  <2>2. shadow' \in [Blocks -> [0..Granules -> Shades]]
    BY <1>4, <1>5, SetShadowIs DEF PoisonRecycled, Shades, Types
  <2> QED BY <2>1, <2>2 DEF Types
<1>8. \A x \in Blocks \ {b} : Untouched(x)
  BY <1>4, <1>5 DEF PoisonRecycled, SetShadow, Used, Advance, Continue, places, ghosts,
     Types, Untouched
<1>9. At(b, "deallocate", t)'
  BY <1>3, <1>4, <1>5 DEF PoisonRecycled, SetShadow, Used, Advance, Continue, places,
     ghosts, At, HoldsOne, Types
<1>10. Fits(b, "deallocate", Doomers(b, doom))'
  <2>1. /\ chunk_state'[b] = chunk_state[b]
        /\ size'[b] = size[b]
        /\ meta'[b] = meta[b]
        /\ frees'[b] = frees[b]
        /\ reports'[b] = reports[b]
    BY <1>4, <1>5
    DEF PoisonRecycled, SetShadow, Used, Advance, Continue, places, ghosts, Types
  <2>2. phase[b] = "poison"
    BY <1>3 DEF HoldsOne
  <2>3. shadow'[b] = [g \in 0..Granules |->
            IF g \in 1..size[b] THEN "redzone" ELSE shadow[b][g]]
    <3>1. PICK G : G = 1..size[b]
      OBVIOUS
    <3>2. SetShadow(b, G, "redzone") /\ "redzone" \in Shades
      BY <1>5, <3>1 DEF PoisonRecycled, Used, Shades
    <3>3. shadow'[b] = [g \in 0..Granules |-> IF g \in G THEN "redzone" ELSE shadow[b][g]]
      BY <1>4, <3>2, SetShadowIs
    <3> QED BY <3>1, <3>3, Zenon
  <2>4. ShadowFits("deallocate", size[b], shadow'[b])
    <3>1. Fenced(shadow[b], size[b])
      BY <1>4, <2>2 DEF Fits, ShadowFits
    <3>2. Closed(shadow'[b])
      BY <2>3, <3>1 DEF Fenced, Closed
    <3> QED BY <3>2 DEF ShadowFits
  <2>5. HeaderFits("deallocate", chunk_state'[b], size[b], meta'[b])
    BY <1>4, <2>1, <2>2, <2>3 DEF Fits, HeaderFits, Won
  <2>6. CountsFit("deallocate", frees[b], reports[b], Doomers(b, doom))
    BY <1>4, <2>2 DEF Fits, CountsFit, Won
  <2> QED BY <2>1, <2>3, <2>4, <2>5, <2>6, Zenon DEF Fits
<1>11. Plan(todo'[t], t, [phase EXCEPT ![b] = "deallocate"], [holder EXCEPT ![b] = t], doom[t])
  <2> DEFINE phase2 == [phase EXCEPT ![b] = "deallocate"]
             holder2 == [holder EXCEPT ![b] = t]
  <2>1. /\ phase2[b] = "deallocate" /\ holder2[b] = t
        /\ \A x \in Blocks \ {b} : phase2[x] = phase[x] /\ holder2[x] = holder[x]
    OBVIOUS
  <2> HIDE DEF phase2, holder2
  <2>2. \A x \in Blocks : /\ Owns(t, x, phase2, holder2) <=> Owns(t, x, phase, holder)
                          /\ x # b => phase2[x] = phase[x]
    BY <1>3, <2>1 DEF Owns, Held
  <2>3. Plan(<<>> \o Tail(todo[t]), t, phase2, holder2, doom[t])
    BY <1>2, <1>3, <2>1, <2>2 DEF RecyclesOn
  <2> QED BY <1>6, <2>3, Zenon DEF phase2, holder2
<1>12. phase[b] \in Held => holder[b] = t
  BY <1>3 DEF HoldsOne, EmptyHanded, Owns
<1>13. "deallocate" \in Phases
  BY <1>1 DEF Phases, Held
<1> QED BY <1>1, <1>6, <1>7, <1>8, <1>9, <1>10, <1>11, <1>12, <1>13, QuietStep

LEMMA ReturnToPoolKeeps ==
  ASSUME HeapInv, NEW t \in Threads, ReturnToPool(t)
  PROVE  HeapInv'
<1>1. PICK phase \in [Blocks -> Phases], holder \in [Blocks -> Holders],
           doom \in [Threads -> SUBSET Blocks] : Inv(phase, holder, doom)
  BY DEF HeapInv
<1>2. /\ Plan(todo[t], t, phase, holder, doom[t])
      /\ todo[t] # <<>> /\ Head(todo[t])[1] = "deallocate"
  BY <1>1 DEF Inv, ReturnToPool, Does, Next
<1>3. PICK b \in Blocks :
        /\ Head(todo[t])[2] = b /\ doom[t] = {}
        /\ phase[b] \in {"internal", "deallocate"} /\ Owns(t, b, phase, holder)
        /\ LetsGo(todo[t], t, b, phase, holder, doom[t])
  BY <1>2, PlanDeallocate
<1>4. Types /\ At(b, phase[b], holder[b]) /\ Fits(b, phase[b], Doomers(b, doom))
  BY <1>1 DEF Inv
<1>5. Chunk(t) = b
  BY <1>3 DEF Chunk, Next
<1>6. todo'[t] = <<>> \o Tail(todo[t]) /\ \A u \in Threads \ {t} : todo'[u] = todo[u]
  BY <1>3, <1>4, <1>5 DEF ReturnToPool, Advance, Continue, Types
<1>7. Types'
  <2>1. /\ pool' \subseteq Blocks /\ live' \subseteq Blocks /\ internals' \subseteq Blocks
        /\ batches' \subseteq Blocks /\ quarantined' \subseteq Blocks
        /\ cache' \in [Threads -> SUBSET Blocks]
        /\ size' \in [Blocks -> User]
        /\ chunk_state' \in [Blocks -> States] /\ meta' \in [Blocks -> 0..Granules]
        /\ shadow' \in [Blocks -> [0..Granules -> Shades]]
        /\ todo' = [u \in Threads |-> todo'[u]]
        /\ frees' \in [Blocks -> Nat] /\ reports' \in [Blocks -> Nat]
        /\ check_failed' = FALSE
    BY <1>4, <1>5 DEF ReturnToPool, Advance, Continue, memory, ghosts, Types
  <2> QED BY <2>1 DEF Types
<1>8. \A x \in Blocks \ {b} : Untouched(x)
  BY <1>4, <1>5 DEF ReturnToPool, Advance, Continue, memory, ghosts, Types, Untouched
<1>9. At(b, "pool", t)'
  BY <1>3, <1>4, <1>5
  DEF ReturnToPool, Advance, Continue, memory, ghosts, At, HoldsOne, Types
<1>10. Fits(b, "pool", Doomers(b, doom))'
  <2>1. /\ chunk_state'[b] = chunk_state[b]
        /\ size'[b] = size[b]
        /\ shadow'[b] = shadow[b]
        /\ meta'[b] = meta[b]
        /\ frees'[b] = frees[b]
        /\ reports'[b] = reports[b]
    BY <1>4, <1>5 DEF ReturnToPool, Advance, Continue, memory, ghosts, Types
  <2>2. ShadowFits("pool", size[b], shadow[b])
    BY <1>3, <1>4 DEF Fits, ShadowFits
  <2>3. HeaderFits("pool", chunk_state[b], size[b], meta[b])
    BY DEF HeaderFits, Won
  <2>4. CountsFit("pool", frees[b], reports[b], Doomers(b, doom))
    BY <1>3, <1>4 DEF Fits, CountsFit, Won
  <2> QED BY <2>1, <2>2, <2>3, <2>4, Zenon DEF Fits
<1>11. Plan(todo'[t], t, [phase EXCEPT ![b] = "pool"], [holder EXCEPT ![b] = t], doom[t])
  <2> DEFINE phase2 == [phase EXCEPT ![b] = "pool"]
             holder2 == [holder EXCEPT ![b] = t]
  <2>1. /\ phase2[b] = "pool"
        /\ \A x \in Blocks \ {b} : phase2[x] = phase[x] /\ holder2[x] = holder[x]
    OBVIOUS
  <2> HIDE DEF phase2, holder2
  <2>2. /\ ~Owns(t, b, phase2, holder2)
        /\ \A x \in Blocks \ {b} :
             /\ Owns(t, x, phase2, holder2) <=> Owns(t, x, phase, holder)
             /\ phase2[x] = phase[x]
    BY <1>3, <2>1 DEF Owns, Held
  <2>3. Plan(<<>> \o Tail(todo[t]), t, phase2, holder2, doom[t])
    BY <1>3, <2>2 DEF LetsGo
  <2> QED BY <1>6, <2>3, Zenon DEF phase2, holder2
<1>12. phase[b] \in Held => holder[b] = t
  BY <1>3 DEF HoldsOne, EmptyHanded, Owns
<1>13. "pool" \in Phases
  BY <1>1 DEF Phases, Held
<1> QED BY <1>1, <1>6, <1>7, <1>8, <1>9, <1>10, <1>11, <1>12, <1>13, QuietStep

----------------------------------------------------------------------------
(* Steps that move no block, and those that move many. *)

LEMMA StayStep ==
  ASSUME NEW phase \in [Blocks -> Phases], NEW holder \in [Blocks -> Holders],
         NEW doom \in [Threads -> SUBSET Blocks], Inv(phase, holder, doom),
         NEW t \in Threads, NEW D \in SUBSET Blocks,
         Types', \A u \in Threads \ {t} : todo'[u] = todo[u],
         Plan(todo'[t], t, phase, holder, D),
         \A x \in Blocks : /\ At(x, phase[x], holder[x])'
                           /\ Fits(x, phase[x], DoomersThen(x, doom, t, D))'
  PROVE  HeapInv'
<1> DEFINE doom2 == [doom EXCEPT ![t] = D]
<1>1. /\ doom2 \in [Threads -> SUBSET Blocks] /\ doom2[t] = D
      /\ \A u \in Threads \ {t} : doom2[u] = doom[u]
  OBVIOUS
<1> HIDE DEF doom2
<1>2. \A u \in Threads \ {t} : todo'[u] = todo[u] /\ doom2[u] = doom[u]
  BY <1>1
<1>3. Plan(todo'[t], t, phase, holder, doom2[t])
  BY <1>1, Zenon
<1>4. \A u \in Threads \ {t}, x \in Blocks :
        /\ Owns(u, x, phase, holder) <=> Owns(u, x, phase, holder)
        /\ Owns(u, x, phase, holder) => phase[x] = phase[x]
  OBVIOUS
<1>5. ASSUME NEW x \in Blocks
      PROVE  Doomers(x, doom2) = DoomersThen(x, doom, t, D)
  BY <1>1 DEF Doomers, DoomersThen
<1>6. \A x \in Blocks : /\ At(x, phase[x], holder[x])'
                        /\ Fits(x, phase[x], Doomers(x, doom2))'
  BY <1>5, Zenon
<1> QED BY <1>1, <1>2, <1>3, <1>4, <1>6, StepKeeps

\* The blocks of S, which nobody holds, get phase p at once.
LEMMA MoveStep ==
  ASSUME NEW phase \in [Blocks -> Phases], NEW holder \in [Blocks -> Holders],
         NEW doom \in [Threads -> SUBSET Blocks], Inv(phase, holder, doom),
         NEW t \in Threads, NEW S \in SUBSET Blocks, NEW p \in Phases,
         NEW phase2, phase2 = [x \in Blocks |-> IF x \in S THEN p ELSE phase[x]],
         NEW holder2, holder2 = [x \in Blocks |-> IF x \in S THEN t ELSE holder[x]],
         Types', \A u \in Threads \ {t} : todo'[u] = todo[u],
         \A x \in S : phase[x] \notin Held,
         \A x \in Blocks \ S : Untouched(x),
         Plan(todo'[t], t, phase2, holder2, doom[t]),
         \A x \in S : At(x, p, t)' /\ Fits(x, p, Doomers(x, doom))'
  PROVE  HeapInv'
<1>1. phase2 \in [Blocks -> Phases] /\ holder2 \in [Blocks -> Holders]
  BY DEF Holders
<1>2. \A u \in Threads \ {t}, x \in Blocks :
        /\ Owns(u, x, phase2, holder2) <=> Owns(u, x, phase, holder)
        /\ Owns(u, x, phase, holder) => phase2[x] = phase[x]
  BY DEF Owns
<1>3. ASSUME NEW x \in Blocks
      PROVE  At(x, phase2[x], holder2[x])' /\ Fits(x, phase2[x], Doomers(x, doom))'
  <2>1. CASE x \in S
    <3>1. phase2[x] = p /\ holder2[x] = t
      BY <2>1
    <3> QED BY <2>1, <3>1, Zenon
  <2>2. CASE x \notin S
    <3>1. phase2[x] = phase[x] /\ holder2[x] = holder[x] /\ Untouched(x)
      BY <2>2
    <3>2. At(x, phase[x], holder[x]) /\ Fits(x, phase[x], Doomers(x, doom))
      BY Zenon DEF Inv
    <3>3. At(x, phase[x], holder[x])' /\ Fits(x, phase[x], Doomers(x, doom))'
      BY <3>1, <3>2, UntouchedFits, Zenon
    <3> QED BY <3>1, <3>3, Zenon
  <2> QED BY <2>1, <2>2
<1>4. \A x \in Blocks : /\ At(x, phase2[x], holder2[x])'
                        /\ Fits(x, phase2[x], Doomers(x, doom))'
  BY <1>3, Zenon
<1>5. \A u \in Threads \ {t} : todo'[u] = todo[u] /\ doom[u] = doom[u]
  OBVIOUS
<1> QED BY <1>1, <1>2, <1>4, <1>5, StepKeeps

\* The call of t still has the same chunk to free.
LEMMA StayQuiet ==
  ASSUME NEW phase \in [Blocks -> Phases], NEW holder \in [Blocks -> Holders],
         NEW doom \in [Threads -> SUBSET Blocks], Inv(phase, holder, doom),
         NEW t \in Threads,
         Types', \A u \in Threads \ {t} : todo'[u] = todo[u],
         Plan(todo'[t], t, phase, holder, doom[t]),
         \A x \in Blocks : /\ At(x, phase[x], holder[x])'
                           /\ Fits(x, phase[x], Doomers(x, doom))'
  PROVE  HeapInv'
<1>1. \A u \in Threads \ {t}, x \in Blocks :
        /\ Owns(u, x, phase, holder) <=> Owns(u, x, phase, holder)
        /\ Owns(u, x, phase, holder) => phase[x] = phase[x]
  OBVIOUS
<1>2. \A u \in Threads \ {t} : todo'[u] = todo[u] /\ doom[u] = doom[u]
  OBVIOUS
<1> QED BY <1>1, <1>2, StepKeeps

----------------------------------------------------------------------------
(* The steps of Deallocate up to the one that wins the chunk. *)

LEMMA CheckStateKeeps ==
  ASSUME HeapInv, NEW t \in Threads, CheckState(t)
  PROVE  HeapInv'
<1>1. PICK phase \in [Blocks -> Phases], holder \in [Blocks -> Holders],
           doom \in [Threads -> SUBSET Blocks] : Inv(phase, holder, doom)
  BY DEF HeapInv
<1>2. /\ Plan(todo[t], t, phase, holder, doom[t])
      /\ todo[t] # <<>> /\ Head(todo[t])[1] = "check"
  BY <1>1 DEF Inv, CheckState, Does, Next
<1>3. PICK b \in Blocks :
        /\ Head(todo[t])[2] = b /\ doom[t] = {b} /\ EmptyHanded(t, phase, holder)
        /\ FreeSteps(<<>> \o Tail(todo[t]), b)
  BY <1>2, PlanCheck
<1>4. Types /\ At(b, phase[b], holder[b]) /\ Fits(b, phase[b], Doomers(b, doom))
  BY <1>1 DEF Inv
<1>5. Chunk(t) = b
  BY <1>3 DEF Chunk, Next
<1>6. todo'[t] = <<>> \o Tail(todo[t]) /\ \A u \in Threads \ {t} : todo'[u] = todo[u]
  BY <1>3, <1>4, <1>5 DEF CheckState, Advance, Continue, Types
<1>7. Types'
  <2>1. /\ pool' \subseteq Blocks /\ live' \subseteq Blocks /\ internals' \subseteq Blocks
        /\ batches' \subseteq Blocks /\ quarantined' \subseteq Blocks
        /\ cache' \in [Threads -> SUBSET Blocks]
        /\ size' \in [Blocks -> User]
        /\ chunk_state' \in [Blocks -> States] /\ meta' \in [Blocks -> 0..Granules]
        /\ shadow' \in [Blocks -> [0..Granules -> Shades]]
        /\ todo' = [u \in Threads |-> todo'[u]]
        /\ check_failed' = FALSE
    BY <1>4, <1>5 DEF CheckState, Report, Advance, Continue, places, memory, Types
  <2>2. frees' \in [Blocks -> Nat] /\ reports' \in [Blocks -> Nat]
    BY <1>4, <1>5, ReportIs DEF CheckState, Types
  <2> QED BY <2>1, <2>2 DEF Types
<1>8. \A x \in Blocks \ {b} : Untouched(x)
  BY <1>4, <1>5 DEF CheckState, Report, places, memory, Types, Untouched
<1>9. At(b, phase[b], holder[b])'
  BY <1>4 DEF CheckState, places, At
<1>10. Fits(b, phase[b], Doomers(b, doom))'
  <2>1. /\ chunk_state' = chunk_state /\ size' = size /\ shadow' = shadow
        /\ meta' = meta /\ frees' = frees
    BY DEF CheckState, memory
  <2>2. CountsFit(phase[b], frees[b], reports[b], Doomers(b, doom))
    BY <1>4 DEF Fits
  <2>3. CASE chunk_state[b] = "allocated"
    <3>1. reports' = reports
      BY <1>5, <2>3 DEF CheckState
    <3> QED BY <1>4, <2>1, <3>1, Zenon DEF Fits
  <2>4. CASE chunk_state[b] # "allocated"
    <3>1. reports[b] \in Nat /\ reports'[b] = reports[b] + 1
      BY <1>4, <1>5, <2>4 DEF CheckState, Report, Types
    <3>2. phase[b] # "freed"
      BY <1>4, <2>4 DEF Fits, HeaderFits
    <3>3. Doomers(b, doom) # {}
      BY <1>3 DEF Doomers
    <3>4. CountsFit(phase[b], frees[b], reports'[b], Doomers(b, doom))
      BY <2>2, <3>1, <3>2, <3>3 DEF CountsFit
    <3> QED BY <1>4, <2>1, <3>4, Zenon DEF Fits
  <2> QED BY <2>3, <2>4, Zenon
<1>11. ASSUME NEW x \in Blocks
       PROVE  At(x, phase[x], holder[x])' /\ Fits(x, phase[x], Doomers(x, doom))'
  <2>1. CASE x = b
    BY <1>9, <1>10, <2>1, Zenon
  <2>2. CASE x # b
    BY <1>1, <1>8, <2>2, UntouchedFits DEF Inv
  <2> QED BY <2>1, <2>2
<1>12. Plan(todo'[t], t, phase, holder, doom[t])
  BY <1>3, <1>6, Zenon DEF Plan, Frees
<1> QED BY <1>1, <1>6, <1>7, <1>11, <1>12, StayQuiet

LEMMA DeallocateKeeps ==
  ASSUME HeapInv, NEW t \in Threads, Deallocate(t)
  PROVE  HeapInv'
<1>1. PICK phase \in [Blocks -> Phases], holder \in [Blocks -> Holders],
           doom \in [Threads -> SUBSET Blocks] : Inv(phase, holder, doom)
  BY DEF HeapInv
<1>2. /\ Plan(todo[t], t, phase, holder, doom[t])
      /\ todo[t] # <<>> /\ Head(todo[t])[1] = "free"
  BY <1>1 DEF Inv, Deallocate, Does, Next
<1>3. PICK b \in Blocks :
        /\ Head(todo[t])[2] = b /\ Tail(todo[t]) = <<>>
        /\ \/ doom[t] = {b} /\ EmptyHanded(t, phase, holder) /\ Head(todo[t])[3] = 1
           \/ doom[t] = {} /\ HoldsOne(t, b, "internal", phase, holder) /\ Head(todo[t])[3] = 0
  BY <1>2, PlanFree
<1>4. Types /\ Fits(b, phase[b], Doomers(b, doom))
  BY <1>1 DEF Inv
<1>5. Chunk(t) = b
  BY <1>3 DEF Chunk, Next
<1>6. Types'
  <2>1. /\ pool' \subseteq Blocks /\ live' \subseteq Blocks /\ internals' \subseteq Blocks
        /\ batches' \subseteq Blocks /\ quarantined' \subseteq Blocks
        /\ cache' \in [Threads -> SUBSET Blocks]
        /\ size' \in [Blocks -> User]
        /\ chunk_state' \in [Blocks -> States] /\ meta' \in [Blocks -> 0..Granules]
        /\ shadow' \in [Blocks -> [0..Granules -> Shades]]
        /\ todo' = [u \in Threads |-> todo'[u]]
        /\ frees' \in [Blocks -> Nat] /\ reports' \in [Blocks -> Nat]
        /\ check_failed' = FALSE
    BY <1>4, <1>5 DEF Deallocate, Continue, places, memory, ghosts, Types
  <2> QED BY <2>1 DEF Types
<1>7. \A u \in Threads \ {t} : todo'[u] = todo[u]
  BY <1>4 DEF Deallocate, Continue, Types
<1>8. ASSUME NEW x \in Blocks
      PROVE  At(x, phase[x], holder[x])' /\ Fits(x, phase[x], Doomers(x, doom))'
  <2>1. Untouched(x)
    BY DEF Deallocate, places, memory, ghosts, Untouched
  <2> QED BY <1>1, <2>1, UntouchedFits DEF Inv
<1>9. Plan(todo'[t], t, phase, holder, doom[t])
  <2>1. CASE doom[t] = {b} /\ EmptyHanded(t, phase, holder) /\ Head(todo[t])[3] = 1
    <3>1. phase[b] \in Won \cup {"freed"}
      <4>1. Doomers(b, doom) # {}
        BY <2>1 DEF Doomers
      <4> QED BY <1>4, <4>1 DEF Fits, CountsFit
    <3>2. shadow[b][1] # "internal"
      <4>1. size[b] \in 1..Granules /\ 1 \in 0..Granules
        BY <1>4, HeapAssumption DEF Types, User
      <4>2. \/ Open(shadow[b], size[b]) \/ Closed(shadow[b]) \/ Plain(shadow[b], size[b])
        BY <1>4, <3>1 DEF Fits, ShadowFits, Won
      <4> QED BY <4>1, <4>2 DEF Open, Closed, Plain, Fenced
    <3>3. todo'[t] = Free(b) \o <<>>
      BY <1>3, <1>4, <1>5, <2>1, <3>2
      DEF Deallocate, Continue, IsHeapAllocatedInternally, Next, Types
    <3>4. FreeSteps(todo'[t], b)
      BY <3>3, FreeIs, Zenon
    <3> QED BY <2>1, <3>4, Zenon DEF Plan, Frees
  <2>2. CASE doom[t] = {} /\ HoldsOne(t, b, "internal", phase, holder) /\ Head(todo[t])[3] = 0
    <3>1. shadow[b][0] = "internal"
      BY <1>4, <2>2, HeapAssumption DEF Fits, ShadowFits, Magic, HoldsOne
    <3>2. todo'[t] = DeallocateInternal(b) \o <<>>
      BY <1>3, <1>4, <1>5, <2>2, <3>1
      DEF Deallocate, Continue, IsHeapAllocatedInternally, Next, Types
    <3>3. InternalSteps(todo'[t], b)
      BY <3>2, DeallocateInternalIs, Zenon
    <3> QED BY <2>2, <3>3, Zenon DEF Plan, FreesInternal
  <2> QED BY <1>3, <2>1, <2>2
<1>10. \A x \in Blocks : /\ At(x, phase[x], holder[x])'
                         /\ Fits(x, phase[x], Doomers(x, doom))'
  BY <1>8, Zenon
<1> QED BY <1>1, <1>6, <1>7, <1>9, <1>10, StayQuiet

LEMMA AtomicallySetQuarantineFlagIfAllocatedKeeps ==
  ASSUME HeapInv, NEW t \in Threads, AtomicallySetQuarantineFlagIfAllocated(t)
  PROVE  HeapInv'
<1>1. PICK phase \in [Blocks -> Phases], holder \in [Blocks -> Holders],
           doom \in [Threads -> SUBSET Blocks] : Inv(phase, holder, doom)
  BY DEF HeapInv
<1>2. /\ Plan(todo[t], t, phase, holder, doom[t])
      /\ todo[t] # <<>> /\ Head(todo[t])[1] = "cas"
  BY <1>1 DEF Inv, AtomicallySetQuarantineFlagIfAllocated, Does, Next
<1>3. PICK b \in Blocks :
        /\ Head(todo[t])[2] = b /\ doom[t] = {b} /\ EmptyHanded(t, phase, holder)
        /\ PutSteps(<<>> \o Tail(todo[t]), "free_hook", b)
  BY <1>2, PlanCas
<1>4. Types /\ At(b, phase[b], holder[b]) /\ Fits(b, phase[b], Doomers(b, doom))
  BY <1>1 DEF Inv
<1>5. Chunk(t) = b
  BY <1>3 DEF Chunk, Next
<1>6. \A u \in Threads \ {t} : todo'[u] = todo[u]
  BY <1>4 DEF AtomicallySetQuarantineFlagIfAllocated, Advance, Continue, Types
<1>7. Types'
  <2>1. /\ pool' \subseteq Blocks /\ live' \subseteq Blocks /\ internals' \subseteq Blocks
        /\ batches' \subseteq Blocks /\ quarantined' \subseteq Blocks
        /\ cache' \in [Threads -> SUBSET Blocks]
        /\ size' \in [Blocks -> User]
        /\ chunk_state' \in [Blocks -> States] /\ meta' \in [Blocks -> 0..Granules]
        /\ shadow' \in [Blocks -> [0..Granules -> Shades]]
        /\ todo' = [u \in Threads |-> todo'[u]]
        /\ check_failed' = FALSE
    BY <1>4, <1>5 DEF AtomicallySetQuarantineFlagIfAllocated, Report, Advance,
       Continue, places, States, Types
  <2>2. frees' \in [Blocks -> Nat] /\ reports' \in [Blocks -> Nat]
    BY <1>4, <1>5, ReportIs DEF AtomicallySetQuarantineFlagIfAllocated, Types
  <2> QED BY <2>1, <2>2 DEF Types
<1>8. \A x \in Blocks \ {b} : Untouched(x)
  BY <1>4, <1>5
  DEF AtomicallySetQuarantineFlagIfAllocated, Report, Types, Untouched, places
<1>9. DoomersThen(b, doom, t, {}) = Doomers(b, doom) \ {t} /\ t \in Doomers(b, doom)
  BY <1>3 DEF DoomersThen, Doomers
<1>10. TwoOf(Doomers(b, doom) \ {t}) => TwoOf(Doomers(b, doom))
  BY DEF TwoOf
<1>11. phase[b] \in Won \cup {"freed"}
  BY <1>4, <1>9 DEF Fits, CountsFit
<1>12. places' = places /\ size' = size /\ shadow' = shadow /\ meta' = meta /\ frees' = frees
  BY DEF AtomicallySetQuarantineFlagIfAllocated, places
<1>13. CASE chunk_state[b] = "allocated"
  <2>1. phase[b] = "freed"
    BY <1>4, <1>11, <1>13 DEF Fits, HeaderFits, Won
  <2>2. todo'[t] = <<>> \o Tail(todo[t])
    BY <1>4, <1>5, <1>13
    DEF AtomicallySetQuarantineFlagIfAllocated, Advance, Continue, Types
  <2>3. chunk_state'[b] = "quarantine" /\ reports' = reports
    BY <1>4, <1>5, <1>13 DEF AtomicallySetQuarantineFlagIfAllocated, Types
  <2>4. At(b, "free_hook", t)'
    BY <1>4, <1>12, <2>1 DEF At, places
  <2>5. Fits(b, "free_hook", DoomersThen(b, doom, t, {}))'
    <3>1. ShadowFits("free_hook", size[b], shadow[b])
      BY <1>4, <2>1 DEF Fits, ShadowFits
    <3>2. HeaderFits("free_hook", chunk_state'[b], size[b], meta[b])
      BY <2>3 DEF HeaderFits, Won
    <3>3. CountsFit("free_hook", frees[b], reports[b], Doomers(b, doom) \ {t})
      <4>1. CountsFit("freed", frees[b], reports[b], Doomers(b, doom))
        BY <1>4, <2>1 DEF Fits
      <4>2. TwoOf(Doomers(b, doom)) <=> Doomers(b, doom) \ {t} # {}
        BY <1>9 DEF TwoOf
      <4> QED BY <1>10, <4>1, <4>2 DEF CountsFit, Won
    <3> QED BY <1>9, <1>12, <2>3, <3>1, <3>2, <3>3, Zenon DEF Fits
  <2>6. Plan(todo'[t], t, [phase EXCEPT ![b] = "free_hook"], [holder EXCEPT ![b] = t], {})
    <3>1. HoldsOne(t, b, "free_hook", [phase EXCEPT ![b] = "free_hook"],
                   [holder EXCEPT ![b] = t])
      BY <1>3, Hands DEF Held
    <3>2. "free_hook" \in Held
      BY DEF Held
    <3> QED BY <1>3, <2>2, <3>1, <3>2, Zenon DEF Plan, Puts
  <2>7. /\ phase[b] \notin Held /\ "free_hook" \in Phases /\ t \in Holders
        /\ \A x \in Blocks \ {b} : x \in {} <=> x \in doom[t]
    BY <1>3, <2>1 DEF Held, Phases, Holders
  <2>8. PICK D : D = {}
    OBVIOUS
  <2>9. /\ D \in SUBSET Blocks /\ \A x \in Blocks \ {b} : x \in D <=> x \in doom[t]
        /\ Fits(b, "free_hook", DoomersThen(b, doom, t, D))'
        /\ Plan(todo'[t], t, [phase EXCEPT ![b] = "free_hook"], [holder EXCEPT ![b] = t], D)
    BY <2>5, <2>6, <2>7, <2>8
  <2> QED BY <1>1, <1>6, <1>7, <1>8, <2>4, <2>7, <2>9, BlockStep
<1>14. CASE chunk_state[b] # "allocated"
  <2>1. phase[b] # "freed"
    BY <1>4, <1>14 DEF Fits, HeaderFits
  <2>2. todo'[t] = <<>>
    BY <1>4, <1>5, <1>14 DEF AtomicallySetQuarantineFlagIfAllocated, Types
  <2>3. /\ chunk_state' = chunk_state
        /\ reports[b] \in Nat /\ reports'[b] = reports[b] + 1
    BY <1>4, <1>5, <1>14 DEF AtomicallySetQuarantineFlagIfAllocated, Report, Types
  <2>4. At(b, phase[b], holder[b])'
    BY <1>4, <1>12 DEF At, places
  <2>5. Fits(b, phase[b], DoomersThen(b, doom, t, {}))'
    <3>1. CountsFit(phase[b], frees[b], reports'[b], Doomers(b, doom) \ {t})
      <4>1. CountsFit(phase[b], frees[b], reports[b], Doomers(b, doom))
        BY <1>4 DEF Fits
      <4> QED BY <1>9, <1>10, <1>11, <2>1, <2>3, <4>1 DEF CountsFit
    <3> QED BY <1>4, <1>9, <1>12, <2>3, <3>1, Zenon DEF Fits
  <2>6. ASSUME NEW x \in Blocks
        PROVE  /\ At(x, phase[x], holder[x])'
               /\ Fits(x, phase[x], DoomersThen(x, doom, t, {}))'
    <3>1. CASE x = b
      BY <2>4, <2>5, <3>1, Zenon
    <3>2. CASE x # b
      <4>1. DoomersThen(x, doom, t, {}) = Doomers(x, doom)
        BY <1>3, <3>2 DEF DoomersThen, Doomers
      <4>2. Untouched(x) /\ At(x, phase[x], holder[x]) /\ Fits(x, phase[x], Doomers(x, doom))
        BY <1>1, <1>8, <3>2 DEF Inv
      <4> QED BY <4>1, <4>2, UntouchedFits, Zenon
    <3> QED BY <3>1, <3>2
  <2>7. Plan(todo'[t], t, phase, holder, {})
    BY <1>3, <2>2, Zenon DEF Plan, Idles
  <2>8. \A x \in Blocks : /\ At(x, phase[x], holder[x])'
                          /\ Fits(x, phase[x], DoomersThen(x, doom, t, {}))'
    BY <2>6, Zenon
  <2> QED BY <1>1, <1>6, <1>7, <2>7, <2>8, StayStep
<1> QED BY <1>13, <1>14

LEMMA AllocateInternelKeeps ==
  ASSUME HeapInv, NEW t \in Threads, AllocateInternel(t)
  PROVE  HeapInv'
<1>1. PICK phase \in [Blocks -> Phases], holder \in [Blocks -> Holders],
           doom \in [Threads -> SUBSET Blocks] : Inv(phase, holder, doom)
  BY DEF HeapInv
<1>2. doom[t] = {} /\ EmptyHanded(t, phase, holder)
  BY <1>1, PlanRest DEF Inv, AllocateInternel
<1>3. PICK b \in pool :
        /\ pool' = pool \ {b} /\ internals' = internals \cup {b}
        /\ shadow' = [shadow EXCEPT ![b] = [g \in 0..Granules |-> "internal"]]
        /\ chunk_state' = [chunk_state EXCEPT ![b] = "data"]
  BY DEF AllocateInternel
<1>4. Types /\ At(b, phase[b], holder[b]) /\ Fits(b, phase[b], Doomers(b, doom))
  BY <1>1, <1>3 DEF Inv, Types
<1>5. phase[b] = "pool"
  BY <1>3, <1>4 DEF At
<1>6. todo'[t] = todo[t] /\ \A u \in Threads \ {t} : todo'[u] = todo[u]
  BY <1>3, <1>4 DEF AllocateInternel, Types
<1>7. Types'
  <2>1. /\ pool' \subseteq Blocks /\ live' \subseteq Blocks /\ internals' \subseteq Blocks
        /\ batches' \subseteq Blocks /\ quarantined' \subseteq Blocks
        /\ cache' \in [Threads -> SUBSET Blocks]
        /\ size' \in [Blocks -> User]
        /\ todo' = [u \in Threads |-> todo'[u]]
        /\ frees' \in [Blocks -> Nat] /\ reports' \in [Blocks -> Nat]
        /\ check_failed' = FALSE
    BY <1>3, <1>4 DEF AllocateInternel, ghosts, Types
  <2>2. chunk_state' \in [Blocks -> States] /\ meta' \in [Blocks -> 0..Granules]
    BY <1>3, <1>4 DEF AllocateInternel, States, Types
  <2>3. shadow' \in [Blocks -> [0..Granules -> Shades]]
    BY <1>3, <1>4 DEF AllocateInternel, Shades, Types
  <2> QED BY <2>1, <2>2, <2>3 DEF Types
<1>8. \A x \in Blocks \ {b} : Untouched(x)
  BY <1>3, <1>4 DEF AllocateInternel, ghosts, Types, Untouched
<1>9. At(b, "internals", t)'
  BY <1>3, <1>4, <1>5 DEF AllocateInternel, ghosts, At
<1>10. Fits(b, "internals", Doomers(b, doom))'
  <2>1. /\ size' = size /\ meta' = meta /\ frees' = frees /\ reports' = reports
        /\ shadow'[b] = [g \in 0..Granules |-> "internal"]
    BY <1>3, <1>4 DEF AllocateInternel, ghosts, Types
  <2>2. ShadowFits("internals", size[b], shadow'[b])
    BY <2>1 DEF ShadowFits, Magic
  <2>3. HeaderFits("internals", chunk_state'[b], size[b], meta[b])
    BY DEF HeaderFits, Won
  <2>4. CountsFit("internals", frees[b], reports[b], Doomers(b, doom))
    BY <1>4, <1>5 DEF Fits, CountsFit, Won
  <2> QED BY <2>1, <2>2, <2>3, <2>4, Zenon DEF Fits
<1>11. Plan(todo'[t], t, [phase EXCEPT ![b] = "internals"], [holder EXCEPT ![b] = t], doom[t])
  <2>1. EmptyHanded(t, [phase EXCEPT ![b] = "internals"], [holder EXCEPT ![b] = t])
    BY <1>2, <1>3, <1>4, Hands DEF Held, Types
  <2>2. todo[t] = <<>>
    BY DEF AllocateInternel
  <2> QED BY <1>2, <1>6, <2>1, <2>2, Zenon DEF Plan, Idles
<1>12. phase[b] \notin Held /\ "internals" \in Phases
  BY <1>5 DEF Held, Phases
<1>13. b \in Blocks
  BY <1>3, <1>4 DEF Types
<1> QED BY <1>1, <1>6, <1>7, <1>8, <1>9, <1>10, <1>11, <1>12, <1>13, QuietStep

LEMMA TakeBatchKeeps ==
  ASSUME HeapInv, NEW t \in Threads, TakeBatch(t)
  PROVE  HeapInv'
<1>1. PICK phase \in [Blocks -> Phases], holder \in [Blocks -> Holders],
           doom \in [Threads -> SUBSET Blocks] : Inv(phase, holder, doom)
  BY DEF HeapInv
<1>2. doom[t] = {} /\ EmptyHanded(t, phase, holder)
  BY <1>1, PlanRest DEF Inv, TakeBatch
<1>3. PICK b \in pool :
        /\ pool' = pool \ {b} /\ batches' = {b} /\ batches = {}
        /\ chunk_state' = [chunk_state EXCEPT ![b] = "data"]
  BY DEF TakeBatch
<1>4. Types /\ At(b, phase[b], holder[b]) /\ Fits(b, phase[b], Doomers(b, doom))
  BY <1>1, <1>3 DEF Inv, Types
<1>5. phase[b] = "pool"
  BY <1>3, <1>4 DEF At
<1>6. todo'[t] = todo[t] /\ \A u \in Threads \ {t} : todo'[u] = todo[u]
  BY <1>3, <1>4 DEF TakeBatch, Types
<1>7. Types'
  <2>1. /\ pool' \subseteq Blocks /\ live' \subseteq Blocks /\ internals' \subseteq Blocks
        /\ batches' \subseteq Blocks /\ quarantined' \subseteq Blocks
        /\ cache' \in [Threads -> SUBSET Blocks]
        /\ size' \in [Blocks -> User]
        /\ shadow' \in [Blocks -> [0..Granules -> Shades]]
        /\ todo' = [u \in Threads |-> todo'[u]]
        /\ frees' \in [Blocks -> Nat] /\ reports' \in [Blocks -> Nat]
        /\ check_failed' = FALSE
    BY <1>3, <1>4 DEF TakeBatch, ghosts, Types
  <2>2. chunk_state' \in [Blocks -> States] /\ meta' \in [Blocks -> 0..Granules]
    BY <1>3, <1>4 DEF TakeBatch, States, Types
  <2> QED BY <2>1, <2>2 DEF Types
<1>8. \A x \in Blocks \ {b} : Untouched(x)
  BY <1>3, <1>4 DEF TakeBatch, ghosts, Types, Untouched
<1>9. At(b, "batches", t)'
  BY <1>3, <1>4, <1>5 DEF TakeBatch, ghosts, At
<1>10. Fits(b, "batches", Doomers(b, doom))'
  <2>1. /\ size' = size /\ shadow' = shadow /\ meta' = meta
        /\ frees' = frees /\ reports' = reports
    BY DEF TakeBatch, ghosts
  <2>2. ShadowFits("batches", size[b], shadow[b])
    BY <1>4, <1>5 DEF Fits, ShadowFits
  <2>3. HeaderFits("batches", chunk_state'[b], size[b], meta[b])
    BY DEF HeaderFits, Won
  <2>4. CountsFit("batches", frees[b], reports[b], Doomers(b, doom))
    BY <1>4, <1>5 DEF Fits, CountsFit, Won
  <2> QED BY <2>1, <2>2, <2>3, <2>4, Zenon DEF Fits
<1>11. Plan(todo'[t], t, [phase EXCEPT ![b] = "batches"], [holder EXCEPT ![b] = t], doom[t])
  <2>1. EmptyHanded(t, [phase EXCEPT ![b] = "batches"], [holder EXCEPT ![b] = t])
    BY <1>2, <1>3, <1>4, Hands DEF Held, Types
  <2>2. todo[t] = <<>>
    BY DEF TakeBatch
  <2> QED BY <1>2, <1>6, <2>1, <2>2, Zenon DEF Plan, Idles
<1>12. phase[b] \notin Held /\ "batches" \in Phases
  BY <1>5 DEF Held, Phases
<1>13. b \in Blocks
  BY <1>3, <1>4 DEF Types
<1> QED BY <1>1, <1>6, <1>7, <1>8, <1>9, <1>10, <1>11, <1>12, <1>13, QuietStep

LEMMA CallFreeInternalKeeps ==
  ASSUME HeapInv, NEW t \in Threads, CallFreeInternal(t)
  PROVE  HeapInv'
<1>1. PICK phase \in [Blocks -> Phases], holder \in [Blocks -> Holders],
           doom \in [Threads -> SUBSET Blocks] : Inv(phase, holder, doom)
  BY DEF HeapInv
<1>2. doom[t] = {} /\ EmptyHanded(t, phase, holder)
  BY <1>1, PlanRest DEF Inv, CallFreeInternal
<1>3. PICK b \in internals :
        /\ internals' = internals \ {b}
        /\ \E steps \in {<<<<"free", b, 0>>>>, DeallocateInternal(b)} :
             todo' = [todo EXCEPT ![t] = steps]
  BY DEF CallFreeInternal
<1>4. Types /\ At(b, phase[b], holder[b]) /\ Fits(b, phase[b], Doomers(b, doom))
  BY <1>1, <1>3 DEF Inv, Types
<1>5. phase[b] = "internals"
  BY <1>3, <1>4 DEF At
<1>6. /\ (todo'[t] = <<<<"free", b, 0>>>> \/ todo'[t] = DeallocateInternal(b))
       /\ \A u \in Threads \ {t} : todo'[u] = todo[u]
  BY <1>3, <1>4 DEF CallFreeInternal, Types
<1>7. Types'
  <2>1. /\ pool' \subseteq Blocks /\ live' \subseteq Blocks /\ internals' \subseteq Blocks
        /\ batches' \subseteq Blocks /\ quarantined' \subseteq Blocks
        /\ cache' \in [Threads -> SUBSET Blocks]
        /\ size' \in [Blocks -> User]
        /\ chunk_state' \in [Blocks -> States] /\ meta' \in [Blocks -> 0..Granules]
        /\ shadow' \in [Blocks -> [0..Granules -> Shades]]
        /\ todo' = [u \in Threads |-> todo'[u]]
        /\ frees' \in [Blocks -> Nat] /\ reports' \in [Blocks -> Nat]
        /\ check_failed' = FALSE
    BY <1>3, <1>4 DEF CallFreeInternal, memory, ghosts, Types
  <2> QED BY <2>1 DEF Types
<1>8. \A x \in Blocks \ {b} : Untouched(x)
  BY <1>3, <1>4 DEF CallFreeInternal, memory, ghosts, Types, Untouched
<1>9. At(b, "internal", t)'
  BY <1>3, <1>4, <1>5 DEF CallFreeInternal, memory, ghosts, At
<1>10. Fits(b, "internal", Doomers(b, doom))'
  <2>1. /\ chunk_state' = chunk_state /\ size' = size /\ shadow' = shadow
        /\ meta' = meta /\ frees' = frees /\ reports' = reports
    BY DEF CallFreeInternal, memory, ghosts
  <2>2. ShadowFits("internal", size[b], shadow[b])
    BY <1>4, <1>5 DEF Fits, ShadowFits
  <2>3. HeaderFits("internal", chunk_state[b], size[b], meta[b])
    BY DEF HeaderFits, Won
  <2>4. CountsFit("internal", frees[b], reports[b], Doomers(b, doom))
    BY <1>4, <1>5 DEF Fits, CountsFit, Won
  <2> QED BY <2>1, <2>2, <2>3, <2>4, Zenon DEF Fits
<1>11. Plan(todo'[t], t, [phase EXCEPT ![b] = "internal"], [holder EXCEPT ![b] = t], doom[t])
  <2>1. HoldsOne(t, b, "internal", [phase EXCEPT ![b] = "internal"], [holder EXCEPT ![b] = t])
    BY <1>2, <1>3, <1>4, Hands DEF Held, Types
  <2>2. InternalSteps(<<<<"free", b, 0>>>>, b) /\ InternalSteps(DeallocateInternal(b), b)
    BY DeallocateInternalIs, Zenon DEF InternalSteps, ToFreeInternal
  <2>3. InternalSteps(todo'[t], b)
    BY <1>6, <2>2
  <2>4. b \in Blocks
    BY <1>3, <1>4 DEF Types
  <2> QED BY <1>2, <2>1, <2>3, <2>4, Zenon DEF Plan, FreesInternal
<1>12. phase[b] \notin Held /\ "internal" \in Phases
  BY <1>5 DEF Held, Phases
<1>13. b \in Blocks
  BY <1>3, <1>4 DEF Types
<1> QED BY <1>1, <1>6, <1>7, <1>8, <1>9, <1>10, <1>11, <1>12, <1>13, QuietStep

\* The only thread that is to free a live chunk is the one that is now told to.
LEMMA LiveIsFreed ==
  ASSUME Types, NEW b \in Blocks, NEW DD, Fits(b, "live", DD), NEW t
  PROVE  /\ ShadowFits("freed", size[b], shadow[b])
         /\ HeaderFits("freed", chunk_state[b], size[b], meta[b])
         /\ CountsFit("freed", frees[b] + 1, reports[b], DD \cup {t})
<1>1. ShadowFits("freed", size[b], shadow[b])
  BY DEF Fits, ShadowFits
<1>2. HeaderFits("freed", chunk_state[b], size[b], meta[b])
  BY DEF Fits, HeaderFits, Won
<1>3. frees[b] = 0 /\ DD = {} /\ ~(reports[b] > 0)
  BY DEF Fits, CountsFit, Won
<1>4. reports[b] = 0
  BY <1>3 DEF Types
<1>5. ~TwoOf(DD \cup {t})
  BY <1>3 DEF TwoOf
<1>6. CountsFit("freed", frees[b] + 1, reports[b], DD \cup {t})
  BY <1>3, <1>4, <1>5 DEF CountsFit, Won
<1> QED BY <1>1, <1>2, <1>6

LEMMA CallFreeKeeps ==
  ASSUME HeapInv, NEW t \in Threads, CallFree(t)
  PROVE  HeapInv'
<1>1. PICK phase \in [Blocks -> Phases], holder \in [Blocks -> Holders],
           doom \in [Threads -> SUBSET Blocks] : Inv(phase, holder, doom)
  BY DEF HeapInv
<1>2. doom[t] = {} /\ EmptyHanded(t, phase, holder)
  BY <1>1, PlanRest DEF Inv, CallFree
<1>3. PICK b \in Blocks :
        /\ b \in live \/ Freed(b)
        /\ live' = live \ {b}
        /\ frees' = [frees EXCEPT ![b] = @ + 1]
        /\ todo' = [todo EXCEPT ![t] = <<<<"free", b, 1>>>>]
  BY DEF CallFree
<1>4. Types /\ At(b, phase[b], holder[b]) /\ Fits(b, phase[b], Doomers(b, doom))
  BY <1>1 DEF Inv
<1>5. frees[b] \in Nat /\ frees' \in [Blocks -> Nat] /\ frees'[b] = frees[b] + 1
  BY <1>3, <1>4 DEF Types
<1>6. todo'[t] = <<<<"free", b, 1>>>> /\ \A u \in Threads \ {t} : todo'[u] = todo[u]
  BY <1>3, <1>4 DEF Types
<1>7. Types'
  <2>1. /\ pool' \subseteq Blocks /\ live' \subseteq Blocks /\ internals' \subseteq Blocks
        /\ batches' \subseteq Blocks /\ quarantined' \subseteq Blocks
        /\ cache' \in [Threads -> SUBSET Blocks]
        /\ size' \in [Blocks -> User]
        /\ chunk_state' \in [Blocks -> States] /\ meta' \in [Blocks -> 0..Granules]
        /\ shadow' \in [Blocks -> [0..Granules -> Shades]]
        /\ todo' = [u \in Threads |-> todo'[u]]
        /\ check_failed' = FALSE
    BY <1>3, <1>4 DEF CallFree, memory, Types
  <2>2. frees' \in [Blocks -> Nat] /\ reports' \in [Blocks -> Nat]
    BY <1>4, <1>5 DEF CallFree, Types
  <2> QED BY <2>1, <2>2 DEF Types
<1>8. \A x \in Blocks \ {b} : Untouched(x)
  BY <1>3, <1>4 DEF CallFree, memory, Types, Untouched
<1>9. PICK D : D = {b}
  OBVIOUS
<1>10. D \in SUBSET Blocks /\ \A x \in Blocks \ {b} : x \in D <=> x \in doom[t]
  BY <1>2, <1>9
<1>11. /\ DoomersThen(b, doom, t, D) = Doomers(b, doom) \cup {t}
       /\ t \notin Doomers(b, doom)
  BY <1>2, <1>9 DEF DoomersThen, Doomers
<1>12. FreeSteps(todo'[t], b)
  BY <1>6, Zenon DEF FreeSteps, ToFree
<1>13. /\ chunk_state' = chunk_state /\ size' = size /\ shadow' = shadow
       /\ meta' = meta /\ reports' = reports
  BY DEF CallFree, memory
<1>14. CountsFit(phase[b], frees[b], reports[b], Doomers(b, doom))
  BY <1>4 DEF Fits
<1>15. Doomers(b, doom) # {} => TwoOf(Doomers(b, doom) \cup {t})
  BY <1>11 DEF TwoOf
<1>16. CASE b \in live
  <2>1. phase[b] = "live"
    BY <1>4, <1>16 DEF At
  <2>2. At(b, "freed", t)'
    BY <1>3, <1>4, <2>1 DEF CallFree, At
  <2>3. Fits(b, "freed", Doomers(b, doom) \cup {t})'
    <3>1. Fits(b, "live", Doomers(b, doom))
      BY <1>4, <2>1
    <3>2. /\ ShadowFits("freed", size[b], shadow[b])
          /\ HeaderFits("freed", chunk_state[b], size[b], meta[b])
          /\ CountsFit("freed", frees[b] + 1, reports[b], Doomers(b, doom) \cup {t})
      BY <1>4, <3>1, LiveIsFreed
    <3> QED BY <1>5, <1>13, <3>2, Zenon DEF Fits
  <2>4. Fits(b, "freed", DoomersThen(b, doom, t, D))'
    BY <1>11, <2>3, Zenon
  <2>5. EmptyHanded(t, [phase EXCEPT ![b] = "freed"], [holder EXCEPT ![b] = t])
    BY <1>2, Hands DEF Held
  <2>6. Plan(todo'[t], t, [phase EXCEPT ![b] = "freed"], [holder EXCEPT ![b] = t], D)
    BY <1>9, <1>12, <2>5, Zenon DEF Plan, Frees
  <2>7. phase[b] \notin Held /\ "freed" \notin Held /\ "freed" \in Phases /\ t \in Holders
    BY <2>1 DEF Held, Phases, Holders
  <2> QED BY <1>1, <1>6, <1>7, <1>8, <1>10, <2>2, <2>4, <2>6, <2>7, BlockStep
<1>17. CASE b \notin live
  <2>1. phase[b] \in Won \cup {"freed"} /\ frees[b] > 0
    <3>1. Doomers(b, doom) # {} \/ phase[b] \in {"cache", "quarantined"}
      BY <1>1, <1>3, <1>4, <1>17, AboutToFreeIs DEF Freed, At
    <3>2. phase[b] \in Won \cup {"freed"}
      BY <1>14, <3>1 DEF CountsFit, Won
    <3> QED BY <1>14, <3>2 DEF CountsFit
  <2>2. At(b, phase[b], holder[b])'
    BY <1>3, <1>4, <2>1 DEF CallFree, At, Won
  <2>3. CountsFit(phase[b], frees'[b], reports[b], Doomers(b, doom) \cup {t})
    <3>1. phase[b] = "freed" => TwoOf(Doomers(b, doom) \cup {t})
      BY <1>14, <1>15 DEF CountsFit
    <3> QED BY <1>5, <1>14, <2>1, <3>1 DEF CountsFit, Won
  <2>4. Fits(b, phase[b], DoomersThen(b, doom, t, D))'
    BY <1>4, <1>11, <1>13, <2>3, Zenon DEF Fits
  <2>5. ASSUME NEW x \in Blocks
        PROVE  /\ At(x, phase[x], holder[x])'
               /\ Fits(x, phase[x], DoomersThen(x, doom, t, D))'
    <3>1. CASE x = b
      BY <2>2, <2>4, <3>1, Zenon
    <3>2. CASE x # b
      <4>1. DoomersThen(x, doom, t, D) = Doomers(x, doom)
        BY <1>2, <1>9, <3>2 DEF DoomersThen, Doomers
      <4>2. Untouched(x) /\ At(x, phase[x], holder[x]) /\ Fits(x, phase[x], Doomers(x, doom))
        BY <1>1, <1>8, <3>2 DEF Inv
      <4> QED BY <4>1, <4>2, UntouchedFits, Zenon
    <3> QED BY <3>1, <3>2
  <2>6. Plan(todo'[t], t, phase, holder, D)
    BY <1>2, <1>9, <1>12, Zenon DEF Plan, Frees
  <2>7. \A x \in Blocks : /\ At(x, phase[x], holder[x])'
                          /\ Fits(x, phase[x], DoomersThen(x, doom, t, D))'
    BY <2>5, Zenon
  <2> QED BY <1>1, <1>6, <1>7, <1>10, <2>6, <2>7, StayStep
<1> QED BY <1>16, <1>17

LEMMA CallDrainKeeps ==
  ASSUME HeapInv, NEW t \in Threads, CallDrain(t)
  PROVE  HeapInv'
<1>1. PICK phase \in [Blocks -> Phases], holder \in [Blocks -> Holders],
           doom \in [Threads -> SUBSET Blocks] : Inv(phase, holder, doom)
  BY DEF HeapInv
<1>2. doom[t] = {} /\ EmptyHanded(t, phase, holder)
  BY <1>1, PlanRest DEF Inv, CallDrain
<1>3. Types
  BY <1>1 DEF Inv
<1>4. todo'[t] = <<<<"transfer">>>> /\ \A u \in Threads \ {t} : todo'[u] = todo[u]
  BY <1>3 DEF CallDrain, Types
<1>5. Types'
  <2>1. /\ pool' \subseteq Blocks /\ live' \subseteq Blocks /\ internals' \subseteq Blocks
        /\ batches' \subseteq Blocks /\ quarantined' \subseteq Blocks
        /\ cache' \in [Threads -> SUBSET Blocks]
        /\ size' \in [Blocks -> User]
        /\ chunk_state' \in [Blocks -> States] /\ meta' \in [Blocks -> 0..Granules]
        /\ shadow' \in [Blocks -> [0..Granules -> Shades]]
        /\ todo' = [u \in Threads |-> todo'[u]]
        /\ frees' \in [Blocks -> Nat] /\ reports' \in [Blocks -> Nat]
        /\ check_failed' = FALSE
    BY <1>3 DEF CallDrain, places, memory, ghosts, Types
  <2> QED BY <2>1 DEF Types
<1>6. ASSUME NEW x \in Blocks
      PROVE  At(x, phase[x], holder[x])' /\ Fits(x, phase[x], Doomers(x, doom))'
  <2>1. Untouched(x)
    BY DEF CallDrain, places, memory, ghosts, Untouched
  <2> QED BY <1>1, <2>1, UntouchedFits DEF Inv
<1>7. Plan(todo'[t], t, phase, holder, doom[t])
  BY <1>2, <1>4, Zenon DEF Plan, Idles
<1>8. \A x \in Blocks : /\ At(x, phase[x], holder[x])'
                        /\ Fits(x, phase[x], Doomers(x, doom))'
  BY <1>6, Zenon
<1> QED BY <1>1, <1>4, <1>5, <1>7, <1>8, StayQuiet

----------------------------------------------------------------------------
(* Blocks that move together. *)

LEMMA MoveHands ==
  ASSUME NEW phase \in [Blocks -> Phases], NEW holder \in [Blocks -> Holders],
         NEW t \in Threads, EmptyHanded(t, phase, holder),
         NEW S \in SUBSET Blocks, NEW p,
         NEW phase2, phase2 = [x \in Blocks |-> IF x \in S THEN p ELSE phase[x]],
         NEW holder2, holder2 = [x \in Blocks |-> IF x \in S THEN t ELSE holder[x]]
  PROVE  /\ p \notin Held => EmptyHanded(t, phase2, holder2)
         /\ p = "recycle" => HoldsSet(t, S, phase2, holder2)
<1>1. \A x \in Blocks : ~Owns(t, x, phase, holder)
  BY DEF EmptyHanded
<1>2. \A x \in S : phase2[x] = p /\ holder2[x] = t
  OBVIOUS
<1>3. \A x \in Blocks \ S : phase2[x] = phase[x] /\ holder2[x] = holder[x]
  OBVIOUS
<1>4. \A x \in Blocks : Owns(t, x, phase2, holder2) <=> x \in S /\ p \in Held
  BY <1>1, <1>2, <1>3 DEF Owns
<1>5. p \notin Held => EmptyHanded(t, phase2, holder2)
  BY <1>4 DEF EmptyHanded
<1>6. p = "recycle" => HoldsSet(t, S, phase2, holder2)
  BY <1>2, <1>4 DEF HoldsSet, Held
<1> QED BY <1>5, <1>6

LEMMA ReturnBatchKeeps ==
  ASSUME HeapInv, NEW t \in Threads, ReturnBatch(t)
  PROVE  HeapInv'
<1>1. PICK phase \in [Blocks -> Phases], holder \in [Blocks -> Holders],
           doom \in [Threads -> SUBSET Blocks] : Inv(phase, holder, doom)
  BY DEF HeapInv
<1>2. doom[t] = {} /\ EmptyHanded(t, phase, holder) /\ todo[t] = <<>>
  BY <1>1, PlanRest DEF Inv, ReturnBatch
<1>3. PICK S : S = batches
  OBVIOUS
<1>4. Types /\ S \in SUBSET Blocks
  BY <1>1, <1>3 DEF Inv, Types
<1>5. \A x \in Blocks : /\ At(x, phase[x], holder[x])
                        /\ Fits(x, phase[x], Doomers(x, doom))
  BY <1>1 DEF Inv
<1>6. PICK phase2, holder2 :
        /\ phase2 = [x \in Blocks |-> IF x \in S THEN "pool" ELSE phase[x]]
        /\ holder2 = [x \in Blocks |-> IF x \in S THEN t ELSE holder[x]]
  OBVIOUS
<1>7. todo' = todo /\ \A u \in Threads \ {t} : todo'[u] = todo[u]
  BY DEF ReturnBatch
<1>8. Types'
  <2>1. /\ pool' \subseteq Blocks /\ live' \subseteq Blocks /\ internals' \subseteq Blocks
        /\ batches' \subseteq Blocks /\ quarantined' \subseteq Blocks
        /\ cache' \in [Threads -> SUBSET Blocks]
        /\ size' \in [Blocks -> User]
        /\ chunk_state' \in [Blocks -> States] /\ meta' \in [Blocks -> 0..Granules]
        /\ shadow' \in [Blocks -> [0..Granules -> Shades]]
        /\ todo' = [u \in Threads |-> todo'[u]]
        /\ frees' \in [Blocks -> Nat] /\ reports' \in [Blocks -> Nat]
        /\ check_failed' = FALSE
    BY <1>3, <1>4 DEF ReturnBatch, memory, ghosts, Types
  <2> QED BY <2>1 DEF Types
<1>9. \A x \in S : phase[x] = "batches"
  BY <1>3, <1>4, <1>5 DEF At, Types
<1>10. \A x \in Blocks \ S : Untouched(x)
  BY <1>3, <1>4 DEF ReturnBatch, memory, ghosts, Types, Untouched
<1>11. ASSUME NEW x \in S
       PROVE  At(x, "pool", t)' /\ Fits(x, "pool", Doomers(x, doom))'
  <2>1. At(x, phase[x], holder[x]) /\ Fits(x, "batches", Doomers(x, doom))
    BY <1>4, <1>5, <1>9
  <2>2. At(x, "pool", t)'
    BY <1>3, <1>4, <1>9, <1>11, <2>1 DEF ReturnBatch, memory, ghosts, At, Types
  <2>3. /\ chunk_state' = chunk_state /\ size' = size /\ shadow' = shadow
        /\ meta' = meta /\ frees' = frees /\ reports' = reports
    BY DEF ReturnBatch, memory, ghosts
  <2>4. Fits(x, "pool", Doomers(x, doom))
    BY <2>1 DEF Fits, ShadowFits, HeaderFits, CountsFit, Won
  <2> QED BY <2>2, <2>3, <2>4, Zenon DEF Fits
<1>12. \A x \in S : At(x, "pool", t)' /\ Fits(x, "pool", Doomers(x, doom))'
  BY <1>11
<1>13. Plan(todo'[t], t, phase2, holder2, doom[t])
  <2>1. EmptyHanded(t, phase, holder) /\ "pool" \notin Held
    BY <1>2 DEF Held
  <2>2. EmptyHanded(t, phase2, holder2)
    BY <1>1, <1>4, <1>6, <2>1, MoveHands
  <2> QED BY <1>2, <1>7, <2>2, Zenon DEF Plan, Idles
<1>14. \A x \in S : phase[x] \notin Held
  BY <1>9 DEF Held
<1>15. PICK p : p = "pool"
  OBVIOUS
<1>16. p \in Phases
  BY <1>15 DEF Phases, Held
<1>17. /\ phase2 = [x \in Blocks |-> IF x \in S THEN p ELSE phase[x]]
       /\ \A x \in S : At(x, p, t)' /\ Fits(x, p, Doomers(x, doom))'
  BY <1>6, <1>12, <1>15
<1> QED BY <1>1, <1>4, <1>6, <1>7, <1>8, <1>10, <1>13, <1>14, <1>16, <1>17, MoveStep

LEMMA TransferKeeps ==
  ASSUME HeapInv, NEW t \in Threads, Transfer(t)
  PROVE  HeapInv'
<1>1. PICK phase \in [Blocks -> Phases], holder \in [Blocks -> Holders],
           doom \in [Threads -> SUBSET Blocks] : Inv(phase, holder, doom)
  BY DEF HeapInv
<1>2. /\ Plan(todo[t], t, phase, holder, doom[t])
      /\ todo[t] # <<>> /\ Head(todo[t])[1] = "transfer"
  BY <1>1 DEF Inv, Transfer, Does, Next
<1>3. PICK S : S = cache[t]
  OBVIOUS
<1>4. Types /\ S \in SUBSET Blocks
  BY <1>1, <1>3 DEF Inv, Types
<1>5. \A x \in Blocks : /\ At(x, phase[x], holder[x])
                        /\ Fits(x, phase[x], Doomers(x, doom))
  BY <1>1 DEF Inv
<1>6. PICK phase2, holder2 :
        /\ phase2 = [x \in Blocks |-> IF x \in S THEN "quarantined" ELSE phase[x]]
        /\ holder2 = [x \in Blocks |-> IF x \in S THEN t ELSE holder[x]]
  OBVIOUS
<1>7. /\ (todo'[t] = <<>> \/ todo'[t] = <<<<"extract">>>>)
      /\ \A u \in Threads \ {t} : todo'[u] = todo[u]
  <2>1. PICK more \in {<<>>, <<<<"extract">>>>} : Continue(t, more)
    BY DEF Transfer
  <2>2. /\ todo'[t] = more \o Tail(todo[t])
        /\ \A u \in Threads \ {t} : todo'[u] = todo[u]
    BY <1>4, <2>1 DEF Continue, Types
  <2>3. Tail(todo[t]) = <<>>
    BY <1>2, PlanDrain
  <2> QED BY <2>1, <2>2, <2>3, Joins
<1>8. Types'
  <2>1. /\ pool' \subseteq Blocks /\ live' \subseteq Blocks /\ internals' \subseteq Blocks
        /\ batches' \subseteq Blocks /\ quarantined' \subseteq Blocks
        /\ cache' \in [Threads -> SUBSET Blocks]
        /\ size' \in [Blocks -> User]
        /\ chunk_state' \in [Blocks -> States] /\ meta' \in [Blocks -> 0..Granules]
        /\ shadow' \in [Blocks -> [0..Granules -> Shades]]
        /\ todo' = [u \in Threads |-> todo'[u]]
        /\ frees' \in [Blocks -> Nat] /\ reports' \in [Blocks -> Nat]
        /\ check_failed' = FALSE
    BY <1>3, <1>4 DEF Transfer, Continue, memory, ghosts, Types
  <2> QED BY <2>1 DEF Types
<1>9. \A x \in S : phase[x] = "cache"
  BY <1>3, <1>4, <1>5 DEF At, Types
<1>10. \A x \in Blocks \ S : Untouched(x)
  BY <1>3, <1>4 DEF Transfer, Continue, memory, ghosts, Types, Untouched
<1>11. ASSUME NEW x \in S
       PROVE  At(x, "quarantined", t)' /\ Fits(x, "quarantined", Doomers(x, doom))'
  <2>1. At(x, phase[x], holder[x]) /\ Fits(x, "cache", Doomers(x, doom))
    BY <1>4, <1>5, <1>9
  <2>2. At(x, "quarantined", t)'
    BY <1>3, <1>4, <1>9, <1>11, <2>1 DEF Transfer, Continue, memory, ghosts, At, Types
  <2>3. /\ chunk_state' = chunk_state /\ size' = size /\ shadow' = shadow
        /\ meta' = meta /\ frees' = frees /\ reports' = reports
    BY DEF Transfer, memory, ghosts
  <2>4. Fits(x, "quarantined", Doomers(x, doom))
    BY <2>1 DEF Fits, ShadowFits, HeaderFits, CountsFit, Won
  <2> QED BY <2>2, <2>3, <2>4, Zenon DEF Fits
<1>12. \A x \in S : At(x, "quarantined", t)' /\ Fits(x, "quarantined", Doomers(x, doom))'
  BY <1>11
<1>13. Plan(todo'[t], t, phase2, holder2, doom[t])
  <2>1. doom[t] = {} /\ EmptyHanded(t, phase, holder)
    BY <1>2, PlanDrain
  <2>2. EmptyHanded(t, phase2, holder2)
    BY <1>1, <1>4, <1>6, <2>1, MoveHands DEF Held
  <2> QED BY <1>7, <2>1, <2>2, Zenon DEF Plan, Idles
<1>14. \A x \in S : phase[x] \notin Held
  BY <1>9 DEF Held
<1>15. PICK p : p = "quarantined"
  OBVIOUS
<1>16. p \in Phases
  BY <1>15 DEF Phases, Held
<1>17. /\ phase2 = [x \in Blocks |-> IF x \in S THEN p ELSE phase[x]]
       /\ \A x \in S : At(x, p, t)' /\ Fits(x, p, Doomers(x, doom))'
  BY <1>6, <1>12, <1>15
<1> QED BY <1>1, <1>4, <1>6, <1>7, <1>8, <1>10, <1>13, <1>14, <1>16, <1>17, MoveStep

LEMMA ExtractKeeps ==
  ASSUME HeapInv, NEW t \in Threads, Extract(t)
  PROVE  HeapInv'
<1>1. PICK phase \in [Blocks -> Phases], holder \in [Blocks -> Holders],
           doom \in [Threads -> SUBSET Blocks] : Inv(phase, holder, doom)
  BY DEF HeapInv
<1>2. /\ Plan(todo[t], t, phase, holder, doom[t])
      /\ todo[t] # <<>> /\ Head(todo[t])[1] = "extract"
  BY <1>1 DEF Inv, Extract, Does, Next
<1>3. PICK S \in SUBSET quarantined :
        quarantined' = quarantined \ S /\ Continue(t, DoRecycle(S))
  BY DEF Extract
<1>4. Types /\ S \in SUBSET Blocks
  BY <1>1, <1>3 DEF Inv, Types
<1>5. \A x \in Blocks : /\ At(x, phase[x], holder[x])
                        /\ Fits(x, phase[x], Doomers(x, doom))
  BY <1>1 DEF Inv
<1>6. PICK phase2, holder2 :
        /\ phase2 = [x \in Blocks |-> IF x \in S THEN "recycle" ELSE phase[x]]
        /\ holder2 = [x \in Blocks |-> IF x \in S THEN t ELSE holder[x]]
  OBVIOUS
<1>7. /\ todo'[t] = DoRecycle(S) \o <<>>
      /\ \A u \in Threads \ {t} : todo'[u] = todo[u]
  <2>1. /\ todo'[t] = DoRecycle(S) \o Tail(todo[t])
        /\ \A u \in Threads \ {t} : todo'[u] = todo[u]
    BY <1>3, <1>4 DEF Continue, Types
  <2>2. Tail(todo[t]) = <<>>
    BY <1>2, PlanDrain
  <2> QED BY <2>1, <2>2
<1>8. Types'
  <2>1. /\ pool' \subseteq Blocks /\ live' \subseteq Blocks /\ internals' \subseteq Blocks
        /\ batches' \subseteq Blocks /\ quarantined' \subseteq Blocks
        /\ cache' \in [Threads -> SUBSET Blocks]
        /\ size' \in [Blocks -> User]
        /\ chunk_state' \in [Blocks -> States] /\ meta' \in [Blocks -> 0..Granules]
        /\ shadow' \in [Blocks -> [0..Granules -> Shades]]
        /\ todo' = [u \in Threads |-> todo'[u]]
        /\ frees' \in [Blocks -> Nat] /\ reports' \in [Blocks -> Nat]
        /\ check_failed' = FALSE
    BY <1>3, <1>4 DEF Extract, Continue, memory, ghosts, Types
  <2> QED BY <2>1 DEF Types
<1>9. \A x \in S : phase[x] = "quarantined"
  BY <1>3, <1>4, <1>5 DEF At, Types
<1>10. \A x \in Blocks \ S : Untouched(x)
  BY <1>3, <1>4 DEF Extract, Continue, memory, ghosts, Types, Untouched
<1>11. ASSUME NEW x \in S
       PROVE  At(x, "recycle", t)' /\ Fits(x, "recycle", Doomers(x, doom))'
  <2>1. At(x, phase[x], holder[x]) /\ Fits(x, "quarantined", Doomers(x, doom))
    BY <1>4, <1>5, <1>9
  <2>2. At(x, "recycle", t)'
    BY <1>3, <1>4, <1>9, <1>11, <2>1 DEF Extract, Continue, memory, ghosts, At, Types
  <2>3. /\ chunk_state' = chunk_state /\ size' = size /\ shadow' = shadow
        /\ meta' = meta /\ frees' = frees /\ reports' = reports
    BY DEF Extract, memory, ghosts
  <2>4. Fits(x, "recycle", Doomers(x, doom))
    BY <2>1 DEF Fits, ShadowFits, HeaderFits, CountsFit, Won
  <2> QED BY <2>2, <2>3, <2>4, Zenon DEF Fits
<1>12. \A x \in S : At(x, "recycle", t)' /\ Fits(x, "recycle", Doomers(x, doom))'
  BY <1>11
<1>13. Plan(todo'[t], t, phase2, holder2, doom[t])
  <2>1. doom[t] = {} /\ EmptyHanded(t, phase, holder)
    BY <1>2, PlanDrain
  <2>2. HoldsSet(t, S, phase2, holder2)
    BY <1>1, <1>4, <1>6, <2>1, MoveHands
  <2>3. CASE S = {}
    <3>1. EmptyHanded(t, phase2, holder2)
      BY <2>2, <2>3 DEF HoldsSet, EmptyHanded
    <3>2. todo'[t] = <<>>
      BY <1>7, <2>3, DoRecycleIs, Zenon
    <3> QED BY <2>1, <3>1, <3>2, Zenon DEF Plan, Idles
  <2>4. CASE S # {}
    <3>1. todo'[t] = <<ToRecycle(S)>>
      BY <1>7, <2>4, DoRecycleIs, Zenon
    <3> QED BY <1>4, <2>1, <2>2, <2>4, <3>1, Zenon DEF Plan, RecyclesSet
  <2> QED BY <2>3, <2>4
<1>14. \A x \in S : phase[x] \notin Held
  BY <1>9 DEF Held
<1>15. PICK p : p = "recycle"
  OBVIOUS
<1>16. p \in Phases
  BY <1>15 DEF Phases, Held
<1>17. /\ phase2 = [x \in Blocks |-> IF x \in S THEN p ELSE phase[x]]
       /\ \A x \in S : At(x, p, t)' /\ Fits(x, p, Doomers(x, doom))'
  BY <1>6, <1>12, <1>15
<1> QED BY <1>1, <1>4, <1>6, <1>7, <1>8, <1>10, <1>13, <1>14, <1>16, <1>17, MoveStep

LEMMA RecycleNextKeeps ==
  ASSUME HeapInv, NEW t \in Threads, RecycleNext(t)
  PROVE  HeapInv'
<1>1. PICK phase \in [Blocks -> Phases], holder \in [Blocks -> Holders],
           doom \in [Threads -> SUBSET Blocks] : Inv(phase, holder, doom)
  BY DEF HeapInv
<1>2. /\ Plan(todo[t], t, phase, holder, doom[t])
      /\ todo[t] # <<>> /\ Head(todo[t])[1] = "recycle"
  BY <1>1 DEF Inv, RecycleNext, Does, Next
<1>3. PICK S \in SUBSET Blocks :
        /\ Head(todo[t])[2] = S /\ doom[t] = {} /\ Tail(todo[t]) = <<>>
        /\ HoldsSet(t, S, phase, holder)
  BY <1>2, PlanRecycle
<1>4. PICK b \in S : Continue(t, Recycle(b) \o DoRecycle(S \ {b}))
  BY <1>3 DEF RecycleNext, Next
<1>5. Types /\ At(b, phase[b], holder[b]) /\ Fits(b, phase[b], Doomers(b, doom))
  BY <1>1, <1>3, <1>4 DEF Inv
<1>6. PICK R : R = S \ {b}
  OBVIOUS
<1>7. /\ todo'[t] = (Recycle(b) \o DoRecycle(R)) \o <<>>
      /\ \A u \in Threads \ {t} : todo'[u] = todo[u]
  BY <1>3, <1>4, <1>5, <1>6 DEF Continue, Types
<1>8. phase[b] = "recycle" /\ holder[b] = t
  BY <1>3, <1>4 DEF HoldsSet, Owns
<1>9. Types'
  <2>1. /\ pool' \subseteq Blocks /\ live' \subseteq Blocks /\ internals' \subseteq Blocks
        /\ batches' \subseteq Blocks /\ quarantined' \subseteq Blocks
        /\ cache' \in [Threads -> SUBSET Blocks]
        /\ size' \in [Blocks -> User]
        /\ chunk_state' \in [Blocks -> States] /\ meta' \in [Blocks -> 0..Granules]
        /\ shadow' \in [Blocks -> [0..Granules -> Shades]]
        /\ todo' = [u \in Threads |-> todo'[u]]
        /\ frees' \in [Blocks -> Nat] /\ reports' \in [Blocks -> Nat]
        /\ check_failed' = FALSE
    BY <1>4, <1>5 DEF RecycleNext, Continue, places, memory, ghosts, Types
  <2> QED BY <2>1 DEF Types
<1>10. \A x \in Blocks \ {b} : Untouched(x)
  BY DEF RecycleNext, places, memory, ghosts, Untouched
<1>11. At(b, "invalid", t)'
  BY <1>5, <1>8 DEF RecycleNext, places, At
<1>12. Fits(b, "invalid", Doomers(b, doom))'
  <2>1. /\ chunk_state' = chunk_state /\ size' = size /\ shadow' = shadow
        /\ meta' = meta /\ frees' = frees /\ reports' = reports
    BY DEF RecycleNext, memory, ghosts
  <2>2. size[b] \in 1..Granules /\ b \in Blocks
    BY <1>4, <1>5 DEF Types, User
  <2>3. ShadowFits("invalid", size[b], shadow[b])
    <3>1. Closed(shadow[b])
      BY <1>5, <1>8 DEF Fits, ShadowFits
    <3>2. Plain(shadow[b], size[b])
      BY <2>2, <3>1, HeapAssumption DEF Closed, Plain, Fenced
    <3> QED BY <3>2 DEF ShadowFits
  <2>4. HeaderFits("invalid", chunk_state[b], size[b], meta[b])
    BY <1>5, <1>8 DEF Fits, HeaderFits, Won
  <2>5. CountsFit("invalid", frees[b], reports[b], Doomers(b, doom))
    BY <1>5, <1>8 DEF Fits, CountsFit, Won
  <2> QED BY <2>1, <2>3, <2>4, <2>5, Zenon DEF Fits
<1> DEFINE phase2 == [phase EXCEPT ![b] = "invalid"]
           holder2 == [holder EXCEPT ![b] = t]
<1>13. /\ phase2[b] = "invalid" /\ holder2[b] = t
       /\ \A x \in Blocks \ {b} : phase2[x] = phase[x] /\ holder2[x] = holder[x]
  BY <1>1, <1>4
<1> HIDE DEF phase2, holder2
<1>14. HoldsBoth(t, b, "invalid", R, phase2, holder2)
  <2>1. "invalid" \in Held
    BY DEF Held
  <2>2. ASSUME NEW x \in Blocks
        PROVE  /\ Owns(t, x, phase2, holder2) <=> x \in R \cup {b}
               /\ x \in R => phase2[x] = "recycle"
    BY <1>3, <1>4, <1>6, <1>13, <2>1 DEF HoldsSet, Owns
  <2> QED BY <1>6, <1>13, <2>2 DEF HoldsBoth
<1>15. Plan(todo'[t], t, phase2, holder2, doom[t])
  <2>1. "invalid" \in Held /\ b \in Blocks /\ R \in SUBSET Blocks
    BY <1>3, <1>4, <1>6 DEF Held
  <2>2. CASE R = {}
    <3>1. HoldsOne(t, b, "invalid", phase2, holder2)
      BY <1>14, <2>2 DEF HoldsBoth, HoldsOne
    <3>2. RecycleSteps(todo'[t], "invalid", b)
      BY <1>7, <2>2, RecycleIs, Zenon
    <3> QED BY <1>3, <2>1, <3>1, <3>2, Zenon DEF Plan, RecyclesLast
  <2>3. CASE R # {}
    <3>1. RecycleOnSteps(todo'[t], "invalid", b, R)
      BY <1>7, <2>3, RecycleIs, Zenon
    <3> QED BY <1>3, <1>14, <2>1, <2>3, <3>1, Zenon DEF Plan, RecyclesOne
  <2> QED BY <2>2, <2>3
<1>16. Plan(todo'[t], t, [phase EXCEPT ![b] = "invalid"], [holder EXCEPT ![b] = t], doom[t])
  BY <1>15, Zenon DEF phase2, holder2
<1>17. "invalid" \in Phases /\ b \in Blocks
  BY <1>3, <1>4 DEF Phases, Held
<1> QED BY <1>1, <1>7, <1>8, <1>9, <1>10, <1>11, <1>12, <1>16, <1>17, QuietStep

LEMMA CallReallocKeeps ==
  ASSUME HeapInv, NEW t \in Threads, CallRealloc(t)
  PROVE  HeapInv'
<1>1. PICK phase \in [Blocks -> Phases], holder \in [Blocks -> Holders],
           doom \in [Threads -> SUBSET Blocks] : Inv(phase, holder, doom)
  BY DEF HeapInv
<1>2. doom[t] = {} /\ EmptyHanded(t, phase, holder)
  BY <1>1, PlanRest DEF Inv, CallRealloc
<1>3. PICK old \in live, b \in Blocks :
        /\ Serve(b)
        /\ live' = live \ {old}
        /\ todo' = [todo EXCEPT ![t] =
                      Allocate(b) \o <<<<"check", old>>, <<"free", old, 1>>>>]
        /\ frees' = [frees EXCEPT ![b] = 0, ![old] = frees[old] + 1]
  BY DEF CallRealloc
<1>4. Types /\ old \in Blocks
  BY <1>1, <1>3 DEF Inv, Types
<1>5. \A x \in Blocks : At(x, phase[x], holder[x]) /\ Fits(x, phase[x], Doomers(x, doom))
  BY <1>1, Zenon DEF Inv
<1>6. phase[b] = "pool" /\ phase[old] = "live" /\ b # old
  BY <1>3, <1>4, <1>5 DEF Serve, At
<1>7. /\ todo'[t] = Allocate(b) \o <<<<"check", old>>, <<"free", old, 1>>>>
      /\ \A u \in Threads \ {t} : todo'[u] = todo[u]
  BY <1>3, <1>4 DEF Types
<1>8. /\ frees' \in [Blocks -> Nat] /\ frees[old] \in Nat
      /\ frees'[b] = 0 /\ frees'[old] = frees[old] + 1
      /\ \A x \in Blocks \ {b, old} : frees'[x] = frees[x]
  <2>1. frees \in [Blocks -> Nat] /\ frees[old] \in Nat /\ frees[old] + 1 \in Nat
    BY <1>4 DEF Types
  <2> QED BY <1>3, <1>4, <1>6, <2>1
<1>9. Types'
  <2>1. /\ pool' \subseteq Blocks /\ live' \subseteq Blocks /\ internals' \subseteq Blocks
        /\ batches' \subseteq Blocks /\ quarantined' \subseteq Blocks
        /\ cache' \in [Threads -> SUBSET Blocks]
        /\ chunk_state' \in [Blocks -> States] /\ meta' \in [Blocks -> 0..Granules]
        /\ shadow' \in [Blocks -> [0..Granules -> Shades]]
        /\ todo' = [u \in Threads |-> todo'[u]]
        /\ check_failed' = FALSE
    BY <1>3, <1>4 DEF CallRealloc, Serve, Types
  <2>2. size' \in [Blocks -> User]
    BY <1>3, <1>4 DEF Serve, Types
  <2>3. frees' \in [Blocks -> Nat] /\ reports' \in [Blocks -> Nat]
    BY <1>3, <1>4, <1>8 DEF CallRealloc, Serve, Types
  <2> QED BY <2>1, <2>2, <2>3 DEF Types
<1>10. ASSUME NEW x \in Blocks \ {b, old}
       PROVE  Untouched(x)
  <2>1. /\ internals' = internals /\ batches' = batches /\ cache' = cache
        /\ quarantined' = quarantined /\ chunk_state' = chunk_state
        /\ shadow' = shadow /\ meta' = meta
    BY DEF CallRealloc
  <2>2. size'[x] = size[x] /\ reports'[x] = reports[x] /\ frees'[x] = frees[x]
    BY <1>3, <1>4, <1>8 DEF Serve, Types
  <2>3. (x \in pool' <=> x \in pool) /\ (x \in live' <=> x \in live)
    BY <1>3 DEF Serve
  <2> QED BY <2>1, <2>2, <2>3, Zenon DEF Untouched
<1> DEFINE phase2 == [phase EXCEPT ![b] = "redzones", ![old] = "freed"]
           holder2 == [holder EXCEPT ![b] = t]
           doom2 == [doom EXCEPT ![t] = {old}]
<1>11. /\ phase2 \in [Blocks -> Phases] /\ holder2 \in [Blocks -> Holders]
       /\ doom2 \in [Threads -> SUBSET Blocks]
  BY <1>1, <1>3, <1>4 DEF Phases, Held, Holders
<1>12. /\ phase2[b] = "redzones" /\ phase2[old] = "freed" /\ holder2[b] = t
       /\ \A x \in Blocks \ {b, old} : phase2[x] = phase[x]
       /\ \A x \in Blocks \ {b} : holder2[x] = holder[x]
       /\ doom2[t] = {old} /\ \A u \in Threads \ {t} : doom2[u] = doom[u]
  BY <1>1, <1>3, <1>4, <1>6
<1> HIDE DEF phase2, holder2, doom2
<1>13. \A u \in Threads \ {t} : todo'[u] = todo[u] /\ doom2[u] = doom[u]
  BY <1>7, <1>12
<1>14. /\ "redzones" \in Held /\ "freed" \notin Held
       /\ phase[b] \notin Held /\ phase[old] \notin Held
  BY <1>6 DEF Held
<1>15. \A u \in Threads \ {t}, x \in Blocks :
         /\ Owns(u, x, phase2, holder2) <=> Owns(u, x, phase, holder)
         /\ Owns(u, x, phase, holder) => phase2[x] = phase[x]
  BY <1>12, <1>14 DEF Owns
<1>16. Plan(todo'[t], t, phase2, holder2, doom2[t])
  <2>1. ReplaceSteps(todo'[t], "redzones", b, old)
    BY <1>7, ReallocSteps, Zenon
  <2>2. HoldsOne(t, b, "redzones", phase2, holder2)
    BY <1>2, <1>12, <1>14 DEF EmptyHanded, HoldsOne, Owns
  <2> QED BY <1>3, <1>4, <1>6, <1>12, <1>14, <2>1, <2>2, Zenon DEF Plan, Replaces
<1>17. ASSUME NEW x \in Blocks \ {old}
       PROVE  Doomers(x, doom2) = Doomers(x, doom)
  BY <1>2, <1>12 DEF Doomers
<1>18. Doomers(old, doom2) = Doomers(old, doom) \cup {t}
  BY <1>2, <1>12 DEF Doomers
<1>19. At(b, "redzones", t)' /\ Fits(b, "redzones", Doomers(b, doom))'
  <2>1. At(b, "redzones", t)'
    BY <1>3, <1>4, <1>5, <1>6 DEF CallRealloc, Serve, At
  <2>2. reports'[b] = 0 /\ shadow' = shadow
    BY <1>3, <1>4 DEF CallRealloc, Serve, Types
  <2>3. Fits(b, "redzones", Doomers(b, doom))'
    BY <1>1, <1>3, <1>6, <1>8, <2>2, ServedFits, Zenon DEF Fits
  <2> QED BY <2>1, <2>3
<1>20. At(old, "freed", holder[old])' /\ Fits(old, "freed", Doomers(old, doom) \cup {t})'
  <2>1. At(old, "freed", holder[old])'
    BY <1>3, <1>4, <1>5, <1>6 DEF CallRealloc, Serve, At
  <2>2. /\ chunk_state'[old] = chunk_state[old] /\ size'[old] = size[old]
        /\ shadow'[old] = shadow[old] /\ meta'[old] = meta[old]
        /\ reports'[old] = reports[old]
    BY <1>3, <1>4, <1>6 DEF CallRealloc, Serve, Types
  <2>3. Fits(old, "live", Doomers(old, doom))
    BY <1>4, <1>5, <1>6
  <2>4. /\ ShadowFits("freed", size[old], shadow[old])
        /\ HeaderFits("freed", chunk_state[old], size[old], meta[old])
        /\ CountsFit("freed", frees[old] + 1, reports[old], Doomers(old, doom) \cup {t})
    BY <1>4, <2>3, LiveIsFreed
  <2> QED BY <1>8, <2>1, <2>2, <2>4, Zenon DEF Fits
<1>21. ASSUME NEW x \in Blocks
       PROVE  At(x, phase2[x], holder2[x])' /\ Fits(x, phase2[x], Doomers(x, doom2))'
  <2>1. CASE x = b
    BY <1>6, <1>12, <1>17, <1>19, <2>1, Zenon
  <2>2. CASE x = old
    BY <1>6, <1>12, <1>18, <1>20, <2>2, Zenon
  <2>3. CASE x \notin {b, old}
    <3>1. /\ phase2[x] = phase[x] /\ holder2[x] = holder[x] /\ Untouched(x)
          /\ Doomers(x, doom2) = Doomers(x, doom)
      BY <1>10, <1>12, <1>17, <2>3
    <3>2. At(x, phase[x], holder[x])' /\ Fits(x, phase[x], Doomers(x, doom))'
      BY <1>5, <3>1, UntouchedFits, Zenon
    <3> QED BY <3>1, <3>2, Zenon
  <2> QED BY <2>1, <2>2, <2>3
<1>22. \A x \in Blocks : /\ At(x, phase2[x], holder2[x])'
                         /\ Fits(x, phase2[x], Doomers(x, doom2))'
  BY <1>21, Zenon
<1> QED BY <1>1, <1>9, <1>11, <1>13, <1>15, <1>16, <1>22, StepKeeps

----------------------------------------------------------------------------
(* The invariant, and what follows from it. *)

LEMMA InitHolds == Init => HeapInv
<1> SUFFICES ASSUME Init PROVE HeapInv
  OBVIOUS
<1> DEFINE phase == [x \in Blocks |-> "pool"]
           holder == [x \in Blocks |-> Nobody]
           doom == [u \in Threads |-> {}]
<1>1. /\ phase \in [Blocks -> Phases] /\ holder \in [Blocks -> Holders]
      /\ doom \in [Threads -> SUBSET Blocks]
  BY DEF Phases, Holders
<1>2. /\ \A x \in Blocks : phase[x] = "pool" /\ holder[x] = Nobody
      /\ \A u \in Threads : doom[u] = {}
  OBVIOUS
<1> HIDE DEF phase, holder, doom
<1>3. Types
  BY HeapAssumption DEF Init, Types, States, Shades, User
<1>4. ASSUME NEW u \in Threads
      PROVE  Plan(todo[u], u, phase, holder, doom[u])
  <2>1. EmptyHanded(u, phase, holder)
    BY <1>2 DEF EmptyHanded, Owns, Held
  <2>2. todo[u] = <<>> /\ doom[u] = {}
    BY <1>2 DEF Init
  <2> QED BY <2>1, <2>2, Zenon DEF Plan, Idles
<1>5. ASSUME NEW x \in Blocks
      PROVE  At(x, phase[x], holder[x]) /\ Fits(x, phase[x], Doomers(x, doom))
  <2>1. At(x, "pool", holder[x])
    BY DEF Init, At
  <2>2. Doomers(x, doom) = {}
    BY <1>2 DEF Doomers
  <2>3. /\ ShadowFits("pool", size[x], shadow[x])
        /\ HeaderFits("pool", chunk_state[x], size[x], meta[x])
    BY DEF Init, ShadowFits, Closed, HeaderFits, Won
  <2>4. CountsFit("pool", frees[x], reports[x], Doomers(x, doom))
    BY <2>2 DEF Init, CountsFit, Won, TwoOf
  <2> QED BY <1>2, <2>1, <2>3, <2>4, Zenon DEF Fits
<1>6. Inv(phase, holder, doom)
  BY <1>3, <1>4, <1>5, Zenon DEF Inv
<1> QED BY <1>1, <1>6 DEF HeapInv

LEMMA StutterKeeps == HeapInv /\ UNCHANGED vars => HeapInv'
<1> SUFFICES ASSUME HeapInv, UNCHANGED vars PROVE HeapInv'
  OBVIOUS
<1>1. PICK phase \in [Blocks -> Phases], holder \in [Blocks -> Holders],
           doom \in [Threads -> SUBSET Blocks] : Inv(phase, holder, doom)
  BY DEF HeapInv
<1>2. /\ pool' = pool /\ live' = live /\ internals' = internals /\ batches' = batches
      /\ cache' = cache /\ quarantined' = quarantined /\ chunk_state' = chunk_state
      /\ size' = size /\ shadow' = shadow /\ meta' = meta /\ todo' = todo
      /\ frees' = frees /\ reports' = reports /\ check_failed' = check_failed
  BY DEF vars, places, memory, ghosts
<1>3. Types'
  BY <1>1, <1>2, Zenon DEF Inv, Types
<1>4. ASSUME NEW x \in Blocks
      PROVE  At(x, phase[x], holder[x])' /\ Fits(x, phase[x], Doomers(x, doom))'
  <2>1. At(x, phase[x], holder[x]) /\ Fits(x, phase[x], Doomers(x, doom))
    BY <1>1, Zenon DEF Inv
  <2> QED BY <1>2, <2>1, Zenon DEF At, Fits
<1>5. \A u \in Threads : Plan(todo'[u], u, phase, holder, doom[u])
  BY <1>1, <1>2, Zenon DEF Inv
<1>6. Inv(phase, holder, doom)'
  BY <1>3, <1>4, <1>5, Zenon DEF Inv
<1> QED BY <1>6 DEF HeapInv

LEMMA NextKeeps == HeapInv /\ [NextState]_vars => HeapInv'
<1> SUFFICES ASSUME HeapInv, NEW t \in Threads, Call(t) \/ Step(t) PROVE HeapInv'
  BY StutterKeeps DEF NextState
<1>1. CASE Call(t)
  BY <1>1, MallocKeeps, AllocateInternelKeeps, CallFreeKeeps, CallFreeInternalKeeps,
     CallReallocKeeps, TakeBatchKeeps, ReturnBatchKeeps, CallDrainKeeps DEF Call
<1>2. CASE Step(t)
  BY <1>2, PoisonRedzonesKeeps, UnpoisonKeeps, SetAllocatedKeeps, AllocHookKeeps,
     CheckStateKeeps, DeallocateKeeps, AtomicallySetQuarantineFlagIfAllocatedKeeps,
     FreeHookKeeps, PutKeeps, PassThroughKeeps, TransferKeeps, ExtractKeeps,
     RecycleNextKeeps, InvalidateKeeps, PoisonRecycledKeeps, ReturnToPoolKeeps
  DEF Step
<1> QED BY <1>1, <1>2

\* Blocks can always be assigned phases, holders and calls to free them that fit
\* what each thread has left to do and what each block looks like.
THEOREM HeapAlwaysFits == Spec => []HeapInv
<1> QED BY InitHolds, NextKeeps, PTL DEF Spec

LEMMA LiveAreReady == HeapInv => LiveChunkReady
<1> SUFFICES ASSUME HeapInv, NEW b \in live
             PROVE  /\ chunk_state[b] = "allocated"
                    /\ meta[b] = size[b]
                    /\ \A g \in 0..Granules :
                         IF g \in Used(b) THEN shadow[b][g] = "ok"
                         ELSE shadow[b][g] \in {"redzone", "freed"}
  BY DEF LiveChunkReady
<1>1. PICK phase \in [Blocks -> Phases], holder \in [Blocks -> Holders],
           doom \in [Threads -> SUBSET Blocks] : Inv(phase, holder, doom)
  BY DEF HeapInv
<1>2. At(b, phase[b], holder[b]) /\ Fits(b, phase[b], Doomers(b, doom))
  BY <1>1 DEF Inv, Types
<1>3. phase[b] = "live"
  BY <1>2 DEF At
<1>4. chunk_state[b] = "allocated" /\ meta[b] = size[b] /\ Open(shadow[b], size[b])
  BY <1>2, <1>3 DEF Fits, HeaderFits, ShadowFits
<1> QED BY <1>4 DEF Open, Fenced, Used

LEMMA AllInOnePlace == HeapInv => InOnePlace
<1> SUFFICES ASSUME HeapInv, NEW b \in Blocks PROVE Cardinality(Owners(b)) <= 1
  BY DEF InOnePlace
<1>1. PICK phase \in [Blocks -> Phases], holder \in [Blocks -> Holders],
           doom \in [Threads -> SUBSET Blocks] : Inv(phase, holder, doom)
  BY DEF HeapInv
<1>2. At(b, phase[b], holder[b])
  BY <1>1 DEF Inv
<1> DEFINE owner == IF phase[b] = "cache" THEN holder[b] ELSE phase[b]
<1>3. Owners(b) \subseteq {owner}
  <2>1. ASSUME NEW o \in Owners(b)
        PROVE  o = owner
    <3>1. CASE o \in Threads /\ b \in cache[o]
      BY <1>2, <3>1 DEF At
    <3>2. CASE o = "pool" /\ b \in pool
      BY <1>2, <3>2 DEF At
    <3>3. CASE o = "live" /\ b \in live
      BY <1>2, <3>3 DEF At
    <3>4. CASE o = "internals" /\ b \in internals
      BY <1>2, <3>4 DEF At
    <3>5. CASE o = "batches" /\ b \in batches
      BY <1>2, <3>5 DEF At
    <3>6. CASE o = "quarantined" /\ b \in quarantined
      BY <1>2, <3>6 DEF At
    <3> QED BY <2>1, <3>1, <3>2, <3>3, <3>4, <3>5, <3>6 DEF Owners
  <2> QED BY <2>1
<1> HIDE DEF owner
<1>4. IsFiniteSet({owner}) /\ Cardinality({owner}) = 1
  BY FS_Singleton, Zenon
<1>5. IsFiniteSet(Owners(b)) /\ Cardinality(Owners(b)) <= Cardinality({owner})
  BY <1>3, <1>4, FS_Subset, Zenon
<1> QED BY <1>4, <1>5

LEMMA AllGuarded == HeapInv => QuarantinedIsGuarded
<1> SUFFICES ASSUME HeapInv,
                    NEW b \in quarantined \cup UNION {cache[t] : t \in Threads}
             PROVE  /\ chunk_state[b] = "quarantine" /\ meta[b] = 0
                    /\ \A g \in 0..Granules : shadow[b][g] \in {"redzone", "freed"}
  BY DEF QuarantinedIsGuarded
<1>1. PICK phase \in [Blocks -> Phases], holder \in [Blocks -> Holders],
           doom \in [Threads -> SUBSET Blocks] : Inv(phase, holder, doom)
  BY DEF HeapInv
<1>2. b \in Blocks
  BY <1>1 DEF Inv, Types
<1>3. At(b, phase[b], holder[b]) /\ Fits(b, phase[b], Doomers(b, doom))
  BY <1>1, <1>2 DEF Inv
<1>4. phase[b] \in {"cache", "quarantined"}
  BY <1>3 DEF At
<1>5. chunk_state[b] = "quarantine" /\ meta[b] = 0 /\ Closed(shadow[b])
  BY <1>3, <1>4 DEF Fits, HeaderFits, ShadowFits, Won
<1> QED BY <1>5 DEF Closed

LEMMA AllReported == HeapInv => DoubleFreesReported
<1> SUFFICES ASSUME HeapInv, NEW b \in Blocks
             PROVE  /\ reports[b] > 0 => frees[b] > 1
                    /\ frees[b] > 1 /\ ~AboutToFree(b) => reports[b] > 0
  BY DEF DoubleFreesReported
<1>1. PICK phase \in [Blocks -> Phases], holder \in [Blocks -> Holders],
           doom \in [Threads -> SUBSET Blocks] : Inv(phase, holder, doom)
  BY DEF HeapInv
<1>2. CountsFit(phase[b], frees[b], reports[b], Doomers(b, doom))
  BY <1>1 DEF Inv, Fits
<1>3. AboutToFree(b) <=> Doomers(b, doom) # {}
  BY <1>1, AboutToFreeIs
<1> QED BY <1>2, <1>3 DEF CountsFit

LEMMA NoneFailed == HeapInv => NoCheckFailure
BY DEF HeapInv, Inv, Types, NoCheckFailure

\* Allocate hands a chunk to the program only once its redzones, its shadow, its
\* state and TSan's metadata are those of the new size, and no step of the free of
\* its predecessor in the same block (Deallocate, then Recycle on any thread)
\* touches it after that.
THEOREM ChunksReady == Spec => []LiveChunkReady
<1> QED BY HeapAlwaysFits, LiveAreReady, PTL

\* The compare-and-swap of AtomicallySetQuarantineFlagIfAllocated lets one call put
\* a chunk into the quarantine, whose Transfer and Extract move it and never copy
\* it; DoRecycle returns it once.  So no two owners ever have a block.
THEOREM NeverInTwoPlaces == Spec => []InOnePlace
<1> QED BY HeapAlwaysFits, AllInOnePlace, PTL

\* From QuarantineChunk to Recycle, through caches and transfers, a freed chunk is
\* poisoned all over and TSan has dropped its metadata.
THEOREM QuarantineGuarded == Spec => []QuarantinedIsGuarded
<1> QED BY HeapAlwaysFits, AllGuarded, PTL

\* Whichever of the calls that free a chunk gets to the compare-and-swap first, the
\* others find a state other than allocated and report it, and reallocate reports
\* only what some other call freed.
THEOREM FreesReported == Spec => []DoubleFreesReported
<1> QED BY HeapAlwaysFits, AllReported, PTL

\* The assertions that QuarantineChunk and Recycle make about the state of a chunk
\* hold, since nothing but the call that holds it changes it.
THEOREM ChecksHold == Spec => []NoCheckFailure
<1> QED BY HeapAlwaysFits, NoneFailed, PTL
================================================================================
