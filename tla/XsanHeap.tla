-------------------------------- MODULE XsanHeap --------------------------------
(***************************************************************************)
(* The heap that ASan's allocator (asan_allocator.cpp) serves to the       *)
(* program and to the runtime.  A user chunk has a header, redzones, its   *)
(* shadow and TSan's block of metadata, and passes through a quarantine    *)
(* when it is freed; an internal block has none of these, and is told from *)
(* a chunk by the magic value in its shadow.  Blocks of one size class     *)
(* serve as both in turn, and as batches of the quarantine.                *)
(*                                                                         *)
(* A block is a left redzone (granule 0) and Granules granules of user     *)
(* memory, of which a chunk uses the first size[b].  A call is a sequence  *)
(* of steps, each one access to what other threads see.  The allocator     *)
(* below (combined, per-thread caches) is external: a set of free blocks.  *)
(* Whether a quarantine is over its limit is a choice.                     *)
(***************************************************************************)
EXTENDS Integers, Sequences, FiniteSets

CONSTANTS Threads,
          Blocks,
          Granules,     \* of user memory in a block
          MaxFrees      \* calls that free one chunk; more than one is a double free

ASSUME HeapAssumption ==
  /\ Granules \in Nat \ {0} /\ MaxFrees \in Nat \ {0}

VARIABLES pool,         \* blocks the allocator can serve
          live,         \* chunks of the program
          internals,    \* blocks of the runtime
          batches,      \* blocks that hold batches of the quarantine
          cache,        \* per-thread caches of the quarantine
          quarantined,  \* the quarantine all threads share
          chunk_state,  \* invalid, allocated, quarantine, or the runtime's data
          size,         \* of the chunk, in granules
          shadow,       \* of each granule: ok, redzone, freed or internal
          meta,         \* the size in TSan's block of metadata, 0 for none
          todo,         \* what is left of each thread's call
          frees,        \* calls that free a chunk since it was allocated
          reports,      \* those of them that ASan reported
          check_failed

places == <<pool, live, internals, batches, cache, quarantined>>
memory == <<chunk_state, size, shadow, meta>>
ghosts == <<frees, reports>>
vars == <<places, memory, todo, ghosts, check_failed>>

User == 1..Granules

----------------------------------------------------------------------------
(* The calls, step by step. *)

Allocate(b) ==
  <<<<"redzones", b>>, <<"unpoison", b>>, <<"allocated", b>>, <<"alloc_hook", b>>>>

QuarantineChunk(b) == <<<<"put", b>>>>

Free_HooksLate(b) ==
  <<<<"cas", b>>>> \o QuarantineChunk(b) \o <<<<"free_hook", b>>>>

\* The part of Deallocate for user chunks.
Free(b) == <<<<"cas", b>>, <<"free_hook", b>>>> \o QuarantineChunk(b)

DeallocateInternal(b) == <<<<"free_hook", b>>, <<"deallocate", b>>>>

Recycle(b) == <<<<"invalid", b>>, <<"poison", b>>, <<"deallocate", b>>>>

\* Chunk by chunk, once the quarantine has let go of all of them.
DoRecycle(S) == IF S = {} THEN <<>> ELSE <<<<"recycle", S>>>>

\* Is p, which points to granule g of b, the runtime's?
IsHeapAllocatedInternally(b, g) == shadow[b][g] = "internal"

Next(t) == Head(todo[t])

Does(t, step) == todo[t] # <<>> /\ Next(t)[1] = step

Chunk(t) == Next(t)[2]

Continue(t, steps) == todo' = [todo EXCEPT ![t] = steps \o Tail(@)]

Advance(t) == Continue(t, <<>>)

\* A thread that has been told to free chunk b and has not done so yet.
AboutToFree(b) ==
  \E u \in Threads : \E i \in DOMAIN todo[u] :
    todo[u][i] \in {<<"free", b, 1>>, <<"cas", b>>}

Freed(b) ==
  \/ AboutToFree(b)
  \/ b \in quarantined \cup UNION {cache[u] : u \in Threads}

----------------------------------------------------------------------------
Init ==
  /\ pool = Blocks
  /\ live = {} /\ internals = {} /\ batches = {}
  /\ cache = [t \in Threads |-> {}] /\ quarantined = {}
  /\ chunk_state = [b \in Blocks |-> "invalid"]
  /\ size = [b \in Blocks |-> 1]
  /\ shadow = [b \in Blocks |-> [g \in 0..Granules |-> "redzone"]]
  /\ meta = [b \in Blocks |-> 0]
  /\ todo = [t \in Threads |-> <<>>]
  /\ frees = [b \in Blocks |-> 0] /\ reports = [b \in Blocks |-> 0]
  /\ check_failed = FALSE

\* The allocator serves b, whose header gets the size.
Serve(b) ==
  /\ b \in pool
  /\ pool' = pool \ {b}
  /\ \E n \in User : size' = [size EXCEPT ![b] = n]
  /\ reports' = [reports EXCEPT ![b] = 0]

Malloc(t) ==
  /\ todo[t] = <<>>
  /\ \E b \in Blocks :
       /\ Serve(b)
       /\ frees' = [frees EXCEPT ![b] = 0]
       /\ todo' = [todo EXCEPT ![t] = Allocate(b)]
  /\ UNCHANGED <<live, internals, batches, cache, quarantined, chunk_state,
                 shadow, meta, check_failed>>

\* Allocate inside the runtime: AllocateInternel.  The runtime writes where a
\* chunk would have its header.
AllocateInternel(t) ==
  /\ todo[t] = <<>>
  /\ \E b \in pool :
       /\ pool' = pool \ {b} /\ internals' = internals \cup {b}
       /\ shadow' = [shadow EXCEPT ![b] = [g \in 0..Granules |-> "internal"]]
       /\ chunk_state' = [chunk_state EXCEPT ![b] = "data"]
  /\ UNCHANGED <<live, batches, cache, quarantined, size, meta, todo, ghosts,
                 check_failed>>

\* The program frees a chunk; a program with a double free frees one that is
\* being freed, or is in quarantine.
CallFree(t) ==
  /\ todo[t] = <<>>
  /\ \E b \in Blocks :
       /\ b \in live \/ Freed(b)
       /\ frees[b] < MaxFrees
       /\ live' = live \ {b}
       /\ frees' = [frees EXCEPT ![b] = @ + 1]
       /\ todo' = [todo EXCEPT ![t] = <<<<"free", b, 1>>>>]
  /\ UNCHANGED <<pool, internals, batches, cache, quarantined, memory, reports,
                 check_failed>>

\* The runtime frees a block, through free or user_free.
CallFreeInternal(t) ==
  /\ todo[t] = <<>>
  /\ \E b \in internals :
       /\ internals' = internals \ {b}
       /\ \E steps \in {<<<<"free", b, 0>>>>, DeallocateInternal(b)} :
            todo' = [todo EXCEPT ![t] = steps]
  /\ UNCHANGED <<pool, live, batches, cache, quarantined, memory, ghosts,
                 check_failed>>

\* Reallocate: allocate, look at the old chunk, free it.
CallRealloc(t) ==
  /\ todo[t] = <<>>
  /\ \E old \in live, b \in Blocks :
       /\ Serve(b)
       /\ live' = live \ {old}
       /\ todo' = [todo EXCEPT ![t] =
                     Allocate(b) \o <<<<"check", old>>, <<"free", old, 1>>>>]
       /\ frees' = [frees EXCEPT ![b] = 0, ![old] = frees[old] + 1]
  /\ UNCHANGED <<internals, batches, cache, quarantined, chunk_state, shadow,
                 meta, check_failed>>

\* The quarantine takes a block for its pointers; the shadow stays as it is.
TakeBatch(t) ==
  /\ todo[t] = <<>> /\ batches = {}
  /\ \E b \in pool : /\ pool' = pool \ {b} /\ batches' = {b}
                     /\ chunk_state' = [chunk_state EXCEPT ![b] = "data"]
  /\ UNCHANGED <<live, internals, cache, quarantined, size, shadow, meta, todo,
                 ghosts, check_failed>>

ReturnBatch(t) ==
  /\ todo[t] = <<>> /\ batches # {}
  /\ pool' = pool \cup batches /\ batches' = {}
  /\ UNCHANGED <<live, internals, cache, quarantined, memory, todo, ghosts,
                 check_failed>>

\* CommitBack at the end of a thread, or Purge.
CallDrain(t) ==
  /\ todo[t] = <<>> /\ cache[t] # {}
  /\ todo' = [todo EXCEPT ![t] = <<<<"transfer">>>>]
  /\ UNCHANGED <<places, memory, ghosts, check_failed>>

----------------------------------------------------------------------------
(* The steps of Allocate. *)

SetShadow(b, G, val) ==
  shadow' = [shadow EXCEPT ![b] = [g \in 0..Granules |->
                                     IF g \in G THEN val ELSE @[g]]]

Used(b) == 1..size[b]

\* A block that was the runtime's has the magic value all over.
PoisonRedzones_KeepsMagic(t) ==
  /\ Does(t, "redzones")
  /\ Advance(t)
  /\ LET b == Chunk(t) IN
     IF shadow[b][0] = "ok"
     THEN SetShadow(b, (0..Granules) \ Used(b), "redzone")
     ELSE UNCHANGED shadow
  /\ UNCHANGED <<places, chunk_state, size, meta, ghosts, check_failed>>

PoisonRedzones(t) ==
  /\ Does(t, "redzones")
  /\ Advance(t)
  /\ LET b == Chunk(t) IN
     IF shadow[b][0] \in {"ok", "internal"}
     THEN SetShadow(b, (0..Granules) \ Used(b), "redzone")
     ELSE UNCHANGED shadow
  /\ UNCHANGED <<places, chunk_state, size, meta, ghosts, check_failed>>

Unpoison(t) ==
  /\ Does(t, "unpoison")
  /\ Advance(t)
  /\ SetShadow(Chunk(t), Used(Chunk(t)), "ok")
  /\ UNCHANGED <<places, chunk_state, size, meta, ghosts, check_failed>>

SetAllocated(t) ==
  /\ Does(t, "allocated")
  /\ Advance(t)
  /\ chunk_state' = [chunk_state EXCEPT ![Chunk(t)] = "allocated"]
  /\ UNCHANGED <<places, size, shadow, meta, ghosts, check_failed>>

\* OnXsanAllocHook of TSan; the chunk is the program's.
AllocHook(t) ==
  /\ Does(t, "alloc_hook")
  /\ Advance(t)
  /\ meta' = [meta EXCEPT ![Chunk(t)] = size[Chunk(t)]]
  /\ live' = live \cup {Chunk(t)}
  /\ UNCHANGED <<pool, internals, batches, cache, quarantined, chunk_state, size,
                 shadow, ghosts, check_failed>>

----------------------------------------------------------------------------
(* The steps of Deallocate. *)

Report(b) == reports' = [reports EXCEPT ![b] = @ + 1]

\* Reallocate goes on after the report.
CheckState(t) ==
  /\ Does(t, "check")
  /\ Advance(t)
  /\ IF chunk_state[Chunk(t)] = "allocated"
     THEN UNCHANGED reports ELSE Report(Chunk(t))
  /\ UNCHANGED <<places, memory, frees, check_failed>>

Deallocate(t) ==
  /\ Does(t, "free")
  /\ Continue(t, IF IsHeapAllocatedInternally(Chunk(t), Next(t)[3])
                 THEN DeallocateInternal(Chunk(t)) ELSE Free(Chunk(t)))
  /\ UNCHANGED <<places, memory, ghosts, check_failed>>

\* The chunk goes to the quarantine whatever its state was.
AtomicallySetQuarantineFlagIfAllocated_Unchecked(t) ==
  /\ Does(t, "cas")
  /\ Continue(t, <<>>)
  /\ chunk_state' = [chunk_state EXCEPT ![Chunk(t)] = "quarantine"]
  /\ UNCHANGED <<places, size, shadow, meta, ghosts, check_failed>>

AtomicallySetQuarantineFlagIfAllocated(t) ==
  /\ Does(t, "cas")
  /\ IF chunk_state[Chunk(t)] = "allocated"
     THEN /\ chunk_state' = [chunk_state EXCEPT ![Chunk(t)] = "quarantine"]
          /\ Advance(t)
          /\ UNCHANGED reports
     ELSE /\ Report(Chunk(t))
          /\ todo' = [todo EXCEPT ![t] = <<>>]
          /\ UNCHANGED chunk_state
  /\ UNCHANGED <<places, size, shadow, meta, frees, check_failed>>

\* OnXsanFreeHook of TSan.
FreeHook(t) ==
  /\ Does(t, "free_hook")
  /\ Advance(t)
  /\ meta' = [meta EXCEPT ![Chunk(t)] = 0]
  /\ UNCHANGED <<places, chunk_state, size, shadow, ghosts, check_failed>>

Check(cond) == check_failed' = (check_failed \/ ~cond)

\* Quarantine::Put: the cache of the thread may then be over its limit.
Put(t) ==
  /\ Does(t, "put")
  /\ Check(chunk_state[Chunk(t)] = "quarantine")
  /\ SetShadow(Chunk(t), Used(Chunk(t)), "freed")
  /\ cache' = [cache EXCEPT ![t] = @ \cup {Chunk(t)}]
  /\ \E more \in {<<>>, <<<<"transfer">>>>} : Continue(t, more)
  /\ UNCHANGED <<pool, live, internals, batches, quarantined, chunk_state, size,
                 meta, ghosts>>

\* A chunk larger than the quarantine: RecyclePassThrough.
PassThrough(t) ==
  /\ Does(t, "put")
  /\ Check(chunk_state[Chunk(t)] = "quarantine")
  /\ Continue(t, Recycle(Chunk(t)))
  /\ UNCHANGED <<places, memory, ghosts>>

\* Drain: the common quarantine may be over its limit, and no other thread be
\* about to empty it.
Transfer(t) ==
  /\ Does(t, "transfer")
  /\ quarantined' = quarantined \cup cache[t]
  /\ cache' = [cache EXCEPT ![t] = {}]
  /\ \E more \in {<<>>, <<<<"extract">>>>} : Continue(t, more)
  /\ UNCHANGED <<pool, live, internals, batches, memory, ghosts, check_failed>>

Extract_Copies(t) ==
  /\ Does(t, "extract")
  /\ \E S \in SUBSET quarantined : Continue(t, DoRecycle(S))
  /\ UNCHANGED <<places, memory, ghosts, check_failed>>

Extract(t) ==
  /\ Does(t, "extract")
  /\ \E S \in SUBSET quarantined :
       /\ quarantined' = quarantined \ S
       /\ Continue(t, DoRecycle(S))
  /\ UNCHANGED <<pool, live, internals, batches, cache, memory, ghosts,
                 check_failed>>

RecycleNext(t) ==
  /\ Does(t, "recycle")
  /\ \E b \in Next(t)[2] : Continue(t, Recycle(b) \o DoRecycle(Next(t)[2] \ {b}))
  /\ UNCHANGED <<places, memory, ghosts, check_failed>>

\* The quarantine outlasts a second free of the same chunk.
Invalidate(t) ==
  /\ Does(t, "invalid")
  /\ ~AboutToFree(Chunk(t))
  /\ Check(chunk_state[Chunk(t)] = "quarantine")
  /\ chunk_state' = [chunk_state EXCEPT ![Chunk(t)] = "invalid"]
  /\ Advance(t)
  /\ UNCHANGED <<places, size, shadow, meta, ghosts>>

PoisonRecycled(t) ==
  /\ Does(t, "poison")
  /\ Advance(t)
  /\ SetShadow(Chunk(t), Used(Chunk(t)), "redzone")
  /\ UNCHANGED <<places, chunk_state, size, meta, ghosts, check_failed>>

ReturnToPool(t) ==
  /\ Does(t, "deallocate")
  /\ Advance(t)
  /\ pool' = pool \cup {Chunk(t)}
  /\ UNCHANGED <<live, internals, batches, cache, quarantined, memory, ghosts,
                 check_failed>>

Call(t) ==
  Malloc(t) \/ AllocateInternel(t) \/ CallFree(t) \/ CallFreeInternal(t)
  \/ CallRealloc(t) \/ TakeBatch(t) \/ ReturnBatch(t) \/ CallDrain(t)

Step(t) ==
  PoisonRedzones(t) \/ Unpoison(t) \/ SetAllocated(t) \/ AllocHook(t)
  \/ CheckState(t) \/ Deallocate(t) \/ AtomicallySetQuarantineFlagIfAllocated(t)
  \/ FreeHook(t) \/ Put(t) \/ PassThrough(t) \/ Transfer(t) \/ Extract(t)
  \/ RecycleNext(t) \/ Invalidate(t) \/ PoisonRecycled(t) \/ ReturnToPool(t)

NextState == \E t \in Threads : Call(t) \/ Step(t)

Spec == Init /\ [][NextState]_vars

----------------------------------------------------------------------------
(* The properties. *)

\* Whatever else other threads do to the heap, a chunk of the program is marked
\* allocated, its user memory and nothing else of the block is addressable, and
\* TSan's block of metadata is that of its allocation: nothing that the free of
\* its predecessor does comes late.  No redzone carries the runtime's magic.
LiveChunkReady ==
  \A b \in live :
    /\ chunk_state[b] = "allocated"
    /\ meta[b] = size[b]
    /\ \A g \in 0..Granules :
         IF g \in Used(b) THEN shadow[b][g] = "ok"
         ELSE shadow[b][g] \in {"redzone", "freed"}

Owners(b) ==
  {p \in {"pool", "live", "internals", "batches", "quarantined"} :
     b \in CASE p = "pool" -> pool [] p = "live" -> live
              [] p = "internals" -> internals [] p = "batches" -> batches
              [] p = "quarantined" -> quarantined}
  \cup {t \in Threads : b \in cache[t]}

\* A block is never in two places: it is not served while it is in use or in
\* quarantine, nor quarantined or recycled twice.
InOnePlace == \A b \in Blocks : Cardinality(Owners(b)) <= 1

\* A chunk that was freed stays inaccessible until it is recycled, so that its use
\* is seen, and TSan has forgotten it.
QuarantinedIsGuarded ==
  \A b \in quarantined \cup UNION {cache[t] : t \in Threads} :
    /\ chunk_state[b] = "quarantine" /\ meta[b] = 0
    /\ \A g \in 0..Granules : shadow[b][g] \in {"redzone", "freed"}

\* Of the calls that free one chunk, one succeeds, the others are reported, and
\* no report comes without a second call, whichever overtakes the other.
DoubleFreesReported ==
  \A b \in Blocks :
    /\ reports[b] > 0 => frees[b] > 1
    /\ frees[b] > 1 /\ ~AboutToFree(b) => reports[b] > 0

\* The assertions of QuarantineChunk and Recycle hold.
NoCheckFailure == ~check_failed
================================================================================
