------------------------------ MODULE BoxHeap ------------------------------
(***************************************************************************)
(* The heap of the foreign library and the host's view of it: the          *)
(* allocator hooks linked into the library (og_boxrt.c), the callbacks     *)
(* og_boxrt_callback_allow and _revoke they call, the runtime's malloc and *)
(* free (amd64.rs), and the AllocChain (common.rs) of the host code that   *)
(* runs.                                                                   *)
(*                                                                         *)
(* Two builds of a library exist: "auto", with OG_BOXRT_AUTO_ALLOW_REVOKE, *)
(* and "explicit", whose hooks do nothing and whose code allows the buffer *)
(* a read callback fills, as libpng_nojmp.c does.  The library is          *)
(* well-behaved: it frees each block of its own once, and does not touch   *)
(* the host's.                                                             *)
(*                                                                         *)
(* A panic leaves the sandbox, and host code that catches it may go on.    *)
(* The two static callbacks log after they have changed the map, so that a *)
(* logger's panic leaves what other steps leave: in _allow, the state of   *)
(* Malloc, Realloc, or ReadBegin and ReadPanic; in _revoke, of ReadEnd, or *)
(* of ReallocFails, the region gone and the block alive.                   *)
(***************************************************************************)
EXTENDS AllocChain, FiniteSets

CONSTANTS
    HeapMin, HeapMax,   \* the addresses the allocator hands out
    Sizes,              \* the sizes that are asked for
    Builds,             \* the builds of the library: see above
    AccessConfigs,      \* the memory_access_cfg of the runtimes
    MaxBlocks,          \* bound on the live blocks
    MaxStale,           \* bound on the regions that panics leave
    MaxChain            \* bound on the nested scopes

ASSUME HeapAssumption ==
    /\ HeapMin \in Nat \ {0} /\ HeapMax \in Nat /\ HeapMax < StackTop /\ BoxMin <= HeapMin
    /\ Sizes \subseteq Address
ASSUME BuildsAssumption == Builds \subseteq {"auto", "explicit"}
ASSUME MaxChainAssumption == MaxChain \in Nat
ASSUME AccessAssumption == AccessConfigs \subseteq SUBSET {"all", "stack", "allowed"}

VARIABLES
    build,          \* how the library was built
    access,         \* memory_access_cfg
    initialized,    \* OG_BOXRT_STATE.initialized
    heap,           \* the size of each live block, by its address
    hostOwned,      \* the blocks the host got from the runtime's malloc
    regions,        \* AllowedRegions
    reading,        \* the buffer of the read callback that runs, if any
    chain,          \* the AllocChain of the innermost scope
    early, lost,    \* blocks from before og_boxrt_init, and of a failed realloc
    stale,          \* the regions of reads that a panic has ended
    status          \* "running", or "aborted" by the library's own abort()

vars == <<build, access, initialized, heap, hostOwned, regions, reading, chain,
          early, lost, stale, status>>

Init ==
    /\ build \in Builds /\ access \in AccessConfigs
    /\ initialized = FALSE
    /\ heap = <<>> /\ hostOwned = {} /\ regions = <<>>
    /\ reading = {} /\ chain = <<>> /\ early = {} /\ lost = {} /\ stale = {}
    /\ status = "running"

-----------------------------------------------------------------------------
(* The allocator behind __real_malloc: it hands out unused addresses, and  *)
(* an address of its own to a block without bytes.                         *)

Extent(start, size) == start .. start + (IF size = 0 THEN 1 ELSE size) - 1
Blocks == DOMAIN heap
Without(block) == Restrict(heap, Blocks \ {block})

Unused(blocks, start, size) ==
    /\ Extent(start, size) \subseteq HeapMin .. HeapMax
    /\ \A b \in DOMAIN blocks : Extent(b, blocks[b]) \cap Extent(start, size) = {}

-----------------------------------------------------------------------------
(* The hooks *)

\* The hooks test allow_cb as well; every host registers it with og_boxrt_init.
Hooked == build = "auto" /\ initialized
Running == status = "running"

\* The block is the library's to free: no read fills it meanwhile.
Disposable(block) ==
    /\ build = "auto" \/ block \notin hostOwned
    /\ \A r \in reading : r.block # block

\* allow_cb, and abort() when it fails
Allow(from, start, size) ==
    /\ regions' = Insert(from, start, size, TRUE)
    /\ status' = IF start \in DOMAIN from THEN "aborted" ELSE status

\* revoke_cb, and abort() when it fails; rest is what follows it
Revoke(start, rest) ==
    IF start \in DOMAIN regions THEN rest
    ELSE status' = "aborted" /\ UNCHANGED <<heap, hostOwned, regions, early, lost, stale>>

\* og_boxrt_init
BoxrtInit ==
    /\ Running /\ ~initialized
    /\ initialized' = TRUE
    /\ UNCHANGED <<build, access, heap, hostOwned, regions, reading, chain, early, lost, stale,
                   status>>

\* Mutant: the hook does not test whether the runtime has been initialised.
MallocUninitialised(start, size) ==
    /\ Running /\ Cardinality(Blocks) < MaxBlocks
    /\ Unused(heap, start, size)
    /\ heap' = Put(heap, start, size)
    /\ IF build = "auto" THEN Allow(regions, start, size) ELSE UNCHANGED <<regions, status>>
    /\ early' = IF initialized THEN early ELSE early \cup {start}
    /\ UNCHANGED <<build, access, initialized, hostOwned, reading, chain, lost, stale>>

\* __wrap_malloc, and calloc, aligned_alloc, posix_memalign, memalign, valloc.
\* When __real_malloc returns null nothing changes.
Malloc(start, size) ==
    /\ Running /\ Cardinality(Blocks) < MaxBlocks
    /\ Unused(heap, start, size)
    /\ heap' = Put(heap, start, size)
    /\ IF Hooked THEN Allow(regions, start, size) ELSE UNCHANGED <<regions, status>>
    /\ early' = IF initialized THEN early ELSE early \cup {start}
    /\ UNCHANGED <<build, access, initialized, hostOwned, reading, chain, lost, stale>>

FreeBlock(block) ==
    /\ heap' = Without(block)
    /\ hostOwned' = hostOwned \ {block}
    /\ regions' = Remove(regions, block)
    /\ early' = early \ {block}
    /\ stale' = stale \ {block}
    /\ UNCHANGED <<lost, status>>

\* __wrap_free of a block; revokes first.
Free(block) ==
    /\ Running /\ block \in Blocks /\ Disposable(block)
    /\ IF Hooked THEN Revoke(block, FreeBlock(block))
       ELSE /\ heap' = Without(block)
            /\ early' = early \ {block}
            /\ UNCHANGED <<hostOwned, regions, lost, stale, status>>
    /\ UNCHANGED <<build, access, initialized, reading, chain>>

\* Mutant: the null test of __wrap_free is missing.
FreeNullRevoking ==
    /\ Running
    /\ status' = IF Hooked THEN "aborted" ELSE status
    /\ UNCHANGED <<build, access, initialized, heap, hostOwned, regions, reading, chain,
                   early, lost, stale>>

\* __wrap_free(NULL)
FreeNull == Running /\ UNCHANGED vars

\* Mutant: the old region is not revoked.
ReallocKeeping(block, start, size) ==
    /\ Running /\ block \in Blocks /\ Disposable(block)
    /\ Unused(Without(block), start, size)
    /\ start = block \/ Unused(heap, start, size)
    /\ heap' = Put(Without(block), start, size)
    /\ hostOwned' = hostOwned \ {block}
    /\ IF Hooked THEN Allow(regions, start, size) ELSE UNCHANGED <<regions, status>>
    /\ early' = IF initialized THEN early \ {block} ELSE (early \ {block}) \cup {start}
    /\ UNCHANGED <<build, access, initialized, reading, chain, lost, stale>>

\* __wrap_realloc of a block, in place or to an unused address: revokes the old
\* block, reallocates, allows the new one.
Realloc(block, start, size) ==
    /\ Running /\ block \in Blocks /\ Disposable(block)
    /\ Unused(Without(block), start, size)
    /\ start = block \/ Unused(heap, start, size)
    /\ IF Hooked
       THEN Revoke(block, /\ heap' = Put(Without(block), start, size)
                          /\ hostOwned' = hostOwned \ {block}
                          /\ Allow(Remove(regions, block), start, size)
                          /\ UNCHANGED <<early, lost, stale>>)
       ELSE /\ heap' = Put(Without(block), start, size)
            /\ early' = (early \ {block}) \cup IF initialized THEN {} ELSE {start}
            /\ UNCHANGED <<hostOwned, regions, lost, stale, status>>
    /\ UNCHANGED <<build, access, initialized, reading, chain>>

\* __real_realloc returns null, or a logger panics in a revoke: the block lives
\* on, its region is gone.
ReallocFails(block) ==
    /\ Running /\ block \in Blocks /\ Disposable(block)
    /\ IF Hooked
       THEN Revoke(block, /\ regions' = Remove(regions, block)
                          /\ lost' = lost \cup {block}
                          /\ UNCHANGED <<heap, hostOwned, early, stale, status>>)
       ELSE UNCHANGED <<heap, hostOwned, regions, early, lost, stale, status>>
    /\ UNCHANGED <<build, access, initialized, reading, chain>>

-----------------------------------------------------------------------------
(* The runtime's malloc and free, callable once it has been made           *)

\* The foreign malloc, then an insert "in case the foreign library did not
\* issue an allow".
HostMalloc(start, size) ==
    /\ Running /\ initialized /\ Cardinality(Blocks) < MaxBlocks
    /\ Unused(heap, start, size)
    /\ heap' = Put(heap, start, size)
    /\ hostOwned' = hostOwned \cup {start}
    /\ regions' = Insert(regions, start, size, TRUE)
    /\ status' = IF Hooked /\ start \in DOMAIN regions THEN "aborted" ELSE status
    /\ UNCHANGED <<build, access, initialized, reading, chain, early, lost, stale>>

\* Mutant: the runtime leaves the region to the foreign free.
HostFreeOnly(block) ==
    /\ Running /\ block \in hostOwned
    /\ IF Hooked THEN Revoke(block, FreeBlock(block))
       ELSE /\ heap' = Without(block) /\ hostOwned' = hostOwned \ {block}
            /\ UNCHANGED <<regions, early, lost, stale, status>>
    /\ UNCHANGED <<build, access, initialized, reading, chain>>

\* The foreign free, then a remove.
HostFree(block) ==
    /\ Running /\ block \in hostOwned
    /\ IF Hooked THEN Revoke(block, FreeBlock(block)) ELSE FreeBlock(block)
    /\ UNCHANGED <<build, access, initialized, reading, chain>>

-----------------------------------------------------------------------------
(* png_read_fn_allow_revoke_wrapper around the host's read callback        *)

\* og_boxrt_allow for a part of a block of the library's.
ReadBegin(block, ptr, len) ==
    /\ Running /\ initialized /\ build = "explicit" /\ reading = {}
    /\ block \in Blocks \ hostOwned
    /\ len > 0 /\ block <= ptr /\ ptr + len <= block + heap[block]
    /\ Allow(regions, ptr, len)
    /\ reading' = {[block |-> block, ptr |-> ptr]}
    /\ UNCHANGED <<build, access, initialized, heap, hostOwned, chain, early, lost, stale>>

\* og_boxrt_revoke after the callback has returned.
ReadEnd ==
    /\ Running
    /\ \E r \in reading :
          Revoke(r.ptr, /\ regions' = Remove(regions, r.ptr)
                        /\ UNCHANGED <<heap, hostOwned, early, lost, stale, status>>)
    /\ reading' = {}
    /\ UNCHANGED <<build, access, initialized, chain>>

\* The callback panics: the sandbox is left without running the wrapper's end,
\* and the region stays allowed.
ReadPanic ==
    /\ Running /\ reading # {} /\ Cardinality(stale) < MaxStale
    /\ reading' = {}
    /\ stale' = stale \cup {r.ptr : r \in reading}
    /\ UNCHANGED <<build, access, initialized, heap, hostOwned, regions, chain, early, lost,
                   status>>

-----------------------------------------------------------------------------
(* Scopes of the host code: Runtime models when they begin and end         *)

Enter(element) ==
    /\ Running /\ initialized /\ Len(chain) < MaxChain
    /\ chain' = Append(chain, element)
    /\ UNCHANGED <<build, access, initialized, heap, hostOwned, regions, reading, early, lost,
                   stale, status>>

\* The lowest address the scopes around have left on the foreign stack.
StackPointer ==
    IF chain = <<>> THEN StackTop
    ELSE LET last == chain[Len(chain)]
         IN  IF last.kind = "HostAllocation" THEN last.ptr ELSE last.bottom

EnterAllocation(ptr, len) ==
    /\ HeapMax < ptr /\ ptr + len <= StackPointer
    /\ Enter([kind |-> "HostAllocation", ptr |-> ptr, len |-> len])

EnterCallback(bottom) ==
    /\ HeapMax < bottom /\ bottom <= StackPointer
    /\ Enter([kind |-> "ForeignStack", bottom |-> bottom])

LeaveScope ==
    /\ Running /\ chain # <<>>
    /\ chain' = SubSeq(chain, 1, Len(chain) - 1)
    /\ UNCHANGED <<build, access, initialized, heap, hostOwned, regions, reading, early, lost,
                   stale, status>>

-----------------------------------------------------------------------------
Terminated == ~Running /\ UNCHANGED vars

HeapArea == HeapMin .. HeapMax

Next ==
    \/ BoxrtInit
    \/ \E start \in HeapArea, size \in Sizes : Malloc(start, size) \/ HostMalloc(start, size)
    \/ \E block \in Blocks : Free(block) \/ ReallocFails(block) \/ HostFree(block)
    \/ FreeNull
    \/ \E block \in Blocks, start \in HeapArea, size \in Sizes : Realloc(block, start, size)
    \/ \E block \in Blocks, ptr \in HeapArea, len \in Sizes : ReadBegin(block, ptr, len)
    \/ ReadEnd \/ ReadPanic
    \/ \E ptr \in Address, len \in Sizes : EnterAllocation(ptr, len)
    \/ \E bottom \in Address : EnterCallback(bottom)
    \/ LeaveScope
    \/ Terminated

Spec == Init /\ [][Next]_vars

-----------------------------------------------------------------------------
(* Properties *)

TypeOK ==
    /\ build \in Builds /\ access \in AccessConfigs
    /\ initialized \in BOOLEAN
    /\ Blocks \subseteq HeapArea /\ \A b \in Blocks : heap[b] \in Sizes
    /\ hostOwned \subseteq Blocks /\ lost \subseteq Blocks /\ early \subseteq Blocks
    /\ stale \subseteq DOMAIN regions
    /\ DOMAIN regions \subseteq HeapArea /\ \A s \in DOMAIN regions : regions[s] \in Region
    /\ chain \in Seq(ChainElement) /\ Len(chain) <= MaxChain
    /\ Cardinality(reading) <= 1
    /\ status \in {"running", "aborted"}

\* The blocks the host is meant to access, whichever way it learned of them.
Shared ==
    IF build = "auto" THEN IF initialized THEN Blocks \ (early \cup lost) ELSE {}
    ELSE hostOwned

\* The allowed regions are at any time exactly the shared blocks, with their
\* current sizes, and the buffer of a read that is under way: each of the
\* library's and the host's ways to get, resize and free memory keeps the two
\* maps, on the two sides of the sandbox boundary, in step.  Only a panic of the
\* host's read callback leaves a region more; no other region is ever lost or kept.
RegionsMatchHeap ==
    Running =>
        /\ DOMAIN regions = Shared \cup {r.ptr : r \in reading} \cup stale
        /\ \A b \in Shared \ stale : regions[b] = [len |-> heap[b], mutable |-> TRUE]

BlockBytes == UNION {b .. b + heap[b] - 1 : b \in Blocks}
AllocationBytes ==
    UNION {chain[i].ptr .. chain[i].ptr + chain[i].len - 1 :
             i \in {j \in DOMAIN chain : chain[j].kind = "HostAllocation"}}
LiveBytes == BlockBytes \cup AllocationBytes

TouchesStack(ptr, len) ==
    \E i \in DOMAIN chain : chain[i].kind = "ForeignStack" /\ StackValid(chain[i].bottom, ptr, len)

\* No range the host may access has a byte of freed memory, unless it may access
\* the whole sandbox anyway, a foreign stack the range overlaps, or the region
\* that a panic of its own read callback has left.
ValidOnlyLive ==
    Running => \A ptr \in Address, len \in Address \ {0} :
        IsValid(access, regions, chain, ptr, len, FALSE) =>
            \/ ptr .. ptr + len - 1 \subseteq LiveBytes
            \/ "all" \in access /\ InBox(ptr, len)
            \/ "stack" \in access /\ TouchesStack(ptr, len)
            \/ "allowed" \in access /\ RegionsValid(Restrict(regions, stale), ptr, len, FALSE)

\* The host reaches all of every shared block, and of every allocation of the
\* scopes it is in, from the innermost scope.  A block that the allocator puts
\* where a panic has left a region keeps that region's length.
SharedReachable ==
    Running =>
        /\ \A b \in Shared \ stale : IsValid(access, regions, chain, b, heap[b], TRUE)
        /\ \A i \in DOMAIN chain : chain[i].kind = "HostAllocation" =>
              IsValid(access, regions, chain, chain[i].ptr, chain[i].len, TRUE)

\* The library aborts only over memory whose region is not what it was left as:
\* a block from before og_boxrt_init, one whose realloc failed, or a buffer whose
\* read has panicked.
AbortsExplained == status = "aborted" => early \cup lost \cup stale # {}

=============================================================================
