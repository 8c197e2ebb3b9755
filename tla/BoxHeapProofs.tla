--------------------------- MODULE BoxHeapProofs ---------------------------
(***************************************************************************)
(* The sandbox heap and the allowed regions, proved for every address      *)
(* space, every set of sizes and any number of blocks.                     *)
(***************************************************************************)
EXTENDS BoxHeap, FiniteSetTheorems, SequenceTheorems, TLAPS

-----------------------------------------------------------------------------
(* Maps *)

\* Taking a key out of a map.
LEMMA DropFacts ==
    ASSUME NEW f, NEW k
    PROVE  LET g == Restrict(f, DOMAIN f \ {k})
           IN  /\ DOMAIN g = DOMAIN f \ {k}
               /\ \A x \in DOMAIN f \ {k} : g[x] = f[x]
  BY DEF Restrict

-----------------------------------------------------------------------------
(* The addresses of blocks *)

\* Blocks lie in the heap and do not overlap.
Apart(blocks) ==
    /\ \A b \in DOMAIN blocks :
          /\ blocks[b] \in Sizes /\ b \in HeapArea
          /\ Extent(b, blocks[b]) \subseteq HeapArea
    /\ \A b, c \in DOMAIN blocks : b # c => Extent(b, blocks[b]) \cap Extent(c, blocks[c]) = {}

\* Sizes and addresses are numbers.
LEMMA NumberFacts ==
    /\ HeapMin \in Nat /\ HeapMax \in Int /\ HeapArea \subseteq Nat
    /\ Sizes \subseteq Nat
    /\ AddrLimit \in Nat /\ StackTop \in Nat /\ HeapMax < StackTop /\ StackTop < AddrLimit
  <1>1. BoxMin \in Nat /\ BoxMax \in Nat /\ AddrLimit \in Nat /\ BoxMax < AddrLimit
        /\ StackTop \in Nat /\ StackTop <= BoxMax
    BY ChainAddressAssumption
  <1>2. HeapMax \in Int
    BY HeapAssumption
  <1> QED
    BY <1>1, <1>2, HeapAssumption DEF Address, HeapArea

\* A block occupies its own address, and no byte beyond the heap.
LEMMA ExtentFacts ==
    ASSUME NEW b \in HeapArea, NEW size \in Sizes
    PROVE  /\ b \in Extent(b, size)
           /\ Extent(b, size) \subseteq HeapArea => b + size <= HeapMax + 1
           /\ \A ptr \in Nat : b <= ptr /\ ptr < b + size => ptr \in Extent(b, size)
  <1>1. b \in Nat /\ size \in Nat /\ HeapMax \in Int /\ HeapMin \in Int /\ b <= HeapMax
    BY NumberFacts DEF HeapArea
  <1>2. ASSUME Extent(b, size) \subseteq HeapArea, size > 0
        PROVE  b + size <= HeapMax + 1
    <2>1. b + size - 1 \in Extent(b, size)
      BY <1>1, <1>2 DEF Extent
    <2> QED
      BY <1>1, <1>2, <2>1 DEF HeapArea
  <1> QED
    BY <1>1, <1>2 DEF Extent

\* The allocator finds room for a new block.
LEMMA PlaceFacts ==
    ASSUME NEW blocks, Apart(blocks), NEW start \in HeapArea, NEW size \in Sizes,
           Unused(blocks, start, size)
    PROVE  start \notin DOMAIN blocks /\ Apart(Put(blocks, start, size))
  <1>1. start \in Extent(start, size) /\ Extent(start, size) \subseteq HeapArea
        /\ \A b \in DOMAIN blocks : Extent(b, blocks[b]) \cap Extent(start, size) = {}
    BY ExtentFacts DEF Unused, HeapArea
  <1>2. start \notin DOMAIN blocks
    BY <1>1, ExtentFacts DEF Apart
  <1> DEFINE new == Put(blocks, start, size)
  <1>3. /\ DOMAIN new = DOMAIN blocks \cup {start} /\ new[start] = size
        /\ \A b \in DOMAIN blocks : new[b] = blocks[b]
    BY <1>2 DEF Put
  <1> HIDE DEF new
  <1>4. Apart(new)
    BY <1>1, <1>3 DEF Apart
  <1> QED
    BY <1>2, <1>4 DEF new

\* A block that is freed leaves the others where they are.
LEMMA UnplaceFacts ==
    ASSUME Apart(heap), NEW block
    PROVE  /\ DOMAIN Without(block) = Blocks \ {block}
           /\ \A b \in Blocks \ {block} : Without(block)[b] = heap[b]
           /\ Apart(Without(block))
  <1>1. /\ DOMAIN Without(block) = Blocks \ {block}
        /\ \A b \in Blocks \ {block} : Without(block)[b] = heap[b]
    BY DropFacts DEF Without, Blocks
  <1>2. Apart(Without(block))
    BY <1>1 DEF Apart, Blocks
  <1> QED
    BY <1>1, <1>2

-----------------------------------------------------------------------------
(* The inductive invariant *)

\* The buffer of a read is part of a block that is the library's own.
ReadInv ==
    /\ reading = {} \/ \E r : reading = {r}
    /\ \A r \in reading :
          /\ build = "explicit" /\ initialized
          /\ r.block \in Blocks \ hostOwned
          /\ r.ptr \in HeapArea /\ r.ptr \in Extent(r.block, heap[r.block])

\* Before og_boxrt_init, no block is shared; only the hooks lose a block.
EarlyInv ==
    /\ ~initialized => early = Blocks /\ hostOwned = {} /\ lost = {} /\ reading = {}
    /\ build = "explicit" => lost = {}

\* A panic leaves a region that is none of the hooks' nor of a running read.
StaleInv ==
    /\ stale \subseteq DOMAIN regions
    /\ build = "auto" \/ ~initialized => stale = {}
    /\ Running => \A r \in reading : r.ptr \notin stale

Agreement ==
    /\ DOMAIN regions = Shared \cup {r.ptr : r \in reading} \cup stale
    /\ \A b \in Shared \ stale : regions[b] = [len |-> heap[b], mutable |-> TRUE]
    /\ \A r \in reading : r.ptr + regions[r.ptr].len <= r.block + heap[r.block]

RegionInv == Running => Agreement

AbortInv == status = "aborted" => early \cup lost \cup stale # {}

\* The elements of a chain are above the heap and below the top of the stack.
ChainInv ==
    \A i \in 1 .. Len(chain) :
        /\ chain[i].kind = "HostAllocation" => chain[i].ptr + chain[i].len <= StackTop
        /\ chain[i].kind = "ForeignStack" => chain[i].bottom <= StackTop

Types ==
    /\ build \in {"auto", "explicit"} /\ access \in AccessConfigs /\ build \in Builds
    /\ initialized \in BOOLEAN
    /\ hostOwned \subseteq Blocks /\ lost \subseteq Blocks /\ early \subseteq Blocks
    /\ DOMAIN regions \subseteq HeapArea /\ \A s \in DOMAIN regions : regions[s] \in Region
    /\ chain \in Seq(ChainElement) /\ Len(chain) <= MaxChain
    /\ status \in {"running", "aborted"}

IInv == Types /\ Apart(heap) /\ ReadInv /\ EarlyInv /\ StaleInv /\ RegionInv /\ AbortInv /\ ChainInv

\* A part of a block that is not the host's is not one of the host's blocks.
LEMMA PartFacts ==
    ASSUME IInv, NEW block \in Blocks \ hostOwned,
           NEW ptr \in HeapArea, ptr \in Extent(block, heap[block])
    PROVE  ptr \notin hostOwned
  <1>1. SUFFICES ASSUME ptr \in hostOwned PROVE FALSE
    OBVIOUS
  <1>2. ptr \in DOMAIN heap /\ heap[ptr] \in Sizes /\ ptr # block
    BY <1>1 DEF IInv, Types, Apart, Blocks
  <1>3. ptr \in Extent(ptr, heap[ptr])
    BY <1>2, ExtentFacts
  <1> QED
    BY <1>2, <1>3 DEF IInv, Apart, Blocks

\* Shared blocks are blocks, and no read fills one.
LEMMA SharedFacts ==
    ASSUME IInv
    PROVE  /\ Shared \subseteq Blocks
           /\ build = "auto" => reading = {}
           /\ build = "auto" /\ ~initialized => Shared = {}
           /\ build = "auto" /\ initialized => Shared = Blocks \ (early \cup lost)
           /\ build = "explicit" => Shared = hostOwned
           /\ \A r \in reading : r.ptr \notin Shared /\ r.ptr \notin hostOwned
  <1>1. Shared \subseteq Blocks
    BY DEF Shared, IInv, Types
  <1>2. \A r \in reading : r.ptr \notin hostOwned
    BY PartFacts DEF IInv, ReadInv
  <1> QED
    BY <1>1, <1>2 DEF Shared, IInv, ReadInv

\* An address that the allocator hands out is in neither map.
LEMMA FreshFacts ==
    ASSUME IInv, NEW start \in HeapArea, NEW size \in Sizes, Unused(heap, start, size)
    PROVE  /\ start \notin Blocks
           /\ \A r \in reading : r.ptr # start
           /\ Running /\ start \notin stale => start \notin DOMAIN regions
  <1>1. start \notin Blocks
    BY PlaceFacts DEF IInv, Blocks
  <1>2. ASSUME NEW r \in reading PROVE r.ptr # start
    <2>1. start \in Extent(start, size)
      BY ExtentFacts
    <2>2. r.block \in DOMAIN heap /\ r.ptr \in Extent(r.block, heap[r.block])
      BY DEF IInv, ReadInv, Blocks
    <2> QED
      BY <2>1, <2>2 DEF Unused
  <1>3. ASSUME Running, start \notin stale PROVE start \notin DOMAIN regions
    BY <1>1, <1>2, <1>3, SharedFacts DEF IInv, RegionInv, Agreement
  <1> QED
    BY <1>1, <1>2, <1>3

\* A region of a block is of its type.
LEMMA RegionType ==
    ASSUME NEW size \in Sizes
    PROVE  [len |-> size, mutable |-> TRUE] \in Region
  BY HeapAssumption DEF Region

-----------------------------------------------------------------------------
(* The steps *)

\* A step that changes nothing, or only the scopes' chain.
LEMMA StutterStep ==
    ASSUME IInv, UNCHANGED vars
    PROVE  IInv'
  BY DEF IInv, vars, Types, Apart, ReadInv, EarlyInv, StaleInv, RegionInv, Agreement, AbortInv,
         ChainInv, Running, Shared, Blocks

\* og_boxrt_init
LEMMA BoxrtInitStep ==
    ASSUME IInv, BoxrtInit
    PROVE  IInv'
  <1> USE DEF IInv, BoxrtInit
  <1>1. reading = {} /\ lost = {} /\ early = Blocks /\ hostOwned = {}
    BY DEF EarlyInv, Types
  <1>2. Blocks' = Blocks /\ Shared = {} /\ Shared' = {}
    BY <1>1 DEF Shared, Blocks
  <1> QED
    BY <1>1, <1>2 DEF Types, Apart, ReadInv, EarlyInv, StaleInv, RegionInv, Agreement, AbortInv,
         ChainInv, Running, Blocks

\* malloc and its like
LEMMA MallocStep ==
    ASSUME IInv, NEW start \in HeapArea, NEW size \in Sizes, Malloc(start, size)
    PROVE  IInv'
  <1> USE DEF IInv
  <1>1. /\ start \notin Blocks /\ \A r \in reading : r.ptr # start
        /\ Running /\ start \notin stale => start \notin DOMAIN regions
    BY FreshFacts DEF Malloc
  <1>2. /\ Blocks' = Blocks \cup {start} /\ heap'[start] = size
        /\ \A b \in Blocks : heap'[b] = heap[b]
    BY <1>1 DEF Malloc, Blocks, Put
  <1>3. Apart(heap')
    BY PlaceFacts DEF Malloc
  <1>4. Running /\ UNCHANGED <<build, access, initialized, hostOwned, reading, chain, lost, stale>>
        /\ early' = IF initialized THEN early ELSE early \cup {start}
    BY DEF Malloc
  <1>5. ReadInv' /\ EarlyInv' /\ ChainInv'
    BY <1>2, <1>4 DEF ReadInv, EarlyInv, ChainInv, Types
  <1>6. CASE Hooked
    <2>1. build = "auto" /\ initialized /\ reading = {} /\ stale = {}
      BY <1>4, <1>6, SharedFacts DEF Hooked, StaleInv
    <2>2. regions' = Insert(regions, start, size, TRUE) /\ status' = status
      BY <1>1, <1>4, <1>6, <2>1 DEF Malloc, Allow
    <2>3. /\ DOMAIN regions' = DOMAIN regions \cup {start}
          /\ regions'[start] = [len |-> size, mutable |-> TRUE]
          /\ \A s \in DOMAIN regions : regions'[s] = regions[s]
      BY <1>1, <1>4, <2>1, <2>2 DEF Insert, Put
    <2>4. Shared' = Shared \cup {start}
      BY <1>1, <1>2, <1>4, <2>1 DEF Shared, Types
    <2>5. Types'
      BY <1>2, <1>4, <2>1, <2>2, <2>3, RegionType DEF Types
    <2>6. RegionInv'
      BY <1>1, <1>2, <1>4, <2>1, <2>3, <2>4, SharedFacts DEF RegionInv, Agreement
    <2>7. StaleInv' /\ AbortInv'
      BY <1>4, <2>1, <2>2 DEF StaleInv, AbortInv, Running
    <2> QED
      BY <1>3, <1>5, <2>5, <2>6, <2>7
  <1>7. CASE ~Hooked
    <2>1. UNCHANGED <<regions, status>>
      BY <1>7 DEF Malloc
    <2>2. Shared' = Shared
      BY <1>2, <1>4, <1>7 DEF Shared, Types, Hooked
    <2>3. Types'
      BY <1>2, <1>4, <2>1 DEF Types
    <2>4. RegionInv'
      BY <1>2, <1>4, <2>1, <2>2, SharedFacts, <1>5 DEF RegionInv, Agreement, Running, ReadInv
    <2>5. StaleInv' /\ AbortInv'
      BY <1>4, <2>1 DEF StaleInv, AbortInv, Running
    <2> QED
      BY <1>3, <1>5, <2>3, <2>4, <2>5
  <1> QED
    BY <1>6, <1>7

\* The runtime's malloc
LEMMA HostMallocStep ==
    ASSUME IInv, NEW start \in HeapArea, NEW size \in Sizes, HostMalloc(start, size)
    PROVE  IInv'
  <1> USE DEF IInv
  <1>1. /\ start \notin Blocks /\ \A r \in reading : r.ptr # start
        /\ Running /\ start \notin stale => start \notin DOMAIN regions
    BY FreshFacts DEF HostMalloc
  <1>2. /\ Blocks' = Blocks \cup {start} /\ heap'[start] = size
        /\ \A b \in Blocks : heap'[b] = heap[b]
    BY <1>1 DEF HostMalloc, Blocks, Put
  <1>3. Apart(heap')
    BY PlaceFacts DEF HostMalloc
  <1>4. /\ Running /\ initialized
        /\ UNCHANGED <<build, access, initialized, reading, chain, early, lost, stale>>
        /\ hostOwned' = hostOwned \cup {start}
        /\ regions' = Insert(regions, start, size, TRUE)
        /\ status' = IF Hooked /\ start \in DOMAIN regions THEN "aborted" ELSE status
    BY DEF HostMalloc
  <1>5. status' = status
    BY <1>1, <1>4 DEF Hooked, StaleInv
  <1>6. ReadInv' /\ EarlyInv' /\ ChainInv'
    <2>1. \A r \in reading : r.block # start
      BY <1>1 DEF ReadInv
    <2> QED
      BY <1>2, <1>4, <2>1 DEF ReadInv, EarlyInv, ChainInv, Types
  <1>7. /\ DOMAIN regions' = DOMAIN regions \cup {start}
        /\ start \notin DOMAIN regions => regions'[start] = [len |-> size, mutable |-> TRUE]
        /\ \A s \in DOMAIN regions : regions'[s] = regions[s]
    BY <1>4 DEF Insert, Put
  <1>8. Shared' = Shared \cup {start}
    BY <1>1, <1>2, <1>4 DEF Shared, Types
  <1>9. Types'
    BY <1>2, <1>4, <1>5, <1>7, RegionType DEF Types
  <1>10. RegionInv'
    BY <1>1, <1>2, <1>4, <1>5, <1>7, <1>8, SharedFacts DEF RegionInv, Agreement, Running, ReadInv
  <1>11. StaleInv' /\ AbortInv'
    BY <1>4, <1>5, <1>7 DEF StaleInv, AbortInv, Running
  <1> QED
    BY <1>3, <1>6, <1>9, <1>10, <1>11

\* A hook that has lost track of a block aborts.
LEMMA RevokeFailsStep ==
    ASSUME IInv, Running, Hooked, NEW block \in Blocks, block \notin DOMAIN regions,
           status' = "aborted",
           UNCHANGED <<build, access, initialized, heap, hostOwned, regions, reading, chain,
                       early, lost, stale>>
    PROVE  IInv'
  <1> USE DEF IInv
  <1>1. build = "auto" /\ initialized /\ reading = {} /\ stale = {}
    BY SharedFacts DEF Hooked, StaleInv
  <1>2. early \cup lost # {}
    BY <1>1, SharedFacts DEF RegionInv, Agreement
  <1>3. Blocks' = Blocks /\ ~Running'
    BY DEF Blocks, Running
  <1> QED
    BY <1>1, <1>2, <1>3
       DEF Types, Apart, ReadInv, EarlyInv, StaleInv, RegionInv, Agreement, AbortInv, ChainInv, Running

\* A shared block is freed, and revoked on both sides.
LEMMA FreeBlockStep ==
    ASSUME IInv, Running, initialized, NEW block \in Shared, FreeBlock(block),
           \A r \in reading : r.block # block,
           UNCHANGED <<build, access, initialized, reading, chain>>
    PROVE  IInv'
  <1> USE DEF IInv
  <1>1. /\ Blocks' = Blocks \ {block}
        /\ \A b \in Blocks \ {block} : heap'[b] = heap[b]
        /\ Apart(heap')
    BY UnplaceFacts DEF FreeBlock, Blocks
  <1>2. hostOwned' = hostOwned \ {block} /\ early' = early \ {block} /\ stale' = stale \ {block}
        /\ UNCHANGED <<lost, status>>
    BY DEF FreeBlock
  <1>3. /\ DOMAIN regions' = DOMAIN regions \ {block}
        /\ \A s \in DOMAIN regions \ {block} : regions'[s] = regions[s]
    BY DEF FreeBlock, Remove, Restrict
  <1>4. Shared' = Shared \ {block} /\ block \notin lost
    BY <1>1, <1>2, SharedFacts DEF Shared, Types, EarlyInv
  <1>5. Types'
    BY <1>1, <1>2, <1>3, <1>4 DEF Types
  <1>6. ReadInv' /\ EarlyInv' /\ ChainInv' /\ StaleInv' /\ AbortInv'
    BY <1>1, <1>2, <1>3 DEF ReadInv, EarlyInv, ChainInv, StaleInv, AbortInv, Running
  <1>7. RegionInv'
    <2> SUFFICES ASSUME Running' PROVE Agreement'
      BY DEF RegionInv, Agreement
    <2>1. Agreement
      BY <1>2 DEF RegionInv, Running
    <2>2. \A r \in reading : r.ptr # block /\ r.block \in Blocks \ {block}
      BY SharedFacts DEF ReadInv
    <2>3. DOMAIN regions' = Shared' \cup {r.ptr : r \in reading'} \cup stale'
      BY <1>2, <1>3, <1>4, <2>1, <2>2 DEF Agreement
    <2>4. \A b \in Shared' \ stale' : regions'[b] = [len |-> heap'[b], mutable |-> TRUE]
      BY <1>1, <1>2, <1>3, <1>4, <2>1, SharedFacts DEF Agreement
    <2>5. \A r \in reading' : r.ptr + regions'[r.ptr].len <= r.block + heap'[r.block]
      BY <1>1, <1>3, <2>1, <2>2 DEF Agreement
    <2> QED
      BY <2>3, <2>4, <2>5 DEF Agreement
  <1> QED
    BY <1>1, <1>5, <1>6, <1>7

\* free
LEMMA FreeStep ==
    ASSUME IInv, NEW block \in Blocks, Free(block)
    PROVE  IInv'
  <1> USE DEF IInv
  <1>1. /\ Running /\ Disposable(block)
        /\ UNCHANGED <<build, access, initialized, reading, chain>>
    BY DEF Free
  <1>2. CASE Hooked /\ block \in DOMAIN regions
    <2>1. block \in Shared /\ initialized
      BY <1>1, <1>2, SharedFacts DEF Hooked, RegionInv, Agreement, StaleInv
    <2> QED
      BY <1>1, <1>2, <2>1, FreeBlockStep DEF Free, Revoke, Disposable
  <1>3. CASE Hooked /\ block \notin DOMAIN regions
    BY <1>1, <1>3, RevokeFailsStep DEF Free, Revoke
  <1>4. CASE ~Hooked
    <2>1. heap' = Without(block) /\ early' = early \ {block}
          /\ UNCHANGED <<hostOwned, regions, lost, stale, status>>
      BY <1>4 DEF Free
    <2>2. /\ Blocks' = Blocks \ {block}
          /\ \A b \in Blocks \ {block} : heap'[b] = heap[b]
          /\ Apart(heap')
      BY <2>1, UnplaceFacts DEF Blocks
    <2>3. block \notin hostOwned /\ lost = {} /\ \A r \in reading : r.block # block
      BY <1>1, <1>4 DEF Disposable, Hooked, EarlyInv, Types
    <2>4. Shared' = Shared
      BY <1>1, <1>4, <2>1, <2>2 DEF Shared, Types, Hooked
    <2>5. Types'
      BY <1>1, <2>1, <2>2, <2>3 DEF Types
    <2>6. ReadInv' /\ EarlyInv' /\ ChainInv' /\ StaleInv' /\ AbortInv'
      BY <1>1, <2>1, <2>2, <2>3 DEF ReadInv, EarlyInv, ChainInv, StaleInv, AbortInv, Running
    <2>7. block \notin Shared
      BY <1>4, <2>3, SharedFacts DEF Types, Hooked
    <2>8. RegionInv'
      BY <1>1, <2>1, <2>2, <2>3, <2>4, <2>7, SharedFacts
         DEF RegionInv, Agreement, Running, ReadInv
    <2> QED
      BY <2>2, <2>5, <2>6, <2>8
  <1> QED
    BY <1>2, <1>3, <1>4

\* The runtime's free
LEMMA HostFreeStep ==
    ASSUME IInv, NEW block \in Blocks, HostFree(block)
    PROVE  IInv'
  <1> USE DEF IInv
  <1>1. /\ Running /\ block \in hostOwned /\ initialized
        /\ UNCHANGED <<build, access, initialized, reading, chain>>
    BY DEF HostFree, EarlyInv
  <1>2. \A r \in reading : r.block # block
    BY <1>1 DEF ReadInv
  <1>3. CASE Hooked /\ block \notin DOMAIN regions
    BY <1>1, <1>3, RevokeFailsStep DEF HostFree, Revoke
  <1>4. CASE Hooked /\ block \in DOMAIN regions
    <2>1. block \in Shared
      BY <1>1, <1>4, SharedFacts DEF Hooked, RegionInv, Agreement, StaleInv
    <2> QED
      BY <1>1, <1>2, <1>4, <2>1, FreeBlockStep DEF HostFree, Revoke
  <1>5. CASE ~Hooked
    <2>1. block \in Shared
      BY <1>1, <1>5, SharedFacts DEF Hooked, Types
    <2> QED
      BY <1>1, <1>2, <1>5, <2>1, FreeBlockStep DEF HostFree
  <1> QED
    BY <1>3, <1>4, <1>5

\* A block that moves, or is resized where it is.
LEMMA MoveFacts ==
    ASSUME Apart(heap), NEW block \in Blocks, NEW start \in HeapArea, NEW size \in Sizes,
           Unused(Without(block), start, size), heap' = Put(Without(block), start, size),
           start = block \/ Unused(heap, start, size)
    PROVE  /\ Apart(heap')
           /\ start \notin Blocks \ {block}
           /\ Blocks' = (Blocks \ {block}) \cup {start}
           /\ heap'[start] = size
           /\ \A b \in Blocks \ {block} : heap'[b] = heap[b]
  <1>1. /\ DOMAIN Without(block) = Blocks \ {block} /\ Apart(Without(block))
        /\ \A b \in Blocks \ {block} : Without(block)[b] = heap[b]
    BY UnplaceFacts
  <1>2. start \notin Blocks \ {block} /\ Apart(heap')
    BY <1>1, PlaceFacts
  <1> QED
    BY <1>1, <1>2 DEF Put, Blocks

\* realloc
LEMMA ReallocStep ==
    ASSUME IInv, NEW block \in Blocks, NEW start \in HeapArea, NEW size \in Sizes,
           Realloc(block, start, size)
    PROVE  IInv'
  <1> USE DEF IInv
  <1>1. /\ Running /\ Disposable(block)
        /\ Unused(Without(block), start, size)
        /\ start = block \/ Unused(heap, start, size)
        /\ UNCHANGED <<build, access, initialized, reading, chain>>
    BY DEF Realloc
  <1>2. CASE Hooked /\ block \notin DOMAIN regions
    BY <1>1, <1>2, RevokeFailsStep DEF Realloc, Revoke
  <1>3. ASSUME heap' = Put(Without(block), start, size)
        PROVE  /\ Apart(heap')
               /\ start \notin Blocks \ {block}
               /\ Blocks' = (Blocks \ {block}) \cup {start}
               /\ heap'[start] = size
               /\ \A b \in Blocks \ {block} : heap'[b] = heap[b]
    BY <1>1, <1>3, MoveFacts
  <1>4. CASE Hooked /\ block \in DOMAIN regions
    <2>1. /\ heap' = Put(Without(block), start, size)
          /\ hostOwned' = hostOwned \ {block}
          /\ Allow(Remove(regions, block), start, size)
          /\ UNCHANGED <<early, lost, stale>>
      BY <1>4 DEF Realloc, Revoke
    <2>2. /\ build = "auto" /\ initialized /\ reading = {} /\ stale = {}
          /\ DOMAIN regions = Shared /\ Shared = Blocks \ (early \cup lost)
      BY <1>1, <1>4, SharedFacts DEF Hooked, RegionInv, Agreement, StaleInv
    <2>3. DOMAIN Remove(regions, block) = DOMAIN regions \ {block}
          /\ start \notin DOMAIN Remove(regions, block)
      BY <1>3, <2>1, <2>2 DEF Remove, Restrict
    <2>4. regions' = Insert(Remove(regions, block), start, size, TRUE) /\ status' = status
      BY <2>1, <2>3 DEF Allow
    <2>5. /\ DOMAIN regions' = (DOMAIN regions \ {block}) \cup {start}
          /\ regions'[start] = [len |-> size, mutable |-> TRUE]
          /\ \A s \in DOMAIN regions \ {block} : regions'[s] = regions[s]
      BY <2>3, <2>4 DEF Insert, Put, Remove, Restrict
    <2>6. block \in Shared /\ start \notin early \cup lost
      BY <1>3, <1>4, <2>1, <2>2 DEF Types
    <2>7. Shared' = (Shared \ {block}) \cup {start}
      BY <1>1, <1>3, <2>1, <2>2, <2>6 DEF Shared
    <2>8. Types'
      BY <1>1, <1>3, <2>1, <2>2, <2>4, <2>5, <2>6, RegionType DEF Types
    <2>9. ReadInv' /\ EarlyInv' /\ ChainInv' /\ StaleInv' /\ AbortInv'
      BY <1>1, <2>1, <2>2, <2>4 DEF ReadInv, EarlyInv, ChainInv, StaleInv, AbortInv, Running
    <2>10. RegionInv'
      <3>1. reading' = {} /\ stale' = {}
        BY <1>1, <2>1, <2>2
      <3>2. DOMAIN regions' = Shared'
        BY <2>2, <2>5, <2>7
      <3>3. \A b \in Shared \ {block} : regions[b] = [len |-> heap[b], mutable |-> TRUE]
        BY <1>1, <2>2 DEF RegionInv, Agreement
      <3>4. \A b \in Shared' : regions'[b] = [len |-> heap'[b], mutable |-> TRUE]
        <4> SUFFICES ASSUME NEW b \in Shared'
                     PROVE  regions'[b] = [len |-> heap'[b], mutable |-> TRUE]
          OBVIOUS
        <4>1. CASE b = start
          BY <1>3, <2>1, <2>5, <4>1
        <4>2. CASE b # start
          <5>1. b \in Shared \ {block} /\ b \in Blocks \ {block}
            BY <2>2, <2>7, <4>2
          <5> QED
            BY <1>3, <2>1, <2>2, <2>5, <3>3, <5>1
        <4> QED
          BY <4>1, <4>2
      <3> QED
        BY <3>1, <3>2, <3>4 DEF RegionInv, Agreement
    <2> QED
      BY <1>3, <2>1, <2>8, <2>9, <2>10
  <1>5. CASE ~Hooked
    <2>1. /\ heap' = Put(Without(block), start, size)
          /\ early' = (early \ {block}) \cup IF initialized THEN {} ELSE {start}
          /\ UNCHANGED <<hostOwned, regions, lost, stale, status>>
      BY <1>5 DEF Realloc
    <2>2. block \notin hostOwned /\ lost = {} /\ \A r \in reading : r.block # block
      BY <1>1, <1>5 DEF Disposable, Hooked, EarlyInv, Types
    <2>3. Shared' = Shared /\ block \notin Shared
      BY <1>1, <1>5, <2>1, <2>2, <1>3, SharedFacts DEF Shared, Types, Hooked
    <2>4. Types'
      BY <1>1, <1>3, <2>1, <2>2 DEF Types
    <2>5. ReadInv' /\ EarlyInv' /\ ChainInv' /\ StaleInv' /\ AbortInv'
      BY <1>1, <1>3, <1>5, <2>1, <2>2
         DEF ReadInv, EarlyInv, ChainInv, StaleInv, AbortInv, Running, Hooked, Types
    <2>6. RegionInv'
      BY <1>1, <1>3, <2>1, <2>2, <2>3, SharedFacts DEF RegionInv, Agreement, Running, ReadInv
    <2> QED
      BY <1>3, <2>1, <2>4, <2>5, <2>6
  <1> QED
    BY <1>2, <1>4, <1>5

\* realloc that returns null
LEMMA ReallocFailsStep ==
    ASSUME IInv, NEW block \in Blocks, ReallocFails(block)
    PROVE  IInv'
  <1> USE DEF IInv
  <1>1. Running /\ UNCHANGED <<build, access, initialized, reading, chain>>
    BY DEF ReallocFails
  <1>2. CASE Hooked /\ block \notin DOMAIN regions
    BY <1>1, <1>2, RevokeFailsStep DEF ReallocFails, Revoke
  <1>3. CASE ~Hooked
    BY <1>3, StutterStep DEF ReallocFails, vars
  <1>4. CASE Hooked /\ block \in DOMAIN regions
    <2>1. /\ regions' = Remove(regions, block) /\ lost' = lost \cup {block}
          /\ UNCHANGED <<heap, hostOwned, early, stale, status>>
      BY <1>4 DEF ReallocFails, Revoke
    <2>2. /\ build = "auto" /\ initialized /\ reading = {} /\ stale = {}
          /\ DOMAIN regions = Shared /\ Shared = Blocks \ (early \cup lost)
      BY <1>1, <1>4, SharedFacts DEF Hooked, RegionInv, Agreement, StaleInv
    <2>3. /\ DOMAIN regions' = DOMAIN regions \ {block}
          /\ \A s \in DOMAIN regions \ {block} : regions'[s] = regions[s]
      BY <2>1 DEF Remove, Restrict
    <2>4. Blocks' = Blocks /\ Shared' = Shared \ {block}
      BY <1>1, <2>1, <2>2 DEF Shared, Blocks
    <2>5. Types' /\ Apart(heap')
      BY <1>1, <2>1, <2>3, <2>4 DEF Types, Apart
    <2>6. ReadInv' /\ EarlyInv' /\ ChainInv' /\ StaleInv' /\ AbortInv'
      BY <1>1, <2>1, <2>2, <2>4 DEF ReadInv, EarlyInv, ChainInv, StaleInv, AbortInv, Running
    <2>7. RegionInv'
      BY <1>1, <2>1, <2>2, <2>3, <2>4 DEF RegionInv, Agreement
    <2> QED
      BY <2>5, <2>6, <2>7
  <1> QED
    BY <1>2, <1>3, <1>4

-----------------------------------------------------------------------------
(* Reads and scopes *)

\* The wrapper allows the buffer.
LEMMA ReadBeginStep ==
    ASSUME IInv, NEW block \in Blocks, NEW ptr \in HeapArea, NEW len \in Sizes,
           ReadBegin(block, ptr, len)
    PROVE  IInv'
  <1> USE DEF IInv
  <1>1. /\ Running /\ initialized /\ build = "explicit" /\ reading = {}
        /\ block \in Blocks \ hostOwned
        /\ len > 0 /\ block <= ptr /\ ptr + len <= block + heap[block]
        /\ reading' = {[block |-> block, ptr |-> ptr]}
        /\ UNCHANGED <<build, access, initialized, heap, hostOwned, chain, early, lost, stale>>
    BY DEF ReadBegin
  <1>2. /\ regions' = Insert(regions, ptr, len, TRUE)
        /\ status' = IF ptr \in DOMAIN regions THEN "aborted" ELSE status
    BY DEF ReadBegin, Allow
  <1>3. ptr \in Extent(block, heap[block])
    <2>1. block \in HeapArea /\ heap[block] \in Sizes
      BY DEF Apart, Blocks
    <2>2. ptr \in Nat /\ block \in Nat /\ heap[block] \in Nat /\ len \in Nat
      BY <2>1, NumberFacts
    <2> QED
      BY <1>1, <2>1, <2>2, ExtentFacts
  <1>4. ptr \notin hostOwned
    BY <1>1, <1>3, PartFacts
  <1>5. Blocks' = Blocks /\ Shared' = Shared /\ Shared = hostOwned
    BY <1>1 DEF Blocks, Shared
  <1>6. /\ DOMAIN regions' = DOMAIN regions \cup {ptr}
        /\ ptr \notin DOMAIN regions => regions'[ptr] = [len |-> len, mutable |-> TRUE]
        /\ \A s \in DOMAIN regions : regions'[s] = regions[s]
    BY <1>2 DEF Insert, Put
  <1>7. ptr \in DOMAIN regions => ptr \in stale
    BY <1>1, <1>4, <1>5 DEF RegionInv, Agreement
  <1>8. Types'
    BY <1>1, <1>2, <1>5, <1>6, RegionType DEF Types
  <1>9. Apart(heap') /\ ReadInv' /\ EarlyInv' /\ ChainInv'
    BY <1>1, <1>3, <1>5 DEF Apart, ReadInv, EarlyInv, ChainInv
  <1>10. AbortInv' /\ StaleInv'
    <2>1. Running' => ptr \notin DOMAIN regions
      BY <1>2 DEF Running
    <2>2. \A q \in reading' : q.ptr = ptr
      BY <1>1
    <2>3. StaleInv'
      BY <1>1, <1>6, <1>7, <2>1, <2>2 DEF StaleInv, Running
    <2> QED
      BY <1>1, <1>2, <1>7, <2>3 DEF AbortInv, Running
  <1>11. RegionInv'
    <2> SUFFICES ASSUME Running' PROVE Agreement'
      BY DEF RegionInv
    <2>1. Running /\ Agreement /\ ptr \notin DOMAIN regions
      BY <1>1, <1>2 DEF RegionInv, Running
    <2> DEFINE r == [block |-> block, ptr |-> ptr]
    <2>2. {q.ptr : q \in reading'} = {ptr} /\ {q.ptr : q \in reading} = {}
      BY <1>1
    <2>3. DOMAIN regions' = Shared' \cup {q.ptr : q \in reading'} \cup stale'
      BY <1>1, <1>5, <1>6, <2>1, <2>2 DEF Agreement
    <2>4. \A b \in Shared' \ stale' : regions'[b] = [len |-> heap'[b], mutable |-> TRUE]
      BY <1>1, <1>5, <1>6, <2>1 DEF Agreement
    <2>5. r.ptr + regions'[r.ptr].len <= r.block + heap'[r.block]
      BY <1>1, <1>6, <2>1
    <2> QED
      BY <1>1, <2>3, <2>4, <2>5 DEF Agreement
  <1> QED
    BY <1>8, <1>9, <1>10, <1>11

\* The wrapper revokes the buffer.
LEMMA ReadEndStep ==
    ASSUME IInv, ReadEnd
    PROVE  IInv'
  <1> USE DEF IInv
  <1>1. PICK r \in reading :
          Revoke(r.ptr, /\ regions' = Remove(regions, r.ptr)
                        /\ UNCHANGED <<heap, hostOwned, early, lost, stale, status>>)
    BY DEF ReadEnd
  <1>2. /\ Running /\ reading = {r} /\ reading' = {} /\ build = "explicit" /\ initialized
        /\ UNCHANGED <<build, access, initialized, chain>>
    BY <1>1 DEF ReadEnd, ReadInv
  <1>3. UNCHANGED <<heap, hostOwned, early, lost, stale>>
    BY <1>1 DEF Revoke
  <1>4. Blocks' = Blocks /\ Shared' = Shared /\ r.ptr \notin Shared /\ r.ptr \notin stale
    BY <1>2, <1>3, SharedFacts DEF Blocks, Shared, StaleInv
  <1>5. Apart(heap') /\ ReadInv' /\ EarlyInv' /\ ChainInv'
    BY <1>2, <1>3, <1>4 DEF Apart, ReadInv, EarlyInv, ChainInv
  <1>6. r.ptr \in DOMAIN regions
    BY <1>2 DEF RegionInv, Agreement
  <1>7. status' = status /\ regions' = Remove(regions, r.ptr)
    BY <1>1, <1>6 DEF Revoke
  <1>8. /\ DOMAIN regions' = DOMAIN regions \ {r.ptr}
        /\ \A s \in DOMAIN regions \ {r.ptr} : regions'[s] = regions[s]
    BY <1>7 DEF Remove, Restrict
  <1>9. Types' /\ StaleInv' /\ AbortInv'
    BY <1>2, <1>3, <1>4, <1>7, <1>8 DEF Types, StaleInv, AbortInv
  <1>10. RegionInv'
    BY <1>2, <1>3, <1>4, <1>7, <1>8 DEF RegionInv, Agreement, Running
  <1> QED
    BY <1>5, <1>9, <1>10

\* The host's callback panics, and the region stays.
LEMMA ReadPanicStep ==
    ASSUME IInv, ReadPanic
    PROVE  IInv'
  <1> USE DEF IInv
  <1>1. /\ Running /\ build = "explicit" /\ initialized /\ reading' = {}
        /\ stale' = stale \cup {r.ptr : r \in reading}
        /\ UNCHANGED <<build, access, initialized, heap, hostOwned, regions, chain, early, lost,
                       status>>
    BY DEF ReadPanic, ReadInv
  <1>2. Blocks' = Blocks /\ Shared' = Shared
    BY <1>1 DEF Blocks, Shared
  <1>3. Agreement /\ stale' \subseteq DOMAIN regions
    BY <1>1 DEF RegionInv, Agreement, StaleInv
  <1>4. StaleInv' /\ Agreement'
    BY <1>1, <1>2, <1>3 DEF StaleInv, Agreement
  <1> QED
    BY <1>1, <1>2, <1>4 DEF Types, Apart, ReadInv, EarlyInv, RegionInv, AbortInv, ChainInv, Running

\* A scope that begins is below the ones around it.
LEMMA EnterStep ==
    ASSUME IInv, NEW element \in ChainElement, Enter(element),
           element.kind = "HostAllocation" => element.ptr + element.len <= StackTop,
           element.kind = "ForeignStack" => element.bottom <= StackTop
    PROVE  IInv'
  <1> USE DEF IInv
  <1>1. /\ chain' = Append(chain, element) /\ Len(chain) < MaxChain
        /\ UNCHANGED <<build, access, initialized, heap, hostOwned, regions, reading, early,
                       lost, stale, status>>
    BY DEF Enter
  <1>2. /\ chain' \in Seq(ChainElement) /\ Len(chain') = Len(chain) + 1 /\ Len(chain) \in Nat
        /\ chain'[Len(chain) + 1] = element
        /\ \A i \in 1 .. Len(chain) : chain'[i] = chain[i]
    BY <1>1 DEF Types
  <1>3. Len(chain') <= MaxChain
    BY <1>1, <1>2, MaxChainAssumption
  <1>4. ChainInv'
    <2>1. \A i \in 1 .. Len(chain') : i \in 1 .. Len(chain) \/ i = Len(chain) + 1
      BY <1>2
    <2> QED
      BY <1>2, <2>1 DEF ChainInv
  <1> QED
    BY <1>1, <1>2, <1>3, <1>4
       DEF Types, Apart, ReadInv, EarlyInv, StaleInv, RegionInv, Agreement, AbortInv, Running,
           Shared, Blocks

\* Nothing the host puts on the foreign stack reaches above its top.
LEMMA StackPointerFacts ==
    ASSUME IInv
    PROVE  StackPointer \in Int /\ StackPointer <= StackTop
  <1>1. CASE chain = <<>>
    BY <1>1, NumberFacts DEF StackPointer
  <1>2. CASE chain # <<>>
    <2>1. /\ chain \in Seq(ChainElement) /\ Len(chain) \in 1 .. Len(chain)
          /\ chain[Len(chain)] \in ChainElement
      BY <1>2 DEF IInv, Types
    <2> DEFINE last == chain[Len(chain)]
    <2>2. \/ /\ last.kind = "HostAllocation"
             /\ last.ptr \in Nat /\ last.len \in Nat /\ last.ptr + last.len <= StackTop
          \/ last.kind = "ForeignStack" /\ last.bottom \in Nat /\ last.bottom <= StackTop
      BY <2>1 DEF IInv, ChainInv, ChainElement, AllocationElement, StackElement, Address
    <2>3. StackPointer = IF last.kind = "HostAllocation" THEN last.ptr ELSE last.bottom
      BY <1>2 DEF StackPointer
    <2> HIDE DEF last
    <2> QED
      BY <2>2, <2>3, NumberFacts
  <1> QED
    BY <1>1, <1>2

\* The scopes of allocations and callbacks
LEMMA ScopeStep ==
    ASSUME IInv,
           \/ \E ptr \in Address, len \in Sizes : EnterAllocation(ptr, len)
           \/ \E bottom \in Address : EnterCallback(bottom)
    PROVE  IInv'
  <1>1. ASSUME NEW ptr \in Address, NEW len \in Sizes, EnterAllocation(ptr, len) PROVE IInv'
    <2> DEFINE element == [kind |-> "HostAllocation", ptr |-> ptr, len |-> len]
    <2>1. element \in ChainElement
      BY HeapAssumption DEF ChainElement, AllocationElement
    <2>2. ptr \in Nat /\ len \in Nat /\ ptr + len <= StackPointer
      BY <1>1, NumberFacts DEF EnterAllocation, Address
    <2>3. ptr + len <= StackTop
      BY <2>2, StackPointerFacts, NumberFacts
    <2> QED
      BY <1>1, <2>1, <2>3, EnterStep DEF EnterAllocation
  <1>2. ASSUME NEW bottom \in Address, EnterCallback(bottom) PROVE IInv'
    <2> DEFINE element == [kind |-> "ForeignStack", bottom |-> bottom]
    <2>1. element \in ChainElement
      BY DEF ChainElement, StackElement
    <2>2. bottom \in Nat /\ bottom <= StackPointer
      BY <1>2, NumberFacts DEF EnterCallback, Address
    <2>3. bottom <= StackTop
      BY <2>2, StackPointerFacts, NumberFacts
    <2> QED
      BY <1>2, <2>1, <2>3, EnterStep DEF EnterCallback
  <1> QED
    BY <1>1, <1>2

\* The innermost scope ends.
LEMMA LeaveScopeStep ==
    ASSUME IInv, LeaveScope
    PROVE  IInv'
  <1> USE DEF IInv
  <1>1. /\ chain # <<>> /\ chain' = SubSeq(chain, 1, Len(chain) - 1)
        /\ UNCHANGED <<build, access, initialized, heap, hostOwned, regions, reading, early,
                       lost, stale, status>>
    BY DEF LeaveScope
  <1>2. /\ chain' \in Seq(ChainElement) /\ Len(chain') = Len(chain) - 1
        /\ Len(chain) \in Nat \ {0}
        /\ \A i \in 1 .. Len(chain) - 1 : chain'[i] = chain[i]
    <2> DEFINE n == Len(chain) - 1
    <2>1. n \in Nat /\ 1 \in Int /\ Len(chain) \in Nat \ {0}
          /\ \A i \in 1 .. n : chain[i] \in ChainElement
      BY <1>1 DEF Types
    <2> HIDE DEF n
    <2>2. /\ SubSeq(chain, 1, n) \in Seq(ChainElement)
          /\ Len(SubSeq(chain, 1, n)) = (IF 1 <= n THEN n - 1 + 1 ELSE 0)
          /\ \A i \in 1 .. n - 1 + 1 : SubSeq(chain, 1, n)[i] = chain[1 + i - 1]
      BY <2>1, SubSeqProperties
    <2>3. /\ SubSeq(chain, 1, n) \in Seq(ChainElement)
          /\ Len(SubSeq(chain, 1, n)) = n
          /\ \A i \in 1 .. n : SubSeq(chain, 1, n)[i] = chain[i]
      BY <2>1, <2>2
    <2> QED
      BY <1>1, <2>1, <2>3 DEF n
  <1>3. Len(chain') <= MaxChain
    BY <1>1, <1>2, MaxChainAssumption DEF Types
  <1>4. ChainInv'
    BY <1>2 DEF ChainInv
  <1> QED
    BY <1>1, <1>2, <1>3, <1>4
       DEF Types, Apart, ReadInv, EarlyInv, StaleInv, RegionInv, Agreement, AbortInv, Running,
           Shared, Blocks

-----------------------------------------------------------------------------
(* The invariant *)

\* A library starts without blocks, and a runtime without regions.
LEMMA InitStep ==
    ASSUME Init
    PROVE  IInv
  <1>1. Blocks = {} /\ DOMAIN regions = {} /\ reading = {} /\ Shared = {}
    BY DEF Init, Blocks, Shared
  <1>2. chain \in Seq(ChainElement) /\ Len(chain) = 0 /\ 0 <= MaxChain
    BY MaxChainAssumption DEF Init
  <1>3. Types
    BY <1>1, <1>2, BuildsAssumption DEF Init, Types
  <1> QED
    BY <1>1, <1>2, <1>3
       DEF Init, IInv, Apart, ReadInv, EarlyInv, StaleInv, RegionInv, Agreement, AbortInv, ChainInv, Blocks

\* Every step keeps the invariant.
LEMMA NextStep ==
    ASSUME IInv, [Next]_vars
    PROVE  IInv'
  <1>1. CASE UNCHANGED vars
    BY <1>1, StutterStep
  <1>2. CASE BoxrtInit
    BY <1>2, BoxrtInitStep
  <1>3. ASSUME NEW start \in HeapArea, NEW size \in Sizes,
               Malloc(start, size) \/ HostMalloc(start, size)
        PROVE  IInv'
    BY <1>3, MallocStep, HostMallocStep
  <1>4. ASSUME NEW block \in Blocks, Free(block) \/ ReallocFails(block) \/ HostFree(block)
        PROVE  IInv'
    BY <1>4, FreeStep, ReallocFailsStep, HostFreeStep
  <1>5. ASSUME NEW block \in Blocks, NEW start \in HeapArea, NEW size \in Sizes,
               Realloc(block, start, size)
        PROVE  IInv'
    BY <1>5, ReallocStep
  <1>6. ASSUME NEW block \in Blocks, NEW ptr \in HeapArea, NEW len \in Sizes,
               ReadBegin(block, ptr, len)
        PROVE  IInv'
    BY <1>6, ReadBeginStep
  <1>7. CASE ReadEnd \/ ReadPanic
    BY <1>7, ReadEndStep, ReadPanicStep
  <1>8. CASE \/ \E ptr \in Address, len \in Sizes : EnterAllocation(ptr, len)
             \/ \E bottom \in Address : EnterCallback(bottom)
    BY <1>8, ScopeStep
  <1>9. CASE LeaveScope
    BY <1>9, LeaveScopeStep
  <1>10. CASE FreeNull \/ Terminated
    BY <1>10, StutterStep DEF FreeNull, Terminated
  <1> QED
    BY <1>1, <1>2, <1>3, <1>4, <1>5, <1>6, <1>7, <1>8, <1>9, <1>10 DEF Next

\* Every reachable state satisfies the invariant, in both builds and whether or
\* not the host's read callback panics (og_boxrt.c, amd64.rs).
THEOREM Invariance == Spec => []IInv
  <1>1. Init => IInv
    BY InitStep
  <1>2. IInv /\ [Next]_vars => IInv'
    BY NextStep
  <1> QED
    BY <1>1, <1>2, PTL DEF Spec

\* No sequence of calls leaves a region or a scope that is not of its type.
THEOREM TypeCorrect == Spec => []TypeOK
  <1>1. ASSUME IInv PROVE TypeOK
    <2>1. Cardinality(reading) <= 1
      <3>1. CASE reading = {}
        BY <3>1, FS_EmptySet
      <3>2. ASSUME NEW r, reading = {r} PROVE Cardinality(reading) <= 1
        <4>1. Cardinality({r}) = 1
          BY FS_Singleton
        <4>2. Cardinality(reading) = 1
          BY <3>2, <4>1
        <4> QED
          BY <4>2
      <3> QED
        BY <1>1, <3>1, <3>2 DEF IInv, ReadInv
    <2> QED
      BY <1>1, <2>1 DEF IInv, Types, Apart, StaleInv, TypeOK, Blocks
  <1> QED
    BY <1>1, Invariance, PTL

\* The allowed regions are the shared blocks, the buffer of a read, and what the
\* panics of read callbacks have left.
THEOREM RegionsAlwaysMatch == Spec => []RegionsMatchHeap
  <1>1. IInv => RegionsMatchHeap
    BY DEF IInv, RegionInv, Agreement, RegionsMatchHeap
  <1>2. Spec => []IInv
    BY Invariance
  <1> QED
    BY <1>1, <1>2, PTL

\* The library aborts only over memory whose region is not what it was left as.
THEOREM AbortsAlwaysExplained == Spec => []AbortsExplained
  <1>1. IInv => AbortsExplained
    BY DEF IInv, AbortInv, AbortsExplained
  <1>2. Spec => []IInv
    BY Invariance
  <1> QED
    BY <1>1, <1>2, PTL

\* With AllowedRegions enabled, the host reaches every shared block and every
\* allocation of the scopes it is in.
THEOREM SharedAlwaysReachable ==
    ASSUME \A a \in AccessConfigs : "allowed" \in a
    PROVE  Spec => []SharedReachable
  <1>1. ASSUME IInv, Running PROVE SharedReachable
    <2>1. ASSUME NEW b \in Shared \ stale
          PROVE  IsValid(access, regions, chain, b, heap[b], TRUE)
      <3>1. b \in DOMAIN regions /\ regions[b] = [len |-> heap[b], mutable |-> TRUE]
        BY <1>1 DEF IInv, RegionInv, Agreement
      <3>2. b \in Nat /\ heap[b] \in Nat
        BY <1>1, SharedFacts, NumberFacts DEF IInv, Apart, Blocks
      <3>3. SaturatingAdd(b, heap[b]) \in Int
        BY <3>2, NumberFacts DEF SaturatingAdd
      <3>4. RegionsValid(regions, b, heap[b], TRUE)
        BY <3>1, <3>2, <3>3 DEF RegionsValid
      <3>5. "allowed" \in access
        BY <1>1 DEF IInv, Types
      <3> QED
        BY <3>4, <3>5 DEF IsValid
    <2>2. ASSUME NEW i \in DOMAIN chain, chain[i].kind = "HostAllocation"
          PROVE  IsValid(access, regions, chain, chain[i].ptr, chain[i].len, TRUE)
      <3>1. chain[i] \in ChainElement /\ i \in 1 .. Len(chain)
        BY <1>1 DEF IInv, Types
      <3>2. chain[i].ptr \in Nat /\ chain[i].len \in Nat
        BY <2>2, <3>1 DEF ChainElement, AllocationElement, StackElement, Address
      <3>3. chain[i].ptr + chain[i].len < AddrLimit
        BY <1>1, <2>2, <3>1, <3>2, NumberFacts DEF IInv, ChainInv
      <3>4. AllocationValid(chain[i], chain[i].ptr, chain[i].len)
        BY <3>2, <3>3 DEF AllocationValid, Fits
      <3> QED
        BY <2>2, <3>4 DEF IsValid, ElementValid
    <2> QED
      BY <2>1, <2>2 DEF SharedReachable
  <1>2. IInv => SharedReachable
    BY <1>1 DEF SharedReachable
  <1>3. Spec => []IInv
    BY Invariance
  <1> QED
    BY <1>2, <1>3, PTL

\* A range that is_valid accepts has no byte of freed memory, unless all of the
\* sandbox or a foreign stack may be accessed, or it is in a region that a panic of
\* a read callback has left; the top of the stack has to be
\* below the last address, at which the additions of is_valid_int saturate.
THEOREM ValidAlwaysLive ==
    ASSUME StackTop < AddrLimit - 1
    PROVE  Spec => []ValidOnlyLive
  <1>1. ASSUME IInv, Running, NEW ptr \in Address, NEW len \in Address \ {0},
               IsValid(access, regions, chain, ptr, len, FALSE)
        PROVE  \/ ptr .. ptr + len - 1 \subseteq LiveBytes
               \/ "all" \in access /\ InBox(ptr, len)
               \/ "stack" \in access /\ TouchesStack(ptr, len)
               \/ "allowed" \in access /\ RegionsValid(Restrict(regions, stale), ptr, len, FALSE)
    <2>1. ptr \in Nat /\ len \in Nat /\ len > 0
      BY NumberFacts DEF Address
    <2>2. CASE "all" \in access /\ InBox(ptr, len)
      BY <2>2
    <2>3. ASSUME NEW i \in DOMAIN chain, chain[i].kind = "HostAllocation",
                 AllocationValid(chain[i], ptr, len)
          PROVE  ptr .. ptr + len - 1 \subseteq LiveBytes
      <3> DEFINE from == chain[i].ptr
                 size == chain[i].len
      <3>1. chain[i] \in ChainElement
        BY <1>1 DEF IInv, Types
      <3>2. from \in Nat /\ size \in Nat
        BY <2>3, <3>1 DEF ChainElement, AllocationElement, StackElement, Address
      <3>3. from <= ptr /\ ptr + len <= from + size
        BY <2>3 DEF AllocationValid
      <3>4. from .. from + size - 1 \subseteq LiveBytes
        BY <2>3 DEF LiveBytes, AllocationBytes
      <3> HIDE DEF from, size
      <3>5. ptr .. ptr + len - 1 \subseteq from .. from + size - 1
        BY <2>1, <3>2, <3>3
      <3> QED
        BY <3>4, <3>5
    <2>4. ASSUME NEW i \in DOMAIN chain, chain[i].kind = "ForeignStack", "stack" \in access,
                 StackValid(chain[i].bottom, ptr, len)
          PROVE  TouchesStack(ptr, len)
      BY <2>4 DEF TouchesStack
    <2>5. ASSUME RegionsValid(regions, ptr, len, FALSE)
          PROVE  \/ ptr .. ptr + len - 1 \subseteq LiveBytes
                 \/ RegionsValid(Restrict(regions, stale), ptr, len, FALSE)
      <3>1. PICK start \in DOMAIN regions :
              /\ start <= ptr
              /\ SaturatingAdd(start, regions[start].len) >= SaturatingAdd(ptr, len)
        BY <2>1, <2>5 DEF RegionsValid
      <3>0. CASE start \in stale
        <4>1. start \in DOMAIN Restrict(regions, stale)
              /\ Restrict(regions, stale)[start] = regions[start]
          BY <3>0 DEF Restrict
        <4> QED
          BY <3>1, <4>1 DEF RegionsValid
      <3> SUFFICES ASSUME start \notin stale PROVE ptr .. ptr + len - 1 \subseteq LiveBytes
        BY <3>0
      <3>2. start \in Nat /\ regions[start].len \in Nat
        <4>1. start \in HeapArea /\ regions[start] \in Region
          BY <1>1 DEF IInv, Types
        <4>2. regions[start].len \in Address
          BY <4>1 DEF Region
        <4> QED
          BY <4>1, <4>2, NumberFacts DEF Address
      <3>3. \E b \in Blocks : b <= start /\ start + regions[start].len <= b + heap[b]
        <4>1. CASE start \in Shared
          BY <1>1, <3>2, <4>1, SharedFacts
             DEF IInv, RegionInv, Agreement
        <4>2. ASSUME NEW r \in reading, start = r.ptr
              PROVE  \E b \in Blocks : b <= start /\ start + regions[start].len <= b + heap[b]
          <5>1. r.block \in Blocks /\ start \in Extent(r.block, heap[r.block])
            BY <1>1, <4>2 DEF IInv, ReadInv
          <5>2. r.block <= start
            BY <5>1 DEF Extent
          <5> QED
            BY <1>1, <4>2, <5>1, <5>2 DEF IInv, RegionInv, Agreement
        <4> QED
          BY <1>1, <4>1, <4>2 DEF IInv, RegionInv, Agreement
      <3>4. PICK b \in Blocks : b <= start /\ start + regions[start].len <= b + heap[b]
        BY <3>3
      <3> DEFINE size == heap[b]
      <3>5. b \in Nat /\ size \in Nat /\ b + size <= HeapMax + 1
        BY <1>1, ExtentFacts, NumberFacts DEF IInv, Apart, Blocks
      <3>6. b .. b + size - 1 \subseteq LiveBytes
        BY DEF LiveBytes, BlockBytes
      <3> HIDE DEF size
      <3> DEFINE end == start + regions[start].len
      <3>7. end \in Nat /\ end <= b + size /\ end < AddrLimit - 1
            /\ SaturatingAdd(start, regions[start].len) = end
        <4>1. end \in Nat /\ end <= b + size
          BY <3>2, <3>4 DEF size
        <4>2. end < AddrLimit - 1
          BY <3>5, <4>1, NumberFacts
        <4> QED
          BY <4>1, <4>2, NumberFacts DEF SaturatingAdd, Fits
      <3> HIDE DEF end
      <3>8. ptr + len <= end
        BY <2>1, <3>1, <3>7, NumberFacts DEF SaturatingAdd, Fits
      <3>9. b <= ptr /\ ptr + len <= b + size
        BY <2>1, <3>1, <3>2, <3>4, <3>5, <3>7, <3>8
      <3>10. ptr .. ptr + len - 1 \subseteq b .. b + size - 1
        BY <2>1, <3>5, <3>9
      <3> QED
        BY <3>6, <3>10
    <2> QED
      BY <1>1, <2>2, <2>3, <2>4, <2>5 DEF IsValid, ElementValid
  <1>2. IInv => ValidOnlyLive
    BY <1>1 DEF ValidOnlyLive
  <1>3. Spec => []IInv
    BY Invariance
  <1> QED
    BY <1>2, <1>3, PTL

-----------------------------------------------------------------------------
(* What a valid range is good for *)

\* A range that is_valid_mut accepts, is_valid accepts: the host may read what
\* it may write (as_immut of a mutable slice).
THEOREM MutableIsReadable ==
    ASSUME NEW acc, NEW map, NEW elems, NEW ptr \in Address, NEW len \in Address,
           IsValid(acc, map, elems, ptr, len, TRUE)
    PROVE  IsValid(acc, map, elems, ptr, len, FALSE)
  BY DEF IsValid, RegionsValid

\* A part of a valid range is valid, whatever is allowed and in the chain, so
\* that the host may split what it has checked.  Not so where the stack may be
\* accessed: its two ends are compared with one end of the range each, and a
\* part of the range may have none of them inside.
THEOREM PartIsValid ==
    ASSUME NEW acc, "stack" \notin acc,
           NEW map, DOMAIN map \subseteq Address, \A k \in DOMAIN map : map[k] \in Region,
           NEW elems \in Seq(ChainElement), NEW mutable \in BOOLEAN,
           NEW ptr \in Address, NEW len \in Address, IsValid(acc, map, elems, ptr, len, mutable),
           NEW p \in Address, NEW n \in Address, ptr <= p, p + n <= ptr + len
    PROVE  IsValid(acc, map, elems, p, n, mutable)
  <1> USE ChainAddressAssumption DEF Address
  <1>1. ASSUME "all" \in acc, InBox(ptr, len) PROVE InBox(p, n)
    BY <1>1 DEF InBox, Fits
  <1>2. ASSUME NEW i \in DOMAIN elems, ElementValid(acc, elems[i], ptr, len)
        PROVE  ElementValid(acc, elems[i], p, n)
    <2>1. elems[i] \in ChainElement
      BY ElementOfSeq
    <2>2. elems[i].kind = "HostAllocation" /\ AllocationValid(elems[i], ptr, len)
      BY <1>2 DEF ElementValid
    <2>3. elems[i].ptr \in Nat /\ elems[i].len \in Nat
      BY <2>1, <2>2 DEF ChainElement, AllocationElement, StackElement
    <2>4. AllocationValid(elems[i], p, n)
      BY <2>2, <2>3 DEF AllocationValid, Fits
    <2> QED
      BY <2>2, <2>4 DEF ElementValid
  <1>3. ASSUME RegionsValid(map, ptr, len, mutable), n # 0 PROVE RegionsValid(map, p, n, mutable)
    <2>1. len # 0
      BY <1>3
    <2>2. PICK start \in DOMAIN map :
              /\ mutable => map[start].mutable
              /\ start <= ptr
              /\ SaturatingAdd(start, map[start].len) >= SaturatingAdd(ptr, len)
      BY <1>3, <2>1 DEF RegionsValid
    <2>3. start \in Nat /\ map[start].len \in Nat
      BY DEF Region
    <2>4. SaturatingAdd(start, map[start].len) >= SaturatingAdd(p, n) /\ start <= p
      BY <2>2, <2>3 DEF SaturatingAdd, Fits
    <2> QED
      BY <2>2, <2>4 DEF RegionsValid
  <1>4. n = 0 => RegionsValid(map, p, n, mutable)
    BY DEF RegionsValid
  <1> QED
    BY <1>1, <1>2, <1>3, <1>4 DEF IsValid

=============================================================================
