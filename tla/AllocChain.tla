----------------------------- MODULE AllocChain -----------------------------
(***************************************************************************)
(* Which foreign memory the host may access: AllowedRegions, the elements  *)
(* of an AllocChain, and is_valid_int (common.rs).                         *)
(*                                                                         *)
(* Pointers and lengths are usize values.  A chain is the sequence of the  *)
(* elements its iterator visits, without Base and the Cons elements that   *)
(* nothing makes; regions is the map of AllowedRegions.                    *)
(***************************************************************************)
EXTENDS Integers, Sequences, Functions

CONSTANTS
    AddrLimit,      \* 2^64
    BoxMin, BoxMax, \* box_min_addr, box_max_addr
    StackTop        \* foreign_stack_top

ASSUME ChainAddressAssumption ==
    /\ AddrLimit \in Nat \ {0}
    /\ BoxMin \in 0 .. AddrLimit - 1 /\ BoxMax \in 0 .. AddrLimit - 1
    /\ StackTop \in BoxMin .. BoxMax

Address == 0 .. AddrLimit - 1

\* usize::checked_add, as the condition that it is not None; saturating_add
Fits(a, b) == a + b < AddrLimit
SaturatingAdd(a, b) == IF Fits(a, b) THEN a + b ELSE AddrLimit - 1

-----------------------------------------------------------------------------
(* AllowedRegions *)

Region == [len : Address, mutable : BOOLEAN]

\* A map with one key more; a key it has keeps its value.
Put(map, key, value) ==
    [k \in DOMAIN map \cup {key} |-> IF k \in DOMAIN map THEN map[k] ELSE value]

\* insert: the first region of a start address stays.
Insert(regions, start, len, mutable) ==
    Put(regions, start, [len |-> len, mutable |-> mutable])

\* remove
Remove(regions, start) == Restrict(regions, DOMAIN regions \ {start})

RegionsValid(regions, ptr, len, mutable) ==
    \/ len = 0
    \/ \E start \in DOMAIN regions :
          /\ mutable => regions[start].mutable
          /\ start <= ptr
          /\ SaturatingAdd(start, regions[start].len) >= SaturatingAdd(ptr, len)

-----------------------------------------------------------------------------
(* AllocChain *)

\* HostAllocation; the allocations the runtime makes are all mutable.
AllocationElement == [kind : {"HostAllocation"}, ptr : Address, len : Address]
StackElement == [kind : {"ForeignStack"}, bottom : Address]
ChainElement == AllocationElement \cup StackElement

AllocationValid(alloc, ptr, len) ==
    ptr >= alloc.ptr /\ Fits(ptr, len) /\ ptr + len <= alloc.ptr + alloc.len

\* Only one end of the range is compared with each end of the stack.
StackValid(bottom, ptr, len) ==
    ptr <= StackTop /\ Fits(ptr, len) /\ ptr + len > bottom

InBox(ptr, len) == ptr >= BoxMin /\ Fits(ptr, len) /\ ptr + len <= BoxMax

\* access is an OGLFIMemoryAccessConfig, as the set of its enable_ flags.
ElementValid(access, element, ptr, len) ==
    \/ element.kind = "HostAllocation" /\ AllocationValid(element, ptr, len)
    \/ element.kind = "ForeignStack" /\ "stack" \in access
       /\ StackValid(element.bottom, ptr, len)

\* Mutant: the iterator stops at the innermost element.
IsValidInnermost(access, regions, chain, ptr, len, mutable) ==
    \/ "all" \in access /\ InBox(ptr, len)
    \/ IF chain = <<>> THEN "allowed" \in access /\ RegionsValid(regions, ptr, len, mutable)
       ELSE ElementValid(access, chain[Len(chain)], ptr, len)

\* is_valid and is_valid_mut: some element of the chain has the range.
IsValid(access, regions, chain, ptr, len, mutable) ==
    \/ "all" \in access /\ InBox(ptr, len)
    \/ \E i \in DOMAIN chain : ElementValid(access, chain[i], ptr, len)
    \/ "allowed" \in access /\ RegionsValid(regions, ptr, len, mutable)

=============================================================================
