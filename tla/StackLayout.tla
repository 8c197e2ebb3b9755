---------------------------- MODULE StackLayout ----------------------------
(***************************************************************************)
(* The arithmetic on the foreign stack pointer: what                       *)
(* allocate_stacked_untracked_mut and the invoke assembly compute before   *)
(* they write a new stack pointer to LFIRegs.rsp (amd64.rs).               *)
(*                                                                         *)
(* Addresses are u64 values.  Nothing here reaches 2^64 from below: both   *)
(* callers only ever subtract, so the width of an address shows in one     *)
(* place, the signed comparison that ends the overflow check of invoke.    *)
(***************************************************************************)
EXTENDS Integers

CONSTANTS
    StackAlign,     \* the boundary "and r11, -16" aligns to: 16
    AddrLimit       \* 2^64, the first number that is not an address

ASSUME StackAlignAssumption == StackAlign \in Nat \ {0}

\* Half of it is the first address that is negative as an i64.
ASSUME AddrLimitAssumption == AddrLimit \in Nat \ {0}

Address == 0 .. AddrLimit - 1

\* u64::saturating_sub
SaturatingSub(a, b) == IF a >= b THEN a - b ELSE 0

-----------------------------------------------------------------------------
(* allocate_stacked_untracked_mut                                          *)

\* Mutant: the alignment adjustment has the wrong sign.
AllocPointerRaised(fsp, layout) ==
    SaturatingSub(fsp, layout.size) + (fsp % layout.align)

\* Mutant: the alignment adjustment is left out.
AllocPointerUnadjusted(fsp, layout) == SaturatingSub(fsp, layout.size)

\* The pointer handed out for a layout: below the requested size, and lowered
\* again by what the ORIGINAL stack pointer misses of the alignment.
AllocPointer(fsp, layout) ==
    SaturatingSub(SaturatingSub(fsp, layout.size), fsp % layout.align)

\* Mutant: the pointer is checked before it is moved.
AllocFitsBefore(fsp, layout, boxMin) == fsp >= boxMin

\* Otherwise the call returns AllocNoMem and writes nothing.
AllocFits(fsp, layout, boxMin) == AllocPointer(fsp, layout) >= boxMin

-----------------------------------------------------------------------------
(* invoke                                                                  *)

AlignDown(a) == a - (a % StackAlign)

\* An address as the signed operand "jge" compares.
Signed(a) == IF 2 * a < AddrLimit THEN a ELSE a - AddrLimit

\* Where the spilled arguments are copied to, if "sub" does not borrow.
SpillPointer(fsp, spill) == AlignDown(fsp - spill)

SpillFits(fsp, spill, boxMin) ==
    /\ fsp >= spill
    /\ Signed(SpillPointer(fsp, spill)) >= Signed(boxMin)

=============================================================================
