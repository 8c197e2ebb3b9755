---------------------------- MODULE SandboxPool ----------------------------
(***************************************************************************)
(* What the table of LFI engines promises: sandboxes are packed into       *)
(* engines of SandboxesPerEngine slots each, no engine is overbooked, and  *)
(* another one is made only when all of them are full.                     *)
(***************************************************************************)
EXTENDS Naturals, Sequences

CONSTANT
    SandboxesPerEngine      \* LFI_SANDBOXES_PER_ENGINE

VARIABLE
    used                    \* how many slots of each engine are taken

Init == used = <<>>

TakeSlot(e) ==
    /\ used[e] < SandboxesPerEngine
    /\ used' = [used EXCEPT ![e] = @ + 1]

AddEngine ==
    /\ \A e \in DOMAIN used : used[e] = SandboxesPerEngine
    /\ used' = Append(used, 0)

Next == AddEngine \/ \E e \in DOMAIN used : TakeSlot(e)

Spec == Init /\ [][Next]_used

=============================================================================
