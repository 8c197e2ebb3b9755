----------------------------- MODULE MCBoxHeap -----------------------------
(* Instances of BoxHeap for TLC. *)
EXTENDS BoxHeap

\* ALL_MEMORY_ACCESSIBLE, STACK_OR_REQUIRE_ALLOW_REVOKE, REQUIRE_ALLOW_REVOKE
MCAccessConfigs == {{"all", "stack", "allowed"}, {"stack", "allowed"}, {"allowed"}}

=============================================================================
