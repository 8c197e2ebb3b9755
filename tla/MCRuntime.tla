----------------------------- MODULE MCRuntime -----------------------------
(* Instances of Runtime for TLC. *)
EXTENDS Runtime

\* Sizes that are multiples of the alignment, as those of Rust types are, and one
\* that is not.
MCLayouts == {[size |-> 2, align |-> 2], [size |-> 1, align |-> 1], [size |-> 1, align |-> 2]}

MCSpills == {0, 3}

=============================================================================
