---------------------------- MODULE NestedCalls ----------------------------
(***************************************************************************)
(* What a runtime promises the host program about control flow: a call     *)
(* into the foreign library, and a callback out of it, behave like         *)
(* ordinary nested Rust calls.  In particular a panic pops the calls it    *)
(* meets one after the other, foreign code included, with its payload      *)
(* unchanged, and no code of those calls runs meanwhile ("This way we      *)
(* prevent user-code from running again", lfi_callback_handler).           *)
(*                                                                         *)
(* crashed stands for undefined behaviour, about which nothing is said;    *)
(* only running code can reach it, never a panic under way.                *)
(***************************************************************************)
EXTENDS SequencesExt

CONSTANTS
    Kinds,          \* the kinds of calls
    Payloads,       \* panic payloads
    NoPanic         \* the absence of one

VARIABLES calls, status, payload

callVars == <<calls, status, payload>>

Init == calls = <<>> /\ status = "running" /\ payload = NoPanic

Call(kind) ==
    /\ status = "running"
    /\ calls' = Append(calls, kind)
    /\ UNCHANGED <<status, payload>>

Return ==
    /\ status = "running" /\ calls # <<>>
    /\ calls' = Front(calls)
    /\ UNCHANGED <<status, payload>>

Raise(p) ==
    /\ status = "running"
    /\ status' = "panicking" /\ payload' = p
    /\ UNCHANGED calls

Propagate ==
    /\ status = "panicking" /\ calls # <<>>
    /\ calls' = Front(calls)
    /\ UNCHANGED <<status, payload>>

Catch ==
    /\ status = "panicking"
    /\ status' = "running" /\ payload' = NoPanic
    /\ UNCHANGED calls

Crash ==
    /\ status = "running"
    /\ status' = "crashed"
    /\ UNCHANGED <<calls, payload>>

Next ==
    \/ \E kind \in Kinds : Call(kind)
    \/ Return
    \/ \E p \in Payloads : Raise(p)
    \/ Propagate \/ Catch \/ Crash

Spec == Init /\ [][Next]_callVars

=============================================================================
