------------------------------ MODULE Runtime ------------------------------
(***************************************************************************)
(* One OGLFISysVAMD64Runtime (amd64.rs), which is !Sync and so used by one *)
(* thread: the calls a host program nests on it (allocate_stacked_mut,     *)
(* setup_callback, execute with its invoke), the callbacks by which the    *)
(* foreign library calls back into the host, and a panic on its way        *)
(* through all of them.                                                    *)
(*                                                                         *)
(* The thread's stack of unfinished calls is the variable frames; the rest *)
(* of the state is the fields of the runtime and of LFI's context that     *)
(* these calls read and write.  An element of the AllocChain lives in the  *)
(* frame of the call that made it, so the model names it by the index of   *)
(* that frame, and AllocChain::Base by 0.  An index above Len(frames) is a *)
(* dangling pointer.                                                       *)
(***************************************************************************)
EXTENDS StackLayout, SequencesExt

CONSTANTS
    BoxMin,         \* box_min_addr
    StackTop,       \* foreign_stack_top, LFIRegs.rsp when the runtime is made
    Layouts,        \* the layouts the host asks for: [size, align]
    Spills,         \* the STACK_SPILL values of the functions it invokes
    Slots,          \* LFI's callback slots
    StaticSlots,    \* those held by og_boxrt_callback_allow and _revoke
    Payloads,       \* panic payloads
    NoPanic,        \* Option::None where a payload could be
    Inconsistent,   \* the payload of execute's own cross-check panic
    CatchIn,        \* where user code catches panics: "top", or the kind of
                    \*   call whose closure does ("alloc", "setup", "callback")
    MaxFrames       \* bound on the depth of the calls

ASSUME BoxAssumption ==
    /\ BoxMin \in Address /\ StackTop \in Address
    /\ 0 < BoxMin /\ BoxMin <= StackTop
    /\ 2 * StackTop < AddrLimit         \* a user-space address
ASSUME LayoutsAssumption == Layouts \subseteq [size : Nat, align : Nat \ {0}]
ASSUME SpillsAssumption == Spills \subseteq Nat
ASSUME SlotsAssumption == StaticSlots \subseteq Slots
ASSUME PayloadsAssumption ==
    /\ NoPanic \notin Payloads
    /\ Inconsistent \notin Payloads \cup {NoPanic}
ASSUME CatchInAssumption == CatchIn \subseteq {"top", "alloc", "setup", "callback"}
ASSUME MaxFramesAssumption == MaxFrames \in Nat

VARIABLES
    frames,         \* the unfinished calls, innermost last
    mode,           \* which code runs: see Mode
    rsp,            \* LFIRegs.rsp
    registered,     \* the slots lfi_box_register_cb_struct has handed out
    chainHead,      \* callback_alloc_chain_head
    cpo,            \* callback_panic_object
    panic,          \* the payload that is unwinding the host stack
    regsPtr,        \* invoke_lfi_regs_ptr is not null
    invokeInfo      \* the execute frame lfi_invoke_info was filled in by

vars == <<frames, mode, rsp, registered, chainHead, cpo, panic, regsPtr, invokeInfo>>

(***************************************************************************)
(* Frames.  saved is the value of LFIRegs.rsp that the call puts back when *)
(* it returns, sp the one it runs its closure or the sandbox with; scope   *)
(* is the AllocChain element its closure gets an AllocScope for.  pred is  *)
(* the predecessor of the element the call itself adds.                    *)
(***************************************************************************)
StackAddress == BoxMin .. StackTop
Element == 0 .. MaxFrames

AllocFrame ==
    [kind : {"alloc"}, saved : StackAddress, sp : StackAddress,
     scope : Element, pred : Element, len : Nat, align : Nat \ {0}]
SetupFrame ==
    [kind : {"setup"}, saved : StackAddress, sp : StackAddress,
     scope : Element, slot : Slots]
ExecuteFrame ==     \* aborted: lfi_ctx_abort_status for its trampoline
    [kind : {"execute"}, saved : StackAddress, sp : StackAddress,
     scope : Element, res : {"NotCalled", "NoError", "StackOverflow"},
     aborted : BOOLEAN]
CallbackFrame ==
    [kind : {"callback"}, saved : StackAddress, sp : StackAddress,
     scope : Element, pred : Element, slot : Slots]
Frame == AllocFrame \cup SetupFrame \cup ExecuteFrame \cup CallbackFrame

Mode == {
    "host",         \* user code, or the body of a static callback
    "invoking",     \* the closure of an execute, about to call invoke
    "sandbox",      \* foreign code
    "aborting",     \* LFI leaving the sandbox after lfi_ctx_abort_callback
    "exiting",      \* execute after its closure returned
    "unwinding",    \* a panic is popping host frames
    "exited",       \* a panic nothing caught ended the thread
    "aborted",      \* std::process::abort()
    "undefined" }   \* behaviour the language leaves undefined

Terminal == {"exited", "aborted", "undefined"}

Top == Last(frames)
TopKind == IF frames = <<>> THEN "top" ELSE Top.kind
Scope == IF frames = <<>> THEN 0 ELSE Top.scope
Depth == Len(frames)

\* The closure of a static callback is the runtime's own and does not call
\* back into the runtime; its effect on the allowed regions is in AllocChain.
InStaticCallback == TopKind = "callback" /\ Top.slot \in StaticSlots
UserCode == mode = "host" /\ ~InStaticCallback

\* The slots whose handler object (BareFnMut) is alive.
LiveHandlers ==
    StaticSlots \cup {frames[i].slot : i \in {j \in DOMAIN frames : frames[j].kind = "setup"}}

-----------------------------------------------------------------------------
(* State after from_lfi_lib_bytes: the static callbacks are registered and *)
(* og_boxrt_init has been run like any other foreign function.             *)
Init ==
    /\ frames = <<>>
    /\ mode = "host"
    /\ rsp = StackTop
    /\ registered = StaticSlots
    /\ chainHead = 0
    /\ cpo = NoPanic
    /\ panic = NoPanic
    /\ regsPtr = FALSE
    /\ invokeInfo = 0

-----------------------------------------------------------------------------
(* allocate_stacked_mut *)

\* Mutant: the new element is chained to the last execute's head, not to the
\* scope the caller passed.
AllocateStackedOnHead(layout) ==
    /\ UserCode /\ Depth < MaxFrames
    /\ AllocFits(rsp, layout, BoxMin)
    /\ rsp' = AllocPointer(rsp, layout)
    /\ frames' = Append(frames,
         [kind |-> "alloc", saved |-> rsp, sp |-> rsp', scope |-> Depth + 1,
          pred |-> IF chainHead <= Depth THEN chainHead ELSE 0,
          len |-> layout.size, align |-> layout.align])
    /\ UNCHANGED <<mode, registered, chainHead, cpo, panic, regsPtr, invokeInfo>>

AllocateStacked(layout) ==
    /\ UserCode /\ Depth < MaxFrames
    /\ AllocFits(rsp, layout, BoxMin)
    /\ rsp' = AllocPointer(rsp, layout)
    /\ frames' = Append(frames,
         [kind |-> "alloc", saved |-> rsp, sp |-> rsp', scope |-> Depth + 1,
          pred |-> Scope, len |-> layout.size, align |-> layout.align])
    /\ UNCHANGED <<mode, registered, chainHead, cpo, panic, regsPtr, invokeInfo>>

\* Err(OGError::AllocNoMem), before LFIRegs is written.
AllocNoMem(layout) ==
    /\ UserCode
    /\ ~AllocFits(rsp, layout, BoxMin)
    /\ UNCHANGED vars

AllocateReturn ==
    /\ UserCode /\ TopKind = "alloc"
    /\ rsp' = Top.saved
    /\ frames' = Front(frames)
    /\ UNCHANGED <<mode, registered, chainHead, cpo, panic, regsPtr, invokeInfo>>

\* The closure's panic leaves the function before the stack pointer is restored.
AllocateUnwind ==
    /\ mode = "unwinding" /\ TopKind = "alloc"
    /\ frames' = Front(frames)
    /\ UNCHANGED <<mode, rsp, registered, chainHead, cpo, panic, regsPtr, invokeInfo>>

-----------------------------------------------------------------------------
(* setup_callback *)

\* Mutant: a slot in use is handed out again.
SetupCallbackReusing(slot) ==
    /\ UserCode /\ Depth < MaxFrames
    /\ registered' = registered \cup {slot}
    /\ frames' = Append(frames,
         [kind |-> "setup", saved |-> rsp, sp |-> rsp, scope |-> Scope, slot |-> slot])
    /\ UNCHANGED <<mode, rsp, chainHead, cpo, panic, regsPtr, invokeInfo>>

SetupCallback(slot) ==
    /\ UserCode /\ Depth < MaxFrames
    /\ slot \in Slots \ registered
    /\ registered' = registered \cup {slot}
    /\ frames' = Append(frames,
         [kind |-> "setup", saved |-> rsp, sp |-> rsp, scope |-> Scope, slot |-> slot])
    /\ UNCHANGED <<mode, rsp, chainHead, cpo, panic, regsPtr, invokeInfo>>

\* Err(OGError::SetupCallbackInsufficientSlots)
SetupInsufficientSlots ==
    /\ UserCode
    /\ registered = Slots
    /\ UNCHANGED vars

\* Mutant: the handler is dropped and stays registered.
SetupReturnRegistered ==
    /\ UserCode /\ TopKind = "setup"
    /\ frames' = Front(frames)
    /\ UNCHANGED <<mode, rsp, registered, chainHead, cpo, panic, regsPtr, invokeInfo>>

\* lfi_box_unregister_cb, then drop(lfi_callback_handler)
SetupReturn ==
    /\ UserCode /\ TopKind = "setup"
    /\ registered' = registered \ {Top.slot}
    /\ frames' = Front(frames)
    /\ UNCHANGED <<mode, rsp, chainHead, cpo, panic, regsPtr, invokeInfo>>

\* Unwinding drops the handler, but lfi_box_unregister_cb is not reached.
SetupUnwind ==
    /\ mode = "unwinding" /\ TopKind = "setup"
    /\ frames' = Front(frames)
    /\ UNCHANGED <<mode, rsp, registered, chainHead, cpo, panic, regsPtr, invokeInfo>>

-----------------------------------------------------------------------------
(* execute, and the invoke assembly its closure calls                      *)

\* Mutant: the chain head is set by the first execute only.
ExecuteKeepsHead ==
    /\ UserCode /\ Depth < MaxFrames
    /\ mode' = "invoking"
    /\ invokeInfo' = Depth + 1
    /\ regsPtr' = TRUE
    /\ chainHead' = IF chainHead = 0 THEN Scope ELSE chainHead
    /\ frames' = Append(frames,
         [kind |-> "execute", saved |-> rsp, sp |-> rsp, scope |-> Scope,
          res |-> "NotCalled", aborted |-> FALSE])
    /\ UNCHANGED <<rsp, registered, cpo, panic>>

Execute ==
    /\ UserCode /\ Depth < MaxFrames
    /\ mode' = "invoking"
    /\ invokeInfo' = Depth + 1
    /\ regsPtr' = TRUE
    /\ chainHead' = Scope
    /\ frames' = Append(frames,
         [kind |-> "execute", saved |-> rsp, sp |-> rsp, scope |-> Scope,
          res |-> "NotCalled", aborted |-> FALSE])
    /\ UNCHANGED <<rsp, registered, cpo, panic>>

\* From "push" to "call lfi_trampoline".  LFIRegs is reached through
\* invoke_lfi_regs_ptr and the target through lfi_invoke_info.
Invoke(spill) ==
    /\ mode = "invoking"
    /\ SpillFits(rsp, spill, BoxMin)
    /\ rsp' = SpillPointer(rsp, spill)
    /\ frames' = [frames EXCEPT ![Depth] = [@ EXCEPT !.saved = rsp, !.sp = rsp']]
    /\ mode' = IF regsPtr /\ invokeInfo = Depth THEN "sandbox" ELSE "undefined"
    /\ UNCHANGED <<registered, chainHead, cpo, panic, regsPtr, invokeInfo>>

InvokeStackOverflow(spill) ==
    /\ mode = "invoking"
    /\ ~SpillFits(rsp, spill, BoxMin)
    /\ frames' = [frames EXCEPT ![Depth] = [@ EXCEPT !.res = "StackOverflow"]]
    /\ mode' = "exiting"
    /\ UNCHANGED <<rsp, registered, chainHead, cpo, panic, regsPtr, invokeInfo>>

\* Mutant: LFIRegs.rsp is left where the foreign function was entered.
TrampolineReturnUnrestored ==
    /\ mode \in {"sandbox", "aborting"}
    /\ frames' = [frames EXCEPT ![Depth] = [@ EXCEPT !.res = "NoError"]]
    /\ mode' = "exiting"
    /\ UNCHANGED <<rsp, registered, chainHead, cpo, panic, regsPtr, invokeInfo>>

\* The trampoline returns, because the foreign function did or because a
\* callback aborted it; invoke restores the stack pointer either way.
TrampolineReturn ==
    /\ mode \in {"sandbox", "aborting"}
    /\ rsp' = Top.saved
    /\ frames' = [frames EXCEPT ![Depth] = [@ EXCEPT !.sp = Top.saved, !.res = "NoError"]]
    /\ mode' = "exiting"
    /\ UNCHANGED <<registered, chainHead, cpo, panic, regsPtr, invokeInfo>>

\* Mutant: the panic object is read and not taken.
ExecuteReturnPeeking ==
    /\ mode = "exiting"
    /\ regsPtr' = FALSE
    /\ panic' = IF (cpo # NoPanic) # Top.aborted THEN Inconsistent ELSE cpo
    /\ mode' = IF panic' = NoPanic THEN "host" ELSE "unwinding"
    /\ frames' = Front(frames)
    /\ UNCHANGED <<rsp, registered, chainHead, cpo, invokeInfo>>

\* Mutant: the panic object is dropped and not re-raised.
ExecuteReturnSwallowing ==
    /\ mode = "exiting"
    /\ regsPtr' = FALSE
    /\ cpo' = NoPanic
    /\ mode' = "host"
    /\ frames' = Front(frames)
    /\ UNCHANGED <<rsp, registered, chainHead, panic, invokeInfo>>

\* Mutant: invoke_lfi_regs_ptr is not cleared.
ExecuteReturnUncleared ==
    /\ mode = "exiting"
    /\ cpo' = NoPanic
    /\ panic' = IF (cpo # NoPanic) # Top.aborted THEN Inconsistent ELSE cpo
    /\ mode' = IF panic' = NoPanic THEN "host" ELSE "unwinding"
    /\ frames' = Front(frames)
    /\ UNCHANGED <<rsp, registered, chainHead, regsPtr, invokeInfo>>

\* Mutant: the chain head is cleared along with the LFIRegs pointer, also for
\* the execute the returning one is nested in.
ExecuteReturnClearsHead ==
    /\ mode = "exiting"
    /\ regsPtr' = FALSE
    /\ chainHead' = 0
    /\ cpo' = NoPanic
    /\ panic' = IF (cpo # NoPanic) # Top.aborted THEN Inconsistent ELSE cpo
    /\ mode' = IF panic' = NoPanic THEN "host" ELSE "unwinding"
    /\ frames' = Front(frames)
    /\ UNCHANGED <<rsp, registered, invokeInfo>>

\* The rest of execute: clear the LFIRegs pointer, take the panic object,
\* compare it with lfi_ctx_abort_status, and return or resume unwinding.
ExecuteReturn ==
    /\ mode = "exiting"
    /\ regsPtr' = FALSE
    /\ cpo' = NoPanic
    /\ panic' = IF (cpo # NoPanic) # Top.aborted THEN Inconsistent ELSE cpo
    /\ mode' = IF panic' = NoPanic THEN "host" ELSE "unwinding"
    /\ frames' = Front(frames)
    /\ UNCHANGED <<rsp, registered, chainHead, invokeInfo>>

-----------------------------------------------------------------------------
(* lfi_callback_handler                                                    *)

\* The foreign library calls a registered slot with its stack pointer at sp.
\* It follows the C ABI: its frames are below the pointer it was entered with.
\* LFI stores sp in LFIRegs.rsp.  A dropped handler, or a chain head whose
\* frame has returned, is dead memory.
CallbackEnter(slot, sp) ==
    /\ mode = "sandbox" /\ Depth < MaxFrames
    /\ slot \in registered
    /\ sp <= Top.sp
    /\ rsp' = sp
    /\ IF slot \in LiveHandlers /\ chainHead <= Depth
       THEN /\ mode' = "host"
            /\ frames' = Append(frames,
                 [kind |-> "callback", saved |-> sp, sp |-> sp,
                  scope |-> Depth + 1, pred |-> chainHead, slot |-> slot])
       ELSE /\ mode' = "undefined"
            /\ UNCHANGED frames
    /\ UNCHANGED <<registered, chainHead, cpo, panic, regsPtr, invokeInfo>>

\* Ok(..): the return registers are copied and the sandbox continues.
CallbackReturn ==
    /\ mode = "host" /\ TopKind = "callback"
    /\ mode' = "sandbox"
    /\ frames' = Front(frames)
    /\ UNCHANGED <<rsp, registered, chainHead, cpo, panic, regsPtr, invokeInfo>>

\* Mutant: lfi_ctx_abort_callback is not called.
CallbackUnwindResuming ==
    /\ mode = "unwinding" /\ TopKind = "callback"
    /\ panic' = NoPanic
    /\ IF cpo # NoPanic
       THEN /\ mode' = "aborted"
            /\ UNCHANGED <<frames, cpo>>
       ELSE /\ mode' = "sandbox"
            /\ cpo' = panic
            /\ frames' = Front(frames)
    /\ UNCHANGED <<rsp, registered, chainHead, regsPtr, invokeInfo>>

\* Err(..): store the payload and abort the trampoline, or the process if a
\* payload is there already.
CallbackUnwind ==
    /\ mode = "unwinding" /\ TopKind = "callback"
    /\ panic' = NoPanic
    /\ IF cpo # NoPanic
       THEN /\ mode' = "aborted"
            /\ UNCHANGED <<frames, cpo>>
       ELSE /\ mode' = "aborting"
            /\ cpo' = panic
            /\ frames' = [Front(frames) EXCEPT ![Depth - 1] = [@ EXCEPT !.aborted = TRUE]]
    /\ UNCHANGED <<rsp, registered, chainHead, regsPtr, invokeInfo>>

-----------------------------------------------------------------------------
(* Panics of user code                                                     *)

Panic(payload) ==
    /\ UserCode
    /\ mode' = "unwinding"
    /\ panic' = payload
    /\ UNCHANGED <<frames, rsp, registered, chainHead, cpo, regsPtr, invokeInfo>>

\* A catch_unwind in the closure the innermost frame runs, or outside of all.
Catch ==
    /\ mode = "unwinding" /\ TopKind \in CatchIn
    /\ mode' = "host"
    /\ panic' = NoPanic
    /\ UNCHANGED <<frames, rsp, registered, chainHead, cpo, regsPtr, invokeInfo>>

Exit ==
    /\ mode = "unwinding" /\ frames = <<>> /\ "top" \notin CatchIn
    /\ mode' = "exited"
    /\ UNCHANGED <<frames, rsp, registered, chainHead, cpo, panic, regsPtr, invokeInfo>>

Terminated == mode \in Terminal /\ UNCHANGED vars

-----------------------------------------------------------------------------
\* Steps of the runtime itself, which need nothing from user or foreign code.
RuntimeStep ==
    \/ AllocateUnwind \/ SetupUnwind \/ CallbackUnwind
    \/ ExecuteReturn
    \/ mode = "aborting" /\ TrampolineReturn
    \/ Exit

Next ==
    \/ \E layout \in Layouts : AllocateStacked(layout) \/ AllocNoMem(layout)
    \/ AllocateReturn \/ AllocateUnwind
    \/ \E slot \in Slots : SetupCallback(slot)
    \/ SetupInsufficientSlots \/ SetupReturn \/ SetupUnwind
    \/ Execute
    \/ \E spill \in Spills : Invoke(spill) \/ InvokeStackOverflow(spill)
    \/ TrampolineReturn \/ ExecuteReturn
    \/ \E slot \in Slots, sp \in StackAddress : CallbackEnter(slot, sp)
    \/ CallbackReturn \/ CallbackUnwind
    \/ \E payload \in Payloads : Panic(payload)
    \/ Catch \/ Exit
    \/ Terminated

Spec == Init /\ [][Next]_vars

\* The thread is scheduled while it runs the runtime's own code.
FairSpec == Spec /\ WF_vars(RuntimeStep)

-----------------------------------------------------------------------------
(* Properties *)

\* The frames are calls of the four kinds with addresses inside the sandbox,
\* and each field of the runtime holds a value of its type.
TypeOK ==
    /\ frames \in Seq(Frame)
    /\ Depth <= MaxFrames
    /\ mode \in Mode
    /\ rsp \in StackAddress
    /\ registered \subseteq Slots
    /\ chainHead \in Element
    /\ cpo \in Payloads \cup {NoPanic}
    /\ panic \in Payloads \cup {NoPanic, Inconsistent}
    /\ regsPtr \in BOOLEAN
    /\ invokeInfo \in Element

HostAllocations == {i \in DOMAIN frames : frames[i].kind = "alloc"}

\* Host allocations on the foreign stack that are in use lie inside it, do not
\* overlap, and are above the stack pointer that the next call into the
\* library, or a callback of it, starts from (allocate_stacked_untracked_mut
\* and invoke both move LFIRegs.rsp, callbacks and panics interleave them).
AllocationsIntact ==
    /\ \A i \in HostAllocations :
          /\ BoxMin <= frames[i].sp /\ frames[i].sp + frames[i].len <= StackTop
          /\ rsp <= frames[i].sp
    /\ \A i, j \in HostAllocations :
          i < j => frames[j].sp + frames[j].len <= frames[i].sp

\* The closure gets a pointer of the alignment it asked for ("adjust the foreign
\* stack pointer downward to the required alignment") whenever the size is a
\* multiple of it, as for the layout of a type, a slice or a string, and never
\* otherwise: the adjustment is that of the pointer before the size is taken off.
AllocationsAligned ==
    \A i \in HostAllocations :
        frames[i].sp % frames[i].align = 0 <=> frames[i].len % frames[i].align = 0

\* The two invariants the comment in lfi_callback_handler claims for
\* callback_panic_object, and execute's cross-check of it: it is occupied only
\* from a callback's unwinding to the return of the execute it aborts, so that
\* no other callback finds it occupied and no check ever fails.
PanicBookkeeping ==
    /\ mode # "aborted"
    /\ panic # Inconsistent
    /\ cpo # NoPanic => mode \in {"aborting", "exiting"} /\ Top.aborted
    /\ mode \in {"unwinding", "exited"} <=> panic # NoPanic

\* The AllocScope a callback gets extends the scope that the execute right
\* below it was called with, the longest one, "regardless of when the callback
\* was registered" (comment on callback_alloc_chain_head).
ScopeExtendsLongestChain ==
    \A i \in DOMAIN frames :
        frames[i].kind = "callback" =>
            i > 1 /\ frames[i - 1].kind = "execute" /\ frames[i].pred = frames[i - 1].scope

\* The elements whose frame has not returned, and those among them an AllocChain
\* iterator visits from the element e on: the least set that holds e and, with
\* an element, its predecessor.
Elements == {i \in DOMAIN frames : frames[i].kind \in {"alloc", "callback"}}
FollowsLinks(S, e) == ({e} \cup {frames[d].pred : d \in S}) \cap Elements \subseteq S
Chain(e) == {d \in Elements : \A S \in SUBSET Elements : FollowsLinks(S, e) => d \in S}

\* Wherever user code runs, in whatever callback, its AllocScope reaches every
\* host allocation that is in use, and no element that is dead.
HostAllocationsVisible ==
    UserCode =>
        /\ HostAllocations \subseteq Chain(Scope)
        /\ {Scope} \cup {frames[d].pred : d \in Chain(Scope)} \subseteq Elements \cup {0}

\* A chain head that outlived its frame is never mistaken for a live element:
\* below the last index it is the scope of the innermost unfinished execute.
HeadCurrentOrDangling ==
    mode \in {"sandbox", "aborting", "exiting"} =>
        chainHead = Top.scope \/ chainHead > Depth

\* The foreign library can call any handler that is alive, and no two of them
\* share a slot (setup_callback, setup_static_callback).
HandlersRegistered ==
    /\ LiveHandlers \subseteq registered
    /\ \A i, j \in DOMAIN frames :
          frames[i].kind = "setup" /\ frames[j].kind = "setup" /\ i # j =>
              frames[i].slot # frames[j].slot
    /\ \A i \in DOMAIN frames : frames[i].kind = "setup" => frames[i].slot \notin StaticSlots

\* invoke finds the LFIRegs pointer and the target its own execute prepared,
\* and outside of every execute the pointer is null, "to detect when invoke is
\* incorrectly called outside of this execute hook's closure".
InvokeWindow ==
    /\ mode = "invoking" => regsPtr /\ invokeInfo = Depth
    /\ (\A i \in DOMAIN frames : frames[i].kind # "execute") => ~regsPtr

\* User code always runs with the foreign stack pointer its innermost call set:
\* every allocation and every invoke below it has been undone ("Finally, restore
\* the original foreign stack pointer").
StackRestored ==
    mode = "host" => rsp = IF frames = <<>> THEN StackTop ELSE Top.sp

\* While foreign code runs, every slot it can call has a live handler: a
\* callback is deregistered "first, before dropping the lfi_callback_handler".
NoDroppedHandler == mode = "sandbox" => registered = LiveHandlers

\* Whatever the callbacks do, entering one never reads dead memory: "the latest
\* execute call ... holds a shared borrow of this element throughout the entire
\* time that this callback can execute" (lfi_callback_handler).
NeverUndefined == mode # "undefined"

\* No call of a handler begins before the last one of it has returned: the handler
\* is an FnMut, and lfi_callback_handler takes a `&mut` to it for each call, which
\* has to be the only reference to it that is in use.
HandlersExclusive ==
    \A i, j \in DOMAIN frames :
        frames[i].kind = "callback" /\ frames[j].kind = "callback" /\ i # j =>
            frames[i].slot # frames[j].slot

\* A panic that nothing catches reaches the top of the thread, through every
\* trampoline on its way, if only the runtime's own code is scheduled.
PanicReachesTop == panic # NoPanic \/ cpo # NoPanic ~> mode = "exited"

\* The runtime behaves as nested Rust calls: see NestedCalls.
Nested == INSTANCE NestedCalls WITH
    Kinds <- {"alloc", "setup", "execute", "callback"},
    calls <- [i \in DOMAIN frames |-> frames[i].kind],
    status <- IF mode \in {"aborted", "undefined"} THEN "crashed"
              ELSE IF panic # NoPanic \/ cpo # NoPanic THEN "panicking" ELSE "running",
    payload <- IF panic # NoPanic THEN panic ELSE cpo

\* A panic that crosses foreign code behaves like one that crosses Rust calls:
\* it keeps its payload, pops one call at a time and is never swallowed; a
\* normal return never skips a call.
BehavesAsNestedCalls == Nested!Spec

=============================================================================
