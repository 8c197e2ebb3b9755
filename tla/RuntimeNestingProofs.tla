------------------------ MODULE RuntimeNestingProofs ------------------------
(***************************************************************************)
(* Runtime implements NestedCalls: for every value of its constants, a     *)
(* call into the foreign library and a callback out of it behave like      *)
(* nested Rust calls.  And the assertion of invoke, that it runs in the    *)
(* closure of an execute, is never wrong.                                  *)
(***************************************************************************)
EXTENDS RuntimeProofs

-----------------------------------------------------------------------------
(* The invoke window *)

\* What lfi_invoke_info and invoke_lfi_regs_ptr hold when invoke reads them;
\* the pointer is null unless some execute has yet to clear it.
WindowInv ==
    /\ mode = "invoking" => regsPtr /\ invokeInfo = Depth
    /\ regsPtr => \E i \in 1 .. Depth : frames[i].kind = "execute"

\* Only execute opens the window, and only its return takes its frame away.
LEMMA WindowStep ==
    ASSUME IInv, WindowInv, Next
    PROVE  WindowInv'
  <1> USE TopFacts DEF IInv
  <1>1. ASSUME UNCHANGED <<frames, regsPtr, invokeInfo>>, mode' # "invoking" \/ UNCHANGED mode
        PROVE  WindowInv'
    BY <1>1 DEF WindowInv, Depth
  <1>2. ASSUME NEW f \in Frame, Depth < MaxFrames, frames' = Append(frames, f),
               mode' # "invoking", UNCHANGED regsPtr
        PROVE  WindowInv'
    <2>1. Depth' = Depth + 1 /\ \A i \in 1 .. Depth : frames'[i] = frames[i]
      BY <1>2, PushStep
    <2>2. \A i \in 1 .. Depth : i \in 1 .. Depth'
      BY <2>1
    <2> QED
      BY <1>2, <2>1, <2>2 DEF WindowInv
  <1>3. ASSUME frames # <<>>, frames' = Front(frames), Top.kind # "execute",
               mode' # "invoking", UNCHANGED regsPtr
        PROVE  WindowInv'
    <2>1. Depth' = Depth - 1 /\ \A i \in 1 .. Depth - 1 : frames'[i] = frames[i]
      BY <1>3, PopStep
    <2>2. \A i \in 1 .. Depth : frames[i].kind = "execute" => i \in 1 .. Depth - 1
      BY <1>3
    <2> QED
      BY <1>3, <2>1, <2>2 DEF WindowInv
  <1>4. ASSUME NEW layout \in Layouts, AllocateStacked(layout) PROVE WindowInv'
    <2> DEFINE f == [kind |-> "alloc", saved |-> rsp, sp |-> rsp', scope |-> Depth + 1,
                     pred |-> Scope, len |-> layout.size, align |-> layout.align]
    <2>1. rsp \in StackAddress /\ rsp' \in StackAddress
      BY <1>4, AllocateStackedPointer
    <2>2. f \in Frame
      BY <1>4, <2>1, LayoutsAssumption, MaxFramesAssumption
         DEF AllocateStacked, Frame, AllocFrame, Element
    <2> QED
      BY <1>2, <1>4, <2>2 DEF AllocateStacked, UserCode
  <1>5. ASSUME NEW slot \in Slots, SetupCallback(slot) PROVE WindowInv'
    <2> DEFINE f == [kind |-> "setup", saved |-> rsp, sp |-> rsp, scope |-> Scope,
                     slot |-> slot]
    <2>1. f \in Frame
      BY <1>5 DEF SetupCallback, Frame, SetupFrame, TypeOK
    <2> QED
      BY <1>2, <1>5, <2>1 DEF SetupCallback, UserCode
  <1>6. CASE Execute
    <2> DEFINE f == [kind |-> "execute", saved |-> rsp, sp |-> rsp, scope |-> Scope,
                     res |-> "NotCalled", aborted |-> FALSE]
    <2>1. f \in Frame
      BY DEF Frame, ExecuteFrame, TypeOK
    <2>2. frames' = Append(frames, f) /\ Depth < MaxFrames
      BY <1>6 DEF Execute
    <2>3. Depth' = Depth + 1 /\ frames'[Depth + 1] = f
      BY <2>1, <2>2, PushStep
    <2>4. Depth' \in 1 .. Depth' /\ frames'[Depth'].kind = "execute"
      BY <2>3
    <2> QED
      BY <1>6, <2>3, <2>4 DEF Execute, WindowInv
  <1>7. ASSUME NEW f \in Frame, frames # <<>>, frames' = [frames EXCEPT ![Depth] = f],
               f.kind = "execute", mode' # "invoking", UNCHANGED regsPtr
        PROVE  WindowInv'
    <2>1. Depth' = Depth /\ frames'[Depth] = f /\ Depth >= 1
      BY <1>7, EditStep
    <2> QED
      BY <1>7, <2>1 DEF WindowInv
  <1>8. ASSUME NEW spill \in Spills, Invoke(spill) PROVE WindowInv'
    <2> DEFINE f == [frames[Depth] EXCEPT !.saved = rsp, !.sp = rsp']
    <2>1. frames # <<>> /\ Top.kind = "execute" /\ Top = frames[Depth] /\ frames[Depth] \in Frame
      BY <1>8 DEF Invoke, Shape
    <2>2. f \in Frame /\ f.kind = "execute"
      BY <1>8, <2>1, InvokePointer, ExecuteFacts, FrameFacts DEF ExecuteFrame
    <2> QED
      BY <1>7, <1>8, <2>1, <2>2 DEF Invoke
  <1>9. ASSUME NEW spill \in Spills, InvokeStackOverflow(spill) PROVE WindowInv'
    <2> DEFINE f == [frames[Depth] EXCEPT !.res = "StackOverflow"]
    <2>1. frames # <<>> /\ Top.kind = "execute" /\ Top = frames[Depth] /\ frames[Depth] \in Frame
      BY <1>9 DEF InvokeStackOverflow, Shape
    <2>2. f \in Frame /\ f.kind = "execute"
      BY <2>1, ExecuteFacts, FrameFacts DEF ExecuteFrame
    <2> QED
      BY <1>7, <1>9, <2>1, <2>2 DEF InvokeStackOverflow
  <1>10. CASE TrampolineReturn
    <2> DEFINE f == [frames[Depth] EXCEPT !.sp = Top.saved, !.res = "NoError"]
    <2>1. frames # <<>> /\ Top.kind = "execute" /\ Top = frames[Depth] /\ frames[Depth] \in Frame
      BY <1>10 DEF TrampolineReturn, Shape
    <2>2. f \in Frame /\ f.kind = "execute"
      BY <2>1, ExecuteFacts, FrameFacts DEF ExecuteFrame
    <2> QED
      BY <1>7, <1>10, <2>1, <2>2 DEF TrampolineReturn
  <1>11. CASE ExecuteReturn
    BY <1>11 DEF ExecuteReturn, WindowInv
  <1>12. ASSUME NEW slot \in Slots, NEW sp \in StackAddress, CallbackEnter(slot, sp)
         PROVE  WindowInv'
    <2> DEFINE f == [kind |-> "callback", saved |-> sp, sp |-> sp, scope |-> Depth + 1,
                     pred |-> chainHead, slot |-> slot]
    <2>1. CASE slot \in LiveHandlers /\ chainHead <= Depth
      <3>1. f \in Frame
        BY <1>12, MaxFramesAssumption DEF CallbackEnter, Frame, CallbackFrame, TypeOK, Element
      <3> QED
        BY <1>2, <1>12, <2>1, <3>1 DEF CallbackEnter
    <2>2. CASE ~(slot \in LiveHandlers /\ chainHead <= Depth)
      BY <1>1, <1>12, <2>2 DEF CallbackEnter
    <2> QED
      BY <2>1, <2>2
  <1>13. CASE AllocateReturn \/ SetupReturn \/ CallbackReturn \/ AllocateUnwind \/ SetupUnwind
    BY <1>3, <1>13
       DEF AllocateReturn, SetupReturn, CallbackReturn, AllocateUnwind, SetupUnwind, UserCode
  <1>14. CASE CallbackUnwind
    <2>1. frames # <<>> /\ Depth > 1 /\ frames[Depth - 1].kind = "execute"
      BY <1>14 DEF CallbackUnwind, Shape
    <2>2. CASE cpo # NoPanic
      BY <1>1, <1>14, <2>2 DEF CallbackUnwind
    <2>3. CASE cpo = NoPanic
      <3> DEFINE f == [frames[Depth - 1] EXCEPT !.aborted = TRUE]
      <3>1. frames[Depth - 1] \in Frame /\ Front(frames)[Depth - 1] = frames[Depth - 1]
        BY <2>1, FrontFacts DEF TypeOK, Depth
      <3>2. f \in Frame /\ f.kind = "execute"
        BY <2>1, <3>1, ExecuteFacts, FrameFacts DEF ExecuteFrame
      <3>3. frames' = [Front(frames) EXCEPT ![Depth - 1] = f]
        BY <1>14, <2>3, <3>1 DEF CallbackUnwind
      <3>4. Depth' = Depth - 1 /\ frames'[Depth - 1] = f
        BY <2>1, <3>2, <3>3, PopEditStep
      <3>5. Depth - 1 \in 1 .. Depth'
        BY <2>1, <3>4
      <3> QED
        BY <1>14, <2>1, <2>3, <3>2, <3>4, <3>5 DEF CallbackUnwind, WindowInv
    <2> QED
      BY <2>2, <2>3
  <1>15. CASE (\E layout \in Layouts : AllocNoMem(layout)) \/ SetupInsufficientSlots \/ Terminated
    BY <1>1, <1>15 DEF AllocNoMem, SetupInsufficientSlots, Terminated, vars
  <1>16. CASE (\E payload \in Payloads : Panic(payload)) \/ Catch \/ Exit
    BY <1>1, <1>16 DEF Panic, Catch, Exit
  <1> QED
    BY <1>4, <1>5, <1>6, <1>8, <1>9, <1>10, <1>11, <1>12, <1>13, <1>14, <1>15, <1>16 DEF Next

\* invoke never asserts, never reads the target of another execute, and would
\* be found out if it were called outside of an execute's closure.
THEOREM InvokeInWindow == Spec => []InvokeWindow
  <1>1. Init => WindowInv
    BY DEF Init, WindowInv
  <1>2. IInv /\ WindowInv /\ [Next]_vars => WindowInv'
    BY WindowStep DEF WindowInv, vars, Depth
  <1>3. IInv /\ WindowInv => InvokeWindow
    BY DEF IInv, TypeOK, WindowInv, InvokeWindow, Depth
  <1> QED
    BY <1>1, <1>2, <1>3, Invariance, PTL DEF Spec

-----------------------------------------------------------------------------
(* The calls of a nested program *)

Calls == [i \in DOMAIN frames |-> frames[i].kind]
Status ==
    IF mode \in {"aborted", "undefined"} THEN "crashed"
    ELSE IF panic # NoPanic \/ cpo # NoPanic THEN "panicking" ELSE "running"
Payload == IF panic # NoPanic THEN panic ELSE cpo

CallKinds == {"alloc", "setup", "execute", "callback"}

\* The kinds of a sequence of calls, one for one.
LEMMA CallsFacts ==
    ASSUME NEW s \in Seq(Frame)
    PROVE  LET calls == [i \in DOMAIN s |-> s[i].kind]
           IN  /\ calls \in Seq(CallKinds)
               /\ Len(calls) = Len(s)
               /\ \A i \in 1 .. Len(s) : calls[i] = s[i].kind
  <1>1. Len(s) \in Nat /\ DOMAIN s = 1 .. Len(s)
    OBVIOUS
  <1>2. \A i \in 1 .. Len(s) : s[i].kind \in CallKinds
    BY FrameFacts DEF CallKinds
  <1> DEFINE calls == [i \in 1 .. Len(s) |-> s[i].kind]
  <1>3. calls \in Seq(CallKinds)
    BY <1>1, <1>2
  <1> QED
    BY <1>1, <1>3

\* A new frame is a new call.
LEMMA CallsPush ==
    ASSUME TypeOK, Depth < MaxFrames, NEW f \in Frame, frames' = Append(frames, f)
    PROVE  Calls' = Append(Calls, f.kind)
  <1>1. frames \in Seq(Frame) /\ Depth = Len(frames) /\ Depth \in Nat
    BY TopFacts DEF TypeOK, Depth
  <1>2. /\ frames' \in Seq(Frame) /\ Len(frames') = Depth + 1
        /\ frames'[Depth + 1] = f
        /\ \A i \in 1 .. Depth : frames'[i] = frames[i]
    BY PushStep DEF Depth
  <1>3. /\ Calls \in Seq(CallKinds) /\ Len(Calls) = Depth
        /\ \A i \in 1 .. Depth : Calls[i] = frames[i].kind
    BY <1>1, CallsFacts DEF Calls
  <1>4. /\ Calls' \in Seq(CallKinds) /\ Len(Calls') = Depth + 1
        /\ \A i \in 1 .. Depth + 1 : Calls'[i] = frames'[i].kind
    BY <1>2, CallsFacts DEF Calls
  <1> HIDE DEF Calls
  <1>5. f.kind \in CallKinds
    BY FrameFacts DEF CallKinds
  <1>6. PICK t \in Seq(CallKinds) : t = Append(Calls, f.kind)
    BY <1>3, <1>5, AppendFacts
  <1>7. /\ Len(t) = Depth + 1 /\ t[Depth + 1] = f.kind
        /\ \A i \in 1 .. Depth : t[i] = Calls[i]
    BY <1>3, <1>5, <1>6, AppendFacts
  <1>8. \A i \in 1 .. Depth + 1 : i \in 1 .. Depth \/ i = Depth + 1
    BY <1>1
  <1>9. ASSUME NEW i \in 1 .. Depth + 1 PROVE Calls'[i] = t[i]
    <2>1. Calls'[i] = frames'[i].kind
      BY <1>4
    <2>2. CASE i \in 1 .. Depth
      <3>1. frames'[i] = frames[i] /\ Calls[i] = frames[i].kind /\ t[i] = Calls[i]
        BY <1>2, <1>3, <1>7, <2>2
      <3> QED
        BY <2>1, <3>1
    <2>3. CASE i = Depth + 1
      BY <1>2, <1>7, <2>1, <2>3
    <2> QED
      BY <1>8, <2>2, <2>3
  <1> QED
    BY <1>4, <1>6, <1>7, <1>9, SeqEqual

\* A frame that goes is a call that ends.
LEMMA CallsPop ==
    ASSUME TypeOK, frames # <<>>, frames' = Front(frames)
    PROVE  Calls # <<>> /\ Calls' = Front(Calls)
  <1>1. frames \in Seq(Frame) /\ Depth = Len(frames) /\ Depth \in Nat \ {0}
    BY TopFacts DEF TypeOK, Depth
  <1>2. /\ frames' \in Seq(Frame) /\ Len(frames') = Depth - 1
        /\ \A i \in 1 .. Depth - 1 : frames'[i] = frames[i]
    BY PopStep DEF Depth
  <1>3. /\ Calls \in Seq(CallKinds) /\ Len(Calls) = Depth
        /\ \A i \in 1 .. Depth : Calls[i] = frames[i].kind
    BY <1>1, CallsFacts DEF Calls
  <1>4. /\ Calls' \in Seq(CallKinds) /\ Len(Calls') = Depth - 1
        /\ \A i \in 1 .. Depth - 1 : Calls'[i] = frames'[i].kind
    BY <1>2, CallsFacts DEF Calls
  <1> HIDE DEF Calls
  <1>5. Calls # <<>>
    BY <1>1, <1>3
  <1>6. PICK t \in Seq(CallKinds) : t = Front(Calls)
    BY <1>3, <1>5, FrontFacts
  <1>7. Len(t) = Depth - 1 /\ \A i \in 1 .. Depth - 1 : t[i] = Calls[i]
    BY <1>3, <1>5, <1>6, FrontFacts
  <1>8. \A i \in 1 .. Depth - 1 : i \in 1 .. Depth
    BY <1>1
  <1>9. \A i \in 1 .. Depth - 1 : Calls'[i] = t[i]
    BY <1>2, <1>3, <1>4, <1>7, <1>8
  <1> QED
    BY <1>4, <1>5, <1>6, <1>7, <1>9, SeqEqual

\* A change to a frame that keeps its kind does not show.
LEMMA CallsEdit ==
    ASSUME TypeOK, frames # <<>>, NEW f \in Frame, frames' = [frames EXCEPT ![Depth] = f],
           f.kind = Top.kind
    PROVE  Calls' = Calls
  <1>1. frames \in Seq(Frame) /\ Depth \in Nat \ {0} /\ Depth = Len(frames)
        /\ DOMAIN frames = 1 .. Depth /\ Top = frames[Depth]
    BY TopFacts DEF TypeOK, Depth
  <1>2. DOMAIN frames' = 1 .. Depth /\ \A i \in 1 .. Depth : frames'[i].kind = frames[i].kind
    BY <1>1
  <1> QED
    BY <1>1, <1>2 DEF Calls

\* Nor does the abort status of the execute below a callback that ends.
LEMMA CallsPopEdit ==
    ASSUME TypeOK, Depth > 1, frames[Depth - 1].kind = "execute",
           frames' = [Front(frames) EXCEPT ![Depth - 1] = [@ EXCEPT !.aborted = TRUE]]
    PROVE  Calls # <<>> /\ Calls' = Front(Calls)
  <1>1. frames \in Seq(Frame) /\ Depth = Len(frames) /\ Depth \in Nat \ {0} /\ frames # <<>>
    BY TopFacts DEF TypeOK, Depth
  <1>2. PICK r \in Seq(Frame) : r = Front(frames)
    BY <1>1, FrontFacts
  <1>3. /\ Len(r) = Depth - 1 /\ r[Depth - 1] = frames[Depth - 1]
        /\ \A i \in 1 .. Depth - 1 : r[i] = frames[i]
    BY <1>1, <1>2, FrontFacts
  <1> DEFINE calls == [i \in DOMAIN r |-> r[i].kind]
  <1>4. Calls' = calls
    <2>1. DOMAIN frames' = DOMAIN r /\ Depth - 1 \in DOMAIN r
      BY <1>1, <1>2, <1>3
    <2>2. frames[Depth - 1] \in Frame
      BY <1>1, TopFacts
    <2>3. frames'[Depth - 1].kind = r[Depth - 1].kind
      BY <1>2, <1>3, <2>1, <2>2, FrameFacts DEF ExecuteFrame
    <2>4. \A i \in DOMAIN r : frames'[i].kind = r[i].kind
      BY <1>2, <2>1, <2>3
    <2> QED
      BY <2>1, <2>4 DEF Calls
  <1>5. /\ calls \in Seq(CallKinds) /\ Len(calls) = Depth - 1
        /\ \A i \in 1 .. Depth - 1 : calls[i] = r[i].kind
    BY <1>2, <1>3, CallsFacts
  <1>6. /\ Calls \in Seq(CallKinds) /\ Len(Calls) = Depth
        /\ \A i \in 1 .. Depth : Calls[i] = frames[i].kind
    BY <1>1, CallsFacts DEF Calls
  <1> HIDE DEF Calls, calls
  <1>7. Calls # <<>>
    BY <1>1, <1>6
  <1>8. PICK t \in Seq(CallKinds) : t = Front(Calls)
    BY <1>6, <1>7, FrontFacts
  <1>9. Len(t) = Depth - 1 /\ \A i \in 1 .. Depth - 1 : t[i] = Calls[i]
    BY <1>6, <1>7, <1>8, FrontFacts
  <1>10. \A i \in 1 .. Depth - 1 : i \in 1 .. Depth
    BY <1>1
  <1>11. \A i \in 1 .. Depth - 1 : calls[i] = t[i]
    BY <1>3, <1>5, <1>6, <1>9, <1>10
  <1> QED
    BY <1>4, <1>5, <1>7, <1>8, <1>9, <1>11, SeqEqual

\* Calls, Status and Payload are what the refinement substitutes.
LEMMA NestedFacts ==
    /\ (Nested!Init <=> Calls = <<>> /\ Status = "running" /\ Payload = NoPanic)
    /\ \A kind \in CallKinds :
          Status = "running" /\ Calls' = Append(Calls, kind)
             /\ UNCHANGED <<Status, Payload>> => Nested!Next
    /\ Status \in {"running", "panicking"} /\ Calls # <<>> /\ Calls' = Front(Calls)
          /\ UNCHANGED <<Status, Payload>> => Nested!Next
    /\ \A p \in Payloads :
          Status = "running" /\ Status' = "panicking" /\ Payload' = p
             /\ UNCHANGED Calls => Nested!Next
    /\ Status = "panicking" /\ Status' = "running" /\ Payload' = NoPanic
          /\ UNCHANGED Calls => Nested!Next
    /\ Status = "running" /\ Status' = "crashed" /\ UNCHANGED <<Calls, Payload>> => Nested!Next
    /\ UNCHANGED <<Calls, Status, Payload>> => UNCHANGED Nested!callVars
  BY DEF Calls, Status, Payload, CallKinds, Front, Nested!Init, Nested!Next, Nested!Call,
         Nested!Return, Nested!Raise, Nested!Propagate, Nested!Catch, Nested!Crash,
         Nested!callVars, Nested!Front

\* No panic is under way unless a frame is unwinding, or an execute is aborted.
LEMMA StatusFacts ==
    ASSUME IInv
    PROVE  /\ mode \in {"host", "invoking", "sandbox"} =>
                 panic = NoPanic /\ cpo = NoPanic /\ Status = "running" /\ Payload = NoPanic
           /\ mode = "unwinding" =>
                 /\ panic # NoPanic /\ cpo = NoPanic
                 /\ Status = "panicking" /\ Payload = panic
           /\ mode \in {"aborting", "exiting"} =>
                 /\ panic = NoPanic /\ Payload = cpo
                 /\ Status = IF cpo # NoPanic THEN "panicking" ELSE "running"
  BY DEF IInv, PanicInv, PanicBookkeeping, Status, Payload

\* Every step of the runtime is one of nested calls, or none of them.
LEMMA NestedStep ==
    ASSUME IInv, Next
    PROVE  Nested!Next \/ UNCHANGED Nested!callVars
  <1> DEFINE Simulated == Nested!Next \/ UNCHANGED Nested!callVars
  <1> USE TopFacts DEF IInv
  <1> HIDE DEF Calls
  <1>1. ASSUME UNCHANGED <<frames, panic, cpo>>,
               mode \in {"aborted", "undefined"} <=> mode' \in {"aborted", "undefined"}
        PROVE  Simulated
    BY <1>1, NestedFacts DEF Calls, Status, Payload
  <1>2. ASSUME NEW f \in Frame, Depth < MaxFrames, frames' = Append(frames, f),
               mode \in {"host", "sandbox"}, mode' \in {"host", "invoking"},
               UNCHANGED <<panic, cpo>>
        PROVE  Simulated
    <2>1. f.kind \in CallKinds /\ Calls' = Append(Calls, f.kind)
      BY <1>2, CallsPush, FrameFacts DEF CallKinds
    <2>2. Status = "running" /\ UNCHANGED <<Status, Payload>>
      BY <1>2, StatusFacts DEF Status, Payload
    <2> QED
      BY <2>1, <2>2, NestedFacts
  <1>3. ASSUME frames # <<>>, frames' = Front(frames), UNCHANGED <<panic, cpo>>,
               mode \in {"host", "unwinding"}, mode' \in {"host", "sandbox", "unwinding"}
        PROVE  Simulated
    <2>1. Calls # <<>> /\ Calls' = Front(Calls)
      BY <1>3, CallsPop
    <2>2. Status \in {"running", "panicking"} /\ UNCHANGED <<Status, Payload>>
      BY <1>3, StatusFacts DEF Status, Payload
    <2> QED
      BY <2>1, <2>2, NestedFacts
  <1>4. ASSUME NEW f \in Frame, frames # <<>>, frames' = [frames EXCEPT ![Depth] = f],
               f.kind = Top.kind, UNCHANGED <<panic, cpo>>,
               mode \in {"invoking", "sandbox", "aborting"},
               mode' = "undefined" => mode = "invoking",
               mode' \in {"sandbox", "exiting", "undefined"}
        PROVE  Simulated
    <2>1. UNCHANGED Calls
      BY <1>4, CallsEdit
    <2>2. UNCHANGED Payload
      BY <1>4 DEF Payload
    <2>3. CASE mode' = "undefined"
      <3>1. Status = "running" /\ Status' = "crashed"
        BY <1>4, <2>3, StatusFacts DEF Status
      <3> QED
        BY <2>1, <2>2, <3>1, NestedFacts
    <2>4. CASE mode' # "undefined"
      <3>1. UNCHANGED Status
        BY <1>4, <2>4 DEF Status
      <3> QED
        BY <2>1, <2>2, <3>1, NestedFacts
    <2> QED
      BY <2>3, <2>4
  <1>5. ASSUME NEW layout \in Layouts, AllocateStacked(layout) PROVE Simulated
    <2> DEFINE f == [kind |-> "alloc", saved |-> rsp, sp |-> rsp', scope |-> Depth + 1,
                     pred |-> Scope, len |-> layout.size, align |-> layout.align]
    <2>1. rsp \in StackAddress /\ rsp' \in StackAddress
      BY <1>5, AllocateStackedPointer
    <2>2. f \in Frame
      BY <1>5, <2>1, LayoutsAssumption, MaxFramesAssumption
         DEF AllocateStacked, Frame, AllocFrame, Element
    <2> QED
      BY <1>2, <1>5, <2>2 DEF AllocateStacked, UserCode
  <1>6. ASSUME NEW slot \in Slots, SetupCallback(slot) PROVE Simulated
    <2> DEFINE f == [kind |-> "setup", saved |-> rsp, sp |-> rsp, scope |-> Scope,
                     slot |-> slot]
    <2>1. f \in Frame
      BY <1>6 DEF SetupCallback, Frame, SetupFrame, TypeOK
    <2> QED
      BY <1>2, <1>6, <2>1 DEF SetupCallback, UserCode
  <1>7. CASE Execute
    <2> DEFINE f == [kind |-> "execute", saved |-> rsp, sp |-> rsp, scope |-> Scope,
                     res |-> "NotCalled", aborted |-> FALSE]
    <2>1. f \in Frame
      BY DEF Frame, ExecuteFrame, TypeOK
    <2> QED
      BY <1>2, <1>7, <2>1 DEF Execute, UserCode
  <1>8. ASSUME NEW spill \in Spills, Invoke(spill) PROVE Simulated
    <2> DEFINE f == [frames[Depth] EXCEPT !.saved = rsp, !.sp = rsp']
    <2>1. frames # <<>> /\ Top.kind = "execute" /\ Top = frames[Depth] /\ frames[Depth] \in Frame
      BY <1>8 DEF Invoke, Shape
    <2>2. f \in Frame /\ f.kind = "execute"
      BY <1>8, <2>1, InvokePointer, ExecuteFacts, FrameFacts DEF ExecuteFrame
    <2> QED
      BY <1>4, <1>8, <2>1, <2>2 DEF Invoke
  <1>9. ASSUME NEW spill \in Spills, InvokeStackOverflow(spill) PROVE Simulated
    <2> DEFINE f == [frames[Depth] EXCEPT !.res = "StackOverflow"]
    <2>1. frames # <<>> /\ Top.kind = "execute" /\ Top = frames[Depth] /\ frames[Depth] \in Frame
      BY <1>9 DEF InvokeStackOverflow, Shape
    <2>2. f \in Frame /\ f.kind = "execute"
      BY <2>1, ExecuteFacts, FrameFacts DEF ExecuteFrame
    <2> QED
      BY <1>4, <1>9, <2>1, <2>2 DEF InvokeStackOverflow
  <1>10. CASE TrampolineReturn
    <2> DEFINE f == [frames[Depth] EXCEPT !.sp = Top.saved, !.res = "NoError"]
    <2>1. frames # <<>> /\ Top.kind = "execute" /\ Top = frames[Depth] /\ frames[Depth] \in Frame
      BY <1>10 DEF TrampolineReturn, Shape
    <2>2. f \in Frame /\ f.kind = "execute"
      BY <2>1, ExecuteFacts, FrameFacts DEF ExecuteFrame
    <2> QED
      BY <1>4, <1>10, <2>1, <2>2 DEF TrampolineReturn
  <1>11. CASE ExecuteReturn
    <2>1. frames # <<>> /\ mode = "exiting" /\ (cpo # NoPanic <=> Top.aborted)
      BY <1>11 DEF ExecuteReturn, Shape, PanicInv
    <2>2. Calls # <<>> /\ Calls' = Front(Calls)
      BY <1>11, <2>1, CallsPop DEF ExecuteReturn
    <2>3. panic' = cpo /\ cpo' = NoPanic /\ mode' \in {"host", "unwinding"}
      <3>1. Top.aborted \in BOOLEAN
        BY <1>11, <2>1, FrameFacts DEF ExecuteReturn, Shape, ExecuteFrame
      <3>2. (cpo # NoPanic) = Top.aborted
        BY <2>1, <3>1
      <3> QED
        BY <1>11, <3>2 DEF ExecuteReturn
    <2>4. Status \in {"running", "panicking"} /\ UNCHANGED <<Status, Payload>>
      BY <2>1, <2>3, StatusFacts DEF Status, Payload
    <2> QED
      BY <2>2, <2>4, NestedFacts
  <1>12. ASSUME NEW slot \in Slots, NEW sp \in StackAddress, CallbackEnter(slot, sp)
         PROVE  Simulated
    <2> DEFINE f == [kind |-> "callback", saved |-> sp, sp |-> sp, scope |-> Depth + 1,
                     pred |-> chainHead, slot |-> slot]
    <2>1. CASE slot \in LiveHandlers /\ chainHead <= Depth
      <3>1. f \in Frame
        BY <1>12, MaxFramesAssumption DEF CallbackEnter, Frame, CallbackFrame, TypeOK, Element
      <3> QED
        BY <1>2, <1>12, <2>1, <3>1 DEF CallbackEnter
    <2>2. CASE ~(slot \in LiveHandlers /\ chainHead <= Depth)
      <3>1. UNCHANGED Calls
        BY <1>12, <2>2 DEF CallbackEnter, Calls
      <3>2. Status = "running" /\ Status' = "crashed" /\ UNCHANGED Payload
        BY <1>12, <2>2, StatusFacts DEF CallbackEnter, Status, Payload
      <3> QED
        BY <3>1, <3>2, NestedFacts
    <2> QED
      BY <2>1, <2>2
  <1>13. CASE AllocateReturn \/ SetupReturn \/ CallbackReturn \/ AllocateUnwind \/ SetupUnwind
    BY <1>3, <1>13
       DEF AllocateReturn, SetupReturn, CallbackReturn, AllocateUnwind, SetupUnwind, UserCode
  <1>14. CASE CallbackUnwind
    <2>1. frames # <<>> /\ Depth > 1 /\ frames[Depth - 1].kind = "execute"
      BY <1>14 DEF CallbackUnwind, Shape
    <2>2. mode = "unwinding" /\ cpo = NoPanic /\ panic # NoPanic
      BY <1>14, StatusFacts DEF CallbackUnwind
    <2>3. mode' = "aborting" /\ panic' = NoPanic /\ cpo' = panic
      BY <1>14, <2>2 DEF CallbackUnwind
    <2>4. Status = "panicking" /\ UNCHANGED <<Status, Payload>>
      BY <2>2, <2>3 DEF Status, Payload
    <2>5. Calls # <<>> /\ Calls' = Front(Calls)
      BY <1>14, <2>1, <2>2, CallsPopEdit DEF CallbackUnwind
    <2> QED
      BY <2>4, <2>5, NestedFacts
  <1>15. CASE (\E layout \in Layouts : AllocNoMem(layout)) \/ SetupInsufficientSlots \/ Terminated
    BY <1>1, <1>15 DEF AllocNoMem, SetupInsufficientSlots, Terminated, vars
  <1>16. ASSUME NEW p \in Payloads, Panic(p) PROVE Simulated
    <2>1. Status = "running" /\ UNCHANGED Calls
      BY <1>16, StatusFacts DEF Panic, UserCode, Calls
    <2>2. Status' = "panicking" /\ Payload' = p
      BY <1>16, PayloadsAssumption DEF Panic, Status, Payload
    <2> QED
      BY <2>1, <2>2, NestedFacts
  <1>17. CASE Catch
    <2>1. Status = "panicking" /\ UNCHANGED Calls
      BY <1>17, StatusFacts DEF Catch, Calls
    <2>2. Status' = "running" /\ Payload' = NoPanic
      BY <1>17, StatusFacts DEF Catch, Status, Payload
    <2> QED
      BY <2>1, <2>2, NestedFacts
  <1>18. CASE Exit
    BY <1>1, <1>18 DEF Exit
  <1> QED
    BY <1>5, <1>6, <1>7, <1>8, <1>9, <1>10, <1>11, <1>12, <1>13, <1>14, <1>15, <1>16, <1>17,
       <1>18 DEF Next

\* A call into the foreign library and a callback out of it behave like nested
\* Rust calls, however deep they nest: a panic pops one call at a time, keeps
\* its payload and is not swallowed, and a normal return never skips a call.
THEOREM RuntimeNests == Spec => BehavesAsNestedCalls
  <1>1. Init => Nested!Init
    <2>1. ASSUME Init PROVE Calls = <<>> /\ Status = "running" /\ Payload = NoPanic
      BY <2>1 DEF Init, Calls, Status, Payload
    <2> QED
      BY <2>1, NestedFacts
  <1>2. IInv /\ [Next]_vars => Nested!Next \/ UNCHANGED Nested!callVars
    <2>1. ASSUME UNCHANGED vars PROVE UNCHANGED Nested!callVars
      BY <2>1, NestedFacts DEF vars, Calls, Status, Payload
    <2> QED
      BY <2>1, NestedStep
  <1> QED
    BY <1>1, <1>2, Invariance, PTL DEF Spec, BehavesAsNestedCalls, Nested!Spec

-----------------------------------------------------------------------------
(* The way of a panic to the top *)

InFlight == panic # NoPanic \/ cpo # NoPanic

\* How many steps a panic is from the top at most: three for each call, because
\* it leaves a callback for a trampoline to return and execute to go on.
Distance ==
    3 * Depth + CASE mode = "unwinding" -> 1
                  [] mode = "exiting" -> 2
                  [] mode = "aborting" -> 3
                  [] OTHER -> 0

\* A panic that is neither caught nor at the top gets nearer.
LEMMA AdvanceStep ==
    ASSUME IInv, InFlight, Next, ~Catch, vars' # vars
    PROVE  InFlight' /\ Distance' < Distance
  <1> USE TopFacts DEF IInv
  <1>1. /\ Depth \in Nat
        /\ mode \in {"unwinding", "aborting", "exiting", "exited"}
        /\ mode = "unwinding" <=> panic # NoPanic /\ mode # "exited"
    BY DEF PanicInv, PanicBookkeeping, InFlight
  <1>2. CASE AllocateUnwind \/ SetupUnwind
    <2>1. Depth' = Depth - 1 /\ mode = "unwinding" /\ mode' = "unwinding" /\ InFlight'
      BY <1>1, <1>2, PopStep DEF AllocateUnwind, SetupUnwind, InFlight
    <2> QED
      BY <1>1, <2>1 DEF Distance
  <1>3. CASE CallbackUnwind
    <2>1. /\ mode = "unwinding" /\ cpo = NoPanic /\ panic # NoPanic
          /\ frames # <<>> /\ Depth > 1 /\ frames[Depth - 1].kind = "execute"
      BY <1>3, StatusFacts DEF CallbackUnwind, Shape
    <2> DEFINE f == [frames[Depth - 1] EXCEPT !.aborted = TRUE]
    <2>2. frames[Depth - 1] \in Frame /\ Front(frames)[Depth - 1] = frames[Depth - 1]
      BY <2>1, FrontFacts DEF TypeOK, Depth
    <2>3. f \in Frame
      BY <2>1, <2>2, ExecuteFacts
    <2>4. frames' = [Front(frames) EXCEPT ![Depth - 1] = f]
      BY <1>3, <2>1, <2>2 DEF CallbackUnwind
    <2>5. Depth' = Depth - 1 /\ mode' = "aborting" /\ InFlight'
      BY <1>3, <2>1, <2>3, <2>4, PopEditStep DEF CallbackUnwind, InFlight
    <2> QED
      BY <1>1, <2>1, <2>5 DEF Distance
  <1>4. CASE TrampolineReturn
    <2> DEFINE f == [frames[Depth] EXCEPT !.sp = Top.saved, !.res = "NoError"]
    <2>1. /\ frames # <<>> /\ Top.kind = "execute" /\ Top = frames[Depth]
          /\ frames[Depth] \in Frame /\ mode = "aborting"
      BY <1>1, <1>4 DEF TrampolineReturn, Shape
    <2>2. f \in Frame
      BY <2>1, ExecuteFacts, FrameFacts DEF ExecuteFrame
    <2>3. Depth' = Depth /\ mode' = "exiting" /\ InFlight'
      BY <1>4, <2>1, <2>2, EditStep DEF TrampolineReturn, InFlight
    <2> QED
      BY <1>1, <2>1, <2>3 DEF Distance
  <1>5. CASE ExecuteReturn
    <2>1. frames # <<>> /\ mode = "exiting" /\ (cpo # NoPanic <=> Top.aborted) /\ cpo # NoPanic
      BY <1>1, <1>5 DEF ExecuteReturn, Shape, PanicInv, InFlight
    <2>2. panic' # NoPanic
      BY <1>5, <2>1, PayloadsAssumption DEF ExecuteReturn
    <2>3. Depth' = Depth - 1 /\ mode' = "unwinding" /\ InFlight'
      BY <1>5, <2>1, <2>2, PopStep DEF ExecuteReturn, InFlight
    <2> QED
      BY <1>1, <2>1, <2>3 DEF Distance
  <1>6. CASE Exit
    BY <1>1, <1>6 DEF Exit, Distance, InFlight, Depth
  <1>7. CASE (\E layout \in Layouts : AllocNoMem(layout)) \/ SetupInsufficientSlots \/ Terminated
    BY <1>7 DEF AllocNoMem, SetupInsufficientSlots, Terminated
  <1>8. CASE \/ \E layout \in Layouts : AllocateStacked(layout)
             \/ \E slot \in Slots : SetupCallback(slot)
             \/ AllocateReturn \/ SetupReturn \/ Execute
             \/ \E payload \in Payloads : Panic(payload)
    BY <1>1, <1>8 DEF AllocateStacked, SetupCallback, AllocateReturn, SetupReturn, Execute, Panic,
                      UserCode
  <1>9. CASE \/ \E spill \in Spills : Invoke(spill) \/ InvokeStackOverflow(spill)
             \/ \E slot \in Slots, sp \in StackAddress : CallbackEnter(slot, sp)
             \/ CallbackReturn
    BY <1>1, <1>9 DEF Invoke, InvokeStackOverflow, CallbackEnter, CallbackReturn
  <1> QED
    BY <1>2, <1>3, <1>4, <1>5, <1>6, <1>7, <1>8, <1>9 DEF Next

\* While a panic is under way nothing happens but its way to the top: every step
\* that does not catch it keeps it and brings it nearer, through execute, the
\* trampoline and lfi_callback_handler, so that it arrives in finitely many.
THEOREM PanicAdvances ==
    Spec => [][InFlight => Catch \/ (InFlight' /\ Distance \in Nat /\ Distance' < Distance)]_vars
  <1>1. ASSUME IInv, [Next]_vars, vars' # vars, InFlight, ~Catch
        PROVE  InFlight' /\ Distance \in Nat /\ Distance' < Distance
    <2>1. Distance \in Nat
      BY <1>1, TopFacts DEF IInv, Distance
    <2> QED
      BY <1>1, <2>1, AdvanceStep
  <1>2. IInv /\ [Next]_vars =>
            [InFlight => Catch \/ (InFlight' /\ Distance \in Nat /\ Distance' < Distance)]_vars
    BY <1>1
  <1> QED
    BY <1>2, Invariance, PTL DEF Spec

-----------------------------------------------------------------------------
(* What calls leave behind where no panic is caught *)

Calm == panic = NoPanic /\ cpo = NoPanic

\* The calls of setup_callback, by slot.
HasHandler(slot) ==
    slot \in StaticSlots
    \/ \E i \in 1 .. Depth : frames[i].kind = "setup" /\ frames[i].slot = slot

\* Each call will put back the pointer it was entered with, which is the one the
\* call below it runs with.
Restores(i) ==
    /\ frames[i].kind # "callback" /\ i = 1 => frames[i].saved = StackTop
    /\ frames[i].kind # "callback" /\ i > 1 => frames[i].saved = frames[i - 1].sp
    /\ frames[i].kind = "setup" => frames[i].sp = frames[i].saved

\* LFIRegs.rsp is where the innermost call runs.
Restored ==
    /\ mode \in {"host", "invoking", "exiting"} =>
          /\ Depth = 0 => rsp = StackTop
          /\ Depth > 0 => rsp = frames[Depth].sp
    /\ mode \in {"invoking", "exiting"} => frames[Depth].sp = frames[Depth].saved

RestoreInv ==
    Calm => /\ \A slot \in registered : HasHandler(slot)
            /\ \A i \in 1 .. Depth : Restores(i)
            /\ Restored

\* A new call
LEMMA RestorePush ==
    ASSUME TypeOK, \A i \in 1 .. Depth : Restores(i), NEW f \in Frame,
           Depth' = Depth + 1, frames'[Depth + 1] = f,
           \A i \in 1 .. Depth : frames'[i] = frames[i],
           f.kind # "callback" /\ Depth = 0 => f.saved = StackTop,
           f.kind # "callback" /\ Depth > 0 => f.saved = frames[Depth].sp,
           f.kind = "setup" => f.sp = f.saved
    PROVE  \A i \in 1 .. Depth' : Restores(i)'
  <1>1. Depth \in Nat
    BY TopFacts
  <1> SUFFICES ASSUME NEW i \in 1 .. Depth' PROVE Restores(i)'
    OBVIOUS
  <1>2. CASE i = Depth + 1
    <2>1. Depth > 0 => frames'[Depth] = frames[Depth]
      BY <1>1
    <2>2. i - 1 = Depth /\ (i = 1 => Depth = 0) /\ (i > 1 => Depth > 0)
      BY <1>1, <1>2
    <2> QED
      BY <1>2, <2>1, <2>2 DEF Restores
  <1>3. CASE i \in 1 .. Depth
    <2>1. i > 1 => i - 1 \in 1 .. Depth
      BY <1>1, <1>3
    <2>2. frames'[i] = frames[i] /\ (i > 1 => frames'[i - 1] = frames[i - 1])
      BY <1>3, <2>1
    <2> QED
      BY <1>3, <2>2 DEF Restores
  <1> QED
    BY <1>1, <1>2, <1>3

\* Calls that stay, in this order
LEMMA RestoreKeep ==
    ASSUME TypeOK, \A i \in 1 .. Depth : Restores(i), Depth' \in Nat, Depth' <= Depth,
           \A i \in 1 .. Depth' : frames'[i] = frames[i]
    PROVE  \A i \in 1 .. Depth' : Restores(i)'
  <1> SUFFICES ASSUME NEW i \in 1 .. Depth' PROVE Restores(i)'
    OBVIOUS
  <1>1. i \in 1 .. Depth /\ (i > 1 => i - 1 \in 1 .. Depth')
    BY TopFacts
  <1>2. frames'[i] = frames[i] /\ (i > 1 => frames'[i - 1] = frames[i - 1])
    BY <1>1
  <1> QED
    BY <1>1, <1>2 DEF Restores

\* A change to the innermost call
LEMMA RestoreEdit ==
    ASSUME TypeOK, frames # <<>>, \A i \in 1 .. Depth : Restores(i), NEW f \in Frame,
           Depth' = Depth, frames'[Depth] = f, f.kind = "execute",
           frames[Depth].kind = "execute", f.saved = frames[Depth].saved,
           \A i \in 1 .. Depth - 1 : frames'[i] = frames[i]
    PROVE  \A i \in 1 .. Depth' : Restores(i)'
  <1>1. Depth \in Nat /\ Depth >= 1
    BY TopFacts
  <1> SUFFICES ASSUME NEW i \in 1 .. Depth' PROVE Restores(i)'
    OBVIOUS
  <1>2. i > 1 => i - 1 \in 1 .. Depth - 1
    BY <1>1
  <1>3. i > 1 => frames'[i - 1] = frames[i - 1]
    BY <1>2
  <1>4. CASE i = Depth
    BY <1>1, <1>3, <1>4 DEF Restores
  <1>5. CASE i \in 1 .. Depth - 1
    <2>1. frames'[i] = frames[i] /\ i \in 1 .. Depth
      BY <1>1, <1>5
    <2> QED
      BY <1>3, <2>1 DEF Restores
  <1> QED
    BY <1>1, <1>4, <1>5

\* A slot keeps its handler unless the innermost call goes that set it up.
LEMMA HandlerKeep ==
    ASSUME TypeOK, Depth' \in Nat, NEW slot, HasHandler(slot),
           \A i \in 1 .. Depth : frames[i].kind = "setup" /\ frames[i].slot = slot =>
               i <= Depth' /\ frames'[i] = frames[i]
    PROVE  HasHandler(slot)'
  <1>1. \A i \in 1 .. Depth : i <= Depth' => i \in 1 .. Depth'
    BY TopFacts
  <1> QED
    BY <1>1 DEF HasHandler

\* Where no panic is caught, no step of a calm runtime forgets to restore
\* anything.
LEMMA RestoreStep ==
    ASSUME IInv, RestoreInv, CatchIn = {}, Next
    PROVE  RestoreInv'
  <1> SUFFICES ASSUME Calm' PROVE RestoreInv'
    BY DEF RestoreInv
  <1> USE TopFacts DEF IInv
  <1>1. ASSUME Calm
        PROVE  /\ \A slot \in registered : HasHandler(slot)
               /\ \A i \in 1 .. Depth : Restores(i)
               /\ Restored
    BY <1>1 DEF RestoreInv
  <1>2. ASSUME NEW f \in Frame, Calm, Depth < MaxFrames, frames' = Append(frames, f),
               rsp' = f.sp, f.kind # "callback" => mode = "host" /\ f.saved = rsp,
               f.kind \in {"setup", "execute"} => f.sp = f.saved,
               mode' = "invoking" => f.kind = "execute", mode' # "exiting",
               registered' = registered \cup IF f.kind = "setup" THEN {f.slot} ELSE {}
        PROVE  RestoreInv'
    <2>1. /\ Depth' = Depth + 1 /\ frames'[Depth + 1] = f /\ Depth \in Nat
          /\ \A i \in 1 .. Depth : frames'[i] = frames[i]
      BY <1>2, PushStep
    <2>2. /\ f.kind # "callback" /\ Depth = 0 => f.saved = StackTop
          /\ f.kind # "callback" /\ Depth > 0 => f.saved = frames[Depth].sp
      BY <1>1, <1>2 DEF Restored
    <2>3. \A i \in 1 .. Depth' : Restores(i)'
      BY <1>1, <1>2, <2>1, <2>2, RestorePush
    <2>4. Restored'
      BY <1>2, <2>1 DEF Restored
    <2>5. ASSUME NEW slot \in registered' PROVE HasHandler(slot)'
      <3>1. CASE slot \in registered
        <4>1. HasHandler(slot) /\ Depth' \in Nat
          BY <1>1, <1>2, <2>1, <3>1
        <4>2. \A i \in 1 .. Depth : i <= Depth' /\ frames'[i] = frames[i]
          BY <2>1
        <4> QED
          BY <4>1, <4>2, HandlerKeep
      <3>2. CASE f.kind = "setup" /\ slot = f.slot
        <4>1. Depth + 1 \in 1 .. Depth'
          BY <2>1
        <4> QED
          BY <2>1, <3>2, <4>1 DEF HasHandler
      <3> QED
        BY <1>2, <3>1, <3>2
    <2> QED
      BY <2>3, <2>4, <2>5 DEF RestoreInv
  <1>3. ASSUME Calm, frames # <<>>, frames' = Front(frames),
               /\ registered' \subseteq registered
               /\ Top.kind = "setup" => Top.slot \notin registered',
               mode' \in {"host", "sandbox"},
               mode' = "host" => Top.kind # "callback" /\ rsp' = Top.saved
        PROVE  RestoreInv'
    <2>1. /\ Depth' = Depth - 1 /\ Depth \in Nat /\ Depth >= 1 /\ Top = frames[Depth]
          /\ \A i \in 1 .. Depth - 1 : frames'[i] = frames[i]
      BY <1>3, PopStep
    <2>2. \A i \in 1 .. Depth' : Restores(i)'
      <3>1. Depth' \in Nat /\ Depth' <= Depth /\ \A i \in 1 .. Depth' : frames'[i] = frames[i]
        BY <2>1
      <3> QED
        BY <1>1, <1>3, <3>1, RestoreKeep
    <2>3. Restored'
      <3>1. Restores(Depth) /\ (Depth > 1 => Depth - 1 \in 1 .. Depth - 1)
        BY <1>1, <1>3, <2>1
      <3>2. Depth > 1 => frames'[Depth - 1] = frames[Depth - 1]
        BY <2>1, <3>1
      <3>3. mode' = "host" /\ Depth' = 0 => rsp' = StackTop
        BY <1>3, <2>1, <3>1 DEF Restores
      <3>4. mode' = "host" /\ Depth' > 0 => rsp' = frames'[Depth'].sp
        BY <1>3, <2>1, <3>1, <3>2 DEF Restores
      <3> QED
        BY <1>3, <3>3, <3>4 DEF Restored
    <2>4. ASSUME NEW slot \in registered' PROVE HasHandler(slot)'
      <3>1. HasHandler(slot) /\ ~(frames[Depth].kind = "setup" /\ frames[Depth].slot = slot)
        BY <1>1, <1>3, <2>1
      <3>2. \A i \in 1 .. Depth : i # Depth => i \in 1 .. Depth - 1 /\ i <= Depth'
        BY <2>1
      <3> QED
        BY <2>1, <3>1, <3>2, HandlerKeep
    <2> QED
      BY <2>2, <2>3, <2>4 DEF RestoreInv
  <1>4. ASSUME NEW f \in Frame, Calm, frames # <<>>, frames' = [frames EXCEPT ![Depth] = f],
               f.kind = "execute", Top.kind = "execute", f.saved = Top.saved,
               UNCHANGED registered, mode' \notin {"host", "invoking"},
               mode' = "exiting" => rsp' = f.sp /\ f.sp = f.saved
        PROVE  RestoreInv'
    <2>1. /\ Depth' = Depth /\ frames'[Depth] = f /\ Depth \in Nat /\ Depth >= 1
          /\ Top = frames[Depth]
          /\ \A i \in 1 .. Depth - 1 : frames'[i] = frames[i]
      BY <1>4, EditStep
    <2>2. \A i \in 1 .. Depth' : Restores(i)'
      BY <1>1, <1>4, <2>1, RestoreEdit
    <2>3. Restored'
      BY <1>4, <2>1 DEF Restored
    <2>4. ASSUME NEW slot \in registered' PROVE HasHandler(slot)'
      <3>1. HasHandler(slot) /\ frames[Depth].kind # "setup"
        BY <1>1, <1>4, <2>1
      <3>2. \A i \in 1 .. Depth : i # Depth => i \in 1 .. Depth - 1 /\ i <= Depth'
        BY <2>1
      <3> QED
        BY <2>1, <3>1, <3>2, HandlerKeep
    <2> QED
      BY <2>2, <2>3, <2>4 DEF RestoreInv
  <1>5. ASSUME Calm, UNCHANGED <<frames, registered>>, Restored' PROVE RestoreInv'
    <2>1. UNCHANGED Depth
      BY <1>5 DEF Depth
    <2>2. \A i \in 1 .. Depth' : Restores(i)'
      BY <1>1, <1>5, <2>1 DEF Restores
    <2>3. \A slot \in registered' : HasHandler(slot)'
      BY <1>1, <1>5, <2>1 DEF HasHandler
    <2> QED
      BY <1>5, <2>2, <2>3 DEF RestoreInv
  <1>6. ASSUME UNCHANGED vars PROVE RestoreInv'
    <2>1. Calm /\ Restored
      BY <1>1, <1>6 DEF vars, Calm
    <2>2. Restored'
      BY <1>6, <2>1 DEF vars, Restored, Depth
    <2> QED
      BY <1>5, <1>6, <2>1, <2>2 DEF vars
  <1>7. ASSUME UNCHANGED <<panic, cpo>> PROVE Calm
    BY <1>7 DEF Calm
  <1>8. mode # "unwinding" \/ ~UNCHANGED <<panic, cpo>>
    BY DEF PanicInv, PanicBookkeeping, Calm
  <1>9. ASSUME NEW layout \in Layouts, AllocateStacked(layout) PROVE RestoreInv'
    <2> DEFINE f == [kind |-> "alloc", saved |-> rsp, sp |-> rsp', scope |-> Depth + 1,
                     pred |-> Scope, len |-> layout.size, align |-> layout.align]
    <2>1. rsp \in StackAddress /\ rsp' \in StackAddress
      BY <1>9, AllocateStackedPointer
    <2>2. f \in Frame
      BY <1>9, <2>1, LayoutsAssumption, MaxFramesAssumption
         DEF AllocateStacked, Frame, AllocFrame, Element
    <2>3. Calm /\ registered' = registered \cup {}
      BY <1>7, <1>9 DEF AllocateStacked
    <2> QED
      BY <1>2, <1>9, <2>2, <2>3 DEF AllocateStacked, UserCode
  <1>10. ASSUME NEW slot \in Slots, SetupCallback(slot) PROVE RestoreInv'
    <2> DEFINE f == [kind |-> "setup", saved |-> rsp, sp |-> rsp, scope |-> Scope,
                     slot |-> slot]
    <2>1. f \in Frame
      BY <1>10 DEF SetupCallback, Frame, SetupFrame, TypeOK
    <2>2. Calm
      BY <1>7, <1>10 DEF SetupCallback
    <2> QED
      BY <1>2, <1>10, <2>1, <2>2 DEF SetupCallback, UserCode
  <1>11. CASE Execute
    <2> DEFINE f == [kind |-> "execute", saved |-> rsp, sp |-> rsp, scope |-> Scope,
                     res |-> "NotCalled", aborted |-> FALSE]
    <2>1. f \in Frame
      BY DEF Frame, ExecuteFrame, TypeOK
    <2>2. Calm /\ registered' = registered \cup {}
      BY <1>7, <1>11 DEF Execute
    <2> QED
      BY <1>2, <1>11, <2>1, <2>2 DEF Execute, UserCode
  <1>12. ASSUME NEW slot \in Slots, NEW sp \in StackAddress, CallbackEnter(slot, sp)
         PROVE  RestoreInv'
    <2> DEFINE f == [kind |-> "callback", saved |-> sp, sp |-> sp, scope |-> Depth + 1,
                     pred |-> chainHead, slot |-> slot]
    <2>1. Calm /\ registered' = registered \cup {}
      BY <1>7, <1>12 DEF CallbackEnter
    <2>2. CASE slot \in LiveHandlers /\ chainHead <= Depth
      <3>1. f \in Frame
        BY <1>12, MaxFramesAssumption DEF CallbackEnter, Frame, CallbackFrame, TypeOK, Element
      <3> QED
        BY <1>2, <1>12, <2>1, <2>2, <3>1 DEF CallbackEnter
    <2>3. CASE ~(slot \in LiveHandlers /\ chainHead <= Depth)
      <3>1. Restored'
        BY <1>12, <2>3 DEF CallbackEnter, Restored
      <3> QED
        BY <1>5, <1>12, <2>1, <2>3, <3>1 DEF CallbackEnter
    <2> QED
      BY <2>2, <2>3
  <1>13. CASE AllocateReturn \/ CallbackReturn
    BY <1>3, <1>7, <1>13 DEF AllocateReturn, CallbackReturn, UserCode
  <1>14. CASE SetupReturn
    <2>1. Calm /\ frames # <<>> /\ Top.kind = "setup" /\ mode = "host" /\ Depth \in 1 .. Depth
      BY <1>7, <1>14 DEF SetupReturn, UserCode
    <2>2. rsp' = Top.saved
      BY <1>1, <1>14, <2>1 DEF SetupReturn, Restored, Restores
    <2> QED
      BY <1>3, <1>14, <2>1, <2>2 DEF SetupReturn
  <1>15. CASE ExecuteReturn
    <2>1. /\ frames # <<>> /\ Top.kind = "execute" /\ mode = "exiting"
          /\ panic = NoPanic /\ (cpo # NoPanic => Top.aborted)
      BY <1>15 DEF ExecuteReturn, Shape, PanicInv, PanicBookkeeping
    <2>2. Calm /\ mode' = "host"
      <3>1. panic' = NoPanic /\ Inconsistent # NoPanic
        BY PayloadsAssumption DEF Calm
      <3>2. cpo = NoPanic
        BY <1>15, <3>1 DEF ExecuteReturn
      <3> QED
        BY <1>15, <2>1, <3>1, <3>2 DEF ExecuteReturn, Calm
    <2>3. rsp' = Top.saved
      BY <1>1, <1>15, <2>1, <2>2 DEF ExecuteReturn, Restored
    <2> QED
      BY <1>3, <1>15, <2>1, <2>2, <2>3 DEF ExecuteReturn
  <1>16. ASSUME NEW spill \in Spills, Invoke(spill) PROVE RestoreInv'
    <2> DEFINE f == [frames[Depth] EXCEPT !.saved = rsp, !.sp = rsp']
    <2>1. frames # <<>> /\ Top.kind = "execute" /\ Top = frames[Depth] /\ frames[Depth] \in Frame
      BY <1>16 DEF Invoke, Shape
    <2>2. f \in Frame /\ f.kind = "execute" /\ f.saved = rsp
      BY <1>16, <2>1, InvokePointer, ExecuteFacts, FrameFacts DEF ExecuteFrame
    <2>3. Calm /\ rsp = Top.saved
      BY <1>1, <1>7, <1>16, <2>1 DEF Invoke, Restored
    <2> QED
      BY <1>4, <1>16, <2>1, <2>2, <2>3 DEF Invoke
  <1>17. ASSUME NEW spill \in Spills, InvokeStackOverflow(spill) PROVE RestoreInv'
    <2> DEFINE f == [frames[Depth] EXCEPT !.res = "StackOverflow"]
    <2>1. frames # <<>> /\ Top.kind = "execute" /\ Top = frames[Depth] /\ frames[Depth] \in Frame
      BY <1>17 DEF InvokeStackOverflow, Shape
    <2>2. f \in Frame /\ f.kind = "execute" /\ f.saved = Top.saved /\ f.sp = Top.sp
      BY <2>1, ExecuteFacts, FrameFacts DEF ExecuteFrame
    <2>3. Calm /\ rsp = Top.sp /\ Top.sp = Top.saved
      BY <1>1, <1>7, <1>17, <2>1 DEF InvokeStackOverflow, Restored
    <2> QED
      BY <1>4, <1>17, <2>1, <2>2, <2>3 DEF InvokeStackOverflow
  <1>18. CASE TrampolineReturn
    <2> DEFINE f == [frames[Depth] EXCEPT !.sp = Top.saved, !.res = "NoError"]
    <2>1. frames # <<>> /\ Top.kind = "execute" /\ Top = frames[Depth] /\ frames[Depth] \in Frame
      BY <1>18 DEF TrampolineReturn, Shape
    <2>2. f \in Frame /\ f.kind = "execute" /\ f.saved = Top.saved /\ f.sp = Top.saved
      BY <2>1, ExecuteFacts, FrameFacts DEF ExecuteFrame
    <2>3. Calm
      BY <1>7, <1>18 DEF TrampolineReturn
    <2> QED
      BY <1>4, <1>18, <2>1, <2>2, <2>3 DEF TrampolineReturn
  <1>19. CASE AllocateUnwind \/ SetupUnwind \/ Exit
    BY <1>8, <1>19 DEF AllocateUnwind, SetupUnwind, Exit
  <1>20. CASE CallbackUnwind
    <2>1. panic # NoPanic /\ (cpo' = panic \/ cpo' # NoPanic)
      BY <1>20 DEF CallbackUnwind, PanicInv, PanicBookkeeping
    <2> QED
      BY <2>1 DEF Calm
  <1>21. ASSUME NEW p \in Payloads, Panic(p) PROVE RestoreInv'
    BY <1>21, PayloadsAssumption DEF Panic, Calm
  <1>22. CASE Catch
    BY <1>22 DEF Catch
  <1>23. CASE (\E layout \in Layouts : AllocNoMem(layout)) \/ SetupInsufficientSlots \/ Terminated
    BY <1>6, <1>23 DEF AllocNoMem, SetupInsufficientSlots, Terminated
  <1> QED
    BY <1>9, <1>10, <1>11, <1>12, <1>13, <1>14, <1>15, <1>16, <1>17, <1>18, <1>19, <1>20, <1>21,
       <1>22, <1>23 DEF Next

\* Where no panic is caught, everything a call sets up is there until it
\* returns.
LEMMA RestoreInvariance ==
    ASSUME CatchIn = {}
    PROVE  Spec => [](IInv /\ RestoreInv)
  <1>1. Init => RestoreInv
    <2>1. ASSUME Init PROVE Depth = 0 /\ rsp = StackTop /\ mode = "host" /\ registered = StaticSlots
      BY <2>1 DEF Init, Depth
    <2> QED
      BY <2>1 DEF RestoreInv, HasHandler, Restores, Restored
  <1>2. IInv /\ RestoreInv /\ [Next]_vars => RestoreInv'
    <2>1. ASSUME UNCHANGED vars, RestoreInv PROVE RestoreInv'
      <3>1. /\ frames' = frames /\ mode' = mode /\ rsp' = rsp /\ registered' = registered
            /\ panic' = panic /\ cpo' = cpo /\ Depth' = Depth
        BY <2>1 DEF vars, Depth
      <3> QED
        BY <2>1, <3>1 DEF RestoreInv, Calm, HasHandler, Restores, Restored
    <2> QED
      BY <2>1, RestoreStep
  <1>3. Spec => []IInv
    BY Invariance
  <1> QED
    BY <1>1, <1>2, <1>3, PTL DEF Spec

\* User code always runs with the foreign stack pointer its innermost call set
\* ("Finally, restore the original foreign stack pointer"), unless a panic has
\* been caught: the part of allocate_stacked_untracked_mut that restores it is
\* skipped by unwinding.
THEOREM StackAlwaysRestored ==
    ASSUME CatchIn = {}
    PROVE  Spec => []StackRestored
  <1>1. IInv /\ RestoreInv => StackRestored
    <2> SUFFICES ASSUME IInv, RestoreInv, mode = "host"
                 PROVE  rsp = IF frames = <<>> THEN StackTop ELSE Top.sp
      BY DEF StackRestored
    <2>1. Restored
      BY DEF IInv, PanicInv, PanicBookkeeping, RestoreInv, Calm
    <2> QED
      BY <2>1, TopFacts DEF IInv, Restored
  <1>2. Spec => [](IInv /\ RestoreInv)
    BY RestoreInvariance
  <1> QED
    BY <1>1, <1>2, PTL

\* While foreign code runs, every slot it can call has a live handler
\* (setup_callback deregisters it "first, before dropping the
\* lfi_callback_handler"), unless a panic has been caught: unwinding drops the
\* handler and does not deregister the slot.
THEOREM NoHandlerDropped ==
    ASSUME CatchIn = {}
    PROVE  Spec => []NoDroppedHandler
  <1>1. IInv /\ RestoreInv => NoDroppedHandler
    <2> SUFFICES ASSUME IInv, RestoreInv, mode = "sandbox"
                 PROVE  registered = LiveHandlers
      BY DEF NoDroppedHandler
    <2>1. \A slot \in registered : HasHandler(slot)
      BY DEF IInv, PanicInv, PanicBookkeeping, RestoreInv, Calm
    <2>2. DOMAIN frames = 1 .. Depth
      BY DEF IInv, TypeOK, Depth
    <2>3. \A slot : slot \in LiveHandlers <=> HasHandler(slot)
      BY <2>2 DEF LiveHandlers, HasHandler
    <2>4. \A slot : HasHandler(slot) => slot \in registered
      BY DEF HasHandler, IInv, HandlerInv
    <2> QED
      BY <2>1, <2>3, <2>4
  <1>2. Spec => [](IInv /\ RestoreInv)
    BY RestoreInvariance
  <1> QED
    BY <1>1, <1>2, PTL

=============================================================================
