--------------------------- MODULE RuntimeProofs ---------------------------
(* Safety of Runtime, proved for every value of its constants. *)
EXTENDS Runtime, SequenceTheorems, TLAPS

-----------------------------------------------------------------------------
(* Sequences of calls *)

\* Front drops the last element and keeps the others (SequencesExt).
LEMMA FrontFacts ==
    ASSUME NEW S, NEW s \in Seq(S), s # <<>>
    PROVE  /\ Front(s) \in Seq(S)
           /\ Len(Front(s)) = Len(s) - 1
           /\ \A i \in 1 .. Len(s) - 1 : Front(s)[i] = s[i]
  <1> DEFINE n == Len(s) - 1
  <1>1. n \in Nat /\ 1 \in Int /\ \A i \in 1 .. n : s[i] \in S
    OBVIOUS
  <1> HIDE DEF n
  <1>2. /\ SubSeq(s, 1, n) \in Seq(S)
        /\ Len(SubSeq(s, 1, n)) = (IF 1 <= n THEN n - 1 + 1 ELSE 0)
        /\ \A i \in 1 .. n - 1 + 1 : SubSeq(s, 1, n)[i] = s[1 + i - 1]
    BY <1>1, SubSeqProperties
  <1>3. /\ SubSeq(s, 1, n) \in Seq(S)
        /\ Len(SubSeq(s, 1, n)) = n
        /\ \A i \in 1 .. n : SubSeq(s, 1, n)[i] = s[i]
    BY <1>1, <1>2
  <1> QED
    BY <1>3 DEF Front, n

\* The last element of a sequence that has one.
LEMMA LastFacts ==
    ASSUME NEW S, NEW s \in Seq(S), s # <<>>
    PROVE  Len(s) \in Nat \ {0} /\ Last(s) = s[Len(s)] /\ Last(s) \in S
  BY DEF Last

\* Append adds one element and keeps the others.
LEMMA AppendFacts ==
    ASSUME NEW S, NEW s \in Seq(S), NEW e \in S
    PROVE  /\ Append(s, e) \in Seq(S)
           /\ Len(Append(s, e)) = Len(s) + 1
           /\ Append(s, e)[Len(s) + 1] = e
           /\ \A i \in 1 .. Len(s) : Append(s, e)[i] = s[i]
  OBVIOUS

\* Replacing the last element keeps the others.
LEMMA ReplaceLastFacts ==
    ASSUME NEW S, NEW s \in Seq(S), s # <<>>, NEW e \in S
    PROVE  LET t == [s EXCEPT ![Len(s)] = e]
           IN  /\ t \in Seq(S)
               /\ Len(t) = Len(s)
               /\ t[Len(s)] = e
               /\ \A i \in 1 .. Len(s) - 1 : t[i] = s[i]
  <1>1. Len(s) \in 1 .. Len(s)
    OBVIOUS
  <1> QED
    BY <1>1, ExceptSeq

\* Dropping the last element and replacing the one before it.
LEMMA PopReplaceFacts ==
    ASSUME NEW S, NEW s \in Seq(S), Len(s) > 1, NEW e \in S
    PROVE  LET t == [Front(s) EXCEPT ![Len(s) - 1] = e]
           IN  /\ t \in Seq(S)
               /\ Len(t) = Len(s) - 1
               /\ t[Len(s) - 1] = e
               /\ \A i \in 1 .. Len(s) - 2 : t[i] = s[i]
  <1>1. PICK r \in Seq(S) : r = Front(s)
    BY FrontFacts
  <1>2. Len(s) \in Nat /\ Len(r) = Len(s) - 1 /\ r # <<>>
        /\ \A i \in 1 .. Len(s) - 1 : r[i] = s[i]
    BY <1>1, FrontFacts
  <1> DEFINE t == [r EXCEPT ![Len(r)] = e]
  <1>3. t \in Seq(S) /\ Len(t) = Len(r) /\ t[Len(r)] = e
        /\ \A i \in 1 .. Len(r) - 1 : t[i] = r[i]
    BY <1>2, ReplaceLastFacts
  <1>4. t = [Front(s) EXCEPT ![Len(s) - 1] = e]
    BY <1>1, <1>2
  <1> HIDE DEF t
  <1> QED
    BY <1>2, <1>3, <1>4

-----------------------------------------------------------------------------
(* Arithmetic *)

\* allocate_stacked_untracked_mut: a pointer that passes the check against
\* box_min_addr has room for the layout below the old stack pointer.
LEMMA AllocPointerBelow ==
    ASSUME NEW fsp \in Address, NEW layout \in Layouts, AllocFits(fsp, layout, BoxMin)
    PROVE  /\ AllocPointer(fsp, layout) \in Int
           /\ BoxMin <= AllocPointer(fsp, layout)
           /\ AllocPointer(fsp, layout) + layout.size <= fsp
  BY BoxAssumption, LayoutsAssumption, AddrLimitAssumption
     DEF AllocFits, AllocPointer, SaturatingSub, Address

\* invoke: a stack pointer that passes the signed comparison with box_min_addr
\* is in the sandbox, with room for the spilled arguments.
LEMMA SpillPointerBelow ==
    ASSUME NEW fsp \in StackAddress, NEW spill \in Spills, SpillFits(fsp, spill, BoxMin)
    PROVE  /\ SpillPointer(fsp, spill) \in Int
           /\ BoxMin <= SpillPointer(fsp, spill)
           /\ SpillPointer(fsp, spill) + spill <= fsp
  BY BoxAssumption, SpillsAssumption, AddrLimitAssumption, StackAlignAssumption
     DEF SpillFits, SpillPointer, AlignDown, Signed, Address, StackAddress

-----------------------------------------------------------------------------
(* The inductive invariant *)

\* Which call can be above which, and which one is innermost when.
Shape ==
    /\ \A i \in 1 .. Depth :
          /\ frames[i].kind = "callback" => i > 1 /\ frames[i - 1].kind = "execute"
          /\ frames[i].kind = "execute" /\ i < Depth => frames[i + 1].kind = "callback"
          /\ frames[i].kind \in {"alloc", "callback"} => frames[i].scope = i
          /\ frames[i].scope <= i
    /\ mode \in {"invoking", "sandbox", "aborting", "exiting"} =>
          frames # <<>> /\ Top.kind = "execute"
    /\ mode \in {"host", "unwinding"} => frames = <<>> \/ Top.kind # "execute"

\* The pointers of the calls: each one starts where or below the one under it
\* runs, and LFIRegs.rsp is below them all.
StackInv ==
    /\ \A i \in 1 .. Depth :
          /\ rsp <= frames[i].sp /\ frames[i].sp <= frames[i].saved
          /\ frames[i].kind = "alloc" => frames[i].sp + frames[i].len <= frames[i].saved
    /\ \A i, j \in 1 .. Depth : i < j => frames[j].saved <= frames[i].sp

\* Which execute has been aborted when.
PanicInv ==
    /\ PanicBookkeeping
    /\ mode = "aborting" => cpo # NoPanic
    /\ mode = "exiting" => ((cpo # NoPanic) <=> Top.aborted)
    /\ \A i \in 1 .. Depth :
          frames[i].kind = "execute" /\ frames[i].aborted =>
              i = Depth /\ mode \in {"aborting", "exiting"}

\* Every call above an execute has a scope above it as well; so a chain head
\* that an execute left behind dangles for all executes below it.
ChainInv ==
    /\ \A i \in 1 .. Depth :
          frames[i].kind = "callback" => frames[i].pred = frames[i - 1].scope
    /\ \A i, j \in 1 .. Depth :
          i < j /\ frames[i].kind = "execute" => frames[j].scope > i
    /\ \A i \in 1 .. Depth :
          frames[i].kind = "execute" => chainHead = frames[i].scope \/ chainHead > i

\* The slots of the calls to setup_callback.
HandlerInv ==
    /\ StaticSlots \subseteq registered
    /\ \A i \in 1 .. Depth :
          frames[i].kind = "setup" => frames[i].slot \in registered \ StaticSlots
    /\ \A i, j \in 1 .. Depth :
          frames[i].kind = "setup" /\ frames[j].kind = "setup" /\ i # j =>
              frames[i].slot # frames[j].slot

IInv == TypeOK /\ Shape /\ StackInv /\ PanicInv /\ ChainInv /\ HandlerInv

-----------------------------------------------------------------------------
(* What a step does to the calls *)

\* The fields of a call, by its kind.
LEMMA FrameFacts ==
    ASSUME NEW f \in Frame
    PROVE  /\ f.kind \in {"alloc", "setup", "execute", "callback"}
           /\ f.saved \in StackAddress /\ f.sp \in StackAddress /\ f.scope \in Element
           /\ f.kind = "alloc" => f \in AllocFrame
           /\ f.kind = "setup" => f \in SetupFrame
           /\ f.kind = "execute" => f \in ExecuteFrame
           /\ f.kind = "callback" => f \in CallbackFrame
  BY DEF Frame, AllocFrame, SetupFrame, ExecuteFrame, CallbackFrame

\* The changes to an execute leave it one.
LEMMA ExecuteFacts ==
    ASSUME NEW f \in Frame, f.kind = "execute"
    PROVE  /\ \A saved, sp \in StackAddress : [f EXCEPT !.saved = saved, !.sp = sp] \in Frame
           /\ \A sp \in StackAddress : [f EXCEPT !.sp = sp, !.res = "NoError"] \in Frame
           /\ [f EXCEPT !.res = "StackOverflow"] \in Frame
           /\ [f EXCEPT !.aborted = TRUE] \in Frame
  <1>1. f \in ExecuteFrame
    BY FrameFacts
  <1> QED
    BY <1>1 DEF Frame, ExecuteFrame

\* The innermost call and the scope of its closure.
LEMMA TopFacts ==
    ASSUME TypeOK
    PROVE  /\ Depth \in Nat
           /\ Scope \in Element
           /\ frames # <<>> => Depth >= 1 /\ Top = frames[Depth] /\ Top \in Frame
           /\ frames = <<>> => Depth = 0
           /\ TopKind # "top" => frames # <<>> /\ TopKind = Top.kind
           /\ \A i \in 1 .. Depth : frames[i] \in Frame
  <1>1. frames \in Seq(Frame) /\ Depth \in Nat
    BY DEF TypeOK, Depth
  <1>2. frames # <<>> => Depth >= 1 /\ Top = frames[Depth] /\ Top \in Frame
    BY <1>1, LastFacts DEF Depth, Top
  <1>3. frames # <<>> => Top.scope \in Element
    BY <1>2, FrameFacts
  <1> QED
    BY <1>1, <1>2, <1>3, MaxFramesAssumption DEF Depth, Scope, TopKind, Element

\* Addresses and indices are numbers, and a callback has an execute below it.
LEMMA NumberFacts ==
    ASSUME TypeOK
    PROVE  /\ rsp \in Int /\ chainHead \in Int
           /\ \A i \in 1 .. Depth :
                 /\ i \in Int /\ i <= Depth
                 /\ frames[i].sp \in Int /\ frames[i].saved \in Int /\ frames[i].scope \in Int
                 /\ frames[i].kind = "alloc" => frames[i].len \in Int
  <1>1. \A i \in 1 .. Depth : frames[i] \in Frame
    BY TopFacts
  <1>2. rsp \in StackAddress /\ chainHead \in Element /\ Depth \in Nat
    BY TopFacts DEF TypeOK
  <1>3. ASSUME NEW f \in Frame
        PROVE  /\ f.sp \in Int /\ f.saved \in Int /\ f.scope \in Int
               /\ f.kind = "alloc" => f.len \in Int
    BY FrameFacts DEF StackAddress, Element, AllocFrame
  <1> QED
    BY <1>1, <1>2, <1>3 DEF StackAddress, Element

\* The scope of the innermost closure is above every execute that is not done.
LEMMA ScopeFacts ==
    ASSUME TypeOK, Shape, frames = <<>> \/ Top.kind # "execute"
    PROVE  /\ Scope \in Int /\ Scope <= Depth
           /\ ChainInv => \A i \in 1 .. Depth : frames[i].kind = "execute" => Scope > i
  <1>1. CASE frames = <<>>
    BY <1>1, TopFacts DEF Scope
  <1>2. CASE frames # <<>>
    <2>1. Depth \in 1 .. Depth /\ Scope = frames[Depth].scope /\ Depth \in Nat
          /\ frames[Depth].kind # "execute" /\ frames[Depth].scope \in Int
      BY <1>2, TopFacts, NumberFacts DEF Scope
    <2>2. Scope <= Depth
      BY <2>1 DEF Shape
    <2>3. ASSUME ChainInv, NEW i \in 1 .. Depth, frames[i].kind = "execute"
          PROVE  Scope > i
      BY <2>1, <2>3 DEF ChainInv
    <2> QED
      BY <2>1, <2>2, <2>3
  <1> QED
    BY <1>1, <1>2

\* A new call.
LEMMA PushStep ==
    ASSUME TypeOK, Depth < MaxFrames, NEW f \in Frame, frames' = Append(frames, f)
    PROVE  /\ frames' \in Seq(Frame) /\ frames' # <<>>
           /\ Depth' = Depth + 1 /\ Depth' <= MaxFrames
           /\ frames'[Depth + 1] = f /\ Top' = f
           /\ \A i \in 1 .. Depth : frames'[i] = frames[i]
  BY AppendFacts, MaxFramesAssumption DEF TypeOK, Depth, Top, Last

\* The innermost call returns or is unwound.
LEMMA PopStep ==
    ASSUME TypeOK, frames # <<>>, frames' = Front(frames)
    PROVE  /\ frames' \in Seq(Frame)
           /\ Depth' = Depth - 1 /\ Depth' <= MaxFrames
           /\ \A i \in 1 .. Depth - 1 : frames'[i] = frames[i]
           /\ frames' # <<>> => Depth > 1 /\ Top' = frames[Depth - 1]
  <1>1. /\ frames' \in Seq(Frame)
        /\ Len(frames') = Len(frames) - 1
        /\ \A i \in 1 .. Len(frames) - 1 : frames'[i] = frames[i]
    BY FrontFacts DEF TypeOK
  <1>2. frames' # <<>> => Len(frames') \in Nat \ {0} /\ Last(frames') = frames'[Len(frames')]
    BY <1>1, LastFacts
  <1> QED
    BY <1>1, <1>2, MaxFramesAssumption DEF TypeOK, Depth, Top

\* A change to the innermost call.
LEMMA EditStep ==
    ASSUME TypeOK, frames # <<>>, NEW f \in Frame, frames' = [frames EXCEPT ![Depth] = f]
    PROVE  /\ frames' \in Seq(Frame) /\ frames' # <<>>
           /\ Depth' = Depth
           /\ frames'[Depth] = f /\ Top' = f
           /\ \A i \in 1 .. Depth - 1 : frames'[i] = frames[i]
  <1>1. /\ frames' \in Seq(Frame)
        /\ Len(frames') = Len(frames)
        /\ frames'[Len(frames)] = f
        /\ \A i \in 1 .. Len(frames) - 1 : frames'[i] = frames[i]
    BY ReplaceLastFacts DEF TypeOK, Depth
  <1>2. Len(frames) \in Nat \ {0}
    BY LastFacts DEF TypeOK
  <1> QED
    BY <1>1, <1>2 DEF Depth, Top, Last

\* A callback is unwound, and the execute below it changes.
LEMMA PopEditStep ==
    ASSUME TypeOK, Depth > 1, NEW f \in Frame,
           frames' = [Front(frames) EXCEPT ![Depth - 1] = f]
    PROVE  /\ frames' \in Seq(Frame) /\ frames' # <<>>
           /\ Depth' = Depth - 1 /\ Depth' <= MaxFrames
           /\ frames'[Depth - 1] = f /\ Top' = f
           /\ \A i \in 1 .. Depth - 2 : frames'[i] = frames[i]
  <1>1. /\ frames' \in Seq(Frame)
        /\ Len(frames') = Depth - 1
        /\ frames'[Depth - 1] = f
        /\ \A i \in 1 .. Depth - 2 : frames'[i] = frames[i]
        /\ Depth \in Nat /\ Depth <= MaxFrames
    BY PopReplaceFacts DEF TypeOK, Depth
  <1> QED
    BY <1>1, MaxFramesAssumption DEF Depth, Top, Last

-----------------------------------------------------------------------------
(* Type correctness and the shape of the calls *)

\* An allocation that succeeds moves LFIRegs.rsp down by its size at least, and keeps
\* it in the stack.
LEMMA AllocateStackedPointer ==
    ASSUME TypeOK, NEW layout \in Layouts, AllocateStacked(layout)
    PROVE  /\ rsp \in StackAddress /\ rsp' \in StackAddress
           /\ layout.size \in Nat /\ rsp' + layout.size <= rsp
  <1>1. AllocFits(rsp, layout, BoxMin) /\ rsp' = AllocPointer(rsp, layout)
    BY DEF AllocateStacked
  <1>2. rsp \in StackAddress
    BY DEF TypeOK
  <1>3. rsp \in Address /\ rsp \in Nat /\ BoxMin \in Nat /\ StackTop \in Nat /\ rsp <= StackTop
    BY <1>2, BoxAssumption, AddrLimitAssumption DEF StackAddress, Address
  <1>4. rsp' \in Int /\ BoxMin <= rsp' /\ rsp' + layout.size <= rsp
    BY <1>1, <1>3, AllocPointerBelow
  <1>5. layout.size \in Nat
    BY LayoutsAssumption
  <1>6. rsp' <= StackTop
    BY <1>3, <1>4, <1>5
  <1>7. rsp' \in StackAddress
    BY <1>3, <1>4, <1>6 DEF StackAddress
  <1> QED
    BY <1>2, <1>4, <1>5, <1>7

\* So does a spill that succeeds.
LEMMA InvokePointer ==
    ASSUME TypeOK, NEW spill \in Spills, Invoke(spill)
    PROVE  rsp \in StackAddress /\ rsp' \in StackAddress /\ rsp' <= rsp
  <1>1. SpillFits(rsp, spill, BoxMin) /\ rsp' = SpillPointer(rsp, spill)
    BY DEF Invoke
  <1>2. rsp \in StackAddress
    BY DEF TypeOK
  <1>3. rsp \in Nat /\ BoxMin \in Nat /\ StackTop \in Nat /\ rsp <= StackTop
    BY <1>2, BoxAssumption DEF StackAddress, Address
  <1>4. rsp' \in Int /\ BoxMin <= rsp' /\ rsp' + spill <= rsp
    BY <1>1, <1>2, SpillPointerBelow
  <1>5. spill \in Nat
    BY SpillsAssumption
  <1>6. rsp' <= rsp
    <2>1. \A m \in Int, n \in Nat, k \in Nat : m + n <= k => m <= k
      OBVIOUS
    <2> QED
      BY <1>3, <1>4, <1>5, <2>1
  <1>7. rsp' <= StackTop
    BY <1>3, <1>4, <1>6
  <1>8. rsp' \in StackAddress
    BY <1>3, <1>4, <1>7 DEF StackAddress
  <1> QED
    BY <1>2, <1>6, <1>8

\* Every step keeps the types of all variables.
LEMMA TypeStep ==
    ASSUME TypeOK, Shape, PanicBookkeeping, Next
    PROVE  TypeOK'
  <1> USE TopFacts DEF Mode
  <1>1. ASSUME NEW layout \in Layouts, AllocateStacked(layout) PROVE TypeOK'
    <2> DEFINE f == [kind |-> "alloc", saved |-> rsp, sp |-> rsp', scope |-> Depth + 1,
                     pred |-> Scope, len |-> layout.size, align |-> layout.align]
    <2>1. rsp \in StackAddress /\ rsp' \in StackAddress
      BY <1>1, AllocateStackedPointer
    <2>2. f \in Frame
      BY <1>1, <2>1, LayoutsAssumption, MaxFramesAssumption
         DEF AllocateStacked, Frame, AllocFrame, Element
    <2>3. frames' = Append(frames, f) /\ Depth < MaxFrames
      BY <1>1 DEF AllocateStacked
    <2> QED
      BY <1>1, <2>1, <2>2, <2>3, PushStep DEF TypeOK, AllocateStacked
  <1>2. ASSUME NEW layout \in Layouts, AllocNoMem(layout) PROVE TypeOK'
    BY <1>2 DEF AllocNoMem, TypeOK, vars, Depth
  <1>3. CASE AllocateReturn
    BY <1>3, PopStep, FrameFacts DEF TypeOK, AllocateReturn
  <1>4. CASE AllocateUnwind
    BY <1>4, PopStep DEF TypeOK, AllocateUnwind
  <1>5. ASSUME NEW slot \in Slots, SetupCallback(slot) PROVE TypeOK'
    <2> DEFINE f == [kind |-> "setup", saved |-> rsp, sp |-> rsp, scope |-> Scope,
                     slot |-> slot]
    <2>1. f \in Frame
      BY <1>5 DEF SetupCallback, Frame, SetupFrame, TypeOK
    <2>2. frames' = Append(frames, f) /\ Depth < MaxFrames
      BY <1>5 DEF SetupCallback
    <2> QED
      BY <1>5, <2>1, <2>2, PushStep DEF TypeOK, SetupCallback
  <1>6. CASE SetupInsufficientSlots
    BY <1>6 DEF SetupInsufficientSlots, TypeOK, vars, Depth
  <1>7. CASE SetupReturn
    BY <1>7, PopStep DEF TypeOK, SetupReturn
  <1>8. CASE SetupUnwind
    BY <1>8, PopStep DEF TypeOK, SetupUnwind
  <1>9. CASE Execute
    <2> DEFINE f == [kind |-> "execute", saved |-> rsp, sp |-> rsp, scope |-> Scope,
                     res |-> "NotCalled", aborted |-> FALSE]
    <2>1. f \in Frame
      BY DEF Frame, ExecuteFrame, TypeOK
    <2>2. frames' = Append(frames, f) /\ Depth < MaxFrames
      BY <1>9 DEF Execute
    <2> QED
      BY <1>9, <2>1, <2>2, PushStep, MaxFramesAssumption DEF TypeOK, Execute, Element
  <1>10. ASSUME NEW spill \in Spills, Invoke(spill) PROVE TypeOK'
    <2> DEFINE f == [frames[Depth] EXCEPT !.saved = rsp, !.sp = rsp']
    <2>1. rsp \in StackAddress /\ rsp' \in StackAddress
      BY <1>10, InvokePointer
    <2>2. frames # <<>> /\ f \in Frame
      BY <1>10, <2>1, ExecuteFacts DEF Invoke, Shape
    <2>3. frames' = [frames EXCEPT ![Depth] = f]
      BY <1>10 DEF Invoke
    <2> QED
      BY <1>10, <2>1, <2>2, <2>3, EditStep DEF TypeOK, Invoke
  <1>11. ASSUME NEW spill \in Spills, InvokeStackOverflow(spill) PROVE TypeOK'
    <2> DEFINE f == [frames[Depth] EXCEPT !.res = "StackOverflow"]
    <2>1. frames # <<>> /\ f \in Frame
      BY <1>11, ExecuteFacts DEF InvokeStackOverflow, Shape
    <2>2. frames' = [frames EXCEPT ![Depth] = f]
      BY <1>11 DEF InvokeStackOverflow
    <2> QED
      BY <1>11, <2>1, <2>2, EditStep DEF TypeOK, InvokeStackOverflow
  <1>12. CASE TrampolineReturn
    <2> DEFINE f == [frames[Depth] EXCEPT !.sp = Top.saved, !.res = "NoError"]
    <2>1. frames # <<>> /\ f \in Frame /\ rsp' \in StackAddress
      BY <1>12, FrameFacts, ExecuteFacts DEF TrampolineReturn, Shape
    <2>2. frames' = [frames EXCEPT ![Depth] = f]
      BY <1>12 DEF TrampolineReturn
    <2> QED
      BY <1>12, <2>1, <2>2, EditStep DEF TypeOK, TrampolineReturn
  <1>13. CASE ExecuteReturn
    BY <1>13, PopStep DEF TypeOK, ExecuteReturn, Shape
  <1>14. ASSUME NEW slot \in Slots, NEW sp \in StackAddress, CallbackEnter(slot, sp)
         PROVE TypeOK'
    <2> DEFINE f == [kind |-> "callback", saved |-> sp, sp |-> sp, scope |-> Depth + 1,
                     pred |-> chainHead, slot |-> slot]
    <2>1. CASE slot \in LiveHandlers /\ chainHead <= Depth
      <3>1. f \in Frame
        BY <1>14, MaxFramesAssumption DEF CallbackEnter, Frame, CallbackFrame, TypeOK, Element
      <3>2. frames' = Append(frames, f) /\ Depth < MaxFrames
        BY <1>14, <2>1 DEF CallbackEnter
      <3> QED
        BY <1>14, <2>1, <3>1, <3>2, PushStep DEF TypeOK, CallbackEnter
    <2>2. CASE ~(slot \in LiveHandlers /\ chainHead <= Depth)
      BY <1>14, <2>2 DEF TypeOK, CallbackEnter, Depth
    <2> QED
      BY <2>1, <2>2
  <1>15. CASE CallbackReturn
    BY <1>15, PopStep DEF TypeOK, CallbackReturn
  <1>16. CASE CallbackUnwind
    <2>1. CASE cpo # NoPanic
      BY <1>16, <2>1 DEF TypeOK, CallbackUnwind, Depth
    <2>2. CASE cpo = NoPanic
      <3> DEFINE f == [frames[Depth - 1] EXCEPT !.aborted = TRUE]
      <3>1. frames # <<>> /\ Depth > 1 /\ frames[Depth - 1].kind = "execute"
        BY <1>16 DEF CallbackUnwind, Shape
      <3>2. f \in Frame
        <4>1. frames[Depth - 1] \in Frame
          BY <3>1
        <4> QED
          BY <3>1, <4>1, ExecuteFacts
      <3>3. frames' = [Front(frames) EXCEPT ![Depth - 1] = f]
        <4>1. Front(frames)[Depth - 1] = frames[Depth - 1]
          BY <3>1, FrontFacts DEF TypeOK, Depth
        <4> QED
          BY <1>16, <2>2, <4>1 DEF CallbackUnwind
      <3> QED
        BY <1>16, <2>2, <3>1, <3>2, <3>3, PopEditStep
           DEF TypeOK, CallbackUnwind, PanicBookkeeping
    <2> QED
      BY <2>1, <2>2
  <1>17. ASSUME NEW payload \in Payloads, Panic(payload) PROVE TypeOK'
    BY <1>17 DEF TypeOK, Panic, Depth
  <1>18. CASE Catch
    BY <1>18 DEF TypeOK, Catch, Depth
  <1>19. CASE Exit
    BY <1>19 DEF TypeOK, Exit, Depth
  <1>20. CASE Terminated
    BY <1>20 DEF TypeOK, Terminated, vars, Depth
  <1> QED
    BY <1>1, <1>2, <1>3, <1>4, <1>5, <1>6, <1>7, <1>8, <1>9, <1>10, <1>11, <1>12, <1>13,
       <1>14, <1>15, <1>16, <1>17, <1>18, <1>19, <1>20 DEF Next

-----------------------------------------------------------------------------
(* The stack discipline: what a new call, a finished one or a change to the *)
(* innermost one has to respect.                                            *)

\* A new call starts where or below every other call runs.
LEMMA StackPush ==
    ASSUME TypeOK, StackInv, NEW f \in Frame,
           Depth' = Depth + 1, frames'[Depth + 1] = f,
           \A i \in 1 .. Depth : frames'[i] = frames[i] /\ f.saved <= frames[i].sp,
           rsp' \in Int, rsp' <= f.sp, f.sp <= f.saved,
           f.kind = "alloc" => f.sp + f.len <= f.saved
    PROVE  StackInv'
  <1>1. /\ f.sp \in Int /\ f.saved \in Int /\ Depth \in Nat
        /\ \A i \in 1 .. Depth : frames[i].sp \in Int
    BY FrameFacts, TopFacts, NumberFacts DEF StackAddress
  <1>2. ASSUME NEW i \in 1 .. Depth'
        PROVE  /\ rsp' <= frames'[i].sp /\ frames'[i].sp <= frames'[i].saved
               /\ frames'[i].kind = "alloc" => frames'[i].sp + frames'[i].len <= frames'[i].saved
    <2>1. CASE i = Depth + 1
      BY <1>1, <2>1
    <2>2. CASE i \in 1 .. Depth
      <3>1. frames'[i] = frames[i] /\ f.saved <= frames[i].sp
        BY <2>2
      <3>2. frames[i].sp <= frames[i].saved
            /\ (frames[i].kind = "alloc" => frames[i].sp + frames[i].len <= frames[i].saved)
        BY <2>2 DEF StackInv
      <3>3. rsp' <= frames[i].sp
        BY <1>1, <2>2, <3>1
      <3> QED
        BY <3>1, <3>2, <3>3
    <2> QED
      BY <1>1, <2>1, <2>2
  <1>3. ASSUME NEW i \in 1 .. Depth', NEW j \in 1 .. Depth', i < j
        PROVE  frames'[j].saved <= frames'[i].sp
    <2>1. i \in 1 .. Depth /\ frames'[i] = frames[i] /\ f.saved <= frames[i].sp
      BY <1>1, <1>3
    <2>2. CASE j = Depth + 1
      BY <2>1, <2>2
    <2>3. CASE j \in 1 .. Depth
      BY <1>3, <2>1, <2>3 DEF StackInv
    <2> QED
      BY <1>1, <2>2, <2>3
  <1> QED
    BY <1>2, <1>3 DEF StackInv

\* A finished call leaves the stack pointer alone or restores the one it saved.
LEMMA StackPop ==
    ASSUME TypeOK, StackInv, frames # <<>>,
           Depth' = Depth - 1, \A i \in 1 .. Depth - 1 : frames'[i] = frames[i],
           rsp' = rsp \/ rsp' = frames[Depth].saved
    PROVE  StackInv'
  <1> USE TopFacts, NumberFacts
  <1>1. ASSUME NEW i \in 1 .. Depth'
        PROVE  /\ rsp' <= frames'[i].sp /\ frames'[i].sp <= frames'[i].saved
               /\ frames'[i].kind = "alloc" => frames'[i].sp + frames'[i].len <= frames'[i].saved
    <2>1. i \in 1 .. Depth /\ Depth \in 1 .. Depth /\ i < Depth /\ frames'[i] = frames[i]
      OBVIOUS
    <2>2. /\ rsp <= frames[i].sp /\ frames[i].sp <= frames[i].saved
          /\ frames[i].kind = "alloc" => frames[i].sp + frames[i].len <= frames[i].saved
          /\ frames[Depth].saved <= frames[i].sp
      BY <2>1 DEF StackInv
    <2> QED
      BY <2>1, <2>2
  <1>2. ASSUME NEW i \in 1 .. Depth', NEW j \in 1 .. Depth', i < j
        PROVE  frames'[j].saved <= frames'[i].sp
    BY <1>2 DEF StackInv
  <1> QED
    BY <1>1, <1>2 DEF StackInv

\* The innermost call, not an allocation, moves its own pointers.
LEMMA StackEdit ==
    ASSUME TypeOK, StackInv, frames # <<>>, NEW f \in Frame,
           Depth' = Depth, frames'[Depth] = f, f.kind # "alloc",
           \A i \in 1 .. Depth - 1 : frames'[i] = frames[i] /\ f.saved <= frames[i].sp,
           rsp' \in Int, rsp' <= f.sp, f.sp <= f.saved
    PROVE  StackInv'
  <1> USE TopFacts, NumberFacts
  <1>1. f.sp \in Int /\ f.saved \in Int
    BY FrameFacts DEF StackAddress
  <1>2. ASSUME NEW i \in 1 .. Depth'
        PROVE  /\ rsp' <= frames'[i].sp /\ frames'[i].sp <= frames'[i].saved
               /\ frames'[i].kind = "alloc" => frames'[i].sp + frames'[i].len <= frames'[i].saved
    <2>1. CASE i = Depth
      BY <2>1
    <2>2. CASE i \in 1 .. Depth - 1
      <3>1. frames[i].sp <= frames[i].saved
            /\ (frames[i].kind = "alloc" => frames[i].sp + frames[i].len <= frames[i].saved)
            /\ frames[i].sp \in Int
        BY <2>2 DEF StackInv
      <3> QED
        BY <1>1, <2>2, <3>1
    <2> QED
      BY <2>1, <2>2
  <1>3. ASSUME NEW i \in 1 .. Depth', NEW j \in 1 .. Depth', i < j
        PROVE  frames'[j].saved <= frames'[i].sp
    BY <1>3 DEF StackInv
  <1> QED
    BY <1>2, <1>3 DEF StackInv

-----------------------------------------------------------------------------
(* allocate_stacked_mut *)

\* A new allocation keeps the invariant.
LEMMA AllocateStackedStep ==
    ASSUME IInv, TypeOK', NEW layout \in Layouts, AllocateStacked(layout)
    PROVE  IInv'
  <1> USE TopFacts DEF IInv
  <1> DEFINE f == [kind |-> "alloc", saved |-> rsp, sp |-> rsp', scope |-> Depth + 1,
                   pred |-> Scope, len |-> layout.size, align |-> layout.align]
  <1>1. /\ mode = "host" /\ mode' = "host" /\ UNCHANGED <<registered, chainHead, cpo, panic>>
        /\ frames = <<>> \/ Top.kind # "execute"
    BY DEF AllocateStacked, UserCode, Shape
  <1>2. rsp \in StackAddress /\ rsp' \in StackAddress /\ rsp' + layout.size <= rsp
        /\ layout.size \in Nat
    BY AllocateStackedPointer
  <1>3. f \in Frame
    BY <1>2, LayoutsAssumption, MaxFramesAssumption
       DEF AllocateStacked, Frame, AllocFrame, Element
  <1>4. frames' = Append(frames, f) /\ Depth < MaxFrames
    BY DEF AllocateStacked
  <1>5. /\ Depth' = Depth + 1 /\ frames'[Depth + 1] = f /\ Top' = f /\ frames' # <<>>
        /\ \A i \in 1 .. Depth : frames'[i] = frames[i]
    BY <1>3, <1>4, PushStep
  <1> HIDE DEF f
  <1>6. f.kind = "alloc" /\ f.saved = rsp /\ f.sp = rsp' /\ f.scope = Depth + 1
        /\ f.len = layout.size
    BY DEF f
  <1>7. Shape'
    BY <1>1, <1>5, <1>6 DEF Shape
  <1>8. StackInv'
    <2>1. rsp \in Int /\ rsp' \in Int /\ rsp' <= rsp
      BY <1>2 DEF StackAddress
    <2> QED
      BY <1>2, <1>3, <1>5, <1>6, <2>1, StackPush DEF StackInv
  <1>9. PanicInv'
    BY <1>1, <1>5, <1>6 DEF PanicInv, PanicBookkeeping
  <1>10. ChainInv'
    BY <1>1, <1>5, <1>6, FrameFacts DEF ChainInv, Shape, Element
  <1>11. HandlerInv'
    BY <1>1, <1>5, <1>6 DEF HandlerInv
  <1> QED
    BY <1>7, <1>8, <1>9, <1>10, <1>11

\* So does the end of one, by a return or by a panic.
LEMMA AllocateEndStep ==
    ASSUME IInv, TypeOK', AllocateReturn \/ AllocateUnwind
    PROVE  IInv'
  <1> USE TopFacts DEF IInv
  <1>1. /\ mode \in {"host", "unwinding"} /\ mode' = mode
        /\ UNCHANGED <<registered, chainHead, cpo, panic>>
        /\ frames # <<>> /\ frames[Depth].kind = "alloc" /\ frames' = Front(frames)
        /\ rsp' = rsp \/ rsp' = frames[Depth].saved
    BY DEF AllocateReturn, AllocateUnwind, UserCode
  <1>2. /\ Depth' = Depth - 1 /\ \A i \in 1 .. Depth - 1 : frames'[i] = frames[i]
        /\ frames' # <<>> => Depth > 1 /\ Top' = frames[Depth - 1]
    BY <1>1, PopStep
  <1>3. Shape'
    BY <1>1, <1>2 DEF Shape
  <1>4. StackInv'
    BY <1>1, <1>2, StackPop
  <1>5. PanicInv'
    BY <1>1, <1>2 DEF PanicInv, PanicBookkeeping
  <1>6. ChainInv'
    BY <1>1, <1>2 DEF ChainInv, Shape
  <1>7. HandlerInv'
    BY <1>1, <1>2 DEF HandlerInv
  <1> QED
    BY <1>3, <1>4, <1>5, <1>6, <1>7

-----------------------------------------------------------------------------
(* setup_callback *)

\* A new callback handler keeps the invariant.
LEMMA SetupCallbackStep ==
    ASSUME IInv, TypeOK', NEW slot \in Slots, SetupCallback(slot)
    PROVE  IInv'
  <1> USE TopFacts DEF IInv
  <1> DEFINE f == [kind |-> "setup", saved |-> rsp, sp |-> rsp, scope |-> Scope,
                   slot |-> slot]
  <1>1. /\ mode = "host" /\ mode' = "host" /\ UNCHANGED <<rsp, chainHead, cpo, panic>>
        /\ registered' = registered \cup {slot} /\ slot \notin registered
        /\ frames = <<>> \/ Top.kind # "execute"
    BY DEF SetupCallback, UserCode, Shape
  <1>2. f \in Frame
    BY DEF Frame, SetupFrame, TypeOK
  <1>3. frames' = Append(frames, f) /\ Depth < MaxFrames
    BY DEF SetupCallback
  <1>4. /\ Depth' = Depth + 1 /\ frames'[Depth + 1] = f /\ Top' = f /\ frames' # <<>>
        /\ \A i \in 1 .. Depth : frames'[i] = frames[i]
    BY <1>2, <1>3, PushStep
  <1> HIDE DEF f
  <1>5. f.kind = "setup" /\ f.saved = rsp /\ f.sp = rsp /\ f.scope = Scope /\ f.slot = slot
    BY DEF f
  <1>6. Shape'
    BY <1>1, <1>4, <1>5, ScopeFacts DEF Shape
  <1>7. StackInv'
    BY <1>1, <1>2, <1>4, <1>5, StackPush, NumberFacts DEF StackInv
  <1>8. PanicInv'
    BY <1>1, <1>4, <1>5 DEF PanicInv, PanicBookkeeping
  <1>9. ChainInv'
    <2>1. ASSUME NEW i \in 1 .. Depth', NEW j \in 1 .. Depth', i < j, frames'[i].kind = "execute"
          PROVE  frames'[j].scope > i
      BY <1>1, <1>4, <1>5, <2>1, ScopeFacts DEF ChainInv
    <2> QED
      BY <1>1, <1>4, <1>5, <2>1 DEF ChainInv, Shape
  <1>10. HandlerInv'
    BY <1>1, <1>4, <1>5 DEF HandlerInv
  <1> QED
    BY <1>6, <1>7, <1>8, <1>9, <1>10

\* So does the end of one.
LEMMA SetupEndStep ==
    ASSUME IInv, TypeOK', SetupReturn \/ SetupUnwind
    PROVE  IInv'
  <1> USE TopFacts DEF IInv
  <1>1. /\ mode \in {"host", "unwinding"} /\ mode' = mode
        /\ UNCHANGED <<rsp, chainHead, cpo, panic>>
        /\ frames # <<>> /\ frames[Depth].kind = "setup" /\ frames' = Front(frames)
        /\ registered' = registered \/ registered' = registered \ {frames[Depth].slot}
    BY DEF SetupReturn, SetupUnwind, UserCode
  <1>2. /\ Depth' = Depth - 1 /\ \A i \in 1 .. Depth - 1 : frames'[i] = frames[i]
        /\ frames' # <<>> => Depth > 1 /\ Top' = frames[Depth - 1]
    BY <1>1, PopStep
  <1>3. Shape'
    BY <1>1, <1>2 DEF Shape
  <1>4. StackInv'
    BY <1>1, <1>2, StackPop
  <1>5. PanicInv'
    BY <1>1, <1>2 DEF PanicInv, PanicBookkeeping
  <1>6. ChainInv'
    BY <1>1, <1>2 DEF ChainInv, Shape
  <1>7. HandlerInv'
    BY <1>1, <1>2 DEF HandlerInv
  <1> QED
    BY <1>3, <1>4, <1>5, <1>6, <1>7

-----------------------------------------------------------------------------
(* execute and invoke *)

\* A new execute keeps the invariant: the head it stores is above all others.
LEMMA ExecuteStep ==
    ASSUME IInv, TypeOK', Execute
    PROVE  IInv'
  <1> USE TopFacts DEF IInv
  <1> DEFINE f == [kind |-> "execute", saved |-> rsp, sp |-> rsp, scope |-> Scope,
                   res |-> "NotCalled", aborted |-> FALSE]
  <1>1. /\ mode = "host" /\ mode' = "invoking" /\ UNCHANGED <<rsp, registered, cpo, panic>>
        /\ chainHead' = Scope
        /\ frames = <<>> \/ Top.kind # "execute"
    BY DEF Execute, UserCode, Shape
  <1>2. f \in Frame
    BY DEF Frame, ExecuteFrame, TypeOK
  <1>3. frames' = Append(frames, f) /\ Depth < MaxFrames
    BY DEF Execute
  <1>4. /\ Depth' = Depth + 1 /\ frames'[Depth + 1] = f /\ Top' = f /\ frames' # <<>>
        /\ \A i \in 1 .. Depth : frames'[i] = frames[i]
    BY <1>2, <1>3, PushStep
  <1> HIDE DEF f
  <1>5. f.kind = "execute" /\ f.saved = rsp /\ f.sp = rsp /\ f.scope = Scope /\ ~f.aborted
    BY DEF f
  <1>6. Shape'
    <2>1. ASSUME NEW i \in 1 .. Depth, frames[i].kind = "execute" PROVE i < Depth
      BY <1>1, <2>1
    <2> QED
      BY <1>1, <1>4, <1>5, <2>1, ScopeFacts DEF Shape
  <1>7. StackInv'
    BY <1>1, <1>2, <1>4, <1>5, StackPush, NumberFacts DEF StackInv
  <1>8. PanicInv'
    BY <1>1, <1>4, <1>5 DEF PanicInv, PanicBookkeeping
  <1>9. ChainInv'
    <2>1. \A i \in 1 .. Depth : frames[i].kind = "execute" => Scope > i
      BY <1>1, ScopeFacts
    <2>2. ASSUME NEW i \in 1 .. Depth', NEW j \in 1 .. Depth', i < j, frames'[i].kind = "execute"
          PROVE  frames'[j].scope > i
      BY <1>4, <1>5, <2>1, <2>2 DEF ChainInv
    <2> QED
      BY <1>1, <1>4, <1>5, <2>1, <2>2 DEF ChainInv, Shape
  <1>10. HandlerInv'
    BY <1>1, <1>4, <1>5 DEF HandlerInv
  <1> QED
    BY <1>6, <1>7, <1>8, <1>9, <1>10

\* So do entering the sandbox and failing to.
LEMMA InvokeStep ==
    ASSUME IInv, TypeOK', NEW spill \in Spills, Invoke(spill) \/ InvokeStackOverflow(spill)
    PROVE  IInv'
  <1> USE TopFacts DEF IInv
  <1>1. /\ mode = "invoking" /\ mode' \in {"sandbox", "undefined", "exiting"}
        /\ UNCHANGED <<registered, chainHead, cpo, panic>>
        /\ frames # <<>> /\ frames[Depth].kind = "execute"
        /\ frames[Depth] \in Frame /\ frames[Depth] \in ExecuteFrame
    BY FrameFacts DEF Invoke, InvokeStackOverflow, Shape
  <1>2. /\ rsp \in StackAddress /\ rsp' \in StackAddress /\ rsp' <= rsp
        /\ rsp \in Int /\ rsp' \in Int
    <2>1. CASE Invoke(spill)
      <3>1. rsp \in StackAddress /\ rsp' \in StackAddress /\ rsp' <= rsp
        BY <2>1, InvokePointer
      <3> QED
        BY <3>1 DEF StackAddress
    <2>2. CASE InvokeStackOverflow(spill)
      BY <2>2 DEF TypeOK, InvokeStackOverflow, StackAddress
    <2> QED
      BY <2>1, <2>2
  <1>3. PICK f \in Frame :
          /\ frames' = [frames EXCEPT ![Depth] = f]
          /\ f.kind = "execute" /\ f.scope = frames[Depth].scope
          /\ f.aborted = frames[Depth].aborted
          /\ \/ f.saved = rsp /\ f.sp = rsp'
             \/ f.saved = frames[Depth].saved /\ f.sp = frames[Depth].sp /\ rsp' = rsp
    <2>1. CASE Invoke(spill)
      <3> DEFINE f == [frames[Depth] EXCEPT !.saved = rsp, !.sp = rsp']
      <3>1. f \in Frame /\ frames' = [frames EXCEPT ![Depth] = f]
        BY <1>1, <1>2, <2>1, ExecuteFacts DEF Invoke
      <3>2. /\ f.kind = "execute" /\ f.scope = frames[Depth].scope
            /\ f.aborted = frames[Depth].aborted /\ f.saved = rsp /\ f.sp = rsp'
        BY <1>1 DEF ExecuteFrame
      <3> QED
        BY <3>1, <3>2
    <2>2. CASE InvokeStackOverflow(spill)
      <3> DEFINE f == [frames[Depth] EXCEPT !.res = "StackOverflow"]
      <3>1. f \in Frame /\ frames' = [frames EXCEPT ![Depth] = f] /\ rsp' = rsp
        BY <1>1, <2>2, ExecuteFacts DEF InvokeStackOverflow
      <3>2. /\ f.kind = "execute" /\ f.scope = frames[Depth].scope
            /\ f.aborted = frames[Depth].aborted
            /\ f.saved = frames[Depth].saved /\ f.sp = frames[Depth].sp
        BY <1>1 DEF ExecuteFrame
      <3> QED
        BY <3>1, <3>2
    <2> QED
      BY <2>1, <2>2
  <1>4. /\ Depth' = Depth /\ frames'[Depth] = f /\ Top' = f /\ frames' # <<>>
        /\ \A i \in 1 .. Depth - 1 : frames'[i] = frames[i]
    BY <1>1, <1>3, EditStep
  <1>5. Shape'
    BY <1>1, <1>3, <1>4 DEF Shape
  <1>6. StackInv'
    <2>1. f.sp \in Int /\ f.saved \in Int
      BY FrameFacts DEF StackAddress
    <2>2. rsp' <= f.sp /\ f.sp <= f.saved
      BY <1>1, <1>2, <1>3, <2>1 DEF StackInv
    <2>3. \A i \in 1 .. Depth - 1 : f.saved <= frames[i].sp
      BY <1>1, <1>3 DEF StackInv
    <2> QED
      BY <1>1, <1>2, <1>3, <1>4, <2>2, <2>3, StackEdit
  <1>7. PanicInv'
    BY <1>1, <1>3, <1>4 DEF PanicInv, PanicBookkeeping
  <1>8. ChainInv'
    BY <1>1, <1>3, <1>4 DEF ChainInv, Shape
  <1>9. HandlerInv'
    BY <1>1, <1>3, <1>4 DEF HandlerInv
  <1> QED
    BY <1>5, <1>6, <1>7, <1>8, <1>9

\* So does leaving it, by a return or by an abort.
LEMMA TrampolineReturnStep ==
    ASSUME IInv, TypeOK', TrampolineReturn
    PROVE  IInv'
  <1> USE TopFacts DEF IInv
  <1> DEFINE f == [frames[Depth] EXCEPT !.sp = Top.saved, !.res = "NoError"]
  <1>1. /\ mode \in {"sandbox", "aborting"} /\ mode' = "exiting"
        /\ UNCHANGED <<registered, chainHead, cpo, panic>>
        /\ frames # <<>> /\ frames[Depth].kind = "execute" /\ rsp' = frames[Depth].saved
        /\ frames[Depth] \in Frame /\ frames[Depth] \in ExecuteFrame
    BY FrameFacts DEF TrampolineReturn, Shape
  <1>2. f \in Frame
    BY <1>1, FrameFacts, ExecuteFacts
  <1>3. /\ f.kind = "execute" /\ f.scope = frames[Depth].scope
        /\ f.aborted = frames[Depth].aborted
        /\ f.saved = rsp' /\ f.sp = rsp'
    BY <1>1 DEF ExecuteFrame
  <1>4. /\ Depth' = Depth /\ frames'[Depth] = f /\ Top' = f /\ frames' # <<>>
        /\ \A i \in 1 .. Depth - 1 : frames'[i] = frames[i]
    <2>1. frames' = [frames EXCEPT ![Depth] = f]
      BY DEF TrampolineReturn
    <2> HIDE DEF f
    <2> QED
      BY <1>1, <1>2, <2>1, EditStep
  <1> HIDE DEF f
  <1>5. Shape'
    BY <1>1, <1>3, <1>4 DEF Shape
  <1>6. StackInv'
    <2>1. rsp' \in Int /\ \A i \in 1 .. Depth - 1 : f.saved <= frames[i].sp
      BY <1>1, <1>3, NumberFacts DEF StackInv
    <2> QED
      BY <1>1, <1>2, <1>3, <1>4, <2>1, StackEdit
  <1>7. PanicInv'
    BY <1>1, <1>3, <1>4 DEF PanicInv, PanicBookkeeping
  <1>8. ChainInv'
    BY <1>1, <1>3, <1>4 DEF ChainInv, Shape
  <1>9. HandlerInv'
    BY <1>1, <1>3, <1>4 DEF HandlerInv
  <1> QED
    BY <1>5, <1>6, <1>7, <1>8, <1>9

\* So does the end of execute: the panic object agrees with LFI's abort status.
LEMMA ExecuteReturnStep ==
    ASSUME IInv, TypeOK', ExecuteReturn
    PROVE  IInv'
  <1> USE TopFacts DEF IInv
  <1>1. /\ mode = "exiting" /\ UNCHANGED <<rsp, registered, chainHead>>
        /\ frames # <<>> /\ frames[Depth].kind = "execute" /\ frames' = Front(frames)
        /\ frames[Depth] \in ExecuteFrame
    BY FrameFacts DEF ExecuteReturn, Shape
  <1>2. /\ Depth' = Depth - 1 /\ \A i \in 1 .. Depth - 1 : frames'[i] = frames[i]
        /\ frames' # <<>> => Depth > 1 /\ Top' = frames[Depth - 1]
    BY <1>1, PopStep
  <1>3. frames[Depth].aborted \in BOOLEAN /\ (cpo # NoPanic <=> frames[Depth].aborted)
    BY <1>1 DEF PanicInv, ExecuteFrame
  <1>4. cpo' = NoPanic /\ panic' = cpo /\ mode' = IF cpo = NoPanic THEN "host" ELSE "unwinding"
    <2>1. ((cpo # NoPanic) # frames[Depth].aborted) = FALSE
      BY <1>3, Zenon
    <2> QED
      BY <1>1, <2>1 DEF ExecuteReturn
  <1>5. Shape'
    BY <1>1, <1>2, <1>4 DEF Shape
  <1>6. StackInv'
    BY <1>1, <1>2, StackPop
  <1>7. PanicInv'
    <2>1. Inconsistent # NoPanic /\ cpo # Inconsistent
      BY PayloadsAssumption DEF TypeOK
    <2>2. PanicBookkeeping'
      BY <1>4, <2>1 DEF PanicBookkeeping
    <2>3. \A i \in 1 .. Depth' : i \in 1 .. Depth - 1 /\ i \in 1 .. Depth /\ i # Depth
      BY <1>2
    <2>4. \A i \in 1 .. Depth' : ~(frames'[i].kind = "execute" /\ frames'[i].aborted)
      BY <1>2, <2>3 DEF PanicInv
    <2> QED
      BY <1>4, <2>2, <2>4 DEF PanicInv
  <1>8. ChainInv'
    BY <1>1, <1>2 DEF ChainInv, Shape
  <1>9. HandlerInv'
    BY <1>1, <1>2 DEF HandlerInv
  <1> QED
    BY <1>5, <1>6, <1>7, <1>8, <1>9

-----------------------------------------------------------------------------
(* lfi_callback_handler *)

\* A callback keeps the invariant: the head it reads is its execute's scope.
LEMMA CallbackEnterStep ==
    ASSUME IInv, TypeOK', NEW slot \in Slots, NEW sp \in StackAddress, CallbackEnter(slot, sp)
    PROVE  IInv'
  <1> USE TopFacts DEF IInv
  <1>1. /\ mode = "sandbox" /\ rsp' = sp /\ sp <= frames[Depth].sp /\ sp \in Int
        /\ UNCHANGED <<registered, chainHead, cpo, panic>>
        /\ frames # <<>> /\ frames[Depth].kind = "execute" /\ Depth \in 1 .. Depth
        /\ frames[Depth] \in ExecuteFrame
    BY FrameFacts DEF CallbackEnter, Shape, StackAddress
  <1>2. \A i \in 1 .. Depth : sp <= frames[i].sp
    <2>1. ASSUME NEW i \in 1 .. Depth, i < Depth PROVE frames[Depth].sp <= frames[i].sp
      <3>1. frames[Depth].sp <= frames[Depth].saved /\ frames[Depth].saved <= frames[i].sp
        BY <1>1, <2>1 DEF StackInv
      <3> QED
        BY <1>1, <3>1, NumberFacts
    <2> QED
      BY <1>1, <2>1, NumberFacts
  <1>3. CASE slot \in LiveHandlers /\ chainHead <= Depth
    <2> DEFINE f == [kind |-> "callback", saved |-> sp, sp |-> sp, scope |-> Depth + 1,
                     pred |-> chainHead, slot |-> slot]
    <2>1. f \in Frame
      BY MaxFramesAssumption DEF CallbackEnter, Frame, CallbackFrame, TypeOK, Element
    <2>2. frames' = Append(frames, f) /\ Depth < MaxFrames /\ mode' = "host"
      BY <1>3 DEF CallbackEnter
    <2>3. /\ Depth' = Depth + 1 /\ frames'[Depth + 1] = f /\ Top' = f /\ frames' # <<>>
          /\ \A i \in 1 .. Depth : frames'[i] = frames[i]
      BY <2>1, <2>2, PushStep
    <2> HIDE DEF f
    <2>4. f.kind = "callback" /\ f.saved = sp /\ f.sp = sp /\ f.scope = Depth + 1
          /\ f.pred = chainHead
      BY DEF f
    <2>5. chainHead = frames[Depth].scope
      BY <1>1, <1>3, NumberFacts DEF ChainInv
    <2>6. Shape'
      BY <1>1, <2>2, <2>3, <2>4 DEF Shape
    <2>7. StackInv'
      BY <1>1, <1>2, <2>1, <2>3, <2>4, StackPush
    <2>8. PanicInv'
      <3>1. cpo' = NoPanic /\ panic' = NoPanic
        BY <1>1, PayloadsAssumption DEF PanicInv, PanicBookkeeping
      <3>2. \A i \in 1 .. Depth : ~(frames[i].kind = "execute" /\ frames[i].aborted)
        BY <1>1 DEF PanicInv
      <3>3. \A i \in 1 .. Depth' : ~(frames'[i].kind = "execute" /\ frames'[i].aborted)
        BY <2>3, <2>4, <3>2
      <3> QED
        BY <2>2, <3>1, <3>3, PayloadsAssumption DEF PanicInv, PanicBookkeeping
    <2>9. ChainInv'
      <3>1. ASSUME NEW i \in 1 .. Depth', NEW j \in 1 .. Depth', i < j,
                   frames'[i].kind = "execute"
            PROVE  frames'[j].scope > i
        BY <2>3, <2>4, <3>1 DEF ChainInv
      <3> QED
        BY <1>1, <2>3, <2>4, <2>5, <3>1 DEF ChainInv, Shape
    <2>10. HandlerInv'
      BY <1>1, <2>3, <2>4 DEF HandlerInv
    <2> QED
      BY <2>6, <2>7, <2>8, <2>9, <2>10
  <1>4. CASE ~(slot \in LiveHandlers /\ chainHead <= Depth)
    <2>1. mode' = "undefined" /\ frames' = frames /\ Depth' = Depth /\ Top' = Top
      BY <1>4 DEF CallbackEnter, Depth, Top
    <2>2. PanicInv'
      BY <1>1, <2>1 DEF PanicInv, PanicBookkeeping
    <2> QED
      BY <1>1, <1>2, <2>1, <2>2 DEF Shape, StackInv, ChainInv, HandlerInv
  <1> QED
    BY <1>3, <1>4

\* So does its return.
LEMMA CallbackReturnStep ==
    ASSUME IInv, TypeOK', CallbackReturn
    PROVE  IInv'
  <1> USE TopFacts DEF IInv
  <1>1. /\ mode = "host" /\ mode' = "sandbox"
        /\ UNCHANGED <<rsp, registered, chainHead, cpo, panic>>
        /\ frames # <<>> /\ frames[Depth].kind = "callback" /\ frames' = Front(frames)
        /\ Depth > 1 /\ frames[Depth - 1].kind = "execute"
    BY DEF CallbackReturn, Shape
  <1>2. /\ Depth' = Depth - 1 /\ \A i \in 1 .. Depth - 1 : frames'[i] = frames[i]
        /\ frames' # <<>> => Depth > 1 /\ Top' = frames[Depth - 1]
    BY <1>1, PopStep
  <1>3. frames' # <<>>
    <2>1. Len(frames') # 0
      BY <1>1, <1>2 DEF Depth
    <2> QED
      BY <2>1
  <1>4. Shape'
    BY <1>1, <1>2, <1>3 DEF Shape
  <1>5. StackInv'
    BY <1>1, <1>2, StackPop
  <1>6. PanicInv'
    BY <1>1, <1>2 DEF PanicInv, PanicBookkeeping
  <1>7. ChainInv'
    BY <1>1, <1>2 DEF ChainInv, Shape
  <1>8. HandlerInv'
    BY <1>1, <1>2 DEF HandlerInv
  <1> QED
    BY <1>4, <1>5, <1>6, <1>7, <1>8

\* So does its panic: no other panic object is there, and the execute below the
\* callback is the one that is aborted.
LEMMA CallbackUnwindStep ==
    ASSUME IInv, TypeOK', CallbackUnwind
    PROVE  IInv'
  <1> USE TopFacts DEF IInv
  <1> DEFINE f == [frames[Depth - 1] EXCEPT !.aborted = TRUE]
  <1>1. mode = "unwinding" /\ cpo = NoPanic /\ panic # NoPanic
    BY DEF CallbackUnwind, PanicInv, PanicBookkeeping
  <1>2. /\ mode' = "aborting" /\ cpo' = panic /\ panic' = NoPanic
        /\ UNCHANGED <<rsp, registered, chainHead>>
        /\ frames # <<>> /\ frames[Depth].kind = "callback"
        /\ Depth > 1 /\ Depth - 1 \in 1 .. Depth /\ frames[Depth - 1].kind = "execute"
        /\ frames[Depth - 1] \in Frame
    BY <1>1 DEF CallbackUnwind, Shape
  <1>3. f \in Frame
    BY <1>2, ExecuteFacts
  <1>4. /\ f.kind = "execute" /\ f.aborted /\ f.scope = frames[Depth - 1].scope
        /\ f.sp = frames[Depth - 1].sp /\ f.saved = frames[Depth - 1].saved
    BY <1>2, FrameFacts DEF ExecuteFrame
  <1>5. frames' = [Front(frames) EXCEPT ![Depth - 1] = f]
    <2>1. Front(frames)[Depth - 1] = frames[Depth - 1]
      BY <1>2, FrontFacts DEF TypeOK, Depth
    <2> QED
      BY <1>1, <2>1 DEF CallbackUnwind
  <1> HIDE DEF f
  <1>6. /\ Depth' = Depth - 1 /\ frames'[Depth - 1] = f /\ Top' = f /\ frames' # <<>>
        /\ \A i \in 1 .. Depth - 2 : frames'[i] = frames[i]
    BY <1>2, <1>3, <1>5, PopEditStep
  <1>7. Shape'
    BY <1>2, <1>4, <1>6 DEF Shape
  <1>8. StackInv'
    BY <1>2, <1>4, <1>6 DEF StackInv
  <1>9. PanicInv'
    BY <1>1, <1>2, <1>4, <1>6, PayloadsAssumption DEF PanicInv, PanicBookkeeping
  <1>10. ChainInv'
    BY <1>2, <1>4, <1>6 DEF ChainInv, Shape
  <1>11. HandlerInv'
    BY <1>2, <1>4, <1>6 DEF HandlerInv
  <1> QED
    BY <1>7, <1>8, <1>9, <1>10, <1>11

-----------------------------------------------------------------------------
(* Panics *)

\* The start and the end of a panic leave the calls alone.
LEMMA PanicStep ==
    ASSUME IInv, TypeOK', (\E payload \in Payloads : Panic(payload)) \/ Catch \/ Exit
    PROVE  IInv'
  <1> USE TopFacts DEF IInv
  <1>1. UNCHANGED <<frames, rsp, registered, chainHead, cpo>> /\ Depth' = Depth /\ Top' = Top
    BY DEF Panic, Catch, Exit, Depth, Top
  <1>2. /\ mode \in {"host", "unwinding"} /\ mode' \in {"host", "unwinding", "exited"}
        /\ cpo = NoPanic
        /\ panic' # Inconsistent /\ (mode' \in {"unwinding", "exited"} <=> panic' # NoPanic)
    BY PayloadsAssumption DEF Panic, Catch, Exit, UserCode, PanicInv, PanicBookkeeping
  <1>3. PanicInv'
    BY <1>1, <1>2 DEF PanicInv, PanicBookkeeping
  <1> QED
    BY <1>1, <1>2, <1>3 DEF Shape, StackInv, ChainInv, HandlerInv

\* A step that changes nothing.
LEMMA StutterStep ==
    ASSUME IInv, UNCHANGED vars
    PROVE  IInv'
  BY DEF IInv, vars, TypeOK, Shape, StackInv, PanicInv, PanicBookkeeping, ChainInv, HandlerInv,
         Depth, Top

-----------------------------------------------------------------------------
(* The invariant *)

\* The runtime starts with no call.
LEMMA InitStep ==
    ASSUME Init
    PROVE  IInv
  <1>1. Depth = 0 /\ frames \in Seq(Frame)
    BY DEF Init, Depth
  <1>2. TypeOK
    <2>1. StackTop \in StackAddress /\ 0 \in Element /\ 0 <= MaxFrames
      BY BoxAssumption, AddrLimitAssumption, MaxFramesAssumption
         DEF StackAddress, Element, Address
    <2> QED
      BY <1>1, <2>1, SlotsAssumption DEF Init, TypeOK, Mode
  <1> QED
    BY <1>1, <1>2, PayloadsAssumption
       DEF IInv, Init, Shape, StackInv, PanicInv, PanicBookkeeping, ChainInv, HandlerInv

\* Every step of the runtime keeps the invariant.
LEMMA NextStep ==
    ASSUME IInv, [Next]_vars
    PROVE  IInv'
  <1>1. CASE UNCHANGED vars
    BY <1>1, StutterStep
  <1>2. CASE Next
    <2>1. TypeOK'
      BY <1>2, TypeStep DEF IInv, PanicInv
    <2>2. ASSUME NEW layout \in Layouts, AllocateStacked(layout) PROVE IInv'
      BY <2>1, <2>2, AllocateStackedStep
    <2>3. ASSUME NEW layout \in Layouts, AllocNoMem(layout) PROVE IInv'
      BY <2>3, StutterStep DEF AllocNoMem
    <2>4. CASE AllocateReturn \/ AllocateUnwind
      BY <2>1, <2>4, AllocateEndStep
    <2>5. ASSUME NEW slot \in Slots, SetupCallback(slot) PROVE IInv'
      BY <2>1, <2>5, SetupCallbackStep
    <2>6. CASE SetupInsufficientSlots \/ Terminated
      BY <2>6, StutterStep DEF SetupInsufficientSlots, Terminated
    <2>7. CASE SetupReturn \/ SetupUnwind
      BY <2>1, <2>7, SetupEndStep
    <2>8. CASE Execute
      BY <2>1, <2>8, ExecuteStep
    <2>9. ASSUME NEW spill \in Spills, Invoke(spill) \/ InvokeStackOverflow(spill) PROVE IInv'
      BY <2>1, <2>9, InvokeStep
    <2>10. CASE TrampolineReturn
      BY <2>1, <2>10, TrampolineReturnStep
    <2>11. CASE ExecuteReturn
      BY <2>1, <2>11, ExecuteReturnStep
    <2>12. ASSUME NEW slot \in Slots, NEW sp \in StackAddress, CallbackEnter(slot, sp)
           PROVE  IInv'
      BY <2>1, <2>12, CallbackEnterStep
    <2>13. CASE CallbackReturn
      BY <2>1, <2>13, CallbackReturnStep
    <2>14. CASE CallbackUnwind
      BY <2>1, <2>14, CallbackUnwindStep
    <2>15. CASE (\E payload \in Payloads : Panic(payload)) \/ Catch \/ Exit
      BY <2>1, <2>15, PanicStep
    <2> QED
      BY <1>2, <2>2, <2>3, <2>4, <2>5, <2>6, <2>7, <2>8, <2>9, <2>10, <2>11, <2>12, <2>13,
         <2>14, <2>15 DEF Next
  <1> QED
    BY <1>1, <1>2

\* Every reachable state satisfies the invariant, whatever the addresses,
\* layouts, slots and payloads are, however deep the calls nest and wherever
\* user code catches panics (amd64.rs: the whole of OGLFISysVAMD64Runtime).
THEOREM Invariance == Spec => []IInv
  <1>1. Init => IInv
    BY InitStep
  <1>2. IInv /\ [Next]_vars => IInv'
    BY NextStep
  <1> QED
    BY <1>1, <1>2, PTL DEF Spec

\* Type correctness: no call leaves the foreign stack pointer outside of the
\* stack, or any field of the runtime without a value of its type.
THEOREM TypeCorrect == Spec => []TypeOK
  <1>1. IInv => TypeOK
    BY DEF IInv
  <1> QED
    BY <1>1, Invariance, PTL

\* Host allocations in use stay inside the foreign stack, disjoint, and above
\* the stack pointer, through every callback, stack overflow and panic.
THEOREM AllocationsStayIntact == Spec => []AllocationsIntact
  <1>1. ASSUME IInv PROVE AllocationsIntact
    <2> USE <1>1, TopFacts DEF IInv
    <2>1. DOMAIN frames = 1 .. Depth
      BY DEF TypeOK, Depth
    <2>2. ASSUME NEW i \in HostAllocations
          PROVE  /\ i \in 1 .. Depth /\ rsp <= frames[i].sp
                 /\ frames[i].sp + frames[i].len <= frames[i].saved
                 /\ frames[i].sp \in StackAddress /\ frames[i].saved \in StackAddress
                 /\ frames[i].len \in Nat
      BY <2>1, FrameFacts DEF HostAllocations, StackInv, AllocFrame
    <2>3. ASSUME NEW i \in HostAllocations
          PROVE  /\ BoxMin <= frames[i].sp /\ frames[i].sp + frames[i].len <= StackTop
                 /\ rsp <= frames[i].sp
      BY <2>2, BoxAssumption DEF StackAddress, Address
    <2>4. ASSUME NEW i \in HostAllocations, NEW j \in HostAllocations, i < j
          PROVE  frames[j].sp + frames[j].len <= frames[i].sp
      <3>1. frames[j].saved <= frames[i].sp
        BY <2>2, <2>4 DEF StackInv
      <3> QED
        BY <2>2, <3>1 DEF StackAddress
    <2> QED
      BY <2>3, <2>4 DEF AllocationsIntact
  <1> QED
    BY <1>1, Invariance, PTL

\* No callback's panic finds another one's panic object, and the cross-check of
\* execute with LFI's abort status never fails.
THEOREM PanicBookkeepingHolds == Spec => []PanicBookkeeping
  <1>1. IInv => PanicBookkeeping
    BY DEF IInv, PanicInv
  <1> QED
    BY <1>1, Invariance, PTL

\* A callback's AllocScope extends the scope of the execute it interrupts.
THEOREM ScopesExtend == Spec => []ScopeExtendsLongestChain
  <1>1. ASSUME IInv PROVE ScopeExtendsLongestChain
    <2>1. DOMAIN frames = 1 .. Depth
      BY <1>1 DEF IInv, TypeOK, Depth
    <2> QED
      BY <1>1, <2>1 DEF IInv, Shape, ChainInv, ScopeExtendsLongestChain
  <1> QED
    BY <1>1, Invariance, PTL

\* The chain head a callback would read is the innermost execute's, or dangles:
\* it is never a live element of a call that happens to be as deep as a dead one.
THEOREM HeadNeverMistaken == Spec => []HeadCurrentOrDangling
  <1>1. ASSUME IInv PROVE HeadCurrentOrDangling
    <2>1. CASE mode \in {"sandbox", "aborting", "exiting"}
      <3>1. frames # <<>> /\ Depth \in 1 .. Depth /\ Top = frames[Depth]
            /\ frames[Depth].kind = "execute"
        BY <1>1, <2>1, TopFacts DEF IInv, Shape
      <3> QED
        BY <1>1, <3>1 DEF IInv, ChainInv, HeadCurrentOrDangling
    <2> QED
      BY <2>1 DEF HeadCurrentOrDangling
  <1> QED
    BY <1>1, Invariance, PTL

\* Every live handler keeps its slot, and no other handler gets it.
THEOREM HandlersStayRegistered == Spec => []HandlersRegistered
  <1>1. ASSUME IInv PROVE HandlersRegistered
    <2>1. DOMAIN frames = 1 .. Depth
      BY <1>1 DEF IInv, TypeOK, Depth
    <2> QED
      BY <1>1, <2>1 DEF IInv, HandlerInv, HandlersRegistered, LiveHandlers
  <1> QED
    BY <1>1, Invariance, PTL

=============================================================================
