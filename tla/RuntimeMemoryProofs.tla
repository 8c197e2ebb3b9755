------------------------ MODULE RuntimeMemoryProofs ------------------------
(***************************************************************************)
(* What the host's allocations are to its closures, for every value of     *)
(* Runtime's constants: aligned, and reached by every AllocScope.          *)
(***************************************************************************)
EXTENDS RuntimeNestingProofs

-----------------------------------------------------------------------------
(* The calls a step adds and keeps *)

\* The call a step adds: its scope extends that of the call below it.
Enters(f) ==
    /\ Depth' = Depth + 1 /\ frames'[Depth + 1] = f
    /\ \A i \in 1 .. Depth : frames'[i] = frames[i]
    /\ f.kind \in {"alloc", "callback"} => f.scope = Depth + 1 /\ f.pred = Scope
    /\ f.kind \in {"setup", "execute"} => f.scope = Scope
    /\ f.kind = "alloc" => \E layout \in Layouts :
          /\ AllocFits(rsp, layout, BoxMin)
          /\ f.sp = AllocPointer(rsp, layout)
          /\ f.len = layout.size /\ f.align = layout.align
    /\ chainHead' = IF f.kind = "execute" THEN f.scope ELSE chainHead

\* Apart from the fields of an execute that its own invoke and its callbacks
\* write, a call does not change.
Keeps(i) ==
    \/ frames'[i] = frames[i]
    \/ /\ frames[i].kind = "execute" /\ frames'[i].kind = "execute"
       /\ frames'[i].scope = frames[i].scope

Entered == \E f \in Frame : Enters(f)
Kept ==
    /\ Depth' \in 0 .. Depth /\ \A i \in 1 .. Depth' : Keeps(i)
    /\ UNCHANGED chainHead

\* A step adds a call, or keeps those it does not end.
LEMMA StepCases ==
    ASSUME IInv, Next
    PROVE  Entered \/ Kept
  <1> USE TopFacts DEF IInv, Entered, Kept
  <1>1. ASSUME UNCHANGED <<frames, chainHead>> PROVE Kept
    BY <1>1 DEF Depth, Keeps
  <1>2. ASSUME frames # <<>>, frames' = Front(frames), UNCHANGED chainHead PROVE Kept
    <2>1. Depth' = Depth - 1 /\ \A i \in 1 .. Depth - 1 : frames'[i] = frames[i]
      BY <1>2, PopStep
    <2> QED
      BY <1>2, <2>1 DEF Keeps
  <1>3. ASSUME NEW f \in Frame, frames # <<>>, frames' = [frames EXCEPT ![Depth] = f],
               f.kind = "execute", Top.kind = "execute", f.scope = Top.scope,
               UNCHANGED chainHead
        PROVE  Kept
    <2>1. /\ Depth' = Depth /\ frames'[Depth] = f /\ Depth \in Nat /\ Top = frames[Depth]
          /\ \A i \in 1 .. Depth - 1 : frames'[i] = frames[i]
      BY <1>3, EditStep
    <2>2. \A i \in 1 .. Depth : i = Depth \/ i \in 1 .. Depth - 1
      BY <2>1
    <2> QED
      BY <1>3, <2>1, <2>2 DEF Keeps
  <1>4. ASSUME NEW layout \in Layouts, AllocateStacked(layout) PROVE Entered
    <2> DEFINE f == [kind |-> "alloc", saved |-> rsp, sp |-> rsp', scope |-> Depth + 1,
                     pred |-> Scope, len |-> layout.size, align |-> layout.align]
    <2>1. rsp \in StackAddress /\ rsp' \in StackAddress
      BY <1>4, AllocateStackedPointer
    <2>2. f \in Frame
      BY <1>4, <2>1, LayoutsAssumption, MaxFramesAssumption
         DEF AllocateStacked, Frame, AllocFrame, Element
    <2>3. /\ Depth' = Depth + 1 /\ frames'[Depth + 1] = f
          /\ \A i \in 1 .. Depth : frames'[i] = frames[i]
      BY <1>4, <2>2, PushStep DEF AllocateStacked
    <2>4. AllocFits(rsp, layout, BoxMin) /\ f.sp = AllocPointer(rsp, layout)
      BY <1>4 DEF AllocateStacked
    <2> QED
      BY <1>4, <2>2, <2>3, <2>4 DEF Enters, AllocateStacked
  <1>5. ASSUME NEW slot \in Slots, SetupCallback(slot) PROVE Entered
    <2> DEFINE f == [kind |-> "setup", saved |-> rsp, sp |-> rsp, scope |-> Scope,
                     slot |-> slot]
    <2>1. f \in Frame
      BY <1>5 DEF SetupCallback, Frame, SetupFrame, TypeOK
    <2>2. /\ Depth' = Depth + 1 /\ frames'[Depth + 1] = f
          /\ \A i \in 1 .. Depth : frames'[i] = frames[i]
      BY <1>5, <2>1, PushStep DEF SetupCallback
    <2> QED
      BY <1>5, <2>1, <2>2 DEF Enters, SetupCallback
  <1>6. CASE Execute
    <2> DEFINE f == [kind |-> "execute", saved |-> rsp, sp |-> rsp, scope |-> Scope,
                     res |-> "NotCalled", aborted |-> FALSE]
    <2>1. f \in Frame
      BY DEF Frame, ExecuteFrame, TypeOK
    <2>2. /\ Depth' = Depth + 1 /\ frames'[Depth + 1] = f
          /\ \A i \in 1 .. Depth : frames'[i] = frames[i]
      BY <1>6, <2>1, PushStep DEF Execute
    <2> QED
      BY <1>6, <2>1, <2>2 DEF Enters, Execute
  <1>7. ASSUME NEW slot \in Slots, NEW sp \in StackAddress, CallbackEnter(slot, sp)
        PROVE  Entered \/ Kept
    <2> DEFINE f == [kind |-> "callback", saved |-> sp, sp |-> sp, scope |-> Depth + 1,
                     pred |-> chainHead, slot |-> slot]
    <2>1. CASE slot \in LiveHandlers /\ chainHead <= Depth
      <3>1. f \in Frame
        BY <1>7, MaxFramesAssumption DEF CallbackEnter, Frame, CallbackFrame, TypeOK, Element
      <3>2. /\ Depth' = Depth + 1 /\ frames'[Depth + 1] = f
            /\ \A i \in 1 .. Depth : frames'[i] = frames[i]
        BY <1>7, <2>1, <3>1, PushStep DEF CallbackEnter
      <3>3. /\ frames # <<>> /\ Depth \in 1 .. Depth /\ Top = frames[Depth]
            /\ frames[Depth].kind = "execute"
        BY <1>7 DEF CallbackEnter, Shape
      <3>4. chainHead = frames[Depth].scope
        BY <2>1, <3>3, NumberFacts DEF ChainInv
      <3>5. f.pred = Scope
        BY <3>3, <3>4 DEF Scope
      <3> QED
        BY <1>7, <3>1, <3>2, <3>5 DEF Enters, CallbackEnter
    <2>2. CASE ~(slot \in LiveHandlers /\ chainHead <= Depth)
      BY <1>1, <1>7, <2>2 DEF CallbackEnter
    <2> QED
      BY <2>1, <2>2
  <1>8. ASSUME NEW spill \in Spills, Invoke(spill) PROVE Kept
    <2> DEFINE f == [frames[Depth] EXCEPT !.saved = rsp, !.sp = rsp']
    <2>1. frames # <<>> /\ Top.kind = "execute" /\ Top = frames[Depth] /\ frames[Depth] \in Frame
      BY <1>8 DEF Invoke, Shape
    <2>2. f \in Frame /\ f.kind = "execute" /\ f.scope = Top.scope
      BY <1>8, <2>1, InvokePointer, ExecuteFacts, FrameFacts DEF ExecuteFrame
    <2> QED
      BY <1>3, <1>8, <2>1, <2>2 DEF Invoke
  <1>9. ASSUME NEW spill \in Spills, InvokeStackOverflow(spill) PROVE Kept
    <2> DEFINE f == [frames[Depth] EXCEPT !.res = "StackOverflow"]
    <2>1. frames # <<>> /\ Top.kind = "execute" /\ Top = frames[Depth] /\ frames[Depth] \in Frame
      BY <1>9 DEF InvokeStackOverflow, Shape
    <2>2. f \in Frame /\ f.kind = "execute" /\ f.scope = Top.scope
      BY <2>1, ExecuteFacts, FrameFacts DEF ExecuteFrame
    <2> QED
      BY <1>3, <1>9, <2>1, <2>2 DEF InvokeStackOverflow
  <1>10. CASE TrampolineReturn
    <2> DEFINE f == [frames[Depth] EXCEPT !.sp = Top.saved, !.res = "NoError"]
    <2>1. frames # <<>> /\ Top.kind = "execute" /\ Top = frames[Depth] /\ frames[Depth] \in Frame
      BY <1>10 DEF TrampolineReturn, Shape
    <2>2. f \in Frame /\ f.kind = "execute" /\ f.scope = Top.scope
      BY <2>1, ExecuteFacts, FrameFacts DEF ExecuteFrame
    <2> QED
      BY <1>3, <1>10, <2>1, <2>2 DEF TrampolineReturn
  <1>11. CASE ExecuteReturn
    BY <1>2, <1>11 DEF ExecuteReturn, Shape
  <1>12. CASE CallbackUnwind
    <2>1. frames # <<>> /\ Depth > 1 /\ frames[Depth - 1].kind = "execute"
      BY <1>12 DEF CallbackUnwind, Shape
    <2>2. CASE cpo # NoPanic
      BY <1>1, <1>12, <2>2 DEF CallbackUnwind
    <2>3. CASE cpo = NoPanic
      <3> DEFINE f == [frames[Depth - 1] EXCEPT !.aborted = TRUE]
      <3>1. frames[Depth - 1] \in Frame /\ Front(frames)[Depth - 1] = frames[Depth - 1]
        BY <2>1, FrontFacts DEF TypeOK, Depth
      <3>2. f \in Frame /\ f.kind = "execute" /\ f.scope = frames[Depth - 1].scope
        BY <2>1, <3>1, ExecuteFacts, FrameFacts DEF ExecuteFrame
      <3>3. frames' = [Front(frames) EXCEPT ![Depth - 1] = f]
        BY <1>12, <2>3, <3>1 DEF CallbackUnwind
      <3>4. /\ Depth' = Depth - 1 /\ frames'[Depth - 1] = f /\ Depth \in Nat
            /\ \A i \in 1 .. Depth - 2 : frames'[i] = frames[i]
        BY <2>1, <3>2, <3>3, PopEditStep
      <3>5. \A i \in 1 .. Depth - 1 : i = Depth - 1 \/ i \in 1 .. Depth - 2
        BY <3>4
      <3>6. Depth - 1 \in 0 .. Depth
        BY <2>1, <3>4
      <3> QED
        BY <1>12, <2>1, <3>2, <3>4, <3>5, <3>6 DEF Keeps, CallbackUnwind
    <2> QED
      BY <2>2, <2>3
  <1>13. CASE AllocateReturn \/ SetupReturn \/ CallbackReturn \/ AllocateUnwind \/ SetupUnwind
    BY <1>2, <1>13 DEF AllocateReturn, SetupReturn, CallbackReturn, AllocateUnwind, SetupUnwind
  <1>14. CASE (\E layout \in Layouts : AllocNoMem(layout)) \/ SetupInsufficientSlots \/ Terminated
    BY <1>1, <1>14 DEF AllocNoMem, SetupInsufficientSlots, Terminated, vars
  <1>15. CASE (\E payload \in Payloads : Panic(payload)) \/ Catch \/ Exit
    BY <1>1, <1>15 DEF Panic, Catch, Exit
  <1> HIDE DEF Entered, Kept, IInv
  <1> QED
    BY <1>4, <1>5, <1>6, <1>7, <1>8, <1>9, <1>10, <1>11, <1>12, <1>13, <1>14, <1>15 DEF Next

-----------------------------------------------------------------------------
(* Alignment *)

\* A multiple of the alignment, less one part that is a multiple, leaves another.
LEMMA RestAligned ==
    \A align \in Nat \ {0} : \A a \in Nat : \A b \in Nat : \A q \in Nat :
        a + b = align * q => (a % align = 0 => b % align = 0)
  <1> SUFFICES ASSUME NEW align \in Nat \ {0}, NEW a \in Nat, NEW b \in Nat, NEW q \in Nat,
                      a + b = align * q, a % align = 0
               PROVE  b % align = 0
    BY Zenon
  <1>1. PICK s \in Nat : a = align * s
    <2>1. /\ a \div align \in Nat /\ align * (a \div align) \in Nat
          /\ a = align * (a \div align) + (a % align)
      OBVIOUS
    <2>2. a = align * (a \div align)
      <3>1. \A n \in Nat : n + 0 = n
        OBVIOUS
      <3> QED
        BY <2>1, <3>1, Zenon
    <2> QED
      BY <2>1, <2>2, Zenon
  <1>2. align * s <= align * q
    <2>1. a <= align * q
      OBVIOUS
    <2> QED
      BY <1>1, <2>1, Zenon
  <1>3. PICK k \in Nat : q = s + k
    <2>1. q - s \in Nat
      BY <1>2
    <2>2. q = s + (q - s)
      OBVIOUS
    <2> QED
      BY <2>1, <2>2
  <1>4. b = align * k
    BY <1>1, <1>3
  <1>5. \A n \in Nat : (align * n) % align = 0
    OBVIOUS
  <1> QED
    BY <1>4, <1>5, Zenon

\* Of two parts of a multiple, one is a multiple exactly if the other is.
LEMMA PartsAligned ==
    \A align \in Nat \ {0} : \A a \in Nat : \A b \in Nat : \A q \in Nat :
        a + b = align * q => (a % align = 0 <=> b % align = 0)
  <1> SUFFICES ASSUME NEW align \in Nat \ {0}, NEW a \in Nat, NEW b \in Nat, NEW q \in Nat,
                      a + b = align * q
               PROVE  a % align = 0 <=> b % align = 0
    BY Zenon
  <1>1. b + a = align * q
    <2>1. a + b = b + a
      OBVIOUS
    <2> QED
      BY <2>1, Zenon
  <1>2. ASSUME a % align = 0 PROVE b % align = 0
    BY <1>2, RestAligned, Zenon
  <1>3. ASSUME b % align = 0 PROVE a % align = 0
    BY <1>1, <1>3, RestAligned, Zenon
  <1> QED
    BY <1>2, <1>3, Zenon

\* What is lowered by a size and by what the old pointer misses of the alignment
\* is aligned exactly if the size is a multiple of it.
LEMMA LoweredAligned ==
    \A align \in Nat \ {0} : \A fsp \in Nat : \A size \in Nat : \A r \in Nat : \A low \in Nat :
        r = fsp % align /\ size + r <= fsp /\ low = fsp - size - r =>
            (low % align = 0 <=> size % align = 0)
  <1> SUFFICES ASSUME NEW align \in Nat \ {0}, NEW fsp \in Nat, NEW size \in Nat,
                      NEW r \in Nat, NEW low \in Nat,
                      r = fsp % align, size + r <= fsp, low = fsp - size - r
               PROVE  low % align = 0 <=> size % align = 0
    BY Zenon
  <1>1. PICK q \in Nat : fsp = align * q + r
    <2>1. fsp \div align \in Nat /\ fsp = align * (fsp \div align) + (fsp % align)
      OBVIOUS
    <2> QED
      BY <2>1
  <1>2. low + size = align * q
    <2>1. PICK n \in Nat : n = align * q
      OBVIOUS
    <2>2. fsp = n + r
      BY <1>1, <2>1, Zenon
    <2>3. low + size = n
      BY <2>2
    <2> QED
      BY <2>1, <2>3, Zenon
  <1> QED
    BY <1>2, PartsAligned, Zenon

\* allocate_stacked_untracked_mut: no subtraction saturates where the pointer
\* stays in the sandbox, so that it is the original one less both amounts.
LEMMA AllocPointerAligned ==
    ASSUME NEW fsp \in StackAddress, NEW layout \in Layouts, AllocFits(fsp, layout, BoxMin)
    PROVE  AllocPointer(fsp, layout) % layout.align = 0 <=> layout.size % layout.align = 0
  <1>1. fsp \in Nat /\ layout.size \in Nat /\ layout.align \in Nat \ {0} /\ BoxMin \in Nat \ {0}
    BY BoxAssumption, LayoutsAssumption DEF StackAddress, Address
  <1>2. PICK r \in Nat : r = fsp % layout.align
    BY <1>1
  <1>3. AllocPointer(fsp, layout) > 0
    BY <1>1, <1>2 DEF AllocFits, AllocPointer, SaturatingSub
  <1>4. layout.size + r <= fsp /\ AllocPointer(fsp, layout) = fsp - layout.size - r
    BY <1>1, <1>2, <1>3 DEF AllocPointer, SaturatingSub
  <1>5. AllocPointer(fsp, layout) \in Nat
    BY <1>1, <1>2, <1>4
  <1> QED
    BY <1>1, <1>2, <1>4, <1>5, LoweredAligned, Zenon

\* The allocations among the calls are aligned if their size allows it.
AlignedCall(f) == f.sp % f.align = 0 <=> f.len % f.align = 0
AlignInv == \A i \in 1 .. Depth : frames[i].kind = "alloc" => AlignedCall(frames[i])

LEMMA AlignStep ==
    ASSUME IInv, AlignInv, Next
    PROVE  AlignInv'
  <1> SUFFICES ASSUME NEW i \in 1 .. Depth', frames'[i].kind = "alloc"
               PROVE  AlignedCall(frames'[i])
    BY DEF AlignInv
  <1>1. Depth \in Nat /\ rsp \in StackAddress
    BY TopFacts DEF IInv, TypeOK
  <1>2. ASSUME NEW f \in Frame, Enters(f) PROVE AlignedCall(frames'[i])
    <2>1. CASE i = Depth + 1
      <3>1. frames'[i] = f /\ f.kind = "alloc"
        BY <1>2, <2>1 DEF Enters
      <3>2. PICK layout \in Layouts :
                  /\ AllocFits(rsp, layout, BoxMin)
                  /\ f.sp = AllocPointer(rsp, layout)
                  /\ f.len = layout.size /\ f.align = layout.align
        BY <1>2, <3>1 DEF Enters
      <3>3. AllocPointer(rsp, layout) % layout.align = 0 <=> layout.size % layout.align = 0
        BY <1>1, <3>2, AllocPointerAligned
      <3> QED
        BY <3>1, <3>2, <3>3, Zenon DEF AlignedCall
    <2>2. CASE i # Depth + 1
      <3>1. i \in 1 .. Depth
        BY <1>1, <1>2, <2>2 DEF Enters
      <3> QED
        BY <1>2, <3>1 DEF Enters, AlignInv
    <2> QED
      BY <2>1, <2>2
  <1>3. CASE Kept
    <2>1. i \in 1 .. Depth
      BY <1>1, <1>3 DEF Kept
    <2>2. Keeps(i)
      BY <1>3 DEF Kept
    <2> QED
      BY <2>1, <2>2 DEF Keeps, AlignInv
  <1> QED
    BY <1>2, <1>3, StepCases DEF Entered

\* Every closure gets a pointer of the alignment it asked for exactly if the size
\* of what it asked for is a multiple of it: the pointer is lowered by what the
\* original one misses of the alignment, and taking the size off may undo it.
THEOREM AllocationsStayAligned == Spec => []AllocationsAligned
  <1>1. Init => AlignInv
    <2>1. Init => Depth = 0
      BY DEF Init, Depth
    <2> QED
      BY <2>1 DEF AlignInv
  <1>2. IInv /\ AlignInv /\ [Next]_vars => AlignInv'
    <2>1. ASSUME UNCHANGED vars, AlignInv PROVE AlignInv'
      BY <2>1 DEF vars, AlignInv, Depth
    <2> QED
      BY <2>1, AlignStep
  <1>3. ASSUME IInv, AlignInv PROVE AllocationsAligned
    <2>1. DOMAIN frames = 1 .. Depth
      BY <1>3 DEF IInv, TypeOK, Depth
    <2> QED
      BY <1>3, <2>1 DEF AlignInv, AlignedCall, AllocationsAligned, HostAllocations
  <1>4. Spec => []IInv
    BY Invariance
  <1> QED
    BY <1>1, <1>2, <1>3, <1>4, PTL DEF Spec

-----------------------------------------------------------------------------
(* Scopes *)

IsElement(i) == frames[i].kind \in {"alloc", "callback"}

\* The scope of the closure that the first j calls end in.
ScopeAt(j) == IF j = 0 THEN 0 ELSE frames[j].scope

\* Links lead from a scope to that of the call below, and no scope is dead.
Linked(i) ==
    /\ IsElement(i) => frames[i].pred = ScopeAt(i - 1)
    /\ frames[i].scope = 0 \/ (frames[i].scope \in 1 .. i /\ IsElement(frames[i].scope))

LinkInv == \A i \in 1 .. Depth : Linked(i)

\* What follows the links among the first j calls, from the scope they end in.
Follows(S, j) ==
    /\ ScopeAt(j) \in S
    /\ \A d \in 1 .. j : d \in S /\ IsElement(d) => frames[d].pred \in S

\* From every scope, not only the innermost, the links reach each allocation
\* below it: the weaker claim about the innermost one does not survive the
\* return of its call.
ReachInv ==
    \A j \in 0 .. Depth : \A S \in SUBSET Nat :
        Follows(S, j) => \A i \in 1 .. j : frames[i].kind = "alloc" => i \in S

VisibleInv == LinkInv /\ ReachInv

\* A call that a step keeps is as good a link as before.
LEMMA KeepsLink ==
    ASSUME NEW i, Keeps(i)
    PROVE  /\ frames'[i].scope = frames[i].scope
           /\ frames'[i].kind = frames[i].kind /\ (IsElement(i)' <=> IsElement(i))
           /\ IsElement(i) => frames'[i].pred = frames[i].pred
  BY DEF Keeps, IsElement

\* So are the first j of them.
LEMMA KeepsScopes ==
    ASSUME NEW j \in Nat, \A i \in 1 .. j : Keeps(i)
    PROVE  /\ ScopeAt(j)' = ScopeAt(j)
           /\ \A S : Follows(S, j)' <=> Follows(S, j)
  <1>1. \A i \in 1 .. j :
            /\ frames'[i].scope = frames[i].scope
            /\ (IsElement(i)' <=> IsElement(i))
            /\ IsElement(i) => frames'[i].pred = frames[i].pred
    BY KeepsLink
  <1>2. j # 0 => j \in 1 .. j
    OBVIOUS
  <1>3. ScopeAt(j)' = ScopeAt(j)
    BY <1>1, <1>2 DEF ScopeAt
  <1> QED
    BY <1>1, <1>3 DEF Follows

\* The links of calls that stay.
LEMMA LinkKept ==
    ASSUME NEW i \in Nat \ {0}, Linked(i), \A k \in 1 .. i : Keeps(k)
    PROVE  Linked(i)'
  <1>1. i - 1 \in Nat /\ i \in 1 .. i /\ \A k \in 1 .. i - 1 : k \in 1 .. i
    OBVIOUS
  <1>2. ScopeAt(i - 1)' = ScopeAt(i - 1)
    BY <1>1, KeepsScopes
  <1>3. /\ frames'[i].scope = frames[i].scope /\ (IsElement(i)' <=> IsElement(i))
        /\ IsElement(i) => frames'[i].pred = frames[i].pred
    BY <1>1, KeepsLink
  <1>4. ASSUME frames[i].scope \in 1 .. i, IsElement(frames[i].scope)
        PROVE  frames'[frames'[i].scope].kind \in {"alloc", "callback"}
    <2>1. frames'[frames[i].scope].kind = frames[frames[i].scope].kind
      BY <1>4, KeepsLink
    <2> QED
      BY <1>3, <1>4, <2>1 DEF IsElement
  <1> QED
    BY <1>2, <1>3, <1>4 DEF Linked, IsElement

\* The scope of the innermost closure
LEMMA ScopeIsInnermost ==
    ASSUME TypeOK
    PROVE  Scope = ScopeAt(Depth)
  BY TopFacts DEF Scope, ScopeAt

\* A new call, whose scope is its own element or that of the call below.
LEMMA VisiblePush ==
    ASSUME TypeOK, VisibleInv, NEW f \in Frame, Enters(f)
    PROVE  VisibleInv'
  <1>1. /\ Depth \in Nat /\ Depth' = Depth + 1 /\ frames'[Depth + 1] = f
        /\ \A i \in 1 .. Depth : Keeps(i)
        /\ f.kind \in {"alloc", "setup", "execute", "callback"}
    BY TopFacts, FrameFacts DEF Enters, Keeps
  <1>2. \A j \in 0 .. Depth : ScopeAt(j)' = ScopeAt(j) /\ \A S : Follows(S, j)' <=> Follows(S, j)
    <2> SUFFICES ASSUME NEW j \in 0 .. Depth
                 PROVE  ScopeAt(j)' = ScopeAt(j) /\ \A S : Follows(S, j)' <=> Follows(S, j)
      OBVIOUS
    <2>1. j \in Nat /\ \A i \in 1 .. j : i \in 1 .. Depth
      BY <1>1
    <2> QED
      BY <1>1, <2>1, KeepsScopes
  <1> PICK n \in Nat : n = Depth
    BY <1>1
  <1>3. ScopeAt(n)' = Scope /\ frames'[n + 1] = f
    <2>1. n \in 0 .. Depth /\ ScopeAt(n) = Scope
      BY ScopeIsInnermost
    <2> QED
      BY <1>1, <1>2, <2>1
  <1>4. LinkInv'
    <2> SUFFICES ASSUME NEW i \in 1 .. Depth' PROVE Linked(i)'
      BY DEF LinkInv
    <2>1. CASE i \in 1 .. Depth
      <3>1. Linked(i) /\ i \in Nat \ {0} /\ \A k \in 1 .. i : k \in 1 .. Depth
        BY <1>1, <2>1 DEF VisibleInv, LinkInv
      <3> QED
        BY <1>1, <3>1, LinkKept
    <2>2. CASE i = Depth + 1
      <3>1. i - 1 = n /\ i = n + 1 /\ i \in 1 .. i /\ frames'[i] = f
        BY <1>1, <2>2
      <3>2. IsElement(i)' => frames'[i].pred = ScopeAt(i - 1)'
        BY <1>3, <2>2, <3>1 DEF IsElement, Enters
      <3>3. CASE f.kind \in {"alloc", "callback"}
        BY <1>1, <2>2, <3>1, <3>2, <3>3 DEF Linked, IsElement, Enters
      <3>4. CASE f.kind \in {"setup", "execute"}
        <4>1. f.scope = Scope
          BY <3>4 DEF Enters
        <4>2. ASSUME Scope # 0 PROVE Scope \in 1 .. Depth /\ IsElement(Scope)
          <5>1. Depth \in 1 .. Depth /\ Scope = frames[Depth].scope
            BY <1>1, <4>2, ScopeIsInnermost DEF ScopeAt
          <5> QED
            BY <4>2, <5>1 DEF VisibleInv, LinkInv, Linked
        <4>3. ASSUME Scope # 0
              PROVE  Scope \in 1 .. i /\ frames'[Scope].kind \in {"alloc", "callback"}
          <5>1. Keeps(Scope) /\ IsElement(Scope) /\ Scope \in 1 .. i
            BY <1>1, <2>2, <4>2, <4>3
          <5> QED
            BY <5>1, KeepsLink DEF IsElement
        <4> QED
          BY <3>1, <3>2, <4>1, <4>3 DEF Linked, IsElement
      <3> QED
        BY <1>1, <3>3, <3>4
    <2> QED
      BY <1>1, <2>1, <2>2
  <1>5. ReachInv'
    <2> SUFFICES ASSUME NEW j \in 0 .. Depth', NEW S \in SUBSET Nat, Follows(S, j)',
                        NEW i \in 1 .. j, frames'[i].kind = "alloc"
                 PROVE  i \in S
      BY DEF ReachInv
    <2>1. \A k \in 1 .. Depth : frames'[k].kind = frames[k].kind
      BY <1>1, KeepsLink
    <2>2. CASE j \in 0 .. Depth
      <3>1. Follows(S, j) /\ i \in 1 .. Depth
        BY <1>1, <1>2, <2>2
      <3> QED
        BY <2>1, <2>2, <3>1 DEF VisibleInv, ReachInv
    <2>3. CASE j = Depth + 1
      <3>1. j = n + 1 /\ f.scope \in S /\ \A d \in 1 .. Depth + 1 :
                d \in S /\ frames'[d].kind \in {"alloc", "callback"} => frames'[d].pred \in S
        <4>1. j = n + 1 /\ ScopeAt(j)' = f.scope
          BY <1>3, <2>3 DEF ScopeAt
        <4> QED
          BY <2>3, <4>1 DEF Follows, IsElement
      <3>2. Depth + 1 \in 1 .. Depth + 1 /\ \A d \in 1 .. Depth : d \in 1 .. Depth + 1
        BY <1>1
      <3>3. f.kind \in {"alloc", "callback"} => Depth + 1 \in S /\ Scope \in S
        BY <1>1, <3>1, <3>2 DEF Enters
      <3>4. Scope \in S
        BY <1>1, <3>1, <3>3 DEF Enters
      <3>5. Follows(S, n)'
        BY <1>3, <3>1, <3>2, <3>4 DEF Follows, IsElement
      <3>6. Depth \in 0 .. Depth /\ Follows(S, Depth)
        BY <1>1, <1>2, <3>5
      <3>7. i \in 1 .. Depth \/ i = Depth + 1
        BY <1>1, <2>3
      <3>8. CASE i \in 1 .. Depth
        BY <2>1, <3>6, <3>8 DEF VisibleInv, ReachInv
      <3>9. CASE i = Depth + 1
        BY <1>1, <3>3, <3>9
      <3> QED
        BY <3>7, <3>8, <3>9
    <2> QED
      BY <1>1, <2>2, <2>3
  <1> QED
    BY <1>4, <1>5 DEF VisibleInv

\* Calls that end take with them only what is above the scopes that stay.
LEMMA VisiblePop ==
    ASSUME TypeOK, VisibleInv, Kept
    PROVE  VisibleInv'
  <1>1. Depth \in Nat /\ Depth' \in 0 .. Depth /\ \A i \in 1 .. Depth' : Keeps(i)
    BY TopFacts DEF Kept
  <1>2. LinkInv'
    <2> SUFFICES ASSUME NEW i \in 1 .. Depth' PROVE Linked(i)'
      BY DEF LinkInv
    <2>1. i \in 1 .. Depth /\ i \in Nat \ {0} /\ \A k \in 1 .. i : k \in 1 .. Depth'
      BY <1>1
    <2> QED
      BY <1>1, <2>1, LinkKept DEF VisibleInv, LinkInv
  <1>3. ReachInv'
    <2> SUFFICES ASSUME NEW j \in 0 .. Depth', NEW S \in SUBSET Nat, Follows(S, j)',
                        NEW i \in 1 .. j, frames'[i].kind = "alloc"
                 PROVE  i \in S
      BY DEF ReachInv
    <2>1. j \in Nat /\ j \in 0 .. Depth /\ \A k \in 1 .. j : k \in 1 .. Depth'
      BY <1>1
    <2>2. Follows(S, j)
      BY <1>1, <2>1, KeepsScopes
    <2>3. frames[i].kind = "alloc"
      BY <1>1, <2>1, KeepsLink
    <2> QED
      BY <2>1, <2>2, <2>3 DEF VisibleInv, ReachInv
  <1> QED
    BY <1>2, <1>3 DEF VisibleInv

\* Wherever user code runs, in whatever callback, its AllocScope reaches every
\* host allocation that is in use, and no element whose frame has returned.
THEOREM AllocationsStayVisible == Spec => []HostAllocationsVisible
  <1>1. Init => VisibleInv
    <2>1. ASSUME Init PROVE Depth = 0
      BY <2>1 DEF Init, Depth
    <2>2. ASSUME Init PROVE LinkInv
      BY <2>1, <2>2 DEF LinkInv
    <2>3. ASSUME Init PROVE ReachInv
      BY <2>1, <2>3 DEF ReachInv
    <2> QED
      BY <2>2, <2>3 DEF VisibleInv
  <1>2. IInv /\ VisibleInv /\ [Next]_vars => VisibleInv'
    <2>1. ASSUME UNCHANGED vars, VisibleInv PROVE VisibleInv'
      BY <2>1 DEF vars, VisibleInv, LinkInv, Linked, ReachInv, Follows, IsElement, ScopeAt, Depth
    <2> QED
      BY <2>1, StepCases, VisiblePush, VisiblePop DEF Entered, IInv
  <1>3. ASSUME IInv, VisibleInv PROVE HostAllocationsVisible
    <2> USE <1>3, TopFacts DEF IInv
    <2>1. DOMAIN frames = 1 .. Depth /\ Depth \in Nat
      BY DEF TypeOK, Depth
    <2>2. \A i : i \in Elements <=> i \in 1 .. Depth /\ IsElement(i)
      BY <2>1 DEF Elements, IsElement
    <2>3. ASSUME NEW j \in 0 .. Depth PROVE ScopeAt(j) \in Elements \cup {0}
      <3>1. CASE j = 0
        BY <3>1 DEF ScopeAt
      <3>2. CASE j # 0
        <4>1. j \in 1 .. Depth /\ ScopeAt(j) = frames[j].scope
          BY <2>1, <3>2 DEF ScopeAt
        <4>2. frames[j].scope # 0 =>
                frames[j].scope \in 1 .. j /\ IsElement(frames[j].scope)
          BY <4>1 DEF VisibleInv, LinkInv, Linked
        <4>3. \A k \in 1 .. j : k \in 1 .. Depth
          BY <2>1
        <4> QED
          BY <2>2, <4>1, <4>2, <4>3
      <3> QED
        BY <3>1, <3>2
    <2>4. Scope \in Elements \cup {0}
      BY <2>1, <2>3, ScopeIsInnermost
    <2>5. ASSUME NEW d \in Elements PROVE frames[d].pred \in Elements \cup {0}
      <3>1. d \in 1 .. Depth /\ d - 1 \in 0 .. Depth /\ IsElement(d)
        BY <2>1, <2>2
      <3> QED
        BY <2>3, <3>1 DEF VisibleInv, LinkInv, Linked
    <2>6. ASSUME NEW i \in HostAllocations, NEW S \in SUBSET Elements, FollowsLinks(S, Scope)
          PROVE  i \in S
      <3>1. i \in 1 .. Depth /\ frames[i].kind = "alloc"
        BY <2>1 DEF HostAllocations
      <3>2. S \cup {0} \in SUBSET Nat
        BY <2>1, <2>2
      <3>3. Scope \in S \cup {0} /\ \A d \in S : frames[d].pred \in S \cup {0}
        BY <2>4, <2>5, <2>6 DEF FollowsLinks
      <3>4. Follows(S \cup {0}, Depth)
        <4>1. \A d \in 1 .. Depth : d \in S \cup {0} => d \in S
          BY <2>1
        <4> QED
          BY <3>3, <4>1, ScopeIsInnermost DEF Follows
      <3>5. Depth \in 0 .. Depth /\ i # 0
        BY <2>1, <3>1
      <3> QED
        BY <3>1, <3>2, <3>4, <3>5 DEF VisibleInv, ReachInv
    <2>7. HostAllocations \subseteq Chain(Scope)
      BY <2>1, <2>2, <2>6 DEF Chain, HostAllocations, IsElement
    <2>8. {Scope} \cup {frames[d].pred : d \in Chain(Scope)} \subseteq Elements \cup {0}
      BY <2>4, <2>5 DEF Chain
    <2> QED
      BY <2>7, <2>8 DEF HostAllocationsVisible
  <1>4. Spec => []IInv
    BY Invariance
  <1> QED
    BY <1>1, <1>2, <1>3, <1>4, PTL DEF Spec

-----------------------------------------------------------------------------
(* Programs whose callbacks do not call the library *)

\* No callback has an execute above it.
Flat == \A i, j \in 1 .. Depth :
    i < j /\ frames[i].kind = "callback" => frames[j].kind # "execute"

\* There is one execute at most then, and one callback.
LEMMA FlatCalls ==
    ASSUME TypeOK, Shape, Flat,
           NEW i \in 1 .. Depth, NEW j \in 1 .. Depth, i < j
    PROVE  ~(frames[i].kind \in {"execute", "callback"} /\ frames[j].kind = frames[i].kind)
  <1>1. Depth \in Nat
    BY TopFacts
  <1>2. CASE frames[i].kind = "execute"
    <2>1. i + 1 \in 1 .. Depth /\ frames[i + 1].kind = "callback"
      BY <1>1, <1>2 DEF Shape
    <2>2. i + 1 = j \/ i + 1 < j
      BY <1>1
    <2> QED
      BY <1>2, <2>1, <2>2 DEF Flat
  <1>3. CASE frames[i].kind = "callback"
    <2>1. frames[j].kind = "callback" => j - 1 \in 1 .. Depth /\ frames[j - 1].kind = "execute"
      BY <1>1 DEF Shape
    <2>2. i = j - 1 \/ i < j - 1
      BY <1>1
    <2> QED
      BY <1>3, <2>1, <2>2 DEF Flat
  <1> QED
    BY <1>2, <1>3

\* No call of a handler begins before the last one has returned, as "the `&mut
\* FnMut` closure" of setup_callback needs, unless a callback calls the library,
\* which may then call it back.
THEOREM FlatHandlersExclusive == Spec /\ []Flat => []HandlersExclusive
  <1>1. ASSUME IInv, Flat PROVE HandlersExclusive
    <2> SUFFICES ASSUME NEW i \in DOMAIN frames, NEW j \in DOMAIN frames,
                        frames[i].kind = "callback", frames[j].kind = "callback", i # j
                 PROVE  FALSE
      BY DEF HandlersExclusive
    <2>1. DOMAIN frames = 1 .. Depth /\ Depth \in Nat
      BY <1>1, TopFacts DEF IInv, TypeOK, Depth
    <2>2. i < j \/ j < i
      BY <2>1
    <2> QED
      BY <1>1, <2>1, <2>2, FlatCalls DEF IInv
  <1>2. Spec => []IInv
    BY Invariance
  <1> QED
    BY <1>1, <1>2, PTL

\* The head that a callback reads is the scope of the one execute there is.
HeadInv ==
    /\ mode # "undefined"
    /\ \A i \in 1 .. Depth : frames[i].kind = "execute" => chainHead = frames[i].scope

\* Only a nested execute would leave it a scope that ends before the outer one.
LEMMA HeadStep ==
    ASSUME IInv, HeadInv, Flat', Shape', Next,
           NEW i \in 1 .. Depth', frames'[i].kind = "execute"
    PROVE  chainHead' = frames'[i].scope
  <1>1. Depth \in Nat
    BY TopFacts DEF IInv
  <1>2. ASSUME NEW f \in Frame, Enters(f) PROVE chainHead' = frames'[i].scope
    <2>1. i = Depth + 1 \/ i \in 1 .. Depth
      BY <1>1, <1>2 DEF Enters
    <2>2. CASE i = Depth + 1
      BY <1>2, <2>2 DEF Enters
    <2>3. CASE i \in 1 .. Depth
      <3>1. frames'[i] = frames[i] /\ chainHead = frames[i].scope
        BY <1>2, <2>3 DEF Enters, HeadInv
      <3>2. f.kind # "execute"
        <4>1. /\ Depth + 1 \in 1 .. Depth' /\ frames'[Depth + 1] = f
              /\ i + 1 \in 1 .. Depth' /\ (i + 1 = Depth + 1 \/ i + 1 < Depth + 1)
          BY <1>1, <1>2, <2>3 DEF Enters
        <4>2. frames'[i + 1].kind = "callback"
          BY <1>1, <1>2, <2>3 DEF Enters, Shape
        <4> QED
          BY <4>1, <4>2 DEF Flat
      <3> QED
        BY <1>2, <3>1, <3>2 DEF Enters
    <2> QED
      BY <2>1, <2>2, <2>3
  <1>3. CASE Kept
    <2>1. i \in 1 .. Depth /\ Keeps(i) /\ UNCHANGED chainHead
      BY <1>1, <1>3 DEF Kept
    <2> QED
      BY <2>1 DEF Keeps, HeadInv
  <1> QED
    BY <1>2, <1>3, StepCases DEF Entered

\* Nothing else is undefined where no handler is gone.
LEMMA DefinedStep ==
    ASSUME IInv, InvokeWindow, NoDroppedHandler, HeadInv, Next
    PROVE  mode' # "undefined"
  <1> USE TopFacts DEF IInv
  <1>1. ASSUME mode' = mode \/ mode' \in Mode \ {"undefined"} PROVE mode' # "undefined"
    BY <1>1 DEF HeadInv, Mode
  <1>2. ASSUME NEW spill \in Spills, Invoke(spill) PROVE mode' # "undefined"
    BY <1>2 DEF Invoke, InvokeWindow
  <1>3. ASSUME NEW slot \in Slots, NEW sp \in StackAddress, CallbackEnter(slot, sp)
        PROVE  mode' # "undefined"
    <2>1. mode = "sandbox" /\ slot \in LiveHandlers
      BY <1>3 DEF CallbackEnter, NoDroppedHandler
    <2>2. /\ frames # <<>> /\ Depth \in 1 .. Depth /\ Depth \in Nat
          /\ frames[Depth].kind = "execute"
      BY <2>1 DEF Shape
    <2>3. chainHead = frames[Depth].scope /\ frames[Depth].scope <= Depth
      BY <2>2 DEF HeadInv, Shape
    <2> QED
      BY <1>3, <2>1, <2>3 DEF CallbackEnter
  <1>4. CASE Execute \/ (\E spill \in Spills : InvokeStackOverflow(spill))
             \/ TrampolineReturn \/ ExecuteReturn
    BY <1>4 DEF Execute, InvokeStackOverflow, TrampolineReturn, ExecuteReturn
  <1>5. CASE \/ \E layout \in Layouts : AllocateStacked(layout) \/ AllocNoMem(layout)
             \/ AllocateReturn \/ AllocateUnwind
             \/ \E slot \in Slots : SetupCallback(slot)
             \/ SetupInsufficientSlots \/ SetupReturn \/ SetupUnwind \/ Terminated
    BY <1>1, <1>5 DEF AllocateStacked, AllocNoMem, AllocateReturn, AllocateUnwind, SetupCallback,
       SetupInsufficientSlots, SetupReturn, SetupUnwind, Terminated, vars
  <1>6. CASE CallbackReturn \/ CallbackUnwind
             \/ (\E payload \in Payloads : Panic(payload)) \/ Catch \/ Exit
    BY <1>6 DEF CallbackReturn, CallbackUnwind, Panic, Catch, Exit
  <1> QED
    BY <1>2, <1>3, <1>4, <1>5, <1>6 DEF Next

\* Entering a callback never reads dead memory ("the latest execute call ...
\* holds a shared borrow of this element throughout the entire time that this
\* callback can execute"), unless a callback calls the library or user code
\* catches a panic.
THEOREM FlatNeverUndefined ==
    ASSUME CatchIn = {}
    PROVE  Spec /\ []Flat => []NeverUndefined
  <1>1. Init => HeadInv
    <2>1. Init => Depth = 0 /\ mode = "host"
      BY DEF Init, Depth
    <2> QED
      BY <2>1 DEF HeadInv
  <1>2. IInv /\ IInv' /\ InvokeWindow /\ NoDroppedHandler /\ Flat' /\ HeadInv /\ [Next]_vars
           => HeadInv'
    <2>1. ASSUME UNCHANGED vars, HeadInv PROVE HeadInv'
      BY <2>1 DEF vars, HeadInv, Depth
    <2>2. ASSUME IInv, IInv', InvokeWindow, NoDroppedHandler, Flat', HeadInv, Next PROVE HeadInv'
      <3>1. mode' # "undefined"
        BY <2>2, DefinedStep
      <3>2. \A i \in 1 .. Depth' : frames'[i].kind = "execute" => chainHead' = frames'[i].scope
        BY <2>2, HeadStep DEF IInv
      <3> QED
        BY <3>1, <3>2 DEF HeadInv
    <2> QED
      BY <2>1, <2>2
  <1>3. HeadInv => NeverUndefined
    BY DEF HeadInv, NeverUndefined
  <1>4. Spec => []IInv
    BY Invariance
  <1>5. Spec => []InvokeWindow
    BY InvokeInWindow
  <1>6. Spec => []NoDroppedHandler
    BY NoHandlerDropped
  <1> QED
    BY <1>1, <1>2, <1>3, <1>4, <1>5, <1>6, PTL DEF Spec

=============================================================================
