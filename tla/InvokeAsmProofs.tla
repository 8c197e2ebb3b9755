-------------------------- MODULE InvokeAsmProofs --------------------------
(***************************************************************************)
(* The properties of InvokeAsm for any depth and number of calls, any      *)
(* number of stacked words, and any size of the two stacks.  The invariant *)
(* says, for every call under way, where its frame is on the host stack    *)
(* and what is in it, and that the frames are disjoint: a nested call      *)
(* writes below everything the calls around it will read again.            *)
(***************************************************************************)
EXTENDS InvokeAsm, SequenceTheorems, TLAPS

\* The stacked arguments and the return address of a call.
Arguments(f) ==
    /\ host[f.entry] = Word("retaddr", f.id, 0)
    /\ \A j \in 1 .. StackedWords(f.sig) : host[f.entry + j] = StackedWord(f.sig, f.id, j)

\* What invoke has pushed below it.
Saved(f) ==
    /\ host[f.entry - 1] = Word("res", f.id, 0)
    /\ host[f.entry - 2] = LfiRegs
    /\ host[f.entry - 3] = Word("fsp", f.fsp, 0)

\* The function has called a callback, and its locals are on its stack.
InCallback(f) ==
    /\ f.ran /\ Saved(f)
    /\ f.local \in BoxWords /\ BoxMin <= f.local /\ f.local <= f.fsp
    /\ box[f.local] = Word("local", f.id, 0)

\* Where a call's frame is: below the frame of the call around it.
Placed(d) ==
    /\ frames[d].entry >= HostReserve /\ frames[d].entry % 2 = 1
    /\ frames[d].entry + StackedWords(frames[d].sig) < frames[d].top
    /\ d = 1 => frames[d].top = HostTop
    /\ d > 1 => /\ frames[d].top = frames[d - 1].entry - HostReserve
                /\ frames[d].fsp = frames[d - 1].local

FramesInv ==
    /\ \A d \in 1 .. Depth : Placed(d) /\ Arguments(frames[d])
    /\ \A d \in 1 .. Depth - 1 : InCallback(frames[d])
    /\ \A d, e \in 1 .. Depth : d < e =>
          /\ frames[e].top <= frames[d].entry - HostReserve
          /\ frames[e].fsp <= frames[d].local

\* The register arguments are where they were passed.
InRegisters(f) == \A k \in 1 .. f.sig.areg : reg[ArgRegs[k]] = Word("arg", f.id, k)

\* The same while three of the registers are stashed.
Stashed(f) ==
    \A k \in 1 .. f.sig.areg :
        Word("arg", f.id, k) = CASE k = 4 -> host[f.entry - 6]
                                 [] k = 1 -> host[f.entry - 5]
                                 [] k = 2 -> host[f.entry - 4]
                                 [] OTHER -> reg[ArgRegs[k]]

\* The stacked words have been copied to address a of the foreign stack.
CopiedTo(f, a) ==
    /\ a \in BoxMin .. f.fsp /\ a % StackAlign = 0
    /\ \A j \in 1 .. f.sig.spill : box[a + (j - 1) * WordSize] = Word("stacked", f.id, j)

\* How far the innermost call is.
TopInv ==
    /\ pc = "caller" => Depth = 0 /\ rsp = HostTop
    /\ pc # "caller" => Depth > 0
    /\ pc \in {"entry", "saved", "copied"} => lfi.rsp = Top.fsp /\ ~Top.ran /\ Top.local = 0
    /\ pc = "entry" =>
          /\ rsp = Top.entry /\ regsPtr = LfiRegs
          /\ \A k \in 1 .. 6 : reg[ArgRegs[k]] = Passed(Top.sig, Top.id, k)
    /\ pc = "saved" => rsp = Top.entry - 3 /\ Saved(Top) /\ InRegisters(Top)
    /\ pc = "copied" =>
          /\ rsp = Top.entry - 6 /\ Saved(Top) /\ Stashed(Top)
          /\ \E a \in BoxMin .. BoxTop : reg["r11"] = Word("fsp", a, 0) /\ CopiedTo(Top, a)
    /\ pc = "foreign" =>
          /\ rsp = Top.entry - 4 /\ Saved(Top) /\ Top.ran /\ lfi.rsp <= Top.fsp
          /\ Top.local = 0 => InRegisters(Top) /\ CopiedTo(Top, lfi.rsp)
          /\ Top.local # 0 => InCallback(Top) /\ CallbackAnswers
    /\ pc = "callback" => rsp = Top.entry - HostReserve /\ InCallback(Top) /\ lfi.rsp = Top.local
    /\ pc = "back" =>
          /\ rsp = Top.entry - 3 /\ Saved(Top) /\ Top.ran
          /\ reg["rax"] = Word("ret", Top.id, 0) /\ reg["rdx"] = Word("ret", Top.id, 1)
    /\ CallerResumes /\ ResultsReported

IInv == TypeOK /\ FramesInv /\ TopInv

-----------------------------------------------------------------------------
(* Data *)

\* The words of a block lie one behind the other, and the copy of the k-th word
\* comes from the k-th word.
LEMMA WordArithmetic ==
    ASSUME NEW k \in Nat
    PROVE  /\ k * WordSize \in Nat
           /\ (k * WordSize) \div WordSize = k
           /\ (k * WordSize) % WordSize = 0
           /\ \A n \in Nat : k < n => k * WordSize <= n * WordSize - 1
           /\ \A a \in Nat : a % StackAlign = 0 => (a + k * WordSize) % WordSize = 0
  <1>1. WordSize \in Nat \ {0} /\ StackAlign = 2 * WordSize
    BY WordSizeAssumption
  <1>2. k * WordSize \in Nat /\ (k * WordSize) \div WordSize = k /\ (k * WordSize) % WordSize = 0
    BY <1>1
  <1>3. ASSUME NEW n \in Nat, k < n PROVE k * WordSize <= n * WordSize - 1
    <2>1. k * WordSize + WordSize <= n * WordSize
      BY <1>1, <1>3
    <2> QED
      BY <1>1, <1>2, <2>1
  <1>4. ASSUME NEW a \in Nat, a % StackAlign = 0 PROVE (a + k * WordSize) % WordSize = 0
    <2>1. a = (a \div (2 * WordSize)) * (2 * WordSize) /\ a \div (2 * WordSize) \in Nat
      BY <1>1, <1>4
    <2>2. PICK q \in Nat : a = q * (2 * WordSize)
      BY <2>1
    <2>3. a + k * WordSize = (2 * q + k) * WordSize
      BY <1>1, <2>2
    <2>4. ((2 * q + k) * WordSize) % WordSize = 0
      BY <1>1
    <2> QED
      BY <2>3, <2>4
  <1> QED
    BY <1>2, <1>3, <1>4

\* Where the stacked words are copied to when they fit.
LEMMA SpillFacts ==
    ASSUME NEW fsp \in BoxMin .. BoxTop, NEW n \in Nat, SpillFits(fsp, n, BoxMin)
    PROVE  /\ SpillPointer(fsp, n) \in BoxMin .. BoxTop
           /\ SpillPointer(fsp, n) + n <= fsp
           /\ SpillPointer(fsp, n) % StackAlign = 0
  <1>1. StackAlign \in Nat \ {0} /\ AddrLimit \in Nat /\ BoxMin \in Nat /\ BoxTop \in Nat
        /\ 2 * BoxTop < AddrLimit /\ BoxMin <= BoxTop /\ fsp \in Nat
    BY StackAlignAssumption, AddrLimitAssumption, SandboxAssumption DEF Address
  <1>2. fsp - n \in Nat
    BY <1>1 DEF SpillFits
  <1>3. /\ SpillPointer(fsp, n) \in Nat /\ SpillPointer(fsp, n) <= fsp - n
        /\ SpillPointer(fsp, n) % StackAlign = 0
    <2> DEFINE x == fsp - n
    <2>1. x \in Nat /\ StackAlign \in Nat \ {0}
      BY <1>1, <1>2
    <2>2. x - (x % StackAlign) \in Nat /\ x - (x % StackAlign) <= x
      BY <2>1
    <2>3. (x - (x % StackAlign)) % StackAlign = 0
      BY <2>1
    <2> QED
      BY <2>2, <2>3 DEF SpillPointer, AlignDown
  <1>4. Signed(BoxMin) = BoxMin /\ Signed(SpillPointer(fsp, n)) = SpillPointer(fsp, n)
    BY <1>1, <1>3 DEF Signed
  <1> QED
    BY <1>1, <1>3, <1>4 DEF SpillFits

\* The fields of a call under way.
LEMMA FrameFacts ==
    ASSUME TypeOK, NEW d \in 1 .. Depth
    PROVE  /\ Depth \in Nat
           /\ frames[d] \in Frame
           /\ frames[d].id \in 1 .. MaxCalls /\ frames[d].id \in Nat
           /\ frames[d].sig \in Conventions
           /\ frames[d].sig.areg \in 0 .. 6 /\ frames[d].sig.spill \in Nat
           /\ StackedWords(frames[d].sig) \in Nat
           /\ frames[d].sig.spill <= StackedWords(frames[d].sig)
           /\ frames[d].entry \in 0 .. HostTop /\ frames[d].top \in 0 .. HostTop
           /\ frames[d].fsp \in BoxMin .. BoxTop /\ frames[d].local \in 0 .. BoxTop
           /\ frames[d].ran \in BOOLEAN
  <1>1. frames \in Seq(Frame) /\ Depth \in Nat
    BY DEF TypeOK, Depth
  <1>2. frames[d] \in Frame
    BY <1>1, ElementOfSeq DEF Depth
  <1>3. frames[d].sig \in [areg : 0 .. 6, spill : Nat]
    BY <1>2, ConventionsAssumption DEF Frame
  <1>4. HostTop \in Nat /\ MaxCalls \in Nat
    BY BoundsAssumption
  <1>5. frames[d].sig.areg \in 0 .. 6 /\ frames[d].sig.spill \in Nat
    BY <1>3
  <1>6. StackedContext(frames[d].sig) \in Nat
    BY <1>5 DEF StackedContext
  <1>7. /\ StackedWords(frames[d].sig) \in Nat
        /\ frames[d].sig.spill <= StackedWords(frames[d].sig)
    BY <1>5, <1>6 DEF StackedWords
  <1>8. frames[d].id \in Nat
    BY <1>2, <1>4 DEF Frame
  <1> QED
    BY <1>1, <1>2, <1>5, <1>7, <1>8 DEF Frame

-----------------------------------------------------------------------------
(* Initial states and the steps of invoke *)

LEMMA InitIInv == Init => IInv
  <1> SUFFICES ASSUME Init PROVE IInv
    OBVIOUS
  <1>1. frames = <<>> /\ Depth = 0 /\ pc = "caller" /\ rsp = HostTop
    BY DEF Init, Depth
  <1>2. /\ BoxMin \in Nat /\ BoxTop \in Nat /\ FreePointers \subseteq BoxMin .. BoxTop
        /\ HostTop \in Nat /\ MaxDepth \in Nat /\ MaxCalls \in Nat
    BY SandboxAssumption, BoundsAssumption DEF Address
  <1>3. PICK n \in FreePointers : lfi = [rsp |-> n, rax |-> Junk, rdx |-> Junk]
    BY DEF Init
  <1>4. DOMAIN lfi = {"rsp", "rax", "rdx"} /\ lfi.rsp \in BoxMin .. BoxTop
    BY <1>2, <1>3
  <1>5. /\ DOMAIN reg = Registers /\ DOMAIN host = 0 .. HostTop /\ DOMAIN box = BoxWords
        /\ DOMAIN results = 1 .. MaxCalls /\ regsPtr \in {LfiRegs, Null} /\ calls \in 0 .. MaxCalls
    BY <1>2 DEF Init
  <1>6. frames \in Seq(Frame) /\ Depth \in 0 .. MaxDepth /\ rsp \in 0 .. HostTop
    BY <1>1, <1>2
  <1>7. TypeOK
    BY <1>1, <1>4, <1>5, <1>6 DEF TypeOK
  <1>8. FramesInv
    BY <1>1 DEF FramesInv
  <1>9. TopInv
    BY <1>1 DEF TopInv, CallerResumes, ResultsReported
  <1> QED
    BY <1>7, <1>8, <1>9 DEF IInv

\* The frames stay as they are while a step writes below them on the host stack,
\* and below the foreign stack pointer the innermost call has found.
LEMMA FramesKept ==
    ASSUME TypeOK, FramesInv, Depth > 0, Depth' = Depth,
           \A d \in 1 .. Depth - 1 : frames'[d] = frames[d],
           Top'.id = Top.id, Top'.sig = Top.sig, Top'.entry = Top.entry, Top'.top = Top.top,
           Top'.fsp = Top.fsp,
           \A a \in Top.entry .. HostTop : host'[a] = host[a],
           \A b \in BoxWords : b >= Top.fsp => box'[b] = box[b]
    PROVE  FramesInv'
  <1> DEFINE Same(f, g) == /\ f.id = g.id /\ f.sig = g.sig /\ f.entry = g.entry
                           /\ f.top = g.top /\ f.fsp = g.fsp
  <1>1. /\ Depth \in Nat /\ Depth \in 1 .. Depth /\ Depth' = Depth
        /\ \A d \in 1 .. Depth : Same(frames'[d], frames[d])
        /\ Top = frames[Depth]
    BY DEF TypeOK, Depth, Top
  <1>2. \A d \in 1 .. Depth : /\ frames[d].entry >= Top.entry /\ frames[d].entry \in 0 .. HostTop
                              /\ frames[d].entry + StackedWords(frames[d].sig) <= HostTop
                              /\ StackedWords(frames[d].sig) \in Nat
    <2> TAKE d \in 1 .. Depth
    <2>1. /\ frames[d].entry \in 0 .. HostTop /\ frames[d].top \in 0 .. HostTop
          /\ StackedWords(frames[d].sig) \in Nat /\ HostTop \in Nat
      BY FrameFacts, BoundsAssumption
    <2>2. frames[d].entry + StackedWords(frames[d].sig) < frames[d].top
      BY DEF FramesInv, Placed
    <2>3. Top.entry \in 0 .. HostTop /\ Top.top \in 0 .. HostTop
          /\ StackedWords(Top.sig) \in Nat /\ Top.entry + StackedWords(Top.sig) < Top.top
      BY <1>1, FrameFacts DEF FramesInv, Placed
    <2>4. d < Depth => Top.top <= frames[d].entry - HostReserve
      BY <1>1 DEF FramesInv
    <2> QED
      BY <1>1, <2>1, <2>2, <2>3, <2>4 DEF HostReserve
  <1>3. \A d \in 1 .. Depth : Arguments(frames[d])'
    <2> TAKE d \in 1 .. Depth
    <2>1. Same(frames'[d], frames[d])
      BY <1>1
    <2>2. host'[frames[d].entry] = host[frames[d].entry]
      BY <1>2
    <2>3. \A j \in 1 .. StackedWords(frames[d].sig) :
              host'[frames[d].entry + j] = host[frames[d].entry + j]
      <3> TAKE j \in 1 .. StackedWords(frames[d].sig)
      <3>1. Top.entry \in 0 .. HostTop /\ HostTop \in Nat
        BY <1>1, FrameFacts, BoundsAssumption
      <3>2. frames[d].entry + j \in Top.entry .. HostTop
        BY <1>2, <3>1
      <3> QED
        BY <3>2
    <2> QED
      BY <2>1, <2>2, <2>3 DEF FramesInv, Arguments
  <1>4. \A d \in 1 .. Depth - 1 : InCallback(frames[d])'
    <2> TAKE d \in 1 .. Depth - 1
    <2>1. frames'[d] = frames[d] /\ InCallback(frames[d]) /\ d \in 1 .. Depth /\ d < Depth
      BY <1>1 DEF FramesInv
    <2>2. Top.top <= frames[d].entry - HostReserve /\ Top.fsp <= frames[d].local
      BY <1>1, <2>1 DEF FramesInv
    <2>3. /\ Top.entry \in 0 .. HostTop /\ Top.top \in 0 .. HostTop /\ frames[d].entry \in 0 .. HostTop
          /\ StackedWords(Top.sig) \in Nat /\ Top.entry + StackedWords(Top.sig) < Top.top
          /\ HostTop \in Nat
      BY <1>1, <2>1, FrameFacts, BoundsAssumption DEF FramesInv, Placed
    <2>4. \A i \in 1 .. 3 : host'[frames[d].entry - i] = host[frames[d].entry - i]
      <3> TAKE i \in 1 .. 3
      <3>1. frames[d].entry - i \in Top.entry .. HostTop
        BY <2>2, <2>3 DEF HostReserve
      <3> QED
        BY <3>1
    <2>5. box'[frames[d].local] = box[frames[d].local]
      BY <2>1, <2>2 DEF InCallback
    <2> QED
      BY <2>1, <2>4, <2>5 DEF InCallback, Saved
  <1>5. \A d \in 1 .. Depth : Placed(d)'
    <2> TAKE d \in 1 .. Depth
    <2>1. Same(frames'[d], frames[d]) /\ Placed(d)
      BY <1>1 DEF FramesInv
    <2>2. d > 1 => d - 1 \in 1 .. Depth - 1 /\ frames'[d - 1] = frames[d - 1]
      BY <1>1
    <2> QED
      BY <2>1, <2>2 DEF Placed
  <1>6. \A d, e \in 1 .. Depth : d < e =>
          /\ frames'[e].top <= frames'[d].entry - HostReserve
          /\ frames'[e].fsp <= frames'[d].local
    <2> TAKE d, e \in 1 .. Depth
    <2> HAVE d < e
    <2>1. d \in 1 .. Depth - 1
      BY <1>1
    <2>2. frames'[d] = frames[d] /\ Same(frames'[e], frames[e])
      BY <1>1, <2>1
    <2> QED
      BY <2>2 DEF FramesInv
  <1> QED
    BY <1>1, <1>3, <1>4, <1>5, <1>6 DEF FramesInv

\* What every step of invoke relies on: the innermost call, and its frame.
LEMMA TopFacts ==
    ASSUME TypeOK, FramesInv, Depth > 0
    PROVE  /\ Depth \in 1 .. MaxDepth /\ Depth \in 1 .. Depth /\ Top = frames[Depth] /\ Top \in Frame
           /\ Top.id \in 1 .. MaxCalls /\ Top.id \in Nat
           /\ Top.sig \in Conventions /\ Top.sig.areg \in 0 .. 6 /\ Top.sig.spill \in Nat
           /\ Top.sig.areg \in {4, 5} => Top.sig.spill = 0
           /\ Top.entry \in HostReserve .. HostTop /\ Top.entry % 2 = 1
           /\ Top.top \in 0 .. HostTop /\ HostTop \in Nat
           /\ StackedWords(Top.sig) \in Nat /\ Top.entry + StackedWords(Top.sig) < Top.top
           /\ Top.fsp \in BoxMin .. BoxTop /\ BoxMin \in Nat \ {0} /\ BoxTop \in Nat
           /\ Top.local \in 0 .. BoxTop /\ Top.ran \in BOOLEAN
           /\ Arguments(Top)
           /\ HostReserve = 7
  <1>1. Depth \in 1 .. Depth /\ Depth \in 1 .. MaxDepth /\ Top = frames[Depth]
    BY BoundsAssumption DEF TypeOK, Top
  <1>2. Placed(Depth) /\ Arguments(Top)
    BY <1>1 DEF FramesInv
  <1>3. HostTop \in Nat /\ BoxMin \in Nat \ {0} /\ BoxTop \in Nat
    BY BoundsAssumption, SandboxAssumption DEF Address
  <1>4. Top.sig.areg \in {4, 5} => Top.sig.spill = 0
    BY <1>1, FrameFacts, ConventionsAssumption
  <1> QED
    BY <1>1, <1>2, <1>3, <1>4, FrameFacts DEF Placed, HostReserve

\* $resptrloc and $rtptrloc lead to the result and the runtime of the call.
LEMMA Operands ==
    ASSUME TypeOK, FramesInv, TopInv, pc = "entry"
    PROVE  ResOperand(Top.sig) = Word("res", Top.id, 0) /\ RtOperand(Top.sig) = RtPtr
  <1> DEFINE s == Top.sig
             c == Top.id
  <1>1. Depth > 0 /\ rsp = Top.entry /\ \A k \in 1 .. 6 : reg[ArgRegs[k]] = Passed(s, c, k)
    BY DEF TopInv
  <1>2. s.areg \in 0 .. 6 /\ s.spill \in Nat /\ (s.areg \in {4, 5} => s.spill = 0) /\ rsp \in Nat
    BY <1>1, TopFacts
  <1>3. \A j \in 1 .. StackedWords(s) : host[rsp + j] = StackedWord(s, c, j)
    BY <1>1, TopFacts DEF Arguments
  <1>4. CASE s.areg <= 3
    <2>1. s.areg + 3 \in 1 .. 6 /\ s.areg + 1 \in 1 .. 6
      BY <1>2, <1>4
    <2>2. Passed(s, c, s.areg + 3) = Context(c)[3] /\ Passed(s, c, s.areg + 1) = Context(c)[1]
      BY <1>2, <1>4 DEF Passed
    <2> QED
      BY <1>1, <1>2, <1>4, <2>1, <2>2 DEF ResOperand, RtOperand, Context
  <1>5. CASE s.areg \in {4, 5}
    <2>1. StackedWords(s) = s.areg - 3 /\ StackedContext(s) = s.areg - 3
      BY <1>2, <1>5 DEF StackedWords, StackedContext
    <2>2. host[rsp + (s.areg - 3)] = Context(c)[3]
      <3>1. s.areg - 3 \in 1 .. StackedWords(s)
        BY <1>2, <1>5, <2>1
      <3>2. StackedWord(s, c, s.areg - 3) = Context(c)[3]
        BY <1>2, <1>5, <2>1 DEF StackedWord
      <3> QED
        BY <1>3, <3>1, <3>2
    <2>3. Passed(s, c, s.areg + 1) = Context(c)[1] /\ s.areg + 1 \in 1 .. 6
      BY <1>2, <1>5 DEF Passed
    <2>4. ResOperand(s) = host[rsp + (s.areg - 3)]
      BY <1>2, <1>5 DEF ResOperand
    <2>5. RtOperand(s) = reg[ArgRegs[s.areg + 1]]
      BY <1>2, <1>5 DEF RtOperand
    <2> QED
      BY <1>1, <2>2, <2>3, <2>4, <2>5 DEF Context
  <1>6. CASE s.areg = 6
    <2>1. StackedWords(s) = s.spill + 3 /\ StackedContext(s) = 3
      BY <1>2, <1>6 DEF StackedWords, StackedContext
    <2>2. \A i \in 1 .. 3 : host[rsp + (s.spill + i)] = Context(c)[i]
      <3> TAKE i \in 1 .. 3
      <3>1. s.spill + i \in 1 .. StackedWords(s)
        BY <1>2, <2>1
      <3>2. StackedWord(s, c, s.spill + i) = Context(c)[i]
        BY <1>2, <2>1 DEF StackedWord
      <3> QED
        BY <1>3, <3>1, <3>2
    <2>3. ResOperand(s) = host[rsp + (s.spill + 3)]
      BY <1>2, <1>6 DEF ResOperand
    <2>4. RtOperand(s) = host[rsp + (s.spill + 1)]
      BY <1>2, <1>6 DEF RtOperand
    <2> QED
      BY <2>2, <2>3, <2>4 DEF Context
  <1> QED
    BY <1>2, <1>4, <1>5, <1>6

LEMMA SaveContextStep == IInv /\ SaveContext => IInv'
  <1> SUFFICES ASSUME IInv, SaveContext PROVE IInv'
    OBVIOUS
  <1>1. TypeOK /\ FramesInv /\ TopInv /\ pc = "entry" /\ pc' = "saved" /\ Depth > 0
    BY DEF IInv, TopInv, SaveContext
  <1>2. /\ rsp = Top.entry /\ rsp' = Top.entry - 3 /\ Top' = Top /\ Depth' = Depth
        /\ UNCHANGED <<frames, calls, lfi, box, regsPtr, results>>
        /\ regsPtr = LfiRegs /\ lfi.rsp = Top.fsp /\ ~Top.ran /\ Top.local = 0
    BY <1>1 DEF TopInv, SaveContext, Top, Depth
  <1>3. host' = [host EXCEPT ![Top.entry - 1] = Word("res", Top.id, 0), ![Top.entry - 2] = LfiRegs,
                            ![Top.entry - 3] = Word("fsp", Top.fsp, 0)]
    BY <1>1, <1>2, Operands DEF SaveContext, RegsPtrOf
  <1>4. Top.entry \in 7 .. HostTop /\ HostTop \in Nat /\ DOMAIN host = 0 .. HostTop
    BY <1>1, TopFacts DEF TypeOK
  <1>5. DOMAIN host' = 0 .. HostTop /\ Saved(Top)'
    BY <1>2, <1>3, <1>4 DEF Saved
  <1>6. \A a \in Top.entry .. HostTop : host'[a] = host[a]
    BY <1>3, <1>4
  <1>7. FramesInv'
    BY <1>1, <1>2, <1>6, FramesKept
  <1>8. reg' = [reg EXCEPT !["r10"] = RtPtr, !["r11"] = Word("fsp", lfi.rsp, 0)]
    BY <1>1, Operands DEF SaveContext
  <1>9. DOMAIN reg' = Registers /\ \A k \in 1 .. 6 : reg'[ArgRegs[k]] = reg[ArgRegs[k]]
    BY <1>1, <1>8 DEF TypeOK, Registers, ArgRegs
  <1>10. InRegisters(Top)'
    <2>1. Top.sig.areg \in 0 .. 6
      BY <1>1, TopFacts
    <2>2. \A k \in 1 .. Top.sig.areg : k \in 1 .. 6 /\ Passed(Top.sig, Top.id, k) = Word("arg", Top.id, k)
      BY <2>1 DEF Passed
    <2> QED
      BY <1>1, <1>2, <1>9, <2>2 DEF InRegisters, TopInv
  <1>11. TypeOK'
    BY <1>1, <1>2, <1>4, <1>5, <1>9 DEF TypeOK
  <1>12. TopInv'
    BY <1>1, <1>2, <1>5, <1>10 DEF TopInv, CallerResumes, ResultsReported
  <1> QED
    BY <1>7, <1>11, <1>12 DEF IInv

LEMMA StackOverflowStep == IInv /\ StackOverflow => IInv'
  <1> SUFFICES ASSUME IInv, StackOverflow PROVE IInv'
    OBVIOUS
  <1>1. TypeOK /\ FramesInv /\ TopInv /\ pc = "saved" /\ pc' = "returned" /\ Depth > 0
    BY DEF IInv, TopInv, StackOverflow
  <1>2. /\ rsp = Top.entry - 3 /\ rsp' = Top.entry + 1 /\ Top' = Top /\ Depth' = Depth
        /\ UNCHANGED <<frames, calls, host, lfi, box, regsPtr>>
        /\ lfi.rsp = Top.fsp /\ ~Top.ran /\ Saved(Top)
    <2>1. Top.entry \in Nat
      BY <1>1, TopFacts
    <2> QED
      BY <1>1, <2>1 DEF TopInv, StackOverflow, Top, Depth
  <1>3. Top.entry \in 7 .. HostTop /\ HostTop \in Nat /\ Top.id \in 1 .. MaxCalls
        /\ Top.entry + StackedWords(Top.sig) < Top.top /\ Top.top \in 0 .. HostTop
        /\ StackedWords(Top.sig) \in Nat /\ Top.sig.spill <= StackedWords(Top.sig)
        /\ Top.sig.spill \in Nat /\ Arguments(Top)
    BY <1>1, TopFacts, FrameFacts
  <1>4. host[rsp + 2] = Word("res", Top.id, 0)
    BY <1>2, <1>3 DEF Saved
  <1>5. results' = [results EXCEPT ![Top.id] = [error |-> "StackOverflow", rax |-> Junk, rdx |-> Junk]]
    BY <1>4 DEF StackOverflow, Report, Word
  <1>6. DOMAIN results' = 1 .. MaxCalls /\ results'[Top.id].error = "StackOverflow"
    BY <1>1, <1>3, <1>5 DEF TypeOK
  <1>7. DOMAIN reg' = Registers
    BY <1>1 DEF TypeOK, StackOverflow
  <1>8. TypeOK'
    <2>1. rsp' \in 0 .. HostTop
      BY <1>2, <1>3
    <2> QED
      BY <1>1, <1>2, <1>6, <1>7, <2>1 DEF TypeOK
  <1>9. FramesInv'
    BY <1>1, <1>2, FramesKept
  <1>10. CallerResumes'
    <2>1. host[Top.entry] = Word("retaddr", Top.id, 0) /\ rsp' - 1 = Top.entry
      BY <1>2, <1>3 DEF Arguments
    <2>2. \A j \in 1 .. Top.sig.spill : host[Top.entry + j] = Word("stacked", Top.id, j)
      BY <1>3 DEF Arguments, StackedWord
    <2> QED
      BY <1>2, <2>1, <2>2 DEF CallerResumes
  <1>11. ResultsReported'
    BY <1>2, <1>6 DEF ResultsReported, Outcome
  <1>12. TopInv'
    BY <1>1, <1>2, <1>10, <1>11 DEF TopInv
  <1> QED
    BY <1>8, <1>9, <1>12 DEF IInv

LEMMA CopySpillStep == IInv /\ CopySpill => IInv'
  <1> SUFFICES ASSUME IInv, CopySpill PROVE IInv'
    OBVIOUS
  <1>0. PICK to : to = SpillPointer(Top.fsp, SpillBytes)
    OBVIOUS
  <1>1. TypeOK /\ FramesInv /\ TopInv /\ pc = "saved" /\ pc' = "copied" /\ Depth > 0
    BY DEF IInv, TopInv, CopySpill, CopyFrom
  <1>2. /\ rsp = Top.entry - 3 /\ Top' = Top /\ Depth' = Depth
        /\ UNCHANGED <<frames, calls, lfi, regsPtr, results>>
        /\ lfi.rsp = Top.fsp /\ ~Top.ran /\ Top.local = 0 /\ Saved(Top) /\ InRegisters(Top)
    BY <1>1 DEF TopInv, CopySpill, CopyFrom, Top, Depth
  <1>3. Top.entry \in 7 .. HostTop /\ HostTop \in Nat /\ Top.fsp \in BoxMin .. BoxTop
        /\ Top.entry + StackedWords(Top.sig) < Top.top /\ Top.top \in 0 .. HostTop
        /\ StackedWords(Top.sig) \in Nat /\ Top.sig.spill <= StackedWords(Top.sig)
        /\ Top.sig.spill \in Nat /\ Arguments(Top) /\ DOMAIN host = 0 .. HostTop
        /\ Top.sig.areg \in 0 .. 6 /\ BoxMin \in Nat /\ BoxTop \in Nat
    BY <1>1, TopFacts, FrameFacts DEF TypeOK
  <1>4. rsp' = Top.entry - 6
    BY <1>2, <1>3 DEF CopySpill, CopyFrom
  <1>5. /\ to \in BoxMin .. BoxTop /\ to + SpillBytes <= Top.fsp /\ to % StackAlign = 0
        /\ SpillBytes \in Nat /\ SpillBytes = Top.sig.spill * WordSize
    <2>1. SpillBytes \in Nat /\ SpillBytes = Top.sig.spill * WordSize
      BY <1>3, WordSizeAssumption DEF SpillBytes
    <2>2. SpillFits(Top.fsp, SpillBytes, BoxMin)
      BY <1>2 DEF CopySpill, CopyFrom, Fits
    <2> QED
      BY <1>0, <1>3, <2>1, <2>2, SpillFacts
  <1>51. /\ to \in Nat /\ SpillBytes \in Nat /\ to + SpillBytes <= Top.fsp
         /\ Top.fsp \in Nat /\ Top.fsp <= BoxTop /\ BoxTop \in Nat
    <2>1. PICK n : n = SpillBytes
      OBVIOUS
    <2>2. /\ to \in BoxMin .. BoxTop /\ n \in Nat /\ to + n <= Top.fsp
          /\ Top.fsp \in BoxMin .. BoxTop /\ BoxMin \in Nat /\ BoxTop \in Nat
      BY <1>3, <1>5, <2>1
    <2> QED
      BY <2>1, <2>2
  <1>6. host' = [host EXCEPT ![Top.entry - 4] = reg["rsi"], ![Top.entry - 5] = reg["rdi"],
                            ![Top.entry - 6] = reg["rcx"]]
    <2>1. host' = [host EXCEPT ![rsp - 1] = reg["rsi"], ![rsp - 2] = reg["rdi"], ![rsp - 3] = reg["rcx"]]
      BY DEF CopySpill, CopyFrom
    <2>2. rsp - 1 = Top.entry - 4 /\ rsp - 2 = Top.entry - 5 /\ rsp - 3 = Top.entry - 6
      BY <1>2, <1>3
    <2> QED
      BY <2>1, <2>2
  <1>7. /\ DOMAIN host' = 0 .. HostTop
        /\ host'[Top.entry - 4] = reg["rsi"] /\ host'[Top.entry - 5] = reg["rdi"]
        /\ host'[Top.entry - 6] = reg["rcx"]
        /\ \A a \in Top.entry - 3 .. HostTop : host'[a] = host[a]
    <2>1. Top.entry - 3 \in 3 .. HostTop /\ HostTop \in Nat /\ DOMAIN host = 0 .. HostTop
      BY <1>3
    <2>2. PICK e \in Nat : e = Top.entry
      BY <1>3
    <2>3. /\ e - 4 \in 0 .. HostTop /\ e - 5 \in 0 .. HostTop /\ e - 6 \in 0 .. HostTop
          /\ e - 4 # e - 5 /\ e - 4 # e - 6 /\ e - 5 # e - 6
      <3>1. \A h, x \in Nat : x - 3 \in 3 .. h =>
               /\ x - 4 \in 0 .. h /\ x - 5 \in 0 .. h /\ x - 6 \in 0 .. h
               /\ x - 4 # x - 5 /\ x - 4 # x - 6 /\ x - 5 # x - 6
        OBVIOUS
      <3>2. e - 3 \in 3 .. HostTop /\ HostTop \in Nat
        BY <2>1, <2>2
      <3> QED
        BY <3>1, <3>2
    <2>4. DOMAIN host' = 0 .. HostTop
      BY <1>6, <2>1
    <2>5. host'[e - 4] = reg["rsi"] /\ host'[e - 5] = reg["rdi"] /\ host'[e - 6] = reg["rcx"]
      BY <1>6, <2>1, <2>2, <2>3
    <2>6. ASSUME NEW a \in e - 3 .. HostTop PROVE host'[a] = host[a]
      <3>1. a # e - 4 /\ a # e - 5 /\ a # e - 6 /\ a \in 0 .. HostTop
        BY <2>1, <2>2
      <3> QED
        BY <1>6, <2>1, <2>2, <3>1
    <2> QED
      BY <2>2, <2>4, <2>5, <2>6
  <1>8. box' = [b \in BoxWords |->
                  IF b \in to .. to + SpillBytes - 1
                  THEN host[Top.entry + 1 + (b - to) \div WordSize] ELSE box[b]]
    <2>1. (rsp - 3) + 7 = Top.entry + 1
      BY <1>2, <1>3
    <2>2. CopyFrom(Top.entry + 1)
      BY <2>1 DEF CopySpill
    <2> QED
      BY <1>0, <1>2, <2>2 DEF CopyFrom
  <1>9. DOMAIN box' = BoxWords /\ \A b \in BoxWords : b >= Top.fsp => box'[b] = box[b]
    <2>1. ASSUME NEW b \in BoxWords, b >= Top.fsp PROVE box'[b] = box[b]
      <3>1. b \notin to .. to + SpillBytes - 1
        BY <1>51, <2>1 DEF BoxWords
      <3> QED
        BY <1>8, <3>1
    <2> QED
      BY <1>8, <2>1
  <1>10. FramesInv'
    BY <1>1, <1>2, <1>3, <1>7, <1>9, FramesKept
  <1>11. \A j \in 1 .. Top.sig.spill : box'[to + (j - 1) * WordSize] = Word("stacked", Top.id, j)
    <2> TAKE j \in 1 .. Top.sig.spill
    <2> DEFINE k == j - 1
               b == to + k * WordSize
    <2>1. k \in Nat /\ k < Top.sig.spill
      BY <1>3
    <2>2. /\ k * WordSize \in Nat /\ (k * WordSize) \div WordSize = k
          /\ k * WordSize <= Top.sig.spill * WordSize - 1
          /\ b % WordSize = 0
      <3>1. to \in Nat /\ to % StackAlign = 0
        BY <1>3, <1>5
      <3> QED
        BY <1>3, <2>1, <3>1, WordArithmetic
    <2>3. /\ b \in to .. to + SpillBytes - 1 /\ b \in BoxWords /\ b - to = k * WordSize
          /\ (b - to) \div WordSize = k
      <3>1. PICK w : w = k * WordSize
        OBVIOUS
      <3>2. w \in Nat /\ w <= SpillBytes - 1 /\ b = to + w /\ w \div WordSize = k
        BY <1>5, <2>2, <3>1
      <3>3. to + SpillBytes <= BoxTop /\ to \in Nat /\ BoxTop \in Nat /\ SpillBytes \in Nat
        BY <1>51
      <3>4. to + w \in to .. to + SpillBytes - 1 /\ to + w \in 0 .. BoxTop - 1 /\ (to + w) - to = w
        BY <3>2, <3>3
      <3>5. (to + w) % WordSize = 0
        BY <2>2, <3>2
      <3> QED
        BY <3>1, <3>2, <3>4, <3>5 DEF BoxWords
    <2> HIDE DEF b
    <2>4. box'[b] = host[Top.entry + 1 + k]
      BY <1>8, <2>3
    <2>5. Top.entry + 1 + k = Top.entry + j /\ j \in 1 .. StackedWords(Top.sig)
      BY <1>3
    <2>6. host[Top.entry + j] = Word("stacked", Top.id, j)
      BY <1>3, <2>5 DEF Arguments, StackedWord
    <2> QED
      BY <2>4, <2>5, <2>6 DEF b
  <1>12. CopiedTo(Top, to)'
    <2>1. to \in BoxMin .. Top.fsp /\ to % StackAlign = 0
      BY <1>3, <1>5
    <2> QED
      BY <1>2, <1>11, <2>1 DEF CopiedTo
  <1>13. reg' = [reg EXCEPT !["rsi"] = Junk, !["rdi"] = Junk, !["rcx"] = Junk, !["r11"] = Word("fsp", to, 0)]
    BY <1>0, <1>2 DEF CopySpill, CopyFrom
  <1>14. /\ DOMAIN reg' = Registers /\ reg'["r11"] = Word("fsp", to, 0)
         /\ reg'["rdx"] = reg["rdx"] /\ reg'["r8"] = reg["r8"] /\ reg'["r9"] = reg["r9"]
    BY <1>1, <1>13 DEF TypeOK, Registers
  <1>15. Stashed(Top)'
    <2> SUFFICES ASSUME NEW k \in 1 .. Top.sig.areg
                 PROVE  Word("arg", Top.id, k) = CASE k = 4 -> host'[Top.entry - 6]
                                                   [] k = 1 -> host'[Top.entry - 5]
                                                   [] k = 2 -> host'[Top.entry - 4]
                                                   [] OTHER -> reg'[ArgRegs[k]]
      BY <1>2 DEF Stashed
    <2>1. k \in 1 .. 6 /\ reg[ArgRegs[k]] = Word("arg", Top.id, k)
      <3>1. Top.sig.areg \in 0 .. 6
        BY <1>3
      <3> QED
        BY <1>2, <3>1 DEF InRegisters
    <2>2. k \in {3, 5, 6} => reg'[ArgRegs[k]] = reg[ArgRegs[k]]
      BY <1>14 DEF ArgRegs
    <2> QED
      BY <1>7, <2>1, <2>2 DEF ArgRegs
  <1>16. Saved(Top)'
    <2>1. Top.entry \in 7 .. HostTop /\ HostTop \in Nat
      BY <1>3
    <2>2. \A i \in 1 .. 3 : Top.entry - i \in Top.entry - 3 .. HostTop
      BY <2>1
    <2>3. \A i \in 1 .. 3 : host'[Top.entry - i] = host[Top.entry - i]
      BY <1>7, <2>2
    <2> QED
      BY <1>2, <2>3 DEF Saved
  <1>17. TypeOK'
    <2>1. rsp' \in 0 .. HostTop
      BY <1>3, <1>4
    <2> QED
      BY <1>1, <1>2, <1>7, <1>9, <1>14, <2>1 DEF TypeOK
  <1>18. TopInv'
    <2>1. \E a \in BoxMin .. BoxTop : reg'["r11"] = Word("fsp", a, 0) /\ CopiedTo(Top, a)'
      BY <1>5, <1>12, <1>14
    <2> QED
      BY <1>1, <1>2, <1>4, <1>15, <1>16, <2>1 DEF TopInv, CallerResumes, ResultsReported
  <1> QED
    BY <1>10, <1>17, <1>18 DEF IInv

LEMMA CallTrampolineStep == IInv /\ CallTrampoline => IInv'
  <1> SUFFICES ASSUME IInv, CallTrampoline PROVE IInv'
    OBVIOUS
  <1>1. TypeOK /\ FramesInv /\ TopInv /\ pc = "copied" /\ pc' = "foreign" /\ Depth > 0
    BY DEF IInv, TopInv, CallTrampoline
  <1>2. /\ rsp = Top.entry - 6 /\ lfi.rsp = Top.fsp /\ Top.local = 0 /\ Saved(Top) /\ Stashed(Top)
        /\ UNCHANGED <<calls, box, regsPtr, results>>
        /\ frames' = [frames EXCEPT ![Depth].ran = TRUE]
    BY <1>1 DEF TopInv, CallTrampoline
  <1>3. PICK a \in BoxMin .. BoxTop : reg["r11"] = Word("fsp", a, 0) /\ CopiedTo(Top, a)
    BY <1>1 DEF TopInv
  <1>4. /\ Top.entry \in 7 .. HostTop /\ HostTop \in Nat /\ DOMAIN host = 0 .. HostTop
        /\ Depth \in 1 .. Len(frames) /\ Top = frames[Depth] /\ Top \in Frame /\ frames \in Seq(Frame)
        /\ Top.sig.areg \in 0 .. 6
    BY <1>1, TopFacts DEF TypeOK, Depth
  <1>5. /\ Depth' = Depth /\ frames' \in Seq(Frame) /\ Top' = [Top EXCEPT !.ran = TRUE]
        /\ \A d \in 1 .. Depth - 1 : frames'[d] = frames[d]
    <2>1. [frames[Depth] EXCEPT !.ran = TRUE] \in Frame
      BY <1>4 DEF Frame
    <2>2. PICK g \in Frame : g = [frames[Depth] EXCEPT !.ran = TRUE]
      BY <2>1
    <2>3. frames' = [frames EXCEPT ![Depth] = g]
      BY <1>2, <2>2
    <2>4. /\ Len(frames') = Len(frames) /\ frames' \in Seq(Frame) /\ frames'[Depth] = g
          /\ \A d \in 1 .. Depth - 1 : frames'[d] = frames[d]
      BY <1>4, <2>3 DEF Depth
    <2> QED
      BY <1>4, <2>2, <2>4 DEF Depth, Top
  <1>6. /\ Top'.id = Top.id /\ Top'.sig = Top.sig /\ Top'.entry = Top.entry /\ Top'.top = Top.top
        /\ Top'.fsp = Top.fsp /\ Top'.local = 0 /\ Top'.ran
    BY <1>2, <1>4, <1>5 DEF Frame
  <1>7. /\ host[rsp + 4] = LfiRegs /\ rsp' = Top.entry - 4
        /\ host' = [host EXCEPT ![Top.entry - 4] = Word("retaddr", 0, 0)]
    <2>1. rsp + 4 = Top.entry - 2 /\ rsp + 2 = Top.entry - 4
      BY <1>2, <1>4
    <2>2. rsp' = rsp + 2 /\ host' = [host EXCEPT ![rsp + 2] = Word("retaddr", 0, 0)]
      BY DEF CallTrampoline
    <2> QED
      BY <1>2, <2>1, <2>2 DEF Saved
  <1>8. DOMAIN host' = 0 .. HostTop /\ \A b \in Top.entry - 3 .. HostTop : host'[b] = host[b]
    BY <1>4, <1>7
  <1>9. FramesInv'
    BY <1>1, <1>2, <1>4, <1>5, <1>6, <1>8, FramesKept
  <1>10. lfi' = [lfi EXCEPT !.rsp = a]
    BY <1>3, <1>7 DEF CallTrampoline, SetRsp, Word
  <1>11. DOMAIN lfi' = DOMAIN lfi /\ lfi'.rsp = a
    BY <1>1, <1>10 DEF TypeOK
  <1>12. reg' = [reg EXCEPT !["rcx"] = host[Top.entry - 6], !["rdi"] = host[Top.entry - 5],
                           !["rsi"] = host[Top.entry - 4], !["r10"] = host[rsp + 4]]
    <2>1. reg' = [reg EXCEPT !["rcx"] = host[rsp], !["rdi"] = host[rsp + 1], !["rsi"] = host[rsp + 2],
                             !["r10"] = host[rsp + 4]]
      BY DEF CallTrampoline
    <2>2. rsp + 1 = Top.entry - 5 /\ rsp + 2 = Top.entry - 4
      BY <1>2, <1>4
    <2> QED
      BY <1>2, <2>1, <2>2
  <1>13. /\ DOMAIN reg' = Registers
         /\ reg'["rcx"] = host[Top.entry - 6] /\ reg'["rdi"] = host[Top.entry - 5]
         /\ reg'["rsi"] = host[Top.entry - 4]
         /\ reg'["rdx"] = reg["rdx"] /\ reg'["r8"] = reg["r8"] /\ reg'["r9"] = reg["r9"]
    BY <1>1, <1>12 DEF TypeOK, Registers
  <1>14. InRegisters(Top)'
    <2> SUFFICES ASSUME NEW k \in 1 .. Top.sig.areg
                 PROVE  reg'[ArgRegs[k]] = Word("arg", Top.id, k)
      BY <1>6 DEF InRegisters
    <2>1. k \in 1 .. 6
      BY <1>4
    <2>2. Word("arg", Top.id, k) = CASE k = 4 -> host[Top.entry - 6]
                                     [] k = 1 -> host[Top.entry - 5]
                                     [] k = 2 -> host[Top.entry - 4]
                                     [] OTHER -> reg[ArgRegs[k]]
      BY <1>2 DEF Stashed
    <2> QED
      BY <1>13, <2>1, <2>2 DEF ArgRegs
  <1>15. CopiedTo(Top, lfi.rsp)' /\ a <= Top.fsp
    BY <1>2, <1>3, <1>6, <1>11 DEF CopiedTo
  <1>16. Saved(Top)'
    <2>1. \A i \in 1 .. 3 : Top.entry - i \in Top.entry - 3 .. HostTop
      BY <1>4
    <2>2. \A i \in 1 .. 3 : host'[Top.entry - i] = host[Top.entry - i]
      BY <1>8, <2>1
    <2> QED
      BY <1>2, <1>6, <2>2 DEF Saved
  <1>17. TypeOK'
    <2>1. rsp' \in 0 .. HostTop
      BY <1>4, <1>7
    <2> QED
      BY <1>1, <1>2, <1>3, <1>5, <1>8, <1>11, <1>13, <2>1 DEF TypeOK
  <1>18. TopInv'
    BY <1>1, <1>5, <1>6, <1>7, <1>11, <1>14, <1>15, <1>16 DEF TopInv, CallerResumes, ResultsReported
  <1> QED
    BY <1>9, <1>17, <1>18 DEF IInv

LEMMA ForeignCallbackStep ==
    ASSUME IInv, NEW n \in BoxWords, ForeignCallback(n)
    PROVE  IInv'
  <1>1. TypeOK /\ FramesInv /\ TopInv /\ pc = "foreign" /\ pc' = "callback" /\ Depth > 0
    BY DEF IInv, TopInv, ForeignCallback
  <1>2. /\ rsp = Top.entry - 4 /\ lfi.rsp <= Top.fsp /\ Saved(Top) /\ Top.ran
        /\ UNCHANGED <<calls, host, regsPtr, results>>
        /\ frames' = [frames EXCEPT ![Depth].local = n]
        /\ BoxMin <= n /\ n < lfi.rsp
    BY <1>1 DEF TopInv, ForeignCallback
  <1>3. /\ Top.entry \in 7 .. HostTop /\ HostTop \in Nat /\ BoxTop \in Nat /\ n \in 0 .. BoxTop
        /\ Depth \in 1 .. Len(frames) /\ Top = frames[Depth] /\ Top \in Frame /\ frames \in Seq(Frame)
        /\ BoxMin \in Nat /\ lfi.rsp \in BoxMin .. BoxTop /\ Top.fsp \in BoxMin .. BoxTop
    BY <1>1, TopFacts DEF TypeOK, Depth, BoxWords
  <1>4. /\ Depth' = Depth /\ frames' \in Seq(Frame) /\ Top' = [Top EXCEPT !.local = n]
        /\ \A d \in 1 .. Depth - 1 : frames'[d] = frames[d]
    <2>1. [frames[Depth] EXCEPT !.local = n] \in Frame
      BY <1>3 DEF Frame
    <2>2. frames' = [frames EXCEPT ![Depth] = [frames[Depth] EXCEPT !.local = n]]
      BY <1>2
    <2> QED
      BY <1>3, <2>1, <2>2 DEF Depth, Top
  <1>5. /\ Top'.id = Top.id /\ Top'.sig = Top.sig /\ Top'.entry = Top.entry /\ Top'.top = Top.top
        /\ Top'.fsp = Top.fsp /\ Top'.local = n /\ Top'.ran
    BY <1>2, <1>3, <1>4 DEF Frame
  <1>6. box' = [box EXCEPT ![n] = Word("local", Top.id, 0)] /\ DOMAIN box = BoxWords
    BY <1>1 DEF ForeignCallback, TypeOK
  <1>7. /\ DOMAIN box' = BoxWords /\ box'[n] = Word("local", Top.id, 0)
        /\ \A b \in BoxWords : b >= Top.fsp => box'[b] = box[b]
    BY <1>2, <1>3, <1>6
  <1>8. FramesInv'
    BY <1>1, <1>2, <1>4, <1>5, <1>7, FramesKept
  <1>9. lfi' = [lfi EXCEPT !.rsp = n] /\ DOMAIN lfi' = DOMAIN lfi /\ lfi'.rsp = n
    BY <1>1 DEF ForeignCallback, TypeOK
  <1>10. rsp' = Top.entry - HostReserve /\ rsp' \in 0 .. HostTop
    <2>1. rsp' = rsp - 3
      BY DEF ForeignCallback, HandlerFrame
    <2> QED
      BY <1>2, <1>3, <2>1 DEF HostReserve
  <1>11. InCallback(Top)'
    BY <1>2, <1>3, <1>5, <1>7 DEF InCallback, Saved
  <1>12. TypeOK'
    <2>1. DOMAIN reg' = Registers
      BY DEF ForeignCallback
    <2>2. n \in BoxMin .. BoxTop
      BY <1>2, <1>3
    <2> QED
      BY <1>1, <1>2, <1>4, <1>7, <1>9, <1>10, <2>1, <2>2 DEF TypeOK
  <1>13. TopInv'
    BY <1>1, <1>4, <1>5, <1>9, <1>10, <1>11 DEF TopInv, CallerResumes, ResultsReported
  <1> QED
    BY <1>8, <1>12, <1>13 DEF IInv

LEMMA CallbackReturnStep == IInv /\ CallbackReturn => IInv'
  <1> SUFFICES ASSUME IInv, CallbackReturn PROVE IInv'
    OBVIOUS
  <1>1. TypeOK /\ FramesInv /\ TopInv /\ pc = "callback" /\ pc' = "foreign" /\ Depth > 0
    BY DEF IInv, TopInv, CallbackReturn
  <1>2. /\ rsp = Top.entry - HostReserve /\ InCallback(Top) /\ lfi.rsp = Top.local
        /\ UNCHANGED <<frames, calls, host, box, regsPtr, results>> /\ Top' = Top /\ Depth' = Depth
    BY <1>1 DEF TopInv, CallbackReturn, Top, Depth
  <1>3. /\ Top.entry \in 7 .. HostTop /\ HostTop \in Nat /\ BoxMin \in Nat \ {0} /\ Top.local # 0
    BY <1>1, <1>2, TopFacts DEF InCallback
  <1>4. FramesInv'
    BY <1>1, <1>2, FramesKept
  <1>5. /\ DOMAIN lfi' = DOMAIN lfi /\ lfi'.rsp = lfi.rsp
        /\ lfi'.rax = Word("cbret", Top.id, 0) /\ lfi'.rdx = Word("cbret", Top.id, 1)
    BY <1>1 DEF CallbackReturn, TypeOK
  <1>6. DOMAIN reg' = Registers /\ reg'["rax"] = lfi'.rax /\ reg'["rdx"] = lfi'.rdx
    BY <1>1 DEF CallbackReturn, TypeOK, Registers
  <1>7. rsp' = Top.entry - 4 /\ rsp' \in 0 .. HostTop
    BY <1>2, <1>3 DEF CallbackReturn, HandlerFrame, HostReserve
  <1>8. TypeOK'
    BY <1>1, <1>2, <1>5, <1>6, <1>7 DEF TypeOK
  <1>9. CallbackAnswers' /\ InCallback(Top)' /\ Saved(Top)' /\ Top.ran /\ Top.local <= Top.fsp
    BY <1>2, <1>5, <1>6 DEF CallbackAnswers, InCallback, Saved
  <1>10. TopInv'
    BY <1>1, <1>2, <1>3, <1>5, <1>7, <1>9 DEF TopInv, CallerResumes, ResultsReported
  <1> QED
    BY <1>4, <1>8, <1>10 DEF IInv

LEMMA ForeignReturnStep ==
    ASSUME IInv, NEW n \in FreePointers, ForeignReturn(n)
    PROVE  IInv'
  <1>1. TypeOK /\ FramesInv /\ TopInv /\ pc = "foreign" /\ pc' = "back" /\ Depth > 0
    BY DEF IInv, TopInv, ForeignReturn
  <1>2. /\ rsp = Top.entry - 4 /\ Saved(Top) /\ Top.ran
        /\ UNCHANGED <<frames, calls, host, box, regsPtr, results>> /\ Top' = Top /\ Depth' = Depth
    BY <1>1 DEF TopInv, ForeignReturn, Top, Depth
  <1>3. Top.entry \in 7 .. HostTop /\ HostTop \in Nat /\ n \in BoxMin .. BoxTop
    BY <1>1, TopFacts, SandboxAssumption
  <1>4. FramesInv'
    BY <1>1, <1>2, FramesKept
  <1>5. DOMAIN lfi' = DOMAIN lfi /\ lfi'.rsp = n
    BY <1>1 DEF ForeignReturn, TypeOK
  <1>6. /\ DOMAIN reg' = Registers
        /\ reg'["rax"] = Word("ret", Top.id, 0) /\ reg'["rdx"] = Word("ret", Top.id, 1)
    BY DEF ForeignReturn, Registers
  <1>7. rsp' = Top.entry - 3 /\ rsp' \in 0 .. HostTop
    BY <1>2, <1>3 DEF ForeignReturn
  <1>8. TypeOK'
    BY <1>1, <1>2, <1>3, <1>5, <1>6, <1>7 DEF TypeOK
  <1>9. Saved(Top)'
    BY <1>2 DEF Saved
  <1>10. TopInv'
    BY <1>1, <1>2, <1>6, <1>7, <1>9 DEF TopInv, CallerResumes, ResultsReported
  <1> QED
    BY <1>4, <1>8, <1>10 DEF IInv

LEMMA RestoreAndReportStep == IInv /\ RestoreAndReport => IInv'
  <1> SUFFICES ASSUME IInv, RestoreAndReport PROVE IInv'
    OBVIOUS
  <1>1. TypeOK /\ FramesInv /\ TopInv /\ pc = "back" /\ pc' = "returned" /\ Depth > 0
    BY DEF IInv, TopInv, RestoreAndReport
  <1>2. /\ rsp = Top.entry - 3 /\ Saved(Top) /\ Top.ran
        /\ reg["rax"] = Word("ret", Top.id, 0) /\ reg["rdx"] = Word("ret", Top.id, 1)
        /\ UNCHANGED <<frames, calls, host, box, regsPtr>> /\ Top' = Top /\ Depth' = Depth
    BY <1>1 DEF TopInv, RestoreAndReport, Top, Depth
  <1>3. Top.entry \in 7 .. HostTop /\ HostTop \in Nat /\ Top.id \in 1 .. MaxCalls
        /\ Top.entry + StackedWords(Top.sig) < Top.top /\ Top.top \in 0 .. HostTop
        /\ StackedWords(Top.sig) \in Nat /\ Top.sig.spill <= StackedWords(Top.sig)
        /\ Top.sig.spill \in Nat /\ Arguments(Top) /\ Top.fsp \in BoxMin .. BoxTop
    BY <1>1, TopFacts, FrameFacts
  <1>4. /\ host[rsp + 2] = Word("res", Top.id, 0) /\ host[rsp + 1] = LfiRegs
        /\ host[rsp] = Word("fsp", Top.fsp, 0)
    <2>1. rsp + 2 = Top.entry - 1 /\ rsp + 1 = Top.entry - 2
      BY <1>2, <1>3
    <2> QED
      BY <1>2, <2>1 DEF Saved
  <1>5. results' = [results EXCEPT ![Top.id] =
                      [error |-> "NoError", rax |-> reg["rax"], rdx |-> reg["rdx"]]]
    BY <1>4 DEF RestoreAndReport, Report, Word
  <1>6. /\ DOMAIN results' = 1 .. MaxCalls
        /\ results'[Top.id] = [error |-> "NoError", rax |-> reg["rax"], rdx |-> reg["rdx"]]
    BY <1>1, <1>3, <1>5 DEF TypeOK
  <1>7. lfi' = [lfi EXCEPT !.rsp = Top.fsp]
    BY <1>4 DEF RestoreAndReport, SetRsp, Word
  <1>8. DOMAIN lfi' = DOMAIN lfi /\ lfi'.rsp = Top.fsp
    BY <1>1, <1>7 DEF TypeOK
  <1>9. DOMAIN reg' = Registers
    BY <1>1 DEF TypeOK, RestoreAndReport
  <1>10. rsp' = Top.entry + 1 /\ rsp' \in 0 .. HostTop
    BY <1>2, <1>3 DEF RestoreAndReport
  <1>11. TypeOK'
    BY <1>1, <1>2, <1>3, <1>6, <1>8, <1>9, <1>10 DEF TypeOK
  <1>12. FramesInv'
    BY <1>1, <1>2, FramesKept
  <1>13. CallerResumes'
    <2>1. host[Top.entry] = Word("retaddr", Top.id, 0) /\ rsp' - 1 = Top.entry
      BY <1>3, <1>10 DEF Arguments
    <2>2. \A j \in 1 .. Top.sig.spill : host[Top.entry + j] = Word("stacked", Top.id, j)
      BY <1>3 DEF Arguments, StackedWord
    <2> QED
      BY <1>2, <1>8, <1>10, <2>1, <2>2 DEF CallerResumes
  <1>14. ResultsReported'
    BY <1>2, <1>6 DEF ResultsReported, Outcome
  <1>15. TopInv'
    BY <1>1, <1>2, <1>13, <1>14 DEF TopInv
  <1> QED
    BY <1>11, <1>12, <1>15 DEF IInv

LEMMA MoveStackStep ==
    ASSUME IInv, NEW n \in FreePointers, MoveStack(n)
    PROVE  IInv'
  <1>1. /\ TypeOK /\ FramesInv /\ TopInv /\ pc = "caller" /\ Depth = 0
        /\ UNCHANGED <<pc, frames, calls, reg, rsp, host, box, regsPtr, results>>
    BY DEF IInv, TopInv, MoveStack
  <1>2. DOMAIN lfi' = DOMAIN lfi /\ lfi'.rsp \in BoxMin .. BoxTop
    BY <1>1, SandboxAssumption DEF MoveStack, TypeOK
  <1>3. Depth' = Depth
    BY <1>1 DEF Depth
  <1>4. TypeOK'
    BY <1>1, <1>2, <1>3 DEF TypeOK
  <1>5. FramesInv'
    BY <1>1, <1>3 DEF FramesInv
  <1>6. TopInv'
    BY <1>1, <1>3 DEF TopInv, CallerResumes, ResultsReported
  <1> QED
    BY <1>4, <1>5, <1>6 DEF IInv

-----------------------------------------------------------------------------
(* A call begins and ends *)

LEMMA DecodeStep == IInv /\ Decode => IInv'
  <1> SUFFICES ASSUME IInv, Decode PROVE IInv'
    OBVIOUS
  <1>1. TypeOK /\ FramesInv /\ TopInv /\ pc = "returned" /\ Depth > 0
    BY DEF IInv, TopInv, Decode
  <1>2. /\ frames \in Seq(Frame) /\ Depth \in 1 .. MaxDepth /\ Depth = Len(frames) /\ MaxDepth \in Nat
        /\ Top = frames[Depth] /\ Top.top \in 0 .. HostTop /\ HostTop \in Nat
    BY <1>1, TopFacts, BoundsAssumption DEF TypeOK, Depth
  <1>3. /\ frames' \in Seq(Frame) /\ Depth' = Depth - 1
        /\ \A d \in 1 .. Depth - 1 : frames'[d] = frames[d]
    <2>1. PICK n \in Nat : n = Depth - 1
      BY <1>2
    <2>2. frames' = SubSeq(frames, 1, n)
      BY <2>1 DEF Decode
    <2>3. \A i \in 1 .. n : frames[i] \in Frame
      BY <1>2, <2>1, ElementOfSeq
    <2>4. /\ SubSeq(frames, 1, n) \in Seq(Frame)
          /\ Len(SubSeq(frames, 1, n)) = (IF 1 <= n THEN n - 1 + 1 ELSE 0)
          /\ \A i \in 1 .. n - 1 + 1 : SubSeq(frames, 1, n)[i] = frames[1 + i - 1]
      BY <2>3, SubSeqProperties
    <2>5. Len(SubSeq(frames, 1, n)) = n /\ \A i \in 1 .. n : SubSeq(frames, 1, n)[i] = frames[i]
      BY <2>4
    <2> QED
      BY <2>1, <2>2, <2>4, <2>5 DEF Depth
  <1>4. Outcome(results[Top.id]).kind # "panic"
    BY <1>1 DEF TopInv, ResultsReported
  <1>5. /\ Depth = 1 => pc' = "caller"
        /\ Depth # 1 => pc' = "callback"
    BY <1>4 DEF Decode
  <1>6. rsp' = Top.top /\ lfi' = lfi /\ lfi.rsp = Top.fsp /\ regsPtr' = Null
        /\ UNCHANGED <<calls, reg, host, box, results>>
    BY <1>1 DEF Decode, TopInv, CallerResumes
  <1>7. TypeOK'
    <2>1. Depth' \in 0 .. MaxDepth /\ rsp' \in 0 .. HostTop
      BY <1>2, <1>3, <1>6
    <2>2. pc' \in {"caller", "callback"}
      BY <1>5
    <2> QED
      BY <1>1, <1>3, <1>6, <2>1, <2>2 DEF TypeOK
  <1>8. FramesInv'
    <2>1. \A d \in 1 .. Depth - 1 : Placed(d)'
      <3> TAKE d \in 1 .. Depth - 1
      <3>1. frames'[d] = frames[d] /\ Placed(d) /\ (d > 1 => frames'[d - 1] = frames[d - 1])
        BY <1>2, <1>3, <1>1 DEF FramesInv
      <3> QED
        BY <3>1 DEF Placed
    <2>2. \A d \in 1 .. Depth - 1 : Arguments(frames[d])' /\ InCallback(frames[d])'
      <3> TAKE d \in 1 .. Depth - 1
      <3>1. frames'[d] = frames[d] /\ host' = host /\ box' = box /\ d \in 1 .. Depth
        BY <1>2, <1>3, <1>6
      <3>2. Arguments(frames[d]) /\ InCallback(frames[d])
        BY <1>1, <3>1 DEF FramesInv
      <3> QED
        BY <3>1, <3>2 DEF Arguments, InCallback, Saved
    <2>3. \A d, e \in 1 .. Depth - 1 : d < e =>
            /\ frames'[e].top <= frames'[d].entry - HostReserve
            /\ frames'[e].fsp <= frames'[d].local
      BY <1>1, <1>2, <1>3 DEF FramesInv
    <2>4. 1 .. Depth' = 1 .. Depth - 1 /\ 1 .. Depth' - 1 \subseteq 1 .. Depth - 1
      BY <1>2, <1>3
    <2> QED
      BY <2>1, <2>2, <2>3, <2>4 DEF FramesInv
  <1>9. TopInv'
    <2>1. CASE Depth = 1
      <3>1. Top.top = HostTop
        BY <1>1, <1>2, <2>1 DEF FramesInv, Placed
      <3> QED
        BY <1>3, <1>5, <1>6, <2>1, <3>1 DEF TopInv, CallerResumes, ResultsReported
    <2>2. CASE Depth # 1
      <3>1. /\ Depth - 1 \in 1 .. Depth - 1 /\ Depth \in 1 .. Depth /\ Depth > 1 /\ Depth' > 0
        BY <1>2, <1>3, <2>2
      <3>2. Top' = frames[Depth - 1] /\ InCallback(frames[Depth - 1])
        BY <1>1, <1>3, <3>1 DEF Top, FramesInv
      <3>3. Top.top = frames[Depth - 1].entry - HostReserve /\ Top.fsp = frames[Depth - 1].local
        BY <1>1, <1>2, <3>1 DEF FramesInv, Placed
      <3>4. InCallback(Top)' /\ rsp' = Top'.entry - HostReserve /\ lfi'.rsp = Top'.local
        BY <1>6, <3>2, <3>3 DEF InCallback, Saved
      <3> QED
        BY <1>5, <2>2, <3>1, <3>4 DEF TopInv, CallerResumes, ResultsReported
    <2> QED
      BY <2>1, <2>2
  <1> QED
    BY <1>7, <1>8, <1>9 DEF IInv

LEMMA CallInvokeStep ==
    ASSUME IInv, NEW s \in Conventions, CallInvoke(s)
    PROVE  IInv'
  <1>0. PICK c, at : c = calls + 1 /\ at = EntryPointer(s)
    OBVIOUS
  <1>f. PICK f : f = [id |-> c, sig |-> s, entry |-> at, top |-> rsp, fsp |-> lfi.rsp,
                      ran |-> FALSE, local |-> 0]
    OBVIOUS
  <1>1. TypeOK /\ FramesInv /\ TopInv /\ pc \in {"caller", "callback"} /\ pc' = "entry"
    BY DEF IInv, CallInvoke
  <1>2. /\ c \in 1 .. MaxCalls /\ calls' = c /\ Depth < MaxDepth /\ Depth \in Nat /\ at >= HostReserve
        /\ frames' = Append(frames, f) /\ rsp' = at /\ regsPtr' = LfiRegs /\ MaxCalls \in Nat
        /\ MaxDepth \in Nat /\ UNCHANGED <<lfi, box, results>>
    BY <1>0, <1>f, <1>1, BoundsAssumption DEF CallInvoke, TypeOK, Depth
  <1>n. PICK n \in Nat : n = Depth
    BY <1>2
  <1>3. /\ s.areg \in 0 .. 6 /\ s.spill \in Nat /\ StackedContext(s) \in 0 .. 3
        /\ StackedWords(s) \in Nat /\ s.spill <= StackedWords(s)
    <2>1. s.areg \in 0 .. 6 /\ s.spill \in Nat
      BY ConventionsAssumption
    <2>2. StackedContext(s) \in 0 .. 3
      BY <2>1 DEF StackedContext
    <2> QED
      BY <2>1, <2>2 DEF StackedWords
  <1>4. /\ rsp \in 0 .. HostTop /\ HostTop \in Nat /\ HostTop % 2 = 0
        /\ lfi.rsp \in BoxMin .. BoxTop /\ frames \in Seq(Frame) /\ BoxTop \in Nat /\ BoxMin \in Nat
    BY <1>1, BoundsAssumption, SandboxAssumption DEF TypeOK, Address
  <1>5. rsp % 2 = 0
    <2>1. CASE pc = "caller"
      BY <1>1, <1>4, <2>1 DEF TopInv
    <2>2. CASE pc = "callback"
      <3>1. Depth > 0 /\ rsp = Top.entry - HostReserve
        BY <1>1, <2>2 DEF TopInv
      <3>2. Top.entry \in Nat /\ Top.entry % 2 = 1
        BY <1>1, <1>4, <3>1, TopFacts DEF HostReserve
      <3> QED
        BY <1>4, <3>1, <3>2 DEF HostReserve
    <2> QED
      BY <1>1, <2>1, <2>2
  <1>6. at \in HostReserve .. HostTop /\ at % 2 = 1 /\ at + StackedWords(s) < rsp
    <2>1. PICK w \in Nat : w = StackedWords(s)
      BY <1>3
    <2>2. at = rsp - w - 1 - (IF w % 2 = 0 THEN 0 ELSE 1)
      BY <1>0, <2>1 DEF EntryPointer
    <2>3. PICK r \in Nat, h \in Nat : r = rsp /\ h = HostTop /\ r % 2 = 0 /\ r <= h
      BY <1>4, <1>5
    <2>6. at >= 7
      BY <1>2 DEF HostReserve
    <2>4. CASE w % 2 = 0
      <3>1. at = r - w - 1
        BY <2>2, <2>3, <2>4
      <3>2. at % 2 = 1
        BY <2>3, <2>4, <3>1
      <3>3. at \in 7 .. h /\ at + w < r
        BY <2>3, <2>6, <3>1
      <3> QED
        BY <2>1, <2>3, <3>2, <3>3 DEF HostReserve
    <2>5. CASE w % 2 # 0
      <3>1. at = r - w - 2
        BY <2>2, <2>3, <2>5
      <3>2. at % 2 = 1
        BY <2>3, <2>5, <3>1
      <3>3. at \in 7 .. h /\ at + w < r
        BY <2>3, <2>6, <3>1
      <3> QED
        BY <2>1, <2>3, <3>2, <3>3 DEF HostReserve
    <2> QED
      BY <2>4, <2>5
  <1>7. f \in Frame
    BY <1>f, <1>2, <1>4, <1>6 DEF Frame, HostReserve
  <1>8. /\ f.id = c /\ f.sig = s /\ f.entry = at /\ f.top = rsp /\ f.fsp = lfi.rsp /\ ~f.ran
        /\ f.local = 0
    BY <1>f
  <1>9. /\ frames' \in Seq(Frame) /\ Depth' = n + 1 /\ frames'[n + 1] = f
        /\ \A d \in 1 .. n : frames'[d] = frames[d]
    BY <1>2, <1>n, <1>4, <1>7 DEF Depth
  <1>10. Top' = f
    BY <1>9 DEF Top
  <1>11. host' = [a \in 0 .. HostTop |->
                   IF a = at THEN Word("retaddr", c, 0)
                   ELSE IF a \in at + 1 .. at + StackedWords(s) THEN StackedWord(s, c, a - at)
                   ELSE host[a]]
    BY <1>0 DEF CallInvoke
  <1>12. /\ DOMAIN host' = 0 .. HostTop
         /\ \A a \in rsp .. HostTop : host'[a] = host[a]
    <2>1. \A a \in rsp .. HostTop : a \in 0 .. HostTop /\ a # at /\ a \notin at + 1 .. at + StackedWords(s)
      BY <1>3, <1>4, <1>6 DEF HostReserve
    <2> QED
      BY <1>11, <2>1
  <1>13. Arguments(f)'
    <2>1. host'[at] = Word("retaddr", c, 0)
      BY <1>4, <1>6, <1>11 DEF HostReserve
    <2>2. ASSUME NEW j \in 1 .. StackedWords(s) PROVE host'[at + j] = StackedWord(s, c, j)
      <3>1. /\ at + j \in 0 .. HostTop /\ at + j # at /\ at + j \in at + 1 .. at + StackedWords(s)
            /\ (at + j) - at = j
        BY <1>3, <1>4, <1>6 DEF HostReserve
      <3> QED
        BY <1>11, <3>1
    <2> QED
      BY <1>8, <2>1, <2>2 DEF Arguments
  <1>14. ASSUME n > 0
         PROVE  /\ pc = "callback" /\ rsp = frames[n].entry - HostReserve
                /\ InCallback(frames[n]) /\ lfi.rsp = frames[n].local
    BY <1>1, <1>n, <1>14 DEF TopInv, Top
  <1>15. ASSUME NEW d \in 1 .. n
         PROVE  /\ rsp <= frames[d].entry - HostReserve /\ lfi.rsp <= frames[d].local
                /\ InCallback(frames[d]) /\ Arguments(frames[d])
                /\ frames[d].entry \in 0 .. HostTop /\ StackedWords(frames[d].sig) \in Nat
                /\ frames[d].entry + StackedWords(frames[d].sig) <= HostTop
                /\ frames[d].entry >= HostReserve
    <2>0. n > 0 /\ d \in 1 .. Depth /\ n \in 1 .. Depth
      BY <1>n
    <2>1. /\ Arguments(frames[d]) /\ frames[d].entry \in 0 .. HostTop
          /\ StackedWords(frames[d].sig) \in Nat /\ frames[d].top \in 0 .. HostTop
          /\ frames[d].entry + StackedWords(frames[d].sig) < frames[d].top
          /\ frames[d].entry >= HostReserve /\ frames[d].local \in 0 .. BoxTop
      BY <1>1, <2>0, FrameFacts DEF FramesInv, Placed
    <2>2. frames[d].entry + StackedWords(frames[d].sig) <= HostTop
      <3>1. PICK w \in Nat, e \in Nat, u \in Nat :
               w = StackedWords(frames[d].sig) /\ e = frames[d].entry /\ u = frames[d].top
        BY <2>1
      <3>2. e + w < u /\ u <= HostTop
        BY <2>1, <3>1
      <3>3. HostTop \in Nat
        BY <1>4
      <3>4. \A j, k, m, h \in Nat : j + k < m /\ m <= h => j + k <= h
        OBVIOUS
      <3>5. e + w <= HostTop
        BY <3>1, <3>2, <3>3, <3>4
      <3> QED
        BY <3>1, <3>5
    <2>3. CASE d = n
      <3>1. /\ rsp = frames[d].entry - HostReserve /\ InCallback(frames[d])
            /\ lfi.rsp = frames[d].local
        BY <1>14, <2>0, <2>3
      <3> QED
        BY <1>4, <2>1, <2>2, <3>1
    <2>4. CASE d < n
      <3>1. d \in 1 .. Depth - 1
        BY <1>n, <2>4
      <3>2. /\ frames[n].top <= frames[d].entry - HostReserve
            /\ frames[n].fsp <= frames[d].local /\ InCallback(frames[d])
        BY <1>1, <2>0, <2>4, <3>1 DEF FramesInv
      <3>3. /\ rsp = frames[n].entry - HostReserve /\ lfi.rsp = frames[n].local
            /\ frames[n].local <= frames[n].fsp
        BY <1>14, <2>0 DEF InCallback
      <3>4. /\ frames[n].entry + StackedWords(frames[n].sig) < frames[n].top
            /\ frames[n].entry \in 0 .. HostTop /\ frames[n].top \in 0 .. HostTop
            /\ StackedWords(frames[n].sig) \in Nat
            /\ frames[n].fsp \in BoxMin .. BoxTop /\ frames[n].local \in 0 .. BoxTop
        BY <1>1, <2>0, FrameFacts DEF FramesInv, Placed
      <3>5. rsp <= frames[d].entry - HostReserve
        <4>1. PICK w \in Nat, e \in Nat, u \in Nat, g \in Nat :
                /\ w = StackedWords(frames[n].sig) /\ e = frames[n].entry
                /\ u = frames[n].top /\ g = frames[d].entry
          BY <2>1, <3>4
        <4>2. e + w < u /\ u <= g - 7 /\ rsp = e - 7
          BY <3>2, <3>3, <3>4, <4>1 DEF HostReserve
        <4>3. rsp <= g - 7
          BY <4>2
        <4> QED
          BY <4>1, <4>3 DEF HostReserve
      <3>6. lfi.rsp <= frames[d].local
        <4>a. BoxTop \in Nat /\ BoxMin \in Nat
          BY <1>4
        <4>b. frames[n].local \in Nat /\ frames[d].local \in Nat
          BY <2>1, <3>4, <4>a
        <4>c. frames[n].fsp \in Int
          BY <3>4, <4>a
        <4>1. PICK l \in Nat, u \in Int, g \in Nat :
                l = frames[n].local /\ u = frames[n].fsp /\ g = frames[d].local
          BY <4>b, <4>c
        <4> QED
          BY <3>2, <3>3, <4>1
      <3> QED
        BY <2>1, <2>2, <3>2, <3>5, <3>6
    <2> QED
      BY <2>3, <2>4
  <1>16. \A d \in 1 .. n : Arguments(frames[d])' /\ InCallback(frames[d])'
    <2> TAKE d \in 1 .. n
    <2>1. PICK w \in Nat, e \in Nat : w = StackedWords(frames[d].sig) /\ e = frames[d].entry
      BY <1>15
    <2>2. e + w <= HostTop /\ rsp <= e - 7
      BY <1>15, <2>1 DEF HostReserve
    <2>a. PICK r \in Nat, h \in Nat : r = rsp /\ h = HostTop
      BY <1>4
    <2>b. e + w <= h /\ r <= e - 7
      BY <2>2, <2>a
    <2>3. /\ e \in rsp .. HostTop
          /\ e - 1 \in rsp .. HostTop /\ e - 2 \in rsp .. HostTop /\ e - 3 \in rsp .. HostTop
          /\ \A j \in 1 .. w : e + j \in rsp .. HostTop
      BY <2>a, <2>b
    <2>4. /\ host'[e] = host[e]
          /\ host'[e - 1] = host[e - 1] /\ host'[e - 2] = host[e - 2] /\ host'[e - 3] = host[e - 3]
          /\ \A j \in 1 .. w : host'[e + j] = host[e + j]
      BY <1>12, <2>3
    <2>5. frames'[d] = frames[d] /\ box' = box /\ Arguments(frames[d]) /\ InCallback(frames[d])
      BY <1>2, <1>9, <1>15
    <2>6. Arguments(frames[d])'
      BY <2>1, <2>4, <2>5 DEF Arguments
    <2>7. InCallback(frames[d])'
      BY <2>1, <2>4, <2>5 DEF InCallback, Saved
    <2> QED
      BY <2>6, <2>7
  <1>17. \A d \in 1 .. n + 1 : Placed(d)'
    <2>1. ASSUME NEW d \in 1 .. n PROVE Placed(d)'
      <3>1. Placed(d) /\ frames'[d] = frames[d]
        BY <1>1, <1>n, <1>9 DEF FramesInv
      <3>2. d > 1 => frames'[d - 1] = frames[d - 1]
        <4>1. d > 1 => d - 1 \in 1 .. n
          OBVIOUS
        <4> QED
          BY <1>9, <4>1
      <3> QED
        BY <3>1, <3>2 DEF Placed
    <2>2. Placed(n + 1)'
      <3>1. /\ frames'[n + 1].entry >= HostReserve /\ frames'[n + 1].entry % 2 = 1
            /\ frames'[n + 1].entry + StackedWords(frames'[n + 1].sig) < frames'[n + 1].top
        BY <1>2, <1>6, <1>8, <1>9
      <3>2. CASE n = 0
        <4>1. rsp = HostTop /\ n + 1 = 1 /\ ~(n + 1 > 1)
          BY <1>1, <1>n, <3>2 DEF TopInv
        <4>2. frames'[n + 1].top = HostTop
          BY <1>8, <1>9, <4>1
        <4> QED
          BY <3>1, <4>1, <4>2 DEF Placed
      <3>3. CASE n > 0
        <4>1. n + 1 # 1 /\ (n + 1) - 1 = n /\ frames'[n] = frames[n]
          BY <1>9, <3>3
        <4>2. rsp = frames[n].entry - HostReserve /\ lfi.rsp = frames[n].local
          BY <1>14, <3>3
        <4>3. /\ frames'[n + 1].top = frames'[(n + 1) - 1].entry - HostReserve
              /\ frames'[n + 1].fsp = frames'[(n + 1) - 1].local
          BY <1>8, <1>9, <4>1, <4>2
        <4> QED
          BY <3>1, <4>1, <4>3 DEF Placed
      <3> QED
        BY <3>2, <3>3
    <2> QED
      <3> TAKE d \in 1 .. n + 1
      <3>1. d \in 1 .. n \/ d = n + 1
        OBVIOUS
      <3> QED
        BY <2>1, <2>2, <3>1
  <1>18. \A d, e \in 1 .. n + 1 : d < e =>
            /\ frames'[e].top <= frames'[d].entry - HostReserve
            /\ frames'[e].fsp <= frames'[d].local
    <2> TAKE d, e \in 1 .. n + 1
    <2> HAVE d < e
    <2>1. d \in 1 .. n /\ (e = n + 1 \/ e \in 1 .. n)
      OBVIOUS
    <2>2. CASE e = n + 1
      BY <1>8, <1>9, <1>15, <2>1, <2>2
    <2>3. CASE e \in 1 .. n
      BY <1>1, <1>n, <1>9, <2>1, <2>3 DEF FramesInv
    <2> QED
      BY <2>1, <2>2, <2>3
  <1>19. FramesInv'
    <2>1. \A d \in 1 .. n + 1 : Arguments(frames[d])'
      <3> TAKE d \in 1 .. n + 1
      <3>1. d \in 1 .. n \/ d = n + 1
        OBVIOUS
      <3>2. CASE d = n + 1
        BY <1>9, <1>13, <3>2 DEF Arguments
      <3> QED
        BY <1>16, <3>1, <3>2
    <2>2. 1 .. Depth' = 1 .. n + 1 /\ 1 .. Depth' - 1 = 1 .. n
      BY <1>9
    <2> QED
      BY <1>16, <1>17, <1>18, <2>1, <2>2 DEF FramesInv
  <1>20. DOMAIN reg' = Registers /\ \A k \in 1 .. 6 : reg'[ArgRegs[k]] = Passed(s, c, k)
    <2>1. reg' = [r \in Registers |->
                    IF \E k \in 1 .. 6 : r = ArgRegs[k]
                    THEN Passed(s, c, CHOOSE k \in 1 .. 6 : r = ArgRegs[k]) ELSE Junk]
      BY <1>0 DEF CallInvoke
    <2>2. ASSUME NEW k \in 1 .. 6 PROVE reg'[ArgRegs[k]] = Passed(s, c, k)
      <3>1. \A j \in 1 .. 6 : ArgRegs[j] = ArgRegs[k] => j = k
        BY DEF ArgRegs
      <3>2. (CHOOSE j \in 1 .. 6 : ArgRegs[k] = ArgRegs[j]) = k
        BY <3>1
      <3>3. ArgRegs[k] \in Registers
        BY DEF ArgRegs, Registers
      <3> QED
        BY <2>1, <3>2, <3>3
    <2> QED
      BY <2>1, <2>2
  <1>21. TypeOK'
    <2>1. rsp' \in 0 .. HostTop
      BY <1>2, <1>4, <1>6 DEF HostReserve
    <2>2. Depth' \in 0 .. MaxDepth
      BY <1>2, <1>n, <1>9
    <2>3. calls' \in 0 .. MaxCalls
      BY <1>2
    <2> QED
      BY <1>1, <1>2, <1>9, <1>12, <1>20, <2>1, <2>2, <2>3 DEF TypeOK
  <1>22. TopInv'
    <2>1. Depth' > 0
      BY <1>2, <1>9
    <2> QED
      BY <1>1, <1>2, <1>8, <1>10, <1>20, <2>1 DEF TopInv, CallerResumes, ResultsReported
  <1> QED
    BY <1>19, <1>21, <1>22 DEF IInv

-----------------------------------------------------------------------------
(* The theorems *)

LEMMA NextIInv ==
    ASSUME IInv, [Next]_vars
    PROVE  IInv'
  <1>1. ASSUME UNCHANGED vars PROVE IInv'
    <2> USE DEF IInv
    <2>1. TypeOK'
      BY <1>1 DEF vars, TypeOK, Depth
    <2>2. FramesInv'
      BY <1>1 DEF vars, FramesInv, Depth, Placed, Arguments, InCallback, Saved
    <2>3. TopInv'
      BY <1>1 DEF vars, TopInv, Depth, Top, Saved, InRegisters, Stashed, CopiedTo, InCallback,
                  CallbackAnswers, CallerResumes, ResultsReported
    <2> QED
      BY <2>1, <2>2, <2>3
  <1>2. CASE \E s \in Conventions : CallInvoke(s)
    BY <1>2, CallInvokeStep
  <1>3. CASE SaveContext
    BY <1>3, SaveContextStep
  <1>4. CASE StackOverflow
    BY <1>4, StackOverflowStep
  <1>5. CASE CopySpill
    BY <1>5, CopySpillStep
  <1>6. CASE CallTrampoline
    BY <1>6, CallTrampolineStep
  <1>7. CASE \E n \in FreePointers \cap BoxWords : ForeignCallback(n)
    BY <1>7, ForeignCallbackStep
  <1>8. CASE CallbackReturn
    BY <1>8, CallbackReturnStep
  <1>9. CASE \E n \in FreePointers : ForeignReturn(n) \/ MoveStack(n)
    BY <1>9, ForeignReturnStep, MoveStackStep
  <1>10. CASE RestoreAndReport
    BY <1>10, RestoreAndReportStep
  <1>11. CASE Decode
    BY <1>11, DecodeStep
  <1>12. CASE Done
    BY <1>1, <1>12 DEF Done
  <1> QED
    BY <1>1, <1>2, <1>3, <1>4, <1>5, <1>6, <1>7, <1>8, <1>9, <1>10, <1>11, <1>12 DEF Next

\* The invariant holds after any number of calls inside each other, with any of
\* the seven instances of invoke_asm!.
THEOREM Invariance == Spec => []IInv
  <1>1. Init => IInv
    BY InitIInv
  <1>2. IInv /\ [Next]_vars => IInv'
    BY NextIInv
  <1> QED
    BY <1>1, <1>2, PTL DEF Spec

\* Both stack pointers stay on their stacks, and no InvokeRes is found untouched.
THEOREM TypeCorrect == Spec => []TypeOK
  <1>1. IInv => TypeOK
    BY DEF IInv
  <1> QED
    BY <1>1, Invariance, PTL

\* invoke passes on every argument of its own call: what it stashes and copies
\* before lfi_trampoline neither clobbers an argument register nor misses a word.
THEOREM ArgumentsReachFunction == Spec => []ForeignSeesArguments
  <1>1. IInv => ForeignSeesArguments
    BY DEF IInv, TopInv, InRegisters, CopiedTo, ForeignSeesArguments
  <1> QED
    BY <1>1, Invariance, PTL

\* lfi_trampoline is called with the host stack aligned to 16 bytes, whatever the
\* number of stacked words, and the function starts on an aligned foreign stack.
THEOREM CallsAreAligned == Spec => []CallAligned
  <1>1. IInv => CallAligned
    <2> SUFFICES ASSUME IInv, pc = "foreign", Top.local = 0
                 PROVE  (rsp + 1) % 2 = 0 /\ lfi.rsp % StackAlign = 0
      BY DEF CallAligned
    <2>1. TypeOK /\ FramesInv /\ Depth > 0 /\ rsp = Top.entry - 4 /\ lfi.rsp % StackAlign = 0
      BY DEF IInv, TopInv, CopiedTo
    <2>2. PICK e \in Nat : e = Top.entry /\ e % 2 = 1
      BY <2>1, TopFacts
    <2>3. (e - 4 + 1) % 2 = 0
      BY <2>2
    <2> QED
      BY <2>1, <2>2, <2>3
  <1> QED
    BY <1>1, Invariance, PTL

\* invoke's ret finds its own return address, on both paths, and its caller finds
\* the arguments it pushed and the foreign stack pointer it had, whatever calls
\* the callbacks of the function have made.
THEOREM InvokeReturnsToCaller == Spec => []CallerResumes
  <1>1. IInv => CallerResumes
    BY DEF IInv, TopInv
  <1> QED
    BY <1>1, Invariance, PTL

\* Every call reports into its own InvokeRes: Ok with the registers its own
\* function returned, Err(StackOverflow) when it never ran, and no panic.
THEOREM ResultsAreReported == Spec => []ResultsReported
  <1>1. IInv => ResultsReported
    BY DEF IInv, TopInv
  <1> QED
    BY <1>1, Invariance, PTL

\* A callback's answer reaches the function that called it, on the stack it had,
\* with its locals as they were.
THEOREM CallbacksAnswer == Spec => []CallbackAnswers
  <1>1. IInv => CallbackAnswers
    BY DEF IInv, TopInv, CallbackAnswers
  <1> QED
    BY <1>1, Invariance, PTL

=============================================================================
