----------------------------- MODULE InvokeAsm -----------------------------
(***************************************************************************)
(* The assembly of invoke (invoke_asm! and its seven instances), the       *)
(* register side of a callback, and InvokeRes (amd64.rs): how the          *)
(* arguments of a call, its result and both stack pointers get from the    *)
(* host to a foreign function and back, through callbacks that make        *)
(* further calls.  Runtime models the same calls without their data.       *)
(*                                                                         *)
(* Memory is a function from addresses to words.  The host stack is        *)
(* addressed in words: an even address is a multiple of 16 bytes.  The     *)
(* sandbox is addressed in bytes, as its stack pointer need not be         *)
(* aligned to anything.  A word is tagged with what it is, and with the    *)
(* number of the call it belongs to.                                       *)
(*                                                                         *)
(* Panics, and the abort of a callback that panics, are in Runtime.        *)
(***************************************************************************)
EXTENDS StackLayout, Sequences

CONSTANTS
    WordSize,       \* the bytes of a word: 8
    Conventions,    \* [areg |-> register arguments, spill |-> words of stacked ones]
    FreePointers,   \* values of LFIRegs.rsp between two outermost calls
    BoxMin,         \* box_min_addr
    BoxTop,         \* the first address above the sandbox's stack
    HostTop,        \* the host stack pointer of the outermost code
    MaxDepth,       \* bound on calls inside each other
    MaxCalls        \* bound on all calls

\* 16 and 8.
ASSUME WordSizeAssumption == WordSize \in Nat \ {0} /\ StackAlign = 2 * WordSize

\* areg is 6 for Stacked, n for AREGn.  The compiler puts every argument into a
\* register while there is one; an argument passed in memory leaves AREG0 to AREG3
\* with stacked words as well.  AREG4 and AREG5 expect the result pointer at a
\* fixed place, so omniglot must not use them with stacked words.
ASSUME ConventionsAssumption ==
    /\ Conventions \subseteq [areg : 0 .. 6, spill : Nat]
    /\ \A s \in Conventions : s.areg \in {4, 5} => s.spill = 0

ASSUME SandboxAssumption ==
    /\ BoxMin \in Address \ {0} /\ BoxTop \in Address /\ 2 * BoxTop < AddrLimit
    /\ FreePointers \subseteq BoxMin .. BoxTop

ASSUME BoundsAssumption == HostTop \in Nat /\ HostTop % 2 = 0 /\ MaxDepth \in Nat /\ MaxCalls \in Nat

VARIABLES
    pc,         \* what the thread does
    frames,     \* the calls under way, innermost last
    calls,      \* how many calls there have been
    reg,        \* the caller-saved registers
    rsp,        \* the host stack pointer
    host,       \* the host stack
    lfi,        \* LFIRegs
    box,        \* the sandbox's stack
    regsPtr,    \* invoke_lfi_regs_ptr of the runtime
    results     \* the InvokeResInner of each call

vars == <<pc, frames, calls, reg, rsp, host, lfi, box, regsPtr, results>>

ArgRegs == <<"rdi", "rsi", "rdx", "rcx", "r8", "r9">>
Registers == {"rdi", "rsi", "rdx", "rcx", "r8", "r9", "rax", "r10", "r11"}

Word(kind, c, n) == <<kind, c, n>>
Junk == Word("junk", 0, 0)
RtPtr == Word("rt", 0, 0)
LfiRegs == Word("regs", 0, 0)
Null == Word("null", 0, 0)

BoxWords == {a \in 0 .. BoxTop - 1 : a % WordSize = 0}

Depth == Len(frames)
Top == frames[Depth]

Init ==
    /\ pc = "caller" /\ frames = <<>> /\ calls = 0
    /\ reg = [r \in Registers |-> Junk]
    /\ rsp = HostTop /\ host = [a \in 0 .. HostTop |-> Junk]
    /\ \E n \in FreePointers : lfi = [rsp |-> n, rax |-> Junk, rdx |-> Junk]
    /\ box = [a \in BoxWords |-> Junk]
    /\ regsPtr = Null
    /\ results = [c \in 1 .. MaxCalls |-> [error |-> "NotCalled", rax |-> Junk, rdx |-> Junk]]

-----------------------------------------------------------------------------
(* The wrapper of a foreign function, in execute's closure: a C call of      *)
(* invoke with the arguments, the runtime, the function and the InvokeRes.   *)

\* The parameters of call c that follow the arguments.
Context(c) == <<RtPtr, Word("fn", c, 0), Word("res", c, 0)>>

\* How many of them are passed on the stack, and how many words in all.
StackedContext(s) == IF s.areg <= 3 THEN 0 ELSE s.areg - 3
StackedWords(s) == s.spill + StackedContext(s)

\* The word at distance j behind the return address.
StackedWord(s, c, j) ==
    IF j <= s.spill THEN Word("stacked", c, j) ELSE Context(c)[j - s.spill + 3 - StackedContext(s)]

\* What the k-th argument register holds.
Passed(s, c, k) ==
    CASE k <= s.areg -> Word("arg", c, k)
      [] s.areg < k /\ k <= s.areg + 3 -> Context(c)[k - s.areg]
      [] OTHER -> Junk

\* An odd address: aligned to 16 bytes before the return address is pushed.
EntryPointer(s) ==
    rsp - StackedWords(s) - 1 - (IF StackedWords(s) % 2 = 0 THEN 0 ELSE 1)

\* The words of LFI's and the callback handler's frames on the host stack, and
\* those that a call pushes in all: the host stack is large enough for them.
HandlerFrame == 3
HostReserve == 7

CallInvoke(s) ==
    LET c == calls + 1
        at == EntryPointer(s)
    IN
    /\ pc \in {"caller", "callback"} /\ Depth < MaxDepth /\ calls < MaxCalls
    /\ at >= HostReserve
    /\ pc' = "entry" /\ calls' = c
    /\ frames' = Append(frames, [id |-> c, sig |-> s, entry |-> at, top |-> rsp, fsp |-> lfi.rsp,
                                 ran |-> FALSE, local |-> 0])
    /\ reg' = [r \in Registers |->
                  IF \E k \in 1 .. 6 : r = ArgRegs[k]
                  THEN Passed(s, c, CHOOSE k \in 1 .. 6 : r = ArgRegs[k]) ELSE Junk]
    /\ rsp' = at
    /\ host' = [a \in 0 .. HostTop |->
                   IF a = at THEN Word("retaddr", c, 0)
                   ELSE IF a \in at + 1 .. at + StackedWords(s) THEN StackedWord(s, c, a - at)
                   ELSE host[a]]
    /\ regsPtr' = LfiRegs
    /\ UNCHANGED <<lfi, box, results>>

-----------------------------------------------------------------------------
(* invoke_asm! *)

\* Mutant: the operand is counted as if something had been pushed before.
ResOperandPushed(s) ==
    CASE s.areg <= 3 -> reg[ArgRegs[s.areg + 3]]
      [] s.areg = 4 -> host[rsp + 2]
      [] s.areg = 5 -> host[rsp + 3]
      [] s.areg = 6 -> host[rsp + s.spill + 4]

\* $resptrloc, read before anything is pushed.
ResOperand(s) ==
    CASE s.areg <= 3 -> reg[ArgRegs[s.areg + 3]]
      [] s.areg = 4 -> host[rsp + 1]
      [] s.areg = 5 -> host[rsp + 2]
      [] s.areg = 6 -> host[rsp + s.spill + 3]

\* $rtptrloc, read after one push.
RtOperand(s) ==
    IF s.areg <= 5 THEN reg[ArgRegs[s.areg + 1]] ELSE host[(rsp - 1) + s.spill + 2]

\* The LFIRegs pointer that the runtime at p holds.
RegsPtrOf(p) == IF p = RtPtr THEN regsPtr ELSE Junk

\* Mutant: the LFIRegs pointer is not saved.
SaveContextUnsaved ==
    /\ pc = "entry" /\ pc' = "saved"
    /\ host' = [host EXCEPT ![rsp - 1] = ResOperand(Top.sig), ![rsp - 2] = Word("fsp", lfi.rsp, 0)]
    /\ rsp' = rsp - 2
    /\ reg' = [reg EXCEPT !["r10"] = RtOperand(Top.sig), !["r11"] = Word("fsp", lfi.rsp, 0)]
    /\ UNCHANGED <<frames, calls, lfi, box, regsPtr, results>>

\* Push the result pointer, the LFIRegs pointer and the foreign stack pointer.
SaveContext ==
    LET rt == RtOperand(Top.sig) IN
    /\ pc = "entry" /\ pc' = "saved"
    /\ host' = [host EXCEPT ![rsp - 1] = ResOperand(Top.sig), ![rsp - 2] = RegsPtrOf(rt),
                            ![rsp - 3] = Word("fsp", lfi.rsp, 0)]
    /\ rsp' = rsp - 3
    /\ reg' = [reg EXCEPT !["r10"] = rt, !["r11"] = Word("fsp", lfi.rsp, 0)]
    /\ UNCHANGED <<frames, calls, lfi, box, regsPtr, results>>

SpillBytes == WordSize * Top.sig.spill

\* Mutant: only the borrow is checked.
FitsAddress == lfi.rsp >= SpillBytes

Fits == SpillFits(lfi.rsp, SpillBytes, BoxMin)

\* Where a result pointer leads: nowhere, if it is no result pointer.
Report(p, fields) ==
    IF p[1] = "res" THEN [results EXCEPT ![p[2]] = fields] ELSE results

\* Mutant: "add rsp, 16" is missing.
StackOverflowUnpopped ==
    /\ pc = "saved" /\ pc' = "returned" /\ ~Fits
    /\ reg' = [reg EXCEPT !["r11"] = host[rsp]]
    /\ results' = Report(host[rsp], [error |-> "StackOverflow", rax |-> Junk, rdx |-> Junk])
    /\ rsp' = rsp + 2
    /\ UNCHANGED <<frames, calls, host, lfi, box, regsPtr>>

\* 150: drop two words, pop the result pointer, ret.
StackOverflow ==
    LET p == host[rsp + 2] IN
    /\ pc = "saved" /\ pc' = "returned" /\ ~Fits
    /\ reg' = [reg EXCEPT !["r11"] = p]
    /\ results' = Report(p, [error |-> "StackOverflow", rax |-> Junk, rdx |-> Junk])
    /\ rsp' = rsp + 4
    /\ UNCHANGED <<frames, calls, host, lfi, box, regsPtr>>

\* "rep movsb" from the host address a.
CopyFrom(a) ==
    LET to == SpillPointer(lfi.rsp, SpillBytes) IN
    /\ pc = "saved" /\ pc' = "copied" /\ Fits
    /\ host' = [host EXCEPT ![rsp - 1] = reg["rsi"], ![rsp - 2] = reg["rdi"], ![rsp - 3] = reg["rcx"]]
    /\ rsp' = rsp - 3
    /\ box' = [b \in BoxWords |->
                  IF b \in to .. to + SpillBytes - 1 THEN host[a + (b - to) \div WordSize] ELSE box[b]]
    /\ reg' = [reg EXCEPT !["rsi"] = Junk, !["rdi"] = Junk, !["rcx"] = Junk, !["r11"] = Word("fsp", to, 0)]
    /\ UNCHANGED <<frames, calls, lfi, regsPtr, results>>

\* Mutant: the return address is not counted.
CopySpillLow == CopyFrom((rsp - 3) + 6)

\* 200: stash three argument registers, copy from [rsp + 56].
CopySpill == CopyFrom((rsp - 3) + 7)

\* What a store through a LFIRegs pointer p to its rsp makes of LFIRegs.
SetRsp(p, w) == IF p = LfiRegs THEN [lfi EXCEPT !.rsp = w[2]] ELSE lfi

\* Take the three registers back, set the foreign stack pointer, call.
CallTrampoline ==
    LET p == host[rsp + 4] IN
    /\ pc = "copied" /\ pc' = "foreign"
    /\ reg' = [reg EXCEPT !["rcx"] = host[rsp], !["rdi"] = host[rsp + 1], !["rsi"] = host[rsp + 2], !["r10"] = p]
    /\ lfi' = SetRsp(p, reg["r11"])
    /\ rsp' = rsp + 2
    /\ host' = [host EXCEPT ![rsp + 2] = Word("retaddr", 0, 0)]
    /\ frames' = [frames EXCEPT ![Depth].ran = TRUE]
    /\ UNCHANGED <<calls, box, regsPtr, results>>

\* Mutant: the foreign stack pointer is not restored.
ReportResultOnly ==
    LET p == host[rsp + 2] IN
    /\ pc = "back" /\ pc' = "returned"
    /\ results' = Report(p, [error |-> "NoError", rax |-> reg["rax"], rdx |-> reg["rdx"]])
    /\ reg' = [reg EXCEPT !["r10"] = host[rsp + 1], !["r11"] = p]
    /\ rsp' = rsp + 4
    /\ UNCHANGED <<frames, calls, host, lfi, box, regsPtr>>

\* After the trampoline: restore the foreign stack pointer, report, ret.
RestoreAndReport ==
    LET p == host[rsp + 2] IN
    /\ pc = "back" /\ pc' = "returned"
    /\ lfi' = SetRsp(host[rsp + 1], host[rsp])
    /\ results' = Report(p, [error |-> "NoError", rax |-> reg["rax"], rdx |-> reg["rdx"]])
    /\ reg' = [reg EXCEPT !["r10"] = host[rsp + 1], !["r11"] = p]
    /\ rsp' = rsp + 4
    /\ UNCHANGED <<frames, calls, host, box, regsPtr>>

-----------------------------------------------------------------------------
(* LFI and the foreign function *)

\* The function has locals at its stack pointer n, and calls a callback slot.
ForeignCallback(n) ==
    /\ pc = "foreign" /\ pc' = "callback"
    /\ BoxMin <= n /\ n < lfi.rsp
    /\ box' = [box EXCEPT ![n] = Word("local", Top.id, 0)]
    /\ lfi' = [lfi EXCEPT !.rsp = n]
    /\ frames' = [frames EXCEPT ![Depth].local = n]
    /\ rsp' = rsp - HandlerFrame
    /\ reg' = [r \in Registers |-> Junk]
    /\ UNCHANGED <<calls, host, regsPtr, results>>

\* The callback's return registers are copied to LFIRegs, from where LFI loads
\* them, and the stack pointer, when it continues the function.
CallbackReturn ==
    /\ pc = "callback" /\ pc' = "foreign"
    /\ lfi' = [lfi EXCEPT !.rax = Word("cbret", Top.id, 0), !.rdx = Word("cbret", Top.id, 1)]
    /\ reg' = [reg EXCEPT !["rax"] = lfi'.rax, !["rdx"] = lfi'.rdx]
    /\ rsp' = rsp + HandlerFrame
    /\ UNCHANGED <<frames, calls, host, box, regsPtr, results>>

\* The function returns, its stack pointer anywhere, and so does lfi_trampoline.
ForeignReturn(n) ==
    /\ pc = "foreign" /\ pc' = "back"
    /\ lfi' = [lfi EXCEPT !.rsp = n]
    /\ reg' = [[r \in Registers |-> Junk]
                  EXCEPT !["rax"] = Word("ret", Top.id, 0), !["rdx"] = Word("ret", Top.id, 1)]
    /\ rsp' = rsp + 1
    /\ UNCHANGED <<frames, calls, host, box, regsPtr, results>>

-----------------------------------------------------------------------------
(* The wrapper, after invoke: the end of execute, and InvokeRes              *)

\* encode_eferror, then the registers' bytes as the result.
Outcome(r) ==
    CASE r.error = "NotCalled" -> [kind |-> "panic", words |-> <<>>]
      [] r.error = "StackOverflow" -> [kind |-> "Err", words |-> <<>>]
      [] r.error = "NoError" -> [kind |-> "Ok", words |-> <<r.rax, r.rdx>>]

Decode ==
    /\ pc = "returned"
    /\ pc' = CASE Outcome(results[Top.id]).kind = "panic" -> "panicked"
              [] Depth = 1 -> "caller"
              [] OTHER -> "callback"
    /\ frames' = SubSeq(frames, 1, Depth - 1)
    /\ rsp' = Top.top
    /\ regsPtr' = Null
    /\ UNCHANGED <<calls, reg, host, lfi, box, results>>

\* The host allocates on the foreign stack, or has freed what it allocated.
MoveStack(n) ==
    /\ pc = "caller"
    /\ lfi' = [lfi EXCEPT !.rsp = n]
    /\ UNCHANGED <<pc, frames, calls, reg, rsp, host, box, regsPtr, results>>

Done == pc = "caller" /\ calls = MaxCalls /\ UNCHANGED vars

-----------------------------------------------------------------------------
Next ==
    \/ \E s \in Conventions : CallInvoke(s)
    \/ SaveContext \/ StackOverflow \/ CopySpill \/ CallTrampoline
    \/ \E n \in FreePointers \cap BoxWords : ForeignCallback(n)
    \/ CallbackReturn
    \/ \E n \in FreePointers : ForeignReturn(n) \/ MoveStack(n)
    \/ RestoreAndReport \/ Decode
    \/ Done

Spec == Init /\ [][Next]_vars

-----------------------------------------------------------------------------
(* Properties *)

\* id is the number of the call, entry the host stack pointer invoke starts with,
\* top that of its caller, fsp the foreign one, local where the function's locals
\* are once it has called a callback.
Frame == [id : 1 .. MaxCalls, sig : Conventions, entry : 0 .. HostTop, top : 0 .. HostTop,
          fsp : BoxMin .. BoxTop, ran : BOOLEAN, local : 0 .. BoxTop]

\* Both stack pointers stay inside their stacks.
TypeOK ==
    /\ pc \in {"caller", "entry", "saved", "copied", "foreign", "callback", "back", "returned"}
    /\ Depth \in 0 .. MaxDepth /\ calls \in 0 .. MaxCalls
    /\ frames \in Seq(Frame)
    /\ DOMAIN reg = Registers
    /\ rsp \in 0 .. HostTop /\ DOMAIN host = 0 .. HostTop
    /\ DOMAIN lfi = {"rsp", "rax", "rdx"} /\ lfi.rsp \in BoxMin .. BoxTop
    /\ DOMAIN box = BoxWords /\ regsPtr \in {LfiRegs, Null}
    /\ DOMAIN results = 1 .. MaxCalls

\* The function gets the arguments of its own call, in the registers they were
\* passed in and on its own stack ("may contain function arguments that must be
\* preserved all the way through the call to `lfi_trampoline`").
ForeignSeesArguments ==
    pc = "foreign" /\ Top.local = 0 =>
        /\ \A k \in 1 .. Top.sig.areg : reg[ArgRegs[k]] = Word("arg", Top.id, k)
        /\ \A j \in 1 .. Top.sig.spill :
              box[lfi.rsp + (j - 1) * WordSize] = Word("stacked", Top.id, j)

\* "The stack is properly aligned for this function call at this point", and so
\* is the foreign one.
CallAligned ==
    pc = "foreign" /\ Top.local = 0 => (rsp + 1) % 2 = 0 /\ lfi.rsp % StackAlign = 0

\* invoke returns to its own caller, whose arguments are still on its stack, with
\* the foreign stack pointer of before, whatever has run in between.
CallerResumes ==
    pc = "returned" =>
        /\ host[rsp - 1] = Word("retaddr", Top.id, 0)
        /\ rsp = Top.entry + 1
        /\ \A j \in 1 .. Top.sig.spill : host[Top.entry + j] = Word("stacked", Top.id, j)
        /\ lfi.rsp = Top.fsp

\* A call that did not fit gives Err(StackOverflow), any other one what its own
\* function returned, and none finds its InvokeRes untouched.
ResultsReported ==
    pc = "returned" =>
        Outcome(results[Top.id]) =
            IF Top.ran
            THEN [kind |-> "Ok", words |-> <<Word("ret", Top.id, 0), Word("ret", Top.id, 1)>>]
            ELSE [kind |-> "Err", words |-> <<>>]

\* The function that has called a callback continues on its own stack with the
\* callback's answer, whatever calls the callback has made.
CallbackAnswers ==
    pc = "foreign" /\ Top.local # 0 =>
        /\ lfi.rsp = Top.local /\ box[Top.local] = Word("local", Top.id, 0)
        /\ reg["rax"] = Word("cbret", Top.id, 0) /\ reg["rdx"] = Word("cbret", Top.id, 1)

=============================================================================
