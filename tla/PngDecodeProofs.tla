-------------------------- MODULE PngDecodeProofs --------------------------
(* Safety of PngDecode, proved for every pointer size, image and buffer. *)
EXTENDS PngDecode, TLAPS

-----------------------------------------------------------------------------
(* Arithmetic *)

\* align_ptr returns an aligned pointer above the one it is given, by a whole
\* PtrSize at most.
LEMMA AlignPtrAligned ==
    ASSUME NEW p \in Nat
    PROVE  /\ AlignPtr(p) \in Nat
           /\ p < AlignPtr(p) /\ AlignPtr(p) <= p + PtrSize
           /\ AlignPtr(p) % PtrSize = 0
<1>1. PtrSize \in Nat \ {0}
    BY PtrSizeAssumption
<1>2. p % PtrSize \in 0 .. PtrSize - 1
    BY <1>1
<1>3. p = PtrSize * (p \div PtrSize) + (p % PtrSize)
    BY <1>1
<1>4. p \div PtrSize \in Nat
    BY <1>1
<1>5. AlignPtr(p) = PtrSize * ((p \div PtrSize) + 1)
    BY <1>1, <1>2, <1>3, <1>4 DEF AlignPtr
<1>6. ASSUME NEW k \in Nat PROVE (PtrSize * k) % PtrSize = 0
    BY <1>1
<1>7. AlignPtr(p) \in Nat /\ p < AlignPtr(p) /\ AlignPtr(p) <= p + PtrSize
    BY <1>1, <1>2 DEF AlignPtr
<1>8. (p \div PtrSize) + 1 \in Nat
    BY <1>4
<1>9. AlignPtr(p) % PtrSize = 0
    BY <1>5, <1>6, <1>8, Zenon
<1> QED
    BY <1>7, <1>9

\* A row ends where the next one begins, or before.
LEMMA ProductMonotone ==
    ASSUME NEW i \in Nat, NEW n \in Nat, NEW c \in Nat, i < n
    PROVE  i * c + c <= n * c
<1>1. PICK d \in Nat : n = i + 1 + d
    <2>1. n - i - 1 \in Nat /\ n = i + 1 + (n - i - 1)
        OBVIOUS
    <2> QED BY <2>1
<1>2. n * c = i * c + c + d * c
    BY <1>1
<1>3. d * c \in Nat /\ i * c \in Nat
    OBVIOUS
<1> QED BY <1>2, <1>3

-----------------------------------------------------------------------------
(* The inductive invariant *)

Dead == {"panicked", "crashed", "aborted", "undefined"}
Active == {"read_info", "info", "size", "rows", "read_image", "image"}

\* Who is registered, and what libpng finds in the png_struct, at each point.
CallInv ==
    /\ pc # "undefined"
    /\ Native => pc \notin {"read_info", "read_image", "release", "upgrade", "closure"}
    /\ registered => ~Native
    /\ pc \in {"start", "init", "setup", "done"} => ~registered
    /\ ~Native /\ pc \in Active \cup {"set_read_fn", "release", "upgrade", "closure"} => registered
    /\ reading # {} => pc \in {"info", "image"}
    /\ pc \notin Dead => (readable <=> reading # {} /\ io.fn = "wrapper")
    /\ ~Native /\ pc \in Active =>
          /\ io.fn = IF Has("explicit") THEN "wrapper" ELSE "host"
          /\ reading = {} /\ Has("explicit") => io.ptr = "state"
    /\ ~Native /\ pc \in Active \cup {"release"} /\ Has("explicit") => state = "live"
    /\ Native /\ pc \in {"set_read_fn", "info", "size", "rows", "image"} => jmp = "native"
    /\ Native /\ pc \in {"info", "size", "rows", "image"} =>
          io = [fn |-> "host", ptr |-> "image"]
    /\ ~Native /\ pc \in {"info", "image"} => jmp = pc
    /\ Native \/ ~Has("explicit") => state # "live"
    /\ pc \in {"upgrade", "closure", "done"} => state # "live"
    /\ \A r \in reading : Accessible(r)
    /\ cause # "read_buffer"
    /\ pc = "aborted" => setup.features = {"explicit", "auto"}

\* How long the buffer is, and where the row pointers are once they are written.
LayoutInv ==
    /\ Given => \A i \in Images : GivenSize(i) <= dst.len
    /\ rowPtrs # <<>> =>
          /\ setup.buffer # "rows"
          /\ RowArrayAccessible \/ RowArrayBehind
          /\ rowPtrs = [i \in 1 .. image.rows |-> RowPointer(dst.ptr, image.cols, i - 1)]
    /\ pc = "rows" => setup.buffer # "rows"
    /\ pc \in {"start", "init", "setup", "set_read_fn", "read_info", "info", "size", "rows"} =>
          rowPtrs = <<>>
    /\ setup.buffer = "malloc" /\ (pc = "rows" \/ rowPtrs # <<>>) => dst.len = Needed
    /\ SizedBufferDecodes

\* What a program is built from, in the terms the provers need.
LEMMA Constants ==
    ASSUME TypeOK
    PROVE  /\ setup.host \in {"lfi", "native"} /\ setup.features \subseteq {"explicit", "auto"}
           /\ setup.buffer \in {"malloc", "sized", "exact", "rows"}
           /\ Native => setup.features = {}
           /\ ~Native => setup.buffer # "rows"
           /\ setup.features # {} => Has("explicit") \/ Has("auto")
           /\ Has("explicit") /\ Has("auto") => setup.features = {"explicit", "auto"}
  <1>1. setup \in Setup
    BY SetupsAssumption DEF TypeOK
  <1> QED
    BY <1>1 DEF Setup, Native, Has

\* The dimensions of an image and the sizes computed from them are numbers.
LEMMA SizesAreNat ==
    ASSUME NEW i \in Images
    PROVE  /\ i.rows \in Nat \ {0} /\ i.cols \in Nat \ {0} /\ i.header \in Nat /\ i.stream \in Nat /\ i.len \in Nat
           /\ i.rows * i.cols \in Nat
           /\ AllocSize(i.rows, i.cols) \in Nat
           /\ BufferSize(i.rows, i.cols) \in Nat
           /\ AllocSize(i.rows, i.cols) <= BufferSize(i.rows, i.cols)
  <1>1. i.rows \in Nat \ {0} /\ i.cols \in Nat \ {0} /\ i.header \in Nat /\ i.stream \in Nat /\ i.len \in Nat
    BY ImagesAssumption DEF Image
  <1>2. i.rows * i.cols \in Nat /\ i.rows * PtrSize \in Nat /\ PtrSize \in Nat
    BY <1>1, PtrSizeAssumption
  <1> QED
    BY <1>1, <1>2 DEF AllocSize, BufferSize

\* The row array behind the rows of an image is aligned, starts behind the last
\* row, and ends at most PtrSize behind what AllocSize counts.
LEMMA RowArrayFacts ==
    ASSUME NEW i \in Images, NEW p \in Nat
    PROVE  /\ RowArray(p, i.rows, i.cols) \in Nat
           /\ RowArray(p, i.rows, i.cols) % PtrSize = 0
           /\ p + i.rows * i.cols < RowArray(p, i.rows, i.cols)
           /\ RowArrayEnd(p, i.rows, i.cols) \in Nat
           /\ RowArrayEnd(p, i.rows, i.cols) <= p + BufferSize(i.rows, i.cols)
           /\ p + AllocSize(i.rows, i.cols) < RowArrayEnd(p, i.rows, i.cols)
  <1> DEFINE q == p + i.rows * i.cols
             slots == i.rows * PtrSize
  <1>1. q \in Nat /\ slots \in Nat /\ PtrSize \in Nat
    BY SizesAreNat, PtrSizeAssumption
  <1>2. /\ AlignPtr(q) \in Nat /\ q < AlignPtr(q) /\ AlignPtr(q) <= q + PtrSize
        /\ AlignPtr(q) % PtrSize = 0
    BY <1>1, AlignPtrAligned
  <1>3. /\ RowArray(p, i.rows, i.cols) = AlignPtr(q)
        /\ RowArrayEnd(p, i.rows, i.cols) = AlignPtr(q) + slots
        /\ AllocSize(i.rows, i.cols) = i.rows * i.cols + slots
        /\ BufferSize(i.rows, i.cols) = i.rows * i.cols + slots + PtrSize
    BY DEF RowArray, RowArrayEnd, AllocSize, BufferSize
  <1>4. i.rows * i.cols \in Nat
    BY SizesAreNat
  <1> QED
    BY <1>1, <1>2, <1>3, <1>4

\* Each step keeps the types.
LEMMA TypeStep ==
    ASSUME TypeOK, CallInv, [Next]_vars
    PROVE  TypeOK'
<1> USE DEF TypeOK, config, library, transfer, buffers, PanicWith, Goto
<1>1. image \in Images /\ image.rows \in Nat \ {0} /\ image.cols \in Nat /\ image.header \in Nat /\ image.stream \in Nat /\ image.len \in Nat
    BY SizesAreNat
<1>2. CASE IsPng
    BY <1>2 DEF IsPng
<1>3. CASE LibpngInit
    BY <1>3 DEF LibpngInit
<1>4. CASE SetupCallback
    BY <1>4, <1>1 DEF SetupCallback
<1>5. CASE SetReadFn
    BY <1>5 DEF SetReadFn
<1>6. CASE SetReadFnFaults
    BY <1>6 DEF SetReadFnFaults
<1>7. CASE NativeSetjmp
    BY <1>7 DEF NativeSetjmp
<1>8. CASE NativeSetReadFn
    BY <1>8 DEF NativeSetReadFn
<1>9. CASE ReadInfo
    BY <1>9 DEF ReadInfo
<1>10. CASE ReadImage
    BY <1>10 DEF ReadImage
<1>11. CASE \E count \in Counts, memory \in Memory : ReadBegin(count, memory)
  <2>1. PICK count \in Counts, memory \in Memory : ReadBegin(count, memory)
    BY <1>11
  <2>2. {[count |-> count, memory |-> memory]} \in Reading
    BY <2>1 DEF Reading
  <2>3. ASSUME NEW v \in {"null", "state", "image"}
        PROVE  [io EXCEPT !.ptr = v] \in [fn : {"none", "host", "wrapper"}, ptr : {"null", "state", "image"}]
    OBVIOUS
  <2>6. io.ptr \in {"null", "state", "image"}
    OBVIOUS
  <2>4. pc # "panicked" /\ UNCHANGED <<config, cause, state, jmp, registered, offset, buffers>>
    BY <2>1 DEF ReadBegin, InLibrary
  <2>5. /\ pc' \in {pc, "aborted", "undefined"} /\ reading' \in Reading /\ readable' \in BOOLEAN
        /\ io' \in [fn : {"none", "host", "wrapper"}, ptr : {"null", "state", "image"}]
    BY <2>1, <2>2, <2>3, <2>6 DEF ReadBegin
  <2> QED
    BY <2>4, <2>5
<1>12. CASE ReadReturn
  <2>1. {} \in Reading
    BY DEF Reading
  <2>2. PICK r \in reading : offset + r.count <= image.len /\ offset' = offset + r.count
    BY <1>12 DEF ReadReturn
  <2>3. r.count \in Nat
    BY <2>2, CountsAssumption DEF Reading
  <2>4. offset' \in 0 .. image.len
    BY <1>1, <2>2, <2>3
  <2>5. io' \in [fn : {"none", "host", "wrapper"}, ptr : {"null", "state", "image"}]
    BY <1>12 DEF ReadReturn
  <2> QED
    BY <1>12, <2>1, <2>4, <2>5 DEF ReadReturn
<1>13. CASE ReadPanics
  <2>1. {} \in Reading
    BY DEF Reading
  <2>2. cause = "none"
    BY <1>13 DEF ReadPanics, CallInv
  <2>3. \/ pc' = "panicked" /\ cause' # "none"
        \/ pc' = "crashed" /\ cause' = cause
    BY <1>13 DEF ReadPanics
  <2>4. UNCHANGED <<config, library, registered, readable, offset, buffers>> /\ reading' = {}
    BY <1>13 DEF ReadPanics
  <2> QED
    BY <2>1, <2>2, <2>3, <2>4
<1>14. CASE FillRow
  <2>1. written + 1 \in 0 .. image.rows
    BY <1>14, <1>1 DEF FillRow
  <2> QED
    BY <1>14, <2>1 DEF FillRow
<1>15. CASE LibraryFails
    BY <1>15 DEF LibraryFails, InLibrary, Native
<1>16. CASE ReadInfoReturns
    BY <1>16 DEF ReadInfoReturns
<1>17. CASE ReadImageReturns
    BY <1>17 DEF ReadImageReturns
<1>18. CASE UseGiven
    BY <1>18 DEF UseGiven
<1>19. CASE AllocateBuffer
  <2>1. Needed \in Nat
    BY <1>1, SizesAreNat DEF Needed
  <2> QED
    BY <1>19, <2>1, DstAssumption DEF AllocateBuffer
<1>20. CASE NativeRows
    BY <1>20 DEF NativeRows
<1>21. CASE WriteRowPointers
  <2>1. \A i \in 1 .. image.rows : RowPointer(dst.ptr, image.cols, i - 1) \in Nat
    <3>1. SUFFICES ASSUME NEW i \in 1 .. image.rows
                   PROVE  RowPointer(dst.ptr, image.cols, i - 1) \in Nat
      OBVIOUS
    <3>2. i - 1 \in Nat /\ dst.ptr \in Nat
      BY <1>1
    <3>3. (i - 1) * image.cols \in Nat
      BY <1>1, <3>2
    <3> QED
      BY <3>2, <3>3 DEF RowPointer
  <2>2. /\ UNCHANGED <<config, library, transfer, dst, written>>
        /\ pc = "rows"
        /\ \/ pc' \in {"image", "read_image"} /\ cause' = cause
           \/ pc' = "panicked" /\ cause' = "row_pointers"
    BY <1>21 DEF WriteRowPointers
  <2>3. rowPtrs' = rowPtrs \/ rowPtrs' = [i \in 1 .. image.rows |-> RowPointer(dst.ptr, image.cols, i - 1)]
    BY <1>21 DEF WriteRowPointers
  <2>4. [i \in 1 .. image.rows |-> RowPointer(dst.ptr, image.cols, i - 1)] \in [1 .. image.rows -> Nat]
    BY <2>1
  <2>5. (rowPtrs = <<>> \/ rowPtrs \in [1 .. image.rows -> Nat])'
    BY <2>2, <2>3, <2>4
  <2> QED
    BY <2>2, <2>5
<1>22. CASE FreeState
    BY <1>22 DEF FreeState
<1>23. CASE Closure
    BY <1>23 DEF Closure
<1>24. CASE Finish
    BY <1>24 DEF Finish
<1>25. CASE NextImage
  <2>1. image' \in Images /\ image'.len \in Nat /\ image'.rows \in Nat
    BY <1>25, SizesAreNat DEF NextImage
  <2> QED
    BY <1>25, <2>1 DEF NextImage, NoBuffer, NoIo
<1>26. CASE UNCHANGED vars
    BY <1>26 DEF vars
<1> QED
    BY <1>1, <1>2, <1>3, <1>4, <1>5, <1>6, <1>7, <1>8, <1>9, <1>10, <1>11, <1>12, <1>13, <1>14, <1>15, <1>16, <1>17, <1>18, <1>19, <1>20, <1>21, <1>22, <1>23, <1>24, <1>25, <1>26 DEF Next, Terminated

\* Each step keeps what libpng relies on.
LEMMA CallStep ==
    ASSUME TypeOK, CallInv, [Next]_vars
    PROVE  CallInv'
<1> USE DEF CallInv, TypeOK, config, library, transfer, buffers, PanicWith, Goto, Dead, Active, Native, Has, Accessible
<1>1. /\ setup.host \in {"lfi", "native"} /\ setup.features \subseteq {"explicit", "auto"}
      /\ Native => setup.features = {}
      /\ ~Native => setup.buffer # "rows"
      /\ setup.features # {} => Has("explicit") \/ Has("auto")
      /\ Has("explicit") /\ Has("auto") => setup.features = {"explicit", "auto"}
    BY Constants
<1>2. CASE IsPng
    BY <1>2 DEF IsPng
<1>3. CASE LibpngInit
    BY <1>3 DEF LibpngInit
<1>4. CASE SetupCallback
    BY <1>4 DEF SetupCallback
<1>5. CASE SetReadFn
    BY <1>5 DEF SetReadFn
<1>6. CASE SetReadFnFaults
    BY <1>6 DEF SetReadFnFaults
<1>7. CASE NativeSetjmp
    BY <1>7 DEF NativeSetjmp
<1>8. CASE NativeSetReadFn
    BY <1>8 DEF NativeSetReadFn
<1>9. CASE ReadInfo
    BY <1>9 DEF ReadInfo
<1>10. CASE ReadImage
    BY <1>10 DEF ReadImage
<1>11. CASE \E count \in Counts, memory \in Memory : ReadBegin(count, memory)
  <2>1. PICK count \in Counts, memory \in Memory : ReadBegin(count, memory)
    BY <1>11
  <2>2. reading = {} /\ pc \in {"info", "image"} /\ readable = FALSE
    BY <2>1 DEF ReadBegin, InLibrary
  <2>3. /\ io.fn = IF Has("explicit") /\ ~Native THEN "wrapper" ELSE "host"
        /\ io.fn = "wrapper" => io.ptr = "state" /\ state = "live"
        /\ Native => io.ptr = "image"
        /\ Native \/ registered
    <3>1. CASE Native
      BY <2>2, <3>1
    <3>2. CASE ~Native
      BY <2>2, <3>2
    <3> QED
      BY <3>1, <3>2
  <2>4. UNCHANGED <<config, cause, state, jmp, registered, offset, buffers>>
    BY <2>1 DEF ReadBegin
  <2>5. CASE io.fn = "wrapper" /\ Has("auto") /\ memory = "block"
    <3>1. pc' = "aborted" /\ UNCHANGED <<io, reading, readable>>
      BY <2>1, <2>5 DEF ReadBegin
    <3> QED
      BY <1>1, <2>2, <2>3, <2>4, <2>5, <3>1
  <2>6. CASE ~(io.fn = "wrapper" /\ Has("auto") /\ memory = "block")
    <3>1. /\ reading' = {[count |-> count, memory |-> memory]}
          /\ io' = [io EXCEPT !.ptr = IF io.fn = "wrapper" THEN "null" ELSE io.ptr]
          /\ pc' = pc
      <4> HIDE DEF CallInv, TypeOK
      <4> QED
        BY <2>1, <2>3, <2>6 DEF ReadBegin
    <3>4. readable' = (io.fn = "wrapper")
      <4> HIDE DEF CallInv, TypeOK
      <4> QED
        BY <2>1, <2>3, <2>6, Zenon DEF ReadBegin
    <3>2. io'.fn = io.fn /\ (Native => io' = io)
      <4>1. io \in [fn : {"none", "host", "wrapper"}, ptr : {"null", "state", "image"}]
        OBVIOUS
      <4> HIDE DEF CallInv, TypeOK
      <4> QED
        BY <2>3, <3>1, <4>1
    <3>3. \A r \in reading' : Accessible(r)'
      BY <1>1, <2>3, <2>4, <3>1, <3>4
    <3> QED
      BY <1>1, <2>2, <2>3, <2>4, <3>1, <3>2, <3>3, <3>4
  <2> QED
    BY <2>5, <2>6
<1>12. CASE ReadReturn
  <2>1. reading # {} /\ reading' = {} /\ readable' = FALSE
    BY <1>12 DEF ReadReturn
  <2>2. /\ pc \in {"info", "image"} /\ io'.fn = io.fn
        /\ io.fn = "wrapper" => io'.ptr = "state"
        /\ Native => io' = io
    BY <1>12, <2>1 DEF ReadReturn
  <2>3. UNCHANGED <<config, pc, cause, state, jmp, registered, buffers>>
    BY <1>12 DEF ReadReturn
  <2> QED
    BY <2>1, <2>2, <2>3
<1>13. CASE ReadPanics
    BY <1>13 DEF ReadPanics
<1>14. CASE FillRow
    BY <1>14 DEF FillRow, InLibrary
<1>15. CASE LibraryFails
    BY <1>15 DEF LibraryFails, InLibrary
<1>16. CASE ReadInfoReturns
    BY <1>16 DEF ReadInfoReturns, InLibrary
<1>17. CASE ReadImageReturns
    BY <1>17 DEF ReadImageReturns, InLibrary
<1>18. CASE UseGiven
    BY <1>18 DEF UseGiven
<1>19. CASE AllocateBuffer
    BY <1>19 DEF AllocateBuffer
<1>20. CASE NativeRows
    BY <1>20, <1>1 DEF NativeRows
<1>21. CASE WriteRowPointers
    BY <1>21 DEF WriteRowPointers
<1>22. CASE FreeState
    BY <1>22 DEF FreeState
<1>23. CASE Closure
    BY <1>23 DEF Closure
<1>24. CASE Finish
    BY <1>24 DEF Finish
<1>25. CASE NextImage
    BY <1>25 DEF NextImage
<1>26. CASE UNCHANGED vars
    BY <1>26 DEF vars
<1> QED
    BY <1>1, <1>2, <1>3, <1>4, <1>5, <1>6, <1>7, <1>8, <1>9, <1>10, <1>11, <1>12, <1>13, <1>14, <1>15, <1>16, <1>17, <1>18, <1>19, <1>20, <1>21, <1>22, <1>23, <1>24, <1>25, <1>26 DEF Next, Terminated

\* A buffer of the benchmark's size holds the row pointers of every image.
LEMMA SizedAccessible ==
    ASSUME TypeOK, LayoutInv, setup.buffer = "sized"
    PROVE  /\ RowArrayAccessible
           /\ RowArrayEnd(dst.ptr, image.rows, image.cols) <= dst.ptr + dst.len
  <1>1. image \in Images /\ dst.ptr \in Nat /\ dst.len \in Nat
    BY DEF TypeOK
  <1>2. BufferSize(image.rows, image.cols) <= dst.len
    BY <1>1 DEF LayoutInv, Given, GivenSize
  <1>3. RowArrayEnd(dst.ptr, image.rows, image.cols) <= dst.ptr + BufferSize(image.rows, image.cols)
    BY <1>1, RowArrayFacts
  <1>4. RowArrayEnd(dst.ptr, image.rows, image.cols) \in Int /\ BufferSize(image.rows, image.cols) \in Nat
    BY <1>1, RowArrayFacts, SizesAreNat
  <1>5. RowArrayEnd(dst.ptr, image.rows, image.cols) <= dst.ptr + dst.len
    BY <1>1, <1>2, <1>3, <1>4
  <1>6. dst.ptr <= RowArray(dst.ptr, image.rows, image.cols)
    BY <1>1, RowArrayFacts, SizesAreNat
  <1> QED
    BY <1>5, <1>6 DEF RowArrayAccessible

\* Each step keeps the layout.
LEMMA LayoutStep ==
    ASSUME TypeOK, LayoutInv, [Next]_vars
    PROVE  LayoutInv'
<1> USE DEF LayoutInv, config, library, transfer, buffers, PanicWith, Goto, SizedBufferDecodes, Given, GivenSize, RowArrayAccessible, RowArrayBehind, Has, Needed
<1>1. TypeOK
    OBVIOUS
<1>2. CASE IsPng
    BY <1>2 DEF IsPng
<1>3. CASE LibpngInit
    BY <1>3 DEF LibpngInit
<1>4. CASE SetupCallback
    BY <1>4 DEF SetupCallback
<1>5. CASE SetReadFn
    BY <1>5 DEF SetReadFn
<1>6. CASE SetReadFnFaults
    BY <1>6 DEF SetReadFnFaults
<1>7. CASE NativeSetjmp
    BY <1>7 DEF NativeSetjmp
<1>8. CASE NativeSetReadFn
    BY <1>8 DEF NativeSetReadFn
<1>9. CASE ReadInfo
    BY <1>9 DEF ReadInfo
<1>10. CASE ReadImage
    BY <1>10 DEF ReadImage
<1>11. CASE \E count \in Counts, memory \in Memory : ReadBegin(count, memory)
    BY <1>11 DEF ReadBegin
<1>12. CASE ReadReturn
    BY <1>12 DEF ReadReturn
<1>13. CASE ReadPanics
    BY <1>13 DEF ReadPanics
<1>14. CASE FillRow
    BY <1>14 DEF FillRow
<1>15. CASE LibraryFails
    BY <1>15 DEF LibraryFails
<1>16. CASE ReadInfoReturns
    BY <1>16 DEF ReadInfoReturns
<1>17. CASE ReadImageReturns
    BY <1>17 DEF ReadImageReturns
<1>18. CASE UseGiven
  <2>1. GivenSize(image) <= dst.len /\ Needed \in Nat /\ Needed <= BufferSize(image.rows, image.cols)
    BY <1>18, SizesAreNat DEF UseGiven, Needed, TypeOK
  <2>2. setup.buffer = "sized" => Needed <= dst.len
    BY <2>1, SizesAreNat DEF TypeOK
  <2> QED
    BY <1>18, <2>2 DEF UseGiven
<1>19. CASE AllocateBuffer
  <2>1. setup.buffer = "malloc" /\ pc = "size" /\ pc' \in {"rows", "panicked"} /\ cause' \in {cause, "malloc"}
        /\ UNCHANGED <<setup, image, rowPtrs>>
    BY <1>19 DEF AllocateBuffer
  <2>2. pc' = "rows" => dst'.len = Needed /\ Needed' = Needed
    BY <1>19, <2>1 DEF AllocateBuffer, Needed
  <2> QED
    BY <2>1, <2>2
<1>20. CASE NativeRows
    BY <1>20 DEF NativeRows
<1>21. CASE WriteRowPointers
  <2>1. setup.buffer = "sized" => RowArrayAccessible
    BY SizedAccessible DEF TypeOK
  <2> QED
    BY <1>21, <2>1 DEF WriteRowPointers
<1>22. CASE FreeState
    BY <1>22 DEF FreeState
<1>23. CASE Closure
  <2>1. setup.buffer = "sized" => RowArrayAccessible
    BY SizedAccessible DEF TypeOK
  <2> QED
    BY <1>23, <2>1 DEF Closure
<1>24. CASE Finish
    BY <1>24 DEF Finish
<1>25. CASE NextImage
    BY <1>25 DEF NextImage
<1>26. CASE UNCHANGED vars
    BY <1>26 DEF vars
<1> QED
    BY <1>1, <1>2, <1>3, <1>4, <1>5, <1>6, <1>7, <1>8, <1>9, <1>10, <1>11, <1>12, <1>13, <1>14, <1>15, <1>16, <1>17, <1>18, <1>19, <1>20, <1>21, <1>22, <1>23, <1>24, <1>25, <1>26 DEF Next, Terminated

-----------------------------------------------------------------------------
(* Theorems *)

IInv == TypeOK /\ CallInv /\ LayoutInv

\* The first state satisfies all of it.
LEMMA InitIInv == Init => IInv
<1> SUFFICES ASSUME Init PROVE IInv
  OBVIOUS
<1> USE DEF Init
<1>1. image \in Images /\ image.len \in Nat /\ image.rows \in Nat
  BY SizesAreNat
<1>2. dst \in [ptr : Nat, len : Nat] /\ (Given => \A i \in Images : GivenSize(i) <= dst.len)
  <2>1. \A i \in Images : GivenSize(i) \in Nat
    BY SizesAreNat DEF GivenSize
  <2>2. CASE Given
    BY <2>1, <2>2, DstAssumption
  <2>3. CASE ~Given
    BY <2>3 DEF NoBuffer
  <2> QED
    BY <2>2, <2>3
<1>3. TypeOK
  <2>1. reading \in Reading /\ offset \in 0 .. image.len /\ written \in 0 .. image.rows
    BY <1>1 DEF Reading
  <2>2. io \in [fn : {"none", "host", "wrapper"}, ptr : {"null", "state", "image"}]
    BY DEF NoIo
  <2> QED
    BY <1>1, <1>2, <2>1, <2>2 DEF TypeOK
<1>4. CallInv
  BY <1>3 DEF CallInv, Dead, Active, NoIo
<1>5. LayoutInv
  BY <1>2 DEF LayoutInv, SizedBufferDecodes
<1> QED
  BY <1>3, <1>4, <1>5 DEF IInv

\* decode_png and what it calls keep the inductive invariant.
THEOREM Invariance == Spec => []IInv
<1>1. IInv /\ [Next]_vars => IInv'
  BY TypeStep, CallStep, LayoutStep DEF IInv
<1> QED
  BY InitIInv, <1>1, PTL DEF Spec

\* TypeOK: in particular no read passes the end of the file.
THEOREM TypeCorrect == Spec => []TypeOK
<1>1. IInv => TypeOK
  BY DEF IInv
<1> QED
  BY Invariance, <1>1, PTL

\* NeverUndefined: libpng never jumps into a frame that has returned, or calls a
\* read function that is gone.
THEOREM JumpsAndReadsAreDefined == Spec => []NeverUndefined
<1>1. IInv => NeverUndefined
  BY DEF IInv, CallInv, NeverUndefined
<1> QED
  BY Invariance, <1>1, PTL

\* ReadBufferAccessible: the callback can always access the buffer libpng reads
\* into, and only the two features together abort the library.
THEOREM ReadBuffersAreAccessible == Spec => []ReadBufferAccessible
<1>1. IInv => ReadBufferAccessible
  BY DEF IInv, CallInv, ReadBufferAccessible
<1> QED
  BY Invariance, <1>1, PTL

\* SizedBufferDecodes: the benchmark's buffer fits every image.
THEOREM SizedBuffersDecode == Spec => []SizedBufferDecodes
<1>1. IInv => SizedBufferDecodes
  BY DEF IInv, LayoutInv
<1> QED
  BY Invariance, <1>1, PTL

\* DoneClean: nothing of a decoded image is left registered, allowed or allocated.
THEOREM DecodingCleansUp == Spec => []DoneClean
<1>1. IInv => DoneClean
  <2> SUFFICES ASSUME IInv, pc = "done" PROVE ~registered /\ ~readable /\ state # "live"
    BY DEF DoneClean
  <2>1. reading = {} /\ readable \in BOOLEAN
    BY DEF IInv, CallInv, TypeOK
  <2> QED
    BY <2>1 DEF IInv, CallInv, Dead
<1> QED
  BY Invariance, <1>1, PTL

\* LayoutSound, where the host may access only what it has been given or the
\* buffer has the size that get_decompressed_image_buffer_size computes.
THEOREM LayoutIsSound ==
    ASSUME \A s \in Setups : s.features = {"explicit"} \/ s.buffer \in {"sized", "rows"}
    PROVE  Spec => []LayoutSound
<1>1. ASSUME IInv PROVE LayoutSound
  <2> DEFINE array == RowArray(dst.ptr, image.rows, image.cols)
             end == RowArrayEnd(dst.ptr, image.rows, image.cols)
  <2> SUFFICES ASSUME rowPtrs # <<>>
               PROVE  /\ array % PtrSize = 0 /\ end <= dst.ptr + dst.len
                      /\ \A i \in DOMAIN rowPtrs :
                            dst.ptr <= rowPtrs[i] /\ rowPtrs[i] + image.cols <= array
                      /\ \A i, j \in DOMAIN rowPtrs :
                            i < j => rowPtrs[i] + image.cols <= rowPtrs[j]
    BY DEF LayoutSound
  <2>1. image \in Images /\ dst.ptr \in Nat /\ dst.len \in Nat /\ setup \in Setups
    BY <1>1 DEF IInv, TypeOK
  <2>2. image.rows \in Nat /\ image.cols \in Nat
    BY <2>1, SizesAreNat
  <2>3. array \in Nat /\ array % PtrSize = 0 /\ dst.ptr + image.rows * image.cols < array
    BY <2>1, RowArrayFacts
  <2>4. end <= dst.ptr + dst.len
    <3>1. CASE setup.buffer = "sized"
      BY <1>1, <3>1, SizedAccessible DEF IInv
    <3>2. CASE setup.features = {"explicit"}
      BY <1>1, <3>2 DEF IInv, LayoutInv, RowArrayAccessible, RowArrayBehind, Has
    <3> QED
      BY <1>1, <2>1, <3>1, <3>2 DEF IInv, LayoutInv
  <2>5. /\ DOMAIN rowPtrs = 1 .. image.rows
        /\ \A i \in 1 .. image.rows : rowPtrs[i] = dst.ptr + (i - 1) * image.cols
    BY <1>1 DEF IInv, LayoutInv, RowPointer
  <2>6. ASSUME NEW i \in 1 .. image.rows
        PROVE  dst.ptr <= rowPtrs[i] /\ rowPtrs[i] + image.cols <= array
    <3>1. i - 1 \in Nat /\ i - 1 < image.rows
      BY <2>2
    <3>2. (i - 1) * image.cols + image.cols <= image.rows * image.cols
      BY <2>2, <3>1, ProductMonotone
    <3>3. (i - 1) * image.cols \in Nat /\ image.rows * image.cols \in Nat
      BY <2>2, <3>1
    <3>4. rowPtrs[i] = dst.ptr + (i - 1) * image.cols
      BY <2>5
    <3>5. PICK m \in Nat, n \in Nat : m = (i - 1) * image.cols /\ n = image.rows * image.cols
      BY <3>3
    <3>6. \A d, c, e \in Nat : m + c <= n /\ d + n < e => d <= d + m /\ (d + m) + c <= e
      OBVIOUS
    <3> HIDE DEF array
    <3> QED
      BY <2>1, <2>2, <2>3, <3>2, <3>4, <3>5, <3>6
  <2>7. ASSUME NEW i \in 1 .. image.rows, NEW j \in 1 .. image.rows, i < j
        PROVE  rowPtrs[i] + image.cols <= rowPtrs[j]
    <3>1. i - 1 \in Nat /\ j - 1 \in Nat /\ i - 1 < j - 1
      BY <2>2, <2>7
    <3>2. (i - 1) * image.cols + image.cols <= (j - 1) * image.cols
      BY <2>2, <3>1, ProductMonotone
    <3>3. (i - 1) * image.cols \in Nat /\ (j - 1) * image.cols \in Nat
      BY <2>2, <3>1
    <3>4. /\ rowPtrs[i] = dst.ptr + (i - 1) * image.cols
          /\ rowPtrs[j] = dst.ptr + (j - 1) * image.cols
      BY <2>5
    <3>5. PICK m \in Nat, n \in Nat : m = (i - 1) * image.cols /\ n = (j - 1) * image.cols
      BY <3>3
    <3>6. \A d, c \in Nat : m + c <= n => (d + m) + c <= d + n
      OBVIOUS
    <3> QED
      BY <2>1, <2>2, <3>2, <3>4, <3>5, <3>6
  <2> QED
    BY <2>3, <2>4, <2>5, <2>6, <2>7
<1> QED
  BY Invariance, <1>1, PTL

\* What decode_png asks malloc for is never enough: where the host may access
\* only what it has been given, no image is decoded into it.
THEOREM MallocNeverDecodes ==
    Spec => [](setup.buffer = "malloc" /\ setup.features = {"explicit"} => rowPtrs = <<>>)
<1>1. ASSUME IInv, setup.buffer = "malloc", setup.features = {"explicit"}
      PROVE  rowPtrs = <<>>
  <2> SUFFICES ASSUME rowPtrs # <<>> PROVE FALSE
    OBVIOUS
  <2>1. image \in Images /\ dst.ptr \in Nat
    BY <1>1 DEF IInv, TypeOK
  <2>2. dst.len = AllocSize(image.rows, image.cols)
    BY <1>1 DEF IInv, LayoutInv, Needed
  <2>3. RowArrayEnd(dst.ptr, image.rows, image.cols) <= dst.ptr + dst.len
    BY <1>1 DEF IInv, LayoutInv, RowArrayAccessible, RowArrayBehind, Has
  <2>4. /\ dst.ptr + AllocSize(image.rows, image.cols) < RowArrayEnd(dst.ptr, image.rows, image.cols)
        /\ RowArrayEnd(dst.ptr, image.rows, image.cols) \in Nat
        /\ AllocSize(image.rows, image.cols) \in Nat
    BY <2>1, RowArrayFacts, SizesAreNat
  <2> QED
    BY <2>1, <2>2, <2>3, <2>4
<1> QED
  BY Invariance, <1>1, PTL

-----------------------------------------------------------------------------
(* What the closure of decode_png sees *)

\* png_read_image_nojmp returns false.
ReadImageFails == pc = "image" /\ LibraryFails

\* After png_read_image_nojmp the image is complete.
ImageInv == pc \in {"release", "upgrade", "closure"} => written = image.rows

\* The closure of decode_png gets a complete image unless png_read_image has
\* failed: the result of its wrapper, which decode_png does not look at, is all
\* that is missing.
THEOREM CompleteUnlessFailed == Spec /\ [][~ReadImageFails]_vars => []ClosureSeesImage
<1>1. Init => ImageInv
  BY DEF Init, ImageInv
<1>2. ASSUME ImageInv, [Next]_vars, [~ReadImageFails]_vars
      PROVE  ImageInv'
  <2> USE <1>2 DEF ImageInv, Goto, PanicWith, config, library, transfer, buffers
  <2>1. CASE UNCHANGED vars
    BY <2>1 DEF vars
  <2>2. CASE IsPng \/ LibpngInit \/ SetupCallback \/ SetReadFn \/ SetReadFnFaults
             \/ NativeSetjmp \/ NativeSetReadFn \/ ReadInfo \/ ReadImage
    BY <2>2 DEF IsPng, LibpngInit, SetupCallback, SetReadFn, SetReadFnFaults, NativeSetjmp,
                NativeSetReadFn, ReadInfo, ReadImage
  <2>3. CASE \E count \in Counts, memory \in Memory : ReadBegin(count, memory)
    BY <2>3 DEF ReadBegin, InLibrary
  <2>4. CASE ReadReturn \/ ReadPanics
    BY <2>4 DEF ReadReturn, ReadPanics
  <2>5. CASE LibraryFails
    <3>1. pc' # pc
      BY <2>5 DEF LibraryFails, InLibrary
    <3>2. pc # "image"
      BY <2>5, <3>1 DEF ReadImageFails, vars
    <3> QED
      BY <2>5, <3>2 DEF LibraryFails, InLibrary
  <2>6. CASE FillRow \/ ReadInfoReturns \/ ReadImageReturns
    BY <2>6 DEF FillRow, ReadInfoReturns, ReadImageReturns, InLibrary
  <2>7. CASE UseGiven \/ AllocateBuffer \/ NativeRows \/ WriteRowPointers
    BY <2>7 DEF UseGiven, AllocateBuffer, NativeRows, WriteRowPointers
  <2>8. CASE FreeState \/ Closure \/ Finish \/ NextImage \/ Terminated
    BY <2>8 DEF FreeState, Closure, Finish, NextImage, Terminated, vars
  <2> QED
    BY <2>1, <2>2, <2>3, <2>4, <2>5, <2>6, <2>7, <2>8 DEF Next
<1>3. ImageInv => ClosureSeesImage
  BY DEF ImageInv, ClosureSeesImage
<1> QED
  BY <1>1, <1>2, <1>3, PTL DEF Spec

=============================================================================
