----------------------------- MODULE PngDecode -----------------------------
(***************************************************************************)
(* decode_png of the libpng example (og_lfi.rs), the wrappers around       *)
(* libpng it calls (libpng_nojmp.c), and its read callback; and the two    *)
(* functions of unsafe_ffi.rs it is compared with, which link libpng       *)
(* natively.  libpng is not part of the repository: of its state the       *)
(* module has what these functions set, the I/O pointer, the read function *)
(* and the jump buffer of the png_struct, and while png_read_info or       *)
(* png_read_image run it asks for bytes, fills rows, fails or returns as   *)
(* it likes.                                                               *)
(*                                                                         *)
(* A program decodes one image after the other, each with a png_struct of  *)
(* its own, into a buffer of its own or a given one, as the benchmark      *)
(* does.  Scopes and stack pointers are in Runtime, the heap in BoxHeap.   *)
(***************************************************************************)
EXTENDS PngLayout

CONSTANTS
    Images,         \* see Image
    Setups,         \* [features, buffer] of the program: see Setup
    Counts,         \* how many bytes libpng asks for at a time
    DstAddresses    \* where the destination buffer may lie

\* header bytes of the file come before the image data, len of the stream bytes
\* that libpng wants are there.
Image == [rows : Nat \ {0}, cols : Nat \ {0}, header : Nat \ {0}, stream : Nat, len : Nat]

\* features: explicit_allow_revoke and auto_allow_revoke.  buffer: "malloc" for
\* no given buffer, else the length of the given one: as the benchmark computes
\* it ("sized"), or just what decode_png's assertion asks for ("exact").  Of the
\* native functions decode_png_preallocated is given one, and decode_png makes
\* a vector for each row ("rows").
Setup ==
    [host : {"lfi"}, features : SUBSET {"explicit", "auto"}, buffer : {"malloc", "sized", "exact"}]
    \cup [host : {"native"}, features : {{}}, buffer : {"sized", "exact", "rows"}]

ASSUME ImagesAssumption ==
    Images # {} /\ \A i \in Images : i \in Image /\ i.header < i.stream /\ i.len <= i.stream
ASSUME SetupsAssumption == Setups \subseteq Setup
ASSUME CountsAssumption == Counts \subseteq Nat \ {0}
ASSUME DstAssumption == DstAddresses \subseteq Nat \ {0}

VARIABLES
    setup,          \* how the program was built, and its buffer
    image,          \* the file it decodes
    pc,             \* what it does: see the actions
    cause,          \* of a panic
    io,             \* read function and I/O pointer of the png_struct
    state,          \* the png_read_fn_data_wrapped_t
    jmp,            \* the wrapper whose frame the jump buffer is of
    registered,     \* the callback is
    reading,        \* the read that is under way, if any
    readable,       \* the wrapper has allowed its buffer
    offset,         \* png_image_offset
    dst,            \* the destination buffer: [ptr, len]
    rowPtrs,        \* the row pointers written to it
    written         \* how many rows png_read_image has filled

config == <<setup, image>>
library == <<io, state, jmp>>
transfer == <<registered, reading, readable, offset>>
buffers == <<dst, rowPtrs, written>>
vars == <<config, pc, cause, library, transfer, buffers>>

NoIo == [fn |-> "none", ptr |-> "null"]
NoBuffer == [ptr |-> 0, len |-> 0]
Has(feature) == feature \in setup.features
Native == setup.host = "native"
Given == setup.buffer \in {"sized", "exact"}

\* The buffer of a read: an allocated block from its start, or a part inside one,
\* of libpng's heap, or memory of its stack.
Memory == {"block", "inside", "stack"}
Reading == {{}} \cup {{r} : r \in [count : Counts, memory : Memory]}

\* A given buffer is as long as the largest image needs.
GivenSize(i) ==
    IF setup.buffer = "sized" THEN BufferSize(i.rows, i.cols) ELSE AllocSize(i.rows, i.cols)

Init ==
    /\ setup \in Setups /\ image \in Images
    /\ pc = "start" /\ cause = "none"
    /\ io = NoIo /\ state = "none" /\ jmp = "none"
    /\ registered = FALSE /\ reading = {} /\ readable = FALSE /\ offset = 0
    /\ IF Given
       THEN \E p \in DstAddresses, i \in Images :
              /\ setup.buffer = "sized" => p % PtrSize = 0   \* the benchmark's assertion
              /\ \A j \in Images : GivenSize(j) <= GivenSize(i)
              /\ dst = [ptr |-> p, len |-> GivenSize(i)]
       ELSE dst = NoBuffer
    /\ rowPtrs = <<>> /\ written = 0

\* The host panics.  It unwinds out of setup_callback, where the callback stays
\* registered, and ends.
PanicWith(why) == pc' = "panicked" /\ cause' = why
Goto(from, to) == pc = from /\ pc' = to /\ UNCHANGED cause

-----------------------------------------------------------------------------
(* og_lfi.rs up to png_read_info_nojmp *)

\* is_png, and panic!("no PNG!").
IsPng ==
    /\ pc = "start"
    /\ \/ pc' = "init" /\ UNCHANGED cause
       \/ PanicWith("no_png")
    /\ UNCHANGED <<config, library, transfer, buffers>>

\* libpng_init, with its two assertions.
LibpngInit ==
    /\ pc = "init"
    /\ \/ pc' = "setup" /\ UNCHANGED cause
       \/ PanicWith("no_struct")
    /\ UNCHANGED <<config, library, transfer, buffers>>

SetupCallback ==
    /\ ~Native /\ Goto("setup", "set_read_fn")
    /\ registered' = TRUE /\ offset' = 0
    /\ UNCHANGED <<config, library, reading, readable, buffers>>

\* Mutant: the callback is registered without the wrapper.
SetReadFnPlain ==
    /\ ~Native /\ Goto("set_read_fn", "read_info")
    /\ io' = [fn |-> "host", ptr |-> "null"]
    /\ UNCHANGED <<config, state, jmp, transfer, buffers>>

\* png_set_read_fn, or png_set_read_fn_allow_revoke with its malloc.
SetReadFn ==
    /\ ~Native /\ Goto("set_read_fn", "read_info")
    /\ io' = IF Has("explicit") THEN [fn |-> "wrapper", ptr |-> "state"]
             ELSE [fn |-> "host", ptr |-> "null"]
    /\ state' = IF Has("explicit") THEN "live" ELSE state
    /\ UNCHANGED <<config, jmp, transfer, buffers>>

\* Its malloc returns null, which it writes to.
SetReadFnFaults ==
    /\ pc = "set_read_fn" /\ Has("explicit")
    /\ pc' = "crashed"
    /\ UNCHANGED <<config, cause, library, transfer, buffers>>

-----------------------------------------------------------------------------
(* unsafe_ffi.rs up to png_read_info *)

\* One setjmp for all calls of the function.
NativeSetjmp ==
    /\ Native /\ Goto("setup", "set_read_fn")
    /\ jmp' = "native"
    /\ UNCHANGED <<config, io, state, transfer, buffers>>

\* The I/O pointer is the address of the slice that callback advances.
NativeSetReadFn ==
    /\ Native /\ Goto("set_read_fn", "info")
    /\ io' = [fn |-> "host", ptr |-> "image"]
    /\ UNCHANGED <<config, state, jmp, transfer, buffers>>

-----------------------------------------------------------------------------
(* png_read_info_nojmp, png_read_image_nojmp: setjmp, then the call *)

ReadInfo ==
    /\ Goto("read_info", "info")
    /\ jmp' = "info"
    /\ UNCHANGED <<config, io, state, transfer, buffers>>

ReadImage ==
    /\ Goto("read_image", "image")
    /\ jmp' = "image"
    /\ UNCHANGED <<config, io, state, transfer, buffers>>

InLibrary == pc \in {"info", "image"} /\ reading = {}

\* What libpng reads before the function returns.
Wanted == IF pc = "info" THEN image.header ELSE image.stream

\* libpng wants count bytes in a buffer, and calls its read function.  The wrapper
\* allows the buffer and swaps the I/O pointer before it calls the host.  Where
\* malloc has allowed a region of the same start, og_boxrt_allow fails and aborts.
ReadBegin(count, memory) ==
    /\ InLibrary /\ offset + count <= Wanted
    /\ UNCHANGED <<config, cause, state, jmp, registered, offset, buffers>>
    /\ IF io.fn = "wrapper" /\ Has("auto") /\ memory = "block"
       THEN /\ pc' = "aborted"
            /\ UNCHANGED <<io, reading, readable>>
       ELSE IF \/ ~Native /\ ~registered
               \/ Native /\ io.ptr # "image"
               \/ io.fn = "wrapper" /\ (io.ptr # "state" \/ state # "live")
       THEN /\ pc' = "undefined"
            /\ UNCHANGED <<io, reading, readable>>
       ELSE /\ reading' = {[count |-> count, memory |-> memory]}
            /\ readable' = (io.fn = "wrapper")
            /\ io' = [io EXCEPT !.ptr = IF io.fn = "wrapper" THEN "null" ELSE @]
            /\ UNCHANGED pc

\* OGMutSlice::upgrade_from_ptr for the buffer of a read.
Accessible(read) ==
    \/ setup.features = {} \/ read.memory = "stack"
    \/ readable \/ Has("auto")

\* Mutant: copies without looking at the length of the file.
ReadReturnUnchecked ==
    /\ \E r \in reading : Accessible(r) /\ offset' = offset + r.count
    /\ reading' = {} /\ readable' = FALSE
    /\ io' = [io EXCEPT !.ptr = IF io.fn = "wrapper" THEN "state" ELSE @]
    /\ UNCHANGED <<config, pc, cause, state, jmp, registered, buffers>>

\* Mutant: the wrapper leaves its I/O pointer swapped.
ReadReturnUnrestored ==
    /\ \E r \in reading :
          /\ Accessible(r) /\ offset + r.count <= image.len
          /\ offset' = offset + r.count
    /\ reading' = {} /\ readable' = FALSE
    /\ UNCHANGED <<config, pc, cause, io, state, jmp, registered, buffers>>

\* The callback copies the bytes; the wrapper puts its I/O pointer back and
\* revokes the buffer.
ReadReturn ==
    /\ \E r \in reading :
          /\ Accessible(r) /\ offset + r.count <= image.len
          /\ offset' = offset + r.count
    /\ reading' = {} /\ readable' = FALSE
    /\ io' = [io EXCEPT !.ptr = IF io.fn = "wrapper" THEN "state" ELSE @]
    /\ UNCHANGED <<config, pc, cause, state, jmp, registered, buffers>>

\* The callback panics, and what comes after it in the sandbox never runs.  The
\* native one is an extern "C" function, which aborts the process.
ReadPanics ==
    /\ \E r \in reading :
          \/ ~Accessible(r) /\ PanicWith("read_buffer")
          \/ /\ Accessible(r) /\ offset + r.count > image.len
             /\ IF Native THEN pc' = "crashed" /\ UNCHANGED cause ELSE PanicWith("end_of_file")
    /\ reading' = {}
    /\ UNCHANGED <<config, library, registered, readable, offset, buffers>>

\* png_read_image fills the next row, once it has read enough for it.
FillRow ==
    /\ InLibrary /\ pc = "image"
    /\ written < image.rows
    /\ (written + 1) * (image.stream - image.header) <= (offset - image.header) * image.rows
    /\ written' = written + 1
    /\ UNCHANGED <<config, pc, cause, library, transfer, dst, rowPtrs>>

\* png_error: longjmp to where the wrapper returns false.  decode_png asserts
\* the result of the one, and does not look at that of the other.  The native
\* functions panic, or return an error that their caller unwraps.
LibraryFails ==
    /\ InLibrary
    /\ IF jmp # (IF Native THEN "native" ELSE pc) THEN pc' = "undefined" /\ UNCHANGED cause
       ELSE IF Native \/ pc = "info" THEN PanicWith("libpng")
       ELSE pc' = "release" /\ UNCHANGED cause
    /\ UNCHANGED <<config, library, transfer, buffers>>

ReadInfoReturns ==
    /\ InLibrary /\ offset = image.header
    /\ Goto("info", "size")
    /\ UNCHANGED <<config, library, transfer, buffers>>

ReadImageReturns ==
    /\ InLibrary /\ offset = image.stream /\ written = image.rows
    /\ Goto("image", IF Native THEN "done" ELSE "release")
    /\ UNCHANGED <<config, library, transfer, buffers>>

-----------------------------------------------------------------------------
(* og_lfi.rs, the rest of the closure *)

Needed == AllocSize(image.rows, image.cols)

\* The assertion on a given buffer's length.
UseGiven ==
    /\ pc = "size" /\ Given
    /\ IF dst.len >= Needed THEN pc' = "rows" /\ UNCHANGED cause
       ELSE PanicWith("too_small")
    /\ UNCHANGED <<config, library, transfer, buffers>>

\* The malloc argument, and the assertion on its result.
AllocateBuffer ==
    /\ pc = "size" /\ setup.buffer = "malloc"
    /\ \/ /\ pc' = "rows" /\ UNCHANGED cause
          /\ \E p \in DstAddresses : p % PtrSize = 0 /\ dst' = [ptr |-> p, len |-> Needed]
       \/ PanicWith("malloc") /\ UNCHANGED dst
    /\ UNCHANGED <<config, library, transfer, rowPtrs, written>>

\* The native decode_png has a vector for each row.
NativeRows ==
    /\ setup.buffer = "rows" /\ Goto("size", "image")
    /\ UNCHANGED <<config, library, transfer, buffers>>

\* The host may access the array of row pointers: all memory without a feature,
\* else the buffer, which the runtime's malloc has allowed.  No foreign stack is
\* in the chain, as no callback runs.
RowArrayAccessible ==
    \/ setup.features = {}
    \/ /\ dst.ptr <= RowArray(dst.ptr, image.rows, image.cols)
       /\ RowArrayEnd(dst.ptr, image.rows, image.cols) <= dst.ptr + dst.len

\* The array begins where the buffer ends, or later.  With auto_allow_revoke the
\* host may access it there too, if it is in another block of the library's.
RowArrayBehind ==
    Has("auto") /\ dst.ptr + dst.len <= RowArray(dst.ptr, image.rows, image.cols)

\* Mutant: the pointers are written without the upgrade.
WriteRowPointersUnchecked ==
    /\ Goto("rows", IF Native THEN "image" ELSE "read_image")
    /\ rowPtrs' = [i \in 1 .. image.rows |-> RowPointer(dst.ptr, image.cols, i - 1)]
    /\ UNCHANGED <<config, library, transfer, dst, written>>

\* upgrade_from_ptr, or its panic, and write_from_iter.  The native function
\* takes the address as it is.
WriteRowPointers ==
    /\ pc = "rows"
    /\ \/ /\ RowArrayAccessible \/ RowArrayBehind
          /\ pc' = IF Native THEN "image" ELSE "read_image"
          /\ UNCHANGED cause
          /\ rowPtrs' = [i \in 1 .. image.rows |-> RowPointer(dst.ptr, image.cols, i - 1)]
       \/ ~RowArrayAccessible /\ PanicWith("row_pointers") /\ UNCHANGED rowPtrs
    /\ UNCHANGED <<config, library, transfer, dst, written>>

\* Mutant: the state is freed after a successful read only.
FreeStateOnSuccess ==
    /\ Goto("release", "upgrade")
    /\ state' = IF Has("explicit") /\ written = image.rows THEN "freed" ELSE state
    /\ UNCHANGED <<config, io, jmp, transfer, buffers>>

\* png_free_read_fn_allow_revoke_state.  libpng keeps its pointer to it.
FreeState ==
    /\ Goto("release", "upgrade")
    /\ state' = IF Has("explicit") THEN "freed" ELSE state
    /\ UNCHANGED <<config, io, jmp, transfer, buffers>>

\* The second upgrade, and the call of f.
Closure ==
    /\ pc = "upgrade"
    /\ \/ (RowArrayAccessible \/ RowArrayBehind) /\ pc' = "closure" /\ UNCHANGED cause
       \/ ~RowArrayAccessible /\ PanicWith("row_pointers")
    /\ UNCHANGED <<config, library, transfer, buffers>>

\* f and setup_callback return.
Finish ==
    /\ Goto("closure", "done")
    /\ registered' = FALSE
    /\ UNCHANGED <<config, library, reading, readable, offset, buffers>>

\* libpng_destroy, and the next image.
NextImage ==
    /\ Goto("done", "start")
    /\ image' \in Images
    /\ io' = NoIo /\ jmp' = "none" /\ state' = "none"
    /\ dst' = IF Given THEN dst ELSE NoBuffer
    /\ rowPtrs' = <<>> /\ written' = 0 /\ offset' = 0
    /\ UNCHANGED <<setup, registered, reading, readable>>

-----------------------------------------------------------------------------
Terminated == pc \in {"panicked", "crashed", "aborted", "undefined"} /\ UNCHANGED vars

Next ==
    \/ IsPng \/ LibpngInit \/ SetupCallback \/ SetReadFn \/ SetReadFnFaults
    \/ NativeSetjmp \/ NativeSetReadFn
    \/ ReadInfo \/ ReadImage
    \/ \E count \in Counts, memory \in Memory : ReadBegin(count, memory)
    \/ ReadReturn \/ ReadPanics
    \/ FillRow \/ LibraryFails \/ ReadInfoReturns \/ ReadImageReturns
    \/ UseGiven \/ AllocateBuffer \/ NativeRows \/ WriteRowPointers
    \/ FreeState \/ Closure \/ Finish \/ NextImage
    \/ Terminated

Spec == Init /\ [][Next]_vars

-----------------------------------------------------------------------------
(* Properties *)

TypeOK ==
    /\ setup \in Setups /\ image \in Images
    /\ pc \in {"start", "init", "setup", "set_read_fn", "read_info", "info", "size", "rows",
               "read_image", "image", "release", "upgrade", "closure", "done",
               "panicked", "crashed", "aborted", "undefined"}
    /\ pc = "panicked" <=> cause # "none"
    /\ io \in [fn : {"none", "host", "wrapper"}, ptr : {"null", "state", "image"}]
    /\ state \in {"none", "live", "freed"} /\ jmp \in {"none", "info", "image", "native"}
    /\ registered \in BOOLEAN /\ readable \in BOOLEAN
    /\ reading \in Reading /\ offset \in 0 .. image.len
    /\ dst \in [ptr : Nat, len : Nat]
    /\ rowPtrs = <<>> \/ rowPtrs \in [1 .. image.rows -> Nat]
    /\ written \in 0 .. image.rows

\* The row pointers, and the rows they point to, are inside the destination
\* buffer and do not overlap ("Allocate a stacked buffer large enough to hold all
\* columns of all rows, plus a "row" of pointers to the other rows").
LayoutSound ==
    rowPtrs # <<>> =>
        LET array == RowArray(dst.ptr, image.rows, image.cols)
            end == RowArrayEnd(dst.ptr, image.rows, image.cols)
        IN  /\ array % PtrSize = 0 /\ end <= dst.ptr + dst.len
            /\ \A i \in DOMAIN rowPtrs :
                  dst.ptr <= rowPtrs[i] /\ rowPtrs[i] + image.cols <= array
            /\ \A i, j \in DOMAIN rowPtrs : i < j => rowPtrs[i] + image.cols <= rowPtrs[j]

\* libpng never jumps into a frame that has returned, and never calls its read
\* function with a state that is gone or with a callback that is not registered.
NeverUndefined == pc # "undefined"

\* The host can access every buffer libpng reads into, on its heap or its stack,
\* without a feature and with either one.  With both, og_boxrt_allow aborts
\* over a buffer that begins where a block does, which its malloc has allowed.
ReadBufferAccessible ==
    /\ cause # "read_buffer"
    /\ pc = "aborted" => setup.features = {"explicit", "auto"}

\* A buffer of the size get_decompressed_image_buffer_size computes is never too
\* small, and the host may access all of the row pointers in it.
SizedBufferDecodes ==
    setup.buffer = "sized" => cause \notin {"too_small", "row_pointers"}

\* After decode_png the callback is unregistered, its buffer revoked and its
\* state freed, whether or not libpng has failed.
DoneClean == pc = "done" => ~registered /\ ~readable /\ state # "live"

\* f is given a decoded image: the wrappers "convert setjmp error handling into
\* boolean return values", for the caller to see.
ClosureSeesImage == pc = "closure" => written = image.rows

=============================================================================
