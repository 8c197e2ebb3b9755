# A verification model of omniglot-lfi

TLA+ modules for the LFI runtime of Omniglot: how a Rust host program calls into
a sandboxed C library, how the library calls back, what memory the host may
access meanwhile, and what happens when something fails or panics on the way.
TLC checks the modules on small instances, and TLAPS proves all of their safety
properties that hold for all instances. Line numbers below are those of
the mapped commit; `PROJECT.json` maps each definition to the lines it models.

## 1. Inventory

| Part | State it keeps | Operations | Module |
|---|---|---|---|
| Invoke assembly and InvokeRes (`amd64.rs:1316-1814`) | registers, the host and the foreign stack, `LFIRegs`, an `InvokeRes` per call | seven instances of `invoke_asm!`, `InvokeRes`, the return registers of a callback | `InvokeAsm` |
| Runtime (`omniglot-lfi/src/amd64.rs`) | `LFIRegs.rsp`, `callback_alloc_chain_head`, `callback_panic_object`, `invoke_lfi_regs_ptr`, LFI's callback slots, the thread's host stack | `allocate_stacked_mut`, `setup_callback`, `setup_static_callback`, `execute` and the `invoke` assembly, `lfi_callback_handler` | `StackLayout`, `Runtime` |
| AllocChain and AllowedRegions (`common.rs`, `lib.rs`) | a chain of elements on the host stack, a map of regions in its base | `insert`, `remove`, `is_valid`, `is_valid_mut` | `AllocChain` |
| Sandbox heap (`og_boxrt.c`, `amd64.rs`) | the library's heap, `OG_BOXRT_STATE`, the region map | eight `__wrap_` hooks, `og_boxrt_callback_allow`/`_revoke`, the runtime's `malloc`/`free` | `BoxHeap` |
| Engine table (`amd64.rs:97-231`) | `LFI_ENGINES`: two counters and a vector under a mutex that a panic poisons | `with_free_lfi_engine`, called by `from_lfi_lib_bytes` | `EnginePool` |
| fetch-prebuilt (`examples/fetch-prebuilt`) | a directory and a checksum file below the system's temporary directory | `fetch_prebuilt` | `PrebuiltCache` |
| libpng example (`og_lfi.rs`, `libpng_nojmp.c`, `unsafe_ffi.rs`) | I/O pointer, read function and jump buffer of the `png_struct`, the wrapper's state, a destination buffer with row pointers | `decode_png` sandboxed and native, read callback, setjmp and allow/revoke wrappers | `PngLayout`, `PngDecode`; the wrapper's regions in `BoxHeap` |
| Other examples, tests, benchmarks | none of their own | call the runtime | not modelled |
| Symbol resolution, bindings, build files | constant tables | look-ups | not modelled |

**How the parts interact.** `from_lfi_lib_bytes` takes a slot of the engine table,
loads the library, registers the two static callbacks and calls `og_boxrt_init`
through the ordinary call path. From then on the host nests calls on the runtime:
allocations on the foreign stack, callback registrations and calls to the
library. The library calls back through slots, and a callback may nest calls of
its own. Each level can add an element to the AllocChain, and `execute` leaves
the head of the chain in a cell for the next callback. Allocation hooks in the
library call the static callbacks, which change the region map that access
checks read. `decode_png` of the libpng example uses all of it at once: a registered
callback that the library calls while it reads, memory of the library that the host
has to be allowed to access, and errors that jump over library frames.

**What is hard, and what makes each part correct.**

* *Runtime.* One thread, but a reentrant protocol: the same few fields are written
  at every nesting depth, and a panic leaves each of four kinds of frames by a
  path other than the return. Correct means: allocations in use are disjoint and
  above the stack pointer of foreign code; a callback's scope is that of the call
  it interrupts; a panic keeps its payload and crosses foreign frames without
  letting code run; slots and the stack pointer are put back.
* *Invoke.* One piece of assembly serves seven calling conventions, entered with
  live argument registers, while callbacks enter it again before it returns.
  Correct means: arguments, results and stack pointers are those of the same call.
* *libpng.* Three parties share a `png_struct`. Correct means: no jump into a frame
  that has returned, no read through a state that is gone, a buffer laid out inside
  its bounds, an error that reaches the caller, and nothing left registered.
* *Heap and regions.* Two sides of the sandbox boundary keep a map each, and
  several operations on one side have to be followed by one on the other.
* *Engine table.* Threads interleave; LFI can fail, and a thread can panic, at each
  of several steps while the mutex is held.
* *Prebuilt cache.* A build can be killed between any two file operations, and
  other builds can use the same files.

The hazards are listed one by one, each at its line, in `PROJECT.json`.

## 2. Modules

* `StackLayout` has the pointer arithmetic on the foreign stack:
  `allocate_stacked_untracked_mut` with saturating subtraction, and the spill of
  stacked arguments in `invoke_asm!` with its carry and its signed comparison.
  Addresses are numbers modulo `AddrLimit` (2^64 in the code).
* `Runtime` has the calls of one runtime as a stack of frames, one action per way
  into and out of each call:

  | Code | Actions |
  |---|---|
  | `allocate_stacked_mut` | `AllocateStacked`, `AllocNoMem`, `AllocateReturn`, `AllocateUnwind` |
  | `setup_callback` | `SetupCallback`, `SetupInsufficientSlots`, `SetupReturn`, `SetupUnwind` |
  | `execute` | `Execute`, `ExecuteReturn` |
  | `invoke_asm!` | `Invoke`, `InvokeStackOverflow`, `TrampolineReturn` |
  | `lfi_callback_handler` | `CallbackEnter`, `CallbackReturn`, `CallbackUnwind` |
  | user code | `Panic`, `Catch`, `Exit` |

  An element of the AllocChain is named by the index of the frame that holds it,
  so that an index above the depth of the stack is a dangling pointer. Reading
  one, or calling a handler that was dropped, ends the behaviour in the mode
  `"undefined"`: nothing is claimed of what comes after, and whether this mode can
  be reached is a property of its own (`NeverUndefined`). `HandlersExclusive` says
  that no handler is entered while it runs.
* `InvokeAsm` refines one step of `Runtime`, the call of a foreign function, to the
  instructions that do it, and has the data that `Runtime` leaves out. Each word in
  a register or on a stack is tagged with what it is and the call it belongs to; the
  host stack is addressed in words, the foreign one in bytes. There is an action for
  each group of instructions between two jumps or calls:

  | Code | Actions |
  |---|---|
  | wrapper, `execute` up to `f()` | `CallInvoke` |
  | pushes, `mov r10`, LFIRegs pointer | `SaveContext` |
  | `sub`, `jc`, `cmp`, `jge`; label 150 | `Fits`; `StackOverflow` |
  | label 200: stash, `rep movsb` | `CopySpill` |
  | unstash, `call lfi_trampoline` | `CallTrampoline` |
  | after the call, up to `ret` | `RestoreAndReport` |
  | `lfi_callback_handler`, register side | `ForeignCallback`, `CallbackReturn` |
  | foreign function, host allocations | `ForeignReturn`, `MoveStack` |
  | end of `execute`, `encode_eferror` | `Decode` |
* `NestedCalls` is the abstract specification: calls that return one at a time,
  and a panic that pops them with its payload unchanged. `Runtime` implements it
  under the mapping at the end of the module.
* `AllocChain` has the region map and `is_valid_int` as operators, and `BoxHeap`
  the heap that goes with them. A chain there is a sequence of elements; a foreign
  library is well-behaved, so that the properties are about the bookkeeping and
  not about what a hostile library could do.
* `PngLayout` has the arithmetic of the destination buffer, and `PngDecode` the
  program around it: `IsPng`, `LibpngInit`, `SetupCallback`, `SetReadFn`,
  `ReadInfo`, `UseGiven`/`AllocateBuffer`, `WriteRowPointers`, `ReadImage`,
  `FreeState`, `Closure`, `Finish`, `NextImage` in the order of the source, with
  `ReadBegin`, `ReadReturn` and `ReadPanics` for a read that libpng asks for and
  `LibraryFails` for its `longjmp`. A variable says which way the program was built
  and what buffer it has; the two native functions of `unsafe_ffi.rs` are the setups
  with `host = "native"`. libpng is free to read, fill rows, fail and return, within
  the file.
* `EnginePool` has one step per call to LFI inside `with_free_lfi_engine`, any
  thread moving at any time, and panics where the code logs or allocates while it
  holds the mutex; they poison it. `SandboxPool` is its abstract specification: slots of
  engines taken one at a time, and a new engine only when all are full.
* `PrebuiltCache` has one step per file operation of `fetch_prebuilt`, and kills.
* `MCRuntime`, `MCInvokeAsm`, `MCBoxHeap` and `MCPngDecode` give values to constants
  that a .cfg cannot express. `RuntimeProofs`, `RuntimeNestingProofs`,
  `RuntimeMemoryProofs`, `InvokeAsmProofs`, `EnginePoolProofs`, `PngDecodeProofs`,
  `BoxHeapProofs` and `PrebuiltCacheProofs` hold the proofs.

Operators that carry the comment "Mutant" are variants of the definition that
follows them with a plausible mistake. No specification uses them; `PROJECT.json`
pairs each with the property that notices it.

## 3. Runs

| Run | What it shows | Result |
|---|---|---|
| `runtime_panics_end` | Where nothing catches panics, the stack pointer and the slots are always restored while user or foreign code runs, and every panic reaches the top of its thread (liveness). 267,815 states. | pass |
| `runtime_panics_caught` | With panics that any closure may catch: type invariant, allocations, alignment, panic bookkeeping, scopes, slots, the window of `invoke`, and the refinement of `NestedCalls`. 1,064,127 states. | pass |
| `runtime_stale_head` | A chain head that dangles is read. | violation |
| `runtime_dropped_handler` | A slot survives its handler. | violation |
| `runtime_reentered` | A handler is entered while it runs. | violation |
| `invoke_asm` | A call of each of 17 combinations of convention and stacked words, and inside its callback another of each: arguments, alignment, return addresses, results and stack pointers. 142,556 states. | pass |
| `engine_pool` | No engine is overbooked, slots and sandboxes are counted as LFI sees them, a poisoned table is left alone, calls end (liveness), `SandboxPool` is implemented. 69,357 states. | pass |
| `box_heap` | Also with caught panics of read callbacks: the region map is exactly the shared part of the heap and what such panics have left, access checks allow live memory and all of what is shared, the library aborts only for a known reason. 375,612 states. | pass |
| `prebuilt_cache` | Two builds, of which none writes while the other is under way: a checksum vouches for the directory, and a build that succeeds has what its manifest names. 87,254 states. | pass |
| `png_decode` | Every build, and every buffer but those of `png_overrun`: the layout, jumps and reads, access to read buffers, clean-up after an error. 2,442 states. | pass |
| `png_overrun` | The row pointers leave a buffer that `decode_png` allocated. | violation |
| `png_error_ignored` | The closure gets an image that was not read. | violation |

Each violation is a place where the code does something else than its comments say
or its types require; section 6 goes through them.

**Bounds and why they are enough.**

* *Runtime.* `MaxFrames` 6 (7 where nothing is caught) admits an allocation, a
  registration, a call, its callback and another call with its callback, the
  nesting at which each field is overwritten at an inner level and used again at
  the outer one. Three layouts (one with padding to an alignment, one whose
  size is no multiple of it, as no Rust type has), two spills (none, and one that runs over the end), three callback slots (one static,
  so that the other two run out), two panic payloads (so that one could be taken
  for the other). The stack has six addresses and `AddrLimit` is 16, so that
  allocation and spill overflow in both ways: below `BoxMin`, and below 0.
* *InvokeAsm.* Two calls inside each other are the least at which a nested call can
  overwrite what the outer one needs again. The conventions are AREG0 to AREG5 and
  Stacked, with none, one and two stacked words where there may be any, so that
  both parities occur and the copy has more than one word. Words have two bytes and
  the foreign stack pointer starts at four addresses, aligned and not, some of which
  have too little room below them. Registers, return address and result pointer are
  all told apart by their tags.
* *PngDecode.* Five images of one to three rows, and pointers of two bytes: the
  bytes of all rows are and are not a multiple of the alignment. Two of the files end
  too early, one in the header and one in the image. libpng reads in pieces of one
  and two bytes.
* *EnginePool.* Three threads with two attempts each fill two engines of two slots
  and make a third, with every failure in between.
* *BoxHeap.* Two blocks in three addresses, of size 0, 1 or 2, suffice for
  adjacency, reuse of an address with another size, and reallocation in place and
  elsewhere; two nested scopes for an inner and an outer element. One region left by
  a panic (`MaxStale`) is enough for it to be met by all that comes later: the block
  freed, its address used again, another read, another size. `AddrLimit` 9 is just above the sandbox, so that ranges reach past its end and wrap.
* *PrebuiltCache.* Two builds, two versions and three parts; how often each build
  begins and is killed is not bounded.

The bounds are the constants named `Max...`, and all are guards of the actions
that would pass them. Deadlock is checked in every run: where the system may stop
(a dead thread, no attempts left) there is an explicit stuttering action.

**Assumption of `prebuilt_cache`.** Its specification, `ExclusiveSpec`, has the
steps of `Next` that do not make one build write the cache while another is under
way; builds that only read it overlap freely. Nothing in `fetch_prebuilt` sees to
that. cargo locks its build directory, so it is so for one checkout; section 6 says
what happens with two.

**Fairness.** `Runtime!FairSpec` has weak fairness of the steps that the
runtime's own code takes without asking user or foreign code: a thread that is
scheduled executes them. `EnginePool!FairSpec` has weak fairness of each thread.
The mutex is not assumed fair: `CallsReturn` holds because every thread makes a
bounded number of attempts, so that no waiting thread can be overtaken for ever.
A host that makes runtimes endlessly on other threads could starve one.

## 4. Proofs

`RuntimeProofs` proves, for every stack size, alignment, set of layouts, spills,
slots, payloads and every depth of nesting:

* `TypeCorrect`, `AllocationsStayIntact`, `PanicBookkeepingHolds`, `ScopesExtend`,
  `HeadNeverMistaken` and `HandlersStayRegistered`, each the theorem that the
  property of that name in `Runtime` is an invariant.

All follow from one inductive invariant, `IInv`, of six parts: the type
invariant; `Shape` (a callback is directly above an execute, an execute is the
innermost call or has a callback above it); `StackInv` (each call starts where or
below the one under it runs, and `rsp` is below them all); `PanicInv` (an aborted
execute is the innermost one, and the panic object is occupied just for it);
`ChainInv`; and `HandlerInv`. The properties alone are not inductive. That a
dangling chain head is never mistaken for a live element, for instance, needs
`ChainInv`: every frame above an execute has a scope above that execute, so the
head an inner execute leaves behind is above each outer execute that will see it.
There is a lemma for each action, four general ones for how a step changes the
stack of frames (push, pop, edit, pop and edit), and lemmas for the arithmetic
that say which part of an allocation or a spill is below the old stack pointer.

`RuntimeNestingProofs` builds on `IInv`. `RuntimeNests` is the refinement of
`NestedCalls` at any depth: each step of the runtime pushes or pops one call, or
changes the status of the panic, or stutters. `InvokeInWindow` needs one more
invariant (the LFIRegs pointer is null unless some execute has yet to clear it).
`StackAlwaysRestored` and `NoHandlerDropped` assume `CatchIn = {}`: with a caught
panic both are false (section 6). Their invariant `RestoreInv` speaks of the states
in which no panic is under way, and such a state is never reached again from one in
which there is: every call saves the pointer that the call below it runs with
(`Restores`), and a registered slot is static or that of a `setup` frame
(`HasHandler`).

`PanicAdvances` is what a proof of `PanicReachesTop` can have here. While a panic is
under way (`InFlight`), every step that does not catch it leaves it under way and
lowers `Distance`, a number: three for each call on the stack, and up to three more
for how far the panic is on its way out of the innermost one. Only that some step is
taken, which is fairness and ENABLED, is left to TLC.

`RuntimeMemoryProofs` is about the allocations and their chain. Its lemma `StepCases`
says once for all actions that a step either adds one call to the stack (`Entered`)
or keeps the calls that it does not end, so that each invariant is proved for two
cases and not for nineteen actions.

* `AllocationsStayAligned` is an equivalence: an allocation is aligned exactly if its
  size is a multiple of its alignment, as the pointer is lowered by the remainder of
  the one before the size was subtracted (section 6). `LoweredAligned` is the fact
  about remainders that it rests on.
* `AllocationsStayVisible` is about two things at once: the scope of a closure
  reaches every host allocation, and nothing whose frame has returned. The inductive
  invariant has both for the scopes of *all* frames (`ReachInv`, `LinkInv`), because
  when a call returns the scope of an outer one is used again. `Chain` is the
  least set of elements closed under the links, and not a recursive function, so
  that a new element can be shown to add just itself.
* `FlatHandlersExclusive` and `FlatNeverUndefined` are the other side of the
  violations of section 6: as long as no callback calls the library (`Flat`), no
  handler is entered while it runs, and, where no panic is caught either, neither a
  dangling head nor a dropped handler is read. So `runtime_stale_head` and
  `runtime_reentered` need that call; `runtime_dropped_handler` needs a caught panic
  (`NoHandlerDropped`). `Flat` is a hypothesis about the behaviour, which the
  examples and benchmarks satisfy and `test_nested_callback_panic` does not.

`InvokeAsmProofs` proves all six invariants of `InvokeAsm` for every depth, every
number of calls and of stacked words, and any size of the two stacks. Its invariant
has two parts beside the types. `FramesInv` says of every call under way where its
frame is (`Placed`), that its stacked arguments and return address are still there
(`Arguments`), that what `invoke` pushed and the locals of the foreign function are
too (`InCallback`), and that each frame lies `HostReserve` words or more below the
one around it: this is what makes a nested call harmless. `TopInv` says for each
value of `pc` how far the innermost call is, which registers still hold arguments
and which are stashed. The lemma `FramesKept` does the common part of most steps: what
is written below the innermost frame changes no frame further out. `Operands`
computes the seven conventions' operands from the layout of the C call.

`EnginePoolProofs` proves the invariants of `EnginePool` and the refinement of
`SandboxPool` for any set of threads and any number of slots. The invariant is that
at most one thread is inside the mutex, what a thread inside knows of the table at
its step (`InSection`), and `SlotsMatchProcesses`; poisoning keeps the second part
true of a thread that has died. `SandboxesAreCounted` needs to know besides that a
process is made by the thread that will count it: `CountInv` says what the counter
lacks (`Uncounted`) at each step inside the mutex. `GuardNeverLeaks` says that
nobody outside of `with_free_lfi_engine` holds the mutex, on whichever path it has
left: with the fairness of the threads this is why `CallsReturn` holds.

`PngDecodeProofs` proves all six invariants of `PngDecode` for any images, counts
and buffer addresses, and that a build with `explicit_allow_revoke` never
decodes into a buffer that `decode_png` allocates itself (`MallocNeverDecodes`). `CallInv` ties
`pc` to what is set in the `png_struct`, allowed and registered; `LayoutInv` ties
the row pointers to the buffer. `LayoutSound` and `MallocNeverDecodes` are about what
keeps the row pointers inside the buffer: a buffer of the computed size, or a build
with `explicit_allow_revoke` only, in which nothing but the buffer is allowed. These
are the setups that `png_decode` checks, and `png_overrun` shows that one of the two
is needed: with `auto_allow_revoke` every block of the library is allowed, and the
array may lie behind the buffer in the next one (`RowArrayBehind`).
`CompleteUnlessFailed` says of `ClosureSeesImage`, which `png_error_ignored`
violates, that it holds in every behaviour in which `png_read_image` does not fail.

`BoxHeapProofs` proves all five invariants of `BoxHeap` for any heap, sizes, number
of blocks and depth of scopes. Its invariant has the disjoint blocks (`Apart`), what
a running read callback holds on to (`ReadInv`), what was allocated before
`og_boxrt_init` (`EarlyInv`), and the agreement of regions and shared blocks
(`RegionInv`). A panic of a read callback that the host catches leaves its region
behind, and the history variable `stale` remembers where, until the block that begins
there is freed (`StaleInv`); the properties except these regions and nothing
else. `SharedAlwaysReachable` assumes presets that
enable allowed regions, as all of the code's do, and `ValidAlwaysLive` a stack that
ends before the last address: `is_valid_int` saturates its additions there. Two
theorems are about `IsValid` alone, for any map and chain: what may be written may be
read (`MutableIsReadable`), and a part of a valid range is valid (`PartIsValid`). The
second excludes presets that allow the foreign stack, since the comparison with the
two ends of the stack does not have this property.

`PrebuiltCacheProofs` proves, for any number of builds, the types, and under
`ExclusiveSpec` that a checksum vouches for its directory and that a build that goes
on has its archive. The invariant says of each build what it knows of the cache at
its step; `CacheInvariance` shows that its own step keeps this (`OwnStep`), and that
another build's does too unless that one writes (`OtherStep`). For two builds that
write at once both are false (section 6), and `WarmCacheIsShared` says what is left
of the plain `Spec`: once the cache has the version that everyone asks for (`Warm`),
any number of builds use it at once, are killed, leave its files alone, and do not
panic. Only unpacking and another version need a lock.

The proofs rest on the named `ASSUME`s of the modules (the stack lies in the lower
half of the address space, as user space does; slots, payloads, layouts,
conventions and images are well-formed), which TLC evaluates in each run, and on
these assumptions of the model:

* The foreign library follows the C calling convention: it calls back with a
  stack pointer not above the one it was entered with, and not below the stack.
* `lfi_ctx_abort_status` tells about the trampoline that is returning. LFI is not
  part of the repository; were the status kept per context and not reset, the
  cross-check in `execute` would behave differently.
* A runtime is used by one thread, which Rust enforces by `!Sync`.
* The `omniglot` crate chooses AREG4 and AREG5 only without stacked arguments
  (`ConventionsAssumption`): their result pointer is at a fixed offset, which is
  wrong if stacked arguments come before it. The host stack has room for the frames
  that a call needs.
* libpng calls its read function only inside `png_read_info` and `png_read_image`,
  and not again before it has returned.

What stays with TLC: the liveness properties `PanicReachesTop` and `CallsReturn`,
because fairness and ENABLED are out of the prover's reach. Every invariant and
action property of a passing run is a theorem.

## 5. Plan

Done in this order: `StackLayout`, `Runtime`, `NestedCalls` with their runs and
proofs, since everything else is called through them; then `EnginePool`,
`AllocChain` with `BoxHeap`, and `PrebuiltCache`; then `PngDecode`, panics under the
engine table's mutex, and `InvokeAsm`, each with its proofs; and last the proofs of
the refinement of `NestedCalls`, of `BoxHeap` and of `PrebuiltCache`, and of what
`Runtime` does with allocations, their chain and nested callbacks.

To model next: several runtimes on one thread that share `lfi_invoke_info`.

To prove next: that `InvokeAsm` implements an abstract foreign call (arguments in,
one outcome out, nothing else changed).

## 6. Where code and comments differ

Shown by a run:

1. `execute` sets `callback_alloc_chain_head` (`amd64.rs:1361`) and does not put
   the old value back. After a callback that allocated and called the library from
   the allocation's scope, the next callback of the outer call follows a pointer
   into a finished stack frame (`runtime_stale_head`; the comment at 608 speaks of
   the latest `execute` as if it were the one in progress).
2. A panic in the closure of `setup_callback` drops the handler while the slot
   stays registered (1307 is skipped; `runtime_dropped_handler`; comment at 823).
3. A callback that calls the library, which calls the same slot again, enters its
   `FnMut` a second time while it is borrowed (648; `runtime_reentered`). That a call
   has the closure to itself is what the bound `C: FnMut` (566) and the `&mut` of
   line 648 require; the comment at 643 explains why there are two `&mut`s and does
   not consider a second entry. The closure's captured state is outside the model;
   that it is entered is not.
4. `decode_png` allocates room for rows and row pointers, and then aligns the array
   upwards by 1 to 8 bytes (`og_lfi.rs:271`). In a build with `explicit_allow_revoke`
   the upgrade of the pointer fails each time, so that no image can be decoded without
   a given buffer; in a build with neither feature the last pointer is written behind
   the end. With `auto_allow_revoke` it fails too, unless the image has one row, whose
   only pointer can lie right behind the buffer, and another block of the library
   is there (`png_overrun`). The benchmark's own computation has the missing bytes.
5. The result of `png_read_image_nojmp` is ignored (`og_lfi.rs:289`): after an error
   the closure gets rows that were not filled (`png_error_ignored`).

Seen while modelling, in the actions of the passing runs, without a run of its own:

* A panic in the closure of `allocate_stacked_mut` leaves the foreign stack pointer
  moved (1213 is skipped). As with 2, this matters only where user code catches the
  panic and uses the runtime again, which safe Rust permits with `AssertUnwindSafe`;
  hence `StackRestored` is checked where nothing is caught.
* The alignment is computed from the stack pointer before the size was subtracted
  (1191), so that a layout whose size is no multiple of its alignment is not
  aligned. Layouts of Rust types are not affected; `AllocationsAligned` says exactly
  which are, and `MCRuntime` has both kinds.
* The engine counter includes engines whose `lfi_linux_new` failed (198 against 172).
* The revoke of the libpng read wrapper is skipped when the host's callback panics
  (`libpng_nojmp.c:61`): where that is caught, its region stays allowed, also when the
  library has freed the block. `RegionsMatchHeap` counts it (`stale`); another block
  that the host gets at this address keeps the old length, and in an explicit build
  another read that begins there aborts the library.
* The prebuilt directory is shared and not locked: of two builds at once, one can
  remove or unpack the directory that the other has just found up to date.
* A library built with both `explicit_allow_revoke` and `auto_allow_revoke` aborts
  at the first read into a buffer that begins where an allocated block does
  (`libpng_nojmp.c:43`), which its `malloc` has allowed already.

## 7. Not modelled

LFI itself (loader, verifier, trampolines) and the `omniglot` crate are not in the
repository; their effects are modelled where this code uses them. The copy of the
argument registers into a `CallbackContext`, the bytes of a
result that is shorter than two registers, `into_result_stacked` (a copy
from memory, which generated bindings call), results in `xmm0`, and the bounds of the register
accessors are data without control flow. Symbols are looked up in constant
tables. The examples other than libpng, the tests and the benchmarks are
straight-line clients. The C `decode_png` of `libpng_nojmp.c` is called by
`decode_png_c_wrapped` of `unsafe_ffi.rs`, and that by nothing. The copies of
`og_boxrt.c` in the brotli, llhttp, sodium and libpng examples have the same hooks,
and the map spreads over them; those of the tests and benchmarks lack the null
test in `__wrap_free`. The hooks also test `allow_cb`, which every host registers
together with the initialisation that they test first. A panic of the logger in one of
the two static callbacks leaves the same state as other steps do (`BoxHeap` says
which). An outside program that deletes files of a prebuilt
directory and leaves its checksum is not modelled, as the code has no defence.
