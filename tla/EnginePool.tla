----------------------------- MODULE EnginePool -----------------------------
(***************************************************************************)
(* Threads that make runtimes (from_lfi_lib_bytes), and the table of LFI   *)
(* engines they share under the mutex LFI_ENGINES (with_free_lfi_engine,   *)
(* amd64.rs).                                                              *)
(*                                                                         *)
(* procs is LFI's own side: how many processes lfi_proc_new has made in    *)
(* each engine.  Nothing in the crate frees a process or a slot, so both   *)
(* only grow.                                                              *)
(*                                                                         *)
(* The functions log under the mutex, and the host chooses the logger: it  *)
(* may panic at each of these calls, which poisons the mutex.              *)
(***************************************************************************)
EXTENDS Integers, Sequences, FiniteSets

CONSTANTS
    Threads,
    NoThread,               \* the owner of a free mutex
    SandboxesPerEngine,     \* LFI_SANDBOXES_PER_ENGINE
    MaxAttempts             \* bound on the runtimes each thread tries to make

ASSUME ThreadsAssumption == NoThread \notin Threads
ASSUME CapacityAssumption == SandboxesPerEngine \in Nat \ {0}
ASSUME AttemptsAssumption == MaxAttempts \in Nat

VARIABLES
    lock,           \* the thread that holds the guard of LFI_ENGINES
    poisoned,       \* a guard has been dropped by a panic
    enginesCnt,     \* first member of the table, lfi_active_engines_cnt
    sandboxesCnt,   \* second member, lfi_active_sandboxes_cnt
    active,         \* third member: active_sandboxes of each entry
    procs,          \* LFI's processes in the engine of each entry
    pc,             \* what each thread does
    chosen,         \* the entry a thread has borrowed (free_lfi_engine)
    attempts        \* how many runtimes each thread has tried to make

vars == <<lock, poisoned, enginesCnt, sandboxesCnt, active, procs, pc, chosen, attempts>>
table == <<enginesCnt, sandboxesCnt, active>>

Resting == {"idle", "running", "failed"}
Holding == {"find", "linux", "proc", "count"}

Move(t, from, to) == pc[t] = from /\ pc' = [pc EXCEPT ![t] = to]

\* The guard is dropped, at the end of the function or by an early return.
Release == lock' = NoThread /\ UNCHANGED poisoned

\* The guard is dropped by a panic.
Poison == lock' = NoThread /\ poisoned' = TRUE

Init ==
    /\ lock = NoThread /\ poisoned = FALSE
    /\ enginesCnt = 0 /\ sandboxesCnt = 0 /\ active = <<>>
    /\ procs = <<>>
    /\ pc = [t \in Threads |-> "idle"]
    /\ chosen = [t \in Threads |-> 0]
    /\ attempts = [t \in Threads |-> 0]

-----------------------------------------------------------------------------
(* from_lfi_lib_bytes up to the mutex *)

Begin(t, next) ==
    /\ pc[t] \in Resting /\ attempts[t] < MaxAttempts
    /\ attempts' = [attempts EXCEPT ![t] = @ + 1]
    /\ pc' = [pc EXCEPT ![t] = next]
    /\ UNCHANGED <<lock, poisoned, table, procs, chosen>>

Start(t) == Begin(t, "lock")

\* A memory_access_cfg that omniglot was not built for: Err(InternalError).
Reject(t) == Begin(t, "failed")

\* Mutant: the table behind a poisoned mutex is used.
LockIgnoringPoison(t) ==
    /\ Move(t, "lock", "find")
    /\ lock = NoThread
    /\ lock' = t
    /\ UNCHANGED <<poisoned, table, procs, chosen, attempts>>

Lock(t) ==
    /\ Move(t, "lock", "find")
    /\ lock = NoThread /\ ~poisoned
    /\ lock' = t
    /\ UNCHANGED <<poisoned, table, procs, chosen, attempts>>

\* expect("LFI_ENGINES lock poisoned, cannot proceed!")
LockPoisoned(t) ==
    /\ Move(t, "lock", "failed")
    /\ lock = NoThread /\ poisoned
    /\ UNCHANGED <<lock, poisoned, table, procs, chosen, attempts>>

-----------------------------------------------------------------------------
(* with_free_lfi_engine, under the mutex *)

\* Mutant: an engine with all slots taken is still free.
IsFreeInclusive(e) == active[e] <= SandboxesPerEngine

IsFree(e) == active[e] < SandboxesPerEngine

\* Mutant: the guard is dropped before the closure runs.
FindFreeUnlocking(t) ==
    /\ Move(t, "find", "proc")
    /\ \E e \in DOMAIN active :
          /\ IsFree(e) /\ \A d \in 1 .. e - 1 : ~IsFree(d)
          /\ chosen' = [chosen EXCEPT ![t] = e]
    /\ Release
    /\ UNCHANGED <<table, procs, attempts>>

\* The first entry with a free slot.
FindFree(t) ==
    /\ Move(t, "find", "proc")
    /\ \E e \in DOMAIN active :
          /\ IsFree(e) /\ \A d \in 1 .. e - 1 : ~IsFree(d)
          /\ chosen' = [chosen EXCEPT ![t] = e]
    /\ UNCHANGED <<lock, poisoned, table, procs, attempts>>

NoneFree == \A e \in DOMAIN active : ~IsFree(e)

\* lfi_new returned null.
EngineNewFails(t) ==
    /\ Move(t, "find", "failed") /\ NoneFree
    /\ Release
    /\ UNCHANGED <<table, procs, chosen, attempts>>

EngineNew(t) ==
    /\ Move(t, "find", "linux") /\ NoneFree
    /\ enginesCnt' = enginesCnt + 1
    /\ UNCHANGED <<lock, poisoned, sandboxesCnt, active, procs, chosen, attempts>>

\* Mutant: the early return leaks the guard.
LinuxNewFailsLocked(t) ==
    /\ Move(t, "linux", "failed")
    /\ UNCHANGED <<lock, poisoned, table, procs, chosen, attempts>>

\* lfi_linux_new returned null; the engine has been counted.
LinuxNewFails(t) ==
    /\ Move(t, "linux", "failed")
    /\ Release
    /\ UNCHANGED <<table, procs, chosen, attempts>>

LinuxNew(t) ==
    /\ Move(t, "linux", "proc")
    /\ active' = Append(active, 0)
    /\ procs' = Append(procs, 0)
    /\ chosen' = [chosen EXCEPT ![t] = Len(active) + 1]
    /\ UNCHANGED <<lock, poisoned, enginesCnt, sandboxesCnt, attempts>>

\* The closure: lfi_proc_new in the engine it is passed.
ProcNew(t) ==
    /\ Move(t, "proc", "count")
    /\ procs' = [procs EXCEPT ![chosen[t]] = @ + 1]
    /\ UNCHANGED <<lock, poisoned, table, chosen, attempts>>

\* lfi_proc_new returned null: (false, Err(..)).
ProcNewFails(t) ==
    /\ Move(t, "proc", "failed")
    /\ Release
    /\ UNCHANGED <<table, procs, chosen, attempts>>

\* Mutant: the slot is marked, the sandbox not counted.
CountEntryOnly(t) ==
    /\ Move(t, "count", "load")
    /\ active' = [active EXCEPT ![chosen[t]] = @ + 1]
    /\ Release
    /\ UNCHANGED <<enginesCnt, sandboxesCnt, procs, chosen, attempts>>

\* Mutant: the slot is not marked as occupied.
CountUnmarked(t) ==
    /\ Move(t, "count", "load")
    /\ sandboxesCnt' = sandboxesCnt + 1
    /\ Release
    /\ UNCHANGED <<enginesCnt, active, procs, chosen, attempts>>

\* sandbox_created: mark the slot, then drop the guard.
Count(t) ==
    /\ Move(t, "count", "load")
    /\ active' = [active EXCEPT ![chosen[t]] = @ + 1]
    /\ sandboxesCnt' = sandboxesCnt + 1
    /\ Release
    /\ UNCHANGED <<enginesCnt, procs, chosen, attempts>>

\* The logger panics: about what has failed, about the engine made in the step
\* before, or about the process, which is not counted then.
LogPanics(t) ==
    /\ pc[t] \in {"linux", "proc", "count"} \/ (pc[t] = "find" /\ NoneFree)
    /\ Move(t, pc[t], "failed")
    /\ Poison
    /\ UNCHANGED <<table, procs, chosen, attempts>>

\* The logger panics about the sandbox that has just been counted.
CountPanics(t) ==
    /\ Move(t, "count", "failed")
    /\ active' = [active EXCEPT ![chosen[t]] = @ + 1]
    /\ sandboxesCnt' = sandboxesCnt + 1
    /\ Poison
    /\ UNCHANGED <<enginesCnt, procs, chosen, attempts>>

-----------------------------------------------------------------------------
(* The rest of from_lfi_lib_bytes, without the mutex *)

Load(t) ==
    /\ Move(t, "load", "running")
    /\ UNCHANGED <<lock, poisoned, table, procs, chosen, attempts>>

\* lfi_proc_load, lfi_thread_new or lfi_thread_run failed.  The process and
\* its slot stay taken.
LoadFails(t) ==
    /\ Move(t, "load", "failed")
    /\ UNCHANGED <<lock, poisoned, table, procs, chosen, attempts>>

-----------------------------------------------------------------------------
Done ==
    /\ \A t \in Threads : pc[t] \in Resting /\ attempts[t] = MaxAttempts
    /\ UNCHANGED vars

\* A call under way continues; whether there is another one is up to the host.
Continue(t) ==
    \/ Lock(t) \/ LockPoisoned(t)
    \/ FindFree(t) \/ EngineNewFails(t) \/ EngineNew(t)
    \/ LinuxNewFails(t) \/ LinuxNew(t)
    \/ ProcNew(t) \/ ProcNewFails(t) \/ Count(t)
    \/ LogPanics(t) \/ CountPanics(t)
    \/ Load(t) \/ LoadFails(t)

Next == Done \/ \E t \in Threads : Start(t) \/ Reject(t) \/ Continue(t)

Spec == Init /\ [][Next]_vars

\* Every thread is scheduled; the mutex itself need not be fair.
FairSpec == Spec /\ \A t \in Threads : WF_vars(Continue(t))

-----------------------------------------------------------------------------
(* Properties *)

TypeOK ==
    /\ lock \in Threads \cup {NoThread} /\ poisoned \in BOOLEAN
    /\ enginesCnt \in Nat /\ sandboxesCnt \in Nat
    /\ active \in Seq(0 .. SandboxesPerEngine)
    /\ procs \in Seq(0 .. SandboxesPerEngine)
    /\ pc \in [Threads -> Resting \cup Holding \cup {"lock", "load"}]
    /\ chosen \in [Threads -> Nat]
    /\ attempts \in [Threads -> 0 .. MaxAttempts]

\* LFI's processes, numbered in each engine.
Processes == UNION {{e} \X (1 .. procs[e]) : e \in DOMAIN procs}

\* Between two critical sections the table agrees with LFI: every process holds
\* one slot of its engine (with_free_lfi_engine, "marks one slot in the LFIEngine
\* as being occupied").
SlotsMatchProcesses == lock = NoThread /\ ~poisoned => active = procs

\* Every process is counted once, and a panic loses the count of one at most.
SandboxesCounted ==
    /\ lock = NoThread /\ ~poisoned => sandboxesCnt = Cardinality(Processes)
    /\ Cardinality(Processes) - sandboxesCnt \in {0, 1}

\* A panic under the mutex may leave a process that no slot is marked for. From
\* then on nobody touches the table or an engine ("LFI_ENGINES lock poisoned,
\* cannot proceed!").
PoisonStops == [][poisoned => UNCHANGED <<table, procs>>]_vars

\* "Accesses to the engines must hold this unique lock for the entire duration":
\* the entry a thread works on still has the slot it has seen free.
SlotStaysFree ==
    \A t \in Threads : pc[t] = "proc" =>
        lock = t /\ procs[chosen[t]] < SandboxesPerEngine

\* Every call to with_free_lfi_engine gets the mutex and returns, whichever of
\* LFI's functions fail for whichever threads.
CallsReturn == \A t \in Threads : pc[t] \in {"lock"} \cup Holding ~> pc[t] \in Resting

\* The table of engines is a SandboxPool, for any interleaving of the threads.
Pool == INSTANCE SandboxPool WITH used <- procs
IsSandboxPool == Pool!Spec

=============================================================================
