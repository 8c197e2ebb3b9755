-------------------------- MODULE EnginePoolProofs --------------------------
(***************************************************************************)
(* The safety properties of EnginePool for any number of threads, slots    *)
(* and attempts, and that it implements SandboxPool.  Everything follows   *)
(* from mutual exclusion and from what the thread that holds the mutex has *)
(* done to the table so far.                                               *)
(***************************************************************************)
EXTENDS EnginePool, SequenceTheorems, FiniteSetTheorems, TLAPS

\* The mutex: its holder is the thread between lock() and the drop of the guard,
\* and a poisoned mutex has no holder.
MutualExclusion ==
    /\ \A t \in Threads : pc[t] \in Holding <=> lock = t
    /\ lock # NoThread => ~poisoned

\* What a thread in the critical section knows of the table.
InSection(t) ==
    /\ pc[t] \in {"find", "linux", "proc"} => active = procs
    /\ pc[t] = "linux" => \A e \in DOMAIN active : active[e] = SandboxesPerEngine
    /\ pc[t] = "proc" => chosen[t] \in DOMAIN active /\ active[chosen[t]] < SandboxesPerEngine
    /\ pc[t] = "count" =>
        /\ chosen[t] \in DOMAIN active
        /\ active[chosen[t]] < SandboxesPerEngine
        /\ procs = [active EXCEPT ![chosen[t]] = @ + 1]

IInv ==
    /\ TypeOK
    /\ MutualExclusion
    /\ \A t \in Threads : InSection(t)
    /\ SlotsMatchProcesses


\* A slot of a table may be taken when it is free, and a full table may grow.
LEMMA TableUpdates ==
    ASSUME NEW s \in Seq(0 .. SandboxesPerEngine)
    PROVE  /\ \A e \in DOMAIN s : s[e] < SandboxesPerEngine =>
                  [s EXCEPT ![e] = @ + 1] \in Seq(0 .. SandboxesPerEngine)
           /\ Append(s, 0) \in Seq(0 .. SandboxesPerEngine)
           /\ Len(s) \in Nat /\ DOMAIN s = 1 .. Len(s)
           /\ \A e \in DOMAIN s : s[e] \in 0 .. SandboxesPerEngine
  <1>1. 0 \in 0 .. SandboxesPerEngine
    BY CapacityAssumption
  <1>2. ASSUME NEW e \in DOMAIN s, s[e] < SandboxesPerEngine
        PROVE  [s EXCEPT ![e] = @ + 1] \in Seq(0 .. SandboxesPerEngine)
    <2>1. s[e] + 1 \in 0 .. SandboxesPerEngine
      BY <1>2, CapacityAssumption
    <2> QED
      BY <2>1
  <1>3. Append(s, 0) \in Seq(0 .. SandboxesPerEngine)
    BY <1>1
  <1>4. Len(s) \in Nat /\ DOMAIN s = 1 .. Len(s)
    OBVIOUS
  <1>5. ASSUME NEW e \in DOMAIN s PROVE s[e] \in 0 .. SandboxesPerEngine
    BY <1>4, ElementOfSeq, Zenon
  <1> QED
    BY <1>2, <1>3, <1>4, <1>5

LEMMA InitIInv == Init => IInv
  <1> SUFFICES ASSUME Init PROVE IInv
    OBVIOUS
  <1> USE ThreadsAssumption, CapacityAssumption, AttemptsAssumption DEF Init
  <1>1. \A t \in Threads : pc[t] = "idle" /\ lock # t
    OBVIOUS
  <1>2. <<>> \in Seq(0 .. SandboxesPerEngine)
    OBVIOUS
  <1>3. TypeOK
    <2>1. pc \in [Threads -> Resting \cup Holding \cup {"lock", "load"}]
      BY DEF Resting
    <2>2. chosen \in [Threads -> Nat] /\ attempts \in [Threads -> 0 .. MaxAttempts]
      OBVIOUS
    <2> QED
      BY <1>2, <2>1, <2>2 DEF TypeOK
  <1>4. MutualExclusion /\ \A t \in Threads : InSection(t)
    BY <1>1 DEF MutualExclusion, InSection, Holding
  <1> QED
    BY <1>3, <1>4 DEF IInv, SlotsMatchProcesses

\* A thread that begins a call holds nothing and has borrowed no entry.
LEMMA BeginIInv ==
    ASSUME IInv, NEW t \in Threads, NEW next \in {"lock", "failed"}, Begin(t, next)
    PROVE  IInv'
  <1>1. /\ \A u \in Threads : u # t => pc'[u] = pc[u]
        /\ pc'[t] = next /\ pc[t] \notin Holding /\ next \notin Holding
    BY DEF Begin, IInv, TypeOK, Resting, Holding
  <1>2. UNCHANGED <<lock, poisoned, enginesCnt, sandboxesCnt, active, procs, chosen>>
    BY DEF Begin, table
  <1>3. pc' \in [Threads -> Resting \cup Holding \cup {"lock", "load"}]
    BY DEF Begin, IInv, TypeOK, Resting
  <1>4. attempts' \in [Threads -> 0 .. MaxAttempts]
    BY AttemptsAssumption DEF Begin, IInv, TypeOK
  <1>5. TypeOK'
    BY <1>2, <1>3, <1>4 DEF IInv, TypeOK
  <1>6. MutualExclusion'
    BY <1>1, <1>2 DEF IInv, MutualExclusion
  <1>7. \A u \in Threads : InSection(u)'
    BY <1>1, <1>2 DEF IInv, InSection, Holding
  <1> QED
    BY <1>2, <1>5, <1>6, <1>7 DEF IInv, SlotsMatchProcesses

\* Every step keeps the invariant, whichever thread takes it.
LEMMA NextIInv == IInv /\ [Next]_vars => IInv'
  <1> SUFFICES ASSUME IInv, [Next]_vars PROVE IInv'
    OBVIOUS
  <1> USE ThreadsAssumption, CapacityAssumption, AttemptsAssumption
  <1>1. CASE UNCHANGED vars
    BY <1>1 DEF vars, table, IInv, TypeOK, MutualExclusion, InSection, SlotsMatchProcesses, Resting, Holding
  <1>2. ASSUME NEW t \in Threads, Start(t) \/ Reject(t) \/ Continue(t) PROVE IInv'
    <2> USE TableUpdates
    <2>1. CASE Start(t)
      BY <2>1, BeginIInv DEF Start
    <2>2. CASE Reject(t)
      BY <2>2, BeginIInv DEF Reject
    <2>3. CASE Lock(t)
      BY <2>3 DEF Lock, IInv, TypeOK, MutualExclusion, InSection, SlotsMatchProcesses, Resting, Holding, Move, table
    <2>4. CASE LockPoisoned(t)
      BY <2>4 DEF LockPoisoned, IInv, TypeOK, MutualExclusion, InSection, SlotsMatchProcesses, Resting, Holding, Move, table
    <2>5. CASE FindFree(t)
      <3>1. PICK e \in DOMAIN active : IsFree(e) /\ chosen' = [chosen EXCEPT ![t] = e]
        BY <2>5 DEF FindFree
      <3>2. /\ pc[t] = "find" /\ pc' = [pc EXCEPT ![t] = "proc"]
            /\ UNCHANGED <<lock, poisoned, enginesCnt, sandboxesCnt, active, procs, attempts>>
        BY <2>5 DEF FindFree, Move, table
      <3>3. e \in Nat
        BY DEF IInv, TypeOK
      <3>4. TypeOK'
        BY <3>1, <3>2, <3>3 DEF IInv, TypeOK, Holding
      <3>5. pc'[t] = "proc" /\ chosen'[t] = e /\ lock = t
        BY <3>1, <3>2 DEF IInv, TypeOK, MutualExclusion, Holding
      <3>6. \A u \in Threads : u # t => pc'[u] = pc[u] /\ chosen'[u] = chosen[u]
        BY <3>1, <3>2 DEF IInv, TypeOK
      <3>7. MutualExclusion'
        BY <3>2, <3>5, <3>6 DEF IInv, MutualExclusion, Holding
      <3>8. active = procs
        BY <3>2 DEF IInv, InSection
      <3>9. InSection(t)'
        BY <3>1, <3>2, <3>5, <3>8 DEF InSection, IsFree
      <3>10. \A u \in Threads : u # t => InSection(u)'
        BY <3>2, <3>6 DEF IInv, InSection
      <3> QED
        BY <3>2, <3>4, <3>7, <3>8, <3>9, <3>10 DEF IInv, SlotsMatchProcesses
    <2>6. CASE EngineNewFails(t)
      BY <2>6 DEF EngineNewFails, Release, IInv, TypeOK, MutualExclusion, InSection, SlotsMatchProcesses, Resting, Holding, Move, table
    <2>7. CASE EngineNew(t)
      BY <2>7 DEF EngineNew, NoneFree, IsFree, IInv, TypeOK, MutualExclusion, InSection, SlotsMatchProcesses, Resting, Holding, Move, table
    <2>8. CASE LinuxNewFails(t)
      BY <2>8 DEF LinuxNewFails, Release, IInv, TypeOK, MutualExclusion, InSection, SlotsMatchProcesses, Resting, Holding, Move, table
    <2>9. CASE LinuxNew(t)
      BY <2>9 DEF LinuxNew, IInv, TypeOK, MutualExclusion, InSection, SlotsMatchProcesses, Resting, Holding, Move, table
    <2>10. CASE ProcNew(t)
      BY <2>10 DEF ProcNew, IInv, TypeOK, MutualExclusion, InSection, SlotsMatchProcesses, Resting, Holding, Move, table
    <2>11. CASE ProcNewFails(t)
      BY <2>11 DEF ProcNewFails, Release, IInv, TypeOK, MutualExclusion, InSection, SlotsMatchProcesses, Resting, Holding, Move, table
    <2>12. CASE Count(t)
      <3>1. /\ chosen[t] \in DOMAIN active /\ active[chosen[t]] < SandboxesPerEngine
            /\ active' = procs /\ procs' = procs
            /\ lock = t /\ lock' = NoThread
        BY <2>12 DEF Count, Release, IInv, TypeOK, MutualExclusion, InSection, Holding, Move
      <3>2. TypeOK'
        <4>1. pc' \in [Threads -> Resting \cup Holding \cup {"lock", "load"}]
          BY <2>12 DEF Count, Release, IInv, TypeOK, Resting, Move
        <4>2. sandboxesCnt' \in Nat /\ lock' = NoThread /\ poisoned' \in BOOLEAN
          BY <2>12 DEF Count, Release, IInv, TypeOK
        <4>3. UNCHANGED <<enginesCnt, chosen, attempts>>
          BY <2>12 DEF Count, Release
        <4> QED
          BY <3>1, <4>1, <4>2, <4>3 DEF IInv, TypeOK
      <3>3. \A u \in Threads : pc'[u] \notin Holding
        BY <2>12, <3>1 DEF Count, Release, IInv, TypeOK, MutualExclusion, Holding, Move
      <3>4. MutualExclusion'
        BY <3>1, <3>3 DEF MutualExclusion
      <3>5. \A u \in Threads : InSection(u)'
        BY <3>3 DEF InSection, Holding
      <3> QED
        BY <3>1, <3>2, <3>4, <3>5 DEF IInv, SlotsMatchProcesses
    <2>13. CASE LogPanics(t)
      BY <2>13 DEF LogPanics, Poison, IInv, TypeOK, MutualExclusion, InSection, SlotsMatchProcesses, Resting, Holding, Move, table
    <2>14. CASE CountPanics(t)
      <3>1. /\ chosen[t] \in DOMAIN active /\ active[chosen[t]] < SandboxesPerEngine
            /\ active' = procs /\ procs' = procs
            /\ lock = t /\ lock' = NoThread
        BY <2>14 DEF CountPanics, Poison, IInv, TypeOK, MutualExclusion, InSection, Holding, Move
      <3>2. TypeOK'
        <4>1. pc' \in [Threads -> Resting \cup Holding \cup {"lock", "load"}]
          BY <2>14 DEF CountPanics, Poison, IInv, TypeOK, Resting, Move
        <4>2. sandboxesCnt' \in Nat /\ lock' = NoThread /\ poisoned' \in BOOLEAN
          BY <2>14 DEF CountPanics, Poison, IInv, TypeOK
        <4>3. UNCHANGED <<enginesCnt, chosen, attempts>>
          BY <2>14 DEF CountPanics, Poison
        <4> QED
          BY <3>1, <4>1, <4>2, <4>3 DEF IInv, TypeOK
      <3>3. \A u \in Threads : pc'[u] \notin Holding
        BY <2>14, <3>1 DEF CountPanics, Poison, IInv, TypeOK, MutualExclusion, Holding, Move
      <3>4. MutualExclusion'
        BY <3>1, <3>3 DEF MutualExclusion
      <3>5. \A u \in Threads : InSection(u)'
        BY <3>3 DEF InSection, Holding
      <3> QED
        BY <3>1, <3>2, <3>4, <3>5 DEF IInv, SlotsMatchProcesses
    <2>15. CASE Load(t)
      BY <2>15 DEF Load, IInv, TypeOK, MutualExclusion, InSection, SlotsMatchProcesses, Resting, Holding, Move, table
    <2>16. CASE LoadFails(t)
      BY <2>16 DEF LoadFails, IInv, TypeOK, MutualExclusion, InSection, SlotsMatchProcesses, Resting, Holding, Move, table
    <2> QED
      BY <1>2, <2>1, <2>2, <2>3, <2>4, <2>5, <2>6, <2>7, <2>8, <2>9, <2>10, <2>11, <2>12, <2>13, <2>14, <2>15, <2>16 DEF Continue
  <1> QED
    BY <1>1, <1>2 DEF Next, Done

\* IInv holds in every state, so the conjuncts of it that EnginePool checks do.
THEOREM Invariance == Spec => []IInv
  <1> QED
    BY InitIInv, NextIInv, PTL DEF Spec

\* The guard of LFI_ENGINES is never leaked, so that the mutex is held only by a
\* thread that is in with_free_lfi_engine, and by one at a time: on every early
\* return, on each failure of LFI and after a panic it is free or poisoned.
THEOREM GuardNeverLeaks == Spec => []MutualExclusion
  <1>1. IInv => MutualExclusion
    BY DEF IInv
  <1> QED
    BY <1>1, Invariance, PTL

\* No entry of the table, and no engine, has more sandboxes than slots: the
\* types of with_free_lfi_engine's counters hold for every number of threads.
THEOREM TypeCorrect == Spec => []TypeOK
  <1>1. IInv => TypeOK
    BY DEF IInv
  <1> QED
    BY <1>1, Invariance, PTL

\* Whenever nobody is in with_free_lfi_engine and no panic has left it, the
\* table agrees with LFI on how many slots of each engine are taken.
THEOREM SlotsMatch == Spec => []SlotsMatchProcesses
  <1>1. IInv => SlotsMatchProcesses
    BY DEF IInv
  <1> QED
    BY <1>1, Invariance, PTL

\* The slot that with_free_lfi_engine found is still free when its closure makes
\* the process, because the mutex is held across the closure.
THEOREM FoundSlotStaysFree == Spec => []SlotStaysFree
  <1>1. IInv => SlotStaysFree
    BY DEF IInv, MutualExclusion, InSection, SlotStaysFree, Holding
  <1> QED
    BY <1>1, Invariance, PTL

\* After a panic under the mutex nobody touches the table or an engine again.
THEOREM PoisonStopsEveryone == Spec => PoisonStops
  <1>1. ASSUME IInv, [Next]_vars
        PROVE  [poisoned => UNCHANGED <<table, procs>>]_vars
    <2> SUFFICES ASSUME poisoned PROVE UNCHANGED <<table, procs>>
      OBVIOUS
    <2>1. \A t \in Threads : pc[t] \notin Holding
      BY <1>1, ThreadsAssumption DEF IInv, MutualExclusion
    <2>2. CASE UNCHANGED vars
      BY <2>2 DEF vars, table
    <2>3. ASSUME NEW t \in Threads, Start(t) \/ Reject(t) \/ Continue(t)
          PROVE  UNCHANGED <<table, procs>>
      BY <2>1, <2>3
      DEF Start, Reject, Begin, Continue, Lock, LockPoisoned, FindFree, EngineNewFails, EngineNew,
          LinuxNewFails, LinuxNew, ProcNew, ProcNewFails, Count, LogPanics, CountPanics, Load,
          LoadFails, Move, Holding, table
    <2> QED
      BY <1>1, <2>2, <2>3 DEF Next, Done
  <1> QED
    BY <1>1, Invariance, PTL DEF Spec, PoisonStops

\* A step that makes no process and no engine changes no engine.
LEMMA OtherSteps ==
    ASSUME NEW t \in Threads, Start(t) \/ Reject(t) \/ Continue(t), ~ProcNew(t), ~LinuxNew(t)
    PROVE  procs' = procs
  BY DEF Start, Reject, Begin, Continue, Lock, LockPoisoned, FindFree, EngineNewFails, EngineNew,
     LinuxNewFails, ProcNewFails, Count, LogPanics, CountPanics, Load, LoadFails, table

\* with_free_lfi_engine implements SandboxPool: only the closure takes a slot, it
\* takes a free one, and an engine is added only when all others are full.
THEOREM ImplementsSandboxPool == Spec => IsSandboxPool
  <1>1. Init => Pool!Init
    BY DEF Init, Pool!Init
  <1>2. ASSUME IInv, [Next]_vars PROVE [Pool!Next]_procs
    <2>1. CASE UNCHANGED vars
      BY <2>1 DEF vars
    <2>2. ASSUME NEW t \in Threads, ProcNew(t) PROVE Pool!Next
      <3>1. chosen[t] \in DOMAIN procs /\ procs[chosen[t]] < SandboxesPerEngine
        BY <1>2, <2>2 DEF IInv, InSection, ProcNew, Move
      <3>2. Pool!TakeSlot(chosen[t])
        BY <2>2, <3>1 DEF ProcNew, Pool!TakeSlot
      <3> QED
        BY <3>1, <3>2 DEF Pool!Next
    <2>3. ASSUME NEW t \in Threads, LinuxNew(t) PROVE Pool!Next
      <3>1. \A e \in DOMAIN procs : procs[e] = SandboxesPerEngine
        BY <1>2, <2>3 DEF IInv, InSection, LinuxNew, Move
      <3> QED
        BY <2>3, <3>1 DEF LinuxNew, Pool!AddEngine, Pool!Next
    <2> QED
      BY <1>2, <2>1, <2>2, <2>3, OtherSteps DEF Next, Done
  <1> QED
    BY <1>1, <1>2, Invariance, PTL DEF Spec, IsSandboxPool, Pool!Spec

-----------------------------------------------------------------------------
(* Counting sandboxes *)

\* A thread at "count" has made a process that nobody has counted yet; if it
\* panics there, nobody ever does.
Uncounted == \E t \in Threads : pc[t] = "count"

CountInv ==
    /\ IsFiniteSet(Processes)
    /\ ~poisoned /\ ~Uncounted => Cardinality(Processes) = sandboxesCnt
    /\ ~poisoned /\ Uncounted => Cardinality(Processes) = sandboxesCnt + 1
    /\ poisoned => Cardinality(Processes) \in {sandboxesCnt, sandboxesCnt + 1}

\* lfi_proc_new makes one process more.
LEMMA OneProcessMore ==
    ASSUME TypeOK, NEW e \in DOMAIN procs, procs' = [procs EXCEPT ![e] = @ + 1],
           IsFiniteSet(Processes)
    PROVE  IsFiniteSet(Processes') /\ Cardinality(Processes') = Cardinality(Processes) + 1
  <1> DEFINE new == <<e, procs[e] + 1>>
  <1>1. /\ DOMAIN procs' = DOMAIN procs /\ procs'[e] = procs[e] + 1
        /\ \A d \in DOMAIN procs : procs[d] \in Nat /\ (d # e => procs'[d] = procs[d])
    BY CapacityAssumption DEF TypeOK
  <1>2. new \notin Processes
    BY <1>1 DEF Processes
  <1>3. 1 .. procs'[e] = 1 .. procs[e] \cup {procs[e] + 1}
    BY <1>1
  <1>4. ASSUME NEW d \in DOMAIN procs, NEW k
        PROVE  k \in 1 .. procs'[d] <=> k \in 1 .. procs[d] \/ <<d, k>> = new
    BY <1>1, <1>3
  <1>5. Processes' = Processes \cup {new}
    <2>1. \A d, k : <<d, k>> \in Processes <=> d \in DOMAIN procs /\ k \in 1 .. procs[d]
      BY DEF Processes
    <2>2. \A d, k : <<d, k>> \in Processes' <=> d \in DOMAIN procs /\ k \in 1 .. procs'[d]
      BY <1>1 DEF Processes
    <2>3. /\ \A p \in Processes : \E d, k : p = <<d, k>>
          /\ \A p \in Processes' : \E d, k : p = <<d, k>>
      BY DEF Processes
    <2>4. \A d, k : <<d, k>> \in Processes' <=> <<d, k>> \in Processes \cup {new}
      BY <1>4, <2>1, <2>2
    <2> QED
      BY <2>3, <2>4
  <1> QED
    BY <1>2, <1>5, FS_AddElement

\* An engine that has just been made has no process.
LEMMA NewEngineIsEmpty ==
    ASSUME TypeOK, procs' = Append(procs, 0)
    PROVE  Processes' = Processes
  <1>1. /\ DOMAIN procs' = DOMAIN procs \cup {Len(procs) + 1}
        /\ \A d \in DOMAIN procs : procs'[d] = procs[d]
        /\ procs'[Len(procs) + 1] = 0
    BY DEF TypeOK
  <1>2. {Len(procs) + 1} \X (1 .. 0) = {}
    OBVIOUS
  <1> QED
    BY <1>1, <1>2 DEF Processes

LEMMA CountStep ==
    ASSUME IInv, CountInv, [Next]_vars
    PROVE  CountInv'
  <1> USE ThreadsAssumption
  <1>0. Cardinality(Processes) \in Nat /\ sandboxesCnt \in Nat
    BY FS_CardinalityType DEF CountInv, IInv, TypeOK
  <1>1. ASSUME UNCHANGED <<procs, sandboxesCnt, poisoned>>, Uncounted' <=> Uncounted
        PROVE  CountInv'
    BY <1>1 DEF CountInv, Processes
  <1>2. ASSUME NEW t \in Threads, pc[t] \in Holding
        PROVE  /\ ~poisoned /\ pc \in [Threads -> Resting \cup Holding \cup {"lock", "load"}]
               /\ \A u \in Threads : u # t => pc[u] \notin Holding
    BY <1>2 DEF IInv, MutualExclusion, TypeOK
  <1>3. ASSUME NEW t \in Threads, NEW from, NEW to, Move(t, from, to)
        PROVE  /\ from # "count" /\ to # "count" => (Uncounted' <=> Uncounted)
               /\ from \in Holding => (Uncounted <=> from = "count") /\ (Uncounted' <=> to = "count")
    <2>1. /\ pc[t] = from /\ pc'[t] = to
          /\ \A u \in Threads : u # t => pc'[u] = pc[u]
      BY <1>3 DEF Move, IInv, TypeOK
    <2>2. from # "count" /\ to # "count" => (Uncounted' <=> Uncounted)
      BY <2>1 DEF Uncounted
    <2>3. ASSUME from \in Holding
          PROVE  (Uncounted <=> from = "count") /\ (Uncounted' <=> to = "count")
      BY <1>2, <2>1, <2>3 DEF Uncounted, Holding
    <2> QED
      BY <2>2, <2>3
  <1>4. CASE UNCHANGED vars
    BY <1>1, <1>4 DEF vars, Uncounted, table
  <1>5. ASSUME NEW t \in Threads, Start(t) \/ Reject(t) PROVE CountInv'
    <2>1. PICK next \in {"lock", "failed"} : Begin(t, next)
      BY <1>5 DEF Start, Reject
    <2>2. pc[t] # "count" /\ pc'[t] # "count" /\ \A u \in Threads : u # t => pc'[u] = pc[u]
      BY <2>1 DEF Begin, Resting, IInv, TypeOK
    <2>3. Uncounted' <=> Uncounted
      BY <2>2 DEF Uncounted
    <2> QED
      BY <1>1, <2>1, <2>3 DEF Begin, table
  <1>6. ASSUME NEW t \in Threads, Lock(t) \/ LockPoisoned(t) \/ FindFree(t) \/ EngineNewFails(t)
                   \/ EngineNew(t) \/ LinuxNewFails(t) \/ ProcNewFails(t) \/ Load(t) \/ LoadFails(t)
        PROVE  CountInv'
    <2>1. PICK from \in {"lock", "find", "linux", "proc", "load"},
               to \in {"find", "failed", "proc", "linux", "running"} : Move(t, from, to)
      BY <1>6 DEF Lock, LockPoisoned, FindFree, EngineNewFails, EngineNew, LinuxNewFails,
                  ProcNewFails, Load, LoadFails
    <2>2. UNCHANGED <<procs, sandboxesCnt, poisoned>>
      BY <1>6 DEF Lock, LockPoisoned, FindFree, EngineNewFails, EngineNew, LinuxNewFails,
                  ProcNewFails, Load, LoadFails, Release, table
    <2> QED
      BY <1>1, <1>3, <2>1, <2>2
  <1>7. ASSUME NEW t \in Threads, LinuxNew(t) PROVE CountInv'
    <2>1. Processes' = Processes
      BY <1>7, NewEngineIsEmpty DEF LinuxNew, IInv
    <2>2. Uncounted' <=> Uncounted
      BY <1>3, <1>7 DEF LinuxNew
    <2> QED
      BY <1>7, <2>1, <2>2 DEF LinuxNew, CountInv
  <1>8. ASSUME NEW t \in Threads, ProcNew(t) PROVE CountInv'
    <2>1. Move(t, "proc", "count") /\ chosen[t] \in DOMAIN procs
      BY <1>8 DEF ProcNew, Move, IInv, InSection
    <2>2. IsFiniteSet(Processes') /\ Cardinality(Processes') = Cardinality(Processes) + 1
      BY <1>8, <2>1, OneProcessMore DEF ProcNew, CountInv, IInv
    <2>3. ~Uncounted /\ Uncounted' /\ ~poisoned
      BY <1>2, <1>3, <2>1 DEF Holding, Move
    <2> QED
      BY <1>0, <1>8, <2>2, <2>3 DEF ProcNew, CountInv, table
  <1>9. ASSUME NEW t \in Threads, Count(t) \/ CountPanics(t) PROVE CountInv'
    <2>1. PICK to \in {"load", "failed"} : Move(t, "count", to)
      BY <1>9 DEF Count, CountPanics
    <2>2. Uncounted /\ ~Uncounted' /\ ~poisoned
      BY <1>2, <1>3, <2>1 DEF Holding, Move
    <2>3. sandboxesCnt' = sandboxesCnt + 1 /\ Processes' = Processes
      BY <1>9 DEF Count, CountPanics, Processes
    <2> QED
      BY <2>2, <2>3 DEF CountInv
  <1>10. ASSUME NEW t \in Threads, LogPanics(t) PROVE CountInv'
    <2>1. ~poisoned /\ poisoned' /\ Processes' = Processes /\ sandboxesCnt' = sandboxesCnt
      BY <1>2, <1>10 DEF LogPanics, Poison, Holding, Processes, table
    <2> QED
      BY <2>1 DEF CountInv
  <1> QED
    BY <1>4, <1>5, <1>6, <1>7, <1>8, <1>9, <1>10 DEF Next, Done, Continue

\* lfi_active_sandboxes_cnt is the number of LFI's processes whenever nobody is
\* in with_free_lfi_engine, and the panic of a logger makes it one too low at
\* most, after which it is not used any more.
THEOREM SandboxesAreCounted == Spec => []SandboxesCounted
  <1>1. Init => CountInv
    <2>1. ASSUME Init PROVE Processes = {} /\ sandboxesCnt = 0 /\ ~poisoned /\ ~Uncounted
      BY <2>1 DEF Init, Processes, Uncounted
    <2> QED
      BY <2>1, FS_EmptySet DEF CountInv
  <1>2. IInv /\ CountInv /\ [Next]_vars => CountInv'
    BY CountStep
  <1>3. IInv /\ CountInv => SandboxesCounted
    <2> SUFFICES ASSUME IInv, CountInv PROVE SandboxesCounted
      OBVIOUS
    <2>1. Cardinality(Processes) \in Nat /\ sandboxesCnt \in Nat
      BY FS_CardinalityType DEF CountInv, IInv, TypeOK
    <2>2. lock = NoThread => ~Uncounted
      BY ThreadsAssumption DEF IInv, MutualExclusion, Uncounted, Holding
    <2> QED
      BY <2>1, <2>2 DEF CountInv, SandboxesCounted
  <1>4. Spec => []IInv
    BY Invariance
  <1> QED
    BY <1>1, <1>2, <1>3, <1>4, PTL DEF Spec

=============================================================================
