------------------------ MODULE PrebuiltCacheProofs ------------------------
(***************************************************************************)
(* What the checksum file of fetch_prebuilt vouches for, proved for        *)
(* archives of any size and any number of builds, each of them killed      *)
(* wherever it may be, as long as none writes while another is under way.  *)
(***************************************************************************)
EXTENDS PrebuiltCache, TLAPS

-----------------------------------------------------------------------------
(* Type correctness *)

\* Builds that run at the same time disturb each other's files, but they leave
\* nothing behind that is not of its type.
THEOREM TypeCorrect == Spec => []TypeOK
  <1> USE DEF TypeOK, Resting, NoParts
  <1>1. Init => TypeOK
    BY DEF Init
  <1>2. TypeOK /\ [Next]_vars => TypeOK'
    <2> SUFFICES ASSUME TypeOK, [Next]_vars PROVE TypeOK'
      OBVIOUS
    <2>1. CASE UNCHANGED vars
      BY <2>1 DEF vars
    <2>2. ASSUME NEW b \in Builds, Begin(b) \/ Crash(b) PROVE TypeOK'
      BY <2>2 DEF Begin, Crash
    <2>3. ASSUME NEW b \in Builds, Check(b) \/ Forget(b) PROVE TypeOK'
      BY <2>3 DEF Check, Forget
    <2>4. ASSUME NEW b \in Builds, RemovePart(b) PROVE TypeOK'
      BY <2>4 DEF RemovePart
    <2>5. ASSUME NEW b \in Builds, RemoveDirectory(b) \/ RemoveFails(b) PROVE TypeOK'
      BY <2>5 DEF RemoveDirectory, RemoveFails, Goto
    <2>6. ASSUME NEW b \in Builds, UseCached(b) \/ Fetch(b) \/ FetchFails(b) PROVE TypeOK'
      BY <2>6 DEF UseCached, Fetch, FetchFails, Goto
    <2>7. ASSUME NEW b \in Builds, UnpackPart(b) PROVE TypeOK'
      BY <2>7 DEF UnpackPart
    <2>8. ASSUME NEW b \in Builds, UnpackFails(b) \/ UnpackEnds(b) PROVE TypeOK'
      BY <2>8 DEF UnpackFails, UnpackEnds, Goto
    <2>9. ASSUME NEW b \in Builds, Truncate(b) \/ Write(b) \/ Finish(b) PROVE TypeOK'
      BY <2>9 DEF Truncate, Write, Finish, Goto
    <2> QED
      BY <2>1, <2>2, <2>3, <2>4, <2>5, <2>6, <2>7, <2>8, <2>9 DEF Next, FetchPrebuilt
  <1> QED
    BY <1>1, <1>2, PTL DEF Spec

-----------------------------------------------------------------------------
(* One writer at a time *)

\* What a build relies on at each of its steps: the checksum file is gone before
\* anything is removed, and comes back when all parts are there.
Progress(b) ==
    /\ pc[b] = "remove" => csum = Missing
    /\ pc[b] \in {"reuse", "finish"} => csum \in {Missing, manifest[b]}
    /\ pc[b] = "unpack" =>
          /\ csum = Missing
          /\ \A p \in Parts \ todo[b] : exists /\ part[p] = manifest[b]
    /\ pc[b] \in {"truncate", "write"} => exists /\ part = Unpacked(manifest[b])
    /\ pc[b] = "truncate" => csum = Missing

CacheInv == TypeOK /\ ChecksumVouches /\ ~Racing /\ \A b \in Builds : Progress(b)

\* A build keeps what it relies on itself, also when it is killed.
LEMMA OwnStep ==
    ASSUME CacheInv, TypeOK', NEW b \in Builds, Begin(b) \/ Crash(b) \/ FetchPrebuilt(b)
    PROVE  ChecksumVouches' /\ Progress(b)'
  <1> USE ContentAssumption DEF CacheInv, ChecksumVouches, Progress, Resting
  <1>1. manifest[b] \in Archives
    BY DEF TypeOK
  <1>2. CASE Begin(b) \/ Crash(b)
    BY <1>2 DEF Begin, Crash, TypeOK
  <1>3. CASE Check(b)
    BY <1>3 DEF Check, TypeOK
  <1>4. CASE Forget(b)
    BY <1>4 DEF Forget, TypeOK
  <1>5. CASE RemovePart(b)
    BY <1>1, <1>5 DEF RemovePart, TypeOK
  <1>6. CASE RemoveDirectory(b) \/ RemoveFails(b)
    BY <1>1, <1>6 DEF RemoveDirectory, RemoveFails, Goto, TypeOK
  <1>7. CASE UseCached(b) \/ Fetch(b) \/ FetchFails(b)
    BY <1>1, <1>7 DEF UseCached, Fetch, FetchFails, Goto, TypeOK
  <1>8. CASE UnpackPart(b)
    BY <1>1, <1>8 DEF UnpackPart, TypeOK
  <1>9. CASE UnpackFails(b)
    BY <1>1, <1>9 DEF UnpackFails, Goto, TypeOK
  <1>10. CASE UnpackEnds(b)
    <2>1. exists /\ \A p \in Parts : part[p] = manifest[b]
      BY <1>1, <1>10, PartsAssumption DEF UnpackEnds, Goto, TypeOK
    <2>2. part = Unpacked(manifest[b])
      BY <2>1 DEF Unpacked, TypeOK
    <2> QED
      BY <1>1, <1>10, <2>1, <2>2 DEF UnpackEnds, Goto, TypeOK
  <1>11. CASE Truncate(b)
    BY <1>1, <1>11 DEF Truncate, Goto, TypeOK
  <1>12. CASE Write(b)
    BY <1>1, <1>12 DEF Write, Goto, TypeOK
  <1>13. CASE Finish(b)
    BY <1>1, <1>13 DEF Finish, TypeOK
  <1> QED
    BY <1>2, <1>3, <1>4, <1>5, <1>6, <1>7, <1>8, <1>9, <1>10, <1>11, <1>12, <1>13
       DEF FetchPrebuilt

\* A step of one build leaves the others what they rely on: it changes the files
\* only while they rest.
LEMMA OtherStep ==
    ASSUME CacheInv, NEW b \in Builds, Begin(b) \/ Crash(b) \/ FetchPrebuilt(b),
           NEW c \in Builds, c # b
    PROVE  Progress(c)'
  <1>1. UNCHANGED <<manifest[c], todo[c], pc[c]>>
    BY DEF CacheInv, TypeOK, Begin, Crash, FetchPrebuilt, Check, Forget, RemovePart,
           RemoveDirectory, RemoveFails, UseCached, Fetch, FetchFails, UnpackPart, UnpackFails,
           UnpackEnds, Truncate, Write, Finish, Goto
  <1>2. CASE pc[b] \in Writing
    <2>1. pc'[c] \in Resting
      BY <1>1, <1>2 DEF CacheInv, Racing
    <2> QED
      BY <2>1 DEF Progress, Resting
  <1>3. CASE pc[b] \notin Writing
    <2>1. UNCHANGED <<exists, part, csum>>
      BY <1>3 DEF Writing, Begin, Crash, FetchPrebuilt, Check, Forget, RemovePart,
                  RemoveDirectory, RemoveFails, UseCached, Fetch, FetchFails, UnpackPart,
                  UnpackFails, UnpackEnds, Truncate, Write, Finish, Goto
    <2> QED
      BY <1>1, <2>1 DEF CacheInv, Progress
  <1> QED
    BY <1>2, <1>3

\* As long as nobody writes while another build is under way, CacheInv holds.
LEMMA CacheInvariance == ExclusiveSpec => []CacheInv
  <1>1. Init => CacheInv
    BY ContentAssumption
       DEF Init, CacheInv, TypeOK, ChecksumVouches, Progress, NoParts, Resting, Racing, Writing
  <1>2. CacheInv /\ TypeOK' /\ [Next /\ ~Racing']_vars => CacheInv'
    <2> SUFFICES ASSUME CacheInv, TypeOK', [Next /\ ~Racing']_vars PROVE CacheInv'
      OBVIOUS
    <2>1. CASE UNCHANGED vars
      BY <2>1 DEF vars, CacheInv, TypeOK, ChecksumVouches, Progress, Racing
    <2>2. CASE Next /\ ~Racing'
      BY <2>2, OwnStep, OtherStep DEF Next, CacheInv
    <2> QED
      BY <2>1, <2>2
  <1>3. [Next /\ ~Racing']_vars => [Next]_vars
    OBVIOUS
  <1> QED
    BY <1>1, <1>2, <1>3, TypeCorrect, PTL DEF Spec, ExclusiveSpec

\* Wherever a build is killed, a checksum on disk vouches for the directory
\* beside it, as long as nobody writes while another build is under way.
THEOREM ChecksumAlwaysVouches == ExclusiveSpec => []ChecksumVouches
  <1>1. CacheInv => ChecksumVouches
    BY DEF CacheInv
  <1> QED
    BY <1>1, CacheInvariance, PTL

\* A build that goes on then has the whole archive its manifest names.
THEOREM BuildsUseManifest == ExclusiveSpec => UsesManifest
  <1>1. CacheInv /\ [Next /\ ~Racing']_vars =>
          [\A b \in Builds : Finish(b) /\ pc'[b] = "used" => part = Unpacked(manifest[b])]_vars
    BY DEF CacheInv, TypeOK, ChecksumVouches, Progress, Finish
  <1>2. ExclusiveSpec => []CacheInv
    BY CacheInvariance
  <1> QED
    BY <1>1, <1>2, PTL DEF ExclusiveSpec, UsesManifest

-----------------------------------------------------------------------------
(* Builds that overlap *)

\* The cache has version a, and so do the builds under way, which have no more
\* to do than to use it.
Warm(a) ==
    /\ exists /\ part = Unpacked(a) /\ csum = a
    /\ \A b \in Builds :
          pc[b] \notin Resting => pc[b] \in {"check", "reuse", "finish"} /\ manifest[b] = a

\* No other version is asked for by a step.
AsksFor(a) == \A b \in Builds : Begin(b) => manifest'[b] = a

\* No lock is needed once the cache has what everyone wants: any number of
\* builds of one version use it at once, and are killed, without a change of the
\* files, and none of them panics.  So it is the unpacking, and another version,
\* that a second build must not meet.
THEOREM WarmCacheIsShared ==
    ASSUME NEW a \in Archives
    PROVE  Spec => [][Warm(a) /\ AsksFor(a) =>
                        /\ Warm(a)'
                        /\ \A b \in Builds : pc'[b] = "panicked" => pc[b] = "panicked"]_vars
  <1> DEFINE Keeps == Warm(a)' /\ \A b \in Builds : pc'[b] = "panicked" => pc[b] = "panicked"
  <1>1. ASSUME TypeOK, Next, Warm(a), AsksFor(a) PROVE Keeps
    <2> USE <1>1, ContentAssumption DEF TypeOK, Warm, Resting
    <2> PICK b \in Builds : Begin(b) \/ Crash(b) \/ FetchPrebuilt(b)
      BY DEF Next
    <2>1. CASE Begin(b)
      <3>1. manifest'[b] = a
        BY <2>1 DEF AsksFor
      <3> QED
        BY <2>1, <3>1 DEF Begin
    <2>2. CASE Crash(b)
      BY <2>2 DEF Crash
    <2>3. CASE Check(b) \/ Finish(b)
      BY <2>3 DEF Check, Finish
    <2>4. CASE UseCached(b)
      BY <2>4 DEF UseCached, Goto
    <2>5. ~(Forget(b) \/ RemovePart(b) \/ RemoveDirectory(b) \/ RemoveFails(b))
      BY DEF Forget, RemovePart, RemoveDirectory, RemoveFails, Goto
    <2>6. ~(Fetch(b) \/ FetchFails(b) \/ UnpackPart(b) \/ UnpackFails(b) \/ UnpackEnds(b))
      BY DEF Fetch, FetchFails, UnpackPart, UnpackFails, UnpackEnds, Goto
    <2>7. ~(Truncate(b) \/ Write(b))
      BY DEF Truncate, Write, Goto
    <2> QED
      BY <2>1, <2>2, <2>3, <2>4, <2>5, <2>6, <2>7 DEF FetchPrebuilt
  <1>2. TypeOK /\ [Next]_vars => [Warm(a) /\ AsksFor(a) => Keeps]_vars
    BY <1>1
  <1> QED
    BY <1>2, TypeCorrect, PTL DEF Spec

=============================================================================
