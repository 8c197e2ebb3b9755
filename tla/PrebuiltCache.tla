--------------------------- MODULE PrebuiltCache ---------------------------
(***************************************************************************)
(* fetch_prebuilt (examples/fetch-prebuilt/src/lib.rs): build scripts that *)
(* unpack a library archive into a directory and remember its checksum in  *)
(* a file beside it, to use the directory again in the next build.  Both   *)
(* are under the system's temporary directory (examples/brotli/build.rs),  *)
(* so builds of several checkouts share them.                              *)
(*                                                                         *)
(* A build can be killed between any two steps.  The directory holds, for  *)
(* each part of an archive, the version it was last unpacked from.  The    *)
(* checksum file is short enough to be written at once, but it is          *)
(* truncated first.                                                        *)
(***************************************************************************)
EXTENDS Naturals

CONSTANTS
    Builds,         \* build scripts that may run at the same time
    Archives,       \* the versions a manifest may name, as their checksums
    Parts,          \* the files of an archive
    Missing,        \* a part or a checksum file that is not there
    Empty           \* the content of a truncated checksum file

ASSUME ContentAssumption ==
    Missing \notin Archives /\ Empty \notin Archives \cup {Missing}
ASSUME PartsAssumption == Parts # {}

VARIABLES
    exists,         \* target_path.exists()
    part,           \* which version each part in the directory is of
    csum,           \* the content of target_archive_checksum_file_path
    manifest,       \* archive_manifest of each build
    todo,           \* the parts each build has yet to unpack
    pc              \* what each build does

vars == <<exists, part, csum, manifest, todo, pc>>

NoParts == [p \in Parts |-> Missing]
Unpacked(a) == [p \in Parts |-> a]

Resting == {"off", "used", "panicked"}
Goto(b, from, to) == pc[b] = from /\ pc' = [pc EXCEPT ![b] = to]

Init ==
    /\ exists = FALSE /\ part = NoParts /\ csum = Missing
    /\ manifest \in [Builds -> Archives]
    /\ todo = [b \in Builds |-> {}]
    /\ pc = [b \in Builds |-> "off"]

-----------------------------------------------------------------------------
(* Builds *)

\* A build reads its manifest, which an update of the checkout may have changed.
Begin(b) ==
    /\ pc[b] \in Resting
    /\ pc' = [pc EXCEPT ![b] = "check"]
    /\ \E a \in Archives : manifest' = [manifest EXCEPT ![b] = a]
    /\ UNCHANGED <<exists, part, csum, todo>>

\* The build is killed.
Crash(b) ==
    /\ pc[b] \notin Resting
    /\ pc' = [pc EXCEPT ![b] = "off"]
    /\ UNCHANGED <<exists, part, csum, manifest, todo>>

-----------------------------------------------------------------------------
(* fetch_prebuilt *)

\* Mutant: any checksum counts as the expected one.
CheckPresence(b) ==
    /\ pc[b] = "check"
    /\ pc' = [pc EXCEPT ![b] = IF csum = Missing THEN "remove" ELSE "reuse"]
    /\ UNCHANGED <<exists, part, csum, manifest, todo>>

\* The match on the cached checksum.
Check(b) ==
    /\ pc[b] = "check"
    /\ pc' = [pc EXCEPT ![b] =
         IF csum = Missing THEN "remove" ELSE IF csum = manifest[b] THEN "reuse" ELSE "forget"]
    /\ UNCHANGED <<exists, part, csum, manifest, todo>>

\* Mutant: the checksum file of another version is left to be overwritten.
ForgetLater(b) ==
    /\ Goto(b, "forget", "remove")
    /\ UNCHANGED <<exists, part, csum, manifest, todo>>

\* remove_file(..).unwrap(), before the directory is removed
Forget(b) ==
    /\ pc[b] = "forget"
    /\ pc' = [pc EXCEPT ![b] = IF csum = Missing THEN "panicked" ELSE "remove"]
    /\ csum' = Missing
    /\ UNCHANGED <<exists, part, manifest, todo>>

\* remove_dir_all, one file after the other ...
RemovePart(b) ==
    /\ pc[b] = "remove"
    /\ \E p \in Parts : part[p] # Missing /\ part' = [part EXCEPT ![p] = Missing]
    /\ UNCHANGED <<exists, csum, manifest, todo, pc>>

\* Mutant: the directory goes before what is in it.
RemoveDirectoryFirst(b) ==
    /\ Goto(b, "remove", "reuse")
    /\ exists' = FALSE
    /\ UNCHANGED <<part, csum, manifest, todo>>

\* ... then the directory, if there is one.
RemoveDirectory(b) ==
    /\ Goto(b, "remove", "reuse")
    /\ part = NoParts
    /\ exists' = FALSE
    /\ UNCHANGED <<part, csum, manifest, todo>>

\* What goes wrong with that is ignored ("let _ =").
RemoveFails(b) ==
    /\ Goto(b, "remove", "reuse")
    /\ exists
    /\ UNCHANGED <<exists, part, csum, manifest, todo>>

\* target_path.exists()
UseCached(b) ==
    /\ Goto(b, "reuse", "finish")
    /\ exists
    /\ UNCHANGED <<exists, part, csum, manifest, todo>>

\* The archive is read or downloaded, and has the checksum of the manifest.
Fetch(b) ==
    /\ Goto(b, "reuse", "unpack")
    /\ ~exists
    /\ todo' = [todo EXCEPT ![b] = Parts]
    /\ UNCHANGED <<exists, part, csum, manifest>>

\* It cannot be had, or it has another one.
FetchFails(b) ==
    /\ Goto(b, "reuse", "panicked")
    /\ ~exists
    /\ UNCHANGED <<exists, part, csum, manifest, todo>>

\* unpack, one file after the other
UnpackPart(b) ==
    /\ pc[b] = "unpack"
    /\ exists' = TRUE
    /\ \E p \in todo[b] :
          /\ part' = [part EXCEPT ![p] = manifest[b]]
          /\ todo' = [todo EXCEPT ![b] = @ \ {p}]
    /\ UNCHANGED <<csum, manifest, pc>>

\* .expect("Failed to unpack archive")
UnpackFails(b) ==
    /\ Goto(b, "unpack", "panicked")
    /\ UNCHANGED <<exists, part, csum, manifest, todo>>

UnpackEnds(b) ==
    /\ Goto(b, "unpack", "truncate")
    /\ todo[b] = {}
    /\ UNCHANGED <<exists, part, csum, manifest, todo>>

\* fs::write
Truncate(b) ==
    /\ Goto(b, "truncate", "write")
    /\ csum' = Empty
    /\ UNCHANGED <<exists, part, manifest, todo>>

Write(b) ==
    /\ Goto(b, "write", "finish")
    /\ csum' = manifest[b]
    /\ UNCHANGED <<exists, part, manifest, todo>>

\* Both paths are canonicalized, which panics when one of them is missing.
Finish(b) ==
    /\ pc[b] = "finish"
    /\ pc' = [pc EXCEPT ![b] = IF exists /\ csum # Missing THEN "used" ELSE "panicked"]
    /\ UNCHANGED <<exists, part, csum, manifest, todo>>

-----------------------------------------------------------------------------
FetchPrebuilt(b) ==
    \/ Check(b) \/ Forget(b)
    \/ RemovePart(b) \/ RemoveDirectory(b) \/ RemoveFails(b)
    \/ UseCached(b) \/ Fetch(b) \/ FetchFails(b)
    \/ UnpackPart(b) \/ UnpackFails(b) \/ UnpackEnds(b)
    \/ Truncate(b) \/ Write(b)
    \/ Finish(b)

Next == \E b \in Builds : Begin(b) \/ Crash(b) \/ FetchPrebuilt(b)

Spec == Init /\ [][Next]_vars

\* The behaviours in which no build changes the cache while another one is under
\* way.  Nothing in fetch_prebuilt sees to that; cargo does, for one checkout.
Writing == {"forget", "remove", "unpack", "truncate", "write"}
Racing == \E b, c \in Builds : b # c /\ pc[b] \in Writing /\ pc[c] \notin Resting
ExclusiveSpec == Init /\ [][Next /\ ~Racing']_vars

-----------------------------------------------------------------------------
(* Properties *)

TypeOK ==
    /\ exists \in BOOLEAN
    /\ part \in [Parts -> Archives \cup {Missing}]
    /\ exists \/ part = NoParts
    /\ csum \in Archives \cup {Missing, Empty}
    /\ manifest \in [Builds -> Archives]
    /\ todo \in [Builds -> SUBSET Parts]
    /\ pc \in [Builds -> Resting \cup {"check", "forget", "remove", "reuse", "unpack",
                                       "truncate", "write", "finish"}]

\* Wherever a build is killed, a checksum on disk vouches for the directory
\* beside it: all of that version is there, and nothing else.  This and the next
\* are promises of ExclusiveSpec: two builds that write at once break both.
ChecksumVouches == csum \in Archives => exists /\ part = Unpacked(csum)

\* A build that goes on has the whole archive its manifest names, whatever was
\* killed before it, and whatever other builds read meanwhile ("Ensure that the
\* checksum of the unpacked file corresponds to the one we expect, otherwise remove
\* the target_path and re-fetch").
UsesManifest ==
    [][\A b \in Builds : Finish(b) /\ pc'[b] = "used" => part = Unpacked(manifest[b])]_vars

=============================================================================
