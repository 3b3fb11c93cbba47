------------------------------- MODULE Publish -------------------------------
(***************************************************************************)
(* `publish`: a finished run is copied to the team's shared location, file *)
(* by file, with a manifest last.  Several people, or one who tries again  *)
(* after a failure, may publish the same run; a process may die at any     *)
(* step.  In a bucket an object appears whole; in a directory a file can   *)
(* be seen, and left behind, half written.                                 *)
(*                                                                         *)
(* The run directory may gain files between two attempts (it is still      *)
(* being measured, or a validation is added to it), so a manifest lists    *)
(* the files its own attempt found.                                        *)
(***************************************************************************)
EXTENDS Integers, Sequences, FiniteSets

CONSTANTS
    Publishers,  \* those who publish the run
    Files,       \* how many files the run directory may come to hold
    Tries        \* bound: attempts of each publisher that may die

ASSUME PublishAssumption ==
    /\ IsFiniteSet(Publishers)
    /\ {Files, Tries} \subseteq Nat \ {0}

VARIABLES
    bucket,    \* the destination is s3://; a local directory otherwise
    source,    \* files the run directory holds: 1..source
    pc,        \* where each publisher is
    files,     \* the files its build_manifest() found
    copied,    \* how many of them it has copied
    target,    \* each file there: "absent", "torn" or "whole"
    manifest,  \* the manifest there: 0 while absent, or the files it lists
    torn,      \* of that manifest not all of the text is there
    deaths     \* attempts of each publisher that died

here == <<pc, files, copied, deaths>>
vars == <<bucket, source, here, target, manifest, torn>>

Absent == 0
Move(p, to) == pc' = [pc EXCEPT ![p] = to]

-----------------------------------------------------------------------------
Init ==
    /\ bucket \in BOOLEAN
    /\ source \in 1..Files
    /\ pc = [p \in Publishers |-> "build"]
    /\ files = [p \in Publishers |-> 0] /\ copied = [p \in Publishers |-> 0]
    /\ target = [f \in 1..Files |-> "absent"]
    /\ manifest = Absent /\ torn = FALSE
    /\ deaths = [p \in Publishers |-> 0]

\* The run directory gains a file.
Grow == /\ source < Files
        /\ source' = source + 1
        /\ UNCHANGED <<bucket, here, target, manifest, torn>>

\* Every profile is validated and every file hashed before anything is copied.
Build(p) ==
    /\ pc[p] = "build"
    /\ files' = [files EXCEPT ![p] = source]
    /\ copied' = [copied EXCEPT ![p] = 0]
    /\ Move(p, "check")
    /\ UNCHANGED <<bucket, source, target, manifest, torn, deaths>>

\* Mutants of Published: what an attempt that died has left counts as well; a
\* manifest counts only when all of it can be read.
AnythingThere == \E f \in 1..Files : target[f] # "absent"
Readable      == manifest # Absent /\ ~torn
Published     == manifest # Absent

\* A manifest at the target means that the run is already published.
Check(p) ==
    /\ pc[p] = "check"
    /\ Move(p, IF Published THEN "refused" ELSE "copy")
    /\ UNCHANGED <<bucket, source, files, copied, target, manifest, torn, deaths>>

Left(p) == copied[p] < files[p]

\* A local copy is seen before it is whole.
Open(p) ==
    /\ pc[p] = "copy" /\ ~bucket /\ Left(p)
    /\ target' = [target EXCEPT ![copied[p] + 1] = "torn"]
    /\ Move(p, "copying")
    /\ UNCHANGED <<bucket, source, files, copied, manifest, torn, deaths>>

Copy(p) ==
    /\ \/ pc[p] = "copy" /\ bucket /\ Left(p)
       \/ pc[p] = "copying"
    /\ target' = [target EXCEPT ![copied[p] + 1] = "whole"]
    /\ copied' = [copied EXCEPT ![p] = @ + 1]
    /\ Move(p, "copy")
    /\ UNCHANGED <<bucket, source, files, manifest, torn, deaths>>

CopiedSome(p) == copied[p] >= 1  \* mutant of Copied: the manifest is not last
Copied(p)     == copied[p] = files[p]

\* A local manifest is there before its text is.
OpenManifest(p) ==
    /\ pc[p] = "copy" /\ ~bucket /\ Copied(p)
    /\ manifest' = files[p] /\ torn' = TRUE
    /\ Move(p, "writing")
    /\ UNCHANGED <<bucket, source, files, copied, target, deaths>>

PutManifest(p) ==
    /\ \/ pc[p] = "copy" /\ bucket /\ Copied(p)
       \/ pc[p] = "writing"
    /\ manifest' = files[p] /\ torn' = FALSE
    /\ Move(p, "published")
    /\ UNCHANGED <<bucket, source, files, copied, target, deaths>>

\* The process dies, or a copy raises; publishing again starts from scratch.
Die(p) ==
    /\ pc[p] \in {"check", "copy", "copying", "writing"} /\ deaths[p] < Tries
    /\ deaths' = [deaths EXCEPT ![p] = @ + 1]
    /\ Move(p, "build")
    /\ UNCHANGED <<bucket, source, files, copied, target, manifest, torn>>

Step(p) == Build(p) \/ Check(p) \/ Open(p) \/ Copy(p) \/ OpenManifest(p) \/ PutManifest(p)

Settled == /\ \A p \in Publishers : pc[p] \in {"published", "refused"}
           /\ source = Files
           /\ UNCHANGED vars

Next == Grow \/ (\E p \in Publishers : Step(p) \/ Die(p)) \/ Settled

\* A publisher goes on, and tries again until an attempt does not die.
Spec == Init /\ [][Next]_vars /\ \A p \in Publishers : WF_vars(Step(p))
-----------------------------------------------------------------------------
(* Properties.                                                             *)

\* The publishers and the target are well formed.
TypeOK ==
    /\ bucket \in BOOLEAN /\ source \in 1..Files
    /\ pc \in [Publishers -> {"build", "check", "copy", "copying", "writing", "published", "refused"}]
    /\ files \in [Publishers -> 0..source] /\ copied \in [Publishers -> 0..Files]
    /\ target \in [1..Files -> {"absent", "torn", "whole"}]
    /\ manifest \in 0..source /\ torn \in BOOLEAN
    /\ deaths \in [Publishers -> 0..Tries]

\* publish.py: "its presence means the upload completed": whoever wrote the
\* manifest, whoever died while writing it and whoever is still copying, every
\* file it lists is there, and whole in a bucket.
ManifestMeansComplete ==
    \A f \in 1..manifest : target[f] # "absent" /\ (bucket => target[f] = "whole")

\* Those that have found no manifest and may still write one.
UnderWay == {p \in Publishers : pc[p] \in {"copy", "copying", "writing"}}

\* publish.py: "an existing manifest at the target is never overwritten".  The
\* check and the write are two steps, so this holds from when the last of the
\* attempts that overlapped is over: then a run that has a manifest, even a torn
\* one, stays as it is, whoever publishes it again and however it grew.
NeverOverwritten ==
    [][manifest # Absent /\ UnderWay = {} =>
          UnderWay' = {} /\ UNCHANGED <<manifest, torn, target>>]_vars

\* What an attempt that died left in the bucket stops nobody: the run is
\* published in the end.
PublishedAtLast == bucket ~> manifest # Absent
=============================================================================
