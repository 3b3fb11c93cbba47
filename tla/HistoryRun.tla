----------------------------- MODULE HistoryRun -----------------------------
(***************************************************************************)
(* A history experiment and its artifacts: run_file drives the comparison  *)
(* of every subject, each arm prepares the provider, overloads it or not,  *)
(* observes it, and is saved as soon as it is over.  HistoryCheckpoints    *)
(* writes the arm's two files and then a manifest that lists it, each by   *)
(* writing a temporary file and replacing the target; the process may be   *)
(* killed, interrupted or run out of disk at any step.                     *)
(*                                                                         *)
(* `memory` is the manifest the writer holds, `disk` the one it last       *)
(* replaced.  The entries of a manifest are the statuses of its arms.      *)
(***************************************************************************)
EXTENDS Integers, Sequences, FiniteSets

CONSTANTS
    Subjects,  \* how many subjects the experiment has
    Arms,      \* arms planned for each: trials x rates x scenarios
    Overload,  \* the arms that follow an overload, by number within a subject
    Verified   \* recovery_mode is `verified`; `fixed_wait` sends no probe

ASSUME HistoryAssumption ==
    /\ {Subjects, Arms} \subseteq Nat \ {0}
    /\ Overload \subseteq 1..Arms
    /\ Verified \in BOOLEAN

Planned == Subjects * Arms

VARIABLES
    pc,        \* where the process is
    subject,   \* the subject being compared, and the arm of it
    arm,
    observed,  \* the status of the arm being saved
    memory,    \* self.manifest
    disk,      \* manifest.yaml
    raws,      \* the arm-NNNN.jsonl on disk, by number, and the summaries
    summaries,
    ended      \* how the run ended, "none" while it goes on

process == <<subject, arm, observed>>
files   == <<disk, raws, summaries>>
vars    == <<pc, process, memory, files, ended>>

Statuses == {"observed", "baseline_unhealthy", "recovery_unhealthy"}
Empty    == [status |-> "running", arms |-> <<>>, saved_arms |-> 0, observed_arms |-> 0]
Absent   == [Empty EXCEPT !.status = "absent"]
Number   == Len(memory.arms) + 1  \* the stem of the next arm's files

-----------------------------------------------------------------------------
Init ==
    /\ pc = "create" /\ subject = 1 /\ arm = 1 /\ observed = "none"
    /\ memory = Empty
    /\ disk = Absent /\ raws = {} /\ summaries = {}
    /\ ended = "none"

\* The writer replaces manifest.yaml before any load.
Create ==
    /\ pc = "create"
    /\ disk' = memory
    /\ pc' = "baseline"
    /\ UNCHANGED <<process, memory, raws, summaries, ended>>

\* An arm whose provider was not healthy is saved as it is.
Unhealthy(s) == Verified /\ observed' = s /\ pc' = "raw"

\* prepare() before an arm.
Baseline ==
    /\ pc = "baseline"
    /\ \/ pc' = (IF arm \in Overload THEN "overload" ELSE "observe") /\ UNCHANGED observed
       \/ Unhealthy("baseline_unhealthy")
    /\ UNCHANGED <<subject, arm, memory, files, ended>>

\* The overload is drained, then the requested recovery.
OverloadAndRecover ==
    /\ pc = "overload"
    /\ \/ pc' = "observe" /\ UNCHANGED observed
       \/ Unhealthy("recovery_unhealthy")
    /\ UNCHANGED <<subject, arm, memory, files, ended>>

Observe ==
    /\ pc = "observe"
    /\ observed' = "observed"
    /\ pc' = "raw"
    /\ UNCHANGED <<subject, arm, memory, files, ended>>

\* Mutant of SaveRaw: the arm is listed without its summary.
SaveRawOnly ==
    /\ pc = "raw"
    /\ raws' = raws \cup {Number}
    /\ pc' = "list"
    /\ UNCHANGED <<process, memory, disk, summaries, ended>>

\* save_arm: the raw rows, the summary, and only then the manifest.
SaveRaw ==
    /\ pc = "raw"
    /\ raws' = raws \cup {Number}
    /\ pc' = "summary"
    /\ UNCHANGED <<process, memory, disk, summaries, ended>>

SaveSummary ==
    /\ pc = "summary"
    /\ summaries' = summaries \cup {Number}
    /\ pc' = "list"
    /\ UNCHANGED <<process, memory, disk, raws, ended>>

List ==
    /\ pc = "list"
    /\ memory' = [memory EXCEPT
                    !.arms = Append(@, observed),
                    !.saved_arms = @ + 1,
                    !.observed_arms = IF observed = "observed" THEN @ + 1 ELSE @]
    /\ pc' = "manifest"
    /\ UNCHANGED <<process, files, ended>>

MoreArms == observed = "observed" /\ arm < Arms

\* The manifest is replaced, then the comparison goes on: an unhealthy arm is
\* its subject's last one.
SaveManifest ==
    /\ pc = "manifest"
    /\ disk' = memory
    /\ IF MoreArms
       THEN arm' = arm + 1 /\ pc' = "baseline" /\ UNCHANGED subject
       ELSE IF subject < Subjects
       THEN subject' = subject + 1 /\ arm' = 1 /\ pc' = "baseline"
       ELSE pc' = "finish" /\ UNCHANGED <<subject, arm>>
    /\ UNCHANGED <<observed, memory, raws, summaries, ended>>

\* Mutant of Outcome: an arm that could not be observed counts.
AllSaved == IF memory.saved_arms = Planned THEN "complete" ELSE "incomplete"

\* finish() after the run, or from the handler of what stopped it.
Outcome == IF memory.observed_arms = Planned THEN "complete" ELSE "incomplete"

Started(s) == [Empty EXCEPT !.status = s]  \* mutant of Ended: the manifest is made anew
Ended(s)   == [memory EXCEPT !.status = s]

Finish ==
    /\ pc \in {"finish", "failed", "interrupted"}
    /\ memory' = Ended(IF pc = "finish" THEN Outcome ELSE pc)
    /\ pc' = "close" /\ ended' = IF pc = "finish" THEN "returned" ELSE pc
    /\ UNCHANGED <<process, files>>

Close ==
    /\ pc = "close"
    /\ disk' = memory
    /\ pc' = "done"
    /\ UNCHANGED <<process, memory, raws, summaries, ended>>

\* What may stop the run: an error of the experiment or of a write, or Ctrl+C,
\* each handled by finish(); an error of finish() itself; a kill at any step.
\* A temporary file left behind is not listed and not counted.
Inside == {"baseline", "overload", "observe", "raw", "summary", "list", "manifest"}

Stopped ==
    /\ pc \in Inside
    /\ pc' \in {"failed", "interrupted"}
    /\ UNCHANGED <<process, memory, files, ended>>

FinishFails ==
    /\ pc \in {"create", "close"}
    /\ pc' = "done" /\ ended' = "failed"
    /\ UNCHANGED <<process, memory, files>>

Kill ==
    /\ pc # "done"
    /\ pc' = "done" /\ ended' = "killed"
    /\ UNCHANGED <<process, memory, files>>

Done == pc = "done" /\ UNCHANGED vars

Step == \/ Create \/ Baseline \/ OverloadAndRecover \/ Observe
        \/ SaveRaw \/ SaveSummary \/ List \/ SaveManifest \/ Finish \/ Close

Next == Step \/ Stopped \/ FinishFails \/ Kill \/ Done

Spec == Init /\ [][Next]_vars /\ WF_vars(Step)
-----------------------------------------------------------------------------
(* Properties.                                                             *)

Manifests == [status : {"absent", "running", "complete", "incomplete", "failed", "interrupted"},
              arms : Seq(Statuses), saved_arms : Nat, observed_arms : Nat]

\* The state of the process and of its artifacts is well formed.
TypeOK ==
    /\ pc \in Inside \cup {"create", "finish", "failed", "interrupted", "close", "done"}
    /\ subject \in 1..Subjects /\ arm \in 1..Arms
    /\ observed \in Statuses \cup {"none"}
    /\ pc \in {"raw", "summary", "list", "manifest"} => observed \in Statuses
    /\ {memory, disk} \subseteq Manifests
    /\ raws \subseteq Nat \ {0} /\ summaries \subseteq Nat \ {0}
    /\ ended \in {"none", "returned", "failed", "interrupted", "killed"}

\* Whatever stopped the process, every arm that manifest.yaml lists has both of
\* its files on disk, complete.
ListedAreWritten ==
    \A n \in 1..Len(disk.arms) : n \in raws /\ n \in summaries

\* The counts of the manifest are those of the arms it lists, and `complete`
\* means that every planned arm was saved and observed.
CountsMatch ==
    /\ disk.saved_arms = Len(disk.arms)
    /\ disk.observed_arms = Cardinality({n \in 1..Len(disk.arms) : disk.arms[n] = "observed"})
    /\ disk.status = "complete" =>
          Len(disk.arms) = Planned /\ \A n \in 1..Planned : disk.arms[n] = "observed"

\* A saved arm is not lost: at most the arm being saved is missing from the
\* manifest of a run that could still write it.
AtMostOneBehind ==
    /\ Len(disk.arms) \in {Len(memory.arms), Len(memory.arms) - 1}
    /\ pc = "done" /\ ended \in {"returned", "interrupted"} => disk = memory

\* No later write takes back what the manifest listed, and a manifest that says
\* how the run ended is the last one.
NothingTakenBack ==
    [][/\ Len(disk.arms) <= Len(disk'.arms)
       /\ SubSeq(disk'.arms, 1, Len(disk.arms)) = disk.arms
       /\ disk.status \notin {"absent", "running"} => disk' = disk]_vars
=============================================================================
