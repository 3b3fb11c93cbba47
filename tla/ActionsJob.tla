----------------------------- MODULE ActionsJob -----------------------------
(***************************************************************************)
(* A job of the bedrock-history workflow: a history experiment writes its  *)
(* checkpoints into results/, the time limit interrupts it and then kills  *)
(* it, and the last step, which runs however the benchmark ended, commits  *)
(* whatever is in results/ while other writers push to the same branch.    *)
(***************************************************************************)
EXTENDS HistoryRun, ResultsBranch

CONSTANTS
    Job,    \* the writer that is this job
    Theirs  \* what each of the other writers has in its RESULTS_DIR

ASSUME JobAssumption == Job \in Writers

Rivals  == Writers \ {Job}
branch  == <<remote, local, faults>>
jobVars == <<vars, branchVars>>

\* What is in results/ of this job: that of the benchmark.  experiment.yaml is
\* written before the benchmark starts, so it is never empty.
Snapshot == [manifest |-> disk, raws |-> raws, summaries |-> summaries]

JobInit ==
    /\ Init /\ BranchInit
    /\ results = [w \in Writers |-> IF w = Job THEN Snapshot ELSE Theirs[w]]

Shared == results' = [results EXCEPT ![Job] = Snapshot'] /\ UNCHANGED branch

\* The benchmark; `timeout` sends an interrupt and then a kill.
Benchmark == (Step \/ Stopped \/ FinishFails \/ Kill) /\ Shared

CommitEarly == TRUE         \* mutant of CommitNow: the benchmark may still be running
CommitNow   == pc = "done"

\* `if: always()`: the commit step follows the benchmark step whatever became
\* of it.
CommitResults ==
    /\ CommitNow
    /\ UNCHANGED vars
    /\ Work(Job) \/ Fail(Job)

\* A rival waits for nothing; but what it does before this job's commit step is
\* independent of the benchmark, so only its order with that step matters.
RivalStep ==
    /\ pc = "done"
    /\ UNCHANGED vars
    /\ \/ \E w \in Rivals : Work(w) \/ Fail(w)
       \/ OtherPush

JobDone == /\ pc = "done" /\ \A w \in Writers : step[w] \in Final
           /\ UNCHANGED jobVars

JobNext == Benchmark \/ CommitResults \/ RivalStep \/ JobDone

\* The benchmark and the commit step go on; rivals may never push.
JobSpec == JobInit /\ [][JobNext]_jobVars
           /\ WF_jobVars(Step /\ Shared)
           /\ WF_jobVars(CommitNow /\ UNCHANGED vars /\ Work(Job))
-----------------------------------------------------------------------------
(* Properties.                                                             *)

\* Whatever interrupted the benchmark, and whatever became of the push: the
\* checkpoints on the branch can be read, and list all the arms but the one that
\* was being saved; of a run that ended in order nothing is missing.
CommittedIsReadable ==
    \A i \in 1..Len(remote) : remote[i].by = Job =>
        LET saved == remote[i].files
        IN  /\ \A n \in 1..Len(saved.manifest.arms) : n \in saved.raws /\ n \in saved.summaries
            /\ Len(saved.manifest.arms) >= Len(memory.arms) - 1
            /\ ended \in {"returned", "interrupted"} => saved.manifest = memory
            /\ saved.manifest.status = "complete" => Len(saved.manifest.arms) = Planned
=============================================================================
