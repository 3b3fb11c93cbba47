---------------------------- MODULE ResultsBranch ----------------------------
(***************************************************************************)
(* commit_actions_results.publish: a job commits its saved results to the  *)
(* benchmark-results branch from a worktree of its own clone, and tries    *)
(* three pushes, rebasing on what other writers pushed in the meantime.    *)
(*                                                                         *)
(* A view of the branch is the sequence of its commits, without the        *)
(* history of the main branch below them; the branch does not exist before *)
(* its first commit.  What a writer does in its own clone between two      *)
(* looks at origin is one step.  The result files have their run ids in    *)
(* their names, so two results saved to one destination lie beside each    *)
(* other there; they conflict only if they share a name, as that of        *)
(* experiment.yaml, and differ in it.                                      *)
(***************************************************************************)
EXTENDS Integers, Sequences

CONSTANTS
    Writers,  \* the runs of the script, each in its own clone
    Dest,     \* Dest[w]: results/actions/<run id>/<attempt>/<job id>
    Nothing,  \* no saved results
    Others,   \* bound: commits that others than the script push to the branch
    Faults    \* bound: pushes that fail for another reason than a race

ASSUME BranchAssumption ==
    /\ {Others, Faults} \subseteq Nat
    /\ "other" \notin Writers \cup {Dest[w] : w \in Writers}

Pushes == 3  \* range(3)

VARIABLES
    results,  \* what is in RESULTS_DIR of each writer
    remote,   \* the branch at origin
    step,     \* where each writer is
    tree,     \* the HEAD of its worktree
    pushes,   \* pushes it has tried
    faults,   \* faults so far, of all writers
    base      \* history: commits on the branch when it made its own

local      == <<step, tree, pushes, base>>
branchVars == <<results, remote, local, faults>>

Own(w) == [by |-> w, dest |-> Dest[w], files |-> results[w]]
Other  == [by |-> "other", dest |-> "other", files |-> "other"]

\* The branch implements an append-only log of commits.
Log == INSTANCE AppendOnly WITH log <- remote

NeverHolds(s, w) == FALSE  \* mutant of Holds: nobody looks whether the destination exists
Holds(s, w)      == \E i \in 1..Len(s) : s[i].dest = Dest[w]

\* The commit itself, or one with the same patch.
Upstream(s, w) == \E i \in 1..Len(s) : s[i].dest = Dest[w] /\ s[i].files = results[w]

\* The writer ends at s; its worktree is removed however it ends.
End(w, s) == /\ step' = [step EXCEPT ![w] = s]
             /\ tree' = [tree EXCEPT ![w] = <<>>]

Ready(w, commits) == /\ step' = [step EXCEPT ![w] = "push"]
                     /\ tree' = [tree EXCEPT ![w] = commits]

Final == {"saved", "nothing", "exists", "conflict", "failed", "gave_up"}

-----------------------------------------------------------------------------
BranchInit ==
    /\ remote = <<>>
    /\ step = [w \in Writers |-> "start"]
    /\ tree = [w \in Writers |-> <<>>]
    /\ pushes = [w \in Writers |-> 0] /\ base = [w \in Writers |-> 0]
    /\ faults = 0

\* ls-remote, fetch, a worktree at what it brought (at HEAD when there is no
\* branch yet), and a commit of the results: never to a destination that exists.
Prepare(w) ==
    /\ step[w] = "start"
    /\ base' = [base EXCEPT ![w] = Len(remote)]
    /\ IF results[w] = Nothing THEN End(w, "nothing")
       ELSE IF Holds(remote, w) THEN End(w, "exists")
       ELSE Ready(w, Append(remote, Own(w)))
    /\ UNCHANGED <<results, remote, pushes, faults>>

Forced(w)      == TRUE  \* mutant of FastForward: push --force
FastForward(w) == Log!Extends(tree[w], remote)

Accepted(w) ==
    /\ step[w] = "push" /\ FastForward(w)
    /\ remote' = tree[w]
    /\ End(w, "saved")
    /\ UNCHANGED <<results, pushes, faults, base>>

TwoTried(w) == pushes[w] + 1 = Pushes - 1  \* mutant of AllTried: an off-by-one
AllTried(w) == pushes[w] + 1 = Pushes

Fault == faults < Faults /\ faults' = faults + 1

\* A push returns an error: the branch has moved on, git failed, or the answer
\* to a push that was accepted is lost.  The third one raises.
Rejected(w) ==
    /\ step[w] = "push"
    /\ \/ ~FastForward(w) /\ UNCHANGED <<remote, faults>>
       \/ Fault /\ UNCHANGED remote
       \/ Fault /\ FastForward(w) /\ remote' = tree[w]
    /\ pushes' = [pushes EXCEPT ![w] = @ + 1]
    /\ IF AllTried(w) THEN End(w, "gave_up")
       ELSE step' = [step EXCEPT ![w] = "rebase"] /\ UNCHANGED tree
    /\ UNCHANGED <<results, base>>

Replayed(w) == Ready(w, IF Upstream(remote, w) THEN remote ELSE Append(remote, Own(w)))

\* fetch, and the own commit on top of theirs unless they have it.  Nobody looks
\* at the destination again: if somebody has filled it in the meantime, git finds
\* one name of both with two contents, or adds the own files to theirs.
Rebase(w) ==
    /\ step[w] = "rebase"
    /\ remote # <<>>
    /\ \/ Replayed(w)
       \/ Holds(remote, w) /\ ~Upstream(remote, w) /\ End(w, "conflict")
    /\ UNCHANGED <<results, remote, pushes, base, faults>>

\* A call of git raises (as the fetch of a branch that does not exist does), or
\* the job is cancelled.
Fail(w) ==
    /\ step[w] \notin Final
    /\ End(w, "failed")
    /\ UNCHANGED <<results, remote, pushes, base, faults>>

\* Somebody pushes to the branch by other means.
OtherPush ==
    /\ Len(SelectSeq(remote, LAMBDA c : c.by = "other")) < Others
    /\ remote' = Append(remote, Other)
    /\ UNCHANGED <<results, local, faults>>

Work(w) == Prepare(w) \/ Accepted(w) \/ Rejected(w) \/ Rebase(w)

BranchNext == (\E w \in Writers : Work(w) \/ Fail(w)) \/ OtherPush

BranchSpec == BranchInit /\ [][BranchNext]_branchVars
-----------------------------------------------------------------------------
(* Properties.                                                             *)

\* Whatever two writers, their retries and their deaths interleave to, no
\* pushed commit is ever dropped.
BranchIsALog == Log!Spec

\* A destination gets a second commit only in a race: from another writer, and
\* one that looked before the first commit was there.  So nobody adds to results
\* that were on the branch when it looked, and a push that was accepted and is
\* tried again is not a second commit.
TwiceOnlyInARace ==
    \A i, j \in 1..Len(remote) :
        i < j /\ remote[i].dest = remote[j].dest /\ remote[j].by # "other" =>
            remote[i].by # remote[j].by /\ base[remote[j].by] < i

\* A writer that says it saved has its results on the branch, and one that gave
\* up was overtaken, or failed by git, three times since it made its commit.
SavedOrOvertaken ==
    \A w \in Writers :
        /\ step[w] = "saved" => Upstream(remote, w)
        /\ step[w] = "gave_up" => Len(remote) - base[w] + faults >= Pushes
=============================================================================
