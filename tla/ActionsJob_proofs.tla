-------------------------- MODULE ActionsJob_proofs --------------------------
(***************************************************************************)
(* Theorems about a history experiment, about the results branch, and      *)
(* about the workflow job that puts them together: for any number of       *)
(* subjects, arms, writers, commits of others and pushes that fail, and a  *)
(* process stopped at any step.                                            *)
(***************************************************************************)
EXTENDS ActionsJob, FiniteSetTheorems, TLAPS

(***************************************************************************)
(* The job drives the experiment as it is, and is one writer of the branch *)
(* among others.  The files it will commit change only before anybody      *)
(* looks at the branch, so each part keeps its own theorems: those about   *)
(* the experiment hold of Spec and of JobSpec, those about the branch of   *)
(* BranchSpec and of JobSpec.                                              *)
(***************************************************************************)
Fills == BranchInit /\ UNCHANGED branch

\* The workflow lets the experiment run as it would alone.
LEMMA HistoryGoesOn == Spec \/ JobSpec => Init /\ [][Next]_vars
<1>1. [JobNext]_jobVars => [Next]_vars
  BY DEF JobNext, jobVars, Benchmark, CommitResults, RivalStep, JobDone, Next
<1> QED
  BY <1>1, PTL DEF Spec, JobSpec, JobInit

\* While the benchmark runs nobody has touched the branch.
Untouched == pc # "done" => BranchInit

\* The steps of the job on the branch are those of its writers.
LEMMA BranchGoesOn ==
    BranchSpec \/ JobSpec => BranchInit /\ [][BranchNext \/ Fills]_branchVars
<1>1. JobInit => Untouched
  BY DEF JobInit, Untouched
<1>2. Untouched /\ [JobNext]_jobVars => Untouched' /\ [BranchNext \/ Fills]_branchVars
  <2> SUFFICES ASSUME Untouched, [JobNext]_jobVars
               PROVE  Untouched' /\ [BranchNext \/ Fills]_branchVars
    OBVIOUS
  <2>1. CASE Benchmark
    <3>1. pc # "done"
      BY <2>1 DEF Benchmark, Step, Create, Baseline, OverloadAndRecover, Observe, SaveRaw,
                  SaveSummary, List, SaveManifest, Finish, Close, Stopped, FinishFails, Kill,
                  Inside
    <3>2. Fills
      BY <2>1, <3>1 DEF Benchmark, Shared, Untouched, Fills
    <3> QED
      BY <3>2 DEF Fills, BranchInit, Untouched, branch, local
  <2>2. CASE CommitResults
    BY <2>2, JobAssumption DEF CommitResults, CommitNow, BranchNext, Untouched, vars
  <2>3. CASE RivalStep
    BY <2>3 DEF RivalStep, Rivals, BranchNext, Untouched, vars
  <2>4. CASE JobDone \/ UNCHANGED jobVars
    BY <2>4 DEF JobDone, jobVars, branchVars, local, vars, Untouched, BranchInit
  <2> QED
    BY <2>1, <2>2, <2>3, <2>4 DEF JobNext
<1>3. [BranchNext]_branchVars => [BranchNext \/ Fills]_branchVars
  OBVIOUS
<1> QED
  BY <1>1, <1>2, <1>3, PTL DEF BranchSpec, JobSpec, JobInit

-----------------------------------------------------------------------------
(* The experiment.                                                         *)

\* The state of the process and of its artifacts is well formed.
THEOREM TypeCorrect == Spec \/ JobSpec => []TypeOK
<1>1. Init => TypeOK
  <2>1. Empty \in Manifests /\ Absent \in Manifests
    <3>1. <<>> \in Seq(Statuses)
      OBVIOUS
    <3> QED
      BY <3>1 DEF Manifests, Empty, Absent
  <2> QED
    BY <2>1, HistoryAssumption DEF Init, TypeOK, Inside
<1>2. TypeOK /\ [Next]_vars => TypeOK'
  <2> SUFFICES ASSUME TypeOK, [Next]_vars PROVE TypeOK'
    OBVIOUS
  <2>0. Number \in Nat \ {0}
    BY DEF TypeOK, Manifests, Number
  <2> USE HistoryAssumption DEF TypeOK, Inside, Manifests, Statuses, process, files
  <2>1. CASE Create
    BY <2>1 DEF Create
  <2>2. CASE Baseline
    BY <2>2 DEF Baseline, Unhealthy
  <2>3. CASE OverloadAndRecover
    BY <2>3 DEF OverloadAndRecover, Unhealthy
  <2>4. CASE Observe
    BY <2>4 DEF Observe
  <2>5. CASE SaveRaw
    BY <2>0, <2>5 DEF SaveRaw
  <2>6. CASE SaveSummary
    BY <2>0, <2>6 DEF SaveSummary
  <2>7. CASE List
    <3>1. memory' \in Manifests
      <4>1. memory.arms \in Seq(Statuses) /\ observed \in Statuses
        BY <2>7 DEF List
      <4>2. Append(memory.arms, observed) \in Seq(Statuses)
        BY <4>1
      <4>3. memory.saved_arms + 1 \in Nat /\ memory.observed_arms + 1 \in Nat
        OBVIOUS
      <4> HIDE DEF Statuses
      <4> QED
        BY <2>7, <4>2, <4>3 DEF List
    <3> QED
      BY <2>7, <3>1 DEF List
  <2>8. CASE SaveManifest
    BY <2>8 DEF SaveManifest, MoreArms
  <2>9. CASE Finish
    BY <2>9 DEF Finish, Outcome, Ended
  <2>10. CASE Close
    BY <2>10 DEF Close
  <2>11. CASE Stopped \/ FinishFails \/ Kill \/ Done
    BY <2>11 DEF Stopped, FinishFails, Kill, Done, vars
  <2>12. CASE UNCHANGED vars
    BY <2>12 DEF vars
  <2> QED
    BY <2>1, <2>2, <2>3, <2>4, <2>5, <2>6, <2>7, <2>8, <2>9, <2>10, <2>11, <2>12
       DEF Next, Step
<1> QED
  BY <1>1, <1>2, HistoryGoesOn, PTL

(***************************************************************************)
(* ListedAreWritten: the files of an arm are there before the writer lists *)
(* it, and the manifest on disk is one the writer has held.                *)
(***************************************************************************)
FilesFirst ==
    /\ \A n \in 1..Len(memory.arms) : n \in raws /\ n \in summaries
    /\ pc \in {"summary", "list"} => Number \in raws
    /\ pc = "list" => Number \in summaries
    /\ ListedAreWritten

\* Wherever the process dies, what manifest.yaml lists can be read.
THEOREM ListedSurvive == Spec \/ JobSpec => []ListedAreWritten
<1>1. Init => FilesFirst
  BY DEF Init, FilesFirst, ListedAreWritten, Empty, Absent
<1>2. TypeOK /\ FilesFirst /\ [Next]_vars => FilesFirst'
  <2> SUFFICES ASSUME TypeOK, FilesFirst, [Next]_vars PROVE FilesFirst'
    OBVIOUS
  <2> USE DEF FilesFirst, ListedAreWritten, Number, process, files
  <2>1. CASE Create \/ Close
    BY <2>1 DEF Create, Close
  <2>2. CASE Baseline \/ OverloadAndRecover \/ Observe
    BY <2>2 DEF Baseline, OverloadAndRecover, Observe, Unhealthy
  <2>3. CASE SaveRaw
    BY <2>3 DEF SaveRaw
  <2>4. CASE SaveSummary
    BY <2>4 DEF SaveSummary
  <2>5. CASE List
    <3>1. /\ memory.arms \in Seq(Statuses) /\ observed \in Statuses
          /\ memory'.arms = Append(memory.arms, observed)
      BY <2>5 DEF List, TypeOK, Manifests
    <3>2. Len(memory'.arms) = Len(memory.arms) + 1
      BY <3>1
    <3>3. \A n \in 1..Len(memory.arms) + 1 : n \in raws /\ n \in summaries
      BY <2>5, <3>1 DEF List
    <3>4. pc' = "manifest" /\ UNCHANGED <<disk, raws, summaries>>
      BY <2>5 DEF List
    <3> QED
      BY <3>2, <3>3, <3>4
  <2>6. CASE SaveManifest
    BY <2>6 DEF SaveManifest
  <2>7. CASE Finish
    <3>1. memory'.arms = memory.arms /\ pc' = "close" /\ UNCHANGED <<disk, raws, summaries>>
      BY <2>7 DEF Finish, Ended, TypeOK, Manifests
    <3> QED
      BY <3>1
  <2>8. CASE Stopped \/ FinishFails \/ Kill \/ Done \/ UNCHANGED vars
    BY <2>8 DEF Stopped, FinishFails, Kill, Done, vars
  <2> QED
    BY <2>1, <2>2, <2>3, <2>4, <2>5, <2>6, <2>7, <2>8 DEF Next, Step
<1>3. FilesFirst => ListedAreWritten
  BY DEF FilesFirst
<1> QED
  BY TypeCorrect, <1>1, <1>2, <1>3, HistoryGoesOn, PTL

(***************************************************************************)
(* AtMostOneBehind: the manifest on disk is behind only while an arm that  *)
(* was just listed has not been saved, or when nothing saved it any more.  *)
(***************************************************************************)
InStep ==
    /\ AtMostOneBehind
    /\ pc \in (Inside \ {"manifest"}) \cup {"create", "finish"} =>
          Len(disk.arms) = Len(memory.arms)

\* At most the arm being saved is missing from the manifest.
THEOREM OneArmAtRisk == Spec \/ JobSpec => []AtMostOneBehind
<1>1. Init => InStep
  BY DEF Init, InStep, AtMostOneBehind, Empty, Absent
<1>2. TypeOK /\ InStep /\ [Next]_vars => InStep'
  <2> SUFFICES ASSUME TypeOK, InStep, [Next]_vars PROVE InStep'
    OBVIOUS
  <2>0. Len(disk.arms) \in Nat /\ Len(memory.arms) \in Nat
    BY DEF TypeOK, Manifests
  <2> USE DEF InStep, AtMostOneBehind, Inside, process, files
  <2>1. CASE Create \/ SaveManifest \/ Close
    BY <2>0, <2>1 DEF Create, SaveManifest, MoreArms, Close
  <2>2. CASE Baseline \/ OverloadAndRecover \/ Observe \/ SaveRaw \/ SaveSummary
    BY <2>0, <2>2 DEF Baseline, OverloadAndRecover, Observe, Unhealthy, SaveRaw, SaveSummary
  <2>3. CASE List
    <3>1. /\ memory.arms \in Seq(Statuses) /\ observed \in Statuses
          /\ memory'.arms = Append(memory.arms, observed)
      BY <2>3 DEF List, TypeOK, Manifests
    <3>2. Len(memory'.arms) = Len(memory.arms) + 1
      BY <3>1
    <3>3. pc = "list" /\ pc' = "manifest" /\ disk' = disk
      BY <2>3 DEF List
    <3> QED
      BY <2>0, <3>2, <3>3
  <2>4. CASE Finish
    <3>1. memory'.arms = memory.arms /\ pc' = "close" /\ disk' = disk
      BY <2>4 DEF Finish, Ended, TypeOK, Manifests
    <3> QED
      BY <2>0, <3>1
  <2>5. CASE Stopped \/ FinishFails \/ Kill \/ Done \/ UNCHANGED vars
    BY <2>0, <2>5 DEF Stopped, FinishFails, Kill, Done, vars
  <2> QED
    BY <2>1, <2>2, <2>3, <2>4, <2>5 DEF Next, Step
<1>3. InStep => AtMostOneBehind
  BY DEF InStep
<1> QED
  BY TypeCorrect, <1>1, <1>2, <1>3, HistoryGoesOn, PTL

(***************************************************************************)
(* CountsMatch: the counters follow the entries.  That a run which counted *)
(* as many observed arms as it planned has saved no other arm needs a      *)
(* bound on the arms saved: the arm under way is one of those planned.     *)
(***************************************************************************)
Position    == (subject - 1) * Arms + arm
ObservedIn(s) == {n \in 1..Len(s) : s[n] = "observed"}

Counted(m) ==
    /\ m.saved_arms = Len(m.arms)
    /\ m.observed_arms = Cardinality(ObservedIn(m.arms))
    /\ m.status = "complete" =>
          Len(m.arms) = Planned /\ \A n \in 1..Planned : m.arms[n] = "observed"

Saving == pc \in (Inside \ {"manifest"}) \cup {"create"}

CountsInv ==
    /\ Counted(memory) /\ Counted(disk)
    /\ Len(memory.arms) <= Planned
    /\ Saving => Len(memory.arms) < Position
    /\ pc = "manifest" => Len(memory.arms) <= Position
    /\ pc \notin {"close", "done"} => memory.status # "complete"

\* The arm under way is one of those planned, and the next one is after it.
LEMMA PositionIsPlanned ==
    ASSUME TypeOK
    PROVE  /\ Position \in Nat /\ Planned \in Nat /\ Position <= Planned
           /\ subject < Subjects => Position < subject * Arms + 1
<1>1. subject \in 1..Subjects /\ arm \in 1..Arms /\ Subjects \in Nat /\ Arms \in Nat
  BY HistoryAssumption DEF TypeOK
<1>2. \A k, a \in Nat : k * a \in Nat
  OBVIOUS
<1>3. \A k, n, a \in Nat : k <= n => k * a <= n * a
  OBVIOUS
<1>4. (subject - 1) * Arms + Arms = subject * Arms
  BY <1>1
<1>5. subject * Arms <= Subjects * Arms
  BY <1>1, <1>3
<1>6. (subject - 1) * Arms \in Nat /\ subject * Arms \in Nat /\ Subjects * Arms \in Nat
  BY <1>1, <1>2
<1> QED
  BY <1>1, <1>4, <1>5, <1>6 DEF Position, Planned

\* An entry more is an observed entry more, if it is one.
LEMMA ObservedGrows ==
    ASSUME NEW s \in Seq(Statuses), NEW o \in Statuses
    PROVE  /\ Cardinality(ObservedIn(s)) \in Nat
           /\ Cardinality(ObservedIn(Append(s, o))) =
                 Cardinality(ObservedIn(s)) + (IF o = "observed" THEN 1 ELSE 0)
<1>0. Len(s) \in Nat /\ 1 \in Int /\ Len(s) \in Int
  OBVIOUS
<1>1. IsFiniteSet(1..Len(s)) /\ ObservedIn(s) \subseteq 1..Len(s)
  BY <1>0, FS_Interval DEF ObservedIn
<1>2. IsFiniteSet(ObservedIn(s)) /\ Cardinality(ObservedIn(s)) \in Nat
  BY <1>1, FS_Subset, FS_CardinalityType
<1>3. Len(s) + 1 \notin ObservedIn(s)
  BY DEF ObservedIn
<1>4. ObservedIn(Append(s, o)) =
         IF o = "observed" THEN ObservedIn(s) \cup {Len(s) + 1} ELSE ObservedIn(s)
  <2>1. /\ Len(Append(s, o)) = Len(s) + 1 /\ Append(s, o)[Len(s) + 1] = o
        /\ \A n \in 1..Len(s) : Append(s, o)[n] = s[n]
    OBVIOUS
  <2> QED
    BY <2>1 DEF ObservedIn
<1>5. Cardinality(ObservedIn(s) \cup {Len(s) + 1}) = Cardinality(ObservedIn(s)) + 1
  BY <1>2, <1>3, FS_AddElement
<1> QED
  BY <1>2, <1>4, <1>5

\* A manifest that counts as many observed arms as are planned, of no more arms
\* than that, lists exactly the planned ones, each observed.
LEMMA AllObserved ==
    ASSUME NEW s \in Seq(Statuses), Planned \in Nat, Len(s) <= Planned,
           Cardinality(ObservedIn(s)) = Planned
    PROVE  Len(s) = Planned /\ \A n \in 1..Planned : s[n] = "observed"
<1>0. Len(s) \in Nat /\ 1 \in Int /\ Len(s) \in Int
  OBVIOUS
<1>1. IsFiniteSet(1..Len(s)) /\ Cardinality(1..Len(s)) = Len(s)
  <2>1. \A n \in Nat : IsFiniteSet(1..n) /\ Cardinality(1..n) = IF 1 > n THEN 0 ELSE n - 1 + 1
    BY FS_Interval
  <2> QED
    BY <1>0, <2>1
<1>2. ObservedIn(s) \subseteq 1..Len(s)
  BY DEF ObservedIn
<1>3. Cardinality(ObservedIn(s)) <= Len(s)
  BY <1>1, <1>2, FS_Subset
<1>4. Len(s) = Planned
  BY <1>3
<1>5. ObservedIn(s) = 1..Len(s)
  BY <1>1, <1>2, <1>4, FS_Subset
<1> QED
  BY <1>4, <1>5 DEF ObservedIn

\* The counts of a manifest are those of its arms, and `complete` means that
\* every planned arm was observed, however many there are.
THEOREM CountsAreTrue == Spec \/ JobSpec => []CountsMatch
<1>1. Init => CountsInv
  <2> SUFFICES ASSUME Init PROVE CountsInv
    OBVIOUS
  <2>1. ObservedIn(<<>>) = {} /\ Cardinality({}) = 0
    BY FS_EmptySet DEF ObservedIn
  <2>2. Position = 1 /\ Planned \in Nat
    <3>1. \A a, b \in Nat : a * b \in Nat /\ 0 * a = 0
      OBVIOUS
    <3> QED
      BY <3>1, HistoryAssumption DEF Init, Position, Planned
  <2>3. /\ memory = Empty /\ disk.arms = <<>> /\ disk.saved_arms = 0 /\ disk.observed_arms = 0
        /\ disk.status = "absent" /\ pc = "create"
    BY DEF Init, Empty, Absent
  <2>4. Counted(memory) /\ Counted(disk)
    BY <2>1, <2>3 DEF Counted, Empty
  <2> QED
    BY <2>2, <2>3, <2>4 DEF CountsInv, Empty, Saving
<1>2. TypeOK /\ CountsInv /\ [Next]_vars => CountsInv'
  <2> SUFFICES ASSUME TypeOK, CountsInv, [Next]_vars PROVE CountsInv'
    OBVIOUS
  <2>0. /\ memory.arms \in Seq(Statuses) /\ Len(memory.arms) \in Nat
        /\ Position \in Nat /\ Planned \in Nat /\ Position <= Planned
    BY PositionIsPlanned DEF TypeOK, Manifests
  <2> USE DEF process, files, Saving, Inside
  <2>1. CASE Create \/ Close
    BY <2>1 DEF Create, Close, CountsInv, Position
  <2>2. CASE Baseline \/ OverloadAndRecover \/ Observe \/ SaveRaw \/ SaveSummary
    BY <2>2 DEF Baseline, OverloadAndRecover, Observe, Unhealthy, SaveRaw, SaveSummary,
                CountsInv, Position
  <2>3. CASE List
    <3>1. /\ observed \in Statuses /\ memory'.arms = Append(memory.arms, observed)
          /\ memory'.saved_arms = memory.saved_arms + 1 /\ memory'.status = memory.status
          /\ memory'.observed_arms =
                memory.observed_arms + (IF observed = "observed" THEN 1 ELSE 0)
          /\ pc = "list" /\ pc' = "manifest" /\ UNCHANGED <<subject, arm, disk>>
      BY <2>3 DEF List, TypeOK, Manifests
    <3>2. Len(memory'.arms) = Len(memory.arms) + 1
      BY <2>0, <3>1
    <3>3. Cardinality(ObservedIn(memory'.arms)) =
             Cardinality(ObservedIn(memory.arms)) + (IF observed = "observed" THEN 1 ELSE 0)
      BY <2>0, <3>1, ObservedGrows
    <3>4. Len(memory.arms) < Position /\ Position' = Position /\ memory.status # "complete"
      BY <3>1 DEF CountsInv, Position
    <3>5. Counted(memory')
      BY <3>1, <3>2, <3>3, <3>4 DEF CountsInv, Counted
    <3> QED
      BY <2>0, <3>1, <3>2, <3>4, <3>5 DEF CountsInv
  <2>4. CASE SaveManifest
    <3>1. /\ disk' = memory /\ memory' = memory /\ Len(memory.arms) <= Position
          /\ memory.status # "complete"
      BY <2>4 DEF SaveManifest, CountsInv
    <3>2. CASE MoreArms
      <4>1. Position' = Position + 1 /\ pc' = "baseline"
        BY <2>4, <3>2, HistoryAssumption DEF SaveManifest, Position, TypeOK
      <4> QED
        BY <2>0, <3>1, <4>1 DEF CountsInv
    <3>3. CASE ~MoreArms /\ subject < Subjects
      <4>1. subject' = subject + 1 /\ arm' = 1 /\ pc' = "baseline"
        BY <2>4, <3>3 DEF SaveManifest
      <4>2. Position < Position'
        <5>1. Position < subject * Arms + 1
          BY <3>3, PositionIsPlanned
        <5>2. Position' = subject * Arms + 1
          BY <4>1, HistoryAssumption DEF Position, TypeOK
        <5> QED
          BY <5>1, <5>2
      <4>3. Position' \in Int
        BY <4>1, HistoryAssumption DEF Position, TypeOK
      <4> QED
        BY <2>0, <3>1, <4>1, <4>2, <4>3 DEF CountsInv
    <3>4. CASE ~MoreArms /\ ~(subject < Subjects)
      BY <2>0, <2>4, <3>1, <3>4 DEF SaveManifest, CountsInv
    <3> QED
      BY <3>2, <3>3, <3>4
  <2>5. CASE Finish
    <3>1. /\ memory'.arms = memory.arms /\ memory'.saved_arms = memory.saved_arms
          /\ memory'.observed_arms = memory.observed_arms
          /\ memory'.status = (IF pc = "finish" THEN Outcome ELSE pc)
          /\ pc \in {"finish", "failed", "interrupted"} /\ pc' = "close" /\ disk' = disk
      BY <2>5 DEF Finish, Ended, TypeOK, Manifests
    <3>2. memory'.status = "complete" => memory.observed_arms = Planned
      BY <3>1 DEF Outcome
    <3>3. Counted(memory')
      BY <2>0, <3>1, <3>2, AllObserved DEF CountsInv, Counted
    <3> QED
      BY <3>1, <3>3 DEF CountsInv
  <2>6. CASE Stopped \/ FinishFails \/ Kill \/ Done \/ UNCHANGED vars
    BY <2>6 DEF Stopped, FinishFails, Kill, Done, vars, CountsInv, Position
  <2> QED
    BY <2>1, <2>2, <2>3, <2>4, <2>5, <2>6 DEF Next, Step
<1>3. CountsInv => CountsMatch
  BY DEF CountsInv, Counted, CountsMatch, ObservedIn
<1> QED
  BY TypeCorrect, <1>1, <1>2, <1>3, HistoryGoesOn, PTL

(***************************************************************************)
(* NothingTakenBack: what is on disk begins what the writer holds, and the *)
(* writer says how the run ended only in its last write.                   *)
(***************************************************************************)
OnlyGrows ==
    /\ Len(disk.arms) <= Len(memory.arms)
    /\ \A n \in 1..Len(disk.arms) : disk.arms[n] = memory.arms[n]
    /\ pc \notin {"close", "done"} => memory.status = "running"
    /\ pc # "done" => disk.status \in {"absent", "running"}

\* A sequence that begins another is the corresponding part of it.
LEMMA BeginningIsPart ==
    ASSUME NEW s \in Seq(Statuses), NEW t \in Seq(Statuses), Len(s) <= Len(t),
           \A n \in 1..Len(s) : s[n] = t[n]
    PROVE  SubSeq(t, 1, Len(s)) = s
<1>1. /\ Len(s) \in Nat /\ Len(t) \in Nat /\ s = [n \in 1..Len(s) |-> s[n]]
      /\ SubSeq(t, 1, Len(s)) = [n \in 1..Len(s) |-> t[n]]
  OBVIOUS
<1> QED
  BY <1>1

\* However often and wherever the process stops, no write of it takes an arm out
\* of the manifest, and the one that says how the run ended is the last.
THEOREM ManifestOnlyGrows == Spec \/ JobSpec => NothingTakenBack
<1> DEFINE Kept == /\ Len(disk.arms) <= Len(disk'.arms)
                   /\ SubSeq(disk'.arms, 1, Len(disk.arms)) = disk.arms
                   /\ disk.status \notin {"absent", "running"} => disk' = disk
<1>1. Init => OnlyGrows
  BY DEF Init, OnlyGrows, Empty, Absent
<1>2. TypeOK /\ OnlyGrows /\ [Next]_vars => OnlyGrows'
  <2> SUFFICES ASSUME TypeOK, OnlyGrows, [Next]_vars PROVE OnlyGrows'
    OBVIOUS
  <2>0. Len(disk.arms) \in Nat /\ Len(memory.arms) \in Nat /\ memory.arms \in Seq(Statuses)
    BY DEF TypeOK, Manifests
  <2> USE DEF OnlyGrows, Inside, process, files
  <2>1. CASE Create \/ SaveManifest \/ Close
    BY <2>0, <2>1 DEF Create, SaveManifest, MoreArms, Close
  <2>2. CASE Baseline \/ OverloadAndRecover \/ Observe \/ SaveRaw \/ SaveSummary
    BY <2>2 DEF Baseline, OverloadAndRecover, Observe, Unhealthy, SaveRaw, SaveSummary
  <2>3. CASE List
    <3>1. /\ memory.arms \in Seq(Statuses) /\ observed \in Statuses
          /\ memory'.arms = Append(memory.arms, observed) /\ memory'.status = memory.status
      BY <2>3 DEF List, TypeOK, Manifests
    <3>2. /\ Len(memory'.arms) = Len(memory.arms) + 1
          /\ \A n \in 1..Len(memory.arms) : memory'.arms[n] = memory.arms[n]
      BY <3>1
    <3>3. pc = "list" /\ pc' = "manifest" /\ disk' = disk
      BY <2>3 DEF List
    <3> QED
      BY <2>0, <3>1, <3>2, <3>3
  <2>4. CASE Finish
    <3>1. memory'.arms = memory.arms /\ pc' = "close" /\ disk' = disk /\ pc # "done"
      BY <2>4 DEF Finish, Ended, TypeOK, Manifests
    <3> QED
      BY <3>1
  <2>5. CASE Stopped \/ FinishFails \/ Kill \/ Done \/ UNCHANGED vars
    BY <2>5 DEF Stopped, FinishFails, Kill, Done, vars
  <2> QED
    BY <2>1, <2>2, <2>3, <2>4, <2>5 DEF Next, Step
<1>3. TypeOK /\ OnlyGrows /\ [Next]_vars => [Kept]_vars
  <2> SUFFICES ASSUME TypeOK, OnlyGrows, Next PROVE Kept
    BY DEF vars
  <2>0. disk.arms \in Seq(Statuses) /\ memory.arms \in Seq(Statuses)
    BY DEF TypeOK, Manifests
  <2>1. CASE disk' = disk
    BY <2>0, <2>1, BeginningIsPart
  <2>2. CASE Create \/ SaveManifest \/ Close
    <3>1. disk' = memory /\ pc # "done"
      BY <2>2 DEF Create, SaveManifest, Close
    <3> QED
      BY <2>0, <3>1, BeginningIsPart DEF OnlyGrows
  <2>3. disk' = disk \/ Create \/ SaveManifest \/ Close
    BY DEF Next, Step, Baseline, OverloadAndRecover, Observe, SaveRaw, SaveSummary, List,
           Finish, Stopped, FinishFails, Kill, Done, files, vars
  <2> QED
    BY <2>1, <2>2, <2>3
<1> QED
  BY TypeCorrect, <1>1, <1>2, <1>3, HistoryGoesOn, PTL DEF NothingTakenBack

-----------------------------------------------------------------------------
(* The branch.                                                             *)

Commits == [by    : Writers \cup {"other"},
            dest  : {Dest[w] : w \in Writers} \cup {"other"},
            files : {results[w] : w \in Writers} \cup {"other"}]

BranchType ==
    /\ remote \in Seq(Commits)
    /\ step \in [Writers -> Final \cup {"start", "push", "rebase"}]
    /\ tree \in [Writers -> Seq(Commits)]
    /\ pushes \in [Writers -> Nat] /\ base \in [Writers -> Nat]
    /\ faults \in Nat

\* The views of the branch are sequences of commits and the counters count.
THEOREM BranchTypeCorrect == BranchSpec \/ JobSpec => []BranchType
<1>1. BranchInit => BranchType
  BY DEF BranchInit, BranchType, Final
<1>2. BranchType /\ [BranchNext \/ Fills]_branchVars => BranchType'
  <2> SUFFICES ASSUME BranchType, [BranchNext \/ Fills]_branchVars PROVE BranchType'
    OBVIOUS
  <2>0. /\ \A w \in Writers : Own(w) \in Commits
        /\ Other \in Commits
    BY DEF Own, Other, Commits
  <2>1. ASSUME NEW w \in Writers, Work(w) \/ Fail(w) PROVE BranchType'
    <3>a. results' = results
      BY <2>1 DEF Work, Fail, Prepare, Accepted, Rejected, Rebase
    <3>b. Commits' = Commits
      BY <3>a DEF Commits
    <3>c. <<>> \in Seq(Commits)
      OBVIOUS
    <3>0. Commits' = Commits /\ <<>> \in Seq(Commits)
      BY <3>b, <3>c
    <3>1. \A s : End(w, s) /\ s \in Final =>
             /\ step' \in [Writers -> Final \cup {"start", "push", "rebase"}]
             /\ tree' \in [Writers -> Seq(Commits)]
      BY <3>0 DEF End, BranchType
    <3>2. \A c \in Seq(Commits) : Ready(w, c) =>
             /\ step' \in [Writers -> Final \cup {"start", "push", "rebase"}]
             /\ tree' \in [Writers -> Seq(Commits)]
      BY DEF Ready, BranchType
    <3>3. Append(remote, Own(w)) \in Seq(Commits)
      BY <2>0 DEF BranchType
    <3>4. CASE Prepare(w)
      <4>1. \/ End(w, "nothing") \/ End(w, "exists") \/ Ready(w, Append(remote, Own(w)))
        BY <3>4 DEF Prepare
      <4>2. /\ step' \in [Writers -> Final \cup {"start", "push", "rebase"}]
            /\ tree' \in [Writers -> Seq(Commits)]
        BY <4>1, <3>1, <3>2, <3>3 DEF Final
      <4>3. base' \in [Writers -> Nat] /\ remote' = remote /\ pushes' = pushes /\ faults' = faults
        BY <3>4 DEF Prepare, BranchType
      <4> QED
        BY <3>0, <4>2, <4>3 DEF BranchType
    <3>5. CASE Accepted(w)
      BY <3>0, <3>1, <3>5 DEF Accepted, BranchType, Final
    <3>6. CASE Rejected(w)
      <4>1. remote' \in Seq(Commits) /\ faults' \in Nat
        BY <3>6 DEF Rejected, Fault, BranchType
      <4>2. pushes' \in [Writers -> Nat] /\ base' \in [Writers -> Nat]
        BY <3>6 DEF Rejected, BranchType
      <4>3. /\ step' \in [Writers -> Final \cup {"start", "push", "rebase"}]
            /\ tree' \in [Writers -> Seq(Commits)]
        BY <3>1, <3>6 DEF Rejected, BranchType, Final
      <4> QED
        BY <3>0, <4>1, <4>2, <4>3 DEF BranchType
    <3>7. CASE Rebase(w)
      BY <3>0, <3>1, <3>2, <3>3, <3>7 DEF Rebase, Replayed, BranchType, Final
    <3>8. CASE Fail(w)
      BY <3>0, <3>1, <3>8 DEF Fail, BranchType, Final
    <3> QED
      BY <2>1, <3>4, <3>5, <3>6, <3>7, <3>8 DEF Work
  <2>2. CASE OtherPush
    <3>1. Commits' = Commits /\ Append(remote, Other) \in Seq(Commits)
      BY <2>0, <2>2 DEF OtherPush, Commits, BranchType
    <3> QED
      BY <2>2, <3>1 DEF OtherPush, BranchType, local
  <2>3. CASE UNCHANGED branchVars
    BY <2>3 DEF branchVars, local, BranchType, Commits
  <2>4. CASE Fills
    <3>1. BranchInit'
      BY <2>4 DEF Fills, BranchInit, branch, local
    <3> QED
      BY <3>1 DEF BranchInit, BranchType, Final
  <2> QED
    BY <2>1, <2>2, <2>3, <2>4 DEF BranchNext
<1> QED
  BY <1>1, <1>2, BranchGoesOn, PTL

\* Whoever pushes, the branch only grows.
LEMMA StepExtends == ASSUME BranchType, [BranchNext \/ Fills]_branchVars PROVE Log!Extends(remote', remote)
<1>0. \A c : Log!Extends(Append(remote, c), remote)
  BY DEF Log!Extends, BranchType
<1>1. Log!Extends(remote, remote)
  BY DEF Log!Extends, BranchType
<1>2. ASSUME NEW w \in Writers, Work(w) PROVE Log!Extends(remote', remote)
  BY <1>1, <1>2 DEF Work, Prepare, Accepted, Rejected, Rebase, FastForward
<1> QED
  BY <1>0, <1>1, <1>2 DEF BranchNext, Fail, OtherPush, branchVars, Fills, branch

\* The results branch implements the append-only log: no pushed commit is ever
\* dropped.
THEOREM BranchIsAppendOnly == BranchSpec \/ JobSpec => BranchIsALog
<1>1. BranchInit => Log!Init
  BY DEF BranchInit, Log!Init
<1>2. BranchType /\ [BranchNext \/ Fills]_branchVars => [Log!Next]_remote
  BY StepExtends DEF Log!Next
<1> QED
  BY <1>1, <1>2, BranchTypeCorrect, BranchGoesOn, PTL DEF BranchIsALog, Log!Spec

(***************************************************************************)
(* TwiceOnlyInARace: what a writer pushes is a view of the branch with its *)
(* own commit on top.  It does not add one to a view that has it already,  *)
(* and what lay on the branch when it looked was not at its destination.   *)
(***************************************************************************)
\* Of two commits to one destination, the second is by another writer, and one
\* whose b (its base) is below the first.
Raced(s, b) ==
    \A i, j \in 1..Len(s) :
        i < j /\ s[i].dest = s[j].dest /\ s[j].by # "other" =>
            s[i].by # s[j].by /\ b[s[j].by] < i

\* The commits of writers are their own, and none is of one that has not looked yet.
Authentic(s, st) ==
    \A i \in 1..Len(s) : s[i].by # "other" =>
        /\ s[i].dest = Dest[s[i].by] /\ s[i].files = results[s[i].by]
        /\ st[s[i].by] # "start"

Proper(s, b, st) == Raced(s, b) /\ Authentic(s, st)

Unseen(w) ==
    /\ base[w] <= Len(remote)
    /\ step[w] \in {"push", "rebase"} =>
          \A i \in 1..Len(remote) : i <= base[w] => remote[i].dest # Dest[w]

Races == /\ Proper(remote, base, step)
         /\ \A w \in Writers : step[w] = "push" => Proper(tree[w], base, step)
         /\ \A w \in Writers : Unseen(w)

\* A view stays proper while a writer that has no commit in it looks at the branch.
LEMMA StaysProper ==
    ASSUME NEW s \in Seq(Commits), NEW b, NEW c, NEW st, NEW ct, NEW w \in Writers,
           Proper(s, b, st),
           \A v \in Writers : v # w \/ st[w] # "start" => c[v] = b[v],
           \A v \in Writers : st[v] # "start" => ct[v] # "start"
    PROVE  Proper(s, c, ct)
<1>1. \A i \in 1..Len(s) : s[i].by # "other" => s[i].by \in Writers
  <2>1. \A e \in Commits : e.by \in Writers \cup {"other"}
    BY DEF Commits
  <2> QED
    BY <2>1
<1>2. \A i \in 1..Len(s) : s[i].by # "other" => c[s[i].by] = b[s[i].by] /\ ct[s[i].by] # "start"
  BY <1>1 DEF Proper, Authentic
<1> QED
  BY <1>2 DEF Proper, Raced, Authentic

\* A commit on top of a proper view.
LEMMA OneMoreProper ==
    ASSUME NEW s \in Seq(Commits), NEW b, NEW st, NEW c \in Commits, Proper(s, b, st),
           c.by # "other" =>
               /\ c.dest = Dest[c.by] /\ c.files = results[c.by] /\ st[c.by] # "start"
               /\ \A i \in 1..Len(s) : s[i].dest = c.dest => s[i].by # c.by /\ b[c.by] < i
    PROVE  Proper(Append(s, c), b, st)
<1> DEFINE t == Append(s, c)
<1>1. /\ Len(t) = Len(s) + 1 /\ Len(s) \in Nat
      /\ \A i \in 1..Len(s) : t[i] = s[i]
      /\ t[Len(s) + 1] = c
  OBVIOUS
<1> HIDE DEF t
<1>2. Authentic(t, st)
  <2> SUFFICES ASSUME NEW i \in 1..Len(t), t[i].by # "other"
               PROVE  /\ t[i].dest = Dest[t[i].by] /\ t[i].files = results[t[i].by]
                      /\ st[t[i].by] # "start"
    BY DEF Authentic
  <2>1. CASE i \in 1..Len(s)
    BY <1>1, <2>1 DEF Proper, Authentic
  <2>2. CASE i = Len(s) + 1
    BY <1>1, <2>2
  <2> QED
    BY <1>1, <2>1, <2>2
<1>3. Raced(t, b)
  <2> SUFFICES ASSUME NEW i \in 1..Len(t), NEW j \in 1..Len(t),
                      i < j, t[i].dest = t[j].dest, t[j].by # "other"
               PROVE  t[i].by # t[j].by /\ b[t[j].by] < i
    BY DEF Raced
  <2>0. i \in 1..Len(s) /\ t[i] = s[i]
    BY <1>1
  <2>1. CASE j \in 1..Len(s)
    BY <1>1, <2>0, <2>1 DEF Proper, Raced
  <2>2. CASE j = Len(s) + 1
    BY <1>1, <2>0, <2>2
  <2> QED
    BY <1>1, <2>1, <2>2
<1> QED
  BY <1>2, <1>3 DEF t, Proper

\* A writer's own commit on top of the branch, if the branch does not have it and
\* had nothing at its destination when the writer looked.
LEMMA OwnCommitIsProper ==
    ASSUME BranchType, NEW w \in Writers, NEW b, NEW st, Proper(remote, b, st),
           st[w] # "start", ~Upstream(remote, w), b[w] \in Nat,
           \A i \in 1..Len(remote) : i <= b[w] => remote[i].dest # Dest[w]
    PROVE  Proper(Append(remote, Own(w)), b, st)
<1>1. /\ Own(w) \in Commits
      /\ Own(w).by = w /\ Own(w).dest = Dest[w] /\ Own(w).files = results[w]
  BY DEF Own, Commits
<1>2. ASSUME NEW i \in 1..Len(remote), remote[i].dest = Dest[w] PROVE remote[i].by # w /\ b[w] < i
  <2>1. remote[i].by # w
    BY <1>2, BranchAssumption DEF Proper, Authentic, Upstream
  <2> QED
    BY <1>2, <2>1
<1> QED
  BY <1>1, <1>2, OneMoreProper DEF BranchType

\* The view of the branch and what a writer has seen of it, after a step of w.
LEMMA RemoteStaysProper ==
    ASSUME BranchType, BranchType', Races, NEW w \in Writers, Work(w) \/ Fail(w)
    PROVE  /\ \A s \in Seq(Commits) : Proper(s, base, step) => Proper(s, base', step')
           /\ Proper(remote', base', step')
           /\ \A v \in Writers : Unseen(v)'
<1>0. Log!Extends(remote', remote)
  BY StepExtends DEF BranchNext
<1>1. /\ \A v \in Writers : v # w \/ step[w] # "start" => base'[v] = base[v]
      /\ \A v \in Writers : step[v] # "start" => step'[v] # "start"
      /\ \A v \in Writers \ {w} : step'[v] = step[v]
  <2>1. \/ base' = base
        \/ step[w] = "start" /\ base' = [base EXCEPT ![w] = Len(remote)]
    BY DEF Work, Prepare, Accepted, Rejected, Rebase, Fail
  <2>2. \E l \in Final \cup {"push", "rebase"} : step' = [step EXCEPT ![w] = l]
    BY DEF Work, Prepare, Accepted, Rejected, Rebase, Replayed, Fail, Ready, End, Final
  <2> QED
    BY <2>1, <2>2 DEF BranchType, Final
<1>2. ASSUME NEW s \in Seq(Commits), Proper(s, base, step) PROVE Proper(s, base', step')
  BY <1>1, <1>2, StaysProper
<1>3. Proper(remote', base', step')
  <2>1. remote' = remote \/ (step[w] = "push" /\ remote' = tree[w])
    BY DEF Work, Prepare, Accepted, Rejected, Rebase, Fail
  <2>2. Proper(remote', base, step) /\ remote' \in Seq(Commits)
    BY <2>1 DEF Races, BranchType
  <2> QED
    BY <1>2, <2>2
<1>4. ASSUME NEW v \in Writers PROVE Unseen(v)'
  <2>0. /\ Len(remote) \in Nat /\ Len(remote') \in Nat /\ Len(remote) <= Len(remote')
        /\ \A i \in 1..Len(remote) : remote'[i] = remote[i]
        /\ base[v] \in Nat /\ Unseen(v)
    BY <1>0 DEF Log!Extends, BranchType, Races
  <2>1. CASE base'[v] = base[v] /\ (step'[v] \in {"push", "rebase"} => step[v] \in {"push", "rebase"})
    <3>1. base'[v] <= Len(remote')
      BY <2>0, <2>1 DEF Unseen
    <3>2. ASSUME step'[v] \in {"push", "rebase"}, NEW i \in 1..Len(remote'), i <= base'[v]
          PROVE  remote'[i].dest # Dest[v]
      <4>1. i \in 1..Len(remote) /\ i <= base[v]
        BY <2>0, <2>1, <3>2 DEF Unseen
      <4> QED
        BY <2>0, <2>1, <3>2, <4>1 DEF Unseen
    <3> QED
      BY <3>1, <3>2 DEF Unseen
  <2>2. CASE v = w /\ Prepare(w)
    <3>1. remote' = remote /\ base'[w] = Len(remote)
      BY <2>2 DEF Prepare, BranchType
    <3>2. step'[w] = "push" => ~Holds(remote, w)
      BY <2>2 DEF Prepare, End, BranchType
    <3>3. step'[w] # "rebase"
      BY <2>2 DEF Prepare, End, Ready, BranchType
    <3> QED
      BY <2>0, <2>2, <3>1, <3>2, <3>3 DEF Unseen, Holds
  <2>3. CASE v = w /\ ~Prepare(w)
    <3>1. (base' = base /\ step[w] \in {"push", "rebase"}) \/ Fail(w)
      BY <2>3 DEF Work, Accepted, Rejected, Rebase
    <3>2. Fail(w) => base' = base /\ step'[w] = "failed"
      BY DEF Fail, End, BranchType
    <3> QED
      BY <2>1, <2>3, <3>1, <3>2
  <2>4. CASE v # w
    BY <1>1, <2>1, <2>4
  <2> QED
    BY <2>2, <2>3, <2>4
<1> QED
  BY <1>2, <1>3, <1>4

\* Two writers that save to one place, and one that tries an accepted push
\* again, leave two commits there only if both looked before there was one.
THEOREM CommittedTwiceOnlyByRace == BranchSpec \/ JobSpec => []TwiceOnlyInARace
<1>1. BranchInit => Races
  BY DEF BranchInit, Races, Proper, Raced, Authentic, Unseen
<1>2. BranchType /\ BranchType' /\ Races /\ [BranchNext \/ Fills]_branchVars => Races'
  <2> SUFFICES ASSUME BranchType, BranchType', Races, [BranchNext \/ Fills]_branchVars PROVE Races'
    OBVIOUS
  <2>1. ASSUME NEW w \in Writers, Work(w) \/ Fail(w) PROVE Races'
    <3>0. /\ results' = results
          /\ \A s \in Seq(Commits) : Proper(s, base, step) => Proper(s, base', step')
          /\ Proper(remote', base', step') /\ \A v \in Writers : Unseen(v)'
      BY <2>1, RemoteStaysProper DEF Work, Prepare, Accepted, Rejected, Rebase, Fail
    <3>1. ASSUME NEW v \in Writers \ {w}, step'[v] = "push" PROVE Proper(tree'[v], base', step')
      <4>1. step[v] = "push" /\ tree'[v] = tree[v] /\ tree[v] \in Seq(Commits)
        BY <2>1, <3>1 DEF Work, Prepare, Accepted, Rejected, Rebase, Replayed, Fail, Ready, End, BranchType
      <4> QED
        BY <3>0, <4>1 DEF Races
    <3>2. ASSUME step'[w] = "push" PROVE Proper(tree'[w], base', step')
      <4>0. Prepare(w) \/ Rebase(w)
        BY <2>1, <3>2 DEF Work, Accepted, Rejected, Fail, End, BranchType
      <4>1. remote' = remote /\ base'[w] \in Nat
        BY <4>0 DEF Prepare, Rebase, BranchType
      <4>2. \/ tree'[w] = remote
            \/ ~Upstream(remote, w) /\ tree'[w] = Append(remote, Own(w))
        <5>1. CASE Prepare(w)
          BY <3>2, <5>1 DEF Prepare, Ready, End, Holds, Upstream, BranchType
        <5>2. CASE Rebase(w)
          BY <3>2, <5>2 DEF Rebase, Replayed, Ready, End, BranchType
        <5> QED
          BY <4>0, <5>1, <5>2
      <4>3. \A i \in 1..Len(remote) : i <= base'[w] => remote[i].dest # Dest[w]
        BY <3>0, <3>2, <4>1 DEF Unseen
      <4> QED
        BY <3>0, <3>2, <4>1, <4>2, <4>3, OwnCommitIsProper
    <3>3. Proper(remote, base, step)' /\ \A v \in Writers : step'[v] = "push" => Proper(tree[v], base, step)'
      BY <3>0, <3>1, <3>2 DEF Proper, Raced, Authentic
    <3> QED
      BY <3>0, <3>3 DEF Races
  <2>2. CASE OtherPush
    <3>1. /\ results' = results /\ step' = step /\ tree' = tree /\ base' = base
          /\ remote' = Append(remote, Other) /\ Other.by = "other" /\ Other \in Commits
      BY <2>2 DEF OtherPush, local, Other, Commits
    <3>2. Proper(remote', base, step)
      BY <3>1, OneMoreProper DEF Races, BranchType
    <3>3. /\ Len(remote') = Len(remote) + 1 /\ Len(remote) \in Nat
          /\ \A i \in 1..Len(remote) : remote'[i] = remote[i]
          /\ \A v \in Writers : base[v] \in Nat
      BY <3>1 DEF BranchType
    <3>4. \A v \in Writers : Unseen(v)'
      BY <3>1, <3>3 DEF Races, Unseen
    <3> QED
      BY <3>1, <3>2, <3>4 DEF Races, Proper, Raced, Authentic
  <2>3. CASE UNCHANGED branchVars
    BY <2>3 DEF branchVars, local, Races, Proper, Raced, Authentic, Unseen
  <2>4. CASE Fills
    <3>1. BranchInit'
      BY <2>4 DEF Fills, BranchInit, branch, local
    <3> QED
      BY <3>1 DEF BranchInit, Races, Proper, Raced, Authentic, Unseen
  <2> QED
    BY <2>1, <2>2, <2>3, <2>4 DEF BranchNext
<1>3. Races => TwiceOnlyInARace
  BY DEF Races, Proper, Raced, TwiceOnlyInARace
<1> QED
  BY <1>1, <1>2, <1>3, BranchTypeCorrect, BranchGoesOn, PTL

(***************************************************************************)
(* SavedOrOvertaken: a worktree holds the branch as it was when a writer   *)
(* last looked at it, and the own commit; every rejected push is answered  *)
(* by a commit since then, or by a fault.                                  *)
(***************************************************************************)
Based(w, n) ==
    /\ \A i \in 1..n : tree[w][i] = remote[i]
    /\ \/ Len(tree[w]) = n
       \/ Len(tree[w]) = n + 1
    /\ base[w] <= n /\ pushes[w] <= n - base[w] + faults

Overtaken(w) ==
    /\ base[w] <= Len(remote)
    /\ pushes[w] <= Len(remote) - base[w] + faults
    /\ step[w] = "start" => pushes[w] = 0
    /\ step[w] = "push" => /\ Upstream(tree[w], w)
                           /\ \E n \in 0..Len(remote) : Based(w, n)
    /\ step[w] = "saved" => Upstream(remote, w)
    /\ step[w] = "gave_up" => Len(remote) - base[w] + faults >= Pushes

\* A writer is not disturbed by what others do.
LEMMA OthersOvertake ==
    ASSUME BranchType, BranchType', NEW v \in Writers, Overtaken(v),
           Log!Extends(remote', remote), faults' >= faults, results' = results,
           step'[v] = step[v], tree'[v] = tree[v], pushes'[v] = pushes[v], base'[v] = base[v]
    PROVE  Overtaken(v)'
<1>1. /\ Len(remote) \in Nat /\ Len(remote') \in Nat /\ Len(remote) <= Len(remote')
      /\ \A i \in 1..Len(remote) : remote'[i] = remote[i]
  BY DEF Log!Extends, BranchType
<1>2. base[v] \in Nat /\ pushes[v] \in Nat /\ faults \in Nat /\ faults' \in Nat
  BY DEF BranchType
<1>3. step[v] = "push" => Upstream(tree[v], v)'
  BY DEF Overtaken, Upstream
<1>4. ASSUME NEW n \in 0..Len(remote), Based(v, n) PROVE Based(v, n)'
  <2>1. \A i \in 1..n : tree'[v][i] = remote'[i]
    BY <1>1, <1>4 DEF Based
  <2>2. /\ Len(tree'[v]) = n \/ Len(tree'[v]) = n + 1
        /\ base'[v] <= n
    BY <1>4 DEF Based
  <2>3. pushes'[v] <= n - base'[v] + faults'
    BY <1>1, <1>2, <1>4 DEF Based
  <2> QED
    BY <2>1, <2>2, <2>3 DEF Based
<1>5. step[v] = "saved" => Upstream(remote, v)'
  BY <1>1 DEF Overtaken, Upstream
<1>6. \A n \in 0..Len(remote) : n \in 0..Len(remote')
  BY <1>1
<1>7. step'[v] = "push" => \E n \in 0..Len(remote') : Based(v, n)'
  BY <1>4, <1>6 DEF Overtaken
<1> QED
  BY <1>1, <1>2, <1>3, <1>5, <1>7 DEF Overtaken, Pushes

LEMMA FreshTree ==
    ASSUME BranchType, BranchType', NEW w \in Writers,
           remote' = remote, faults' = faults, results' = results,
           step'[w] = "push",
           tree'[w] = Append(remote, Own(w)) \/ (tree'[w] = remote /\ Upstream(remote, w)),
           base'[w] <= Len(remote), pushes'[w] <= Len(remote) - base'[w] + faults
    PROVE  Overtaken(w)'
<1>1. Len(remote) \in Nat
  BY DEF BranchType
<1>2. Own(w).dest = Dest[w] /\ Own(w).files = results[w]
  BY DEF Own
<1>3. CASE tree'[w] = Append(remote, Own(w))
  <2>1. /\ Len(tree'[w]) = Len(remote) + 1 /\ tree'[w][Len(remote) + 1] = Own(w)
        /\ \A i \in 1..Len(remote) : tree'[w][i] = remote[i]
    BY <1>3 DEF BranchType
  <2>2. Based(w, Len(remote))'
    BY <2>1 DEF Based
  <2>3. Upstream(tree[w], w)'
    BY <1>1, <1>2, <2>1 DEF Upstream
  <2> QED
    BY <1>1, <2>2, <2>3 DEF Overtaken
<1>4. CASE tree'[w] = remote /\ Upstream(remote, w)
  <2>1. Based(w, Len(remote))'
    BY <1>4 DEF Based
  <2>2. Upstream(tree[w], w)'
    BY <1>4 DEF Upstream
  <2> QED
    BY <1>1, <2>1, <2>2 DEF Overtaken
<1> QED
  BY <1>3, <1>4

\* A push that is no fast-forward follows a commit since the writer last looked.
LEMMA RejectedIsLate ==
    ASSUME BranchType, NEW w \in Writers, NEW n \in 0..Len(remote), Based(w, n), ~FastForward(w)
    PROVE  n < Len(remote)
<1>1. Len(remote) \in Nat /\ Len(tree[w]) \in Nat
  BY DEF BranchType
<1>2. n = Len(remote) => Log!Extends(tree[w], remote)
  BY <1>1 DEF Based, Log!Extends
<1> QED
  BY <1>1, <1>2 DEF FastForward

\* A writer that says it saved has its results on the branch; one that gave up
\* was overtaken, or failed by git, in each of its three pushes.
THEOREM SavedUnlessOvertaken == BranchSpec \/ JobSpec => []SavedOrOvertaken
<1> DEFINE Inv == \A w \in Writers : Overtaken(w)
<1>1. BranchInit => Inv
  <2> SUFFICES ASSUME BranchInit, NEW w \in Writers PROVE Overtaken(w)
    OBVIOUS
  <2>1. step[w] = "start" /\ pushes[w] = 0 /\ base[w] = 0 /\ faults = 0 /\ Len(remote) = 0
    BY DEF BranchInit
  <2> QED
    BY <2>1 DEF Overtaken
<1>2. BranchType /\ BranchType' /\ Inv /\ [BranchNext \/ Fills]_branchVars => Inv'
  <2> SUFFICES ASSUME BranchType, BranchType', Inv, [BranchNext \/ Fills]_branchVars PROVE Inv'
    OBVIOUS
  <2>0. Log!Extends(remote', remote)
    BY StepExtends
  <2>1. ASSUME NEW w \in Writers, Work(w) \/ Fail(w) PROVE Inv'
    <3>0. /\ results' = results
          /\ faults' \in Nat /\ faults \in Nat /\ faults' >= faults
      BY <2>1 DEF Work, Fail, Prepare, Accepted, Rejected, Rebase, Fault, BranchType
    <3>1. ASSUME NEW v \in Writers \ {w} PROVE Overtaken(v)'
      <4>1. /\ step'[v] = step[v] /\ tree'[v] = tree[v]
            /\ pushes'[v] = pushes[v] /\ base'[v] = base[v]
        BY <2>1 DEF Work, Prepare, Accepted, Rejected, Rebase, Replayed, Fail, Ready, End, BranchType
      <4> QED
        BY <2>0, <3>0, <4>1, OthersOvertake
    <3>2. Overtaken(w)'
      <4>0. /\ base[w] \in Nat /\ pushes[w] \in Nat /\ Len(remote) \in Nat /\ faults \in Nat
            /\ Overtaken(w)
        BY DEF BranchType
      <4>1. CASE Prepare(w)
        <5>0. /\ base'[w] = Len(remote) /\ pushes'[w] = 0 /\ remote' = remote /\ faults' = faults
          BY <4>0, <4>1 DEF Prepare, Overtaken, BranchType
        <5>1. CASE End(w, "nothing") \/ End(w, "exists")
          BY <4>0, <5>0, <5>1 DEF End, Overtaken, BranchType
        <5>2. CASE Ready(w, Append(remote, Own(w)))
          <6>1. step'[w] = "push" /\ tree'[w] = Append(remote, Own(w))
            BY <5>2 DEF Ready, BranchType
          <6> QED
            BY <3>0, <4>0, <5>0, <6>1, FreshTree
        <5> QED
          BY <4>1, <5>1, <5>2 DEF Prepare
      <4>2. CASE Accepted(w)
        <5>1. /\ step'[w] = "saved" /\ remote' = tree[w] /\ step[w] = "push"
              /\ pushes' = pushes /\ base' = base /\ faults' = faults
          BY <4>2 DEF Accepted, End, BranchType
        <5>2. Upstream(remote, w)'
          BY <3>0, <4>0, <5>1 DEF Overtaken, Upstream
        <5>3. Len(remote') \in Nat /\ Len(remote) <= Len(remote')
          BY <2>0 DEF Log!Extends, BranchType
        <5> QED
          BY <4>0, <5>1, <5>2, <5>3 DEF Overtaken
      <4>3. CASE Rejected(w)
        <5>0. PICK n \in 0..Len(remote) : Based(w, n)
          BY <4>0, <4>3 DEF Rejected, Overtaken
        <5>1. base' = base /\ pushes'[w] = pushes[w] + 1
          BY <4>3 DEF Rejected, BranchType
        <5>2. Len(remote') \in Nat /\ Len(remote) <= Len(remote')
          BY <2>0 DEF Log!Extends, BranchType
        <5>3. pushes[w] + 1 <= Len(remote') - base[w] + faults'
          <6>1. CASE ~FastForward(w)
            <7>1. n < Len(remote) /\ n \in Nat
              BY <4>0, <5>0, <6>1, RejectedIsLate
            <7>2. pushes[w] <= n - base[w] + faults
              BY <5>0 DEF Based
            <7> QED
              BY <3>0, <4>0, <5>2, <7>1, <7>2
          <6>2. CASE Fault
            BY <4>0, <5>0, <5>2, <6>2 DEF Based, Fault
          <6> QED
            BY <4>3, <6>1, <6>2 DEF Rejected
        <5>4. \/ step'[w] = "gave_up" /\ pushes[w] + 1 = Pushes
              \/ step'[w] = "rebase"
          BY <4>3 DEF Rejected, AllTried, End, BranchType
        <5>5. base[w] <= Len(remote)
          BY <4>0 DEF Overtaken
        <5>6. base'[w] = base[w] /\ pushes'[w] \in Nat
          BY <4>0, <5>1
        <5>7. /\ base'[w] <= Len(remote')
              /\ pushes'[w] <= Len(remote') - base'[w] + faults'
          BY <4>0, <5>1, <5>2, <5>3, <5>5, <5>6
        <5>8. step'[w] = "gave_up" => Len(remote') - base'[w] + faults' >= Pushes
          BY <3>0, <4>0, <5>1, <5>2, <5>4, <5>6, <5>7 DEF Pushes
        <5> QED
          BY <5>4, <5>7, <5>8 DEF Overtaken
      <4>4. CASE Rebase(w)
        <5>0. /\ pushes' = pushes /\ base' = base /\ remote' = remote /\ faults' = faults
          BY <4>4 DEF Rebase
        <5>1. CASE End(w, "conflict")
          <6>1. step'[w] = "conflict"
            BY <5>1 DEF End, BranchType
          <6> QED
            BY <4>0, <5>0, <6>1 DEF Overtaken
        <5>2. CASE Replayed(w)
          <6>1. /\ step'[w] = "push"
                /\ tree'[w] = Append(remote, Own(w)) \/ (tree'[w] = remote /\ Upstream(remote, w))
            BY <5>2 DEF Replayed, Ready, BranchType
          <6> QED
            BY <3>0, <4>0, <5>0, <6>1, FreshTree DEF Overtaken
        <5> QED
          BY <4>4, <5>1, <5>2 DEF Rebase
      <4>5. CASE Fail(w)
        <5>1. /\ step'[w] = "failed" /\ pushes' = pushes /\ base' = base
              /\ remote' = remote /\ faults' = faults
          BY <4>5 DEF Fail, End, BranchType
        <5> QED
          BY <4>0, <5>1 DEF Overtaken
      <4> QED
        BY <2>1, <4>1, <4>2, <4>3, <4>4, <4>5 DEF Work
    <3> QED
      BY <3>1, <3>2
  <2>2. CASE OtherPush
    BY <2>0, <2>2, OthersOvertake DEF OtherPush, local, BranchType
  <2>3. CASE UNCHANGED branchVars
    BY <2>3 DEF branchVars, local, Overtaken, Based, Upstream
  <2>4. CASE Fills
    <3> SUFFICES ASSUME NEW w \in Writers PROVE Overtaken(w)'
      OBVIOUS
    <3>1. /\ step'[w] = "start" /\ pushes'[w] = 0 /\ base'[w] = 0
          /\ faults' = 0 /\ Len(remote') = 0
      BY <2>4 DEF Fills, BranchInit, branch, local
    <3> QED
      BY <3>1 DEF Overtaken
  <2> QED
    BY <2>1, <2>2, <2>3, <2>4 DEF BranchNext
<1>3. Inv => SavedOrOvertaken
  BY DEF Overtaken, SavedOrOvertaken
<1> QED
  BY <1>1, <1>2, <1>3, BranchTypeCorrect, BranchGoesOn, PTL

-----------------------------------------------------------------------------
(* The job.                                                                *)

(***************************************************************************)
(* CommittedIsReadable: what the job commits is what is in results/, which *)
(* does not change any more; so it is as complete as the experiment left   *)
(* it, which ListedAreWritten, CountsMatch and AtMostOneBehind say.        *)
(***************************************************************************)
Unaltered(s) == \A i \in 1..Len(s) : s[i].by = Job => s[i].files = Snapshot

CommitsSnapshot ==
    /\ Untouched
    /\ results \in [Writers -> {results[w] : w \in Writers}]
    /\ results[Job] = Snapshot
    /\ Unaltered(remote) /\ \A w \in Writers : Unaltered(tree[w])

\* A view of the branch with one more commit still holds the job's own files.
LEMMA OneMoreCommit ==
    ASSUME BranchType, CommitsSnapshot
    PROVE  /\ \A w \in Writers : Unaltered(Append(remote, Own(w)))
           /\ Unaltered(Append(remote, Other))
           /\ Unaltered(<<>>)
<1>1. \A c \in Commits : (c.by = Job => c.files = Snapshot) => Unaltered(Append(remote, c))
  <2> SUFFICES ASSUME NEW c \in Commits, c.by = Job => c.files = Snapshot
               PROVE  Unaltered(Append(remote, c))
    OBVIOUS
  <2>1. /\ Len(Append(remote, c)) = Len(remote) + 1 /\ Len(remote) \in Nat
        /\ \A i \in 1..Len(remote) : Append(remote, c)[i] = remote[i]
        /\ Append(remote, c)[Len(remote) + 1] = c
    BY DEF BranchType
  <2> QED
    BY <2>1 DEF CommitsSnapshot, Unaltered
<1>2. /\ Other \in Commits /\ Other.by # Job
      /\ \A w \in Writers : Own(w) \in Commits /\ (Own(w).by = Job => Own(w).files = Snapshot)
  BY BranchAssumption, JobAssumption DEF Other, Own, Commits, CommitsSnapshot
<1> QED
  BY <1>1, <1>2 DEF Unaltered

\* Nobody adds other files in the name of the job.
LEMMA SnapshotNext ==
    ASSUME BranchType, CommitsSnapshot, [JobNext]_jobVars
    PROVE  CommitsSnapshot'
<1>1. CASE Benchmark
  <2>1. BranchInit /\ UNCHANGED branch
    BY <1>1 DEF Benchmark, Shared, CommitsSnapshot, Untouched, Step, Create, Baseline,
                OverloadAndRecover, Observe, SaveRaw, SaveSummary, List, SaveManifest, Finish,
                Close, Stopped, FinishFails, Kill, Inside
  <2>2. results' = [results EXCEPT ![Job] = Snapshot']
    BY <1>1 DEF Benchmark, Shared
  <2>3. results'[Job] = Snapshot' /\ results' \in [Writers -> {results'[w] : w \in Writers}]
    BY <2>2, JobAssumption DEF CommitsSnapshot
  <2>4. BranchInit' /\ Untouched'
    BY <2>1 DEF BranchInit, branch, local, Untouched
  <2>5. remote' = <<>> /\ \A w \in Writers : tree'[w] = <<>>
    BY <2>4 DEF BranchInit
  <2>6. \A i \in 1..Len(<<>>) : FALSE
    OBVIOUS
  <2> QED
    BY <2>3, <2>4, <2>5, <2>6 DEF CommitsSnapshot, Unaltered
<1>2. CASE CommitResults \/ RivalStep
  <2>1. /\ UNCHANGED vars /\ pc = "done"
        /\ OtherPush \/ \E w \in Writers : Work(w) \/ Fail(w)
    BY <1>2, JobAssumption DEF CommitResults, CommitNow, RivalStep, Rivals
  <2>2. Snapshot' = Snapshot /\ Untouched' /\ results' = results
    BY <2>1 DEF vars, files, Snapshot, Untouched, OtherPush, Work, Fail, Prepare, Accepted,
                Rejected, Rebase
  <2>3. CASE OtherPush
    BY <2>2, <2>3, OneMoreCommit DEF OtherPush, local, CommitsSnapshot, Unaltered
  <2>4. ASSUME NEW w \in Writers, Work(w) \/ Fail(w) PROVE CommitsSnapshot'
    <3>1. remote' \in {remote, tree[w]}
      BY <2>4 DEF Work, Fail, Prepare, Accepted, Rejected, Rebase
    <3>2. \A v \in Writers : tree'[v] \in {tree[v], <<>>, remote, Append(remote, Own(w))}
      <4>1. \/ tree' = tree
            \/ tree' = [tree EXCEPT ![w] = <<>>]
            \/ tree' = [tree EXCEPT ![w] = remote]
            \/ tree' = [tree EXCEPT ![w] = Append(remote, Own(w))]
        BY <2>4 DEF Work, Fail, Prepare, Accepted, Rejected, Rebase, Replayed, Ready, End
      <4> QED
        BY <4>1 DEF BranchType
    <3>3. \A s : Unaltered(s)' <=> Unaltered(s)
      BY <2>2 DEF Unaltered
    <3>4. Unaltered(remote') /\ \A v \in Writers : Unaltered(tree'[v])
      BY <3>1, <3>2, OneMoreCommit DEF CommitsSnapshot
    <3>5. Unaltered(remote)' /\ \A v \in Writers : Unaltered(tree[v])'
      BY <2>2, <3>4 DEF Unaltered
    <3> QED
      BY <2>2, <3>5 DEF CommitsSnapshot
  <2> QED
    BY <2>1, <2>3, <2>4
<1>3. CASE JobDone \/ UNCHANGED jobVars
  BY <1>3 DEF JobDone, jobVars, branchVars, local, vars, files, CommitsSnapshot, Untouched,
              BranchInit, Snapshot, Unaltered
<1> QED
  BY <1>1, <1>2, <1>3 DEF JobNext

\* However the benchmark ended and whoever pushed in between, the checkpoints on
\* the branch can be read: both files of every arm they list, all the arms but
\* the one being saved, the whole manifest unless the process was killed, and
\* `complete` only of a whole plan.
THEOREM CommittedCanBeRead == JobSpec => []CommittedIsReadable
<1>1. JobInit => CommitsSnapshot
  <2> SUFFICES ASSUME JobInit PROVE CommitsSnapshot
    OBVIOUS
  <2>1. /\ BranchInit /\ results = [w \in Writers |-> IF w = Job THEN Snapshot ELSE Theirs[w]]
    BY DEF JobInit
  <2>2. results[Job] = Snapshot /\ results \in [Writers -> {results[w] : w \in Writers}]
    BY <2>1, JobAssumption
  <2>3. remote = <<>> /\ \A w \in Writers : tree[w] = <<>>
    BY <2>1 DEF BranchInit
  <2>4. \A i \in 1..Len(<<>>) : FALSE
    OBVIOUS
  <2> QED
    BY <2>1, <2>2, <2>3, <2>4 DEF CommitsSnapshot, Untouched, Unaltered
<1>2. BranchType /\ CommitsSnapshot /\ [JobNext]_jobVars => CommitsSnapshot'
  BY SnapshotNext
<1>3. /\ TypeOK /\ CommitsSnapshot /\ ListedAreWritten /\ CountsMatch /\ AtMostOneBehind
      => CommittedIsReadable
  <2> SUFFICES ASSUME TypeOK, CommitsSnapshot, ListedAreWritten, CountsMatch, AtMostOneBehind,
                      NEW i \in 1..Len(remote), remote[i].by = Job
               PROVE  LET saved == remote[i].files
                      IN  /\ \A n \in 1..Len(saved.manifest.arms) :
                                n \in saved.raws /\ n \in saved.summaries
                          /\ Len(saved.manifest.arms) >= Len(memory.arms) - 1
                          /\ ended \in {"returned", "interrupted"} => saved.manifest = memory
                          /\ saved.manifest.status = "complete" =>
                                Len(saved.manifest.arms) = Planned
    BY DEF CommittedIsReadable
  <2>1. remote[i].files = Snapshot
    BY DEF CommitsSnapshot, Unaltered
  <2>2. pc = "done"
    <3>1. \A j \in 1..Len(<<>>) : FALSE
      OBVIOUS
    <3> QED
      BY <3>1 DEF CommitsSnapshot, Untouched, BranchInit
  <2>3. /\ Snapshot.manifest = disk /\ Snapshot.raws = raws /\ Snapshot.summaries = summaries
    BY DEF Snapshot
  <2>4. Len(disk.arms) \in Nat /\ Len(memory.arms) \in Nat
    BY DEF TypeOK, Manifests
  <2> QED
    BY <2>1, <2>2, <2>3, <2>4 DEF ListedAreWritten, CountsMatch, AtMostOneBehind
<1>4. JobSpec => []TypeOK /\ []BranchType /\ []ListedAreWritten /\ []CountsMatch /\ []AtMostOneBehind
  BY TypeCorrect, BranchTypeCorrect, ListedSurvive, CountsAreTrue, OneArmAtRisk, PTL
<1> QED
  BY <1>1, <1>2, <1>3, <1>4, PTL DEF JobSpec
=============================================================================
