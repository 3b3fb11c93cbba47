# Verification of bedrock-runtime-benchmark

TLA+ models of the program in `src/bedrock_benchmark`, of its commit script and
of the workflow around it, the TLC instances that check them, and proofs that
TLAPS checks. Paths of Python files are relative to `src/bedrock_benchmark/` of
the repository unless they start with `scripts/`, `.github/` or `docs/`.

Contents: [1 The system](#1-the-system) · [2 What is hard](#2-what-is-hard) ·
[3 Modules](#3-modules) · [4 Runs](#4-runs) · [5 Bounds](#5-bounds) ·
[6 Fairness](#6-fairness) · [7 Proofs](#7-proofs) ·
[8 Findings](#8-findings) · [9 Not modelled](#9-not-modelled) ·
[10 Plan](#10-plan)

## 1 The system

The program measures how much load a Bedrock model serves within an SLO. One
**experiment** (a YAML file) sweeps concurrencies or request rates for one or
more **subjects** (a request class, or a mix of classes). Each measured value
is a **point** with a verdict PASS / FAIL / INCONCLUSIVE from exact binomial
bounds. The best point can be **confirmed** on fresh data, the result becomes an
entry of a **capacity profile**, several profiles are **validated** against each
other and yield a number for production admission control, and a run can be
**published**.

| Component | Code | State | Operations | What makes it correct |
|---|---|---|---|---|
| Confirmation candidate | `experiments/executor.py` (loop over candidates), `analysis/confirmation.py`, `analysis/capacity.py` | results, looks used, retained PASS, restarts left, elapsed time, caps | repetition of load, look, veto, cap, restart after recovery | verdicts only at planned counts; PASS not contradicted by later data; caps hold; it ends |
| Sweep subject | `experiments/executor.py` (`run_experiment`, `_candidates`, `_bisect`) | points, consecutive failures, bracket, candidates, recommendation, validity | recover, measure, re-measure a suspect, refine, recommend, test, analyze | highest candidate first; the confirmed point has no failure under it; an invalid subject stops |
| Profile entry | `report.py`, `recommendation.py`, `contract.py`, the JSON schema | none: read off a finished subject | build, withhold, explain | nothing is offered that was not confirmed for it; the reason given is what happened; it conforms |
| Provider recovery gate | `experiments/executor.py` (`recover`, `probe`, `capacity_probe`) | attempt, two baselines, validity | wait, liveness probe, capacity probe | opens only after a verified attempt; baselines do not creep |
| Load runners and client | `runners/concurrency.py`, `runners/rate.py`, `client.py` | workers or arrivals, thread pool, outstanding and SDK counters with peaks | fire, enter the SDK, leave, resume, pause, drain | counters equal what is in flight; no result lost; client-side queueing is noticed |
| History comparison | `experiments/history.py`, `history_checkpoint.py`, `run_file.py` | arm, manifest in memory and on disk, arm files | prepare, overload, observe, save, finish | whatever stops it, listed arms are complete and counts are right |
| Workflow job, results branch | `.github/workflows/bedrock-history.yml`, `scripts/commit_actions_results.py` | `results/`, git branch, each writer's worktree | benchmark, interrupt, kill, commit, push, rebase | nothing pushed is lost, no push is repeated, what is committed can be read |
| Arm rotation | `experiments/order.py` | counter file, `flock` | lock, read, truncate, write, close, replay | two invocations never share a rotation |
| Batch | `batch.py`, `executor.py` (order of subjects) | runs and their artifacts, summary | reserve, size, load, write, skip, fail, stop | a whole summary is true; the subjects take turns |
| Token calibration | `calibration.py`, `workload.py` | attempts of one subject | choose a counter, count, rescale, settle | the closest attempt is kept; a regular counter is met |
| Temporal validation | `drift.py`, `recommendation.py`, `report.py` (`_envelope`, `_profile_block`) | profiles, the artifact | measure, validate | the production input rests on valid runs and never relaxes |
| Publishing | `publish.py` | target files, manifest | build, check, copy, write the manifest | a manifest means a complete copy; retries succeed |
| Statistics | `analysis/*.py` | none | bounds, verdicts, look planning | the order and combination of verdicts |
| Schema, quotas, constraints | `experiments/schema.py`, `ceiling.py`, `quota.py`, `constraints.py`, `models.py` | none | validate, look up, binding quota | as far as the subject reads it |
| Pilot, CLI, doctor, summary, observability, preparation | `pilot.py`, `cli.py`, `doctor.py`, `summary.py`, `analysis/observability.py`, `context_history.py`, other `scripts/` | none | check, print, prepare | not modelled |

How they interact. `batch` runs experiments one after the other; each goes
through `run_file` to the executor, one coroutine that awaits one thing at a
time: the recovery gate, a runner, or a sleep. A runner gathers tasks on the same
event loop; each awaits a call in the client's thread pool, so the client's
counters are shared between the loop and the threads. The recovery gate and the
candidates write into one `validity` record that every later phase and the
report read. Profiles, the checkpoint manifest, the rotation counter, the
summary of a batch, the published directory and the results branch are shared
between processes and outlive them.

## 2 What is hard

* **Sequential decisions on growing data.** Looks, a retained PASS, vetoes, caps
  and one restart interact over many repetitions (`executor.py:690-825`). The
  tests fix the order of a few; the models take every order.
* **One record carried through three phases and into a report.** Validity, points
  and the recommendation are written by discovery, refinement and confirmation
  (`executor.py:467-835`), and the report reconstructs from what is left what
  may be offered and why nothing was (`report.py:428-600`).
* **Two sides of a call.** The loop and the pool threads count the same call at
  different moments (`client.py:150-225`).
* **Dying anywhere.** The history manifest, the rotation counter, the artifacts
  of a batch and a publication are written by processes that may be killed
  between any two steps, and a workflow commits what a killed one has left.
* **Others writing to the same place.** Two invocations share a counter and a
  directory, two publishers a target, two jobs a branch.
* **Repetition over weeks.** Profiles accumulate; each validation reads all.

`PROJECT.json` lists every hazard at its line, with the properties about it.

## 3 Modules

`Validity` and `LookPlan` are vocabularies: the five values of
`measurement_validity.status` with the changes the code makes to them, and the
plan of looks (`plan_looks`) with the combination of verdicts.

```
Validity ── CandidateContract ◄─(refined by)── Candidate ── LookPlan
   ├────── Subject ── Profile      (Subject tests a candidate in one step: Settles)
   └────── Recovery
HistoryRun ───┐
              ├── ActionsJob       AppendOnly ◄─(refined by)── ResultsBranch
ResultsBranch ┘
Rotation ────┐
             ├── Batch             LoadTarget   Temporal   Publish
Calibration ─┘
```

**Candidate** — one iteration of the loop over candidates. `stream` is
`candidate_results` in schedule order, each request reduced to its class and
whether it counted against the SLO. `Measure` is one repetition with its warmup
and drain, and the checks that may end it at once. `Judge` is everything the
code does between two repetitions: `step()` (all the looks the data reaches),
the vetoes, the minimum exposure and the caps, in that order. `BeginRestart` and
`Restart` are the suspect branch: `retries`, `recover()`, `invalidate()`, and
`continue`. The statistics are two tables: `Clears[c][b]`, the least sample that
passes with `b` bad events, and `Breaks[c][n]`, the bad events that fail `n`.
Everything the loop decides depends on the bounds only through these.

**CandidateContract** — the abstract specification: a candidate settles once, PASS
and FAIL have one stop reason each, and validity changes only in that step.
`Candidate` implements it (`ContractSpec`), `Subject` uses it (`Settles`).

**Subject** — a subject from the first `recover()` to its profile. `policy` is
chosen at `Init` from `Policies`, what the YAML and the quotas may say; the
assumption on `Policies` is what `_validate` and `_validate_sweep` accept. One
action per step of the coroutine: `Recover`, `Discover`, `Measure`,
`RecoverSuspect`, `MeasureAgain`, `RecoverPulse`, `Overrun`, `Bracket`, `Refine`,
`Recommend`, `TestCandidate`, `SkipCandidate`, `Confirm`, `Analyze`. A point is
its verdict (`shown`) and whether it was served above the ceiling (`above`); the
outcome of a measurement is any combination the code can produce.

**Profile** — extends `Subject` by what `report.py` makes of its last state, as
operators: `Analysis` and `Edge` (the capacity statistics), `Entry` (what each
purpose offers, and what is withdrawn afterwards when the subject is invalid or
its shape is not the claimed one), the reason for confirming nothing, the
bottleneck, and `Conforms`, what `contract.py` and the schema demand.
`MinConfirmed` is the least concurrency that leaves a request after headroom.

**Recovery** — `recover()`. `ProbeOnce` is `probe()`, `CapacityProbe` is
`capacity_probe()`, with the two baselines in `ttft` and `capacity`.
`configured` says whether a baseline fraction is set and a ceiling known. A
probe shows any latency and goodput of a small range, `0` being `None`.

**LoadTarget** — a closed or open loop on one client. `stage` follows each task:
submitted to the pool, inside the SDK (`calling`), out of it with its thread
still busy (`leaving`), returned but not resumed (`finished`). `Fire` and
`Resume` run on the loop, `Enter`, `Leave` and `Return` in a thread. `stored`
counts, per task, the results the runner was given.

**HistoryRun** — arms of every subject in turn. `SaveRaw`, `SaveSummary`, `List`
and `SaveManifest` are the four steps of `save_arm`; each file is written to a
temporary name and replaced, so it appears whole. `Stopped` is Ctrl+C or an
exception, handled by `finish()`; `FinishFails` a `finish()` that cannot write;
`Kill` the death of the process.

**ResultsBranch** — `publish()` of the commit script, one clone per writer.
`Prepare` is everything up to the first push, `Accepted` and `Rejected` the two
ends of a push (a rejected one may have been accepted and its answer lost),
`Rebase` the fetch and rebase after it, `Fail` an exception of git or a
cancelled job, `OtherPush` somebody else. A rebase onto a branch where somebody
else has filled the destination in the meantime may go either way: the result
files of two runs have different names (`run_file.py:271`, `310`) and then lie
side by side, but they conflict in a name both have, such as `results/experiment.yaml`, if they
differ in it. **AppendOnly** is what its readers are
promised, a log nothing is ever taken from; `BranchIsALog` is the refinement.

**ActionsJob** — the workflow job: extends `HistoryRun` and `ResultsBranch`. `Job`
is the writer whose results are what the benchmark has on disk (`Snapshot`; every
step keeps `results[Job]` equal to it, `Shared`), the other writers are rivals,
whose results are any of `Theirs`. The commit step starts when the benchmark's process is gone, however
it went (`if: always()`).

**Rotation** — `rotation_index`, one action per system call under the lock;
`Replay` is an explicit index, which leaves the counter alone.

**Calibration** — operators: the choice of a counter (`Resolve`), the attempt that
follows another (`After`), and which of two is kept (`Better`). A provider is its two
counters, each of which answers, answers without looking at the prompt or
raises, with the tokens of its instruction, characters per token, and the step
in which it counts.

**Batch** — extends `Rotation` and `Calibration`: each invocation reserves its
rotation, then sizes, loads and writes run after run. `Tried[k]` and `Closest[k]`
are the k-th attempt and the closest of the first k, for every provider and
subject, and `Prompts` what is reported of them. `Size` is `calibrate_workloads`
for every subject of a run (any of them may raise at its first count), `Load` all
the subjects in rotated order, the two artifacts and the summary are each opened
and then written. The summary is the one file that two invocations write: opening
empties it, and each writes from its beginning, so `WriteSummary` may leave it
`torn` if somebody has written since the writer emptied it. The history variable
`alone` says whether nobody else had it open at that moment. `RunRaises` is an exception inside a run, recorded as failed;
`Stopped` ends the process.

**Temporal** — a group of comparable profiles. `Admission` is `_envelope` and
`recommend`, `Envelope` is `summarize`, `Validate` builds the artifact from all
profiles there are. The lists `summarize` filters are sets of indices of
`profiles`; only the spread sorts what they show.

**Publish** — publishers of one run directory, into a bucket (an object
appears whole) or a directory (a file, the manifest too, is visible half
written: `OpenManifest` and `torn`). Between attempts the directory may gain
files.

`MC*` modules give the constants that a `.cfg` cannot write. A `.cfg` without
an `MC` module checks the module itself. `*_proofs` modules hold the theorems.

## 4 Runs

| Run | Question | Properties |
|---|---|---|
| `MCCandidate` | Does every order of looks, vetoes, caps and restart give an earned verdict? One rate candidate, recovery probe, fixed caps. 82,000 states | `LooksStandAsTaken`, `VerdictIsEarned`, `CapsBeforeLoad`, `ContractSpec`, `Terminates` |
| `MCCandidateMix` | And with two classes, of which one may be missing from a window, closed loop, `auto` caps? | `VerdictIsEarned` |
| `MCSubject` | What does a subject measure and report after any outcome of any point? Five configurations. 208,000 states | `HighestFirst`, `ConfirmedStands`, `Bracketed`, `StopsAtSaturation`, `EntryIsBacked`, `ReportIsTrue`, `ConformsUnlessWithheld`, `InvalidIsFinal`, `Terminates` |
| `MCRecovery` | What opens the gate, what closes it for good, what does it compare with? | `RecoveredIsVerified`, `InvalidIsExhausted`, `BaselinesStay` |
| `LoadTarget` | Do counters and results survive every interleaving of loop and threads, over two runs? 67,000 states | `Accounting`, `ClosedLoopHolds`, `NothingHidden`, `NothingLost`, `Drains` |
| `MCActionsJob` | What is on disk, and then on the branch, after the benchmark was stopped at any step and while others push? 1,082,000 states | `ListedAreWritten`, `CountsMatch`, `NothingTakenBack`, `CommittedIsReadable`, `TwiceOnlyInARace`, `SavedOrOvertaken`, `BranchIsALog` |
| `MCBatch` | Two invocations in one directory, with several token counters, failing and dying anywhere: who leads, what is sized, what does the summary say? 872,000 states | `SummaryIsTrue`, `TurnsAreShared`, `ClosestKept`, `Converges`, `Ends` |
| `MCTemporal` | What reaches production as runs accumulate? 208,000 states | `RestsOnValidRuns`, `NeverRelaxes` |
| `Publish` | Is a manifest a promise, who may replace it, and is a bucket published in the end? | `ManifestMeansComplete`, `NeverOverwritten`, `PublishedAtLast` |
| `MCCandidateTests`, `MCSubjectInvalid`, `MCTemporalStable` | Three sentences of the repository that the code does not keep (section 8) | one each |

The type invariants of the modules with proofs are proved (section 7), not run.

What the passing runs show, beyond the table:

* A look is decided on exactly its first `Need` requests however much arrives
  with them, earlier looks were undecided, and a PASS retained for minimum
  exposure is still the verdict of its own sample when it is declared. FAIL
  never comes from a cap or a veto, and a veto only from requests that are there:
  a class missing from a window is no reason to take a PASS back.
* A confirmed point was measured, nothing at or below it failed, and a
  confirmed rate is within the quota, also when refinement added points and
  when confirmation replaced what discovery had recommended.
* An invalid subject puts no more load on the provider: no later phase starts.
* Whatever an entry offers to production or to calibration was confirmed in an
  experiment made for that, on the shape it claims, and lies below the edge the
  sweep observed. The reason given for confirming nothing, reconstructed
  afterwards, is what happened.
* A capacity probe that is healthy counts only together with the liveness probe
  of its own attempt.
* A call that waited for a thread always shows in `client_limited`. The
  converse is not true (section 8).
* A manifest of a history run lists only arms whose two files are complete, its
  counts are those of its arms, and no write takes an arm back. What the job
  commits can be read and misses at most the arm that was being saved.
* No pushed commit is dropped, and an accepted push whose answer was lost is not
  repeated. A destination gets a second commit only from another writer that
  looked before the first was there; whoever looks later leaves it alone. A job
  that reports success has its results on the branch, and one that gives up was
  overtaken or failed by git three times.
* A summary is whole when its writer had the file to itself and exited, and a
  whole one is true, whoever shares the directory: the artifacts of every run it
  calls `ok` are whole, and the exit code is what it says.
* The prompt chosen is the closest of those tried, and a counter that grows in
  proportion to the prompt is met within eight attempts if the fixed
  instruction is at most half of the target. The conditions of `Converges` are
  needed: under a target of 50 tokens the tolerance of 2% is less than one token,
  and the correction can circle (a target of 10 from 9 or 11 counted, since a
  prompt of 10 characters loses its last space).
* `Distinct`, `CounterAhead` and `TurnsAreShared` speak of invocations none of
  which died over the counter: one that dies between `truncate` and `flush`
  makes the next one start from 0. The lock does not protect against that.
* A later validation, with the same thresholds over the earlier profiles and later
  ones, never raises the production input nor takes it away.

Deadlock is checked except in `MCRecovery`, `MCTemporal` and `MCTemporalStable`:
a subject that has made its last call to the gate stops there, and nobody has to
measure or validate again. Elsewhere the end of a process is an explicit
stuttering action, so that any other stop is an error.

Each property of a passing run has a mutant in `PROJECT.json`, a bug in one
definition that makes TLC find the property violated under the same
configuration. Most mutants stand beside the definition they change.

## 5 Bounds

| Constant | Value | Why it is enough |
|---|---|---|
| `MaxLooks` | 2 | the first look, a later one, and looks exhausted; both can be reached by one repetition |
| `RepSizes` | {1, 3}, {2} | a repetition that reaches no look, one that reaches a look exactly, one that overshoots two |
| `MaxRequests`, `MaxSeconds`, `MaxReps` | 6, 16, 4 (or `auto`) | each cap is the first to bite in some behaviour; `Spent` = 6 leaves a candidate with too little time |
| `MinSeconds`, `RepSeconds` | 5, 2 | minimum exposure needs a third repetition after a PASS |
| `Top`, sweeps | 7, of 3 or 4 values | a bracket with room for two bisections, a failure under a pass, three candidates |
| `MinConfirmed` | 2 | a confirmed concurrency that headroom leaves nothing of, and one that it does not |
| `Attempts`, `Calls` | 3, 3 | the first, a middle and the last attempt; baselines set, kept and compared |
| `Tasks`, `Threads`, `Fires`, `Runs` | 3, 2, 2, 2 | more tasks than threads, refiring, a target that is used again |
| `Subjects`, `Arms` | 2, 2 | an arm without and one with overload, the last arm of a subject that is not the last, one arm behind and several listed |
| `Writers`, `Others`, `Faults` | the job and one rival, 1, 1 | a writer to the same place, a foreign commit, and a fault can each come between any two steps; three rejections need all of them |
| `Invocations` | 2, one with `--fail-fast` | one inside the counter and one waiting or dead; both in one directory; an explicit index next to a reserved one |
| `Runs` (of `Batch`) | two pairs, of two subjects and of one, and a skipped one | a first run that fails before another, turns where they differ and where they cannot, subjects of two runs in different numbers |
| `Providers` | fine, in steps of 32, none | a counter that converges, one that cannot, one whose probe is flat or raises |
| `MaxRuns`, `MinRuns`, `MinDays` | 3, 2, 2 | too few, enough, and one more after an artifact exists |
| `Values`, `Quota` | {1, 9, 10}, 8 | floors to nothing, agreeing, disagreeing, and capped by quota |
| `Publishers`, `Files`, `Tries` | 2, 3, 2 | a second publisher in any step of the first, a directory that grows twice |

`Calls`, `Fires`, `Runs` (of `LoadTarget`), `MaxRuns`, `Tries`, `Others` and
`Faults` bound counters in guards. The other counters are bounded by the code's
own caps. Rivals of `ActionsJob` act only after the benchmark has ended: nothing
they do before touches it, so only their order with the commit step matters.

## 6 Fairness

* `Candidate`, `Subject`: `WF_vars(Next)`. A single coroutine; each `await`
  returns, because every request has a connect and a read timeout, sleeps end
  and runners drain. In `Candidate` and `Subject` no other process acts.
* `Recovery`: weak fairness of the two probes only. Nobody has to call the gate.
* `LoadTarget`: weak fairness of `CloseWindow` (time passes) and of each task (the
  loop and the threads run, and a call ends at its timeout). Other tasks may
  take a thread that a waiting call needs, but each fires at most `Fires`
  requests, so the thread is free for good in the end; the code's pool is
  first-in first-out, which gives more.
* `HistoryRun`, `ActionsJob`: weak fairness of the benchmark's steps and of the
  commit step's; rivals need not push. The job's promises are about safety, and
  none of them rests on it.
* `Batch`: weak fairness of each invocation's work, in the counter and after it.
  Nothing obliges a user to replay an index, a run to raise or a process to die.
  An invocation holds the lock once, so a waiting one cannot be overtaken for ever.
* `Publish`: weak fairness of each publisher's step; attempts that die are
  bounded by `Tries`, which says that someone tries until one does not die.
* `ResultsBranch`, `Temporal`: none, only safety.

## 7 Proofs

For every value of the constants allowed by the modules' assumptions.

| Theorem | Says | Argument |
|---|---|---|
| `Candidate_proofs!TypeCorrect` | `[]TypeOK` | one step per action; results arrive in windows of requests (`Requests`, `Seq`) |
| `Candidate_proofs!KeepsContract` | `ContractSpec`, the refinement of `CandidateContract` | a step that changes the result is a `Settle` of the contract with the stop reason the action gives |
| `Candidate_proofs!LooksStand` | `[]LooksStandAsTaken` | `LooksInv`: every look before the last was undecided, the last one too unless a PASS is retained, and a retained PASS keeps its look and sample |
| `Candidate_proofs!VerdictsAreEarned` | `[]VerdictIsEarned` | from `LooksInv` and what each exit of `Judge` tests (`NothingAgainst`, `VetoIsEarned`). `Need`, `Schedule` are recursive functions; the steps that go through several looks use a least counterexample (`WFMin`) in place of induction |
| `Candidate_proofs!CapsComeFirst` | `[]CapsBeforeLoad` | `CapsInv`: between two repetitions the caps have been tested on the present data |
| `Candidate_proofs!TwoSeriesOfLooks` | `[]TestsAreBounded`: at most 2L looks, L if nothing is recovered | `TestsInv`: the looks taken are those of the present data and, once restarted, at most L more |
| `Candidate_proofs!LoadEndsInTime` | load ends within the budget and one drain; once, after a restart, within one repetition and one drain more | `TimeInv`, from `CapsInv`: who goes on to measure had the time, or was restarted and had not used up its own (`JudgedInTime`, `TimeToMeasure`) |
| `Candidate_proofs!StepsRunOut` | the safety half of `Terminates` | three steps for every second of the budget that is left (`Fuel`) and for a repetition that need not have the time (`SecondChance`), then the place in the loop |
| `Subject_proofs!TypeCorrect` | `[]TypeOK` | inductive as it stands, given that the policy never changes (`PolicyIsFixed`) and a midpoint of two values is a value (`MidpointIsValue`) |
| `Subject_proofs!TestsHighestFirst` | `[]HighestFirst` | strengthened to `TestOrder`: what is tested is upward closed among the candidates, a PASS has stopped the testing, and testing stops for nothing but a PASS or an invalid subject |
| `Subject_proofs!ConfirmedPointStands` | `[]ConfirmedStands` | strengthened to `ChosenFromPoints`: points are frozen once candidates exist, and candidates are leading points within the quota (`CandidatesLead`, `LeadingStands`, `GreatestIsOne`) |
| `Subject_proofs!RefinementBisects` | `[]Bracketed` | `PhasesInOrder`: `Orderly` (what each phase leaves untouched) and `Bracketing` (what lies at the two ends of the bracket, and that the value between is new) |
| `Subject_proofs!InvalidStays` | `InvalidIsFinal` | an action property: nothing moves on from an invalid subject, and `Accept` only takes a value that is not a point |
| `Subject_proofs!StopsOnceSaturated` | `[]StopsAtSaturation` | `CountsFails`: `consecutive` is the number of failures that end the measured part of the sweep |
| `Subject_proofs!OffersAreBacked`, `EntriesConform`, `ReportsAreTrue` | `[]EntryIsBacked`, `[]ConformsUnlessWithheld`, `[]ReportIsTrue` | `Recorded`: the recommendation's source says which phase drew it, and what it holds is that phase's leading or confirmed point (`FromDiscovery`, `FromConfirmation`), on what grounds (`Grounds`), with the point tested (`Marked`); then cases over what an entry is made of |
| `Subject_proofs!InvalidIsNeverConfirmed` | an invalid subject has no point from a confirmation | `TestOrder`, strengthened: a PASS was reached in a subject that is not invalid, and nothing starts after it |
| `Subject_proofs!StepsRunOut` | the safety half of `Terminates` | values to offer, bisections to try (`RefinedAtMost`), candidates to test (`OneFewer`), place in the code |
| `Recovery_proofs!TypeCorrect` | `[]TypeOK` | one step per action |
| `Recovery_proofs!GateIsSound`, `GateIsPatient` | `[]RecoveredIsVerified`, `[]InvalidIsExhausted` | one invariant, `Verified`: every attempt before the present one has failed, probes belong to attempts up to this one, and a capacity probe follows a healthy liveness probe of the same attempt |
| `Recovery_proofs!BaselinesAreFixed` | `BaselinesStay` | an action property, from the two actions that write a baseline |
| `LoadTarget_proofs!TypeCorrect`, `CountersAgree`, `QueueingShows`, `ClosedLoopStays` | `[]TypeOK`, `[]Accounting`, `[]NothingHidden`, `[]ClosedLoopHolds` | one invariant, `IInv`: the stages of the tasks are nested sets (`Nest`) whose cardinalities are the counters, and `Peaks`: more outstanding calls than threads once existed if a call ever waited |
| `LoadTarget_proofs!ResultsAreKept` | `[]NothingLost` | `IInv` again: a task has stored a result for every call it fired but the one it is in |
| `LoadTarget_proofs!PoolNeverStalls` | after its window has closed a run is over, or some task waits for no other | `FiresLeft`; if all were waiting for a thread, no thread would be taken |
| `LoadTarget_proofs!StepsRunOut` | the safety half of `Drains` | requests left to fire (`FiresBounded`), each of at most six steps (`TaskRunsOut`) |
| `ActionsJob_proofs!TypeCorrect` | `[]TypeOK` of `HistoryRun` | one step per action |
| `ActionsJob_proofs!ListedSurvive` | `[]ListedAreWritten` | `FilesFirst`: the writer lists an arm only after both files, and the disk holds a manifest the writer held |
| `ActionsJob_proofs!OneArmAtRisk` | `[]AtMostOneBehind` | `InStep`: disk and memory list as many arms except between listing and saving |
| `ActionsJob_proofs!CountsAreTrue` | `[]CountsMatch` | `CountsInv`: the position in the plan is the number of listed arms or one more (`PositionIsPlanned`), observed arms are counted once (`ObservedGrows`), and as many observed as listed are all (`AllObserved`) |
| `ActionsJob_proofs!ManifestOnlyGrows` | `NothingTakenBack` | `OnlyGrows`: the manifest on disk is a beginning of the one in memory (`BeginningIsPart`) |
| `ActionsJob_proofs!BranchTypeCorrect` | `[]BranchType` | one step per action, and `Fills` for the job: new results on disk are a step of the branch's environment |
| `ActionsJob_proofs!BranchIsAppendOnly` | `BranchIsALog`, the refinement of `AppendOnly` | `StepExtends`: only a fast-forward push and somebody else's push change the branch |
| `ActionsJob_proofs!CommittedTwiceOnlyByRace` | `[]TwiceOnlyInARace` | `Races`: the branch and every worktree about to be pushed are `Proper` (a second commit to a destination is another writer's, made when the first was not there), and a worktree has the own destination from before only if it was `Unseen` (`OneMoreProper`, `StaysProper`, `OwnCommitIsProper`, `RemoteStaysProper`) |
| `ActionsJob_proofs!SavedUnlessOvertaken` | `[]SavedOrOvertaken` | `Overtaken`: each rejected push has a commit of others (`OthersOvertake`, `RejectedIsLate`) or a fault of its own |
| `ActionsJob_proofs!CommittedCanBeRead` | `[]CommittedIsReadable` | `CommitsSnapshot`: what the job has committed is what was on disk when the benchmark was gone, and that has not changed since (`SnapshotNext`, `Untouched`); what it says follows from `FilesFirst`, `InStep` and `CountsInv` |
| `Publish_proofs!TypeCorrect`, `ManifestIsComplete` | `[]TypeOK`, `[]ManifestMeansComplete` | `IInv`: what a publisher has copied is there (`CopiedIsThere`), and so is what a manifest lists (`ListedIsThere`); a file may become torn again, never absent |
| `Publish_proofs!ManifestIsFinal` | `NeverOverwritten` | an action property: past the check nobody starts once the manifest is there |
| `Publish_proofs!NobodyEndsUnpublished` | who is done, with its own manifest or turned away, leaves a target that has one | inductive with: what an attempt copies is not nothing |
| `Publish_proofs!StepsRunOut` | the safety half of `PublishedAtLast` | the files an attempt has left to copy, and one whole attempt for every one that may still die (`PublisherRunsOut`) |
| `Batch_proofs!RotationsDiffer` | `[]TypeOK`, `[]CounterAhead`, `[]Distinct` of `Rotation` | `OneInside`: the holder of the lock is the only one in the file, what it read is what the file says, and counter or index is ahead of every index handed out |
| `Batch_proofs!BatchTypeCorrect` | `[]BatchTypeOK` | one step per action; the pair in progress is a planned one (`NumberIsFirst`), the leading subject one of the run's (`LeadsOrder`) |
| `Batch_proofs!SummaryCanBeTrusted` | `[]SummaryIsTrue` | `InOrder`: the pairs that are over are before those that are not, only the first of these was ever loaded, and what is over as `ok` or `skipped` has the files or the failure for it; `SummaryOf`: a summary holds the results of an invocation that has none left, is empty as long as nobody has written since it was opened, and keeps to whom it belongs (`Opened`, `SummaryStays`, `SummaryWritten`) |
| `Batch_proofs!TurnsAreFair` | `[]TurnsAreShared` | `Led`: a run is led by the subject its index says; `Gapless`: as long as nobody died, every number below an index was handed out too. So whoever led with one subject, but the first time, has a predecessor that led with the other (`TurnBefore`), and different ones have different predecessors |
| `Batch_proofs!ClosestAttemptKept` | `[]ClosestKept` | `SizedFor`: what is about to be loaded was sized for this run; `TriedOf` and `ClosestOf` unfold the two recursive functions (`IterationExists`), and `KeptIsClosest` goes through the attempts with a least counterexample |
| `Batch_proofs!SearchConverges` | `[]Converges` | Suppose no attempt is within the tolerance. Then all eight are scaled lengths (`NextIs`, `RoundOf`): neither the clip at the tried bounds nor the nudge by a token ever applied. A correction from below never crosses the target by more than a token (`NotCrossed`), so the eight are on one side. Above it, the excess halves each round (`OverOnce`); below, the shortfall shrinks by the instruction's part of the target, at most a half (`UnderOnce`). From 100 tokens on that ends under the tolerance; below 100 the last gap would have to be wide (`WideGap`), and what remains (targets 75 to 99, instructions about half of that, 25 to 32 characters per token) is 50 ground cases (`Barely`). `EightSuffice` puts these together, `PromptsConverge` carries it to what is reported |
| `Batch_proofs!StepsRunOut` | the safety half of `Ends` | `ReservationRunsOut`, `BatchRunsOut`: places in the code, and pairs that are not over (`Left`), each counting for seven steps |
| `Temporal_proofs!TypeCorrect` | `[]TypeOK` | profiles are only added to, and a production input is a number (`AdmissionIsCareful`, `LeastExists`) |
| `Temporal_proofs!ProductionRests` | `[]RestsOnValidRuns` | `ValidationRests`: an artifact is usable exactly when enough runs on enough days are valid (`UsableWhenEnough`), and gives the least of their recommendations (`LeastExists`, `AdmissionIsCareful`); profiles are never changed afterwards |
| `Temporal_proofs!NeverRelaxed` | `NeverRelaxes` | an action property: more profiles under the same thresholds have a minimum that is no greater |
| `Temporal_proofs!StableRunsConfirmed` | `[]StableIsConfirmed`: in a stable envelope every valid run that has a block of the kind confirmed a value | inductive as it stands: profiles are never changed, and `summarize` looks at every block it keeps |

Assumed: the named `ASSUME` of each module, which TLC evaluates in the runs. A
finite set of policies is not assumed, nor are bounds on sweeps, attempts, arms,
tasks, writers, invocations, pairs or profiles. `BatchAssumption` takes the
subjects of a pair as distinct, which the schema enforces ("workloads listed
twice", `experiments/schema.py:623`), and `BranchAssumption` no writer and no
destination as the name "other", which stands for everybody else. `Subject`'s assumption `Distinct` (no value twice
in a sweep) is not checked by the schema; with a value listed twice the code
would report two points of one value and the model's `shown` could not hold both.

`Subject` takes the contract of a candidate as what `TestCandidate` does, and
`KeepsContract` proves that `Candidate` keeps it: the two sets of theorems
together speak of the subject with its candidates inside. The theorems of
`ActionsJob_proofs` hold of a history run alone and inside the job (`Spec \/
JobSpec`), those about the branch of the commit script alone and inside the job
(`BranchSpec \/ JobSpec`): `HistoryGoesOn` and `BranchGoesOn` show that a step of
the job is one of each part or leaves it alone. In the same way `CounterGoesOn`
carries the rotation counter into `Batch`.

Only model-checked: every liveness property (`Terminates`, `Drains`, `Ends`,
`PublishedAtLast`), because the prover handles neither fairness nor `ENABLED`.
Their safety halves are proved: the five `StepsRunOut` say that no process takes
steps for ever (in `Batch` per invocation, in `LoadTarget` per task, in `Publish`
per publisher), `NobodyEndsUnpublished` that who stops in `Publish` leaves what
was promised, and `PoolNeverStalls` that the tasks never all wait for one
another. What only TLC shows is that fairness turns this into an end that is
reached. All the runs' other properties are theorems.

The statistics (how many bad events fail, how many requests clear) are constants:
no property of the exact bounds themselves is claimed.

## 8 Findings

Three statements of the repository disagree with the code; each has a run.

1. `AtMostLTests`: "With K candidates there are L x K tests in all"
   (`analysis/confirmation.py:25`), and the confidence is split over that many.
   A suspect candidate that starts over sets `looks_used` to 0
   (`executor.py:716`), so it can take more than L looks. `TwoSeriesOfLooks`
   proves how many more: at most L, and none unless it was restarted.
2. `InvalidDrawsNoConclusion`: of `invalid`, "no capacity conclusion (confirmed
   or not) is drawn" (`docs/slo-statistics.md:255`). Discovery's recommendation
   is drawn from whatever points exist (`executor.py:621`), and its confirmed
   point is written into the `rate` or `concurrency` block of the entry
   (`report.py:661-666`); only the recommendation and the calibration point are
   withdrawn (`report.py:585-587`). The run has a rate sweep whose provider does
   not recover after a suspect value: the subject is invalid, and the block of its
   entry has a confirmed point. The burst screen, for which no block is written,
   is not concerned. The temporal validation and the admission envelope do leave
   such profiles out, and `InvalidIsNeverConfirmed` proves that nothing but
   discovery can leave such a point.
3. `StableMeansEveryRunConfirmed`: "A run that confirmed nothing is never
   stable" (`docs/methodology.md:277`, also `drift.py:23`). A run in which no
   value led the sweep has no block of its kind and is skipped
   (`drift.py:113`): two other runs that agree are called stable. That is the
   only way: `StableRunsConfirmed` proves the sentence for the runs with a block.

Met while modelling, without a run of their own; where a property had to leave
the case out, its comment says so:

* The restart branch (`executor.py:718`) goes on without the test that a
  repetition still fits into the remaining time, which every other repetition
  passes; `experiments/schema.py:169` describes the cap without that exception.
  `CapsBeforeLoad` states what does hold, and `LoadEndsInTime` proves what the
  exception costs: at most one repetition and one drain past the cap.
* A finished call is outstanding until its task resumes (`client.py:220`), so
  `client_limited` may be reported although no call ever waited. The error is
  on the careful side.
* A calibration point that is withheld because the subject is invalid or missed
  its shape is written as `null` (`report.py:586-587`), which
  `capacity-profile-v23.json` does not allow: `publish` then refuses the whole
  run. `Conforms` has three of the schema's conditions, those that depend on what
  a subject went through: a calibration point is an object, the saturation
  status is one of those listed, and a block has at most one confirmed point.
  `ConformsUnlessWithheld` shows that none of these breaks in another way.
* The reason given to every invalid subject is "the provider never passed a
  recovery probe" (`report.py:430`), also to one that became invalid by having
  more calls in the SDK than its concurrency (`executor.py:303-309`).
* "The first swept value already FAILs" (`report.py:434`) is said when the lowest
  value measured does; the first in the order of the sweep, which nothing sorts,
  may be another.
* A second publisher that passed the check before the first wrote its manifest
  overwrites it (`publish.py:108-114`), possibly with fewer files, although the
  module's own comment (`publish.py:11`) and `docs/capacity-profile-schema.md:232`
  say that a published run is never overwritten; `NeverOverwritten` leaves the
  overlap out and says from when on it is not. In a local directory a manifest that was cut short refuses
  every later attempt, and a second publisher can leave a published file half
  written; the promises of `Publish` are therefore about presence everywhere
  and about whole files only in a bucket.
* Two jobs with one destination that race both commit to it. "Results already
  exist at ...; rerun with a new attempt" (`scripts/commit_actions_results.py:38`)
  is looked for once, before the first push; a rebase puts the second commit on
  top of the first, and git finds no conflict unless a file of one name differs.
  `TwiceOnlyInARace` says that this is the only way. The workflow gives its jobs
  different destinations, so it takes two callers of the script with the same
  identifiers.
* Two invocations in one results directory that write `summary.yaml` at the same
  time (`batch.py:170`) can leave the end of the longer text behind the shorter
  one, which need not be YAML, or may read as further runs. `SummaryIsTrue` claims
  nothing of such a file but who cannot have left it.
* The target prefix uses `published_at` when a profile has no `measured_at`, so
  a retry in another month publishes a second copy.
* A concurrency that floors to 0 after headroom, or a run that confirmed
  nothing, drops out of the minimum over runs (`drift.py:155-165`), so the
  production input may exceed what one valid run supports
  (`docs/methodology.md:286`: "the minimum across runs"). `RestsOnValidRuns` is
  stated over the runs that recommend something.
* An invocation that dies between truncating and writing the rotation counter
  (`experiments/order.py:21`) makes the next ones repeat rotations.
* The pilot builds one experiment out of the workloads of all of them with the
  settings of the first (`pilot.py:81-88`).

## 9 Not modelled

* The exact binomial and order-statistic bounds and every floating-point value:
  they enter as tables or as outcomes.
* Parsing of streams and responses, retries inside the SDK, tokens, cost.
* Loading and checking YAML, the quota and constraint catalogs: only what the
  assumptions of `Subject` and `Batch` say.
* Which class a request of a mix gets (`workload.py:95-158`): `Candidate` lets it
  be any class at any position, so that stratified blocks only make it less
  free. What a block promises about shares is arithmetic on floats and a
  shuffle; nothing else in the program relies on it.
* The cool-downs between subjects, which only pass time.
* The pilot: short checks one after another, each independent of the others,
  which print and write one report. It decides nothing that later runs read.
* Formatting of profiles, reports and summaries, the measured series and
  evidence in them; the CLI; `doctor`; observability; preparation of prompts and
  context histories; the matrix of the workflow and the fetching of quotas.
  None of them keeps state that decides anything.
* Hashes and validation of profiles before publishing, which happen before
  anything is copied; what validation would refuse is in `Profile`.
* The grouping of profiles by comparability key in `drift.py`: `Temporal` is one
  group.

## 10 Plan

Done: `Candidate` with its contract, `Subject` with `Profile`, `Recovery`,
`LoadTarget`, `HistoryRun`, `ResultsBranch` with `AppendOnly`, their composition
`ActionsJob`, `Rotation`, `Calibration`, their composition `Batch`, `Temporal`,
`Publish`; the proofs of every safety property of these, and of the safety half
of every liveness property.

What is left, by worth:

1. A theorem about the subject with the candidate's own variables inside, in place
   of the contract between the two.
2. The estimate of a confirmation's duration (`run_file._confirmation_estimate_s`)
   against what a candidate of `Candidate` takes.
3. The comparability key of `drift.py`, if profiles of different models ever
   share a group by mistake.
