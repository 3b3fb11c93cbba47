-------------------------------- MODULE Batch --------------------------------
(***************************************************************************)
(* run_batch: an invocation reserves its rotation, then runs the planned   *)
(* pairs of a model and an experiment one after the other.  A run sizes    *)
(* the prompts of its subjects, loads them in their rotated order, and     *)
(* writes its raw results and its profile; the summary is written when all *)
(* are done.  A run may raise anywhere, and the process may be interrupted *)
(* or killed anywhere; a file is seen before it is whole.  It is opened    *)
(* empty and written from its beginning, so of two texts written to one    *)
(* file the longer one keeps its end behind the shorter one.               *)
(*                                                                         *)
(* The load of a subject is one step here, and module Subject.  Every run  *)
(* has file names of its own (run_id), but invocations that start in the   *)
(* same second, or are told to, share a directory and its summary.         *)
(***************************************************************************)
EXTENDS Rotation, Calibration, Sequences

CONSTANTS
    Runs,       \* the pairs in order: model, subjects, and whether a filter skips it
    Target,     \* Target[s]: input_tokens of a subject
    FailFast,   \* the invocations that pass --fail-fast
    Dir,        \* Dir[i]: the results directory of an invocation
    Providers,  \* the token counters a model may have
    Strategy    \* token_counting

Statuses == {"ok", "failed", "skipped"}  \* of a run
Models   == {Runs[n].model : n \in 1..Len(Runs)}
Subjects == UNION {{Runs[n].subjects[k] : k \in 1..Len(Runs[n].subjects)} : n \in 1..Len(Runs)}

ASSUME BatchAssumption ==
    /\ FailFast \subseteq Invocations /\ Len(Runs) \in Nat
    /\ None \notin Statuses
    /\ \A n \in 1..Len(Runs) : LET subjects == Runs[n].subjects
                               IN  /\ subjects \in Seq(Subjects) /\ subjects # <<>>
                                   /\ \A j, k \in 1..Len(subjects) :
                                         subjects[j] = subjects[k] => j = k
    /\ \A s \in Subjects : Target[s] \in Nat \ {0}
    /\ \A p \in Providers : p.suffix \in Nat /\ {p.per, p.grain} \subseteq Nat \ {0}

VARIABLES
    provider,  \* the counters of each model
    at,        \* where each invocation is in its batch
    results,   \* the status of each planned pair, None until it is over
    first,     \* the subject each pair was led by, None for none yet
    sized,     \* the prompts of the run in progress
    files,     \* the artifacts of its runs
    summary    \* summary.yaml of each directory: what is in it, and who wrote last

batch     == <<provider, at, results, first, sized, files, summary>>
batchVars == <<vars, batch>>

Dirs == {Dir[i] : i \in Invocations}

\* calibrate_profile of each subject with each provider: the characters of its
\* k-th attempt, and those of the closest of the first k.
Tried[k \in 1..Iterations] ==
    [p \in Providers |-> [s \in Subjects |->
        IF k = 1 THEN Estimated(Target[s]) ELSE After(p, Target[s], Tried[k - 1][p][s])]]

Closest[k \in 1..Iterations] ==
    [p \in Providers |-> [s \in Subjects |->
        IF k = 1 THEN Tried[1][p][s]
        ELSE Better(p, Target[s], Closest[k - 1][p][s], Tried[k][p][s])]]

Attempts(p, s) == {k \in 1..Iterations : Tried[k][p][s] # Stop}
Raises == {0, 1}

\* A call that raises at attempt `raises` (0: none does) falls back to the
\* estimate.
Prompt(p, s, raises) ==
    LET method == Resolve(Strategy, p)
        chars  == Closest[Iterations][p][s]
    IN  IF method = "estimate" \/ raises \in Attempts(p, s) THEN Unsized(Target[s])
        ELSE [method |-> method, chars |-> chars, converged |-> Sized(p, Target[s], chars)]

Prompts == [p \in Providers |-> [s \in Subjects |-> [r \in Raises |-> Prompt(p, s, r)]]]

\* Pairs without a matching workload are not run.
Planned == {n \in 1..Len(Runs) : ~Runs[n].skip}

Left(i)   == {n \in Planned : results[i][n] = None}
Number(i) == Min(Left(i))
Run(i)    == Runs[Number(i)]
Failed(i) == \E n \in Planned : results[i][n] = "failed"

NeverRotated(i) == Run(i).subjects  \* mutant of Order: the index is not used
Order(i) ==
    LET subjects == Run(i).subjects
        offset   == index[i] % Len(subjects)
    IN  SubSeq(subjects, offset + 1, Len(subjects)) \o SubSeq(subjects, 1, offset)

Go(i, l)     == at' = [at EXCEPT ![i] = l]
Log(i, s)    == results' = [results EXCEPT ![i][Number(i)] = s]
Save(i, kind, as)   == files' = [files EXCEPT ![i][Number(i)][kind] = as]

-----------------------------------------------------------------------------
BatchInit ==
    /\ Init
    /\ provider \in [Models -> Providers]
    /\ at = [i \in Invocations |-> "next"]
    /\ results = [i \in Invocations |-> [n \in Planned |-> None]]
    /\ first = [i \in Invocations |-> [n \in Planned |-> None]]
    /\ sized = [i \in Invocations |-> <<>>]
    /\ files = [i \in Invocations |->
                   [n \in Planned |-> [jsonl |-> "absent", profile |-> "absent"]]]
    /\ summary = [d \in Dirs |->
                     [by |-> None, runs |-> <<>>, text |-> "absent", alone |-> FALSE]]

\* With --fail-fast the pairs after a failed one are skipped.
Begin(i) ==
    /\ pc[i] \in {"reserved", "replayed"}
    /\ at[i] = "next" /\ Left(i) # {}
    /\ IF i \in FailFast /\ Failed(i) THEN Log(i, "skipped") /\ UNCHANGED at
                                      ELSE Go(i, "size") /\ UNCHANGED results
    /\ UNCHANGED <<vars, provider, first, sized, files, summary>>

\* Every prompt is sized before any load; a count may raise at any attempt.
Size(i) ==
    /\ at[i] = "size"
    /\ \E r \in [{Run(i).subjects[k] : k \in 1..Len(Run(i).subjects)} -> Raises] :
          sized' = [sized EXCEPT ![i] =
              [s \in DOMAIN r |-> Prompts[provider[Run(i).model]][s][r[s]]]]
    /\ Go(i, "load")
    /\ UNCHANGED <<vars, provider, results, first, files, summary>>

\* The subjects in their rotated order; the first one finds the provider idle.
Load(i) ==
    /\ at[i] = "load"
    /\ first' = [first EXCEPT ![i][Number(i)] = Head(Order(i))]
    /\ Go(i, "jsonl")
    /\ UNCHANGED <<vars, provider, results, sized, files, summary>>

OpenJsonl(i) ==
    /\ at[i] = "jsonl"
    /\ Save(i, "jsonl", "torn") /\ Go(i, "rows")
    /\ UNCHANGED <<vars, provider, results, first, sized, summary>>

WriteJsonl(i) ==
    /\ at[i] = "rows"
    /\ Save(i, "jsonl", "whole") /\ Go(i, "profile")
    /\ UNCHANGED <<vars, provider, results, first, sized, summary>>

OpenProfile(i) ==
    /\ at[i] = "profile"
    /\ Save(i, "profile", "torn") /\ Go(i, "text")
    /\ UNCHANGED <<vars, provider, results, first, sized, summary>>

WriteProfile(i) ==
    /\ at[i] = "text"
    /\ Save(i, "profile", "whole") /\ Log(i, "ok") /\ Go(i, "next")
    /\ sized' = [sized EXCEPT ![i] = <<>>]
    /\ UNCHANGED <<vars, provider, first, summary>>

InRun == {"size", "load", "jsonl", "rows", "profile", "text"}

Recorded(i) == Log(i, "failed")

\* An exception in a run, its writes included, is recorded; the batch goes on.
RunRaises(i) ==
    /\ at[i] \in InRun
    /\ Recorded(i) /\ Go(i, "next")
    /\ sized' = [sized EXCEPT ![i] = <<>>]
    /\ UNCHANGED <<vars, provider, first, files, summary>>

AnyNext(i)    == at[i] = "next"  \* mutant of AllLogged: the summary does not wait for all runs
AllLogged(i)  == at[i] = "next" /\ Left(i) = {}

Summarise(i, text, alone) ==
    summary' = [summary EXCEPT ![Dir[i]] =
        [by |-> i, runs |-> results[i], text |-> text, alone |-> alone]]

\* History: nobody else had the file open when i emptied it.
Alone(i) == \A j \in Invocations \ {i} : Dir[j] = Dir[i] => at[j] # "summary"

OpenSummary(i) ==
    /\ pc[i] \in {"reserved", "replayed"}
    /\ AllLogged(i)
    /\ Summarise(i, "empty", Alone(i)) /\ Go(i, "summary")
    /\ UNCHANGED <<vars, provider, results, first, sized, files>>

Overwrites(i, text) == Summarise(i, text, summary[Dir[i]].alone)

\* The process exits with 1 if a run failed.  If somebody has written to the file
\* since i emptied it, the end of that text may stay behind i's.
WriteSummary(i) ==
    /\ at[i] = "summary"
    /\ \/ Overwrites(i, "whole")
       \/ summary[Dir[i]].text # "empty" /\ Overwrites(i, "torn")
    /\ Go(i, IF Failed(i) THEN "exit 1" ELSE "exit 0")
    /\ UNCHANGED <<vars, provider, results, first, sized, files>>

\* Ctrl+C is not recorded as a failed run: like a kill, and a summary that cannot
\* be written, it ends the process, before, during or after its write.
Stopped(i) ==
    /\ at[i] \in InRun \cup {"summary"}
    /\ \/ UNCHANGED summary
       \/ at[i] = "summary" /\ \E text \in {"torn", "whole"} : Overwrites(i, text)
    /\ Go(i, "stopped")
    /\ UNCHANGED <<vars, provider, results, first, sized, files>>

Exits == {"exit 0", "exit 1", "stopped"}

BatchStep(i) == \/ Begin(i) \/ Size(i) \/ Load(i) \/ OpenJsonl(i) \/ WriteJsonl(i)
                \/ OpenProfile(i) \/ WriteProfile(i) \/ OpenSummary(i) \/ WriteSummary(i)

Reserving(i) == (Replay(i) \/ Work(i) \/ Die(i)) /\ UNCHANGED batch

Over == /\ \A i \in Invocations : pc[i] = "dead" \/ at[i] \in Exits
        /\ UNCHANGED batchVars

BatchNext == (\E i \in Invocations : Reserving(i) \/ BatchStep(i) \/ RunRaises(i) \/ Stopped(i))
             \/ Over

\* A process goes on with its next step as long as it lives.
BatchSpec == BatchInit /\ [][BatchNext]_batchVars
             /\ \A i \in Invocations :
                   WF_batchVars((Work(i) /\ UNCHANGED batch) \/ BatchStep(i))
-----------------------------------------------------------------------------
(* Properties.                                                             *)

\* A summary is whole once its writer has exited, if nobody else had it open
\* meanwhile; and a whole one is true, whoever shares its directory.  It has
\* every planned pair, what it calls ok has left both artifacts whole, and its
\* process exits with 0 exactly when nothing failed.  A pair is skipped only after
\* a failure, and then nothing was put on the provider for it.
SummaryIsTrue ==
    \A d \in Dirs :
        LET i    == summary[d].by
            runs == summary[d].runs
            exit == IF \E n \in Planned : runs[n] = "failed" THEN "exit 1" ELSE "exit 0"
        IN  /\ summary[d].alone /\ at[i] \in {"exit 0", "exit 1"} => summary[d].text = "whole"
            /\ summary[d].text = "whole" =>
                /\ at[i] \in {exit, "stopped"}
                /\ \A n \in Planned :
                      /\ runs[n] # None
                      /\ runs[n] = "ok" => files[i][n] = [jsonl |-> "whole", profile |-> "whole"]
                      /\ runs[n] = "skipped" => /\ first[i][n] = None
                                                /\ \E k \in Planned : k < n /\ runs[k] = "failed"

\* How often a subject led a run of pair n among the invocations that reserved
\* their own index.
Turns(n, s) == Cardinality({i \in Reserved : first[i][n] = s})

\* The turns are shared: while no invocation died over the counter, a subject is
\* loaded first, on an idle provider, at most once more than another is, once
\* everyone has got that far.
TurnsAreShared ==
    (\A i \in Invocations : pc[i] # "dead") =>
    \A n \in Planned :
        (\A i \in Reserved : first[i][n] # None) /\ Reserved = {i \in Invocations : pc[i] # "replayed"} =>
        \A j, k \in 1..Len(Runs[n].subjects) :
            Turns(n, Runs[n].subjects[j]) <= Turns(n, Runs[n].subjects[k]) + 1

\* The prompt a subject is measured with is the closest of all that were tried,
\* and says truly whether it is within the tolerance; without a counter it is
\* the estimate.
ClosestKept ==
    \A i \in Invocations : at[i] = "load" =>
        \A s \in DOMAIN sized[i] :
            LET p     == provider[Run(i).model]
                chars == sized[i][s].chars
            IN  IF sized[i][s].method = "estimate" THEN chars = 4 * Target[s]
                ELSE /\ \A k \in Attempts(p, s) :
                           Error(p, Target[s], chars) <= Error(p, Target[s], Tried[k][p][s])
                     /\ sized[i][s].converged <=> Sized(p, Target[s], chars)

\* A provider that counts in proportion to the prompt is met within the eight
\* attempts, if the instruction is no more than half of the target, a token has no
\* more than 32 characters, and the tolerance is at least a token: the correction
\* does not circle around the target.  (It does around smaller targets, where the
\* stripped space decides: of 10 characters 9 are left, and of 11 all.)
Converges ==
    \A i \in Invocations : at[i] = "load" =>
        \A s \in DOMAIN sized[i] :
            LET p == provider[Run(i).model]
            IN  /\ sized[i][s].method # "estimate"
                /\ p.grain = 1 /\ p.per <= 32
                /\ 2 * p.suffix <= Target[s]
                /\ 100 <= Tolerance * Target[s]
                => sized[i][s].converged

\* Every invocation ends, with an exit code unless it was stopped.
Ends == \A i \in Invocations : <>(pc[i] = "dead" \/ at[i] \in Exits)
=============================================================================
