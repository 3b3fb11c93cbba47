------------------------------- MODULE Temporal -------------------------------
(***************************************************************************)
(* From repeated runs to a number for production.  Every run leaves one    *)
(* capacity profile with a recommendation after headroom; `validate` lines *)
(* the profiles up, leaves the invalid ones out and publishes the minimum  *)
(* recommendation once enough runs on enough days agree to have measured.  *)
(*                                                                         *)
(* One group of comparable profiles is modelled (one model, experiment,    *)
(* subject, sweep kind and methodology).  A profile is abstracted to what  *)
(* summarize() reads of it.  Admissions are counted in units of one part   *)
(* in Of, so that headroom stays an integer; spreads in tenths of a        *)
(* percent.  0 stands for Python's None.                                   *)
(***************************************************************************)
EXTENDS Integers, Sequences, FiniteSets, FiniteSetsExt

CONSTANTS
    Kinds,      \* the sweep kinds a group may have
    Values,     \* values a run may confirm
    Days,       \* days on which runs are measured
    Keep,       \* 1 - provider_headroom is Keep / Of
    QuotaKeep,  \* 1 - quota_headroom is QuotaKeep / Of
    Of,
    Quota,      \* provider_ceiling_rps, None when unknown
    MinRuns, MinDays, Threshold,   \* --min-runs, --min-days, --threshold
    MaxRuns     \* bound: how many runs there are

None == 0

ASSUME TemporalAssumption ==
    /\ Kinds \subseteq {"rate", "concurrency"}
    /\ Values \subseteq Nat \ {0} /\ Days \subseteq Nat \ {0}
    /\ {Of, MaxRuns} \subseteq Nat \ {0}
    /\ {Keep, QuotaKeep} \subseteq 1..Of
    /\ {Quota, MinRuns, MinDays, Threshold} \subseteq Nat

VARIABLES
    kind,      \* the group's sweep kind
    profiles,  \* the capacity profiles found, in the order they were measured
    artifact   \* the temporal capacity profile: its envelope, its production
               \* input, and how many profiles it was computed from

vars == <<kind, profiles, artifact>>

\* `observed`: some point led the sweep, so the profile has a block of its kind.
\* `valid`: neither the measurement nor its workload was found invalid.
Profiles == {p \in [observed : BOOLEAN, confirmed : Values \cup {None},
                    day : Days \cup {None}, valid : BOOLEAN] :
                p.confirmed # None => p.observed}

-----------------------------------------------------------------------------
(* The recommendation of one run.                                          *)

Floor(v) == (v \div Of) * Of

Headroom(v) == IF kind = "rate" THEN v * Keep ELSE Floor(v * Keep)

\* _envelope: an invalid run recommends nothing, whatever it confirmed.
Withheld(p) == ~p.valid

\* Nothing confirmed, or less than one request in flight, leaves nothing to
\* recommend; a rate is capped by the provider's quota.
Admission(p) ==
    IF Withheld(p) \/ p.confirmed = None THEN None
    ELSE IF kind = "rate" /\ Quota # None /\ Quota * QuotaKeep < Headroom(p.confirmed)
    THEN Quota * QuotaKeep
    ELSE Headroom(p.confirmed)

-----------------------------------------------------------------------------
(* summarize(): what the runs support together.                            *)

\* The runs a group lists, and of those the ones that count (mutant: all of them).
AllListed(ps) == {i \in 1..Len(ps) : ps[i].observed}
Runs(ps)      == {i \in 1..Len(ps) : ps[i].observed /\ ps[i].valid}

AdmissionIn(ps) == {Admission(ps[i]) : i \in Runs(ps)} \ {None}
DaysIn(ps)      == {ps[i].day : i \in Runs(ps)} \ {None}
ConfirmedIn(ps) == {i \in Runs(ps) : ps[i].confirmed # None}

\* Mutant of Conservative: the greatest recommendation.
Bold(values) == IF values = {} THEN None ELSE Max(values)

Conservative(values) == IF values = {} THEN None ELSE Min(values)

\* The k-th of the confirmed values in ascending order.
Ranked(ps, k) ==
    CHOOSE v \in {ps[i].confirmed : i \in ConfirmedIn(ps)} :
        /\ Cardinality({i \in ConfirmedIn(ps) : ps[i].confirmed < v}) < k
        /\ k <= Cardinality({i \in ConfirmedIn(ps) : ps[i].confirmed <= v})

\* (max - min) / median, rounded to a tenth of a percent.
Spread(ps) ==
    LET n     == Cardinality(ConfirmedIn(ps))
        twice == Ranked(ps, (n + 1) \div 2) + Ranked(ps, n \div 2 + 1)
    IN  (4000 * (Ranked(ps, n) - Ranked(ps, 1)) + twice) \div (2 * twice)

Stable(ps) == /\ ConfirmedIn(ps) = Runs(ps)
              /\ ConfirmedIn(ps) # {} /\ Spread(ps) <= Threshold

Envelope(ps) ==
    IF Cardinality(Runs(ps)) <= 1 THEN "single_run"
    ELSE IF Cardinality(Runs(ps)) < MinRuns \/ Cardinality(DaysIn(ps)) < MinDays
    THEN "insufficient"
    ELSE IF Stable(ps) THEN "stable" ELSE "unstable"

\* Only these carry a production input.
Usable(e) == e \in {"stable", "unstable"}

-----------------------------------------------------------------------------
Init == /\ kind \in Kinds
        /\ profiles = <<>>
        /\ artifact = [envelope |-> "none", input |-> None, profiles |-> 0]

\* Another run writes its profile.
Measure ==
    /\ Len(profiles) < MaxRuns
    /\ \E p \in Profiles : profiles' = Append(profiles, p)
    /\ UNCHANGED <<kind, artifact>>

\* build_temporal_profile over everything there is; without a block of its kind
\* the group does not exist.
Validate ==
    /\ AllListed(profiles) # {}
    /\ artifact' = [envelope |-> Envelope(profiles),
                    input    |-> IF Usable(Envelope(profiles))
                                 THEN Conservative(AdmissionIn(profiles)) ELSE None,
                    profiles |-> Len(profiles)]
    /\ UNCHANGED <<kind, profiles>>

Next == Measure \/ Validate

Spec == Init /\ [][Next]_vars
-----------------------------------------------------------------------------
(* Properties.                                                             *)

\* More evidence never relaxes production: once an artifact gave a production
\* input, every later one gives one, and none that is higher.
NeverRelaxes == [][artifact.input # None => /\ artifact'.input # None
                                            /\ artifact'.input <= artifact.input]_vars

\* A production input rests on valid runs alone: on as many of them as required,
\* on as many days.  It is the recommendation of one of them, above none of the
\* others', and keeps the headroom below what each confirmed and below the quota.
RestsOnValidRuns ==
    artifact.input # None =>
    LET valid == {i \in 1..artifact.profiles : profiles[i].valid /\ profiles[i].observed}
    IN  /\ Cardinality(valid) >= MinRuns /\ Cardinality(valid) > 1
        /\ Cardinality({profiles[i].day : i \in valid} \ {None}) >= MinDays
        /\ \E i \in valid : Admission(profiles[i]) = artifact.input
        /\ \A i \in 1..artifact.profiles : Admission(profiles[i]) # None =>
              /\ artifact.input <= Admission(profiles[i])
              /\ artifact.input <= profiles[i].confirmed * Keep
        /\ kind = "rate" /\ Quota # None => artifact.input <= Quota * QuotaKeep

\* docs/methodology.md: "A run that confirmed nothing is never stable", and
\* drift.py: "every run confirmed".
StableMeansEveryRunConfirmed ==
    artifact.envelope = "stable" =>
    \A i \in 1..artifact.profiles : profiles[i].valid => profiles[i].confirmed # None
=============================================================================
