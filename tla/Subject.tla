------------------------------- MODULE Subject -------------------------------
(***************************************************************************)
(* One sweep subject of an experiment: the executor's loop body from the   *)
(* recovery before discovery to the profile it reports.  Discovery sweeps  *)
(* the configured values, refinement bisects the edge discovery found,     *)
(* confirmation tests the highest candidates first, and one measurement    *)
(* validity is carried through all three.                                  *)
(*                                                                         *)
(* A point is abstracted to what the later phases read of it: its verdict  *)
(* (`shown`) and whether it was served above the provider ceiling          *)
(* (`above`).  Testing a candidate is one step, the contract that module   *)
(* Candidate is checked against.  `None` stands for Python's None.         *)
(***************************************************************************)
EXTENDS Validity, Integers, FiniteSets, Sequences

CONSTANTS
    Top,       \* the largest value a sweep may offer
    Policies   \* how a subject may be configured

None   == 0
Values == 1..Top

\* What _validate and _validate_sweep let through: Top is max_connections, a
\* resolved sweep is not empty, refinement is for concurrency sweeps, a burst
\* screen has recovery and no confirmation.
SweepPolicy(p)      == p.sweep \in Seq(Values) /\ p.sweep # <<>>
RefinementPolicy(p) == p.refine # None => p.kind = "concurrency"
BurstPolicy(p)      == p.kind = "burst" => p.probe /\ p.candidates = None

\* No value is listed twice, which nothing checks: a point has one outcome.
Distinct(p) == \A i, j \in 1..Len(p.sweep) : p.sweep[i] = p.sweep[j] => i = j

ASSUME SubjectAssumption ==
    /\ Top \in Nat
    /\ Policies \subseteq [kind : {"concurrency", "rate", "burst"}, sweep : Seq(Values),
                           rpm : Nat, tpm : Nat, probe : BOOLEAN, stop_fails : Nat,
                           stop_clear : BOOLEAN, refine : Nat, candidates : Nat]
    /\ \A p \in Policies : SweepPolicy(p) /\ RefinementPolicy(p) /\ BurstPolicy(p) /\ Distinct(p)

VARIABLES
    policy,      \* the experiment's policy and what is known of the subject
    pc,          \* where the coroutine is
    phase,       \* the phase of the point being measured
    at,          \* its value
    next,        \* how far the discovery loop is
    fails,       \* consecutive_fails
    shown,       \* verdict of each point in `points`, "none" for no point
    above,       \* the points served above the provider ceiling
    lo, hi,      \* the refinement bracket
    refined,     \* refinement points tried
    cands,       \* the candidates chosen from the points
    tested,      \* verdict of each candidate, "none" before its turn
    stopped,     \* no further candidate is tested
    confirmed,   \* recommendation.confirmed_point: at most one value
    source,      \* recommendation.confirmation_source, "none" without one
    status       \* validity["status"]

Closed    == policy.kind = "concurrency"  \* a rate sweep otherwise
Burst     == policy.kind = "burst"        \* burst_protocol
Sweep     == policy.sweep       \* sweep_values(subject), in the configured order
Rpm       == policy.rpm         \* requests a second that the RPM quota allows,
Tpm       == policy.tpm         \* and the TPM quota; None when unknown
Probe     == policy.probe       \* isolation.recovery_probe is configured
StopFails == policy.stop_fails  \* sweep.stop_after_fails, None when unset
StopClear == policy.stop_clear  \* sweep.stop_after_clear_fail
RefineMax == policy.refine      \* sweep.refinement.max_points, None without refinement
HowMany   == policy.candidates  \* confirmation.candidates, None without confirmation

\* provider_ceilings[subject].rps: whichever quota binds first, None for neither.
Ceiling == IF Tpm = None \/ (Rpm # None /\ Rpm <= Tpm) THEN Rpm ELSE Tpm

sweep   == <<policy, phase, at, next, fails>>
points  == <<shown, above>>
bracket == <<lo, hi, refined>>
confirmation == <<cands, tested, stopped>>
recommendation == <<confirmed, source>>
vars == <<pc, sweep, points, bracket, confirmation, recommendation, status>>

-----------------------------------------------------------------------------
(* What is read of the points.                                             *)

Points   == {v \in Values : shown[v] # "none"}
Failed   == {v \in Points : shown[v] = "FAIL"}
Upper    == {v \in Points : v \in Failed \/ v \in above}
Greatest(S) == {v \in S : \A w \in S : w <= v}
Least(S)    == {v \in S : \A w \in S : v <= w}

\* A member of S, or None when there is no value to take.
OrNone(S) == IF S = {} THEN {None} ELSE S

\* The leading run of non-failing points, and its strict-PASS prefix.
Leading   == {v \in Points : \A f \in Failed : v < f}
StrictRun == {v \in Points : \A w \in Points : w <= v => shown[w] = "PASS"}

Unresolved == \E f \in Failed : \E v \in Points \ Failed : f < v

\* The how_many highest of a set.
Highest(S) == {v \in S : Cardinality({w \in S : w > v}) < HowMany}

\* A rate above the provider ceiling is not offered.
WithinQuota(v) == Closed \/ Ceiling = None \/ v <= Ceiling

EligibleAnyRate == Leading  \* mutant of Eligible: the quota is not looked at
Eligible        == {v \in Leading : WithinQuota(v)}

\* _candidates: the highest leading points; a rate above the ceiling is never
\* offered, and a concurrency sweep keeps one candidate served within it.
Candidates ==
    LET chosen == Highest(Eligible)
        within == Eligible \ above
    IN  IF /\ Closed /\ Ceiling # None /\ HowMany > 1
           /\ within # {} /\ chosen \cap within = {}
        THEN (chosen \ Least(chosen)) \cup Greatest(within)
        ELSE chosen

-----------------------------------------------------------------------------
(* What a measured point can look like: the ratio to the ceiling is known  *)
(* only with a ceiling, and a point is not both far below and above it.    *)

Outcomes == {o \in [verdict : Verdicts, above : BOOLEAN, severe : BOOLEAN, suspect : BOOLEAN] :
                /\ o.above \/ o.suspect => Ceiling # None
                /\ ~(o.above /\ o.suspect)}

ClearFail(o) == StopClear /\ (o.verdict = "FAIL" \/ o.severe)

\* The suspect signature asks for recovery and a second measurement.
Control(o) == Probe /\ ~Burst /\ o.suspect /\ ~ClearFail(o)

\* The sweep ends after the point o that made n failures in a row.
SaturatedLate(o, n) == ClearFail(o) \/ (StopFails # None /\ n > StopFails)  \* mutant
Saturated(o, n)     == ClearFail(o) \/ (StopFails # None /\ n >= StopFails)

AfterAll(p) == IF p = "discovery" THEN "discover" ELSE "recommend"  \* mutant of After

\* Where a phase goes on when a point could not be measured.
After(p) == IF p = "discovery" THEN "bracket" ELSE "recommend"

-----------------------------------------------------------------------------
Init ==
    /\ policy \in Policies
    /\ pc = "recover" /\ phase = "discovery" /\ at = None
    /\ next = 1 /\ fails = 0
    /\ shown = [v \in Values |-> "none"] /\ above = {}
    /\ lo = None /\ hi = None /\ refined = 0
    /\ cands = {} /\ tested = [v \in Values |-> "none"] /\ stopped = FALSE
    /\ confirmed = {} /\ source = "none"
    /\ status = "valid"

\* recover(): the provider is healthy and the coroutine goes on at `ok`, or
\* (only a probe can tell) every attempt failed and it goes on at `broken`.
RecoverTo(ok, broken) ==
    \/ pc' = ok /\ UNCHANGED status
    \/ Probe /\ pc' = broken /\ status' = "invalid"

Recover ==
    /\ pc = "recover"
    /\ RecoverTo("discover", "bracket")
    /\ UNCHANGED <<sweep, points, bracket, confirmation, recommendation>>

NextValue == at' = Sweep[next] /\ next' = next + 1

\* The next value of the sweep, in the configured order.
Discover ==
    /\ pc = "discover"
    /\ IF next <= Len(Sweep)
       THEN NextValue /\ pc' = "measure"
       ELSE pc' = "bracket" /\ UNCHANGED <<at, next>>
    /\ UNCHANGED <<policy, phase, fails, points, bracket, confirmation, recommendation,
                   status>>

\* measure() saw more SDK calls in flight than the configured concurrency: the
\* subject is invalid and the point is not reported.
Overrun ==
    /\ pc \in {"measure", "again"} /\ Closed
    /\ status' = "invalid"
    /\ pc' = After(phase)
    /\ UNCHANGED <<sweep, points, bracket, confirmation, recommendation>>

\* The point joins `points` and its phase decides where to go on.
Accept(o) ==
    /\ shown' = [shown EXCEPT ![at] = o.verdict]
    /\ above' = IF o.above THEN above \cup {at} ELSE above
    /\ IF phase = "discovery"
       THEN /\ fails' = IF Burst \/ o.verdict # "FAIL" THEN 0 ELSE fails + 1
            /\ pc' = IF Burst THEN "pulse"
                     ELSE IF Saturated(o, fails') THEN "bracket" ELSE "discover"
            /\ UNCHANGED bracket
       ELSE /\ IF o.verdict = "FAIL" \/ o.above
               THEN hi' = at /\ UNCHANGED lo
               ELSE lo' = at /\ UNCHANGED hi
            /\ pc' = "refine"
            /\ UNCHANGED <<fails, refined>>
    /\ UNCHANGED <<policy, phase, at, next, confirmation, recommendation>>

Measure ==
    /\ pc = "measure"
    /\ \E o \in Outcomes :
          IF Control(o)
          THEN /\ pc' = "suspect"
               /\ UNCHANGED <<sweep, points, bracket, confirmation, recommendation, status>>
          ELSE Accept(o) /\ UNCHANGED status

\* Mutant of RecoverSuspect: a suspect point is measured as if it were new.
MeasureAfresh ==
    /\ pc = "suspect"
    /\ RecoverTo("measure", After(phase))
    /\ UNCHANGED <<sweep, points, bracket, confirmation, recommendation>>

\* A suspect point: verify recovery, drop its data, measure once more.
RecoverSuspect ==
    /\ pc = "suspect"
    /\ RecoverTo("again", After(phase))
    /\ UNCHANGED <<sweep, points, bracket, confirmation, recommendation>>

\* The second measurement is accepted as it is; the signature coming back after
\* a verified recovery is remembered.
MeasureAgain ==
    /\ pc = "again"
    /\ \E o \in Outcomes :
          /\ Accept(o)
          /\ status' = IF o.suspect THEN Reproduced(status) ELSE status

\* After every burst: the recovery it measures, or the end of the bursts.
RecoverPulse ==
    /\ pc = "pulse"
    /\ RecoverTo("discover", "bracket")
    /\ UNCHANGED <<sweep, points, bracket, confirmation, recommendation>>

\* The first upper point, and the highest point below it.
Bracket ==
    /\ pc = "bracket"
    /\ IF RefineMax # None /\ status # "invalid"
       THEN /\ hi' \in OrNone(Least(Upper))
            /\ lo' \in OrNone(Greatest({v \in Points : \A u \in Upper : v < u}))
            /\ pc' = "refine"
       ELSE pc' = "recommend" /\ UNCHANGED <<lo, hi>>
    /\ UNCHANGED <<sweep, points, refined, confirmation, recommendation, status>>

LocatedTwice == lo = None \/ hi = None \/ hi - lo < 1  \* mutant of Located

Midpoint == (lo + hi) \div 2
Located  == lo = None \/ hi = None \/ hi - lo <= 1

\* Recovery before every refinement point, then the middle of the bracket.
Refine ==
    /\ pc = "refine"
    /\ IF refined = RefineMax \/ Located
       THEN pc' = "recommend" /\ UNCHANGED <<at, phase, refined, status>>
       ELSE /\ RecoverTo("measure", "recommend")
            /\ at' = Midpoint
            /\ phase' = "refinement"
            /\ refined' = refined + 1
    /\ UNCHANGED <<policy, next, fails, points, lo, hi, confirmation, recommendation>>

\* recommend(), and the choice of candidates when a confirmation follows.
Recommend ==
    /\ pc = "recommend"
    /\ confirmed' = Greatest(StrictRun)
    /\ source' = IF Leading = {} THEN "none" ELSE "discovery_fixed_sequence"
    /\ IF HowMany # None /\ Leading # {} /\ status # "invalid"
       THEN cands' = Candidates /\ pc' = "confirm"
       ELSE pc' = "analyze" /\ UNCHANGED cands
    /\ UNCHANGED <<sweep, points, bracket, tested, stopped, status>>

Untested == {v \in cands : tested[v] = "none"}

LowestUntested == Least(Untested)  \* mutant of NextCandidate
NextCandidate  == Greatest(Untested)

EndsTesting(d, r) == d = "PASS" \/ r = "provider_state_invalid"

\* Highest first: the candidate settles and a PASS, or a provider that never
\* recovered, ends the testing.
TestCandidate ==
    /\ pc = "confirm" /\ ~stopped
    /\ \E v \in NextCandidate, t \in Statuses, d \in Verdicts, r \in Stops :
          /\ Settles(status, t, d, r)
          /\ r = "provider_state_invalid" => Probe \/ Closed
          /\ t = "suspect_reproduced" => t = status \/ (Probe /\ Ceiling # None)
          /\ tested' = [tested EXCEPT ![v] = d]
          /\ stopped' = EndsTesting(d, r)
          /\ status' = t
    /\ UNCHANGED <<pc, sweep, points, bracket, cands, recommendation>>

SkipCandidate ==
    /\ pc = "confirm" /\ stopped
    /\ \E v \in NextCandidate : tested' = [tested EXCEPT ![v] = "not_tested"]
    /\ UNCHANGED <<pc, sweep, points, bracket, cands, stopped, recommendation, status>>

\* highest_confirmed replaces what discovery recommended.
Confirm ==
    /\ pc = "confirm" /\ Untested = {}
    /\ confirmed' = Greatest({v \in cands : tested[v] = "PASS"})
    /\ source' = "confirmation"
    /\ pc' = "analyze"
    /\ UNCHANGED <<sweep, points, bracket, confirmation, status>>

\* A pass above a failure leaves the sweep unresolved.
Analyze ==
    /\ pc = "analyze"
    /\ status' = IF Unresolved THEN NonMonotonic(status) ELSE status
    /\ pc' = "done"
    /\ UNCHANGED <<sweep, points, bracket, confirmation, recommendation>>

Done == pc = "done" /\ UNCHANGED vars

Next == \/ Recover \/ Discover \/ Overrun \/ Measure \/ RecoverSuspect \/ MeasureAgain
        \/ RecoverPulse \/ Bracket \/ Refine \/ Recommend
        \/ TestCandidate \/ SkipCandidate \/ Confirm \/ Analyze \/ Done

\* Nothing but the coroutine itself runs it, and every await returns.
Spec == Init /\ [][Next]_vars /\ WF_vars(Next)
-----------------------------------------------------------------------------
(* Properties.                                                             *)

Pcs == {"recover", "discover", "measure", "suspect", "again", "pulse", "bracket",
        "refine", "recommend", "confirm", "analyze", "done"}

\* The subject's state is well formed.
TypeOK ==
    /\ policy \in Policies
    /\ pc \in Pcs /\ phase \in {"discovery", "refinement"}
    /\ at \in Values \cup {None}
    /\ pc \in {"measure", "suspect", "again"} => at \in Values
    /\ next \in 1..Len(Sweep) + 1 /\ fails \in Nat
    /\ shown \in [Values -> Verdicts \cup {"none"}] /\ above \subseteq Values
    /\ {lo, hi} \subseteq Values \cup {None} /\ refined \in Nat
    /\ cands \subseteq Values
    /\ tested \in [Values -> Verdicts \cup {"none", "not_tested"}]
    /\ stopped \in BOOLEAN
    /\ confirmed \subseteq Values
    /\ source \in {"none", "discovery_fixed_sequence", "confirmation"}
    /\ status \in Statuses

\* Candidates are tested highest first and the first PASS is the last test: a
\* PASS leaves every higher candidate tested without one and no lower candidate
\* tested, and nothing goes untested for any other reason than a PASS above it
\* or an invalid subject.
HighestFirst ==
    /\ \A v, w \in cands : tested[v] = "PASS" /\ v < w => tested[w] \in {"FAIL", "INCONCLUSIVE"}
    /\ \A v, w \in cands : tested[v] = "PASS" /\ w < v => tested[w] \in {"none", "not_tested"}
    /\ \A v \in cands : tested[v] = "not_tested" =>
          status = "invalid" \/ \E w \in cands : v < w /\ tested[w] = "PASS"

\* The confirmed point is one point, it was measured, and no point measured at
\* or below it failed; from discovery every point up to it passed, from a
\* confirmation it is the candidate that passed, never a rate above the quota.
ConfirmedStands ==
    \A v \in confirmed :
       /\ confirmed = {v}
       /\ shown[v] # "none"
       /\ \A w \in Values : w <= v => shown[w] # "FAIL"
       /\ source = "discovery_fixed_sequence" =>
             \A w \in Values : w <= v => shown[w] \in {"none", "PASS"}
       /\ source = "confirmation" =>
             tested[v] = "PASS" /\ WithinQuota(v)

\* Refinement keeps a bracket: a measured point that is not upper, below a
\* measured one that is, with nothing measured in between, so that the point it
\* measures next is a new one inside the bracket.
Bracketed ==
    lo # None /\ hi # None =>
    /\ lo < hi /\ lo \in Points \ Upper /\ hi \in Upper
    /\ \A v \in Points : ~(lo < v /\ v < hi)
    /\ phase = "refinement" /\ pc \in {"measure", "suspect", "again"} => lo < at /\ at < hi

\* A sweep that stops on saturation has seen it once: no value is measured
\* after StopFails failures in a row, nor after a failure with
\* stop_after_clear_fail.  (`next` is past the values that discovery offered: a
\* bisection may come upon a later one.)
StopsAtSaturation ==
    ~Burst => \A i \in 1..next - 1 : shown[Sweep[i]] # "none" =>
    /\ StopClear => \A j \in 1..i - 1 : shown[Sweep[j]] # "FAIL"
    /\ StopFails # None => \A j \in 1..i - StopFails :
          \E k \in j..j + StopFails - 1 : shown[Sweep[k]] # "FAIL"

\* An invalid subject stays invalid and puts no further load on the provider;
\* a validity is never taken back and an accepted point is never measured again.
InvalidIsFinal ==
    [][/\ Strength(status') >= Strength(status)
       /\ status = "invalid" => /\ pc' \notin {"measure", "again"} /\ shown' = shown
                                /\ \A v \in Values : tested'[v] \in {tested[v], "not_tested"}
       /\ \A v \in Points : shown'[v] = shown[v]]_vars

\* Every subject ends with a profile.
Terminates == <>(pc = "done")
=============================================================================
