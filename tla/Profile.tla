------------------------------- MODULE Profile -------------------------------
(***************************************************************************)
(* The entry a subject gets in capacity-profile.yaml: what report.py reads *)
(* out of the state that module Subject ends in, for each purpose of an    *)
(* experiment, and what it withholds.  Values are sets of at most one      *)
(* point, as in Subject; texts are named by what they claim.               *)
(***************************************************************************)
EXTENDS Subject

CONSTANT MinConfirmed  \* least concurrency that leaves a request after headroom

ASSUME ProfileAssumption == MinConfirmed \in Nat \ {0}

Purposes   == {"reference", "admission_calibration", "characterization"}
Deviations == {"within", "off", "unreported"}

\* Did a class measure the tokens it claims, in and out?  A mix is only asked
\* whether one of its classes did not.
Shape(deviations) == CASE "off" \in deviations         -> "missed"
                       [] deviations = {"unreported"}  -> "unknown"
                       [] OTHER                        -> "met"
OfMix(shapes) == IF "missed" \in shapes THEN "missed" ELSE "met"

\* Whatever the experiment is for, its control is only characterized.
Purpose(spec, control) == IF control THEN "characterization" ELSE spec

-----------------------------------------------------------------------------
(* The measurement.                                                        *)

Passing == Points \ Failed

Analysis == CASE Passing = {}                         -> "no_pass"
              [] Passing # {} /\ Failed = {}          -> "not_reached"
              [] Unresolved                           -> "unresolved"
              [] Passing # {} /\ Failed # {} /\ ~Unresolved -> "resolved"

Recommended == source # "none"  \* there is a recommendation

\* saturation: the edge discovery observed, claimed by a clean sweep only.
Edge == IF Recommended /\ Analysis = "resolved" THEN Least(Failed) ELSE {}

\* The concurrency or rate block.
Block == [observed   |-> Greatest(Leading),
          confirmed  |-> confirmed,
          beyond     |-> Closed /\ confirmed \cap above # {},
          burst      |-> IF Closed THEN {} ELSE Greatest(Passing),
          saturation |-> Edge,
          state      |-> Analysis]

\* What limits capacity is read off the checks that failed at the edge, and off
\* a valid measurement only.
Bottleneck == IF status # "valid" THEN "unresolved"
              ELSE IF Edge # {} THEN "failed_checks" ELSE Analysis

Tried == {v \in cands : tested[v] # "not_tested"}

\* Mutant of Reason: the experiment's plan is read, not what ran.
PlannedReason ==
    CASE status = "invalid"                   -> "invalid"
      [] status # "invalid" /\ HowMany # None   -> IF Tried = {} THEN "no_candidate" ELSE "tested"
      [] status # "invalid" /\ HowMany = None   -> IF Recommended THEN "discovery_only" ELSE "lowest_fails"

\* Why nothing was confirmed.
Reason ==
    CASE status = "invalid"                             -> "invalid"
      [] status # "invalid" /\ ~Recommended             -> "lowest_fails"
      [] status # "invalid" /\ source = "confirmation"  -> IF Tried = {} THEN "no_candidate" ELSE "tested"
      [] status # "invalid" /\ source = "discovery_fixed_sequence" -> "discovery_only"

-----------------------------------------------------------------------------
(* The policy: an admission envelope from a reference experiment, a point  *)
(* for calibration, or nothing.                                            *)

\* The confirmed point that headroom leaves something of.
Admitted == {v \in confirmed : Closed => v >= MinConfirmed}

Advice(purpose) ==
    IF purpose # "reference" \/ Burst THEN [envelope |-> {}, reasons |-> {"purpose"}]
    ELSE IF confirmed = {} THEN [envelope |-> {}, reasons |-> {Reason}]
    ELSE [envelope |-> Admitted, reasons |-> IF Admitted = {} THEN {"headroom"} ELSE {}]

OnlyRecommended(purpose) ==  \* mutant of Calibrates: without a recommendation it is null
    IF purpose # "admission_calibration" \/ Burst THEN "absent"
    ELSE IF Recommended THEN "point" ELSE "null"
Calibrates(purpose) ==
    IF purpose = "admission_calibration" /\ ~Burst THEN "point" ELSE "absent"

Unchecked(purpose) ==
    [envelope |-> Advice(purpose).envelope,
     reasons  |-> Advice(purpose).reasons,
     calibration |-> Calibrates(purpose),
     blocks   |-> IF Recommended /\ ~Burst THEN {Block} ELSE {}]

Missed(shape) == IF shape = "missed" THEN {"workload_validation_failed"} ELSE {}

\* The entry: an invalid measurement, or one of another shape than claimed, is
\* reported but recommends and calibrates nothing.
MissedOnly(shape) == Missed(shape)  \* mutant of Objections: validity is not looked at
Objections(shape) == Missed(shape)
                     \cup (IF status = "invalid" THEN {"measurement_invalid"} ELSE {})

Entry(purpose, shape) ==
    LET entry == Unchecked(purpose)
    IN  IF Objections(shape) = {} THEN entry
        ELSE [entry EXCEPT !.envelope = {},
                           !.reasons = Objections(shape) \cup @,
                           !.calibration = IF @ = "absent" THEN @ ELSE "null"]

\* Three conditions of capacity-profile-v23.json on such an entry: a calibration
\* point is an object, a block has a saturation status, and at most one point of
\* it is confirmed.
Conforms(entry) ==
    /\ entry.calibration \in {"absent", "point"}
    /\ \A b \in entry.blocks : b.state \in {"resolved", "not_reached", "unresolved"}
    /\ \A b \in entry.blocks : Cardinality(b.confirmed) <= 1

-----------------------------------------------------------------------------
(* Properties.                                                             *)

\* Whatever a subject went through, what its entry offers for production or
\* calibration comes from an experiment made for it, on the shape it claims and
\* a provider that recovered; with a confirmation phase it rests on independent
\* data within the quota, without one on a run of PASSes from the lowest value.
\* It lies below the edge the sweep observed.
EntryIsBacked ==
    pc = "done" =>
    \A spec \in Purposes, control \in BOOLEAN, in, out \in Deviations :
        LET entry   == Entry(Purpose(spec, control), Shape({in, out}))
            offered == IF entry.calibration = "point" THEN confirmed ELSE entry.envelope
        IN  offered # {} =>
            /\ ~control /\ spec # "characterization" /\ ~Burst
            /\ status # "invalid" /\ "off" \notin {in, out}
            /\ \A v \in offered :
                  /\ \A w \in Edge : v < w
                  /\ IF HowMany # None THEN tested[v] = "PASS" /\ WithinQuota(v)
                     ELSE \A w \in Points : w <= v => shown[w] = "PASS"

\* The reason an entry gives for confirming nothing is what happened; an invalid
\* subject may also have overrun its concurrency, which the text does not say.
ReasonIsTrue ==
    pc = "done" /\ confirmed = {} /\ ~Burst =>
    LET lowest == Least(Points)
    IN  CASE Reason = "invalid"        -> Probe \/ Closed
          [] Reason = "lowest_fails"   -> \E v \in lowest : shown[v] = "FAIL"
          [] Reason = "no_candidate"   -> Leading # {} /\ \A v \in Leading : ~WithinQuota(v)
          [] Reason = "tested"         -> cands # {} /\ \A v \in cands : tested[v] \in {"FAIL", "INCONCLUSIVE"}
          [] Reason = "discovery_only" -> \E v \in lowest : shown[v] = "INCONCLUSIVE"

\* A bottleneck is named of a valid measurement only, and then one is: a clean
\* edge, or that the sweep did not reach it.
CauseIsRead ==
    pc = "done" /\ Recommended =>
        (Bottleneck \in {"failed_checks", "not_reached"} <=> status = "valid")

\* What an entry says of its subject is so.
ReportIsTrue == ReasonIsTrue /\ CauseIsRead

\* In these conditions of the schema, which consumers check and `publish` insists
\* on, the entry conforms unless a calibration point was withheld: the code then
\* writes null where the schema wants an object.
ConformsUnlessWithheld ==
    pc = "done" =>
    \A purpose \in Purposes, in, out \in Deviations :
        LET entry == Entry(purpose, Shape({in, out}))
        IN  Conforms(entry) <=> ~(/\ purpose = "admission_calibration" /\ ~Burst
                                  /\ status = "invalid" \/ "off" \in {in, out})

\* docs/slo-statistics.md: an invalid subject draws "no capacity conclusion
\* (confirmed or not)": no block of its entry has a confirmed point.
InvalidDrawsNoConclusion ==
    pc = "done" /\ status = "invalid" =>
    \A purpose \in Purposes : \A b \in Entry(purpose, "met").blocks : b.confirmed = {}
=============================================================================
