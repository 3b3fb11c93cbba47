------------------------------ MODULE Validity ------------------------------
(***************************************************************************)
(* measurement_validity.status of one sweep subject: what the executor     *)
(* believes about the provider while it measured.  The code changes the    *)
(* status at five places; this module names the values and those changes,  *)
(* so that the candidate test and the subject's phases use the same ones.  *)
(***************************************************************************)
EXTENDS Naturals

Statuses == {"valid", "suspect_non_monotonic", "suspect_steady_state",
             "suspect_reproduced", "invalid"}

\* The verdicts of evaluate() / point_verdict().
Verdicts == {"PASS", "FAIL", "INCONCLUSIVE"}

\* note_suspect(..., "reproduced_after_recovery"): every status but `invalid`
\* gives way to suspect_reproduced.
Reproduced(s) == IF s = "invalid" THEN s ELSE "suspect_reproduced"

\* The post-look veto and analyze_sweep's `unresolved` only mark a subject
\* nothing stronger was said about.
Unsteady(s)     == IF s = "valid" THEN "suspect_steady_state" ELSE s
NonMonotonic(s) == IF s = "valid" THEN "suspect_non_monotonic" ELSE s

\* How much a status says against the measurement: a property may ask that it
\* never says less than it did.
Strength(s) == CASE s = "valid"                 -> 0
                 [] s = "suspect_non_monotonic" -> 1
                 [] s = "suspect_steady_state"  -> 1
                 [] s = "suspect_reproduced"    -> 2
                 [] s = "invalid"               -> 3

Stops == {"confirmed", "violation_demonstrated", "looks_exhausted",
          "stopped_severe_throttling", "max_repetitions", "max_requests",
          "max_duration", "unreachable_within_caps", "post_look_violation",
          "provider_state_invalid", "not_tested"}

\* The stop reasons at which a still suspect point is accepted as a real
\* result and noted as reproduced.
Accepted == {"violation_demonstrated", "stopped_severe_throttling",
             "post_look_violation"}

(***************************************************************************)
(* What testing one candidate may do to the subject: from status s it ends *)
(* in status t with verdict v and stop reason r.                           *)
(***************************************************************************)
Settles(s, t, v, r) ==
    LET seen == IF r = "post_look_violation" THEN Unsteady(s) ELSE s
    IN  /\ r \in Stops \ {"not_tested"}
        /\ v = CASE r = "confirmed"              -> "PASS"
                 [] r = "violation_demonstrated" -> "FAIL"
                 [] OTHER                        -> "INCONCLUSIVE"
        /\ \/ r # "provider_state_invalid" /\ t = seen
           \/ r \in Accepted /\ t = Reproduced(seen)
           \/ r = "provider_state_invalid" /\ t = "invalid"
=============================================================================
