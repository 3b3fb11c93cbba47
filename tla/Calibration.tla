----------------------------- MODULE Calibration -----------------------------
(***************************************************************************)
(* Token calibration: how much padding a prompt of a workload class gets   *)
(* so that the provider counts the tokens the class claims.  The provider  *)
(* is its two counters, each of which answers, answers without looking at  *)
(* the prompt or raises, and the tokens it counts: those of the fixed      *)
(* instruction after the padding, and one for every `per` characters, in   *)
(* steps of `grain` tokens: nothing promises that counts grow smoothly.    *)
(***************************************************************************)
EXTENDS Integers, FiniteSetsExt

Iterations == 8   \* max_iterations
Tolerance  == 2   \* calibration_tolerance_pct
Stop       == -1  \* no further attempt

Bigger(a, b) == IF a >= b THEN a ELSE b
Distance(a, b) == IF a >= b THEN a - b ELSE b - a

\* The padding repeats a word of nine letters and a space, and is stripped.
Padding(chars) == IF chars % 10 = 0 THEN Bigger(0, chars - 1) ELSE chars

Count(p, chars)         == p.suffix + p.grain * (Padding(chars) \div (p.per * p.grain))
Error(p, target, chars) == Distance(Count(p, chars), target)
Sized(p, target, chars) == 100 * Error(p, target, chars) <= Tolerance * target

\* The first counter the strategy allows whose two probes grow with the prompt.
Resolve(strategy, p) ==
    CASE strategy \in {"auto", "count_tokens"} /\ p.count_tokens = "answers" -> "count_tokens"
      [] strategy \in {"auto", "converse_usage"} /\ p.converse_usage = "answers"
         /\ ~(strategy = "auto" /\ p.count_tokens = "answers") -> "converse_usage"
      [] OTHER -> "estimate"

Estimated(target) == 4 * target  \* estimated_filler_chars

\* Python's round() of n / d: a tie goes to the even neighbour.
Round(n, d) ==
    LET q == n \div d
        r == n % d
    IN  IF 2 * r < d \/ (2 * r = d /\ q % 2 = 0) THEN q ELSE q + 1

\* min(max_chars, max(0, chars)).
Within(target, chars) ==
    LET most == Bigger(1000, 40 * target)
    IN  IF chars > most THEN most ELSE Bigger(0, chars)

\* A small step towards the target where scaling would repeat the attempt.
Nudged(p, target, chars) ==
    LET step == Bigger(1, chars \div 100)
    IN  IF Count(p, chars) < target THEN chars + step ELSE chars - step

\* Mutant of Rescaled: the correction is added, not scaled.
Corrected(p, target, chars) == chars + target - Count(p, chars)
Rescaled(p, target, chars)  == Round(chars * target, Count(p, chars))

\* What is tried after an attempt with `chars`.
NextTry(p, target, chars) ==
    IF Sized(p, target, chars) \/ Count(p, chars) = 0 THEN Stop
    ELSE LET scaled == Within(target, Rescaled(p, target, chars))
             nudged == Within(target, Nudged(p, target, chars))
         IN  CASE scaled # chars                   -> scaled
               [] scaled = chars /\ nudged # chars -> nudged
               [] OTHER                            -> Stop

\* The characters of the attempt after one with `before`; Stop once one is not made.
After(p, target, before) == IF before = Stop THEN Stop ELSE NextTry(p, target, before)

\* Mutant of Better: the last attempt is kept.
Latest(p, target, kept, new) == IF new # Stop THEN new ELSE kept

\* The closest attempt, the first of those equally close.
Better(p, target, kept, new) ==
    IF new # Stop /\ Error(p, target, new) < Error(p, target, kept) THEN new ELSE kept

Unsized(target) == [method |-> "estimate", chars |-> Estimated(target), converged |-> FALSE]
=============================================================================
