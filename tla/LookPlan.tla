------------------------------ MODULE LookPlan ------------------------------
(***************************************************************************)
(* The plan of a confirmation candidate (plan_looks): the sample sizes at  *)
(* which a verdict may be declared, fixed before any confirmation data     *)
(* exists.  The statistics are abstracted to what the plan and the verdicts*)
(* read of them: how many requests b bad events need before the exact      *)
(* upper bound clears the limit, and how many bad events among n requests  *)
(* put the exact lower bound beyond it.                                    *)
(***************************************************************************)
EXTENDS Integers, FiniteSetsExt

CONSTANTS
    Classes,   \* the request classes judged; one class when the subject is isolated
    MaxLooks,  \* confirmation.max_looks
    Clears,    \* Clears[c][b]: the least n at which b bad events of class c PASS
    Breaks,    \* Breaks[c][n]: the least number of bad events of c that FAIL n requests
    Spread     \* Spread[c]: 1 / the class's share of the mix

ASSUME PlanAssumption ==
    /\ Classes # {} /\ IsFiniteSet(Classes)
    /\ MaxLooks \in Nat \ {0}
    /\ \A c \in Classes :
          /\ Spread[c] \in Nat \ {0}
          /\ \A b \in 0..MaxLooks : Clears[c][b] \in Nat \ {0}

Larger(a, b) == IF a >= b THEN a ELSE b

\* required_samples: the least n at which b bad events clear the limit.
Required(c, b) == Clears[c][b]

\* rate_upper and rate_lower against the limit, for b bad events in n requests.
Within(c, n, b) == n >= Required(c, b)
Beyond(c, n, b) == b >= Breaks[c][n]

\* What each class must have shown before look j may be taken: enough for j - 1
\* bad events of its own to PASS, and more than the previous look needed.
Need[j \in 1..MaxLooks] ==
    [c \in Classes |->
        IF j = 1 THEN Required(c, 0)
                 ELSE Larger(Required(c, j - 1), Need[j - 1][c] + 1)]

\* The total at which Need is expected to be met: used by caps and estimates.
Schedule[j \in 1..MaxLooks] ==
    LET expected == Max({Need[j][c] * Spread[c] : c \in Classes})
    IN  IF j = 1 THEN expected ELSE Larger(expected, Schedule[j - 1] + 1)

\* evaluate() on n requests of class c of which b were bad.
ClassVerdict(c, n, b) ==
    CASE n = 0                                           -> "FAIL"
      [] n > 0 /\ Beyond(c, n, b)                        -> "FAIL"
      [] n > 0 /\ ~Beyond(c, n, b) /\ Within(c, n, b)    -> "PASS"
      [] OTHER                                           -> "INCONCLUSIVE"

\* _combine: any FAIL fails the point, PASS needs every check to PASS.
Combine(verdicts) == CASE "FAIL" \in verdicts -> "FAIL"
                       [] "FAIL" \notin verdicts /\ "INCONCLUSIVE" \in verdicts -> "INCONCLUSIVE"
                       [] OTHER -> "PASS"
=============================================================================
