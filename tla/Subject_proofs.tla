--------------------------- MODULE Subject_proofs ---------------------------
(***************************************************************************)
(* Theorems about Subject, and the entry that Profile makes of it, for     *)
(* every sweep, ceiling and policy and whatever is measured: types, the    *)
(* order of the tests, the point that is confirmed, the bracket, the end   *)
(* of the sweep, what an invalid subject may still do, and what the entry  *)
(* offers and says.                                                        *)
(***************************************************************************)
EXTENDS Profile, FiniteSetTheorems, TLAPS

\* What the assumption says of the policy a subject runs under.
LEMMA PolicyIsWellFormed ==
    ASSUME policy \in Policies
    PROVE  /\ Top \in Nat /\ Sweep \in Seq(Values)
           /\ Ceiling \in Nat /\ StopFails \in Nat /\ RefineMax \in Nat /\ HowMany \in Nat
BY SubjectAssumption DEF Sweep, Ceiling, Rpm, Tpm, None, StopFails, RefineMax, HowMany

\* No step touches the policy.
LEMMA PolicyIsFixed == [Next]_vars => policy' = policy
BY DEF Next, vars, sweep, Recover, Discover, Overrun, Measure, Accept, RecoverSuspect,
       MeasureAgain, RecoverPulse, Bracket, Refine, Recommend, TestCandidate, SkipCandidate,
       Confirm, Analyze, Done

(***************************************************************************)
(* TypeOK is inductive.  What is not immediate: the midpoint of a bracket  *)
(* is a value, because None is 0 and below every value.                    *)
(***************************************************************************)
\* The midpoint of a bracket that is not located is a value.
LEMMA MidpointIsValue ==
    ASSUME lo \in Values \cup {None}, hi \in Values \cup {None}, ~Located, Top \in Nat
    PROVE  Midpoint \in Values
BY DEF Located, Midpoint, Values, None

\* The subject's state is well formed in every reachable state.
THEOREM TypeCorrect == Spec => []TypeOK
<1>1. Init => TypeOK
  <2> SUFFICES ASSUME Init PROVE TypeOK
    OBVIOUS
  <2>1. 1 \in 1..Len(Sweep) + 1 /\ Top \in Nat
    BY PolicyIsWellFormed DEF Init, None
  <2>2. shown \in [Values -> Verdicts \cup {"none"}]
        /\ tested \in [Values -> Verdicts \cup {"none", "not_tested"}]
    BY DEF Init
  <2>3. stopped \in BOOLEAN /\ status \in Statuses
    BY DEF Init, Statuses
  <2> QED
    BY <2>1, <2>2, <2>3 DEF Init, TypeOK, Pcs
<1>2. TypeOK /\ [Next]_vars => TypeOK'
  <2> SUFFICES ASSUME TypeOK, [Next]_vars PROVE TypeOK'
    OBVIOUS
  <2>0. /\ policy' = policy /\ Sweep' = Sweep /\ policy \in Policies
        /\ Top \in Nat /\ Sweep \in Seq(Values)
    BY PolicyIsFixed, PolicyIsWellFormed DEF TypeOK, Sweep
  <2> USE <2>0 DEF TypeOK, Pcs
  <2>1. CASE Recover
    BY <2>1 DEF Recover, RecoverTo, Statuses, sweep, points, bracket, confirmation, recommendation
  <2>2. CASE Discover
    <3>1. CASE next <= Len(Sweep)
      <4>1. Sweep[next] \in Values
        BY <3>1
      <4> QED
        BY <2>2, <3>1, <4>1 DEF Discover, NextValue, points, bracket, confirmation, recommendation
    <3>2. CASE ~(next <= Len(Sweep))
      BY <2>2, <3>2 DEF Discover, points, bracket, confirmation, recommendation
    <3> QED BY <3>1, <3>2
  <2>3. CASE Overrun
    BY <2>3 DEF Overrun, After, Statuses, sweep, points, bracket, confirmation, recommendation
  <2>4. ASSUME pc \in {"measure", "again"}, NEW o \in Outcomes, Accept(o),
               status' \in Statuses
        PROVE  TypeOK'
    <3>1. o.verdict \in Verdicts
      BY DEF Outcomes
    <3>2. shown' \in [Values -> Verdicts \cup {"none"}] /\ above' \subseteq Values
      BY <2>4, <3>1 DEF Accept
    <3>3. pc' \in {"pulse", "bracket", "discover", "refine"}
      BY <2>4 DEF Accept
    <3>4. fails' \in Nat
      BY <2>4 DEF Accept
    <3>5. {lo', hi'} \subseteq Values \cup {None} /\ refined' \in Nat
      BY <2>4 DEF Accept, bracket
    <3> QED
      BY <2>4, <3>2, <3>3, <3>4, <3>5 DEF Accept, confirmation, recommendation
  <2>5. CASE Measure
    <3> PICK o \in Outcomes :
             IF Control(o)
             THEN /\ pc' = "suspect"
                  /\ UNCHANGED <<sweep, points, bracket, confirmation, recommendation, status>>
             ELSE Accept(o) /\ UNCHANGED status
      BY <2>5 DEF Measure
    <3>1. CASE Control(o)
      BY <2>5, <3>1 DEF Measure, sweep, points, bracket, confirmation, recommendation
    <3>2. CASE ~Control(o)
      BY <2>4, <2>5, <3>2 DEF Measure
    <3> QED BY <3>1, <3>2
  <2>6. CASE RecoverSuspect
    BY <2>6 DEF RecoverSuspect, RecoverTo, After, Statuses, sweep, points, bracket,
                confirmation, recommendation
  <2>7. CASE MeasureAgain
    BY <2>4, <2>7 DEF MeasureAgain, Reproduced, Statuses
  <2>8. CASE RecoverPulse
    BY <2>8 DEF RecoverPulse, RecoverTo, Statuses, sweep, points, bracket, confirmation,
                recommendation
  <2>9. CASE Bracket
    <3>1. {lo', hi'} \subseteq Values \cup {None}
      BY <2>9 DEF Bracket, OrNone, Least, Greatest, Upper, Points
    <3> QED
      BY <2>9, <3>1 DEF Bracket, sweep, points, confirmation, recommendation
  <2>10. CASE Refine
    <3>1. CASE refined = RefineMax \/ Located
      BY <2>10, <3>1 DEF Refine, points, confirmation, recommendation
    <3>2. CASE ~(refined = RefineMax \/ Located)
      <4>1. Midpoint \in Values
        BY <3>2, MidpointIsValue
      <4> QED
        BY <2>10, <3>2, <4>1 DEF Refine, RecoverTo, Statuses, points, confirmation,
                                 recommendation
    <3> QED BY <3>1, <3>2
  <2>11. CASE Recommend
    <3>1. cands' \subseteq Values
      BY <2>11 DEF Recommend, Candidates, Eligible, Highest, Greatest, Least, Leading, Points
    <3>2. confirmed' \subseteq Values
      BY <2>11 DEF Recommend, Greatest, StrictRun, Points
    <3> QED
      BY <2>11, <3>1, <3>2 DEF Recommend, sweep, points, bracket
  <2>12. CASE TestCandidate
    <3>1. PICK v \in Greatest(Untested), t \in Statuses, d \in Verdicts :
              tested' = [tested EXCEPT ![v] = d] /\ status' = t /\ stopped' \in BOOLEAN
      BY <2>12 DEF TestCandidate, NextCandidate, EndsTesting
    <3> QED
      BY <2>12, <3>1 DEF TestCandidate, Greatest, Untested, sweep, points, bracket,
                         recommendation
  <2>13. CASE SkipCandidate
    BY <2>13 DEF SkipCandidate, Greatest, Untested, sweep, points, bracket, recommendation
  <2>14. CASE Confirm
    <3>1. confirmed' \subseteq Values
      BY <2>14 DEF Confirm, Greatest
    <3> QED
      BY <2>14, <3>1 DEF Confirm, sweep, points, bracket, confirmation
  <2>15. CASE Analyze
    BY <2>15 DEF Analyze, NonMonotonic, Statuses, sweep, points, bracket, confirmation,
                 recommendation
  <2>16. CASE UNCHANGED vars
    BY <2>16 DEF vars, sweep, points, bracket, confirmation, recommendation
  <2> QED
    BY <2>1, <2>2, <2>3, <2>5, <2>6, <2>7, <2>8, <2>9, <2>10, <2>11, <2>12, <2>13, <2>14,
       <2>15, <2>16 DEF Next, Done
<1> QED
  BY <1>1, <1>2, PTL DEF Spec

(***************************************************************************)
(* HighestFirst is not inductive: that a candidate is tested only after    *)
(* all higher ones, and that the testing stops with the first PASS or an   *)
(* invalid subject, has to be carried along.                               *)
(***************************************************************************)
Tested(v) == tested[v] # "none"

TestOrder ==
    /\ pc \notin {"confirm", "analyze", "done"} => \A v \in Values : ~Tested(v)
    /\ \A v, w \in cands : Tested(v) /\ v < w => Tested(w)
    /\ \A v \in Values : tested[v] = "PASS" => stopped /\ status # "invalid"
    /\ stopped => status = "invalid" \/ \E w \in cands : tested[w] = "PASS"
    /\ pc = "confirm" /\ status = "invalid" => stopped
    /\ HighestFirst

\* Nothing is tested, and nothing has stopped the testing, at the beginning.
LEMMA TestOrderInit == Init => TestOrder
BY DEF Init, TestOrder, Tested, HighestFirst

\* Testing the highest untested candidate keeps the order.
LEMMA TestKeepsOrder ==
    ASSUME TypeOK, TestOrder, TestCandidate
    PROVE  TestOrder'
<1>1. PICK v \in Greatest(Untested), t \in Statuses, d \in Verdicts, r \in Stops :
          /\ Settles(status, t, d, r)
          /\ tested' = [tested EXCEPT ![v] = d]
          /\ stopped' = (d = "PASS" \/ r = "provider_state_invalid")
          /\ status' = t
  BY DEF TestCandidate, NextCandidate, EndsTesting
<1>2. /\ v \in cands /\ tested[v] = "none" /\ v \in Values
      /\ \A w \in cands : tested[w] = "none" => w <= v
  BY DEF Greatest, Untested, TypeOK
<1>3. /\ tested'[v] = d
      /\ \A w \in Values : w # v => tested'[w] = tested[w]
  BY <1>1, <1>2 DEF TypeOK
<1>4. /\ pc = "confirm" /\ pc' = "confirm" /\ ~stopped /\ cands' = cands
      /\ cands \subseteq Values /\ Values \subseteq Nat
  BY DEF TestCandidate, TypeOK, Values
<1>5. d \in {"PASS", "FAIL", "INCONCLUSIVE"} /\ d # "none" /\ d # "not_tested"
  BY DEF Verdicts
<1>6. \A w \in cands : tested[w] # "PASS" /\ tested[w] # "not_tested"
  BY <1>4 DEF TestOrder, HighestFirst
<1>7. status' = "invalid" <=> r = "provider_state_invalid"
  <2>1. status # "invalid" /\ status \in Statuses
    BY <1>4 DEF TestOrder, TypeOK
  <2>2. Unsteady(status) # "invalid" /\ Reproduced(status) # "invalid"
        /\ Reproduced(Unsteady(status)) # "invalid"
    BY <2>1 DEF Unsteady, Reproduced
  <2> DEFINE seen == IF r = "post_look_violation" THEN Unsteady(status) ELSE status
  <2>3. seen # "invalid" /\ Reproduced(seen) # "invalid"
    BY <2>1, <2>2
  <2>4. \/ r # "provider_state_invalid" /\ t = seen
        \/ r \in Accepted /\ t = Reproduced(seen)
        \/ r = "provider_state_invalid" /\ t = "invalid"
    BY <1>1 DEF Settles
  <2>5. r \in Accepted => r # "provider_state_invalid"
    BY DEF Accepted
  <2> HIDE DEF seen
  <2> QED
    BY <1>1, <2>3, <2>4, <2>5
<1>8. \A u, w \in cands : Tested(u)' /\ u < w => Tested(w)'
  BY <1>2, <1>3, <1>4, <1>5 DEF TestOrder, Tested
<1>9. \A u \in cands : tested'[u] = "PASS" => u = v /\ d = "PASS"
  BY <1>3, <1>4, <1>6
<1>10. HighestFirst'
  <2>1. \A u, w \in cands : tested'[u] = "PASS" /\ u < w => tested'[w] \in {"FAIL", "INCONCLUSIVE"}
    <3> SUFFICES ASSUME NEW u \in cands, NEW w \in cands, tested'[u] = "PASS", u < w
                 PROVE  tested'[w] \in {"FAIL", "INCONCLUSIVE"}
      OBVIOUS
    <3>1. u = v /\ w # v /\ tested'[w] = tested[w] /\ tested[w] # "none"
      BY <1>2, <1>3, <1>4, <1>9
    <3>2. tested[w] \in {"PASS", "FAIL", "INCONCLUSIVE", "none", "not_tested"}
      BY <1>4 DEF TypeOK, Verdicts
    <3> QED BY <3>1, <3>2, <1>6
  <2>2. \A u, w \in cands : tested'[u] = "PASS" /\ w < u => tested'[w] \in {"none", "not_tested"}
    <3> SUFFICES ASSUME NEW u \in cands, NEW w \in cands, tested'[u] = "PASS", w < u
                 PROVE  tested'[w] = "none"
      OBVIOUS
    <3>1. u = v /\ w # v /\ tested'[w] = tested[w]
      BY <1>3, <1>4, <1>9
    <3> QED BY <3>1, <1>2 DEF TestOrder, Tested
  <2>3. \A u \in cands : tested'[u] # "not_tested"
    BY <1>3, <1>4, <1>5, <1>6
  <2> QED BY <1>4, <2>1, <2>2, <2>3 DEF HighestFirst
<1>11. \A u \in Values : tested'[u] = "PASS" => stopped' /\ d = "PASS"
  BY <1>1, <1>3, <1>4 DEF TestOrder
<1>12. stopped' => status' = "invalid" \/ \E w \in cands : tested'[w] = "PASS"
  BY <1>1, <1>2, <1>3, <1>7
<1>13. status' = "invalid" => stopped' /\ d # "PASS"
  BY <1>1, <1>7 DEF Settles
<1> QED
  BY <1>4, <1>8, <1>10, <1>11, <1>12, <1>13 DEF TestOrder

\* Once the testing has stopped the remaining candidates are only marked.
LEMMA SkipKeepsOrder ==
    ASSUME TypeOK, TestOrder, SkipCandidate
    PROVE  TestOrder'
<1>1. PICK v \in Greatest(Untested) : tested' = [tested EXCEPT ![v] = "not_tested"]
  BY DEF SkipCandidate, NextCandidate
<1>2. /\ v \in cands /\ tested[v] = "none" /\ v \in Values
      /\ \A w \in cands : tested[w] = "none" => w <= v
  BY DEF Greatest, Untested, TypeOK
<1>3. /\ tested'[v] = "not_tested"
      /\ \A w \in Values : w # v => tested'[w] = tested[w]
  BY <1>1, <1>2 DEF TypeOK
<1>4. /\ pc = "confirm" /\ pc' = "confirm" /\ stopped /\ stopped' = stopped
      /\ cands' = cands /\ status' = status
      /\ cands \subseteq Values /\ Values \subseteq Nat
  BY DEF SkipCandidate, TypeOK, Values
<1>5. \A u \in Values : tested'[u] = "PASS" <=> tested[u] = "PASS"
  BY <1>2, <1>3, <1>4
<1>6. \A u, w \in cands : Tested(u)' /\ u < w => Tested(w)'
  BY <1>2, <1>3, <1>4 DEF TestOrder, Tested
<1>7. HighestFirst'
  <2>1. \A u, w \in cands : tested'[u] = "PASS" /\ u < w => tested'[w] \in {"FAIL", "INCONCLUSIVE"}
    BY <1>2, <1>3, <1>4, <1>5 DEF TestOrder, HighestFirst
  <2>2. \A u, w \in cands : tested'[u] = "PASS" /\ w < u => tested'[w] \in {"none", "not_tested"}
    BY <1>2, <1>3, <1>4, <1>5 DEF TestOrder, HighestFirst
  <2>3. status = "invalid" \/ \E w \in cands : v < w /\ tested[w] = "PASS"
    <3> SUFFICES ASSUME NEW w \in cands, tested[w] = "PASS" PROVE v < w
      BY <1>4 DEF TestOrder
    <3>1. ~(w < v)
      BY <1>2 DEF TestOrder, Tested
    <3>2. w # v
      BY <1>2
    <3> QED BY <3>1, <3>2, <1>2, <1>4
  <2>4. \A u \in cands : tested'[u] = "not_tested" =>
            status = "invalid" \/ \E w \in cands : u < w /\ tested'[w] = "PASS"
    BY <1>3, <1>4, <1>5, <2>3 DEF TestOrder, HighestFirst
  <2> QED BY <1>4, <2>1, <2>2, <2>4 DEF HighestFirst
<1>8. (\A u \in Values : tested'[u] = "PASS" => stopped /\ status # "invalid")
      /\ (stopped => status = "invalid" \/ \E w \in cands : tested'[w] = "PASS")
  BY <1>4, <1>5 DEF TestOrder
<1> QED
  BY <1>4, <1>6, <1>7, <1>8 DEF TestOrder

\* No other step touches the candidates, and the subject becomes invalid only
\* before the confirmation or in a test.
LEMMA TestOrderAlways == Spec => []TestOrder
<1>1. TypeOK /\ TestOrder /\ [Next]_vars => TestOrder'
  <2> SUFFICES ASSUME TypeOK, TestOrder, [Next]_vars PROVE TestOrder'
    OBVIOUS
  <2>1. CASE \/ Recover \/ Discover \/ Overrun \/ Measure \/ RecoverSuspect \/ MeasureAgain
             \/ RecoverPulse \/ Bracket \/ Refine
    <3>1. UNCHANGED confirmation /\ pc \notin {"confirm", "analyze", "done"}
      BY <2>1 DEF Recover, Discover, Overrun, Measure, RecoverSuspect, MeasureAgain,
                  RecoverPulse, Bracket, Refine, Accept
    <3>2. pc' \notin {"confirm", "analyze", "done"}
      BY <2>1 DEF Recover, Discover, Overrun, Measure, RecoverSuspect, MeasureAgain,
                  RecoverPulse, Bracket, Refine, Accept, RecoverTo, After
    <3>3. \A v \in Values : tested'[v] = "none"
      BY <3>1 DEF confirmation, TestOrder, Tested
    <3>4. stopped' => status' = "invalid" \/ \E w \in cands' : tested'[w] = "PASS"
      <4>1. ~stopped \/ status = "invalid"
        BY <3>1 DEF TestOrder, Tested, TypeOK
      <4>2. status = "invalid" => status' = "invalid"
        BY <2>1 DEF Recover, Discover, Overrun, Measure, RecoverSuspect, MeasureAgain,
                    RecoverPulse, Bracket, Refine, Accept, RecoverTo, Reproduced
      <4> QED BY <3>1, <4>1, <4>2 DEF confirmation
    <3>5. cands' \subseteq Values
      BY <3>1 DEF confirmation, TypeOK
    <3> QED
      BY <3>2, <3>3, <3>4, <3>5 DEF TestOrder, Tested, HighestFirst
  <2>2. CASE Recommend
    <3>1. tested' = tested /\ stopped' = stopped /\ status' = status /\ cands' \subseteq Values
      BY <2>2 DEF Recommend, TypeOK, Candidates, Eligible, Highest, Greatest, Least, Leading, Points
    <3>2. \A v \in Values : tested[v] = "none"
      BY <2>2 DEF Recommend, TestOrder, Tested
    <3>3. ~stopped \/ status = "invalid"
      BY <3>2 DEF TestOrder, TypeOK
    <3>4. pc' \in {"confirm", "analyze"} /\ (pc' = "confirm" => status # "invalid")
      BY <2>2 DEF Recommend
    <3> QED
      BY <3>1, <3>2, <3>3, <3>4 DEF TestOrder, Tested, HighestFirst
  <2>3. CASE TestCandidate
    BY <2>3, TestKeepsOrder
  <2>4. CASE SkipCandidate
    BY <2>4, SkipKeepsOrder
  <2>5. CASE Confirm
    BY <2>5 DEF Confirm, confirmation, TestOrder, Tested, HighestFirst
  <2>6. CASE Analyze
    <3>1. status' = "invalid" <=> status = "invalid"
      BY <2>6 DEF Analyze, NonMonotonic
    <3> QED
      BY <2>6, <3>1 DEF Analyze, confirmation, TestOrder, Tested, HighestFirst
  <2>7. CASE UNCHANGED vars
    BY <2>7 DEF vars, confirmation, TestOrder, Tested, HighestFirst
  <2> QED
    BY <2>1, <2>2, <2>3, <2>4, <2>5, <2>6, <2>7 DEF Next, Done
<1> QED
  BY TypeCorrect, TestOrderInit, <1>1, PTL DEF Spec

\* Candidates are tested highest first, up to the first PASS or the first test
\* after which the subject is invalid, for any number of candidates.
THEOREM TestsHighestFirst == Spec => []HighestFirst
<1>1. TestOrder => HighestFirst
  BY DEF TestOrder
<1> QED
  BY TestOrderAlways, <1>1, PTL

(***************************************************************************)
(* ConfirmedStands: the points do not change once candidates are chosen    *)
(* from them, and every candidate is a leading point within the quota.     *)
(***************************************************************************)
Deciding == pc \in {"confirm", "analyze", "done"}

ChosenFromPoints ==
    /\ ~Deciding => confirmed = {} /\ cands = {}
    /\ \A v \in cands : v \in Leading /\ WithinQuota(v)
    /\ pc = "confirm" => source # "confirmation"
    /\ ConfirmedStands

\* The greatest member of a set of values is one value.
LEMMA GreatestIsOne ==
    ASSUME NEW S, S \subseteq Values, NEW v \in Greatest(S)
    PROVE  Greatest(S) = {v}
<1>1. S \subseteq Int
  BY SubjectAssumption DEF Values
<1>2. ASSUME NEW w \in Greatest(S) PROVE w = v
  <2>1. w \in S /\ v \in S /\ w <= v /\ v <= w
    BY <1>2 DEF Greatest
  <2> QED
    BY <1>1, <2>1
<1> QED
  BY <1>2

\* Whatever is offered as a candidate is a leading point within the quota.
LEMMA CandidatesLead ==
    ASSUME NEW v \in Candidates
    PROVE  v \in Leading /\ WithinQuota(v)
BY DEF Candidates, Eligible, Highest, Least, Greatest

\* A leading point was measured, and nothing at or below it failed.
LEMMA LeadingStands ==
    ASSUME TypeOK, NEW v \in Leading
    PROVE  shown[v] # "none" /\ \A w \in Values : w <= v => shown[w] # "FAIL"
BY DEF TypeOK, Leading, Points, Failed, Values

\* Choosing from the points is kept by every step.
LEMMA ChosenAlways == Spec => []ChosenFromPoints
<1>1. Init => ChosenFromPoints
  BY DEF Init, ChosenFromPoints, Deciding, ConfirmedStands
<1>2. TypeOK /\ ChosenFromPoints /\ [Next]_vars => ChosenFromPoints'
  <2> SUFFICES ASSUME TypeOK, ChosenFromPoints, [Next]_vars PROVE ChosenFromPoints'
    OBVIOUS
  <2>0. ASSUME NEW v PROVE WithinQuota(v)' <=> WithinQuota(v)
    BY PolicyIsFixed DEF WithinQuota, Closed, Ceiling, Rpm, Tpm
  <2> USE <2>0
  <2>1. CASE \/ Recover \/ Discover \/ Overrun \/ Measure \/ RecoverSuspect \/ MeasureAgain
             \/ RecoverPulse \/ Bracket \/ Refine
    <3>1. /\ UNCHANGED <<confirmation, recommendation>>
          /\ ~Deciding
          /\ ~Deciding'
      BY <2>1 DEF Recover, Discover, Overrun, Measure, RecoverSuspect, MeasureAgain,
                  RecoverPulse, Bracket, Refine, Accept, RecoverTo, After, Deciding
    <3> QED
      BY <3>1 DEF confirmation, recommendation, ChosenFromPoints, ConfirmedStands, Deciding
  <2>2. CASE Recommend
    <3>1. shown' = shown /\ cands = {} /\ UNCHANGED tested /\ Deciding'
      BY <2>2 DEF Recommend, points, ChosenFromPoints, Deciding
    <3>2. confirmed' = Greatest(StrictRun) /\ source' # "confirmation"
      BY <2>2 DEF Recommend
    <3>3. \A v \in cands' : v \in Leading /\ WithinQuota(v)
      BY <2>2, <3>1, CandidatesLead DEF Recommend
    <3>4. Leading' = Leading
      BY <3>1 DEF Leading, Points, Failed
    <3>5. ASSUME NEW v \in confirmed'
          PROVE  /\ confirmed' = {v} /\ shown[v] # "none"
                 /\ \A w \in Values : w <= v => shown[w] \in {"none", "PASS"}
      <4>1. StrictRun \subseteq Values /\ v \in StrictRun
        BY <3>2 DEF StrictRun, Points, Greatest
      <4>2. confirmed' = {v}
        BY <3>2, <4>1, GreatestIsOne
      <4> QED
        BY <4>1, <4>2 DEF StrictRun, Points
    <3>6. ConfirmedStands'
      BY <3>1, <3>2, <3>5 DEF ConfirmedStands
    <3> QED
      BY <3>1, <3>2, <3>3, <3>4, <3>6 DEF ChosenFromPoints, Deciding
  <2>3. CASE TestCandidate \/ SkipCandidate
    <3>1. /\ UNCHANGED <<pc, shown, cands, confirmed, source>> /\ pc = "confirm"
      BY <2>3 DEF TestCandidate, SkipCandidate, points, recommendation
    <3>2. Leading' = Leading
      BY <3>1 DEF Leading, Points, Failed
    <3> QED
      BY <3>1, <3>2 DEF ChosenFromPoints, ConfirmedStands, Deciding
  <2>4. CASE Confirm
    <3>1. /\ UNCHANGED <<shown, cands, tested>> /\ Deciding' /\ pc' # "confirm"
          /\ confirmed' = Greatest({v \in cands : tested[v] = "PASS"})
          /\ source' = "confirmation"
      BY <2>4 DEF Confirm, points, confirmation, Deciding
    <3>2. Leading' = Leading
      BY <3>1 DEF Leading, Points, Failed
    <3>3. ASSUME NEW v \in confirmed'
          PROVE  /\ confirmed' = {v} /\ tested[v] = "PASS"
                 /\ v \in Leading /\ WithinQuota(v)
      <4>1. v \in cands /\ tested[v] = "PASS"
        BY <3>1 DEF Greatest
      <4>2. confirmed' = {v}
        BY <3>1, GreatestIsOne DEF TypeOK
      <4> QED
        BY <4>1, <4>2 DEF ChosenFromPoints
    <3>4. ConfirmedStands'
      BY <3>1, <3>3, LeadingStands DEF ConfirmedStands
    <3> QED
      BY <3>1, <3>2, <3>4 DEF ChosenFromPoints, Deciding
  <2>5. CASE Analyze \/ UNCHANGED vars
    <3>1. /\ UNCHANGED <<shown, cands, tested, confirmed, source>>
          /\ Deciding' <=> Deciding
          /\ pc' = "confirm" => pc = "confirm"
      BY <2>5 DEF Analyze, vars, points, confirmation, recommendation, Deciding
    <3>2. Leading' = Leading
      BY <3>1 DEF Leading, Points, Failed
    <3> QED
      BY <3>1, <3>2 DEF ChosenFromPoints, ConfirmedStands
  <2> QED
    BY <2>1, <2>2, <2>3, <2>4, <2>5 DEF Next, Done
<1> QED
  BY TypeCorrect, <1>1, <1>2, PTL DEF Spec

\* Whatever the sweep, its outcomes and the policy, a confirmed point is one
\* measured point with no failure at or below it, never a rate above the quota.
THEOREM ConfirmedPointStands == Spec => []ConfirmedStands
<1>1. ChosenFromPoints => ConfirmedStands
  BY DEF ChosenFromPoints
<1> QED
  BY ChosenAlways, <1>1, PTL

\* What remains of docs/slo-statistics.md's promise about invalid subjects: a
\* confirmation draws no conclusion, and only discovery's point can be left.
InvalidConfirmsNothing == status = "invalid" /\ source = "confirmation" => confirmed = {}

\* Candidates stop being tested when a subject becomes invalid, and a subject that
\* confirmed a point does not become invalid any more.
THEOREM InvalidIsNeverConfirmed == Spec => []InvalidConfirmsNothing
<1>1. TypeOK /\ TestOrder /\ ConfirmedStands => InvalidConfirmsNothing
  BY DEF TypeOK, TestOrder, ConfirmedStands, InvalidConfirmsNothing
<1> QED
  BY TypeCorrect, TestOrderAlways, ConfirmedPointStands, <1>1, PTL

(***************************************************************************)
(* What a measured point adds: an invalid subject is past every phase that *)
(* measures, discovery follows the sweep, and the values that refinement   *)
(* visits are new.  Swept counts the values of the sweep with a point.     *)
(***************************************************************************)
Measuring == pc \in {"measure", "suspect", "again"}
Sweeping  == phase = "discovery" /\ pc \in {"recover", "discover", "measure", "suspect",
                                            "again", "pulse"}
Swept     == IF phase = "discovery" /\ Measuring THEN next - 2 ELSE next - 1

Orderly ==
    /\ status = "invalid" => pc \in {"bracket", "recommend", "confirm", "analyze", "done"}
    /\ pc \in {"recover", "discover", "pulse", "bracket"} => phase = "discovery"
    /\ above \subseteq Points
    /\ phase = "discovery" /\ Measuring => next > 1 /\ at = Sweep[next - 1]
    /\ status # "invalid" => \A i \in 1..Swept : Sweep[i] \in Points
    /\ Sweeping => \A v \in Points : \E i \in 1..Swept : Sweep[i] = v

Bracketing ==
    /\ phase = "refinement" /\ Measuring => lo # None /\ hi # None
    /\ Sweeping => lo = None /\ hi = None
    /\ Bracketed

\* The value being measured has no point yet.
LEMMA NewPoint ==
    ASSUME TypeOK, Orderly, Bracketing, Measuring
    PROVE  at \in Values /\ at \notin Points
<1>1. at \in Values
  BY DEF TypeOK, Measuring
<1>2. CASE phase = "discovery"
  <2>1. next > 1 /\ at = Sweep[next - 1] /\ next \in 1..Len(Sweep) + 1 /\ Len(Sweep) \in Nat
    BY <1>2, PolicyIsWellFormed DEF Orderly, TypeOK
  <2>2. \A i \in 1..next - 2 : Sweep[i] # at
    BY <2>1, SubjectAssumption DEF Distinct, Sweep, TypeOK
  <2>3. \A v \in Points : \E i \in 1..next - 2 : Sweep[i] = v
    BY <1>2 DEF Orderly, Sweeping, Measuring, Swept
  <2> QED
    BY <1>1, <2>2, <2>3
<1>3. CASE phase = "refinement"
  BY <1>1, <1>3 DEF Bracketing, Bracketed, Measuring
<1> QED
  BY <1>1, <1>2, <1>3 DEF TypeOK

\* An accepted outcome adds its point and changes no other.
LEMMA AcceptAddsPoint ==
    ASSUME TypeOK, Orderly, Bracketing, Measuring, NEW o \in Outcomes, Accept(o)
    PROVE  /\ Points' = Points \cup {at}
           /\ \A v \in Points : shown'[v] = shown[v]
           /\ shown'[at] = o.verdict
           /\ Upper' = IF o.verdict = "FAIL" \/ o.above THEN Upper \cup {at} ELSE Upper
           /\ above' \subseteq Points'
<1>1. at \in Values /\ at \notin Points /\ above \subseteq Points
  BY NewPoint DEF Orderly
<1>2. o.verdict \in Verdicts /\ o.verdict # "none"
  BY DEF Outcomes, Verdicts
<1>3. /\ shown' = [shown EXCEPT ![at] = o.verdict]
      /\ above' = IF o.above THEN above \cup {at} ELSE above
  BY DEF Accept
<1>4. shown'[at] = o.verdict /\ \A v \in Values : v # at => shown'[v] = shown[v]
  BY <1>1, <1>3 DEF TypeOK
<1>5. Points' = Points \cup {at} /\ \A v \in Points : shown'[v] = shown[v]
  BY <1>1, <1>2, <1>4 DEF Points
<1>6. Failed' = IF o.verdict = "FAIL" THEN Failed \cup {at} ELSE Failed
  BY <1>1, <1>4, <1>5 DEF Failed
<1>7. Upper' = IF o.verdict = "FAIL" \/ o.above THEN Upper \cup {at} ELSE Upper
  <2>1. Upper = Failed \cup above
    BY <1>1 DEF Upper, Failed
  <2>2. above' \subseteq Points'
    BY <1>1, <1>3, <1>5
  <2>3. Upper' = Failed' \cup above'
    BY <2>2 DEF Upper, Failed
  <2> QED
    BY <1>3, <1>6, <2>1, <2>3
<1> QED
  BY <1>1, <1>3, <1>4, <1>5, <1>7

\* Where an accepted point leads, and what it leaves.
LEMMA AcceptGoesOn ==
    ASSUME TypeOK, Orderly, Bracketing, Measuring, NEW o \in Outcomes, Accept(o),
           status' # "invalid"
    PROVE  Orderly' /\ Bracketing'
<1>0. /\ policy' = policy /\ Sweep' = Sweep /\ phase' = phase /\ next' = next /\ at' = at
      /\ Sweep \in Seq(Values) /\ next \in 1..Len(Sweep) + 1
  BY PolicyIsWellFormed DEF Accept, Sweep, TypeOK
<1>1. /\ Points' = Points \cup {at} /\ above' \subseteq Points' /\ at \notin Points
      /\ Upper' = (IF o.verdict = "FAIL" \/ o.above THEN Upper \cup {at} ELSE Upper)
  BY AcceptAddsPoint, NewPoint
<1>2. CASE phase = "discovery"
  <2>1. pc' \in {"pulse", "bracket", "discover"} /\ lo' = lo /\ hi' = hi
        /\ lo = None /\ hi = None
    BY <1>2 DEF Accept, bracket, Bracketing, Sweeping, Measuring
  <2>2. next > 1 /\ at = Sweep[next - 1] /\ Swept = next - 2 /\ Swept' = next - 1
    BY <1>0, <1>2, <2>1 DEF Orderly, Swept, Measuring
  <2>3. \A i \in 1..next - 1 : Sweep[i] \in Points'
    BY <1>0, <1>1, <1>2, <2>2 DEF Orderly, Measuring
  <2>4. \A v \in Points' : \E i \in 1..next - 1 : Sweep[i] = v
    <3>1. \A v \in Points : \E i \in 1..next - 2 : Sweep[i] = v
      BY <1>2, <2>2 DEF Orderly, Sweeping, Measuring
    <3> QED
      BY <1>0, <1>1, <2>2, <3>1
  <2>5. Orderly'
    BY <1>0, <1>1, <1>2, <2>1, <2>2, <2>3, <2>4 DEF Orderly, Measuring
  <2> QED
    BY <1>0, <1>2, <2>1, <2>5 DEF Bracketing, Bracketed, Measuring
<1>3. CASE phase = "refinement"
  <2>1. /\ pc' = "refine" /\ lo # None /\ hi # None /\ Swept' = next - 1 /\ Swept = next - 1
        /\ IF o.verdict = "FAIL" \/ o.above THEN hi' = at /\ lo' = lo ELSE lo' = at /\ hi' = hi
    BY <1>0, <1>3 DEF Accept, Bracketing, Swept, Measuring
  <2>2. /\ lo < at /\ at < hi /\ lo \in Points \ Upper /\ hi \in Upper
        /\ \A v \in Points : ~(lo < v /\ v < hi)
    BY <1>3, <2>1 DEF Bracketing, Bracketed, Measuring
  <2>3. Upper \subseteq Points /\ Points \subseteq Int /\ at \in Int /\ lo \in Int /\ hi \in Int
    BY <2>2, NewPoint, SubjectAssumption DEF Upper, Points, Values
  <2>4. Bracketed'
    BY <1>0, <1>1, <2>1, <2>2, <2>3 DEF Bracketed
  <2>5. Orderly'
    BY <1>0, <1>1, <1>3, <2>1 DEF Orderly, Measuring, Sweeping
  <2> QED
    BY <1>0, <1>3, <2>1, <2>4, <2>5 DEF Bracketing, Sweeping, Measuring
<1> QED
  BY <1>2, <1>3 DEF TypeOK

\* The first upper point and the highest point below it are a bracket.
LEMMA EdgeIsBracket ==
    ASSUME TypeOK, NEW h \in Least(Upper),
           NEW l \in Greatest({v \in Points : \A u \in Upper : v < u})
    PROVE  /\ l < h /\ l \in Points \ Upper /\ h \in Upper
           /\ \A v \in Points : ~(l < v /\ v < h)
<1>1. Points \subseteq Int /\ Upper \subseteq Points
  BY SubjectAssumption DEF Points, Upper, Values
<1>2. h \in Upper /\ \A u \in Upper : h <= u
  BY DEF Least
<1>3. /\ l \in Points /\ \A u \in Upper : l < u
      /\ \A v \in Points : (\A u \in Upper : v < u) => v <= l
  BY DEF Greatest
<1>4. ASSUME NEW v \in Points, l < v, v < h PROVE FALSE
  <2>1. \A u \in Upper : v < u
    BY <1>1, <1>2, <1>4
  <2> QED
    BY <1>1, <1>3, <1>4, <2>1
<1> QED
  BY <1>1, <1>2, <1>3, <1>4

\* The middle of a bracket with room in it is inside it.
LEMMA MidpointIsInside ==
    ASSUME TypeOK, ~Located
    PROVE  lo # None /\ hi # None /\ lo < Midpoint /\ Midpoint < hi
BY SubjectAssumption DEF TypeOK, Located, Midpoint, Values, None

\* Every step of the subject keeps the sweep in order and the bracket a bracket.
LEMMA PhasesInOrder == Spec => [](Orderly /\ Bracketing)
<1>1. Init => Orderly /\ Bracketing
  <2> SUFFICES ASSUME Init PROVE Orderly /\ Bracketing
    OBVIOUS
  <2>1. Points = {}
    BY DEF Init, Points
  <2> QED
    BY <2>1 DEF Init, Orderly, Bracketing, Bracketed, Measuring, Sweeping, Swept, None
<1>2. TypeOK /\ TestOrder /\ Orderly /\ Bracketing /\ [Next]_vars => Orderly' /\ Bracketing'
  <2> SUFFICES ASSUME TypeOK, TestOrder, Orderly, Bracketing, [Next]_vars
               PROVE  Orderly' /\ Bracketing'
    OBVIOUS
  <2>0. policy' = policy /\ Sweep' = Sweep /\ Sweep \in Seq(Values)
    BY PolicyIsFixed, PolicyIsWellFormed DEF TypeOK, Sweep
  <2>p. UNCHANGED points => Points' = Points /\ Upper' = Upper
    BY DEF points, Points, Upper, Failed
  <2> USE DEF Measuring, Sweeping, Swept
  <2>1. CASE Recover \/ RecoverSuspect \/ RecoverPulse
    <3>1. /\ UNCHANGED <<phase, at, next, lo, hi, above>>
          /\ Points' = Points /\ Upper' = Upper
      BY <2>1, <2>p DEF Recover, RecoverSuspect, RecoverPulse, sweep, bracket, points
    <3>2. \/ pc = "recover" /\ pc' = "discover" /\ status' = status
          \/ pc = "pulse" /\ pc' = "discover" /\ status' = status
          \/ pc = "suspect" /\ pc' = "again" /\ status' = status
          \/ /\ pc \in {"recover", "pulse", "suspect"}
             /\ status' = "invalid"
             /\ pc' = (IF phase = "discovery" THEN "bracket" ELSE "recommend")
      BY <2>1 DEF Recover, RecoverSuspect, RecoverPulse, RecoverTo, After, Orderly
    <3>3. Orderly'
      BY <2>0, <3>1, <3>2 DEF Orderly, TypeOK
    <3>4. Bracketing'
      BY <3>1, <3>2 DEF Bracketing, Bracketed, Orderly
    <3> QED
      BY <3>3, <3>4
  <2>2. CASE Discover
    <3>1. /\ UNCHANGED <<phase, lo, hi, above, status>> /\ pc = "discover"
          /\ phase = "discovery" /\ Points' = Points /\ Upper' = Upper
      BY <2>2, <2>p DEF Discover, bracket, points, Orderly
    <3>2. \/ next' = next + 1 /\ at' = Sweep[next] /\ pc' = "measure"
          \/ next' = next /\ pc' = "bracket"
      BY <2>2 DEF Discover, NextValue
    <3>3. next \in Nat \ {0} /\ next' - 1 >= next - 1
      BY <2>0, <3>2 DEF TypeOK
    <3>4. Orderly'
      BY <2>0, <3>1, <3>2, <3>3 DEF Orderly
    <3>5. Bracketing'
      BY <3>1, <3>2 DEF Bracketing, Bracketed
    <3> QED
      BY <3>4, <3>5
  <2>3. CASE Overrun
    <3>1. /\ UNCHANGED <<phase, at, next, lo, hi, above>> /\ status' = "invalid"
          /\ pc' = (IF phase = "discovery" THEN "bracket" ELSE "recommend")
          /\ Points' = Points /\ Upper' = Upper
      BY <2>3, <2>p DEF Overrun, After, sweep, bracket, points
    <3>2. Orderly'
      BY <2>0, <3>1 DEF Orderly, TypeOK
    <3>3. Bracketing'
      BY <3>1 DEF Bracketing, Bracketed
    <3> QED
      BY <3>2, <3>3
  <2>4. CASE Measure
    <3>1. PICK o \in Outcomes :
             IF Control(o)
             THEN /\ pc' = "suspect"
                  /\ UNCHANGED <<sweep, points, bracket, confirmation, recommendation, status>>
             ELSE Accept(o) /\ UNCHANGED status
      BY <2>4 DEF Measure
    <3>2. pc = "measure" /\ status # "invalid"
      BY <2>4 DEF Measure, Orderly
    <3>3. CASE ~Control(o)
      BY <3>1, <3>2, <3>3, AcceptGoesOn
    <3>4. CASE Control(o)
      <4>1. /\ UNCHANGED <<phase, at, next, lo, hi, above, status>> /\ pc' = "suspect"
            /\ Points' = Points /\ Upper' = Upper
        BY <2>p, <3>1, <3>4 DEF sweep, bracket, points
      <4> QED
        BY <2>0, <3>2, <4>1 DEF Orderly, Bracketing, Bracketed
    <3> QED
      BY <3>3, <3>4
  <2>5. CASE MeasureAgain
    <3>1. PICK o \in Outcomes :
             Accept(o) /\ status' = IF o.suspect THEN Reproduced(status) ELSE status
      BY <2>5 DEF MeasureAgain
    <3>2. pc = "again" /\ status # "invalid" /\ status' # "invalid"
      BY <2>5, <3>1 DEF MeasureAgain, Orderly, Reproduced
    <3> QED
      BY <3>1, <3>2, AcceptGoesOn
  <2>6. CASE Bracket
    <3>1. /\ UNCHANGED <<phase, at, next, above, status>> /\ pc = "bracket"
          /\ phase = "discovery" /\ pc' \in {"refine", "recommend"}
          /\ Points' = Points /\ Upper' = Upper
          /\ pc' = "refine" => status # "invalid"
      BY <2>6, <2>p DEF Bracket, sweep, points, Orderly
    <3>2. Bracketed'
      <4>1. CASE lo' = lo /\ hi' = hi
        BY <3>1, <4>1 DEF Bracketing, Bracketed
      <4>2. CASE /\ hi' \in OrNone(Least(Upper))
                 /\ lo' \in OrNone(Greatest({v \in Points : \A u \in Upper : v < u}))
        <5>1. hi' # None => hi' \in Least(Upper)
          BY <4>2 DEF OrNone
        <5>2. lo' # None => lo' \in Greatest({v \in Points : \A u \in Upper : v < u})
          BY <4>2 DEF OrNone
        <5> QED
          BY <3>1, <5>1, <5>2, EdgeIsBracket DEF Bracketed
      <4> QED
        BY <2>6, <4>1, <4>2 DEF Bracket
    <3>3. Orderly'
      BY <2>0, <3>1 DEF Orderly
    <3> QED
      BY <3>1, <3>2, <3>3 DEF Bracketing
  <2>7. CASE Refine
    <3>1. /\ UNCHANGED <<next, lo, hi, above>> /\ pc = "refine"
          /\ Points' = Points /\ Upper' = Upper /\ status # "invalid"
      BY <2>7, <2>p DEF Refine, points, Orderly
    <3>2. \/ pc' = "recommend" /\ UNCHANGED <<at, phase, status>>
          \/ /\ ~Located /\ at' = Midpoint /\ phase' = "refinement"
             /\ \/ pc' = "measure" /\ status' = status
                \/ pc' = "recommend" /\ status' = "invalid"
      BY <2>7 DEF Refine, RecoverTo
    <3>3. Orderly'
      BY <2>0, <3>1, <3>2 DEF Orderly
    <3>4. Bracketing'
      BY <3>1, <3>2, MidpointIsInside DEF Bracketing, Bracketed
    <3> QED
      BY <3>3, <3>4
  <2>8. CASE Recommend \/ TestCandidate \/ SkipCandidate \/ Confirm \/ Analyze
    <3>1. /\ UNCHANGED <<phase, at, next, lo, hi, above>>
          /\ Points' = Points /\ Upper' = Upper
          /\ pc \in {"recommend", "confirm", "analyze"}
          /\ pc' \in {"confirm", "analyze", "done"}
      BY <2>8, <2>p DEF Recommend, TestCandidate, SkipCandidate, Confirm, Analyze, sweep,
                        points, bracket
    <3>2. status' # "invalid" => status # "invalid"
      <4>1. CASE TestCandidate
        BY <4>1 DEF TestCandidate, TestOrder
      <4>2. CASE ~TestCandidate
        BY <2>8, <4>2 DEF Recommend, SkipCandidate, Confirm, Analyze, NonMonotonic
      <4> QED
        BY <4>1, <4>2
    <3>3. Orderly'
      BY <2>0, <3>1, <3>2 DEF Orderly
    <3>4. Bracketing'
      BY <3>1 DEF Bracketing, Bracketed
    <3> QED
      BY <3>3, <3>4
  <2>9. CASE UNCHANGED vars
    <3>1. UNCHANGED <<pc, phase, at, next, lo, hi, above, status>> /\ Points' = Points
          /\ Upper' = Upper
      BY <2>9, <2>p DEF vars, sweep, points, bracket
    <3> QED
      BY <2>0, <3>1 DEF Orderly, Bracketing, Bracketed
  <2> QED
    BY <2>1, <2>2, <2>3, <2>4, <2>5, <2>6, <2>7, <2>8, <2>9 DEF Next, Done
<1> QED
  BY TypeCorrect, TestOrderAlways, <1>1, <1>2, PTL DEF Spec

\* Refinement always bisects a bracket: whatever the points of discovery and of
\* the bisections were, the value it measures next is new and inside it.
THEOREM RefinementBisects == Spec => []Bracketed
<1>1. Bracketing => Bracketed
  BY DEF Bracketing
<1> QED
  BY PhasesInOrder, <1>1, PTL

\* An invalid subject puts no more load on the provider, an accepted point is
\* never measured again and a validity is never taken back, in any step of any
\* subject.
THEOREM InvalidStays == Spec => InvalidIsFinal
<1> DEFINE Final ==
      /\ Strength(status') >= Strength(status)
      /\ status = "invalid" => /\ pc' \notin {"measure", "again"} /\ shown' = shown
                               /\ \A v \in Values : tested'[v] \in {tested[v], "not_tested"}
      /\ \A v \in Points : shown'[v] = shown[v]
<1>1. /\ \A s \in Statuses : Strength(s) \in 0..3 /\ (Strength(s) = 3 <=> s = "invalid")
      /\ \A s \in Statuses : Strength(Reproduced(s)) >= Strength(s)
      /\ \A s \in Statuses : Strength(Unsteady(s)) >= Strength(s) /\ Unsteady(s) \in Statuses
      /\ \A s \in Statuses : Strength(NonMonotonic(s)) >= Strength(s)
  BY DEF Statuses, Strength, Reproduced, Unsteady, NonMonotonic
<1>2. /\ TypeOK /\ TestOrder /\ Orderly /\ Bracketing /\ [Next]_vars
      => [Final]_vars
  <2> SUFFICES ASSUME TypeOK, TestOrder, Orderly, Bracketing, Next PROVE Final
    BY DEF vars
  <2>0. status \in Statuses /\ Strength(status) \in 0..3 /\ Strength("invalid") = 3
    BY <1>1 DEF TypeOK, Statuses
  <2>1. CASE Measure \/ MeasureAgain
    <3>1. Measuring /\ status # "invalid"
      BY <2>1 DEF Measure, MeasureAgain, Measuring, Orderly
    <3>2. status' = status \/ status' = Reproduced(status)
      BY <2>1 DEF Measure, MeasureAgain
    <3>3. Strength(status') >= Strength(status)
      BY <1>1, <2>0, <3>2
    <3>4. shown' = shown \/ \E o \in Outcomes : Accept(o)
      BY <2>1 DEF Measure, MeasureAgain, points
    <3>5. \A v \in Points : shown'[v] = shown[v]
      BY <3>1, <3>4, AcceptAddsPoint
    <3> QED
      BY <3>1, <3>3, <3>5
  <2>2. CASE \/ Recover \/ Discover \/ Overrun \/ RecoverSuspect \/ RecoverPulse \/ Bracket
             \/ Refine
    <3>1. shown' = shown /\ tested' = tested
      BY <2>2 DEF Recover, Discover, Overrun, RecoverSuspect, RecoverPulse, Bracket, Refine,
                  points, confirmation
    <3>2. status' = status \/ status' = "invalid"
      BY <2>2 DEF Recover, Discover, Overrun, RecoverSuspect, RecoverPulse, Bracket, Refine,
                  RecoverTo
    <3>3. Strength(status') >= Strength(status)
      BY <2>0, <3>2
    <3>4. status = "invalid" => pc' \notin {"measure", "again"}
      BY <2>2 DEF Recover, Discover, Overrun, RecoverSuspect, RecoverPulse, Bracket, Refine,
                  Orderly
    <3> QED
      BY <3>1, <3>3, <3>4
  <2>3. CASE Recommend \/ Confirm \/ Analyze \/ Done
    <3>1. shown' = shown /\ tested' = tested /\ pc' \in {"confirm", "analyze", "done"}
      BY <2>3 DEF Recommend, Confirm, Analyze, Done, vars, points, confirmation
    <3>2. status' = status \/ status' = NonMonotonic(status)
      BY <2>3 DEF Recommend, Confirm, Analyze, Done, vars
    <3>3. Strength(status') >= Strength(status)
      BY <1>1, <2>0, <3>2
    <3> QED
      BY <3>1, <3>3
  <2>4. CASE TestCandidate
    <3>1. shown' = shown /\ status # "invalid"
      BY <2>4 DEF TestCandidate, TestOrder, points
    <3>2. PICK t \in Statuses, d \in Verdicts, r \in Stops : Settles(status, t, d, r) /\ status' = t
      BY <2>4 DEF TestCandidate
    <3>3. \/ status' = status \/ status' = Unsteady(status) \/ status' = Reproduced(status)
          \/ status' = Reproduced(Unsteady(status)) \/ status' = "invalid"
      BY <3>2 DEF Settles
    <3>4. Strength(status') >= Strength(status)
      <4>1. /\ Unsteady(status) \in Statuses
            /\ Strength(Reproduced(Unsteady(status))) >= Strength(Unsteady(status))
            /\ Strength(Unsteady(status)) >= Strength(status)
            /\ Strength(Reproduced(status)) >= Strength(status)
            /\ Strength(Unsteady(status)) \in 0..3
            /\ Strength(Reproduced(Unsteady(status))) \in Int
        <5>1. Reproduced(Unsteady(status)) \in Statuses
          BY <2>0, <1>1 DEF Reproduced, Statuses
        <5> QED
          BY <1>1, <2>0, <5>1
      <4> QED
        BY <2>0, <3>3, <4>1
    <3> QED
      BY <3>1, <3>4
  <2>5. CASE SkipCandidate
    <3>1. PICK v \in NextCandidate : tested' = [tested EXCEPT ![v] = "not_tested"]
      BY <2>5 DEF SkipCandidate
    <3>2. UNCHANGED <<pc, status, shown>> /\ pc = "confirm"
      BY <2>5 DEF SkipCandidate, points
    <3>3. \A w \in Values : tested'[w] \in {tested[w], "not_tested"}
      BY <3>1 DEF TypeOK
    <3> QED
      BY <2>0, <3>2, <3>3
  <2> QED
    BY <2>1, <2>2, <2>3, <2>4, <2>5 DEF Next
<1> QED
  BY TypeCorrect, TestOrderAlways, PhasesInOrder, <1>2, PTL DEF Spec, InvalidIsFinal

(***************************************************************************)
(* StopsAtSaturation: what `fails` counts is the run of failures at the    *)
(* end of what discovery has measured, and it is below the limit while     *)
(* discovery goes on.                                                      *)
(***************************************************************************)
CountsFails ==
    /\ StopsAtSaturation
    /\ Sweeping /\ ~Burst =>
          /\ StopClear => \A j \in 1..Swept : shown[Sweep[j]] # "FAIL"
          /\ StopFails # None => fails < StopFails
          /\ fails <= Swept /\ (fails < Swept => shown[Sweep[Swept - fails]] # "FAIL")

\* Accepting a point of discovery keeps the count.
LEMMA AcceptCounts ==
    ASSUME TypeOK, Orderly, Bracketing, CountsFails, Measuring, status # "invalid",
           NEW o \in Outcomes, Accept(o)
    PROVE  CountsFails'
<1>0. /\ policy' = policy /\ Sweep' = Sweep /\ phase' = phase /\ next' = next
      /\ (Burst' <=> Burst) /\ (StopClear' <=> StopClear) /\ StopFails' = StopFails
      /\ Sweep \in Seq(Values) /\ next \in 1..Len(Sweep) + 1 /\ StopFails \in Nat
      /\ fails \in Nat /\ None = 0
  BY PolicyIsWellFormed DEF Accept, Sweep, Burst, StopClear, StopFails, TypeOK, None
<1>1. at \notin Points /\ shown'[at] = o.verdict /\ \A v \in Points : shown'[v] = shown[v]
  BY AcceptAddsPoint, NewPoint
<1>2. \A i \in 1..Swept : Sweep[i] \in Points
  BY DEF Orderly
<1>3. \A i \in 1..Swept : shown'[Sweep[i]] = shown[Sweep[i]]
  BY <1>1, <1>2
<1>4. CASE phase = "refinement"
  <2>1. Swept = next - 1 /\ ~Sweeping'
    BY <1>0, <1>4 DEF Swept, Sweeping
  <2>2. ASSUME NEW i \in 1..next - 1, ~Burst, StopFails # None, NEW j \in 1..i - StopFails
        PROVE  \E k \in j..j + StopFails - 1 : shown'[Sweep[k]] # "FAIL"
    <3>1. shown[Sweep[i]] # "none"
      BY <1>2, <2>1 DEF Points
    <3>2. PICK k \in j..j + StopFails - 1 : shown[Sweep[k]] # "FAIL"
      BY <2>2, <3>1 DEF CountsFails, StopsAtSaturation
    <3>3. k \in 1..next - 1
      BY <1>0
    <3> QED
      BY <1>3, <2>1, <3>2, <3>3
  <2>3. ASSUME NEW i \in 1..next - 1, ~Burst, StopClear, NEW j \in 1..i - 1
        PROVE  shown'[Sweep[j]] # "FAIL"
    <3>1. shown[Sweep[i]] # "none" /\ j \in 1..next - 1
      BY <1>0, <1>2, <2>1 DEF Points
    <3>2. shown[Sweep[j]] # "FAIL"
      BY <2>3, <3>1 DEF CountsFails, StopsAtSaturation
    <3> QED
      BY <1>3, <2>1, <3>1, <3>2
  <2> QED
    BY <1>0, <2>1, <2>2, <2>3 DEF CountsFails, StopsAtSaturation
<1>5. CASE phase = "discovery" /\ Burst
  BY <1>0, <1>5 DEF CountsFails, StopsAtSaturation
<1>6. CASE phase = "discovery" /\ ~Burst
  <2>1. /\ Sweeping /\ next > 1 /\ at = Sweep[next - 1] /\ Swept = next - 2
        /\ pc' \in {"bracket", "discover"}
        /\ pc' = "discover" => ~Saturated(o, fails') /\ Swept' = next - 1
        /\ fails' = (IF o.verdict # "FAIL" THEN 0 ELSE fails + 1)
    BY <1>0, <1>6 DEF Orderly, Swept, Sweeping, Measuring, Accept
  <2>2. /\ StopClear => \A j \in 1..next - 2 : shown[Sweep[j]] # "FAIL"
        /\ StopFails # None => fails < StopFails
        /\ fails <= next - 2
        /\ fails < next - 2 => shown[Sweep[next - 2 - fails]] # "FAIL"
    BY <1>6, <2>1 DEF CountsFails
  <2>3. \A j \in 1..next - 2 : shown'[Sweep[j]] = shown[Sweep[j]]
    BY <1>3, <2>1
  <2>4. shown'[Sweep[next - 1]] = o.verdict
    BY <1>1, <2>1
  <2>5. ASSUME NEW i \in 1..next - 1, StopClear
        PROVE  \A j \in 1..i - 1 : shown'[Sweep[j]] # "FAIL"
    BY <1>0, <2>2, <2>3, <2>5
  <2>6. ASSUME NEW i \in 1..next - 1, StopFails # None, NEW j \in 1..i - StopFails
        PROVE  \E k \in j..j + StopFails - 1 : shown'[Sweep[k]] # "FAIL"
    <3>1. CASE i < next - 1
      <4>1. i \in 1..next - 2 /\ shown[Sweep[i]] # "none"
        BY <1>0, <1>2, <2>1, <3>1 DEF Points
      <4>2. PICK k \in j..j + StopFails - 1 : shown[Sweep[k]] # "FAIL"
        BY <1>6, <2>6, <4>1 DEF CountsFails, StopsAtSaturation
      <4>3. k \in 1..next - 2
        BY <1>0, <3>1
      <4> QED
        BY <2>3, <4>2, <4>3
    <3>2. CASE i = next - 1 /\ j < i - StopFails
      <4>1. \A m \in 1..next - 1 : shown[Sweep[m]] # "none" =>
               \A l \in 1..m - StopFails : \E k \in l..l + StopFails - 1 : shown[Sweep[k]] # "FAIL"
        BY <1>6, <2>6 DEF CountsFails, StopsAtSaturation
      <4>2. PICK k \in j..j + StopFails - 1 : shown[Sweep[k]] # "FAIL"
        <5>1. i - 1 \in 1..next - 2 /\ i - 1 \in 1..next - 1 /\ j \in 1..(i - 1) - StopFails
          BY <1>0, <3>2
        <5>2. shown[Sweep[i - 1]] # "none"
          BY <1>2, <2>1, <5>1 DEF Points
        <5> QED
          BY <4>1, <5>1, <5>2
      <4>3. k \in 1..next - 2
        BY <1>0, <3>2
      <4> QED
        BY <2>3, <4>2, <4>3
    <3>3. CASE i = next - 1 /\ j = i - StopFails
      <4>1. fails < StopFails /\ StopFails <= next - 2
        BY <1>0, <2>2, <2>6, <3>3
      <4>2. /\ next - 2 - fails \in 1..next - 2
            /\ next - 2 - fails \in j..j + StopFails - 1
            /\ shown[Sweep[next - 2 - fails]] # "FAIL"
        BY <1>0, <2>2, <3>3, <4>1
      <4> QED
        BY <2>3, <4>2
    <3> QED
      BY <1>0, <3>1, <3>2, <3>3
  <2>7. StopsAtSaturation'
    BY <1>0, <2>5, <2>6 DEF StopsAtSaturation
  <2>8. ASSUME pc' = "discover"
        PROVE  /\ StopClear => \A j \in 1..next - 1 : shown'[Sweep[j]] # "FAIL"
               /\ StopFails # None => fails' < StopFails
               /\ fails' <= next - 1
               /\ fails' < next - 1 => shown'[Sweep[next - 1 - fails']] # "FAIL"
    <3>1. StopClear => o.verdict # "FAIL"
      BY <2>1, <2>8 DEF Saturated, ClearFail
    <3>2. StopFails # None => fails' < StopFails
      BY <1>0, <2>1, <2>8 DEF Saturated
    <3>3. StopClear => \A j \in 1..next - 1 : shown'[Sweep[j]] # "FAIL"
      BY <1>0, <2>2, <2>3, <2>4, <3>1
    <3>4. CASE o.verdict # "FAIL"
      <4>1. fails' = 0 /\ next - 1 - fails' = next - 1
        BY <1>0, <2>1, <3>4
      <4> QED
        BY <1>0, <2>1, <2>4, <3>2, <3>3, <3>4, <4>1
    <3>5. CASE o.verdict = "FAIL"
      <4>1. fails' = fails + 1 /\ next - 1 - fails' = next - 2 - fails
        BY <1>0, <2>1, <3>5
      <4>2. fails' <= next - 1
        BY <1>0, <2>1, <2>2, <4>1
      <4>3. fails' < next - 1 => shown'[Sweep[next - 2 - fails]] # "FAIL"
        BY <1>0, <2>1, <2>2, <2>3, <4>1
      <4> QED
        BY <3>2, <3>3, <4>1, <4>2, <4>3
    <3> QED
      BY <3>4, <3>5
  <2>9. ~Sweeping' \/ pc' = "discover"
    BY <2>1 DEF Sweeping
  <2> QED
    BY <1>0, <2>1, <2>7, <2>8, <2>9 DEF CountsFails
<1> QED
  BY <1>4, <1>5, <1>6 DEF TypeOK

\* However a sweep is ordered and whatever it meets, discovery measures nothing
\* after the failures at which it is to stop.
THEOREM StopsOnceSaturated == Spec => []StopsAtSaturation
<1>1. Init => CountsFails
  BY SubjectAssumption
     DEF Init, CountsFails, StopsAtSaturation, Swept, Measuring, StopFails, None
<1>2. TypeOK /\ TestOrder /\ Orderly /\ Bracketing /\ CountsFails /\ [Next]_vars => CountsFails'
  <2> SUFFICES ASSUME TypeOK, TestOrder, Orderly, Bracketing, CountsFails, [Next]_vars
               PROVE  CountsFails'
    OBVIOUS
  <2>0. /\ policy' = policy /\ Sweep' = Sweep /\ (Burst' <=> Burst) /\ (StopClear' <=> StopClear)
        /\ StopFails' = StopFails /\ Sweep \in Seq(Values) /\ next \in 1..Len(Sweep) + 1
    BY PolicyIsFixed, PolicyIsWellFormed DEF TypeOK, Sweep, Burst, StopClear, StopFails
  <2>1. CASE Measure
    <3>1. pc = "measure" /\ status # "invalid"
      BY <2>1 DEF Measure, Orderly
    <3>2. CASE \E o \in Outcomes : Accept(o)
      BY <3>1, <3>2, AcceptCounts DEF Measuring
    <3>3. CASE pc' = "suspect" /\ UNCHANGED <<sweep, points>>
      BY <2>0, <3>1, <3>3
         DEF sweep, points, CountsFails, StopsAtSaturation, Sweeping, Swept, Measuring
    <3> QED
      BY <2>1, <3>2, <3>3 DEF Measure
  <2>2. CASE MeasureAgain
    <3>1. pc = "again" /\ status # "invalid" /\ \E o \in Outcomes : Accept(o)
      BY <2>2 DEF MeasureAgain, Orderly
    <3> QED
      BY <3>1, AcceptCounts DEF Measuring
  <2>3. CASE Discover
    <3>1. /\ pc = "discover" /\ phase = "discovery" /\ UNCHANGED <<phase, fails, shown>>
          /\ \/ pc' = "measure" /\ next' = next + 1
             \/ pc' = "bracket" /\ next' = next
      BY <2>3 DEF Discover, NextValue, points, Orderly
    <3>2. Swept = next - 1 /\ (pc' = "measure" => Swept' = next - 1)
      BY <2>0, <3>1 DEF Swept, Measuring
    <3>3. CASE pc' = "bracket"
      BY <2>0, <3>1, <3>3 DEF CountsFails, StopsAtSaturation, Sweeping
    <3>4. CASE pc' = "measure"
      <4>1. ~Burst => /\ StopClear => \A j \in 1..next - 1 : shown[Sweep[j]] # "FAIL"
                      /\ StopFails # None => fails < StopFails
                      /\ fails <= next - 1
                      /\ fails < next - 1 => shown[Sweep[next - 1 - fails]] # "FAIL"
        BY <3>1, <3>2 DEF CountsFails, Sweeping
      <4>2. shown[Sweep[next]] = "none"
        <5>1. next \in 1..Len(Sweep) /\ Sweep[next] \in Values
          BY <2>0, <2>3, <3>1, <3>4 DEF Discover
        <5>2. \A i \in 1..next - 1 : Sweep[i] # Sweep[next]
          BY <2>0, <5>1, SubjectAssumption DEF Distinct, Sweep, TypeOK
        <5>3. Sweep[next] \notin Points
          BY <3>1, <3>2, <5>2 DEF Orderly, Sweeping
        <5> QED
          BY <5>1, <5>3 DEF Points
      <4>3. StopsAtSaturation'
        BY <2>0, <3>1, <3>4, <4>2 DEF CountsFails, StopsAtSaturation
      <4>4. Swept' = next - 1 /\ shown' = shown /\ fails' = fails
        BY <3>1, <3>2, <3>4
      <4>5. ~Burst => /\ StopClear => \A j \in 1..Swept' : shown'[Sweep[j]] # "FAIL"
                      /\ StopFails # None => fails' < StopFails
                      /\ fails' <= Swept'
                      /\ fails' < Swept' => shown'[Sweep[Swept' - fails']] # "FAIL"
        BY <4>1, <4>4
      <4> QED
        BY <2>0, <4>3, <4>5 DEF CountsFails
    <3> QED
      BY <3>1, <3>3, <3>4
  <2>4. CASE Recover \/ RecoverSuspect \/ RecoverPulse
    <3>1. /\ UNCHANGED <<phase, next, fails, shown>>
          /\ \/ pc \in {"recover", "pulse"} /\ pc' = "discover"
             \/ pc = "suspect" /\ pc' = "again"
             \/ pc' \in {"bracket", "recommend"}
      BY <2>4 DEF Recover, RecoverSuspect, RecoverPulse, RecoverTo, After, sweep, points
    <3> QED
      BY <2>0, <3>1 DEF CountsFails, StopsAtSaturation, Sweeping, Swept, Measuring
  <2>5. CASE \/ Overrun \/ Bracket \/ Refine \/ Recommend \/ TestCandidate \/ SkipCandidate
             \/ Confirm \/ Analyze
    <3>1. UNCHANGED <<next, fails, shown>>
      BY <2>5 DEF Overrun, Bracket, Refine, Recommend, TestCandidate, SkipCandidate, Confirm,
                  Analyze, sweep, points
    <3>2. ~Sweeping'
      BY <2>5 DEF Overrun, Bracket, Refine, Recommend, TestCandidate, SkipCandidate, Confirm,
                  Analyze, sweep, points, Sweeping, After, RecoverTo
    <3> QED
      BY <2>0, <3>1, <3>2 DEF CountsFails, StopsAtSaturation
  <2>6. CASE UNCHANGED vars
    BY <2>0, <2>6 DEF vars, sweep, points, CountsFails, StopsAtSaturation, Sweeping, Swept,
                      Measuring
  <2> QED
    BY <2>1, <2>2, <2>3, <2>4, <2>5, <2>6 DEF Next, Done
<1>3. CountsFails => StopsAtSaturation
  BY DEF CountsFails
<1> QED
  BY TypeCorrect, TestOrderAlways, PhasesInOrder, <1>1, <1>2, <1>3, PTL DEF Spec

(***************************************************************************)
(* The entry.  What the phases left behind when the subject is done, as    *)
(* Profile reads it: nothing measured any more since the recommendation,   *)
(* so the points still are those it was made from.                         *)
(***************************************************************************)
\* A set of values that is not empty has a least and a greatest member.
LEMMA Extremes ==
    ASSUME NEW S, S \subseteq Values, S # {}
    PROVE  Least(S) # {} /\ Greatest(S) # {}
<1>0. Top \in Nat /\ S \subseteq Nat /\ \A v \in S : v <= Top
  BY SubjectAssumption DEF Values
<1>1. ASSUME NEW T \in SUBSET Nat, T # {} PROVE \E x \in T : \A y \in T : x <= y
  <2>1. PICK x \in T : \A y \in T : ~(<<y, x>> \in OpToRel(<, Nat))
    BY <1>1, NatLessThanWellFounded, WFMin
  <2>2. ASSUME NEW y \in T, y < x PROVE FALSE
    <3>1. <<y, x>> \in OpToRel(<, Nat)
      BY <2>2 DEF OpToRel
    <3> QED
      BY <2>1, <3>1
  <2>3. \A y \in T : x <= y
    BY <2>2
  <2> QED
    BY <2>3
<1>2. Least(S) # {}
  <2>1. PICK x \in S : \A y \in S : x <= y
    BY <1>0, <1>1
  <2> QED
    BY <2>1 DEF Least
<1>3. Greatest(S) # {}
  <2> DEFINE T == {Top - v : v \in S}
  <2>1. T \in SUBSET Nat /\ T # {}
    <3>1. \A v \in S : Top - v \in Nat
      BY <1>0
    <3> QED
      BY <3>1
  <2>2. PICK x \in T : \A y \in T : x <= y
    <3> HIDE DEF T
    <3> QED
      BY <1>1, <2>1
  <2>3. PICK v \in S : x = Top - v
    BY <2>2
  <2>4. \A w \in S : Top - v <= Top - w
    BY <2>2, <2>3
  <2>5. \A w \in S : w <= v
    BY <1>0, <2>4
  <2> QED
    BY <2>3, <2>5 DEF Greatest
<1> QED
  BY <1>2, <1>3

\* Some candidate is chosen unless every leading point is above the quota.
LEMMA SomeCandidate ==
    ASSUME policy \in Policies, HowMany # None, Eligible # {}
    PROVE  Candidates # {}
<1>1. HowMany \in Nat \ {0} /\ Eligible \subseteq Values /\ Values \subseteq Nat
  BY PolicyIsWellFormed, SubjectAssumption DEF None, Eligible, Leading, Points, Values
<1>2. PICK v \in Greatest(Eligible) : TRUE
  BY <1>1, Extremes
<1>3. {w \in Eligible : w > v} = {}
  <2>1. v \in Eligible /\ Eligible \subseteq Nat /\ \A w \in Eligible : w <= v
    BY <1>1, <1>2 DEF Greatest
  <2>2. \A w \in Eligible : ~(w > v)
    BY <2>1
  <2> QED
    BY <2>2
<1>4. v \in Highest(Eligible)
  BY <1>1, <1>2, <1>3, FS_EmptySet DEF Highest, Greatest
<1>5. \A W : W \subseteq Eligible /\ W # {} => Greatest(W) # {}
  BY <1>1, Extremes
<1> QED
  BY <1>4, <1>5 DEF Candidates

\* Discovery recommends leading points only.
LEMMA StrictIsLeading == StrictRun \subseteq Leading
<1>1. Points \subseteq Int
  BY SubjectAssumption DEF Points, Values
<1>2. ASSUME NEW v \in StrictRun, NEW f \in Failed PROVE v < f
  <2>1. v \in Points /\ f \in Points /\ shown[f] = "FAIL" /\ (f <= v => shown[f] = "PASS")
    BY DEF StrictRun, Failed
  <2> QED
    BY <1>1, <2>1
<1> QED
  BY <1>2 DEF StrictRun, Leading

\* It is invalid for a reason, and measured unless it is invalid.
Grounds ==
    /\ status = "invalid" => Probe \/ Closed
    /\ pc \in {"refine", "recommend"} \/ Deciding =>
          status = "invalid" \/ (next > 1 /\ Points # {})
    /\ pc = "bracket" => status = "invalid" \/ next > 1
    /\ phase = "refinement" => next > 1

\* What discovery recommended, and that a confirmation follows where one is asked.
FromDiscovery ==
    /\ Deciding /\ source = "none" => Leading = {} /\ confirmed = {}
    /\ Deciding /\ source = "discovery_fixed_sequence" =>
          /\ Leading # {}
          /\ confirmed = Greatest(StrictRun)
          /\ pc \in {"analyze", "done"} /\ HowMany # None => status = "invalid"

\* What a confirmation tested, and what came of it.
FromConfirmation ==
    /\ pc = "confirm" \/ source = "confirmation" =>
          HowMany # None /\ Leading # {} /\ cands = Candidates
    /\ source = "confirmation" =>
          Deciding /\ Untested = {} /\ confirmed = Greatest({v \in cands : tested[v] = "PASS"})
    /\ pc = "confirm" => source = "discovery_fixed_sequence"

\* A pass above a failure is marked in the end.
Marked == pc = "done" /\ Unresolved => status # "valid"

Recorded == Grounds /\ FromDiscovery /\ FromConfirmation /\ Marked

\* The steps up to the recommendation.
LEMMA RecordedBefore ==
    ASSUME TypeOK, Orderly, ChosenFromPoints, Recorded, ~Deciding, ~Recommend, Next
    PROVE  Recorded'
<1> USE DEF Grounds, FromDiscovery, FromConfirmation, Marked
<1>0. /\ policy' = policy /\ Sweep' = Sweep /\ (Probe' <=> Probe) /\ (Closed' <=> Closed)
      /\ Sweep \in Seq(Values) /\ Sweep # <<>> /\ next \in 1..Len(Sweep) + 1
  BY PolicyIsFixed, PolicyIsWellFormed, SubjectAssumption
     DEF TypeOK, Sweep, Probe, Closed, SweepPolicy
<1>1. /\ pc \notin {"confirm", "analyze", "done"}
      /\ pc' \notin {"confirm", "analyze", "done"} /\ source' = source
  BY DEF Deciding, Next, Recover, Discover, Overrun, Measure, RecoverSuspect, MeasureAgain,
         RecoverPulse, Bracket, Refine, Accept, RecoverTo, After, TestCandidate, SkipCandidate,
         Confirm, Analyze, Done, recommendation
<1>2. status' = "invalid" => Probe \/ Closed
  BY <1>1 DEF Recorded, Deciding, Next, Recover, Discover, Overrun, Measure, RecoverSuspect,
         MeasureAgain, RecoverPulse, Bracket, Refine, Accept, RecoverTo, TestCandidate,
         SkipCandidate, Confirm, Analyze, Done, Reproduced
<1>3. pc' = "bracket" => status' = "invalid" \/ next' > 1
  <2>1. CASE Discover
    BY <1>0, <2>1 DEF Discover, NextValue
  <2>2. CASE Measure \/ MeasureAgain
    BY <1>0, <2>2 DEF Measure, MeasureAgain, Accept, Orderly, Measuring
  <2>3. CASE Recover \/ Overrun \/ RecoverSuspect \/ RecoverPulse \/ Bracket \/ Refine
    BY <2>3 DEF Recover, Overrun, RecoverSuspect, RecoverPulse, Bracket, Refine, RecoverTo,
                After
  <2> QED
    BY <1>1, <2>1, <2>2, <2>3 DEF Next, TestCandidate, SkipCandidate, Confirm, Analyze, Done
<1>4. pc' \in {"refine", "recommend"} => status' = "invalid" \/ (next' > 1 /\ Points' # {})
  <2> SUFFICES ASSUME pc' \in {"refine", "recommend"}, status' # "invalid"
               PROVE  next' > 1 /\ Points' # {}
    OBVIOUS
  <2>1. CASE Measure \/ MeasureAgain
    <3>1. PICK o \in Outcomes : Accept(o)
      BY <2>1 DEF Measure, MeasureAgain
    <3>2. phase = "refinement" /\ next' = next /\ at \in Values
      BY <2>1, <3>1 DEF Accept, Measure, MeasureAgain, TypeOK
    <3>3. shown'[at] = o.verdict /\ o.verdict # "none"
      BY <3>1, <3>2 DEF Accept, TypeOK, Outcomes, Verdicts
    <3>4. at \in Points'
      BY <3>2, <3>3 DEF Points
    <3>5. next > 1
      BY <3>2 DEF Recorded
    <3> QED
      BY <3>2, <3>4, <3>5
  <2>2. CASE Bracket \/ Refine
    <3>1. /\ status # "invalid" /\ next' = next /\ Points' = Points
          /\ pc \in {"bracket", "refine"}
      BY <2>2 DEF Bracket, Refine, RecoverTo, sweep, points, Points
    <3>2. next > 1
      BY <3>1 DEF Recorded
    <3>3. Sweep[1] \in Points
      BY <1>0, <3>1, <3>2 DEF Orderly, Swept, Measuring
    <3> QED
      BY <3>1, <3>2, <3>3
  <2>3. CASE Recover \/ Discover \/ Overrun \/ RecoverSuspect \/ RecoverPulse
    BY <2>3 DEF Recover, Discover, Overrun, RecoverSuspect, RecoverPulse, RecoverTo, After
  <2> QED
    BY <1>1, <2>1, <2>2, <2>3 DEF Next, TestCandidate, SkipCandidate, Confirm, Analyze, Done
<1>5. source # "confirmation"
  BY <1>1 DEF Recorded, Deciding
<1>6. phase' = "refinement" => next' > 1
  <2>1. CASE Refine
    <3>1. pc = "refine" /\ status # "invalid" /\ next' = next
      BY <2>1 DEF Refine, Orderly
    <3> QED
      BY <3>1 DEF Recorded
  <2>2. CASE Measure \/ MeasureAgain
    <3>1. phase' = phase /\ next' = next
      BY <2>2 DEF Measure, MeasureAgain, Accept, sweep
    <3> QED
      BY <3>1 DEF Recorded
  <2>3. CASE Discover
    <3>1. phase' = phase /\ phase = "discovery"
      BY <2>3 DEF Discover, Orderly
    <3> QED
      BY <3>1
  <2>4. CASE Recover \/ Overrun \/ RecoverSuspect \/ RecoverPulse \/ Bracket
    <3>1. phase' = phase /\ next' = next
      BY <2>4 DEF Recover, Overrun, RecoverSuspect, RecoverPulse, Bracket, sweep
    <3> QED
      BY <3>1 DEF Recorded
  <2> QED
    BY <1>1, <2>1, <2>2, <2>3, <2>4 DEF Next, TestCandidate, SkipCandidate, Confirm, Analyze, Done
<1> QED
  BY <1>0, <1>1, <1>2, <1>3, <1>4, <1>5, <1>6 DEF Recorded, Deciding

\* The recommendation, and every step after it.
LEMMA RecordedAfter ==
    ASSUME TypeOK, TestOrder, ChosenFromPoints, Recorded, Deciding \/ Recommend, Next
    PROVE  Recorded'
<1> USE DEF Grounds, FromDiscovery, FromConfirmation, Marked
<1>0. /\ policy' = policy /\ (Probe' <=> Probe) /\ (Closed' <=> Closed) /\ HowMany' = HowMany
      /\ Ceiling' = Ceiling /\ policy \in Policies
  BY PolicyIsFixed DEF TypeOK, Probe, Closed, HowMany, Ceiling, Rpm, Tpm
<1>1. /\ pc \in {"recommend", "confirm", "analyze", "done"}
      /\ Recommend \/ TestCandidate \/ SkipCandidate \/ Confirm \/ Analyze \/ Done
  BY DEF Deciding, Next, Recover, Discover, Overrun, Measure, RecoverSuspect, MeasureAgain,
         RecoverPulse, Bracket, Refine, Recommend
<1>2. /\ UNCHANGED <<phase, next, shown, above>> /\ Deciding'
  BY <1>1 DEF Deciding, Recommend, TestCandidate, SkipCandidate, Confirm, Analyze, Done, vars,
         sweep, points
<1>3. /\ Points' = Points /\ Leading' = Leading /\ StrictRun' = StrictRun
      /\ (Unresolved' <=> Unresolved) /\ Candidates' = Candidates
  <2>1. Points' = Points /\ Failed' = Failed
    BY <1>2 DEF Points, Failed
  <2>2. Leading' = Leading /\ StrictRun' = StrictRun /\ (Unresolved' <=> Unresolved)
    BY <1>2, <2>1 DEF Leading, StrictRun, Unresolved
  <2>3. \A v : WithinQuota(v)' <=> WithinQuota(v)
    BY <1>0 DEF WithinQuota
  <2>4. Eligible' = Eligible
    BY <2>2, <2>3 DEF Eligible
  <2>5. Candidates' = Candidates
    BY <1>0, <1>2, <2>4 DEF Candidates, Highest
  <2> QED
    BY <2>1, <2>2, <2>5
<1>4. CASE Recommend
  <2>1. /\ pc = "recommend" /\ confirmed' = Greatest(StrictRun) /\ status' = status
        /\ source' = (IF Leading = {} THEN "none" ELSE "discovery_fixed_sequence")
        /\ \/ /\ HowMany # None /\ Leading # {} /\ status # "invalid"
              /\ cands' = Candidates /\ pc' = "confirm"
           \/ /\ ~(HowMany # None /\ Leading # {} /\ status # "invalid")
              /\ pc' = "analyze"
    BY <1>4 DEF Recommend
  <2>2. Leading = {} => confirmed' = {}
    BY <2>1, StrictIsLeading DEF Greatest
  <2>3. status' = "invalid" \/ (next' > 1 /\ Points' # {})
    BY <1>2, <1>3, <2>1 DEF Recorded
  <2>4. status' = "invalid" => Probe' \/ Closed'
    BY <1>0, <2>1 DEF Recorded
  <2>5. phase' = "refinement" => next' > 1
    BY <1>2 DEF Recorded
  <2>6. source' = "discovery_fixed_sequence" =>
           /\ Leading' # {} /\ confirmed' = Greatest(StrictRun')
           /\ pc' \in {"analyze", "done"} /\ HowMany' # None => status' = "invalid"
    BY <1>0, <1>3, <2>1
  <2>7. pc' = "confirm" => /\ HowMany' # None /\ Leading' # {} /\ cands' = Candidates'
                           /\ source' = "discovery_fixed_sequence"
    BY <1>0, <1>3, <2>1
  <2>8. source' = "none" => Leading' = {} /\ confirmed' = {}
    BY <1>3, <2>1, <2>2
  <2>9. source' # "confirmation" /\ pc' # "bracket" /\ pc' # "done"
    BY <2>1
  <2>10. Grounds' /\ Marked'
    BY <2>3, <2>4, <2>5, <2>9 DEF Grounds, Marked
  <2>11. FromDiscovery'
    BY <2>6, <2>8 DEF FromDiscovery
  <2>12. FromConfirmation'
    BY <2>7, <2>9 DEF FromConfirmation
  <2> QED
    BY <2>10, <2>11, <2>12 DEF Recorded
<1>5. CASE TestCandidate \/ SkipCandidate
  <2>1. /\ UNCHANGED <<confirmed, source, cands>> /\ pc = "confirm" /\ pc' = "confirm"
    BY <1>5 DEF TestCandidate, SkipCandidate, recommendation
  <2>2. status' = "invalid" => Probe \/ Closed
    <3>1. CASE SkipCandidate
      BY <3>1 DEF SkipCandidate, Recorded
    <3>2. CASE TestCandidate
      <4>1. PICK t \in Statuses, d \in Verdicts, r \in Stops :
               /\ Settles(status, t, d, r) /\ status' = t
               /\ r = "provider_state_invalid" => Probe \/ Closed
        BY <3>2 DEF TestCandidate
      <4>2. r # "provider_state_invalid" => t # "invalid" \/ status = "invalid"
        BY <4>1 DEF Settles, Reproduced, Unsteady
      <4> QED
        BY <4>1, <4>2 DEF Recorded
    <3> QED
      BY <1>5, <3>1, <3>2
  <2>3. status' = "invalid" \/ (next' > 1 /\ Points' # {})
    <3>1. status = "invalid" => status' = "invalid"
      BY <1>5 DEF TestCandidate, SkipCandidate, TestOrder
    <3> QED
      BY <1>2, <1>3, <2>1, <3>1 DEF Recorded, Deciding
  <2>4. source = "discovery_fixed_sequence"
    BY <2>1 DEF Recorded
  <2>5. Grounds' /\ Marked'
    BY <1>0, <1>2, <2>1, <2>2, <2>3 DEF Recorded
  <2>6. FromDiscovery'
    BY <1>3, <2>1, <2>4 DEF Recorded, Deciding
  <2>7. FromConfirmation'
    BY <1>0, <1>3, <2>1, <2>4 DEF Recorded
  <2> QED
    BY <2>5, <2>6, <2>7 DEF Recorded
<1>6. CASE Confirm
  <2>1. /\ UNCHANGED <<cands, tested, status>> /\ pc = "confirm" /\ pc' = "analyze"
        /\ source' = "confirmation" /\ Untested = {}
        /\ confirmed' = Greatest({v \in cands : tested[v] = "PASS"})
    BY <1>6 DEF Confirm, confirmation
  <2>2. Untested' = {}
    BY <2>1 DEF Untested
  <2> QED
    BY <1>0, <1>2, <1>3, <2>1, <2>2 DEF Recorded, Deciding
<1>7. CASE Analyze \/ Done
  <2>1. /\ UNCHANGED <<cands, tested, confirmed, source>> /\ pc \in {"analyze", "done"}
        /\ pc' = "done" /\ (status' = "invalid" <=> status = "invalid")
        /\ Unresolved => status' # "valid"
    BY <1>7 DEF Analyze, Done, vars, confirmation, recommendation, NonMonotonic, Recorded
  <2>2. Untested' = Untested
    BY <2>1 DEF Untested
  <2> QED
    BY <1>0, <1>2, <1>3, <2>1, <2>2 DEF Recorded, Deciding
<1> QED
  BY <1>1, <1>4, <1>5, <1>6, <1>7

\* What a finished subject has recorded follows from the phases it went through.
LEMMA RecordedAlways == Spec => []Recorded
<1> USE DEF Grounds, FromDiscovery, FromConfirmation, Marked
<1>1. Init => Recorded
  BY DEF Init, Recorded, Deciding
<1>2. /\ TypeOK /\ TestOrder /\ Orderly /\ ChosenFromPoints /\ Recorded /\ [Next]_vars
      => Recorded'
  <2> SUFFICES ASSUME TypeOK, TestOrder, Orderly, ChosenFromPoints, Recorded, [Next]_vars
               PROVE  Recorded'
    OBVIOUS
  <2>1. CASE Next
    BY <2>1, RecordedBefore, RecordedAfter
  <2>2. CASE UNCHANGED vars
    <3>1. Points' = Points /\ Leading' = Leading /\ StrictRun' = StrictRun
          /\ Candidates' = Candidates /\ (Unresolved' <=> Unresolved)
      BY <2>2 DEF vars, sweep, points, Points, Leading, Failed, StrictRun, Unresolved,
                  Candidates, Eligible, Highest, WithinQuota, Closed, Ceiling, Rpm, Tpm, HowMany
    <3> QED
      BY <2>2, <3>1 DEF vars, sweep, confirmation, recommendation, Recorded, Deciding, Untested,
                        Probe, Closed, HowMany
  <2> QED
    BY <2>1, <2>2
<1> QED
  BY TypeCorrect, TestOrderAlways, PhasesInOrder, ChosenAlways, <1>1, <1>2, PTL DEF Spec

\* A class measured at another size is missed, and only then is its shape an
\* objection.
LEMMA ShapeIsMissed ==
    ASSUME NEW in \in Deviations, NEW out \in Deviations
    PROVE  /\ Shape({in, out}) = "missed" <=> "off" \in {in, out}
           /\ Objections(Shape({in, out})) = {} <=> "off" \notin {in, out} /\ status # "invalid"
<1>1. Shape({in, out}) = "missed" <=> "off" \in {in, out}
  BY DEF Shape
<1> QED
  BY <1>1 DEF Objections, Missed

\* What an entry offers is the confirmed point, or what headroom leaves of it,
\* and nothing when there is an objection or the experiment is for neither.
LEMMA WhatIsOffered ==
    ASSUME NEW purpose, NEW shape
    PROVE  LET entry   == Entry(purpose, shape)
               offered == IF entry.calibration = "point" THEN confirmed ELSE entry.envelope
           IN  /\ offered \subseteq confirmed
               /\ offered # {} => /\ Objections(shape) = {} /\ ~Burst
                                  /\ purpose \in {"reference", "admission_calibration"}
               /\ entry.calibration =
                     IF Calibrates(purpose) = "absent" \/ Objections(shape) = {}
                     THEN Calibrates(purpose) ELSE "null"
               /\ entry.blocks = IF Recommended /\ ~Burst THEN {Block} ELSE {}
<1> DEFINE plain == Unchecked(purpose)
<1>1. /\ plain.envelope = Advice(purpose).envelope /\ plain.calibration = Calibrates(purpose)
      /\ plain.blocks = IF Recommended /\ ~Burst THEN {Block} ELSE {}
  BY DEF Unchecked
<1>2. /\ Advice(purpose).envelope \subseteq confirmed
      /\ Advice(purpose).envelope # {} => purpose = "reference" /\ ~Burst
  BY DEF Advice, Admitted
<1>3. CASE Objections(shape) = {}
  <2>1. Entry(purpose, shape) = plain
    BY <1>3 DEF Entry
  <2> HIDE DEF plain
  <2> QED
    BY <1>1, <1>2, <1>3, <2>1 DEF Calibrates
<1>4. CASE Objections(shape) # {}
  <2>1. /\ Entry(purpose, shape).envelope = {}
        /\ Entry(purpose, shape).blocks = plain.blocks
        /\ Entry(purpose, shape).calibration =
              IF plain.calibration = "absent" THEN plain.calibration ELSE "null"
    BY <1>4 DEF Entry, Unchecked
  <2> HIDE DEF plain
  <2> QED
    BY <1>1, <1>4, <2>1 DEF Calibrates
<1> QED
  BY <1>3, <1>4

\* A finished subject that is not invalid confirmed its point by a confirmation
\* if it was to have one, and in discovery otherwise.
LEMMA WhereItCameFrom ==
    ASSUME TypeOK, ChosenFromPoints, Recorded, pc = "done", status # "invalid",
           NEW v \in confirmed
    PROVE  /\ \A w \in Edge : v < w
           /\ IF HowMany # None THEN tested[v] = "PASS" /\ WithinQuota(v)
              ELSE \A w \in Points : w <= v => shown[w] = "PASS"
<1>1. /\ source \in {"discovery_fixed_sequence", "confirmation"}
      /\ source = "confirmation" <=> HowMany # None
  BY DEF TypeOK, Recorded, FromDiscovery, FromConfirmation, Deciding
<1>2. \A w \in Edge : v < w
  <2> SUFFICES ASSUME NEW w \in Edge PROVE v < w
    OBVIOUS
  <2>1. w \in Values /\ shown[w] = "FAIL" /\ v \in Values /\ Values \subseteq Int
    BY SubjectAssumption DEF Edge, Least, Failed, Points, TypeOK, Values
  <2>2. w <= v => shown[w] # "FAIL"
    BY <2>1 DEF ChosenFromPoints, ConfirmedStands
  <2> QED
    BY <2>1, <2>2
<1> QED
  BY <1>1, <1>2 DEF ChosenFromPoints, ConfirmedStands, Points

\* Whatever a subject went through and whatever the experiment was for, an entry
\* offers only a point that was confirmed for that purpose, on the shape it
\* claims, below the edge that was observed.
THEOREM OffersAreBacked == Spec => []EntryIsBacked
<1>1. TypeOK /\ ChosenFromPoints /\ Recorded => EntryIsBacked
  <2> SUFFICES ASSUME TypeOK, ChosenFromPoints, Recorded, pc = "done",
                      NEW spec \in Purposes, NEW control \in BOOLEAN,
                      NEW in \in Deviations, NEW out \in Deviations
               PROVE  LET entry   == Entry(Purpose(spec, control), Shape({in, out}))
                          offered == IF entry.calibration = "point" THEN confirmed
                                     ELSE entry.envelope
                      IN  offered # {} =>
                          /\ ~control /\ spec # "characterization" /\ ~Burst
                          /\ status # "invalid" /\ "off" \notin {in, out}
                          /\ \A v \in offered :
                                /\ \A w \in Edge : v < w
                                /\ IF HowMany # None THEN tested[v] = "PASS" /\ WithinQuota(v)
                                   ELSE \A w \in Points : w <= v => shown[w] = "PASS"
    BY DEF EntryIsBacked
  <2> DEFINE entry   == Entry(Purpose(spec, control), Shape({in, out}))
             offered == IF entry.calibration = "point" THEN confirmed ELSE entry.envelope
  <2>1. /\ offered \subseteq confirmed
        /\ offered # {} => /\ Objections(Shape({in, out})) = {} /\ ~Burst
                           /\ Purpose(spec, control) \in {"reference", "admission_calibration"}
    BY WhatIsOffered
  <2> HIDE DEF entry
  <2> SUFFICES ASSUME offered # {}
               PROVE  /\ ~control /\ spec # "characterization" /\ ~Burst
                      /\ status # "invalid" /\ "off" \notin {in, out}
                      /\ \A v \in offered :
                            /\ \A w \in Edge : v < w
                            /\ IF HowMany # None THEN tested[v] = "PASS" /\ WithinQuota(v)
                               ELSE \A w \in Points : w <= v => shown[w] = "PASS"
    BY DEF entry
  <2>2. status # "invalid" /\ "off" \notin {in, out} /\ ~Burst
    BY <2>1, ShapeIsMissed
  <2>3. ~control /\ spec # "characterization"
    BY <2>1 DEF Purpose
  <2>4. \A v \in confirmed :
           /\ \A w \in Edge : v < w
           /\ IF HowMany # None THEN tested[v] = "PASS" /\ WithinQuota(v)
              ELSE \A w \in Points : w <= v => shown[w] = "PASS"
    BY <2>2, WhereItCameFrom
  <2> HIDE DEF offered
  <2> QED
    BY <2>1, <2>2, <2>3, <2>4
<1> QED
  BY TypeCorrect, ChosenAlways, RecordedAlways, <1>1, PTL

\* An entry conforms to the schema whatever was measured, except that a withheld
\* calibration point does not.
THEOREM EntriesConform == Spec => []ConformsUnlessWithheld
<1>1. TypeOK /\ ChosenFromPoints /\ Recorded => ConformsUnlessWithheld
  <2> SUFFICES ASSUME TypeOK, ChosenFromPoints, Recorded, pc = "done",
                      NEW purpose \in Purposes, NEW in \in Deviations, NEW out \in Deviations
               PROVE  Conforms(Entry(purpose, Shape({in, out}))) <=>
                      ~(/\ purpose = "admission_calibration" /\ ~Burst
                        /\ status = "invalid" \/ "off" \in {in, out})
    BY DEF ConformsUnlessWithheld
  <2> DEFINE entry == Entry(purpose, Shape({in, out}))
  <2>1. /\ entry.calibration =
              IF Calibrates(purpose) = "absent" \/ Objections(Shape({in, out})) = {}
              THEN Calibrates(purpose) ELSE "null"
        /\ entry.blocks = IF Recommended /\ ~Burst THEN {Block} ELSE {}
    BY WhatIsOffered
  <2> HIDE DEF entry
  <2>2. entry.calibration \in {"absent", "point"} <=>
           ~(/\ purpose = "admission_calibration" /\ ~Burst
             /\ status = "invalid" \/ "off" \in {in, out})
    BY <2>1, ShapeIsMissed DEF Calibrates
  <2>3. ASSUME NEW b \in entry.blocks
        PROVE  b.state \in {"resolved", "not_reached", "unresolved"} /\ Cardinality(b.confirmed) <= 1
    <3>1. b.state = Analysis /\ b.confirmed = confirmed /\ Recommended
      BY <2>1, <2>3 DEF Block
    <3>2. Passing # {}
      <4>1. Leading # {}
        BY <3>1 DEF Recorded, FromDiscovery, FromConfirmation, Deciding, Recommended, TypeOK
      <4>2. Leading \subseteq Passing
        BY SubjectAssumption DEF Leading, Passing, Points, Values, Failed
      <4> QED
        BY <4>1, <4>2
    <3>3. Analysis \in {"resolved", "not_reached", "unresolved"}
      BY <3>2 DEF Analysis
    <3>4. Cardinality(confirmed) <= 1
      <4>1. CASE confirmed = {}
        BY <4>1, FS_EmptySet
      <4>2. ASSUME NEW v \in confirmed PROVE Cardinality(confirmed) <= 1
        <5>1. confirmed = {v}
          BY DEF ChosenFromPoints, ConfirmedStands
        <5>2. Cardinality({v}) = 1
          BY FS_Singleton
        <5> QED
          BY <5>1, <5>2
      <4> QED
        BY <4>1, <4>2
    <3> QED
      BY <3>1, <3>3, <3>4
  <2> QED
    BY <2>2, <2>3 DEF Conforms, entry
<1> QED
  BY TypeCorrect, ChosenAlways, RecordedAlways, <1>1, PTL

\* The lowest of the points, where discovery ends without a candidate.
LEMMA LowestDecides ==
    ASSUME TypeOK, Points # {}
    PROVE  /\ Least(Points) # {}
           /\ Leading = {} => \A v \in Least(Points) : shown[v] = "FAIL"
           /\ Leading # {} /\ StrictRun = {} =>
                 \A v \in Least(Points) : shown[v] = "INCONCLUSIVE"
<1>0. Points \subseteq Values /\ Points \subseteq Int
  BY SubjectAssumption DEF Points, Values
<1>1. Least(Points) # {}
  BY <1>0, Extremes
<1> SUFFICES ASSUME NEW v \in Least(Points)
             PROVE  /\ Leading = {} => shown[v] = "FAIL"
                    /\ Leading # {} /\ StrictRun = {} => shown[v] = "INCONCLUSIVE"
  BY <1>1
<1>2. v \in Points /\ \A w \in Points : v <= w
  BY DEF Least
<1>3. shown[v] \in {"PASS", "FAIL", "INCONCLUSIVE"}
  BY <1>2 DEF TypeOK, Points, Verdicts
<1>4. shown[v] # "FAIL" => v \in Leading
  <2> SUFFICES ASSUME shown[v] # "FAIL", NEW f \in Failed PROVE v < f
    BY <1>2 DEF Leading
  <2>1. f \in Points /\ f # v /\ v <= f
    BY <1>2 DEF Failed
  <2> QED
    BY <1>0, <1>2, <2>1
<1>5. shown[v] = "FAIL" => Leading = {}
  <2> SUFFICES ASSUME shown[v] = "FAIL", NEW u \in Leading PROVE FALSE
    OBVIOUS
  <2>1. u \in Points /\ v \in Failed /\ u < v /\ v <= u
    BY <1>2 DEF Leading, Failed
  <2>2. u \in Int /\ v \in Int
    BY <1>0, <1>2, <2>1
  <2> QED
    BY <2>1, <2>2
<1>6. shown[v] = "PASS" => v \in StrictRun
  <2> SUFFICES ASSUME shown[v] = "PASS", NEW w \in Points, w <= v PROVE shown[w] = "PASS"
    BY <1>2 DEF StrictRun
  <2>1. w = v
    BY <1>0, <1>2
  <2> QED
    BY <2>1
<1> QED
  BY <1>3, <1>4, <1>5, <1>6

\* Without a PASS among its candidates, a finished subject that is not invalid
\* has tested each of them.
LEMMA AllWereTested ==
    ASSUME TypeOK, TestOrder, Recorded, status # "invalid", source = "confirmation",
           confirmed = {}
    PROVE  \A v \in cands : tested[v] \in {"FAIL", "INCONCLUSIVE"}
<1>1. Untested = {} /\ Greatest({v \in cands : tested[v] = "PASS"}) = {} /\ cands \subseteq Values
  BY DEF Recorded, FromConfirmation, TypeOK
<1>2. \A v \in cands : tested[v] # "none" /\ tested[v] # "PASS"
  <2>1. {v \in cands : tested[v] = "PASS"} = {}
    BY <1>1, Extremes
  <2> QED
    BY <1>1, <2>1 DEF Untested
<1>3. \A v \in cands : tested[v] # "not_tested"
  BY <1>2 DEF TestOrder, HighestFirst
<1>4. \A v \in cands : tested[v] \in {"PASS", "FAIL", "INCONCLUSIVE", "none", "not_tested"}
  BY <1>1 DEF TypeOK, Verdicts
<1> QED
  BY <1>2, <1>3, <1>4

\* The reason an entry gives for confirming nothing is what happened, and it
\* names a bottleneck of a valid measurement only, for every subject.
THEOREM ReportsAreTrue == Spec => []ReportIsTrue
<1>1. TypeOK /\ TestOrder /\ Recorded => ReasonIsTrue
  <2> SUFFICES ASSUME TypeOK, TestOrder, Recorded, pc = "done", confirmed = {}
               PROVE  CASE Reason = "invalid"        -> Probe \/ Closed
                        [] Reason = "lowest_fails"   -> \E v \in Least(Points) : shown[v] = "FAIL"
                        [] Reason = "no_candidate"   -> Leading # {} /\ \A v \in Leading : ~WithinQuota(v)
                        [] Reason = "tested"         -> cands # {} /\ \A v \in cands : tested[v] \in {"FAIL", "INCONCLUSIVE"}
                        [] Reason = "discovery_only" -> \E v \in Least(Points) : shown[v] = "INCONCLUSIVE"
    BY DEF ReasonIsTrue
  <2>1. CASE status = "invalid"
    <3>1. Reason = "invalid" /\ (Probe \/ Closed)
      BY <2>1 DEF Reason, Recorded, Grounds
    <3> QED
      BY <3>1
  <2>2. CASE status # "invalid" /\ source = "none"
    <3>1. Reason = "lowest_fails" /\ Leading = {} /\ Points # {}
      BY <2>2 DEF Reason, Recommended, Recorded, Grounds, FromDiscovery, Deciding
    <3> QED
      BY <3>1, LowestDecides
  <2>3. CASE status # "invalid" /\ source = "discovery_fixed_sequence"
    <3>1. /\ Reason = "discovery_only" /\ Leading # {} /\ Points # {}
          /\ Greatest(StrictRun) = {}
      BY <2>3 DEF Reason, Recommended, Recorded, Grounds, FromDiscovery, Deciding
    <3>2. StrictRun = {}
      BY <3>1, Extremes DEF StrictRun, Points
    <3> QED
      BY <3>1, <3>2, LowestDecides
  <2>4. CASE status # "invalid" /\ source = "confirmation"
    <3>1. /\ Reason = (IF Tried = {} THEN "no_candidate" ELSE "tested")
          /\ HowMany # None /\ Leading # {} /\ cands = Candidates
      BY <2>4 DEF Reason, Recommended, Recorded, FromConfirmation
    <3>2. \A v \in cands : tested[v] \in {"FAIL", "INCONCLUSIVE"}
      BY <2>4, AllWereTested
    <3>3. Tried = cands
      BY <3>2 DEF Tried
    <3>4. cands = {} => \A v \in Leading : ~WithinQuota(v)
      BY <3>1, SomeCandidate DEF Eligible, TypeOK
    <3>5. CASE cands = {}
      BY <3>1, <3>3, <3>4, <3>5
    <3>6. CASE cands # {}
      BY <3>1, <3>2, <3>3, <3>6
    <3> QED
      BY <3>5, <3>6
  <2> QED
    BY <2>1, <2>2, <2>3, <2>4 DEF TypeOK
<1>2. TypeOK /\ Recorded => CauseIsRead
  <2> SUFFICES ASSUME TypeOK, Recorded, pc = "done", Recommended
               PROVE  Bottleneck \in {"failed_checks", "not_reached"} <=> status = "valid"
    BY DEF CauseIsRead
  <2>1. CASE status # "valid"
    BY <2>1 DEF Bottleneck
  <2>2. CASE status = "valid"
    <3>1. Passing # {}
      <4>1. Leading # {}
        BY DEF Recorded, FromDiscovery, FromConfirmation, Deciding, Recommended, TypeOK
      <4> QED
        BY <4>1, SubjectAssumption DEF Leading, Passing, Points, Values, Failed
    <3>2. ~Unresolved
      BY <2>2 DEF Recorded, Marked
    <3>3. CASE Failed = {}
      <4>1. Analysis = "not_reached"
        BY <3>1, <3>2, <3>3 DEF Analysis
      <4>2. Edge = {}
        BY <4>1 DEF Edge
      <4> QED
        BY <2>2, <4>1, <4>2 DEF Bottleneck
    <3>4. CASE Failed # {}
      <4>1. Analysis = "resolved" /\ Edge = Least(Failed)
        BY <3>1, <3>2, <3>4 DEF Analysis, Edge
      <4>2. Least(Failed) # {}
        BY <3>4, Extremes DEF Failed, Points
      <4> QED
        BY <2>2, <4>1, <4>2 DEF Bottleneck
    <3> QED
      BY <3>3, <3>4
  <2> QED
    BY <2>1, <2>2
<1>3. ReasonIsTrue /\ CauseIsRead => ReportIsTrue
  BY DEF ReportIsTrue
<1> QED
  BY TypeCorrect, TestOrderAlways, RecordedAlways, <1>1, <1>2, <1>3, PTL

(***************************************************************************)
(* The safety half of Terminates: what is left of the sweep, of the        *)
(* refinement and of the candidates runs out.                              *)
(***************************************************************************)

\* How far the coroutine is from its end, other values, bisections and
\* candidates aside.
Ahead == CASE pc = "measure"   -> 12
           [] pc = "suspect"   -> 11
           [] pc = "again"     -> 10
           [] pc = "recover"   -> 9
           [] pc = "pulse"     -> 9
           [] pc = "discover"  -> 8
           [] pc = "bracket"   -> 7
           [] pc = "refine"    -> 6
           [] pc = "recommend" -> 5
           [] pc = "confirm"   -> 4
           [] pc = "analyze"   -> 1
           [] pc = "done"      -> 0

Unoffered   == Len(Sweep) + 1 - next
Bisections  == RefineMax - refined
NotYet      == {v \in Values : tested[v] = "none"}

StepsLeft == Ahead + 8 * Unoffered + 8 * Bisections + Cardinality(NotYet)

LEMMA RefinedAtMost == Spec => [](refined <= RefineMax)
<1>1. Init => refined <= RefineMax
  BY PolicyIsWellFormed DEF Init
<1>2. TypeOK /\ refined <= RefineMax /\ [Next]_vars => (refined <= RefineMax)'
  <2> SUFFICES ASSUME TypeOK, refined <= RefineMax, [Next]_vars PROVE refined' <= RefineMax'
    OBVIOUS
  <2>1. refined \in Nat /\ RefineMax \in Nat /\ RefineMax' = RefineMax
    BY PolicyIsFixed, PolicyIsWellFormed DEF TypeOK, RefineMax
  <2>2. refined' = refined \/ (refined' = refined + 1 /\ refined # RefineMax)
    BY DEF Next, vars, bracket, Recover, Discover, Overrun, Measure, Accept, RecoverSuspect,
           MeasureAgain, RecoverPulse, Bracket, Refine, Recommend, TestCandidate,
           SkipCandidate, Confirm, Analyze, Done
  <2> QED
    BY <2>1, <2>2
<1> QED
  BY <1>1, <1>2, TypeCorrect, PTL DEF Spec

LEMMA Lower ==
    ASSUME NEW a \in 0..12, NEW b \in 0..12, NEW n \in Nat, NEW m \in Nat,
           NEW r \in Nat, NEW q \in Nat, NEW w \in Nat, NEW u \in Nat,
           m <= n, q <= r, u <= w,
           \/ b < a
           \/ b < a + 8 /\ (m < n \/ q < r)
           \/ b <= a /\ u < w
    PROVE  b + 8 * m + 8 * q + u < a + 8 * n + 8 * r + w
  OBVIOUS

LEMMA ValuesFinite == IsFiniteSet(Values)
BY SubjectAssumption, FS_Interval DEF Values

\* A candidate that is tested or skipped is no longer one to come.
LEMMA OneFewer ==
    ASSUME TypeOK, NEW v \in Untested, NEW d, d # "none", tested' = [tested EXCEPT ![v] = d]
    PROVE  Cardinality(NotYet') < Cardinality(NotYet)
<1>1. IsFiniteSet(NotYet)
  BY ValuesFinite, FS_Subset DEF NotYet
<1>2. v \in NotYet /\ NotYet' = NotYet \ {v}
  BY DEF NotYet, Untested, TypeOK
<1>3. Cardinality(NotYet') = Cardinality(NotYet) - 1
  BY <1>1, <1>2, FS_RemoveElement
<1> QED
  BY <1>1, <1>3, FS_CardinalityType

\* No subject goes on for ever, whatever is measured: every step but waiting
\* after the end lowers a natural number.
THEOREM StepsRunOut == Spec => [][StepsLeft' < StepsLeft /\ StepsLeft \in Nat]_vars
<1>1. TypeOK /\ TypeOK' /\ refined <= RefineMax /\ (refined <= RefineMax)' /\ [Next]_vars
         => [StepsLeft' < StepsLeft /\ StepsLeft \in Nat]_vars
  <2> SUFFICES ASSUME TypeOK, TypeOK', refined <= RefineMax, (refined <= RefineMax)', Next,
                      vars' # vars
               PROVE  StepsLeft' < StepsLeft /\ StepsLeft \in Nat
    OBVIOUS
  <2> USE DEF sweep, points, bracket, confirmation, recommendation
  <2>0. /\ policy' = policy /\ Sweep' = Sweep /\ RefineMax' = RefineMax
        /\ Sweep \in Seq(Values) /\ RefineMax \in Nat
    BY PolicyIsFixed, PolicyIsWellFormed DEF TypeOK, Sweep, RefineMax
  <2>1. /\ Ahead \in 0..12 /\ Ahead' \in 0..12
        /\ Unoffered \in Nat /\ Unoffered' \in Nat
        /\ Bisections \in Nat /\ Bisections' \in Nat
        /\ Cardinality(NotYet) \in Nat /\ Cardinality(NotYet') \in Nat
    <3>1. Ahead \in 0..12 /\ Ahead' \in 0..12
      BY DEF TypeOK, Pcs, Ahead
    <3>2. next \in 1..Len(Sweep) + 1 /\ next' \in 1..Len(Sweep) + 1 /\ Len(Sweep) \in Nat
          /\ refined \in Nat /\ refined' \in Nat
      BY <2>0 DEF TypeOK
    <3>3. IsFiniteSet(NotYet) /\ IsFiniteSet(NotYet')
      BY ValuesFinite, FS_Subset DEF NotYet
    <3>4. Unoffered \in Nat /\ Unoffered' \in Nat
      BY <2>0, <3>2 DEF Unoffered
    <3>5. Bisections \in Nat /\ Bisections' \in Nat
      <4>1. \A a, b \in Nat : a <= b => b - a \in Nat
        OBVIOUS
      <4>2. RefineMax - refined \in Nat
        BY <2>0, <3>2, <4>1
      <4>3. RefineMax - refined' \in Nat
        BY <2>0, <3>2, <4>1
      <4> QED
        BY <2>0, <4>2, <4>3 DEF Bisections
    <3> QED
      BY <3>1, <3>3, <3>4, <3>5, FS_CardinalityType
  <2>2. SUFFICES /\ Unoffered' <= Unoffered /\ Bisections' <= Bisections
                 /\ Cardinality(NotYet') <= Cardinality(NotYet)
                 /\ \/ Ahead' < Ahead
                    \/ Ahead' < Ahead + 8 /\ (Unoffered' < Unoffered \/ Bisections' < Bisections)
                    \/ Ahead' <= Ahead /\ Cardinality(NotYet') < Cardinality(NotYet)
    <3>1. StepsLeft' < StepsLeft
      BY <2>1, <2>2, Lower DEF StepsLeft
    <3>2. StepsLeft \in Nat
      BY <2>1 DEF StepsLeft
    <3> QED
      BY <3>1, <3>2
  <2>3. /\ next' = next => Unoffered' = Unoffered
        /\ refined' = refined => Bisections' = Bisections
        /\ tested' = tested => NotYet' = NotYet
    BY <2>0 DEF Unoffered, Bisections, NotYet
  <2>4. ASSUME UNCHANGED <<next, refined, tested>>, Ahead' < Ahead
        PROVE  /\ Unoffered' <= Unoffered /\ Bisections' <= Bisections
               /\ Cardinality(NotYet') <= Cardinality(NotYet) /\ Ahead' < Ahead
    BY <2>1, <2>3, <2>4
  <2>5. CASE Recover \/ RecoverPulse
    <3>1. /\ UNCHANGED <<next, refined, tested>>
          /\ pc \in {"recover", "pulse"} /\ pc' \in {"discover", "bracket"}
      BY <2>5 DEF Recover, RecoverPulse, RecoverTo
    <3>2. Ahead' < Ahead
      BY <3>1 DEF Ahead
    <3> QED
      BY <2>4, <3>1, <3>2
  <2>6. CASE Discover
    <3>1. UNCHANGED <<refined, tested>> /\ pc = "discover"
      BY <2>6 DEF Discover
    <3>2. CASE next' = next + 1 /\ pc' = "measure"
      <4>1. Unoffered' < Unoffered
        BY <2>0, <3>2 DEF Unoffered, TypeOK
      <4>2. Ahead' < Ahead + 8
        BY <3>1, <3>2 DEF Ahead
      <4> QED
        BY <2>1, <2>3, <3>1, <4>1, <4>2
    <3>3. CASE next' = next /\ pc' = "bracket"
      <4>1. Ahead' < Ahead
        BY <3>1, <3>3 DEF Ahead
      <4> QED
        BY <2>4, <3>1, <3>3, <4>1
    <3> QED
      BY <2>6, <3>2, <3>3 DEF Discover, NextValue
  <2>7. CASE Overrun \/ RecoverSuspect
    <3>1. /\ UNCHANGED <<next, refined, tested>>
          /\ \/ pc \in {"measure", "again"} /\ pc' \in {"bracket", "recommend"}
             \/ pc = "suspect" /\ pc' \in {"again", "bracket", "recommend"}
      BY <2>7 DEF Overrun, RecoverSuspect, RecoverTo, After
    <3>2. Ahead' < Ahead
      BY <3>1 DEF Ahead
    <3> QED
      BY <2>4, <3>1, <3>2
  <2>8. CASE Measure \/ MeasureAgain
    <3>1. /\ UNCHANGED <<next, refined, tested>>
          /\ \/ pc = "measure" /\ pc' = "suspect"
             \/ pc \in {"measure", "again"} /\ pc' \in {"pulse", "bracket", "discover", "refine"}
      BY <2>8 DEF Measure, MeasureAgain, Accept
    <3>2. Ahead' < Ahead
      BY <3>1 DEF Ahead
    <3> QED
      BY <2>4, <3>1, <3>2
  <2>9. CASE Bracket \/ Recommend \/ Confirm \/ Analyze
    <3>1. /\ UNCHANGED <<next, refined, tested>>
          /\ \/ pc = "bracket" /\ pc' \in {"refine", "recommend"}
             \/ pc = "recommend" /\ pc' \in {"confirm", "analyze"}
             \/ pc = "confirm" /\ pc' = "analyze"
             \/ pc = "analyze" /\ pc' = "done"
      BY <2>9 DEF Bracket, Recommend, Confirm, Analyze
    <3>2. Ahead' < Ahead
      BY <3>1 DEF Ahead
    <3> QED
      BY <2>4, <3>1, <3>2
  <2>10. CASE Refine
    <3>1. UNCHANGED <<next, tested>> /\ pc = "refine"
      BY <2>10 DEF Refine
    <3>2. CASE refined' = refined + 1 /\ pc' \in {"measure", "recommend"}
      <4>1. Bisections' < Bisections
        BY <2>0, <3>2 DEF Bisections, TypeOK
      <4>2. Ahead' < Ahead + 8
        BY <3>1, <3>2 DEF Ahead
      <4> QED
        BY <2>1, <2>3, <3>1, <4>1, <4>2
    <3>3. CASE refined' = refined /\ pc' = "recommend"
      <4>1. Ahead' < Ahead
        BY <3>1, <3>3 DEF Ahead
      <4> QED
        BY <2>4, <3>1, <3>3, <4>1
    <3> QED
      BY <2>10, <3>2, <3>3 DEF Refine, RecoverTo
  <2>11. CASE TestCandidate \/ SkipCandidate
    <3>1. PICK v \in Untested, d \in Verdicts \cup {"not_tested"} :
              tested' = [tested EXCEPT ![v] = d]
      BY <2>11 DEF TestCandidate, SkipCandidate, NextCandidate, Greatest
    <3>2. Cardinality(NotYet') < Cardinality(NotYet)
      BY <3>1, OneFewer DEF Verdicts
    <3>3. UNCHANGED <<pc, next, refined>>
      BY <2>11 DEF TestCandidate, SkipCandidate
    <3>4. Ahead' = Ahead
      BY <3>3 DEF Ahead
    <3> QED
      BY <2>1, <2>3, <3>2, <3>3, <3>4
  <2>12. CASE Done
    BY <2>12 DEF Done
  <2> QED
    BY <2>5, <2>6, <2>7, <2>8, <2>9, <2>10, <2>11, <2>12 DEF Next
<1> QED
  BY <1>1, TypeCorrect, RefinedAtMost, PTL DEF Spec
=============================================================================
