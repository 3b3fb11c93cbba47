--------------------------- MODULE Candidate_proofs ---------------------------
(***************************************************************************)
(* Theorems about Candidate, for any plan of looks, any statistics, any    *)
(* repetitions, caps and mixes of classes.                                 *)
(***************************************************************************)
EXTENDS Candidate, FiniteSetTheorems, TLAPS

-----------------------------------------------------------------------------
(* The plan of looks.  Need is defined by recursion: that it satisfies its *)
(* own equation, and that it grows, is shown by the least counterexample.  *)

LEMMA LeastOf ==
    ASSUME NEW S \in SUBSET Nat, S # {}
    PROVE  Min(S) \in S /\ \A y \in S : Min(S) <= y
<1>1. PICK x \in S : \A y \in S : ~(<<y, x>> \in OpToRel(<, Nat))
  BY NatLessThanWellFounded, WFMin
<1>2. ASSUME NEW y \in S, y < x PROVE FALSE
  <2>1. <<y, x>> \in OpToRel(<, Nat)
    BY <1>2 DEF OpToRel
  <2> QED
    BY <1>1, <2>1
<1>3. \A y \in S : x <= y
  BY <1>2
<1> QED
  BY <1>3 DEF Min

\* A plan for the first n looks.
Planned(g, n) ==
    g = [j \in 1..n |->
            [c \in Classes |-> IF j = 1 THEN Required(c, 0)
                               ELSE Larger(Required(c, j - 1), g[j - 1][c] + 1)]]

LEMMA PlanExists == \A n \in Nat : \E g : Planned(g, n)
<1> DEFINE Bad == {n \in Nat : \A g : ~Planned(g, n)}
<1> SUFFICES ASSUME Bad # {} PROVE FALSE
  OBVIOUS
<1>1. Min(Bad) \in Nat /\ (\A g : ~Planned(g, Min(Bad))) /\ \A y \in Bad : Min(Bad) <= y
  BY LeastOf
<1> DEFINE m == Min(Bad)
<1> HIDE DEF m
<1>2. m \in Nat /\ (\A g : ~Planned(g, m)) /\ (\A n \in Nat : n < m => \E g : Planned(g, n))
  BY <1>1 DEF m
<1>3. m # 0
  <2> SUFFICES ASSUME m = 0 PROVE FALSE
    OBVIOUS
  <2> DEFINE none == [j \in 1..0 |-> 0]
  <2>1. Planned(none, 0)
    BY DEF Planned
  <2> QED
    BY <1>2, <2>1
<1>4. PICK g : Planned(g, m - 1)
  BY <1>2, <1>3
<1> DEFINE longer == [j \in 1..m |->
                         IF j < m THEN g[j]
                         ELSE [c \in Classes |-> IF j = 1 THEN Required(c, 0)
                                   ELSE Larger(Required(c, j - 1), g[j - 1][c] + 1)]]
           look(h, j) == [c \in Classes |-> IF j = 1 THEN Required(c, 0)
                                   ELSE Larger(Required(c, j - 1), h[j - 1][c] + 1)]
<1>5. ASSUME NEW j \in 1..m PROVE longer[j] = look(longer, j)
  <2>0. j = 1 \/ (j - 1 \in 1..m /\ longer[j - 1] = g[j - 1])
    BY <1>2
  <2>1. look(longer, j) = look(g, j)
    BY <2>0
  <2>2. CASE j < m
    <3>1. j \in 1..(m - 1)
      BY <1>2, <2>2
    <3>2. g = [i \in 1..(m - 1) |-> look(g, i)]
      BY <1>4 DEF Planned
    <3>3. g[j] = look(g, j)
      <4> HIDE DEF look
      <4> QED
        BY <3>1, <3>2
    <3> QED
      BY <2>1, <2>2, <3>3
  <2>3. CASE ~(j < m)
    BY <2>1, <2>3
  <2> QED
    BY <2>2, <2>3
<1>6. longer = [j \in 1..m |-> look(longer, j)]
  <2> HIDE DEF look
  <2> QED
    BY <1>5
<1>7. Planned(longer, m)
  BY <1>6 DEF Planned
<1> QED
  BY <1>2, <1>7

LEMMA NeedIsPlanned == Planned(Need, MaxLooks)
<1>1. \E g : Planned(g, MaxLooks)
  BY PlanExists, PlanAssumption
<1> QED
  BY <1>1 DEF Need, Planned

LEMMA NeedOf ==
    ASSUME NEW j \in 1..MaxLooks, NEW c \in Classes
    PROVE  Need[j][c] = IF j = 1 THEN Required(c, 0)
                        ELSE Larger(Required(c, j - 1), Need[j - 1][c] + 1)
<1> DEFINE look(i) == [d \in Classes |-> IF i = 1 THEN Required(d, 0)
                                        ELSE Larger(Required(d, i - 1), Need[i - 1][d] + 1)]
<1>1. Need = [i \in 1..MaxLooks |-> look(i)]
  BY NeedIsPlanned DEF Planned
<1>2. Need[j] = look(j)
  <2> HIDE DEF look
  <2> QED
    BY <1>1
<1> QED
  BY <1>2

\* Every look needs some requests of every class.
LEMMA NeedIsPositive == \A j \in 1..MaxLooks, c \in Classes : Need[j][c] \in Nat \ {0}
<1> DEFINE Bad == {j \in 1..MaxLooks : \E c \in Classes : Need[j][c] \notin Nat \ {0}}
<1> SUFFICES ASSUME Bad # {} PROVE FALSE
  OBVIOUS
<1>1. Bad \subseteq Nat
  OBVIOUS
<1>2. PICK j \in Bad : \A y \in Bad : j <= y
  <2> HIDE DEF Bad
  <2> QED
    BY <1>1, LeastOf
<1>3. PICK c \in Classes : Need[j][c] \notin Nat \ {0}
  BY <1>2
<1>4. Need[j][c] = IF j = 1 THEN Required(c, 0)
                   ELSE Larger(Required(c, j - 1), Need[j - 1][c] + 1)
  BY NeedOf
<1>5. \A b \in 0..MaxLooks : Required(c, b) \in Nat \ {0}
  BY PlanAssumption DEF Required
<1>6. MaxLooks \in Nat
  BY PlanAssumption
<1>7. CASE j = 1
  BY <1>3, <1>4, <1>5, <1>6, <1>7
<1>8. CASE j # 1
  <2>1. j - 1 \in 1..MaxLooks /\ j - 1 \notin Bad
    BY <1>2, <1>6, <1>8
  <2>2. Need[j - 1][c] \in Nat \ {0}
    BY <2>1
  <2>3. Required(c, j - 1) \in Nat \ {0}
    BY <1>5, <2>1, <1>6
  <2> QED
    BY <1>3, <1>4, <1>8, <2>2, <2>3 DEF Larger
<1> QED
  BY <1>7, <1>8

\* A later look needs no less than an earlier one.
LEMMA NeedGrows ==
    ASSUME NEW c \in Classes, NEW k \in 1..MaxLooks
    PROVE  \A j \in 1..k : Need[j][c] <= Need[k][c]
<1> DEFINE Bad == {n \in 1..MaxLooks : \E j \in 1..n : ~(Need[j][c] <= Need[n][c])}
<1> SUFFICES ASSUME Bad # {} PROVE FALSE
  OBVIOUS
<1>0. MaxLooks \in Nat
  BY PlanAssumption
<1>1. Bad \subseteq Nat
  OBVIOUS
<1>2. PICK n \in Bad : \A y \in Bad : n <= y
  <2> HIDE DEF Bad
  <2> QED
    BY <1>1, LeastOf
<1>3. PICK j \in 1..n : ~(Need[j][c] <= Need[n][c])
  BY <1>2
<1>4. /\ j \in 1..MaxLooks
      /\ Need[n][c] \in Nat /\ Need[j][c] \in Nat
  BY NeedIsPositive, <1>0
<1>5. j < n
  BY <1>3, <1>4
<1>6. n - 1 \in 1..MaxLooks /\ n - 1 \notin Bad /\ j \in 1..n - 1 /\ n # 1
  BY <1>0, <1>2, <1>5
<1>7. Need[j][c] <= Need[n - 1][c] /\ Need[n - 1][c] \in Nat
  BY <1>6, NeedIsPositive
<1>8. Need[n][c] = Larger(Required(c, n - 1), Need[n - 1][c] + 1)
  BY <1>6, NeedOf
<1>9. Required(c, n - 1) \in Nat
  BY <1>0, <1>6, PlanAssumption DEF Required
<1> QED
  BY <1>3, <1>4, <1>7, <1>8, <1>9 DEF Larger

-----------------------------------------------------------------------------
(* The data of a candidate and the looks taken at it.                      *)

LEMMA Counted ==
    ASSUME NEW I, IsFiniteSet(I), NEW c
    PROVE  /\ IsFiniteSet(Of(c, I)) /\ IsFiniteSet(BadIn(I))
           /\ Size(I) \in Nat /\ Share(c, I) \in Nat /\ Size(BadIn(I)) \in Nat
<1>1. IsFiniteSet(Of(c, I)) /\ IsFiniteSet(BadIn(I))
  BY FS_Subset DEF Of, BadIn
<1> QED
  BY <1>1, FS_CardinalityType DEF Size, Share

LEMMA VerdictsAreThree ==
    ASSUME NEW I, NEW cs
    PROVE  VerdictOn(I, cs) \in Verdicts
  BY DEF VerdictOn, Combine, Verdicts

\* The looks that are due are the next ones, without a gap.
LEMMA DueIsNext ==
    ASSUME TypeOK
    PROVE  /\ Size(Due) \in 0..MaxLooks - looks_used
           /\ Due = looks_used + 1..looks_used + Size(Due)
<1>0. MaxLooks \in Nat /\ looks_used \in 0..MaxLooks
  BY PlanAssumption DEF TypeOK
<1>1. ASSUME NEW k \in Due, NEW j \in looks_used + 1..k PROVE j \in Due
  <2>0. k \in looks_used + 1..MaxLooks /\ j \in looks_used + 1..MaxLooks
    BY <1>0, <1>1 DEF Due
  <2>1. SUFFICES ASSUME NEW c \in Classes PROVE Share(c, Everything) >= Need[j][c]
    BY <2>0 DEF Due
  <2>2. Need[j][c] <= Need[k][c] /\ Need[j][c] \in Nat /\ Need[k][c] \in Nat
    BY <1>0, <2>0, NeedGrows, NeedIsPositive
  <2>3. Share(c, Everything) >= Need[k][c]
    BY <1>1 DEF Due
  <2>4. Share(c, Everything) \in Nat
    <3>1. IsFiniteSet(Everything)
      BY FS_Interval DEF TypeOK, Everything
    <3> QED
      BY <3>1, Counted
  <2> QED
    BY <2>2, <2>3, <2>4
<1> DEFINE Rest == (looks_used + 1..MaxLooks + 1) \ Due
<1>2. MaxLooks + 1 \in Rest /\ Rest \subseteq Nat
  BY <1>0 DEF Due
<1>3. PICK n \in Rest : \A y \in Rest : n <= y
  <2> HIDE DEF Rest
  <2> QED
    BY <1>2, LeastOf
<1>4. n \in looks_used + 1..MaxLooks + 1 /\ n \notin Due
  BY <1>3
<1>5. \A j \in looks_used + 1..n - 1 : j \in Due
  BY <1>0, <1>3, <1>4
<1>6. \A k \in Due : k < n
  BY <1>0, <1>1, <1>4 DEF Due
<1>7. Due = looks_used + 1..n - 1
  <2>1. \A k \in Due : k \in Int /\ k >= looks_used + 1
    BY <1>0 DEF Due
  <2>2. Due \subseteq looks_used + 1..n - 1
    BY <1>0, <1>4, <1>6, <2>1
  <2>3. looks_used + 1..n - 1 \subseteq Due
    BY <1>5
  <2> QED
    BY <2>2, <2>3
<1>8. Size(Due) = n - 1 - looks_used
  <2>1. Cardinality(looks_used + 1..n - 1)
          = IF looks_used + 1 > n - 1 THEN 0 ELSE (n - 1) - (looks_used + 1) + 1
    BY <1>0, <1>4, FS_Interval
  <2> QED
    BY <1>0, <1>4, <1>7, <2>1 DEF Size
<1> QED
  BY <1>0, <1>4, <1>7, <1>8

\* The looks taken, and what they say: all that Judge decides with.
LEMMA TakenType ==
    ASSUME TypeOK
    PROVE  /\ Taken \in looks_used..MaxLooks
           /\ PassAt(Taken) \in 0..Taken
           /\ Decisive # {} /\ passed_look = 0 =>
                 Taken \in Decisive /\ \A j \in Decisive : Taken <= j
<1>0. /\ MaxLooks \in Nat /\ looks_used \in 0..MaxLooks
      /\ passed_look \in 0..looks_used
  BY PlanAssumption DEF TypeOK
<1>1. Decisive \subseteq looks_used + 1..MaxLooks
  BY DEF Decisive, Due
<1>2. CASE passed_look # 0
  BY <1>0, <1>2 DEF Taken, PassAt
<1>3. CASE passed_look = 0 /\ Decisive # {}
  <2>1. Decisive \subseteq Nat
    BY <1>0, <1>1
  <2>2. Taken \in Decisive /\ \A j \in Decisive : Taken <= j
    BY <1>3, <2>1, LeastOf DEF Taken
  <2> QED
    BY <1>0, <1>1, <1>3, <2>2 DEF PassAt
<1>4. CASE passed_look = 0 /\ Decisive = {}
  <2>1. Taken = looks_used + Size(Due)
    BY <1>4 DEF Taken
  <2>2. PassAt(Taken) = 0
    BY <1>4 DEF PassAt
  <2> QED
    BY <1>0, <1>4, <2>1, <2>2, DueIsNext
<1> QED
  BY <1>2, <1>3, <1>4

LEMMA StopsAreNamed ==
    ASSUME NEW k, NEW p
    PROVE  StopReason(k, p) \in (Stops \ {"provider_state_invalid", "not_tested"}) \cup {"none"}
  BY DEF StopReason, CapReason, Stops

LEMMA Joined ==
    ASSUME NEW S, NEW s \in Seq(S), NEW t \in Seq(S)
    PROVE  /\ s \o t \in Seq(S)
           /\ Len(s \o t) = Len(s) + Len(t)
           /\ \A i \in 1..Len(s) : (s \o t)[i] = s[i]
  OBVIOUS

\* The state of a candidate is well formed, whatever it measures.
THEOREM TypeCorrect == Spec => []TypeOK
<1>1. Init => TypeOK
  <2>1. <<>> \in Seq(Requests) /\ Len(<<>>) = 0
    OBVIOUS
  <2>2. Init => elapsed \in Nat
    BY CandidateAssumption DEF Init
  <2>3. Init => stream \in Seq(Requests) /\ latest \in 0..Len(stream)
    BY <2>1 DEF Init
  <2>4. Init => /\ looks_used \in 0..MaxLooks /\ passed_look \in 0..looks_used
                /\ retries \in 0..1 /\ {reps, tests} \subseteq Nat
    BY PlanAssumption DEF Init
  <2> QED
    BY <2>2, <2>3, <2>4 DEF Init, TypeOK, Pcs, Verdicts
<1>2. TypeOK /\ [Next]_vars => TypeOK'
  <2> SUFFICES ASSUME TypeOK, [Next]_vars PROVE TypeOK'
    OBVIOUS
  <2>0. \A r \in Stops, s \in Statuses : Finish(r, s) =>
           /\ pc' = "done" /\ reason' \in Stops /\ verdict' \in Verdicts /\ status' \in Statuses
           /\ verdict' # "none"
    BY DEF Finish, VerdictOf, Verdicts
  <2> USE DEF data, looks, result
  <2>1. CASE RecoverFirst
    BY <2>0, <2>1 DEF RecoverFirst, TypeOK, Pcs, Stops, Statuses
  <2>2. CASE CheckCaps
    BY <2>0, <2>2 DEF CheckCaps, TypeOK, Pcs, Stops
  <2>3. CASE Measure
    <3>1. PICK n \in RepSizes, d \in Drains, fault \in BOOLEAN, slow \in BOOLEAN :
             \E rows \in [1..n -> Requests] :
                /\ stream' = stream \o rows
                /\ latest' = Len(stream)
                /\ reps' = reps + 1
                /\ elapsed' = elapsed + PerRep + d
                /\ limited' = (limited \/ (fault /\ ~ClosedLoop))
                /\ low' = slow
                /\ IF fault /\ ClosedLoop
                   THEN Finish("provider_state_invalid", "invalid")
                   ELSE pc' = "judge" /\ UNCHANGED result
      BY <2>3 DEF Measure
    <3>2. PICK rows \in [1..n -> Requests] : stream' = stream \o rows
      BY <3>1
    <3>3. n \in Nat /\ d \in Nat /\ PerRep \in Nat
      BY CandidateAssumption DEF PerRep
    <3>4. stream' \in Seq(Requests) /\ latest' \in 0..Len(stream')
      <4>1. rows \in Seq(Requests) /\ Len(rows) = n /\ stream \in Seq(Requests)
        BY <3>2, <3>3 DEF TypeOK
      <4>2. stream' \in Seq(Requests) /\ Len(stream') = Len(stream) + Len(rows)
        BY <3>2, <4>1, Joined
      <4> QED
        BY <3>1, <3>3, <4>1, <4>2
    <3>5. {reps', elapsed'} \subseteq Nat /\ {limited', low'} \subseteq BOOLEAN
      BY <3>1, <3>3 DEF TypeOK
    <3>6. /\ pc' \in Pcs /\ status' \in Statuses
          /\ verdict' \in Verdicts \cup {"none"} /\ reason' \in Stops \cup {"none"}
          /\ pc' = "done" <=> verdict' # "none"
      BY <2>0, <2>3, <3>1 DEF Measure, TypeOK, Pcs, Stops, Statuses
    <3> QED
      BY <2>3, <3>4, <3>5, <3>6 DEF Measure, TypeOK
  <2>4. CASE BeginRestart
    BY <2>4 DEF BeginRestart, TypeOK, Pcs
  <2>5. CASE Restart
    <3>1. <<>> \in Seq(Requests) /\ Len(<<>>) = 0
      OBVIOUS
    <3>2. /\ pc' \in Pcs /\ status' \in Statuses
          /\ verdict' \in Verdicts \cup {"none"} /\ reason' \in Stops \cup {"none"}
          /\ pc' = "done" <=> verdict' # "none"
      BY <2>0, <2>5 DEF Restart, TypeOK, Pcs, Stops, Statuses
    <3>3. looks_used' \in 0..MaxLooks /\ passed_look' \in 0..looks_used' /\ tests' \in Nat
      BY <2>5, PlanAssumption DEF Restart, FreshLooks, TypeOK
    <3>4. stream' \in Seq(Requests) /\ latest' \in 0..Len(stream')
      BY <2>5, <3>1 DEF Restart
    <3>5. reps' \in Nat /\ elapsed' \in Nat /\ limited' \in BOOLEAN /\ low' \in BOOLEAN
          /\ retries' \in 0..1
      BY <2>5 DEF Restart, TypeOK
    <3> QED
      BY <3>2, <3>3, <3>4, <3>5 DEF TypeOK
  <2>6. CASE Judge
    <3>1. /\ looks_used' = Taken /\ passed_look' = PassAt(Taken)
          /\ tests' = tests + (Taken - looks_used)
      BY <2>6 DEF Judge
    <3>2. looks_used' \in 0..MaxLooks /\ passed_look' \in 0..looks_used' /\ tests' \in Nat
      BY <3>1, TakenType, PlanAssumption DEF TypeOK
    <3>3. \A r : JudgedStatus(r) \in Statuses
      BY DEF JudgedStatus, Reproduced, Unsteady, Statuses, TypeOK
    <3>4. /\ pc' \in Pcs /\ status' \in Statuses
          /\ verdict' \in Verdicts \cup {"none"} /\ reason' \in Stops \cup {"none"}
          /\ pc' = "done" <=> verdict' # "none"
      BY <2>0, <2>6, <3>3, StopsAreNamed DEF Judge, TypeOK, Pcs
    <3> QED
      BY <2>6, <3>2, <3>4 DEF Judge, TypeOK
  <2>7. CASE Done \/ UNCHANGED vars
    BY <2>7 DEF Done, vars, TypeOK
  <2> QED
    BY <2>1, <2>2, <2>3, <2>4, <2>5, <2>6, <2>7 DEF Next
<1> QED
  BY <1>1, <1>2, PTL DEF Spec

(***************************************************************************)
(* The candidate implements its contract: it settles once, as CandidateContract *)
(* allows, and every other step leaves validity and result alone.          *)
(***************************************************************************)
LEMMA SameWords ==
    /\ Contract!Statuses = Statuses /\ Contract!Verdicts = Verdicts /\ Contract!Stops = Stops
    /\ \A s, t, v, r : Settles(s, t, v, r) <=> Contract!Settles(s, t, v, r)
<1>1. Contract!Statuses = Statuses /\ Contract!Verdicts = Verdicts /\ Contract!Stops = Stops
  BY DEF Contract!Statuses, Statuses, Contract!Verdicts, Verdicts, Contract!Stops, Stops
<1>2. Contract!Accepted = Accepted
  BY DEF Contract!Accepted, Accepted
<1>3. \A s : Contract!Unsteady(s) = Unsteady(s) /\ Contract!Reproduced(s) = Reproduced(s)
  BY DEF Contract!Unsteady, Unsteady, Contract!Reproduced, Reproduced
<1> QED
  BY <1>1, <1>2, <1>3 DEF Settles, Contract!Settles

\* Testing a candidate settles exactly as the subject relies on.
THEOREM KeepsContract == Spec => ContractSpec
<1>1. Init => Contract!Init
  BY SameWords DEF Init, Contract!Init
<1>2. TypeOK /\ TypeOK' /\ [Next]_vars => [Contract!Next]_(Contract!vars)
  <2> SUFFICES ASSUME TypeOK, TypeOK', [Next]_vars, ~UNCHANGED result PROVE Contract!Settle
    BY DEF Contract!Next, Contract!vars, result
  <2>0. ASSUME NEW r \in Stops \ {"not_tested"}, NEW s,
               Finish(r, s), pc # "done", Settles(status, s, VerdictOf(r), r)
        PROVE  Contract!Settle
    <3>1. verdict = "none" /\ status' \in Statuses /\ verdict' # "none"
      BY <2>0 DEF TypeOK, Finish
    <3>2. status' = s /\ verdict' = VerdictOf(r) /\ reason' = r /\ VerdictOf(r) \in Verdicts
      BY <2>0 DEF Finish, VerdictOf, Verdicts
    <3> QED
      BY <2>0, <3>1, <3>2, SameWords DEF Contract!Settle
  <2>1. CASE RecoverFirst
    <3>1. Finish("provider_state_invalid", "invalid") /\ pc # "done"
      BY <2>1 DEF RecoverFirst
    <3> QED
      BY <2>0, <3>1 DEF Settles, Stops, VerdictOf
  <2>2. CASE CheckCaps
    <3>1. Finish("unreachable_within_caps", status) /\ pc # "done"
      BY <2>2 DEF CheckCaps
    <3> QED
      BY <2>0, <3>1 DEF Settles, Stops, VerdictOf
  <2>3. CASE Measure
    <3>1. Finish("provider_state_invalid", "invalid") /\ pc # "done"
      BY <2>3 DEF Measure
    <3> QED
      BY <2>0, <3>1 DEF Settles, Stops, VerdictOf
  <2>4. CASE BeginRestart \/ Done
    BY <2>4 DEF BeginRestart, Done, vars, result
  <2>5. CASE Restart
    <3>1. Finish("provider_state_invalid", "invalid") /\ pc # "done"
      BY <2>5 DEF Restart
    <3> QED
      BY <2>0, <3>1 DEF Settles, Stops, VerdictOf
  <2>6. CASE Judge
    <3>1. PICK r \in Stops \ {"provider_state_invalid", "not_tested"} : Finish(r, JudgedStatus(r))
      BY <2>6, StopsAreNamed DEF Judge
    <3>2. Settles(status, JudgedStatus(r), VerdictOf(r), r)
      BY <3>1 DEF Settles, JudgedStatus, VerdictOf
    <3> QED
      BY <2>0, <2>6, <3>1, <3>2 DEF Judge
  <2> QED
    BY <2>1, <2>2, <2>3, <2>4, <2>5, <2>6 DEF Next, vars, result
<1> QED
  BY <1>1, <1>2, TypeCorrect, PTL DEF Spec, ContractSpec, Contract!Spec

(***************************************************************************)
(* LooksStandAsTaken: a look that had reached its counts reads the same    *)
(* requests for ever, and the looks taken before a candidate is settled    *)
(* were all undecided, or the last one is the retained PASS.               *)
(***************************************************************************)
Reached(j) == \A c \in Classes : Share(c, Everything) >= Need[j][c]

\* Load that arrives after a look was reached is not part of its sample.
LEMMA SampleStands ==
    ASSUME NEW rows \in Seq(Requests), stream \in Seq(Requests), stream' = stream \o rows,
           NEW j \in 1..MaxLooks, Reached(j)
    PROVE  /\ Sample(j)' = Sample(j)
           /\ \A c \in Classes : Of(c, Sample(j))' = Of(c, Sample(j))
           /\ \A c \in Classes : BadIn(Of(c, Sample(j)))' = BadIn(Of(c, Sample(j)))
           /\ Reached(j)'
<1> DEFINE n == Len(stream)
<1>1. /\ n \in Nat /\ Len(stream') \in Nat /\ n <= Len(stream')
      /\ \A i \in 1..n : stream'[i] = stream[i]
      /\ \A i \in 1..Len(stream') : stream'[i] \in Requests
  <2>1. stream' \in Seq(Requests) /\ Len(stream') = n + Len(rows)
        /\ \A i \in 1..n : stream'[i] = stream[i]
    BY Joined
  <2> QED
    BY <2>1
<1> HIDE DEF n
<1>2. \A c, I : I \subseteq 1..n => Of(c, I)' = Of(c, I) /\ BadIn(I)' = BadIn(I)
  BY <1>1 DEF Of, BadIn
<1>3. Everything = 1..n /\ Everything' = 1..Len(stream')
  BY DEF Everything, n
<1>4. \A c \in Classes : Need[j][c] \in Nat
  BY NeedIsPositive
<1>5. ASSUME NEW i \in 1..Len(stream')
      PROVE  /\ i \in 1..n => Share(stream[i].class, 1..i)' = Share(stream[i].class, 1..i)
             /\ i \notin 1..n => ~(Share(stream[i].class, 1..i)' <= Need[j][stream'[i].class])
  <2>1. CASE i \in 1..n
    <3>1. 1..i \subseteq 1..n /\ stream'[i] = stream[i]
      BY <1>1, <2>1
    <3> QED
      BY <1>2, <2>1, <3>1 DEF Share, Size
  <2>2. CASE i \notin 1..n
    <3> DEFINE c == stream'[i].class
               old == Of(c, 1..n)
               all == {x \in 1..i : stream'[x].class = stream'[i].class}
    <3>1. c \in Classes
      BY <1>1 DEF Requests
    <3>2. IsFiniteSet(1..n) /\ IsFiniteSet(1..i)
      BY <1>1, FS_Interval
    <3>3. IsFiniteSet(old) /\ Cardinality(old) \in Nat /\ Cardinality(old) >= Need[j][c]
      <4>1. Cardinality(old) >= Need[j][c]
        BY <1>3, <3>1 DEF Reached, Share, Size
      <4> QED
        BY <3>2, <4>1, Counted DEF Share, Size
    <3>4. old \cup {i} \subseteq all
      BY <1>1, <2>2 DEF Of
    <3>5. IsFiniteSet(all) /\ Cardinality(all) \in Nat
      <4>1. all \subseteq 1..i
        OBVIOUS
      <4> QED
        BY <3>2, <4>1, FS_Subset, FS_CardinalityType
    <3>6. i \notin old
      BY <2>2 DEF Of
    <3> HIDE DEF old, all
    <3>7. Cardinality(old \cup {i}) = Cardinality(old) + 1
      BY <3>3, <3>6, FS_AddElement
    <3>8. Cardinality(old \cup {i}) <= Cardinality(all)
      BY <3>4, <3>5, FS_Subset
    <3>9. Cardinality(all) > Need[j][c]
      BY <1>4, <3>1, <3>3, <3>5, <3>7, <3>8
    <3>10. Share(stream[i].class, 1..i)' = Cardinality(all)
      BY DEF Share, Size, Of, all
    <3> QED
      BY <1>4, <2>2, <3>1, <3>5, <3>9, <3>10
  <2> QED
    BY <2>1, <2>2
<1>6. Sample(j)' = Sample(j)
  <2>1. Sample(j)' = {i \in 1..Len(stream') : Share(stream[i].class, 1..i)' <= Need[j][stream'[i].class]}
    BY <1>3 DEF Sample
  <2>2. Sample(j) = {i \in 1..n : Share(stream[i].class, 1..i) <= Need[j][stream[i].class]}
    BY <1>3 DEF Sample
  <2> DEFINE Early(i) == Share(stream[i].class, 1..i) <= Need[j][stream[i].class]
             Still(i) == Share(stream[i].class, 1..i)' <= Need[j][stream'[i].class]
  <2>3. \A i \in 1..n : i \in 1..Len(stream')
    BY <1>1
  <2>4. \A i \in 1..n : Still(i) <=> Early(i)
    BY <1>1, <1>5, <2>3
  <2>5. \A i \in 1..Len(stream') : Still(i) => i \in 1..n
    BY <1>5
  <2> HIDE DEF Early, Still
  <2>6. {i \in 1..Len(stream') : Still(i)} = {i \in 1..n : Early(i)}
    BY <2>3, <2>4, <2>5
  <2> QED
    BY <2>1, <2>2, <2>6 DEF Early, Still
<1>7. Sample(j) \subseteq 1..n /\ \A c : Of(c, Sample(j)) \subseteq 1..n
  BY <1>3 DEF Sample, Of
<1>8. Reached(j)'
  <2> SUFFICES ASSUME NEW c \in Classes PROVE Share(c, Everything)' >= Need[j][c]
    BY DEF Reached
  <2>1. IsFiniteSet(1..n) /\ IsFiniteSet(1..Len(stream'))
    BY <1>1, FS_Interval
  <2>2. Of(c, Everything) \subseteq Of(c, Everything)'
    BY <1>1, <1>3 DEF Of
  <2>3. IsFiniteSet(Of(c, Everything)') /\ Cardinality(Of(c, Everything)') \in Nat
    <3>1. Of(c, Everything)' \subseteq 1..Len(stream')
      BY <1>3 DEF Of
    <3> QED
      BY <2>1, <3>1, FS_Subset, FS_CardinalityType
  <2>4. Share(c, Everything) \in Nat
    BY <1>3, <2>1, Counted
  <2>5. Share(c, Everything) <= Share(c, Everything)'
    BY <2>2, <2>3, FS_Subset DEF Share, Size
  <2>6. Share(c, Everything)' \in Nat
    BY <2>3 DEF Share, Size
  <2> QED
    BY <1>4, <2>4, <2>5, <2>6 DEF Reached
<1> QED
  BY <1>2, <1>6, <1>7, <1>8

LEMMA VerdictStands ==
    ASSUME NEW rows \in Seq(Requests), stream \in Seq(Requests), stream' = stream \o rows,
           NEW j \in 1..MaxLooks, Reached(j), limited' = limited
    PROVE  LookVerdict(j)' = LookVerdict(j)
<1>1. \A c \in Classes : /\ Share(c, Sample(j))' = Share(c, Sample(j))
                         /\ Size(BadIn(Of(c, Sample(j))))' = Size(BadIn(Of(c, Sample(j))))
  BY SampleStands DEF Share, Size
<1>2. \A c \in Classes :
         ClassVerdict(c, Share(c, Sample(j)), Size(BadIn(Of(c, Sample(j)))))'
            = ClassVerdict(c, Share(c, Sample(j)), Size(BadIn(Of(c, Sample(j)))))
  BY <1>1 DEF ClassVerdict, Beyond, Within
<1>3. {ClassVerdict(c, Share(c, Sample(j)), Size(BadIn(Of(c, Sample(j))))) : c \in Classes}'
         = {ClassVerdict(c, Share(c, Sample(j)), Size(BadIn(Of(c, Sample(j))))) : c \in Classes}
  BY <1>2
<1> QED
  BY <1>3 DEF LookVerdict, VerdictOn

\* What is known of the first k looks: none of them has decided yet.
Undecided(k) == \A j \in 1..k : limited \/ LookVerdict(j) = "INCONCLUSIVE"

LooksSoFar ==
    /\ \A k \in 1..looks_used : Reached(k)
    /\ Undecided(looks_used - 1)
    /\ passed_look # 0 => passed_look = looks_used /\ (limited \/ LookVerdict(passed_look) = "PASS")
    /\ pc # "done" /\ passed_look = 0 => Undecided(looks_used)

LooksInv ==
    /\ pc # "done" => reason = "none"
    /\ reason # "provider_state_invalid" => LooksSoFar

\* The looks that Judge takes leave the earlier ones undecided.
LEMMA JudgeTakes ==
    ASSUME TypeOK, LooksInv, pc # "done"
    PROVE  /\ \A k \in 1..Taken : Reached(k)
           /\ Undecided(Taken - 1)
           /\ PassAt(Taken) # 0 => /\ PassAt(Taken) = Taken
                                   /\ limited \/ LookVerdict(PassAt(Taken)) = "PASS"
           /\ PassAt(Taken) = 0 /\ ~FailAt(Taken) => Undecided(Taken)
<1>0. /\ MaxLooks \in Nat /\ looks_used \in 0..MaxLooks
      /\ passed_look \in 0..looks_used /\ Taken \in looks_used..MaxLooks
  BY PlanAssumption, TakenType DEF TypeOK
<1>1. CASE passed_look # 0
  BY <1>0, <1>1 DEF LooksInv, LooksSoFar, Taken, PassAt
<1>2. CASE passed_look = 0
  <2>0. Due = looks_used + 1..looks_used + Size(Due) /\ Size(Due) \in 0..MaxLooks - looks_used
    BY DueIsNext
  <2>1. Taken \in Nat /\ \A k \in looks_used + 1..Taken : k \in Due
    <3>1. CASE Decisive # {}
      <4>1. Taken \in Due
        BY <1>2, <3>1, TakenType DEF Decisive
      <4> QED
        BY <1>0, <2>0, <4>1
    <3>2. CASE Decisive = {}
      <4>1. Taken = looks_used + Size(Due)
        BY <1>2, <3>2 DEF Taken
      <4> QED
        BY <1>0, <2>0, <4>1
    <3> QED
      BY <3>1, <3>2
  <2>2. \A k \in 1..Taken : Reached(k)
    <3>1. \A k \in 1..Taken : k \in 1..looks_used \/ k \in looks_used + 1..Taken
      BY <1>0
    <3>2. \A k \in Due : Reached(k)
      BY DEF Due, Reached
    <3> QED
      BY <2>1, <3>1, <3>2 DEF LooksInv, LooksSoFar
  <2>3. ASSUME NEW k \in 1..Taken, k \notin Decisive
        PROVE  limited \/ LookVerdict(k) = "INCONCLUSIVE"
    <3>1. CASE k \in 1..looks_used
      BY <1>2, <3>1 DEF LooksInv, LooksSoFar, Undecided
    <3>2. CASE k \in looks_used + 1..Taken
      BY <2>1, <2>3, <3>2 DEF Decisive
    <3> QED
      BY <1>0, <3>1, <3>2
  <2>4. \A k \in Decisive : k >= Taken
    <3>1. \A k \in Decisive : k \in Nat
      BY <1>0 DEF Decisive, Due
    <3> QED
      BY <1>0, <1>2, <3>1, TakenType
  <2>5. Undecided(Taken - 1)
    <3> SUFFICES ASSUME NEW k \in 1..Taken - 1 PROVE limited \/ LookVerdict(k) = "INCONCLUSIVE"
      BY DEF Undecided
    <3>1. k \in 1..Taken /\ k \notin Decisive
      BY <2>1, <2>4
    <3> QED
      BY <2>3, <3>1
  <2>6. PassAt(Taken) # 0 => /\ PassAt(Taken) = Taken
                             /\ LookVerdict(PassAt(Taken)) = "PASS"
    BY <1>2 DEF PassAt
  <2>7. ASSUME PassAt(Taken) = 0, ~FailAt(Taken) PROVE Undecided(Taken)
    <3>1. Taken \notin Decisive
      <4>1. Taken \in Decisive => LookVerdict(Taken) \in {"PASS", "FAIL"}
        BY VerdictsAreThree DEF Decisive, LookVerdict, Verdicts
      <4>2. Taken \in Decisive => Taken # 0
        BY <1>0 DEF Decisive, Due
      <4> QED
        BY <1>2, <2>7, <4>1, <4>2 DEF PassAt, FailAt
    <3>2. \A k \in 1..Taken : k \notin Decisive
      BY <2>1, <2>4, <3>1
    <3> QED
      BY <2>3, <3>2 DEF Undecided
  <2> QED
    BY <2>2, <2>5, <2>6, <2>7
<1> QED
  BY <1>1, <1>2

LEMMA LooksInductive == TypeOK /\ TypeOK' /\ LooksInv /\ [Next]_vars => LooksInv'
<1> SUFFICES ASSUME TypeOK, TypeOK', LooksInv, [Next]_vars PROVE LooksInv'
  OBVIOUS
<1>0. /\ MaxLooks \in Nat /\ looks_used \in 0..MaxLooks /\ passed_look \in 0..looks_used
      /\ stream \in Seq(Requests)
  BY PlanAssumption DEF TypeOK
<1> USE DEF data, looks, result
<1>a. pc' # "done" => reason' = "none"
  BY DEF LooksInv, Next, vars, RecoverFirst, CheckCaps, Measure, BeginRestart, Restart, Judge, Done,
         Finish
<1> SUFFICES ASSUME reason' # "provider_state_invalid" PROVE LooksSoFar'
  BY <1>a DEF LooksInv
<1>1. ASSUME UNCHANGED <<stream, limited, looks_used, passed_look>>,
             reason # "provider_state_invalid", pc' # "done" => pc # "done"
      PROVE  LooksSoFar'
  <2>1. \A j : (Reached(j)' <=> Reached(j)) /\ LookVerdict(j)' = LookVerdict(j)
    BY <1>1 DEF Reached, Share, Size, Of, Everything, LookVerdict, VerdictOn, Sample, BadIn,
               ClassVerdict, Beyond, Within
  <2> QED
    BY <1>1, <2>1 DEF LooksInv, LooksSoFar, Undecided
<1>2. CASE RecoverFirst \/ CheckCaps
  BY <1>1, <1>2 DEF RecoverFirst, CheckCaps, LooksInv
<1>3. CASE BeginRestart \/ Done \/ UNCHANGED vars
  BY <1>1, <1>3 DEF BeginRestart, Done, vars
<1>4. CASE Measure
  <2>1. PICK n \in RepSizes : \E rows \in [1..n -> Requests] : stream' = stream \o rows
    BY <1>4 DEF Measure
  <2>2. PICK rows \in [1..n -> Requests] : stream' = stream \o rows
    BY <2>1
  <2>3. rows \in Seq(Requests)
    BY CandidateAssumption
  <2>4. /\ limited => limited'
        /\ UNCHANGED <<looks_used, passed_look>> /\ pc # "done"
        /\ reason # "provider_state_invalid"
    <3>1. limited => limited'
      BY <1>4 DEF Measure
    <3> QED
      BY <1>4, <3>1 DEF Measure, Finish
  <2>5. ASSUME NEW j \in 1..looks_used
        PROVE  Reached(j)' /\ (~limited' => LookVerdict(j)' = LookVerdict(j))
    <3>1. j \in 1..MaxLooks /\ Reached(j)
      BY <1>0, <2>4 DEF LooksInv, LooksSoFar
    <3>2. Reached(j)'
      BY <1>0, <2>2, <2>3, <3>1, SampleStands
    <3>3. ASSUME ~limited' PROVE LookVerdict(j)' = LookVerdict(j)
      <4>1. limited' = limited
        BY <2>4, <3>3 DEF TypeOK
      <4> QED
        BY <1>0, <2>2, <2>3, <3>1, <4>1, VerdictStands
    <3> QED
      BY <3>2, <3>3
  <2>7. \A j \in 1..looks_used - 1 : j \in 1..looks_used
    BY <1>0
  <2>8. passed_look # 0 => passed_look \in 1..looks_used
    BY <1>0
  <2> QED
    BY <2>4, <2>5, <2>7, <2>8 DEF LooksInv, LooksSoFar, Undecided
<1>5. CASE Restart
  <2>1. looks_used' = 0 /\ passed_look' = 0
    BY <1>5 DEF Restart, Finish, FreshLooks
  <2> QED
    BY <2>1 DEF LooksInv, LooksSoFar, Undecided
<1>6. CASE Judge
  <2>1. /\ UNCHANGED <<stream, limited>> /\ pc # "done"
        /\ looks_used' = Taken /\ passed_look' = PassAt(Taken)
        /\ reason # "provider_state_invalid"
    BY <1>6 DEF Judge, LooksInv
  <2>2. \A j : (Reached(j)' <=> Reached(j)) /\ LookVerdict(j)' = LookVerdict(j)
    BY <2>1 DEF Reached, Share, Size, Of, Everything, LookVerdict, VerdictOn, Sample, BadIn,
               ClassVerdict, Beyond, Within
  <2>3. FailAt(Taken) /\ PassAt(Taken) = 0 => pc' = "done"
    BY <1>6 DEF Judge, StopReason, Finish
  <2> QED
    BY <2>1, <2>2, <2>3, JudgeTakes DEF LooksInv, LooksSoFar, Undecided
<1> QED
  BY <1>2, <1>3, <1>4, <1>5, <1>6 DEF Next

LEMMA LooksKnown == Spec => []LooksInv
<1>1. Init => LooksInv
  BY PlanAssumption DEF Init, LooksInv, LooksSoFar, Undecided
<1> QED
  BY <1>1, LooksInductive, TypeCorrect, PTL DEF Spec

\* However much is collected after a look, and through however many repetitions
\* its PASS is retained, the look is decided on exactly the requests it had
\* reached, and every earlier one was undecided.
THEOREM LooksStand == Spec => []LooksStandAsTaken
<1>1. TypeOK /\ LooksInv => LooksStandAsTaken
  <2> SUFFICES ASSUME TypeOK, LooksInv, reason # "provider_state_invalid"
               PROVE  LooksStandAsTaken
    BY DEF LooksStandAsTaken
  <2>1. ASSUME NEW k \in 1..looks_used
        PROVE  k = looks_used \/ k \in 1..looks_used - 1
    BY PlanAssumption DEF TypeOK
  <2> QED
    BY <2>1 DEF LooksInv, LooksSoFar, LooksStandAsTaken, Undecided, Reached
<1> QED
  BY <1>1, LooksKnown, TypeCorrect, PTL

-----------------------------------------------------------------------------
(* VerdictIsEarned follows in the step that settles the candidate from what *)
(* is known of its looks, and stays because nothing is measured afterwards.*)

LEMMA SameData ==
    ASSUME UNCHANGED data
    PROVE  /\ Everything' = Everything /\ Severe(Everything)' = Severe(Everything)
           /\ \A j : LookVerdict(j)' = LookVerdict(j) /\ PostLook(j)' = PostLook(j)
           /\ \A c, I : Of(c, I)' = Of(c, I) /\ BadIn(I)' = BadIn(I)
           /\ \A I : Against(I)' = Against(I) /\ Severe(I)' = Severe(I)
           /\ Window' = Window /\ limited' = limited
  BY DEF data, Everything, Severe, Heavy, LookVerdict, VerdictOn, Sample, PostLook, Of, BadIn, Share,
         Size, ClassVerdict, Beyond, Within, Against, Window

\* The classes that are there fail together exactly when one of them does.
LEMMA PresentFail ==
    ASSUME NEW I, ~limited
    PROVE  VerdictOn(I, Present(I)) = "FAIL" <=> Against(I)
<1> DEFINE verdicts == {ClassVerdict(c, Share(c, I), Size(BadIn(Of(c, I)))) : c \in Present(I)}
<1>1. VerdictOn(I, Present(I)) = Combine(verdicts)
  BY DEF VerdictOn
<1>2. Combine(verdicts) = "FAIL" <=> "FAIL" \in verdicts
  BY DEF Combine
<1>3. "FAIL" \in verdicts <=> Against(I)
  BY DEF Against, Present
<1> QED
  BY <1>1, <1>2, <1>3

\* A retained PASS that nothing vetoes has nothing against it.
LEMMA NothingAgainst ==
    ASSUME TypeOK, NEW p \in 1..MaxLooks, Reached(p), ~Vetoed(p)
    PROVE  ~limited /\ ~Severe(Everything) /\ ~Against(PostLook(p))
<1>1. Everything # {}
  <2>1. PICK c \in Classes : TRUE
    BY PlanAssumption
  <2>2. Need[p][c] \in Nat \ {0} /\ Share(c, Everything) >= Need[p][c]
    BY NeedIsPositive DEF Reached
  <2>3. Everything = {} => Share(c, Everything) = 0
    BY FS_EmptySet DEF Share, Size, Of
  <2> QED
    BY <2>2, <2>3
<1>2. ~Vetoes(Everything) /\ ~Vetoes(PostLook(p))
  BY DEF Vetoed
<1>3. ~limited /\ ~Severe(Everything)
  BY <1>1, <1>2 DEF Vetoes, VerdictOn
<1>4. CASE PostLook(p) = {}
  BY <1>3, <1>4 DEF Against, Of
<1>5. CASE PostLook(p) # {}
  BY <1>2, <1>3, <1>5, PresentFail DEF Vetoes
<1> QED
  BY <1>3, <1>4, <1>5

\* What vetoes a PASS is there.
LEMMA VetoIsEarned ==
    ASSUME NEW p, Vetoed(p), ~limited
    PROVE  \E I \in {Everything, Window, PostLook(p)} :
               Against(I) \/ Severe(I) \/ \E c \in Classes : Severe(Of(c, I))
<1>1. PICK I \in {Everything, Window, PostLook(p)} : Vetoes(I)
  BY DEF Vetoed
<1>2. Against(I) \/ Severe(I) \/ \E c \in Classes : Severe(Of(c, I))
  BY <1>1, PresentFail DEF Vetoes, Present
<1> QED
  BY <1>2

\* A candidate is declared PASS or FAIL only for what its looks say, and vetoed
\* only for requests that are there: whatever the plan, the caps, the restart and
\* the order in which the data came.
THEOREM VerdictsAreEarned == Spec => []VerdictIsEarned
<1> DEFINE Unvetoed == pc # "done" => reason # "post_look_violation"
<1>1. Init => VerdictIsEarned /\ Unvetoed
  BY DEF Init, VerdictIsEarned
<1>2. TypeOK /\ TypeOK' /\ LooksInv /\ VerdictIsEarned /\ Unvetoed /\ [Next]_vars
      => VerdictIsEarned' /\ Unvetoed'
  <2> SUFFICES ASSUME TypeOK, TypeOK', LooksInv, VerdictIsEarned, Unvetoed, [Next]_vars
               PROVE  VerdictIsEarned' /\ Unvetoed'
    OBVIOUS
  <2>1. CASE pc = "done"
    <3>1. UNCHANGED vars
      BY <2>1 DEF Next, vars, RecoverFirst, CheckCaps, Measure, BeginRestart, Restart, Judge, Done
    <3> QED
      BY <3>1, SameData DEF vars, data, looks, result, VerdictIsEarned
  <2>2. CASE pc # "done" /\ ~Judge
    <3>1. verdict = "none"
      BY <2>2 DEF TypeOK
    <3>2. verdict' \in {"none", "INCONCLUSIVE"} /\ reason' # "post_look_violation"
      BY <2>2, <3>1
         DEF Next, vars, RecoverFirst, CheckCaps, Measure, BeginRestart, Restart, Done, result, Finish,
             VerdictOf
    <3> QED
      BY <2>2, <3>2 DEF VerdictIsEarned
  <2>3. CASE pc # "done" /\ Judge
    <3> DEFINE k == Taken
               p == PassAt(Taken)
               r == StopReason(Taken, PassAt(Taken))
    <3>1. /\ looks_used' = k /\ passed_look' = p /\ UNCHANGED data
          /\ IF r = "none" THEN UNCHANGED result ELSE Finish(r, JudgedStatus(r))
      BY <2>3 DEF Judge
    <3>2. /\ k \in 0..MaxLooks /\ p \in 0..k /\ MaxLooks \in Nat
          /\ p # 0 => p = k /\ (limited \/ LookVerdict(p) = "PASS")
          /\ Undecided(k - 1) /\ \A j \in 1..k : Reached(j)
      BY <2>3, TakenType, JudgeTakes, PlanAssumption DEF TypeOK
    <3>3. verdict' = "PASS" => r = "confirmed"
      BY <2>3, <3>1 DEF TypeOK, Finish, VerdictOf, result
    <3>4. verdict' = "FAIL" => r = "violation_demonstrated"
      BY <2>3, <3>1 DEF TypeOK, Finish, VerdictOf, result
    <3>5. r = "confirmed" => p # 0 /\ ~Vetoed(p) /\ reps * RepSeconds >= MinSeconds
      BY DEF StopReason, CapReason
    <3>6. r = "violation_demonstrated" => p = 0 /\ FailAt(k)
      BY DEF StopReason, CapReason
    <3> HIDE DEF k, p, r
    <3>7. ASSUME r = "confirmed"
          PROVE  /\ p \in 1..MaxLooks /\ ~limited /\ ~Severe(Everything)
                 /\ LookVerdict(p) = "PASS"
                 /\ \A j \in 1..p - 1 : LookVerdict(j) = "INCONCLUSIVE"
                 /\ ~Against(PostLook(p))
      <4>1. p \in 1..MaxLooks /\ p \in 1..k /\ p = k
        BY <3>2, <3>5, <3>7
      <4>2. Reached(p) /\ ~Vetoed(p)
        BY <3>2, <3>5, <3>7, <4>1
      <4> QED
        BY <3>2, <4>1, <4>2, NothingAgainst DEF Undecided
    <3>8. ASSUME r = "violation_demonstrated"
          PROVE  k \in 1..MaxLooks /\ p = 0 /\ LookVerdict(k) = "FAIL"
      <4>1. k \in Decisive /\ LookVerdict(k) = "FAIL" /\ p = 0
        BY <3>6, <3>8 DEF FailAt
      <4>2. k # 0
        BY <4>1 DEF Decisive, Due, TypeOK
      <4> QED
        BY <3>2, <4>1, <4>2
    <3>9. verdict' = "PASS" =>
          /\ passed_look' \in 1..MaxLooks
          /\ LookVerdict(passed_look)' = "PASS"
          /\ \A j \in 1..passed_look' - 1 : LookVerdict(j)' = "INCONCLUSIVE"
          /\ reps' * RepSeconds >= MinSeconds
          /\ ~Against(PostLook(passed_look))'
          /\ ~limited' /\ ~Severe(Everything)'
      BY <3>1, <3>3, <3>5, <3>7, SameData DEF data
    <3>10. reason' = "post_look_violation" => r = "post_look_violation" /\ pc' = "done"
      BY <2>3, <3>1 DEF Finish, result
    <3>11. ASSUME r = "post_look_violation"
           PROVE  /\ p \in 1..MaxLooks
                  /\ \/ limited
                     \/ \E I \in {Everything, Window, PostLook(p)} :
                           Against(I) \/ Severe(I) \/ \E c \in Classes : Severe(Of(c, I))
      <4>1. p # 0 /\ Vetoed(p)
        BY <3>11 DEF r, k, p, StopReason, CapReason
      <4>2. p \in 1..MaxLooks
        BY <3>2, <4>1
      <4> QED
        BY <4>1, <4>2, VetoIsEarned
    <3>12. reason' = "post_look_violation" =>
              /\ passed_look' \in 1..MaxLooks
              /\ \/ limited'
                 \/ \E I \in {Everything', Window', PostLook(passed_look)'} :
                       Against(I)' \/ Severe(I)' \/ \E c \in Classes : Severe(Of(c, I))'
      BY <3>1, <3>10, <3>11, SameData
    <3>13. verdict' = "FAIL" =>
              /\ looks_used' \in 1..MaxLooks
              /\ LookVerdict(looks_used)' = "FAIL"
              /\ passed_look' = 0
      BY <3>1, <3>4, <3>8, SameData
    <3> QED
      BY <3>9, <3>10, <3>12, <3>13 DEF VerdictIsEarned
  <2> QED
    BY <2>1, <2>2, <2>3
<1> QED
  BY <1>1, <1>2, LooksKnown, TypeCorrect, PTL DEF Spec

-----------------------------------------------------------------------------
(* CapsBeforeLoad: the caps are looked at before the first repetition and  *)
(* in every step that lets another one follow, except after a restart.     *)

\* The greatest of finitely many numbers, by the least number of them that
\* would have none.
LEMMA GreatestOf ==
    ASSUME NEW S \in SUBSET Nat, IsFiniteSet(S), S # {}
    PROVE  Max(S) \in S /\ \A y \in S : y <= Max(S)
<1> DEFINE Bad == {n \in Nat : \E T \in SUBSET S : /\ T # {} /\ Cardinality(T) = n
                                                  /\ \A x \in T : \E y \in T : ~(y <= x)}
<1>1. Bad = {}
  <2> SUFFICES ASSUME Bad # {} PROVE FALSE
    OBVIOUS
  <2>0. Bad \subseteq Nat
    OBVIOUS
  <2>1. PICK n \in Bad : \A m \in Bad : n <= m
    <3> HIDE DEF Bad
    <3> QED
      BY <2>0, LeastOf
  <2>2. PICK T \in SUBSET S : /\ T # {} /\ Cardinality(T) = n
                              /\ \A x \in T : \E y \in T : ~(y <= x)
    BY <2>1
  <2>3. PICK t \in T : TRUE
    BY <2>2
  <2> DEFINE U == T \ {t}
  <2>4. IsFiniteSet(T) /\ IsFiniteSet(U) /\ Cardinality(U) = n - 1 /\ Cardinality(U) \in Nat
    BY <2>2, <2>3, FS_Subset, FS_RemoveElement, FS_CardinalityType
  <2>5. U # {}
    BY <2>2, <2>3
  <2>6. PICK u \in U : \A y \in U : y <= u
    <3>1. n - 1 \notin Bad
      BY <2>0, <2>1
    <3> QED
      BY <2>4, <2>5, <3>1
  <2>7. t \in Nat /\ u \in Nat /\ T \subseteq Nat
    BY <2>2, <2>3, <2>6
  <2>8. CASE t <= u
    BY <2>2, <2>6, <2>8
  <2>9. CASE u <= t
    <3>1. \A y \in T : y <= t
      BY <2>6, <2>7, <2>9
    <3> QED
      BY <2>2, <2>3, <3>1
  <2> QED
    BY <2>7, <2>8, <2>9
<1>2. PICK x \in S : \A y \in S : y <= x
  <2>1. Cardinality(S) \notin Bad /\ Cardinality(S) \in Nat
    BY <1>1, FS_CardinalityType
  <2> QED
    BY <2>1
<1>3. \A y \in S : x >= y
  BY <1>2
<1>4. Max(S) \in S /\ \A y \in S : Max(S) >= y
  BY <1>3 DEF Max
<1> QED
  BY <1>4

Expected(j) == Max({Need[j][c] * Spread[c] : c \in Classes})

LEMMA ExpectedIsPositive == \A j \in 1..MaxLooks : Expected(j) \in Nat \ {0}
<1> SUFFICES ASSUME NEW j \in 1..MaxLooks PROVE Expected(j) \in Nat \ {0}
  OBVIOUS
<1> DEFINE f == [c \in Classes |-> Need[j][c] * Spread[c]]
           S == {Need[j][c] * Spread[c] : c \in Classes}
<1>1. \A c \in Classes : Need[j][c] * Spread[c] \in Nat \ {0}
  <2> SUFFICES ASSUME NEW c \in Classes PROVE Need[j][c] * Spread[c] \in Nat \ {0}
    OBVIOUS
  <2>1. Need[j][c] \in Nat \ {0} /\ Spread[c] \in Nat \ {0}
    BY NeedIsPositive, PlanAssumption
  <2>2. \A a, b \in Nat \ {0} : a * b \in Nat \ {0}
    OBVIOUS
  <2> QED
    BY <2>1, <2>2
<1>2. S \subseteq Nat \ {0} /\ S # {}
  BY <1>1, PlanAssumption
<1>3. IsFiniteSet(S)
  <2>1. f \in Surjection(Classes, S)
    BY DEF Surjection
  <2> QED
    BY <2>1, FS_Surjection, PlanAssumption
<1> HIDE DEF S
<1>4. Max(S) \in S
  BY <1>2, <1>3, GreatestOf
<1> QED
  BY <1>2, <1>4 DEF Expected, S

\* The totals of the first n looks.
Scheduled(g, n) ==
    g = [j \in 1..n |-> IF j = 1 THEN Expected(j) ELSE Larger(Expected(j), g[j - 1] + 1)]

LEMMA ScheduleExists == \A n \in Nat : \E g : Scheduled(g, n)
<1> DEFINE Bad == {n \in Nat : \A g : ~Scheduled(g, n)}
<1> SUFFICES ASSUME Bad # {} PROVE FALSE
  OBVIOUS
<1>0. Bad \subseteq Nat
  OBVIOUS
<1>1. PICK m \in Bad : \A n \in Bad : m <= n
  <2> HIDE DEF Bad
  <2> QED
    BY <1>0, LeastOf
<1>2. m \in Nat /\ (\A g : ~Scheduled(g, m)) /\ (\A n \in Nat : n < m => \E g : Scheduled(g, n))
  BY <1>1
<1> HIDE DEF Bad
<1>3. m # 0
  <2> SUFFICES ASSUME m = 0 PROVE FALSE
    OBVIOUS
  <2> DEFINE none == [j \in 1..0 |-> 0]
  <2>1. Scheduled(none, 0)
    BY DEF Scheduled
  <2> QED
    BY <1>2, <2>1
<1>4. PICK g : Scheduled(g, m - 1)
  BY <1>2, <1>3
<1> DEFINE look(h, j) == IF j = 1 THEN Expected(j) ELSE Larger(Expected(j), h[j - 1] + 1)
           longer == [j \in 1..m |-> IF j < m THEN g[j] ELSE look(g, j)]
<1>5. ASSUME NEW j \in 1..m PROVE longer[j] = look(longer, j)
  <2>1. j = 1 \/ (j - 1 \in 1..m /\ longer[j - 1] = g[j - 1])
    BY <1>2
  <2>2. look(longer, j) = look(g, j)
    BY <2>1
  <2>3. CASE j < m
    <3>1. j \in 1..(m - 1)
      BY <1>2, <2>3
    <3>2. g = [i \in 1..(m - 1) |-> look(g, i)]
      BY <1>4 DEF Scheduled
    <3>3. g[j] = look(g, j)
      <4> HIDE DEF look
      <4> QED
        BY <3>1, <3>2
    <3> QED
      BY <2>2, <2>3, <3>3
  <2>4. CASE ~(j < m)
    BY <2>2, <2>4
  <2> QED
    BY <2>3, <2>4
<1>6. longer = [j \in 1..m |-> look(longer, j)]
  <2> HIDE DEF look
  <2> QED
    BY <1>5
<1> QED
  BY <1>2, <1>6 DEF Scheduled

LEMMA ScheduleIsPositive == \A j \in 1..MaxLooks : Schedule[j] \in Nat \ {0}
<1> DEFINE look(j) == IF j = 1 THEN Expected(j) ELSE Larger(Expected(j), Schedule[j - 1] + 1)
           Bad == {j \in 1..MaxLooks : Schedule[j] \notin Nat \ {0}}
<1>0. MaxLooks \in Nat
  BY PlanAssumption
<1>1. Scheduled(Schedule, MaxLooks)
  <2>1. \E g : Scheduled(g, MaxLooks)
    BY <1>0, ScheduleExists
  <2> QED
    BY <2>1 DEF Schedule, Scheduled, Expected
<1>2. Schedule = [j \in 1..MaxLooks |-> look(j)]
  BY <1>1 DEF Scheduled
<1>3. \A j \in 1..MaxLooks : Schedule[j] = look(j)
  <2> HIDE DEF look
  <2> QED
    BY <1>2
<1> SUFFICES ASSUME Bad # {} PROVE FALSE
  OBVIOUS
<1>4. Bad \subseteq Nat
  OBVIOUS
<1>5. PICK j \in Bad : \A y \in Bad : j <= y
  <2> HIDE DEF Bad
  <2> QED
    BY <1>4, LeastOf
<1>6. j \in 1..MaxLooks /\ Expected(j) \in Nat \ {0} /\ Schedule[j] \notin Nat \ {0}
  BY <1>5, ExpectedIsPositive
<1>7. CASE j = 1
  BY <1>3, <1>6, <1>7
<1>8. CASE j # 1
  <2>1. j - 1 \in 1..MaxLooks /\ j - 1 \notin Bad
    BY <1>0, <1>5, <1>6, <1>8
  <2>2. Schedule[j - 1] \in Nat \ {0}
    BY <2>1
  <2> QED
    BY <1>3, <1>6, <1>8, <2>2 DEF Larger
<1> QED
  BY <1>7, <1>8

LEMMA CapsAreNumbers == RequestCap \in Nat /\ Budget \in Nat /\ PerRep \in Nat \ {0}
<1>0. /\ MaxLooks \in 1..MaxLooks /\ RepSeconds \in Nat \ {0}
      /\ {MinSeconds, Estimate, MaxRequests, MaxSeconds, WarmupSeconds} \subseteq Nat
  BY PlanAssumption, CandidateAssumption
<1>1. \A a \in Nat, b \in Nat \ {0} : Ceil(a, b) \in Nat
  BY DEF Ceil
<1>2. \A x \in Nat : Margin(x) \in Nat
  BY <1>1 DEF Margin
<1>3. \A a, b \in Nat : a * b \in Nat
  OBVIOUS
<1>4. Wanted \in Nat
  <2>1. Schedule[MaxLooks] \in Nat
    BY <1>0, ScheduleIsPositive
  <2>2. ExposureReps * Estimate \in Nat
    BY <1>0, <1>1, <1>3 DEF ExposureReps
  <2> QED
    BY <2>1, <2>2 DEF Wanted, Larger
<1>5. RequestCap \in Nat
  BY <1>0, <1>2, <1>4 DEF RequestCap
<1>6. PerRep \in Nat \ {0}
  BY <1>0 DEF PerRep
<1>7. Budget \in Nat
  <2>1. Estimate # 0 => Ceil(IF Wanted <= RequestCap THEN Wanted ELSE RequestCap, Estimate) \in Nat
    BY <1>0, <1>1, <1>4, <1>5
  <2> QED
    BY <1>0, <1>2, <1>3, <1>6, <2>1 DEF Budget
<1> QED
  BY <1>5, <1>6, <1>7

\* A first look that the caps can reach leaves time for a repetition.
LEMMA ReachableHasTime ==
    ASSUME TypeOK, Reachable
    PROVE  RequestCap >= 1 /\ Remaining >= PerRep
<1>0. /\ Schedule[1] \in Nat \ {0} /\ Estimate \in Nat \ {0} /\ MaxReps \in Nat
      /\ RequestCap \in Nat /\ Remaining \in Int /\ PerRep \in Nat \ {0}
  BY PlanAssumption, CandidateAssumption, ScheduleIsPositive, CapsAreNumbers
     DEF Reachable, Remaining, TypeOK
<1>1. MoreReps(0) \in Int /\ MoreReps(0) <= Remaining \div PerRep
  BY <1>0 DEF MoreReps
<1>2. \A a \in Nat, b \in Int : a * b >= 1 => b >= 1
  OBVIOUS
<1>3. MoreReps(0) >= 1
  BY <1>0, <1>1, <1>2 DEF Reachable
<1>4. \A a \in Int, b \in Nat \ {0} : a \div b >= 1 => a >= b
  OBVIOUS
<1>5. Remaining \div PerRep >= 1
  BY <1>0, <1>1, <1>3
<1> QED
  BY <1>0, <1>4, <1>5 DEF Reachable

CapsInv ==
    /\ pc \in {"recover", "plan"} => stream = <<>> /\ reps = 0
    /\ pc \in {"measure", "judge", "restart"} => RequestCap >= 1
    /\ retries > 0 => Recovery
    /\ pc = "restart" => retries = 0 /\ Recovery
    /\ CapsBeforeLoad

LEMMA CapsKnown == Spec => []CapsInv
<1>1. Init => CapsInv
  BY DEF Init, CapsInv, CapsBeforeLoad
<1>2. TypeOK /\ TypeOK' /\ CapsInv /\ [Next]_vars => CapsInv'
  <2> SUFFICES ASSUME TypeOK, TypeOK', CapsInv, [Next]_vars PROVE CapsInv'
    OBVIOUS
  <2> USE DEF data, looks, result
  <2>0. stream' = <<>> => Len(stream') = 0 /\ ~Severe(Everything)'
    <3> SUFFICES ASSUME stream' = <<>> PROVE Len(stream') = 0 /\ ~Severe(Everything)'
      OBVIOUS
    <3>1. Len(stream') = 0 /\ Everything' = {}
      BY DEF Everything
    <3>2. Cardinality(Everything') = 0
      BY <3>1, FS_EmptySet
    <3>3. (Size(Everything))' = Cardinality(Everything')
      BY DEF Size
    <3>4. ~Heavy(Everything)'
      BY <3>2, <3>3 DEF Heavy
    <3> QED
      BY <3>1, <3>4 DEF Severe
  <2>1. CASE RecoverFirst
    BY <2>1 DEF RecoverFirst, Finish, CapsInv, CapsBeforeLoad
  <2>2. CASE CheckCaps
    <3>1. stream' = <<>> /\ reps' = 0 /\ UNCHANGED <<retries, elapsed>>
      BY <2>2 DEF CheckCaps, CapsInv
    <3>2. CASE Reachable
      <4>1. pc' = "measure" /\ RequestCap >= 1 /\ Remaining' >= PerRep
        BY <2>2, <3>1, <3>2, ReachableHasTime DEF CheckCaps, Remaining
      <4>2. ~Severe(Everything)'
        BY <2>0, <3>1
      <4>3. MaxReps = 0 \/ reps' < MaxReps
        BY <3>1, CandidateAssumption
      <4> QED
        BY <2>0, <3>1, <4>1, <4>2, <4>3, CapsAreNumbers DEF CapsInv, CapsBeforeLoad
    <3>3. CASE ~Reachable
      BY <2>2, <3>1, <3>3 DEF CheckCaps, Finish, CapsInv, CapsBeforeLoad
    <3> QED
      BY <3>2, <3>3
  <2>3. CASE Measure
    <3>1. pc = "measure" /\ pc' \in {"judge", "done"} /\ retries' = retries
      BY <2>3 DEF Measure, Finish
    <3> QED
      BY <3>1 DEF CapsInv, CapsBeforeLoad
  <2>4. CASE BeginRestart
    <3>1. pc' = "restart" /\ retries' = 0 /\ Recovery /\ RequestCap >= 1
      BY <2>4 DEF BeginRestart, CapsInv, TypeOK
    <3> QED
      BY <3>1 DEF CapsInv, CapsBeforeLoad
  <2>5. CASE Restart
    <3>1. /\ pc' \in {"measure", "done"} /\ RequestCap >= 1
          /\ retries' = 0 /\ Recovery /\ stream' = <<>> /\ reps' = 0
      BY <2>5 DEF Restart, Finish, CapsInv
    <3>2. ~Severe(Everything)'
      BY <2>0, <3>1
    <3>3. MaxReps = 0 \/ reps' < MaxReps
      BY <3>1, CandidateAssumption
    <3> QED
      BY <2>0, <3>1, <3>2, <3>3, CapsAreNumbers DEF CapsInv, CapsBeforeLoad
  <2>6. CASE Judge
    <3>1. /\ pc = "judge" /\ UNCHANGED <<data, retries, elapsed>>
          /\ pc' \in {"measure", "done"}
          /\ pc' = "measure" => StopReason(Taken, PassAt(Taken)) = "none"
      BY <2>6 DEF Judge, Finish
    <3>2. StopReason(Taken, PassAt(Taken)) = "none" =>
             /\ ~Severe(Everything)
             /\ MaxReps = 0 \/ ~(reps >= MaxReps)
             /\ ~(Len(stream) >= RequestCap)
             /\ ~OutOfTime
      BY DEF StopReason, CapReason
    <3>3. /\ reps \in Nat /\ MaxReps \in Nat /\ Len(stream) \in Nat /\ RequestCap \in Nat
          /\ Remaining \in Int /\ PerRep \in Nat
      <4>1. reps \in Nat /\ elapsed \in Nat /\ Len(stream) \in Nat
        BY DEF TypeOK
      <4>2. MaxReps \in Nat
        BY CandidateAssumption
      <4>3. RequestCap \in Nat /\ PerRep \in Nat /\ Budget \in Nat
        BY CapsAreNumbers
      <4> QED
        BY <4>1, <4>2, <4>3 DEF Remaining
    <3>4. Severe(Everything)' = Severe(Everything) /\ Remaining' = Remaining
      BY <3>1, SameData DEF Remaining
    <3>5. pc' = "measure" => CapsBeforeLoad'
      BY <3>1, <3>2, <3>3, <3>4 DEF CapsBeforeLoad, OutOfTime
    <3> QED
      BY <3>1, <3>5 DEF CapsInv, CapsBeforeLoad
  <2>7. CASE Done \/ UNCHANGED vars
    <3>1. UNCHANGED vars
      BY <2>7 DEF Done
    <3>2. Severe(Everything)' = Severe(Everything) /\ Remaining' = Remaining
      BY <3>1, SameData DEF vars, Remaining
    <3> QED
      BY <3>1, <3>2 DEF vars, CapsInv, CapsBeforeLoad
  <2> QED
    BY <2>1, <2>2, <2>3, <2>4, <2>5, <2>6, <2>7 DEF Next
<1> QED
  BY <1>1, <1>2, TypeCorrect, PTL DEF Spec

\* No repetition of load starts for a candidate whose requests, repetitions or
\* severe throttling have ended it, nor, before a restart, without time for it.
THEOREM CapsComeFirst == Spec => []CapsBeforeLoad
<1>1. CapsInv => CapsBeforeLoad
  BY DEF CapsInv
<1> QED
  BY <1>1, CapsKnown, PTL

(***************************************************************************)
(* What one restart costs: the looks of the dropped data are spent as      *)
(* well, and a repetition may start without the time for it.               *)
(***************************************************************************)

TestsInv ==
    /\ (~Recovery \/ retries = 1 \/ pc = "restart") => tests = looks_used
    /\ tests <= MaxLooks + looks_used

\* One candidate takes no more than two series of looks, and no more than one
\* where nothing is recovered: the restart is all that AtMostLTests misses.
TestsAreBounded == tests <= 2 * MaxLooks /\ (~Recovery => AtMostLTests)

\* Whatever the plan, the caps and the outcomes, one restart at most doubles the
\* number of tests the confidence of a candidate was split over.
THEOREM TwoSeriesOfLooks == Spec => []TestsAreBounded
<1>1. Init => TestsInv
  BY PlanAssumption DEF Init, TestsInv
<1>2. TypeOK /\ TypeOK' /\ CapsInv /\ TestsInv /\ [Next]_vars => TestsInv'
  <2> SUFFICES ASSUME TypeOK, TypeOK', CapsInv, TestsInv, [Next]_vars PROVE TestsInv'
    OBVIOUS
  <2> USE DEF data, looks, result
  <2>0. MaxLooks \in Nat /\ looks_used \in 0..MaxLooks /\ tests \in Nat /\ retries \in 0..1
    BY PlanAssumption DEF TypeOK
  <2>1. CASE RecoverFirst \/ CheckCaps \/ Measure
    <3>1. UNCHANGED <<looks, retries>> /\ pc' # "restart"
      BY <2>1 DEF RecoverFirst, CheckCaps, Measure, Finish
    <3> QED
      BY <3>1 DEF TestsInv
  <2>2. CASE BeginRestart
    BY <2>0, <2>2 DEF BeginRestart, TestsInv
  <2>3. CASE Restart
    <3>1. pc = "restart" /\ pc' # "restart" /\ retries' = retries /\ tests' = tests
      BY <2>3 DEF Restart, Finish
    <3>2. \/ looks_used' = 0
          \/ looks_used' = looks_used
      BY <2>3 DEF Restart, FreshLooks
    <3>3. Recovery /\ retries = 0 /\ tests = looks_used
      BY <3>1 DEF CapsInv, TestsInv
    <3> QED
      BY <2>0, <3>1, <3>2, <3>3 DEF TestsInv
  <2>4. CASE Judge
    <3>1. /\ looks_used' = Taken /\ tests' = tests + (Taken - looks_used)
          /\ pc = "judge" /\ pc' # "restart" /\ retries' = retries
      BY <2>4 DEF Judge, Finish
    <3>2. Taken \in looks_used..MaxLooks
      BY TakenType
    <3> QED
      BY <2>0, <3>1, <3>2 DEF TestsInv
  <2>5. CASE Done \/ UNCHANGED vars
    BY <2>5 DEF Done, vars, TestsInv
  <2> QED
    BY <2>1, <2>2, <2>3, <2>4, <2>5 DEF Next
<1>3. TypeOK /\ TestsInv => TestsAreBounded
  <2> SUFFICES ASSUME TypeOK, TestsInv PROVE TestsAreBounded
    OBVIOUS
  <2>1. MaxLooks \in Nat /\ looks_used \in 0..MaxLooks /\ tests \in Nat
    BY PlanAssumption DEF TypeOK
  <2> QED
    BY <2>1 DEF TestsInv, TestsAreBounded, AtMostLTests
<1> QED
  BY <1>1, <1>2, <1>3, TypeCorrect, CapsKnown, PTL DEF Spec

-----------------------------------------------------------------------------
(* Time.  Drain bounds how long the requests in flight take after a window. *)

\* The load of a candidate ends within its budget and a drain; only a candidate
\* that was restarted may add one repetition, and its drain, to that.
InTime(Drain) ==
    \/ Remaining + Drain >= 0
    \/ Recovery /\ retries = 0 /\ Remaining + PerRep + 2 * Drain >= 0

TimeInv(Drain) ==
    /\ pc \in {"measure", "restart"} => Remaining + Drain >= 0
    /\ pc = "judge" /\ retries = 1 => Remaining + Drain >= 0

\* What a repetition leaves of the time.
LEMMA MeasureTakes ==
    ASSUME TypeOK, Measure
    PROVE  /\ \E d \in Drains : Remaining' = Remaining - PerRep - d
           /\ pc = "measure" /\ pc' \in {"judge", "done"} /\ retries' = retries
<1>1. \E d \in Drains : elapsed' = elapsed + PerRep + d
  BY DEF Measure
<1>2. elapsed \in Nat /\ Budget \in Nat /\ PerRep \in Nat /\ Drains \subseteq Nat
  BY CapsAreNumbers, CandidateAssumption DEF TypeOK
<1>3. \E d \in Drains : Remaining' = Remaining - PerRep - d
  BY <1>1, <1>2 DEF Remaining
<1> QED
  BY <1>3 DEF Measure, Finish

\* Who goes on to measure has the time for it, or was restarted.
LEMMA TimeToMeasure ==
    ASSUME TypeOK, CapsInv, pc = "measure"
    PROVE  Remaining >= PerRep \/ (Recovery /\ retries = 0)
  BY DEF CapsInv, CapsBeforeLoad, TypeOK

\* Judging sends to another repetition only with the time for it.
LEMMA JudgedInTime ==
    ASSUME TypeOK, Judge
    PROVE  /\ UNCHANGED <<retries, elapsed>> /\ pc = "judge"
           /\ pc' = "done" \/ (pc' = "measure" /\ Remaining >= PerRep)
<1>1. /\ pc = "judge" /\ UNCHANGED <<retries, elapsed>>
      /\ pc' = "done" \/ (pc' = "measure" /\ StopReason(Taken, PassAt(Taken)) = "none")
  BY DEF Judge, Finish
<1>2. StopReason(Taken, PassAt(Taken)) = "none" => ~OutOfTime
  BY DEF StopReason, CapReason
<1>3. Remaining \in Int /\ PerRep \in Nat
  BY CapsAreNumbers DEF Remaining, TypeOK
<1> QED
  BY <1>1, <1>2, <1>3 DEF OutOfTime

\* How far a repetition may run past the budget: `max_duration_s` is checked
\* before a repetition, except for the first one after a restart.
THEOREM LoadEndsInTime ==
    ASSUME NEW Drain \in Nat, \A d \in Drains : d <= Drain
    PROVE  Spec => [][elapsed' # elapsed => InTime(Drain)']_vars
<1>1. Init => TimeInv(Drain)
  BY DEF Init, TimeInv
<1>2. TypeOK /\ TypeOK' /\ CapsInv /\ TimeInv(Drain) /\ [Next]_vars
         => TimeInv(Drain)' /\ (elapsed' # elapsed => InTime(Drain)')
  <2> SUFFICES ASSUME TypeOK, TypeOK', CapsInv, TimeInv(Drain), [Next]_vars
               PROVE  TimeInv(Drain)' /\ (elapsed' # elapsed => InTime(Drain)')
    OBVIOUS
  <2> USE DEF data, looks, result
  <2>0. /\ Remaining \in Int /\ Remaining' \in Int /\ PerRep \in Nat
        /\ retries \in 0..1 /\ retries' \in 0..1
    BY CapsAreNumbers DEF Remaining, TypeOK
  <2>1. elapsed' = elapsed => Remaining' = Remaining
    BY DEF Remaining
  <2>2. CASE RecoverFirst
    BY <2>2 DEF RecoverFirst, Finish, TimeInv
  <2>3. CASE CheckCaps
    <3>1. elapsed' = elapsed /\ (pc' = "done" \/ (pc' = "measure" /\ Reachable))
      BY <2>3 DEF CheckCaps, Finish
    <3>2. Reachable => Remaining >= PerRep
      BY ReachableHasTime
    <3> QED
      BY <2>0, <2>1, <3>1, <3>2 DEF TimeInv
  <2>4. CASE Measure
    <3>1. PICK d \in Drains : Remaining' = Remaining - PerRep - d
      BY <2>4, MeasureTakes
    <3>2. pc = "measure" /\ pc' \in {"judge", "done"} /\ retries' = retries
      BY <2>4, MeasureTakes
    <3>3. d \in Nat /\ d <= Drain
      BY CandidateAssumption
    <3>4. CASE Remaining >= PerRep
      BY <2>0, <3>1, <3>2, <3>3, <3>4 DEF TimeInv, InTime
    <3>5. CASE Recovery /\ retries = 0
      <4>1. Remaining + Drain >= 0
        BY <3>2 DEF TimeInv
      <4>2. Remaining' + PerRep + 2 * Drain >= 0
        BY <2>0, <3>1, <3>3, <4>1
      <4> QED
        BY <3>2, <3>5, <4>2 DEF TimeInv, InTime, PerRep
    <3> QED
      BY <3>2, <3>4, <3>5, TimeToMeasure
  <2>5. CASE BeginRestart
    BY <2>0, <2>1, <2>5 DEF BeginRestart, TimeInv
  <2>6. CASE Restart
    BY <2>1, <2>6 DEF Restart, Finish, TimeInv
  <2>7. CASE Judge
    BY <2>0, <2>1, <2>7, JudgedInTime DEF TimeInv
  <2>8. CASE Done \/ UNCHANGED vars
    BY <2>1, <2>8 DEF Done, vars, TimeInv
  <2> QED
    BY <2>2, <2>3, <2>4, <2>5, <2>6, <2>7, <2>8 DEF Next
<1> QED
  BY <1>1, <1>2, TypeCorrect, CapsKnown, PTL DEF Spec

-----------------------------------------------------------------------------
(* The safety half of Terminates: the steps that are left, three for every *)
(* second of the budget and for the chance of a restart, run out.          *)

Fuel == IF Remaining < 0 THEN 0 ELSE Remaining

\* A repetition that need not have the time is still to come.
SecondChance == IF retries = 1 \/ pc = "restart" \/ (pc = "measure" /\ Remaining < PerRep)
                THEN 1 ELSE 0

Ahead == CASE pc = "recover" -> 5
           [] pc = "plan"    -> 4
           [] pc = "judge"   -> 3
           [] pc = "restart" -> 2
           [] pc = "measure" -> 1
           [] pc = "done"    -> 0

StepsLeft == 3 * (Fuel + SecondChance) + Ahead

LEMMA Lower ==
    ASSUME NEW f \in Nat, NEW g \in Nat, NEW s \in 0..1, NEW t \in 0..1,
           NEW a \in 0..5, NEW b \in 0..5, g <= f, t <= s,
           b < a \/ (b < a + 3 /\ (g < f \/ t < s))
    PROVE  3 * (g + t) + b < 3 * (f + s) + a
  OBVIOUS

\* No candidate goes on for ever, whatever it measures: every step but waiting
\* after the end lowers a natural number.
THEOREM StepsRunOut == Spec => [][StepsLeft' < StepsLeft /\ StepsLeft \in Nat]_vars
<1>1. TypeOK /\ TypeOK' /\ CapsInv /\ [Next]_vars
         => [StepsLeft' < StepsLeft /\ StepsLeft \in Nat]_vars
  <2> SUFFICES ASSUME TypeOK, TypeOK', CapsInv, Next, vars' # vars
               PROVE  StepsLeft' < StepsLeft /\ StepsLeft \in Nat
    OBVIOUS
  <2> USE DEF data, looks, result
  <2>0. /\ Remaining \in Int /\ Remaining' \in Int /\ PerRep \in Nat \ {0}
        /\ retries \in 0..1 /\ retries' \in 0..1 /\ pc \in Pcs /\ pc' \in Pcs
    BY CapsAreNumbers DEF Remaining, TypeOK
  <2>1. /\ Fuel \in Nat /\ Fuel' \in Nat
        /\ SecondChance \in 0..1 /\ SecondChance' \in 0..1
        /\ Ahead \in 0..5 /\ Ahead' \in 0..5
    BY <2>0 DEF Fuel, SecondChance, Ahead, Pcs
  <2>2. SUFFICES /\ Fuel' <= Fuel /\ SecondChance' <= SecondChance
                 /\ \/ Ahead' < Ahead
                    \/ Ahead' < Ahead + 3 /\ (Fuel' < Fuel \/ SecondChance' < SecondChance)
    <3>1. StepsLeft' < StepsLeft
      BY <2>1, <2>2, Lower DEF StepsLeft
    <3>2. StepsLeft \in Nat
      BY <2>1 DEF StepsLeft
    <3> QED
      BY <3>1, <3>2
  <2>3. elapsed' = elapsed => Fuel' = Fuel /\ Remaining' = Remaining
    BY DEF Fuel, Remaining
  <2>4. CASE RecoverFirst
    <3>1. /\ pc = "recover" /\ pc' \in {"plan", "done"}
          /\ elapsed' = elapsed /\ retries' = retries
      BY <2>4 DEF RecoverFirst, Finish
    <3>2. SecondChance' = SecondChance /\ Ahead' < Ahead
      BY <3>1 DEF SecondChance, Ahead
    <3> QED
      BY <2>1, <2>3, <3>1, <3>2
  <2>5. CASE CheckCaps
    <3>1. /\ pc = "plan"
          /\ pc' = "done" \/ (pc' = "measure" /\ Reachable)
          /\ elapsed' = elapsed /\ retries' = retries
      BY <2>5 DEF CheckCaps, Finish
    <3>2. pc' = "measure" => Remaining' >= PerRep
      BY <2>3, <3>1, ReachableHasTime
    <3>3. SecondChance' = SecondChance /\ Ahead' < Ahead
      BY <2>0, <3>1, <3>2 DEF SecondChance, Ahead
    <3> QED
      BY <2>1, <2>3, <3>1, <3>3
  <2>6. CASE Measure
    <3>1. PICK d \in Drains : Remaining' = Remaining - PerRep - d
      BY <2>6, MeasureTakes
    <3>2. pc = "measure" /\ pc' \in {"judge", "done"} /\ retries' = retries
      BY <2>6, MeasureTakes
    <3>3. Ahead' < Ahead + 3
      BY <3>2 DEF Ahead
    <3>4. d \in Nat
      BY CandidateAssumption
    <3>5. CASE Remaining >= PerRep
      <4>1. Fuel' < Fuel
        BY <2>0, <3>1, <3>4, <3>5 DEF Fuel
      <4>2. SecondChance' <= SecondChance
        BY <2>0, <3>2, <3>5 DEF SecondChance
      <4> QED
        BY <2>1, <3>3, <4>1, <4>2
    <3>6. CASE ~(Remaining >= PerRep)
      <4>1. retries = 0
        BY <2>6, <3>2, <3>6, TimeToMeasure
      <4>2. SecondChance = 1 /\ SecondChance' = 0
        BY <2>0, <3>2, <3>6, <4>1 DEF SecondChance
      <4>3. Fuel' <= Fuel
        BY <2>0, <3>1, <3>4 DEF Fuel
      <4> QED
        BY <2>1, <3>3, <4>2, <4>3
    <3> QED
      BY <3>5, <3>6
  <2>7. CASE BeginRestart
    <3>1. /\ pc = "judge" /\ pc' = "restart" /\ retries = 1 /\ elapsed' = elapsed
      BY <2>0, <2>7 DEF BeginRestart
    <3>2. SecondChance = 1 /\ SecondChance' = 1 /\ Ahead' < Ahead
      BY <3>1 DEF SecondChance, Ahead
    <3> QED
      BY <2>1, <2>3, <3>1, <3>2
  <2>8. CASE Restart
    <3>1. pc = "restart" /\ pc' \in {"measure", "done"} /\ elapsed' = elapsed
      BY <2>8 DEF Restart, Finish
    <3>2. SecondChance = 1 /\ Ahead' < Ahead
      BY <3>1 DEF SecondChance, Ahead
    <3> QED
      BY <2>1, <2>3, <3>1, <3>2
  <2>9. CASE Judge
    <3>1. /\ pc = "judge" /\ elapsed' = elapsed /\ retries' = retries
          /\ pc' = "done" \/ (pc' = "measure" /\ Remaining >= PerRep)
      BY <2>9, JudgedInTime
    <3>2. SecondChance' = SecondChance /\ Ahead' < Ahead
      BY <2>0, <2>3, <3>1 DEF SecondChance, Ahead
    <3> QED
      BY <2>1, <2>3, <3>1, <3>2
  <2>10. CASE Done
    BY <2>10 DEF Done
  <2> QED
    BY <2>4, <2>5, <2>6, <2>7, <2>8, <2>9, <2>10 DEF Next
<1> QED
  BY <1>1, TypeCorrect, CapsKnown, PTL DEF Spec
=============================================================================
