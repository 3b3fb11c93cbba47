--------------------------- MODULE Temporal_proofs ---------------------------
(***************************************************************************)
(* Theorems about Temporal: what is given to production rests on valid     *)
(* runs alone and is never relaxed, for any quota, headroom and thresholds *)
(* and any number of runs.                                                 *)
(***************************************************************************)
EXTENDS Temporal, FiniteSetTheorems, TLAPS

-----------------------------------------------------------------------------
(* The operators.                                                          *)

\* What a run may confirm is a number.
LEMMA ConfirmedIsNumber ==
    ASSUME NEW v \in Values \cup {None}
    PROVE  v \in Nat
<1>1. CASE v \in Values
  BY <1>1, TemporalAssumption
<1>2. CASE v = None
  BY <1>2 DEF None
<1> QED
  BY <1>1, <1>2

\* Rounding down to a multiple of Of.
LEMMA FloorBelow ==
    ASSUME NEW v \in Nat
    PROVE  Floor(v) \in Nat /\ Floor(v) <= v
<1>1. Of \in Nat \ {0}
  BY TemporalAssumption
<1>2. v = Of * (v \div Of) + (v % Of) /\ v % Of \in 0..Of - 1 /\ v \div Of \in Nat
  BY <1>1
<1>3. (v \div Of) * Of \in Nat /\ (v \div Of) * Of = Of * (v \div Of)
  BY <1>1, <1>2
<1> QED
  BY <1>1, <1>2, <1>3 DEF Floor

\* What is recommended is a number, within the quota and the headroom.
LEMMA AdmissionIsCareful ==
    ASSUME NEW p \in Profiles
    PROVE  /\ Admission(p) \in Nat
           /\ Admission(p) # None => /\ p.valid /\ p.observed
                                     /\ Admission(p) <= p.confirmed * Keep
                                     /\ kind = "rate" /\ Quota # None =>
                                           Admission(p) <= Quota * QuotaKeep
<1>1. /\ Of \in Nat /\ Keep \in Nat /\ QuotaKeep \in Nat /\ Quota \in Nat
  BY TemporalAssumption
<1>2. p.confirmed \in Nat /\ p.valid \in BOOLEAN /\ p.observed \in BOOLEAN
      /\ (p.confirmed # None => p.observed)
  <2>1. /\ p.confirmed \in Values \cup {None} /\ p.valid \in BOOLEAN /\ p.observed \in BOOLEAN
        /\ p.confirmed # None => p.observed
    BY DEF Profiles
  <2>2. p.confirmed \in Nat
    BY <2>1, ConfirmedIsNumber
  <2> QED
    BY <2>1, <2>2
<1>3. p.confirmed * Keep \in Nat /\ Quota * QuotaKeep \in Nat
  BY <1>1, <1>2
<1>4. Headroom(p.confirmed) \in Nat /\ Headroom(p.confirmed) <= p.confirmed * Keep
  BY <1>3, FloorBelow DEF Headroom
<1> QED
  BY <1>2, <1>3, <1>4 DEF Admission, Withheld, None

\* A production input takes as many runs and days as required, and no more.
LEMMA UsableWhenEnough ==
    ASSUME NEW ps, Cardinality(Runs(ps)) \in Nat, Cardinality(DaysIn(ps)) \in Nat
    PROVE  Usable(Envelope(ps)) <=> /\ Cardinality(Runs(ps)) > 1
                                    /\ Cardinality(Runs(ps)) >= MinRuns
                                    /\ Cardinality(DaysIn(ps)) >= MinDays
<1> DEFINE r == Cardinality(Runs(ps))
           d == Cardinality(DaysIn(ps))
<1>1. r \in Nat /\ d \in Nat /\ MinRuns \in Nat /\ MinDays \in Nat
  BY TemporalAssumption
<1>2. Envelope(ps) = IF r <= 1 THEN "single_run"
                     ELSE IF r < MinRuns \/ d < MinDays THEN "insufficient"
                     ELSE IF Stable(ps) THEN "stable" ELSE "unstable"
  BY DEF Envelope
<1> HIDE DEF r, d
<1>3. Usable(Envelope(ps)) <=> r > 1 /\ r >= MinRuns /\ d >= MinDays
  BY <1>1, <1>2 DEF Usable
<1> QED
  BY <1>3 DEF r, d

\* A finite non-empty set of numbers has a least member.
LEMMA LeastExists ==
    ASSUME NEW S \in SUBSET Nat, S # {}
    PROVE  /\ Min(S) \in S
           /\ \A x \in S : Min(S) <= x
<1>1. PICK x \in S : \A y \in S : ~(<<y, x>> \in OpToRel(<, Nat))
  BY NatLessThanWellFounded, WFMin
<1>2. \A y \in S : x <= y
  <2>1. ASSUME NEW y \in S, y < x PROVE FALSE
    BY <1>1, <2>1 DEF OpToRel
  <2> QED
    BY <2>1
<1> QED
  BY <1>2 DEF Min

(***************************************************************************)
(* The profiles are only added to, and the artifact speaks of a beginning  *)
(* of them.                                                                *)
(***************************************************************************)
TypeOK ==
    /\ kind \in Kinds
    /\ profiles \in Seq(Profiles)
    /\ artifact.profiles \in 0..Len(profiles)
    /\ artifact.input \in Nat

\* The valid runs among the first n.
Valid(n) == {i \in 1..n : profiles[i].valid /\ profiles[i].observed}

LEMMA ValidIsFinite ==
    ASSUME NEW n \in Nat
    PROVE  /\ IsFiniteSet(Valid(n)) /\ Cardinality(Valid(n)) \in Nat
           /\ IsFiniteSet({profiles[i].day : i \in Valid(n)})
           /\ IsFiniteSet({profiles[i].day : i \in Valid(n)} \ {None})
           /\ Cardinality({profiles[i].day : i \in Valid(n)} \ {None}) \in Nat
<1>1. IsFiniteSet(1..n)
  BY FS_Interval
<1>2. IsFiniteSet(Valid(n))
  BY <1>1, FS_Subset DEF Valid
<1>3. IsFiniteSet({profiles[i].day : i \in Valid(n)})
  <2> DEFINE Day == [i \in Valid(n) |-> profiles[i].day]
             Seen == {profiles[i].day : i \in Valid(n)}
  <2>1. Day \in Surjection(Valid(n), Seen)
    BY DEF Surjection
  <2> QED
    BY <1>2, <2>1, FS_Surjection
<1> QED
  BY <1>2, <1>3, FS_CardinalityType, FS_RemoveElement

-----------------------------------------------------------------------------
(* The steps.                                                              *)

LEMMA TypeInductive == TypeOK /\ [Next]_vars => TypeOK'
<1> SUFFICES ASSUME TypeOK, [Next]_vars PROVE TypeOK'
  OBVIOUS
<1> USE DEF TypeOK
<1>1. CASE Measure
  <2> PICK p \in Profiles : profiles' = Append(profiles, p)
    BY <1>1 DEF Measure
  <2>1. Len(profiles') = Len(profiles) + 1 /\ Len(profiles) \in Nat
    OBVIOUS
  <2> QED
    BY <1>1, <2>1 DEF Measure
<1>2. CASE Validate
  <2>1. Conservative(AdmissionIn(profiles)) \in Nat
    <3>1. AdmissionIn(profiles) \in SUBSET Nat
      BY AdmissionIsCareful DEF AdmissionIn, Runs
    <3> QED
      BY <3>1, LeastExists DEF Conservative, None
  <2>2. artifact'.profiles = Len(profiles) /\ artifact'.input \in Nat
    BY <1>2, <2>1 DEF Validate, None
  <2>3. Len(profiles) \in Nat /\ UNCHANGED <<kind, profiles>>
    BY <1>2 DEF Validate
  <2> QED
    BY <2>2, <2>3
<1>3. CASE UNCHANGED vars
  BY <1>3 DEF vars
<1> QED
  BY <1>1, <1>2, <1>3 DEF Next

\* The type invariant.
THEOREM TypeCorrect == Spec => []TypeOK
<1>1. Init => TypeOK
  BY DEF Init, TypeOK, None
<1> QED
  BY <1>1, TypeInductive, PTL DEF Spec

\* A validation of all profiles gives a production input only as it should.
LEMMA ValidationRests ==
    ASSUME TypeOK, Validate
    PROVE  RestsOnValidRuns'
<1> DEFINE n == Len(profiles)
<1> SUFFICES ASSUME artifact'.input # None PROVE RestsOnValidRuns'
  BY DEF RestsOnValidRuns
<1>1. /\ profiles' = profiles /\ kind' = kind
      /\ artifact'.profiles = n /\ n \in Nat
      /\ artifact'.input = Conservative(AdmissionIn(profiles))
      /\ Envelope(profiles) \in {"stable", "unstable"}
      /\ AdmissionIn(profiles) # {}
  BY DEF Validate, TypeOK, Usable, Conservative
<1>2. Runs(profiles) = Valid(n)
  BY DEF Runs, Valid, TypeOK
<1>3. /\ Cardinality(Valid(n)) > 1 /\ Cardinality(Valid(n)) >= MinRuns
      /\ Cardinality({profiles[i].day : i \in Valid(n)} \ {None}) >= MinDays
  <2>1. DaysIn(profiles) = {profiles[i].day : i \in Valid(n)} \ {None}
    BY <1>2 DEF DaysIn
  <2>2. Cardinality(Runs(profiles)) \in Nat /\ Cardinality(DaysIn(profiles)) \in Nat
    BY <1>1, <1>2, <2>1, ValidIsFinite
  <2> QED
    BY <1>1, <1>2, <2>1, <2>2, UsableWhenEnough DEF Usable
<1>4. \A i \in 1..n : profiles[i] \in Profiles
  BY DEF TypeOK
<1>5. /\ artifact'.input \in AdmissionIn(profiles)
      /\ \A a \in AdmissionIn(profiles) : artifact'.input <= a
  <2>1. AdmissionIn(profiles) \in SUBSET Nat
    BY <1>2, <1>4, AdmissionIsCareful DEF AdmissionIn, Valid
  <2> QED
    BY <1>1, <2>1, LeastExists DEF Conservative
<1>6. PICK k \in Valid(n) : artifact'.input = Admission(profiles[k])
  BY <1>2, <1>5 DEF AdmissionIn
<1>7. ASSUME NEW i \in 1..n, Admission(profiles[i]) # None
      PROVE  /\ artifact'.input <= Admission(profiles[i])
             /\ artifact'.input <= profiles[i].confirmed * Keep
  <2>1. /\ Admission(profiles[i]) \in Nat /\ i \in Valid(n)
        /\ Admission(profiles[i]) <= profiles[i].confirmed * Keep
    BY <1>4, <1>7, AdmissionIsCareful DEF Valid
  <2>2. artifact'.input <= Admission(profiles[i])
    BY <1>2, <1>5, <1>7, <2>1 DEF AdmissionIn
  <2>3. profiles[i].confirmed * Keep \in Nat /\ artifact'.input \in Nat
    <3>1. profiles[i].confirmed \in Nat /\ Keep \in Nat
      <4>1. Keep \in Nat
        BY TemporalAssumption
      <4>2. profiles[i].confirmed \in Values \cup {None}
        BY <1>4 DEF Profiles
      <4> QED
        BY <4>1, <4>2, ConfirmedIsNumber
    <3> QED
      BY <3>1, TypeInductive DEF Next, TypeOK
  <2> QED
    BY <2>1, <2>2, <2>3
<1>8. kind = "rate" /\ Quota # None => artifact'.input <= Quota * QuotaKeep
  BY <1>4, <1>6, AdmissionIsCareful DEF Valid
<1>9. \A i \in 1..n : Admission(profiles[i])' = Admission(profiles[i])
  BY <1>1 DEF Admission, Headroom, Withheld
<1> QED
  BY <1>1, <1>3, <1>6, <1>7, <1>8, <1>9 DEF RestsOnValidRuns, Valid

\* A production input rests on enough valid runs on enough days, is above no
\* recommendation of them, and keeps the headroom and the quota.
THEOREM ProductionRests == Spec => []RestsOnValidRuns
<1>1. Init => RestsOnValidRuns
  BY DEF Init, RestsOnValidRuns
<1>2. TypeOK /\ RestsOnValidRuns /\ [Next]_vars => RestsOnValidRuns'
  <2> SUFFICES ASSUME TypeOK, RestsOnValidRuns, [Next]_vars PROVE RestsOnValidRuns'
    OBVIOUS
  <2>1. CASE Measure
    <3> PICK p \in Profiles : profiles' = Append(profiles, p)
      BY <2>1 DEF Measure
    <3>1. /\ UNCHANGED <<kind, artifact>>
          /\ \A i \in 1..artifact.profiles : profiles'[i] = profiles[i]
      BY <2>1 DEF Measure, TypeOK
    <3>2. \A i \in 1..artifact.profiles : Admission(profiles[i])' = Admission(profiles[i])
      BY <3>1 DEF Admission, Headroom, Withheld
    <3>3. Valid(artifact.profiles)' = Valid(artifact.profiles)
      BY <3>1 DEF Valid
    <3>4. {profiles[i].day : i \in Valid(artifact.profiles)}'
          = {profiles[i].day : i \in Valid(artifact.profiles)}
      BY <3>1, <3>3 DEF Valid
    <3> QED
      BY <3>1, <3>2, <3>3, <3>4 DEF RestsOnValidRuns, Valid
  <2>2. CASE Validate
    BY <2>2, ValidationRests
  <2>3. CASE UNCHANGED vars
    BY <2>3 DEF vars, RestsOnValidRuns, Admission, Headroom, Withheld
  <2> QED
    BY <2>1, <2>2, <2>3 DEF Next
<1> QED
  BY <1>1, <1>2, TypeCorrect, PTL DEF Spec

\* However runs accumulate, a later validation gives a production input once an
\* earlier one did, and none that is higher.
THEOREM NeverRelaxed == Spec => NeverRelaxes
<1>1. TypeOK /\ RestsOnValidRuns /\ [Next]_vars =>
        (artifact.input # None => artifact'.input # None /\ artifact'.input <= artifact.input)
  <2> SUFFICES ASSUME TypeOK, RestsOnValidRuns, [Next]_vars, artifact.input # None
               PROVE  artifact'.input # None /\ artifact'.input <= artifact.input
    OBVIOUS
  <2>1. CASE Validate
    <3> DEFINE m == artifact.profiles
               n == Len(profiles)
    <3>1. /\ m \in Nat /\ n \in Nat /\ m <= n /\ MinRuns \in Nat /\ MinDays \in Nat
          /\ \A i \in 1..n : profiles[i] \in Profiles
      BY TemporalAssumption DEF TypeOK
    <3>2. Runs(profiles) = Valid(n)
      BY DEF Runs, Valid, TypeOK
    <3>3. Valid(m) \subseteq Valid(n)
      BY <3>1 DEF Valid
    <3>4. /\ Cardinality(Valid(m)) >= MinRuns /\ Cardinality(Valid(m)) > 1
          /\ Cardinality({profiles[i].day : i \in Valid(m)} \ {None}) >= MinDays
      BY DEF RestsOnValidRuns, Valid
    <3>5. PICK k \in Valid(m) : Admission(profiles[k]) = artifact.input
      BY DEF RestsOnValidRuns, Valid
    <3>6. Cardinality(Valid(m)) <= Cardinality(Valid(n))
      BY <3>1, <3>3, ValidIsFinite, FS_Subset
    <3>7. Cardinality({profiles[i].day : i \in Valid(m)} \ {None}) <= Cardinality(DaysIn(profiles))
      <4>1. /\ DaysIn(profiles) = {profiles[i].day : i \in Valid(n)} \ {None}
            /\ {profiles[i].day : i \in Valid(m)} \ {None} \subseteq DaysIn(profiles)
        BY <3>2, <3>3 DEF DaysIn
      <4> QED
        BY <3>1, <4>1, ValidIsFinite, FS_Subset
    <3>8. Usable(Envelope(profiles))
      <4>1. DaysIn(profiles) = {profiles[i].day : i \in Valid(n)} \ {None}
        BY <3>2 DEF DaysIn
      <4>2. /\ Cardinality(Valid(n)) > 1 /\ Cardinality(Valid(n)) >= MinRuns
            /\ Cardinality(DaysIn(profiles)) >= MinDays
        <5> DEFINE few  == Cardinality(Valid(m))
                   some == Cardinality({profiles[i].day : i \in Valid(m)} \ {None})
                   many == Cardinality(Valid(n))
                   all  == Cardinality(DaysIn(profiles))
        <5>1. few \in Nat /\ some \in Nat /\ many \in Nat /\ all \in Nat
          BY <3>1, <4>1, ValidIsFinite
        <5>2. few > 1 /\ few >= MinRuns /\ some >= MinDays /\ few <= many /\ some <= all
          BY <3>4, <3>6, <3>7
        <5> HIDE DEF few, some, many, all
        <5>3. many > 1 /\ many >= MinRuns /\ all >= MinDays
          BY <3>1, <5>1, <5>2
        <5> QED
          BY <5>3 DEF many, all
      <4> QED
        BY <3>1, <3>2, <4>1, <4>2, ValidIsFinite, UsableWhenEnough
    <3>9. artifact.input \in AdmissionIn(profiles)
      BY <3>2, <3>3, <3>5 DEF AdmissionIn
    <3>10. AdmissionIn(profiles) \in SUBSET Nat /\ None \notin AdmissionIn(profiles)
      BY <3>1, <3>2, AdmissionIsCareful DEF AdmissionIn, Valid
    <3>11. artifact'.input = Min(AdmissionIn(profiles))
      BY <2>1, <3>8, <3>9 DEF Validate, Conservative
    <3> QED
      BY <3>9, <3>10, <3>11, LeastExists
  <2>2. CASE UNCHANGED artifact
    BY <2>2 DEF TypeOK
  <2> QED
    BY <2>1, <2>2 DEF Next, Measure, vars
<1> QED
  BY <1>1, TypeCorrect, ProductionRests, PTL DEF Spec, NeverRelaxes

\* What does hold of "a run that confirmed nothing is never stable": every valid
\* run that has a block of the group's kind confirmed a value.  Only a run in
\* which no value led the sweep escapes, which StableMeansEveryRunConfirmed finds.
StableIsConfirmed ==
    artifact.envelope = "stable" =>
    \A i \in 1..artifact.profiles :
        profiles[i].valid /\ profiles[i].observed => profiles[i].confirmed # None

\* However many profiles there are, no valid run that observed the kind and
\* confirmed nothing is hidden under a stable envelope.
THEOREM StableRunsConfirmed == Spec => []StableIsConfirmed
<1>1. Init => StableIsConfirmed
  BY DEF Init, StableIsConfirmed
<1>2. TypeOK /\ StableIsConfirmed /\ [Next]_vars => StableIsConfirmed'
  <2> SUFFICES ASSUME TypeOK, StableIsConfirmed, [Next]_vars PROVE StableIsConfirmed'
    OBVIOUS
  <2>1. CASE Measure
    <3>1. PICK p \in Profiles : profiles' = Append(profiles, p)
      BY <2>1 DEF Measure
    <3>2. artifact' = artifact /\ \A i \in 1..artifact.profiles : profiles'[i] = profiles[i]
      BY <2>1, <3>1 DEF Measure, TypeOK
    <3> QED
      BY <3>2 DEF StableIsConfirmed
  <2>2. CASE Validate
    <3>1. /\ profiles' = profiles /\ artifact'.profiles = Len(profiles)
          /\ artifact'.envelope = Envelope(profiles)
      BY <2>2 DEF Validate
    <3>2. Envelope(profiles) = "stable" => ConfirmedIn(profiles) = Runs(profiles)
      BY DEF Envelope, Stable
    <3> QED
      BY <3>1, <3>2 DEF StableIsConfirmed, ConfirmedIn, Runs
  <2>3. CASE UNCHANGED vars
    BY <2>3 DEF vars, StableIsConfirmed
  <2> QED
    BY <2>1, <2>2, <2>3 DEF Next
<1> QED
  BY <1>1, <1>2, TypeCorrect, PTL DEF Spec
=============================================================================
