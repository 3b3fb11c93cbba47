--------------------------- MODULE Recovery_proofs ---------------------------
(***************************************************************************)
(* Theorems about Recovery, for any number of attempts and any probes.     *)
(***************************************************************************)
EXTENDS Recovery, TLAPS

USE DEF baseline, ceiling

\* A healthy test of a probe has a truth value.
LEMMA TestsAreBoolean ==
    /\ \A p \in Probes : Healthy(p) \in BOOLEAN /\ p.latency \in Nat
    /\ \A p \in CapacityProbes : /\ Sustained(p) \in BOOLEAN
                                 /\ p.goodput \in Nat /\ p.latency \in Nat
<1>1. \A p \in Probes : Healthy(p) \in BOOLEAN /\ p.latency \in Nat
  BY RecoveryAssumption DEF Probes, Healthy
<1>2. \A p \in CapacityProbes : /\ Sustained(p) \in BOOLEAN
                                /\ p.goodput \in Nat /\ p.latency \in Nat
  BY RecoveryAssumption DEF CapacityProbes, Sustained
<1> QED
  BY <1>1, <1>2

\* The gate's state is well formed in every reachable state.
THEOREM TypeCorrect == Spec => []TypeOK
<1>1. Init => TypeOK
  BY RecoveryAssumption DEF Init, TypeOK, None
<1>2. TypeOK /\ [Next]_vars => TypeOK'
  <2> SUFFICES ASSUME TypeOK, [Next]_vars PROVE TypeOK'
    OBVIOUS
  <2> USE RecoveryAssumption DEF TypeOK
  <2>1. CASE Call
    BY <2>1 DEF Call
  <2>2. ASSUME pc \in {"probe", "capacity"}, Again
        PROVE  /\ pc' \in {"probe", "unrecovered"} /\ attempt' \in 1..Attempts
               /\ status' \in {"valid", "invalid"}
    BY <2>2 DEF Again
  <2>3. CASE ProbeOnce
    <3> PICK p \in Probes :
             /\ seen' = seen \cup {<<attempt, "liveness", Healthy(p)>>}
             /\ ttft' = IF FirstHealthy(p) THEN p.latency ELSE ttft
             /\ IF Healthy(p) THEN pc' = "capacity" /\ UNCHANGED <<attempt, status>> ELSE Again
      BY <2>3 DEF ProbeOnce
    <3>1. seen' \subseteq (1..Attempts) \X Kinds \X BOOLEAN /\ ttft' \in Nat
      BY <2>3, TestsAreBoolean DEF ProbeOnce, Kinds
    <3> QED
      BY <2>2, <2>3, <3>1 DEF ProbeOnce
  <2>4. CASE CapacityProbe
    <3>1. CASE UNCHANGED <<capacity, seen>>
      BY <2>2, <2>4, <3>1 DEF CapacityProbe
    <3>2. ASSUME NEW p \in CapacityProbes,
                 seen' = seen \cup {<<attempt, "capacity", Sustained(p)>>},
                 IF Sustained(p)
                 THEN /\ capacity' = IF capacity = <<>> THEN <<p.goodput, p.latency>>
                                     ELSE capacity
                      /\ pc' = "recovered"
                      /\ UNCHANGED <<attempt, status>>
                 ELSE Again /\ UNCHANGED capacity
          PROVE  TypeOK'
      <4>1. seen' \subseteq (1..Attempts) \X Kinds \X BOOLEAN
        BY <2>4, <3>2, TestsAreBoolean DEF CapacityProbe, Kinds
      <4>2. capacity' \in {<<>>} \cup (Nat \X Nat)
        BY <3>2, TestsAreBoolean
      <4>3. /\ pc' \in {"probe", "recovered", "unrecovered"} /\ attempt' \in 1..Attempts
            /\ status' \in {"valid", "invalid"}
        BY <2>2, <2>4, <3>2 DEF CapacityProbe
      <4> QED
        BY <2>4, <4>1, <4>2, <4>3 DEF CapacityProbe
    <3> QED
      BY <2>4, <3>1, <3>2 DEF CapacityProbe
  <2>5. CASE UNCHANGED vars
    BY <2>5 DEF vars
  <2> QED
    BY <2>1, <2>3, <2>4, <2>5 DEF Next
<1> QED
  BY <1>1, <1>2, PTL DEF Spec

(***************************************************************************)
(* What the gate knows while it is still probing: every attempt before     *)
(* this one ended in a probe that was not healthy, this one has shown      *)
(* nothing yet, or a healthy liveness probe and nothing else.              *)
(***************************************************************************)
FailedIn(probes, a) == \/ <<a, "liveness", FALSE>> \in probes
                       \/ <<a, "capacity", FALSE>> \in probes
                       \/ baseline /\ ~ceiling

Verified ==
    /\ \A s \in seen : s[1] <= attempt
    /\ pc \in {"probe", "capacity"} => \A a \in 1..attempt - 1 : FailedIn(seen, a)
    /\ pc = "probe" => \A s \in seen : s[1] < attempt
    /\ pc = "capacity" => /\ <<attempt, "liveness", TRUE>> \in seen
                          /\ <<attempt, "liveness", FALSE>> \notin seen
    /\ RecoveredIsVerified
    /\ InvalidIsExhausted

\* Attempts that failed stay failed, and this one joins them.
LEMMA OneMoreFailed ==
    ASSUME TypeOK, attempt \in 1..Attempts, seen \subseteq seen',
           \A a \in 1..attempt - 1 : FailedIn(seen, a),
           FailedIn(seen', attempt)
    PROVE  \A a \in 1..attempt : FailedIn(seen', a)
<1> SUFFICES ASSUME NEW a \in 1..attempt PROVE FailedIn(seen', a)
  OBVIOUS
<1>1. CASE a = attempt
  BY <1>1
<1>2. CASE a # attempt
  <2>1. a \in 1..attempt - 1
    BY <1>2, RecoveryAssumption
  <2> QED
    BY <2>1 DEF FailedIn
<1> QED
  BY <1>1, <1>2

\* A failed attempt is one more failed attempt, or the last one.
LEMMA AgainKeeps ==
    ASSUME TypeOK, TypeOK', pc \in {"probe", "capacity"}, status = "valid", Again,
           UNCHANGED configured,
           \A s \in seen' : s[1] <= attempt,
           \A a \in 1..attempt : FailedIn(seen', a)
    PROVE  Verified'
<1>1. attempt \in Nat /\ \A s \in seen' : s[1] \in Int
  BY RecoveryAssumption DEF TypeOK
<1>2. CASE attempt < Attempts
  <2>1. pc' = "probe" /\ attempt' = attempt + 1 /\ status' = "valid"
    BY <1>2 DEF Again
  <2>2. \A s \in seen' : s[1] < attempt'
    BY <1>1, <2>1
  <2>3. attempt' - 1 = attempt
    BY <1>1, <2>1
  <2>4. (\A a \in 1..attempt - 1 : FailedIn(seen, a))'
    BY <2>3 DEF FailedIn
  <2> QED
    BY <1>1, <2>1, <2>2, <2>4 DEF Verified, RecoveredIsVerified, InvalidIsExhausted
<1>3. CASE ~(attempt < Attempts)
  <2>1. pc' = "unrecovered" /\ status' = "invalid" /\ attempt' = attempt /\ attempt = Attempts
    BY <1>3, RecoveryAssumption DEF Again, TypeOK
  <2> QED
    BY <2>1 DEF Verified, RecoveredIsVerified, InvalidIsExhausted, FailedIn
<1> QED
  BY <1>2, <1>3

\* The strengthening is inductive.
LEMMA VerifiedInductive == Spec => []Verified
<1>1. Init => Verified
  BY DEF Init, Verified, RecoveredIsVerified, InvalidIsExhausted
<1>2. TypeOK /\ TypeOK' /\ Verified /\ [Next]_vars => Verified'
  <2> SUFFICES ASSUME TypeOK, TypeOK', Verified, [Next]_vars PROVE Verified'
    OBVIOUS
  <2>0. UNCHANGED configured
    BY DEF Next, Call, ProbeOnce, CapacityProbe, vars
  <2> USE <2>0
  <2>1. CASE Call
    BY <2>1 DEF Call, Verified, TypeOK, RecoveredIsVerified, InvalidIsExhausted
  <2>2. CASE ProbeOnce
    <3> PICK p \in Probes :
             /\ seen' = seen \cup {<<attempt, "liveness", Healthy(p)>>}
             /\ IF Healthy(p) THEN pc' = "capacity" /\ UNCHANGED <<attempt, status>> ELSE Again
      BY <2>2 DEF ProbeOnce
    <3>1. pc = "probe" /\ status = "valid" /\ attempt \in 1..Attempts
      BY <2>2 DEF ProbeOnce, Verified, InvalidIsExhausted, TypeOK
    <3>2. \A s \in seen : s[1] < attempt
      BY <3>1 DEF Verified
    <3>3. \A s \in seen' : s[1] <= attempt
      BY <3>1, <3>2, RecoveryAssumption DEF TypeOK
    <3>4. \A a \in 1..attempt - 1 : FailedIn(seen', a)
      BY <3>1 DEF Verified, FailedIn
    <3>5. CASE Healthy(p)
      <4>1. pc' = "capacity" /\ attempt' = attempt /\ status' = status
        BY <3>5
      <4>2. <<attempt, "liveness", TRUE>> \in seen' /\ <<attempt, "liveness", FALSE>> \notin seen'
        <5>1. Healthy(p) = TRUE
          BY <3>5, TestsAreBoolean
        <5>2. <<attempt, "liveness", FALSE>> \notin seen
          BY <3>1, <3>2, RecoveryAssumption DEF TypeOK
        <5> QED
          BY <5>1, <5>2
      <4> QED
        BY <3>1, <3>3, <3>4, <4>1, <4>2 DEF Verified, RecoveredIsVerified, InvalidIsExhausted, FailedIn
    <3>6. CASE ~Healthy(p)
      <4>1. <<attempt, "liveness", FALSE>> \in seen'
        BY <3>6, TestsAreBoolean
      <4>2. \A a \in 1..attempt : FailedIn(seen', a)
        <5>1. \A a \in 1..attempt - 1 : FailedIn(seen, a)
          BY <3>1 DEF Verified
        <5> QED
          BY <3>1, <4>1, <5>1, OneMoreFailed DEF FailedIn
      <4> QED
        BY <3>1, <3>3, <3>6, <4>2, AgainKeeps
    <3> QED BY <3>5, <3>6
  <2>3. CASE CapacityProbe
    <3>1. pc = "capacity" /\ status = "valid" /\ attempt \in 1..Attempts
      BY <2>3 DEF CapacityProbe, Verified, InvalidIsExhausted, TypeOK
    <3>2. /\ <<attempt, "liveness", TRUE>> \in seen /\ <<attempt, "liveness", FALSE>> \notin seen
          /\ \A a \in 1..attempt - 1 : FailedIn(seen, a)
          /\ \A s \in seen : s[1] <= attempt
      BY <3>1 DEF Verified
    <3>3. CASE Unchecked /\ pc' = "recovered" /\ UNCHANGED <<attempt, capacity, status, seen>>
      BY <3>1, <3>2, <3>3 DEF Verified, RecoveredIsVerified, InvalidIsExhausted, Unchecked
    <3>4. CASE ~Unchecked /\ ~ceiling /\ Again /\ UNCHANGED <<capacity, seen>>
      <4>1. \A a \in 1..attempt : FailedIn(seen', a)
        BY <3>2, <3>4, RecoveryAssumption DEF FailedIn, Unchecked
      <4> QED
        BY <3>1, <3>2, <3>4, <4>1, AgainKeeps
    <3>5. ASSUME ~Unchecked, ceiling, NEW p \in CapacityProbes,
                 seen' = seen \cup {<<attempt, "capacity", Sustained(p)>>},
                 IF Sustained(p)
                 THEN pc' = "recovered" /\ UNCHANGED <<attempt, status>>
                 ELSE Again
          PROVE  Verified'
      <4>1. \A s \in seen' : s[1] <= attempt
        BY <3>1, <3>2, <3>5, RecoveryAssumption
      <4>2. CASE Sustained(p)
        <5>1. /\ <<attempt, "capacity", TRUE>> \in seen'
              /\ <<attempt, "liveness", TRUE>> \in seen'
              /\ <<attempt, "liveness", FALSE>> \notin seen'
          BY <3>2, <3>5, <4>2, TestsAreBoolean
        <5> QED
          BY <3>1, <3>5, <4>1, <4>2, <5>1
             DEF Verified, RecoveredIsVerified, InvalidIsExhausted, Unchecked
      <4>3. CASE ~Sustained(p)
        <5>1. <<attempt, "capacity", FALSE>> \in seen'
          BY <3>5, <4>3, TestsAreBoolean
        <5>2. \A a \in 1..attempt : FailedIn(seen', a)
          BY <3>1, <3>2, <3>5, <5>1, OneMoreFailed DEF FailedIn
        <5> QED
          BY <3>1, <3>5, <4>1, <4>3, <5>2, AgainKeeps
      <4> QED BY <4>2, <4>3
    <3> QED
      BY <2>3, <3>3, <3>4, <3>5 DEF CapacityProbe
  <2>4. CASE UNCHANGED vars
    <3>1. /\ pc' = pc /\ attempt' = attempt /\ status' = status /\ seen' = seen
      BY <2>4 DEF vars
    <3> QED
      BY <3>1 DEF Verified, RecoveredIsVerified, InvalidIsExhausted, FailedIn
  <2> QED
    BY <2>1, <2>2, <2>3, <2>4 DEF Next
<1> QED
  BY TypeCorrect, <1>1, <1>2, PTL DEF Spec

\* A phase starts only on an attempt that passed every configured probe.
THEOREM GateIsSound == Spec => []RecoveredIsVerified
<1>1. Verified => RecoveredIsVerified
  BY DEF Verified
<1> QED
  BY VerifiedInductive, <1>1, PTL

\* A subject is given up only after every attempt failed.
THEOREM GateIsPatient == Spec => []InvalidIsExhausted
<1>1. Verified => InvalidIsExhausted
  BY DEF Verified
<1> QED
  BY VerifiedInductive, <1>1, PTL

\* A baseline is set once and never moves.
THEOREM BaselinesAreFixed == Spec => BaselinesStay
<1>1. [Next]_vars => /\ ttft # None => ttft' = ttft
                     /\ capacity # <<>> => capacity' = capacity
  <2> SUFFICES ASSUME [Next]_vars
               PROVE  /\ ttft # None => ttft' = ttft
                      /\ capacity # <<>> => capacity' = capacity
    OBVIOUS
  <2>1. CASE Call
    BY <2>1 DEF Call
  <2>2. CASE ProbeOnce
    BY <2>2 DEF ProbeOnce, FirstHealthy
  <2>3. CASE CapacityProbe
    BY <2>3 DEF CapacityProbe
  <2>4. CASE UNCHANGED vars
    BY <2>4 DEF vars
  <2> QED
    BY <2>1, <2>2, <2>3, <2>4 DEF Next
<1> QED
  BY <1>1, PTL DEF Spec, BaselinesStay
=============================================================================
