------------------------------ MODULE Recovery ------------------------------
(***************************************************************************)
(* recover(): the gate every phase of a subject passes.  After a fixed     *)
(* interval it probes the provider at low load, and if that looks healthy  *)
(* and a baseline rate is configured it probes again at that rate; an      *)
(* attempt that fails either probe is followed by another, up to           *)
(* max_attempts, and then the subject is invalid.  Both probes compare     *)
(* with the first healthy probe of their kind in this subject.             *)
(*                                                                         *)
(* A probe is abstracted to the tests it is judged by: latencies and       *)
(* goodputs are small numbers, 0 for Python's None, the rates are whether  *)
(* they are within their configured limit.                                 *)
(***************************************************************************)
EXTENDS Validity, Integers

CONSTANTS
    Attempts,    \* rp.max_attempts
    Ratio,       \* rp.max_ttft_ratio
    KeepOf,      \* rp.baseline_goodput_ratio is Keep / KeepOf
    Keep,
    Offered,     \* the rate of the baseline probe
    Limit,       \* the SLO's limit on its latency, None when unset
    Latencies,   \* latencies a probe may show, and its goodputs
    Goodputs,
    Calls        \* bound: how often the subject recovers

None == 0

ASSUME RecoveryAssumption ==
    /\ {Attempts, Ratio, KeepOf, Calls} \subseteq Nat \ {0}
    /\ {Keep, Offered, Limit} \subseteq Nat
    /\ Latencies \subseteq Nat /\ Goodputs \subseteq Nat

VARIABLES
    pc,        \* where the coroutine is
    attempt,   \* the attempt being made
    ttft,      \* baseline_ttft["ms"]
    capacity,  \* baseline_capacity: its goodput and latency, None when unset
    status,    \* validity["status"]
    configured,  \* rp.baseline_fraction, and a known rps in provider_ceilings
    calls,     \* how often recover() was called
    seen       \* history: the probes of the current call, in a set

vars == <<pc, attempt, ttft, capacity, status, configured, calls, seen>>

baseline == "baseline" \in configured
ceiling  == "ceiling" \in configured

-----------------------------------------------------------------------------
\* The liveness probe: nonempty, within both rates, and not much slower than
\* the first healthy one.  `latency` is its TTFT p50, or its latency p50.
Probes == [rates : BOOLEAN, latency : Latencies]

Healthy(p) == p.rates /\ ~(p.latency > ttft * Ratio /\ p.latency # None /\ ttft # None)

\* The baseline probe: enough requests within both rates, goodput near the
\* offered rate, latency measured and within the SLO, and neither much worse
\* than in the first healthy one.
CapacityProbes == [rates : BOOLEAN, goodput : Goodputs, latency : Latencies]

Near(goodput, of) == goodput * KeepOf >= of * Keep

Sustained(p) ==
    /\ p.rates /\ p.goodput # None /\ Near(p.goodput, Offered)
    /\ p.latency # None /\ (Limit = None \/ p.latency <= Limit)
    /\ capacity # <<>> => /\ Near(p.goodput, capacity[1])
                          /\ p.latency <= capacity[2] * Ratio

-----------------------------------------------------------------------------
Init == /\ pc = "idle" /\ attempt = 0
        /\ ttft = None /\ capacity = <<>>
        /\ status = "valid" /\ calls = 0 /\ seen = {}
        /\ configured \in SUBSET {"baseline", "ceiling"}

\* The caller waits for recovery; an invalid subject does not come back.
Call == /\ pc \in {"idle", "recovered"} /\ calls < Calls
        /\ pc' = "probe" /\ attempt' = 1 /\ calls' = calls + 1 /\ seen' = {}
        /\ UNCHANGED <<ttft, capacity, status, configured>>

\* Mutant of Again: one attempt too few.
OneLess == IF attempt + 1 < Attempts
           THEN pc' = "probe" /\ attempt' = attempt + 1 /\ UNCHANGED status
           ELSE pc' = "unrecovered" /\ status' = "invalid" /\ UNCHANGED attempt

\* An attempt failed: another one, or the provider never recovered.
Again == IF attempt < Attempts
         THEN pc' = "probe" /\ attempt' = attempt + 1 /\ UNCHANGED status
         ELSE pc' = "unrecovered" /\ status' = "invalid" /\ UNCHANGED attempt

LastHealthy(p)  == Healthy(p)  \* mutant of FirstHealthy: the baseline follows the provider
FirstHealthy(p) == Healthy(p) /\ ttft = None

ProbeOnce ==
    /\ pc = "probe"
    /\ \E p \in Probes :
          /\ seen' = seen \cup {<<attempt, "liveness", Healthy(p)>>}
          /\ ttft' = IF FirstHealthy(p) THEN p.latency ELSE ttft
          /\ IF Healthy(p) THEN pc' = "capacity" /\ UNCHANGED <<attempt, status>> ELSE Again
    /\ UNCHANGED <<capacity, configured, calls>>

CheckedOnce == ~baseline \/ capacity # <<>>  \* mutant of Unchecked: one check is enough
Unchecked   == ~baseline

\* Without a baseline there is nothing to check; without a ceiling it cannot be.
CapacityProbe ==
    /\ pc = "capacity"
    /\ \/ /\ Unchecked
          /\ pc' = "recovered"
          /\ UNCHANGED <<attempt, capacity, status, seen>>
       \/ ~Unchecked /\ ~ceiling /\ Again /\ UNCHANGED <<capacity, seen>>
       \/ /\ ~Unchecked /\ ceiling
          /\ \E p \in CapacityProbes :
                /\ seen' = seen \cup {<<attempt, "capacity", Sustained(p)>>}
                /\ IF Sustained(p)
                   THEN /\ capacity' = IF capacity = <<>> THEN <<p.goodput, p.latency>> ELSE capacity
                        /\ pc' = "recovered"
                        /\ UNCHANGED <<attempt, status>>
                   ELSE Again /\ UNCHANGED capacity
    /\ UNCHANGED <<ttft, configured, calls>>

Next == Call \/ ProbeOnce \/ CapacityProbe

Spec == Init /\ [][Next]_vars /\ WF_vars(ProbeOnce \/ CapacityProbe)
-----------------------------------------------------------------------------
(* Properties.                                                             *)

Kinds == {"liveness", "capacity"}

\* The gate's state is well formed.
TypeOK ==
    /\ pc \in {"idle", "probe", "capacity", "recovered", "unrecovered"}
    /\ attempt \in 0..Attempts
    /\ pc \in {"probe", "capacity"} => attempt \in 1..Attempts
    /\ ttft \in Nat
    /\ capacity \in {<<>>} \cup (Nat \X Nat)
    /\ status \in {"valid", "invalid"}
    /\ configured \subseteq {"baseline", "ceiling"} /\ calls \in Nat
    /\ seen \subseteq (1..Attempts) \X Kinds \X BOOLEAN

\* A phase starts only on an attempt in which every probe that is configured
\* was healthy; a healthy liveness probe does not carry over to the capacity
\* probe of a later attempt.
RecoveredIsVerified ==
    pc = "recovered" =>
    /\ <<attempt, "liveness", TRUE>> \in seen
    /\ <<attempt, "liveness", FALSE>> \notin seen
    /\ baseline => ceiling /\ <<attempt, "capacity", TRUE>> \in seen

\* A subject is invalid exactly when a gate has failed: every attempt was made
\* and each of them ended in a probe that was not healthy.
InvalidIsExhausted ==
    /\ status = "invalid" <=> pc = "unrecovered"
    /\ pc = "unrecovered" =>
          /\ attempt = Attempts
          /\ \A a \in 1..Attempts : \/ <<a, "liveness", FALSE>> \in seen
                                    \/ <<a, "capacity", FALSE>> \in seen
                                    \/ baseline /\ ~ceiling

\* The baselines do not creep: each is set once, by the first healthy probe of
\* its kind, so a provider slowing down a little at a time is noticed.
BaselinesStay == [][/\ ttft # None => ttft' = ttft
                    /\ capacity # <<>> => capacity' = capacity]_vars
=============================================================================
