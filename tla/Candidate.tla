------------------------------ MODULE Candidate ------------------------------
(***************************************************************************)
(* One confirmation candidate: the body of the executor's loop over the    *)
(* candidates.  Load runs one repetition at a time; between repetitions    *)
(* the planned looks that the collected requests have reached are taken,   *)
(* a passing look is retained until the minimum exposure is met and may be *)
(* vetoed by the rest of the data, and caps stop the candidate.  A suspect *)
(* point drops everything collected, once, and starts over after recovery. *)
(*                                                                         *)
(* The requests are kept in the order they were scheduled, each with its   *)
(* class and whether it counted against the SLO.  Time is counted in the   *)
(* seconds that count against max_duration_s.                              *)
(***************************************************************************)
EXTENDS LookPlan, Validity, Sequences

CONSTANTS
    Recovery,       \* isolation.recovery_probe is configured
    ClosedLoop,     \* concurrency sweep (a rate sweep otherwise)
    RepSizes,       \* how many requests a repetition may schedule in its window
    RepSeconds,     \* the length of its measurement window
    WarmupSeconds,  \* warmup_s, spent before every window
    Drains,         \* how long the requests in flight may take after the window
    Estimate,       \* est_per_rep: requests a repetition is expected to bring
    MaxRequests,    \* confirmation.max_requests, 0 for `auto`
    MaxSeconds,     \* confirmation.max_duration_s, 0 for `auto`
    MaxReps,        \* confirmation.max_repetitions, 0 for none
    MinSeconds,     \* confirmation.min_steady_state_duration_s
    HeavyOneIn,     \* a throttle rate of one in this many is severe and suspect
    SevereMinN,     \* SEVERE_MIN_N
    Spent           \* seconds earlier candidates may have used of MaxSeconds

ASSUME CandidateAssumption ==
    /\ Recovery \in BOOLEAN /\ ClosedLoop \in BOOLEAN
    /\ RepSizes \subseteq Nat /\ Drains \subseteq Nat /\ Spent \subseteq Nat
    /\ {RepSeconds, HeavyOneIn} \subseteq Nat \ {0}
    /\ {WarmupSeconds, Estimate, MaxRequests, MaxSeconds, MaxReps, MinSeconds,
        SevereMinN} \subseteq Nat

VARIABLES
    pc,           \* where the coroutine is
    stream,       \* the requests measured at this candidate and not dropped
    latest,       \* how many of them the repetitions before the last one brought
    reps,         \* len(state["windows"])
    limited,      \* state["peak"] > executor_workers
    low,          \* served below half the provider ceiling
    looks_used,   \* looks spent on this stream
    passed_look,  \* the look whose PASS is retained, 0 for none
    retries,      \* suspect_retries
    elapsed,      \* perf_counter() - started
    status,       \* validity["status"]
    verdict, reason,  \* the ConfirmationResult, "none" until there is one
    tests         \* history: looks evaluated at this candidate, dropped data included

data   == <<stream, latest, reps, limited, low>>
looks  == <<looks_used, passed_look, tests>>
result == <<status, verdict, reason>>
vars   == <<pc, data, looks, retries, elapsed, result>>

Requests == [class : Classes, bad : BOOLEAN]

-----------------------------------------------------------------------------
(* The metrics a decision reads, over a set I of positions in the stream.  *)

Everything   == 1..Len(stream)
Window       == latest + 1..Len(stream)
Of(c, I)     == {i \in I : stream[i].class = c}
BadIn(I)     == {i \in I : stream[i].bad}
Size(I)      == Cardinality(I)
Share(c, I)  == Size(Of(c, I))

\* look_sample: the first Need[j][c] requests of each class.
WholeStream(j) == Everything  \* mutant of Sample: a look reads all the data there is

Sample(j) == {i \in Everything :
                 Share(stream[i].class, 1..i) <= Need[j][stream[i].class]}
PostLook(j) == Everything \ Sample(j)

\* point_verdict over the classes that cs names; a client-limited point FAILs.
VerdictOn(I, cs) ==
    IF limited THEN "FAIL"
    ELSE Combine({ClassVerdict(c, Share(c, I), Size(BadIn(Of(c, I)))) : c \in cs})

LookVerdict(j) == VerdictOn(Sample(j), Classes)

Heavy(I)  == Size(BadIn(I)) * HeavyOneIn >= Size(I) /\ Size(I) > 0
Severe(I) == Size(I) >= SevereMinN /\ Heavy(I)

\* suspect_point: throttled hard while served far below the provider ceiling.
Suspect == low /\ Heavy(Everything)

\* The checks that may veto a retained PASS: a class the rows do not hold
\* supplies no evidence.
AllClasses(I) == Classes  \* mutant of Present: an absent class is judged on nothing
Present(I)    == {c \in Classes : Of(c, I) # {}}

Vetoes(I) ==
    /\ I # {}
    /\ \/ VerdictOn(I, Present(I)) = "FAIL"
       \/ Severe(I)
       \/ \E c \in Present(I) : Severe(Of(c, I))

VetoedByTotal(j) == Vetoes(Everything)  \* mutant of Vetoed: the post-look data is not checked

Vetoed(j) == \E I \in {Everything, Window, PostLook(j)} : Vetoes(I)

-----------------------------------------------------------------------------
(* step(): the looks the stream has reached are taken in order until one of *)
(* them decides.                                                           *)

Due == {j \in looks_used + 1..MaxLooks :
            \A c \in Classes : Share(c, Everything) >= Need[j][c]}
Decisive == {j \in Due : LookVerdict(j) # "INCONCLUSIVE"}

Taken == IF passed_look # 0 THEN looks_used
         ELSE IF Decisive # {} THEN Min(Decisive)
         ELSE looks_used + Size(Due)

\* What the last of k looks taken says of the candidate.
PassAt(k) == IF passed_look # 0 THEN passed_look
             ELSE IF k \in Decisive /\ LookVerdict(k) = "PASS" THEN k ELSE 0
FailAt(k) == passed_look = 0 /\ k \in Decisive /\ LookVerdict(k) = "FAIL"

-----------------------------------------------------------------------------
(* candidate_caps and reachable.                                           *)

PerRep == WarmupSeconds + RepSeconds

Ceil(a, b)  == (a + b - 1) \div b
Margin(x)   == Ceil(5 * x, 4)  \* AUTO_MARGIN

ExposureReps == Ceil(MinSeconds, RepSeconds)
Wanted       == Larger(Schedule[MaxLooks], ExposureReps * Estimate)
RequestCap   == IF MaxRequests = 0 THEN Margin(Wanted) ELSE MaxRequests
Budget ==
    IF MaxSeconds # 0 THEN MaxSeconds
    ELSE IF Estimate = 0 THEN 0
    ELSE Margin(Ceil(IF Wanted <= RequestCap THEN Wanted ELSE RequestCap, Estimate) * PerRep)

Remaining == Budget - elapsed

\* min(rep_cap - reps, int(remaining // per_rep)); no repetition cap when MaxReps = 0.
MoreReps(done) ==
    LET byTime == Remaining \div PerRep
    IN  IF MaxReps # 0 /\ MaxReps - done < byTime THEN MaxReps - done ELSE byTime

OutOfMoney == Remaining <= 0  \* mutant of OutOfTime: a repetition needs no time
OutOfTime  == Remaining < PerRep

Reachable == /\ Estimate > 0
             /\ RequestCap >= Schedule[1]
             /\ Estimate * MoreReps(0) >= Schedule[1]

\* max_n < look_schedule[looks_used], with max_n extrapolated from n / reps.
OutOfReach(look) ==
    \/ RequestCap < Schedule[look + 1]
    \/ Len(stream) * (reps + MoreReps(reps)) < Schedule[look + 1] * reps

\* The stop reason after k looks with look p retained, "none" to keep measuring.
\* A retained PASS is neither tested again nor stopped for want of a look.
CapReason(k, p) ==
    IF Severe(Everything) THEN "stopped_severe_throttling"
    ELSE IF MaxReps # 0 /\ reps >= MaxReps THEN "max_repetitions"
    ELSE IF Len(stream) >= RequestCap THEN "max_requests"
    ELSE IF OutOfTime THEN "max_duration"
    ELSE IF p = 0 /\ OutOfReach(k) THEN "unreachable_within_caps"
    ELSE "none"

StopReason(k, p) ==
    IF p # 0
    THEN IF Vetoed(p) THEN "post_look_violation"
         ELSE IF reps * RepSeconds >= MinSeconds THEN "confirmed"
         ELSE CapReason(k, p)
    ELSE IF FailAt(k) THEN "violation_demonstrated"
    ELSE IF k >= MaxLooks THEN "looks_exhausted"
    ELSE CapReason(k, p)

\* Mutant of VerdictOf: a veto is reported as a failure.
VetoFails(r) == CASE r = "confirmed" -> "PASS"
                  [] r \in {"violation_demonstrated", "post_look_violation"} -> "FAIL"
                  [] OTHER -> "INCONCLUSIVE"

VerdictOf(r) == CASE r = "confirmed"              -> "PASS"
                  [] r = "violation_demonstrated" -> "FAIL"
                  [] OTHER                        -> "INCONCLUSIVE"

-----------------------------------------------------------------------------
Init ==
    /\ pc = "recover"
    /\ stream = <<>> /\ latest = 0 /\ reps = 0 /\ limited = FALSE /\ low = FALSE
    /\ looks_used = 0 /\ passed_look = 0 /\ tests = 0
    /\ retries = IF Recovery THEN 1 ELSE 0
    /\ elapsed \in IF MaxSeconds = 0 THEN {0} ELSE Spent
    /\ status \in Statuses \ {"invalid", "suspect_non_monotonic"}
    /\ verdict = "none" /\ reason = "none"

\* Mutant of Finish: the loop is not left.
FinishInLoop(r, s) == UNCHANGED pc /\ reason' = r /\ verdict' = VerdictOf(r) /\ status' = s

\* The candidate ends: r is its stop reason, s the validity it leaves behind.
Finish(r, s) == /\ pc' = "done"
                /\ reason' = r
                /\ verdict' = VerdictOf(r)
                /\ status' = s

\* recover() before the candidate; an unrecovered provider ends it at once.
RecoverFirst ==
    /\ pc = "recover"
    /\ \/ pc' = "plan" /\ UNCHANGED result
       \/ Recovery /\ Finish("provider_state_invalid", "invalid")
    /\ UNCHANGED <<data, looks, retries, elapsed>>

\* The caps are fixed; a first look they cannot reach costs no request.
CheckCaps ==
    /\ pc = "plan"
    /\ IF Reachable THEN pc' = "measure" /\ UNCHANGED result
                    ELSE Finish("unreachable_within_caps", status)
    /\ UNCHANGED <<data, looks, retries, elapsed>>

\* One repetition of load: its requests join the stream.  `fault` is the
\* overrun of the closed loop's concurrency, or calls that queued for a thread.
Measure ==
    /\ pc = "measure"
    /\ \E n \in RepSizes, d \in Drains, fault \in BOOLEAN, slow \in BOOLEAN :
       \E rows \in [1..n -> Requests] :
          /\ stream' = stream \o rows
          /\ latest' = Len(stream)
          /\ reps' = reps + 1
          /\ elapsed' = elapsed + PerRep + d
          /\ limited' = (limited \/ (fault /\ ~ClosedLoop))
          /\ low' = slow
          /\ IF fault /\ ClosedLoop
             THEN Finish("provider_state_invalid", "invalid")
             ELSE pc' = "judge" /\ UNCHANGED result
    /\ UNCHANGED <<looks, retries>>

\* The suspect signature is a control signal, once, before any look is taken.
BeginRestart ==
    /\ pc = "judge" /\ retries > 0 /\ Suspect
    /\ retries' = retries - 1
    /\ pc' = "restart"
    /\ UNCHANGED <<data, looks, elapsed, result>>

FreshLooks == looks_used' = 0 /\ passed_look' = 0

\* recover() after the suspect point: invalidate() drops the data either way,
\* and a recovered provider starts the candidate over.
Restart ==
    /\ pc = "restart"
    /\ stream' = <<>> /\ latest' = 0 /\ reps' = 0 /\ limited' = FALSE /\ low' = FALSE
    /\ \/ /\ pc' = "measure"
          /\ FreshLooks
          /\ UNCHANGED <<tests, result>>
       \/ Finish("provider_state_invalid", "invalid") /\ UNCHANGED looks
    /\ UNCHANGED <<retries, elapsed>>

\* Mutant of JudgedStatus: any stop accepts a suspect point as reproduced.
AnySuspect(r) == IF Recovery /\ Suspect THEN Reproduced(status) ELSE status

\* What the judged repetition leaves of validity["status"].
JudgedStatus(r) ==
    LET seen == IF r = "post_look_violation" THEN Unsteady(status) ELSE status
    IN  IF Recovery /\ r \in Accepted /\ Suspect THEN Reproduced(seen) ELSE seen

\* step(), the vetoes, the minimum exposure and the caps, in that order.
Judge ==
    /\ pc = "judge" /\ ~(retries > 0 /\ Suspect)
    /\ \E k \in {Taken} : \E p \in {PassAt(k)} : \E r \in {StopReason(k, p)} :
          /\ looks_used' = k
          /\ passed_look' = p
          /\ tests' = tests + (k - looks_used)
          /\ IF r = "none" THEN pc' = "measure" /\ UNCHANGED result
                           ELSE Finish(r, JudgedStatus(r))
    /\ UNCHANGED <<data, retries, elapsed>>

Done == pc = "done" /\ UNCHANGED vars

Next == RecoverFirst \/ CheckCaps \/ Measure \/ BeginRestart \/ Restart \/ Judge \/ Done

\* The event loop always runs the coroutine on: every await returns.
Spec == Init /\ [][Next]_vars /\ WF_vars(Next)
-----------------------------------------------------------------------------
(* Properties.                                                             *)

Pcs == {"recover", "plan", "measure", "judge", "restart", "done"}

\* The candidate's state is well formed: bookkeeping and stream agree on what
\* was collected, and a result exists exactly when the loop has ended.
TypeOK ==
    /\ pc \in Pcs
    /\ stream \in Seq(Requests)
    /\ latest \in 0..Len(stream)
    /\ {reps, elapsed, tests} \subseteq Nat
    /\ {limited, low} \subseteq BOOLEAN
    /\ looks_used \in 0..MaxLooks
    /\ passed_look \in 0..looks_used
    /\ retries \in 0..1
    /\ status \in Statuses
    /\ verdict \in Verdicts \cup {"none"}
    /\ reason \in Stops \cup {"none"}
    /\ pc = "done" <=> verdict # "none"

\* Fixed-count looks: however much is collected later, each look spent on this
\* stream had reached its count and was undecided on exactly its first Need
\* requests, except the last one, which may have decided; a retained PASS is
\* still the verdict of that sample.  (A client-limited candidate FAILs every
\* look it takes from then on, whatever its sample says.)
LooksStandAsTaken ==
    reason # "provider_state_invalid" =>
    /\ \A k \in 1..looks_used :
          /\ \A c \in Classes : Share(c, Everything) >= Need[k][c]
          /\ limited \/ k = looks_used \/ LookVerdict(k) = "INCONCLUSIVE"
    /\ passed_look # 0 => /\ passed_look = looks_used
                          /\ limited \/ LookVerdict(passed_look) = "PASS"

\* Of the requests in I, those of some class show a violation; a class with none
\* shows nothing.
Against(I) == \E c \in Classes :
                  /\ Of(c, I) # {}
                  /\ ClassVerdict(c, Share(c, I), Size(BadIn(Of(c, I)))) = "FAIL"

\* A verdict is a statistical result.  PASS comes from a look that passed on its
\* own sample, with every earlier look undecided, the minimum exposure behind it,
\* and nothing in all the data or in the requests after the look against it;
\* FAIL from a look that failed on its own sample, never from a cap, a veto or
\* the early stop.  A veto takes a PASS back only for requests that are there.
VerdictIsEarned ==
    /\ verdict = "PASS" =>
          /\ passed_look \in 1..MaxLooks
          /\ LookVerdict(passed_look) = "PASS"
          /\ \A k \in 1..passed_look - 1 : LookVerdict(k) = "INCONCLUSIVE"
          /\ reps * RepSeconds >= MinSeconds
          /\ ~Against(PostLook(passed_look))
          /\ ~limited /\ ~Severe(Everything)
    /\ verdict = "FAIL" =>
          /\ looks_used \in 1..MaxLooks
          /\ LookVerdict(looks_used) = "FAIL"
          /\ passed_look = 0
    /\ reason = "post_look_violation" =>
          /\ passed_look \in 1..MaxLooks
          /\ \/ limited
             \/ \E I \in {Everything, Window, PostLook(passed_look)} :
                   Against(I) \/ Severe(I) \/ \E c \in Classes : Severe(Of(c, I))

\* No repetition starts beyond a cap: requests and repetitions of the data now
\* held, and, unless the candidate was restarted, the time left of its budget.
CapsBeforeLoad ==
    pc = "measure" =>
    /\ Len(stream) < RequestCap
    /\ MaxReps = 0 \/ reps < MaxReps
    /\ ~Severe(Everything)
    /\ (Recovery => retries = 1) => Remaining >= PerRep

\* The candidate test settles exactly as the subject's confirmation loop
\* relies on.
Contract == INSTANCE CandidateContract
ContractSpec == Contract!Spec

\* Caps, looks and the single restart end every candidate.
Terminates == <>(pc = "done")

\* analysis/confirmation.py: "With K candidates there are L x K tests in all":
\* one candidate takes no more than L looks.
AtMostLTests == tests <= MaxLooks
=============================================================================
