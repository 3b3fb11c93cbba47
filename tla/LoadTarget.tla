------------------------------ MODULE LoadTarget ------------------------------
(***************************************************************************)
(* The load generator and the client it drives.  A runner's tasks live on  *)
(* the event loop: the workers of a closed loop fire, wait for the answer  *)
(* and fire again until the window closes, the arrivals of an open loop    *)
(* fire once each.  A fired call is submitted to a pool of threads, where  *)
(* the blocking SDK call runs; its task resumes on the loop some time      *)
(* after the thread is done.  The counters by which a measurement is       *)
(* judged are kept on both sides: outstanding calls on the loop, calls     *)
(* inside the SDK under a lock.                                            *)
(***************************************************************************)
EXTENDS Integers, FiniteSets

CONSTANTS
    Tasks,     \* the workers, or the arrivals, a run may have
    Threads,   \* executor_workers
    Pauses,    \* throttle_pause_s > 0
    Fires,     \* bound: requests one worker fires before its window closes
    Runs       \* bound: how many runs share the target

ASSUME LoadTargetAssumption ==
    /\ IsFiniteSet(Tasks)
    /\ {Threads, Fires, Runs} \subseteq Nat \ {0}
    /\ Pauses \in BOOLEAN

VARIABLES
    closed,       \* a ConcurrencyRunner drives this run; a RateRunner otherwise
    working,      \* the tasks it gathers
    stage,        \* where each task is
    fired,        \* requests it has fired in this run
    stored,       \* how many of the run's results are those of its requests
    open,         \* perf_counter() < end_at
    run,          \* the runs started so far
    outstanding, peak_outstanding,
    sdk_inflight, peak_sdk_inflight,
    queued        \* history: a call found every thread taken since reset_peak()

tasks   == <<stage, fired, stored>>
onLoop  == <<outstanding, peak_outstanding, queued>>
inSdk   == <<sdk_inflight, peak_sdk_inflight>>
runner  == <<closed, working, open, run>>
vars    == <<tasks, runner, onLoop, inSdk>>

\* A call's way: submitted, in the SDK, out of it with its thread still busy,
\* finished but not yet resumed.
Stages == {"ready", "submitted", "calling", "leaving", "finished", "pausing", "stopped"}

Higher(a, b) == IF a >= b THEN a ELSE b
At(s)   == {t \in Tasks : stage[t] \in s}
Busy    == At({"calling", "leaving"})
InFlight == At({"submitted", "calling", "leaving", "finished"})

sdk_limited    == peak_sdk_inflight > Threads  \* mutant of client_limited
client_limited == peak_outstanding > Threads

Move(t, s) == stage' = [stage EXCEPT ![t] = s]
-----------------------------------------------------------------------------
\* gather() over the workers or arrivals of a run.
Gathered(w) == [t \in Tasks |-> IF t \in w THEN "ready" ELSE "stopped"]

Init ==
    /\ closed \in BOOLEAN /\ working \in (SUBSET Tasks) \ {{}}
    /\ stage = Gathered(working) /\ fired = [t \in Tasks |-> 0] /\ stored = [t \in Tasks |-> 0]
    /\ open = TRUE /\ run = 1
    /\ outstanding = 0 /\ peak_outstanding = 0
    /\ sdk_inflight = 0 /\ peak_sdk_inflight = 0
    /\ queued = FALSE

\* From the loop condition, or the end of the arrival's sleep, to the await on
\* the pool there is no other await.
Fire(t) ==
    /\ stage[t] = "ready"
    /\ fired[t] < IF closed THEN Fires ELSE 1
    /\ closed => open
    /\ Move(t, "submitted")
    /\ fired' = [fired EXCEPT ![t] = @ + 1]
    /\ outstanding' = outstanding + 1
    /\ peak_outstanding' = Higher(peak_outstanding, outstanding + 1)
    /\ queued' = (queued \/ Cardinality(Busy) + Cardinality(At({"submitted"})) >= Threads)
    /\ UNCHANGED <<stored, runner, inSdk>>

\* A free thread takes the call into the SDK.
Enter(t) ==
    /\ stage[t] = "submitted" /\ Cardinality(Busy) < Threads
    /\ Move(t, "calling")
    /\ sdk_inflight' = sdk_inflight + 1
    /\ peak_sdk_inflight' = Higher(peak_sdk_inflight, sdk_inflight + 1)
    /\ UNCHANGED <<fired, stored, runner, onLoop>>

\* Mutant of Leave: a call that ends is not taken off the counter.
LeaveCounted(t) ==
    /\ stage[t] = "calling"
    /\ Move(t, "leaving")
    /\ UNCHANGED <<fired, stored, runner, onLoop, inSdk>>

\* The provider answered, refused or timed out: every outcome is a result.
Leave(t) ==
    /\ stage[t] = "calling"
    /\ Move(t, "leaving")
    /\ sdk_inflight' = sdk_inflight - 1
    /\ UNCHANGED <<fired, stored, runner, onLoop, peak_sdk_inflight>>

\* Mutant of Return: the stream and its wrapper both take the call off.
ReturnTwice(t) ==
    /\ stage[t] = "leaving"
    /\ Move(t, "finished")
    /\ sdk_inflight' = sdk_inflight - 1
    /\ UNCHANGED <<fired, stored, runner, onLoop, peak_sdk_inflight>>

Return(t) ==
    /\ stage[t] = "leaving"
    /\ Move(t, "finished")
    /\ UNCHANGED <<fired, stored, runner, onLoop, inSdk>>

\* Mutant of Resume: a call that failed leaves no result.
ResumeIfServed(t) ==
    /\ stage[t] = "finished"
    /\ outstanding' = outstanding - 1
    /\ stored' \in {stored, [stored EXCEPT ![t] = @ + 1]}
    /\ Move(t, IF closed THEN "ready" ELSE "stopped")
    /\ UNCHANGED <<fired, runner, peak_outstanding, queued, inSdk>>

\* The task resumes: the call is no longer outstanding and its result is kept.
\* A throttled worker may pause, an arrival is over.
Resume(t) ==
    /\ stage[t] = "finished"
    /\ outstanding' = outstanding - 1
    /\ stored' = [stored EXCEPT ![t] = @ + 1]
    /\ \/ ~closed /\ Move(t, "stopped")
       \/ closed /\ Move(t, "ready")
       \/ closed /\ Pauses /\ Move(t, "pausing")
    /\ UNCHANGED <<fired, runner, peak_outstanding, queued, inSdk>>

SleepOn(t) == stage[t] = "pausing" /\ UNCHANGED vars  \* mutant of Wake

Wake(t) ==
    /\ stage[t] = "pausing"
    /\ Move(t, "ready")
    /\ UNCHANGED <<fired, stored, runner, onLoop, inSdk>>

\* A worker that finds the window closed ends.
Stop(t) ==
    /\ closed /\ stage[t] = "ready" /\ ~open
    /\ Move(t, "stopped")
    /\ UNCHANGED <<fired, stored, runner, onLoop, inSdk>>

CloseWindow ==
    /\ open /\ open' = FALSE
    /\ UNCHANGED <<tasks, closed, working, run, onLoop, inSdk>>

\* gather() returns when every task has ended; the next run starts with
\* reset_peak() on the same target.
Over == At({"stopped"}) = Tasks

NextRun ==
    /\ Over /\ run < Runs
    /\ run' = run + 1
    /\ closed' \in BOOLEAN /\ working' \in (SUBSET Tasks) \ {{}}
    /\ stage' = Gathered(working') /\ open' = TRUE
    /\ fired' = [t \in Tasks |-> 0] /\ stored' = [t \in Tasks |-> 0]
    /\ peak_outstanding' = outstanding /\ peak_sdk_inflight' = sdk_inflight
    /\ queued' = FALSE
    /\ UNCHANGED <<outstanding, sdk_inflight>>

Ended == Over /\ run = Runs /\ UNCHANGED vars

Task(t) == Fire(t) \/ Enter(t) \/ Leave(t) \/ Return(t) \/ Resume(t) \/ Wake(t) \/ Stop(t)

Next == (\E t \in Tasks : Task(t)) \/ CloseWindow \/ NextRun \/ Ended

\* Time passes, the loop and the threads run, and a call that gets no answer
\* ends at its connect or read timeout.
Spec == /\ Init /\ [][Next]_vars
        /\ WF_vars(CloseWindow) /\ \A t \in Tasks : WF_vars(Task(t))
-----------------------------------------------------------------------------
(* Properties.                                                             *)

\* The state of the run and of the client is well formed.
TypeOK ==
    /\ closed \in BOOLEAN /\ working \subseteq Tasks
    /\ stage \in [Tasks -> Stages] /\ {fired, stored} \subseteq [Tasks -> Nat]
    /\ {run, outstanding, peak_outstanding, sdk_inflight, peak_sdk_inflight} \subseteq Nat
    /\ open \in BOOLEAN /\ queued \in BOOLEAN

\* The two counters, kept by different threads at different moments, agree with
\* the calls that are really in flight, and the peaks with the counters.
Accounting ==
    /\ outstanding = Cardinality(InFlight)
    /\ sdk_inflight = Cardinality(At({"calling"}))
    /\ sdk_inflight <= peak_sdk_inflight /\ peak_sdk_inflight <= Threads
    /\ outstanding <= peak_outstanding
    /\ peak_sdk_inflight <= peak_outstanding

\* A closed loop never has more calls in the SDK than its concurrency, so the
\* executor's concurrency check never fires on a run of its own, and with a
\* thread per worker it is never limited by the client.
ClosedLoopHolds ==
    closed => /\ peak_sdk_inflight <= Cardinality(working)
              /\ Cardinality(working) <= Threads => ~client_limited /\ ~queued

\* Calls that had to queue for a thread never go unnoticed.
NothingHidden == queued => client_limited

\* Nothing of a run leaks out of it: of every request a task fired the result is
\* recorded, once, except of the one that is still in flight, and when the run is
\* over nothing is left on the loop or in the SDK.
NothingLost ==
    /\ \A t \in Tasks : fired[t] = stored[t] + IF t \in InFlight THEN 1 ELSE 0
    /\ Over => outstanding = 0 /\ sdk_inflight = 0

\* Once the window has closed the run drains.
Drains == ~open ~> Over
=============================================================================
