--------------------------- MODULE LoadTarget_proofs ---------------------------
(***************************************************************************)
(* Theorems about LoadTarget, for any number of tasks, threads, requests   *)
(* and runs: the two sets of counters, kept on two sides of the thread     *)
(* pool, tell the truth about the calls in flight, and the verdicts a      *)
(* measurement takes from them are the right ones.                         *)
(***************************************************************************)
EXTENDS LoadTarget, FiniteSetTheorems, TLAPS

-----------------------------------------------------------------------------
(* How many tasks are at some stages.                                      *)

LEMMA Counts ==
    ASSUME NEW s
    PROVE  IsFiniteSet(At(s)) /\ Cardinality(At(s)) \in Nat
  BY FS_Subset, FS_CardinalityType, LoadTargetAssumption DEF At

\* One task moves: it counts where it goes and no longer where it was.
LEMMA OneMoves ==
    ASSUME NEW t \in Tasks, NEW to \in Stages, NEW s,
           stage \in [Tasks -> Stages], Move(t, to)
    PROVE  Cardinality(At(s)') = Cardinality(At(s)) + (IF to \in s THEN 1 ELSE 0)
                                                    - (IF stage[t] \in s THEN 1 ELSE 0)
<1>0. IsFiniteSet(At(s)) /\ Cardinality(At(s)) \in Nat
  BY Counts
<1>1. CASE to \in s /\ stage[t] \notin s
  <2>1. At(s)' = At(s) \cup {t} /\ t \notin At(s)
    BY <1>1 DEF At, Move
  <2>2. Cardinality(At(s) \cup {t}) = Cardinality(At(s)) + 1
    BY <1>0, <2>1, FS_AddElement
  <2> QED
    BY <1>0, <1>1, <2>1, <2>2
<1>2. CASE to \notin s /\ stage[t] \in s
  <2>1. At(s)' = At(s) \ {t} /\ t \in At(s)
    BY <1>2 DEF At, Move
  <2>2. Cardinality(At(s) \ {t}) = Cardinality(At(s)) - 1
    BY <1>0, <2>1, FS_RemoveElement
  <2> QED
    BY <1>0, <1>2, <2>1, <2>2
<1>3. CASE to \in s <=> stage[t] \in s
  <2>1. At(s)' = At(s)
    BY <1>3 DEF At, Move
  <2> QED
    BY <1>0, <1>3, <2>1
<1> QED
  BY <1>1, <1>2, <1>3

\* The stages of a call nest.
Nest ==
    /\ Cardinality(At({"calling"})) <= Cardinality(InFlight)
    /\ Cardinality(Busy) + Cardinality(At({"submitted"})) <= Cardinality(InFlight)
    /\ Cardinality(At({"calling"})) <= Cardinality(Busy)
    /\ {Cardinality(InFlight), Cardinality(Busy), Cardinality(At({"calling"}))} \subseteq Nat

LEMMA Nested == Nest
<1> USE DEF Nest
<1>1. At({"calling"}) \subseteq InFlight /\ At({"calling"}) \subseteq Busy
  BY DEF At, InFlight, Busy
<1>2. /\ IsFiniteSet(InFlight) /\ IsFiniteSet(Busy) /\ IsFiniteSet(At({"submitted"}))
  BY Counts DEF InFlight, Busy
<1>3. /\ Busy \cup At({"submitted"}) \subseteq InFlight
      /\ Busy \cap At({"submitted"}) = {}
  BY DEF At, InFlight, Busy
<1>4. Cardinality(Busy \cup At({"submitted"})) = Cardinality(Busy) + Cardinality(At({"submitted"}))
  <2>1. Cardinality(Busy \cup At({"submitted"})) = Cardinality(Busy) + Cardinality(At({"submitted"}))
                                        - Cardinality(Busy \cap At({"submitted"}))
    BY <1>2, FS_Union
  <2>2. Cardinality(Busy) \in Nat /\ Cardinality(At({"submitted"})) \in Nat
    BY Counts DEF Busy
  <2>3. QED
    <3>1. Cardinality(Busy \cap At({"submitted"})) = 0
      BY <1>3, FS_EmptySet
    <3> QED
      BY <2>1, <2>2, <3>1
<1> QED
  BY <1>1, <1>2, <1>3, <1>4, Counts, FS_Subset DEF InFlight, Busy

-----------------------------------------------------------------------------
(***************************************************************************)
(* The inductive invariant.  Beside the two counters it bounds the threads *)
(* that are taken, which is what keeps the SDK's peak within the pool, and *)
(* says that only the tasks of this run do anything, which is what keeps a *)
(* closed loop within its concurrency.                                     *)
(***************************************************************************)
Peaks ==
    /\ Cardinality(Busy) <= Threads
    /\ \A t \in Tasks \ working : stage[t] = "stopped"
    /\ closed => peak_outstanding <= Cardinality(working)

IInv == TypeOK /\ Accounting /\ Peaks /\ NothingHidden

LEMMA TypeInductive == IInv /\ [Next]_vars => TypeOK'
<1> SUFFICES ASSUME IInv, [Next]_vars PROVE TypeOK'
  OBVIOUS
<1> USE DEF IInv, TypeOK, Move, Stages, tasks, runner, onLoop, inSdk
<1>0. ASSUME NEW w \in SUBSET Tasks PROVE Gathered(w) \in [Tasks -> Stages]
  BY DEF Gathered
<1>1. ASSUME NEW t \in Tasks, Fire(t) PROVE TypeOK'
  BY <1>1 DEF Fire, Higher
<1>2. ASSUME NEW t \in Tasks, Enter(t) PROVE TypeOK'
  BY <1>2 DEF Enter, Higher
<1>3. ASSUME NEW t \in Tasks, Leave(t) PROVE TypeOK'
  <2>1. t \in At({"calling"})
    BY <1>3 DEF Leave, At
  <2>2. Cardinality(At({"calling"})) \in Nat \ {0}
    BY <2>1, Counts, FS_EmptySet
  <2> QED
    BY <1>3, <2>2 DEF Leave, Accounting
<1>4. ASSUME NEW t \in Tasks, Return(t) PROVE TypeOK'
  BY <1>4 DEF Return
<1>5. ASSUME NEW t \in Tasks, Resume(t) PROVE TypeOK'
  <2>1. t \in InFlight
    BY <1>5 DEF Resume, At, InFlight
  <2>2. Cardinality(InFlight) # 0
    BY <2>1, Counts, FS_EmptySet DEF InFlight
  <2> QED
    BY <1>5, <2>2 DEF Resume, Accounting
<1>6. ASSUME NEW t \in Tasks, Wake(t) \/ Stop(t) PROVE TypeOK'
  BY <1>6 DEF Wake, Stop
<1>7. CASE CloseWindow
  BY <1>7 DEF CloseWindow
<1>8. CASE NextRun
  <2>1. working' \in SUBSET Tasks
    BY <1>8 DEF NextRun
  <2>2. Gathered(working') \in [Tasks -> Stages]
    BY <1>0, <2>1 DEF Gathered
  <2>3. stage' \in [Tasks -> Stages] /\ {fired, stored}' \subseteq [Tasks -> Nat]
    BY <1>8, <2>2 DEF NextRun
  <2>4. {run, outstanding, peak_outstanding, sdk_inflight, peak_sdk_inflight}' \subseteq Nat
    BY <1>8 DEF NextRun
  <2>5. closed' \in BOOLEAN /\ open' \in BOOLEAN /\ queued' \in BOOLEAN
    BY <1>8, Zenon DEF NextRun
  <2> QED
    BY <2>1, <2>3, <2>4, <2>5 DEF TypeOK
<1>9. CASE UNCHANGED vars
  BY <1>9 DEF vars
<1> QED
  BY <1>1, <1>2, <1>3, <1>4, <1>5, <1>6, <1>7, <1>8, <1>9 DEF Next, Task, Ended

\* What one task's step does to the three counts.
LEMMA Moved ==
    ASSUME NEW t \in Tasks, NEW to \in Stages, TypeOK, Move(t, to)
    PROVE  LET In(s, x) == IF x \in s THEN 1 ELSE 0
               Flight   == {"submitted", "calling", "leaving", "finished"}
               Taken    == {"calling", "leaving"}
           IN  /\ Cardinality(InFlight') = Cardinality(InFlight) + In(Flight, to) - In(Flight, stage[t])
               /\ Cardinality(Busy') = Cardinality(Busy) + In(Taken, to) - In(Taken, stage[t])
               /\ Cardinality(At({"calling"})') = Cardinality(At({"calling"}))
                                          + In({"calling"}, to) - In({"calling"}, stage[t])
<1>1. stage \in [Tasks -> Stages]
  BY DEF TypeOK
<1> QED
  BY <1>1, OneMoves DEF InFlight, Busy

LEMMA CountsInductive == IInv /\ [Next]_vars => Accounting' /\ Cardinality(Busy)' <= Threads
<1> SUFFICES ASSUME IInv, [Next]_vars PROVE Accounting' /\ Cardinality(Busy)' <= Threads
  OBVIOUS
<1>0. /\ TypeOK /\ Accounting /\ Cardinality(Busy) <= Threads /\ Threads \in Nat
      /\ {outstanding, peak_outstanding, sdk_inflight, peak_sdk_inflight} \subseteq Nat
      /\ Cardinality(Busy) \in Nat
  BY Counts, LoadTargetAssumption DEF IInv, TypeOK, Peaks, Busy
<1>a. TypeOK'
  BY TypeInductive
<1>b. Nest'
  BY Nested, PTL
<1>c. {outstanding', peak_outstanding', sdk_inflight', peak_sdk_inflight'} \subseteq Nat
  BY <1>a DEF TypeOK
<1>d. Nest
  BY Nested
<1> USE DEF Accounting, Nest, Higher
<1>1. ASSUME NEW t \in Tasks, Fire(t) PROVE Accounting' /\ Cardinality(Busy)' <= Threads
  <2>1. /\ Cardinality(InFlight') = Cardinality(InFlight) + 1
        /\ Cardinality(Busy') = Cardinality(Busy)
        /\ Cardinality(At({"calling"})') = Cardinality(At({"calling"}))
    BY <1>0, <1>1, <1>d, Moved DEF Fire, Stages
  <2> QED
    BY <1>0, <1>1, <1>b, <1>c, <2>1 DEF Fire, inSdk
<1>2. ASSUME NEW t \in Tasks, Enter(t) PROVE Accounting' /\ Cardinality(Busy)' <= Threads
  <2>1. /\ Cardinality(InFlight') = Cardinality(InFlight)
        /\ Cardinality(Busy') = Cardinality(Busy) + 1
        /\ Cardinality(At({"calling"})') = Cardinality(At({"calling"})) + 1
    BY <1>0, <1>2, <1>d, Moved DEF Enter, Stages
  <2> QED
    BY <1>0, <1>2, <1>b, <1>c, <2>1 DEF Enter, onLoop
<1>3. ASSUME NEW t \in Tasks, Leave(t) PROVE Accounting' /\ Cardinality(Busy)' <= Threads
  <2>1. /\ Cardinality(InFlight') = Cardinality(InFlight)
        /\ Cardinality(Busy') = Cardinality(Busy)
        /\ Cardinality(At({"calling"})') = Cardinality(At({"calling"})) - 1
    BY <1>0, <1>3, <1>d, Moved DEF Leave, Stages
  <2> QED
    BY <1>0, <1>3, <1>b, <1>c, <2>1 DEF Leave, onLoop
<1>4. ASSUME NEW t \in Tasks, Return(t) PROVE Accounting' /\ Cardinality(Busy)' <= Threads
  <2>1. /\ Cardinality(InFlight') = Cardinality(InFlight)
        /\ Cardinality(Busy') = Cardinality(Busy) - 1
        /\ Cardinality(At({"calling"})') = Cardinality(At({"calling"}))
    BY <1>0, <1>4, <1>d, Moved DEF Return, Stages
  <2> QED
    BY <1>0, <1>4, <1>b, <1>c, <2>1 DEF Return, onLoop, inSdk
<1>5. ASSUME NEW t \in Tasks, Resume(t) PROVE Accounting' /\ Cardinality(Busy)' <= Threads
  <2>1. /\ Cardinality(InFlight') = Cardinality(InFlight) - 1
        /\ Cardinality(Busy') = Cardinality(Busy)
        /\ Cardinality(At({"calling"})') = Cardinality(At({"calling"}))
    BY <1>0, <1>5, <1>d, Moved DEF Resume, Stages
  <2> QED
    BY <1>0, <1>5, <1>b, <1>c, <2>1 DEF Resume, inSdk
<1>6. ASSUME NEW t \in Tasks, Wake(t) \/ Stop(t) PROVE Accounting' /\ Cardinality(Busy)' <= Threads
  <2>1. /\ Cardinality(InFlight') = Cardinality(InFlight)
        /\ Cardinality(Busy') = Cardinality(Busy)
        /\ Cardinality(At({"calling"})') = Cardinality(At({"calling"}))
    BY <1>0, <1>6, <1>d, Moved DEF Wake, Stop, Stages
  <2> QED
    BY <1>0, <1>6, <1>b, <1>c, <2>1 DEF Wake, Stop, onLoop, inSdk
<1>7. CASE UNCHANGED <<tasks, onLoop, inSdk>>
  BY <1>0, <1>7 DEF tasks, onLoop, inSdk, At, InFlight, Busy
<1>8. CASE NextRun
  <2>1. /\ At({"calling"}) = {} /\ InFlight = {}
        /\ At({"calling"})' = {} /\ InFlight' = {} /\ Busy' = {}
    BY <1>8 DEF NextRun, Over, Gathered, At, InFlight, Busy
  <2>2. Cardinality({}) = 0
    BY FS_EmptySet
  <2> QED
    BY <1>0, <1>8, <2>1, <2>2 DEF NextRun
<1> QED
  BY <1>1, <1>2, <1>3, <1>4, <1>5, <1>6, <1>7, <1>8 DEF Next, Task, Ended, CloseWindow, vars

LEMMA PeaksInductive == IInv /\ [Next]_vars => Peaks'
<1> SUFFICES ASSUME IInv, [Next]_vars PROVE Peaks'
  OBVIOUS
<1>0. TypeOK /\ Accounting /\ Peaks /\ TypeOK' /\ Accounting' /\ Cardinality(Busy)' <= Threads
  BY TypeInductive, CountsInductive DEF IInv
<1>1. \A t \in Tasks \ working' : stage'[t] = "stopped"
  <2>1. ASSUME NEW t \in Tasks, Task(t) PROVE \A x \in Tasks \ working' : stage'[x] = "stopped"
    <3>1. t \in working
      BY <1>0, <2>1 DEF Peaks, Task, Fire, Enter, Leave, Return, Resume, Wake, Stop
    <3> QED
      BY <1>0, <2>1, <3>1 DEF Peaks, TypeOK, Task, Fire, Enter, Leave, Return, Resume, Wake,
         Stop, Move, runner
  <2>2. CASE NextRun
    BY <1>0, <2>2 DEF NextRun, Gathered
  <2>3. CASE CloseWindow \/ UNCHANGED vars
    BY <1>0, <2>3 DEF Peaks, CloseWindow, vars, tasks, runner
  <2> QED
    BY <2>1, <2>2, <2>3 DEF Next, Ended
<1>2. closed' => peak_outstanding' <= Cardinality(working')
  <2>1. ASSUME NEW t \in Tasks, Fire(t), closed PROVE peak_outstanding' <= Cardinality(working')
    <3>1. InFlight' \subseteq working' /\ working' \subseteq Tasks
      BY <1>0, <1>1 DEF At, InFlight, TypeOK
    <3>2. Cardinality(InFlight') <= Cardinality(working')
      BY <3>1, FS_Subset, LoadTargetAssumption
    <3> QED
      BY <1>0, <2>1, <3>2 DEF Fire, Higher, Peaks, Accounting, TypeOK, runner
  <2>2. CASE NextRun
    <3>1. InFlight = {} /\ outstanding = 0
      BY <1>0, <2>2, FS_EmptySet DEF NextRun, Over, At, InFlight, Accounting
    <3>2. working' \subseteq Tasks
      BY <1>0 DEF TypeOK
    <3>3. Cardinality(working') \in Nat
      BY <3>2, FS_Subset, FS_CardinalityType, LoadTargetAssumption
    <3> QED
      BY <2>2, <3>1, <3>3 DEF NextRun
  <2>3. CASE UNCHANGED <<closed, working, peak_outstanding>>
    BY <1>0, <2>3 DEF Peaks
  <2> QED
    BY <2>1, <2>2, <2>3 DEF Next, Task, Ended, Fire, Enter, Leave, Return, Resume, Wake, Stop,
       CloseWindow, vars, runner, onLoop
<1> QED
  BY <1>0, <1>1, <1>2 DEF Peaks

\* A call that found every thread taken is outstanding beside all of theirs.
LEMMA QueueInductive == IInv /\ [Next]_vars => NothingHidden'
<1> SUFFICES ASSUME IInv, [Next]_vars PROVE NothingHidden'
  OBVIOUS
<1> USE DEF NothingHidden, client_limited, Higher
<1>0. TypeOK /\ Accounting /\ NothingHidden /\ Nest /\ Threads \in Nat
  BY Nested, LoadTargetAssumption DEF IInv
<1>1. ASSUME NEW t \in Tasks, Fire(t) PROVE NothingHidden'
  <2>1. queued' => queued \/ Cardinality(Busy) + Cardinality(At({"submitted"})) >= Threads
    BY <1>1, Zenon DEF Fire
  <2>2. /\ {outstanding, peak_outstanding} \subseteq Nat
        /\ peak_outstanding' = IF peak_outstanding >= outstanding + 1
                               THEN peak_outstanding ELSE outstanding + 1
    BY <1>0, <1>1 DEF Fire, TypeOK
  <2>3. /\ outstanding = Cardinality(InFlight)
        /\ {Cardinality(Busy), Cardinality(At({"submitted"}))} \subseteq Nat
        /\ Cardinality(Busy) + Cardinality(At({"submitted"})) <= Cardinality(InFlight)
    BY <1>0, Counts DEF Accounting, Nest, Busy
  <2>4. ASSUME queued PROVE peak_outstanding' > Threads
    BY <1>0, <2>2, <2>4
  <2>5. ASSUME Cardinality(Busy) + Cardinality(At({"submitted"})) >= Threads
        PROVE  peak_outstanding' > Threads
    BY <1>0, <2>2, <2>3, <2>5
  <2> QED
    BY <2>1, <2>4, <2>5
<1>2. CASE NextRun
  BY <1>2 DEF NextRun
<1>3. CASE UNCHANGED <<queued, peak_outstanding>>
  BY <1>0, <1>3
<1> QED
  BY <1>1, <1>2, <1>3 DEF Next, Task, Ended, Enter, Leave, Return, Resume, Wake, Stop,
     CloseWindow, vars, onLoop

LEMMA Inductive == Spec => []IInv
<1>1. Init => IInv
  <2> SUFFICES ASSUME Init PROVE IInv
    OBVIOUS
  <2>1. TypeOK
    <3>1. stage \in [Tasks -> Stages] /\ {fired, stored} \subseteq [Tasks -> Nat]
      BY DEF Init, Gathered, Stages
    <3>2. closed \in BOOLEAN /\ open \in BOOLEAN /\ queued \in BOOLEAN
      BY Zenon DEF Init
    <3>3. /\ {run, outstanding, peak_outstanding, sdk_inflight, peak_sdk_inflight} \subseteq Nat
          /\ working \subseteq Tasks
      BY DEF Init
    <3> QED
      BY <3>1, <3>2, <3>3 DEF TypeOK
  <2>2. At({"calling"}) = {} /\ InFlight = {} /\ Busy = {}
    BY DEF Init, Gathered, At, InFlight, Busy
  <2>3. Cardinality({}) = 0 /\ Cardinality(working) \in Nat /\ Threads \in Nat
    BY <2>1, FS_EmptySet, FS_Subset, FS_CardinalityType, LoadTargetAssumption DEF TypeOK
  <2>4. Accounting /\ NothingHidden
    BY <2>2, <2>3 DEF Init, Accounting, NothingHidden
  <2>5. Peaks
    BY <2>2, <2>3 DEF Init, Peaks, Gathered
  <2> QED
    BY <2>1, <2>4, <2>5 DEF IInv
<1>2. IInv /\ [Next]_vars => IInv'
  BY TypeInductive, CountsInductive, PeaksInductive, QueueInductive DEF IInv
<1> QED
  BY <1>1, <1>2, PTL DEF Spec

-----------------------------------------------------------------------------
\* The type invariant.
THEOREM TypeCorrect == Spec => []TypeOK
  BY Inductive, PTL DEF IInv

\* The two counters agree with the calls in flight, and the peaks with them.
THEOREM CountersAgree == Spec => []Accounting
  BY Inductive, PTL DEF IInv

\* A call that had to queue for a thread makes the run client limited.
THEOREM QueueingShows == Spec => []NothingHidden
  BY Inductive, PTL DEF IInv

\* A closed loop stays within its concurrency, and with a thread for every
\* worker it is never client limited.
THEOREM ClosedLoopStays == Spec => []ClosedLoopHolds
<1>1. IInv => ClosedLoopHolds
  <2> SUFFICES ASSUME IInv PROVE ClosedLoopHolds
    OBVIOUS
  <2>1. /\ TypeOK /\ Accounting /\ Peaks /\ NothingHidden /\ Threads \in Nat
        /\ working \subseteq Tasks
    BY LoadTargetAssumption DEF IInv, TypeOK
  <2>2. Cardinality(working) \in Nat
    BY <2>1, FS_Subset, FS_CardinalityType, LoadTargetAssumption
  <2> QED
    BY <2>1, <2>2 DEF TypeOK, Accounting, Peaks, NothingHidden, ClosedLoopHolds, client_limited
<1> QED
  BY <1>1, Inductive, PTL

\* No result is lost or recorded twice, however its call, the closing window and
\* the pauses interleave, and a run leaves nothing behind.
THEOREM ResultsAreKept == Spec => []NothingLost
<1> DEFINE Held(t) == fired[t] = stored[t] + IF t \in InFlight THEN 1 ELSE 0
           Recorded == \A t \in Tasks : Held(t)
<1>1. Init => Recorded
  BY DEF Init, Gathered, InFlight, At
<1>2. IInv /\ Recorded /\ [Next]_vars => Recorded'
  <2> SUFFICES ASSUME IInv, Recorded, [Next]_vars, NEW t \in Tasks PROVE Held(t)'
    BY Zenon
  <2>0. TypeOK /\ Held(t) /\ fired[t] \in Nat /\ stored[t] \in Nat
    BY DEF IInv, TypeOK
  <2> USE DEF TypeOK, InFlight, At, Move
  <2>1. ASSUME NEW u \in Tasks, Fire(u) PROVE Held(t)'
    BY <2>0, <2>1 DEF Fire
  <2>2. ASSUME NEW u \in Tasks, Resume(u) PROVE Held(t)'
    BY <2>0, <2>2 DEF Resume
  <2>3. ASSUME NEW u \in Tasks, Enter(u) \/ Leave(u) \/ Return(u) \/ Wake(u) \/ Stop(u)
        PROVE  Held(t)'
    BY <2>0, <2>3 DEF Enter, Leave, Return, Wake, Stop
  <2>4. CASE NextRun
    BY <2>4 DEF NextRun, Gathered
  <2>5. CASE UNCHANGED tasks
    BY <2>0, <2>5 DEF tasks
  <2> QED
    BY <2>1, <2>2, <2>3, <2>4, <2>5 DEF Next, Task, Ended, CloseWindow, vars
<1>3. IInv /\ Recorded => NothingLost
  <2> SUFFICES ASSUME IInv, Recorded PROVE Over => outstanding = 0 /\ sdk_inflight = 0
    BY DEF NothingLost
  <2>1. Over => InFlight = {} /\ At({"calling"}) = {}
    BY DEF Over, InFlight, At
  <2> QED
    BY <2>1, FS_EmptySet DEF IInv, Accounting
<1> QED
  BY <1>1, <1>2, <1>3, Inductive, PTL DEF Spec

-----------------------------------------------------------------------------
(***************************************************************************)
(* The safety half of Drains: a run has only so many steps in it, and once *)
(* its window has closed somebody can always take one.  What is left to    *)
(* fairness is that the loop and the threads do.                           *)
(***************************************************************************)
Limit == IF closed THEN Fires ELSE 1

\* Who still waits to fire has not fired all, an arrival has not fired at all.
FiresLeft == /\ \A t \in Tasks : fired[t] <= Limit
             /\ ~closed => \A t \in Tasks :
                              /\ stage[t] # "pausing"
                              /\ stage[t] = "ready" => fired[t] = 0

LEMMA FiresBounded == Spec => []FiresLeft
<1>0. {1, Fires} \subseteq Nat \ {0}
  BY LoadTargetAssumption
<1>1. Init => FiresLeft
  BY <1>0 DEF Init, Gathered, FiresLeft, Limit
<1>2. TypeOK /\ FiresLeft /\ [Next]_vars => FiresLeft'
  <2> SUFFICES ASSUME TypeOK, FiresLeft, [Next]_vars PROVE FiresLeft'
    OBVIOUS
  <2> USE DEF TypeOK, FiresLeft, Limit, Move, runner
  <2>1. ASSUME NEW t \in Tasks, Fire(t) PROVE FiresLeft'
    BY <1>0, <2>1 DEF Fire
  <2>2. ASSUME NEW t \in Tasks, Enter(t) \/ Leave(t) \/ Return(t) PROVE FiresLeft'
    BY <2>2 DEF Enter, Leave, Return
  <2>3. ASSUME NEW t \in Tasks, Resume(t) PROVE FiresLeft'
    BY <2>3 DEF Resume
  <2>4. ASSUME NEW t \in Tasks, Wake(t) \/ Stop(t) PROVE FiresLeft'
    BY <2>4 DEF Wake, Stop
  <2>5. CASE NextRun
    BY <1>0, <2>5 DEF NextRun, Gathered
  <2>6. CASE UNCHANGED <<tasks, closed>>
    BY <2>6 DEF tasks
  <2> QED
    BY <2>1, <2>2, <2>3, <2>4, <2>5, <2>6 DEF Next, Task, Ended, CloseWindow, vars
<1> QED
  BY <1>1, <1>2, TypeCorrect, PTL DEF Spec

\* The pool never stalls, however few threads it has: after its window has closed
\* a run is over, or some task is not waiting for another, whatever it is doing.
CanGo(t) == \/ stage[t] \in {"calling", "leaving", "finished", "pausing"}
            \/ stage[t] = "submitted" /\ Cardinality(Busy) < Threads
            \/ stage[t] = "ready" /\ fired[t] < Limit /\ ~closed
            \/ stage[t] = "ready" /\ closed /\ ~open

\* For any number of threads and tasks, gather() is never left with tasks that all
\* wait for a thread.
THEOREM PoolNeverStalls == Spec => [](~open /\ ~Over => \E t \in Tasks : CanGo(t))
<1>1. TypeOK /\ FiresLeft => (~open /\ ~Over => \E t \in Tasks : CanGo(t))
  <2> SUFFICES ASSUME TypeOK, FiresLeft, ~open, ~Over, \A t \in Tasks : ~CanGo(t)
               PROVE  FALSE
    OBVIOUS
  <2>1. ASSUME NEW t \in Tasks PROVE stage[t] \in {"submitted", "stopped"}
    BY DEF CanGo, TypeOK, Stages, FiresLeft, Limit
  <2>2. Busy = {}
    BY <2>1 DEF Busy, At
  <2>3. Cardinality(Busy) < Threads
    BY <2>2, FS_EmptySet, LoadTargetAssumption
  <2>4. \A t \in Tasks : stage[t] = "stopped"
    BY <2>1, <2>3 DEF CanGo
  <2> QED
    BY <2>4 DEF Over, At
<1> QED
  BY <1>1, FiresBounded, TypeCorrect, PTL

\* The steps a task can still take in its run.
Ahead(t) == IF stage[t] = "submitted" THEN 6
            ELSE IF stage[t] = "calling" THEN 5
            ELSE IF stage[t] = "leaving" THEN 4
            ELSE IF stage[t] = "finished" THEN 3
            ELSE IF stage[t] = "pausing" THEN 2
            ELSE IF stage[t] = "ready" THEN 1
            ELSE 0

StepsLeft(t) == 6 * (Limit - fired[t]) + Ahead(t)

\* A call, a pause and the end of a worker are steps forward.
LEMMA TaskRunsOut ==
    ASSUME TypeOK, FiresLeft, NEW t \in Tasks, Task(t)
    PROVE  StepsLeft(t)' < StepsLeft(t) /\ StepsLeft(t) \in Nat
<1>0. /\ fired[t] \in Nat /\ fired[t] <= Limit /\ Limit \in Nat /\ Limit' = Limit
      /\ Ahead(t) \in 0..6
  <2>1. Limit \in Nat /\ fired[t] \in Nat /\ fired[t] <= Limit
    BY LoadTargetAssumption DEF TypeOK, FiresLeft, Limit
  <2>2. closed' = closed
    BY DEF Task, Fire, Enter, Leave, Return, Resume, Wake, Stop, runner
  <2> QED
    BY <2>1, <2>2 DEF Limit, Ahead
<1>1. \/ fired'[t] = fired[t] /\ Ahead(t)' < Ahead(t) /\ Ahead(t)' \in Nat
      \/ fired'[t] = fired[t] + 1 /\ Ahead(t)' = 6 /\ Ahead(t) = 1
  <2> USE DEF TypeOK, Move
  <2>1. CASE Fire(t)
    BY <2>1 DEF Fire, Ahead
  <2>2. CASE Enter(t)
    BY <2>2 DEF Enter, Ahead
  <2>3. CASE Leave(t)
    BY <2>3 DEF Leave, Ahead
  <2>4. CASE Return(t)
    BY <2>4 DEF Return, Ahead
  <2>5. CASE Resume(t)
    <3>1. stage[t] = "finished" /\ fired' = fired /\ stage'[t] \in {"stopped", "ready", "pausing"}
      BY <2>5 DEF Resume
    <3> QED
      BY <3>1 DEF Ahead
  <2>6. CASE Wake(t)
    BY <2>6 DEF Wake, Ahead
  <2>7. CASE Stop(t)
    BY <2>7 DEF Stop, Ahead
  <2> QED
    BY <2>1, <2>2, <2>3, <2>4, <2>5, <2>6, <2>7 DEF Task
<1> QED
  BY <1>0, <1>1 DEF StepsLeft

\* No run goes on for ever, however its tasks, its threads and its window
\* interleave: a step ends the run, closes its window, or takes one task forward
\* and leaves the others where they are.
THEOREM StepsRunOut ==
    Spec => [][\/ run' = run + 1 /\ run < Runs /\ Over
               \/ run' = run /\ open /\ ~open' /\ \A t \in Tasks : StepsLeft(t)' = StepsLeft(t)
               \/ /\ run' = run /\ open' = open
                  /\ \E t \in Tasks :
                        /\ StepsLeft(t)' < StepsLeft(t) /\ StepsLeft(t) \in Nat
                        /\ \A u \in Tasks \ {t} : StepsLeft(u)' = StepsLeft(u)]_vars
<1> DEFINE Ends   == run' = run + 1 /\ run < Runs /\ Over
           Closes == run' = run /\ open /\ ~open' /\ \A t \in Tasks : StepsLeft(t)' = StepsLeft(t)
           Goes   == /\ run' = run /\ open' = open
                     /\ \E t \in Tasks :
                           /\ StepsLeft(t)' < StepsLeft(t) /\ StepsLeft(t) \in Nat
                           /\ \A u \in Tasks \ {t} : StepsLeft(u)' = StepsLeft(u)
<1>1. TypeOK /\ FiresLeft /\ [Next]_vars => [Ends \/ Closes \/ Goes]_vars
  <2> SUFFICES ASSUME TypeOK, FiresLeft, Next, vars' # vars PROVE Ends \/ Closes \/ Goes
    OBVIOUS
  <2>1. ASSUME NEW t \in Tasks, Task(t) PROVE Goes
    <3>1. /\ run' = run /\ open' = open /\ closed' = closed
          /\ \A u \in Tasks \ {t} : stage'[u] = stage[u] /\ fired'[u] = fired[u]
      BY <2>1 DEF TypeOK, Move, runner, Task, Fire, Enter, Leave, Return, Resume, Wake, Stop
    <3>2. \A u \in Tasks \ {t} : StepsLeft(u)' = StepsLeft(u)
      BY <3>1 DEF StepsLeft, Ahead, Limit
    <3> QED
      BY <2>1, <3>1, <3>2, TaskRunsOut
  <2>2. CASE CloseWindow
    BY <2>2 DEF CloseWindow, tasks, StepsLeft, Ahead, Limit
  <2>3. CASE NextRun
    BY <2>3 DEF NextRun
  <2> QED
    BY <2>1, <2>2, <2>3 DEF Next, Ended
<1> QED
  BY <1>1, FiresBounded, TypeCorrect, PTL DEF Spec
=============================================================================
