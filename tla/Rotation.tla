------------------------------- MODULE Rotation -------------------------------
(***************************************************************************)
(* rotation_index: concurrent benchmark invocations reserve the index that *)
(* rotates their workloads from one counter file, under an exclusive lock  *)
(* held until the file is closed.  The file is truncated before the next   *)
(* value is written, and an invocation may die in between.                 *)
(***************************************************************************)
EXTENDS Integers, FiniteSets

CONSTANTS
    Invocations,
    Explicit,  \* the indexes a user may replay with --workload-rotation-index
    None

ASSUME RotationAssumption ==
    /\ IsFiniteSet(Invocations) /\ Explicit \subseteq Nat
    /\ None \notin Nat \cup Invocations

VARIABLES
    pc,      \* where each invocation is
    index,   \* the index it read, None before
    lock,    \* the invocation holding the lock, or None
    file,    \* the counter on disk, None when the file is empty
    torn     \* history: an invocation died between truncate() and flush()

vars == <<pc, index, lock, file, torn>>

Init == /\ pc = [i \in Invocations |-> "start"]
        /\ index = [i \in Invocations |-> None]
        /\ lock = None /\ file = None /\ torn = FALSE

Move(i, l) == pc' = [pc EXCEPT ![i] = l]

\* An explicit index is used as it is; the counter is not touched.
Replay(i) == /\ pc[i] = "start"
             /\ \E x \in Explicit : index' = [index EXCEPT ![i] = x]
             /\ Move(i, "replayed")
             /\ UNCHANGED <<lock, file, torn>>

Lock(i) == /\ pc[i] = "start" /\ lock = None
           /\ lock' = i /\ Move(i, "locked")
           /\ UNCHANGED <<index, file, torn>>

\* An empty counter reads as 0.
Read(i) == /\ pc[i] = "locked"
           /\ index' = [index EXCEPT ![i] = IF file = None THEN 0 ELSE file]
           /\ Move(i, "read")
           /\ UNCHANGED <<lock, file, torn>>

Truncate(i) == /\ pc[i] = "read"
               /\ file' = None /\ Move(i, "truncated")
               /\ UNCHANGED <<index, lock, torn>>

Write(i) == /\ pc[i] = "truncated"
            /\ file' = index[i] + 1 /\ Move(i, "written")
            /\ UNCHANGED <<index, lock, torn>>

KeepOpen(i) == /\ pc[i] = "written"  \* mutant of Close: the file stays open
               /\ Move(i, "reserved")
               /\ UNCHANGED <<index, file, lock, torn>>

\* Closing the file releases the lock; only then is the index returned.
Close(i) == /\ pc[i] = "written"
            /\ lock' = None /\ Move(i, "reserved")
            /\ UNCHANGED <<index, file, torn>>

\* The system releases the lock of a process that died.
Die(i) == /\ pc[i] \in {"start", "locked", "read", "truncated", "written"}
          /\ Move(i, "dead")
          /\ lock' = IF lock = i THEN None ELSE lock
          /\ torn' = (torn \/ pc[i] = "truncated")
          /\ UNCHANGED <<index, file>>

Ended == /\ \A i \in Invocations : pc[i] \in {"reserved", "replayed", "dead"}
         /\ UNCHANGED vars

Work(i) == Lock(i) \/ Read(i) \/ Truncate(i) \/ Write(i) \/ Close(i)
Next == (\E i \in Invocations : Replay(i) \/ Work(i) \/ Die(i)) \/ Ended

\* Every invocation holds the lock once and lets it go, so a waiting one gets it.
Spec == Init /\ [][Next]_vars /\ \A i \in Invocations : WF_vars(Work(i))
-----------------------------------------------------------------------------
(* Properties.                                                             *)

\* The counter and its users are well formed.
TypeOK ==
    /\ pc \in [Invocations -> {"start", "locked", "read", "truncated", "written",
                               "reserved", "replayed", "dead"}]
    /\ index \in [Invocations -> Nat \cup {None}]
    /\ lock \in Invocations \cup {None}
    /\ file \in Nat \cup {None}
    /\ torn \in BOOLEAN

Reserved == {i \in Invocations : pc[i] = "reserved"}

\* No two invocations run the same rotation, unless one of them died while the
\* counter was truncated.
Distinct == ~torn => \A i, j \in Reserved : index[i] = index[j] => i = j

\* The counter is beyond every index handed out, so none is handed out again.
CounterAhead ==
    ~torn => \A i \in Reserved : /\ \/ lock # None /\ pc[lock] = "truncated" /\ index[i] < index[lock]
                                    \/ file # None /\ index[i] < file
=============================================================================
