------------------------------ MODULE AppendOnly ------------------------------
(***************************************************************************)
(* What the benchmark-results branch promises its readers: a log to which  *)
(* the commits of several writers are added and from which nothing is ever *)
(* taken, whoever pushes and whoever dies ("Preserve another writer's      *)
(* commits; never force-push result history").                             *)
(***************************************************************************)
EXTENDS Integers, Sequences

VARIABLE log  \* the commits, oldest first

\* s begins with all of t.
Extends(s, t) == /\ Len(t) <= Len(s)
                 /\ \A i \in 1..Len(t) : s[i] = t[i]

Init == log = <<>>

Next == Extends(log', log)

Spec == Init /\ [][Next]_log
=============================================================================
