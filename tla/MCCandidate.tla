---------------------------- MODULE MCCandidate ----------------------------
(* Small instances of Candidate: one class, and a mix of two.              *)
EXTENDS Candidate

One == {"total"}
Two == {"gold", "bronze"}

\* The least samples for 0, 1, 2 ... bad events, and the bad events that FAIL n.
Horizon == 0..12
ClearsIn(cs)   == [c \in cs |-> [b \in Horizon |-> 2 * b + 2]]
ClearsMix      == [c \in Two |-> [b \in Horizon |-> IF c = "gold" THEN 2 * b + 2 ELSE b + 1]]
ClearsOne      == ClearsIn(One)
Fails(n)       == IF n < 2 THEN 2 ELSE (n \div 2) + 1
BreaksOne      == [c \in One |-> [n \in Horizon |-> Fails(n)]]
BreaksMix      == [c \in Two |-> [n \in Horizon |-> IF c = "gold" THEN Fails(n) ELSE n + 1]]
SpreadOne      == [c \in One |-> 1]
SpreadMix      == [c \in Two |-> IF c = "gold" THEN 1 ELSE 2]
=============================================================================
