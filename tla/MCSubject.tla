------------------------------ MODULE MCSubject ------------------------------
(* Subjects as small as the cases need: a concurrency sweep with refinement  *)
(* and two candidates, a rate sweep in an order nothing sorted with three,   *)
(* a sweep that stops at the first clear failure, one about which nothing is *)
(* known and nothing probed, and the burst screen.                           *)
EXTENDS Profile

Plain == [kind |-> "concurrency", sweep |-> <<1, 4, 7>>, rpm |-> 4, tpm |-> 3,
          probe |-> TRUE, stop_fails |-> 2, stop_clear |-> FALSE, refine |-> 2, candidates |-> 2]
Scattered == [Plain EXCEPT !.kind = "rate", !.sweep = <<2, 1, 5, 3>>, !.refine = 0,
                           !.candidates = 3, !.tpm = 0, !.rpm = 3]
Clear == [Plain EXCEPT !.stop_clear = TRUE, !.stop_fails = 0, !.refine = 1, !.candidates = 1]
Blind == [Plain EXCEPT !.rpm = 0, !.tpm = 0, !.probe = FALSE, !.stop_fails = 1, !.candidates = 0]
Bursts == [Plain EXCEPT !.kind = "burst", !.sweep = <<1, 2, 3, 4>>, !.refine = 0,
                        !.candidates = 0]

Mixed == {Plain, Scattered, Clear, Blind, Bursts}

\* An open loop, which only a provider that never recovers makes invalid.
Rates == {Scattered}
=============================================================================
