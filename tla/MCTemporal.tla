------------------------------ MODULE MCTemporal ------------------------------
(* Three runs, of which two on two days are enough.  At 80 percent a         *)
(* confirmed concurrency of 1 leaves nothing to recommend; 9 and 10 agree    *)
(* within 20 percent, 1 does not; a rate of 10 is capped by the quota.       *)
EXTENDS Temporal

Both     == {"rate", "concurrency"}
Measured == {1, 9, 10}
=============================================================================
