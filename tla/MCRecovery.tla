----------------------------- MODULE MCRecovery -----------------------------
(* Small instances of Recovery.                                            *)
EXTENDS Recovery

Few  == 0..3
=============================================================================
