---------------------------- MODULE MCActionsJob ----------------------------
(* A small instance of ActionsJob: a rival that saves to the same place.    *)
EXTENDS ActionsJob

CONSTANTS Files

Second  == {n \in 1..Arms : n % 2 = 0}
Places  == [w \in Writers |-> "job"]
Results == [w \in Writers |-> Files]
=============================================================================
