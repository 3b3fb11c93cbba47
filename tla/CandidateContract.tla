-------------------------- MODULE CandidateContract --------------------------
(***************************************************************************)
(* What the confirmation phase relies on when it tests one candidate: the  *)
(* test settles once, with one of the stop reasons of ConfirmationResult,  *)
(* it declares PASS and FAIL for one reason each, and it changes the       *)
(* subject's validity only in the step that settles it.                    *)
(***************************************************************************)
EXTENDS Validity

VARIABLES status, verdict, reason

vars == <<status, verdict, reason>>

Init == /\ status \in Statuses \ {"invalid"}
        /\ verdict = "none"
        /\ reason = "none"

Settle == /\ verdict = "none"
          /\ \E t \in Statuses, v \in Verdicts, r \in Stops :
                /\ Settles(status, t, v, r)
                /\ status' = t
                /\ verdict' = v
                /\ reason' = r

Next == Settle

Spec == Init /\ [][Next]_vars
=============================================================================
