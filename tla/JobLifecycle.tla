---------------------------- MODULE JobLifecycle ----------------------------
(***************************************************************************)
(* The life of one PDF job as the migration's header draws it: queued,     *)
(* running, then succeeded, failed or cancelled. A job that was reported   *)
(* failed may still turn out to have ended otherwise; what succeeded or    *)
(* was cancelled stays so, and nothing runs a second time.                 *)
(***************************************************************************)
CONSTANT None

VARIABLE status

Init == status = None

Create == status = None /\ status' = "queued"
Run == status = "queued" /\ status' = "running"
End == status = "running" /\ status' \in {"succeeded", "cancelled"}
Fail == status \in {"queued", "running"} /\ status' = "failed"
Correct == status = "failed" /\ status' \in {"succeeded", "cancelled"}

Next == Create \/ Run \/ End \/ Fail \/ Correct

Spec == Init /\ [][Next]_status
=============================================================================
