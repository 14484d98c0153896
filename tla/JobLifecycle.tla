---------------------------- MODULE JobLifecycle ----------------------------
(***************************************************************************)
(* What the docstring of JobStatus (db/models.py) promises of a job's      *)
(* status, with the operations that settle or restart a finished job.      *)
(***************************************************************************)
CONSTANT Jobs
VARIABLE status

Move(j, from, to) ==
    /\ status[j] \in from
    /\ \E s \in to : status' = [status EXCEPT ![j] = s]

Enqueue(j) == Move(j, {"absent"}, {"queued"})
Claim(j) == Move(j, {"queued"}, {"running"})
Settle(j) == Move(j, {"running"}, {"succeeded", "needs_review", "failed"})
Retry(j) == Move(j, {"running"}, {"queued"})
Cancel(j) == Move(j, {"queued", "running"}, {"canceled"})
Review(j) == Move(j, {"needs_review"}, {"succeeded", "failed"})
Rerender(j) == Move(j, {"succeeded", "needs_review", "failed"}, {"queued"})
Delete(j) ==
    /\ status[j] # "absent"
    /\ status' = [status EXCEPT ![j] = "deleted"]

Init == status = [j \in Jobs |-> "absent"]
Next ==
    \E j \in Jobs :
        \/ Enqueue(j) \/ Claim(j) \/ Settle(j) \/ Retry(j)
        \/ Cancel(j) \/ Review(j) \/ Rerender(j) \/ Delete(j)

Spec == Init /\ [][Next]_status

=============================================================================
