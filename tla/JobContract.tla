----------------------------- MODULE JobContract -----------------------------
(***************************************************************************)
(* What the job queue of the data platform promises to whoever submits a   *)
(* batch job: the job is accepted once, it is pending until it ends, and   *)
(* how it ended is final.  `ComputeJobs' implements it; `Publications'     *)
(* relies on it.                                                           *)
(***************************************************************************)
CONSTANTS Jobs
VARIABLES status

Outcomes == {"succeeded", "failed", "cancelled"}

Init == status = [j \in Jobs |-> "absent"]

Accept(j) ==
  /\ status[j] = "absent"
  /\ status' = [status EXCEPT ![j] = "pending"]

End(j, o) ==
  /\ status[j] = "pending"
  /\ status' = [status EXCEPT ![j] = o]

Next == \E j \in Jobs : Accept(j) \/ \E o \in Outcomes : End(j, o)

Spec == Init /\ [][Next]_status
=============================================================================
