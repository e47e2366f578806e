----------------------------- MODULE JobLifecycle -----------------------------
(***************************************************************************)
(* What a row of the job table promises to the rest of Alice, whoever      *)
(* writes it: the request handlers, the outcome subscribers, the stalled-  *)
(* job sweep, the start-up hook and the administrator.  It is the abstract *)
(* specification that IngestionJobs implements.                            *)
(*                                                                         *)
(* "absent" is an id whose row has not been inserted yet; the other values *)
(* are those of models/enums.py JobStatus.                                 *)
(***************************************************************************)
CONSTANT Jobs

VARIABLE status

Statuses == {"absent", "pending", "running", "completed", "failed",
             "cancelled", "stalled"}

\* The statuses get_active_for_knowledge_base and the sweeps select.
ActiveStatuses == {"pending", "running"}

TypeOK == status \in [Jobs -> Statuses]

Init == status = [j \in Jobs |-> "absent"]

\* JobRepository.create_job inserts the row as pending.
Create(j) ==
    /\ status[j] = "absent"
    /\ status' = [status EXCEPT ![j] = "pending"]

\* complete_job and fail_job write their verdict over anything but a
\* cancellation, including a previous verdict.
Resolve(j, verdict) ==
    /\ status[j] \notin {"absent", "cancelled"}
    /\ verdict \in {"completed", "failed"}
    /\ status' = [status EXCEPT ![j] = verdict]

\* A sweep gives up on a whole set of active jobs in one commit.
Stall(S) ==
    /\ \A j \in S : status[j] \in ActiveStatuses
    /\ status' = [j \in Jobs |-> IF j \in S THEN "stalled" ELSE status[j]]

\* A cancellation; trigger_reindex writes it on the row it read before the
\* broadcast, whatever has happened to the row since.
Cancel(j) ==
    /\ status[j] # "absent"
    /\ status' = [status EXCEPT ![j] = "cancelled"]

\* The administrator's retry puts a failed row back to pending.
Retry(j) ==
    /\ status[j] = "failed"
    /\ status' = [status EXCEPT ![j] = "pending"]

Next ==
    \/ \E j \in Jobs :
          \/ Create(j)
          \/ \E verdict \in {"completed", "failed"} : Resolve(j, verdict)
          \/ Cancel(j)
          \/ Retry(j)
    \/ \E S \in SUBSET Jobs : Stall(S)

Spec == Init /\ [][Next]_status
=============================================================================
