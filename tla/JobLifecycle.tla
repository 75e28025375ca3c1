---------------------------- MODULE JobLifecycle ----------------------------
(***************************************************************************)
(* What the job API promises of a job (JobRecord of                        *)
(* application/job_service.py): its statuses, the events that lead from    *)
(* one to the next, and its attempts.  JobExecution implements it as long  *)
(* as one process executes the jobs and store calls are short against the  *)
(* lease.                                                                  *)
(***************************************************************************)
EXTENDS Naturals

CONSTANTS
  Jobs,
  MaxAttempts,  \* max_attempts of every job
  AttemptCap    \* bound: attempts are counted up to here

VARIABLES status, attempt
vars == <<status, attempt>>

Becomes(j, s) == status' = [status EXCEPT ![j] = s]

Init ==
  /\ status = [j \in Jobs |-> "none"]
  /\ attempt = [j \in Jobs |-> 0]

(* SCHEDULED. *)
Create(j) == status[j] = "none" /\ Becomes(j, "queued") /\ UNCHANGED attempt

(* CLAIMED, preceded by LEASE_EXPIRED for a job that was held. *)
Claim(j) ==
  /\ status[j] \in {"queued", "claimed", "running"}
  /\ Becomes(j, "claimed")
  /\ UNCHANGED attempt

(* STARTED: only what was claimed starts, and it counts one attempt. *)
Start(j) ==
  /\ status[j] = "claimed" /\ Becomes(j, "running")
  /\ attempt' = [attempt EXCEPT ![j] = IF @ < AttemptCap THEN @ + 1 ELSE @]

(* COMPLETED or FAILED: only what runs ends. *)
Finish(j) ==
  /\ status[j] = "running" /\ \E s \in {"completed", "failed"} : Becomes(j, s)
  /\ UNCHANGED attempt

(* REQUEUED: only what failed within its budget is retried. *)
Retry(j) ==
  /\ status[j] = "failed" /\ attempt[j] < MaxAttempts
  /\ Becomes(j, "queued")
  /\ UNCHANGED attempt

Next == \E j \in Jobs : Create(j) \/ Claim(j) \/ Start(j) \/ Finish(j) \/ Retry(j)
Spec == Init /\ [][Next]_vars
=============================================================================
