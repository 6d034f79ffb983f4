---------------------------- MODULE JobLifecycle ----------------------------
(***************************************************************************)
(* What GET /admin/jobs/{id} shows a client that polls it: a job is        *)
(* queued, then running, then completed or failed (models/                 *)
(* background_job.py, JobStatus).  "failed" is final.  "completed" is too, *)
(* except for an import: it is announced after it was completed, and an    *)
(* error of the announcement may take the verdict back.                    *)
(***************************************************************************)
CONSTANT Jobs

VARIABLES status, imports   \* imports: the jobs that are imports

Status == {"absent", "queued", "running", "completed", "failed"}
Verdict == {"completed", "failed"}

LifecycleInit ==
    /\ status = [j \in Jobs |-> "absent"]
    /\ imports = {}

Move(j, from, to) ==
    /\ status[j] = from
    /\ status' = [status EXCEPT ![j] = to]

Enter(j) ==
    /\ Move(j, "absent", "queued")
    /\ imports' \in {imports, imports \cup {j}}

Advance(j) ==
    /\ \/ Move(j, "queued", "running")
       \/ \E v \in Verdict : Move(j, "running", v)
    /\ UNCHANGED imports

Withdraw(j) ==
    /\ j \in imports
    /\ Move(j, "completed", "failed")
    /\ UNCHANGED imports

LifecycleNext == \E j \in Jobs : Enter(j) \/ Advance(j) \/ Withdraw(j)

LifecycleSpec == LifecycleInit /\ [][LifecycleNext]_<<status, imports>>
=============================================================================
