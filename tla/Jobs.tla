-------------------------------- MODULE Jobs --------------------------------
(***************************************************************************)
(* Background jobs: the background_jobs row, the task in the Redis list    *)
(* queue, and the run of the task (services/jobs.py, tasks/runner.py, the  *)
(* mark_job_* functions of services/admin_ops.py).  The row and the queue  *)
(* are written one after the other, and the list broker forgets a task     *)
(* when a worker takes it.                                                 *)
(*                                                                         *)
(* A run uses one SQLAlchemy session throughout.  An exception of the      *)
(* application leaves the session usable, with whatever the body had added *)
(* to it.  So does a connection that cannot be had when a transaction      *)
(* begins: the next statement asks for one again.  An error in the middle  *)
(* of a transaction leaves a session that refuses every statement until it *)
(* is rolled back, which the code never does.                              *)
(***************************************************************************)
EXTENDS Naturals, FiniteSets

CONSTANTS
    JobIds,      \* rows that may be created
    None,        \* no job
    MaxCrashes   \* bound: processes that die in one behaviour

JobKind == {"import_catalog", "reindex_search", "webhook_delivery", "prune_play_events"}

ASSUME JobsAssumption ==
    /\ None \notin JobIds \cup JobKind
    /\ MaxCrashes \in Nat

VARIABLES
    kind,     \* background_jobs.kind
    status,   \* background_jobs.status
    queue,    \* job ids in the Redis list
    pc,       \* where the request or the task that carries the job is
    db,       \* the session of the run: "ok" or "broken"
    rows,     \* what an import wrote: nothing, staged in its session, a part, all
    follow,   \* the reindex job an import created
    crashed,  \* history: jobs whose carrying process died
    unsent    \* history: jobs whose request ended between the row and the queue

vars == <<kind, status, queue, pc, db, rows, follow, crashed, unsent>>

(* dispatch: row committed, task not queued yet; begin, body, complete,     *)
(* announce, fail, chain: the calls of the runner that come next.           *)
Phase == {"idle", "dispatch", "waiting", "begin", "body", "complete", "announce",
          "fail", "chain", "done"}

Imports == {j \in JobIds : kind[j] = "import_catalog"}

L == INSTANCE JobLifecycle WITH Jobs <- JobIds, imports <- Imports

TypeOK ==
    /\ kind \in [JobIds -> JobKind \cup {None}]
    /\ status \in [JobIds -> L!Status]
    /\ queue \subseteq JobIds
    /\ pc \in [JobIds -> Phase]
    /\ db \in [JobIds -> {"ok", "broken"}]
    /\ rows \in [JobIds -> {"none", "staged", "partial", "all"}]
    /\ follow \in [JobIds -> JobIds \cup {None}]
    /\ crashed \subseteq JobIds
    /\ unsent \subseteq JobIds

Init ==
    /\ kind = [j \in JobIds |-> None]
    /\ status = [j \in JobIds |-> "absent"]
    /\ queue = {}
    /\ pc = [j \in JobIds |-> "idle"]
    /\ db = [j \in JobIds |-> "ok"]
    /\ rows = [j \in JobIds |-> "none"]
    /\ follow = [j \in JobIds |-> None]
    /\ crashed = {}
    /\ unsent = {}

At(j, from, to) ==
    /\ pc[j] = from
    /\ pc' = [pc EXCEPT ![j] = to]

Mark(j, s) == status' = [status EXCEPT ![j] = s]

-----------------------------------------------------------------------------
(* The admin request *)

CreateJob(j, k) ==
    /\ status[j] = "absent"
    /\ At(j, "idle", "dispatch")
    /\ Mark(j, "queued")
    /\ kind' = [kind EXCEPT ![j] = k]
    /\ UNCHANGED <<queue, db, rows, follow, crashed, unsent>>

\* Fault: the task is not sent.
DispatchForgotten(j) ==
    /\ At(j, "dispatch", "waiting")
    /\ UNCHANGED <<kind, status, queue, db, rows, follow, crashed, unsent>>

Dispatch(j) ==
    /\ At(j, "dispatch", "waiting")
    /\ queue' = queue \cup {j}
    /\ UNCHANGED <<kind, status, db, rows, follow, crashed, unsent>>

(* The request ends with an error after the commit of the row: Redis does   *)
(* not take the task, or the refresh of the row fails.                      *)
DispatchFails(j) ==
    /\ At(j, "dispatch", "done")
    /\ unsent' = unsent \cup {j}
    /\ UNCHANGED <<kind, status, queue, db, rows, follow, crashed>>

-----------------------------------------------------------------------------
(* The task *)

Take(j) ==
    /\ j \in queue
    /\ At(j, "waiting", "begin")
    /\ queue' = queue \ {j}
    /\ UNCHANGED <<kind, status, db, rows, follow, crashed, unsent>>

MarkRunning(j) ==
    /\ At(j, "begin", "body")
    /\ Mark(j, "running")
    /\ UNCHANGED <<kind, queue, db, rows, follow, crashed, unsent>>

(* run_import commits everything at its end.  It commits nothing, and still *)
(* returns, when it finds no WordPress endpoint, and when an item's failed  *)
(* query, swallowed as that item's error, has aborted the transaction.  The *)
(* other bodies commit their own work.                                      *)
BodySucceeds(j) ==
    /\ At(j, "body", "complete")
    /\ \/ UNCHANGED rows
       \/ /\ j \in Imports
          /\ rows' = [rows EXCEPT ![j] = "all"]
    /\ UNCHANGED <<kind, status, queue, db, follow, crashed, unsent>>

\* Fault: a page that cannot be fetched ends the import as if it were the last.
BodyRaisesSwallowed(j) ==
    /\ At(j, "body", IF j \in Imports THEN "complete" ELSE "fail")
    /\ \/ UNCHANGED rows
       \/ /\ j \in Imports
          /\ rows' = [rows EXCEPT ![j] = "staged"]
    /\ UNCHANGED <<kind, status, queue, db, follow, crashed, unsent>>

(* The body raises: the WordPress API or Meilisearch does not answer.  An   *)
(* import may have added rows to its session by then.                       *)
BodyRaises(j) ==
    /\ At(j, "body", "fail")
    /\ \/ UNCHANGED rows
       \/ /\ j \in Imports
          /\ rows' = [rows EXCEPT ![j] = "staged"]
    /\ UNCHANGED <<kind, status, queue, db, follow, crashed, unsent>>

MarkCompleted(j) ==
    /\ At(j, "complete", IF j \in Imports THEN "announce" ELSE "done")
    /\ Mark(j, "completed")
    /\ UNCHANGED <<kind, queue, db, rows, follow, crashed, unsent>>

(* emit_event after an import.                                              *)
Announce(j) ==
    /\ At(j, "announce", "chain")
    /\ UNCHANGED <<kind, status, queue, db, rows, follow, crashed, unsent>>

(* A statement of the run fails in the database.  In the runner's try the   *)
(* run goes on to mark_job_failed.  Outside it, which mark_job_failed itself*)
(* is, the task ends, and what was staged is gone.  A failed refresh after  *)
(* the commit of mark_job_running has written the status.                   *)
DatabaseError(j) ==
    /\ pc[j] \in {"begin", "body", "complete", "announce", "fail", "chain"}
    /\ pc' = [pc EXCEPT ![j] = IF @ \in {"begin", "fail", "chain"} THEN "done" ELSE "fail"]
    /\ db' = [db EXCEPT ![j] = "broken"]
    /\ rows' = [rows EXCEPT ![j] = IF @ = "staged" THEN "none" ELSE @]
    /\ \/ UNCHANGED status
       \/ pc[j] = "begin" /\ Mark(j, "running")
    /\ UNCHANGED <<kind, queue, follow, crashed, unsent>>

(* No connection for the transaction that follows a commit, or no HTTP      *)
(* client for the announcement: the session stays usable.  A reindex only   *)
(* reads, so its completion begins no transaction.                          *)
Unreachable(j) ==
    /\ \/ pc[j] = "complete" /\ kind[j] # "reindex_search"
       \/ pc[j] = "announce"
    /\ pc' = [pc EXCEPT ![j] = "fail"]
    /\ UNCHANGED <<kind, status, queue, db, rows, follow, crashed, unsent>>

\* Fault: a failed job is put back to be run again.
MarkFailedRequeues(j) ==
    /\ At(j, "fail", "done")
    /\ Mark(j, "queued")
    /\ UNCHANGED <<kind, queue, db, rows, follow, crashed, unsent>>

\* Fault: the failure is not committed.
MarkFailedUnsaved(j) ==
    /\ At(j, "fail", "done")
    /\ UNCHANGED <<kind, status, queue, db, rows, follow, crashed, unsent>>

(* mark_job_failed does not look at the status it replaces.  Its commit     *)
(* also commits what the body had staged: a part of the import, or all of   *)
(* it when it was the page after the last one that could not be fetched.    *)
(* On a broken session it raises, and the task ends.                        *)
MarkFailed(j) ==
    /\ At(j, "fail", "done")
    /\ \/ /\ db[j] = "ok"
          /\ Mark(j, "failed")
          /\ IF rows[j] = "staged"
             THEN \E part \in {"partial", "all"} : rows' = [rows EXCEPT ![j] = part]
             ELSE UNCHANGED rows
       \/ db[j] = "broken" /\ UNCHANGED <<status, rows>>
    /\ UNCHANGED <<kind, queue, db, follow, crashed, unsent>>

\* Fault: nothing follows the import.
ChainLost(j, n) ==
    /\ At(j, "chain", "done")
    /\ status[n] = "absent"
    /\ UNCHANGED <<kind, status, queue, db, rows, follow, crashed, unsent>>

\* Fault: the kind of the new job is kept where its id belongs.
ChainMixedUp(j, n) ==
    /\ pc[j] = "chain"
    /\ status[n] = "absent"
    /\ pc[n] = "idle"
    /\ pc' = [pc EXCEPT ![j] = "done", ![n] = "begin"]
    /\ Mark(n, "queued")
    /\ kind' = [kind EXCEPT ![n] = n]
    /\ follow' = [follow EXCEPT ![j] = n]
    /\ UNCHANGED <<queue, db, rows, crashed, unsent>>

(* After an import, a reindex job of its own row runs in the same task.     *)
Chain(j, n) ==
    /\ pc[j] = "chain"
    /\ status[n] = "absent"
    /\ pc[n] = "idle"
    /\ pc' = [pc EXCEPT ![j] = "done", ![n] = "begin"]
    /\ Mark(n, "queued")
    /\ kind' = [kind EXCEPT ![n] = "reindex_search"]
    /\ follow' = [follow EXCEPT ![j] = n]
    /\ UNCHANGED <<queue, db, rows, crashed, unsent>>

(* The row of the reindex job is committed, but its refresh fails.          *)
ChainBreaks(j, n) ==
    /\ pc[j] = "chain"
    /\ status[n] = "absent"
    /\ pc[n] = "idle"
    /\ pc' = [pc EXCEPT ![j] = "done", ![n] = "done"]
    /\ Mark(n, "queued")
    /\ kind' = [kind EXCEPT ![n] = "reindex_search"]
    /\ db' = [db EXCEPT ![j] = "broken"]
    /\ unsent' = unsent \cup {n}
    /\ UNCHANGED <<queue, rows, follow, crashed>>

-----------------------------------------------------------------------------

(* The API process dies between the row and the queue, or the worker in a   *)
(* run: the broker does not deliver again.                                  *)
Crash(j) ==
    /\ pc[j] \notin {"idle", "waiting", "done"}
    /\ Cardinality(crashed) < MaxCrashes
    /\ pc' = [pc EXCEPT ![j] = "done"]
    /\ rows' = [rows EXCEPT ![j] = IF @ = "staged" THEN "none" ELSE @]
    /\ crashed' = crashed \cup {j}
    /\ UNCHANGED <<kind, status, queue, db, follow, unsent>>

JobStep(j) ==
    \/ Dispatch(j)
    \/ DispatchFails(j)
    \/ Take(j)
    \/ MarkRunning(j)
    \/ BodySucceeds(j)
    \/ BodyRaises(j)
    \/ MarkCompleted(j)
    \/ Announce(j)
    \/ DatabaseError(j)
    \/ Unreachable(j)
    \/ MarkFailed(j)
    \/ \E n \in JobIds : Chain(j, n) \/ ChainBreaks(j, n)

Next ==
    \E j \in JobIds :
        \/ \E k \in JobKind : CreateJob(j, k)
        \/ JobStep(j)
        \/ Crash(j)

(* Requests and tasks that began run on, and a worker takes what is queued. *)
Fairness == \A j \in JobIds : WF_vars(JobStep(j))

Spec == Init /\ [][Next]_vars /\ Fairness
-----------------------------------------------------------------------------
(* Properties *)

(* The causes that leave a job without its verdict: its process died, its   *)
(* request ended before the task was sent, the database failed in its run.  *)
Hit(j) == j \in crashed \/ j \in unsent \/ db[j] = "broken"

(* What a client polls is the lifecycle of JobLifecycle: a job runs once,   *)
(* "failed" stays, and only an import may go from "completed" to "failed",  *)
(* when its announcement fails after its completion.                        *)
ImplementsLifecycle == L!LifecycleSpec

(* A job is left behind, waiting without a task or ended without a verdict, *)
(* only when it was hit.                                                    *)
OrphanHasCause ==
    \A j \in JobIds :
        /\ pc[j] = "waiting" => j \in queue
        /\ pc[j] = "done" /\ status[j] \notin L!Verdict => Hit(j)

(* An import is in the catalog in part only under the verdict "failed": a   *)
(* completed one is there as a whole or not at all, and nothing is left to  *)
(* be committed after a run.                                                *)
VerdictFitsRows ==
    \A j \in JobIds :
        /\ rows[j] = "partial" => pc[j] = "done" /\ status[j] = "failed"
        /\ rows[j] = "staged" => pc[j] = "fail" /\ status[j] = "running"

(* A completed import whose run is over is followed by a reindex of the     *)
(* search index, unless the run died or the database failed in it.          *)
ImportIsReindexed ==
    \A j \in Imports :
        pc[j] = "done" /\ status[j] = "completed" =>
            \/ follow[j] \in JobIds /\ kind[follow[j]] = "reindex_search"
            \/ Hit(j)

(* Every job that was created gets its verdict, unless it is hit.           *)
SettlesUnlessHit ==
    \A j \in JobIds : status[j] = "queued" ~> status[j] \in L!Verdict \/ Hit(j)

(* README.md: poll until status is completed or failed, which takes it that *)
(* one of them comes for every job whose id a client was given.             *)
JobSettles == \A j \in JobIds : pc[j] = "waiting" ~> status[j] \in L!Verdict
=============================================================================
