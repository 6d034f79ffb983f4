----------------------------- MODULE JobsProofs -----------------------------
(***************************************************************************)
(* Proofs about Jobs for any set of jobs.  The invariant ties the place a  *)
(* task has reached to the status last committed: no task runs twice, so   *)
(* the place determines the row as long as the session works.              *)
(***************************************************************************)
EXTENDS Jobs, TLAPS

(* The status each place of a task implies.                                 *)
StatusAt ==
    \A j \in JobIds :
        /\ pc[j] = "idle" <=> status[j] = "absent"
        /\ pc[j] \in {"dispatch", "waiting", "begin"} => status[j] = "queued"
        /\ pc[j] \in {"body", "complete"} => status[j] = "running"
        /\ pc[j] \in {"announce", "chain"} => status[j] = "completed"
        /\ pc[j] = "fail" => \/ status[j] = "running"
                             \/ status[j] = "completed" /\ kind[j] = "import_catalog"
        /\ pc[j] = "announce" => kind[j] = "import_catalog"
        /\ status[j] = "absent" => kind[j] = None

(* What the import has in its session and in the catalog at each place.     *)
RowsAt ==
    \A j \in JobIds :
        /\ pc[j] \in {"idle", "dispatch", "waiting", "begin", "body"} => rows[j] = "none"
        /\ pc[j] \notin {"fail", "done"} => db[j] = "ok"
        /\ rows[j] = "staged" => db[j] = "ok"

IInv ==
    /\ TypeOK
    /\ StatusAt
    /\ RowsAt
    /\ OrphanHasCause
    /\ VerdictFitsRows

(* Initially no row exists.                                                 *)
LEMMA InitIInv == Init => IInv
  BY JobsAssumption
  DEF Init, IInv, TypeOK, StatusAt, RowsAt, OrphanHasCause, VerdictFitsRows,
      Hit, Phase, JobKind, L!Status, L!Verdict

(* Every step of a single job preserves what is said of that job, and says  *)
(* nothing of the others.                                                   *)
LEMMA OneJobMoves ==
    ASSUME IInv, TypeOK', NEW j \in JobIds,
           \A i \in JobIds \ {j} :
               /\ kind'[i] = kind[i] /\ status'[i] = status[i] /\ pc'[i] = pc[i]
               /\ db'[i] = db[i] /\ rows'[i] = rows[i]
               /\ i \in queue' <=> i \in queue
               /\ i \in crashed' <=> i \in crashed
               /\ i \in unsent' <=> i \in unsent,
           pc'[j] = "idle" <=> status'[j] = "absent",
           pc'[j] \in {"dispatch", "waiting", "begin"} => status'[j] = "queued",
           pc'[j] \in {"body", "complete"} => status'[j] = "running",
           pc'[j] \in {"announce", "chain"} => status'[j] = "completed",
           pc'[j] = "fail" => \/ status'[j] = "running"
                              \/ status'[j] = "completed" /\ kind'[j] = "import_catalog",
           pc'[j] = "announce" => kind'[j] = "import_catalog",
           status'[j] = "absent" => kind'[j] = None,
           pc'[j] \in {"idle", "dispatch", "waiting", "begin", "body"} => rows'[j] = "none",
           pc'[j] \notin {"fail", "done"} => db'[j] = "ok",
           rows'[j] = "staged" => pc'[j] = "fail" /\ status'[j] = "running" /\ db'[j] = "ok",
           rows'[j] = "partial" => pc'[j] = "done" /\ status'[j] = "failed",
           pc'[j] = "waiting" => j \in queue',
           pc'[j] = "done" /\ status'[j] \notin L!Verdict =>
               j \in crashed' \/ j \in unsent' \/ db'[j] = "broken"
    PROVE  IInv'
  BY DEF IInv, StatusAt, RowsAt, OrphanHasCause, VerdictFitsRows, Hit

(* The steps of one job, one by one.                                        *)
LEMMA JobStepIInv ==
    ASSUME IInv, NEW j \in JobIds,
           (\E k \in JobKind : CreateJob(j, k)) \/ JobStep(j) \/ Crash(j)
    PROVE  IInv'
  <1> USE DEF At, Mark
  <1>1. ASSUME NEW k \in JobKind, CreateJob(j, k)
        PROVE  IInv'
    <2>1. TypeOK'
      BY <1>1 DEF CreateJob, IInv, TypeOK, Phase, L!Status
    <2> QED
      BY <1>1, <2>1, OneJobMoves DEF CreateJob, IInv, TypeOK, RowsAt, VerdictFitsRows
  <1>2. CASE Dispatch(j)
    <2>1. TypeOK'
      BY <1>2 DEF Dispatch, IInv, TypeOK, Phase
    <2> QED
      BY <1>2, <2>1, OneJobMoves DEF Dispatch, IInv, TypeOK, StatusAt, RowsAt, VerdictFitsRows, Imports
  <1>3. CASE Take(j)
    <2>1. TypeOK'
      BY <1>3 DEF Take, IInv, TypeOK, Phase
    <2> QED
      BY <1>3, <2>1, OneJobMoves DEF Take, IInv, TypeOK, StatusAt, RowsAt, VerdictFitsRows, Imports
  <1>4. CASE MarkRunning(j)
    <2>1. TypeOK'
      BY <1>4 DEF MarkRunning, IInv, TypeOK, Phase, L!Status
    <2> QED
      BY <1>4, <2>1, OneJobMoves DEF MarkRunning, IInv, TypeOK, StatusAt, RowsAt, VerdictFitsRows, Imports
  <1>5. CASE BodySucceeds(j)
    <2>1. TypeOK'
      BY <1>5 DEF BodySucceeds, IInv, TypeOK, Phase
    <2> QED
      BY <1>5, <2>1, OneJobMoves DEF BodySucceeds, IInv, TypeOK, StatusAt, RowsAt, VerdictFitsRows, Imports
  <1>6. CASE BodyRaises(j)
    <2>1. TypeOK'
      BY <1>6 DEF BodyRaises, IInv, TypeOK, Phase
    <2> QED
      BY <1>6, <2>1, OneJobMoves DEF BodyRaises, IInv, TypeOK, StatusAt, RowsAt, VerdictFitsRows, Imports
  <1>7. CASE MarkCompleted(j)
    <2>1. TypeOK'
      BY <1>7 DEF MarkCompleted, IInv, TypeOK, Phase, L!Status
    <2> QED
      BY <1>7, <2>1, OneJobMoves
      DEF MarkCompleted, IInv, TypeOK, StatusAt, RowsAt, VerdictFitsRows, Imports,
          L!Verdict
  <1>8. CASE Announce(j)
    <2>1. TypeOK'
      BY <1>8 DEF Announce, IInv, TypeOK, Phase
    <2> QED
      BY <1>8, <2>1, OneJobMoves DEF Announce, IInv, TypeOK, StatusAt, RowsAt, VerdictFitsRows, Imports
  <1>9. CASE DatabaseError(j)
    <2>1. TypeOK'
      BY <1>9 DEF DatabaseError, IInv, TypeOK, Phase, L!Status
    <2> QED
      BY <1>9, <2>1, OneJobMoves
      DEF DatabaseError, IInv, TypeOK, StatusAt, RowsAt, VerdictFitsRows, Imports,
          L!Verdict
  <1>10. CASE MarkFailed(j)
    <2>1. TypeOK'
      BY <1>10 DEF MarkFailed, IInv, TypeOK, Phase, L!Status
    <2> QED
      BY <1>10, <2>1, OneJobMoves
      DEF MarkFailed, IInv, TypeOK, StatusAt, RowsAt, VerdictFitsRows, Imports,
          L!Verdict
  <1>11. CASE Crash(j)
    <2>1. TypeOK'
      BY <1>11 DEF Crash, IInv, TypeOK, Phase
    <2> QED
      BY <1>11, <2>1, OneJobMoves DEF Crash, IInv, TypeOK, StatusAt, RowsAt, VerdictFitsRows, Imports,
          L!Verdict
  <1>12. ASSUME NEW n \in JobIds, Chain(j, n)
         PROVE  IInv'
    <2>1. TypeOK'
      BY <1>12 DEF Chain, IInv, TypeOK, Phase, L!Status, JobKind
    <2>2. n # j
      BY <1>12 DEF Chain
    <2>3. /\ pc' = [pc EXCEPT ![j] = "done", ![n] = "begin"]
          /\ status' = [status EXCEPT ![n] = "queued"]
          /\ kind' = [kind EXCEPT ![n] = "reindex_search"]
          /\ UNCHANGED <<queue, db, rows, crashed, unsent>>
      BY <1>12 DEF Chain
    <2>4. /\ pc'[j] = "done" /\ pc'[n] = "begin"
          /\ status'[j] = status[j] /\ status'[n] = "queued"
          /\ kind'[j] = kind[j]
          /\ \A i \in JobIds \ {j, n} : pc'[i] = pc[i] /\ status'[i] = status[i]
                                        /\ kind'[i] = kind[i]
      BY <2>2, <2>3 DEF IInv, TypeOK
    <2>5. rows[n] = "none" /\ status[j] = "completed"
      BY <1>12 DEF Chain, IInv, StatusAt, RowsAt
    <2>6. rows[j] # "staged" /\ rows[j] # "partial"
      BY <1>12 DEF Chain, IInv, VerdictFitsRows
    <2>7. db[n] = "ok" /\ db[j] = "ok"
      BY <1>12 DEF Chain, IInv, RowsAt
    <2>8. ASSUME NEW i \in JobIds
          PROVE  \/ pc'[i] = pc[i] /\ status'[i] = status[i] /\ kind'[i] = kind[i]
                 \/ i = j /\ pc'[i] = "done" /\ status'[i] = "completed"
                    /\ kind'[i] = kind[i]
                 \/ i = n /\ pc'[i] = "begin" /\ status'[i] = "queued"
                    /\ kind'[i] = "reindex_search"
      BY <2>3, <2>4, <2>5 DEF IInv, TypeOK
    <2>9. UNCHANGED <<queue, db, rows, crashed, unsent>>
      BY <2>3
    <2>10. StatusAt'
      BY <2>8, <2>9 DEF IInv, StatusAt
    <2>11. OrphanHasCause'
      BY <2>8, <2>9 DEF IInv, OrphanHasCause, Hit, L!Verdict
    <2>12. RowsAt'
      BY <2>5, <2>6, <2>7, <2>8, <2>9 DEF IInv, RowsAt
    <2>13. VerdictFitsRows'
      BY <2>5, <2>6, <2>7, <2>8, <2>9 DEF IInv, VerdictFitsRows
    <2> QED
      BY <2>1, <2>10, <2>11, <2>12, <2>13 DEF IInv
  <1>13. ASSUME NEW n \in JobIds, ChainBreaks(j, n)
         PROVE  IInv'
    <2>1. TypeOK'
      BY <1>13 DEF ChainBreaks, IInv, TypeOK, Phase, L!Status, JobKind
    <2>2. n # j
      BY <1>13 DEF ChainBreaks
    <2>3. /\ pc' = [pc EXCEPT ![j] = "done", ![n] = "done"]
          /\ status' = [status EXCEPT ![n] = "queued"]
          /\ kind' = [kind EXCEPT ![n] = "reindex_search"]
          /\ db' = [db EXCEPT ![j] = "broken"]
          /\ unsent' = unsent \cup {n}
          /\ UNCHANGED <<queue, rows, crashed>>
      BY <1>13 DEF ChainBreaks
    <2>4. status[j] = "completed" /\ rows[n] = "none"
          /\ rows[j] # "staged" /\ rows[j] # "partial"
      BY <1>13 DEF ChainBreaks, IInv, StatusAt, RowsAt, VerdictFitsRows
    <2>5. ASSUME NEW i \in JobIds
          PROVE  \/ /\ i # j /\ i # n
                    /\ pc'[i] = pc[i] /\ status'[i] = status[i] /\ kind'[i] = kind[i]
                    /\ db'[i] = db[i] /\ (i \in unsent' <=> i \in unsent)
                 \/ i = j /\ pc'[i] = "done" /\ status'[i] = "completed"
                    /\ kind'[i] = kind[i] /\ db'[i] = "broken"
                 \/ i = n /\ pc'[i] = "done" /\ status'[i] = "queued"
                    /\ kind'[i] = "reindex_search" /\ i \in unsent' /\ db'[i] = db[i]
      BY <2>2, <2>3, <2>4 DEF IInv, TypeOK
    <2>6. UNCHANGED <<queue, rows, crashed>>
      BY <2>3
    <2>7. StatusAt'
      BY <2>5, <2>6 DEF IInv, StatusAt
    <2>8. OrphanHasCause'
      BY <2>5, <2>6 DEF IInv, OrphanHasCause, Hit, L!Verdict
    <2>9. RowsAt'
      BY <2>4, <2>5, <2>6 DEF IInv, RowsAt
    <2>10. VerdictFitsRows'
      BY <2>4, <2>5, <2>6 DEF IInv, VerdictFitsRows
    <2> QED
      BY <2>1, <2>7, <2>8, <2>9, <2>10 DEF IInv
  <1>14. CASE DispatchFails(j)
    <2>1. TypeOK'
      BY <1>14 DEF DispatchFails, IInv, TypeOK, Phase
    <2> QED
      BY <1>14, <2>1, OneJobMoves
      DEF DispatchFails, IInv, TypeOK, StatusAt, RowsAt, VerdictFitsRows
  <1>15. CASE Unreachable(j)
    <2>1. TypeOK'
      BY <1>15 DEF Unreachable, IInv, TypeOK, Phase
    <2> QED
      BY <1>15, <2>1, OneJobMoves
      DEF Unreachable, IInv, TypeOK, StatusAt, RowsAt, VerdictFitsRows
  <1> QED
    BY <1>1, <1>2, <1>3, <1>4, <1>5, <1>6, <1>7, <1>8, <1>9, <1>10, <1>11, <1>12,
       <1>13, <1>14, <1>15
    DEF JobStep

(* IInv is inductive.                                                       *)
LEMMA NextIInv ==
    ASSUME IInv, [Next]_vars
    PROVE  IInv'
  <1>1. CASE UNCHANGED vars
    BY <1>1 DEF vars, IInv, TypeOK, StatusAt, RowsAt, OrphanHasCause, VerdictFitsRows, Hit
  <1>2. CASE Next
    BY <1>2, JobStepIInv DEF Next
  <1> QED
    BY <1>1, <1>2

(* Every reachable state satisfies the inductive invariant.                 *)
THEOREM Invariance == Spec => []IInv
  BY InitIInv, NextIInv, PTL DEF Spec

(* Types of the job table, the queue and the runs.                          *)
THEOREM TypeCorrect == Spec => []TypeOK
  <1>1. IInv => TypeOK
    BY DEF IInv
  <1> QED
    BY <1>1, Invariance, PTL

(* No job is left without a verdict but by one of the named causes.         *)
THEOREM OrphansExplained == Spec => []OrphanHasCause
  <1>1. IInv => OrphanHasCause
    BY DEF IInv
  <1> QED
    BY <1>1, Invariance, PTL

(* A part of an import is in the catalog only under the verdict "failed".   *)
THEOREM VerdictHonest == Spec => []VerdictFitsRows
  <1>1. IInv => VerdictFitsRows
    BY DEF IInv
  <1> QED
    BY <1>1, Invariance, PTL

(* Only CreateJob and the chaining of a reindex write the kind of a row.    *)
LEMMA ImportsKept ==
    ASSUME NEW j \in JobIds,
           \/ Dispatch(j) \/ DispatchFails(j) \/ Take(j) \/ MarkRunning(j)
           \/ BodySucceeds(j) \/ BodyRaises(j) \/ MarkCompleted(j) \/ Announce(j)
           \/ DatabaseError(j) \/ Unreachable(j) \/ MarkFailed(j) \/ Crash(j)
    PROVE  UNCHANGED Imports
  <1>1. UNCHANGED kind
    BY DEF Dispatch, DispatchFails, Take, MarkRunning, BodySucceeds, BodyRaises,
       MarkCompleted, Announce, DatabaseError, Unreachable, MarkFailed, Crash
  <1> QED
    BY <1>1 DEF Imports

(* Jobs implements the lifecycle its clients poll: each step is a move of   *)
(* one job along it, or changes no status.                                  *)
THEOREM LifecycleImplemented == Spec => ImplementsLifecycle
  <1>1. Init => L!LifecycleInit
    BY JobsAssumption DEF Init, L!LifecycleInit, Imports, JobKind
  <1>2. ASSUME IInv, [Next]_vars
        PROVE  [L!LifecycleNext]_<<status, Imports>>
    <2> USE DEF At, Mark
    <2>1. CASE UNCHANGED vars
      BY <2>1 DEF vars, Imports
    <2>2. ASSUME NEW j \in JobIds, NEW k \in JobKind, CreateJob(j, k)
          PROVE  L!LifecycleNext
      <3>1. L!Move(j, "absent", "queued")
        BY <2>2 DEF CreateJob, L!Move
      <3>2. kind[j] # "import_catalog" /\ kind' = [kind EXCEPT ![j] = k]
        BY <1>2, <2>2, JobsAssumption DEF CreateJob, IInv, StatusAt, JobKind
      <3>3. CASE k = "import_catalog"
        <4>1. Imports' = Imports \cup {j}
          BY <1>2, <3>2, <3>3 DEF Imports, IInv, TypeOK
        <4> QED
          BY <3>1, <4>1 DEF L!LifecycleNext, L!Enter
      <3>4. CASE k # "import_catalog"
        <4>1. Imports' = Imports
          BY <1>2, <3>2, <3>4 DEF Imports, IInv, TypeOK
        <4> QED
          BY <3>1, <4>1 DEF L!LifecycleNext, L!Enter
      <3> QED
        BY <3>3, <3>4
    <2>3. ASSUME NEW j \in JobIds, MarkRunning(j)
          PROVE  L!LifecycleNext
      <3>1. L!Move(j, "queued", "running")
        BY <1>2, <2>3 DEF MarkRunning, IInv, StatusAt, L!Move
      <3> QED
        BY <2>3, <3>1, ImportsKept DEF L!LifecycleNext, L!Advance
    <2>4. ASSUME NEW j \in JobIds, MarkCompleted(j)
          PROVE  L!LifecycleNext
      <3>1. L!Move(j, "running", "completed")
        BY <1>2, <2>4 DEF MarkCompleted, IInv, StatusAt, L!Move
      <3> QED
        BY <2>4, <3>1, ImportsKept DEF L!LifecycleNext, L!Advance, L!Verdict
    <2>5. ASSUME NEW j \in JobIds, MarkFailed(j)
          PROVE  [L!LifecycleNext]_<<status, Imports>>
      <3>1. UNCHANGED Imports
        BY <2>5, ImportsKept
      <3>2. CASE db[j] = "ok" /\ status[j] = "running"
        <4>1. L!Move(j, "running", "failed")
          BY <2>5, <3>2 DEF MarkFailed, L!Move
        <4> QED
          BY <3>1, <4>1 DEF L!LifecycleNext, L!Advance, L!Verdict
      <3>3. CASE db[j] = "ok" /\ status[j] # "running"
        <4>1. L!Move(j, "completed", "failed") /\ j \in Imports
          BY <1>2, <2>5, <3>3 DEF MarkFailed, IInv, StatusAt, Imports, L!Move
        <4> QED
          BY <3>1, <4>1 DEF L!LifecycleNext, L!Withdraw
      <3>4. CASE db[j] # "ok"
        BY <2>5, <3>1, <3>4 DEF MarkFailed
      <3> QED
        BY <3>2, <3>3, <3>4
    <2>6. ASSUME NEW j \in JobIds, NEW n \in JobIds, Chain(j, n) \/ ChainBreaks(j, n)
          PROVE  L!LifecycleNext
      <3>1. L!Move(n, "absent", "queued")
        BY <2>6 DEF Chain, ChainBreaks, L!Move
      <3>2. kind' = [kind EXCEPT ![n] = "reindex_search"]
        BY <2>6 DEF Chain, ChainBreaks
      <3>3. kind[n] # "import_catalog"
        BY <1>2, <2>6, JobsAssumption DEF Chain, ChainBreaks, IInv, StatusAt, JobKind
      <3>4. UNCHANGED Imports
        BY <1>2, <3>2, <3>3 DEF Imports, IInv, TypeOK
      <3> QED
        BY <3>1, <3>4 DEF L!LifecycleNext, L!Enter
    <2>7. ASSUME NEW j \in JobIds, DatabaseError(j)
          PROVE  [L!LifecycleNext]_<<status, Imports>>
      <3>1. UNCHANGED Imports
        BY <2>7, ImportsKept
      <3>2. CASE UNCHANGED status
        BY <3>1, <3>2
      <3>3. CASE pc[j] = "begin" /\ Mark(j, "running")
        <4>1. L!Move(j, "queued", "running")
          BY <1>2, <3>3 DEF IInv, StatusAt, L!Move
        <4> QED
          BY <3>1, <4>1 DEF L!LifecycleNext, L!Advance
      <3> QED
        BY <2>7, <3>2, <3>3 DEF DatabaseError
    <2>8. ASSUME NEW j \in JobIds,
                 \/ Dispatch(j) \/ DispatchFails(j) \/ Take(j) \/ BodySucceeds(j)
                 \/ BodyRaises(j) \/ Announce(j) \/ Unreachable(j) \/ Crash(j)
          PROVE  UNCHANGED <<status, Imports>>
      <3>1. UNCHANGED Imports
        BY <2>8, ImportsKept
      <3> QED
        BY <2>8, <3>1 DEF Dispatch, DispatchFails, Take, BodySucceeds, BodyRaises,
           Announce, Unreachable, Crash
    <2> QED
      BY <1>2, <2>1, <2>2, <2>3, <2>4, <2>5, <2>6, <2>7, <2>8 DEF Next, JobStep
  <1> QED
    BY <1>1, <1>2, Invariance, PTL DEF Spec, ImplementsLifecycle, L!LifecycleSpec

-----------------------------------------------------------------------------

(* A job that follows an import is a reindex and stays one.                 *)
Followed ==
    \A j \in JobIds :
        follow[j] # None =>
            /\ follow[j] \in JobIds
            /\ status[follow[j]] # "absent"
            /\ kind[follow[j]] = "reindex_search"

(* A row that exists keeps its kind, and only Chain writes follow.          *)
LEMMA FollowedKept ==
    ASSUME IInv, Followed, [Next]_vars
    PROVE  Followed'
  <1>1. ASSUME NEW i \in JobIds, status[i] # "absent"
        PROVE  status'[i] # "absent" /\ kind'[i] = kind[i]
    BY <1>1 DEF Next, JobStep, vars, IInv, TypeOK, At, Mark, CreateJob, Dispatch,
       DispatchFails, Take, MarkRunning, BodySucceeds, BodyRaises, MarkCompleted, Announce,
       DatabaseError, Unreachable, MarkFailed, Chain, ChainBreaks, Crash
  <1>2. CASE UNCHANGED follow
    BY <1>1, <1>2 DEF Followed
  <1>3. ASSUME NEW j \in JobIds, NEW n \in JobIds, Chain(j, n)
        PROVE  Followed'
    <2>1. /\ follow' = [follow EXCEPT ![j] = n]
          /\ kind'[n] = "reindex_search" /\ status'[n] = "queued"
      BY <1>3 DEF Chain, Mark, IInv, TypeOK
    <2> QED
      BY <1>1, <2>1, JobsAssumption DEF Followed, IInv, TypeOK
  <1>4. CASE UNCHANGED vars
    BY <1>2, <1>4 DEF vars
  <1> QED
    BY <1>2, <1>3, <1>4 DEF Next, JobStep, CreateJob, Dispatch, DispatchFails, Take,
       MarkRunning, BodySucceeds, BodyRaises, MarkCompleted, Announce, DatabaseError,
       Unreachable, MarkFailed, ChainBreaks, Crash

(* Where a run of an import may end: after Chain, or hit.                   *)
LEMMA EndsReindexed ==
    ASSUME IInv, IInv', Followed', ImportIsReindexed, [Next]_vars
    PROVE  ImportIsReindexed'
  <1> SUFFICES ASSUME NEW i \in JobIds,
                      pc'[i] = "done", status'[i] = "completed", kind'[i] = "import_catalog",
                      i \notin crashed', i \notin unsent', db'[i] # "broken"
               PROVE  follow'[i] \in JobIds /\ kind'[follow'[i]] = "reindex_search"
    BY DEF ImportIsReindexed, Imports, Hit
  <1>1. SUFFICES follow'[i] # None
    BY DEF Followed
  <1> USE DEF At, Mark
  <1>2. ASSUME pc[i] = "done" /\ status[i] = "completed" /\ kind[i] = "import_catalog"
               /\ i \notin crashed /\ i \notin unsent /\ db[i] # "broken",
               follow'[i] = follow[i]
        PROVE  follow'[i] # None
    BY <1>2, JobsAssumption DEF ImportIsReindexed, Imports, Hit
  <1>3. CASE UNCHANGED vars
    BY <1>2, <1>3 DEF vars
  <1>4. ASSUME NEW j \in JobIds, NEW k \in JobKind, CreateJob(j, k)
        PROVE  follow'[i] # None
    BY <1>2, <1>4 DEF CreateJob, IInv, TypeOK
  <1>5. ASSUME NEW j \in JobIds, NEW n \in JobIds, Chain(j, n)
        PROVE  follow'[i] # None
    <2>1. CASE i = j
      BY <1>5, <2>1, JobsAssumption DEF Chain, IInv, TypeOK
    <2>2. CASE i # j
      <3>1. i # n
        BY <1>5 DEF Chain, IInv, TypeOK
      <3> QED
        BY <1>2, <1>5, <2>2, <3>1 DEF Chain, IInv, TypeOK
    <2> QED
      BY <2>1, <2>2
  <1>6. ASSUME NEW j \in JobIds,
               \/ Dispatch(j) \/ DispatchFails(j) \/ Take(j) \/ MarkRunning(j)
               \/ BodySucceeds(j) \/ BodyRaises(j) \/ MarkCompleted(j) \/ Announce(j)
               \/ Unreachable(j)
        PROVE  follow'[i] # None
    BY <1>2, <1>6 DEF Dispatch, DispatchFails, Take, MarkRunning, BodySucceeds, BodyRaises,
       MarkCompleted, Announce, Unreachable, IInv, TypeOK, Imports
  <1>7. ASSUME NEW j \in JobIds, DatabaseError(j) \/ Crash(j)
        PROVE  follow'[i] # None
    BY <1>2, <1>7 DEF DatabaseError, Crash, IInv, TypeOK
  <1>8. ASSUME NEW j \in JobIds, MarkFailed(j)
        PROVE  follow'[i] # None
    <2>1. i # j
      BY <1>8 DEF MarkFailed, IInv, TypeOK, StatusAt
    <2> QED
      BY <1>2, <1>8, <2>1 DEF MarkFailed, IInv, TypeOK
  <1>9. ASSUME NEW j \in JobIds, NEW n \in JobIds, ChainBreaks(j, n)
        PROVE  follow'[i] # None
    BY <1>2, <1>9 DEF ChainBreaks, IInv, TypeOK
  <1> QED
    BY <1>3, <1>4, <1>5, <1>6, <1>7, <1>8, <1>9 DEF Next, JobStep

(* An import that run_import_job completed is followed by the reindex job   *)
(* it chains, unless a crash or a database error came between.              *)
THEOREM ReindexFollows == Spec => []ImportIsReindexed
  <1>1. Init => Followed /\ ImportIsReindexed
    BY DEF Init, Followed, ImportIsReindexed, Imports
  <1>2. IInv /\ IInv' /\ Followed /\ ImportIsReindexed /\ [Next]_vars
           => Followed' /\ ImportIsReindexed'
    BY FollowedKept, EndsReindexed
  <1> QED
    BY <1>1, <1>2, Invariance, PTL DEF Spec
=============================================================================
