------------------------------ MODULE Webhooks ------------------------------
(***************************************************************************)
(* Outgoing webhooks of moziketo-wave (services/webhooks.py): admins keep  *)
(* subscriptions, emit_event and send_test_event add delivery rows, and    *)
(* deliver_pending posts what is due and writes the outcome of a whole     *)
(* batch in one commit.  deliver_pending runs in the request that emitted  *)
(* the event, in the import job and in the retry job that cron starts, so  *)
(* several workers may hold the same row: nothing locks it.                *)
(*                                                                         *)
(* A worker is one SQLAlchemy session.  It writes a column only if the     *)
(* value differs from the one it loaded (`image'), and sees again the      *)
(* subscription objects it already loaded (`seen') while they are alive.   *)
(***************************************************************************)
EXTENDS Naturals, FiniteSets

CONSTANTS
    Subs,         \* subscriptions
    Deliveries,   \* delivery rows that may be created
    Workers,      \* sessions that run emit_event, send_test_event or the retry job
    None,         \* no subscription or delivery
    MaxAttempts,  \* max_attempts of deliver_pending (5 in the code)
    BatchLimit,   \* rows one deliver_pending loads (20 in the code)
    MaxCrashes    \* bound: how many workers die in one behaviour

ASSUME BoundsAssumption ==
    /\ MaxAttempts \in Nat \ {0}
    /\ BatchLimit \in Nat \ {0}
    /\ MaxCrashes \in Nat
    /\ None \notin Subs \cup Deliveries

VARIABLES
    sub,          \* webhook_subscriptions: existence and is_active
    row,          \* webhook_deliveries
    pc,           \* per worker: where it is
    draft,        \* per worker: delivery objects added and not yet committed
    held,         \* per worker: the delivery object it created last and still refers to
    seen,         \* per worker: is_active of the subscription objects it loaded
    image,        \* per worker: the batch as loaded
    outcome,      \* per worker: what became of each delivery of the batch
    posts,        \* history: HTTP requests sent, counted up to MaxAttempts
    acked,        \* history: deliveries the receiver answered with 2xx
    sawInactive,  \* history: deliveries whose subscription was found inactive
    crashes

session == <<pc, draft, held, seen, image, outcome>>
history == <<posts, acked, sawInactive>>
vars == <<sub, row, session, history, crashes>>

Listed == INSTANCE DeliveryLifecycle WITH
    status <- [d \in Deliveries |-> row[d].st],
    refused <- sawInactive

Open == {"pending", "retrying"}
Settled == {"success", "failed"}

Row == [st       : {"absent", "deleted"} \cup Open \cup Settled,
        attempts : 0..MaxAttempts,
        sub      : Subs \cup {None},
        due      : BOOLEAN]   \* next_retry_at is null or past

Image == [st : Open, attempts : 0..MaxAttempts]

NoRow == [st |-> "absent", attempts |-> 0, sub |-> None, due |-> TRUE]
NewRow(s) == [st |-> "pending", attempts |-> 0, sub |-> s, due |-> TRUE]
NewImage == [st |-> "pending", attempts |-> 0]

Outcome == {"none", "todo", "post", "delivered", "exhausted", "backoff", "skipped"}

Nothing(x) == [d \in Deliveries |-> x]

TypeOK ==
    /\ sub \in [Subs -> {"absent", "active", "inactive", "deleted"}]
    /\ row \in [Deliveries -> Row]
    /\ pc \in [Workers -> {"idle", "emit", "select", "send"}]
    /\ draft \in [Workers -> [Deliveries -> Subs \cup {None}]]
    /\ held \in [Workers -> Deliveries \cup {None}]
    /\ seen \in [Workers -> [Subs -> {"unknown", "active", "inactive"}]]
    /\ image \in [Workers -> [Deliveries -> Image]]
    /\ outcome \in [Workers -> [Deliveries -> Outcome]]
    /\ posts \in [Deliveries -> 0..MaxAttempts]
    /\ acked \subseteq Deliveries
    /\ sawInactive \subseteq Deliveries
    /\ crashes \in 0..MaxCrashes

Init ==
    /\ sub = [s \in Subs |-> "absent"]
    /\ row = Nothing(NoRow)
    /\ pc = [w \in Workers |-> "idle"]
    /\ draft = [w \in Workers |-> Nothing(None)]
    /\ held = [w \in Workers |-> None]
    /\ seen = [w \in Workers |-> [s \in Subs |-> "unknown"]]
    /\ image = [w \in Workers |-> Nothing(NewImage)]
    /\ outcome = [w \in Workers |-> Nothing("none")]
    /\ posts = Nothing(0)
    /\ acked = {}
    /\ sawInactive = {}
    /\ crashes = 0

(* The worker's session is closed; what it did not commit is gone.          *)
Close(w) ==
    /\ pc' = [pc EXCEPT ![w] = "idle"]
    /\ draft' = [draft EXCEPT ![w] = Nothing(None)]
    /\ held' = [held EXCEPT ![w] = None]
    /\ seen' = [seen EXCEPT ![w] = [s \in Subs |-> "unknown"]]
    /\ image' = [image EXCEPT ![w] = Nothing(NewImage)]
    /\ outcome' = [outcome EXCEPT ![w] = Nothing("none")]

-----------------------------------------------------------------------------
(* Subscriptions *)

CreateSubscription(s) ==
    /\ sub[s] = "absent"
    /\ sub' = [sub EXCEPT ![s] = "active"]
    /\ UNCHANGED <<row, session, history, crashes>>

UpdateSubscription(s, active) ==
    /\ sub[s] \in {"active", "inactive"}
    /\ sub' = [sub EXCEPT ![s] = IF active THEN "active" ELSE "inactive"]
    /\ UNCHANGED <<row, session, history, crashes>>

(* The foreign key of a delivery cascades.                                  *)
DeleteSubscription(s) ==
    /\ sub[s] \in {"active", "inactive"}
    /\ sub' = [sub EXCEPT ![s] = "deleted"]
    /\ row' = [d \in Deliveries |->
                  IF row[d].sub = s THEN [row[d] EXCEPT !.st = "deleted"] ELSE row[d]]
    /\ UNCHANGED <<session, history, crashes>>

-----------------------------------------------------------------------------
(* Events *)

(* Delivery ids not in the table and in no other session.                   *)
Fresh == {d \in Deliveries : row[d].st = "absent" /\ \A v \in Workers : draft[v][d] = None}

(* The deliveries of one emit: at most one for each subscription of S.      *)
Drafts(S) ==
    {m \in [Deliveries -> S \cup {None}] :
        \A d, e \in Deliveries : m[d] # None => d \in Fresh /\ (m[e] = m[d] => e = d)}

Active == {s \in Subs : sub[s] = "active"}

(* emit_event loads every active subscription; which of them listen to the  *)
(* event is left open.                                                      *)
EmitRead(w) ==
    /\ pc[w] = "idle"
    /\ \E m \in Drafts(Active) : draft' = [draft EXCEPT ![w] = m]
    /\ seen' = [seen EXCEPT ![w] =
                   [s \in Subs |-> IF s \in Active THEN "active" ELSE "unknown"]]
    /\ pc' = [pc EXCEPT ![w] = "emit"]
    /\ UNCHANGED <<sub, row, held, image, outcome, history, crashes>>

(* send_test_event does not ask whether the subscription is active.         *)
TestRead(w, s) ==
    /\ pc[w] = "idle"
    /\ sub[s] \in {"active", "inactive"}
    /\ \E d \in Fresh : draft' = [draft EXCEPT ![w][d] = s]
    /\ seen' = [seen EXCEPT ![w][s] = sub[s]]
    /\ pc' = [pc EXCEPT ![w] = "emit"]
    /\ UNCHANGED <<sub, row, held, image, outcome, history, crashes>>

Drafted(w) == {d \in Deliveries : draft[w][d] # None}

EmitCommit(w) ==
    /\ pc[w] = "emit"
    /\ \A d \in Drafted(w) : sub[draft[w][d]] # "deleted"
    /\ row' = [d \in Deliveries |->
                  IF d \in Drafted(w) THEN NewRow(draft[w][d]) ELSE row[d]]
    /\ \E d \in Deliveries \cup {None} :
          /\ IF Drafted(w) = {} THEN d = None ELSE d \in Drafted(w)
          /\ held' = [held EXCEPT ![w] = d]
    /\ draft' = [draft EXCEPT ![w] = Nothing(None)]
    /\ pc' = [pc EXCEPT ![w] = "select"]
    /\ UNCHANGED <<sub, seen, image, outcome, history, crashes>>

(* A subscription deleted meanwhile fails the foreign key and the request.  *)
EmitRejected(w) ==
    /\ pc[w] = "emit"
    /\ \E d \in Drafted(w) : sub[draft[w][d]] = "deleted"
    /\ Close(w)
    /\ UNCHANGED <<sub, row, history, crashes>>

(* run_webhook_job on a session of its own.                                 *)
StartRetry(w) ==
    /\ pc[w] = "idle"
    /\ pc' = [pc EXCEPT ![w] = "select"]
    /\ UNCHANGED <<sub, row, draft, held, seen, image, outcome, history, crashes>>

-----------------------------------------------------------------------------
(* deliver_pending *)

\* Fault: the query forgets the rows that were tried before.
DueForgetsRetrying(d) == row[d].st = "pending" /\ row[d].due

Due(d) == row[d].st \in Open /\ row[d].due

(* The query returns rows in no particular order, so any BatchLimit of      *)
(* them.  An object the session still refers to is not loaded again.        *)
Select(w) ==
    /\ pc[w] = "select"
    /\ LET Candidates == {d \in Deliveries : Due(d)}
       IN  \E B \in SUBSET Candidates :
              /\ B # Candidates => Cardinality(B) = BatchLimit
              /\ Cardinality(B) <= BatchLimit
              /\ image' = [image EXCEPT ![w] = [d \in Deliveries |->
                     IF d \in B /\ d # held[w] /\ row[d].st \in Open
                     THEN [st |-> row[d].st, attempts |-> row[d].attempts]
                     ELSE NewImage]]
              /\ outcome' = [outcome EXCEPT ![w] = [d \in Deliveries |->
                     IF d \in B THEN "todo" ELSE "none"]]
    /\ pc' = [pc EXCEPT ![w] = "send"]
    /\ UNCHANGED <<sub, row, draft, held, seen, history, crashes>>

Batch(w) == {d \in Deliveries : outcome[w][d] # "none"}

(* What session.get may tell of subscription s: the object loaded before,   *)
(* if it is still alive, or the row.                                        *)
Recall(w, s) ==
    {IF sub[s] = "active" THEN "active" ELSE "inactive"} \cup ({seen[w][s]} \ {"unknown"})

\* Fault: the loop does not look at is_active.
LookupUnchecked(w, d) ==
    /\ outcome[w][d] = "todo"
    /\ \A e \in Deliveries : outcome[w][e] # "post"
    /\ seen' = seen
    /\ outcome' = [outcome EXCEPT ![w][d] = "post"]
    /\ UNCHANGED <<sub, row, pc, draft, held, image, history, crashes>>

Lookup(w, d) ==
    /\ outcome[w][d] = "todo"
    /\ \A e \in Deliveries : outcome[w][e] # "post"
    /\ \E a \in Recall(w, row[d].sub) :
          /\ seen' = [seen EXCEPT ![w][row[d].sub] = a]
          /\ outcome' = [outcome EXCEPT ![w][d] = IF a = "active" THEN "post" ELSE "skipped"]
          /\ sawInactive' = IF a = "active" THEN sawInactive ELSE sawInactive \cup {d}
    /\ UNCHANGED <<sub, row, pc, draft, held, image, posts, acked, crashes>>

(* One request to the receiver, which answers 2xx or does not.              *)
PostWithLimit(w, d, limit) ==
    /\ outcome[w][d] = "post"
    /\ posts' = [posts EXCEPT ![d] = IF @ < MaxAttempts THEN @ + 1 ELSE @]
    /\ \/ /\ acked' = acked \cup {d}
          /\ outcome' = [outcome EXCEPT ![w][d] = "delivered"]
       \/ /\ acked' = acked
          /\ outcome' = [outcome EXCEPT ![w][d] =
                 IF image[w][d].attempts + 1 >= limit THEN "exhausted" ELSE "backoff"]
    /\ UNCHANGED <<sub, row, pc, draft, held, seen, image, sawInactive, crashes>>

\* Fault: one attempt too many.
PostTooOften(w, d) == PostWithLimit(w, d, MaxAttempts + 1)

\* Fault: one attempt too few.
PostTooRarely(w, d) == PostWithLimit(w, d, MaxAttempts - 1)

Post(w, d) == PostWithLimit(w, d, MaxAttempts)

\* Fault: a delivery that is to be tried again is pending again.
WrittenPending(r, i, o) ==
    [r EXCEPT
        !.st = CASE o = "delivered" -> "success"
                 [] o = "backoff"   -> "pending"
                 [] OTHER           -> "failed",
        !.attempts = IF o = "skipped" THEN @ ELSE i.attempts + 1,
        !.due = IF o = "backoff" THEN FALSE ELSE @]

\* Fault: attempts are added to what the row holds by then.
AttemptsAdded(r, i, o) == IF o = "skipped" THEN r.attempts ELSE r.attempts + i.attempts + 1

(* The attempts of row r, loaded as i, after outcome o.                     *)
AttemptsAfter(r, i, o) == IF o = "skipped" THEN r.attempts ELSE i.attempts + 1

(* Row r after an UPDATE of the columns that changed since they were loaded *)
(* as i: a row that was retrying then keeps whatever status it has now.     *)
Written(r, i, o) ==
    [r EXCEPT
        !.st = CASE o = "delivered" -> "success"
                 [] o = "backoff"   -> IF i.st = "pending" THEN "retrying" ELSE @
                 [] OTHER           -> "failed",
        !.attempts = AttemptsAfter(r, i, o),
        !.due = IF o = "backoff" THEN FALSE ELSE @]

BatchDone(w) ==
    /\ pc[w] = "send"
    /\ \A d \in Deliveries : outcome[w][d] \notin {"todo", "post"}

(* Rows gone meanwhile are noticed only when their UPDATE is sent alone:    *)
(* asyncpg reports no row count for a batched statement.                    *)
Commit(w) ==
    /\ BatchDone(w)
    /\ \A d \in Batch(w) : row[d].st = "deleted" => Batch(w) # {d}
    /\ row' = [d \in Deliveries |->
                  IF d \in Batch(w) /\ row[d].st # "deleted"
                  THEN Written(row[d], image[w][d], outcome[w][d])
                  ELSE row[d]]
    /\ Close(w)
    /\ UNCHANGED <<sub, history, crashes>>

(* StaleDataError: nothing of the batch is written.  The UPDATEs are sent   *)
(* at the commit, or before a subscription is loaded (session.get flushes). *)
CommitFails(w) ==
    /\ \A d \in Deliveries : outcome[w][d] # "post"
    /\ \E d \in Batch(w) : outcome[w][d] # "todo" /\ row[d].st = "deleted"
    /\ Close(w)
    /\ UNCHANGED <<sub, row, history, crashes>>

-----------------------------------------------------------------------------
(* Time and failure *)

BackoffElapses(d) ==
    /\ row[d].st \in Open
    /\ ~row[d].due
    /\ row' = [row EXCEPT ![d].due = TRUE]
    /\ UNCHANGED <<sub, session, history, crashes>>

(* The process dies or the database refuses a statement.                    *)
Crash(w) ==
    /\ pc[w] # "idle"
    /\ crashes < MaxCrashes
    /\ crashes' = crashes + 1
    /\ Close(w)
    /\ UNCHANGED <<sub, row, history>>

-----------------------------------------------------------------------------

SubscriptionStep ==
    \E s \in Subs :
        \/ CreateSubscription(s)
        \/ \E active \in BOOLEAN : UpdateSubscription(s, active)
        \/ DeleteSubscription(s)

(* What a worker does next by itself once it has begun.                     *)
WorkerStep(w) ==
    \/ EmitCommit(w)
    \/ EmitRejected(w)
    \/ Select(w)
    \/ \E d \in Deliveries : Lookup(w, d)
    \/ \E d \in Deliveries : Post(w, d)
    \/ Commit(w)
    \/ CommitFails(w)

Next ==
    \/ SubscriptionStep
    \/ \E w \in Workers :
        \/ EmitRead(w)
        \/ \E s \in Subs : TestRead(w, s)
        \/ StartRetry(w)
        \/ WorkerStep(w)
        \/ Crash(w)
    \/ \E d \in Deliveries : BackoffElapses(d)

(* A request or job that began runs on; cron starts the retry job every     *)
(* five minutes (deploy/cron/webhook-retry.sh); clocks advance.             *)
Fairness ==
    /\ \A w \in Workers : WF_vars(WorkerStep(w)) /\ WF_vars(StartRetry(w))
    /\ \A d \in Deliveries : WF_vars(BackoffElapses(d))

Spec == Init /\ [][Next]_vars /\ Fairness

-----------------------------------------------------------------------------
(* Properties *)

(* A delivery that is still to be tried has attempts left, whatever stale   *)
(* image a slower worker writes over a faster one's outcome.                *)
OpenHasAttemptsLeft ==
    \A d \in Deliveries : row[d].st \in Open => row[d].attempts < MaxAttempts

(* No delivery is written off lightly: "success" means that a receiver did  *)
(* answer 2xx, "failed" that its subscription was found inactive or that    *)
(* MaxAttempts requests really were sent, crashes and lost updates included.*)
GivesUpOnlyWhenSpent ==
    \A d \in Deliveries :
        /\ row[d].st = "success" => d \in acked
        /\ row[d].st = "failed" => d \in sawInactive \/ posts[d] = MaxAttempts

(* What the list of deliveries shows keeps the promise of DeliveryLifecycle,*)
(* however late a worker writes what it computed from an old image: no      *)
(* status without its evidence, no row back to pending or from the dead.    *)
ImplementsDelivery == Listed!DeliverySpec

(* No worker remembers subscription s as active.                            *)
ForgottenActive(s) == \A w \in Workers : seen[w][s] # "active"

(* While a subscription stays switched off or deleted, and no worker that   *)
(* loaded it before is still running, nothing is sent for it.               *)
PausedIsQuiet ==
    [][\A s \in Subs :
          (sub[s] # "active" /\ sub'[s] # "active" /\ ForgottenActive(s))
              => /\ ForgottenActive(s)'
                 /\ \A d \in Deliveries : row[d].sub = s => posts'[d] = posts[d]]_vars

(* Every delivery is settled in the end, and for good: delivered, given up, *)
(* or deleted with its subscription.  A stale worker may open it once more, *)
(* a crash may lose what was recorded, a full batch may leave it out, but   *)
(* each only so often.                                                      *)
EventuallySettled ==
    \A d \in Deliveries : row[d].st \in Open ~> [](row[d].st \notin Open)

(* deploy/cron/webhook-retry.sh: the retry job takes up what is pending and *)
(* what has failed.                                                         *)
FailedIsRetried ==
    \A d \in Deliveries : row[d].st = "failed" ~> row[d].st # "failed"
=============================================================================
