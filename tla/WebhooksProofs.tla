--------------------------- MODULE WebhooksProofs ---------------------------
(***************************************************************************)
(* Proofs about Webhooks for any set of subscriptions, deliveries and      *)
(* workers and any limits.  A worker writes outcomes it computed from an   *)
(* old image of the row, so the invariant speaks of the images under way:  *)
(* every attempt an image or a row counts was really posted.               *)
(***************************************************************************)
EXTENDS Webhooks, TLAPS

(* A row in the table belongs to a subscription.                            *)
RowsBelong ==
    \A d \in Deliveries : IF row[d].st = "absent" THEN row[d].sub = None
                                                  ELSE row[d].sub \in Subs

(* Attempts on record never exceed the requests sent.                       *)
AttemptsWerePosted == \A d \in Deliveries : row[d].attempts <= posts[d]

(* An id under creation is in no table and in no other session.             *)
DraftsAreFresh ==
    \A w \in Workers, d \in Deliveries :
        draft[w][d] # None =>
            /\ row[d].st = "absent"
            /\ \A v \in Workers : draft[v][d] # None => v = w

(* What a worker knows of one delivery of its batch.                        *)
HoldsFairly(w, d) ==
    LET o == outcome[w][d]
        n == image[w][d].attempts
    IN  /\ o # "none" => row[d].st # "absent" /\ n < MaxAttempts /\ n <= posts[d]
        /\ o \in {"delivered", "exhausted", "backoff"} => n + 1 <= posts[d]
        /\ o = "delivered" => d \in acked
        /\ o = "exhausted" => n + 1 = MaxAttempts
        /\ o = "backoff" => n + 1 < MaxAttempts
        /\ o = "skipped" => d \in sawInactive

BatchesFit == \A w \in Workers, d \in Deliveries : HoldsFairly(w, d)

IInv ==
    /\ TypeOK
    /\ RowsBelong
    /\ AttemptsWerePosted
    /\ DraftsAreFresh
    /\ BatchesFit
    /\ OpenHasAttemptsLeft
    /\ GivesUpOnlyWhenSpent

(* Nothing exists initially.                                                *)
LEMMA InitIInv == Init => IInv
  <1> SUFFICES ASSUME Init PROVE IInv
    OBVIOUS
  <1>1. NoRow \in Row /\ NewImage \in Image
    BY BoundsAssumption DEF NoRow, NewImage, Row, Image, Open, Settled
  <1>2. TypeOK
    BY <1>1, BoundsAssumption DEF Init, TypeOK, Nothing, Outcome
  <1>3. RowsBelong /\ AttemptsWerePosted /\ OpenHasAttemptsLeft /\ GivesUpOnlyWhenSpent
    BY BoundsAssumption
    DEF Init, Nothing, NoRow, RowsBelong, AttemptsWerePosted, OpenHasAttemptsLeft,
        GivesUpOnlyWhenSpent, Open
  <1>4. DraftsAreFresh
    BY DEF Init, Nothing, DraftsAreFresh
  <1>5. BatchesFit
    BY DEF Init, Nothing, BatchesFit, HoldsFairly
  <1> QED
    BY <1>2, <1>3, <1>4, <1>5 DEF IInv

(* What the UPDATE of one row does to its fields.                           *)
LEMMA WrittenFields ==
    ASSUME NEW r \in Row, NEW i \in Image,
           NEW o \in {"delivered", "exhausted", "backoff", "skipped"},
           i.attempts < MaxAttempts
    PROVE  /\ Written(r, i, o) \in Row
           /\ Written(r, i, o).sub = r.sub
           /\ Written(r, i, o).attempts = AttemptsAfter(r, i, o)
           /\ o = "delivered" => Written(r, i, o).st = "success"
           /\ o \in {"exhausted", "skipped"} => Written(r, i, o).st = "failed"
           /\ o = "backoff" => Written(r, i, o).st \in {"retrying", r.st}
  <1>1. AttemptsAfter(r, i, o) \in 0..MaxAttempts
    BY BoundsAssumption DEF AttemptsAfter, Row, Image
  <1> QED
    BY <1>1 DEF Written, Row, Open, Settled

(* Closing a session takes away drafts, images and outcomes of w only.      *)
LEMMA Closed ==
    ASSUME TypeOK, NEW w \in Workers, Close(w)
    PROVE  /\ pc' \in [Workers -> {"idle", "emit", "select", "send"}]
           /\ draft' \in [Workers -> [Deliveries -> Subs \cup {None}]]
           /\ held' \in [Workers -> Deliveries \cup {None}]
           /\ seen' \in [Workers -> [Subs -> {"unknown", "active", "inactive"}]]
           /\ image' \in [Workers -> [Deliveries -> Image]]
           /\ outcome' \in [Workers -> [Deliveries -> Outcome]]
           /\ \A d \in Deliveries :
                 /\ draft'[w][d] = None
                 /\ outcome'[w][d] = "none"
           /\ \A s \in Subs : seen'[w][s] = "unknown"
           /\ \A v \in Workers \ {w} :
                 /\ draft'[v] = draft[v] /\ image'[v] = image[v]
                 /\ outcome'[v] = outcome[v] /\ seen'[v] = seen[v]
  <1>1. NewImage \in Image
    BY BoundsAssumption DEF NewImage, Image, Open
  <1>2. Nothing(NewImage) \in [Deliveries -> Image]
        /\ Nothing("none") \in [Deliveries -> Outcome]
        /\ Nothing(None) \in [Deliveries -> Subs \cup {None}]
    BY <1>1 DEF Nothing, Outcome
  <1>3. \A d \in Deliveries : Nothing(None)[d] = None /\ Nothing("none")[d] = "none"
    BY DEF Nothing
  <1> QED
    BY <1>2, <1>3 DEF Close, TypeOK

(* What a worker knows of d stays fair while the row exists and history     *)
(* only grows.                                                              *)
LEMMA StillFair ==
    ASSUME TypeOK, TypeOK', NEW w \in Workers, NEW d \in Deliveries, HoldsFairly(w, d),
           outcome'[w][d] = outcome[w][d], image'[w][d] = image[w][d],
           row[d].st # "absent" => row'[d].st # "absent",
           posts[d] <= posts'[d], acked \subseteq acked', sawInactive \subseteq sawInactive'
    PROVE  HoldsFairly(w, d)'
  <1>1. /\ image[w][d].attempts \in Nat
        /\ posts[d] \in Nat /\ posts'[d] \in Nat
        /\ MaxAttempts \in Nat
    BY BoundsAssumption DEF TypeOK, Image
  <1> QED
    BY <1>1 DEF HoldsFairly

(* A session that closes without writing.                                   *)
LEMMA ClosedIInv ==
    ASSUME IInv, NEW w \in Workers, Close(w),
           UNCHANGED <<sub, row, history>>, crashes' \in 0..MaxCrashes
    PROVE  IInv'
  <1>1. TypeOK'
    BY Closed DEF IInv, TypeOK, history
  <1>2. RowsBelong' /\ AttemptsWerePosted' /\ OpenHasAttemptsLeft' /\ GivesUpOnlyWhenSpent'
    BY DEF IInv, RowsBelong, AttemptsWerePosted, OpenHasAttemptsLeft,
           GivesUpOnlyWhenSpent, history
  <1>3. DraftsAreFresh'
    <2> SUFFICES ASSUME NEW v \in Workers, NEW d \in Deliveries, draft'[v][d] # None
                 PROVE  /\ row[d].st = "absent"
                        /\ \A u \in Workers : draft'[u][d] # None => u = v
      BY DEF DraftsAreFresh
    <2>1. \A u \in Workers : draft'[u][d] # None => draft[u][d] # None
      BY Closed DEF IInv
    <2> QED
      BY <2>1 DEF IInv, DraftsAreFresh
  <1>4. BatchesFit'
    <2> SUFFICES ASSUME NEW v \in Workers, NEW d \in Deliveries
                 PROVE  HoldsFairly(v, d)'
      BY DEF BatchesFit
    <2>1. CASE v = w
      <3>1. outcome'[v][d] = "none"
        BY <2>1, Closed DEF IInv
      <3> QED
        BY <3>1 DEF HoldsFairly
    <2>2. CASE v # w
      <3>1. outcome'[v][d] = outcome[v][d] /\ image'[v][d] = image[v][d]
        BY <2>2, Closed DEF IInv
      <3>2. HoldsFairly(v, d) /\ posts[d] <= posts'[d]
        BY DEF IInv, BatchesFit, history, TypeOK
      <3> QED
        BY <1>1, <3>1, <3>2, StillFair DEF IInv, history
    <2> QED
      BY <2>1, <2>2
  <1> QED
    BY <1>1, <1>2, <1>3, <1>4 DEF IInv

(* Steps that change neither sessions nor history, and rows only in ways    *)
(* that keep the record honest.                                             *)
LEMMA RowsMove ==
    ASSUME IInv, TypeOK', UNCHANGED <<session, history>>,
           \A d \in Deliveries :
               /\ row'[d].attempts = row[d].attempts
               /\ row'[d].sub = row[d].sub
               /\ row'[d].st \in {row[d].st, "deleted"}
               /\ row[d].st = "absent" => row'[d].st = "absent"
    PROVE  IInv'
  <1>1. RowsBelong' /\ AttemptsWerePosted'
    BY DEF IInv, RowsBelong, AttemptsWerePosted, history
  <1>2. OpenHasAttemptsLeft' /\ GivesUpOnlyWhenSpent'
    BY DEF IInv, OpenHasAttemptsLeft, GivesUpOnlyWhenSpent, history, Open
  <1>3. DraftsAreFresh'
    BY DEF IInv, DraftsAreFresh, session
  <1>4. BatchesFit'
    <2> SUFFICES ASSUME NEW v \in Workers, NEW d \in Deliveries
                 PROVE  HoldsFairly(v, d)'
      BY DEF BatchesFit
    <2>1. HoldsFairly(v, d) /\ posts[d] <= posts'[d]
      BY DEF IInv, BatchesFit, history, TypeOK
    <2>2. row[d].st # "absent" => row'[d].st # "absent"
      OBVIOUS
    <2> QED
      BY <2>1, <2>2, StillFair DEF IInv, history, session
  <1> QED
    BY <1>1, <1>2, <1>3, <1>4 DEF IInv

(* Subscriptions created, changed, deleted.                                 *)
LEMMA SubscriptionStepIInv ==
    ASSUME IInv, SubscriptionStep
    PROVE  IInv'
  <1>1. PICK s \in Subs : \/ CreateSubscription(s)
                          \/ \E active \in BOOLEAN : UpdateSubscription(s, active)
                          \/ DeleteSubscription(s)
    BY DEF SubscriptionStep
  <1>2. /\ UNCHANGED <<session, history, crashes>>
        /\ sub' \in [Subs -> {"absent", "active", "inactive", "deleted"}]
    BY <1>1 DEF CreateSubscription, UpdateSubscription, DeleteSubscription, IInv, TypeOK
  <1>3. CASE UNCHANGED row
    BY <1>2, <1>3, RowsMove DEF IInv, TypeOK, session, history
  <1>4. CASE DeleteSubscription(s)
    <2>1. /\ row' \in [Deliveries -> Row]
          /\ \A d \in Deliveries :
                /\ row'[d].attempts = row[d].attempts
                /\ row'[d].sub = row[d].sub
                /\ row'[d].st \in {row[d].st, "deleted"}
      <3>1. ASSUME NEW d \in Deliveries
            PROVE  LET r == [row[d] EXCEPT !.st = "deleted"]
                   IN  r \in Row /\ r.attempts = row[d].attempts
                       /\ r.sub = row[d].sub /\ r.st = "deleted"
        <4>1. row[d] \in Row
          BY DEF IInv, TypeOK
        <4> QED
          BY <4>1 DEF Row
      <3>2. \A d \in Deliveries : row[d] \in Row
        BY DEF IInv, TypeOK
      <3>3. row' = [d \in Deliveries |->
                      IF row[d].sub = s THEN [row[d] EXCEPT !.st = "deleted"] ELSE row[d]]
        BY <1>4 DEF DeleteSubscription
      <3> QED
        BY <3>1, <3>2, <3>3
    <2>2. \A d \in Deliveries : row[d].st = "absent" => row'[d].st = "absent"
      BY <1>4, BoundsAssumption DEF DeleteSubscription, IInv, RowsBelong
    <2>3. TypeOK'
      BY <1>2, <2>1 DEF IInv, TypeOK, session, history
    <2> QED
      BY <1>2, <2>1, <2>2, <2>3, RowsMove
  <1> QED
    BY <1>1, <1>3, <1>4 DEF CreateSubscription, UpdateSubscription

(* Steps that change sessions only outside batches and drafts that stay     *)
(* fresh; nothing in the tables.                                            *)
LEMMA SessionsMove ==
    ASSUME IInv, TypeOK', DraftsAreFresh',
           UNCHANGED <<sub, row, image, outcome, history>>
    PROVE  IInv'
  BY DEF IInv, RowsBelong, AttemptsWerePosted, OpenHasAttemptsLeft,
         GivesUpOnlyWhenSpent, BatchesFit, HoldsFairly, history

(* emit_event and send_test_event up to their first commit, and the start   *)
(* of a retry job.                                                          *)
LEMMA StartIInv ==
    ASSUME IInv, NEW w \in Workers,
           EmitRead(w) \/ (\E s \in Subs : TestRead(w, s)) \/ StartRetry(w)
    PROVE  IInv'
  <1>1. CASE EmitRead(w)
    <2>1. PICK m \in Drafts(Active) : draft' = [draft EXCEPT ![w] = m]
      BY <1>1 DEF EmitRead
    <2>2. /\ m \in [Deliveries -> Subs \cup {None}]
          /\ \A d \in Deliveries : m[d] # None => d \in Fresh
      BY DEF Drafts, Active
    <2>3. \A v \in Workers : draft'[v] = IF v = w THEN m ELSE draft[v]
      BY <2>1 DEF IInv, TypeOK
    <2>4. TypeOK'
      BY <1>1, <2>1, <2>2 DEF EmitRead, IInv, TypeOK, history
    <2>5. DraftsAreFresh'
      <3> SUFFICES ASSUME NEW v \in Workers, NEW d \in Deliveries, draft'[v][d] # None
                   PROVE  /\ row'[d].st = "absent"
                          /\ \A u \in Workers : draft'[u][d] # None => u = v
        BY DEF DraftsAreFresh
      <3>1. CASE m[d] # None
        BY <1>1, <2>2, <2>3, <3>1 DEF EmitRead, Fresh
      <3>2. CASE m[d] = None
        BY <1>1, <2>3, <3>2 DEF EmitRead, IInv, DraftsAreFresh
      <3> QED
        BY <3>1, <3>2
    <2> QED
      BY <1>1, <2>4, <2>5, SessionsMove DEF EmitRead
  <1>2. ASSUME NEW s \in Subs, TestRead(w, s)
        PROVE  IInv'
    <2>1. PICK f \in Fresh : draft' = [draft EXCEPT ![w][f] = s]
      BY <1>2 DEF TestRead
    <2>2. f \in Deliveries
      BY DEF Fresh
    <2>3. \A v \in Workers, d \in Deliveries :
             draft'[v][d] = IF v = w /\ d = f THEN s ELSE draft[v][d]
      BY <2>1, <2>2 DEF IInv, TypeOK
    <2>4. draft' \in [Workers -> [Deliveries -> Subs \cup {None}]]
      BY <2>1, <2>2 DEF IInv, TypeOK
    <2>5. TypeOK'
      BY <1>2, <2>4 DEF TestRead, IInv, TypeOK, history
    <2>6. DraftsAreFresh'
      BY <1>2, <2>3 DEF TestRead, Fresh, IInv, DraftsAreFresh
    <2> QED
      BY <1>2, <2>5, <2>6, SessionsMove DEF TestRead
  <1>3. CASE StartRetry(w)
    <2>1. TypeOK' /\ DraftsAreFresh'
      BY <1>3 DEF StartRetry, IInv, TypeOK, DraftsAreFresh, history
    <2> QED
      BY <1>3, <2>1, SessionsMove DEF StartRetry
  <1> QED
    BY <1>1, <1>2, <1>3

(* The commit that creates the rows.                                        *)
LEMMA EmitCommitIInv ==
    ASSUME IInv, NEW w \in Workers, EmitCommit(w)
    PROVE  IInv'
  <1>1. \A d \in Drafted(w) : /\ draft[w][d] \in Subs
                              /\ row[d].st = "absent"
                              /\ NewRow(draft[w][d]) \in Row
    BY BoundsAssumption
    DEF Drafted, IInv, TypeOK, DraftsAreFresh, NewRow, Row, Open
  <1>2. \A d \in Deliveries :
           row'[d] = IF d \in Drafted(w) THEN NewRow(draft[w][d]) ELSE row[d]
    BY DEF EmitCommit
  <1>3. row' \in [Deliveries -> Row]
    BY <1>1 DEF EmitCommit, IInv, TypeOK
  <1>4. draft' \in [Workers -> [Deliveries -> Subs \cup {None}]]
        /\ \A v \in Workers, d \in Deliveries :
              draft'[v][d] = IF v = w THEN None ELSE draft[v][d]
    BY DEF EmitCommit, IInv, TypeOK, Nothing
  <1>5. held' \in [Workers -> Deliveries \cup {None}]
    BY DEF EmitCommit, IInv, TypeOK
  <1>6. TypeOK'
    BY <1>3, <1>4, <1>5 DEF EmitCommit, IInv, TypeOK, history
  <1>7. RowsBelong' /\ AttemptsWerePosted' /\ OpenHasAttemptsLeft' /\ GivesUpOnlyWhenSpent'
    <2> SUFFICES ASSUME NEW d \in Deliveries
                 PROVE  /\ IF row'[d].st = "absent" THEN row'[d].sub = None
                                                    ELSE row'[d].sub \in Subs
                        /\ row'[d].attempts <= posts'[d]
                        /\ row'[d].st \in Open => row'[d].attempts < MaxAttempts
                        /\ row'[d].st = "success" => d \in acked'
                        /\ row'[d].st = "failed" => d \in sawInactive' \/ posts'[d] = MaxAttempts
      BY DEF RowsBelong, AttemptsWerePosted, OpenHasAttemptsLeft, GivesUpOnlyWhenSpent
    <2>1. CASE d \in Drafted(w)
      BY <1>1, <1>2, <2>1, BoundsAssumption DEF EmitCommit, NewRow, IInv, TypeOK, history
    <2>2. CASE d \notin Drafted(w)
      BY <1>2, <2>2
      DEF EmitCommit, IInv, RowsBelong, AttemptsWerePosted, OpenHasAttemptsLeft,
          GivesUpOnlyWhenSpent, history
    <2> QED
      BY <2>1, <2>2
  <1>8. DraftsAreFresh'
    <2> SUFFICES ASSUME NEW v \in Workers, NEW d \in Deliveries, draft'[v][d] # None
                 PROVE  /\ row'[d].st = "absent"
                        /\ \A u \in Workers : draft'[u][d] # None => u = v
      BY DEF DraftsAreFresh
    <2>1. v # w /\ draft[v][d] # None
      BY <1>4
    <2>2. d \notin Drafted(w)
      BY <2>1 DEF Drafted, IInv, DraftsAreFresh
    <2> QED
      BY <1>2, <1>4, <2>1, <2>2 DEF IInv, DraftsAreFresh
  <1>9. BatchesFit'
    <2> SUFFICES ASSUME NEW v \in Workers, NEW d \in Deliveries
                 PROVE  HoldsFairly(v, d)'
      BY DEF BatchesFit
    <2>1. HoldsFairly(v, d) /\ posts[d] <= posts'[d]
      BY DEF EmitCommit, IInv, BatchesFit, history, TypeOK
    <2>2. row[d].st # "absent" => row'[d].st # "absent"
      BY <1>1, <1>2
    <2> QED
      BY <1>6, <2>1, <2>2, StillFair DEF EmitCommit, IInv, history
  <1> QED
    BY <1>6, <1>7, <1>8, <1>9 DEF IInv

(* The query of deliver_pending.                                            *)
LEMMA SelectIInv ==
    ASSUME IInv, NEW w \in Workers, Select(w)
    PROVE  IInv'
  <1>1. PICK B \in SUBSET {d \in Deliveries : Due(d)} :
           /\ image' = [image EXCEPT ![w] = [d \in Deliveries |->
                  IF d \in B /\ d # held[w] /\ row[d].st \in Open
                  THEN [st |-> row[d].st, attempts |-> row[d].attempts]
                  ELSE NewImage]]
           /\ outcome' = [outcome EXCEPT ![w] = [d \in Deliveries |->
                  IF d \in B THEN "todo" ELSE "none"]]
    BY DEF Select
  <1>2. \A d \in Deliveries :
           /\ outcome'[w][d] = IF d \in B THEN "todo" ELSE "none"
           /\ image'[w][d] = IF d \in B /\ d # held[w] /\ row[d].st \in Open
                             THEN [st |-> row[d].st, attempts |-> row[d].attempts]
                             ELSE NewImage
    BY <1>1 DEF IInv, TypeOK
  <1>3. \A v \in Workers \ {w} : outcome'[v] = outcome[v] /\ image'[v] = image[v]
    BY <1>1 DEF IInv, TypeOK
  <1>4. NewImage \in Image
    BY BoundsAssumption DEF NewImage, Image, Open
  <1>5. \A d \in Deliveries :
           row[d].st \in Open => [st |-> row[d].st, attempts |-> row[d].attempts] \in Image
    BY DEF IInv, TypeOK, Row, Image
  <1>6. /\ image' \in [Workers -> [Deliveries -> Image]]
        /\ outcome' \in [Workers -> [Deliveries -> Outcome]]
    BY <1>1, <1>4, <1>5 DEF IInv, TypeOK, Outcome
  <1>7. TypeOK'
    BY <1>6 DEF Select, IInv, TypeOK, history
  <1>8. DraftsAreFresh' /\ RowsBelong' /\ AttemptsWerePosted' /\ OpenHasAttemptsLeft'
        /\ GivesUpOnlyWhenSpent'
    BY DEF Select, IInv, DraftsAreFresh, RowsBelong, AttemptsWerePosted,
           OpenHasAttemptsLeft, GivesUpOnlyWhenSpent, history
  <1>9. BatchesFit'
    <2> SUFFICES ASSUME NEW v \in Workers, NEW d \in Deliveries
                 PROVE  HoldsFairly(v, d)'
      BY DEF BatchesFit
    <2>1. CASE v # w
      <3>1. HoldsFairly(v, d) /\ posts[d] <= posts'[d]
        BY DEF Select, IInv, BatchesFit, history, TypeOK
      <3> QED
        BY <1>3, <1>7, <2>1, <3>1, StillFair DEF Select, IInv, history
    <2>2. CASE v = w /\ d \in B
      <3>1. row[d].st \in Open
        BY <2>2 DEF Due
      <3>2. image'[w][d].attempts \in {0, row[d].attempts}
        <4>1. CASE d = held[w]
          <5>1. image'[w][d] = NewImage
            BY <1>2, <4>1
          <5> QED
            BY <5>1 DEF NewImage
        <4>2. CASE d # held[w]
          <5>1. image'[w][d] = [st |-> row[d].st, attempts |-> row[d].attempts]
            BY <1>2, <2>2, <3>1, <4>2
          <5> QED
            BY <5>1
        <4> QED
          BY <4>1, <4>2
      <3>3. /\ row[d].attempts < MaxAttempts
            /\ row[d].attempts <= posts[d]
            /\ posts[d] \in Nat
        BY <3>1 DEF IInv, OpenHasAttemptsLeft, AttemptsWerePosted, TypeOK
      <3>4. outcome'[w][d] = "todo" /\ row'[d].st # "absent" /\ posts'[d] = posts[d]
        BY <1>2, <2>2, <3>1 DEF Select, Open, history
      <3> QED
        BY <2>2, <3>2, <3>3, <3>4, BoundsAssumption DEF HoldsFairly
    <2>3. CASE v = w /\ d \notin B
      BY <1>2, <2>3 DEF HoldsFairly
    <2> QED
      BY <2>1, <2>2, <2>3
  <1> QED
    BY <1>7, <1>8, <1>9 DEF IInv

(* A step of worker w on delivery d of its batch: everything else stays.    *)
LEMMA BatchMoves ==
    ASSUME IInv, TypeOK', NEW w \in Workers, NEW d \in Deliveries,
           UNCHANGED <<row, draft, image>>,
           \A v \in Workers, e \in Deliveries :
               v # w \/ e # d => outcome'[v][e] = outcome[v][e],
           \A e \in Deliveries : posts[e] <= posts'[e],
           acked \subseteq acked', sawInactive \subseteq sawInactive',
           HoldsFairly(w, d)'
    PROVE  IInv'
  <1>1. \A e \in Deliveries : /\ posts[e] \in Nat /\ posts'[e] \in Nat
                              /\ posts'[e] <= MaxAttempts
                              /\ row[e].attempts \in Nat
    BY BoundsAssumption DEF IInv, TypeOK, Row
  <1>2. RowsBelong' /\ DraftsAreFresh' /\ OpenHasAttemptsLeft'
    BY DEF IInv, RowsBelong, DraftsAreFresh, OpenHasAttemptsLeft
  <1>3. AttemptsWerePosted'
    BY <1>1 DEF IInv, AttemptsWerePosted
  <1>4. GivesUpOnlyWhenSpent'
    BY <1>1, BoundsAssumption DEF IInv, GivesUpOnlyWhenSpent
  <1>5. BatchesFit'
    <2> SUFFICES ASSUME NEW v \in Workers, NEW e \in Deliveries
                 PROVE  HoldsFairly(v, e)'
      BY DEF BatchesFit
    <2>1. CASE v # w \/ e # d
      <3>1. HoldsFairly(v, e)
        BY DEF IInv, BatchesFit
      <3> QED
        BY <2>1, <3>1, StillFair DEF IInv
    <2>2. CASE v = w /\ e = d
      BY <2>2
    <2> QED
      BY <2>1, <2>2
  <1> QED
    BY <1>2, <1>3, <1>4, <1>5 DEF IInv

(* session.get of the subscription.                                         *)
LEMMA LookupIInv ==
    ASSUME IInv, NEW w \in Workers, NEW d \in Deliveries, Lookup(w, d)
    PROVE  IInv'
  <1>1. row[d].st # "absent" /\ row[d].sub \in Subs
    BY DEF Lookup, IInv, BatchesFit, HoldsFairly, RowsBelong
  <1>2. PICK a \in Recall(w, row[d].sub) :
           /\ seen' = [seen EXCEPT ![w][row[d].sub] = a]
           /\ outcome' = [outcome EXCEPT ![w][d] = IF a = "active" THEN "post" ELSE "skipped"]
           /\ sawInactive' = IF a = "active" THEN sawInactive ELSE sawInactive \cup {d}
    BY DEF Lookup
  <1>3. a \in {"active", "inactive"}
    <2>1. seen[w][row[d].sub] \in {"unknown", "active", "inactive"}
      BY <1>1 DEF IInv, TypeOK
    <2>2. a \in Recall(w, row[d].sub)
      OBVIOUS
    <2> QED
      BY <2>1, <2>2 DEF Recall
  <1>4. TypeOK'
    <2>1. seen' \in [Workers -> [Subs -> {"unknown", "active", "inactive"}]]
      BY <1>1, <1>2, <1>3 DEF IInv, TypeOK
    <2>2. outcome' \in [Workers -> [Deliveries -> Outcome]]
      BY <1>2 DEF IInv, TypeOK, Outcome
    <2> QED
      BY <1>2, <2>1, <2>2 DEF Lookup, IInv, TypeOK
  <1>5. \A v \in Workers, e \in Deliveries :
           outcome'[v][e] = IF v = w /\ e = d
                            THEN IF a = "active" THEN "post" ELSE "skipped"
                            ELSE outcome[v][e]
    BY <1>2 DEF IInv, TypeOK
  <1>6. HoldsFairly(w, d)'
    <2>1. row[d].st # "absent" /\ image[w][d].attempts < MaxAttempts
          /\ image[w][d].attempts <= posts[d]
      BY DEF Lookup, IInv, BatchesFit, HoldsFairly
    <2> QED
      BY <1>2, <1>3, <1>5, <2>1 DEF Lookup, HoldsFairly
  <1>7. /\ \A e \in Deliveries : posts[e] <= posts'[e]
        /\ acked \subseteq acked' /\ sawInactive \subseteq sawInactive'
    BY <1>2 DEF Lookup, IInv, TypeOK
  <1> QED
    BY <1>4, <1>5, <1>6, <1>7, BatchMoves DEF Lookup

(* The request to the receiver.                                             *)
LEMMA PostIInv ==
    ASSUME IInv, NEW w \in Workers, NEW d \in Deliveries, Post(w, d)
    PROVE  IInv'
  <1>1. /\ row[d].st # "absent"
        /\ image[w][d].attempts \in Nat
        /\ image[w][d].attempts < MaxAttempts
        /\ image[w][d].attempts <= posts[d]
        /\ MaxAttempts \in Nat
    BY BoundsAssumption
    DEF Post, PostWithLimit, IInv, BatchesFit, HoldsFairly, TypeOK, Image
  <1>2. posts' = [posts EXCEPT ![d] = IF posts[d] < MaxAttempts THEN posts[d] + 1 ELSE posts[d]]
    BY DEF Post, PostWithLimit
  <1>3. PICK o \in {"delivered", "exhausted", "backoff"} :
           /\ outcome' = [outcome EXCEPT ![w][d] = o]
           /\ o = "delivered" => acked' = acked \cup {d}
           /\ o # "delivered" => acked' = acked
           /\ o = "exhausted" => image[w][d].attempts + 1 >= MaxAttempts
           /\ o = "backoff" => ~(image[w][d].attempts + 1 >= MaxAttempts)
    BY DEF Post, PostWithLimit
  <1>4. /\ posts' \in [Deliveries -> 0..MaxAttempts]
        /\ \A e \in Deliveries : posts[e] <= posts'[e]
        /\ image[w][d].attempts + 1 <= posts'[d]
    <2>1. \A e \in Deliveries : posts[e] \in 0..MaxAttempts
      BY DEF IInv, TypeOK
    <2>2. posts \in [Deliveries -> 0..MaxAttempts]
      BY DEF IInv, TypeOK
    <2> QED
      BY <1>1, <1>2, <2>1, <2>2
  <1>5. outcome' \in [Workers -> [Deliveries -> Outcome]]
    BY <1>3 DEF IInv, TypeOK, Outcome
  <1>6. TypeOK'
    BY <1>3, <1>4, <1>5 DEF Post, PostWithLimit, IInv, TypeOK
  <1>7. \A v \in Workers, e \in Deliveries :
           outcome'[v][e] = IF v = w /\ e = d THEN o ELSE outcome[v][e]
    BY <1>3 DEF IInv, TypeOK
  <1>8. HoldsFairly(w, d)'
    <2>1. outcome'[w][d] = o /\ image' = image /\ row' = row
      BY <1>7 DEF Post, PostWithLimit
    <2>2. posts'[d] \in Nat
      BY <1>4
    <2> QED
      BY <1>1, <1>3, <1>4, <2>1, <2>2 DEF HoldsFairly
  <1> QED
    BY <1>3, <1>4, <1>6, <1>7, <1>8, BatchMoves DEF Post, PostWithLimit

(* The one commit of a batch.                                               *)
LEMMA CommitIInv ==
    ASSUME IInv, NEW w \in Workers, Commit(w)
    PROVE  IInv'
  <1> DEFINE Hit(d) == d \in Batch(w) /\ row[d].st # "deleted"
             W(d) == Written(row[d], image[w][d], outcome[w][d])
  <1>1. \A d \in Deliveries : row'[d] = IF Hit(d) THEN W(d) ELSE row[d]
    BY DEF Commit
  <1>2. ASSUME NEW d \in Deliveries, Hit(d)
        PROVE  /\ outcome[w][d] \in {"delivered", "exhausted", "backoff", "skipped"}
               /\ row[d].st # "absent"
               /\ image[w][d].attempts < MaxAttempts
               /\ W(d) \in Row
               /\ W(d).sub = row[d].sub
               /\ W(d).attempts = AttemptsAfter(row[d], image[w][d], outcome[w][d])
               /\ outcome[w][d] = "delivered" => W(d).st = "success"
               /\ outcome[w][d] \in {"exhausted", "skipped"} => W(d).st = "failed"
               /\ outcome[w][d] = "backoff" => W(d).st \in {"retrying", row[d].st}
    <2>1. outcome[w][d] \in {"delivered", "exhausted", "backoff", "skipped"}
      BY <1>2 DEF Commit, BatchDone, Batch, IInv, TypeOK, Outcome
    <2>2. row[d].st # "absent" /\ image[w][d].attempts < MaxAttempts
      BY <2>1 DEF IInv, BatchesFit, HoldsFairly
    <2>3. row[d] \in Row /\ image[w][d] \in Image
      BY DEF IInv, TypeOK
    <2> HIDE DEF W
    <2>4. /\ W(d) \in Row
          /\ W(d).sub = row[d].sub
          /\ W(d).attempts = AttemptsAfter(row[d], image[w][d], outcome[w][d])
          /\ outcome[w][d] = "delivered" => W(d).st = "success"
          /\ outcome[w][d] \in {"exhausted", "skipped"} => W(d).st = "failed"
          /\ outcome[w][d] = "backoff" => W(d).st \in {"retrying", row[d].st}
      BY <2>1, <2>2, <2>3, WrittenFields DEF W
    <2> QED
      BY <2>1, <2>2, <2>4
  <1> HIDE DEF Hit, W
  <1>3. row' \in [Deliveries -> Row]
    <2>1. \A d \in Deliveries : row[d] \in Row
      BY DEF IInv, TypeOK
    <2>2. row' = [d \in Deliveries |-> IF Hit(d) THEN W(d) ELSE row[d]]
      BY DEF Commit, Hit, W
    <2> QED
      BY <1>2, <2>1, <2>2
  <1>4. TypeOK'
    BY <1>3, Closed DEF Commit, IInv, TypeOK, history
  <1>5. RowsBelong' /\ AttemptsWerePosted' /\ OpenHasAttemptsLeft' /\ GivesUpOnlyWhenSpent'
    <2> SUFFICES ASSUME NEW d \in Deliveries
                 PROVE  /\ IF row'[d].st = "absent" THEN row'[d].sub = None
                                                    ELSE row'[d].sub \in Subs
                        /\ row'[d].attempts <= posts[d]
                        /\ row'[d].st \in Open => row'[d].attempts < MaxAttempts
                        /\ row'[d].st = "success" => d \in acked
                        /\ row'[d].st = "failed" => d \in sawInactive \/ posts[d] = MaxAttempts
      BY DEF RowsBelong, AttemptsWerePosted, OpenHasAttemptsLeft, GivesUpOnlyWhenSpent,
             Commit, history
    <2>1. /\ IF row[d].st = "absent" THEN row[d].sub = None ELSE row[d].sub \in Subs
          /\ row[d].attempts <= posts[d]
          /\ row[d].st \in Open => row[d].attempts < MaxAttempts
          /\ row[d].st = "success" => d \in acked
          /\ row[d].st = "failed" => d \in sawInactive \/ posts[d] = MaxAttempts
      BY DEF IInv, RowsBelong, AttemptsWerePosted, OpenHasAttemptsLeft, GivesUpOnlyWhenSpent
    <2>2. CASE ~Hit(d)
      <3>1. row'[d] = row[d]
        BY <1>1, <2>2
      <3> QED
        BY <2>1, <3>1
    <2>3. CASE Hit(d)
      <3> DEFINE o == outcome[w][d]
                 n == image[w][d].attempts
      <3>1. /\ n \in Nat /\ MaxAttempts \in Nat
            /\ posts[d] \in Nat /\ posts[d] <= MaxAttempts
        BY BoundsAssumption DEF IInv, TypeOK, Image
      <3>2. /\ o \in {"delivered", "exhausted", "backoff", "skipped"}
            /\ row[d].st # "absent"
            /\ row'[d].sub = row[d].sub
            /\ row'[d].attempts = IF o = "skipped" THEN row[d].attempts ELSE n + 1
            /\ row'[d] \in Row
            /\ o = "delivered" => row'[d].st = "success"
            /\ o \in {"exhausted", "skipped"} => row'[d].st = "failed"
            /\ o = "backoff" => row'[d].st \in {"retrying", row[d].st}
        BY <1>1, <1>2, <2>3 DEF AttemptsAfter
      <3>3. /\ o \in {"delivered", "exhausted", "backoff"} => n + 1 <= posts[d]
            /\ o = "delivered" => d \in acked
            /\ o = "exhausted" => n + 1 = MaxAttempts
            /\ o = "backoff" => n + 1 < MaxAttempts
            /\ o = "skipped" => d \in sawInactive
        BY DEF IInv, BatchesFit, HoldsFairly
      <3> HIDE DEF o, n
      <3>4. row'[d].st # "absent" /\ row'[d].sub \in Subs
        BY <2>1, <3>2
      <3>5. CASE o = "delivered"
        BY <3>1, <3>2, <3>3, <3>4, <3>5 DEF Open
      <3>6. CASE o = "exhausted"
        BY <3>1, <3>2, <3>3, <3>4, <3>6 DEF Open
      <3>7. CASE o = "backoff"
        BY <2>1, <3>1, <3>2, <3>3, <3>4, <3>7 DEF Open
      <3>8. CASE o = "skipped"
        BY <2>1, <3>1, <3>2, <3>3, <3>4, <3>8 DEF Open
      <3> QED
        BY <3>2, <3>5, <3>6, <3>7, <3>8
    <2> QED
      BY <2>2, <2>3
  <1>6. DraftsAreFresh'
    <2> SUFFICES ASSUME NEW v \in Workers, NEW d \in Deliveries, draft'[v][d] # None
                 PROVE  /\ row'[d].st = "absent"
                        /\ \A u \in Workers : draft'[u][d] # None => u = v
      BY DEF DraftsAreFresh
    <2>1. \A u \in Workers : draft'[u][d] # None => draft[u][d] # None
      BY Closed DEF Commit, IInv
    <2>2. row[d].st = "absent" /\ \A u \in Workers : draft[u][d] # None => u = v
      BY <2>1 DEF IInv, DraftsAreFresh
    <2>3. row'[d] = row[d]
      BY <1>1, <1>2, <2>2
    <2> QED
      BY <2>1, <2>2, <2>3
  <1>7. BatchesFit'
    <2> SUFFICES ASSUME NEW v \in Workers, NEW d \in Deliveries
                 PROVE  HoldsFairly(v, d)'
      BY DEF BatchesFit
    <2>1. CASE v = w
      <3>1. outcome'[v][d] = "none"
        BY <2>1, Closed DEF Commit, IInv
      <3> QED
        BY <3>1 DEF HoldsFairly
    <2>2. CASE v # w
      <3>1. outcome'[v][d] = outcome[v][d] /\ image'[v][d] = image[v][d]
        BY <2>2, Closed DEF Commit, IInv
      <3>2. HoldsFairly(v, d) /\ posts[d] <= posts'[d]
        BY DEF Commit, IInv, BatchesFit, history, TypeOK
      <3>3. row[d].st # "absent" => row'[d].st # "absent"
        <4>1. CASE ~Hit(d)
          BY <1>1, <4>1
        <4>2. CASE Hit(d)
          BY <1>1, <1>2, <4>2
        <4> QED
          BY <4>1, <4>2
      <3> QED
        BY <1>4, <3>1, <3>2, <3>3, StillFair DEF Commit, IInv, history
    <2> QED
      BY <2>1, <2>2
  <1> QED
    BY <1>4, <1>5, <1>6, <1>7 DEF IInv

(* Time and failure.                                                        *)
LEMMA BackoffIInv ==
    ASSUME IInv, NEW d \in Deliveries, BackoffElapses(d)
    PROVE  IInv'
  <1>1. row[d] \in Row
    BY DEF IInv, TypeOK
  <1>2. \A e \in Deliveries :
           row'[e] = IF e = d THEN [row[d] EXCEPT !.due = TRUE] ELSE row[e]
    BY DEF BackoffElapses, IInv, TypeOK
  <1>3. row' \in [Deliveries -> Row]
    BY <1>1 DEF BackoffElapses, IInv, TypeOK, Row
  <1>4. TypeOK'
    BY <1>3 DEF BackoffElapses, IInv, TypeOK, session, history
  <1>5. \A e \in Deliveries :
           /\ row'[e].attempts = row[e].attempts
           /\ row'[e].sub = row[e].sub
           /\ row'[e].st \in {row[e].st, "deleted"}
           /\ row[e].st = "absent" => row'[e].st = "absent"
    BY <1>1, <1>2 DEF Row
  <1> QED
    BY <1>4, <1>5, RowsMove DEF BackoffElapses

(* IInv is inductive.                                                       *)
LEMMA NextIInv ==
    ASSUME IInv, [Next]_vars
    PROVE  IInv'
  <1>1. CASE UNCHANGED vars
    <2>1. TypeOK'
      BY <1>1 DEF vars, session, history, IInv, TypeOK
    <2> QED
      BY <1>1, <2>1, RowsMove DEF vars, IInv, TypeOK
  <1>2. ASSUME NEW w \in Workers, WorkerStep(w)
        PROVE  IInv'
    <2>1. CASE EmitRejected(w) \/ CommitFails(w)
      <3>1. crashes' \in 0..MaxCrashes
        BY <2>1 DEF EmitRejected, CommitFails, IInv, TypeOK
      <3> QED
        BY <2>1, <3>1, ClosedIInv DEF EmitRejected, CommitFails
    <2> QED
      BY <1>2, <2>1, EmitCommitIInv, SelectIInv, LookupIInv, PostIInv, CommitIInv
      DEF WorkerStep
  <1>3. ASSUME NEW w \in Workers, Crash(w)
        PROVE  IInv'
    <2>1. crashes' \in 0..MaxCrashes
      BY <1>3, BoundsAssumption DEF Crash, IInv, TypeOK
    <2> QED
      BY <1>3, <2>1, ClosedIInv DEF Crash
  <1> QED
    BY <1>1, <1>2, <1>3, SubscriptionStepIInv, StartIInv, BackoffIInv DEF Next

(* Every reachable state satisfies the inductive invariant.                 *)
THEOREM Invariance == Spec => []IInv
  BY InitIInv, NextIInv, PTL DEF Spec

(* Types of the two tables and of every session.                            *)
THEOREM TypeCorrect == Spec => []TypeOK
  <1>1. IInv => TypeOK
    BY DEF IInv
  <1> QED
    BY <1>1, Invariance, PTL

(* No open delivery has used up its attempts, for any number of workers     *)
(* writing over each other (services/webhooks.py, deliver_pending).         *)
THEOREM AttemptsBounded == Spec => []OpenHasAttemptsLeft
  <1>1. IInv => OpenHasAttemptsLeft
    BY DEF IInv
  <1> QED
    BY <1>1, Invariance, PTL

(* A delivery marked failed was tried max_attempts times or found its       *)
(* subscription inactive, one marked success was answered 2xx.              *)
THEOREM NotWrittenOff == Spec => []GivesUpOnlyWhenSpent
  <1>1. IInv => GivesUpOnlyWhenSpent
    BY DEF IInv
  <1> QED
    BY <1>1, Invariance, PTL

-----------------------------------------------------------------------------

(* A batch exists only while it is sent, and a request is about to go out   *)
(* only for a subscription that the worker saw active.                      *)
PostsWereSeen ==
    \A w \in Workers, d \in Deliveries :
        /\ outcome[w][d] # "none" => pc[w] = "send"
        /\ outcome[w][d] = "post" => seen[w][row[d].sub] = "active"

(* A step of w alone that keeps the subscription of existing deliveries.    *)
LEMMA SeenElsewhere ==
    ASSUME IInv, PostsWereSeen, NEW w \in Workers,
           \A v \in Workers \ {w} :
               pc'[v] = pc[v] /\ outcome'[v] = outcome[v] /\ seen'[v] = seen[v],
           \A d \in Deliveries : row[d].st # "absent" => row'[d].sub = row[d].sub,
           \A d \in Deliveries :
               /\ outcome'[w][d] # "none" => pc'[w] = "send"
               /\ outcome'[w][d] = "post" => seen'[w][row'[d].sub] = "active"
    PROVE  PostsWereSeen'
  <1>1. \A v \in Workers, d \in Deliveries : outcome[v][d] # "none" => row[d].st # "absent"
    BY DEF IInv, BatchesFit, HoldsFairly
  <1> QED
    BY <1>1 DEF PostsWereSeen

LEMMA SeenKept ==
    ASSUME IInv, PostsWereSeen, [Next]_vars
    PROVE  PostsWereSeen'
  <1>t. /\ row \in [Deliveries -> Row] /\ pc \in [Workers -> {"idle", "emit", "select", "send"}]
        /\ outcome \in [Workers -> [Deliveries -> Outcome]]
        /\ seen \in [Workers -> [Subs -> {"unknown", "active", "inactive"}]]
    BY DEF IInv, TypeOK
  <1>1. CASE UNCHANGED vars
    BY <1>1 DEF vars, session, PostsWereSeen
  <1>2. CASE SubscriptionStep \/ \E d \in Deliveries : BackoffElapses(d)
    <2>1. UNCHANGED session
      BY <1>2 DEF SubscriptionStep, CreateSubscription, UpdateSubscription,
         DeleteSubscription, BackoffElapses
    <2>2. \A d \in Deliveries : row'[d].sub = row[d].sub
      BY <1>2, <1>t DEF SubscriptionStep, CreateSubscription, UpdateSubscription,
         DeleteSubscription, BackoffElapses, Row
    <2> QED
      BY <2>1, <2>2 DEF session, PostsWereSeen
  <1>3. ASSUME NEW w \in Workers,
               EmitRead(w) \/ (\E s \in Subs : TestRead(w, s)) \/ StartRetry(w)
        PROVE  PostsWereSeen'
    <2>1. /\ pc[w] = "idle" /\ UNCHANGED <<row, outcome>>
          /\ \A v \in Workers \ {w} : pc'[v] = pc[v] /\ seen'[v] = seen[v]
      BY <1>3, <1>t DEF EmitRead, TestRead, StartRetry
    <2>2. \A d \in Deliveries : outcome[w][d] = "none"
      BY <2>1 DEF PostsWereSeen
    <2> QED
      BY <2>1, <2>2, SeenElsewhere
  <1>4. ASSUME NEW w \in Workers, EmitCommit(w)
        PROVE  PostsWereSeen'
    <2>1. /\ pc[w] = "emit" /\ UNCHANGED <<outcome, seen>>
          /\ \A v \in Workers \ {w} : pc'[v] = pc[v]
      BY <1>4, <1>t DEF EmitCommit
    <2>2. \A d \in Deliveries : outcome[w][d] = "none"
      BY <2>1 DEF PostsWereSeen
    <2>3. \A d \in Deliveries : row[d].st # "absent" => row'[d] = row[d]
      BY <1>4 DEF EmitCommit, Drafted, IInv, DraftsAreFresh
    <2> QED
      BY <2>1, <2>2, <2>3, SeenElsewhere
  <1>5. ASSUME NEW w \in Workers, Close(w),
               \A d \in Deliveries : row'[d].sub = row[d].sub
        PROVE  PostsWereSeen'
    <2>1. /\ \A v \in Workers \ {w} : outcome'[v] = outcome[v] /\ seen'[v] = seen[v]
          /\ \A d \in Deliveries : outcome'[w][d] = "none"
      BY <1>5, Closed DEF IInv
    <2>2. \A v \in Workers \ {w} : pc'[v] = pc[v]
      BY <1>5, <1>t DEF Close
    <2> QED
      BY <1>5, <2>1, <2>2, SeenElsewhere
  <1>6. ASSUME NEW w \in Workers, Select(w)
        PROVE  PostsWereSeen'
    <2>1. PICK B \in SUBSET {e \in Deliveries : Due(e)} :
             outcome' = [outcome EXCEPT ![w] = [e \in Deliveries |->
                            IF e \in B THEN "todo" ELSE "none"]]
      BY <1>6 DEF Select
    <2>2. UNCHANGED <<row, seen>> /\ pc' = [pc EXCEPT ![w] = "send"]
      BY <1>6 DEF Select
    <2>3. \A d \in Deliveries : outcome'[w][d] # "post"
      BY <2>1, <1>t
    <2>4. /\ pc'[w] = "send"
          /\ \A v \in Workers \ {w} : pc'[v] = pc[v] /\ outcome'[v] = outcome[v]
      BY <2>1, <2>2, <1>t
    <2> QED
      BY <2>2, <2>3, <2>4, SeenElsewhere
  <1>7. ASSUME NEW w \in Workers, NEW d \in Deliveries, Lookup(w, d)
        PROVE  PostsWereSeen'
    <2>1. outcome[w][d] = "todo" /\ \A e \in Deliveries : outcome[w][e] # "post"
      BY <1>7 DEF Lookup
    <2>2. PICK a \in Recall(w, row[d].sub) :
             /\ seen' = [seen EXCEPT ![w][row[d].sub] = a]
             /\ outcome' = [outcome EXCEPT ![w][d] = IF a = "active" THEN "post" ELSE "skipped"]
      BY <1>7 DEF Lookup
    <2>3. UNCHANGED <<row, pc>> /\ row[d].sub \in Subs /\ pc[w] = "send"
      BY <1>7, <2>1 DEF Lookup, IInv, RowsBelong, BatchesFit, HoldsFairly, PostsWereSeen
    <2>4. \A e \in Deliveries : outcome'[w][e] = "post" => e = d /\ a = "active"
      BY <2>1, <2>2, <1>t
    <2>5. seen'[w][row[d].sub] = a
      BY <2>2, <2>3, <1>t
    <2>6. \A v \in Workers \ {w} : outcome'[v] = outcome[v] /\ seen'[v] = seen[v]
      BY <2>2, <1>t
    <2> QED
      BY <2>3, <2>4, <2>5, <2>6, SeenElsewhere
  <1>8. ASSUME NEW w \in Workers, NEW d \in Deliveries, Post(w, d)
        PROVE  PostsWereSeen'
    <2>1. outcome[w][d] = "post" /\ UNCHANGED <<row, pc, seen>>
      BY <1>8 DEF Post, PostWithLimit
    <2>2. PICK x \in {"delivered", "exhausted", "backoff"} :
             outcome' = [outcome EXCEPT ![w][d] = x]
      BY <1>8 DEF Post, PostWithLimit
    <2>3. /\ \A v \in Workers \ {w} : outcome'[v] = outcome[v]
          /\ \A e \in Deliveries : outcome'[w][e] = IF e = d THEN x ELSE outcome[w][e]
      BY <2>2, <1>t
    <2> QED
      BY <2>1, <2>3, SeenElsewhere DEF PostsWereSeen
  <1>9. ASSUME NEW w \in Workers, Commit(w)
        PROVE  PostsWereSeen'
    <2>1. ASSUME NEW d \in Deliveries
          PROVE  row'[d].sub = row[d].sub
      <3>1. Written(row[d], image[w][d], outcome[w][d]).sub = row[d].sub
        BY <1>t DEF Written, Row
      <3>2. row'[d] \in {row[d], Written(row[d], image[w][d], outcome[w][d])}
        BY <1>9 DEF Commit
      <3> QED
        BY <3>1, <3>2
    <2> QED
      BY <1>5, <1>9, <2>1 DEF Commit
  <1>10. ASSUME NEW w \in Workers, EmitRejected(w) \/ CommitFails(w) \/ Crash(w)
         PROVE  PostsWereSeen'
    BY <1>5, <1>10 DEF EmitRejected, CommitFails, Crash
  <1> QED
    BY <1>1, <1>2, <1>3, <1>4, <1>6, <1>7, <1>8, <1>9, <1>10 DEF Next, WorkerStep

(* A subscription that stays off and that no worker remembers as active.    *)
LEMMA PausedStep ==
    ASSUME IInv, PostsWereSeen, [Next]_vars, NEW s \in Subs,
           sub[s] # "active", ForgottenActive(s)
    PROVE  /\ ForgottenActive(s)'
           /\ \A d \in Deliveries : row[d].sub = s => posts'[d] = posts[d]
  <1> USE DEF ForgottenActive
  <1>t. /\ posts \in [Deliveries -> 0..MaxAttempts]
        /\ seen \in [Workers -> [Subs -> {"unknown", "active", "inactive"}]]
    BY DEF IInv, TypeOK
  <1>1. CASE UNCHANGED vars \/ SubscriptionStep \/ \E d \in Deliveries : BackoffElapses(d)
    BY <1>1 DEF vars, session, history, SubscriptionStep, CreateSubscription,
       UpdateSubscription, DeleteSubscription, BackoffElapses
  <1>2. ASSUME NEW w \in Workers,
               EmitRead(w) \/ (\E x \in Subs : TestRead(w, x)) \/ StartRetry(w)
               \/ EmitCommit(w) \/ Select(w)
        PROVE  posts' = posts /\ ForgottenActive(s)'
    <2>1. CASE EmitRead(w)
      <3>1. /\ posts' = posts
            /\ seen' = [seen EXCEPT ![w] = [x \in Subs |-> IF x \in Active THEN "active"
                                                         ELSE "unknown"]]
        BY <2>1 DEF EmitRead, history
      <3>2. s \notin Active
        BY DEF Active
      <3> QED
        BY <3>1, <3>2, <1>t
    <2>2. ASSUME NEW x \in Subs, TestRead(w, x)
          PROVE  posts' = posts /\ ForgottenActive(s)'
      BY <2>2, <1>t DEF TestRead, history
    <2>3. CASE StartRetry(w) \/ EmitCommit(w) \/ Select(w)
      BY <2>3 DEF StartRetry, EmitCommit, Select, history
    <2> QED
      BY <1>2, <2>1, <2>2, <2>3
  <1>3. ASSUME NEW w \in Workers,
               EmitRejected(w) \/ Commit(w) \/ CommitFails(w) \/ Crash(w)
        PROVE  posts' = posts /\ ForgottenActive(s)'
    <2>1. Close(w) /\ posts' = posts
      BY <1>3 DEF EmitRejected, Commit, CommitFails, Crash, history
    <2>2. seen' = [seen EXCEPT ![w] = [x \in Subs |-> "unknown"]]
      BY <2>1 DEF Close
    <2> QED
      BY <2>1, <2>2, <1>t
  <1>4. ASSUME NEW w \in Workers, NEW e \in Deliveries, Lookup(w, e)
        PROVE  posts' = posts /\ ForgottenActive(s)'
    <2>1. PICK a \in Recall(w, row[e].sub) : seen' = [seen EXCEPT ![w][row[e].sub] = a]
      BY <1>4 DEF Lookup
    <2>2. row[e].sub = s => a # "active"
      BY <2>1 DEF Recall
    <2> QED
      BY <1>4, <2>1, <2>2, <1>t DEF Lookup
  <1>5. ASSUME NEW w \in Workers, NEW e \in Deliveries, Post(w, e)
        PROVE  /\ ForgottenActive(s)'
               /\ \A d \in Deliveries : row[d].sub = s => posts'[d] = posts[d]
    <2>1. row[e].sub # s
      BY <1>5 DEF Post, PostWithLimit, PostsWereSeen
    <2> QED
      BY <1>5, <2>1, <1>t DEF Post, PostWithLimit
  <1> QED
    BY <1>1, <1>2, <1>3, <1>4, <1>5 DEF Next, WorkerStep

(* Nothing is sent for a subscription that an admin keeps switched off,     *)
(* once the workers that had loaded it before are done.                     *)
THEOREM PausedStaysQuiet == Spec => PausedIsQuiet
  <1>1. Init => PostsWereSeen
    BY DEF Init, Nothing, PostsWereSeen
  <1>2. IInv /\ PostsWereSeen /\ [Next]_vars => PostsWereSeen'
    BY SeenKept
  <1>3. IInv /\ PostsWereSeen /\ [Next]_vars =>
          [\A s \in Subs :
              (sub[s] # "active" /\ sub'[s] # "active" /\ ForgottenActive(s))
                  => /\ ForgottenActive(s)'
                     /\ \A d \in Deliveries : row[d].sub = s => posts'[d] = posts[d]]_vars
    BY PausedStep
  <1> QED
    BY <1>1, <1>2, <1>3, Invariance, PTL DEF Spec, PausedIsQuiet

-----------------------------------------------------------------------------
(* The promise of the list of deliveries *)

(* A step that leaves the evidence and moves each row along, records.       *)
LEMMA Records ==
    ASSUME IInv, IInv', UNCHANGED history,
           \A d \in Deliveries :
              \/ row'[d].st = row[d].st
              \/ row[d].st = "absent" /\ row'[d].st = "pending"
              \/ row[d].st \in Open \cup Settled /\ row'[d].st \in Settled
              \/ row[d].st \in Open \cup Settled /\ row'[d].st = "retrying" /\ posts[d] > 0
              \/ row[d].st # "absent" /\ row'[d].st = "deleted"
    PROVE  Listed!Record
  <1>1. UNCHANGED <<posts, acked, sawInactive>>
    BY DEF history
  <1>2. ASSUME NEW d \in Deliveries, row'[d].st \in Settled
        PROVE  Listed!Backed(d, row'[d].st)
    BY <1>1, <1>2 DEF IInv, GivesUpOnlyWhenSpent, Settled, Listed!Backed
  <1>3. ASSUME NEW d \in Deliveries
        PROVE  \/ row'[d].st = row[d].st
               \/ row[d].st = "absent" /\ row'[d].st = "pending"
               \/ /\ row[d].st \in Listed!Recorded \cup {"pending"}
                  /\ row'[d].st \in Listed!Recorded
                  /\ Listed!Backed(d, row'[d].st)
               \/ row[d].st # "absent" /\ row'[d].st = "deleted"
    BY <1>2 DEF Open, Settled, Listed!Recorded, Listed!Backed
  <1> QED
    BY <1>1, <1>3 DEF Listed!Record, Listed!Announced, Listed!Concluded, Listed!Dropped

(* A commit writes no row that is deleted, and counts only real requests.   *)
LEMMA CommitRecords ==
    ASSUME IInv, IInv', NEW w \in Workers, Commit(w)
    PROVE  Listed!Record
  <1>1. UNCHANGED history
    BY DEF Commit
  <1>2. ASSUME NEW d \in Deliveries, row'[d] # row[d]
        PROVE  /\ row[d].st \in Open \cup Settled
               /\ \/ row'[d].st = row[d].st
                  \/ row'[d].st \in Settled
                  \/ row'[d].st = "retrying" /\ posts[d] > 0
    <2> DEFINE o == outcome[w][d]
    <2>1. /\ d \in Batch(w) /\ row[d].st # "deleted"
          /\ row'[d] = Written(row[d], image[w][d], o)
      BY <1>2 DEF Commit
    <2>2. o \in {"delivered", "exhausted", "backoff", "skipped"}
      BY <2>1 DEF Commit, BatchDone, Batch, IInv, TypeOK, Outcome
    <2>3. /\ row[d].st # "absent" /\ image[w][d].attempts < MaxAttempts
          /\ o = "backoff" => image[w][d].attempts + 1 <= posts[d]
      BY <2>2 DEF IInv, BatchesFit, HoldsFairly
    <2>4. row[d] \in Row /\ image[w][d] \in Image /\ posts[d] \in Nat
      BY BoundsAssumption DEF IInv, TypeOK
    <2> HIDE DEF o
    <2>5. /\ o = "delivered" => row'[d].st = "success"
          /\ o \in {"exhausted", "skipped"} => row'[d].st = "failed"
          /\ o = "backoff" => row'[d].st \in {"retrying", row[d].st}
      <3> DEFINE new == Written(row[d], image[w][d], o)
      <3>1. /\ o = "delivered" => new.st = "success"
            /\ o \in {"exhausted", "skipped"} => new.st = "failed"
            /\ o = "backoff" => new.st \in {"retrying", row[d].st}
        BY <2>2, <2>3, <2>4, WrittenFields
      <3>2. row'[d] = new
        BY <2>1
      <3> HIDE DEF new
      <3> QED
        BY <3>1, <3>2
    <2>6. o = "backoff" => posts[d] > 0
      BY <2>3, <2>4 DEF Image
    <2>7. row[d].st \in Open \cup Settled
      BY <2>1, <2>3, <2>4 DEF Row
    <2> QED
      BY <2>2, <2>5, <2>6, <2>7 DEF Settled
  <1> QED
    BY <1>1, <1>2, Records

(* Each step of the workers, of the admins and of time is a step of         *)
(* DeliveryLifecycle or changes nothing it speaks of.                       *)
LEMMA DeliveryStep ==
    ASSUME IInv, IInv', [Next]_vars
    PROVE  [Listed!DeliveryNext]_<<[d \in Deliveries |-> row[d].st], posts, acked, sawInactive>>
  <1> DEFINE Allowed ==
        [Listed!DeliveryNext]_<<[d \in Deliveries |-> row[d].st], posts, acked, sawInactive>>
  <1>t. row \in [Deliveries -> Row]
    BY DEF IInv, TypeOK
  <1>1. ASSUME UNCHANGED <<row, history>> PROVE Allowed
    BY <1>1 DEF history
  <1>2. ASSUME Listed!Record PROVE Allowed
    BY <1>2 DEF Listed!DeliveryNext
  <1> HIDE DEF Allowed
  <1>3. ASSUME NEW s \in Subs, DeleteSubscription(s) PROVE Listed!Record
    <2>1. \A d \in Deliveries : row'[d].st = row[d].st \/ (row[d].sub = s /\ row'[d].st = "deleted")
      BY <1>3, <1>t DEF DeleteSubscription, Row
    <2>2. \A d \in Deliveries : row[d].sub = s => row[d].st # "absent"
      BY BoundsAssumption DEF IInv, RowsBelong
    <2>3. UNCHANGED history
      BY <1>3 DEF DeleteSubscription
    <2> QED
      BY <2>1, <2>2, <2>3, Records
  <1>4. ASSUME SubscriptionStep PROVE Allowed
    BY <1>1, <1>2, <1>3, <1>4 DEF SubscriptionStep, CreateSubscription, UpdateSubscription
  <1>5. ASSUME NEW w \in Workers, EmitCommit(w) PROVE Allowed
    <2>1. UNCHANGED history
      BY <1>5 DEF EmitCommit
    <2>2. \A d \in Deliveries :
             row'[d].st = row[d].st \/ (row[d].st = "absent" /\ row'[d].st = "pending")
      BY <1>5 DEF EmitCommit, Drafted, NewRow, IInv, DraftsAreFresh
    <2> QED
      BY <1>2, <2>1, <2>2, Records
  <1>6. ASSUME NEW w \in Workers, NEW d \in Deliveries, Lookup(w, d) PROVE Allowed
    <2>1. /\ row[d].st # "absent" /\ UNCHANGED <<row, posts, acked>>
          /\ sawInactive' \in {sawInactive, sawInactive \cup {d}}
      BY <1>6 DEF Lookup, IInv, BatchesFit, HoldsFairly
    <2> QED
      BY <2>1 DEF Allowed, Listed!DeliveryNext, Listed!Refuse
  <1>7. ASSUME NEW w \in Workers, NEW d \in Deliveries, Post(w, d) PROVE Allowed
    <2>1. /\ row[d].st # "absent" /\ UNCHANGED <<row, sawInactive>>
          /\ posts' = [posts EXCEPT ![d] = IF @ < MaxAttempts THEN @ + 1 ELSE @]
          /\ acked' \in {acked, acked \cup {d}}
      BY <1>7 DEF Post, PostWithLimit, IInv, BatchesFit, HoldsFairly
    <2> QED
      BY <2>1 DEF Allowed, Listed!DeliveryNext, Listed!Attempt
  <1>8. ASSUME NEW w \in Workers, Commit(w) PROVE Allowed
    BY <1>2, <1>8, CommitRecords
  <1>9. ASSUME NEW w \in Workers,
               \/ EmitRead(w) \/ (\E s \in Subs : TestRead(w, s)) \/ StartRetry(w) \/ Select(w)
               \/ EmitRejected(w) \/ CommitFails(w) \/ Crash(w)
        PROVE  Allowed
    BY <1>1, <1>9 DEF EmitRead, TestRead, StartRetry, Select, EmitRejected, CommitFails, Crash
  <1>10. ASSUME NEW d \in Deliveries, BackoffElapses(d) PROVE Allowed
    <2>1. UNCHANGED history /\ \A e \in Deliveries : row'[e].st = row[e].st
      BY <1>10, <1>t DEF BackoffElapses, Row
    <2> QED
      BY <1>2, <2>1, Records
  <1>11. ASSUME UNCHANGED vars PROVE Allowed
    BY <1>1, <1>11 DEF vars
  <1>12. Allowed
    BY <1>4, <1>5, <1>6, <1>7, <1>8, <1>9, <1>10, <1>11 DEF Next, WorkerStep
  <1> QED
    BY <1>12 DEF Allowed

(* Webhooks implements DeliveryLifecycle: with any number of workers that   *)
(* write stale images over each other, no status is shown without evidence. *)
THEOREM DeliveryImplemented == Spec => ImplementsDelivery
  <1>1. Init => Listed!DeliveryInit
    BY DEF Init, Nothing, NoRow, Listed!DeliveryInit
  <1>2. IInv /\ IInv' /\ [Next]_vars =>
            [Listed!DeliveryNext]_<<[d \in Deliveries |-> row[d].st], posts, acked, sawInactive>>
    BY DeliveryStep
  <1> QED
    BY <1>1, <1>2, Invariance, PTL DEF Spec, ImplementsDelivery, Listed!DeliverySpec
=============================================================================
