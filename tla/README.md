# TLA+ models of the moziketo-wave backend

These modules describe the parts of the FastAPI backend under `app/` whose
correctness depends on the order in which requests, workers and failures
happen. TLC checks each model on small instances; TLAPS proves the main
properties for every number of users, tokens, deliveries, jobs, tracks, readers
and workers.
Paths below are relative to the root of the repository.

## 1. The system and its components

The backend is one FastAPI application (`app/main.py`, `app/api/v1/`), a taskiq worker
(`app/tasks/`), Postgres (SQLAlchemy, one `AsyncSession` per request or task),
Redis (tokens, caches, counters, the task queue), Meilisearch, an external
downloader and outgoing mail and HTTP. Handlers are coroutines, and several
processes may run them, so **every `await` on Redis, Postgres or HTTP is a point
where another request may act**. No row is locked (`SELECT ... FOR UPDATE` is not
used), no Redis script or transaction groups commands. That is where the hard
behaviour of this code comes from.

| component | state | operations | interacts with | hard behaviour | correct when | modelled |
|---|---|---|---|---|---|---|
| **Sign-in sessions, OAuth** `services/auth.py`, `services/oauth.py` | Redis `refresh:{jti}`, `oauth_state:`, `oauth_code:`; JWT claims | register, login, refresh, logout, authorize, callback, exchange | account row, OAuth providers | read and delete of a key are two calls; account status is checked before an `await` | a revoked token is final; a session keeps its user; an inactive account gets no new session | `Sessions` |
| **Accounts** `services/account_lifecycle.py`, `password_reset.py`, `email_verification.py`, `oauth_accounts.py` | `users` row, `oauth_accounts`, Redis `verify:`, `reset:`, `change_email:` | request and use of mailed tokens, change of address or password, link, unlink, delete | mail, OAuth callback, webhooks (`user.deleted`) | effects are committed before the token is deleted; tokens for different addresses outlive each other; counts taken before a delete | a verified address was proven; a token takes effect once; an account keeps a way to sign in | `Accounts` |
| **Webhooks** `services/webhooks.py` | `webhook_subscriptions`, `webhook_deliveries` | create, update, delete subscription; emit, test event, deliver batch, retry | all services that emit; receivers; cron | several workers hold the same rows, one commit for a batch, stale images, crashes | nothing is written off early; a listed status has its evidence; every delivery is settled | `Webhooks`, `DeliveryLifecycle` |
| **Background jobs** `services/jobs.py`, `tasks/runner.py`, `services/admin_ops.py` | `background_jobs`, Redis list queue | create, dispatch, run, complete, fail, chain a reindex | import, search, webhooks, play events | row and queue are two systems; the list broker hands a task out once; a broken session cannot record the failure, a usable one records it over a completion | a job that nothing hit gets its verdict; a part of an import is there only under `failed` | `Jobs`, `JobLifecycle` |
| **WordPress and JSON import** `services/import_wp.py`, `import_catalog.py` | catalog rows | fetch, upsert, commit at the end | jobs, search | what was staged when it failed is committed with the failure | the verdict fits the rows | the commit points in `Jobs`; what it makes stale in `Catalog` |
| **User playlists, favorites** `services/playlists.py`, `favorites.py` | `playlists`, `playlist_tracks`, `favorites` | create, replace, add, remove, delete | catalog | positions from a maximum read earlier; a replacement deletes and inserts against additions; a delete by key takes a row it never saw | no track gets ahead of one its owner put before it; no entry is lost unknowingly | `Library` |
| **Catalog, cache, search index** `services/catalog.py`, `cache.py`, `admin_catalog.py`, `search_sync.py`, `albums.py`, `tags.py`, `browse.py`, `recommendations.py`, `search_unified.py` | `tracks`, `albums`, `artists`, `playlists`, Redis cache entries, Meilisearch documents | read through, patch, import, ingest, invalidate, sync, reindex | jobs, Redis, Meilisearch | a fill that began before an invalidation lands after it; syncs out of order; families nothing invalidates; changes that tell nobody | what is served out of date has a known cause, and ends | `Catalog` |
| **Play by key** `services/stream_key.py`, `prepare_play.py`, `downloader.py` | Redis `play:session:`, `yt:ready:`, catalog rows | click, warm, prepare, poll, ingest in background | downloader, catalog | tasks of one key write over each other; a poll times out against a session that became ready; two ingests | the cached stream is one that was ready; a finished download reaches the catalog | `PlaySession`, `TrackIngest` |
| **Play history** `services/history.py` | `play_events` | record, count, prune, clear | jobs (prune), cron | overlapping prunes | an event goes only while 500 newer ones stay | `PlayHistory` |
| **Rate limits** `services/rate_limit.py` | Redis counters | count, open a window, refuse | the routes for sign-in, mail, export, search, playback and catalog | INCR, EXPIRE and the comparison are separate, and windows end in between | a window admits its limit at most; a key is not blocked for ever | `RateLimit` |
| Search ranking, Spotify client, analytics | none | merge and order of three sources; queries | Meilisearch, Spotify | ranking only | — | no: read-only |
| Storage, media, audio proxy, uploads | files | presign, upload, proxy | S3, HTTP | — | — | no: pure I/O |
| Email `services/email.py` | none | send | SMTP | may fail | — | as a step of `Accounts` that may end the request |
| Application shell, migrations, deployment | — | start-up | — | — | — | no; the cron entries justify the fairness of `Webhooks` and `PlayHistory` |

## 2. Modules and how they correspond to the code

Common conventions. A handler (request, task, session) is an element of a set
and has a record of where it is and of the local values it still uses; one
action is what happens between two awaits that matter. A Redis command and a
Postgres commit are atomic. `Abort` or `Crash` is a handler that ends at an
await. History variables (marked in the modules) only record what happened; the
code's guards never read them, only the named bound on crashes does. Operators
commented `Fault:` are wrong variants of the definition they precede, written as a
plausible mistake in that code would be; they are used to see that each property notices the mistake it is about and
are not part of any `Next`.

**`Sessions`**. `account` is `is_active` and `deleted_at` as one status
(`revived` is a soft-deleted row an admin switched on again), `refresh` the Redis
keys, `sub` what the signed tokens say, `parent` the token or OAuth code a token was
issued for, and the history `issued` the user a code was made for, so that a code
exchanged for somebody else would be seen.
`refresh_tokens` is `RefreshGet` (line 137), `RefreshDelete` (144) and
`RefreshStore` (145-150); the callback is `CallbackGetState`,
`CallbackDeleteState`, `CallbackUpsert`, `StoreOAuthCode`; the exchange is
`ExchangeGetCode`, `ExchangeDeleteCode`, `ExchangeCheckUser`; both sign-ins end
in `IssueTokens`. Access tokens carry no state and are not modelled.

**`Accounts`**. The columns `email`, `password`, `verified`, `pending`, `deleted`
of a row, and `link` for `oauth_accounts`. A mailed token has a kind, a user and
the address it went to (`sent`), and exists while its Redis key does (`live`).
Each use is `GetToken`, one of `ConfirmVerification`, `ResetPassword`,
`ConfirmChange` (or `ConfirmConflict`, 409), then `DropToken`; the SELECTs
between the Redis read and the commit are taken together with the commit, which
is sound because a row never disappears and the unique index decides a race for
an address (the losing commit is `Abort`). Requests that read a row and commit
later are two actions: `Unlink`/`CommitUnlink`, `CallbackRead`/`CallbackCommit`,
`DeleteAccount`/`CommitDelete`, `SubmitPassword`/`CommitPassword`,
`SendToken`/`NotePending`. SQLAlchemy writes only columns that changed since
they were read, which is why `CommitDelete` keeps a password set meanwhile.
`is_active` is left to `Sessions`: here it could only disable actions.

**`Webhooks`**. A worker is one SQLAlchemy session that runs `emit_event`,
`send_test_event` or the retry job. `image` is the batch as it was loaded,
`seen` the subscription objects in its identity map, `outcome` what became of
each delivery, written in one `Commit`. `Written` says which columns the UPDATE
changes. Rows deleted meanwhile make the UPDATE fail only when it is sent alone;
both outcomes are allowed for larger batches (`Commit`, `CommitFails`). Loading a
subscription that is not yet in the session flushes what is pending, so the failure
may also come in the middle of a batch. **`DeliveryLifecycle`** is the abstract
specification: what `list_deliveries` may show an admin. It knows no workers, only a
status for each delivery and the evidence for it: a delivery never returns to
pending or from deletion, is retried or given up only after requests that were
really sent, and is a success only after an answer. `Webhooks` implements it with
its own `row` as status (`Listed == INSTANCE DeliveryLifecycle`).

**`Jobs`** has the job row, the queue and a program counter for the request that
dispatches and the run of the task; `db` says whether a database error has left
the run's session unusable; `rows` is what of an import is staged or committed.
"all" means everything the import added: items it skips after an error of their
own are not rows it added. Errors come in three kinds. An error of the body
(`BodyRaises`) and a connection that cannot be had for the next transaction, or an
HTTP client for the announcement (`Unreachable`), leave the session usable, and
`MarkFailed` writes the failure, over whatever status it finds and with all that is
staged. An error inside a transaction (`DatabaseError`) leaves a session on which
`mark_job_failed` raises too. Outside the `try` the task just ends; so does the
request that created a row when the queue does not take the task
(`DispatchFails`, the history `unsent`) and the chained reindex when its row cannot
be read back (`ChainBreaks`). Three outcomes are easily overlooked: an import that
was completed may be `failed` afterwards; an import whose last page could not be
fetched is `failed` with every row committed; and one that found no endpoint, or
whose item's failed query was swallowed, is `completed` with nothing imported.
**`JobLifecycle`** is the abstract specification: what a client that polls
`GET /admin/jobs/{id}` may see. A job is queued, running, then completed or failed;
`failed` is final, `completed` is final except that an import may be withdrawn
(`Withdraw`). `Jobs` implements it under the mapping of its own `status` and of its
imports (`L == INSTANCE JobLifecycle`).

**`Library`**. `pos` is `playlist_tracks.position`, `None` where there is no row.
A request remembers the row versions it saw (`rows`) and the maximum it read
(`top`): a replacement is the DELETE of `_set_playlist_tracks` (`ReplaceDelete`)
and the commit that also inserts (`ReplaceCommit`), an addition is the search for
the row (`AddFind`), the maximum (`AddMaximum`) and the commit (`AddCommit`). A row
that goes away is taken out of everybody's `rows` (`EndsKilling`), since one that
comes back under the same key is another row. `ahead` is a history variable: the
pairs the owner asked to hear in this order, by a list or by adding one after the
other. `NextPosition` is the expression of `playlists.py:304` as it stands:
`(max_pos or -1) + 1` gives the second track of a playlist position 0 again, and so
the third: a playlist grown one track at a time has all its tracks at position 0.
`PlaylistKeepsOrder` says exactly how far that goes: no pair is ever inverted, and
only tracks added on a maximum of 0 may share position 0 with those before them.

**`PlayHistory`**. An event is the number of its play, in the order of `played_at`.
`record_play` is `RecordBegin`, `RecordCommit` and then the prune: `Count`, `Select`
(the rows the DELETE statement picks on its snapshot) and `Delete`. `PruneAll` is
the daily job, which runs the same prune for each user it found over the cap.
`Die` interrupts any of it. `CutOnlyToCap` is about each event a prune deletes: at
least `Cap` newer events of its user stay (`NewerKept`), unless another request
deleted events after the prune had counted. **`RateLimit`** follows the requests of one route
through INCR (`Increment`), EXPIRE (`Expire`) and the decision; a route with two
checks counts under two scopes, one after the other. `admitted` is a history variable: how
many requests the present window of a key let past its check; `late` marks a
request whose window ended before it was decided, which counts in none.

**`Catalog`**. A behaviour follows *one copy* of catalog data, any one: the entry
of one cache key (`Keys` lists every family) or the document of one row
(`Documents`). `View` is what the queries of that response would return now, kept
to what tells responses apart: which rows are published, and the version of each
row that is shown. A read is `Query` and, however much later, `Fill`. An admin's
change is a commit (`Edit`), then `Refresh` (re-read, delete the patterns), then
`Unsend`, or `Build` and `Upsert`, or `Fails` anywhere. A document is built with the
artist as the session's identity map has it: as it is now, or as it was loaded with
the row (`Build` allows both). `ImportCatalog`, `ImportWp`,
`Ingest`, `CountStream`, `Hear` and `Released` change what should be served and
tell the cache and the index less, or nothing. `excused` is a history variable:
the copy is out of date for a cause that left it so (a late fill, a lost
invalidation, a change that tells nobody); each action that makes the copy right
clears it. Two things the code does that one would not expect, and that are in the
model: `search:*` and `reco:*` are not among the patterns that are deleted, and
the fill-up of recommendations from `get_browse` never adds a track, because
`seen` (`recommendations.py:104-106`) already holds every track of every section.

**`PlaySession`** has the two Redis keys of one played key as `sess`
(`play:session`) and `ready` (`yt:ready`), each with the job it speaks of, and the
tasks in flight: clicks, warm-ups and prepares. One action is one Redis command
or one answer of the downloader (`JobMoves` is external). A cached URL that is not a
stream of the downloader sends a click on to the session, like an empty entry
(`ClickMiss`). `heard` remembers which
jobs were reported playable, `dead` and `revived` what a click that met a 502
dropped and whether somebody else put it back. **`TrackIngest`** is
`_background_ingest`: poll, look for the track, find or flush the artist, look for
the slug, commit; the unique constraints turn a loser away. All its keys want the
same slug, the worst case.

## 3. What TLC checks

| run | instance | what it shows |
|---|---|---|
| `sessions` | 2 users, 3 token ids, 1 code, 1 state, 2 requests | `TypeOK`; `RotatedIsDead`; `SessionsKeepTheirUser`; `RevokedIsFinal`; `RevokedHasNoOffspring`; `InactiveGetsNoNewSession` hold |
| `sessions_single_use` | 1 user, 3 token ids, 2 requests | `SingleUseRotation` is **violated** |
| `accounts` | 2 users, 2 addresses, 2 requests; with 2 tokens and no provider, or with 3 identities at 2 providers and no token | `TypeOK`, `VerifiedIsProven`, `TokenUsedOnce`, `LastMethodLostKnowingly` hold |
| `accounts_single_use` | 1 user, 1 token, 2 requests | `TokenSingleUse` is **violated** |
| `accounts_last_method` | 1 user, 2 identities at 2 providers, 2 requests | `AlwaysASignInMethod` is **violated** |
| `webhooks_concurrent` | 1 subscription, 2 deliveries, 2 workers, 2 attempts, 1 crash | `TypeOK`, `OpenHasAttemptsLeft`, `GivesUpOnlyWhenSpent`, `PausedIsQuiet`, `ImplementsDelivery` hold |
| `webhooks_settle` | 1 subscription, 3 attempts, 1 crash; 1 delivery and 2 workers, or 2 deliveries, a batch of 1 and 1 worker | `EventuallySettled` holds |
| `webhooks_failed_retried` | 1 delivery, 1 worker, 2 attempts | `FailedIsRetried` is **violated** |
| `jobs` | 3 jobs, 1 crash, any errors of the queue, the database and its connections | `TypeOK`, `OrphanHasCause`, `VerdictFitsRows`, `ImportIsReindexed`, `ImplementsLifecycle`, `SettlesUnlessHit` hold |
| `jobs_settle` | 1 job, no crash | `JobSettles` is **violated** |
| `library` | 1 playlist, 3 tracks, 2 requests; 2 users, cap 2, 4 plays, 2 tasks, 1 death; 2 callers, limit 1, 1 identity, routes with one and with two checks | `TypeOK`, `PlaylistKeepsOrder`, `EntriesLostKnowingly`, `CapHolds`, `CutOnlyToCap`, `EventuallyCapped`, `StuckKeyHasCause`, `WindowAdmitsLimit`, `BlockedEnds` hold |
| `catalog` | 1 track with its artist, album and playlist, 1 reader, 2 writers, 2 changes, any of the 14 keys and 3 documents; 2 jobs and 2 tasks of one key; 2 ingests of 2 keys, 1 failure | `TypeOK`, `StaleEntryHasCause`, `EventuallyFresh`, `IndexAgreesOrExcused`, `ReadyWasReady`, `DeadJobNotReused`, `IngestLandsOrOvertaken` hold |

`MCLibrary` and `MCCatalog` each hold several components that share no state (the
ingest meets the catalog in the action `Ingest` and the play sessions in the click
that starts it). A behaviour runs one of them, chosen at the start by `focus`: no
interleaving of components that share nothing tells more than each alone, and TLC
meets the sum of their states, not the product. The two runs have about
362,000 and 1,010,000 states. `MCAccounts` and `MCDelivery` use `focus` in the same
way for two small worlds of one component: mailed tokens without providers, or
providers without tokens (the proofs cover both together); one delivery in the hands
of two workers, or more deliveries than a batch holds in those of one. `MCJobs` uses
up its interchangeable rows in one order, lets a webhook job stand for a prune job,
which has the same steps, and keeps the third row for a reindex, of a request or
after an import. `accounts` and `webhooks_concurrent` are the largest, with 1.8 and
2.3 million states.

**Why the bounds are enough.** The races in this code are between two handlers
over one object; two handlers therefore meet in every order, with a second user
(subscription, job) that must stay unaffected or compete for an address. Three
token ids give a token, its rotation and a rival rotation. Three identities
give a user two providers and a second account at one of them. Two or
three attempts stand for five: one that is not the last, and one that is. Three
jobs let an import be followed by its reindex beside another job. A batch of one,
for the twenty of the code, leaves a delivery over. Bounds that
the code does not have are constants and named as such: `MaxCrashes` in
`Webhooks` and `Jobs`; the finite sets of tokens, codes, deliveries and jobs, each
element of which is used at most once; `posts` and `uses` count up to a limit
only; `MaxList`, `MaxPosition`, `MaxPlays`, `MaxDeaths`, `MaxCount`, `MaxChanges` and
`MaxFailures` in the newer modules.
Three tracks give a list of two and one added meanwhile. A cap of 2 with four plays
lets two overlapping prunes cut twice. Two changes of the catalog give a change
that a fill or a sync overlaps and one that overtakes the first. With one reader a
late fill meets an empty entry; that it may also overwrite a fresh one is left to
the proofs, which hold for any number of readers. One track is enough, because a
response changes with any row it shows; again the proofs hold for any number. Dates in the
future come with the edits: at the start rows are published or have no date.
Symmetry is used only in runs without liveness.

**Deadlock** is checked in all runs except those of `Jobs`, where all rows are
used up at the end and the system rightly stops, and `library`, where the playlists
are deleted or the plays used up and their events removed.

**Fairness.** `Webhooks`: a request or job that began runs on (weak fairness of
`WorkerStep`), the retry job is started again and again
(`deploy/cron/webhook-retry.sh`, every five minutes) and clocks advance (`MCDelivery`
asks this of the workers its world has); nothing
is assumed about admins, emitters or crashes. `Jobs`: requests and tasks that
began run on, and a worker takes what is queued. A crash needs no fairness and
disables none. `PlayHistory`: a task that began runs on until it ends or dies, and
the cron of the host starts the prune job again while somebody is over the cap
(`deploy/cron/prune-play-events.sh`, daily; strong fairness, because there may be
no free task at some moments). `RateLimit` and `Catalog`: Redis drops a key whose
TTL is over; a request that counted goes on or is interrupted. Nothing is assumed
about readers, admins, or that a change stops: bounds end the changes, so
"eventually" means after the last of them. `Library`, `PlaySession`,
`TrackIngest`: safety only. `Sessions` and `Accounts` state safety only: a request may be
abandoned at any point.

## 4. What is proved

All theorems hold for any sets of users, tokens, deliveries, jobs, workers and
handlers. They rest on the named assumptions of the modules only: the value
`None` is none of the ids, the limits are (positive) naturals, the sets of tracks
and of tasks and of callers are finite where they are counted, `ProviderOf` is a function. Each module has an inductive invariant, proved in a lemma per action or
group of actions. **Every safety property that a run finds to hold is also a
theorem here**, the invariants, the action properties and both refinements.

* **`SessionsProofs`**: `TypeCorrect`, `RotationRevokes`, `OwnershipKept`,
  `RevocationFinal`, `RevokedIsSterile`, `InactiveStaysOut`, that is, every
  property of the run. The strengthening says what a handler between two Redis
  calls still holds (`Fits`): a token it is about to rotate was minted for the user in
  its hands, a code it is about to exchange was issued to that user, and in phase
  `store` the key is already gone; `CodesFit` says the same of the codes in Redis.
  Without that, `RotatedIsDead` is not preserved by `RefreshStore`, nor
  `SessionsKeepTheirUser` by the exchange.
* **`AccountsProofs`**: `TypeCorrect`, `VerifiedAddressIsProven`,
  `TokenTakesEffectOnce`, `LastMethodTheorem`, again every property that holds.
  The invariant follows knowledge: a verification token, or a callback about to
  commit, was made for the user's present address, *or the present address was
  proven since* (`Known`). That is what makes a token for an old address
  harmless after a change. `Usage` says that a token nobody shared is unused
  while a handler is applying it. `LastMethodTheorem` needs that an unlink
  remembers a method other than the one it removes.
* **`WebhooksProofs`**: `TypeCorrect`, `AttemptsBounded`, `NotWrittenOff`,
  `PausedStaysQuiet`, `DeliveryImplemented`, every safety property of
  the runs. The
  invariant bounds every image and outcome a worker holds by the requests really
  sent (`HoldsFairly`), so a stale image written over a newer row can only
  understate the attempts. `PausedStaysQuiet` needs one more invariant,
  `PostsWereSeen`: a worker about to send remembers the subscription as active.
  `DeliveryImplemented` is the refinement of `DeliveryLifecycle`: a commit, which
  writes the images of a whole batch, moves each row it touches from a status that
  has been listed to one the evidence in `HoldsFairly` backs (`Records`), a request
  sent is an `Attempt`, and every other step leaves status and evidence alone.
* **`JobsProofs`**: `TypeCorrect`, `OrphansExplained`, `VerdictHonest`,
  `ReindexFollows`, `LifecycleImplemented`. The invariant ties the status and the
  rows of a job to the place of its task; `Followed` adds, for `ReindexFollows`,
  that a job chained to an import stays a reindex. The refinement maps each
  action to a step of one job (`Enter`, `Advance`, or the `Withdraw` of an import whose
  announcement failed) or to a stutter; it needs that a run at `fail` found its job
  running, or completed and an import (`StatusAt`).
* **`LibraryProofs`**: `LibraryTypeCorrect`, `PlaylistOrderKept`,
  `NothingLostUnknowingly`. The invariant says what a request still knows when it
  writes (`RequestFits`): the rows it remembers are still in the playlist, and none
  is above the maximum it read. Without it `AddCommit` could place a track before
  one that was there. `Granted` says what the property allows a pair.
* **`LimitProofs`**: `HistoryTypeCorrect`, `HistoryWithinCap`, `PruneLeavesCap`,
  `RateTypeCorrect`, `StuckKeyExplained`, `WindowKeepsLimit`, `ComposedTypeCorrect`.
  The argument for the history is about cardinalities: a prune that chose its rows
  leaves at most the cap and the plays recorded since its count (`RecordedFits`), and
  at least the cap unless somebody cut meanwhile (`LeavesEnough`). Two prunes with
  the same rows are then no harm: each answers for its own plays. `PruneLeavesCap`
  adds the order: the rows a prune chose are older than those it left
  (`LeftIsNewer`), so the events left are the newer ones each victim needs. For the
  windows the invariant is `AdmissionFits`: the requests a window admitted, together
  with those that hold a number not above the limit and are still to be decided, are
  no more than its counter and no more than `Limit`. The counter alone would not do,
  since after the window ends old answers of INCR are still in flight (`late`).
* **`PlaybackProofs`**: `PlayTypeCorrect`, `ReadyIsHeard`, `DeadJobStaysDropped`,
  `IngestTypeCorrect`, `IngestLands`. The invariant `Heard` is about what tasks hold:
  a task about to mark a session ready heard so from the downloader, and one that
  copies a session found it direct.
* **`CatalogProofs`**: `CatalogTypeCorrect`, `StaleEntryExplained`, `IndexExplained`.
  The invariant says that a response in a reader's hands is the present `View`
  unless it is marked old (`ReadingFits`), that the row and artist in a writer's
  hands are the present ones unless marked behind (`WritingFits`), and that a
  document that differs from its row has a writer that will send it (`IndexFits`,
  stronger than the property about where that writer is).
* **Compositions.** `MCLibrary` and `MCCatalog` run one of several components, so
  their next-state relation moves one component's variables and leaves the others'
  alone (`OneMoves`). `ComposedInvariant` (in `LimitProofs` and in `CatalogProofs`)
  shows that the conjunction of the components' invariants is inductive for it,
  and `ComposedTypeCorrect` is the run's own `TypeOK`.

**Only model-checked**: the liveness properties `EventuallySettled`,
`SettlesUnlessHit`, `EventuallyCapped`, `BlockedEnds` and `EventuallyFresh`. Liveness
under fairness is not in the prover's reach.

## 5. Where code and documentation disagree

* **Rotation is not single use.** `app/api/v1/auth.py:277-279` promises
  "single-use rotation". `refresh_tokens` reads the key and deletes it in two
  awaits and does not look at what the deletion returned; two overlapping
  refreshes of one token both succeed (`SingleUseRotation`). What holds instead is
  `RotatedIsDead`: no *later* refresh succeeds.
* **The only sign-in method can be unlinked.** `app/api/v1/auth.py:363` says it
  cannot. Two overlapping unlinks of different providers each count on the
  other (`AlwaysASignInMethod`). What holds is `LastMethodLostKnowingly`: it takes
  an unlink whose reading went stale.
* **Polling may never end.** `README.md:182` tells a client to poll a job until
  it is completed or failed. After a database error `mark_job_failed` runs on the
  same unusable session and raises, and an error in `mark_job_running` is outside
  the `try`: the row stays queued or running (`JobSettles`). What holds is
  `SettlesUnlessHit`.

* **A reset token can be used twice.** `app/api/v1/auth.py:179` says "Token is
  single-use". The token is read first and deleted last, after the commit, so two
  overlapping resets both succeed, and a reset that dies before the deletion leaves
  its token valid (`TokenSingleUse`). What holds is `TokenUsedOnce`: those two are the
  only ways.
* **A failed delivery is not retried.** `deploy/cron/webhook-retry.sh:2` says the job
  retries "pending/failed" deliveries; the query takes `pending` and `retrying` only
  (`FailedIsRetried`). What holds is `EventuallySettled`, with `failed` as an end.

Seen in the models, without a run of their own:

* An OAuth code is called "single-use" (`app/api/v1/auth.py:260`), but `_pop_oauth_code`
  reads and deletes in two awaits, like the rotation: two overlapping exchanges both
  get tokens. Both are of the user the code was issued to (`SessionsKeepTheirUser`).
* `deploy/cron/prune-play-events.sh:2` speaks of the rows "exceeding per-user cap".
  When two prunes count before either deletes, and one chooses its rows after the
  other has deleted, together they leave fewer than the cap; `CutOnlyToCap` names
  that cause and excludes the others.
* An import that reported `completed` can be `failed` later, and `failed` can stand
  over an import that is wholly committed. No document says otherwise;
  `ImplementsLifecycle` and `VerdictFitsRows` say what can be relied on.
* Tracks added to a playlist one at a time all get position 0 (`playlists.py:304`).
  No document promises their order; `PlaylistKeepsOrder` says what is left of it.
* An account that was deleted and is activated again by an admin may sign in. The
  property about inactive accounts takes it as active, as the code does.

## 6. Not modelled, and why

Ranking, scores, order and paging of answers, pure I/O (storage, proxying, SMTP,
the Spotify client), analytics queries, start-up and migrations have no state
whose order matters. Within the modelled components: the inline job mode
(`TASKIQ_INLINE`, development only), the fetching, parsing and matching of import
items, password hashing and JWT signatures (a token that was not minted is never
accepted), profile fields and the data export; titles and slugs of playlists; the
cached preview URLs (data of Spotify, nothing here changes it); the answers of
`search_meili`, which reads the modelled documents; similar tracks, which are not
cached. No route calls `search_catalog`, `prepare_single_hit`,
`prepare_search_hits` or `warm_play_hits` at this commit; those that write state are
modelled as if they were called, and of `prepare_search_hits` only the limit on
parallel prepares is missing.

What a confirmed address change means for a deleted account (`Accounts` shows that
the code writes the address back) is left without a property, because no document
says what is intended. The race of two registrations for one address is decided
by the unique index. The number in the Retry-After header, which TTL fills after the
decision, is left out.

## 7. Order of the modules, and what could follow

The most important behaviour came first: `Sessions`, `Webhooks` with
`DeliveryLifecycle`, `Jobs` with `JobLifecycle`, `Accounts`, then `Library`, `Catalog`, `PlaySession` with
`TrackIngest`, `PlayHistory` and `RateLimit`, each with its proofs. What would add
most next:

1. Compositions: an emitting job (`Jobs` with `Webhooks`), the deletion of an
   account with its sessions (`Accounts` with `Sessions`), the ingest inside
   `Catalog` step by step (`TrackIngest` with `Catalog`).
2. Abstract specifications of what a sign-in session and a cached response promise
   (a token that is valid, rotated or dead; a register that may be stale until its
   TTL), and the refinements from `Sessions` and `Catalog`.
3. The merging of search hits (`search_unified.py`) as an operator, checked over
   small lists.
