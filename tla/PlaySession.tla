---------------------------- MODULE PlaySession -----------------------------
(***************************************************************************)
(* Playing a Spotify key that is not in the catalog                        *)
(* (services/stream_key.py, services/prepare_play.py): the downloader      *)
(* resolves the key in a job, and two Redis keys remember the job:         *)
(* play:session (the job, and whether its stream is known to be direct)    *)
(* and yt:ready (the stream URL of a job that was reported playable).      *)
(* Clicks, warm-ups and prepares of one key run at the same time, each of  *)
(* their Redis commands and calls of the downloader in a step of its own.  *)
(*                                                                         *)
(* A behaviour follows one key.                                            *)
(***************************************************************************)
EXTENDS Naturals

CONSTANTS
    Jobs,       \* jobs of the downloader for the key
    NoJob,
    Streams     \* clicks, warm-ups and prepares in flight

ASSUME PlayAssumption == NoJob \notin Jobs

VARIABLES
    job,      \* external: what the downloader reports of each job
    heard,    \* history: jobs that were reported playable
    ready,    \* yt:ready, the job its URL is of
    sess,     \* play:session
    stream    \* per task: where it is

playVars == <<job, heard, ready, sess, stream>>

Session == [job : Jobs, direct : BOOLEAN]

NoSession == [job |-> NoJob, direct |-> FALSE]

(* `mine' is the session dict the task holds.                               *)
Stream == [pc      : {"idle", "drop_ready", "drop_session", "look", "session", "start",
                      "put", "wait", "set_ready", "set_session", "downgrade", "copy"},
           kind    : {"click", "warm", "prepare"},
           mine    : Session \cup {NoSession},
           dead    : Jobs \cup {NoJob},   \* the job whose stream answered 502
           revived : BOOLEAN]             \* history: dead was put again since the drop

NoStream == [pc |-> "idle", kind |-> "click", mine |-> NoSession,
             dead |-> NoJob, revived |-> FALSE]

PlayTypeOK ==
    /\ job \in [Jobs -> {"absent", "running", "playable", "failed"}]
    /\ heard \subseteq Jobs
    /\ ready \in Jobs \cup {NoJob}
    /\ sess \in Session \cup {NoSession}
    /\ stream \in [Streams -> Stream]

PlayInit ==
    /\ job = [j \in Jobs |-> "absent"]
    /\ heard = {}
    /\ ready = NoJob
    /\ sess = NoSession
    /\ stream = [c \in Streams |-> NoStream]

Goes(c, pc) == stream' = [stream EXCEPT ![c].pc = pc]

Leaves(c) == stream' = [stream EXCEPT ![c] = NoStream]

-----------------------------------------------------------------------------
(* A click: _stream_spotify_hit *)

(* Nothing is cached, or a URL that is not a stream of the downloader: the  *)
(* click leaves what is cached alone.                                       *)
ClickMiss(c) ==
    /\ stream[c].pc = "idle"
    /\ stream' = [stream EXCEPT ![c] = [NoStream EXCEPT !.pc = "session"]]
    /\ UNCHANGED <<job, heard, ready, sess>>

(* The cached stream of the downloader is proxied, and answers 502.  Any    *)
(* other answer ends the click.                                             *)
ClickStale(c) ==
    /\ stream[c].pc = "idle"
    /\ ready # NoJob
    /\ stream' = [stream EXCEPT ![c] = [NoStream EXCEPT !.pc = "drop_ready", !.dead = ready]]
    /\ UNCHANGED <<job, heard, ready, sess>>

DropReady(c) ==
    /\ stream[c].pc = "drop_ready"
    /\ ready' = NoJob
    /\ Goes(c, "drop_session")
    /\ UNCHANGED <<job, heard, sess>>

(* Fault: only yt:ready is dropped.                                         *)
FaultDropSession(c) ==
    /\ stream[c].pc = "drop_session"
    /\ stream' = [stream EXCEPT ![c].pc = "session", ![c].revived = FALSE]
    /\ UNCHANGED <<job, heard, ready, sess>>

DropSession(c) ==
    /\ stream[c].pc = "drop_session"
    /\ sess' = NoSession
    /\ stream' = [stream EXCEPT ![c].pc = "session", ![c].revived = FALSE]
    /\ UNCHANGED <<job, heard, ready>>

-----------------------------------------------------------------------------
(* A warm-up: warm_play_hit *)

(* warm_track and warm_play_hits start one; a key that is ready is left.    *)
Warm(c) ==
    /\ stream[c].pc = "idle"
    /\ ready = NoJob
    /\ stream' = [stream EXCEPT ![c] = [NoStream EXCEPT !.pc = "look", !.kind = "warm"]]
    /\ UNCHANGED <<job, heard, ready, sess>>

(* A session that is direct already only has its URL copied.                *)
Look(c) ==
    /\ stream[c].pc = "look"
    /\ stream' = [stream EXCEPT ![c].pc = IF sess = NoSession THEN "session"
                                          ELSE IF sess.direct THEN "copy" ELSE "wait",
                                ![c].mine = sess]
    /\ UNCHANGED <<job, heard, ready, sess>>

(* Fault: the session is kept where its stream URL belongs.                 *)
FaultCopyReady(c) ==
    /\ stream[c].pc = "copy"
    /\ ready' = stream[c].mine
    /\ Leaves(c)
    /\ UNCHANGED <<job, heard, sess>>

CopyReady(c) ==
    /\ stream[c].pc = "copy"
    /\ ready' = stream[c].mine.job
    /\ Leaves(c)
    /\ UNCHANGED <<job, heard, sess>>

-----------------------------------------------------------------------------
(* _get_play_session: the session that is cached, or a new job *)

(* A click needs no waiter for a session that is direct.                    *)
Take(c) ==
    /\ stream[c].pc = "session"
    /\ sess # NoSession
    /\ IF stream[c].kind = "click" /\ sess.direct THEN Leaves(c)
       ELSE stream' = [stream EXCEPT ![c].pc = "wait", ![c].mine = sess]
    /\ UNCHANGED <<job, heard, ready, sess>>

SessionMiss(c) ==
    /\ stream[c].pc = "session"
    /\ sess = NoSession
    /\ Goes(c, "start")
    /\ UNCHANGED <<job, heard, ready, sess>>

(* start_play: the downloader answers with a new job or one it has.         *)
Started(c, j, next) ==
    /\ job' = [job EXCEPT ![j] = IF @ = "absent" THEN "running" ELSE @]
    /\ stream' = [stream EXCEPT ![c] = next]
    /\ UNCHANGED <<heard, ready, sess>>

Fresh(j) == [job |-> j, direct |-> FALSE]

Start(c, j) ==
    /\ stream[c].pc = "start"
    /\ Started(c, j, [stream[c] EXCEPT !.pc = "put", !.mine = Fresh(j)])

(* A prepare never looks at play:session.  kick_prepare_hit, which a search *)
(* starts, polls once; prepare_single_hit polls until its deadline.         *)
Prepare(c, j) ==
    /\ stream[c].pc = "idle"
    /\ Started(c, j, [NoStream EXCEPT !.pc = "wait", !.kind = "prepare", !.mine = Fresh(j)])

(* The session is put by c, which goes on as `next'; a click that dropped   *)
(* the session of the same job is told in its history.                      *)
Puts(c, s, next) ==
    /\ sess' = s
    /\ stream' = [d \in Streams |->
                     IF d = c THEN next
                     ELSE [stream[d] EXCEPT !.revived = @ \/ stream[d].dead = s.job]]
    /\ UNCHANGED <<job, heard, ready>>

Put(c) ==
    /\ stream[c].pc = "put"
    /\ Puts(c, stream[c].mine, [stream[c] EXCEPT !.pc = "wait"])

-----------------------------------------------------------------------------
(* _wait_for_play_ready and the poll of a prepare *)

(* Fault: a job that runs is good enough.                                   *)
FaultPlayable(j) == job[j] # "failed"

(* What a task waits for; a poll that fails is repeated.                    *)
Playable(j) == job[j] = "playable"

(* A prepare puts the session first, the others the URL.                    *)
HearsReady(c) ==
    /\ stream[c].pc = "wait"
    /\ Playable(stream[c].mine.job)
    /\ Goes(c, IF stream[c].kind = "prepare" THEN "set_session" ELSE "set_ready")
    /\ UNCHANGED <<job, heard, ready, sess>>

(* The job failed, or the wait is over: a warm-up puts its session again.   *)
GivesUp(c) ==
    /\ stream[c].pc = "wait"
    /\ IF stream[c].kind = "warm" THEN Goes(c, "downgrade") ELSE Leaves(c)
    /\ UNCHANGED <<job, heard, ready, sess>>

SetReady(c) ==
    /\ stream[c].pc = "set_ready"
    /\ ready' = stream[c].mine.job
    /\ IF stream[c].kind = "prepare" THEN Leaves(c) ELSE Goes(c, "set_session")
    /\ UNCHANGED <<job, heard, sess>>

SetSession(c) ==
    /\ stream[c].pc = "set_session"
    /\ Puts(c, [stream[c].mine EXCEPT !.direct = TRUE],
            IF stream[c].kind = "prepare" THEN [stream[c] EXCEPT !.pc = "set_ready"]
            ELSE NoStream)

Downgrade(c) ==
    /\ stream[c].pc = "downgrade"
    /\ Puts(c, [stream[c].mine EXCEPT !.direct = FALSE], NoStream)

(* Redis or the downloader fails, or the process stops.                     *)
StreamFails(c) ==
    /\ stream[c].pc # "idle"
    /\ Leaves(c)
    /\ UNCHANGED <<job, heard, ready, sess>>

-----------------------------------------------------------------------------
(* The downloader and Redis *)

(* A job becomes playable or fails, and a playable one may fail.            *)
JobMoves(j, status) ==
    /\ job[j] = "running" \/ (job[j] = "playable" /\ status = "failed")
    /\ job' = [job EXCEPT ![j] = status]
    /\ heard' = IF status = "playable" THEN heard \cup {j} ELSE heard
    /\ UNCHANGED <<ready, sess, stream>>

ReadyExpires ==
    /\ ready # NoJob
    /\ ready' = NoJob
    /\ UNCHANGED <<job, heard, sess, stream>>

SessionExpires ==
    /\ sess # NoSession
    /\ sess' = NoSession
    /\ UNCHANGED <<job, heard, ready, stream>>

-----------------------------------------------------------------------------
PlayNext ==
    \/ \E c \in Streams :
        \/ ClickMiss(c) \/ ClickStale(c) \/ DropReady(c) \/ DropSession(c)
        \/ Warm(c) \/ Look(c) \/ CopyReady(c)
        \/ Take(c) \/ SessionMiss(c) \/ Put(c)
        \/ \E j \in Jobs : Start(c, j) \/ Prepare(c, j)
        \/ HearsReady(c) \/ GivesUp(c) \/ SetReady(c) \/ SetSession(c) \/ Downgrade(c)
        \/ StreamFails(c)
    \/ \E j \in Jobs, status \in {"playable", "failed"} : JobMoves(j, status)
    \/ ReadyExpires \/ SessionExpires

PlaySpec == PlayInit /\ [][PlayNext]_playVars

-----------------------------------------------------------------------------
(* Whatever the tasks write over each other, a click is sent to a cached    *)
(* stream only when the downloader reported that stream playable, and a     *)
(* session marked direct is one whose job was.                              *)
ReadyWasReady ==
    /\ ready # NoJob => ready \in heard
    /\ sess.direct => sess.job \in heard

(* A click whose cached stream answered 502 looks for another job: it finds *)
(* the dead one in play:session only when another task, which had that      *)
(* session in hand, put it back after the click dropped it.                 *)
DeadJobNotReused ==
    \A c \in Streams :
        (stream[c].pc = "session" /\ sess # NoSession /\ sess.job = stream[c].dead) =>
            stream[c].revived
=============================================================================
