--------------------------- MODULE PlaybackProofs ----------------------------
(***************************************************************************)
(* Proofs about PlaySession and TrackIngest: for any number of tasks, jobs *)
(* and keys, what Redis says of a stream was once reported, a dead job     *)
(* comes back only by another task's hand, and an ingest lands.            *)
(***************************************************************************)
EXTENDS PlaySession, TrackIngest, TLAPS

-----------------------------------------------------------------------------
(* Sessions *)

(* What a task knows of the job it holds: a job that is playable now was    *)
(* heard of, and so was the job of a task on its way to say so.             *)
Heard ==
    /\ \A j \in Jobs : job[j] = "playable" => j \in heard
    /\ \A c \in Streams :
        /\ stream[c].pc \in {"put", "wait", "set_ready", "set_session", "downgrade", "copy"} =>
              stream[c].mine \in Session
        /\ stream[c].pc \in {"set_ready", "set_session", "copy"} =>
              stream[c].mine.job \in heard
        /\ stream[c].pc = "put" => ~stream[c].mine.direct
        /\ stream[c].pc = "look" => stream[c].dead = NoJob

PlayInv == PlayTypeOK /\ Heard /\ ReadyWasReady /\ DeadJobNotReused

LEMMA PlayInitInv == PlayInit => PlayInv
  BY PlayAssumption DEF PlayInit, PlayInv, PlayTypeOK, Heard, ReadyWasReady, DeadJobNotReused,
      NoSession, NoStream, Session, Stream

(* A task without state has all the properties of one.                      *)
LEMMA NoStreamFits ==
    /\ NoStream \in Stream
    /\ NoStream.pc = "idle"
  BY DEF NoStream, Stream, Session, NoSession

(* Types of each group of actions.                                          *)
LEMMA PlayTypeStep ==
    ASSUME PlayTypeOK, Heard, [PlayNext]_playVars
    PROVE  PlayTypeOK'
<1> USE DEF PlayTypeOK
<1> USE NoStreamFits
<1>1. ASSUME NEW c \in Streams,
             ClickMiss(c) \/ ClickStale(c) \/ DropReady(c) \/ DropSession(c) \/ Warm(c)
      PROVE  PlayTypeOK'
  <2>1. /\ [NoStream EXCEPT !.pc = "session"] \in Stream
        /\ [NoStream EXCEPT !.pc = "look", !.kind = "warm"] \in Stream
    BY DEF Stream
  <2>2. ready # NoJob => [NoStream EXCEPT !.pc = "drop_ready", !.dead = ready] \in Stream
    BY DEF Stream
  <2>3. /\ [stream[c] EXCEPT !.pc = "drop_session"] \in Stream
        /\ [stream[c] EXCEPT !.pc = "session", !.revived = FALSE] \in Stream
    BY DEF Stream
  <2>4. CASE ClickMiss(c) \/ ClickStale(c) \/ Warm(c)
    BY <2>1, <2>2, <2>4 DEF ClickMiss, ClickStale, Warm
  <2>5. CASE DropReady(c) \/ DropSession(c)
    BY <2>3, <2>5 DEF DropReady, DropSession, Goes, Stream
  <2> QED
    BY <1>1, <2>4, <2>5
<1>2. ASSUME NEW c \in Streams, Look(c) \/ Take(c) \/ SessionMiss(c)
      PROVE  PlayTypeOK'
  BY <1>2 DEF Look, Take, SessionMiss, Goes, Leaves, Stream
<1>3. ASSUME NEW c \in Streams, CopyReady(c) \/ SetReady(c)
      PROVE  PlayTypeOK'
  <2>1. stream[c].mine.job \in Jobs
    BY <1>3 DEF CopyReady, SetReady, Heard, Session
  <2> QED
    BY <1>3, <2>1 DEF CopyReady, SetReady, Goes, Leaves, Stream
<1>4. ASSUME NEW c \in Streams, NEW j \in Jobs, Start(c, j) \/ Prepare(c, j)
      PROVE  PlayTypeOK'
  <2>1. Fresh(j) \in Session
    BY DEF Fresh, Session
  <2>2. [stream[c] EXCEPT !.pc = "put", !.mine = Fresh(j)] \in Stream
    BY <2>1 DEF Stream
  <2>3. [NoStream EXCEPT !.pc = "wait", !.kind = "prepare", !.mine = Fresh(j)] \in Stream
    BY <2>1 DEF Stream
  <2> QED
    BY <1>4, <2>2, <2>3 DEF Start, Prepare, Started
<1>5. ASSUME NEW c \in Streams, NEW s \in Session, NEW next \in Stream, Puts(c, s, next)
      PROVE  PlayTypeOK'
  <2>1. ASSUME NEW d \in Streams
        PROVE  [stream[d] EXCEPT !.revived = @ \/ stream[d].dead = s.job] \in Stream
    <3>1. (stream[d].revived \/ stream[d].dead = s.job) \in BOOLEAN
      OBVIOUS
    <3> QED
      BY <3>1 DEF Stream
  <2> QED
    BY <1>5, <2>1 DEF Puts
<1>6. ASSUME NEW c \in Streams, Put(c) \/ SetSession(c) \/ Downgrade(c)
      PROVE  PlayTypeOK'
  <2>1. stream[c].mine \in Session
    BY <1>6 DEF Put, SetSession, Downgrade, Heard
  <2>2. /\ [stream[c].mine EXCEPT !.direct = TRUE] \in Session
        /\ [stream[c].mine EXCEPT !.direct = FALSE] \in Session
    BY <2>1 DEF Session
  <2>3. /\ [stream[c] EXCEPT !.pc = "wait"] \in Stream
        /\ [stream[c] EXCEPT !.pc = "set_ready"] \in Stream
    BY DEF Stream
  <2> QED
    BY <1>5, <1>6, <2>1, <2>2, <2>3 DEF Put, SetSession, Downgrade
<1>7. ASSUME NEW c \in Streams, HearsReady(c) \/ GivesUp(c) \/ StreamFails(c)
      PROVE  PlayTypeOK'
  BY <1>7 DEF HearsReady, GivesUp, StreamFails, Goes, Leaves, Stream
<1>8. ASSUME NEW j \in Jobs, NEW status \in {"playable", "failed"}, JobMoves(j, status)
      PROVE  PlayTypeOK'
  BY <1>8 DEF JobMoves
<1>9. CASE ReadyExpires \/ SessionExpires
  BY <1>9 DEF ReadyExpires, SessionExpires
<1>10. CASE UNCHANGED playVars
  BY <1>10 DEF playVars
<1> QED
  BY <1>1, <1>2, <1>3, <1>4, <1>6, <1>7, <1>8, <1>9, <1>10 DEF PlayNext

(* heard only grows, and holds the jobs that are playable.                  *)
LEMMA HeardStep ==
    ASSUME PlayTypeOK, Heard, ReadyWasReady, [PlayNext]_playVars
    PROVE  Heard' /\ ReadyWasReady'
<1> USE DEF PlayTypeOK, Heard, ReadyWasReady
<1> USE NoStreamFits
<1>1. ASSUME NEW c \in Streams,
             ClickMiss(c) \/ ClickStale(c) \/ DropReady(c) \/ DropSession(c) \/ Warm(c)
      PROVE  Heard' /\ ReadyWasReady'
  <2>1. /\ \A d \in Streams : d # c => stream'[d] = stream[d]
        /\ stream'[c].pc \in {"session", "drop_ready", "drop_session", "look"}
        /\ stream'[c].pc = "look" => stream'[c].dead = NoJob
    <3>1. CASE ClickMiss(c) \/ ClickStale(c)
      BY <3>1 DEF ClickMiss, ClickStale, NoStream
    <3>2. CASE Warm(c)
      BY <3>2 DEF Warm, NoStream
    <3>3. CASE DropReady(c) \/ DropSession(c)
      BY <3>3 DEF DropReady, DropSession, Goes, Stream
    <3> QED
      BY <1>1, <3>1, <3>2, <3>3
  <2>2. /\ UNCHANGED <<job, heard>>
        /\ ready' \in {ready, NoJob}
        /\ sess' \in {sess, NoSession}
    BY <1>1 DEF ClickMiss, ClickStale, DropReady, DropSession, Warm
  <2> QED
    BY <2>1, <2>2 DEF NoSession
<1>2. ASSUME NEW c \in Streams, Look(c) \/ Take(c) \/ SessionMiss(c)
      PROVE  Heard' /\ ReadyWasReady'
  <2>1. UNCHANGED <<job, heard, ready, sess>>
    BY <1>2 DEF Look, Take, SessionMiss
  <2>2. \/ stream' = [stream EXCEPT ![c] = NoStream]
        \/ stream' = [stream EXCEPT ![c].pc = "session", ![c].mine = sess]
        \/ stream' = [stream EXCEPT ![c].pc = "start"]
        \/ /\ sess \in Session
           /\ \/ stream' = [stream EXCEPT ![c].pc = "wait", ![c].mine = sess]
              \/ sess.direct /\ stream' = [stream EXCEPT ![c].pc = "copy", ![c].mine = sess]
    BY <1>2 DEF Look, Take, SessionMiss, Goes, Leaves
  <2> QED
    BY <2>1, <2>2 DEF Stream
<1>3. ASSUME NEW c \in Streams, CopyReady(c) \/ SetReady(c)
      PROVE  Heard' /\ ReadyWasReady'
  BY <1>3 DEF CopyReady, SetReady, Goes, Leaves, Stream
<1>4. ASSUME NEW c \in Streams, NEW j \in Jobs, Start(c, j) \/ Prepare(c, j)
      PROVE  Heard' /\ ReadyWasReady'
  <2>1. Fresh(j) \in Session
    BY DEF Fresh, Session
  <2>2. UNCHANGED <<heard, ready, sess>>
    BY <1>4 DEF Start, Prepare, Started
  <2>3. \A i \in Jobs : job'[i] = "playable" => job[i] = "playable"
    BY <1>4 DEF Start, Prepare, Started
  <2>4. \/ stream' = [stream EXCEPT ![c] = [stream[c] EXCEPT !.pc = "put", !.mine = Fresh(j)]]
        \/ stream' = [stream EXCEPT ![c] = [NoStream EXCEPT !.pc = "wait", !.kind = "prepare",
                                                            !.mine = Fresh(j)]]
    BY <1>4 DEF Start, Prepare, Started
  <2>5. \A d \in Streams : d # c => stream'[d] = stream[d]
    BY <2>4
  <2>6. stream'[c].pc \in {"put", "wait"} /\ stream'[c].mine = Fresh(j)
    <3>1. CASE stream' = [stream EXCEPT ![c] = [stream[c] EXCEPT !.pc = "put", !.mine = Fresh(j)]]
      BY <3>1 DEF Stream
    <3>2. CASE stream' = [stream EXCEPT ![c] = [NoStream EXCEPT !.pc = "wait", !.kind = "prepare",
                                                                !.mine = Fresh(j)]]
      BY <3>2 DEF Stream
    <3> QED
      BY <2>4, <3>1, <3>2
  <2>7. ~Fresh(j).direct
    BY DEF Fresh
  <2> QED
    BY <2>1, <2>2, <2>3, <2>5, <2>6, <2>7
<1>5. ASSUME NEW c \in Streams, NEW s \in Session, NEW next, Puts(c, s, next),
             s.direct => s.job \in heard,
             next = NoStream \/ (/\ next.pc \in {"wait", "set_ready"}
                                 /\ next.mine \in Session
                                 /\ next.pc = "set_ready" => next.mine.job \in heard)
      PROVE  Heard' /\ ReadyWasReady'
  <2>1. \A d \in Streams : d # c => /\ stream'[d].pc = stream[d].pc
                                    /\ stream'[d].mine = stream[d].mine
                                    /\ stream'[d].dead = stream[d].dead
    BY <1>5 DEF Puts, Stream
  <2>2. stream'[c] = next /\ sess' = s /\ UNCHANGED <<job, heard, ready>>
    BY <1>5 DEF Puts
  <2> QED
    BY <1>5, <2>1, <2>2
<1>6. ASSUME NEW c \in Streams, Put(c) \/ SetSession(c) \/ Downgrade(c)
      PROVE  Heard' /\ ReadyWasReady'
  <2>1. stream[c].mine \in Session
    BY <1>6 DEF Put, SetSession, Downgrade
  <2>2. CASE Put(c)
    <3>1. ~stream[c].mine.direct
      BY <2>2 DEF Put
    <3> QED
      BY <1>5, <2>1, <2>2, <3>1 DEF Put, Stream
  <2>3. CASE SetSession(c)
    <3>1. stream[c].mine.job \in heard
      BY <2>3 DEF SetSession
    <3>2. /\ [stream[c].mine EXCEPT !.direct = TRUE] \in Session
          /\ [stream[c].mine EXCEPT !.direct = TRUE].job \in heard
      BY <2>1, <3>1 DEF Session
    <3>3. /\ [stream[c] EXCEPT !.pc = "set_ready"].pc = "set_ready"
          /\ [stream[c] EXCEPT !.pc = "set_ready"].mine = stream[c].mine
      BY DEF Stream
    <3> QED
      BY <1>5, <2>1, <2>3, <3>1, <3>2, <3>3 DEF SetSession
  <2>4. CASE Downgrade(c)
    <3>1. /\ [stream[c].mine EXCEPT !.direct = FALSE] \in Session
          /\ ~[stream[c].mine EXCEPT !.direct = FALSE].direct
      BY <2>1 DEF Session
    <3> QED
      BY <1>5, <2>4, <3>1 DEF Downgrade
  <2> QED
    BY <1>6, <2>2, <2>3, <2>4
<1>7. ASSUME NEW c \in Streams, HearsReady(c) \/ GivesUp(c) \/ StreamFails(c)
      PROVE  Heard' /\ ReadyWasReady'
  BY <1>7 DEF HearsReady, GivesUp, StreamFails, Goes, Leaves, Stream, Playable, Session
<1>8. ASSUME NEW j \in Jobs, NEW status \in {"playable", "failed"}, JobMoves(j, status)
      PROVE  Heard' /\ ReadyWasReady'
  BY <1>8 DEF JobMoves
<1>9. CASE ReadyExpires \/ SessionExpires
  BY <1>9 DEF ReadyExpires, SessionExpires, NoSession
<1>10. CASE UNCHANGED playVars
  BY <1>10 DEF playVars
<1> QED
  BY <1>1, <1>2, <1>3, <1>4, <1>6, <1>7, <1>8, <1>9, <1>10 DEF PlayNext

(* A task that looks for a session has the job it holds dead only if that   *)
(* job was put again; every put tells those that look.                      *)
LEMMA DeadStep ==
    ASSUME PlayTypeOK, Heard, DeadJobNotReused, [PlayNext]_playVars
    PROVE  DeadJobNotReused'
<1> USE DEF PlayTypeOK, DeadJobNotReused
<1> USE NoStreamFits
<1>1. ASSUME NEW c \in Streams,
             \/ sess' = sess /\ (stream'[c].pc = "session" => stream'[c].dead = NoJob)
             \/ sess' = NoSession,
             \A d \in Streams : d # c => stream'[d] = stream[d]
      PROVE  DeadJobNotReused'
  BY <1>1, PlayAssumption DEF Session, NoSession
<1>2. ASSUME NEW c \in Streams,
             ClickMiss(c) \/ ClickStale(c) \/ DropReady(c) \/ DropSession(c) \/ Warm(c)
      PROVE  DeadJobNotReused'
  <2>1. CASE ClickMiss(c) \/ ClickStale(c) \/ Warm(c)
    BY <1>1, <2>1 DEF ClickMiss, ClickStale, Warm, NoStream
  <2>2. CASE DropReady(c) \/ DropSession(c)
    BY <1>1, <2>2 DEF DropReady, DropSession, Goes, Stream
  <2> QED
    BY <1>2, <2>1, <2>2
<1>3. ASSUME NEW c \in Streams,
             \/ Look(c) \/ Take(c) \/ SessionMiss(c) \/ CopyReady(c)
             \/ HearsReady(c) \/ GivesUp(c) \/ SetReady(c) \/ StreamFails(c)
      PROVE  DeadJobNotReused'
  <2>1. CASE Look(c)
    <3>1. stream[c].dead = NoJob
      BY <2>1 DEF Look, Heard
    <3> QED
      BY <1>1, <2>1, <3>1 DEF Look, Stream
  <2>2. CASE Take(c) \/ SessionMiss(c) \/ CopyReady(c)
    BY <1>1, <2>2 DEF Take, SessionMiss, CopyReady, Goes, Leaves, Stream
  <2>3. CASE HearsReady(c) \/ GivesUp(c) \/ SetReady(c) \/ StreamFails(c)
    BY <1>1, <2>3 DEF HearsReady, GivesUp, SetReady, StreamFails, Goes, Leaves, Stream
  <2> QED
    BY <1>3, <2>1, <2>2, <2>3
<1>4. ASSUME NEW c \in Streams, NEW j \in Jobs, Start(c, j) \/ Prepare(c, j)
      PROVE  DeadJobNotReused'
  <2>1. CASE Start(c, j)
    BY <1>1, <2>1 DEF Start, Started, Stream
  <2>2. CASE Prepare(c, j)
    <3>1. [NoStream EXCEPT !.pc = "wait", !.kind = "prepare", !.mine = Fresh(j)].pc = "wait"
      BY DEF Stream
    <3> QED
      BY <1>1, <2>2, <3>1 DEF Prepare, Started
  <2> QED
    BY <1>4, <2>1, <2>2
<1>5. ASSUME NEW c \in Streams, NEW s \in Session, NEW next, Puts(c, s, next),
             next.pc # "session"
      PROVE  DeadJobNotReused'
  <2>1. sess' = s /\ stream'[c] = next
    BY <1>5 DEF Puts
  <2>2. \A d \in Streams : d # c =>
            /\ stream'[d].dead = stream[d].dead
            /\ stream'[d].dead = s.job => stream'[d].revived
    BY <1>5 DEF Puts, Stream
  <2> QED
    BY <1>5, <2>1, <2>2
<1>6. ASSUME NEW c \in Streams, Put(c) \/ SetSession(c) \/ Downgrade(c)
      PROVE  DeadJobNotReused'
  <2>1. stream[c].mine \in Session
    BY <1>6 DEF Put, SetSession, Downgrade, Heard
  <2>2. /\ [stream[c].mine EXCEPT !.direct = TRUE] \in Session
        /\ [stream[c].mine EXCEPT !.direct = FALSE] \in Session
    BY <2>1 DEF Session
  <2>3. /\ [stream[c] EXCEPT !.pc = "wait"].pc = "wait"
        /\ [stream[c] EXCEPT !.pc = "set_ready"].pc = "set_ready"
    BY DEF Stream
  <2> QED
    BY <1>5, <1>6, <2>1, <2>2, <2>3 DEF Put, SetSession, Downgrade
<1>7. CASE \E j \in Jobs, status \in {"playable", "failed"} : JobMoves(j, status)
  BY <1>7 DEF JobMoves
<1>8. CASE ReadyExpires \/ SessionExpires
  BY <1>8 DEF ReadyExpires, SessionExpires
<1>9. CASE UNCHANGED playVars
  BY <1>9 DEF playVars
<1> QED
  BY <1>2, <1>3, <1>4, <1>6, <1>7, <1>8, <1>9 DEF PlayNext

(* The inductive invariant of the sessions.                                 *)
THEOREM PlayInvariant == PlaySpec => []PlayInv
<1>1. PlayInv /\ [PlayNext]_playVars => PlayInv'
  BY PlayTypeStep, HeardStep, DeadStep DEF PlayInv
<1> QED
  BY PlayInitInv, <1>1, PTL DEF PlaySpec

(* The variables of the sessions keep their types.                          *)
THEOREM PlayTypeCorrect == PlaySpec => []PlayTypeOK
<1>1. PlayInv => PlayTypeOK
  BY DEF PlayInv
<1> QED
  BY PlayInvariant, <1>1, PTL

(* However many tasks write yt:ready and play:session over each other, a    *)
(* cached stream and a session marked direct are of a job that was reported *)
(* playable (_mark_play_ready, _cache_prepared_session).                    *)
THEOREM ReadyIsHeard == PlaySpec => []ReadyWasReady
<1>1. PlayInv => ReadyWasReady
  BY DEF PlayInv
<1> QED
  BY PlayInvariant, <1>1, PTL

(* After the 502 of a cached stream the click finds the dead job in         *)
(* play:session only if another task put it back (_stream_spotify_hit).     *)
THEOREM DeadJobStaysDropped == PlaySpec => []DeadJobNotReused
<1>1. PlayInv => DeadJobNotReused
  BY DEF PlayInv
<1> QED
  BY PlayInvariant, <1>1, PTL

-----------------------------------------------------------------------------
(* The ingest *)

(* A row without audio is an imported or silent one, never the absent one   *)
(* under another slug; a task has a key, and mends a row that is there.     *)
TasksFit ==
    /\ \A k \in SpotifyIds : track[k].audio = "none" => track[k] = NoTrack
    /\ \A i \in Ingests : ingest[i].pc # "idle" => ingest[i].key \in SpotifyIds
    /\ \A i \in Ingests : ingest[i].pc = "mend" => track[ingest[i].key].audio # "none"

IngestInv == IngestTypeOK /\ TasksFit

LEMMA IngestInitInv == IngestInit => IngestInv
<1> SUFFICES ASSUME IngestInit PROVE IngestInv
  OBVIOUS
<1>1. NoTask \in Task /\ NoTask.pc = "idle"
  BY DEF NoTask, Task
<1>2. /\ {NoTrack, [audio |-> "silent", slug |-> "suffixed"]} \subseteq TrackRow
  BY DEF NoTrack, TrackRow
<1>3. IngestTypeOK
  BY <1>1, <1>2, IngestAssumption DEF IngestInit, IngestTypeOK
<1>4. TasksFit
  BY <1>1 DEF IngestInit, TasksFit
<1> QED
  BY <1>3, <1>4 DEF IngestInv

LEMMA IngestStep ==
    ASSUME IngestInv, [IngestNext]_ingestVars
    PROVE  IngestInv'
<1> USE DEF IngestInv, IngestTypeOK, TasksFit
<1>0. NoTask \in Task /\ NoTask.pc = "idle"
  BY DEF NoTask, Task
<1>1. ASSUME NEW i \in Ingests, NEW k \in SpotifyIds, Spawn(i, k)
      PROVE  IngestInv'
  <2>1. /\ [NoTask EXCEPT !.pc = "poll", !.key = k] \in Task
        /\ [NoTask EXCEPT !.pc = "poll", !.key = k].pc = "poll"
        /\ [NoTask EXCEPT !.pc = "poll", !.key = k].key = k
    BY DEF NoTask, Task
  <2> QED
    BY <1>1, <2>1 DEF Spawn
<1>2. ASSUME NEW i \in Ingests, NEW url \in BOOLEAN, PollReady(i, url)
      PROVE  IngestInv'
  BY <1>2 DEF PollReady, Task
<1>3. ASSUME NEW i \in Ingests, PollEnds(i) \/ FlushArtist(i) \/ IngestFails(i)
      PROVE  IngestInv'
  <2>1. CASE PollEnds(i)
    BY <1>0, <2>1 DEF PollEnds, Ends
  <2>2. CASE FlushArtist(i)
    BY <1>0, <2>2 DEF FlushArtist, Ends, Task
  <2>3. CASE IngestFails(i)
    <3>1. failures' \in 0..MaxFailures
      BY <2>3, IngestAssumption DEF IngestFails
    <3> QED
      BY <1>0, <2>3, <3>1 DEF IngestFails, Ends
  <2> QED
    BY <1>3, <2>1, <2>2, <2>3
<1>4. ASSUME NEW i \in Ingests, Find(i)
      PROVE  IngestInv'
  <2>1. UNCHANGED <<track, artist, failures>>
    BY <1>4 DEF Find
  <2>2. CASE ingest' = [ingest EXCEPT ![i] = NoTask]
    BY <1>0, <2>1, <2>2
  <2>3. CASE ingest' = [ingest EXCEPT ![i].pc = "artist"]
    BY <1>4, <2>1, <2>3 DEF Find, Task
  <2>4. CASE ingest' = [ingest EXCEPT ![i].pc = "mend"] /\ track[ingest[i].key].audio = "silent"
    BY <1>4, <2>1, <2>4 DEF Find, Task
  <2> QED
    BY <1>4, <2>2, <2>3, <2>4 DEF Find, Step, Ends
<1>5. ASSUME NEW i \in Ingests, Mend(i)
      PROVE  IngestInv'
  <2>1. track' \in [SpotifyIds -> TrackRow]
    BY <1>5 DEF Mend, TrackRow
  <2>2. \A k \in SpotifyIds : track'[k] = track[k] \/ track'[k].audio = "playable"
    BY <1>5 DEF Mend, TrackRow
  <2> QED
    BY <1>0, <1>5, <2>1, <2>2 DEF Mend, Ends
<1>6. ASSUME NEW i \in Ingests, FindArtist(i) \/ FindSlug(i)
      PROVE  IngestInv'
  BY <1>6 DEF FindArtist, FindSlug, Step, Task
<1>7. ASSUME NEW i \in Ingests, CommitTrack(i)
      PROVE  IngestInv'
  <2>1. track' \in [SpotifyIds -> TrackRow] /\ artist' \in BOOLEAN
    <3>1. [audio |-> IF ingest[i].url THEN "playable" ELSE "silent",
           slug |-> ingest[i].slug] \in TrackRow
      BY DEF TrackRow, Task
    <3> QED
      BY <1>7, <3>1 DEF CommitTrack
  <2>2. \A k \in SpotifyIds : track'[k] = track[k] \/ track'[k].audio # "none"
    BY <1>7 DEF CommitTrack
  <2> QED
    BY <1>0, <1>7, <2>1, <2>2 DEF CommitTrack, Ends
<1>8. CASE UNCHANGED ingestVars
  BY <1>8 DEF ingestVars
<1> QED
  BY <1>1, <1>2, <1>3, <1>4, <1>5, <1>6, <1>7, <1>8 DEF IngestNext

(* The inductive invariant of the ingest.                                   *)
THEOREM IngestInvariant == IngestSpec => []IngestInv
  BY IngestInitInv, IngestStep, PTL DEF IngestSpec

(* The variables of the ingest keep their types.                            *)
THEOREM IngestTypeCorrect == IngestSpec => []IngestTypeOK
<1>1. IngestInv => IngestTypeOK
  BY DEF IngestInv
<1> QED
  BY IngestInvariant, <1>1, PTL

(* When a task that saw its job stored ends without an error, the key is in *)
(* the catalog with the audio the job gave, or the task was overtaken       *)
(* (_background_ingest): conflicts between tasks of one key lose nothing.   *)
THEOREM IngestLands == IngestSpec => IngestLandsOrOvertaken
<1> DEFINE Lands(i) ==
        (ingest[i].pc \notin {"idle", "poll"} /\ ingest'[i].pc = "idle" /\ failures' = failures) =>
            \/ track'[ingest[i].key].audio = "playable"
            \/ track'[ingest[i].key].audio = "silent" /\ ~ingest[i].url
            \/ Overtaken(i)
<1>1. ASSUME IngestInv, [IngestNext]_ingestVars, NEW i \in Ingests
      PROVE  Lands(i)
  <2> USE <1>1
  <2> USE DEF IngestInv, IngestTypeOK, TasksFit
  <2> SUFFICES ASSUME ingest[i].pc \notin {"idle", "poll"}, ingest'[i].pc = "idle",
                      failures' = failures
               PROVE  \/ track'[ingest[i].key].audio = "playable"
                      \/ track'[ingest[i].key].audio = "silent" /\ ~ingest[i].url
                      \/ Overtaken(i)
    OBVIOUS
  <2>0. ingest[i].key \in SpotifyIds
    OBVIOUS
  <2>1. ingest' # ingest
    OBVIOUS
  <2>2. PICK n \in Ingests :
            \/ \E k \in SpotifyIds : Spawn(n, k)
            \/ \E url \in BOOLEAN : PollReady(n, url)
            \/ PollEnds(n) \/ Find(n) \/ Mend(n) \/ FindArtist(n) \/ FlushArtist(n)
            \/ FindSlug(n) \/ CommitTrack(n) \/ IngestFails(n)
    BY <2>1 DEF IngestNext, ingestVars
  <2>3. n = i
    BY <2>2 DEF Spawn, PollReady, PollEnds, Find, Mend, FindArtist, FlushArtist, FindSlug,
        CommitTrack, IngestFails, Step, Ends
  <2>4. CASE Find(i)
    <3>1. track[ingest[i].key] # NoTrack /\ track' = track
      BY <2>4 DEF Find, Step, Task
    <3>2. track[ingest[i].key].audio \in {"silent", "playable"}
      BY <2>0, <3>1 DEF TrackRow
    <3>3. ~(track[ingest[i].key].audio = "silent" /\ ingest[i].url)
      BY <2>4, <3>1 DEF Find, Step, Task
    <3> QED
      BY <3>1, <3>2, <3>3
  <2>5. CASE Mend(i)
    BY <2>0, <2>5 DEF Mend, TrackRow
  <2>6. CASE FlushArtist(i)
    BY <2>6 DEF FlushArtist, Overtaken, Ends, Task
  <2>7. CASE CommitTrack(i)
    <3>1. CASE Conflict(i)
      <4>1. track' = track /\ ingest[i].pc = "commit"
        BY <2>7, <3>1 DEF CommitTrack
      <4>2. CASE Stored(ingest[i].key)
        <5>1. track[ingest[i].key].audio \in {"silent", "playable"}
          BY <2>0, <4>2 DEF Stored, TrackRow
        <5> QED
          BY <4>1, <5>1 DEF Overtaken
      <4>3. CASE ingest[i].slug = "plain" /\ Taken("plain")
        BY <4>1, <4>3 DEF Overtaken
      <4> QED
        BY <3>1, <4>2, <4>3 DEF Conflict
    <3>2. CASE ~Conflict(i)
      <4>1. track'[ingest[i].key].audio = IF ingest[i].url THEN "playable" ELSE "silent"
        BY <2>0, <2>7, <3>2 DEF CommitTrack
      <4> QED
        BY <4>1
    <3> QED
      BY <3>1, <3>2
  <2>8. ~IngestFails(i)
    BY IngestAssumption DEF IngestFails
  <2>9. /\ \A k \in SpotifyIds : ~Spawn(i, k)
        /\ \A url \in BOOLEAN : ~PollReady(i, url)
        /\ ~PollEnds(i) /\ ~FindArtist(i) /\ ~FindSlug(i)
    BY DEF Spawn, PollReady, PollEnds, FindArtist, FindSlug, Step, Task
  <2> QED
    BY <2>2, <2>3, <2>4, <2>5, <2>6, <2>7, <2>8, <2>9
<1>2. IngestInv /\ [IngestNext]_ingestVars => [\A i \in Ingests : Lands(i)]_ingestVars
  BY <1>1
<1>3. [\A i \in Ingests : Lands(i)]_ingestVars =>
        [\A i \in Ingests :
           LET k == ingest[i].key IN
           (ingest[i].pc \notin {"idle", "poll"} /\ ingest'[i].pc = "idle" /\ failures' = failures) =>
              \/ track'[k].audio = "playable"
              \/ track'[k].audio = "silent" /\ ~ingest[i].url
              \/ Overtaken(i)]_ingestVars
  OBVIOUS
<1> QED
  BY IngestInvariant, <1>2, <1>3, PTL DEF IngestSpec, IngestLandsOrOvertaken
=============================================================================
