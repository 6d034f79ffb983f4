---------------------------- MODULE TrackIngest -----------------------------
(***************************************************************************)
(* _background_ingest of services/stream_key.py: every click on a key that *)
(* is not in the catalog starts a task that polls the key's job and, when  *)
(* its file is stored, adds the track.  The tasks of one key, and those of *)
(* keys of one artist, look and insert in separate steps of separate       *)
(* transactions; the unique keys artists.slug, tracks.spotify_id and       *)
(* tracks.slug turn the loser of a race away, and nothing tries again.     *)
(*                                                                         *)
(* All the keys are of one artist and one title, the worst case: they want *)
(* the same slug.                                                          *)
(***************************************************************************)
EXTENDS Naturals

CONSTANTS
    SpotifyIds,
    Ingests,       \* tasks in flight
    NoId,
    MaxFailures    \* bound: database errors and processes that stop

ASSUME IngestAssumption == NoId \notin SpotifyIds /\ MaxFailures \in Nat

VARIABLES
    track,      \* per key: its row
    artist,     \* the artist's row is committed
    ingest,     \* per task: where it is
    failures    \* errors so far

ingestVars == <<track, artist, ingest, failures>>

(* `slug': artist-title, or that with the first eight letters of the key.   *)
TrackRow == [audio : {"none", "silent", "playable"}, slug : {"plain", "suffixed"}]

NoTrack == [audio |-> "none", slug |-> "plain"]

Task == [pc   : {"idle", "poll", "find", "mend", "artist", "flush", "slug", "commit"},
         key  : SpotifyIds \cup {NoId},
         url  : BOOLEAN,                   \* the job gave an audio URL
         new  : BOOLEAN,                   \* it flushed the artist's row
         slug : {"plain", "suffixed"}]

NoTask == [pc |-> "idle", key |-> NoId, url |-> FALSE, new |-> FALSE, slug |-> "plain"]

IngestTypeOK ==
    /\ track \in [SpotifyIds -> TrackRow]
    /\ artist \in BOOLEAN
    /\ ingest \in [Ingests -> Task]
    /\ failures \in 0..MaxFailures

(* A row without audio is one an import left.                               *)
IngestInit ==
    /\ track \in [SpotifyIds -> {NoTrack, [audio |-> "silent", slug |-> "suffixed"]}]
    /\ artist \in BOOLEAN
    /\ (\E k \in SpotifyIds : track[k] # NoTrack) => artist
    /\ ingest = [i \in Ingests |-> NoTask]
    /\ failures = 0

Stored(k) == track[k].audio # "none"

Step(i, pc) == ingest' = [ingest EXCEPT ![i].pc = pc]

Ends(i) == ingest' = [ingest EXCEPT ![i] = NoTask]

Spawn(i, k) ==
    /\ ingest[i].pc = "idle"
    /\ ingest' = [ingest EXCEPT ![i] = [NoTask EXCEPT !.pc = "poll", !.key = k]]
    /\ UNCHANGED <<track, artist, failures>>

PollReady(i, url) ==
    /\ ingest[i].pc = "poll"
    /\ ingest' = [ingest EXCEPT ![i].pc = "find", ![i].url = url]
    /\ UNCHANGED <<track, artist, failures>>

(* The job failed, its status could not be had, or 120 polls are over.      *)
PollEnds(i) ==
    /\ ingest[i].pc = "poll"
    /\ Ends(i)
    /\ UNCHANGED <<track, artist, failures>>

(* Fault: a row that is there is left alone, audio or not.                  *)
FaultFind(i) ==
    /\ ingest[i].pc = "find"
    /\ IF track[ingest[i].key] = NoTrack THEN Step(i, "artist") ELSE Ends(i)
    /\ UNCHANGED <<track, artist, failures>>

(* The task has nothing to do for a row that has audio, or has none to give. *)
Find(i) ==
    LET row == track[ingest[i].key] IN
    /\ ingest[i].pc = "find"
    /\ IF row = NoTrack THEN Step(i, "artist")
       ELSE IF row.audio = "silent" /\ ingest[i].url THEN Step(i, "mend")
       ELSE Ends(i)
    /\ UNCHANGED <<track, artist, failures>>

Mend(i) ==
    /\ ingest[i].pc = "mend"
    /\ track' = [track EXCEPT ![ingest[i].key].audio = "playable"]
    /\ Ends(i)
    /\ UNCHANGED <<artist, failures>>

FindArtist(i) ==
    /\ ingest[i].pc = "artist"
    /\ Step(i, IF artist THEN "slug" ELSE "flush")
    /\ UNCHANGED <<track, artist, failures>>

(* The INSERT waits for one in flight; it fails if the row is there by now. *)
FlushArtist(i) ==
    /\ ingest[i].pc = "flush"
    /\ \A n \in Ingests : ~ingest[n].new
    /\ IF artist THEN Ends(i)
       ELSE ingest' = [ingest EXCEPT ![i].pc = "slug", ![i].new = TRUE]
    /\ UNCHANGED <<track, artist, failures>>

Taken(slug) == \E k \in SpotifyIds : Stored(k) /\ track[k].slug = slug

(* A suffixed slug is that of one key.                                      *)
FindSlug(i) ==
    /\ ingest[i].pc = "slug"
    /\ ingest' = [ingest EXCEPT ![i].pc = "commit",
                                ![i].slug = IF Taken("plain") THEN "suffixed" ELSE "plain"]
    /\ UNCHANGED <<track, artist, failures>>

(* The key or the slug came to be taken since the task looked.              *)
Conflict(i) == Stored(ingest[i].key) \/ (ingest[i].slug = "plain" /\ Taken("plain"))

CommitTrack(i) ==
    /\ ingest[i].pc = "commit"
    /\ IF Conflict(i) THEN UNCHANGED <<track, artist>>
       ELSE /\ track' = [track EXCEPT ![ingest[i].key] =
                            [audio |-> IF ingest[i].url THEN "playable" ELSE "silent",
                             slug |-> ingest[i].slug]]
            /\ artist' = TRUE
    /\ Ends(i)
    /\ UNCHANGED failures

IngestFails(i) ==
    /\ ingest[i].pc \notin {"idle", "poll"}
    /\ failures < MaxFailures
    /\ failures' = failures + 1
    /\ Ends(i)
    /\ UNCHANGED <<track, artist>>

IngestNext ==
    \E i \in Ingests :
        \/ \E k \in SpotifyIds : Spawn(i, k)
        \/ \E url \in BOOLEAN : PollReady(i, url)
        \/ PollEnds(i) \/ Find(i) \/ Mend(i) \/ FindArtist(i) \/ FlushArtist(i)
        \/ FindSlug(i) \/ CommitTrack(i) \/ IngestFails(i)

IngestSpec == IngestInit /\ [][IngestNext]_ingestVars

-----------------------------------------------------------------------------
(* The task was overtaken: by one of another key that inserted the artist   *)
(* or took the slug they share after the task had looked, or by one of the  *)
(* same key that had no audio to give.                                      *)
Overtaken(i) ==
    LET k == ingest[i].key IN
    \/ ingest[i].pc = "flush" /\ artist
    \/ /\ ingest[i].pc = "commit"
       /\ \/ ingest[i].slug = "plain" /\ Taken("plain")
          \/ track[k].audio = "silent"

(* The file of a stored job is not lost: when the task that saw it stored   *)
(* ends, its key is in the catalog, with the audio the job gave, whatever   *)
(* other tasks did; the exceptions are an error and a task overtaken.       *)
IngestLandsOrOvertaken ==
    [][\A i \in Ingests :
         LET k == ingest[i].key IN
         (ingest[i].pc \notin {"idle", "poll"} /\ ingest'[i].pc = "idle" /\ failures' = failures) =>
            \/ track'[k].audio = "playable"
            \/ track'[k].audio = "silent" /\ ~ingest[i].url
            \/ Overtaken(i)]_ingestVars
=============================================================================
