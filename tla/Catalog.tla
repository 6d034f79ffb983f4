------------------------------ MODULE Catalog -------------------------------
(***************************************************************************)
(* The catalog as it is served: rows in PostgreSQL, responses cached in    *)
(* Redis under keys of several families, documents in the search index.    *)
(* A read that misses the cache queries, then fills; an admin's change     *)
(* commits, re-reads its row, deletes the cached families it knows of and  *)
(* sends the document; imports, plays, the background ingest and the       *)
(* passing of time change what should be served and tell nobody, or not    *)
(* everybody.                                                              *)
(*                                                                         *)
(* A behaviour follows one copy of catalog data: the entry of one cache    *)
(* key, or the document of one row in the index.  No copy is made from     *)
(* another.  All the tracks are by one artist, in one album and one        *)
(* editorial playlist; what an edit does to a row, its list of tracks      *)
(* included, is a new version of it.                                       *)
(***************************************************************************)
EXTENDS Naturals, FiniteSets

CONSTANTS
    Tracks,
    Slug,        \* the track the key tracks:{slug} is about
    Readers,     \* requests that read
    Writers,     \* admin requests, imports and reindex jobs
    NoValue,     \* no entry, no document, no response (404)
    MaxChanges   \* bound: changes of the catalog

ASSUME CatalogAssumption ==
    /\ Slug \in Tracks
    /\ IsFiniteSet(Tracks)
    /\ {"artist", "album", "playlist", "listener"} \cap Tracks = {}
    /\ MaxChanges \in Nat
    /\ NoValue \notin Writers
    /\ \A v, a \in 0..MaxChanges : NoValue # <<v, a>>

(* "listener": the plays and favourites of one user.                        *)
Rows == Tracks \cup {"artist", "album", "playlist", "listener"}

Indexed == Tracks \cup {"artist", "album"}

(* published_at: null, in the future or past.                               *)
Row == [pub : {"absent", "none", "future", "past"}, ver : 0..MaxChanges]

VARIABLES
    row,       \* the tables
    followed,  \* the copy that is followed: <<family, name>> or <<"index", row>>
    copy,      \* what Redis or the index holds of it
    reading,   \* per reader: the response it built
    writing,   \* per writer: where it is
    changes,   \* changes made
    excused    \* history: the copy is out of date for a cause that left it so

catalogVars == <<row, followed, copy, reading, writing, changes, excused>>

-----------------------------------------------------------------------------
(* What the queries return *)

Published == {t \in Tracks : row[t].pub = "past"}   \* published_track_filter

Summary(t) == <<t, row[t].ver, row["artist"].ver>>

Summaries == {Summary(t) : t \in Published}

Headed(k, body) == <<row[k].ver, row["artist"].ver, body>>

ListTracks == Summaries
GetTrack == IF Slug \in Published THEN Summary(Slug) ELSE NoValue
ListArtists == <<row["artist"].ver, Cardinality(Published)>>
GetArtist == <<row["artist"].ver, Summaries>>
ListAlbums == IF row["album"].pub = "past" THEN Headed("album", Cardinality(Published)) ELSE << >>
GetAlbum == IF row["album"].pub = "past" THEN Headed("album", Summaries) ELSE NoValue
Browse == Summaries
ListTags == Cardinality(Published)
TracksForTag == <<Cardinality(Published), Summaries>>

(* What routes serve as search is unified_search, with what Spotify adds    *)
(* left out; no route calls search_catalog any more.                        *)
SearchCatalog == <<Summaries, row["artist"].ver>>
UnifiedSearch == <<Summaries, ListArtists>>

(* The published tracks, but not those of the user's plays and favourites.  *)
(* (get_browse is called to fill up and adds nothing.)                      *)
UserRecommendations == <<Summaries, row["listener"].ver>>

(* An editorial playlist is listed once it has a date, past or not.         *)
Listed == row["playlist"].pub \in {"future", "past"}
ListPlaylists == IF Listed THEN <<row["playlist"].ver, Cardinality(Published)>> ELSE << >>
GetPlaylist == IF Listed THEN <<row["playlist"].ver, Summaries>> ELSE NoValue

(* Family and name of each cached response.                                 *)
Keys == {<<"tracks", "list">>, <<"tracks", "slug">>, <<"artists", "list">>,
         <<"artists", "slug">>, <<"albums", "list">>, <<"albums", "slug">>,
         <<"browse", "home">>, <<"tags", "list">>, <<"tags", "tracks">>,
         <<"playlists", "list">>, <<"playlists", "slug">>,
         <<"search", "query">>, <<"search", "unified">>, <<"reco", "user">>}

(* Fault: the playlists are forgotten.                                      *)
FaultPatterns == {"tracks", "albums", "browse", "artists", "tags"}

(* The patterns _invalidate_catalog_cache deletes; search:* and reco:* are  *)
(* not among them.                                                          *)
Patterns == {"tracks", "albums", "browse", "artists", "playlists", "tags"}

Documents == {<<"index", k>> : k \in Indexed}

Dated(pub) == pub \in {"future", "past"}

(* A document shows its row and the name of the artist; a row without a     *)
(* date has none.                                                           *)
Document(k) ==
    IF Dated(row[k].pub) THEN <<row[k].ver, IF k = "artist" THEN 0 ELSE row["artist"].ver>>
    ELSE NoValue

(* What the copy should be.                                                 *)
View ==
    CASE followed = <<"tracks", "list">> -> ListTracks
      [] followed = <<"tracks", "slug">> -> GetTrack
      [] followed = <<"artists", "list">> -> ListArtists
      [] followed = <<"artists", "slug">> -> GetArtist
      [] followed = <<"albums", "list">> -> ListAlbums
      [] followed = <<"albums", "slug">> -> GetAlbum
      [] followed = <<"browse", "home">> -> Browse
      [] followed = <<"tags", "list">> -> ListTags
      [] followed = <<"tags", "tracks">> -> TracksForTag
      [] followed = <<"playlists", "list">> -> ListPlaylists
      [] followed = <<"playlists", "slug">> -> GetPlaylist
      [] followed = <<"search", "query">> -> SearchCatalog
      [] followed = <<"search", "unified">> -> UnifiedSearch
      [] followed = <<"reco", "user">> -> UserRecommendations
      [] OTHER -> Document(followed[2])

-----------------------------------------------------------------------------
Writing == [pc     : {"idle", "refresh", "build", "upsert", "reindex"},
            k      : Rows,                    \* the row it changed or sends
            send   : {"no", "dated", "yes"},  \* whether it sends the document
            job    : BOOLEAN,                 \* a reindex job
            image  : Row,                     \* the row as it re-read it
            artist : 0..MaxChanges,           \* the artist as it read it
            behind : BOOLEAN]                 \* history: what it sends has changed since

Quiet == [pc |-> "idle", k |-> "artist", send |-> "no", job |-> FALSE,
          image |-> [pub |-> "absent", ver |-> 0], artist |-> 0, behind |-> FALSE]

ReindexJob == [Quiet EXCEPT !.pc = "reindex", !.job = TRUE]

Blank == [view |-> NoValue, old |-> FALSE]

CatalogTypeOK ==
    /\ row \in [Rows -> Row]
    /\ followed \in Keys \cup Documents
    /\ DOMAIN reading = Readers
    /\ \A r \in Readers : reading[r].old \in BOOLEAN
    /\ writing \in [Writers -> Writing]
    /\ changes \in 0..MaxChanges
    /\ excused \in BOOLEAN

CatalogInit ==
    /\ row \in [Rows -> [pub : {"absent", "none", "future", "past"}, ver : {0}]]
    /\ row["artist"].pub = "past" /\ row["listener"].pub = "past"
    /\ followed \in Keys \cup Documents
    /\ copy = IF followed \in Documents THEN View ELSE NoValue
    /\ reading = [r \in Readers |-> Blank]
    /\ writing = [w \in Writers |-> Quiet]
    /\ changes = 0
    /\ excused = FALSE

-----------------------------------------------------------------------------
(* Reads *)

(* A miss and the queries of the response, taken as one; a 404 is raised    *)
(* and not cached.                                                          *)
Query(r) ==
    /\ followed \in Keys
    /\ reading[r] = Blank
    /\ copy = NoValue
    /\ View # NoValue
    /\ reading' = [reading EXCEPT ![r].view = View]
    /\ UNCHANGED <<row, followed, copy, writing, changes, excused>>

(* cache_set, however late.                                                 *)
Fill(r) ==
    /\ reading[r] # Blank
    /\ copy' = reading[r].view
    /\ excused' = reading[r].old
    /\ reading' = [reading EXCEPT ![r] = Blank]
    /\ UNCHANGED <<row, followed, writing, changes>>

(* Fault: the search is cached without a TTL.                               *)
FaultExpires ==
    /\ followed \in Keys \ {<<"search", "unified">>}
    /\ copy # NoValue
    /\ copy' = NoValue
    /\ excused' = FALSE
    /\ UNCHANGED <<row, followed, reading, writing, changes>>

(* The TTL every cache_set gives.                                           *)
Expires ==
    /\ followed \in Keys
    /\ copy # NoValue
    /\ copy' = NoValue
    /\ excused' = FALSE
    /\ UNCHANGED <<row, followed, reading, writing, changes>>

-----------------------------------------------------------------------------
(* Changes *)

(* There is something a change of these rows leaves out of date: an entry,  *)
(* whatever it shows, or the document of one of them or, for its name, of   *)
(* a track or album of the artist.                                          *)
Affects(touched) ==
    IF followed \in Keys THEN copy # NoValue
    ELSE followed[2] \in touched \/ ("artist" \in touched /\ copy # NoValue)

(* What a change of `touched' makes of the other parties: a response built  *)
(* before is old, an image read before is behind; w goes on as `next'.      *)
Overtake(w, next, touched) ==
    /\ reading' = [r \in Readers |->
                      IF reading[r] = Blank THEN Blank ELSE [reading[r] EXCEPT !.old = TRUE]]
    /\ writing' = [v \in Writers |->
                      IF v = w THEN next
                      ELSE [writing[v] EXCEPT !.behind = @ \/
                              (/\ writing[v].pc \in {"build", "upsert"}
                               /\ \/ writing[v].k \in touched
                                  \/ "artist" \in touched /\ writing[v].pc = "upsert")]]

(* Writer w commits the rows `new' and goes on as `next'.  `mended': it is  *)
(* going to bring the followed copy up to date.                             *)
Commit(w, next, new, mended) ==
    /\ changes < MaxChanges
    /\ changes' = changes + 1
    /\ row' = [k \in Rows |-> IF k \in DOMAIN new THEN new[k] ELSE row[k]]
    /\ Overtake(w, next, DOMAIN new)
    /\ excused' = (excused \/ (Affects(DOMAIN new) /\ ~mended))
    /\ UNCHANGED <<followed, copy>>

Edited(k, pub) == [pub |-> pub, ver |-> row[k].ver + 1]

Exists(k) == row[k].pub # "absent"

Idling(w) == writing[w].pc = "idle"

(* An admin's edit of row k, alone in its transaction.                      *)
Edit(w, k, pub, send) ==
    /\ Idling(w)
    /\ Commit(w, [Quiet EXCEPT !.pc = "refresh", !.k = k, !.send = send,
                               !.artist = row["artist"].ver],
              [x \in {k} |-> Edited(k, pub)], followed \in Keys \cup {<<"index", k>>})

Dates == {"none", "future", "past"}

(* Also publish_track and unpublish_track, which set the date.              *)
PatchTrack(w, t, pub) == Exists(t) /\ Edit(w, t, pub, "yes")

PatchArtist(w) == Edit(w, "artist", "past", "yes")

PatchPlaylist(w, pub) == Exists("playlist") /\ Edit(w, "playlist", pub, "no")

CreateAlbum(w, pub) == ~Exists("album") /\ Edit(w, "album", pub, "dated")

PatchAlbum(w, pub) == Exists("album") /\ Edit(w, "album", pub, "yes")

(* import_catalog_payload: a date is kept, but every playlist is published; *)
(* it invalidates, and sends nothing.                                       *)
ImportCatalog(w, S, pub) ==
    /\ Idling(w)
    /\ Commit(w, [Quiet EXCEPT !.pc = "refresh", !.k = "playlist"],
              [k \in S |-> Edited(k, IF k = "playlist" \/ ~Dated(row[k].pub) THEN pub
                                     ELSE row[k].pub)],
              followed \in Keys)

(* run_import: what WordPress has published is published here again; no     *)
(* album but a new one is touched.  The job goes on with a reindex and      *)
(* never invalidates.                                                       *)
ImportWp(w, S) ==
    /\ Idling(w)
    /\ "album" \in S => ~Exists("album")
    /\ Commit(w, ReindexJob, [k \in S |-> Edited(k, "past")], FALSE)

(* The ingest of a played track, a new one or the audio of one that is      *)
(* there, and the count of a play: nobody is told.                          *)
Ingest(t) ==
    Commit(NoValue, Quiet,
           [x \in {t} |-> Edited(t, IF Exists(t) THEN row[t].pub ELSE "past")], FALSE)

CountStream(t) ==
    /\ t \in Published
    /\ Commit(NoValue, Quiet, [x \in {t} |-> Edited(t, "past")], FALSE)

(* A play or favourite of the listener, or a play that is 30 days old; only *)
(* the recommendations show it.                                             *)
Hear ==
    /\ followed = <<"reco", "user">>
    /\ Commit(NoValue, Quiet, [x \in {"listener"} |-> Edited("listener", "past")], FALSE)

(* The date of a row comes; its document says nothing of the date.          *)
Released(k) ==
    /\ row[k].pub = "future"
    /\ row' = [row EXCEPT ![k].pub = "past"]
    /\ Overtake(NoValue, Quiet, {})
    /\ excused' = (excused \/ (followed \in Keys /\ copy # NoValue))
    /\ UNCHANGED <<followed, copy, changes>>

-----------------------------------------------------------------------------
(* After the commit *)

(* session.refresh and the deletion of the patterns.  A document that is    *)
(* not followed is sent and forgotten.                                      *)
Refresh(w) ==
    LET me == writing[w]
        image == row[me.k]
        send == me.send = "yes" \/ (me.send = "dated" /\ Dated(image.pub))
    IN
    /\ me.pc = "refresh"
    /\ copy' = IF followed[1] \in Patterns THEN NoValue ELSE copy
    /\ excused' = (excused /\ followed[1] \notin Patterns)
    /\ writing' = [writing EXCEPT ![w] =
                      IF send /\ followed = <<"index", me.k>>
                      THEN [me EXCEPT !.pc = "build", !.image = image] ELSE Quiet]
    /\ UNCHANGED <<row, followed, reading, changes>>

(* The index took what w sent it.                                           *)
Sent(w, document) ==
    /\ copy' = document
    /\ excused' = writing[w].behind
    /\ writing' = [writing EXCEPT ![w] = Quiet]
    /\ UNCHANGED <<row, followed, reading, changes>>

(* Fault: a row without a date is sent like any other.                      *)
FaultUnsend(w) ==
    /\ writing[w].pc = "build"
    /\ ~Dated(writing[w].image.pub)
    /\ Sent(w, <<writing[w].image.ver, row["artist"].ver>>)

(* sync_track, sync_album: what has no date is deleted.                     *)
Unsend(w) ==
    /\ writing[w].pc = "build"
    /\ ~Dated(writing[w].image.pub)
    /\ Sent(w, NoValue)

(* The document takes the artist's name as it is now, or, when the session  *)
(* answers from its identity map, as it was loaded with the row.            *)
Build(w) ==
    /\ writing[w].pc = "build"
    /\ Dated(writing[w].image.pub)
    /\ \E name \in {row["artist"].ver, writing[w].artist} :
        /\ writing[w].k = "artist" => name = row["artist"].ver
        /\ writing' = [writing EXCEPT ![w].pc = "upsert", ![w].artist = name,
                                      ![w].behind = @ \/ name # row["artist"].ver]
    /\ UNCHANGED <<row, followed, copy, reading, changes, excused>>

Upsert(w) ==
    /\ writing[w].pc = "upsert"
    /\ Sent(w, <<writing[w].image.ver, IF writing[w].k = "artist" THEN 0 ELSE writing[w].artist>>)

(* A sync that fails is logged; a request or job that dies does no more.    *)
Fails(w) ==
    /\ writing[w].pc # "idle"
    /\ excused' = (excused \/ (~writing[w].job /\ Affects({writing[w].k})))
    /\ writing' = [writing EXCEPT ![w] = Quiet]
    /\ UNCHANGED <<row, followed, copy, reading, changes>>

Reindex(w) ==
    /\ Idling(w)
    /\ writing' = [writing EXCEPT ![w] = ReindexJob]
    /\ UNCHANGED <<row, followed, copy, reading, changes, excused>>

(* reindex_all reads and sends the rows that are published now, one table   *)
(* after the other, and deletes nothing.                                    *)
ReindexRead(w) ==
    LET k == followed[2] IN
    /\ writing[w].pc = "reindex"
    /\ writing' = [writing EXCEPT ![w] =
                      IF followed \in Documents /\ row[k].pub = "past"
                      THEN [ReindexJob EXCEPT !.pc = "upsert", !.k = k, !.image = row[k],
                                              !.artist = row["artist"].ver]
                      ELSE Quiet]
    /\ UNCHANGED <<row, followed, copy, reading, changes, excused>>

-----------------------------------------------------------------------------
CatalogNext ==
    \/ \E r \in Readers : Query(r) \/ Fill(r)
    \/ Expires
    \/ \E w \in Writers :
        \/ \E pub \in Dates :
            \/ \E t \in Tracks : PatchTrack(w, t, pub)
            \/ PatchPlaylist(w, pub) \/ CreateAlbum(w, pub) \/ PatchAlbum(w, pub)
        \/ PatchArtist(w)
        \/ \E S \in SUBSET (Tracks \cup {"artist", "playlist"}) \ {{}}, pub \in {"future", "past"} :
            ImportCatalog(w, S, pub)
        \/ \E S \in SUBSET (Tracks \cup {"album"}) \ {{}} : ImportWp(w, S)
        \/ Refresh(w) \/ Unsend(w) \/ Build(w) \/ Upsert(w) \/ Fails(w)
        \/ Reindex(w) \/ ReindexRead(w)
    \/ \E t \in Tracks : Ingest(t) \/ CountStream(t)
    \/ Hear
    \/ \E k \in Tracks \cup {"album"} : Released(k)

(* Redis drops an entry when its TTL is over.                               *)
CatalogFairness == WF_catalogVars(Expires)

CatalogSpec == CatalogInit /\ [][CatalogNext]_catalogVars /\ CatalogFairness

-----------------------------------------------------------------------------
(* What the cache serves is what the queries would return, except for known *)
(* causes: searches and recommendations, which nothing invalidates; a       *)
(* writer between its commit and its invalidation, or that died there; a    *)
(* response filled after the change it does not show; a change that tells   *)
(* nobody.                                                                  *)
StaleEntryHasCause ==
    followed \in Keys /\ copy \notin {NoValue, View} =>
        \/ followed[1] \in {"search", "reco"}
        \/ excused
        \/ \E w \in Writers : writing[w].pc = "refresh"

(* The index agrees with the tables on every row, except for known causes:  *)
(* the row's writer has not sent it yet or failed to; a document was sent   *)
(* that another change had overtaken; the artist was renamed; the change    *)
(* came from an import, an ingest or a play and no reindex has passed.      *)
IndexAgreesOrExcused ==
    followed \in Documents /\ copy # View =>
        \/ excused
        \/ \E w \in Writers : ~writing[w].job /\ <<"index", writing[w].k>> = followed
                               /\ writing[w].pc \in {"refresh", "build", "upsert"}

(* When the changes stop, the cache serves the truth for good, whatever     *)
(* went wrong before: late fills, lost invalidations and the families that  *)
(* nothing invalidates.                                                     *)
EventuallyFresh == <>[](followed \in Keys => copy \in {NoValue, View})
=============================================================================
