---------------------------- MODULE CatalogProofs ----------------------------
(***************************************************************************)
(* Proofs about the copies of catalog data (Catalog), and about their      *)
(* composition with the play sessions and the ingest (MCCatalog): for any  *)
(* set of tracks, of readers and of writers, whichever key or document is  *)
(* followed.                                                               *)
(***************************************************************************)
EXTENDS MCCatalog, PlaybackProofs

(* A response that no change has overtaken is what the queries return.      *)
ReadingFits(r) ==
    /\ DOMAIN reading[r] = {"view", "old"}
    /\ reading[r] # Blank => followed \in Keys
    /\ ~reading[r].old => reading[r].view \in {NoValue, View}

(* What a writer holds of its row and of the artist is current unless it is *)
(* behind.                                                                  *)
WritingFits(w) ==
    LET me == writing[w] IN
    /\ me.pc = "refresh" => ~me.job
    /\ me.pc \in {"build", "upsert"} => followed = <<"index", me.k>>
    /\ me.pc \in {"build", "upsert"} /\ ~me.behind =>
          me.image.ver = row[me.k].ver /\ (Dated(me.image.pub) <=> Dated(row[me.k].pub))
    /\ me.pc = "upsert" =>
          Dated(me.image.pub) /\ (~me.behind => me.artist = row["artist"].ver)

(* Writer w is going to bring the document that is followed up to date: one *)
(* that sends only a row with a date has left none in the index.            *)
Sending(w) ==
    LET me == writing[w] IN
    /\ ~me.job
    /\ <<"index", me.k>> = followed
    /\ \/ me.pc \in {"build", "upsert"}
       \/ me.pc = "refresh" /\ (me.send = "yes" \/ (me.send = "dated" /\ copy = NoValue))

IndexFits == followed \in Documents /\ copy # View => excused \/ \E w \in Writers : Sending(w)

CatalogInv ==
    /\ CatalogTypeOK
    /\ \A k \in Rows : row[k].ver <= changes
    /\ \A r \in Readers : ReadingFits(r)
    /\ \A w \in Writers : WritingFits(w)
    /\ StaleEntryHasCause
    /\ IndexFits
-----------------------------------------------------------------------------
(* Keys, documents and what they show *)

LEMMA NamesApart ==
    /\ {"artist", "album", "playlist", "listener"} \subseteq Rows
    /\ Indexed \subseteq Rows
    /\ \A k \in Rows : <<"index", k>> \notin Keys
    /\ \A c \in Keys : c \notin Documents /\ c[1] # "index"
                      /\ (c[1] \notin Patterns => c[1] \in {"search", "reco"})
    /\ \A c \in Documents : /\ c[1] = "index" /\ c[2] \in Indexed /\ c = <<"index", c[2]>>
                           /\ c \notin Keys /\ c[1] \notin Patterns
  BY DEF Rows, Indexed, Keys, Documents, Patterns

LEMMA ViewOfDocument ==
    ASSUME followed \in Documents
    PROVE  View = Document(followed[2])
<1>1. followed \notin Keys
  BY NamesApart
<1> QED
  BY <1>1 DEF View, Keys

LEMMA ViewOfDocumentNext ==
    ASSUME followed \in Documents, followed' = followed
    PROVE  View' = Document(followed[2])'
<1>1. followed' \notin Keys
  BY NamesApart
<1> QED
  BY <1>1 DEF View, Keys

(* What a step that leaves the tables alone does not change.                *)
LEMMA SameRows ==
    ASSUME UNCHANGED <<row, followed>>
    PROVE  View' = View
  BY DEF View, ListTracks, GetTrack, ListArtists, GetArtist, ListAlbums, GetAlbum, Browse,
         ListTags, TracksForTag, SearchCatalog, ListPlaylists, GetPlaylist, Document,
         Summaries, Summary, Published, Headed, Listed

LEMMA QuietFits ==
    /\ Quiet \in Writing /\ Quiet.pc = "idle" /\ ~Quiet.job
    /\ ReindexJob \in Writing /\ ReindexJob.pc = "reindex"
    /\ DOMAIN Blank = {"view", "old"} /\ Blank.view = NoValue /\ Blank.old = FALSE
<1>1. /\ "artist" \in Rows /\ 0 \in 0..MaxChanges
      /\ [pub |-> "absent", ver |-> 0] \in Row
  BY CatalogAssumption DEF Rows, Row
<1>2. Quiet \in Writing /\ Quiet.pc = "idle" /\ ~Quiet.job
  BY <1>1 DEF Quiet, Writing
<1>3. ReindexJob \in Writing /\ ReindexJob.pc = "reindex"
  BY <1>2 DEF ReindexJob, Writing
<1> QED
  BY <1>2, <1>3 DEF Blank

LEMMA CatalogInitInv == CatalogInit => CatalogInv
<1> SUFFICES ASSUME CatalogInit PROVE CatalogInv
  OBVIOUS
<1>1. row \in [Rows -> Row] /\ \A k \in Rows : row[k].ver <= changes
  BY CatalogAssumption DEF CatalogInit, Row
<1>2. CatalogTypeOK
  <2>1. /\ DOMAIN reading = Readers
        /\ \A r \in Readers : reading[r].old \in BOOLEAN
    BY DEF CatalogInit, Blank
  <2>2. writing \in [Writers -> Writing]
    BY QuietFits DEF CatalogInit
  <2>3. changes \in 0..MaxChanges /\ excused \in BOOLEAN
    <3>1. changes = 0 /\ excused = FALSE
      BY DEF CatalogInit
    <3>2. 0 \in 0..MaxChanges
      BY CatalogAssumption
    <3> QED
      BY <3>1, <3>2
  <2>4. followed \in Keys \cup Documents
    BY DEF CatalogInit
  <2> QED
    BY <1>1, <2>1, <2>2, <2>3, <2>4 DEF CatalogTypeOK
<1>3. \A r \in Readers : ReadingFits(r)
  BY QuietFits DEF CatalogInit, ReadingFits
<1>4. \A w \in Writers : WritingFits(w)
  BY QuietFits DEF CatalogInit, WritingFits
<1>5. StaleEntryHasCause /\ IndexFits
  BY NamesApart DEF CatalogInit, StaleEntryHasCause, IndexFits
<1> QED
  BY <1>1, <1>2, <1>3, <1>4, <1>5 DEF CatalogInv

-----------------------------------------------------------------------------
(* Reads *)

LEMMA ReadStep ==
    ASSUME CatalogInv, (\E r \in Readers : Query(r) \/ Fill(r)) \/ Expires
    PROVE  CatalogInv'
<1>0. /\ CatalogTypeOK /\ StaleEntryHasCause /\ IndexFits
      /\ \A k \in Rows : row[k].ver <= changes
      /\ \A r \in Readers : ReadingFits(r)
      /\ \A w \in Writers : WritingFits(w)
  BY DEF CatalogInv
<1>1. UNCHANGED <<row, followed, writing, changes>> /\ followed \in Keys
  BY <1>0 DEF Query, Fill, Expires, ReadingFits
<1>2. View' = View
  BY <1>1, SameRows
<1>3. \A w \in Writers : WritingFits(w)'
  BY <1>0, <1>1 DEF WritingFits
<1>4. IndexFits'
  BY <1>1, NamesApart DEF IndexFits
<1>5. ASSUME NEW r \in Readers, NEW q, reading' = [reading EXCEPT ![r] = q],
             DOMAIN q = {"view", "old"}, q.old \in BOOLEAN,
             ~q.old => q.view \in {NoValue, View}
      PROVE  (\A x \in Readers : ReadingFits(x)') /\ DOMAIN reading' = Readers
             /\ \A x \in Readers : reading'[x].old \in BOOLEAN
  <2>1. reading'[r] = q /\ \A x \in Readers : x # r => reading'[x] = reading[x]
    BY <1>0, <1>5 DEF CatalogTypeOK
  <2>2. DOMAIN reading' = Readers /\ \A x \in Readers : reading'[x].old \in BOOLEAN
    BY <1>0, <1>5, <2>1 DEF CatalogTypeOK
  <2>3. ASSUME NEW x \in Readers PROVE ReadingFits(x)'
    BY <1>0, <1>1, <1>2, <1>5, <2>1 DEF ReadingFits
  <2> QED
    BY <2>2, <2>3
<1>6. ASSUME NEW r \in Readers, Query(r)
      PROVE  CatalogInv'
  <2> DEFINE q == [reading[r] EXCEPT !.view = View]
  <2>1. /\ reading' = [reading EXCEPT ![r] = q]
        /\ UNCHANGED <<copy, excused>> /\ reading[r] = Blank
    BY <1>0, <1>6 DEF Query, CatalogTypeOK
  <2>2. DOMAIN q = {"view", "old"} /\ q.view = View /\ q.old = FALSE
    BY <2>1, QuietFits
  <2> HIDE DEF q
  <2>3. /\ (\A x \in Readers : ReadingFits(x)') /\ DOMAIN reading' = Readers
        /\ \A x \in Readers : reading'[x].old \in BOOLEAN
    BY <1>5, <2>1, <2>2
  <2>4. CatalogTypeOK'
    BY <1>0, <1>1, <2>1, <2>3 DEF CatalogTypeOK
  <2>5. StaleEntryHasCause'
    BY <1>0, <1>1, <1>2, <2>1 DEF StaleEntryHasCause
  <2> QED
    BY <1>0, <1>1, <1>3, <1>4, <2>3, <2>4, <2>5 DEF CatalogInv
<1>7. ASSUME NEW r \in Readers, Fill(r)
      PROVE  CatalogInv'
  <2>1. /\ reading' = [reading EXCEPT ![r] = Blank]
        /\ copy' = reading[r].view /\ excused' = reading[r].old
    BY <1>7 DEF Fill
  <2>2. Blank.old \in BOOLEAN
    BY DEF Blank
  <2>3. /\ (\A x \in Readers : ReadingFits(x)') /\ DOMAIN reading' = Readers
        /\ \A x \in Readers : reading'[x].old \in BOOLEAN
    BY <1>5, <2>1, <2>2, QuietFits
  <2>4. CatalogTypeOK'
    BY <1>0, <1>1, <2>1, <2>3 DEF CatalogTypeOK
  <2>5. StaleEntryHasCause'
    BY <1>0, <1>1, <1>2, <2>1 DEF StaleEntryHasCause, ReadingFits
  <2> QED
    BY <1>0, <1>1, <1>3, <1>4, <2>3, <2>4, <2>5 DEF CatalogInv
<1>8. CASE Expires
  <2>1. copy' = NoValue /\ excused' = FALSE /\ reading' = reading
    BY <1>8 DEF Expires
  <2>2. CatalogTypeOK'
    BY <1>0, <1>1, <2>1 DEF CatalogTypeOK
  <2>3. \A x \in Readers : ReadingFits(x)'
    BY <1>0, <1>1, <1>2, <2>1 DEF ReadingFits
  <2>4. StaleEntryHasCause'
    BY <2>1 DEF StaleEntryHasCause
  <2> QED
    BY <1>0, <1>1, <1>3, <1>4, <2>2, <2>3, <2>4 DEF CatalogInv
<1> QED
  BY <1>6, <1>7, <1>8

-----------------------------------------------------------------------------
(* Changes *)

(* What a change makes of the other parties; w goes on as `next'.           *)
LEMMA OvertakeFits ==
    ASSUME CatalogInv, NEW w, NEW next \in Writing, NEW touched,
           Overtake(w, next, touched), followed' = followed,
           next.pc \in {"idle", "refresh", "reindex"}, next.pc = "refresh" => ~next.job,
           \A k \in Rows \ touched :
               row'[k].ver = row[k].ver /\ (Dated(row'[k].pub) <=> Dated(row[k].pub))
    PROVE  /\ DOMAIN reading' = Readers
           /\ \A r \in Readers : reading'[r].old \in BOOLEAN
           /\ \A r \in Readers : ReadingFits(r)'
           /\ writing' \in [Writers -> Writing]
           /\ \A v \in Writers : WritingFits(v)'
           /\ w \in Writers => writing'[w] = next
           /\ \A v \in Writers \ {w} :
                  /\ writing'[v].pc = writing[v].pc /\ writing'[v].k = writing[v].k
                  /\ writing'[v].job = writing[v].job /\ writing'[v].send = writing[v].send
<1>0. /\ CatalogTypeOK
      /\ \A r \in Readers : ReadingFits(r)
      /\ \A v \in Writers : WritingFits(v)
  BY DEF CatalogInv
<1> DEFINE late(v) == writing[v].behind \/
                        (/\ writing[v].pc \in {"build", "upsert"}
                         /\ \/ writing[v].k \in touched
                            \/ "artist" \in touched /\ writing[v].pc = "upsert")
<1>1. /\ reading' = [r \in Readers |->
                        IF reading[r] = Blank THEN Blank ELSE [reading[r] EXCEPT !.old = TRUE]]
      /\ writing' = [v \in Writers |->
                        IF v = w THEN next ELSE [writing[v] EXCEPT !.behind = late(v)]]
  BY <1>0 DEF Overtake, CatalogTypeOK, Writing
<1>2. ASSUME NEW r \in Readers
      PROVE  reading'[r].old \in BOOLEAN /\ ReadingFits(r)'
  <2>1. CASE reading[r] = Blank
    BY <1>1, <2>1, QuietFits DEF ReadingFits
  <2>2. CASE reading[r] # Blank
    <3>1. DOMAIN reading[r] = {"view", "old"} /\ followed \in Keys
      BY <1>0, <2>2 DEF ReadingFits
    <3>2. reading'[r] = [reading[r] EXCEPT !.old = TRUE]
      BY <1>1, <2>2
    <3>3. DOMAIN reading'[r] = {"view", "old"} /\ reading'[r].old = TRUE
      BY <3>1, <3>2
    <3> QED
      BY <3>1, <3>3 DEF ReadingFits
  <2> QED
    BY <2>1, <2>2
<1>3. ASSUME NEW v \in Writers, v # w
      PROVE  /\ writing'[v] \in Writing
             /\ writing'[v].behind = late(v)
             /\ writing'[v].pc = writing[v].pc /\ writing'[v].k = writing[v].k
             /\ writing'[v].job = writing[v].job /\ writing'[v].send = writing[v].send
             /\ writing'[v].image = writing[v].image /\ writing'[v].artist = writing[v].artist
  <2>1. late(v) \in BOOLEAN /\ writing[v] \in Writing
    BY <1>0 DEF CatalogTypeOK, Writing
  <2>2. writing'[v] = [writing[v] EXCEPT !.behind = late(v)]
    BY <1>1, <1>3
  <2> HIDE DEF late
  <2> QED
    BY <2>1, <2>2 DEF Writing
<1>4. ASSUME NEW v \in Writers, v # w
      PROVE  WritingFits(v)'
  <2> DEFINE me == writing[v]
  <2>1. WritingFits(v) /\ me \in Writing
    BY <1>0 DEF CatalogTypeOK
  <2>2. me.k \in Rows /\ "artist" \in Rows
    BY <2>1, NamesApart DEF Writing
  <2>3. ASSUME me.pc \in {"build", "upsert"}, ~late(v)
        PROVE  /\ ~me.behind /\ row'[me.k].ver = row[me.k].ver
               /\ Dated(row'[me.k].pub) <=> Dated(row[me.k].pub)
               /\ me.pc = "upsert" => row'["artist"].ver = row["artist"].ver
    BY <2>2, <2>3
  <2>4. /\ me.pc = "refresh" => ~me.job
        /\ me.pc \in {"build", "upsert"} => followed = <<"index", me.k>>
        /\ me.pc \in {"build", "upsert"} /\ ~me.behind =>
              me.image.ver = row[me.k].ver /\ (Dated(me.image.pub) <=> Dated(row[me.k].pub))
        /\ me.pc = "upsert" =>
              Dated(me.image.pub) /\ (~me.behind => me.artist = row["artist"].ver)
    BY <2>1 DEF WritingFits
  <2>5. /\ me.pc \in {"build", "upsert"} /\ ~late(v) =>
              me.image.ver = row'[me.k].ver /\ (Dated(me.image.pub) <=> Dated(row'[me.k].pub))
        /\ me.pc = "upsert" /\ ~late(v) => me.artist = row'["artist"].ver
    BY <2>3, <2>4
  <2> HIDE DEF late, me
  <2>6. /\ writing'[v].behind = late(v)
        /\ writing'[v].pc = me.pc /\ writing'[v].k = me.k /\ writing'[v].job = me.job
        /\ writing'[v].image = me.image /\ writing'[v].artist = me.artist
    BY <1>3, <1>4 DEF me
  <2> QED
    BY <2>4, <2>5, <2>6 DEF WritingFits
<1>5. ASSUME NEW v \in Writers, v = w
      PROVE  writing'[v] = next /\ WritingFits(v)'
  <2>1. writing'[v] = next
    BY <1>1, <1>5
  <2> QED
    BY <2>1 DEF WritingFits
<1>6. writing' \in [Writers -> Writing]
  <2>1. \A v \in Writers : writing'[v] \in Writing
    BY <1>3, <1>5
  <2> QED
    BY <1>1, <2>1
<1>7. DOMAIN reading' = Readers
  BY <1>1
<1> HIDE DEF late
<1> QED
  BY <1>2, <1>3, <1>4, <1>5, <1>6, <1>7

(* Writer w commits `new'.                                                  *)
LEMMA CommitStep ==
    ASSUME CatalogInv, NEW w \in Writers \cup {NoValue}, NEW next \in Writing, NEW new,
           NEW mended \in BOOLEAN, Commit(w, next, new, mended),
           w \in Writers => Idling(w),
           next.pc \in {"idle", "refresh", "reindex"}, next.pc = "refresh" => ~next.job,
           DOMAIN new \subseteq Rows,
           \A k \in DOMAIN new :
               \E pub \in {"absent", "none", "future", "past"} : new[k] = Edited(k, pub),
           mended => w \in Writers /\ next.pc = "refresh",
           mended /\ followed \in Documents =>
               /\ <<"index", next.k>> = followed
               /\ next.send = "yes" \/ (next.send = "dated" /\ ~Dated(row[next.k].pub))
    PROVE  CatalogInv'
<1> DEFINE touched == DOMAIN new
<1>0. /\ CatalogTypeOK /\ StaleEntryHasCause /\ IndexFits
      /\ \A k \in Rows : row[k].ver <= changes
  BY DEF CatalogInv
<1>1. /\ changes < MaxChanges /\ changes' = changes + 1
      /\ row' = [k \in Rows |-> IF k \in touched THEN new[k] ELSE row[k]]
      /\ Overtake(w, next, touched)
      /\ excused' = (excused \/ (Affects(touched) /\ ~mended))
      /\ UNCHANGED <<followed, copy>>
  BY DEF Commit
<1>2. changes \in Nat /\ changes + 1 \in 0..MaxChanges /\ MaxChanges \in Nat
  BY <1>0, <1>1, CatalogAssumption DEF CatalogTypeOK
<1>3. ASSUME NEW k \in Rows
      PROVE  row'[k] \in Row /\ row'[k].ver <= changes' /\ (k \notin touched => row'[k] = row[k])
  <2>1. row[k] \in Row /\ row[k].ver <= changes
    BY <1>0 DEF CatalogTypeOK
  <2>2. CASE k \in touched
    <3>1. PICK pub \in {"absent", "none", "future", "past"} : new[k] = Edited(k, pub)
      BY <2>2
    <3>2. row'[k] = [pub |-> pub, ver |-> row[k].ver + 1]
      BY <1>1, <2>2, <3>1 DEF Edited
    <3>3. row[k].ver \in Nat /\ row[k].ver + 1 <= changes + 1 /\ row[k].ver + 1 \in 0..MaxChanges
      BY <1>2, <2>1 DEF Row
    <3> QED
      BY <1>1, <2>2, <3>2, <3>3 DEF Row
  <2>3. CASE k \notin touched
    <3>1. row'[k] = row[k]
      BY <1>1, <2>3
    <3>2. row[k].ver \in Nat
      BY <2>1 DEF Row
    <3> QED
      BY <1>1, <1>2, <2>1, <3>1, <3>2
  <2> QED
    BY <2>2, <2>3
<1>4. row' \in [Rows -> Row]
  BY <1>1, <1>3
<1>5. /\ DOMAIN reading' = Readers
      /\ \A r \in Readers : reading'[r].old \in BOOLEAN
      /\ \A r \in Readers : ReadingFits(r)'
      /\ writing' \in [Writers -> Writing]
      /\ \A v \in Writers : WritingFits(v)'
      /\ w \in Writers => writing'[w] = next
      /\ \A v \in Writers \ {w} :
             /\ writing'[v].pc = writing[v].pc /\ writing'[v].k = writing[v].k
             /\ writing'[v].job = writing[v].job /\ writing'[v].send = writing[v].send
  <2>1. \A k \in Rows \ touched :
           row'[k].ver = row[k].ver /\ (Dated(row'[k].pub) <=> Dated(row[k].pub))
    BY <1>3
  <2>2. Overtake(w, next, touched) /\ followed' = followed
    BY <1>1
  <2> HIDE DEF touched
  <2> QED
    BY <2>1, <2>2, OvertakeFits
<1>6. CatalogTypeOK'
  <2>1. excused' \in BOOLEAN
    BY <1>0, <1>1 DEF CatalogTypeOK
  <2> QED
    BY <1>0, <1>1, <1>2, <1>4, <1>5, <2>1 DEF CatalogTypeOK
<1>7. \A v \in Writers : writing[v].pc # "idle" => v # w
  BY DEF Idling
<1>8. StaleEntryHasCause'
  <2> SUFFICES ASSUME followed \in Keys, copy \notin {NoValue, View'},
                      followed[1] \notin {"search", "reco"}, ~excused'
               PROVE  \E v \in Writers : writing'[v].pc = "refresh"
    BY <1>1 DEF StaleEntryHasCause
  <2>1. Affects(touched)
    BY DEF Affects
  <2>2. mended
    BY <1>1, <2>1
  <2> QED
    BY <1>5, <2>2
<1>9. IndexFits'
  <2> SUFFICES ASSUME followed \in Documents, copy # View', ~excused'
               PROVE  \E v \in Writers : Sending(v)'
    BY <1>1 DEF IndexFits
  <2> DEFINE k == followed[2]
  <2>1. /\ k \in Rows /\ followed = <<"index", k>> /\ followed \notin Keys
        /\ View = Document(k)
        /\ View' = IF Dated(row'[k].pub)
                   THEN <<row'[k].ver, IF k = "artist" THEN 0 ELSE row'["artist"].ver>>
                   ELSE NoValue
    BY <1>1, NamesApart, ViewOfDocument, ViewOfDocumentNext DEF Document
  <2>2. CASE copy # View
    <3>1. PICK v \in Writers : Sending(v)
      BY <1>0, <1>1, <2>2 DEF IndexFits
    <3>2. v # w
      BY <1>7, <3>1 DEF Sending
    <3> QED
      BY <1>1, <1>5, <3>1, <3>2 DEF Sending
  <2>3. CASE copy = View /\ mended
    <3>1. w \in Writers /\ writing'[w] = next /\ next.k = k /\ <<"index", next.k>> = followed
      BY <1>5, <2>1, <2>3
    <3>2. next.send = "yes" \/ (next.send = "dated" /\ copy = NoValue)
      BY <2>1, <2>3, <3>1 DEF Document
    <3> QED
      BY <1>1, <2>3, <3>1, <3>2 DEF Sending
  <2>4. CASE copy = View /\ ~mended
    <3>1. k \notin touched /\ ("artist" \in touched => copy = NoValue)
      BY <1>1, <2>1, <2>4 DEF Affects
    <3>2. row'[k] = row[k] /\ ("artist" \notin touched => row'["artist"] = row["artist"])
      BY <1>3, <2>1, <3>1, NamesApart
    <3>3. CASE "artist" \notin touched
      <4>1. View' = View
        BY <2>1, <3>2, <3>3 DEF Document
      <4> QED
        BY <2>4, <4>1
    <3>4. CASE "artist" \in touched
      <4>1. Document(k) = NoValue
        BY <2>1, <2>4, <3>1, <3>4
      <4>2. row[k].ver \in 0..MaxChanges /\ row["artist"].ver \in 0..MaxChanges /\ 0 \in 0..MaxChanges
        BY <1>0, <1>2, <2>1, NamesApart DEF CatalogTypeOK, Row
      <4>3. ~Dated(row[k].pub)
        BY <4>1, <4>2, CatalogAssumption DEF Document
      <4>4. View' = NoValue
        BY <2>1, <3>2, <4>3 DEF Document
      <4> QED
        BY <3>1, <3>4, <4>4
    <3> QED
      BY <3>3, <3>4
  <2> QED
    BY <2>2, <2>3, <2>4
<1>10. (\A k \in Rows : row[k].ver <= changes)'
  BY <1>3
<1> HIDE DEF touched
<1> QED
  BY <1>5, <1>6, <1>8, <1>9, <1>10 DEF CatalogInv

LEMMA EditStep ==
    ASSUME CatalogInv, NEW w \in Writers, NEW k \in Rows,
           NEW pub \in {"absent", "none", "future", "past"}, NEW send \in {"no", "dated", "yes"},
           Edit(w, k, pub, send),
           send = "no" => k = "playlist", send = "dated" => row[k].pub = "absent"
    PROVE  CatalogInv'
<1> DEFINE next == [Quiet EXCEPT !.pc = "refresh", !.k = k, !.send = send,
                                 !.artist = row["artist"].ver]
           new == [x \in {k} |-> Edited(k, pub)]
           mended == followed \in Keys \cup {<<"index", k>>}
<1>1. Idling(w) /\ Commit(w, next, new, mended)
  BY DEF Edit
<1>0. row["artist"].ver \in 0..MaxChanges
  BY NamesApart DEF CatalogInv, CatalogTypeOK, Row
<1>2. /\ next \in Writing /\ next.pc = "refresh" /\ ~next.job
      /\ next.k = k /\ next.send = send
  BY <1>0, QuietFits DEF Writing
<1>3. DOMAIN new \subseteq Rows /\ \A x \in DOMAIN new : new[x] = Edited(x, pub)
  OBVIOUS
<1>4. mended /\ followed \in Documents =>
         /\ <<"index", k>> = followed
         /\ send = "yes" \/ (send = "dated" /\ ~Dated(row[k].pub))
  <2> SUFFICES ASSUME mended, followed \in Documents
               PROVE  /\ <<"index", k>> = followed
                      /\ send = "yes" \/ (send = "dated" /\ ~Dated(row[k].pub))
    OBVIOUS
  <2>1. followed = <<"index", k>> /\ followed[2] \in Indexed
    BY NamesApart
  <2>2. k \in Indexed
    BY <2>1
  <2>3. "playlist" \notin Indexed
    BY CatalogAssumption DEF Indexed
  <2>4. send # "no"
    BY <2>2, <2>3
  <2>5. send = "dated" => ~Dated(row[k].pub)
    BY DEF Dated
  <2> QED
    BY <2>1, <2>4, <2>5
<1>5. mended \in BOOLEAN
  OBVIOUS
<1>6. mended /\ followed \in Documents =>
         /\ <<"index", next.k>> = followed
         /\ next.send = "yes" \/ (next.send = "dated" /\ ~Dated(row[next.k].pub))
  BY <1>2, <1>4
<1>7. \A x \in DOMAIN new :
         \E p \in {"absent", "none", "future", "past"} : new[x] = Edited(x, p)
  BY <1>3
<1> HIDE DEF next, new, mended
<1> QED
  BY <1>1, <1>2, <1>3, <1>5, <1>6, <1>7, CommitStep

LEMMA ChangeStep ==
    ASSUME CatalogInv,
           \/ \E w \in Writers :
               \/ \E pub \in Dates :
                   \/ \E t \in Tracks : PatchTrack(w, t, pub)
                   \/ PatchPlaylist(w, pub) \/ CreateAlbum(w, pub) \/ PatchAlbum(w, pub)
               \/ PatchArtist(w)
               \/ \E S \in SUBSET (Tracks \cup {"artist", "playlist"}) \ {{}},
                     pub \in {"future", "past"} : ImportCatalog(w, S, pub)
               \/ \E S \in SUBSET (Tracks \cup {"album"}) \ {{}} : ImportWp(w, S)
           \/ \E t \in Tracks : Ingest(t) \/ CountStream(t)
           \/ Hear
    PROVE  CatalogInv'
<1>0. Tracks \subseteq Rows /\ "listener" \in Rows /\ Dates \subseteq {"absent", "none", "future", "past"}
      /\ "playlist" \notin Indexed
      /\ \A k \in Rows : row[k].pub \in {"absent", "none", "future", "past"}
  BY CatalogAssumption DEF Rows, Dates, Indexed, CatalogInv, CatalogTypeOK, Row
<1>1. ASSUME NEW w \in Writers, NEW pub \in Dates, NEW t \in Tracks, PatchTrack(w, t, pub)
      PROVE  CatalogInv'
  BY <1>0, <1>1, EditStep DEF PatchTrack
<1>2. ASSUME NEW w \in Writers, NEW pub \in Dates,
             PatchPlaylist(w, pub) \/ CreateAlbum(w, pub) \/ PatchAlbum(w, pub)
      PROVE  CatalogInv'
  <2>1. CASE PatchPlaylist(w, pub)
    BY <1>0, <2>1, EditStep, NamesApart DEF PatchPlaylist
  <2>2. CASE CreateAlbum(w, pub)
    BY <1>0, <2>2, EditStep, NamesApart DEF CreateAlbum, Exists
  <2>3. CASE PatchAlbum(w, pub)
    BY <1>0, <2>3, EditStep, NamesApart DEF PatchAlbum
  <2> QED
    BY <1>2, <2>1, <2>2, <2>3
<1>3. ASSUME NEW w \in Writers, PatchArtist(w)
      PROVE  CatalogInv'
  BY <1>3, EditStep, NamesApart DEF PatchArtist
<1>4. ASSUME NEW w \in Writers, NEW S \in SUBSET (Tracks \cup {"artist", "playlist"}),
             NEW pub \in {"future", "past"}, ImportCatalog(w, S, pub)
      PROVE  CatalogInv'
  <2> DEFINE next == [Quiet EXCEPT !.pc = "refresh", !.k = "playlist"]
             new == [k \in S |-> Edited(k, IF k = "playlist" \/ ~Dated(row[k].pub) THEN pub
                                           ELSE row[k].pub)]
             mended == followed \in Keys
  <2>1. Idling(w) /\ Commit(w, next, new, mended)
    BY <1>4 DEF ImportCatalog
  <2>2. next \in Writing /\ next.pc = "refresh" /\ ~next.job
    BY QuietFits, NamesApart DEF Writing
  <2>3. S \subseteq Rows /\ DOMAIN new = S
    BY <1>0, NamesApart
  <2>4. ASSUME NEW k \in S
        PROVE  \E p \in {"absent", "none", "future", "past"} : new[k] = Edited(k, p)
    BY <1>0, <2>3
  <2>5. mended \in BOOLEAN /\ ~(mended /\ followed \in Documents)
    BY NamesApart
  <2> HIDE DEF next, new, mended
  <2> QED
    BY <2>1, <2>2, <2>3, <2>4, <2>5, CommitStep
<1>5. ASSUME NEW w \in Writers, NEW S \in SUBSET (Tracks \cup {"album"}), ImportWp(w, S)
      PROVE  CatalogInv'
  <2> DEFINE new == [k \in S |-> Edited(k, "past")]
             mended == FALSE
  <2>1. Idling(w) /\ Commit(w, ReindexJob, new, mended)
    BY <1>5 DEF ImportWp
  <2>2. DOMAIN new \subseteq Rows
    BY DEF Rows
  <2>3. \A k \in DOMAIN new :
           \E p \in {"absent", "none", "future", "past"} : new[k] = Edited(k, p)
    OBVIOUS
  <2>4. mended \in BOOLEAN /\ ~mended
    OBVIOUS
  <2> HIDE DEF new, mended
  <2> QED
    BY <2>1, <2>2, <2>3, <2>4, QuietFits, CommitStep
<1>6. ASSUME NEW t \in Rows, NEW pub \in {"absent", "none", "future", "past"},
             Commit(NoValue, Quiet, [x \in {t} |-> Edited(t, pub)], FALSE)
      PROVE  CatalogInv'
  <2> DEFINE new == [x \in {t} |-> Edited(t, pub)]
             mended == FALSE
  <2>1. Commit(NoValue, Quiet, new, mended)
    BY <1>6
  <2>2. DOMAIN new \subseteq Rows
    BY <1>0
  <2>3. \A k \in DOMAIN new :
           \E p \in {"absent", "none", "future", "past"} : new[k] = Edited(k, p)
    OBVIOUS
  <2>4. mended \in BOOLEAN /\ ~mended
    OBVIOUS
  <2>5. NoValue \notin Writers
    BY CatalogAssumption
  <2> HIDE DEF new, mended
  <2> QED
    BY <2>1, <2>2, <2>3, <2>4, <2>5, QuietFits, CommitStep
<1>7. ASSUME NEW t \in Tracks, Ingest(t) \/ CountStream(t)
      PROVE  CatalogInv'
  <2>1. CASE Ingest(t)
    <3> DEFINE pub == IF Exists(t) THEN row[t].pub ELSE "past"
    <3>1. t \in Rows /\ pub \in {"absent", "none", "future", "past"}
      BY <1>0
    <3>2. Commit(NoValue, Quiet, [x \in {t} |-> Edited(t, pub)], FALSE)
      BY <2>1 DEF Ingest
    <3> HIDE DEF pub
    <3> QED
      BY <1>6, <3>1, <3>2
  <2>2. CASE CountStream(t)
    <3>1. t \in Rows /\ Commit(NoValue, Quiet, [x \in {t} |-> Edited(t, "past")], FALSE)
      BY <1>0, <2>2 DEF CountStream
    <3> QED
      BY <1>6, <3>1
  <2> QED
    BY <1>7, <2>1, <2>2
<1>8. ASSUME Hear
      PROVE  CatalogInv'
  BY <1>0, <1>6, <1>8 DEF Hear
<1> QED
  BY <1>1, <1>2, <1>3, <1>4, <1>5, <1>7, <1>8

(* A date comes: the documents do not tell.                                 *)
LEMMA ReleasedStep ==
    ASSUME CatalogInv, NEW k \in Rows, Released(k)
    PROVE  CatalogInv'
<1>0. /\ CatalogTypeOK /\ StaleEntryHasCause /\ IndexFits
      /\ \A x \in Rows : row[x].ver <= changes
  BY DEF CatalogInv
<1>1. /\ row[k].pub = "future" /\ row' = [row EXCEPT ![k].pub = "past"]
      /\ Overtake(NoValue, Quiet, {})
      /\ excused' = (excused \/ (followed \in Keys /\ copy # NoValue))
      /\ UNCHANGED <<followed, copy, changes>>
  BY DEF Released
<1>2. /\ \A x \in Rows :
            row'[x].ver = row[x].ver /\ (Dated(row'[x].pub) <=> Dated(row[x].pub))
      /\ row' \in [Rows -> Row]
  <2>1. row[k] \in Row /\ row \in [Rows -> Row]
    BY <1>0 DEF CatalogTypeOK
  <2>2. [row[k] EXCEPT !.pub = "past"] \in Row
    BY <2>1 DEF Row
  <2>3. row' = [row EXCEPT ![k] = [row[k] EXCEPT !.pub = "past"]]
    BY <1>1, <2>1
  <2>4. [row[k] EXCEPT !.pub = "past"].ver = row[k].ver /\ [row[k] EXCEPT !.pub = "past"].pub = "past"
    BY <2>1 DEF Row
  <2>5. row'[k].ver = row[k].ver /\ row'[k].pub = "past" /\ \A x \in Rows : x # k => row'[x] = row[x]
    BY <2>1, <2>3, <2>4
  <2>6. row' \in [Rows -> Row]
    BY <2>1, <2>2, <2>3
  <2> QED
    BY <1>1, <2>5, <2>6 DEF Dated
<1>3. /\ DOMAIN reading' = Readers
      /\ \A r \in Readers : reading'[r].old \in BOOLEAN
      /\ \A r \in Readers : ReadingFits(r)'
      /\ writing' \in [Writers -> Writing]
      /\ \A v \in Writers : WritingFits(v)'
      /\ \A v \in Writers \ {NoValue} :
             /\ writing'[v].pc = writing[v].pc /\ writing'[v].k = writing[v].k
             /\ writing'[v].job = writing[v].job /\ writing'[v].send = writing[v].send
  <2> DEFINE touched == {}
  <2>1. \A x \in Rows \ touched :
           row'[x].ver = row[x].ver /\ (Dated(row'[x].pub) <=> Dated(row[x].pub))
    BY <1>2
  <2>2. Overtake(NoValue, Quiet, touched) /\ followed' = followed
    BY <1>1
  <2> HIDE DEF touched
  <2> QED
    BY <2>1, <2>2, QuietFits, OvertakeFits
<1>4. CatalogTypeOK'
  <2>1. excused' \in BOOLEAN
    BY <1>0, <1>1 DEF CatalogTypeOK
  <2> QED
    BY <1>0, <1>1, <1>2, <1>3, <2>1 DEF CatalogTypeOK
<1>5. StaleEntryHasCause'
  BY <1>1 DEF StaleEntryHasCause
<1>6. IndexFits'
  <2> SUFFICES ASSUME followed \in Documents, copy # View', ~excused
               PROVE  \E v \in Writers : Sending(v)'
    BY <1>1 DEF IndexFits
  <2>1. followed[2] \in Rows /\ "artist" \in Rows
    BY NamesApart
  <2>2. View' = View
    BY <1>1, <1>2, <2>1, ViewOfDocument, ViewOfDocumentNext DEF Document
  <2>3. PICK v \in Writers : Sending(v)
    BY <1>0, <2>2 DEF IndexFits
  <2>4. v # NoValue
    BY CatalogAssumption
  <2> QED
    BY <1>1, <1>3, <2>3, <2>4 DEF Sending
<1>7. (\A x \in Rows : row[x].ver <= changes)'
  BY <1>0, <1>1, <1>2
<1> QED
  BY <1>3, <1>4, <1>5, <1>6, <1>7 DEF CatalogInv

-----------------------------------------------------------------------------
(* After the commit *)

(* A step of a writer that changes neither rows nor responses.              *)
LEMMA WriterMove ==
    ASSUME CatalogInv, NEW w \in Writers, NEW n \in Writing, writing' = [writing EXCEPT ![w] = n],
           UNCHANGED <<row, followed, reading, changes>>, excused' \in BOOLEAN,
           n.pc = "refresh" => ~n.job,
           n.pc \in {"build", "upsert"} =>
               /\ followed = <<"index", n.k>>
               /\ ~n.behind =>
                      n.image.ver = row[n.k].ver /\ (Dated(n.image.pub) <=> Dated(row[n.k].pub)),
           n.pc = "upsert" =>
               Dated(n.image.pub) /\ (~n.behind => n.artist = row["artist"].ver),
           StaleEntryHasCause', IndexFits'
    PROVE  CatalogInv'
<1>0. /\ CatalogTypeOK
      /\ \A k \in Rows : row[k].ver <= changes
      /\ \A r \in Readers : ReadingFits(r)
      /\ \A v \in Writers : WritingFits(v)
  BY DEF CatalogInv
<1>1. writing'[w] = n /\ \A v \in Writers : v # w => writing'[v] = writing[v]
  BY <1>0 DEF CatalogTypeOK
<1>2. CatalogTypeOK'
  BY <1>0 DEF CatalogTypeOK
<1>3. View' = View
  BY SameRows
<1>4. \A r \in Readers : ReadingFits(r)'
  BY <1>0, <1>3 DEF ReadingFits
<1>5. ASSUME NEW v \in Writers PROVE WritingFits(v)'
  <2>1. CASE v = w
    BY <1>1, <2>1 DEF WritingFits
  <2>2. CASE v # w
    BY <1>0, <1>1, <2>2 DEF WritingFits
  <2> QED
    BY <2>1, <2>2
<1> QED
  BY <1>0, <1>2, <1>4, <1>5 DEF CatalogInv

LEMMA RefreshStep ==
    ASSUME CatalogInv, NEW w \in Writers, Refresh(w)
    PROVE  CatalogInv'
<1> DEFINE me == writing[w]
           image == row[me.k]
           send == me.send = "yes" \/ (me.send = "dated" /\ Dated(image.pub))
           sends == send /\ followed = <<"index", me.k>>
           built == [me EXCEPT !.pc = "build", !.image = image]
           n == IF sends THEN built ELSE Quiet
<1>0. /\ CatalogTypeOK /\ IndexFits /\ WritingFits(w) /\ me \in Writing /\ me.pc = "refresh"
  BY DEF CatalogInv, CatalogTypeOK, Refresh
<1>1. /\ copy' = IF followed[1] \in Patterns THEN NoValue ELSE copy
      /\ excused' = (excused /\ followed[1] \notin Patterns)
      /\ writing' = [writing EXCEPT ![w] = n]
      /\ UNCHANGED <<row, followed, reading, changes>>
  BY DEF Refresh
<1>2. me.k \in Rows /\ image \in Row /\ ~me.job
  BY <1>0 DEF Writing, WritingFits, CatalogTypeOK
<1>3. /\ built \in Writing /\ built.pc = "build" /\ built.image = image
      /\ built.k = me.k /\ built.job = me.job
  BY <1>0, <1>2 DEF Writing
<1>4. View' = View
  BY <1>1, SameRows
<1>5. StaleEntryHasCause'
  BY <1>1, NamesApart DEF StaleEntryHasCause
<1>6. excused' \in BOOLEAN
  BY <1>1
<1>7. writing'[w] = n /\ \A v \in Writers : v # w => writing'[v] = writing[v]
  BY <1>0, <1>1 DEF CatalogTypeOK
<1>8. IndexFits'
  <2> SUFFICES ASSUME followed \in Documents, copy' # View, ~excused'
               PROVE  \E v \in Writers : Sending(v)'
    BY <1>1, <1>4 DEF IndexFits
  <2>1. copy' = copy /\ ~excused
    BY <1>1, NamesApart
  <2>2. PICK v \in Writers : Sending(v)
    BY <1>0, <2>1 DEF IndexFits
  <2>3. CASE v # w
    <3>1. writing'[v] = writing[v] /\ followed' = followed
      BY <1>1, <1>7, <2>3
    <3> QED
      BY <2>1, <2>2, <3>1 DEF Sending
  <2>4. CASE v = w
    <3>1. followed = <<"index", me.k>>
      BY <2>2, <2>4 DEF Sending
    <3>2. send
      <4>1. View = Document(me.k)
        BY <3>1, ViewOfDocument
      <4>2. me.send = "yes" \/ (me.send = "dated" /\ copy = NoValue)
        BY <1>0, <2>2, <2>4 DEF Sending
      <4> QED
        BY <2>1, <4>1, <4>2 DEF Document
    <3>3. writing'[w] = built
      BY <1>7, <3>1, <3>2
    <3> HIDE DEF built
    <3> QED
      BY <1>1, <1>2, <1>3, <3>1, <3>3 DEF Sending
  <2> QED
    BY <2>3, <2>4
<1>9. CASE sends
  <2>1. n = built /\ followed = <<"index", me.k>>
    BY <1>9
  <2> HIDE DEF built, n, sends
  <2> QED
    BY <1>1, <1>3, <1>5, <1>6, <1>8, <2>1, WriterMove
<1>10. CASE ~sends
  <2>1. n = Quiet
    BY <1>10
  <2> HIDE DEF n, sends
  <2> QED
    BY <1>1, <1>5, <1>6, <1>8, <2>1, QuietFits, WriterMove
<1> QED
  BY <1>9, <1>10

LEMMA SentStep ==
    ASSUME CatalogInv, NEW w \in Writers, Unsend(w) \/ Upsert(w)
    PROVE  CatalogInv'
<1> DEFINE me == writing[w]
<1>0. /\ CatalogTypeOK /\ WritingFits(w) /\ me \in Writing /\ me.pc \in {"build", "upsert"}
  BY DEF CatalogInv, CatalogTypeOK, Unsend, Upsert
<1>1. /\ excused' = me.behind
      /\ writing' = [writing EXCEPT ![w] = Quiet]
      /\ UNCHANGED <<row, followed, reading, changes>>
  BY DEF Unsend, Upsert, Sent
<1>2. followed = <<"index", me.k>> /\ me.behind \in BOOLEAN
  BY <1>0 DEF WritingFits, Writing
<1>3. followed \in Documents /\ followed \notin Keys
  BY <1>0, <1>2, NamesApart DEF CatalogTypeOK, Writing
<1>4. View' = Document(me.k)
  BY <1>1, <1>2, <1>3, SameRows, ViewOfDocument
<1>5. ~me.behind => copy' = Document(me.k)
  <2>1. CASE Unsend(w)
    <3>1. copy' = NoValue /\ me.pc = "build" /\ ~Dated(me.image.pub)
      BY <2>1 DEF Unsend, Sent
    <3> QED
      BY <1>0, <3>1 DEF WritingFits, Document
  <2>2. CASE Upsert(w)
    <3>1. /\ copy' = <<me.image.ver, IF me.k = "artist" THEN 0 ELSE me.artist>>
          /\ me.pc = "upsert"
      BY <2>2 DEF Upsert, Sent
    <3>2. ~me.behind => /\ me.image.ver = row[me.k].ver /\ me.artist = row["artist"].ver
                        /\ Dated(row[me.k].pub)
      BY <1>0, <3>1 DEF WritingFits
    <3> HIDE DEF me
    <3> QED
      BY <3>1, <3>2 DEF Document
  <2> QED
    BY <2>1, <2>2
<1>6. StaleEntryHasCause'
  BY <1>1, <1>3 DEF StaleEntryHasCause
<1>7. IndexFits'
  BY <1>1, <1>4, <1>5 DEF IndexFits
<1> HIDE DEF me
<1> QED
  BY <1>1, <1>2, <1>6, <1>7, QuietFits, WriterMove

(* The other steps of a writer leave the copy alone.                        *)
LEMMA OtherStep ==
    ASSUME CatalogInv, NEW w \in Writers,
           Build(w) \/ Fails(w) \/ Reindex(w) \/ ReindexRead(w)
    PROVE  CatalogInv'
<1> DEFINE me == writing[w]
<1>0. /\ CatalogTypeOK /\ StaleEntryHasCause /\ IndexFits /\ WritingFits(w) /\ me \in Writing
  BY DEF CatalogInv, CatalogTypeOK
<1>1. ASSUME NEW n \in Writing, writing' = [writing EXCEPT ![w] = n],
             UNCHANGED <<row, followed, copy, reading, changes>>, excused' \in BOOLEAN,
             excused => excused',
             n.pc = "refresh" => ~n.job,
             n.pc \in {"build", "upsert"} =>
                 /\ followed = <<"index", n.k>>
                 /\ ~n.behind =>
                        n.image.ver = row[n.k].ver /\ (Dated(n.image.pub) <=> Dated(row[n.k].pub)),
             n.pc = "upsert" =>
                 Dated(n.image.pub) /\ (~n.behind => n.artist = row["artist"].ver),
             (me.pc = "refresh" /\ followed \in Keys /\ copy # NoValue) \/ Sending(w) =>
                 excused' \/ (n.pc = "upsert" /\ n.k = me.k /\ n.job = me.job /\ me.pc = "build")
      PROVE  CatalogInv'
  <2>1. writing'[w] = n /\ \A v \in Writers : v # w => writing'[v] = writing[v]
    BY <1>0, <1>1 DEF CatalogTypeOK
  <2>2. View' = View
    BY <1>1, SameRows
  <2>3. StaleEntryHasCause'
    <3> SUFFICES ASSUME followed \in Keys, copy \notin {NoValue, View}, followed[1] \notin {"search", "reco"}, ~excused'
                 PROVE  \E v \in Writers : writing'[v].pc = "refresh"
      BY <1>1, <2>2 DEF StaleEntryHasCause
    <3>1. PICK v \in Writers : writing[v].pc = "refresh"
      BY <1>0, <1>1 DEF StaleEntryHasCause
    <3>2. v # w
      BY <1>1, <3>1
    <3> QED
      BY <2>1, <3>1, <3>2
  <2>4. IndexFits'
    <3> SUFFICES ASSUME followed \in Documents, copy # View, ~excused'
                 PROVE  \E v \in Writers : Sending(v)'
      BY <1>1, <2>2 DEF IndexFits
    <3>1. PICK v \in Writers : Sending(v)
      BY <1>0, <1>1 DEF IndexFits
    <3>2. CASE v # w
      <4>1. writing'[v] = writing[v] /\ followed' = followed /\ copy' = copy
        BY <1>1, <2>1, <3>2
      <4> QED
        BY <3>1, <4>1 DEF Sending
    <3>3. CASE v = w
      <4>1. n.pc = "upsert" /\ n.k = me.k /\ n.job = me.job
        BY <1>1, <3>1, <3>3
      <4> QED
        BY <1>1, <2>1, <3>1, <3>3, <4>1 DEF Sending
    <3> QED
      BY <3>2, <3>3
  <2> QED
    BY <1>1, <2>3, <2>4, WriterMove
<1>2. CASE Build(w)
  <2>0. PICK name \in {row["artist"].ver, me.artist} :
          writing' = [writing EXCEPT ![w].pc = "upsert", ![w].artist = name,
                                     ![w].behind = @ \/ name # row["artist"].ver]
    BY <1>2 DEF Build
  <2> DEFINE stale == me.behind \/ name # row["artist"].ver
             n == [me EXCEPT !.pc = "upsert", !.artist = name, !.behind = stale]
  <2>1. /\ me.pc = "build" /\ Dated(me.image.pub)
        /\ writing' = [writing EXCEPT ![w] = n]
        /\ UNCHANGED <<row, followed, copy, reading, changes, excused>>
    BY <1>0, <1>2, <2>0 DEF Build, CatalogTypeOK
  <2>2. name \in 0..MaxChanges /\ stale \in BOOLEAN
    BY <1>0, NamesApart DEF CatalogTypeOK, Row, Writing
  <2> HIDE DEF stale
  <2>3. /\ n \in Writing /\ n.pc = "upsert" /\ n.artist = name
        /\ n.k = me.k /\ n.job = me.job /\ n.image = me.image /\ n.behind = stale
    BY <1>0, <2>2 DEF Writing
  <2>6. ~stale => ~me.behind /\ name = row["artist"].ver
    BY DEF stale
  <2>4. /\ followed = <<"index", me.k>>
        /\ ~me.behind =>
              me.image.ver = row[me.k].ver /\ (Dated(me.image.pub) <=> Dated(row[me.k].pub))
    BY <1>0, <2>1 DEF WritingFits
  <2>5. excused \in BOOLEAN
    BY <1>0 DEF CatalogTypeOK
  <2> HIDE DEF n, me
  <2> QED
    BY <1>1, <2>1, <2>3, <2>4, <2>5, <2>6
<1>3. CASE Fails(w)
  <2>1. /\ me.pc # "idle" /\ excused' = (excused \/ (~me.job /\ Affects({me.k})))
        /\ writing' = [writing EXCEPT ![w] = Quiet]
        /\ UNCHANGED <<row, followed, copy, reading, changes>>
    BY <1>3 DEF Fails
  <2>2. excused' \in BOOLEAN
    BY <1>0, <2>1 DEF CatalogTypeOK
  <2>3. (me.pc = "refresh" /\ followed \in Keys /\ copy # NoValue) => excused'
    BY <1>0, <2>1 DEF WritingFits, Affects
  <2>4. Sending(w) => excused'
    <3> SUFFICES ASSUME Sending(w) PROVE ~me.job /\ Affects({me.k})
      BY <2>1
    <3>1. ~me.job /\ followed = <<"index", me.k>> /\ me.k \in Rows
      BY <1>0 DEF Sending, Writing
    <3>2. followed \notin Keys /\ followed[2] = me.k
      BY <3>1, NamesApart
    <3> QED
      BY <3>1, <3>2 DEF Affects
  <2> HIDE DEF me
  <2> QED
    BY <1>1, <2>1, <2>2, <2>3, <2>4, QuietFits
<1>4. CASE Reindex(w)
  <2>1. /\ me.pc = "idle" /\ writing' = [writing EXCEPT ![w] = ReindexJob]
        /\ UNCHANGED <<row, followed, copy, reading, changes, excused>>
    BY <1>4 DEF Reindex, Idling
  <2>2. ~Sending(w) /\ excused \in BOOLEAN
    BY <1>0, <2>1 DEF Sending, CatalogTypeOK
  <2> HIDE DEF me
  <2> QED
    BY <1>1, <2>1, <2>2, QuietFits
<1>5. CASE ReindexRead(w)
  <2> DEFINE k == followed[2]
             found == followed \in Documents /\ row[k].pub = "past"
             sent == [ReindexJob EXCEPT !.pc = "upsert", !.k = k, !.image = row[k],
                                        !.artist = row["artist"].ver]
             n == IF found THEN sent ELSE Quiet
  <2>1. /\ me.pc = "reindex" /\ writing' = [writing EXCEPT ![w] = n]
        /\ UNCHANGED <<row, followed, copy, reading, changes, excused>>
    BY <1>5 DEF ReindexRead
  <2>2. ~Sending(w) /\ excused \in BOOLEAN
    BY <1>0, <2>1 DEF Sending, CatalogTypeOK
  <2>3. CASE found
    <3>1. k \in Rows /\ row[k] \in Row /\ row["artist"].ver \in 0..MaxChanges
          /\ followed = <<"index", k>> /\ Dated(row[k].pub)
      BY <1>0, <2>3, NamesApart DEF CatalogTypeOK, Row, Dated
    <3>2. /\ sent \in Writing /\ sent.pc = "upsert" /\ sent.k = k /\ sent.image = row[k]
          /\ sent.artist = row["artist"].ver
      BY <3>1, QuietFits DEF Writing
    <3>3. n = sent
      BY <2>3
    <3> HIDE DEF me, k, sent, n, found
    <3> QED
      BY <1>1, <2>1, <2>2, <3>1, <3>2, <3>3
  <2>4. CASE ~found
    <3>1. n = Quiet
      BY <2>4
    <3> HIDE DEF me, n
    <3> QED
      BY <1>1, <2>1, <2>2, <3>1, QuietFits
  <2> QED
    BY <2>3, <2>4
<1> QED
  BY <1>2, <1>3, <1>4, <1>5

-----------------------------------------------------------------------------
LEMMA CatalogStep == CatalogInv /\ [CatalogNext]_catalogVars => CatalogInv'
<1> SUFFICES ASSUME CatalogInv, [CatalogNext]_catalogVars
             PROVE  CatalogInv'
  OBVIOUS
<1>1. ASSUME NEW w \in Writers,
             Refresh(w) \/ Unsend(w) \/ Build(w) \/ Upsert(w) \/ Fails(w) \/ Reindex(w) \/ ReindexRead(w)
      PROVE  CatalogInv'
  BY <1>1, RefreshStep, SentStep, OtherStep
<1>2. ASSUME NEW k \in Tracks \cup {"album"}, Released(k)
      PROVE  CatalogInv'
  BY <1>2, ReleasedStep DEF Rows
<1>3. CASE UNCHANGED catalogVars
  <2>1. UNCHANGED <<row, followed, copy, reading, writing, changes, excused>>
    BY <1>3 DEF catalogVars
  <2>2. View' = View
    BY <2>1, SameRows
  <2> QED
    BY <2>1, <2>2 DEF CatalogInv, CatalogTypeOK, ReadingFits, WritingFits, StaleEntryHasCause,
                      IndexFits, Sending
<1> QED
  BY <1>1, <1>2, <1>3, ReadStep, ChangeStep DEF CatalogNext

(* The inductive invariant: what a reader or a writer holds is current      *)
(* unless it is known to have been overtaken, and whoever left the copy out *)
(* of date is on its way to mend it.                                        *)
THEOREM CatalogInvariant == CatalogSpec => []CatalogInv
  BY CatalogInitInv, CatalogStep, PTL DEF CatalogSpec

(* The state of the catalog has its type.                                   *)
THEOREM CatalogTypeCorrect == CatalogSpec => []CatalogTypeOK
<1>1. CatalogInv => CatalogTypeOK
  BY DEF CatalogInv
<1> QED
  BY <1>1, CatalogInvariant, PTL

(* A cached response that is out of date has one of the named causes.       *)
THEOREM StaleEntryExplained == CatalogSpec => []StaleEntryHasCause
<1>1. CatalogInv => StaleEntryHasCause
  BY DEF CatalogInv
<1> QED
  BY <1>1, CatalogInvariant, PTL

(* So has a document of the index that does not agree with its row.         *)
THEOREM IndexExplained == CatalogSpec => []IndexAgreesOrExcused
<1>1. CatalogInv => IndexAgreesOrExcused
  BY DEF CatalogInv, IndexFits, Sending, IndexAgreesOrExcused
<1> QED
  BY <1>1, CatalogInvariant, PTL

-----------------------------------------------------------------------------
(* The composition *)

(* A step of the composition is one of a single component.                  *)
LEMMA OneMoves ==
    [Next]_vars => /\ [CatalogNext]_catalogVars
                   /\ [PlayNext]_playVars
                   /\ [IngestNext]_ingestVars
BY DEF Next, vars

LEMMA AllStart == Init => CatalogInit /\ PlayInit /\ IngestInit
BY DEF Init

(* Running the components side by side (MCCatalog) breaks none of their     *)
(* inductive invariants.                                                    *)
THEOREM ComposedInvariant == Spec => [](CatalogInv /\ PlayInv /\ IngestInv)
<1>1. PlayInv /\ [PlayNext]_playVars => PlayInv'
  BY PlayTypeStep, HeardStep, DeadStep DEF PlayInv
<1> QED
  BY <1>1, AllStart, OneMoves, CatalogInitInv, CatalogStep, PlayInitInv, IngestInitInv, IngestStep,
     PTL DEF Spec

(* The state of the composition has its type: rows, cached and indexed      *)
(* copies, sessions and tasks.                                              *)
THEOREM ComposedTypeCorrect == Spec => []TypeOK
<1>1. CatalogInv /\ PlayInv /\ IngestInv => TypeOK
  BY DEF CatalogInv, PlayInv, IngestInv, TypeOK
<1> QED
  BY <1>1, ComposedInvariant, PTL
=============================================================================
