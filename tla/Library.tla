------------------------------ MODULE Library -------------------------------
(***************************************************************************)
(* A user's playlists and favourites (services/playlists.py,               *)
(* services/favorites.py).  The rows of playlist_tracks carry a position;  *)
(* every handler reads, computes and commits in separate steps under READ  *)
(* COMMITTED, and nothing locks a playlist: a handler remembers the row    *)
(* versions it saw (`rows') and the maximum it read (`top').               *)
(*                                                                         *)
(* Everything belongs to one user: the handlers look a playlist up by id   *)
(* and owner, and answer 404 to anyone else.                               *)
(***************************************************************************)
EXTENDS Integers, Sequences, FiniteSets

CONSTANTS
    Tracks,       \* published tracks
    Playlists,    \* playlists the user may create
    Clients,      \* requests in flight at one time
    None,         \* no position, no playlist, no track
    MaxList,      \* bound: tracks named in one request
    MaxPosition   \* bound: positions handed out by additions

ASSUME LibraryAssumption ==
    /\ None \notin Tracks \cup Playlists \cup Int
    /\ MaxList \in Nat
    /\ MaxPosition \in Nat

VARIABLES
    state,      \* playlists: absent, live or deleted
    pos,        \* playlist_tracks.position, None when there is no row
    fav,        \* favorites
    req,        \* per client: the request it runs
    ahead       \* history: <<a, b, how>>, the owner asked to hear a before b, both
                \* named in one list, or b added when a was there

libraryVars == <<state, pos, fav, req, ahead>>

Lists == UNION {[1..n -> Tracks] : n \in 0..MaxList}

Named(list) == {list[i] : i \in DOMAIN list}

Request == [pc       : {"idle", "replace", "maximum", "insert", "remove",
                        "favorite", "unfavorite"},
            playlist : Playlists \cup {None},
            track    : Tracks \cup {None},
            list     : Lists,
            rows     : SUBSET Tracks,
            top      : Nat \cup {None}]

Idle == [pc |-> "idle", playlist |-> None, track |-> None,
         list |-> << >>, rows |-> {}, top |-> None]

Wishes == Tracks \X Tracks \X {"listed", "added"}

LibraryTypeOK ==
    /\ state \in [Playlists -> {"absent", "live", "deleted"}]
    /\ pos \in [Playlists -> [Tracks -> Nat \cup {None}]]
    /\ fav \subseteq Tracks
    /\ req \in [Clients -> Request]
    /\ ahead \in [Playlists -> SUBSET Wishes]

LibraryInit ==
    /\ state = [p \in Playlists |-> "absent"]
    /\ pos = [p \in Playlists |-> [t \in Tracks |-> None]]
    /\ fav = {}
    /\ req = [c \in Clients |-> Idle]
    /\ ahead = [p \in Playlists |-> {}]

Present(p) == {t \in Tracks : pos[p][t] # None}

(* A primary key (playlist, track) allows a track once.                     *)
Distinct(list) == \A i, j \in DOMAIN list : list[i] = list[j] => i = j

(* enumerate(tracks): the position of a track is its index in the list.     *)
Position(list, t) == (CHOOSE i \in DOMAIN list : list[i] = t) - 1

(* The order a list asks for.                                               *)
InOrder(list) ==
    {<<list[ij[1]], list[ij[2]], "listed">> : ij \in
        {ij \in (DOMAIN list) \X (DOMAIN list) : ij[1] < ij[2]}}

(* Request c ends; the rows `dead' of playlist p are gone, and a row that   *)
(* comes back under the same key is another row.                            *)
EndsKilling(c, p, dead) ==
    req' = [d \in Clients |->
               IF d = c THEN Idle
               ELSE IF req[d].playlist = p THEN [req[d] EXCEPT !.rows = @ \ dead]
               ELSE req[d]]

Begin(c, r) ==
    /\ req[c].pc = "idle"
    /\ req' = [req EXCEPT ![c] = r]

-----------------------------------------------------------------------------
(* Playlists *)

(* The new playlist is invisible to other requests before its commit.       *)
Create(p, list) ==
    /\ state[p] = "absent"
    /\ Distinct(list)
    /\ state' = [state EXCEPT ![p] = "live"]
    /\ pos' = [pos EXCEPT ![p] =
                  [t \in Tracks |-> IF t \in Named(list) THEN Position(list, t) ELSE None]]
    /\ ahead' = [ahead EXCEPT ![p] = InOrder(list)]
    /\ UNCHANGED <<fav, req>>

(* update_user_playlist: the DELETE statement takes the rows it sees.       *)
ReplaceDelete(c, p, list) ==
    /\ state[p] = "live"
    /\ Begin(c, [Idle EXCEPT !.pc = "replace", !.playlist = p, !.list = list,
                             !.rows = Present(p)])
    /\ UNCHANGED <<state, pos, fav, ahead>>

(* Fault: the rows are deleted by a statement that runs with the commit.    *)
FaultLater(c) == {}

(* Rows of the playlist the DELETE of c did not take.                       *)
Later(c) == Present(req[c].playlist) \ req[c].rows

(* The commit of the DELETE and of the INSERTs; a track named twice or      *)
(* inserted by another request since the DELETE is a conflict.              *)
ReplaceCommit(c) ==
    LET p == req[c].playlist
        list == req[c].list
    IN
    /\ req[c].pc = "replace"
    /\ state[p] = "live"
    /\ Distinct(list)
    /\ Named(list) \cap Later(c) = {}
    /\ pos' = [pos EXCEPT ![p] =
                  [t \in Tracks |-> IF t \in Named(list) THEN Position(list, t)
                                    ELSE IF t \in Later(c) THEN pos[p][t]
                                    ELSE None]]
    /\ ahead' = [ahead EXCEPT ![p] =
                    InOrder(list) \cup {ab \in @ : {ab[1], ab[2]} \subseteq Later(c)}]
    /\ EndsKilling(c, p, req[c].rows)
    /\ UNCHANGED <<state, fav>>

(* add_track_to_user_playlist; a track that is there already is left alone. *)
AddFind(c, p, t) ==
    /\ state[p] = "live"
    /\ t \notin Present(p)
    /\ Begin(c, [Idle EXCEPT !.pc = "maximum", !.playlist = p, !.track = t])
    /\ UNCHANGED <<state, pos, fav, ahead>>

(* Fault: an empty playlist has the maximum -1.                             *)
FaultHighest(p) ==
    IF Present(p) = {} THEN -1
    ELSE CHOOSE n \in {pos[p][t] : t \in Present(p)} : \A t \in Present(p) : pos[p][t] <= n

Highest(p) ==
    IF Present(p) = {} THEN None
    ELSE CHOOSE n \in {pos[p][t] : t \in Present(p)} : \A t \in Present(p) : pos[p][t] <= n

AddMaximum(c) ==
    /\ req[c].pc = "maximum"
    /\ req' = [req EXCEPT ![c].pc = "insert",
                          ![c].rows = Present(req[c].playlist),
                          ![c].top = Highest(req[c].playlist)]
    /\ UNCHANGED <<state, pos, fav, ahead>>

(* Fault: the new position is the maximum itself.                           *)
FaultNextPosition(top) == IF top = None THEN 0 ELSE top

(* (max_pos or -1) + 1: a maximum of 0 counts as none.                      *)
NextPosition(top) == (IF top \in {None, 0} THEN -1 ELSE top) + 1

(* The owner wants the track after everything the maximum ranged over.      *)
AddCommit(c) ==
    LET p == req[c].playlist
        t == req[c].track
    IN
    /\ req[c].pc = "insert"
    /\ state[p] = "live"
    /\ t \notin Present(p)
    /\ NextPosition(req[c].top) <= MaxPosition
    /\ pos' = [pos EXCEPT ![p][t] = NextPosition(req[c].top)]
    /\ ahead' = [ahead EXCEPT ![p] =
                    @ \cup {<<s, t, "added">> : s \in req[c].rows}]
    /\ EndsKilling(c, p, {})
    /\ UNCHANGED <<state, fav>>

RemoveFind(c, p, t) ==
    /\ state[p] = "live"
    /\ t \in Present(p)
    /\ Begin(c, [Idle EXCEPT !.pc = "remove", !.playlist = p, !.track = t])
    /\ UNCHANGED <<state, pos, fav, ahead>>

(* DELETE by primary key: it takes the row that has the key by now.         *)
RemoveCommit(c) ==
    LET p == req[c].playlist
        t == req[c].track
    IN
    /\ req[c].pc = "remove"
    /\ pos' = [pos EXCEPT ![p][t] = None]
    /\ ahead' = [ahead EXCEPT ![p] = {ab \in @ : t \notin {ab[1], ab[2]}}]
    /\ EndsKilling(c, p, {t})
    /\ UNCHANGED <<state, fav>>

(* delete_user_playlist; the rows go by cascade.                            *)
DeletePlaylist(p) ==
    /\ state[p] = "live"
    /\ state' = [state EXCEPT ![p] = "deleted"]
    /\ pos' = [pos EXCEPT ![p] = [t \in Tracks |-> None]]
    /\ ahead' = [ahead EXCEPT ![p] = {}]
    /\ EndsKilling(None, p, Present(p))
    /\ UNCHANGED fav

-----------------------------------------------------------------------------
(* Favourites *)

FavoriteFind(c, t) ==
    /\ t \notin fav
    /\ Begin(c, [Idle EXCEPT !.pc = "favorite", !.track = t])
    /\ UNCHANGED <<state, pos, fav, ahead>>

FavoriteCommit(c) ==
    /\ req[c].pc = "favorite"
    /\ req[c].track \notin fav    \* uq_favorites_user_track
    /\ fav' = fav \cup {req[c].track}
    /\ EndsKilling(c, None, {})
    /\ UNCHANGED <<state, pos, ahead>>

UnfavoriteFind(c, t) ==
    /\ t \in fav
    /\ Begin(c, [Idle EXCEPT !.pc = "unfavorite", !.track = t, !.rows = {t}])
    /\ UNCHANGED <<state, pos, fav, ahead>>

(* DELETE by the id of the row that was read: a row another request put in  *)
(* its place has another id.                                                *)
UnfavoriteCommit(c) ==
    /\ req[c].pc = "unfavorite"
    /\ fav' = fav \ req[c].rows
    /\ EndsKilling(c, None, req[c].rows)
    /\ UNCHANGED <<state, pos, ahead>>

(* A request ends without its commit: a conflict, a lost connection.        *)
Abort(c) ==
    /\ req[c].pc # "idle"
    /\ req' = [req EXCEPT ![c] = Idle]
    /\ UNCHANGED <<state, pos, fav, ahead>>

-----------------------------------------------------------------------------
PlaylistNext ==
    \/ \E p \in Playlists :
        \/ DeletePlaylist(p)
        \/ \E list \in Lists : Create(p, list)
    \/ \E c \in Clients, p \in Playlists :
        \/ \E list \in Lists : ReplaceDelete(c, p, list)
        \/ \E t \in Tracks : AddFind(c, p, t) \/ RemoveFind(c, p, t)
    \/ \E c \in Clients :
        ReplaceCommit(c) \/ AddMaximum(c) \/ AddCommit(c) \/ RemoveCommit(c) \/ Abort(c)

FavoriteNext ==
    \E c \in Clients :
        \/ \E t \in Tracks : FavoriteFind(c, t) \/ UnfavoriteFind(c, t)
        \/ FavoriteCommit(c) \/ UnfavoriteCommit(c) \/ Abort(c)

LibraryNext == PlaylistNext \/ FavoriteNext

LibrarySpec == LibraryInit /\ [][LibraryNext]_libraryVars

-----------------------------------------------------------------------------
(* No track is heard before one its owner put ahead of it: the tracks of    *)
(* one list have the order of the list, and an added track never precedes   *)
(* one that was there when its position was computed, however replacements, *)
(* additions and removals interleave.  What NextPosition gets wrong is all  *)
(* that is lost: a track added on a maximum of 0 shares the position 0 with *)
(* the tracks it should follow.                                             *)
PlaylistKeepsOrder ==
    \A p \in Playlists : \A ab \in ahead[p] :
        /\ {ab[1], ab[2]} \subseteq Present(p)
        /\ \/ pos[p][ab[1]] < pos[p][ab[2]]
           \/ ab[3] = "added" /\ pos[p][ab[1]] = 0 /\ pos[p][ab[2]] = 0

(* No request loses an entry it did not know of.  A track leaves a playlist *)
(* only with the playlist, by a request to remove it, or by a replacement   *)
(* whose DELETE saw that row: what was added since then survives.  A        *)
(* favourite leaves only by a request that read that very row.              *)
EntriesLostKnowingly ==
    [][/\ \A p \in Playlists : \A t \in Present(p) :
            \/ pos'[p][t] # None
            \/ state'[p] = "deleted"
            \/ \E c \in Clients :
                /\ req[c].playlist = p /\ req'[c].pc = "idle"
                /\ \/ req[c].pc = "remove" /\ req[c].track = t
                   \/ req[c].pc = "replace" /\ t \in req[c].rows
       /\ \A t \in fav \ fav' : \E c \in Clients :
            req[c].pc = "unfavorite" /\ req'[c].pc = "idle" /\ t \in req[c].rows
      ]_libraryVars
=============================================================================
