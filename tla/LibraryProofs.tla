---------------------------- MODULE LibraryProofs ----------------------------
(***************************************************************************)
(* Proofs about Library: for any number of tracks, playlists and requests, *)
(* no track gets ahead of one its owner put before it, and no request      *)
(* loses an entry it did not know of.                                      *)
(***************************************************************************)
EXTENDS Library, WellFoundedInduction, TLAPS

-----------------------------------------------------------------------------
(* Maxima and lists *)

(* A set of naturals with a bound has a greatest element.                   *)
LEMMA Greatest ==
    ASSUME NEW S \in SUBSET Nat, S # {}, NEW bound \in Nat, \A n \in S : n <= bound
    PROVE  \E n \in S : \A m \in S : m <= n
<1> DEFINE T == {bound - n : n \in S}
<1>0. \A n \in S : bound - n \in Nat
  OBVIOUS
<1>1. T \subseteq Nat /\ T # {}
  BY <1>0
<1>2. PICK x \in T : \A y \in T : ~(<<y, x>> \in OpToRel(<, Nat))
  BY <1>1, NatLessThanWellFounded, WFMin
<1>3. ASSUME NEW y \in T
      PROVE  x <= y
  <2>1. y \in Nat /\ x \in Nat
    BY <1>1
  <2>2. ~(y < x)
    BY <1>2, <2>1 DEF OpToRel
  <2> QED
    BY <2>1, <2>2
<1>4. PICK n \in S : x = bound - n
  BY <1>2
<1>5. \A m \in S : bound - n <= bound - m
  BY <1>3, <1>4
<1> QED
  BY <1>5

(* The list of a request, its tracks and their indices.                     *)
LEMMA ListFits ==
    ASSUME NEW list \in Lists
    PROVE  /\ \E n \in 0..MaxList : list \in [1..n -> Tracks]
           /\ Named(list) \subseteq Tracks
           /\ \A i \in DOMAIN list : i \in Nat /\ i - 1 \in Nat /\ i <= MaxList
                                     /\ list[i] \in Named(list)
  BY LibraryAssumption DEF Lists, Named

(* The position of a track is the index it has in the list, minus one.      *)
LEMMA PositionIsIndex ==
    ASSUME NEW list \in Lists, Distinct(list), NEW i \in DOMAIN list
    PROVE  Position(list, list[i]) = i - 1
<1>1. (CHOOSE n \in DOMAIN list : list[n] = list[i]) \in DOMAIN list
  OBVIOUS
<1>2. list[CHOOSE n \in DOMAIN list : list[n] = list[i]] = list[i]
  OBVIOUS
<1> QED
  BY <1>1, <1>2 DEF Position, Distinct

(* A named track has a position below the bound.                            *)
LEMMA PositionBounded ==
    ASSUME NEW list \in Lists, Distinct(list), NEW t \in Named(list)
    PROVE  Position(list, t) \in 0..MaxList
<1>1. PICK i \in DOMAIN list : t = list[i]
  BY DEF Named
<1> QED
  BY <1>1, PositionIsIndex, ListFits, LibraryAssumption

(* What a list asks for is what the positions say.                          *)
LEMMA ListInOrder ==
    ASSUME NEW list \in Lists, Distinct(list), NEW ab \in InOrder(list)
    PROVE  /\ ab \in Wishes
           /\ ab[1] \in Named(list) /\ ab[2] \in Named(list)
           /\ Position(list, ab[1]) < Position(list, ab[2])
<1>1. PICK i \in DOMAIN list, j \in DOMAIN list : i < j /\ ab = <<list[i], list[j], "listed">>
  BY DEF InOrder
<1>2. Position(list, list[i]) = i - 1 /\ Position(list, list[j]) = j - 1
  BY PositionIsIndex
<1> QED
  BY <1>1, <1>2, ListFits DEF Wishes

-----------------------------------------------------------------------------
(* Types *)

Positions == 0..(MaxList + MaxPosition)

(* Positions are bounded, so that there is a greatest; a request has the    *)
(* playlist and the track its step is about, and the rows it saw are there  *)
(* until somebody takes them; a maximum is above the rows it ranged over.   *)
RequestFits(c) ==
    /\ req[c].pc \in {"replace", "maximum", "insert", "remove"} => req[c].playlist \in Playlists
    /\ req[c].pc \in {"maximum", "insert", "remove", "favorite", "unfavorite"} =>
          req[c].track \in Tracks
    /\ req[c].pc \in {"replace", "insert"} => req[c].rows \subseteq Present(req[c].playlist)
    /\ req[c].pc = "insert" =>
          \A t \in req[c].rows : req[c].top # None /\ pos[req[c].playlist][t] <= req[c].top

LibraryInv ==
    /\ LibraryTypeOK
    /\ \A p \in Playlists : \A t \in Present(p) : pos[p][t] \in Positions
    /\ \A p \in Playlists : state[p] # "live" => Present(p) = {}
    /\ \A c \in Clients : RequestFits(c)
    /\ PlaylistKeepsOrder

(* The empty request is one.                                                *)
LEMMA IdleFits ==
    /\ Idle \in Request
    /\ Idle.pc = "idle" /\ Idle.playlist = None /\ Idle.rows = {}
<1>1. << >> \in [1..0 -> Tracks]
  OBVIOUS
<1>2. << >> \in Lists
  BY <1>1, LibraryAssumption DEF Lists
<1> QED
  BY <1>2 DEF Idle, Request

LEMMA PositionsFit == Positions \subseteq Nat /\ None \notin Positions /\ None \notin Nat
  BY LibraryAssumption DEF Positions

LEMMA LibraryInitInv == LibraryInit => LibraryInv
<1> SUFFICES ASSUME LibraryInit PROVE LibraryInv
  OBVIOUS
<1>1. LibraryTypeOK
  BY IdleFits DEF LibraryInit, LibraryTypeOK
<1>2. \A p \in Playlists : Present(p) = {}
  BY DEF LibraryInit, Present
<1>3. \A c \in Clients : RequestFits(c)
  BY IdleFits DEF LibraryInit, RequestFits
<1>4. PlaylistKeepsOrder
  BY DEF LibraryInit, PlaylistKeepsOrder
<1> QED
  BY <1>1, <1>2, <1>3, <1>4 DEF LibraryInv

-----------------------------------------------------------------------------
(* The rows other requests saw *)

(* When a request ends and takes the rows `dead' of p, the others keep      *)
(* their types, and what they saw of p and still know of is there.          *)
LEMMA EndsFit ==
    ASSUME LibraryInv, NEW c, NEW p, NEW dead \in SUBSET Tracks, EndsKilling(c, p, dead),
           \A q \in Playlists : q # p => pos'[q] = pos[q],
           p \in Playlists => \A t \in Present(p) \ dead : pos'[p][t] = pos[p][t]
    PROVE  req' \in [Clients -> Request] /\ \A d \in Clients : RequestFits(d)'
<1> USE DEF LibraryInv, LibraryTypeOK
<1>1. req' \in [Clients -> Request]
  <2>1. ASSUME NEW d \in Clients
        PROVE  [req[d] EXCEPT !.rows = @ \ dead] \in Request
    <3>1. req[d].rows \ dead \in SUBSET Tracks
      BY DEF Request
    <3>2. req[d] \in Request
      OBVIOUS
    <3> HIDE DEF LibraryInv, LibraryTypeOK
    <3> QED
      BY <3>1, <3>2 DEF Request
  <2> QED
    BY <2>1, IdleFits DEF EndsKilling
<1>2. ASSUME NEW d \in Clients
      PROVE  RequestFits(d)'
  <2>1. CASE req'[d] = Idle
    BY <2>1, IdleFits DEF RequestFits
  <2>2. CASE req'[d] = req[d] /\ req[d].playlist # p
    BY <2>2 DEF RequestFits, Present
  <2>3. CASE req'[d] = [req[d] EXCEPT !.rows = @ \ dead] /\ req[d].playlist = p
    <3>1. /\ req'[d].pc = req[d].pc
          /\ req'[d].playlist = req[d].playlist
          /\ req'[d].track = req[d].track
          /\ req'[d].top = req[d].top
          /\ req'[d].rows = req[d].rows \ dead
      BY <2>3 DEF Request
    <3>2. ASSUME req[d].pc \in {"replace", "insert"}
          PROVE  \A t \in req[d].rows \ dead :
                     t \in Present(p) /\ pos'[p][t] = pos[p][t]
      BY <2>3, <3>2 DEF RequestFits
    <3> QED
      BY <2>3, <3>1, <3>2 DEF RequestFits, Present
  <2> QED
    BY <2>1, <2>2, <2>3 DEF EndsKilling
<1> QED
  BY <1>1, <1>2

(* A request that begins or goes on, with no row changed.                   *)
LEMMA MovesFit ==
    ASSUME LibraryInv, NEW c \in Clients, NEW r \in Request, req' = [req EXCEPT ![c] = r],
           UNCHANGED <<state, pos, fav, ahead>>, RequestFits(c)'
    PROVE  LibraryInv'
<1> USE DEF LibraryInv, LibraryTypeOK
<1>1. \A d \in Clients : d # c => RequestFits(d)'
  BY DEF RequestFits, Present
<1> QED
  BY <1>1 DEF PlaylistKeepsOrder, Present

-----------------------------------------------------------------------------
(* Steps that change no row *)

(* The maximum of the positions of a playlist.                              *)
LEMMA HighestFits ==
    ASSUME LibraryInv, NEW p \in Playlists
    PROVE  /\ Highest(p) \in Nat \cup {None}
           /\ \A t \in Present(p) : Highest(p) # None /\ pos[p][t] <= Highest(p)
<1> USE DEF LibraryInv, LibraryTypeOK
<1> DEFINE S == {pos[p][t] : t \in Present(p)}
<1>1. CASE Present(p) = {}
  BY <1>1 DEF Highest
<1>2. CASE Present(p) # {}
  <2>0. \A t \in Present(p) : pos[p][t] \in Nat
    BY PositionsFit
  <2>1. S \in SUBSET Nat /\ S # {}
    BY <1>2, <2>0
  <2>2. MaxList + MaxPosition \in Nat
    BY LibraryAssumption
  <2>3. \A n \in S : n <= MaxList + MaxPosition
    BY <2>2 DEF Positions
  <2>4. \E n \in S : \A m \in S : m <= n
    BY <2>1, <2>2, <2>3, Greatest
  <2>5. \E n \in S : \A t \in Present(p) : pos[p][t] <= n
    BY <2>4
  <2>6. /\ Highest(p) \in S
        /\ \A t \in Present(p) : pos[p][t] <= Highest(p)
    BY <1>2, <2>5 DEF Highest
  <2> QED
    BY <2>1, <2>6, PositionsFit
<1> QED
  BY <1>1, <1>2

LEMMA QuietStep ==
    ASSUME LibraryInv, NEW c \in Clients,
           \/ \E p \in Playlists : \E list \in Lists : ReplaceDelete(c, p, list)
           \/ \E p \in Playlists, t \in Tracks : AddFind(c, p, t) \/ RemoveFind(c, p, t)
           \/ \E t \in Tracks : FavoriteFind(c, t) \/ UnfavoriteFind(c, t)
           \/ AddMaximum(c)
           \/ Abort(c)
    PROVE  LibraryInv'
<1>1. ASSUME NEW p \in Playlists, NEW list \in Lists, ReplaceDelete(c, p, list)
      PROVE  LibraryInv'
  <2> DEFINE r == [Idle EXCEPT !.pc = "replace", !.playlist = p, !.list = list,
                               !.rows = Present(p)]
  <2>1. r \in Request
    BY IdleFits DEF Request, Present
  <2>2. req' = [req EXCEPT ![c] = r] /\ UNCHANGED <<state, pos, fav, ahead>>
    BY <1>1 DEF ReplaceDelete, Begin
  <2>3. r.pc = "replace" /\ r.playlist = p /\ r.rows = Present(p)
    BY DEF Idle
  <2>4. req'[c] = r
    BY <2>2 DEF LibraryInv, LibraryTypeOK
  <2>5. RequestFits(c)'
    BY <2>2, <2>3, <2>4 DEF RequestFits, Present
  <2> QED
    BY <2>1, <2>2, <2>5, MovesFit
<1>2. ASSUME NEW p \in Playlists, NEW t \in Tracks, NEW pc \in {"maximum", "remove"},
             req' = [req EXCEPT ![c] = [Idle EXCEPT !.pc = pc, !.playlist = p, !.track = t]],
             UNCHANGED <<state, pos, fav, ahead>>
      PROVE  LibraryInv'
  <2> DEFINE r == [Idle EXCEPT !.pc = pc, !.playlist = p, !.track = t]
  <2>1. r \in Request
    BY IdleFits DEF Request
  <2>2. r.pc = pc /\ r.playlist = p /\ r.track = t
    BY DEF Idle
  <2>3. req'[c] = r
    BY <1>2 DEF LibraryInv, LibraryTypeOK
  <2>4. RequestFits(c)'
    BY <2>2, <2>3 DEF RequestFits
  <2> QED
    BY <1>2, <2>1, <2>4, MovesFit
<1>3. ASSUME NEW r \in Request, r.pc \in {"favorite", "unfavorite"}, r.track \in Tracks,
             req' = [req EXCEPT ![c] = r], UNCHANGED <<state, pos, fav, ahead>>
      PROVE  LibraryInv'
  <2>1. req'[c] = r
    BY <1>3 DEF LibraryInv, LibraryTypeOK
  <2>2. RequestFits(c)'
    BY <1>3, <2>1 DEF RequestFits
  <2> QED
    BY <1>3, <2>2, MovesFit
<1>4. ASSUME NEW t \in Tracks, FavoriteFind(c, t) \/ UnfavoriteFind(c, t)
      PROVE  LibraryInv'
  <2> DEFINE f == [Idle EXCEPT !.pc = "favorite", !.track = t]
             u == [Idle EXCEPT !.pc = "unfavorite", !.track = t, !.rows = {t}]
  <2>1. f \in Request /\ u \in Request
    BY IdleFits DEF Request
  <2>2. f.pc = "favorite" /\ f.track = t /\ u.pc = "unfavorite" /\ u.track = t
    BY DEF Idle
  <2> HIDE DEF f, u
  <2>3. \/ req' = [req EXCEPT ![c] = f]
        \/ req' = [req EXCEPT ![c] = u]
    BY <1>4 DEF FavoriteFind, UnfavoriteFind, Begin, f, u
  <2>4. UNCHANGED <<state, pos, fav, ahead>>
    BY <1>4 DEF FavoriteFind, UnfavoriteFind
  <2> QED
    BY <1>3, <2>1, <2>2, <2>3, <2>4
<1>5. CASE AddMaximum(c)
  <2> DEFINE p == req[c].playlist
             r == [req[c] EXCEPT !.pc = "insert", !.rows = Present(p), !.top = Highest(p)]
  <2>1. p \in Playlists /\ req[c].track \in Tracks /\ req[c] \in Request
    BY <1>5 DEF AddMaximum, LibraryInv, LibraryTypeOK, RequestFits
  <2>2. Highest(p) \in Nat \cup {None} /\ Present(p) \in SUBSET Tracks
    BY <2>1, HighestFits DEF Present
  <2>3. r \in Request
    BY <2>1, <2>2 DEF Request
  <2>4. req' = [req EXCEPT ![c] = r] /\ UNCHANGED <<state, pos, fav, ahead>>
    BY <1>5 DEF AddMaximum, LibraryInv, LibraryTypeOK
  <2>5. req'[c] = r
    BY <2>4 DEF LibraryInv, LibraryTypeOK
  <2>6. /\ r.pc = "insert" /\ r.playlist = p /\ r.track = req[c].track
        /\ r.rows = Present(p) /\ r.top = Highest(p)
    BY <2>1 DEF Request
  <2>7. \A t \in Present(p) : Highest(p) # None /\ pos[p][t] <= Highest(p)
    BY <2>1, HighestFits
  <2>8. req[c].track \in Tracks /\ p \in Playlists
    BY <2>1
  <2> HIDE DEF p, r
  <2>9. /\ req'[c].pc = "insert" /\ req'[c].playlist = p /\ req'[c].track \in Tracks
        /\ req'[c].rows = Present(p) /\ req'[c].top = Highest(p)
    BY <2>5, <2>6, <2>8
  <2>10. pos' = pos
    BY <2>4
  <2>11. RequestFits(c)'
    BY <2>7, <2>8, <2>9, <2>10 DEF RequestFits, Present
  <2> QED
    BY <2>3, <2>4, <2>11, MovesFit
<1>6. CASE Abort(c)
  <2>1. req'[c] = Idle
    BY <1>6 DEF Abort, LibraryInv, LibraryTypeOK
  <2>2. RequestFits(c)'
    BY <2>1, IdleFits DEF RequestFits
  <2> QED
    BY <1>6, <2>2, IdleFits, MovesFit DEF Abort
<1> QED
  BY <1>1, <1>2, <1>4, <1>5, <1>6 DEF AddFind, RemoveFind, Begin

-----------------------------------------------------------------------------
(* Steps that change rows *)

(* The rows `row' grant the wish ab: in that order, or both at 0.           *)
Granted(row, ab) ==
    /\ row[ab[1]] # None /\ row[ab[2]] # None
    /\ \/ row[ab[1]] < row[ab[2]]
       \/ ab[3] = "added" /\ row[ab[1]] = 0 /\ row[ab[2]] = 0

(* The rows of p become `row'; the requests fit already.                    *)
LEMMA RowsFit ==
    ASSUME LibraryInv, NEW p \in Playlists, NEW row \in [Tracks -> Positions \cup {None}],
           NEW wanted \in SUBSET Wishes,
           pos' = [pos EXCEPT ![p] = row], ahead' = [ahead EXCEPT ![p] = wanted],
           state' \in [Playlists -> {"absent", "live", "deleted"}],
           \A q \in Playlists : q # p => state'[q] = state[q],
           state'[p] # "live" => \A t \in Tracks : row[t] = None,
           fav' = fav,
           req' \in [Clients -> Request], \A c \in Clients : RequestFits(c)',
           \A ab \in wanted : Granted(row, ab)
    PROVE  LibraryInv'
<1> USE DEF LibraryInv, LibraryTypeOK
<1>1. row \in [Tracks -> Nat \cup {None}]
  BY PositionsFit
<1>2. LibraryTypeOK'
  BY <1>1
<1>3. \A t \in Tracks : pos'[p][t] = row[t]
  OBVIOUS
<1>4. \A q \in Playlists : q # p => pos'[q] = pos[q] /\ ahead'[q] = ahead[q]
  OBVIOUS
<1>5. \A q \in Playlists : \A t \in Present(q)' : pos'[q][t] \in Positions
  BY <1>3, <1>4 DEF Present
<1>6. \A q \in Playlists : state'[q] # "live" => Present(q)' = {}
  BY <1>3, <1>4 DEF Present
<1>7. PlaylistKeepsOrder'
  <2> SUFFICES ASSUME NEW q \in Playlists, NEW ab \in ahead'[q]
               PROVE  /\ {ab[1], ab[2]} \subseteq Present(q)'
                      /\ \/ pos'[q][ab[1]] < pos'[q][ab[2]]
                         \/ ab[3] = "added" /\ pos'[q][ab[1]] = 0 /\ pos'[q][ab[2]] = 0
    BY DEF PlaylistKeepsOrder
  <2>1. CASE q = p
    <3>1. ab \in wanted /\ Granted(row, ab)
      BY <2>1
    <3>2. ab[1] \in Tracks /\ ab[2] \in Tracks
      BY <3>1 DEF Wishes
    <3>3. pos'[q][ab[1]] = row[ab[1]] /\ pos'[q][ab[2]] = row[ab[2]]
      BY <1>3, <2>1, <3>2
    <3> QED
      BY <2>1, <3>1, <3>2, <3>3 DEF Granted, Present
  <2>2. CASE q # p
    BY <1>4, <2>2 DEF Present, PlaylistKeepsOrder
  <2> QED
    BY <2>1, <2>2
<1> QED
  BY <1>2, <1>5, <1>6, <1>7

(* The rows a replacement, an addition, a removal or a new playlist leaves  *)
(* are bounded, and in the order that is asked for.                         *)
LEMMA CreateStep ==
    ASSUME LibraryInv, NEW p \in Playlists, NEW list \in Lists, Create(p, list)
    PROVE  LibraryInv'
<1> DEFINE row == [t \in Tracks |-> IF t \in Named(list) THEN Position(list, t) ELSE None]
<1>1. \A t \in Named(list) : Position(list, t) \in Positions /\ Position(list, t) # None
  BY PositionBounded, PositionsFit, LibraryAssumption DEF Create, Positions
<1>2. row \in [Tracks -> Positions \cup {None}]
  BY <1>1
<1>3. InOrder(list) \in SUBSET Wishes
  BY ListInOrder DEF Create
<1>4. \A ab \in InOrder(list) : Granted(row, ab)
  <2> SUFFICES ASSUME NEW ab \in InOrder(list)
               PROVE  Granted(row, ab)
    OBVIOUS
  <2>1. /\ ab[1] \in Named(list) /\ ab[2] \in Named(list)
        /\ Position(list, ab[1]) < Position(list, ab[2])
    BY ListInOrder DEF Create
  <2>2. /\ row[ab[1]] = Position(list, ab[1])
        /\ row[ab[2]] = Position(list, ab[2])
    BY <2>1, ListFits
  <2> QED
    BY <1>1, <2>1, <2>2 DEF Granted
<1>5. req' = req /\ fav' = fav
  BY DEF Create
<1>6. Present(p) = {}
  BY DEF Create, LibraryInv
<1>7. \A q \in Playlists : q # p => pos'[q] = pos[q]
  BY DEF Create, LibraryInv, LibraryTypeOK
<1>8. \A c \in Clients : RequestFits(c)'
  <2> SUFFICES ASSUME NEW c \in Clients PROVE RequestFits(c)'
    OBVIOUS
  <2>1. RequestFits(c)
    BY DEF LibraryInv
  <2>2. CASE req[c].playlist = p
    BY <1>5, <1>6, <2>1, <2>2 DEF RequestFits
  <2>3. CASE req[c].playlist # p
    BY <1>5, <1>7, <2>1, <2>3 DEF RequestFits, Present
  <2> QED
    BY <2>2, <2>3
<1>9. /\ pos' = [pos EXCEPT ![p] = row]
      /\ ahead' = [ahead EXCEPT ![p] = InOrder(list)]
  BY DEF Create
<1>10. /\ state' \in [Playlists -> {"absent", "live", "deleted"}]
       /\ state'[p] = "live"
       /\ \A q \in Playlists : q # p => state'[q] = state[q]
  BY DEF Create, LibraryInv, LibraryTypeOK
<1>11. req' \in [Clients -> Request]
  BY <1>5 DEF LibraryInv, LibraryTypeOK
<1> HIDE DEF row
<1> QED
  BY <1>2, <1>3, <1>4, <1>5, <1>8, <1>9, <1>10, <1>11, RowsFit

(* Every position a playlist keeps is one it had.                           *)
LEMMA KeptFits ==
    ASSUME LibraryInv, NEW p \in Playlists
    PROVE  /\ \A t \in Tracks : pos[p][t] \in Positions \cup {None}
           /\ \A t \in Present(p) : t \in Tracks /\ pos[p][t] # None
           /\ \A ab \in ahead[p] : /\ ab \in Wishes
                                   /\ ab[1] \in Present(p) /\ ab[2] \in Present(p)
                                   /\ Granted(pos[p], ab)
  BY DEF LibraryInv, LibraryTypeOK, PlaylistKeepsOrder, Present, Granted

LEMMA ReplaceStep ==
    ASSUME LibraryInv, NEW c \in Clients, ReplaceCommit(c)
    PROVE  LibraryInv'
<1> DEFINE p == req[c].playlist
           list == req[c].list
           later == Later(c)
           row == [t \in Tracks |-> IF t \in Named(list) THEN Position(list, t)
                                    ELSE IF t \in later THEN pos[p][t] ELSE None]
           wanted == InOrder(list) \cup {ab \in ahead[p] : {ab[1], ab[2]} \subseteq later}
<1>1. p \in Playlists /\ list \in Lists /\ req[c].rows \in SUBSET Tracks
  BY DEF ReplaceCommit, LibraryInv, LibraryTypeOK, RequestFits, Request
<1>2. Distinct(list) /\ Named(list) \cap later = {}
  BY DEF ReplaceCommit
<1>3. later = Present(p) \ req[c].rows
  BY DEF Later
<1>4. /\ pos' = [pos EXCEPT ![p] = row]
      /\ ahead' = [ahead EXCEPT ![p] = wanted]
      /\ EndsKilling(c, p, req[c].rows)
      /\ state' = state /\ fav' = fav /\ state[p] = "live"
  BY <1>1 DEF ReplaceCommit, LibraryInv, LibraryTypeOK
<1>5. \A t \in Named(list) : Position(list, t) \in Positions /\ Position(list, t) # None
  BY <1>1, <1>2, PositionBounded, PositionsFit, LibraryAssumption DEF Positions
<1>6. Named(list) \subseteq Tracks
  BY <1>1, ListFits
<1>7. row \in [Tracks -> Positions \cup {None}]
  BY <1>1, <1>5, KeptFits
<1>8. \A t \in later : t \in Tracks /\ row[t] = pos[p][t] /\ pos[p][t] # None
  BY <1>1, <1>2, <1>3, KeptFits
<1>9. \A ab \in wanted : ab \in Wishes /\ Granted(row, ab)
  <2> SUFFICES ASSUME NEW ab \in wanted
               PROVE  ab \in Wishes /\ Granted(row, ab)
    OBVIOUS
  <2>1. CASE ab \in InOrder(list)
    <3>1. /\ ab \in Wishes
          /\ ab[1] \in Named(list) /\ ab[2] \in Named(list)
          /\ Position(list, ab[1]) < Position(list, ab[2])
      BY <1>1, <1>2, <2>1, ListInOrder
    <3>2. /\ row[ab[1]] = Position(list, ab[1])
          /\ row[ab[2]] = Position(list, ab[2])
      BY <1>6, <3>1
    <3> QED
      BY <1>5, <3>1, <3>2 DEF Granted
  <2>2. CASE ab \in ahead[p] /\ {ab[1], ab[2]} \subseteq later
    <3>1. ab \in Wishes /\ Granted(pos[p], ab)
      BY <1>1, <2>2, KeptFits
    <3> QED
      BY <1>8, <2>2, <3>1 DEF Granted
  <2> QED
    BY <2>1, <2>2
<1>10. /\ \A q \in Playlists : q # p => pos'[q] = pos[q]
       /\ \A t \in Present(p) \ req[c].rows : pos'[p][t] = pos[p][t]
  BY <1>1, <1>3, <1>4, <1>8 DEF LibraryInv, LibraryTypeOK
<1>11. req' \in [Clients -> Request] /\ \A d \in Clients : RequestFits(d)'
  BY <1>1, <1>4, <1>10, EndsFit
<1>12. wanted \in SUBSET Wishes
  BY <1>9
<1>13. state' \in [Playlists -> {"absent", "live", "deleted"}]
  BY <1>4 DEF LibraryInv, LibraryTypeOK
<1> HIDE DEF row, wanted, p
<1> QED
  BY <1>1, <1>4, <1>7, <1>9, <1>11, <1>12, <1>13, RowsFit

LEMMA AddStep ==
    ASSUME LibraryInv, NEW c \in Clients, AddCommit(c)
    PROVE  LibraryInv'
<1> DEFINE p == req[c].playlist
           t == req[c].track
           new == NextPosition(req[c].top)
           row == [pos[p] EXCEPT ![t] = new]
           wanted == ahead[p] \cup {<<s, t, "added">> : s \in req[c].rows}
<1>1. /\ p \in Playlists /\ t \in Tracks
      /\ req[c].top \in Nat \cup {None}
      /\ req[c].rows \subseteq Present(p)
      /\ \A s \in req[c].rows : req[c].top # None /\ pos[p][s] <= req[c].top
  BY DEF AddCommit, LibraryInv, LibraryTypeOK, RequestFits, Request
<1>2. /\ pos' = [pos EXCEPT ![p] = row]
      /\ ahead' = [ahead EXCEPT ![p] = wanted]
      /\ EndsKilling(c, p, {})
      /\ state' = state /\ fav' = fav /\ state[p] = "live"
      /\ t \notin Present(p) /\ new <= MaxPosition
  BY <1>1 DEF AddCommit, LibraryInv, LibraryTypeOK
<1>3. /\ new \in Nat
      /\ req[c].top \in Nat /\ req[c].top # 0 => new = req[c].top + 1
      /\ req[c].top = 0 => new = 0
  BY <1>1, PositionsFit DEF NextPosition
<1>4. new \in Positions /\ new # None
  BY <1>2, <1>3, LibraryAssumption, PositionsFit DEF Positions
<1>5. pos[p] \in [Tracks -> Nat \cup {None}]
  BY <1>1 DEF LibraryInv, LibraryTypeOK
<1>6. row \in [Tracks -> Positions \cup {None}]
  BY <1>1, <1>4, <1>5, KeptFits
<1>7. /\ row[t] = new
      /\ \A s \in Present(p) : s \in Tracks /\ s # t /\ row[s] = pos[p][s] /\ row[s] # None
  BY <1>1, <1>2, <1>5, KeptFits
<1>8. \A ab \in wanted : ab \in Wishes /\ Granted(row, ab)
  <2> SUFFICES ASSUME NEW ab \in wanted
               PROVE  ab \in Wishes /\ Granted(row, ab)
    OBVIOUS
  <2>1. CASE ab \in ahead[p]
    <3>1. /\ ab \in Wishes
          /\ ab[1] \in Present(p) /\ ab[2] \in Present(p)
          /\ Granted(pos[p], ab)
      BY <1>1, <2>1, KeptFits
    <3> QED
      BY <1>7, <3>1 DEF Granted
  <2>2. CASE ab \in {<<s, t, "added">> : s \in req[c].rows}
    <3>1. /\ ab[1] \in req[c].rows /\ ab[2] = t /\ ab[1] \in Present(p)
          /\ ab = <<ab[1], t, "added">>
      BY <1>1, <2>2
    <3>2. req[c].top # None /\ pos[p][ab[1]] <= req[c].top
      BY <1>1, <3>1
    <3>3. req[c].top \in Nat /\ (new = req[c].top + 1 \/ (req[c].top = 0 /\ new = 0))
      BY <1>1, <1>3, <3>2
    <3>4. pos[p][ab[1]] \in Nat
      BY <1>1, <3>1, KeptFits, PositionsFit
    <3>5. ab[1] \in Tracks /\ row[ab[1]] = pos[p][ab[1]] /\ row[ab[1]] # None
      BY <1>7, <3>1
    <3>6. ab \in Wishes /\ ab[3] = "added"
      BY <1>1, <3>1, <3>5 DEF Wishes
    <3>7. row[ab[2]] = new /\ new # None /\ new \in Nat
      BY <1>3, <1>4, <1>7, <3>1
    <3>8. row[ab[1]] < row[ab[2]] \/ (row[ab[1]] = 0 /\ row[ab[2]] = 0)
      BY <3>2, <3>3, <3>4, <3>5, <3>7
    <3> QED
      BY <3>5, <3>6, <3>7, <3>8 DEF Granted
  <2> QED
    BY <2>1, <2>2
<1>9. /\ \A q \in Playlists : q # p => pos'[q] = pos[q]
      /\ \A s \in Present(p) : pos'[p][s] = pos[p][s]
  BY <1>1, <1>2, <1>7 DEF LibraryInv, LibraryTypeOK
<1>10. req' \in [Clients -> Request] /\ \A d \in Clients : RequestFits(d)'
  BY <1>1, <1>2, <1>9, EndsFit
<1>11. wanted \in SUBSET Wishes
  BY <1>8
<1>12. state' \in [Playlists -> {"absent", "live", "deleted"}]
  BY <1>2 DEF LibraryInv, LibraryTypeOK
<1> HIDE DEF row, wanted, p
<1> QED
  BY <1>1, <1>2, <1>6, <1>8, <1>10, <1>11, <1>12, RowsFit

LEMMA RemoveStep ==
    ASSUME LibraryInv, NEW c \in Clients, RemoveCommit(c)
    PROVE  LibraryInv'
<1> DEFINE p == req[c].playlist
           t == req[c].track
           row == [pos[p] EXCEPT ![t] = None]
           wanted == {ab \in ahead[p] : t \notin {ab[1], ab[2]}}
<1>1. p \in Playlists /\ t \in Tracks
  BY DEF RemoveCommit, LibraryInv, LibraryTypeOK, RequestFits
<1>2. /\ pos' = [pos EXCEPT ![p] = row]
      /\ ahead' = [ahead EXCEPT ![p] = wanted]
      /\ EndsKilling(c, p, {t})
      /\ state' = state /\ fav' = fav
  BY <1>1 DEF RemoveCommit, LibraryInv, LibraryTypeOK
<1>3. pos[p] \in [Tracks -> Nat \cup {None}]
  BY <1>1 DEF LibraryInv, LibraryTypeOK
<1>4. row \in [Tracks -> Positions \cup {None}]
  BY <1>1, <1>3, KeptFits
<1>5. \A s \in Present(p) : s # t => s \in Tracks /\ row[s] = pos[p][s] /\ row[s] # None
  BY <1>1, <1>3, KeptFits
<1>6. \A ab \in wanted : ab \in Wishes /\ Granted(row, ab)
  BY <1>1, <1>5, KeptFits DEF Granted
<1>7. /\ \A q \in Playlists : q # p => pos'[q] = pos[q]
      /\ \A s \in Present(p) \ {t} : pos'[p][s] = pos[p][s]
  BY <1>1, <1>2, <1>5 DEF LibraryInv, LibraryTypeOK
<1>8. req' \in [Clients -> Request] /\ \A d \in Clients : RequestFits(d)'
  BY <1>1, <1>2, <1>7, EndsFit
<1>9. wanted \in SUBSET Wishes
  BY <1>6
<1>10. state' \in [Playlists -> {"absent", "live", "deleted"}]
  BY <1>2 DEF LibraryInv, LibraryTypeOK
<1>11. state'[p] # "live" => \A s \in Tracks : row[s] = None
  BY <1>1, <1>2, <1>3 DEF LibraryInv, Present
<1> HIDE DEF row, wanted, p
<1> QED
  BY <1>1, <1>2, <1>4, <1>6, <1>8, <1>9, <1>10, <1>11, RowsFit

LEMMA DeleteStep ==
    ASSUME LibraryInv, NEW p \in Playlists, DeletePlaylist(p)
    PROVE  LibraryInv'
<1> DEFINE row == [t \in Tracks |-> None]
<1>1. /\ pos' = [pos EXCEPT ![p] = row]
      /\ ahead' = [ahead EXCEPT ![p] = {}]
      /\ EndsKilling(None, p, Present(p))
      /\ state' \in [Playlists -> {"absent", "live", "deleted"}]
      /\ \A q \in Playlists : q # p => state'[q] = state[q]
      /\ fav' = fav
  BY DEF DeletePlaylist, LibraryInv, LibraryTypeOK
<1>2. \A q \in Playlists : q # p => pos'[q] = pos[q]
  BY <1>1 DEF LibraryInv, LibraryTypeOK
<1>3. Present(p) \in SUBSET Tracks
  BY DEF Present
<1>4. req' \in [Clients -> Request] /\ \A d \in Clients : RequestFits(d)'
  BY <1>1, <1>2, <1>3, EndsFit
<1>5. /\ row \in [Tracks -> Positions \cup {None}]
      /\ \A t \in Tracks : row[t] = None
  OBVIOUS
<1> DEFINE wanted == {}
<1>6. /\ wanted \in SUBSET Wishes
      /\ ahead' = [ahead EXCEPT ![p] = wanted]
      /\ \A ab \in wanted : Granted(row, ab)
  BY <1>1
<1> HIDE DEF row, wanted
<1> QED
  BY <1>1, <1>4, <1>5, <1>6, RowsFit

LEMMA FavoriteStep ==
    ASSUME LibraryInv, NEW c \in Clients, FavoriteCommit(c) \/ UnfavoriteCommit(c)
    PROVE  LibraryInv'
<1>1. /\ UNCHANGED <<state, pos, ahead>>
      /\ fav' \subseteq Tracks
      /\ \E dead \in SUBSET Tracks : EndsKilling(c, None, dead)
  BY DEF FavoriteCommit, UnfavoriteCommit, LibraryInv, LibraryTypeOK, RequestFits, Request
<1>2. req' \in [Clients -> Request] /\ \A d \in Clients : RequestFits(d)'
  BY <1>1, EndsFit, LibraryAssumption
<1> QED
  BY <1>1, <1>2 DEF LibraryInv, LibraryTypeOK, PlaylistKeepsOrder, Present

LEMMA LibraryStep ==
    ASSUME LibraryInv, [LibraryNext]_libraryVars
    PROVE  LibraryInv'
<1>1. CASE UNCHANGED libraryVars
  BY <1>1 DEF libraryVars, LibraryInv, LibraryTypeOK, RequestFits, PlaylistKeepsOrder, Present
<1>2. CASE PlaylistNext
  BY <1>2, QuietStep, CreateStep, ReplaceStep, AddStep, RemoveStep, DeleteStep
     DEF PlaylistNext
<1>3. CASE FavoriteNext
  BY <1>3, QuietStep, FavoriteStep DEF FavoriteNext
<1> QED
  BY <1>1, <1>2, <1>3 DEF LibraryNext

-----------------------------------------------------------------------------
(* The inductive invariant of playlists and favourites.                     *)
THEOREM LibraryInvariant == LibrarySpec => []LibraryInv
  BY LibraryInitInv, LibraryStep, PTL DEF LibrarySpec

(* The variables keep their types.                                          *)
THEOREM LibraryTypeCorrect == LibrarySpec => []LibraryTypeOK
<1>1. LibraryInv => LibraryTypeOK
  BY DEF LibraryInv
<1> QED
  BY LibraryInvariant, <1>1, PTL

(* No track gets ahead of one its owner put before it, however              *)
(* replacements, additions and removals of a playlist's tracks interleave   *)
(* (_set_playlist_tracks, add_track_to_user_playlist); all that is lost is  *)
(* the order of tracks added while the maximum is 0, which share it.        *)
THEOREM PlaylistOrderKept == LibrarySpec => []PlaylistKeepsOrder
<1>1. LibraryInv => PlaylistKeepsOrder
  BY DEF LibraryInv
<1> QED
  BY LibraryInvariant, <1>1, PTL

(* A track leaves a playlist, and a favourite goes, only by a request that  *)
(* knew of that very row, or with the playlist.                             *)
THEOREM NothingLostUnknowingly == LibrarySpec => EntriesLostKnowingly
<1> DEFINE Known == /\ \A p \in Playlists : \A t \in Present(p) :
                          \/ pos'[p][t] # None
                          \/ state'[p] = "deleted"
                          \/ \E c \in Clients :
                              /\ req[c].playlist = p /\ req'[c].pc = "idle"
                              /\ \/ req[c].pc = "remove" /\ req[c].track = t
                                 \/ req[c].pc = "replace" /\ t \in req[c].rows
                    /\ \A t \in fav \ fav' : \E c \in Clients :
                          req[c].pc = "unfavorite" /\ req'[c].pc = "idle" /\ t \in req[c].rows
<1>1. ASSUME LibraryInv, LibraryNext
      PROVE  Known
  <2> USE <1>1
  <2> USE DEF LibraryInv, LibraryTypeOK
  <2>1. ASSUME UNCHANGED <<pos, fav>> PROVE Known
    BY <2>1 DEF Present
  <2>2. ASSUME NEW p \in Playlists, NEW list \in Lists, Create(p, list) PROVE Known
    <3>1. Present(p) = {} /\ fav' = fav
      BY <2>2 DEF Create
    <3>2. \A q \in Playlists : q # p => pos'[q] = pos[q]
      BY <2>2 DEF Create
    <3> QED
      BY <3>1, <3>2 DEF Present
  <2>3. ASSUME NEW p \in Playlists, DeletePlaylist(p) PROVE Known
    BY <2>3 DEF DeletePlaylist, Present
  <2>4. ASSUME NEW c \in Clients, ReplaceCommit(c) PROVE Known
    <3> DEFINE p == req[c].playlist
               list == req[c].list
    <3>1. p \in Playlists /\ list \in Lists /\ fav' = fav
      BY <2>4 DEF ReplaceCommit, RequestFits, Request
    <3>2. req[c].pc = "replace" /\ req'[c].pc = "idle" /\ Distinct(list)
      BY <2>4, IdleFits DEF ReplaceCommit, EndsKilling
    <3>3. \A q \in Playlists : q # p => pos'[q] = pos[q]
      BY <2>4 DEF ReplaceCommit
    <3>4. ASSUME NEW t \in Present(p), t \notin req[c].rows
          PROVE  pos'[p][t] # None
      <4>1. t \in Tracks /\ pos[p][t] # None /\ t \in Later(c)
        BY <3>4 DEF Present, Later
      <4>2. t \in Named(list) => Position(list, t) # None
        BY <3>1, <3>2, PositionBounded, PositionsFit
      <4>3. pos'[p][t] = IF t \in Named(list) THEN Position(list, t) ELSE pos[p][t]
        BY <2>4, <3>1, <4>1 DEF ReplaceCommit
      <4> QED
        BY <4>1, <4>2, <4>3
    <3> QED
      BY <3>1, <3>2, <3>3, <3>4 DEF Present
  <2>5. ASSUME NEW c \in Clients, AddCommit(c) PROVE Known
    <3>1. /\ req[c].playlist \in Playlists /\ req[c].track \in Tracks /\ fav' = fav
          /\ req[c].top \in Nat \cup {None}
      BY <2>5 DEF AddCommit, RequestFits, Request
    <3>2. NextPosition(req[c].top) # None
      BY <3>1, PositionsFit DEF NextPosition
    <3> QED
      BY <2>5, <3>1, <3>2 DEF AddCommit, Present
  <2>6. ASSUME NEW c \in Clients, RemoveCommit(c) PROVE Known
    <3>1. req[c].playlist \in Playlists /\ req[c].track \in Tracks /\ fav' = fav
      BY <2>6 DEF RemoveCommit, RequestFits
    <3>2. req[c].pc = "remove" /\ req'[c].pc = "idle"
      BY <2>6, IdleFits DEF RemoveCommit, EndsKilling
    <3> QED
      BY <2>6, <3>1, <3>2 DEF RemoveCommit, Present
  <2>7. ASSUME NEW c \in Clients, FavoriteCommit(c) \/ UnfavoriteCommit(c) PROVE Known
    BY <2>7, IdleFits DEF FavoriteCommit, UnfavoriteCommit, EndsKilling, Present
  <2>8. CASE PlaylistNext
    BY <2>1, <2>2, <2>3, <2>4, <2>5, <2>6, <2>8
       DEF PlaylistNext, ReplaceDelete, AddFind, RemoveFind, AddMaximum, Abort
  <2>9. CASE FavoriteNext
    BY <2>1, <2>7, <2>9 DEF FavoriteNext, FavoriteFind, UnfavoriteFind, Abort
  <2> QED
    BY <2>8, <2>9 DEF LibraryNext
<1>2. LibraryInv /\ [LibraryNext]_libraryVars => [Known]_libraryVars
  BY <1>1
<1> QED
  BY LibraryInvariant, <1>2, PTL DEF LibrarySpec, EntriesLostKnowingly
=============================================================================
