----------------------------- MODULE MCLibrary ------------------------------
(***************************************************************************)
(* Playlists, favourites, the play history and the rate limits share no    *)
(* state and no process: no interleaving of one with another tells more    *)
(* than each alone.  A behaviour of this module runs one of them, chosen   *)
(* at the start (`focus'), so that TLC meets the sum of their states and   *)
(* not the product.                                                        *)
(***************************************************************************)
EXTENDS Library, PlayHistory, RateLimit

VARIABLE focus

vars == <<libraryVars, historyVars, rateVars, focus>>

Init ==
    /\ LibraryInit
    /\ HistoryInit
    /\ RateInit
    /\ focus \in {"playlists", "favourites", "history", "rate"}
    /\ route \in IF focus = "rate" THEN {Login, Export} ELSE {Login}

Next ==
    /\ UNCHANGED focus
    /\ \/ focus = "playlists" /\ PlaylistNext /\ UNCHANGED <<historyVars, rateVars>>
       \/ focus = "favourites" /\ FavoriteNext /\ UNCHANGED <<historyVars, rateVars>>
       \/ focus = "history" /\ HistoryNext /\ UNCHANGED <<libraryVars, rateVars>>
       \/ focus = "rate" /\ RateNext /\ UNCHANGED <<libraryVars, historyVars>>

(* HistoryFairness and RateFairness of the component that runs.             *)
Fairness ==
    /\ \A h \in Tasks : WF_vars(focus = "history" /\ Advance(h)
                                 /\ UNCHANGED <<libraryVars, rateVars, focus>>)
    /\ SF_vars(focus = "history" /\ (\E h \in Tasks : PruneAll(h))
                /\ UNCHANGED <<libraryVars, rateVars, focus>>)
    /\ \A n \in 1..2, i \in Identities :
            WF_vars(focus = "rate" /\ n <= Len(route) /\ WindowEnds(n, i)
                    /\ UNCHANGED <<libraryVars, historyVars, focus>>)
    /\ \A c \in Callers : WF_vars(focus = "rate" /\ (Expire(c) \/ Decide(c))
                                   /\ UNCHANGED <<libraryVars, historyVars, focus>>)

Spec == Init /\ [][Next]_vars /\ Fairness

TypeOK == LibraryTypeOK /\ HistoryTypeOK /\ RateTypeOK
=============================================================================
