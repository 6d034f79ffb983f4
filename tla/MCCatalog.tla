----------------------------- MODULE MCCatalog ------------------------------
(***************************************************************************)
(* The catalog as it is served, the sessions of a played key and the       *)
(* ingest of played tracks.  The ingest meets the catalog in the action    *)
(* Ingest and the sessions in the click that starts it; nothing else is    *)
(* shared.  A behaviour of this module runs one of the three, chosen at    *)
(* the start (`focus').                                                    *)
(***************************************************************************)
EXTENDS Catalog, PlaySession, TrackIngest

VARIABLE focus

vars == <<catalogVars, playVars, ingestVars, focus>>

(* The catalog starts with published rows and rows without a date; dates in *)
(* the future come with the edits.                                          *)
Init ==
    /\ CatalogInit
    /\ row["playlist"].pub = "past"
    /\ row["album"].pub \in {"absent", "past"}
    /\ \A t \in Tracks : row[t].pub \in {"none", "past"}
    /\ PlayInit
    /\ IngestInit
    /\ focus \in {"catalog", "play", "ingest"}
    /\ focus # "catalog" =>
            /\ followed = <<"tracks", "list">>
            /\ \A k \in Rows : row[k].pub = "past"
    /\ focus # "ingest" => ~artist

Next ==
    /\ UNCHANGED focus
    /\ \/ focus = "catalog" /\ CatalogNext /\ UNCHANGED <<playVars, ingestVars>>
       \/ focus = "play" /\ PlayNext /\ UNCHANGED <<catalogVars, ingestVars>>
       \/ focus = "ingest" /\ IngestNext /\ UNCHANGED <<catalogVars, playVars>>

(* CatalogFairness.                                                         *)
Fairness == WF_vars(focus = "catalog" /\ Expires /\ UNCHANGED <<playVars, ingestVars, focus>>)

Spec == Init /\ [][Next]_vars /\ Fairness

TypeOK == CatalogTypeOK /\ PlayTypeOK /\ IngestTypeOK
=============================================================================
