------------------------------- MODULE MCJobs -------------------------------
(* Instances of Jobs for TLC.  Row ids are interchangeable, so they are     *)
(* used up in one order only; a prune job takes the steps of a webhook job, *)
(* which stands for both; and the third row is a reindex, of a request or   *)
(* after an import, since jobs meet only where one follows the other.       *)
EXTENDS Jobs, Sequences

CONSTANTS j1, j2, j3

Order == <<j1, j2, j3>>

InOrder ==
    \A a, b \in DOMAIN Order :
        a < b /\ {Order[a], Order[b]} \subseteq JobIds /\ status[Order[b]] # "absent" =>
            status[Order[a]] # "absent"

Representative ==
    \A j \in JobIds :
        /\ kind[j] # "prune_play_events"
        /\ j = j3 => kind[j] \notin {"import_catalog", "webhook_delivery"}

MCNext == Next /\ InOrder' /\ Representative'

MCSpec == Init /\ [][MCNext]_vars /\ Fairness
=============================================================================
