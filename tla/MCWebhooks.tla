----------------------------- MODULE MCWebhooks -----------------------------
(* Instances of Webhooks for TLC.  Symmetry is for the runs that check      *)
(* no liveness.                                                             *)
EXTENDS Webhooks, TLC

Symmetry ==
    Permutations(Subs) \cup Permutations(Deliveries) \cup Permutations(Workers)
=============================================================================
