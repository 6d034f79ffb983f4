----------------------------- MODULE MCDelivery -----------------------------
(***************************************************************************)
(* The instance of Webhooks for liveness.  It takes up one of two small    *)
(* worlds, chosen at the start (`focus'): one delivery in the hands of     *)
(* several workers, or more deliveries than a batch holds, in those of one.*)
(* Any worker may crash.                                                   *)
(***************************************************************************)
EXTENDS Webhooks

CONSTANTS d1, w1

VARIABLE focus

Within ==
    CASE focus = "workers" ->
            \A d \in Deliveries \ {d1} :
                row[d].st = "absent" /\ \A w \in Workers : draft[w][d] = None
      [] focus = "batch" -> \A w \in Workers \ {w1} : pc[w] = "idle"

MCInit == Init /\ focus \in {"workers", "batch"}

MCNext == Next /\ UNCHANGED focus /\ Within'

Begun(w) == WorkerStep(w) /\ UNCHANGED focus
Retry(w) == StartRetry(w) /\ UNCHANGED focus /\ Within'

(* Fairness of Webhooks, for the workers of the world.                      *)
MCFairness ==
    /\ \A w \in Workers : WF_<<vars, focus>>(Begun(w)) /\ WF_<<vars, focus>>(Retry(w))
    /\ \A d \in Deliveries : WF_<<vars, focus>>(BackoffElapses(d) /\ UNCHANGED focus)

MCSpec == MCInit /\ [][MCNext]_<<vars, focus>> /\ MCFairness
=============================================================================
