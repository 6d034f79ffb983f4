------------------------- MODULE DeliveryLifecycle --------------------------
(***************************************************************************)
(* What the list of deliveries promises the admin who reads it             *)
(* (models/webhook.py, DeliveryStatus; list_deliveries): a delivery is     *)
(* pending until something is recorded of it and never again after; what   *)
(* is recorded has evidence; and nothing comes back once it was deleted.   *)
(* Several workers may record, so a later status may contradict an earlier *)
(* one, but each of them is backed by what happened.                       *)
(***************************************************************************)
EXTENDS Naturals

CONSTANTS
    Deliveries,
    MaxAttempts

VARIABLES
    status,    \* what the list shows
    posts,     \* evidence: requests sent, counted up to MaxAttempts
    acked,     \* evidence: deliveries answered with 2xx
    refused    \* evidence: deliveries whose subscription was found inactive

Recorded == {"retrying", "success", "failed"}

DeliveryInit ==
    /\ status = [d \in Deliveries |-> "absent"]
    /\ posts = [d \in Deliveries |-> 0]
    /\ acked = {}
    /\ refused = {}

Backed(d, s) ==
    \/ s = "retrying" /\ posts[d] > 0
    \/ s = "success" /\ d \in acked
    \/ s = "failed" /\ (d \in refused \/ posts[d] = MaxAttempts)

(* The moves of one delivery; a commit moves several at once.               *)
Announced(d) == status[d] = "absent" /\ status'[d] = "pending"
Concluded(d) == /\ status[d] \in Recorded \cup {"pending"}
                /\ status'[d] \in Recorded
                /\ Backed(d, status'[d])
Dropped(d) == status[d] # "absent" /\ status'[d] = "deleted"

Record ==
    /\ \A d \in Deliveries :
          status'[d] = status[d] \/ Announced(d) \/ Concluded(d) \/ Dropped(d)
    /\ UNCHANGED <<posts, acked, refused>>

(* A delivery that the list has shown is sent, and may be answered.         *)
Attempt(d) ==
    /\ status[d] # "absent"
    /\ posts' = [posts EXCEPT ![d] = IF @ < MaxAttempts THEN @ + 1 ELSE @]
    /\ acked' \in {acked, acked \cup {d}}
    /\ UNCHANGED <<status, refused>>

Refuse(d) ==
    /\ status[d] # "absent"
    /\ refused' = refused \cup {d}
    /\ UNCHANGED <<status, posts, acked>>

DeliveryNext == Record \/ \E d \in Deliveries : Attempt(d) \/ Refuse(d)

DeliverySpec == DeliveryInit /\ [][DeliveryNext]_<<status, posts, acked, refused>>
=============================================================================
