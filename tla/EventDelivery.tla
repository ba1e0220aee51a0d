--------------------------- MODULE EventDelivery ---------------------------
(***************************************************************************)
(* What the webhook ledger promises the rest of billing: an event of a     *)
(* provider is stored before anything else happens to it, a stored event   *)
(* stays until it has been reduced, it may be reduced again at any later   *)
(* time and in any order with other events, and the provider is told 200   *)
(* only for an event that is stored.  WebhookLedger implements this        *)
(* module; the modules that reduce events are built on it.                 *)
(***************************************************************************)

CONSTANT Events     \* provider events, each with its own provider_event_id

VARIABLES
    stage,      \* stage[e]: "new", "kept" in the ledger, or "done": reduced at least once
    acked       \* events a delivery of which was answered with 200

deliveryVars == <<stage, acked>>

DeliveryInit ==
    /\ stage = [e \in Events |-> "new"]
    /\ acked = {}

(* The delivery is verified and its row inserted. *)
Keep(e) ==
    /\ stage[e] = "new"
    /\ stage' = [stage EXCEPT ![e] = "kept"]
    /\ UNCHANGED acked

(* The reduction commits: for the first time, or again. *)
Reduce(e) ==
    /\ stage[e] # "new"
    /\ stage' = [stage EXCEPT ![e] = "done"]
    /\ UNCHANGED acked

Acknowledge(e) ==
    /\ stage[e] # "new"
    /\ acked' = acked \cup {e}
    /\ UNCHANGED stage

DeliveryNext == \E e \in Events : Keep(e) \/ Reduce(e) \/ Acknowledge(e)

DeliverySpec == DeliveryInit /\ [][DeliveryNext]_deliveryVars
============================================================================
