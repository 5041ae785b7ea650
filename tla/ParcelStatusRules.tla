------------------------- MODULE ParcelStatusRules -------------------------
(***************************************************************************)
(* The pure rules behind every parcel status change: the lifecycle map,    *)
(* the status classes, which leg a rider owns, and the two questions the   *)
(* money paths ask of a move (does it undo a delivery, does it rewrite the *)
(* cash collected).  Translated from types/order.type.ts and               *)
(* services/orders/{status-shared,scope,codGuards,status-carrier}.ts.      *)
(***************************************************************************)
EXTENDS Integers, Sequences

(* The parcel_status enum, one set per stage of the lifecycle. *)
PickupStages   == {"pickup_ordered", "rider_assigned", "picked_up",
                   "arrived", "failed_pickup"}
TransitStages  == {"oov", "dispatched", "arrived_at_branch", "hold",
                   "loss_and_damage"}
DeliveryStages == {"ready_to_deliver", "sent_for_delivery", "delivered",
                   "partially_delivered", "failed_delivery"}
ReturnStages   == {"follow_up", "ready_to_return", "sent_to_vendor",
                   "returned_to_vendor"}
Status == PickupStages \cup TransitStages \cup DeliveryStages
            \cup ReturnStages \cup {"cancelled"}

TERMINAL_STATUSES         == {"delivered", "cancelled", "returned_to_vendor"}
DELIVERY_STATUSES         == {"delivered", "partially_delivered"}
HUB_OPERATION_STATUSES    == {"arrived", "dispatched", "arrived_at_branch"}
RETURN_WORKFLOW_STATUSES  == ReturnStages
OPS_RESTRICTED_STATUSES   == {"hold", "loss_and_damage"}
PICKUP_LEG_STATUSES       == PickupStages \ {"arrived"}
DELIVERY_LEG_STATUSES     == {"ready_to_deliver", "sent_for_delivery",
                              "failed_delivery"}
DELIVERY_RIDER_HELD_STATUSES ==
  DELIVERY_STATUSES \cup {"sent_for_delivery", "failed_delivery",
                          "sent_to_vendor", "returned_to_vendor"}

(* STATUS_TRANSITIONS[s]: where the ordinary workflow may take s. *)
STATUS_TRANSITIONS ==
  [s \in Status |->
     CASE s = "pickup_ordered"      -> {"rider_assigned", "cancelled"}
       [] s = "rider_assigned"      -> {"picked_up", "failed_pickup", "cancelled"}
       [] s = "picked_up"           -> {"arrived", "failed_pickup"}
       [] s = "arrived"             -> {"ready_to_deliver", "oov"}
       [] s = "dispatched"          -> {"arrived_at_branch", "follow_up"}
       [] s = "arrived_at_branch"   -> {"ready_to_deliver", "follow_up", "oov"}
       [] s = "ready_to_deliver"    -> {"sent_for_delivery", "hold", "cancelled"}
       [] s = "sent_for_delivery"   -> {"delivered", "partially_delivered",
                                        "failed_delivery", "follow_up"}
       [] s = "oov"                 -> {"dispatched", "hold", "follow_up"}
       [] s = "hold"                -> {"ready_to_deliver", "oov", "loss_and_damage"}
       [] s = "partially_delivered" -> {"ready_to_deliver", "follow_up",
                                        "ready_to_return"}
       [] s = "failed_pickup"       -> {"pickup_ordered", "cancelled"}
       [] s = "failed_delivery"     -> {"ready_to_deliver", "follow_up",
                                        "ready_to_return", "oov"}
       [] s = "loss_and_damage"     -> {"ready_to_deliver", "arrived_at_branch"}
       [] s = "follow_up"           -> {"ready_to_deliver", "ready_to_return", "oov"}
       [] s = "ready_to_return"     -> {"sent_to_vendor"}
       [] s = "sent_to_vendor"      -> {"returned_to_vendor"}
       [] OTHER                     -> {}]

(* RIDER_ASSIGNMENT_FIELD: the rider column an entry status fills. *)
AssignsPickupRider(to)   == to = "rider_assigned"
AssignsDeliveryRider(to) == to \in {"sent_for_delivery", "sent_to_vendor"}
AssignsRider(to)         == AssignsPickupRider(to) \/ AssignsDeliveryRider(to)

(* A rider takes a pooled or failed parcel for itself, in one step. *)
isRiderClaim(from, to) ==
  \/ from \in {"ready_to_deliver", "failed_delivery"} /\ to = "sent_for_delivery"
  \/ from = "failed_pickup" /\ to = "rider_assigned"

releasesPickupRider(to) == to = "pickup_ordered"

(* The parcel comes off the delivery leg: its rider's claim ends. *)
LeavesDelivery(from, to) ==
  from \in DELIVERY_RIDER_HELD_STATUSES /\ to \notin DELIVERY_RIDER_HELD_STATUSES

(* Only retracting a completed delivery reverses the money. *)
IsDeliveryReversal(from, to) ==
  from = "delivered" /\ to \notin DELIVERY_STATUSES

isUndelivering(from, to) ==
  from \in DELIVERY_STATUSES /\ to \notin DELIVERY_STATUSES

(* The move (re)writes cod_collections.collected_amount. *)
writesCollection(from, to, hadPartial) ==
  /\ from # to
  /\ \/ to \in DELIVERY_STATUSES
     \/ hadPartial /\ to \in {"ready_to_deliver", "oov"}

(* Mutants: retracting a delivery no longer asks, and nothing else does. *)
NeedsUnsettledOnRewrite(from, to, hadPartial) == writesCollection(from, to, hadPartial)

NeedsUnsettledOnReversal(from, to, hadPartial) == IsDeliveryReversal(from, to)

(* The moves assertCodNotSettled is asked about, in either internal path. *)
NeedsUnsettledCod(from, to, hadPartial) ==
  \/ IsDeliveryReversal(from, to)
  \/ isUndelivering(from, to) /\ to = "cancelled"
  \/ writesCollection(from, to, hadPartial)

assertRiderOwnsLeg(parcel, self) ==
  \/ parcel.status \in PICKUP_LEG_STATUSES /\ parcel.pickupRider = self
  \/ parcel.status \in DELIVERY_LEG_STATUSES /\ parcel.deliveryRider = self

(* The statuses each kind of account may move a parcel to at all.  "force"
   is a super_admin, or an admin with FORCE_STATUS_CHANGE. *)
RoleMayRequest(role, to) ==
  \/ role \in {"force", "admin"}
  \/ /\ to \notin HUB_OPERATION_STATUSES \cup RETURN_WORKFLOW_STATUSES
                    \cup OPS_RESTRICTED_STATUSES
     /\ to = "cancelled" => role = "vendor"

(* CARRIER_LEG_SEQUENCE: a 3PL may only move a parcel forward along it. *)
CARRIER_LEG_SEQUENCE ==
  <<"oov", "dispatched", "arrived_at_branch", "sent_for_delivery", "delivered">>

(* Mutant: any two statuses of the sequence, in either direction. *)
CarrierMayMove(from, to) ==
  \E i, j \in DOMAIN CARRIER_LEG_SEQUENCE :
     i # j /\ CARRIER_LEG_SEQUENCE[i] = from /\ CARRIER_LEG_SEQUENCE[j] = to

CarrierMayAdvance(from, to) ==
  \E i, j \in DOMAIN CARRIER_LEG_SEQUENCE :
     i < j /\ CARRIER_LEG_SEQUENCE[i] = from /\ CARRIER_LEG_SEQUENCE[j] = to

CARRIER_FOLLOW_UP_ELIGIBLE_STATUSES ==
  {"oov", "dispatched", "arrived_at_branch", "sent_for_delivery"}
============================================================================
