------------------------------ MODULE MCOrders ------------------------------
(* Two orders of one vendor, or one at two prices that is diverted. *)
EXTENDS Orders, TLC

CONSTANT v1

Both     == [o \in Order |-> v1]
Percent  == [percent |-> 50, amount |-> 2, minimum |-> 3, limit |-> 1, uses |-> 1]
Interchangeable == Permutations(Request) \cup Permutations(Claim) \cup Permutations(Order)

(* Bound: an order that is diverted, or priced above the offer's minimum, has
   the database to itself.  No rule of a price or a diversion reads another
   order, and none of a claim reads a fee or how far the minimum is exceeded. *)
Priced(o) ==
  \/ fees[o] # NoFees \/ row[o].gross > Offer.minimum
  \/ \E r \in Request : /\ req[r].order = o
                        /\ req[r].op \in Diversion \/ req[r].charge > Offer.minimum
Alone(o) ==
  \A other \in Order \ {o} : ~Exists(other) /\ \A r \in Request : req[r].order # other
PricedAlone == \A o \in Order : Priced(o) \/ o \in regained => Alone(o)

(* Bound: statuses are forced where one order exists and no fee is logged yet;
   with two, or with fees, the status follows the workflow. *)
Workflow ==
  [from \in Statuses \cup {"none"} |->
     CASE from = "active"              -> {"returned_to_vendor", "cancelled"} \cup Outcomes
       [] from = "partially_delivered" -> {"active"}
       [] OTHER                        -> {}]
ForcedAlone ==
  \A o \in Order :
    \/ row'[o].status \in {row[o].status} \cup Workflow[row[o].status]
    \/ ~Exists(o) \/ row[o].deleted
    \/ fees[o] = NoFees /\ Alone(o)
=============================================================================
