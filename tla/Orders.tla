------------------------------- MODULE Orders -------------------------------
(***************************************************************************)
(* Orders and the vouchers that discount them: creation                    *)
(* (orders/create.ts), edits (orders/edit.ts), redirects and forwards      *)
(* (orders/redirect.ts, orders/forward.ts), the trash (orders/trash.ts),   *)
(* status changes and vendor statements as far as they touch the price,    *)
(* voucher claims (voucher.service.ts), and the two database triggers that *)
(* price an order (price_order_voucher) and check its statement item       *)
(* (check_voucher_settlement).                                             *)
(*                                                                         *)
(* Edits, diversions, trashing, restoring and billing decide on rows read  *)
(* before their transaction; only the triggers look at the row as it is    *)
(* written.                                                                *)
(***************************************************************************)
EXTENDS Integers, FiniteSets

CONSTANTS
  Order,    \* parcels.id
  Claim,    \* voucher_claims.id
  Vendor,   \* vendors.id
  Owner,    \* the vendor of each order
  Request,  \* request slots of the server processes
  None,     \* SQL NULL
  Quote,    \* the prices the rate tables give, out and back
  Fee,      \* the fees an office may charge for a diversion
  MaxFees,  \* bound: what the fees of an order may come to
  Offer     \* the voucher: percent (0 when fixed), amount (the cap of a
            \* percentage), minimum, limit, uses

ASSUME OrdersAssumption ==
  /\ Owner \in [Order -> Vendor] /\ None \notin Claim \cup Order \cup Vendor
  /\ IsFiniteSet(Claim) /\ Quote \subseteq Nat
  /\ Fee \subseteq Nat /\ MaxFees \in Nat
  /\ Offer \in [percent : 0 .. 100, amount : Nat, minimum : Nat, limit : Nat, uses : Nat]

VARIABLES
  row,     \* the parcels rows and their cod_collections
  claim,   \* the voucher_claims rows
  events,  \* orders with voucher_events rows
  item,    \* the delivery charge in a vendor statement item, or Nothing
  fees,    \* what the parcel_redirects rows of each order come to, by kind
  req,     \* what each request has read
  regained \* for the properties only: orders on a statement that had no
           \* discount and were given one

vars == <<row, claim, events, item, fees, req, regained>>

Nothing == -1
Idle    == [op |-> "idle", order |-> None, vendor |-> None, claim |-> None, fresh |-> FALSE,
            charge |-> 0, fee |-> 0]
NoOrder == [status |-> "none", deleted |-> FALSE, cash |-> FALSE,
            gross |-> 0, discount |-> 0, charge |-> 0, claim |-> None]
Diversion == {"redirect", "forward"}
NoFees  == [kind \in Diversion |-> 0]
NoClaim == [vendor |-> None, state |-> "none", order |-> None]

Init ==
  /\ row = [o \in Order |-> NoOrder]
  /\ claim = [k \in Claim |-> NoClaim]
  /\ events = {}
  /\ item = [o \in Order |-> Nothing]
  /\ fees = [o \in Order |-> NoFees]
  /\ req = [r \in Request |-> Idle]
  /\ regained = {}

(* "active" stands for every status before an outcome. *)
Outcomes == {"delivered", "partially_delivered"}
Statuses == Outcomes \cup {"active", "returned_to_vendor", "cancelled"}
Exists(o) == row[o].status # "none"

Doing(r, op) == req[r].op = op
TotalFees(o) == fees[o]["redirect"] + fees[o]["forward"]
Least(a, b)  == IF a <= b THEN a ELSE b

-----------------------------------------------------------------------------
(* The trigger price_order_voucher, on an update of order o to row new. *)

OfferDiscount(gross) ==
  IF Offer.percent = 0 THEN Offer.amount
  ELSE Least((gross * Offer.percent) \div 100, Offer.amount)

Reprices(o, new)  == new.charge # row[o].charge
Releases(o, new)  == row[o].claim # None /\ (new.status = "cancelled" \/ new.deleted)
GrossAfter(o, new) == IF Reprices(o, new) THEN new.charge ELSE row[o].gross

(* What it raises no exception for. *)
MayPrice(o, new) ==
  row[o].claim # None =>
    /\ ~(/\ Reprices(o, new) \/ Releases(o, new) \/ new.status = "returned_to_vendor"
         /\ row[o].discount > 0 /\ item[o] # Nothing)
    /\ \/ Releases(o, new) \/ new.status = "returned_to_vendor"
       \/ GrossAfter(o, new) >= Offer.minimum

(* Mutant: an order that lets go of its voucher is still charged the discounted
   price. *)
PricedWithoutRefund(o, new) ==
  LET gross == GrossAfter(o, new)
      kept == row[o].claim # None /\ ~Releases(o, new) /\ new.status # "returned_to_vendor"
      d == IF kept THEN Least(OfferDiscount(gross), gross) ELSE 0
  IN [new EXCEPT !.gross = gross, !.discount = d,
                 !.charge = IF kept THEN gross - d ELSE new.charge,
                 !.claim = IF Releases(o, new) THEN None ELSE row[o].claim]

PricedRow(o, new) ==
  LET gross == GrossAfter(o, new)
      d == IF row[o].claim = None THEN IF Reprices(o, new) THEN 0 ELSE row[o].discount
           ELSE IF Releases(o, new) \/ new.status = "returned_to_vendor" THEN 0
           ELSE Least(OfferDiscount(gross), gross)
  IN [new EXCEPT !.gross = gross, !.discount = d,
                 !.charge = IF row[o].claim = None THEN new.charge ELSE gross - d,
                 !.claim = IF Releases(o, new) THEN None ELSE row[o].claim]

ClaimAfter(o, new) ==
  [claim EXCEPT ![row[o].claim] =
     IF Releases(o, new) THEN [@ EXCEPT !.state = "claimed", !.order = None]
     ELSE IF new.status \in Outcomes \cup {"returned_to_vendor"} THEN [@ EXCEPT !.state = "used"]
     ELSE @]

Update(o, new) ==
  /\ MayPrice(o, new)
  /\ row' = [row EXCEPT ![o] = PricedRow(o, new)]
  /\ claim' = IF row[o].claim = None THEN claim ELSE ClaimAfter(o, new)
  /\ regained' = IF item[o] # Nothing /\ row[o].discount = 0 /\ PricedRow(o, new).discount > 0
                 THEN regained \cup {o} ELSE regained

-----------------------------------------------------------------------------
(* Voucher claims and order creation.  An offer that is switched off or out of
   its window takes no new claims; as any request may also give up, it adds no
   behaviour and is not modelled. *)

ClaimsOf(v) == {k \in Claim : claim[k].vendor = v}
Taken       == {k \in Claim : claim[k].vendor # None}

(* Mutant: the offer is read without FOR UPDATE. *)
claimWithoutLock(v, k) ==
  /\ k \notin Taken /\ \A r \in Request : req[r].claim # k
  /\ Cardinality(Taken) < Offer.limit
  /\ Cardinality(ClaimsOf(v)) < Offer.uses

(* claimVoucherTx up to its insert, holding the vendor and the voucher row. *)
claimVoucherTx(v, k) ==
  /\ k \notin Taken /\ \A r \in Request : ~req[r].fresh
  /\ Cardinality(Taken) < Offer.limit
  /\ Cardinality(ClaimsOf(v)) < Offer.uses

NewClaim(r) ==
  IF ~req[r].fresh THEN claim
  ELSE [claim EXCEPT ![req[r].claim] = [vendor |-> req[r].vendor, state |-> "claimed",
                                        order |-> None]]

claimVoucher(r, v, k) ==
  /\ Doing(r, "idle") /\ claimVoucherTx(v, k)
  /\ req' = [req EXCEPT ![r] = [Idle EXCEPT !.op = "claiming", !.vendor = v, !.claim = k,
                                            !.fresh = TRUE]]
  /\ UNCHANGED <<row, claim, events, item, fees, regained>>

CommitClaim(r) ==
  /\ Doing(r, "claiming")
  /\ claim' = NewClaim(r)
  /\ req' = [req EXCEPT ![r] = Idle]
  /\ UNCHANGED <<row, events, item, fees, regained>>

(* Mutant: a claim another creation is about to spend is not locked. *)
ResolveUnlocked(o, k) ==
  LET unspent == {j \in ClaimsOf(Owner[o]) : claim[j].state = "claimed"} IN
  /\ IF unspent = {} THEN claimVoucherTx(Owner[o], k) ELSE k \in unspent

(* resolveVendorClaimTx: an unspent claim of the vendor, else a fresh one; then
   the trigger takes the claim's row lock. *)
resolveVendorClaimTx(o, k) ==
  LET unspent == {j \in ClaimsOf(Owner[o]) : claim[j].state = "claimed"} IN
  /\ IF unspent = {} THEN claimVoucherTx(Owner[o], k)
     ELSE k \in unspent /\ \A r \in Request : req[r].claim # k

createOrder(r, o, quote, k) ==
  /\ Doing(r, "idle") /\ ~Exists(o) /\ \A s \in Request : req[s].order # o
  /\ k # None => quote >= Offer.minimum /\ resolveVendorClaimTx(o, k)
  /\ req' = [req EXCEPT ![r] = [op |-> "creating", order |-> o, vendor |-> Owner[o], claim |-> k,
                                fresh |-> k # None /\ k \notin Taken, charge |-> quote, fee |-> 0]]
  /\ UNCHANGED <<row, claim, events, item, fees, regained>>

CommitCreate(r) ==
  LET o == req[r].order
      k == req[r].claim
      quote == req[r].charge
      d == IF k = None THEN 0 ELSE Least(OfferDiscount(quote), quote)
  IN
  /\ Doing(r, "creating")
  /\ row' = [row EXCEPT ![o] = [NoOrder EXCEPT !.status = "active", !.gross = quote,
                                  !.discount = d, !.charge = quote - d, !.claim = k]]
  /\ claim' = IF k = None THEN claim
              ELSE [NewClaim(r) EXCEPT ![k] = [@ EXCEPT !.state = "reserved", !.order = o]]
  /\ events' = IF k = None THEN events ELSE events \cup {o}
  /\ req' = [req EXCEPT ![r] = Idle]
  /\ UNCHANGED <<item, fees, regained>>

-----------------------------------------------------------------------------
(* Requests that read the order, and later write over it. *)

Task(op, o, charge, fee) ==
  [Idle EXCEPT !.op = op, !.order = o, !.charge = charge, !.fee = fee]

Reads(r, op, o, charge) ==
  /\ Doing(r, "idle") /\ Exists(o)
  /\ req' = [req EXCEPT ![r] = Task(op, o, charge, 0)]
  /\ UNCHANGED <<row, claim, events, item, fees, regained>>

(* An edit that needs no new price writes the charge it read, whatever the
   order's status (a correction of the COD); one that does, the new quote. *)
updateOrderDetails(r, o) ==
  \/ Reads(r, "editing", o, row[o].charge)
  \/ /\ row[o].status = "active" /\ item[o] = Nothing
     /\ \E quote \in Quote : Reads(r, "editing", o, quote)

Diverts(r, kind, o, fee) ==
  /\ Doing(r, "idle") /\ ~row[o].deleted /\ TotalFees(o) + fee <= MaxFees
  /\ req' = [req EXCEPT ![r] = Task(kind, o, row[o].charge, fee)]
  /\ UNCHANGED <<row, claim, events, item, fees, regained>>

(* The customer moved before the parcel was delivered. *)
redirectOrder(r, o, fee) == row[o].status = "active" /\ Diverts(r, "redirect", o, fee)

(* A delivered parcel goes on somewhere else, unless it is on a statement. *)
forwardOrder(r, o, fee) ==
  /\ row[o].status = "delivered" /\ item[o] = Nothing /\ fee > 0
  /\ Diverts(r, "forward", o, fee)

(* moveOrderToTrash and sweepCancelledOrdersToTrash. *)
moveOrderToTrash(r, o) ==
  row[o].status = "cancelled" /\ ~row[o].deleted /\ Reads(r, "trashing", o, 0)

restoreOrderFromTrash(r, o) == row[o].deleted /\ Reads(r, "restoring", o, 0)

(* A vendor statement is computed from cash collected and charges read. *)
BillOrder(r, o) ==
  /\ row[o].cash /\ row[o].status # "cancelled" /\ item[o] = Nothing
  /\ Reads(r, "billing", o, row[o].charge)

Written(o, r) ==
  CASE Doing(r, "editing")   -> [row[o] EXCEPT !.charge = req[r].charge]
    [] req[r].op \in Diversion -> [row[o] EXCEPT !.charge = req[r].charge + req[r].fee]
    [] Doing(r, "trashing")  -> [row[o] EXCEPT !.deleted = TRUE]
    [] Doing(r, "restoring") -> [row[o] EXCEPT !.deleted = FALSE, !.status = "active"]

(* Mutant: only redirects are logged. *)
LoggedRedirects(o, r) ==
  IF Doing(r, "redirect") THEN [fees EXCEPT ![o]["redirect"] = @ + req[r].fee] ELSE fees

Logged(o, r) ==
  IF req[r].op \in Diversion THEN [fees EXCEPT ![o][req[r].op] = @ + req[r].fee] ELSE fees

WriteOrder(r) ==
  LET o == req[r].order IN
  /\ req[r].op \in {"editing", "trashing", "restoring"} \cup Diversion
  /\ Update(o, Written(o, r))
  /\ fees' = Logged(o, r)
  /\ req' = [req EXCEPT ![r] = Idle]
  /\ UNCHANGED <<events, item>>

(* Mutant: the item is inserted at the charge read. *)
InsertStaleItem(r) ==
  LET o == req[r].order IN
  /\ Doing(r, "billing") /\ item[o] = Nothing
  /\ item' = [item EXCEPT ![o] = req[r].charge]
  /\ req' = [req EXCEPT ![r] = Idle]
  /\ UNCHANGED <<row, claim, events, fees, regained>>

(* The item is inserted; check_voucher_settlement looks at the order again,
   under its row lock, if it ever had a voucher. *)
InsertItem(r) ==
  LET o == req[r].order IN
  /\ Doing(r, "billing") /\ item[o] = Nothing
  /\ o \in events => ~row[o].deleted /\ req[r].charge = row[o].charge
  /\ item' = [item EXCEPT ![o] = req[r].charge]
  /\ req' = [req EXCEPT ![r] = Idle]
  /\ UNCHANGED <<row, claim, events, fees, regained>>

(* A failed check, a trigger's exception, a timeout or a crash. *)
GiveUp(r) ==
  /\ ~Doing(r, "idle")
  /\ req' = [req EXCEPT ![r] = Idle]
  /\ UNCHANGED <<row, claim, events, item, fees, regained>>

(* The status handlers, of forcing accounts too, so from any status to any, and
   a cancelled statement.  What a handler asks of the statements it asks before
   its transaction, and is not relied on here.  A parcel that goes back with
   nothing collected is charged the way back. *)
updateParcelStatus(o, to, charge) ==
  LET from == row[o].status
      cash == IF to \in Outcomes THEN TRUE
              ELSE IF to = "cancelled" \/ from = "delivered" THEN FALSE ELSE row[o].cash
  IN
  /\ Exists(o) /\ ~row[o].deleted
  /\ charge # row[o].charge => to = "returned_to_vendor" /\ ~cash
  /\ Update(o, [row[o] EXCEPT !.status = to, !.cash = cash, !.charge = charge])
  /\ UNCHANGED <<events, item, fees, req>>

RemoveItem(o) ==
  /\ item[o] # Nothing
  /\ item' = [item EXCEPT ![o] = Nothing]
  /\ regained' = regained \ {o}
  /\ UNCHANGED <<row, claim, events, fees, req>>

Next ==
  \/ \E r \in Request, o \in Order :
       \/ \E quote \in Quote, k \in Claim \cup {None} : createOrder(r, o, quote, k)
       \/ updateOrderDetails(r, o) \/ moveOrderToTrash(r, o) \/ restoreOrderFromTrash(r, o)
       \/ BillOrder(r, o)
       \/ \E fee \in Fee : redirectOrder(r, o, fee) \/ forwardOrder(r, o, fee)
  \/ \E r \in Request, v \in Vendor, k \in Claim : claimVoucher(r, v, k)
  \/ \E r \in Request :
       CommitClaim(r) \/ CommitCreate(r) \/ WriteOrder(r) \/ InsertItem(r) \/ GiveUp(r)
  \/ \E o \in Order :
       \/ \E to \in Statuses, charge \in Quote \cup {row[o].charge} : updateParcelStatus(o, to, charge)
       \/ RemoveItem(o)

Spec == Init /\ [][Next]_vars
-----------------------------------------------------------------------------
(* Rows hold what their columns allow, and the charge is what is left of the
   gross charge. *)
TypeOK ==
  /\ \A o \in Order :
       /\ row[o].status \in Statuses \cup {"none"} /\ row[o].claim \in Claim \cup {None}
       /\ row[o].gross \in Nat /\ row[o].discount \in 0 .. row[o].gross
       /\ row[o].charge = row[o].gross - row[o].discount
       /\ item[o] \in Nat \cup {Nothing}
  /\ fees \in [Order -> [Diversion -> Nat]]
  /\ claim \in [Claim -> [vendor : Vendor \cup {None}, order : Order \cup {None},
                          state : {"none", "claimed", "reserved", "used"}]]

(* A voucher discounts one order at a time: claim and order name each other,
   whoever edits, cancels, trashes and restores the order meanwhile; and an
   order given up holds none. *)
ClaimMatchesOrder ==
  /\ \A k \in Claim :
       IF claim[k].state \in {"reserved", "used"}
         THEN claim[k].order # None /\ row[claim[k].order].claim = k
         ELSE claim[k].order = None
  /\ \A o \in Order : row[o].claim # None =>
       /\ claim[row[o].claim].order = o /\ claim[row[o].claim].vendor = Owner[o]
       /\ ~row[o].deleted /\ row[o].status # "cancelled"

(* "Two vendors racing the last spot cannot both take it", nor one vendor more
   uses than the offer gives, claiming from the page and on orders at once. *)
VoucherLimits ==
  /\ Cardinality(Taken) <= Offer.limit
  /\ \A v \in Vendor : Cardinality(ClaimsOf(v)) <= Offer.uses

(* An order keeps its discount only while it meets the offer's terms, however
   it is repriced. *)
TermsKept ==
  \A o \in Order : row[o].claim # None /\ row[o].status # "returned_to_vendor" =>
    /\ row[o].gross >= Offer.minimum
    /\ row[o].discount = Least(OfferDiscount(row[o].gross), row[o].gross)

(* "Remove the order from its settlement before changing its voucher price": a
   discounted order on a vendor statement is charged what the statement says,
   with prices changing, statuses forced and statements inserted at the same
   time.  The trigger looks at the discount the order had, so one that had none
   may be given one on the statement: a forced way out of returned_to_vendor. *)
SettledDiscountFrozen ==
  \A o \in Order \ regained : item[o] # Nothing /\ row[o].discount > 0 => item[o] = row[o].charge

(* Nothing is charged beyond what the rate tables give and the fees logged for
   the order, whichever edits, redirects and forwards overtake each other: a
   charge that was read while it held more is never written back alone. *)
ChargesExplained ==
  \A o \in Order : Exists(o) =>
    \E quote \in Quote : row[o].gross <= quote + TotalFees(o)
=============================================================================
