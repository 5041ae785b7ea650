---------------------------- MODULE OrdersProofs ----------------------------
(***************************************************************************)
(* Proofs about Orders, for any number of orders, vendors, claims and      *)
(* requests: claims and orders name each other, the limits of an offer     *)
(* hold, a discount keeps to the offer's terms, and it does not change     *)
(* below a vendor statement.                                               *)
(***************************************************************************)
EXTENDS Orders, FiniteSetTheorems, TLAPS

Row == [status : Statuses \cup {"none"}, deleted : BOOLEAN, cash : BOOLEAN,
        gross : Nat, discount : Nat, charge : Nat, claim : Claim \cup {None}]
ClaimRow == [vendor : Vendor \cup {None}, order : Order \cup {None},
             state : {"none", "claimed", "reserved", "used"}]
Stage == {"idle", "claiming", "creating", "editing", "trashing", "restoring", "billing"}
           \cup Diversion
Job == [op : Stage, order : Order \cup {None}, vendor : Vendor \cup {None},
        claim : Claim \cup {None}, fresh : BOOLEAN, charge : Nat, fee : Nat]

Typed ==
  /\ row \in [Order -> Row]
  /\ claim \in [Claim -> ClaimRow]
  /\ events \in SUBSET Order
  /\ item \in [Order -> Nat \cup {Nothing}]
  /\ req \in [Request -> Job]

(* The charge is what is left of the gross charge. *)
Net(rw) == rw.discount <= rw.gross /\ rw.charge = rw.gross - rw.discount
Priced == \A o \in Order : Net(row[o])

(* A discount keeps to the terms. *)
OnTerms(rw) ==
  rw.claim # None /\ rw.status # "returned_to_vendor" =>
    /\ rw.gross >= Offer.minimum
    /\ rw.discount = Least(OfferDiscount(rw.gross), rw.gross)

(* A claim that waits for nobody, or for the order it names. *)
ClaimFits(k) ==
  /\ claim[k].state \in {"reserved", "used"} => claim[k].order # None /\ row[claim[k].order].claim = k
  /\ claim[k].state \in {"none", "claimed"} => claim[k].order = None
  /\ claim[k].state = "none" <=> claim[k].vendor = None

OrderFits(o) ==
  /\ row[o].claim # None =>
       /\ claim[row[o].claim].order = o /\ claim[row[o].claim].vendor = Owner[o]
       /\ ~row[o].deleted /\ row[o].status # "cancelled"
  /\ row[o].discount > 0 \/ row[o].claim # None => o \in events
  /\ ~Exists(o) => row[o].claim = None /\ item[o] = Nothing

Matched == (\A k \in Claim : ClaimFits(k)) /\ (\A o \in Order : OrderFits(o))

(* What a request may rely on when it writes. *)
Knows(j) ==
  /\ j.op \in {"creating", "claiming"} \/ (j.claim = None /\ ~j.fresh)
  /\ j.fresh => j.claim \in Claim /\ j.vendor \in Vendor /\ claim[j.claim].vendor = None
  /\ j.op = "claiming" => j.fresh
  /\ j.op = "creating" =>
       /\ j.order \in Order /\ ~Exists(j.order) /\ j.vendor = Owner[j.order]
       /\ j.claim # None => j.charge >= Offer.minimum
       /\ j.claim # None /\ ~j.fresh =>
            claim[j.claim].state = "claimed" /\ claim[j.claim].vendor = j.vendor
  /\ j.op \in {"editing", "redirect", "forward", "trashing", "restoring", "billing"} => j.order \in Order /\ Exists(j.order)
  /\ j.op = "restoring" => row[j.order].claim = None

Prepared == \A r \in Request : Knows(req[r])

(* Locks on the offer, the claims, and the order being inserted. *)
Alone ==
  \A r, s \in Request : r # s =>
    /\ ~(req[r].fresh /\ req[s].fresh)
    /\ req[r].claim # None => req[r].claim # req[s].claim
    /\ Doing(r, "creating") => ~(Doing(s, "creating") /\ req[r].order = req[s].order)

(* A fresh claim still fits the offer. *)
Room ==
  \A r \in Request : req[r].fresh =>
    /\ Cardinality(Taken) < Offer.limit
    /\ Cardinality(ClaimsOf(req[r].vendor)) < Offer.uses

Inv == /\ Typed /\ Priced /\ TermsKept /\ Matched
       /\ Prepared /\ Alone /\ Room /\ VoucherLimits

-----------------------------------------------------------------------------
LEMMA Offered ==
  ASSUME NEW gross \in Nat
  PROVE  OfferDiscount(gross) \in Nat
<1>1. Offer.percent \in 0 .. 100 /\ Offer.amount \in Nat
  BY OrdersAssumption
<1>2. gross * Offer.percent \in Nat
  BY <1>1, SMT
<1>3. ASSUME NEW n \in Nat PROVE n \div 100 \in Nat
  BY <1>3, SMT
<1>4. (gross * Offer.percent) \div 100 \in Nat
  BY <1>2, <1>3
<1>5. Least((gross * Offer.percent) \div 100, Offer.amount) \in Nat
  BY <1>1, <1>4 DEF Least
<1> QED BY <1>1, <1>5 DEF OfferDiscount

(* Every discount is taken off a charge it does not exceed. *)
LEMMA TakenOff ==
  ASSUME NEW gross \in Nat
  PROVE  Least(OfferDiscount(gross), gross) \in Nat /\ Least(OfferDiscount(gross), gross) <= gross
BY Offered DEF Least

(* What the trigger makes of a row written over another. *)
LEMMA PricedKeeps ==
  ASSUME Typed, Priced, TermsKept, Matched,
         NEW o \in Order, NEW new \in Row, MayPrice(o, new),
         new.status # "none"
  PROVE  /\ PricedRow(o, new) \in Row /\ Net(PricedRow(o, new))
         /\ PricedRow(o, new).status = new.status
         /\ PricedRow(o, new).deleted = new.deleted
         /\ PricedRow(o, new).claim = IF Releases(o, new) THEN None ELSE row[o].claim
         /\ PricedRow(o, new).discount > 0 =>
              row[o].discount > 0 \/ row[o].claim # None
         /\ OnTerms(PricedRow(o, new))
<1>1. row[o] \in Row /\ Net(row[o])
  BY DEF Typed, Priced
<1>2. GrossAfter(o, new) \in Nat
  BY <1>1 DEF GrossAfter, Row
<1>3. PICK d : d = IF row[o].claim = None THEN IF Reprices(o, new) THEN 0 ELSE row[o].discount
           ELSE IF Releases(o, new) \/ new.status = "returned_to_vendor" THEN 0
           ELSE Least(OfferDiscount(GrossAfter(o, new)), GrossAfter(o, new))
  OBVIOUS
<1>4. PricedRow(o, new) =
        [new EXCEPT !.gross = GrossAfter(o, new), !.discount = d,
                 !.charge = IF row[o].claim = None THEN new.charge ELSE GrossAfter(o, new) - d,
                 !.claim = IF Releases(o, new) THEN None ELSE row[o].claim]
  BY <1>3 DEF PricedRow
<1>5. d \in Nat /\ d <= GrossAfter(o, new)
  <2>1. CASE row[o].claim = None
    BY <1>1, <1>2, <1>3, <2>1 DEF GrossAfter, Net, Row, Reprices
  <2>2. CASE row[o].claim # None
    BY <1>2, <1>3, <2>2, TakenOff
  <2> QED BY <2>1, <2>2
<1>6. row[o].claim = None => new.charge = GrossAfter(o, new) - d
  BY <1>1, <1>3 DEF GrossAfter, Net, Row, Reprices
<1>7. GrossAfter(o, new) - d \in Nat
  BY <1>2, <1>5
<1>8. PricedRow(o, new) \in Row /\ Net(PricedRow(o, new))
  BY <1>1, <1>2, <1>4, <1>5, <1>6, <1>7 DEF Row, Net
<1>9. PricedRow(o, new).claim = IF Releases(o, new) THEN None ELSE row[o].claim
  BY <1>4 DEF Row
<1>10. OnTerms(PricedRow(o, new))
  <2> SUFFICES ASSUME row[o].claim # None, ~Releases(o, new), new.status # "returned_to_vendor"
               PROVE  /\ GrossAfter(o, new) >= Offer.minimum
                      /\ d = Least(OfferDiscount(GrossAfter(o, new)), GrossAfter(o, new))
    BY <1>4 DEF OnTerms, Row
  <2> QED BY <1>3 DEF MayPrice
<1>11. PricedRow(o, new).discount > 0 => row[o].discount > 0 \/ row[o].claim # None
  BY <1>1, <1>3, <1>4 DEF Row
<1> QED BY <1>4, <1>8, <1>9, <1>10, <1>11 DEF Row

(* A statement of both halves of an update: the claim follows its order. *)
LEMMA ClaimsFollow ==
  ASSUME Typed, Matched, NEW o \in Order, NEW new \in Row, Update(o, new)
  PROVE  /\ claim' \in [Claim -> ClaimRow]
         /\ \A k \in Claim : /\ claim'[k].vendor = claim[k].vendor
                             /\ k # row[o].claim => claim'[k] = claim[k]
         /\ row[o].claim # None =>
              IF Releases(o, new)
                THEN claim'[row[o].claim].state = "claimed" /\ claim'[row[o].claim].order = None
                ELSE /\ claim'[row[o].claim].state \in {"reserved", "used"}
                     /\ claim'[row[o].claim].order = o
<1>1. CASE row[o].claim = None
  BY <1>1, OrdersAssumption DEF Update, Typed
<1>2. CASE row[o].claim # None
  <2>1. row[o].claim \in Claim
    BY <1>2 DEF Typed, Row
  <2>2. PICK k0 \in Claim : k0 = row[o].claim
    BY <2>1
  <2>3. claim' = [claim EXCEPT ![k0] =
           IF Releases(o, new) THEN [claim[k0] EXCEPT !.state = "claimed", !.order = None]
           ELSE IF new.status \in Outcomes \cup {"returned_to_vendor"}
             THEN [claim[k0] EXCEPT !.state = "used"] ELSE claim[k0]]
    BY <1>2, <2>2 DEF Update, ClaimAfter
  <2>4. claim[k0] \in ClaimRow /\ claim[k0].order = o /\ o # None
    BY <1>2, <2>2, OrdersAssumption DEF Typed, Matched, OrderFits
  <2>5. claim[k0].state \in {"reserved", "used"}
    BY <2>4 DEF Matched, ClaimFits, ClaimRow
  <2>6. claim'[k0] = IF Releases(o, new) THEN [claim[k0] EXCEPT !.state = "claimed", !.order = None]
           ELSE IF new.status \in Outcomes \cup {"returned_to_vendor"}
             THEN [claim[k0] EXCEPT !.state = "used"] ELSE claim[k0]
    BY <2>3 DEF Typed
  <2>7. claim'[k0] \in ClaimRow /\ claim'[k0].vendor = claim[k0].vendor
    BY <2>4, <2>6 DEF ClaimRow
  <2>8. \A k \in Claim : k # k0 => claim'[k] = claim[k]
    BY <2>3 DEF Typed
  <2>9. claim' \in [Claim -> ClaimRow]
    BY <2>3, <2>6, <2>7, <2>8 DEF Typed
  <2>10. IF Releases(o, new) THEN claim'[k0].state = "claimed" /\ claim'[k0].order = None
         ELSE claim'[k0].state \in {"reserved", "used"} /\ claim'[k0].order = o
    BY <2>4, <2>5, <2>6 DEF ClaimRow
  <2> QED BY <2>2, <2>7, <2>8, <2>9, <2>10
<1> QED BY <1>1, <1>2

(* An update through the trigger, by a request that then is done or by a status
   handler. *)
LEMMA UpdateKeeps ==
  ASSUME Inv, NEW o \in Order, Exists(o), NEW new \in Row, new.status # "none",
         Update(o, new), UNCHANGED <<events, item>>,
         req' \in [Request -> Job],
         \A r \in Request : req'[r] = req[r] \/ req'[r] = Idle
  PROVE  Inv'
<1> USE DEF Inv
<1>1. row' = [row EXCEPT ![o] = PricedRow(o, new)] /\ MayPrice(o, new)
  BY DEF Update
<1>2. /\ PricedRow(o, new) \in Row /\ Net(PricedRow(o, new))
      /\ PricedRow(o, new).status = new.status
      /\ PricedRow(o, new).deleted = new.deleted
      /\ PricedRow(o, new).claim = IF Releases(o, new) THEN None ELSE row[o].claim
      /\ PricedRow(o, new).discount > 0 => row[o].discount > 0 \/ row[o].claim # None
      /\ OnTerms(PricedRow(o, new))
  BY <1>1, PricedKeeps
<1>3. row'[o] = PricedRow(o, new) /\ \A p \in Order \ {o} : row'[p] = row[p]
  BY <1>1 DEF Typed
<1>4. /\ claim' \in [Claim -> ClaimRow]
      /\ \A k \in Claim : /\ claim'[k].vendor = claim[k].vendor
                          /\ k # row[o].claim => claim'[k] = claim[k]
      /\ row[o].claim # None =>
           IF Releases(o, new)
             THEN claim'[row[o].claim].state = "claimed" /\ claim'[row[o].claim].order = None
             ELSE /\ claim'[row[o].claim].state \in {"reserved", "used"}
                  /\ claim'[row[o].claim].order = o
  BY ClaimsFollow
<1>5. Typed'
  BY <1>1, <1>2, <1>4 DEF Typed
<1>6. Priced'
  BY <1>2, <1>3 DEF Priced
<1>7. TermsKept'
  <2> SUFFICES ASSUME NEW p \in Order PROVE OnTerms(row'[p])
    BY DEF OnTerms, TermsKept
  <2>1. CASE p = o BY <1>2, <1>3, <2>1
  <2>2. CASE p # o BY <1>3, <2>2 DEF TermsKept, OnTerms
  <2> QED BY <2>1, <2>2
<1>8. ASSUME NEW k \in Claim PROVE ClaimFits(k)'
  <2>0. ClaimFits(k) /\ OrderFits(o) /\ claim[k] \in ClaimRow
    BY DEF Matched, Typed
  <2>1. CASE k = row[o].claim
    BY <2>0, <2>1, <1>2, <1>3, <1>4, OrdersAssumption DEF ClaimFits, ClaimRow, OrderFits
  <2>2. CASE k # row[o].claim
    <3>1. claim'[k] = claim[k]
      BY <1>4, <2>2
    <3>2. ASSUME claim[k].state \in {"reserved", "used"}
          PROVE  row'[claim[k].order].claim = k
      BY <2>0, <3>2, <2>2, <1>3 DEF ClaimFits, ClaimRow
    <3> QED BY <2>0, <3>1, <3>2 DEF ClaimFits
  <2> QED BY <2>1, <2>2
<1>9. ASSUME NEW p \in Order PROVE OrderFits(p)'
  <2>0. OrderFits(p) /\ row[p] \in Row /\ row'[p] \in Row
    BY <1>5 DEF Matched, Typed
  <2>1. CASE p = o
    BY <2>0, <2>1, <1>2, <1>3, <1>4 DEF OrderFits, Exists, Releases, Row
  <2>2. CASE p # o
    <3>1. row'[p] = row[p]
      BY <1>3, <2>2
    <3>2. row[p].claim # None => row[p].claim # row[o].claim
      <4> SUFFICES ASSUME row[p].claim # None, row[p].claim = row[o].claim PROVE FALSE
        OBVIOUS
      <4>1. OrderFits(o)
        BY DEF Matched
      <4> QED BY <2>0, <4>1, <2>2 DEF OrderFits
    <3>3. row[p].claim # None => claim'[row[p].claim] = claim[row[p].claim]
      BY <2>0, <3>2, <1>4 DEF Row
    <3> QED BY <2>0, <3>1, <3>3 DEF OrderFits, Exists
  <2> QED BY <2>1, <2>2
<1>10. Matched'
  BY <1>8, <1>9 DEF Matched
<1>11. Prepared'
  <2> SUFFICES ASSUME NEW r \in Request PROVE Knows(req[r])'
    BY DEF Prepared
  <2>1. CASE req'[r] = Idle
    BY <2>1 DEF Idle, Knows
  <2>2. CASE req'[r] = req[r]
    <3>1. Knows(req[r]) /\ req[r] \in Job
      BY DEF Prepared, Typed
    <3>2. \A p \in Order : row[p] \in Row /\ row'[p] \in Row
      BY <1>5 DEF Typed
    <3>3. \A p \in Order : /\ (row'[p].status = "none" <=> row[p].status = "none")
                           /\ row[p].claim = None => row'[p].claim = None
      BY <1>2, <1>3, <3>2 DEF Exists
    <3>4. \A k \in Claim : claim[k].state = "claimed" => claim'[k].state = "claimed"
      <4> SUFFICES ASSUME NEW k \in Claim, claim[k].state = "claimed", k = row[o].claim PROVE FALSE
        BY <1>4
      <4>1. ClaimFits(k) /\ OrderFits(o)
        BY DEF Matched
      <4> QED BY <4>1, OrdersAssumption DEF ClaimFits, OrderFits
    <3>5. Knows(req[r])'
      BY <3>1, <3>3, <3>4, <1>4, <2>2 DEF Knows, Exists, Job
    <3> QED BY <2>2, <3>5
  <2> QED BY <2>1, <2>2
<1>12. Alone'
  BY DEF Alone, Doing, Idle
<1>13. Taken' = Taken /\ \A v \in Vendor : ClaimsOf(v)' = ClaimsOf(v)
  BY <1>4 DEF Taken, ClaimsOf
<1>14. \A r \in Request : req'[r].fresh => req'[r] = req[r]
  BY DEF Idle
<1>15. Room'
  <2> SUFFICES ASSUME NEW r \in Request, req'[r].fresh
               PROVE  (/\ Cardinality(Taken) < Offer.limit
                       /\ Cardinality(ClaimsOf(req[r].vendor)) < Offer.uses)'
    BY DEF Room
  <2>1. req'[r] = req[r] /\ req[r].fresh /\ req[r].vendor \in Vendor
    BY <1>14 DEF Prepared, Knows
  <2>2. ClaimsOf(req[r].vendor)' = ClaimsOf(req[r].vendor)
    BY <1>13, <2>1 DEF ClaimsOf
  <2>3. /\ Cardinality(Taken) < Offer.limit
        /\ Cardinality(ClaimsOf(req[r].vendor)) < Offer.uses
    BY <2>1 DEF Room
  <2> QED BY <1>13, <2>2, <2>3
<1>16. VoucherLimits'
  BY <1>13 DEF VoucherLimits
<1> QED BY <1>5, <1>6, <1>7, <1>10, <1>11, <1>12, <1>15, <1>16

(* A request that reads and writes nothing. *)
LEMMA ReadKeeps ==
  ASSUME Inv, UNCHANGED <<row, claim, events, item>>,
         NEW r \in Request, NEW j \in Job, req' = [req EXCEPT ![r] = j], Knows(j),
         \A s \in Request \ {r} :
           /\ ~(j.fresh /\ req[s].fresh)
           /\ j.claim # None => j.claim # req[s].claim
           /\ j.op = "creating" => ~(Doing(s, "creating") /\ j.order = req[s].order),
         j.fresh => Cardinality(Taken) < Offer.limit /\ Cardinality(ClaimsOf(j.vendor)) < Offer.uses
  PROVE  Inv'
<1> USE DEF Inv
<1>1. req'[r] = j /\ (\A s \in Request \ {r} : req'[s] = req[s]) /\ req' \in [Request -> Job]
  BY DEF Typed
<1>2. Typed' /\ Priced' /\ TermsKept'
  BY <1>1 DEF Typed, Priced, TermsKept
<1>3. Matched'
  BY DEF Matched, ClaimFits, OrderFits, Exists
<1>4. Prepared'
  <2> SUFFICES ASSUME NEW s \in Request PROVE Knows(req[s])'
    BY DEF Prepared
  <2>1. Knows(req'[s])
    BY <1>1 DEF Prepared
  <2> QED BY <2>1 DEF Knows, Exists
<1>5. Alone'
  <2> SUFFICES ASSUME NEW s \in Request, NEW t \in Request, s # t
               PROVE  /\ ~(req'[s].fresh /\ req'[t].fresh)
                      /\ req'[s].claim # None => req'[s].claim # req'[t].claim
                      /\ req'[s].op = "creating" =>
                           ~(req'[t].op = "creating" /\ req'[s].order = req'[t].order)
    BY DEF Alone, Doing
  <2>1. CASE s = r BY <1>1, <2>1 DEF Doing
  <2>2. CASE t = r BY <1>1, <2>2 DEF Doing
  <2>3. CASE s # r /\ t # r BY <1>1, <2>3 DEF Alone, Doing
  <2> QED BY <2>1, <2>2, <2>3
<1>6. Taken' = Taken /\ \A v : ClaimsOf(v)' = ClaimsOf(v)
  BY DEF Taken, ClaimsOf
<1>7. Room'
  <2> SUFFICES ASSUME NEW s \in Request, req'[s].fresh
               PROVE  (/\ Cardinality(Taken) < Offer.limit
                       /\ Cardinality(ClaimsOf(req[s].vendor)) < Offer.uses)'
    BY DEF Room
  <2>1. ClaimsOf(req[s].vendor)' = ClaimsOf(req'[s].vendor)
    BY DEF ClaimsOf
  <2>2. /\ Cardinality(Taken) < Offer.limit
        /\ Cardinality(ClaimsOf(req'[s].vendor)) < Offer.uses
    BY <1>1 DEF Room
  <2> QED BY <1>6, <2>1, <2>2
<1>8. VoucherLimits'
  BY <1>6 DEF VoucherLimits
<1> QED BY <1>2, <1>3, <1>4, <1>5, <1>7, <1>8

(* A request that gives up, finishes, or only looks at an order. *)
LEMMA QuietKeeps ==
  ASSUME Inv, UNCHANGED <<row, claim, events, item>>,
         NEW r \in Request, NEW j \in Job, req' = [req EXCEPT ![r] = j], Knows(j),
         j.claim = None, ~j.fresh, j.op # "creating"
  PROVE  Inv'
BY ReadKeeps

LEMMA IdleIsQuiet ==
  Idle \in Job /\ Knows(Idle) /\ Idle.claim = None /\ ~Idle.fresh /\ Idle.op = "idle"
BY DEF Idle, Job, Stage, Knows, Diversion

(* Edits, diversions, the trash, and billing: what a request read before it
   writes. *)
Looks(r, o) ==
  \/ updateOrderDetails(r, o) \/ moveOrderToTrash(r, o) \/ restoreOrderFromTrash(r, o)
  \/ BillOrder(r, o)
  \/ \E fee \in Fee : redirectOrder(r, o, fee) \/ forwardOrder(r, o, fee)

(* What such a request keeps; a charge it will write back is a quote or the
   charge it read. *)
Looked(r, o, op, charge, fee) ==
  /\ Exists(o) /\ (op = "restoring" => row[o].deleted)
  /\ req' = [req EXCEPT ![r] = Task(op, o, charge, fee)]
  /\ UNCHANGED <<row, claim, events, item, fees, regained>>
  /\ op \in {"editing"} \cup Diversion => charge \in Quote \cup {row[o].charge}

LEMMA LookReads ==
  ASSUME NEW r \in Request, NEW o \in Order, row[o] \in Row, Looks(r, o)
  PROVE  \E op \in {"editing", "trashing", "restoring", "billing"} \cup Diversion,
            charge \in Nat, fee \in Nat : Looked(r, o, op, charge, fee)
<1>1. Quote \subseteq Nat /\ Fee \subseteq Nat /\ row[o].charge \in Nat
  BY OrdersAssumption DEF Row
<1>2. ASSUME NEW op \in {"editing", "trashing", "restoring", "billing"}, NEW charge \in Nat,
             Reads(r, op, o, charge), op = "restoring" => row[o].deleted,
             op = "editing" => charge \in Quote \cup {row[o].charge}
      PROVE  Looked(r, o, op, charge, 0)
  <2>1. op \notin Diversion
    BY DEF Diversion
  <2> QED BY <1>2, <2>1 DEF Reads, Looked
<1>3. CASE updateOrderDetails(r, o)
  BY <1>1, <1>2, <1>3 DEF updateOrderDetails
<1>4. CASE moveOrderToTrash(r, o)
  BY <1>2, <1>4 DEF moveOrderToTrash
<1>5. CASE restoreOrderFromTrash(r, o)
  BY <1>2, <1>5 DEF restoreOrderFromTrash
<1>6. CASE BillOrder(r, o)
  BY <1>1, <1>2, <1>6 DEF BillOrder
<1>7. ASSUME NEW fee \in Fee, redirectOrder(r, o, fee) \/ forwardOrder(r, o, fee)
      PROVE  \E op \in Diversion : Looked(r, o, op, row[o].charge, fee)
  <2>1. PICK op \in Diversion : /\ Exists(o) /\ Diverts(r, op, o, fee)
                                /\ op # "restoring"
    BY <1>7 DEF redirectOrder, forwardOrder, Diversion, Exists
  <2> QED BY <2>1 DEF Diverts, Looked
<1> QED BY <1>1, <1>3, <1>4, <1>5, <1>6, <1>7 DEF Looks

LEMMA LooksKeep ==
  ASSUME Inv, NEW r \in Request, NEW o \in Order, Looks(r, o)
  PROVE  Inv'
<1> USE DEF Inv
<1>1. row[o] \in Row /\ OrderFits(o)
  BY DEF Typed, Matched
<1>2. PICK op \in {"editing", "trashing", "restoring", "billing"} \cup Diversion,
           charge \in Nat, fee \in Nat :
        Looked(r, o, op, charge, fee)
  BY <1>1, LookReads
<1>3. PICK j : j = Task(op, o, charge, fee)
  OBVIOUS
<1>4. /\ j \in Job /\ j.claim = None /\ ~j.fresh
      /\ j.op = op /\ j.order = o /\ j.op # "creating"
  BY <1>3 DEF Task, Idle, Job, Stage, Diversion
<1>5. Knows(j)
  BY <1>1, <1>2, <1>4 DEF Knows, Looked, OrderFits, Diversion
<1>6. req' = [req EXCEPT ![r] = j] /\ UNCHANGED <<row, claim, events, item>>
  BY <1>2, <1>3 DEF Looked
<1> QED BY <1>4, <1>5, <1>6, QuietKeeps

LEMMA GiveUpKeeps ==
  ASSUME Inv, NEW r \in Request, GiveUp(r)
  PROVE  Inv'
BY IdleIsQuiet, QuietKeeps DEF GiveUp

LEMMA ClaimVoucherKeeps ==
  ASSUME Inv, NEW r \in Request, NEW v \in Vendor, NEW k \in Claim, claimVoucher(r, v, k)
  PROVE  Inv'
<1>1. PICK j : j = [Idle EXCEPT !.op = "claiming", !.vendor = v, !.claim = k, !.fresh = TRUE]
  OBVIOUS
<1>2. j \in Job /\ j.op = "claiming" /\ j.vendor = v /\ j.claim = k /\ j.fresh
  BY <1>1 DEF Idle, Job, Stage
<1>3. k \notin Taken /\ \A s \in Request : ~req[s].fresh
  BY DEF claimVoucher, claimVoucherTx
<1>4. claim[k].vendor = None
  BY <1>3 DEF Taken
<1>5. Knows(j)
  BY <1>2, <1>4 DEF Knows
<1>6. \A s \in Request \ {r} : req[s].claim # k
  <2> SUFFICES ASSUME NEW s \in Request, req[s].claim = k PROVE FALSE
    OBVIOUS
  <2>1. Knows(req[s]) /\ ~req[s].fresh
    BY <1>3 DEF Inv, Prepared
  <2>2. k # None
    BY OrdersAssumption
  <2>3. req[s].op = "creating" /\ claim[k].vendor = Owner[req[s].order] /\ req[s].order \in Order
    BY <2>1, <2>2 DEF Knows
  <2> QED BY <2>3, <1>4, OrdersAssumption
<1>7. req' = [req EXCEPT ![r] = j] /\ UNCHANGED <<row, claim, events, item>>
  BY <1>1 DEF claimVoucher
<1>8. Cardinality(Taken) < Offer.limit /\ Cardinality(ClaimsOf(v)) < Offer.uses
  BY DEF claimVoucher, claimVoucherTx
<1> QED BY <1>2, <1>3, <1>5, <1>6, <1>7, <1>8, ReadKeeps

LEMMA CreateOrderKeeps ==
  ASSUME Inv, NEW r \in Request, NEW o \in Order, NEW quote \in Quote,
         NEW k \in Claim \cup {None}, createOrder(r, o, quote, k)
  PROVE  Inv'
<1>1. PICK j : j = [op |-> "creating", order |-> o, vendor |-> Owner[o], claim |-> k,
                    fresh |-> k # None /\ k \notin Taken, charge |-> quote, fee |-> 0]
  OBVIOUS
<1>2. /\ j.op = "creating" /\ j.order = o /\ j.vendor = Owner[o] /\ j.claim = k
      /\ j.charge = quote /\ (j.fresh <=> k # None /\ k \notin Taken)
  BY <1>1
<1>3. Owner[o] \in Vendor /\ quote \in Nat /\ None \notin Vendor
  BY OrdersAssumption
<1>4. j \in Job
  BY <1>1, <1>3 DEF Job, Stage
<1>5. req' = [req EXCEPT ![r] = j] /\ UNCHANGED <<row, claim, events, item>>
  BY <1>1 DEF createOrder
<1>6. /\ ~Exists(o) /\ \A s \in Request : req[s].order # o
      /\ k # None => quote >= Offer.minimum /\ resolveVendorClaimTx(o, k)
  BY DEF createOrder
<1>7. ASSUME k # None
      PROVE  \/ /\ k \in Taken /\ claim[k].state = "claimed" /\ claim[k].vendor = Owner[o]
                /\ \A s \in Request : req[s].claim # k
             \/ claimVoucherTx(Owner[o], k)
  BY <1>3, <1>6, <1>7 DEF resolveVendorClaimTx, ClaimsOf, Taken
<1>8. j.fresh => /\ claim[k].vendor = None /\ k \in Claim
                 /\ \A s \in Request : ~req[s].fresh
                 /\ Cardinality(Taken) < Offer.limit /\ Cardinality(ClaimsOf(Owner[o])) < Offer.uses
  BY <1>2, <1>7 DEF claimVoucherTx, Taken
<1>9. Knows(j)
  BY <1>2, <1>3, <1>6, <1>7, <1>8 DEF Knows, claimVoucherTx
<1>10. ASSUME NEW s \in Request, k # None PROVE req[s].claim # k
  <2> SUFFICES ASSUME req[s].claim = k PROVE FALSE
    OBVIOUS
  <2>1. claimVoucherTx(Owner[o], k)
    BY <1>7, <1>10
  <2>2. claim[k].vendor = None /\ ~req[s].fresh /\ Knows(req[s])
    BY <2>1, <1>10 DEF claimVoucherTx, Taken, Inv, Prepared
  <2>3. claim[k].vendor = Owner[req[s].order] /\ req[s].order \in Order
    BY <1>10, <2>2 DEF Knows
  <2> QED BY <2>2, <2>3, OrdersAssumption
<1> QED BY <1>2, <1>4, <1>5, <1>6, <1>8, <1>9, <1>10, ReadKeeps

-----------------------------------------------------------------------------
(* One more claim, within what the offer had room for. *)
LEMMA OneMoreClaim ==
  ASSUME Inv, NEW r \in Request, req[r].fresh, NEW k \in Claim, k = req[r].claim,
         claim'[k].vendor = req[r].vendor,
         \A m \in Claim : m # k => claim'[m].vendor = claim[m].vendor
  PROVE  VoucherLimits'
<1>0. Knows(req[r]) /\ req[r].vendor # None /\ claim[k].vendor = None
  BY OrdersAssumption DEF Inv, Prepared, Knows
<1>1. Taken' = Taken \cup {k} /\ k \notin Taken /\ Taken \subseteq Claim
  BY <1>0 DEF Taken
<1>2. IsFiniteSet(Taken) /\ \A v : IsFiniteSet(ClaimsOf(v))
  BY OrdersAssumption, FS_Subset DEF Taken, ClaimsOf
<1>3. Cardinality(Taken') = Cardinality(Taken) + 1 /\ Cardinality(Taken) \in Nat
  BY <1>1, <1>2, FS_AddElement, FS_CardinalityType
<1>4. Cardinality(Taken) < Offer.limit /\ Cardinality(ClaimsOf(req[r].vendor)) < Offer.uses
  BY DEF Inv, Room
<1>5. Offer.limit \in Nat /\ Offer.uses \in Nat
  BY OrdersAssumption
<1>6. (Cardinality(Taken) <= Offer.limit)'
  BY <1>3, <1>4, <1>5
<1>7. ASSUME NEW v \in Vendor PROVE (Cardinality(ClaimsOf(v)) <= Offer.uses)'
  <2>1. CASE v = req[r].vendor
    <3>1. ClaimsOf(v)' = ClaimsOf(v) \cup {k} /\ k \notin ClaimsOf(v)
      BY <1>0, <2>1 DEF ClaimsOf
    <3>2. Cardinality(ClaimsOf(v)') = Cardinality(ClaimsOf(v)) + 1 /\ Cardinality(ClaimsOf(v)) \in Nat
      BY <3>1, <1>2, FS_AddElement, FS_CardinalityType
    <3>3. Cardinality(ClaimsOf(v)) < Offer.uses
      BY <1>4, <2>1
    <3> QED BY <1>5, <3>2, <3>3
  <2>2. CASE v # req[r].vendor
    <3>1. ClaimsOf(v)' = ClaimsOf(v)
      BY <1>0, <2>2, OrdersAssumption DEF ClaimsOf
    <3> QED BY <3>1 DEF Inv, VoucherLimits
  <2> QED BY <2>1, <2>2
<1> QED BY <1>6, <1>7 DEF VoucherLimits

(* The one request with a fresh claim is done with it, and others keep what
   they know. *)
LEMMA ClaimWritten ==
  ASSUME Inv, NEW r \in Request, req' = [req EXCEPT ![r] = Idle],
         NEW k \in Claim \cup {None}, k = req[r].claim,
         claim' \in [Claim -> ClaimRow], \A m \in Claim : m # k => claim'[m] = claim[m],
         k # None => claim'[k].vendor = req[r].vendor /\ req[r].vendor \in Vendor,
         ~req[r].fresh /\ k # None => claim'[k].vendor = claim[k].vendor,
         row' = row \/ (/\ Doing(r, "creating")
                        /\ \A p \in Order \ {req[r].order} : row'[p] = row[p]
                        /\ row'[req[r].order].status # "none")
  PROVE  Prepared' /\ Alone' /\ Room' /\ VoucherLimits'
<1> USE DEF Inv
<1>1. req'[r] = Idle /\ (\A s \in Request \ {r} : req'[s] = req[s])
  BY DEF Typed
<1>2. Alone'
  BY <1>1 DEF Alone, Doing, Idle
<1>3. VoucherLimits'
  <2>1. CASE req[r].fresh
    <3>1. k \in Claim
      BY <2>1 DEF Prepared, Knows
    <3> QED BY <2>1, <3>1, OrdersAssumption, OneMoreClaim
  <2>2. CASE ~req[r].fresh
    <3>1. \A m \in Claim : claim'[m].vendor = claim[m].vendor
      BY <2>2, OrdersAssumption
    <3>2. Taken' = Taken /\ \A v : ClaimsOf(v)' = ClaimsOf(v)
      BY <3>1 DEF Taken, ClaimsOf
    <3> QED BY <3>2 DEF VoucherLimits
  <2> QED BY <2>1, <2>2
<1>4. ASSUME NEW s \in Request PROVE Knows(req[s])'
  <2>1. CASE s = r
    BY <1>1, <2>1 DEF Knows, Idle
  <2>2. CASE s # r
    <3>1. Knows(req[s]) /\ req[s] \in Job /\ req'[s] = req[s]
      BY <1>1, <2>2 DEF Prepared, Typed
    <3>2. req[s].claim # None => req[s].claim # k /\ req[s].claim \in Claim
      BY <2>2, <3>1 DEF Alone, Job
    <3>3. req[s].claim # None => claim'[req[s].claim] = claim[req[s].claim]
      BY <3>2
    <3>4. req[s].order \in Order =>
            /\ Exists(req[s].order) => row'[req[s].order].status # "none"
            /\ Doing(s, "creating") => row'[req[s].order] = row[req[s].order]
            /\ Doing(s, "restoring") => row'[req[s].order].claim = row[req[s].order].claim
      BY <2>2, <3>1 DEF Exists, Alone, Prepared, Knows, Doing
    <3>5. None \notin Claim
      BY OrdersAssumption
    <3> QED BY <3>1, <3>3, <3>4, <3>5 DEF Knows, Exists, Doing
  <2> QED BY <2>1, <2>2
<1>5. Prepared'
  BY <1>4 DEF Prepared
<1>6. Room'
  <2> SUFFICES ASSUME NEW s \in Request, req'[s].fresh
               PROVE  (/\ Cardinality(Taken) < Offer.limit
                       /\ Cardinality(ClaimsOf(req[s].vendor)) < Offer.uses)'
    BY DEF Room
  <2>1. s # r /\ req[s].fresh /\ req'[s] = req[s]
    BY <1>1 DEF Idle
  <2>2. ~req[r].fresh
    BY <2>1 DEF Alone
  <2>3. \A m \in Claim : claim'[m].vendor = claim[m].vendor
    BY <2>2, OrdersAssumption
  <2>4. Taken' = Taken /\ ClaimsOf(req[s].vendor)' = ClaimsOf(req[s].vendor)
    BY <2>1, <2>3 DEF Taken, ClaimsOf
  <2>5. /\ Cardinality(Taken) < Offer.limit
        /\ Cardinality(ClaimsOf(req[s].vendor)) < Offer.uses
    BY <2>1 DEF Room
  <2> QED BY <2>4, <2>5
<1> QED BY <1>2, <1>3, <1>5, <1>6

LEMMA CommitClaimKeeps ==
  ASSUME Inv, NEW r \in Request, CommitClaim(r)
  PROVE  Inv'
<1> USE DEF Inv
<1>1. PICK k : k = req[r].claim
  OBVIOUS
<1>2. /\ req[r].fresh /\ k \in Claim /\ req[r].vendor \in Vendor /\ claim[k].vendor = None
      /\ UNCHANGED <<row, events, item>> /\ req' = [req EXCEPT ![r] = Idle]
  BY <1>1 DEF CommitClaim, Doing, Prepared, Knows
<1>3. claim' = [claim EXCEPT ![k] = [vendor |-> req[r].vendor, state |-> "claimed", order |-> None]]
  BY <1>1, <1>2 DEF CommitClaim, NewClaim
<1>4. /\ claim' \in [Claim -> ClaimRow] /\ \A m \in Claim : m # k => claim'[m] = claim[m]
      /\ claim'[k] = [vendor |-> req[r].vendor, state |-> "claimed", order |-> None]
  BY <1>2, <1>3 DEF Typed, ClaimRow
<1>5. Typed' /\ Priced' /\ TermsKept'
  BY <1>2, <1>4, IdleIsQuiet DEF Typed, Priced, TermsKept
<1>6. ASSUME NEW m \in Claim PROVE ClaimFits(m)'
  BY <1>2, <1>4, OrdersAssumption DEF Matched, ClaimFits
<1>7. ASSUME NEW p \in Order PROVE OrderFits(p)'
  <2>1. OrderFits(p) /\ row[p].claim \in Claim \cup {None}
    BY DEF Matched, Typed, Row
  <2>2. row[p].claim # k
    BY <1>2, <2>1, OrdersAssumption DEF OrderFits
  <2> QED BY <1>2, <1>4, <2>1, <2>2 DEF OrderFits, Exists
<1>8. Matched'
  BY <1>6, <1>7 DEF Matched
<1>9. claim'[k].vendor = req[r].vendor /\ row' = row
  BY <1>2, <1>4
<1>10. Prepared' /\ Alone' /\ Room' /\ VoucherLimits'
  <2>1. k \in Claim \cup {None} /\ k = req[r].claim /\ req' = [req EXCEPT ![r] = Idle]
    BY <1>1, <1>2
  <2>2. claim' \in [Claim -> ClaimRow] /\ \A m \in Claim : m # k => claim'[m] = claim[m]
    BY <1>4
  <2>3. k # None => claim'[k].vendor = req[r].vendor /\ req[r].vendor \in Vendor
    BY <1>2, <1>9
  <2>4. ~req[r].fresh /\ k # None => claim'[k].vendor = claim[k].vendor
    BY <1>2
  <2>5. Inv
    OBVIOUS
  <2> HIDE DEF Inv
  <2> QED BY <1>9, <2>1, <2>2, <2>3, <2>4, <2>5, ClaimWritten
<1> QED BY <1>5, <1>8, <1>10

LEMMA CommitCreateKeeps ==
  ASSUME Inv, NEW r \in Request, CommitCreate(r)
  PROVE  Inv'
<1> USE DEF Inv
<1>1. PICK j : j = req[r]
  OBVIOUS
<1>2. j \in Job /\ Knows(j) /\ j.op = "creating" /\ j.order \in Order /\ ~Exists(j.order)
  BY <1>1 DEF CommitCreate, Doing, Typed, Prepared, Knows
<1>3. PICK o \in Order, k \in Claim \cup {None}, quote \in Nat :
        o = j.order /\ k = j.claim /\ quote = j.charge
  BY <1>2 DEF Job
<1>4. PICK d : d = IF k = None THEN 0 ELSE Least(OfferDiscount(quote), quote)
  OBVIOUS
<1>5. d \in Nat /\ d <= quote /\ quote - d \in Nat
  BY <1>4, TakenOff
<1>6. /\ row' = [row EXCEPT ![o] = [NoOrder EXCEPT !.status = "active", !.gross = quote,
                                      !.discount = d, !.charge = quote - d, !.claim = k]]
      /\ claim' = IF k = None THEN claim
                  ELSE [NewClaim(r) EXCEPT ![k] = [@ EXCEPT !.state = "reserved", !.order = o]]
      /\ events' = IF k = None THEN events ELSE events \cup {o}
      /\ req' = [req EXCEPT ![r] = Idle] /\ item' = item
  BY <1>1, <1>3, <1>4 DEF CommitCreate
<1>7. PICK new : new = [NoOrder EXCEPT !.status = "active", !.gross = quote,
                                      !.discount = d, !.charge = quote - d, !.claim = k]
  OBVIOUS
<1>8. /\ new \in Row /\ new.status = "active" /\ ~new.deleted /\ new.gross = quote
      /\ new.discount = d /\ new.charge = quote - d /\ new.claim = k
  BY <1>5, <1>7 DEF NoOrder, Row, Statuses
<1>9. row' = [row EXCEPT ![o] = new]
  BY <1>6, <1>7
<1>10. row'[o] = new /\ (\A p \in Order \ {o} : row'[p] = row[p]) /\ row' \in [Order -> Row]
  BY <1>8, <1>9 DEF Typed
<1>11. /\ claim' \in [Claim -> ClaimRow] /\ \A m \in Claim : m # k => claim'[m] = claim[m]
       /\ k # None => /\ claim'[k].vendor = Owner[o] /\ claim'[k].state = "reserved"
                      /\ claim'[k].order = o
                      /\ ~req[r].fresh => claim'[k].vendor = claim[k].vendor
  <2>1. CASE k = None
    BY <1>6, <2>1, OrdersAssumption DEF Typed
  <2>2. CASE k # None
    <3>1. PICK before : before = NewClaim(r)
      OBVIOUS
    <3>2. before \in [Claim -> ClaimRow] /\ \A m \in Claim : m # k => before[m] = claim[m]
      <4>1. CASE ~req[r].fresh BY <3>1, <4>1 DEF NewClaim, Typed
      <4>2. CASE req[r].fresh
        <5>1. before = [claim EXCEPT ![k] = [vendor |-> j.vendor, state |-> "claimed", order |-> None]]
          BY <1>1, <1>3, <3>1, <4>2 DEF NewClaim
        <5>2. j.vendor \in Vendor /\ claim \in [Claim -> ClaimRow]
          BY <1>1, <1>2, <4>2 DEF Knows, Typed
        <5>3. [vendor |-> j.vendor, state |-> "claimed", order |-> None] \in ClaimRow
          BY <5>2 DEF ClaimRow
        <5> QED BY <5>1, <5>2, <5>3
      <4> QED BY <4>1, <4>2
    <3>3. before[k].vendor = Owner[o] /\ (~req[r].fresh => before[k] = claim[k])
      <4>1. CASE ~req[r].fresh
        <5>1. before = claim
          BY <3>1, <4>1 DEF NewClaim
        <5> QED BY <1>1, <1>2, <1>3, <2>2, <4>1, <5>1 DEF Knows
      <4>2. CASE req[r].fresh
        <5>1. before = [claim EXCEPT ![k] = [vendor |-> j.vendor, state |-> "claimed", order |-> None]]
          BY <1>1, <1>3, <3>1, <4>2 DEF NewClaim
        <5>2. before[k] = [vendor |-> j.vendor, state |-> "claimed", order |-> None]
          BY <2>2, <5>1 DEF Typed
        <5> QED BY <1>2, <1>3, <5>2, <4>2 DEF Knows
      <4> QED BY <4>1, <4>2
    <3>4. claim' = [before EXCEPT ![k] = [before[k] EXCEPT !.state = "reserved", !.order = o]]
      BY <1>6, <2>2, <3>1
    <3>5. before[k] \in ClaimRow /\ k \in Claim
      BY <2>2, <3>2
    <3>6. claim'[k] = [before[k] EXCEPT !.state = "reserved", !.order = o]
          /\ \A m \in Claim : m # k => claim'[m] = before[m]
      BY <3>2, <3>4, <3>5
    <3>7. claim'[k] \in ClaimRow /\ claim'[k].vendor = before[k].vendor
          /\ claim'[k].state = "reserved" /\ claim'[k].order = o
      BY <3>5, <3>6 DEF ClaimRow
    <3>8. claim' \in [Claim -> ClaimRow]
      BY <3>2, <3>4, <3>6, <3>7
    <3> QED BY <3>2, <3>3, <3>6, <3>7, <3>8
  <2> QED BY <2>1, <2>2
<1>12. Typed'
  BY <1>6, <1>10, <1>11, IdleIsQuiet DEF Typed
<1>13. Priced'
  BY <1>5, <1>8, <1>10 DEF Priced, Net
<1>14. TermsKept'
  <2>1. k # None => quote >= Offer.minimum
    BY <1>2, <1>3 DEF Knows
  <2> QED BY <1>4, <1>8, <1>10, <2>1 DEF TermsKept
<1>15. OrderFits(o) /\ row[o].claim = None /\ item[o] = Nothing
  BY <1>2, <1>3 DEF Matched, OrderFits
<1>16. ASSUME NEW m \in Claim PROVE ClaimFits(m)'
  <2>1. CASE m = k
    BY <1>8, <1>10, <1>11, <2>1, OrdersAssumption DEF ClaimFits
  <2>2. CASE m # k
    <3>1. ClaimFits(m) /\ claim'[m] = claim[m] /\ claim[m].order \in Order \cup {None}
      BY <1>11, <2>2 DEF Matched, Typed, ClaimRow
    <3>2. claim[m].order = o => row[o].claim # m
      BY <1>15, OrdersAssumption
    <3> QED BY <1>10, <3>1, <3>2 DEF ClaimFits
  <2> QED BY <2>1, <2>2
<1>17. ASSUME NEW p \in Order PROVE OrderFits(p)'
  <2>1. CASE p = o
    <3>1. row'[o].claim = k /\ row'[o].status = "active" /\ ~row'[o].deleted /\ row'[o].discount = d
      BY <1>8, <1>10
    <3>2. k # None => claim'[k].order = o /\ claim'[k].vendor = Owner[o]
      BY <1>11
    <3>3. k # None => o \in events'
      BY <1>6
    <3>4. d > 0 => k # None
      BY <1>4
    <3> QED BY <2>1, <3>1, <3>2, <3>3, <3>4 DEF OrderFits, Exists
  <2>2. CASE p # o
    <3>1. OrderFits(p) /\ row[p].claim \in Claim \cup {None} /\ row'[p] = row[p]
      BY <1>10, <2>2 DEF Matched, Typed, Row
    <3>2. row[p].claim = k /\ k # None => FALSE
      <4> SUFFICES ASSUME row[p].claim = k, k # None PROVE FALSE
        OBVIOUS
      <4>1. claim[k].order = p /\ claim[k].vendor = Owner[p] /\ ClaimFits(k)
        BY <3>1 DEF OrderFits, Matched
      <4>2. claim[k].state \notin {"none", "claimed"} /\ claim[k].vendor # None
        BY <4>1, OrdersAssumption DEF ClaimFits
      <4> QED BY <1>2, <1>3, <4>2 DEF Knows
    <3> QED BY <1>6, <1>11, <3>1, <3>2 DEF OrderFits, Exists
  <2> QED BY <2>1, <2>2
<1>18. Matched'
  BY <1>16, <1>17 DEF Matched
<1>19. j.vendor = Owner[o] /\ Owner[o] \in Vendor
  BY <1>2, <1>3, OrdersAssumption DEF Knows
<1>20. Prepared' /\ Alone' /\ Room' /\ VoucherLimits'
  <2>1. k = req[r].claim /\ Doing(r, "creating") /\ req[r].order = o /\ req[r].vendor = Owner[o]
    BY <1>1, <1>2, <1>3, <1>19 DEF Doing
  <2>2. row'[o].status # "none"
    BY <1>8, <1>10
  <2>3. k # None => claim'[k].vendor = req[r].vendor /\ req[r].vendor \in Vendor
    BY <1>11, <1>19, <2>1
  <2>4. ~req[r].fresh /\ k # None => claim'[k].vendor = claim[k].vendor
    BY <1>11
  <2>5. /\ Doing(r, "creating")
        /\ \A p \in Order \ {req[r].order} : row'[p] = row[p]
        /\ row'[req[r].order].status # "none"
    BY <1>10, <2>1, <2>2
  <2>6. claim' \in [Claim -> ClaimRow] /\ \A m \in Claim : m # k => claim'[m] = claim[m]
    BY <1>11
  <2>7. req' = [req EXCEPT ![r] = Idle] /\ Inv
    BY <1>6
  <2> HIDE DEF Inv
  <2> QED BY <2>1, <2>3, <2>4, <2>5, <2>6, <2>7, ClaimWritten
<1> QED BY <1>12, <1>13, <1>14, <1>18, <1>20

(* Statement items come and go; only an order that exists gets one. *)
ItemMoves ==
  /\ UNCHANGED <<row, claim, events>> /\ item' \in [Order -> Nat \cup {Nothing}]
  /\ req' \in [Request -> Job] /\ \A r \in Request : req'[r] = req[r] \/ req'[r] = Idle
  /\ \A o \in Order : ~Exists(o) => item'[o] = Nothing

LEMMA ItemsMove ==
  ASSUME Inv, (\E r \in Request : InsertItem(r)) \/ (\E o \in Order : RemoveItem(o))
  PROVE  ItemMoves
<1> USE DEF Inv
<1>0. \A o \in Order : ~Exists(o) => item[o] = Nothing
  BY DEF Matched, OrderFits
<1>1. ASSUME NEW r \in Request, InsertItem(r)
      PROVE  ItemMoves
  <2>1. PICK o \in Order : o = req[r].order /\ Exists(o)
    BY <1>1 DEF InsertItem, Doing, Prepared, Knows
  <2>2. item' = [item EXCEPT ![o] = req[r].charge] /\ req[r].charge \in Nat
    BY <1>1, <2>1 DEF InsertItem, Typed, Job
  <2>3. req' = [req EXCEPT ![r] = Idle] /\ UNCHANGED <<row, claim, events>>
    BY <1>1 DEF InsertItem
  <2> QED BY <1>0, <2>1, <2>2, <2>3, IdleIsQuiet DEF Typed, ItemMoves
<1>2. ASSUME NEW o \in Order, RemoveItem(o)
      PROVE  ItemMoves
  BY <1>0, <1>2 DEF RemoveItem, Typed, ItemMoves
<1> QED BY <1>1, <1>2

LEMMA ItemsKeep ==
  ASSUME Inv, ItemMoves
  PROVE  Inv'
<1> USE DEF Inv, ItemMoves
<1>1. Typed' /\ Priced' /\ TermsKept'
  BY DEF Typed, Priced, TermsKept
<1>2. Matched'
  BY DEF Matched, ClaimFits, OrderFits, Exists
<1>3. ASSUME NEW r \in Request PROVE Knows(req[r])'
  <2>1. Knows(req'[r])
    BY IdleIsQuiet DEF Prepared
  <2> QED BY <2>1 DEF Knows, Exists
<1>4. Prepared' /\ Alone'
  BY <1>3 DEF Prepared, Alone, Doing, Idle
<1>5. Room'
  <2> SUFFICES ASSUME NEW s \in Request, req'[s].fresh
               PROVE  (/\ Cardinality(Taken) < Offer.limit
                       /\ Cardinality(ClaimsOf(req[s].vendor)) < Offer.uses)'
    BY DEF Room
  <2>1. req'[s] = req[s] /\ req[s].fresh
    BY IdleIsQuiet
  <2> QED BY <2>1 DEF Room, Taken, ClaimsOf
<1>6. VoucherLimits'
  BY DEF VoucherLimits, Taken, ClaimsOf
<1> QED BY <1>1, <1>2, <1>4, <1>5, <1>6

(* The rows that edits, the trash and status handlers write. *)
LEMMA WriteIsUpdate ==
  ASSUME Typed, Prepared, NEW r \in Request, WriteOrder(r)
  PROVE  \E o \in Order, new \in Row :
           /\ o = req[r].order /\ Exists(o) /\ Update(o, new)
           /\ \/ new.status = row[o].status
              \/ new.status = "active" /\ row[o].claim = None
           /\ UNCHANGED <<events, item>> /\ req' = [req EXCEPT ![r] = Idle]
           /\ fees' = Logged(o, r)
           /\ \/ new.charge = row[o].charge
              \/ new.charge = req[r].charge /\ Doing(r, "editing")
              \/ new.charge = req[r].charge + req[r].fee /\ req[r].op \in Diversion
<1>1. PICK o \in Order : o = req[r].order /\ Exists(o)
  BY DEF WriteOrder, Prepared, Knows, Diversion
<1>2. row[o] \in Row /\ req[r].charge \in Nat /\ req[r].fee \in Nat /\ Knows(req[r])
  BY DEF Typed, Job, Prepared
<1>3. PICK new : new = Written(o, r)
  OBVIOUS
<1>4. Update(o, new) /\ UNCHANGED <<events, item>> /\ req' = [req EXCEPT ![r] = Idle]
      /\ req[r].op \in {"editing", "trashing", "restoring"} \cup Diversion /\ fees' = Logged(o, r)
  BY <1>1, <1>3 DEF WriteOrder
<1>5. /\ new \in Row
      /\ \/ new.status = row[o].status
         \/ new.status = "active" /\ row[o].claim = None
      /\ \/ new.charge = row[o].charge
         \/ new.charge = req[r].charge /\ Doing(r, "editing")
         \/ new.charge = req[r].charge + req[r].fee /\ req[r].op \in Diversion
  <2>1. CASE req[r].op = "editing"
    BY <1>2, <1>3, <2>1 DEF Written, Doing, Row
  <2>2. CASE req[r].op = "trashing"
    BY <1>2, <1>3, <2>2 DEF Written, Doing, Row, Diversion
  <2>3. CASE req[r].op = "restoring"
    <3>1. new = [row[o] EXCEPT !.deleted = FALSE, !.status = "active"]
      BY <1>3, <2>3 DEF Written, Doing, Diversion
    <3>2. "active" \in Statuses
      BY DEF Statuses
    <3> QED BY <1>1, <1>2, <2>3, <3>1, <3>2 DEF Row, Knows
  <2>4. CASE req[r].op \in Diversion
    <3>1. req[r].charge + req[r].fee \in Nat
      BY <1>2
    <3>2. new = [row[o] EXCEPT !.charge = req[r].charge + req[r].fee]
      BY <1>3, <2>4 DEF Written, Doing, Diversion
    <3> QED BY <1>2, <2>4, <3>1, <3>2 DEF Row
  <2> QED BY <1>4, <2>1, <2>2, <2>3, <2>4
<1> QED BY <1>1, <1>4, <1>5

LEMMA StatusIsUpdate ==
  ASSUME Typed, NEW o \in Order, NEW to \in Statuses, NEW charge \in Nat,
         updateParcelStatus(o, to, charge)
  PROVE  \E new \in Row :
           /\ Exists(o) /\ Update(o, new) /\ new.status = to
           /\ UNCHANGED <<events, item, fees, req>> /\ new.charge = charge
<1>1. row[o] \in Row
  BY DEF Typed
<1>2. PICK cash : cash = IF to \in Outcomes THEN TRUE
              ELSE IF to = "cancelled" \/ row[o].status = "delivered" THEN FALSE ELSE row[o].cash
  OBVIOUS
<1>3. cash \in BOOLEAN
  BY <1>1, <1>2 DEF Row
<1>4. PICK new : new = [row[o] EXCEPT !.status = to, !.cash = cash, !.charge = charge]
  OBVIOUS
<1>5. new \in Row /\ new.status = to /\ new.charge = charge
  BY <1>1, <1>3, <1>4 DEF Row
<1>6. Update(o, new)
  BY <1>2, <1>4 DEF updateParcelStatus
<1> QED BY <1>5, <1>6 DEF updateParcelStatus

LEMMA NextKeeps ==
  ASSUME Inv, [Next]_vars
  PROVE  Inv'
<1>0. Inv => Typed /\ Prepared
  BY DEF Inv
<1>1. ASSUME NEW r \in Request, NEW o \in Order,
             \/ \E quote \in Quote, k \in Claim \cup {None} : createOrder(r, o, quote, k)
             \/ Looks(r, o)
      PROVE  Inv'
  BY <1>1, CreateOrderKeeps, LooksKeep
<1>2. ASSUME NEW r \in Request, NEW v \in Vendor, NEW k \in Claim, claimVoucher(r, v, k)
      PROVE  Inv'
  BY <1>2, ClaimVoucherKeeps
<1>3. ASSUME NEW r \in Request,
             CommitClaim(r) \/ CommitCreate(r) \/ InsertItem(r) \/ GiveUp(r)
      PROVE  Inv'
  BY <1>3, CommitClaimKeeps, CommitCreateKeeps, GiveUpKeeps, ItemsMove, ItemsKeep
<1>4. ASSUME NEW r \in Request, WriteOrder(r)
      PROVE  Inv'
  <2>1. PICK o \in Order, new \in Row :
           /\ Exists(o) /\ Update(o, new)
           /\ \/ new.status = row[o].status
              \/ new.status = "active" /\ row[o].claim = None
           /\ UNCHANGED <<events, item>> /\ req' = [req EXCEPT ![r] = Idle]
    BY <1>0, <1>4, WriteIsUpdate
  <2>2. req' \in [Request -> Job] /\ \A s \in Request : req'[s] = req[s] \/ req'[s] = Idle
    BY <1>0, <2>1, IdleIsQuiet DEF Typed
  <2>3. new.status # "none"
    BY <2>1 DEF Exists
  <2> QED BY <2>1, <2>2, <2>3, UpdateKeeps
<1>5. ASSUME NEW o \in Order, NEW to \in Statuses, NEW charge \in Quote \cup {row[o].charge},
             updateParcelStatus(o, to, charge)
      PROVE  Inv'
  <2>0. charge \in Nat
    BY <1>0, OrdersAssumption DEF Typed, Row
  <2>1. PICK new \in Row :
           /\ Exists(o) /\ Update(o, new) /\ new.status = to /\ UNCHANGED <<events, item, req>>
    BY <1>0, <1>5, <2>0, StatusIsUpdate
  <2>2. req' \in [Request -> Job] /\ \A s \in Request : req'[s] = req[s] \/ req'[s] = Idle
    BY <1>0, <2>1 DEF Typed
  <2>3. new.status # "none"
    BY <2>1 DEF Statuses, Outcomes
  <2> QED BY <2>1, <2>2, <2>3, UpdateKeeps
<1>6. ASSUME NEW o \in Order, RemoveItem(o)
      PROVE  Inv'
  BY <1>6, ItemsMove, ItemsKeep
<1>7. ASSUME UNCHANGED vars
      PROVE  Inv'
  <2>1. ItemMoves
    BY <1>7 DEF vars, ItemMoves, Inv, Typed, Matched, OrderFits
  <2> QED BY <2>1, ItemsKeep
<1> QED BY <1>1, <1>2, <1>3, <1>4, <1>5, <1>6, <1>7 DEF Next, Looks

LEMMA InitHolds ==
  ASSUME Init
  PROVE  Inv
<1>1. \A o \in Order : row[o] = NoOrder /\ item[o] = Nothing
  BY DEF Init
<1>2. \A k \in Claim : claim[k] = NoClaim
  BY DEF Init
<1>3. \A r \in Request : req[r] = Idle
  BY DEF Init
<1>4. NoOrder \in Row /\ NoClaim \in ClaimRow
  BY DEF NoOrder, NoClaim, Row, ClaimRow
<1>5. Typed
  BY <1>4, IdleIsQuiet DEF Init, Typed
<1>6. Priced /\ TermsKept
  BY <1>1, <1>4 DEF Priced, Net, TermsKept, NoOrder
<1>7. Matched
  BY <1>1, <1>2 DEF Matched, ClaimFits, OrderFits, NoOrder, NoClaim, Exists, Init
<1>8. Prepared /\ Alone /\ Room
  BY <1>3, IdleIsQuiet DEF Prepared, Alone, Room, Doing
<1>9. VoucherLimits
  <2>1. Taken = {} /\ \A v \in Vendor : ClaimsOf(v) = {}
    BY <1>2, OrdersAssumption DEF Taken, ClaimsOf, NoClaim
  <2>2. Offer.limit \in Nat /\ Offer.uses \in Nat
    BY OrdersAssumption
  <2> QED BY <2>1, <2>2, FS_EmptySet DEF VoucherLimits
<1> QED BY <1>5, <1>6, <1>7, <1>8, <1>9 DEF Inv

LEMMA Invariance == Spec => []Inv
<1>1. Init => Inv
  BY InitHolds
<1>2. Inv /\ [Next]_vars => Inv'
  BY NextKeeps
<1> QED BY <1>1, <1>2, PTL DEF Spec

-----------------------------------------------------------------------------
FeesTyped == fees \in [Order -> [Diversion -> Nat]]

(* Only a diversion that commits logs a fee. *)
LEMMA FeesMove ==
  ASSUME Inv, [Next]_vars
  PROVE  fees' = fees \/ \E r \in Request : WriteOrder(r)
<1>1. ASSUME NEW r \in Request, NEW o \in Order, Looks(r, o)
      PROVE  fees' = fees
  BY <1>1, LookReads DEF Looked, Inv, Typed
<1>2. ASSUME NEW r \in Request, NEW o \in Order, NEW quote \in Quote, NEW k \in Claim \cup {None},
             createOrder(r, o, quote, k)
      PROVE  fees' = fees
  BY <1>2 DEF createOrder
<1>3. ASSUME NEW r \in Request, NEW v \in Vendor, NEW k \in Claim, claimVoucher(r, v, k)
      PROVE  fees' = fees
  BY <1>3 DEF claimVoucher
<1>4. ASSUME NEW r \in Request, CommitClaim(r) \/ CommitCreate(r) \/ InsertItem(r) \/ GiveUp(r)
      PROVE  fees' = fees
  BY <1>4 DEF CommitClaim, CommitCreate, InsertItem, GiveUp
<1>5. ASSUME NEW o \in Order, NEW to \in Statuses, NEW charge \in Quote \cup {row[o].charge},
             updateParcelStatus(o, to, charge)
      PROVE  fees' = fees
  BY <1>5 DEF updateParcelStatus
<1>6. ASSUME NEW o \in Order, RemoveItem(o)
      PROVE  fees' = fees
  BY <1>6 DEF RemoveItem
<1>7. UNCHANGED vars => fees' = fees
  BY DEF vars
<1> QED BY <1>1, <1>2, <1>3, <1>4, <1>5, <1>6, <1>7 DEF Next, Looks

LEMMA FeesStayTyped ==
  ASSUME Inv, FeesTyped, [Next]_vars
  PROVE  FeesTyped'
<1>1. CASE fees' = fees
  BY <1>1 DEF FeesTyped
<1>2. ASSUME NEW r \in Request, WriteOrder(r)
      PROVE  FeesTyped'
  <2>1. PICK o \in Order : fees' = Logged(o, r)
    BY <1>2, WriteIsUpdate DEF Inv
  <2>2. req[r].fee \in Nat
    BY DEF Inv, Typed, Job
  <2> QED BY <2>1, <2>2 DEF FeesTyped, Logged
<1> QED BY <1>1, <1>2, FeesMove

(* Every row keeps its type, and charges add up: the trigger prices whatever
   creations, edits and status handlers write. *)
THEOREM TypesHold == Spec => []TypeOK
<1>1. Inv /\ FeesTyped => TypeOK
  BY DEF Inv, Typed, Priced, Net, TypeOK, FeesTyped, Row, ClaimRow
<1>2. Init => FeesTyped
  BY DEF Init, FeesTyped, NoFees
<1>3. Inv /\ FeesTyped /\ [Next]_vars => FeesTyped'
  BY FeesStayTyped
<1> QED BY <1>1, <1>2, <1>3, Invariance, PTL DEF Spec

(* Claims and orders name each other: the two locks of a creation, on the claim
   and on the offer, and the trigger that lets go of a claim. *)
THEOREM ClaimsMatch == Spec => []ClaimMatchesOrder
<1>1. Inv => ClaimMatchesOrder
  <2> SUFFICES ASSUME Inv PROVE ClaimMatchesOrder
    OBVIOUS
  <2>1. \A k \in Claim : ClaimFits(k) /\ claim[k].state \in {"none", "claimed", "reserved", "used"}
    BY DEF Inv, Matched, Typed, ClaimRow
  <2>2. \A o \in Order : OrderFits(o)
    BY DEF Inv, Matched
  <2> QED BY <2>1, <2>2 DEF ClaimMatchesOrder, ClaimFits, OrderFits
<1> QED BY <1>1, Invariance, PTL

(* Two vendors racing the last spot cannot both take it: the row lock of the
   offer lets one request at a time count and add. *)
THEOREM LimitsHold == Spec => []VoucherLimits
BY Invariance, PTL DEF Inv

(* A discount keeps to the terms through every repricing. *)
THEOREM TermsAreKept == Spec => []TermsKept
BY Invariance, PTL DEF Inv

-----------------------------------------------------------------------------
(* A returned order is charged in full, and what an item says of a discounted
   order is what the order says. *)
FrozenAt(o) ==
  /\ row[o].status = "returned_to_vendor" /\ row[o].claim # None => row[o].discount = 0
  /\ item[o] # Nothing /\ row[o].discount > 0 /\ o \notin regained => item[o] = row[o].charge

Frozen == \A o \in Order : FrozenAt(o)

(* The trigger refuses a new price for a discounted order with an item; one
   with an item and no discount has none after, or regains one. *)
LEMMA UpdateFreezes ==
  ASSUME Inv, NEW o \in Order, NEW new \in Row, Update(o, new), item' = item, FrozenAt(o)
  PROVE  FrozenAt(o)'
<1>1. row'[o] = PricedRow(o, new) /\ MayPrice(o, new)
  BY DEF Update, Inv, Typed
<1>2. row[o] \in Row /\ Net(row[o])
  BY DEF Inv, Typed, Priced
<1>3. PICK d : d = IF row[o].claim = None THEN IF Reprices(o, new) THEN 0 ELSE row[o].discount
           ELSE IF Releases(o, new) \/ new.status = "returned_to_vendor" THEN 0
           ELSE Least(OfferDiscount(GrossAfter(o, new)), GrossAfter(o, new))
  OBVIOUS
<1>4. /\ PricedRow(o, new).discount = d
      /\ PricedRow(o, new).status = new.status
      /\ PricedRow(o, new).claim = IF Releases(o, new) THEN None ELSE row[o].claim
      /\ PricedRow(o, new).charge = IF row[o].claim = None THEN new.charge ELSE GrossAfter(o, new) - d
  <2>1. PricedRow(o, new) =
        [new EXCEPT !.gross = GrossAfter(o, new), !.discount = d,
                 !.charge = IF row[o].claim = None THEN new.charge ELSE GrossAfter(o, new) - d,
                 !.claim = IF Releases(o, new) THEN None ELSE row[o].claim]
    BY <1>3 DEF PricedRow
  <2> QED BY <2>1 DEF Row
<1>5. row'[o].status = "returned_to_vendor" /\ row'[o].claim # None => row'[o].discount = 0
  BY <1>1, <1>3, <1>4
<1>6. ASSUME item[o] # Nothing, row'[o].discount > 0, o \notin regained'
      PROVE  item[o] = row'[o].charge
  <2>1. row[o].discount > 0
    <3>1. row[o].discount # 0
      BY <1>1, <1>6 DEF Update
    <3> QED BY <1>2, <3>1 DEF Row
  <2>2. item[o] = row[o].charge
    BY <1>6, <2>1 DEF FrozenAt, Update
  <2>3. CASE row[o].claim = None
    BY <1>1, <1>3, <1>4, <1>6, <2>2, <2>3 DEF Reprices
  <2>4. CASE row[o].claim # None
    <3>1. row[o].status # "returned_to_vendor"
      BY <2>1, <2>4 DEF FrozenAt
    <3>2. ~Reprices(o, new) /\ ~Releases(o, new) /\ new.status # "returned_to_vendor"
      BY <1>1, <1>6, <2>1, <2>4 DEF MayPrice
    <3>3. row[o].discount = Least(OfferDiscount(row[o].gross), row[o].gross)
      BY <2>4, <3>1 DEF Inv, TermsKept
    <3>4. d = row[o].discount /\ GrossAfter(o, new) = row[o].gross
      BY <1>3, <2>4, <3>2, <3>3 DEF GrossAfter
    <3> QED BY <1>1, <1>2, <1>4, <2>2, <2>4, <3>4 DEF Net
  <2> QED BY <2>3, <2>4
<1> QED BY <1>5, <1>6 DEF FrozenAt

LEMMA NextFreezes ==
  ASSUME Inv, Frozen, [Next]_vars
  PROVE  Frozen'
<1>0. Typed /\ Prepared /\ Matched /\ \A o \in Order : FrozenAt(o)
  BY DEF Inv, Frozen
<1> SUFFICES ASSUME NEW p \in Order PROVE FrozenAt(p)'
  BY DEF Frozen
<1>1. ASSUME row'[p] = row[p], item'[p] = item[p], p \in regained => p \in regained'
      PROVE  FrozenAt(p)'
  BY <1>0, <1>1 DEF FrozenAt
<1>2. ASSUME NEW r \in Request, CommitCreate(r)
      PROVE  FrozenAt(p)'
  <2>1. req[r].order \in Order /\ ~Exists(req[r].order) /\ UNCHANGED <<item, regained>>
    BY <1>0, <1>2 DEF CommitCreate, Prepared, Knows, Doing
  <2>2. CASE p = req[r].order
    <3>1. item'[p] = Nothing
      BY <1>0, <2>1, <2>2 DEF Matched, OrderFits
    <3>2. row'[p].status = "active"
      BY <1>0, <1>2, <2>2 DEF CommitCreate, Typed, NoOrder
    <3> QED BY <3>1, <3>2 DEF FrozenAt
  <2>3. CASE p # req[r].order
    <3>1. row'[p] = row[p]
      BY <1>0, <1>2, <2>3 DEF CommitCreate, Typed
    <3> QED BY <1>1, <2>1, <3>1
  <2> QED BY <2>2, <2>3
<1>3. ASSUME NEW r \in Request, InsertItem(r)
      PROVE  FrozenAt(p)'
  <2>1. CASE p = req[r].order
    <3>1. item'[p] = req[r].charge /\ UNCHANGED <<row, regained>>
      BY <1>0, <1>3, <2>1 DEF InsertItem, Typed
    <3>2. p \in events => req[r].charge = row[p].charge
      BY <1>3, <2>1 DEF InsertItem
    <3>3. row[p].discount > 0 => p \in events
      BY <1>0 DEF Matched, OrderFits
    <3> QED BY <1>0, <3>1, <3>2, <3>3 DEF FrozenAt
  <2>2. CASE p # req[r].order
    <3>1. item'[p] = item[p] /\ UNCHANGED <<row, regained>>
      BY <1>0, <1>3, <2>2 DEF InsertItem, Typed
    <3> QED BY <1>1, <3>1
  <2> QED BY <2>1, <2>2
<1>4. ASSUME NEW o \in Order, RemoveItem(o)
      PROVE  FrozenAt(p)'
  <2>1. row' = row /\ regained' = regained \ {o}
        /\ IF p = o THEN item'[p] = Nothing ELSE item'[p] = item[p]
    BY <1>0, <1>4 DEF RemoveItem, Typed
  <2> QED BY <1>0, <2>1 DEF FrozenAt
<1>5. ASSUME NEW o \in Order, NEW new \in Row, Update(o, new), item' = item
      PROVE  FrozenAt(p)'
  <2>1. CASE p = o
    BY <1>0, <1>5, <2>1, UpdateFreezes
  <2>2. CASE p # o
    <3>1. row'[p] = row[p] /\ (p \in regained => p \in regained')
      BY <1>0, <1>5, <2>2 DEF Update, Typed
    <3> QED BY <1>1, <1>5, <3>1
  <2> QED BY <2>1, <2>2
<1>6. ASSUME NEW r \in Request, WriteOrder(r)
      PROVE  FrozenAt(p)'
  <2>1. PICK o \in Order, new \in Row : Update(o, new) /\ UNCHANGED <<events, item>>
    BY <1>0, <1>6, WriteIsUpdate
  <2> QED BY <1>5, <2>1
<1>7. ASSUME NEW o \in Order, NEW to \in Statuses, NEW charge \in Quote \cup {row[o].charge},
             updateParcelStatus(o, to, charge)
      PROVE  FrozenAt(p)'
  <2>0. charge \in Nat
    BY <1>0, OrdersAssumption DEF Typed, Row
  <2>1. PICK new \in Row : Update(o, new) /\ UNCHANGED <<events, item, req>>
    BY <1>0, <1>7, <2>0, StatusIsUpdate
  <2> QED BY <1>5, <2>1
<1>8. ASSUME NEW r \in Request, NEW o \in Order, Looks(r, o)
      PROVE  UNCHANGED <<row, item, regained>>
  BY <1>0, <1>8, LookReads DEF Looked, Typed
<1>9. ASSUME NEW r \in Request, NEW o \in Order, NEW quote \in Quote, NEW k \in Claim \cup {None},
             createOrder(r, o, quote, k)
      PROVE  UNCHANGED <<row, item, regained>>
  BY <1>9 DEF createOrder
<1>10. ASSUME NEW r \in Request, CommitClaim(r) \/ GiveUp(r)
       PROVE  UNCHANGED <<row, item, regained>>
  BY <1>10 DEF CommitClaim, GiveUp
<1>11. ASSUME NEW r \in Request, NEW v \in Vendor, NEW k \in Claim, claimVoucher(r, v, k)
       PROVE  UNCHANGED <<row, item, regained>>
  BY <1>11 DEF claimVoucher
<1>12. UNCHANGED vars => UNCHANGED <<row, item, regained>>
  BY DEF vars
<1>13. UNCHANGED <<row, item, regained>> => FrozenAt(p)'
  BY <1>1
<1> QED BY <1>2, <1>3, <1>4, <1>6, <1>7, <1>8, <1>9, <1>10, <1>11, <1>12, <1>13 DEF Next, Looks

(* Whatever is priced, forced and billed at once, an order that has had its
   discount since it was put on a statement is charged what the statement says:
   the check on the item, and the trigger that refuses a new price. *)
THEOREM DiscountsFrozen == Spec => []SettledDiscountFrozen
<1>1. Init => Frozen
  BY DEF Init, Frozen, FrozenAt, NoOrder
<1>2. Inv /\ Frozen /\ [Next]_vars => Frozen'
  BY NextFreezes
<1>3. Frozen => SettledDiscountFrozen
  BY DEF Frozen, FrozenAt, SettledDiscountFrozen
<1> QED BY <1>1, <1>2, <1>3, Invariance, PTL DEF Spec

-----------------------------------------------------------------------------
(* A price the rate tables and the fees of the order explain. *)
Due(o, charge) == \E quote \in Quote : charge <= quote + TotalFees(o)

(* So are the charges requests are going to write. *)
DueWhenWritten(j) ==
  /\ j.op \in {"editing"} \cup Diversion => Due(j.order, j.charge)
  /\ j.op = "creating" => j.charge \in Quote

Explained == ChargesExplained /\ \A r \in Request : DueWhenWritten(req[r])

(* The fees of an order only grow, by what a diversion logs. *)
LEMMA FeesGrow ==
  ASSUME Inv, FeesTyped, NEW r \in Request, NEW o \in Order, o = req[r].order,
         fees' = Logged(o, r)
  PROVE  /\ \A p \in Order : TotalFees(p) \in Nat /\ TotalFees(p)' \in Nat
                             /\ TotalFees(p) <= TotalFees(p)'
         /\ req[r].op \in Diversion => TotalFees(o)' = TotalFees(o) + req[r].fee
<1>1. req[r].fee \in Nat
  BY DEF Inv, Typed, Job
<1>2. \A p \in Order, kind \in Diversion : fees[p][kind] \in Nat
  BY DEF FeesTyped
<1>3. CASE req[r].op \notin Diversion
  BY <1>2, <1>3 DEF Logged, TotalFees, Diversion
<1>4. CASE req[r].op \in Diversion
  <2>1. PICK kind \in Diversion : kind = req[r].op
    BY <1>4
  <2>2. fees' = [fees EXCEPT ![o] = [fees[o] EXCEPT ![kind] = fees[o][kind] + req[r].fee]]
    BY <1>4, <2>1 DEF Logged
  <2>3. fees'[o] = [fees[o] EXCEPT ![kind] = fees[o][kind] + req[r].fee]
        /\ \A p \in Order : p # o => fees'[p] = fees[p]
    BY <2>2 DEF FeesTyped
  <2>4. \A other \in Diversion :
          fees'[o][other] = IF other = kind THEN fees[o][kind] + req[r].fee ELSE fees[o][other]
    BY <2>3 DEF FeesTyped
  <2>5. TotalFees(o)' = TotalFees(o) + req[r].fee
    BY <1>1, <1>2, <2>4 DEF TotalFees, Diversion
  <2>6. \A p \in Order : p # o => TotalFees(p)' = TotalFees(p)
    BY <2>3 DEF TotalFees
  <2>7. \A p \in Order : TotalFees(p) \in Nat
    BY <1>2 DEF TotalFees, Diversion
  <2> QED BY <1>1, <2>5, <2>6, <2>7
<1> QED BY <1>3, <1>4

(* What was due stays due while fees grow. *)
LEMMA DueStays ==
  ASSUME NEW o \in Order, NEW charge \in Nat, Due(o, charge),
         TotalFees(o) \in Nat, TotalFees(o)' \in Nat, TotalFees(o) <= TotalFees(o)'
  PROVE  Due(o, charge)'
<1>1. PICK quote \in Quote : charge <= quote + TotalFees(o)
  BY DEF Due
<1>2. quote \in Nat
  BY OrdersAssumption
<1>3. charge <= quote + TotalFees(o)'
  BY <1>1, <1>2
<1> QED BY <1>3 DEF Due

(* The trigger keeps the gross charge, or takes the charge written for it. *)
LEMMA GrossWritten ==
  ASSUME Typed, NEW o \in Order, NEW new \in Row, Update(o, new)
  PROVE  /\ row'[o].gross = IF Reprices(o, new) THEN new.charge ELSE row[o].gross
         /\ row'[o].status = new.status
         /\ \A p \in Order \ {o} : row'[p] = row[p]
<1>1. row' = [row EXCEPT ![o] = PricedRow(o, new)]
  BY DEF Update
<1>2. row'[o] = PricedRow(o, new) /\ \A p \in Order \ {o} : row'[p] = row[p]
  BY <1>1 DEF Typed
<1>3. PricedRow(o, new).gross = GrossAfter(o, new) /\ PricedRow(o, new).status = new.status
  BY DEF PricedRow, Row
<1> QED BY <1>2, <1>3 DEF GrossAfter

LEMMA WriteExplained ==
  ASSUME Inv, FeesTyped, Explained, NEW r \in Request, WriteOrder(r)
  PROVE  Explained'
<1>1. PICK o \in Order, new \in Row :
        /\ o = req[r].order /\ Exists(o) /\ Update(o, new)
        /\ req' = [req EXCEPT ![r] = Idle]
        /\ fees' = Logged(o, r)
        /\ \/ new.charge = row[o].charge
           \/ new.charge = req[r].charge /\ Doing(r, "editing")
           \/ new.charge = req[r].charge + req[r].fee /\ req[r].op \in Diversion
  BY WriteIsUpdate DEF Inv
<1>2. /\ \A p \in Order : TotalFees(p) \in Nat /\ TotalFees(p)' \in Nat
                          /\ TotalFees(p) <= TotalFees(p)'
      /\ req[r].op \in Diversion => TotalFees(o)' = TotalFees(o) + req[r].fee
  BY <1>1, FeesGrow
<1>3. Typed /\ req[r] \in Job /\ row[o] \in Row
  BY DEF Inv, Typed
<1>4. /\ row'[o].gross = IF Reprices(o, new) THEN new.charge ELSE row[o].gross
      /\ \A p \in Order \ {o} : row'[p] = row[p]
  BY <1>1, <1>3, GrossWritten
<1>5. ASSUME NEW p \in Order, NEW charge \in Nat, Due(p, charge)
      PROVE  Due(p, charge)'
  BY <1>2, <1>5, DueStays
<1>6. Due(o, row[o].gross)'
      /\ row[o].gross \in Nat
  <2>1. Due(o, row[o].gross)
    BY <1>1 DEF Explained, ChargesExplained, Due
  <2>2. row[o].gross \in Nat /\ req[r].charge \in Nat /\ req[r].fee \in Nat
    BY <1>3 DEF Row, Job
  <2>3. CASE ~Reprices(o, new)
    <3>1. \E quote \in Quote : row[o].gross <= quote + TotalFees(o)'
      BY <1>5, <2>1, <2>2 DEF Due
    <3> QED BY <1>4, <2>2, <2>3, <3>1 DEF Due
  <2>4. CASE Reprices(o, new) /\ Doing(r, "editing") /\ new.charge = req[r].charge
    <3>1. Due(o, req[r].charge)
      BY <1>1, <2>4 DEF Explained, DueWhenWritten, Doing
    <3>2. \E quote \in Quote : req[r].charge <= quote + TotalFees(o)'
      BY <1>5, <2>2, <3>1 DEF Due
    <3> QED BY <1>4, <2>2, <2>4, <3>2 DEF Due
  <2>5. CASE Reprices(o, new) /\ req[r].op \in Diversion
             /\ new.charge = req[r].charge + req[r].fee
    <3>1. PICK quote \in Quote : req[r].charge <= quote + TotalFees(o)
      BY <1>1, <2>5 DEF Explained, DueWhenWritten, Due
    <3>2. quote \in Nat /\ TotalFees(o) \in Nat
      BY <1>2, OrdersAssumption
    <3>3. new.charge <= quote + TotalFees(o)'
      BY <1>2, <2>2, <2>5, <3>1, <3>2
    <3> QED BY <1>4, <2>2, <2>5, <3>3 DEF Due
  <2> QED BY <1>1, <2>2, <2>3, <2>4, <2>5 DEF Reprices
<1>7. ASSUME NEW p \in Order, Exists(p)' PROVE Due(p, row[p].gross)'
  <2>1. CASE p = o
    BY <1>6, <2>1
  <2>2. CASE p # o
    <3>1. row'[p] = row[p] /\ row[p].gross \in Nat /\ Exists(p)
      BY <1>3, <1>4, <1>7, <2>2 DEF Typed, Row, Exists
    <3>2. Due(p, row[p].gross)
      BY <3>1 DEF Explained, ChargesExplained, Due
    <3>3. \E quote \in Quote : row[p].gross <= quote + TotalFees(p)'
      BY <1>5, <3>1, <3>2 DEF Due
    <3> QED BY <3>1, <3>3 DEF Due
  <2> QED BY <2>1, <2>2
<1>8. ASSUME NEW s \in Request PROVE DueWhenWritten(req[s])'
  <2>1. CASE s = r
    <3>1. req'[s] = Idle
      BY <1>1, <1>3, <2>1 DEF Typed
    <3> QED BY <3>1 DEF DueWhenWritten, Idle, Diversion
  <2>2. CASE s # r
    <3>1. req'[s] = req[s] /\ req[s] \in Job /\ DueWhenWritten(req[s]) /\ Knows(req[s])
      BY <1>1, <1>3, <2>2 DEF Typed, Explained, Inv, Prepared
    <3>2. req[s].op \in {"editing"} \cup Diversion =>
            req[s].order \in Order /\ req[s].charge \in Nat
      BY <3>1 DEF Knows, Job, Diversion
    <3>3. req[s].op \in {"editing"} \cup Diversion =>
            \E quote \in Quote : req[s].charge <= quote + TotalFees(req[s].order)'
      BY <1>5, <3>1, <3>2 DEF DueWhenWritten, Due
    <3> QED BY <3>1, <3>2, <3>3 DEF DueWhenWritten, Due, TotalFees
  <2> QED BY <2>1, <2>2
<1> QED BY <1>7, <1>8 DEF Explained, ChargesExplained, Due

(* A step that logs no fee, leaves every gross charge alone or replaces it by one
   that is due, and lets requests note charges that are due. *)
LEMMA QuietExplained ==
  ASSUME Explained, fees' = fees,
         \A o \in Order : Exists(o)' => (Exists(o) /\ row'[o].gross = row[o].gross)
                                        \/ Due(o, row'[o].gross),
         \A r \in Request : req'[r] = req[r] \/ DueWhenWritten(req'[r])
  PROVE  Explained'
<1>1. \A o : TotalFees(o)' = TotalFees(o)
  BY DEF TotalFees
<1>2. ASSUME NEW o \in Order, Exists(o)'
      PROVE  \E quote \in Quote : row'[o].gross <= quote + TotalFees(o)'
  BY <1>1, <1>2 DEF Explained, ChargesExplained, Due
<1>3. ASSUME NEW r \in Request PROVE DueWhenWritten(req[r])'
  <2>1. DueWhenWritten(req'[r])
    BY DEF Explained
  <2> QED BY <1>1, <2>1 DEF DueWhenWritten, Due
<1> QED BY <1>2, <1>3 DEF Explained, ChargesExplained

LEMMA ChargeIsDue ==
  ASSUME Inv, Explained, NEW o \in Order, Exists(o), FeesTyped
  PROVE  /\ Due(o, row[o].charge)
         /\ \A quote \in Quote : Due(o, quote)
<1>1. PICK quote \in Quote : row[o].gross <= quote + TotalFees(o)
  BY DEF Explained, ChargesExplained
<1>2. row[o] \in Row /\ Net(row[o])
  BY DEF Inv, Typed, Priced
<1>3. quote \in Nat /\ TotalFees(o) \in Nat /\ Quote \subseteq Nat
  BY OrdersAssumption DEF FeesTyped, TotalFees, Diversion
<1>4. row[o].charge <= quote + TotalFees(o)
  BY <1>1, <1>2, <1>3 DEF Net, Row
<1>5. ASSUME NEW price \in Quote PROVE price <= price + TotalFees(o)
  BY <1>3
<1>6. \A price \in Quote : Due(o, price)
  BY <1>5 DEF Due
<1> QED BY <1>4, <1>6 DEF Due

LEMMA NextExplained ==
  ASSUME Inv, FeesTyped, Explained, [Next]_vars
  PROVE  Explained'
<1>0. Typed /\ Prepared
  BY DEF Inv
<1>1. ASSUME NEW r \in Request, NEW j, req' = [req EXCEPT ![r] = j], DueWhenWritten(j)
      PROVE  \A s \in Request : req'[s] = req[s] \/ DueWhenWritten(req'[s])
  BY <1>0, <1>1 DEF Typed
<1>2. DueWhenWritten(Idle)
  BY DEF DueWhenWritten, Idle, Diversion
<1>3. ASSUME UNCHANGED <<row, fees>>,
             \A s \in Request : req'[s] = req[s] \/ DueWhenWritten(req'[s])
      PROVE  Explained'
  BY <1>3, QuietExplained DEF Exists
<1>4. ASSUME NEW r \in Request, NEW o \in Order, NEW quote \in Quote, NEW k \in Claim \cup {None},
             createOrder(r, o, quote, k)
      PROVE  Explained'
  <2>1. PICK j : j = [op |-> "creating", order |-> o, vendor |-> Owner[o], claim |-> k,
                      fresh |-> k # None /\ k \notin Taken, charge |-> quote, fee |-> 0]
    OBVIOUS
  <2>2. j.op = "creating" /\ j.charge = quote
    BY <2>1
  <2>3. DueWhenWritten(j)
    BY <2>2 DEF DueWhenWritten, Diversion
  <2>4. req' = [req EXCEPT ![r] = j] /\ UNCHANGED <<row, fees>>
    BY <1>4, <2>1 DEF createOrder
  <2> QED BY <1>1, <1>3, <2>3, <2>4
<1>5. ASSUME NEW r \in Request, NEW o \in Order, Looks(r, o)
      PROVE  Explained'
  <2>1. PICK op \in {"editing", "trashing", "restoring", "billing"} \cup Diversion,
             charge \in Nat, fee \in Nat : Looked(r, o, op, charge, fee)
    BY <1>0, <1>5, LookReads DEF Typed
  <2>2. Task(op, o, charge, fee).op = op /\ Task(op, o, charge, fee).order = o
        /\ Task(op, o, charge, fee).charge = charge
    BY DEF Task, Idle
  <2>3. op \in {"editing"} \cup Diversion => Due(o, charge)
    BY <2>1, ChargeIsDue DEF Looked
  <2>4. DueWhenWritten(Task(op, o, charge, fee))
    BY <2>2, <2>3 DEF DueWhenWritten, Diversion
  <2> QED BY <1>1, <1>3, <2>1, <2>4 DEF Looked
<1>6. ASSUME NEW r \in Request, NEW v \in Vendor, NEW k \in Claim, claimVoucher(r, v, k)
      PROVE  Explained'
  <2>1. PICK j : j = [Idle EXCEPT !.op = "claiming", !.vendor = v, !.claim = k, !.fresh = TRUE]
    OBVIOUS
  <2>2. j.op = "claiming"
    BY <2>1 DEF Idle
  <2>3. DueWhenWritten(j)
    BY <2>2 DEF DueWhenWritten, Diversion
  <2>4. req' = [req EXCEPT ![r] = j] /\ UNCHANGED <<row, fees>>
    BY <1>6, <2>1 DEF claimVoucher
  <2> QED BY <1>1, <1>3, <2>3, <2>4
<1>7. ASSUME NEW r \in Request, CommitClaim(r) \/ InsertItem(r) \/ GiveUp(r)
      PROVE  Explained'
  <2>1. req' = [req EXCEPT ![r] = Idle] /\ UNCHANGED <<row, fees>>
    BY <1>7 DEF CommitClaim, InsertItem, GiveUp
  <2> QED BY <1>1, <1>2, <1>3, <2>1
<1>8. ASSUME NEW r \in Request, CommitCreate(r)
      PROVE  Explained'
  <2>1. PICK o \in Order : o = req[r].order /\ req[r].charge \in Quote
    BY <1>0, <1>8 DEF CommitCreate, Doing, Prepared, Knows, Explained, DueWhenWritten
  <2>2. /\ row'[o].gross = req[r].charge /\ \A p \in Order \ {o} : row'[p] = row[p]
        /\ fees' = fees /\ req' = [req EXCEPT ![r] = Idle]
    BY <1>0, <1>8, <2>1 DEF CommitCreate, Typed, NoOrder
  <2>3. Due(o, row'[o].gross)
    <3>0. \A kind \in Diversion : fees[o][kind] \in Nat
      BY DEF FeesTyped
    <3>1. TotalFees(o) \in Nat
      BY <3>0 DEF TotalFees, Diversion
    <3>2. PICK quote \in Quote : quote = req[r].charge
      BY <2>1
    <3>3. quote \in Nat /\ quote <= quote + TotalFees(o)
      BY <3>1, OrdersAssumption
    <3> QED BY <2>2, <3>2, <3>3 DEF Due
  <2>4. \A p \in Order : Exists(p)' => (Exists(p) /\ row'[p].gross = row[p].gross)
                                       \/ Due(p, row'[p].gross)
    BY <2>2, <2>3 DEF Exists
  <2> QED BY <1>1, <1>2, <2>2, <2>4, QuietExplained
<1>9. ASSUME NEW o \in Order, NEW to \in Statuses, NEW charge \in Quote \cup {row[o].charge},
             updateParcelStatus(o, to, charge)
      PROVE  Explained'
  <2>0. charge \in Nat
    BY <1>0, OrdersAssumption DEF Typed, Row
  <2>1. PICK new \in Row :
           /\ Exists(o) /\ Update(o, new) /\ UNCHANGED <<fees, req>> /\ new.charge = charge
    BY <1>0, <1>9, <2>0, StatusIsUpdate
  <2>2. /\ row'[o].gross = IF Reprices(o, new) THEN charge ELSE row[o].gross
        /\ \A p \in Order \ {o} : row'[p] = row[p]
    BY <1>0, <2>1, GrossWritten
  <2>3. Due(o, charge)
    BY <2>1, ChargeIsDue
  <2>4. \A p \in Order : Exists(p)' => (Exists(p) /\ row'[p].gross = row[p].gross)
                                       \/ Due(p, row'[p].gross)
    BY <2>1, <2>2, <2>3 DEF Exists
  <2> QED BY <2>1, <2>4, QuietExplained
<1>10. ASSUME NEW o \in Order, RemoveItem(o)
       PROVE  Explained'
  BY <1>3, <1>10 DEF RemoveItem
<1>11. UNCHANGED vars => Explained'
  BY <1>3 DEF vars
<1>12. \A r \in Request : WriteOrder(r) => Explained'
  BY WriteExplained
<1> QED BY <1>4, <1>5, <1>6, <1>7, <1>8, <1>9, <1>10, <1>11, <1>12 DEF Next, Looks

(* No order is charged beyond a price of the rate tables and the fees logged for
   it: a diversion logs the fee in the transaction that writes the charge, and
   what other requests read before is no more than that. *)
THEOREM ChargesAreExplained == Spec => []ChargesExplained
<1>1. Init => FeesTyped /\ Explained
  BY DEF Init, FeesTyped, NoFees, Explained, ChargesExplained, DueWhenWritten, Idle, NoOrder,
         Exists, Diversion
<1>2. Inv /\ FeesTyped /\ Explained /\ [Next]_vars => (FeesTyped /\ Explained)'
  BY FeesStayTyped, NextExplained
<1>3. Explained => ChargesExplained
  BY DEF Explained
<1> QED BY <1>1, <1>2, <1>3, Invariance, PTL DEF Spec
=============================================================================
