--------------------------- MODULE ParcelStatus ----------------------------
(***************************************************************************)
(* Parcel status changes and the cash they move.                           *)
(*                                                                         *)
(* A request (an HTTP call, a rider scan, a carrier webhook) takes one     *)
(* Redis key per parcel, reads the rows, checks the rules, and only then   *)
(* opens the transaction that writes them.  Four handlers share this       *)
(* shape: the single path, the bulk path, a carrier's status report and a  *)
(* carrier's return.  Several run at once, a process can die between any   *)
(* two steps, keys expire, and finance bundles cash into statements        *)
(* meanwhile.                                                              *)
(***************************************************************************)
EXTENDS ParcelStatusRules, FiniteSets

CONSTANTS
  Parcel,         \* parcels.id
  Rider,          \* delivery employees
  Placeholder,    \* "PM Rider N/U": rider rows that stand for a carrier
  Request,        \* request slots of the server processes
  None,           \* SQL NULL in a rider column
  CodAmount,      \* parcels.cod_amount, the cash due at the door
  PartialCash,    \* the amounts a partial delivery may report
  Exchange,       \* parcels with order_type "exchange"
  HandedOff,      \* parcels with a carrier handoff remark
  DirectDelivery, \* parcels whose origin branch covers the destination
  Kinds,          \* the handlers in play
  Roles,          \* the accounts in play
  Targets,        \* the statuses requested
  Redis,          \* "up": no request outlives its keys; "failing": keys may
                  \* lapse under their holder or go unanswered; "down"
  StatementsRace  \* finance may bundle cash while a request is in flight

Nothing == -1     \* SQL NULL in an amount column

HANDLERS == {"single", "bulk", "carrier", "follow_up"}

AnyRider == Rider \cup Placeholder

ASSUME ParcelStatusAssumption ==
  /\ IsFiniteSet(Parcel) /\ Parcel # {}
  /\ None \notin AnyRider /\ Rider \cap Placeholder = {}
  /\ CodAmount \in Nat /\ PartialCash \subseteq 0 .. CodAmount
  /\ Exchange \subseteq Parcel /\ HandedOff \subseteq Parcel
  /\ DirectDelivery \subseteq Parcel
  /\ Kinds \subseteq HANDLERS
  /\ Roles \subseteq {"force", "admin", "vendor", "rider"}
  /\ Targets \subseteq Status
  /\ Redis \in {"up", "failing", "down"} /\ StatementsRace \in BOOLEAN

VARIABLES
  parcel,   \* the parcels rows
  cod,      \* the cod_collections row of each parcel
  item,     \* settlement_items.amount of each parcel, or Nothing
  history,  \* the last parcel_status_history row of each parcel: where it ended,
            \* and whose it was if it started elsewhere than the row before ended
  raised,   \* the return parcels auto-created from each exchange parcel
  lock,     \* the Redis keys that exist
  pc,       \* where each request is
  held,     \* acquiredKeys of each request
  batch,    \* the parcels each request works on
  seen,     \* the rows each request read before its transaction
  ask,      \* what each request asks for
  settled   \* for the properties only: the parcels of a request that were on
            \* a statement when it read them and have stayed on it

rows    == <<parcel, cod, item, history, raised>>
request == <<pc, held, batch, seen, ask, settled>>
vars    == <<rows, lock, request>>

Amount    == 0 .. CodAmount
ParcelRow == [status : Status, pickupRider : AnyRider \cup {None},
              deliveryRider : AnyRider \cup {None},
              partial : Amount \cup {Nothing}]
CodRow    == [amount : Amount, collected : BOOLEAN,
              rider : AnyRider \cup {None}, carrier : BOOLEAN]
Ask       == [kind : HANDLERS \cup {"none"},
              force : BOOLEAN, to : Status, rider : AnyRider \cup {None},
              cash : Amount \cup {Nothing}, confirmed : BOOLEAN]

NoAsk == [kind |-> "none", force |-> FALSE, to |-> "pickup_ordered",
          rider |-> None, cash |-> Nothing, confirmed |-> FALSE]

Uncollected == [amount |-> 0, collected |-> FALSE, rider |-> None,
                carrier |-> FALSE]

(* Rows were read, and not yet written. *)
Pending(r) == pc[r] \in {"ready", "raising"}

(* Orders as createOrder leaves them, no request running. *)
Init ==
  /\ parcel = [p \in Parcel |-> [status |-> "pickup_ordered",
                                 pickupRider |-> None, deliveryRider |-> None,
                                 partial |-> Nothing]]
  /\ cod = [p \in Parcel |-> Uncollected]
  /\ item = [p \in Parcel |-> Nothing]
  /\ history = [p \in Parcel |-> [last |-> "pickup_ordered", gap |-> "none"]]
  /\ raised = [p \in Parcel |-> 0]
  /\ lock = [p \in Parcel |-> FALSE]
  /\ pc = [r \in Request |-> "idle"]
  /\ held = [r \in Request |-> {}]
  /\ batch = [r \in Request |-> {}]
  /\ seen = [r \in Request |-> <<>>]
  /\ ask = [r \in Request |-> NoAsk]
  /\ settled = [r \in Request |-> {}]

----------------------------------------------------------------------------
(* The parcel status lock (withParcelStatusLocks). *)

(* The keys Redis answers for. *)
Answered(ids) ==
  CASE Redis = "up" -> {ids} [] Redis = "failing" -> SUBSET ids [] OTHER -> {{}}

(* Mutant: SET without NX, so a key already taken is taken again. *)
AcquireWithoutNX(r, ids) ==
  /\ pc[r] = "idle"
  /\ Cardinality(ids) = 1 \/ "bulk" \in Kinds
  /\ lock' = [p \in Parcel |-> lock[p] \/ p \in ids]
  /\ held' = [held EXCEPT ![r] = ids]
  /\ pc' = [pc EXCEPT ![r] = "locked"]
  /\ batch' = [batch EXCEPT ![r] = ids]
  /\ UNCHANGED <<rows, seen, ask, settled>>

(* SET key "1" EX 15 NX for every parcel, in one pipeline.  A key Redis gives no
   answer for is passed over; a contended one is a 409, after which the finally
   block lets go of the keys that were taken. *)
Acquire(r, ids) ==
  /\ pc[r] = "idle"
  /\ Cardinality(ids) = 1 \/ "bulk" \in Kinds
  /\ \E answered \in Answered(ids) :
       LET got == {p \in answered : ~lock[p]} IN
       /\ lock' = [p \in Parcel |-> lock[p] \/ p \in got]
       /\ held' = [held EXCEPT ![r] = got]
       /\ pc' = [pc EXCEPT ![r] = IF got = answered THEN "locked" ELSE "done"]
       /\ batch' = [batch EXCEPT ![r] = IF got = answered THEN ids ELSE {}]
  /\ UNCHANGED <<rows, seen, ask, settled>>

(* DEL acquiredKeys: by name, whoever holds them now. *)
Release(r) ==
  /\ pc[r] = "done"
  /\ lock' = [p \in Parcel |-> lock[p] /\ p \notin held[r]]
  /\ held' = [held EXCEPT ![r] = {}]
  /\ pc' = [pc EXCEPT ![r] = "idle"]
  /\ UNCHANGED <<rows, batch, seen, ask, settled>>

(* Mutant: a key that lapses under a running request. *)
ExpireUnderHolder(p) ==
  /\ lock[p]
  /\ lock' = [lock EXCEPT ![p] = FALSE]
  /\ UNCHANGED <<rows, request>>

(* The key's 15 s pass: after the request that took it died, or failed to
   delete it, and while it still runs unless no request outlives its keys. *)
Expire(p) ==
  /\ lock[p]
  /\ Redis = "up" => \A r \in Request : p \notin held[r]
  /\ lock' = [lock EXCEPT ![p] = FALSE]
  /\ UNCHANGED <<rows, request>>

Forget(r) ==
  /\ batch' = [batch EXCEPT ![r] = {}]
  /\ seen' = [seen EXCEPT ![r] = <<>>]
  /\ ask' = [ask EXCEPT ![r] = NoAsk]
  /\ settled' = [settled EXCEPT ![r] = {}]

(* A rule refuses the move, nothing is left to do, or the transaction
   aborts: the rows keep their values and the finally block runs. *)
Abort(r) ==
  /\ pc[r] \in {"locked", "ready", "raising"}
  /\ pc' = [pc EXCEPT ![r] = "done"]
  /\ Forget(r)
  /\ UNCHANGED <<rows, lock, held>>

(* The process dies: no finally block, its keys stay until they expire, as they
   do when the DEL of the finally block fails. *)
Crash(r) ==
  /\ pc[r] # "idle"
  /\ pc' = [pc EXCEPT ![r] = "idle"]
  /\ held' = [held EXCEPT ![r] = {}]
  /\ Forget(r)
  /\ UNCHANGED <<rows, lock>>

----------------------------------------------------------------------------
(* Reading and validating, before the transaction. *)

assertCodNotSettled(ids) == \A p \in ids : item[p] = Nothing

(* From "arrived" the origin branch's coverage leaves one way forward. *)
CoverageAllows(p, from, to) ==
  from = "arrived" =>
    /\ to = "oov" => p \notin DirectDelivery
    /\ to = "ready_to_deliver" => p \in DirectDelivery

WorkflowAllows(p, from, to) ==
  /\ from \notin TERMINAL_STATUSES
  /\ to \in STATUS_TRANSITIONS[from]
  /\ CoverageAllows(p, from, to)

CodGuardsAllow(p, to) ==
  NeedsUnsettledCod(parcel[p].status, to, parcel[p].partial # Nothing)
    => assertCodNotSettled({p})

RiderMayMove(p, self, to) ==
  ~AssignsRider(to) /\ assertRiderOwnsLeg(parcel[p], self)

SingleAllows(p, role, self, a) ==
  LET from  == parcel[p].status
      claim == role = "rider" /\ isRiderClaim(from, a.to)
  IN /\ RoleMayRequest(role, a.to)
     /\ \/ role = "force"
        \/ claim /\ a.rider = self
        \/ WorkflowAllows(p, from, a.to)
     /\ role = "rider" /\ ~claim => RiderMayMove(p, self, a.to)
     /\ role = "rider" /\ p \in Exchange /\ a.to = "delivered" => a.confirmed
     /\ CodGuardsAllow(p, a.to)

BulkAllows(ids, role, self, a) ==
  /\ RoleMayRequest(role, a.to)
  /\ \A p \in ids :
       /\ role = "force" \/ WorkflowAllows(p, parcel[p].status, a.to)
       /\ role = "rider" => RiderMayMove(p, self, a.to)
       /\ CodGuardsAllow(p, a.to)

(* What a body may carry for a target status; the rest stays NULL. *)
RiderChoice(to)  == IF AssignsRider(to) THEN AnyRider ELSE {None}
CashChoice(to)   == IF to = "partially_delivered" THEN PartialCash ELSE {Nothing}
SelfChoice(role) == IF role = "rider" THEN Rider ELSE {None}

Proceed(r, ids, a) ==
  /\ pc' = [pc EXCEPT ![r] = "ready"]
  /\ batch' = [batch EXCEPT ![r] = ids]
  /\ seen' = [seen EXCEPT ![r] = [p \in ids |-> parcel[p]]]
  /\ ask' = [ask EXCEPT ![r] = a]
  /\ settled' = [settled EXCEPT ![r] = {p \in ids : item[p] # Nothing}]
  /\ UNCHANGED <<rows, lock, held>>

(* _updateParcelStatusImpl up to its transaction. *)
ReadSingle(r) ==
  /\ "single" \in Kinds /\ pc[r] = "locked"
  /\ \E role \in Roles, to \in Targets :
       \E p \in batch[r], self \in SelfChoice(role), rider \in RiderChoice(to),
          cash \in CashChoice(to), confirmed \in BOOLEAN :
         LET a == [kind |-> "single", force |-> role = "force", to |-> to,
                   rider |-> rider, cash |-> cash, confirmed |-> confirmed]
         IN /\ batch[r] = {p}
            /\ confirmed => p \in Exchange /\ to = "delivered"
            /\ SingleAllows(p, role, self, a)
            /\ Proceed(r, {p}, a)

(* _bulkUpdateParcelStatusImpl up to its transaction: parcels already at the
   target drop out of the batch, unless that status is terminal. *)
ReadBulk(r) ==
  /\ "bulk" \in Kinds /\ pc[r] = "locked"
  /\ \E role \in Roles, to \in Targets :
       \E self \in SelfChoice(role), rider \in RiderChoice(to),
          cash \in CashChoice(to) :
         LET a   == [kind |-> "bulk", force |-> role = "force", to |-> to,
                     rider |-> rider, cash |-> cash, confirmed |-> FALSE]
             ids == {p \in batch[r] : parcel[p].status # to
                                        \/ to \in TERMINAL_STATUSES}
         IN /\ ids # {}
            /\ BulkAllows(ids, role, self, a)
            /\ Proceed(r, ids, a)

(* applyExternalCarrierStatus and applyExternalCarrierFollowUp: a report names
   the carrier's own order, which only a handed-off parcel has. *)
ReadCarrier(r) ==
  /\ pc[r] = "locked"
  /\ \E p \in batch[r] \cap HandedOff, kind \in Kinds \cap {"carrier", "follow_up"},
        to \in Status :
       /\ batch[r] = {p}
       /\ \/ /\ kind = "carrier" /\ to \in Targets
             /\ CarrierMayAdvance(parcel[p].status, to)
          \/ /\ kind = "follow_up" /\ to = "follow_up"
             /\ parcel[p].status \in CARRIER_FOLLOW_UP_ELIGIBLE_STATUSES
       /\ Proceed(r, {p}, [NoAsk EXCEPT !.kind = kind, !.to = to])

----------------------------------------------------------------------------
(* The transactions.  x and c are the current rows, s the row read before. *)

(* Mutant: a return is looked for before the parcels row is written. *)
RowNeverLocked(r, p) == TRUE

(* No other transaction has written p's rows and not committed. *)
RowFree(r, p) == \A q \in Request \ {r} : pc[q] = "raising" => p \notin batch[q]

(* The 3PL whose delivery this is, if any. *)
resolveDeliveryCarrier(p, rider) ==
  IF rider = None THEN p \in HandedOff ELSE rider \in Placeholder

ParcelAfterMove(x, s, a) ==
  [status        |-> a.to,
   pickupRider   |-> IF AssignsPickupRider(a.to) THEN a.rider
                     ELSE IF releasesPickupRider(a.to) THEN None
                     ELSE x.pickupRider,
   deliveryRider |-> IF AssignsDeliveryRider(a.to) THEN a.rider
                     ELSE IF LeavesDelivery(s.status, a.to)
                               \/ IsDeliveryReversal(s.status, a.to) THEN None
                     ELSE x.deliveryRider,
   partial       |-> IF a.to = "partially_delivered" THEN a.cash
                     ELSE IF IsDeliveryReversal(s.status, a.to) THEN Nothing
                     ELSE x.partial]

(* Mutants: a delivery records the body's codCollected instead of the COD, and
   retracting a delivery leaves its cash in the ledger. *)
CodFromBody(p, c, s, a) ==
  IF a.to \notin DELIVERY_STATUSES THEN c
  ELSE [amount |-> a.cash, collected |-> TRUE, rider |-> s.deliveryRider,
        carrier |-> resolveDeliveryCarrier(p, s.deliveryRider)]

CodWithoutReversal(p, c, s, a) ==
  CASE AssignsDeliveryRider(a.to) -> [c EXCEPT !.rider = a.rider]
    [] a.to \in DELIVERY_STATUSES ->
         [amount    |-> IF a.to = "delivered" THEN CodAmount ELSE a.cash,
          collected |-> TRUE,
          rider     |-> s.deliveryRider,
          carrier   |-> resolveDeliveryCarrier(p, s.deliveryRider)]
    [] a.to = "returned_to_vendor" -> [c EXCEPT !.collected = TRUE]
    [] OTHER -> c

CodAfterMove(p, c, s, a) ==
  LET base == IF IsDeliveryReversal(s.status, a.to) THEN Uncollected ELSE c
  IN CASE AssignsDeliveryRider(a.to) -> [base EXCEPT !.rider = a.rider]
       [] a.to \in DELIVERY_STATUSES ->
            [amount    |-> IF a.to = "delivered" THEN CodAmount ELSE a.cash,
             collected |-> TRUE,
             rider     |-> s.deliveryRider,
             carrier   |-> resolveDeliveryCarrier(p, s.deliveryRider)]
       [] a.to = "returned_to_vendor" -> [base EXCEPT !.collected = TRUE]
       [] OTHER -> base

(* A batch member another request moved first gets no status or history row,
   yet the release and the reversal run over the lists taken at the read. *)
RacedParcel(x, s, a) ==
  [x EXCEPT
     !.deliveryRider = IF /\ ~AssignsDeliveryRider(a.to)
                          /\ \/ LeavesDelivery(s.status, a.to)
                             \/ IsDeliveryReversal(s.status, a.to)
                       THEN None ELSE @,
     !.partial = IF IsDeliveryReversal(s.status, a.to) THEN Nothing ELSE @]

RacedCod(c, s, a) ==
  IF IsDeliveryReversal(s.status, a.to) THEN Uncollected ELSE c

(* applyExternalCarrierStatus: an employee's stale claim ends, a carrier
   placeholder stays, and a delivery collects the full COD. *)
EffectiveRider(s) == IF s.deliveryRider \in Rider THEN None ELSE s.deliveryRider

(* Mutant: a carrier's report leaves the employee rider attached. *)
ParcelKeepingRider(x, s, a) == [x EXCEPT !.status = a.to]

ParcelAfterCarrier(x, s, a) ==
  [x EXCEPT !.status = a.to,
            !.deliveryRider = IF s.deliveryRider \in Rider
                                \/ a.kind = "follow_up" THEN None ELSE @]

CodAfterCarrier(c, s, a) ==
  IF a.to # "delivered" THEN c
  ELSE [amount |-> CodAmount, collected |-> TRUE,
        rider |-> EffectiveRider(s), carrier |-> TRUE]

(* parcel_status_history.create: old_status is the status that was read. *)
HistoryAfter(h, s, a) ==
  [last |-> a.to, gap |-> IF s.status = h.last THEN "none" ELSE a.kind]

Finish(r) ==
  /\ pc' = [pc EXCEPT ![r] = "done"]
  /\ Forget(r)
  /\ UNCHANGED <<item, lock, held>>

(* A confirmed exchange delivery writes the parcels row, whose lock it keeps,
   and then looks whether the order has a return parcel. *)
FindReturn(r) ==
  /\ pc[r] = "ready" /\ ask[r].confirmed
  /\ \E p \in batch[r] :
       /\ RowFree(r, p)
       /\ ask' = [ask EXCEPT ![r].confirmed = raised[p] = 0]
  /\ pc' = [pc EXCEPT ![r] = "raising"]
  /\ UNCHANGED <<rows, lock, held, batch, seen, settled>>

CommitSingle(r) ==
  LET a == ask[r] IN
  /\ a.kind = "single"
  /\ pc[r] = "raising" \/ (pc[r] = "ready" /\ ~a.confirmed)
  /\ \E p \in batch[r] :
       LET s == seen[r][p] IN
       /\ RowFree(r, p)
       /\ parcel' = [parcel EXCEPT ![p] = ParcelAfterMove(@, s, a)]
       /\ cod' = [cod EXCEPT ![p] = CodAfterMove(p, @, s, a)]
       /\ history' = [history EXCEPT ![p] = HistoryAfter(@, s, a)]
       /\ raised' = [raised EXCEPT ![p] = IF a.confirmed THEN @ + 1 ELSE @]
  /\ Finish(r)

(* Mutant: no re-read under the row locks. *)
EveryBatchMember(r) == batch[r]

(* SELECT ... FOR UPDATE, and drop what moved since the read. *)
Survivors(r) == {p \in batch[r] : parcel[p].status = seen[r][p].status}

CommitBulk(r) ==
  LET a    == ask[r]
      kept == IF Survivors(r) = {} THEN {} ELSE batch[r]
  IN
  /\ pc[r] = "ready" /\ a.kind = "bulk"
  /\ \A p \in batch[r] : RowFree(r, p)
  /\ parcel' = [p \in Parcel |->
       IF p \notin kept THEN parcel[p]
       ELSE IF p \in Survivors(r) THEN ParcelAfterMove(parcel[p], seen[r][p], a)
       ELSE RacedParcel(parcel[p], seen[r][p], a)]
  /\ cod' = [p \in Parcel |->
       IF p \notin kept THEN cod[p]
       ELSE IF p \in Survivors(r) THEN CodAfterMove(p, cod[p], seen[r][p], a)
       ELSE RacedCod(cod[p], seen[r][p], a)]
  /\ history' = [p \in Parcel |->
       IF p \in Survivors(r) THEN HistoryAfter(history[p], seen[r][p], a)
       ELSE history[p]]
  /\ UNCHANGED raised
  /\ Finish(r)

CommitCarrier(r) ==
  LET a == ask[r] IN
  /\ pc[r] = "ready" /\ a.kind \in {"carrier", "follow_up"}
  /\ \E p \in batch[r] :
       LET s == seen[r][p] IN
       /\ RowFree(r, p)
       /\ parcel' = [parcel EXCEPT ![p] = ParcelAfterCarrier(@, s, a)]
       /\ cod' = [cod EXCEPT ![p] = CodAfterCarrier(@, s, a)]
       /\ history' = [history EXCEPT ![p] = HistoryAfter(@, s, a)]
  /\ UNCHANGED raised
  /\ Finish(r)

----------------------------------------------------------------------------
(* Finance: a statement freezes a copy of the cash collected, for which it
   locks the collection, and lets go of it when it is cancelled.  Statements
   themselves are module Settlement. *)

CreateStatement(p) ==
  /\ StatementsRace \/ \A r \in Request : pc[r] # "ready"
  /\ \A r \in Request : pc[r] = "raising" => p \notin batch[r]
  /\ cod[p].collected /\ item[p] = Nothing
  /\ parcel[p].status # "cancelled"
  /\ item' = [item EXCEPT ![p] = cod[p].amount]
  /\ UNCHANGED <<parcel, cod, history, raised, lock, request>>

CancelStatement(p) ==
  /\ item[p] # Nothing
  /\ item' = [item EXCEPT ![p] = Nothing]
  /\ settled' = [r \in Request |-> settled[r] \ {p}]
  /\ UNCHANGED <<parcel, cod, history, raised, lock, pc, held, batch, seen, ask>>

----------------------------------------------------------------------------
Validate(r) == ReadSingle(r) \/ ReadBulk(r) \/ ReadCarrier(r)
Commit(r)   == CommitSingle(r) \/ CommitBulk(r) \/ CommitCarrier(r)

Next ==
  \/ \E r \in Request :
       \/ \E ids \in (SUBSET Parcel) \ {{}} : Acquire(r, ids)
       \/ Validate(r) \/ FindReturn(r) \/ Commit(r) \/ Abort(r) \/ Release(r) \/ Crash(r)
  \/ \E p \in Parcel : Expire(p) \/ CreateStatement(p) \/ CancelStatement(p)

Spec == Init /\ [][Next]_vars
----------------------------------------------------------------------------
(* Every variable holds what its column, key or local variable can hold. *)
TypeOK ==
  /\ parcel \in [Parcel -> ParcelRow]
  /\ cod \in [Parcel -> CodRow]
  /\ item \in [Parcel -> Amount \cup {Nothing}]
  /\ history \in [Parcel -> [last : Status, gap : HANDLERS \cup {"none"}]]
  /\ raised \in [Parcel -> Nat]
  /\ lock \in [Parcel -> BOOLEAN]
  /\ pc \in [Request -> {"idle", "locked", "ready", "raising", "done"}]
  /\ held \in [Request -> SUBSET Parcel]
  /\ batch \in [Request -> SUBSET Parcel]
  /\ DOMAIN seen = Request
  /\ \A r \in Request : IF Pending(r) THEN seen[r] \in [batch[r] -> ParcelRow]
                                       ELSE seen[r] = <<>>
  /\ ask \in [Request -> Ask]
  /\ settled \in [Request -> SUBSET Parcel]

(* "Lock each parcel before validating a status transition so concurrent
   requests cannot both act on the same previous state" (statusLocks.ts):
   while keys outlive their requests, the rows a request checked its rules
   against are still the rows it is about to write over. *)
SnapshotsAreCurrent ==
  Redis = "up" =>
    \A r \in Request : Pending(r) =>
      \A p \in batch[r] : seen[r][p] = parcel[p]

(* The timeline of a parcel is one unbroken path: each history row starts at
   the status the row before it ended at, and the last one ends at the
   parcel's present status. *)
TimelineUnbroken ==
  \A p \in Parcel : history[p].gap = "none" /\ history[p].last = parcel[p].status

(* Keys or no keys, single moves and carriers beside it or not, a batch never
   adds to that path a row that starts elsewhere: "Lock the rows and re-read". *)
BatchesLeaveNoGap ==
  \A p \in Parcel : history[p].gap # "bulk" /\ history[p].last = parcel[p].status

(* The COD ledger agrees with the delivery: a delivered parcel's whole COD is
   recorded as collected, a partially delivered one's partial amount is, and
   no amount is recorded for a parcel nobody handed over. *)
CashMatchesDelivery ==
  \A p \in Parcel :
    /\ parcel[p].status = "delivered" =>
         cod[p].collected /\ cod[p].amount = CodAmount
    /\ parcel[p].status = "partially_delivered" =>
         cod[p].collected /\ cod[p].amount = parcel[p].partial
    /\ cod[p].amount > 0 =>
         parcel[p].status = "delivered" \/ parcel[p].partial # Nothing

(* A delivery rider is attached only on a stage a rider holds: none is left
   behind on a pooled parcel or on a carrier's leg, where the carrier's cash
   would be credited to an employee who never touched it. *)
RiderReleased ==
  \A p \in Parcel :
    parcel[p].deliveryRider # None =>
      parcel[p].status \in DELIVERY_RIDER_HELD_STATUSES

(* However often an exchange order is re-delivered or retried, by requests at
   once and with no key between them, the customer's return parcel is created
   once: two transactions cannot both find none. *)
OneExchangeReturn == \A p \in Parcel : raised[p] <= 1

(* A terminal status is left only by an account allowed to force statuses,
   whatever other requests and carrier reports are in flight. *)
TerminalOnlyForced ==
  [][\A p \in Parcel :
       parcel[p].status \in TERMINAL_STATUSES /\ parcel'[p].status # parcel[p].status
         => \E r \in Request : Pending(r) /\ p \in batch[r] /\ ask[r].force]_vars

(* "Statement items [...] are frozen copies of collected_amount": as long as a
   parcel's cash is on a statement, the copy and the ledger agree. *)
FrozenCopiesAgree ==
  \A p \in Parcel : item[p] # Nothing => item[p] = cod[p].amount

(* Cash on a statement is rewritten by a carrier's report, by a status forced
   once more, and by a request that asked before there was a statement to ask
   about; by no other move, whatever races it and however keys fail. *)
RewritesAccounted ==
  [][\A p \in Parcel :
       item[p] # Nothing /\ item'[p] # Nothing /\ cod'[p].amount # cod[p].amount =>
         \E r \in Request :
           /\ Pending(r) /\ pc'[r] = "done" /\ p \in batch[r]
           /\ \/ ask[r].kind = "carrier"
              \/ ask[r].force /\ seen[r][p].status = ask[r].to
              \/ p \notin settled[r]]_vars

(* The "cash the rider is still holding and still owes the office" stays that
   rider's: recorded cash changes hands only by being reversed or by another
   delivery. *)
CashStaysWithCollector ==
  [][\A p \in Parcel :
       (/\ cod[p].collected /\ cod[p].amount > 0
        /\ cod'[p].collected /\ parcel'[p].status \notin DELIVERY_STATUSES)
         => cod'[p].rider = cod[p].rider]_vars

(* "Whoever held the lock first already moved these. Drop them": a parcel
   another request moved after the batch read it is left alone by the batch. *)
RacedParcelsLeftAlone ==
  [][\A r \in Request : pc[r] = "ready" /\ CommitBulk(r) =>
       \A p \in batch[r] \ Survivors(r) :
         parcel'[p] = parcel[p] /\ cod'[p] = cod[p]]_vars
============================================================================
