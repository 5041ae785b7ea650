------------------------- MODULE ParcelStatusProofs -------------------------
(***************************************************************************)
(* What ParcelStatus guarantees for every set of parcels, riders and       *)
(* requests.  While status keys outlive the requests that hold them: a     *)
(* request writes over the very rows it checked, the timeline is unbroken, *)
(* cash and riders follow the status, and only a forced move leaves a      *)
(* terminal status.  Whatever the keys do: one return per exchange order,  *)
(* batches that break no timeline, and no rewrite of cash on a statement   *)
(* but by the writes the guards do not stop.                               *)
(***************************************************************************)
EXTENDS ParcelStatus, TLAPS

(* What validation established about a request and the rows it read. *)
Justified(a, ids, read) ==
  /\ a.kind \in {"single", "bulk"} /\ a.to = "partially_delivered" => a.cash \in Amount
  /\ ~a.force => \A p \in ids : read[p].status \notin TERMINAL_STATUSES
  /\ a.kind = "carrier" => \A p \in ids : CarrierMayAdvance(read[p].status, a.to)
  /\ a.kind = "follow_up" => a.to = "follow_up"
  /\ a.kind \in {"carrier", "follow_up"} => ~a.force

RequestsJustified ==
  \A r \in Request : Pending(r) => Justified(ask[r], batch[r], seen[r])

(* Keys and their holders while no key lapses under a running request. *)
Locking ==
  /\ \A r \in Request : \A p \in held[r] : lock[p]
  /\ \A q, r \in Request : q # r => held[q] \cap held[r] = {}
  /\ \A r \in Request : pc[r] \in {"locked", "ready", "raising"} => batch[r] \subseteq held[r]

Typed    == TypeOK /\ RequestsJustified
Locked   == Typed /\ Locking /\ SnapshotsAreCurrent
Consistent == TimelineUnbroken /\ CashMatchesDelivery /\ RiderReleased
-----------------------------------------------------------------------------
(* A carrier's sequence ends at "delivered", which it never moves on from, and
   a parcel out for delivery it can only deliver. *)
LEMMA CarrierSequence ==
  ASSUME NEW from, NEW to, CarrierMayAdvance(from, to)
  PROVE  /\ from \notin TERMINAL_STATUSES /\ to \in Status
         /\ from = "sent_for_delivery" => to = "delivered"
         /\ from \in DELIVERY_RIDER_HELD_STATUSES => from = "sent_for_delivery"
<1>1. PICK i, j \in 1 .. 5 : i < j /\ CARRIER_LEG_SEQUENCE[i] = from
                                   /\ CARRIER_LEG_SEQUENCE[j] = to
  BY DEF CarrierMayAdvance, CARRIER_LEG_SEQUENCE
<1>2. /\ i \in {1, 2, 3, 4} /\ j \in {2, 3, 4, 5} /\ (i = 4 => j = 5)
  BY <1>1
<1>3. /\ CARRIER_LEG_SEQUENCE[1] = "oov" /\ CARRIER_LEG_SEQUENCE[2] = "dispatched"
      /\ CARRIER_LEG_SEQUENCE[3] = "arrived_at_branch"
      /\ CARRIER_LEG_SEQUENCE[4] = "sent_for_delivery"
      /\ CARRIER_LEG_SEQUENCE[5] = "delivered"
  BY DEF CARRIER_LEG_SEQUENCE
<1> QED
  BY <1>1, <1>2, <1>3 DEF TERMINAL_STATUSES, Status, TransitStages, DeliveryStages,
     DELIVERY_RIDER_HELD_STATUSES, DELIVERY_STATUSES

(* The ordinary workflow never starts at a terminal status, nor does a rider's
   own claim. *)
LEMMA ClaimsAreOpen ==
  ASSUME NEW from, NEW to, isRiderClaim(from, to)
  PROVE  from \notin TERMINAL_STATUSES
BY DEF isRiderClaim, TERMINAL_STATUSES

(* Every validation ends in Proceed, for parcels of the request's batch and a
   request the rules justify. *)
LEMMA ValidateProceeds ==
  ASSUME Typed, NEW r \in Request, Validate(r)
  PROVE  /\ pc[r] = "locked"
         /\ \E ids \in SUBSET batch[r], a \in Ask :
              Proceed(r, ids, a) /\ Justified(a, ids, parcel)
<1> USE ParcelStatusAssumption
<1>1. CASE ReadSingle(r)
  <2>0. PICK role \in Roles, to \in Targets :
          \E p \in batch[r], self \in SelfChoice(role), rider \in RiderChoice(to),
             cash \in CashChoice(to), confirmed \in BOOLEAN :
            LET a == [kind |-> "single", force |-> role = "force", to |-> to,
                      rider |-> rider, cash |-> cash, confirmed |-> confirmed]
            IN /\ batch[r] = {p}
               /\ confirmed => p \in Exchange /\ to = "delivered"
               /\ SingleAllows(p, role, self, a)
               /\ Proceed(r, {p}, a)
    BY <1>1 DEF ReadSingle
  <2>1. PICK p \in batch[r], self \in SelfChoice(role), rider \in RiderChoice(to),
             cash \in CashChoice(to), confirmed \in BOOLEAN :
          LET a == [kind |-> "single", force |-> role = "force", to |-> to,
                    rider |-> rider, cash |-> cash, confirmed |-> confirmed]
          IN /\ batch[r] = {p}
             /\ confirmed => p \in Exchange /\ to = "delivered"
             /\ SingleAllows(p, role, self, a)
             /\ Proceed(r, {p}, a)
    BY <2>0
  <2> DEFINE a == [kind |-> "single", force |-> role = "force", to |-> to,
                   rider |-> rider, cash |-> cash, confirmed |-> confirmed]
  <2>2. a \in Ask
    BY DEF Ask, HANDLERS, RiderChoice, CashChoice, Amount, Nothing
  <2>3. SingleAllows(p, role, self, a) /\ Proceed(r, {p}, a)
    BY <2>1
  <2>4. Justified(a, {p}, parcel)
    <3>1. a.to = "partially_delivered" => a.cash \in Amount
      BY DEF CashChoice, Amount
    <3>2. a.force <=> role = "force"
      OBVIOUS
    <3>3. ~a.force => parcel[p].status \notin TERMINAL_STATUSES
      BY <2>3, <3>2, ClaimsAreOpen DEF SingleAllows, WorkflowAllows
    <3> QED BY <3>1, <3>3 DEF Justified
  <2> HIDE DEF a
  <2> QED BY <1>1, <2>2, <2>3, <2>4 DEF ReadSingle
<1>2. CASE ReadBulk(r)
  <2>0. PICK role \in Roles, to \in Targets :
          \E self \in SelfChoice(role), rider \in RiderChoice(to),
             cash \in CashChoice(to) :
            LET a   == [kind |-> "bulk", force |-> role = "force", to |-> to,
                        rider |-> rider, cash |-> cash, confirmed |-> FALSE]
                ids == {p \in batch[r] : parcel[p].status # to
                                           \/ to \in TERMINAL_STATUSES}
            IN BulkAllows(ids, role, self, a) /\ Proceed(r, ids, a)
    BY <1>2 DEF ReadBulk
  <2>1. PICK self \in SelfChoice(role), rider \in RiderChoice(to),
             cash \in CashChoice(to) :
          LET a   == [kind |-> "bulk", force |-> role = "force", to |-> to,
                      rider |-> rider, cash |-> cash, confirmed |-> FALSE]
              ids == {p \in batch[r] : parcel[p].status # to
                                         \/ to \in TERMINAL_STATUSES}
          IN BulkAllows(ids, role, self, a) /\ Proceed(r, ids, a)
    BY <2>0
  <2> DEFINE a   == [kind |-> "bulk", force |-> role = "force", to |-> to,
                     rider |-> rider, cash |-> cash, confirmed |-> FALSE]
             ids == {p \in batch[r] : parcel[p].status # to
                                        \/ to \in TERMINAL_STATUSES}
  <2>2. a \in Ask
    BY DEF Ask, HANDLERS, RiderChoice, CashChoice, Amount, Nothing
  <2>3. Justified(a, ids, parcel)
    BY <2>1 DEF Justified, BulkAllows, WorkflowAllows, CashChoice, Amount
  <2> QED BY <1>2, <2>1, <2>2, <2>3 DEF ReadBulk
<1>3. CASE ReadCarrier(r)
  <2>1. PICK p \in batch[r], kind \in {"carrier", "follow_up"}, to \in Status :
          /\ kind = "carrier" => CarrierMayAdvance(parcel[p].status, to)
          /\ kind = "follow_up" => /\ to = "follow_up"
                                   /\ parcel[p].status \in CARRIER_FOLLOW_UP_ELIGIBLE_STATUSES
          /\ Proceed(r, {p}, [NoAsk EXCEPT !.kind = kind, !.to = to])
    BY <1>3 DEF ReadCarrier
  <2> DEFINE a == [NoAsk EXCEPT !.kind = kind, !.to = to]
  <2>2. a \in Ask /\ a.kind = kind /\ a.to = to /\ ~a.force
    BY DEF Ask, HANDLERS, NoAsk, Nothing
  <2>3. parcel[p].status \notin TERMINAL_STATUSES
    BY <2>1, CarrierSequence DEF CARRIER_FOLLOW_UP_ELIGIBLE_STATUSES, TERMINAL_STATUSES
  <2>4. Justified(a, {p}, parcel)
    BY <2>1, <2>2, <2>3 DEF Justified
  <2> QED BY <1>3, <2>1, <2>2, <2>4 DEF ReadCarrier
<1> QED BY <1>1, <1>2, <1>3 DEF Validate
-----------------------------------------------------------------------------
(* Types. *)

RowsTyped ==
  /\ parcel \in [Parcel -> ParcelRow]
  /\ cod \in [Parcel -> CodRow]
  /\ item \in [Parcel -> Amount \cup {Nothing}]
  /\ history \in [Parcel -> [last : Status, gap : HANDLERS \cup {"none"}]]
  /\ raised \in [Parcel -> Nat]

RequestsTyped ==
  /\ lock \in [Parcel -> BOOLEAN]
  /\ pc \in [Request -> {"idle", "locked", "ready", "raising", "done"}]
  /\ held \in [Request -> SUBSET Parcel]
  /\ batch \in [Request -> SUBSET Parcel]
  /\ DOMAIN seen = Request
  /\ \A r \in Request : IF Pending(r) THEN seen[r] \in [batch[r] -> ParcelRow]
                                       ELSE seen[r] = <<>>
  /\ ask \in [Request -> Ask]
  /\ settled \in [Request -> SUBSET Parcel]
  /\ RequestsJustified

LEMMA TypedParts == Typed <=> RowsTyped /\ RequestsTyped
BY DEF Typed, TypeOK, RowsTyped, RequestsTyped

(* The rows a move computes are rows. *)
LEMMA ParcelMoveTyped ==
  ASSUME NEW x \in ParcelRow, NEW s \in ParcelRow, NEW a \in Ask,
         a.to = "partially_delivered" => a.cash \in Amount
  PROVE  ParcelAfterMove(x, s, a) \in ParcelRow /\ RacedParcel(x, s, a) \in ParcelRow
BY DEF ParcelRow, Ask, ParcelAfterMove, RacedParcel, Amount, Nothing

LEMMA CodMoveTyped ==
  ASSUME NEW p \in Parcel, NEW c \in CodRow, NEW s \in ParcelRow, NEW a \in Ask,
         a.to = "partially_delivered" => a.cash \in Amount
  PROVE  CodAfterMove(p, c, s, a) \in CodRow /\ RacedCod(c, s, a) \in CodRow
<1> USE ParcelStatusAssumption
<1>1. resolveDeliveryCarrier(p, s.deliveryRider) \in BOOLEAN
  <2>1. (p \in HandedOff) \in BOOLEAN /\ (s.deliveryRider \in Placeholder) \in BOOLEAN
    OBVIOUS
  <2> QED BY <2>1, Zenon DEF resolveDeliveryCarrier
<1>2. Uncollected \in CodRow
  BY DEF Uncollected, CodRow, Amount
<1> DEFINE base == IF IsDeliveryReversal(s.status, a.to) THEN Uncollected ELSE c
<1>3. base \in CodRow
  BY <1>2
<1>4. CASE AssignsDeliveryRider(a.to)
  <2>1. a.to \notin DELIVERY_STATUSES
    BY <1>4 DEF AssignsDeliveryRider, DELIVERY_STATUSES
  <2> QED BY <1>2, <1>3, <1>4, <2>1 DEF CodAfterMove, RacedCod, CodRow, Ask
<1>5. CASE a.to \in DELIVERY_STATUSES
  <2>1. ~AssignsDeliveryRider(a.to)
    BY <1>5 DEF AssignsDeliveryRider, DELIVERY_STATUSES
  <2>2. (IF a.to = "delivered" THEN CodAmount ELSE a.cash) \in Amount
    BY <1>5 DEF DELIVERY_STATUSES, Amount
  <2> QED BY <1>1, <1>2, <1>5, <2>1, <2>2
             DEF CodAfterMove, RacedCod, CodRow, ParcelRow, DELIVERY_STATUSES
<1>6. CASE ~AssignsDeliveryRider(a.to) /\ a.to \notin DELIVERY_STATUSES
  BY <1>2, <1>3, <1>6 DEF CodAfterMove, RacedCod, CodRow
<1> QED BY <1>4, <1>5, <1>6

LEMMA CarrierMoveTyped ==
  ASSUME NEW x \in ParcelRow, NEW c \in CodRow, NEW s \in ParcelRow, NEW a \in Ask
  PROVE  ParcelAfterCarrier(x, s, a) \in ParcelRow /\ CodAfterCarrier(c, s, a) \in CodRow
<1>1. EffectiveRider(s) \in AnyRider \cup {None}
  BY DEF EffectiveRider, ParcelRow
<1>2. CodAmount \in Amount
  BY ParcelStatusAssumption DEF Amount
<1>3. CodAfterCarrier(c, s, a) \in CodRow
  BY <1>1, <1>2 DEF CodAfterCarrier, CodRow
<1>4. ParcelAfterCarrier(x, s, a) \in ParcelRow
  BY DEF ParcelAfterCarrier, ParcelRow, Ask
<1> QED BY <1>3, <1>4

LEMMA HistoryTyped ==
  ASSUME NEW h \in [last : Status, gap : HANDLERS \cup {"none"}], NEW s \in ParcelRow, NEW a \in Ask
  PROVE  HistoryAfter(h, s, a) \in [last : Status, gap : HANDLERS \cup {"none"}]
BY DEF HistoryAfter, Ask

LEMMA CommitRowsTyped ==
  ASSUME Typed, NEW r \in Request, Commit(r)
  PROVE  RowsTyped'
<1> DEFINE a == ask[r]
<1>1. a \in Ask /\ Pending(r) /\ batch[r] \subseteq Parcel
      /\ seen[r] \in [batch[r] -> ParcelRow] /\ Justified(a, batch[r], seen[r])
  BY DEF Typed, TypeOK, RequestsJustified, Commit, CommitSingle, CommitBulk, CommitCarrier,
         Pending
<1>2. RowsTyped
  BY TypedParts
<1> HIDE DEF a
<1>3. CASE CommitSingle(r)
  <2>1. a.kind = "single" /\ item' = item
    BY <1>3 DEF CommitSingle, Finish, a
  <2>2. PICK p \in batch[r] :
          /\ parcel' = [parcel EXCEPT ![p] = ParcelAfterMove(@, seen[r][p], a)]
          /\ cod' = [cod EXCEPT ![p] = CodAfterMove(p, @, seen[r][p], a)]
          /\ history' = [history EXCEPT ![p] = HistoryAfter(@, seen[r][p], a)]
          /\ raised' = [raised EXCEPT ![p] = IF a.confirmed THEN @ + 1 ELSE @]
    BY <1>3 DEF CommitSingle, a
  <2>3. a.to = "partially_delivered" => a.cash \in Amount
    BY <1>1, <2>1 DEF Justified
  <2>4. p \in Parcel /\ seen[r][p] \in ParcelRow
    BY <1>1, <2>2
  <2>5. raised' \in [Parcel -> Nat]
    BY <1>2, <2>2, <2>4 DEF RowsTyped
  <2>6. parcel' \in [Parcel -> ParcelRow] /\ cod' \in [Parcel -> CodRow]
    BY <1>1, <1>2, <2>2, <2>3, <2>4, ParcelMoveTyped, CodMoveTyped DEF RowsTyped
  <2>7. history' \in [Parcel -> [last : Status, gap : HANDLERS \cup {"none"}]]
    BY <1>1, <1>2, <2>2, <2>4, HistoryTyped DEF RowsTyped
  <2> QED BY <1>2, <2>1, <2>5, <2>6, <2>7 DEF RowsTyped
<1>4. CASE CommitBulk(r)
  <2>1. a.kind = "bulk" /\ UNCHANGED <<item, raised>>
    BY <1>4 DEF CommitBulk, Finish, a
  <2>2. a.to = "partially_delivered" => a.cash \in Amount
    BY <1>1, <2>1 DEF Justified
  <2>3. \A p \in batch[r] : p \in Parcel /\ seen[r][p] \in ParcelRow
    BY <1>1
  <2>4. parcel' \in [Parcel -> ParcelRow]
    BY <1>1, <1>2, <1>4, <2>2, <2>3, ParcelMoveTyped DEF CommitBulk, RowsTyped, Survivors, a
  <2>5. cod' \in [Parcel -> CodRow]
    BY <1>1, <1>2, <1>4, <2>2, <2>3, CodMoveTyped DEF CommitBulk, RowsTyped, Survivors, a
  <2>6. history' \in [Parcel -> [last : Status, gap : HANDLERS \cup {"none"}]]
    BY <1>1, <1>2, <1>4, <2>3, HistoryTyped DEF CommitBulk, RowsTyped, Survivors, a
  <2> QED BY <1>2, <2>1, <2>4, <2>5, <2>6 DEF RowsTyped
<1>5. CASE CommitCarrier(r)
  <2>1. UNCHANGED <<item, raised>>
    BY <1>5 DEF CommitCarrier, Finish
  <2>2. PICK p \in batch[r] :
          /\ parcel' = [parcel EXCEPT ![p] = ParcelAfterCarrier(@, seen[r][p], a)]
          /\ cod' = [cod EXCEPT ![p] = CodAfterCarrier(@, seen[r][p], a)]
          /\ history' = [history EXCEPT ![p] = HistoryAfter(@, seen[r][p], a)]
    BY <1>5 DEF CommitCarrier, a
  <2>3. p \in Parcel /\ seen[r][p] \in ParcelRow
    BY <1>1, <2>2
  <2> QED BY <1>1, <1>2, <2>1, <2>2, <2>3, CarrierMoveTyped, HistoryTyped DEF RowsTyped
<1> QED BY <1>3, <1>4, <1>5 DEF Commit

LEMMA CommitFinishes ==
  ASSUME NEW r \in Request, Commit(r)
  PROVE  Pending(r) /\ Finish(r)
BY DEF Commit, CommitSingle, CommitBulk, CommitCarrier, Pending

(* A request that ends leaves the others, and its own NoAsk, well typed. *)
LEMMA ForgetTyped ==
  ASSUME RequestsTyped, NEW r \in Request, Forget(r), NEW at \in {"idle", "done"},
         pc' = [pc EXCEPT ![r] = at]
  PROVE  /\ pc' \in [Request -> {"idle", "locked", "ready", "raising", "done"}]
         /\ batch' \in [Request -> SUBSET Parcel]
         /\ DOMAIN seen' = Request
         /\ \A q \in Request : IF Pending(q)' THEN seen'[q] \in [batch'[q] -> ParcelRow]
                                               ELSE seen'[q] = <<>>
         /\ ask' \in [Request -> Ask]
         /\ settled' \in [Request -> SUBSET Parcel]
         /\ RequestsJustified'
<1>1. NoAsk \in Ask
  BY DEF NoAsk, Ask, Status, PickupStages, Nothing
<1>2. \A q \in Request : q # r => /\ pc'[q] = pc[q] /\ batch'[q] = batch[q]
                                  /\ seen'[q] = seen[q] /\ ask'[q] = ask[q]
                                  /\ (Pending(q)' <=> Pending(q))
  BY DEF RequestsTyped, Forget, Pending
<1>3. ~Pending(r)' /\ seen'[r] = <<>>
  BY DEF RequestsTyped, Forget, Pending
<1>4. RequestsJustified'
  BY <1>2, <1>3 DEF RequestsTyped, RequestsJustified
<1> QED BY <1>1, <1>2, <1>3, <1>4 DEF RequestsTyped, Forget

(* Redis answers only for keys it was asked to set. *)
LEMMA AnsweredWithin ==
  ASSUME NEW ids, NEW answered \in Answered(ids)
  PROVE  answered \subseteq ids
BY DEF Answered

(* What looking for a return does to the requests: one of them now keeps its
   parcels row locked, and knows whether there is a return. *)
Raising(r, found) ==
  /\ pc[r] = "ready" /\ ask[r].confirmed
  /\ pc' = [pc EXCEPT ![r] = "raising"]
  /\ ask' = [ask EXCEPT ![r].confirmed = found]
  /\ UNCHANGED <<rows, lock, held, batch, seen, settled>>

LEMMA FindReturnRaises ==
  ASSUME NEW r \in Request, FindReturn(r)
  PROVE  \E found \in BOOLEAN : Raising(r, found)
<1>1. PICK p \in batch[r] : ask' = [ask EXCEPT ![r].confirmed = (raised[p] = 0)]
  BY DEF FindReturn
<1>2. (raised[p] = 0) \in BOOLEAN
  OBVIOUS
<1>3. Raising(r, (raised[p] = 0))
  BY <1>1 DEF FindReturn, Raising
<1> QED BY <1>2, <1>3

LEMMA RequestsTypedStep ==
  ASSUME Typed, [Next]_vars
  PROVE  RequestsTyped'
<1>1. RequestsTyped /\ RowsTyped
  BY TypedParts
<1>2. ASSUME NEW r \in Request, NEW ids \in SUBSET Parcel, Acquire(r, ids)
      PROVE  RequestsTyped'
  <2>1. PICK answered \in Answered(ids), got \in SUBSET ids :
          /\ lock' = [p \in Parcel |-> lock[p] \/ p \in got]
          /\ held' = [held EXCEPT ![r] = got]
          /\ pc' = [pc EXCEPT ![r] = IF got = answered THEN "locked" ELSE "done"]
          /\ batch' = [batch EXCEPT ![r] = IF got = answered THEN ids ELSE {}]
          /\ pc[r] = "idle" /\ UNCHANGED <<seen, ask, settled>>
    BY <1>2, AnsweredWithin DEF Acquire
  <2>2. /\ lock' \in [Parcel -> BOOLEAN] /\ held' \in [Request -> SUBSET Parcel]
        /\ batch' \in [Request -> SUBSET Parcel]
    <3>1. got \subseteq Parcel
      BY <2>1
    <3>2. lock' \in [Parcel -> BOOLEAN]
      BY <1>1, <2>1 DEF RequestsTyped
    <3>3. held' \in [Request -> SUBSET Parcel] /\ batch' \in [Request -> SUBSET Parcel]
      BY <1>1, <2>1, <3>1 DEF RequestsTyped
    <3> QED BY <3>2, <3>3
  <2>3. /\ ~Pending(r) /\ ~Pending(r)'
        /\ \A q \in Request : q # r => /\ pc'[q] = pc[q] /\ batch'[q] = batch[q]
                                        /\ (Pending(q)' <=> Pending(q))
    BY <1>1, <2>1, <2>2 DEF RequestsTyped, Pending
  <2>4. RequestsJustified'
    BY <1>1, <2>1, <2>3 DEF RequestsTyped, RequestsJustified
  <2>5. pc' \in [Request -> {"idle", "locked", "ready", "raising", "done"}]
    BY <1>1, <2>1 DEF RequestsTyped
  <2> QED BY <1>1, <2>1, <2>2, <2>3, <2>4, <2>5 DEF RequestsTyped
<1>3. ASSUME NEW r \in Request, Release(r)
      PROVE  RequestsTyped'
  <2>1. /\ pc[r] = "done" /\ pc' = [pc EXCEPT ![r] = "idle"]
        /\ UNCHANGED <<batch, seen, ask, settled>>
        /\ \A q \in Request : Pending(q)' <=> Pending(q)
    BY <1>1, <1>3 DEF Release, RequestsTyped, Pending
  <2>2. lock' \in [Parcel -> BOOLEAN] /\ held' \in [Request -> SUBSET Parcel]
    BY <1>1, <1>3 DEF Release, RequestsTyped
  <2>3. RequestsJustified'
    BY <1>1, <2>1 DEF RequestsTyped, RequestsJustified
  <2> QED BY <1>1, <2>1, <2>2, <2>3 DEF RequestsTyped
<1>4. ASSUME NEW p \in Parcel, Expire(p)
      PROVE  RequestsTyped'
  BY <1>1, <1>4 DEF Expire, request, RequestsTyped, RequestsJustified, Pending
<1>5. ASSUME NEW r \in Request, Abort(r)
      PROVE  RequestsTyped'
  <2>1. UNCHANGED <<lock, held>> /\ Forget(r) /\ pc' = [pc EXCEPT ![r] = "done"]
    BY <1>5 DEF Abort
  <2> QED BY <1>1, <2>1, ForgetTyped DEF RequestsTyped
<1>6. ASSUME NEW r \in Request, Crash(r)
      PROVE  RequestsTyped'
  <2>1. /\ UNCHANGED lock /\ held' = [held EXCEPT ![r] = {}] /\ Forget(r)
        /\ pc' = [pc EXCEPT ![r] = "idle"]
    BY <1>6 DEF Crash
  <2>2. held' \in [Request -> SUBSET Parcel]
    BY <1>1, <2>1 DEF RequestsTyped
  <2> QED BY <1>1, <2>1, <2>2, ForgetTyped DEF RequestsTyped
<1>7. ASSUME NEW r \in Request, Validate(r)
      PROVE  RequestsTyped'
  <2>1. PICK ids \in SUBSET batch[r], a \in Ask :
          Proceed(r, ids, a) /\ Justified(a, ids, parcel)
    BY <1>7, ValidateProceeds
  <2> DEFINE read == [p \in ids |-> parcel[p]]
  <2>2. /\ UNCHANGED <<lock, held>> /\ pc' = [pc EXCEPT ![r] = "ready"]
        /\ batch' = [batch EXCEPT ![r] = ids] /\ ask' = [ask EXCEPT ![r] = a]
        /\ seen' = [seen EXCEPT ![r] = read]
        /\ settled' = [settled EXCEPT ![r] = {p \in ids : item[p] # Nothing}]
    BY <2>1 DEF Proceed
  <2>3. ids \subseteq Parcel /\ read \in [ids -> ParcelRow]
    BY <1>1 DEF RequestsTyped, RowsTyped
  <2>4. Justified(a, ids, read)
    BY <2>1 DEF Justified
  <2>5. \A q \in Request : q # r => /\ pc'[q] = pc[q] /\ batch'[q] = batch[q]
                                    /\ seen'[q] = seen[q] /\ ask'[q] = ask[q]
                                    /\ (Pending(q)' <=> Pending(q))
    BY <1>1, <2>2 DEF RequestsTyped, Pending
  <2>6. Pending(r)' /\ batch'[r] = ids /\ seen'[r] = read /\ ask'[r] = a
    BY <1>1, <2>2 DEF RequestsTyped, Pending
  <2> HIDE DEF read
  <2>7. RequestsJustified'
    BY <1>1, <2>4, <2>5, <2>6 DEF RequestsTyped, RequestsJustified
  <2>8. settled' \in [Request -> SUBSET Parcel]
    BY <1>1, <2>2, <2>3 DEF RequestsTyped
  <2> QED BY <1>1, <2>2, <2>3, <2>5, <2>6, <2>7, <2>8 DEF RequestsTyped
<1>8. ASSUME NEW r \in Request, Commit(r)
      PROVE  RequestsTyped'
  <2>1. UNCHANGED <<lock, held>> /\ Forget(r) /\ pc' = [pc EXCEPT ![r] = "done"]
    BY <1>8, CommitFinishes DEF Finish
  <2> QED BY <1>1, <2>1, ForgetTyped DEF RequestsTyped
<1>9. ASSUME NEW p \in Parcel, CreateStatement(p) \/ CancelStatement(p)
      PROVE  RequestsTyped'
  <2>1. /\ UNCHANGED <<lock, pc, held, batch, seen, ask>>
        /\ settled' = settled \/ settled' = [q \in Request |-> settled[q] \ {p}]
    BY <1>9 DEF CreateStatement, CancelStatement, request
  <2>2. settled' \in [Request -> SUBSET Parcel]
    BY <1>1, <2>1 DEF RequestsTyped
  <2> QED BY <1>1, <2>1, <2>2 DEF RequestsTyped, RequestsJustified, Pending
<1>10. ASSUME UNCHANGED vars
       PROVE  RequestsTyped'
  BY <1>1, <1>10 DEF vars, request, RequestsTyped, RequestsJustified, Pending
<1>11. ASSUME NEW r \in Request, FindReturn(r)
       PROVE  RequestsTyped'
  <2>1. PICK found \in BOOLEAN : Raising(r, found)
    BY <1>11, FindReturnRaises
  <2>2. ask[r] \in Ask /\ [ask[r] EXCEPT !.confirmed = found] \in Ask
    BY <1>1 DEF RequestsTyped, Ask
  <2>3. /\ ask' \in [Request -> Ask]
        /\ pc' \in [Request -> {"idle", "locked", "ready", "raising", "done"}]
        /\ UNCHANGED <<lock, held, batch, seen, settled>>
    BY <1>1, <2>1, <2>2 DEF RequestsTyped, Raising
  <2>4. ASSUME NEW q \in Request
        PROVE  /\ Pending(q)' <=> Pending(q)
               /\ ask'[q].kind = ask[q].kind /\ ask'[q].to = ask[q].to
               /\ ask'[q].cash = ask[q].cash /\ ask'[q].force = ask[q].force
    BY <1>1, <2>1, <2>2 DEF RequestsTyped, Raising, Pending, Ask
  <2>5. RequestsJustified'
    BY <1>1, <2>3, <2>4 DEF RequestsTyped, RequestsJustified, Justified
  <2> QED BY <1>1, <2>3, <2>4, <2>5 DEF RequestsTyped
<1> QED BY <1>2, <1>3, <1>4, <1>5, <1>6, <1>7, <1>8, <1>9, <1>10, <1>11 DEF Next

LEMMA RowsTypedStep ==
  ASSUME Typed, [Next]_vars
  PROVE  RowsTyped'
<1>1. RowsTyped
  BY TypedParts
<1>2. ASSUME UNCHANGED rows
      PROVE  RowsTyped'
  BY <1>1, <1>2 DEF rows, RowsTyped
<1>3. ASSUME NEW r \in Request, Validate(r)
      PROVE  UNCHANGED rows
  BY <1>3, ValidateProceeds DEF Proceed
<1>4. ASSUME NEW p \in Parcel, CreateStatement(p)
      PROVE  RowsTyped'
  BY <1>1, <1>4 DEF CreateStatement, RowsTyped, CodRow
<1>5. ASSUME NEW p \in Parcel, CancelStatement(p)
      PROVE  RowsTyped'
  BY <1>1, <1>5 DEF CancelStatement, RowsTyped
<1>6. ASSUME NEW r \in Request, Commit(r)
      PROVE  RowsTyped'
  BY <1>6, CommitRowsTyped
<1> QED BY <1>2, <1>3, <1>4, <1>5, <1>6 DEF Next, Acquire, Release, Expire, Abort, Crash, FindReturn, vars

LEMMA InitTyped == Init => Typed
<1> SUFFICES ASSUME Init PROVE Typed
  OBVIOUS
<1>1. NoAsk \in Ask /\ Uncollected \in CodRow
  BY ParcelStatusAssumption
     DEF NoAsk, Ask, Uncollected, CodRow, Amount, Nothing, Status, PickupStages
<1>2. "pickup_ordered" \in Status
  BY DEF Status, PickupStages
<1> QED BY <1>1, <1>2 DEF Init, Typed, TypeOK, RequestsJustified, ParcelRow, Pending

LEMMA TypedInvariant == Spec => []Typed
<1>1. Typed /\ [Next]_vars => Typed'
  <2> SUFFICES ASSUME Typed, [Next]_vars PROVE Typed'
    OBVIOUS
  <2>1. RowsTyped' /\ RequestsTyped'
    BY RowsTypedStep, RequestsTypedStep
  <2> QED BY <2>1 DEF Typed, TypeOK, RowsTyped, RequestsTyped
<1> QED BY InitTyped, <1>1, PTL DEF Spec

(* The type invariant: whatever requests, crashes, expiries and statements do,
   every column, key and local variable holds a value of its type. *)
THEOREM TypesHold == Spec => []TypeOK
<1>1. Typed => TypeOK
  BY DEF Typed
<1> QED BY TypedInvariant, <1>1, PTL
-----------------------------------------------------------------------------
(* While no key lapses under a running request. *)

LEMMA CommitMoves ==
  ASSUME Typed, NEW r \in Request, Commit(r), NEW p \in Parcel,
         p \in batch[r] => seen[r][p] = parcel[p]
  PROVE  \/ parcel'[p] = parcel[p] /\ cod'[p] = cod[p] /\ history'[p] = history[p]
         \/ /\ p \in batch[r] /\ history'[p] = HistoryAfter(history[p], parcel[p], ask[r])
            /\ \/ /\ ask[r].kind \in {"single", "bulk"}
                  /\ parcel'[p] = ParcelAfterMove(parcel[p], parcel[p], ask[r])
                  /\ cod'[p] = CodAfterMove(p, cod[p], parcel[p], ask[r])
               \/ /\ ask[r].kind \in {"carrier", "follow_up"}
                  /\ parcel'[p] = ParcelAfterCarrier(parcel[p], parcel[p], ask[r])
                  /\ cod'[p] = CodAfterCarrier(cod[p], parcel[p], ask[r])
<1>1. RowsTyped /\ batch[r] \subseteq Parcel
  BY TypedParts DEF RequestsTyped
<1>2. CASE CommitSingle(r)
  <2>1. PICK b \in batch[r] :
          /\ parcel' = [parcel EXCEPT ![b] = ParcelAfterMove(@, seen[r][b], ask[r])]
          /\ cod' = [cod EXCEPT ![b] = CodAfterMove(b, @, seen[r][b], ask[r])]
          /\ history' = [history EXCEPT ![b] = HistoryAfter(@, seen[r][b], ask[r])]
    BY <1>2 DEF CommitSingle
  <2>2. ask[r].kind = "single"
    BY <1>2 DEF CommitSingle
  <2> QED BY <1>1, <2>1, <2>2 DEF RowsTyped
<1>3. CASE CommitBulk(r)
  <2>1. p \in Survivors(r) <=> p \in batch[r]
    BY DEF Survivors
  <2>2. p \in batch[r] => Survivors(r) # {}
    BY <2>1
  <2> QED BY <1>3, <2>1, <2>2 DEF CommitBulk
<1>4. CASE CommitCarrier(r)
  <2>1. PICK b \in batch[r] :
          /\ parcel' = [parcel EXCEPT ![b] = ParcelAfterCarrier(@, seen[r][b], ask[r])]
          /\ cod' = [cod EXCEPT ![b] = CodAfterCarrier(@, seen[r][b], ask[r])]
          /\ history' = [history EXCEPT ![b] = HistoryAfter(@, seen[r][b], ask[r])]
    BY <1>4 DEF CommitCarrier
  <2>2. ask[r].kind \in {"carrier", "follow_up"}
    BY <1>4 DEF CommitCarrier
  <2> QED BY <1>1, <2>1, <2>2 DEF RowsTyped
<1> QED BY <1>2, <1>3, <1>4 DEF Commit

(* No two requests hold a key of the same parcel, and a request that has read
   rows holds the keys of them all. *)
LEMMA LockingStep ==
  ASSUME Redis = "up", Typed, Locking, [Next]_vars
  PROVE  Locking'
<1>1. RequestsTyped
  BY TypedParts
<1>2. ASSUME NEW r \in Request, NEW ids \in SUBSET Parcel, Acquire(r, ids)
      PROVE  Locking'
  <2> DEFINE got == {p \in ids : ~lock[p]}
  <2>1. /\ lock' = [p \in Parcel |-> lock[p] \/ p \in got]
        /\ held' = [held EXCEPT ![r] = got]
        /\ pc' = [pc EXCEPT ![r] = IF got = ids THEN "locked" ELSE "done"]
        /\ batch' = [batch EXCEPT ![r] = IF got = ids THEN ids ELSE {}]
    BY <1>2 DEF Acquire, Answered
  <2> QED BY <1>1, <2>1 DEF RequestsTyped, Locking
<1>3. ASSUME NEW r \in Request, Release(r)
      PROVE  Locking'
  BY <1>1, <1>3 DEF Release, RequestsTyped, Locking
<1>4. ASSUME NEW p \in Parcel, Expire(p)
      PROVE  Locking'
  BY <1>1, <1>4 DEF Expire, request, RequestsTyped, Locking
<1>5. ASSUME NEW r \in Request, Abort(r)
      PROVE  Locking'
  BY <1>1, <1>5 DEF Abort, Forget, RequestsTyped, Locking
<1>6. ASSUME NEW r \in Request, Crash(r)
      PROVE  Locking'
  BY <1>1, <1>6 DEF Crash, Forget, RequestsTyped, Locking
<1>7. ASSUME NEW r \in Request, Validate(r)
      PROVE  Locking'
  <2>1. pc[r] = "locked" /\ \E ids \in SUBSET batch[r] :
          /\ batch' = [batch EXCEPT ![r] = ids] /\ pc' = [pc EXCEPT ![r] = "ready"]
          /\ UNCHANGED <<lock, held>>
    BY <1>7, ValidateProceeds DEF Proceed
  <2> QED BY <1>1, <2>1 DEF RequestsTyped, Locking
<1>8. ASSUME NEW r \in Request, Commit(r)
      PROVE  Locking'
  <2>1. UNCHANGED <<lock, held>> /\ pc' = [pc EXCEPT ![r] = "done"]
        /\ batch' = [batch EXCEPT ![r] = {}]
    BY <1>8, CommitFinishes DEF Finish, Forget
  <2> QED BY <1>1, <2>1 DEF RequestsTyped, Locking, Pending
<1>9. ASSUME NEW p \in Parcel, CreateStatement(p) \/ CancelStatement(p)
      PROVE  Locking'
  BY <1>9 DEF CreateStatement, CancelStatement, request, Locking
<1>10. ASSUME UNCHANGED vars
       PROVE  Locking'
  BY <1>10 DEF vars, request, Locking
<1>11. ASSUME NEW r \in Request, FindReturn(r)
       PROVE  Locking'
  <2>1. /\ pc[r] = "ready" /\ pc' = [pc EXCEPT ![r] = "raising"]
        /\ UNCHANGED <<lock, held, batch>>
    BY <1>11 DEF FindReturn
  <2> QED BY <1>1, <2>1 DEF RequestsTyped, Locking
<1> QED BY <1>2, <1>3, <1>4, <1>5, <1>6, <1>7, <1>8, <1>9, <1>10, <1>11 DEF Next

LEMMA SnapshotsStep ==
  ASSUME Redis = "up", Typed, Locking, SnapshotsAreCurrent, [Next]_vars
  PROVE  SnapshotsAreCurrent'
<1>1. RequestsTyped /\ RowsTyped
  BY TypedParts
<1>2. ASSUME UNCHANGED parcel,
             \A q \in Request : Pending(q)' =>
               Pending(q) /\ batch'[q] = batch[q] /\ seen'[q] = seen[q]
      PROVE  SnapshotsAreCurrent'
  BY <1>2 DEF SnapshotsAreCurrent
<1>3. ASSUME NEW r \in Request, Validate(r)
      PROVE  SnapshotsAreCurrent'
  <2>1. PICK ids \in SUBSET batch[r] :
          /\ batch' = [batch EXCEPT ![r] = ids] /\ pc' = [pc EXCEPT ![r] = "ready"]
          /\ seen' = [seen EXCEPT ![r] = [p \in ids |-> parcel[p]]]
          /\ UNCHANGED parcel
    BY <1>3, ValidateProceeds DEF Proceed, rows
  <2>2. /\ Pending(r)' /\ batch'[r] = ids /\ seen'[r] = [p \in ids |-> parcel[p]]
        /\ \A q \in Request \ {r} : /\ Pending(q)' <=> Pending(q)
                                    /\ batch'[q] = batch[q] /\ seen'[q] = seen[q]
    BY <1>1, <2>1 DEF RequestsTyped, Pending
  <2> QED BY <2>1, <2>2 DEF SnapshotsAreCurrent
<1>4. ASSUME NEW r \in Request, Commit(r)
      PROVE  SnapshotsAreCurrent'
  <2>1. /\ Pending(r) /\ pc' = [pc EXCEPT ![r] = "done"]
        /\ batch' = [batch EXCEPT ![r] = {}] /\ seen' = [seen EXCEPT ![r] = <<>>]
    BY <1>4, CommitFinishes DEF Finish, Forget
  <2>2. ASSUME NEW q \in Request, Pending(q)', NEW p \in batch'[q]
        PROVE  seen'[q][p] = parcel'[p]
    <3>1. q # r /\ Pending(q) /\ batch'[q] = batch[q] /\ seen'[q] = seen[q]
      BY <1>1, <2>1, <2>2 DEF RequestsTyped, Pending
    <3>2. p \in Parcel /\ p \notin batch[r]
      BY <1>1, <2>1, <2>2, <3>1 DEF RequestsTyped, Locking, Pending
    <3>3. parcel'[p] = parcel[p]
      BY <1>4, <3>2, CommitMoves
    <3> QED BY <2>2, <3>1, <3>3 DEF SnapshotsAreCurrent
  <2> QED BY <2>2 DEF SnapshotsAreCurrent
<1>5. ASSUME NEW r \in Request, NEW ids \in SUBSET Parcel, Acquire(r, ids)
      PROVE  SnapshotsAreCurrent'
  <2>1. UNCHANGED <<parcel, seen>> /\ pc[r] = "idle"
        /\ \E at \in {"locked", "done"} : pc' = [pc EXCEPT ![r] = at]
        /\ \E b : batch' = [batch EXCEPT ![r] = b]
    BY <1>5 DEF Acquire, rows
  <2> QED BY <1>1, <1>2, <2>1 DEF RequestsTyped, Pending
<1>6. ASSUME NEW r \in Request, Release(r) \/ Abort(r) \/ Crash(r)
      PROVE  SnapshotsAreCurrent'
  BY <1>1, <1>2, <1>6 DEF Release, Abort, Crash, Forget, rows, RequestsTyped, Pending
<1>7. ASSUME NEW p \in Parcel, Expire(p) \/ CreateStatement(p) \/ CancelStatement(p)
      PROVE  SnapshotsAreCurrent'
  BY <1>2, <1>7 DEF Expire, CreateStatement, CancelStatement, request, rows, Pending
<1>8. ASSUME UNCHANGED vars
      PROVE  SnapshotsAreCurrent'
  BY <1>2, <1>8 DEF vars, request, rows, Pending
<1>9. ASSUME NEW r \in Request, FindReturn(r)
      PROVE  SnapshotsAreCurrent'
  <2>1. /\ pc[r] = "ready" /\ pc' = [pc EXCEPT ![r] = "raising"]
        /\ UNCHANGED <<parcel, batch, seen>>
    BY <1>9 DEF FindReturn, rows
  <2> QED BY <1>1, <1>2, <2>1 DEF RequestsTyped, Pending
<1> QED BY <1>3, <1>4, <1>5, <1>6, <1>7, <1>8, <1>9 DEF Next

LEMMA LockedInvariant == Redis = "up" => (Spec => []Locked)
<1> SUFFICES ASSUME Redis = "up" PROVE Spec => []Locked
  OBVIOUS
<1>1. Init => Locked
  <2> SUFFICES ASSUME Init PROVE Locking /\ SnapshotsAreCurrent
    BY InitTyped DEF Locked
  <2> QED BY DEF Init, Locking, SnapshotsAreCurrent, Pending
<1>2. Locked /\ [Next]_vars => Locked'
  <2> SUFFICES ASSUME Locked, [Next]_vars PROVE Locked'
    OBVIOUS
  <2>1. RowsTyped' /\ RequestsTyped'
    BY RowsTypedStep, RequestsTypedStep DEF Locked
  <2>2. Typed'
    BY <2>1 DEF Typed, TypeOK, RowsTyped, RequestsTyped
  <2>3. Locking' /\ SnapshotsAreCurrent'
    BY LockingStep, SnapshotsStep DEF Locked
  <2> QED BY <2>2, <2>3 DEF Locked
<1> QED BY <1>1, <1>2, PTL DEF Spec

(* The point of the parcel status lock, for any number of requests and
   parcels, with processes dying anywhere: a request about to write has in
   hand the very rows it checked its rules against. *)
THEOREM RowsAreCurrent == Spec => []SnapshotsAreCurrent
<1>1. CASE Redis # "up"
  <2>1. SnapshotsAreCurrent
    BY <1>1 DEF SnapshotsAreCurrent
  <2> QED BY <2>1, PTL
<1>2. CASE Redis = "up"
  <2>1. Spec => []Locked
    BY <1>2, LockedInvariant
  <2>2. Locked => SnapshotsAreCurrent
    BY DEF Locked
  <2> QED BY <2>1, <2>2, PTL
<1> QED BY <1>1, <1>2
-----------------------------------------------------------------------------
(* One parcel's row, ledger and timeline in agreement: Consistent, per parcel. *)
RowConsistent(x, c, h) ==
  /\ h.gap = "none" /\ h.last = x.status
  /\ x.status = "delivered" => c.collected /\ c.amount = CodAmount
  /\ x.status = "partially_delivered" => c.collected /\ c.amount = x.partial
  /\ c.amount > 0 => x.status = "delivered" \/ x.partial # Nothing
  /\ x.deliveryRider # None => x.status \in DELIVERY_RIDER_HELD_STATUSES

LEMMA ConsistentByParcel ==
  Consistent <=> \A p \in Parcel : RowConsistent(parcel[p], cod[p], history[p])
BY DEF Consistent, RowConsistent, TimelineUnbroken, CashMatchesDelivery, RiderReleased

(* A move by staff, vendor or rider keeps a consistent parcel consistent. *)
LEMMA InternalMove ==
  ASSUME NEW p \in Parcel, NEW x \in ParcelRow, NEW c \in CodRow,
         NEW h \in [last : Status, gap : HANDLERS \cup {"none"}], NEW a \in Ask,
         a.to = "partially_delivered" => a.cash \in Amount,
         RowConsistent(x, c, h)
  PROVE  RowConsistent(ParcelAfterMove(x, x, a), CodAfterMove(p, c, x, a),
                       HistoryAfter(h, x, a))
<1> DEFINE y == ParcelAfterMove(x, x, a)
           d == CodAfterMove(p, c, x, a)
           g == HistoryAfter(h, x, a)
<1>1. y.status = a.to
  BY DEF ParcelAfterMove
<1>2. g.gap = "none" /\ g.last = y.status
  BY <1>1 DEF RowConsistent, HistoryAfter
<1>3. CASE a.to \in DELIVERY_STATUSES
  <2>1. ~AssignsDeliveryRider(a.to) /\ a.to # "returned_to_vendor"
    BY <1>3 DEF AssignsDeliveryRider, DELIVERY_STATUSES
  <2>2. /\ d.collected
        /\ d.amount = IF a.to = "delivered" THEN CodAmount ELSE a.cash
    <3> DEFINE full == [amount    |-> IF a.to = "delivered" THEN CodAmount ELSE a.cash,
                        collected |-> TRUE,
                        rider     |-> x.deliveryRider,
                        carrier   |-> resolveDeliveryCarrier(p, x.deliveryRider)]
    <3>1. d = full
      BY <1>3, <2>1 DEF CodAfterMove
    <3>2. /\ full.collected
          /\ full.amount = IF a.to = "delivered" THEN CodAmount ELSE a.cash
      OBVIOUS
    <3> HIDE DEF d, full
    <3> QED BY <3>1, <3>2
  <2>3. a.to = "partially_delivered" => y.partial = a.cash /\ a.cash # Nothing
    BY DEF ParcelAfterMove, Amount, Nothing
  <2> QED BY <1>1, <1>2, <1>3, <2>2, <2>3
             DEF RowConsistent, DELIVERY_STATUSES, DELIVERY_RIDER_HELD_STATUSES
<1>4. CASE a.to \notin DELIVERY_STATUSES
  <2>1. d.amount > 0 => y.partial # Nothing
    <3>1. CASE x.status = "delivered"
      <4>1. IsDeliveryReversal(x.status, a.to)
        BY <1>4, <3>1 DEF IsDeliveryReversal
      <4>2. d.amount = 0
        BY <1>4, <4>1 DEF CodAfterMove, Uncollected
      <4> QED BY <4>2
    <3>2. CASE x.status # "delivered"
      <4>1. ~IsDeliveryReversal(x.status, a.to) /\ a.to # "partially_delivered"
        BY <1>4, <3>2 DEF IsDeliveryReversal, DELIVERY_STATUSES
      <4>2. d.amount = c.amount /\ y.partial = x.partial
        BY <1>4, <4>1 DEF CodAfterMove, CodRow, ParcelAfterMove
      <4> QED BY <3>2, <4>2 DEF RowConsistent
    <3> QED BY <3>1, <3>2
  <2>2. y.deliveryRider # None => a.to \in DELIVERY_RIDER_HELD_STATUSES
    BY DEF RowConsistent, ParcelAfterMove, AssignsDeliveryRider, LeavesDelivery,
       DELIVERY_RIDER_HELD_STATUSES
  <2> QED BY <1>1, <1>2, <1>4, <2>1, <2>2 DEF RowConsistent, DELIVERY_STATUSES
<1> QED BY <1>3, <1>4

(* So does a carrier's report, along its sequence or into a return. *)
LEMMA CarrierMove ==
  ASSUME NEW x \in ParcelRow, NEW c \in CodRow,
         NEW h \in [last : Status, gap : HANDLERS \cup {"none"}], NEW a \in Ask,
         a.kind \in {"carrier", "follow_up"},
         a.kind = "carrier" => CarrierMayAdvance(x.status, a.to),
         a.kind = "follow_up" => a.to = "follow_up",
         x.status \notin TERMINAL_STATUSES,
         RowConsistent(x, c, h)
  PROVE  RowConsistent(ParcelAfterCarrier(x, x, a), CodAfterCarrier(c, x, a),
                       HistoryAfter(h, x, a))
<1> DEFINE y == ParcelAfterCarrier(x, x, a)
           d == CodAfterCarrier(c, x, a)
<1>1. y.status = a.to /\ y.partial = x.partial
  BY DEF ParcelAfterCarrier, ParcelRow
<1>2. a.to # "partially_delivered" /\ x.status # "delivered"
  BY DEF CarrierMayAdvance, CARRIER_LEG_SEQUENCE, TERMINAL_STATUSES
<1>3. y.deliveryRider # None => a.to \in DELIVERY_RIDER_HELD_STATUSES
  <2>1. CASE a.kind = "follow_up"
    BY <2>1 DEF ParcelAfterCarrier, ParcelRow
  <2>2. CASE a.kind = "carrier"
    <3>1. x.status \in DELIVERY_RIDER_HELD_STATUSES => a.to = "delivered"
      BY <2>2, CarrierSequence
    <3>2. y.deliveryRider # None => x.deliveryRider # None
      BY DEF ParcelAfterCarrier, ParcelRow
    <3> QED BY <3>1, <3>2 DEF RowConsistent, DELIVERY_RIDER_HELD_STATUSES, DELIVERY_STATUSES
  <2> QED BY <2>1, <2>2
<1>4. a.to = "delivered" => d.collected /\ d.amount = CodAmount
  BY DEF CodAfterCarrier
<1>5. a.to # "delivered" => d = c
  BY DEF CodAfterCarrier
<1>6. HistoryAfter(h, x, a).gap = "none" /\ HistoryAfter(h, x, a).last = a.to
  BY DEF HistoryAfter, RowConsistent
<1> QED BY <1>1, <1>2, <1>3, <1>4, <1>5, <1>6 DEF RowConsistent

LEMMA ConsistentStep ==
  ASSUME Locked, Consistent, [Next]_vars
  PROVE  Redis = "up" => Consistent'
<1> SUFFICES ASSUME Redis = "up", NEW p \in Parcel
             PROVE  RowConsistent(parcel'[p], cod'[p], history'[p])
  <2>1. Consistent' <=> \A p \in Parcel : RowConsistent(parcel'[p], cod'[p], history'[p])
    BY DEF Consistent, RowConsistent, TimelineUnbroken, CashMatchesDelivery, RiderReleased
  <2> QED BY <2>1
<1>1. RowConsistent(parcel[p], cod[p], history[p]) /\ RowsTyped /\ RequestsTyped
  BY ConsistentByParcel, TypedParts DEF Locked
<1>2. ASSUME UNCHANGED <<parcel, cod, history>>
      PROVE  RowConsistent(parcel'[p], cod'[p], history'[p])
  BY <1>1, <1>2
<1>3. ASSUME NEW r \in Request, Commit(r)
      PROVE  RowConsistent(parcel'[p], cod'[p], history'[p])
  <2>1. /\ Pending(r) /\ ask[r] \in Ask
        /\ Justified(ask[r], batch[r], seen[r])
        /\ p \in batch[r] => seen[r][p] = parcel[p]
    BY <1>1, <1>3, CommitFinishes
       DEF Locked, SnapshotsAreCurrent, RequestsTyped, RequestsJustified
  <2>2. /\ parcel[p] \in ParcelRow /\ cod[p] \in CodRow
        /\ history[p] \in [last : Status, gap : HANDLERS \cup {"none"}]
    BY <1>1 DEF RowsTyped
  <2>3. CASE parcel'[p] = parcel[p] /\ cod'[p] = cod[p] /\ history'[p] = history[p]
    BY <1>1, <2>3
  <2>4. CASE /\ p \in batch[r] /\ ask[r].kind \in {"single", "bulk"}
             /\ history'[p] = HistoryAfter(history[p], parcel[p], ask[r])
             /\ parcel'[p] = ParcelAfterMove(parcel[p], parcel[p], ask[r])
             /\ cod'[p] = CodAfterMove(p, cod[p], parcel[p], ask[r])
    BY <1>1, <2>1, <2>2, <2>4, InternalMove DEF Justified
  <2>5. CASE /\ p \in batch[r] /\ ask[r].kind \in {"carrier", "follow_up"}
             /\ history'[p] = HistoryAfter(history[p], parcel[p], ask[r])
             /\ parcel'[p] = ParcelAfterCarrier(parcel[p], parcel[p], ask[r])
             /\ cod'[p] = CodAfterCarrier(cod[p], parcel[p], ask[r])
    <3>1. /\ parcel[p].status \notin TERMINAL_STATUSES
          /\ ask[r].kind = "carrier" => CarrierMayAdvance(parcel[p].status, ask[r].to)
          /\ ask[r].kind = "follow_up" => ask[r].to = "follow_up"
      BY <2>1, <2>5 DEF Justified
    <3> QED BY <1>1, <2>1, <2>2, <2>5, <3>1, CarrierMove
  <2> QED BY <1>3, <2>1, <2>3, <2>4, <2>5, CommitMoves DEF Locked
<1>4. ASSUME NEW r \in Request, Validate(r)
      PROVE  UNCHANGED <<parcel, cod, history>>
  BY <1>4, ValidateProceeds DEF Proceed, rows, Locked
<1> QED BY <1>2, <1>3, <1>4
        DEF Next, Acquire, Release, Expire, Abort, Crash, FindReturn, CreateStatement, CancelStatement,
            vars, rows

LEMMA ConsistentInvariant == Redis = "up" => (Spec => [](Locked /\ Consistent))
<1> SUFFICES ASSUME Redis = "up" PROVE Spec => [](Locked /\ Consistent)
  OBVIOUS
<1>1. Init => Consistent
  BY DEF Init, Consistent, TimelineUnbroken, CashMatchesDelivery, RiderReleased, Uncollected
<1>2. Locked /\ Consistent /\ [Next]_vars => Consistent'
  BY ConsistentStep
<1> QED BY <1>1, <1>2, LockedInvariant, PTL DEF Spec

(* While keys outlive their requests the timeline of every parcel is one
   unbroken path, although the handlers write the old status they read before
   the transaction. *)
THEOREM TimelineHolds == Redis = "up" => (Spec => []TimelineUnbroken)
BY ConsistentInvariant, PTL DEF Consistent

(* ... the ledger's cash is the delivery's, through re-deliveries, reversals
   and carriers ... *)
THEOREM CashHolds == Redis = "up" => (Spec => []CashMatchesDelivery)
BY ConsistentInvariant, PTL DEF Consistent

(* ... and no rider stays attached to a parcel no rider holds. *)
THEOREM RidersAreReleased == Redis = "up" => (Spec => []RiderReleased)
BY ConsistentInvariant, PTL DEF Consistent

(* Nor does an unforced request, however late its transaction, move a parcel
   that has meanwhile been delivered, cancelled or returned. *)
THEOREM TerminalIsFinal == Redis = "up" => (Spec => TerminalOnlyForced)
<1> SUFFICES ASSUME Redis = "up" PROVE Spec => TerminalOnlyForced
  OBVIOUS
<1> DEFINE Forced == \A p \in Parcel :
       parcel[p].status \in TERMINAL_STATUSES /\ parcel'[p].status # parcel[p].status
         => \E r \in Request : Pending(r) /\ p \in batch[r] /\ ask[r].force
<1>1. Locked /\ [Next]_vars => [Forced]_vars
  <2> SUFFICES ASSUME Locked, [Next]_vars, NEW p \in Parcel,
                      parcel[p].status \in TERMINAL_STATUSES,
                      parcel'[p].status # parcel[p].status
               PROVE  \E r \in Request : Pending(r) /\ p \in batch[r] /\ ask[r].force
    BY Zenon
  <2>1. ASSUME NEW r \in Request, Validate(r)
        PROVE  UNCHANGED parcel
    BY <2>1, ValidateProceeds DEF Proceed, rows, Locked
  <2>2. PICK r \in Request : Commit(r)
    BY <2>1 DEF Next, Acquire, Release, Expire, Abort, Crash, FindReturn, CreateStatement,
       CancelStatement, vars, rows
  <2>3. /\ Pending(r) /\ Justified(ask[r], batch[r], seen[r])
        /\ p \in batch[r] => seen[r][p] = parcel[p]
    BY <2>2, CommitFinishes DEF Locked, Typed, SnapshotsAreCurrent, RequestsJustified
  <2>4. p \in batch[r]
    BY <2>2, <2>3, CommitMoves DEF Locked
  <2>5. ask[r].force
    BY <2>3, <2>4 DEF Justified
  <2> QED BY <2>3, <2>4, <2>5
<1> QED BY <1>1, LockedInvariant, PTL DEF Spec, TerminalOnlyForced
-----------------------------------------------------------------------------
(* Whatever the keys do: one return per exchange order, amounts on statements
   rewritten only where nothing guards them, and no batch that breaks a
   timeline.  They rest on what a request asked before its transaction, *)

Asked(a, ids) ==
  /\ a.confirmed => \E p \in ids : ids = {p}
  /\ a.kind \in {"single", "bulk"} =>
       \A p \in ids :
         /\ CodGuardsAllow(p, a.to)
         /\ ~a.force /\ a.to \in DELIVERY_STATUSES => parcel[p].status # a.to

(* ... on what that still says when it writes, *)
Spares(r, p) ==
  /\ p \in settled[r] => ~NeedsUnsettledCod(seen[r][p].status, ask[r].to,
                                            seen[r][p].partial # Nothing)
  /\ ~ask[r].force /\ ask[r].to \in DELIVERY_STATUSES => seen[r][p].status # ask[r].to

Sparing ==
  \A r \in Request : Pending(r) /\ ask[r].kind \in {"single", "bulk"} =>
    \A p \in batch[r] : Spares(r, p)

(* ... and on the parcels row a confirmed delivery keeps locked while it looks
   for a return and creates one. *)
ReturnsLocked ==
  /\ \A r \in Request : Pending(r) /\ (ask[r].confirmed \/ pc[r] = "raising") =>
       \E p \in batch[r] : batch[r] = {p}
  /\ \A q, r \in Request : q # r /\ pc[q] = "raising" /\ pc[r] = "raising" =>
       batch[q] \cap batch[r] = {}
  /\ \A r \in Request : pc[r] = "raising" /\ ask[r].confirmed =>
       \A p \in batch[r] : raised[p] = 0

LEMMA DeliveriesMoveOn ==
  ASSUME NEW from, from \in DELIVERY_STATUSES
  PROVE  /\ ~isRiderClaim(from, from)
         /\ from \notin TERMINAL_STATUSES => from \notin STATUS_TRANSITIONS[from]
<1>1. from \notin TERMINAL_STATUSES => from = "partially_delivered"
  BY DEF DELIVERY_STATUSES, TERMINAL_STATUSES
<1>2. STATUS_TRANSITIONS["partially_delivered"] = {"ready_to_deliver", "follow_up", "ready_to_return"}
  BY DEF STATUS_TRANSITIONS, Status, DeliveryStages
<1> QED BY <1>1, <1>2 DEF isRiderClaim, DELIVERY_STATUSES

LEMMA ValidateAsks ==
  ASSUME NEW r \in Request, Validate(r)
  PROVE  \E ids \in SUBSET batch[r], a \in Ask : Proceed(r, ids, a) /\ Asked(a, ids)
<1> USE ParcelStatusAssumption
<1>1. CASE ReadSingle(r)
  <2>0. PICK role \in Roles, to \in Targets :
          \E p \in batch[r], self \in SelfChoice(role), rider \in RiderChoice(to),
             cash \in CashChoice(to), confirmed \in BOOLEAN :
            LET a == [kind |-> "single", force |-> role = "force", to |-> to,
                      rider |-> rider, cash |-> cash, confirmed |-> confirmed]
            IN SingleAllows(p, role, self, a) /\ Proceed(r, {p}, a)
    BY <1>1 DEF ReadSingle
  <2>1. PICK p \in batch[r], self \in SelfChoice(role), rider \in RiderChoice(to),
             cash \in CashChoice(to), confirmed \in BOOLEAN :
          LET a == [kind |-> "single", force |-> role = "force", to |-> to,
                    rider |-> rider, cash |-> cash, confirmed |-> confirmed]
          IN SingleAllows(p, role, self, a) /\ Proceed(r, {p}, a)
    BY <2>0
  <2> DEFINE a == [kind |-> "single", force |-> role = "force", to |-> to,
                   rider |-> rider, cash |-> cash, confirmed |-> confirmed]
  <2>2. a \in Ask
    BY DEF Ask, HANDLERS, RiderChoice, CashChoice, Amount, Nothing
  <2>3. SingleAllows(p, role, self, a) /\ Proceed(r, {p}, a)
    BY <2>1
  <2>4. a.force <=> role = "force"
    OBVIOUS
  <2> HIDE DEF a
  <2>5. ~a.force /\ a.to \in DELIVERY_STATUSES => parcel[p].status # a.to
    BY <2>3, <2>4, DeliveriesMoveOn DEF SingleAllows, WorkflowAllows
  <2>6. Asked(a, {p})
    BY <2>3, <2>5 DEF Asked, SingleAllows
  <2> QED BY <2>2, <2>3, <2>6
<1>2. CASE ReadBulk(r)
  <2>0. PICK role \in Roles, to \in Targets :
          \E self \in SelfChoice(role), rider \in RiderChoice(to),
             cash \in CashChoice(to) :
            LET a   == [kind |-> "bulk", force |-> role = "force", to |-> to,
                        rider |-> rider, cash |-> cash, confirmed |-> FALSE]
                ids == {p \in batch[r] : parcel[p].status # to
                                           \/ to \in TERMINAL_STATUSES}
            IN BulkAllows(ids, role, self, a) /\ Proceed(r, ids, a)
    BY <1>2 DEF ReadBulk
  <2>1. PICK self \in SelfChoice(role), rider \in RiderChoice(to),
             cash \in CashChoice(to) :
          LET a   == [kind |-> "bulk", force |-> role = "force", to |-> to,
                      rider |-> rider, cash |-> cash, confirmed |-> FALSE]
              ids == {p \in batch[r] : parcel[p].status # to
                                         \/ to \in TERMINAL_STATUSES}
          IN BulkAllows(ids, role, self, a) /\ Proceed(r, ids, a)
    BY <2>0
  <2> DEFINE a   == [kind |-> "bulk", force |-> role = "force", to |-> to,
                     rider |-> rider, cash |-> cash, confirmed |-> FALSE]
             ids == {p \in batch[r] : parcel[p].status # to
                                        \/ to \in TERMINAL_STATUSES}
  <2>2. a \in Ask
    BY DEF Ask, HANDLERS, RiderChoice, CashChoice, Amount, Nothing
  <2>3. BulkAllows(ids, role, self, a) /\ Proceed(r, ids, a) /\ ids \in SUBSET batch[r]
    BY <2>1
  <2>4. (a.force <=> role = "force") /\ ~a.confirmed
    OBVIOUS
  <2> HIDE DEF a, ids
  <2>5. \A p \in ids : ~a.force /\ a.to \in DELIVERY_STATUSES => parcel[p].status # a.to
    BY <2>3, <2>4, DeliveriesMoveOn DEF BulkAllows, WorkflowAllows
  <2>6. Asked(a, ids)
    BY <2>3, <2>4, <2>5 DEF Asked, BulkAllows
  <2> QED BY <2>2, <2>3, <2>6
<1>3. CASE ReadCarrier(r)
  <2>1. PICK p \in batch[r], kind \in {"carrier", "follow_up"}, to \in Status :
          Proceed(r, {p}, [NoAsk EXCEPT !.kind = kind, !.to = to])
    BY <1>3 DEF ReadCarrier
  <2> DEFINE a == [NoAsk EXCEPT !.kind = kind, !.to = to]
  <2>2. a \in Ask /\ a.kind = kind /\ ~a.confirmed
    BY DEF Ask, HANDLERS, NoAsk, Nothing
  <2>3. Asked(a, {p})
    BY <2>2 DEF Asked
  <2> QED BY <2>1, <2>2, <2>3
<1> QED BY <1>1, <1>2, <1>3 DEF Validate

(* A step that only takes requests forward, or to their end. *)
Onward ==
  \A q \in Request : Pending(q)' =>
    /\ Pending(q) /\ batch'[q] = batch[q] /\ seen'[q] = seen[q]
    /\ ask'[q].kind = ask[q].kind /\ ask'[q].to = ask[q].to /\ ask'[q].force = ask[q].force
    /\ settled'[q] \subseteq settled[q]

(* Every step but a validation is one. *)
LEMMA OnwardStep ==
  ASSUME Typed, [Next]_vars
  PROVE  Onward \/ \E r \in Request : Validate(r)
<1>1. RequestsTyped
  BY TypedParts
<1>2. ASSUME NEW r \in Request, NEW ids \in SUBSET Parcel, Acquire(r, ids)
      PROVE  Onward
  <2>1. UNCHANGED <<seen, ask, settled>> /\ pc[r] = "idle"
        /\ \E at \in {"locked", "done"} : pc' = [pc EXCEPT ![r] = at]
        /\ \E b : batch' = [batch EXCEPT ![r] = b]
    BY <1>2 DEF Acquire
  <2> QED BY <1>1, <2>1 DEF RequestsTyped, Onward, Pending
<1>3. ASSUME NEW r \in Request, Release(r) \/ Abort(r) \/ Crash(r)
      PROVE  Onward
  BY <1>1, <1>3 DEF Release, Abort, Crash, Forget, RequestsTyped, Onward, Pending
<1>4. ASSUME NEW r \in Request, Commit(r)
      PROVE  Onward
  <2>1. /\ pc' = [pc EXCEPT ![r] = "done"] /\ batch' = [batch EXCEPT ![r] = {}]
        /\ seen' = [seen EXCEPT ![r] = <<>>] /\ ask' = [ask EXCEPT ![r] = NoAsk]
        /\ settled' = [settled EXCEPT ![r] = {}]
    BY <1>4, CommitFinishes DEF Finish, Forget
  <2> QED BY <1>1, <2>1 DEF RequestsTyped, Onward, Pending
<1>5. ASSUME NEW r \in Request, FindReturn(r)
      PROVE  Onward
  <2>1. PICK found \in BOOLEAN : Raising(r, found)
    BY <1>5, FindReturnRaises
  <2>2. \A q \in Request : /\ ask'[q].kind = ask[q].kind /\ ask'[q].to = ask[q].to
                           /\ ask'[q].force = ask[q].force
    BY <1>1, <2>1 DEF RequestsTyped, Raising, Ask
  <2> QED BY <1>1, <2>1, <2>2 DEF RequestsTyped, Raising, Onward, Pending
<1>6. ASSUME NEW p \in Parcel, Expire(p) \/ CreateStatement(p) \/ CancelStatement(p)
      PROVE  Onward
  BY <1>6 DEF Expire, CreateStatement, CancelStatement, request, Onward, Pending
<1>7. ASSUME UNCHANGED vars
      PROVE  Onward
  BY <1>7 DEF vars, request, Onward, Pending
<1> QED BY <1>2, <1>3, <1>4, <1>5, <1>6, <1>7 DEF Next

(* What a validation leaves behind. *)
LEMMA ValidateLeaves ==
  ASSUME Typed, NEW r \in Request, Validate(r)
  PROVE  \E ids \in SUBSET batch[r], a \in Ask :
           /\ Asked(a, ids) /\ pc[r] = "locked"
           /\ UNCHANGED rows
           /\ pc'[r] = "ready" /\ batch'[r] = ids /\ ask'[r] = a
           /\ seen'[r] = [p \in ids |-> parcel[p]]
           /\ settled'[r] = {p \in ids : item[p] # Nothing}
           /\ \A q \in Request \ {r} :
                /\ pc'[q] = pc[q] /\ batch'[q] = batch[q] /\ ask'[q] = ask[q]
                /\ seen'[q] = seen[q] /\ settled'[q] = settled[q]
<1>1. PICK ids \in SUBSET batch[r], a \in Ask : Proceed(r, ids, a) /\ Asked(a, ids)
  BY ValidateAsks
<1>2. RequestsTyped /\ pc[r] = "locked"
  BY TypedParts, ValidateProceeds
<1> QED BY <1>1, <1>2 DEF RequestsTyped, Proceed

LEMMA SparingStep ==
  ASSUME Typed, Sparing, [Next]_vars
  PROVE  Sparing'
<1>1. CASE Onward
  BY <1>1 DEF Sparing, Spares, Onward
<1>2. ASSUME NEW r \in Request, Validate(r)
      PROVE  Sparing'
  <2>1. PICK ids \in SUBSET batch[r], a \in Ask :
           /\ Asked(a, ids) /\ pc[r] = "locked"
           /\ UNCHANGED rows
           /\ pc'[r] = "ready" /\ batch'[r] = ids /\ ask'[r] = a
           /\ seen'[r] = [p \in ids |-> parcel[p]]
           /\ settled'[r] = {p \in ids : item[p] # Nothing}
           /\ \A q \in Request \ {r} :
                /\ pc'[q] = pc[q] /\ batch'[q] = batch[q] /\ ask'[q] = ask[q]
                /\ seen'[q] = seen[q] /\ settled'[q] = settled[q]
    BY <1>2, ValidateLeaves
  <2>2. a.kind \in {"single", "bulk"} => \A p \in ids : Spares(r, p)'
    BY <2>1 DEF Asked, Spares, CodGuardsAllow, assertCodNotSettled
  <2>3. \A q \in Request \ {r} :
          /\ Pending(q)' <=> Pending(q)
          /\ \A p \in batch[q] : Spares(q, p)' <=> Spares(q, p)
    BY <2>1 DEF Pending, Spares
  <2> QED BY <2>1, <2>2, <2>3 DEF Sparing
<1> QED BY <1>1, <1>2, OnwardStep

(* The cash an internal move leaves behind. *)
LEMMA AmountAfterMove ==
  ASSUME NEW p \in Parcel, NEW c \in CodRow, NEW s \in ParcelRow, NEW a \in Ask,
         ~IsDeliveryReversal(s.status, a.to), a.to \notin DELIVERY_STATUSES
  PROVE  CodAfterMove(p, c, s, a).amount = c.amount
BY DEF CodAfterMove, CodRow

LEMMA CommitRewrites ==
  ASSUME Typed, Sparing, NEW r \in Request, Commit(r), NEW p \in Parcel,
         cod'[p].amount # cod[p].amount
  PROVE  /\ Pending(r) /\ pc'[r] = "done" /\ p \in batch[r]
         /\ \/ ask[r].kind = "carrier"
            \/ ask[r].force /\ seen[r][p].status = ask[r].to
            \/ p \notin settled[r]
<1>1. /\ Pending(r) /\ pc'[r] = "done" /\ Justified(ask[r], batch[r], seen[r])
  BY CommitFinishes DEF Typed, TypeOK, RequestsJustified, Finish
<1>2. cod \in [Parcel -> CodRow] /\ ask[r] \in Ask
      /\ (p \in batch[r] => seen[r][p] \in ParcelRow)
  BY <1>1 DEF Typed, TypeOK
<1>3. CASE CommitSingle(r) \/ CommitBulk(r)
  <2>1. ask[r].kind \in {"single", "bulk"}
    BY <1>3 DEF CommitSingle, CommitBulk
  <2>2. /\ p \in batch[r]
        /\ \/ cod'[p] = CodAfterMove(p, cod[p], seen[r][p], ask[r])
           \/ cod'[p] = RacedCod(cod[p], seen[r][p], ask[r])
    <3>1. CASE CommitSingle(r)
      <4>1. PICK b \in batch[r] :
              cod' = [cod EXCEPT ![b] = CodAfterMove(b, @, seen[r][b], ask[r])]
        BY <3>1 DEF CommitSingle
      <4> QED BY <1>2, <4>1
    <3>2. CASE CommitBulk(r)
      BY <3>2 DEF CommitBulk
    <3> QED BY <1>3, <3>1, <3>2
  <2>3. SUFFICES ASSUME p \in settled[r]
                 PROVE  ask[r].force /\ seen[r][p].status = ask[r].to
    BY <1>1, <2>2
  <2>4. /\ ~NeedsUnsettledCod(seen[r][p].status, ask[r].to, seen[r][p].partial # Nothing)
        /\ ~ask[r].force /\ ask[r].to \in DELIVERY_STATUSES => seen[r][p].status # ask[r].to
    BY <1>1, <2>1, <2>2, <2>3 DEF Sparing, Spares
  <2>5. /\ ~IsDeliveryReversal(seen[r][p].status, ask[r].to)
        /\ ask[r].to \in DELIVERY_STATUSES => seen[r][p].status = ask[r].to
    BY <2>4 DEF NeedsUnsettledCod, writesCollection
  <2>6. cod'[p] # RacedCod(cod[p], seen[r][p], ask[r])
    BY <2>5 DEF RacedCod
  <2>7. ask[r].to \in DELIVERY_STATUSES
    BY <1>2, <2>2, <2>5, <2>6, AmountAfterMove
  <2> QED BY <2>4, <2>5, <2>7
<1>4. CASE CommitCarrier(r)
  <2>1. PICK b \in batch[r] :
          cod' = [cod EXCEPT ![b] = CodAfterCarrier(@, seen[r][b], ask[r])]
    BY <1>4 DEF CommitCarrier
  <2>2. p \in batch[r] /\ cod'[p] = CodAfterCarrier(cod[p], seen[r][p], ask[r])
    BY <1>2, <2>1
  <2>3. ask[r].to = "delivered" /\ ask[r].kind \in {"carrier", "follow_up"}
    BY <1>4, <2>2 DEF CodAfterCarrier, CommitCarrier
  <2> QED BY <1>1, <2>2, <2>3 DEF Justified
<1> QED BY <1>3, <1>4 DEF Commit

(* "Statement items [...] are frozen copies of collected_amount".  For any
   number of batches, single moves, riders' scans and carriers' reports at once,
   forced or not, and however the keys behave, the cash on a statement changes
   under three kinds of write only: a carrier's report (which asks nothing), a
   status forced once more (which the rules do not call a rewrite), and the
   write of a request that read the parcel before it was on that statement. *)
THEOREM RewritesAreAccounted == Spec => RewritesAccounted
<1> DEFINE Accounted == \A p \in Parcel :
       item[p] # Nothing /\ item'[p] # Nothing /\ cod'[p].amount # cod[p].amount =>
         \E r \in Request :
           /\ Pending(r) /\ pc'[r] = "done" /\ p \in batch[r]
           /\ \/ ask[r].kind = "carrier"
              \/ ask[r].force /\ seen[r][p].status = ask[r].to
              \/ p \notin settled[r]
<1>1. Init => Sparing
  BY DEF Init, Sparing, Pending
<1>2. Typed /\ Sparing /\ [Next]_vars => Sparing'
  BY SparingStep
<1>3. Typed /\ Sparing /\ [Next]_vars => [Accounted]_vars
  <2> SUFFICES ASSUME Typed, Sparing, [Next]_vars, NEW p \in Parcel,
                      cod'[p].amount # cod[p].amount
               PROVE  \E r \in Request :
                        /\ Pending(r) /\ pc'[r] = "done" /\ p \in batch[r]
                        /\ \/ ask[r].kind = "carrier"
                           \/ ask[r].force /\ seen[r][p].status = ask[r].to
                           \/ p \notin settled[r]
    BY Zenon
  <2>1. ASSUME NEW r \in Request, Validate(r)
        PROVE  UNCHANGED cod
    BY <2>1, ValidateAsks DEF Proceed, rows
  <2>2. PICK r \in Request : Commit(r)
    BY <2>1 DEF Next, Acquire, Release, Expire, Abort, Crash, FindReturn, CreateStatement,
       CancelStatement, vars, rows
  <2> QED BY <2>2, CommitRewrites
<1> QED BY <1>1, <1>2, <1>3, TypedInvariant, PTL DEF Spec, RewritesAccounted

LEMMA ReturnsStep ==
  ASSUME Typed, ReturnsLocked, OneExchangeReturn, [Next]_vars
  PROVE  ReturnsLocked' /\ OneExchangeReturn'
<1>1. RequestsTyped /\ RowsTyped
  BY TypedParts
<1>2. ASSUME UNCHANGED raised,
             \A q \in Request : Pending(q)' =>
               pc'[q] = pc[q] /\ batch'[q] = batch[q] /\ ask'[q] = ask[q]
      PROVE  ReturnsLocked' /\ OneExchangeReturn'
  BY <1>2 DEF ReturnsLocked, OneExchangeReturn, Pending
<1>3. ASSUME NEW r \in Request, Validate(r)
      PROVE  ReturnsLocked' /\ OneExchangeReturn'
  <2>1. PICK ids \in SUBSET batch[r], a \in Ask :
           /\ Asked(a, ids) /\ UNCHANGED rows
           /\ pc'[r] = "ready" /\ batch'[r] = ids /\ ask'[r] = a
           /\ \A q \in Request \ {r} :
                pc'[q] = pc[q] /\ batch'[q] = batch[q] /\ ask'[q] = ask[q]
    BY <1>3, ValidateLeaves
  <2> QED BY <2>1 DEF Asked, rows, ReturnsLocked, OneExchangeReturn, Pending
<1>4. ASSUME NEW r \in Request, FindReturn(r)
      PROVE  ReturnsLocked' /\ OneExchangeReturn'
  <2>1. PICK p \in batch[r] :
          RowFree(r, p) /\ ask' = [ask EXCEPT ![r].confirmed = (raised[p] = 0)]
    BY <1>4 DEF FindReturn
  <2>2. /\ pc[r] = "ready" /\ ask[r].confirmed /\ UNCHANGED <<raised, batch>>
        /\ pc' = [pc EXCEPT ![r] = "raising"]
    BY <1>4 DEF FindReturn, rows
  <2>3. batch[r] = {p}
    BY <2>2 DEF ReturnsLocked, Pending
  <2>4. /\ \A q \in Request \ {r} : pc'[q] = pc[q] /\ ask'[q] = ask[q]
        /\ pc'[r] = "raising"
        /\ ask'[r].confirmed <=> raised[p] = 0
    BY <1>1, <2>1, <2>2 DEF RequestsTyped, Ask
  <2>5. \A q \in Request \ {r} : pc[q] = "raising" => batch[q] \cap batch[r] = {}
    BY <2>1, <2>3 DEF RowFree
  <2> QED BY <2>2, <2>3, <2>4, <2>5 DEF ReturnsLocked, OneExchangeReturn, Pending
<1>5. ASSUME NEW r \in Request, Commit(r)
      PROVE  ReturnsLocked' /\ OneExchangeReturn'
  <2>1. /\ pc' = [pc EXCEPT ![r] = "done"] /\ batch' = [batch EXCEPT ![r] = {}]
        /\ ask' = [ask EXCEPT ![r] = NoAsk]
    BY <1>5, CommitFinishes DEF Finish, Forget
  <2>2. pc'[r] = "done" /\ \A q \in Request \ {r} :
          pc'[q] = pc[q] /\ batch'[q] = batch[q] /\ ask'[q] = ask[q]
    BY <1>1, <2>1 DEF RequestsTyped
  <2>3. CASE UNCHANGED raised
    BY <1>2, <2>2, <2>3 DEF Pending
  <2>4. CASE CommitSingle(r) /\ ask[r].confirmed
    <3>1. PICK p \in batch[r] : RowFree(r, p) /\ raised' = [raised EXCEPT ![p] = @ + 1]
      BY <2>4 DEF CommitSingle
    <3>2. pc[r] = "raising" /\ p \in Parcel
      BY <1>1, <2>4 DEF CommitSingle, RequestsTyped
    <3>3. raised[p] = 0
      BY <2>4, <3>2 DEF ReturnsLocked
    <3>4. /\ raised'[p] = 1 /\ \A b \in Parcel \ {p} : raised'[b] = raised[b]
      BY <1>1, <3>1, <3>2, <3>3 DEF RowsTyped
    <3>5. OneExchangeReturn'
      BY <3>4 DEF OneExchangeReturn
    <3>6. \A q \in Request : pc'[q] = "raising" => q # r /\ p \notin batch'[q]
      BY <2>2, <3>1 DEF RowFree
    <3>7. \A q \in Request : batch[q] \subseteq Parcel
      BY <1>1 DEF RequestsTyped
    <3>8. \A q \in Request : pc'[q] = "raising" /\ ask'[q].confirmed =>
            \A b \in batch'[q] : raised'[b] = 0
      BY <2>2, <3>4, <3>6, <3>7 DEF ReturnsLocked
    <3> QED BY <2>2, <3>5, <3>8 DEF ReturnsLocked, Pending
  <2>5. CASE CommitSingle(r) /\ ~ask[r].confirmed
    <3>1. PICK p \in batch[r] :
            raised' = [raised EXCEPT ![p] = IF ask[r].confirmed THEN @ + 1 ELSE @]
      BY <2>5 DEF CommitSingle
    <3>2. raised' = raised
      BY <1>1, <2>5, <3>1 DEF RowsTyped
    <3> QED BY <2>3, <3>2
  <2>6. CASE CommitBulk(r) \/ CommitCarrier(r)
    BY <2>3, <2>6 DEF CommitBulk, CommitCarrier
  <2> QED BY <1>5, <2>4, <2>5, <2>6 DEF Commit
<1>6. ASSUME NEW r \in Request, NEW ids \in SUBSET Parcel, Acquire(r, ids)
      PROVE  ReturnsLocked' /\ OneExchangeReturn'
  <2>1. UNCHANGED <<raised, ask>>
        /\ \E at \in {"locked", "done"} : pc' = [pc EXCEPT ![r] = at]
        /\ \E b : batch' = [batch EXCEPT ![r] = b]
    BY <1>6 DEF Acquire, rows
  <2> QED BY <1>1, <1>2, <2>1 DEF RequestsTyped, Pending
<1>7. ASSUME NEW r \in Request, Release(r) \/ Abort(r) \/ Crash(r)
      PROVE  ReturnsLocked' /\ OneExchangeReturn'
  BY <1>1, <1>2, <1>7 DEF Release, Abort, Crash, Forget, rows, RequestsTyped, Pending
<1>8. ASSUME NEW p \in Parcel, Expire(p) \/ CreateStatement(p) \/ CancelStatement(p)
      PROVE  ReturnsLocked' /\ OneExchangeReturn'
  BY <1>2, <1>8 DEF Expire, CreateStatement, CancelStatement, request, rows
<1>9. ASSUME UNCHANGED vars
      PROVE  ReturnsLocked' /\ OneExchangeReturn'
  BY <1>2, <1>9 DEF vars, request, rows
<1> QED BY <1>3, <1>4, <1>5, <1>6, <1>7, <1>8, <1>9 DEF Next

(* The customer's return parcel is created once, however often its exchange
   order is delivered, retracted and delivered again, also by requests whose
   keys lapsed and whose transactions look for it at once
   (autoCreateExchangeReturn): the first to write the parcels row is through
   before the next may look. *)
THEOREM ReturnsAreRaisedOnce == Spec => []OneExchangeReturn
<1>1. Init => ReturnsLocked /\ OneExchangeReturn
  BY DEF Init, ReturnsLocked, OneExchangeReturn, Pending
<1>2. Typed /\ ReturnsLocked /\ OneExchangeReturn /\ [Next]_vars
        => (ReturnsLocked /\ OneExchangeReturn)'
  BY ReturnsStep
<1> QED BY <1>1, <1>2, TypedInvariant, PTL DEF Spec

LEMMA TimelineStep ==
  ASSUME Typed, BatchesLeaveNoGap, [Next]_vars
  PROVE  BatchesLeaveNoGap'
<1>1. RequestsTyped /\ RowsTyped
  BY TypedParts
<1>2. CASE UNCHANGED <<parcel, history>>
  BY <1>2 DEF BatchesLeaveNoGap
<1>3. ASSUME NEW r \in Request, Validate(r)
      PROVE  UNCHANGED <<parcel, history>>
  BY <1>3, ValidateAsks DEF Proceed, rows
<1>4. ASSUME NEW r \in Request, CommitBulk(r), NEW p \in Parcel
      PROVE  history'[p].gap # "bulk" /\ history'[p].last = parcel'[p].status
  <2>1. /\ history[p].gap # "bulk" /\ history[p].last = parcel[p].status
        /\ parcel[p] \in ParcelRow
    BY <1>1 DEF BatchesLeaveNoGap, RowsTyped
  <2>2. CASE p \in Survivors(r)
    <3>1. /\ parcel'[p] = ParcelAfterMove(parcel[p], seen[r][p], ask[r])
          /\ history'[p] = HistoryAfter(history[p], seen[r][p], ask[r])
          /\ parcel[p].status = seen[r][p].status
      BY <1>4, <2>2 DEF CommitBulk, Survivors
    <3>2. parcel'[p].status = ask[r].to
      BY <3>1 DEF ParcelAfterMove
    <3> QED BY <2>1, <3>1, <3>2 DEF HistoryAfter
  <2>3. CASE p \notin Survivors(r)
    <3>1. history'[p] = history[p]
          /\ (parcel'[p] = parcel[p] \/ parcel'[p] = RacedParcel(parcel[p], seen[r][p], ask[r]))
      BY <1>4, <2>3 DEF CommitBulk
    <3>2. parcel'[p].status = parcel[p].status
      BY <2>1, <3>1 DEF RacedParcel, ParcelRow
    <3> QED BY <2>1, <3>1, <3>2
  <2> QED BY <2>2, <2>3
<1>5. ASSUME NEW r \in Request, CommitSingle(r) \/ CommitCarrier(r), NEW p \in Parcel
      PROVE  history'[p].gap # "bulk" /\ history'[p].last = parcel'[p].status
  <2>1. PICK b \in batch[r] :
          /\ history' = [history EXCEPT ![b] = HistoryAfter(@, seen[r][b], ask[r])]
          /\ \/ parcel' = [parcel EXCEPT ![b] = ParcelAfterMove(@, seen[r][b], ask[r])]
             \/ parcel' = [parcel EXCEPT ![b] = ParcelAfterCarrier(@, seen[r][b], ask[r])]
    BY <1>5 DEF CommitSingle, CommitCarrier
  <2>2. ask[r].kind # "bulk"
    BY <1>5 DEF CommitSingle, CommitCarrier
  <2>3. CASE p = b
    <3>1. /\ history'[p] = HistoryAfter(history[p], seen[r][p], ask[r])
          /\ \/ parcel'[p] = ParcelAfterMove(parcel[p], seen[r][p], ask[r])
             \/ parcel'[p] = ParcelAfterCarrier(parcel[p], seen[r][p], ask[r])
      BY <1>1, <2>1, <2>3 DEF RowsTyped
    <3> DEFINE x == parcel[p]
               a == ask[r]
    <3>2. x \in ParcelRow
      BY <1>1 DEF RowsTyped
    <3>3. ParcelAfterMove(x, seen[r][p], a).status = a.to
      BY DEF ParcelAfterMove
    <3>4. ParcelAfterCarrier(x, seen[r][p], a).status = a.to
      BY <3>2 DEF ParcelAfterCarrier, ParcelRow
    <3>5. parcel'[p].status = ask[r].to
      BY <3>1, <3>3, <3>4
    <3> QED BY <2>2, <3>1, <3>5 DEF HistoryAfter
  <2>4. CASE p # b
    BY <1>1, <2>1, <2>4 DEF RowsTyped, BatchesLeaveNoGap
  <2> QED BY <2>3, <2>4
<1>6. ASSUME NEW r \in Request, Commit(r)
      PROVE  BatchesLeaveNoGap'
  BY <1>4, <1>5, <1>6 DEF Commit, BatchesLeaveNoGap
<1> QED BY <1>2, <1>3, <1>6
        DEF Next, Acquire, Release, Expire, Abort, Crash, FindReturn, CreateStatement,
            CancelStatement, vars, rows

(* The timeline needs no status lock from the bulk path: keys may lapse under
   their holders, Redis be down, and single moves and carriers write beside it,
   and each history row a batch adds still starts where the one before it ended
   (its FOR UPDATE re-read). *)
THEOREM BatchesKeepTimeline == Spec => []BatchesLeaveNoGap
<1>1. Init => BatchesLeaveNoGap
  BY DEF Init, BatchesLeaveNoGap
<1>2. Typed /\ BatchesLeaveNoGap /\ [Next]_vars => BatchesLeaveNoGap'
  BY TimelineStep
<1> QED BY <1>1, <1>2, TypedInvariant, PTL DEF Spec
=============================================================================
