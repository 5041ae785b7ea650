----------------------------- MODULE Settlement -----------------------------
(***************************************************************************)
(* Rider and vendor statements (finance.service.ts) and the vendor         *)
(* payments that become credit on them (vendor-payment.service.ts), for    *)
(* one rider and one vendor.                                               *)
(*                                                                         *)
(* Each operation is one READ COMMITTED transaction: it takes its row      *)
(* locks and reads in a Begin action, and writes in a Commit action.       *)
(* Between the two other transactions run, kept out only by those locks;   *)
(* what a transaction wrote is seen by the others once it commits.         *)
(***************************************************************************)
EXTENDS Integers, FiniteSets, Functions

CONSTANTS
  Collection,   \* cod_collections with collected_at set
  Cash,         \* collected_amount of each
  Charge,       \* delivery_charge of each one's parcel
  CarrierHeld,  \* those with a carrier_code: no rider ever owes them
  StatementId,  \* settlements.id
  Claim,        \* vendor_payments.id
  ClaimAmount,  \* vendor_payments.amount of each
  Request       \* database transactions that may be open at once

ASSUME SettlementAssumption ==
  /\ IsFiniteSet(Collection) /\ IsFiniteSet(StatementId) /\ IsFiniteSet(Claim)
  /\ Cash \in [Collection -> Nat] /\ Charge \in [Collection -> Nat]
  /\ CarrierHeld \subseteq Collection
  /\ ClaimAmount \in [Claim -> Nat \ {0}]

VARIABLES
  stmt,     \* the settlements rows, with the ids of their settlement_items
  receipts, \* the sum of the settlement_payments rows of each statement
  marked,   \* per leg, the collections whose payment status is "paid"
  claim,    \* vendor_payments.status
  job,      \* the open transaction of each request
  doubled   \* for the properties only: per leg, the orders an edit put on a
            \* statement while another one had them

vars == <<stmt, receipts, marked, claim, job, doubled>>

Leg    == {"rider", "vendor"}
Absent == [leg |-> "rider", status |-> "none", payable |-> 0, paid |-> 0,
           credit |-> 0, items |-> {}]
NoJob  == [op |-> "none"]

Init ==
  /\ stmt = [s \in StatementId |-> Absent]
  /\ receipts = [s \in StatementId |-> 0]
  /\ marked = [leg \in Leg |-> {}]
  /\ claim = [v \in Claim |-> "pending"]
  /\ job = [q \in Request |-> NoJob]
  /\ doubled = [leg \in Leg |-> {}]

Abs(n)       == IF n < 0 THEN -n ELSE n
Least(m, n)  == IF m < n THEN m ELSE n
Owing(row)   == Abs(row.payable) - row.paid

(* What the items of a statement of this leg come to. *)
ItemsPayable(leg, ids) ==
  IF leg = "rider" THEN SumFunctionOnSet(Cash, ids)
  ELSE SumFunctionOnSet([c \in Collection |-> Cash[c] - Charge[c]], ids)

Earmarked(leg) == UNION {stmt[s].items : s \in {t \in StatementId : stmt[t].leg = leg}}

(* eligibleWhere: unpaid, and on no statement of the same leg. *)
Eligible(leg) ==
  Collection \ (marked[leg] \cup Earmarked(leg)
                  \cup IF leg = "rider" THEN CarrierHeld ELSE {})

(* availableVendorCredit: verified payments no live statement has absorbed. *)
VerifiedPaid == SumFunctionOnSet(ClaimAmount, {v \in Claim : claim[v] = "verified"})
CreditApplied ==
  SumFunctionOnSet([s \in StatementId |-> stmt[s].credit],
                   {s \in StatementId : stmt[s].status # "cancelled"})
availableVendorCredit ==
  IF VerifiedPaid > CreditApplied THEN VerifiedPaid - CreditApplied ELSE 0

----------------------------------------------------------------------------
(* Row locks, held from Begin to Commit. *)

Working(q, ops)      == job[q].op \in ops
HoldsStatement(q, s) ==
  \/ Working(q, {"pay", "edit", "revert", "cancel"}) /\ job[q].id = s
  \/ Working(q, {"apply"}) /\ s \in DOMAIN job[q].rows
HoldsCollection(q, c) == Working(q, {"create"}) /\ c \in job[q].items
HoldsVendor(q) ==
  \/ Working(q, {"apply"})
  \/ Working(q, {"create"}) /\ job[q].leg = "vendor"

(* Mutants: no row lock on the statement, and none on the vendor. *)
unlockedSettlement(s) == s \in StatementId
unlockedVendorCredit  == TRUE

lockSettlement(s)    == \A q \in Request : ~HoldsStatement(q, s)
lockCollections(ids) == \A q \in Request, c \in ids : ~HoldsCollection(q, c)
lockVendorCredit     == \A q \in Request : ~HoldsVendor(q)

Begin(q, j) ==
  /\ Working(q, {"none"})
  /\ job' = [job EXCEPT ![q] = j]
  /\ UNCHANGED <<stmt, receipts, marked, claim, doubled>>

End(q) == job' = [job EXCEPT ![q] = NoJob]

(* An error, a timeout or a crash rolls the transaction back. *)
Rollback(q) ==
  /\ ~Working(q, {"none"})
  /\ End(q)
  /\ UNCHANGED <<stmt, receipts, marked, claim, doubled>>

----------------------------------------------------------------------------
(* Mutant: eligibility read without locking the collections. *)
BeginCreateUnlocked(q, leg, ids) ==
  /\ ids # {} /\ ids \subseteq Eligible(leg)
  /\ leg = "vendor" => lockVendorCredit
  /\ Begin(q, [op |-> "create", leg |-> leg, items |-> ids,
               credit |-> IF leg = "vendor" THEN availableVendorCredit ELSE 0])

(* createSettlement: FOR UPDATE on the collections, then eligibility, then for
   a vendor the credit under the vendor's lock. *)
BeginCreate(q, leg, ids) ==
  /\ ids # {} /\ lockCollections(ids)
  /\ ids \subseteq Eligible(leg)
  /\ leg = "vendor" => lockVendorCredit
  /\ Begin(q, [op |-> "create", leg |-> leg, items |-> ids,
               credit |-> IF leg = "vendor" THEN availableVendorCredit ELSE 0])

CommitCreate(q, s) ==
  LET j == job[q] IN
  /\ Working(q, {"create"}) /\ stmt[s].status = "none"
  /\ stmt' = [stmt EXCEPT ![s] =
       [leg |-> j.leg, status |-> "pending", paid |-> 0, credit |-> j.credit,
        payable |-> ItemsPayable(j.leg, j.items) + j.credit, items |-> j.items]]
  /\ End(q)
  /\ UNCHANGED <<receipts, marked, claim, doubled>>

(* payForSettlement, one instalment: more than zero unless nothing is due. *)
BeginPay(q, s, amount) ==
  /\ lockSettlement(s)
  /\ stmt[s].status \in {"pending", "partially_paid"}
  /\ amount > 0 \/ stmt[s].payable = 0
  /\ amount <= Owing(stmt[s])
  /\ Begin(q, [op |-> "pay", id |-> s, row |-> stmt[s], amount |-> amount])

(* Mutant: money received from a vendor who owes is recorded as negative. *)
CommitSignedPay(q) ==
  LET j    == job[q]
      paid == j.row.paid + IF j.row.payable < 0 THEN -j.amount ELSE j.amount
      full == j.row.payable = paid
  IN
  /\ Working(q, {"pay"})
  /\ stmt' = [stmt EXCEPT ![j.id].paid = paid,
       ![j.id].status = IF full THEN "settled" ELSE "partially_paid"]
  /\ receipts' = [receipts EXCEPT ![j.id] = @ + j.amount]
  /\ marked' = [marked EXCEPT ![j.row.leg] = IF full THEN @ \cup j.row.items ELSE @]
  /\ End(q)
  /\ UNCHANGED <<claim, doubled>>

CommitPay(q) ==
  LET j    == job[q]
      paid == j.row.paid + j.amount
      full == Abs(j.row.payable) = paid
  IN
  /\ Working(q, {"pay"})
  /\ stmt' = [stmt EXCEPT ![j.id].paid = paid,
       ![j.id].status = IF full THEN "settled" ELSE "partially_paid"]
  /\ receipts' = [receipts EXCEPT ![j.id] = @ + j.amount]
  /\ marked' = [marked EXCEPT ![j.row.leg] = IF full THEN @ \cup j.row.items ELSE @]
  /\ End(q)
  /\ UNCHANGED <<claim, doubled>>

(* Mutant: editable until fully paid. *)
BeginEditWhileOpen(q, s, ids) ==
  /\ lockSettlement(s)
  /\ stmt[s].status \in {"pending", "partially_paid"} /\ ids # {}
  /\ ids \ stmt[s].items \subseteq Eligible(stmt[s].leg)
  /\ Begin(q, [op |-> "edit", id |-> s, row |-> stmt[s], items |-> ids])

(* updateSettlement: a new order list for a pending statement.  Additions are
   read as eligible without locking them; the credit stays. *)
BeginEdit(q, s, ids) ==
  /\ lockSettlement(s)
  /\ stmt[s].status = "pending" /\ ids # {}
  /\ ids \ stmt[s].items \subseteq Eligible(stmt[s].leg)
  /\ Begin(q, [op |-> "edit", id |-> s, row |-> stmt[s], items |-> ids])

(* The insert's foreign key waits for whoever locked an added collection. *)
CommitEdit(q) ==
  LET j == job[q] IN
  /\ Working(q, {"edit"})
  /\ lockCollections(j.items \ j.row.items)
  /\ stmt' = [stmt EXCEPT ![j.id].items = j.items,
       ![j.id].payable = ItemsPayable(j.row.leg, j.items) + j.row.credit]
  /\ marked' = [marked EXCEPT ![j.row.leg] = @ \ (j.row.items \ j.items)]
  /\ End(q)
  /\ doubled' = [doubled EXCEPT ![j.row.leg] = @ \cup
       {c \in j.items \ j.row.items : \E s \in StatementId \ {j.id} :
          stmt[s].leg = j.row.leg /\ c \in stmt[s].items}]
  /\ UNCHANGED <<receipts, claim>>

(* revertSettlement: undo the payments; only a settled one marked its orders. *)
BeginRevert(q, s) ==
  /\ lockSettlement(s)
  /\ stmt[s].status \in {"settled", "partially_paid"}
  /\ Begin(q, [op |-> "revert", id |-> s, row |-> stmt[s]])

(* Mutant: the orders of a reverted statement stay marked paid. *)
CommitRevertKeepingMarks(q) ==
  LET j == job[q] IN
  /\ Working(q, {"revert"})
  /\ stmt' = [stmt EXCEPT ![j.id].status = "pending", ![j.id].paid = 0]
  /\ receipts' = [receipts EXCEPT ![j.id] = 0]
  /\ End(q)
  /\ UNCHANGED <<marked, claim, doubled>>

CommitRevert(q) ==
  LET j == job[q] IN
  /\ Working(q, {"revert"})
  /\ stmt' = [stmt EXCEPT ![j.id].status = "pending", ![j.id].paid = 0]
  /\ receipts' = [receipts EXCEPT ![j.id] = 0]
  /\ marked' = [marked EXCEPT ![j.row.leg] =
       IF j.row.status = "settled" THEN @ \ j.row.items ELSE @]
  /\ End(q)
  /\ UNCHANGED <<claim, doubled>>

(* cancelSettlement: the row stays, its items go, its credit is free again. *)
BeginCancel(q, s) ==
  /\ lockSettlement(s)
  /\ stmt[s].status = "pending"
  /\ Begin(q, [op |-> "cancel", id |-> s, row |-> stmt[s]])

CommitCancel(q) ==
  /\ Working(q, {"cancel"})
  /\ stmt' = [stmt EXCEPT ![job[q].id].status = "cancelled", ![job[q].id].items = {}]
  /\ End(q)
  /\ UNCHANGED <<receipts, marked, claim, doubled>>

----------------------------------------------------------------------------
(* reviewVendorPayment: claim the pending row, then, if it is verified, pay
   down the statements the vendor owes on, one row lock after another. *)

Reject(v) ==
  /\ claim[v] = "pending"
  /\ \A q \in Request : Working(q, {"apply"}) => job[q].claim # v
  /\ claim' = [claim EXCEPT ![v] = "rejected"]
  /\ UNCHANGED <<stmt, receipts, marked, job, doubled>>

Open(s) == stmt[s].leg = "vendor" /\ stmt[s].status \in {"pending", "partially_paid"}

BeginApply(q, v) ==
  /\ claim[v] = "pending" /\ lockVendorCredit
  /\ Begin(q, [op |-> "apply", claim |-> v, rows |-> <<>>,
               credit |-> IF VerifiedPaid + ClaimAmount[v] > CreditApplied
                          THEN VerifiedPaid + ClaimAmount[v] - CreditApplied ELSE 0,
               left |-> {s \in StatementId : Open(s)}])

owedLeft(row) == -row.payable - row.paid

(* The statement as one step of the loop leaves it. *)
PaidDown(row, credit) ==
  LET applied == Least(credit, owedLeft(row)) IN
  [row EXCEPT !.payable = @ + applied, !.credit = @ + applied,
              !.status = IF applied = owedLeft(row) THEN "settled" ELSE @]

(* Settlement dates are the caller's, so any order of the open statements. *)
ApplyTo(q, s) ==
  LET j   == job[q]
      row == stmt[s]
      owes == Open(s) /\ owedLeft(row) > 0
  IN
  /\ Working(q, {"apply"}) /\ j.credit > 0 /\ s \in j.left
  /\ lockSettlement(s)
  /\ job' = [job EXCEPT ![q] = [j EXCEPT
       !.left = @ \ {s},
       !.rows = [t \in DOMAIN @ \cup {s} |->
                   IF t # s THEN @[t] ELSE IF owes THEN PaidDown(row, j.credit) ELSE row],
       !.credit = IF owes THEN @ - Least(@, owedLeft(row)) ELSE @]]
  /\ UNCHANGED <<stmt, receipts, marked, claim, doubled>>

CommitApply(q) ==
  LET j == job[q] IN
  /\ Working(q, {"apply"}) /\ (j.credit = 0 \/ j.left = {})
  /\ claim' = [claim EXCEPT ![j.claim] = "verified"]
  /\ stmt' = [s \in StatementId |-> IF s \in DOMAIN j.rows THEN j.rows[s] ELSE stmt[s]]
  /\ marked' = [marked EXCEPT !["vendor"] = @ \cup
       UNION {j.rows[s].items : s \in {t \in DOMAIN j.rows : j.rows[t].status = "settled"
                                                           /\ stmt[t].status # "settled"}}]
  /\ End(q)
  /\ UNCHANGED <<receipts, doubled>>

----------------------------------------------------------------------------
Amounts(s) == 0 .. Owing(stmt[s])

Commit(q) ==
  \/ \E s \in StatementId : CommitCreate(q, s)
  \/ CommitPay(q) \/ CommitEdit(q) \/ CommitRevert(q) \/ CommitCancel(q)
  \/ CommitApply(q)

Next ==
  \/ \E q \in Request :
       \/ \E leg \in Leg, ids \in SUBSET Collection : BeginCreate(q, leg, ids)
       \/ \E s \in StatementId :
            \/ \E amount \in Amounts(s) : BeginPay(q, s, amount)
            \/ \E ids \in SUBSET Collection : BeginEdit(q, s, ids)
            \/ BeginRevert(q, s) \/ BeginCancel(q, s) \/ ApplyTo(q, s)
       \/ \E v \in Claim : BeginApply(q, v)
       \/ Commit(q) \/ Rollback(q)
  \/ \E v \in Claim : Reject(v)

Spec == Init /\ [][Next]_vars
----------------------------------------------------------------------------
Live(s) == stmt[s].status \notin {"none", "cancelled"}

(* Every column holds what the schema lets it hold, and no open transaction
   is of a kind the service does not have. *)
TypeOK ==
  /\ stmt \in [StatementId ->
       [leg : Leg, payable : Int, paid : Nat, credit : Nat, items : SUBSET Collection,
        status : {"none", "pending", "partially_paid", "settled", "cancelled"}]]
  /\ receipts \in [StatementId -> Nat]
  /\ marked \in [Leg -> SUBSET Collection]
  /\ claim \in [Claim -> {"pending", "verified", "rejected"}]
  /\ DOMAIN job = Request
  /\ \A q \in Request :
       job[q].op \in {"none", "create", "pay", "edit", "revert", "cancel", "apply"}
  /\ doubled \in [Leg -> SUBSET Collection]

(* An order is paid out once per leg: no collection is on two statements of
   the same leg, the double payment createSettlement's lock is there for. *)
BilledOnce ==
  \A s, t \in StatementId :
    s # t /\ stmt[s].leg = stmt[t].leg => stmt[s].items \cap stmt[t].items = {}

(* Where that fails an edit failed it: creations at once, payments, reverts,
   cancellations and vendor credit never put an order on a second statement of
   its leg, only an edit whose eligibility read another statement overtook. *)
OnlyEditsBillTwice ==
  \A s, t \in StatementId :
    s # t /\ stmt[s].leg = stmt[t].leg =>
      stmt[s].items \cap stmt[t].items \subseteq doubled[stmt[s].leg]

(* "paid" always means money actually moved: of the orders no edit billed
   twice, exactly those on fully settled statements are marked, through
   payments, reverts, edits and credit; one double spoils no other order. *)
MarkedMeansSettled ==
  \A leg \in Leg :
    marked[leg] \ doubled[leg] =
      (UNION {stmt[s].items : s \in
                {t \in StatementId : stmt[t].leg = leg /\ stmt[t].status = "settled"}})
        \ doubled[leg]

(* The statement header agrees with its instalments and its status with what
   is left: settled exactly when nothing is, never paid beyond what is due. *)
PaidAddsUp ==
  \A s \in StatementId :
    /\ stmt[s].paid = receipts[s]
    /\ stmt[s].status \in {"none", "pending", "cancelled"} => stmt[s].paid = 0
    /\ stmt[s].status = "partially_paid" => stmt[s].paid \in 1 .. Abs(stmt[s].payable) - 1
    /\ stmt[s].status = "settled" => stmt[s].paid = Abs(stmt[s].payable)

(* A live statement's payable is its present orders plus the credit it took,
   whatever edits, payments and credit arrived in between. *)
PayableAddsUp ==
  \A s \in StatementId : Live(s) =>
    stmt[s].payable = ItemsPayable(stmt[s].leg, stmt[s].items) + stmt[s].credit

(* What a statement says of itself is so, both of the money paid and of the
   money due (settlements: paid_amount, status, payable). *)
HeadersAddUp == PaidAddsUp /\ PayableAddsUp

(* "Two statements cannot spend the same credit": live statements never hold
   more credit than the vendor's verified payments. *)
CreditSpentOnce == CreditApplied <= VerifiedPaid

(* Once a payment is recorded against it a statement is immutable: its orders
   stay as they are until the payment is reverted. *)
PaidOrdersFrozen ==
  [][\A s \in StatementId :
       stmt[s].status \in {"partially_paid", "settled"} => stmt'[s].items = stmt[s].items]_vars
=============================================================================
