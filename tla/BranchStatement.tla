-------------------------- MODULE BranchStatement --------------------------
(***************************************************************************)
(* The COD statements of one branch (branch.service.ts) and the receipts   *)
(* it files for what it paid in, with their review                         *)
(* (branch-billing.service.ts).                                            *)
(*                                                                         *)
(* An operation is a READ COMMITTED transaction: a Begin action takes its  *)
(* row locks and reads, a Commit action writes.  Paying, editing and       *)
(* cancelling lock the statement they read.  A review locks no statement   *)
(* before it updates it, and neither do statements raised while a receipt  *)
(* voucher is being entered.                                               *)
(***************************************************************************)
EXTENDS Integers, FiniteSets, Functions

CONSTANTS
  Order,       \* parcels the branch received by manifest and delivered
  Cash,        \* collected_amount of each
  Rates,       \* commissions per parcel the office may agree on
  StatementId, \* branch_settlements, numbered by settlement_date and created_at
  PaymentId,   \* branch_payments.  Bound: submissions and the rows they split into
  Amounts,     \* amounts a user may enter
  Tx           \* transactions that may be open at once

ASSUME BranchAssumption ==
  /\ IsFiniteSet(Order) /\ Cash \in [Order -> Nat] /\ Rates \subseteq Nat
  /\ StatementId \subseteq Nat \ {0} /\ IsFiniteSet(StatementId)
  /\ IsFiniteSet(PaymentId)
  /\ Amounts \subseteq Nat \ {0}

VARIABLES
  stmt,    \* branch_settlements with the parcels of their items
  lines,   \* branch_settlement_payments of each statement, summed by origin
  payment, \* branch_payments
  tx       \* the open transaction of each request

vars == <<stmt, lines, payment, tx>>

None    == 0  \* no statement
Absent  == [status |-> "none", rate |-> 0, items |-> {}, net |-> 0, paid |-> 0]
NoLines == [office |-> 0, receipts |-> 0]
NoClaim == [status |-> "none", amount |-> 0, link |-> None]
Idle    == [op |-> "idle", locked |-> {}]

Init ==
  /\ stmt = [s \in StatementId |-> Absent]
  /\ lines = [s \in StatementId |-> NoLines]
  /\ payment = [p \in PaymentId |-> NoClaim]
  /\ tx = [q \in Tx |-> Idle]

Least(m, n) == IF m < n THEN m ELSE n
Monus(m, n) == IF m > n THEN m - n ELSE 0

(* branchItemAmounts: the commission is never more than the cash. *)
NetOf(ids, rate) == SumFunctionOnSet([o \in Order |-> Monus(Cash[o], rate)], ids)

Open(s)       == stmt[s].status \in {"pending", "partially_paid"}
Untouched(s)  == stmt[s].status = "pending" /\ stmt[s].paid = 0
Unstatemented == Order \ UNION {stmt[s].items : s \in StatementId}
Outstanding(rows, s) == rows[s].net - rows[s].paid
Owed(rows)    == SumFunctionOnSet([s \in DOMAIN rows |-> Outstanding(rows, s)], DOMAIN rows)
Awaiting(s)   == {p \in PaymentId : payment[p].status = "pending" /\ payment[p].link = s}
AmountOf(ids) == SumFunctionOnSet([p \in PaymentId |-> payment[p].amount], ids)
Snapshot(ids) == [s \in ids |-> stmt[s]]
Progress(net, paid) == IF paid = net THEN "settled" ELSE "partially_paid"

-----------------------------------------------------------------------------
(* FOR UPDATE, or the lock an UPDATE takes; a plain SELECT waits for nobody. *)
LockFree(q, s) == \A other \in Tx \ {q} : s \notin tx[other].locked

(* The unique index on an item's parcel, also against rows not yet committed. *)
ItemsFree(q, ids) == \A other \in Tx \ {q} : tx[other].op \in {"create", "update"} =>
                       ids \cap tx[other].row.items = {}

Begin(q, job) ==
  /\ tx[q] = Idle
  /\ tx' = [tx EXCEPT ![q] = job]
  /\ UNCHANGED <<stmt, lines, payment>>

End(q) == tx' = [tx EXCEPT ![q] = Idle]

(* An operation on the one statement it holds locked. *)
Holding(op, s, row, amount) ==
  [op |-> op, locked |-> {s}, id |-> s, row |-> row, credit |-> amount]

createBranchSettlement(q, s, ids, rate) ==
  /\ stmt[s].status = "none" /\ LockFree(q, s)
  /\ ids \subseteq Unstatemented /\ ItemsFree(q, ids)
  /\ Begin(q, Holding("create", s,
       [status |-> "pending", rate |-> rate, items |-> ids, net |-> NetOf(ids, rate), paid |-> 0],
       0))

payBranchSettlement(q, s, amount) ==
  LET row  == stmt[s]
      paid == row.paid + amount
  IN
  /\ LockFree(q, s) /\ Open(s)
  /\ amount > 0 \/ row.net = row.paid
  /\ paid <= row.net
  /\ Begin(q, Holding("pay", s,
       [row EXCEPT !.paid = paid, !.status = Progress(row.net, paid)], amount))

cancelBranchSettlement(q, s) ==
  /\ LockFree(q, s) /\ Untouched(s) /\ Awaiting(s) = {}
  /\ Begin(q, Holding("cancel", s, [stmt[s] EXCEPT !.status = "cancelled", !.items = {}], 0))

updateBranchSettlement(q, s, ids) ==
  /\ LockFree(q, s) /\ Untouched(s) /\ Awaiting(s) = {}
  /\ ids \subseteq Unstatemented \cup stmt[s].items /\ ItemsFree(q, ids)
  /\ Begin(q, Holding("update", s,
       [stmt[s] EXCEPT !.items = ids, !.net = NetOf(ids, stmt[s].rate)], 0))

CommitHolding(q) ==
  LET job == tx[q] IN
  /\ job.op \in {"create", "pay", "cancel", "update"}
  /\ stmt' = [stmt EXCEPT ![job.id] = job.row]
  /\ lines' = [lines EXCEPT ![job.id].office = @ + job.credit]
  /\ End(q)
  /\ UNCHANGED payment

-----------------------------------------------------------------------------
(* applyVerifiedCreditToSettlement for each of the rows read, oldest first:
   a statement takes what the ones before it left of the credit. *)
Earlier(rows, s) == [t \in {t \in DOMAIN rows : t < s} |-> rows[t]]
Absorbed(rows, credit) ==
  [s \in DOMAIN rows |-> Least(Outstanding(rows, s), Monus(credit, Owed(Earlier(rows, s))))]
Touched(take) == {s \in DOMAIN take : take[s] > 0}

(* Mutant: one payment line for a deposit, on the first statement it reaches. *)
RecordedOnce(take, s) == IF \E t \in Touched(take) : t < s THEN 0 ELSE take[s]

(* The payment line of a statement. *)
Recorded(take, s) == take[s]

(* The UPDATE sets the paid amount and the status, and the table's CHECK keeps
   the one within the row's net_payable. *)
Pay(q, rows, take, origin) ==
  LET paid == [s \in Touched(take) |-> rows[s].paid + take[s]] IN
  /\ \A s \in Touched(take) : LockFree(q, s) /\ paid[s] <= stmt[s].net
  /\ stmt' = [s \in StatementId |->
       IF s \in Touched(take)
       THEN [stmt[s] EXCEPT !.paid = paid[s], !.status = Progress(rows[s].net, paid[s])]
       ELSE stmt[s]]
  /\ lines' = [s \in StatementId |->
       IF s \in Touched(take) THEN [lines[s] EXCEPT ![origin] = @ + Recorded(take, s)] ELSE lines[s]]

(* submitBranchPayment: a receipt for a statement, within what is neither paid
   nor awaiting review, or a deposit for none.  The statement and the receipts
   that wait for review are read one after the other. *)
BeginSubmit(q, s, amount) ==
  \/ /\ s = None
     /\ Begin(q, [op |-> "submit", locked |-> {}, id |-> None, credit |-> amount])
  \/ /\ s # None /\ Open(s)
     /\ Begin(q, [op |-> "file", locked |-> {}, id |-> s, room |-> Outstanding(stmt, s),
                  credit |-> amount])

CheckAwaiting(q) ==
  LET job == tx[q] IN
  /\ job.op = "file" /\ job.credit <= job.room - AmountOf(Awaiting(job.id))
  /\ tx' = [tx EXCEPT ![q] = [op |-> "submit", locked |-> {}, id |-> job.id, credit |-> job.credit]]
  /\ UNCHANGED <<stmt, lines, payment>>

(* The foreign key waits for whoever holds the statement FOR UPDATE. *)
CommitSubmit(q, p) ==
  LET job == tx[q] IN
  /\ job.op = "submit" /\ payment[p].status = "none"
  /\ \A other \in Tx \ {q} : job.id \notin tx[other].locked
  /\ payment' = [payment EXCEPT ![p] =
       [status |-> "pending", amount |-> job.credit, link |-> job.id]]
  /\ End(q)
  /\ UNCHANGED <<stmt, lines>>

(* Mutant: the review is claimed by the id alone. *)
ClaimedById(q, p) == q \in Tx /\ payment[p].status # "none"

(* The claim: an UPDATE of the pending row, which a second review waits for. *)
ClaimFree(q, p) ==
  /\ payment[p].status = "pending"
  /\ \A other \in Tx \ {q} : ~(tx[other].op = "review" /\ tx[other].id = p)

reject(q, p) ==
  /\ tx[q] = Idle /\ ClaimFree(q, p)
  /\ payment' = [payment EXCEPT ![p].status = "rejected"]
  /\ UNCHANGED <<stmt, lines, tx>>

(* reviewBranchPayment, verified: the statement of a receipt, or every open
   statement for a deposit, read without a lock. *)
BeginReview(q, p) ==
  LET s   == payment[p].link
      ids == IF s = None THEN {t \in StatementId : Open(t)} ELSE {s}
  IN
  /\ ClaimFree(q, p)
  /\ s # None => Open(s) /\ payment[p].amount <= Outstanding(stmt, s)
  /\ Begin(q, [op |-> "review", locked |-> {}, id |-> p, rows |-> Snapshot(ids), credit |-> payment[p].amount])

(* waterfallVerifiedDeposit: what statements used goes to a row of its own. *)
DepositSplit(p, spare, used, first) ==
  [payment EXCEPT ![p] = [@ EXCEPT !.status = "verified", !.amount = payment[p].amount - used],
                  ![spare] = [status |-> "verified", amount |-> used, link |-> first]]

CommitReview(q, spare) ==
  LET job   == tx[q]
      p     == job.id
      take  == Absorbed(job.rows, job.credit)
      used  == SumFunctionOnSet(take, DOMAIN take)
      first == CHOOSE s \in Touched(take) : \A t \in Touched(take) : s <= t
  IN
  /\ job.op = "review"
  /\ Pay(q, job.rows, take, "receipts")
  /\ \/ /\ used = 0
        /\ payment' = [payment EXCEPT ![p].status = "verified"]
     \/ /\ used = job.credit
        /\ payment' = [payment EXCEPT ![p] = [@ EXCEPT !.status = "verified", !.link = first]]
     \/ /\ used > 0 /\ used < job.credit
        /\ payment[spare].status = "none"
        /\ payment' = DepositSplit(p, spare, used, first)
  /\ End(q)

(* receiveBranchCod: the open statements are locked, then listed again. *)
BeginReceive(q, amount) ==
  LET ids == {s \in StatementId : Open(s)} IN
  /\ \A s \in ids : LockFree(q, s)
  /\ Begin(q, [op |-> "lock", locked |-> ids, credit |-> amount])

ListOpen(q) ==
  LET ids == {s \in StatementId : Open(s)} IN
  /\ tx[q].op = "lock"
  /\ tx[q].credit <= Owed(Snapshot(ids))
  /\ tx' = [tx EXCEPT ![q] = [op |-> "receive", locked |-> tx[q].locked,
                              rows |-> Snapshot(ids), credit |-> tx[q].credit]]
  /\ UNCHANGED <<stmt, lines, payment>>

CommitReceive(q) ==
  /\ tx[q].op = "receive"
  /\ Pay(q, tx[q].rows, Absorbed(tx[q].rows, tx[q].credit), "office")
  /\ End(q)
  /\ UNCHANGED payment

(* A later check refuses, the CHECK or an index fails, or the process dies. *)
Rollback(q) ==
  /\ tx[q] # Idle /\ End(q)
  /\ UNCHANGED <<stmt, lines, payment>>

OnStatement(q, s) ==
  \/ \E ids \in (SUBSET Order) \ {{}} :
       \/ \E rate \in Rates : createBranchSettlement(q, s, ids, rate)
       \/ updateBranchSettlement(q, s, ids)
  \/ \E amount \in Amounts \cup {0} : payBranchSettlement(q, s, amount)
  \/ cancelBranchSettlement(q, s)

OnPayment(q, p) == CommitSubmit(q, p) \/ reject(q, p) \/ BeginReview(q, p) \/ CommitReview(q, p)

Next ==
  \E q \in Tx :
    \/ \E s \in StatementId : OnStatement(q, s)
    \/ \E p \in PaymentId : OnPayment(q, p)
    \/ \E amount \in Amounts :
         \/ BeginReceive(q, amount)
         \/ \E s \in StatementId \cup {None} : BeginSubmit(q, s, amount)
    \/ CommitHolding(q) \/ CheckAwaiting(q) \/ ListOpen(q) \/ CommitReceive(q) \/ Rollback(q)

Spec == Init /\ [][Next]_vars

-----------------------------------------------------------------------------
(* The shape of the rows; the table's CHECK keeps paid within net. *)
TypeOK ==
  /\ \A s \in StatementId :
       /\ stmt[s].status \in {"none", "pending", "partially_paid", "settled", "cancelled"}
       /\ stmt[s].items \subseteq Order
       /\ stmt[s].net \in Nat /\ stmt[s].paid \in 0..stmt[s].net
  /\ lines \in [StatementId -> [office : Nat, receipts : Nat]]
  /\ payment \in [PaymentId -> [status : {"none", "pending", "verified", "rejected"},
                                amount : Nat, link : StatementId \cup {None}]]
  /\ \A q \in Tx : tx[q].locked \subseteq StatementId

Verified == {p \in PaymentId : payment[p].status = "verified"}
Received(s) == lines[s].office + lines[s].receipts

(* Every verified rupee that points at a statement is on a statement's payment
   lines, and every line a receipt wrote has one behind it, whichever reviews
   ran beside each other (branch-billing.service.ts, reviewBranchPayment). *)
ReceiptsAccounted ==
  AmountOf({p \in Verified : payment[p].link # None})
    = SumFunctionOnSet([s \in StatementId |-> lines[s].receipts], StatementId)

(* A statement never counts as paid what no payment line records, also when a
   review and a payment write it one over the other (paid_amount and
   branch_settlement_payments). *)
PaidIsBacked == \A s \in StatementId : stmt[s].paid <= Received(s)
=============================================================================
