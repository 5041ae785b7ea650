-------------------------- MODULE SettlementProofs --------------------------
(***************************************************************************)
(* Proofs about Settlement, for any number of orders, statements, vendor   *)
(* payments and transactions: what a statement owes, was paid and absorbed *)
(* adds up, credit is spent once, and no order is billed twice.            *)
(*                                                                         *)
(* A transaction commits what it worked out from rows it read under their  *)
(* locks, so the invariant says what an open transaction may still rely    *)
(* on: nobody else changed those rows.                                     *)
(***************************************************************************)
EXTENDS Settlement, Sums

Row == [leg : Leg, payable : Int, paid : Nat, credit : Nat, items : SUBSET Collection,
        status : {"none", "pending", "partially_paid", "settled", "cancelled"}]

(* The open transactions, by kind. *)
Rows     == UNION {[ids -> Row] : ids \in SUBSET StatementId}
Idling   == [op : {"none"}]
Creating == [op : {"create"}, leg : Leg, items : SUBSET Collection, credit : Nat]
Paying   == [op : {"pay"}, id : StatementId, row : Row, amount : Nat]
Editing  == [op : {"edit"}, id : StatementId, row : Row, items : SUBSET Collection]
Undoing  == [op : {"revert", "cancel"}, id : StatementId, row : Row]
Applying == [op : {"apply"}, claim : Claim, rows : Rows, credit : Nat, left : SUBSET StatementId]
Job == Idling \cup Creating \cup Paying \cup Editing \cup Undoing \cup Applying

Typed ==
  /\ stmt \in [StatementId -> Row]
  /\ receipts \in [StatementId -> Nat]
  /\ marked \in [Leg -> SUBSET Collection]
  /\ claim \in [Claim -> {"pending", "verified", "rejected"}]
  /\ job \in [Request -> Job]

(* No two transactions hold a row lock. *)
Locked ==
  \A q, r \in Request : q # r =>
    /\ \A s \in StatementId : ~(HoldsStatement(q, s) /\ HoldsStatement(r, s))
    /\ \A c \in Collection : ~(HoldsCollection(q, c) /\ HoldsCollection(r, c))
    /\ ~(HoldsVendor(q) /\ HoldsVendor(r))

(* What the loop over a vendor's statements does to one of them. *)
PaidDownTo(old, new) ==
  \/ new = old
  \/ /\ old.leg = "vendor" /\ old.status \in {"pending", "partially_paid"}
     /\ \E n \in Nat : /\ n <= owedLeft(old) /\ 0 < owedLeft(old)
                       /\ new = [old EXCEPT !.payable = @ + n, !.credit = @ + n,
                                            !.status = IF n = owedLeft(old) THEN "settled" ELSE @]

(* What a transaction knows of the statements it has read. *)
Current(j) ==
  /\ j.op \in {"pay", "edit", "revert", "cancel"} => j.row = stmt[j.id]
  /\ j.op = "pay" => /\ j.row.status \in {"pending", "partially_paid"}
                     /\ j.amount > 0 \/ j.row.payable = 0
                     /\ j.amount <= Owing(j.row)
  /\ j.op \in {"edit", "cancel"} => j.row.status = "pending"
  /\ j.op = "revert" => j.row.status \in {"settled", "partially_paid"}
  /\ j.op = "apply" =>
       /\ \A s \in j.left \cup DOMAIN j.rows : stmt[s].status # "none" /\ stmt[s].leg = "vendor"
       /\ \A s \in DOMAIN j.rows : PaidDownTo(stmt[s], j.rows[s])

ReadsCurrent == \A q \in Request : Current(job[q])

(* A statement agrees with its orders and its instalments. *)
AddsUp(row, received) ==
  /\ row.paid = received
  /\ row.status \in {"none", "pending", "cancelled"} => row.paid = 0
  /\ row.status = "partially_paid" => row.paid \in 1 .. Abs(row.payable) - 1
  /\ row.status = "settled" => row.paid = Abs(row.payable)
  /\ row.status \notin {"none", "cancelled"} =>
       row.payable = ItemsPayable(row.leg, row.items) + row.credit
  /\ row.status = "none" => row = Absent

StatementsAddUp == \A s \in StatementId : AddsUp(stmt[s], receipts[s])

Inv == Typed /\ Locked /\ ReadsCurrent /\ StatementsAddUp

-----------------------------------------------------------------------------
LEMMA ItemsPayableIsInt ==
  ASSUME NEW leg, NEW ids \in SUBSET Collection
  PROVE  ItemsPayable(leg, ids) \in Int
<1>1. IsFiniteSet(ids) /\ \A c \in ids : Cash[c] \in Int /\ Charge[c] \in Int
  BY SettlementAssumption, FS_Subset
<1>2. SumFunctionOnSet(Cash, ids) \in Int
  BY <1>1, SumIsInt
<1>3. PICK worth : worth = [c \in Collection |-> Cash[c] - Charge[c]]
  OBVIOUS
<1>4. \A c \in ids : worth[c] \in Int
  BY <1>1, <1>3
<1>5. SumFunctionOnSet(worth, ids) \in Int
  BY <1>1, <1>4, SumIsInt
<1> QED BY <1>2, <1>3, <1>5 DEF ItemsPayable

(* The kind of a transaction tells what it has read. *)
LEMMA Kinds ==
  ASSUME NEW j \in Job
  PROVE  /\ j.op \in {"none", "create", "pay", "edit", "revert", "cancel", "apply"}
         /\ j.op = "none" => j \in Idling
         /\ j.op = "create" => j \in Creating
         /\ j.op = "pay" => j \in Paying
         /\ j.op = "edit" => j \in Editing
         /\ j.op \in {"revert", "cancel"} => j \in Undoing
         /\ j.op = "apply" => j \in Applying
BY DEF Job, Idling, Creating, Paying, Editing, Undoing, Applying

LEMMA NoJobIdles == NoJob \in Job /\ NoJob.op = "none"
BY DEF NoJob, Job, Idling

(* Opening a transaction, taking the locks it takes and knowing what it read. *)
LEMMA OpenKeeps ==
  ASSUME Inv, UNCHANGED <<stmt, receipts, marked, claim>>,
         NEW q \in Request, NEW j \in Job, job' = [job EXCEPT ![q] = j], Current(j),
         \A s \in StatementId :
           HoldsStatement(q, s)' => HoldsStatement(q, s) \/ lockSettlement(s),
         \A c \in Collection : HoldsCollection(q, c)' => lockCollections({c}),
         HoldsVendor(q)' => HoldsVendor(q) \/ lockVendorCredit
  PROVE  Inv'
<1> USE DEF Inv
<1>1. job'[q] = j /\ (\A r \in Request \ {q} : job'[r] = job[r]) /\ job' \in [Request -> Job]
  BY DEF Typed
<1>2. Typed' /\ StatementsAddUp'
  BY <1>1 DEF Typed, StatementsAddUp
<1>3. ReadsCurrent'
  <2> SUFFICES ASSUME NEW r \in Request PROVE Current(job[r])'
    BY DEF ReadsCurrent
  <2>1. Current(job'[r])
    BY <1>1 DEF ReadsCurrent
  <2> QED BY <2>1 DEF Current
<1>4. \A r \in Request \ {q} :
        /\ \A s \in StatementId : HoldsStatement(r, s)' <=> HoldsStatement(r, s)
        /\ \A c \in Collection : HoldsCollection(r, c)' <=> HoldsCollection(r, c)
        /\ HoldsVendor(r)' <=> HoldsVendor(r)
  BY <1>1 DEF HoldsStatement, HoldsCollection, HoldsVendor, Working
<1>5. \A r \in Request \ {q} :
        /\ \A s \in StatementId : ~(HoldsStatement(q, s)' /\ HoldsStatement(r, s))
        /\ \A c \in Collection : ~(HoldsCollection(q, c)' /\ HoldsCollection(r, c))
        /\ ~(HoldsVendor(q)' /\ HoldsVendor(r))
  BY DEF Locked, lockSettlement, lockCollections, lockVendorCredit
<1>6. Locked'
  <2> SUFFICES ASSUME NEW r \in Request, NEW t \in Request, r # t
               PROVE  /\ \A s \in StatementId : ~(HoldsStatement(r, s)' /\ HoldsStatement(t, s)')
                      /\ \A c \in Collection : ~(HoldsCollection(r, c)' /\ HoldsCollection(t, c)')
                      /\ ~(HoldsVendor(r)' /\ HoldsVendor(t)')
    BY DEF Locked
  <2>1. CASE r = q BY <1>4, <1>5, <2>1
  <2>2. CASE t = q BY <1>4, <1>5, <2>2
  <2>3. CASE r # q /\ t # q BY <1>4, <2>3 DEF Locked
  <2> QED BY <2>1, <2>2, <2>3
<1> QED BY <1>2, <1>3, <1>6

(* A transaction ends, having changed only rows it held and rows it inserts. *)
Closes(q) ==
  /\ job' = [job EXCEPT ![q] = NoJob]
  /\ stmt' \in [StatementId -> Row] /\ receipts' \in [StatementId -> Nat]
  /\ marked' \in [Leg -> SUBSET Collection]
  /\ claim' \in [Claim -> {"pending", "verified", "rejected"}]
  /\ \A s \in StatementId :
       /\ stmt'[s] = stmt[s] \/ HoldsStatement(q, s) \/ stmt[s].status = "none"
       /\ stmt[s].status # "none" => stmt'[s].status # "none" /\ stmt'[s].leg = stmt[s].leg
       /\ AddsUp(stmt'[s], receipts'[s])
       /\ stmt[s].status \in {"partially_paid", "settled"} => stmt'[s].items = stmt[s].items

LEMMA CloseKeeps ==
  ASSUME Inv, NEW q \in Request, Closes(q)
  PROVE  Inv'
<1> USE DEF Inv
<1>1. job'[q] = NoJob /\ (\A r \in Request \ {q} : job'[r] = job[r]) /\ job' \in [Request -> Job]
  BY NoJobIdles DEF Closes, Typed
<1>2. Typed' /\ StatementsAddUp'
  BY <1>1 DEF Closes, Typed, StatementsAddUp
<1>3. \A r \in Request \ {q} :
        /\ \A s \in StatementId : HoldsStatement(r, s)' <=> HoldsStatement(r, s)
        /\ \A c \in Collection : HoldsCollection(r, c)' <=> HoldsCollection(r, c)
        /\ HoldsVendor(r)' <=> HoldsVendor(r)
  BY <1>1 DEF HoldsStatement, HoldsCollection, HoldsVendor, Working
<1>4. /\ \A s \in StatementId : ~HoldsStatement(q, s)'
      /\ \A c \in Collection : ~HoldsCollection(q, c)'
      /\ ~HoldsVendor(q)'
  BY <1>1, NoJobIdles DEF HoldsStatement, HoldsCollection, HoldsVendor, Working
<1>5. Locked'
  <2> SUFFICES ASSUME NEW r \in Request, NEW t \in Request, r # t
               PROVE  /\ \A s \in StatementId : ~(HoldsStatement(r, s)' /\ HoldsStatement(t, s)')
                      /\ \A c \in Collection : ~(HoldsCollection(r, c)' /\ HoldsCollection(t, c)')
                      /\ ~(HoldsVendor(r)' /\ HoldsVendor(t)')
    BY DEF Locked
  <2>1. CASE r = q BY <1>4, <2>1
  <2>2. CASE t = q BY <1>4, <2>2
  <2>3. CASE r # q /\ t # q BY <1>3, <2>3 DEF Locked
  <2> QED BY <2>1, <2>2, <2>3
<1>6. ASSUME NEW r \in Request PROVE Current(job[r])'
  <2>1. CASE r = q
    BY <1>1, <2>1, NoJobIdles DEF Current
  <2>2. CASE r # q
    <3>1. job'[r] = job[r] /\ Current(job[r]) /\ job[r] \in Job
      BY <1>1, <2>2 DEF ReadsCurrent, Typed
    <3>2. ASSUME NEW s \in StatementId, HoldsStatement(r, s), stmt[s].status # "none"
          PROVE  stmt'[s] = stmt[s]
      <4>1. ~HoldsStatement(q, s)
        BY <2>2, <3>2 DEF Locked
      <4> QED BY <3>2, <4>1 DEF Closes
    <3>3. CASE job[r].op \in {"none", "create"}
      BY <3>1, <3>3 DEF Current
    <3>4. CASE job[r].op \in {"pay", "edit", "revert", "cancel"}
      <4>1. job[r].id \in StatementId
        BY <3>1, <3>4, Kinds DEF Paying, Editing, Undoing
      <4>2. HoldsStatement(r, job[r].id) /\ stmt[job[r].id].status # "none"
        BY <3>1, <3>4 DEF HoldsStatement, Working, Current
      <4>3. stmt'[job[r].id] = stmt[job[r].id]
        BY <3>2, <4>1, <4>2
      <4> QED BY <3>1, <3>4, <4>3 DEF Current
    <3>5. CASE job[r].op = "apply"
      <4>1. job[r].left \subseteq StatementId /\ DOMAIN job[r].rows \subseteq StatementId
        BY <3>1, <3>5, Kinds DEF Applying, Rows
      <4>2. \A s \in DOMAIN job[r].rows : HoldsStatement(r, s)
        BY <3>5 DEF HoldsStatement, Working
      <4>3. \A s \in job[r].left \cup DOMAIN job[r].rows :
              stmt[s].status # "none" /\ stmt[s].leg = "vendor"
        BY <3>1, <3>5 DEF Current
      <4>4. \A s \in job[r].left \cup DOMAIN job[r].rows :
              stmt'[s].status # "none" /\ stmt'[s].leg = "vendor"
        BY <4>1, <4>3 DEF Closes
      <4>5. \A s \in DOMAIN job[r].rows : stmt'[s] = stmt[s]
        BY <3>2, <4>1, <4>2, <4>3
      <4>6. \A s \in DOMAIN job[r].rows : PaidDownTo(stmt'[s], job'[r].rows[s])
        BY <3>1, <3>5, <4>5 DEF Current
      <4> QED BY <3>1, <3>5, <4>4, <4>6 DEF Current
    <3> QED BY <3>1, <3>3, <3>4, <3>5, Kinds
  <2> QED BY <2>1, <2>2
<1>7. ReadsCurrent'
  BY <1>6 DEF ReadsCurrent
<1> QED BY <1>2, <1>5, <1>7

(* Every operation opens a transaction that holds what it needs. *)
LEMMA BeginCreateKeeps ==
  ASSUME Inv, NEW q \in Request, NEW leg \in Leg, NEW ids \in SUBSET Collection,
         BeginCreate(q, leg, ids), availableVendorCredit \in Nat
  PROVE  Inv'
<1>1. PICK j : j = [op |-> "create", leg |-> leg, items |-> ids,
                    credit |-> IF leg = "vendor" THEN availableVendorCredit ELSE 0]
  OBVIOUS
<1>2. j \in Creating /\ j.op = "create" /\ j.leg = leg /\ j.items = ids
  BY <1>1 DEF Creating
<1>3. /\ job' = [job EXCEPT ![q] = j] /\ UNCHANGED <<stmt, receipts, marked, claim>>
      /\ lockCollections(ids) /\ (leg = "vendor" => lockVendorCredit)
  BY <1>1 DEF BeginCreate, Begin
<1>4. job'[q] = j
  BY <1>3 DEF Inv, Typed
<1>5. /\ \A s \in StatementId : ~HoldsStatement(q, s)'
      /\ \A c \in Collection : HoldsCollection(q, c)' => lockCollections({c})
      /\ HoldsVendor(q)' => lockVendorCredit
  BY <1>2, <1>3, <1>4 DEF HoldsStatement, HoldsCollection, HoldsVendor, Working, lockCollections
<1>6. Current(j) /\ j \in Job
  BY <1>2 DEF Current, Job
<1> QED BY <1>3, <1>5, <1>6, OpenKeeps

(* A transaction on one statement. *)
LEMMA BeginOneKeeps ==
  ASSUME Inv, NEW q \in Request, NEW s \in StatementId, lockSettlement(s),
         NEW j \in Job, j.op \in {"pay", "edit", "revert", "cancel"}, j.id = s,
         Begin(q, j), Current(j)
  PROVE  Inv'
<1>1. job' = [job EXCEPT ![q] = j] /\ UNCHANGED <<stmt, receipts, marked, claim>> /\ job'[q] = j
  BY DEF Begin, Inv, Typed
<1>2. /\ \A t \in StatementId : HoldsStatement(q, t)' => lockSettlement(t)
      /\ \A c \in Collection : ~HoldsCollection(q, c)'
      /\ ~HoldsVendor(q)'
  BY <1>1 DEF HoldsStatement, HoldsCollection, HoldsVendor, Working
<1> QED BY <1>1, <1>2, OpenKeeps

LEMMA BeginPayKeeps ==
  ASSUME Inv, NEW q \in Request, NEW s \in StatementId, NEW amount \in Amounts(s),
         BeginPay(q, s, amount)
  PROVE  Inv'
<1>1. PICK j : j = [op |-> "pay", id |-> s, row |-> stmt[s], amount |-> amount]
  OBVIOUS
<1>2. stmt[s] \in Row /\ amount \in Nat
  BY DEF Inv, Typed, Amounts, Owing
<1>3. j \in Paying
  BY <1>1, <1>2 DEF Paying
<1>4. j \in Job /\ j.op = "pay" /\ j.id = s
  BY <1>1, <1>3 DEF Job
<1>5. Current(j)
  BY <1>1 DEF Current, BeginPay
<1>6. Begin(q, j) /\ lockSettlement(s)
  BY <1>1 DEF BeginPay
<1> QED BY <1>4, <1>5, <1>6, BeginOneKeeps

LEMMA BeginEditKeeps ==
  ASSUME Inv, NEW q \in Request, NEW s \in StatementId, NEW ids \in SUBSET Collection,
         BeginEdit(q, s, ids)
  PROVE  Inv'
<1>1. PICK j : j = [op |-> "edit", id |-> s, row |-> stmt[s], items |-> ids]
  OBVIOUS
<1>2. stmt[s] \in Row
  BY DEF Inv, Typed
<1>3. j \in Editing
  BY <1>1, <1>2 DEF Editing
<1>4. j \in Job /\ j.op = "edit" /\ j.id = s
  BY <1>1, <1>3 DEF Job
<1>5. Current(j)
  BY <1>1 DEF Current, BeginEdit
<1>6. Begin(q, j) /\ lockSettlement(s)
  BY <1>1 DEF BeginEdit
<1> QED BY <1>4, <1>5, <1>6, BeginOneKeeps

LEMMA BeginUndoKeeps ==
  ASSUME Inv, NEW q \in Request, NEW s \in StatementId, BeginRevert(q, s) \/ BeginCancel(q, s)
  PROVE  Inv'
<1>1. PICK op \in {"revert", "cancel"} :
        /\ op = "revert" => stmt[s].status \in {"settled", "partially_paid"}
        /\ op = "cancel" => stmt[s].status = "pending"
        /\ Begin(q, [op |-> op, id |-> s, row |-> stmt[s]]) /\ lockSettlement(s)
  BY DEF BeginRevert, BeginCancel
<1>2. PICK j : j = [op |-> op, id |-> s, row |-> stmt[s]]
  OBVIOUS
<1>3. stmt[s] \in Row
  BY DEF Inv, Typed
<1>4. j \in Undoing
  BY <1>2, <1>3 DEF Undoing
<1>5. j \in Job /\ j.op \in {"revert", "cancel"} /\ j.id = s
  BY <1>2, <1>4 DEF Job
<1>6. Current(j)
  BY <1>1, <1>2 DEF Current
<1> QED BY <1>1, <1>2, <1>5, <1>6, BeginOneKeeps

LEMMA CreditTypes ==
  ASSUME Typed
  PROVE  VerifiedPaid \in Nat /\ CreditApplied \in Nat /\ availableVendorCredit \in Nat
<1>1. PICK vs : vs = {v \in Claim : claim[v] = "verified"}
  OBVIOUS
<1>2. IsFiniteSet(vs) /\ \A v \in vs : ClaimAmount[v] \in Nat
  BY <1>1, SettlementAssumption, FS_Subset
<1>3. VerifiedPaid \in Nat
  BY <1>1, <1>2, SumIsNat DEF VerifiedPaid
<1>4. PICK ss, taken : /\ ss = {s \in StatementId : stmt[s].status # "cancelled"}
                       /\ taken = [s \in StatementId |-> stmt[s].credit]
  OBVIOUS
<1>5. IsFiniteSet(ss) /\ \A s \in ss : taken[s] \in Nat
  BY <1>4, SettlementAssumption, FS_Subset DEF Typed, Row
<1>6. CreditApplied \in Nat
  BY <1>4, <1>5, SumIsNat DEF CreditApplied
<1> QED BY <1>3, <1>6 DEF availableVendorCredit

LEMMA BeginApplyKeeps ==
  ASSUME Inv, NEW q \in Request, NEW v \in Claim, BeginApply(q, v)
  PROVE  Inv'
<1>1. PICK credit, left :
        /\ credit = IF VerifiedPaid + ClaimAmount[v] > CreditApplied
                    THEN VerifiedPaid + ClaimAmount[v] - CreditApplied ELSE 0
        /\ left = {s \in StatementId : Open(s)}
  OBVIOUS
<1>2. credit \in Nat
  BY <1>1, CreditTypes, SettlementAssumption DEF Inv
<1>3. PICK j : j = [op |-> "apply", claim |-> v, rows |-> <<>>, credit |-> credit, left |-> left]
  OBVIOUS
<1>4. <<>> \in Rows
  <2>1. <<>> \in [{} -> Row]
    OBVIOUS
  <2> QED BY <2>1 DEF Rows
<1>5. j \in Applying
  BY <1>1, <1>2, <1>3, <1>4 DEF Applying
<1>6. j \in Job /\ j.op = "apply" /\ j.left = left /\ DOMAIN j.rows = {}
  BY <1>3, <1>5 DEF Job
<1>7. Current(j)
  BY <1>1, <1>6 DEF Current, Open
<1>8. /\ job' = [job EXCEPT ![q] = j] /\ UNCHANGED <<stmt, receipts, marked, claim>>
      /\ job'[q] = j /\ lockVendorCredit
  BY <1>1, <1>3 DEF BeginApply, Begin, Inv, Typed
<1>9. /\ \A t \in StatementId : ~HoldsStatement(q, t)'
      /\ \A c \in Collection : ~HoldsCollection(q, c)'
  BY <1>6, <1>8 DEF HoldsStatement, HoldsCollection, Working
<1> QED BY <1>6, <1>7, <1>8, <1>9, OpenKeeps

(* One statement of the loop, paid down as far as the credit goes. *)
LEMMA PaysDown ==
  ASSUME NEW row \in Row, row.leg = "vendor", row.status \in {"pending", "partially_paid"},
         owedLeft(row) > 0, NEW credit \in Nat
  PROVE  /\ PaidDown(row, credit) \in Row
         /\ PaidDownTo(row, PaidDown(row, credit))
         /\ Least(credit, owedLeft(row)) \in Nat
         /\ credit - Least(credit, owedLeft(row)) \in Nat
         /\ PaidDown(row, credit).credit = row.credit + Least(credit, owedLeft(row))
<1>1. PICK n : n = Least(credit, owedLeft(row))
  OBVIOUS
<1>2. row.payable \in Int /\ row.paid \in Nat /\ row.credit \in Nat
  BY DEF Row
<1>3. owedLeft(row) \in Int
  BY <1>2 DEF owedLeft
<1>4. n \in Nat /\ n <= owedLeft(row) /\ credit - n \in Nat
  BY <1>1, <1>3 DEF Least
<1>5. PaidDown(row, credit) = [row EXCEPT !.payable = row.payable + n, !.credit = row.credit + n,
                                 !.status = IF n = owedLeft(row) THEN "settled" ELSE row.status]
  BY <1>1 DEF PaidDown
<1>6. row.payable + n \in Int /\ row.credit + n \in Nat
  BY <1>2, <1>4
<1>7. PaidDown(row, credit) \in Row /\ PaidDown(row, credit).credit = row.credit + n
  BY <1>5, <1>6 DEF Row
<1>8. PaidDownTo(row, PaidDown(row, credit))
  BY <1>4, <1>5 DEF PaidDownTo
<1> QED BY <1>1, <1>4, <1>7, <1>8

(* The rows of an apply, one more of them worked out. *)
LEMMA ApplyToStep ==
  ASSUME Inv, NEW q \in Request, NEW s \in StatementId, ApplyTo(q, s)
  PROVE  \E j \in Applying, row \in Row, credit \in Nat :
           /\ job' = [job EXCEPT ![q] = j]
           /\ j.op = "apply" /\ j.claim = job[q].claim /\ j.left = job[q].left \ {s}
           /\ DOMAIN j.rows = DOMAIN job[q].rows \cup {s}
           /\ j.rows[s] = row /\ \A t \in DOMAIN job[q].rows \ {s} : j.rows[t] = job[q].rows[t]
           /\ PaidDownTo(stmt[s], row) /\ j.credit = credit
           /\ credit + row.credit = job[q].credit + stmt[s].credit
<1> USE DEF Inv
<1>1. PICK j0 \in Applying : j0 = job[q] /\ s \in j0.left /\ j0.op = "apply"
  BY Kinds DEF ApplyTo, Working, Typed, Applying
<1>2. /\ j0.credit \in Nat /\ j0.left \in SUBSET StatementId /\ j0.claim \in Claim /\ j0.rows \in Rows
      /\ stmt[s] \in Row
  BY <1>1 DEF Applying, Typed
<1>3. PICK owes : owes = (Open(s) /\ owedLeft(stmt[s]) > 0)
  OBVIOUS
<1>4. PICK row, credit :
        /\ row = IF owes THEN PaidDown(stmt[s], j0.credit) ELSE stmt[s]
        /\ credit = IF owes THEN j0.credit - Least(j0.credit, owedLeft(stmt[s])) ELSE j0.credit
  OBVIOUS
<1>5. PICK rows : rows = [t \in DOMAIN j0.rows \cup {s} |-> IF t # s THEN j0.rows[t] ELSE row]
  OBVIOUS
<1>6. PICK j : j = [j0 EXCEPT !.left = j0.left \ {s}, !.rows = rows, !.credit = credit]
  OBVIOUS
<1>7. /\ row \in Row /\ credit \in Nat /\ PaidDownTo(stmt[s], row)
      /\ credit + row.credit = j0.credit + stmt[s].credit
  <2>1. CASE owes
    <3>1. /\ row \in Row /\ PaidDownTo(stmt[s], row) /\ Least(j0.credit, owedLeft(stmt[s])) \in Nat
          /\ credit \in Nat /\ row.credit = stmt[s].credit + Least(j0.credit, owedLeft(stmt[s]))
      BY <1>2, <1>3, <1>4, <2>1, PaysDown DEF Open
    <3>2. stmt[s].credit \in Nat /\ credit = j0.credit - Least(j0.credit, owedLeft(stmt[s]))
      BY <1>2, <1>4, <2>1 DEF Row
    <3> QED BY <1>2, <3>1, <3>2
  <2>2. CASE ~owes
    BY <1>2, <1>4, <2>2 DEF PaidDownTo, Row
  <2> QED BY <2>1, <2>2
<1>8. rows \in Rows
  <2>1. DOMAIN j0.rows \in SUBSET StatementId /\ \A t \in DOMAIN j0.rows : j0.rows[t] \in Row
    BY <1>2 DEF Rows
  <2>2. rows \in [DOMAIN j0.rows \cup {s} -> Row]
    BY <1>5, <1>7, <2>1
  <2>3. DOMAIN j0.rows \cup {s} \in SUBSET StatementId
    BY <2>1
  <2> QED BY <2>2, <2>3 DEF Rows
<1>9. j \in Applying
  BY <1>2, <1>6, <1>7, <1>8 DEF Applying
<1>10. job' = [job EXCEPT ![q] = j]
  BY <1>1, <1>3, <1>4, <1>5, <1>6 DEF ApplyTo
<1>11. /\ j.op = "apply" /\ j.claim = j0.claim /\ j.left = j0.left \ {s} /\ j.rows = rows
       /\ j.credit = credit
  BY <1>1, <1>6 DEF Applying
<1>12. DOMAIN rows = DOMAIN j0.rows \cup {s} /\ rows[s] = row
       /\ \A t \in DOMAIN j0.rows \ {s} : rows[t] = j0.rows[t]
  BY <1>5
<1> HIDE DEF Inv
<1>13. /\ j.claim = job[q].claim /\ j.left = job[q].left \ {s}
       /\ DOMAIN j.rows = DOMAIN job[q].rows \cup {s}
       /\ \A t \in DOMAIN job[q].rows \ {s} : j.rows[t] = job[q].rows[t]
       /\ j.credit + row.credit = job[q].credit + stmt[s].credit
  <2>1. DOMAIN j.rows = DOMAIN job[q].rows \cup {s}
    BY <1>1, <1>11, <1>12
  <2>2. \A t \in DOMAIN job[q].rows \ {s} : j.rows[t] = job[q].rows[t]
    BY <1>1, <1>11, <1>12
  <2>3. j.credit + row.credit = job[q].credit + stmt[s].credit
    BY <1>1, <1>7, <1>11
  <2> QED BY <1>1, <1>11, <2>1, <2>2, <2>3
<1>14. j.rows[s] = row
  BY <1>11, <1>12
<1> USE <1>7, <1>9
<1> WITNESS j \in Applying, row \in Row, credit \in Nat
<1> QED BY <1>7, <1>10, <1>11, <1>13, <1>14

LEMMA ApplyToKeeps ==
  ASSUME Inv, NEW q \in Request, NEW s \in StatementId, ApplyTo(q, s)
  PROVE  Inv'
<1>1. PICK j \in Applying, row \in Row :
           /\ job' = [job EXCEPT ![q] = j]
           /\ j.op = "apply" /\ j.left = job[q].left \ {s}
           /\ DOMAIN j.rows = DOMAIN job[q].rows \cup {s}
           /\ j.rows[s] = row /\ \A t \in DOMAIN job[q].rows \ {s} : j.rows[t] = job[q].rows[t]
           /\ PaidDownTo(stmt[s], row)
  BY ApplyToStep
<1>2. job[q].op = "apply" /\ s \in job[q].left /\ lockSettlement(s)
      /\ UNCHANGED <<stmt, receipts, marked, claim>>
  BY DEF ApplyTo, Working
<1>3. Current(job[q])
  BY DEF Inv, ReadsCurrent
<1>4. Current(j)
  BY <1>1, <1>2, <1>3 DEF Current
<1>5. j \in Job
  BY DEF Job
<1>6. job'[q] = j
  BY <1>1 DEF Inv, Typed
<1>7. \A t \in StatementId : HoldsStatement(q, t)' => HoldsStatement(q, t) \/ lockSettlement(t)
  BY <1>1, <1>2, <1>6 DEF HoldsStatement, Working
<1>8. (\A c \in Collection : ~HoldsCollection(q, c)') /\ HoldsVendor(q)
  BY <1>1, <1>2, <1>6 DEF HoldsCollection, HoldsVendor, Working
<1> QED BY <1>1, <1>2, <1>4, <1>5, <1>7, <1>8, OpenKeeps

-----------------------------------------------------------------------------
(* The commits.  What is committed comes from rows that still stand. *)
LEMMA CreateCloses ==
  ASSUME Inv, NEW q \in Request, NEW s \in StatementId, CommitCreate(q, s)
  PROVE  Closes(q)
<1> USE DEF Inv
<1>1. PICK j \in Creating : j = job[q]
  BY Kinds DEF CommitCreate, Working, Typed
<1>2. j.leg \in Leg /\ j.credit \in Nat /\ j.items \in SUBSET Collection
  BY <1>1 DEF Creating
<1>3. PICK new : new = [leg |-> j.leg, status |-> "pending", paid |-> 0, credit |-> j.credit,
        payable |-> ItemsPayable(j.leg, j.items) + j.credit, items |-> j.items]
  OBVIOUS
<1>4. ItemsPayable(j.leg, j.items) \in Int
  BY <1>2, ItemsPayableIsInt
<1>5. new \in Row
  BY <1>2, <1>3, <1>4 DEF Row
<1>6. /\ stmt' = [stmt EXCEPT ![s] = new] /\ stmt[s].status = "none"
      /\ job' = [job EXCEPT ![q] = NoJob] /\ UNCHANGED <<receipts, marked, claim>>
  BY <1>1, <1>3 DEF CommitCreate, End
<1>7. stmt' \in [StatementId -> Row] /\ stmt'[s] = new
      /\ \A t \in StatementId \ {s} : stmt'[t] = stmt[t]
  BY <1>5, <1>6 DEF Typed
<1>8. receipts[s] = 0
  BY <1>6 DEF StatementsAddUp, AddsUp, Absent
<1>9. AddsUp(new, 0)
  BY <1>3 DEF AddsUp
<1>10. ASSUME NEW t \in StatementId
       PROVE  /\ stmt'[t] = stmt[t] \/ stmt[t].status = "none"
              /\ stmt[t].status # "none" =>
                   stmt'[t].status # "none" /\ stmt'[t].leg = stmt[t].leg
              /\ AddsUp(stmt'[t], receipts'[t])
              /\ stmt[t].status \in {"partially_paid", "settled"} => stmt'[t].items = stmt[t].items
  <2>1. CASE t = s BY <1>6, <1>7, <1>8, <1>9, <2>1
  <2>2. CASE t # s BY <1>6, <1>7, <2>2 DEF StatementsAddUp
  <2> QED BY <2>1, <2>2
<1> QED BY <1>6, <1>7, <1>10 DEF Closes, Typed

(* A transaction that writes the one statement it holds. *)
LEMMA OneCloses ==
  ASSUME Inv, NEW q \in Request, NEW s \in StatementId, HoldsStatement(q, s),
         NEW new \in Row, stmt' = [stmt EXCEPT ![s] = new],
         NEW received \in Nat, receipts' = [receipts EXCEPT ![s] = received],
         job' = [job EXCEPT ![q] = NoJob], claim' = claim,
         marked' \in [Leg -> SUBSET Collection],
         stmt[s].status # "none", new.status # "none", new.leg = stmt[s].leg,
         AddsUp(new, received),
         stmt[s].status \in {"partially_paid", "settled"} => new.items = stmt[s].items
  PROVE  Closes(q)
<1>1. stmt' \in [StatementId -> Row] /\ stmt'[s] = new
      /\ \A t \in StatementId \ {s} : stmt'[t] = stmt[t]
  BY DEF Inv, Typed
<1>2. receipts' \in [StatementId -> Nat] /\ receipts'[s] = received
      /\ \A t \in StatementId \ {s} : receipts'[t] = receipts[t]
  BY DEF Inv, Typed
<1>3. ASSUME NEW t \in StatementId
      PROVE  /\ stmt'[t] = stmt[t] \/ HoldsStatement(q, t)
             /\ stmt[t].status # "none" =>
                  stmt'[t].status # "none" /\ stmt'[t].leg = stmt[t].leg
             /\ AddsUp(stmt'[t], receipts'[t])
             /\ stmt[t].status \in {"partially_paid", "settled"} => stmt'[t].items = stmt[t].items
  <2>1. CASE t = s BY <1>1, <1>2, <2>1
  <2>2. CASE t # s BY <1>1, <1>2, <2>2 DEF Inv, StatementsAddUp
  <2> QED BY <2>1, <2>2
<1>4. claim' \in [Claim -> {"pending", "verified", "rejected"}]
  BY DEF Inv, Typed
<1> QED BY <1>1, <1>2, <1>3, <1>4 DEF Closes

(* The row a transaction holds, and knows. *)
LEMMA HeldRow ==
  ASSUME Inv, NEW q \in Request, Working(q, {"pay", "edit", "revert", "cancel"})
  PROVE  /\ job[q].id \in StatementId /\ job[q].row = stmt[job[q].id] /\ job[q].row \in Row
         /\ HoldsStatement(q, job[q].id) /\ Current(job[q])
         /\ AddsUp(job[q].row, receipts[job[q].id]) /\ job[q].row.status # "none"
         /\ job[q].row.leg \in Leg
<1>1. job[q] \in Job /\ Current(job[q])
  BY DEF Inv, Typed, ReadsCurrent
<1>2. job[q].op \in {"pay", "edit", "revert", "cancel"}
  BY DEF Working
<1>3. job[q].id \in StatementId /\ job[q].row \in Row
  BY <1>1, <1>2, Kinds DEF Paying, Editing, Undoing
<1>4. job[q].row = stmt[job[q].id] /\ job[q].row.status # "none"
  BY <1>1, <1>2 DEF Current
<1> QED BY <1>1, <1>2, <1>3, <1>4 DEF Inv, StatementsAddUp, HoldsStatement, Working, Row

LEMMA PayCloses ==
  ASSUME Inv, NEW q \in Request, CommitPay(q)
  PROVE  Closes(q)
<1>1. PICK s \in StatementId, row \in Row, amount \in Nat :
        /\ s = job[q].id /\ row = job[q].row /\ amount = job[q].amount /\ row = stmt[s]
        /\ HoldsStatement(q, s) /\ AddsUp(row, receipts[s]) /\ row.leg \in Leg
        /\ row.status \in {"pending", "partially_paid"}
        /\ amount > 0 \/ row.payable = 0
        /\ amount <= Owing(row)
  <2>1. Working(q, {"pay"})
    BY DEF CommitPay
  <2>2. job[q] \in Paying
    BY <2>1, Kinds DEF Working, Inv, Typed
  <2> QED BY <2>1, <2>2, HeldRow DEF Working, Current, Paying
<1>2. row.payable \in Int /\ row.paid \in Nat
  BY DEF Row
<1>3. PICK paid \in Nat : paid = row.paid + amount
  BY <1>2
<1>4. PICK new : new = [row EXCEPT !.paid = paid,
                                   !.status = IF Abs(row.payable) = paid THEN "settled" ELSE "partially_paid"]
  OBVIOUS
<1>5. new \in Row /\ new.leg = row.leg /\ new.items = row.items
      /\ new.status = (IF Abs(row.payable) = paid THEN "settled" ELSE "partially_paid")
      /\ new.paid = paid /\ new.payable = row.payable /\ new.credit = row.credit
  BY <1>3, <1>4 DEF Row
<1>6. stmt' = [stmt EXCEPT ![s] = new]
  BY <1>1, <1>3, <1>4 DEF CommitPay, Inv, Typed
<1>7. receipts[s] = row.paid /\ receipts' = [receipts EXCEPT ![s] = paid]
  BY <1>1, <1>3 DEF CommitPay, AddsUp
<1>8. marked' \in [Leg -> SUBSET Collection]
  BY <1>1 DEF CommitPay, Inv, Typed, Row
<1>9. ASSUME Abs(row.payable) # paid PROVE paid \in 1 .. Abs(row.payable) - 1
  <2>0. Abs(row.payable) \in Nat
    BY <1>2 DEF Abs
  <2>1. paid <= Abs(row.payable) /\ paid # Abs(row.payable) /\ Abs(row.payable) \in Nat
    BY <1>1, <1>2, <1>3, <1>9, <2>0 DEF Owing
  <2>2. row.payable # 0
    BY <1>2, <1>3, <2>1 DEF Abs
  <2>3. amount > 0
    BY <1>1, <2>2
  <2>4. paid >= 1
    BY <1>2, <1>3, <2>3
  <2> QED BY <2>1, <2>4
<1>10. AddsUp(new, paid)
  BY <1>1, <1>3, <1>5, <1>9 DEF AddsUp
<1>11. job' = [job EXCEPT ![q] = NoJob] /\ claim' = claim
  BY DEF CommitPay, End
<1> QED BY <1>1, <1>3, <1>5, <1>6, <1>7, <1>8, <1>10, <1>11, OneCloses

LEMMA EditCloses ==
  ASSUME Inv, NEW q \in Request, CommitEdit(q)
  PROVE  Closes(q)
<1>1. PICK s \in StatementId, row \in Row, ids \in SUBSET Collection :
        /\ s = job[q].id /\ row = job[q].row /\ ids = job[q].items /\ row = stmt[s]
        /\ HoldsStatement(q, s) /\ AddsUp(row, receipts[s]) /\ row.leg \in Leg
        /\ row.status = "pending"
  <2>1. Working(q, {"edit"})
    BY DEF CommitEdit
  <2>2. job[q] \in Editing
    BY <2>1, Kinds DEF Working, Inv, Typed
  <2> QED BY <2>1, <2>2, HeldRow DEF Working, Current, Editing
<1>2. PICK owed \in Int : owed = ItemsPayable(row.leg, ids)
  BY ItemsPayableIsInt
<1>3. row.credit \in Nat /\ row.paid = 0 /\ receipts[s] = 0 /\ owed + row.credit \in Int
  BY <1>1 DEF Row, AddsUp
<1>4. PICK new : new = [row EXCEPT !.items = ids, !.payable = owed + row.credit]
  OBVIOUS
<1>5. new \in Row /\ new.leg = row.leg /\ new.items = ids /\ new.status = "pending"
      /\ new.paid = 0 /\ new.payable = owed + row.credit /\ new.credit = row.credit
  BY <1>1, <1>2, <1>3, <1>4 DEF Row
<1>6. stmt' = [stmt EXCEPT ![s] = new]
  BY <1>1, <1>2, <1>4 DEF CommitEdit, Inv, Typed
<1>7. receipts' = [receipts EXCEPT ![s] = 0]
  BY <1>3 DEF CommitEdit, Inv, Typed
<1>8. marked' \in [Leg -> SUBSET Collection]
  BY <1>1 DEF CommitEdit, Inv, Typed, Row
<1>9. AddsUp(new, 0)
  BY <1>2, <1>5 DEF AddsUp
<1>10. job' = [job EXCEPT ![q] = NoJob] /\ claim' = claim
  BY DEF CommitEdit, End
<1>11. /\ stmt[s].status # "none" /\ new.status # "none" /\ new.leg = stmt[s].leg
       /\ stmt[s].status \in {"partially_paid", "settled"} => new.items = stmt[s].items
  BY <1>1, <1>5
<1>12. new \in Row /\ HoldsStatement(q, s)
  BY <1>1, <1>5
<1> QED BY <1>6, <1>7, <1>8, <1>9, <1>10, <1>11, <1>12, OneCloses

LEMMA RevertCloses ==
  ASSUME Inv, NEW q \in Request, CommitRevert(q)
  PROVE  Closes(q)
<1>1. PICK s \in StatementId, row \in Row :
        /\ s = job[q].id /\ row = job[q].row /\ row = stmt[s]
        /\ HoldsStatement(q, s) /\ AddsUp(row, receipts[s]) /\ row.leg \in Leg
        /\ row.status \in {"settled", "partially_paid"}
  <2>1. Working(q, {"revert"})
    BY DEF CommitRevert
  <2> QED BY <2>1, HeldRow DEF Working, Current
<1>2. PICK new : new = [row EXCEPT !.status = "pending", !.paid = 0]
  OBVIOUS
<1>3. new \in Row /\ new.leg = row.leg /\ new.items = row.items /\ new.status = "pending"
      /\ new.paid = 0 /\ new.payable = row.payable /\ new.credit = row.credit
  BY <1>2 DEF Row
<1>4. stmt' = [stmt EXCEPT ![s] = new] /\ receipts' = [receipts EXCEPT ![s] = 0]
  BY <1>1, <1>2 DEF CommitRevert, Inv, Typed
<1>5. marked' \in [Leg -> SUBSET Collection]
  BY <1>1 DEF CommitRevert, Inv, Typed
<1>6. AddsUp(new, 0)
  BY <1>1, <1>3 DEF AddsUp
<1>7. job' = [job EXCEPT ![q] = NoJob] /\ claim' = claim
  BY DEF CommitRevert, End
<1>8. /\ stmt[s].status # "none" /\ new.status # "none" /\ new.leg = stmt[s].leg
      /\ stmt[s].status \in {"partially_paid", "settled"} => new.items = stmt[s].items
  BY <1>1, <1>3
<1>9. new \in Row /\ HoldsStatement(q, s)
  BY <1>1, <1>3
<1> QED BY <1>4, <1>5, <1>6, <1>7, <1>8, <1>9, OneCloses

LEMMA CancelCloses ==
  ASSUME Inv, NEW q \in Request, CommitCancel(q)
  PROVE  Closes(q)
<1>1. PICK s \in StatementId, row \in Row :
        /\ s = job[q].id /\ row = stmt[s]
        /\ HoldsStatement(q, s) /\ AddsUp(row, receipts[s]) /\ row.status = "pending"
  <2>1. Working(q, {"cancel"})
    BY DEF CommitCancel
  <2> QED BY <2>1, HeldRow DEF Working, Current
<1>2. PICK new : new = [row EXCEPT !.status = "cancelled", !.items = {}]
  OBVIOUS
<1>3. new \in Row /\ new.leg = row.leg /\ new.status = "cancelled" /\ new.paid = row.paid
  BY <1>2 DEF Row
<1>4. stmt' = [stmt EXCEPT ![s] = new] /\ receipts' = [receipts EXCEPT ![s] = 0]
  BY <1>1, <1>2 DEF CommitCancel, AddsUp, Inv, Typed
<1>5. AddsUp(new, 0)
  BY <1>1, <1>3 DEF AddsUp
<1>6. /\ job' = [job EXCEPT ![q] = NoJob] /\ claim' = claim
      /\ marked' \in [Leg -> SUBSET Collection]
  BY DEF CommitCancel, End, Inv, Typed
<1> QED BY <1>1, <1>3, <1>4, <1>5, <1>6, OneCloses

(* A statement paid down still adds up. *)
LEMMA PaidDownAddsUp ==
  ASSUME NEW old \in Row, NEW new \in Row, NEW received, AddsUp(old, received),
         PaidDownTo(old, new)
  PROVE  /\ AddsUp(new, received) /\ new.items = old.items /\ new.leg = old.leg
         /\ new.status = "none" <=> old.status = "none"
         /\ new.status = "cancelled" <=> old.status = "cancelled"
         /\ new.status # old.status => new.status = "settled"
         /\ old.status \in {"none", "settled", "cancelled"} => new = old
<1>1. CASE new = old
  BY <1>1
<1>2. CASE new # old
  <2>1. PICK n \in Nat :
          /\ n <= owedLeft(old) /\ 0 < owedLeft(old)
          /\ new = [old EXCEPT !.payable = old.payable + n, !.credit = old.credit + n,
                               !.status = IF n = owedLeft(old) THEN "settled" ELSE old.status]
          /\ old.status \in {"pending", "partially_paid"}
    BY <1>2 DEF PaidDownTo
  <2>2. /\ new.payable = old.payable + n /\ new.credit = old.credit + n
        /\ new.status = (IF n = owedLeft(old) THEN "settled" ELSE old.status)
        /\ new.paid = old.paid /\ new.items = old.items /\ new.leg = old.leg
    BY <2>1 DEF Row
  <2>3. old.payable \in Int /\ old.credit \in Nat /\ old.paid \in Nat
    BY DEF Row
  <2>4. new.payable <= 0 /\ Abs(new.payable) = owedLeft(old) - n + old.paid
    BY <2>1, <2>2, <2>3 DEF owedLeft, Abs
  <2>5. old.payable = ItemsPayable(old.leg, old.items) + old.credit
    BY <2>1 DEF AddsUp
  <2>6. ItemsPayable(old.leg, old.items) \in Int
    BY ItemsPayableIsInt DEF Row
  <2>7. new.payable = ItemsPayable(new.leg, new.items) + new.credit
    BY <2>2, <2>3, <2>5, <2>6
  <2>8. CASE n = owedLeft(old)
    <3>1. new.paid = Abs(new.payable) /\ new.status = "settled"
      BY <2>1, <2>2, <2>3, <2>4, <2>8
    <3> QED BY <2>1, <2>2, <2>7, <3>1 DEF AddsUp
  <2>9. CASE n # owedLeft(old)
    <3>1. owedLeft(old) \in Int
      BY <2>3 DEF owedLeft
    <3>2. old.paid <= Abs(new.payable) - 1 /\ Abs(new.payable) \in Int
      BY <2>1, <2>3, <2>4, <2>9, <3>1
    <3>3. old.status = "partially_paid" => old.paid >= 1
      BY <2>3 DEF AddsUp, Abs
    <3>4. new.status = old.status
      BY <2>2, <2>9
    <3>5. new.status = "partially_paid" => new.paid \in 1 .. Abs(new.payable) - 1
      BY <2>2, <2>3, <3>2, <3>3, <3>4
    <3> QED BY <2>1, <2>2, <2>7, <3>4, <3>5 DEF AddsUp
  <2> QED BY <2>8, <2>9
<1> QED BY <1>1, <1>2

LEMMA ApplyCloses ==
  ASSUME Inv, NEW q \in Request, CommitApply(q)
  PROVE  Closes(q)
<1>1. PICK j \in Applying : j = job[q] /\ j.op = "apply" /\ Current(j)
  BY Kinds DEF CommitApply, Working, Inv, Typed, ReadsCurrent
<1>2. /\ DOMAIN j.rows \in SUBSET StatementId /\ \A s \in DOMAIN j.rows : j.rows[s] \in Row
      /\ j.claim \in Claim
  BY DEF Applying, Rows
<1>3. /\ stmt' = [s \in StatementId |-> IF s \in DOMAIN j.rows THEN j.rows[s] ELSE stmt[s]]
      /\ job' = [job EXCEPT ![q] = NoJob] /\ receipts' = receipts
      /\ claim' = [claim EXCEPT ![j.claim] = "verified"]
  BY <1>1 DEF CommitApply, End
<1>4. claim' \in [Claim -> {"pending", "verified", "rejected"}]
  BY <1>2, <1>3 DEF Inv, Typed
<1>5. stmt' \in [StatementId -> Row]
  BY <1>2, <1>3 DEF Inv, Typed
<1>6. marked' \in [Leg -> SUBSET Collection]
  <2>1. UNION {j.rows[s].items : s \in {t \in DOMAIN j.rows : j.rows[t].status = "settled"
                                          /\ stmt[t].status # "settled"}} \in SUBSET Collection
    BY <1>2 DEF Row
  <2> QED BY <1>1, <2>1 DEF CommitApply, Inv, Typed
<1>7. ASSUME NEW t \in StatementId
      PROVE  /\ stmt'[t] = stmt[t] \/ HoldsStatement(q, t)
             /\ stmt[t].status # "none" =>
                  stmt'[t].status # "none" /\ stmt'[t].leg = stmt[t].leg
             /\ AddsUp(stmt'[t], receipts'[t])
             /\ stmt[t].status \in {"partially_paid", "settled"} => stmt'[t].items = stmt[t].items
  <2>1. CASE t \in DOMAIN j.rows
    <3>1. stmt'[t] = j.rows[t] /\ PaidDownTo(stmt[t], j.rows[t]) /\ j.rows[t] \in Row
      BY <1>1, <1>2, <1>3, <2>1 DEF Current
    <3>2. stmt[t] \in Row /\ AddsUp(stmt[t], receipts[t])
      BY DEF Inv, Typed, StatementsAddUp
    <3>3. HoldsStatement(q, t)
      BY <1>1, <2>1 DEF HoldsStatement, Working
    <3> QED BY <1>3, <3>1, <3>2, <3>3, PaidDownAddsUp
  <2>2. CASE t \notin DOMAIN j.rows
    BY <1>3, <2>2 DEF Inv, StatementsAddUp
  <2> QED BY <2>1, <2>2
<1> QED BY <1>3, <1>4, <1>5, <1>6, <1>7, SettlementAssumption DEF Closes, Inv, Typed

LEMMA CommitCloses ==
  ASSUME Inv, NEW q \in Request, Commit(q)
  PROVE  Closes(q)
BY CreateCloses, PayCloses, EditCloses, RevertCloses, CancelCloses, ApplyCloses DEF Commit

LEMMA RollbackCloses ==
  ASSUME Inv, NEW q \in Request, Rollback(q)
  PROVE  Closes(q)
BY DEF Rollback, End, Closes, Inv, Typed, StatementsAddUp

LEMMA QuietKeeps ==
  ASSUME Inv, UNCHANGED <<stmt, receipts, marked, job>>,
         claim' \in [Claim -> {"pending", "verified", "rejected"}]
  PROVE  Inv'
BY DEF Inv, Typed, Locked, ReadsCurrent, StatementsAddUp, HoldsStatement, HoldsCollection,
       HoldsVendor, Working, Current

LEMMA NextKeeps ==
  ASSUME Inv, [Next]_vars
  PROVE  Inv'
<1>1. ASSUME NEW q \in Request, NEW leg \in Leg, NEW ids \in SUBSET Collection,
             BeginCreate(q, leg, ids)
      PROVE  Inv'
  BY <1>1, BeginCreateKeeps, CreditTypes DEF Inv
<1>2. ASSUME NEW q \in Request, NEW s \in StatementId,
             \/ \E amount \in Amounts(s) : BeginPay(q, s, amount)
             \/ \E ids \in SUBSET Collection : BeginEdit(q, s, ids)
             \/ BeginRevert(q, s) \/ BeginCancel(q, s) \/ ApplyTo(q, s)
      PROVE  Inv'
  BY <1>2, BeginPayKeeps, BeginEditKeeps, BeginUndoKeeps, ApplyToKeeps
<1>3. ASSUME NEW q \in Request, NEW v \in Claim, BeginApply(q, v)
      PROVE  Inv'
  BY <1>3, BeginApplyKeeps
<1>4. ASSUME NEW q \in Request, Commit(q) \/ Rollback(q)
      PROVE  Inv'
  BY <1>4, CommitCloses, RollbackCloses, CloseKeeps
<1>5. ASSUME NEW v \in Claim, Reject(v)
      PROVE  Inv'
  BY <1>5, QuietKeeps DEF Reject, Inv, Typed
<1>6. ASSUME UNCHANGED vars
      PROVE  Inv'
  BY <1>6, QuietKeeps DEF vars, Inv, Typed
<1> QED BY <1>1, <1>2, <1>3, <1>4, <1>5, <1>6 DEF Next

LEMMA InitHolds ==
  ASSUME Init
  PROVE  Inv
<1>1. \A s \in StatementId : stmt[s] = Absent /\ receipts[s] = 0
  BY DEF Init
<1>2. Absent \in Row /\ AddsUp(Absent, 0)
  BY DEF Absent, Row, Leg, AddsUp
<1>3. Typed
  BY <1>2, NoJobIdles DEF Init, Typed
<1>4. \A q \in Request : job[q].op = "none"
  BY NoJobIdles DEF Init
<1>5. Locked /\ ReadsCurrent
  BY <1>4 DEF Locked, ReadsCurrent, Current, HoldsStatement, HoldsCollection, HoldsVendor, Working
<1>6. StatementsAddUp
  BY <1>1, <1>2 DEF StatementsAddUp
<1> QED BY <1>3, <1>5, <1>6 DEF Inv

LEMMA Invariance == Spec => []Inv
<1>1. Init => Inv
  BY InitHolds
<1>2. Inv /\ [Next]_vars => Inv'
  BY NextKeeps
<1> QED BY <1>1, <1>2, PTL DEF Spec

-----------------------------------------------------------------------------
(* Credit: what live statements have absorbed, and will have when the apply j
   commits. *)
Kept == {s \in StatementId : stmt[s].status # "cancelled"}
Absorbed == [s \in StatementId |-> stmt[s].credit]
AbsorbedAfter(j) ==
  [s \in StatementId |-> IF s \in DOMAIN j.rows THEN j.rows[s].credit ELSE stmt[s].credit]
CreditAfter(j) == SumFunctionOnSet(AbsorbedAfter(j), Kept)

(* The credit a transaction is about to hand out is there. *)
Funded(j) ==
  /\ j.op = "create" => IF j.leg = "vendor" THEN j.credit + CreditApplied <= VerifiedPaid
                                            ELSE j.credit = 0
  /\ j.op = "apply" => /\ claim[j.claim] = "pending" /\ j.left \cap DOMAIN j.rows = {}
                       /\ j.credit + CreditAfter(j) <= VerifiedPaid + ClaimAmount[j.claim]

CreditInv == CreditSpentOnce /\ \A q \in Request : Funded(job[q])

LEMMA KeptFacts ==
  ASSUME Typed
  PROVE  /\ IsFiniteSet(Kept) /\ Kept \subseteq StatementId
         /\ \A s \in Kept : Absorbed[s] \in Nat
         /\ CreditApplied = SumFunctionOnSet(Absorbed, Kept)
         /\ CreditApplied \in Nat /\ VerifiedPaid \in Nat
<1>1. IsFiniteSet(Kept) /\ Kept \subseteq StatementId
  BY SettlementAssumption, FS_Subset DEF Kept
<1>2. \A s \in Kept : Absorbed[s] \in Nat
  BY <1>1 DEF Absorbed, Typed, Row
<1>3. CreditApplied = SumFunctionOnSet(Absorbed, Kept)
  BY DEF CreditApplied, Absorbed, Kept
<1> QED BY <1>1, <1>2, <1>3, CreditTypes

LEMMA AfterFacts ==
  ASSUME Typed, NEW j \in Applying
  PROVE  /\ \A s \in Kept : AbsorbedAfter(j)[s] \in Nat
         /\ CreditAfter(j) \in Nat
<1>1. \A s \in DOMAIN j.rows : j.rows[s] \in Row
  BY DEF Applying, Rows
<1>2. \A s \in Kept : AbsorbedAfter(j)[s] \in Nat
  BY <1>1, KeptFacts DEF AbsorbedAfter, Typed, Row
<1> QED BY <1>2, KeptFacts, SumIsNat DEF CreditAfter

LEMMA CreditTypesNext ==
  ASSUME Typed'
  PROVE  /\ CreditApplied' \in Nat /\ IsFiniteSet(Kept') /\ Kept' \subseteq StatementId
         /\ CreditApplied' = SumFunctionOnSet(Absorbed', Kept')
         /\ \A s \in StatementId : Absorbed'[s] = stmt'[s].credit /\ stmt'[s].credit \in Nat
         /\ \A j \in Applying : CreditAfter(j)' \in Nat
<1>1. IsFiniteSet(Kept') /\ Kept' \subseteq StatementId
  BY SettlementAssumption, FS_Subset DEF Kept
<1>2. \A s \in StatementId : Absorbed'[s] = stmt'[s].credit /\ stmt'[s].credit \in Nat
  BY DEF Absorbed, Typed, Row
<1>3. CreditApplied' = SumFunctionOnSet(Absorbed', Kept')
  BY DEF CreditApplied, Absorbed, Kept
<1>4. CreditApplied' \in Nat
  BY <1>1, <1>2, <1>3, SumIsNat
<1>5. ASSUME NEW j \in Applying PROVE CreditAfter(j)' \in Nat
  <2>1. PICK f : f = AbsorbedAfter(j)'
    OBVIOUS
  <2>2. \A s \in DOMAIN j.rows : j.rows[s] \in Row
    BY DEF Applying, Rows
  <2>3. \A s \in Kept' : f[s] \in Nat
    BY <1>1, <1>2, <2>1, <2>2 DEF AbsorbedAfter, Row
  <2>4. SumFunctionOnSet(f, Kept') \in Nat
    BY <1>1, <2>3, SumIsNat
  <2> QED BY <2>1, <2>4 DEF CreditAfter
<1> QED BY <1>1, <1>2, <1>3, <1>4, <1>5

(* Credit that stays where it is: what was handed out only goes back. *)
LEMMA CreditReturns ==
  ASSUME Typed, Typed', claim' = claim,
         \A s \in StatementId : stmt'[s].credit = stmt[s].credit,
         Kept' \subseteq Kept
  PROVE  /\ CreditApplied' <= CreditApplied /\ VerifiedPaid' = VerifiedPaid
         /\ \A j \in Applying : CreditAfter(j)' <= CreditAfter(j)
<1>1. VerifiedPaid' = VerifiedPaid
  BY DEF VerifiedPaid
<1>2. Absorbed' = Absorbed
  BY DEF Absorbed
<1>3. CreditApplied' = SumFunctionOnSet(Absorbed', Kept')
  BY DEF CreditApplied, Absorbed, Kept
<1>4. CreditApplied' <= CreditApplied
  BY <1>2, <1>3, KeptFacts, SumPart
<1>5. ASSUME NEW j \in Applying PROVE CreditAfter(j)' <= CreditAfter(j)
  <2>1. AbsorbedAfter(j)' = AbsorbedAfter(j)
    BY DEF AbsorbedAfter
  <2>2. CreditAfter(j)' = SumFunctionOnSet(AbsorbedAfter(j), Kept')
    BY <2>1 DEF CreditAfter
  <2>3. SumFunctionOnSet(AbsorbedAfter(j), Kept') <= SumFunctionOnSet(AbsorbedAfter(j), Kept)
    BY AfterFacts, KeptFacts, SumPart
  <2> QED BY <2>2, <2>3 DEF CreditAfter
<1> QED BY <1>1, <1>4, <1>5

LEMMA FundedStays ==
  ASSUME Typed, Typed', NEW j \in Job, Funded(j), claim' = claim,
         CreditApplied' <= CreditApplied, VerifiedPaid' = VerifiedPaid,
         \A k \in Applying : CreditAfter(k)' <= CreditAfter(k)
  PROVE  Funded(j)'
<1>1. CASE j.op = "create"
  <2>1. j.credit \in Nat /\ CreditApplied \in Nat /\ CreditApplied' \in Nat /\ VerifiedPaid \in Nat
    BY <1>1, Kinds, KeptFacts, CreditTypesNext DEF Creating
  <2>2. j.leg = "vendor" => j.credit + CreditApplied <= VerifiedPaid
    BY <1>1 DEF Funded
  <2>3. j.leg = "vendor" => j.credit + CreditApplied' <= VerifiedPaid'
    BY <2>1, <2>2
  <2> QED BY <1>1, <2>3 DEF Funded
<1>2. CASE j.op = "apply"
  <2>1. j \in Applying /\ j.credit \in Nat /\ j.claim \in Claim /\ ClaimAmount[j.claim] \in Nat
    BY <1>2, Kinds, SettlementAssumption DEF Applying
  <2>2. CreditAfter(j) \in Nat /\ CreditAfter(j)' <= CreditAfter(j) /\ VerifiedPaid \in Nat
    BY <2>1, AfterFacts, KeptFacts
  <2>3. CreditAfter(j)' \in Nat
    BY <2>1, CreditTypesNext
  <2>4. j.credit + CreditAfter(j) <= VerifiedPaid + ClaimAmount[j.claim]
    BY <1>2 DEF Funded
  <2>5. j.credit + CreditAfter(j)' <= VerifiedPaid' + ClaimAmount[j.claim]
    BY <2>1, <2>2, <2>3, <2>4
  <2> QED BY <1>2, <2>5 DEF Funded
<1>3. CASE j.op \notin {"create", "apply"}
  BY <1>3 DEF Funded
<1> QED BY <1>1, <1>2, <1>3

(* Every commit that hands out no credit. *)
LEMMA ReturnKeeps ==
  ASSUME Typed, Typed', CreditInv, claim' = claim, NEW q \in Request,
         \A r \in Request \ {q} : job'[r] = job[r], Funded(job[q])',
         \A s \in StatementId : stmt'[s].credit = stmt[s].credit,
         Kept' \subseteq Kept
  PROVE  CreditInv'
<1>1. /\ CreditApplied' <= CreditApplied /\ VerifiedPaid' = VerifiedPaid
      /\ \A j \in Applying : CreditAfter(j)' <= CreditAfter(j)
  BY CreditReturns
<1>2. CreditSpentOnce'
  BY <1>1, KeptFacts, CreditTypesNext DEF CreditInv, CreditSpentOnce
<1>3. ASSUME NEW r \in Request PROVE Funded(job[r])'
  <2>1. CASE r = q
    BY <2>1
  <2>2. CASE r # q
    <3>1. PICK j \in Job : j = job[r] /\ j = job'[r]
      BY <2>2 DEF Typed
    <3>2. Funded(j)
      BY <3>1 DEF CreditInv
    <3>3. Funded(j)'
      BY <1>1, <3>2, FundedStays
    <3> QED BY <3>1, <3>3 DEF Funded
  <2> QED BY <2>1, <2>2
<1> QED BY <1>2, <1>3 DEF CreditInv

(* The commits that hand out no credit. *)
LEMMA OthersReturn ==
  ASSUME Inv, Inv', CreditInv, NEW q \in Request,
         \/ CommitPay(q) \/ CommitEdit(q) \/ CommitRevert(q) \/ CommitCancel(q)
         \/ Rollback(q)
  PROVE  CreditInv'
<1>1. Typed /\ Typed'
  BY DEF Inv
<1>2. job' = [job EXCEPT ![q] = NoJob] /\ claim' = claim
  BY DEF CommitPay, CommitEdit, CommitRevert, CommitCancel, Rollback, End
<1>3. job'[q] = NoJob /\ \A r \in Request \ {q} : job'[r] = job[r]
  BY <1>1, <1>2 DEF Typed
<1>4. Funded(job[q])'
  BY <1>3, NoJobIdles DEF Funded
<1>5. CASE Rollback(q)
  <2>1. stmt' = stmt
    BY <1>5 DEF Rollback
  <2>2. Kept' \subseteq Kept
    BY <2>1 DEF Kept
  <2> QED BY <1>1, <1>2, <1>3, <1>4, <2>1, <2>2, ReturnKeeps
<1>6. CASE CommitPay(q) \/ CommitEdit(q) \/ CommitRevert(q) \/ CommitCancel(q)
  <2>1. PICK s \in StatementId, row \in Row :
          s = job[q].id /\ row = job[q].row /\ row = stmt[s] /\ Current(job[q])
    <3>1. Working(q, {"pay", "edit", "revert", "cancel"})
      BY <1>6 DEF CommitPay, CommitEdit, CommitRevert, CommitCancel, Working
    <3> QED BY <3>1, HeldRow
  <2>2. \A t \in StatementId \ {s} : stmt'[t] = stmt[t]
    BY <1>1, <1>6, <2>1 DEF CommitPay, CommitEdit, CommitRevert, CommitCancel, Typed
  <2>3. stmt'[s].credit = stmt[s].credit /\ stmt[s].status # "cancelled"
    <3>1. CASE CommitPay(q)
      BY <1>1, <2>1, <3>1 DEF CommitPay, Working, Current, Typed, Row
    <3>2. CASE CommitEdit(q)
      BY <1>1, <2>1, <3>2 DEF CommitEdit, Working, Current, Typed, Row
    <3>3. CASE CommitRevert(q)
      BY <1>1, <2>1, <3>3 DEF CommitRevert, Working, Current, Typed, Row
    <3>4. CASE CommitCancel(q)
      BY <1>1, <2>1, <3>4 DEF CommitCancel, Working, Current, Typed, Row
    <3> QED BY <1>6, <3>1, <3>2, <3>3, <3>4
  <2>4. Kept' \subseteq Kept
    BY <2>2, <2>3 DEF Kept
  <2>5. \A t \in StatementId : stmt'[t].credit = stmt[t].credit
    BY <2>2, <2>3
  <2> QED BY <1>1, <1>2, <1>3, <1>4, <2>4, <2>5, ReturnKeeps
<1> QED BY <1>5, <1>6

(* While one transaction holds the vendor's credit, others hand out none. *)
LEMMA OthersUnfunded ==
  ASSUME Inv, CreditInv, NEW q \in Request, HoldsVendor(q), NEW r \in Request, r # q
  PROVE  /\ job[r].op # "apply"
         /\ job[r].op = "create" => job[r].leg # "vendor" /\ job[r].credit = 0
<1>1. ~HoldsVendor(r) /\ Funded(job[r])
  BY DEF Inv, Locked, CreditInv
<1> QED BY <1>1 DEF HoldsVendor, Working, Funded

LEMMA CreateSpends ==
  ASSUME Inv, Inv', CreditInv, NEW q \in Request, NEW s \in StatementId, CommitCreate(q, s)
  PROVE  CreditInv'
<1>1. Typed /\ Typed'
  BY DEF Inv
<1>2. PICK j \in Creating : j = job[q] /\ j.op = "create" /\ Funded(j)
  BY <1>1, Kinds DEF CommitCreate, Working, Typed, CreditInv
<1>3. /\ stmt[s].status = "none" /\ stmt[s].credit = 0
      /\ stmt'[s].status = "pending" /\ stmt'[s].credit = j.credit
      /\ \A t \in StatementId \ {s} : stmt'[t] = stmt[t]
  BY <1>1, <1>2 DEF CommitCreate, Typed, Inv, StatementsAddUp, AddsUp, Absent
<1>4. job' = [job EXCEPT ![q] = NoJob] /\ claim' = claim
  BY DEF CommitCreate, End
<1>5. job'[q] = NoJob /\ \A r \in Request \ {q} : job'[r] = job[r]
  BY <1>1, <1>4 DEF Typed
<1>6. Funded(job[q])'
  BY <1>5, NoJobIdles DEF Funded
<1>7. Kept' = Kept /\ s \in Kept
  BY <1>3 DEF Kept
<1>8. CASE j.leg = "rider"
  <2>1. \A t \in StatementId : stmt'[t].credit = stmt[t].credit
    BY <1>2, <1>3, <1>8 DEF Funded
  <2> QED BY <1>1, <1>4, <1>5, <1>6, <1>7, <2>1, ReturnKeeps
<1>9. CASE j.leg = "vendor"
  <2>1. HoldsVendor(q)
    BY <1>2, <1>9 DEF HoldsVendor, Working
  <2>2. CreditApplied' = CreditApplied + j.credit
    <3>1. CreditApplied = SumFunctionOnSet(Absorbed, Kept) /\ CreditApplied' = SumFunctionOnSet(Absorbed', Kept)
      BY <1>1, <1>7, KeptFacts, CreditTypesNext
    <3>2. PICK f, g : f = Absorbed /\ g = Absorbed'
      OBVIOUS
    <3>3. /\ \A t \in Kept : f[t] \in Int /\ g[t] \in Int
          /\ \A t \in Kept \ {s} : g[t] = f[t]
          /\ f[s] = 0 /\ g[s] = j.credit
      BY <1>1, <1>3, <3>2 DEF Absorbed, Kept, Typed, Row
    <3>4. SumFunctionOnSet(g, Kept) = SumFunctionOnSet(f, Kept) - f[s] + g[s]
      <4>1. IsFiniteSet(Kept) /\ s \in Kept
        BY <1>1, <1>7, KeptFacts
      <4>2. \A t \in Kept : f[t] \in Int /\ g[t] \in Int
        BY <3>3
      <4>3. \A t \in Kept \ {s} : g[t] = f[t]
        BY <3>3
      <4> QED BY <4>1, <4>2, <4>3, SumChange
    <3>5. CreditApplied \in Nat /\ j.credit \in Nat
      BY <1>1, KeptFacts DEF Creating
    <3> QED BY <3>1, <3>2, <3>3, <3>4, <3>5
  <2>3. VerifiedPaid' = VerifiedPaid
    BY <1>4 DEF VerifiedPaid
  <2>4. CreditSpentOnce'
    <3>1. j.credit + CreditApplied <= VerifiedPaid /\ CreditApplied \in Nat /\ j.credit \in Nat
      BY <1>1, <1>2, <1>9, KeptFacts DEF Funded, Creating
    <3> QED BY <2>2, <2>3, <3>1 DEF CreditSpentOnce
  <2>5. ASSUME NEW r \in Request PROVE Funded(job[r])'
    <3>1. CASE r = q BY <1>6, <3>1
    <3>2. CASE r # q
      BY <1>5, <2>1, <3>2, OthersUnfunded DEF Funded
    <3> QED BY <3>1, <3>2
  <2> QED BY <2>4, <2>5 DEF CreditInv
<1> QED BY <1>2, <1>8, <1>9 DEF Creating, Leg

LEMMA ApplySpends ==
  ASSUME Inv, Inv', CreditInv, NEW q \in Request, CommitApply(q)
  PROVE  CreditInv'
<1>1. Typed /\ Typed'
  BY DEF Inv
<1>2. PICK j \in Applying : j = job[q] /\ j.op = "apply" /\ Funded(j) /\ Current(j)
  BY <1>1, Kinds DEF CommitApply, Working, Typed, CreditInv, Inv, ReadsCurrent
<1>3. /\ DOMAIN j.rows \in SUBSET StatementId /\ \A s \in DOMAIN j.rows : j.rows[s] \in Row
      /\ j.claim \in Claim /\ j.credit \in Nat /\ ClaimAmount[j.claim] \in Nat
  BY SettlementAssumption DEF Applying, Rows
<1>4. /\ stmt' = [s \in StatementId |-> IF s \in DOMAIN j.rows THEN j.rows[s] ELSE stmt[s]]
      /\ job' = [job EXCEPT ![q] = NoJob]
      /\ claim' = [claim EXCEPT ![j.claim] = "verified"]
  BY <1>2 DEF CommitApply, End
<1>5. job'[q] = NoJob /\ \A r \in Request \ {q} : job'[r] = job[r]
  BY <1>1, <1>4 DEF Typed
<1>6. \A s \in StatementId : stmt'[s].status = "cancelled" <=> stmt[s].status = "cancelled"
  <2> SUFFICES ASSUME NEW s \in DOMAIN j.rows
               PROVE  j.rows[s].status = "cancelled" <=> stmt[s].status = "cancelled"
    BY <1>3, <1>4
  <2>1. PaidDownTo(stmt[s], j.rows[s]) /\ j.rows[s] \in Row
    BY <1>2, <1>3 DEF Current
  <2>2. s \in StatementId /\ stmt[s] \in Row /\ AddsUp(stmt[s], receipts[s])
    BY <1>3 DEF Inv, Typed, StatementsAddUp
  <2> QED BY <2>1, <2>2, PaidDownAddsUp
<1>7. Kept' = Kept
  BY <1>6 DEF Kept
<1>8. CreditApplied' = CreditAfter(j)
  <2>1. Absorbed' = AbsorbedAfter(j)
    BY <1>4 DEF Absorbed, AbsorbedAfter
  <2> QED BY <1>1, <1>7, <2>1, CreditTypesNext DEF CreditAfter
<1>9. VerifiedPaid' = VerifiedPaid + ClaimAmount[j.claim]
  <2>1. PICK vs : vs = {v \in Claim : claim[v] = "verified"}
    OBVIOUS
  <2>2. {v \in Claim : claim'[v] = "verified"} = vs \cup {j.claim} /\ j.claim \notin vs
    BY <1>1, <1>2, <1>3, <1>4, <2>1 DEF Funded, Typed
  <2>3. IsFiniteSet(vs) /\ \A v \in vs \cup {j.claim} : ClaimAmount[v] \in Int
    BY <1>3, <2>1, SettlementAssumption, FS_Subset
  <2>4. SumFunctionOnSet(ClaimAmount, vs \cup {j.claim})
          = SumFunctionOnSet(ClaimAmount, vs) + ClaimAmount[j.claim]
    BY <2>2, <2>3, SumAdd
  <2> QED BY <2>1, <2>2, <2>4 DEF VerifiedPaid
<1>10. CreditSpentOnce'
  <2>1. /\ j.credit + CreditAfter(j) <= VerifiedPaid + ClaimAmount[j.claim]
        /\ CreditAfter(j) \in Nat /\ VerifiedPaid \in Nat
    BY <1>1, <1>2, AfterFacts, KeptFacts DEF Funded
  <2> QED BY <1>3, <1>8, <1>9, <2>1 DEF CreditSpentOnce
<1>11. HoldsVendor(q)
  BY <1>2 DEF HoldsVendor, Working
<1>12. ASSUME NEW r \in Request PROVE Funded(job[r])'
  <2>1. CASE r = q BY <1>5, <2>1, NoJobIdles DEF Funded
  <2>2. CASE r # q
    BY <1>5, <1>11, <2>2, OthersUnfunded DEF Funded
  <2> QED BY <2>1, <2>2
<1> QED BY <1>10, <1>12 DEF CreditInv

(* Transactions opened or continued, that read credit under the vendor's lock. *)
LEMMA OpenFunds ==
  ASSUME Inv, Inv', CreditInv, UNCHANGED <<stmt, claim>>,
         NEW q \in Request, NEW j \in Job, job' = [job EXCEPT ![q] = j], Funded(j)
  PROVE  CreditInv'
<1>1. job'[q] = j /\ \A r \in Request \ {q} : job'[r] = job[r]
  BY DEF Inv, Typed
<1>2. CreditSpentOnce'
  BY DEF CreditInv, CreditSpentOnce, CreditApplied, VerifiedPaid
<1>3. ASSUME NEW r \in Request PROVE Funded(job[r])'
  <2>1. Funded(job'[r])
    BY <1>1 DEF CreditInv
  <2> QED BY <2>1 DEF Funded, CreditApplied, VerifiedPaid, CreditAfter, AbsorbedAfter, Kept
<1> QED BY <1>2, <1>3 DEF CreditInv

LEMMA BeginCreateFunds ==
  ASSUME Inv, Inv', CreditInv, NEW q \in Request, NEW leg \in Leg, NEW ids \in SUBSET Collection,
         BeginCreate(q, leg, ids)
  PROVE  CreditInv'
<1>1. PICK j : j = [op |-> "create", leg |-> leg, items |-> ids,
                    credit |-> IF leg = "vendor" THEN availableVendorCredit ELSE 0]
  OBVIOUS
<1>2. availableVendorCredit + CreditApplied <= VerifiedPaid /\ availableVendorCredit \in Nat
  BY KeptFacts, CreditTypes DEF CreditInv, CreditSpentOnce, availableVendorCredit, Inv
<1>3. Funded(j)
  BY <1>1, <1>2 DEF Funded
<1>4. j \in Job
  BY <1>1, <1>2 DEF Job, Creating
<1> QED BY <1>1, <1>3, <1>4, OpenFunds DEF BeginCreate, Begin

LEMMA BeginApplyFunds ==
  ASSUME Inv, Inv', CreditInv, NEW q \in Request, NEW v \in Claim, BeginApply(q, v)
  PROVE  CreditInv'
<1>1. PICK j : j = [op |-> "apply", claim |-> v, rows |-> <<>>,
               credit |-> IF VerifiedPaid + ClaimAmount[v] > CreditApplied
                          THEN VerifiedPaid + ClaimAmount[v] - CreditApplied ELSE 0,
               left |-> {s \in StatementId : Open(s)}]
  OBVIOUS
<1>2. DOMAIN j.rows = {} /\ j.claim = v /\ j.op = "apply"
  BY <1>1
<1>3. CreditAfter(j) = CreditApplied
  <2>1. AbsorbedAfter(j) = Absorbed
    BY <1>2 DEF AbsorbedAfter, Absorbed
  <2> QED BY <2>1, KeptFacts DEF CreditAfter, Inv
<1>4. j.credit + CreditApplied <= VerifiedPaid + ClaimAmount[v]
  BY <1>1, KeptFacts, SettlementAssumption DEF CreditInv, CreditSpentOnce, Inv
<1>5. Funded(j)
  BY <1>2, <1>3, <1>4 DEF Funded, BeginApply
<1>6. job' = [job EXCEPT ![q] = j] /\ UNCHANGED <<stmt, claim>>
  BY <1>1 DEF BeginApply, Begin
<1>7. j \in Job
  BY <1>6 DEF Inv, Typed
<1> QED BY <1>5, <1>6, <1>7, OpenFunds

LEMMA ApplyToFunds ==
  ASSUME Inv, Inv', CreditInv, NEW q \in Request, NEW s \in StatementId, ApplyTo(q, s)
  PROVE  CreditInv'
<1>1. PICK j \in Applying, row \in Row, credit \in Nat :
           /\ job' = [job EXCEPT ![q] = j]
           /\ j.op = "apply" /\ j.claim = job[q].claim /\ j.left = job[q].left \ {s}
           /\ DOMAIN j.rows = DOMAIN job[q].rows \cup {s}
           /\ j.rows[s] = row /\ \A t \in DOMAIN job[q].rows \ {s} : j.rows[t] = job[q].rows[t]
           /\ PaidDownTo(stmt[s], row) /\ j.credit = credit
           /\ credit + row.credit = job[q].credit + stmt[s].credit
  BY ApplyToStep
<1>2. PICK i \in Applying : i = job[q] /\ i.op = "apply" /\ s \in i.left /\ Funded(i)
  BY Kinds DEF ApplyTo, Working, Inv, Typed, CreditInv
<1>3. s \notin DOMAIN i.rows /\ claim[i.claim] = "pending" /\ i.claim \in Claim
  BY <1>2 DEF Funded, Applying
<1>4. stmt[s] \in Row /\ AddsUp(stmt[s], receipts[s]) /\ Typed
  BY DEF Inv, Typed, StatementsAddUp
<1>5. PICK f, g : f = AbsorbedAfter(i) /\ g = AbsorbedAfter(j)
  OBVIOUS
<1>6. f[s] = stmt[s].credit /\ g[s] = row.credit /\ \A t \in StatementId \ {s} : g[t] = f[t]
  BY <1>1, <1>2, <1>3, <1>5 DEF AbsorbedAfter
<1>7. \A t \in Kept : f[t] \in Nat /\ g[t] \in Nat
  BY <1>4, <1>5, AfterFacts
<1>8. IsFiniteSet(Kept) /\ Kept \subseteq StatementId
  BY <1>4, KeptFacts
<1>9. j.credit + SumFunctionOnSet(g, Kept) = i.credit + SumFunctionOnSet(f, Kept)
  <2>1. CASE s \in Kept
    <3>1. SumFunctionOnSet(g, Kept) = SumFunctionOnSet(f, Kept) - f[s] + g[s]
      <4>1. \A t \in Kept : f[t] \in Int /\ g[t] \in Int
        BY <1>7
      <4>2. \A t \in Kept \ {s} : g[t] = f[t]
        BY <1>6, <1>8
      <4> QED BY <1>8, <2>1, <4>1, <4>2, SumChange
    <3>2. SumFunctionOnSet(f, Kept) \in Int /\ stmt[s].credit \in Nat /\ row.credit \in Nat
          /\ i.credit \in Nat
      BY <1>4, <1>7, <1>8, SumIsNat DEF Row, Applying
    <3> QED BY <1>1, <1>2, <1>6, <3>1, <3>2
  <2>2. CASE s \notin Kept
    <3>1. row = stmt[s]
      BY <1>1, <1>4, <2>2, PaidDownAddsUp DEF Kept
    <3>2. SumFunctionOnSet(g, Kept) = SumFunctionOnSet(f, Kept)
      BY <1>6, <1>8, <2>2, SumSame
    <3>3. j.credit = i.credit
      BY <1>1, <1>2, <1>4, <3>1 DEF Row, Applying
    <3> QED BY <3>2, <3>3
  <2> QED BY <2>1, <2>2
<1>10. Funded(j)
  <2>1. j.left \cap DOMAIN j.rows = {}
    BY <1>1, <1>2 DEF Funded
  <2>2. j.credit + CreditAfter(j) <= VerifiedPaid + ClaimAmount[j.claim]
    BY <1>1, <1>2, <1>5, <1>9 DEF Funded, CreditAfter
  <2> QED BY <1>1, <1>2, <1>3, <2>1, <2>2 DEF Funded
<1>11. UNCHANGED <<stmt, claim>> /\ j \in Job
  BY DEF ApplyTo, Job
<1> QED BY <1>1, <1>10, <1>11, OpenFunds

(* The operations that open a transaction about no credit. *)
LEMMA BeginOneFunds ==
  ASSUME Inv, Inv', CreditInv, NEW q \in Request, NEW s \in StatementId,
         \/ \E amount \in Amounts(s) : BeginPay(q, s, amount)
         \/ \E ids \in SUBSET Collection : BeginEdit(q, s, ids)
         \/ BeginRevert(q, s) \/ BeginCancel(q, s)
  PROVE  CreditInv'
<1>1. \A j : Begin(q, j) => job' = [job EXCEPT ![q] = j] /\ job'[q] = j /\ UNCHANGED <<stmt, claim>>
  BY DEF Begin, Inv, Typed
<1>2. PICK j : /\ j.op \in {"pay", "edit", "revert", "cancel"} /\ j = job'[q]
               /\ job' = [job EXCEPT ![q] = j] /\ UNCHANGED <<stmt, claim>>
  <2>1. CASE \E amount \in Amounts(s) : BeginPay(q, s, amount)
    BY <1>1, <2>1 DEF BeginPay
  <2>2. CASE \E ids \in SUBSET Collection : BeginEdit(q, s, ids)
    BY <1>1, <2>2 DEF BeginEdit
  <2>3. CASE BeginRevert(q, s)
    BY <1>1, <2>3 DEF BeginRevert
  <2>4. CASE BeginCancel(q, s)
    BY <1>1, <2>4 DEF BeginCancel
  <2> QED BY <2>1, <2>2, <2>3, <2>4
<1>3. Funded(j) /\ j \in Job
  BY <1>2 DEF Funded, Inv, Typed
<1> QED BY <1>2, <1>3, OpenFunds

LEMMA RejectFunds ==
  ASSUME Inv, Inv', CreditInv, NEW v \in Claim, Reject(v)
  PROVE  CreditInv'
<1>1. /\ UNCHANGED <<stmt, job>> /\ claim' = [claim EXCEPT ![v] = "rejected"]
      /\ claim[v] = "pending" /\ claim \in [Claim -> {"pending", "verified", "rejected"}]
  BY DEF Reject, Inv, Typed
<1>2. {u \in Claim : claim'[u] = "verified"} = {u \in Claim : claim[u] = "verified"}
  BY <1>1
<1>3. VerifiedPaid' = VerifiedPaid
  BY <1>2 DEF VerifiedPaid
<1>4. CreditApplied' = CreditApplied /\ \A j : CreditAfter(j)' = CreditAfter(j)
  BY <1>1 DEF CreditApplied, CreditAfter, AbsorbedAfter, Kept
<1>5. ASSUME NEW r \in Request PROVE Funded(job[r])'
  <2>1. PICK j \in Job : j = job[r] /\ j = job'[r] /\ Funded(j)
    BY <1>1 DEF Inv, Typed, CreditInv
  <2>2. j.op = "apply" => j.claim \in Claim /\ j.claim # v
    BY <2>1, Kinds DEF Reject, Working, Applying
  <2>3. Funded(j)'
    BY <1>1, <1>3, <1>4, <2>1, <2>2 DEF Funded
  <2> QED BY <2>1, <2>3 DEF Funded
<1> QED BY <1>3, <1>4, <1>5 DEF CreditInv, CreditSpentOnce

LEMMA CreditNext ==
  ASSUME Inv, Inv', CreditInv, [Next]_vars
  PROVE  CreditInv'
<1>1. ASSUME NEW q \in Request, NEW leg \in Leg, NEW ids \in SUBSET Collection,
             BeginCreate(q, leg, ids)
      PROVE  CreditInv'
  BY <1>1, BeginCreateFunds
<1>2. ASSUME NEW q \in Request, NEW s \in StatementId,
             \/ \E amount \in Amounts(s) : BeginPay(q, s, amount)
             \/ \E ids \in SUBSET Collection : BeginEdit(q, s, ids)
             \/ BeginRevert(q, s) \/ BeginCancel(q, s)
      PROVE  CreditInv'
  BY <1>2, BeginOneFunds
<1>3. ASSUME NEW q \in Request, NEW s \in StatementId, ApplyTo(q, s)
      PROVE  CreditInv'
  BY <1>3, ApplyToFunds
<1>4. ASSUME NEW q \in Request, NEW v \in Claim, BeginApply(q, v)
      PROVE  CreditInv'
  BY <1>4, BeginApplyFunds
<1>5. ASSUME NEW q \in Request, Commit(q) \/ Rollback(q)
      PROVE  CreditInv'
  BY <1>5, CreateSpends, ApplySpends, OthersReturn DEF Commit
<1>6. ASSUME NEW v \in Claim, Reject(v)
      PROVE  CreditInv'
  BY <1>6, RejectFunds
<1>7. ASSUME UNCHANGED vars
      PROVE  CreditInv'
  <2>1. UNCHANGED <<stmt, claim, job>>
    BY <1>7 DEF vars
  <2> QED BY <2>1 DEF CreditInv, CreditSpentOnce, Funded, CreditApplied, VerifiedPaid,
                      CreditAfter, AbsorbedAfter, Kept
<1> QED BY <1>1, <1>2, <1>3, <1>4, <1>5, <1>6, <1>7 DEF Next

LEMMA InitCredit ==
  ASSUME Init
  PROVE  CreditInv
<1>1. Inv /\ Typed
  BY InitHolds DEF Inv
<1>2. \A s \in Kept : Absorbed[s] = 0
  BY <1>1, KeptFacts DEF Init, Absent, Absorbed
<1>3. CreditApplied = 0
  BY <1>1, <1>2, KeptFacts, SumOfZeros
<1>4. CreditSpentOnce
  BY <1>1, <1>3, KeptFacts DEF CreditSpentOnce
<1>5. \A q \in Request : Funded(job[q])
  BY NoJobIdles DEF Init, Funded
<1> QED BY <1>4, <1>5 DEF CreditInv

-----------------------------------------------------------------------------
(* Orders on one statement of a leg, or doubled by an edit.  What a creation is
   about to add is on no statement: the collections are locked, and an edit
   that would add one of them waits at its insert.  An edit knows no such thing. *)
Doubles == doubled \in [Leg -> SUBSET Collection]

Clear(j) ==
  j.op = "create" => \A t \in StatementId :
    stmt[t].leg = j.leg => j.items \cap stmt[t].items = {}

BillInv ==
  Doubles /\ OnlyEditsBillTwice /\ MarkedMeansSettled /\ \A q \in Request : Clear(job[q])

(* MarkedMeansSettled, one collection at a time. *)
Settles(s, leg, c) == stmt[s].leg = leg /\ stmt[s].status = "settled" /\ c \in stmt[s].items

LEMMA MarkedIff ==
  ASSUME Typed, Doubles
  PROVE  MarkedMeansSettled <=>
           \A leg \in Leg : \A c \in Collection \ doubled[leg] :
             c \in marked[leg] <=> \E s \in StatementId : Settles(s, leg, c)
<1>1. ASSUME NEW leg \in Leg
      PROVE  marked[leg] \ doubled[leg] =
               (UNION {stmt[s].items : s \in
                    {t \in StatementId : stmt[t].leg = leg /\ stmt[t].status = "settled"}})
                  \ doubled[leg]
             <=> \A c \in Collection \ doubled[leg] :
                   c \in marked[leg] <=> \E s \in StatementId : Settles(s, leg, c)
  <2>1. marked[leg] \subseteq Collection /\ \A s \in StatementId : stmt[s].items \subseteq Collection
    BY DEF Typed, Row
  <2>2. \A c : c \in UNION {stmt[s].items : s \in
                  {t \in StatementId : stmt[t].leg = leg /\ stmt[t].status = "settled"}}
          <=> \E s \in StatementId : Settles(s, leg, c)
    BY DEF Settles
  <2>3. \A s \in StatementId : \A c : Settles(s, leg, c) => c \in Collection
    BY <2>1 DEF Settles
  <2> QED BY <2>1, <2>2, <2>3
<1> QED BY <1>1 DEF MarkedMeansSettled

LEMMA MarkedIffNext ==
  ASSUME Typed', \A leg \in Leg : \A c \in Collection \ doubled'[leg] :
           c \in marked'[leg] <=> \E s \in StatementId : Settles(s, leg, c)'
  PROVE  MarkedMeansSettled'
<1> SUFFICES ASSUME NEW leg \in Leg
             PROVE  marked'[leg] \ doubled'[leg] =
                      (UNION {stmt'[s].items : s \in
                      {t \in StatementId : stmt'[t].leg = leg /\ stmt'[t].status = "settled"}})
                    \ doubled'[leg]
  BY DEF MarkedMeansSettled
<1>1. marked'[leg] \subseteq Collection /\ \A s \in StatementId : stmt'[s].items \subseteq Collection
  BY DEF Typed, Row
<1>2. \A c : c \in UNION {stmt'[s].items : s \in
                {t \in StatementId : stmt'[t].leg = leg /\ stmt'[t].status = "settled"}}
        <=> \E s \in StatementId : Settles(s, leg, c)'
  BY DEF Settles
<1>3. \A s \in StatementId : \A c : Settles(s, leg, c)' => c \in Collection
  BY <1>1 DEF Settles
<1> QED BY <1>1, <1>2, <1>3

(* A transaction opens, having read what it is about to add as eligible. *)
LEMMA OpenClears ==
  ASSUME Inv, BillInv, UNCHANGED <<stmt, marked, doubled>>,
         NEW q \in Request, NEW j, job' = [job EXCEPT ![q] = j], Clear(j)
  PROVE  BillInv'
<1>1. job'[q] = j /\ \A r \in Request \ {q} : job'[r] = job[r]
  BY DEF Inv, Typed
<1>2. Doubles' /\ OnlyEditsBillTwice' /\ MarkedMeansSettled'
  BY DEF BillInv, Doubles, OnlyEditsBillTwice, MarkedMeansSettled
<1>3. ASSUME NEW r \in Request PROVE Clear(job[r])'
  <2>1. Clear(job'[r])
    BY <1>1 DEF BillInv
  <2> QED BY <2>1 DEF Clear
<1> QED BY <1>2, <1>3 DEF BillInv

LEMMA BeginClears ==
  ASSUME Inv, BillInv, NEW q \in Request,
         \/ \E leg \in Leg, ids \in SUBSET Collection : BeginCreate(q, leg, ids)
         \/ \E s \in StatementId :
              \/ \E amount \in Amounts(s) : BeginPay(q, s, amount)
              \/ \E ids \in SUBSET Collection : BeginEdit(q, s, ids)
              \/ BeginRevert(q, s) \/ BeginCancel(q, s) \/ ApplyTo(q, s)
         \/ \E v \in Claim : BeginApply(q, v)
  PROVE  BillInv'
<1>0. \A j : Begin(q, j) =>
        job' = [job EXCEPT ![q] = j] /\ job'[q] = j /\ UNCHANGED <<stmt, marked, doubled>>
  BY DEF Begin, Inv, Typed
<1>1. ASSUME NEW leg \in Leg, NEW ids \in SUBSET Collection, BeginCreate(q, leg, ids)
      PROVE  BillInv'
  <2>1. PICK j : /\ j.op = "create" /\ j.leg = leg /\ j.items = ids
                 /\ job' = [job EXCEPT ![q] = j] /\ UNCHANGED <<stmt, marked, doubled>>
    BY <1>0, <1>1 DEF BeginCreate
  <2>2. \A t \in StatementId : stmt[t].leg = leg => ids \cap stmt[t].items = {}
    BY <1>1 DEF BeginCreate, Eligible, Earmarked
  <2>3. Clear(j)
    BY <2>1, <2>2 DEF Clear
  <2> QED BY <2>1, <2>3, OpenClears
<1>2. ASSUME NEW s \in StatementId,
             \/ \E amount \in Amounts(s) : BeginPay(q, s, amount)
             \/ \E ids \in SUBSET Collection : BeginEdit(q, s, ids)
             \/ BeginRevert(q, s) \/ BeginCancel(q, s)
      PROVE  BillInv'
  <2>1. PICK j : /\ j.op \in {"pay", "edit", "revert", "cancel"}
                 /\ job' = [job EXCEPT ![q] = j] /\ UNCHANGED <<stmt, marked, doubled>>
    <3>1. CASE \E amount \in Amounts(s) : BeginPay(q, s, amount)
      BY <1>0, <3>1 DEF BeginPay
    <3>2. CASE BeginRevert(q, s)
      BY <1>0, <3>2 DEF BeginRevert
    <3>3. CASE BeginCancel(q, s)
      BY <1>0, <3>3 DEF BeginCancel
    <3>4. CASE \E ids \in SUBSET Collection : BeginEdit(q, s, ids)
      BY <1>0, <3>4 DEF BeginEdit
    <3> QED BY <1>2, <3>1, <3>2, <3>3, <3>4
  <2>2. Clear(j)
    BY <2>1 DEF Clear
  <2> QED BY <2>1, <2>2, OpenClears
<1>3. ASSUME NEW v \in Claim, BeginApply(q, v)
      PROVE  BillInv'
  <2>1. PICK j : /\ j.op = "apply"
                 /\ job' = [job EXCEPT ![q] = j] /\ UNCHANGED <<stmt, marked, doubled>>
    BY <1>0, <1>3 DEF BeginApply
  <2>2. Clear(j)
    BY <2>1 DEF Clear
  <2> QED BY <2>1, <2>2, OpenClears
<1>4. ASSUME NEW s \in StatementId, ApplyTo(q, s)
      PROVE  BillInv'
  <2>1. PICK j \in Applying : j.op = "apply" /\ job' = [job EXCEPT ![q] = j]
    BY <1>4, ApplyToStep
  <2>2. UNCHANGED <<stmt, marked, doubled>>
    BY <1>4 DEF ApplyTo
  <2>3. Clear(j)
    BY <2>1 DEF Clear
  <2> QED BY <2>1, <2>2, <2>3, OpenClears
<1> QED BY <1>1, <1>2, <1>3, <1>4

(* A transaction ends without adding an order to any statement. *)
LEMMA EndClears ==
  ASSUME Inv, BillInv, NEW q \in Request, job' = [job EXCEPT ![q] = NoJob], doubled' = doubled,
         \A t \in StatementId : stmt'[t].leg = stmt[t].leg /\ stmt'[t].items \subseteq stmt[t].items
  PROVE  /\ Doubles' /\ OnlyEditsBillTwice' /\ \A r \in Request : Clear(job[r])'
<1>1. job'[q] = NoJob /\ \A r \in Request \ {q} : job'[r] = job[r]
  BY DEF Inv, Typed
<1>2. Doubles' /\ OnlyEditsBillTwice'
  BY DEF BillInv, Doubles, OnlyEditsBillTwice
<1>3. ASSUME NEW r \in Request PROVE Clear(job[r])'
  <2>1. CASE r = q
    BY <1>1, <2>1, NoJobIdles DEF Clear
  <2>2. CASE r # q
    BY <1>1, <2>2 DEF BillInv, Clear
  <2> QED BY <2>1, <2>2
<1> QED BY <1>2, <1>3

(* What two open creations are about to add is apart: both locked it. *)
LEMMA CreateClears ==
  ASSUME Inv, Inv', BillInv, NEW q \in Request, NEW s \in StatementId, CommitCreate(q, s)
  PROVE  BillInv'
<1>1. PICK j : j = job[q] /\ j.op = "create" /\ Clear(j)
  BY DEF CommitCreate, Working, BillInv
<1>2. /\ stmt[s].status = "none" /\ stmt'[s].status = "pending"
      /\ stmt'[s].leg = j.leg /\ stmt'[s].items = j.items
      /\ \A t \in StatementId \ {s} : stmt'[t] = stmt[t]
  BY <1>1 DEF CommitCreate, Inv, Typed
<1>3. job'[q] = NoJob /\ \A r \in Request \ {q} : job'[r] = job[r]
  BY DEF CommitCreate, End, Inv, Typed
<1>4. doubled' = doubled /\ Doubles'
  BY DEF CommitCreate, BillInv, Doubles
<1>5. OnlyEditsBillTwice'
  BY <1>1, <1>2, <1>4 DEF BillInv, OnlyEditsBillTwice, Clear
<1>6. ASSUME NEW leg \in Leg, NEW c \in Collection \ doubled[leg]
      PROVE  c \in marked'[leg] <=> \E t \in StatementId : Settles(t, leg, c)'
  <2>1. \A t \in StatementId : Settles(t, leg, c)' <=> Settles(t, leg, c)
    BY <1>2 DEF Settles
  <2>2. c \in marked[leg] <=> \E t \in StatementId : Settles(t, leg, c)
    BY MarkedIff DEF BillInv, Inv
  <2>3. marked' = marked
    BY DEF CommitCreate
  <2> QED BY <2>1, <2>2, <2>3
<1>7. MarkedMeansSettled'
  BY <1>6, MarkedIffNext DEF Inv, CommitCreate
<1>8. ASSUME NEW r \in Request PROVE Clear(job[r])'
  <2>1. CASE r = q
    BY <1>3, <2>1, NoJobIdles DEF Clear
  <2>2. CASE r # q
    <3>1. PICK i \in Job : i = job[r] /\ i = job'[r] /\ Clear(i)
      BY <1>3, <2>2 DEF BillInv, Inv, Typed
    <3>2. i.op = "create" => i.items \cap j.items = {}
      <4>1. ASSUME i.op = "create" PROVE i.items \subseteq Collection
        BY <3>1, <4>1, Kinds DEF Creating
      <4>2. i.op = "create" => \A c \in i.items \cap j.items :
                                 HoldsCollection(r, c) /\ HoldsCollection(q, c)
        BY <1>1, <3>1 DEF HoldsCollection, Working
      <4> QED BY <2>2, <4>1, <4>2 DEF Inv, Locked
    <3>3. Clear(i)'
      BY <1>2, <3>1, <3>2 DEF Clear
    <3> QED BY <3>1, <3>3 DEF Clear
  <2> QED BY <2>1, <2>2
<1> QED BY <1>4, <1>5, <1>7, <1>8 DEF BillInv

(* An order the edit adds is locked by no creation; one that another statement
   has by now is doubled. *)
LEMMA EditClears ==
  ASSUME Inv, Inv', BillInv, NEW q \in Request, CommitEdit(q)
  PROVE  BillInv'
<1>1. PICK j \in Editing, s \in StatementId :
        /\ j = job[q] /\ j.op = "edit" /\ j.id = s /\ j.row = stmt[s]
        /\ stmt[s].status = "pending"
  BY Kinds DEF CommitEdit, Working, Inv, Typed, ReadsCurrent, Current, Editing
<1>2. /\ stmt'[s].status = "pending" /\ stmt'[s].leg = stmt[s].leg /\ stmt'[s].items = j.items
      /\ \A t \in StatementId \ {s} : stmt'[t] = stmt[t]
      /\ marked' = [marked EXCEPT ![stmt[s].leg] = @ \ (stmt[s].items \ j.items)]
  BY <1>1 DEF CommitEdit, Inv, Typed, Row
<1>3. job'[q] = NoJob /\ \A r \in Request \ {q} : job'[r] = job[r]
  BY DEF CommitEdit, End, Inv, Typed
<1>4. stmt[s].leg \in Leg /\ j.items \subseteq Collection /\ stmt[s].items \subseteq Collection
  BY <1>1 DEF Inv, Typed, Row, Editing
<1>5. PICK twice :
        /\ \A c : c \in twice <=>
             /\ c \in j.items \ stmt[s].items
             /\ \E t \in StatementId \ {s} : stmt[t].leg = stmt[s].leg /\ c \in stmt[t].items
        /\ doubled' = [doubled EXCEPT ![stmt[s].leg] = @ \cup twice]
  <2>1. doubled' = [doubled EXCEPT ![stmt[s].leg] = @ \cup
          {c \in j.items \ stmt[s].items : \E t \in StatementId \ {s} :
             stmt[t].leg = stmt[s].leg /\ c \in stmt[t].items}]
    BY <1>1 DEF CommitEdit
  <2> QED BY <2>1
<1>6. /\ Doubles'
      /\ doubled'[stmt[s].leg] = doubled[stmt[s].leg] \cup twice
      /\ \A leg \in Leg : doubled[leg] \subseteq doubled'[leg]
  BY <1>4, <1>5 DEF BillInv, Doubles
<1>7. ASSUME NEW r \in Request PROVE Clear(job[r])'
  <2>1. CASE r = q
    BY <1>3, <2>1, NoJobIdles DEF Clear
  <2>2. CASE r # q
    <3>1. PICK i \in Job : i = job[r] /\ i = job'[r] /\ Clear(i)
      BY <1>3, <2>2 DEF BillInv, Inv, Typed
    <3>2. i.op = "create" => i.items \cap (j.items \ stmt[s].items) = {}
      BY <1>1, <3>1 DEF CommitEdit, lockCollections, HoldsCollection, Working
    <3>3. Clear(i)'
      BY <1>2, <3>1, <3>2 DEF Clear
    <3> QED BY <3>1, <3>3 DEF Clear
  <2> QED BY <2>1, <2>2
<1>8. OnlyEditsBillTwice'
  <2>1. ASSUME NEW t \in StatementId, t # s, stmt[t].leg = stmt[s].leg
        PROVE  j.items \cap stmt[t].items \subseteq doubled'[stmt[s].leg]
    <3>1. stmt[s].items \cap stmt[t].items \subseteq doubled[stmt[s].leg]
      BY <2>1 DEF BillInv, OnlyEditsBillTwice
    <3>2. (j.items \ stmt[s].items) \cap stmt[t].items \subseteq twice
      BY <1>5, <2>1
    <3> QED BY <1>6, <3>1, <3>2
  <2>2. ASSUME NEW t \in StatementId, NEW u \in StatementId, t # u, t # s, u # s,
               stmt[t].leg = stmt[u].leg
        PROVE  stmt[t].items \cap stmt[u].items \subseteq doubled'[stmt[t].leg]
    BY <1>6, <2>2 DEF BillInv, OnlyEditsBillTwice, Inv, Typed, Row
  <2> QED BY <1>2, <2>1, <2>2 DEF OnlyEditsBillTwice
<1>9. ASSUME NEW leg \in Leg, NEW c \in Collection \ doubled'[leg]
      PROVE  c \in marked'[leg] <=> \E t \in StatementId : Settles(t, leg, c)'
  <2>1. \A t \in StatementId : Settles(t, leg, c)' <=> Settles(t, leg, c)
    BY <1>1, <1>2 DEF Settles
  <2>2. c \notin doubled[leg]
    BY <1>6
  <2>3. c \in marked[leg] <=> \E t \in StatementId : Settles(t, leg, c)
    BY <2>2, MarkedIff DEF BillInv, Inv
  <2>4. leg = stmt[s].leg /\ c \in stmt[s].items => c \notin marked[leg]
    BY <1>1, <2>2, <2>3 DEF Settles, BillInv, OnlyEditsBillTwice
  <2>5. c \in marked'[leg] <=> c \in marked[leg]
    BY <1>2, <2>4 DEF Inv, Typed
  <2> QED BY <2>1, <2>3, <2>5
<1>10. MarkedMeansSettled'
  BY <1>9, MarkedIffNext DEF Inv
<1> QED BY <1>6, <1>7, <1>8, <1>10 DEF BillInv

LEMMA PayClears ==
  ASSUME Inv, Inv', BillInv, NEW q \in Request, CommitPay(q)
  PROVE  BillInv'
<1>1. PICK j \in Paying, s \in StatementId :
        /\ j = job[q] /\ j.op = "pay" /\ j.id = s /\ j.row = stmt[s]
        /\ stmt[s].status \in {"pending", "partially_paid"}
  BY Kinds DEF CommitPay, Working, Inv, Typed, ReadsCurrent, Current, Paying
<1>2. PICK full \in BOOLEAN : full = (Abs(j.row.payable) = j.row.paid + j.amount)
  OBVIOUS
<1>3. /\ stmt'[s].status = IF full THEN "settled" ELSE "partially_paid"
      /\ stmt'[s].leg = stmt[s].leg /\ stmt'[s].items = stmt[s].items
      /\ marked' = [marked EXCEPT ![stmt[s].leg] = IF full THEN @ \cup stmt[s].items ELSE @]
  <2>1. PICK row, paid : row \in Row /\ row = stmt[s] /\ row = j.row /\ paid = j.row.paid + j.amount
    BY <1>1 DEF Inv, Typed
  <2>2. PICK new : new = [row EXCEPT !.paid = paid,
                                     !.status = IF full THEN "settled" ELSE "partially_paid"]
    OBVIOUS
  <2>3. /\ new.status = (IF full THEN "settled" ELSE "partially_paid")
        /\ new.leg = row.leg /\ new.items = row.items
    BY <2>2 DEF Row
  <2>4. stmt' = [stmt EXCEPT ![s] = new]
    BY <1>1, <1>2, <2>1, <2>2 DEF CommitPay, Inv, Typed
  <2>5. marked' = [marked EXCEPT ![row.leg] = IF full THEN @ \cup row.items ELSE @]
    BY <1>1, <1>2, <2>1 DEF CommitPay
  <2> QED BY <2>1, <2>3, <2>4, <2>5 DEF Inv, Typed
<1>4. \A t \in StatementId \ {s} : stmt'[t] = stmt[t]
  BY <1>1 DEF CommitPay, Inv, Typed
<1>5. Doubles' /\ OnlyEditsBillTwice' /\ \A r \in Request : Clear(job[r])'
  <2>1. \A t \in StatementId : stmt'[t].leg = stmt[t].leg /\ stmt'[t].items \subseteq stmt[t].items
    BY <1>3, <1>4
  <2> QED BY <2>1, EndClears DEF CommitPay, End
<1>6. ASSUME NEW leg \in Leg, NEW c \in Collection \ doubled[leg]
      PROVE  c \in marked'[leg] <=> \E t \in StatementId : Settles(t, leg, c)'
  <2>1. \A t \in StatementId \ {s} : Settles(t, leg, c)' <=> Settles(t, leg, c)
    BY <1>4 DEF Settles
  <2>2. c \in marked[leg] <=> \E t \in StatementId : Settles(t, leg, c)
    BY MarkedIff DEF BillInv, Inv
  <2>3. /\ ~Settles(s, leg, c)
        /\ Settles(s, leg, c)' <=> full /\ leg = stmt[s].leg /\ c \in stmt[s].items
    BY <1>1, <1>3 DEF Settles
  <2>4. c \in marked'[leg] <=> c \in marked[leg] \/ (full /\ leg = stmt[s].leg /\ c \in stmt[s].items)
    BY <1>3 DEF Inv, Typed
  <2> QED BY <2>1, <2>2, <2>3, <2>4
<1>7. MarkedMeansSettled'
  BY <1>6, MarkedIffNext DEF Inv, CommitPay
<1> QED BY <1>5, <1>7 DEF BillInv

LEMMA RevertClears ==
  ASSUME Inv, Inv', BillInv, NEW q \in Request, CommitRevert(q)
  PROVE  BillInv'
<1>1. PICK j \in Undoing, s \in StatementId :
        j = job[q] /\ j.op = "revert" /\ j.id = s /\ j.row = stmt[s]
  BY Kinds DEF CommitRevert, Working, Inv, Typed, ReadsCurrent, Current, Undoing
<1>2. /\ stmt'[s].status = "pending"
      /\ stmt'[s].leg = stmt[s].leg /\ stmt'[s].items = stmt[s].items
      /\ marked' = [marked EXCEPT ![stmt[s].leg] =
                      IF stmt[s].status = "settled" THEN @ \ stmt[s].items ELSE @]
  BY <1>1 DEF CommitRevert, Inv, Typed, Row
<1>3. \A t \in StatementId \ {s} : stmt'[t] = stmt[t]
  BY <1>1 DEF CommitRevert, Inv, Typed
<1>4. Doubles' /\ OnlyEditsBillTwice' /\ \A r \in Request : Clear(job[r])'
  <2>1. \A t \in StatementId : stmt'[t].leg = stmt[t].leg /\ stmt'[t].items \subseteq stmt[t].items
    BY <1>2, <1>3
  <2> QED BY <2>1, EndClears DEF CommitRevert, End
<1>5. ASSUME NEW leg \in Leg, NEW c \in Collection \ doubled[leg]
      PROVE  c \in marked'[leg] <=> \E t \in StatementId : Settles(t, leg, c)'
  <2>1. \A t \in StatementId \ {s} : Settles(t, leg, c)' <=> Settles(t, leg, c)
    BY <1>3 DEF Settles
  <2>2. c \in marked[leg] <=> \E t \in StatementId : Settles(t, leg, c)
    BY MarkedIff DEF BillInv, Inv
  <2>3. /\ ~Settles(s, leg, c)'
        /\ Settles(s, leg, c) <=> stmt[s].status = "settled" /\ leg = stmt[s].leg /\ c \in stmt[s].items
    BY <1>2 DEF Settles
  <2>4. c \in marked'[leg] <=> c \in marked[leg] /\ ~Settles(s, leg, c)
    BY <1>2, <2>3 DEF Inv, Typed
  <2>5. Settles(s, leg, c) => \A t \in StatementId \ {s} : ~Settles(t, leg, c)
    BY DEF Settles, BillInv, OnlyEditsBillTwice
  <2> QED BY <2>1, <2>2, <2>3, <2>4, <2>5
<1>6. MarkedMeansSettled'
  BY <1>5, MarkedIffNext DEF Inv, CommitRevert
<1> QED BY <1>4, <1>6 DEF BillInv

LEMMA CancelClears ==
  ASSUME Inv, Inv', BillInv, NEW q \in Request, CommitCancel(q)
  PROVE  BillInv'
<1>1. PICK j \in Undoing, s \in StatementId :
        /\ j = job[q] /\ j.op = "cancel" /\ j.id = s /\ stmt[s].status = "pending"
  BY Kinds DEF CommitCancel, Working, Inv, Typed, ReadsCurrent, Current, Undoing
<1>2. /\ stmt'[s].status = "cancelled" /\ stmt'[s].leg = stmt[s].leg /\ stmt'[s].items = {}
      /\ \A t \in StatementId \ {s} : stmt'[t] = stmt[t]
  BY <1>1 DEF CommitCancel, Inv, Typed, Row
<1>3. Doubles' /\ OnlyEditsBillTwice' /\ \A r \in Request : Clear(job[r])'
  <2>1. \A t \in StatementId : stmt'[t].leg = stmt[t].leg /\ stmt'[t].items \subseteq stmt[t].items
    BY <1>2
  <2> QED BY <2>1, EndClears DEF CommitCancel, End
<1>4. ASSUME NEW leg \in Leg, NEW c \in Collection \ doubled[leg]
      PROVE  c \in marked'[leg] <=> \E t \in StatementId : Settles(t, leg, c)'
  <2>1. \A t \in StatementId : Settles(t, leg, c)' <=> Settles(t, leg, c)
    BY <1>1, <1>2 DEF Settles
  <2>2. c \in marked[leg] <=> \E t \in StatementId : Settles(t, leg, c)
    BY MarkedIff DEF BillInv, Inv
  <2>3. marked' = marked
    BY DEF CommitCancel
  <2> QED BY <2>1, <2>2, <2>3
<1>5. MarkedMeansSettled'
  BY <1>4, MarkedIffNext DEF Inv, CommitCancel
<1> QED BY <1>3, <1>5 DEF BillInv

(* Paying statements down marks the orders of those it settles. *)
LEMMA ApplyClears ==
  ASSUME Inv, Inv', BillInv, NEW q \in Request, CommitApply(q)
  PROVE  BillInv'
<1>1. PICK j \in Applying : j = job[q] /\ j.op = "apply" /\ Current(j)
  BY Kinds DEF CommitApply, Working, Inv, Typed, ReadsCurrent
<1>2. PICK rows : rows = j.rows /\ DOMAIN rows \subseteq StatementId
  BY DEF Applying, Rows
<1>3. /\ stmt' = [s \in StatementId |-> IF s \in DOMAIN rows THEN rows[s] ELSE stmt[s]]
      /\ marked' = [marked EXCEPT !["vendor"] = @ \cup
           UNION {rows[s].items : s \in {t \in DOMAIN rows : rows[t].status = "settled"
                                                           /\ stmt[t].status # "settled"}}]
      /\ job' = [job EXCEPT ![q] = NoJob] /\ doubled' = doubled
  BY <1>1, <1>2 DEF CommitApply, End
<1>4. ASSUME NEW s \in DOMAIN rows
      PROVE  /\ rows[s].leg = "vendor" /\ stmt[s].leg = "vendor"
             /\ rows[s].items = stmt[s].items
             /\ stmt[s].status = "settled" => rows[s].status = "settled"
  <2>1. PaidDownTo(stmt[s], rows[s]) /\ stmt[s].leg = "vendor" /\ stmt[s] \in Row
    BY <1>1, <1>2 DEF Current, Inv, Typed
  <2> QED BY <2>1 DEF PaidDownTo, Row
<1>5. \A t \in StatementId : stmt'[t].leg = stmt[t].leg /\ stmt'[t].items = stmt[t].items
  BY <1>3, <1>4
<1>6. Doubles' /\ OnlyEditsBillTwice' /\ \A r \in Request : Clear(job[r])'
  BY <1>3, <1>5, EndClears
<1>7. ASSUME NEW leg \in Leg, NEW c \in Collection \ doubled[leg]
      PROVE  c \in marked'[leg] <=> \E t \in StatementId : Settles(t, leg, c)'
  <2>1. \A t \in StatementId : Settles(t, leg, c)' <=>
          IF t \in DOMAIN rows
          THEN leg = "vendor" /\ rows[t].status = "settled" /\ c \in rows[t].items
          ELSE Settles(t, leg, c)
    BY <1>3, <1>4 DEF Settles
  <2>2. \A t \in DOMAIN rows : Settles(t, leg, c) <=>
          leg = "vendor" /\ stmt[t].status = "settled" /\ c \in rows[t].items
    BY <1>4 DEF Settles
  <2>3. c \in marked[leg] <=> \E t \in StatementId : Settles(t, leg, c)
    BY MarkedIff DEF BillInv, Inv
  <2>4. c \in marked'[leg] <=> c \in marked[leg] \/
          \E t \in DOMAIN rows : /\ leg = "vendor" /\ rows[t].status = "settled"
                                 /\ stmt[t].status # "settled" /\ c \in rows[t].items
    BY <1>3 DEF Inv, Typed
  <2> QED BY <1>2, <1>4, <2>1, <2>2, <2>3, <2>4
<1>8. MarkedMeansSettled'
  BY <1>7, MarkedIffNext DEF Inv, CommitApply
<1> QED BY <1>6, <1>8 DEF BillInv

LEMMA QuietClears ==
  ASSUME BillInv, UNCHANGED <<stmt, marked, job, doubled>>
  PROVE  BillInv'
BY DEF BillInv, Doubles, OnlyEditsBillTwice, MarkedMeansSettled, Clear

LEMMA RollbackClears ==
  ASSUME Inv, Inv', BillInv, NEW q \in Request, Rollback(q)
  PROVE  BillInv'
<1>1. UNCHANGED <<stmt, marked, doubled>> /\ job' = [job EXCEPT ![q] = NoJob]
  BY DEF Rollback, End
<1>2. Doubles' /\ OnlyEditsBillTwice' /\ \A r \in Request : Clear(job[r])'
  BY <1>1, EndClears
<1> QED BY <1>1, <1>2 DEF BillInv, MarkedMeansSettled

LEMMA BillNext ==
  ASSUME Inv, Inv', BillInv, [Next]_vars
  PROVE  BillInv'
<1>1. ASSUME NEW q \in Request, Commit(q) \/ Rollback(q)
      PROVE  BillInv'
  BY <1>1, CreateClears, PayClears, EditClears, RevertClears, CancelClears, ApplyClears,
     RollbackClears DEF Commit
<1>2. ASSUME NEW v \in Claim, Reject(v)
      PROVE  BillInv'
  BY <1>2, QuietClears DEF Reject
<1>3. ASSUME UNCHANGED vars
      PROVE  BillInv'
  BY <1>3, QuietClears DEF vars
<1> QED BY <1>1, <1>2, <1>3, BeginClears DEF Next

LEMMA InitClears ==
  ASSUME Init
  PROVE  BillInv
<1>1. \A q \in Request : job[q].op = "none"
  BY NoJobIdles DEF Init
<1>2. \A s \in StatementId : stmt[s].items = {}
  BY DEF Init, Absent
<1>3. \A q \in Request : Clear(job[q])
  BY <1>1 DEF Clear
<1>4. Doubles /\ OnlyEditsBillTwice
  BY <1>2 DEF Init, Doubles, OnlyEditsBillTwice
<1>5. MarkedMeansSettled
  BY <1>2 DEF Init, MarkedMeansSettled
<1> QED BY <1>3, <1>4, <1>5 DEF BillInv

LEMMA Billing == Spec => []BillInv
<1>1. Init => BillInv
  BY InitClears
<1>2. Inv /\ Inv' /\ BillInv /\ [Next]_vars => BillInv'
  BY BillNext
<1> QED BY <1>1, <1>2, Invariance, PTL DEF Spec

-----------------------------------------------------------------------------
(* Whatever the transactions, every row keeps the type its columns have. *)
THEOREM TypesHold == Spec => []TypeOK
<1>1. Inv /\ BillInv => TypeOK
  BY Kinds DEF Inv, Typed, TypeOK, Row, BillInv, Doubles
<1> QED BY <1>1, Invariance, Billing, PTL

(* A statement's paid total is its instalments, never more than is due, and its
   status says what is left (recordSettlementPayment, revertSettlement). *)
THEOREM PaymentsAddUp == Spec => []PaidAddsUp
<1>1. Inv => PaidAddsUp
  BY DEF Inv, StatementsAddUp, AddsUp, PaidAddsUp
<1> QED BY <1>1, Invariance, PTL

(* A live statement owes its present orders plus the credit it took, across
   edits and applied vendor payments (updateSettlement, reviewVendorPayment). *)
THEOREM PayablesAddUp == Spec => []PayableAddsUp
<1>1. Inv => PayableAddsUp
  BY DEF Inv, StatementsAddUp, AddsUp, PayableAddsUp, Live
<1> QED BY <1>1, Invariance, PTL

(* A statement's header is right on both counts, the money paid and the money
   due, in every state (recordSettlementPayment, updateSettlement). *)
THEOREM HeadersHold == Spec => []HeadersAddUp
<1>1. PaidAddsUp /\ PayableAddsUp => HeadersAddUp
  BY DEF HeadersAddUp
<1> QED BY <1>1, PaymentsAddUp, PayablesAddUp, PTL

(* Orders of a statement with payments on it stay as they are (the status
   checks of updateSettlement and cancelSettlement, under the row lock). *)
THEOREM PaidFrozen == Spec => PaidOrdersFrozen
<1>1. ASSUME Inv, [Next]_vars, NEW s \in StatementId,
             stmt[s].status \in {"partially_paid", "settled"}
      PROVE  stmt'[s].items = stmt[s].items
  <2>1. ASSUME NEW q \in Request, Commit(q) \/ Rollback(q)
        PROVE  stmt'[s].items = stmt[s].items
    BY <1>1, <2>1, CommitCloses, RollbackCloses DEF Closes
  <2>2. ASSUME NEW q \in Request, NEW leg \in Leg, NEW ids \in SUBSET Collection,
               BeginCreate(q, leg, ids)
        PROVE  stmt' = stmt
    BY <2>2 DEF BeginCreate, Begin
  <2>3. ASSUME NEW q \in Request, NEW t \in StatementId,
               \/ \E amount \in Amounts(t) : BeginPay(q, t, amount)
               \/ \E ids \in SUBSET Collection : BeginEdit(q, t, ids)
               \/ BeginRevert(q, t) \/ BeginCancel(q, t)
        PROVE  stmt' = stmt
    BY <2>3 DEF BeginPay, BeginEdit, BeginRevert, BeginCancel, Begin
  <2>4. ASSUME NEW q \in Request, NEW t \in StatementId, ApplyTo(q, t)
        PROVE  stmt' = stmt
    BY <2>4 DEF ApplyTo
  <2>5. ASSUME NEW v \in Claim, Reject(v) \/ \E q \in Request : BeginApply(q, v)
        PROVE  stmt' = stmt
    BY <2>5 DEF Reject, BeginApply, Begin
  <2>6. CASE UNCHANGED vars
    BY <2>6 DEF vars
  <2> QED BY <1>1, <2>1, <2>2, <2>3, <2>4, <2>5, <2>6 DEF Next
<1>2. Inv /\ [Next]_vars =>
        [\A s \in StatementId : stmt[s].status \in {"partially_paid", "settled"}
           => stmt'[s].items = stmt[s].items]_vars
  BY <1>1
<1> QED BY <1>2, Invariance, PTL DEF Spec, PaidOrdersFrozen

(* The same vendor credit is never spent twice: lockVendorCredit serialises the
   transactions that read it. *)
THEOREM CreditOnce == Spec => []CreditSpentOnce
<1>1. Init => CreditInv
  BY InitCredit
<1>2. Inv /\ Inv' /\ CreditInv /\ [Next]_vars => CreditInv'
  BY CreditNext
<1>3. CreditInv => CreditSpentOnce
  BY DEF CreditInv
<1> QED BY <1>1, <1>2, <1>3, Invariance, PTL DEF Spec

(* Creations, payments, reverts, cancellations and credit put no order on a
   second statement of its leg: createSettlement's locks are enough for that,
   however many transactions are open, and only updateSettlement's unlocked
   eligibility read is not. *)
THEOREM OnlyEditsDouble == Spec => []OnlyEditsBillTwice
<1>1. BillInv => OnlyEditsBillTwice
  BY DEF BillInv
<1> QED BY <1>1, Billing, PTL

(* An order no edit billed twice is marked paid exactly while a settled
   statement has it, whatever edits did to the others. *)
THEOREM MarksMeanSettled == Spec => []MarkedMeansSettled
<1>1. BillInv => MarkedMeansSettled
  BY DEF BillInv
<1> QED BY <1>1, Billing, PTL
=============================================================================
